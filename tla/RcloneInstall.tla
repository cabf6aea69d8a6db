---------------------------- MODULE RcloneInstall ----------------------------
(***************************************************************************)
(* How the program gets a copy of rclone of its own (bootstrap.py): every  *)
(* thread that is to start rclone looks for one that can do what is        *)
(* needed, and else downloads one and puts it in place.  Nothing keeps two *)
(* threads, or two programs, from doing so at once.  Not modelled: copies  *)
(* of rclone elsewhere, which are taken to be too old, and the archive,    *)
(* which each thread has for itself and verifies.                          *)
(***************************************************************************)
EXTENDS Naturals, FiniteSets

CONSTANTS Installers   \* threads

VARIABLES
  installing,  \* where each thread is
  output,      \* the file each has opened
  executable,  \* the file at user_rclone_path
  newFile,     \* the one beside it, with the suffix .new
  writer,      \* of each file, who has opened it last: it was empty then
  complete,    \* files that hold all of rclone
  handed,      \* ghost: files that were handed to be run while not complete
  shared       \* ghost: two threads had the .new file at once

runtimeVars == <<installing, output, executable, newFile, writer, complete, handed, shared>>

RcloneFiles == 1..(2 * Cardinality(Installers) + 2)
NoRclone == 0
Nobody == "nobody"

RcloneInit ==
  /\ installing = [t \in Installers |-> "no"] /\ output = [t \in Installers |-> NoRclone]
  /\ executable = NoRclone /\ newFile = NoRclone
  /\ writer = [f \in RcloneFiles |-> Nobody] /\ complete = {}
  /\ handed = {} /\ shared = FALSE

Moves(t, from, to) ==
  installing[t] = from /\ installing' = [installing EXCEPT ![t] = to]

\* (Mutant) Any file that is there will do.
Executable(file) == file # NoRclone

\* rclone_compatible: its version and its help are asked for.
Compatible(file) == file \in complete

\* resolve_rclone, then install_rclone
Resolve(t) ==
  /\ IF Compatible(executable)
     THEN /\ installing[t] = "no" /\ UNCHANGED installing
          /\ handed' = handed \union ({executable} \ complete)
     ELSE Moves(t, "no", "extract") /\ UNCHANGED handed
  /\ UNCHANGED <<output, executable, newFile, writer, complete, shared>>

\* The first number that no file has which somebody still knows.
Known == {executable, newFile} \union {output[t] : t \in Installers}
Unused(f) == f \notin Known /\ 1..(f - 1) \subseteq Known

\* Opened for writing: a .new that is there already is emptied.
OpenNew(t) ==
  /\ Moves(t, "extract", "write")
  /\ \E f \in RcloneFiles :
       /\ IF newFile = NoRclone THEN Unused(f) ELSE f = newFile
       /\ newFile' = f /\ output' = [output EXCEPT ![t] = f]
       /\ writer' = [writer EXCEPT ![f] = t] /\ complete' = complete \ {f}
  /\ shared' = (shared \/ \E u \in Installers \ {t} : installing[u] \in {"write", "move"})
  /\ UNCHANGED <<executable, handed>>

\* What another has emptied since is complete when that one has written it.
WriteNew(t) ==
  /\ Moves(t, "write", "move")
  /\ complete' = IF writer[output[t]] = t THEN complete \union {output[t]} ELSE complete
  /\ UNCHANGED <<output, executable, newFile, writer, handed, shared>>

\* What is at the name .new, handed to the caller without another look.
MoveNew(t) ==
  /\ Moves(t, "move", "no") /\ newFile # NoRclone
  /\ executable' = newFile /\ newFile' = NoRclone
  /\ output' = [output EXCEPT ![t] = NoRclone]
  /\ handed' = handed \union ({newFile} \ complete)
  /\ UNCHANGED <<writer, complete, shared>>

\* No connection, another digest, no room, or .new is gone; nothing is cleaned up.
RcloneFails(t) ==
  /\ installing[t] # "no" /\ installing' = [installing EXCEPT ![t] = "no"]
  /\ output' = [output EXCEPT ![t] = NoRclone]
  /\ UNCHANGED <<executable, newFile, writer, complete, handed, shared>>

\* The computer stops; what was not on the disk yet is missing.
PowerFails ==
  /\ installing' = [t \in Installers |-> "no"] /\ output' = [t \in Installers |-> NoRclone]
  /\ complete' = {}
  /\ UNCHANGED <<executable, newFile, writer, handed, shared>>

RcloneNext ==
  \/ \E t \in Installers :
       Resolve(t) \/ OpenNew(t) \/ WriteNew(t) \/ MoveNew(t) \/ RcloneFails(t)
  \/ PowerFails

RcloneSpec == RcloneInit /\ [][RcloneNext]_runtimeVars

-----------------------------------------------------------------------------
RcloneTypeOK ==
  /\ installing \in [Installers -> {"no", "extract", "write", "move"}]
  /\ output \in [Installers -> RcloneFiles \union {NoRclone}]
  /\ {executable, newFile} \subseteq RcloneFiles \union {NoRclone}
  /\ writer \in [RcloneFiles -> Installers \union {Nobody}]
  /\ complete \subseteq RcloneFiles /\ handed \subseteq RcloneFiles
  /\ shared \in BOOLEAN

\* No transfer is given half a copy of rclone, whatever was cut off before, as long
\* as no two threads install at once.
RcloneIsWhole == ~shared => handed = {}
=============================================================================
