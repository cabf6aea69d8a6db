---------------------------- MODULE Collaboration ----------------------------
(***************************************************************************)
(* Collaborative text: every device keeps the document as a folder of      *)
(* immutable operation files, which the ordinary synchronizer carries one  *)
(* by one and in any order; an open editor works on the operations it      *)
(* loaded (TextCRDT) and on the text the user sees.  A device is its       *)
(* writer's number: two devices of one name are not modelled.              *)
(***************************************************************************)
EXTENDS Naturals, FiniteSets, Sequences, SequencesExt

CONSTANTS
  Writers,        \* the devices that edit, numbers from 1 on
  Letters,        \* what the user can type
  Source,         \* the ordinary file when the document is first opened
  MaxOperations,  \* MAX_OPERATIONS: more of them and the document is refused
  MaxEdits,       \* bound: keystrokes, on all devices together
  FilesMayFail    \* the devices on which writing an operation file may fail

ASSUME CollabAssumption ==
  Writers \subseteq Nat \ {0} /\ Source \in Seq(Letters)

VARIABLES
  files,    \* operation files in each device's folder
  isOpen,   \* whether the editor is open
  ops,      \* TextCRDT.operations: what the open editor has in memory
  counter,  \* TextCRDT.counter
  editor,   \* the text in the editor
  edits     \* keystrokes so far

collabVars == <<files, isOpen, ops, counter, editor, edits>>

ROOT == <<0, 0>>
OpId(op) == <<op.counter, op.actor>>
Before(op, other) ==
  \/ op.counter < other.counter
  \/ op.counter = other.counter /\ op.actor < other.actor

Inserts(S) == {op \in S : op.kind = "insert"}
Insertion(w, n, after, letter) ==
  [kind |-> "insert", actor |-> w, counter |-> n, after |-> after, value |-> letter]
Deletion(w, n, target) ==
  [kind |-> "delete", actor |-> w, counter |-> n, after |-> target, value |-> 0]

-----------------------------------------------------------------------------
(* TextCRDT: the text of a set of operations *)

\* (Mutant) A deleted character no longer holds the place of those after it.
ParentUnlessDeleted(op, S) ==
  IF \E other \in Inserts(S) :
       /\ OpId(other) = op.after
       /\ \A del \in S \ Inserts(S) : del.after # op.after
  THEN op.after ELSE ROOT

\* An insertion whose neighbour has not arrived yet hangs from the beginning.
Parent(op, S) ==
  IF \E other \in Inserts(S) : OpId(other) = op.after THEN op.after ELSE ROOT

\* ordered_ids: depth first, siblings by counter, then by actor; of that order
\* the operations in shown.
ChildrenOf(id, S) == {op \in Inserts(S) : Parent(op, S) = id}
First(siblings) == CHOOSE op \in siblings : \A other \in siblings \ {op} : Before(op, other)
TextOrder(S, shown) ==
  LET Forest[siblings \in SUBSET S] ==
        IF siblings = {} THEN <<>>
        ELSE LET first == First(siblings)
             IN  (IF first \in shown THEN <<first>> ELSE <<>>)
                   \o Forest[ChildrenOf(OpId(first), S)]
                   \o Forest[siblings \ {first}]
  IN  Forest[ChildrenOf(ROOT, S)]
Ordered(S) == TextOrder(S, S)
Visible(S) ==
  TextOrder(S, {op \in Inserts(S) : \A del \in S \ Inserts(S) : del.after # OpId(op)})
Text(S) == LET seen == Visible(S) IN [i \in 1..Len(seen) |-> seen[i].value]

\* replace: what lies between the common prefix and the common suffix is
\* deleted, the new text inserted there, each character after the one before.
CommonPrefix(old, new) ==
  CHOOSE n \in 0..Len(old) :
    /\ n <= Len(new) /\ SubSeq(old, 1, n) = SubSeq(new, 1, n)
    /\ (n < Len(old) /\ n < Len(new)) => old[n + 1] # new[n + 1]
CommonSuffix(old, new) == CommonPrefix(Reverse(old), Reverse(new))

Replacement(w, S, n, value) ==
  LET seen == Visible(S)
      old == [i \in 1..Len(seen) |-> seen[i].value]
      prefix == CommonPrefix(old, value)
      rest(text) == SubSeq(text, prefix + 1, Len(text))
      suffix == CommonSuffix(rest(old), rest(value))
      gone == Len(old) - suffix - prefix
      dels == {Deletion(w, n + i, OpId(seen[prefix + i])) : i \in 1..gone}
      place == IF prefix = 0 THEN ROOT ELSE OpId(seen[prefix])
      first == n + gone + 1
  IN  dels \union
      {Insertion(w, first + i, IF i = 0 THEN place ELSE <<first + i - 1, w>>,
                 value[prefix + 1 + i]) :
         i \in 0..(Len(value) - suffix - prefix - 1)}

Loads(S) == Cardinality(S) <= MaxOperations
OwnCounter(w, S) == IF \E op \in S : op.actor = w
                    THEN CHOOSE n \in {op.counter : op \in S} :
                           /\ \E op \in S : op.actor = w /\ op.counter = n
                           /\ \A op \in S : op.actor = w => op.counter <= n
                    ELSE 0

-----------------------------------------------------------------------------
CollabInit ==
  /\ files = [w \in Writers |-> {}]
  /\ isOpen = [w \in Writers |-> FALSE]
  /\ ops = [w \in Writers |-> {}] /\ counter = [w \in Writers |-> 0]
  /\ editor = [w \in Writers |-> <<>>]
  /\ edits = 0

\* The editor takes over the operations of the folder and shows their text.
Adopt(w, S) ==
  /\ ops' = [ops EXCEPT ![w] = S]
  /\ counter' = [counter EXCEPT ![w] = OwnCounter(w, S)]
  /\ editor' = [editor EXCEPT ![w] = Text(S)]

\* import_checkpoint: the ordinary file becomes operations where there are none.
Open(w) ==
  /\ ~isOpen[w] /\ Loads(files[w])
  /\ files' = [files EXCEPT ![w] =
                 IF @ = {} THEN Replacement(w, {}, 0, Source) ELSE @]
  /\ Loads(files'[w]) /\ Adopt(w, files'[w])
  /\ isOpen' = [isOpen EXCEPT ![w] = TRUE]
  /\ UNCHANGED edits

\* The dialog is closed; an autosave still to come is not made.
Close(w) ==
  /\ isOpen[w]
  /\ isOpen' = [isOpen EXCEPT ![w] = FALSE]
  /\ ops' = [ops EXCEPT ![w] = {}] /\ counter' = [counter EXCEPT ![w] = 0]
  /\ editor' = [editor EXCEPT ![w] = <<>>]
  /\ UNCHANGED <<files, edits>>

Type(w) ==
  /\ isOpen[w] /\ edits < MaxEdits /\ edits' = edits + 1
  /\ \/ \E i \in 1..(Len(editor[w]) + 1), letter \in Letters :
          editor' = [editor EXCEPT ![w] = InsertAt(@, i, letter)]
     \/ \E i \in 1..Len(editor[w]) : editor' = [editor EXCEPT ![w] = RemoveAt(@, i)]
  /\ UNCHANGED <<files, isOpen, ops, counter>>

\* persist(replace(text)): the operations are in memory first, then written one
\* by one; the first that cannot be written ends it.
Unsaved(w) == Replacement(w, ops[w], counter[w], editor[w])

Record(w, created, written) ==
  /\ ops' = [ops EXCEPT ![w] = @ \union created]
  /\ counter' = [counter EXCEPT ![w] = @ + Cardinality(created)]
  /\ files' = [files EXCEPT ![w] =
                 @ \union {op \in created : op.counter <= counter[w] + written}]

Autosave(w) ==
  LET created == Unsaved(w) IN
    /\ isOpen[w] /\ Record(w, created, Cardinality(created))
    /\ UNCHANGED <<isOpen, editor, edits>>

AutosaveFails(w) ==
  LET created == Unsaved(w) IN
    /\ w \in FilesMayFail /\ isOpen[w]
    /\ \E written \in 0..(Cardinality(created) - 1) : Record(w, created, written)
    /\ UNCHANGED <<isOpen, editor, edits>>

\* _poll_remote: what the folder holds replaces what the editor shows.
Poll(w) ==
  /\ isOpen[w] /\ Loads(files[w])
  /\ Text(files[w]) # Text(ops[w]) /\ Adopt(w, files[w])
  /\ UNCHANGED <<files, isOpen, edits>>

\* _merge: the user's text is recorded, then all operations are loaded.
Saved(w) == files[w] \union Unsaved(w)

Merge(w) ==
  LET saved == Saved(w) IN
    /\ isOpen[w] /\ Loads(saved)
    /\ files' = [files EXCEPT ![w] = saved]
    /\ Adopt(w, saved)
    /\ UNCHANGED <<isOpen, edits>>

\* _export: as a merge, but the editor keeps its text.  The ordinary file it
\* replaces is read again by nobody here.
Export(w) ==
  LET saved == Saved(w) IN
    /\ isOpen[w] /\ Loads(saved)
    /\ files' = [files EXCEPT ![w] = saved]
    /\ ops' = [ops EXCEPT ![w] = saved]
    /\ counter' = [counter EXCEPT ![w] = OwnCounter(w, saved)]
    /\ UNCHANGED <<isOpen, editor, edits>>

\* The synchronizer carries one operation file to another device.
Deliver(w, other) ==
  /\ \E op \in files[w] \ files[other] :
       files' = [files EXCEPT ![other] = @ \union {op}]
  /\ UNCHANGED <<isOpen, ops, counter, editor, edits>>

CollabNext ==
  \E w \in Writers :
    \/ Open(w) \/ Close(w) \/ Type(w) \/ Autosave(w) \/ AutosaveFails(w)
    \/ Poll(w) \/ Merge(w) \/ Export(w)
    \/ \E other \in Writers \ {w} : Deliver(w, other)

-----------------------------------------------------------------------------
OperationType ==
  [kind : {"insert", "delete"}, actor : Writers, counter : Nat \ {0},
   after : {ROOT} \union ((Nat \ {0}) \X Writers), value : Letters \union {0}]

CollabTypeOK ==
  /\ \A w \in Writers :
       /\ files[w] \subseteq OperationType /\ ops[w] \subseteq OperationType
       /\ editor[w] \in Seq(Letters)
       /\ counter[w] \in Nat
  /\ isOpen \in [Writers -> BOOLEAN] /\ edits \in 0..MaxEdits

\* Nothing that was inserted is out of the text's reach, in whatever order the
\* files arrive and whichever of them are missing: ordered_ids never refuses a
\* document made by its own editors.
NothingUnreachable ==
  \A w \in Writers : Len(Ordered(files[w])) = Cardinality(Inserts(files[w]))

\* Two devices that have every neighbour of what they have agree on the order
\* of all they share, also while each knows what the other does not.
Complete(S) ==
  \A op \in Inserts(S) : op.after \in {ROOT} \union {OpId(other) : other \in Inserts(S)}
OrdersAgree ==
  LET whole == {w \in Writers : Complete(files[w])}
      common(w, other) == TextOrder(files[w], files[other])
  IN  \A w, other \in whole : w < other => common(w, other) = common(other, w)

\* Every device can read its document, and no two of them see two characters in
\* different orders.
DocumentsAgree == NothingUnreachable /\ OrdersAgree

\* Merging on a device that knows of no other's operations leaves the text the
\* user typed as it is.
MergeKeepsOwnText ==
  [][\A w \in Writers :
       (Merge(w) /\ \A op \in files[w] : op.actor = w) => editor'[w] = editor[w]]_collabVars

CollabSpec == CollabInit /\ [][CollabNext]_collabVars
=============================================================================
