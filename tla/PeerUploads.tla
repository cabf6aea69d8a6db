----------------------------- MODULE PeerUploads -----------------------------
(***************************************************************************)
(* Devices that upload one file to a peer's share: each takes the edit     *)
(* lease that lies beside it, then sends the blocks that differ from its   *)
(* own last upload as a signed transaction, or the whole file.  The share  *)
(* applies transactions to its copy, which its owner edits as well.  A     *)
(* block is a number, a new one for each edit.  Devices have the clock in  *)
(* common.  Not modelled: sizes, several files, signatures that fail.      *)
(***************************************************************************)
EXTENDS Naturals, FiniteSets

CONSTANTS
  Senders,    \* devices
  LeaseTime,  \* job.peer_lease_minutes
  MaxClock,   \* bound: minutes
  MaxBlocks,  \* bound: blocks that are edited
  MaxSends    \* bound: transactions

ASSUME UploadsAssumption == LeaseTime \in Nat /\ "none" \notin Senders

VARIABLES
  clock,     \* minutes
  edited,    \* edits so far
  versions,  \* the file on each device
  target,    \* the file on the share
  lease,     \* the lease file: its owner, its token and until when
  queue,     \* .tuxdrive-delta: transactions
  sent,      \* transactions so far
  manifest,  \* the blocks each device sent last
  sender,    \* what each device's transfer is at, and what it has read so far
  whole,     \* ghost: what the file has been, on whatever device
  raced      \* ghost: a lease was taken, or deleted, between two steps of another

uploadVars == <<clock, edited, versions, target, lease, queue, sent, manifest, sender,
                whole, raced>>

Blocks == {1, 2}
Nothing == [b \in Blocks |-> 0]
NoLease == [owner |-> "none", token |-> 0, until |-> 0]
NotSending == [at |-> "idle", token |-> 0, until |-> 0, current |-> Nothing,
               blocks |-> Nothing, sum |-> Nothing]

UploadsInit ==
  /\ clock = 0 /\ edited = 0 /\ target = Nothing
  /\ versions = [d \in Senders |-> Nothing]
  /\ manifest = [d \in Senders |-> Nothing]
  /\ lease = NoLease /\ queue = {} /\ sent = 0
  /\ sender = [d \in Senders |-> NotSending]
  /\ whole = {Nothing} /\ raced = FALSE

Expired(held) == held.until <= clock
Step(d, at) == sender' = [sender EXCEPT ![d].at = at]
From(d, at) == sender[d].at = at

Minute ==
  /\ clock < MaxClock /\ clock' = clock + 1
  /\ UNCHANGED <<edited, versions, target, lease, queue, sent, manifest, sender, whole,
                 raced>>

EditFile(d) ==
  /\ edited < MaxBlocks /\ edited' = edited + 1
  /\ \E b \in Blocks : versions' = [versions EXCEPT ![d][b] = edited']
  /\ whole' = whole \union {versions'[d]}
  /\ UNCHANGED <<clock, target, lease, queue, sent, manifest, sender, raced>>

OwnerEdits ==
  /\ edited < MaxBlocks /\ edited' = edited + 1
  /\ \E b \in Blocks : target' = [target EXCEPT ![b] = edited']
  /\ whole' = whole \union {target'}
  /\ UNCHANGED <<clock, versions, lease, queue, sent, manifest, sender, raced>>

-----------------------------------------------------------------------------
(* PeerLeaseManager *)

Acquiring(d) == sender[d].at \in {"write", "confirm"}

\* Not another's lease that still runs.
Available(d) == Expired(lease) \/ lease.owner \in {d, "none"}

ReadLease(d) ==
  /\ From(d, "idle") /\ sent < MaxSends
  /\ Available(d) /\ Step(d, "write")
  /\ UNCHANGED <<clock, edited, versions, target, lease, queue, sent, manifest, whole,
                 raced>>

\* What cannot be read counts as no lease.
LeaseUnreadable(d) ==
  /\ From(d, "idle") /\ sent < MaxSends /\ ~Available(d)
  /\ Step(d, "write") /\ raced' = TRUE
  /\ UNCHANGED <<clock, edited, versions, target, lease, queue, sent, manifest, whole>>

WriteLease(d) ==
  /\ From(d, "write") /\ sent' = sent + 1
  /\ lease' = [owner |-> d, token |-> sent', until |-> clock + LeaseTime]
  /\ sender' = [sender EXCEPT ![d] = [@ EXCEPT !.at = "confirm", !.token = sent',
                                                !.until = clock + LeaseTime]]
  /\ raced' = (raced \/ ~Available(d) \/ \E other \in Senders \ {d} : Acquiring(other))
  /\ UNCHANGED <<clock, edited, versions, target, queue, manifest, whole>>

ConfirmLease(d) ==
  /\ From(d, "confirm")
  /\ IF lease.token = sender[d].token THEN Step(d, "signatures")
     ELSE sender' = [sender EXCEPT ![d] = NotSending]
  /\ UNCHANGED <<clock, edited, versions, target, lease, queue, sent, manifest, whole, raced>>

\* release: read, then deleted, whoever's it is by then.
ReadToRelease(d) ==
  /\ From(d, "release")
  /\ IF lease.token = sender[d].token THEN Step(d, "delete")
     ELSE sender' = [sender EXCEPT ![d] = NotSending]
  /\ UNCHANGED <<clock, edited, versions, target, lease, queue, sent, manifest, whole, raced>>

DeleteLease(d) ==
  /\ From(d, "delete") /\ sender' = [sender EXCEPT ![d] = NotSending]
  /\ lease' = NoLease /\ raced' = (raced \/ lease.token # sender[d].token)
  /\ UNCHANGED <<clock, edited, versions, target, queue, sent, manifest, whole>>

-----------------------------------------------------------------------------
(* transfer_peer_delta: the file is read three times *)

ReadSignatures(d) ==
  /\ From(d, "signatures")
  /\ sender' = [sender EXCEPT ![d] = [@ EXCEPT !.at = "blocks", !.current = versions[d]]]
  /\ UNCHANGED <<clock, edited, versions, target, lease, queue, sent, manifest, whole, raced>>

Changed(d) == {b \in Blocks : sender[d].current[b] # manifest[d][b]}

ReadBlocks(d) ==
  /\ From(d, "blocks")
  /\ sender' = [sender EXCEPT ![d] = [@ EXCEPT !.at = "sum", !.blocks = versions[d]]]
  /\ UNCHANGED <<clock, edited, versions, target, lease, queue, sent, manifest, whole, raced>>

ReadSum(d) ==
  /\ From(d, "sum")
  /\ sender' = [sender EXCEPT ![d] = [@ EXCEPT !.at = "send", !.sum = versions[d]]]
  /\ UNCHANGED <<clock, edited, versions, target, lease, queue, sent, manifest, whole, raced>>

\* The instruction comes after its blocks, so that the share sees both or none.
SendTransaction(d) ==
  /\ From(d, "send") /\ Step(d, "manifest")
  /\ queue' = queue \union
       {[digests |-> [b \in Changed(d) |-> sender[d].current[b]],
         blocks  |-> [b \in Changed(d) |-> sender[d].blocks[b]],
         sum     |-> sender[d].sum]}
  /\ UNCHANGED <<clock, edited, versions, target, lease, sent, manifest, whole, raced>>

SaveManifest(d) ==
  /\ From(d, "manifest") /\ Step(d, "release")
  /\ manifest' = [manifest EXCEPT ![d] = sender[d].current]
  /\ UNCHANGED <<clock, edited, versions, target, lease, queue, sent, whole, raced>>

\* The delta is refused somewhere: the whole file goes, and rclone replaces the
\* target in one step.
FullTransfer(d) ==
  /\ sender[d].at \in {"signatures", "send"} /\ Step(d, "release")
  /\ target' = versions[d]
  /\ UNCHANGED <<clock, edited, versions, lease, queue, sent, manifest, whole, raced>>

\* The device is switched off, or the delta raises: the lease stays.
TransferEnds(d) ==
  /\ ~From(d, "idle") /\ sender' = [sender EXCEPT ![d] = NotSending]
  /\ UNCHANGED <<clock, edited, versions, target, lease, queue, sent, manifest, whole, raced>>

-----------------------------------------------------------------------------
(* _delta_watch and _apply_delta_transaction *)

Patched(base, blocks) ==
  [b \in Blocks |-> IF b \in DOMAIN blocks THEN blocks[b] ELSE base[b]]

\* (Mutant) Blocks that are sound each for itself are enough.
BlocksSound(transaction) == transaction.blocks = transaction.digests

\* Sound in every block and as a whole.
Sound(transaction) ==
  /\ transaction.blocks = transaction.digests
  /\ Patched(target, transaction.blocks) = transaction.sum

\* A transaction that does not fit is left and tried again for ever.
ApplyTransaction(transaction, removed) ==
  /\ Sound(transaction) /\ target' = Patched(target, transaction.blocks)
  /\ queue' = IF removed THEN queue \ {transaction} ELSE queue
  /\ UNCHANGED <<clock, edited, versions, lease, sent, manifest, sender, whole, raced>>

UploadsNext ==
  \/ Minute \/ OwnerEdits
  \/ \E d \in Senders :
       \/ EditFile(d) \/ ReadLease(d) \/ LeaseUnreadable(d) \/ WriteLease(d)
       \/ ConfirmLease(d) \/ ReadToRelease(d) \/ DeleteLease(d)
       \/ ReadSignatures(d) \/ ReadBlocks(d) \/ ReadSum(d)
       \/ SendTransaction(d) \/ SaveManifest(d) \/ FullTransfer(d) \/ TransferEnds(d)
  \/ \E transaction \in queue, removed \in BOOLEAN : ApplyTransaction(transaction, removed)

UploadsSpec == UploadsInit /\ [][UploadsNext]_uploadVars

-----------------------------------------------------------------------------
Contents == [Blocks -> 0..MaxBlocks]

UploadsTypeOK ==
  /\ clock \in 0..MaxClock /\ edited \in 0..MaxBlocks
  /\ sent \in 0..(MaxSends + Cardinality(Senders))
  /\ versions \in [Senders -> Contents] /\ manifest \in [Senders -> Contents]
  /\ target \in Contents /\ whole \subseteq Contents /\ raced \in BOOLEAN
  /\ lease.owner \in Senders \union {"none"} /\ lease.token \in 0..sent
  /\ \A d \in Senders :
       /\ sender[d].at \in {"idle", "write", "confirm", "signatures", "blocks", "sum",
                            "send", "manifest", "release", "delete"}
       /\ {sender[d].current, sender[d].blocks, sender[d].sum} \subseteq Contents
  /\ \A transaction \in queue : transaction.sum \in Contents

Uploading(d) ==
  sender[d].at \in {"signatures", "blocks", "sum", "send", "manifest", "release", "delete"}

\* The share's file is at every moment one that some device had as a whole, in
\* whatever order transactions of edits read half-way, of several devices and of
\* a device that never saw the owner's edits are applied, and applied again; and
\* two devices upload at once only when a lease has run out meanwhile, or the
\* lease file was written or deleted between two steps of another.
PeerEditsAreWhole ==
  /\ target \in whole
  /\ ~raced => \A d, other \in Senders :
       (d # other /\ Uploading(d) /\ Uploading(other)) =>
         clock >= sender[d].until \/ clock >= sender[other].until
=============================================================================
