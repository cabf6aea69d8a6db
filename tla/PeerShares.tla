----------------------------- MODULE PeerShares -----------------------------
(***************************************************************************)
(* One peer share: a server process for every authorized device and every  *)
(* one-time drop, the relay's tunnel, and the threads that stop and start  *)
(* them: the user's (GTK's, which an operation blocks until it is done)    *)
(* and one that starts the share again without a drop that was used.       *)
(* An endpoint is named by whom it serves.  Not modelled: Onion Services,  *)
(* NAT mappings, the expiry of drops, a server that ends by itself though  *)
(* it could listen.                                                        *)
(***************************************************************************)
EXTENDS Naturals, FiniteSets

CONSTANTS
  Devices,   \* devices that ask for access
  Drops,     \* one-time drops the user may create
  MaxLate    \* bound: ended servers of an endpoint whose watcher is yet to run

\* Their endpoints have names that differ: peer.py:640-644.
ASSUME SharesAssumption == Devices \intersect Drops = {}

VARIABLES
  approved,    \* share.authorized_peers
  requests,    \* _pending_requests, by the device that asks
  drops,       \* share.one_time_drops
  sharing,     \* share.enabled
  inbox,       \* drops that have received a file
  consumed,    \* markers under drop-consumed
  servers,     \* _servers: the endpoints with a record, of the newest process
  newest,      \* that process: whether it runs and has the port
  stray,       \* endpoints with an older process that runs without a record
  unrecorded,  \* ghost: endpoints whose server runs on although a late watcher of
               \* an ended one took its record
  late,        \* how many ended processes of an endpoint _watch is yet to close
  looks,       \* _drop_watch of the process that has the port, or what it saw
  tunnel,      \* _tunnels: whether the relay's process is recorded
  advertised,  \* _advertised_shares
  thread,      \* what each thread that stops or starts the share is at
  overlapped   \* ghost: two of these threads met

shareVars == <<approved, requests, drops, sharing, inbox, consumed>>
strayVars == <<stray, unrecorded>>
processVars == <<newest, strayVars, late, looks>>
recordVars == <<servers, processVars, tunnel, advertised>>
peerVars == <<shareVars, recordVars, thread, overlapped>>

User == "user"
Threads == {User} \union Drops    \* a drop's watcher becomes the thread that restarts
Endpoints == Devices \union Drops
Serving(key) == newest[key] = "listens" \/ key \in stray

Idle == [at |-> "idle", left |-> {}, task |-> "none", keep |-> {}]

PeersInit ==
  /\ approved = {} /\ requests = {} /\ drops = {} /\ sharing = TRUE
  /\ inbox = {} /\ consumed = {} /\ servers = {} /\ stray = {}
  /\ unrecorded = {}
  /\ newest = [key \in Endpoints |-> "none"] /\ late = [key \in Endpoints |-> 0]
  /\ looks = [key \in Endpoints |-> "no"]
  /\ tunnel = FALSE /\ advertised = TRUE
  /\ thread = [t \in Threads |-> Idle] /\ overlapped = FALSE

Begins(t, task, keep) ==
  /\ thread[t] = Idle
  /\ thread' = [thread EXCEPT ![t] =
                  [at |-> "stop", left |-> {}, task |-> task, keep |-> keep]]
  /\ overlapped' = (overlapped \/ \E other \in Threads : thread[other] # Idle)
Goes(t, at, left) ==
  thread' = [thread EXCEPT ![t] = [@ EXCEPT !.at = at, !.left = left]]
Ends(t) == thread' = [thread EXCEPT ![t] = Idle]

-----------------------------------------------------------------------------
(* What the network and the user ask for *)

\* _receive_access_request: only while advertised, one for a device, none for
\* one that is authorized.
AccessRequested(d) ==
  /\ advertised /\ sharing /\ d \notin requests \union approved
  /\ requests' = requests \union {d}
  /\ UNCHANGED <<approved, drops, sharing, inbox, consumed, recordVars, thread,
                 overlapped>>

\* dismiss_request; pending_requests after ten minutes
RequestDismissed(d) ==
  /\ thread[User] = Idle /\ d \in requests /\ requests' = requests \ {d}
  /\ UNCHANGED <<approved, drops, sharing, inbox, consumed, recordVars, thread,
                 overlapped>>

Approve(d) ==
  /\ d \in requests /\ Begins(User, "approve", {})
  /\ approved' = approved \union {d}
  /\ UNCHANGED <<requests, drops, sharing, inbox, consumed, recordVars>>

CreateDrop(d) ==
  /\ d \notin drops /\ Begins(User, "create", {}) /\ drops' = drops \union {d}
  /\ UNCHANGED <<approved, requests, sharing, inbox, consumed, recordVars>>

\* _save_share: which devices it keeps takes effect after the stop.
SaveShare(keep) ==
  /\ keep \subseteq approved /\ Begins(User, "save", keep)
  /\ UNCHANGED <<shareVars, recordVars>>

StopShare ==
  /\ sharing /\ Begins(User, "stop", {})
  /\ UNCHANGED <<shareVars, recordVars>>

\* A device uploads into the inbox of its drop.
Upload(d) ==
  /\ d \notin inbox /\ Serving(d)
  /\ inbox' = inbox \union {d}
  /\ UNCHANGED <<approved, requests, drops, sharing, consumed, recordVars, thread,
                 overlapped>>

-----------------------------------------------------------------------------
(* PeerManager.stop *)

TakeDown(t) ==
  /\ thread[t].at = "stop" /\ Goes(t, "list", {})
  /\ advertised' = FALSE /\ tunnel' = FALSE
  /\ UNCHANGED <<shareVars, servers, processVars, overlapped>>

ListServers(t) ==
  /\ thread[t].at = "list" /\ Goes(t, "end", servers)
  /\ UNCHANGED <<shareVars, recordVars, overlapped>>

Next1(t) == CHOOSE key \in thread[t].left : TRUE

Ended(key) ==
  /\ newest' = [newest EXCEPT ![key] = "none"]
  /\ late' = [late EXCEPT ![key] = IF @ < MaxLate THEN @ + 1 ELSE @]
  /\ looks' = [looks EXCEPT ![key] =
                 IF newest[key] = "listens" /\ @ \in {"new", "yes"} THEN "no" ELSE @]
EndServerThen(t, ends) ==
  /\ thread[t].at = "end" /\ thread[t].left # {}
  /\ IF newest[Next1(t)] # "none" /\ ends THEN Ended(Next1(t))
     ELSE UNCHANGED <<newest, late, looks>>
  /\ Goes(t, "close", thread[t].left)
  /\ UNCHANGED <<shareVars, servers, strayVars, tunnel, advertised, overlapped>>

\* (Mutant) A process that does not end in time is left to itself.
EndServerOrNot(t) == \E ends \in BOOLEAN : EndServerThen(t, ends)

\* It is terminated, and killed after eight seconds.
EndServer(t) == EndServerThen(t, TRUE)

CloseServer(t) ==
  /\ thread[t].at = "close" /\ servers' = servers \ {Next1(t)}
  /\ Goes(t, "end", thread[t].left \ {Next1(t)})
  /\ UNCHANGED <<shareVars, processVars, tunnel, advertised, overlapped>>

Stopped(t) == thread[t].at = "end" /\ thread[t].left = {}

StopEnds(t) ==
  /\ Stopped(t)
  /\ \/ thread[t].task = "stop" /\ sharing' = FALSE /\ Ends(t) /\ UNCHANGED approved
     \/ /\ thread[t].task = "raise" \/ (thread[t].task = "restart" /\ ~sharing)
        /\ Ends(t) /\ UNCHANGED <<sharing, approved>>
  /\ UNCHANGED <<requests, drops, inbox, consumed, recordVars, overlapped>>

StartFollows(t) ==
  /\ Stopped(t) /\ Goes(t, "start", {})
  /\ \/ /\ thread[t].task = "save"
        /\ approved' = thread[t].keep /\ sharing' = TRUE
     \/ /\ \/ thread[t].task \in {"approve", "create"}
           \/ thread[t].task = "restart" /\ sharing
        /\ UNCHANGED <<approved, sharing>>
  /\ UNCHANGED <<requests, drops, inbox, consumed, recordVars, overlapped>>

\* _approve_pending_peer: when the start fails the device is taken out again
\* and the share started once more.
ApprovalFails(t) ==
  /\ Stopped(t) /\ thread[t].task = "unapprove"
  /\ approved' = approved \ requests
  /\ thread' = [thread EXCEPT ![t] = [Idle EXCEPT !.at = "start", !.task = "again"]]
  /\ UNCHANGED <<requests, drops, sharing, inbox, consumed, recordVars, overlapped>>

-----------------------------------------------------------------------------
(* PeerManager.start *)

ActiveKeys == approved \union (drops \ consumed)

ReadShare(t) ==
  /\ thread[t].at = "start"
  /\ IF ActiveKeys = {} THEN Goes(t, "ready", {}) ELSE Goes(t, "spawn", ActiveKeys)
  /\ UNCHANGED <<shareVars, recordVars, overlapped>>

\* Where another process has the port, the new one cannot listen and ends soon.
\* The watchers of the drops begin when all servers are started.
Spawn(t) ==
  /\ thread[t].at = "spawn"
  /\ LET key == Next1(t)
         left == thread[t].left \ {key}
         begun == IF key \in Drops /\ ~Serving(key) THEN [looks EXCEPT ![key] = "new"]
                  ELSE looks
     IN  /\ servers' = servers \union {key}
         /\ newest' = [newest EXCEPT ![key] = IF Serving(key) THEN "deaf" ELSE "listens"]
         /\ stray' = IF newest[key] = "listens" THEN stray \union {key} ELSE stray
         /\ looks' = IF left # {} THEN begun
                     ELSE [k \in Endpoints |-> IF begun[k] = "new" THEN "yes" ELSE begun[k]]
         /\ Goes(t, IF left = {} THEN "relay" ELSE "spawn", left)
  /\ UNCHANGED <<shareVars, unrecorded, late, tunnel, advertised, overlapped>>

\* When anything raises, the share is stopped again.
Fails(t) ==
  thread' = [thread EXCEPT ![t] =
               [Idle EXCEPT !.at = "stop",
                  !.task = IF thread[t].task = "approve" THEN "unapprove" ELSE "raise"]]

SpawnFails(t) ==
  /\ thread[t].at = "spawn" /\ Fails(t)
  /\ UNCHANGED <<shareVars, recordVars, overlapped>>

StartRelay(t) ==
  /\ thread[t].at = "relay" /\ tunnel' = TRUE /\ Goes(t, "tunnel", {})
  /\ UNCHANGED <<shareVars, servers, processVars, advertised, overlapped>>

RelayHolds(t) ==
  /\ thread[t].at = "tunnel" /\ Goes(t, "ready", {})
  /\ UNCHANGED <<shareVars, recordVars, overlapped>>

\* (Mutant) The share goes on without its relay.
RelayExitsUnnoticed(t) ==
  /\ thread[t].at = "tunnel" /\ tunnel' = FALSE /\ Goes(t, "ready", {})
  /\ UNCHANGED <<shareVars, servers, processVars, advertised, overlapped>>

RelayExits(t) ==
  /\ thread[t].at = "tunnel" /\ tunnel' = FALSE /\ Fails(t)
  /\ UNCHANGED <<shareVars, servers, processVars, advertised, overlapped>>

\* A request is dismissed when its device could be started.
Advertise(t) ==
  /\ thread[t].at = "ready" /\ advertised' = TRUE /\ Ends(t)
  /\ requests' = IF thread[t].task = "approve" THEN requests \ approved ELSE requests
  /\ UNCHANGED <<approved, drops, sharing, inbox, consumed, servers, processVars,
                 tunnel, overlapped>>

-----------------------------------------------------------------------------
(* The threads that watch the processes *)

ServerExits(key) ==
  /\ newest[key] = "deaf" /\ Ended(key)
  /\ UNCHANGED <<shareVars, servers, strayVars, tunnel, advertised, thread, overlapped>>

\* _watch: the record of the endpoint goes, whichever process it names by now.
WatchEnds(key) ==
  /\ late[key] > 0 /\ late' = [late EXCEPT ![key] = @ - 1]
  /\ servers' = servers \ {key}
  /\ IF newest[key] = "listens"
     THEN stray' = stray \union {key} /\ unrecorded' = unrecorded \union {key}
     ELSE UNCHANGED strayVars
  /\ newest' = [newest EXCEPT ![key] = "none"]
  /\ UNCHANGED <<shareVars, looks, tunnel, advertised, thread, overlapped>>

\* _drop_watch: every drop's watcher looks at all drops of the share.  What it
\* sees and what it marks are two steps: two watchers may see the same file.
DropSeen(key) ==
  /\ looks[key] = "yes"
  /\ \E d \in (drops \intersect inbox) \ consumed : looks' = [looks EXCEPT ![key] = d]
  /\ UNCHANGED <<shareVars, servers, newest, strayVars, late, tunnel, advertised, thread,
                 overlapped>>

\* (Mutant) A drop is forgotten with its first file, which stays in its folder.
DropForgotten(key) ==
  /\ looks[key] \in Drops
  /\ drops' = drops \ {looks[key]} /\ consumed' = consumed \ {looks[key]}
  /\ looks' = [looks EXCEPT ![key] = "no"]
  /\ Begins(key, "restart", {})
  /\ UNCHANGED <<approved, requests, sharing, inbox, servers, newest, strayVars,
                 late, tunnel, advertised>>

DropConsumed(key) ==
  /\ looks[key] \in Drops
  /\ consumed' = consumed \union {looks[key]}
  /\ looks' = [looks EXCEPT ![key] = "no"]
  /\ Begins(key, "restart", {})
  /\ UNCHANGED <<approved, requests, drops, sharing, inbox, servers, newest, strayVars,
                 late, tunnel, advertised>>

PeersNext ==
  \/ \E d \in Devices : AccessRequested(d) \/ RequestDismissed(d) \/ Approve(d)
  \/ \E d \in Drops : CreateDrop(d) \/ Upload(d)
  \/ \E keep \in SUBSET Devices : SaveShare(keep)
  \/ StopShare
  \/ \E t \in Threads :
       \/ TakeDown(t) \/ ListServers(t) \/ EndServer(t) \/ CloseServer(t)
       \/ StopEnds(t) \/ StartFollows(t) \/ ApprovalFails(t)
       \/ ReadShare(t) \/ Spawn(t) \/ SpawnFails(t)
       \/ StartRelay(t) \/ RelayHolds(t) \/ RelayExits(t) \/ Advertise(t)
  \/ \E key \in Endpoints :
       ServerExits(key) \/ WatchEnds(key) \/ DropSeen(key) \/ (key \in Drops /\ DropConsumed(key))

-----------------------------------------------------------------------------
PeersTypeOK ==
  /\ approved \subseteq Devices /\ requests \subseteq Devices
  /\ drops \subseteq Drops /\ consumed \subseteq inbox /\ inbox \subseteq drops
  /\ {servers, stray, unrecorded} \subseteq SUBSET Endpoints
  /\ newest \in [Endpoints -> {"none", "listens", "deaf"}]
  /\ late \in [Endpoints -> 0..MaxLate]
  /\ looks \in [Endpoints -> {"no", "new", "yes"} \union Drops]
  /\ {sharing, tunnel, advertised, overlapped} \subseteq BOOLEAN
  /\ thread \in [Threads ->
       [at : {"idle", "stop", "list", "end", "close", "start", "spawn", "relay",
              "tunnel", "ready"},
        left : SUBSET Endpoints,
        task : {"none", "stop", "save", "approve", "unapprove", "again", "create",
                "restart", "raise"},
        keep : SUBSET Devices]]

\* Every server that runs is on record, so that the next stop ends it, but for those
\* whose record the late watcher of an ended process took.
NoStrayServer ==
  /\ \A key \in Endpoints : newest[key] # "none" => key \in servers
  /\ stray \subseteq unrecorded

\* A share that is advertised although it serves somebody has its relay.
AdvertisedIsReachable == (advertised /\ servers # {}) => tunnel

AtWorkToStop == \E t \in Threads : thread[t].at \in {"stop", "list", "end", "close"}

\* A drop that was used is served only while a thread is about to stop it, unless
\* its server lost its record: then nobody stops it any more.
UsedDropsAreRevoked == \A d \in consumed \ unrecorded : Serving(d) => AtWorkToStop

\* What holds as long as no two threads stop and start the share at one time.
SharesAreHeld ==
  ~overlapped => NoStrayServer /\ AdvertisedIsReachable /\ UsedDropsAreRevoked

\* Without that exception: the dialog says of a drop "It is revoked after the first
\* received file."  With one thread at a time, and none about to stop the share,
\* no drop that was used is served.
UsedDropIsRevoked == ~overlapped => \A d \in consumed : Serving(d) => AtWorkToStop
=============================================================================
