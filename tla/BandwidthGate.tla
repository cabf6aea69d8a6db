---------------------------- MODULE BandwidthGate ----------------------------
(***************************************************************************)
(* The transfer gate of bandwidth.py: GlobalBandwidthController.guard.     *)
(*                                                                         *)
(* A thread that enters appends itself to _waiters and then, still under   *)
(* the condition variable, looks at the queue.  It is admitted when it is  *)
(* the first of the smallest priority number and its slots are free; else  *)
(* it gives up if its deadline has passed; else it waits.  Releasing and   *)
(* giving up call notify_all; being admitted notifies nobody.              *)
(*                                                                         *)
(* One action is one critical section of the condition variable.  "asleep" *)
(* is a thread inside Condition.wait, "ready" one that was notified or     *)
(* timed out and has yet to take the lock again.                           *)
(***************************************************************************)
EXTENDS Naturals, Sequences, FiniteSets

CONSTANTS Threads,
          MaxActive,    \* max_active of the controller
          Requests      \* the keyword arguments the callers of guard use

ASSUME GateAssumption ==
  /\ MaxActive \in Nat \ {0}
  /\ Requests \subseteq [priority : Nat, exclusive : BOOLEAN, timed : BOOLEAN]
  /\ Requests # {}

VARIABLES available,    \* _available_slots
          waiters,      \* _waiters: the queued tokens, in order of arrival
          pc,           \* where each thread stands in guard
          request,      \* the arguments of the thread's current call
          late          \* threads whose deadline has passed

vars == <<available, waiters, pc, request, late>>

\* (Mutant) An exclusive request takes a single slot.
CountOne(r) == 1

Count(r) == IF r.exclusive THEN MaxActive ELSE 1

\* A stable sort on the priority number would put queue position i first.
IsFirst(queue, req, i) ==
  /\ \A k \in 1..(i - 1) : req[queue[k]].priority > req[queue[i]].priority
  /\ \A k \in (i + 1)..Len(queue) :
        req[queue[k]].priority >= req[queue[i]].priority

\* (Mutant) Whoever looks while slots are free takes them.
FitsAnyone(queue, req, i) == available >= Count(req[queue[i]])

\* The test at the top of guard's loop for the thread at position i.
Fits(queue, req, i) ==
  IsFirst(queue, req, i) /\ available >= Count(req[queue[i]])

Dequeue(queue, i) == SubSeq(queue, 1, i - 1) \o SubSeq(queue, i + 1, Len(queue))

\* (Mutant) notify for notify_all: only the longest sleeper is woken.
NotifyOne(at) ==
  LET sleeping == {i \in DOMAIN waiters : at[waiters[i]] = "asleep"} IN
  [t \in Threads |->
     IF \E i \in sleeping : waiters[i] = t /\ \A k \in sleeping : i <= k
     THEN "ready" ELSE at[t]]

\* Condition.notify_all
NotifyAll(at) ==
  [t \in Threads |-> IF at[t] = "asleep" THEN "ready" ELSE at[t]]

Holders == {t \in Threads : pc[t] = "holding"}
Waiting == {t \in Threads : pc[t] \in {"asleep", "ready"}}

-----------------------------------------------------------------------------
Init ==
  /\ available = MaxActive
  /\ waiters = <<>>
  /\ pc = [t \in Threads |-> "idle"]
  /\ request = [t \in Threads |-> CHOOSE r \in Requests : TRUE]
  /\ late = {}

\* guard is called: append, then the first pass of the loop.
EnterAndGo(t, r) ==
  LET queue == Append(waiters, t)
      req == [request EXCEPT ![t] = r] IN
  /\ pc[t] = "idle"
  /\ Fits(queue, req, Len(queue))
  /\ request' = req
  /\ available' = available - Count(r)
  /\ pc' = [pc EXCEPT ![t] = "holding"]
  /\ UNCHANGED <<waiters, late>>

EnterAndWait(t, r) ==
  LET queue == Append(waiters, t)
      req == [request EXCEPT ![t] = r] IN
  /\ pc[t] = "idle"
  /\ ~Fits(queue, req, Len(queue))
  /\ request' = req
  /\ waiters' = queue
  /\ pc' = [pc EXCEPT ![t] = "asleep"]
  /\ UNCHANGED <<available, late>>

\* A woken thread's pass of the loop, at its position i of the queue.
Admit(t, i) ==
  /\ pc[t] = "ready" /\ waiters[i] = t
  /\ Fits(waiters, request, i)
  /\ waiters' = Dequeue(waiters, i)
  /\ available' = available - Count(request[t])
  /\ pc' = [pc EXCEPT ![t] = "holding"]
  /\ late' = late \ {t}
  /\ UNCHANGED request

\* (Mutant) The token stays in the queue when its thread has left.
GiveUpQueued(t, i) ==
  /\ pc[t] = "ready" /\ waiters[i] = t
  /\ ~Fits(waiters, request, i)
  /\ t \in late
  /\ pc' = NotifyAll([pc EXCEPT ![t] = "idle"])
  /\ late' = late \ {t}
  /\ UNCHANGED <<available, waiters, request>>

\* The deadline is looked at only after admission was: TimeoutError.
GiveUp(t, i) ==
  /\ pc[t] = "ready" /\ waiters[i] = t
  /\ ~Fits(waiters, request, i)
  /\ t \in late
  /\ waiters' = Dequeue(waiters, i)
  /\ pc' = NotifyAll([pc EXCEPT ![t] = "idle"])
  /\ late' = late \ {t}
  /\ UNCHANGED <<available, request>>

SleepAgain(t, i) ==
  /\ pc[t] = "ready" /\ waiters[i] = t
  /\ ~Fits(waiters, request, i)
  /\ t \notin late
  /\ pc' = [pc EXCEPT ![t] = "asleep"]
  /\ UNCHANGED <<available, waiters, request, late>>

\* (Mutant) The timeout starts again with every wait.
DeadlineRestarts(t) ==
  /\ t \in Waiting \ late
  /\ request[t].timed
  /\ pc' = [pc EXCEPT ![t] = "ready"]
  /\ UNCHANGED <<available, waiters, request, late>>

\* The ten minutes of a timed request run out; Condition.wait returns.
DeadlinePasses(t) ==
  /\ t \in Waiting \ late
  /\ request[t].timed
  /\ late' = late \union {t}
  /\ pc' = [pc EXCEPT ![t] = "ready"]
  /\ UNCHANGED <<available, waiters, request>>

\* (Mutant) Only a timeout notifies.
ReleaseSilently(t) ==
  /\ pc[t] = "holding"
  /\ available' = available + Count(request[t])
  /\ pc' = [pc EXCEPT ![t] = "idle"]
  /\ UNCHANGED <<waiters, request, late>>

\* The finally clause of guard.
Release(t) ==
  /\ pc[t] = "holding"
  /\ available' = available + Count(request[t])
  /\ pc' = NotifyAll([pc EXCEPT ![t] = "idle"])
  /\ UNCHANGED <<waiters, request, late>>

Recheck(t) ==
  \E i \in DOMAIN waiters : Admit(t, i) \/ GiveUp(t, i) \/ SleepAgain(t, i)

Next ==
  \E t \in Threads :
    \/ \E r \in Requests : EnterAndGo(t, r) \/ EnterAndWait(t, r)
    \/ Recheck(t)
    \/ DeadlinePasses(t)
    \/ Release(t)

\* A notified thread gets the lock back, time passes, and a transfer ends.
\* Nothing obliges a thread to enter.
Fairness ==
  \A t \in Threads :
    WF_vars(Recheck(t)) /\ WF_vars(DeadlinePasses(t)) /\ WF_vars(Release(t))

Spec == Init /\ [][Next]_vars /\ Fairness

-----------------------------------------------------------------------------
TypeOK ==
  /\ available \in 0..MaxActive
  /\ waiters \in Seq(Threads)
  /\ pc \in [Threads -> {"idle", "asleep", "ready", "holding"}]
  /\ request \in [Threads -> Requests]
  /\ late \subseteq Threads

\* A thread that is queued waits, once, and one that waits is queued: a
\* timeout or an admission leaves no token behind that nobody would ever
\* remove (tests/test_bandwidth.py: "removes waiter without leaking").
QueueMatchesThreads ==
  /\ {waiters[i] : i \in DOMAIN waiters} = Waiting
  /\ \A i, k \in DOMAIN waiters : waiters[i] = waiters[k] => i = k

\* The slots the gate thinks are free are exactly those nobody holds.
SlotsAccounted ==
  IF \E t \in Holders : request[t].exclusive
  THEN available = 0 /\ Cardinality(Holders) = 1
  ELSE available + Cardinality(Holders) = MaxActive

\* Admission wakes nobody, so a wake-up can be spent on a thread that was not
\* first.  It is never the last one: while the gate is idle, the thread that
\* is first in line is awake.
IdleGateIsNotAsleep ==
  Holders = {} =>
    \A i \in DOMAIN waiters :
      IsFirst(waiters, request, i) => pc[waiters[i]] = "ready"

\* First come, first served within a priority, and a lower number (an AI
\* backup) before a higher one.  In particular a thread that enters with a
\* slot free does not barge past one that is queued.
NoOvertaking ==
  [][\A t \in Threads :
       pc[t] # "holding" /\ pc'[t] = "holding" =>
         \A u \in Waiting \ {t} :
           \/ request[u].priority > request'[t].priority
           \/ /\ request[u].priority = request'[t].priority
              /\ \E i, k \in DOMAIN waiters :
                   waiters[i] = t /\ waiters[k] = u /\ i < k]_vars

\* A full synchronization waits for a slot with a deadline, and one way or
\* the other it does not wait for ever.
TimedRequestsAnswered ==
  \A t \in Threads :
    (t \in Waiting /\ request[t].timed) ~> (t \notin Waiting)

\* Nobody waits for ever behind its own priority class: the one thing that
\* can hold an untimed request back is work with a smaller number (an AI
\* backup), queued or admitted.  The wake-ups that admission spends are made
\* up for.
OnlyPriorityStarves ==
  \A t \in Threads :
    (t \in Waiting) ~>
      \/ t \notin Waiting
      \/ \E u \in Waiting \union Holders :
           request[u].priority < request[t].priority

\* The gate does what its abstraction promises: the holders, and the
\* exclusive ones among them.
Slots == INSTANCE TransferSlots WITH
  Users <- Threads,
  holding <- Holders,
  alone <- {t \in Holders : request[t].exclusive}
ImplementsSlots == Slots!SlotsSpec
=============================================================================
