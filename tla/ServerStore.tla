----------------------------- MODULE ServerStore -----------------------------
(***************************************************************************)
(* The self-hosted server's storage (server_store.py): rows that expire,   *)
(* a quota for each tenant, a cache of what each tenant uses, and what of  *)
(* it survives the end of the process.  Each method runs under the store's *)
(* lock and is one step; Server composes it with the threads that call it. *)
(*                                                                         *)
(* The unit of time is half a minute, so that PurgeEvery and the shortest  *)
(* time to live are two.  A body is its size.                              *)
(***************************************************************************)
EXTENDS Integers, FiniteSets, FiniteSetsExt

CONSTANTS Tenants,   \* the tenants of the token mapping
          Quota,     \* quota_bytes
          Sizes,     \* sizes of bodies
          TTLs,      \* times to live, after _expiry has clamped them
          MaxTime,   \* how long the clock runs
          MaxRows    \* rows that are ever inserted, at most

ASSUME StoreAssumption ==
  /\ Quota \in Nat /\ Sizes \subseteq Nat \ {0}
  /\ TTLs \subseteq 2..5 /\ MaxTime \in Nat \ {0} /\ MaxRows \in Nat

VARIABLES
  now,        \* the clock
  store,      \* rows, committed rows, cached usage and the last purge
  inserted,   \* rows inserted so far, which numbers them
  miscounted  \* ghost: tenants whose usage the cache has wrong

storeVars == <<now, store, inserted, miscounted>>

Tables == {"mailbox", "objects", "rendezvous", "collaboration"}
Unknown == -1
PurgeEvery == 2

\* Mail and operations have an identifier of their own; an object is found by
\* its content (its size stands for it), an envelope by its device, of which
\* each tenant has one here.
KeyOf(table, size) ==
  CASE table = "objects"    -> size
    [] table = "rendezvous" -> 0
    [] OTHER                -> 10 + inserted

RowType == [table : Tables, tenant : Tenants, key : Nat, size : Sizes,
            expires : 1..(MaxTime + 5)]

Bytes(rows) == MapThenSumSet(LAMBDA r : r.size, rows)
RowsOf(rows, t) == {r \in rows : r.tenant = t}
Same(r, table, t, key) == r.table = table /\ r.tenant = t /\ r.key = key

Opened(rows) ==
  [rows |-> rows, saved |-> rows, used |-> [t \in Tenants |-> Unknown], purged |-> -PurgeEvery]

StoreInit ==
  /\ now = 0
  /\ store = Opened({}) /\ inserted = 0
  /\ miscounted = {}

-----------------------------------------------------------------------------
(* The helpers that every method calls, on the record of the open store *)

\* purge: at most once a minute unless forced; what it removes leaves the
\* cached usage, and it commits, with whatever an earlier failure left open.
Purge(s, force) ==
  IF ~force /\ now - s.purged < PurgeEvery THEN s
  ELSE LET expired == {r \in s.rows : r.expires <= now}
       IN [rows |-> s.rows \ expired, saved |-> s.rows \ expired,
           used |-> [t \in Tenants |->
                      IF s.used[t] = Unknown THEN Unknown
                      ELSE Max({0, s.used[t] - Bytes(RowsOf(expired, t))})],
           purged |-> now]

Used(s, t) == IF s.used[t] = Unknown THEN Bytes(RowsOf(s.rows, t)) ELSE s.used[t]
Counted(s, t) == [s EXCEPT !.used[t] = Used(s, t)]
Fits(s, t, size) == size <= Quota /\ Used(s, t) + size <= Quota

\* _reserve: expired rows are removed before valid data is refused.
Reserve(s, t, size) ==
  CASE size > Quota     -> s
    [] Fits(s, t, size) -> Counted(s, t)
    [] OTHER            -> Counted(Purge(Counted(s, t), TRUE), t)

\* (Mutant) What was removed to make room stays in the cached usage.
AdjustedUp(s, t, delta) ==
  IF s.used[t] = Unknown THEN s ELSE [s EXCEPT !.used[t] = @ + Max({0, delta})]

\* _adjust_used
Adjusted(s, t, delta) ==
  IF s.used[t] = Unknown THEN s ELSE [s EXCEPT !.used[t] = Max({0, @ + delta})]

-----------------------------------------------------------------------------
(* The methods *)

Tick ==
  /\ now < MaxTime
  /\ now' = now + 1
  /\ UNCHANGED <<store, inserted, miscounted>>

\* put_object finds the same content: nothing is stored and its life is not
\* prolonged; it may even be expired, as long as nothing has purged it.
PutExisting(t, row) ==
  LET s == Purge(store, FALSE) IN
  /\ row \in s.rows /\ row.table = "objects" /\ row.tenant = t
  /\ store' = s
  /\ UNCHANGED <<now, inserted, miscounted>>

\* The envelope that a new one of the device replaces.
Prior(s, row) ==
  {r \in s.rows : r.table = "rendezvous" /\ Same(r, row.table, row.tenant, row.key)}
Growth(s, row) == Max({0, row.size - Bytes(Prior(s, row))})

New(table, t, size, ttl) ==
  [table |-> table, tenant |-> t, key |-> KeyOf(table, size),
   size |-> size, expires |-> now + ttl]

Insertable(s, row) ==
  row.table = "objects" => ~ \E r \in s.rows : Same(r, "objects", row.tenant, row.key)

\* put_mail, put_object, put_rendezvous and put_collaboration up to their
\* INSERT.  Of an envelope only what it adds is reserved.  When the commit fails,
\* the row stays in the transaction, where it has replaced the envelope before it.
Inserted(s, reserved, row) ==
  Adjusted([reserved EXCEPT !.rows = (@ \ Prior(s, row)) \union {row}],
           row.tenant, row.size - Bytes(Prior(s, row)))

Put(row, outcome) ==
  LET s == Purge(store, FALSE)
      grown == Growth(s, row)
      reserved == Reserve(s, row.tenant, grown)
      full == Inserted(s, reserved, row)
  IN /\ Insertable(s, row)
     /\ UNCHANGED now
     /\ \/ /\ outcome = "refused"
           /\ ~Fits(reserved, row.tenant, grown)
           /\ store' = reserved
           /\ UNCHANGED <<inserted, miscounted>>
        \/ /\ outcome \in {"stored", "failed"}
           /\ Fits(reserved, row.tenant, grown)
           /\ store' = IF outcome = "stored" THEN [full EXCEPT !.saved = full.rows] ELSE full
           /\ inserted' = inserted + 1
           /\ miscounted' = IF Prior(s, row) \subseteq reserved.rows THEN miscounted
                            ELSE miscounted \union {row.tenant}

\* list_mail, get_object, get_rendezvous, list_collaboration and stats change
\* nothing but what purge removes.
ReadRows ==
  /\ store' = Purge(store, FALSE)
  /\ UNCHANGED <<now, inserted, miscounted>>

\* acknowledge_mail, of a message that may be gone or acknowledged already.
Acknowledge(t, key) ==
  LET prior == {r \in store.rows : Same(r, "mailbox", t, key)}
      s == Adjusted([store EXCEPT !.rows = @ \ prior], t, -Bytes(prior))
  IN /\ store' = [s EXCEPT !.saved = s.rows]
     /\ UNCHANGED <<now, inserted, miscounted>>

\* audit commits the entry with whatever is open.
CommitAll ==
  /\ store' = [store EXCEPT !.saved = store.rows]
  /\ UNCHANGED <<now, inserted, miscounted>>

\* The process ends and starts again: the disk is what was committed, usage
\* is counted anew.
Reopen ==
  /\ store' = Opened(store.saved)
  /\ UNCHANGED <<now, inserted, miscounted>>

-----------------------------------------------------------------------------
StoreTypeOK ==
  /\ now \in 0..MaxTime /\ inserted \in 0..MaxRows
  /\ store.saved \subseteq RowType /\ store.rows \subseteq RowType
  /\ store.used \in [Tenants -> {Unknown} \union (0..(Quota * 4))]
  /\ store.purged \in (-PurgeEvery)..MaxTime
  /\ miscounted \subseteq Tenants

\* The cached usage of a tenant is what its rows take, and never more than its
\* quota: through purges on demand and by the clock, replaced envelopes,
\* acknowledgements, refusals, failed commits and restarts.  A tenant whose
\* expired envelope _reserve itself removed is counted down twice for it
\* ("miscounted"), and may from then on store more than its quota; but the cache
\* never has more than the rows take, so that nothing is refused that fits.
UsageIsExact ==
  /\ \A t \in Tenants \ miscounted :
       /\ store.used[t] # Unknown => store.used[t] = Bytes(RowsOf(store.rows, t))
       /\ Bytes(RowsOf(store.rows, t)) <= Quota
  /\ \A t \in Tenants :
       store.used[t] # Unknown => store.used[t] <= Bytes(RowsOf(store.rows, t))
=============================================================================
