-------------------------- MODULE SharedBalanceCache --------------------------
(***************************************************************************)
(* fetchBalance() of src/exchange/BaseExchange.js over the class of        *)
(* src/exchange/SharedBalanceCache.js: processes share the balance of one  *)
(* exchange through a record in Redis, and a lock there that expires says  *)
(* which of them fetches it anew.  The calls of one process overlap: the   *)
(* risk manager's interval starts one whether or not the last one is done. *)
(*                                                                         *)
(* A balance is the number of the account's state it was read from.  Time  *)
(* passes in ticks of the polling interval; the clocks of the processes    *)
(* may differ.  Records and the lock carry their age instead of a date.    *)
(***************************************************************************)
EXTENDS Integers, FiniteSets

CONSTANTS Procs, Calls,
          Of,          \* the process that makes a call
          RoleSets,    \* how roles may be given to the processes
          Clocks,      \* how far the clock of each process may be ahead
          Ttl, StaleMax, LockTtl, Wait,   \* ttlMs, staleMaxMs, lockTtlMs, waitTimeoutMs
          MaxVersion,  \* bound: states of the account
          MaxFaults    \* bound: failed calls and crashes

ASSUME SharedBalanceCacheAssumption ==
    /\ IsFiniteSet(Procs) /\ "none" \notin Procs
    /\ Calls \cap {"none", "lost"} = {} /\ Of \in [Calls -> Procs]
    /\ RoleSets \subseteq [Procs -> {"auto", "leader", "follower"}]
    /\ Clocks \subseteq [Procs -> Nat]
    /\ Ttl \in Nat /\ StaleMax \in Nat \ {0}
    /\ LockTtl \in Nat \ {0} /\ Wait \in Nat \ {0}
    /\ MaxVersion \in Nat \ {0} /\ MaxFaults \in Nat

VARIABLES role, clock,   \* of each process, never changed
          account,       \* the account's state now, at the exchange
          data,          \* the record at _balanceKey
          lock,          \* the key at _lockKey: whose token, for how long it has been there
          local,         \* _localCache of each process
          newest,        \* history: the newest balance a call of the process returned
          pc,            \* what each call of fetchBalance() awaits
          cached,        \* the record it found first
          fetched,       \* the balance it has got from the exchange, 0 for none
          waited,        \* ticks since waitForFresh() began
          floor,         \* history: its process's newest when it began
          returned,      \* history: what a call has just returned, and to whom
          unguarded,     \* history: two calls may have filled the record at a time
          faults

records == <<data, local>>
call == <<pc, cached, fetched, waited, floor, newest>>
bcvars == <<role, clock, account, records, lock, call, returned, unguarded, faults>>

NoRecord == [version |-> 0, age |-> 0, by |-> "none"]
NoLock == [owner |-> "none", age |-> 0]
Nothing == [to |-> "none", version |-> 0, age |-> 0, floor |-> 0]

BCInit ==
    /\ role \in RoleSets
    /\ clock \in Clocks
    /\ account = 1
    /\ data = NoRecord
    /\ lock = NoLock
    /\ local = [p \in Procs |-> NoRecord]
    /\ newest = [p \in Procs |-> 1]
    /\ pc = [c \in Calls |-> "idle"]
    /\ cached = [c \in Calls |-> NoRecord]
    /\ fetched = [c \in Calls |-> 0]
    /\ waited = [c \in Calls |-> 0]
    /\ floor = [c \in Calls |-> 0]
    /\ returned = Nothing
    /\ unguarded = FALSE
    /\ faults = 0

\* Date.now() - cachedAt, of a record stamped by another clock
AgeMs(p, r) == r.age + clock[p] - clock[r.by]
Within(p, r, bound) == r # NoRecord /\ AgeMs(p, r) <= bound

\* get(): the local record while it is fresh, else the one in Redis, which
\* becomes the local one (a stale local record is as good as none)
Got(p) == IF Within(p, local[p], Ttl) THEN local[p] ELSE data
KeepLocal(p) == local' = IF Within(p, Got(p), Ttl) THEN [local EXCEPT ![p] = Got(p)] ELSE local

RoleOf(c) == role[Of[c]]
Goto(c, place) == pc' = [pc EXCEPT ![c] = place]
Fault == faults < MaxFaults /\ faults' = faults + 1

\* what the process had when the call began
Floor(c) == IF pc[c] = "idle" THEN newest[Of[c]] ELSE floor[c]
Larger(a, b) == IF a > b THEN a ELSE b

\* the call ends, with a record or with an exception
Finish(c) ==
    /\ Goto(c, "idle")
    /\ cached' = [cached EXCEPT ![c] = NoRecord]
    /\ fetched' = [fetched EXCEPT ![c] = 0]
    /\ waited' = [waited EXCEPT ![c] = 0]
    /\ floor' = [floor EXCEPT ![c] = 0]
Return(c, r) ==
    /\ Finish(c)
    /\ newest' = [newest EXCEPT ![Of[c]] = Larger(@, r.version)]
    /\ returned' = [to |-> Of[c], version |-> r.version, age |-> r.age, floor |-> Floor(c)]
ReturnsNothing == returned' = Nothing
Throw(c) == Finish(c) /\ ReturnsNothing /\ UNCHANGED newest

\* the call goes on, having found r in the cache (none if nobody asks any more)
Await(c, place, r) == /\ Goto(c, place)
                      /\ cached' = [cached EXCEPT ![c] = r]
                      /\ floor' = [floor EXCEPT ![c] = Floor(c)]
                      /\ ReturnsNothing
                      /\ UNCHANGED <<fetched, waited, newest>>
------------------------------------------------------------------------------
Fills(c) == pc[c] \in {"fetching", "setting"}

\* a leader fetches without asking for the lock, also while another call does
LeaderFetches(c) ==
    /\ Await(c, "fetching", NoRecord)
    /\ unguarded' = (unguarded \/ \E d \in Calls : Fills(d))

\* _fetchBalanceShared() up to its second await: a fresh record is enough, a
\* stale one for a follower only
Find(c) ==
    LET p == Of[c]
        found == Got(p)
    IN  /\ pc[c] = "idle"
        /\ KeepLocal(p)
        /\ \/ /\ Within(p, found, Ttl)
              /\ Return(c, found) /\ UNCHANGED unguarded
           \/ /\ ~Within(p, found, Ttl)
              /\ \/ RoleOf(c) = "leader" /\ LeaderFetches(c)
                 \/ /\ RoleOf(c) = "auto"
                    /\ Await(c, "locking", found) /\ UNCHANGED unguarded
                 \/ /\ RoleOf(c) = "follower"
                    /\ IF Within(p, found, StaleMax)
                       THEN Return(c, found)
                       ELSE Await(c, "polling", found)
                    /\ UNCHANGED unguarded
        /\ UNCHANGED <<role, clock, account, data, lock, faults>>

\* acquireLock(), the first time or after waitForFresh(): SET PX NX
Acquire(c) ==
    LET stale == Within(Of[c], cached[c], StaleMax)
    IN  /\ pc[c] \in {"locking", "retrying"}
        /\ IF lock = NoLock
           THEN /\ lock' = [owner |-> c, age |-> 0]
                /\ Await(c, "fetching", NoRecord)
           ELSE /\ UNCHANGED lock
                /\ \/ pc[c] = "locking" /\ stale /\ Return(c, cached[c])
                   \/ pc[c] = "locking" /\ ~stale /\ Await(c, "polling", cached[c])
                   \/ /\ pc[c] = "retrying" /\ cached[c] # NoRecord
                      /\ Return(c, cached[c])
                   \/ pc[c] = "retrying" /\ cached[c] = NoRecord /\ Throw(c)
        /\ UNCHANGED <<role, clock, account, records, unguarded, faults>>

\* mutant: the deadline is computed anew in every round
PollAnew(c) ==
    /\ pc[c] = "polling"
    /\ KeepLocal(Of[c])
    /\ IF Within(Of[c], Got(Of[c]), Ttl)
       THEN Return(c, Got(Of[c]))
       ELSE /\ Goto(c, "sleeping")
            /\ waited' = [waited EXCEPT ![c] = 0]
            /\ ReturnsNothing
            /\ UNCHANGED <<cached, fetched, floor, newest>>
    /\ UNCHANGED <<role, clock, account, data, lock, unguarded, faults>>

\* one round of waitForFresh(), or its end: a follower throws, others try to
\* get the lock again
Poll(c) ==
    /\ pc[c] = "polling"
    /\ \/ /\ waited[c] < Wait
          /\ KeepLocal(Of[c])
          /\ IF Within(Of[c], Got(Of[c]), Ttl)
             THEN Return(c, Got(Of[c]))
             ELSE Await(c, "sleeping", cached[c])
       \/ /\ waited[c] >= Wait
          /\ IF RoleOf(c) = "follower" THEN Throw(c) ELSE Await(c, "retrying", cached[c])
          /\ UNCHANGED local
    /\ UNCHANGED <<role, clock, account, data, lock, unguarded, faults>>

\* the exchange answers with the account's state of now; the answer takes time
Answered(c) ==
    /\ pc[c] = "fetching"
    /\ Goto(c, "setting")
    /\ fetched' = [fetched EXCEPT ![c] = account]
    /\ ReturnsNothing
    /\ UNCHANGED <<role, clock, account, records, lock, cached, waited, floor, newest,
                   unguarded, faults>>

FilledBy(c) == [version |-> fetched[c], age |-> 0, by |-> Of[c]]

\* set(): the record in Redis, and the local one; a leader has no lock to release
Set(c) ==
    /\ pc[c] = "setting"
    /\ data' = FilledBy(c)
    /\ local' = [local EXCEPT ![Of[c]] = FilledBy(c)]
    /\ IF RoleOf(c) = "leader"
       THEN Return(c, FilledBy(c))
       ELSE /\ Goto(c, "releasing")
            /\ ReturnsNothing
            /\ UNCHANGED <<cached, fetched, waited, floor, newest>>
    /\ UNCHANGED <<role, clock, account, lock, unguarded, faults>>

\* with its balance or, if that is lost, with its exception
Leave(c) == IF fetched[c] = 0 THEN Throw(c) ELSE Return(c, FilledBy(c))

\* mutant: DEL instead of the script that compares the token
ReleaseAny(c) ==
    /\ pc[c] = "releasing"
    /\ lock' = NoLock
    /\ Leave(c)
    /\ UNCHANGED <<role, clock, account, records, unguarded, faults>>

\* releaseLock(), which deletes the key if the token is still in it; whatever
\* it does, the call ends
Release(c) ==
    /\ pc[c] = "releasing"
    /\ lock' = IF lock.owner = c THEN NoLock ELSE lock
    /\ Leave(c)
    /\ UNCHANGED <<role, clock, account, records, unguarded, faults>>

\* an exception inside the try block leads to the finally block; the balance
\* is lost, whether or not Redis took it
FillFails(c) ==
    /\ Fault
    /\ Fills(c)
    /\ data' \in IF pc[c] = "setting" THEN {data, FilledBy(c)} ELSE {data}
    /\ IF RoleOf(c) = "leader"
       THEN Throw(c)
       ELSE /\ Goto(c, "releasing")
            /\ fetched' = [fetched EXCEPT ![c] = 0]
            /\ ReturnsNothing
            /\ UNCHANGED <<cached, waited, floor, newest>>
    /\ UNCHANGED <<role, clock, account, local, lock, unguarded>>

\* Redis fails outside the try block: the call ends; a lock may have been taken
\* whose token nobody knows
RedisFails(c) ==
    /\ Fault
    /\ pc[c] \in {"locking", "retrying", "polling"}
    /\ \/ UNCHANGED lock
       \/ /\ pc[c] # "polling" /\ lock = NoLock
          /\ lock' = [owner |-> "lost", age |-> 0]
    /\ Throw(c)
    /\ UNCHANGED <<role, clock, account, records, unguarded>>

\* the release fails, which is ignored
ReleaseFails(c) ==
    /\ Fault
    /\ pc[c] = "releasing"
    /\ Leave(c)
    /\ lock' = IF lock.owner = c THEN [lock EXCEPT !.owner = "lost"] ELSE lock
    /\ UNCHANGED <<role, clock, account, records, unguarded>>

\* the process dies and starts again, without its memory and its calls
Crash(p) ==
    LET kept(f, none) == [c \in Calls |-> IF Of[c] = p THEN none ELSE f[c]]
    IN  /\ Fault
        /\ \E c \in Calls : Of[c] = p /\ pc[c] # "idle"
        /\ pc' = kept(pc, "idle") /\ cached' = kept(cached, NoRecord)
        /\ fetched' = kept(fetched, 0) /\ waited' = kept(waited, 0)
        /\ floor' = kept(floor, 0)
        /\ local' = [local EXCEPT ![p] = NoRecord]
        /\ lock' = IF \E c \in Calls : Of[c] = p /\ lock.owner = c
                   THEN [lock EXCEPT !.owner = "lost"] ELSE lock
        /\ ReturnsNothing
        /\ UNCHANGED <<role, clock, account, data, newest, unguarded>>
------------------------------------------------------------------------------
Older(r) == IF r = NoRecord THEN r ELSE [r EXCEPT !.age = @ + 1]

\* PX: Redis deletes the lock when lockTtlMs are over ...
LockExpires ==
    lock' = IF lock = NoLock \/ lock.age + 1 = LockTtl
            THEN NoLock ELSE [lock EXCEPT !.age = @ + 1]

\* mutant: SET without PX
DataStays == data' = Older(data)

\* ... and the record when staleMaxMs are
DataExpires == data' = IF data.age + 1 = StaleMax THEN NoRecord ELSE Older(data)

\* a tick passes; Redis answers a read and the request for the lock within one.
\* A lock may expire before its owner has set the balance
TimePasses ==
    /\ \A c \in Calls : pc[c] \notin {"locking", "retrying", "polling"}
    /\ DataExpires
    /\ LockExpires
    /\ local' = [p \in Procs |-> IF Within(p, Older(local[p]), Ttl)
                                 THEN Older(local[p]) ELSE NoRecord]
    /\ cached' = [c \in Calls |-> IF pc[c] = "sleeping" THEN Older(cached[c]) ELSE cached[c]]
    /\ waited' = [c \in Calls |-> IF pc[c] = "sleeping" THEN waited[c] + 1 ELSE waited[c]]
    /\ pc' = [c \in Calls |-> IF pc[c] = "sleeping" THEN "polling" ELSE pc[c]]
    /\ unguarded' = (unguarded \/ \E c \in Calls : /\ lock.owner = c /\ Fills(c)
                                                  /\ lock.age + 1 = LockTtl)
    /\ ReturnsNothing
    /\ UNCHANGED <<role, clock, account, fetched, floor, newest, faults>>

\* the account changes
Trade == /\ account < MaxVersion
         /\ account' = account + 1
         /\ ReturnsNothing
         /\ UNCHANGED <<role, clock, records, lock, call, unguarded, faults>>

Step(c) == \/ Acquire(c) \/ Poll(c) \/ Answered(c) \/ Set(c) \/ Release(c)

BCNext == \/ \E c \in Calls : \/ Find(c) \/ Step(c)
                              \/ FillFails(c) \/ RedisFails(c) \/ ReleaseFails(c)
          \/ \E p \in Procs : Crash(p)
          \/ TimePasses \/ Trade

\* Redis and the exchange answer, and time passes however often the strategies ask
BCFairness == SF_bcvars(TimePasses) /\ \A c \in Calls : WF_bcvars(Step(c))

BCSpec == BCInit /\ [][BCNext]_bcvars /\ BCFairness
------------------------------------------------------------------------------
Records(owners, ages) == [version : 1..MaxVersion, age : ages, by : owners] \cup {NoRecord}

BCTypeOK ==
    /\ role \in RoleSets /\ clock \in Clocks
    /\ account \in 1..MaxVersion
    /\ data \in Records(Procs, 0..(StaleMax - 1))
    /\ lock \in [owner : Calls \cup {"lost"}, age : 0..(LockTtl - 1)] \cup {NoLock}
    /\ pc \in [Calls -> {"idle", "locking", "retrying", "fetching", "setting",
                         "releasing", "polling", "sleeping"}]
    /\ \A p \in Procs : local[p] \in Records(Procs, Nat)
    /\ \A c \in Calls : cached[c] \in Records(Procs, 0..(StaleMax + Wait))
    /\ fetched \in [Calls -> 0..MaxVersion] /\ floor \in [Calls -> 0..MaxVersion]
    /\ waited \in [Calls -> 0..Wait]
    /\ newest \in [Procs -> 1..MaxVersion]
    /\ returned \in [to : Procs \cup {"none"}, version : 0..MaxVersion, age : Nat,
                     floor : 0..MaxVersion]
    /\ unguarded \in BOOLEAN /\ faults \in 0..MaxFaults

\* No call returns a balance older than one its process was given before the
\* call began, whoever fetched them and however many calls of one process overlap,
\* as long as one call at a time fills the record: while each fetch is done before
\* its lock expires, and a leader's calls do not fetch at the same time.  A release
\* that comes late does not let two calls fill it.
NeverBackwards == unguarded \/ returned.version >= returned.floor

\* No call returns a record much older than staleMaxMs, not even the last resort,
\* which does not look at the age of what it found, unless it is fresh by a clock
\* that is behind the one that stamped it.
StalenessBounded ==
    \/ returned.age < StaleMax + Wait
    \/ \E q \in Procs : returned.age <= Ttl + clock[q] - clock[returned.to]

\* Every call returns or throws, also when nobody fills the cache any more: it is
\* over again and again.
EveryCallEnds == \A c \in Calls : []<>(pc[c] = "idle")

------------------------------------------------------------------------------
(* Refuted: what one would expect and the code does not do; the README says    *)
(* with which constants.                                                       *)

\* While no lock has expired under its owner no call returns a balance older than
\* one its process was given before the call began: a leader takes no lock, so
\* that the slower of two overlapping calls stores its older balance last.
LeaderGoesForward ==
    (\E p \in Procs : role[p] = "leader") => returned.version >= returned.floor
==============================================================================
