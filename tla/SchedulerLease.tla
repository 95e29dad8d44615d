------------------------------ MODULE SchedulerLease ------------------------------
(***************************************************************************)
(* One logical scheduler over several replicas: each fires a tick on a     *)
(* timer, takes or renews the lease row, and, holding it, enqueues the job *)
(* that is due.  A tick reads its replica's clock once, before the first   *)
(* of its statements; the lease is judged by the database's clock, the job *)
(* by the tick's.  Nothing keeps a slow tick from overlapping the next.    *)
(*                                                                         *)
(* Time is relative: how much of the lease is left, how long ago a tick    *)
(* read its clock, how far back the job's last stamp lies.  One recurring  *)
(* job, which every replica has registered, stands for all: their rows are *)
(* independent.                                                            *)
(***************************************************************************)
EXTENDS Integers, FiniteSets

CONSTANTS
  Replica,    \* scheduler processes
  Nobody,     \* no replica
  Slot,       \* bound: a replica has as many ticks in flight at most
  TTL,        \* ttlSeconds of the lease
  Interval,   \* interval_seconds of the job
  MaxAge,     \* bound: the longest a tick takes
  MaxSkew,    \* bound: how far a replica's clock is off
  MaxStops    \* bound: replicas that crash or are shut down

ASSUME TimeAssumption ==
  /\ TTL \in Nat \ {0} /\ Interval \in Nat \ {0}
  /\ MaxAge \in Nat /\ MaxSkew \in Nat /\ MaxStops \in Nat

Tick == Replica \X Slot
ASSUME ReplicaAssumption == Nobody \notin Replica \cup Tick
Long == Interval + MaxAge + MaxSkew   \* so far back that every tick finds it due

VARIABLES
  holder,    \* scheduler_leases.holder
  left,      \* what is left of the lease until expires_at; 0 when it has passed
  since,     \* how far back last_enqueued_at lies; negative when it is ahead
  rowLock,   \* the tick whose transaction locks the job's row
  gap,       \* how far apart the last two stamps are
  life,      \* each replica's process
  skew,      \* its clock against the database's
  doing,     \* where each tick is
  age,       \* how long ago the tick read its clock
  grant      \* what is left of the lease the tick was granted

leaseVars == <<holder, left, since, rowLock, gap, life, skew, doing, age, grant>>

LeaseTypeOK ==
  /\ holder \in Replica \cup {Nobody}
  /\ left \in 0..TTL
  /\ since \in -MaxSkew..Long
  /\ rowLock \in Tick \cup {Nobody}
  /\ gap \in Int
  /\ life \in [Replica -> {"up", "stopping", "down"}]
  /\ skew \in [Replica -> -MaxSkew..MaxSkew]
  /\ doing \in [Tick -> {"idle", "acquire", "decide", "select", "commit"}]
  /\ age \in [Tick -> 0..MaxAge]
  /\ grant \in [Tick -> -MaxAge..TTL]

LeaseInit ==
  /\ holder = Nobody /\ left = 0
  /\ since = Long /\ rowLock = Nobody /\ gap = Interval
  /\ life = [r \in Replica |-> "up"]
  /\ skew \in [Replica -> -MaxSkew..MaxSkew]
  /\ doing = [t \in Tick |-> "idle"]
  /\ age = [t \in Tick |-> 0]
  /\ grant = [t \in Tick |-> 0]

Of(t) == t[1]
\* How far back the clock the tick read lies behind the database's, by now.
Behind(t) == age[t] - skew[Of(t)]

Goes(t, place) == doing' = [doing EXCEPT ![t] = place]
End(t) == /\ Goes(t, "idle")
          /\ age' = [age EXCEPT ![t] = 0]
          /\ grant' = [grant EXCEPT ![t] = 0]
-----------------------------------------------------------------------------
\* The timer fires, whether or not the tick before has ended.
Fire(t) ==
  /\ doing[t] = "idle" /\ life[Of(t)] = "up"
  /\ Goes(t, "acquire")
  /\ UNCHANGED <<holder, left, since, rowLock, gap, life, skew, age, grant>>

\* Mutant: expiry judged by the clock the tick read.
FreeForByTick(t) == left + Behind(t) <= 0 \/ holder = Of(t)
\* Mutant: a lease is never taken over, only renewed.
FreeForHolder(t) == holder \in {Nobody, Of(t)}
\* expires_at < now(), or the holder renews.
FreeFor(t) == left = 0 \/ holder = Of(t)

\* acquire: one upsert; a tick that does not get the lease ends.
Acquire(t) ==
  /\ doing[t] = "acquire"
  /\ IF FreeFor(t)
     THEN /\ holder' = Of(t) /\ left' = TTL
          /\ grant' = [grant EXCEPT ![t] = TTL]
          /\ Goes(t, "decide") /\ UNCHANGED age
     ELSE End(t) /\ UNCHANGED <<holder, left>>
  /\ UNCHANGED <<since, rowLock, gap, life, skew>>

\* mayEnqueue compares the expiry granted with the clock read before acquire.
MayEnqueue(t) == grant[t] > - Behind(t)

Decide(t) ==
  /\ doing[t] = "decide"
  /\ IF MayEnqueue(t) THEN Goes(t, "select") /\ UNCHANGED <<age, grant>> ELSE End(t)
  /\ UNCHANGED <<holder, left, since, rowLock, gap, life, skew>>

Due(t) == since - Behind(t) >= Interval

\* Mutant: the due check without FOR UPDATE.
SelectUnlocked(t) ==
  /\ doing[t] = "select"
  /\ IF Due(t) THEN Goes(t, "commit") /\ UNCHANGED <<age, grant>> ELSE End(t)
  /\ UNCHANGED <<holder, left, since, rowLock, gap, life, skew>>

\* enqueueDue's SELECT ... FOR UPDATE SKIP LOCKED.
Select(t) ==
  /\ doing[t] = "select"
  /\ IF Due(t) /\ rowLock = Nobody
     THEN Goes(t, "commit") /\ rowLock' = t /\ UNCHANGED <<age, grant>>
     ELSE End(t) /\ UNCHANGED rowLock
  /\ UNCHANGED <<holder, left, since, gap, life, skew>>

Stamp(t) == Behind(t)

\* Its inserts into the outbox and the stamp, committed.
Enqueue(t) ==
  /\ doing[t] = "commit"
  /\ gap' = since - Stamp(t)
  /\ since' = Stamp(t)
  /\ rowLock' = Nobody
  /\ End(t)
  /\ UNCHANGED <<holder, left, life, skew>>
-----------------------------------------------------------------------------
Stops == Cardinality({r \in Replica : life[r] # "up"})

\* The process ends: its ticks with it, and their open transaction.
Gone(r) ==
  /\ life' = [life EXCEPT ![r] = "down"]
  /\ rowLock' = IF rowLock # Nobody /\ Of(rowLock) = r THEN Nobody ELSE rowLock
  /\ doing' = [t \in Tick |-> IF Of(t) = r THEN "idle" ELSE doing[t]]
  /\ age' = [t \in Tick |-> IF Of(t) = r THEN 0 ELSE age[t]]
  /\ grant' = [t \in Tick |-> IF Of(t) = r THEN 0 ELSE grant[t]]
  /\ UNCHANGED <<since, gap, skew>>

Dies(r) ==
  /\ life[r] = "up" /\ Stops < MaxStops
  /\ Gone(r)
  /\ UNCHANGED <<holder, left>>

\* Shutdown stops the timer and leaves the ticks in flight to themselves ...
Shutdown(r) ==
  /\ life[r] = "up" /\ Stops < MaxStops
  /\ life' = [life EXCEPT ![r] = "stopping"]
  /\ UNCHANGED <<holder, left, since, rowLock, gap, skew, doing, age, grant>>

\* ... the release it does not wait for reaches the database or does not.
GiveBack(r) ==
  /\ life[r] = "stopping"
  /\ holder = r
  /\ left' = 0
  /\ UNCHANGED <<holder, since, rowLock, gap, life, skew, doing, age, grant>>

Exit(r) ==
  /\ life[r] = "stopping"
  /\ Gone(r)
  /\ UNCHANGED <<holder, left>>

\* A second passes, unless a tick would take longer than the bound.
SecondPasses ==
  /\ \A t \in Tick : doing[t] # "idle" => age[t] < MaxAge
  /\ left' = IF left = 0 THEN 0 ELSE left - 1
  /\ since' = IF since = Long THEN Long ELSE since + 1
  /\ age' = [t \in Tick |-> IF doing[t] = "idle" THEN 0 ELSE age[t] + 1]
  /\ grant' = [t \in Tick |-> IF doing[t] \in {"idle", "acquire"} THEN 0 ELSE grant[t] - 1]
  /\ UNCHANGED <<holder, rowLock, gap, life, skew, doing>>

Step(t) == Acquire(t) \/ Decide(t) \/ Select(t) \/ Enqueue(t)

LeaseNext ==
  \/ \E t \in Tick : Fire(t) \/ Step(t)
  \/ \E r \in Replica : Dies(r) \/ Shutdown(r) \/ GiveBack(r) \/ Exit(r)
  \/ SecondPasses

LeaseSpec == LeaseInit /\ [][LeaseNext]_leaseVars

\* Timers fire, statements return, time passes.
FairLeaseSpec ==
  /\ LeaseSpec
  /\ \A t \in Tick : WF_leaseVars(Fire(t)) /\ WF_leaseVars(Step(t))
  /\ WF_leaseVars(SecondPasses)
-----------------------------------------------------------------------------
(***************************************************************************)
(* What holds.                                                             *)
(***************************************************************************)

\* Whatever ticks overlap, clocks disagree and replicas take over in between,
\* two rows of the job in the outbox are stamped at least an interval apart:
\* "exactly once per interval".
OncePerInterval == gap >= Interval

Holds(r) == \E t \in Tick : Of(t) = r /\ grant[t] > 0

\* Two replicas that are up never have an unexpired lease each.
NoDualLease ==
  \A p, q \in Replica :
    p # q /\ life[p] = "up" /\ life[q] = "up" => ~ (Holds(p) /\ Holds(q))

\* "Another replica acquires the lease ... and resumes enqueueing": as long as a
\* replica is left, the job is enqueued again and again.
JobKeepsComing == []<><<\E t \in Tick : Enqueue(t)>>_leaseVars
==================================================================================
