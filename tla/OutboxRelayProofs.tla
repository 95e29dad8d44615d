--------------------------- MODULE OutboxRelayProofs ---------------------------
(***************************************************************************)
(* What holds of OutboxRelay for every number of events and workers, every *)
(* batch size, every backoff policy and any number of crashes, lapses and  *)
(* revivals; and that it implements DurableQueue.                          *)
(***************************************************************************)
EXTENDS OutboxRelay, TLAPS, FiniteSetTheorems, SequenceTheorems

USE EventsAssumption, BatchAssumption, BoundsAssumption DEF bounded

\* A pass that is not over has a job at hand, and a job is at its first attempt
\* at least.
Working ==
  /\ \A w \in Worker : pc[w] # "idle" => batch[w] # <<>>
  /\ \A w \in Worker : \A i \in DOMAIN batch[w] : batch[w][i].attempt > 0
Typed == TypeOK /\ Working

LEMMA SmallestOf ==
  ASSUME NEW S \in SUBSET Nat, S # {}
  PROVE  \E x \in S : \A y \in S : ~ (y < x)
<1>1. \A x, y \in Nat : y < x => <<y, x>> \in OpToRel(<, Nat)
  BY Zenon DEF OpToRel
<1>2. \E x \in S : \A y \in S : <<y, x>> \notin OpToRel(<, Nat)
  BY NatLessThanWellFounded, WFMin, Zenon
<1> QED BY <1>1, <1>2

\* A claim that finds a row takes one.
LEMMA ClaimTakesSome ==
  ASSUME Claimable # {}
  PROVE  IsFiniteSet(NextBatch) /\ Cardinality(NextBatch) \in Nat \ {0}
<1>1. PICK first \in Claimable : \A e \in Claimable : ~ (e < first)
  <2>1. Claimable \in SUBSET Nat
    BY DEF Claimable, Event
  <2> QED BY <2>1, SmallestOf
<1>2. Cardinality({d \in Claimable : d < first}) = 0
  <2>1. {d \in Claimable : d < first} = {}
    BY <1>1
  <2> QED BY <2>1, FS_EmptySet
<1>3. NextBatch # {}
  BY <1>1, <1>2 DEF NextBatch
<1>4. IsFiniteSet(NextBatch)
  <2>1. IsFiniteSet(Event)
    BY FS_Interval DEF Event
  <2>2. NextBatch \in SUBSET Event
    BY DEF NextBatch, Claimable
  <2> QED BY <2>1, <2>2, FS_Subset
<1> QED BY <1>3, <1>4, FS_CardinalityType, FS_EmptySet

\* What a claim hands to its worker: the rows it took, each once.
LEMMA ClaimedJobs ==
  ASSUME TypeOK, NEW w \in Worker, Claim(w)
  PROVE  /\ batch' = [batch EXCEPT ![w] = batch'[w]]
         /\ batch'[w] \in Seq(Job) /\ batch'[w] # <<>>
         /\ \A i \in DOMAIN batch'[w] :
              batch'[w][i].event \in NextBatch /\ batch'[w][i].attempt > 0
         /\ \A i, j \in DOMAIN batch'[w] :
              i # j => batch'[w][i].event # batch'[w][j].event
<1> DEFINE n == Cardinality(NextBatch)
           jobs(s) == [i \in DOMAIN s |->
                         [event |-> s[i], attempt |-> row[s[i]].attempts + 1]]
<1>1. n \in Nat \ {0} /\ NextBatch \subseteq Event
  BY ClaimTakesSome DEF Claim, NextBatch, Claimable
<1>2. PICK s \in SetToSeqs(NextBatch) : batch' = [batch EXCEPT ![w] = jobs(s)]
  BY DEF Claim
<1>3. s \in [1..n -> NextBatch] /\ \A i, j \in 1..n : i # j => s[i] # s[j]
  BY <1>2, Zenon DEF SetToSeqs
<1>4. \A i \in 1..n : [event |-> s[i], attempt |-> row[s[i]].attempts + 1] \in Job
  BY <1>1, <1>3 DEF Job, TypeOK, Row
<1>5. batch'[w] = jobs(s) /\ jobs(s) \in [1..n -> Job]
  BY <1>2, <1>3, <1>4 DEF TypeOK
<1>6. batch'[w] \in Seq(Job) /\ batch'[w] # <<>>
  <2> HIDE DEF n, jobs
  <2>1. jobs(s) \in Seq(Job) /\ Len(jobs(s)) = n
    BY <1>1, <1>5
  <2> QED BY <1>1, <1>5, <2>1
<1>7. \A i \in 1..n : batch'[w][i].event = s[i] /\ batch'[w][i].attempt > 0
  <2> TAKE i \in 1..n
  <2>1. s[i] \in Event /\ row[s[i]].attempts \in Nat
    BY <1>1, <1>3 DEF TypeOK, Row
  <2>2. batch'[w][i] = [event |-> s[i], attempt |-> row[s[i]].attempts + 1]
    BY <1>3, <1>5
  <2> QED BY <2>1, <2>2
<1>8. DOMAIN batch'[w] = 1..n
  BY <1>5
<1>9. batch' = [batch EXCEPT ![w] = batch'[w]]
  BY <1>2, <1>5
<1> QED BY <1>3, <1>6, <1>7, <1>8, <1>9

\* What is left of a batch after its first job.
LEMMA JobsLeft ==
  ASSUME Typed, NEW w \in Worker, pc[w] # "idle", NextJob(w)
  PROVE  /\ batch' = [batch EXCEPT ![w] = Tail(batch[w])]
         /\ batch'[w] \in Seq(Job)
         /\ Len(batch'[w]) = Len(batch[w]) - 1
         /\ \A i \in DOMAIN batch'[w] : i + 1 \in DOMAIN batch[w] /\ batch'[w][i] = batch[w][i + 1]
         /\ \E place \in {"idle", "check"} : pc' = [pc EXCEPT ![w] = place]
         /\ pc'[w] # "idle" => batch'[w] # <<>>
<1>1. batch[w] \in Seq(Job) /\ batch[w] # <<>>
  BY DEF Typed, TypeOK, Working
<1>2. batch' = [batch EXCEPT ![w] = Tail(batch[w])] /\ batch'[w] = Tail(batch[w])
  BY DEF NextJob, Typed, TypeOK
<1>3. /\ Tail(batch[w]) \in Seq(Job) /\ Len(Tail(batch[w])) = Len(batch[w]) - 1
      /\ \A i \in 1..Len(Tail(batch[w])) : Tail(batch[w])[i] = batch[w][i + 1]
  BY <1>1, HeadTailProperties
<1>4. \A i \in DOMAIN batch'[w] : i + 1 \in DOMAIN batch[w] /\ batch'[w][i] = batch[w][i + 1]
  <2> DEFINE left == Tail(batch[w])
  <2>1. Len(batch[w]) \in Nat \ {0} /\ DOMAIN batch[w] = 1..Len(batch[w])
    BY <1>1
  <2>2. DOMAIN left = 1..Len(left) /\ Len(left) = Len(batch[w]) - 1
    BY <1>3
  <2> HIDE DEF left
  <2>3. \A i \in DOMAIN left : i + 1 \in DOMAIN batch[w]
    BY <2>1, <2>2
  <2> QED BY <1>2, <1>3, <2>2, <2>3 DEF left
<1>5. \E place \in {"idle", "check"} : pc' = [pc EXCEPT ![w] = place]
  BY DEF NextJob, Goto
<1>6. pc'[w] # "idle" => batch'[w] # <<>>
  <2>1. SUFFICES ASSUME Len(batch[w]) # 1 PROVE batch'[w] # <<>>
    BY DEF NextJob, Goto, Typed, TypeOK
  <2>2. Len(batch[w]) \in Nat \ {0}
    BY <1>1
  <2>3. Len(batch'[w]) # 0
    BY <1>2, <1>3, <2>1, <2>2
  <2> QED BY <2>3, EmptySeq
<1> QED BY <1>2, <1>3, <1>4, <1>5, <1>6

\* The job at hand is the first of the batch.
LEMMA JobAtHand ==
  ASSUME Typed, NEW w \in Worker, pc[w] # "idle"
  PROVE  /\ 1 \in DOMAIN batch[w] /\ Current(w) = batch[w][1]
         /\ Current(w) \in Job /\ Current(w).event \in Event
         /\ Current(w).attempt \in Nat \ {0}
<1>1. batch[w] \in Seq(Job) /\ batch[w] # <<>>
  BY DEF Typed, TypeOK, Working
<1>2. 1 \in DOMAIN batch[w] /\ Current(w) = batch[w][1] /\ Current(w) \in Job
  BY <1>1 DEF Current
<1> QED BY <1>2 DEF Job, Typed, Working

LEMMA TypedInit == Init => Typed
<1> SUFFICES ASSUME Init PROVE Typed
  OBVIOUS
<1>1. row \in [Event -> Row]
  BY Zenon DEF Init, Row
<1>2. batch \in [Worker -> Seq(Job)] /\ \A w \in Worker : batch[w] = <<>>
  BY EmptySeq DEF Init
<1>3. applied \in [Event -> 0..2] /\ pc \in [Worker -> {"idle"}]
  BY DEF Init
<1>4. slow \in 0..MaxSlow /\ crashes \in 0..MaxCrashes /\ revivals \in 0..MaxRevivals
  BY DEF Init
<1>5. TypeOK
  BY <1>1, <1>2, <1>3, <1>4 DEF Init, TypeOK
<1>6. Working
  BY <1>2 DEF Init, Working
<1> QED BY <1>5, <1>6 DEF Typed

\* A row whose fields are replaced by others of their types.
LEMMA RowUpdate ==
  ASSUME TypeOK, NEW e \in Event, NEW r \in Row, row' = [row EXCEPT ![e] = r]
  PROVE  row' \in [Event -> Row]
BY DEF TypeOK

LEMMA TypedPass ==
  ASSUME Typed, NEW w \in Worker, Pass(w)
  PROVE  Typed'
<1>1. CASE Claim(w)
  <2>1. row' \in [Event -> Row]
    <3>1. \A r \in Row : [r EXCEPT !.claimedBy = w, !.attempts = @ + 1] \in Row
      <4>1. \A r \in Row, n \in Nat : [r EXCEPT !.claimedBy = w, !.attempts = n] \in Row
        BY DEF Row
      <4>2. \A r \in Row : r.attempts + 1 \in Nat
        BY DEF Row
      <4> QED BY <4>1, <4>2
    <3> QED BY <1>1, <3>1 DEF Claim, Typed, TypeOK
  <2>2. /\ batch' = [batch EXCEPT ![w] = batch'[w]]
        /\ batch'[w] \in Seq(Job) /\ batch'[w] # <<>>
        /\ \A i \in DOMAIN batch'[w] : batch'[w][i].attempt > 0
    BY <1>1, ClaimedJobs DEF Typed
  <2>3. /\ pc' = [pc EXCEPT ![w] = "check"]
        /\ UNCHANGED <<marker, applied, slow, crashes, revivals>>
    BY <1>1 DEF Claim, Goto
  <2>4. TypeOK'
    BY <2>1, <2>2, <2>3 DEF Typed, TypeOK
  <2>5. \A v \in Worker \ {w} : pc'[v] = pc[v] /\ batch'[v] = batch[v]
    BY <2>2, <2>3 DEF Typed, TypeOK
  <2> QED BY <2>2, <2>4, <2>5 DEF Typed, Working
<1>2. CASE CheckMarker(w) \/ Dispatch(w)
  <2>1. /\ \E place \in {"complete", "dispatch", "fail"} : pc' = [pc EXCEPT ![w] = place]
        /\ pc[w] # "idle" /\ UNCHANGED <<row, marker, batch, slow, crashes, revivals>>
    BY <1>2 DEF CheckMarker, Dispatch, Goto
  <2>2. applied' \in [Event -> 0..2]
    BY <1>2 DEF CheckMarker, Dispatch, TakeEffect, Typed, TypeOK
  <2> QED BY <2>1, <2>2 DEF Typed, TypeOK, Working
<1>3. CASE Complete(w) \/ Fail(w)
  <2>1. pc[w] # "idle" /\ NextJob(w) /\ UNCHANGED <<applied, slow, crashes, revivals>>
    BY <1>3 DEF Complete, Fail
  <2>2. Current(w).event \in Event /\ Current(w).attempt \in Nat
    BY <2>1, JobAtHand
  <2>3. row' \in [Event -> Row]
    <3>1. CASE Complete(w)
      <4>1. [row[Current(w).event] EXCEPT !.consumed = TRUE, !.claimedBy = Nobody] \in Row
        <5>1. row[Current(w).event] \in Row
          BY <2>2 DEF Typed, TypeOK
        <5>2. \A r \in Row : [r EXCEPT !.consumed = TRUE, !.claimedBy = Nobody] \in Row
          BY DEF Row
        <5> QED BY <5>1, <5>2
      <4>2. row' = [row EXCEPT ![Current(w).event] =
                      [row[Current(w).event] EXCEPT !.consumed = TRUE, !.claimedBy = Nobody]]
        BY <2>2, <3>1 DEF Complete, Typed, TypeOK, Row
      <4> QED BY <2>2, <4>1, <4>2, RowUpdate DEF Typed
    <3>2. CASE Fail(w)
      <4> DEFINE job == Current(w)
                 over == IsExhausted(job.attempt)
      <4>1. over \in BOOLEAN
        BY <2>2, SMT DEF IsExhausted
      <4>2. row' = [row EXCEPT ![job.event] = [row[job.event] EXCEPT !.claimedBy = Nobody,
                      !.dead = over, !.due = over, !.failed = job.attempt]]
        BY <2>2, <3>2 DEF Fail, Typed, TypeOK
      <4> HIDE DEF over
      <4>3. [row[job.event] EXCEPT !.claimedBy = Nobody,
                      !.dead = over, !.due = over, !.failed = job.attempt] \in Row
        <5>1. row[job.event] \in Row
          BY <2>2 DEF Typed, TypeOK
        <5>2. \A r \in Row, b \in BOOLEAN, n \in Nat :
                [r EXCEPT !.claimedBy = Nobody, !.dead = b, !.due = b, !.failed = n] \in Row
          BY DEF Row
        <5> QED BY <2>2, <4>1, <5>1, <5>2
      <4> QED BY <2>2, <4>2, <4>3, RowUpdate DEF Typed
    <3> QED BY <1>3, <3>1, <3>2
  <2>4. marker' \subseteq Event
    BY <1>3, <2>2 DEF Complete, Fail, Typed, TypeOK
  <2>5. TypeOK'
    <3>1. batch' \in [Worker -> Seq(Job)]
      BY <2>1, JobsLeft DEF Typed, TypeOK
    <3>2. pc' \in [Worker -> {"idle", "check", "dispatch", "complete", "fail"}]
      BY <2>1, JobsLeft DEF Typed, TypeOK
    <3> QED BY <2>1, <2>3, <2>4, <3>1, <3>2 DEF Typed, TypeOK
  <2>6. \A v \in Worker \ {w} : pc'[v] = pc[v] /\ batch'[v] = batch[v]
    BY <2>1, JobsLeft DEF Typed, TypeOK
  <2> QED BY <2>1, <2>5, <2>6, JobsLeft DEF Typed, Working
<1> QED BY <1>1, <1>2, <1>3 DEF Pass

\* What happens to a row beside the passes: it becomes due, its claim lapses, an
\* operator returns it to the queue.
LEMMA TypedRow ==
  ASSUME Typed, NEW e \in Event, BecomeDue(e) \/ Lapse(e) \/ ReEnqueue(e)
  PROVE  Typed'
<1>1. row' \in [Event -> Row]
  <2>1. CASE BecomeDue(e)
    <3>1. [row[e] EXCEPT !.due = TRUE] \in Row
      BY DEF Typed, TypeOK, Row
    <3>2. row' = [row EXCEPT ![e] = [row[e] EXCEPT !.due = TRUE]]
      BY <2>1 DEF BecomeDue, Typed, TypeOK
    <3> QED BY <3>1, <3>2, RowUpdate DEF Typed
  <2>2. CASE Lapse(e)
    <3>1. [row[e] EXCEPT !.claimedBy = Nobody] \in Row
      BY DEF Typed, TypeOK, Row
    <3>2. row' = [row EXCEPT ![e] = [row[e] EXCEPT !.claimedBy = Nobody]]
      BY <2>2 DEF Lapse, Typed, TypeOK
    <3> QED BY <3>1, <3>2, RowUpdate DEF Typed
  <2>3. CASE ReEnqueue(e)
    <3>1. [row[e] EXCEPT !.dead = FALSE, !.attempts = 0, !.due = TRUE, !.claimedBy = Nobody] \in Row
      <4>1. row[e] \in Row
        BY DEF Typed, TypeOK
      <4> QED BY <4>1 DEF Row
    <3>2. row' = [row EXCEPT ![e] = [row[e] EXCEPT !.dead = FALSE, !.attempts = 0, !.due = TRUE,
                                                   !.claimedBy = Nobody]]
      BY <2>3 DEF ReEnqueue, Typed, TypeOK
    <3> QED BY <3>1, <3>2, RowUpdate DEF Typed
  <2> QED BY <2>1, <2>2, <2>3
<1>2. /\ slow' \in 0..MaxSlow /\ revivals' \in 0..MaxRevivals
      /\ UNCHANGED <<marker, pc, batch, applied, crashes>>
  BY DEF BecomeDue, Lapse, ReEnqueue, Typed, TypeOK
<1> QED BY <1>1, <1>2 DEF Typed, TypeOK, Working

LEMMA TypedCrash ==
  ASSUME Typed, NEW w \in Worker, Crash(w)
  PROVE  Typed'
<1>1. /\ batch' \in [Worker -> Seq(Job)] /\ batch'[w] = <<>> /\ pc'[w] = "idle"
      /\ \A v \in Worker \ {w} : pc'[v] = pc[v] /\ batch'[v] = batch[v]
  BY EmptySeq DEF Crash, Goto, Typed, TypeOK
<1>2. TypeOK'
  BY <1>1 DEF Crash, Goto, Typed, TypeOK
<1> QED BY <1>1, <1>2 DEF Typed, Working

LEMMA TypedNext == Typed /\ [Next]_vars => Typed'
<1> SUFFICES ASSUME Typed, [Next]_vars PROVE Typed'
  OBVIOUS
<1>1. CASE UNCHANGED vars
  BY <1>1 DEF vars, Typed, TypeOK, Working
<1> QED BY <1>1, TypedPass, TypedRow, TypedCrash DEF Next

\* Every reachable state of the table, the markers and the workers is well typed.
THEOREM TypeCorrect == Spec => []TypeOK
<1>1. Typed => TypeOK
  BY DEF Typed
<1> QED BY <1>1, TypedInit, TypedNext, PTL DEF Spec
-----------------------------------------------------------------------------
\* What a step writes to the fields of the rows that the invariants speak of.
LEMMA RowsClaimed ==
  ASSUME TypeOK, NEW w \in Worker, Claim(w), NEW e \in Event
  PROVE  /\ row'[e].consumed = row[e].consumed /\ row'[e].dead = row[e].dead
         /\ row'[e].failed = row[e].failed
         /\ row'[e].claimedBy = IF e \in NextBatch THEN w ELSE row[e].claimedBy
<1>1. row[e] \in Row
  BY DEF TypeOK
<1>2. row'[e] = IF e \in NextBatch
                THEN [row[e] EXCEPT !.claimedBy = w, !.attempts = @ + 1] ELSE row[e]
  BY DEF Claim
<1>3. CASE e \in NextBatch
  BY <1>1, <1>2, <1>3 DEF Row
<1>4. CASE e \notin NextBatch
  BY <1>2, <1>4
<1> QED BY <1>3, <1>4

LEMMA RowsCompleted ==
  ASSUME Typed, NEW w \in Worker, Complete(w)
  PROVE  /\ \A e \in Event \ {Current(w).event} : row'[e] = row[e]
         /\ LET e == Current(w).event IN
              /\ row'[e].consumed = TRUE /\ row'[e].dead = row[e].dead
              /\ row'[e].failed = row[e].failed
<1>1. Current(w).event \in Event
  BY JobAtHand DEF Complete
<1> QED BY <1>1 DEF Complete, Typed, TypeOK, Row

LEMMA RowsFailed ==
  ASSUME Typed, NEW w \in Worker, Fail(w)
  PROVE  /\ \A e \in Event \ {Current(w).event} : row'[e] = row[e]
         /\ LET e == Current(w).event IN
              /\ row'[e].consumed = row[e].consumed
              /\ row'[e].dead = IsExhausted(Current(w).attempt)
              /\ row'[e].failed = Current(w).attempt
<1>1. Current(w).event \in Event
  BY JobAtHand DEF Fail
<1> DEFINE over == IsExhausted(Current(w).attempt)
<1>2. row' = [row EXCEPT ![Current(w).event] =
                [@ EXCEPT !.claimedBy = Nobody, !.dead = over, !.due = over,
                          !.failed = Current(w).attempt]]
  BY DEF Fail
<1> HIDE DEF over
<1>3. \A r \in Row : \A b, n : LET s == [r EXCEPT !.claimedBy = Nobody, !.dead = b, !.due = b, !.failed = n]
                           IN  s.consumed = r.consumed /\ s.dead = b /\ s.failed = n
  BY DEF Row
<1>4. row[Current(w).event] \in Row
  BY <1>1 DEF Typed, TypeOK
<1>5. row'[Current(w).event] = [row[Current(w).event] EXCEPT !.claimedBy = Nobody, !.dead = over,
                                  !.due = over, !.failed = Current(w).attempt]
  BY <1>1, <1>2 DEF Typed, TypeOK
<1>6. /\ row'[Current(w).event].consumed = row[Current(w).event].consumed
      /\ row'[Current(w).event].dead = over
      /\ row'[Current(w).event].failed = Current(w).attempt
  <2> DEFINE old == row[Current(w).event]
             new == row'[Current(w).event]
  <2>1. new = [old EXCEPT !.claimedBy = Nobody, !.dead = over, !.due = over,
                          !.failed = Current(w).attempt]
    BY <1>5
  <2> HIDE DEF old, new
  <2>2. old \in Row
    BY <1>4 DEF old
  <2>3. new.consumed = old.consumed /\ new.dead = over /\ new.failed = Current(w).attempt
    BY <1>3, <2>1, <2>2
  <2> QED BY <2>3 DEF old, new
<1>7. \A e \in Event \ {Current(w).event} : row'[e] = row[e]
  BY <1>1, <1>2 DEF Typed, TypeOK
<1> QED BY <1>6, <1>7 DEF over

LEMMA RowsOther ==
  ASSUME Typed, NEW e \in Event, BecomeDue(e) \/ Lapse(e) \/ ReEnqueue(e)
  PROVE  /\ \A d \in Event \ {e} : row'[d] = row[d]
         /\ row'[e].consumed = row[e].consumed
         /\ row'[e].failed = row[e].failed
         /\ row'[e].dead = IF ReEnqueue(e) THEN FALSE ELSE row[e].dead
<1>0. row \in [Event -> Row] /\ revivals \in Nat
  BY DEF Typed, TypeOK
<1>1. CASE BecomeDue(e)
  <2>1. row' = [row EXCEPT ![e].due = TRUE]
    BY <1>1 DEF BecomeDue
  <2>2. ~ ReEnqueue(e)
    BY <1>0, <1>1 DEF BecomeDue, ReEnqueue
  <2> QED BY <1>0, <2>1, <2>2 DEF Row
<1>2. CASE Lapse(e)
  <2>1. row' = [row EXCEPT ![e].claimedBy = Nobody]
    BY <1>2 DEF Lapse
  <2>2. ~ ReEnqueue(e)
    BY <1>0, <1>2 DEF Lapse, ReEnqueue
  <2> QED BY <1>0, <2>1, <2>2 DEF Row
<1>3. CASE ReEnqueue(e)
  BY <1>0, <1>3 DEF ReEnqueue, Row
<1> QED BY <1>1, <1>2, <1>3

\* A worker that is to complete a row has seen its effects.
SeenThrough == \A w \in Worker : pc[w] = "complete" => applied[Current(w).event] > 0
Done == MarkedWhenDone /\ SeenThrough

LEMMA DonePass ==
  ASSUME Typed, Done, NEW w \in Worker, Pass(w)
  PROVE  Done'
<1>1. CASE Claim(w)
  <2>1. MarkedWhenDone'
    BY <1>1, RowsClaimed DEF Claim, Done, MarkedWhenDone, Typed
  <2>2. SeenThrough'
    BY <1>1, ClaimedJobs DEF Claim, Goto, Done, SeenThrough, Current, Typed, TypeOK
  <2> QED BY <2>1, <2>2 DEF Done
<1>2. CASE CheckMarker(w)
  <2>1. Current(w).event \in Event
    BY <1>2, JobAtHand DEF CheckMarker
  <2>2. pc'[w] = "complete" => applied[Current(w).event] > 0
    BY <1>2, <2>1 DEF CheckMarker, Goto, Done, MarkedWhenDone, Typed, TypeOK
  <2> QED BY <1>2, <2>2 DEF CheckMarker, Goto, Done, MarkedWhenDone, SeenThrough, Current, Typed, TypeOK
<1>3. CASE Dispatch(w)
  <2>1. Current(w).event \in Event
    BY <1>3, JobAtHand DEF Dispatch
  <2>2. /\ \A e \in Event : applied[e] > 0 => applied'[e] > 0
        /\ pc'[w] = "complete" => applied'[Current(w).event] > 0
    <3>1. CASE TakeEffect(Current(w).event)
      BY <2>1, <3>1 DEF TakeEffect, Typed, TypeOK
    <3>2. CASE UNCHANGED applied /\ Goto(w, "fail")
      BY <3>2 DEF Goto, Typed, TypeOK
    <3> QED BY <1>3, <3>1, <3>2 DEF Dispatch
  <2>3. \A v \in Worker \ {w} : pc'[v] = pc[v]
    BY <1>3 DEF Dispatch, Goto, Typed, TypeOK
  <2>4. \A v \in Worker : pc[v] = "complete" => Current(v).event \in Event
    BY JobAtHand
  <2>5. UNCHANGED <<row, marker, batch>>
    BY <1>3 DEF Dispatch
  <2>6. SeenThrough'
    BY <2>2, <2>3, <2>4, <2>5 DEF Done, SeenThrough, Current
  <2> QED BY <2>2, <2>5, <2>6 DEF Done, MarkedWhenDone
<1>4. CASE Complete(w) \/ Fail(w)
  <2>1. pc[w] # "idle" /\ NextJob(w) /\ UNCHANGED applied
    BY <1>4 DEF Complete, Fail
  <2>2. /\ pc'[w] # "complete"
        /\ \A v \in Worker \ {w} : pc'[v] = pc[v] /\ batch'[v] = batch[v]
    BY <2>1, JobsLeft DEF Typed, TypeOK
  <2>3. SeenThrough'
    BY <2>1, <2>2 DEF Done, SeenThrough, Current
  <2>4. MarkedWhenDone'
    <3>1. Current(w).event \in Event
      BY <2>1, JobAtHand
    <3>2. CASE Complete(w)
      <4>1. marker' = marker \cup {Current(w).event} /\ applied[Current(w).event] > 0
        BY <3>2 DEF Complete, Done, SeenThrough
      <4> QED BY <2>1, <3>1, <3>2, <4>1, RowsCompleted DEF Done, MarkedWhenDone
    <3>3. CASE Fail(w)
      <4>1. \A e \in Event : row'[e].consumed = row[e].consumed
        BY <3>3, RowsFailed
      <4> QED BY <2>1, <3>3, <4>1 DEF Fail, Done, MarkedWhenDone
    <3> QED BY <1>4, <3>2, <3>3
  <2> QED BY <2>3, <2>4 DEF Done
<1> QED BY <1>1, <1>2, <1>3, <1>4 DEF Pass

LEMMA DoneNext == Typed /\ Done /\ [Next]_vars => Done'
<1> SUFFICES ASSUME Typed, Done, [Next]_vars PROVE Done'
  OBVIOUS
<1>1. CASE UNCHANGED vars
  BY <1>1 DEF vars, Done, MarkedWhenDone, SeenThrough, Current
<1>2. ASSUME NEW w \in Worker, Crash(w) PROVE Done'
  <2>1. /\ pc'[w] # "complete" /\ UNCHANGED <<row, marker, applied>>
        /\ \A v \in Worker \ {w} : pc'[v] = pc[v] /\ batch'[v] = batch[v]
    BY <1>2 DEF Crash, Goto, Typed, TypeOK
  <2> QED BY <2>1 DEF Done, MarkedWhenDone, SeenThrough, Current
<1>3. ASSUME NEW e \in Event, BecomeDue(e) \/ Lapse(e) \/ ReEnqueue(e) PROVE Done'
  <2>1. UNCHANGED <<marker, pc, batch, applied>>
    BY <1>3 DEF BecomeDue, Lapse, ReEnqueue
  <2>2. \A d \in Event : row'[d].consumed = row[d].consumed
    BY <1>3, RowsOther
  <2> QED BY <2>1, <2>2 DEF Done, MarkedWhenDone, SeenThrough, Current
<1> QED BY <1>1, <1>2, <1>3, DonePass DEF Next

LEMMA DoneAlways == Spec => [](Typed /\ Done)
<1>1. Init => Done
  BY DEF Init, Done, MarkedWhenDone, SeenThrough
<1> QED BY <1>1, TypedInit, TypedNext, DoneNext, PTL DEF Spec

\* A redelivered row that is skipped for its marker is one whose handlers took
\* effect: the marker and the completion are written together.
THEOREM MarkersAreHonest == Spec => []MarkedWhenDone
<1>1. Done => MarkedWhenDone
  BY DEF Done
<1> QED BY <1>1, DoneAlways, PTL

LEMMA ExplainedNext == Typed /\ DeadLetterExplained /\ [Next]_vars => DeadLetterExplained'
<1> SUFFICES ASSUME Typed, DeadLetterExplained, [Next]_vars PROVE DeadLetterExplained'
  OBVIOUS
<1>1. CASE UNCHANGED row
  BY <1>1 DEF DeadLetterExplained
<1>2. ASSUME NEW w \in Worker, Claim(w) \/ Complete(w) PROVE DeadLetterExplained'
  BY <1>2, RowsClaimed, RowsCompleted, JobAtHand DEF Complete, DeadLetterExplained, Typed
<1>3. ASSUME NEW w \in Worker, Fail(w) PROVE DeadLetterExplained'
  <2>1. IsExhausted(Current(w).attempt) => Current(w).attempt >= MaxAttempts
    BY DEF IsExhausted
  <2> QED BY <1>3, <2>1, RowsFailed DEF DeadLetterExplained
<1>4. ASSUME NEW e \in Event, BecomeDue(e) \/ Lapse(e) \/ ReEnqueue(e) PROVE DeadLetterExplained'
  BY <1>4, RowsOther DEF DeadLetterExplained
<1>5. ASSUME NEW w \in Worker, CheckMarker(w) \/ Dispatch(w) \/ Crash(w) PROVE UNCHANGED row
  BY <1>5 DEF CheckMarker, Dispatch, Crash
<1> QED BY <1>1, <1>2, <1>3, <1>4, <1>5 DEF Next, Pass, vars

\* No row is given up on before the policy's attempts are made, by whichever worker
\* counts them and however often operators return it to the queue.
THEOREM DeadLettersAreExhausted == Spec => []DeadLetterExplained
<1>1. Init => DeadLetterExplained
  BY DEF Init, DeadLetterExplained
<1> QED BY <1>1, DoneAlways, ExplainedNext, PTL DEF Spec
-----------------------------------------------------------------------------
\* The relay's state as the queue sees it.
Finished == {e \in Event : row[e].consumed}
Buried   == {e \in Event : row[e].dead}
Effected == {e \in Event : applied[e] > 0}
queue    == <<Finished, Buried, Effected>>

LEMMA SeenAlike ==
  ASSUME \A e \in Event : row'[e].consumed = row[e].consumed /\ row'[e].dead = row[e].dead,
         UNCHANGED applied
  PROVE  UNCHANGED queue
BY DEF queue, Finished, Buried, Effected

\* Every step of the relay is one of the queue, or one the queue does not see.
LEMMA StepOfQueue ==
  ASSUME Typed, Done, [Next]_vars
  PROVE  [Promise!Next]_queue
<1>1. CASE UNCHANGED <<row, applied>>
  BY <1>1, SeenAlike
<1>2. ASSUME NEW w \in Worker, Claim(w) PROVE UNCHANGED queue
  <2>1. UNCHANGED applied
    BY <1>2 DEF Claim
  <2> QED BY <1>2, <2>1, RowsClaimed, SeenAlike DEF Typed
<1>3. ASSUME NEW w \in Worker, Dispatch(w) PROVE [Promise!Next]_queue
  <2>1. Current(w).event \in Event /\ UNCHANGED row
    BY <1>3, JobAtHand DEF Dispatch
  <2>2. CASE TakeEffect(Current(w).event)
    <3>1. Effected' = Effected \cup {Current(w).event}
      BY <2>1, <2>2 DEF TakeEffect, Effected, Typed, TypeOK
    <3>2. Finished' = Finished /\ Buried' = Buried
      BY <2>1 DEF Finished, Buried
    <3> QED BY <2>1, <3>1, <3>2 DEF Promise!Next, Promise!Apply, Finished, Buried, Effected
  <2>3. CASE UNCHANGED applied
    BY <2>1, <2>3, SeenAlike
  <2> QED BY <1>3, <2>2, <2>3 DEF Dispatch
<1>4. ASSUME NEW w \in Worker, Complete(w) PROVE [Promise!Next]_queue
  <2>1. Current(w).event \in Event /\ applied[Current(w).event] > 0 /\ UNCHANGED applied
    BY <1>4, JobAtHand DEF Complete, Done, SeenThrough
  <2>2. Finished' = Finished \cup {Current(w).event} /\ Buried' = Buried /\ Effected' = Effected
    BY <1>4, <2>1, RowsCompleted DEF Finished, Buried, Effected
  <2> QED BY <2>1, <2>2 DEF Promise!Next, Promise!Finish, Finished, Buried, Effected
<1>5. ASSUME NEW w \in Worker, Fail(w) PROVE [Promise!Next]_queue
  <2>1. Current(w).event \in Event /\ UNCHANGED applied
    BY <1>5, JobAtHand DEF Fail
  <2>2. Finished' = Finished /\ Effected' = Effected
    BY <1>5, <2>1, RowsFailed DEF Finished, Effected
  <2>3. CASE IsExhausted(Current(w).attempt)
    <3>1. Buried' = Buried \cup {Current(w).event}
      BY <1>5, <2>1, <2>3, RowsFailed DEF Buried
    <3> QED BY <2>1, <2>2, <3>1 DEF Promise!Next, Promise!Bury, Finished, Buried, Effected
  <2>4. CASE ~ IsExhausted(Current(w).attempt)
    <3>1. Buried' = Buried \ {Current(w).event}
      BY <1>5, <2>1, <2>4, RowsFailed DEF Buried
    <3>2. CASE Current(w).event \in Buried
      BY <2>1, <2>2, <3>1, <3>2 DEF Promise!Next, Promise!Revive, Finished, Buried, Effected
    <3>3. CASE Current(w).event \notin Buried
      BY <2>2, <3>1, <3>3 DEF queue
    <3> QED BY <3>2, <3>3
  <2> QED BY <2>3, <2>4
<1>6. ASSUME NEW e \in Event, BecomeDue(e) \/ Lapse(e) PROVE UNCHANGED queue
  <2>1. UNCHANGED applied
    BY <1>6 DEF BecomeDue, Lapse
  <2>2. row'[e].dead = row[e].dead
    BY <1>6 DEF BecomeDue, Lapse, Typed, TypeOK, Row
  <2> QED BY <1>6, <2>1, <2>2, RowsOther, SeenAlike
<1>7. ASSUME NEW e \in Event, ReEnqueue(e) PROVE [Promise!Next]_queue
  <2>1. row[e].dead /\ UNCHANGED applied
    BY <1>7 DEF ReEnqueue
  <2>2. Finished' = Finished /\ Effected' = Effected /\ Buried' = Buried \ {e}
    BY <1>7, <2>1, RowsOther DEF Finished, Effected, Buried
  <2> QED BY <2>1, <2>2 DEF Promise!Next, Promise!Revive, Finished, Buried, Effected
<1>8. ASSUME NEW w \in Worker, CheckMarker(w) \/ Crash(w) PROVE UNCHANGED <<row, applied>>
  BY <1>8 DEF CheckMarker, Crash
<1> QED BY <1>1, <1>2, <1>3, <1>4, <1>5, <1>6, <1>7, <1>8 DEF Next, Pass, vars

\* The table keeps the promise of a durable queue, over crashes, lapsed claims and
\* failing handlers: nothing leaves it but by being done, nothing done comes back,
\* and what was given up on stays for an operator.
THEOREM RelayImplementsQueue == Spec => ImplementsQueue
<1>1. Init => Promise!Init
  BY DEF Init, Promise!Init
<1>2. Typed /\ Done /\ [Next]_vars =>
        [Promise!Next]_<<{e \in Event : row[e].consumed}, {e \in Event : row[e].dead},
                         {e \in Event : applied[e] > 0}>>
  BY StepOfQueue DEF queue, Finished, Buried, Effected
<1> QED BY <1>1, <1>2, DoneAlways, PTL DEF Spec, ImplementsQueue, Promise!Spec
-----------------------------------------------------------------------------
\* As long as every claim outlives its worker's pass and no worker dies, a job in
\* a batch is its worker's alone, and once: the row is claimed and open.
Calm == slow = 0 /\ crashes = 0
Alone ==
  Calm => \A w \in Worker : \A i \in DOMAIN batch[w] :
            LET e == batch[w][i].event IN
              /\ row[e].claimedBy = w /\ ~ row[e].consumed /\ ~ row[e].dead
              /\ \A j \in DOMAIN batch[w] : j # i => batch[w][j].event # e

\* And a row whose handlers took effect without an attempt at it failing is done,
\* or its worker is about to complete it or to fail it.
UnderWay(e) == \E w \in Worker : pc[w] \in {"complete", "fail"} /\ Current(w).event = e
EffectsTold ==
  Calm => \A e \in Event :
            applied[e] > 0 => row[e].failed > 0 \/ row[e].consumed \/ UnderWay(e)

Owned == Alone /\ EffectsTold /\ DuplicateExplained

LEMMA EventsOfJobs ==
  ASSUME TypeOK, NEW w \in Worker, NEW i \in DOMAIN batch[w]
  PROVE  batch[w][i].event \in Event /\ batch[w][i].event \in Handling(w)
<1>1. batch[w] \in Seq(Job)
  BY DEF TypeOK
<1>2. batch[w][i] \in Job
  BY <1>1
<1> QED BY <1>2 DEF Job, Handling

LEMMA OwnedClaim ==
  ASSUME Typed, Owned, NEW w \in Worker, Claim(w)
  PROVE  Owned'
<1>1. /\ UNCHANGED <<applied, slow, crashes>> /\ pc[w] = "idle" /\ pc'[w] = "check"
      /\ \A v \in Worker \ {w} : pc'[v] = pc[v] /\ batch'[v] = batch[v]
  BY ClaimedJobs DEF Claim, Goto, Typed, TypeOK
<1>2. \A e \in NextBatch : e \in Event /\ ~ row[e].consumed /\ ~ row[e].dead /\ row[e].claimedBy = Nobody
  BY DEF NextBatch, Claimable
<1>3. Alone'
  <2> SUFFICES ASSUME Calm', NEW v \in Worker, NEW i \in DOMAIN batch'[v]
               PROVE  LET e == batch'[v][i].event IN
                        /\ row'[e].claimedBy = v /\ ~ row'[e].consumed /\ ~ row'[e].dead
                        /\ \A j \in DOMAIN batch'[v] : j # i => batch'[v][j].event # e
    BY DEF Alone
  <2>1. CASE v = w
    <3>1. batch'[v][i].event \in NextBatch
      BY <2>1, ClaimedJobs DEF Typed
    <3>2. \A j \in DOMAIN batch'[v] : j # i => batch'[v][j].event # batch'[v][i].event
      BY <2>1, ClaimedJobs DEF Typed
    <3> QED BY <1>2, <2>1, <3>1, <3>2, RowsClaimed DEF Typed
  <2>2. CASE v # w
    <3> DEFINE e == batch[v][i].event
    <3>1. batch'[v] = batch[v]
      BY <1>1, <2>2
    <3>2. /\ row[e].claimedBy = v /\ ~ row[e].consumed /\ ~ row[e].dead
          /\ \A j \in DOMAIN batch[v] : j # i => batch[v][j].event # e
      BY <1>1, <3>1 DEF Owned, Alone, Calm
    <3>3. e \in Event /\ e \notin NextBatch
      BY <1>2, <3>1, <3>2, EventsOfJobs, NobodyAssumption DEF Typed
    <3> QED BY <3>1, <3>2, <3>3, RowsClaimed DEF Typed
  <2> QED BY <2>1, <2>2
<1>4. \A e \in Event : UnderWay(e) => UnderWay(e)'
  BY <1>1 DEF UnderWay, Current
<1> QED BY <1>1, <1>3, <1>4, RowsClaimed
        DEF Owned, EffectsTold, DuplicateExplained, Calm, Typed

LEMMA OwnedCheck ==
  ASSUME Typed, Owned, NEW w \in Worker, CheckMarker(w)
  PROVE  Owned'
<1>1. /\ UNCHANGED <<row, batch, applied, slow, crashes>> /\ pc[w] = "check"
      /\ \A v \in Worker \ {w} : pc'[v] = pc[v]
  BY DEF CheckMarker, Goto, Typed, TypeOK
<1>2. \A e \in Event : UnderWay(e) => UnderWay(e)'
  BY <1>1 DEF UnderWay, Current
<1> QED BY <1>1, <1>2 DEF Owned, Alone, EffectsTold, DuplicateExplained, Calm

LEMMA OwnedDispatch ==
  ASSUME Typed, Owned, NEW w \in Worker, Dispatch(w)
  PROVE  Owned'
<1> DEFINE e == Current(w).event
<1>1. /\ UNCHANGED <<row, batch, slow, crashes>> /\ pc[w] = "dispatch"
      /\ pc'[w] \in {"complete", "fail"}
      /\ \A v \in Worker \ {w} : pc'[v] = pc[v]
  BY DEF Dispatch, Goto, Typed, TypeOK
<1>2. e \in Event /\ 1 \in DOMAIN batch[w] /\ e = batch[w][1].event
  BY <1>1, JobAtHand
<1>3. \A d \in Event : UnderWay(d) => UnderWay(d)'
  BY <1>1 DEF UnderWay, Current
<1>4. \A d \in Event : d = e => UnderWay(d)'
  BY <1>1 DEF UnderWay, Current
<1>5. \A d \in Event \ {e} : applied'[d] = applied[d]
  BY <1>2 DEF Dispatch, TakeEffect, Typed, TypeOK
<1>6. Calm /\ row[e].failed = 0 => applied[e] = 0
  <2> SUFFICES ASSUME Calm, row[e].failed = 0, applied[e] # 0 PROVE FALSE
    OBVIOUS
  <2>1. row[e].claimedBy = w /\ ~ row[e].consumed
    BY <1>2 DEF Owned, Alone
  <2>2. applied[e] > 0
    <3>1. applied \in [Event -> 0..2] /\ e \in Event
      BY <1>2 DEF Typed, TypeOK
    <3>2. applied[e] \in 0..2 /\ applied[e] # 0
      BY <3>1
    <3> HIDE DEF e
    <3> QED BY <3>2
  <2>3. PICK v \in Worker : pc[v] \in {"complete", "fail"} /\ Current(v).event = e
    BY <1>2, <2>1, <2>2 DEF Owned, EffectsTold, UnderWay
  <2>4. 1 \in DOMAIN batch[v] /\ batch[v][1].event = e
    BY <2>3, JobAtHand
  <2>5. row[e].claimedBy = v
    BY <2>4 DEF Owned, Alone
  <2> QED BY <1>1, <2>1, <2>3, <2>5
<1>7. applied'[e] = 2 => slow > 0 \/ crashes > 0 \/ row[e].failed > 0
  <2>1. SUFFICES ASSUME Calm, row[e].failed = 0 PROVE applied'[e] # 2
    BY <1>2 DEF Calm, Typed, TypeOK, Row
  <2>2. applied[e] = 0
    BY <1>6, <2>1
  <2> QED BY <1>2, <2>2 DEF Dispatch, TakeEffect, Typed, TypeOK
<1>8. Alone'
  BY <1>1 DEF Owned, Alone, Calm
<1>9. EffectsTold'
  <2> SUFFICES ASSUME Calm', NEW d \in Event, applied'[d] > 0
               PROVE  row'[d].failed > 0 \/ row'[d].consumed \/ UnderWay(d)'
    BY DEF EffectsTold
  <2>1. CASE d = e
    BY <1>4, <2>1
  <2>2. CASE d # e
    <3>1. row[d].failed > 0 \/ row[d].consumed \/ UnderWay(d)
      BY <1>1, <1>5, <2>2 DEF Owned, EffectsTold, Calm
    <3> QED BY <1>1, <1>3, <3>1
  <2> QED BY <2>1, <2>2
<1>10. DuplicateExplained'
  BY <1>1, <1>5, <1>7 DEF Owned, DuplicateExplained
<1> QED BY <1>8, <1>9, <1>10 DEF Owned

\* What a job leaves behind once its worker is past it.
LEMMA OwnedNextJob ==
  ASSUME Typed, Owned, NEW w \in Worker, pc[w] # "idle", NextJob(w),
         UNCHANGED <<applied, slow, crashes>>,
         \A e \in Event \ {Current(w).event} : row'[e] = row[e],
         row'[Current(w).event].failed > 0 \/ row'[Current(w).event].consumed,
         row'[Current(w).event].failed > 0 \/ row'[Current(w).event].failed = row[Current(w).event].failed
  PROVE  Owned'
<1> DEFINE e == Current(w).event
<1>1. e \in Event /\ 1 \in DOMAIN batch[w] /\ e = batch[w][1].event
  BY JobAtHand
<1>2. \A v \in Worker \ {w} : pc'[v] = pc[v] /\ batch'[v] = batch[v]
  BY DEF NextJob, Goto, Typed, TypeOK
<1>3. Alone'
  <2> SUFFICES ASSUME Calm', NEW v \in Worker, NEW i \in DOMAIN batch'[v]
               PROVE  LET d == batch'[v][i].event IN
                        /\ row'[d].claimedBy = v /\ ~ row'[d].consumed /\ ~ row'[d].dead
                        /\ \A j \in DOMAIN batch'[v] : j # i => batch'[v][j].event # d
    BY DEF Alone
  <2>1. Calm
    BY DEF Calm
  <2>2. CASE v = w
    <3>1. i + 1 \in DOMAIN batch[w] /\ batch'[w][i] = batch[w][i + 1] /\ i \in Nat \ {0}
      <4>1. batch'[w] \in Seq(Job)
        BY JobsLeft
      <4> QED BY <2>2, <4>1, JobsLeft
    <3>2. batch[w][i + 1].event # e
      BY <1>1, <2>1, <3>1 DEF Owned, Alone
    <3>3. batch[w][i + 1].event \in Event
      BY <3>1, EventsOfJobs DEF Typed
    <3>4. \A j \in DOMAIN batch'[w] : j # i => batch'[w][j].event # batch'[w][i].event
      <4> SUFFICES ASSUME NEW j \in DOMAIN batch'[w], j # i
                   PROVE  batch'[w][j].event # batch'[w][i].event
        OBVIOUS
      <4>1. j + 1 \in DOMAIN batch[w] /\ batch'[w][j] = batch[w][j + 1] /\ j \in Nat
        <5>1. batch'[w] \in Seq(Job)
          BY JobsLeft
        <5> QED BY <5>1, JobsLeft
      <4>2. j + 1 # i + 1
        BY <3>1, <4>1
      <4> QED BY <2>1, <3>1, <4>1, <4>2 DEF Owned, Alone
    <3>5. /\ row[batch[w][i + 1].event].claimedBy = w
          /\ ~ row[batch[w][i + 1].event].consumed /\ ~ row[batch[w][i + 1].event].dead
      BY <2>1, <3>1 DEF Owned, Alone
    <3> QED BY <2>2, <3>1, <3>2, <3>3, <3>4, <3>5
  <2>3. CASE v # w
    <3>1. batch'[v] = batch[v] /\ batch[v][i].event \in Event
      BY <1>2, <2>3, EventsOfJobs DEF Typed
    <3>2. /\ row[batch[v][i].event].claimedBy = v
          /\ ~ row[batch[v][i].event].consumed /\ ~ row[batch[v][i].event].dead
          /\ \A j \in DOMAIN batch[v] : j # i => batch[v][j].event # batch[v][i].event
      BY <2>1, <3>1 DEF Owned, Alone
    <3>3. row[e].claimedBy = w
      BY <1>1, <2>1 DEF Owned, Alone
    <3>4. batch[v][i].event # e
      BY <2>3, <3>2, <3>3
    <3> QED BY <3>1, <3>2, <3>4
  <2> QED BY <2>2, <2>3
<1>4. EffectsTold'
  <2> SUFFICES ASSUME Calm', NEW d \in Event, applied'[d] > 0
               PROVE  row'[d].failed > 0 \/ row'[d].consumed \/ UnderWay(d)'
    BY DEF EffectsTold
  <2>1. CASE d = e
    BY <2>1
  <2>2. CASE d # e
    <3>1. row[d].failed > 0 \/ row[d].consumed \/ UnderWay(d)
      BY DEF Owned, EffectsTold, Calm
    <3>2. UnderWay(d) => UnderWay(d)'
      BY <1>2, <2>2 DEF UnderWay, Current
    <3> QED BY <2>2, <3>1, <3>2
  <2> QED BY <2>1, <2>2
<1>5. DuplicateExplained'
  BY DEF Owned, DuplicateExplained
<1> QED BY <1>3, <1>4, <1>5 DEF Owned

LEMMA OwnedOther ==
  ASSUME Typed, Owned, NEW e \in Event, BecomeDue(e) \/ Lapse(e) \/ ReEnqueue(e)
  PROVE  Owned'
<1>1. UNCHANGED <<pc, batch, applied, crashes>> /\ slow \in Nat /\ (slow' = slow \/ slow' = slow + 1)
  BY DEF BecomeDue, Lapse, ReEnqueue, Typed, TypeOK
<1>2. Calm' => Calm
  BY <1>1 DEF Calm
<1>3. Alone'
  <2> SUFFICES ASSUME Calm', NEW v \in Worker, NEW i \in DOMAIN batch[v]
               PROVE  LET d == batch[v][i].event IN
                        /\ row'[d].claimedBy = v /\ ~ row'[d].consumed /\ ~ row'[d].dead
                        /\ \A j \in DOMAIN batch[v] : j # i => batch[v][j].event # d
    BY <1>1 DEF Alone
  <2> DEFINE d == batch[v][i].event
  <2>1. /\ row[d].claimedBy = v /\ ~ row[d].consumed /\ ~ row[d].dead
        /\ \A j \in DOMAIN batch[v] : j # i => batch[v][j].event # d
    BY <1>2 DEF Owned, Alone
  <2>2. d \in Event /\ d \in Handling(v)
    BY EventsOfJobs DEF Typed
  <2>3. row'[d].claimedBy = row[d].claimedBy
    <3>1. CASE d # e
      BY <2>2, <3>1, RowsOther
    <3>2. CASE d = e /\ BecomeDue(e)
      BY <3>2 DEF BecomeDue, Typed, TypeOK, Row
    <3>3. CASE d = e /\ Lapse(e)
      <4>1. ~ Abandoned(e)
        BY <2>1, <2>2, <3>3 DEF Abandoned
      <4>2. slow' = slow + 1
        BY <3>3, <4>1 DEF Lapse
      <4> QED BY <1>1, <4>2 DEF Calm
    <3>4. CASE d = e /\ ReEnqueue(e)
      BY <2>1, <3>4 DEF ReEnqueue
    <3> QED BY <3>1, <3>2, <3>3, <3>4
  <2>4. ~ row'[d].consumed /\ ~ row'[d].dead
    BY <2>1, <2>2, RowsOther
  <2> QED BY <2>1, <2>3, <2>4
<1>4. \A d \in Event : row'[d].failed = row[d].failed /\ row'[d].consumed = row[d].consumed
  BY RowsOther
<1>5. \A d \in Event : UnderWay(d)' = UnderWay(d)
  BY <1>1 DEF UnderWay, Current
<1>6. EffectsTold'
  BY <1>1, <1>2, <1>4, <1>5 DEF Owned, EffectsTold
<1>7. DuplicateExplained'
  BY <1>1, <1>4 DEF Owned, DuplicateExplained
<1> QED BY <1>3, <1>6, <1>7 DEF Owned

LEMMA OwnedNext == Typed /\ Owned /\ [Next]_vars => Owned'
<1> SUFFICES ASSUME Typed, Owned, [Next]_vars PROVE Owned'
  OBVIOUS
<1>1. CASE UNCHANGED vars
  BY <1>1 DEF vars, Owned, Alone, EffectsTold, DuplicateExplained, Calm, UnderWay, Current
<1>2. ASSUME NEW w \in Worker, Complete(w) PROVE Owned'
  <2>1. pc[w] # "idle" /\ NextJob(w) /\ UNCHANGED <<applied, slow, crashes>>
    BY <1>2 DEF Complete
  <2>2. Current(w).event \in Event
    BY <2>1, JobAtHand
  <2> QED BY <1>2, <2>1, RowsCompleted, OwnedNextJob
<1>3. ASSUME NEW w \in Worker, Fail(w) PROVE Owned'
  <2>1. pc[w] # "idle" /\ NextJob(w) /\ UNCHANGED <<applied, slow, crashes>>
    BY <1>3 DEF Fail
  <2>2. row'[Current(w).event].failed > 0
    BY <1>3, <2>1, JobAtHand, RowsFailed
  <2> QED BY <1>3, <2>1, <2>2, RowsFailed, OwnedNextJob
<1>4. ASSUME NEW w \in Worker, Crash(w) PROVE Owned'
  <2>1. ~ Calm' /\ UNCHANGED <<row, applied, slow>> /\ crashes' > crashes
    BY <1>4 DEF Crash, Calm, Typed, TypeOK
  <2>2. DuplicateExplained'
    <3>1. crashes' > 0
      BY <1>4 DEF Crash, Typed, TypeOK
    <3> QED BY <3>1 DEF DuplicateExplained
  <2> QED BY <2>1, <2>2 DEF Owned, Alone, EffectsTold
<1> QED BY <1>1, <1>2, <1>3, <1>4, OwnedClaim, OwnedCheck, OwnedDispatch, OwnedOther DEF Next, Pass

\* Claims alone keep two workers from handling one row: unless a worker died, outlived
\* its claim or failed an attempt at the row, its handlers took effect at most once.
THEOREM DuplicatesAreExplained == Spec => []DuplicateExplained
<1>1. Init => Owned
  BY DEF Init, Owned, Alone, EffectsTold, DuplicateExplained
<1>2. Owned => DuplicateExplained
  BY DEF Owned
<1> QED BY <1>1, <1>2, DoneAlways, OwnedNext, PTL DEF Spec
==================================================================================
