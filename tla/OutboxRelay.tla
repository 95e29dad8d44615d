------------------------------ MODULE OutboxRelay ------------------------------
(***************************************************************************)
(* The claim side of the transactional outbox: workers that poll the       *)
(* table, claim a batch of due rows for a bounded time, run the handlers   *)
(* of each row in turn, and complete the row, put it off to a later        *)
(* attempt, or dead-letter it.                                             *)
(*                                                                         *)
(* Time is abstracted to what the statements compare: whether a claim's    *)
(* deadline has passed and whether a row's next attempt is due.  A claim   *)
(* may lapse while its worker is still handling the row, which goes on     *)
(* unawares.                                                               *)
(***************************************************************************)
EXTENDS Integers, Sequences, FiniteSets, SequencesExt

CONSTANTS
  NumEvents,     \* rows of outbox_events, numbered in the order they are claimed
  Worker,        \* replicas of the worker
  Nobody,        \* claimed_by and claimed_until are null
  BatchSize,     \* limit of one claim
  MaxAttempts,   \* the backoff policy's attempts before a dead letter
  MaxSlow,       \* bound: claims that lapse under a live worker
  MaxCrashes,    \* bound: workers that die, or whose pass a database error ends
  MaxRevivals    \* bound: dead letters an operator re-enqueues

Event == 1..NumEvents

ASSUME EventsAssumption == NumEvents \in Nat
ASSUME BatchAssumption  == BatchSize \in Nat \ {0} /\ MaxAttempts \in Nat \ {0}
ASSUME NobodyAssumption == Nobody \notin Worker
ASSUME BoundsAssumption == MaxSlow \in Nat /\ MaxCrashes \in Nat /\ MaxRevivals \in Nat

VARIABLES
  row,       \* outbox_events; failed is the attempt its failure history ends with
  marker,    \* processed_markers of the relay's consumer: the events marked
  pc,        \* where each worker's pass is
  batch,     \* the claimed jobs its pass has still to handle, with their attempt
  applied,   \* whether each event's handlers took effect: 0, once, 2 for more often
  slow, crashes, revivals   \* what happened so far of what is bounded

vars == <<row, marker, pc, batch, applied, slow, crashes, revivals>>

Row == [consumed : BOOLEAN, dead : BOOLEAN, claimedBy : Worker \cup {Nobody},
        due : BOOLEAN, attempts : Nat, failed : Nat]
Job == [event : Event, attempt : Nat]

TypeOK ==
  /\ row \in [Event -> Row]
  /\ marker \subseteq Event
  /\ pc \in [Worker -> {"idle", "check", "dispatch", "complete", "fail"}]
  /\ batch \in [Worker -> Seq(Job)]
  /\ applied \in [Event -> 0..2]
  /\ slow \in 0..MaxSlow /\ crashes \in 0..MaxCrashes /\ revivals \in 0..MaxRevivals

Init ==
  /\ row = [e \in Event |-> [consumed |-> FALSE, dead |-> FALSE, claimedBy |-> Nobody,
                             due |-> TRUE, attempts |-> 0, failed |-> 0]]
  /\ marker = {}
  /\ pc = [w \in Worker |-> "idle"]
  /\ batch = [w \in Worker |-> <<>>]
  /\ applied = [e \in Event |-> 0]
  /\ slow = 0 /\ crashes = 0 /\ revivals = 0

Goto(w, place) == pc' = [pc EXCEPT ![w] = place]
bounded == <<slow, crashes, revivals>>
-----------------------------------------------------------------------------
\* Mutant: the claim does not look at claimed_until.
ClaimableHeld == {e \in Event : ~ row[e].consumed /\ ~ row[e].dead /\ row[e].due}
\* The rows the claim's subquery selects.  A lapsed claim is nobody's.
Claimable == {e \in Event : /\ ~ row[e].consumed /\ ~ row[e].dead /\ row[e].due
                            /\ row[e].claimedBy = Nobody}

\* The oldest of them, as many as a batch holds.
NextBatch == {e \in Claimable : Cardinality({d \in Claimable : d < e}) < BatchSize}

\* One UPDATE ... FOR UPDATE SKIP LOCKED RETURNING: the oldest rows are taken,
\* and returned in an order nothing fixes.
Claim(w) ==
  /\ pc[w] = "idle" /\ Claimable # {}
  /\ row' = [e \in Event |-> IF e \in NextBatch
               THEN [row[e] EXCEPT !.claimedBy = w, !.attempts = @ + 1] ELSE row[e]]
  /\ \E returned \in SetToSeqs(NextBatch) :
       batch' = [batch EXCEPT ![w] = [i \in DOMAIN returned |->
                   [event |-> returned[i], attempt |-> row[returned[i]].attempts + 1]]]
  /\ Goto(w, "check")
  /\ UNCHANGED <<marker, applied, bounded>>

Current(w) == Head(batch[w])

\* wasProcessed: a marked row is completed without running its handlers.
CheckMarker(w) ==
  /\ pc[w] = "check"
  /\ Goto(w, IF Current(w).event \in marker THEN "complete" ELSE "dispatch")
  /\ UNCHANGED <<row, marker, batch, applied, bounded>>

TakeEffect(e) == applied' = [applied EXCEPT ![e] = IF @ = 0 THEN 1 ELSE 2]

\* Mutant: a handler's error is logged, and the row completed all the same.
DispatchSwallows(w) ==
  /\ pc[w] = "dispatch"
  /\ TakeEffect(Current(w).event) \/ UNCHANGED applied
  /\ Goto(w, "complete")
  /\ UNCHANGED <<row, marker, batch, bounded>>

\* The row's handlers take effect in turn, or one of them throws: the first one,
\* or a later one, or the completion in the same try, after effects took place.
Dispatch(w) ==
  /\ pc[w] = "dispatch"
  /\ \/ /\ TakeEffect(Current(w).event)
        /\ Goto(w, "complete") \/ Goto(w, "fail")
     \/ /\ UNCHANGED applied
        /\ Goto(w, "fail")
  /\ UNCHANGED <<row, marker, batch, bounded>>

NextJob(w) ==
  /\ batch' = [batch EXCEPT ![w] = Tail(@)]
  /\ Goto(w, IF Len(batch[w]) = 1 THEN "idle" ELSE "check")

\* complete: the row and the marker, whoever holds the row by now.
Complete(w) ==
  /\ pc[w] = "complete"
  /\ row' = [row EXCEPT ![Current(w).event].consumed = TRUE,
                        ![Current(w).event].claimedBy = Nobody]
  /\ marker' = marker \cup {Current(w).event}
  /\ NextJob(w)
  /\ UNCHANGED <<applied, bounded>>

\* Mutant: the last attempt is given up before it is made.
ExhaustedEarly(attempt) == attempt + 1 >= MaxAttempts
IsExhausted(attempt) == attempt >= MaxAttempts

\* fail: put off or dead-lettered by this worker's count of the attempts,
\* whoever holds the row by now and whatever became of it.
Fail(w) ==
  /\ pc[w] = "fail"
  /\ LET job == Current(w) IN
     row' = [row EXCEPT ![job.event] =
               [@ EXCEPT !.claimedBy = Nobody,
                         !.dead = IsExhausted(job.attempt),
                         !.due = IsExhausted(job.attempt),
                         !.failed = job.attempt]]
  /\ NextJob(w)
  /\ UNCHANGED <<marker, applied, bounded>>
-----------------------------------------------------------------------------
\* The backoff delay of a failed row has passed.
BecomeDue(e) ==
  /\ ~ row[e].due
  /\ row' = [row EXCEPT ![e].due = TRUE]
  /\ UNCHANGED <<marker, pc, batch, applied, bounded>>

Handling(w) == {batch[w][i].event : i \in DOMAIN batch[w]}
Abandoned(e) == row[e].claimedBy # Nobody /\ e \notin Handling(row[e].claimedBy)

\* Mutant: claimed_until is never compared, a claim is for ever.
LapseNever(e) == row[e].claimedBy # Nobody /\ UNCHANGED vars

\* claimed_until passes: always after its worker died, at times under a live one.
Lapse(e) ==
  /\ row[e].claimedBy # Nobody
  /\ IF Abandoned(e) THEN UNCHANGED slow ELSE slow < MaxSlow /\ slow' = slow + 1
  /\ row' = [row EXCEPT ![e].claimedBy = Nobody]
  /\ UNCHANGED <<marker, pc, batch, applied, crashes, revivals>>

\* The worker dies, or a statement of the relay itself fails and ends the pass.
Crash(w) ==
  /\ pc[w] # "idle" /\ crashes < MaxCrashes
  /\ crashes' = crashes + 1
  /\ batch' = [batch EXCEPT ![w] = <<>>]
  /\ Goto(w, "idle")
  /\ UNCHANGED <<row, marker, applied, slow, revivals>>

\* Mutant: the attempts reset so that the claim's increment starts at zero.
ReEnqueueFromZero(e) ==
  /\ row[e].dead /\ revivals < MaxRevivals
  /\ revivals' = revivals + 1
  /\ row' = [row EXCEPT ![e] = [@ EXCEPT !.dead = FALSE, !.attempts = -1, !.due = TRUE,
                                         !.claimedBy = Nobody]]
  /\ UNCHANGED <<marker, pc, batch, applied, slow, crashes>>

\* reEnqueue: an operator returns a dead letter to the queue.
ReEnqueue(e) ==
  /\ row[e].dead /\ revivals < MaxRevivals
  /\ revivals' = revivals + 1
  /\ row' = [row EXCEPT ![e] = [@ EXCEPT !.dead = FALSE, !.attempts = 0, !.due = TRUE,
                                         !.claimedBy = Nobody]]
  /\ UNCHANGED <<marker, pc, batch, applied, slow, crashes>>

Pass(w) == Claim(w) \/ CheckMarker(w) \/ Dispatch(w) \/ Complete(w) \/ Fail(w)

Settled == \A e \in Event : row[e].consumed \/ row[e].dead
Quiet   == Settled /\ \A w \in Worker : pc[w] = "idle"

Next ==
  \/ \E w \in Worker : Pass(w) \/ Crash(w)
  \/ \E e \in Event : BecomeDue(e) \/ Lapse(e) \/ ReEnqueue(e)
  \/ Quiet /\ UNCHANGED vars

Spec == Init /\ [][Next]_vars

\* Workers poll on a timer and their handlers return; clocks advance.
FairSpec ==
  /\ Spec
  /\ \A w \in Worker : WF_vars(Pass(w))
  /\ \A e \in Event : WF_vars(BecomeDue(e)) /\ WF_vars(Abandoned(e) /\ Lapse(e))
-----------------------------------------------------------------------------
(***************************************************************************)
(* What holds.                                                             *)
(***************************************************************************)

\* "A marker without a completion would let a redelivery skip work that never
\* happened": a row is marked exactly when it is consumed, and only after its
\* handlers took effect.
MarkedWhenDone ==
  \A e \in Event : /\ e \in marker <=> row[e].consumed
                   /\ row[e].consumed => applied[e] > 0

\* "The side effect happens once from the consumer's point of view", unless a
\* worker died or outlived its claim, or an attempt at the row failed halfway:
\* claims alone keep two workers from handling one row.
DuplicateExplained ==
  \A e \in Event : applied[e] = 2 => slow > 0 \/ crashes > 0 \/ row[e].failed > 0

\* A dead letter's history ends with the attempt that exhausted the policy.
DeadLetterExplained ==
  \A e \in Event : row[e].dead =>
    row[e].failed >= MaxAttempts

\* "The row becomes claimable again after a bounded lease timeout and is
\* eventually processed", or its attempts are exhausted: no row is left behind.
EveryRowSettles == \A e \in Event : <>[](row[e].consumed \/ row[e].dead)

\* The relay keeps the queue's promise.
Promise == INSTANCE DurableQueue WITH
             done    <- {e \in Event : row[e].consumed},
             buried  <- {e \in Event : row[e].dead},
             applied <- {e \in Event : applied[e] > 0}
ImplementsQueue == Promise!Spec
==================================================================================
