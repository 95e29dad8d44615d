------------------------------ MODULE EmailDelivery ------------------------------
(***************************************************************************)
(* One outbox event whose handler emails an audience: each recipient is    *)
(* reserved before the provider is called, the reservation is given back   *)
(* when the provider's answer is taken for a refusal, and kept otherwise.  *)
(* The provider may have sent what its answer is taken to refuse.          *)
(*                                                                         *)
(* The relay around it is OutboxRelay's, here for a single row and without *)
(* its deadlines: any worker may find the row claimable while another      *)
(* still handles it.                                                       *)
(***************************************************************************)
EXTENDS Integers, FiniteSets

CONSTANTS
  NumRecipients,   \* the audience, numbered in the order it is mailed
  Worker,          \* replicas of the worker
  MaxAttempts,     \* the backoff policy's attempts before a dead letter
  MaxRuns,         \* bound: times the row is claimed
  MaxCrashes       \* bound: workers that die

Recipient == 1..NumRecipients

ASSUME AudienceAssumption == NumRecipients \in Nat \ {0}
ASSUME BoundsAssumption   == MaxAttempts \in Nat /\ MaxRuns \in Nat /\ MaxCrashes \in Nat

VARIABLES
  consumed, dead,   \* the row's consumed_at and dead_lettered_at
  attempts,         \* the row's attempts
  reserved,         \* processed_markers: recipients reserved for this event
  inbox,            \* messages the provider sent on, per recipient
  belied,           \* those among them whose answer was taken for a refusal
  doubtful,         \* recipients whose send or release no worker saw through
  pc, attempt,      \* where each worker is, and its count of the attempts
  at,               \* the recipient it is at
  runs, crashes     \* what happened so far of what is bounded

rowVars == <<consumed, dead, attempts>>
mail    == <<inbox, belied>>
vars    == <<rowVars, reserved, mail, doubtful, pc, attempt, at, runs, crashes>>

TypeOK ==
  /\ consumed \in BOOLEAN /\ dead \in BOOLEAN /\ attempts \in 0..MaxRuns
  /\ reserved \subseteq Recipient /\ doubtful \subseteq Recipient
  /\ inbox \in [Recipient -> Nat] /\ belied \in [Recipient -> Nat]
  /\ pc \in [Worker -> {"idle", "check", "reserve", "send", "release", "complete", "fail"}]
  /\ attempt \in [Worker -> 0..MaxRuns]
  /\ at \in [Worker -> Recipient]
  /\ runs \in 0..MaxRuns /\ crashes \in 0..MaxCrashes

Init ==
  /\ consumed = FALSE /\ dead = FALSE /\ attempts = 0
  /\ reserved = {} /\ doubtful = {}
  /\ inbox = [r \in Recipient |-> 0] /\ belied = [r \in Recipient |-> 0]
  /\ pc = [w \in Worker |-> "idle"]
  /\ attempt = [w \in Worker |-> 0]
  /\ at = [w \in Worker |-> 1]
  /\ runs = 0 /\ crashes = 0

Goto(w, place) == pc' = [pc EXCEPT ![w] = place]

\* A relay pass claims the row.
Claim(w) ==
  /\ pc[w] = "idle" /\ ~ consumed /\ ~ dead /\ runs < MaxRuns
  /\ runs' = runs + 1
  /\ attempts' = attempts + 1
  /\ attempt' = [attempt EXCEPT ![w] = attempts + 1]
  /\ at' = [at EXCEPT ![w] = 1]
  /\ Goto(w, "check")
  /\ UNCHANGED <<consumed, dead, reserved, mail, doubtful, crashes>>

\* wasProcessed: the relay's own marker is written with consumed_at, and
\* completing a row again changes nothing of it.
CheckMarker(w) ==
  /\ pc[w] = "check"
  /\ Goto(w, IF consumed THEN "idle" ELSE "reserve")
  /\ UNCHANGED <<rowVars, reserved, mail, doubtful, attempt, at, runs, crashes>>

\* The handler's loop over the audience, one recipient after the other.
NextRecipient(w) ==
  IF at[w] = NumRecipients
  THEN Goto(w, "complete") /\ UNCHANGED at
  ELSE Goto(w, "reserve") /\ at' = [at EXCEPT ![w] = @ + 1]

\* reserve: the insert decides; an address already reserved is skipped.
Reserve(w) ==
  /\ pc[w] = "reserve"
  /\ IF at[w] \in reserved
     THEN NextRecipient(w) /\ UNCHANGED reserved
     ELSE /\ reserved' = reserved \cup {at[w]}
          /\ Goto(w, "send") /\ UNCHANGED at
  /\ UNCHANGED <<rowVars, mail, doubtful, attempt, runs, crashes>>

Deliver(r) == inbox' = [inbox EXCEPT ![r] = @ + 1]

\* Mutant: any error of the send is taken for a refusal.
SendUnsure(w) ==
  /\ pc[w] = "send"
  /\ \/ Deliver(at[w]) /\ UNCHANGED belied /\ NextRecipient(w)
     \/ /\ Deliver(at[w]) \/ UNCHANGED inbox
        /\ Goto(w, "release") /\ UNCHANGED <<at, belied>>
  /\ UNCHANGED <<rowVars, reserved, doubtful, attempt, runs, crashes>>

\* sendEmail succeeds.
Accepted(w) ==
  /\ Deliver(at[w]) /\ UNCHANGED <<belied, doubtful>>
  /\ NextRecipient(w)

\* request takes every answer but a 2xx for a refusal, isSmtpRefusal every reply
\* code and every error of the connection: a 502 or a 504, or a connection that
\* broke, says nothing of what became of the message.
TakenForRefusal(w) ==
  /\ \/ Deliver(at[w]) /\ belied' = [belied EXCEPT ![at[w]] = @ + 1]
     \/ UNCHANGED mail
  /\ Goto(w, "release") /\ UNCHANGED <<at, doubtful>>

\* Any other error: the outcome is unknown, and the recipient is not retried.
Unknown(w) ==
  /\ Deliver(at[w]) \/ UNCHANGED inbox
  /\ doubtful' = doubtful \cup {at[w]} /\ UNCHANGED belied
  /\ NextRecipient(w)

\* deliverOnce, once it has the reservation.
Send(w) ==
  /\ pc[w] = "send"
  /\ Accepted(w) \/ TakenForRefusal(w) \/ Unknown(w)
  /\ UNCHANGED <<rowVars, reserved, attempt, runs, crashes>>

\* Mutant: a refusal fails the job and keeps the reservation.
ReleaseForgotten(w) ==
  /\ pc[w] = "release"
  /\ Goto(w, "fail")
  /\ UNCHANGED <<rowVars, reserved, mail, doubtful, attempt, at, runs, crashes>>

\* release, and the refusal is thrown on to the relay.
Release(w) ==
  /\ pc[w] = "release"
  /\ reserved' = reserved \ {at[w]}
  /\ Goto(w, "fail")
  /\ UNCHANGED <<rowVars, mail, doubtful, attempt, at, runs, crashes>>

Complete(w) ==
  /\ pc[w] = "complete"
  /\ consumed' = TRUE
  /\ Goto(w, "idle")
  /\ UNCHANGED <<dead, attempts, reserved, mail, doubtful, attempt, at, runs, crashes>>

\* A statement of reserve, release or complete fails, and the error reaches the
\* relay's catch.
Throw(w) ==
  /\ pc[w] \in {"reserve", "release", "complete"}
  /\ doubtful' = IF pc[w] = "release" THEN doubtful \cup {at[w]} ELSE doubtful
  /\ Goto(w, "fail")
  /\ UNCHANGED <<rowVars, reserved, mail, attempt, at, runs, crashes>>

\* Or it is done, and its answer is lost.  (A release done leaves what Release does.)
AnswerLost(w) ==
  /\ \/ /\ pc[w] = "reserve" /\ at[w] \notin reserved
        /\ reserved' = reserved \cup {at[w]} /\ doubtful' = doubtful \cup {at[w]}
        /\ UNCHANGED consumed
     \/ /\ pc[w] = "complete"
        /\ consumed' = TRUE
        /\ UNCHANGED <<reserved, doubtful>>
  /\ Goto(w, "fail")
  /\ UNCHANGED <<dead, attempts, mail, attempt, at, runs, crashes>>

Fail(w) ==
  /\ pc[w] = "fail"
  /\ dead' = (attempt[w] >= MaxAttempts)
  /\ Goto(w, "idle")
  /\ UNCHANGED <<consumed, attempts, reserved, mail, doubtful, attempt, at, runs, crashes>>

\* The worker dies; what it was sending may never have left, what it was about
\* to release stays reserved.
Crash(w) ==
  /\ pc[w] # "idle" /\ crashes < MaxCrashes
  /\ crashes' = crashes + 1
  /\ doubtful' = doubtful \cup (IF pc[w] \in {"send", "release"} THEN {at[w]} ELSE {})
  /\ Goto(w, "idle")
  /\ UNCHANGED <<rowVars, reserved, mail, attempt, at, runs>>

\* An operator returns the dead letter to the queue.
ReEnqueue ==
  /\ dead
  /\ dead' = FALSE /\ attempts' = 0
  /\ UNCHANGED <<consumed, reserved, mail, doubtful, pc, attempt, at, runs, crashes>>

Pass(w) == \/ Claim(w) \/ CheckMarker(w) \/ Reserve(w) \/ Send(w) \/ Release(w)
           \/ Complete(w) \/ Throw(w) \/ AnswerLost(w) \/ Fail(w)

AllIdle  == \A w \in Worker : pc[w] = "idle"
Finished == AllIdle /\ (consumed \/ runs = MaxRuns)

Next == \/ \E w \in Worker : Pass(w) \/ Crash(w)
        \/ ReEnqueue
        \/ Finished /\ UNCHANGED vars

Spec == Init /\ [][Next]_vars
-----------------------------------------------------------------------------
(***************************************************************************)
(* What holds.                                                             *)
(***************************************************************************)

\* Besides the messages whose answer was taken for a refusal, a recipient is sent
\* one at most, over retries, crashes, workers that claim the same row and
\* operators that re-enqueue it: a reservation is given back for nothing else.
AtMostOneEmail == \A r \in Recipient : inbox[r] <= 1 + belied[r]

\* Nobody is skipped without a reason: a reservation stands for a message that
\* was accepted, for one no worker saw through, or for one a worker is at.
ReservationExplained ==
  \A r \in reserved :
    \/ inbox[r] = 1 + belied[r]
    \/ r \in doubtful
    \/ \E w \in Worker : pc[w] \in {"send", "release"} /\ at[w] = r
==================================================================================
