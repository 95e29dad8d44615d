--------------------------- MODULE BackgroundProofs ---------------------------
(***************************************************************************)
(* The processes behind the API: the worker that mails an audience         *)
(* (EmailDelivery) and the scheduler's replicas (SchedulerLease).          *)
(***************************************************************************)
EXTENDS EmailDelivery, SchedulerLease, TLAPS

-----------------------------------------------------------------------------
(***************************************************************************)
(* What holds of EmailDelivery for every audience and every number of      *)
(* workers, attempts, claims of the row and crashes.                       *)
(***************************************************************************)
USE DEF rowVars, mail

\* reEnqueue resets the attempts and never the claims.
Typed == TypeOK /\ attempts <= runs

LEMMA TypedInit == Init => Typed
<1> SUFFICES ASSUME Init PROVE Typed
  OBVIOUS
<1>1. consumed \in BOOLEAN /\ dead \in BOOLEAN
  BY Zenon DEF Init
<1>2. at \in [Worker -> Recipient]
  BY AudienceAssumption DEF Init, Recipient
<1>3. /\ inbox \in [Recipient -> Nat] /\ belied \in [Recipient -> Nat]
      /\ attempt \in [Worker -> 0..MaxRuns]
  BY BoundsAssumption DEF Init
<1> QED BY <1>1, <1>2, <1>3, BoundsAssumption DEF Init, Typed, TypeOK

LEMMA NextRecipientType ==
  ASSUME TypeOK, NEW w \in Worker, NextRecipient(w)
  PROVE  /\ \E place \in {"reserve", "complete"} : pc' = [pc EXCEPT ![w] = place]
         /\ at' \in [Worker -> Recipient]
<1>1. CASE at[w] = NumRecipients
  BY <1>1 DEF NextRecipient, Goto, TypeOK
<1>2. CASE at[w] # NumRecipients
  <2>1. at[w] + 1 \in Recipient
    BY <1>2, AudienceAssumption DEF TypeOK, Recipient
  <2> QED BY <1>2, <2>1 DEF NextRecipient, Goto, TypeOK
<1> QED BY <1>1, <1>2

LEMMA TypedPass ==
  ASSUME Typed, NEW w \in Worker, Pass(w)
  PROVE  Typed'
<1> USE AudienceAssumption, BoundsAssumption
<1>1. CASE Claim(w)
  <2>1. attempts + 1 \in 0..MaxRuns /\ runs' \in 0..MaxRuns /\ attempts' = attempts + 1 /\ attempts' <= runs'
    BY <1>1 DEF Claim, Typed, TypeOK
  <2>2. attempt' \in [Worker -> 0..MaxRuns] /\ at' \in [Worker -> Recipient]
    BY <1>1, <2>1 DEF Claim, Typed, TypeOK, Recipient
  <2>3. pc' = [pc EXCEPT ![w] = "check"] /\ UNCHANGED <<consumed, dead, reserved, mail, doubtful, crashes>>
    BY <1>1 DEF Claim, Goto
  <2> QED BY <2>1, <2>2, <2>3 DEF Typed, TypeOK
<1>2. CASE CheckMarker(w) \/ Release(w) \/ Complete(w) \/ Throw(w) \/ AnswerLost(w) \/ Fail(w)
  <2>1. consumed' \in BOOLEAN /\ dead' \in BOOLEAN
    <3>1. consumed' = consumed \/ consumed' = TRUE
      BY <1>2, Zenon DEF CheckMarker, Release, Complete, Throw, AnswerLost, Fail
    <3>2. dead' = dead \/ dead' = (attempt[w] >= MaxAttempts)
      BY <1>2, Zenon DEF CheckMarker, Release, Complete, Throw, AnswerLost, Fail
    <3>3. consumed \in BOOLEAN /\ dead \in BOOLEAN
      BY Zenon DEF Typed, TypeOK
    <3>4. (attempt[w] >= MaxAttempts) \in BOOLEAN
      BY SMT
    <3> QED BY <3>1, <3>2, <3>3, <3>4, Zenon
  <2>2. /\ \E place \in {"idle", "reserve", "fail"} : pc' = [pc EXCEPT ![w] = place]
        /\ reserved' \subseteq Recipient /\ doubtful' \subseteq Recipient
        /\ UNCHANGED <<attempts, mail, attempt, at, runs, crashes>>
    BY <1>2 DEF CheckMarker, Release, Complete, Throw, AnswerLost, Fail, Goto, Typed, TypeOK
  <2> QED BY <2>1, <2>2 DEF Typed, TypeOK
<1>3. CASE Reserve(w)
  <2>1. CASE at[w] \in reserved
    BY <1>3, <2>1, NextRecipientType DEF Reserve, Typed, TypeOK
  <2>2. CASE at[w] \notin reserved
    BY <1>3, <2>2 DEF Reserve, Goto, Typed, TypeOK
  <2> QED BY <2>1, <2>2
<1>4. CASE Send(w)
  <2>1. /\ \E place \in {"reserve", "complete", "release"} : pc' = [pc EXCEPT ![w] = place]
        /\ at' \in [Worker -> Recipient]
    <3>1. CASE NextRecipient(w)
      BY <3>1, NextRecipientType DEF Typed
    <3>2. CASE Goto(w, "release") /\ UNCHANGED at
      BY <3>2 DEF Goto, Typed, TypeOK
    <3> QED BY <1>4, <3>1, <3>2 DEF Send, Accepted, TakenForRefusal, Unknown
  <2>2. /\ inbox' \in [Recipient -> Nat] /\ belied' \in [Recipient -> Nat]
        /\ doubtful' \subseteq Recipient
    BY <1>4 DEF Send, Accepted, TakenForRefusal, Unknown, Deliver, Typed, TypeOK
  <2> QED BY <1>4, <2>1, <2>2 DEF Send, Typed, TypeOK
<1> QED BY <1>1, <1>2, <1>3, <1>4 DEF Pass

LEMMA TypedNext == Typed /\ [Next]_vars => Typed'
<1> SUFFICES ASSUME Typed, [Next]_vars PROVE Typed'
  OBVIOUS
<1>1. CASE UNCHANGED vars
  BY <1>1 DEF vars, Typed, TypeOK
<1>2. ASSUME NEW w \in Worker, Crash(w) PROVE Typed'
  BY <1>2, BoundsAssumption DEF Crash, Goto, Typed, TypeOK
<1>3. CASE ReEnqueue
  <2>1. dead' \in BOOLEAN
    BY <1>3, Zenon DEF ReEnqueue
  <2> QED BY <1>3, <2>1, BoundsAssumption DEF ReEnqueue, Typed, TypeOK
<1> QED BY <1>1, <1>2, <1>3, TypedPass DEF Next

\* Every reachable state of the job, its workers and its reservations is well
\* typed.
THEOREM TypeCorrect == Spec => []TypeOK
<1>1. Typed => TypeOK
  BY DEF Typed
<1> QED BY <1>1, TypedInit, TypedNext, PTL DEF Spec
-----------------------------------------------------------------------------
\* The workers with a reservation in hand: about to send, or to give it back.
Holding(w) == pc[w] \in {"send", "release"}

\* A reservation is in one worker's hand at most, and while it is, nothing was
\* sent but what is taken for refused; a message sent otherwise keeps its
\* reservation for good.
OneHand ==
  /\ \A v, w \in Worker : v # w /\ Holding(v) /\ Holding(w) => at[v] # at[w]
  /\ \A w \in Worker : Holding(w) => at[w] \in reserved /\ inbox[at[w]] = belied[at[w]]
  /\ \A r \in Recipient : inbox[r] # belied[r] => r \in reserved /\ inbox[r] = 1 + belied[r]

\* What lets a worker on to the next recipient leaves it without one in hand.
LEMMA NextRecipientEmpty ==
  ASSUME TypeOK, NEW w \in Worker, NextRecipient(w)
  PROVE  /\ ~ Holding(w)'
         /\ \A v \in Worker \ {w} : Holding(v)' = Holding(v) /\ at'[v] = at[v]
<1>1. CASE at[w] = NumRecipients
  BY <1>1 DEF NextRecipient, Goto, Holding, TypeOK
<1>2. CASE at[w] # NumRecipients
  BY <1>2 DEF NextRecipient, Goto, Holding, TypeOK
<1> QED BY <1>1, <1>2

\* A message whose answer is taken for a refusal counts on both sides.
LEMMA RefusalMail ==
  ASSUME TypeOK, NEW w \in Worker, TakenForRefusal(w)
  PROVE  \A r \in Recipient : \/ inbox'[r] = inbox[r] /\ belied'[r] = belied[r]
                              \/ inbox'[r] = inbox[r] + 1 /\ belied'[r] = belied[r] + 1
<1>1. CASE Deliver(at[w]) /\ belied' = [belied EXCEPT ![at[w]] = @ + 1]
  <2>1. /\ inbox' = [r \in Recipient |-> IF r = at[w] THEN inbox[r] + 1 ELSE inbox[r]]
        /\ belied' = [r \in Recipient |-> IF r = at[w] THEN belied[r] + 1 ELSE belied[r]]
    <3>1. /\ inbox = [r \in Recipient |-> inbox[r]] /\ belied = [r \in Recipient |-> belied[r]]
      BY DEF TypeOK
    <3> QED BY <1>1, <3>1, Zenon DEF Deliver
  <2> QED BY <2>1
<1>2. CASE UNCHANGED mail
  BY <1>2
<1> QED BY <1>1, <1>2 DEF TakenForRefusal

LEMMA OneHandPass ==
  ASSUME TypeOK, OneHand, NEW w \in Worker, Pass(w)
  PROVE  OneHand'
<1>1. CASE Claim(w) \/ CheckMarker(w) \/ Complete(w) \/ Fail(w)
  <2>1. /\ ~ Holding(w)'
        /\ \A v \in Worker \ {w} : Holding(v)' = Holding(v) /\ at'[v] = at[v]
        /\ UNCHANGED <<reserved, mail>>
    BY <1>1 DEF Claim, CheckMarker, Complete, Fail, Goto, Holding, TypeOK
  <2> QED BY <2>1 DEF OneHand
<1>2. CASE Throw(w)
  <2>1. /\ ~ Holding(w)'
        /\ \A v \in Worker \ {w} : Holding(v)' = Holding(v) /\ at'[v] = at[v]
        /\ UNCHANGED <<reserved, mail>>
    BY <1>2 DEF Throw, Goto, Holding, TypeOK
  <2> QED BY <2>1 DEF OneHand
<1>6. CASE AnswerLost(w)
  <2>1. /\ ~ Holding(w)' /\ UNCHANGED <<at, mail>> /\ reserved \subseteq reserved'
        /\ \A v \in Worker \ {w} : Holding(v)' = Holding(v)
    BY <1>6 DEF AnswerLost, Goto, Holding, TypeOK
  <2> QED BY <2>1 DEF OneHand
<1>3. CASE Reserve(w)
  <2>1. CASE at[w] \in reserved
    BY <1>3, <2>1, NextRecipientEmpty DEF Reserve, OneHand
  <2>2. CASE at[w] \notin reserved
    <3>1. /\ Holding(w)' /\ at' = at /\ UNCHANGED mail
          /\ reserved' = reserved \cup {at[w]}
          /\ \A v \in Worker \ {w} : Holding(v)' = Holding(v)
      BY <1>3, <2>2 DEF Reserve, Goto, Holding, TypeOK
    <3>2. inbox[at[w]] = belied[at[w]]
      BY <2>2 DEF OneHand, TypeOK
    <3> QED BY <2>2, <3>1, <3>2 DEF OneHand
  <2> QED BY <2>1, <2>2
<1>4. CASE Send(w)
  <2>1. Holding(w) /\ UNCHANGED reserved
    BY <1>4 DEF Send, Holding
  <2>2. CASE Accepted(w) \/ Unknown(w)
    <3>1. (UNCHANGED inbox \/ Deliver(at[w])) /\ UNCHANGED belied /\ NextRecipient(w)
      BY <2>2 DEF Accepted, Unknown
    <3>2. inbox[at[w]] = belied[at[w]] /\ at[w] \in reserved /\ at[w] \in Recipient
      BY <2>1 DEF OneHand, TypeOK
    <3>3. /\ \A r \in Recipient : inbox'[r] = inbox[r] \/ (r = at[w] /\ inbox'[r] = 1 + belied[r])
          /\ \A r \in Recipient \ {at[w]} : inbox'[r] = inbox[r]
      <4>1. CASE UNCHANGED inbox
        BY <4>1
      <4>2. CASE Deliver(at[w])
        BY <3>2, <4>2 DEF Deliver, TypeOK
      <4> QED BY <3>1, <4>1, <4>2
    <3>4. \A v \in Worker : Holding(v)' => v # w /\ Holding(v) /\ at'[v] = at[v] /\ at[v] \in Recipient
      BY <3>1, NextRecipientEmpty DEF TypeOK
    <3>5. \A v \in Worker : Holding(v)' => at[v] # at[w]
      BY <2>1, <3>4 DEF OneHand
    <3>6. \A v \in Worker : Holding(v)' => at'[v] \in reserved' /\ inbox'[at'[v]] = belied'[at'[v]]
      BY <2>1, <3>1, <3>3, <3>4, <3>5 DEF OneHand
    <3>7. \A r \in Recipient : inbox'[r] # belied'[r] => r \in reserved' /\ inbox'[r] = 1 + belied'[r]
      BY <2>1, <3>1, <3>2, <3>3 DEF OneHand
    <3> QED BY <3>4, <3>6, <3>7 DEF OneHand
  <2>3. CASE TakenForRefusal(w)
    <3>1. \A v \in Worker : Holding(v)' = Holding(v)
      BY <1>4, <2>3 DEF Send, TakenForRefusal, Goto, Holding, TypeOK
    <3>2. \A r \in Recipient : \/ inbox'[r] = inbox[r] /\ belied'[r] = belied[r]
                               \/ inbox'[r] = inbox[r] + 1 /\ belied'[r] = belied[r] + 1
      BY <2>3, RefusalMail
    <3>3. \A r \in Recipient : inbox[r] \in Nat /\ belied[r] \in Nat
      BY DEF TypeOK
    <3>4. at' = at /\ \A v \in Worker : at[v] \in Recipient
      BY <2>3 DEF TakenForRefusal, TypeOK
    <3>5. \A v \in Worker : Holding(v)' => at'[v] \in reserved' /\ inbox'[at'[v]] = belied'[at'[v]]
      BY <2>1, <3>1, <3>2, <3>4 DEF OneHand
    <3>6. \A r \in Recipient : inbox'[r] # belied'[r] => r \in reserved' /\ inbox'[r] = 1 + belied'[r]
      <4> SUFFICES ASSUME NEW r \in Recipient, inbox'[r] # belied'[r]
                   PROVE  r \in reserved /\ inbox'[r] = 1 + belied'[r]
        BY <2>1
      <4>1. inbox[r] # belied[r]
        BY <3>2
      <4>2. r \in reserved /\ inbox[r] = 1 + belied[r]
        BY <4>1 DEF OneHand
      <4> QED BY <3>2, <3>3, <4>2
    <3> QED BY <3>1, <3>4, <3>5, <3>6 DEF OneHand
  <2> QED BY <1>4, <2>2, <2>3 DEF Send
<1>5. CASE Release(w)
  <2>1. /\ Holding(w) /\ ~ Holding(w)' /\ at' = at /\ UNCHANGED mail
        /\ reserved' = reserved \ {at[w]}
        /\ \A v \in Worker \ {w} : Holding(v)' = Holding(v)
    BY <1>5 DEF Release, Goto, Holding, TypeOK
  <2> QED BY <2>1 DEF OneHand, TypeOK
<1> QED BY <1>1, <1>2, <1>3, <1>4, <1>5, <1>6 DEF Pass

LEMMA OneHandNext == TypeOK /\ OneHand /\ [Next]_vars => OneHand'
<1> SUFFICES ASSUME TypeOK, OneHand, [Next]_vars PROVE OneHand'
  OBVIOUS
<1>1. CASE UNCHANGED vars
  BY <1>1 DEF vars, OneHand, Holding
<1>2. ASSUME NEW w \in Worker, Crash(w) PROVE OneHand'
  <2>1. /\ ~ Holding(w)' /\ UNCHANGED <<at, mail, reserved>>
        /\ \A v \in Worker \ {w} : Holding(v)' = Holding(v)
    BY <1>2 DEF Crash, Goto, Holding, TypeOK
  <2> QED BY <2>1 DEF OneHand
<1>3. CASE ReEnqueue
  BY <1>3 DEF ReEnqueue, OneHand, Holding
<1> QED BY <1>1, <1>2, <1>3, OneHandPass DEF Next

\* However often the row is claimed, retried, re-enqueued or lost with its worker,
\* and however many workers handle it at once, a recipient who got two messages got
\* all but one of them on an answer that was taken for a refusal.
THEOREM NobodyIsMailedTwice == Spec => []AtMostOneEmail
<1>1. Init => OneHand
  BY DEF Init, OneHand, Holding
<1>2. TypeOK /\ OneHand => AtMostOneEmail
  BY DEF OneHand, AtMostOneEmail, TypeOK
<1> QED BY <1>1, <1>2, TypeCorrect, OneHandNext, PTL DEF Spec
-----------------------------------------------------------------------------
\* What a reservation may stand for.
Explained(r) == inbox[r] = 1 + belied[r] \/ r \in doubtful \/ \E v \in Worker : Holding(v) /\ at[v] = r

\* An explanation stands unless the hand that holds the reservation lets go of it.
LEMMA StaysExplained ==
  ASSUME NEW r \in reserved, Explained(r),
         inbox[r] = 1 + belied[r] => inbox'[r] = 1 + belied'[r], doubtful \subseteq doubtful',
         \A v \in Worker : Holding(v) /\ at[v] = r =>
                            (Holding(v)' /\ at'[v] = r) \/ r \in doubtful'
  PROVE  Explained(r)'
<1>1. CASE inbox[r] = 1 + belied[r] \/ r \in doubtful
  BY <1>1 DEF Explained
<1>2. ASSUME NEW v \in Worker, Holding(v), at[v] = r PROVE Explained(r)'
  BY <1>2 DEF Explained
<1> QED BY <1>1, <1>2 DEF Explained

LEMMA ExplainedPass ==
  ASSUME TypeOK, OneHand, ReservationExplained, NEW w \in Worker, Pass(w)
  PROVE  ReservationExplained'
<1>0. ReservationExplained = (\A r \in reserved : Explained(r))
  BY DEF ReservationExplained, Explained, Holding
<1>1. ReservationExplained' = (\A r \in reserved' : Explained(r)')
  BY DEF ReservationExplained, Explained, Holding
<1>2. CASE Claim(w) \/ CheckMarker(w) \/ Complete(w) \/ Fail(w)
  <2>1. ~ Holding(w) /\ \A v \in Worker \ {w} : Holding(v)' = Holding(v) /\ at'[v] = at[v]
    BY <1>2 DEF Claim, CheckMarker, Complete, Fail, Goto, Holding, TypeOK
  <2>2. UNCHANGED <<reserved, mail, doubtful>>
    BY <1>2 DEF Claim, CheckMarker, Complete, Fail
  <2> QED BY <1>0, <1>1, <2>1, <2>2, StaysExplained
<1>3. CASE Throw(w)
  <2>1. /\ UNCHANGED <<reserved, mail, at>> /\ doubtful \subseteq doubtful'
        /\ Holding(w) => at[w] \in doubtful'
        /\ \A v \in Worker \ {w} : Holding(v)' = Holding(v)
    BY <1>3 DEF Throw, Goto, Holding, TypeOK
  <2> QED BY <1>0, <1>1, <2>1, StaysExplained
<1>7. CASE AnswerLost(w)
  <2>1. /\ UNCHANGED <<mail, at>> /\ doubtful \subseteq doubtful' /\ ~ Holding(w)
        /\ \A r \in reserved' : r \in reserved \/ r \in doubtful'
        /\ \A v \in Worker \ {w} : Holding(v)' = Holding(v)
    BY <1>7 DEF AnswerLost, Goto, Holding, TypeOK
  <2>2. \A r \in reserved' : r \in doubtful' => Explained(r)'
    BY DEF Explained
  <2> QED BY <1>0, <1>1, <2>1, <2>2, StaysExplained
<1>4. CASE Reserve(w)
  <2>1. CASE at[w] \in reserved
    <3>1. ~ Holding(w) /\ UNCHANGED <<reserved, mail, doubtful>>
      BY <1>4, <2>1 DEF Reserve, Holding
    <3>2. \A v \in Worker \ {w} : Holding(v)' = Holding(v) /\ at'[v] = at[v]
      BY <1>4, <2>1, NextRecipientEmpty DEF Reserve
    <3> QED BY <1>0, <1>1, <3>1, <3>2, StaysExplained
  <2>2. CASE at[w] \notin reserved
    <3>1. /\ Holding(w)' /\ UNCHANGED <<at, mail, doubtful>>
          /\ reserved' = reserved \cup {at[w]}
          /\ \A v \in Worker \ {w} : Holding(v)' = Holding(v)
      BY <1>4, <2>2 DEF Reserve, Goto, Holding, TypeOK
    <3>2. Explained(at[w])'
      BY <3>1 DEF Explained
    <3> QED BY <1>0, <1>1, <3>1, <3>2, StaysExplained
  <2> QED BY <2>1, <2>2
<1>5. CASE Send(w)
  <2>1. Holding(w) /\ UNCHANGED reserved /\ at[w] \in Recipient /\ inbox[at[w]] = belied[at[w]]
    BY <1>5 DEF Send, Holding, OneHand, TypeOK
  <2>2. CASE Accepted(w) \/ Unknown(w)
    <3>1. NextRecipient(w) /\ UNCHANGED belied /\ doubtful \subseteq doubtful'
      BY <2>2 DEF Accepted, Unknown
    <3>2. \A v \in Worker \ {w} : Holding(v)' = Holding(v) /\ at'[v] = at[v]
      BY <3>1, NextRecipientEmpty
    <3>3. inbox'[at[w]] = 1 + belied'[at[w]] \/ at[w] \in doubtful'
      <4>1. Deliver(at[w]) \/ at[w] \in doubtful'
        BY <2>2 DEF Accepted, Unknown
      <4>2. CASE Deliver(at[w])
        BY <2>1, <3>1, <4>2 DEF Deliver, TypeOK
      <4> QED BY <4>1, <4>2
    <3>4. \A r \in Recipient \ {at[w]} : inbox'[r] = inbox[r] /\ belied'[r] = belied[r]
      BY <2>2 DEF Accepted, Unknown, Deliver, TypeOK
    <3>5. \A r \in reserved \ {at[w]} : Explained(r)'
      <4>1. reserved \subseteq Recipient
        BY DEF TypeOK
      <4> QED BY <1>0, <3>1, <3>2, <3>4, <4>1, StaysExplained
    <3>6. \A r \in reserved : r = at[w] => Explained(r)'
      BY <3>3 DEF Explained
    <3> QED BY <1>1, <2>1, <3>5, <3>6
  <2>3. CASE TakenForRefusal(w)
    <3>1. /\ \A v \in Worker : Holding(v)' = Holding(v)
          /\ UNCHANGED <<at, doubtful>>
      BY <1>5, <2>3 DEF Send, TakenForRefusal, Goto, Holding, TypeOK
    <3>2. \A r \in Recipient : \/ inbox'[r] = inbox[r] /\ belied'[r] = belied[r]
                               \/ inbox'[r] = inbox[r] + 1 /\ belied'[r] = belied[r] + 1
      BY <2>3, RefusalMail
    <3>3. \A r \in reserved : inbox[r] = 1 + belied[r] => inbox'[r] = 1 + belied'[r]
      <4>1. reserved \subseteq Recipient /\ \A r \in Recipient : inbox[r] \in Nat /\ belied[r] \in Nat
        BY DEF TypeOK
      <4> SUFFICES ASSUME NEW r \in reserved, inbox[r] = 1 + belied[r]
                   PROVE  inbox'[r] = 1 + belied'[r]
        OBVIOUS
      <4>2. r \in Recipient /\ belied[r] \in Nat
        BY <4>1
      <4> QED BY <3>2, <4>2
    <3> QED BY <1>0, <1>1, <2>1, <3>1, <3>3, StaysExplained
  <2> QED BY <1>5, <2>2, <2>3 DEF Send
<1>6. CASE Release(w)
  <2>1. /\ UNCHANGED <<at, mail, doubtful>> /\ reserved' = reserved \ {at[w]}
        /\ \A v \in Worker \ {w} : Holding(v)' = Holding(v)
    BY <1>6 DEF Release, Goto, Holding, TypeOK
  <2> QED BY <1>0, <1>1, <2>1, StaysExplained
<1> QED BY <1>2, <1>3, <1>4, <1>5, <1>6, <1>7 DEF Pass

LEMMA ExplainedNext ==
  TypeOK /\ OneHand /\ ReservationExplained /\ [Next]_vars => ReservationExplained'
<1> SUFFICES ASSUME TypeOK, OneHand, ReservationExplained, [Next]_vars
             PROVE  ReservationExplained'
  OBVIOUS
<1>1. CASE UNCHANGED vars
  BY <1>1 DEF vars, ReservationExplained
<1>2. ASSUME NEW w \in Worker, Crash(w) PROVE ReservationExplained'
  <2>1. /\ UNCHANGED <<at, mail, reserved>> /\ doubtful \subseteq doubtful'
        /\ Holding(w) => at[w] \in doubtful'
        /\ \A v \in Worker \ {w} : Holding(v)' = Holding(v)
    BY <1>2 DEF Crash, Goto, Holding, TypeOK
  <2> QED BY <2>1 DEF ReservationExplained, Holding
<1>3. CASE ReEnqueue
  BY <1>3 DEF ReEnqueue, ReservationExplained
<1> QED BY <1>1, <1>2, <1>3, ExplainedPass DEF Next

\* Nobody is left out without a trace: a reservation that outlives its worker was
\* mailed, or is among those whose outcome no worker learnt.
THEOREM ReservationsAreExplained == Spec => []ReservationExplained
<1>1. Init => OneHand /\ ReservationExplained
  BY DEF Init, OneHand, Holding, ReservationExplained
<1> QED BY <1>1, TypeCorrect, OneHandNext, ExplainedNext, PTL DEF Spec

-----------------------------------------------------------------------------
(***************************************************************************)
(* What holds of SchedulerLease for every set of replicas and ticks, every *)
(* lease time and interval, and however far clocks are off and ticks late. *)
(***************************************************************************)
USE ReplicaAssumption, TimeAssumption

\* The lease a tick was granted is not over for longer than the tick is old.
GrantAges == \A t \in Tick : grant[t] >= - age[t]
LeaseTyped == LeaseTypeOK /\ GrantAges

LEMMA OfTick == \A t \in Tick : Of(t) \in Replica
BY DEF Tick, Of

LEMMA BehindBounds ==
  ASSUME LeaseTypeOK, NEW t \in Tick
  PROVE  Behind(t) \in Int /\ - MaxSkew <= Behind(t) /\ Behind(t) <= MaxAge + MaxSkew
<1>1. age[t] \in 0..MaxAge /\ skew[Of(t)] \in -MaxSkew..MaxSkew
  BY OfTick DEF LeaseTypeOK
<1> QED BY <1>1 DEF Behind

LEMMA LeaseTypedInit == LeaseInit => LeaseTyped
<1> SUFFICES ASSUME LeaseInit PROVE LeaseTyped
  OBVIOUS
<1>1. age \in [Tick -> 0..MaxAge] /\ grant \in [Tick -> -MaxAge..TTL]
  BY DEF LeaseInit
<1>2. since \in -MaxSkew..Long /\ gap \in Int /\ left \in 0..TTL
  BY DEF LeaseInit, Long
<1> QED BY <1>1, <1>2 DEF LeaseInit, LeaseTyped, LeaseTypeOK, GrantAges

\* A tick that goes on, and one that ends.
LEMMA TickMoves ==
  ASSUME LeaseTyped, NEW t \in Tick,
         \/ End(t)
         \/ UNCHANGED <<age, grant>> /\ \E place \in {"acquire", "select", "commit"} : Goes(t, place)
  PROVE  /\ doing' \in [Tick -> {"idle", "acquire", "decide", "select", "commit"}]
         /\ age' \in [Tick -> 0..MaxAge] /\ grant' \in [Tick -> -MaxAge..TTL]
         /\ GrantAges'
<1>1. CASE End(t)
  BY <1>1 DEF End, Goes, LeaseTyped, LeaseTypeOK, GrantAges
<1>2. CASE UNCHANGED <<age, grant>> /\ \E place \in {"acquire", "select", "commit"} : Goes(t, place)
  BY <1>2 DEF Goes, LeaseTyped, LeaseTypeOK, GrantAges
<1> QED BY <1>1, <1>2

LEMMA LeaseTypedStep ==
  ASSUME LeaseTyped, NEW t \in Tick, Fire(t) \/ Step(t)
  PROVE  LeaseTyped'
<1>1. CASE Fire(t)
  BY <1>1, TickMoves DEF Fire, LeaseTyped, LeaseTypeOK
<1>2. CASE Acquire(t)
  <2>1. CASE FreeFor(t)
    BY <1>2, <2>1, OfTick DEF Acquire, Goes, LeaseTyped, LeaseTypeOK, GrantAges
  <2>2. CASE ~ FreeFor(t)
    BY <1>2, <2>2, TickMoves DEF Acquire, LeaseTyped, LeaseTypeOK
  <2> QED BY <2>1, <2>2
<1>3. CASE Decide(t)
  BY <1>3, TickMoves DEF Decide, LeaseTyped, LeaseTypeOK
<1>4. CASE Select(t)
  BY <1>4, TickMoves DEF Select, LeaseTyped, LeaseTypeOK
<1>5. CASE Enqueue(t)
  <2>1. since' \in -MaxSkew..Long /\ gap' \in Int
    BY <1>5, BehindBounds DEF Enqueue, Stamp, Long, LeaseTyped, LeaseTypeOK
  <2> QED BY <1>5, <2>1, TickMoves DEF Enqueue, LeaseTyped, LeaseTypeOK
<1> QED BY <1>1, <1>2, <1>3, <1>4, <1>5 DEF Step

LEMMA LeaseTypedGone ==
  ASSUME LeaseTyped, NEW r \in Replica, Gone(r), UNCHANGED <<holder, left>>
  PROVE  LeaseTyped'
<1>1. life' \in [Replica -> {"up", "stopping", "down"}]
  BY DEF Gone, LeaseTyped, LeaseTypeOK
<1>2. rowLock' \in Tick \cup {Nobody}
  BY DEF Gone, LeaseTyped, LeaseTypeOK
<1>3. /\ doing' \in [Tick -> {"idle", "acquire", "decide", "select", "commit"}]
      /\ age' \in [Tick -> 0..MaxAge] /\ grant' \in [Tick -> -MaxAge..TTL]
      /\ GrantAges'
  BY DEF Gone, LeaseTyped, LeaseTypeOK, GrantAges
<1> QED BY <1>1, <1>2, <1>3 DEF Gone, LeaseTyped, LeaseTypeOK

LEMMA LeaseTypedPass ==
  ASSUME LeaseTyped, SecondPasses
  PROVE  LeaseTyped'
<1>1. left' \in 0..TTL /\ since' \in -MaxSkew..Long
  BY DEF SecondPasses, Long, LeaseTyped, LeaseTypeOK
<1>2. age' \in [Tick -> 0..MaxAge]
  BY DEF SecondPasses, LeaseTyped, LeaseTypeOK
<1>3. ASSUME NEW t \in Tick PROVE grant'[t] \in -MaxAge..TTL /\ grant'[t] >= - age'[t]
  <2>1. grant[t] \in -MaxAge..TTL /\ age[t] \in 0..MaxAge /\ grant[t] >= - age[t]
    BY DEF LeaseTyped, LeaseTypeOK, GrantAges
  <2>2. CASE doing[t] \in {"idle", "acquire"}
    BY <2>1, <2>2, <1>2 DEF SecondPasses
  <2>3. CASE doing[t] \notin {"idle", "acquire"}
    <3>1. age[t] < MaxAge /\ age'[t] = age[t] + 1 /\ grant'[t] = grant[t] - 1
      BY <2>3 DEF SecondPasses
    <3> QED BY <2>1, <3>1
  <2> QED BY <2>2, <2>3
<1>4. grant' \in [Tick -> -MaxAge..TTL]
  <2>1. grant' = [t \in Tick |-> grant'[t]]
    BY DEF SecondPasses
  <2> QED BY <1>3, <2>1
<1> QED BY <1>1, <1>2, <1>3, <1>4 DEF SecondPasses, LeaseTyped, LeaseTypeOK, GrantAges

LEMMA LeaseTypedNext == LeaseTyped /\ [LeaseNext]_leaseVars => LeaseTyped'
<1> SUFFICES ASSUME LeaseTyped, [LeaseNext]_leaseVars PROVE LeaseTyped'
  OBVIOUS
<1>1. CASE UNCHANGED leaseVars
  BY <1>1 DEF leaseVars, LeaseTyped, LeaseTypeOK, GrantAges
<1>2. ASSUME NEW r \in Replica, Dies(r) \/ Exit(r) PROVE LeaseTyped'
  BY <1>2, LeaseTypedGone DEF Dies, Exit
<1>3. ASSUME NEW r \in Replica, Shutdown(r) \/ GiveBack(r) PROVE LeaseTyped'
  BY <1>3 DEF Shutdown, GiveBack, LeaseTyped, LeaseTypeOK, GrantAges
<1> QED BY <1>1, <1>2, <1>3, LeaseTypedStep, LeaseTypedPass DEF LeaseNext

\* Every reachable state of the lease, the job and the replicas is well typed.
THEOREM LeaseTypes == LeaseSpec => []LeaseTypeOK
<1>1. LeaseTyped => LeaseTypeOK
  BY DEF LeaseTyped
<1> QED BY <1>1, LeaseTypedInit, LeaseTypedNext, PTL DEF LeaseSpec
-----------------------------------------------------------------------------
\* What a tick of a replica that is up still has of its lease, the row still has.
Backed ==
  \A t \in Tick : grant[t] > 0 /\ life[Of(t)] = "up" => holder = Of(t) /\ left >= grant[t]

LEMMA BackedNext == LeaseTyped /\ Backed /\ [LeaseNext]_leaseVars => Backed'
<1> SUFFICES ASSUME LeaseTyped, Backed, [LeaseNext]_leaseVars PROVE Backed'
  OBVIOUS
<1>1. CASE UNCHANGED leaseVars
  BY <1>1 DEF leaseVars, Backed
<1>2. ASSUME NEW t \in Tick, Fire(t) \/ Decide(t) \/ Select(t) \/ Enqueue(t) PROVE Backed'
  <2>1. /\ UNCHANGED <<holder, left, life>>
        /\ \A u \in Tick : grant'[u] = grant[u] \/ grant'[u] = 0
    BY <1>2 DEF Fire, Decide, Select, Enqueue, End, LeaseTyped, LeaseTypeOK
  <2> QED BY <2>1 DEF Backed
<1>3. ASSUME NEW t \in Tick, Acquire(t) PROVE Backed'
  <2>1. CASE FreeFor(t)
    <3>1. /\ holder' = Of(t) /\ left' = TTL /\ life' = life /\ grant'[t] = TTL
          /\ \A u \in Tick \ {t} : grant'[u] = grant[u]
      BY <1>3, <2>1 DEF Acquire, LeaseTyped, LeaseTypeOK
    <3>2. \A u \in Tick : grant[u] \in Int /\ grant[u] <= TTL
      BY DEF LeaseTyped, LeaseTypeOK
    <3>3. \A u \in Tick : grant[u] > 0 /\ life[Of(u)] = "up" => Of(u) = Of(t)
      BY <2>1, <3>2 DEF FreeFor, Backed, LeaseTyped, LeaseTypeOK
    <3> QED BY <3>1, <3>2, <3>3 DEF Backed
  <2>2. CASE ~ FreeFor(t)
    <3>1. /\ UNCHANGED <<holder, left, life>>
          /\ \A u \in Tick : grant'[u] = grant[u] \/ grant'[u] = 0
      BY <1>3, <2>2 DEF Acquire, End, LeaseTyped, LeaseTypeOK
    <3> QED BY <3>1 DEF Backed
  <2> QED BY <2>1, <2>2
<1>4. ASSUME NEW r \in Replica, Dies(r) \/ Exit(r) PROVE Backed'
  <2>1. /\ UNCHANGED <<holder, left>>
        /\ \A u \in Tick : grant'[u] = IF Of(u) = r THEN 0 ELSE grant[u]
        /\ \A p \in Replica : p # r => life'[p] = life[p]
    BY <1>4 DEF Dies, Exit, Gone, LeaseTyped, LeaseTypeOK
  <2> QED BY <2>1, OfTick DEF Backed
<1>5. ASSUME NEW r \in Replica, Shutdown(r) PROVE Backed'
  <2>1. /\ UNCHANGED <<holder, left, grant>> /\ life'[r] = "stopping"
        /\ \A p \in Replica : p # r => life'[p] = life[p]
    BY <1>5 DEF Shutdown, LeaseTyped, LeaseTypeOK
  <2> QED BY <2>1, OfTick DEF Backed
<1>6. ASSUME NEW r \in Replica, GiveBack(r) PROVE Backed'
  BY <1>6 DEF GiveBack, Backed
<1>7. CASE SecondPasses
  <2> SUFFICES ASSUME NEW t \in Tick, grant'[t] > 0, life[Of(t)] = "up"
               PROVE  holder = Of(t) /\ left' >= grant'[t]
    BY <1>7 DEF SecondPasses, Backed
  <2>1. grant'[t] = grant[t] - 1 /\ grant[t] \in Int /\ left \in Nat
    BY <1>7 DEF SecondPasses, LeaseTyped, LeaseTypeOK
  <2>2. holder = Of(t) /\ left >= grant[t]
    BY <2>1 DEF Backed
  <2> QED BY <1>7, <2>1, <2>2 DEF SecondPasses
<1> QED BY <1>1, <1>2, <1>3, <1>4, <1>5, <1>6, <1>7 DEF LeaseNext, Step

\* No two replicas that are up ever believe in a lease each, whatever their clocks and
\* the time between the statements of their ticks: the database's clock decides, and
\* only a replica on its way out gives the lease away before its time.
THEOREM LeasesDoNotOverlap == LeaseSpec => []NoDualLease
<1>1. LeaseInit => Backed
  BY DEF LeaseInit, Backed
<1>2. Backed => NoDualLease
  BY DEF Backed, NoDualLease, Holds
<1> QED BY <1>1, <1>2, LeaseTypedInit, LeaseTypedNext, BackedNext, PTL DEF LeaseSpec
-----------------------------------------------------------------------------
\* A tick about to enqueue has the row's lock and found the job due; while it has the
\* lock nobody stamps the row, and the stamp and its clock age together.
LockedAndDue == \A t \in Tick : doing[t] = "commit" => rowLock = t /\ Due(t)
Spaced == LockedAndDue /\ OncePerInterval

LEMMA SpacedNext == LeaseTyped /\ Spaced /\ [LeaseNext]_leaseVars => Spaced'
<1> SUFFICES ASSUME LeaseTyped, Spaced, [LeaseNext]_leaseVars PROVE Spaced'
  OBVIOUS
<1>1. CASE UNCHANGED leaseVars
  BY <1>1 DEF leaseVars, Spaced, LockedAndDue, OncePerInterval, Due, Behind
<1>2. ASSUME NEW t \in Tick, Fire(t) \/ Acquire(t) \/ Decide(t) PROVE Spaced'
  <2>1. /\ UNCHANGED <<since, rowLock, gap, skew>> /\ doing'[t] # "commit"
        /\ \A u \in Tick \ {t} : doing'[u] = doing[u] /\ age'[u] = age[u]
    BY <1>2 DEF Fire, Acquire, Decide, End, Goes, LeaseTyped, LeaseTypeOK
  <2> QED BY <2>1 DEF Spaced, LockedAndDue, OncePerInterval, Due, Behind
<1>3. ASSUME NEW t \in Tick, Select(t) PROVE Spaced'
  <2>1. /\ UNCHANGED <<since, gap, skew>>
        /\ \A u \in Tick \ {t} : doing'[u] = doing[u] /\ age'[u] = age[u]
    BY <1>3 DEF Select, End, Goes, LeaseTyped, LeaseTypeOK
  <2>2. CASE Due(t) /\ rowLock = Nobody
    <3>1. \A u \in Tick : doing[u] # "commit"
      BY <2>2 DEF Spaced, LockedAndDue
    <3>2. rowLock' = t /\ age' = age
      BY <1>3, <2>2 DEF Select
    <3> QED BY <2>1, <2>2, <3>1, <3>2 DEF Spaced, LockedAndDue, OncePerInterval, Due, Behind
  <2>3. CASE ~ (Due(t) /\ rowLock = Nobody)
    <3>1. doing'[t] # "commit" /\ UNCHANGED rowLock
      BY <1>3, <2>3 DEF Select, End, Goes, LeaseTyped, LeaseTypeOK
    <3> QED BY <2>1, <3>1 DEF Spaced, LockedAndDue, OncePerInterval, Due, Behind
  <2> QED BY <2>2, <2>3
<1>4. ASSUME NEW t \in Tick, Enqueue(t) PROVE Spaced'
  <2>1. gap' >= Interval
    BY <1>4 DEF Enqueue, Stamp, Spaced, LockedAndDue, Due
  <2>2. \A u \in Tick : doing'[u] # "commit"
    BY <1>4 DEF Enqueue, End, Goes, Spaced, LockedAndDue, LeaseTyped, LeaseTypeOK
  <2> QED BY <2>1, <2>2 DEF Spaced, LockedAndDue, OncePerInterval
<1>5. ASSUME NEW r \in Replica, Dies(r) \/ Exit(r) PROVE Spaced'
  <2>1. Gone(r)
    BY <1>5 DEF Dies, Exit
  <2> SUFFICES ASSUME NEW t \in Tick, doing'[t] = "commit"
               PROVE  rowLock' = t /\ Due(t)'
    BY <2>1 DEF Gone, Spaced, LockedAndDue, OncePerInterval
  <2>2. Of(t) # r /\ doing[t] = "commit" /\ age'[t] = age[t]
    BY <2>1 DEF Gone
  <2>3. rowLock = t /\ Due(t)
    BY <2>2 DEF Spaced, LockedAndDue
  <2> QED BY <2>1, <2>2, <2>3 DEF Gone, Due, Behind
<1>6. ASSUME NEW r \in Replica, Shutdown(r) \/ GiveBack(r) PROVE Spaced'
  BY <1>6 DEF Shutdown, GiveBack, Spaced, LockedAndDue, OncePerInterval, Due, Behind
<1>7. CASE SecondPasses
  <2> SUFFICES ASSUME NEW t \in Tick, doing[t] = "commit" PROVE rowLock = t /\ Due(t)'
    BY <1>7 DEF SecondPasses, Spaced, LockedAndDue, OncePerInterval
  <2>1. rowLock = t /\ Due(t)
    BY DEF Spaced, LockedAndDue
  <2>2. age'[t] = age[t] + 1 /\ age[t] < MaxAge /\ UNCHANGED skew
    BY <1>7 DEF SecondPasses
  <2>3. age[t] \in Nat /\ skew[Of(t)] \in -MaxSkew..MaxSkew
    BY OfTick DEF LeaseTyped, LeaseTypeOK
  <2>4. Behind(t)' = Behind(t) + 1 /\ Behind(t)' \in Int /\ Behind(t)' <= MaxAge + MaxSkew
    BY <2>2, <2>3 DEF Behind
  <2>5. CASE since = Long
    BY <1>7, <2>1, <2>4, <2>5 DEF SecondPasses, Due, Long
  <2>6. CASE since # Long
    <3>1. since' = since + 1 /\ since \in Int
      BY <1>7, <2>6 DEF SecondPasses, LeaseTyped, LeaseTypeOK
    <3> QED BY <2>1, <2>2, <2>3, <2>4, <3>1 DEF Due, Behind
  <2> QED BY <2>5, <2>6
<1> QED BY <1>1, <1>2, <1>3, <1>4, <1>5, <1>6, <1>7 DEF LeaseNext, Step

\* The job's rows are stamped an interval apart, for every interval, skew and delay, and
\* whichever replicas' ticks write them: the row lock is held from the due check to the
\* stamp.
THEOREM JobsKeepTheirInterval == LeaseSpec => []OncePerInterval
<1>1. LeaseInit => Spaced
  BY DEF LeaseInit, Spaced, LockedAndDue, OncePerInterval
<1>2. Spaced => OncePerInterval
  BY DEF Spaced
<1> QED BY <1>1, <1>2, LeaseTypedInit, LeaseTypedNext, SpacedNext, PTL DEF LeaseSpec
===============================================================================
