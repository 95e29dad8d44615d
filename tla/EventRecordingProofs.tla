-------------------------- MODULE EventRecordingProofs --------------------------
(***************************************************************************)
(* What holds of EventRecording for every set of requests, keys and        *)
(* persons, every threshold and every pool.                                *)
(***************************************************************************)
EXTENDS EventRecording, TLAPS, FiniteSetTheorems

USE DEF tables, locals

LEMMA TypeInit == Init => TypeOK
<1> SUFFICES ASSUME Init PROVE TypeOK
  OBVIOUS
<1>1. \E b \in Body : b.key = NoKey
  <2> PICK o \in Operation, p \in Person : TRUE
    BY OperationAssumption, PersonAssumption
  <2>1. [op |-> o, key |-> NoKey, person |-> p, members |-> {}] \in Body
    BY DEF Body
  <2> QED BY <2>1
<1>2. req \in [Request -> Body]
  BY <1>1 DEF Init
<1> QED BY <1>2 DEF Init, TypeOK, Unused, Place, Answer

\* What one step of r may do to its program counter and to its answer.
LEMMA ControlType ==
  ASSUME TypeOK, NEW r \in Request, Submit(r) \/ Step(r) \/ Crash(r)
  PROVE  /\ \E place \in Place : pc' = [pc EXCEPT ![r] = place]
         /\ answer' \in [Request -> Answer]
<1>1. \E place \in Place : pc' = [pc EXCEPT ![r] = place]
  <2>1. CASE Submit(r) \/ FindKey(r) \/ CheckStatus(r) \/ CheckRoster(r) \/ ReadAlerts(r) \/ Begin(r)
    BY <2>1 DEF Submit, FindKey, CheckStatus, CheckRoster, ReadAlerts, Begin, Replay, Goto, Reply, Place
  <2>2. CASE TakeSequence(r) \/ AppendEvent(r) \/ EvaluateRules(r) \/ CommitEvent(r) \/ Crash(r)
    BY <2>2 DEF TakeSequence, AppendEvent, EvaluateRules, CommitEvent, AfterCommit, Crash, Goto, Reply, Place
  <2>3. CASE CheckAttributed(r) \/ SetRoster(r) \/ RecordKey(r) \/ Recover(r)
    BY <2>3 DEF CheckAttributed, SetRoster, AfterCommit, RecordKey, Recover, Replay, Goto, Reply, Place
  <2> QED BY <2>1, <2>2, <2>3 DEF Step
<1>2. answer' = answer \/ \E a \in Answer : answer' = [answer EXCEPT ![r] = a]
  <2>1. CASE Submit(r) \/ FindKey(r) \/ CheckStatus(r) \/ CheckRoster(r) \/ ReadAlerts(r) \/ Begin(r)
    BY <2>1 DEF Submit, FindKey, CheckStatus, CheckRoster, ReadAlerts, Begin, Replay, Reply, Answer
  <2>2. CASE TakeSequence(r) \/ AppendEvent(r) \/ EvaluateRules(r) \/ CommitEvent(r) \/ Crash(r)
    BY <2>2 DEF TakeSequence, AppendEvent, EvaluateRules, CommitEvent, AfterCommit, Crash, Reply, Answer
  <2>3. CASE CheckAttributed(r) \/ SetRoster(r) \/ RecordKey(r) \/ Recover(r)
    BY <2>3 DEF CheckAttributed, SetRoster, AfterCommit, RecordKey, Recover, Replay, Reply, Answer
  <2> QED BY <2>1, <2>2, <2>3 DEF Step
<1> QED BY <1>1, <1>2 DEF TypeOK

\* The log holds the numbers 1 to n: what makes nextEventSequence well defined.
Numbered == \E n \in Nat : Sequences(events) = 1..n

LEMMA NextOfNumbered ==
  ASSUME NEW n \in Nat, Sequences(events) = 1..n
  PROVE  NextSequence = n + 1
<1> DEFINE Candidate == {1} \cup {m + 1 : m \in Sequences(events)}
<1>1. n + 1 \in Candidate /\ \A m \in Sequences(events) : m < n + 1
  <2>1. CASE n = 0
    BY <2>1
  <2>2. CASE n # 0
    <3>1. n \in Sequences(events)
      BY <2>2
    <3> QED BY <3>1
  <2> QED BY <2>1, <2>2
<1>2. ASSUME NEW x \in Candidate, \A m \in Sequences(events) : m < x
      PROVE  x = n + 1
  <2>1. CASE n = 0
    BY <1>2, <2>1
  <2>2. CASE n # 0
    <3>1. n \in Sequences(events)
      BY <2>2
    <3>2. x > n
      BY <1>2, <3>1
    <3> QED BY <1>2, <2>2, <3>2
  <2> QED BY <2>1, <2>2
<1> QED BY <1>1, <1>2 DEF NextSequence

LEMMA TypeNext == TypeOK /\ Numbered /\ [Next]_vars => TypeOK'
<1> SUFFICES ASSUME TypeOK, Numbered, [Next]_vars PROVE TypeOK'
  OBVIOUS
<1>1. CASE UNCHANGED vars
  BY <1>1 DEF TypeOK, vars
<1>2. CASE FinalizeMatch
  BY <1>2 DEF TypeOK, FinalizeMatch
<1>3. CASE \E r \in Request : Submit(r) \/ Step(r) \/ Crash(r)
  <2> PICK r \in Request : Submit(r) \/ Step(r) \/ Crash(r)
    BY <1>3
  <2>1. pc' \in [Request -> Place] /\ answer' \in [Request -> Answer]
    BY ControlType DEF TypeOK
  <2>2. CASE Submit(r)
    BY <2>1, <2>2 DEF TypeOK, Submit
  <2>3. CASE FindKey(r) \/ CheckStatus(r) \/ CheckRoster(r) \/ Begin(r) \/ AppendEvent(r)
             \/ CheckAttributed(r) \/ Recover(r) \/ Crash(r)
    BY <2>1, <2>3 DEF TypeOK, FindKey, CheckStatus, CheckRoster, Begin, AppendEvent,
                      CheckAttributed, Recover, Crash
  <2>4. CASE ReadAlerts(r)
    <3>1. {row.alert : row \in raised} \in SUBSET Alert
      BY DEF TypeOK
    <3> QED BY <2>1, <2>4, <3>1 DEF TypeOK, ReadAlerts
  <2>5. CASE TakeSequence(r)
    <3>1. NextSequence \in Nat
      BY NextOfNumbered DEF Numbered
    <3> QED BY <2>1, <2>5, <3>1 DEF TypeOK, TakeSequence
  <2>6. CASE EvaluateRules(r)
    <3>1. alerts' = [alerts EXCEPT ![r] = Due(events \cup {OwnEvent(r)}) \ known[r]]
      BY <2>6 DEF EvaluateRules
    <3>2. Due(events \cup {OwnEvent(r)}) \in SUBSET Alert
      <4> DEFINE log == events \cup {OwnEvent(r)}
      <4>1. \A p \in Person :
              LET n == Cardinality({e \in log : e.person = p}) IN
              [person : {p}, firing : 1..(n + 1 - Threshold)] \in SUBSET Alert
        BY DEF Alert
      <4> QED BY <4>1 DEF Due
    <3> QED BY <2>1, <2>6, <3>1, <3>2 DEF TypeOK, EvaluateRules
  <2>7. CASE CommitEvent(r)
    <3>1. OwnEvent(r) \in Event
      BY DEF TypeOK, OwnEvent, Event, Body
    <3>2. {[alert |-> a, cause |-> claim[r]] : a \in alerts[r]} \in SUBSET [alert : Alert, cause : Nat]
      BY DEF TypeOK
    <3> QED BY <2>1, <2>7, <3>1, <3>2 DEF TypeOK, CommitEvent
  <2>8. CASE SetRoster(r)
    <3>1. req[r].members \in SUBSET Person
      BY DEF TypeOK, Body
    <3> QED BY <2>1, <2>8, <3>1 DEF TypeOK, SetRoster
  <2>9. CASE RecordKey(r)
    <3>1. req[r] \in Body
      BY DEF TypeOK
    <3> QED BY <2>1, <2>9, <3>1 DEF TypeOK, RecordKey
  <2> QED BY <2>2, <2>3, <2>4, <2>5, <2>6, <2>7, <2>8, <2>9 DEF Step
<1> QED BY <1>1, <1>2, <1>3 DEF Next
-----------------------------------------------------------------------------
(***************************************************************************)
(* The invariant behind the log: a number taken is at most one past the    *)
(* committed ones, and an inserted row has a number nobody else has.       *)
(***************************************************************************)
Claims ==
  \A r \in Request :
    /\ pc[r] \in {"insert", "log", "commit"} =>
         claim[r] \in Nat \ {0} /\ \A m \in 1..(claim[r] - 1) : m \in Sequences(events)
    /\ Inserted(r) => claim[r] \notin Sequences(events)
    /\ \A q \in Request \ {r} : Inserted(r) /\ Inserted(q) => claim[r] # claim[q]

OneEach == \A e, f \in events : e.seq = f.seq => e = f

Ordered == TypeOK /\ Numbered /\ Claims /\ OneEach

LEMMA ControlTyped == ASSUME TypeOK PROVE pc \in [Request -> Place] /\ claim \in [Request -> Nat]
BY DEF TypeOK

\* The number of an inserted row is the next one, so only one row is inserted
\* and not yet committed.
LEMMA InsertedIsNext ==
  ASSUME Ordered, NEW r \in Request, Inserted(r)
  PROVE  /\ claim[r] \in Nat \ {0}
         /\ Sequences(events) = 1..(claim[r] - 1)
         /\ \A q \in Request \ {r} : ~ Inserted(q)
<1>1. \A q \in Request : Inserted(q) =>
        claim[q] \in Nat \ {0} /\ Sequences(events) = 1..(claim[q] - 1)
  <2> TAKE q \in Request
  <2> HAVE Inserted(q)
  <2>1. /\ claim[q] \in Nat \ {0}
        /\ \A m \in 1..(claim[q] - 1) : m \in Sequences(events)
        /\ claim[q] \notin Sequences(events)
    BY DEF Ordered, Claims, Inserted
  <2>2. PICK n \in Nat : Sequences(events) = 1..n
    BY DEF Ordered, Numbered
  <2>3. n < claim[q]
    BY <2>1, <2>2
  <2>4. claim[q] - 1 <= n
    <3>1. CASE claim[q] = 1
      BY <2>2, <3>1
    <3>2. CASE claim[q] # 1
      <4>1. claim[q] - 1 \in 1..(claim[q] - 1)
        BY <2>1, <3>2
      <4> QED BY <2>1, <2>2, <4>1
    <3> QED BY <3>1, <3>2
  <2> QED BY <2>1, <2>2, <2>3, <2>4
<1>2. ASSUME NEW q \in Request \ {r}, Inserted(q) PROVE FALSE
  <2>1. claim[q] # claim[r]
    BY <1>2 DEF Ordered, Claims
  <2>2. claim[q] \in Sequences(events) \/ claim[r] \in Sequences(events)
    BY <1>1, <1>2, <2>1
  <2> QED BY <1>2, <2>2 DEF Ordered, Claims
<1> QED BY <1>1, <1>2

LEMMA OrderedInit == Init => Ordered
<1> SUFFICES ASSUME Init PROVE Numbered /\ Claims /\ OneEach
  BY TypeInit DEF Ordered
<1>1. Sequences(events) = 1..0
  BY DEF Init, Sequences
<1> QED BY <1>1 DEF Init, Numbered, Claims, OneEach, Inserted

\* A step of r that commits no event, and inserts none.
LEMMA ClaimsKept ==
  ASSUME Ordered, NEW r \in Request, NEW place \in Place,
         pc' = [pc EXCEPT ![r] = place], place \notin {"insert", "log", "commit"},
         UNCHANGED <<events, claim>>
  PROVE  Numbered' /\ Claims' /\ OneEach'
<1> USE ControlTyped DEF Ordered
<1>1. Claims'
  BY DEF Claims, Inserted, Sequences
<1> QED BY <1>1 DEF Numbered, OneEach, Sequences

LEMMA TakeSequenceOrdered ==
  ASSUME Ordered, NEW r \in Request, TakeSequence(r) PROVE Numbered' /\ Claims' /\ OneEach'
<1> USE ControlTyped DEF Ordered
<1>1. PICK n \in Nat : Sequences(events) = 1..n
  BY DEF Numbered
<1>2. claim' = [claim EXCEPT ![r] = n + 1] /\ pc' = [pc EXCEPT ![r] = "insert"] /\ events' = events
  BY <1>1, NextOfNumbered DEF TakeSequence, Goto
<1>3. Sequences(events)' = Sequences(events)
  BY <1>2 DEF Sequences
<1>4. Claims'
  BY <1>1, <1>2, <1>3 DEF Claims, Inserted
<1> QED BY <1>2, <1>4 DEF Numbered, OneEach, Sequences

LEMMA AppendEventOrdered ==
  ASSUME Ordered, NEW r \in Request, AppendEvent(r) PROVE Numbered' /\ Claims' /\ OneEach'
<1> USE ControlTyped DEF Ordered
<1>1. CASE claim[r] \in Sequences(events)
  BY <1>1, ClaimsKept DEF AppendEvent, Goto, Place
<1>2. CASE claim[r] \notin Sequences(events)
  <2>1. /\ pc[r] = "insert" /\ pc' = [pc EXCEPT ![r] = "log"]
        /\ UNCHANGED <<events, claim>>
        /\ \A q \in Request \ {r} : Inserted(q) => claim[q] # claim[r]
    BY <1>2 DEF AppendEvent, Goto
  <2>2. Claims'
    BY <1>2, <2>1 DEF Claims, Inserted, Sequences
  <2> QED BY <2>1, <2>2 DEF Numbered, OneEach, Sequences
<1> QED BY <1>1, <1>2

LEMMA EvaluateRulesOrdered ==
  ASSUME Ordered, NEW r \in Request, EvaluateRules(r) PROVE Numbered' /\ Claims' /\ OneEach'
<1> USE ControlTyped DEF Ordered
<1>1. /\ pc[r] = "log" /\ pc' = [pc EXCEPT ![r] = "commit"]
      /\ UNCHANGED <<events, claim>>
  BY DEF EvaluateRules, Goto
<1>2. Claims'
  BY <1>1 DEF Claims, Inserted, Sequences
<1> QED BY <1>1, <1>2 DEF Numbered, OneEach, Sequences

LEMMA CommitEventOrdered ==
  ASSUME Ordered, NEW r \in Request, CommitEvent(r) PROVE Numbered' /\ Claims' /\ OneEach'
<1> USE ControlTyped DEF Ordered
<1>1. /\ pc[r] = "commit" /\ Inserted(r)
      /\ pc' = [pc EXCEPT ![r] = "done"] \/ pc' = [pc EXCEPT ![r] = "record"]
      /\ events' = events \cup {OwnEvent(r)}
      /\ claim' = claim
  BY DEF CommitEvent, AfterCommit, Reply, Goto, Inserted
<1>2. /\ claim[r] \in Nat \ {0}
      /\ Sequences(events) = 1..(claim[r] - 1)
      /\ \A q \in Request \ {r} : ~ Inserted(q)
  BY <1>1, InsertedIsNext
<1>3. Sequences(events)' = 1..claim[r]
  <2>1. Sequences(events)' = Sequences(events) \cup {claim[r]}
    <3>1. OwnEvent(r).seq = claim[r]
      BY DEF OwnEvent
    <3>2. \A x : x \in Sequences(events)' <=> x \in Sequences(events) \/ x = claim[r]
      BY <1>1, <3>1 DEF Sequences
    <3> QED BY <3>2
  <2> QED BY <1>2, <2>1
<1>4. Numbered'
  BY <1>2, <1>3 DEF Numbered
<1>5. OneEach'
  <2>1. \A e \in events : e.seq # claim[r]
    BY <1>2 DEF Sequences
  <2> QED BY <1>1, <2>1 DEF OneEach, OwnEvent
<1>6. Claims'
  <2>1. \A m \in Sequences(events) : m \in Sequences(events)'
    BY <1>2, <1>3
  <2> QED BY <1>1, <1>2, <2>1 DEF Claims, Inserted
<1> QED BY <1>4, <1>5, <1>6

LEMMA OrderedNext == Ordered /\ [Next]_vars => Ordered'
<1> SUFFICES ASSUME Ordered, [Next]_vars PROVE Ordered'
  OBVIOUS
<1>1. TypeOK'
  BY TypeNext DEF Ordered
<1>2. Numbered' /\ Claims' /\ OneEach'
  <2>1. CASE UNCHANGED <<events, claim, pc>>
    BY <2>1 DEF Ordered, Numbered, Claims, OneEach, Inserted, Sequences
  <2>2. CASE \E r \in Request : Submit(r) \/ Step(r) \/ Crash(r)
    <3> PICK r \in Request : Submit(r) \/ Step(r) \/ Crash(r)
      BY <2>2
    <3>1. CASE Submit(r) \/ Crash(r) \/ FindKey(r) \/ CheckStatus(r) \/ CheckRoster(r) \/ ReadAlerts(r)
      BY <3>1, ClaimsKept DEF Submit, Crash, FindKey, CheckStatus, CheckRoster, ReadAlerts,
                              Replay, Reply, Goto, Place
    <3>2. CASE Begin(r) \/ CheckAttributed(r) \/ SetRoster(r) \/ RecordKey(r) \/ Recover(r)
      BY <3>2, ClaimsKept DEF Begin, CheckAttributed, SetRoster, RecordKey, Recover, AfterCommit,
                              Replay, Reply, Goto, Place
    <3> QED BY <3>1, <3>2, TakeSequenceOrdered, AppendEventOrdered, EvaluateRulesOrdered,
               CommitEventOrdered DEF Step
  <2> QED BY <2>1, <2>2 DEF Next, FinalizeMatch, vars
<1> QED BY <1>1, <1>2 DEF Ordered

LEMMA OrderedIsGapFree == Ordered => LogGapFree
<1> SUFFICES ASSUME Ordered PROVE LogGapFree
  OBVIOUS
<1>1. PICK n \in Nat : Sequences(events) = 1..n
  BY DEF Ordered, Numbered
<1>2. ASSUME NEW e \in events, NEW k \in 1..e.seq PROVE \E f \in events : f.seq = k
  <2>1. e.seq \in 1..n
    BY <1>1, <1>2 DEF Sequences
  <2>2. k \in Sequences(events)
    BY <1>1, <1>2, <2>1
  <2> QED BY <2>2 DEF Sequences
<1> QED BY <1>2 DEF Ordered, OneEach, LogGapFree

\* The match's log is numbered 1, 2, ... n, each number once, whatever consoles
\* record at the same time and whichever of their servers die.
THEOREM LogIsGapFree == Spec => [](TypeOK /\ LogGapFree)
<1>1. Ordered => TypeOK
  BY DEF Ordered
<1> QED BY <1>1, OrderedInit, OrderedNext, OrderedIsGapFree, PTL DEF Spec

\* The rows of the tables and what each handler knows, claims and answers are of
\* their types, for any number of requests, persons and events.
THEOREM TypeCorrect == Spec => []TypeOK
BY LogIsGapFree, PTL
-----------------------------------------------------------------------------
(***************************************************************************)
(* The invariant behind the alerts.  The log a transaction evaluates is    *)
(* the log it commits to: nobody else can commit between the two.          *)
(***************************************************************************)
AlertsRaised == {row.alert : row \in raised}

AlertsDue ==
  \A r \in Request :
    /\ pc[r] \in {"begin", "sequence", "insert", "log", "commit"} => known[r] \subseteq AlertsRaised
    /\ pc[r] = "commit" => alerts[r] = Due(events \cup {OwnEvent(r)}) \ known[r]

CauseRecorded == \A row \in raised : row.cause \in Sequences(events)

NothingMissed == AlertsDue /\ CauseRecorded /\ Due(events) \subseteq AlertsRaised

LEMMA AlertsInit == Init => NothingMissed
<1> SUFFICES ASSUME Init PROVE Due({}) = {}
  BY DEF Init, NothingMissed, AlertsDue, CauseRecorded
<1>1. \A p \in Person : Cardinality({e \in {} : e.person = p}) = 0
  BY FS_EmptySet
<1>2. 1..(0 + 1 - Threshold) = {}
  BY ThresholdAssumption
<1> QED BY <1>1, <1>2 DEF Due

\* The other requests as a step of r leaves them.
LEMMA OthersStay ==
  ASSUME TypeOK, NEW r \in Request, Submit(r) \/ Step(r) \/ Crash(r),
         NEW q \in Request, q # r
  PROVE  /\ pc'[q] = pc[q] /\ claim'[q] = claim[q]
         /\ known'[q] = known[q] /\ alerts'[q] = alerts[q] /\ req'[q] = req[q]
<1>1. pc'[q] = pc[q]
  BY ControlType DEF TypeOK
<1>2. CASE Submit(r) \/ Crash(r) \/ FindKey(r) \/ CheckStatus(r) \/ CheckRoster(r) \/ Begin(r)
           \/ AppendEvent(r) \/ CheckAttributed(r) \/ SetRoster(r) \/ RecordKey(r) \/ Recover(r)
           \/ CommitEvent(r)
  BY <1>1, <1>2 DEF TypeOK, Submit, Crash, FindKey, CheckStatus, CheckRoster, Begin, AppendEvent,
                    CheckAttributed, SetRoster, RecordKey, Recover, CommitEvent
<1>3. CASE ReadAlerts(r) \/ TakeSequence(r) \/ EvaluateRules(r)
  BY <1>1, <1>3 DEF TypeOK, ReadAlerts, TakeSequence, EvaluateRules
<1> QED BY <1>2, <1>3 DEF Step

LEMMA AlertsStep ==
  ASSUME Ordered, NothingMissed, NEW r \in Request, Submit(r) \/ Step(r) \/ Crash(r),
         ~ CommitEvent(r)
  PROVE  NothingMissed'
<1>1. events' = events /\ raised' = raised
  BY DEF Step, Submit, Crash, FindKey, CheckStatus, CheckRoster, ReadAlerts, Begin, TakeSequence,
         AppendEvent, EvaluateRules, CheckAttributed, SetRoster, RecordKey, Recover
<1>2. AlertsRaised' = AlertsRaised /\ Sequences(events)' = Sequences(events) /\ Due(events)' = Due(events)
  BY <1>1 DEF AlertsRaised, Sequences, Due
<1>3. CauseRecorded' /\ (Due(events) \subseteq AlertsRaised)'
  BY <1>1, <1>2 DEF NothingMissed, CauseRecorded
<1>4. ASSUME NEW q \in Request
      PROVE  /\ pc'[q] \in {"begin", "sequence", "insert", "log", "commit"} => known'[q] \subseteq AlertsRaised
             /\ pc'[q] = "commit" => alerts'[q] = Due(events \cup {OwnEvent(q)'}) \ known'[q]
  <2>1. CASE q # r
    <3>1. OwnEvent(q)' = OwnEvent(q)
      BY <2>1, OthersStay DEF Ordered, OwnEvent
    <3> QED BY <2>1, <3>1, OthersStay DEF Ordered, NothingMissed, AlertsDue
  <2>2. CASE q = r
    <3>1. CASE pc'[r] = "begin"
      <4>1. ReadAlerts(r)
        BY <3>1 DEF Ordered, TypeOK, Step, Submit, Crash, FindKey, CheckStatus, CheckRoster,
                    Begin, TakeSequence, AppendEvent, EvaluateRules, CheckAttributed, SetRoster,
                    RecordKey, Recover, Replay, AfterCommit, Goto, Reply
      <4>2. known'[r] = AlertsRaised
        BY <4>1 DEF Ordered, TypeOK, ReadAlerts, AlertsRaised
      <4> QED BY <2>2, <3>1, <4>2
    <3>2. CASE pc'[r] \in {"sequence", "insert", "log"}
      <4>1. Begin(r) \/ TakeSequence(r) \/ AppendEvent(r)
        BY <3>2 DEF Ordered, TypeOK, Step, Submit, Crash, FindKey, CheckStatus, CheckRoster,
                    ReadAlerts, EvaluateRules, CheckAttributed, SetRoster,
                    RecordKey, Recover, Replay, AfterCommit, Goto, Reply
      <4>2. known'[r] = known[r] /\ pc[r] \in {"begin", "sequence", "insert"}
        BY <4>1 DEF Begin, TakeSequence, AppendEvent
      <4> QED BY <2>2, <3>2, <4>2 DEF NothingMissed, AlertsDue
    <3>3. CASE pc'[r] = "commit"
      <4>1. EvaluateRules(r)
        BY <3>3 DEF Ordered, TypeOK, Step, Submit, Crash, FindKey, CheckStatus, CheckRoster,
                    ReadAlerts, Begin, TakeSequence, AppendEvent, CheckAttributed, SetRoster,
                    RecordKey, Recover, Replay, AfterCommit, Goto, Reply
      <4>2. OwnEvent(r)' = OwnEvent(r) /\ known' = known /\ pc[r] = "log"
        BY <4>1 DEF EvaluateRules, OwnEvent
      <4>3. alerts'[r] = Due(events \cup {OwnEvent(r)}) \ known[r]
        BY <4>1 DEF Ordered, TypeOK, EvaluateRules
      <4> QED BY <2>2, <4>2, <4>3 DEF NothingMissed, AlertsDue
    <3> QED BY <2>2, <3>1, <3>2, <3>3
  <2> QED BY <2>1, <2>2
<1> QED BY <1>1, <1>2, <1>3, <1>4 DEF NothingMissed, AlertsDue

LEMMA AlertsCommit ==
  ASSUME Ordered, NothingMissed, NEW r \in Request, CommitEvent(r) PROVE NothingMissed'
<1>1. /\ pc[r] = "commit"
      /\ events' = events \cup {OwnEvent(r)}
      /\ raised' = raised \cup {[alert |-> a, cause |-> claim[r]] : a \in alerts[r]}
      /\ known' = known
  BY DEF CommitEvent
<1>2. \A q \in Request \ {r} : ~ Inserted(q)
  BY <1>1, InsertedIsNext DEF Inserted
<1>3. alerts[r] = Due(events') \ known[r] /\ known[r] \subseteq AlertsRaised
  BY <1>1 DEF NothingMissed, AlertsDue
<1>4. AlertsRaised' = AlertsRaised \cup alerts[r]
  <2> DEFINE new == {[alert |-> a, cause |-> claim[r]] : a \in alerts[r]}
  <2>1. {row.alert : row \in new} = alerts[r]
    <3>1. ASSUME NEW a \in alerts[r] PROVE a \in {row.alert : row \in new}
      <4>1. [alert |-> a, cause |-> claim[r]] \in new /\ [alert |-> a, cause |-> claim[r]].alert = a
        OBVIOUS
      <4> HIDE DEF new
      <4> QED BY <4>1
    <3>2. ASSUME NEW row \in new PROVE row.alert \in alerts[r]
      OBVIOUS
    <3> HIDE DEF new
    <3> QED BY <3>1, <3>2
  <2>2. AlertsRaised' = {row.alert : row \in raised} \cup {row.alert : row \in new}
    <3>1. raised' = raised \cup new
      BY <1>1
    <3> HIDE DEF new
    <3> QED BY <3>1 DEF AlertsRaised
  <2> QED BY <2>1, <2>2 DEF AlertsRaised
<1>5. Due(events)' = Due(events')
  BY DEF Due
<1>6. (Due(events) \subseteq AlertsRaised)'
  BY <1>3, <1>4, <1>5
<1>7. CauseRecorded'
  <2>1. \A e \in events : e \in events'
    BY <1>1
  <2>2. OwnEvent(r) \in events' /\ OwnEvent(r).seq = claim[r]
    BY <1>1 DEF OwnEvent
  <2>3. \A row \in raised : row.cause \in Sequences(events)'
    BY <2>1 DEF NothingMissed, CauseRecorded, Sequences
  <2>4. claim[r] \in Sequences(events)'
    BY <2>2 DEF Sequences
  <2> QED BY <1>1, <2>3, <2>4 DEF CauseRecorded
<1>8. AlertsDue'
  <2>1. pc'[r] \in {"done", "record"}
    BY DEF CommitEvent, AfterCommit, Reply, Goto, Ordered, TypeOK
  <2>2. \A q \in Request \ {r} : pc'[q] = pc[q] /\ pc[q] # "commit"
    BY <1>2, OthersStay DEF Ordered, Inserted, Step
  <2> QED BY <1>1, <1>4, <2>1, <2>2 DEF NothingMissed, AlertsDue
<1> QED BY <1>6, <1>7, <1>8 DEF NothingMissed

\* Whatever alert the committed log calls for has been raised, although each
\* transaction reads the alerts already raised before it begins.
THEOREM NoAlertIsMissed == Spec => []NoAlertMissed
<1>1. Ordered /\ NothingMissed /\ [Next]_vars => NothingMissed'
  <2> SUFFICES ASSUME Ordered, NothingMissed, [Next]_vars PROVE NothingMissed'
    OBVIOUS
  <2>1. CASE UNCHANGED <<events, raised, pc, req, locals>>
    <3>1. (\A q \in Request : OwnEvent(q)' = OwnEvent(q)) /\ AlertsRaised' = AlertsRaised
          /\ Due(events)' = Due(events) /\ Sequences(events)' = Sequences(events)
      BY <2>1 DEF OwnEvent, AlertsRaised, Due, Sequences
    <3> QED BY <2>1, <3>1 DEF NothingMissed, AlertsDue, CauseRecorded
  <2>2. CASE \E r \in Request : Submit(r) \/ Step(r) \/ Crash(r)
    BY <2>2, AlertsStep, AlertsCommit DEF Step
  <2> QED BY <2>1, <2>2 DEF Next, FinalizeMatch, vars
<1>2. NothingMissed => NoAlertMissed
  BY DEF NothingMissed, AlertsRaised, CauseRecorded, NoAlertMissed
<1> QED BY <1>1, <1>2, AlertsInit, OrderedInit, OrderedNext, PTL DEF Spec
-----------------------------------------------------------------------------
Recorded(log, k, person) == \E e \in log : e.key = k /\ e.person = person

\* What a handler about to record its key has done, and one that replayed found.
KeysHonest ==
  /\ StoredKeyIsDone
  /\ \A r \in Request :
       /\ pc[r] \in {"attributed", "select"} => req[r].op = "roster"
       /\ pc[r] = "record" => req[r].key # NoKey
       /\ pc[r] = "record" /\ req[r].op = "record" => Recorded(events, req[r].key, req[r].person)
       /\ answer[r] = "replayed" => pc[r] = "done" /\ req[r].key \in Key

\* The log only grows, and a stored key keeps the request it was stored for;
\* what is stored is the request of a handler that has done its work.
LEMMA KeyTablesStep ==
  ASSUME Ordered, NEW r \in Request, Submit(r) \/ Step(r) \/ Crash(r)
  PROVE  /\ events \subseteq events'
         /\ \/ idem' = idem
            \/ /\ pc[r] = "record" /\ req[r].key \in Key /\ idem[req[r].key] = Unused
               /\ idem' = [idem EXCEPT ![req[r].key] = req[r]]
<1>1. CASE RecordKey(r)
  <2>1. req[r].key \in Key \cup {NoKey}
    BY DEF Ordered, TypeOK, Body
  <2>2. CASE req[r].key # NoKey /\ idem[req[r].key] # Unused
    BY <1>1, <2>2 DEF RecordKey, KeyTaken
  <2>3. CASE req[r].key # NoKey /\ idem[req[r].key] = Unused
    BY <1>1, <2>1, <2>3 DEF RecordKey, KeyTaken
  <2>4. CASE req[r].key = NoKey
    <3>1. idem' = [idem EXCEPT ![req[r].key] = req[r]]
      BY <1>1, <2>4 DEF RecordKey, KeyTaken
    <3>2. idem' = idem
      BY <2>4, <3>1, KeyAssumption DEF Ordered, TypeOK
    <3> QED BY <1>1, <3>2 DEF RecordKey
  <2> QED BY <2>2, <2>3, <2>4
<1>2. CASE CommitEvent(r)
  BY <1>2 DEF CommitEvent
<1>3. CASE ~ RecordKey(r) /\ ~ CommitEvent(r)
  BY <1>3 DEF Step, Submit, Crash, FindKey, CheckStatus, CheckRoster, ReadAlerts, Begin, TakeSequence,
         AppendEvent, EvaluateRules, CheckAttributed, SetRoster, Recover
<1> QED BY <1>1, <1>2, <1>3

LEMMA BodyIsUsed == ASSUME NEW b \in Body PROVE b # Unused
BY OperationAssumption DEF Body, Unused

LEMMA KeysStep ==
  ASSUME Ordered, KeysHonest, NEW r \in Request, Submit(r) \/ Step(r) \/ Crash(r)
  PROVE  KeysHonest'
<1>1. /\ req \in [Request -> Body] /\ idem \in [Key -> Body \cup {Unused}]
      /\ pc \in [Request -> Place] /\ answer \in [Request -> Answer]
  BY DEF Ordered, TypeOK
<1>2. \A k \in Key, p \in Person : Recorded(events, k, p) => Recorded(events', k, p)
  BY KeyTablesStep DEF Recorded
<1>3. \A k \in Key : idem[k] # Unused => idem'[k] = idem[k]
  BY <1>1, KeyTablesStep
<1>4. ASSUME NEW k \in Key, idem'[k] # Unused, idem'[k].op = "record"
      PROVE  Recorded(events', k, idem'[k].person)
  <2>1. CASE idem'[k] = idem[k]
    <3>1. idem[k] \in Body /\ Recorded(events, k, idem[k].person)
      BY <1>1, <1>4, <2>1 DEF KeysHonest, StoredKeyIsDone, Recorded
    <3> QED BY <1>2, <2>1, <3>1 DEF Body
  <2>2. CASE idem'[k] # idem[k]
    <3>1. pc[r] = "record" /\ k = req[r].key /\ idem'[k] = req[r]
      BY <1>1, <2>2, KeyTablesStep
    <3>2. Recorded(events, k, req[r].person)
      BY <1>4, <3>1 DEF KeysHonest
    <3> QED BY <1>1, <1>2, <3>1, <3>2 DEF Body
  <2> QED BY <2>1, <2>2
<1>5. ASSUME NEW q \in Request, q # r
      PROVE  /\ answer'[q] = answer[q] /\ pc'[q] = pc[q] /\ req'[q] = req[q]
  <2>1. answer'[q] = answer[q]
    BY <1>1, <1>5 DEF Step, Submit, Crash, FindKey, CheckStatus, CheckRoster, ReadAlerts, Begin,
         TakeSequence, AppendEvent, EvaluateRules, CheckAttributed, SetRoster, RecordKey, Recover,
         CommitEvent, AfterCommit, Replay, Reply
  <2> QED BY <1>5, <2>1, OthersStay DEF Ordered
<1>6. ASSUME answer'[r] = "replayed"
      PROVE  /\ pc'[r] = "done" /\ req'[r].key \in Key
             /\ idem'[req'[r].key] = req'[r]
  <2>1. answer[r] # "replayed"
    <3>1. pc[r] # "done"
      BY DEF Step, Submit, Crash, FindKey, CheckStatus, CheckRoster, ReadAlerts, Begin,
         TakeSequence, AppendEvent, EvaluateRules, CheckAttributed, SetRoster, RecordKey, Recover,
         CommitEvent
    <3> QED BY <3>1 DEF KeysHonest
  <2>2. (FindKey(r) \/ Recover(r)) /\ KeyTaken(r) /\ Replay(r) /\ idem' = idem /\ req' = req
    BY <1>1, <1>6, <2>1 DEF Step, Submit, Crash, FindKey, CheckStatus, CheckRoster, ReadAlerts, Begin,
         TakeSequence, AppendEvent, EvaluateRules, CheckAttributed, SetRoster, RecordKey, Recover,
         CommitEvent, AfterCommit, Reply
  <2>3. idem[req[r].key] = req[r]
    BY <1>1, <1>6, <2>2 DEF Replay, Reply
  <2>4. req[r].key \in Key /\ pc'[r] = "done"
    BY <1>1, <2>2 DEF KeyTaken, Body, Replay, Reply, Goto
  <2> QED BY <2>2, <2>3, <2>4
<1>7. ASSUME pc'[r] = "record"
      PROVE  /\ req'[r].key # NoKey
             /\ req'[r].op = "record" => Recorded(events', req'[r].key, req'[r].person)
  <2>1. pc[r] # "record"
    BY <1>1, <1>7 DEF Step, Submit, Crash, FindKey, CheckStatus, CheckRoster, ReadAlerts, Begin,
         TakeSequence, AppendEvent, EvaluateRules, CheckAttributed, SetRoster, RecordKey, Recover,
         CommitEvent, AfterCommit, Replay, Goto, Reply
  <2>2. (CommitEvent(r) \/ SetRoster(r)) /\ req[r].key # NoKey /\ req' = req
    BY <1>1, <1>7, <2>1 DEF Step, Submit, Crash, FindKey, CheckStatus, CheckRoster, ReadAlerts, Begin,
         TakeSequence, AppendEvent, EvaluateRules, CheckAttributed, SetRoster, RecordKey, Recover,
         CommitEvent, AfterCommit, Replay, Goto, Reply
  <2>3. CASE CommitEvent(r)
    <3>1. OwnEvent(r) \in events' /\ OwnEvent(r).key = req[r].key /\ OwnEvent(r).person = req[r].person
      BY <2>3 DEF CommitEvent, OwnEvent
    <3> QED BY <2>2, <3>1 DEF Recorded
  <2>4. CASE SetRoster(r)
    BY <2>2, <2>4 DEF SetRoster, KeysHonest
  <2> QED BY <2>2, <2>3, <2>4
<1>8. StoredKeyIsDone'
  <2>1. ASSUME NEW q \in Request, answer'[q] = "replayed" PROVE idem'[req'[q].key] = req'[q]
    <3>1. CASE q = r
      BY <1>6, <2>1, <3>1
    <3>2. CASE q # r
      <4>1. idem[req[q].key] = req[q] /\ req[q].key \in Key
        BY <1>5, <2>1, <3>2 DEF KeysHonest, StoredKeyIsDone
      <4> QED BY <1>1, <1>3, <1>5, <3>2, <4>1, BodyIsUsed
    <3> QED BY <3>1, <3>2
  <2> QED BY <1>4, <2>1 DEF StoredKeyIsDone, Recorded
<1>9. ASSUME NEW q \in Request
      PROVE  /\ pc'[q] \in {"attributed", "select"} => req'[q].op = "roster"
             /\ pc'[q] = "record" => req'[q].key # NoKey
             /\ pc'[q] = "record" /\ req'[q].op = "record" => Recorded(events', req'[q].key, req'[q].person)
             /\ answer'[q] = "replayed" => pc'[q] = "done" /\ req'[q].key \in Key
  <2>1. CASE q = r
    <3>1. ASSUME pc'[r] \in {"attributed", "select"} PROVE req'[r].op = "roster"
      <4>1. (CheckStatus(r) \/ CheckAttributed(r)) /\ req' = req
        BY <1>1, <3>1 DEF Step, Submit, Crash, FindKey, CheckStatus, CheckRoster, ReadAlerts, Begin,
             TakeSequence, AppendEvent, EvaluateRules, CheckAttributed, SetRoster, RecordKey,
             Recover, CommitEvent, AfterCommit, Replay, Goto, Reply
      <4>2. req[r].op \in {"record", "roster"}
        BY <1>1, OperationAssumption DEF Body
      <4> QED BY <1>1, <3>1, <4>1, <4>2 DEF CheckStatus, CheckAttributed, KeysHonest, Goto
    <3> QED BY <1>6, <1>7, <2>1, <3>1
  <2>2. CASE q # r
    <3>1. req[q].key \in Key \cup {NoKey} /\ req[q].person \in Person
      BY <1>1 DEF Body
    <3> QED BY <1>2, <1>5, <2>2, <3>1 DEF KeysHonest
  <2> QED BY <2>1, <2>2
<1> QED BY <1>8, <1>9 DEF KeysHonest

\* A key is stored, and an answer replayed, only for work that was committed.
THEOREM StoredKeysAreDone == Spec => []StoredKeyIsDone
<1>1. Init => KeysHonest
  BY DEF Init, KeysHonest, StoredKeyIsDone
<1>2. Ordered /\ KeysHonest /\ [Next]_vars => KeysHonest'
  <2> SUFFICES ASSUME Ordered, KeysHonest, [Next]_vars PROVE KeysHonest'
    OBVIOUS
  <2>1. CASE UNCHANGED <<events, idem, pc, req, answer>>
    BY <2>1 DEF KeysHonest, StoredKeyIsDone, Recorded
  <2>2. CASE \E r \in Request : Submit(r) \/ Step(r) \/ Crash(r)
    BY <2>2, KeysStep
  <2> QED BY <2>1, <2>2 DEF Next, FinalizeMatch, vars
<1>3. KeysHonest => StoredKeyIsDone
  BY DEF KeysHonest
<1> QED BY <1>1, <1>2, <1>3, OrderedInit, OrderedNext, PTL DEF Spec
==================================================================================
