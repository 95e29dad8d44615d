--------------------------- MODULE MatchCommandsProofs ---------------------------
(***************************************************************************)
(* What holds of MatchCommands for every set of requests, segments, keys   *)
(* and results.                                                            *)
(***************************************************************************)
EXTENDS MatchCommands, TLAPS, WellFoundedInduction, SequenceTheorems

\* A nonempty set of naturals has a least member: what Lowest relies on.
LEMMA LeastNat ==
  ASSUME NEW S \in SUBSET Nat, S # {}
  PROVE  \E x \in S : \A y \in S : x <= y
<1> DEFINE R == {p \in Nat \X Nat : p[1] < p[2]}
<1>1. IsWellFoundedOn(R, Nat)
  BY NatLessThanWellFounded, Zenon DEF OpToRel
<1> HIDE DEF R
<1>2. PICK x \in S : \A y \in S : ~ (<<y, x>> \in R)
  BY <1>1, WFMin, Zenon
<1>3. ASSUME NEW y \in S, y < x PROVE FALSE
  <2>1. <<y, x>> \in Nat \X Nat
    OBVIOUS
  <2> QED BY <2>1, <1>2, <1>3 DEF R
<1> QED BY <1>3

\* Lowest picks a member of a nonempty set of segments, NoSegment of the empty one.
LEMMA LowestSegment ==
  ASSUME NEW S \in SUBSET Segment
  PROVE  Lowest(S) \in S \cup {NoSegment}
<1>1. CASE S = {}
  BY <1>1 DEF Lowest
<1>2. CASE S # {}
  <2>1. S \in SUBSET Nat
    BY SegmentsAssumption DEF Segment
  <2>2. \E x \in S : \A y \in S : x <= y
    BY <1>2, <2>1, LeastNat
  <2> QED BY <1>2, <2>2 DEF Lowest
<1> QED BY <1>1, <1>2

\* A command acts on a segment of the match, or on none.
LEMMA TargetSegment ==
  ASSUME NEW body \in Body, NEW segments \in [Segment -> SegmentState]
  PROVE  Target(body, segments) \in Segment \cup {NoSegment}
<1>1. Active(segments) \in SUBSET Segment /\ NotEnded(segments) \in SUBSET Segment
  BY DEF Active, NotEnded
<1>2. /\ Lowest(Active(segments)) \in Segment \cup {NoSegment}
      /\ Lowest(NotEnded(segments)) \in Segment \cup {NoSegment}
  BY <1>1, LowestSegment
<1>3. body.segment \in Segment \cup {NoSegment}
  BY DEF Body
<1> QED BY <1>2, <1>3 DEF Target

USE DEF tables, locks, scratch

LEMMA TypeInit == Init => TypeOK
<1> SUFFICES ASSUME Init PROVE TypeOK
  OBVIOUS
<1>1. \E b \in Body : b.key = NoKey /\ b.segment = NoSegment
  <2> PICK o \in Operation, res \in Result : TRUE
    BY OperationAssumption, ResultsAssumption
  <2>1. [op |-> o, key |-> NoKey, segment |-> NoSegment, result |-> res] \in Body
    BY DEF Body
  <2> QED BY <2>1
<1>2. req \in [Request -> Body]
  BY <1>1 DEF Init
<1>3. match \in [status : MatchStatus, result : Result \cup {NoResult}]
  BY StatusAssumption DEF Init, MatchStatus
<1>4. segment \in [Segment -> SegmentState] /\ seen \in [Request -> Seen]
  BY SegmentAssumption DEF Init, Seen, MatchStatus
<1>5. outbox \in Seq([version : Nat, status : MatchStatus \cup {"clock"}])
  BY DEF Init
<1> QED BY <1>2, <1>3, <1>4, <1>5 DEF Init, TypeOK, Unused, Place, Answer, SegmentState

LEMMA FingerprintType ==
  ASSUME NEW body \in Body
  PROVE  Fingerprint(body) \in (Result \cup {NoResult}) \X (Segment \cup {NoSegment})
BY DEF Fingerprint, Body

LEMMA SubmitType == ASSUME TypeOK, NEW r \in Request, Submit(r) PROVE TypeOK'
<1>1. req' \in [Request -> Body] /\ pc' \in [Request -> Place]
  BY DEF Submit, Goto, TypeOK, Place
<1> QED BY <1>1 DEF TypeOK, Submit

LEMMA ReadMatchType == ASSUME TypeOK, NEW r \in Request, ReadMatch(r) PROVE TypeOK'
<1>1. seen' \in [Request -> Seen]
  <2>1. match.status \in MatchStatus /\ match.result \in Result \cup {NoResult}
    BY DEF TypeOK
  <2>2. seen[r] \in Seen
    BY DEF TypeOK
  <2> DEFINE s == [seen[r] EXCEPT !.status = match.status, !.result = match.result]
  <2>3. s \in Seen
    BY <2>1, <2>2 DEF Seen
  <2>4. seen' = [seen EXCEPT ![r] = s]
    BY DEF ReadMatch, TypeOK
  <2> QED BY <2>3, <2>4 DEF TypeOK
<1>2. pc' \in [Request -> Place] /\ answer' \in [Request -> Answer]
  BY DEF TypeOK, ReadMatch, Goto, Reply, Place, Answer
<1> QED BY <1>1, <1>2 DEF TypeOK, ReadMatch

LEMMA FindKeyType == ASSUME TypeOK, NEW r \in Request, FindKey(r) PROVE TypeOK'
<1>1. \E place \in Place : pc' = [pc EXCEPT ![r] = place]
  BY DEF FindKey, Replay, Goto, Reply, Place
<1>2. answer' = answer \/ \E a \in Answer : answer' = [answer EXCEPT ![r] = a]
  BY DEF FindKey, Replay, Reply, Answer
<1>3. pc' \in [Request -> Place] /\ answer' \in [Request -> Answer]
  BY <1>1, <1>2 DEF TypeOK
<1> QED BY <1>3 DEF TypeOK, FindKey

LEMMA DecideType == ASSUME TypeOK, NEW r \in Request, Decide(r) PROVE TypeOK'
<1>1. req[r] \in Body /\ segment \in [Segment -> SegmentState]
  BY DEF TypeOK
<1>2. Target(req[r], segment) \in Segment \cup {NoSegment}
  BY <1>1, TargetSegment
<1>3. Stopped(req[r], segment) \in SUBSET Segment
  BY <1>1 DEF Stopped, Active
<1>4. todo' \in [Request -> SUBSET Segment]
  <2>1. \/ todo' = todo
        \/ todo' = [todo EXCEPT ![r] =
                      (Stopped(req[r], segment) \cup {Target(req[r], segment)}) \ {NoSegment}]
    BY DEF Decide
  <2>2. (Stopped(req[r], segment) \cup {Target(req[r], segment)}) \ {NoSegment} \in SUBSET Segment
    BY <1>2, <1>3
  <2> QED BY <2>1, <2>2 DEF TypeOK
<1>5. seen' \in [Request -> Seen]
  <2>1. seen' = [seen EXCEPT ![r].segment = segment]
    BY DEF Decide
  <2>2. seen \in [Request -> Seen] /\ segment \in [Segment -> SegmentState]
    BY DEF TypeOK
  <2> QED BY <2>1, <2>2 DEF Seen
<1>6. pc' \in [Request -> Place] /\ answer' \in [Request -> Answer]
  <2>1. \E place \in Place : pc' = [pc EXCEPT ![r] = place]
    BY DEF Decide, Goto, Reply, Place
  <2>2. answer' = answer \/ answer' = [answer EXCEPT ![r] = "refused"]
    BY DEF Decide, Reply
  <2>3. pc \in [Request -> Place] /\ answer \in [Request -> Answer]
    BY DEF TypeOK
  <2>4. "refused" \in Answer
    BY DEF Answer
  <2> QED BY <2>1, <2>2, <2>3, <2>4
<1>7. UNCHANGED <<tables, locks, req, written, taken>>
  BY DEF Decide
<1> QED BY <1>4, <1>5, <1>6, <1>7 DEF TypeOK

\* What ending a transaction leaves of its locks and its scratch.
LEMMA ReleaseAllType ==
  ASSUME TypeOK, NEW r \in Request, ReleaseAll(r)
  PROVE  /\ matchLock' \in Request \cup {Nobody}
         /\ segmentLock' \in [Segment -> Request \cup {Nobody}]
         /\ versionLock' \in Request \cup {Nobody}
         /\ todo' \in [Request -> SUBSET Segment]
         /\ written' \in [Request -> [Segment -> SegmentState \cup {Unwritten}]]
         /\ taken' \in [Request -> Nat]
BY DEF TypeOK, ReleaseAll

LEMMA RollbackType == ASSUME TypeOK, NEW r \in Request, Rollback(r) PROVE TypeOK'
<1>1. pc' \in [Request -> Place]
  BY DEF TypeOK, Rollback, Goto, Place
<1> QED BY <1>1, ReleaseAllType DEF TypeOK, Rollback

LEMMA CrashType == ASSUME TypeOK, NEW r \in Request, Crash(r) PROVE TypeOK'
<1>1. pc' \in [Request -> Place]
  BY DEF TypeOK, Crash, Goto, Place
<1> QED BY <1>1, ReleaseAllType DEF TypeOK, Crash

LEMMA TxReadType == ASSUME TypeOK, NEW r \in Request, TxRead(r) PROVE TypeOK'
<1>1. CASE Rollback(r)
  BY <1>1, RollbackType
<1>2. CASE ~ Rollback(r)
  <2>1. /\ seen' = [seen EXCEPT ![r].result = match.result]
        /\ pc' = [pc EXCEPT ![r] = "update"]
        /\ UNCHANGED <<tables, locks, req, todo, written, taken, answer>>
    BY <1>2 DEF TxRead, Goto
  <2>2. seen' \in [Request -> Seen]
    <3>1. match.result \in Result \cup {NoResult} /\ seen[r] \in Seen
      BY DEF TypeOK
    <3> DEFINE s == [seen[r] EXCEPT !.result = match.result]
    <3>2. s \in Seen
      BY <3>1 DEF Seen
    <3>3. seen' = [seen EXCEPT ![r] = s]
      BY <2>1 DEF TypeOK
    <3> QED BY <3>2, <3>3 DEF TypeOK
  <2>3. pc' \in [Request -> Place]
    BY <2>1 DEF TypeOK, Place
  <2> QED BY <2>1, <2>2, <2>3 DEF TypeOK
<1> QED BY <1>1, <1>2

LEMMA TxUpdateType == ASSUME TypeOK, NEW r \in Request, TxUpdate(r) PROVE TypeOK'
<1>1. pc' \in [Request -> Place]
  BY DEF TypeOK, TxUpdate, Goto, Place
<1> QED BY <1>1 DEF TypeOK, TxUpdate

LEMMA TxSegmentType == ASSUME TypeOK, NEW r \in Request, TxSegment(r) PROVE TypeOK'
<1> DEFINE s == NextSegment(r)
<1>1. pc' \in [Request -> Place]
  BY DEF TypeOK, TxSegment, Goto, Place
<1>2. SegmentAfter(req[r].op) \in SegmentState
  BY DEF SegmentAfter, SegmentState
<1>3. PICK v \in SegmentState \cup {Unwritten} : written' = [written EXCEPT ![r][s] = v]
  <2> DEFINE v == IF s = Aim(r) THEN TargetState(r) ELSE "pending"
  <2>1. v \in SegmentState \cup {Unwritten}
    BY <1>2 DEF TargetState, SegmentState
  <2>2. written' = [written EXCEPT ![r][s] = v]
    BY DEF TxSegment
  <2> QED BY <2>1, <2>2
<1>4. written' \in [Request -> [Segment -> SegmentState \cup {Unwritten}]]
  BY <1>3 DEF TypeOK
<1>5. segmentLock' \in [Segment -> Request \cup {Nobody}]
  BY DEF TypeOK, TxSegment
<1>6. todo' \in [Request -> SUBSET Segment]
  BY DEF TypeOK, TxSegment
<1> QED BY <1>1, <1>4, <1>5, <1>6 DEF TypeOK, TxSegment

LEMMA TxVersionType == ASSUME TypeOK, NEW r \in Request, TxVersion(r) PROVE TypeOK'
<1>1. pc' \in [Request -> Place]
  BY DEF TypeOK, TxVersion, TakeVersion, Goto, Place
<1>2. taken' \in [Request -> Nat]
  BY DEF TypeOK, TxVersion, TakeVersion
<1> QED BY <1>1, <1>2 DEF TypeOK, TxVersion, TakeVersion

LEMMA TxResultType == ASSUME TypeOK, NEW r \in Request, TxResult(r) PROVE TypeOK'
<1>1. CASE match.result # NoResult
  BY <1>1, RollbackType DEF TxResult
<1>2. CASE match.result = NoResult
  <2>1. pc' = [pc EXCEPT ![r] = "commit"] /\ UNCHANGED <<tables, locks, req, scratch, answer>>
    BY <1>2 DEF TxResult, Goto
  <2> QED BY <2>1 DEF TypeOK, Place
<1> QED BY <1>1, <1>2

LEMMA StoredAnswerType == ASSUME TypeOK, NEW r \in Request PROVE StoredAnswer(r) \in Stored
<1>1. req[r] \in Body
  BY DEF TypeOK
<1>2. Fingerprint(req[r]) \in (Result \cup {NoResult}) \X (Segment \cup {NoSegment})
  BY <1>1, FingerprintType
<1> QED BY <1>1, <1>2 DEF StoredAnswer, Stored, Body

LEMMA CommitType == ASSUME TypeOK, NEW r \in Request, Commit(r) PROVE TypeOK'
<1> DEFINE taken_key == req[r].op = "finalize" /\ idem[req[r].key] # Unused
<1>1. CASE taken_key
  BY <1>1, RollbackType DEF Commit
<1>2. CASE ~ taken_key
  <2>1. /\ CommitMatch(r) /\ CommitProjection(r) /\ CommitAudit(r) /\ CommitKey(r)
        /\ ReleaseAll(r)
        /\ segment' = [s \in Segment |-> IF written[r][s] = Unwritten
                                         THEN segment[s] ELSE written[r][s]]
        /\ Reply(r, "applied") \/ (Goto(r, "record") /\ UNCHANGED answer)
        /\ UNCHANGED <<req, seen>>
    BY <1>2 DEF Commit
  <2>2. req[r] \in Body
    BY DEF TypeOK
  <2>3. match' \in [status : MatchStatus, result : Result \cup {NoResult}]
    BY <2>1, <2>2 DEF TypeOK, CommitMatch, StatusAfter, MatchStatus, Body
  <2>4. segment' \in [Segment -> SegmentState]
    BY <2>1 DEF TypeOK
  <2>5. version' \in Nat
    BY <2>1 DEF TypeOK, CommitProjection
  <2>6. outbox' \in Seq([version : Nat, status : MatchStatus \cup {"clock"}])
    <3>1. StatusAfter(req[r].op) \in MatchStatus
      BY DEF StatusAfter, MatchStatus
    <3>2. \A st \in MatchStatus \cup {"clock"} :
             [version |-> taken[r], status |-> st] \in [version : Nat, status : MatchStatus \cup {"clock"}]
      BY DEF TypeOK
    <3> DEFINE Told == [version : Nat, status : MatchStatus \cup {"clock"}]
    <3>3. outbox' = outbox \/ \E e \in Told : outbox' = Append(outbox, e)
      BY <2>1, <3>1, <3>2 DEF CommitProjection
    <3>4. outbox \in Seq(Told)
      BY DEF TypeOK
    <3>5. outbox' \in Seq(Told)
      <4> HIDE DEF Told
      <4> QED BY <3>3, <3>4, AppendProperties
    <3> QED BY <3>5
  <2>7. audit' \in Seq([action : {"finalized", "superseded"}, prior : Result \cup {NoResult},
                        result : Result, key : Key \cup {NoKey}])
    <3>1. seen[r].result \in Result \cup {NoResult} /\ req[r].result \in Result
          /\ req[r].key \in Key \cup {NoKey}
      BY <2>2 DEF TypeOK, Seen, Body
    <3> DEFINE Row == [action : {"finalized", "superseded"}, prior : Result \cup {NoResult},
                       result : Result, key : Key \cup {NoKey}]
    <3>2. audit' = audit \/ \E row \in Row : audit' = Append(audit, row)
      BY <2>1, <3>1 DEF CommitAudit
    <3>3. audit \in Seq(Row)
      BY DEF TypeOK
    <3>4. audit' \in Seq(Row)
      <4> HIDE DEF Row
      <4> QED BY <3>2, <3>3, AppendProperties
    <3> QED BY <3>4
  <2>8. idem' \in [Key -> Stored \cup {Unused}]
    BY <2>1, StoredAnswerType DEF TypeOK, CommitKey
  <2>9. pc' \in [Request -> Place] /\ answer' \in [Request -> Answer]
    BY <2>1 DEF TypeOK, Reply, Goto, Place, Answer
  <2>10. req' \in [Request -> Body] /\ seen' \in [Request -> Seen]
    BY <2>1 DEF TypeOK
  <2> QED BY <2>1, <2>3, <2>4, <2>5, <2>6, <2>7, <2>8, <2>9, <2>10, ReleaseAllType DEF TypeOK
<1> QED BY <1>1, <1>2

LEMMA RecordKeyType == ASSUME TypeOK, NEW r \in Request, RecordKey(r) PROVE TypeOK'
<1>1. idem' \in [Key -> Stored \cup {Unused}]
  BY StoredAnswerType DEF TypeOK, RecordKey
<1>2. pc' \in [Request -> Place] /\ answer' \in [Request -> Answer]
  <2>1. \E place \in Place : pc' = [pc EXCEPT ![r] = place]
    BY DEF RecordKey, Goto, Reply, Place
  <2>2. answer' = answer \/ \E a \in Answer : answer' = [answer EXCEPT ![r] = a]
    BY DEF RecordKey, Reply, Answer
  <2> QED BY <2>1, <2>2 DEF TypeOK
<1> QED BY <1>1, <1>2 DEF TypeOK, RecordKey

LEMMA RecoverType == ASSUME TypeOK, NEW r \in Request, Recover(r) PROVE TypeOK'
<1>1. pc' = [pc EXCEPT ![r] = "done"] /\ \E a \in Answer : answer' = [answer EXCEPT ![r] = a]
  BY DEF Recover, Replay, Goto, Reply, Answer
<1>2. pc' \in [Request -> Place] /\ answer' \in [Request -> Answer]
  BY <1>1 DEF TypeOK, Place
<1> QED BY <1>2 DEF TypeOK, Recover

LEMMA TypeNext == TypeOK /\ [Next]_vars => TypeOK'
<1> SUFFICES ASSUME TypeOK, [Next]_vars PROVE TypeOK'
  OBVIOUS
<1>1. CASE UNCHANGED vars
  BY <1>1 DEF TypeOK, vars
<1>2. CASE \E r \in Request : Submit(r) \/ Step(r) \/ Crash(r)
  <2> PICK r \in Request : Submit(r) \/ Step(r) \/ Crash(r)
    BY <1>2
  <2>1. AbortVictim(r) => Rollback(r)
    BY DEF AbortVictim
  <2> QED BY <2>1, SubmitType, ReadMatchType, FindKeyType, DecideType, TxReadType,
             TxUpdateType, TxSegmentType, TxVersionType, TxResultType, CommitType,
             RecordKeyType, RecoverType, RollbackType, CrashType DEF Step
<1> QED BY <1>1, <1>2 DEF Next

\* Every row, lock and local variable of the console holds a value of its type,
\* whatever requests arrive and wherever their servers die.
THEOREM TypeCorrect == Spec => []TypeOK
<1>1. Init => TypeOK
  BY TypeInit
<1>2. TypeOK /\ [Next]_vars => TypeOK'
  BY TypeNext
<1> QED BY <1>1, <1>2, PTL DEF Spec
-----------------------------------------------------------------------------
(***************************************************************************)
(* The invariant behind the results: which locks a handler holds where it  *)
(* is, which operations come by there, and what it still knows of the row. *)
(***************************************************************************)
HoldsMatch(r) ==
  req[r].op \notin ClockAdjustment /\ pc[r] \in {"clocks", "version", "result", "commit"}
HoldsVersion(r) == req[r].op # "correct" /\ pc[r] \in {"result", "commit"}

LocksHeld ==
  \A r \in Request : /\ matchLock = r <=> HoldsMatch(r)
                     /\ versionLock = r <=> HoldsVersion(r)

Route ==
  \A r \in Request :
    /\ pc[r] \in {"match", "transaction", "update"} => req[r].op \notin ClockAdjustment
    /\ pc[r] \in {"key", "segments", "clocks", "version", "result", "record"}
         => req[r].op # "correct"
    /\ pc[r] = "result" => req[r].op = "finalize"
    /\ pc[r] = "record" => req[r].op # "finalize"
    /\ pc[r] # "idle" /\ req[r].op = "finalize" => req[r].key # NoKey
    /\ pc[r] = "record" => req[r].key # NoKey

\* The result column, as a transaction about to write it last saw it.
ResultSeen ==
  \A r \in Request :
    /\ pc[r] = "commit" /\ req[r].op = "finalize" => match.result = NoResult
    /\ pc[r] \in {"update", "commit"} /\ req[r].op = "correct" => match.result # NoResult

Disciplined == TypeOK /\ LocksHeld /\ Route /\ ResultSeen

\* The part of TypeOK the proofs below use.
LEMMA Typed ==
  ASSUME TypeOK
  PROVE  /\ pc \in [Request -> Place]
         /\ req \in [Request -> Body]
         /\ match \in [status : MatchStatus, result : Result \cup {NoResult}]
         /\ \A r \in Request : /\ req[r].op \in Operation
                               /\ req[r].result \in Result
                               /\ req[r].key \in Key \cup {NoKey}
         /\ Nobody \notin Request
BY RequestsAssumption DEF TypeOK, Body

LEMMA DisciplinedInit == Init => Disciplined
<1> SUFFICES ASSUME Init PROVE Disciplined
  OBVIOUS
<1>1. TypeOK
  BY TypeInit
<1>2. LocksHeld
  BY RequestsAssumption DEF Init, LocksHeld, HoldsMatch, HoldsVersion
<1>3. Route /\ ResultSeen
  BY DEF Init, Route, ResultSeen
<1> QED BY <1>1, <1>2, <1>3 DEF Disciplined

\* A transaction ends without effect: by an error, or with its server.
LEMMA RollbackDisciplined ==
  ASSUME Disciplined, NEW r \in Request, NEW place \in Place,
         ReleaseAll(r), Goto(r, place), UNCHANGED <<match, req>>,
         place \in {"recover", "crashed"}, pc[r] # "idle"
  PROVE  LocksHeld' /\ Route' /\ ResultSeen'
<1> USE Typed DEF Disciplined
<1>1. LocksHeld'
  BY DEF LocksHeld, HoldsMatch, HoldsVersion, ReleaseAll, Goto
<1>2. Route'
  BY DEF Route, Goto
<1>3. ResultSeen'
  BY DEF ResultSeen, Goto
<1> QED BY <1>1, <1>2, <1>3

LEMMA SubmitDisciplined ==
  ASSUME Disciplined, NEW r \in Request, Submit(r) PROVE LocksHeld' /\ Route' /\ ResultSeen'
<1> USE Typed DEF Disciplined
<1>1. PICK body \in Body :
        /\ pc[r] = "idle"
        /\ body.op = "finalize" => body.key # NoKey
        /\ body.op = "correct" => body.key = NoKey
        /\ req' = [req EXCEPT ![r] = body]
        /\ pc' = [pc EXCEPT ![r] = IF body.op \in ClockAdjustment THEN "key" ELSE "match"]
        /\ UNCHANGED <<match, matchLock, versionLock>>
  BY DEF Submit, Goto
<1>2. LocksHeld'
  BY <1>1 DEF LocksHeld, HoldsMatch, HoldsVersion
<1>3. Route'
  BY <1>1 DEF Route, ClockAdjustment
<1>4. ResultSeen'
  BY <1>1 DEF ResultSeen
<1> QED BY <1>2, <1>3, <1>4

\* A step outside any transaction: r goes on to some place where it holds no lock.
LEMMA OutsideDisciplined ==
  ASSUME Disciplined, NEW r \in Request, NEW place \in Place,
         pc[r] \in {"match", "key", "segments", "record", "recover"},
         pc' = [pc EXCEPT ![r] = place],
         \/ place \in {"done", "recover"}
         \/ place \in {"key", "transaction"} /\ pc[r] = "match" /\ (req[r].op = "correct" => place = "transaction")
         \/ place = "segments" /\ pc[r] = "key"
         \/ place \in {"transaction", "clocks"} /\ pc[r] = "segments"
              /\ (place = "clocks" <=> req[r].op \in ClockAdjustment),
         UNCHANGED <<match, req, matchLock, versionLock>>
  PROVE  LocksHeld' /\ Route' /\ ResultSeen'
<1> USE Typed DEF Disciplined
<1>1. LocksHeld'
  BY DEF LocksHeld, HoldsMatch, HoldsVersion, Route
<1>2. Route'
  BY DEF Route
<1>3. ResultSeen'
  BY DEF ResultSeen
<1> QED BY <1>1, <1>2, <1>3

LEMMA TxUpdateDisciplined ==
  ASSUME Disciplined, NEW r \in Request, TxUpdate(r) PROVE LocksHeld' /\ Route' /\ ResultSeen'
<1> USE Typed DEF Disciplined
<1>1. /\ pc[r] = "update"
      /\ matchLock = Nobody
      /\ matchLock' = r
      /\ pc' = [pc EXCEPT ![r] = IF req[r].op = "correct" THEN "commit"
                                 ELSE IF todo[r] = {} THEN "version" ELSE "clocks"]
      /\ UNCHANGED <<match, req, versionLock>>
  BY DEF TxUpdate, Goto
<1>2. LocksHeld'
  BY <1>1 DEF LocksHeld, HoldsMatch, HoldsVersion, Route, ClockAdjustment
<1>3. Route'
  BY <1>1 DEF Route
<1>4. ResultSeen'
  BY <1>1 DEF ResultSeen
<1> QED BY <1>2, <1>3, <1>4

LEMMA TxSegmentDisciplined ==
  ASSUME Disciplined, NEW r \in Request, TxSegment(r) PROVE LocksHeld' /\ Route' /\ ResultSeen'
<1> USE Typed DEF Disciplined
<1>1. PICK place \in {"version", "clocks"} :
        /\ pc[r] = "clocks"
        /\ pc' = [pc EXCEPT ![r] = place]
        /\ UNCHANGED <<match, req, matchLock, versionLock>>
  BY DEF TxSegment, Goto
<1>2. LocksHeld'
  BY <1>1 DEF LocksHeld, HoldsMatch, HoldsVersion
<1>3. Route'
  BY <1>1 DEF Route
<1>4. ResultSeen'
  BY <1>1 DEF ResultSeen
<1> QED BY <1>2, <1>3, <1>4

LEMMA TxVersionDisciplined ==
  ASSUME Disciplined, NEW r \in Request, TxVersion(r) PROVE LocksHeld' /\ Route' /\ ResultSeen'
<1> USE Typed DEF Disciplined
<1>1. /\ pc[r] = "version"
      /\ versionLock = Nobody
      /\ versionLock' = r
      /\ pc' = [pc EXCEPT ![r] = IF req[r].op = "finalize" THEN "result" ELSE "commit"]
      /\ UNCHANGED <<match, req, matchLock>>
  BY DEF TxVersion, TakeVersion, Goto
<1>2. LocksHeld'
  BY <1>1 DEF LocksHeld, HoldsMatch, HoldsVersion, Route
<1>3. Route'
  BY <1>1 DEF Route
<1>4. ResultSeen'
  BY <1>1 DEF ResultSeen, Route
<1> QED BY <1>2, <1>3, <1>4

\* A statement of the transaction that only reads, and lets it go on.
LEMMA ReadDisciplined ==
  ASSUME Disciplined, NEW r \in Request, UNCHANGED <<match, req, matchLock, versionLock>>,
         \/ /\ pc[r] = "transaction"
            /\ pc' = [pc EXCEPT ![r] = "update"]
            /\ req[r].op = "correct" => match.result # NoResult
         \/ /\ pc[r] = "result"
            /\ pc' = [pc EXCEPT ![r] = "commit"]
            /\ match.result = NoResult
  PROVE  LocksHeld' /\ Route' /\ ResultSeen'
<1> USE Typed DEF Disciplined
<1>1. LocksHeld'
  BY DEF LocksHeld, HoldsMatch, HoldsVersion, Route
<1>2. Route'
  BY DEF Route
<1>3. ResultSeen'
  BY DEF ResultSeen, Route
<1> QED BY <1>1, <1>2, <1>3

\* The committing transaction: what it does to the match row, and where it goes.
Committed(r) ==
  /\ pc[r] = "commit"
  /\ CommitMatch(r) /\ CommitProjection(r) /\ CommitAudit(r) /\ CommitKey(r)
  /\ ReleaseAll(r)
  /\ UNCHANGED <<req, seen>>
  /\ \/ pc' = [pc EXCEPT ![r] = "done"]
     \/ /\ pc' = [pc EXCEPT ![r] = "record"]
        /\ req[r].op \notin {"finalize", "correct"} /\ req[r].key # NoKey

LEMMA CommitCases ==
  ASSUME NEW r \in Request, Commit(r)
  PROVE  \/ pc[r] = "commit" /\ Rollback(r)
         \/ Committed(r) /\ (req[r].op = "finalize" => idem[req[r].key] = Unused)
<1>1. CASE req[r].op = "finalize" /\ idem[req[r].key] # Unused
  BY <1>1 DEF Commit
<1>2. CASE ~ (req[r].op = "finalize" /\ idem[req[r].key] # Unused)
  BY <1>2 DEF Commit, Committed, Reply, Goto
<1> QED BY <1>1, <1>2

LEMMA CommitDisciplined ==
  ASSUME Disciplined, NEW r \in Request, Committed(r) PROVE LocksHeld' /\ Route' /\ ResultSeen'
<1> USE Typed DEF Disciplined
<1>1. LocksHeld'
  BY DEF LocksHeld, HoldsMatch, HoldsVersion, ReleaseAll, Committed
<1>2. Route'
  BY DEF Route, Committed
<1>3. ResultSeen'
  <2> SUFFICES ASSUME NEW q \in Request
               PROVE  /\ pc'[q] = "commit" /\ req'[q].op = "finalize" => match'.result = NoResult
                      /\ pc'[q] \in {"update", "commit"} /\ req'[q].op = "correct"
                           => match'.result # NoResult
    BY DEF ResultSeen
  <2>1. CASE q = r
    BY <2>1 DEF Committed
  <2>2. CASE q # r
    <3>1. pc'[q] = pc[q] /\ req' = req
      BY <2>2 DEF Committed
    <3>2. pc[q] = "commit" /\ req[q].op = "finalize" => HoldsMatch(q)
      BY DEF HoldsMatch, ClockAdjustment
    <3>3. ~ (HoldsMatch(q) /\ HoldsMatch(r))
      BY <2>2 DEF LocksHeld
    <3>4. HoldsMatch(r) \/ match' = match
      BY DEF Committed, HoldsMatch, CommitMatch, ClockAdjustment
    <3>5. match.result # NoResult => match'.result # NoResult
      BY ResultsAssumption DEF Committed, CommitMatch
    <3> QED BY <3>1, <3>2, <3>3, <3>4, <3>5 DEF ResultSeen
  <2> QED BY <2>1, <2>2
<1> QED BY <1>1, <1>2, <1>3

\* The steps outside the transaction, one by one, are of OutsideDisciplined's kind.
LEMMA OutsideSteps ==
  ASSUME Disciplined, NEW r \in Request,
         ReadMatch(r) \/ FindKey(r) \/ Decide(r) \/ RecordKey(r) \/ Recover(r)
  PROVE  LocksHeld' /\ Route' /\ ResultSeen'
<1>1. CASE ReadMatch(r)
  <2>1. \E place \in {"key", "transaction", "done"} :
          /\ pc' = [pc EXCEPT ![r] = place]
          /\ req[r].op = "correct" => place # "key"
    BY <1>1 DEF ReadMatch, Goto, Reply
  <2> QED BY <1>1, <2>1, OutsideDisciplined DEF ReadMatch, Place
<1>2. CASE FindKey(r)
  <2>1. \E place \in {"segments", "done"} : pc' = [pc EXCEPT ![r] = place]
    BY <1>2 DEF FindKey, Replay, Goto, Reply
  <2> QED BY <1>2, <2>1, OutsideDisciplined DEF FindKey, Place
<1>3. CASE Decide(r)
  <2>1. \E place \in {"transaction", "clocks", "done"} :
          /\ pc' = [pc EXCEPT ![r] = place]
          /\ place # "done" => (place = "clocks" <=> req[r].op \in ClockAdjustment)
    BY <1>3 DEF Decide, Goto, Reply
  <2> QED BY <1>3, <2>1, OutsideDisciplined DEF Decide, Place
<1>4. CASE RecordKey(r)
  <2>1. \E place \in {"recover", "done"} : pc' = [pc EXCEPT ![r] = place]
    BY <1>4 DEF RecordKey, Goto, Reply
  <2> QED BY <1>4, <2>1, OutsideDisciplined DEF RecordKey, Place
<1>5. CASE Recover(r)
  <2>1. pc' = [pc EXCEPT ![r] = "done"]
    BY <1>5 DEF Recover, Replay, Goto, Reply
  <2> QED BY <1>5, <2>1, OutsideDisciplined DEF Recover, Place
<1> QED BY <1>1, <1>2, <1>3, <1>4, <1>5

LEMMA RollbackSteps ==
  ASSUME Disciplined, NEW r \in Request, pc[r] # "idle", Rollback(r) \/ Crash(r)
  PROVE  LocksHeld' /\ Route' /\ ResultSeen'
<1>1. \E place \in {"recover", "crashed"} :
        ReleaseAll(r) /\ Goto(r, place) /\ UNCHANGED <<match, req>>
  BY DEF Rollback, Crash
<1> QED BY <1>1, RollbackDisciplined DEF Place

\* The three statements that may undo the transaction do that, or go on.
LEMMA TransactionSteps ==
  ASSUME Disciplined, NEW r \in Request,
         TxRead(r) \/ TxResult(r) \/ Commit(r) \/ AbortVictim(r)
  PROVE  LocksHeld' /\ Route' /\ ResultSeen'
<1>1. CASE TxRead(r)
  <2>1. \/ pc[r] = "transaction" /\ Rollback(r)
        \/ /\ pc[r] = "transaction" /\ pc' = [pc EXCEPT ![r] = "update"]
           /\ req[r].op = "correct" => match.result # NoResult
           /\ UNCHANGED <<match, req, matchLock, versionLock>>
    BY <1>1 DEF TxRead, Goto
  <2> QED BY <2>1, RollbackSteps, ReadDisciplined
<1>2. CASE TxResult(r)
  <2>1. \/ pc[r] = "result" /\ Rollback(r)
        \/ /\ pc[r] = "result" /\ pc' = [pc EXCEPT ![r] = "commit"]
           /\ match.result = NoResult
           /\ UNCHANGED <<match, req, matchLock, versionLock>>
    BY <1>2 DEF TxResult, Goto
  <2> QED BY <2>1, RollbackSteps, ReadDisciplined
<1>3. CASE Commit(r)
  BY <1>3, CommitCases, RollbackSteps, CommitDisciplined
<1>4. CASE AbortVictim(r)
  <2>1. pc[r] # "idle"
    BY <1>4 DEF AbortVictim, Deadlocked, WaitsFor
  <2> QED BY <1>4, <2>1, RollbackSteps DEF AbortVictim
<1> QED BY <1>1, <1>2, <1>3, <1>4

LEMMA DisciplinedNext == Disciplined /\ [Next]_vars => Disciplined'
<1> SUFFICES ASSUME Disciplined, [Next]_vars PROVE Disciplined'
  OBVIOUS
<1>1. TypeOK'
  BY TypeNext DEF Disciplined
<1>2. LocksHeld' /\ Route' /\ ResultSeen'
  <2>1. CASE UNCHANGED vars
    BY <2>1 DEF Disciplined, LocksHeld, HoldsMatch, HoldsVersion, Route, ResultSeen, vars
  <2>2. CASE \E r \in Request : Submit(r) \/ Step(r) \/ Crash(r)
    <3> PICK r \in Request : Submit(r) \/ Step(r) \/ Crash(r)
      BY <2>2
    <3>1. Crash(r) => pc[r] # "idle"
      BY DEF Crash
    <3> QED BY <3>1, SubmitDisciplined, OutsideSteps, TransactionSteps, TxUpdateDisciplined,
               TxSegmentDisciplined, TxVersionDisciplined, RollbackSteps DEF Step
  <2> QED BY <2>1, <2>2 DEF Next
<1> QED BY <1>1, <1>2 DEF Disciplined
-----------------------------------------------------------------------------
\* A step that leaves the match row, its audit rows and the keys alone.
LEMMA TablesMoveAtCommit ==
  ASSUME NEW r \in Request, Submit(r) \/ Step(r) \/ Crash(r)
  PROVE  \/ Committed(r) /\ (req[r].op = "finalize" => idem[req[r].key] = Unused)
         \/ RecordKey(r)
         \/ UNCHANGED tables
<1>1. CASE Commit(r)
  BY <1>1, CommitCases DEF Rollback
<1>2. CASE Submit(r) \/ ReadMatch(r) \/ FindKey(r) \/ Decide(r) \/ Recover(r)
  BY <1>2 DEF Submit, ReadMatch, FindKey, Decide, Recover
<1>3. CASE TxRead(r) \/ TxUpdate(r) \/ TxSegment(r) \/ TxVersion(r) \/ TxResult(r)
  BY <1>3 DEF TxRead, TxUpdate, TxSegment, TxVersion, TakeVersion, TxResult, Rollback
<1>4. CASE AbortVictim(r) \/ Crash(r)
  BY <1>4 DEF AbortVictim, Crash, Rollback
<1> QED BY <1>1, <1>2, <1>3, <1>4 DEF Step

LEMMA ResultInit == Init => ResultRecordedOnce /\ FinalizedHasResult
BY StatusAssumption DEF Init, ResultRecordedOnce, FinalizedHasResult

LEMMA ResultCommit ==
  ASSUME Disciplined, ResultRecordedOnce, FinalizedHasResult, NEW r \in Request, Committed(r)
  PROVE  ResultRecordedOnce' /\ FinalizedHasResult'
<1> DEFINE Row == [action : {"finalized", "superseded"}, prior : Result \cup {NoResult},
                   result : Result, key : Key \cup {NoKey}]
<1>1. /\ audit \in Seq(Row)
      /\ match \in [status : MatchStatus, result : Result \cup {NoResult}]
      /\ req[r].result \in Result /\ req[r].key \in Key \cup {NoKey}
      /\ seen[r].result \in Result \cup {NoResult}
  BY Typed DEF Disciplined, TypeOK, Seen
<1>2. CASE req[r].op = "finalize"
  <2>1. match.result = NoResult /\ audit = <<>>
    BY <1>2 DEF Disciplined, ResultSeen, Committed, ResultRecordedOnce
  <2>2. match' = [status |-> "finalized", result |-> req[r].result]
    BY <1>2 DEF Committed, CommitMatch, ClockAdjustment
  <2>3. audit' = <<[action |-> "finalized", prior |-> NoResult,
                    result |-> req[r].result, key |-> req[r].key]>>
    BY <1>2, <2>1 DEF Committed, CommitAudit
  <2> QED BY <1>1, <2>2, <2>3, ResultsAssumption DEF ResultRecordedOnce, FinalizedHasResult
<1>3. CASE req[r].op = "correct"
  <2> DEFINE row == [action |-> "superseded", prior |-> seen[r].result,
                     result |-> req[r].result, key |-> NoKey]
  <2>1. match.result # NoResult /\ audit # <<>>
    BY <1>3 DEF Disciplined, ResultSeen, Committed, ResultRecordedOnce
  <2>2. match' = [match EXCEPT !.result = req[r].result]
    BY <1>3 DEF Committed, CommitMatch, ClockAdjustment
  <2>3. audit' = Append(audit, row) /\ row \in Row
    BY <1>1, <1>3 DEF Committed, CommitAudit
  <2>4. /\ Len(audit') = Len(audit) + 1
        /\ audit'[Len(audit')] = row
        /\ \A i \in 1..Len(audit) : audit'[i] = audit[i]
        /\ audit' \in Seq(Row)
    <3> HIDE DEF row, Row
    <3> QED BY <1>1, <2>3, AppendProperties
  <2>5. Len(audit) \in Nat /\ Len(audit) # 0
    BY <1>1, <2>1
  <2>6. DOMAIN audit' = 1..Len(audit') /\ DOMAIN audit = 1..Len(audit)
    BY <1>1, <2>4
  <2>7. \A i \in DOMAIN audit' : audit'[i].action = "finalized" <=> i = 1
    BY <2>4, <2>5, <2>6 DEF ResultRecordedOnce
  <2>8. match'.result = req[r].result /\ match'.status = match.status
    BY <1>1, <2>2
  <2> QED BY <1>1, <2>4, <2>5, <2>7, <2>8, ResultsAssumption DEF ResultRecordedOnce, FinalizedHasResult
<1>4. CASE req[r].op \notin {"finalize", "correct"}
  <2>1. match'.result = match.result /\ match'.status \in {match.status, "in-progress"}
    BY <1>1, <1>4 DEF Committed, CommitMatch, StatusAfter
  <2>2. audit' = audit
    BY <1>4 DEF Committed, CommitAudit
  <2> QED BY <2>1, <2>2 DEF ResultRecordedOnce, FinalizedHasResult
<1> QED BY <1>2, <1>3, <1>4

\* However finalizations and corrections interleave, a result is recorded once
\* and every later one supersedes it, the match row holding the last.
THEOREM ResultIsRecordedOnce == Spec => [](ResultRecordedOnce /\ FinalizedHasResult)
<1> DEFINE IInv == Disciplined /\ ResultRecordedOnce /\ FinalizedHasResult
<1>1. Init => IInv
  BY DisciplinedInit, ResultInit
<1>2. IInv /\ [Next]_vars => IInv'
  <2> SUFFICES ASSUME IInv, [Next]_vars PROVE ResultRecordedOnce' /\ FinalizedHasResult'
    BY DisciplinedNext
  <2>1. CASE UNCHANGED <<match, audit>>
    BY <2>1 DEF ResultRecordedOnce, FinalizedHasResult
  <2>2. CASE \E r \in Request : Submit(r) \/ Step(r) \/ Crash(r)
    <3> PICK r \in Request : Submit(r) \/ Step(r) \/ Crash(r)
      BY <2>2
    <3>1. RecordKey(r) => UNCHANGED <<match, audit>>
      BY DEF RecordKey
    <3> QED BY <2>1, <3>1, TablesMoveAtCommit, ResultCommit
  <2> QED BY <2>1, <2>2 DEF Next, vars
<1> QED BY <1>1, <1>2, PTL DEF Spec
-----------------------------------------------------------------------------
LEMMA StoredIsUsed == ASSUME NEW x \in Stored PROVE x # Unused
BY OperationAssumption DEF Stored, Unused, MatchCommand, ClockAdjustment

LEMMA FinalizeKeyCommit ==
  ASSUME Disciplined, ResultRecordedOnce, FinalizeKeyAtomic, NEW r \in Request, Committed(r)
  PROVE  FinalizeKeyAtomic'
<1> DEFINE Row == [action : {"finalized", "superseded"}, prior : Result \cup {NoResult},
                   result : Result, key : Key \cup {NoKey}]
<1>1. /\ audit \in Seq(Row)
      /\ idem \in [Key -> Stored \cup {Unused}]
      /\ req[r].result \in Result /\ req[r].key \in Key \cup {NoKey}
      /\ seen[r].result \in Result \cup {NoResult}
  BY Typed DEF Disciplined, TypeOK, Seen
<1>2. CASE req[r].op = "finalize"
  <2>1. match.result = NoResult /\ audit = <<>>
    BY <1>2 DEF Disciplined, ResultSeen, Committed, ResultRecordedOnce
  <2>2. audit' = <<[action |-> "finalized", prior |-> NoResult,
                    result |-> req[r].result, key |-> req[r].key]>>
    BY <1>2, <2>1 DEF Committed, CommitAudit
  <2>3. req[r].key \in Key
    BY <1>1, <1>2 DEF Disciplined, Route, Committed
  <2>4. /\ idem' = [idem EXCEPT ![req[r].key] = StoredAnswer(r)]
        /\ StoredAnswer(r) \in Stored
        /\ StoredAnswer(r).finalized
        /\ StoredAnswer(r).body[1] = req[r].result
    BY <1>2, StoredAnswerType DEF Disciplined, Committed, CommitKey, StoredAnswer, Fingerprint,
                                  ClockAdjustment
  <2>5. \A k \in Key : ~ (idem[k] # Unused /\ idem[k].finalized)
    BY <2>1 DEF FinalizeKeyAtomic
  <2>6. idem'[req[r].key] = StoredAnswer(r) /\ StoredAnswer(r) # Unused
    BY <1>1, <2>3, <2>4, StoredIsUsed
  <2> QED BY <1>1, <2>2, <2>3, <2>4, <2>5, <2>6 DEF FinalizeKeyAtomic
<1>3. CASE req[r].op = "correct"
  <2> DEFINE row == [action |-> "superseded", prior |-> seen[r].result,
                     result |-> req[r].result, key |-> NoKey]
  <2>1. audit' = Append(audit, row) /\ row \in Row /\ idem' = idem
    BY <1>1, <1>3 DEF Committed, CommitAudit, CommitKey
  <2>2. /\ Len(audit') = Len(audit) + 1
        /\ audit'[Len(audit')] = row
        /\ \A i \in 1..Len(audit) : audit'[i] = audit[i]
        /\ audit' \in Seq(Row)
    <3> HIDE DEF row, Row
    <3> QED BY <1>1, <2>1, AppendProperties
  <2>3. DOMAIN audit' = 1..Len(audit') /\ DOMAIN audit = 1..Len(audit) /\ Len(audit) \in Nat
    BY <1>1, <2>2
  <2> QED BY <2>1, <2>2, <2>3 DEF FinalizeKeyAtomic
<1>4. CASE req[r].op \notin {"finalize", "correct"}
  BY <1>4 DEF Committed, CommitAudit, CommitKey, FinalizeKeyAtomic
<1> QED BY <1>2, <1>3, <1>4

\* A key recorded after its command had none before, so no finalization had it.
LEMMA FinalizeKeyRecord ==
  ASSUME Disciplined, FinalizeKeyAtomic, NEW r \in Request, RecordKey(r)
  PROVE  FinalizeKeyAtomic'
<1>1. CASE idem' = idem
  BY <1>1 DEF RecordKey, FinalizeKeyAtomic
<1>2. CASE idem' # idem
  <2>1. /\ idem[req[r].key] = Unused
        /\ idem' = [idem EXCEPT ![req[r].key] = StoredAnswer(r)]
        /\ audit' = audit
    BY <1>2 DEF RecordKey
  <2>2. req[r].key \in Key /\ idem \in [Key -> Stored \cup {Unused}]
    BY Typed DEF Disciplined, Route, RecordKey, TypeOK
  <2>3. idem'[req[r].key].finalized = FALSE
    BY <2>1, <2>2 DEF Disciplined, Route, RecordKey, StoredAnswer
  <2>4. \A i \in DOMAIN audit : audit[i].action = "finalized" => audit[i].key # req[r].key
    BY <2>1 DEF FinalizeKeyAtomic
  <2> QED BY <2>1, <2>2, <2>3, <2>4 DEF FinalizeKeyAtomic
<1> QED BY <1>1, <1>2

\* A finalization and the key that answers its retries are stored together.
THEOREM FinalizeKeyIsAtomic == Spec => []FinalizeKeyAtomic
<1> DEFINE IInv == Disciplined /\ ResultRecordedOnce /\ FinalizeKeyAtomic
<1>1. Init => Disciplined /\ FinalizeKeyAtomic
  BY DisciplinedInit DEF Init, FinalizeKeyAtomic
<1>2. Disciplined /\ ResultRecordedOnce /\ FinalizeKeyAtomic /\ [Next]_vars => FinalizeKeyAtomic'
  <2> SUFFICES ASSUME IInv, [Next]_vars PROVE FinalizeKeyAtomic'
    OBVIOUS
  <2>1. CASE UNCHANGED <<audit, idem>>
    BY <2>1 DEF FinalizeKeyAtomic
  <2>2. CASE \E r \in Request : Submit(r) \/ Step(r) \/ Crash(r)
    BY <2>1, <2>2, TablesMoveAtCommit, FinalizeKeyCommit, FinalizeKeyRecord
  <2> QED BY <2>1, <2>2 DEF Next, vars
<1> QED BY <1>1, <1>2, DisciplinedNext, ResultIsRecordedOnce, PTL DEF Spec
-----------------------------------------------------------------------------
\* Whoever holds the version row's lock will commit the row's next version.
NextVersionTaken == \A r \in Request : HoldsVersion(r) => taken[r] = version + 1

\* A step of one request moves no other, and leaves its version alone.
LEMMA OthersStay ==
  ASSUME TypeOK, NEW r \in Request, Submit(r) \/ Step(r) \/ Crash(r),
         NEW q \in Request, q # r
  PROVE  pc'[q] = pc[q] /\ req'[q] = req[q] /\ taken'[q] = taken[q]
<1>1. \E place \in Place : pc' = [pc EXCEPT ![r] = place]
  <2>1. CASE Submit(r) \/ ReadMatch(r) \/ FindKey(r) \/ Decide(r)
    BY <2>1 DEF Submit, ReadMatch, FindKey, Decide, Replay, Goto, Reply, Place
  <2>2. CASE TxRead(r) \/ TxUpdate(r) \/ TxSegment(r) \/ TxVersion(r) \/ TxResult(r)
    BY <2>2 DEF TxRead, TxUpdate, TxSegment, TxVersion, TakeVersion, TxResult, Rollback, Goto, Place
  <2>3. CASE Commit(r) \/ RecordKey(r) \/ Recover(r) \/ AbortVictim(r) \/ Crash(r)
    BY <2>3 DEF Commit, RecordKey, Recover, AbortVictim, Crash, Rollback, Replay, Goto, Reply, Place
  <2> QED BY <2>1, <2>2, <2>3 DEF Step
<1>2. \E body \in Body : req' = [req EXCEPT ![r] = body] \/ req' = req
  <2>1. CASE Submit(r)
    BY <2>1 DEF Submit
  <2>2. CASE Step(r) \/ Crash(r)
    <3>1. req[r] \in Body
      BY DEF TypeOK
    <3>2. req' = req
      BY <2>2 DEF Step, Crash, ReadMatch, FindKey, Decide, TxRead, TxUpdate, TxSegment, TxVersion,
                  TakeVersion, TxResult, Commit, RecordKey, Recover, AbortVictim, Rollback
    <3> QED BY <3>1, <3>2
  <2> QED BY <2>1, <2>2
<1>3. taken' = taken \/ \E n \in Nat : taken' = [taken EXCEPT ![r] = n]
  <2>1. CASE Submit(r) \/ ReadMatch(r) \/ FindKey(r) \/ Decide(r) \/ RecordKey(r) \/ Recover(r)
             \/ TxUpdate(r) \/ TxSegment(r)
    BY <2>1 DEF Submit, ReadMatch, FindKey, Decide, RecordKey, Recover, TxUpdate, TxSegment
  <2>2. CASE TxRead(r) \/ TxResult(r) \/ Commit(r) \/ AbortVictim(r) \/ Crash(r)
    <3>1. taken' = taken \/ ReleaseAll(r)
      BY <2>2 DEF TxRead, TxResult, Commit, AbortVictim, Crash, Rollback
    <3> QED BY <3>1 DEF ReleaseAll
  <2>3. CASE TxVersion(r)
    <3>1. taken' = [taken EXCEPT ![r] = version + 1]
      BY <2>3 DEF TxVersion, TakeVersion
    <3>2. version + 1 \in Nat
      BY DEF TypeOK
    <3> QED BY <3>1, <3>2
  <2> QED BY <2>1, <2>2, <2>3 DEF Step
<1> QED BY <1>1, <1>2, <1>3 DEF TypeOK

LEMMA NextVersionTakenNext ==
  ASSUME Disciplined, NextVersionTaken, NEW r \in Request, Submit(r) \/ Step(r) \/ Crash(r)
  PROVE  NextVersionTaken'
<1> SUFFICES ASSUME NEW q \in Request, HoldsVersion(q)' PROVE taken'[q] = version' + 1
  BY DEF NextVersionTaken
<1>1. version' = version \/ (Committed(r) /\ HoldsVersion(r))
  <2>1. CASE Committed(r)
    BY <2>1 DEF Committed, CommitProjection, HoldsVersion
  <2>2. CASE RecordKey(r)
    BY <2>2 DEF RecordKey
  <2>3. CASE UNCHANGED tables
    BY <2>3
  <2> QED BY <2>1, <2>2, <2>3, TablesMoveAtCommit
<1>2. CASE q # r
  <2>1. HoldsVersion(q) /\ taken'[q] = taken[q]
    BY <1>2, OthersStay DEF Disciplined, HoldsVersion
  <2>2. ~ HoldsVersion(r)
    BY <1>2, <2>1 DEF Disciplined, LocksHeld
  <2> QED BY <1>1, <2>1, <2>2 DEF NextVersionTaken
<1>3. CASE q = r
  <2>1. pc'[r] \in {"result", "commit"} /\ req'[r].op # "correct"
    BY <1>3 DEF HoldsVersion
  <2>2. TxVersion(r) \/ (TxResult(r) /\ taken' = taken)
    <3>1. ~ Committed(r)
      BY <2>1, Typed DEF Committed, Disciplined
    <3>2. ~ Rollback(r)
      BY <2>1, Typed DEF Rollback, Goto, Disciplined
    <3>3. ~ Submit(r)
      BY <2>1, Typed DEF Submit, Goto, Disciplined
    <3>4. ~ ReadMatch(r) /\ ~ FindKey(r) /\ ~ Decide(r) /\ ~ RecordKey(r) /\ ~ Recover(r)
      BY <2>1, Typed DEF ReadMatch, FindKey, Decide, RecordKey, Recover, Replay, Reply, Goto, Disciplined
    <3>5. ~ TxRead(r) /\ ~ TxSegment(r) /\ ~ Crash(r)
      BY <2>1, <3>2, Typed DEF TxRead, TxSegment, Crash, Goto, Disciplined
    <3>6. ~ TxUpdate(r)
      BY <2>1, Typed DEF TxUpdate, Goto, Disciplined
    <3>7. TxResult(r) => taken' = taken
      BY <3>2 DEF TxResult
    <3>8. ~ Commit(r) /\ ~ AbortVictim(r)
      BY <3>1, <3>2, CommitCases DEF AbortVictim
    <3> QED BY <3>3, <3>4, <3>5, <3>6, <3>7, <3>8 DEF Step
  <2>3. CASE TxVersion(r)
    BY <1>3, <2>3 DEF TxVersion, TakeVersion, Disciplined, TypeOK
  <2>4. CASE TxResult(r) /\ taken' = taken
    <3>1. HoldsVersion(r)
      BY <2>4 DEF TxResult, HoldsVersion, Disciplined, Route
    <3>2. version' = version
      BY <1>1, <2>4 DEF TxResult, Committed
    <3> QED BY <1>3, <2>4, <3>1, <3>2 DEF NextVersionTaken
  <2> QED BY <2>2, <2>3, <2>4
<1> QED BY <1>2, <1>3

LEMMA ProjectionCommit ==
  ASSUME Disciplined, NextVersionTaken, ProjectionFollowsMatch, NEW r \in Request, Committed(r)
  PROVE  ProjectionFollowsMatch'
<1> DEFINE Told == [version : Nat, status : MatchStatus \cup {"clock"}]
<1>1. /\ outbox \in Seq(Told) /\ version \in Nat /\ version = Len(outbox)
      /\ match \in [status : MatchStatus, result : Result \cup {NoResult}]
      /\ req[r].op \in Operation
  BY Typed DEF Disciplined, TypeOK, ProjectionFollowsMatch
<1>2. CASE req[r].op = "correct"
  <2>1. UNCHANGED <<version, outbox>> /\ match'.status = match.status
    BY <1>1, <1>2 DEF Committed, CommitProjection, CommitMatch, ClockAdjustment
  <2> QED BY <2>1 DEF ProjectionFollowsMatch
<1>3. CASE req[r].op # "correct"
  <2> DEFINE told == IF req[r].op \in ClockAdjustment THEN "clock" ELSE StatusAfter(req[r].op)
             sent == [version |-> version + 1, status |-> told]
  <2>1. taken[r] = version + 1
    BY <1>3 DEF NextVersionTaken, HoldsVersion, Committed
  <2>2. outbox' = Append(outbox, sent) /\ version' = version + 1
    BY <1>3, <2>1 DEF Committed, CommitProjection
  <2>3. sent \in Told
    BY <1>1 DEF StatusAfter, MatchStatus
  <2>4. /\ Len(outbox') = Len(outbox) + 1
        /\ outbox'[Len(outbox')] = sent
        /\ \A i \in 1..Len(outbox) : outbox'[i] = outbox[i]
        /\ outbox' \in Seq(Told)
    <3> HIDE DEF sent, Told
    <3> QED BY <1>1, <2>2, <2>3, AppendProperties
  <2>5. /\ DOMAIN outbox' = 1..Len(outbox) + 1 
        /\ DOMAIN outbox = 1..Len(outbox) 
        /\ Len(outbox) \in Nat
    BY <1>1, <2>4
  <2>6. \A i \in DOMAIN outbox' : outbox'[i].version = i
    BY <1>1, <2>4, <2>5 DEF ProjectionFollowsMatch
  <2>7. IF told = "clock" THEN match'.status = match.status ELSE match'.status = told
    BY <1>1, <1>3 DEF Committed, CommitMatch, ClockAdjustment, StatusAfter
  <2>8. ASSUME NEW i \in DOMAIN outbox', outbox'[i].status # "clock",
               \A j \in DOMAIN outbox' : outbox'[j].status # "clock" => j <= i
        PROVE  outbox'[i].status = match'.status
    <3>1. CASE told = "clock"
      <4>1. i \in DOMAIN outbox /\ outbox'[i] = outbox[i]
        BY <2>4, <2>5, <2>8, <3>1
      <4>2. \A j \in DOMAIN outbox : outbox[j].status # "clock" => j <= i
        BY <2>4, <2>5, <2>8
      <4> QED BY <2>7, <2>8, <3>1, <4>1, <4>2 DEF ProjectionFollowsMatch
    <3>2. CASE told # "clock"
      <4>1. i = Len(outbox) + 1
        BY <2>4, <2>5, <2>8, <3>2
      <4> QED BY <2>4, <2>7, <3>2, <4>1
    <3> QED BY <3>1, <3>2
  <2> QED BY <1>1, <2>2, <2>4, <2>6, <2>8 DEF ProjectionFollowsMatch
<1> QED BY <1>2, <1>3

\* The console's projections are numbered without gap in the order they commit,
\* and the last of them that tells a status tells the match row's.
THEOREM ProjectionIsFaithful == Spec => []ProjectionFollowsMatch
<1>1. Init => Disciplined /\ NextVersionTaken /\ ProjectionFollowsMatch
  BY DisciplinedInit DEF Init, NextVersionTaken, HoldsVersion, ProjectionFollowsMatch
<1>2. Disciplined /\ NextVersionTaken /\ ProjectionFollowsMatch /\ [Next]_vars
        => NextVersionTaken' /\ ProjectionFollowsMatch'
  <2> SUFFICES ASSUME Disciplined, NextVersionTaken, ProjectionFollowsMatch, [Next]_vars
               PROVE  NextVersionTaken' /\ ProjectionFollowsMatch'
    OBVIOUS
  <2>1. CASE UNCHANGED vars
    BY <2>1 DEF NextVersionTaken, HoldsVersion, ProjectionFollowsMatch, vars
  <2>2. CASE \E r \in Request : Submit(r) \/ Step(r) \/ Crash(r)
    <3> PICK r \in Request : Submit(r) \/ Step(r) \/ Crash(r)
      BY <2>2
    <3>1. UNCHANGED <<match, version, outbox>> => ProjectionFollowsMatch'
      BY DEF ProjectionFollowsMatch
    <3>2. RecordKey(r) => UNCHANGED <<match, version, outbox>>
      BY DEF RecordKey
    <3> QED BY <3>1, <3>2, TablesMoveAtCommit, NextVersionTakenNext, ProjectionCommit
  <2> QED BY <2>1, <2>2 DEF Next
<1> QED BY <1>1, <1>2, DisciplinedNext, PTL DEF Spec
==================================================================================
