------------------------------ MODULE MatchCommands ------------------------------
(***************************************************************************)
(* The live console of one match: the commands an official sends (start,   *)
(* pause, resume, end, finalize), the manual clock adjustment and the      *)
(* correction of a result, as several API processes execute them           *)
(* concurrently against one PostgreSQL database.                           *)
(*                                                                         *)
(* Every request reads the match, its idempotency key and the segments     *)
(* outside any transaction, decides, and then runs a transaction.  No      *)
(* statement of it asks for a lock or an isolation level, so PostgreSQL    *)
(* runs it READ COMMITTED: a SELECT sees what is committed when it runs,   *)
(* an UPDATE waits for the row's lock, applies to the version it finds     *)
(* then, and holds the lock until the transaction ends.  One action below  *)
(* is one such statement (or a run of statements that touch one row the    *)
(* transaction already holds).                                             *)
(*                                                                         *)
(* Bulk load, the other way a result is recorded, is an operation of       *)
(* SeriesLifecycle: it looks for a result before it holds the match's row, *)
(* which OutcomeStands shows the effect of there.                          *)
(***************************************************************************)
EXTENDS Integers, Sequences, FiniteSets

CONSTANTS
  Request,         \* the HTTP requests that may be in flight or be retried
  NumSegments,     \* the match's segments, numbered in play order
  Key,             \* idempotency keys a client may send
  NoKey,           \* the header is absent
  Result,          \* results an operator may submit
  NoResult,        \* matches.result is null
  Nobody,          \* no transaction holds the lock
  Operation,       \* the operations the clients of this instance send
  InitialStatus,   \* the statuses the match may be in when the run starts
  InitialSegment   \* and the states its segments may be in: two clock
                   \* adjustments that overlap leave two of them running

Segment   == 1..NumSegments
NoSegment == 0
SegmentState == {"pending", "active", "completed"}
Unwritten    == "unwritten"
MatchStatus  == {"scheduled", "in-progress", "finalized"}
MatchCommand == {"start", "pause", "resume", "end", "finalize"}
ClockAdjustment == {"activate", "adjust"}

ASSUME SegmentsAssumption  == NumSegments \in Nat
ASSUME KeysAssumption      == NoKey \notin Key
ASSUME ResultsAssumption   == Result # {} /\ NoResult \notin Result
ASSUME RequestsAssumption  == Nobody \notin Request
ASSUME OperationAssumption ==
  Operation # {} /\ Operation \subseteq MatchCommand \cup ClockAdjustment \cup {"correct"}
ASSUME StatusAssumption    == InitialStatus \subseteq {"scheduled", "in-progress"}
ASSUME SegmentAssumption   == InitialSegment \subseteq SegmentState

VARIABLES
  match,       \* committed row of matches: [status, result]
  segment,     \* committed segments.state
  version,     \* committed projection_versions row (match-console, match)
  outbox,      \* committed match.console-projection events, in commit order
  audit,       \* committed audit rows that carry a result, in commit order
  idem,        \* committed match_command_idempotency rows
  matchLock, segmentLock, versionLock,   \* row locks of open transactions
  pc,          \* where each request's handler is
  req,         \* what the request asks for
  seen,        \* what its handler has read so far
  todo,        \* segments its transaction still has to write
  written,     \* its uncommitted segment states
  taken,       \* its uncommitted projection version
  answer       \* what its client was told

tables  == <<match, segment, version, outbox, audit, idem>>
locks   == <<matchLock, segmentLock, versionLock>>
scratch == <<seen, todo, written, taken>>
vars    == <<tables, locks, pc, req, scratch, answer>>

Body   == [op : Operation, key : Key \cup {NoKey},
           segment : Segment \cup {NoSegment}, result : Result]
Seen   == [status : MatchStatus, result : Result \cup {NoResult},
           segment : [Segment -> SegmentState]]
Stored == [op : Operation, body : (Result \cup {NoResult}) \X (Segment \cup {NoSegment}),
           finalized : BOOLEAN]
Unused == [op |-> "unused"]
Answer == {"none", "applied", "replayed", "conflict", "refused", "failed"}
Place  == {"idle", "match", "key", "segments", "transaction", "update", "clocks",
           "version", "result", "commit", "record", "recover", "done", "crashed"}

TypeOK ==
  /\ match \in [status : MatchStatus, result : Result \cup {NoResult}]
  /\ segment \in [Segment -> SegmentState]
  /\ version \in Nat
  /\ outbox \in Seq([version : Nat, status : MatchStatus \cup {"clock"}])
  /\ audit \in Seq([action : {"finalized", "superseded"}, prior : Result \cup {NoResult},
                    result : Result, key : Key \cup {NoKey}])
  /\ idem \in [Key -> Stored \cup {Unused}]
  /\ matchLock \in Request \cup {Nobody}
  /\ segmentLock \in [Segment -> Request \cup {Nobody}]
  /\ versionLock \in Request \cup {Nobody}
  /\ pc \in [Request -> Place]
  /\ req \in [Request -> Body]
  /\ seen \in [Request -> Seen]
  /\ todo \in [Request -> SUBSET Segment]
  /\ written \in [Request -> [Segment -> SegmentState \cup {Unwritten}]]
  /\ taken \in [Request -> Nat]
  /\ answer \in [Request -> Answer]
-----------------------------------------------------------------------------
(***************************************************************************)
(* The domain's decision: applyMatchCommand and the choice of the segment  *)
(* the command acts on, over what the handler has read.                    *)
(***************************************************************************)
LegalFrom(op)  == IF op = "start" THEN "scheduled" ELSE "in-progress"
\* Mutant: the match takes the state of the segment it acts on.
StatusOfSegment(op) == IF op = "finalize" THEN "finalized" ELSE "active"
StatusAfter(op) == IF op = "finalize" THEN "finalized" ELSE "in-progress"
ClockRuns(op)   == op \in {"start", "resume", "activate"}
SegmentAfter(op) ==
  CASE ClockRuns(op) -> "active"
    [] op \in {"pause", "finalize"} -> "pending"
    [] OTHER -> "completed"

Lowest(S) == IF S = {} THEN NoSegment ELSE CHOOSE s \in S : \A t \in S : s <= t
Active(segments)    == {s \in DOMAIN segments : segments[s] = "active"}
NotEnded(segments)  == {s \in DOMAIN segments : segments[s] # "completed"}

Target(body, segments) ==
  IF body.segment # NoSegment THEN body.segment
  ELSE IF Active(segments) # {} \/ body.op \notin {"start", "resume"}
       THEN Lowest(Active(segments))
       ELSE Lowest(NotEnded(segments))

Permitted(op, status, target, segments) ==
  /\ status = LegalFrom(op)
  /\ op = "pause" => target # NoSegment /\ segments[target] = "active"
  /\ target # NoSegment /\ segments[target] = "completed" => op = "finalize"
  /\ op = "end" => target # NoSegment

Aim(r)  == Target(req[r], seen[r].segment)
\* The other segments a transaction must stop: those its handler saw running.
Stopped(body, segments) ==
  IF ClockRuns(body.op) THEN Active(segments) \ {Target(body, segments)} ELSE {}
\* What the target becomes; an adjustment only touches its clock.
TargetState(r) ==
  IF \/ req[r].op = "adjust"
     \/ req[r].op = "activate" /\ seen[r].segment[Aim(r)] = "active"
  THEN Unwritten ELSE SegmentAfter(req[r].op)

\* The body a key is compared on: finalize and the clock fingerprint their
\* body, the other commands only the command's name.
Fingerprint(body) ==
  CASE body.op = "finalize" -> <<body.result, body.segment>>
    [] body.op \in ClockAdjustment -> <<NoResult, body.segment>>
    [] OTHER -> <<NoResult, NoSegment>>

SameRequest(stored, body) == stored.op = body.op /\ stored.body = Fingerprint(body)
-----------------------------------------------------------------------------
Init ==
  /\ match \in [status : InitialStatus, result : {NoResult}]
  /\ segment \in [Segment -> InitialSegment]
  /\ version = 0
  /\ outbox = <<>>
  /\ audit = <<>>
  /\ idem = [k \in Key |-> Unused]
  /\ matchLock = Nobody
  /\ segmentLock = [s \in Segment |-> Nobody]
  /\ versionLock = Nobody
  /\ pc = [r \in Request |-> "idle"]
  /\ req \in [Request -> {CHOOSE b \in Body : b.key = NoKey /\ b.segment = NoSegment}]
  /\ seen = [r \in Request |-> [status |-> "scheduled", result |-> NoResult,
                                segment |-> segment]]
  /\ todo = [r \in Request |-> {}]
  /\ written = [r \in Request |-> [s \in Segment |-> Unwritten]]
  /\ taken = [r \in Request |-> 0]
  /\ answer = [r \in Request |-> "none"]

Goto(r, place) == pc' = [pc EXCEPT ![r] = place]
Reply(r, what) == /\ Goto(r, "done")
                  /\ answer' = [answer EXCEPT ![r] = what]

\* A client sends a request, or sends one again with the key it used before.
\* (Only finalize and correct carry a result: the others' body has any one.)
Submit(r) ==
  /\ pc[r] = "idle"
  /\ \E body \in Body :
       /\ body.op = "finalize" => body.key # NoKey
       /\ body.op \in ClockAdjustment => body.segment # NoSegment
       /\ body.op = "correct" => body.key = NoKey /\ body.segment = NoSegment
       /\ body.op \notin {"finalize", "correct"} => body.result = CHOOSE x \in Result : TRUE
       /\ req' = [req EXCEPT ![r] = body]
       /\ Goto(r, IF body.op \in ClockAdjustment THEN "key" ELSE "match")
  /\ UNCHANGED <<tables, locks, scratch, answer>>

\* findMatch, before anything else the handler does.
ReadMatch(r) ==
  /\ pc[r] = "match"
  /\ seen' = [seen EXCEPT ![r].status = match.status, ![r].result = match.result]
  /\ \/ req[r].op # "correct" /\ Goto(r, "key") /\ UNCHANGED answer
     \/ /\ req[r].op = "correct"
        /\ IF match.result # NoResult /\ match.result # req[r].result
           THEN Goto(r, "transaction") /\ UNCHANGED answer
           ELSE Reply(r, "refused")
  /\ UNCHANGED <<tables, locks, req, todo, written, taken>>

Replay(r) ==
  Reply(r, IF SameRequest(idem[req[r].key], req[r]) THEN "replayed" ELSE "conflict")

\* idempotency.find: a stored answer ends the request here.
FindKey(r) ==
  /\ pc[r] = "key"
  /\ IF req[r].key # NoKey /\ idem[req[r].key] # Unused
     THEN Replay(r)
     ELSE Goto(r, "segments") /\ UNCHANGED answer
  /\ UNCHANGED <<tables, locks, req, scratch>>

\* listSegments, the choice of the target and applyMatchCommand.
Decide(r) ==
  /\ pc[r] = "segments"
  /\ seen' = [seen EXCEPT ![r].segment = segment]
  /\ LET op == req[r].op
         target == Target(req[r], segment)
     IN  IF op \in ClockAdjustment \/ Permitted(op, seen[r].status, target, segment)
         THEN /\ Goto(r, IF op \in ClockAdjustment THEN "clocks" ELSE "transaction")
              /\ todo' = [todo EXCEPT ![r] = (Stopped(req[r], segment) \cup {target}) \ {NoSegment}]
              /\ UNCHANGED answer
         ELSE Reply(r, "refused") /\ UNCHANGED todo
  /\ UNCHANGED <<tables, locks, req, written, taken>>
-----------------------------------------------------------------------------
\* The end of a transaction either way: its locks are free, its writes gone.
ReleaseAll(r) ==
  /\ matchLock' = IF matchLock = r THEN Nobody ELSE matchLock
  /\ segmentLock' = [s \in Segment |-> IF segmentLock[s] = r THEN Nobody ELSE segmentLock[s]]
  /\ versionLock' = IF versionLock = r THEN Nobody ELSE versionLock
  /\ todo' = [todo EXCEPT ![r] = {}]
  /\ written' = [written EXCEPT ![r] = [s \in Segment |-> Unwritten]]
  /\ taken' = [taken EXCEPT ![r] = 0]

\* Mutant: the connection goes back to the pool with its transaction open.
RollbackForgotten(r) ==
  /\ Goto(r, "recover")
  /\ UNCHANGED <<tables, locks, req, scratch, answer>>

\* An error inside the transaction; the handler's catch looks the key up again.
Rollback(r) ==
  /\ ReleaseAll(r)
  /\ Goto(r, "recover")
  /\ UNCHANGED <<tables, req, seen, answer>>

\* The SELECT applyCommand and supersedeResult begin with.
TxRead(r) ==
  /\ pc[r] = "transaction"
  /\ IF IF req[r].op = "correct" THEN match.result = NoResult ELSE match.status = "finalized"
     THEN Rollback(r)
     ELSE /\ seen' = [seen EXCEPT ![r].result = match.result]
          /\ Goto(r, "update")
          /\ UNCHANGED <<tables, locks, req, todo, written, taken, answer>>

\* Their UPDATE of the match row, by its id alone.
TxUpdate(r) ==
  /\ pc[r] = "update"
  /\ matchLock = Nobody
  /\ matchLock' = r
  /\ Goto(r, IF req[r].op = "correct" THEN "commit"
             ELSE IF todo[r] = {} THEN "version" ELSE "clocks")
  /\ UNCHANGED <<tables, segmentLock, versionLock, req, scratch, answer>>

NextSegment(r) == IF todo[r] = {Aim(r)} THEN Aim(r) ELSE Lowest(todo[r] \ {Aim(r)})

\* setSegmentState on each segment to stop, in order, then on the target;
\* adjustSegmentClock on the target.
TxSegment(r) ==
  /\ pc[r] = "clocks"
  /\ LET s == NextSegment(r) IN
       /\ segmentLock[s] \in {Nobody, r}
       /\ segmentLock' = [segmentLock EXCEPT ![s] = r]
       /\ written' = [written EXCEPT ![r][s] = IF s = Aim(r) THEN TargetState(r) ELSE "pending"]
       /\ todo' = [todo EXCEPT ![r] = @ \ {s}]
       /\ Goto(r, IF todo[r] = {s} THEN "version" ELSE "clocks")
  /\ UNCHANGED <<tables, matchLock, versionLock, req, seen, taken, answer>>

TakeVersion(r) ==
  /\ taken' = [taken EXCEPT ![r] = version + 1]
  /\ Goto(r, IF req[r].op = "finalize" THEN "result" ELSE "commit")
  /\ UNCHANGED <<tables, matchLock, segmentLock, req, seen, todo, written, answer>>

\* Mutant: the version read with a SELECT, which waits for nobody.
TxVersionUnlocked(r) == pc[r] = "version" /\ TakeVersion(r) /\ UNCHANGED versionLock

\* nextVersion: one upsert that locks the projection's version row and returns
\* the version the row gets when the transaction commits.
TxVersion(r) ==
  /\ pc[r] = "version"
  /\ versionLock = Nobody
  /\ versionLock' = r
  /\ TakeVersion(r)

\* Mutant: recordResult without its check for a result already there.
TxResultUnchecked(r) ==
  /\ pc[r] = "result"
  /\ Goto(r, "commit")
  /\ UNCHANGED <<tables, locks, req, scratch, answer>>

\* recordResult: read again inside the transaction, and refused over a result.
TxResult(r) ==
  /\ pc[r] = "result"
  /\ IF match.result # NoResult
     THEN Rollback(r)
     ELSE Goto(r, "commit") /\ UNCHANGED <<tables, locks, req, scratch, answer>>
-----------------------------------------------------------------------------
CommitMatch(r) ==
  match' = CASE req[r].op = "finalize" -> [status |-> "finalized", result |-> req[r].result]
             [] req[r].op = "correct"  -> [match EXCEPT !.result = req[r].result]
             [] req[r].op \in ClockAdjustment -> match
             [] OTHER -> [match EXCEPT !.status = StatusAfter(req[r].op)]

CommitProjection(r) ==
  IF req[r].op = "correct" THEN UNCHANGED <<version, outbox>>
  ELSE /\ version' = taken[r]
       /\ outbox' = Append(outbox, [version |-> taken[r],
                      status |-> IF req[r].op \in ClockAdjustment THEN "clock"
                                 ELSE StatusAfter(req[r].op)])

CommitAudit(r) ==
  audit' = CASE req[r].op = "finalize" ->
                  Append(audit, [action |-> "finalized", prior |-> NoResult,
                                 result |-> req[r].result, key |-> req[r].key])
             [] req[r].op = "correct" ->
                  Append(audit, [action |-> "superseded", prior |-> seen[r].result,
                                 result |-> req[r].result, key |-> NoKey])
             [] OTHER -> audit

StoredAnswer(r) == [op |-> req[r].op, body |-> Fingerprint(req[r]),
                    finalized |-> req[r].op = "finalize"]

\* Mutant: finalize leaves its key to a transaction of its own.
CommitNoKey(r) == UNCHANGED idem

CommitKey(r) ==
  idem' = IF req[r].op = "finalize"
          THEN [idem EXCEPT ![req[r].key] = StoredAnswer(r)] ELSE idem

\* COMMIT.  Finalize inserts its key as the transaction's last statement, so a
\* key already taken undoes the whole transaction.
Commit(r) ==
  /\ pc[r] = "commit"
  /\ IF req[r].op = "finalize" /\ idem[req[r].key] # Unused
     THEN Rollback(r)
     ELSE /\ CommitMatch(r)
          /\ segment' = [s \in Segment |-> IF written[r][s] = Unwritten
                                           THEN segment[s] ELSE written[r][s]]
          /\ CommitProjection(r)
          /\ CommitAudit(r)
          /\ CommitKey(r)
          /\ ReleaseAll(r)
          /\ IF req[r].op \in {"finalize", "correct"} \/ req[r].key = NoKey
             THEN Reply(r, "applied")
             ELSE Goto(r, "record") /\ UNCHANGED answer
          /\ UNCHANGED <<req, seen>>

\* Every other keyed operation records its key in a second transaction, after
\* the first one committed.  Only the clock's wrapper catches a key taken since.
RecordKey(r) ==
  /\ pc[r] = "record"
  /\ IF idem[req[r].key] = Unused
     THEN /\ idem' = [idem EXCEPT ![req[r].key] = StoredAnswer(r)]
          /\ Reply(r, "applied")
     ELSE /\ UNCHANGED idem
          /\ IF req[r].op \in ClockAdjustment
             THEN Goto(r, "recover") /\ UNCHANGED answer
             ELSE Reply(r, "failed")
  /\ UNCHANGED <<match, segment, version, outbox, audit, locks, req, scratch>>

\* The catch: replay the answer of whoever won the key, or rethrow.
Recover(r) ==
  /\ pc[r] = "recover"
  /\ IF req[r].key # NoKey /\ idem[req[r].key] # Unused
     THEN Replay(r)
     ELSE Reply(r, "failed")
  /\ UNCHANGED <<tables, locks, req, scratch>>
-----------------------------------------------------------------------------
\* q holds the row r's next statement waits for.
WaitsFor(r, q) ==
  \/ pc[r] = "update"  /\ matchLock = q
  \/ pc[r] = "clocks"  /\ segmentLock[NextSegment(r)] = q /\ q # r
  \/ pc[r] = "version" /\ versionLock = q

Deadlocked(r) ==
  \E C \in SUBSET Request :
    /\ r \in C
    /\ \A p \in C : (\E q \in C : WaitsFor(p, q)) /\ (\E q \in C : WaitsFor(q, p))

\* PostgreSQL aborts one transaction of a cycle of waiting ones: two clock
\* adjustments that each stop the segment the other one activates.
AbortVictim(r) == Deadlocked(r) /\ Rollback(r)

\* The API process serving r dies; the database rolls its transaction back.
Crash(r) ==
  /\ pc[r] \notin {"idle", "done", "crashed"}
  /\ ReleaseAll(r)
  /\ Goto(r, "crashed")
  /\ UNCHANGED <<tables, req, seen, answer>>

Step(r) ==
  \/ ReadMatch(r) \/ FindKey(r) \/ Decide(r)
  \/ TxRead(r) \/ TxUpdate(r) \/ TxSegment(r) \/ TxVersion(r) \/ TxResult(r)
  \/ Commit(r) \/ RecordKey(r) \/ Recover(r) \/ AbortVictim(r)

Finished == \A r \in Request : pc[r] \in {"done", "crashed"}

Next == \/ \E r \in Request : Submit(r) \/ Step(r) \/ Crash(r)
        \/ Finished /\ UNCHANGED vars

Spec     == Init /\ [][Next]_vars
FairSpec == Spec /\ \A r \in Request : WF_vars(Step(r))
-----------------------------------------------------------------------------
(***************************************************************************)
(* What holds.                                                             *)
(***************************************************************************)

\* The chain of a result's audit rows has exactly one link written by finalize,
\* the first; every later one supersedes, and the last is what the match row
\* holds.  recordResult refuses over a result and supersedeResult needs one,
\* however the operations of this module interleave.
ResultRecordedOnce ==
  /\ audit = <<>> <=> match.result = NoResult
  /\ \A i \in DOMAIN audit : audit[i].action = "finalized" <=> i = 1
  /\ audit # <<>> => audit[Len(audit)].result = match.result

\* A match shown as finalized has the result that finalized it.
FinalizedHasResult == match.status = "finalized" => match.result # NoResult

\* A finalize key is stored exactly when the finalization it stands for is:
\* "the server SHALL persist atomically with the finalization result".
FinalizeKeyAtomic ==
  /\ \A k \in Key : (idem[k] # Unused /\ idem[k].finalized) =>
       \E i \in DOMAIN audit : audit[i].action = "finalized" /\ audit[i].key = k
  /\ \A i \in DOMAIN audit : audit[i].action = "finalized" =>
       /\ idem[audit[i].key] # Unused
       /\ idem[audit[i].key].finalized
       /\ idem[audit[i].key].body[1] = audit[i].result

\* Console projections carry the versions 1, 2, 3... in the order they commit,
\* so a client that keeps the highest one shows the status the row holds.
ProjectionFollowsMatch ==
  LET told == {i \in DOMAIN outbox : outbox[i].status # "clock"} IN
  /\ version = Len(outbox)
  /\ \A i \in DOMAIN outbox : outbox[i].version = i
  /\ \A i \in told : (\A j \in told : j <= i) => outbox[i].status = match.status

\* No request waits for ever on a row: it is answered, or its server died.
EveryRequestEnds ==
  \A r \in Request : pc[r] # "idle" ~> pc[r] \in {"done", "crashed"}
==================================================================================
