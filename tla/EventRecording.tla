------------------------------ MODULE EventRecording ------------------------------
(***************************************************************************)
(* Recording the events of one match, and revising its roster, from        *)
(* several consoles at once.  Each request is wrapped in withIdempotency,  *)
(* checks the match, the roster and the alerts already raised outside any  *)
(* transaction, and appends the event in a READ COMMITTED transaction      *)
(* whose reads of the log go through the pool's other connections, so they *)
(* see committed rows only.  What keeps the log in order is the unique     *)
(* constraint on (match_id, sequence).                                     *)
(*                                                                         *)
(* The finalization of the match is one step here; MatchCommands has it in *)
(* full, and the console's projection version with it.  That version's row *)
(* lock orders nothing here: the index lets one transaction at a time past *)
(* its insert, and a roster's transaction has nothing left to read.        *)
(***************************************************************************)
EXTENDS Integers, FiniteSets

CONSTANTS
  Request,     \* HTTP requests in flight or retried
  Key, NoKey,  \* idempotency keys, and their absence
  Person,      \* the entrant's registered players
  Threshold,   \* events of one person after which every further one alerts
  PoolSize,    \* connections of the API's pool
  Operation    \* the operations the clients of this instance send

ASSUME ThresholdAssumption == Threshold \in Nat \ {0}
ASSUME PoolAssumption      == PoolSize \in Nat \ {0}
ASSUME KeyAssumption       == NoKey \notin Key
ASSUME PersonAssumption    == Person # {}
ASSUME OperationAssumption == Operation # {} /\ Operation \subseteq {"record", "roster"}

VARIABLES
  status,    \* committed matches.status
  roster,    \* committed match_rosters: the persons selected
  events,    \* committed match_events rows
  raised,    \* committed notification.raised outbox rows
  idem,      \* committed match_command_idempotency rows
  pc,        \* where each request's handler is
  req,       \* what the request asks for
  known,     \* the alert identities its handler found already raised
  claim,     \* the sequence its transaction took
  alerts,    \* the identities its transaction will raise
  answer     \* what its client was told

tables == <<status, roster, events, raised, idem>>
locals == <<known, claim, alerts>>
vars   == <<tables, pc, req, locals, answer>>

Body  == [op : Operation, key : Key \cup {NoKey}, person : Person, members : SUBSET Person]
Event == [seq : Nat, person : Person, key : Key \cup {NoKey}, by : Request]
Alert == [person : Person, firing : Nat]
Unused == [op |-> "unused"]
Answer == {"none", "applied", "replayed", "conflict", "refused", "failed"}
Place  == {"idle", "key", "match", "roster", "alerts", "begin", "sequence", "insert",
           "log", "commit", "attributed", "select", "record", "recover", "done", "crashed"}

TypeOK ==
  /\ status \in {"in-progress", "finalized"}
  /\ roster \subseteq Person
  /\ events \subseteq Event
  /\ raised \subseteq [alert : Alert, cause : Nat]
  /\ idem \in [Key -> Body \cup {Unused}]
  /\ pc \in [Request -> Place]
  /\ req \in [Request -> Body]
  /\ known \in [Request -> SUBSET Alert]
  /\ claim \in [Request -> Nat]
  /\ alerts \in [Request -> SUBSET Alert]
  /\ answer \in [Request -> Answer]
-----------------------------------------------------------------------------
Sequences(log) == {e.seq : e \in log}

\* nextEventSequence: the highest committed sequence, and one more.
NextSequence ==
  CHOOSE n \in {1} \cup {m + 1 : m \in Sequences(events)} :
    \A m \in Sequences(events) : m < n

\* evaluateNotificationRule over a log, for a rule scoped to a person that
\* fires on every qualifying event from the threshold on.
Due(log) ==
  UNION {LET n == Cardinality({e \in log : e.person = p}) IN
         [person : {p}, firing : 1..(n + 1 - Threshold)] : p \in Person}

\* Mutant: the event inserted without the member it is attributed to.
OwnEventUnattributed(r) == [seq |-> claim[r], person |-> NoKey, key |-> req[r].key, by |-> r]
OwnEvent(r) == [seq |-> claim[r], person |-> req[r].person, key |-> req[r].key, by |-> r]

\* A transaction keeps its connection from BEGIN to COMMIT, also while it waits
\* for a second one.
InTransaction == {r \in Request : pc[r] \in {"sequence", "insert", "log", "commit"}}
\* Mutant: a pool of one connection less.
PoolOneShort == Cardinality(InTransaction) + 1 < PoolSize
ConnectionFree == Cardinality(InTransaction) < PoolSize
-----------------------------------------------------------------------------
Init ==
  /\ status = "in-progress"
  /\ roster = Person
  /\ events = {}
  /\ raised = {}
  /\ idem = [k \in Key |-> Unused]
  /\ pc = [r \in Request |-> "idle"]
  /\ req \in [Request -> {CHOOSE b \in Body : b.key = NoKey}]
  /\ known = [r \in Request |-> {}]
  /\ claim = [r \in Request |-> 0]
  /\ alerts = [r \in Request |-> {}]
  /\ answer = [r \in Request |-> "none"]

Goto(r, place) == pc' = [pc EXCEPT ![r] = place]
Reply(r, what) == /\ Goto(r, "done")
                  /\ answer' = [answer EXCEPT ![r] = what]
Replay(r) == Reply(r, IF idem[req[r].key] = req[r] THEN "replayed" ELSE "conflict")
KeyTaken(r) == req[r].key # NoKey /\ idem[req[r].key] # Unused

Submit(r) ==
  /\ pc[r] = "idle"
  /\ \E body \in Body :
       /\ body.op = "record" => body.members = {}
       /\ req' = [req EXCEPT ![r] = body]
  /\ Goto(r, "key")
  /\ UNCHANGED <<tables, locals, answer>>

\* Mutant: the key reserved before the work, and left there if it fails.
FindKeyReserves(r) ==
  /\ pc[r] = "key" /\ ConnectionFree
  /\ IF KeyTaken(r)
     THEN Replay(r) /\ UNCHANGED idem
     ELSE /\ Goto(r, "match") /\ UNCHANGED answer
          /\ idem' = IF req[r].key = NoKey THEN idem ELSE [idem EXCEPT ![req[r].key] = req[r]]
  /\ UNCHANGED <<status, roster, events, raised, req, locals>>

\* withIdempotency looks the key up before it runs anything.
FindKey(r) ==
  /\ pc[r] = "key" /\ ConnectionFree
  /\ IF KeyTaken(r) THEN Replay(r) ELSE Goto(r, "match") /\ UNCHANGED answer
  /\ UNCHANGED <<tables, req, locals>>

\* findMatch: events and rosters are taken only while the match is in progress.
CheckStatus(r) ==
  /\ pc[r] = "match" /\ ConnectionFree
  /\ IF status = "in-progress"
     THEN Goto(r, IF req[r].op = "record" THEN "roster" ELSE "attributed") /\ UNCHANGED answer
     ELSE Goto(r, "recover") /\ UNCHANGED answer
  /\ UNCHANGED <<tables, req, locals>>

CheckRoster(r) ==
  /\ pc[r] = "roster" /\ ConnectionFree
  /\ Goto(r, IF req[r].person \in roster THEN "alerts" ELSE "recover")
  /\ UNCHANGED <<tables, req, locals, answer>>

\* publishedNotificationKeys, read ahead of the transaction.
ReadAlerts(r) ==
  /\ pc[r] = "alerts" /\ ConnectionFree
  /\ known' = [known EXCEPT ![r] = {row.alert : row \in raised}]
  /\ Goto(r, "begin")
  /\ UNCHANGED <<tables, req, claim, alerts, answer>>

Begin(r) ==
  /\ pc[r] = "begin" /\ ConnectionFree
  /\ Goto(r, "sequence")
  /\ UNCHANGED <<tables, req, locals, answer>>

\* nextEventSequence runs on a second connection, while the transaction's is held.
TakeSequence(r) ==
  /\ pc[r] = "sequence" /\ ConnectionFree
  /\ claim' = [claim EXCEPT ![r] = NextSequence]
  /\ Goto(r, "insert")
  /\ UNCHANGED <<tables, req, known, alerts, answer>>

Inserted(q) == pc[q] \in {"log", "commit"}

\* Mutant: match_events without its unique index.
AppendUnconstrained(r) ==
  /\ pc[r] = "insert"
  /\ Goto(r, "log")
  /\ UNCHANGED <<tables, req, locals, answer>>

\* appendEvent: the unique index makes the second of two equal sequences wait
\* for the first transaction, and fail once that one commits.
AppendEvent(r) ==
  /\ pc[r] = "insert"
  /\ \A q \in Request \ {r} : Inserted(q) => claim[q] # claim[r]
  /\ Goto(r, IF claim[r] \in Sequences(events) THEN "recover" ELSE "log")
  /\ UNCHANGED <<tables, req, locals, answer>>

\* Mutant: the rules evaluated on the committed log alone.
EvaluateCommitted(r) ==
  /\ pc[r] = "log" /\ ConnectionFree
  /\ alerts' = [alerts EXCEPT ![r] = Due(events) \ known[r]]
  /\ Goto(r, "commit")
  /\ UNCHANGED <<tables, req, known, claim, answer>>

\* The log the rules fold: what is committed, and this event.
EvaluateRules(r) ==
  /\ pc[r] = "log" /\ ConnectionFree
  /\ alerts' = [alerts EXCEPT ![r] = Due(events \cup {OwnEvent(r)}) \ known[r]]
  /\ Goto(r, "commit")
  /\ UNCHANGED <<tables, req, known, claim, answer>>

AfterCommit(r) ==
  IF req[r].key = NoKey THEN Reply(r, "applied")
  ELSE Goto(r, "record") /\ UNCHANGED answer

CommitEvent(r) ==
  /\ pc[r] = "commit"
  /\ events' = events \cup {OwnEvent(r)}
  /\ raised' = raised \cup {[alert |-> a, cause |-> claim[r]] : a \in alerts[r]}
  /\ AfterCommit(r)
  /\ UNCHANGED <<status, roster, idem, req, locals>>
-----------------------------------------------------------------------------
\* setRosterOnce: a person an event names may not be left out ...
CheckAttributed(r) ==
  /\ pc[r] = "attributed" /\ ConnectionFree
  /\ Goto(r, IF \E e \in events : e.person \in roster \ req[r].members
             THEN "recover" ELSE "select")
  /\ UNCHANGED <<tables, req, locals, answer>>

\* ... and the selection is replaced, whatever was recorded since.
SetRoster(r) ==
  /\ pc[r] = "select" /\ ConnectionFree
  /\ roster' = req[r].members
  /\ AfterCommit(r)
  /\ UNCHANGED <<status, events, raised, idem, req, locals>>

\* The key and the response, in a transaction of their own.
RecordKey(r) ==
  /\ pc[r] = "record" /\ ConnectionFree
  /\ IF KeyTaken(r)
     THEN Goto(r, "recover") /\ UNCHANGED <<idem, answer>>
     ELSE idem' = [idem EXCEPT ![req[r].key] = req[r]] /\ Reply(r, "applied")
  /\ UNCHANGED <<status, roster, events, raised, req, locals>>

\* The wrapper's catch: the answer of whoever won the key, or the error.
Recover(r) ==
  /\ pc[r] = "recover" /\ ConnectionFree
  /\ IF KeyTaken(r) THEN Replay(r) ELSE Reply(r, "failed")
  /\ UNCHANGED <<tables, req, locals>>

\* The API process dies; an open transaction is rolled back.
Crash(r) ==
  /\ pc[r] \notin {"idle", "done", "crashed"}
  /\ Goto(r, "crashed")
  /\ UNCHANGED <<tables, req, locals, answer>>

\* Another request finalizes the match.
FinalizeMatch ==
  /\ status = "in-progress"
  /\ status' = "finalized"
  /\ UNCHANGED <<roster, events, raised, idem, pc, req, locals, answer>>

Step(r) ==
  \/ FindKey(r) \/ CheckStatus(r) \/ CheckRoster(r) \/ ReadAlerts(r)
  \/ Begin(r) \/ TakeSequence(r) \/ AppendEvent(r) \/ EvaluateRules(r) \/ CommitEvent(r)
  \/ CheckAttributed(r) \/ SetRoster(r) \/ RecordKey(r) \/ Recover(r)

Finished == \A r \in Request : pc[r] \in {"done", "crashed"}

Next == \/ \E r \in Request : Submit(r) \/ Step(r) \/ Crash(r)
        \/ FinalizeMatch
        \/ Finished /\ UNCHANGED vars

Spec     == Init /\ [][Next]_vars
FairSpec == Spec /\ \A r \in Request : WF_vars(Step(r))
-----------------------------------------------------------------------------
(***************************************************************************)
(* What holds.                                                             *)
(***************************************************************************)

\* Every committed event has a sequence of its own, and the sequences are
\* 1, 2, ... n: an event number is never skipped and never shared, although
\* the number is read outside the transaction that uses it.
LogGapFree ==
  /\ \A e, f \in events : e.seq = f.seq => e = f
  /\ \A e \in events : \A n \in 1..e.seq : \E f \in events : f.seq = n

\* No crossing is missed: whatever alert the committed log calls for has been
\* raised, by an event of that log, although every transaction evaluates the
\* rules on its own view of the log.
NoAlertMissed ==
  \A a \in Due(events) : \E row \in raised :
    row.alert = a /\ row.cause \in Sequences(events)

\* A key is stored, and an answer replayed, only for work that was committed.
StoredKeyIsDone ==
  /\ \A k \in Key : (idem[k] # Unused /\ idem[k].op = "record")
                      => \E e \in events : e.key = k /\ e.person = idem[k].person
  /\ \A r \in Request : answer[r] = "replayed" => idem[req[r].key] = req[r]

\* Every request ends: no recorder waits for ever on an index entry or on a
\* connection, as long as the pool is larger than the requests in flight.
EveryRequestEnds ==
  \A r \in Request : pc[r] # "idle" ~> pc[r] \in {"done", "crashed"}
==================================================================================
