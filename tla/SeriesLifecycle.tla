----------------------------- MODULE SeriesLifecycle -----------------------------
(***************************************************************************)
(* One fixture's best-of series: its games, the results that decide it,    *)
(* the surplus games a decision anuls and the ones a correction reinstates.*)
(*                                                                         *)
(* start and finalize come from the live console, load is the submission   *)
(* of a whole game afterwards (bulkLoad, whose segments and events are     *)
(* left out), correct supersedes a result.  Each reads its game outside a  *)
(* transaction and then runs READ COMMITTED: a SELECT sees what is         *)
(* committed when it runs, and an UPDATE by id waits for the row's lock,   *)
(* whatever the row became since it was read.  Keys, segments and          *)
(* projections are MatchCommands' subject.                                 *)
(***************************************************************************)
EXTENDS Integers, FiniteSets

CONSTANTS
  Span,       \* the games of the series
  Side,       \* the two entrants
  Draw,       \* the outcome of a game nobody won
  NoResult,   \* matches.result is null
  Request,    \* the HTTP requests that may be in flight
  Nobody,     \* no transaction holds the lock
  Operation   \* the operations the clients of this instance send

Game       == 1..Span
Outcome    == Side \cup {Draw}
Status     == {"scheduled", "in-progress", "finalized", "not-required"}
AnyOperation == {"start", "finalize", "load", "correct"}

ASSUME SpanAssumption      == Span \in Nat \ {0}
ASSUME OutcomeAssumption   == Draw \notin Side /\ NoResult \notin Outcome
ASSUME RequestAssumption   == Nobody \notin Request
ASSUME OperationAssumption == Operation # {} /\ Operation \subseteq AnyOperation

VARIABLES
  status,   \* committed matches.status of every game
  result,   \* committed matches.result: who won it
  lock,     \* row locks of open transactions
  pc,       \* where each request's handler is
  req,      \* what the request asks for
  wanted,   \* the numbers its handler has decided to anul or reinstate
  rows      \* the games its SELECT found among them

tables == <<status, result>>
vars   == <<tables, lock, pc, req, wanted, rows>>

\* rosters: does a load name any roster rows?
Body  == [op : Operation, game : Game, outcome : Outcome, rosters : BOOLEAN]
Place == {"idle", "outlook", "transaction", "update", "resolve", "select", "mark",
          "commit", "applied", "refused", "crashed"}
Ended == {"applied", "refused", "crashed"}

TypeOK ==
  /\ status \in [Game -> Status]
  /\ result \in [Game -> Outcome \cup {NoResult}]
  /\ lock \in [Game -> Request \cup {Nobody}]
  /\ pc \in [Request -> Place]
  /\ req \in [Request -> Body]
  /\ wanted \in [Request -> SUBSET Game]
  /\ rows \in [Request -> SUBSET Game]
  /\ \A r \in Request : pc[r] = "mark" => rows[r] # {}
-----------------------------------------------------------------------------
(***************************************************************************)
(* resolveSeries for the class best-of, over the games it is shown.        *)
(***************************************************************************)
\* Mutant: half of the games, rounded down, already wins the series.
TargetWinsHalf == Span \div 2
TargetWins     == Span \div 2 + 1

Finalized(stat, res) == {g \in Game : stat[g] = "finalized" /\ res[g] # NoResult}

\* Mutant: a draw counts for both sides.
WinsOrDraws(side, stat, res) == {g \in Finalized(stat, res) : res[g] \in {side, Draw}}
Wins(side, stat, res)        == {g \in Finalized(stat, res) : res[g] = side}

Decided(stat, res) ==
  \E side \in Side : Cardinality(Wins(side, stat, res)) >= TargetWins

\* The games a decided series no longer needs: those above the last one played.
Surplus(stat, res) ==
  IF Decided(stat, res)
  THEN {g \in Game : \A played \in Finalized(stat, res) : played < g}
  ELSE {}

\* guaranteedMatchCount: the games no result can make superfluous.
GuaranteedCount == (Span + 2) \div 2
-----------------------------------------------------------------------------
\* A series as the console finds it: its first games played, not yet decided.
Init ==
  /\ status \in [Game -> Status \ {"not-required"}]
  /\ result \in [Game -> Outcome \cup {NoResult}]
  /\ \A g \in Game : status[g] = "finalized" <=> result[g] # NoResult
  /\ \A g, h \in Game : status[g] = "finalized" /\ h < g => status[h] = "finalized"
  /\ ~ Decided(status, result)
  /\ lock = [g \in Game |-> Nobody]
  /\ pc = [r \in Request |-> "idle"]
  /\ req \in [Request -> {CHOOSE b \in Body : TRUE}]
  /\ wanted = [r \in Request |-> {}]
  /\ rows = [r \in Request |-> {}]

Goto(r, place) == pc' = [pc EXCEPT ![r] = place]

\* What the handler asks of the match it reads first.
Accepts(body) ==
  CASE body.op = "start"    -> status[body.game] = "scheduled"
    [] body.op = "finalize" -> status[body.game] = "in-progress"
    [] body.op = "load"     -> status[body.game] # "not-required" /\ result[body.game] = NoResult
    [] body.op = "correct"  -> result[body.game] # NoResult

\* A request arrives and its handler reads the match.  (A start has no outcome:
\* its body carries Draw.  A correction that names the outcome recorded changes
\* its statistics.)
Begin(r) ==
  /\ pc[r] = "idle"
  /\ \E body \in Body :
       IF Accepts(body)
       THEN /\ body.op = "start" => body.outcome = Draw
            /\ body.rosters => body.op = "load"
            /\ req' = [req EXCEPT ![r] = body]
            /\ Goto(r, IF body.op = "correct" THEN "outlook" ELSE "transaction")
       ELSE Goto(r, "refused") /\ UNCHANGED req
  /\ UNCHANGED <<tables, lock, wanted, rows>>

\* previewSeriesCorrection: resolved as the record stands and with the
\* replacement put in; becomingScheduled is what the correction will reinstate.
Outlook(r) ==
  /\ pc[r] = "outlook"
  /\ LET g == req[r].game IN
       wanted' = [wanted EXCEPT ![r] =
                    Surplus(status, result)
                    \ Surplus([status EXCEPT ![g] = "finalized"],
                              [result EXCEPT ![g] = req[r].outcome])]
  /\ Goto(r, "transaction")
  /\ UNCHANGED <<tables, lock, req, rows>>

\* The end of a request either way: its locks are free, its variables gone.
End(r, place) ==
  /\ lock' = [g \in Game |-> IF lock[g] = r THEN Nobody ELSE lock[g]]
  /\ wanted' = [wanted EXCEPT ![r] = {}]
  /\ rows' = [rows EXCEPT ![r] = {}]
  /\ Goto(r, place)

Refuse(r) == End(r, "refused") /\ UNCHANGED <<tables, req>>

\* A load upserts the game's rosters first, if it brings any; until the
\* transaction that holds them ends, another load that brings them waits.
RostersHeld(q) == req[q].rosters /\ pc[q] \in {"update", "commit"}

\* The SELECT applyCommand, recordResult and supersedeResult begin with.
TxRead(r) ==
  /\ pc[r] = "transaction"
  /\ req[r].rosters =>
       \A q \in Request : RostersHeld(q) => req[q].game # req[r].game
  /\ LET g == req[r].game IN
     IF CASE req[r].op = "load"    -> result[g] # NoResult
          [] req[r].op = "correct" -> result[g] = NoResult
          [] OTHER                 -> status[g] = "finalized"
     THEN Refuse(r)
     ELSE Goto(r, "update") /\ UNCHANGED <<tables, lock, req, wanted, rows>>

\* Their UPDATE of the game's row by its id alone.  finalize then reads the row
\* it holds once more, and undoes everything over a result (recordResult).
TxUpdate(r) ==
  /\ pc[r] = "update"
  /\ LET g == req[r].game IN
       /\ lock[g] = Nobody
       /\ IF req[r].op = "finalize" /\ result[g] # NoResult
          THEN Refuse(r)
          ELSE /\ lock' = [lock EXCEPT ![g] = r]
               /\ Goto(r, CASE req[r].op = "finalize" -> "resolve"
                            [] req[r].op = "correct" /\ wanted[r] # {} -> "select"
                            [] OTHER -> "commit")
               /\ UNCHANGED <<tables, req, wanted, rows>>

\* anullSurplusOf: the series as it is committed, and this transaction's result.
Resolve(r) ==
  /\ pc[r] = "resolve"
  /\ LET g == req[r].game
         surplus == Surplus([status EXCEPT ![g] = "finalized"],
                            [result EXCEPT ![g] = req[r].outcome])
     IN  /\ wanted' = [wanted EXCEPT ![r] = surplus]
         /\ Goto(r, IF surplus = {} THEN "commit" ELSE "select")
  /\ UNCHANGED <<tables, lock, req, rows>>

Anulls(r)     == req[r].op = "finalize"
FromStatus(r) == IF Anulls(r) THEN "scheduled" ELSE "not-required"
Found(r)      == {g \in wanted[r] : status[g] = FromStatus(r)}

\* Mutant: the UPDATE is sent for no row at all.
SelectAnyway(r) ==
  /\ pc[r] = "select"
  /\ rows' = [rows EXCEPT ![r] = Found(r)]
  /\ Goto(r, "mark")
  /\ UNCHANGED <<tables, lock, req, wanted>>

\* The SELECT of anullSurplusMatches and of reinstateAnulledMatches.
Select(r) ==
  /\ pc[r] = "select"
  /\ rows' = [rows EXCEPT ![r] = Found(r)]
  /\ Goto(r, IF Found(r) = {} THEN "commit" ELSE "mark")
  /\ UNCHANGED <<tables, lock, req, wanted>>

\* Their UPDATE, by the ids found and nothing else.
Mark(r) ==
  /\ pc[r] = "mark"
  /\ \A g \in rows[r] : lock[g] \in {Nobody, r}
  /\ lock' = [g \in Game |-> IF g \in rows[r] THEN r ELSE lock[g]]
  /\ Goto(r, "commit")
  /\ UNCHANGED <<tables, req, wanted, rows>>

CommitStatus(r) ==
  status' = [g \in Game |->
    CASE g \in rows[r] -> IF Anulls(r) THEN "not-required" ELSE "scheduled"
      [] g \notin rows[r] /\ g = req[r].game /\ req[r].op = "start" -> "in-progress"
      [] g \notin rows[r] /\ g = req[r].game /\ req[r].op \in {"finalize", "load"} -> "finalized"
      [] OTHER -> status[g]]

CommitResult(r) ==
  result' = IF req[r].op = "start" THEN result
            ELSE [result EXCEPT ![req[r].game] = req[r].outcome]

Commit(r) ==
  /\ pc[r] = "commit"
  /\ CommitStatus(r)
  /\ CommitResult(r)
  /\ End(r, "applied")
  /\ UNCHANGED req

\* The API process serving r dies; the database rolls its transaction back.
Crash(r) ==
  /\ pc[r] \notin {"idle"} \cup Ended
  /\ End(r, "crashed")
  /\ UNCHANGED <<tables, req>>

Step(r) == \/ Outlook(r) \/ TxRead(r) \/ TxUpdate(r) \/ Resolve(r)
           \/ Select(r) \/ Mark(r) \/ Commit(r)

Quiet == \A r \in Request : pc[r] \in Ended

Next == \/ \E r \in Request : Begin(r) \/ Step(r) \/ Crash(r)
        \/ Quiet /\ UNCHANGED vars

Spec == Init /\ [][Next]_vars
-----------------------------------------------------------------------------
(***************************************************************************)
(* What holds.                                                             *)
(***************************************************************************)

\* The games guaranteedMatchCount promises (to the schedule builder, which
\* places them as certain) are never anulled, in whatever order games are
\* played, corrected and finalized at once.
GuaranteedKept == \A g \in Game : status[g] = "not-required" => g > GuaranteedCount

HasMajority(side) == 2 * Cardinality({g \in Game : result[g] = side}) > Span
Wrote(r)          == pc[r] = "applied" /\ req[r].op # "start"
Superseded        == \E r \in Request : Wrote(r) /\
                       \/ req[r].op = "correct"
                       \/ \E q \in Request \ {r} : Wrote(q) /\ req[q].game = req[r].game

\* "A series still alive anulls nothing": as long as no recorded result was
\* replaced by another, a game is anulled only once a side holds more than half
\* of the series' games, whichever games are finalized at once.
AnulledForAReason ==
  (\E g \in Game : status[g] = "not-required") => Superseded \/ \E side \in Side : HasMajority(side)
==================================================================================
