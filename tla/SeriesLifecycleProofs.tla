-------------------------- MODULE SeriesLifecycleProofs --------------------------
(***************************************************************************)
(* What holds of SeriesLifecycle for every span, however many requests     *)
(* start, finalize, load and correct its games at once.                    *)
(***************************************************************************)
EXTENDS SeriesLifecycle, TLAPS, FiniteSetTheorems

\* A decided series' surplus lies beyond the guaranteed games: the last game
\* played has at least the number of the wins that decided it.
LEMMA SurplusIsLate ==
  ASSUME NEW stat, NEW res, NEW g \in Surplus(stat, res)
  PROVE  g > GuaranteedCount
<1>1. g \in Game /\ \A played \in Finalized(stat, res) : played < g
  BY DEF Surplus
<1>2. PICK side \in Side : Cardinality(Wins(side, stat, res)) >= TargetWins
  BY DEF Surplus, Decided
<1>3. g \in Int /\ 1 <= g
  BY <1>1, SpanAssumption DEF Game
<1>4. Wins(side, stat, res) \in SUBSET (1..(g - 1))
  BY <1>1, <1>3, SpanAssumption DEF Wins, Finalized, Game
<1>5. IsFiniteSet(1..(g - 1)) /\ Cardinality(1..(g - 1)) = g - 1
  BY <1>3, FS_Interval
<1>6. /\ IsFiniteSet(Wins(side, stat, res))
      /\ Cardinality(Wins(side, stat, res)) <= g - 1
  BY <1>4, <1>5, FS_Subset
<1>7. Cardinality(Wins(side, stat, res)) \in Nat
  BY <1>6, FS_CardinalityType
<1>8. Span \in Nat /\ Span \div 2 + 1 <= g - 1
  BY <1>2, <1>3, <1>6, <1>7, SpanAssumption DEF TargetWins
<1>9. (Span + 2) \div 2 = Span \div 2 + 1
  BY SpanAssumption
<1> QED BY <1>3, <1>8, <1>9 DEF GuaranteedCount

LEMMA SurplusOfGames == ASSUME NEW stat, NEW res PROVE Surplus(stat, res) \in SUBSET Game
BY DEF Surplus

USE DEF tables
-----------------------------------------------------------------------------
(***************************************************************************)
(* Type correctness, one lemma for the ways a request can end.             *)
(***************************************************************************)
LEMMA TypeInit == Init => TypeOK
<1> SUFFICES ASSUME Init PROVE TypeOK
  OBVIOUS
<1>1. \E b \in Body : TRUE
  <2>1. PICK op \in Operation : TRUE
    BY OperationAssumption
  <2>2. [op |-> op, game |-> 1, outcome |-> Draw, rosters |-> FALSE] \in Body
    BY SpanAssumption DEF Body, Game, Outcome
  <2> QED BY <2>2
<1>2. req \in [Request -> Body]
  BY <1>1 DEF Init
<1> QED BY <1>2 DEF Init, TypeOK, Place, Status

LEMMA EndType ==
  ASSUME TypeOK, NEW r \in Request, NEW place \in {"applied", "refused", "crashed"},
         End(r, place)
  PROVE  /\ lock' \in [Game -> Request \cup {Nobody}]
         /\ pc' \in [Request -> Place]
         /\ wanted' \in [Request -> SUBSET Game]
         /\ rows' \in [Request -> SUBSET Game]
         /\ \A q \in Request : pc'[q] = "mark" => rows'[q] # {}
BY DEF End, Goto, TypeOK, Place

LEMMA RefuseType == ASSUME TypeOK, NEW r \in Request, Refuse(r) PROVE TypeOK'
BY EndType DEF Refuse, TypeOK

LEMMA CrashType == ASSUME TypeOK, NEW r \in Request, Crash(r) PROVE TypeOK'
BY EndType DEF Crash, TypeOK

LEMMA BeginType == ASSUME TypeOK, NEW r \in Request, Begin(r) PROVE TypeOK'
BY DEF Begin, TypeOK, Goto, Place

LEMMA OutlookType == ASSUME TypeOK, NEW r \in Request, Outlook(r) PROVE TypeOK'
<1>1. wanted' \in [Request -> SUBSET Game]
  BY SurplusOfGames DEF Outlook, TypeOK
<1> QED BY <1>1 DEF Outlook, TypeOK, Goto, Place

LEMMA TxReadType == ASSUME TypeOK, NEW r \in Request, TxRead(r) PROVE TypeOK'
<1>1. Refuse(r) \/ (Goto(r, "update") /\ UNCHANGED <<tables, lock, req, wanted, rows>>)
  BY DEF TxRead
<1> QED BY <1>1, RefuseType DEF TypeOK, Goto, Place

LEMMA TxUpdateType == ASSUME TypeOK, NEW r \in Request, TxUpdate(r) PROVE TypeOK'
<1>1. CASE Refuse(r)
  BY <1>1, RefuseType
<1>2. CASE ~ Refuse(r)
  <2>1. \E place \in {"resolve", "select", "commit"} : pc' = [pc EXCEPT ![r] = place]
    BY <1>2 DEF TxUpdate, Goto
  <2>2. /\ lock' = [lock EXCEPT ![req[r].game] = r]
        /\ UNCHANGED <<tables, req, wanted, rows>>
    BY <1>2 DEF TxUpdate
  <2> QED BY <2>1, <2>2 DEF TypeOK, Place
<1> QED BY <1>1, <1>2

LEMMA ResolveType == ASSUME TypeOK, NEW r \in Request, Resolve(r) PROVE TypeOK'
<1>1. wanted' \in [Request -> SUBSET Game]
  BY SurplusOfGames DEF Resolve, TypeOK
<1>2. \E place \in {"select", "commit"} : pc' = [pc EXCEPT ![r] = place]
  BY DEF Resolve, Goto
<1> QED BY <1>1, <1>2 DEF Resolve, TypeOK, Place

LEMMA SelectType == ASSUME TypeOK, NEW r \in Request, Select(r) PROVE TypeOK'
<1>1. Found(r) \in SUBSET Game /\ rows' = [rows EXCEPT ![r] = Found(r)]
  BY DEF Select, Found, TypeOK
<1>2. \/ pc' = [pc EXCEPT ![r] = "commit"]
      \/ pc' = [pc EXCEPT ![r] = "mark"] /\ Found(r) # {}
  BY DEF Select, Goto
<1> QED BY <1>1, <1>2 DEF Select, TypeOK, Place

LEMMA MarkType == ASSUME TypeOK, NEW r \in Request, Mark(r) PROVE TypeOK'
BY DEF Mark, TypeOK, Goto, Place

LEMMA CommitType == ASSUME TypeOK, NEW r \in Request, Commit(r) PROVE TypeOK'
<1>1. status' \in [Game -> Status]
  BY DEF Commit, CommitStatus, TypeOK, Status
<1>2. result' \in [Game -> Outcome \cup {NoResult}]
  BY DEF Commit, CommitResult, TypeOK, Body
<1>3. End(r, "applied") /\ req' = req
  BY DEF Commit
<1> QED BY <1>1, <1>2, <1>3, EndType DEF TypeOK

LEMMA TypeNext == TypeOK /\ [Next]_vars => TypeOK'
<1> SUFFICES ASSUME TypeOK, [Next]_vars PROVE TypeOK'
  OBVIOUS
<1>1. CASE UNCHANGED vars
  BY <1>1 DEF TypeOK, vars
<1>2. CASE \E r \in Request : Begin(r) \/ Step(r) \/ Crash(r)
  BY <1>2, BeginType, OutlookType, TxReadType, TxUpdateType, ResolveType, SelectType,
     MarkType, CommitType, CrashType DEF Step
<1> QED BY <1>1, <1>2 DEF Next

\* Games, locks and requests hold values of their types, and no UPDATE of
\* surplus games is sent without one, whatever is requested at once.
THEOREM TypeCorrect == Spec => []TypeOK
<1>1. Init => TypeOK
  BY TypeInit
<1>2. TypeOK /\ [Next]_vars => TypeOK'
  BY TypeNext
<1> QED BY <1>1, <1>2, PTL DEF Spec
-----------------------------------------------------------------------------
(***************************************************************************)
(* The guaranteed games.  A handler that anuls works from a plan it made   *)
(* earlier, on a series that may look different now: what is inductive is  *)
(* that no such plan, once made, reaches a guaranteed game.                *)
(***************************************************************************)
Late(S) == \A g \in S : g > GuaranteedCount

PlansAreLate ==
  \A r \in Request : /\ pc[r] = "idle" => wanted[r] = {} /\ rows[r] = {}
                     /\ Anulls(r) => Late(wanted[r]) /\ Late(rows[r])
                     /\ Anulls(r) => pc[r] # "outlook"

Guarded == TypeOK /\ PlansAreLate /\ GuaranteedKept

LEMMA GuardedInit == Init => Guarded
<1> SUFFICES ASSUME Init PROVE Guarded
  OBVIOUS
<1>1. PlansAreLate /\ GuaranteedKept
  BY DEF Init, PlansAreLate, GuaranteedKept, Late
<1> QED BY <1>1, TypeInit DEF Guarded

\* A request that ends has no plan left.
LEMMA EndLate ==
  ASSUME Guarded, NEW r \in Request, NEW place \in {"applied", "refused", "crashed"},
         End(r, place), UNCHANGED req
  PROVE  PlansAreLate'
BY DEF Guarded, TypeOK, PlansAreLate, End, Goto, Anulls, Late

\* A step that leaves the games and every plan alone.
LEMMA SamePlans ==
  ASSUME Guarded, NEW r \in Request, NEW place \in Place \ {"idle", "outlook"},
         Goto(r, place), UNCHANGED <<req, wanted, rows>>
  PROVE  PlansAreLate'
BY DEF Guarded, TypeOK, PlansAreLate, Goto, Anulls, Late

\* A step that sets one handler's plan, to late games if it will anul them.
LEMMA NewPlan ==
  ASSUME Guarded, NEW r \in Request, NEW place \in Place \ {"idle", "outlook"},
         Goto(r, place), req' = req,
         NEW S \in SUBSET Game, Anulls(r) => Late(S),
         \/ wanted' = [wanted EXCEPT ![r] = S] /\ rows' = rows
         \/ wanted' = wanted /\ rows' = [rows EXCEPT ![r] = S]
  PROVE  PlansAreLate'
BY DEF Guarded, TypeOK, PlansAreLate, Goto, Anulls, Late

LEMMA BeginLate == ASSUME Guarded, NEW r \in Request, Begin(r) PROVE PlansAreLate'
<1>1. /\ pc[r] = "idle" /\ UNCHANGED <<wanted, rows>>
      /\ \E body \in Body :
           \/ /\ req' = [req EXCEPT ![r] = body]
              /\ Goto(r, IF body.op = "correct" THEN "outlook" ELSE "transaction")
           \/ req' = req /\ Goto(r, "refused")
  BY DEF Begin
<1>2. wanted[r] = {} /\ rows[r] = {}
  BY <1>1 DEF Guarded, PlansAreLate
<1> QED BY <1>1, <1>2 DEF Guarded, TypeOK, PlansAreLate, Goto, Anulls, Late, Body

LEMMA PlansNext ==
  ASSUME Guarded, NEW r \in Request, Begin(r) \/ Step(r) \/ Crash(r)
  PROVE  PlansAreLate'
<1>1. CASE Begin(r)
  BY <1>1, BeginLate
<1>2. CASE Outlook(r)
  <2>1. ~ Anulls(r)
    BY <1>2 DEF Outlook, Guarded, PlansAreLate
  <2>2. \E S \in SUBSET Game : wanted' = [wanted EXCEPT ![r] = S]
    BY <1>2, SurplusOfGames DEF Outlook
  <2> QED BY <1>2, <2>1, <2>2, NewPlan DEF Outlook, Place
<1>3. CASE TxRead(r)
  <2>1. Refuse(r) \/ (Goto(r, "update") /\ UNCHANGED <<req, wanted, rows>>)
    BY <1>3 DEF TxRead
  <2> QED BY <2>1, EndLate, SamePlans DEF Refuse, Place
<1>4. CASE TxUpdate(r)
  <2>1. \/ Refuse(r)
        \/ /\ \E place \in {"resolve", "select", "commit"} : Goto(r, place)
           /\ UNCHANGED <<req, wanted, rows>>
    BY <1>4 DEF TxUpdate
  <2> QED BY <2>1, EndLate, SamePlans DEF Refuse, Place
<1>5. CASE Resolve(r)
  <2>1. PICK stat, res : wanted' = [wanted EXCEPT ![r] = Surplus(stat, res)]
    BY <1>5 DEF Resolve
  <2>2. Late(Surplus(stat, res)) /\ Surplus(stat, res) \in SUBSET Game
    BY SurplusIsLate, SurplusOfGames DEF Late
  <2>3. \E place \in {"select", "commit"} : Goto(r, place)
    BY <1>5 DEF Resolve
  <2>4. req' = req /\ rows' = rows
    BY <1>5 DEF Resolve
  <2> QED BY <2>1, <2>2, <2>3, <2>4, NewPlan DEF Place
<1>6. CASE Select(r)
  <2>1. Found(r) \in SUBSET wanted[r] /\ wanted[r] \in SUBSET Game
    BY DEF Found, Guarded, TypeOK
  <2>2. Anulls(r) => Late(Found(r))
    BY <2>1 DEF Guarded, PlansAreLate, Late
  <2>3. /\ \E place \in {"mark", "commit"} : Goto(r, place)
        /\ req' = req /\ wanted' = wanted /\ rows' = [rows EXCEPT ![r] = Found(r)]
    BY <1>6 DEF Select
  <2> QED BY <2>1, <2>2, <2>3, NewPlan DEF Place
<1>7. CASE Mark(r)
  BY <1>7, SamePlans DEF Mark, Place
<1>8. CASE Commit(r) \/ Crash(r)
  BY <1>8, EndLate DEF Commit, Crash
<1> QED BY <1>1, <1>2, <1>3, <1>4, <1>5, <1>6, <1>7, <1>8 DEF Step

LEMMA KeptNext ==
  ASSUME Guarded, NEW r \in Request, Begin(r) \/ Step(r) \/ Crash(r)
  PROVE  GuaranteedKept'
<1>1. CASE Commit(r)
  <2> SUFFICES ASSUME NEW g \in Game, status'[g] = "not-required" PROVE g > GuaranteedCount
    BY DEF GuaranteedKept
  <2>1. (g \in rows[r] /\ Anulls(r)) \/ status[g] = "not-required"
    BY <1>1 DEF Commit, CommitStatus
  <2> QED BY <2>1 DEF Guarded, PlansAreLate, Late, GuaranteedKept
<1>2. CASE ~ Commit(r)
  <2>1. status' = status
    BY <1>2 DEF Begin, Step, Crash, Outlook, TxRead, TxUpdate, Refuse, Resolve, Select, Mark
  <2> QED BY <2>1 DEF Guarded, GuaranteedKept
<1> QED BY <1>1, <1>2

LEMMA GuardedNext == Guarded /\ [Next]_vars => Guarded'
<1> SUFFICES ASSUME Guarded, [Next]_vars PROVE Guarded'
  OBVIOUS
<1>1. TypeOK'
  BY TypeNext DEF Guarded
<1>2. PlansAreLate' /\ GuaranteedKept'
  <2>1. CASE UNCHANGED vars
    BY <2>1 DEF Guarded, PlansAreLate, GuaranteedKept, Anulls, Late, vars
  <2>2. CASE \E r \in Request : Begin(r) \/ Step(r) \/ Crash(r)
    BY <2>2, PlansNext, KeptNext
  <2> QED BY <2>1, <2>2 DEF Next
<1> QED BY <1>1, <1>2 DEF Guarded

\* No interleaving of starts, finalizations, loads and corrections, however
\* stale what each of them read, anuls a game the schedule was told is certain.
THEOREM GuaranteedGamesAreKept == Spec => []GuaranteedKept
<1>1. Init => Guarded
  BY GuardedInit
<1>2. Guarded /\ [Next]_vars => Guarded'
  BY GuardedNext
<1>3. Guarded => GuaranteedKept
  BY DEF Guarded
<1> QED BY <1>1, <1>2, <1>3, PTL DEF Spec
-----------------------------------------------------------------------------
(***************************************************************************)
(* Why a game is anulled.  A finalization keeps its game's row from its    *)
(* UPDATE on, so the result it found absent stays absent; what a load      *)
(* overwrites was written by another request.  As long as nothing was      *)
(* overwritten, the majority a plan was made on only grows.                *)
(***************************************************************************)
Holding(r) == pc[r] \in {"resolve", "select", "mark", "commit"}

\* Past its UPDATE a transaction holds its game, and a finalization's game has
\* no result but the one it brings.
GamesAreHeld ==
  \A r \in Request : Holding(r) => /\ lock[req[r].game] = r
                                   /\ Anulls(r) => result[req[r].game] = NoResult

\* A load past its check finds the game as it found it, or taken by another.
LoadsAreFirst ==
  \A r \in Request :
    (Holding(r) \/ pc[r] = "update") /\ req[r].op = "load" /\ result[req[r].game] # NoResult =>
      \E q \in Request \ {r} : Wrote(q) /\ req[q].game = req[r].game

\* The rows a transaction marks are among those it wants.
RowsAreWanted ==
  \A r \in Request : /\ pc[r] \notin {"mark", "commit"} => rows[r] = {}
                     /\ rows[r] \subseteq wanted[r]

\* The games a side will have won when r commits.
WonWith(r, side) ==
  {g \in Game : result[g] = side \/ (g = req[r].game /\ req[r].outcome = side)}

PlansHaveReason ==
  \A r \in Request :
    Anulls(r) /\ pc[r] \in {"select", "mark", "commit"} /\ wanted[r] # {} =>
      \E side \in Side : 2 * Cardinality(WonWith(r, side)) > Span

Reasoned == /\ TypeOK /\ GamesAreHeld /\ LoadsAreFirst /\ RowsAreWanted
            /\ Superseded \/ PlansHaveReason
            /\ AnulledForAReason

LEMMA ReasonedInit == Init => Reasoned
<1> SUFFICES ASSUME Init PROVE Reasoned
  OBVIOUS
<1>1. TypeOK
  BY TypeInit
<1>2. GamesAreHeld /\ LoadsAreFirst /\ RowsAreWanted /\ PlansHaveReason
  BY DEF Init, GamesAreHeld, LoadsAreFirst, RowsAreWanted, PlansHaveReason, Holding
<1>3. AnulledForAReason
  BY DEF Init, AnulledForAReason
<1> QED BY <1>1, <1>2, <1>3 DEF Reasoned

\* What a step of r leaves alone, and how its place changes.
LEMMA StepFrame ==
  ASSUME TypeOK, NEW r \in Request, Begin(r) \/ Step(r) \/ Crash(r)
  PROVE  /\ \A q \in Request \ {r} : /\ pc'[q] = pc[q] /\ req'[q] = req[q]
                                     /\ wanted'[q] = wanted[q] /\ rows'[q] = rows[q]
         /\ pc[r] \notin Ended
         /\ pc[r] # "idle" => req' = req
         /\ ~ Commit(r) => status' = status /\ result' = result /\ pc'[r] # "applied"
<1>1. CASE Begin(r)
  BY <1>1 DEF Begin, TypeOK, Goto, Ended
<1>2. ASSUME NEW place \in Place, End(r, place)
      PROVE  \A q \in Request \ {r} : /\ pc'[q] = pc[q] /\ wanted'[q] = wanted[q]
                                      /\ rows'[q] = rows[q]
  BY <1>2 DEF End, Goto, TypeOK
<1>3. ASSUME NEW place \in Place, End(r, place) PROVE pc'[r] = place
  BY <1>3 DEF End, Goto, TypeOK
<1>4. CASE Crash(r)
  BY <1>2, <1>3, <1>4 DEF Crash, Place, Ended
<1>5. CASE Refuse(r) /\ pc[r] \in {"transaction", "update"}
  BY <1>2, <1>3, <1>5 DEF Refuse, Place, Ended
<1>6. CASE Commit(r)
  BY <1>2, <1>6 DEF Commit, Place, Ended
<1>7. CASE Outlook(r) \/ Resolve(r)
  BY <1>7 DEF Outlook, Resolve, TypeOK, Goto, Ended
<1>8. CASE TxRead(r) \/ TxUpdate(r)
  <2>1. CASE ~ Refuse(r)
    <3>1. /\ \E place \in {"update", "resolve", "select", "commit"} : Goto(r, place)
          /\ pc[r] \in {"transaction", "update"}
          /\ UNCHANGED <<tables, req, wanted, rows>>
      BY <1>8, <2>1 DEF TxRead, TxUpdate
    <3> QED BY <3>1 DEF TypeOK, Goto, Ended
  <2>2. pc[r] \in {"transaction", "update"}
    BY <1>8 DEF TxRead, TxUpdate
  <2> QED BY <1>5, <2>1, <2>2
<1>9. CASE Select(r) \/ Mark(r)
  BY <1>9 DEF Select, Mark, TypeOK, Goto, Ended
<1> QED BY <1>1, <1>4, <1>6, <1>7, <1>8, <1>9 DEF Step

\* What was applied stays applied, and what was replaced stays replaced.
LEMMA WroteStays ==
  ASSUME TypeOK, NEW r \in Request, Begin(r) \/ Step(r) \/ Crash(r)
  PROVE  /\ \A q \in Request : Wrote(q) => q # r /\ Wrote(q)' /\ req'[q] = req[q]
         /\ Superseded => Superseded'
<1>1. \A q \in Request : Wrote(q) => q # r /\ Wrote(q)' /\ req'[q] = req[q]
  BY StepFrame DEF Wrote, Ended
<1> QED BY <1>1 DEF Superseded

\* Who commits holds its game, and so nobody else does.
LEMMA HeldByOne ==
  ASSUME GamesAreHeld, NEW q \in Request, NEW r \in Request, Holding(q), Holding(r),
         req[q].game = req[r].game
  PROVE  q = r
BY DEF GamesAreHeld

\* Where r may be next, and what it may hold.
LEMMA LocksFrame ==
  ASSUME Reasoned, NEW r \in Request, Begin(r) \/ Step(r) \/ Crash(r)
  PROVE  /\ \A q \in Request \ {r} : Holding(q) => lock'[req[q].game] = q
         /\ Holding(r)' => lock'[req[r].game] = r /\ req' = req
         /\ Holding(r)' /\ ~ Holding(r) => pc[r] = "update" /\ (Anulls(r) => result[req[r].game] = NoResult)
<1>1. \A q \in Request : Holding(q) => lock[req[q].game] = q /\ req[q].game \in Game
  BY DEF Reasoned, GamesAreHeld, TypeOK, Body
<1>2. ASSUME NEW place \in {"applied", "refused", "crashed"}, End(r, place)
      PROVE  /\ \A q \in Request \ {r} : Holding(q) => lock'[req[q].game] = q
             /\ ~ Holding(r)'
  BY <1>1, <1>2 DEF End, Goto, Reasoned, TypeOK, Holding
<1>3. CASE Crash(r) \/ Commit(r) \/ Refuse(r)
  BY <1>2, <1>3 DEF Crash, Commit, Refuse
<1>4. CASE Begin(r) \/ Outlook(r)
  <2>1. lock' = lock /\ pc'[r] \in {"outlook", "transaction", "refused"}
    BY <1>4 DEF Begin, Outlook, Goto, Reasoned, TypeOK
  <2> QED BY <1>1, <2>1 DEF Holding
<1>5. CASE TxRead(r) /\ ~ Refuse(r)
  <2>1. lock' = lock /\ pc'[r] = "update"
    BY <1>5 DEF TxRead, Goto, Reasoned, TypeOK
  <2> QED BY <1>1, <2>1 DEF Holding
<1>6. CASE TxUpdate(r) /\ ~ Refuse(r)
  <2>1. /\ lock[req[r].game] = Nobody /\ lock' = [lock EXCEPT ![req[r].game] = r]
        /\ pc[r] = "update" /\ req' = req
        /\ Anulls(r) => result[req[r].game] = NoResult
    BY <1>6 DEF TxUpdate, Anulls
  <2>2. lock \in [Game -> Request \cup {Nobody}] /\ req[r].game \in Game
    BY DEF Reasoned, TypeOK, Body
  <2>3. \A q \in Request : Holding(q) => req[q].game # req[r].game
    BY <1>1, <2>1, RequestAssumption
  <2> QED BY <1>1, <2>1, <2>2, <2>3
<1>7. CASE Resolve(r) \/ Select(r)
  <2>1. lock' = lock /\ req' = req /\ Holding(r)
    BY <1>7 DEF Resolve, Select, Holding
  <2> QED BY <1>1, <2>1
<1>8. CASE Mark(r)
  <2>1. /\ \A g \in rows[r] : lock[g] \in {Nobody, r}
        /\ lock' = [g \in Game |-> IF g \in rows[r] THEN r ELSE lock[g]]
        /\ req' = req /\ Holding(r)
    BY <1>8 DEF Mark, Holding
  <2> QED BY <1>1, <2>1, RequestAssumption
<1> QED BY <1>3, <1>4, <1>5, <1>6, <1>7, <1>8 DEF Step

\* A commit brings its game's result and no other.
LEMMA CommitBrings ==
  ASSUME TypeOK, NEW r \in Request, Commit(r)
  PROVE  /\ \A g \in Game : result'[g] = result[g] \/ (g = req[r].game /\ result'[g] = req[r].outcome)
         /\ req[r].op # "start" => result'[req[r].game] = req[r].outcome /\ Wrote(r)'
         /\ req[r].op = "start" => result' = result
<1>1. /\ result \in [Game -> Outcome \cup {NoResult}] /\ req[r].game \in Game
      /\ result' = IF req[r].op = "start" THEN result
                   ELSE [result EXCEPT ![req[r].game] = req[r].outcome]
  BY DEF TypeOK, Body, Commit, CommitResult
<1>2. pc'[r] = "applied" /\ req' = req
  BY DEF Commit, End, Goto, TypeOK
<1> QED BY <1>1, <1>2 DEF Wrote

\* As long as nothing is replaced, a result once there stays.
LEMMA ResultsStay ==
  ASSUME Reasoned, NEW r \in Request, Begin(r) \/ Step(r) \/ Crash(r), ~ Superseded'
  PROVE  \A g \in Game : result[g] # NoResult => result'[g] = result[g]
<1>1. CASE Commit(r) /\ req[r].op # "start"
  <2>1. pc[r] = "commit" /\ req' = req /\ Wrote(r)' /\ req[r].op \in {"finalize", "load", "correct"}
    BY <1>1, CommitBrings, OperationAssumption DEF Commit, Reasoned, TypeOK, Body, AnyOperation
  <2>2. req[r].op # "correct"
    BY <2>1 DEF Superseded
  <2>3. result[req[r].game] = NoResult
    <3>1. CASE req[r].op = "finalize"
      BY <2>1, <3>1 DEF Reasoned, GamesAreHeld, Holding, Anulls
    <3>2. CASE req[r].op = "load" /\ result[req[r].game] # NoResult
      <4>1. PICK q \in Request \ {r} : Wrote(q) /\ req[q].game = req[r].game
        BY <2>1, <3>2 DEF Reasoned, LoadsAreFirst, Holding
      <4> QED BY <2>1, <4>1, WroteStays DEF Superseded, Reasoned
    <3> QED BY <2>1, <2>2, <3>1, <3>2
  <2> QED BY <1>1, <2>3, CommitBrings DEF Reasoned
<1>2. CASE ~ Commit(r) \/ req[r].op = "start"
  BY <1>2, StepFrame, CommitBrings DEF Reasoned
<1> QED BY <1>1, <1>2

LEMMA HeldNext ==
  ASSUME Reasoned, NEW r \in Request, Begin(r) \/ Step(r) \/ Crash(r)
  PROVE  GamesAreHeld'
<1> SUFFICES ASSUME NEW q \in Request, Holding(q)'
             PROVE  /\ lock'[req'[q].game] = q
                    /\ Anulls(q)' => result'[req'[q].game] = NoResult
  BY DEF GamesAreHeld
<1>1. CASE q = r
  <2>1. lock'[req[r].game] = r /\ req' = req
    BY <1>1, LocksFrame
  <2>2. ~ Commit(r)
    BY <1>1 DEF Commit, End, Goto, Holding, Reasoned, TypeOK
  <2>3. result' = result
    BY <2>2, StepFrame DEF Reasoned
  <2>4. Anulls(r) => result[req[r].game] = NoResult
    BY <1>1, LocksFrame DEF Reasoned, GamesAreHeld
  <2> QED BY <1>1, <2>1, <2>3, <2>4 DEF Anulls
<1>2. CASE q # r
  <2>1. Holding(q) /\ req'[q] = req[q]
    BY <1>2, StepFrame DEF Reasoned, Holding
  <2>2. lock'[req[q].game] = q /\ (Anulls(q) => result[req[q].game] = NoResult)
    BY <1>2, <2>1, LocksFrame DEF Reasoned, GamesAreHeld
  <2>3. result'[req[q].game] = result[req[q].game]
    <3>1. CASE Commit(r)
      <4>1. req[q].game # req[r].game /\ req[q].game \in Game
        BY <1>2, <2>1, <3>1, HeldByOne DEF Reasoned, Commit, Holding, TypeOK, Body
      <4> QED BY <3>1, <4>1, CommitBrings DEF Reasoned
    <3>2. CASE ~ Commit(r)
      BY <3>2, StepFrame DEF Reasoned
    <3> QED BY <3>1, <3>2
  <2> QED BY <2>1, <2>2, <2>3 DEF Anulls
<1> QED BY <1>1, <1>2

LEMMA LoadsNext ==
  ASSUME Reasoned, NEW r \in Request, Begin(r) \/ Step(r) \/ Crash(r)
  PROVE  LoadsAreFirst'
<1> DEFINE Loading(q) == (Holding(q) \/ pc[q] = "update") /\ req[q].op = "load"
<1>1. ASSUME NEW q \in Request, Loading(q)', result'[req'[q].game] # NoResult
      PROVE  \E p \in Request \ {q} : Wrote(p)' /\ req'[p].game = req'[q].game
  <2>1. CASE q = r
    <3>1. ~ Commit(r)
      BY <1>1, <2>1 DEF Commit, End, Goto, Holding, Reasoned, TypeOK
    <3>2. result' = result
      BY <3>1, StepFrame DEF Reasoned
    <3>3. ~ Begin(r) /\ ~ Outlook(r)
      BY <1>1, <2>1 DEF Begin, Outlook, Goto, Holding, Reasoned, TypeOK
    <3>4. ~ TxRead(r)
      <4> SUFFICES ASSUME TxRead(r) PROVE FALSE
        OBVIOUS
      <4>1. ~ Refuse(r)
        BY <1>1, <2>1 DEF Refuse, End, Goto, Holding, Reasoned, TypeOK
      <4>2. req' = req /\ (req[r].op = "load" => result[req[r].game] = NoResult)
        BY <4>1 DEF TxRead
      <4> QED BY <1>1, <2>1, <3>2, <4>2
    <3>5. Loading(r) /\ req' = req
      <4>1. req' = req /\ pc[r] \in {"update", "resolve", "select", "mark", "commit"}
        BY <1>1, <2>1, <3>1, <3>3, <3>4
           DEF Step, TxUpdate, Refuse, Resolve, Select, Mark, Crash, End, Goto, Holding, Reasoned, TypeOK
      <4> QED BY <1>1, <2>1, <4>1 DEF Holding
    <3>6. PICK p \in Request \ {r} : Wrote(p) /\ req[p].game = req[r].game
      BY <1>1, <2>1, <3>2, <3>5 DEF Reasoned, LoadsAreFirst
    <3> QED BY <2>1, <3>5, <3>6, WroteStays DEF Reasoned
  <2>2. CASE q # r
    <3>1. Loading(q) /\ req'[q] = req[q] /\ req[q].game \in Game
      BY <1>1, <2>2, StepFrame DEF Reasoned, Holding, TypeOK, Body
    <3>2. CASE result[req[q].game] # NoResult
      <4>1. PICK p \in Request \ {q} : Wrote(p) /\ req[p].game = req[q].game
        BY <3>1, <3>2 DEF Reasoned, LoadsAreFirst
      <4> QED BY <3>1, <4>1, WroteStays DEF Reasoned
    <3>3. CASE result[req[q].game] = NoResult
      <4>1. Commit(r)
        BY <1>1, <3>1, <3>3, StepFrame DEF Reasoned
      <4>2. req[r].op # "start" /\ req[q].game = req[r].game
        BY <1>1, <3>1, <3>3, <4>1, CommitBrings DEF Reasoned
      <4>3. Wrote(r)' /\ req' = req
        BY <4>1, <4>2, CommitBrings DEF Reasoned, Commit
      <4> QED BY <2>2, <4>2, <4>3
    <3> QED BY <3>2, <3>3
  <2> QED BY <2>1, <2>2
<1> QED BY <1>1 DEF LoadsAreFirst

LEMMA RowsNext ==
  ASSUME Reasoned, NEW r \in Request, Begin(r) \/ Step(r) \/ Crash(r)
  PROVE  RowsAreWanted'
<1> DEFINE Kept(q) == /\ pc[q] \notin {"mark", "commit"} => rows[q] = {}
                      /\ rows[q] \subseteq wanted[q]
<1>1. \A q \in Request : Kept(q)
  BY DEF Reasoned, RowsAreWanted
<1>2. \A q \in Request \ {r} : Kept(q)'
  BY <1>1, StepFrame DEF Reasoned
<1>3. Kept(r)'
  <2>1. CASE Begin(r) \/ Outlook(r)
    <3>1. rows' = rows /\ pc[r] \in {"idle", "outlook"}
      BY <2>1 DEF Begin, Outlook
    <3> QED BY <1>1, <3>1
  <2>2. ASSUME NEW place, End(r, place) PROVE Kept(r)'
    BY <2>2 DEF End, Reasoned, TypeOK
  <2>3. CASE Refuse(r) \/ Crash(r) \/ Commit(r)
    BY <2>2, <2>3 DEF Refuse, Crash, Commit
  <2>4. CASE (TxRead(r) \/ TxUpdate(r)) /\ ~ Refuse(r)
    <3>1. rows' = rows /\ wanted' = wanted /\ pc[r] \in {"transaction", "update"}
      BY <2>4 DEF TxRead, TxUpdate
    <3> QED BY <1>1, <3>1
  <2>5. CASE Resolve(r)
    <3>1. rows' = rows /\ pc[r] = "resolve"
      BY <2>5 DEF Resolve
    <3> QED BY <1>1, <3>1
  <2>6. CASE Select(r)
    <3>1. /\ rows' = [rows EXCEPT ![r] = Found(r)] /\ wanted' = wanted
          /\ Found(r) \subseteq wanted[r]
          /\ pc' = [pc EXCEPT ![r] = "commit"] \/ pc' = [pc EXCEPT ![r] = "mark"]
      BY <2>6 DEF Select, Found, Goto
    <3> QED BY <3>1 DEF Reasoned, TypeOK
  <2>7. CASE Mark(r)
    <3>1. rows' = rows /\ wanted' = wanted /\ pc' = [pc EXCEPT ![r] = "commit"]
      BY <2>7 DEF Mark, Goto
    <3> QED BY <1>1, <3>1 DEF Reasoned, TypeOK
  <2> QED BY <2>1, <2>3, <2>4, <2>5, <2>6, <2>7 DEF Step
<1> QED BY <1>2, <1>3 DEF RowsAreWanted

\* What a side has won, it keeps; what it will have won, it then has.
LEMMA GamesFinite ==
  ASSUME NEW S \in SUBSET Game, NEW T \in SUBSET Game, S \subseteq T
  PROVE  /\ Cardinality(S) \in Nat /\ Cardinality(T) \in Nat
         /\ Cardinality(S) <= Cardinality(T)
<1>1. IsFiniteSet(Game)
  BY SpanAssumption, FS_Interval DEF Game
<1>2. IsFiniteSet(T)
  BY <1>1, FS_Subset
<1> QED BY <1>2, FS_Subset, FS_CardinalityType

LEMMA ReasonsNext ==
  ASSUME Reasoned, NEW r \in Request, Begin(r) \/ Step(r) \/ Crash(r), ~ Superseded'
  PROVE  PlansHaveReason'
<1>1. ~ Superseded /\ PlansHaveReason
  BY WroteStays DEF Reasoned
<1>2. \A g \in Game : result[g] # NoResult => result'[g] = result[g]
  BY ResultsStay
<1> SUFFICES ASSUME NEW q \in Request, Anulls(q)', pc'[q] \in {"select", "mark", "commit"}, wanted'[q] # {}
             PROVE  \E side \in Side : 2 * Cardinality(WonWith(q, side)') > Span
  BY DEF PlansHaveReason
<1>3. CASE q = r /\ Resolve(r)
  <2> DEFINE res == [result EXCEPT ![req[r].game] = req[r].outcome]
             stat == [status EXCEPT ![req[r].game] = "finalized"]
  <2>1. /\ wanted' = [wanted EXCEPT ![r] = Surplus(stat, res)] /\ req' = req /\ result' = result
    BY <1>3 DEF Resolve
  <2>2. Surplus(stat, res) # {}
    BY <1>3, <2>1 DEF Reasoned, TypeOK
  <2>3. PICK side \in Side : Cardinality(Wins(side, stat, res)) >= TargetWins
    BY <2>2 DEF Surplus, Decided
  <2>4. Wins(side, stat, res) \subseteq WonWith(r, side)'
    BY <2>1 DEF Wins, Finalized, WonWith, Reasoned, TypeOK, Body
  <2>5. Wins(side, stat, res) \in SUBSET Game /\ WonWith(r, side)' \in SUBSET Game
    BY DEF Wins, Finalized, WonWith
  <2>6. /\ Cardinality(Wins(side, stat, res)) \in Nat /\ Cardinality(WonWith(r, side)') \in Nat
        /\ Cardinality(Wins(side, stat, res)) <= Cardinality(WonWith(r, side)')
    BY <2>4, <2>5, GamesFinite
  <2> QED BY <1>3, <2>3, <2>6, SpanAssumption DEF TargetWins
<1>4. CASE ~ (q = r /\ Resolve(r))
  <2>1. /\ Anulls(q) /\ pc[q] \in {"select", "mark", "commit"} /\ wanted'[q] = wanted[q]
        /\ req'[q] = req[q] /\ (q = r => result' = result)
    <3>1. CASE q = r
      <4>1. /\ ~ Begin(r) /\ ~ Outlook(r) /\ ~ TxRead(r) /\ ~ Commit(r) /\ ~ Crash(r)
        BY <3>1 DEF Begin, Outlook, TxRead, Refuse, Commit, Crash, End, Goto, Reasoned, TypeOK
      <4>2. ~ TxUpdate(r)
        BY <3>1 DEF TxUpdate, Refuse, End, Goto, Anulls, Reasoned, TypeOK
      <4>3. Select(r) \/ Mark(r)
        BY <1>4, <3>1, <4>1, <4>2 DEF Step
      <4> QED BY <3>1, <4>3 DEF Select, Mark, Anulls
    <3>2. CASE q # r
      BY <3>2, StepFrame DEF Reasoned, Anulls
    <3> QED BY <3>1, <3>2
  <2>2. PICK side \in Side : 2 * Cardinality(WonWith(q, side)) > Span
    BY <1>1, <2>1 DEF PlansHaveReason
  <2>3. WonWith(q, side) \subseteq WonWith(q, side)'
    BY <1>2, <2>1, OutcomeAssumption DEF WonWith, Outcome
  <2>4. /\ Cardinality(WonWith(q, side)) \in Nat /\ Cardinality(WonWith(q, side)') \in Nat
        /\ Cardinality(WonWith(q, side)) <= Cardinality(WonWith(q, side)')
    <3>1. WonWith(q, side) \in SUBSET Game /\ WonWith(q, side)' \in SUBSET Game
      BY DEF WonWith
    <3> QED BY <2>3, <3>1, GamesFinite
  <2> QED BY <2>2, <2>4, SpanAssumption
<1> QED BY <1>3, <1>4

LEMMA AnulNext ==
  ASSUME Reasoned, NEW r \in Request, Begin(r) \/ Step(r) \/ Crash(r), ~ Superseded'
  PROVE  AnulledForAReason'
<1>1. ~ Superseded /\ PlansHaveReason
  BY WroteStays DEF Reasoned
<1>2. \A g \in Game : result[g] # NoResult => result'[g] = result[g]
  BY ResultsStay
<1> DEFINE Won(side) == {g \in Game : result[g] = side}
<1> SUFFICES ASSUME NEW g \in Game, status'[g] = "not-required"
             PROVE  \E side \in Side : 2 * Cardinality(Won(side)') > Span
  BY DEF AnulledForAReason, HasMajority
<1>3. \E side \in Side : \E S \in SUBSET Won(side)' : 2 * Cardinality(S) > Span
  <2>1. CASE status[g] = "not-required"
    <3>1. PICK side \in Side : 2 * Cardinality(Won(side)) > Span
      BY <1>1, <2>1 DEF Reasoned, AnulledForAReason, HasMajority
    <3>2. Won(side) \subseteq Won(side)'
      BY <1>2, OutcomeAssumption DEF Outcome
    <3> QED BY <3>1, <3>2
  <2>2. CASE status[g] # "not-required"
    <3>1. Commit(r)
      BY <2>2, StepFrame DEF Reasoned
    <3>2. g \in rows[r] /\ Anulls(r)
      BY <2>2, <3>1 DEF Commit, CommitStatus
    <3>3. wanted[r] # {} /\ pc[r] = "commit"
      BY <3>1, <3>2 DEF Reasoned, RowsAreWanted, Commit
    <3>4. PICK side \in Side : 2 * Cardinality(WonWith(r, side)) > Span
      BY <1>1, <3>2, <3>3 DEF PlansHaveReason
    <3>5. result'[req[r].game] = req[r].outcome
      BY <3>1, <3>2, CommitBrings DEF Anulls, Reasoned
    <3>6. WonWith(r, side) \subseteq Won(side)'
      BY <1>2, <3>5, OutcomeAssumption DEF WonWith, Outcome
    <3> QED BY <3>4, <3>6
  <2> QED BY <2>1, <2>2
<1>4. PICK side \in Side, S \in SUBSET Game : S \subseteq Won(side)' /\ 2 * Cardinality(S) > Span
  BY <1>3
<1>5. Cardinality(S) \in Nat /\ Cardinality(Won(side)') \in Nat /\ Cardinality(S) <= Cardinality(Won(side)')
  <2>1. Won(side)' \in SUBSET Game
    OBVIOUS
  <2> QED BY <1>4, <2>1, GamesFinite
<1>6. 2 * Cardinality(Won(side)') > Span
  <2> HIDE DEF Won
  <2> QED BY <1>4, <1>5, SpanAssumption
<1> QED BY <1>6

LEMMA ReasonedNext == Reasoned /\ [Next]_vars => Reasoned'
<1> SUFFICES ASSUME Reasoned, [Next]_vars PROVE Reasoned'
  OBVIOUS
<1>1. TypeOK'
  BY TypeNext DEF Reasoned
<1>2. CASE UNCHANGED vars
  BY SMTT(30), <1>1, <1>2
     DEF Reasoned, GamesAreHeld, LoadsAreFirst, RowsAreWanted, PlansHaveReason,
         AnulledForAReason, HasMajority, Superseded, Wrote, WonWith, Holding, Anulls, vars
<1>3. CASE \E r \in Request : Begin(r) \/ Step(r) \/ Crash(r)
  <2>1. PICK r \in Request : Begin(r) \/ Step(r) \/ Crash(r)
    BY <1>3
  <2>2. GamesAreHeld' /\ LoadsAreFirst' /\ RowsAreWanted'
    BY <2>1, HeldNext, LoadsNext, RowsNext
  <2>3. ~ Superseded' => PlansHaveReason' /\ AnulledForAReason'
    BY <2>1, ReasonsNext, AnulNext
  <2>4. Superseded' => AnulledForAReason'
    BY DEF AnulledForAReason
  <2> QED BY <1>1, <2>2, <2>3, <2>4 DEF Reasoned
<1> QED BY <1>2, <1>3 DEF Next

\* However many finalizations resolve the series at once, each on what the
\* others had committed, a game is anulled only once a side holds the majority
\* of the games, unless some recorded result was replaced by another.
THEOREM AnullingHasAReason == Spec => []AnulledForAReason
<1>1. Reasoned => AnulledForAReason
  BY DEF Reasoned
<1> QED BY <1>1, ReasonedInit, ReasonedNext, PTL DEF Spec
==================================================================================
