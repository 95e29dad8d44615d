------------------------------- MODULE StageRounds -------------------------------
(***************************************************************************)
(* The rounds of one stage: an organizer publishes a seed order, which     *)
(* creates or replaces its fixtures; matches are played; and the next      *)
(* round of a Swiss or single-elimination stage is drawn from what is      *)
(* recorded.  A request reads the stage through the pool, in several       *)
(* statements, and writes in a transaction of its own; nothing numbers or  *)
(* locks the rounds, and fixtures that were read may be replaced before    *)
(* the next statement.  Every fixture has one match, and there is one zone.*)
(***************************************************************************)
EXTENDS RoundPairing

CONSTANTS
  Request,         \* organizers' sessions, which make one request after another
  Field,           \* the numbers of accepted entrants of this instance
  Format,          \* the stage formats of this instance
  Verdict,         \* by number of entrants: the results of its matches,
  Loads,           \* whether what is loaded is a result and nothing else
  MaxAtOnce,       \*   bound: requests under way,
  MaxRounds,       \*   rounds drawn,
  MaxFixtures,     \*   fixtures of the stage
  MaxCorrections   \*   and, by format, corrected results

ASSUME FormatAssumption  == Format \subseteq {"swiss", "single-elimination"}
ASSUME VerdictAssumption ==
  /\ Verdict \in [Field -> SUBSET {"home", "away", "draw"}]
  /\ Loads \in [Field -> SUBSET BOOLEAN]
ASSUME BoundAssumption ==
  /\ Field \subseteq Nat \ {0, 1}
  /\ MaxAtOnce \in [Field -> Nat] /\ MaxRounds \in [Field -> Nat \ {0}]
  /\ MaxFixtures \in [Field -> Nat] /\ MaxCorrections \in [Format -> Nat]

VARIABLES
  format, field,
  fixtures,     \* the stage's fixtures with their matches, by insertion, which is
                \* the order of their UUIDv7 (monotonic in one process)
  pc, read,     \* where a request is, and the fixtures it read
  plan,         \* the pairs it will insert
  gone,         \* requests whose fixtures have been replaced since they read them
  astray,       \* history: rounds inserted when the stage had them already, or
                \* drawn from fixtures replaced since
  late,         \* history: matches started or loaded while a replacement is past its
                \* check, that no row refers to yet
  corrected,    \* history: rounds whose results changed once they were read
  corrections   \* counted against MaxCorrections

stage    == <<format, field>>
requests == <<pc, read, plan, gone>>
history  == <<astray, late, corrected>>
vars     == <<stage, fixtures, requests, history, corrections>>

Entrant == 1..field
Fixture ==
  [round : 1..MaxRounds[field], home : Entrant, away : Entrant \cup {Nobody},
   status : {"scheduled", "in-progress", "finalized"}, winner : Entrant \cup {Nobody}]

Place   == {"idle", "matches", "results", "insert", "create", "check", "replace"}

TypeOK ==
  /\ format \in Format /\ field \in Field
  /\ fixtures \in Seq(Fixture) /\ Len(fixtures) <= MaxFixtures[field]
  /\ \A i \in DOMAIN fixtures :
       fixtures[i].winner \in {fixtures[i].home, fixtures[i].away, Nobody}
  /\ pc \in [Request -> Place]
  /\ read \in [Request -> Seq(Fixture)]
  /\ plan \in [Request -> Seq(Entrant \X (Entrant \cup {Nobody}))]
  /\ gone \subseteq Request
  /\ astray \subseteq 1..MaxRounds[field] /\ late \subseteq DOMAIN fixtures
  /\ corrected \subseteq 1..MaxRounds[field] /\ corrections \in 0..MaxCorrections[format]

Init ==
  /\ format \in Format /\ field \in Field
  /\ fixtures = <<>>
  /\ pc = [r \in Request |-> "idle"]
  /\ read = [r \in Request |-> <<>>] /\ plan = [r \in Request |-> <<>>]
  /\ gone = {} /\ astray = {} /\ late = {} /\ corrected = {} /\ corrections = 0
-----------------------------------------------------------------------------
LastRound(fs)  == IF fs = <<>> THEN 0 ELSE CHOOSE k \in {f.round : f \in ToSet(fs)} :
                                             \A f \in ToSet(fs) : f.round <= k
InRound(fs, k) == {i \in DOMAIN fs : fs[i].round = k}
Players(fs, I) == UNION {{fs[i].home, fs[i].away} \ {Nobody} : i \in I}
Everyone(fs)   == Players(fs, DOMAIN fs)

\* stageRecord.entrantIds: the place where each first appear in the fixtures, side by side, the
\* fixtures of an earlier round first.
Row(fs, i) == Cardinality({j \in DOMAIN fs : \/ fs[j].round < fs[i].round
                                             \/ fs[j].round = fs[i].round /\ j <= i})
Seats(fs, e) == {2 * Row(fs, i) - 1 : i \in {j \in DOMAIN fs : fs[j].home = e}}
                  \cup {2 * Row(fs, i) : i \in {j \in DOMAIN fs : fs[j].away = e}}
Seeds(fs) == [e \in Everyone(fs) |-> CHOOSE m \in Seats(fs, e) : \A n \in Seats(fs, e) : m <= n]

\* resolvedFixtureInputs: of the generated matches, those with two entrants.
FirstRound(ids) ==
  LET pairs == IF format = "swiss" THEN SwissRound(ids) ELSE TreeRound(ids)
  IN Selected(pairs, {i \in DOMAIN pairs : Nobody \notin {pairs[i][1], pairs[i][2]}})

New(pair, k) ==
  [round |-> k, home |-> pair[1], away |-> pair[2], status |-> "scheduled", winner |-> Nobody]
Rows(pairs, k) == [i \in DOMAIN pairs |-> New(pairs[i], k)]

Goto(r, place) == pc' = [pc EXCEPT ![r] = place]

\* A session makes a request, if the bound allows another one.
Begins(r) == pc[r] = "idle" /\ Cardinality({q \in Request : pc[q] # "idle"}) < MaxAtOnce[field]

\* The round after the last of the fixtures a request read is under way.
Reading(r) == pc[r] \in {"matches", "results", "insert"}

\* A refusal, an error or the end: the request leaves nothing else behind.
Ends(r) ==
  /\ Goto(r, "idle")
  /\ read' = [read EXCEPT ![r] = <<>>] /\ plan' = [plan EXCEPT ![r] = <<>>]

Insert(r, pairs, k) ==
  /\ Len(fixtures) + Len(pairs) <= MaxFixtures[field]
  /\ fixtures' = fixtures \o Rows(pairs, k)
  /\ astray' = IF r \in gone \/ InRound(fixtures, k) # {} THEN astray \cup {k} ELSE astray
  /\ Ends(r) /\ gone' = gone \ {r}
  /\ UNCHANGED <<stage, late, corrected, corrections>>
-----------------------------------------------------------------------------
\* publish: refused once a result is recorded; the order names exactly the
\* entrants of the fixtures or, as long as there are none, the accepted ones.
\* Entrants are numbered by the first order, and a reseeding turns it around.
Publish(r) ==
  /\ Begins(r)
  /\ \A i \in DOMAIN fixtures : fixtures[i].status # "finalized"
  /\ plan' = [plan EXCEPT ![r] =
                FirstRound(IF fixtures = <<>> THEN [e \in Entrant |-> e]
                           ELSE Descending(Everyone(fixtures)))]
  /\ Goto(r, IF fixtures = <<>> THEN "create" ELSE "check")
  /\ UNCHANGED <<stage, fixtures, read, gone, history, corrections>>

Create(r) == pc[r] = "create" /\ Insert(r, plan[r], 1)

\* Mutant: only a recorded result is looked for, not a match under way.
AttachedFinal == \E i \in DOMAIN fixtures : fixtures[i].status = "finalized"

\* replaceFixtures: refused if a match has started, by the transaction's check.
Attached == \E i \in DOMAIN fixtures : fixtures[i].status # "scheduled"
Check(r) ==
  /\ pc[r] = "check"
  /\ IF Attached THEN Ends(r) ELSE Goto(r, "replace") /\ UNCHANGED <<read, plan>>
  /\ UNCHANGED <<stage, fixtures, gone, history, corrections>>

\* Everything is deleted, unless a row refers to a match: the console's
\* finalization stores one in the idempotency table with the result, a start
\* after it, and a bulk load none but those of its rosters and events.
Replace(r) ==
  /\ pc[r] = "replace"
  /\ \A i \in DOMAIN fixtures : fixtures[i].status = "finalized" => i \in late
  /\ Len(plan[r]) <= MaxFixtures[field] /\ fixtures' = Rows(plan[r], 1)
  /\ gone' = {q \in Request : Reading(q)}
  /\ astray' = {} /\ late' = {} /\ corrected' = {}
  /\ Ends(r)
  /\ UNCHANGED <<stage, corrections>>

\* The deletion runs into such a row, or into another replacement's fixtures.
ReplaceFails(r) ==
  /\ pc[r] = "replace"
  /\ Attached \/ \E q \in Request \ {r} : pc[q] = "replace"
  /\ Ends(r)
  /\ late' = IF \E q \in Request \ {r} : pc[q] = "replace" THEN late ELSE {}
  /\ UNCHANGED <<stage, fixtures, gone, astray, corrected, corrections>>
-----------------------------------------------------------------------------
\* The matches, as the console plays them, or an operator loads them.
Start(i) ==
  /\ fixtures[i].status = "scheduled"
  /\ fixtures' = [fixtures EXCEPT ![i].status = "in-progress"]
  /\ late' = IF \E r \in Request : pc[r] = "replace" THEN late \cup {i} ELSE late
  /\ UNCHANGED <<stage, requests, astray, corrected, corrections>>

Winner(f, verdict) ==
  CASE verdict = "home" -> f.home [] verdict = "away" -> f.away [] verdict = "draw" -> Nobody

RecordResult(i, verdict) ==
  fixtures' = [fixtures EXCEPT ![i].status = "finalized", ![i].winner = Winner(fixtures[i], verdict)]

Finalize(i, verdict) ==
  /\ fixtures[i].status = "in-progress"
  /\ RecordResult(i, verdict)
  /\ late' = late \ {i}
  /\ UNCHANGED <<stage, requests, astray, corrected, corrections>>

\* bulkLoad: the whole match at once, whatever its status; nothing refers to it
\* if the load is of a result and nothing else.
Load(i, verdict, bare) ==
  /\ fixtures[i].status # "finalized"
  /\ RecordResult(i, verdict)
  /\ late' = IF bare /\ \E r \in Request : pc[r] = "replace" THEN late \cup {i} ELSE late \ {i}
  /\ UNCHANGED <<stage, requests, astray, corrected, corrections>>

\* supersedeResult: nothing is done about a round drawn from the old result.
Correct(i, verdict) ==
  /\ corrections < MaxCorrections[format] /\ corrections' = corrections + 1
  /\ fixtures[i].status = "finalized" /\ Winner(fixtures[i], verdict) # fixtures[i].winner
  /\ fixtures' = [fixtures EXCEPT ![i].winner = Winner(fixtures[i], verdict)]
  /\ corrected' =
       IF \/ fixtures[i].round < LastRound(fixtures)
          \/ \E r \in Request : pc[r] \in {"results", "insert"}
       THEN corrected \cup {fixtures[i].round} ELSE corrected
  /\ UNCHANGED <<stage, requests, astray, late>>
-----------------------------------------------------------------------------
\* Mutant: a round of started matches counts as played.
CompleteStarted(fs) == \A i \in InRound(fs, LastRound(fs)) : fs[i].status # "scheduled"

\* nextRound: the fixtures are read ...
Advance(r) ==
  /\ Begins(r)
  /\ fixtures # <<>> /\ LastRound(fixtures) < MaxRounds[field]
  /\ read' = [read EXCEPT ![r] =
                [i \in DOMAIN fixtures |-> New(<<fixtures[i].home, fixtures[i].away>>, fixtures[i].round)]]
  /\ Goto(r, "matches")
  /\ UNCHANGED <<stage, fixtures, plan, gone, history, corrections>>

\* ... and then their matches, of which there are none when they have been
\* replaced: a round of no matches is complete.
Complete(fs) == \A i \in InRound(fs, LastRound(fs)) : fs[i].status = "finalized"

ReadMatches(r) ==
  /\ pc[r] = "matches"
  /\ LET fs    == read[r]
         now   == IF r \in gone THEN fs ELSE [i \in DOMAIN fs |-> fixtures[i]]
         final == format = "single-elimination" /\ Cardinality(InRound(fs, LastRound(fs))) <= 1
     IN IF ~final /\ (r \in gone \/ Complete(now))
        THEN read' = [read EXCEPT ![r] = now] /\ Goto(r, "results") /\ UNCHANGED <<plan, gone>>
        ELSE Ends(r) /\ gone' = gone \ {r}
  /\ UNCHANGED <<stage, fixtures, history, corrections>>

\* ... and then the entrants and the outcomes, and the round is drawn.  A winner
\* is the recorded one, or else the one of the match read before.
WinnerAt(fs, i, there) ==
  IF there /\ fixtures[i].winner # Nobody THEN fixtures[i].winner ELSE fs[i].winner
WinnersOf(fs, there) ==
  LET last == InRound(fs, LastRound(fs))
  IN [n \in 1..Cardinality(last) |-> WinnerAt(fs, Nth(last, n), there)]

PairUp(winners) ==
  [n \in 1..(Len(winners) + 1) \div 2 |->
     <<winners[2 * n - 1], IF 2 * n <= Len(winners) THEN winners[2 * n] ELSE Nobody>>]

\* Mutant: nobody asks whether every match has a winner.
DrawUndecided(fs, there) ==
  IF format = "swiss" THEN NextSwissRound(Seeds(fixtures), fs, fixtures)
  ELSE PairUp(WinnersOf(fs, there))

Draw(fs, there) ==
  IF format = "swiss" THEN NextSwissRound(Seeds(fixtures), fs, fixtures)
  ELSE IF Nobody \in ToSet(WinnersOf(fs, there)) THEN NoPairing ELSE PairUp(WinnersOf(fs, there))

DrawRound(r) ==
  /\ pc[r] = "results"
  /\ LET pairs == Draw(read[r], r \notin gone) IN
     IF pairs = NoPairing THEN Ends(r) /\ gone' = gone \ {r}
     ELSE plan' = [plan EXCEPT ![r] = pairs] /\ Goto(r, "insert") /\ UNCHANGED <<read, gone>>
  /\ UNCHANGED <<stage, fixtures, history, corrections>>

InsertRound(r) == pc[r] = "insert" /\ Insert(r, plan[r], LastRound(read[r]) + 1)
-----------------------------------------------------------------------------
Next ==
  \/ \E r \in Request : \/ Publish(r) \/ Create(r) \/ Check(r) \/ Replace(r) \/ ReplaceFails(r)
                        \/ Advance(r) \/ ReadMatches(r) \/ DrawRound(r) \/ InsertRound(r)
  \/ \E i \in DOMAIN fixtures :
       \/ Start(i)
       \/ \E v \in Verdict[field] : \/ Finalize(i, v) \/ Correct(i, v)
                                   \/ \E bare \in Loads[field] : Load(i, v, bare)

Spec == Init /\ [][Next]_vars
-----------------------------------------------------------------------------
Share(f, g) == ({f.home, f.away} \cap {g.home, g.away}) \ {Nobody} # {}

\* Unless a round was inserted twice, or drawn from fixtures that were replaced
\* meanwhile, nobody is drawn twice in a round, and no two entrants of a Swiss
\* stage meet twice (extractSwissHistory and solveSwissPairings over what
\* nextRound read before others wrote).
PairedOnce ==
  \A i, j \in DOMAIN fixtures :
    i < j /\ astray = {} =>
      LET f == fixtures[i] g == fixtures[j] IN
      /\ f.round = g.round => ~Share(f, g)
      /\ format = "swiss" => {f.home, f.away} # {g.home, g.away}

\* Unless one was inserted twice or drawn from replaced fixtures, a round follows
\* one whose matches are all final, and in a bracket it is played by the winners
\* of that one, as they were recorded when it was drawn, and by all of them
\* (nextRound's completeness check and its winners, read in several statements).
RoundsInTurn ==
  astray = {} =>
    \A k \in 1..LastRound(fixtures) - 1 :
      /\ \A i \in InRound(fixtures, k) : fixtures[i].status = "finalized"
      /\ format = "single-elimination" /\ k \notin corrected =>
           Players(fixtures, InRound(fixtures, k + 1)) = {fixtures[i].winner : i \in InRound(fixtures, k)}

\* Up to half as many rounds as there are entrants, a Swiss round can be drawn
\* from any results: the search of solveSwissPairings does not end empty-handed.
SwissGoesOn ==
  format = "swiss" /\ astray = {} /\ fixtures # <<>> /\ Complete(fixtures)
    /\ 2 * (LastRound(fixtures) + 1) <= field
      => Draw(fixtures, TRUE) # NoPairing

\* A reseeding deletes no result and no match under way, unless it started, or
\* was loaded with nothing that refers to it, after the reseeding had looked
\* (replaceFixtures' check, and the foreign keys).
Kept(i) == fixtures[i].status # "scheduled" /\ i \notin late
PlayStands ==
  [][\A i \in DOMAIN fixtures : Kept(i) =>
       /\ i \in DOMAIN fixtures'
       /\ fixtures'[i].home = fixtures[i].home /\ fixtures'[i].away = fixtures[i].away
       /\ fixtures'[i].status # "scheduled"]_vars

\* A bye is a place in the next round: whoever was seeded, sat a round out and
\* has not lost a bracket match plays in the round that follows.
Lost(e, k) == \E f \in ToSet(fixtures) :
                f.round < k /\ f.status = "finalized" /\ e \in {f.home, f.away} \ {f.winner}
ByesGoOn ==
  \A k \in 2..LastRound(fixtures) : \A e \in Entrant :
    \/ e \in Players(fixtures, InRound(fixtures, k - 1) \cup InRound(fixtures, k))
    \/ format = "single-elimination" /\ Lost(e, k)
=============================================================================
