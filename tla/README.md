# CopaLibre in TLA+

A verification development of CopaLibre, a tournament platform: an HTTP API with a
live match console, an outbox relay with workers, a scheduler and an event stream,
all over one PostgreSQL database. The modules model the parts whose correctness
depends on the order in which processes act. TLC checks them on small instances, and
TLAPS proves what matters most for every instance. Paths are relative to `src/`.

Contents: [the system](#1-the-system), [the modules](#2-the-modules),
[what each run checks](#3-what-each-run-checks), [fairness](#4-fairness),
[what is proved](#5-what-is-proved), [where code and text
disagree](#6-where-the-code-and-its-text-disagree), [what is left
out](#7-what-is-not-modelled), [the plan](#8-the-plan).

## 1. The system

Several replicas of each process run against one database and share nothing else.
There is no lock manager, no broker and no distributed transaction: what coordinates
them is PostgreSQL's READ COMMITTED row locks, its unique constraints, `FOR UPDATE SKIP
LOCKED`, and rows that carry deadlines. `withTransaction`
(`packages/persistence/src/transaction.ts`) sets no isolation level and no handler locks
a row it reads, except the three that claim work. So the hard behaviour is the same
everywhere: a handler reads, decides, and writes by identifier what may have changed.

| Component | State | Operations | Interacts with | Hard behaviour | What makes it correct |
| --- | --- | --- | --- | --- | --- |
| Match console (`apps/api`, `match-control.controller.ts`) | `matches`, `segments`, projection version, idempotency keys, audit | start, pause, resume, end, finalize, clock adjustment, correction, bulk load | outbox (projections), series (finalize anuls games) | stale decisions, retries, deadlock, rollback | one recorded result, key and result together, projections in commit order, everybody answered |
| Event recording and rosters (same controller) | `match_events`, `match_rosters`, raised notifications | record event, set roster | match status, rules, pool, outbox | numbers read outside the transaction, connections held while asking for another | gap-free log, no alert missed, keys stand for work done |
| Series (`packages/domain/src/aggregates/series.ts`, `stage-series.ts`) | the games' status and results | finalize, start, bulk load, correct | console, schedules | games finalized at once, out of order, corrected afterwards | guaranteed games are kept, nothing is anulled without a reason |
| Outbox relay (`packages/persistence/src/relay`, `apps/worker`) | `outbox_events`, `processed_markers` | claim, complete, fail, re-enqueue | every producer, every handler | claims that lapse, crashes, retries | every row settles, marked exactly when done |
| Email delivery (`apps/worker/src/notifications`) | reservations in `processed_markers` | reserve, send, release | relay, mail provider | lost answers, answers taken for refusals, halfway through an audience | at most one mail each, nobody skipped unexplained |
| Scheduler (`apps/scheduler`) | `scheduler_leases`, `scheduled_jobs` | acquire, enqueue, release | outbox | slow ticks, skewed clocks, takeover, shutdown | one lease, one row per interval, the job keeps coming |
| Schedules and slots (`schedule-repository.ts`, `schedules.controller.ts`) | slots, assignments, officials | preview, publish, move | series | publication racing an anulment | one match per slot, no slot for an anulled match |
| Event stream (`apps/events`, `relay/event-stream.ts`) | each connection's cursor | resolve, read a batch, write frames, expire | outbox, realtime client | commit order against cursor order, the replay window | nothing before the cursor was silently left out, every row reaches its viewers |
| Realtime client, ticker, live page, console (`packages/realtime`, `apps/web`) | cursor, what is shown | handle a frame, reconnect, reload, fetch | event stream, API | versions numbered in three ways, fetches that overtake each other | what was told is what is shown |
| Console's offline queue (`offline-queue.ts`, `MatchConsolePage.tsx`) | commands in IndexedDB | enqueue, drain, mark, dismiss | console's API | lost answers, reloads, drains that overlap | an attempt is applied once or reported, in order, and never stranded |
| CSV imports (`csv-import-handler.ts`, `data-import-export.controller.ts`) | import sessions | upload, validate, review, commit | relay, persons, entrants | redelivery after a crash between states, opposite lock orders | every file is judged, and applied once |
| Registrations and enrollment (`registrations.controller.ts`, `enrollment-repository.ts`, `club-portal.controller.ts`) | persons, teams, entrants and their status | create, submit, review, withdraw | imports, tournaments | aliases and natural keys looked up outside the transaction, decisions on old statuses | nobody registered twice, a withdrawal stands |
| Stages and rounds (`seeding.controller.ts`, `stages.controller.ts`) | fixtures and their matches | publish a seed order, reseed, draw the next round, complete | engine, console, series | two organizers, rounds drawn while results change or fixtures are replaced | rounds in turn, no pair twice, no play deleted, byes carry over |
| Statistics (`packages/statistics-refold`) | totals | refold, rebuild | relay | redelivered, reordered events | totals are a function of the log |
| Tournament engine (`packages/tournament-engine`) | none (pure) | brackets, Swiss, round robin, standings | stages | boundary sizes, dead ends of the search | every entrant placed once, no rematches, a pairing when there is one |
| Rules engine (`packages/rules`) | none (pure) | evaluate | recording, series | - | - |
| Authentication, access, personal tokens | tokens | verify, revoke | all | revocation against use | a revoked token opens nothing |
| Storage, module distribution, routing, contracts, CLI, migrations, seeding, tokens, demo data | - | I/O and generated code | - | - | - |

`PROJECT.json` lists each with its sources, and every hazard at the line where it bites.

## 2. The modules

**`MatchCommands`** - one match and the console requests that command it, adjust its
clock or correct its result. `match`, `segment`, `version`, `outbox`, `audit` and `idem`
are the committed rows; `matchLock`, `segmentLock` and `versionLock` the row locks of
open transactions; `seen`, `todo`, `written` and `taken` what a handler holds in memory
or in its uncommitted transaction. One action is one statement, or a run of statements on
a row the transaction already holds: `ReadMatch` (findMatch), `FindKey` (the idempotency
lookup), `Decide` (listSegments, the target, `applyMatchCommand`), `TxRead` and `TxUpdate`
(applyCommand, supersedeResult), `TxSegment` (setSegmentState, adjustSegmentClock),
`TxVersion` (nextVersion), `TxResult` (recordResult), `Commit`, `RecordKey` (the second
transaction the other commands keep their key in), `Recover` (the catch), `Rollback`,
`AbortVictim` (PostgreSQL's deadlock detection) and `Crash`.

**`EventRecording`** - recorders and roster revisions at one match. `events` is the log,
`raised` the notification rows, `known` the alerts a handler read before its transaction.
The reads inside the transaction go through `this.db`, that is, through another pooled
connection, so they see committed rows and need a free connection (`ConnectionFree`);
`AppendEvent` is the insert that waits for, and may lose to, another inserter of the same
sequence.

**`SeriesLifecycle`** - the games of a best-of series. `Surplus`, `Decided` and `Wins` are
`resolveBestOf` over whatever games it is shown; `Resolve`, `Select`, `Mark` and `Commit`
are `anullSurplusOf` and `anullSurplusMatches` statement by statement; `Outlook` is the
preview a correction takes its list of reinstated games from, before its transaction. A
correction may keep the winner and change the rest of the result, and a load may name no
roster and so hold no game's row until it writes the result (`RostersHeld`).

**`DurableQueue`** - what an outbox promises: an event taken off the queue had its
effect, it does not come back, and a dead letter stays until it is revived.
**`OutboxRelay`** - the relay that implements it: `Claim`, `CheckMarker`, `Dispatch`,
`Complete`, `Fail`, `BecomeDue`, `Lapse`, `Crash`, `ReEnqueue`. Deadlines are abstracted
to whether they have passed. `ImplementsQueue` is the refinement.

**`EmailDelivery`** - the handler that mails an audience under that relay, for one row:
`Reserve`, `Send`, `Release`, `Throw` (a statement fails) and `AnswerLost` (it was done, and
nobody learns of it). The provider is modelled from what `email-delivery.ts` makes of its
answers: `Accepted`; `TakenForRefusal`, which is every HTTP status but a 2xx (`:228`) and
every SMTP reply code and error of the connection (`:233-236`), and says nothing of whether
the message went out, so `inbox` may count it, and `belied` those of them that did; and
`Unknown`, every other error. Only a 2xx or an SMTP success is taken for a delivery, and is one.

**`SchedulerLease`** - replicas, their ticks, the lease row and one job's row. Time is
relative (what is left of the lease, how long ago a tick read its clock, how far back the
last stamp is), so the state space is finite without a horizon. Its names differ from those
of `EmailDelivery` (`doing`, `LeaseInit`, `LeaseNext`, `LeaseTypeOK`, `FairLeaseSpec`), so
that `BackgroundProofs` extends both processes behind the API.

**`EventStream`** - the outbox read as a stream by one viewer: a score ticker, a live
page or an operator's console. `facts`, `head`, `log` and `at` are the outbox: a
transaction stamps its row (`Publish`) and commits or undoes it later, so `log` is in the
order of (created_at, event_id), which is not that of the commits. `served` and `ended`
are `streamEvents`' variables for the connection (`Poll`: `resolve`, `after`, the filter
of `next`, the cursor past everything read); `cursor` is the client's, which `Handle`
moves after the frame's handler returned; `screen` is what the page shows, with the
version guard of `live-state.ts` (`Patched`). The console fetches instead, and its
fetches arrive in any order (`Answer`, `Arrive`).

**`OfflineQueue`** - the console's commands on their way to the server. `store` and
`attempts` are IndexedDB; three senders work on it: the page's `drain`, a roster's own
drain and a finalization sent directly. `Serve`, `Fail` and `Error` are what becomes of a
request, `stray` the ones nobody awaits any more; `Settle` is `drainQueue`'s treatment of
the answer. `known`, `timer` and `redrive` are the page's state and effects, statement by
statement in the order React runs them. Its names differ from those of `EventStream`
(`QueueInit`, `QueueNext`, `QueueTypeOK`, `StrayArrives`), so that one proof module extends
both halves of the page.

**`Selection`** - what a sequence holds at some of its positions (`Selected`), defined by
the rank of a position. `SelectSeq` is recursive, and an induction over a sequence is more
than the provers can do; where the code filters a list (`listPending`, `after`, `next`) the
models use this instead, and the proofs rest on its lemma. `Descending` lists a set of
numbers from the greatest down, the order a reseeding of `StageRounds` seeds by.

**`Enrollment`** - who comes into a tournament: a file validated by workers and committed
by operators, walk-ups, club submissions and reviews. A request is a sequence of
statements (`MarkCommitting`, `Find`, `Recognise`, `Claim`, `Write`, `Enroll`, `Update`,
`Commit`, `Squad`); `holder` has the row locks and the unique indexes' entries, and `created`,
`given` and `entered` what is uncommitted. Lookups go through the pool, so `Find`, `Recognise`,
`Claim` and `Enrolled` see committed rows only. A person is told by alias or by natural key:
`replaceByAlias` updates whom it finds by alias and refuses a key that is another's, and
`PersonRepository.register` takes whoever carries the key, under any alias and with no lock
(`Recognise`); the entrants made that way are `keyed`.

**`RoundPairing`** - the engine's pairings as functions, without state: the bracket's
slot order and tree, the first and the next Swiss round with scores, Buchholz, bye and
the search for a pairing. The slot order and the search (`slotOrder`, `Solve`) are recursive
functions, and the sorted standings are the relation of who is above whom (`Standings`), so
that the prover can follow them. **`StageRounds`** - one stage under it: `Publish` with `Create`
or `Check` and `Replace`; `Start`, `Finalize`, `Load` (bulkLoad) and `Correct`; `Advance`,
`ReadMatches`, `DrawRound` and `InsertRound`, the four stretches of `nextRound` between which
others act: it reads the fixtures, then their matches, then entrants and outcomes, and then
inserts. `gone` has the requests whose fixtures were replaced after they read them, and `astray`
the rounds that come of it, with those inserted twice. Entrants are
numbered in the order first seeded; a reseeding turns that order around, one order other
than the first being what the properties can tell apart. The seeds of later rounds are the
places where the entrants first appear in the fixtures (`Row`, `Seats`, `Seeds`), as the
stage's record lists them.

`MC*` modules instantiate these for TLC, `*Proofs` modules hold the proofs. Names of
operators follow the functions they model.

## 3. What each run checks

| Run | Instance | Shows |
| --- | --- | --- |
| `MatchCommands` | 2 requests, 2 segments running, 2 keys, 2 results; resume, end, finalize, activate, adjust, correct | a result is recorded once and then only superseded (`ResultRecordedOnce`); the finalize key is stored exactly with its finalization (`FinalizeKeyAtomic`); projections are numbered in commit order and the last one tells the truth (`ProjectionFollowsMatch`); every request ends although two activations can deadlock on the segments' rows (`EveryRequestEnds`) |
| `EventRecording` | 2 requests, 2 persons, 2 keys, threshold 2, 3 connections | `LogGapFree`, `NoAlertMissed`, `StoredKeyIsDone`, `EveryRequestEnds` |
| `SeriesLifecycle` | best of 3, 3 requests of every kind, from every undecided beginning | `GuaranteedKept`, `AnulledForAReason` |
| `OutboxRelay` | 2 rows, 2 workers, 2 attempts, one lapsed claim, one crash, one re-enqueue | `DeadLetterExplained`, `DuplicateExplained`, the refinement `ImplementsQueue`, and `EveryRowSettles` |
| `EmailDelivery` | 3 recipients, 2 workers, 2 attempts, 4 claims, one crash; every answer of the provider | `AtMostOneEmail`, `ReservationExplained` |
| `SchedulerLease` | 2 replicas, TTL and interval 2, skew 1, a tick up to 2 long, one stop | `OncePerInterval`, `NoDualLease`, `JobKeepsComing` |
| `EventStream` | 2 matches, 2 rows, 3 clock ticks, window 1, batch 1, skew 1; every kind of viewer, one drop | whatever lies before the client's cursor was handled, or committed late (`NoSilentGap`); every committed row reaches the viewer as a frame or in what it fetched (`EveryFactReaches`) |
| `OfflineQueue` | a command, a roster, a finalization confirmed twice; one outage, error or reload | `NothingLost`, `OrderKept`, `NothingLeftBehind` |
| `Enrollment` | 2 participants, one known; 2 files naming them in opposite orders, one of them twice, and each giving the one natural key to a different one; 2 requests of any kind, 2 workers, one failure | `AppliedOnce`, `RegisteredOnce`, `EveryFileJudged`, `EveryRequestEnds` |
| `StageRounds` | 2 organizers; Swiss and bracket of 4 (draws, loaded results, in the bracket a correction), of 5 (three rounds), and, one request after another, of 6 and 7 (two rounds of any results) | `PairedOnce`, `RoundsInTurn`, `SwissGoesOn`, `PlayStands` |
| `ByesGoOn` | 1 organizer; Swiss and bracket of 5 and 6 | violated |
| `FinalReachesScreen` | as small as shows it | violated |

Why the bounds are enough:

- *Requests.* Two of them give every pair of conflicting transactions; in
  `SeriesLifecycle` a third is needed for a game that is started, or corrected, around the
  decision that anuls it. In `MatchCommands` a third would allow a finalize undone by a
  stale command and followed by another finalize: `ResultIsRecordedOnce` is proved for any
  number of them. Two results let a correction change the first one, which it must to be
  accepted. `start` and `pause` take the same steps as `resume` and `end`, from
  statuses the instance does not begin with, and are left out of it.
- *Segments.* Two are needed for a cycle of waits; both run at the start, which two
  overlapping clock adjustments leave behind (section 6).
- *Threshold 2, two recorders*: one event below the threshold, one that crosses it; with
  `Person` of two, a roster that loses its person. *Pool*: one connection more than the
  requests in flight, the smallest on which recording does not starve.
- *Span 3* has one surplus game and two guaranteed ones; the theorem covers every span.
- *Attempts 2*: one failure that retries and one that exhausts. One lapse, crash and
  revival each, because each leaves the row in a state another one starts from.
- *Ages and skew* in `SchedulerLease` exceed the TTL in sum (2 + 1 > 2), so a tick can
  outlive its lease and a clock can be off by more than what is left of it.
- *Stream.* Two matches, because one match's transactions never overlap and two rows must
  commit out of the order of their stamps; a batch of one row and rows of which a public
  viewer may see none; a clock that passes the window once. A run of the same module with
  `Kind = {"finalized"}` added is the violated one.
- *Queue.* One entry of every kind of sender; a second confirmation is the retry whose key
  is reused.
- *Email.* Three recipients have one before and one after the one a refusal stops at; four
  claims let a row be refused, given up on, re-enqueued and refused again.
- *Enrollment.* Two rows in two orders are the smallest cycle of locks; a known and an
  unknown alias go through both branches of `replaceByAlias`; a name twice in one file is
  the exception `RegisteredOnce` states. One key is enough for one person recognised by it
  under another's alias; two files that give it to different persons collide in the key's
  unique index.
- *Rounds.* Four entrants fill a bracket and a Swiss stage without byes, five have byes in
  both. With two requests under way (`MaxAtOnce`) a reseeding, or another request, comes
  between any two reads of the next round. Six and more allow a Swiss field that a careless
  pairing would lead into a dead end. Whether it does depends on results only, so there one
  request ends before the next begins. The theorems hold for any number of either.

Deadlock is checked in the first six runs: a state without a successor is an error, and
the only stuttering disjuncts of the next-state relations (`Finished`, `Quiet`) hold when
all requests or rows are at their end. In the others operators may stop acting and the
bounds may be used up, so a state without a successor means nothing; that requests,
files and rows do not hang is `EveryRequestEnds`, `EveryFileJudged` and
`EveryFactReaches`.

Every property of a passing run has a mutant of the code (an operator marked `Mutant:`
just before the definition it would replace) under which TLC finds it violated.

## 4. Fairness

- *Requests* (`MatchCommands`, `EventRecording`): weak fairness of each handler's next
  step. Node runs a handler whose promise is settled, and PostgreSQL answers a statement
  that waits for nobody; a statement that waits is not enabled, so the assumption grants
  no request a lock. `AbortVictim` is one of the steps because PostgreSQL's deadlock
  check is a timer. Arrivals and crashes are not fair.
- *Relay*: weak fairness of each worker's pass (the poll timer of `relay.service.ts`, and
  handlers return or throw), of `BecomeDue` (backoff ends) and of `Lapse` for a row whose
  worker is gone (clocks advance). Crashes are bounded. That matters: a row whose handler
  kills the process every time is claimed for ever, because `claim` does not look at the
  attempts; `EveryRowSettles` says nothing of it.
- *Scheduler*: timers fire, statements return, time passes (`WF` of `Fire`, `Step` and
  `Pass`). Stops are bounded so that one replica is left, which is what `JobKeepsComing`
  is about.

- *Stream*: the server's loop, the client's handling and reconnecting, and the answering of
  fetches are weakly fair (`Poll`, `ClientStep`, `FetchStep`). Transactions, the clock and
  drops are not: nobody has to act, and a row only has to reach the viewer once committed.
- *Enrollment*: the relay gives a waiting row to a worker again and again (`Take`), a
  handler goes on (`Validate`), a request's next statement is run (`Step`, which PostgreSQL's
  deadlock check is part of). Nobody has to make a request.
- *Queue, rounds*: only safety is checked. Nothing makes a network come back or an
  organizer draw a round.

In `EventRecording` the pool is larger than the requests in flight. With as many recorders
in their transactions as the pool has connections (ten in `database.ts:30`, no acquire
timeout), each holds one and waits for a second: `EveryRequestEnds` fails, and the mutant
`PoolOneShort` is that configuration.

## 5. What is proved

TLAPS checks these for every value of the constants, from the named assumptions only
(distinct markers, positive sizes, finite sets of commands and participants; each `ASSUME`
is evaluated by TLC on the runs too).

| Theorem | States | Argument |
| --- | --- | --- |
| `MatchCommandsProofs!TypeCorrect` | `TypeOK` | one lemma per action |
| `MatchCommandsProofs!ResultIsRecordedOnce` | `ResultRecordedOnce` | `Disciplined` below |
| `MatchCommandsProofs!FinalizeKeyIsAtomic` | `FinalizeKeyAtomic` | the same |
| `MatchCommandsProofs!ProjectionIsFaithful` | `ProjectionFollowsMatch` | `Disciplined` and `NextVersionTaken` |
| `EventRecordingProofs!TypeCorrect` | `TypeOK` | one lemma per action |
| `EventRecordingProofs!LogIsGapFree` | `LogGapFree` | `Ordered` |
| `EventRecordingProofs!NoAlertIsMissed` | `NoAlertMissed` | `Ordered` and `NothingMissed` |
| `EventRecordingProofs!StoredKeysAreDone` | `StoredKeyIsDone` | `KeysHonest` |
| `SeriesLifecycleProofs!TypeCorrect` | `TypeOK` | one lemma per action |
| `SeriesLifecycleProofs!GuaranteedGamesAreKept` | `GuaranteedKept` | `Guarded` |
| `SeriesLifecycleProofs!AnullingHasAReason` | `AnulledForAReason` | `Reasoned` |
| `OutboxRelayProofs!TypeCorrect` | `TypeOK` | `Working`: a pass that is not over has a job |
| `OutboxRelayProofs!MarkersAreHonest` | `MarkedWhenDone` | `SeenThrough` |
| `OutboxRelayProofs!DeadLettersAreExhausted` | `DeadLetterExplained` | inductive with the types |
| `OutboxRelayProofs!DuplicatesAreExplained` | `DuplicateExplained` | `Alone` and `EffectsTold` |
| `OutboxRelayProofs!RelayImplementsQueue` | `ImplementsQueue` | each step, under `MarkedWhenDone` and `SeenThrough`, is the queue's or a stutter |
| `BackgroundProofs!TypeCorrect` | `TypeOK` | attempts never exceed the claims |
| `BackgroundProofs!NobodyIsMailedTwice` | `AtMostOneEmail` | `OneHand` |
| `BackgroundProofs!ReservationsAreExplained` | `ReservationExplained` | `OneHand` |
| `BackgroundProofs!LeaseTypes` | `LeaseTypeOK` | `GrantAges` |
| `BackgroundProofs!LeasesDoNotOverlap` | `NoDualLease` | `Backed` |
| `BackgroundProofs!JobsKeepTheirInterval` | `OncePerInterval` | `LockedAndDue` |
| `EnrollmentProofs!FilesAreAppliedOnce` | `AppliedOnce` | `Marked` |
| `EnrollmentProofs!TypeCorrect` | `TypeOK` | `Enlisting` |
| `EnrollmentProofs!NobodyRegistersTwice` | `RegisteredOnce` | `Enlisting` |
| `ClientProofs!QueueTypes` | `QueueTypeOK` | `QueueInv` |
| `ClientProofs!NothingIsLost` | `NothingLost` | `QueueInv`: `Told` |
| `ClientProofs!OrderIsKept` | `OrderKept` | `QueueInv`: `Settled`, `Ahead` |
| `ClientProofs!NothingIsLeftBehind` | `NothingLeftBehind` | `QueueInv`: `Attended` |
| `ClientProofs!StreamTypes` | `TypeOK` | `StreamInv` |
| `ClientProofs!NoSilentGaps` | `NoSilentGap` | `StreamInv`: `Framed`, `Accounted` |
| `RoundProofs!NextSwissFacts` | the next Swiss round of an even number of entrants pairs each once, with one not met before, or there is none | the smallest set `Solve` fails on |
| `RoundProofs!RoundTypes` | `TypeOK` | `RoundInv` |
| `RoundProofs!RoundsPairedOnce` | `PairedOnce` | `RoundInv`: `Paired`, `Fits` |
| `RoundProofs!RoundsFollow` | `RoundsInTurn` | `RoundInv`: `InTurn`, `IsView` |
| `RoundProofs!PlayIsKept` | `PlayStands` | `RoundInv`: `Late` |

*Console.* `ResultRecordedOnce` is not inductive: a handler past `TxResult` appends its
audit row in a later step, when the row it checked could have changed. `Disciplined ==
TypeOK /\ LocksHeld /\ Route /\ ResultSeen` adds who holds which lock where
(`LocksHeld`: a handler that has updated the match row holds its lock until it ends),
which operations pass by which place (`Route`), and what a lock holder still knows of the
row (`ResultSeen`: at `commit`, a finalize knows there is no result and a correction knows
there is one). Nobody can commit a result while another handler holds the lock, so the
knowledge stands until the commit. The argument uses that applyCommand updates, and so
locks, the row before recordResult looks at it; the bulk load does not, and section 6
has what follows. For projections, `NextVersionTaken` says the holder of the version row's
lock has taken the committed version plus one, so commits number the projections in
their own order.

*Recording.* A sequence is read outside the transaction, so two recorders may hold the
same number. `Claims` says that a number taken is at most one past the committed ones and
that an inserted, uncommitted row has a number that nobody else inserted or committed;
with `Numbered` and `OneEach` the inserted number is always the next one
(`InsertedIsNext`), and so at most one row is inserted and uncommitted. That in turn makes
the log a transaction evaluates its rules on the log it commits to, although it reads only
committed rows (`AlertsDue`): the alerts it does not raise have been raised.

*Series.* A handler anuls from a plan made on a series that may look different by the
time it writes. `Guarded` adds that no plan of a handler that anuls, at whatever stage,
reaches a guaranteed game (`PlansAreLate`). `SurplusIsLate` is the arithmetic: the games
won are numbered below any surplus one, so there are fewer of them than its number, and a
decided series has `Span \div 2 + 1`.

*Relay.* A row is completed by whoever reaches `complete`, on the word of its own pass:
`SeenThrough` says that pass saw the handlers take effect, or a marker, which only a
completion writes. With it, every step maps to one of `DurableQueue`: a dispatch applies, a
completion finishes what was applied, a failure buries or, because it writes the dead
letter's column either way, revives. `DuplicateExplained` needs what claims are for:
while nobody died and no claim lapsed (`Calm`), a job in a batch is its worker's alone and
its row open (`Alone`), and a row whose effects are there has failed, is done, or is in the
hands of the worker that made them (`EffectsTold`), so nobody else can dispatch it. The
batch is a sequence in an order nothing fixes; `ClaimedJobs` and `JobsLeft` say what the
proofs need of it.

*Email.* `OneHand`: at most one worker is between the reservation of a recipient and its
outcome; on a reservation that is in a hand nothing was sent but what was taken for a
refusal before (`inbox[r] = belied[r]`); and what was sent and known to be, or left in
doubt, keeps its reservation. A reservation is given back only from a hand, so one message
at most is sent beyond those of `belied`. That these may be there is the code's reading of
the provider's answers (section 6), which no bookkeeping of its own could make up for.

*Scheduler.* `Backed`: what a tick of a replica that is up has left of its grant, the row
has left for the same holder; the database's clock decides both, so skew does not matter.
`LockedAndDue`: a tick about to stamp has held the row's lock since it found the job due,
and the stamp's age and the clock it read grow together. The run has one tick per replica in
flight; the theorems hold for any number of overlapping ones.

*Anulling.* `AnulledForAReason` looks at results, and a plan was made on results that may
have changed since. `Reasoned` says why they have not, as long as no load overwrote one and
no correction wrote: a transaction past its UPDATE holds its game's row, and a finalization
found that game without a result (`GamesAreHeld`), so the results a plan counted are still
there and the majority it saw stands (`PlansHaveReason`); and when a load finds a result in
a game it had found empty, another request wrote it (`LoadsAreFirst`), which is what
`Superseded` excepts.

*Enrollment.* `Marked`: a request past `markCommitting` holds the session's row, which is
still `review-ready`; validations never write such a row. For `RegisteredOnce`, `Enlisting`
adds what each request has in hand (`Careful`): the rows it has yet to write are the rest of
its file (`Follows`), so what it entered twice by alias is in the file twice; what it found
of an alias is still so, and whom it enters by alias it has inserted or holds the row of
(`Finds`); and whom it has so entered and not committed, nobody has entered but a club or by
natural key (`Held`, `Holds`). The lookup through the pool misses the transaction's own rows
and the club's, which `TwiceBy` excepts. A person recognised by natural key is found under
whatever alias it has, with no lock taken before the entrant is inserted: no argument of
this kind is to be had, and those entrants (`keyed`) are the property's third exception.

*The page's queue.* An entry is taken off the store only on an answer, and `Told` says what
an answer still proves when it is looked at. `Settled`: an entry no longer pending has been
applied, cannot be applied any more, or had an error for an answer. `Ahead` is the order:
in every sender's list, on the way and at the server, a command has the earlier attempts
before it or behind it all (`Passed`); a list made at the start of a pass has them because
`listPending` returns whatever still waits, by time of attempt (`PendingFacts`).
`Attended` is `NothingLeftBehind` without the finalization's sender, which a second
confirmation may start anew.

*The page's stream.* `NoSilentGap` speaks of the client's cursor only, and the server's is
ahead of it. `Framed` says that the frames on the wire lie between the two in the order of
the log, `Accounted` that whatever the server has read past was handled, is on the wire or
was committed late. Rows are inserted and removed anywhere in the log (`InsertFacts`,
`DiscardFacts`), which shifts positions and keeps their order; both cursors stand on
committed rows (`Waiting`), so no rollback takes a cursor away. `AfterFacts` is why a batch
leaves no gap: what is committed behind the cursor and not in the batch lies behind all of
it.

*The pairings.* `RoundPairing` computes by recursion, over the bracket's size and over the
set of players left. The library's induction theorems cannot be applied here, so an
induction is a smallest counterexample: `Least` finds the least number in a set and
`SmallestSet` the smallest set in a family of finite ones (a strict subset is well-founded).
That a recursive function exists at all, that is, equals its own definition at every argument, is
proved that way too, before anything it computes: `SlotOrder` for the bracket's slots,
`SolutionAgrees` and `SolvedFacts` for the search, which asks only for the solutions of
smaller sets (`Open` removes two). `SlotFacts` then says that the slots hold every seed up to
their number once, `FirstRoundFacts` that a first round draws entrants, each once, and
`NextSwissFacts` that a drawn Swiss round covers the players, each once, and matches nobody
with one it has met, for fields of every size.

*The stage.* None of `PairedOnce`, `RoundsInTurn` and `PlayStands` is inductive: what a
request inserts was decided on a stage it read some steps before. `RoundInv` joins the types
with what that reading is still worth:

- `SoundAll` follows a request. Unless its fixtures were replaced (`gone`), one that has read
  the fixtures still finds them there, pair by pair, and whatever was added since belongs to
  later rounds (`IsPart`); once it has read their matches, the last round of them is complete
  and as it was unless recorded as `corrected` (`IsView`); and one that is inserting holds
  pairs that fit its view (`Fits`): pairs of a Swiss stage that are new to the view, or the
  winners of a bracket's last round. Replaced or not, what it read of a Swiss stage is of
  entrants who are still seated (`IsSeated`). One that publishes holds an order's first
  round (`Ordered`).
- `Unbroken`: while nothing is `astray`, there is no round without the one before. So when
  the round a request is about to insert is missing, nothing lies behind its view, and the
  stage is what it read; when it is there, or the request is `gone`, `astray` records the
  insertion, and the properties except it.
- `Even`: the fixtures of a Swiss stage seat an even number of entrants, the same under every
  order, because publishing drops the bye (`ByesGoOn` seen from the other side). So the engine
  has no further bye to allocate, and `NextSwissFacts` applies.
- `Paired` and `InTurn` are the two properties in the form that a step preserves.
- `Late`: what is under way when a replacement has passed its check started since.

A reseeding between two reads of `nextRound` does break the rounds. The matches of the
fixtures that were read are gone, none of them counts as unplayed
(`stages.controller.ts:1148`, `:1164`), and a Swiss round 2 is inserted behind the new,
unplayed round 1, avoiding the deleted pairs only. Nothing in the code stops it; the
properties except rounds `astray`, section 6 has it, and the theorems say that this and a
round inserted twice are the only ways. They hold for any number of organizers, fields,
rounds and corrections, from `FormatAssumption`, `VerdictAssumption` and `BoundAssumption`
(fields of two or more, at least one round).

Only model-checked, not proved:

- The liveness properties (`EveryRequestEnds`, `EveryRowSettles`, `JobKeepsComing`,
  `EveryFactReaches`, `EveryFileJudged`), which are out of the prover's reach.
- `SwissGoesOn`: that a pairing exists is a fact about the graph of those who have not met,
  which holds of small fields and few rounds only and not of every value of the constants.
  `NextSwissFacts` says what a pairing is worth when there is one.

## 6. Where the code and its text disagree

Two disagreements have a run whose counterexample shows them; `PROJECT.json` quotes the
lines each contradicts.

1. `ByesGoOn` - whoever has a bye in the first round disappears from the stage. publish
   persists only matches with two entrants ("a `bye` needs no fixture at all",
   `seeding.controller.ts:606`), and `nextRound` draws from the entrants and the winners of
   persisted fixtures (`stages.controller.ts:1174`, `:1200`).
2. `FinalReachesScreen` - a finalization is always published with version 1
   (`competition-repository.ts:2205`), recorded facts with their sequence, and the live page
   starts at 1 (`public-projections.controller.ts:865`), so `live-state.ts:104` drops the
   finalization of a match it showed live. (Nor are match.started and
   standings.recalculated ever published, and a recorded event carries no scores.)

The models contain more of them. Each formula below, added to the module named and given
to TLC, is violated by what the code does.

*MatchCommands*

- "A finalized match refuses every command, including another finalize"
  (`match-operations.ts:52`): a command decided before a finalize commits writes the status
  by id (`competition-repository.ts:1612`) and puts the match back in progress.
  `FinalizedIsFinal == [][match.status = "finalized" => match'.status = "finalized"]_match`.
- "Only one segment runs at a time: starting or resuming one stops whichever was left
  running" (`match-control.controller.ts:329`): two requests each stop what they saw.
  `OneSegmentRuns == Cardinality(Active(segment)) <= 1`, from pending segments.
- "A completed segment is a played half. Reopening one is a correction of the record"
  (`match-operations.ts:81`): a resume writes over an end that committed after it read.
  `EndedStaysEnded == [][\A s \in Segment : segment[s] = "completed" => segment'[s] = "completed"]_segment`.
- "Reuse of that key with a different request SHALL be rejected"
  (`openspec/specs/live-operations/live-match-console/spec.md:282`): the fingerprint of
  start, pause, resume and end leaves out the segment.
  `ReplayIsSameRequest == \A r \in Request : answer[r] = "replayed" => \E q \in Request \ {r} : (answer[q] = "applied" \/ pc[q] = "crashed") /\ req[q] = req[r]`.
- "the chain of what a result has been stays readable in order"
  (`competition-repository.ts:1778`): two corrections read the same prior result.
  `CorrectionsChain == \A i \in 2..Len(audit) : audit[i].prior = audit[i - 1].result`.

*EventRecording*

- "exactly one event is recorded" for a retried request (`live-match-console/spec.md:284`): a
  crash or a retry between an event's commit and its key's (`match-control.controller.ts:2413`)
  records it again.
  `OneEventPerKey == \A e, f \in events : e.key = f.key /\ e.key # NoKey => e = f`.
- "The sequence is taken inside the transaction, so two officials recording at once cannot
  both claim the same one" (`match-control.controller.ts:1142`): they can, and the unique
  constraint fails one of them.
  `SequenceClaimedOnce == \A p, q \in Request : p # q /\ pc[p] = "insert" /\ pc[q] \in {"insert", "log", "commit"} => claim[p] # claim[q]`.
- A rule "SHALL fire at most once per qualifying threshold crossing"
  (`openspec/specs/live-operations/live-match-operations/spec.md:45`): the alerts already raised are read before the
  transaction. `AlertRaisedOnce == \A x, y \in raised : x.alert = y.alert => x = y`.
- "Removing an attributed member is refused" (`live-match-operations/spec.md:133`): the
  revision and the event check each other before either writes.
  `AttributedOnRoster == \A e \in events : e.person \in roster`.
- "events are recorded while it is in progress" (`match-control.controller.ts:947`): the
  status is checked before the transaction.
  `NoEventAfterFinal == [][status = "finalized" => events' = events]_<<status, events>>`.

*SeriesLifecycle*

- "Records a calculated result exactly once. A second attempt is refused"
  (`competition-repository.ts:2159`): a bulk load that looked for a result before a finalize
  committed overwrites it.
  `OutcomeStands == [][\A g \in Game : result[g] # NoResult /\ result'[g] # result[g] => \E r \in Request : pc[r] = "commit" /\ pc'[r] = "applied" /\ req[r].op = "correct" /\ req[r].game = g]_result`.
- "A series SHALL be evaluated after every match finalization", and decided with matches
  unplayed, "those matches SHALL be moved to a terminal not-required state"
  (`openspec/specs/tournament-engine/match-series/spec.md:71`).
  `SurplusAnulled == Quiet => \A g \in Surplus(status, result) : status[g] # "scheduled"`
  fails in three ways, each with one kind of request: `Operation = {"load"}`, because
  bulkLoad never calls anullSurplusOf; `{"correct"}`, because a correction that decides the
  series applies `becomingScheduled` and not `becomingNotRequired`, although "what the
  operator agreed to is what gets applied" (`match-control.controller.ts:1798`); and
  `{"finalize"}`, because two games finalized at once do not see each other's result.
- "Anulls unplayed surplus matches" (`competition-repository.ts:1338`): a game started and
  finalized between the SELECT and the UPDATE is anulled with its result.
  `PlayedIsKept == \A g \in Game : status[g] = "not-required" => result[g] = NoResult`.
- "An anulled match accepts no result" (`match-series/spec.md:88`): a start that read the
  game while it was scheduled revives it.
  `AnulledAcceptsNothing == [][\A g \in Game : status[g] = "not-required" => status'[g] \in {"not-required", "scheduled"}]_status`.
- A correction that un-decides the series while another result decides it leaves games
  anulled that the series needs.
  `CanStillEnd == Quiet /\ ~ Decided(status, result) => \A g \in Game : status[g] # "not-required"`.

*OutboxRelay, EmailDelivery, SchedulerLease*

- "no automatic retry occurs; only an explicit operator action re-enqueues it"
  (`openspec/specs/platform/async-job-processing/spec.md:38`): a worker whose claim lapsed
  fails an earlier attempt and so revives a dead letter (`outbox-relay.ts:228`).
  `DeadUntilRevived == [][\A e \in Event : row[e].dead /\ ~ row'[e].dead => revivals' = revivals + 1]_vars`.
- "when the provider definitely rejects the message the reservation SHALL be released so
  the row can retry" (`openspec/specs/platform/email-notifications/spec.md:115`): another
  worker skips the reserved recipient (`delivery.ts:60`) and completes the row before the
  release.
  `NobodyLeftOut == consumed /\ AllIdle => \A r \in Recipient : inbox[r] > 0 \/ r \in doubtful`.
- "the same email must never reach one recipient twice" (`email-delivery.ts:44`): every
  status but a 2xx and every error of an SMTP connection is taken for a refusal (`:228`,
  `:233`), also where the message went out; the reservation is released and the retry sends
  it again. `NeverTwice == \A r \in Recipient : inbox[r] <= 1`.
- "A row redelivered after a crash between the handler and the completion is caught by the
  marker on the next pass, so the side effect happens once" (`relay-runner.ts:14-17`): the
  marker is written with the completion.
  `AppliedOnce == \A e \in Event : applied[e] <= 1`.
- "Checked against the clock at the moment of acting" (`scheduler.service.ts:104`): the
  clock is read before acquire.
  `DecidedInTime == [][\A t \in Tick : doing[t] = "decide" /\ doing'[t] = "select" => grant[t] > 0]_leaseVars`.

*EventStream*

- A viewer told that its cursor expired is told because "closing the stream to say so would
  start a reconnect loop that hits the same wall" (`packages/realtime/src/wire.ts:58`). A
  page without a cursor replays from the oldest row, although a subscriber with no cursor
  starts "now, not the beginning of time" (`subscription.ts:102`): with rows older than the
  window it expires, reloads and expires again, and the console keeps its expired cursor.
  `ExpirySettles == <>[](conn = "open" /\ ~ ended)`, under `FairSpec`.
- Rows that commit behind a cursor are skipped for good, which `NoSilentGap` and
  `EveryFactReaches` except: `late = {}` is violated.
- "the console SHALL NOT continue displaying an optimistic value the authoritative projection
  has superseded" (`live-match-console/spec.md:145`): two overlapping fetches of the
  projection arrive out of order, and the older one stays (`MatchConsolePage.tsx:93`).
  `NeverBackwards == [][\A m \in Match : screen'[m].version >= screen[m].version]_screen`,
  with `Surface = {"console"}`.

*OfflineQueue*

- "the queue does not depend on catching every `online` event or SSE reconnect correctly"
  (`MatchConsolePage.tsx:212`): the fallback timer is set again only when the number of
  entries changes (`[pendingMutations.length, drain]`), so it fires once.
  `FallbackDelivers == <>[]online => \A c \in Command : Stays(c) ~> ~ Stays(c)`, under `FairQueueSpec`.
- Queued actions are replayed "in the order [they were] originally attempted"
  (`live-match-console/spec.md:332`): a finalization overtakes them, and what it overtakes is
  then refused; `OrderKept` without its second line.
- Every answer that is an HTTP status, 401, 500 and 504 among them, marks an entry refused
  (`offline-queue.ts:266`); it is never sent again, although it may have been applied.
  `RefusedIsRefused == \A c \in Command : store[c] = "refused" => c \notin ToSet(applied)`.

*Enrollment*

- A participant named again "is recognised rather than duplicated"
  (`registrations.controller.ts:284`): not within one file, whose lookup does not see its own
  transaction, and not by a club that submits its team again. `RegisteredOnce` without
  `TwiceBy`.
- A person added directly and named again, "matching on natural key or alias, is recognised
  rather than duplicated" (`registrations.controller.ts:283`), and both "resolve to the same
  record" (`openspec/specs/control-web/registration-review/spec.md:139`):
  `PersonRepository.register` returns the person it knows by that key
  (`person-repository.ts:48`), and the caller enters that person again
  (`registrations.controller.ts:315`), whether a walk-up or a file did before or does at the
  same time.
  `ResolvesToOneRecord == \A d, e \in DOMAIN entrants : d < e /\ entrants[d].alias = entrants[e].alias => TwiceBy(d, e)`.
- "a withdrawal is the entrant's word, and overriding it from the console would put
  somebody in a competition they left" (`registration-review.ts:55`): the status is read
  before the transaction (`registrations.controller.ts:210`).
  `WithdrawalStands == [][\A e \in DOMAIN entrants : entrants[e].status = "withdrawn" => entrants'[e].status = "withdrawn"]_vars`,
  with `Decision = {"accepted", "withdrawn"}` and a participant registered before.
- A worker that dies between `markValidating` and `storePreview` leaves the session
  validating for ever (`csv-import-handler.ts:32`). `EveryFileJudged` without `abandoned`.
- A submission "applies the submitted squad in the same transaction"
  (`club-portal.controller.ts:197`): it is a second one.
  `SquadWithEntrant == \A e \in DOMAIN entrants : entrants[e].origin = "club-portal" => e \in squads`.

*StageRounds*

- Two first publications, or two requests for the next round, insert the same round twice,
  and a reseeding between two reads of a request lets it draw from deleted fixtures: nothing
  locks or numbers the rounds. `astray = {}` is violated.
- A Swiss round is generated "once the prior round is complete"
  (`openspec/specs/tournament-engine/tournament-fixture-engine/spec.md:314`): after such a
  reseeding round 2 is inserted behind an unplayed round 1.
  `RoundsFollowPlay == \A i \in DOMAIN fixtures : fixtures[i].round < LastRound(fixtures) => fixtures[i].status = "finalized"`.
- "Cannot replace fixtures once a match has started or recorded results"
  (`competition-repository.ts:1256`): the DELETE (`:1272`) does not repeat the check, and a
  bulk load of a result and nothing else leaves no row that would stop it.
  `ResultsStand == [][\A i \in DOMAIN fixtures : fixtures[i].status = "finalized" => i \in DOMAIN fixtures' /\ fixtures'[i].home = fixtures[i].home /\ fixtures'[i].away = fixtures[i].away /\ fixtures'[i].status = "finalized"]_vars`.
- A corrected result changes nothing in a round already drawn: `RoundsInTurn` without
  `corrected`.
- A match started after a reseeding's check, whose idempotency row is not yet stored, is
  deleted under way, and one loaded with its result only is deleted at any time after the
  check: `PlayStands` without `late`.

Read, and not expressed in a model: a new person named for two teams in one membership file
fails every commit of it; a Swiss field of six may have no fourth round without a rematch,
which `nextRound` answers with a plain error; an odd number of bracket winners makes a
fixture with one side; a Swiss entrant's seed after the first round is its place in the
fixtures; a two-entrant double elimination plays its grand final against itself
(`double-elimination.ts:121`).

## 7. What is not modelled

- In the console: penalty timers, attendance, the elapsed seconds of a segment (a read,
  an addition and a write by id, so the same lost update as for the status), the
  authority an official acts under, and the bulk load, which is in `SeriesLifecycle` and
  `StageRounds`: it would break `ResultRecordedOnce` the way `OutcomeStands` is broken.
- In recording: declared effects, collector thresholds and custom scripts, folded into
  one rule; the events' definitions and payloads.
- In the series: the classes aggregate, points-per-leg and scripted, and the declaration's
  validation; games' idempotency keys and segments (`MatchCommands`); the slots and the
  officials' assignments that an anulment deletes, which are the plan's `SlotPublication`.
- In the relay: `claimForSqlite`, which only tests use, and metrics. In the scheduler:
  registering jobs, and the fencing token, which is written and never compared.
- In the stream: connection limits, heartbeats, slow sockets, the client's backoff.
- In the queue: what the commands mean to the match (`MatchCommands`); the server applies a
  key once and refuses what follows a finalization.
- In enrollment: membership files, exports, attributes and abbreviations, the members of a
  squad, removals, edits of a person (`updatePersonIdentity`), the persons a club portal
  registers for a squad (`club-portal.controller.ts:84`). A walk-up without an alias is one
  that names the alias `suggestPersonAlias` finds free. The share lock that an entrant's
  foreign key takes on its person is left out: an update that changes that person's key
  waits for it, which allows the steps modelled here in fewer orders only, and PostgreSQL
  aborts a cycle of such waits as it does any other. The order of `findEntrantForRef` among
  one tournament's rows is the only thing teams and persons differ in, so both are aliases.
- In the rounds: double elimination, round robin, gauntlets, free-for-all, groups, zones,
  custom brackets, series inside a stage, completion and qualification. A fixture has one
  match. A bulk load is its result and whether anything refers to the match: rows of its
  rosters, segments or events do, and a load of a result only leaves none (`bare`). A load
  over a finalized match is a correction of its result here, as a result is all a round
  reads of it. `stageRecord` and the outcomes of `nextRound` are one read, and
  `ReplaceFails` may fail where the deletion would have met no such row. A Swiss bye is
  allocated by the engine (`ByeOf`) and never persisted, see `ByesGoOn`.
- Whole components: those the plan names for later, and those that hold no state two
  actors share or only do I/O (rules interpretation, routing, contracts, storage and
  module distribution, command line, migrations, seeding, design tokens, demo data).
  Most of the repository's lines are of this kind (generated contracts, messages, DTOs,
  pages, styles); a model of them would say nothing, so the share of all lines the modules
  cover stays small.

PostgreSQL is assumed to do what its manual says of READ COMMITTED, row locks, unique
indexes and deadlock detection; a transaction's writes appear at once when it commits.

## 8. The plan

Built: `MatchCommands`, `EventRecording`, `SeriesLifecycle`, `DurableQueue` with
`OutboxRelay`, `EmailDelivery`, `SchedulerLease`, `EventStream`, `OfflineQueue`,
`Enrollment`, `RoundPairing` with `StageRounds`. Next, in this order:

1. `SlotPublication`: publishing and moving a schedule against a series that anuls;
   composes with `SeriesLifecycle`, whose anulments would delete the slots. 2 slots, 3
   matches.
2. `StageCompletion`: completing a stage and seeding the next one against corrections.
3. `StatisticsRefold`: totals as a function of the log under redelivery; theorem: refolding
   twice changes nothing.
4. Pure algorithms as operators checked against definitions: round robin, double
   elimination, standings' tie breaks.

A run is spent where it answers a question of its own; a violated property moves to
section 6 without one when another finding says more.
