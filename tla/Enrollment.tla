------------------------------- MODULE Enrollment -------------------------------
(***************************************************************************)
(* How entrants come into a tournament, and are decided upon.  A CSV file  *)
(* is validated by a worker, which the relay runs at least once, and its   *)
(* reviewed rows are committed in one transaction; an organizer registers  *)
(* a walk-up directly; a club submits a team; organizers review what is    *)
(* registered, one or several at a time.                                   *)
(*                                                                         *)
(* Persons and teams are told apart by alias, persons by a natural key too *)
(* (a document's number), each under a unique index; the entrants have no  *)
(* such index.  The repository looks up aliases, keys, entrants and        *)
(* statuses through the pool, not through the open transaction.  One       *)
(* action is one statement, as PostgreSQL runs it at read committed.       *)
(***************************************************************************)
EXTENDS Integers, Sequences, SequencesExt, FiniteSets

CONSTANTS
  Alias,        \* persons, or teams, by their alias in the organization
  Known,        \* the aliases the organization has before
  Registered,   \* those of them that are entrants before
  Key, NoKey,   \* natural keys, normalised; who has none, as every team
  Carried,      \* the keys they carry before
  Import,       \* uploaded files
  File,         \* the rows of each
  Worker, Request,
  Decision,     \* the decisions the reviews of this instance make
  Nobody,       \* no transaction holds the row
  MaxReviewed,  \* bound: the entrants reviews are about
  MaxTroubles   \* bound: failed validations, lapsed claims and lost requests

ASSUME AliasAssumption  == /\ Registered \subseteq Known /\ Known \subseteq Alias
                           /\ IsFiniteSet(Registered)
ASSUME KeyAssumption    == NoKey \notin Key /\ Carried \in [Alias -> Key \cup {NoKey}]
ASSUME FileAssumption   == File \in [Import -> Seq([alias : Alias, key : Key \cup {NoKey}])]
ASSUME NobodyAssumption == Nobody \notin Request \cup Alias
ASSUME DecisionAssumption == Decision \subseteq {"accepted", "refused", "withdrawn"}
ASSUME BoundAssumption  == {MaxReviewed, MaxTroubles} \subseteq Nat

VARIABLES
  session,   \* csv_import_sessions.status
  commits,   \* the csv-import.committed rows of each file in the audit log
  job,       \* the validation's outbox row: whether the relay is done with it
  task, at,  \* the file a worker validates, and where it is
  people,    \* the aliases committed
  key,       \* and the natural key each carries
  entrants,  \* the entrants committed, by creation
  squads,    \* those whose squad the club's submission applied
  holder,    \* row locks of open transactions, and their new index entries
  op, pc,    \* what a request is for, and where it is
  rows,      \* the lines, or the entrants, it has yet to write
  found,     \* whom its lookups found for the line
  keyed,     \* by the natural key, when no one had the alias
  created,   \* the aliases its transaction inserted
  given,     \* the keys it wrote
  entered,   \* and the entrants, with how each was found
  abandoned, \* history: files whose worker failed after it marked them
  troubles   \* counted against MaxTroubles

imports  == <<session, commits>>
workers  == <<job, task, at, abandoned>>
tables   == <<people, key, entrants, squads>>
lookups  == <<found, keyed>>
written  == <<created, given, entered>>
scratch  == <<rows, lookups, written>>
requests == <<holder, op, pc, scratch>>
vars     == <<imports, workers, tables, requests, troubles>>

Settled == {"review-ready", "invalid", "committed"}
Status  == {"pending", "accepted", "refused", "withdrawn"}
Origin  == {"import", "console", "club-portal"}
Reviewed == 1..MaxReviewed
Line     == [alias : Alias, key : Key \cup {NoKey}]
Row      == Import \cup Alias \cup Key \cup Reviewed
Job      == {<<"commit", i>> : i \in Import} \cup {<<"create", a>> : a \in Alias}
              \cup {<<"submit", a>> : a \in Alias} \cup {<<"review", d>> : d \in Decision}

Reviewing(r) == op[r] # <<>> /\ op[r][1] = "review"

TypeOK ==
  /\ session \in [Import -> {"queued", "validating"} \cup Settled]
  /\ commits \in [Import -> Nat]
  /\ job \in [Import -> {"waiting", "done"}]
  /\ task \in [Worker -> Import \cup {Nobody}]
  /\ at \in [Worker -> {"idle", "found", "marked"}] /\ abandoned \subseteq Import
  /\ Known \subseteq people /\ people \subseteq Alias
  /\ key \in [Alias -> Key \cup {NoKey}]
  /\ entrants \in Seq([alias : people, status : Status, origin : Origin, keyed : BOOLEAN])
  /\ squads \subseteq DOMAIN entrants
  /\ holder \in [Row -> Request \cup {Nobody}]
  /\ op \in [Request -> Job \cup {<<>>}]
  /\ pc \in [Request -> {"idle", "mark", "find", "recognise", "claim", "write", "index",
                         "enroll", "update", "commit", "squad", "done"}]
  /\ DOMAIN rows = Request
  /\ \A r \in Request : rows[r] \in Seq(IF Reviewing(r) THEN Reviewed ELSE Line)
  /\ found \in [Request -> Alias \cup {Nobody}] /\ keyed \in [Request -> BOOLEAN]
  /\ created \in [Request -> SUBSET Alias]
  /\ given \in [Request -> [Alias -> Key \cup {NoKey}]]
  /\ entered \in [Request -> Seq([alias : Alias, keyed : BOOLEAN])]
  /\ troubles \in 0..MaxTroubles

Entrant(a, origin, byKey) ==
  [alias |-> a, status |-> "pending", origin |-> origin, keyed |-> byKey]
Keyless == [a \in Alias |-> NoKey]

Init ==
  /\ session \in [Import -> {"queued", "review-ready"}] /\ commits = [i \in Import |-> 0]
  /\ job = [i \in Import |-> IF session[i] = "queued" THEN "waiting" ELSE "done"]
  /\ task = [w \in Worker |-> Nobody] /\ at = [w \in Worker |-> "idle"]
  /\ abandoned = {}
  /\ people = Known /\ key = [a \in Alias |-> IF a \in Known THEN Carried[a] ELSE NoKey]
  /\ entrants = [e \in 1..Cardinality(Registered) |->
                   Entrant(SetToSeq(Registered)[e], "console", FALSE)]
  /\ squads = {}
  /\ holder = [x \in Row |-> Nobody]
  /\ op = [r \in Request |-> <<>>] /\ pc = [r \in Request |-> "idle"]
  /\ rows = [r \in Request |-> <<>>]
  /\ found = [r \in Request |-> Nobody] /\ keyed = [r \in Request |-> FALSE]
  /\ created = [r \in Request |-> {}] /\ given = [r \in Request |-> Keyless]
  /\ entered = [r \in Request |-> <<>>]
  /\ troubles = 0

Trouble == troubles < MaxTroubles /\ troubles' = troubles + 1
-----------------------------------------------------------------------------
\* The worker.  csvImportValidationHandler: a row that is not queued is nothing
\* to do, and the relay completes it.
At(w, i, place) == task' = [task EXCEPT ![w] = i] /\ at' = [at EXCEPT ![w] = place]
Idle(w)         == At(w, Nobody, "idle")

Take(w, i) ==
  /\ at[w] = "idle" /\ job[i] = "waiting"
  /\ IF \E v \in Worker : task[v] = i THEN Trouble ELSE UNCHANGED troubles
  /\ IF session[i] = "queued" THEN At(w, i, "found") /\ UNCHANGED job
     ELSE job' = [job EXCEPT ![i] = "done"] /\ UNCHANGED <<task, at>>
  /\ UNCHANGED <<imports, abandoned, tables, requests>>

MarkValidating(w) ==
  /\ at[w] = "found"
  /\ LET i == task[w] IN
     IF session[i] = "queued"
     THEN /\ session' = [session EXCEPT ![i] = "validating"]
          /\ At(w, i, "marked") /\ UNCHANGED job
     ELSE /\ job' = [job EXCEPT ![i] = "done"]
          /\ Idle(w) /\ UNCHANGED session
  /\ UNCHANGED <<commits, abandoned, tables, requests, troubles>>

\* Mutant: the preview is stored only where nothing has marked the session.
PreviewableQueued == {"queued"}

Previewable == {"queued", "validating"}

StorePreview(w, valid) ==
  /\ at[w] = "marked"
  /\ LET i == task[w] IN
     /\ session' = IF session[i] \in Previewable
                   THEN [session EXCEPT ![i] = IF valid THEN "review-ready" ELSE "invalid"]
                   ELSE session
     /\ job' = [job EXCEPT ![i] = "done"]
  /\ Idle(w)
  /\ UNCHANGED <<commits, abandoned, tables, requests, troubles>>

\* The handler throws, or its worker dies: the relay runs the row again.
ValidationFails(w) ==
  /\ at[w] # "idle" /\ Trouble /\ Idle(w)
  /\ abandoned' = IF at[w] = "marked" THEN abandoned \cup {task[w]} ELSE abandoned
  /\ UNCHANGED <<imports, job, tables, requests>>
-----------------------------------------------------------------------------
Goto(r, place)  == pc' = [pc EXCEPT ![r] = place]
Hold(r, x)      == holder' = [holder EXCEPT ![x] = r]
Current(r)      == Head(rows[r])

\* A statement waits for whoever holds the row, or the index entry, it takes; a
\* key's, for the row of whoever carries the key too.
Behind(x)       == {x} \cup {b \in people : key[b] = x}
Free(r, x)      == \A y \in Behind(x) : holder[y] \in {Nobody, r}
\* Mutant: a transaction that ends keeps its row locks.
ReleasedNone(r) == holder
Released(r)     == [x \in Row |-> IF holder[x] = r THEN Nobody ELSE holder[x]]
Forget(r) == /\ holder' = Released(r)
             /\ created' = [created EXCEPT ![r] = {}]
             /\ given' = [given EXCEPT ![r] = Keyless]
             /\ entered' = [entered EXCEPT ![r] = <<>>]

\* A refusal, an error or a lost connection: the transaction leaves nothing.
Rollback(r) ==
  /\ Forget(r) /\ Goto(r, "done")
  /\ UNCHANGED <<op, rows, lookups>>

Begin(r, what, place, list) ==
  /\ pc[r] = "idle"
  /\ op' = [op EXCEPT ![r] = what] /\ Goto(r, place)
  /\ rows' = [rows EXCEPT ![r] = list]
  /\ UNCHANGED <<imports, workers, tables, holder, lookups, written, troubles>>

CommitImport(r, i) == Begin(r, <<"commit", i>>, "mark", File[i])
\* A walk-up without an alias is one that names the alias it is suggested.
Create(r, l) ==
  Begin(r, <<"create", l.alias>>, IF l.key = NoKey THEN "claim" ELSE "recognise", <<l>>)
Submit(r, a) ==
  a \in people /\ Begin(r, <<"submit", a>>, "enroll", <<[alias |-> a, key |-> NoKey]>>)

\* canDecide, planBulkReview: what may be decided, by one reading of the list.
CanDecide(status, decision) == status = "withdrawn" => decision = "withdrawn"
InOrder(S) == {s \in [1..Cardinality(S) -> S] :
                 \A j, k \in 1..Cardinality(S) : j < k => s[j] < s[k]}
Review(r, chosen, d) ==
  LET planned == {e \in chosen : CanDecide(entrants[e].status, d)} IN
  \E list \in InOrder(planned) :
    Begin(r, <<"review", d>>, IF list = <<>> THEN "done" ELSE "update", list)
-----------------------------------------------------------------------------
\* Mutant: a session committed already may be committed again.
CommittableAgain(i) == session[i] \in {"review-ready", "committed"}

\* markCommitting: a session that is not review-ready matches no row.
Committable(i) == session[i] = "review-ready"
MarkCommitting(r) ==
  /\ pc[r] = "mark"
  /\ LET i == op[r][2] IN
     IF Committable(i)
     THEN /\ holder[i] = Nobody /\ Hold(r, i)
          /\ Goto(r, IF rows[r] = <<>> THEN "commit" ELSE "find")
          /\ UNCHANGED <<op, scratch>>
     ELSE Rollback(r)
  /\ UNCHANGED <<imports, workers, tables, troubles>>

\* replaceByAlias: findByAlias, through the pool.  Who is not there is registered.
Find(r) ==
  /\ pc[r] = "find"
  /\ LET l     == Current(r)
         there == l.alias \in people IN
     /\ found' = [found EXCEPT ![r] = IF there THEN l.alias ELSE Nobody]
     /\ Goto(r, CASE l.key # NoKey -> "recognise" [] there -> "write" [] OTHER -> "claim")
  /\ UNCHANGED <<imports, workers, tables, holder, op, rows, keyed, written, troubles>>

\* findByNaturalKey, through the pool: register takes who carries the key for the
\* person, whatever the alias; replaceByAlias refuses a key that is another's.
Bearers(k) == {b \in people : key[b] = k}
Recognise(r) ==
  /\ pc[r] = "recognise"
  /\ LET bearers == Bearers(Current(r).key) IN
     \/ /\ found[r] # Nobody /\ bearers \subseteq {found[r]}
        /\ Goto(r, "write") /\ UNCHANGED <<holder, op, scratch>>
     \/ /\ found[r] # Nobody /\ ~ bearers \subseteq {found[r]}
        /\ Rollback(r)
     \/ /\ found[r] = Nobody /\ bearers = {}
        /\ Goto(r, "claim") /\ UNCHANGED <<holder, op, scratch>>
     \/ /\ found[r] = Nobody
        /\ \E b \in bearers : found' = [found EXCEPT ![r] = b]
        /\ keyed' = [keyed EXCEPT ![r] = TRUE]
        /\ Goto(r, "enroll") /\ UNCHANGED <<holder, op, rows, written>>
  /\ UNCHANGED <<imports, workers, tables, troubles>>

\* register: findByAlias again; the alias of a new person must be new.
Claim(r) ==
  /\ pc[r] = "claim"
  /\ IF Current(r).alias \in people THEN Rollback(r)
     ELSE Goto(r, "write") /\ UNCHANGED <<holder, op, scratch>>
  /\ UNCHANGED <<imports, workers, tables, troubles>>

\* Mutant: the alias's lookup is taken for the row itself.
InsertedAll(r, a) == IF found[r] # Nobody THEN created[r] ELSE {<<a, r>>}

\* The statement that writes the line: an UPDATE takes the row, then the key's entry
\* in its unique index, an INSERT the key's entry, then the alias's.
Inserted(r, a) == IF found[r] # Nobody THEN created[r] ELSE created[r] \cup {a}
Taken(r) ==
  LET l == Current(r) IN
  IF l.key # NoKey /\ (pc[r] = "write" <=> found[r] = Nobody) THEN l.key ELSE l.alias

\* What the index holds already, of others or of the transaction's own.
KeyOf(r, b) == IF given[r][b] # NoKey THEN given[r][b] ELSE key[b]
Clash(r, x) ==
  \/ found[r] = Nobody /\ x \in people \cup created[r]
  \/ \E b \in (people \cup created[r]) \ {Current(r).alias} : KeyOf(r, b) = x

Write(r) ==
  /\ pc[r] \in {"write", "index"} /\ Free(r, Taken(r))
  /\ LET l == Current(r) IN
     \/ Clash(r, Taken(r)) /\ Rollback(r)
     \/ /\ ~ Clash(r, Taken(r)) /\ pc[r] = "write" /\ l.key # NoKey
        /\ Hold(r, Taken(r)) /\ Goto(r, "index") /\ UNCHANGED <<op, scratch>>
     \/ /\ ~ Clash(r, Taken(r)) /\ (pc[r] = "index" \/ l.key = NoKey)
        /\ Hold(r, Taken(r)) /\ Goto(r, "enroll")
        /\ created' = [created EXCEPT ![r] = Inserted(r, l.alias)]
        /\ given' = IF l.key = NoKey THEN given ELSE [given EXCEPT ![r][l.alias] = l.key]
        /\ UNCHANGED <<op, rows, lookups, entered>>
  /\ UNCHANGED <<imports, workers, tables, troubles>>

\* Mutant: only the entrants that came by file are looked through.
EnrolledByFile(a) == \E e \in DOMAIN entrants : entrants[e].alias = a /\ entrants[e].origin = "import"

\* findEntrantForRef, through the pool too; only an import looks.
Enrolled(a) == \E e \in DOMAIN entrants : entrants[e].alias = a
Subject(r)  == IF keyed[r] THEN found[r] ELSE Current(r).alias
Enroll(r) ==
  /\ pc[r] = "enroll"
  /\ entered' = IF op[r][1] = "commit" /\ Enrolled(Subject(r)) THEN entered
                ELSE [entered EXCEPT ![r] = Append(@, [alias |-> Subject(r), keyed |-> keyed[r]])]
  /\ rows' = [rows EXCEPT ![r] = Tail(@)]
  /\ found' = [found EXCEPT ![r] = Nobody] /\ keyed' = [keyed EXCEPT ![r] = FALSE]
  /\ Goto(r, IF Tail(rows[r]) = <<>> THEN "commit" ELSE "find")
  /\ UNCHANGED <<imports, workers, tables, holder, op, created, given, troubles>>

\* setEntrantStatus: the UPDATE takes the row, whatever its status is by then.
Update(r) ==
  /\ pc[r] = "update"
  /\ Free(r, Current(r)) /\ Hold(r, Current(r)) /\ Goto(r, "commit")
  /\ UNCHANGED <<imports, workers, tables, op, scratch, troubles>>

OriginOf(what) == CASE what = "commit" -> "import" [] what = "create" -> "console"
                    [] what = "submit" -> "club-portal"

\* COMMIT: everything the transaction wrote, and nothing before.  A review goes
\* on with the next entrant, a club's submission with the squad.
Commit(r) ==
  /\ pc[r] = "commit"
  /\ LET what == op[r][1] IN
     /\ people' = people \cup created[r]
     /\ key' = [a \in Alias |-> KeyOf(r, a)]
     /\ entrants' = IF what = "review"
                    THEN [entrants EXCEPT ![Current(r)].status = op[r][2]]
                    ELSE entrants \o [k \in DOMAIN entered[r] |->
                                        Entrant(entered[r][k].alias, OriginOf(what), entered[r][k].keyed)]
     /\ IF what = "commit"
        THEN /\ session' = [session EXCEPT ![op[r][2]] = "committed"]
             /\ commits' = [commits EXCEPT ![op[r][2]] = @ + 1]
        ELSE UNCHANGED imports
     /\ IF what = "review"
        THEN /\ rows' = [rows EXCEPT ![r] = Tail(@)]
             /\ Goto(r, IF Tail(rows[r]) = <<>> THEN "done" ELSE "update")
        ELSE /\ UNCHANGED rows
             /\ Goto(r, IF what = "submit" THEN "squad" ELSE "done")
  /\ Forget(r)
  /\ UNCHANGED <<workers, squads, op, lookups, troubles>>

\* applyTeamRoster, in a transaction of its own, for the entrant just made.
Squad(r) ==
  /\ pc[r] = "squad"
  /\ \E e \in DOMAIN entrants :
       /\ entrants[e].alias = op[r][2] /\ entrants[e].origin = "club-portal" /\ e \notin squads
       /\ squads' = squads \cup {e}
  /\ Goto(r, "done")
  /\ UNCHANGED <<imports, workers, people, key, entrants, holder, op, scratch, troubles>>
-----------------------------------------------------------------------------
\* The row a request waits for, and PostgreSQL's answer to a circle of them.
Wants(r) ==
  CASE pc[r] = "mark"                -> {op[r][2]}
    [] pc[r] \in {"write", "index"} -> Behind(Taken(r))
    [] pc[r] = "update"              -> {Current(r)}
    [] OTHER                         -> {}
Blockers(r) == {holder[x] : x \in Wants(r)} \ {Nobody, r}

DeadlockAborts(r) ==
  /\ \E circle \in SUBSET Request :
       /\ r \in circle
       /\ \A q \in circle : Blockers(q) # {}
       /\ circle = UNION {Blockers(q) : q \in circle}
  /\ Rollback(r)
  /\ UNCHANGED <<imports, workers, tables, troubles>>

\* The API process dies, or its connection does.
Lost(r) ==
  /\ pc[r] \notin {"idle", "done"} /\ Trouble
  /\ Rollback(r)
  /\ UNCHANGED <<imports, workers, tables>>
-----------------------------------------------------------------------------
Validate(w) == MarkValidating(w) \/ \E valid \in BOOLEAN : StorePreview(w, valid)
Step(r)     == \/ MarkCommitting(r) \/ Find(r) \/ Recognise(r) \/ Claim(r) \/ Write(r)
               \/ Enroll(r) \/ Update(r) \/ Commit(r) \/ Squad(r) \/ DeadlockAborts(r)

Next ==
  \/ \E w \in Worker : \/ \E i \in Import : Take(w, i)
                       \/ MarkValidating(w)
                       \/ \E valid \in BOOLEAN : StorePreview(w, valid)
                       \/ ValidationFails(w)
  \/ \E r \in Request : \/ \E i \in Import : CommitImport(r, i)
                        \/ \E l \in Line : Create(r, l)
                        \/ \E a \in Alias : Submit(r, a)
                        \/ \E chosen \in SUBSET (Reviewed \cap DOMAIN entrants) :
                             \E d \in Decision : chosen # {} /\ Review(r, chosen, d)
                        \/ MarkCommitting(r) \/ Find(r) \/ Recognise(r) \/ Claim(r)
                        \/ Write(r) \/ Enroll(r) \/ Update(r) \/ Commit(r) \/ Squad(r)
                        \/ DeadlockAborts(r) \/ Lost(r)

Spec == Init /\ [][Next]_vars

\* The relay gives a waiting row to a worker again and again, a handler goes on,
\* and a request's statements are run.  Nobody has to make a request.
FairSpec ==
  /\ Spec
  /\ \A i \in Import : WF_vars(\E w \in Worker : Take(w, i))
  /\ \A w \in Worker : WF_vars(Validate(w))
  /\ \A r \in Request : WF_vars(Step(r))
-----------------------------------------------------------------------------
\* However many operators confirm a file, its rows are applied by one of them
\* (markCommitting), and the audit log says so exactly when the session does.
AppliedOnce ==
  \A i \in Import : commits[i] = IF session[i] = "committed" THEN 1 ELSE 0

\* Files, walk-ups and their retries at once register nobody twice by alias; only a
\* file that names somebody twice does, or a club's submission, which does not look.
\* Who is recognised by natural key is nowhere locked, and may be entered again.
NamedTwice(i, a) ==
  \E j, k \in DOMAIN File[i] : j < k /\ File[i][j].alias = a /\ File[i][k].alias = a
TwiceBy(d, e) ==
  \/ "club-portal" \in {entrants[d].origin, entrants[e].origin}
  \/ \E i \in Import : session[i] = "committed" /\ NamedTwice(i, entrants[e].alias)
RegisteredOnce ==
  \A d, e \in DOMAIN entrants :
    d < e /\ entrants[d].alias = entrants[e].alias =>
      entrants[d].keyed \/ entrants[e].keyed \/ TwiceBy(d, e)

\* Every uploaded file is in the end previewed, unless a worker failed after it
\* marked it validating: the next one finds it not queued and leaves it.
EveryFileJudged ==
  \A i \in Import : session[i] = "queued" ~> (session[i] \in Settled \/ i \in abandoned)

\* Every request ends, with files that name the same rows in opposite orders.
EveryRequestEnds ==
  \A r \in Request : pc[r] # "idle" ~> pc[r] = "done"
=================================================================================
