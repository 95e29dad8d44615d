---------------------------- MODULE EnrollmentProofs ----------------------------
(***************************************************************************)
(* What holds of Enrollment for every set of files, aliases, workers and   *)
(* requests, and whatever the files name.                                  *)
(***************************************************************************)
EXTENDS Enrollment, TLAPS, FiniteSetTheorems, SequenceTheorems

USE NobodyAssumption, KeyAssumption DEF imports, workers, tables, lookups, written, scratch, requests

\* The part of the state a file's commit depends on.
Session == [Import -> {"queued", "validating"} \cup Settled]
Shape ==
  /\ session \in Session /\ commits \in [Import -> Nat]
  /\ holder \in [Row -> Request \cup {Nobody}]
  /\ DOMAIN op = Request /\ DOMAIN pc = Request
  /\ \A r \in Request : pc[r] # "idle" => op[r] \in Job

\* A request in the middle of a file's transaction.
Entry == {"find", "recognise", "claim", "write", "index", "enroll", "commit"}
Applying(r, i) == pc[r] \in Entry /\ op[r] = <<"commit", i>>

\* Markings last: such a request holds the session's row, and the session is as its
\* markCommitting found it.
Marked == \A r \in Request, i \in Import :
            Applying(r, i) => holder[i] = r /\ session[i] = "review-ready"
\* Only a review updates an entrant's row.
Route  == \A r \in Request : pc[r] = "update" => op[r][1] = "review"
Once   == Shape /\ Marked /\ Route /\ AppliedOnce

LEMMA JobKinds ==
  ASSUME NEW what \in Job
  PROVE  /\ what[1] = "commit" => \E i \in Import : what = <<"commit", i>>
         /\ what[1] \in {"commit", "create", "submit", "review"}
BY DEF Job

LEMMA OnceInit == Init => Once
<1> SUFFICES ASSUME Init PROVE Once
  OBVIOUS
<1>1. session \in Session
  BY DEF Init, Session, Settled
<1>2. Shape
  BY <1>1 DEF Init, Shape
<1>3. AppliedOnce
  BY DEF Init, AppliedOnce
<1> QED BY <1>2, <1>3 DEF Init, Once, Marked, Applying, Entry, Route

\* A step of r that leaves the sessions alone and ends, or goes on with what it holds.
LEMMA OnceKept ==
  ASSUME Once, NEW r \in Request, UNCHANGED <<session, commits, op>>, pc[r] # "idle",
         NEW place \in Entry \cup {"update", "squad", "done"}, Goto(r, place),
         \A i \in Import : Applying(r, i)' => Applying(r, i),
         place = "update" => op[r][1] = "review",
         \/ holder' = holder
         \/ \E x \in Row : holder[x] \in {Nobody, r} /\ holder' = [holder EXCEPT ![x] = r]
         \/ place \in {"squad", "done"} /\ holder' = Released(r)
  PROVE  Once'
<1>1. pc' = [pc EXCEPT ![r] = place] /\ DOMAIN pc' = Request /\ pc'[r] = place
  BY DEF Goto, Once, Shape
<1>2. holder' \in [Row -> Request \cup {Nobody}]
  BY DEF Released, Once, Shape
<1>3. Shape'
  BY <1>1, <1>2 DEF Once, Shape
<1>4. Marked'
  <2> SUFFICES ASSUME NEW q \in Request, NEW i \in Import, Applying(q, i)'
               PROVE  holder'[i] = q /\ session[i] = "review-ready"
    BY DEF Marked
  <2>1. Applying(q, i)
    BY <1>1 DEF Applying, Entry, Once, Shape
  <2>2. holder[i] = q /\ session[i] = "review-ready" /\ i \in Row
    BY <2>1 DEF Once, Marked, Row
  <2>3. place \in {"squad", "done"} => q # r
    BY <1>1 DEF Applying, Entry
  <2> QED BY <2>2, <2>3 DEF Released, Once, Shape
<1>5. Route'
  BY <1>1 DEF Once, Route, Shape
<1> QED BY <1>3, <1>4, <1>5 DEF Once, AppliedOnce

LEMMA OnceRollback ==
  ASSUME Once, NEW r \in Request, pc[r] # "idle", Rollback(r), UNCHANGED imports
  PROVE  Once'
<1>1. Goto(r, "done") /\ holder' = Released(r) /\ UNCHANGED <<session, commits, op>>
  BY DEF Rollback, Forget
<1>2. \A i \in Import : Applying(r, i)' => Applying(r, i)
  BY <1>1 DEF Goto, Applying, Entry, Once, Shape
<1> QED BY <1>1, <1>2, OnceKept

LEMMA OnceBegin ==
  ASSUME Once, NEW r \in Request, NEW what \in Job, NEW place, NEW list, Begin(r, what, place, list),
         \A i \in Import : what = <<"commit", i>> => place = "mark",
         place = "update" => what[1] = "review"
  PROVE  Once'
<1>1. /\ op' = [op EXCEPT ![r] = what] /\ pc' = [pc EXCEPT ![r] = place]
      /\ UNCHANGED <<session, commits, holder>> /\ pc[r] = "idle"
  BY DEF Begin, Goto
<1>2. Shape'
  BY <1>1 DEF Once, Shape
<1>3. \A q \in Request \ {r} : op'[q] = op[q] /\ pc'[q] = pc[q]
  BY <1>1 DEF Once, Shape
<1>4. op'[r] = what /\ pc'[r] = place
  BY <1>1 DEF Once, Shape
<1>5. Marked'
  <2> SUFFICES ASSUME NEW q \in Request, NEW i \in Import, Applying(q, i)'
               PROVE  holder'[i] = q /\ session'[i] = "review-ready"
    BY DEF Marked
  <2>1. q # r
    BY <1>4 DEF Applying, Entry
  <2>2. Applying(q, i)
    BY <1>3, <2>1 DEF Applying
  <2> QED BY <1>1, <2>2 DEF Once, Marked
<1>6. Route'
  BY <1>3, <1>4 DEF Once, Route
<1> QED BY <1>1, <1>2, <1>5, <1>6 DEF Once, AppliedOnce

LEMMA OnceMark ==
  ASSUME Once, NEW r \in Request, MarkCommitting(r)
  PROVE  Once'
<1>1. pc[r] = "mark" /\ UNCHANGED imports
  BY DEF MarkCommitting
<1> DEFINE i == op[r][2]
<1>2. CASE ~ Committable(i)
  BY <1>1, <1>2, OnceRollback DEF MarkCommitting
<1>3. CASE Committable(i)
  <2> PICK place \in {"commit", "find"} : Goto(r, place)
    BY <1>3 DEF MarkCommitting
  <2>1. /\ holder[i] = Nobody /\ holder' = [holder EXCEPT ![i] = r]
        /\ session[i] = "review-ready" /\ UNCHANGED <<session, commits, op>>
    BY <1>3 DEF MarkCommitting, Hold, Committable
  <2>2. pc'[r] = place /\ \A q \in Request \ {r} : pc'[q] = pc[q]
    BY DEF Goto, Once, Shape
  <2>3. Shape'
    BY <1>1, <2>1, <2>2 DEF Goto, Once, Shape
  <2>4. Marked'
    <3> SUFFICES ASSUME NEW q \in Request, NEW j \in Import, Applying(q, j)'
                 PROVE  holder'[j] = q /\ session[j] = "review-ready"
      BY <2>1 DEF Marked
    <3>1. CASE q = r
      <4>1. op[r] = <<"commit", j>> /\ i = j /\ j \in Row
        BY <2>1, <3>1 DEF Applying, Entry, Row
      <4> QED BY <2>1, <3>1, <4>1 DEF Once, Shape
    <3>2. CASE q # r
      <4>1. holder[j] = q /\ session[j] = "review-ready" /\ j \in Row
        BY <2>1, <2>2, <3>2 DEF Applying, Entry, Once, Marked, Row
      <4> QED BY <2>1, <4>1 DEF Once, Shape
    <3> QED BY <3>1, <3>2
  <2>5. Route'
    BY <2>1, <2>2 DEF Once, Route
  <2> QED BY <2>1, <2>3, <2>4, <2>5 DEF Once, AppliedOnce
<1> QED BY <1>2, <1>3

LEMMA OnceCommit ==
  ASSUME Once, NEW r \in Request, Commit(r)
  PROVE  Once'
<1>1. pc[r] = "commit" /\ op[r] \in Job /\ op' = op /\ holder' = Released(r)
  BY DEF Commit, Forget, Once, Shape
<1>2. PICK place \in {"done", "update", "squad"} : Goto(r, place) /\ (place = "update" => op[r][1] = "review")
  BY DEF Commit
<1>3. CASE op[r][1] # "commit"
  <2>1. UNCHANGED <<session, commits>>
    BY <1>3 DEF Commit
  <2>2. \A i \in Import : op[r] # <<"commit", i>>
    BY <1>3
  <2>3. \A i \in Import : Applying(r, i)' => Applying(r, i)
    BY <1>1, <2>2 DEF Applying, Entry
  <2>4. pc'[r] = place /\ \A q \in Request \ {r} : pc'[q] = pc[q]
    BY <1>2 DEF Goto, Once, Shape
  <2>5. holder' \in [Row -> Request \cup {Nobody}] /\ DOMAIN pc' = Request
    BY <1>1, <1>2 DEF Goto, Released, Once, Shape
  <2>6. Shape'
    BY <1>1, <2>1, <2>4, <2>5 DEF Once, Shape
  <2>7. Marked'
    <3> SUFFICES ASSUME NEW q \in Request, NEW i \in Import, Applying(q, i)'
                 PROVE  holder'[i] = q /\ session[i] = "review-ready"
      BY <2>1 DEF Marked
    <3>1. q # r /\ Applying(q, i)
      BY <1>1, <2>2, <2>4 DEF Applying, Entry
    <3>2. holder[i] = q /\ session[i] = "review-ready" /\ i \in Row
      BY <3>1 DEF Once, Marked, Row
    <3> QED BY <1>1, <3>1, <3>2 DEF Released
  <2>8. Route'
    BY <1>1, <1>2, <2>4 DEF Once, Route
  <2> QED BY <2>1, <2>6, <2>7, <2>8 DEF Once, AppliedOnce
<1>4. CASE op[r][1] = "commit"
  <2> PICK i \in Import : op[r] = <<"commit", i>>
    BY <1>1, <1>4, JobKinds
  <2>1. /\ session' = [session EXCEPT ![i] = "committed"]
        /\ commits' = [commits EXCEPT ![i] = @ + 1]
    BY <1>4 DEF Commit
  <2>2. holder[i] = r /\ session[i] = "review-ready" /\ commits[i] = 0
    BY <1>1 DEF Once, Marked, Applying, Entry, AppliedOnce
  <2>3. pc'[r] = place /\ \A q \in Request \ {r} : pc'[q] = pc[q]
    BY <1>2 DEF Goto, Once, Shape
  <2>4. holder' \in [Row -> Request \cup {Nobody}] /\ DOMAIN pc' = Request
    BY <1>1, <1>2 DEF Goto, Released, Once, Shape
  <2>5. Shape'
    <3>1. session' \in Session /\ commits' \in [Import -> Nat]
      BY <2>1 DEF Once, Shape, Session, Settled
    <3> QED BY <1>1, <2>3, <2>4, <3>1 DEF Once, Shape
  <2>6. Marked'
    <3> SUFFICES ASSUME NEW q \in Request, NEW j \in Import, Applying(q, j)'
                 PROVE  holder'[j] = q /\ session'[j] = "review-ready"
      BY DEF Marked
    <3>1. q # r /\ Applying(q, j)
      BY <1>1, <2>3 DEF Applying, Entry
    <3>2. holder[j] = q /\ session[j] = "review-ready" /\ j \in Row /\ j # i
      BY <2>2, <3>1 DEF Once, Marked, Row
    <3> QED BY <1>1, <2>1, <3>1, <3>2 DEF Released, Once, Shape, Session
  <2>7. Route'
    BY <1>1, <1>2, <2>3 DEF Once, Route
  <2>8. AppliedOnce'
    BY <2>1, <2>2 DEF Once, Shape, Session, AppliedOnce
  <2> QED BY <2>5, <2>6, <2>7, <2>8 DEF Once
<1> QED BY <1>3, <1>4

LEMMA OnceStep ==
  ASSUME Once, NEW r \in Request, Step(r)
  PROVE  Once'
<1>1. CASE Find(r) \/ Recognise(r) \/ Claim(r)
  <2>1. CASE Rollback(r)
    <3>1. pc[r] # "idle" /\ UNCHANGED imports
      BY <1>1 DEF Find, Recognise, Claim
    <3> QED BY <2>1, <3>1, OnceRollback
  <2>2. CASE ~ Rollback(r)
    <3>1. PICK place \in {"recognise", "claim", "write", "enroll"} : Goto(r, place)
      BY <1>1, <2>2 DEF Find, Recognise, Claim
    <3>2. UNCHANGED <<session, commits, op, holder>> /\ pc[r] \in {"find", "recognise", "claim"}
      BY <1>1, <2>2 DEF Find, Recognise, Claim
    <3>3. \A i \in Import : Applying(r, i)' => Applying(r, i)
      BY <3>2 DEF Applying, Entry
    <3> QED BY <3>1, <3>2, <3>3, OnceKept DEF Entry
  <2> QED BY <2>1, <2>2
<1>2. CASE Write(r)
  <2>1. CASE Rollback(r)
    BY <1>2, <2>1, OnceRollback DEF Write
  <2>2. CASE ~ Rollback(r)
    <3> DEFINE x == Taken(r)
    <3>1. PICK place \in {"index", "enroll"} : Goto(r, place)
      BY <1>2, <2>2 DEF Write
    <3>2. /\ UNCHANGED <<session, commits, op>> /\ pc[r] \in {"write", "index"}
          /\ holder[x] \in {Nobody, r} /\ holder' = [holder EXCEPT ![x] = r]
      BY <1>2, <2>2 DEF Write, Free, Behind, Hold
    <3>3. \A i \in Import : Applying(r, i)' => Applying(r, i)
      BY <3>2 DEF Applying, Entry
    <3>4. holder' = holder \/ x \in Row
      BY <3>2 DEF Once, Shape
    <3> HIDE DEF x
    <3> QED BY <3>1, <3>2, <3>3, <3>4, OnceKept DEF Entry
  <2> QED BY <2>1, <2>2
<1>3. CASE Enroll(r)
  <2>1. PICK place \in {"commit", "find"} : Goto(r, place)
    BY <1>3 DEF Enroll
  <2>2. UNCHANGED <<session, commits, op, holder>> /\ pc[r] = "enroll"
    BY <1>3 DEF Enroll
  <2>3. \A i \in Import : Applying(r, i)' => Applying(r, i)
    BY <2>2 DEF Applying, Entry
  <2>4. place \in Entry \cup {"update", "squad", "done"} /\ place # "update"
    BY DEF Entry
  <2> QED BY <2>1, <2>2, <2>3, <2>4, OnceKept
<1>4. CASE Update(r)
  <2>1. /\ Goto(r, "commit") /\ UNCHANGED <<session, commits, op>> /\ pc[r] = "update"
        /\ holder[Current(r)] \in {Nobody, r} /\ holder' = [holder EXCEPT ![Current(r)] = r]
    BY <1>4 DEF Update, Free, Behind, Hold
  <2>2. \A i \in Import : ~ Applying(r, i)'
    <3>1. op[r][1] = "review"
      BY <2>1 DEF Once, Route
    <3> QED BY <2>1, <3>1 DEF Applying, Entry
  <2>3. holder' = holder \/ Current(r) \in Row
    BY <2>1 DEF Once, Shape
  <2>4. "commit" \in Entry \cup {"update", "squad", "done"}
    BY DEF Entry
  <2> QED BY <2>1, <2>2, <2>3, <2>4, OnceKept
<1>5. CASE Squad(r)
  <2>1. Goto(r, "done") /\ UNCHANGED <<session, commits, op, holder>> /\ pc[r] = "squad"
    BY <1>5 DEF Squad
  <2>2. \A i \in Import : Applying(r, i)' => Applying(r, i)
    BY <2>1 DEF Goto, Applying, Entry, Once, Shape
  <2> QED BY <2>1, <2>2, OnceKept
<1>6. CASE DeadlockAborts(r)
  <2>1. pc[r] # "idle"
    BY <1>6 DEF DeadlockAborts, Blockers, Wants
  <2> QED BY <1>6, <2>1, OnceRollback DEF DeadlockAborts
<1> QED BY <1>1, <1>2, <1>3, <1>4, <1>5, <1>6, OnceMark, OnceCommit DEF Step

\* A validation never writes a session that is up for review: what it finds committed,
\* or about to be, it leaves.
LEMMA OnceWorker ==
  ASSUME Once, NEW w \in Worker,
         \/ \E i \in Import : Take(w, i)
         \/ MarkValidating(w) \/ ValidationFails(w)
         \/ \E valid \in BOOLEAN : StorePreview(w, valid)
  PROVE  Once'
<1>1. UNCHANGED <<commits, holder, op, pc>>
  BY DEF Take, MarkValidating, ValidationFails, StorePreview
<1>2. /\ session' \in Session
      /\ \A i \in Import : session'[i] = session[i] \/
           (session[i] \in {"queued", "validating"} /\ session'[i] \in {"validating", "review-ready", "invalid"})
  <2>1. \/ session' = session
        \/ \E i, s : /\ session' = [session EXCEPT ![i] = s]
                     /\ session[i] \in {"queued", "validating"}
                     /\ s \in {"validating", "review-ready", "invalid"}
    BY DEF Take, MarkValidating, ValidationFails, StorePreview, Previewable
  <2> QED BY <2>1 DEF Once, Shape, Session, Settled
<1>3. Shape'
  BY <1>1, <1>2 DEF Once, Shape
<1>4. Marked'
  BY <1>1, <1>2 DEF Once, Marked, Applying, Entry
<1>5. AppliedOnce'
  BY <1>1, <1>2 DEF Once, AppliedOnce
<1> QED BY <1>1, <1>3, <1>4, <1>5 DEF Once, Route

LEMMA OnceNext == Once /\ [Next]_vars => Once'
<1> SUFFICES ASSUME Once, [Next]_vars PROVE Once'
  OBVIOUS
<1>1. CASE UNCHANGED vars
  BY <1>1 DEF vars, Once, Shape, Marked, Applying, Entry, Route, AppliedOnce
<1>2. ASSUME NEW r \in Request, NEW i \in Import, CommitImport(r, i) PROVE Once'
  BY <1>2, OnceBegin DEF CommitImport, Job
<1>3. ASSUME NEW r \in Request, NEW what \in {"create", "submit"}, NEW a \in Alias,
             \E place \in {"recognise", "claim", "enroll"} : \E list : Begin(r, <<what, a>>, place, list)
      PROVE  Once'
  <2>1. <<what, a>> \in Job /\ \A i \in Import : <<what, a>> # <<"commit", i>>
    BY DEF Job
  <2>2. PICK place \in {"recognise", "claim", "enroll"} : \E list : Begin(r, <<what, a>>, place, list)
    BY <1>3
  <2>3. PICK list : Begin(r, <<what, a>>, place, list)
    BY <2>2
  <2> QED BY <2>1, <2>3, OnceBegin
<1>7. ASSUME NEW r \in Request, NEW l \in Line, Create(r, l) PROVE Once'
  <2>1. l.alias \in Alias /\ \E place \in {"recognise", "claim"} : \E list : Begin(r, <<"create", l.alias>>, place, list)
    BY <1>7 DEF Create, Line
  <2> QED BY <1>3, <2>1
<1>8. ASSUME NEW r \in Request, NEW a \in Alias, Submit(r, a) PROVE Once'
  <2>1. \E list : Begin(r, <<"submit", a>>, "enroll", list)
    BY <1>8, Zenon DEF Submit
  <2> QED BY <1>3, <2>1
<1>4. ASSUME NEW r \in Request, NEW chosen, NEW d \in Decision, Review(r, chosen, d) PROVE Once'
  <2>1. <<"review", d>> \in Job /\ <<"review", d>>[1] = "review"
    BY DEF Job
  <2>2. \A i \in Import : <<"review", d>> # <<"commit", i>>
    OBVIOUS
  <2>3. \E place, list : Begin(r, <<"review", d>>, place, list)
    BY <1>4, Zenon DEF Review
  <2> QED BY <2>1, <2>2, <2>3, OnceBegin
<1>5. ASSUME NEW r \in Request, Lost(r) PROVE Once'
  BY <1>5, OnceRollback DEF Lost
<1>6. ASSUME NEW r \in Request,
             \/ MarkCommitting(r) \/ Find(r) \/ Recognise(r) \/ Claim(r) \/ Write(r)
             \/ Enroll(r) \/ Update(r) \/ Commit(r) \/ Squad(r) \/ DeadlockAborts(r)
      PROVE Once'
  BY <1>6, OnceStep DEF Step
<1> QED BY <1>1, <1>2, <1>4, <1>5, <1>6, <1>7, <1>8, OnceWorker DEF Next

\* However many operators confirm however many files, and whatever workers validate them
\* meanwhile, a file is committed once, and its audit row is there exactly when its session
\* says so.
THEOREM FilesAreAppliedOnce == Spec => []AppliedOnce
<1>1. Once => AppliedOnce
  BY DEF Once
<1> QED BY <1>1, OnceInit, OnceNext, PTL DEF Spec
-----------------------------------------------------------------------------
(***************************************************************************)
(* Types, and who is registered.  An alias that a transaction inserted, or *)
(* enters by alias, is locked until it ends, so what its reads through the *)
(* pool said of the alias stays true: nobody else enters it but a club,    *)
(* which looks for nothing, and who recognises its person by natural key.  *)
(***************************************************************************)
\* In a transaction that enters somebody.
Entering(r) == pc[r] \in Entry /\ op[r][1] # "review"

\* What a request has yet to write fits what it is for.
Fits(r) ==
  /\ pc[r] = "mark" => op[r][1] = "commit"
  /\ pc[r] = "find" => op[r][1] = "commit"
  /\ pc[r] \in Entry \ {"commit"} => op[r][1] # "review" /\ rows[r] # <<>>
  /\ pc[r] = "update" => rows[r] # <<>>
  /\ pc[r] = "commit" /\ op[r][1] = "review" => rows[r] # <<>>
  /\ pc[r] = "mark" \/ Entering(r) => rows[r] \in Seq(Line)
  /\ ~ Entering(r) => created[r] = {} /\ entered[r] = <<>>
  /\ Entering(r) /\ op[r][1] \in {"create", "submit"} => Len(rows[r]) + Len(entered[r]) <= 1

\* A file's lines are written in its order: who is entered by alias came earlier in
\* it, and who is entered twice so is in it twice.
FollowsFile(r, i) ==
  LET n == Len(File[i]) - Len(rows[r]) IN
  /\ Len(rows[r]) <= Len(File[i])
  /\ \A k \in 1..Len(rows[r]) : rows[r][k] = File[i][n + k]
  /\ \A k \in 1..Len(entered[r]) : ~ entered[r][k].keyed =>
       \E p \in 1..n : File[i][p].alias = entered[r][k].alias
  /\ \A j, k \in 1..Len(entered[r]) :
       j < k /\ entered[r][j].alias = entered[r][k].alias /\ ~ entered[r][j].keyed /\ ~ entered[r][k].keyed
         => NamedTwice(i, entered[r][k].alias)

Follows(r) ==
  \A i \in Import : (pc[r] = "mark" \/ Entering(r)) /\ op[r] = <<"commit", i>> => FollowsFile(r, i)

\* What a request found, inserted or locked of the line it is at.
Finds(r) ==
  LET a == Current(r).alias IN
  /\ pc[r] \in {"mark"} \cup (Entry \ {"enroll", "commit"}) => ~ keyed[r]
  /\ pc[r] \in {"recognise", "claim", "write", "index"} =>
       /\ found[r] # Nobody => found[r] = a /\ a \in people
       /\ op[r][1] = "create" => found[r] = Nobody
  /\ pc[r] = "index" => Current(r).key # NoKey /\ (found[r] # Nobody => holder[a] = r)
  /\ pc[r] = "enroll" /\ keyed[r] => found[r] \in people
  /\ pc[r] = "enroll" /\ ~ keyed[r] =>
       /\ a \in people \cup created[r]
       /\ op[r][1] = "create" => a \in created[r]
       /\ op[r][1] # "submit" => holder[a] = r

\* Entered by alias: locked, and entered by no one but a club, or by natural key.
Held(r, a) ==
  /\ holder[a] = r
  /\ \A e \in DOMAIN entrants :
       entrants[e].alias = a => entrants[e].origin = "club-portal" \/ entrants[e].keyed

\* The aliases it inserted are its own.
Holds(r) ==
  /\ \A a \in created[r] : a \notin people /\ holder[a] = r
  /\ \A k \in 1..Len(entered[r]) :
       /\ entered[r][k].alias \in people \cup created[r]
       /\ op[r][1] # "submit" /\ ~ entered[r][k].keyed => Held(r, entered[r][k].alias)

\* What a request has in hand.
Careful(r) ==
  IF pc[r] = "idle" THEN created[r] = {} /\ entered[r] = <<>> /\ found[r] = Nobody /\ ~ keyed[r]
                    ELSE Fits(r) /\ Follows(r) /\ Finds(r) /\ Holds(r)

\* A worker that is at something is at a file.
AtFiles == \A w \in Worker : at[w] # "idle" => task[w] \in Import

Enlisting ==
  /\ TypeOK /\ Once
  /\ AtFiles
  /\ \A r \in Request : Careful(r)
  /\ RegisteredOnce

RowTypes == \A r \in Request : rows[r] \in Seq(IF Reviewing(r) THEN Reviewed ELSE Line)

EntryType == [alias : Alias, keyed : BOOLEAN]
RequestTypes ==
  /\ holder \in [Row -> Request \cup {Nobody}]
  /\ op \in [Request -> Job \cup {<<>>}]
  /\ pc \in [Request -> {"idle", "mark", "find", "recognise", "claim", "write", "index",
                         "enroll", "update", "commit", "squad", "done"}]
  /\ DOMAIN rows = Request /\ RowTypes
  /\ found \in [Request -> Alias \cup {Nobody}] /\ keyed \in [Request -> BOOLEAN]
  /\ created \in [Request -> SUBSET Alias]
  /\ given \in [Request -> [Alias -> Key \cup {NoKey}]]
  /\ entered \in [Request -> Seq(EntryType)]

EntrantType == [alias : people, status : Status, origin : Origin, keyed : BOOLEAN]
TableTypes ==
  /\ Known \subseteq people /\ people \subseteq Alias
  /\ key \in [Alias -> Key \cup {NoKey}]
  /\ entrants \in Seq(EntrantType)
  /\ squads \subseteq DOMAIN entrants

WorkerTypes ==
  /\ session \in Session
  /\ commits \in [Import -> Nat]
  /\ job \in [Import -> {"waiting", "done"}]
  /\ task \in [Worker -> Import \cup {Nobody}]
  /\ at \in [Worker -> {"idle", "found", "marked"}] /\ abandoned \subseteq Import
  /\ troubles \in 0..MaxTroubles

LEMMA TypeParts == TypeOK <=> RequestTypes /\ TableTypes /\ WorkerTypes
BY DEF TypeOK, RequestTypes, TableTypes, WorkerTypes, Session, RowTypes, EntryType, EntrantType

\* A request's list is of lines, or of entrants when it reviews, and gets shorter.
LEMMA RowsStay ==
  ASSUME RowTypes, UNCHANGED <<op, rows>>
  PROVE  RowTypes'
BY DEF RowTypes, Reviewing

LEMMA RowsShorten ==
  ASSUME RequestTypes, NEW r \in Request, rows[r] # <<>>, op' = op, rows' = [rows EXCEPT ![r] = Tail(rows[r])]
  PROVE  RowTypes' /\ DOMAIN rows' = Request
<1>1. \A q \in Request : Reviewing(q)' <=> Reviewing(q)
  BY DEF Reviewing
<1>2. ASSUME NEW q \in Request PROVE rows'[q] \in Seq(IF Reviewing(q) THEN Reviewed ELSE Line)
  <2>1. PICK T : T = IF Reviewing(q) THEN Reviewed ELSE Line
    OBVIOUS
  <2>2. rows[q] \in Seq(T)
    BY <2>1 DEF RequestTypes, RowTypes
  <2>3. q = r => Tail(rows[q]) \in Seq(T)
    BY <2>2
  <2>4. rows'[q] \in Seq(T)
    BY <2>2, <2>3 DEF RequestTypes
  <2> QED BY <2>1, <2>4
<1> QED BY <1>1, <1>2 DEF RowTypes, RequestTypes

\* What a request does.
Acts(r) ==
  \/ \E i \in Import : CommitImport(r, i)
  \/ \E l \in Line : Create(r, l)
  \/ \E a \in Alias : Submit(r, a)
  \/ \E chosen \in SUBSET (Reviewed \cap DOMAIN entrants), d \in Decision : Review(r, chosen, d)
  \/ Step(r) \/ Lost(r)

LEMMA BeginFacts ==
  ASSUME NEW r \in Request, NEW what, NEW place, NEW list, Begin(r, what, place, list)
  PROVE  /\ pc[r] = "idle" /\ op' = [op EXCEPT ![r] = what] /\ pc' = [pc EXCEPT ![r] = place]
         /\ rows' = [rows EXCEPT ![r] = list]
         /\ UNCHANGED <<imports, workers, tables, holder, lookups, written, troubles>>
BY DEF Begin, Goto

LEMMA RollbackFacts ==
  ASSUME NEW r \in Request, Rollback(r)
  PROVE  /\ holder' = Released(r) /\ pc' = [pc EXCEPT ![r] = "done"]
         /\ created' = [created EXCEPT ![r] = {}] /\ entered' = [entered EXCEPT ![r] = <<>>]
         /\ given' = [given EXCEPT ![r] = Keyless]
         /\ UNCHANGED <<op, rows, lookups>>
BY DEF Rollback, Forget, Goto

\* Where a request's step leaves the others: their variables, and their locks.
Stays(q) ==
  /\ pc'[q] = pc[q] /\ op'[q] = op[q] /\ rows'[q] = rows[q]
  /\ found'[q] = found[q] /\ keyed'[q] = keyed[q]
  /\ created'[q] = created[q] /\ entered'[q] = entered[q]
  /\ \A x \in Row : holder[x] = q => holder'[x] = q

LEMMA OthersStay ==
  ASSUME RequestTypes, NEW r \in Request, Acts(r), NEW q \in Request, q # r
  PROVE  Stays(q)
<1>1. ASSUME NEW what, NEW place, NEW list, Begin(r, what, place, list) PROVE Stays(q)
  BY <1>1, BeginFacts DEF RequestTypes, Stays
<1>2. ASSUME Rollback(r) PROVE Stays(q)
  BY <1>2, RollbackFacts DEF RequestTypes, Released, Stays
<1>3. CASE \/ MarkCommitting(r) \/ Find(r) \/ Recognise(r) \/ Claim(r) \/ Write(r)
           \/ DeadlockAborts(r) \/ Lost(r)
  <2>1. CASE ~ Rollback(r)
    <3>1. CASE MarkCommitting(r)
      BY <2>1, <3>1 DEF MarkCommitting, Hold, Goto, RequestTypes, Stays
    <3>2. CASE Find(r)
      BY <2>1, <3>2 DEF Find, Goto, RequestTypes, Stays
    <3>3. CASE Recognise(r)
      BY <2>1, <3>3 DEF Recognise, Goto, RequestTypes, Stays
    <3>4. CASE Claim(r)
      BY <2>1, <3>4 DEF Claim, Goto, RequestTypes, Stays
    <3>5. CASE Write(r)
      <4>1. /\ holder[Taken(r)] \in {Nobody, r} /\ holder' = [holder EXCEPT ![Taken(r)] = r]
            /\ \E place : pc' = [pc EXCEPT ![r] = place]
            /\ created' = created \/ \E c : created' = [created EXCEPT ![r] = c]
            /\ UNCHANGED <<op, rows, lookups, entered>>
        BY <2>1, <3>5 DEF Write, Free, Behind, Hold, Goto
      <4> QED BY <4>1 DEF RequestTypes, Stays
    <3> QED BY <1>3, <2>1, <3>1, <3>2, <3>3, <3>4, <3>5 DEF DeadlockAborts, Lost
  <2> QED BY <1>2, <2>1
<1>4. CASE Enroll(r)
  BY <1>4 DEF Enroll, Goto, RequestTypes, Stays
<1>5. CASE Update(r)
  BY <1>5 DEF Update, Goto, Hold, Free, Behind, RequestTypes, Stays
<1>6. CASE Commit(r)
  <2>1. /\ \E place : pc' = [pc EXCEPT ![r] = place]
        /\ rows' = rows \/ \E list : rows' = [rows EXCEPT ![r] = list]
        /\ holder' = Released(r) /\ UNCHANGED <<op, lookups>>
        /\ created' = [created EXCEPT ![r] = {}] /\ entered' = [entered EXCEPT ![r] = <<>>]
    BY <1>6 DEF Commit, Forget, Goto
  <2> QED BY <2>1 DEF RequestTypes, Released, Stays
<1>7. CASE Squad(r)
  BY <1>7 DEF Squad, Goto, RequestTypes, Stays
<1>8. ASSUME NEW chosen, NEW d, Review(r, chosen, d) PROVE Stays(q)
  <2>1. \E place, list : Begin(r, <<"review", d>>, place, list)
    BY <1>8, Zenon DEF Review
  <2> QED BY <1>1, <2>1
<1>9. CASE \/ \E i \in Import : CommitImport(r, i)
           \/ \E l \in Line : Create(r, l)
           \/ \E a \in Alias : Submit(r, a)
  <2>1. \E what, place, list : Begin(r, what, place, list)
    BY <1>9, Zenon DEF CommitImport, Create, Submit
  <2> QED BY <1>1, <2>1
<1> QED BY <1>3, <1>4, <1>5, <1>6, <1>7, <1>8, <1>9 DEF Acts, Step

\* What a step of r has to respect for another request's findings to stand: who
\* becomes known was locked by r, and so was who becomes an entrant, unless a club
\* enters it, or its natural key did.
Respects(r) ==
  /\ people \subseteq people'
  /\ \A a \in people' \ people : holder[a] = r
  /\ \A e \in DOMAIN entrants' :
       \/ /\ e \in DOMAIN entrants /\ entrants'[e].alias = entrants[e].alias
          /\ entrants'[e].origin = entrants[e].origin /\ entrants'[e].keyed = entrants[e].keyed
       \/ entrants'[e].origin = "club-portal" \/ entrants'[e].keyed
       \/ holder[entrants'[e].alias] = r

LEMMA OthersCareful ==
  ASSUME RequestTypes, NEW r \in Request, Acts(r), NEW q \in Request, q # r, Careful(q), Respects(r)
  PROVE  Careful(q)'
<1>1. /\ pc'[q] = pc[q] /\ op'[q] = op[q] /\ rows'[q] = rows[q]
      /\ found'[q] = found[q] /\ keyed'[q] = keyed[q]
      /\ created'[q] = created[q] /\ entered'[q] = entered[q]
      /\ \A x \in Row : holder[x] = q => holder'[x] = q
  BY OthersStay DEF Stays
<1>2. /\ Entering(q)' <=> Entering(q)
      /\ Current(q)' = Current(q)
  BY <1>1 DEF Entering, Current
<1>3. Fits(q) => Fits(q)'
  BY <1>1, <1>2 DEF Fits
<1>4. Follows(q) => Follows(q)'
  <2>1. \A i \in Import : FollowsFile(q, i)' <=> FollowsFile(q, i)
    BY <1>1 DEF FollowsFile, NamedTwice
  <2> QED BY <1>1, <1>2, <2>1 DEF Follows
<1>5. Fits(q) /\ Finds(q) => Finds(q)'
  <2>1. ASSUME pc[q] \in {"index", "enroll"}, Fits(q) PROVE Current(q).alias \in Row
    <3>1. rows[q] \in Seq(Line) /\ rows[q] # <<>>
      BY <2>1 DEF Fits, Entering, Entry
    <3>2. Current(q) \in Line
      BY <3>1 DEF Current
    <3> QED BY <3>2 DEF Line, Row
  <2>2. people \subseteq people'
    BY DEF Respects
  <2> QED BY <1>1, <1>2, <2>1, <2>2 DEF Finds
<1>6. Holds(q) => Holds(q)'
  <2>1. created[q] \subseteq Row /\ \A k \in 1..Len(entered[q]) : entered[q][k].alias \in Row
    <3>1. entered[q] \in Seq(EntryType)
      BY DEF RequestTypes
    <3>2. \A k \in 1..Len(entered[q]) : entered[q][k] \in EntryType
      BY <3>1
    <3> QED BY <3>2 DEF RequestTypes, Row, EntryType
  <2>2. ASSUME Holds(q), NEW a \in created[q] PROVE a \notin people' /\ holder'[a] = q
    BY <1>1, <2>1, <2>2 DEF Holds, Respects
  <2>3. ASSUME NEW a \in Row, Held(q, a) PROVE Held(q, a)'
    <3>1. holder'[a] = q
      BY <1>1, <2>3 DEF Held
    <3>2. ASSUME NEW e \in DOMAIN entrants', entrants'[e].alias = a
          PROVE  entrants'[e].origin = "club-portal" \/ entrants'[e].keyed
      <4>1. holder[a] # r
        BY <2>3 DEF Held
      <4>2. CASE /\ e \in DOMAIN entrants /\ entrants'[e].alias = entrants[e].alias
                 /\ entrants'[e].origin = entrants[e].origin /\ entrants'[e].keyed = entrants[e].keyed
        BY <2>3, <3>2, <4>2, Zenon DEF Held
      <4> QED BY <3>2, <4>1, <4>2, Zenon DEF Respects
    <3> QED BY <3>1, <3>2 DEF Held
  <2>4. ASSUME Holds(q), NEW k \in 1..Len(entered[q])
        PROVE  /\ entered[q][k].alias \in people' \cup created[q]
               /\ op[q][1] # "submit" /\ ~ entered[q][k].keyed => Held(q, entered[q][k].alias)'
    <3> PICK a \in Row : a = entered[q][k].alias
      BY <2>1
    <3>1. a = entered'[q][k].alias
      BY <1>1
    <3>2. op[q][1] # "submit" /\ ~ entered[q][k].keyed => Held(q, a)'
      BY <2>3, <2>4 DEF Holds
    <3>3. a \in people' \cup created[q]
      BY <2>4 DEF Holds, Respects
    <3> QED BY <3>1, <3>2, <3>3
  <2> QED BY <1>1, <2>2, <2>4 DEF Holds
<1>7. pc[q] = "idle" => Careful(q)'
  BY <1>1 DEF Careful
<1> QED BY <1>1, <1>3, <1>4, <1>5, <1>6, <1>7 DEF Careful

LEMMA SeqWider ==
  ASSUME NEW S, NEW T, S \subseteq T, NEW s \in Seq(S)
  PROVE  s \in Seq(T)
OBVIOUS

\* Whoever is at a row is at a line, but for a review.
LEMMA CurrentFacts ==
  ASSUME NEW r \in Request, Careful(r), pc[r] \in Entry \ {"commit"}
  PROVE  /\ rows[r] \in Seq(Line) /\ rows[r] # <<>> /\ Len(rows[r]) \in Nat \ {0}
         /\ Current(r) \in Line /\ Current(r) = rows[r][1]
         /\ Current(r).alias \in Alias /\ Current(r).alias \in Row
         /\ Entering(r) /\ op[r][1] # "review"
<1>1. rows[r] \in Seq(Line) /\ rows[r] # <<>> /\ Entering(r) /\ op[r][1] # "review"
  BY DEF Careful, Fits, Entering, Entry
<1>2. Current(r) \in Line /\ Current(r) = rows[r][1] /\ Len(rows[r]) \in Nat \ {0}
  BY <1>1 DEF Current
<1> QED BY <1>1, <1>2 DEF Row, Line

\* What one request does to the types of what it holds.
LEMMA RollbackKeeps ==
  ASSUME RequestTypes, NEW r \in Request, Rollback(r), pc[r] # "idle"
  PROVE  RequestTypes' /\ Careful(r)'
<1>1. /\ holder' = Released(r) /\ pc' = [pc EXCEPT ![r] = "done"]
      /\ created' = [created EXCEPT ![r] = {}] /\ entered' = [entered EXCEPT ![r] = <<>>]
      /\ given' = [given EXCEPT ![r] = Keyless]
      /\ UNCHANGED <<op, rows, lookups>>
  BY RollbackFacts
<1>2. /\ Released(r) \in [Row -> Request \cup {Nobody}] /\ <<>> \in Seq(EntryType)
      /\ Keyless \in [Alias -> Key \cup {NoKey}] /\ RowTypes'
  BY <1>1, RowsStay DEF RequestTypes, Released, Keyless
<1>3. RequestTypes'
  BY <1>1, <1>2 DEF RequestTypes
<1>4. pc'[r] = "done" /\ created'[r] = {} /\ entered'[r] = <<>> /\ 1..Len(entered'[r]) = {}
  BY <1>1 DEF RequestTypes
<1>5. Careful(r)'
  BY <1>4 DEF Careful, Fits, Follows, Finds, Holds, Entering, Entry
<1> QED BY <1>3, <1>5

LEMMA BeginKeeps ==
  ASSUME RequestTypes, NEW r \in Request, Careful(r), NEW what \in Job, NEW list,
         list \in Seq(IF what[1] = "review" THEN Reviewed ELSE Line),
         NEW place \in {"mark", "recognise", "claim", "enroll", "update", "done"},
         Begin(r, what, place, list),
         place = "mark" => \E i \in Import : what = <<"commit", i>> /\ list = File[i],
         place \in {"recognise", "claim", "enroll"} =>
           what[1] \in {"create", "submit"} /\ \E l \in Line : list = <<l>>,
         place = "enroll" => what[1] = "submit" /\ list[1].alias \in people,
         place = "update" => list # <<>>
  PROVE  RequestTypes' /\ Careful(r)'
<1>1. /\ pc[r] = "idle" /\ op' = [op EXCEPT ![r] = what] /\ pc' = [pc EXCEPT ![r] = place]
      /\ rows' = [rows EXCEPT ![r] = list]
      /\ UNCHANGED <<people, holder, lookups, written>>
  BY BeginFacts
<1>2. RequestTypes'
  <2>1. RowTypes'
    <3> SUFFICES ASSUME NEW q \in Request
                 PROVE  rows'[q] \in Seq(IF Reviewing(q)' THEN Reviewed ELSE Line)
      BY DEF RowTypes
    <3>1. CASE q = r
      <4>1. op'[r] = what /\ rows'[r] = list /\ what # <<>>
        BY <1>1 DEF RequestTypes, Job
      <4>2. Reviewing(r)' <=> what[1] = "review"
        BY <4>1 DEF Reviewing
      <4> QED BY <3>1, <4>1, <4>2
    <3>2. CASE q # r
      <4>1. (Reviewing(q)' <=> Reviewing(q)) /\ rows'[q] = rows[q]
        BY <1>1, <3>2 DEF Reviewing, RequestTypes
      <4> QED BY <4>1 DEF RequestTypes, RowTypes
    <3> QED BY <3>1, <3>2
  <2> QED BY <1>1, <2>1 DEF RequestTypes
<1>3. /\ op'[r] = what /\ pc'[r] = place /\ rows'[r] = list
      /\ created'[r] = {} /\ entered'[r] = <<>> /\ Len(<<>>) = 0
      /\ found'[r] = Nobody /\ ~ keyed'[r]
  BY <1>1 DEF RequestTypes, Careful
<1>4. Entering(r)' => place \in {"recognise", "claim", "enroll"}
  BY <1>3 DEF Entering, Entry
<1>5. ASSUME NEW l \in Line, list = <<l>>
      PROVE  list \in Seq(Line) /\ list # <<>> /\ Len(list) = 1 /\ Head(list) = list[1]
  BY <1>5
<1>6. Fits(r)'
  <2>1. place = "mark" => what[1] = "commit" /\ list \in Seq(Line)
    BY FileAssumption DEF Line
  <2>2. place \in {"recognise", "claim", "enroll"} =>
          list \in Seq(Line) /\ list # <<>> /\ Len(list) = 1 /\ what[1] # "review"
    BY <1>5
  <2>3. /\ place \in Entry \ {"commit"} => place \in {"recognise", "claim", "enroll"}
        /\ place # "find" /\ place # "commit"
    BY DEF Entry
  <2>4. Entering(r)' => Len(rows'[r]) + Len(entered'[r]) <= 1
    <3> SUFFICES ASSUME Entering(r)'
                 PROVE  Len(rows'[r]) + Len(entered'[r]) <= 1
      OBVIOUS
    <3>1. Len(rows'[r]) = 1
      BY <1>3, <1>4, <2>2
    <3>2. Len(entered'[r]) = 0
      BY <1>3
    <3> QED BY <3>1, <3>2
  <2> QED BY <1>3, <1>4, <2>1, <2>2, <2>3, <2>4 DEF Fits
<1>7. Follows(r)'
  <2> SUFFICES ASSUME NEW i \in Import, pc'[r] = "mark" \/ Entering(r)', op'[r] = <<"commit", i>>
               PROVE  FollowsFile(r, i)'
    BY DEF Follows
  <2>1. list = File[i]
    BY <1>3, <1>4
  <2>2. Len(File[i]) \in Nat
    BY FileAssumption
  <2> QED BY <1>3, <2>1, <2>2 DEF FollowsFile
<1>8. Finds(r)'
  <2>1. place = "enroll" => Head(list) = list[1] /\ what[1] = "submit" /\ list[1].alias \in people
    BY <1>5
  <2> QED BY <1>1, <1>3, <2>1 DEF Finds, Current
<1>9. Holds(r)'
  <2>1. 1..Len(entered'[r]) = {}
    BY <1>3
  <2> QED BY <1>3, <2>1 DEF Holds
<1> QED BY <1>2, <1>3, <1>6, <1>7, <1>8, <1>9 DEF Careful

\* A request that begins.
LEMMA ArrivalKeeps ==
  ASSUME RequestTypes, NEW r \in Request, Careful(r),
         \/ \E i \in Import : CommitImport(r, i)
         \/ \E l \in Line : Create(r, l)
         \/ \E a \in Alias : Submit(r, a)
         \/ \E chosen \in SUBSET (Reviewed \cap DOMAIN entrants), d \in Decision : Review(r, chosen, d)
  PROVE  /\ RequestTypes' /\ Careful(r)'
         /\ UNCHANGED <<imports, workers, tables, troubles>>
<1>1. ASSUME NEW i \in Import, CommitImport(r, i)
      PROVE  RequestTypes' /\ Careful(r)' /\ UNCHANGED <<imports, workers, tables, troubles>>
  <2>1. <<"commit", i>> \in Job /\ <<"commit", i>>[1] # "review"
    BY DEF Job
  <2>2. File[i] \in Seq(Line)
    BY FileAssumption DEF Line
  <2>3. Begin(r, <<"commit", i>>, "mark", File[i])
    BY <1>1 DEF CommitImport
  <2> QED BY <2>1, <2>2, <2>3, BeginFacts, BeginKeeps
<1>2. ASSUME NEW l \in Line, NEW a \in Alias, NEW what \in {"create", "submit"},
             NEW place \in {"recognise", "claim", "enroll"}, Begin(r, <<what, a>>, place, <<l>>),
             place = "enroll" => what = "submit" /\ l.alias \in people
      PROVE  RequestTypes' /\ Careful(r)' /\ UNCHANGED <<imports, workers, tables, troubles>>
  <2>1. <<what, a>> \in Job /\ <<what, a>>[1] = what /\ what # "review"
    BY DEF Job
  <2>2. <<l>> \in Seq(Line) /\ <<l>>[1] = l
    OBVIOUS
  <2> DEFINE this == <<what, a>>
             list == <<l>>
  <2>3. /\ this \in Job /\ this[1] \in {"create", "submit"} /\ Begin(r, this, place, list)
        /\ list \in Seq(IF this[1] = "review" THEN Reviewed ELSE Line)
        /\ \E x \in Line : list = <<x>>
        /\ place = "enroll" => this[1] = "submit" /\ list[1].alias \in people
    BY <1>2, <2>1, <2>2
  <2> HIDE DEF this, list
  <2> QED BY <1>2, <2>3, BeginFacts, BeginKeeps
<1>3. ASSUME NEW l \in Line, Create(r, l)
      PROVE  RequestTypes' /\ Careful(r)' /\ UNCHANGED <<imports, workers, tables, troubles>>
  <2>1. l.alias \in Alias
    BY DEF Line
  <2>2. PICK place \in {"recognise", "claim"} : Begin(r, <<"create", l.alias>>, place, <<l>>)
    BY <1>3 DEF Create
  <2> QED BY <1>2, <2>1, <2>2
<1>4. ASSUME NEW a \in Alias, Submit(r, a)
      PROVE  RequestTypes' /\ Careful(r)' /\ UNCHANGED <<imports, workers, tables, troubles>>
  <2> DEFINE l == [alias |-> a, key |-> NoKey]
  <2>1. l \in Line /\ l.alias = a
    BY DEF Line
  <2>2. Begin(r, <<"submit", a>>, "enroll", <<l>>) /\ a \in people
    BY <1>4 DEF Submit
  <2> HIDE DEF l
  <2> QED BY <1>2, <2>1, <2>2
<1>5. ASSUME NEW chosen \in SUBSET (Reviewed \cap DOMAIN entrants), NEW d \in Decision, Review(r, chosen, d)
      PROVE  RequestTypes' /\ Careful(r)' /\ UNCHANGED <<imports, workers, tables, troubles>>
  <2> DEFINE planned == {e \in chosen : CanDecide(entrants[e].status, d)}
  <2>1. PICK list \in InOrder(planned) :
          Begin(r, <<"review", d>>, IF list = <<>> THEN "done" ELSE "update", list)
    BY <1>5 DEF Review
  <2>2. <<"review", d>> \in Job /\ <<"review", d>>[1] = "review"
    BY DEF Job
  <2>3. list \in Seq(Reviewed)
    <3>1. IsFiniteSet(planned)
      <4>1. IsFiniteSet(Reviewed)
        BY BoundAssumption, FS_Interval DEF Reviewed
      <4> QED BY <4>1, FS_Subset
    <3>2. Cardinality(planned) \in Nat
      BY <3>1, FS_CardinalityType
    <3>3. planned \subseteq Reviewed /\ list \in [1..Cardinality(planned) -> planned]
      BY DEF InOrder
    <3> HIDE DEF planned
    <3> QED BY <3>2, <3>3
  <2>4. CASE list = <<>>
    <3>1. Begin(r, <<"review", d>>, "done", list)
      BY <2>1, <2>4
    <3> QED BY <2>2, <2>3, <3>1, BeginFacts, BeginKeeps
  <2>5. CASE list # <<>>
    <3>1. Begin(r, <<"review", d>>, "update", list)
      BY <2>1, <2>5
    <3> QED BY <2>2, <2>3, <2>5, <3>1, BeginFacts, BeginKeeps
  <2> QED BY <2>4, <2>5
<1> QED BY <1>1, <1>3, <1>4, <1>5

\* The statements of a transaction that is not over.
LEMMA MarkKeeps ==
  ASSUME RequestTypes, NEW r \in Request, Careful(r), MarkCommitting(r)
  PROVE  RequestTypes' /\ Careful(r)'
<1>1. pc[r] = "mark" /\ op[r][1] = "commit" /\ rows[r] \in Seq(Line)
      /\ created[r] = {} /\ entered[r] = <<>> /\ Follows(r) /\ ~ keyed[r]
  BY DEF MarkCommitting, Careful, Fits, Finds, Entering, Entry
<1>2. CASE Rollback(r)
  BY <1>1, <1>2, RollbackKeeps
<1>3. CASE ~ Rollback(r)
  <2>1. PICK place \in {"commit", "find"} :
          /\ pc' = [pc EXCEPT ![r] = place] /\ (place = "find" => rows[r] # <<>>)
          /\ holder' = [holder EXCEPT ![op[r][2]] = r]
          /\ UNCHANGED <<op, rows, lookups, written>>
    BY <1>3 DEF MarkCommitting, Hold, Goto
  <2>2. pc'[r] = place /\ Entering(r)'
    BY <1>1, <2>1 DEF RequestTypes, Entering, Entry
  <2>3. RequestTypes'
    BY <2>1, RowsStay DEF RequestTypes
  <2>4. Fits(r)' /\ Finds(r)' /\ Holds(r)'
    <3>1. Fits(r)'
      BY <1>1, <2>1, <2>2 DEF Fits, Entry
    <3>2. Finds(r)'
      BY <1>1, <2>1, <2>2 DEF Finds
    <3>3. created'[r] = {} /\ 1..Len(entered'[r]) = {}
      BY <1>1, <2>1
    <3>4. Holds(r)'
      BY <3>3 DEF Holds
    <3> QED BY <3>1, <3>2, <3>4
  <2>5. Follows(r)'
    <3>1. \A i \in Import : op[r] = <<"commit", i>> => FollowsFile(r, i)
      BY <1>1 DEF Follows
    <3>2. \A i \in Import : FollowsFile(r, i)' <=> FollowsFile(r, i)
      BY <2>1 DEF FollowsFile, NamedTwice
    <3> QED BY <2>1, <3>1, <3>2 DEF Follows
  <2> QED BY <2>2, <2>3, <2>4, <2>5 DEF Careful
<1> QED BY <1>2, <1>3

\* A lookup, or half a statement: r goes on with the line it is at.
LEMMA LineKept ==
  ASSUME RequestTypes, NEW r \in Request, Careful(r), pc[r] \in Entry \ {"commit"},
         NEW place \in Entry \ {"commit", "find"}, Goto(r, place),
         UNCHANGED <<people, entrants, op, rows, entered>>,
         \A x \in Row : holder[x] = r => holder'[x] = r,
         created'[r] = created[r]
  PROVE  /\ pc'[r] = place /\ Fits(r)' /\ Follows(r)' /\ Holds(r)'
         /\ Current(r)' = Current(r) /\ RowTypes' /\ DOMAIN rows' = Request
<1>1. pc'[r] = place /\ Entering(r)' /\ Entering(r) /\ Current(r)' = Current(r)
  BY CurrentFacts DEF RequestTypes, Entering, Goto, Current
<1>2. RowTypes' /\ DOMAIN rows' = Request
  BY RowsStay DEF RequestTypes
<1>3. Fits(r)'
  BY <1>1, CurrentFacts DEF Careful, Fits, Entry
<1>4. Follows(r)'
  <2>1. \A i \in Import : op[r] = <<"commit", i>> => FollowsFile(r, i)
    BY <1>1 DEF Careful, Follows, Entry
  <2>2. \A i \in Import : FollowsFile(r, i)' <=> FollowsFile(r, i)
    BY DEF FollowsFile, NamedTwice
  <2> QED BY <2>1, <2>2 DEF Follows
<1>5. Holds(r)'
  <2>1. Holds(r)
    BY DEF Careful, Entry
  <2>2. created[r] \subseteq Row
    BY DEF RequestTypes, Row
  <2>3. ASSUME NEW k \in 1..Len(entered[r])
        PROVE  /\ entered[r][k].alias \in people \cup created[r]
               /\ op[r][1] # "submit" /\ ~ entered[r][k].keyed => Held(r, entered[r][k].alias)'
    <3>1. entered[r] \in Seq(EntryType)
      BY DEF RequestTypes
    <3>2. entered[r][k] \in EntryType
      BY <3>1
    <3> PICK a \in Row : a = entered[r][k].alias
      BY <3>2 DEF EntryType, Row
    <3>3. op[r][1] # "submit" /\ ~ entered[r][k].keyed => Held(r, a)
      BY <2>1 DEF Holds
    <3>4. Held(r, a) => Held(r, a)'
      BY DEF Held
    <3>5. a \in people \cup created[r] /\ a = entered'[r][k].alias
      BY <2>1 DEF Holds
    <3> QED BY <3>3, <3>4, <3>5
  <2> QED BY <2>1, <2>2, <2>3 DEF Holds
<1> QED BY <1>1, <1>2, <1>3, <1>4, <1>5

LEMMA LookupKeeps ==
  ASSUME RequestTypes, people \subseteq Alias, NEW r \in Request, Careful(r),
         Find(r) \/ Recognise(r) \/ Claim(r)
  PROVE  RequestTypes' /\ Careful(r)'
<1>1. pc[r] \in {"find", "recognise", "claim"} /\ UNCHANGED tables /\ Finds(r) /\ Fits(r)
  BY DEF Find, Recognise, Claim, Careful
<1>2. CASE Rollback(r)
  BY <1>1, <1>2, RollbackKeeps
<1>3. CASE ~ Rollback(r)
  <2> DEFINE a == Current(r).alias
  <2>0. a \in Alias /\ Current(r) \in Line /\ ~ keyed[r]
    BY <1>1, CurrentFacts DEF Entry, Finds
  <2>1. PICK place \in {"recognise", "claim", "write", "enroll"} :
          Goto(r, place) /\ pc'[r] = place
    <3>1. \E place \in {"recognise", "claim", "write", "enroll"} : Goto(r, place)
      BY <1>3 DEF Find, Recognise, Claim
    <3> QED BY <3>1 DEF Goto, RequestTypes
  <2>2. UNCHANGED <<holder, op, rows, written>>
    BY <1>3 DEF Find, Recognise, Claim
  <2>3. /\ Fits(r)' /\ Follows(r)' /\ Holds(r)' /\ Current(r)' = Current(r)
        /\ RowTypes' /\ DOMAIN rows' = Request
    BY <1>1, <2>1, <2>2, LineKept DEF Entry
  <2>4. /\ found' \in [Request -> Alias \cup {Nobody}] /\ keyed' \in [Request -> BOOLEAN]
        /\ Finds(r)'
    <3>1. CASE Find(r)
      <4>1. /\ found' = [found EXCEPT ![r] = IF a \in people THEN a ELSE Nobody]
            /\ keyed' = keyed /\ pc[r] = "find" /\ place # "enroll"
        BY <3>1, <2>1 DEF Find, Goto, RequestTypes
      <4>2. op[r][1] = "commit"
        BY <1>1, <4>1 DEF Fits
      <4>3. place # "index"
        BY <2>1
      <4> QED BY <1>1, <2>0, <2>1, <2>2, <2>3, <4>1, <4>2, <4>3 DEF Finds, RequestTypes
    <3>2. CASE Recognise(r) /\ place # "enroll"
      <4>1. UNCHANGED lookups /\ pc[r] = "recognise"
        BY <1>3, <3>2, <2>1 DEF Recognise, Goto, RequestTypes
      <4> QED BY <1>1, <2>0, <2>1, <2>2, <2>3, <3>2, <4>1 DEF Finds, RequestTypes
    <3>3. CASE Recognise(r) /\ place = "enroll"
      <4>1. /\ \E b \in people : found' = [found EXCEPT ![r] = b]
            /\ keyed' = [keyed EXCEPT ![r] = TRUE]
        BY <1>3, <3>3, <2>1 DEF Recognise, Bearers, Goto, RequestTypes
      <4>2. found' \in [Request -> Alias \cup {Nobody}] /\ keyed' \in [Request -> BOOLEAN]
        BY <4>1 DEF RequestTypes
      <4>3. found'[r] \in people /\ keyed'[r]
        BY <4>1 DEF RequestTypes
      <4> QED BY <1>1, <2>1, <2>2, <2>3, <3>3, <4>2, <4>3 DEF Finds
    <3>4. CASE Claim(r)
      <4>1. UNCHANGED lookups /\ pc[r] = "claim" /\ place = "write"
        BY <1>3, <3>4, <2>1 DEF Claim, Goto, RequestTypes
      <4> QED BY <1>1, <2>0, <2>1, <2>2, <2>3, <4>1 DEF Finds, RequestTypes
    <3> QED BY <3>1, <3>2, <3>3, <3>4
  <2>5. RequestTypes'
    <3>1. pc' = [pc EXCEPT ![r] = place]
      BY <2>1 DEF Goto
    <3> QED BY <2>1, <2>2, <2>3, <2>4, <3>1 DEF RequestTypes
  <2> QED BY <2>1, <2>3, <2>4, <2>5 DEF Careful
<1> QED BY <1>2, <1>3

LEMMA WriteKeeps ==
  ASSUME RequestTypes, NEW r \in Request, Careful(r), Write(r)
  PROVE  RequestTypes' /\ Careful(r)'
<1>1. pc[r] \in {"write", "index"} /\ UNCHANGED tables /\ Finds(r) /\ Holds(r)
  BY DEF Write, Careful
<1>2. CASE Rollback(r)
  BY <1>1, <1>2, RollbackKeeps
<1>3. CASE ~ Rollback(r)
  <2> DEFINE a == Current(r).alias
             x == Taken(r)
  <2>0. /\ a \in Alias /\ a \in Row /\ Current(r) \in Line /\ ~ keyed[r] /\ op[r][1] # "review"
        /\ found[r] # Nobody => a \in people
        /\ op[r][1] = "create" => found[r] = Nobody
    BY <1>1, CurrentFacts DEF Entry, Finds
  <2>1. /\ ~ Clash(r, x) /\ holder[x] \in {Nobody, r} /\ holder' = [holder EXCEPT ![x] = r]
        /\ UNCHANGED <<op, rows, lookups, entered>>
    BY <1>3 DEF Write, Free, Behind, Hold
  <2>2. holder' \in [Row -> Request \cup {Nobody}] /\ \A y \in Row : holder[y] = r => holder'[y] = r
    BY <2>1 DEF RequestTypes
  <2>3. CASE pc[r] = "write" /\ Current(r).key # NoKey
    <3>1. Goto(r, "index") /\ pc'[r] = "index" /\ UNCHANGED scratch
      BY <1>3, <2>3 DEF Write, Goto, RequestTypes
    <3>2. found[r] # Nobody => x = a
      BY <2>3 DEF Taken
    <3>3. found[r] # Nobody => holder'[a] = r
      BY <2>0, <2>1, <3>2 DEF RequestTypes
    <3>4. /\ Fits(r)' /\ Follows(r)' /\ Holds(r)' /\ Current(r)' = Current(r)
          /\ RowTypes' /\ DOMAIN rows' = Request
      BY <1>1, <2>1, <2>2, <3>1, LineKept DEF Entry
    <3>5. Finds(r)'
      BY <1>1, <2>0, <2>1, <2>3, <3>1, <3>3, <3>4 DEF Finds
    <3>6. RequestTypes'
      BY <2>1, <2>2, <3>1, <3>4 DEF RequestTypes, Goto
    <3> QED BY <3>1, <3>4, <3>5, <3>6 DEF Careful
  <2>4. CASE pc[r] = "index" \/ Current(r).key = NoKey
    <3>1. /\ Goto(r, "enroll") /\ pc'[r] = "enroll"
          /\ created' = [created EXCEPT ![r] = Inserted(r, a)]
          /\ given' = IF Current(r).key = NoKey THEN given ELSE [given EXCEPT ![r][a] = Current(r).key]
      <4>1. Current(r).key # NoKey => pc[r] = "index"
        BY <2>4
      <4> QED BY <1>1, <1>3, <2>4, <4>1 DEF Write, Goto, RequestTypes
    <3>2. /\ holder'[a] = r
          /\ found[r] = Nobody => x = a
      <4>1. found[r] = Nobody => x = a
        BY <1>1, <2>4 DEF Taken, Finds
      <4>2. found[r] # Nobody => x = a \/ holder[a] = r
        BY <1>1, <2>4 DEF Taken, Finds
      <4> QED BY <2>0, <2>1, <2>2, <4>1, <4>2 DEF RequestTypes
    <3>3. created'[r] = IF found[r] = Nobody THEN created[r] \cup {a} ELSE created[r]
      BY <3>1 DEF Inserted, RequestTypes
    <3>4. found[r] = Nobody => a \notin people
      BY <2>1, <3>2 DEF Clash
    <3>5. given' \in [Request -> [Alias -> Key \cup {NoKey}]] /\ created' \in [Request -> SUBSET Alias]
      BY <2>0, <3>1 DEF RequestTypes, Line, Inserted
    <3>6. RowTypes' /\ DOMAIN rows' = Request /\ Current(r)' = Current(r)
          /\ Entering(r) /\ Entering(r)'
      BY <1>1, <2>0, <2>1, <3>1, RowsStay DEF RequestTypes, Current, Entering, Entry
    <3>7. RequestTypes'
      BY <2>1, <2>2, <3>1, <3>5, <3>6 DEF RequestTypes, Goto
    <3>8. Fits(r)'
      BY <1>1, <2>0, <2>1, <3>1, <3>6, CurrentFacts DEF Careful, Fits, Entry
    <3>9. Follows(r)'
      <4>1. \A i \in Import : op[r] = <<"commit", i>> => FollowsFile(r, i)
        BY <1>1, <3>6 DEF Careful, Follows
      <4>2. \A i \in Import : FollowsFile(r, i)' <=> FollowsFile(r, i)
        BY <2>1 DEF FollowsFile, NamedTwice
      <4> QED BY <2>1, <4>1, <4>2 DEF Follows
    <3>10. Finds(r)'
      <4>1. a \in people \cup created'[r] /\ (op[r][1] = "create" => a \in created'[r])
        BY <2>0, <3>3
      <4> QED BY <1>1, <2>0, <2>1, <3>1, <3>2, <3>6, <4>1 DEF Finds
    <3>11. Holds(r)'
      <4>1. ASSUME NEW b \in created'[r] PROVE b \notin people /\ holder'[b] = r
        <5>1. CASE b = a /\ found[r] = Nobody
          BY <3>2, <3>4, <5>1
        <5>2. CASE b \in created[r]
          BY <1>1, <2>2, <5>2 DEF Holds, RequestTypes, Row
        <5> QED BY <3>3, <5>1, <5>2
      <4>2. ASSUME NEW k \in 1..Len(entered[r])
            PROVE  /\ entered[r][k].alias \in people \cup created'[r]
                   /\ op[r][1] # "submit" /\ ~ entered[r][k].keyed => Held(r, entered[r][k].alias)'
        <5>1. entered[r] \in Seq(EntryType)
          BY DEF RequestTypes
        <5>2. entered[r][k] \in EntryType
          BY <5>1
        <5> PICK b \in Row : b = entered[r][k].alias
          BY <5>2 DEF EntryType, Row
        <5>3. op[r][1] # "submit" /\ ~ entered[r][k].keyed => Held(r, b)
          BY <1>1 DEF Holds
        <5>4. Held(r, b) => Held(r, b)'
          BY <1>1, <2>2 DEF Held
        <5>5. b \in people \cup created'[r] /\ b = entered'[r][k].alias
          BY <1>1, <2>1, <3>3 DEF Holds
        <5> QED BY <5>3, <5>4, <5>5
      <4> QED BY <1>1, <2>1, <4>1, <4>2 DEF Holds
    <3> QED BY <3>1, <3>7, <3>8, <3>9, <3>10, <3>11 DEF Careful
  <2> QED BY <1>1, <2>3, <2>4
<1> QED BY <1>2, <1>3

LEMMA ElementFacts ==
  ASSUME NEW T, NEW s \in Seq(T)
  PROVE  Len(s) \in Nat /\ DOMAIN s = 1..Len(s) /\ \A e \in DOMAIN s : s[e] \in T
OBVIOUS

LEMMA EntrantFacts ==
  ASSUME TableTypes
  PROVE  /\ Len(entrants) \in Nat /\ DOMAIN entrants = 1..Len(entrants)
         /\ \A e \in DOMAIN entrants :
              /\ entrants[e] \in EntrantType
              /\ entrants[e].alias \in people /\ entrants[e].origin \in Origin
<1>1. entrants \in Seq(EntrantType)
  BY DEF TableTypes
<1>2. /\ Len(entrants) \in Nat /\ DOMAIN entrants = 1..Len(entrants)
      /\ \A e \in DOMAIN entrants : entrants[e] \in EntrantType
  BY <1>1, ElementFacts
<1> QED BY <1>2 DEF EntrantType

\* The lists of a request that puts a line behind it, entering somebody for it or not.
LEMMA EnrollFollows ==
  ASSUME RequestTypes, NEW r \in Request, rows[r] \in Seq(Line), rows[r] # <<>>,
         NEW i \in Import, FollowsFile(r, i),
         rows'[r] = Tail(rows[r]),
         NEW x \in EntryType, ~ x.keyed => x.alias = rows[r][1].alias,
         entered'[r] = entered[r] \/ entered'[r] = Append(entered[r], x)
  PROVE  FollowsFile(r, i)'
<1>0. /\ Len(rows[r]) \in Nat \ {0} /\ Len(Tail(rows[r])) = Len(rows[r]) - 1
      /\ \A k \in 1..Len(rows[r]) - 1 : Tail(rows[r])[k] = rows[r][k + 1]
      /\ Len(File[i]) \in Nat /\ DOMAIN File[i] = 1..Len(File[i])
      /\ entered[r] \in Seq(EntryType) /\ Len(entered[r]) \in Nat
      /\ Len(rows[r]) <= Len(File[i])
  <2>1. File[i] \in Seq(Line) /\ entered[r] \in Seq(EntryType)
    BY FileAssumption DEF RequestTypes, Line
  <2>2. Len(rows[r]) <= Len(File[i])
    BY DEF FollowsFile
  <2>3. Len(File[i]) \in Nat /\ DOMAIN File[i] = 1..Len(File[i]) /\ Len(entered[r]) \in Nat
    BY <2>1
  <2> QED BY <2>1, <2>2, <2>3
<1>1. PICK R \in Nat \ {0} : R = Len(rows[r])
  BY <1>0
<1>2. PICK N \in Nat : N = Len(File[i])
  BY <1>0
<1>3. PICK E \in Nat : E = Len(entered[r])
  BY <1>0
<1>13. R <= N
  BY <1>0, <1>1, <1>2
<1>4. PICK n \in Nat : n = N - R
  BY <1>13
<1>5. /\ \A k \in 1..R : rows[r][k] = File[i][n + k]
      /\ \A k \in 1..E : ~ entered[r][k].keyed => \E p \in 1..n : File[i][p].alias = entered[r][k].alias
      /\ \A j, k \in 1..E :
           j < k /\ entered[r][j].alias = entered[r][k].alias /\ ~ entered[r][j].keyed /\ ~ entered[r][k].keyed
             => NamedTwice(i, entered[r][k].alias)
  BY <1>1, <1>2, <1>3, <1>4 DEF FollowsFile
<1>6. /\ R - 1 <= N /\ N - (R - 1) = n + 1 /\ 1 \in 1..R
      /\ n + 1 \in 1..N /\ n + 1 \in 1..n + 1
      /\ \A p \in 1..n : p \in 1..n + 1 /\ p \in 1..N /\ p < n + 1
  BY <1>13, <1>4
<1>7. Len(rows'[r]) = R - 1 /\ Len(rows'[r]) <= Len(File[i]) /\ Len(File[i]) - Len(rows'[r]) = n + 1
  BY <1>0, <1>1, <1>2, <1>6
<1>8. ASSUME NEW k \in 1..R - 1 PROVE rows'[r][k] = File[i][(n + 1) + k]
  <2>1. k + 1 \in 1..R /\ n + (k + 1) = (n + 1) + k
    OBVIOUS
  <2>2. rows'[r][k] = rows[r][k + 1]
    BY <1>0, <1>1
  <2>3. rows[r][k + 1] = File[i][n + (k + 1)]
    BY <1>5, <2>1
  <2> QED BY <2>1, <2>2, <2>3
<1>9. rows[r][1] = File[i][n + 1]
  BY <1>5, <1>6
<1>10. \A a : NamedTwice(i, a)' <=> NamedTwice(i, a)
  BY DEF NamedTwice
\* What is to be shown of the entries.
<1>14. ASSUME NEW F \in Nat, F = Len(entered'[r]),
              \A k \in 1..F : ~ entered'[r][k].keyed => \E p \in 1..n + 1 : File[i][p].alias = entered'[r][k].alias,
              \A j, k \in 1..F :
                j < k /\ entered'[r][j].alias = entered'[r][k].alias /\ ~ entered'[r][j].keyed
                      /\ ~ entered'[r][k].keyed
                  => NamedTwice(i, entered'[r][k].alias)
       PROVE  FollowsFile(r, i)'
  BY ZenonT(30), <1>7, <1>8, <1>10, <1>14 DEF FollowsFile
<1>11. CASE entered'[r] = entered[r]
  <2>1. \A k \in 1..E : ~ entered[r][k].keyed => \E p \in 1..n + 1 : File[i][p].alias = entered[r][k].alias
    BY <1>5, <1>6
  <2>2. Len(entered'[r]) = E
    BY <1>3, <1>11
  <2>3. \A j, k \in 1..E :
          j < k /\ entered'[r][j].alias = entered'[r][k].alias /\ ~ entered'[r][j].keyed /\ ~ entered'[r][k].keyed
            => NamedTwice(i, entered'[r][k].alias)
    BY <1>5, <1>11
  <2> QED BY <1>11, <1>14, <2>1, <2>2, <2>3
<1>12. CASE entered'[r] = Append(entered[r], x)
  <2>1. /\ Len(entered'[r]) = E + 1 /\ entered'[r][E + 1] = x
        /\ \A k \in 1..E : entered'[r][k] = entered[r][k]
    BY <1>0, <1>3, <1>12, AppendProperties
  <2>2. ASSUME NEW k \in 1..E + 1 PROVE k \in 1..E \/ k = E + 1
    OBVIOUS
  <2>3. ASSUME NEW k \in 1..E + 1, ~ entered'[r][k].keyed
        PROVE  \E p \in 1..n + 1 : File[i][p].alias = entered'[r][k].alias
    <3>1. CASE k \in 1..E
      BY <1>5, <1>6, <2>1, <2>3, <3>1
    <3>2. CASE k = E + 1
      BY <1>6, <1>9, <2>1, <2>3, <3>2
    <3> QED BY <2>2, <3>1, <3>2
  <2>4. ASSUME NEW j \in 1..E + 1, NEW k \in 1..E + 1, j < k, entered'[r][j].alias = entered'[r][k].alias,
               ~ entered'[r][j].keyed, ~ entered'[r][k].keyed
        PROVE  NamedTwice(i, entered'[r][k].alias)
    <3>1. j \in 1..E
      BY <2>4
    <3>2. CASE k \in 1..E
      BY <1>5, <2>1, <2>4, <3>1, <3>2
    <3>3. CASE k = E + 1
      <4>1. /\ entered'[r][k] = x /\ entered'[r][j] = entered[r][j]
            /\ entered[r][j].alias = rows[r][1].alias /\ ~ entered[r][j].keyed
        BY <2>1, <2>4, <3>1, <3>3
      <4>2. PICK p \in 1..n : File[i][p].alias = rows[r][1].alias
        BY <1>5, <3>1, <4>1
      <4>3. p \in DOMAIN File[i] /\ n + 1 \in DOMAIN File[i] /\ p < n + 1
        BY <1>0, <1>2, <1>6
      <4>4. entered'[r][k].alias = rows[r][1].alias /\ File[i][n + 1].alias = rows[r][1].alias
        BY <1>9, <2>4, <4>1
      <4> QED BY <4>2, <4>3, <4>4 DEF NamedTwice
    <3> QED BY <2>2, <3>2, <3>3
  <2>5. E + 1 \in Nat
    OBVIOUS
  <2> QED BY <1>14, <2>1, <2>3, <2>4, <2>5
<1> QED BY <1>11, <1>12

LEMMA EnrollKeeps ==
  ASSUME RequestTypes, TableTypes, NEW r \in Request, Careful(r), Enroll(r), op[r] \in Job
  PROVE  RequestTypes' /\ Careful(r)'
<1>1. pc[r] = "enroll" /\ UNCHANGED <<people, entrants, holder, op, created, given>>
      /\ Finds(r) /\ Fits(r) /\ Holds(r)
  BY DEF Enroll, Careful
<1> DEFINE x == [alias |-> Subject(r), keyed |-> keyed[r]]
<1> PICK a \in Alias : a = Current(r).alias
  BY <1>1, CurrentFacts DEF Entry
<1>2. /\ rows[r] \in Seq(Line) /\ rows[r] # <<>> /\ Len(rows[r]) \in Nat \ {0} /\ a = rows[r][1].alias
      /\ op[r][1] # "review" /\ Entering(r)
      /\ entered[r] \in Seq(EntryType) /\ Len(entered[r]) \in Nat
      /\ Tail(rows[r]) \in Seq(Line) /\ Len(Tail(rows[r])) = Len(rows[r]) - 1
  <2>1. rows[r] \in Seq(Line) /\ rows[r] # <<>> /\ a = rows[r][1].alias /\ op[r][1] # "review" /\ Entering(r)
    BY <1>1, CurrentFacts DEF Entry
  <2>2. entered[r] \in Seq(EntryType)
    BY DEF RequestTypes
  <2> QED BY <2>1, <2>2
<1>13. /\ x \in EntryType /\ x.alias = (IF keyed[r] THEN found[r] ELSE a) /\ x.keyed = keyed[r]
       /\ x.alias \in people \cup created[r]
  <2>1. people \subseteq Alias /\ keyed[r] \in BOOLEAN
    BY DEF TableTypes, RequestTypes
  <2> QED BY <1>1, <2>1 DEF Finds, Subject, EntryType
<1> HIDE DEF x
<1>3. /\ rows' = [rows EXCEPT ![r] = Tail(rows[r])]
      /\ found' = [found EXCEPT ![r] = Nobody] /\ keyed' = [keyed EXCEPT ![r] = FALSE]
      /\ \E place \in {"commit", "find"} :
           pc' = [pc EXCEPT ![r] = place] /\ (place = "find" => Tail(rows[r]) # <<>>)
      /\ entered' = IF op[r][1] = "commit" /\ Enrolled(x.alias) THEN entered
                    ELSE [entered EXCEPT ![r] = Append(entered[r], x)]
  BY DEF Enroll, Goto, x
<1>4. /\ rows'[r] = Tail(rows[r]) /\ pc'[r] \in {"commit", "find"} /\ (pc'[r] = "find" => Tail(rows[r]) # <<>>)
      /\ Entering(r)' /\ ~ keyed'[r]
      /\ entered'[r] = IF op[r][1] = "commit" /\ Enrolled(x.alias) THEN entered[r] ELSE Append(entered[r], x)
  BY <1>1, <1>2, <1>3 DEF RequestTypes, Entering, Entry
<1>5. /\ Append(entered[r], x) \in Seq(EntryType) /\ Len(Append(entered[r], x)) = Len(entered[r]) + 1
      /\ Append(entered[r], x)[Len(entered[r]) + 1] = x
      /\ \A k \in 1..Len(entered[r]) : Append(entered[r], x)[k] = entered[r][k]
  BY <1>2, <1>13, AppendProperties
<1>6. RequestTypes'
  <2>1. RowTypes' /\ DOMAIN rows' = Request
    BY <1>1, <1>2, <1>3, RowsShorten
  <2>2. entered' \in [Request -> Seq(EntryType)] /\ found' \in [Request -> Alias \cup {Nobody}]
    BY <1>3, <1>5 DEF RequestTypes
  <2> QED BY <1>1, <1>3, <2>1, <2>2 DEF RequestTypes
<1>7. Fits(r)'
  <2>1. ASSUME op[r][1] \in {"create", "submit"}
        PROVE  Len(rows'[r]) + Len(entered'[r]) <= 1 /\ pc'[r] # "find"
    <3>1. PICK k \in Nat \ {0}, m \in Nat : k = Len(rows[r]) /\ m = Len(entered[r])
      BY <1>2
    <3>2. k + m <= 1
      BY <1>1, <1>2, <2>1, <3>1 DEF Fits
    <3>3. Len(rows'[r]) = k - 1
      BY <1>2, <1>4, <3>1
    <3>4. Len(entered'[r]) = m \/ Len(entered'[r]) = m + 1
      BY <1>4, <1>5, <3>1
    <3>5. PICK t, u : t = Len(rows'[r]) /\ u = Len(entered'[r])
      OBVIOUS
    <3>6. t + u <= 1
      BY <3>2, <3>3, <3>4, <3>5
    <3>7. k = 1
      BY <3>2
    <3>9. PICK T \in Seq(Line) : T = Tail(rows[r]) /\ Len(T) = k - 1
      BY <1>2, <3>1
    <3>10. T = <<>>
      BY <3>7, <3>9, EmptySeq
    <3>11. Tail(rows[r]) = <<>>
      BY <3>9, <3>10
    <3> QED BY <1>4, <3>5, <3>6, <3>11
  <2>2. op[r][1] \in {"commit", "create", "submit"}
    BY <1>2, JobKinds
  <2>3. op'[r] = op[r] /\ rows'[r] \in Seq(Line) /\ pc'[r] \notin {"mark", "update"}
    BY <1>1, <1>2, <1>4
  <2> QED BY <1>2, <1>4, <2>1, <2>2, <2>3 DEF Fits
<1>8. Follows(r)'
  <2>1. \A i \in Import : op[r] = <<"commit", i>> => FollowsFile(r, i)
    BY <1>1, <1>2 DEF Careful, Follows
  <2> QED BY <1>1, <1>2, <1>4, <1>13, <2>1, EnrollFollows DEF Follows
<1>9. Finds(r)'
  BY <1>4 DEF Finds
<1>10. Holds(r)'
  <2>1. op[r][1] \in {"commit", "create", "submit"}
    BY <1>2, JobKinds
  <2>2. Len(entered'[r]) \in Nat
    BY <1>2, <1>4, <1>5
  <2>3. ASSUME ~ keyed[r], op[r][1] # "submit", ~ (op[r][1] = "commit" /\ Enrolled(x.alias))
        PROVE  Held(r, x.alias)
    <3>1. x.alias = a /\ holder[a] = r /\ (op[r][1] = "create" => a \in created[r])
      BY <1>1, <1>13, <2>3 DEF Finds
    <3>2. \A e \in DOMAIN entrants : entrants[e].alias # a
      <4>1. CASE op[r][1] = "commit"
        BY <2>3, <3>1, <4>1 DEF Enrolled
      <4>2. CASE op[r][1] = "create"
        <5>1. a \notin people
          BY <1>1, <3>1, <4>2 DEF Holds
        <5> QED BY <5>1, EntrantFacts
      <4> QED BY <2>1, <2>3, <4>1, <4>2
    <3> QED BY <3>1, <3>2 DEF Held
  <2>4. ASSUME NEW k \in 1..Len(entered'[r])
        PROVE  /\ entered'[r][k].alias \in people \cup created[r]
               /\ op[r][1] # "submit" /\ ~ entered'[r][k].keyed => Held(r, entered'[r][k].alias)
    <3>1. CASE k \in 1..Len(entered[r])
      <4>1. entered'[r][k] = entered[r][k]
        BY <1>4, <1>5, <3>1
      <4> QED BY <1>1, <3>1, <4>1 DEF Holds
    <3>2. CASE k \notin 1..Len(entered[r])
      <4>1. entered'[r] = Append(entered[r], x) /\ ~ (op[r][1] = "commit" /\ Enrolled(x.alias))
        BY <1>4, <3>2
      <4>2. k = Len(entered[r]) + 1
        BY <1>2, <1>5, <3>2, <4>1
      <4>3. entered'[r][k] = x
        BY <1>5, <4>1, <4>2
      <4> QED BY <1>13, <2>3, <4>1, <4>3
    <3> QED BY <3>1, <3>2
  <2>5. \A b : Held(r, b)' <=> Held(r, b)
    BY <1>1 DEF Held
  <2>6. ASSUME NEW k \in 1..Len(entered'[r])
        PROVE  op[r][1] # "submit" /\ ~ entered'[r][k].keyed => Held(r, entered[r][k].alias)'
    <3> PICK b : b = entered'[r][k].alias
      OBVIOUS
    <3>1. op[r][1] # "submit" /\ ~ entered'[r][k].keyed => Held(r, b)'
      BY <2>4, <2>5
    <3> QED BY <3>1
  <2> QED BY <1>1, <2>4, <2>6 DEF Holds
<1> QED BY <1>4, <1>6, <1>7, <1>8, <1>9, <1>10 DEF Careful

\* A review's row, and the ends of a transaction.
LEMMA UpdateKeeps ==
  ASSUME RequestTypes, NEW r \in Request, Careful(r), Route, Update(r) \/ Squad(r)
  PROVE  RequestTypes' /\ Careful(r)'
<1>1. CASE Update(r)
  <2>1. /\ pc[r] = "update" /\ op[r][1] = "review" /\ pc' = [pc EXCEPT ![r] = "commit"]
        /\ holder' = [holder EXCEPT ![Current(r)] = r]
        /\ UNCHANGED <<op, rows, lookups, written>>
    BY <1>1 DEF Update, Hold, Goto, Route
  <2>2. rows[r] # <<>> /\ created[r] = {} /\ entered[r] = <<>>
    BY <2>1 DEF Careful, Fits, Entering, Entry
  <2>3. RequestTypes' /\ pc'[r] = "commit"
    BY <2>1, RowsStay DEF RequestTypes
  <2>4. ~ Entering(r)'
    BY <2>1 DEF Entering
  <2>5. Fits(r)' /\ Finds(r)'
    BY <2>1, <2>2, <2>3, <2>4 DEF Fits, Finds, Entry
  <2>6. created'[r] = {} /\ 1..Len(entered'[r]) = {}
    BY <2>1, <2>2
  <2>7. Follows(r)' /\ Holds(r)'
    BY <2>3, <2>4, <2>6 DEF Follows, Holds
  <2> QED BY <2>3, <2>5, <2>7 DEF Careful
<1>2. CASE Squad(r)
  <2>1. /\ pc[r] = "squad" /\ pc' = [pc EXCEPT ![r] = "done"]
        /\ UNCHANGED <<holder, op, rows, lookups, written>>
    BY <1>2 DEF Squad, Goto
  <2>2. created[r] = {} /\ entered[r] = <<>>
    BY <2>1 DEF Careful, Fits, Entering, Entry
  <2>3. RequestTypes' /\ pc'[r] = "done"
    BY <2>1, RowsStay DEF RequestTypes
  <2>4. created'[r] = {} /\ entered'[r] = <<>> /\ 1..Len(entered'[r]) = {}
    BY <2>1, <2>2
  <2> QED BY <2>3, <2>4 DEF Careful, Fits, Follows, Finds, Holds, Entering, Entry
<1> QED BY <1>1, <1>2

LEMMA CommitKeeps ==
  ASSUME RequestTypes, NEW r \in Request, Careful(r), Commit(r)
  PROVE  RequestTypes' /\ Careful(r)'
<1>1. /\ pc[r] = "commit"
      /\ holder' = Released(r)
      /\ created' = [created EXCEPT ![r] = {}] /\ entered' = [entered EXCEPT ![r] = <<>>]
      /\ given' = [given EXCEPT ![r] = Keyless]
      /\ UNCHANGED <<op, lookups>>
  BY DEF Commit, Forget
<1>2. /\ Released(r) \in [Row -> Request \cup {Nobody}] /\ <<>> \in Seq(EntryType)
      /\ Keyless \in [Alias -> Key \cup {NoKey}]
      /\ created'[r] = {} /\ entered'[r] = <<>> /\ 1..Len(entered'[r]) = {}
  BY <1>1 DEF RequestTypes, Released, Keyless
<1>3. CASE op[r][1] = "review"
  <2>1. rows[r] # <<>>
    BY <1>1, <1>3 DEF Careful, Fits
  <2>3. /\ rows' = [rows EXCEPT ![r] = Tail(rows[r])]
        /\ pc' = [pc EXCEPT ![r] = IF Tail(rows[r]) = <<>> THEN "done" ELSE "update"]
    BY <1>3 DEF Commit, Goto
  <2>4. RequestTypes'
    BY <1>1, <1>2, <2>1, <2>3, RowsShorten DEF RequestTypes
  <2>5. /\ rows'[r] = Tail(rows[r]) /\ pc'[r] \in {"done", "update"}
        /\ pc'[r] = "update" => Tail(rows[r]) # <<>>
    BY <2>3 DEF RequestTypes
  <2> QED BY <1>2, <2>4, <2>5 DEF Careful, Fits, Follows, Finds, Holds, Entering, Entry
<1>4. CASE op[r][1] # "review"
  <2>1. rows' = rows /\ \E place \in {"squad", "done"} : pc' = [pc EXCEPT ![r] = place]
    BY <1>4 DEF Commit, Goto
  <2>2. RequestTypes' /\ pc'[r] \in {"squad", "done"}
    BY <1>1, <1>2, <2>1, RowsStay DEF RequestTypes
  <2> QED BY <1>2, <2>2 DEF Careful, Fits, Follows, Finds, Holds, Entering, Entry
<1> QED BY <1>3, <1>4

\* What a commit makes of the entrants: a review leaves who they are, the others
\* add theirs behind them.
LEMMA CommitEntrants ==
  ASSUME RequestTypes, TableTypes, NEW r \in Request, Careful(r), Commit(r), op[r] \in Job
  PROVE  /\ TableTypes'
         /\ people' = people \cup created[r]
         /\ \A e \in DOMAIN entrants :
              /\ e \in DOMAIN entrants'
              /\ entrants'[e].alias = entrants[e].alias /\ entrants'[e].origin = entrants[e].origin
              /\ entrants'[e].keyed = entrants[e].keyed
         /\ \A e \in DOMAIN entrants' : e \notin DOMAIN entrants =>
              /\ op[r][1] # "review"
              /\ e - Len(entrants) \in 1..Len(entered[r])
              /\ entrants'[e].alias = entered[r][e - Len(entrants)].alias
              /\ entrants'[e].keyed = entered[r][e - Len(entrants)].keyed
              /\ entrants'[e].origin = OriginOf(op[r][1])
<1> DEFINE T == [alias : people', status : Status, origin : Origin, keyed : BOOLEAN]
<1>1. /\ pc[r] = "commit" /\ people' = people \cup created[r] /\ squads' = squads
      /\ created[r] \subseteq Alias /\ entered[r] \in Seq(EntryType) /\ Len(entered[r]) \in Nat
      /\ DOMAIN entered[r] = 1..Len(entered[r])
      /\ \A k \in 1..Len(entered[r]) : entered[r][k].keyed \in BOOLEAN
  <2>1. pc[r] = "commit" /\ people' = people \cup created[r] /\ squads' = squads
    BY DEF Commit
  <2>2. created[r] \subseteq Alias /\ entered[r] \in Seq(EntryType)
    BY DEF RequestTypes
  <2>3. /\ Len(entered[r]) \in Nat /\ DOMAIN entered[r] = 1..Len(entered[r])
        /\ \A k \in 1..Len(entered[r]) : entered[r][k] \in EntryType
    BY <2>2, ElementFacts
  <2> QED BY <2>1, <2>2, <2>3 DEF EntryType
<1>5. key' \in [Alias -> Key \cup {NoKey}]
  BY DEF Commit, KeyOf, RequestTypes, TableTypes
<1>2. /\ Len(entrants) \in Nat /\ DOMAIN entrants = 1..Len(entrants) /\ entrants \in Seq(T)
      /\ \A e \in DOMAIN entrants : entrants[e] \in T
  <2>1. entrants \in Seq(EntrantType)
    BY DEF TableTypes
  <2>2. EntrantType \subseteq T
    BY <1>1 DEF EntrantType
  <2>3. entrants \in Seq(T)
    BY <2>1, <2>2, SeqWider
  <2> HIDE DEF T
  <2> QED BY <2>3, ElementFacts
<1>3. CASE op[r][1] = "review"
  <2>1. entrants' = [entrants EXCEPT ![Current(r)].status = op[r][2]]
    BY <1>3 DEF Commit
  <2>2. op[r][2] \in Status
    BY <1>3, DecisionAssumption DEF Job, Status
  <2>3. ASSUME NEW e \in DOMAIN entrants
        PROVE  /\ entrants'[e] \in T
               /\ entrants'[e].alias = entrants[e].alias /\ entrants'[e].origin = entrants[e].origin
               /\ entrants'[e].keyed = entrants[e].keyed
    <3>1. entrants[e] \in T
      BY <1>2
    <3>2. entrants'[e] = entrants[e] \/ entrants'[e] = [entrants[e] EXCEPT !.status = op[r][2]]
      BY <2>1
    <3> QED BY <2>2, <3>1, <3>2
  <2>4. entrants' \in Seq(T) /\ DOMAIN entrants' = DOMAIN entrants
    <3>1. DOMAIN entrants' = 1..Len(entrants)
      BY <1>2, <2>1
    <3>2. entrants' = [e \in 1..Len(entrants) |-> entrants'[e]]
      BY <1>2, <2>1
    <3>3. \A e \in 1..Len(entrants) : entrants'[e] \in T
      BY <1>2, <2>3
    <3> HIDE DEF T
    <3> QED BY <1>2, <3>1, <3>2, <3>3
  <2>5. TableTypes'
    BY <1>1, <1>5, <2>4 DEF TableTypes, EntrantType
  <2> QED BY <1>1, <2>3, <2>4, <2>5
<1>4. CASE op[r][1] # "review"
  <2> DEFINE new == [k \in DOMAIN entered[r] |->
                       Entrant(entered[r][k].alias, OriginOf(op[r][1]), entered[r][k].keyed)]
  <2>1. entrants' = entrants \o new
    BY <1>4 DEF Commit
  <2>2. OriginOf(op[r][1]) \in Origin
    <3>1. op[r][1] \in {"commit", "create", "submit"}
      BY <1>4, JobKinds
    <3> QED BY <3>1 DEF OriginOf, Origin
  <2>3. \A k \in 1..Len(entered[r]) : new[k] \in T
    <3>1. \A k \in 1..Len(entered[r]) : entered[r][k].alias \in people'
      BY <1>1 DEF Careful, Holds
    <3> QED BY <1>1, <2>2, <3>1 DEF Entrant, Status
  <2>4. \A k \in 1..Len(entered[r]) : /\ new[k].alias = entered[r][k].alias
                                       /\ new[k].keyed = entered[r][k].keyed
                                       /\ new[k].origin = OriginOf(op[r][1])
    BY <1>1 DEF Entrant
  <2>5. new \in Seq(T) /\ Len(new) = Len(entered[r])
    <3>1. PICK n \in Nat : n = Len(entered[r])
      BY <1>1
    <3>2. new = [k \in 1..n |-> new[k]] /\ \A k \in 1..n : new[k] \in T
      BY <1>1, <2>3, <3>1
    <3> HIDE DEF new, T
    <3>3. new \in Seq(T) /\ Len(new) = n
      BY <3>2
    <3> QED BY <3>1, <3>3
  <2> HIDE DEF new, T
  <2>6. /\ entrants' \in Seq(T) /\ Len(entrants') = Len(entrants) + Len(new)
        /\ \A e \in 1..Len(entrants) + Len(new) :
             entrants'[e] = IF e <= Len(entrants) THEN entrants[e] ELSE new[e - Len(entrants)]
    <3> SUFFICES /\ entrants \o new \in Seq(T) /\ Len(entrants \o new) = Len(entrants) + Len(new)
                 /\ \A e \in 1..Len(entrants) + Len(new) :
                      (entrants \o new)[e] = IF e <= Len(entrants) THEN entrants[e]
                                                                  ELSE new[e - Len(entrants)]
      BY Zenon, <2>1
    <3>1. entrants \in Seq(T) /\ new \in Seq(T)
      BY <1>2, <2>5
    <3> QED BY <3>1, ConcatProperties
  <2>7. DOMAIN entrants' = 1..Len(entrants) + Len(entered[r])
    BY <2>5, <2>6
  <2>8. \A e \in DOMAIN entrants : e \in DOMAIN entrants' /\ entrants'[e] = entrants[e]
    BY <1>1, <1>2, <2>5, <2>6, <2>7
  <2>9. ASSUME NEW e \in DOMAIN entrants', e \notin DOMAIN entrants
        PROVE  e - Len(entrants) \in 1..Len(entered[r]) /\ entrants'[e] = new[e - Len(entrants)]
    BY <1>1, <1>2, <2>5, <2>6, <2>7, <2>9
  <2>10. TableTypes'
    <3>1. squads' \subseteq DOMAIN entrants'
      BY <1>1, <2>8 DEF TableTypes
    <3> QED BY <1>1, <1>5, <2>6, <3>1 DEF TableTypes, EntrantType, T
  <2> QED BY <1>1, <1>4, <2>4, <2>8, <2>9, <2>10
<1> QED BY <1>3, <1>4

\* What the other requests found stands after a commit, and the tables are of their
\* types.
LEMMA CommitRespects ==
  ASSUME RequestTypes, TableTypes, NEW r \in Request, Careful(r), Commit(r), op[r] \in Job
  PROVE  TableTypes' /\ Respects(r)
<1>1. Holds(r)
  BY DEF Careful, Commit
<1>2. /\ TableTypes' /\ people' = people \cup created[r]
      /\ \A e \in DOMAIN entrants :
           /\ entrants'[e].alias = entrants[e].alias /\ entrants'[e].origin = entrants[e].origin
           /\ entrants'[e].keyed = entrants[e].keyed
  BY CommitEntrants
<1>3. ASSUME NEW e \in DOMAIN entrants', e \notin DOMAIN entrants
      PROVE  entrants'[e].origin = "club-portal" \/ entrants'[e].keyed \/ holder[entrants'[e].alias] = r
  <2>1. /\ e - Len(entrants) \in 1..Len(entered[r])
        /\ entrants'[e].alias = entered[r][e - Len(entrants)].alias
        /\ entrants'[e].keyed = entered[r][e - Len(entrants)].keyed
        /\ entrants'[e].origin = OriginOf(op[r][1])
    BY <1>3, CommitEntrants
  <2>2. CASE op[r][1] = "submit"
    BY <2>1, <2>2 DEF OriginOf
  <2>3. CASE op[r][1] # "submit"
    BY <1>1, <2>1, <2>3 DEF Holds, Held
  <2> QED BY <2>2, <2>3
<1>4. \A a \in people' \ people : holder[a] = r
  BY <1>1, <1>2 DEF Holds
<1> QED BY <1>2, <1>3, <1>4 DEF Respects

\* A step of a request keeps its types, and everybody's hands.
LEMMA ActsKeep ==
  ASSUME RequestTypes, TableTypes, WorkerTypes, Once, \A q \in Request : Careful(q),
         NEW r \in Request, Acts(r)
  PROVE  /\ RequestTypes' /\ TableTypes' /\ WorkerTypes' /\ \A q \in Request : Careful(q)'
         /\ ~ Commit(r) => UNCHANGED <<imports, people, entrants>>
<1> DEFINE Quiet == UNCHANGED <<imports, workers, people, key, entrants>> /\ squads' \subseteq DOMAIN entrants
                    /\ troubles' \in 0..MaxTroubles
<1>0. /\ squads \subseteq DOMAIN entrants /\ troubles \in 0..MaxTroubles
      /\ Route /\ MaxTroubles \in Nat
      /\ \A q \in Request : pc[q] # "idle" => op[q] \in Job
  BY BoundAssumption DEF TableTypes, WorkerTypes, Once, Shape
<1>1. ASSUME ~ Commit(r)
      PROVE  RequestTypes' /\ Careful(r)' /\ Quiet
  <2>1. CASE \/ \E i \in Import : CommitImport(r, i)
             \/ \E l \in Line : Create(r, l)
             \/ \E a \in Alias : Submit(r, a)
             \/ \E chosen \in SUBSET (Reviewed \cap DOMAIN entrants), d \in Decision : Review(r, chosen, d)
    <3>1. RequestTypes' /\ Careful(r)' /\ UNCHANGED <<imports, workers, tables, troubles>>
      BY <2>1, ArrivalKeeps
    <3> QED BY <1>0, <3>1
  <2>2. CASE \/ MarkCommitting(r) \/ Find(r) \/ Recognise(r) \/ Claim(r) \/ Write(r)
             \/ Enroll(r) \/ Update(r)
    <3>1. UNCHANGED <<imports, workers, tables, troubles>>
      BY <2>2 DEF MarkCommitting, Find, Recognise, Claim, Write, Enroll, Update
    <3>2. Enroll(r) => op[r] \in Job
      BY <1>0 DEF Enroll
    <3>3. RequestTypes' /\ Careful(r)'
      BY <1>0, <2>2, <3>2, MarkKeeps, LookupKeeps, WriteKeeps, EnrollKeeps, UpdateKeeps DEF TableTypes
    <3> QED BY <1>0, <3>1, <3>3
  <2>3. CASE Squad(r)
    <3>1. Quiet
      BY <1>0, <2>3 DEF Squad
    <3> QED BY <1>0, <2>3, <3>1, UpdateKeeps
  <2>4. CASE DeadlockAborts(r) \/ Lost(r)
    <3>1. Rollback(r) /\ pc[r] # "idle"
      BY <2>4 DEF DeadlockAborts, Lost, Blockers, Wants
    <3>2. Quiet
      BY <1>0, <2>4 DEF DeadlockAborts, Lost, Trouble
    <3> QED BY <3>1, <3>2, RollbackKeeps
  <2> QED BY <1>1, <2>1, <2>2, <2>3, <2>4 DEF Acts, Step
<1>2. CASE ~ Commit(r)
  <2>1. RequestTypes' /\ Careful(r)' /\ Quiet
    BY <1>1, <1>2
  <2>2. TableTypes' /\ WorkerTypes'
    BY <2>1 DEF TableTypes, WorkerTypes, EntrantType
  <2>3. Respects(r)
    BY <2>1 DEF Respects
  <2>4. \A q \in Request \ {r} : Careful(q)'
    BY <2>3, OthersCareful
  <2> QED BY <1>2, <2>1, <2>2, <2>4
<1>3. CASE Commit(r)
  <2>1. op[r] \in Job /\ UNCHANGED <<workers, troubles>>
    BY <1>0, <1>3 DEF Commit
  <2>2. RequestTypes' /\ Careful(r)' /\ TableTypes' /\ Respects(r)
    BY <1>3, <2>1, CommitKeeps, CommitRespects
  <2>3. \A q \in Request \ {r} : Careful(q)'
    BY <2>2, OthersCareful
  <2>4. session' \in Session /\ commits' \in [Import -> Nat]
    <3>1. \/ UNCHANGED <<session, commits>>
          \/ /\ session' = [session EXCEPT ![op[r][2]] = "committed"]
             /\ commits' = [commits EXCEPT ![op[r][2]] = @ + 1]
      BY <1>3 DEF Commit
    <3> QED BY <3>1 DEF WorkerTypes, Session, Settled
  <2>5. WorkerTypes'
    BY <2>1, <2>4 DEF WorkerTypes
  <2> QED BY <1>3, <2>2, <2>3, <2>5
<1> QED BY <1>2, <1>3

\* What a commit adds to the entrants is named twice only if its file, committed
\* with it, names it twice, or if a club enters it.
LEMMA CommitRegisters ==
  ASSUME RequestTypes, TableTypes, NEW r \in Request, Careful(r), Commit(r), op[r] \in Job,
         session \in Session, RegisteredOnce
  PROVE  RegisteredOnce'
<1> SUFFICES ASSUME NEW d \in DOMAIN entrants', NEW e \in DOMAIN entrants', d < e,
                    entrants'[d].alias = entrants'[e].alias,
                    "club-portal" \notin {entrants'[d].origin, entrants'[e].origin},
                    ~ entrants'[d].keyed, ~ entrants'[e].keyed
             PROVE  \E i \in Import : session'[i] = "committed" /\ NamedTwice(i, entrants'[e].alias)
  BY DEF RegisteredOnce, TwiceBy, NamedTwice
<1>1. pc[r] = "commit" /\ Fits(r) /\ Follows(r) /\ Holds(r)
  BY DEF Careful, Commit
<1>2. \A i \in Import : session[i] = "committed" => session'[i] = "committed"
  BY DEF Commit, Session
<1>3. /\ Len(entrants) \in Nat /\ DOMAIN entrants = 1..Len(entrants)
      /\ \A x \in DOMAIN entrants : entrants[x].alias \in people
  BY EntrantFacts
<1>4. /\ \A x \in DOMAIN entrants : /\ entrants'[x].alias = entrants[x].alias
                                   /\ entrants'[x].origin = entrants[x].origin
                                   /\ entrants'[x].keyed = entrants[x].keyed
      /\ \A x \in DOMAIN entrants' : x \notin DOMAIN entrants =>
           /\ op[r][1] # "review"
           /\ x - Len(entrants) \in 1..Len(entered[r])
           /\ entrants'[x].alias = entered[r][x - Len(entrants)].alias
           /\ entrants'[x].keyed = entered[r][x - Len(entrants)].keyed
           /\ entrants'[x].origin = OriginOf(op[r][1])
      /\ TableTypes'
  BY CommitEntrants
<1>5. DOMAIN entrants' \subseteq Nat \ {0}
  BY <1>4, EntrantFacts DEF TableTypes
<1>6. CASE e \in DOMAIN entrants
  <2>1. d \in DOMAIN entrants
    <3> QED BY <1>3, <1>6, <1>5
  <2> QED BY <1>2, <1>4, <1>6, <2>1 DEF RegisteredOnce, TwiceBy
<1>7. CASE e \notin DOMAIN entrants
  <2> DEFINE k == e - Len(entrants)
  <2>1. /\ op[r][1] # "review" /\ k \in 1..Len(entered[r]) /\ entrants'[e].alias = entered[r][k].alias
        /\ op[r][1] # "submit" /\ ~ entered[r][k].keyed
    BY <1>4, <1>7 DEF OriginOf
  <2>2. d \notin DOMAIN entrants
    BY <1>1, <1>4, <2>1 DEF Holds, Held
  <2> DEFINE j == d - Len(entrants)
  <2>3. j \in 1..Len(entered[r]) /\ entrants'[d].alias = entered[r][j].alias /\ ~ entered[r][j].keyed
    BY <1>4, <2>2
  <2>4. d \in Int /\ e \in Int /\ j < k
    BY <1>3, <1>5
  <2>5. entered[r][j].alias = entered[r][k].alias /\ Entering(r)
    BY <1>1, <2>1, <2>3 DEF Entering, Entry
  <2> HIDE DEF j, k
  <2>6. PICK n \in Nat, m \in Nat : n = Len(entered[r]) /\ m = Len(rows[r])
    <3>1. entered[r] \in Seq(EntryType) /\ rows[r] \in Seq(Line)
      BY <1>1, <2>5 DEF RequestTypes, Fits
    <3> QED BY <3>1
  <2>7. op[r][1] # "create"
    <3> SUFFICES ASSUME op[r][1] = "create" PROVE FALSE
      OBVIOUS
    <3>1. m + n <= 1
      BY <1>1, <2>5, <2>6 DEF Fits
    <3>2. n >= 2
      BY <2>1, <2>3, <2>4, <2>6
    <3> QED BY <3>1, <3>2
  <2>8. PICK i \in Import : op[r] = <<"commit", i>>
    BY <2>1, <2>7, JobKinds
  <2>9. NamedTwice(i, entered[r][k].alias)
    <3>1. FollowsFile(r, i)
      BY <1>1, <2>5, <2>8 DEF Follows
    <3> QED BY <2>1, <2>3, <2>4, <2>5, <3>1 DEF FollowsFile
  <2>10. session'[i] = "committed"
    <3>1. op[r][1] = "commit" /\ op[r][2] = i
      BY <2>8
    <3>2. session' = [session EXCEPT ![i] = "committed"]
      BY <3>1 DEF Commit
    <3> QED BY <3>2 DEF Session
  <2> QED BY <2>1, <2>9, <2>10
<1> QED BY <1>6, <1>7

\* A worker writes no table but the sessions, and undoes no commit.
LEMMA WorkerKeeps ==
  ASSUME WorkerTypes, AtFiles, NEW w \in Worker,
         \/ \E i \in Import : Take(w, i)
         \/ MarkValidating(w) \/ ValidationFails(w)
         \/ \E valid \in BOOLEAN : StorePreview(w, valid)
  PROVE  /\ WorkerTypes' /\ AtFiles' /\ UNCHANGED <<tables, requests>>
         /\ \A i \in Import : session[i] = "committed" => session'[i] = "committed"
<1>1. UNCHANGED <<commits, tables, requests>>
  BY DEF Take, MarkValidating, ValidationFails, StorePreview
<1>2. session' \in Session /\ \A i \in Import : session[i] = "committed" => session'[i] = "committed"
  <2>1. \/ session' = session
        \/ \E i, s : /\ session' = [session EXCEPT ![i] = s] /\ session[i] # "committed"
                     /\ s \in {"validating", "review-ready", "invalid"}
    BY DEF Take, MarkValidating, ValidationFails, StorePreview, Previewable
  <2> QED BY <2>1 DEF WorkerTypes, Session, Settled
<1>3. job' \in [Import -> {"waiting", "done"}]
  <2>1. job' = job \/ \E i : job' = [job EXCEPT ![i] = "done"]
    BY DEF Take, MarkValidating, ValidationFails, StorePreview
  <2> QED BY <2>1 DEF WorkerTypes
<1>4. /\ task' \in [Worker -> Import \cup {Nobody}] /\ at' \in [Worker -> {"idle", "found", "marked"}]
      /\ AtFiles'
  <2>1. \/ UNCHANGED <<task, at>>
        \/ Idle(w)
        \/ \E i \in Import, place \in {"found", "marked"} : At(w, i, place)
    BY DEF Take, MarkValidating, ValidationFails, StorePreview, AtFiles
  <2> QED BY <2>1 DEF WorkerTypes, AtFiles, Idle, At
<1>5. abandoned' \subseteq Import
  BY DEF Take, MarkValidating, ValidationFails, StorePreview, AtFiles, WorkerTypes
<1>6. troubles' \in 0..MaxTroubles
  <2>1. troubles' = troubles \/ Trouble
    BY DEF Take, MarkValidating, ValidationFails, StorePreview
  <2> QED BY <2>1, BoundAssumption DEF Trouble, WorkerTypes
<1> QED BY <1>1, <1>2, <1>3, <1>4, <1>5, <1>6 DEF WorkerTypes

LEMMA CarefulIsLocal ==
  ASSUME UNCHANGED <<tables, requests>>
  PROVE  \A r \in Request : Careful(r)' <=> Careful(r)
<1>1. \A r \in Request : /\ Fits(r)' <=> Fits(r)
                         /\ Follows(r)' <=> Follows(r)
                         /\ Finds(r)' <=> Finds(r)
                         /\ Holds(r)' <=> Holds(r)
  <2> SUFFICES ASSUME NEW r \in Request
               PROVE  /\ Fits(r)' <=> Fits(r)
                      /\ Follows(r)' <=> Follows(r)
                      /\ Finds(r)' <=> Finds(r)
                      /\ Holds(r)' <=> Holds(r)
    OBVIOUS
  <2>1. Fits(r)' <=> Fits(r)
    BY DEF Fits, Entering
  <2>2. Follows(r)' <=> Follows(r)
    <3>1. \A i \in Import : FollowsFile(r, i)' <=> FollowsFile(r, i)
      BY DEF FollowsFile, NamedTwice
    <3> QED BY <3>1 DEF Follows, Entering
  <2>3. Finds(r)' <=> Finds(r)
    BY DEF Finds, Current
  <2>4. Holds(r)' <=> Holds(r)
    BY DEF Holds, Held
  <2> QED BY <2>1, <2>2, <2>3, <2>4
<1> QED BY <1>1 DEF Careful

LEMMA RegisteredStays ==
  ASSUME RegisteredOnce, entrants' = entrants,
         \A i \in Import : session[i] = "committed" => session'[i] = "committed"
  PROVE  RegisteredOnce'
BY DEF RegisteredOnce, TwiceBy, NamedTwice

LEMMA EnlistingInit == Init => Enlisting
<1> SUFFICES ASSUME Init PROVE Enlisting
  OBVIOUS
<1>1. Once
  BY OnceInit
<1>2. PICK n \in Nat, s \in [1..Cardinality(Registered) -> Registered] :
        /\ n = Cardinality(Registered) /\ s = SetToSeq(Registered)
        /\ \A j, k \in 1..n : s[j] = s[k] => j = k
  <2>1. Cardinality(Registered) \in Nat
    BY AliasAssumption, FS_CardinalityType
  <2>2. \E f \in [1..Cardinality(Registered) -> Registered] : IsInjective(f)
    <3>1. ExistsBijection(1..Cardinality(Registered), Registered)
      BY AliasAssumption, FS_CardinalityType
    <3> QED BY <3>1 DEF ExistsBijection, Bijection, Injection, IsInjective
  <2>3. /\ SetToSeq(Registered) \in [1..Cardinality(Registered) -> Registered]
        /\ IsInjective(SetToSeq(Registered))
    BY <2>2 DEF SetToSeq
  <2> QED BY <2>1, <2>3 DEF IsInjective
<1>3. /\ entrants = [e \in 1..n |-> Entrant(s[e], "console", FALSE)]
      /\ \A e \in 1..n : s[e] \in Known /\ s[e] \in Alias
  BY <1>2, AliasAssumption DEF Init
<1>4. TableTypes
  <2>1. \A e \in 1..n : Entrant(s[e], "console", FALSE) \in EntrantType
    BY <1>3 DEF Init, Entrant, Status, Origin, EntrantType
  <2>2. entrants \in Seq(EntrantType)
    <3> DEFINE first(e) == Entrant(s[e], "console", FALSE)
    <3>1. entrants = [e \in 1..n |-> first(e)] /\ \A e \in 1..n : first(e) \in EntrantType
      BY <1>3, <2>1
    <3> HIDE DEF first
    <3> QED BY <1>2, <3>1
  <2> QED BY <2>2, AliasAssumption DEF Init, TableTypes
<1>5. RequestTypes /\ WorkerTypes
  <2>1. RowTypes
    BY DEF Init, RowTypes
  <2> QED BY <2>1, BoundAssumption DEF Init, RequestTypes, WorkerTypes, Session, Settled, Keyless
<1>6. RegisteredOnce
  <2>1. DOMAIN entrants = 1..n /\ \A e \in 1..n : entrants[e].alias = s[e]
    BY <1>3 DEF Entrant
  <2>2. \A d, e \in 1..n : d < e => s[d] # s[e]
    BY <1>2
  <2> QED BY <2>1, <2>2 DEF RegisteredOnce
<1>7. AtFiles /\ \A r \in Request : Careful(r)
  BY DEF Init, AtFiles, Careful
<1> QED BY <1>1, <1>4, <1>5, <1>6, <1>7, TypeParts DEF Enlisting

LEMMA EnlistingNext == Enlisting /\ [Next]_vars => Enlisting'
<1> SUFFICES ASSUME Enlisting, [Next]_vars PROVE Enlisting'
  OBVIOUS
<1>0. /\ RequestTypes /\ TableTypes /\ WorkerTypes /\ AtFiles /\ Once
      /\ RegisteredOnce /\ \A r \in Request : Careful(r)
  BY TypeParts DEF Enlisting
<1>1. Once'
  BY <1>0, OnceNext
<1>2. CASE UNCHANGED vars
  <2>1. UNCHANGED <<tables, requests>>
    BY <1>2 DEF vars
  <2>2. \A r \in Request : Careful(r)'
    BY <1>0, <2>1, CarefulIsLocal
  <2>3. RegisteredOnce'
    BY <1>0, <1>2, RegisteredStays DEF vars
  <2>4. TypeOK' /\ AtFiles'
    BY <1>0, <1>2 DEF vars, Enlisting, TypeOK, AtFiles, Reviewing
  <2> QED BY <1>1, <2>2, <2>3, <2>4 DEF Enlisting
<1>3. ASSUME NEW w \in Worker,
             \/ \E i \in Import : Take(w, i)
             \/ MarkValidating(w) \/ ValidationFails(w)
             \/ \E valid \in BOOLEAN : StorePreview(w, valid)
      PROVE  Enlisting'
  <2>1. /\ WorkerTypes' /\ AtFiles' /\ UNCHANGED <<tables, requests>>
        /\ \A i \in Import : session[i] = "committed" => session'[i] = "committed"
    BY <1>0, <1>3, WorkerKeeps
  <2>2. RequestTypes' /\ TableTypes'
    BY <1>0, <2>1, RowsStay DEF RequestTypes, TableTypes, EntrantType
  <2>3. TypeOK'
    BY <2>1, <2>2 DEF TypeOK, RequestTypes, TableTypes, WorkerTypes, Session, RowTypes, EntryType, EntrantType
  <2>4. \A r \in Request : Careful(r)'
    BY <1>0, <2>1, CarefulIsLocal
  <2>5. RegisteredOnce'
    BY <1>0, <2>1, RegisteredStays
  <2> QED BY <1>1, <2>1, <2>3, <2>4, <2>5 DEF Enlisting
<1>4. ASSUME NEW r \in Request, Acts(r)
      PROVE  Enlisting'
  <2>1. /\ RequestTypes' /\ TableTypes' /\ WorkerTypes' /\ \A q \in Request : Careful(q)'
        /\ ~ Commit(r) => UNCHANGED <<imports, people, entrants>>
    BY <1>0, <1>4, ActsKeep
  <2>2. TypeOK'
    BY <2>1 DEF TypeOK, RequestTypes, TableTypes, WorkerTypes, Session, RowTypes, EntryType, EntrantType
  <2>3. RegisteredOnce'
    <3>1. CASE Commit(r)
      <4>1. op[r] \in Job /\ session \in Session
        BY <1>0, <3>1 DEF Commit, Once, Shape
      <4> QED BY <1>0, <3>1, <4>1, CommitRegisters
    <3>2. CASE ~ Commit(r)
      BY <1>0, <2>1, <3>2, RegisteredStays
    <3> QED BY <3>1, <3>2
  <2>4. AtFiles'
    <3>1. UNCHANGED <<task, at>>
      BY <1>4 DEF Acts, Step, Lost, CommitImport, Create, Submit, Review, Begin, MarkCommitting, Find,
                  Recognise, Claim, Write, Enroll, Update, Commit, Squad, DeadlockAborts
    <3> QED BY <1>0, <3>1 DEF AtFiles
  <2> QED BY <1>1, <2>1, <2>2, <2>3, <2>4 DEF Enlisting
<1>5. CASE Next
  <2>1. \/ \E w \in Worker : \/ \E i \in Import : Take(w, i)
                             \/ MarkValidating(w) \/ ValidationFails(w)
                             \/ \E valid \in BOOLEAN : StorePreview(w, valid)
        \/ \E r \in Request : Acts(r)
    BY <1>5 DEF Next, Acts, Step
  <2> QED BY <1>3, <1>4, <2>1
<1> QED BY <1>2, <1>5

\* What every table, worker and request holds is of its type; what a request has yet
\* to write is there when it writes it, whatever files, walk-ups, submissions and
\* reviews run at once.
THEOREM TypeCorrect == Spec => []TypeOK
<1>1. Enlisting => TypeOK
  BY DEF Enlisting
<1> QED BY <1>1, EnlistingInit, EnlistingNext, PTL DEF Spec

\* Whatever files name the same people in whatever orders, while walk-ups register them
\* too and servers die, nobody is registered twice but by a club, by a file that names
\* them twice, or when a natural key recognised them (registrations.controller.ts:305).
THEOREM NobodyRegistersTwice == Spec => []RegisteredOnce
<1>1. Enlisting => RegisteredOnce
  BY DEF Enlisting
<1> QED BY <1>1, EnlistingInit, EnlistingNext, PTL DEF Spec
==================================================================================
