------------------------------ MODULE OfflineQueue ------------------------------
(***************************************************************************)
(* The operator's console with a bad connection.  Every command is first   *)
(* stored in the browser (IndexedDB) under its idempotency key and then    *)
(* sent from there, in the order of the attempts, by a drain.  The page's  *)
(* own drains exclude each other; saving a roster runs one of its own, and *)
(* a finalization is sent directly.  The page may be reloaded at any time; *)
(* the store survives it, and a request on its way may still arrive.       *)
(*                                                                         *)
(* The server is what the queue relies on: it applies a key once, and      *)
(* refuses what comes after the match's finalization.                      *)
(***************************************************************************)
EXTENDS Integers, Sequences, SequencesExt, FiniteSets, Selection

CONSTANTS
  Command,      \* console commands, each attempted once, with a key of its own
  Roster,       \* the roster saves among them
  Finalize,     \* the finalization, with the key its retries use again
  Invalid,      \* commands the server refuses whenever they come
  MaxTroubles,  \* bound: outages, error answers and reloads of the page
  MaxFinalizes  \* bound: times the operator confirms the finalization

ASSUME CommandAssumption ==
  /\ IsFiniteSet(Command) /\ Roster \subseteq Command /\ Finalize \in Command \ Roster
  /\ Invalid \subseteq Command
ASSUME TroubleAssumption == {MaxTroubles, MaxFinalizes} \subseteq Nat

Sender == {"page", "roster", "final"}
Plain  == Command \ (Roster \cup {Finalize})

VARIABLES
  store,      \* each command's entry in the browser's queue
  attempts,   \* the commands attempted, by attemptedAt
  known,      \* pendingMutations.length, as the page last read it
  timer,      \* the page's fallback timer
  redrive,    \* redriveRequestedRef
  pc,         \* where each sender is
  todo,       \* the entries it has yet to send, the first of them on its way
  answer,     \* what came back for the first
  stray,      \* requests nobody awaits any more, which may still arrive
  online,     \* the network
  applied,    \* what the server has applied, in that order
  errored,    \* history: commands answered with an error
  dismissed,  \* history: refused entries the operator removed
  cut,        \* history: the sender's last request failed on the network
  troubles, finalizes   \* counted against the bounds

queue   == <<store, attempts>>
console == <<known, timer, redrive>>
senders == <<pc, todo, answer, cut>>
network == <<stray, online, applied, errored>>
counts  == <<troubles, finalizes>>
queueVars == <<queue, console, senders, network, dismissed, counts>>

QueueTypeOK ==
  /\ store \in [Command -> {"absent", "pending", "refused"}]
  /\ attempts \in Seq(Command) /\ IsInjective(attempts)
  /\ known \in 0..Cardinality(Command) /\ timer \in {"off", "armed"} /\ redrive \in BOOLEAN
  /\ pc \in [Sender -> {"idle", "next", "answered"}]
  /\ todo \in [Sender -> Seq(Command)]
  /\ answer \in [Sender -> {"none", "ok", "refused", "error", "network"}]
  /\ stray \subseteq Command /\ online \in BOOLEAN
  /\ applied \in Seq(Command) /\ IsInjective(applied)
  /\ errored \subseteq Command /\ dismissed \subseteq Command
  /\ cut \in [Sender -> BOOLEAN]
  /\ troubles \in 0..MaxTroubles /\ finalizes \in 0..MaxFinalizes

QueueInit ==
  /\ store = [c \in Command |-> "absent"] /\ attempts = <<>>
  /\ known = 0 /\ timer = "off" /\ redrive = FALSE
  /\ pc = [s \in Sender |-> "idle"] /\ todo = [s \in Sender |-> <<>>]
  /\ answer = [s \in Sender |-> "none"]
  /\ stray = {} /\ online = TRUE /\ applied = <<>>
  /\ errored = {} /\ dismissed = {} /\ cut = [s \in Sender |-> FALSE]
  /\ troubles = 0 /\ finalizes = 0

Trouble == troubles < MaxTroubles /\ troubles' = troubles + 1
Stored(st) == {c \in Command : st[c] # "absent"}

\* refreshPendingMutations, and the effect that depends on the length only: the
\* fallback timer is set when the length changes, and never otherwise.
Refresh(st) ==
  LET n == Cardinality(Stored(st)) IN
  /\ known' = n
  /\ timer' = IF n = known THEN timer ELSE IF n > 0 THEN "armed" ELSE "off"

\* Mutant: a retry of the same command is appended as another entry.
EnqueueAnew(c) ==
  /\ store' = [store EXCEPT ![c] = "pending"]
  /\ attempts' = Append(attempts, c)

Without(q, c) == Selected(q, {i \in DOMAIN q : q[i] # c})

\* enqueue: the entry is put, with the time of this attempt.
Enqueue(c) ==
  /\ store' = [store EXCEPT ![c] = "pending"]
  /\ attempts' = Append(Without(attempts, c), c)

\* Mutant: the newest entry first.
PendingNewest(st, by) == Reverse(Selected(by, {i \in DOMAIN by : st[by[i]] = "pending"}))

\* What listPending hands a drain at its start, the refused entries skipped.
Pending(st, by) == Selected(by, {i \in DOMAIN by : st[by[i]] = "pending"})

Start(s, entries) ==
  /\ pc' = [pc EXCEPT ![s] = "next"]
  /\ todo' = [todo EXCEPT ![s] = entries]
  /\ cut' = [cut EXCEPT ![s] = FALSE]

\* drain(): a call that finds one running asks it for one more pass.
Drain(st, by) ==
  IF pc["page"] = "idle" THEN Start("page", Pending(st, by)) /\ UNCHANGED redrive
  ELSE redrive' = TRUE /\ UNCHANGED <<pc, todo, cut>>
-----------------------------------------------------------------------------
\* The operator.  mutate: stored first, and then drained.
Attempt(c) ==
  /\ c \in Plain /\ c \notin ToSet(attempts)
  /\ Enqueue(c) /\ Refresh(store') /\ Drain(store', attempts')
  /\ UNCHANGED <<answer, network, dismissed, counts>>

\* RosterSelectionStep.save: a drain of its own, and no refresh.
SaveRoster(c) ==
  /\ c \in Roster /\ c \notin ToSet(attempts) /\ pc["roster"] = "idle"
  /\ Enqueue(c) /\ Start("roster", Pending(store', attempts'))
  /\ UNCHANGED <<console, answer, network, dismissed, counts>>

\* finalize: stored, and sent at once; a retry uses the key again.
ConfirmFinal ==
  /\ finalizes < MaxFinalizes /\ finalizes' = finalizes + 1
  /\ pc["final"] = "idle" /\ Finalize \notin ToSet(applied)
  /\ Enqueue(Finalize) /\ Refresh(store') /\ Start("final", <<Finalize>>)
  /\ UNCHANGED <<redrive, answer, network, dismissed, troubles>>

Dismiss(c) ==
  /\ store[c] = "refused"
  /\ store' = [store EXCEPT ![c] = "absent"] /\ Refresh(store')
  /\ dismissed' = dismissed \cup {c}
  /\ UNCHANGED <<attempts, redrive, senders, network, counts>>

Fallback ==
  /\ timer = "armed" /\ timer' = "off"
  /\ Drain(store, attempts)
  /\ UNCHANGED <<queue, known, answer, network, dismissed, counts>>
-----------------------------------------------------------------------------
\* The server: a key it knows is answered again, a finalized match and an
\* invalid command are refusals, and everything else is applied.
Refuses(c) == c \in Invalid \/ Finalize \in ToSet(applied)
Known(c)   == c \in ToSet(applied)
Applied(c) == IF Known(c) \/ Refuses(c) THEN applied ELSE Append(applied, c)
Verdict(c) == IF Known(c) \/ ~Refuses(c) THEN "ok" ELSE "refused"

Sending(s)    == pc[s] = "next" /\ todo[s] # <<>>
Answered(s, a) == /\ pc' = [pc EXCEPT ![s] = "answered"]
                  /\ answer' = [answer EXCEPT ![s] = a]

Serve(s) ==
  /\ Sending(s) /\ online
  /\ applied' = Applied(Head(todo[s]))
  /\ Answered(s, Verdict(Head(todo[s])))
  /\ UNCHANGED <<queue, console, todo, cut, stray, online, errored, dismissed, counts>>

\* The request fails on the network, before or after it got through.
Fail(s) ==
  /\ Sending(s) /\ ~online
  /\ Answered(s, "network")
  /\ stray' \in {stray, stray \cup {Head(todo[s])}}
  /\ UNCHANGED <<queue, console, todo, cut, online, applied, errored, dismissed, counts>>

\* A server or a proxy answers with an error, whatever becomes of the request.
Error(s) ==
  /\ Sending(s) /\ online /\ Trouble
  /\ Answered(s, "error")
  /\ errored' = errored \cup {Head(todo[s])}
  /\ stray' \in {stray, stray \cup {Head(todo[s])}}
  /\ UNCHANGED <<queue, console, todo, cut, online, applied, dismissed, finalizes>>

StrayArrives(c) ==
  /\ c \in stray /\ stray' = stray \ {c}
  /\ applied' = Applied(c)
  /\ UNCHANGED <<queue, console, senders, online, errored, dismissed, counts>>
-----------------------------------------------------------------------------
\* Mutant: an entry is deleted once it has been sent, whatever comes back.
MarkedSent(c, a) == [store EXCEPT ![c] = "absent"]

\* What a sender does with the answer: markSent, markRefused, or leave it.
Marked(c, a) ==
  CASE a = "ok"                   -> [store EXCEPT ![c] = "absent"]
    [] a \in {"refused", "error"} -> IF store[c] = "absent" THEN store
                                     ELSE [store EXCEPT ![c] = "refused"]
    [] a = "network"              -> store

\* A refusal moves on to the next entry, a network failure ends the drain.
Settle(s) ==
  /\ pc[s] = "answered"
  /\ store' = Marked(Head(todo[s]), answer[s])
  /\ todo' = [todo EXCEPT ![s] = IF answer[s] = "network" THEN <<>> ELSE Tail(@)]
  /\ cut' = [cut EXCEPT ![s] = answer[s] = "network"]
  /\ answer' = [answer EXCEPT ![s] = "none"]
  /\ pc' = [pc EXCEPT ![s] = "next"]
  /\ UNCHANGED <<attempts, console, network, dismissed, counts>>

\* Mutant: a drain asked for while one runs is forgotten.
RepeatedNever == FALSE

\* The page refreshes what it shows, and makes one more pass if it was asked to.
Repeated == redrive
PassEnds ==
  /\ pc["page"] = "next" /\ todo["page"] = <<>>
  /\ Refresh(store) /\ redrive' = FALSE
  /\ IF Repeated THEN Start("page", Pending(store, attempts))
     ELSE pc' = [pc EXCEPT !["page"] = "idle"] /\ UNCHANGED <<todo, cut>>
  /\ UNCHANGED <<queue, answer, network, dismissed, counts>>

\* The roster's drain ends with no refresh, the direct send with one.
SendEnds(s) ==
  /\ s \in {"roster", "final"} /\ pc[s] = "next" /\ todo[s] = <<>>
  /\ IF s = "final" THEN Refresh(store) ELSE UNCHANGED <<known, timer>>
  /\ pc' = [pc EXCEPT ![s] = "idle"]
  /\ UNCHANGED <<queue, redrive, todo, answer, cut, network, dismissed, counts>>
-----------------------------------------------------------------------------
Down ==
  /\ online /\ Trouble /\ online' = FALSE
  /\ UNCHANGED <<queue, console, senders, stray, applied, errored, dismissed, finalizes>>

\* The network is back; the browser's `online` event drains the queue, or the
\* browser does not notice.
Up(noticed) ==
  /\ ~online /\ online' = TRUE
  /\ IF noticed THEN Drain(store, attempts) ELSE UNCHANGED <<redrive, pc, todo, cut>>
  /\ UNCHANGED <<queue, known, timer, answer, stray, applied, errored, dismissed, counts>>

\* The event stream connects, again or for the first time, and drains the queue.
StreamOpens ==
  /\ online /\ Drain(store, attempts)
  /\ UNCHANGED <<queue, known, timer, answer, network, dismissed, counts>>

\* The page is reloaded: what it was doing is gone, what it had sent may still
\* arrive, and mounting it reads the queue and drains it.
Reload ==
  /\ Trouble
  /\ pc' = [s \in Sender |-> IF s = "page" THEN "next" ELSE "idle"]
  /\ todo' = [s \in Sender |-> IF s = "page" THEN Pending(store, attempts) ELSE <<>>]
  /\ answer' = [s \in Sender |-> "none"] /\ cut' = [s \in Sender |-> FALSE]
  /\ stray' \in {stray \cup sent : sent \in SUBSET {Head(todo[s]) : s \in {t \in Sender : Sending(t)}}}
  /\ known' = Cardinality(Stored(store)) /\ timer' = IF known' > 0 THEN "armed" ELSE "off"
  /\ redrive' = FALSE
  /\ UNCHANGED <<queue, online, applied, errored, dismissed, finalizes>>
-----------------------------------------------------------------------------
QueueNext ==
  \/ \E c \in Command : Attempt(c) \/ SaveRoster(c) \/ Dismiss(c) \/ StrayArrives(c)
  \/ ConfirmFinal \/ Fallback
  \/ \E s \in Sender : Serve(s) \/ Fail(s) \/ Error(s) \/ Settle(s) \/ SendEnds(s)
  \/ PassEnds
  \/ Down \/ Up(TRUE) \/ Up(FALSE) \/ StreamOpens
  \/ Reload

QueueSpec == QueueInit /\ [][QueueNext]_queueVars

\* The page's promises are resumed, its timer fires, and a request is answered
\* or fails.  Nothing makes the network come back, or the operator act.
FairQueueSpec ==
  /\ QueueSpec
  /\ \A s \in Sender : WF_queueVars(Serve(s) \/ Fail(s) \/ Settle(s) \/ SendEnds(s))
  /\ WF_queueVars(PassEnds) /\ WF_queueVars(Fallback)
-----------------------------------------------------------------------------
\* What the operator attempted is in the queue, applied by the server, or was
\* removed by the operator who saw its refusal (enqueue before the send, and
\* markSent only after the answer), over outages, errors and reloads.
NothingLost ==
  \A c \in ToSet(attempts) :
    store[c] # "absent" \/ c \in ToSet(applied) \cup dismissed

\* The server sees the commands in the order of the attempts: one applied
\* before an earlier attempt is the finalization, which is sent directly, or the
\* earlier one was passed over because an error had been answered for it.
Place(q, c) == CHOOSE i \in DOMAIN q : q[i] = c
OrderKept ==
  \A c, d \in ToSet(applied) :
    Place(attempts, c) < Place(attempts, d) /\ Place(applied, d) < Place(applied, c)
      => Finalize \in {c, d} \/ c \in errored

\* An entry that waits has somebody who will send it: one stored while a drain
\* runs is in the next pass (redriveRequestedRef), and only a drain the network
\* cut short leaves entries to the next event, timer or reload.
Stays(c) == store[c] = "pending"
NothingLeftBehind ==
  \A c \in Command :
    Stays(c) => redrive \/ \E s \in Sender : cut[s] \/ c \in ToSet(todo[s])
=================================================================================
