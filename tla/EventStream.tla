------------------------------ MODULE EventStream ------------------------------
(***************************************************************************)
(* The outbox read as a stream: API transactions stamp an event and commit *)
(* it later; the events server polls what lies behind a connection's       *)
(* cursor and writes it to the socket; the browser's client handles one    *)
(* frame at a time, remembers the last event it handled and reconnects     *)
(* from there; and the page shows what the frames, or a fetched            *)
(* projection, told it.                                                    *)
(*                                                                         *)
(* Viewers only read, and nothing but the server's connection count        *)
(* relates them, so one is modelled: the score ticker, the live page       *)
(* (both reload when their cursor has expired) or the operator's console   *)
(* (which fetches the projection again, and keeps its cursor).             *)
(***************************************************************************)
EXTENDS Integers, Sequences, SequencesExt, FiniteSets, Selection

CONSTANTS
  Match,       \* matches of the tournament
  Surface,     \* the surfaces the viewer of this instance may be
  Kind,        \* the kinds of outbox rows this instance's commands publish
  NoEvent,     \* no cursor
  MaxFacts,    \* bound: commands per match
  MaxRows,     \* bound: commands of all matches
  MaxClock,    \* bound: the clock stops there
  Window,      \* ReplayWindow.seconds, in ticks
  BatchLimit,  \* ReplayWindow.maxEvents
  Skew,        \* how far ahead of the others an API replica's clock may be
  MaxWire,     \* bound: frames written and not yet handled
  MaxFetches,  \* bound: projection fetches in flight
  MaxDrops     \* bound: connections lost or given up

ASSUME SurfaceAssumption == Surface # {} /\ Surface \subseteq {"ticker", "live", "console"}
ASSUME KindAssumption ==
  Kind # {} /\ Kind \subseteq {"recorded", "finalized", "superseded", "internal"}
ASSUME BoundAssumption ==
  /\ {MaxFacts, MaxRows, BatchLimit, MaxWire, MaxFetches} \subseteq Nat \ {0}
  /\ {MaxClock, Window, Skew, MaxDrops} \subseteq Nat

Event == Match \X (1..MaxFacts)
ASSUME NoEventAssumption == NoEvent \notin Event

VARIABLES
  clock,
  facts,     \* what each match's transactions published, the open one's last
  head,      \* how many of them are committed
  log,       \* outbox rows, committed or not, by (created_at, event_id)
  at,        \* created_at
  surface,   \* what the viewer is
  page,      \* "up", or reloading
  conn,      \* the client's connection
  served,    \* streamEvents' cursor for it
  ended,     \* whether the server has written its last frame
  wire,      \* frames written and not yet handled
  cursor,    \* the client's CursorStore
  screen,    \* per match: the version held, and the state shown
  fetches,   \* the console's projection fetches: what each has read, if it has
  drops,
  seen,      \* history: events handled since the page loaded
  told,      \* history: what the page was rendered from when it loaded
  late       \* history: events committed behind what this viewer had read

outbox == <<clock, facts, head, log, at>>
server == <<served, ended>>
client == <<page, conn, wire, cursor, screen, fetches, drops>>
vars   == <<outbox, surface, server, client, seen, told, late>>

None    == [m \in Match |-> 0]
Expired == <<"replay.expired", 0>>      \* the frame that is no event
Unread  == [m \in Match |-> -1]         \* a fetch the API has not answered
State   == {"live", "final", "disputed"}

TypeOK ==
  /\ clock \in 0..MaxClock
  /\ facts \in [Match -> Seq(Kind)] /\ head \in [Match -> 0..MaxFacts]
  /\ \A m \in Match : Len(facts[m]) <= MaxFacts /\ head[m] \in {Len(facts[m]) - 1, Len(facts[m])}
  /\ log \in Seq(Event) /\ IsInjective(log)
  /\ at \in [Event -> 0..MaxClock + Skew]
  /\ surface \in Surface
  /\ page \in {"up", "reloading"} /\ conn \in {"down", "open"}
  /\ {served, cursor} \subseteq Event \cup {NoEvent}
  /\ ended \in BOOLEAN
  /\ wire \in Seq(Event \cup {Expired}) /\ Len(wire) <= MaxWire + 1
  /\ screen \in [Match -> [version : 0..MaxFacts, state : State]]
  /\ fetches \in Seq([Match -> 0..MaxFacts] \cup {Unread})
  /\ drops \in 0..MaxDrops
  /\ {seen, late} \subseteq SUBSET Event /\ told \in [Match -> 0..MaxFacts]
-----------------------------------------------------------------------------
KindOf(e)    == facts[e[1]][e[2]]
Committed(e) == e[2] <= head[e[1]]
Open(m)      == head[m] < Len(facts[m])
Position(e)  == CHOOSE i \in DOMAIN log : log[i] = e
Behind(c)    == IF c = NoEvent THEN 0 ELSE Position(c)

\* Whether a stream of the viewer's visibility carries the row at all.
Visible(e) == surface = "console" \/ KindOf(e) # "internal"

\* How many facts were recorded up to the event: its own sequence.
Sequence(e) == Cardinality({i \in 1..e[2] : facts[e[1]][i] = "recorded"})

\* Mutant: every row carries one version more than the one it was stamped with.
VersionAhead(e) == e[2] + 1

\* The version an event carries: a console projection's counts the commands,
\* a recorded fact's is its sequence, and every other public row's is 1.
Version(e) == IF surface = "console" THEN e[2]
              ELSE IF KindOf(e) = "recorded" THEN Sequence(e) ELSE 1

\* The state of a match after its first n facts.
StateAt(m, n) == LET of == {facts[m][i] : i \in 1..n} IN
                 IF "superseded" \in of THEN "disputed"
                 ELSE IF "finalized" \in of THEN "final" ELSE "live"

\* The version a page starts from: the live projection always says 1, the
\* ticker's markup has none, the console's projection counts the commands.
StartVersion(n) == CASE surface = "ticker"  -> 0
                     [] surface = "live"    -> 1
                     [] surface = "console" -> n

Rendered(heads) ==
  [m \in Match |-> [version |-> StartVersion(heads[m]), state |-> StateAt(m, heads[m])]]
-----------------------------------------------------------------------------
\* Publishing: a command's transaction holds a row of its match while it
\* stamps the event, so a match has one open transaction; it commits later.
Legal(m, kind) == LET of == ToSet(facts[m]) IN
                  CASE kind = "recorded"   -> "finalized" \notin of
                    [] kind = "finalized"  -> "finalized" \notin of
                    [] kind = "superseded" -> "finalized" \in of
                    [] kind = "internal"   -> TRUE

\* Where a row stamped s falls among the rows there are: events of one
\* millisecond are ordered by random bits, but a match's own are further apart.
Places(m, s) ==
  {i \in 1..Len(log) + 1 :
     \A j \in DOMAIN log :
       /\ j < i  => at[log[j]] <= s
       /\ j >= i => at[log[j]] >= s /\ (at[log[j]] = s => log[j][1] # m)}

Publish(m, kind) ==
  /\ ~Open(m) /\ Len(facts[m]) < MaxFacts /\ Len(log) < MaxRows /\ Legal(m, kind)
  /\ LET e == <<m, Len(facts[m]) + 1>> IN
     \E s \in clock..clock + Skew : \E i \in Places(m, s) :
       /\ log' = InsertAt(log, i, e)
       /\ at' = [at EXCEPT ![e] = s]
  /\ facts' = [facts EXCEPT ![m] = Append(@, kind)]
  /\ UNCHANGED <<clock, head, surface, server, client, seen, told, late>>

\* What this viewer has read up to, be it on its way to the client still.
ReadUpTo == IF conn = "open" /\ Behind(served) > Behind(cursor) THEN served ELSE cursor

Commit(m) ==
  /\ Open(m)
  /\ head' = [head EXCEPT ![m] = @ + 1]
  /\ LET e == <<m, head[m] + 1>> IN
     late' = IF Position(e) < Behind(ReadUpTo) THEN late \cup {e} ELSE late
  /\ UNCHANGED <<clock, facts, log, at, surface, server, client, seen, told>>

Rollback(m) ==
  /\ Open(m)
  /\ LET e == <<m, head[m] + 1>> IN
     /\ log' = RemoveAt(log, Position(e))
     /\ at' = [at EXCEPT ![e] = 0]
  /\ facts' = [facts EXCEPT ![m] = Front(@)]
  /\ UNCHANGED <<clock, head, surface, server, client, seen, told, late>>

Tick ==
  /\ clock < MaxClock
  /\ clock' = clock + 1
  /\ UNCHANGED <<facts, head, log, at, surface, server, client, seen, told, late>>
-----------------------------------------------------------------------------
\* The committed rows behind a cursor, by their places in the log.
Unserved(c) == {i \in DOMAIN log : i > Behind(c) /\ Committed(log[i])}

\* Mutant: of too many rows, the newest are read.
AfterNewest(c) ==
  LET rows == Unserved(c) IN
  Selected(log, {i \in rows : Cardinality({j \in rows : j >= i}) <= BatchLimit})

\* The server.  after: the oldest committed rows behind the cursor, no more
\* than the window's maximum.
After(c) ==
  LET rows == Unserved(c) IN
  Selected(log, {i \in rows : Cardinality({j \in rows : j <= i}) <= BatchLimit})

\* What a stream of the viewer's visibility carries of them.
Sent(rows) == Selected(rows, {i \in DOMAIN rows : Visible(rows[i])})

TooOld(c) == c # NoEvent /\ clock - at[c] > Window

\* Mutant: the cursor stays before the rows that are not sent.
AdvancedBySent(c, rows) == IF Sent(rows) = <<>> THEN c ELSE Last(Sent(rows))

\* The cursor advances past everything read, not everything sent.
Advanced(c, rows) == IF rows = <<>> THEN c ELSE Last(rows)

\* One turn of streamEvents.
Poll ==
  /\ conn = "open" /\ ~ended
  /\ IF TooOld(served)
     THEN /\ wire' = Append(wire, Expired)
          /\ ended' = TRUE
          /\ UNCHANGED served
     ELSE LET rows == After(served)
          IN /\ Len(wire) + Len(Sent(rows)) <= MaxWire
             /\ wire' = wire \o Sent(rows)
             /\ served' = Advanced(served, rows)
             /\ UNCHANGED ended
  /\ UNCHANGED <<outbox, surface, page, conn, cursor, screen, fetches, drops, seen, told, late>>
-----------------------------------------------------------------------------
\* The client.
Connect ==
  /\ page = "up" /\ conn = "down"
  /\ conn' = "open" /\ served' = cursor /\ ended' = FALSE
  /\ UNCHANGED <<outbox, surface, page, wire, cursor, screen, fetches, drops, seen, told, late>>

\* applyEvent and patch: an event at or below the version held is dropped.
Patched(e) ==
  LET s == screen[e[1]] IN
  IF Version(e) <= s.version THEN s
  ELSE [version |-> Version(e),
        state   |-> CASE KindOf(e) = "finalized"  -> "final"
                      [] KindOf(e) = "superseded" -> "disputed"
                      [] OTHER                    -> s.state]

Fetched == Append(fetches, Unread)
NextCursor(c, e) == e

\* A frame's handler, and then the cursor.
Handle ==
  /\ page = "up" /\ conn = "open" /\ wire # <<>> /\ Head(wire) # Expired
  /\ LET e == Head(wire) IN
     /\ IF surface = "console"
        THEN /\ UNCHANGED screen
             /\ IF Version(e) > screen[e[1]].version
                THEN Len(fetches) < MaxFetches /\ fetches' = Fetched
                ELSE UNCHANGED fetches
        ELSE screen' = [screen EXCEPT ![e[1]] = Patched(e)] /\ UNCHANGED fetches
     /\ cursor' = NextCursor(cursor, e)
     /\ seen' = seen \cup {e}
  /\ wire' = Tail(wire)
  /\ UNCHANGED <<outbox, surface, page, conn, drops, server, told, late>>

\* The public pages reload themselves; the console fetches, and reads on.
ProjectionRequired ==
  /\ page = "up" /\ conn = "open" /\ wire # <<>> /\ Head(wire) = Expired
  /\ IF surface = "console"
     THEN /\ Len(fetches) < MaxFetches /\ fetches' = Fetched
          /\ wire' = Tail(wire) /\ UNCHANGED <<page, conn>>
     ELSE /\ page' = "reloading" /\ conn' = "down" /\ wire' = <<>> /\ UNCHANGED fetches
  /\ UNCHANGED <<outbox, surface, cursor, screen, drops, server, seen, told, late>>

\* The server closed the stream: the client connects again, after a pause.
Closed ==
  /\ conn = "open" /\ ended /\ wire = <<>>
  /\ conn' = "down"
  /\ UNCHANGED <<outbox, surface, page, wire, cursor, screen, fetches, drops, server, seen, told, late>>

Drop ==
  /\ conn = "open" /\ drops < MaxDrops
  /\ drops' = drops + 1 /\ conn' = "down" /\ wire' = <<>>
  /\ UNCHANGED <<outbox, surface, page, cursor, screen, fetches, server, seen, told, late>>

\* The ticker's tab was hidden and is back: a new client, with no cursor.
Reopen ==
  /\ surface = "ticker" /\ page = "up" /\ drops < MaxDrops
  /\ drops' = drops + 1 /\ conn' = "down" /\ wire' = <<>> /\ cursor' = NoEvent
  /\ UNCHANGED <<outbox, surface, page, screen, fetches, server, seen, told, late>>

\* The page is rendered from the tables, and its client has no cursor.
Load ==
  /\ page = "reloading"
  /\ page' = "up" /\ cursor' = NoEvent
  /\ screen' = Rendered(head) /\ told' = head
  /\ seen' = {} /\ late' = {}
  /\ UNCHANGED <<outbox, surface, server, conn, wire, fetches, drops>>

\* The API answers a fetch; the answers arrive in any order, and the console
\* shows the one that arrived last.
Answer(i) ==
  /\ fetches[i] = Unread
  /\ fetches' = [fetches EXCEPT ![i] = head]
  /\ UNCHANGED <<outbox, surface, server, page, conn, wire, cursor, screen, drops, seen, told, late>>

Arrive(i) ==
  /\ fetches[i] # Unread
  /\ screen' = Rendered(fetches[i]) /\ told' = fetches[i]
  /\ fetches' = RemoveAt(fetches, i)
  /\ UNCHANGED <<outbox, surface, server, page, conn, wire, cursor, drops, seen, late>>
-----------------------------------------------------------------------------
Init ==
  /\ clock = 0 /\ facts = [m \in Match |-> <<>>] /\ head = None
  /\ log = <<>> /\ at = [e \in Event |-> 0]
  /\ surface \in Surface /\ conn = "down"
  /\ page = IF surface = "console" THEN "up" ELSE "reloading"
  /\ served = NoEvent /\ ended = FALSE /\ wire = <<>> /\ cursor = NoEvent
  /\ screen = [m \in Match |-> [version |-> 0, state |-> "live"]]
  /\ fetches = IF surface = "console" THEN <<Unread>> ELSE <<>>
  /\ drops = 0
  /\ seen = {} /\ told = None /\ late = {}

ClientStep == Connect \/ Handle \/ ProjectionRequired \/ Closed \/ Load
FetchStep  == \E i \in DOMAIN fetches : Answer(i) \/ Arrive(i)

Next ==
  \/ \E m \in Match : (\E k \in Kind : Publish(m, k)) \/ Commit(m) \/ Rollback(m)
  \/ Tick
  \/ Poll
  \/ Connect \/ Handle \/ ProjectionRequired \/ Closed \/ Load
  \/ Drop \/ Reopen
  \/ \E i \in DOMAIN fetches : Answer(i) \/ Arrive(i)

Spec == Init /\ [][Next]_vars

\* The server polls, the client handles what arrives and reconnects, and a
\* fetch is answered.  Nothing makes an operator act or a transaction commit.
FairSpec == Spec /\ WF_vars(Poll) /\ WF_vars(ClientStep) /\ WF_vars(FetchStep)
-----------------------------------------------------------------------------
\* Nothing up to the client's cursor was silently left out: every published
\* row before it was handled since the page loaded, or was committed only
\* after this viewer's stream had been read past its stamp (resolve, after,
\* the cursor in streamEvents and the one in the client together).
NoSilentGap ==
  \A e \in ToSet(log) :
    Committed(e) /\ Visible(e) /\ Position(e) <= Behind(cursor) => e \in seen \cup late

\* Every committed row reaches the viewer: as a frame, in what a fetch or the
\* page was rendered from, or it was committed late and nothing brings it.
Reached(e) == e \in seen \cup late \/ e[2] <= told[e[1]]
EveryFactReaches ==
  \A e \in Event : (Committed(e) /\ Visible(e)) ~> Reached(e)

\* What the version guard is for: a page that handled the finalization of a
\* match does not go on showing the match as live.
FinalReachesScreen ==
  \A e \in seen :
    page = "up" /\ surface # "console" /\ KindOf(e) = "finalized"
      => screen[e[1]].state # "live"
=================================================================================
