------------------------------ MODULE ClientProofs ------------------------------
(***************************************************************************)
(* The two halves of a page: what it sends (OfflineQueue) and what it is   *)
(* told (EventStream).  What holds of each for every set of commands and   *)
(* matches, however often the network fails and the page is reloaded.      *)
(***************************************************************************)
EXTENDS OfflineQueue, EventStream, TLAPS, FiniteSetTheorems, SequenceTheorems

-----------------------------------------------------------------------------
(***************************************************************************)
(* Parts of sequences.                                                     *)
(***************************************************************************)

\* The k-th smallest of a finite set of numbers is one of them, for as many k
\* as it has members, and each is the k-th smallest for one k.
LEMMA NthFacts ==
  ASSUME NEW I \in SUBSET Int, IsFiniteSet(I)
  PROVE  /\ Cardinality(I) \in Nat
         /\ \A k \in 1..Cardinality(I) : Nth(I, k) \in I
         /\ \A i \in I : \E k \in 1..Cardinality(I) : Nth(I, k) = i
         /\ \A k, l \in 1..Cardinality(I) : k < l => Nth(I, k) < Nth(I, l)
<1> DEFINE UpTo(i) == {j \in I : j <= i}
           Rank    == [i \in I |-> Cardinality(UpTo(i))]
           Ranks   == 1..Cardinality(I)
<1> HIDE DEF Rank
<1>1. Cardinality(I) \in Nat /\ IsFiniteSet(Ranks) /\ Cardinality(Ranks) = Cardinality(I)
  BY FS_CardinalityType, FS_Interval
<1>2. ASSUME NEW i \in I
      PROVE  /\ IsFiniteSet(UpTo(i)) /\ Cardinality(UpTo(i)) \in Ranks
             /\ Rank[i] = Cardinality(UpTo(i))
  <2>1. UpTo(i) \in SUBSET I /\ i \in UpTo(i)
    OBVIOUS
  <2>2. IsFiniteSet(UpTo(i)) /\ Cardinality(UpTo(i)) <= Cardinality(I)
    BY <2>1, FS_Subset
  <2>3. Cardinality(UpTo(i)) \in Nat /\ Cardinality(UpTo(i)) # 0
    BY <2>1, <2>2, FS_CardinalityType, FS_EmptySet
  <2> QED BY <1>1, <2>2, <2>3 DEF Rank
<1>3. ASSUME NEW i \in I, NEW h \in I, i < h
      PROVE  Rank[i] < Rank[h]
  <2>1. UpTo(i) \in SUBSET UpTo(h) /\ UpTo(i) # UpTo(h)
    <3>1. i \in Int /\ h \in Int /\ \A j \in I : j \in Int
      OBVIOUS
    <3>2. h \in UpTo(h) /\ h \notin UpTo(i)
      BY <1>3, <3>1
    <3>3. \A j \in UpTo(i) : j \in UpTo(h)
      BY <1>3, <3>1
    <3> QED BY <3>2, <3>3
  <2>2. Cardinality(UpTo(i)) <= Cardinality(UpTo(h)) /\ Cardinality(UpTo(i)) # Cardinality(UpTo(h))
    BY <2>1, <1>2, FS_Subset
  <2>3. /\ Rank[i] = Cardinality(UpTo(i)) /\ Cardinality(UpTo(i)) \in Ranks
        /\ Rank[h] = Cardinality(UpTo(h)) /\ Cardinality(UpTo(h)) \in Ranks
    BY <1>2
  <2>4. \A k \in Ranks : k \in Int
    BY <1>1
  <2> QED BY <2>2, <2>3, <2>4
<1>4. Rank \in Injection(I, Ranks)
  <2>1. Rank \in [I -> Ranks]
    BY <1>2 DEF Rank
  <2>2. \A a, b \in I : Rank[a] = Rank[b] => a = b
    <3>1. ASSUME NEW a \in I PROVE a \in Int /\ Rank[a] \in Int
      <4>1. Rank[a] \in Ranks
        BY <1>2
      <4> QED BY <1>1, <4>1
    <3> QED BY <1>3, <3>1
  <2> QED BY <2>1, <2>2 DEF Injection, IsInjective
<1>5. Rank \in Surjection(I, Ranks)
  BY <1>1, <1>4, FS_Injection
<1>6. ASSUME NEW k \in Ranks PROVE Nth(I, k) \in I /\ Rank[Nth(I, k)] = k
  <2>1. PICK i \in I : Rank[i] = k
    BY <1>5 DEF Surjection
  <2>2. Cardinality({j \in I : j <= i}) = k
    BY <1>2, <2>1
  <2>3. Nth(I, k) \in I /\ Cardinality({j \in I : j <= Nth(I, k)}) = k
    BY <2>2 DEF Nth
  <2> QED BY <1>2, <2>3
<1>7. ASSUME NEW i \in I PROVE \E k \in Ranks : Nth(I, k) = i
  <2>1. Rank[i] \in Ranks
    BY <1>2
  <2>2. Nth(I, Rank[i]) \in I /\ Rank[Nth(I, Rank[i])] = Rank[i]
    BY <1>6, <2>1
  <2>3. Nth(I, Rank[i]) = i
    BY <1>4, <2>2 DEF Injection, IsInjective
  <2> QED BY <2>1, <2>3
<1>8. ASSUME NEW k \in Ranks, NEW l \in Ranks, k < l PROVE Nth(I, k) < Nth(I, l)
  <2>1. Nth(I, k) \in Int /\ Nth(I, l) \in Int
    BY <1>6
  <2>2. k \in Int /\ l \in Int
    BY <1>1
  <2>3. Nth(I, k) # Nth(I, l)
    BY <1>6, <1>8, <2>2
  <2>4. ~ (Nth(I, l) < Nth(I, k))
    <3>1. Nth(I, l) < Nth(I, k) => Rank[Nth(I, l)] < Rank[Nth(I, k)]
      BY <1>3, <1>6
    <3> QED BY <1>6, <1>8, <2>2, <3>1
  <2> QED BY <2>1, <2>3, <2>4
<1> QED BY <1>1, <1>6, <1>7, <1>8

\* What the part of a sequence at some of its positions holds, and in which order.
LEMMA SelectedFacts ==
  ASSUME NEW S, NEW s \in Seq(S), NEW I \in SUBSET DOMAIN s
  PROVE  /\ Selected(s, I) \in Seq(S)
         /\ Len(Selected(s, I)) \in 0..Len(s)
         /\ ToSet(Selected(s, I)) = {s[i] : i \in I}
         /\ \A k, l \in DOMAIN Selected(s, I) : k < l =>
              \E i, j \in I : i < j /\ Selected(s, I)[k] = s[i] /\ Selected(s, I)[l] = s[j]
         /\ \A i, j \in I : i < j =>
              \E k, l \in DOMAIN Selected(s, I) :
                k < l /\ Selected(s, I)[k] = s[i] /\ Selected(s, I)[l] = s[j]
<1> DEFINE n == Cardinality(I)
           t == Selected(s, I)
<1>1. Len(s) \in Nat /\ DOMAIN s = 1..Len(s) /\ \A i \in DOMAIN s : s[i] \in S
  BY LenProperties
<1>2. IsFiniteSet(I) /\ n \in Nat /\ n <= Len(s) /\ I \in SUBSET Int
  <2>1. IsFiniteSet(1..Len(s)) /\ Cardinality(1..Len(s)) = Len(s)
    <3>1. \A m \in Nat : IsFiniteSet(1..m) /\ Cardinality(1..m) = m
      BY FS_Interval
    <3> QED BY <1>1, <3>1
  <2>2. IsFiniteSet(I) /\ n <= Len(s)
    BY <1>1, <2>1, FS_Subset
  <2> QED BY <1>1, <2>2, FS_CardinalityType
<1>3. \A k \in 1..n : Nth(I, k) \in I
  BY <1>2, NthFacts
<1>4. t = [k \in 1..n |-> s[Nth(I, k)]]
  BY DEF Selected
<1> HIDE DEF n, t
<1>5. t \in Seq(S) /\ Len(t) = n /\ DOMAIN t = 1..n
  <2>1. t \in [1..n -> S]
    BY <1>1, <1>3, <1>4
  <2>2. t \in Seq(S)
    BY <2>1, <1>2, SeqDef
  <2>3. DOMAIN t = 1..n /\ DOMAIN t = 1..Len(t) /\ Len(t) \in Nat
    BY <2>1, <2>2, LenProperties
  <2> QED BY <2>2, <2>3, <1>2
<1>6. \A i \in I : \E k \in 1..n : Nth(I, k) = i
  BY <1>2, NthFacts DEF n
<1>7. \A k, l \in 1..n : k < l => Nth(I, k) < Nth(I, l)
  BY <1>2, NthFacts DEF n
<1>8. ToSet(t) = {s[i] : i \in I}
  BY <1>3, <1>4, <1>5, <1>6 DEF ToSet
<1>9. \A k, l \in DOMAIN t : k < l => \E i, j \in I : i < j /\ t[k] = s[i] /\ t[l] = s[j]
  BY <1>3, <1>4, <1>5, <1>7
<1>10. ASSUME NEW i \in I, NEW j \in I, i < j
       PROVE  \E k, l \in DOMAIN t : k < l /\ t[k] = s[i] /\ t[l] = s[j]
  <2>1. PICK k \in 1..n, l \in 1..n : Nth(I, k) = i /\ Nth(I, l) = j
    BY <1>6
  <2>2. k < l
    <3>1. ~ (l < k) /\ k # l
      BY <1>2, <1>7, <1>10, <2>1
    <3> QED BY <1>2, <3>1
  <2> QED BY <1>4, <1>5, <2>1, <2>2
<1> QED BY <1>2, <1>5, <1>8, <1>9, <1>10 DEF t

-----------------------------------------------------------------------------
(***************************************************************************)
(* The queue.  Lists of commands first.                                    *)
(***************************************************************************)

\* A list is its first element, and then the rest of it.
LEMMA TailFacts ==
  ASSUME NEW S, NEW q \in Seq(S), q # <<>>
  PROVE  /\ Len(q) \in Nat \ {0} /\ DOMAIN q = 1..Len(q)
         /\ Head(q) = q[1] /\ Head(q) \in S /\ Head(q) \in ToSet(q)
         /\ Tail(q) \in Seq(S) /\ Len(Tail(q)) = Len(q) - 1 /\ DOMAIN Tail(q) = 1..Len(q) - 1
         /\ \A i \in 1..Len(q) - 1 : Tail(q)[i] = q[i + 1]
         /\ ToSet(q) = ToSet(Tail(q)) \cup {Head(q)}
<1>1. /\ Len(q) \in Nat \ {0} /\ DOMAIN q = 1..Len(q)
      /\ Head(q) = q[1] /\ Head(q) \in S
      /\ Tail(q) \in Seq(S) /\ Len(Tail(q)) = Len(q) - 1 /\ DOMAIN Tail(q) = 1..Len(q) - 1
      /\ \A i \in 1..Len(q) - 1 : Tail(q)[i] = q[i + 1]
  OBVIOUS
<1>2. Head(q) \in ToSet(q)
  BY <1>1 DEF ToSet
<1>3. ASSUME NEW d \in ToSet(q) PROVE d \in ToSet(Tail(q)) \cup {Head(q)}
  <2>1. PICK i \in 1..Len(q) : q[i] = d
    BY <1>1 DEF ToSet
  <2>2. CASE i = 1
    BY <1>1, <2>1, <2>2
  <2>3. CASE i # 1
    <3>1. i - 1 \in 1..Len(q) - 1 /\ Tail(q)[i - 1] = d
      BY <1>1, <2>1, <2>3
    <3> QED BY <1>1, <3>1 DEF ToSet
  <2> QED BY <2>2, <2>3
<1>4. ASSUME NEW d \in ToSet(Tail(q)) PROVE d \in ToSet(q)
  BY <1>1 DEF ToSet
<1> QED BY <1>1, <1>2, <1>3, <1>4

\* Where an element of a list without repetitions is.
LEMMA PlaceFacts ==
  ASSUME NEW S, NEW q \in Seq(S), IsInjective(q)
  PROVE  /\ \A a \in ToSet(q) : Place(q, a) \in DOMAIN q /\ q[Place(q, a)] = a
         /\ \A i \in DOMAIN q : q[i] \in ToSet(q) /\ Place(q, q[i]) = i
<1>1. \A a \in ToSet(q) : \E i \in DOMAIN q : q[i] = a
  BY DEF ToSet
<1>2. \A a \in ToSet(q) : Place(q, a) \in DOMAIN q /\ q[Place(q, a)] = a
  BY <1>1 DEF Place
<1>3. \A i \in DOMAIN q : q[i] \in ToSet(q)
  BY DEF ToSet
<1> QED BY <1>2, <1>3 DEF IsInjective

\* Appending a new element keeps the places of the others, and is the last.
LEMMA AppendFacts ==
  ASSUME NEW S, NEW q \in Seq(S), IsInjective(q), NEW c \in S, c \notin ToSet(q)
  PROVE  /\ Append(q, c) \in Seq(S) /\ IsInjective(Append(q, c))
         /\ ToSet(Append(q, c)) = ToSet(q) \cup {c}
         /\ \A a \in ToSet(q) : /\ Place(Append(q, c), a) = Place(q, a)
                                /\ Place(q, a) < Place(Append(q, c), c)
<1> DEFINE r == Append(q, c)
<1>1. /\ r \in Seq(S) /\ Len(q) \in Nat /\ DOMAIN q = 1..Len(q)
      /\ DOMAIN r = 1..Len(q) + 1
      /\ \A i \in 1..Len(q) : r[i] = q[i]
      /\ r[Len(q) + 1] = c
  BY AppendProperties, LenProperties
<1> HIDE DEF r
<1>2. \A i \in 1..Len(q) : q[i] # c
  BY <1>1 DEF ToSet
<1>3. IsInjective(r)
  BY <1>1, <1>2 DEF IsInjective
<1>4. ToSet(r) = ToSet(q) \cup {c}
  BY <1>1 DEF ToSet
<1>5. \A a \in ToSet(q) : Place(q, a) \in 1..Len(q) /\ q[Place(q, a)] = a
  BY <1>1, PlaceFacts
<1>6. \A i \in 1..Len(q) + 1 : Place(r, r[i]) = i
  BY <1>1, <1>3, PlaceFacts
<1>7. \A a \in ToSet(q) : Place(r, a) = Place(q, a)
  BY <1>1, <1>5, <1>6
<1>8. Place(r, c) = Len(q) + 1
  BY <1>1, <1>6
<1> QED BY <1>1, <1>3, <1>4, <1>5, <1>7, <1>8 DEF r

\* An attempt puts its command last, and leaves the others in their order.
LEMMA EnqueueFacts ==
  ASSUME NEW S, NEW q \in Seq(S), IsInjective(q), NEW c \in S
  PROVE  LET r == Append(Without(q, c), c) IN
         /\ r \in Seq(S) /\ IsInjective(r) /\ ToSet(r) = ToSet(q) \cup {c}
         /\ \A a \in ToSet(q) \ {c} : ~ (Place(r, c) < Place(r, a))
         /\ \A a, b \in ToSet(q) \ {c} : Place(r, a) < Place(r, b) => Place(q, a) < Place(q, b)
<1> DEFINE I == {i \in DOMAIN q : q[i] # c}
           t == Selected(q, I)
<1>0. I \in SUBSET DOMAIN q
  OBVIOUS
<1> HIDE DEF I
<1>1. /\ t \in Seq(S) /\ ToSet(t) = {q[i] : i \in I}
      /\ \A k, l \in DOMAIN t : k < l =>
           \E i, j \in I : i < j /\ t[k] = q[i] /\ t[l] = q[j]
  BY <1>0, SelectedFacts
<1>2. /\ Len(q) \in Nat /\ DOMAIN q = 1..Len(q)
      /\ Len(t) \in Nat /\ DOMAIN t = 1..Len(t)
  BY <1>1, LenProperties
<1>3. Without(q, c) = t
  BY DEF Without, I
<1>4. ToSet(t) = ToSet(q) \ {c}
  BY <1>1 DEF ToSet, I
<1> HIDE DEF t
<1>5. IsInjective(t)
  <2>1. ASSUME NEW k \in DOMAIN t, NEW l \in DOMAIN t, k < l PROVE t[k] # t[l]
    BY <1>0, <1>1, <1>2, <2>1 DEF IsInjective
  <2> QED BY <1>2, <2>1 DEF IsInjective
<1>6. /\ Append(t, c) \in Seq(S) /\ IsInjective(Append(t, c))
      /\ ToSet(Append(t, c)) = ToSet(t) \cup {c}
      /\ \A a \in ToSet(t) : /\ Place(Append(t, c), a) = Place(t, a)
                             /\ Place(t, a) < Place(Append(t, c), c)
  BY <1>1, <1>4, <1>5, AppendFacts
<1>7. \A a \in ToSet(t) : Place(t, a) \in DOMAIN t /\ t[Place(t, a)] = a
  BY <1>1, <1>5, PlaceFacts
<1>8. \A i \in DOMAIN q : Place(q, q[i]) = i
  BY PlaceFacts
<1>9. \A a, b \in ToSet(t) : Place(t, a) < Place(t, b) => Place(q, a) < Place(q, b)
  BY <1>0, <1>1, <1>7, <1>8
<1>10. Place(Append(t, c), c) \in Int /\ \A a \in ToSet(t) : Place(t, a) \in Int
  <2>1. Append(t, c) \in Seq(S) /\ c \in ToSet(Append(t, c)) /\ IsInjective(Append(t, c))
    BY <1>6
  <2>2. Place(Append(t, c), c) \in DOMAIN Append(t, c)
    BY <2>1, PlaceFacts
  <2>3. DOMAIN Append(t, c) = 1..Len(Append(t, c)) /\ Len(Append(t, c)) \in Nat
    BY <2>1, LenProperties
  <2> QED BY <1>2, <1>7, <2>2, <2>3
<1> QED BY <1>3, <1>4, <1>6, <1>9, <1>10

\* What a drain is handed: all that is pending, in the order of the attempts.
LEMMA PendingFacts ==
  ASSUME NEW S, NEW by \in Seq(S), IsInjective(by), NEW st
  PROVE  LET p == Pending(st, by) IN
         /\ p \in Seq(S) /\ ToSet(p) = {c \in ToSet(by) : st[c] = "pending"}
         /\ \A c \in ToSet(by) : \A j \in DOMAIN p :
              st[c] = "pending" /\ Place(by, c) < Place(by, p[j])
                => \E i \in 1..j - 1 : p[i] = c
<1> DEFINE I == {i \in DOMAIN by : st[by[i]] = "pending"}
           p == Selected(by, I)
<1>0. I \in SUBSET DOMAIN by
  OBVIOUS
<1> HIDE DEF I
<1>1. /\ p \in Seq(S) /\ ToSet(p) = {by[i] : i \in I}
      /\ \A k, l \in DOMAIN p : k < l =>
           \E i, j \in I : i < j /\ p[k] = by[i] /\ p[l] = by[j]
      /\ \A i, j \in I : i < j =>
           \E k, l \in DOMAIN p : k < l /\ p[k] = by[i] /\ p[l] = by[j]
  BY <1>0, SelectedFacts
<1>2. /\ Len(by) \in Nat /\ DOMAIN by = 1..Len(by)
      /\ Len(p) \in Nat /\ DOMAIN p = 1..Len(p)
  BY <1>1, LenProperties
<1>3. Pending(st, by) = p
  BY DEF Pending, I
<1>4. ToSet(p) = {c \in ToSet(by) : st[c] = "pending"}
  <2>1. \A i \in DOMAIN by : by[i] \in ToSet(by)
    BY DEF ToSet
  <2>2. \A c \in ToSet(by) : \E i \in DOMAIN by : by[i] = c
    BY DEF ToSet
  <2> QED BY <1>1, <2>1, <2>2 DEF I
<1> HIDE DEF p
<1>5. IsInjective(p)
  <2>1. ASSUME NEW k \in DOMAIN p, NEW l \in DOMAIN p, k < l PROVE p[k] # p[l]
    BY <1>0, <1>1, <1>2, <2>1 DEF IsInjective
  <2> QED BY <1>2, <2>1 DEF IsInjective
<1>6. ASSUME NEW c \in ToSet(by), NEW j \in DOMAIN p,
             st[c] = "pending", Place(by, c) < Place(by, p[j])
      PROVE  \E i \in 1..j - 1 : p[i] = c
  <2>1. p[j] \in ToSet(p)
    BY DEF ToSet
  <2>2. Place(by, c) \in I /\ by[Place(by, c)] = c
    BY <1>6, PlaceFacts DEF I
  <2>3. Place(by, p[j]) \in I /\ by[Place(by, p[j])] = p[j]
    BY <1>4, <2>1, PlaceFacts DEF I
  <2>4. PICK k \in DOMAIN p, l \in DOMAIN p : k < l /\ p[k] = c /\ p[l] = p[j]
    BY <1>1, <1>6, <2>2, <2>3
  <2>5. l = j
    BY <1>5, <2>4 DEF IsInjective
  <2> QED BY <1>2, <2>4, <2>5
<1> QED BY <1>1, <1>3, <1>4, <1>6

-----------------------------------------------------------------------------
(***************************************************************************)
(* The inductive invariant of the queue.                                   *)
(***************************************************************************)

\* Where the senders can be, and what they can have to send.
Steady ==
  \A s \in Sender :
    /\ pc[s] = "idle" => todo[s] = <<>>
    /\ pc[s] = "answered" => todo[s] # <<>> /\ answer[s] # "none"
    /\ cut[s] => todo[s] = <<>>
    /\ ToSet(todo[s]) \subseteq ToSet(attempts)
    /\ s = "final" => ToSet(todo[s]) \subseteq {Finalize}

\* Only what was attempted is anywhere.
Listed ==
  /\ \A c \in Command : store[c] # "absent" => c \in ToSet(attempts)
  /\ stray \cup ToSet(applied) \subseteq ToSet(attempts)

\* What an answer that has not been looked at yet still tells.
Told ==
  \A s \in Sender : pc[s] = "answered" =>
    /\ answer[s] = "ok" => Head(todo[s]) \in ToSet(applied)
    /\ answer[s] = "refused" => Refuses(Head(todo[s]))
    /\ answer[s] = "error" => Head(todo[s]) \in errored

\* A command the server will not apply later than now, if an error does not
\* hide that it might.
Passed(c) == c \in ToSet(applied) \cup errored \/ Refuses(c)
Settled   == \A c \in ToSet(attempts) : store[c] # "pending" => Passed(c)

\* Before a command is sent, what was attempted earlier has passed, or is
\* ahead of it with the same sender.
Earlier(c, d) == Place(attempts, c) < Place(attempts, d)
Ordinary      == ToSet(attempts) \ {Finalize}
AheadSent ==
  \A c, d \in Ordinary : Earlier(c, d) /\ d \in ToSet(applied) \cup stray => Passed(c)
AheadAt(s) ==
  \A c, d \in Ordinary : \A j \in DOMAIN todo[s] :
    Earlier(c, d) /\ todo[s][j] = d => Passed(c) \/ \E i \in 1..j - 1 : todo[s][i] = c
Ahead == AheadSent /\ \A s \in Sender : AheadAt(s)

\* The sender of the finalization attends to nothing else.
Attended ==
  \A c \in Command : Stays(c) =>
    \/ redrive \/ \E s \in {"page", "roster"} : cut[s] \/ c \in ToSet(todo[s])
    \/ c = Finalize /\ (cut["final"] \/ c \in ToSet(todo["final"]))

QueueInv ==
  /\ QueueTypeOK /\ Steady /\ Listed /\ Told /\ Settled /\ Ahead /\ Attended
  /\ NothingLost /\ OrderKept

-----------------------------------------------------------------------------
\* A sender that takes all that is pending sends nothing before what was
\* attempted earlier and still waits.
LEMMA PassFacts ==
  ASSUME NEW s \in Sender, attempts' \in Seq(Command), IsInjective(attempts'), Settled',
         todo'[s] = Pending(store', attempts')
  PROVE  /\ ToSet(todo'[s]) = {c \in ToSet(attempts') : store'[c] = "pending"}
         /\ AheadAt(s)'
<1>1. /\ ToSet(todo'[s]) = {c \in ToSet(attempts') : store'[c] = "pending"}
      /\ \A c \in ToSet(attempts') : \A j \in DOMAIN todo'[s] :
           store'[c] = "pending" /\ Place(attempts', c) < Place(attempts', todo'[s][j])
             => \E i \in 1..j - 1 : todo'[s][i] = c
  BY PendingFacts
<1>2. \A c \in ToSet(attempts') : store'[c] # "pending" => Passed(c)'
  BY DEF Settled
<1> QED BY <1>1, <1>2 DEF AheadAt, Earlier, Ordinary

\* An attempt, whatever sends it: what it leaves as it was.
LEMMA EnqueueKeeps ==
  ASSUME QueueInv, NEW x \in Command, x \notin ToSet(attempts) \/ x = Finalize, Enqueue(x),
         UNCHANGED <<stray, applied, errored, dismissed>>
  PROVE  /\ store' \in [Command -> {"absent", "pending", "refused"}]
         /\ \A c \in Command : store'[c] = IF c = x THEN "pending" ELSE store[c]
         /\ attempts' \in Seq(Command) /\ IsInjective(attempts')
         /\ ToSet(attempts') = ToSet(attempts) \cup {x}
         /\ Listed' /\ Settled' /\ AheadSent' /\ NothingLost' /\ OrderKept'
         /\ \A s \in Sender : todo'[s] = todo[s] => AheadAt(s)'
<1> USE DEF QueueInv
<1>1. /\ store' \in [Command -> {"absent", "pending", "refused"}]
      /\ \A c \in Command : store'[c] = IF c = x THEN "pending" ELSE store[c]
  BY DEF QueueTypeOK, Enqueue
<1>2. /\ attempts' \in Seq(Command) /\ IsInjective(attempts')
      /\ ToSet(attempts') = ToSet(attempts) \cup {x}
      /\ \A a \in ToSet(attempts) \ {x} : ~ (Place(attempts', x) < Place(attempts', a))
      /\ \A a, b \in ToSet(attempts) \ {x} :
           Place(attempts', a) < Place(attempts', b) => Place(attempts, a) < Place(attempts, b)
  BY EnqueueFacts DEF QueueTypeOK, Enqueue
<1>3. \A c \in Command : Passed(c)' <=> Passed(c)
  BY DEF Passed, Refuses
<1>4. ToSet(attempts) \subseteq Command
  BY DEF QueueTypeOK, ToSet
<1>5. ASSUME NEW c \in Ordinary', NEW d \in Ordinary', Earlier(c, d)', d # x
      PROVE  c \in Ordinary /\ d \in Ordinary /\ Earlier(c, d)
  BY <1>2, <1>5 DEF Ordinary, Earlier
<1>6. Listed'
  BY <1>1, <1>2 DEF Listed
<1>7. Settled'
  BY <1>1, <1>2, <1>3, <1>4 DEF Settled
<1>8. AheadSent'
  <2>1. ASSUME NEW c \in Ordinary', NEW d \in Ordinary', Earlier(c, d)',
               d \in ToSet(applied) \cup stray
        PROVE  Passed(c)
    <3>1. d # x
      BY <2>1 DEF Listed, Ordinary
    <3> QED BY <1>5, <2>1, <3>1 DEF Ahead, AheadSent
  <2>2. \A c \in Ordinary' : c \in Command
    BY <1>2, <1>4 DEF Ordinary
  <2> QED BY <1>3, <2>1, <2>2 DEF AheadSent
<1>9. ASSUME NEW s \in Sender, todo'[s] = todo[s] PROVE AheadAt(s)'
  <2>1. ASSUME NEW c \in Ordinary', NEW d \in Ordinary', Earlier(c, d)',
               NEW j \in DOMAIN todo[s], todo[s][j] = d
        PROVE  Passed(c) \/ \E i \in 1..j - 1 : todo[s][i] = c
    <3>1. d \in ToSet(attempts)
      BY <2>1 DEF Steady, ToSet
    <3>2. d # x
      BY <2>1, <3>1 DEF Ordinary
    <3> QED BY <1>5, <2>1, <3>2 DEF Ahead, AheadAt
  <2>2. \A c \in Ordinary' : c \in Command
    BY <1>2, <1>4 DEF Ordinary
  <2> QED BY <1>3, <1>9, <2>1, <2>2 DEF AheadAt
<1>10. NothingLost'
  BY <1>1, <1>2, <1>4 DEF NothingLost
<1>11. OrderKept'
  <2>1. ASSUME NEW c \in ToSet(applied), NEW d \in ToSet(applied),
               Place(attempts', c) < Place(attempts', d), Place(applied, d) < Place(applied, c),
               Finalize \notin {c, d}
        PROVE  c \in errored
    <3>1. c \in ToSet(attempts) \ {x} /\ d \in ToSet(attempts) \ {x}
      BY <2>1 DEF Listed
    <3>2. Place(attempts, c) < Place(attempts, d)
      BY <1>2, <2>1, <3>1
    <3> QED BY <2>1, <3>2 DEF OrderKept
  <2> QED BY <2>1 DEF OrderKept
<1> QED BY <1>1, <1>2, <1>6, <1>7, <1>8, <1>9, <1>10, <1>11

\* A request that gets through, awaited or not: the server comes to no other
\* view of what it has passed, and keeps the order.
LEMMA ServerKeeps ==
  ASSUME QueueInv, NEW x \in ToSet(attempts), applied' = Applied(x),
         UNCHANGED <<queue, todo, errored, dismissed>>, stray' \subseteq stray,
         x # Finalize => \A c \in Ordinary : Earlier(c, x) => Passed(c)
  PROVE  /\ applied' \in Seq(Command) /\ IsInjective(applied')
         /\ ToSet(applied) \subseteq ToSet(applied') /\ (Refuses(x) \/ x \in ToSet(applied'))
         /\ ToSet(applied') \subseteq ToSet(attempts)
         /\ \A c : Refuses(c) => Refuses(c)'
         /\ Settled' /\ Ahead' /\ NothingLost' /\ OrderKept'
<1> USE DEF QueueInv
<1>1. x \in Command /\ ToSet(attempts) \subseteq Command
  BY DEF QueueTypeOK, ToSet
<1>2. CASE Known(x) \/ Refuses(x)
  <2>1. applied' = applied /\ UNCHANGED <<store, attempts, todo, errored, dismissed>>
    BY <1>2 DEF Applied, queue
  <2>2. \A c : (Refuses(c) <=> Refuses(c)') /\ (Passed(c) <=> Passed(c)')
    BY <2>1 DEF Refuses, Passed
  <2>3. Settled' /\ NothingLost' /\ OrderKept'
    BY <2>1, <2>2 DEF Settled, NothingLost, OrderKept
  <2>4. AheadSent'
    BY <2>1, <2>2 DEF Ahead, AheadSent, Ordinary, Earlier
  <2>5. \A s \in Sender : AheadAt(s)'
    BY <2>1, <2>2 DEF Ahead, AheadAt, Ordinary, Earlier
  <2> QED BY <1>2, <2>1, <2>2, <2>3, <2>4, <2>5 DEF QueueTypeOK, Listed, Known, Ahead
<1>3. CASE ~ (Known(x) \/ Refuses(x))
  <2>1. /\ applied' = Append(applied, x) /\ x \notin ToSet(applied) /\ ~ Refuses(x)
        /\ UNCHANGED <<store, attempts, todo, errored, dismissed>>
    BY <1>3 DEF Applied, queue, Known
  <2>2. /\ applied' \in Seq(Command) /\ IsInjective(applied')
        /\ ToSet(applied') = ToSet(applied) \cup {x}
        /\ \A a \in ToSet(applied) : /\ Place(applied', a) = Place(applied, a)
                                     /\ Place(applied, a) < Place(applied', x)
    BY <1>1, <2>1, AppendFacts DEF QueueTypeOK
  <2>3. \A c : (Refuses(c) => Refuses(c)') /\ (Passed(c) => Passed(c)')
    BY <2>1, <2>2 DEF Refuses, Passed
  <2>4. Settled' /\ NothingLost'
    BY <2>1, <2>2, <2>3 DEF Settled, NothingLost
  <2>5. AheadSent'
    BY <2>1, <2>2, <2>3 DEF Ahead, AheadSent, Ordinary, Earlier
  <2>6. \A s \in Sender : AheadAt(s)'
    BY <2>1, <2>3 DEF Ahead, AheadAt, Ordinary, Earlier
  <2>7. OrderKept'
    <3>1. ASSUME NEW c \in ToSet(applied'), NEW d \in ToSet(applied'),
                 Place(attempts, c) < Place(attempts, d), Place(applied', d) < Place(applied', c),
                 Finalize \notin {c, d}
          PROVE  c \in errored
      <4>1. CASE c \in ToSet(applied) /\ d \in ToSet(applied)
        BY <2>2, <3>1, <4>1 DEF OrderKept
      <4>2. CASE d = x
        <5>1. Place(applied', c) \in Int /\ Place(applied', d) \in Int
          <6>1. Place(applied', c) \in DOMAIN applied' /\ Place(applied', d) \in DOMAIN applied'
            BY <2>2, <3>1, PlaceFacts
          <6> QED BY <2>2, <6>1, LenProperties
        <5>2. c \in ToSet(applied)
          BY <2>2, <3>1, <4>2, <5>1
        <5>3. Place(applied', c) < Place(applied', d)
          BY <2>2, <4>2, <5>2
        <5> QED BY <3>1, <5>1, <5>3
      <4>3. CASE c = x /\ d \in ToSet(applied)
        <5>1. c \in Ordinary /\ d \in Ordinary /\ Earlier(c, d)
          BY <3>1, <4>3 DEF Ordinary, Earlier, Listed
        <5>2. Passed(c)
          BY <4>3, <5>1 DEF Ahead, AheadSent
        <5> QED BY <2>1, <4>3, <5>2 DEF Passed
      <4> QED BY <2>2, <3>1, <4>1, <4>2, <4>3
    <3> QED BY <2>1, <3>1 DEF OrderKept
  <2> QED BY <2>2, <2>3, <2>4, <2>5, <2>6, <2>7 DEF Ahead, Listed
<1> QED BY <1>2, <1>3

-----------------------------------------------------------------------------
\* The page counts no more entries than there are commands.
LEMMA RefreshTypes ==
  ASSUME NEW st, Refresh(st), timer \in {"off", "armed"}
  PROVE  known' \in 0..Cardinality(Command) /\ timer' \in {"off", "armed"}
<1>1. Cardinality(Stored(st)) \in 0..Cardinality(Command)
  BY CommandAssumption, FS_Subset, FS_CardinalityType DEF Stored
<1> QED BY <1>1 DEF Refresh

\* A drain the page asks for: it takes all that waits, or will once more.
LEMMA DrainKeeps ==
  ASSUME QueueTypeOK, Steady, Told, Attended,
         attempts' \in Seq(Command), IsInjective(attempts'), Settled', Listed',
         ToSet(attempts) \subseteq ToSet(attempts'),
         \A s \in Sender : todo'[s] = todo[s] => AheadAt(s)',
         Drain(store', attempts'), UNCHANGED <<answer, applied, errored>>
  PROVE  /\ pc' \in [Sender -> {"idle", "next", "answered"}]
         /\ todo' \in [Sender -> Seq(Command)]
         /\ cut' \in [Sender -> BOOLEAN] /\ redrive' \in BOOLEAN
         /\ Steady' /\ Told' /\ Attended' /\ \A s \in Sender : AheadAt(s)'
<1>1. "page" \in Sender /\ "roster" \in Sender /\ "final" \in Sender
  BY DEF Sender
<1>2. CASE pc["page"] = "idle"
  <2>1. Start("page", Pending(store', attempts')) /\ UNCHANGED redrive
    BY <1>2 DEF Drain
  <2>2. Pending(store', attempts') \in Seq(Command)
    BY PendingFacts
  <2>3. /\ pc' \in [Sender -> {"idle", "next", "answered"}]
        /\ todo' \in [Sender -> Seq(Command)] /\ cut' \in [Sender -> BOOLEAN]
        /\ pc'["page"] = "next" /\ todo'["page"] = Pending(store', attempts') /\ cut'["page"] = FALSE
        /\ \A s \in Sender \ {"page"} : pc'[s] = pc[s] /\ todo'[s] = todo[s] /\ cut'[s] = cut[s]
    BY <1>1, <2>1, <2>2 DEF QueueTypeOK, Start
  <2>4. /\ ToSet(todo'["page"]) = {c \in ToSet(attempts') : store'[c] = "pending"}
        /\ AheadAt("page")'
    BY <1>1, <2>3, PassFacts
  <2>5. Steady'
    <3>1. ASSUME NEW s \in Sender \ {"page"}
          PROVE  /\ pc'[s] = "idle" => todo'[s] = <<>>
                 /\ pc'[s] = "answered" => todo'[s] # <<>> /\ answer'[s] # "none"
                 /\ cut'[s] => todo'[s] = <<>>
                 /\ ToSet(todo'[s]) \subseteq ToSet(attempts')
                 /\ s = "final" => ToSet(todo'[s]) \subseteq {Finalize}
      BY <2>3 DEF Steady
    <3> QED BY <2>3, <2>4, <3>1 DEF Steady
  <2>6. Told'
    BY <2>3 DEF Told, Refuses
  <2>7. Attended'
    BY <1>1, <2>4 DEF Attended, Stays, Listed
  <2> QED BY <2>1, <2>3, <2>4, <2>5, <2>6, <2>7 DEF QueueTypeOK
<1>3. CASE pc["page"] # "idle"
  <2>1. redrive' = TRUE /\ UNCHANGED <<pc, todo, cut>>
    BY <1>3 DEF Drain
  <2>2. Steady'
    BY <2>1 DEF Steady
  <2>3. Told'
    BY <2>1 DEF Told, Refuses
  <2> QED BY <2>1, <2>2, <2>3 DEF QueueTypeOK, Attended
<1> QED BY <1>2, <1>3

\* The operator's commands.
LEMMA AttemptKeeps ==
  ASSUME QueueInv, NEW c \in Command, Attempt(c)
  PROVE  QueueInv'
<1>1. /\ c \in Command /\ c \notin ToSet(attempts) /\ Enqueue(c)
      /\ Refresh(store') /\ Drain(store', attempts')
      /\ UNCHANGED <<answer, stray, online, applied, errored, dismissed, troubles, finalizes>>
  BY DEF Attempt, network, counts
<1>2. /\ store' \in [Command -> {"absent", "pending", "refused"}]
      /\ attempts' \in Seq(Command) /\ IsInjective(attempts')
      /\ ToSet(attempts') = ToSet(attempts) \cup {c}
      /\ Listed' /\ Settled' /\ AheadSent' /\ NothingLost' /\ OrderKept'
      /\ \A s \in Sender : todo'[s] = todo[s] => AheadAt(s)'
  BY <1>1, EnqueueKeeps
<1>3. /\ pc' \in [Sender -> {"idle", "next", "answered"}]
      /\ todo' \in [Sender -> Seq(Command)]
      /\ cut' \in [Sender -> BOOLEAN] /\ redrive' \in BOOLEAN
      /\ Steady' /\ Told' /\ Attended' /\ \A s \in Sender : AheadAt(s)'
  BY <1>1, <1>2, DrainKeeps DEF QueueInv
<1>4. known' \in 0..Cardinality(Command) /\ timer' \in {"off", "armed"}
  BY <1>1, RefreshTypes DEF QueueInv, QueueTypeOK
<1>5. QueueTypeOK'
  BY <1>1, <1>2, <1>3, <1>4 DEF QueueInv, QueueTypeOK
<1> QED BY <1>2, <1>3, <1>5 DEF QueueInv, Ahead

LEMMA SaveRosterKeeps ==
  ASSUME QueueInv, NEW c \in Command, SaveRoster(c)
  PROVE  QueueInv'
<1>1. /\ c \notin ToSet(attempts) /\ pc["roster"] = "idle"
      /\ Enqueue(c) /\ Start("roster", Pending(store', attempts'))
      /\ UNCHANGED <<known, timer, redrive, answer, stray, online, applied, errored, dismissed,
                     troubles, finalizes>>
  BY DEF SaveRoster, console, network, counts
<1>2. /\ store' \in [Command -> {"absent", "pending", "refused"}]
      /\ attempts' \in Seq(Command) /\ IsInjective(attempts')
      /\ ToSet(attempts') = ToSet(attempts) \cup {c}
      /\ Listed' /\ Settled' /\ AheadSent' /\ NothingLost' /\ OrderKept'
      /\ \A s \in Sender : todo'[s] = todo[s] => AheadAt(s)'
  BY <1>1, EnqueueKeeps
<1>3. "page" \in Sender /\ "roster" \in Sender /\ "final" \in Sender
  BY DEF Sender
<1>4. Pending(store', attempts') \in Seq(Command)
  BY <1>2, PendingFacts
<1>5. /\ pc' \in [Sender -> {"idle", "next", "answered"}]
      /\ todo' \in [Sender -> Seq(Command)] /\ cut' \in [Sender -> BOOLEAN]
      /\ pc'["roster"] = "next" /\ todo'["roster"] = Pending(store', attempts')
      /\ cut'["roster"] = FALSE
      /\ \A s \in Sender \ {"roster"} : pc'[s] = pc[s] /\ todo'[s] = todo[s] /\ cut'[s] = cut[s]
  BY <1>1, <1>3, <1>4 DEF QueueInv, QueueTypeOK, Start
<1>6. /\ ToSet(todo'["roster"]) = {d \in ToSet(attempts') : store'[d] = "pending"}
      /\ AheadAt("roster")'
  BY <1>2, <1>3, <1>5, PassFacts
<1>7. QueueTypeOK'
  BY <1>1, <1>2, <1>5 DEF QueueInv, QueueTypeOK
<1>8. Steady'
  <2>1. ASSUME NEW s \in Sender \ {"roster"}
        PROVE  /\ pc'[s] = "idle" => todo'[s] = <<>>
               /\ pc'[s] = "answered" => todo'[s] # <<>> /\ answer'[s] # "none"
               /\ cut'[s] => todo'[s] = <<>>
               /\ ToSet(todo'[s]) \subseteq ToSet(attempts')
               /\ s = "final" => ToSet(todo'[s]) \subseteq {Finalize}
    BY <1>1, <1>2, <1>5 DEF QueueInv, Steady
  <2> QED BY <1>5, <1>6, <2>1 DEF Steady
<1>9. Told'
  BY <1>1, <1>5 DEF QueueInv, Told, Refuses
<1>10. Attended'
  BY <1>2, <1>6 DEF Attended, Stays, Listed
<1> QED BY <1>2, <1>5, <1>6, <1>7, <1>8, <1>9, <1>10 DEF QueueInv, Ahead

LEMMA ConfirmFinalKeeps ==
  ASSUME QueueInv, ConfirmFinal
  PROVE  QueueInv'
<1>1. /\ finalizes < MaxFinalizes /\ finalizes' = finalizes + 1
      /\ pc["final"] = "idle" /\ Enqueue(Finalize) /\ Refresh(store')
      /\ Start("final", <<Finalize>>)
      /\ UNCHANGED <<redrive, answer, stray, online, applied, errored, dismissed, troubles>>
  BY DEF ConfirmFinal, network
<1>2. Finalize \in Command
  BY CommandAssumption
<1>3. /\ store' \in [Command -> {"absent", "pending", "refused"}]
      /\ \A c \in Command : store'[c] = IF c = Finalize THEN "pending" ELSE store[c]
      /\ attempts' \in Seq(Command) /\ IsInjective(attempts')
      /\ ToSet(attempts') = ToSet(attempts) \cup {Finalize}
      /\ Listed' /\ Settled' /\ AheadSent' /\ NothingLost' /\ OrderKept'
      /\ \A s \in Sender : todo'[s] = todo[s] => AheadAt(s)'
  BY <1>1, <1>2, EnqueueKeeps
<1>4. "page" \in Sender /\ "roster" \in Sender /\ "final" \in Sender
  BY DEF Sender
<1>5. /\ <<Finalize>> \in Seq(Command) /\ <<Finalize>> # <<>>
      /\ ToSet(<<Finalize>>) = {Finalize} /\ DOMAIN <<Finalize>> = {1} /\ <<Finalize>>[1] = Finalize
  BY <1>2 DEF ToSet
<1>6. /\ pc' \in [Sender -> {"idle", "next", "answered"}]
      /\ todo' \in [Sender -> Seq(Command)] /\ cut' \in [Sender -> BOOLEAN]
      /\ pc'["final"] = "next" /\ todo'["final"] = <<Finalize>> /\ cut'["final"] = FALSE
      /\ \A s \in Sender \ {"final"} : pc'[s] = pc[s] /\ todo'[s] = todo[s] /\ cut'[s] = cut[s]
  BY <1>1, <1>4, <1>5 DEF QueueInv, QueueTypeOK, Start
<1>7. known' \in 0..Cardinality(Command) /\ timer' \in {"off", "armed"}
  BY <1>1, RefreshTypes DEF QueueInv, QueueTypeOK
<1>8. QueueTypeOK'
  BY SMTT(20), <1>1, <1>3, <1>6, <1>7, TroubleAssumption DEF QueueInv, QueueTypeOK
<1>9. AheadAt("final")'
  BY <1>5, <1>6 DEF AheadAt, Ordinary
<1>10. Steady'
  <2>1. ASSUME NEW s \in Sender \ {"final"}
        PROVE  /\ pc'[s] = "idle" => todo'[s] = <<>>
               /\ pc'[s] = "answered" => todo'[s] # <<>> /\ answer'[s] # "none"
               /\ cut'[s] => todo'[s] = <<>>
               /\ ToSet(todo'[s]) \subseteq ToSet(attempts')
               /\ s = "final" => ToSet(todo'[s]) \subseteq {Finalize}
    BY <1>1, <1>3, <1>6 DEF QueueInv, Steady
  <2> QED BY <1>3, <1>5, <1>6, <2>1 DEF Steady
<1>11. Told'
  BY <1>1, <1>6 DEF QueueInv, Told, Refuses
<1>12. Attended'
  <2>1. ASSUME NEW c \in Command, c # Finalize, store'[c] = "pending"
        PROVE  redrive \/ \E s \in {"page", "roster"} : cut[s] \/ c \in ToSet(todo[s])
    BY <1>3, <2>1 DEF QueueInv, Attended, Stays
  <2> QED BY <1>1, <1>4, <1>5, <1>6, <2>1 DEF Attended, Stays
<1> QED BY <1>3, <1>6, <1>8, <1>9, <1>10, <1>11, <1>12 DEF QueueInv, Ahead

LEMMA DismissKeeps ==
  ASSUME QueueInv, NEW c \in Command, Dismiss(c)
  PROVE  QueueInv'
<1>1. /\ store[c] = "refused" /\ store' = [store EXCEPT ![c] = "absent"] /\ Refresh(store')
      /\ dismissed' = dismissed \cup {c}
      /\ UNCHANGED <<attempts, redrive, pc, todo, answer, cut, stray, online, applied, errored,
                     troubles, finalizes>>
  BY DEF Dismiss, senders, network, counts
<1>2. known' \in 0..Cardinality(Command) /\ timer' \in {"off", "armed"}
  BY <1>1, RefreshTypes DEF QueueInv, QueueTypeOK
<1>3. \A d \in Command : store'[d] = IF d = c THEN "absent" ELSE store[d]
  BY <1>1 DEF QueueInv, QueueTypeOK
<1>4. QueueTypeOK'
  BY <1>1, <1>2 DEF QueueInv, QueueTypeOK
<1>5. ToSet(attempts) \subseteq Command
  BY DEF QueueInv, QueueTypeOK, ToSet
<1>6. \A d : (Refuses(d) <=> Refuses(d)') /\ (Passed(d) <=> Passed(d)')
  BY <1>1 DEF Refuses, Passed
<1>7. Steady' /\ Listed' /\ Told'
  BY <1>1, <1>3, <1>6 DEF QueueInv, Steady, Listed, Told
<1>8. Settled'
  BY <1>1, <1>3, <1>5, <1>6 DEF QueueInv, Settled
<1>9. Ahead'
  BY <1>1, <1>6 DEF QueueInv, Ahead, AheadSent, AheadAt, Ordinary, Earlier
<1>10. Attended'
  BY <1>1, <1>3 DEF QueueInv, Attended, Stays
<1>11. NothingLost' /\ OrderKept'
  BY <1>1, <1>3, <1>5 DEF QueueInv, NothingLost, OrderKept
<1> QED BY <1>4, <1>7, <1>8, <1>9, <1>10, <1>11 DEF QueueInv

\* A drain with nothing new in the queue: the timer's, the browser's, the stream's.
LEMMA RedrainKeeps ==
  ASSUME QueueInv, Drain(store, attempts),
         UNCHANGED <<queue, known, answer, stray, applied, errored, dismissed, counts>>,
         timer' \in {"off", "armed"}, online' \in BOOLEAN
  PROVE  QueueInv'
<1>1. UNCHANGED <<store, attempts, known, answer, stray, applied, errored, dismissed,
                  troubles, finalizes>>
  BY DEF queue, counts
<1>2. Drain(store', attempts')
  BY <1>1
<1>3. \A d : (Refuses(d) <=> Refuses(d)') /\ (Passed(d) <=> Passed(d)')
  BY <1>1 DEF Refuses, Passed
<1>4. Listed' /\ Settled' /\ AheadSent' /\ NothingLost' /\ OrderKept'
  BY <1>1, <1>3 DEF QueueInv, Listed, Settled, Ahead, AheadSent, Ordinary, Earlier,
                    NothingLost, OrderKept
<1>5. ASSUME NEW s \in Sender, todo'[s] = todo[s] PROVE AheadAt(s)'
  BY <1>1, <1>3, <1>5 DEF QueueInv, Ahead, AheadAt, Ordinary, Earlier
<1>6. /\ pc' \in [Sender -> {"idle", "next", "answered"}]
      /\ todo' \in [Sender -> Seq(Command)]
      /\ cut' \in [Sender -> BOOLEAN] /\ redrive' \in BOOLEAN
      /\ Steady' /\ Told' /\ Attended' /\ \A s \in Sender : AheadAt(s)'
  BY <1>1, <1>2, <1>4, <1>5, DrainKeeps DEF QueueInv, QueueTypeOK
<1>7. QueueTypeOK'
  BY <1>1, <1>6 DEF QueueInv, QueueTypeOK
<1> QED BY <1>4, <1>6, <1>7 DEF QueueInv, Ahead

\* The network: a request answered, one that failed, and one nobody awaits.
LEMMA ServeKeeps ==
  ASSUME QueueInv, NEW s \in Sender, Serve(s)
  PROVE  QueueInv'
<1>0. PICK x : x = Head(todo[s])
  OBVIOUS
<1>1. /\ pc[s] = "next" /\ todo[s] # <<>> /\ applied' = Applied(x)
      /\ pc' = [pc EXCEPT ![s] = "answered"] /\ answer' = [answer EXCEPT ![s] = Verdict(x)]
      /\ UNCHANGED <<store, attempts, known, timer, redrive, todo, cut, stray, online, errored,
                     dismissed, troubles, finalizes>>
  BY <1>0 DEF Serve, Sending, Answered, queue, console, counts
<1>2. /\ todo[s] \in Seq(Command) /\ 1 \in DOMAIN todo[s] /\ x = todo[s][1] /\ x \in ToSet(todo[s])
  BY <1>0, <1>1 DEF QueueInv, QueueTypeOK, ToSet
<1>3. x \in ToSet(attempts)
  BY <1>2 DEF QueueInv, Steady
<1>4. ASSUME x # Finalize, NEW c \in Ordinary, Earlier(c, x) PROVE Passed(c)
  <2>1. x \in Ordinary
    BY <1>3, <1>4 DEF Ordinary
  <2>2. Passed(c) \/ \E i \in 1..1 - 1 : todo[s][i] = c
    BY <1>2, <1>4, <2>1 DEF QueueInv, Ahead, AheadAt
  <2> QED BY <2>2
<1>5. /\ applied' \in Seq(Command) /\ IsInjective(applied')
      /\ ToSet(applied) \subseteq ToSet(applied') /\ (Refuses(x) \/ x \in ToSet(applied'))
      /\ ToSet(applied') \subseteq ToSet(attempts)
      /\ \A c : Refuses(c) => Refuses(c)'
      /\ Settled' /\ Ahead' /\ NothingLost' /\ OrderKept'
  BY <1>1, <1>3, <1>4, ServerKeeps DEF queue
<1>6. /\ Verdict(x) = "ok" => x \in ToSet(applied')
      /\ Verdict(x) = "refused" => Refuses(x)'
      /\ Verdict(x) \in {"ok", "refused"}
  BY <1>5 DEF Verdict, Known
<1>7. QueueTypeOK'
  BY <1>1, <1>5, <1>6 DEF QueueInv, QueueTypeOK
<1>8. Steady'
  BY <1>1, <1>6 DEF QueueInv, QueueTypeOK, Steady
<1>9. Listed' /\ Attended'
  BY <1>1, <1>5 DEF QueueInv, Listed, Attended, Stays
<1>10. Told'
  <2>1. ASSUME NEW t \in Sender, pc'[t] = "answered"
        PROVE  /\ answer'[t] = "ok" => Head(todo[t]) \in ToSet(applied')
               /\ answer'[t] = "refused" => Head(todo[t]) \in Invalid \/ Finalize \in ToSet(applied')
               /\ answer'[t] = "error" => Head(todo[t]) \in errored
    <3>1. CASE t = s
      BY <1>0, <1>1, <1>6, <3>1 DEF QueueInv, QueueTypeOK, Refuses
    <3>2. CASE t # s
      <4>1. pc[t] = "answered" /\ answer'[t] = answer[t]
        BY <1>1, <2>1, <3>2 DEF QueueInv, QueueTypeOK
      <4> QED BY <1>5, <4>1 DEF QueueInv, Told, Refuses
    <3> QED BY <3>1, <3>2
  <2> QED BY <1>1, <2>1 DEF Told, Refuses
<1> QED BY <1>5, <1>7, <1>8, <1>9, <1>10 DEF QueueInv

\* An answer that never comes, or an error's: the request may still arrive.
LEMMA UnansweredKeeps ==
  ASSUME QueueInv, NEW s \in Sender, Sending(s), NEW a \in {"error", "network"}, Answered(s, a),
         errored' \in SUBSET Command, errored \subseteq errored',
         a = "error" => Head(todo[s]) \in errored',
         stray' \in {stray, stray \cup {Head(todo[s])}}, troubles' \in 0..MaxTroubles,
         UNCHANGED <<queue, console, todo, cut, online, applied, dismissed, finalizes>>
  PROVE  QueueInv'
<1>0. PICK x : x = Head(todo[s])
  OBVIOUS
<1>1. /\ pc[s] = "next" /\ todo[s] # <<>>
      /\ pc' = [pc EXCEPT ![s] = "answered"] /\ answer' = [answer EXCEPT ![s] = a]
      /\ UNCHANGED <<store, attempts, known, timer, redrive, todo, cut, online, applied,
                     dismissed, finalizes>>
  BY DEF Sending, Answered, queue, console
<1>2. /\ todo[s] \in Seq(Command) /\ 1 \in DOMAIN todo[s] /\ x = todo[s][1] /\ x \in ToSet(todo[s])
  BY <1>0, <1>1 DEF QueueInv, QueueTypeOK, ToSet
<1>3. x \in ToSet(attempts) /\ ToSet(attempts) \subseteq Command
  <2>1. ToSet(attempts) \subseteq Command
    BY DEF QueueInv, QueueTypeOK, ToSet
  <2> QED BY <1>2, <2>1 DEF QueueInv, Steady
<1>4. ASSUME x # Finalize, NEW c \in Ordinary, Earlier(c, x) PROVE Passed(c)
  <2>1. x \in Ordinary
    BY <1>3, <1>4 DEF Ordinary
  <2>2. Passed(c) \/ \E i \in 1..1 - 1 : todo[s][i] = c
    BY <1>2, <1>4, <2>1 DEF QueueInv, Ahead, AheadAt
  <2> QED BY <2>2
<1>5. /\ errored \subseteq errored' /\ stray' \subseteq stray \cup {x}
      /\ a = "error" => x \in errored'
  BY <1>0
<1>6. \A d : (Refuses(d) <=> Refuses(d)') /\ (Passed(d) => Passed(d)')
  BY <1>1, <1>5 DEF Refuses, Passed
<1>7. QueueTypeOK'
  BY <1>1, <1>3, <1>5 DEF QueueInv, QueueTypeOK
<1>8. Steady' /\ Listed' /\ Attended'
  BY <1>1, <1>3, <1>5 DEF QueueInv, QueueTypeOK, Steady, Listed, Attended, Stays
<1>9. Told'
  <2>1. ASSUME NEW t \in Sender, pc'[t] = "answered"
        PROVE  /\ answer'[t] = "ok" => Head(todo[t]) \in ToSet(applied)
               /\ answer'[t] = "refused" => Refuses(Head(todo[t]))
               /\ answer'[t] = "error" => Head(todo[t]) \in errored'
    <3>1. CASE t = s
      BY <1>1, <1>5, <3>1, <1>0 DEF QueueInv, QueueTypeOK
    <3>2. CASE t # s
      <4>1. pc[t] = "answered" /\ answer'[t] = answer[t]
        BY <1>1, <2>1, <3>2 DEF QueueInv, QueueTypeOK
      <4> QED BY <1>5, <4>1 DEF QueueInv, Told
    <3> QED BY <3>1, <3>2
  <2> QED BY <1>1, <2>1 DEF Told, Refuses
<1>10. Settled'
  BY <1>1, <1>6 DEF QueueInv, Settled
<1>11. AheadSent'
  <2>1. ASSUME NEW c \in Ordinary, NEW d \in Ordinary, Earlier(c, d),
               d \in ToSet(applied) \cup stray'
        PROVE  Passed(c)
    <3>1. CASE d = x
      BY <1>4, <2>1, <3>1 DEF Ordinary
    <3>2. CASE d # x
      BY <1>5, <2>1, <3>2 DEF QueueInv, Ahead, AheadSent
    <3> QED BY <3>1, <3>2
  <2> QED BY <1>1, <1>6, <2>1 DEF AheadSent, Ordinary, Earlier
<1>12. \A t \in Sender : AheadAt(t)'
  BY <1>1, <1>6 DEF QueueInv, Ahead, AheadAt, Ordinary, Earlier
<1>13. NothingLost' /\ OrderKept'
  BY <1>1, <1>5 DEF QueueInv, NothingLost, OrderKept
<1> QED BY <1>7, <1>8, <1>9, <1>10, <1>11, <1>12, <1>13 DEF QueueInv, Ahead

LEMMA StrayArrivesKeeps ==
  ASSUME QueueInv, NEW x \in Command, StrayArrives(x)
  PROVE  QueueInv'
<1>1. /\ x \in stray /\ stray' = stray \ {x} /\ applied' = Applied(x)
      /\ UNCHANGED <<store, attempts, known, timer, redrive, pc, todo, answer, cut, online,
                     errored, dismissed, troubles, finalizes>>
  BY DEF StrayArrives, queue, console, senders, counts
<1>2. x \in ToSet(attempts)
  BY <1>1 DEF QueueInv, Listed
<1>3. ASSUME x # Finalize, NEW c \in Ordinary, Earlier(c, x) PROVE Passed(c)
  <2>1. x \in Ordinary
    BY <1>2, <1>3 DEF Ordinary
  <2> QED BY <1>1, <1>3, <2>1 DEF QueueInv, Ahead, AheadSent
<1>4. /\ applied' \in Seq(Command) /\ IsInjective(applied')
      /\ ToSet(applied) \subseteq ToSet(applied')
      /\ ToSet(applied') \subseteq ToSet(attempts)
      /\ \A c : Refuses(c) => Refuses(c)'
      /\ Settled' /\ Ahead' /\ NothingLost' /\ OrderKept'
  <2>1. stray' \subseteq stray /\ UNCHANGED <<queue, todo, errored, dismissed>>
    BY <1>1 DEF queue
  <2> QED BY <1>1, <1>2, <1>3, <2>1, ServerKeeps
<1>5. QueueTypeOK'
  BY <1>1, <1>4 DEF QueueInv, QueueTypeOK
<1>6. Steady' /\ Listed' /\ Attended'
  BY <1>1, <1>4 DEF QueueInv, Steady, Listed, Attended, Stays
<1>7. Told'
  BY <1>1, <1>4 DEF QueueInv, Told, Refuses
<1> QED BY <1>4, <1>5, <1>6, <1>7 DEF QueueInv

\* A sender looks at its answer: the entry has passed, or the pass is over.
LEMMA SettleKeeps ==
  ASSUME QueueInv, NEW s \in Sender, Settle(s)
  PROVE  QueueInv'
<1>0. PICK x, a : x = Head(todo[s]) /\ a = answer[s]
  OBVIOUS
<1>1. /\ pc[s] = "answered" /\ store' = Marked(x, a)
      /\ todo' = [todo EXCEPT ![s] = IF a = "network" THEN <<>> ELSE Tail(todo[s])]
      /\ cut' = [cut EXCEPT ![s] = a = "network"]
      /\ answer' = [answer EXCEPT ![s] = "none"] /\ pc' = [pc EXCEPT ![s] = "next"]
      /\ UNCHANGED <<attempts, known, timer, redrive, stray, online, applied, errored, dismissed,
                     troubles, finalizes>>
  BY <1>0 DEF Settle, console, network, counts
<1>2. a \in {"ok", "refused", "error", "network"} /\ todo[s] # <<>> /\ ~ cut[s]
  BY <1>0, <1>1 DEF QueueInv, QueueTypeOK, Steady
<1>3. /\ todo[s] \in Seq(Command) /\ x = todo[s][1] /\ x \in ToSet(todo[s])
      /\ Tail(todo[s]) \in Seq(Command)
      /\ ToSet(todo[s]) = ToSet(Tail(todo[s])) \cup {x}
      /\ DOMAIN Tail(todo[s]) = 1..Len(todo[s]) - 1 /\ DOMAIN todo[s] = 1..Len(todo[s])
      /\ Len(todo[s]) \in Nat
      /\ \A i \in 1..Len(todo[s]) - 1 : Tail(todo[s])[i] = todo[s][i + 1]
  <2>1. todo[s] \in Seq(Command) /\ todo[s] # <<>>
    BY <1>2 DEF QueueInv, QueueTypeOK
  <2> QED BY <1>0, <2>1, TailFacts
<1>4. /\ todo' \in [Sender -> Seq(Command)] /\ cut' \in [Sender -> BOOLEAN]
      /\ todo'[s] = (IF a = "network" THEN <<>> ELSE Tail(todo[s]))
      /\ (cut'[s] <=> a = "network") /\ pc'[s] = "next"
      /\ \A t \in Sender \ {s} : todo'[t] = todo[t] /\ cut'[t] = cut[t] /\ pc'[t] = pc[t]
                                 /\ answer'[t] = answer[t]
      /\ ToSet(<<>>) = {} /\ <<>> \in Seq(Command)
  <2>1. ToSet(<<>>) = {} /\ <<>> \in Seq(Command)
    BY DEF ToSet
  <2>2. PICK b \in BOOLEAN, rest \in Seq(Command) :
          /\ b = (a = "network") /\ rest = IF a = "network" THEN <<>> ELSE Tail(todo[s])
          /\ todo' = [todo EXCEPT ![s] = rest] /\ cut' = [cut EXCEPT ![s] = b]
    BY <1>1, <1>3, <2>1
  <2>3. /\ todo' \in [Sender -> Seq(Command)] /\ cut' \in [Sender -> BOOLEAN]
        /\ todo'[s] = rest /\ cut'[s] = b
        /\ \A t \in Sender \ {s} : todo'[t] = todo[t] /\ cut'[t] = cut[t]
    BY <2>2 DEF QueueInv, QueueTypeOK
  <2>4. /\ pc'[s] = "next"
        /\ \A t \in Sender \ {s} : pc'[t] = pc[t] /\ answer'[t] = answer[t]
    BY <1>1 DEF QueueInv, QueueTypeOK
  <2> QED BY <2>1, <2>2, <2>3, <2>4
<1>5. x \in Command /\ x \in ToSet(attempts) /\ ToSet(attempts) \subseteq Command
  <2>1. ToSet(attempts) \subseteq Command
    BY DEF QueueInv, QueueTypeOK, ToSet
  <2> QED BY <1>3, <2>1 DEF QueueInv, Steady
<1>6. a # "network" => Passed(x)
  BY <1>0, <1>1, <1>2 DEF QueueInv, Told, Passed
<1>7. /\ store' \in [Command -> {"absent", "pending", "refused"}]
      /\ \A c \in Command \ {x} : store'[c] = store[c]
      /\ a # "network" => store'[x] # "pending"
      /\ a = "network" => store' = store
      /\ store[x] = "absent" => store'[x] = "absent"
      /\ store'[x] = "absent" => store[x] = "absent" \/ x \in ToSet(applied)
  BY <1>0, <1>1, <1>2, <1>5 DEF QueueInv, QueueTypeOK, Marked, Told
<1>8. \A d : (Refuses(d) <=> Refuses(d)') /\ (Passed(d) <=> Passed(d)')
  BY <1>1 DEF Refuses, Passed
<1>9. QueueTypeOK'
  BY <1>1, <1>4, <1>7 DEF QueueInv, QueueTypeOK
<1>10. Steady'
  <2>1. ASSUME NEW t \in Sender
        PROVE  /\ pc'[t] = "idle" => todo'[t] = <<>>
               /\ pc'[t] = "answered" => todo'[t] # <<>> /\ answer'[t] # "none"
               /\ cut'[t] => todo'[t] = <<>>
               /\ ToSet(todo'[t]) \subseteq ToSet(attempts)
               /\ t = "final" => ToSet(todo'[t]) \subseteq {Finalize}
    <3>1. CASE t = s
      BY <1>3, <1>4, <3>1 DEF QueueInv, Steady
    <3>2. CASE t # s
      BY <1>4, <3>2 DEF QueueInv, Steady
    <3> QED BY <3>1, <3>2
  <2> QED BY <1>1, <2>1 DEF Steady
<1>11. Listed'
  BY <1>1, <1>5, <1>7 DEF QueueInv, Listed
<1>12. Told'
  <2>1. \A t \in Sender : pc'[t] = "answered" =>
          t # s /\ pc[t] = "answered" /\ answer'[t] = answer[t] /\ todo'[t] = todo[t]
    BY <1>4
  <2> QED BY <1>1, <2>1 DEF QueueInv, Told, Refuses
<1>13. Settled'
  <2>1. ASSUME NEW c \in ToSet(attempts), store'[c] # "pending" PROVE Passed(c)
    BY <1>5, <1>6, <1>7, <2>1 DEF QueueInv, Settled
  <2> QED BY <1>1, <1>8, <2>1 DEF Settled
<1>14. AheadSent'
  BY <1>1, <1>8 DEF QueueInv, Ahead, AheadSent, Ordinary, Earlier
<1>15. ASSUME NEW t \in Sender PROVE AheadAt(t)'
  <2>1. CASE t # s
    BY <1>1, <1>4, <1>8, <2>1 DEF QueueInv, Ahead, AheadAt, Ordinary, Earlier
  <2>2. CASE t = s /\ a = "network"
    BY <1>4, <2>2 DEF AheadAt
  <2>3. CASE t = s /\ a # "network"
    <3>1. ASSUME NEW c \in Ordinary, NEW d \in Ordinary, NEW j \in 1..Len(todo[s]) - 1,
                 Earlier(c, d), todo[s][j + 1] = d, ~ Passed(c)
          PROVE  \E i \in 1..j - 1 : todo[s][i + 1] = c
      <4>1. j + 1 \in DOMAIN todo[s]
        BY <1>3
      <4>2. PICK i \in 1..(j + 1) - 1 : todo[s][i] = c
        BY <3>1, <4>1 DEF QueueInv, Ahead, AheadAt
      <4>3. i # 1
        BY <1>3, <1>6, <2>3, <3>1, <4>2
      <4>4. i - 1 \in 1..j - 1 /\ todo[s][(i - 1) + 1] = c
        BY <1>3, <4>2, <4>3
      <4> QED BY <4>4
    <3>2. ASSUME NEW c \in Ordinary, NEW d \in Ordinary, NEW j \in DOMAIN todo'[s],
                 Earlier(c, d), todo'[s][j] = d, ~ Passed(c)
          PROVE  \E i \in 1..j - 1 : todo'[s][i] = c
      <4>1. j \in 1..Len(todo[s]) - 1 /\ todo[s][j + 1] = d
        BY <1>3, <1>4, <2>3, <3>2
      <4>2. PICK i \in 1..j - 1 : todo[s][i + 1] = c
        BY <3>1, <3>2, <4>1
      <4>3. i \in 1..Len(todo[s]) - 1
        BY <1>3, <4>1, <4>2
      <4> QED BY <1>3, <1>4, <2>3, <4>2, <4>3
    <3> QED BY <1>1, <1>8, <2>3, <3>2 DEF AheadAt, Ordinary, Earlier
  <2> QED BY <2>1, <2>2, <2>3
<1>16. Attended'
  <2>1. ASSUME NEW c \in Command, store'[c] = "pending"
        PROVE  \/ redrive \/ \E t \in {"page", "roster"} : cut'[t] \/ c \in ToSet(todo'[t])
               \/ c = Finalize /\ (cut'["final"] \/ c \in ToSet(todo'["final"]))
    <3>1. store[c] = "pending" /\ (a # "network" => c # x)
      BY <1>5, <1>7, <2>1
    <3>2. ASSUME NEW t \in Sender, cut[t] \/ c \in ToSet(todo[t])
          PROVE  cut'[t] \/ c \in ToSet(todo'[t])
      BY <1>2, <1>3, <1>4, <3>1, <3>2
    <3>3. "page" \in Sender /\ "roster" \in Sender /\ "final" \in Sender
      BY DEF Sender
    <3> QED BY <3>1, <3>2, <3>3 DEF QueueInv, Attended, Stays
  <2> QED BY <1>1, <2>1 DEF Attended, Stays
<1>17. NothingLost' /\ OrderKept'
  BY <1>1, <1>5, <1>7 DEF QueueInv, NothingLost, OrderKept
<1> QED BY <1>9, <1>10, <1>11, <1>12, <1>13, <1>14, <1>15, <1>16, <1>17 DEF QueueInv, Ahead

\* A pass that ends, and another if the page was asked for it.
LEMMA PassEndsKeeps ==
  ASSUME QueueInv, PassEnds
  PROVE  QueueInv'
<1>1. /\ pc["page"] = "next" /\ todo["page"] = <<>> /\ Refresh(store) /\ redrive' = FALSE
      /\ IF redrive THEN Start("page", Pending(store, attempts))
         ELSE pc' = [pc EXCEPT !["page"] = "idle"] /\ UNCHANGED <<todo, cut>>
      /\ UNCHANGED <<store, attempts, answer, stray, online, applied, errored, dismissed,
                     troubles, finalizes>>
  BY DEF PassEnds, Repeated, queue, network, counts
<1>2. known' \in 0..Cardinality(Command) /\ timer' \in {"off", "armed"}
  BY <1>1, RefreshTypes DEF QueueInv, QueueTypeOK
<1>3. \A d : (Refuses(d) <=> Refuses(d)') /\ (Passed(d) <=> Passed(d)')
  BY <1>1 DEF Refuses, Passed
<1>4. Listed' /\ Settled' /\ AheadSent' /\ NothingLost' /\ OrderKept'
  BY <1>1, <1>3 DEF QueueInv, Listed, Settled, Ahead, AheadSent, Ordinary, Earlier,
                    NothingLost, OrderKept
<1>5. "page" \in Sender /\ "roster" \in Sender /\ "final" \in Sender
  BY DEF Sender
<1>6. CASE ~ redrive
  <2>1. /\ pc' = [pc EXCEPT !["page"] = "idle"] /\ UNCHANGED <<todo, cut>>
    BY <1>1, <1>6
  <2>2. QueueTypeOK' /\ Steady'
    BY <1>1, <1>2, <1>5, <2>1 DEF QueueInv, QueueTypeOK, Steady
  <2>3. Told'
    BY <1>1, <1>5, <2>1 DEF QueueInv, QueueTypeOK, Told, Refuses
  <2>4. \A s \in Sender : AheadAt(s)'
    BY <1>1, <1>3, <2>1 DEF QueueInv, Ahead, AheadAt, Ordinary, Earlier
  <2>5. Attended'
    BY <1>1, <1>6, <2>1 DEF QueueInv, Attended, Stays
  <2> QED BY <1>4, <2>2, <2>3, <2>4, <2>5 DEF QueueInv, Ahead
<1>7. CASE redrive
  <2>1. Start("page", Pending(store', attempts'))
    BY <1>1, <1>7
  <2>2. Pending(store', attempts') \in Seq(Command)
    BY <1>1, PendingFacts DEF QueueInv, QueueTypeOK
  <2>3. /\ pc' \in [Sender -> {"idle", "next", "answered"}]
        /\ todo' \in [Sender -> Seq(Command)] /\ cut' \in [Sender -> BOOLEAN]
        /\ pc'["page"] = "next" /\ todo'["page"] = Pending(store', attempts') /\ cut'["page"] = FALSE
        /\ \A s \in Sender \ {"page"} : pc'[s] = pc[s] /\ todo'[s] = todo[s] /\ cut'[s] = cut[s]
    BY <1>5, <2>1, <2>2 DEF QueueInv, QueueTypeOK, Start
  <2>4. attempts' \in Seq(Command) /\ IsInjective(attempts')
    BY <1>1 DEF QueueInv, QueueTypeOK
  <2>5. /\ ToSet(todo'["page"]) = {c \in ToSet(attempts') : store'[c] = "pending"}
        /\ AheadAt("page")'
    BY <1>4, <1>5, <2>3, <2>4, PassFacts
  <2>6. QueueTypeOK'
    BY <1>1, <1>2, <2>3 DEF QueueInv, QueueTypeOK
  <2>7. Steady'
    <3>1. ASSUME NEW s \in Sender \ {"page"}
          PROVE  /\ pc'[s] = "idle" => todo'[s] = <<>>
                 /\ pc'[s] = "answered" => todo'[s] # <<>> /\ answer'[s] # "none"
                 /\ cut'[s] => todo'[s] = <<>>
                 /\ ToSet(todo'[s]) \subseteq ToSet(attempts')
                 /\ s = "final" => ToSet(todo'[s]) \subseteq {Finalize}
      BY <1>1, <2>3 DEF QueueInv, Steady
    <3> QED BY <2>3, <2>5, <3>1 DEF Steady
  <2>8. Told'
    BY <1>1, <2>3 DEF QueueInv, Told, Refuses
  <2>9. Attended'
    BY <1>4, <2>5 DEF Attended, Stays, Listed
  <2>10. ASSUME NEW s \in Sender \ {"page"} PROVE AheadAt(s)'
    <3>1. todo'[s] = todo[s] /\ attempts' = attempts /\ AheadAt(s)
      BY <1>1, <2>3 DEF QueueInv, Ahead
    <3> QED BY <1>3, <3>1 DEF AheadAt, Ordinary, Earlier
  <2> QED BY <1>4, <2>5, <2>6, <2>7, <2>8, <2>9, <2>10 DEF QueueInv, Ahead
<1> QED BY <1>6, <1>7

LEMMA SendEndsKeeps ==
  ASSUME QueueInv, NEW s \in Sender, SendEnds(s)
  PROVE  QueueInv'
<1>1. /\ pc[s] = "next" /\ todo[s] = <<>> /\ pc' = [pc EXCEPT ![s] = "idle"]
      /\ UNCHANGED <<store, attempts, redrive, todo, answer, cut, stray, online, applied, errored,
                     dismissed, troubles, finalizes>>
  BY DEF SendEnds, queue, network, counts
<1>2. known' \in 0..Cardinality(Command) /\ timer' \in {"off", "armed"}
  <2>1. Refresh(store) \/ UNCHANGED <<known, timer>>
    BY DEF SendEnds
  <2> QED BY <2>1, RefreshTypes DEF QueueInv, QueueTypeOK
<1>3. \A d : (Refuses(d) <=> Refuses(d)') /\ (Passed(d) <=> Passed(d)')
  BY <1>1 DEF Refuses, Passed
<1>4. Listed' /\ Settled' /\ AheadSent' /\ NothingLost' /\ OrderKept'
  BY <1>1, <1>3 DEF QueueInv, Listed, Settled, Ahead, AheadSent, Ordinary, Earlier,
                    NothingLost, OrderKept
<1>5. \A t \in Sender : AheadAt(t)'
  BY <1>1, <1>3 DEF QueueInv, Ahead, AheadAt, Ordinary, Earlier
<1>6. QueueTypeOK' /\ Steady'
  BY <1>1, <1>2 DEF QueueInv, QueueTypeOK, Steady
<1>7. Told'
  BY <1>1 DEF QueueInv, QueueTypeOK, Told, Refuses
<1>8. Attended'
  BY <1>1 DEF QueueInv, Attended, Stays
<1> QED BY <1>4, <1>5, <1>6, <1>7, <1>8 DEF QueueInv, Ahead

\* A reload: what was on its way may still arrive, and the page starts over.
LEMMA ReloadKeeps ==
  ASSUME QueueInv, Reload
  PROVE  QueueInv'
<1>1. /\ troubles < MaxTroubles /\ troubles' = troubles + 1
      /\ pc' = [s \in Sender |-> IF s = "page" THEN "next" ELSE "idle"]
      /\ todo' = [s \in Sender |-> IF s = "page" THEN Pending(store', attempts') ELSE <<>>]
      /\ answer' = [s \in Sender |-> "none"] /\ cut' = [s \in Sender |-> FALSE]
      /\ known' = Cardinality(Stored(store)) /\ timer' \in {"off", "armed"} /\ redrive' = FALSE
      /\ UNCHANGED <<store, attempts, online, applied, errored, dismissed, finalizes>>
  BY DEF Reload, Trouble, queue
<1>2. \A d \in stray' : d \in stray \/ \E s \in Sender : Sending(s) /\ d = Head(todo[s])
  BY DEF Reload
<1>3. Cardinality(Stored(store)) \in 0..Cardinality(Command)
  BY CommandAssumption, FS_Subset, FS_CardinalityType DEF Stored
<1>4. attempts' \in Seq(Command) /\ IsInjective(attempts') /\ ToSet(attempts) \subseteq Command
  BY <1>1 DEF QueueInv, QueueTypeOK, ToSet
<1>5. Pending(store', attempts') \in Seq(Command) /\ "page" \in Sender /\ ToSet(<<>>) = {}
  BY <1>4, PendingFacts DEF Sender, ToSet
<1>6. /\ todo'["page"] = Pending(store', attempts')
      /\ \A s \in Sender \ {"page"} : todo'[s] = <<>>
  BY <1>1, <1>5
<1>7. \A d : (Refuses(d) <=> Refuses(d)') /\ (Passed(d) <=> Passed(d)')
  BY <1>1 DEF Refuses, Passed
<1>8. ASSUME NEW s \in Sender, Sending(s)
      PROVE  /\ Head(todo[s]) \in ToSet(attempts)
             /\ \A c \in Ordinary : Earlier(c, Head(todo[s])) /\ Head(todo[s]) \in Ordinary => Passed(c)
  <2>1. todo[s] \in Seq(Command) /\ todo[s] # <<>>
    BY <1>8 DEF QueueInv, QueueTypeOK, Sending
  <2>2. 1 \in DOMAIN todo[s] /\ Head(todo[s]) = todo[s][1]
    BY <2>1
  <2>3. Head(todo[s]) \in ToSet(todo[s])
    BY <2>2 DEF ToSet
  <2>4. \A c \in Ordinary : Earlier(c, todo[s][1]) /\ todo[s][1] \in Ordinary =>
          Passed(c) \/ \E i \in 1..1 - 1 : todo[s][i] = c
    BY <2>2 DEF QueueInv, Ahead, AheadAt
  <2> QED BY <2>2, <2>3, <2>4 DEF QueueInv, Steady
<1>9. stray' \subseteq ToSet(attempts)
  BY <1>2, <1>8 DEF QueueInv, Listed
<1>10. Listed' /\ Settled' /\ NothingLost' /\ OrderKept'
  BY <1>1, <1>7, <1>9 DEF QueueInv, Listed, Settled, NothingLost, OrderKept
<1>11. AheadSent'
  <2>1. ASSUME NEW c \in Ordinary, NEW d \in Ordinary, Earlier(c, d),
               d \in ToSet(applied) \cup stray'
        PROVE  Passed(c)
    BY <1>2, <1>8, <2>1 DEF QueueInv, Ahead, AheadSent
  <2> QED BY <1>1, <1>7, <2>1 DEF AheadSent, Ordinary, Earlier
<1>12. /\ ToSet(todo'["page"]) = {c \in ToSet(attempts') : store'[c] = "pending"}
       /\ AheadAt("page")'
  BY <1>4, <1>5, <1>6, <1>10, PassFacts
<1>13. \A s \in Sender : AheadAt(s)'
  BY <1>6, <1>12 DEF AheadAt
<1>14. QueueTypeOK'
  <2>1. /\ pc' \in [Sender -> {"idle", "next", "answered"}] /\ todo' \in [Sender -> Seq(Command)]
        /\ answer' \in [Sender -> {"none", "ok", "refused", "error", "network"}]
        /\ cut' \in [Sender -> BOOLEAN]
    <3>1. <<>> \in Seq(Command)
      OBVIOUS
    <3> QED BY <1>1, <1>5, <3>1
  <2>2. troubles' \in 0..MaxTroubles
    BY <1>1, TroubleAssumption DEF QueueInv, QueueTypeOK
  <2>3. stray' \subseteq Command
    BY <1>4, <1>9
  <2> QED BY <1>1, <1>3, <2>1, <2>2, <2>3 DEF QueueInv, QueueTypeOK
<1>15. Steady'
  <2>1. \A s \in Sender : ToSet(todo'[s]) \subseteq ToSet(attempts') /\ (s # "page" => todo'[s] = <<>>)
    BY <1>5, <1>6, <1>12
  <2> QED BY <1>1, <1>5, <2>1 DEF Steady
<1>16. Told'
  BY <1>1 DEF Told
<1>17. Attended'
  BY <1>10, <1>12 DEF Attended, Stays, Listed
<1> QED BY <1>10, <1>11, <1>13, <1>14, <1>15, <1>16, <1>17 DEF QueueInv, Ahead

LEMMA QueueInvInit == QueueInit => QueueInv
<1> SUFFICES ASSUME QueueInit PROVE QueueInv
  OBVIOUS
<1>1. ToSet(<<>>) = {} /\ DOMAIN <<>> = {} /\ \A S : <<>> \in Seq(S)
  BY DEF ToSet
<1>2. IsInjective(<<>>)
  BY <1>1 DEF IsInjective
<1>3. Cardinality(Command) \in Nat
  BY CommandAssumption, FS_CardinalityType
<1>4. QueueTypeOK
  <2>1. 0 \in 0..Cardinality(Command) /\ 0 \in 0..MaxTroubles /\ 0 \in 0..MaxFinalizes
    BY <1>3, TroubleAssumption
  <2>2. todo \in [Sender -> Seq(Command)] /\ attempts \in Seq(Command) /\ applied \in Seq(Command)
    BY <1>1 DEF QueueInit
  <2> QED BY <1>2, <2>1, <2>2 DEF QueueInit, QueueTypeOK
<1>5. Steady /\ Listed /\ Told /\ Settled
  BY <1>1 DEF QueueInit, Steady, Listed, Told, Settled
<1>6. Ahead /\ Attended
  BY <1>1 DEF QueueInit, Ahead, AheadSent, AheadAt, Ordinary, Attended, Stays
<1>7. NothingLost /\ OrderKept
  BY <1>1 DEF QueueInit, NothingLost, OrderKept
<1> QED BY <1>4, <1>5, <1>6, <1>7 DEF QueueInv

LEMMA QueueInvNext == QueueInv /\ [QueueNext]_queueVars => QueueInv'
<1> SUFFICES ASSUME QueueInv, [QueueNext]_queueVars PROVE QueueInv'
  OBVIOUS
<1>1. ASSUME NEW c \in Command, Attempt(c) \/ SaveRoster(c) \/ Dismiss(c) \/ StrayArrives(c)
      PROVE  QueueInv'
  BY <1>1, AttemptKeeps, SaveRosterKeeps, DismissKeeps, StrayArrivesKeeps
<1>2. CASE ConfirmFinal
  BY <1>2, ConfirmFinalKeeps
<1>3. CASE Fallback
  BY <1>3, RedrainKeeps DEF Fallback, network, QueueInv, QueueTypeOK
<1>4. ASSUME NEW s \in Sender, Serve(s) \/ Settle(s) \/ SendEnds(s)
      PROVE  QueueInv'
  BY <1>4, ServeKeeps, SettleKeeps, SendEndsKeeps
<1>5. ASSUME NEW s \in Sender, Fail(s)
      PROVE  QueueInv'
  BY <1>5, UnansweredKeeps DEF Fail, counts, QueueInv, QueueTypeOK
<1>6. ASSUME NEW s \in Sender, Error(s)
      PROVE  QueueInv'
  <2>1. /\ Sending(s) /\ Answered(s, "error") /\ errored' = errored \cup {Head(todo[s])}
        /\ stray' \in {stray, stray \cup {Head(todo[s])}}
        /\ troubles < MaxTroubles /\ troubles' = troubles + 1
        /\ UNCHANGED <<queue, console, todo, cut, online, applied, dismissed, finalizes>>
    BY <1>6 DEF Error, Trouble
  <2>2. troubles' \in 0..MaxTroubles
    BY <2>1, TroubleAssumption DEF QueueInv, QueueTypeOK
  <2>3. Head(todo[s]) \in Command /\ errored \subseteq Command
    BY <2>1 DEF QueueInv, QueueTypeOK, Sending
  <2> QED BY <2>1, <2>2, <2>3, UnansweredKeeps
<1>7. CASE PassEnds
  BY <1>7, PassEndsKeeps
<1>8. CASE Down \/ Up(FALSE) \/ UNCHANGED queueVars
  <2>1. /\ UNCHANGED <<store, attempts, known, timer, redrive, pc, todo, answer, cut, stray,
                       applied, errored, dismissed, finalizes>>
        /\ online' \in BOOLEAN /\ troubles' \in 0..MaxTroubles
    <3>1. CASE Down
      <4>1. /\ troubles < MaxTroubles /\ troubles' = troubles + 1 /\ online' = FALSE
            /\ UNCHANGED <<queue, console, senders, stray, applied, errored, dismissed, finalizes>>
        BY <3>1 DEF Down, Trouble
      <4>2. troubles' \in 0..MaxTroubles
        BY <4>1, TroubleAssumption DEF QueueInv, QueueTypeOK
      <4> QED BY <4>1, <4>2 DEF queue, console, senders
    <3>2. CASE Up(FALSE)
      BY <3>2 DEF Up, queue, counts, QueueInv, QueueTypeOK
    <3>3. CASE UNCHANGED queueVars
      BY <3>3 DEF queueVars, queue, console, senders, network, counts, QueueInv, QueueTypeOK
    <3> QED BY <1>8, <3>1, <3>2, <3>3
  <2>2. QueueTypeOK'
    BY <2>1 DEF QueueInv, QueueTypeOK
  <2>3. Steady' /\ Listed' /\ Attended' /\ NothingLost' /\ OrderKept'
    BY <2>1 DEF QueueInv, Steady, Listed, Attended, Stays, NothingLost, OrderKept
  <2>4. Told' /\ Settled' /\ Ahead'
    BY <2>1 DEF QueueInv, Told, Settled, Ahead, AheadSent, AheadAt, Ordinary, Earlier, Passed, Refuses
  <2> QED BY <2>2, <2>3, <2>4 DEF QueueInv
<1>9. CASE Up(TRUE)
  BY <1>9, RedrainKeeps DEF Up, QueueInv, QueueTypeOK
<1>10. CASE StreamOpens
  BY <1>10, RedrainKeeps DEF StreamOpens, network, QueueInv, QueueTypeOK
<1>11. CASE Reload
  BY <1>11, ReloadKeeps
<1> QED BY <1>1, <1>2, <1>3, <1>4, <1>5, <1>6, <1>7, <1>8, <1>9, <1>10, <1>11 DEF QueueNext

\* The queue's variables keep their types, and every list of commands holds a
\* command once at most.
THEOREM QueueTypes == QueueSpec => []QueueTypeOK
<1>1. QueueInv => QueueTypeOK
  BY DEF QueueInv
<1> QED BY <1>1, QueueInvInit, QueueInvNext, PTL DEF QueueSpec

\* What the operator attempted stays in the browser's queue until the server
\* has applied it or the operator removed its refusal, over every sequence of
\* outages, error answers, stray requests and reloads.
THEOREM NothingIsLost == QueueSpec => []NothingLost
<1>1. QueueInv => NothingLost
  BY DEF QueueInv
<1> QED BY <1>1, QueueInvInit, QueueInvNext, PTL DEF QueueSpec

\* The server applies the commands in the order of the attempts, though drains
\* of the page, of the roster step and of a page reloaded since overlap.
THEOREM OrderIsKept == QueueSpec => []OrderKept
<1>1. QueueInv => OrderKept
  BY DEF QueueInv
<1> QED BY <1>1, QueueInvInit, QueueInvNext, PTL DEF QueueSpec

\* An entry that waits is in a sender's pass, will be in the page's next one,
\* or was left by a pass the network cut short.
THEOREM NothingIsLeftBehind == QueueSpec => []NothingLeftBehind
<1>1. QueueInv => NothingLeftBehind
  <2>1. "page" \in Sender /\ "roster" \in Sender /\ "final" \in Sender
    BY DEF Sender
  <2> QED BY <2>1 DEF QueueInv, Attended, NothingLeftBehind, Stays
<1> QED BY <1>1, QueueInvInit, QueueInvNext, PTL DEF QueueSpec

-----------------------------------------------------------------------------
(***************************************************************************)
(* The stream.  Rows put into the log, and taken out of it.                *)
(***************************************************************************)

\* A row put into a list, and the order of those it held.
LEMMA InsertFacts ==
  ASSUME NEW S, NEW s \in Seq(S), IsInjective(s), NEW e \in S, e \notin ToSet(s),
         NEW i \in 1..Len(s) + 1
  PROVE  LET t == InsertAt(s, i, e) IN
         /\ t \in Seq(S) /\ IsInjective(t) /\ ToSet(t) = ToSet(s) \cup {e}
         /\ \A a, b \in ToSet(s) : Place(t, a) < Place(t, b) <=> Place(s, a) < Place(s, b)
<1> DEFINE t == InsertAt(s, i, e)
           p == SubSeq(s, 1, i - 1)
           r == SubSeq(s, i, Len(s))
           q == p \o <<e>>
           To(j) == IF j < i THEN j ELSE j + 1
<1>0. i \in Nat \ {0} /\ Len(s) \in Nat /\ i <= Len(s) + 1
  BY LenProperties
<1>1. /\ p \in Seq(S) /\ Len(p) = i - 1 /\ \A j \in 1..i - 1 : p[j] = s[j]
      /\ r \in Seq(S) /\ Len(r) = Len(s) - i + 1 /\ \A j \in 1..Len(s) - i + 1 : r[j] = s[i + j - 1]
      /\ Len(s) \in Nat /\ i \in Nat /\ DOMAIN s = 1..Len(s)
  OBVIOUS
<1>2. t = q \o r
  BY DEF InsertAt
<1>3. <<e>> \in Seq(S) /\ Len(<<e>>) = 1 /\ <<e>>[1] = e
  OBVIOUS
<1> HIDE DEF p, r
<1>4. q \in Seq(S) /\ Len(q) = i /\ q[i] = e /\ \A j \in 1..i - 1 : q[j] = s[j]
  <2>1. q = Append(p, e)
    BY <1>1, AppendIsConcat
  <2>2. /\ Append(p, e) \in Seq(S) /\ Len(Append(p, e)) = Len(p) + 1
        /\ \A j \in 1..Len(p) : Append(p, e)[j] = p[j]
        /\ Append(p, e)[Len(p) + 1] = e
    BY <1>1, AppendProperties
  <2>3. (i - 1) + 1 = i
    BY <1>0
  <2> HIDE DEF q
  <2> QED BY <1>1, <2>1, <2>2, <2>3
<1> HIDE DEF t, q
<1>5. /\ t \in Seq(S) /\ Len(t) = Len(s) + 1
      /\ \A j \in 1..Len(s) + 1 : t[j] = IF j <= i THEN q[j] ELSE r[j - i]
  <2>1. /\ q \o r \in Seq(S) /\ Len(q \o r) = i + (Len(s) - i + 1)
        /\ \A j \in 1..i + (Len(s) - i + 1) :
             (q \o r)[j] = IF j <= i THEN q[j] ELSE r[j - i]
    <3>1. /\ q \o r \in Seq(S) /\ Len(q \o r) = Len(q) + Len(r)
          /\ \A j \in 1..Len(q) + Len(r) :
               (q \o r)[j] = IF j <= Len(q) THEN q[j] ELSE r[j - Len(q)]
      <4>1. q \in Seq(S) /\ r \in Seq(S)
        BY <1>1, <1>4
      <4> QED BY ZenonT(20), <4>1, ConcatProperties
    <3> QED BY <1>1, <1>4, <3>1
  <2>2. i + (Len(s) - i + 1) = Len(s) + 1
    BY <1>1
  <2> QED BY <1>2, <2>1, <2>2
<1>6. /\ DOMAIN t = 1..Len(s) + 1 /\ t[i] = e
      /\ \A j \in 1..Len(s) : To(j) \in 1..Len(s) + 1 /\ t[To(j)] = s[j]
      /\ \A j \in 1..Len(s) + 1 : j # i => \E k \in 1..Len(s) : j = To(k)
  <2>1. t[i] = e /\ DOMAIN t = 1..Len(s) + 1
    <3>1. i \in 1..Len(s) + 1 /\ i <= i
      BY <1>0
    <3> QED BY <1>4, <1>5, <3>1, LenProperties
  <2>2. ASSUME NEW j \in 1..Len(s) PROVE To(j) \in 1..Len(s) + 1 /\ t[To(j)] = s[j]
    <3>1. CASE j < i
      BY <1>1, <1>4, <1>5, <3>1
    <3>2. CASE ~ (j < i)
      <4>1. j + 1 \in 1..Len(s) + 1 /\ ~ (j + 1 <= i) /\ (j + 1) - i \in 1..Len(s) - i + 1
        BY <1>1, <3>2
      <4>2. t[j + 1] = r[(j + 1) - i]
        BY <1>5, <4>1
      <4>4. r[(j + 1) - i] = s[i + ((j + 1) - i) - 1]
        BY <1>1, <4>1
      <4>3. i + ((j + 1) - i) - 1 = j
        BY <1>1
      <4> QED BY <3>2, <4>1, <4>2, <4>3, <4>4
    <3> QED BY <3>1, <3>2
  <2>3. ASSUME NEW j \in 1..Len(s) + 1, j # i PROVE \E k \in 1..Len(s) : j = To(k)
    <3>1. CASE j < i
      BY <1>1, <3>1
    <3>2. CASE j > i
      <4>1. j - 1 \in 1..Len(s) /\ To(j - 1) = j
        BY <1>1, <3>2
      <4> QED BY <4>1
    <3> QED BY <1>1, <2>3, <3>1, <3>2
  <2> QED BY <2>1, <2>2, <2>3
<1>7. \A j, k \in 1..Len(s) : /\ To(j) < To(k) <=> j < k
                              /\ To(j) = To(k) <=> j = k
                              /\ To(j) # i
  BY <1>1
<1> HIDE DEF To
<1>8. \A j \in 1..Len(s) : s[j] \in ToSet(s) /\ s[j] # e
  BY <1>1 DEF ToSet
<1>9. IsInjective(t)
  <2>1. ASSUME NEW j \in 1..Len(s) + 1, NEW k \in 1..Len(s) + 1, t[j] = t[k] PROVE j = k
    <3>1. CASE j = i \/ k = i
      BY <1>6, <1>8, <2>1, <3>1
    <3>2. CASE j # i /\ k # i
      <4>1. PICK x \in 1..Len(s), y \in 1..Len(s) : j = To(x) /\ k = To(y)
        BY <1>6, <3>2
      <4>2. s[x] = s[y]
        BY <1>6, <2>1, <4>1
      <4>3. x = y
        BY <1>1, <4>2 DEF IsInjective
      <4> QED BY <4>1, <4>3
    <3> QED BY <3>1, <3>2
  <2> QED BY <1>6, <2>1 DEF IsInjective
<1>10. ToSet(t) = ToSet(s) \cup {e}
  <2>1. \A a \in ToSet(s) : a \in ToSet(t)
    BY <1>1, <1>6 DEF ToSet
  <2>2. e \in ToSet(t)
    BY <1>1, <1>6 DEF ToSet
  <2>3. ASSUME NEW a \in ToSet(t) PROVE a \in ToSet(s) \cup {e}
    <3>1. PICK j \in 1..Len(s) + 1 : t[j] = a
      BY <1>6 DEF ToSet
    <3> QED BY <1>6, <1>8, <3>1
  <2> QED BY <2>1, <2>2, <2>3
<1>11. \A a \in ToSet(s) : Place(s, a) \in 1..Len(s) /\ Place(t, a) = To(Place(s, a))
  <2>1. \A a \in ToSet(s) : Place(s, a) \in 1..Len(s) /\ s[Place(s, a)] = a
    BY <1>1, PlaceFacts
  <2>2. \A j \in 1..Len(s) + 1 : Place(t, t[j]) = j
    BY <1>5, <1>6, <1>9, PlaceFacts
  <2> QED BY <1>6, <2>1, <2>2
<1> QED BY <1>5, <1>7, <1>9, <1>10, <1>11 DEF t

\* A list without the element at one place.
LEMMA RemoveFacts ==
  ASSUME NEW S, NEW s \in Seq(S), NEW i \in DOMAIN s
  PROVE  /\ RemoveAt(s, i) \in Seq(S) /\ Len(RemoveAt(s, i)) = Len(s) - 1
         /\ \A j \in 1..Len(s) - 1 : RemoveAt(s, i)[j] = IF j < i THEN s[j] ELSE s[j + 1]
<1> DEFINE p == SubSeq(s, 1, i - 1)
           r == SubSeq(s, i + 1, Len(s))
<1>1. /\ p \in Seq(S) /\ Len(p) = i - 1 /\ \A j \in 1..i - 1 : p[j] = s[j]
      /\ r \in Seq(S) /\ Len(r) = Len(s) - i /\ \A j \in 1..Len(s) - i : r[j] = s[i + j]
      /\ Len(s) \in Nat /\ i \in 1..Len(s)
  OBVIOUS
<1>2. RemoveAt(s, i) = p \o r
  BY DEF RemoveAt
<1> HIDE DEF p, r
<1>3. /\ p \o r \in Seq(S) /\ Len(p \o r) = Len(s) - 1
      /\ \A j \in 1..Len(s) - 1 : (p \o r)[j] = IF j <= i - 1 THEN p[j] ELSE r[j - (i - 1)]
  <2>1. p \in Seq(S) /\ r \in Seq(S)
    BY <1>1
  <2>2. /\ p \o r \in Seq(S) /\ Len(p \o r) = Len(p) + Len(r)
        /\ \A j \in 1..Len(p) + Len(r) : (p \o r)[j] = IF j <= Len(p) THEN p[j] ELSE r[j - Len(p)]
    BY ZenonT(20), <2>1, ConcatProperties
  <2>3. (i - 1) + (Len(s) - i) = Len(s) - 1
    BY <1>1
  <2> QED BY <1>1, <2>2, <2>3
<1>4. ASSUME NEW j \in 1..Len(s) - 1 PROVE (p \o r)[j] = IF j < i THEN s[j] ELSE s[j + 1]
  <2>1. CASE j < i
    BY <1>1, <1>3, <2>1
  <2>2. CASE ~ (j < i)
    <3>1. ~ (j <= i - 1) /\ j - (i - 1) \in 1..Len(s) - i /\ i + (j - (i - 1)) = j + 1
      BY <1>1, <2>2
    <3> QED BY <1>1, <1>3, <2>2, <3>1
  <2> QED BY <2>1, <2>2
<1> QED BY <1>2, <1>3, <1>4

\* Without repetitions, the element is gone, and the others keep their order.
LEMMA DiscardFacts ==
  ASSUME NEW S, NEW s \in Seq(S), IsInjective(s), NEW i \in DOMAIN s
  PROVE  LET t == RemoveAt(s, i) IN
         /\ t \in Seq(S) /\ IsInjective(t) /\ ToSet(t) = ToSet(s) \ {s[i]}
         /\ \A a, b \in ToSet(t) : Place(t, a) < Place(t, b) <=> Place(s, a) < Place(s, b)
<1> DEFINE t == RemoveAt(s, i)
           To(j) == IF j < i THEN j ELSE j + 1
<1>1. /\ t \in Seq(S) /\ DOMAIN t = 1..Len(s) - 1 /\ DOMAIN s = 1..Len(s)
      /\ Len(s) \in Nat /\ i \in 1..Len(s)
      /\ \A j \in 1..Len(s) - 1 : To(j) \in 1..Len(s) /\ t[j] = s[To(j)]
  <2>1. /\ t \in Seq(S) /\ Len(t) = Len(s) - 1 /\ Len(s) \in Nat /\ DOMAIN s = 1..Len(s)
        /\ \A j \in 1..Len(s) - 1 : t[j] = IF j < i THEN s[j] ELSE s[j + 1]
    BY RemoveFacts, LenProperties
  <2>2. DOMAIN t = 1..Len(s) - 1
    BY <2>1, LenProperties
  <2> QED BY <2>1, <2>2
<1>2. /\ \A j, k \in 1..Len(s) - 1 : /\ To(j) < To(k) <=> j < k
                                     /\ To(j) = To(k) <=> j = k
                                     /\ To(j) # i
      /\ \A k \in 1..Len(s) : k # i => \E j \in 1..Len(s) - 1 : k = To(j)
  <2>1. ASSUME NEW k \in 1..Len(s), k # i PROVE \E j \in 1..Len(s) - 1 : k = To(j)
    <3>1. CASE k < i
      <4>1. k \in 1..Len(s) - 1
        BY <1>1, <3>1
      <4> QED BY <3>1, <4>1
    <3>2. CASE k > i
      <4>1. k - 1 \in 1..Len(s) - 1 /\ ~ (k - 1 < i) /\ (k - 1) + 1 = k
        BY <1>1, <3>2
      <4> QED BY <4>1
    <3>3. k < i \/ k > i
      BY <1>1, <2>1
    <3> QED BY <3>1, <3>2, <3>3
  <2>2. i \in Int /\ \A j \in 1..Len(s) - 1 : j \in Int
    BY <1>1
  <2>3. \A j, k \in 1..Len(s) - 1 : /\ To(j) < To(k) <=> j < k
                                   /\ To(j) = To(k) <=> j = k
                                   /\ To(j) # i
    BY <2>2
  <2> QED BY <2>1, <2>3
<1> HIDE DEF t, To
<1>3. IsInjective(t)
  BY <1>1, <1>2 DEF IsInjective
<1>4. ToSet(t) = ToSet(s) \ {s[i]}
  <2>1. ASSUME NEW a \in ToSet(t) PROVE a \in ToSet(s) \ {s[i]}
    <3>1. PICK j \in 1..Len(s) - 1 : a = t[j]
      BY <1>1 DEF ToSet
    <3> QED BY SMTT(20), <1>1, <1>2, <3>1 DEF ToSet, IsInjective
  <2>2. ASSUME NEW a \in ToSet(s) \ {s[i]} PROVE a \in ToSet(t)
    <3>1. PICK k \in 1..Len(s) : a = s[k]
      BY <1>1 DEF ToSet
    <3>2. PICK j \in 1..Len(s) - 1 : k = To(j)
      BY <1>2, <3>1
    <3> QED BY <1>1, <3>1, <3>2 DEF ToSet
  <2> QED BY <2>1, <2>2
<1>5. \A a \in ToSet(t) : Place(t, a) \in 1..Len(s) - 1 /\ Place(s, a) = To(Place(t, a))
  <2>1. \A a \in ToSet(t) : Place(t, a) \in 1..Len(s) - 1 /\ t[Place(t, a)] = a
    BY <1>1, <1>3, PlaceFacts
  <2>2. \A j \in 1..Len(s) : Place(s, s[j]) = j
    BY <1>1, PlaceFacts
  <2> QED BY <1>1, <2>1, <2>2
<1>6. \A a, b \in ToSet(t) : Place(t, a) < Place(t, b) <=> Place(s, a) < Place(s, b)
  BY <1>2, <1>5
<1>7. /\ t \in Seq(S) /\ IsInjective(t) /\ ToSet(t) = ToSet(s) \ {s[i]}
      /\ \A a, b \in ToSet(t) : Place(t, a) < Place(t, b) <=> Place(s, a) < Place(s, b)
  BY <1>1, <1>3, <1>4, <1>6
<1> QED BY <1>7 DEF t

-----------------------------------------------------------------------------
(***************************************************************************)
(* The inductive invariant of the stream.                                  *)
(***************************************************************************)

\* The log holds what the transactions stamped, the open ones included.
Logged == ToSet(log) = {e \in Event : e[2] <= Len(facts[e[1]])}

\* A place in the stream is a committed row, or before all of them.
Standing(e) == e \in ToSet(log) /\ Committed(e)
Waiting ==
  /\ served = NoEvent \/ Standing(served)
  /\ cursor = NoEvent \/ Standing(cursor)
  /\ conn = "down" => wire = <<>>
  /\ page = "reloading" => conn = "down"
  /\ conn = "open" /\ ~ended => Len(wire) <= MaxWire

\* What is on its way lies between the two cursors, in the log's order.
Framed ==
  conn = "open" =>
    /\ Behind(cursor) <= Behind(served)
    /\ \A k \in DOMAIN wire :
         /\ wire[k] = Expired => ended /\ k = Len(wire)
         /\ wire[k] # Expired =>
              /\ Standing(wire[k]) /\ Visible(wire[k])
              /\ Behind(cursor) < Behind(wire[k]) /\ Behind(wire[k]) <= Behind(served)
              /\ \A l \in 1..k - 1 : Behind(wire[l]) < Behind(wire[k])

\* What the server has read past was handled, is on its way, or came late.
Accounted ==
  conn = "open" =>
    \A e \in ToSet(log) :
      Committed(e) /\ Visible(e) /\ Behind(e) <= Behind(served)
        => e \in seen \cup late \cup ToSet(wire)

StreamInv == TypeOK /\ Logged /\ Waiting /\ Framed /\ Accounted /\ NoSilentGap

-----------------------------------------------------------------------------
LEMMA BoundFacts ==
  /\ MaxFacts \in Nat \ {0} /\ MaxRows \in Nat \ {0} /\ BatchLimit \in Nat \ {0}
  /\ MaxWire \in Nat \ {0} /\ MaxFetches \in Nat \ {0}
  /\ MaxClock \in Nat /\ Window \in Nat /\ Skew \in Nat /\ MaxDrops \in Nat
  BY BoundAssumption

LEMMA EventFacts ==
  /\ \A m \in Match : \A n \in 1..MaxFacts :
       <<m, n>> \in Event /\ <<m, n>>[1] = m /\ <<m, n>>[2] = n
  /\ \A e \in Event : e[1] \in Match /\ e[2] \in 1..MaxFacts /\ e = <<e[1], e[2]>>
  /\ Expired \notin Event /\ NoEvent \notin Event
<1>1. 0 \notin 1..MaxFacts
  BY BoundFacts
<1> QED BY <1>1, NoEventAssumption DEF Event, Expired

\* Where a cursor stands.
Tidy == log \in Seq(Event) /\ IsInjective(log)
Ranked ==
  /\ Behind(NoEvent) = 0 /\ Len(log) \in Nat /\ DOMAIN log = 1..Len(log)
  /\ \A e \in ToSet(log) : /\ e \in Event /\ Behind(e) = Position(e) /\ Behind(e) = Place(log, e)
                           /\ Behind(e) \in 1..Len(log) /\ log[Behind(e)] = e
  /\ \A i \in 1..Len(log) : log[i] \in ToSet(log) /\ Behind(log[i]) = i

LEMMA BehindFacts == Tidy => Ranked
<1> SUFFICES ASSUME Tidy PROVE Ranked
  OBVIOUS
<1> USE DEF Tidy
<1>1. Behind(NoEvent) = 0 /\ Len(log) \in Nat /\ DOMAIN log = 1..Len(log)
  BY LenProperties DEF Behind
<1>2. ASSUME NEW e \in ToSet(log)
      PROVE  /\ e \in Event /\ Behind(e) = Position(e) /\ Behind(e) = Place(log, e)
             /\ Behind(e) \in 1..Len(log) /\ log[Behind(e)] = e
  <2>1. e \in Event
    BY <1>1 DEF ToSet
  <2>2. e # NoEvent
    BY <2>1, EventFacts
  <2>3. Behind(e) = Position(e) /\ Position(e) = Place(log, e)
    BY <2>2 DEF Behind, Position, Place
  <2>4. Place(log, e) \in DOMAIN log /\ log[Place(log, e)] = e
    BY PlaceFacts
  <2> QED BY <1>1, <2>1, <2>3, <2>4
<1>3. ASSUME NEW i \in 1..Len(log) PROVE log[i] \in ToSet(log) /\ Behind(log[i]) = i
  <2>1. log[i] \in ToSet(log) /\ Place(log, log[i]) = i
    BY <1>1, PlaceFacts
  <2> QED BY <1>2, <2>1
<1> QED BY <1>1, <1>2, <1>3 DEF Ranked

\* A transaction still open, or one that is rolled back, does not show: the
\* committed rows stay, in their order, and what was read stays read.
LEMMA ReadKeeps ==
  ASSUME StreamInv, log' \in Seq(Event), IsInjective(log'),
         \A e \in Event : Standing(e)' <=> Standing(e),
         \A e \in Event : Standing(e) => (Visible(e)' <=> Visible(e)),
         \A e, f \in Event : Standing(e) /\ Standing(f) =>
           (Place(log', e) < Place(log', f) <=> Place(log, e) < Place(log, f)),
         UNCHANGED <<server, conn, page, wire, cursor, seen, late>>
  PROVE  Waiting' /\ Framed' /\ Accounted' /\ NoSilentGap'
<1>1. UNCHANGED <<served, ended, conn, page, wire, cursor, seen, late>>
  BY DEF server
<1> DEFINE Here == {e \in Event : Standing(e)} \cup {NoEvent}
<1>2. Ranked /\ Ranked'
  <2>1. Tidy => Ranked
    BY BehindFacts
  <2>2. Tidy' => Ranked'
    BY BehindFacts, PTL
  <2> QED BY <2>1, <2>2 DEF StreamInv, TypeOK, Tidy
<1>3. Behind(NoEvent) = 0 /\ Behind(NoEvent)' = 0 /\ NoEvent \notin Event
  BY EventFacts DEF Behind
<1>4. \A e \in Event : Standing(e) =>
        /\ Behind(e) = Place(log, e) /\ Behind(e) \in Nat \ {0}
        /\ Behind(e)' = Place(log', e) /\ Behind(e)' \in Nat \ {0}
  <2>1. \A e \in ToSet(log) : Behind(e) = Place(log, e) /\ Behind(e) \in Nat \ {0}
    BY <1>2 DEF Ranked
  <2>2. \A e \in ToSet(log') : Behind(e)' = Place(log', e) /\ Behind(e)' \in Nat \ {0}
    BY <1>2 DEF Ranked
  <2> QED BY <2>1, <2>2 DEF Standing
<1>5. \A c, d \in Here : /\ Behind(c)' < Behind(d)' <=> Behind(c) < Behind(d)
                         /\ Behind(c)' <= Behind(d)' <=> Behind(c) <= Behind(d)
  <2>1. \A c \in Here : Behind(c) \in Nat /\ Behind(c)' \in Nat
    BY <1>3, <1>4
  <2>2. \A c, d \in Here : Behind(c)' < Behind(d)' <=> Behind(c) < Behind(d)
    BY <1>3, <1>4
  <2> QED BY <2>1, <2>2
<1>6. served \in Here /\ cursor \in Here
  BY DEF StreamInv, Waiting, TypeOK
<1>7. \A k \in DOMAIN wire : wire[k] # Expired => wire[k] \in Event
  BY DEF StreamInv, TypeOK
<1>8. \A e \in ToSet(log') :
        e \in Event /\ e # NoEvent /\ (Committed(e)' => e \in ToSet(log) /\ Committed(e) /\ e \in Here)
  BY <1>2, <1>3 DEF Ranked, Standing
<1>9. Waiting'
  BY <1>1, <1>3, <1>6 DEF StreamInv, Waiting
<1>10. Framed'
  <2>1. ASSUME conn = "open", NEW k \in DOMAIN wire, wire[k] # Expired
        PROVE  /\ Standing(wire[k])' /\ Visible(wire[k])'
               /\ Behind(cursor)' < Behind(wire[k])' /\ Behind(wire[k])' <= Behind(served)'
               /\ \A l \in 1..k - 1 : Behind(wire[l])' < Behind(wire[k])'
    <3>1. wire[k] \in Event /\ Standing(wire[k]) /\ Visible(wire[k])
      BY <1>7, <2>1 DEF StreamInv, Framed
    <3>2. Behind(cursor) < Behind(wire[k]) /\ Behind(wire[k]) <= Behind(served)
      BY <2>1 DEF StreamInv, Framed
    <3>3. Standing(wire[k])' /\ Visible(wire[k])'
      BY <1>1, <3>1
    <3>4. Behind(cursor)' < Behind(wire[k])' /\ Behind(wire[k])' <= Behind(served)'
      BY <1>1, <1>5, <1>6, <3>1, <3>2
    <3>5. ASSUME NEW l \in 1..k - 1 PROVE Behind(wire[l])' < Behind(wire[k])'
      <4>1. l \in DOMAIN wire /\ l # Len(wire)
        BY <2>1, LenProperties DEF StreamInv, TypeOK
      <4>2. wire[l] \in Event /\ Standing(wire[l]) /\ Behind(wire[l]) < Behind(wire[k])
        BY <1>7, <2>1, <4>1 DEF StreamInv, Framed
      <4> QED BY <1>1, <1>5, <3>1, <4>2
    <3> QED BY <3>3, <3>4, <3>5
  <2>2. conn = "open" => Behind(cursor)' <= Behind(served)'
    BY <1>1, <1>5, <1>6 DEF StreamInv, Framed
  <2>3. conn = "open" => \A k \in DOMAIN wire : wire[k] = Expired => ended /\ k = Len(wire)
    BY DEF StreamInv, Framed
  <2> QED BY <1>1, <2>1, <2>2, <2>3 DEF Framed
<1>11. Accounted'
  <2>1. ASSUME conn = "open", NEW e \in ToSet(log'),
               Committed(e)', Visible(e)', Behind(e)' <= Behind(served)'
        PROVE  e \in seen \cup late \cup ToSet(wire)
    <3>1. e \in ToSet(log) /\ Committed(e) /\ e \in Here /\ e # NoEvent
      BY <1>8, <2>1
    <3>2. Visible(e) /\ Behind(e) <= Behind(served)
      BY <1>1, <1>5, <1>6, <2>1, <3>1
    <3> QED BY <2>1, <3>1, <3>2 DEF StreamInv, Accounted
  <2> QED BY <1>1, <2>1 DEF Accounted
<1>12. NoSilentGap'
  <2>1. ASSUME NEW e \in ToSet(log'),
               Committed(e)', Visible(e)', Behind(e)' <= Behind(cursor)'
        PROVE  e \in seen \cup late
    <3>1. e \in ToSet(log) /\ Committed(e) /\ e \in Here /\ e # NoEvent
      BY <1>8, <2>1
    <3>2. Visible(e) /\ Position(e) <= Behind(cursor)
      BY <1>1, <1>2, <1>5, <1>6, <2>1, <3>1 DEF Ranked
    <3> QED BY <2>1, <3>1, <3>2 DEF StreamInv, NoSilentGap
  <2>2. \A e \in ToSet(log') : Position(e)' = Behind(e)'
    BY <1>2 DEF Ranked
  <2> QED BY <1>1, <2>1, <2>2 DEF NoSilentGap
<1> QED BY <1>9, <1>10, <1>11, <1>12

-----------------------------------------------------------------------------
\* What the types say of one match.
LEMMA MatchFacts ==
  ASSUME StreamInv, NEW m \in Match
  PROVE  /\ facts[m] \in Seq(Kind) /\ Len(facts[m]) \in Nat /\ Len(facts[m]) <= MaxFacts
         /\ head[m] \in 0..MaxFacts /\ head[m] \in {Len(facts[m]) - 1, Len(facts[m])}
         /\ DOMAIN facts[m] = 1..Len(facts[m])
<1>1. facts[m] \in Seq(Kind)
  BY DEF StreamInv, TypeOK
<1>2. /\ Len(facts[m]) <= MaxFacts
      /\ head[m] \in 0..MaxFacts /\ head[m] \in {Len(facts[m]) - 1, Len(facts[m])}
  BY DEF StreamInv, TypeOK
<1> QED BY <1>1, <1>2, LenProperties

\* The transactions.
LEMMA PublishKeeps ==
  ASSUME StreamInv, NEW m \in Match, NEW kind \in Kind, Publish(m, kind)
  PROVE  StreamInv'
<1>0. PICK e : e = <<m, Len(facts[m]) + 1>>
  OBVIOUS
<1>1. PICK s \in clock..clock + Skew : \E i \in Places(m, s) :
        /\ ~ Open(m) /\ Len(facts[m]) < MaxFacts
        /\ log' = InsertAt(log, i, e) /\ at' = [at EXCEPT ![e] = s]
        /\ facts' = [facts EXCEPT ![m] = Append(facts[m], kind)]
        /\ UNCHANGED <<clock, head, surface, server, client, seen, told, late>>
  BY <1>0 DEF Publish
<1>12. PICK i \in Places(m, s) : log' = InsertAt(log, i, e)
  BY <1>1
<1>2. /\ Len(facts[m]) \in Nat /\ facts[m] \in Seq(Kind) /\ head[m] = Len(facts[m])
      /\ facts \in [Match -> Seq(Kind)] /\ MaxFacts \in Nat
      /\ log \in Seq(Event) /\ IsInjective(log)
  <2>1. facts \in [Match -> Seq(Kind)] /\ log \in Seq(Event) /\ IsInjective(log)
    BY DEF StreamInv, TypeOK
  <2> QED BY <1>1, <2>1, BoundFacts, MatchFacts DEF Open
<1>3. e \in Event /\ e[1] = m /\ e[2] = Len(facts[m]) + 1
  <2>1. Len(facts[m]) + 1 \in 1..MaxFacts
    BY <1>1, <1>2
  <2> QED BY <1>0, <2>1, EventFacts
<1>4. i \in 1..Len(log) + 1 /\ e \notin ToSet(log)
  BY <1>2, <1>3 DEF StreamInv, Logged, Places
<1>5. /\ log' \in Seq(Event) /\ IsInjective(log') /\ ToSet(log') = ToSet(log) \cup {e}
      /\ \A a, b \in ToSet(log) : Place(log', a) < Place(log', b) <=> Place(log, a) < Place(log, b)
  BY <1>2, <1>3, <1>4, <1>12, InsertFacts
<1>6. /\ facts' \in [Match -> Seq(Kind)]
      /\ Len(facts'[m]) = Len(facts[m]) + 1 /\ \A n \in 1..Len(facts[m]) : facts'[m][n] = facts[m][n]
      /\ \A k \in Match \ {m} : facts'[k] = facts[k]
  <2>1. /\ Append(facts[m], kind) \in Seq(Kind) /\ Len(Append(facts[m], kind)) = Len(facts[m]) + 1
        /\ \A n \in 1..Len(facts[m]) : Append(facts[m], kind)[n] = facts[m][n]
    BY <1>2, AppendProperties
  <2> QED BY <1>1, <1>2, <2>1
<1>7. TypeOK'
  <2>1. \A k \in Match : Len(facts'[k]) <= MaxFacts /\ head[k] \in {Len(facts'[k]) - 1, Len(facts'[k])}
    BY <1>1, <1>2, <1>6 DEF StreamInv, TypeOK
  <2>2. at' \in [Event -> 0..MaxClock + Skew]
    <3>1. s \in 0..MaxClock + Skew
      <4>1. clock \in 0..MaxClock
        BY DEF StreamInv, TypeOK
      <4> QED BY <1>1, <4>1, BoundFacts
    <3> QED BY <1>1, <1>3, <3>1 DEF StreamInv, TypeOK
  <2> QED BY SMTT(20), <1>1, <1>5, <1>6, <2>1, <2>2 DEF StreamInv, TypeOK, server, client
<1>8. Logged'
  <2>1. ASSUME NEW f \in Event
        PROVE  f[2] <= Len(facts'[f[1]]) <=> f[2] <= Len(facts[f[1]]) \/ f = e
    <3>1. f[1] \in Match /\ f[2] \in 1..MaxFacts /\ f = <<f[1], f[2]>>
      BY EventFacts
    <3>2. CASE f[1] = m
      BY <1>0, <1>2, <1>3, <1>6, <3>1, <3>2
    <3>3. CASE f[1] # m
      BY <1>3, <1>6, <3>1, <3>3
    <3> QED BY <3>2, <3>3
  <2> QED BY <1>3, <1>5, <2>1 DEF StreamInv, Logged
<1>9. \A f \in Event : Standing(f)' <=> Standing(f)
  <2>1. ~ Committed(e) /\ head' = head
    BY <1>1, <1>2, <1>3 DEF Committed
  <2> QED BY <1>5, <2>1 DEF Standing, Committed
<1>10. \A f \in Event : Standing(f) => (Visible(f)' <=> Visible(f))
  <2>1. ASSUME NEW f \in Event, Standing(f) PROVE KindOf(f)' = KindOf(f)
    <3>1. f[1] \in Match /\ f[2] \in 1..Len(facts[f[1]])
      <4>1. f[1] \in Match /\ f[2] \in 1..MaxFacts /\ f[2] <= Len(facts[f[1]])
        BY <2>1, EventFacts DEF Standing, StreamInv, Logged
      <4>2. Len(facts[f[1]]) \in Nat
        BY <1>2, <4>1, LenProperties
      <4> QED BY <4>1, <4>2
    <3> QED BY SMTT(20), <1>6, <3>1 DEF KindOf
  <2> QED BY <1>1, <2>1 DEF Visible
<1>11. Waiting' /\ Framed' /\ Accounted' /\ NoSilentGap'
  <2>1. \A a, b \in Event : Standing(a) /\ Standing(b) =>
          (Place(log', a) < Place(log', b) <=> Place(log, a) < Place(log, b))
    BY <1>5 DEF Standing
  <2>2. UNCHANGED <<server, conn, page, wire, cursor, seen, late>>
    BY <1>1 DEF client
  <2> QED BY <1>5, <1>9, <1>10, <2>1, <2>2, ReadKeeps
<1> QED BY <1>7, <1>8, <1>11 DEF StreamInv

LEMMA RollbackKeeps ==
  ASSUME StreamInv, NEW m \in Match, Rollback(m)
  PROVE  StreamInv'
<1>0. PICK e : e = <<m, head[m] + 1>>
  OBVIOUS
<1>1. /\ Open(m) /\ log' = RemoveAt(log, Position(e)) /\ at' = [at EXCEPT ![e] = 0]
      /\ facts' = [facts EXCEPT ![m] = Front(facts[m])]
      /\ UNCHANGED <<clock, head, surface, server, client, seen, told, late>>
  BY <1>0 DEF Rollback
<1>2. /\ Len(facts[m]) \in Nat /\ facts[m] \in Seq(Kind) /\ head[m] = Len(facts[m]) - 1
      /\ head[m] \in Nat /\ Len(facts[m]) <= MaxFacts
      /\ facts \in [Match -> Seq(Kind)] /\ MaxFacts \in Nat
      /\ log \in Seq(Event) /\ IsInjective(log)
  <2>1. facts \in [Match -> Seq(Kind)] /\ log \in Seq(Event) /\ IsInjective(log)
    BY DEF StreamInv, TypeOK
  <2> QED BY <1>1, <2>1, BoundFacts, MatchFacts DEF Open
<1>3. e \in Event /\ e[1] = m /\ e[2] = Len(facts[m])
  <2>1. head[m] + 1 \in 1..MaxFacts /\ head[m] + 1 = Len(facts[m])
    BY <1>2
  <2> QED BY <1>0, <2>1, EventFacts
<1>4. e \in ToSet(log) /\ Position(e) \in DOMAIN log /\ log[Position(e)] = e
  <2>1. e \in ToSet(log)
    BY <1>2, <1>3 DEF StreamInv, Logged
  <2> QED BY <1>2, <2>1, BehindFacts DEF Tidy, Ranked
<1>5. /\ log' \in Seq(Event) /\ IsInjective(log') /\ ToSet(log') = ToSet(log) \ {e}
      /\ \A a, b \in ToSet(log') : Place(log', a) < Place(log', b) <=> Place(log, a) < Place(log, b)
  BY <1>1, <1>2, <1>4, DiscardFacts
<1>6. /\ facts' \in [Match -> Seq(Kind)]
      /\ Len(facts'[m]) = Len(facts[m]) - 1 /\ \A n \in 1..Len(facts[m]) - 1 : facts'[m][n] = facts[m][n]
      /\ \A k \in Match \ {m} : facts'[k] = facts[k]
  <2>1. /\ Front(facts[m]) \in Seq(Kind) /\ Len(Front(facts[m])) = Len(facts[m]) - 1
        /\ \A n \in 1..Len(facts[m]) - 1 : Front(facts[m])[n] = facts[m][n]
    <3>1. PICK n : n = Len(facts[m]) - 1
      OBVIOUS
    <3>2. n \in Nat /\ Len(facts[m]) = n + 1 /\ DOMAIN facts[m] = 1..n + 1
      BY <1>2, <3>1, MatchFacts
    <3>3. \A j \in 1..n : facts[m][j] \in Kind
      BY <1>2, <3>2
    <3>4. /\ SubSeq(facts[m], 1, n) \in Seq(Kind) /\ Len(SubSeq(facts[m], 1, n)) = n
          /\ \A j \in 1..n : SubSeq(facts[m], 1, n)[j] = facts[m][j]
      BY <3>2, <3>3
    <3> QED BY <3>1, <3>4 DEF Front
  <2> QED BY <1>1, <1>2, <2>1
<1>7. TypeOK'
  <2>1. \A k \in Match : Len(facts'[k]) <= MaxFacts /\ head[k] \in {Len(facts'[k]) - 1, Len(facts'[k])}
    BY SMTT(20), <1>1, <1>2, <1>6 DEF StreamInv, TypeOK
  <2>2. at' \in [Event -> 0..MaxClock + Skew]
    <3>1. 0 \in 0..MaxClock + Skew
      BY BoundFacts
    <3> QED BY <1>1, <1>3, <3>1 DEF StreamInv, TypeOK
  <2> QED BY <1>1, <1>5, <1>6, <2>1, <2>2 DEF StreamInv, TypeOK, server, client
<1>8. Logged'
  <2>1. ASSUME NEW f \in Event
        PROVE  f[2] <= Len(facts'[f[1]]) <=> f[2] <= Len(facts[f[1]]) /\ f # e
    <3>1. f[1] \in Match /\ f[2] \in 1..MaxFacts /\ f = <<f[1], f[2]>>
      BY EventFacts
    <3>2. CASE f[1] = m
      <4>1. e = <<m, Len(facts[m])>>
        BY <1>0, <1>2
      <4> QED BY <1>2, <1>3, <1>6, <3>1, <3>2, <4>1
    <3>3. CASE f[1] # m
      BY <1>3, <1>6, <3>1, <3>3
    <3> QED BY <3>2, <3>3
  <2> QED BY <1>3, <1>5, <2>1 DEF StreamInv, Logged
<1>9. \A f \in Event : Standing(f)' <=> Standing(f)
  <2>1. ~ Committed(e) /\ head' = head
    BY <1>1, <1>2, <1>3 DEF Committed
  <2> QED BY <1>5, <2>1 DEF Standing, Committed
<1>10. \A f \in Event : Standing(f) => (Visible(f)' <=> Visible(f))
  <2>1. ASSUME NEW f \in Event, Standing(f) PROVE KindOf(f)' = KindOf(f)
    <3>1. f[1] \in Match /\ f[2] \in 1..MaxFacts /\ f[2] <= head[f[1]] /\ f[2] <= Len(facts[f[1]])
      BY <2>1, EventFacts DEF Standing, Committed, StreamInv, Logged
    <3>2. CASE f[1] = m
      <4>1. f[2] \in 1..Len(facts[m]) - 1
        BY <1>2, <3>1, <3>2
      <4> QED BY <1>6, <3>2, <4>1 DEF KindOf
    <3>3. CASE f[1] # m
      BY <1>6, <3>1, <3>3 DEF KindOf
    <3> QED BY <3>2, <3>3
  <2> QED BY <1>1, <2>1 DEF Visible
<1>11. Waiting' /\ Framed' /\ Accounted' /\ NoSilentGap'
  <2>1. \A a, b \in Event : Standing(a) /\ Standing(b) =>
          (Place(log', a) < Place(log', b) <=> Place(log, a) < Place(log, b))
    BY <1>5, <1>9 DEF Standing
  <2>2. UNCHANGED <<server, conn, page, wire, cursor, seen, late>>
    BY <1>1 DEF client
  <2> QED BY <1>5, <1>9, <1>10, <2>1, <2>2, ReadKeeps
<1> QED BY <1>7, <1>8, <1>11 DEF StreamInv

LEMMA CommitKeeps ==
  ASSUME StreamInv, NEW m \in Match, Commit(m)
  PROVE  StreamInv'
<1>0. PICK e : e = <<m, head[m] + 1>>
  OBVIOUS
<1>1. /\ Open(m) /\ head' = [head EXCEPT ![m] = head[m] + 1]
      /\ late' = IF Position(e) < Behind(ReadUpTo) THEN late \cup {e} ELSE late
      /\ UNCHANGED <<clock, facts, log, at, surface, page, conn, wire, cursor, screen, fetches,
                     drops, served, ended, seen, told>>
  BY <1>0 DEF Commit, server, client
<1>2. /\ Len(facts[m]) \in Nat /\ head[m] = Len(facts[m]) - 1 /\ head[m] \in Nat
      /\ Len(facts[m]) <= MaxFacts /\ MaxFacts \in Nat
      /\ head \in [Match -> 0..MaxFacts] /\ log \in Seq(Event) /\ IsInjective(log)
  <2>1. head \in [Match -> 0..MaxFacts] /\ log \in Seq(Event) /\ IsInjective(log)
    BY DEF StreamInv, TypeOK
  <2> QED BY <1>1, <2>1, BoundFacts, MatchFacts DEF Open
<1>3. e \in Event /\ e[1] = m /\ e[2] = head[m] + 1 /\ e \in ToSet(log)
  <2>1. head[m] + 1 \in 1..MaxFacts /\ head[m] + 1 = Len(facts[m])
    BY <1>2
  <2>2. e \in Event /\ e[1] = m /\ e[2] = head[m] + 1
    BY <1>0, <2>1, EventFacts
  <2> QED BY <1>2, <2>1, <2>2 DEF StreamInv, Logged
<1>4. TypeOK'
  <2>1. /\ head' \in [Match -> 0..MaxFacts]
        /\ \A k \in Match : head'[k] \in {Len(facts[k]) - 1, Len(facts[k])}
    BY SMTT(20), <1>1, <1>2 DEF StreamInv, TypeOK
  <2> QED BY SMTT(20), <1>1, <1>3, <2>1 DEF StreamInv, TypeOK
<1>5. \A f \in Event : Standing(f)' <=> Standing(f) \/ f = e
  <2>1. ASSUME NEW f \in Event PROVE f[2] <= head'[f[1]] <=> f[2] <= head[f[1]] \/ f = e
    <3>1. f[1] \in Match /\ f[2] \in 1..MaxFacts /\ f = <<f[1], f[2]>>
      BY EventFacts
    <3>2. CASE f[1] = m
      BY <1>0, <1>1, <1>2, <1>3, <3>1, <3>2
    <3>3. CASE f[1] # m
      BY <1>1, <1>2, <1>3, <3>1, <3>3
    <3> QED BY <3>2, <3>3
  <2> QED BY <1>1, <1>3, <2>1 DEF Standing, Committed
<1>6. \A c : Behind(c)' = Behind(c) /\ Position(c)' = Position(c)
  BY <1>1 DEF Behind, Position
<1>7. \A c : Visible(c)' <=> Visible(c)
  BY <1>1 DEF Visible, KindOf
<1>8. Ranked
  BY <1>2, BehindFacts DEF Tidy
<1>9. /\ Behind(cursor) \in Nat /\ Behind(served) \in Nat
      /\ Behind(e) # Behind(cursor) /\ Behind(e) # Behind(served) /\ Behind(e) \in Nat
  <2>1. ASSUME NEW c, c = NoEvent \/ Standing(c) PROVE Behind(c) \in Nat /\ Behind(c) # Behind(e)
    <3>1. CASE c = NoEvent
      BY <1>3, <1>8, <3>1 DEF Ranked
    <3>2. CASE Standing(c)
      <4>1. c # e
        BY <1>2, <1>3, <3>2 DEF Standing, Committed
      <4> QED BY <1>3, <1>8, <3>2, <4>1 DEF Ranked, Standing
    <3> QED BY <2>1, <3>1, <3>2
  <2>2. Behind(e) \in Nat
    BY <1>3, <1>8 DEF Ranked
  <2> QED BY <2>1, <2>2 DEF StreamInv, Waiting
<1>10. /\ Behind(cursor) <= Behind(ReadUpTo)
       /\ conn = "open" => Behind(served) <= Behind(ReadUpTo)
  BY <1>9 DEF ReadUpTo
<1>11. /\ Behind(e) <= Behind(cursor) => e \in late'
       /\ conn = "open" /\ Behind(e) <= Behind(served) => e \in late'
  <2>1. Behind(e) = Position(e) /\ Behind(ReadUpTo) \in Nat
    BY <1>3, <1>8, <1>9 DEF Ranked, ReadUpTo
  <2> QED BY <1>1, <1>9, <1>10, <2>1
<1>12. late \subseteq late'
  BY <1>1
<1>13. Logged'
  BY <1>1 DEF StreamInv, Logged
<1>14. Waiting'
  <2>1. \A c : c = NoEvent \/ Standing(c) => c = NoEvent \/ Standing(c)'
    BY <1>5, <1>8 DEF Standing, Ranked
  <2> QED BY <1>1, <2>1 DEF StreamInv, Waiting
<1>15. Framed'
  <2>1. \A k \in DOMAIN wire : wire[k] # Expired => wire[k] \in Event
    BY DEF StreamInv, TypeOK
  <2> QED BY <1>1, <1>5, <1>6, <1>7, <2>1 DEF StreamInv, Framed
<1>16. Accounted'
  <2>1. ASSUME conn = "open", NEW f \in ToSet(log),
               Committed(f)', Visible(f), Behind(f) <= Behind(served)
        PROVE  f \in seen \cup late' \cup ToSet(wire)
    <3>1. f \in Event /\ Standing(f)'
      BY <1>1, <1>8, <2>1 DEF Ranked, Standing
    <3>2. CASE f = e
      BY <1>11, <2>1, <3>2
    <3>3. CASE Standing(f)
      BY <1>12, <2>1, <3>3 DEF StreamInv, Accounted, Standing
    <3> QED BY <1>5, <3>1, <3>2, <3>3
  <2> QED BY <1>1, <1>6, <1>7, <2>1 DEF Accounted
<1>17. NoSilentGap'
  <2>1. ASSUME NEW f \in ToSet(log), Committed(f)', Visible(f), Position(f) <= Behind(cursor)
        PROVE  f \in seen \cup late'
    <3>1. f \in Event /\ Standing(f)' /\ Behind(f) = Position(f)
      BY <1>1, <1>8, <2>1 DEF Ranked, Standing
    <3>2. CASE f = e
      BY <1>11, <2>1, <3>1, <3>2
    <3>3. CASE Standing(f)
      BY <1>12, <2>1, <3>3 DEF StreamInv, NoSilentGap, Standing
    <3> QED BY <1>5, <3>1, <3>2, <3>3
  <2> QED BY <1>1, <1>6, <1>7, <2>1 DEF NoSilentGap
<1> QED BY <1>4, <1>13, <1>14, <1>15, <1>16, <1>17 DEF StreamInv

-----------------------------------------------------------------------------
\* What the server reads: committed rows behind the cursor, in the log's
\* order, and none left out before the last of them.
LEMMA AfterFacts ==
  ASSUME StreamInv, NEW c
  PROVE  LET rows == After(c) IN
         /\ rows \in Seq(Event)
         /\ \A e \in ToSet(rows) : Standing(e) /\ Behind(e) > Behind(c)
         /\ \A k, l \in DOMAIN rows : k < l => Behind(rows[k]) < Behind(rows[l])
         /\ \A e \in ToSet(rows) : \A f \in ToSet(log) :
              Committed(f) /\ Behind(f) > Behind(c) /\ Behind(f) <= Behind(e) => f \in ToSet(rows)
<1> DEFINE U == Unserved(c)
           UpTo(i) == {j \in U : j <= i}
           I == {i \in U : Cardinality(UpTo(i)) <= BatchLimit}
           rows == Selected(log, I)
<1>1. log \in Seq(Event) /\ Ranked
  BY BehindFacts DEF StreamInv, TypeOK, Tidy
<1>2. /\ U \in SUBSET DOMAIN log
      /\ \A i \in U : i \in 1..Len(log) /\ log[i] \in ToSet(log)
                      /\ Standing(log[i]) /\ Behind(log[i]) = i /\ i > Behind(c)
      /\ \A f \in ToSet(log) : Committed(f) /\ Behind(f) > Behind(c) => Behind(f) \in U
  BY <1>1 DEF Ranked, Unserved, Standing
<1>3. IsFiniteSet(U) /\ Len(log) \in Nat
  <2>1. Len(log) \in Nat /\ DOMAIN log = 1..Len(log)
    BY <1>1 DEF Ranked
  <2>2. IsFiniteSet(1..Len(log))
    BY <2>1, FS_Interval
  <2> QED BY <1>2, <2>1, <2>2, FS_Subset
<1> HIDE DEF U
<1>4. I \in SUBSET DOMAIN log /\ I \subseteq U
  BY <1>2
<1>5. ASSUME NEW i \in I, NEW j \in U, j <= i PROVE j \in I
  <2>1. UpTo(j) \subseteq UpTo(i) /\ UpTo(i) \subseteq U
    <3>1. \A x \in U : x \in Int
      BY <1>2, <1>3
    <3> QED BY <1>4, <1>5, <3>1
  <2>2. IsFiniteSet(UpTo(i)) /\ IsFiniteSet(UpTo(j))
    BY <1>3, <2>1, FS_Subset
  <2>3. Cardinality(UpTo(j)) <= Cardinality(UpTo(i))
    BY <2>1, <2>2, FS_Subset
  <2>4. Cardinality(UpTo(j)) \in Nat /\ Cardinality(UpTo(i)) \in Nat /\ Cardinality(UpTo(i)) <= BatchLimit
    BY <1>5, <2>2, FS_CardinalityType
  <2> QED BY <2>3, <2>4, BoundFacts
<1>6. After(c) = rows
  BY DEF After, U
<1> HIDE DEF I
<1>7. /\ rows \in Seq(Event) /\ ToSet(rows) = {log[i] : i \in I}
      /\ \A k, l \in DOMAIN rows : k < l =>
           \E i, j \in I : i < j /\ rows[k] = log[i] /\ rows[l] = log[j]
  BY <1>1, <1>4, SelectedFacts
<1> HIDE DEF rows
<1>8. \A e \in ToSet(rows) : Standing(e) /\ Behind(e) > Behind(c)
  BY <1>2, <1>4, <1>7
<1>9. \A k, l \in DOMAIN rows : k < l => Behind(rows[k]) < Behind(rows[l])
  BY <1>2, <1>4, <1>7
<1>10. ASSUME NEW e \in ToSet(rows), NEW f \in ToSet(log),
              Committed(f), Behind(f) > Behind(c), Behind(f) <= Behind(e)
       PROVE  f \in ToSet(rows)
  <2>1. PICK i \in I : e = log[i]
    BY <1>7
  <2>2. Behind(e) = i
    BY <1>2, <1>4, <2>1
  <2>3. Behind(f) \in I
    BY <1>2, <1>5, <1>10, <2>2
  <2>4. f = log[Behind(f)]
    BY <1>1 DEF Ranked
  <2> QED BY <1>7, <2>3, <2>4
<1> QED BY <1>6, <1>7, <1>8, <1>9, <1>10

\* What it sends of that: the visible rows, in the same order.
LEMMA SentFacts ==
  ASSUME NEW rows \in Seq(Event),
         \A k, l \in DOMAIN rows : k < l => Behind(rows[k]) < Behind(rows[l])
  PROVE  LET sent == Sent(rows) IN
         /\ sent \in Seq(Event)
         /\ ToSet(sent) = {e \in ToSet(rows) : Visible(e)}
         /\ \A k, l \in DOMAIN sent : k < l => Behind(sent[k]) < Behind(sent[l])
<1> DEFINE I == {i \in DOMAIN rows : Visible(rows[i])}
           sent == Selected(rows, I)
<1>1. I \in SUBSET DOMAIN rows
  OBVIOUS
<1>2. Sent(rows) = sent
  BY DEF Sent
<1> HIDE DEF I
<1>3. /\ sent \in Seq(Event) /\ ToSet(sent) = {rows[i] : i \in I}
      /\ \A k, l \in DOMAIN sent : k < l =>
           \E i, j \in I : i < j /\ sent[k] = rows[i] /\ sent[l] = rows[j]
  BY <1>1, SelectedFacts
<1> HIDE DEF sent
<1>4. ToSet(sent) = {e \in ToSet(rows) : Visible(e)}
  <2>1. \A i \in DOMAIN rows : rows[i] \in ToSet(rows)
    BY DEF ToSet
  <2>2. \A e \in ToSet(rows) : \E i \in DOMAIN rows : rows[i] = e
    BY DEF ToSet
  <2> QED BY <1>3, <2>1, <2>2 DEF I
<1>5. \A k, l \in DOMAIN sent : k < l => Behind(sent[k]) < Behind(sent[l])
  BY <1>1, <1>3
<1> QED BY <1>2, <1>3, <1>4, <1>5

\* A row's kind and state can be shown, and a page's version is within bounds.
LEMMA ShownFacts ==
  ASSUME StreamInv
  PROVE  /\ \A e \in Event : Standing(e) => Version(e) \in 0..MaxFacts
         /\ \A heads \in [Match -> 0..MaxFacts] :
              Rendered(heads) \in [Match -> [version : 0..MaxFacts, state : State]]
<1>1. ASSUME NEW e \in Event, Standing(e) PROVE Version(e) \in 0..MaxFacts
  <2>1. e[1] \in Match /\ e[2] \in 1..MaxFacts
    BY EventFacts
  <2>2. Sequence(e) \in 0..e[2]
    <3>1. IsFiniteSet(1..e[2]) /\ Cardinality(1..e[2]) = e[2]
      <4>1. \A n \in Nat : IsFiniteSet(1..n) /\ Cardinality(1..n) = n
        BY FS_Interval
      <4> QED BY <2>1, <4>1
    <3>2. {i \in 1..e[2] : facts[e[1]][i] = "recorded"} \in SUBSET (1..e[2])
      OBVIOUS
    <3>3. Sequence(e) <= e[2] /\ Sequence(e) \in Nat
      BY <3>1, <3>2, FS_Subset, FS_CardinalityType DEF Sequence
    <3> QED BY <2>1, <3>3
  <2> QED BY <2>1, <2>2, BoundFacts DEF Version
<1>2. ASSUME NEW heads \in [Match -> 0..MaxFacts]
      PROVE  Rendered(heads) \in [Match -> [version : 0..MaxFacts, state : State]]
  <2>1. \A n \in 0..MaxFacts : StartVersion(n) \in 0..MaxFacts
    <3>1. surface \in {"ticker", "live", "console"}
      BY SurfaceAssumption DEF StreamInv, TypeOK
    <3> QED BY <3>1, BoundFacts DEF StartVersion
  <2>2. \A m \in Match, n \in 0..MaxFacts : StateAt(m, n) \in State
    BY DEF StateAt, State
  <2> QED BY <2>1, <2>2 DEF Rendered
<1> QED BY <1>1, <1>2

\* One turn of streamEvents.
LEMMA PollKeeps ==
  ASSUME StreamInv, Poll
  PROVE  StreamInv'
<1>1. /\ conn = "open" /\ ~ ended
      /\ UNCHANGED <<clock, facts, head, log, at, surface, page, conn, cursor, screen, fetches,
                     drops, seen, told, late>>
  BY DEF Poll, outbox
<1>2. /\ wire \in Seq(Event \cup {Expired}) /\ Len(wire) <= MaxWire /\ Len(wire) \in Nat
      /\ DOMAIN wire = 1..Len(wire)
  BY <1>1, LenProperties DEF StreamInv, TypeOK, Waiting
<1>3. \A k \in DOMAIN wire : wire[k] \in Event
  BY <1>1, <1>2 DEF StreamInv, Framed
<1>4. \A c : Behind(c)' = Behind(c) /\ Position(c)' = Position(c) /\ (Standing(c)' <=> Standing(c))
  BY <1>1 DEF Behind, Position, Standing, Committed
<1>5. \A c : Visible(c)' <=> Visible(c)
  BY <1>1 DEF Visible, KindOf
<1>6. Logged' /\ NoSilentGap'
  <2>1. \A c : Committed(c)' <=> Committed(c)
    BY <1>1 DEF Committed
  <2> QED BY <1>1, <1>4, <1>5, <2>1 DEF StreamInv, Logged, NoSilentGap
<1>7. Ranked
  BY BehindFacts DEF StreamInv, TypeOK, Tidy
<1>8. CASE TooOld(served)
  <2>1. wire' = Append(wire, Expired) /\ ended' = TRUE /\ served' = served
    BY <1>8 DEF Poll
  <2>2. /\ wire' \in Seq(Event \cup {Expired}) /\ Len(wire') = Len(wire) + 1
        /\ \A k \in 1..Len(wire) : wire'[k] = wire[k]
        /\ wire'[Len(wire) + 1] = Expired
        /\ DOMAIN wire' = 1..Len(wire) + 1
    BY <1>2, <2>1, AppendProperties, LenProperties
  <2>3. TypeOK'
    BY <1>1, <1>2, <2>1, <2>2, BoundFacts DEF StreamInv, TypeOK
  <2>4. Waiting'
    BY <1>1, <1>4, <2>1 DEF StreamInv, Waiting
  <2>5. Framed'
    <3>1. ASSUME NEW k \in DOMAIN wire', wire'[k] # Expired
          PROVE  /\ k \in DOMAIN wire /\ wire'[k] = wire[k]
                 /\ \A l \in 1..k - 1 : wire'[l] = wire[l]
      BY <1>2, <2>2, <3>1
    <3>2. \A k \in DOMAIN wire' : wire'[k] = Expired => k = Len(wire')
      <4>1. \A k \in 1..Len(wire) : wire'[k] # Expired
        BY <1>2, <1>3, <2>2, EventFacts
      <4> QED BY <1>2, <2>2, <4>1
    <3> QED BY <1>1, <1>4, <1>5, <2>1, <3>1, <3>2 DEF StreamInv, Framed
  <2>6. ToSet(wire) \subseteq ToSet(wire')
    BY <1>2, <2>2 DEF ToSet
  <2>7. Accounted'
    <3>1. \A c : Committed(c)' <=> Committed(c)
      BY <1>1 DEF Committed
    <3> QED BY <1>1, <1>4, <1>5, <2>1, <2>6, <3>1 DEF StreamInv, Accounted
  <2> QED BY <1>6, <2>3, <2>4, <2>5, <2>7 DEF StreamInv
<1>9. CASE ~ TooOld(served)
  <2>0. PICK rows : rows = After(served)
    OBVIOUS
  <2>1. /\ rows \in Seq(Event)
        /\ \A e \in ToSet(rows) : Standing(e) /\ Behind(e) > Behind(served)
        /\ \A k, l \in DOMAIN rows : k < l => Behind(rows[k]) < Behind(rows[l])
        /\ \A e \in ToSet(rows) : \A f \in ToSet(log) :
             Committed(f) /\ Behind(f) > Behind(served) /\ Behind(f) <= Behind(e)
               => f \in ToSet(rows)
    BY <2>0, AfterFacts
  <2>2. PICK sent : sent = Sent(rows)
    OBVIOUS
  <2>3. /\ sent \in Seq(Event) /\ ToSet(sent) = {e \in ToSet(rows) : Visible(e)}
        /\ \A k, l \in DOMAIN sent : k < l => Behind(sent[k]) < Behind(sent[l])
    BY <2>1, <2>2, SentFacts
  <2>12. PICK w, v : w = wire' /\ v = served'
    OBVIOUS
  <2>4. /\ Len(wire) + Len(sent) <= MaxWire /\ w = wire \o sent
        /\ v = Advanced(served, rows) /\ ended' = ended
    BY <1>9, <2>0, <2>2, <2>12 DEF Poll
  <2>5. /\ Len(sent) \in Nat /\ DOMAIN sent = 1..Len(sent)
        /\ Len(rows) \in Nat /\ DOMAIN rows = 1..Len(rows)
    BY <2>1, <2>3, LenProperties
  <2>6. /\ w \in Seq(Event \cup {Expired}) /\ Len(w) = Len(wire) + Len(sent)
        /\ DOMAIN w = 1..Len(wire) + Len(sent)
        /\ \A k \in 1..Len(wire) + Len(sent) :
             w[k] = IF k <= Len(wire) THEN wire[k] ELSE sent[k - Len(wire)]
    <3>1. wire \o sent \in Seq(Event \cup {Expired}) /\ Len(wire \o sent) = Len(wire) + Len(sent)
          /\ \A k \in 1..Len(wire) + Len(sent) :
               (wire \o sent)[k] = IF k <= Len(wire) THEN wire[k] ELSE sent[k - Len(wire)]
      <4>1. sent \in Seq(Event \cup {Expired})
        BY <2>3
      <4> QED BY <1>2, <4>1, ConcatProperties
    <3> QED BY <1>2, <2>4, <2>5, <3>1, LenProperties
  <2>7. /\ v = NoEvent \/ (v \in Event /\ Standing(v))
        /\ Behind(served) <= Behind(v)
        /\ \A e \in ToSet(rows) : Behind(e) <= Behind(v)
        /\ (rows = <<>> /\ v = served) \/ v \in ToSet(rows)
        /\ Behind(served) \in Nat /\ Behind(v) \in Nat
    <3>1. served = NoEvent \/ (served \in Event /\ Standing(served))
      BY DEF StreamInv, Waiting, TypeOK
    <3>2. Behind(served) \in Nat
      BY <1>7, <3>1 DEF Ranked, Standing
    <3>3. CASE rows = <<>>
      <4>1. v = served /\ ToSet(rows) = {}
        BY <2>4, <3>3 DEF Advanced, ToSet
      <4> QED BY <3>1, <3>2, <3>3, <4>1
    <3>4. CASE rows # <<>>
      <4>1. Len(rows) \in DOMAIN rows /\ v = rows[Len(rows)]
        BY <2>1, <2>4, <2>5, <3>4 DEF Advanced, Last
      <4>2. v \in ToSet(rows) /\ v \in Event
        BY <2>1, <4>1 DEF ToSet
      <4>3. \A e \in ToSet(rows) : Behind(e) \in Nat
        BY <1>7, <2>1 DEF Ranked, Standing
      <4>4. ASSUME NEW e \in ToSet(rows) PROVE Behind(e) <= Behind(v)
        <5>1. PICK k \in DOMAIN rows : rows[k] = e
          BY DEF ToSet
        <5>2. k = Len(rows) \/ k < Len(rows)
          BY <2>5
        <5> QED BY <2>1, <4>1, <4>2, <4>3, <5>1, <5>2
      <4>5. Standing(v) /\ Behind(v) > Behind(served)
        BY <2>1, <4>2
      <4> QED BY <3>2, <4>2, <4>3, <4>4, <4>5
    <3> QED BY <3>3, <3>4
  <2>8. TypeOK'
    <3>1. Len(w) <= MaxWire + 1
      BY <1>2, <2>4, <2>5, <2>6, BoundFacts
    <3> QED BY <1>1, <2>4, <2>6, <2>7, <2>12, <3>1 DEF StreamInv, TypeOK
  <2>9. Waiting'
    <3>1. v = NoEvent \/ Standing(v)'
      BY <1>4, <2>7
    <3>2. Len(w) <= MaxWire
      BY <2>4, <2>6
    <3> QED BY <1>1, <1>4, <2>12, <3>1, <3>2 DEF StreamInv, Waiting
  <2>10. Framed'
    <3> DEFINE n == Len(wire)
    <3>1. Behind(cursor) <= Behind(served) /\ Behind(cursor) \in Nat
      BY <1>1, <1>7 DEF StreamInv, Framed, Waiting, Ranked, Standing
    <3>2. ASSUME NEW k \in 1..n
          PROVE  /\ w[k] = wire[k] /\ Standing(wire[k]) /\ Visible(wire[k])
                 /\ Behind(cursor) < Behind(wire[k]) /\ Behind(wire[k]) <= Behind(served)
                 /\ Behind(wire[k]) \in Nat
                 /\ \A l \in 1..k - 1 : Behind(wire[l]) < Behind(wire[k]) /\ w[l] = wire[l]
      <4>1. k \in DOMAIN wire /\ wire[k] \in Event /\ wire[k] # Expired
        BY <1>2, <1>3, EventFacts
      <4>2. w[k] = wire[k] /\ \A l \in 1..k - 1 : w[l] = wire[l]
        <5>1. \A l \in 1..k : l \in 1..Len(wire) + Len(sent) /\ l <= Len(wire)
          BY <1>2, <2>5
        <5>2. k \in 1..k /\ \A l \in 1..k - 1 : l \in 1..k
          BY <1>2
        <5> QED BY <2>6, <5>1, <5>2
      <4>3. /\ Standing(wire[k]) /\ Visible(wire[k])
            /\ Behind(cursor) < Behind(wire[k]) /\ Behind(wire[k]) <= Behind(served)
            /\ \A l \in 1..k - 1 : Behind(wire[l]) < Behind(wire[k])
        BY <1>1, <4>1 DEF StreamInv, Framed
      <4> QED BY <1>7, <4>2, <4>3 DEF Standing, Ranked
    <3>3. ASSUME NEW k \in DOMAIN sent
          PROVE  /\ sent[k] \in Event /\ Standing(sent[k]) /\ Visible(sent[k])
                 /\ Behind(served) < Behind(sent[k]) /\ Behind(sent[k]) <= Behind(v)
                 /\ Behind(sent[k]) \in Nat
      <4>1. sent[k] \in ToSet(sent)
        BY DEF ToSet
      <4>2. sent[k] \in ToSet(rows) /\ Visible(sent[k])
        BY <2>3, <4>1
      <4>3. sent[k] \in Event /\ Standing(sent[k]) /\ Behind(sent[k]) > Behind(served)
        BY <2>1, <2>3, <4>2
      <4>4. Behind(sent[k]) \in Nat
        BY <1>7, <4>3 DEF Ranked, Standing
      <4> QED BY <2>7, <4>2, <4>3, <4>4
    <3>4. ASSUME NEW k \in 1..n + Len(sent)
          PROVE  /\ w[k] \in Event /\ Standing(w[k]) /\ Visible(w[k])
                 /\ Behind(cursor) < Behind(w[k]) /\ Behind(w[k]) <= Behind(v)
                 /\ \A l \in 1..k - 1 : Behind(w[l]) < Behind(w[k])
      <4>1. CASE k \in 1..n
        BY <1>2, <1>3, <2>7, <3>2, <4>1
      <4>2. CASE k \notin 1..n
        <5>1. k - n \in DOMAIN sent /\ w[k] = sent[k - n] /\ n \in Nat
          BY <1>2, <2>5, <2>6, <4>2
        <5>2. ASSUME NEW l \in 1..k - 1 PROVE Behind(w[l]) < Behind(w[k])
          <6>1. CASE l \in 1..n
            <7>1. Behind(w[l]) <= Behind(served) /\ Behind(w[l]) \in Nat
              BY <3>2, <6>1
            <7>2. Behind(served) < Behind(w[k]) /\ Behind(w[k]) \in Nat
              BY <3>3, <5>1
            <7> QED BY <2>7, <7>1, <7>2
          <6>2. CASE l \notin 1..n
            <7>1. /\ l - n \in DOMAIN sent /\ w[l] = sent[l - n] /\ l - n < k - n
              BY <1>2, <2>5, <2>6, <5>1, <6>2
            <7> QED BY <2>3, <5>1, <7>1
          <6> QED BY <6>1, <6>2
        <5> QED BY <2>7, <3>1, <3>3, <5>1, <5>2
      <4> QED BY <4>1, <4>2
    <3>5. ASSUME NEW k \in DOMAIN w
          PROVE  /\ w[k] # Expired /\ Standing(w[k])' /\ Visible(w[k])'
                 /\ Behind(cursor) < Behind(w[k]) /\ Behind(w[k]) <= Behind(v)
                 /\ \A l \in 1..k - 1 : Behind(w[l]) < Behind(w[k])
      BY <1>4, <1>5, <2>6, <3>4, EventFacts
    <3>6. Behind(cursor) <= Behind(v)
      BY <2>7, <3>1
    <3> QED BY <1>1, <1>4, <2>12, <3>5, <3>6 DEF Framed
  <2>11. Accounted'
    <3>1. ToSet(wire) \subseteq ToSet(w) /\ ToSet(sent) \subseteq ToSet(w)
      <4>1. ASSUME NEW k \in DOMAIN wire PROVE wire[k] \in ToSet(w)
        <5>1. k \in DOMAIN w /\ w[k] = wire[k]
          BY <1>2, <2>5, <2>6
        <5> QED BY <5>1 DEF ToSet
      <4>2. ASSUME NEW k \in DOMAIN sent PROVE sent[k] \in ToSet(w)
        <5>1. k + Len(wire) \in DOMAIN w /\ ~ (k + Len(wire) <= Len(wire)) /\ (k + Len(wire)) - Len(wire) = k
          BY <1>2, <2>5, <2>6
        <5>2. w[k + Len(wire)] = sent[k]
          BY <2>6, <5>1
        <5> QED BY <5>1, <5>2 DEF ToSet
      <4> QED BY <4>1, <4>2 DEF ToSet
    <3>2. ASSUME NEW e \in ToSet(log), Committed(e), Visible(e), Behind(e) <= Behind(v)
          PROVE  e \in seen \cup late \cup ToSet(w)
      <4>1. Behind(e) \in Nat
        BY <1>7 DEF Ranked
      <4>2. CASE Behind(e) <= Behind(served)
        BY <1>1, <3>1, <3>2, <4>2 DEF StreamInv, Accounted
      <4>3. CASE ~ (Behind(e) <= Behind(served))
        <5>1. v \in ToSet(rows) /\ Behind(e) > Behind(served)
          BY <2>7, <3>2, <4>1, <4>3
        <5>2. e \in ToSet(sent)
          BY <2>1, <2>3, <3>2, <5>1
        <5> QED BY <3>1, <5>2
      <4> QED BY <4>2, <4>3
    <3>3. \A c : Committed(c)' <=> Committed(c)
      BY <1>1 DEF Committed
    <3> QED BY <1>1, <1>4, <1>5, <2>12, <3>2, <3>3 DEF Accounted
  <2> QED BY <1>6, <2>8, <2>9, <2>10, <2>11 DEF StreamInv
<1> QED BY <1>8, <1>9

-----------------------------------------------------------------------------
\* Nothing the stream is about changes.
LEMMA QuietKeeps ==
  ASSUME StreamInv, TypeOK',
         UNCHANGED <<facts, head, log, surface, conn, page, server, wire, cursor, seen, late>>
  PROVE  StreamInv'
<1>1. UNCHANGED <<facts, head, log, surface, conn, page, served, ended, wire, cursor, seen, late>>
  BY DEF server
<1>2. \A c : /\ Behind(c)' = Behind(c) /\ Position(c)' = Position(c)
             /\ Committed(c)' <=> Committed(c)
             /\ Standing(c)' <=> Standing(c)
             /\ Visible(c)' <=> Visible(c)
  BY <1>1 DEF Behind, Position, Standing, Committed, Visible, KindOf
<1>3. Logged' /\ Waiting' /\ NoSilentGap'
  BY <1>1, <1>2 DEF StreamInv, Logged, Waiting, NoSilentGap
<1>4. Framed' /\ Accounted'
  BY <1>1, <1>2 DEF StreamInv, Framed, Accounted
<1> QED BY <1>3, <1>4 DEF StreamInv

\* The connection is gone, and what was on its way with it: the cursor stays,
\* or the next connection starts with none.
LEMMA DownKeeps ==
  ASSUME StreamInv, UNCHANGED <<outbox, surface, served>>, conn' = "down", wire' = <<>>,
         (cursor' = cursor /\ UNCHANGED <<seen, late>>) \/ cursor' = NoEvent
  PROVE  Logged' /\ Waiting' /\ Framed' /\ Accounted' /\ NoSilentGap'
<1>1. UNCHANGED <<facts, head, log, surface, served>>
  BY DEF outbox
<1>2. \A c : /\ Behind(c)' = Behind(c) /\ Position(c)' = Position(c)
             /\ Committed(c)' <=> Committed(c)
             /\ Standing(c)' <=> Standing(c)
             /\ Visible(c)' <=> Visible(c)
  BY <1>1 DEF Behind, Position, Standing, Committed, Visible, KindOf
<1>3. Logged' /\ Waiting' /\ Framed' /\ Accounted'
  BY <1>1, <1>2 DEF StreamInv, Logged, Waiting, Framed, Accounted
<1>4. Ranked
  BY BehindFacts DEF StreamInv, TypeOK, Tidy
<1>5. NoSilentGap'
  <2>1. CASE cursor' = cursor /\ UNCHANGED <<seen, late>>
    BY <1>1, <1>2, <2>1 DEF StreamInv, NoSilentGap
  <2>2. CASE cursor' = NoEvent
    <3>1. \A e \in ToSet(log) : ~ (Position(e) <= Behind(NoEvent))
      BY <1>4 DEF Ranked
    <3> QED BY <1>1, <1>2, <2>2, <3>1 DEF NoSilentGap
  <2> QED BY <2>1, <2>2
<1> QED BY <1>3, <1>5

LEMMA ConnectKeeps ==
  ASSUME StreamInv, Connect
  PROVE  StreamInv'
<1>1. /\ page = "up" /\ conn = "down" /\ conn' = "open" /\ served' = cursor /\ ended' = FALSE
      /\ UNCHANGED <<clock, facts, head, log, at, surface, page, wire, cursor, screen, fetches,
                     drops, seen, told, late>>
  BY DEF Connect, outbox
<1>2. wire = <<>> /\ DOMAIN <<>> = {} /\ Len(<<>>) = 0 /\ ToSet(<<>>) = {}
  BY <1>1 DEF StreamInv, Waiting, ToSet
<1>3. TypeOK'
  BY <1>1 DEF StreamInv, TypeOK
<1>4. \A c : /\ Behind(c)' = Behind(c) /\ Position(c)' = Position(c)
             /\ Committed(c)' <=> Committed(c)
             /\ Standing(c)' <=> Standing(c)
             /\ Visible(c)' <=> Visible(c)
  BY <1>1 DEF Behind, Position, Standing, Committed, Visible, KindOf
<1>5. Ranked
  BY BehindFacts DEF StreamInv, TypeOK, Tidy
<1>6. Logged' /\ NoSilentGap'
  BY <1>1, <1>4 DEF StreamInv, Logged, NoSilentGap
<1>7. Waiting'
  BY <1>1, <1>2, <1>4, BoundFacts DEF StreamInv, Waiting
<1>8. Behind(cursor) \in Nat
  BY <1>5 DEF StreamInv, Waiting, Standing, Ranked
<1>9. Framed'
  BY <1>1, <1>2, <1>4, <1>8 DEF Framed
<1>10. Accounted'
  <2>1. \A e \in ToSet(log) : Behind(e) = Position(e)
    BY <1>5 DEF Ranked
  <2> QED BY <1>1, <1>4, <2>1 DEF StreamInv, NoSilentGap, Accounted
<1> QED BY <1>3, <1>6, <1>7, <1>9, <1>10 DEF StreamInv

\* The client takes the first frame off the wire: the cursor moves past it.
LEMMA HandleKeeps ==
  ASSUME StreamInv, Handle
  PROVE  StreamInv'
<1>0. PICK e : e = Head(wire)
  OBVIOUS
<1>1. /\ page = "up" /\ conn = "open" /\ wire # <<>> /\ e # Expired
      /\ cursor' = e /\ seen' = seen \cup {e} /\ wire' = Tail(wire)
      /\ screen' = screen \/ screen' = [screen EXCEPT ![e[1]] = Patched(e)]
      /\ fetches' = fetches \/ fetches' = Append(fetches, Unread)
      /\ UNCHANGED <<clock, facts, head, log, at, surface, page, conn, drops, served, ended, told, late>>
  BY <1>0 DEF Handle, NextCursor, Fetched, outbox, server
<1>2. /\ Len(wire) \in Nat \ {0} /\ DOMAIN wire = 1..Len(wire)
      /\ wire[1] = e /\ e \in Event \cup {Expired} /\ e \in ToSet(wire)
      /\ Tail(wire) \in Seq(Event \cup {Expired}) /\ Len(Tail(wire)) = Len(wire) - 1
      /\ DOMAIN Tail(wire) = 1..Len(wire) - 1
      /\ \A i \in 1..Len(wire) - 1 : Tail(wire)[i] = wire[i + 1]
      /\ ToSet(wire) = ToSet(Tail(wire)) \cup {e}
  <2>1. wire \in Seq(Event \cup {Expired})
    BY DEF StreamInv, TypeOK
  <2> QED BY <1>0, <1>1, <2>1, TailFacts
<1>3. /\ e \in Event /\ Standing(e) /\ Visible(e)
      /\ Behind(cursor) < Behind(e) /\ Behind(e) <= Behind(served)
  <2>1. 1 \in DOMAIN wire /\ wire[1] # Expired
    BY <1>1, <1>2
  <2> QED BY <1>1, <1>2, <2>1 DEF StreamInv, Framed
<1>4. \A c : /\ Behind(c)' = Behind(c) /\ Position(c)' = Position(c)
             /\ Committed(c)' <=> Committed(c)
             /\ Standing(c)' <=> Standing(c)
             /\ Visible(c)' <=> Visible(c)
  BY <1>1 DEF Behind, Position, Standing, Committed, Visible, KindOf
<1>5. Ranked
  BY BehindFacts DEF StreamInv, TypeOK, Tidy
<1>6. TypeOK'
  <2>1. screen' \in [Match -> [version : 0..MaxFacts, state : State]]
    <3>1. e[1] \in Match /\ screen \in [Match -> [version : 0..MaxFacts, state : State]]
      BY <1>3, EventFacts DEF StreamInv, TypeOK
    <3>2. Version(e) \in 0..MaxFacts
      BY <1>3, ShownFacts
    <3>3. Patched(e) \in [version : 0..MaxFacts, state : State]
      BY <3>1, <3>2 DEF Patched, State
    <3> QED BY <1>1, <3>1, <3>3
  <2>2. fetches' \in Seq([Match -> 0..MaxFacts] \cup {Unread})
    <3>1. fetches \in Seq([Match -> 0..MaxFacts] \cup {Unread}) /\ Unread \in [Match -> 0..MaxFacts] \cup {Unread}
      BY DEF StreamInv, TypeOK
    <3> QED BY <1>1, <3>1, AppendProperties
  <2>3. Len(Tail(wire)) <= MaxWire + 1
    BY <1>2, BoundFacts DEF StreamInv, TypeOK
  <2> QED BY <1>1, <1>2, <1>3, <2>1, <2>2, <2>3 DEF StreamInv, TypeOK
<1>7. Logged'
  BY <1>1 DEF StreamInv, Logged
<1>8. Waiting'
  <2>1. ~ ended => Len(Tail(wire)) <= MaxWire
    BY <1>1, <1>2, BoundFacts DEF StreamInv, Waiting
  <2> QED BY <1>1, <1>3, <1>4, <2>1 DEF StreamInv, Waiting
<1>9. ASSUME NEW k \in 1..Len(wire) - 1
      PROVE  /\ k + 1 \in DOMAIN wire /\ Tail(wire)[k] = wire[k + 1]
             /\ wire[k + 1] # Expired => Behind(e) < Behind(wire[k + 1])
             /\ \A l \in 1..k - 1 : l + 1 \in 1..(k + 1) - 1 /\ Tail(wire)[l] = wire[l + 1]
  <2>1. k + 1 \in DOMAIN wire /\ 1 \in 1..(k + 1) - 1
    BY <1>2
  <2>2. wire[k + 1] # Expired => Behind(e) < Behind(wire[k + 1])
    <3>1. wire[k + 1] # Expired => \A i \in 1..(k + 1) - 1 : Behind(wire[i]) < Behind(wire[k + 1])
      BY <1>1, <2>1 DEF StreamInv, Framed
    <3> QED BY <1>2, <2>1, <3>1
  <2>3. \A l \in 1..k - 1 : l + 1 \in 1..(k + 1) - 1 /\ l \in 1..Len(wire) - 1
    BY <1>2
  <2>4. Tail(wire)[k] = wire[k + 1] /\ \A l \in 1..k - 1 : Tail(wire)[l] = wire[l + 1]
    BY <1>2, <2>3
  <2> QED BY <2>1, <2>2, <2>3, <2>4
<1>10. Framed'
  <2>1. ASSUME NEW k \in DOMAIN Tail(wire)
        PROVE  /\ Tail(wire)[k] = Expired => ended /\ k = Len(Tail(wire))
               /\ Tail(wire)[k] # Expired =>
                    /\ Standing(Tail(wire)[k]) /\ Visible(Tail(wire)[k])
                    /\ Behind(e) < Behind(Tail(wire)[k]) /\ Behind(Tail(wire)[k]) <= Behind(served)
                    /\ \A l \in 1..k - 1 : Behind(Tail(wire)[l]) < Behind(Tail(wire)[k])
    <3>1. k \in 1..Len(wire) - 1
      BY <1>2
    <3>2. k + 1 = Len(wire) => k = Len(Tail(wire))
      <4>1. Len(wire) \in Int /\ k \in Int /\ Len(Tail(wire)) = Len(wire) - 1
        BY <1>2, <3>1
      <4> QED BY <4>1
    <3> QED BY <1>1, <1>9, <3>1, <3>2 DEF StreamInv, Framed
  <2> QED BY <1>1, <1>3, <1>4, <2>1 DEF Framed
<1>11. Accounted'
  BY <1>1, <1>2, <1>4 DEF StreamInv, Accounted
<1>12. NoSilentGap'
  <2>1. ASSUME NEW f \in ToSet(log), Committed(f), Visible(f), Position(f) <= Behind(e)
        PROVE  f \in seen' \cup late
    <3>1. /\ Behind(f) = Position(f) /\ Behind(f) \in Nat /\ f \in Event
          /\ Behind(e) \in Nat /\ Behind(served) \in Nat
      BY <1>3, <1>5 DEF Ranked, Standing, StreamInv, Waiting
    <3>2. f \in seen \cup late \cup ToSet(wire)
      BY <1>1, <1>3, <2>1, <3>1 DEF StreamInv, Accounted
    <3>3. f \notin ToSet(Tail(wire))
      <4>1. SUFFICES ASSUME f \in ToSet(Tail(wire)) PROVE FALSE
        OBVIOUS
      <4>2. PICK k \in 1..Len(wire) - 1 : Tail(wire)[k] = f
        BY <1>2, <4>1 DEF ToSet
      <4>3. Behind(e) < Behind(f)
        BY <1>9, <3>1, <4>2, EventFacts
      <4> QED BY <2>1, <3>1, <4>3
    <3> QED BY <1>1, <1>2, <3>2, <3>3
  <2> QED BY <1>1, <1>4, <2>1 DEF NoSilentGap
<1> QED BY <1>6, <1>7, <1>8, <1>10, <1>11, <1>12 DEF StreamInv

\* The cursor has expired: a public page goes, the console reads on.
LEMMA ProjectionRequiredKeeps ==
  ASSUME StreamInv, ProjectionRequired
  PROVE  StreamInv'
<1>1. /\ page = "up" /\ conn = "open" /\ wire # <<>> /\ Head(wire) = Expired
      /\ fetches' = fetches \/ fetches' = Append(fetches, Unread)
      /\ UNCHANGED <<clock, facts, head, log, at, surface, cursor, screen, drops, served, ended,
                     seen, told, late>>
  BY DEF ProjectionRequired, Fetched, outbox, server
<1>2. /\ Len(wire) \in Nat \ {0} /\ DOMAIN wire = 1..Len(wire) /\ wire[1] = Expired
      /\ Tail(wire) \in Seq(Event \cup {Expired}) /\ Len(Tail(wire)) = Len(wire) - 1
      /\ ToSet(wire) = ToSet(Tail(wire)) \cup {Expired}
  <2>1. wire \in Seq(Event \cup {Expired})
    BY DEF StreamInv, TypeOK
  <2> QED BY <1>1, <2>1, TailFacts
<1>3. fetches' \in Seq([Match -> 0..MaxFacts] \cup {Unread})
  <2>1. fetches \in Seq([Match -> 0..MaxFacts] \cup {Unread}) /\ Unread \in [Match -> 0..MaxFacts] \cup {Unread}
    BY DEF StreamInv, TypeOK
  <2> QED BY <1>1, <2>1, AppendProperties
<1>4. CASE surface = "console"
  <2>1. wire' = Tail(wire) /\ UNCHANGED <<page, conn>>
    BY <1>4 DEF ProjectionRequired
  <2>2. Len(wire) = 1 /\ ended
    <3>1. 1 \in DOMAIN wire
      BY <1>2
    <3> QED BY <1>1, <1>2, <3>1 DEF StreamInv, Framed
  <2>3. /\ wire' \in Seq(Event \cup {Expired}) /\ Len(wire') = 0
        /\ DOMAIN wire' = {}
    <3>1. Len(wire') = 0 /\ wire' \in Seq(Event \cup {Expired})
      BY <1>2, <2>1, <2>2
    <3>2. DOMAIN wire' = 1..0
      BY <3>1, LenProperties
    <3> QED BY <3>1, <3>2
  <2>4. TypeOK'
    BY <1>1, <1>3, <2>1, <2>3, BoundFacts DEF StreamInv, TypeOK
  <2>5. \A c : /\ Behind(c)' = Behind(c) /\ Position(c)' = Position(c)
               /\ Committed(c)' <=> Committed(c)
               /\ Standing(c)' <=> Standing(c)
               /\ Visible(c)' <=> Visible(c)
    BY <1>1 DEF Behind, Position, Standing, Committed, Visible, KindOf
  <2>6. Logged' /\ NoSilentGap'
    BY <1>1, <2>5 DEF StreamInv, Logged, NoSilentGap
  <2>7. Waiting' /\ Framed'
    BY <1>1, <2>1, <2>2, <2>3, <2>5 DEF StreamInv, Waiting, Framed
  <2>8. Accounted'
    <3>1. \A e \in ToSet(log) : e \in Event /\ e # Expired
      BY BehindFacts, EventFacts DEF StreamInv, TypeOK, Tidy, Ranked
    <3> QED BY <1>1, <1>2, <2>1, <2>5, <3>1 DEF StreamInv, Accounted
  <2> QED BY <2>4, <2>6, <2>7, <2>8 DEF StreamInv
<1>5. CASE surface # "console"
  <2>1. page' = "reloading" /\ conn' = "down" /\ wire' = <<>>
    BY <1>5 DEF ProjectionRequired
  <2>2. wire' \in Seq(Event \cup {Expired}) /\ Len(wire') = 0
    BY <2>1
  <2>3. TypeOK'
    BY <1>1, <1>3, <2>1, <2>2, BoundFacts DEF StreamInv, TypeOK
  <2>4. Logged' /\ Waiting' /\ Framed' /\ Accounted' /\ NoSilentGap'
    BY <1>1, <2>1, DownKeeps DEF outbox
  <2> QED BY <2>3, <2>4 DEF StreamInv
<1> QED BY <1>4, <1>5

\* The connection ends, and the page loads.
LEMMA DownTypes ==
  ASSUME StreamInv, UNCHANGED <<outbox, surface, server, fetches>>, conn' = "down", wire' = <<>>,
         cursor' \in {cursor, NoEvent}, page' \in {"up", "reloading"}, drops' \in 0..MaxDrops,
         screen' \in [Match -> [version : 0..MaxFacts, state : State]],
         told' \in [Match -> 0..MaxFacts], seen' \in SUBSET Event, late' \in SUBSET Event
  PROVE  TypeOK'
<1>1. wire' \in Seq(Event \cup {Expired}) /\ Len(wire') = 0
  OBVIOUS
<1> QED BY <1>1, BoundFacts DEF StreamInv, TypeOK, outbox, server

LEMMA ClosedKeeps ==
  ASSUME StreamInv, Closed
  PROVE  StreamInv'
<1>1. /\ conn' = "down" /\ wire' = <<>> /\ cursor' = cursor
      /\ UNCHANGED <<outbox, surface, server, page, screen, fetches, drops, seen, told, late>>
  BY DEF Closed
<1>2. TypeOK'
  BY <1>1, DownTypes DEF StreamInv, TypeOK
<1>3. Logged' /\ Waiting' /\ Framed' /\ Accounted' /\ NoSilentGap'
  BY <1>1, DownKeeps DEF server
<1> QED BY <1>2, <1>3 DEF StreamInv

LEMMA DropKeeps ==
  ASSUME StreamInv, Drop \/ Reopen
  PROVE  StreamInv'
<1>1. /\ conn' = "down" /\ wire' = <<>> /\ cursor' \in {cursor, NoEvent}
      /\ drops < MaxDrops /\ drops' = drops + 1
      /\ UNCHANGED <<outbox, surface, server, page, screen, fetches, seen, told, late>>
  BY DEF Drop, Reopen
<1>2. drops' \in 0..MaxDrops
  BY <1>1, BoundFacts DEF StreamInv, TypeOK
<1>3. TypeOK'
  BY <1>1, <1>2, DownTypes DEF StreamInv, TypeOK
<1>4. Logged' /\ Waiting' /\ Framed' /\ Accounted' /\ NoSilentGap'
  BY <1>1, DownKeeps DEF server
<1> QED BY <1>3, <1>4 DEF StreamInv

LEMMA LoadKeeps ==
  ASSUME StreamInv, Load
  PROVE  StreamInv'
<1>1. /\ page = "reloading" /\ page' = "up" /\ cursor' = NoEvent
      /\ screen' = Rendered(head) /\ told' = head /\ seen' = {} /\ late' = {}
      /\ UNCHANGED <<outbox, surface, server, conn, wire, fetches, drops>>
  BY DEF Load
<1>2. conn' = "down" /\ wire' = <<>>
  BY <1>1 DEF StreamInv, Waiting
<1>3. head \in [Match -> 0..MaxFacts] /\ drops \in 0..MaxDrops
  BY DEF StreamInv, TypeOK
<1>4. screen' \in [Match -> [version : 0..MaxFacts, state : State]]
  BY <1>1, <1>3, ShownFacts
<1>5. TypeOK'
  BY <1>1, <1>2, <1>3, <1>4, DownTypes
<1>6. Logged' /\ Waiting' /\ Framed' /\ Accounted' /\ NoSilentGap'
  BY <1>1, <1>2, DownKeeps DEF server
<1> QED BY <1>5, <1>6 DEF StreamInv

\* The console's fetches.
LEMMA AnswerKeeps ==
  ASSUME StreamInv, NEW i \in DOMAIN fetches, Answer(i) \/ Arrive(i)
  PROVE  StreamInv'
<1> DEFINE Page == [Match -> 0..MaxFacts] \cup {Unread}
<1>1. fetches \in Seq(Page) /\ fetches[i] \in Page /\ head \in [Match -> 0..MaxFacts]
  <2>1. fetches \in Seq(Page) /\ head \in [Match -> 0..MaxFacts]
    BY DEF StreamInv, TypeOK
  <2> QED BY <2>1, LenProperties
<1>2. UNCHANGED <<outbox, surface, server, page, conn, wire, cursor, drops, seen, late>>
  BY DEF Answer, Arrive
<1>3. CASE Answer(i)
  <2>1. fetches' = [fetches EXCEPT ![i] = head] /\ UNCHANGED <<screen, told>>
    BY <1>3 DEF Answer
  <2>2. fetches' \in Seq(Page)
    <3>1. head \in Page
      BY <1>1
    <3> QED BY <1>1, <2>1, <3>1, ExceptSeq
  <2>3. TypeOK'
    BY <1>2, <2>1, <2>2 DEF StreamInv, TypeOK, outbox, server
  <2> QED BY <1>2, <2>3, QuietKeeps DEF outbox
<1>4. CASE Arrive(i)
  <2>1. /\ fetches[i] # Unread /\ screen' = Rendered(fetches[i]) /\ told' = fetches[i]
        /\ fetches' = RemoveAt(fetches, i)
    BY <1>4 DEF Arrive
  <2>2. fetches' \in Seq(Page)
    BY <1>1, <2>1, RemoveFacts
  <2>3. fetches[i] \in [Match -> 0..MaxFacts]
    BY <1>1, <2>1
  <2>4. screen' \in [Match -> [version : 0..MaxFacts, state : State]]
    BY <2>1, <2>3, ShownFacts
  <2>5. TypeOK'
    BY <1>2, <2>1, <2>2, <2>3, <2>4 DEF StreamInv, TypeOK, outbox, server
  <2> QED BY <1>2, <2>5, QuietKeeps DEF outbox
<1> QED BY <1>3, <1>4

LEMMA StreamInvInit == Init => StreamInv
<1> SUFFICES ASSUME Init PROVE StreamInv
  OBVIOUS
<1>1. DOMAIN <<>> = {} /\ Len(<<>>) = 0 /\ ToSet(<<>>) = {} /\ \A S : <<>> \in Seq(S)
  BY DEF ToSet
<1>2. IsInjective(<<>>)
  BY <1>1 DEF IsInjective
<1>3. TypeOK
  <2>1. /\ facts \in [Match -> Seq(Kind)] /\ head \in [Match -> 0..MaxFacts]
        /\ \A m \in Match : Len(facts[m]) <= MaxFacts /\ head[m] \in {Len(facts[m]) - 1, Len(facts[m])}
    BY <1>1, BoundFacts DEF Init, None
  <2>2. log \in Seq(Event) /\ IsInjective(log) /\ at \in [Event -> 0..MaxClock + Skew]
    BY <1>1, <1>2, BoundFacts DEF Init
  <2>3. /\ wire \in Seq(Event \cup {Expired}) /\ Len(wire) <= MaxWire + 1
        /\ fetches \in Seq([Match -> 0..MaxFacts] \cup {Unread})
    <3>1. <<Unread>> \in Seq([Match -> 0..MaxFacts] \cup {Unread})
      OBVIOUS
    <3>2. fetches \in Seq([Match -> 0..MaxFacts] \cup {Unread})
      BY <1>1, <3>1 DEF Init
    <3>3. Len(wire) = 0
      BY <1>1 DEF Init
    <3>4. 0 <= MaxWire + 1
      BY BoundFacts
    <3> QED BY <1>1, <3>2, <3>3, <3>4 DEF Init
  <2>4. /\ screen \in [Match -> [version : 0..MaxFacts, state : State]]
        /\ told \in [Match -> 0..MaxFacts]
    BY BoundFacts DEF Init, None, State
  <2>5. /\ clock \in 0..MaxClock /\ drops \in 0..MaxDrops /\ surface \in Surface
        /\ page \in {"up", "reloading"} /\ conn \in {"down", "open"} /\ ended \in BOOLEAN
        /\ {served, cursor} \subseteq Event \cup {NoEvent}
        /\ {seen, late} \subseteq SUBSET Event
    <3>1. clock \in 0..MaxClock /\ drops \in 0..MaxDrops
      BY BoundFacts DEF Init
    <3>2. surface \in Surface /\ page \in {"up", "reloading"} /\ conn \in {"down", "open"} /\ ended \in BOOLEAN
      BY DEF Init
    <3>3. {served, cursor} \subseteq Event \cup {NoEvent}
      BY DEF Init
    <3>4. {seen, late} \subseteq SUBSET Event
      BY DEF Init
    <3> QED BY <3>1, <3>2, <3>3, <3>4
  <2> QED BY <2>1, <2>2, <2>3, <2>4, <2>5 DEF TypeOK
<1>4. Logged
  <2>1. \A e \in Event : ~ (e[2] <= Len(facts[e[1]]))
    <3>1. \A e \in Event : e[1] \in Match /\ e[2] \in 1..MaxFacts
      BY EventFacts
    <3> QED BY <1>1, <3>1, BoundFacts DEF Init
  <2> QED BY <1>1, <2>1 DEF Init, Logged
<1>5. Waiting /\ Framed /\ Accounted /\ NoSilentGap
  BY <1>1 DEF Init, Waiting, Framed, Accounted, NoSilentGap
<1> QED BY <1>3, <1>4, <1>5 DEF StreamInv

LEMMA StreamInvNext == StreamInv /\ [Next]_vars => StreamInv'
<1> SUFFICES ASSUME StreamInv, [Next]_vars PROVE StreamInv'
  OBVIOUS
<1>1. ASSUME NEW m \in Match, (\E k \in Kind : Publish(m, k)) \/ Commit(m) \/ Rollback(m)
      PROVE  StreamInv'
  BY <1>1, PublishKeeps, CommitKeeps, RollbackKeeps
<1>2. CASE Tick
  <2>1. clock' \in 0..MaxClock
    BY <1>2, BoundFacts DEF StreamInv, TypeOK, Tick
  <2>2. TypeOK'
    BY <1>2, <2>1 DEF StreamInv, TypeOK, Tick, server, client
  <2> QED BY <1>2, <2>2, QuietKeeps DEF Tick, client
<1>3. CASE Poll
  BY <1>3, PollKeeps
<1>4. CASE Connect \/ Handle \/ ProjectionRequired \/ Closed \/ Load \/ Drop \/ Reopen
  BY <1>4, ConnectKeeps, HandleKeeps, ProjectionRequiredKeeps, ClosedKeeps, LoadKeeps, DropKeeps
<1>5. ASSUME NEW i \in DOMAIN fetches, Answer(i) \/ Arrive(i)
      PROVE  StreamInv'
  BY <1>5, AnswerKeeps
<1>6. CASE UNCHANGED vars
  <2>1. TypeOK'
    BY <1>6 DEF StreamInv, TypeOK, vars, outbox, server, client
  <2> QED BY <1>6, <2>1, QuietKeeps DEF vars, outbox, server, client
<1> QED BY <1>1, <1>2, <1>3, <1>4, <1>5, <1>6 DEF Next

\* The stream's variables keep their types: no fetch answers less than what
\* was committed, and the socket holds no more than its bound and the last frame.
THEOREM StreamTypes == Spec => []TypeOK
<1>1. StreamInv => TypeOK
  BY DEF StreamInv
<1> QED BY <1>1, StreamInvInit, StreamInvNext, PTL DEF Spec

\* No committed row before the client's cursor was left out unless its stamp
\* lay behind what the stream had been read past, whatever the batches, the
\* clocks' skew, and the reconnections.
THEOREM NoSilentGaps == Spec => []NoSilentGap
<1>1. StreamInv => NoSilentGap
  BY DEF StreamInv
<1> QED BY <1>1, StreamInvInit, StreamInvNext, PTL DEF Spec
=================================================================================
