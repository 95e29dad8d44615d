------------------------------ MODULE RoundPairing ------------------------------
(***************************************************************************)
(* The tournament engine's pairings, as functions of who is seeded where   *)
(* and of the fixtures there are: the first round of a bracket or of a     *)
(* Swiss stage, and the next round of a Swiss stage.  An entrant is its    *)
(* number in the order of registration; a pair is <<home, away>>, and      *)
(* nobody is 0.  Points are counted double, so that a draw is 1.           *)
(***************************************************************************)
EXTENDS Integers, Sequences, SequencesExt, FiniteSets, Selection

Nobody    == 0
NoPairing == << <<Nobody, Nobody>> >>

\* A bracket's slots twice as many: each seed is followed by the one it meets.
Doubled(order) ==
  [i \in 1..2 * Len(order) |->
     IF i % 2 = 1 THEN order[(i + 1) \div 2] ELSE 2 * Len(order) + 1 - order[i \div 2]]
slotOrder[k \in Nat] == IF k = 0 THEN <<1>> ELSE Doubled(slotOrder[k - 1])

\* The seeds of the slots, the first power of two that is not below n of them.
seedSlotOrder(n) ==
  slotOrder[CHOOSE k \in 0..n : /\ Len(slotOrder[k]) >= n
                               /\ \A j \in 0..k - 1 : Len(slotOrder[j]) < n]

\* buildEliminationTree's first round: a slot whose seed nobody has is a bye.
TreeRound(ids) ==
  LET order   == seedSlotOrder(Len(ids))
      slot(i) == IF order[i] <= Len(ids) THEN ids[order[i]] ELSE Nobody
  IN [i \in 1..Len(order) \div 2 |-> <<slot(2 * i - 1), slot(2 * i)>>]

\* generateSwissRound1: top half against bottom half, the last of an odd field
\* has a bye.
SwissRound(ids) ==
  LET half == Len(ids) \div 2 IN
  [i \in 1..half |-> <<ids[i], ids[half + i]>>]
    \o IF Len(ids) % 2 = 1 THEN << <<Last(ids), Nobody>> >> ELSE <<>>
-----------------------------------------------------------------------------
\* Mutants: only the fixtures at home count as meetings, and any fixture of one
\* of the two does.
MetAtHome(fs, d, e) == \E i \in DOMAIN fs : fs[i].home = d /\ fs[i].away = e
MetEither(fs, d, e) == \E i \in DOMAIN fs : {fs[i].home, fs[i].away} \cap {d, e} # {}

\* What generateNextSwissRoundFixtures reads off the fixtures and the outcomes.
Met(fs, d, e) == \E i \in DOMAIN fs : {fs[i].home, fs[i].away} = {d, e}
HadBye(fs, e) == \E i \in DOMAIN fs : fs[i].home = e /\ fs[i].away = Nobody

Score(fs, outcomes, e) ==
  LET final == {i \in DOMAIN outcomes : outcomes[i].status = "finalized"} IN
  2 * Cardinality({i \in final : outcomes[i].winner = e})
    + Cardinality({i \in final : /\ outcomes[i].winner = Nobody
                                 /\ e \in {outcomes[i].home, outcomes[i].away}})
    + 2 * Cardinality({i \in DOMAIN fs : fs[i].home = e /\ fs[i].away = Nobody})

\* The opponents' scores, added up by counting.
Buchholz(fs, score, e) ==
  LET opponent(i) == IF fs[i].home = e THEN fs[i].away ELSE fs[i].home
      games == {i \in DOMAIN fs : e \in {fs[i].home, fs[i].away} /\ fs[i].away # Nobody}
  IN Cardinality(UNION {{i} \X (1..score[opponent(i)]) : i \in games})

\* allocateSwissBye: the lowest score, then the lowest seed, among those who had
\* none if there are any.
ByeOf(seed, score, fs) ==
  LET fresh == {e \in DOMAIN seed : ~HadBye(fs, e)}
      pool  == IF fresh = {} THEN DOMAIN seed ELSE fresh
  IN IF Cardinality(DOMAIN seed) % 2 = 0 THEN Nobody
     ELSE CHOOSE e \in pool : \A d \in pool \ {e} :
            score[e] < score[d] \/ (score[e] = score[d] /\ seed[e] > seed[d])

\* Who is above whom when pairSwissRound has sorted the players S.
Standings(S, seed, score, tie) ==
  LET Above(a, b) == \/ score[a] > score[b]
                     \/ score[a] = score[b] /\ tie[a] > tie[b]
                     \/ score[a] = score[b] /\ tie[a] = tie[b] /\ seed[a] < seed[b]
  IN {pair \in S \X S : Above(pair[1], pair[2])}

\* solveSwissPairings: the first of those who remain ...
First(S, above) == CHOOSE e \in S : \A d \in S : <<d, e>> \notin above

\* ... meets one it has not met, who leaves the others a pairing ...
Open(S, first, fs, solved) ==
  {e \in S \ {first} : ~Met(fs, first, e) /\ solved[S \ {first, e}] # NoPairing}

\* ... of these the nearest in score, of them the one in the middle of its own
\* score, or else the better seed.
Apart(m, n) == IF m < n THEN n - m ELSE m - n
Nearest(open, first, score) ==
  {e \in open : \A d \in open : Apart(score[first], score[e]) <= Apart(score[first], score[d])}
Middle(same, above) ==
  {e \in same : Cardinality({d \in same : <<d, e>> \in above}) = (Cardinality(same) + 1) \div 2}
Choice(S, first, open, above, score, seed) ==
  LET near   == Nearest(open, first, score)
      middle == near \cap Middle({e \in S : score[e] = score[first]}, above)
      best   == IF middle = {} THEN near ELSE middle
  IN CHOOSE e \in best : \A d \in best : seed[e] <= seed[d]

\* The pairing of S, given those of fewer players.
Solution(S, above, fs, score, seed, solved) ==
  LET first  == First(S, above)
      open   == Open(S, first, fs, solved)
      second == Choice(S, first, open, above, score, seed)
  IN IF S = {} THEN <<>>
     ELSE IF open = {} THEN NoPairing
     ELSE << <<first, second>> >> \o solved[S \ {first, second}]

Solve(S, above, fs, score, seed) ==
  LET solved[T \in SUBSET S] == Solution(T, above, fs, score, seed, solved)
  IN solved[S]

\* The next Swiss round of the entrants, by their seeds.
NextSwissRound(seed, fs, outcomes) ==
  LET score == [e \in DOMAIN seed |-> Score(fs, outcomes, e)]
      tie   == [e \in DOMAIN score |-> Buchholz(fs, score, e)]
      bye   == ByeOf(seed, score, fs)
      players == DOMAIN seed \ {bye}
      above == Standings(players, seed, score, tie)
      pairs == Solve(players, above, fs, score, seed)
  IN IF pairs = NoPairing \/ bye = Nobody THEN pairs ELSE Append(pairs, <<bye, Nobody>>)
=============================================================================
