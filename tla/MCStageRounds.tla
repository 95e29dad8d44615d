---- MODULE MCStageRounds ----
\* Organizers' sessions are interchangeable, and the safety properties say
\* nothing of a particular one.
EXTENDS StageRounds, TLC
Sessions == Permutations(Request)

\* Four entrants: a bracket to its end or two Swiss rounds, draws and loaded
\* results.  Five: three Swiss rounds, of those who have an opponent.  From six
\* on, where requests come one after another: two rounds of any results, and
\* what a third could be.
Verdicts    == [n \in Field |-> CASE n = 4 -> {"away", "draw"}
                                  [] n = 5 -> {"away"}
                                  [] n > 5 -> {"home", "away", "draw"}]
Loaded      == [n \in Field |-> CASE n = 4 -> {TRUE} [] n = 5 -> {FALSE} [] n > 5 -> {}]
AtOnce      == [n \in Field |-> IF n > 5 THEN 1 ELSE 2]
Rounds      == [n \in Field |-> IF n = 5 THEN 3 ELSE 2]
Fixtures    == [n \in Field |-> IF n = 4 THEN 4 ELSE 6]
Corrections == [f \in Format |-> IF f = "swiss" THEN 0 ELSE 1]
====
