------------------------------ MODULE DurableQueue ------------------------------
(***************************************************************************)
(* What the outbox promises of the events written to it: one that was      *)
(* taken off the queue had its effect applied, it never comes back, and    *)
(* one that was given up on is kept for an operator.                       *)
(***************************************************************************)
CONSTANT Event

VARIABLES
  done,     \* events taken off the queue for good
  buried,   \* events set aside as dead letters
  applied   \* events whose effect has been applied, once or more

Init == done = {} /\ buried = {} /\ applied = {}

Apply(e) ==
  /\ applied' = applied \cup {e}
  /\ UNCHANGED <<done, buried>>

\* Only what was applied is done.
Finish(e) ==
  /\ e \in applied
  /\ done' = done \cup {e}
  /\ UNCHANGED <<buried, applied>>

Bury(e) ==
  /\ buried' = buried \cup {e}
  /\ UNCHANGED <<done, applied>>

\* A dead letter is never lost: it leaves for the queue again.
Revive(e) ==
  /\ e \in buried
  /\ buried' = buried \ {e}
  /\ UNCHANGED <<done, applied>>

Next == \E e \in Event : Apply(e) \/ Finish(e) \/ Bury(e) \/ Revive(e)

Spec == Init /\ [][Next]_<<done, buried, applied>>
==================================================================================
