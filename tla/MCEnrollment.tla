---- MODULE MCEnrollment ----
(***************************************************************************)
(* Instances of Enrollment for TLC: two files that name two participants   *)
(* in opposite orders, one of them naming one twice, and each giving one   *)
(* document's number to a different participant.                           *)
(***************************************************************************)
EXTENDS Enrollment, TLC
CONSTANTS autumn, spring, ana, bea, dni
Named(a)    == [alias |-> a, key |-> NoKey]
Numbered(a) == [alias |-> a, key |-> dni]
FileDef == autumn :> <<Numbered(ana), Named(bea)>>
             @@ spring :> <<Numbered(bea), Named(ana), Named(ana)>>
CarriedDef == ana :> NoKey @@ bea :> NoKey
====
