--------------------------- MODULE MCInvocations ---------------------------
(***************************************************************************)
(* Instances of Invocations for TLC: full lives for the whole lifetime, as *)
(* CreateInvocation's invocations do; brief expires while it is fresh; and *)
(* ahead is dated by a client whose clock runs ahead of the daemon's.      *)
(***************************************************************************)
EXTENDS Invocations, TLC

CONSTANTS full, brief, ahead

Dated(i) == CASE i = full -> 1 [] i = brief -> 1 [] i = ahead -> 2

MCIat == [i \in Invocation |-> Dated(i)]

MCExp == [i \in Invocation |-> Dated(i) + (IF i = brief THEN 1 ELSE Lifetime)]

(* Requests are interchangeable; only safety is checked with this.         *)
Symmetry == Permutations(Requests)
=============================================================================
