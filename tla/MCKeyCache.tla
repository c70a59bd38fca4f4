----------------------------- MODULE MCKeyCache -----------------------------
(***************************************************************************)
(* Instances of KeyCache for TLC.  The provider replaces its key and the   *)
(* kid with it; one token names its kid and one relies on the sole key.    *)
(***************************************************************************)
EXTENDS KeyCache, TLC

CONSTANTS old, new, named, bare, k1, k2

MCKidOf == [t \in Tokens |-> IF t = named THEN k1 ELSE NoKid]

MCSignerOf == [t \in Tokens |-> old]

MCExpOf == [t \in Tokens |-> IF t = named THEN MaxClock ELSE 4]

MCKeySet == <<k1 :> old, k2 :> new>>

=============================================================================
