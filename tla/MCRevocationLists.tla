------------------------- MODULE MCRevocationLists --------------------------
(***************************************************************************)
(* An instance of RevocationLists for TLC: a principal that is named alone *)
(* and together with one of its credentials.                               *)
(***************************************************************************)
EXTENDS RevocationLists, TLC

CONSTANTS cred, agent

MCPairs == {<<None, agent>>, <<cred, agent>>}

MCSymmetry == Permutations(Posters) \cup Permutations(Listers)
=============================================================================
