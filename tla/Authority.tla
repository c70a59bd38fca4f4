----------------------------- MODULE Authority ------------------------------
(***************************************************************************)
(* Who may set which status over which scope: the tables of authority.go.  *)
(***************************************************************************)
Status ==
    {"REVOKED", "SUSPENDED", "REINSTATED", "COMPROMISED", "DECOMMISSIONED", "CASCADE"}

Scope == {"credential", "subtree", "identity"}

AuthorityStatuses ==
    [platform_root |-> Status,
     hop_issuer    |-> {"REVOKED", "SUSPENDED", "REINSTATED"},
     subject       |-> {"REVOKED", "COMPROMISED"},
     sponsor       |-> {"REVOKED", "COMPROMISED", "DECOMMISSIONED"}]

AuthorityScopes ==
    [platform_root |-> Scope,
     hop_issuer    |-> {"credential", "subtree"},
     subject       |-> {"credential", "identity"},
     sponsor       |-> {"identity"}]

Basis == DOMAIN AuthorityStatuses

ValidateAuthority(basis, status, scope) ==
    /\ basis \in Basis
    /\ status \in AuthorityStatuses[basis]
    /\ scope \in AuthorityScopes[basis]

(***************************************************************************)
(* What the models of the daemon rest on: as the platform, whose key signs *)
(* every entry it posts, it may set every status over every scope.         *)
(***************************************************************************)
ASSUME PlatformMaySetAll ==
    \A status \in Status, scope \in Scope :
        ValidateAuthority("platform_root", status, scope)
=============================================================================
