---------------------------- MODULE Capabilities ----------------------------
(***************************************************************************)
(* What a credential of adtp grants: capabilities over resource URIs, and  *)
(* the constraints and caveats that narrow them.                           *)
(*                                                                         *)
(* A resource is its canonical form, [authority, path] with the scheme     *)
(* left out, or NoURI when CanonicalizeURI rejects the spelling.  Path     *)
(* segments and authorities are strings, never taken apart.                *)
(***************************************************************************)
EXTENDS Integers, Sequences

CONSTANTS
    NoURI,           \* a spelling CanonicalizeURI rejects
    Abilities,       \* the closed set of abilities of this ucv
    MeteringEnabled  \* a metering backend is wired up (never in the daemon)

ASSUME CapabilityAssumption ==
    /\ MeteringEnabled \in BOOLEAN
    /\ "agent/delegate" \in Abilities
    /\ NoURI \notin [authority : STRING, path : Seq(STRING)]

(* A canonical URI; the path is split at its slashes.                      *)
URI == [authority : STRING, path : Seq(STRING)]

Wildcards == {"*", "**"}

-----------------------------------------------------------------------------
(* Mutant of URICovers: a wildcard swallows the rest of the path.          *)
MutantCoversPrefix(parent, child) ==
    /\ parent # NoURI
    /\ child # NoURI
    /\ \/ parent = child
       \/ /\ parent.authority = child.authority
          /\ Len(parent.path) <= Len(child.path)
          /\ \A i \in DOMAIN parent.path :
                \/ parent.path[i] = "*" /\ child.path[i] # ""
                \/ parent.path[i] # "*" /\ parent.path[i] = child.path[i]

(* Segment by segment, "*" standing for exactly one non-empty segment.     *)
URICovers(parent, child) ==
    /\ parent # NoURI
    /\ child # NoURI
    /\ \/ parent = child
       \/ /\ parent.authority = child.authority
          /\ Len(parent.path) = Len(child.path)
          /\ \A i \in DOMAIN parent.path :
                \/ parent.path[i] = "*" /\ child.path[i] # ""
                \/ parent.path[i] # "*" /\ parent.path[i] = child.path[i]

(* A request resource must be concrete.                                    *)
Concrete(resource) ==
    \/ resource = NoURI
    \/ /\ resource.authority \notin Wildcards
       /\ \A i \in DOMAIN resource.path : resource.path[i] \notin Wildcards

-----------------------------------------------------------------------------
(* Constraint.Validate, type by type; an unknown type only has to have a   *)
(* name.                                                                   *)
ConstraintValid(c) ==
    CASE c.type = "time_window" -> 0 <= c.start /\ c.start < c.end
      [] c.type = "resource_restrict" -> c.resource # NoURI
      [] c.type = "action_restrict" -> c.actions # {} /\ c.actions \subseteq Abilities
      [] c.type = "method_restrict" -> c.methods # {}
      [] c.type \in {"param_limit", "delegation_depth"} -> c.max >= 0
      [] c.type \in {"budget", "max_calls"} -> c.limit >= 0
      [] OTHER -> TRUE

AllValid(cs) == \A i \in DOMAIN cs : ConstraintValid(cs[i])

(* Capability.Validate: a known ability over a canonical URI.              *)
CapabilityValid(cap) ==
    /\ cap.can \in Abilities
    /\ cap.with # NoURI
    /\ AllValid(cap.constraints)

(***************************************************************************)
(* evaluateConstraint.  An invocation's params maps the parameters it has  *)
(* to [integral, n]: numericParam yields n for an integer in int64 range   *)
(* and fails for every other value.  Its method is the string parameter    *)
(* "method"; without one it is a value no list of methods has.  A          *)
(* constraint of a type this build does not know denies.                   *)
(***************************************************************************)
Holds(c, inv) ==
    CASE c.type = "time_window" -> c.start <= inv.now /\ inv.now < c.end
      [] c.type = "resource_restrict" -> URICovers(c.resource, inv.resource)
      [] c.type = "action_restrict" -> inv.action \in c.actions
      [] c.type = "method_restrict" -> inv.method \in c.methods
      [] c.type = "param_limit" ->
            c.field \in DOMAIN inv.params =>
                /\ inv.params[c.field].integral
                /\ inv.params[c.field].n <= c.max
      [] c.type \in {"budget", "max_calls", "parameter_schema"} -> MeteringEnabled
      [] c.type = "delegation_depth" -> TRUE
      [] OTHER -> FALSE

AllHold(cs, inv) == \A i \in DOMAIN cs : Holds(cs[i], inv)

(* A capability the request's action and resource fall under.              *)
Matches(cap, inv) == cap.can = inv.action /\ URICovers(cap.with, inv.resource)
=============================================================================
