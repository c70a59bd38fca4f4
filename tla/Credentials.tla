---------------------------- MODULE Credentials ----------------------------
(***************************************************************************)
(* The credentials of adtp and the chains they form.                       *)
(*                                                                         *)
(* A credential is addressed by the SHA-256 of its bytes, so a CID         *)
(* determines its content for ever: the content of every CID is the        *)
(* constant function Content.  A UCAN is a root (it has no parent); a      *)
(* RESTRICT block pins exactly one parent by CID.  A credential cannot     *)
(* contain its own hash, so parent links never form a cycle.               *)
(*                                                                         *)
(* Everything here is constant level.  What has been stored, registered or *)
(* revoked is the state of TrustStore.                                     *)
(***************************************************************************)
EXTENDS Integers, FiniteSets, FiniteSetsExt

CONSTANTS
    CID,                 \* the credentials that may ever be created
    DID,                 \* the principals (did:key identifiers)
    NoCID,               \* the parent of a root (an empty prf)
    Content,             \* CID -> the fields the model tells apart
    Agents,              \* principals registered with the daemon, keys held
    MaxChainDepth,       \* config verify.max_chain_depth
    HardMaxDepth,        \* delegation.HardMaxDepth
    MaxChainCapsCaveats, \* delegation.MaxChainCapsCaveats
    MaxPerCredential     \* MaxCapabilities / MaxCaveatsPerBlock

(***************************************************************************)
(* parent is prf, aud the audience, dl the depth-left of a block or the    *)
(* delegation_depth of a UCAN's agent/delegate capability (0 when it has   *)
(* none).  items counts the capabilities of a UCAN or the caveats of a     *)
(* block; weight is what the element adds to the chain's width, which for  *)
(* a UCAN counts the constraints of its capabilities too.                  *)
(***************************************************************************)
ContentType ==
    [parent : CID \cup {NoCID}, aud : DID, dl : Int, items : Nat, weight : Nat]

Parent(c) == Content[c].parent

IsRoot(c) == Parent(c) = NoCID

(* A set of credentials that contains the parent of each of its blocks.    *)
ParentClosed(S) == \A c \in S : ~IsRoot(c) => Parent(c) \in S

(***************************************************************************)
(* The elements BuildChain assembles when it walks prf links from c to the *)
(* root: the smallest parent-closed set that contains c.                   *)
(***************************************************************************)
Chains ==
    [c \in CID |->
        {a \in CID : \A S \in SUBSET CID : c \in S /\ ParentClosed(S) => a \in S}]

Chain(c) == Chains[c]

(* Chain.Depth: the number of delegations between c and its root.          *)
Depth(c) == Cardinality(Chain(c)) - 1

(* totalCapsCaveats once the whole chain has been walked.                  *)
Width(c) == MapThenSumSet(LAMBDA a : Content[a].weight, Chain(c))

(***************************************************************************)
(* BuildChain(c) over a store that holds the credentials S: every element  *)
(* is found, and neither the depth nor the width limit is exceeded.  The   *)
(* limit given is clamped to HardMaxDepth; config's validate has seen to   *)
(* it that the configured one is positive.                                 *)
(***************************************************************************)
BuildsChain(c, S, maxDepth) ==
    /\ Chain(c) \subseteq S
    /\ Depth(c) <= (IF maxDepth > HardMaxDepth THEN HardMaxDepth ELSE maxDepth)
    /\ Width(c) <= MaxChainCapsCaveats

(***************************************************************************)
(* handleIssueCredential mints UCANs only: no proof, a registered agent as *)
(* audience, at least one capability, at most MaxCapabilities.  Nothing    *)
(* bounds the constraints, so a root can be too wide for any chain.        *)
(***************************************************************************)
Issuable(c) ==
    /\ IsRoot(c)
    /\ Content[c].aud \in Agents
    /\ Content[c].items \in 1..MaxPerCredential

(* Mutant of Delegable: a child may keep its parent's whole depth-left.    *)
MutantDelegableKeepsDepth(c) ==
    /\ ~IsRoot(c)
    /\ Content[Parent(c)].aud \in Agents
    /\ Content[c].items \in 1..MaxPerCredential
    /\ Content[c].dl <= Content[Parent(c)].dl
    /\ Content[c].dl >= 0

(***************************************************************************)
(* delegateRestrict mints a block: the daemon must hold the key of the     *)
(* parent's audience, and CreateRestrictBlock demands a caveat, bounds     *)
(* their number, and wants a non-negative depth-left strictly below the    *)
(* parent's.  ParentFromUCAN turns a UCAN without delegation_depth away;   *)
(* with dl = 0 no child depth is left for it either.                       *)
(***************************************************************************)
Delegable(c) ==
    /\ ~IsRoot(c)
    /\ Content[Parent(c)].aud \in Agents
    /\ Content[c].items \in 1..MaxPerCredential
    /\ Content[c].dl < Content[Parent(c)].dl
    /\ Content[c].dl >= 0

(* The subjects step 6 looks up for a chain: every CID and every audience. *)
ChainSubjects(c) == Chain(c) \cup {Content[a].aud : a \in Chain(c)}

ASSUME ContentAssumption ==
    /\ NoCID \notin CID
    /\ CID \cap DID = {}
    /\ Content \in [CID -> ContentType]
    /\ Agents \subseteq DID
    /\ \A c \in CID : Content[c].items <= Content[c].weight
    /\ \A c \in CID : ~IsRoot(c) => c \notin Chain(Parent(c))

(* A CID is a SHA-256 digest: there are finitely many.                     *)
ASSUME CIDAssumption == IsFiniteSet(CID)

ASSUME LimitAssumption ==
    /\ MaxChainDepth \in Nat \ {0}
    /\ HardMaxDepth \in Nat \ {0}
    /\ MaxChainCapsCaveats \in Nat
    /\ MaxPerCredential \in Nat
=============================================================================
