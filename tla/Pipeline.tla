------------------------------ MODULE Pipeline ------------------------------
(***************************************************************************)
(* A delegation chain as it grows, hop by hop, and what verify.Verify      *)
(* makes of it: the steps of the pipeline that compute on the chain and    *)
(* the invocation alone.  Steps 6 and 11, which read shared state, are     *)
(* Verifying's; the clocks and nonces of step 10 are those of Invocations. *)
(*                                                                         *)
(* chain[1] is the leaf and chain[Len(chain)] the element the walk starts  *)
(* at, as in Chain.Elements.  An element pins its parent by the SHA-256 of *)
(* the parent's bytes, so it is here simply put in front of it.  Blocks    *)
(* come from this implementation (Delegate) or from any other holder of a  *)
(* signing key (Receive): the verifier knows only the bytes.               *)
(***************************************************************************)
EXTENDS Capabilities, FiniteSets, FiniteSetsExt

CONSTANTS
    TrustedRootDIDs,     \* issuers whose roots this verifier accepts
    TrustPolicies,       \* Seq of [platforms, maxDepth], for other organizations
    MaxChainDepth,       \* config verify.max_chain_depth
    HardMaxDepth,        \* delegation.HardMaxDepth
    MaxChainCapsCaveats, \* delegation.MaxChainCapsCaveats
    MaxCapabilities,     \* credential.MaxCapabilities
    MaxCaveatsPerBlock,  \* credential.MaxCaveatsPerBlock
    ClockSkew,           \* clock-skew tolerance of step 5
    Roots,               \* the UCANs a chain may start from
    Foreign,             \* elements other implementations may put on top
    DID,                 \* the principals
    CaveatLists,         \* the caveat lists this implementation delegates under
    Invocations,         \* the requests presented to the verifier
    MaxHops              \* bound: delegations per chain

VARIABLES
    chain,   \* the elements, leaf first
    minted   \* every block of it was made by this implementation

vars == <<chain, minted>>

(***************************************************************************)
(* A UCAN carries capabilities (att) and the number of its proofs; a       *)
(* RESTRICT block carries caveats and its depth-left.  signer is the       *)
(* principal whose key made the signature.                                 *)
(***************************************************************************)
IsToken(e) == e.kind = "ucan"
IsBlock(e) == e.kind = "block"

Leaf(ch) == ch[1]
Root(ch) == ch[Len(ch)]
Depth(ch) == Len(ch) - 1

(***************************************************************************)
(* The first delegation_depth constraint of an agent/delegate capability   *)
(* gives a UCAN's depth; a block states its depth-left.                    *)
(***************************************************************************)
DepthPlaces(e) ==
    {p \in UNION {{i} \X DOMAIN e.att[i].constraints : i \in DOMAIN e.att} :
        /\ e.att[p[1]].can = "agent/delegate"
        /\ e.att[p[1]].constraints[p[2]].type = "delegation_depth"}

HasDepth(e) == IsToken(e) => DepthPlaces(e) # {}

DelegableDepth(e) ==
    IF IsBlock(e) THEN e.dl
    ELSE LET first == CHOOSE p \in DepthPlaces(e) :
                        \A q \in DepthPlaces(e) :
                            p[1] < q[1] \/ (p[1] = q[1] /\ p[2] <= q[2])
         IN  e.att[first[1]].constraints[first[2]].max

-----------------------------------------------------------------------------
(* Step 1, BuildChain and its parsers: only the last element is a token,   *)
(* it has no proofs, no block has a negative depth-left, and the depth and *)
(* width limits hold.                                                      *)
Weight(e) ==
    IF IsBlock(e) THEN Len(e.cav)
    ELSE MapThenSumSet(LAMBDA i : 1 + Len(e.att[i].constraints), DOMAIN e.att)

Builds(ch) ==
    /\ IsToken(Root(ch)) /\ Root(ch).proofs = 0
    /\ \A i \in 1..Len(ch) - 1 : IsBlock(ch[i]) /\ ch[i].dl >= 0
    /\ Depth(ch) <= (IF MaxChainDepth > HardMaxDepth THEN HardMaxDepth ELSE MaxChainDepth)
    /\ MapThenSumSet(LAMBDA i : Weight(ch[i]), DOMAIN ch) <= MaxChainCapsCaveats

(* Step 0, element by element.                                             *)
Structural(ch) ==
    \A i \in DOMAIN ch :
        /\ ch[i].exp > 0
        /\ IsToken(ch[i]) =>
            /\ Len(ch[i].att) <= MaxCapabilities
            /\ \A j \in DOMAIN ch[i].att : CapabilityValid(ch[i].att[j])
        /\ IsBlock(ch[i]) =>
            /\ Len(ch[i].cav) \in 1..MaxCaveatsPerBlock
            /\ ch[i].crit = {}

(* Mutants of LinkedHop: any key holder may continue a chain, and a child  *)
(* may keep the whole depth-left of its parent.                            *)
MutantHopAnyIssuer(child, parent) ==
    /\ child.exp <= parent.exp
    /\ child.nbf >= parent.nbf
    /\ IsBlock(child) =>
        /\ child.dl >= 0
        /\ HasDepth(parent) => child.dl < DelegableDepth(parent)

MutantHopKeepsDepth(child, parent) ==
    /\ child.iss = parent.aud
    /\ child.exp <= parent.exp
    /\ child.nbf >= parent.nbf
    /\ IsBlock(child) =>
        /\ child.dl >= 0
        /\ HasDepth(parent) => child.dl <= DelegableDepth(parent)

(* Step 2, one hop: the parent's audience speaks, the validity window does *)
(* not widen, and depth-left strictly decreases, if the parent states any. *)
LinkedHop(child, parent) ==
    /\ child.iss = parent.aud
    /\ child.exp <= parent.exp
    /\ child.nbf >= parent.nbf
    /\ IsBlock(child) =>
        /\ child.dl >= 0
        /\ HasDepth(parent) => child.dl < DelegableDepth(parent)

Linked(ch) == \A i \in 1..Len(ch) - 1 : LinkedHop(ch[i], ch[i + 1])

(* Step 3, and whether the root belongs to another organization.           *)
NamesPlatform(k, iss) == iss \in TrustPolicies[k].platforms

CrossOrg(ch) == Root(ch).iss \notin TrustedRootDIDs

RootTrusted(ch) ==
    CrossOrg(ch) => \E k \in DOMAIN TrustPolicies : NamesPlatform(k, Root(ch).iss)

(* Step 4: a signature verifies under the issuer's key exactly when the    *)
(* holder of that key made it.                                             *)
Signed(ch) == \A i \in DOMAIN ch : ch[i].signer = ch[i].iss

(* Step 5.                                                                 *)
InWindow(ch, now) ==
    \A i \in DOMAIN ch :
        now <= ch[i].exp + ClockSkew /\ now >= ch[i].nbf - ClockSkew

(* Step 7: no element below the root carries a capability set.             *)
Attenuates(ch) == \A i \in 1..Len(ch) - 1 : ~IsToken(ch[i])

-----------------------------------------------------------------------------
(* Step 8 decides over the att of the token nearest to the leaf.           *)
EffectiveAtt(ch) ==
    LET nearest == CHOOSE i \in DOMAIN ch :
                      IsToken(ch[i]) /\ \A k \in 1..i - 1 : ~IsToken(ch[k])
    IN  ch[nearest].att

MatchingAt(att, inv) == {j \in DOMAIN att : Matches(att[j], inv)}

(* The caveats of every block on the path hold.                            *)
MutantCaveatsOfLeaf(ch, inv) ==
    IsBlock(Leaf(ch)) => AllHold(Leaf(ch).cav, inv)

CaveatsHold(ch, inv) ==
    \A i \in DOMAIN ch : IsBlock(ch[i]) => AllHold(ch[i].cav, inv)

(* The first capability that matches decides: its constraints are the only *)
(* ones evaluated.                                                         *)
Authorizes(ch, inv) ==
    LET att == EffectiveAtt(ch) IN
    /\ Concrete(inv.resource)
    /\ \E j \in MatchingAt(att, inv) :
        /\ \A k \in MatchingAt(att, inv) : j <= k
        /\ AllHold(att[j].constraints, inv)
    /\ CaveatsHold(ch, inv)

(* Step 9: the first policy that names the root's issuer bounds the depth, *)
(* unless its bound is 0.                                                  *)
CrossOrgAllowed(ch) ==
    CrossOrg(ch) =>
        \E k \in DOMAIN TrustPolicies :
            /\ NamesPlatform(k, Root(ch).iss)
            /\ \A l \in 1..k - 1 : ~NamesPlatform(l, Root(ch).iss)
            /\ TrustPolicies[k].maxDepth > 0 => Depth(ch) <= TrustPolicies[k].maxDepth

(* Steps 0, 2 to 5 and 7: the chain is sound at time now.                  *)
Sound(ch, now) ==
    /\ Structural(ch)
    /\ Linked(ch)
    /\ RootTrusted(ch)
    /\ Signed(ch)
    /\ InWindow(ch, now)
    /\ Attenuates(ch)

(* What the chain entitles its leaf's audience to.                         *)
Grants(ch, inv) ==
    /\ Sound(ch, inv.now)
    /\ Authorizes(ch, inv)
    /\ CrossOrgAllowed(ch)

(* Verify: the chain can be built, it grants the request, and (step 10)    *)
(* the audience of the leaf signed the invocation.                         *)
Verify(ch, inv) ==
    /\ Builds(ch)
    /\ Grants(ch, inv)
    /\ inv.sender = Leaf(ch).aud

(***************************************************************************)
(* What parsing has seen to: an element is a token or a block and its      *)
(* numbers are integers; a root has no proofs, any other token has some;   *)
(* a delegation_depth is not negative (DelegationDepthConstraint.Validate).*)
(***************************************************************************)
ASSUME ElementAssumption ==
    /\ \A e \in Roots \cup Foreign :
        /\ e.kind \in {"ucan", "block"}
        /\ e.aud \in DID
        /\ e.nbf \in Int
        /\ e.exp \in Int
        /\ IsBlock(e) => e.dl \in Int
    /\ \A e \in Roots :
        /\ IsToken(e)
        /\ e.proofs = 0
        /\ \A j \in DOMAIN e.att : e.att[j].with \in URI \cup {NoURI}
        /\ HasDepth(e) => DelegableDepth(e) \in Nat
    /\ \A e \in Foreign : IsToken(e) => e.proofs # 0

ASSUME InvocationAssumption ==
    \A inv \in Invocations : inv.resource \in URI \cup {NoURI}

ASSUME PolicyAssumption ==
    \A k \in DOMAIN TrustPolicies : TrustPolicies[k].maxDepth \in Nat

-----------------------------------------------------------------------------
Init ==
    /\ \E r \in Roots : chain = <<r>>
    /\ minted = TRUE

MayExtend == Depth(chain) < MaxHops

(* Mutants of Delegate: the child's window opens at once, and the depth    *)
(* of the child is not bounded from below.                                 *)
MutantDelegateOpensAtOnce(aud, dl, cav) ==
    LET parent == Leaf(chain) IN
    /\ MayExtend
    /\ HasDepth(parent)
    /\ DelegableDepth(parent) > 0
    /\ dl < DelegableDepth(parent) /\ dl >= 0
    /\ Len(cav) \in 1..MaxCaveatsPerBlock
    /\ AllValid(cav)
    /\ chain' = <<[kind |-> "block", iss |-> parent.aud, aud |-> aud,
                   signer |-> parent.aud, nbf |-> 0, exp |-> parent.exp,
                   dl |-> dl, cav |-> cav, crit |-> {}]>> \o chain
    /\ UNCHANGED minted

MutantDelegateUnbounded(aud, dl, cav) ==
    LET parent == Leaf(chain) IN
    /\ MayExtend
    /\ HasDepth(parent)
    /\ dl < DelegableDepth(parent)
    /\ Len(cav) \in 1..MaxCaveatsPerBlock
    /\ AllValid(cav)
    /\ chain' = <<[kind |-> "block", iss |-> parent.aud, aud |-> aud,
                   signer |-> parent.aud, nbf |-> parent.nbf, exp |-> parent.exp,
                   dl |-> dl, cav |-> cav, crit |-> {}]>> \o chain
    /\ UNCHANGED minted

(* ParentFromUCAN or ParentFromBlock, then DelegateRestrict: the child     *)
(* inherits the parent's window and is signed by the parent's audience.    *)
Delegate(aud, dl, cav) ==
    LET parent == Leaf(chain) IN
    /\ MayExtend
    /\ HasDepth(parent)
    /\ DelegableDepth(parent) > 0
    /\ dl < DelegableDepth(parent) /\ dl >= 0
    /\ Len(cav) \in 1..MaxCaveatsPerBlock
    /\ AllValid(cav)
    /\ chain' = <<[kind |-> "block", iss |-> parent.aud, aud |-> aud,
                   signer |-> parent.aud, nbf |-> parent.nbf, exp |-> parent.exp,
                   dl |-> dl, cav |-> cav, crit |-> {}]>> \o chain
    /\ UNCHANGED minted

(* Another implementation puts an element of its own on top.               *)
Receive(e) ==
    /\ MayExtend
    /\ chain' = <<e>> \o chain
    /\ minted' = FALSE

Next ==
    \/ \E aud \in DID, dl \in -1..MaxHops, cav \in CaveatLists : Delegate(aud, dl, cav)
    \/ \E e \in Foreign : Receive(e)

Spec == Init /\ [][Next]_vars

-----------------------------------------------------------------------------
(* A chain is a root UCAN with foreign elements and blocks of this         *)
(* implementation on top; the latter never have a negative depth-left.     *)
MintedBlocks ==
    [kind : {"block"}, iss : DID, aud : DID, signer : DID, nbf : Int, exp : Int,
     dl : Nat, cav : CaveatLists, crit : {{}}]

Elements == Roots \cup Foreign \cup MintedBlocks

TypeOK ==
    /\ chain \in Seq(Elements)
    /\ chain # <<>>
    /\ Root(chain) \in Roots
    /\ \A i \in 1..Len(chain) - 1 : chain[i] \in Foreign \cup MintedBlocks
    /\ minted \in BOOLEAN

(* A delegation never adds authority: whatever element is put on top of a  *)
(* chain, and whoever made it, a request the longer chain grants was       *)
(* granted by the shorter one, under every caveat on the way.              *)
DelegationNarrows ==
    [][\A inv \in Invocations : Grants(chain', inv) => Grants(chain, inv)]_vars

(* Chain of custody: an accepted invocation was signed by the last in a    *)
(* line of principals, each appointed by the one before it, that starts at *)
(* a platform this verifier trusts or has a policy for.                    *)
ChainOfCustody ==
    \A inv \in Invocations :
        Verify(chain, inv) =>
            /\ \/ Root(chain).signer \in TrustedRootDIDs
               \/ \E k \in DOMAIN TrustPolicies : NamesPlatform(k, Root(chain).signer)
            /\ \A i \in 1..Len(chain) - 1 : chain[i].signer = chain[i + 1].aud
            /\ inv.sender = chain[1].aud

(* In an accepted chain no element has more delegations below it than its  *)
(* depth-left, or the root's delegation_depth, allows.                     *)
HopsWithinDepth ==
    \A inv \in Invocations :
        Verify(chain, inv) =>
            \A j \in DOMAIN chain :
                HasDepth(chain[j]) => j - 1 <= DelegableDepth(chain[j])

(* Issuance and verification agree: blocks this implementation minted on a *)
(* root make a chain that is sound whenever the root alone is.             *)
MintedVerifies ==
    \A inv \in Invocations :
        minted /\ Sound(<<Root(chain)>>, inv.now) => Sound(chain, inv.now)

(* The reference definition of what a capability URI stands for: each "*"  *)
(* of its path is replaced by one non-empty segment.                       *)
Expands(uri, resource) ==
    \E f \in [DOMAIN uri.path -> {resource.path[i] : i \in DOMAIN resource.path}] :
        /\ \A i \in DOMAIN uri.path : uri.path[i] = "*" => f[i] # ""
        /\ resource =
            [authority |-> uri.authority,
             path |-> [i \in DOMAIN uri.path |->
                          IF uri.path[i] = "*" THEN f[i] ELSE uri.path[i]]]

(* Whatever was delegated on top of it, an accepted request exercises an   *)
(* ability of the root's own grant on a resource the grant stands for.     *)
WithinRootGrant ==
    \A inv \in Invocations :
        Verify(chain, inv) =>
            \E j \in DOMAIN Root(chain).att :
                /\ Root(chain).att[j].can = inv.action
                /\ Expands(Root(chain).att[j].with, inv.resource)
=============================================================================
