--------------------------- MODULE PipelineProofs ---------------------------
(***************************************************************************)
(* Theorems about the verification pipeline, for every set of roots,       *)
(* foreign elements, caveats and invocations, and chains of every length.  *)
(*                                                                         *)
(* A chain grows at the leaf only, so each theorem compares a chain with   *)
(* the one that has one more element on top: Pushed relates their indices. *)
(***************************************************************************)
EXTENDS Pipeline, TLAPS

(* Putting e on top of ch shifts every element by one and keeps the root.  *)
LEMMA Pushed ==
    ASSUME NEW S, NEW ch \in Seq(S), ch # <<>>, NEW e \in S
    PROVE  /\ <<e>> \o ch \in Seq(S)
           /\ <<e>> \o ch # <<>>
           /\ Len(ch) \in Nat \ {0}
           /\ Len(<<e>> \o ch) = Len(ch) + 1
           /\ (<<e>> \o ch)[1] = e
           /\ \A i \in 1..Len(ch) : (<<e>> \o ch)[i + 1] = ch[i]
           /\ Root(<<e>> \o ch) = Root(ch)
           /\ DOMAIN ch = 1..Len(ch)
           /\ DOMAIN (<<e>> \o ch) = 1..Len(ch) + 1
BY DEF Root

(* Every element is a token or a block with integer fields.                *)
LEMMA ElementTypes ==
    ASSUME NEW e \in Elements
    PROVE  /\ e.kind \in {"ucan", "block"}
           /\ IsBlock(e) <=> ~IsToken(e)
           /\ e.aud \in DID
           /\ e.nbf \in Int
           /\ e.exp \in Int
           /\ IsBlock(e) => e.dl \in Int /\ HasDepth(e) /\ DelegableDepth(e) = e.dl
<1>1. CASE e \in Roots \cup Foreign
  BY <1>1, ElementAssumption DEF IsToken, IsBlock, HasDepth, DelegableDepth
<1>2. CASE e \in MintedBlocks
  BY <1>2 DEF MintedBlocks, IsToken, IsBlock, HasDepth, DelegableDepth
<1> QED BY <1>1, <1>2 DEF Elements

(* The block Delegate puts on top, and what its guards say of it.          *)
LEMMA DelegateMints ==
    ASSUME TypeOK, NEW aud \in DID, NEW dl \in -1..MaxHops, NEW cav \in CaveatLists,
           Delegate(aud, dl, cav)
    PROVE  \E e \in MintedBlocks :
              /\ chain' = <<e>> \o chain
              /\ IsBlock(e)
              /\ e.iss = Leaf(chain).aud
              /\ e.signer = e.iss
              /\ e.nbf = Leaf(chain).nbf
              /\ e.exp = Leaf(chain).exp
              /\ e.dl >= 0
              /\ HasDepth(Leaf(chain)) => e.dl < DelegableDepth(Leaf(chain))
              /\ Len(e.cav) \in 1..MaxCaveatsPerBlock
              /\ e.crit = {}
<1> DEFINE parent == Leaf(chain)
           b == [kind |-> "block", iss |-> parent.aud, aud |-> aud,
                 signer |-> parent.aud, nbf |-> parent.nbf, exp |-> parent.exp,
                 dl |-> dl, cav |-> cav, crit |-> {}]
<1>1. parent \in Elements
  BY DEF TypeOK, Leaf
<1>2. parent.aud \in DID /\ parent.nbf \in Int /\ parent.exp \in Int
  BY <1>1, ElementTypes
<1>3. chain' = <<b>> \o chain /\ dl >= 0 /\ dl < DelegableDepth(parent)
      /\ Len(cav) \in 1..MaxCaveatsPerBlock
  BY DEF Delegate
<1>4. dl \in Nat
  BY <1>3
<1>5. b \in MintedBlocks
  BY <1>2, <1>4 DEF MintedBlocks
<1>6. /\ b.iss = parent.aud /\ b.signer = b.iss /\ b.nbf = parent.nbf
      /\ b.exp = parent.exp /\ b.dl = dl /\ b.cav = cav /\ b.crit = {} /\ b.kind = "block"
  OBVIOUS
<1> HIDE DEF b
<1> QED BY <1>3, <1>5, <1>6 DEF IsBlock

(* Each step puts one element on top of the chain or changes nothing.      *)
LEMMA StepPushes ==
    ASSUME TypeOK, Next
    PROVE  \E e \in Foreign \cup MintedBlocks : chain' = <<e>> \o chain
<1>1. CASE \E aud \in DID, dl \in -1..MaxHops, cav \in CaveatLists : Delegate(aud, dl, cav)
  BY <1>1, DelegateMints
<1>2. CASE \E e \in Foreign : Receive(e)
  BY <1>2 DEF Receive
<1> QED BY <1>1, <1>2 DEF Next

(* The chain always starts at one of the roots and has only foreign        *)
(* elements and well-formed blocks of this implementation above it.        *)
THEOREM Typing == Spec => []TypeOK
<1>1. Init => TypeOK
  <2> SUFFICES ASSUME Init PROVE TypeOK
    OBVIOUS
  <2>1. PICK r \in Roots : chain = <<r>>
    BY DEF Init
  <2>2. Len(chain) = 1 /\ chain[1] = r /\ chain \in Seq(Elements) /\ chain # <<>>
    BY <2>1 DEF Elements
  <2> QED BY <2>2 DEF Init, TypeOK, Root
<1>2. TypeOK /\ [Next]_vars => TypeOK'
  <2> SUFFICES ASSUME TypeOK, [Next]_vars PROVE TypeOK'
    OBVIOUS
  <2>1. CASE UNCHANGED vars
    BY <2>1 DEF vars, TypeOK, Root
  <2>2. CASE Next
    <3>1. PICK e \in Foreign \cup MintedBlocks : chain' = <<e>> \o chain
      BY <2>2, StepPushes
    <3>2. e \in Elements /\ chain \in Seq(Elements) /\ chain # <<>>
      BY <3>1 DEF Elements, TypeOK
    <3>3. chain' \in Seq(Elements) /\ chain' # <<>> /\ Root(chain') = Root(chain)
      BY <3>1, <3>2, Pushed
    <3>4. \A i \in 1..Len(chain') - 1 : chain'[i] \in Foreign \cup MintedBlocks
      <4> TAKE i \in 1..Len(chain') - 1
      <4>1. CASE i = 1
        BY <4>1, <3>1, <3>2, Pushed
      <4>2. CASE i # 1
        <5>1. i - 1 \in 1..Len(chain) - 1
          BY <4>2, <3>1, <3>2, Pushed
        <5>2. chain'[(i - 1) + 1] = chain[i - 1]
          BY <5>1, <3>1, <3>2, Pushed
        <5> QED BY <5>1, <5>2 DEF TypeOK
      <4> QED BY <4>1, <4>2
    <3>5. minted' \in BOOLEAN
      BY <2>2 DEF Next, Delegate, Receive, TypeOK
    <3>6. Root(chain)' = Root(chain') 
      BY DEF Root
    <3> QED BY <3>3, <3>4, <3>5, <3>6 DEF TypeOK
  <2> QED BY <2>1, <2>2
<1> QED BY <1>1, <1>2, PTL DEF Spec

-----------------------------------------------------------------------------
(* A chain on top of whose root there are no tokens is authorized by the   *)
(* root's att: step 8 takes the token nearest to the leaf, the root is it. *)
LEMMA RootDecides ==
    ASSUME NEW S, NEW ch \in Seq(S), ch # <<>>, IsToken(Root(ch)), Attenuates(ch)
    PROVE  EffectiveAtt(ch) = Root(ch).att
<1> DEFINE Nearest(i) == IsToken(ch[i]) /\ \A k \in 1..i - 1 : ~IsToken(ch[k])
<1>1. Len(ch) \in Nat \ {0} /\ DOMAIN ch = 1..Len(ch)
  BY Pushed
<1>2. Len(ch) \in DOMAIN ch /\ Nearest(Len(ch))
  BY <1>1 DEF Attenuates, Root
<1>3. \A i \in DOMAIN ch : Nearest(i) => i = Len(ch)
  BY <1>1 DEF Attenuates
<1>4. (CHOOSE i \in DOMAIN ch : Nearest(i)) = Len(ch)
  BY <1>2, <1>3
<1> QED BY <1>4 DEF EffectiveAtt, Root

(* The soundness of a chain passes on to the chain without its leaf.       *)
LEMMA SoundBelow ==
    ASSUME NEW S, NEW ch \in Seq(S), ch # <<>>, NEW e \in S, NEW now,
           Sound(<<e>> \o ch, now)
    PROVE  Sound(ch, now)
<1> DEFINE new == <<e>> \o ch
<1>1. /\ Len(ch) \in Nat \ {0} /\ Len(new) = Len(ch) + 1
      /\ DOMAIN ch = 1..Len(ch) /\ DOMAIN new = 1..Len(ch) + 1
      /\ \A i \in 1..Len(ch) : new[i + 1] = ch[i]
      /\ Root(new) = Root(ch)
  BY Pushed
<1>2. Sound(new, now)
  OBVIOUS
<1> HIDE DEF new
<1>3. Structural(ch)
  <2> SUFFICES ASSUME NEW i \in DOMAIN ch
               PROVE  /\ ch[i].exp > 0
                      /\ IsToken(ch[i]) =>
                          /\ Len(ch[i].att) <= MaxCapabilities
                          /\ \A j \in DOMAIN ch[i].att : CapabilityValid(ch[i].att[j])
                      /\ IsBlock(ch[i]) =>
                          /\ Len(ch[i].cav) \in 1..MaxCaveatsPerBlock
                          /\ ch[i].crit = {}
    BY DEF Structural
  <2>1. i + 1 \in DOMAIN new /\ new[i + 1] = ch[i]
    BY <1>1
  <2> QED BY <1>2, <2>1 DEF Sound, Structural
<1>4. Linked(ch)
  <2> SUFFICES ASSUME NEW i \in 1..Len(ch) - 1 PROVE LinkedHop(ch[i], ch[i + 1])
    BY DEF Linked
  <2>1. i + 1 \in 1..Len(new) - 1 /\ new[i + 1] = ch[i] /\ new[(i + 1) + 1] = ch[i + 1]
    BY <1>1
  <2>2. LinkedHop(new[i + 1], new[(i + 1) + 1])
    BY <1>2, <2>1 DEF Sound, Linked
  <2> QED BY <2>1, <2>2
<1>5. RootTrusted(ch)
  BY <1>1, <1>2 DEF Sound, RootTrusted, CrossOrg
<1>6. Signed(ch)
  <2> SUFFICES ASSUME NEW i \in DOMAIN ch PROVE ch[i].signer = ch[i].iss
    BY DEF Signed
  <2>1. i + 1 \in DOMAIN new /\ new[i + 1] = ch[i]
    BY <1>1
  <2> QED BY <1>2, <2>1 DEF Sound, Signed
<1>7. InWindow(ch, now)
  <2> SUFFICES ASSUME NEW i \in DOMAIN ch
               PROVE  now <= ch[i].exp + ClockSkew /\ now >= ch[i].nbf - ClockSkew
    BY DEF InWindow
  <2>1. i + 1 \in DOMAIN new /\ new[i + 1] = ch[i]
    BY <1>1
  <2> QED BY <1>2, <2>1 DEF Sound, InWindow
<1>8. Attenuates(ch)
  <2> SUFFICES ASSUME NEW i \in 1..Len(ch) - 1 PROVE ~IsToken(ch[i])
    BY DEF Attenuates
  <2>1. i + 1 \in 1..Len(new) - 1 /\ new[i + 1] = ch[i]
    BY <1>1
  <2> QED BY <1>2, <2>1 DEF Sound, Attenuates
<1> QED BY <1>3, <1>4, <1>5, <1>6, <1>7, <1>8 DEF Sound

(* What a chain grants, the chain without its leaf grants too.             *)
LEMMA GrantsBelow ==
    ASSUME NEW S, NEW ch \in Seq(S), ch # <<>>, NEW e \in S, NEW inv,
           IsToken(Root(ch)), Grants(<<e>> \o ch, inv)
    PROVE  Grants(ch, inv)
<1> DEFINE new == <<e>> \o ch
<1>1. /\ new \in Seq(S) /\ new # <<>>
      /\ Len(ch) \in Nat \ {0} /\ Len(new) = Len(ch) + 1
      /\ DOMAIN ch = 1..Len(ch) /\ DOMAIN new = 1..Len(ch) + 1
      /\ \A i \in 1..Len(ch) : new[i + 1] = ch[i]
      /\ Root(new) = Root(ch)
  BY Pushed
<1>2. Grants(new, inv)
  OBVIOUS
<1>3. Sound(ch, inv.now)
  BY <1>2, SoundBelow DEF Grants
<1> HIDE DEF new
<1>4. EffectiveAtt(new) = EffectiveAtt(ch)
  <2>1. Attenuates(new) /\ Attenuates(ch)
    BY <1>2, <1>3 DEF Grants, Sound
  <2> QED BY <1>1, <2>1, RootDecides
<1>5. CaveatsHold(ch, inv)
  <2> SUFFICES ASSUME NEW i \in DOMAIN ch, IsBlock(ch[i]) PROVE AllHold(ch[i].cav, inv)
    BY DEF CaveatsHold
  <2>1. i + 1 \in DOMAIN new /\ new[i + 1] = ch[i]
    BY <1>1
  <2> QED BY <1>2, <2>1 DEF Grants, Authorizes, CaveatsHold
<1>6. Authorizes(ch, inv)
  BY <1>2, <1>4, <1>5 DEF Grants, Authorizes
<1>7. CrossOrgAllowed(ch)
  <2> SUFFICES ASSUME CrossOrg(ch) PROVE CrossOrgAllowed(ch)
    BY DEF CrossOrgAllowed
  <2>1. PICK k \in DOMAIN TrustPolicies :
           /\ NamesPlatform(k, Root(new).iss)
           /\ \A l \in 1..k - 1 : ~NamesPlatform(l, Root(new).iss)
           /\ TrustPolicies[k].maxDepth > 0 => Depth(new) <= TrustPolicies[k].maxDepth
    BY <1>1, <1>2 DEF Grants, CrossOrgAllowed, CrossOrg
  <2>2. Depth(ch) <= Depth(new) /\ Depth(ch) \in Int /\ Depth(new) \in Int
    BY <1>1 DEF Depth
  <2>3. TrustPolicies[k].maxDepth \in Nat
    BY PolicyAssumption
  <2>4. TrustPolicies[k].maxDepth > 0 => Depth(ch) <= TrustPolicies[k].maxDepth
    BY <2>1, <2>2, <2>3
  <2> QED BY <1>1, <2>1, <2>4 DEF CrossOrgAllowed
<1> QED BY <1>3, <1>6, <1>7 DEF Grants

(* A delegation never adds authority, whoever made it: a request the chain *)
(* grants after a step was granted before it.                              *)
THEOREM DelegationsNarrow == Spec => DelegationNarrows
<1>1. TypeOK /\ [Next]_vars =>
        [\A inv \in Invocations : Grants(chain', inv) => Grants(chain, inv)]_vars
  <2> SUFFICES ASSUME TypeOK, Next, NEW inv \in Invocations, Grants(chain', inv)
               PROVE  Grants(chain, inv)
    OBVIOUS
  <2>1. PICK e \in Foreign \cup MintedBlocks : chain' = <<e>> \o chain
    BY StepPushes
  <2>2. e \in Elements /\ chain \in Seq(Elements) /\ chain # <<>> /\ IsToken(Root(chain))
    BY <2>1, ElementAssumption DEF Elements, TypeOK
  <2> QED BY <2>1, <2>2, GrantsBelow
<1> QED BY <1>1, Typing, PTL DEF Spec, DelegationNarrows

-----------------------------------------------------------------------------
(* An accepted invocation comes from the last of a line of principals each *)
(* appointed by the one before it, back to a platform with standing.       *)
THEOREM Custody == Spec => []ChainOfCustody
<1>1. TypeOK => ChainOfCustody
  <2> SUFFICES ASSUME TypeOK, NEW inv \in Invocations, Verify(chain, inv)
               PROVE  /\ \/ Root(chain).signer \in TrustedRootDIDs
                         \/ \E k \in DOMAIN TrustPolicies :
                               NamesPlatform(k, Root(chain).signer)
                      /\ \A i \in 1..Len(chain) - 1 : chain[i].signer = chain[i + 1].aud
                      /\ inv.sender = chain[1].aud
    BY DEF ChainOfCustody
  <2>1. /\ Linked(chain) /\ RootTrusted(chain) /\ Signed(chain)
        /\ inv.sender = chain[1].aud
    BY DEF Verify, Grants, Sound, Leaf
  <2>2. Len(chain) \in Nat \ {0} /\ DOMAIN chain = 1..Len(chain)
    BY DEF TypeOK
  <2>3. Root(chain).signer = Root(chain).iss
    BY <2>1, <2>2 DEF Signed, Root
  <2>4. \A i \in 1..Len(chain) - 1 : chain[i].signer = chain[i + 1].aud
    <3> TAKE i \in 1..Len(chain) - 1
    <3>1. chain[i].signer = chain[i].iss
      BY <2>1, <2>2 DEF Signed
    <3>2. chain[i].iss = chain[i + 1].aud
      BY <2>1 DEF Linked, LinkedHop
    <3> QED BY <3>1, <3>2
  <2> QED BY <2>1, <2>3, <2>4 DEF RootTrusted, CrossOrg
<1> QED BY <1>1, Typing, PTL

-----------------------------------------------------------------------------
(***************************************************************************)
(* Step 2 compares neighbours only.  That the depth-left of every element  *)
(* bounds the hops below it is an invariant of the chain as it grows.      *)
(***************************************************************************)
DepthsFall ==
    Linked(chain) /\ (\A i \in 1..Len(chain) - 1 : IsBlock(chain[i])) =>
        \A j \in DOMAIN chain : \A i \in 1..j - 1 :
            HasDepth(chain[j]) => chain[i].dl + (j - i) <= DelegableDepth(chain[j])

(* An element of a chain whose non-root elements are blocks has an integer *)
(* depth, if it has one.                                                   *)
LEMMA DepthIsInt ==
    ASSUME TypeOK, NEW j \in DOMAIN chain,
           \A i \in 1..Len(chain) - 1 : IsBlock(chain[i]), HasDepth(chain[j])
    PROVE  DelegableDepth(chain[j]) \in Int
<1>1. chain[j] \in Elements /\ Len(chain) \in Nat \ {0} /\ DOMAIN chain = 1..Len(chain)
  BY DEF TypeOK
<1>2. CASE j = Len(chain)
  <2>1. chain[j] \in Roots
    BY <1>2 DEF TypeOK, Root
  <2> QED BY <2>1, ElementAssumption
<1>3. CASE j # Len(chain)
  <2>1. IsBlock(chain[j])
    BY <1>1, <1>3
  <2> QED BY <2>1, <1>1, ElementTypes
<1> QED BY <1>2, <1>3

LEMMA DepthsFallStep ==
    ASSUME TypeOK, TypeOK', DepthsFall, NEW e \in Elements, chain' = <<e>> \o chain
    PROVE  DepthsFall'
<1>1. /\ Len(chain) \in Nat \ {0} /\ Len(chain') = Len(chain) + 1
      /\ DOMAIN chain = 1..Len(chain) /\ DOMAIN chain' = 1..Len(chain) + 1
      /\ chain'[1] = e
      /\ \A i \in 1..Len(chain) : chain'[i + 1] = chain[i]
  BY Pushed DEF TypeOK
<1> SUFFICES ASSUME Linked(chain'), \A i \in 1..Len(chain') - 1 : IsBlock(chain'[i]),
                    NEW j \in DOMAIN chain', NEW i \in 1..j - 1, HasDepth(chain'[j])
             PROVE  chain'[i].dl + (j - i) <= DelegableDepth(chain'[j])
  BY DEF DepthsFall
<1>2. \A k \in 1..Len(chain) - 1 : IsBlock(chain[k])
  <2> TAKE k \in 1..Len(chain) - 1
  <2>1. k + 1 \in 1..Len(chain') - 1 /\ chain'[k + 1] = chain[k]
    BY <1>1
  <2> QED BY <2>1
<1>3. Linked(chain)
  <2> SUFFICES ASSUME NEW k \in 1..Len(chain) - 1 PROVE LinkedHop(chain[k], chain[k + 1])
    BY DEF Linked
  <2>1. k + 1 \in 1..Len(chain') - 1 /\ chain'[k + 1] = chain[k]
        /\ chain'[(k + 1) + 1] = chain[k + 1]
    BY <1>1
  <2>2. LinkedHop(chain'[k + 1], chain'[(k + 1) + 1])
    BY <2>1 DEF Linked
  <2> QED BY <2>1, <2>2
<1>4. j - 1 \in DOMAIN chain /\ chain'[j] = chain[j - 1]
  <2>1. j - 1 \in 1..Len(chain) /\ (j - 1) + 1 = j
    BY <1>1
  <2> QED BY <1>1, <2>1
<1>5. DelegableDepth(chain[j - 1]) \in Int
  BY <1>2, <1>4, DepthIsInt
<1>6. CASE i # 1
  <2>1. i - 1 \in 1..(j - 1) - 1 /\ chain'[i] = chain[i - 1]
    <3>1. i - 1 \in 1..(j - 1) - 1 /\ i - 1 \in 1..Len(chain) /\ (i - 1) + 1 = i
      BY <1>1, <1>6
    <3> QED BY <1>1, <3>1
  <2>2. chain[i - 1].dl + ((j - 1) - (i - 1)) <= DelegableDepth(chain[j - 1])
    BY <1>2, <1>3, <1>4, <2>1 DEF DepthsFall
  <2>3. (j - 1) - (i - 1) = j - i
    BY <1>1, <2>1
  <2> QED BY <1>4, <2>1, <2>2, <2>3
<1>7. CASE i = 1
  <2>1. IsBlock(e) /\ e.dl \in Int
    BY <1>1, ElementTypes
  <2>2. LinkedHop(e, chain[1])
    <3>1. 1 \in 1..Len(chain') - 1 /\ chain'[1 + 1] = chain[1]
      BY <1>1
    <3>2. LinkedHop(chain'[1], chain'[1 + 1])
      BY <3>1 DEF Linked
    <3> QED BY <1>1, <3>1, <3>2
  <2>3. CASE j = 2
    <3>1. HasDepth(chain[1]) /\ DelegableDepth(chain[1]) \in Int
      BY <1>4, <1>5, <2>3
    <3>2. e.dl < DelegableDepth(chain[1])
      BY <2>1, <2>2, <3>1 DEF LinkedHop
    <3> QED BY <1>1, <1>4, <1>7, <2>1, <2>3, <3>1, <3>2
  <2>4. CASE j # 2
    <3>1. 1 \in 1..Len(chain) - 1 /\ 1 \in 1..(j - 1) - 1
      BY <1>1, <1>7, <2>4
    <3>2. IsBlock(chain[1]) /\ chain[1] \in Elements
      BY <1>2, <3>1 DEF TypeOK
    <3>3. chain[1].dl \in Int /\ HasDepth(chain[1]) /\ DelegableDepth(chain[1]) = chain[1].dl
      BY <3>2, ElementTypes
    <3>4. e.dl < chain[1].dl
      BY <2>1, <2>2, <3>3 DEF LinkedHop
    <3>5. chain[1].dl + ((j - 1) - 1) <= DelegableDepth(chain[j - 1])
      BY <1>2, <1>3, <1>4, <3>1 DEF DepthsFall
    <3> QED BY <1>1, <1>4, <1>5, <1>7, <2>1, <3>3, <3>4, <3>5
  <2> QED BY <2>3, <2>4
<1> QED BY <1>6, <1>7

(* In an accepted chain no element has more delegations below it than its  *)
(* own depth-left allows.                                                  *)
THEOREM DepthsBound == Spec => []HopsWithinDepth
<1>1. Init => DepthsFall
  <2> SUFFICES ASSUME Init, NEW j \in DOMAIN chain, NEW i \in 1..j - 1 PROVE FALSE
    BY DEF DepthsFall
  <2>1. Len(chain) = 1 /\ DOMAIN chain = 1..1
    BY DEF Init
  <2> QED BY <2>1
<1>2. TypeOK /\ TypeOK' /\ DepthsFall /\ [Next]_vars => DepthsFall'
  <2> SUFFICES ASSUME TypeOK, TypeOK', DepthsFall, [Next]_vars PROVE DepthsFall'
    OBVIOUS
  <2>1. CASE UNCHANGED vars
    BY <2>1 DEF vars, DepthsFall
  <2>2. CASE Next
    BY <2>2, StepPushes, DepthsFallStep DEF Elements
  <2> QED BY <2>1, <2>2
<1>3. TypeOK /\ DepthsFall => HopsWithinDepth
  <2> SUFFICES ASSUME TypeOK, DepthsFall, NEW inv \in Invocations, Verify(chain, inv),
                      NEW j \in DOMAIN chain, HasDepth(chain[j])
               PROVE  j - 1 <= DelegableDepth(chain[j])
    BY DEF HopsWithinDepth
  <2>1. /\ Linked(chain)
        /\ \A i \in 1..Len(chain) - 1 : IsBlock(chain[i]) /\ chain[i].dl >= 0
    BY DEF Verify, Grants, Sound, Builds
  <2>2. Len(chain) \in Nat \ {0} /\ DOMAIN chain = 1..Len(chain) /\ chain[1] \in Elements
    BY DEF TypeOK
  <2>3. DelegableDepth(chain[j]) \in Int
    BY <2>1, DepthIsInt
  <2>4. CASE j = 1
    <3>1. CASE Len(chain) = 1
      <4>1. chain[j] \in Roots
        BY <2>4, <3>1 DEF TypeOK, Root
      <4> QED BY <2>4, <4>1, ElementAssumption
    <3>2. CASE Len(chain) # 1
      <4>1. IsBlock(chain[1]) /\ chain[1].dl >= 0
        BY <2>1, <2>2, <3>2
      <4> QED BY <2>2, <2>4, <4>1, ElementTypes
    <3> QED BY <3>1, <3>2
  <2>5. CASE j # 1
    <3>1. 1 \in 1..j - 1 /\ 1 \in 1..Len(chain) - 1
      BY <2>2, <2>5
    <3>2. chain[1].dl >= 0 /\ chain[1].dl \in Int
      BY <2>1, <2>2, <3>1, ElementTypes
    <3>3. chain[1].dl + (j - 1) <= DelegableDepth(chain[j])
      BY <2>1, <3>1 DEF DepthsFall
    <3> QED BY <2>2, <2>3, <3>2, <3>3
  <2> QED BY <2>4, <2>5
<1> QED BY <1>1, <1>2, <1>3, Typing, PTL DEF Spec

-----------------------------------------------------------------------------
(* A block Delegate puts on top of a sound chain makes a sound chain.      *)
LEMMA MintedSound ==
    ASSUME TypeOK, NEW aud \in DID, NEW dl \in -1..MaxHops, NEW cav \in CaveatLists,
           Delegate(aud, dl, cav), NEW now, Sound(chain, now)
    PROVE  Sound(chain', now)
<1>1. PICK e \in MintedBlocks :
         /\ chain' = <<e>> \o chain
         /\ IsBlock(e)
         /\ e.iss = Leaf(chain).aud
         /\ e.signer = e.iss
         /\ e.nbf = Leaf(chain).nbf
         /\ e.exp = Leaf(chain).exp
         /\ e.dl >= 0
         /\ HasDepth(Leaf(chain)) => e.dl < DelegableDepth(Leaf(chain))
         /\ Len(e.cav) \in 1..MaxCaveatsPerBlock
         /\ e.crit = {}
  BY DelegateMints
<1>2. e \in Elements /\ chain \in Seq(Elements) /\ chain # <<>>
  BY DEF Elements, TypeOK
<1>3. /\ Len(chain) \in Nat \ {0} /\ Len(chain') = Len(chain) + 1
      /\ DOMAIN chain = 1..Len(chain) /\ DOMAIN chain' = 1..Len(chain) + 1
      /\ chain'[1] = e
      /\ \A i \in 1..Len(chain) : chain'[i + 1] = chain[i]
      /\ Root(chain') = Root(chain)
  BY <1>1, <1>2, Pushed
<1>4. /\ ~IsToken(e)
      /\ Leaf(chain) = chain[1] /\ 1 \in DOMAIN chain
      /\ chain[1].nbf \in Int /\ chain[1].exp \in Int
  BY <1>1, <1>2, <1>3, ElementTypes DEF Leaf
<1>5. \A i \in DOMAIN chain' : i # 1 => i - 1 \in DOMAIN chain /\ chain'[i] = chain[i - 1]
  <2> TAKE i \in DOMAIN chain'
  <2> HAVE i # 1
  <2>1. i - 1 \in 1..Len(chain) /\ (i - 1) + 1 = i
    BY <1>3
  <2> QED BY <1>3, <2>1
<1>6. Structural(chain')
  <2> SUFFICES ASSUME NEW i \in DOMAIN chain'
               PROVE  /\ chain'[i].exp > 0
                      /\ IsToken(chain'[i]) =>
                          /\ Len(chain'[i].att) <= MaxCapabilities
                          /\ \A j \in DOMAIN chain'[i].att :
                                CapabilityValid(chain'[i].att[j])
                      /\ IsBlock(chain'[i]) =>
                          /\ Len(chain'[i].cav) \in 1..MaxCaveatsPerBlock
                          /\ chain'[i].crit = {}
    BY DEF Structural
  <2>1. CASE i = 1
    BY <1>1, <1>3, <1>4, <2>1 DEF Sound, Structural
  <2>2. CASE i # 1
    BY <1>5, <2>2 DEF Sound, Structural
  <2> QED BY <2>1, <2>2
<1>7. Linked(chain')
  <2> SUFFICES ASSUME NEW i \in 1..Len(chain') - 1 PROVE LinkedHop(chain'[i], chain'[i + 1])
    BY DEF Linked
  <2>1. CASE i = 1
    <3>1. chain'[i] = e /\ chain'[i + 1] = chain[1]
      BY <1>3, <2>1
    <3> QED BY <1>1, <1>4, <3>1 DEF LinkedHop
  <2>2. CASE i # 1
    <3>1. /\ i \in DOMAIN chain' /\ i + 1 \in DOMAIN chain' /\ i + 1 # 1
          /\ i - 1 \in 1..Len(chain) - 1 /\ (i + 1) - 1 = (i - 1) + 1
      BY <1>3, <2>2
    <3>2. chain'[i] = chain[i - 1] /\ chain'[i + 1] = chain[(i - 1) + 1]
      BY <1>5, <2>2, <3>1
    <3>3. LinkedHop(chain[i - 1], chain[(i - 1) + 1])
      BY <3>1 DEF Sound, Linked
    <3> QED BY <3>2, <3>3
  <2> QED BY <2>1, <2>2
<1>8. RootTrusted(chain')
  BY <1>3 DEF Sound, RootTrusted, CrossOrg
<1>9. Signed(chain')
  <2> SUFFICES ASSUME NEW i \in DOMAIN chain' PROVE chain'[i].signer = chain'[i].iss
    BY DEF Signed
  <2>1. CASE i = 1
    BY <1>1, <1>3, <2>1
  <2>2. CASE i # 1
    BY <1>5, <2>2 DEF Sound, Signed
  <2> QED BY <2>1, <2>2
<1>10. InWindow(chain', now)
  <2> SUFFICES ASSUME NEW i \in DOMAIN chain'
               PROVE  now <= chain'[i].exp + ClockSkew /\ now >= chain'[i].nbf - ClockSkew
    BY DEF InWindow
  <2>1. CASE i = 1
    BY <1>1, <1>3, <1>4, <2>1 DEF Sound, InWindow
  <2>2. CASE i # 1
    BY <1>5, <2>2 DEF Sound, InWindow
  <2> QED BY <2>1, <2>2
<1>11. Attenuates(chain')
  <2> SUFFICES ASSUME NEW i \in 1..Len(chain') - 1 PROVE ~IsToken(chain'[i])
    BY DEF Attenuates
  <2>1. CASE i = 1
    BY <1>3, <1>4, <2>1
  <2>2. CASE i # 1
    <3>1. i \in DOMAIN chain' /\ i - 1 \in 1..Len(chain) - 1
      BY <1>3, <2>2
    <3> QED BY <1>5, <2>2, <3>1 DEF Sound, Attenuates
  <2> QED BY <2>1, <2>2
<1> QED BY <1>6, <1>7, <1>8, <1>9, <1>10, <1>11 DEF Sound

(* Issuance and verification agree: what this implementation minted on a   *)
(* root that is sound by itself is sound at the same time.                 *)
THEOREM MintedSoundness == Spec => []MintedVerifies
<1>1. Init => MintedVerifies
  <2> SUFFICES ASSUME Init PROVE <<Root(chain)>> = chain
    BY DEF MintedVerifies
  <2> QED BY DEF Init, Root
<1>2. TypeOK /\ MintedVerifies /\ [Next]_vars => MintedVerifies'
  <2> SUFFICES ASSUME TypeOK, MintedVerifies, [Next]_vars PROVE MintedVerifies'
    OBVIOUS
  <2>1. CASE UNCHANGED vars
    BY <2>1 DEF vars, MintedVerifies
  <2>2. CASE \E e \in Foreign : Receive(e)
    BY <2>2 DEF Receive, MintedVerifies
  <2>3. ASSUME NEW aud \in DID, NEW dl \in -1..MaxHops, NEW cav \in CaveatLists,
               Delegate(aud, dl, cav)
        PROVE  MintedVerifies'
    <3> SUFFICES ASSUME NEW inv \in Invocations, minted',
                        Sound(<<Root(chain')>>, inv.now)
                 PROVE  Sound(chain', inv.now)
      BY DEF MintedVerifies
    <3>1. PICK e \in MintedBlocks : chain' = <<e>> \o chain
      BY <2>3, DelegateMints
    <3>2. Root(chain') = Root(chain)
      BY <3>1, Pushed DEF TypeOK, Elements
    <3>3. minted
      BY <2>3 DEF Delegate
    <3>4. Sound(chain, inv.now)
      BY <3>2, <3>3 DEF MintedVerifies
    <3> QED BY <2>3, <3>4, MintedSound
  <2> QED BY <2>1, <2>2, <2>3 DEF Next
<1> QED BY <1>1, <1>2, Typing, PTL DEF Spec

-----------------------------------------------------------------------------
(* URICovers of a concrete resource is exactly what a pattern stands for.  *)
LEMMA CoversExpands ==
    ASSUME NEW uri \in URI, NEW resource \in URI, Concrete(resource),
           URICovers(uri, resource)
    PROVE  Expands(uri, resource)
<1> DEFINE segments == {resource.path[i] : i \in DOMAIN resource.path}
           f == [i \in DOMAIN uri.path |-> resource.path[i]]
           expansion == [i \in DOMAIN uri.path |->
                            IF uri.path[i] = "*" THEN f[i] ELSE uri.path[i]]
<1>1. uri.path \in Seq(STRING) /\ resource.path \in Seq(STRING)
  BY DEF URI
<1>2. resource # NoURI
  BY CapabilityAssumption DEF URI
<1>3. /\ uri.authority = resource.authority
      /\ Len(uri.path) = Len(resource.path)
      /\ \A i \in DOMAIN uri.path :
            \/ uri.path[i] = "*" /\ resource.path[i] # ""
            \/ uri.path[i] # "*" /\ uri.path[i] = resource.path[i]
  <2>1. CASE uri = resource
    BY <1>2, <2>1 DEF Concrete, Wildcards
  <2>2. CASE uri # resource
    BY <2>2 DEF URICovers
  <2> QED BY <2>1, <2>2
<1>4. DOMAIN uri.path = DOMAIN resource.path
  <2>1. DOMAIN uri.path = 1..Len(uri.path) /\ DOMAIN resource.path = 1..Len(resource.path)
    BY <1>1
  <2> QED BY <1>3, <2>1
<1>5. f \in [DOMAIN uri.path -> segments]
  BY <1>4
<1>6. \A i \in DOMAIN uri.path : uri.path[i] = "*" => f[i] # ""
  BY <1>3
<1>7. expansion = resource.path
  <2>1. \A i \in DOMAIN uri.path : expansion[i] = resource.path[i]
    BY <1>3
  <2>2. resource.path = [i \in DOMAIN uri.path |-> resource.path[i]]
    BY <1>1, <1>4
  <2> QED BY <2>1, <2>2
<1>8. resource = [authority |-> uri.authority, path |-> expansion]
  BY <1>3, <1>7 DEF URI
<1> QED BY <1>5, <1>6, <1>8 DEF Expands

(* An accepted request stays within the root's own grant, however many     *)
(* delegations lie between.                                                *)
THEOREM GrantBinds == Spec => []WithinRootGrant
<1>1. TypeOK => WithinRootGrant
  <2> SUFFICES ASSUME TypeOK, NEW inv \in Invocations, Verify(chain, inv)
               PROVE  \E j \in DOMAIN Root(chain).att :
                         /\ Root(chain).att[j].can = inv.action
                         /\ Expands(Root(chain).att[j].with, inv.resource)
    BY DEF WithinRootGrant
  <2>1. Authorizes(chain, inv) /\ Attenuates(chain) /\ IsToken(Root(chain))
    BY DEF Verify, Grants, Sound, Builds
  <2>2. EffectiveAtt(chain) = Root(chain).att
    BY <2>1, RootDecides DEF TypeOK
  <2>3. PICK j \in DOMAIN Root(chain).att : Matches(Root(chain).att[j], inv)
    BY <2>1, <2>2 DEF Authorizes, MatchingAt
  <2>4. Root(chain).att[j].with \in URI \cup {NoURI}
    BY ElementAssumption DEF TypeOK
  <2>5. /\ Root(chain).att[j].can = inv.action
        /\ URICovers(Root(chain).att[j].with, inv.resource)
    BY <2>3 DEF Matches
  <2>6. Root(chain).att[j].with \in URI /\ inv.resource \in URI
    BY <2>4, <2>5, InvocationAssumption DEF URICovers
  <2>7. Expands(Root(chain).att[j].with, inv.resource)
    BY <2>1, <2>5, <2>6, CoversExpands DEF Authorizes
  <2> QED BY <2>5, <2>7
<1> QED BY <1>1, Typing, PTL
=============================================================================
