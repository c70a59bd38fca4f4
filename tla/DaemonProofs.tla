---------------------------- MODULE DaemonProofs ---------------------------
(***************************************************************************)
(* Proofs about Daemon, for every set of credentials and principals, any   *)
(* number of concurrent requests and passes, and any bounds.               *)
(***************************************************************************)
EXTENDS Daemon, TLAPS, FiniteSetTheorems, WellFoundedInduction

-----------------------------------------------------------------------------
(* Chains.                                                                 *)

(* A chain lies inside every parent-closed set that holds its leaf: what   *)
(* BuildChain walks never leaves a store that has no dangling prf link.    *)
LEMMA ChainInClosed ==
    ASSUME NEW c \in CID, NEW S \in SUBSET CID, c \in S, ParentClosed(S)
    PROVE  Chain(c) \subseteq S
BY DEF Chain, Chains

(* A chain consists of credentials, and contains its leaf.                 *)
LEMMA ChainType ==
    ASSUME NEW c \in CID
    PROVE  Chain(c) \subseteq CID /\ c \in Chain(c)
BY DEF Chain, Chains

(* The subjects of a chain are subjects.                                   *)
LEMMA ChainSubjectsType ==
    ASSUME NEW c \in CID
    PROVE  ChainSubjects(c) \subseteq Subject
<1>1. \A a \in CID : Content[a].aud \in DID
  BY ContentAssumption DEF ContentType
<1> QED
  BY <1>1, ChainType DEF ChainSubjects, Subject

-----------------------------------------------------------------------------
(* The initial state is well typed.                                        *)
LEMMA InitTypeOK == Init => TypeOK
<1> SUFFICES ASSUME Init PROVE TypeOK
  OBVIOUS
<1>1. StoreTypeOK
  <2>1. index \subseteq CID \X CID
    BY SeededAssumption, ChainType DEF Init, StoreInit, ChainRows
  <2>2. entries \in [Subject -> Entry]
    BY DEF Init, StoreInit, NoEntry, Entry
  <2> QED
    BY <2>1, <2>2, SeededAssumption DEF Init, StoreInit, StoreTypeOK
<1>2. IssuingTypeOK
  BY DEF Init, IssuingInit, IssuingTypeOK, IdleIssue, IssueRecord
<1>3. RevokingTypeOK
  BY DEF Init, RevokingInit, RevokingTypeOK, IdleRevoke, RevokeRecord
<1>4. ReconcilingTypeOK
  BY DEF Init, ReconcilingInit, ReconcilingTypeOK, IdleReconcile, ReconcileRecord
<1>5. VerifyingTypeOK
  BY DEF Init, VerifyingInit, VerifyingTypeOK, IdleVerify, VerifyRecord
<1> QED
  BY <1>1, <1>2, <1>3, <1>4, <1>5 DEF Init, TypeOK

(* Each component's steps keep its own variables and the store well typed. *)
LEMMA IssuingType ==
    ASSUME StoreTypeOK, IssuingTypeOK, NEW t \in Issuers,
           IssueRequest(t) \/ IssueProgress(t) \/ IssuingFails(t)
    PROVE  StoreTypeOK' /\ IssuingTypeOK'
<1> USE DEF StoreTypeOK, IssuingTypeOK, IssueRecord, IdleIssue, storeVars
<1>0. issuing[t].pc # "idle" => issuing[t].cid \in CID
  OBVIOUS
<1>1. ASSUME NEW c \in CID, Issue(t, c) \/ Delegate(t, c)
      PROVE  StoreTypeOK' /\ IssuingTypeOK'
  BY <1>1 DEF Issue, Delegate, PutCredential
<1>2. CASE BuildDelegation(t)
  BY <1>0, <1>2 DEF BuildDelegation
<1>3. CASE RefuseDelegation(t)
  BY <1>0, <1>3 DEF RefuseDelegation
<1>4. CASE RegisterChain(t)
  BY <1>0, <1>4, ChainType DEF RegisterChain, Register
<1>5. CASE IssuingFails(t)
  BY <1>5 DEF IssuingFails, StoreFails
<1> QED
  BY <1>1, <1>2, <1>3, <1>4, <1>5 DEF IssueRequest, IssueProgress

(* Updating some fields of an active request leaves it an active request.  *)
LEMMA ActiveRevokeUpdate ==
    ASSUME NEW q \in ActiveRevoke, NEW D \in SUBSET CID, NEW P \in SUBSET EntryRow
    PROVE  /\ [q EXCEPT !.pc = "enumerate", !.posted = P] \in ActiveRevoke
           /\ [q EXCEPT !.pc = "next", !.todo = D] \in ActiveRevoke
           /\ [q EXCEPT !.pc = "next", !.posted = P] \in ActiveRevoke
BY DEF ActiveRevoke

LEMMA RevokingType ==
    ASSUME StoreTypeOK, RevokingTypeOK, NEW t \in Revokers,
           \/ \E s \in Subject, st \in Status : RevokeRequest(t, s, st)
           \/ RevokeProgress(t)
           \/ RevokingFails(t)
    PROVE  StoreTypeOK' /\ RevokingTypeOK'
<1> USE DEF StoreTypeOK, RevokingTypeOK, RevokeRecord, ActiveRevoke, IdleRevoke, storeVars
<1>0. /\ revoking[t].pc # "idle" => /\ revoking[t].row \in EntryRow
                                   /\ revoking[t].origin \in CID \cup {NoCID}
      /\ revoking[t].todo \subseteq CID
      /\ revoking[t].posted \subseteq EntryRow
      /\ revoking[t].known \subseteq CID
  OBVIOUS
<1>e. /\ revoking[t].pc # "idle" => revoking[t] \in ActiveRevoke
      /\ revoking[t].pc # "idle" => {revoking[t].row} \subseteq EntryRow
      /\ revoking[t].pc # "idle" => revoking[t].posted \cup {revoking[t].row} \subseteq EntryRow
  OBVIOUS
<1>a. \A s : FindDescendants(s) \subseteq CID
  BY DEF FindDescendants
<1>b. \A s \in Subject : CurrentSeq(s) + 1 \in Nat
  BY DEF CurrentSeq, Entry
<1>c. CID \subseteq Subject
  BY DEF Subject
<1>d. ASSUME NEW rw \in EntryRow, Post(rw) PROVE entries' \in [Subject -> Entry]
  BY <1>d DEF Post, Revoke, EntryRow, Entry
<1>1. ASSUME NEW s \in Subject, NEW st \in Status, RevokeRequest(t, s, st)
      PROVE  StoreTypeOK' /\ RevokingTypeOK'
  <2>1. Row(s, CurrentSeq(s) + 1, st) \in EntryRow
    BY <1>b DEF Row, EntryRow
  <2> QED
    BY <1>1, <1>a, <2>1 DEF RevokeRequest
<1>2. CASE RevokeApply(t)
  BY <1>0, <1>2, <1>d DEF RevokeApply
<1>3. CASE RevokeConflict(t)
  BY <1>3 DEF RevokeConflict
<1>4. CASE CascadePrimary(t)
  <2>1. [revoking[t] EXCEPT !.pc = "enumerate", !.posted = {revoking[t].row}] \in ActiveRevoke
    <3>1. revoking[t] \in ActiveRevoke /\ {revoking[t].row} \in SUBSET EntryRow
      BY <1>4, <1>e DEF CascadePrimary
    <3> HIDE DEF ActiveRevoke
    <3> QED
      BY <3>1, ActiveRevokeUpdate
  <2>2. revoking' \in [Revokers -> RevokeRecord]
    BY <1>4, <2>1 DEF CascadePrimary
  <2> QED
    BY <1>0, <1>4, <1>d, <2>2 DEF CascadePrimary
<1>5. CASE CascadeEnumerate(t)
  <2>1. [revoking[t] EXCEPT !.pc = "next", !.todo = FindDescendants(revoking[t].origin)]
            \in ActiveRevoke
    <3>1. revoking[t] \in ActiveRevoke
      BY <1>5, <1>e DEF CascadeEnumerate
    <3> HIDE DEF ActiveRevoke
    <3> QED
      BY <3>1, <1>a, ActiveRevokeUpdate
  <2> QED
    BY <1>5, <2>1 DEF CascadeEnumerate
<1>6. ASSUME NEW d \in CID, CascadeRead(t, d)
      PROVE  StoreTypeOK' /\ RevokingTypeOK'
  <2>1. Row(d, CurrentSeq(d) + 1, "CASCADE") \in EntryRow
    BY <1>b, <1>c DEF Row, EntryRow, Status, Denying
  <2>2. [revoking[t] EXCEPT !.pc = "applyNext", !.row = Row(d, CurrentSeq(d) + 1, "CASCADE"),
                            !.todo = @ \ {d}] \in ActiveRevoke
    BY <1>0, <1>6, <2>1 DEF CascadeRead
  <2> QED
    BY <1>6, <2>2 DEF CascadeRead
<1>7. CASE CascadeDescendant(t)
  <2>1. [revoking[t] EXCEPT !.pc = "next", !.posted = @ \cup {revoking[t].row}] \in ActiveRevoke
    <3>1. /\ revoking[t] \in ActiveRevoke
          /\ revoking[t].posted \cup {revoking[t].row} \in SUBSET EntryRow
      BY <1>7, <1>e DEF CascadeDescendant
    <3> HIDE DEF ActiveRevoke
    <3> DEFINE P == revoking[t].posted \cup {revoking[t].row}
    <3>2. [revoking[t] EXCEPT !.pc = "next", !.posted = P] \in ActiveRevoke
      BY <3>1, ActiveRevokeUpdate
    <3> QED
      BY <3>2
  <2> QED
    BY <1>0, <1>7, <1>d, <2>1 DEF CascadeDescendant
<1>8. CASE CascadeDone(t)
  BY <1>0, <1>8 DEF CascadeDone
<1>9. CASE RevokingFails(t)
  BY <1>9 DEF RevokingFails, StoreFails
<1> QED
  BY <1>1, <1>2, <1>3, <1>4, <1>5, <1>6, <1>7, <1>8, <1>9 DEF RevokeProgress

LEMMA ReconcilingType ==
    ASSUME StoreTypeOK, ReconcilingTypeOK, NEW r \in Reconcilers,
           ReconcileStart(r) \/ ReconcileProgress(r) \/ ReconcileDone(r)
    PROVE  StoreTypeOK' /\ ReconcilingTypeOK'
<1> USE DEF StoreTypeOK, ReconcilingTypeOK, ReconcileRecord, IdleReconcile, storeVars
<1>0. /\ reconciling[r].at \in CID \cup {NoCID}
      /\ reconciling[r].at # NoCID => reconciling[r].cid \in CID
      /\ reconciling[r].todo \subseteq CID
      /\ reconciling[r].repairs \in Nat
      /\ reconciling[r].pc = "idle" => reconciling[r].at = NoCID /\ reconciling[r].todo = {}
      /\ reconciling[r].pc # "idle" =>
            reconciling[r] \in [pc : {"walk"}, todo : SUBSET CID, cid : CID \cup {NoCID},
                                at : CID \cup {NoCID}, repairs : Nat, clean : BOOLEAN]
  OBVIOUS
<1>a. \A c \in CID : Parent(c) \in CID \cup {NoCID}
  BY ContentAssumption DEF Parent, ContentType
<1>1. CASE ReconcileStart(r)
  <2>1. (\A c \in stored : Indexed(c)) \in BOOLEAN
    OBVIOUS
  <2> DEFINE new == [pc |-> "walk", todo |-> stored, cid |-> NoCID, at |-> NoCID,
                     repairs |-> 0, clean |-> \A c \in stored : Indexed(c)]
  <2>2. new \in ReconcileRecord
    BY <2>1
  <2>3. reconciling' = [reconciling EXCEPT ![r] = new]
    BY <1>1 DEF ReconcileStart
  <2>4. new.at = NoCID
    OBVIOUS
  <2> HIDE DEF new
  <2> QED
    BY <1>1, <2>2, <2>3, <2>4 DEF ReconcileStart
<1>2. ASSUME NEW c \in CID, ReconcileChain(r, c)
      PROVE  StoreTypeOK' /\ ReconcilingTypeOK'
  <2> DEFINE new == [reconciling[r] EXCEPT !.todo = @ \ {c}, !.cid = c, !.at = c]
  <2>1. new \in ReconcileRecord /\ new.cid \in CID
    BY <1>0, <1>2 DEF ReconcileChain
  <2>2. reconciling' = [reconciling EXCEPT ![r] = new]
    BY <1>2 DEF ReconcileChain
  <2> HIDE DEF new
  <2> QED
    <3>1. reconciling' \in [Reconcilers -> ReconcileRecord]
      BY <2>1, <2>2
    <3>2. \A q \in Reconcilers : reconciling'[q].at # NoCID => reconciling'[q].cid \in CID
      BY <2>1, <2>2
    <3>3. StoreTypeOK'
      BY <1>2 DEF ReconcileChain
    <3> QED
      BY <3>1, <3>2, <3>3
<1>3. ASSUME NEW c \in CID, ReconcileSkip(r, c)
      PROVE  StoreTypeOK' /\ ReconcilingTypeOK'
  <2> DEFINE new == [reconciling[r] EXCEPT !.todo = @ \ {c}]
  <2>1. new \in ReconcileRecord /\ new.at = NoCID
    BY <1>0, <1>3 DEF ReconcileSkip
  <2>2. reconciling' = [reconciling EXCEPT ![r] = new]
    BY <1>3 DEF ReconcileSkip
  <2> HIDE DEF new
  <2> QED
    BY <1>3, <2>1, <2>2 DEF ReconcileSkip, StoreFails
<1>4. CASE ReconcilePresent(r) \/ ReconcileError(r)
  <2> DEFINE new == [reconciling[r] EXCEPT !.at = Parent(@)]
  <2>1. new \in ReconcileRecord /\ new.cid \in CID
    BY <1>0, <1>4, <1>a DEF ReconcilePresent, ReconcileError
  <2>2. reconciling' = [reconciling EXCEPT ![r] = new]
    BY <1>4 DEF ReconcilePresent, ReconcileError
  <2> HIDE DEF new
  <2> QED
    BY <1>4, <2>1, <2>2 DEF ReconcilePresent, ReconcileError, StoreFails
<1>5. CASE ReconcileRepair(r)
  <2> DEFINE new == [reconciling[r] EXCEPT !.at = Parent(@), !.repairs = @ + 1]
  <2>1. new \in ReconcileRecord /\ new.cid \in CID
    BY <1>0, <1>5, <1>a DEF ReconcileRepair
  <2>2. reconciling' = [reconciling EXCEPT ![r] = new]
    BY <1>5 DEF ReconcileRepair
  <2>3. index' \subseteq CID \X CID
    BY <1>0, <1>5 DEF ReconcileRepair, Register
  <2> HIDE DEF new
  <2> QED
    BY <1>5, <2>1, <2>2, <2>3 DEF ReconcileRepair, StoreFails
<1>6. CASE ReconcileDone(r)
  BY <1>6 DEF ReconcileDone
<1> QED
  BY <1>1, <1>2, <1>3, <1>4, <1>5, <1>6 DEF ReconcileProgress

LEMMA VerifyingType ==
    ASSUME StoreTypeOK, VerifyingTypeOK, NEW v \in Verifiers,
           VerifyRequest(v) \/ VerifyProgress(v)
    PROVE  StoreTypeOK' /\ VerifyingTypeOK'
<1> USE DEF StoreTypeOK, VerifyingTypeOK, VerifyRecord, IdleVerify, storeVars
<1>0. /\ verifying[v].todo \subseteq Subject
      /\ verifying[v].skipped \subseteq Subject
      /\ verifying[v].todo # {} \/ verifying[v].pc # "idle" =>
            verifying[v] \in [pc : {"lookup", "allowed"}, leaf : CID, tier : Tiers,
                              todo : SUBSET Subject, skipped : SUBSET Subject]
  OBVIOUS
<1>1. ASSUME NEW c \in CID, NEW tier \in Tiers, VerifyStart(v, c, tier)
      PROVE  StoreTypeOK' /\ VerifyingTypeOK'
  BY <1>1, ChainSubjectsType DEF VerifyStart
<1>2. ASSUME NEW s \in Subject, LookupActive(v, s)
      PROVE  StoreTypeOK' /\ VerifyingTypeOK'
  BY <1>0, <1>2 DEF LookupActive
<1>3. ASSUME NEW s \in Subject, LookupDenied(v, s)
      PROVE  StoreTypeOK' /\ VerifyingTypeOK'
  BY <1>3 DEF LookupDenied
<1>4. ASSUME NEW s \in Subject, LookupFails(v, s)
      PROVE  StoreTypeOK' /\ VerifyingTypeOK'
  <2>1. [verifying[v] EXCEPT !.todo = @ \ {s}, !.skipped = @ \cup {s}] \in VerifyRecord
    BY <1>0, <1>4 DEF LookupFails
  <2>2. verifying' \in [Verifiers -> VerifyRecord]
    <3>1. CASE verifying[v].tier = "HIGH"
      BY <1>4, <3>1 DEF LookupFails
    <3>2. CASE verifying[v].tier # "HIGH"
      BY <1>4, <2>1, <3>2 DEF LookupFails
    <3> QED
      BY <3>1, <3>2
  <2>3. StoreTypeOK'
    BY <1>4 DEF LookupFails, StoreFails
  <2> QED
    BY <2>2, <2>3
<1>5. CASE VerifyAllow(v)
  BY <1>0, <1>5 DEF VerifyAllow
<1>6. CASE VerifyReject(v) \/ VerifyReply(v)
  BY <1>6 DEF VerifyReject, VerifyReply
<1> QED
  BY <1>1, <1>2, <1>3, <1>4, <1>5, <1>6 DEF VerifyRequest, VerifyProgress

(* The variables Observe and the process itself keep.                      *)
LEMMA BlockedType ==
    ASSUME TypeOK, StoreTypeOK', Observe
    PROVE  blocked' \in [Verifiers -> SUBSET Subject]
<1>1. DeniedSubjects' \subseteq Subject
  BY DEF DeniedSubjects
<1>2. \A v \in Verifiers : blocked[v] \subseteq Subject
  BY DEF TypeOK
<1> QED
  BY <1>1, <1>2 DEF Observe

(* Every step keeps every variable well typed.                             *)
LEMMA NextTypeOK == TypeOK /\ [Next]_vars => TypeOK'
<1> SUFFICES ASSUME TypeOK, [Next]_vars PROVE TypeOK'
  OBVIOUS
<1>0. CASE UNCHANGED vars
  BY <1>0 DEF TypeOK, vars, storeVars, issuingVars, revokingVars, StoreTypeOK,
              IssuingTypeOK, RevokingTypeOK, ReconcilingTypeOK, VerifyingTypeOK
<1>a. ASSUME UNCHANGED issuingVars PROVE IssuingTypeOK'
  BY <1>a DEF TypeOK, issuingVars, IssuingTypeOK
<1>b. ASSUME UNCHANGED revokingVars PROVE RevokingTypeOK'
  BY <1>b DEF TypeOK, revokingVars, RevokingTypeOK
<1>c. ASSUME UNCHANGED reconciling PROVE ReconcilingTypeOK'
  BY <1>c DEF TypeOK, ReconcilingTypeOK
<1>d. ASSUME UNCHANGED verifying PROVE VerifyingTypeOK'
  BY <1>d DEF TypeOK, VerifyingTypeOK
<1> DEFINE Others == /\ StoreTypeOK' /\ IssuingTypeOK' /\ RevokingTypeOK'
                     /\ ReconcilingTypeOK' /\ VerifyingTypeOK'
                     /\ up' \in BOOLEAN /\ crashes' \in Nat
<1>1. ASSUME NEW t \in Issuers, IssuerStep(t) PROVE Others
  BY <1>1, <1>b, <1>c, <1>d, IssuingType DEF IssuerStep, TypeOK
<1>2. ASSUME NEW t \in Revokers, RevokerStep(t) PROVE Others
  BY <1>2, <1>a, <1>c, <1>d, RevokingType, DaemonAssumption DEF RevokerStep, TypeOK
<1>3. ASSUME NEW v \in Verifiers, VerifierStep(v) PROVE Others
  BY <1>3, <1>a, <1>b, <1>c, VerifyingType DEF VerifierStep, TypeOK
<1>4. ASSUME NEW r \in Reconcilers, ReconcilerStep(r) PROVE Others
  BY <1>4, <1>a, <1>b, <1>d, ReconcilingType DEF ReconcilerStep, TypeOK
<1>5. ASSUME BootStep PROVE Others
  <2>1. StoreTypeOK' /\ ReconcilingTypeOK'
    BY <1>5, ReconcilingType, DaemonAssumption DEF BootStep, TypeOK
  <2> QED
    BY <1>5, <2>1, <1>a, <1>b, <1>d DEF BootStep, TypeOK
<1>6. ASSUME BootFails PROVE Others
  <2>1. StoreTypeOK'
    BY <1>6 DEF BootFails, StoreFails, TypeOK, StoreTypeOK
  <2> QED
    BY <1>6, <2>1, <1>a, <1>b, <1>c, <1>d DEF BootFails, TypeOK
<1>7. ASSUME Crash PROVE Others
  <2>1. StoreTypeOK'
    BY <1>7 DEF Crash, storeVars, TypeOK, StoreTypeOK
  <2>2. IssuingTypeOK'
    BY <1>7 DEF Crash, TypeOK, IssuingTypeOK, IssueRecord
  <2>3. RevokingTypeOK'
    BY <1>7 DEF Crash, TypeOK, RevokingTypeOK, RevokeRecord
  <2>4. ReconcilingTypeOK'
    BY <1>7 DEF Crash, ReconcilingTypeOK, ReconcileRecord, IdleReconcile
  <2>5. VerifyingTypeOK'
    BY <1>7 DEF Crash, VerifyingTypeOK, VerifyRecord
  <2>6. up' \in BOOLEAN /\ crashes' \in Nat
    <3>1. crashes \in Nat /\ crashes' = crashes + 1 /\ up' = FALSE
      BY <1>7 DEF Crash, TypeOK
    <3>2. crashes' \in Nat
      BY <3>1, SMT
    <3>3. up' \in BOOLEAN
      BY <3>1, Zenon
    <3> QED
      BY <3>2, <3>3
  <2> QED
    BY <2>1, <2>2, <2>3, <2>4, <2>5, <2>6
<1>8. CASE Next
  <2>1. Others /\ Observe
    BY <1>8, <1>1, <1>2, <1>3, <1>4, <1>5, <1>6, <1>7 DEF Next, Step
  <2> QED
    BY <2>1, BlockedType DEF TypeOK
<1> QED
  BY <1>0, <1>8

(* Every reachable state is well typed.                                    *)
THEOREM TypeCorrect == Spec => []TypeOK
BY InitTypeOK, NextTypeOK, PTL DEF Spec

-----------------------------------------------------------------------------
(***************************************************************************)
(* The revocation guarantee.  While request v is looking subjects up, a    *)
(* subject of its chain that has been denied ever since it arrived has not *)
(* been looked up with success: it is still to do, or its lookup failed.   *)
(***************************************************************************)
LookupInv ==
    \A v \in Verifiers :
        verifying[v].pc # "idle" =>
            /\ blocked[v] \cap ChainSubjects(verifying[v].leaf)
                    \subseteq verifying[v].todo \cup verifying[v].skipped
            /\ verifying[v].pc = "allowed" => verifying[v].todo = {}
            /\ verifying[v].tier = "HIGH" => verifying[v].skipped = {}

(* A step of request v itself.                                             *)
LEMMA LookupStep ==
    ASSUME TypeOK, LookupInv, NEW v \in Verifiers, VerifierStep(v), Observe
    PROVE  verifying'[v].pc # "idle" =>
               /\ blocked'[v] \cap ChainSubjects(verifying'[v].leaf)
                       \subseteq verifying'[v].todo \cup verifying'[v].skipped
               /\ verifying'[v].pc = "allowed" => verifying'[v].todo = {}
               /\ verifying'[v].tier = "HIGH" => verifying'[v].skipped = {}
<1> DEFINE G == verifying'[v].pc # "idle" =>
               /\ blocked'[v] \cap ChainSubjects(verifying'[v].leaf)
                       \subseteq verifying'[v].todo \cup verifying'[v].skipped
               /\ verifying'[v].pc = "allowed" => verifying'[v].todo = {}
               /\ verifying'[v].tier = "HIGH" => verifying'[v].skipped = {}
<1>0. verifying[v] \in VerifyRecord /\ VerifyingTypeOK
  BY DEF TypeOK, VerifyingTypeOK
<1>i. verifying[v].pc # "idle" =>
          /\ blocked[v] \cap ChainSubjects(verifying[v].leaf)
                  \subseteq verifying[v].todo \cup verifying[v].skipped
          /\ verifying[v].pc = "allowed" => verifying[v].todo = {}
          /\ verifying[v].tier = "HIGH" => verifying[v].skipped = {}
  BY DEF LookupInv
<1>b. /\ verifying[v].pc # "idle" => blocked'[v] \subseteq blocked[v]
      /\ blocked'[v] \subseteq DeniedSubjects'
  BY DEF Observe
<1>1. ASSUME NEW c \in CID, NEW tier \in Tiers, VerifyStart(v, c, tier) PROVE G
  <2>1. /\ verifying'[v].leaf = c /\ verifying'[v].todo = ChainSubjects(c)
        /\ verifying'[v].pc = "lookup" /\ verifying'[v].skipped = {}
    BY <1>0, <1>1 DEF VerifyStart, VerifyingTypeOK
  <2> QED
    BY <2>1
<1>2. ASSUME NEW s \in Subject, LookupActive(v, s) PROVE G
  <2>1. s \notin DeniedSubjects'
    BY <1>2 DEF LookupActive, storeVars, DeniedSubjects, Denied
  <2>2. /\ verifying'[v].leaf = verifying[v].leaf
        /\ verifying'[v].todo = verifying[v].todo \ {s}
        /\ verifying'[v].pc = verifying[v].pc
        /\ verifying'[v].tier = verifying[v].tier
        /\ verifying'[v].skipped = verifying[v].skipped
    BY <1>0, <1>2 DEF LookupActive, VerifyingTypeOK, VerifyRecord, IdleVerify
  <2> QED
    BY <1>b, <1>i, <2>1, <2>2
<1>3. ASSUME NEW s \in Subject, LookupDenied(v, s) PROVE G
  BY <1>0, <1>3 DEF LookupDenied, VerifyingTypeOK, IdleVerify
<1>4. ASSUME NEW s \in Subject, LookupFails(v, s) PROVE G
  <2>1. CASE verifying[v].tier = "HIGH"
    BY <1>0, <1>4, <2>1 DEF LookupFails, VerifyingTypeOK, IdleVerify
  <2>2. CASE verifying[v].tier # "HIGH"
    <3>1. /\ verifying'[v].leaf = verifying[v].leaf
          /\ verifying'[v].todo = verifying[v].todo \ {s}
          /\ verifying'[v].pc = verifying[v].pc
          /\ verifying'[v].tier = verifying[v].tier
          /\ verifying'[v].skipped = verifying[v].skipped \cup {s}
      BY <1>0, <1>4, <2>2 DEF LookupFails, VerifyingTypeOK, VerifyRecord, IdleVerify
    <3> QED
      BY <1>b, <1>i, <2>2, <3>1
  <2> QED
    BY <2>1, <2>2
<1>5. CASE VerifyAllow(v)
  <2>1. /\ verifying'[v].leaf = verifying[v].leaf
        /\ verifying'[v].todo = verifying[v].todo
        /\ verifying'[v].skipped = verifying[v].skipped
        /\ verifying'[v].tier = verifying[v].tier
        /\ verifying[v].todo = {} /\ verifying[v].pc # "idle"
    BY <1>0, <1>5 DEF VerifyAllow, VerifyingTypeOK, VerifyRecord, IdleVerify
  <2> QED
    BY <1>b, <1>i, <2>1
<1>6. CASE VerifyReject(v) \/ VerifyReply(v)
  BY <1>0, <1>6 DEF VerifyReject, VerifyReply, VerifyingTypeOK, IdleVerify
<1> QED
  BY <1>1, <1>2, <1>3, <1>4, <1>5, <1>6
     DEF VerifierStep, VerifyRequest, VerifyProgress

(* A step leaves the local variables of verify request v alone, is v's     *)
(* own, or is the crash that ends it.                                      *)
LEMMA VerifyFrame ==
    ASSUME TypeOK, Step, NEW v \in Verifiers
    PROVE  \/ verifying'[v] = verifying[v]
           \/ VerifierStep(v)
           \/ verifying'[v] = IdleVerify
<1>1. ASSUME NEW u \in Verifiers, u # v, VerifierStep(u)
      PROVE  verifying'[v] = verifying[v]
  BY <1>1 DEF VerifierStep, VerifyRequest, VerifyProgress, VerifyStart, LookupActive,
              LookupDenied, LookupFails, VerifyAllow, VerifyReject, VerifyReply,
              TypeOK, VerifyingTypeOK
<1>2. CASE \/ \E t \in Issuers : IssuerStep(t)
           \/ \E t \in Revokers : RevokerStep(t)
           \/ \E r \in Reconcilers : ReconcilerStep(r)
           \/ BootStep
           \/ BootFails
  BY <1>2 DEF IssuerStep, RevokerStep, ReconcilerStep, BootStep, BootFails
<1>3. CASE Crash
  BY <1>3 DEF Crash
<1> QED
  BY <1>1, <1>2, <1>3 DEF Step

LEMMA LookupInvariant == TypeOK /\ LookupInv /\ [Next]_vars => LookupInv'
<1> SUFFICES ASSUME TypeOK, LookupInv, [Next]_vars PROVE LookupInv'
  OBVIOUS
<1>1. CASE UNCHANGED vars
  BY <1>1 DEF vars, LookupInv
<1>2. CASE Next
  <2> SUFFICES ASSUME NEW v \in Verifiers, verifying'[v].pc # "idle"
               PROVE  /\ blocked'[v] \cap ChainSubjects(verifying'[v].leaf)
                              \subseteq verifying'[v].todo \cup verifying'[v].skipped
                      /\ verifying'[v].pc = "allowed" => verifying'[v].todo = {}
                      /\ verifying'[v].tier = "HIGH" => verifying'[v].skipped = {}
    BY DEF LookupInv
  <2>0. Step /\ Observe
    BY <1>2 DEF Next
  <2>1. CASE verifying'[v] = verifying[v]
    <3>1. blocked'[v] \subseteq blocked[v]
      BY <2>0, <2>1 DEF Observe
    <3> QED
      BY <2>1, <3>1 DEF LookupInv
  <2>2. CASE VerifierStep(v)
    BY <2>0, <2>2, LookupStep
  <2>3. CASE verifying'[v] = IdleVerify
    BY <2>3 DEF IdleVerify
  <2> QED
    BY <2>0, <2>1, <2>2, <2>3, VerifyFrame
<1> QED
  BY <1>1, <1>2

(* At every tier, a CID or audience of the chain that is denied throughout *)
(* a verification is never passed over, unless its lookup failed; at HIGH  *)
(* no lookup of an authorized chain has failed.                            *)
THEOREM RevocationGuarantee == Spec => []RevokedNeverAuthorized
<1>1. Init => LookupInv
  BY DEF Init, VerifyingInit, IdleVerify, LookupInv
<1>2. LookupInv => RevokedNeverAuthorized
  BY DEF LookupInv, RevokedNeverAuthorized
<1> QED
  BY <1>1, <1>2, TypeCorrect, LookupInvariant, PTL DEF Spec

-----------------------------------------------------------------------------
(* Revocation entries.                                                     *)

(* A row is in force: it is its subject's latest entry or superseded.      *)
InForce(r) ==
    \/ entries[r.subject].seq > r.seq
    \/ entries[r.subject] = [seq |-> r.seq, status |-> r.status]

(* Both what was acknowledged and what a cascade has posted so far is in   *)
(* force; and a row about to be posted is at most one step ahead.          *)
EntryInv ==
    /\ \A r \in acked : InForce(r)
    /\ \A t \in Revokers : \A r \in revoking[t].posted : InForce(r)
    /\ \A t \in Revokers :
            revoking[t].pc \in {"apply", "applyNext"} =>
                revoking[t].row.seq <= entries[revoking[t].row.subject].seq + 1

(* Posting a row leaves every row in force, puts it in force, and never    *)
(* lowers a sequence number.                                               *)
LEMMA PostKeepsForce ==
    ASSUME StoreTypeOK, NEW q \in EntryRow, Post(q), NEW r \in EntryRow
    PROVE  /\ InForce(r) => InForce(r)'
           /\ InForce(q)'
           /\ entries'[r.subject].seq >= entries[r.subject].seq
<1>1. /\ q.seq > entries[q.subject].seq
      /\ entries' = [entries EXCEPT ![q.subject] = [seq |-> q.seq, status |-> q.status]]
      /\ q.subject \in Subject /\ r.subject \in Subject
      /\ q.seq \in Nat /\ r.seq \in Nat
      /\ entries[r.subject].seq \in Nat
  BY DEF Post, Revoke, RevokeAccepts, EntryRow, StoreTypeOK, Entry
<1>2. CASE r.subject = q.subject
  BY <1>1, <1>2 DEF InForce, StoreTypeOK
<1>3. CASE r.subject # q.subject
  BY <1>1, <1>3 DEF InForce, StoreTypeOK
<1> QED
  BY <1>2, <1>3, <1>1 DEF InForce, StoreTypeOK

(* A request that was just idle or is idle again holds no rows.            *)
LEMMA EntryStutter ==
    ASSUME EntryInv, UNCHANGED <<entries, acked>>,
           \A t \in Revokers : revoking'[t] \in {revoking[t], IdleRevoke}
    PROVE  EntryInv'
<1>1. ASSUME NEW r PROVE InForce(r)' <=> InForce(r)
  BY DEF InForce
<1>2. \A t \in Revokers : \A r \in revoking'[t].posted : r \in revoking[t].posted
  BY DEF IdleRevoke
<1>3. \A t \in Revokers :
        revoking'[t].pc \in {"apply", "applyNext"} => revoking'[t] = revoking[t]
  BY DEF IdleRevoke
<1> QED
  BY <1>1, <1>2, <1>3 DEF EntryInv

(* What a step of one request must show of that request to keep EntryInv:  *)
(* either the entries are as they were, or it has posted its own row.      *)
LEMMA EntryFrame ==
    ASSUME TypeOK, TypeOK', EntryInv, NEW t \in Revokers,
           \/ UNCHANGED entries
           \/ /\ Post(revoking[t].row)
              /\ revoking[t].row \in EntryRow,
           \A u \in Revokers \ {t} : revoking'[u] = revoking[u],
           \A r \in acked' \cup revoking'[t].posted :
                r \in acked \cup revoking[t].posted \/ InForce(r)',
           revoking'[t].pc \in {"apply", "applyNext"} =>
                revoking'[t].row.seq <= entries'[revoking'[t].row.subject].seq + 1
    PROVE  EntryInv'
<1>1. /\ acked \subseteq EntryRow
      /\ \A u \in Revokers : revoking[u].posted \subseteq EntryRow
      /\ \A u \in Revokers :
            revoking[u].pc \in {"apply", "applyNext"} => revoking[u].row \in EntryRow
  BY DEF TypeOK, RevokingTypeOK, RevokeRecord, IdleRevoke, ActiveRevoke
<1>2. ASSUME NEW r \in EntryRow
      PROVE  /\ InForce(r) => InForce(r)'
             /\ entries'[r.subject].seq >= entries[r.subject].seq
  <2>1. CASE UNCHANGED entries
    <3>1. entries[r.subject].seq \in Nat
      BY DEF TypeOK, StoreTypeOK, Entry, EntryRow
    <3> QED
      BY <2>1, <3>1 DEF InForce
  <2>2. CASE Post(revoking[t].row) /\ revoking[t].row \in EntryRow
    BY <2>2, PostKeepsForce DEF TypeOK
  <2> QED
    BY <2>1, <2>2
<1>3. \A r \in acked' \cup revoking'[t].posted : InForce(r)'
  BY <1>1, <1>2 DEF EntryInv
<1>4. ASSUME NEW u \in Revokers, NEW r \in revoking'[u].posted PROVE InForce(r)'
  BY <1>1, <1>2, <1>3, <1>4 DEF EntryInv
<1>5. ASSUME NEW u \in Revokers, revoking'[u].pc \in {"apply", "applyNext"}
      PROVE  revoking'[u].row.seq <= entries'[revoking'[u].row.subject].seq + 1
  <2>1. CASE u = t
    BY <1>5, <2>1
  <2>2. CASE u # t
    <3> DEFINE q == revoking[u].row
    <3>1. revoking'[u] = revoking[u] /\ q \in EntryRow
      BY <1>1, <1>5, <2>2
    <3>2. q.seq <= entries[q.subject].seq + 1
      BY <1>5, <3>1 DEF EntryInv
    <3>3. entries'[q.subject].seq >= entries[q.subject].seq
      BY <1>2, <3>1
    <3>4. /\ entries[q.subject].seq \in Nat /\ entries'[q.subject].seq \in Nat
          /\ q.seq \in Nat
      BY <3>1 DEF TypeOK, StoreTypeOK, Entry, EntryRow
    <3>5. q.seq <= entries'[q.subject].seq + 1
      BY <3>2, <3>3, <3>4
    <3> QED
      BY <3>1, <3>5
  <2> QED
    BY <2>1, <2>2
<1> QED
  BY <1>3, <1>4, <1>5 DEF EntryInv

LEMMA EntryStep ==
    ASSUME TypeOK, TypeOK', EntryInv, NEW t \in Revokers, RevokerStep(t)
    PROVE  EntryInv'
<1>0. /\ revoking \in [Revokers -> RevokeRecord]
      /\ revoking[t].pc # "idle" => revoking[t].row \in EntryRow
      /\ \A s \in Subject : entries[s].seq \in Nat
  BY DEF TypeOK, StoreTypeOK, Entry, RevokingTypeOK, RevokeRecord, IdleRevoke, ActiveRevoke
<1> USE DEF RevokeRecord, ActiveRevoke, IdleRevoke
<1>1. ASSUME NEW s \in Subject, NEW st \in RevokeStatuses, RevokeRequest(t, s, st)
      PROVE  EntryInv'
  <2>1. /\ revoking'[t].row = Row(s, entries[s].seq + 1, st)
        /\ revoking'[t].posted = {}
        /\ \A u \in Revokers \ {t} : revoking'[u] = revoking[u]
        /\ UNCHANGED <<entries, acked>>
    BY <1>0, <1>1 DEF RevokeRequest, storeVars, CurrentSeq
  <2>2. revoking'[t].row.seq <= entries'[revoking'[t].row.subject].seq + 1
    BY <1>0, <2>1 DEF Row
  <2> QED
    BY <2>1, <2>2, EntryFrame
<1>2. CASE RevokeApply(t)
  <2>1. /\ revoking'[t].posted = {} /\ revoking'[t].pc = "idle"
        /\ \A u \in Revokers \ {t} : revoking'[u] = revoking[u]
        /\ Post(revoking[t].row) /\ revoking[t].row \in EntryRow
        /\ acked' = acked \cup {revoking[t].row}
    BY <1>0, <1>2 DEF RevokeApply
  <2>2. \A q : q = revoking[t].row => InForce(q)'
    BY <2>1, PostKeepsForce DEF TypeOK
  <2> QED
    BY <2>1, <2>2, EntryFrame
<1>3. CASE CascadePrimary(t) \/ CascadeDescendant(t)
  <2>1. /\ revoking'[t].posted \subseteq revoking[t].posted \cup {revoking[t].row}
        /\ revoking'[t].pc \in {"enumerate", "next"}
        /\ \A u \in Revokers \ {t} : revoking'[u] = revoking[u]
        /\ Post(revoking[t].row) /\ revoking[t].row \in EntryRow
        /\ UNCHANGED acked
    BY <1>0, <1>3 DEF CascadePrimary, CascadeDescendant
  <2>2. \A q : q = revoking[t].row => InForce(q)'
    BY <2>1, PostKeepsForce DEF TypeOK
  <2> QED
    BY <2>1, <2>2, EntryFrame
<1>4. CASE CascadeEnumerate(t)
  <2>1. /\ revoking'[t].posted = revoking[t].posted /\ revoking'[t].pc = "next"
        /\ \A u \in Revokers \ {t} : revoking'[u] = revoking[u]
        /\ UNCHANGED <<entries, acked>>
    BY <1>0, <1>4 DEF CascadeEnumerate, storeVars
  <2> QED
    BY <2>1, EntryFrame
<1>5. ASSUME NEW d \in CID, CascadeRead(t, d) PROVE EntryInv'
  <2>1. /\ revoking'[t].row = Row(d, entries[d].seq + 1, "CASCADE")
        /\ revoking'[t].posted = revoking[t].posted
        /\ \A u \in Revokers \ {t} : revoking'[u] = revoking[u]
        /\ UNCHANGED <<entries, acked>>
    BY <1>0, <1>5 DEF CascadeRead, storeVars, CurrentSeq
  <2>2. revoking'[t].row.seq <= entries'[revoking'[t].row.subject].seq + 1
    BY <1>0, <2>1 DEF Row, Subject
  <2> QED
    BY <2>1, <2>2, EntryFrame
<1>6. CASE CascadeDone(t)
  <2>1. /\ revoking'[t].posted = {} /\ revoking'[t].pc = "idle"
        /\ \A u \in Revokers \ {t} : revoking'[u] = revoking[u]
        /\ UNCHANGED entries
        /\ acked' = acked \cup revoking[t].posted
    BY <1>0, <1>6 DEF CascadeDone, storeVars
  <2> QED
    BY <2>1, EntryFrame
<1>7. CASE RevokeConflict(t) \/ RevokingFails(t)
  <2>1. /\ UNCHANGED <<entries, acked>>
        /\ \A u \in Revokers : revoking'[u] \in {revoking[u], IdleRevoke}
    BY <1>0, <1>7 DEF RevokeConflict, RevokingFails, storeVars
  <2> QED
    BY <2>1, EntryStutter
<1> QED
  BY <1>1, <1>2, <1>3, <1>4, <1>5, <1>6, <1>7 DEF RevokerStep, RevokeProgress

(* No step but a revoke request's own touches the entries, and only a      *)
(* crash touches the requests besides.                                     *)
LEMMA EntriesFrame ==
    ASSUME [Next]_vars
    PROVE  \/ \E t \in Revokers : RevokerStep(t)
           \/ /\ UNCHANGED <<entries, acked>>
              /\ UNCHANGED revoking \/ revoking' = [t \in Revokers |-> IdleRevoke]
<1> USE DEF storeVars, revokingVars
<1>0. CASE UNCHANGED vars
  BY <1>0 DEF vars
<1>1. ASSUME NEW t \in Issuers, IssuerStep(t) PROVE UNCHANGED <<entries, acked, revoking>>
  BY <1>1 DEF IssuerStep, IssueRequest, Issue, Delegate, IssueProgress, BuildDelegation,
              RefuseDelegation, RegisterChain, IssuingFails
<1>2. ASSUME NEW v \in Verifiers, VerifierStep(v) PROVE UNCHANGED <<entries, acked, revoking>>
  BY <1>2 DEF VerifierStep, VerifyRequest, VerifyProgress, VerifyStart, LookupActive,
              LookupDenied, LookupFails, VerifyAllow, VerifyReject, VerifyReply
<1>3. ASSUME NEW r \in Reconcilers,
             ReconcileStart(r) \/ ReconcileProgress(r) \/ ReconcileDone(r)
      PROVE  UNCHANGED entries
  BY <1>3 DEF ReconcileStart, ReconcileProgress, ReconcileDone, ReconcileChain,
              ReconcileSkip, ReconcilePresent, ReconcileRepair, ReconcileError
<1>4. ASSUME NEW r \in Reconcilers, ReconcilerStep(r)
      PROVE  UNCHANGED <<entries, acked, revoking>>
  BY <1>3, <1>4 DEF ReconcilerStep
<1>5. ASSUME BootStep PROVE UNCHANGED <<entries, acked, revoking>>
  BY <1>3, <1>5, DaemonAssumption DEF BootStep
<1>6. ASSUME BootFails PROVE UNCHANGED <<entries, acked, revoking>>
  BY <1>6 DEF BootFails
<1>7. ASSUME Crash PROVE /\ UNCHANGED <<entries, acked>>
                         /\ revoking' = [t \in Revokers |-> IdleRevoke]
  BY <1>7 DEF Crash
<1> QED
  BY <1>0, <1>1, <1>2, <1>4, <1>5, <1>6, <1>7 DEF Next, Step

LEMMA EntryInvariant == TypeOK /\ TypeOK' /\ EntryInv /\ [Next]_vars => EntryInv'
<1> SUFFICES ASSUME TypeOK, TypeOK', EntryInv, [Next]_vars PROVE EntryInv'
  OBVIOUS
<1>1. CASE \E t \in Revokers : RevokerStep(t)
  BY <1>1, EntryStep
<1>2. CASE /\ UNCHANGED <<entries, acked>>
           /\ UNCHANGED revoking \/ revoking' = [t \in Revokers |-> IdleRevoke]
  BY <1>2, EntryStutter
<1> QED
  BY <1>1, <1>2, EntriesFrame

LEMMA EntryInvCorrect == Spec => [](TypeOK /\ EntryInv)
<1>1. Init => EntryInv
  BY DEF Init, RevokingInit, IdleRevoke, EntryInv
<1> QED
  BY <1>1, InitTypeOK, NextTypeOK, EntryInvariant, PTL DEF Spec

(* Whatever handleRevoke answered 200 is in force for ever after, or has   *)
(* been superseded by a later sequence number of the same subject.         *)
THEOREM AcknowledgedStaysInForce == Spec => []AckedInForce
<1>1. EntryInv => AckedInForce
  BY DEF EntryInv, InForce, AckedInForce
<1> QED
  BY <1>1, EntryInvCorrect, PTL

(* Entries move one sequence number at a time, and only by a request that  *)
(* read the number they still had: nothing is overwritten unseen.          *)
THEOREM NothingStaleOverwrites == Spec => NoStaleOverwrite
<1> DEFINE A == \A s \in Subject :
        entries'[s] # entries[s] =>
            /\ entries'[s].seq = entries[s].seq + 1
            /\ \E t \in Revokers :
                /\ revoking[t].row.subject = s
                /\ revoking[t].row.seq = entries'[s].seq
                /\ revoking[t].row.status = entries'[s].status
<1>1. TypeOK /\ EntryInv /\ [Next]_vars => A
  <2> SUFFICES ASSUME TypeOK, EntryInv, [Next]_vars,
                      NEW s \in Subject, entries'[s] # entries[s]
               PROVE  /\ entries'[s].seq = entries[s].seq + 1
                      /\ \E t \in Revokers :
                            /\ revoking[t].row.subject = s
                            /\ revoking[t].row.seq = entries'[s].seq
                            /\ revoking[t].row.status = entries'[s].status
    OBVIOUS
  <2>1. PICK t \in Revokers : RevokerStep(t)
    BY EntriesFrame
  <2>2. Post(revoking[t].row) /\ revoking[t].pc \in {"apply", "applyNext"}
    BY <2>1 DEF RevokerStep, RevokeProgress, RevokeRequest, RevokeApply, RevokeConflict,
                CascadePrimary, CascadeEnumerate, CascadeRead, CascadeDescendant,
                CascadeDone, RevokingFails, storeVars
  <2> DEFINE q == revoking[t].row
  <2>3. q \in EntryRow
    BY <2>2 DEF TypeOK, RevokingTypeOK, RevokeRecord, IdleRevoke, ActiveRevoke
  <2>4. /\ entries' = [entries EXCEPT ![q.subject] = [seq |-> q.seq, status |-> q.status]]
        /\ q.seq > entries[q.subject].seq
    BY <2>2 DEF Post, Revoke, RevokeAccepts
  <2>5. /\ q.subject = s
        /\ entries'[s] = [seq |-> q.seq, status |-> q.status]
    BY <2>3, <2>4 DEF TypeOK, StoreTypeOK, EntryRow
  <2>6. q.seq <= entries[s].seq + 1
    BY <2>2, <2>5 DEF EntryInv
  <2>7. q.seq \in Nat /\ entries[s].seq \in Nat
    BY <2>3 DEF TypeOK, StoreTypeOK, Entry, EntryRow
  <2>8. q.seq = entries[s].seq + 1
    BY <2>4, <2>5, <2>6, <2>7
  <2> QED
    BY <2>5, <2>8
<1>2. Spec => [][A]_vars
  BY <1>1, EntryInvCorrect, PTL DEF Spec
<1> QED
  BY <1>2 DEF NoStaleOverwrite

-----------------------------------------------------------------------------
(* Credentials.                                                            *)

(* No prf link of a stored credential dangles.                             *)
ClosedInv == ParentClosed(stored)

(* The store only grows, and only by credentials whose parent it holds.    *)
LEMMA StoreGrows ==
    ASSUME ClosedInv, [Next]_vars
    PROVE  stored \subseteq stored' /\ ClosedInv'
<1> USE DEF storeVars
<1>1. ASSUME NEW c \in CID, stored' = stored \cup {c}, IsRoot(c) \/ Parent(c) \in stored
      PROVE  stored \subseteq stored' /\ ClosedInv'
  BY <1>1 DEF ClosedInv, ParentClosed
<1>2. ASSUME UNCHANGED stored PROVE stored \subseteq stored' /\ ClosedInv'
  BY <1>2 DEF ClosedInv
<1>3. CASE UNCHANGED vars
  BY <1>2, <1>3 DEF vars
<1>4. ASSUME NEW t \in Issuers, IssuerStep(t)
      PROVE  stored \subseteq stored' /\ ClosedInv'
  <2>1. ASSUME NEW c \in CID, Issue(t, c) \/ Delegate(t, c)
        PROVE  stored \subseteq stored' /\ ClosedInv'
    BY <1>1, <2>1 DEF Issue, Delegate, Issuable, PutCredential
  <2>2. CASE IssueProgress(t) \/ IssuingFails(t)
    BY <1>2, <2>2 DEF IssueProgress, BuildDelegation, RefuseDelegation, RegisterChain,
                      IssuingFails
  <2> QED
    BY <1>4, <2>1, <2>2 DEF IssuerStep, IssueRequest
<1>5. ASSUME NEW t \in Revokers, RevokerStep(t) PROVE UNCHANGED stored
  BY <1>5 DEF RevokerStep, RevokeProgress, RevokeRequest, RevokeApply, RevokeConflict,
              CascadePrimary, CascadeEnumerate, CascadeRead, CascadeDescendant,
              CascadeDone, RevokingFails
<1>6. ASSUME NEW v \in Verifiers, VerifierStep(v) PROVE UNCHANGED stored
  BY <1>6 DEF VerifierStep, VerifyRequest, VerifyProgress, VerifyStart, LookupActive,
              LookupDenied, LookupFails, VerifyAllow, VerifyReject, VerifyReply
<1>7. ASSUME NEW r \in Reconcilers,
             ReconcileStart(r) \/ ReconcileProgress(r) \/ ReconcileDone(r)
      PROVE  UNCHANGED stored
  BY <1>7 DEF ReconcileStart, ReconcileProgress, ReconcileDone, ReconcileChain,
              ReconcileSkip, ReconcilePresent, ReconcileRepair, ReconcileError
<1>8. ASSUME \/ \E r \in Reconcilers : ReconcilerStep(r)
             \/ BootStep
             \/ BootFails
             \/ Crash
      PROVE  UNCHANGED stored
  BY <1>7, <1>8, DaemonAssumption DEF ReconcilerStep, BootStep, BootFails, Crash
<1> QED
  BY <1>2, <1>3, <1>4, <1>5, <1>6, <1>8 DEF Next, Step

(* Step 1 never denies a credential of this daemon for a missing proof:    *)
(* whatever was stored, its whole chain is stored.                         *)
THEOREM ChainsAlwaysResolvable == Spec => []ChainsResolvable
<1>1. Init => ClosedInv
  BY SeededAssumption DEF Init, StoreInit, ClosedInv
<1>2. ClosedInv /\ [Next]_vars => ClosedInv'
  BY StoreGrows
<1>3. TypeOK /\ ClosedInv => ChainsResolvable
  BY ChainInClosed DEF TypeOK, StoreTypeOK, ClosedInv, ChainsResolvable
<1> QED
  BY <1>1, <1>2, <1>3, TypeCorrect, PTL DEF Spec

-----------------------------------------------------------------------------
(* The daemon implements the revocation ledger.                            *)


(* The initial states of the daemon are initial states of the ledger.      *)
LEMMA LedgerInit == Init => Ledger!Init
<1> SUFFICES ASSUME Init PROVE Ledger!Init
  OBVIOUS
<1>1. \A t \in Revokers : revoking[t].posted = {}
  BY DEF Init, RevokingInit, IdleRevoke
<1>2. Held = {}
  BY <1>1 DEF Held
<1> QED
  BY <1>2 DEF Init, StoreInit, RevokingInit, NoEntry, Ledger!Init

(* Requests that keep or lose what they have posted, with no entry posted  *)
(* and nothing answered but what one of them had posted, are the ledger's  *)
(* End.                                                                    *)
LEMMA LedgerEnd ==
    ASSUME UNCHANGED entries,
           \A t \in Revokers : revoking'[t].posted \subseteq revoking[t].posted,
           acked \subseteq acked',
           acked' \subseteq acked \cup Held
    PROVE  Ledger!Next
<1>1. Held' \subseteq Held
  BY DEF Held
<1> QED
  BY <1>1 DEF Ledger!Next, Ledger!End

(* A request that posts its row, which EntryInv shows to be the subject's  *)
(* next one, and holds it or is answered with it, is the ledger's Post.    *)
LEMMA LedgerPost ==
    ASSUME TypeOK, EntryInv, NEW t \in Revokers, Post(revoking[t].row),
           revoking[t].pc \in {"apply", "applyNext"},
           \A u \in Revokers :
                revoking'[u].posted \subseteq revoking[u].posted \cup {revoking[t].row},
           acked' \in {acked, acked \cup {revoking[t].row}}
    PROVE  Ledger!Next
<1> DEFINE q == revoking[t].row
<1>1. q \in EntryRow
  BY DEF TypeOK, RevokingTypeOK, RevokeRecord, IdleRevoke, ActiveRevoke
<1>2. /\ q.subject \in Subject /\ q.status \in Status /\ q.seq \in Nat
      /\ q = [subject |-> q.subject, seq |-> q.seq, status |-> q.status]
  BY <1>1 DEF EntryRow
<1>3. q.seq > entries[q.subject].seq /\ q.seq <= entries[q.subject].seq + 1
  BY DEF Post, Revoke, RevokeAccepts, EntryInv
<1>4. entries[q.subject].seq \in Nat
  BY <1>2 DEF TypeOK, StoreTypeOK, Entry
<1>5. q.seq = entries[q.subject].seq + 1
  BY <1>2, <1>3, <1>4
<1>6. entries' = [entries EXCEPT ![q.subject] =
                      [seq |-> entries[q.subject].seq + 1, status |-> q.status]]
  BY <1>5 DEF Post, Revoke
<1>7. q = [subject |-> q.subject, seq |-> entries[q.subject].seq + 1, status |-> q.status]
  BY <1>2, <1>5
<1>8. Held' \subseteq Held \cup {q}
  BY DEF Held
<1>9. acked' \in {acked, acked \cup {q}}
  OBVIOUS
<1> HIDE DEF q
<1>10. Ledger!Post(q.subject, q.status)
  BY <1>6, <1>7, <1>8, <1>9 DEF Ledger!Post
<1> QED
  BY <1>2, <1>10 DEF Ledger!Next

(* Every step of a revoke request is a step of the ledger.                 *)
LEMMA LedgerStep ==
    ASSUME TypeOK, EntryInv, NEW t \in Revokers, RevokerStep(t)
    PROVE  Ledger!Next
<1>0. revoking \in [Revokers -> RevokeRecord]
  BY DEF TypeOK, RevokingTypeOK
<1> USE DEF RevokeRecord, ActiveRevoke, IdleRevoke
<1>1. ASSUME NEW s \in Subject, NEW st \in RevokeStatuses, RevokeRequest(t, s, st)
      PROVE  Ledger!Next
  BY <1>0, <1>1, LedgerEnd DEF RevokeRequest, storeVars
<1>2. CASE RevokeApply(t) \/ CascadePrimary(t) \/ CascadeDescendant(t)
  <2>1. \A u \in Revokers :
            revoking'[u].posted \subseteq revoking[u].posted \cup {revoking[t].row}
    BY <1>0, <1>2 DEF RevokeApply, CascadePrimary, CascadeDescendant
  <2>2. /\ Post(revoking[t].row)
        /\ revoking[t].pc \in {"apply", "applyNext"}
        /\ acked' \in {acked, acked \cup {revoking[t].row}}
    BY <1>2 DEF RevokeApply, CascadePrimary, CascadeDescendant
  <2> QED
    BY <2>1, <2>2, LedgerPost
<1>3. CASE RevokeConflict(t) \/ RevokingFails(t) \/ CascadeEnumerate(t)
  BY <1>0, <1>3, LedgerEnd DEF RevokeConflict, RevokingFails, CascadeEnumerate, storeVars
<1>4. ASSUME NEW d \in CID, CascadeRead(t, d) PROVE Ledger!Next
  BY <1>0, <1>4, LedgerEnd DEF CascadeRead, storeVars
<1>5. CASE CascadeDone(t)
  <2>1. revoking[t].posted \subseteq Held
    BY DEF Held
  <2>2. \A u \in Revokers : revoking'[u].posted \subseteq revoking[u].posted
    BY <1>0, <1>5 DEF CascadeDone
  <2> QED
    BY <1>5, <2>1, <2>2, LedgerEnd DEF CascadeDone, storeVars
<1> QED
  BY <1>1, <1>2, <1>3, <1>4, <1>5 DEF RevokerStep, RevokeProgress

(* The other steps of the daemon lose requests at most.                    *)
LEMMA LedgerNext ==
    ASSUME TypeOK, EntryInv, [Next]_vars
    PROVE  Ledger!Next
<1>1. CASE \E t \in Revokers : RevokerStep(t)
  BY <1>1, LedgerStep
<1>2. CASE /\ UNCHANGED <<entries, acked>>
           /\ UNCHANGED revoking \/ revoking' = [t \in Revokers |-> IdleRevoke]
  BY <1>2, LedgerEnd DEF IdleRevoke
<1> QED
  BY <1>1, <1>2, EntriesFrame

(* However requests, cascades, errors and crashes interleave, the two      *)
(* store calls of a revocation come to one atomic posting of the subject's *)
(* next entry, and answers tell of entries that took effect.               *)
THEOREM DaemonImplementsLedger == Spec => ImplementsLedger
<1>1. Spec => [](TypeOK /\ EntryInv)
  BY EntryInvCorrect
<1>2. TypeOK /\ EntryInv /\ [Next]_vars => [Ledger!Next]_<<entries, Held, acked>>
  BY LedgerNext
<1>3. Spec => Ledger!Init /\ [][Ledger!Next]_<<entries, Held, acked>>
  BY <1>1, <1>2, LedgerInit, PTL DEF Spec
<1> QED
  BY <1>3 DEF ImplementsLedger, Ledger!Spec, Ledger!vars
-----------------------------------------------------------------------------
(* The registration index and what is built on it: cascades, limits,       *)
(* reconciliation, startup.  First, chains.                                *)

LEMMA ParentType ==
    ASSUME NEW c \in CID, ~IsRoot(c)
    PROVE  Parent(c) \in CID
BY ContentAssumption DEF ContentType, IsRoot, Parent

(* A chain holds the parent of each of its blocks.                         *)
LEMMA ChainClosed ==
    ASSUME NEW c \in CID
    PROVE  ParentClosed(Chain(c))
<1> SUFFICES ASSUME NEW a \in Chain(c), ~IsRoot(a) PROVE Parent(a) \in Chain(c)
  BY DEF ParentClosed
<1>1. a \in CID /\ Parent(a) \in CID
  BY ChainType, ParentType
<1> QED
  BY <1>1 DEF Chain, Chains, ParentClosed

(* The chain of a block is the block on top of its parent's chain, and the *)
(* chain of a root is the root.                                            *)
LEMMA ChainOfBlock ==
    ASSUME NEW c \in CID, ~IsRoot(c)
    PROVE  Chain(c) = {c} \cup Chain(Parent(c))
<1> DEFINE S == {c} \cup Chain(Parent(c))
<1>1. /\ Parent(c) \in CID
      /\ Chain(Parent(c)) \subseteq CID /\ Parent(c) \in Chain(Parent(c))
      /\ ParentClosed(Chain(Parent(c)))
  BY ParentType, ChainType, ChainClosed
<1>2. S \in SUBSET CID /\ c \in S /\ ParentClosed(S)
  BY <1>1 DEF ParentClosed
<1>3. Chain(c) \subseteq S
  BY <1>2, ChainInClosed
<1>4. Chain(c) \in SUBSET CID /\ c \in Chain(c) /\ ParentClosed(Chain(c))
  BY ChainType, ChainClosed
<1>5. Chain(Parent(c)) \subseteq Chain(c)
  BY <1>1, <1>4, ChainInClosed DEF ParentClosed
<1> QED
  BY <1>3, <1>4, <1>5

LEMMA ChainOfRoot ==
    ASSUME NEW c \in CID, IsRoot(c)
    PROVE  Chain(c) = {c}
<1>1. ParentClosed({c})
  BY DEF ParentClosed
<1> QED
  BY <1>1, ChainInClosed, ChainType

(* Everything a chain is made of can be reached through its leaf's store,  *)
(* and the two limits do not depend on the store.                          *)
Fits(c, maxDepth) ==
    /\ Depth(c) <= (IF maxDepth > HardMaxDepth THEN HardMaxDepth ELSE maxDepth)
    /\ Width(c) <= MaxChainCapsCaveats

LEMMA BuildsIsFits ==
    ASSUME NEW S \in SUBSET CID, ParentClosed(S), NEW c \in S, NEW maxDepth
    PROVE  BuildsChain(c, S, maxDepth) <=> Fits(c, maxDepth)
BY ChainInClosed DEF BuildsChain, Fits

-----------------------------------------------------------------------------
(* What the steps leave alone.                                             *)

(* The index only grows.                                                   *)
LEMMA IndexGrows == [Next]_vars => index \subseteq index'
<1> SUFFICES ASSUME [Next]_vars PROVE index \subseteq index'
  OBVIOUS
<1> USE DEF storeVars
<1>0. CASE UNCHANGED vars
  BY <1>0 DEF vars
<1>1. ASSUME NEW t \in Issuers, IssuerStep(t) PROVE index \subseteq index'
  BY <1>1 DEF IssuerStep, IssueRequest, Issue, Delegate, IssueProgress, BuildDelegation,
              RefuseDelegation, RegisterChain, IssuingFails, Register
<1>2. ASSUME NEW t \in Revokers, RevokerStep(t) PROVE UNCHANGED index
  BY <1>2 DEF RevokerStep, RevokeProgress, RevokeRequest, RevokeApply, RevokeConflict,
              CascadePrimary, CascadeEnumerate, CascadeRead, CascadeDescendant,
              CascadeDone, RevokingFails
<1>3. ASSUME NEW v \in Verifiers, VerifierStep(v) PROVE UNCHANGED index
  BY <1>3 DEF VerifierStep, VerifyRequest, VerifyProgress, VerifyStart, LookupActive,
              LookupDenied, LookupFails, VerifyAllow, VerifyReject, VerifyReply
<1>4. ASSUME NEW r \in Reconcilers,
             ReconcileStart(r) \/ ReconcileProgress(r) \/ ReconcileDone(r)
      PROVE  index \subseteq index'
  BY <1>4 DEF ReconcileStart, ReconcileProgress, ReconcileDone, ReconcileChain,
              ReconcileSkip, ReconcilePresent, ReconcileRepair, ReconcileError, Register
<1>5. ASSUME \/ \E r \in Reconcilers : ReconcilerStep(r)
             \/ BootStep
             \/ BootFails
             \/ Crash
      PROVE  index \subseteq index'
  BY <1>4, <1>5, DaemonAssumption DEF ReconcilerStep, BootStep, BootFails, Crash
<1> QED
  BY <1>0, <1>1, <1>2, <1>3, <1>5 DEF Next, Step

(* A step is one of a revoke request, or it leaves the requests as they    *)
(* are, or a crash ends them all.                                          *)
LEMMA RevokingFrame ==
    ASSUME [Next]_vars
    PROVE  \/ \E t \in Revokers : RevokerStep(t)
           \/ \A t \in Revokers : revoking'[t] \in {revoking[t], IdleRevoke}
BY EntriesFrame

-----------------------------------------------------------------------------
(* Cascades.                                                               *)

Subjects(rows) == {r.subject : r \in rows}

(* Of the descendants that were registered when the request arrived, none  *)
(* gets lost between the index, the list of what is left, the row about to *)
(* be posted and the report.                                               *)
CascadeOf(k) ==
    /\ k.pc \in {"apply", "enumerate"} => k.known \subseteq FindDescendants(k.origin)
    /\ k.pc = "next" => k.known \subseteq k.todo \cup Subjects(k.posted)
    /\ k.pc = "applyNext" =>
            k.known \subseteq k.todo \cup Subjects(k.posted) \cup {k.row.subject}

CascadeInv == \A t \in Revokers : CascadeOf(revoking[t])

LEMMA CascadeStep ==
    ASSUME TypeOK, CascadeInv, NEW t \in Revokers, RevokerStep(t)
    PROVE  CascadeOf(revoking[t])' /\ \A u \in Revokers \ {t} : revoking'[u] = revoking[u]
<1>0. revoking \in [Revokers -> RevokeRecord] /\ CascadeOf(revoking[t])
  BY DEF TypeOK, RevokingTypeOK, CascadeInv
<1> USE DEF RevokeRecord, ActiveRevoke, IdleRevoke, CascadeOf, Subjects
<1>1. ASSUME NEW s \in Subject, NEW st \in RevokeStatuses, RevokeRequest(t, s, st)
      PROVE  CascadeOf(revoking[t])' /\ \A u \in Revokers \ {t} : revoking'[u] = revoking[u]
  BY <1>0, <1>1 DEF RevokeRequest, FindDescendants, storeVars
<1>2. CASE RevokeApply(t) \/ RevokeConflict(t) \/ RevokingFails(t) \/ CascadeDone(t)
  BY <1>0, <1>2 DEF RevokeApply, RevokeConflict, RevokingFails, CascadeDone
<1>3. CASE CascadePrimary(t)
  BY <1>0, <1>3 DEF CascadePrimary, FindDescendants
<1>4. CASE CascadeEnumerate(t)
  BY <1>0, <1>4 DEF CascadeEnumerate, FindDescendants, storeVars
<1>5. ASSUME NEW d \in CID, CascadeRead(t, d)
      PROVE  CascadeOf(revoking[t])' /\ \A u \in Revokers \ {t} : revoking'[u] = revoking[u]
  BY <1>0, <1>5 DEF CascadeRead, Row
<1>6. CASE CascadeDescendant(t)
  BY <1>0, <1>6 DEF CascadeDescendant
<1> QED
  BY <1>1, <1>2, <1>3, <1>4, <1>5, <1>6 DEF RevokerStep, RevokeProgress

LEMMA CascadeNext == TypeOK /\ CascadeInv /\ [Next]_vars => CascadeInv'
<1> SUFFICES ASSUME TypeOK, CascadeInv, [Next]_vars PROVE CascadeInv'
  OBVIOUS
<1>1. ASSUME NEW k, CascadeOf(k), NEW u \in Revokers, revoking'[u] = k
      PROVE  CascadeOf(revoking[u])'
  BY <1>1, IndexGrows DEF CascadeOf, FindDescendants
<1>2. CascadeOf(IdleRevoke)
  BY DEF CascadeOf, IdleRevoke
<1>3. CASE \E t \in Revokers : RevokerStep(t)
  BY <1>1, <1>3, CascadeStep DEF CascadeInv
<1>4. CASE \A t \in Revokers : revoking'[t] \in {revoking[t], IdleRevoke}
  BY <1>1, <1>2, <1>4 DEF CascadeInv
<1> QED
  BY <1>3, <1>4, RevokingFrame

(* Every descendant that was registered before a COMPROMISED request has   *)
(* its entry when the cascade has run to its end, whatever was delegated,  *)
(* revoked or reconciled meanwhile.                                        *)
THEOREM CascadesAreComplete == Spec => []CascadeComplete
<1>1. Init => CascadeInv
  BY DEF Init, RevokingInit, IdleRevoke, CascadeInv, CascadeOf
<1>2. CascadeInv => CascadeComplete
  BY DEF CascadeInv, CascadeOf, CascadeComplete, Subjects
<1> QED
  BY <1>1, <1>2, CascadeNext, TypeCorrect, PTL DEF Spec

-----------------------------------------------------------------------------
(* Refusal.                                                                *)

(* What a request is working on is stored; what was refused for a limit    *)
(* exceeds one, and what is being verified exceeds none.                         *)
LimitInv ==
    /\ ClosedInv
    /\ \A t \in Issuers : issuing[t].pc # "idle" => issuing[t].cid \in stored
    /\ \A c : OverLimit(c) => ~Fits(c, MaxChainDepth)
    /\ \A v \in Verifiers :
            verifying[v].pc # "idle" => Fits(verifying[v].leaf, MaxChainDepth)

LEMMA LimitIssuing ==
    ASSUME TypeOK, LimitInv, NEW t \in Issuers, IssuerStep(t), stored \subseteq stored'
    PROVE  /\ \A u \in Issuers : issuing'[u].pc # "idle" => issuing'[u].cid \in stored'
           /\ \A c : OverLimit(c)' => ~Fits(c, MaxChainDepth)
<1>0. issuing \in [Issuers -> IssueRecord] /\ stored \subseteq CID
  BY DEF TypeOK, IssuingTypeOK, StoreTypeOK
<1> USE DEF IssueRecord, IdleIssue, storeVars
<1>1. ASSUME NEW c \in CID, Issue(t, c) \/ Delegate(t, c)
      PROVE  /\ \A u \in Issuers : issuing'[u].pc # "idle" => issuing'[u].cid \in stored'
             /\ UNCHANGED refused
  BY <1>0, <1>1 DEF LimitInv, Issue, Delegate, PutCredential
<1>2. CASE BuildDelegation(t) \/ RegisterChain(t)
  BY <1>0, <1>2 DEF LimitInv, BuildDelegation, RegisterChain, OverLimit
<1>4. CASE IssuingFails(t)
  <2>1. \A c : OverLimit(c)' => OverLimit(c)
    BY <1>4 DEF IssuingFails, OverLimit
  <2> QED
    BY <1>0, <1>4, <2>1 DEF LimitInv, IssuingFails
<1>3. CASE RefuseDelegation(t)
  <2>1. /\ issuing[t].cid \in stored
        /\ ~BuildsChain(issuing[t].cid, stored, MaxChainDepth)
        /\ \A c : OverLimit(c)' => OverLimit(c) \/ c = issuing[t].cid
    BY <1>3 DEF LimitInv, RefuseDelegation, OverLimit
  <2>2. ~Fits(issuing[t].cid, MaxChainDepth)
    BY <1>0, <2>1, BuildsIsFits DEF LimitInv, ClosedInv
  <2>3. \A u \in Issuers : issuing'[u].pc # "idle" => issuing'[u].cid \in stored'
    BY <1>0, <1>3 DEF LimitInv, RefuseDelegation
  <2> QED
    BY <2>1, <2>2, <2>3 DEF LimitInv
<1> QED
  BY <1>1, <1>2, <1>3, <1>4 DEF LimitInv, IssuerStep, IssueRequest, IssueProgress, OverLimit

LEMMA LimitVerifying ==
    ASSUME TypeOK, LimitInv, NEW v \in Verifiers, VerifierStep(v)
    PROVE  \A u \in Verifiers :
                verifying'[u].pc # "idle" => Fits(verifying'[u].leaf, MaxChainDepth)
<1>0. verifying \in [Verifiers -> VerifyRecord]
  BY DEF TypeOK, VerifyingTypeOK
<1> USE DEF VerifyRecord, IdleVerify
<1>1. ASSUME NEW c \in CID, NEW tier \in Tiers, VerifyStart(v, c, tier)
      PROVE  \A u \in Verifiers :
                verifying'[u].pc # "idle" => Fits(verifying'[u].leaf, MaxChainDepth)
  <2>1. Fits(c, MaxChainDepth)
    BY <1>1 DEF VerifyStart, BuildsChain, Fits
  <2> QED
    BY <1>0, <1>1, <2>1 DEF LimitInv, VerifyStart
<1>2. ASSUME NEW s \in Subject, LookupActive(v, s) \/ LookupDenied(v, s)
      PROVE  \A u \in Verifiers :
                verifying'[u].pc # "idle" => Fits(verifying'[u].leaf, MaxChainDepth)
  BY <1>0, <1>2 DEF LimitInv, LookupActive, LookupDenied
<1>3. ASSUME NEW s \in Subject, LookupFails(v, s)
      PROVE  \A u \in Verifiers :
                verifying'[u].pc # "idle" => Fits(verifying'[u].leaf, MaxChainDepth)
  BY <1>0, <1>3 DEF LimitInv, LookupFails
<1>4. CASE VerifyAllow(v) \/ VerifyReject(v) \/ VerifyReply(v)
  BY <1>0, <1>4 DEF LimitInv, VerifyAllow, VerifyReject, VerifyReply
<1> QED
  BY <1>1, <1>2, <1>3, <1>4 DEF VerifierStep, VerifyRequest, VerifyProgress

LEMMA LimitNext == TypeOK /\ LimitInv /\ [Next]_vars => LimitInv'
<1> SUFFICES ASSUME TypeOK, LimitInv, [Next]_vars PROVE LimitInv'
  OBVIOUS
<1>0. stored \subseteq stored' /\ ClosedInv'
  BY StoreGrows DEF LimitInv
<1>1. CASE UNCHANGED vars
  BY <1>0, <1>1 DEF LimitInv, OverLimit, vars, issuingVars
<1>2. ASSUME NEW t \in Issuers, IssuerStep(t) PROVE LimitInv'
  BY <1>0, <1>2, LimitIssuing DEF IssuerStep, LimitInv
<1>3. ASSUME NEW v \in Verifiers, VerifierStep(v) PROVE LimitInv'
  BY <1>0, <1>3, LimitVerifying DEF VerifierStep, LimitInv, OverLimit, issuingVars
<1>4. CASE \/ \E t \in Revokers : RevokerStep(t)
           \/ \E r \in Reconcilers : ReconcilerStep(r)
           \/ BootStep
           \/ BootFails
  BY <1>0, <1>4 DEF RevokerStep, ReconcilerStep, BootStep, BootFails, LimitInv, OverLimit,
                    issuingVars
<1>5. CASE Crash
  BY <1>0, <1>5 DEF Crash, LimitInv, OverLimit, IdleIssue, IdleVerify
<1> QED
  BY <1>1, <1>2, <1>3, <1>4, <1>5 DEF Next, Step

LEMMA LimitInit == Init => LimitInv
BY SeededAssumption DEF Init, StoreInit, IssuingInit, VerifyingInit, IdleIssue, IdleVerify,
   LimitInv, ClosedInv, OverLimit

(* What storeAndRegister refused because of a limit is never authorized,   *)
(* even once Reconcile, with its laxer limit, has registered it.           *)
THEOREM OverLimitStaysUnauthorized == Spec => []OverLimitNeverAuthorized
<1>1. LimitInv => OverLimitNeverAuthorized
  BY DEF LimitInv, OverLimitNeverAuthorized
<1> QED
  BY <1>1, LimitInit, LimitNext, TypeCorrect, PTL DEF Spec

-----------------------------------------------------------------------------
(* Reconciliation.                                                         *)

(* The steps of a pass.                                                    *)
PassStep(r) == ReconcileStart(r) \/ ReconcileProgress(r) \/ ReconcileDone(r)

(* A step is one of a pass, or the passes stay as they are or end.         *)
LEMMA PassFrame ==
    ASSUME [Next]_vars
    PROVE  \/ \E r \in Reconcilers : PassStep(r)
           \/ /\ \A r \in Reconcilers : reconciling'[r] \in {reconciling[r], IdleReconcile}
              /\ faults' \in {faults, faults + 1}
<1> USE DEF storeVars, StoreFails
<1>0. CASE UNCHANGED vars
  BY <1>0 DEF vars
<1>1. ASSUME NEW t \in Issuers, IssuerStep(t)
      PROVE  UNCHANGED reconciling /\ faults' \in {faults, faults + 1}
  BY <1>1 DEF IssuerStep, IssueRequest, Issue, Delegate, IssueProgress, BuildDelegation,
              RefuseDelegation, RegisterChain, IssuingFails
<1>2. ASSUME NEW t \in Revokers, RevokerStep(t)
      PROVE  UNCHANGED reconciling /\ faults' \in {faults, faults + 1}
  BY <1>2 DEF RevokerStep, RevokeProgress, RevokeRequest, RevokeApply, RevokeConflict,
              CascadePrimary, CascadeEnumerate, CascadeRead, CascadeDescendant,
              CascadeDone, RevokingFails
<1>3. ASSUME NEW v \in Verifiers, VerifierStep(v)
      PROVE  UNCHANGED reconciling /\ faults' \in {faults, faults + 1}
  BY <1>3 DEF VerifierStep, VerifyRequest, VerifyProgress, VerifyStart, LookupActive,
              LookupDenied, LookupFails, VerifyAllow, VerifyReject, VerifyReply
<1>4. ASSUME \/ \E r \in Reconcilers : ReconcilerStep(r)
             \/ BootStep
      PROVE  \E r \in Reconcilers : PassStep(r)
  BY <1>4, DaemonAssumption DEF ReconcilerStep, BootStep, PassStep
<1>5. CASE BootFails
  BY <1>5 DEF BootFails
<1>6. CASE Crash
  BY <1>6 DEF Crash
<1> QED
  BY <1>0, <1>1, <1>2, <1>3, <1>4, <1>5, <1>6 DEF Next, Step

(* Of a pass that found nothing missing when it listed the store: what it  *)
(* still has to walk, and what it walks, is wholly indexed; the element it *)
(* has come to lies on the chain it walks; and only a failed query has     *)
(* made it repair.                                                         *)
CleanPass(k) ==
    k.clean =>
        /\ k.repairs <= faults
        /\ \A c \in k.todo : Indexed(c)
        /\ k.at # NoCID => Indexed(k.cid) /\ k.at \in Chain(k.cid)

CleanInv == \A r \in Reconcilers : CleanPass(reconciling[r])

LEMMA CleanStep ==
    ASSUME TypeOK, CleanInv, NEW r \in Reconcilers, PassStep(r), index \subseteq index'
    PROVE  CleanPass(reconciling[r])'
<1>0. /\ reconciling \in [Reconcilers -> ReconcileRecord] /\ CleanPass(reconciling[r])
      /\ reconciling[r].at # NoCID => reconciling[r].cid \in CID
      /\ reconciling[r].repairs \in Nat /\ faults \in Nat
      /\ stored \subseteq CID
  BY DEF TypeOK, StoreTypeOK, ReconcilingTypeOK, CleanInv, ReconcileRecord, IdleReconcile
<1>i. ASSUME NEW c, Indexed(c) PROVE Indexed(c)'
  BY <1>i DEF Indexed
<1>p. ASSUME NEW c \in CID, NEW a \in Chain(c), Parent(a) # NoCID
      PROVE  Parent(a) \in Chain(c)
  BY <1>p, ChainClosed DEF ParentClosed, IsRoot
<1> USE DEF ReconcileRecord, IdleReconcile
<1>1. CASE ReconcileStart(r)
  <2>1. reconciling'[r] = [pc |-> "walk", todo |-> stored, cid |-> NoCID, at |-> NoCID,
                           repairs |-> 0, clean |-> \A c \in stored : Indexed(c)]
        /\ UNCHANGED faults
    BY <1>0, <1>1 DEF ReconcileStart, storeVars
  <2>2. reconciling'[r].clean => \A c \in reconciling'[r].todo : Indexed(c)'
    BY <1>i, <2>1
  <2> QED
    BY <1>0, <2>1, <2>2 DEF CleanPass
<1>2. ASSUME NEW c \in CID, ReconcileChain(r, c) PROVE CleanPass(reconciling[r])'
  <2>1. /\ reconciling'[r] = [reconciling[r] EXCEPT !.todo = @ \ {c}, !.cid = c, !.at = c]
        /\ c \in reconciling[r].todo /\ UNCHANGED faults
    BY <1>0, <1>2 DEF ReconcileChain, storeVars
  <2> QED
    BY <1>0, <1>i, <2>1, ChainType DEF CleanPass
<1>3. ASSUME NEW c \in CID, ReconcileSkip(r, c) PROVE CleanPass(reconciling[r])'
  <2>1. /\ reconciling'[r] = [reconciling[r] EXCEPT !.todo = @ \ {c}]
        /\ faults' \in {faults, faults + 1}
    BY <1>0, <1>3 DEF ReconcileSkip, StoreFails
  <2> QED
    BY <1>0, <1>i, <2>1 DEF CleanPass
<1>4. CASE ReconcilePresent(r) \/ ReconcileError(r)
  <2>1. /\ reconciling'[r] = [reconciling[r] EXCEPT !.at = Parent(@)]
        /\ reconciling[r].at # NoCID
        /\ faults' \in {faults, faults + 1}
    BY <1>0, <1>4 DEF ReconcilePresent, ReconcileError, StoreFails, storeVars
  <2> QED
    BY <1>0, <1>i, <1>p, <2>1 DEF CleanPass
<1>5. CASE ReconcileRepair(r)
  <2>1. /\ reconciling'[r] = [reconciling[r] EXCEPT !.at = Parent(@), !.repairs = @ + 1]
        /\ reconciling[r].at # NoCID
        /\ \/ ~Contains(reconciling[r].cid, reconciling[r].at) /\ UNCHANGED faults
           \/ faults' = faults + 1
    BY <1>0, <1>5 DEF ReconcileRepair, StoreFails
  <2>2. reconciling[r].clean => Contains(reconciling[r].cid, reconciling[r].at)
    BY <1>0, <2>1 DEF CleanPass, Indexed, ChainRows, Contains
  <2> QED
    BY <1>0, <1>i, <1>p, <2>1, <2>2 DEF CleanPass
<1>6. CASE ReconcileDone(r)
  BY <1>0, <1>6 DEF ReconcileDone, CleanPass
<1> QED
  BY <1>1, <1>2, <1>3, <1>4, <1>5, <1>6 DEF PassStep, ReconcileProgress

LEMMA CleanNext == TypeOK /\ CleanInv /\ [Next]_vars => CleanInv'
<1> SUFFICES ASSUME TypeOK, CleanInv, [Next]_vars, NEW u \in Reconcilers
             PROVE  CleanPass(reconciling[u])'
  BY DEF CleanInv
<1>0. /\ index \subseteq index' /\ faults \in Nat
      /\ reconciling \in [Reconcilers -> ReconcileRecord]
      /\ reconciling[u].clean => reconciling[u].repairs \in Nat
  BY IndexGrows DEF TypeOK, StoreTypeOK, ReconcilingTypeOK, ReconcileRecord, IdleReconcile
<1>1. ASSUME reconciling'[u] \in {reconciling[u], IdleReconcile},
             faults' \in {faults, faults + 1}
      PROVE  CleanPass(reconciling[u])'
  <2>1. CASE reconciling'[u] = IdleReconcile
    BY <2>1 DEF CleanPass, IdleReconcile
  <2>2. CASE reconciling'[u] = reconciling[u]
    <3>1. \A c : Indexed(c) => Indexed(c)'
      BY <1>0 DEF Indexed
    <3> QED
      BY <1>0, <1>1, <2>2, <3>1 DEF CleanInv, CleanPass
  <2> QED
    BY <1>1, <2>1, <2>2
<1>2. ASSUME NEW r \in Reconcilers, PassStep(r) PROVE CleanPass(reconciling[u])'
  <2>1. CASE u = r
    BY <1>0, <1>2, <2>1, CleanStep
  <2>2. CASE u # r
    <3>1. reconciling'[u] = reconciling[u] /\ faults' \in {faults, faults + 1}
      BY <1>0, <1>2, <2>2
         DEF PassStep, ReconcileStart, ReconcileProgress, ReconcileDone, ReconcileChain,
             ReconcileSkip, ReconcilePresent, ReconcileRepair, ReconcileError,
             storeVars, StoreFails
    <3> QED
      BY <1>1, <3>1
  <2> QED
    BY <2>1, <2>2
<1> QED
  BY <1>1, <1>2, PassFrame

(* A pass over an index that lacked nothing repairs nothing, whatever is   *)
(* delegated while it runs, unless queries fail.                           *)
THEOREM CleanPassesRepairNothing == Spec => []ReconcileIdempotent
<1>1. Init => CleanInv
  BY DEF Init, ReconcilingInit, IdleReconcile, CleanInv, CleanPass
<1>2. CleanInv => ReconcileIdempotent
  BY DEF CleanInv, CleanPass, ReconcileIdempotent
<1> QED
  BY <1>1, <1>2, CleanNext, TypeCorrect, PTL DEF Spec

-----------------------------------------------------------------------------
(* The depth-left budget.                                                  *)

Spent(c, a) == Content[c].dl + (Depth(c) - Depth(a)) <= Content[a].dl

Narrowing(S) == \A c \in S : ~IsRoot(c) => Content[c].dl < Content[Parent(c)].dl

LEMMA ChainSize ==
    ASSUME NEW c \in CID
    PROVE  IsFiniteSet(Chain(c)) /\ Cardinality(Chain(c)) \in Nat
BY CIDAssumption, ChainType, FS_Subset, FS_CardinalityType

LEMMA BlockSize ==
    ASSUME NEW c \in CID, ~IsRoot(c)
    PROVE  Cardinality(Chain(c)) = Cardinality(Chain(Parent(c))) + 1
<1>1. Parent(c) \in CID /\ c \notin Chain(Parent(c))
  BY ParentType, ContentAssumption
<1>2. Chain(c) = Chain(Parent(c)) \cup {c}
  BY ChainOfBlock
<1> QED
  BY <1>1, <1>2, ChainSize, FS_AddElement

(* A set of naturals has a least element.                                  *)
LEMMA LeastExists ==
    ASSUME NEW T \in SUBSET Nat, T # {}
    PROVE  \E x \in T : \A y \in T : x <= y
<1> DEFINE R == OpToRel(<, Nat)
<1>1. \E x \in T : \A y \in T : ~ (<<y, x>> \in R)
  <2>1. IsWellFoundedOn(R, Nat)
    BY NatLessThanWellFounded
  <2> HIDE DEF R
  <2> QED
    BY <2>1, WFMin
<1>2. \A x, y \in Nat : y < x => <<y, x>> \in R
  BY DEF OpToRel
<1> HIDE DEF R
<1>3. PICK x \in T : \A y \in T : ~ (<<y, x>> \in R)
  BY <1>1
<1>4. ASSUME NEW y \in T PROVE x <= y
  <2>1. x \in Nat /\ y \in Nat
    OBVIOUS
  <2>2. ~ (y < x)
    BY <1>2, <1>3, <2>1
  <2> QED
    BY <2>1, <2>2
<1> QED
  BY <1>4

(* Where each block has less depth than its parent, every one has spent a  *)
(* unit of each ancestor's depth for each delegation between the two: take *)
(* the shortest chain for which this is not so.                            *)
LEMMA BudgetOfNarrowing ==
    ASSUME NEW S \in SUBSET CID, ParentClosed(S), Narrowing(S)
    PROVE  \A c \in S : \A a \in Chain(c) : Spent(c, a)
<1> DEFINE Bad == {c \in S : \E a \in Chain(c) : ~Spent(c, a)}
<1> SUFFICES ASSUME Bad # {} PROVE FALSE
  OBVIOUS
<1>0. \A c \in CID : Content[c].dl \in Int /\ Cardinality(Chain(c)) \in Nat
  BY ContentAssumption, ChainSize DEF ContentType
<1>1. PICK c \in Bad : \A b \in Bad : Cardinality(Chain(c)) <= Cardinality(Chain(b))
  <2> DEFINE T == {Cardinality(Chain(b)) : b \in Bad}
  <2>1. T \subseteq Nat /\ T # {}
    BY <1>0
  <2>2. \E x \in T : \A y \in T : x <= y
    <3> HIDE DEF T
    <3> QED
      BY <2>1, LeastExists
  <2> QED
    BY <2>2
<1>2. c \in S /\ c \in CID
  OBVIOUS
<1>3. Spent(c, c)
  BY <1>0, <1>2 DEF Spent, Depth
<1>4. ~IsRoot(c)
  BY <1>2, <1>3, ChainOfRoot
<1> DEFINE p == Parent(c)
<1>5. /\ p \in S /\ p \in CID
      /\ Content[c].dl < Content[p].dl
      /\ Chain(c) = {c} \cup Chain(p)
      /\ Cardinality(Chain(c)) = Cardinality(Chain(p)) + 1
  BY <1>2, <1>4, ChainOfBlock, BlockSize DEF ParentClosed, Narrowing
<1>6. p \notin Bad
  BY <1>0, <1>1, <1>5
<1>7. ASSUME NEW a \in Chain(p) PROVE Spent(c, a)
  <2>1. Spent(p, a) /\ a \in CID
    BY <1>5, <1>6, ChainType
  <2> HIDE DEF p
  <2>2. /\ Content[c].dl \in Int /\ Content[p].dl \in Int /\ Content[a].dl \in Int
        /\ Cardinality(Chain(c)) \in Nat /\ Cardinality(Chain(p)) \in Nat
        /\ Cardinality(Chain(a)) \in Nat
    BY <1>0, <1>2, <1>5, <2>1
  <2> QED
    BY <1>5, <2>1, <2>2 DEF Spent, Depth
<1> QED
  BY <1>3, <1>5, <1>7

LEMMA NarrowingNext ==
    ASSUME Narrowing(stored), [Next]_vars
    PROVE  Narrowing(stored')
<1> USE DEF storeVars
<1>1. CASE UNCHANGED vars
  BY <1>1 DEF vars
<1>2. ASSUME NEW t \in Issuers, IssuerStep(t) PROVE Narrowing(stored')
  <2>1. ASSUME NEW c \in CID, Issue(t, c) \/ Delegate(t, c) PROVE Narrowing(stored')
    BY <2>1 DEF Issue, Delegate, Issuable, Delegable, PutCredential, Narrowing
  <2>2. CASE IssueProgress(t) \/ IssuingFails(t)
    BY <2>2 DEF IssueProgress, BuildDelegation, RefuseDelegation, RegisterChain, IssuingFails
  <2> QED
    BY <1>2, <2>1, <2>2 DEF IssuerStep, IssueRequest
<1>3. ASSUME NEW t \in Revokers, RevokerStep(t) PROVE UNCHANGED stored
  BY <1>3 DEF RevokerStep, RevokeProgress, RevokeRequest, RevokeApply, RevokeConflict,
              CascadePrimary, CascadeEnumerate, CascadeRead, CascadeDescendant,
              CascadeDone, RevokingFails
<1>4. ASSUME NEW v \in Verifiers, VerifierStep(v) PROVE UNCHANGED stored
  BY <1>4 DEF VerifierStep, VerifyRequest, VerifyProgress, VerifyStart, LookupActive,
              LookupDenied, LookupFails, VerifyAllow, VerifyReject, VerifyReply
<1>5. ASSUME NEW r \in Reconcilers, PassStep(r) PROVE UNCHANGED stored
  BY <1>5 DEF PassStep, ReconcileStart, ReconcileProgress, ReconcileDone, ReconcileChain,
              ReconcileSkip, ReconcilePresent, ReconcileRepair, ReconcileError
<1>6. ASSUME \/ \E r \in Reconcilers : ReconcilerStep(r)
             \/ BootStep
             \/ BootFails
             \/ Crash
      PROVE  UNCHANGED stored
  BY <1>5, <1>6, DaemonAssumption DEF PassStep, ReconcilerStep, BootStep, BootFails, Crash
<1> QED
  BY <1>1, <1>2, <1>3, <1>4, <1>6 DEF Next, Step

(* A root's delegation_depth bounds the delegations below it, and a        *)
(* block's depth-left those below the block, for stored chains of any      *)
(* length, although each delegation compares two neighbours only.          *)
THEOREM BudgetKept == Spec => []DepthBudget
<1>1. Init => ClosedInv /\ Narrowing(stored)
  BY SeededAssumption DEF Init, StoreInit, ClosedInv, Narrowing, Issuable, Delegable
<1>2. ClosedInv /\ Narrowing(stored) /\ [Next]_vars => (ClosedInv /\ Narrowing(stored))'
  BY StoreGrows, NarrowingNext DEF Narrowing
<1>3. TypeOK /\ ClosedInv /\ Narrowing(stored) => DepthBudget
  BY BudgetOfNarrowing DEF TypeOK, StoreTypeOK, ClosedInv, DepthBudget, Spent
<1> QED
  BY <1>1, <1>2, <1>3, TypeCorrect, PTL DEF Spec

-----------------------------------------------------------------------------
(* The startup pass.                                                       *)

(* What BootRepairs says of a stored credential, with the limits for       *)
(* Walkable, because they cannot change.                                   *)
Repaired(c) ==
    Indexed(c) \/ InFlight(c) \/ OverLimit(c) \/ ~Fits(c, HardMaxDepth)

(* A credential the startup pass k has yet to finish: it has not come to   *)
(* it, or has indexed its chain up to the element it is at.                *)
Pending(k, c) ==
    \/ c \in k.todo
    \/ /\ k.at # NoCID /\ c = k.cid
       /\ \A a \in Chain(c) : <<c, a>> \in index \/ a \in Chain(k.at)

BootInv ==
    /\ ~up => \A t \in Issuers : issuing[t].pc = "idle"
    /\ faults = 0 =>
        IF up THEN \A c \in stored : Repaired(c)
        ELSE reconciling[Boot].pc = "walk" =>
                \A c \in stored : Repaired(c) \/ Pending(reconciling[Boot], c)

(* A step that only adds to the index or fails keeps it.                   *)
LEMMA BootFrame ==
    ASSUME TypeOK, BootInv, index \subseteq index', faults' \in {faults, faults + 1},
           UNCHANGED <<stored, issuing, refused, up>>,
           up \/ reconciling'[Boot] = reconciling[Boot]
    PROVE  BootInv'
<1>0. faults' = 0 => faults = 0
  BY DEF TypeOK, StoreTypeOK
<1>1. ASSUME NEW c, Repaired(c) PROVE Repaired(c)'
  BY <1>1 DEF Repaired, Indexed, InFlight, OverLimit
<1>2. ASSUME NEW c, ~up, Pending(reconciling[Boot], c) PROVE Pending(reconciling[Boot], c)'
  BY <1>2 DEF Pending
<1> QED
  BY <1>0, <1>1, <1>2 DEF BootInv

(* A serving daemon's issue and delegate requests.                         *)
LEMMA BootIssuing ==
    ASSUME TypeOK, LimitInv, BootInv, NEW t \in Issuers, IssuerStep(t),
           index \subseteq index'
    PROVE  BootInv'
<1>0. issuing \in [Issuers -> IssueRecord] /\ up \in BOOLEAN /\ faults \in Nat
  BY DEF TypeOK, IssuingTypeOK, StoreTypeOK
<1>u. up /\ UNCHANGED up
  BY DEF BootInv, IssuerStep, IssueProgress, BuildDelegation, RefuseDelegation,
         RegisterChain, IssuingFails
<1> SUFFICES ASSUME faults' = 0, NEW c \in stored' PROVE Repaired(c)'
  BY <1>u DEF BootInv
<1> USE DEF storeVars, IssueRecord, IdleIssue
<1>i. Indexed(c) => Indexed(c)'
  BY DEF Indexed
<1>1. ASSUME NEW d \in CID, Issue(t, d) \/ Delegate(t, d) PROVE Repaired(c)'
  <2>1. /\ issuing[t].pc = "idle" /\ UNCHANGED <<faults, refused>>
        /\ stored' = stored \cup {d}
        /\ issuing'[t].cid = d /\ issuing'[t].pc # "idle"
        /\ \A u \in Issuers \ {t} : issuing'[u] = issuing[u]
    BY <1>0, <1>1 DEF Issue, Delegate, PutCredential
  <2>2. InFlight(c) => InFlight(c)'
    BY <2>1 DEF InFlight
  <2>3. c = d => InFlight(c)'
    BY <2>1 DEF InFlight
  <2> QED
    BY <1>i, <1>u, <2>1, <2>2, <2>3 DEF Repaired, BootInv, OverLimit
<1>2. ASSUME stored' = stored, faults' = faults, refused \subseteq refused',
             InFlight(c) => InFlight(c)' \/ Indexed(c)' \/ OverLimit(c)'
      PROVE  Repaired(c)'
  BY <1>i, <1>u, <1>2 DEF Repaired, BootInv, OverLimit
<1>3. CASE BuildDelegation(t)
  <2>1. InFlight(c) => InFlight(c)'
    BY <1>0, <1>3 DEF InFlight, BuildDelegation
  <2> QED
    BY <1>2, <1>3, <2>1 DEF BuildDelegation
<1>4. CASE RefuseDelegation(t)
  <2>1. /\ refused' = refused \cup {<<issuing[t].cid, "limit">>} /\ UNCHANGED storeVars
        /\ \A u \in Issuers \ {t} : issuing'[u] = issuing[u]
    BY <1>0, <1>4 DEF RefuseDelegation
  <2>2. InFlight(c) => InFlight(c)' \/ OverLimit(c)'
    BY <2>1 DEF InFlight, OverLimit
  <2> QED
    BY <1>2, <2>1, <2>2
<1>5. CASE RegisterChain(t)
  <2>1. /\ \A u \in Issuers \ {t} : issuing'[u] = issuing[u]
        /\ index' = index \cup ({issuing[t].cid} \X Chain(issuing[t].cid))
        /\ UNCHANGED <<stored, faults, refused>>
    BY <1>0, <1>5 DEF RegisterChain, Register
  <2>2. c = issuing[t].cid => Indexed(c)'
    BY <2>1 DEF Indexed, ChainRows
  <2>3. InFlight(c) => InFlight(c)' \/ Indexed(c)'
    BY <2>1, <2>2 DEF InFlight
  <2> QED
    BY <1>2, <2>1, <2>3
<1>6. ~IssuingFails(t)
  BY <1>0 DEF IssuingFails, StoreFails
<1> QED
  BY <1>1, <1>3, <1>4, <1>5, <1>6 DEF IssuerStep, IssueRequest, IssueProgress

(* The walk of the startup pass.                                           *)
LEMMA BootWalk ==
    ASSUME TypeOK, LimitInv, BootInv, ~up, faults' = 0, index \subseteq index',
           UNCHANGED <<stored, issuing, refused, up>>, ReconcileProgress(Boot),
           NEW c \in stored
    PROVE  Repaired(c)' \/ Pending(reconciling[Boot], c)'
<1> DEFINE k == reconciling[Boot]
<1>0. /\ Boot \in Reconcilers /\ reconciling \in [Reconcilers -> ReconcileRecord]
      /\ k \in ReconcileRecord
      /\ k.at \in CID \cup {NoCID} /\ k.cid \in CID \cup {NoCID}
      /\ faults \in Nat /\ stored \subseteq CID
      /\ NoCID \notin CID
  BY DaemonAssumption, ContentAssumption
     DEF TypeOK, StoreTypeOK, ReconcilingTypeOK, ReconcileRecord, IdleReconcile
<1>1. k.pc = "walk"
  <2>1. k.at # NoCID \/ k.todo # {}
    BY DEF ReconcileProgress, ReconcileChain, ReconcileSkip, ReconcilePresent,
           ReconcileRepair, ReconcileError
  <2> QED
    BY <1>0, <2>1 DEF ReconcileRecord, IdleReconcile
<1>f. faults' = faults /\ faults = 0
  <2>1. faults' = faults \/ faults' = faults + 1
    BY DEF ReconcileProgress, ReconcileChain, ReconcileSkip, ReconcilePresent,
           ReconcileRepair, ReconcileError, StoreFails, storeVars
  <2> QED
    BY <1>0, <2>1
<1>2. Repaired(c) \/ Pending(k, c)
  BY <1>1, <1>f DEF BootInv
<1>3. Repaired(c) => Repaired(c)'
  BY DEF Repaired, Indexed, InFlight, OverLimit
<1> SUFFICES ASSUME Pending(k, c) PROVE Repaired(c)' \/ Pending(reconciling[Boot], c)'
  BY <1>2, <1>3
<1>4. ASSUME NEW d \in CID, ReconcileChain(Boot, d)
      PROVE  Pending(reconciling[Boot], c)'
  <2>1. /\ reconciling'[Boot] = [k EXCEPT !.todo = @ \ {d}, !.cid = d, !.at = d]
        /\ k.at = NoCID
    BY <1>0, <1>4 DEF ReconcileChain
  <2>2. /\ reconciling'[Boot].todo = k.todo \ {d}
        /\ reconciling'[Boot].cid = d /\ reconciling'[Boot].at = d
    BY <1>0, <2>1 DEF ReconcileRecord, IdleReconcile
  <2> QED
    BY <1>0, <2>1, <2>2 DEF Pending
<1>5. ASSUME NEW d \in CID, ReconcileSkip(Boot, d)
      PROVE  Repaired(c)' \/ Pending(reconciling[Boot], c)'
  <2>1. /\ reconciling'[Boot] = [k EXCEPT !.todo = @ \ {d}]
        /\ k.at = NoCID /\ ~Walkable(d)
    BY <1>0, <1>5, <1>f DEF ReconcileSkip, StoreFails
  <2>2. reconciling'[Boot].todo = k.todo \ {d}
    BY <1>0, <2>1 DEF ReconcileRecord, IdleReconcile
  <2>3. c = d => ~Fits(c, HardMaxDepth)
    BY <1>0, <2>1, BuildsIsFits DEF Walkable, LimitInv, ClosedInv
  <2> QED
    BY <2>1, <2>2, <2>3 DEF Pending, Repaired
<1>6. ASSUME k.at # NoCID, reconciling'[Boot].todo = k.todo,
             reconciling'[Boot].cid = k.cid, reconciling'[Boot].at = Parent(k.at),
             <<k.cid, k.at>> \in index'
      PROVE  Repaired(c)' \/ Pending(reconciling[Boot], c)'
  <2>1. CASE c \in k.todo
    BY <1>6, <2>1 DEF Pending
  <2>2. CASE /\ c = k.cid
             /\ \A a \in Chain(c) : <<c, a>> \in index \/ a \in Chain(k.at)
    <3>1. CASE IsRoot(k.at)
      <4>1. Chain(k.at) = {k.at}
        BY <1>0, <1>6, <3>1, ChainOfRoot
      <4>2. \A a \in Chain(c) : <<c, a>> \in index'
        BY <1>6, <2>2, <4>1
      <4> QED
        BY <4>2 DEF Repaired, Indexed, ChainRows
    <3>2. CASE ~IsRoot(k.at)
      <4>1. /\ Chain(k.at) = {k.at} \cup Chain(Parent(k.at))
            /\ Parent(k.at) # NoCID
        BY <1>0, <1>6, <3>2, ChainOfBlock DEF IsRoot
      <4>2. \A a \in Chain(c) : <<c, a>> \in index' \/ a \in Chain(Parent(k.at))
        BY <1>6, <2>2, <4>1
      <4> QED
        BY <1>6, <2>2, <4>1, <4>2 DEF Pending
    <3> QED
      BY <3>1, <3>2
  <2> QED
    BY <2>1, <2>2 DEF Pending
<1>7. CASE ReconcilePresent(Boot)
  <2>1. /\ reconciling'[Boot] = [k EXCEPT !.at = Parent(@)] /\ k.at # NoCID
        /\ <<k.cid, k.at>> \in index'
    BY <1>0, <1>7 DEF ReconcilePresent, Contains
  <2> QED
    BY <1>0, <1>6, <2>1 DEF ReconcileRecord, IdleReconcile
<1>8. CASE ReconcileRepair(Boot)
  <2>1. /\ reconciling'[Boot] = [k EXCEPT !.at = Parent(@), !.repairs = @ + 1]
        /\ k.at # NoCID
        /\ <<k.cid, k.at>> \in index'
    BY <1>0, <1>8 DEF ReconcileRepair, Register
  <2> QED
    BY <1>0, <1>6, <2>1 DEF ReconcileRecord, IdleReconcile
<1>9. ~ReconcileError(Boot)
  BY <1>0, <1>f DEF ReconcileError, StoreFails
<1> QED
  BY <1>4, <1>5, <1>7, <1>8, <1>9 DEF ReconcileProgress

(* Startup as a whole.                                                     *)
LEMMA BootPass ==
    ASSUME TypeOK, LimitInv, BootInv, BootStep, index \subseteq index'
    PROVE  BootInv'
<1>0. /\ up \in BOOLEAN /\ faults \in Nat
      /\ Boot \in Reconcilers /\ reconciling \in [Reconcilers -> ReconcileRecord]
  BY DaemonAssumption DEF TypeOK, StoreTypeOK, ReconcilingTypeOK
<1>1. ASSUME PassStep(Boot) PROVE UNCHANGED stored /\ faults' \in {faults, faults + 1}
  BY <1>1 DEF PassStep, ReconcileStart, ReconcileProgress, ReconcileDone, ReconcileChain,
              ReconcileSkip, ReconcilePresent, ReconcileRepair, ReconcileError,
              storeVars, StoreFails
<1>2. /\ UNCHANGED <<stored, issuing, refused>>
      /\ faults' \in {faults, faults + 1}
  BY <1>1 DEF BootStep, PassStep, issuingVars
<1>r. \A c : Repaired(c) => Repaired(c)'
  BY <1>2 DEF Repaired, Indexed, InFlight, OverLimit
<1>3. CASE ~up /\ ReconcileStart(Boot) /\ UNCHANGED up
  <2>1. reconciling'[Boot].todo = stored
    BY <1>0, <1>3 DEF ReconcileStart
  <2> QED
    BY <1>2, <1>3, <2>1 DEF BootInv, Pending
<1>4. CASE ReconcileProgress(Boot) /\ UNCHANGED up
  <2>1. CASE up
    BY <1>2, <1>4, <2>1, BootFrame
  <2>2. CASE ~up
    <3>1. ASSUME faults' = 0, NEW c \in stored
          PROVE  Repaired(c)' \/ Pending(reconciling[Boot], c)'
      BY <1>2, <1>4, <2>2, <3>1, BootWalk
    <3> QED
      BY <1>2, <1>4, <2>2, <3>1 DEF BootInv
  <2> QED
    BY <1>0, <2>1, <2>2
<1>5. CASE ReconcileDone(Boot) /\ up' = TRUE
  <2>1. /\ reconciling[Boot].pc = "walk" /\ reconciling[Boot].at = NoCID
        /\ reconciling[Boot].todo = {} /\ UNCHANGED faults
    BY <1>5 DEF ReconcileDone, storeVars
  <2>2. \A c : ~Pending(reconciling[Boot], c)
    BY <2>1 DEF Pending
  <2>3. faults = 0 => \A c \in stored : Repaired(c)
    BY <1>0, <2>1, <2>2 DEF BootInv
  <2> QED
    BY <1>2, <1>5, <1>r, <2>1, <2>3 DEF BootInv
<1> QED
  BY <1>3, <1>4, <1>5 DEF BootStep

LEMMA BootNext == TypeOK /\ LimitInv /\ BootInv /\ [Next]_vars => BootInv'
<1> SUFFICES ASSUME TypeOK, LimitInv, BootInv, [Next]_vars PROVE BootInv'
  OBVIOUS
<1>0. index \subseteq index' /\ faults \in Nat
  BY IndexGrows DEF TypeOK, StoreTypeOK
<1> USE DEF storeVars, issuingVars, StoreFails
<1>1. CASE UNCHANGED vars
  BY <1>0, <1>1, BootFrame DEF vars
<1>2. ASSUME NEW t \in Issuers, IssuerStep(t) PROVE BootInv'
  BY <1>0, <1>2, BootIssuing
<1>3. ASSUME NEW t \in Revokers, RevokerStep(t) PROVE BootInv'
  <2>1. UNCHANGED stored /\ faults' \in {faults, faults + 1}
    BY <1>3 DEF RevokerStep, RevokeProgress, RevokeRequest, RevokeApply, RevokeConflict,
                CascadePrimary, CascadeEnumerate, CascadeRead, CascadeDescendant,
                CascadeDone, RevokingFails
  <2> QED
    BY <1>0, <1>3, <2>1, BootFrame DEF RevokerStep
<1>4. ASSUME NEW v \in Verifiers, VerifierStep(v) PROVE BootInv'
  <2>1. UNCHANGED stored /\ faults' \in {faults, faults + 1}
    BY <1>4 DEF VerifierStep, VerifyRequest, VerifyProgress, VerifyStart, LookupActive,
                LookupDenied, LookupFails, VerifyAllow, VerifyReject, VerifyReply
  <2> QED
    BY <1>0, <1>4, <2>1, BootFrame DEF VerifierStep
<1>5. ASSUME NEW r \in Reconcilers, ReconcilerStep(r) PROVE BootInv'
  <2>1. /\ UNCHANGED stored /\ faults' \in {faults, faults + 1}
        /\ reconciling'[Boot] = reconciling[Boot]
    BY <1>5, DaemonAssumption
       DEF ReconcilerStep, ReconcileStart, ReconcileProgress, ReconcileDone, ReconcileChain,
           ReconcileSkip, ReconcilePresent, ReconcileRepair, ReconcileError,
           TypeOK, ReconcilingTypeOK
  <2> QED
    BY <1>0, <1>5, <2>1, BootFrame DEF ReconcilerStep
<1>6. CASE BootStep
  BY <1>0, <1>6, BootPass
<1>7. CASE BootFails
  BY <1>0, <1>7 DEF BootFails, BootInv
<1>8. CASE Crash
  BY <1>8, DaemonAssumption DEF Crash, BootInv, IdleIssue, IdleReconcile
<1> QED
  BY <1>1, <1>2, <1>3, <1>4, <1>5, <1>6, <1>7, <1>8 DEF Next, Step

(* While the store has not failed, the index of a serving daemon lacks     *)
(* only rows of delegations in flight, refused for a limit or beyond the   *)
(* hard limits: startup makes up for every crash between PutCredential and *)
(* Register.                                                               *)
THEOREM StartupRepairs == Spec => []BootRepairs
<1>1. Init => BootInv
  BY DaemonAssumption DEF Init, IssuingInit, ReconcilingInit, IdleIssue, IdleReconcile, BootInv
<1>2. TypeOK /\ LimitInv /\ BootInv => BootRepairs
  <2> SUFFICES ASSUME TypeOK, LimitInv, BootInv, up, faults = 0, NEW c \in stored
               PROVE  Indexed(c) \/ InFlight(c) \/ OverLimit(c) \/ ~Walkable(c)
    BY DEF BootRepairs
  <2>1. Walkable(c) <=> Fits(c, HardMaxDepth)
    BY BuildsIsFits DEF TypeOK, StoreTypeOK, LimitInv, ClosedInv, Walkable
  <2> QED
    BY <2>1 DEF BootInv, Repaired
<1> QED
  BY <1>1, <1>2, BootNext, LimitInit, LimitNext, TypeCorrect, PTL DEF Spec
=============================================================================
