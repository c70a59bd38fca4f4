----------------------------- MODULE Verifying -----------------------------
(***************************************************************************)
(* handleVerify and the steps of verify.Verify that read shared state: the *)
(* chain walk (step 1), one revocation lookup per subject in no particular *)
(* order (step 6, a Go map iteration), and the registration check          *)
(* (step 11).  The other steps compute on the chain and the invocation     *)
(* alone; here they may pass or deny.                                      *)
(***************************************************************************)
EXTENDS TrustStore

CONSTANTS
    Verifiers,  \* the verify requests that can be in flight at once
    Tiers       \* the risk tiers of the resources asked for

VARIABLE
    verifying   \* per request: what it does next and its local variables

(***************************************************************************)
(* tier is the tier RiskTierFn gives the request's resource; todo holds    *)
(* the subjects still to look up; skipped, a history field, the ones       *)
(* whose lookup failed and was degrade-accepted below HIGH.                *)
(***************************************************************************)
IdleVerify ==
    [pc |-> "idle", leaf |-> NoCID, tier |-> "HIGH", todo |-> {}, skipped |-> {}]

VerifyRecord ==
    {IdleVerify} \cup
    [pc : {"lookup", "allowed"}, leaf : CID, tier : Tiers,
     todo : SUBSET Subject, skipped : SUBSET Subject]

VerifyingTypeOK == verifying \in [Verifiers -> VerifyRecord]

VerifyingInit == verifying = [v \in Verifiers |-> IdleVerify]

-----------------------------------------------------------------------------
(* Mutants of VerifyStart: step 6 looks up the leaf and its audience only, *)
(* step 6 looks up CIDs but no audiences, and step 1 clamps the chain to   *)
(* the hard limit instead of the configured one.                           *)
MutantStartLeafOnly(v, c, tier) ==
    /\ verifying[v].pc = "idle"
    /\ BuildsChain(c, stored, MaxChainDepth)
    /\ verifying' = [verifying EXCEPT ![v] =
            [pc |-> "lookup", leaf |-> c, tier |-> tier,
             todo |-> {c, Content[c].aud}, skipped |-> {}]]
    /\ UNCHANGED storeVars

MutantStartNoAudiences(v, c, tier) ==
    /\ verifying[v].pc = "idle"
    /\ BuildsChain(c, stored, MaxChainDepth)
    /\ verifying' = [verifying EXCEPT ![v] =
            [pc |-> "lookup", leaf |-> c, tier |-> tier,
             todo |-> Chain(c), skipped |-> {}]]
    /\ UNCHANGED storeVars

MutantStartHardLimit(v, c, tier) ==
    /\ verifying[v].pc = "idle"
    /\ BuildsChain(c, stored, HardMaxDepth)
    /\ verifying' = [verifying EXCEPT ![v] =
            [pc |-> "lookup", leaf |-> c, tier |-> tier,
             todo |-> ChainSubjects(c), skipped |-> {}]]
    /\ UNCHANGED storeVars

(* Steps 1, 0 and 2 to 5 pass; a request they deny changes no state.       *)
VerifyStart(v, c, tier) ==
    /\ verifying[v].pc = "idle"
    /\ BuildsChain(c, stored, MaxChainDepth)
    /\ verifying' = [verifying EXCEPT ![v] =
            [pc |-> "lookup", leaf |-> c, tier |-> tier,
             todo |-> ChainSubjects(c), skipped |-> {}]]
    /\ UNCHANGED storeVars

(* Step 6, one subject: GetStatus reports it active.                       *)
LookupActive(v, s) ==
    /\ s \in verifying[v].todo
    /\ ~Denied(s)
    /\ verifying' = [verifying EXCEPT ![v].todo = @ \ {s}]
    /\ UNCHANGED storeVars

(* Step 6, one subject: its latest entry denies, and so does Verify.       *)
LookupDenied(v, s) ==
    /\ s \in verifying[v].todo
    /\ Denied(s)
    /\ verifying' = [verifying EXCEPT ![v] = IdleVerify]
    /\ UNCHANGED storeVars

(* Step 6, the lookup fails: HIGH denies, the lower tiers carry on.        *)
LookupFails(v, s) ==
    /\ s \in verifying[v].todo
    /\ StoreFails
    /\ verifying' =
        IF verifying[v].tier = "HIGH"
        THEN [verifying EXCEPT ![v] = IdleVerify]
        ELSE [verifying EXCEPT ![v].todo = @ \ {s}, ![v].skipped = @ \cup {s}]
    /\ UNCHANGED <<stored, index, entries>>

(* Steps 7 to 10 pass, and step 11 finds the leaf registered or the tier   *)
(* below HIGH: the invocation is authorized.                               *)
VerifyAllow(v) ==
    /\ verifying[v].pc = "lookup"
    /\ verifying[v].todo = {}
    /\ verifying[v].tier = "HIGH" => Contains(verifying[v].leaf, verifying[v].leaf)
    /\ verifying' = [verifying EXCEPT ![v].pc = "allowed"]
    /\ UNCHANGED storeVars

(* One of the steps 7 to 11 denies; at HIGH a failed registration query    *)
(* counts as unregistered.                                                 *)
VerifyReject(v) ==
    /\ verifying[v].pc = "lookup"
    /\ verifying[v].todo = {}
    /\ verifying' = [verifying EXCEPT ![v] = IdleVerify]
    /\ UNCHANGED storeVars

(* The response carries the decision to the caller.                        *)
VerifyReply(v) ==
    /\ verifying[v].pc = "allowed"
    /\ verifying' = [verifying EXCEPT ![v] = IdleVerify]
    /\ UNCHANGED storeVars

VerifyRequest(v) == \E c \in CID, tier \in Tiers : VerifyStart(v, c, tier)

VerifyProgress(v) ==
    \/ \E s \in Subject : LookupActive(v, s) \/ LookupDenied(v, s) \/ LookupFails(v, s)
    \/ VerifyAllow(v) \/ VerifyReject(v) \/ VerifyReply(v)
=============================================================================
