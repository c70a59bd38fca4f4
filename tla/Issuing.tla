------------------------------ MODULE Issuing ------------------------------
(***************************************************************************)
(* handleIssueCredential and handleDelegate.  A request validates, puts    *)
(* the new credential into the store and registers its chain: two store    *)
(* calls, between which other requests run and the process may die.        *)
(* Requests that fail validation change nothing and are not steps.         *)
(***************************************************************************)
EXTENDS TrustStore

CONSTANT
    Issuers     \* the issue and delegate requests that can be in flight at once

VARIABLES
    issuing,    \* per request: what it does next, and the credential it minted
    refused     \* history: delegations answered 400 after they were stored, each
                \* with what BuildChain met: a limit, or an error of the store

issuingVars == <<issuing, refused>>

IdleIssue == [pc |-> "idle", cid |-> NoCID]

IssueRecord == {IdleIssue} \cup [pc : {"build", "register"}, cid : CID]

IssuingTypeOK ==
    /\ issuing \in [Issuers -> IssueRecord]
    /\ refused \subseteq CID \X {"limit", "error"}

IssuingInit ==
    /\ issuing = [t \in Issuers |-> IdleIssue]
    /\ refused = {}

(* Answered 400 because the chain exceeds the configured limits.           *)
OverLimit(c) == <<c, "limit">> \in refused

InFlight(c) == \E t \in Issuers : issuing[t].pc # "idle" /\ issuing[t].cid = c

-----------------------------------------------------------------------------
(* handleIssueCredential up to PutCredential.                              *)
Issue(t, c) ==
    /\ issuing[t].pc = "idle"
    /\ Issuable(c)
    /\ PutCredential(c)
    /\ issuing' = [issuing EXCEPT ![t] = [pc |-> "register", cid |-> c]]
    /\ UNCHANGED <<index, entries, faults, refused>>

(* Mutant of Delegate: the parent is taken from the request, not looked up.*)
MutantDelegateUnseenParent(t, c) ==
    /\ issuing[t].pc = "idle"
    /\ Delegable(c)
    /\ PutCredential(c)
    /\ issuing' = [issuing EXCEPT ![t] = [pc |-> "build", cid |-> c]]
    /\ UNCHANGED <<index, entries, faults, refused>>

(* handleDelegate and delegateRestrict up to storeAndRegister's            *)
(* PutCredential.  Neither the expiry nor the revocation status of the     *)
(* parent is looked at.                                                    *)
Delegate(t, c) ==
    /\ issuing[t].pc = "idle"
    /\ Delegable(c)
    /\ Parent(c) \in stored
    /\ PutCredential(c)
    /\ issuing' = [issuing EXCEPT ![t] = [pc |-> "build", cid |-> c]]
    /\ UNCHANGED <<index, entries, faults, refused>>

(* storeAndRegister rebuilds the chain it just extended ...                *)
BuildDelegation(t) ==
    /\ issuing[t].pc = "build"
    /\ BuildsChain(issuing[t].cid, stored, MaxChainDepth)
    /\ issuing' = [issuing EXCEPT ![t].pc = "register"]
    /\ UNCHANGED <<storeVars, refused>>

(* ... and answers 400 if the chain exceeds a limit; the credential stays  *)
(* in the store.                                                           *)
RefuseDelegation(t) ==
    /\ issuing[t].pc = "build"
    /\ ~BuildsChain(issuing[t].cid, stored, MaxChainDepth)
    /\ refused' = refused \cup {<<issuing[t].cid, "limit">>}
    /\ issuing' = [issuing EXCEPT ![t] = IdleIssue]
    /\ UNCHANGED storeVars

(* One Register call with every CID of the chain (a root's is itself),     *)
(* then the reply.                                                         *)
RegisterChain(t) ==
    /\ issuing[t].pc = "register"
    /\ Register(issuing[t].cid, Chain(issuing[t].cid))
    /\ issuing' = [issuing EXCEPT ![t] = IdleIssue]
    /\ UNCHANGED <<stored, entries, faults, refused>>

(* A store error: one that BuildChain meets is answered 400 as well, with  *)
(* the same words as an invalid chain; one of Register is answered 500.    *)
(* What was stored stays stored.                                           *)
IssuingFails(t) ==
    /\ issuing[t].pc # "idle"
    /\ StoreFails
    /\ refused' = IF issuing[t].pc = "build"
                    THEN refused \cup {<<issuing[t].cid, "error">>} ELSE refused
    /\ issuing' = [issuing EXCEPT ![t] = IdleIssue]
    /\ UNCHANGED <<stored, index, entries>>

IssueRequest(t) == \E c \in CID : Issue(t, c) \/ Delegate(t, c)

IssueProgress(t) ==
    BuildDelegation(t) \/ RefuseDelegation(t) \/ RegisterChain(t)
=============================================================================
