------------------------------ MODULE Daemon -------------------------------
(***************************************************************************)
(* adtpd: the request handlers and the reconciler of one daemon process    *)
(* over its durable store.  Requests interleave at their store calls.  The *)
(* process can die at any moment and lose everything but the store; when   *)
(* it comes back it reconciles the registration index before it serves.    *)
(***************************************************************************)
EXTENDS Issuing, Revoking, Reconciling, Verifying

CONSTANTS
    Boot,           \* the reconciliation pass runServer makes before serving
    RevokeStatuses, \* the statuses clients ask for in this instance
    MaxCrashes      \* bound on the number of crashes

ASSUME DaemonAssumption ==
    /\ Boot \in Reconcilers
    /\ RevokeStatuses \subseteq Status
    /\ MaxCrashes \in Nat
    /\ MaxSeq \in Nat

VARIABLES
    up,             \* the HTTP server accepts requests
    crashes,        \* how many times the process has died
    blocked         \* history: see Observe

vars == <<storeVars, issuingVars, revokingVars, reconciling, verifying,
          up, crashes, blocked>>

Init ==
    /\ StoreInit
    /\ IssuingInit
    /\ RevokingInit
    /\ ReconcilingInit
    /\ VerifyingInit
    /\ up = FALSE
    /\ crashes = 0
    /\ blocked = [v \in Verifiers |-> {}]

-----------------------------------------------------------------------------
(***************************************************************************)
(* blocked[v] holds the subjects that have been denied without             *)
(* interruption ever since verify request v arrived.                       *)
(***************************************************************************)
Observe ==
    blocked' = [v \in Verifiers |->
        IF verifying'[v].pc = "idle" THEN {}
        ELSE IF verifying[v].pc = "idle" THEN DeniedSubjects'
        ELSE blocked[v] \cap DeniedSubjects']

IssuerStep(t) ==
    /\ (up /\ IssueRequest(t)) \/ IssueProgress(t) \/ IssuingFails(t)
    /\ UNCHANGED <<revokingVars, reconciling, verifying, up, crashes>>

RevokerStep(t) ==
    /\ \/ up /\ \E s \in Subject, st \in RevokeStatuses : RevokeRequest(t, s, st)
       \/ RevokeProgress(t)
       \/ RevokingFails(t)
    /\ UNCHANGED <<issuingVars, reconciling, verifying, up, crashes>>

VerifierStep(v) ==
    /\ (up /\ VerifyRequest(v)) \/ VerifyProgress(v)
    /\ UNCHANGED <<issuingVars, revokingVars, reconciling, up, crashes>>

(* The periodic reconciler and POST /v1/reconcile run while serving.       *)
ReconcilerStep(r) ==
    /\ r # Boot
    /\ (up /\ ReconcileStart(r)) \/ ReconcileProgress(r) \/ ReconcileDone(r)
    /\ UNCHANGED <<issuingVars, revokingVars, verifying, up, crashes>>

(* Mutant of BootStep: runServer listens as soon as the pass has begun.    *)
MutantListenAtOnce ==
    /\ \/ ~up /\ reconciling[Boot].pc = "idle" /\ ReconcileStart(Boot) /\ up' = TRUE
       \/ ReconcileProgress(Boot) /\ UNCHANGED up
       \/ ReconcileDone(Boot) /\ UNCHANGED up
    /\ UNCHANGED <<issuingVars, revokingVars, verifying, crashes>>

(* runServer reconciles, and only then starts to listen.                   *)
BootStep ==
    /\ \/ ~up /\ ReconcileStart(Boot) /\ UNCHANGED up
       \/ ReconcileProgress(Boot) /\ UNCHANGED up
       \/ ReconcileDone(Boot) /\ up' = TRUE
    /\ UNCHANGED <<issuingVars, revokingVars, verifying, crashes>>

(* ListCredentials fails at startup: logged, and the daemon serves.        *)
BootFails ==
    /\ ~up
    /\ reconciling[Boot].pc = "idle"
    /\ StoreFails
    /\ up' = TRUE
    /\ UNCHANGED <<stored, index, entries, issuingVars, revokingVars, reconciling,
                   verifying, crashes>>

(* The process dies: every request and pass in flight is lost.             *)
Crash ==
    /\ crashes < MaxCrashes
    /\ crashes' = crashes + 1
    /\ up' = FALSE
    /\ issuing' = [t \in Issuers |-> IdleIssue]
    /\ revoking' = [t \in Revokers |-> IdleRevoke]
    /\ reconciling' = [r \in Reconcilers |-> IdleReconcile]
    /\ verifying' = [v \in Verifiers |-> IdleVerify]
    /\ UNCHANGED <<storeVars, refused, acked>>

Step ==
    \/ \E t \in Issuers : IssuerStep(t)
    \/ \E t \in Revokers : RevokerStep(t)
    \/ \E v \in Verifiers : VerifierStep(v)
    \/ \E r \in Reconcilers : ReconcilerStep(r)
    \/ BootStep
    \/ BootFails
    \/ Crash

Next == Step /\ Observe

Spec == Init /\ [][Next]_vars

(***************************************************************************)
(* A handler that has begun runs on to its reply (a goroutine is not       *)
(* abandoned), startup reconciles and serves, and with                     *)
(* reconcile_interval_minutes > 0 the ticker keeps starting passes.        *)
(* Nothing makes a client send a request, and nothing makes the process or *)
(* the store fail.                                                         *)
(***************************************************************************)
Fairness ==
    /\ \A t \in Issuers : WF_vars(issuing[t].pc # "idle" /\ IssuerStep(t) /\ Observe)
    /\ \A t \in Revokers : WF_vars(revoking[t].pc # "idle" /\ RevokerStep(t) /\ Observe)
    /\ \A v \in Verifiers : WF_vars(verifying[v].pc # "idle" /\ VerifierStep(v) /\ Observe)
    /\ \A r \in Reconcilers : WF_vars(ReconcilerStep(r) /\ Observe)
    /\ WF_vars(BootStep /\ Observe)

FairSpec == Spec /\ Fairness

-----------------------------------------------------------------------------
(* Every variable keeps its type: the shape of the store rows and of the   *)
(* local variables of each handler.                                        *)
TypeOK ==
    /\ StoreTypeOK
    /\ IssuingTypeOK
    /\ RevokingTypeOK
    /\ ReconcilingTypeOK
    /\ VerifyingTypeOK
    /\ up \in BOOLEAN
    /\ crashes \in Nat
    /\ blocked \in [Verifiers -> SUBSET Subject]

(* The chain of every stored credential can be rebuilt from the store,     *)
(* whatever requests and crashes came before: no prf link ever dangles, so *)
(* step 1 never denies a credential of this daemon for a missing proof.    *)
ChainsResolvable == \A c \in stored : Chain(c) \subseteq stored

(* The revocation guarantee of step 6: a verification never authorizes     *)
(* while a CID or an audience of its chain was denied from before the      *)
(* request arrived until the decision, except for a subject whose lookup   *)
(* failed, and at HIGH not even then.                                      *)
RevokedNeverAuthorized ==
    \A v \in Verifiers :
        verifying[v].pc = "allowed" =>
            /\ blocked[v] \cap ChainSubjects(verifying[v].leaf)
                    \subseteq verifying[v].skipped
            /\ verifying[v].tier = "HIGH" => verifying[v].skipped = {}

(* A delegation storeAndRegister refused because its chain exceeds the     *)
(* configured limits is left in the store and may be registered by a later *)
(* Reconcile, whose depth limit is laxer; it is still never authorized.    *)
(* (One refused because the store failed under BuildChain gets the same    *)
(* 400, and may well be registered and authorized later.)                  *)
OverLimitNeverAuthorized ==
    \A v \in Verifiers :
        verifying[v].pc = "allowed" => ~OverLimit(verifying[v].leaf)

(* What handleRevoke acknowledged stays in force until a later sequence    *)
(* number of the same subject supersedes it: two requests that read the    *)
(* same CurrentSeq cannot both be answered 200.                            *)
AckedInForce ==
    \A r \in acked :
        \/ entries[r.subject].seq > r.seq
        \/ entries[r.subject] = [seq |-> r.seq, status |-> r.status]

(* When ExecuteCascade has run to its end it has posted an entry for every *)
(* descendant that was registered before the request, whatever was         *)
(* delegated, revoked or reconciled meanwhile.                             *)
CascadeComplete ==
    \A t \in Revokers :
        revoking[t].pc = "next" /\ revoking[t].todo = {} =>
            revoking[t].known \subseteq {r.subject : r \in revoking[t].posted}

(* Startup reconciliation backfills what a crash between PutCredential and *)
(* Register left out: while the store has not failed, a serving daemon's   *)
(* index lacks only rows of delegations in flight, refused for a limit or  *)
(* beyond the hard limits.                                                 *)
BootRepairs ==
    up /\ faults = 0 =>
        \A c \in stored :
            Indexed(c) \/ InFlight(c) \/ OverLimit(c) \/ ~Walkable(c)

(* Reconcile is idempotent: a pass over an index that lacked nothing when  *)
(* the pass listed the store repairs nothing, whatever is delegated while  *)
(* it runs; only a failed Contains query makes it count a repair.          *)
ReconcileIdempotent ==
    \A r \in Reconcilers :
        reconciling[r].clean => reconciling[r].repairs <= faults

(* The depth-left budget: every delegation between a stored credential and *)
(* an ancestor has used up at least one unit of the ancestor's depth.      *)
DepthBudget ==
    \A c \in stored : \A a \in Chain(c) :
        Content[c].dl + (Depth(c) - Depth(a)) <= Content[a].dl

(* An entry changes only by a request that read the sequence number the    *)
(* entry still has, to the next one: a REINSTATED that was decided before  *)
(* a revocation landed can never undo it.                                  *)
NoStaleOverwrite ==
    [][\A s \in Subject :
        entries'[s] # entries[s] =>
            /\ entries'[s].seq = entries[s].seq + 1
            /\ \E t \in Revokers :
                /\ revoking[t].row.subject = s
                /\ revoking[t].row.seq = entries'[s].seq
                /\ revoking[t].row.status = entries'[s].status]_vars

(***************************************************************************)
(* The rows that cascades still running have posted so far.  With them for *)
(* held, the daemon is a revocation ledger.                                *)
(***************************************************************************)
Held == UNION {revoking[t].posted : t \in Revokers}

Ledger == INSTANCE RevocationLedger WITH held <- Held

(* The two store calls of a revoke request, CurrentSeq and Revoke, with    *)
(* other requests, cascades, errors and crashes between them, come to one  *)
(* atomic posting of the subject's next entry; and a client is only told   *)
(* of entries that took effect on behalf of its own request.               *)
ImplementsLedger == Ledger!Spec

(* With the periodic reconciler on, the index catches up with the store    *)
(* again and again, so every stored credential that can be walked is in    *)
(* the end wholly registered, whichever of its own Register calls a crash  *)
(* or an error cut short.                                                  *)
EventuallyIndexed ==
    []<>(\A c \in stored : Walkable(c) => Indexed(c))

-----------------------------------------------------------------------------
(* What the protocol document says of this code and the code does not do.  *)

(* docs/PROTOCOL.md 8.5 and 13.6: no chain is authorized at HIGH before    *)
(* all of its hops carry registration evidence, hence it is enumerable.    *)
(* Step 11 looks at the leaf's own row only, which Reconcile writes first. *)
AuthorizedIsEnumerable ==
    \A v \in Verifiers :
        verifying[v].pc = "allowed" /\ verifying[v].tier = "HIGH" => Indexed(verifying[v].leaf)
=============================================================================
