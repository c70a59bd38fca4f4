----------------------------- MODULE Revoking ------------------------------
(***************************************************************************)
(* handleRevoke and ExecuteCascade, the only writers of revocation         *)
(* entries.  Each write is two store calls: CurrentSeq reads the subject's *)
(* sequence number, Revoke posts an entry with the next one and is refused *)
(* if the subject has moved on meanwhile.  A COMPROMISED credential is     *)
(* followed by a CASCADE entry for every registered descendant.            *)
(***************************************************************************)
EXTENDS TrustStore

CONSTANTS
    Revokers,   \* the revoke requests that can be in flight at once
    MaxSeq      \* bound on the sequence number a request may start from

VARIABLES
    revoking,   \* per request: its program counter and local variables
    acked       \* history: the entries acknowledged to a client with 200

revokingVars == <<revoking, acked>>

EntryRow == [subject : Subject, seq : Nat, status : Status]

Row(s, n, st) == [subject |-> s, seq |-> n, status |-> st]

(***************************************************************************)
(* row is the entry about to be posted, origin the compromised credential  *)
(* of a cascade, todo the descendants still to do, posted the rows the     *)
(* cascade has written (its report), and known, a history field, the       *)
(* descendants that were registered when the request arrived.              *)
(***************************************************************************)
NoRow == [subject |-> NoCID, seq |-> 0, status |-> "NONE"]

IdleRevoke ==
    [pc |-> "idle", row |-> NoRow, origin |-> NoCID,
     todo |-> {}, posted |-> {}, known |-> {}]

ActiveRevoke ==
    [pc : {"apply", "enumerate", "next", "applyNext"},
     row : EntryRow, origin : CID \cup {NoCID},
     todo : SUBSET CID, posted : SUBSET EntryRow, known : SUBSET CID]

RevokeRecord == {IdleRevoke} \cup ActiveRevoke

RevokingTypeOK ==
    /\ revoking \in [Revokers -> RevokeRecord]
    /\ acked \subseteq EntryRow

RevokingInit ==
    /\ revoking = [t \in Revokers |-> IdleRevoke]
    /\ acked = {}

(* The store accepts the row a request is about to post.                   *)
Accepts(r) == RevokeAccepts(r.subject, r.seq)

Post(r) == Revoke(r.subject, r.seq, r.status)

-----------------------------------------------------------------------------
(* handleRevoke, to the point where CurrentSeq has answered.  The daemon   *)
(* revokes as the platform authority, which ValidateAuthority lets set     *)
(* every status with every scope.                                          *)
RevokeRequest(t, s, st) ==
    /\ revoking[t].pc = "idle"
    /\ CurrentSeq(s) < MaxSeq
    /\ LET cascade == st = "COMPROMISED" /\ s \in CID IN
       revoking' = [revoking EXCEPT ![t] =
            [pc |-> "apply", row |-> Row(s, CurrentSeq(s) + 1, st),
             origin |-> IF cascade THEN s ELSE NoCID,
             todo |-> {}, posted |-> {},
             known |-> IF cascade THEN FindDescendants(s) ELSE {}]]
    /\ UNCHANGED <<storeVars, acked>>

(* Store.Revoke accepts a request that is no cascade: audited and answered *)
(* with the new sequence number.                                           *)
RevokeApply(t) ==
    /\ revoking[t].pc = "apply"
    /\ revoking[t].origin = NoCID
    /\ Post(revoking[t].row)
    /\ acked' = acked \cup {revoking[t].row}
    /\ revoking' = [revoking EXCEPT ![t] = IdleRevoke]
    /\ UNCHANGED <<stored, index, faults>>

(* Mutant of RevokeConflict: a cascade passes over a conflicting           *)
(* descendant and goes on.                                                 *)
MutantConflictIgnored(t) ==
    /\ revoking[t].pc \in {"apply", "applyNext"}
    /\ ~Accepts(revoking[t].row)
    /\ revoking' = [revoking EXCEPT ![t] =
            IF @.pc = "apply" THEN IdleRevoke ELSE [@ EXCEPT !.pc = "next"]]
    /\ UNCHANGED <<storeVars, acked>>

(* Mutant of RevokeConflict: the failed Store.Revoke is answered 200.      *)
MutantConflictAnswered(t) ==
    /\ revoking[t].pc \in {"apply", "applyNext"}
    /\ ~Accepts(revoking[t].row)
    /\ acked' = acked \cup {revoking[t].row}
    /\ revoking' = [revoking EXCEPT ![t] = IdleRevoke]
    /\ UNCHANGED storeVars

(* Store.Revoke finds that the subject has moved on: ErrSequenceRollback.  *)
(* A plain request is answered 409.  A cascade stops where it is, with     *)
(* what it has posted so far in place.                                     *)
RevokeConflict(t) ==
    /\ revoking[t].pc \in {"apply", "applyNext"}
    /\ ~Accepts(revoking[t].row)
    /\ revoking' = [revoking EXCEPT ![t] = IdleRevoke]
    /\ UNCHANGED <<storeVars, acked>>

(* ExecuteCascade posts the primary COMPROMISED entry ...                  *)
CascadePrimary(t) ==
    /\ revoking[t].pc = "apply"
    /\ revoking[t].origin # NoCID
    /\ Post(revoking[t].row)
    /\ revoking' = [revoking EXCEPT ![t].pc = "enumerate",
                                    ![t].posted = {revoking[t].row}]
    /\ UNCHANGED <<stored, index, faults, acked>>

(* ... enumerates the registered descendants ...                           *)
CascadeEnumerate(t) ==
    /\ revoking[t].pc = "enumerate"
    /\ revoking' = [revoking EXCEPT ![t].pc = "next",
                                    ![t].todo = FindDescendants(revoking[t].origin)]
    /\ UNCHANGED <<storeVars, acked>>

(* ... reads the sequence number of the next one ...                       *)
CascadeRead(t, d) ==
    /\ revoking[t].pc = "next"
    /\ d \in revoking[t].todo
    /\ revoking' = [revoking EXCEPT ![t].pc = "applyNext",
                                    ![t].row = Row(d, CurrentSeq(d) + 1, "CASCADE"),
                                    ![t].todo = @ \ {d}]
    /\ UNCHANGED <<storeVars, acked>>

(* ... and posts its CASCADE entry,                                        *)
CascadeDescendant(t) ==
    /\ revoking[t].pc = "applyNext"
    /\ Post(revoking[t].row)
    /\ revoking' = [revoking EXCEPT ![t].pc = "next",
                                    ![t].posted = @ \cup {revoking[t].row}]
    /\ UNCHANGED <<stored, index, faults, acked>>

(* until none is left and the request is answered with the report.         *)
CascadeDone(t) ==
    /\ revoking[t].pc = "next"
    /\ revoking[t].todo = {}
    /\ acked' = acked \cup revoking[t].posted
    /\ revoking' = [revoking EXCEPT ![t] = IdleRevoke]
    /\ UNCHANGED storeVars

(* A store call or a cascade's audit append returns an error: the request  *)
(* is answered 500 and stops where it is.                                  *)
RevokingFails(t) ==
    /\ revoking[t].pc # "idle"
    /\ StoreFails
    /\ revoking' = [revoking EXCEPT ![t] = IdleRevoke]
    /\ UNCHANGED <<stored, index, entries, acked>>

RevokeProgress(t) ==
    \/ RevokeApply(t) \/ RevokeConflict(t)
    \/ CascadePrimary(t) \/ CascadeEnumerate(t)
    \/ (\E d \in CID : CascadeRead(t, d))
    \/ CascadeDescendant(t) \/ CascadeDone(t)
=============================================================================
