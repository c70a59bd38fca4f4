---------------------------- MODULE TrustStore -----------------------------
(***************************************************************************)
(* The daemon's store: the credentials it holds, the registration index,   *)
(* and the latest revocation entry of every subject.  Each operator below  *)
(* is one call of the store interface, which is atomic in both back ends   *)
(* (a mutex in store/memory, one transaction in store/postgres).           *)
(*                                                                         *)
(* A revocation subject is named by its CID or its DID                     *)
(* (RevocationSubject.Key); the back ends agree for subjects that name     *)
(* exactly one of them, which is what this module models.                  *)
(***************************************************************************)
EXTENDS Credentials, Authority

CONSTANTS
    Seeded,     \* credentials issued and registered before the behaviour starts
    MaxFaults   \* bound on the store calls that return an error

VARIABLES
    stored,     \* the CIDs PutCredential has been called for
    index,      \* registration index: <<c, a>> when c's chain is known to hold a
    entries,    \* subject -> its latest revocation entry
    faults      \* how many store calls have returned an error so far

storeVars == <<stored, index, entries, faults>>

Subject == CID \cup DID

Denying == Status \ {"REINSTATED"}

Entry == [seq : Nat, status : Status \cup {"NONE"}]

NoEntry == [seq |-> 0, status |-> "NONE"]

StoreTypeOK ==
    /\ stored \subseteq CID
    /\ index \subseteq CID \X CID
    /\ entries \in [Subject -> Entry]
    /\ faults \in Nat

(* The index rows of a credential whose chain is wholly registered.        *)
ChainRows(c) == {c} \X Chain(c)

StoreInit ==
    /\ stored = Seeded
    /\ index = UNION {ChainRows(c) : c \in Seeded}
    /\ entries = [s \in Subject |-> NoEntry]
    /\ faults = 0

(* A store call returns an error: the database is unreachable, or the      *)
(* request's context was cancelled because its client went away.           *)
StoreFails == faults < MaxFaults /\ faults' = faults + 1

-----------------------------------------------------------------------------
(* Credentials and the registration index.                                 *)

PutCredential(c) == stored' = stored \cup {c}

(* Mutant of Register: the caller passes prf along, empty at the root.     *)
MutantRegisterPrf(c, elements) ==
    index' = index \cup ({c} \X (elements \cup {Parent(c)}))

Register(c, elements) == index' = index \cup ({c} \X elements)

Contains(c, a) == <<c, a>> \in index

FindDescendants(a) == {c \in CID : <<c, a>> \in index} \ {a}

-----------------------------------------------------------------------------
(* Revocation entries.                                                     *)

CurrentSeq(s) == entries[s].seq

(* What GetStatus and step 6 make of a subject: denied unless it has no    *)
(* entry or its latest entry is REINSTATED.                                *)
Denied(s) == entries[s].status \in Denying

DeniedSubjects == {s \in Subject : Denied(s)}

(* Mutant of RevokeAccepts: an equal sequence number is accepted.          *)
MutantAcceptsEqual(s, seq) == seq >= entries[s].seq

(* Revoke refuses a sequence that does not exceed the subject's latest.    *)
RevokeAccepts(s, seq) == seq > entries[s].seq

Revoke(s, seq, status) ==
    /\ RevokeAccepts(s, seq)
    /\ entries' = [entries EXCEPT ![s] = [seq |-> seq, status |-> status]]

-----------------------------------------------------------------------------
ASSUME SeededAssumption ==
    /\ MaxFaults \in Nat
    /\ Seeded \subseteq CID
    /\ ParentClosed(Seeded)
    /\ \A c \in Seeded : Issuable(c) \/ Delegable(c)
    /\ \A c \in Seeded : BuildsChain(c, Seeded, MaxChainDepth)
=============================================================================
