---------------------------- MODULE Reconciling ----------------------------
(***************************************************************************)
(* Reconcile: one pass over the credentials the store held when the pass   *)
(* began.  It rebuilds each chain and registers the elements the index     *)
(* lacks, one Register call per element, from the leaf up to the root.     *)
(***************************************************************************)
EXTENDS TrustStore

CONSTANT
    Reconcilers     \* the passes that can run at once

VARIABLE
    reconciling     \* per pass: its local variables and its report

(***************************************************************************)
(* todo holds the CIDs still to walk; cid is the credential being walked   *)
(* and at the element it has come to (NoCID between two credentials);      *)
(* repairs is the report's RepairsApplied.  clean, a history field, says   *)
(* that nothing was missing when the pass listed the store.                *)
(***************************************************************************)
IdleReconcile ==
    [pc |-> "idle", todo |-> {}, cid |-> NoCID, at |-> NoCID,
     repairs |-> 0, clean |-> FALSE]

ReconcileRecord ==
    {IdleReconcile} \cup
    [pc : {"walk"}, todo : SUBSET CID, cid : CID \cup {NoCID},
     at : CID \cup {NoCID}, repairs : Nat, clean : BOOLEAN]

ReconcilingTypeOK ==
    /\ reconciling \in [Reconcilers -> ReconcileRecord]
    /\ \A r \in Reconcilers :
            reconciling[r].at # NoCID => reconciling[r].cid \in CID

ReconcilingInit == reconciling = [r \in Reconcilers |-> IdleReconcile]

(* The index holds every row of c's chain.                                 *)
Indexed(c) == ChainRows(c) \subseteq index

(* What Reconcile can walk: its depth limit is HardMaxDepth, whatever the  *)
(* configured chain depth is.                                              *)
Walkable(c) == BuildsChain(c, stored, HardMaxDepth)

-----------------------------------------------------------------------------
(* Mutant of ReconcileStart: a credential with its own row is taken to be  *)
(* wholly registered, as step 11 takes it to be.                           *)
MutantStartUnregisteredOnly(r) ==
    /\ reconciling[r].pc = "idle"
    /\ reconciling' = [reconciling EXCEPT ![r] =
            [pc |-> "walk", todo |-> {c \in stored : ~Contains(c, c)},
             cid |-> NoCID, at |-> NoCID,
             repairs |-> 0, clean |-> \A c \in stored : Indexed(c)]]
    /\ UNCHANGED storeVars

(* ListCredentials.                                                        *)
ReconcileStart(r) ==
    /\ reconciling[r].pc = "idle"
    /\ reconciling' = [reconciling EXCEPT ![r] =
            [pc |-> "walk", todo |-> stored, cid |-> NoCID, at |-> NoCID,
             repairs |-> 0, clean |-> \A c \in stored : Indexed(c)]]
    /\ UNCHANGED storeVars

(* The next credential's chain is rebuilt ...                              *)
ReconcileChain(r, c) ==
    /\ reconciling[r].at = NoCID
    /\ c \in reconciling[r].todo
    /\ Walkable(c)
    /\ reconciling' = [reconciling EXCEPT ![r].todo = @ \ {c},
                                          ![r].cid = c, ![r].at = c]
    /\ UNCHANGED storeVars

(* ... or cannot be: the error is counted and the pass goes on.            *)
ReconcileSkip(r, c) ==
    /\ reconciling[r].at = NoCID
    /\ c \in reconciling[r].todo
    /\ \/ ~Walkable(c) /\ UNCHANGED faults
       \/ StoreFails
    /\ reconciling' = [reconciling EXCEPT ![r].todo = @ \ {c}]
    /\ UNCHANGED <<stored, index, entries>>

(* An element the index already has is passed over.                        *)
ReconcilePresent(r) ==
    /\ reconciling[r].at # NoCID
    /\ Contains(reconciling[r].cid, reconciling[r].at)
    /\ reconciling' = [reconciling EXCEPT ![r].at = Parent(@)]
    /\ UNCHANGED storeVars

(* Mutant of ReconcileRepair: every element is registered, none is checked.*)
MutantRepairUnchecked(r) ==
    /\ reconciling[r].at # NoCID
    /\ Register(reconciling[r].cid, {reconciling[r].at})
    /\ reconciling' = [reconciling EXCEPT ![r].at = Parent(@), ![r].repairs = @ + 1]
    /\ UNCHANGED <<stored, entries, faults>>

(* A missing one is registered and counted; so is one that Contains        *)
(* reports missing because its query failed.                               *)
ReconcileRepair(r) ==
    /\ reconciling[r].at # NoCID
    /\ \/ ~Contains(reconciling[r].cid, reconciling[r].at) /\ UNCHANGED faults
       \/ StoreFails
    /\ Register(reconciling[r].cid, {reconciling[r].at})
    /\ reconciling' = [reconciling EXCEPT ![r].at = Parent(@), ![r].repairs = @ + 1]
    /\ UNCHANGED <<stored, entries>>

(* Register fails: the error is counted and the walk goes on.              *)
ReconcileError(r) ==
    /\ reconciling[r].at # NoCID
    /\ ~Contains(reconciling[r].cid, reconciling[r].at)
    /\ StoreFails
    /\ reconciling' = [reconciling EXCEPT ![r].at = Parent(@)]
    /\ UNCHANGED <<stored, index, entries>>

(* Every credential has been walked: the pass is audited and reported.     *)
ReconcileDone(r) ==
    /\ reconciling[r].pc = "walk"
    /\ reconciling[r].at = NoCID
    /\ reconciling[r].todo = {}
    /\ reconciling' = [reconciling EXCEPT ![r] = IdleReconcile]
    /\ UNCHANGED storeVars

ReconcileProgress(r) ==
    \/ \E c \in CID : ReconcileChain(r, c) \/ ReconcileSkip(r, c)
    \/ ReconcilePresent(r) \/ ReconcileRepair(r) \/ ReconcileError(r)
=============================================================================
