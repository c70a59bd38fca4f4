-------------------------- MODULE RevocationLedger --------------------------
(***************************************************************************)
(* What the daemon promises of revocation, without its handlers, locks and *)
(* sequence checks: every subject has one line of entries numbered 1, 2,   *)
(* 3, ...; a request takes effect at a single moment, as the next entry of *)
(* its subject; and it is answered, if at all, with entries that took      *)
(* effect on its behalf.                                                   *)
(***************************************************************************)
EXTENDS Naturals

CONSTANTS
    Subject,    \* what can be revoked
    Status      \* what an entry can say of it

VARIABLES
    entries,    \* subject -> its latest entry
    held,       \* rows that took effect for requests not yet answered
    acked       \* rows a client was told of

vars == <<entries, held, acked>>

Init ==
    /\ entries = [s \in Subject |-> [seq |-> 0, status |-> "NONE"]]
    /\ held = {}
    /\ acked = {}

(* The next entry of s takes effect; its request has more to do, or is     *)
(* answered with it, or never answered.                                    *)
Post(s, st) ==
    LET next == entries[s].seq + 1
        row == [subject |-> s, seq |-> next, status |-> st]
    IN  /\ entries' = [entries EXCEPT ![s] = [seq |-> next, status |-> st]]
        /\ held' \subseteq held \cup {row}
        /\ acked' \in {acked, acked \cup {row}}

(* Requests end: some of them answered, the others never.                  *)
End ==
    /\ held' \subseteq held
    /\ acked \subseteq acked'
    /\ acked' \subseteq acked \cup held
    /\ UNCHANGED entries

Next == End \/ \E s \in Subject, st \in Status : Post(s, st)

Spec == Init /\ [][Next]_vars
=============================================================================
