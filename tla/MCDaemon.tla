------------------------------ MODULE MCDaemon -----------------------------
(***************************************************************************)
(* Instances of Daemon for TLC.  The credentials: a root UCAN with two     *)
(* levels of delegation below it, mid and leaf; and flat, a block that     *)
(* would not reduce its parent's depth, which the daemon must refuse.      *)
(***************************************************************************)
EXTENDS Daemon

CONSTANTS root, mid, leaf, flat, alice, bob

Cred(parent, aud, dl, items, weight) ==
    [parent |-> parent, aud |-> aud, dl |-> dl, items |-> items, weight |-> weight]

Family ==
    [k \in {root, mid, leaf, flat} |->
        CASE k = root  -> Cred(NoCID, alice, 2, 1, 1)
          [] k = mid   -> Cred(root, bob, 1, 1, 1)
          [] k = leaf  -> Cred(mid, alice, 0, 1, 1)
          [] k = flat  -> Cred(mid, alice, 1, 1, 1)]

MCContent == [k \in CID |-> Family[k]]
=============================================================================
