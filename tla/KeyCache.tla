------------------------------ MODULE KeyCache ------------------------------
(***************************************************************************)
(* OIDC sponsor authentication: every request carries a bearer token, and  *)
(* OIDCVerifier.Verify checks it under the identity provider's keys, which *)
(* httpJWKS.keys caches for a while and refreshes with a single fetch that *)
(* all concurrent callers share.                                           *)
(*                                                                         *)
(* The provider's successive key sets are numbered.  A fetch returns the   *)
(* set published at some moment while it ran, or fails.                    *)
(***************************************************************************)
EXTENDS Integers

CONSTANTS
    Callers,        \* the requests that can be in flight at once
    Nobody,         \* no caller
    Tokens,         \* the tokens they present, all of this issuer and audience
    KidOf, NoKid,   \* a token's kid, or NoKid
    SignerOf,       \* the key that signed it
    ExpOf,          \* its exp
    Newest,         \* the number of the provider's last key set
    KeySet,         \* the key sets: version -> (kid -> key)
    Ttl,            \* httpJWKS.ttl
    FetchTimeout,   \* the client's timeout
    Leeway,         \* OIDCVerifier.leeway
    MaxPause,       \* ticks a caller may rest between two steps of its own
    MaxClock        \* bound on the clock

ASSUME KeyCacheAssumption ==
    /\ Nobody \notin Callers
    /\ Newest \in Nat \ {0}
    /\ Ttl \in Nat \ {0} /\ FetchTimeout \in Nat /\ Leeway \in Nat
    /\ MaxPause \in Nat /\ MaxClock \in Nat
    /\ ExpOf \in [Tokens -> Nat]

VARIABLES
    clock,
    published,      \* the version the provider publishes
    retired,        \* history: when each version was replaced, or NotYet
    cached,         \* the cached version, or NoKeys
    fetchedAt,      \* when it was stored
    inflight,       \* the caller that runs the fetch h.inflight, or Nobody
    calls,          \* per caller: its program counter and local variables
    served          \* history: the newest version any call has been given

vars == <<clock, published, retired, cached, fetchedAt, inflight, calls, served>>

NoKeys == 0

NotYet == -1

Versions == 1..Newest

(***************************************************************************)
(* entered: the clock when the call began; floor: served at that moment;   *)
(* due: the tick by which the caller takes its next step; leader: whose    *)
(* fetch it shares; from: the version published when its own fetch began;  *)
(* got: the version it was given, NoKeys if the fetch failed.              *)
(***************************************************************************)
Idle == [pc |-> "idle"]

ActiveCall ==
    [pc : {"fetch", "wait", "store", "close", "check", "accepted", "denied"},
     token : Tokens, entered : Nat, floor : Versions \cup {NoKeys}, due : Nat,
     leader : Callers, from : Versions \cup {NoKeys}, got : Versions \cup {NoKeys}]

CallRecord == {Idle} \cup ActiveCall

TypeOK ==
    /\ clock \in Nat
    /\ published \in Versions
    /\ retired \in [Versions -> Nat \cup {NotYet}]
    /\ cached \in Versions \cup {NoKeys}
    /\ fetchedAt \in Nat
    /\ inflight \in Callers \cup {Nobody}
    /\ calls \in [Callers -> CallRecord]
    /\ served \in Versions \cup {NoKeys}

Init ==
    /\ clock = 0
    /\ published = 1
    /\ retired = [v \in Versions |-> NotYet]
    /\ cached = NoKeys
    /\ fetchedAt = 0
    /\ inflight = Nobody
    /\ calls = [c \in Callers |-> Idle]
    /\ served = NoKeys

Latest(v, w) == IF v > w THEN v ELSE w

-----------------------------------------------------------------------------
(* httpJWKS.keys                                                           *)

Fresh == cached # NoKeys /\ clock - fetchedAt < Ttl

Entering(c, t, pc, due) ==
    [pc |-> pc, token |-> t, entered |-> clock, floor |-> served, due |-> due,
     leader |-> c, from |-> NoKeys, got |-> NoKeys]

(* The cache is fresh: the call is given what it holds.                    *)
Hit(c, t) ==
    /\ calls[c] = Idle
    /\ Fresh
    /\ calls' = [calls EXCEPT ![c] =
                   [Entering(c, t, "check", clock + MaxPause) EXCEPT !.got = cached]]
    /\ served' = Latest(served, cached)
    /\ UNCHANGED <<clock, published, retired, cached, fetchedAt, inflight>>

(* A fetch is running: the call waits for it, however long that takes.     *)
Join(c, t) ==
    /\ calls[c] = Idle
    /\ ~Fresh
    /\ inflight # Nobody
    /\ calls' = [calls EXCEPT ![c] = [Entering(c, t, "wait", 0) EXCEPT !.leader = inflight]]
    /\ UNCHANGED <<clock, published, retired, cached, fetchedAt, inflight, served>>

(* Nobody is fetching: the call does, without the lock.                    *)
MutantLeadAlways(c, t) ==
    /\ calls[c] = Idle
    /\ ~Fresh
    /\ inflight' = c
    /\ calls' = [calls EXCEPT ![c] =
                   [Entering(c, t, "fetch", clock + FetchTimeout) EXCEPT !.from = published]]
    /\ UNCHANGED <<clock, published, retired, cached, fetchedAt, served>>

Lead(c, t) ==
    /\ calls[c] = Idle
    /\ ~Fresh
    /\ inflight = Nobody
    /\ inflight' = c
    /\ calls' = [calls EXCEPT ![c] =
                   [Entering(c, t, "fetch", clock + FetchTimeout) EXCEPT !.from = published]]
    /\ UNCHANGED <<clock, published, retired, cached, fetchedAt, served>>

(***************************************************************************)
(* The fetch ends: with the keys published at some moment since it began,  *)
(* or, if the provider was slow, broken or sent a bad document, without.   *)
(***************************************************************************)
MutantFetchEndsUnguarded(c) ==
    /\ calls[c].pc = "fetch"
    /\ \E v \in (calls[c].from .. published) \cup {NoKeys} :
         calls' = [calls EXCEPT ![c] =
                     [@ EXCEPT !.pc = "store", !.due = clock + MaxPause,
                               !.from = NoKeys, !.got = v]]
    /\ inflight' = Nobody
    /\ UNCHANGED <<clock, published, retired, cached, fetchedAt, served>>

FetchEnds(c) ==
    /\ calls[c].pc = "fetch"
    /\ \E v \in (calls[c].from .. published) \cup {NoKeys} :
         calls' = [calls EXCEPT ![c] =
                     [@ EXCEPT !.pc = "store", !.due = clock + MaxPause,
                               !.from = NoKeys, !.got = v]]
    /\ UNCHANGED <<clock, published, retired, cached, fetchedAt, inflight, served>>

(* The lock is taken again: keys are cached, a failure leaves the cache.   *)
MutantStoreFailureIsFresh(c) ==
    /\ calls[c].pc = "store"
    /\ cached' = IF calls[c].got # NoKeys THEN calls[c].got ELSE cached
    /\ fetchedAt' = clock
    /\ inflight' = Nobody
    /\ calls' = [calls EXCEPT ![c].pc = "close", ![c].due = clock + MaxPause]
    /\ UNCHANGED <<clock, published, retired, served>>

Store(c) ==
    /\ calls[c].pc = "store"
    /\ IF calls[c].got # NoKeys
         THEN cached' = calls[c].got /\ fetchedAt' = clock
         ELSE UNCHANGED <<cached, fetchedAt>>
    /\ inflight' = Nobody
    /\ calls' = [calls EXCEPT ![c].pc = "close", ![c].due = clock + MaxPause]
    /\ UNCHANGED <<clock, published, retired, served>>

(* done is closed: everyone who waits gets the result of this fetch.       *)
Sharing(c) == {d \in Callers : calls[d].pc = "wait" /\ calls[d].leader = c}

MutantCloseSuccessOnly(c) ==
    /\ calls[c].pc = "close"
    /\ calls' = [d \in Callers |->
         IF d = c \/ (d \in Sharing(c) /\ calls[c].got # NoKeys)
           THEN [calls[d] EXCEPT !.pc = "check", !.due = clock + MaxPause, !.got = calls[c].got]
           ELSE calls[d]]
    /\ served' = Latest(served, calls[c].got)
    /\ UNCHANGED <<clock, published, retired, cached, fetchedAt, inflight>>

MutantCloseRetries(c) ==
    /\ calls[c].pc = "close"
    /\ calls' = [d \in Callers |->
         IF d \in Sharing(c) /\ calls[c].got = NoKeys
           THEN [calls[d] EXCEPT !.pc = "fetch", !.due = clock + FetchTimeout, !.from = published]
         ELSE IF d \in {c} \cup Sharing(c)
           THEN [calls[d] EXCEPT !.pc = "check", !.due = clock + MaxPause, !.got = calls[c].got]
           ELSE calls[d]]
    /\ served' = Latest(served, calls[c].got)
    /\ UNCHANGED <<clock, published, retired, cached, fetchedAt, inflight>>

Close(c) ==
    /\ calls[c].pc = "close"
    /\ calls' = [d \in Callers |->
         IF d \in {c} \cup Sharing(c)
           THEN [calls[d] EXCEPT !.pc = "check", !.due = clock + MaxPause, !.got = calls[c].got]
           ELSE calls[d]]
    /\ served' = Latest(served, calls[c].got)
    /\ UNCHANGED <<clock, published, retired, cached, fetchedAt, inflight>>

-----------------------------------------------------------------------------
(* OIDCVerifier.Verify                                                     *)

(* The key for the token's kid; a token without one needs a sole key.      *)
KeysFor(t, v) ==
    LET keys == KeySet[v]
    IN  IF KidOf[t] \in DOMAIN keys THEN {keys[KidOf[t]]}
        ELSE IF KidOf[t] = NoKid /\ \E k \in DOMAIN keys : DOMAIN keys = {k}
               THEN {keys[k] : k \in DOMAIN keys}
               ELSE {}

Accepts(t, v) ==
    /\ v # NoKeys
    /\ SignerOf[t] \in KeysFor(t, v)
    /\ clock <= ExpOf[t] + Leeway

Check(c) ==
    /\ calls[c].pc = "check"
    /\ calls' = [calls EXCEPT ![c] =
         [@ EXCEPT !.pc = IF Accepts(calls[c].token, calls[c].got) THEN "accepted" ELSE "denied",
                   !.floor = NoKeys, !.due = 0, !.leader = c, !.got = NoKeys]]
    /\ UNCHANGED <<clock, published, retired, cached, fetchedAt, inflight, served>>

Leave(c) ==
    /\ calls[c].pc \in {"accepted", "denied"}
    /\ calls' = [calls EXCEPT ![c] = Idle]
    /\ UNCHANGED <<clock, published, retired, cached, fetchedAt, inflight, served>>

-----------------------------------------------------------------------------
(* The provider rotates its keys.                                          *)
Rotate ==
    /\ published < Newest
    /\ published' = published + 1
    /\ retired' = [retired EXCEPT ![published] = clock]
    /\ UNCHANGED <<clock, cached, fetchedAt, inflight, calls, served>>

(* Time passes: no fetch outlasts its timeout, no caller its pause.        *)
Tick ==
    /\ clock < MaxClock
    /\ \A c \in Callers : calls[c].pc \in {"fetch", "store", "close", "check"} =>
                            clock < calls[c].due
    /\ clock' = clock + 1
    /\ UNCHANGED <<published, retired, cached, fetchedAt, inflight, calls, served>>

Next ==
    \/ \E c \in Callers, t \in Tokens : Hit(c, t) \/ Join(c, t) \/ Lead(c, t)
    \/ \E c \in Callers :
         FetchEnds(c) \/ Store(c) \/ Close(c) \/ Check(c) \/ Leave(c)
    \/ Rotate
    \/ Tick

Spec == Init /\ [][Next]_vars

(***************************************************************************)
(* A call that has begun goes on, and the client gives up on a fetch when  *)
(* its timeout has passed.  Nothing is assumed of the provider.            *)
(***************************************************************************)
FairSpec ==
    /\ Spec
    /\ \A c \in Callers : WF_vars(FetchEnds(c) \/ Store(c) \/ Close(c) \/ Check(c))

-----------------------------------------------------------------------------
(* Two requests to the provider never overlap, from their dispatch to the  *)
(* update of the cache (keys: concurrent refreshes are coalesced).         *)
SingleFetch ==
    \A c, d \in Callers :
      calls[c].pc \in {"fetch", "store"} /\ calls[d].pc \in {"fetch", "store"} => c = d

(***************************************************************************)
(* A call is never given older keys than some call that had its keys       *)
(* before this one began, whether they come from the cache, from a fetch   *)
(* of its own or from one it joined (keys: cached and inflight change      *)
(* under one lock).                                                        *)
(***************************************************************************)
NoStepBack ==
    \A c \in Callers :
      calls[c].pc = "check" => calls[c].got = NoKeys \/ calls[c].got >= calls[c].floor

(***************************************************************************)
(* A token is accepted only under a key that the provider still published  *)
(* less than a cache lifetime and one fetch before the request             *)
(* (keys: the TTL, so key rotation is eventually picked up).               *)
(***************************************************************************)
WithdrawnKeysExpire ==
    \A c \in Callers : calls[c].pc = "accepted" =>
      \E v \in 1..published :
        /\ SignerOf[calls[c].token] \in KeysFor(calls[c].token, v)
        /\ \/ retired[v] = NotYet
           \/ retired[v] > calls[c].entered - Ttl - FetchTimeout - MaxPause

(***************************************************************************)
(* Whatever the provider does, a call waits for one fetch at most and is   *)
(* answered within its timeout and the pauses of three steps (keys: N      *)
(* requests against a hanging provider cost one timeout).                  *)
(***************************************************************************)
OneTimeoutEach ==
    \A c \in Callers :
      calls[c].pc \notin {"idle", "accepted", "denied"} =>
        clock <= calls[c].entered + FetchTimeout + 3 * MaxPause

(* Every call is answered, also those that wait for a fetch that fails.    *)
EveryCallAnswered ==
    \A c \in Callers : calls[c] # Idle ~> calls[c].pc \in {"accepted", "denied"}

=============================================================================
