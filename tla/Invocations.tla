---------------------------- MODULE Invocations ----------------------------
(***************************************************************************)
(* Proof of possession (step 10): an invocation is signed for one verifier *)
(* and carries a nonce, and MemoryNonceCache remembers the nonces it has   *)
(* seen.  The same invocation can arrive many times: a client or a proxy   *)
(* retries it, before or after the daemon restarts with an empty cache.    *)
(*                                                                         *)
(* The wall clock advances in ticks, of which a second has TicksPerSecond: *)
(* validity is judged in whole seconds (time.Now().Unix()), the expiry of  *)
(* a nonce on the full clock (time.Time).  The clock never runs backwards. *)
(***************************************************************************)
EXTENDS Integers, Sequences, FiniteSets

CONSTANTS
    Invocation,     \* the invocations presented, each with a nonce of its own
    Iat, Exp,       \* their iat and exp, in seconds
    Requests,       \* the verify requests that can be in flight at once
    TicksPerSecond,
    Freshness,      \* invocationFreshness
    ClockSkew,      \* invocationClockSkew
    Lifetime,       \* invocationLifetime
    MaxPause,       \* ticks a request may take from its validity check on
    MaxClock,       \* bound on the clock
    MaxRestarts     \* bound on the restarts

ASSUME InvocationAssumption ==
    /\ Iat \in [Invocation -> Nat]
    /\ Exp \in [Invocation -> Nat]
    /\ TicksPerSecond \in Nat \ {0}
    /\ Freshness \in Nat
    /\ ClockSkew \in Nat
    /\ Lifetime \in Nat
    /\ MaxPause \in Nat
    /\ MaxClock \in Nat
    /\ MaxRestarts \in Nat

VARIABLES
    clock,      \* the wall clock, in ticks
    boots,      \* StartTime of every daemon instance so far, the last one's last
    cache,      \* the instance's nonce cache: invocation -> expiry, or Unseen
    checking,   \* per request: its program counter and local variables
    accepted,   \* history: which instance accepted what, and when
    twice       \* history: invocations one instance accepted more than once

vars == <<clock, boots, cache, checking, accepted, twice>>

Unseen == -1

Seconds(t) == t \div TicksPerSecond

Ticks(s) == s * TicksPerSecond

(* The number of the instance that is running.                             *)
Instance == Len(boots)

StartTime == boots[Instance]

(***************************************************************************)
(* since is the tick at which the validity was checked, ttl the remaining  *)
(* lifetime in seconds, expiry the tick CheckAndStore computes from it,    *)
(* prev the expiry it found in the cache.                                  *)
(***************************************************************************)
IdleCheck == [pc |-> "idle"]

CheckRecord ==
    {IdleCheck} \cup
    [pc : {"stamp", "load", "compare", "refresh"}, inv : Invocation, since : Nat,
     ttl : Nat, expiry : Nat, prev : Nat]

TypeOK ==
    /\ clock \in Nat
    /\ boots \in Seq(Nat) /\ boots # <<>>
    /\ cache \in [Invocation -> Nat \cup {Unseen}]
    /\ checking \in [Requests -> CheckRecord]
    /\ accepted \subseteq [inv : Invocation, instance : 1..Instance, at : Nat]
    /\ twice \subseteq Invocation

Init ==
    /\ clock = 0
    /\ boots = <<0>>
    /\ cache = [i \in Invocation |-> Unseen]
    /\ checking = [v \in Requests |-> IdleCheck]
    /\ accepted = {}
    /\ twice = {}

-----------------------------------------------------------------------------
(* Mutant of Valid: an invocation from before the boot is let through.     *)
MutantValidPreBoot(i, now) ==
    /\ Iat[i] <= now + ClockSkew
    /\ now - Iat[i] <= Freshness
    /\ Exp[i] >= now
    /\ Exp[i] <= Iat[i] + Lifetime

(* step10PoP and VerifyInvocation, all but the nonce: not from before the  *)
(* boot, not from too far in the future, not stale, not expired, and not   *)
(* longer-lived than allowed.                                              *)
Valid(i, now) ==
    /\ Iat[i] >= StartTime
    /\ Iat[i] <= now + ClockSkew
    /\ now - Iat[i] <= Freshness
    /\ Exp[i] >= now
    /\ Exp[i] <= Iat[i] + Lifetime

(* Mutant of Ttl: a nonce is remembered for one second.                    *)
MutantTtlOneSecond(i, now) == 1

(* How long the nonce is remembered, in seconds.                           *)
Ttl(i, now) == IF Exp[i] > now THEN Exp[i] - now ELSE 1

(* What instance n has accepted.                                           *)
AcceptedBy(n) == {a.inv : a \in {b \in accepted : b.instance = n}}

(* Request v passes step 10; the clock of its validity check counts.       *)
Accept(v) ==
    LET i == checking[v].inv IN
    /\ accepted' = accepted \cup
            {[inv |-> i, instance |-> Instance, at |-> Seconds(checking[v].since)]}
    /\ twice' = IF i \in AcceptedBy(Instance) THEN twice \cup {i} ELSE twice

(* Request v presents i and passes the validity checks, signature included *)
(* (one that does not pass them changes nothing).                          *)
Present(v, i) ==
    /\ checking[v].pc = "idle"
    /\ Valid(i, Seconds(clock))
    /\ checking' = [checking EXCEPT ![v] =
            [pc |-> "stamp", inv |-> i, since |-> clock,
             ttl |-> Ttl(i, Seconds(clock)), expiry |-> 0, prev |-> 0]]
    /\ UNCHANGED <<clock, boots, cache, accepted, twice>>

(* CheckAndStore reads the clock ...                                       *)
Stamp(v) ==
    /\ checking[v].pc = "stamp"
    /\ checking' = [checking EXCEPT ![v].pc = "load",
                                    ![v].expiry = clock + Ticks(checking[v].ttl)]
    /\ UNCHANGED <<clock, boots, cache, accepted, twice>>

(* ... LoadOrStore stores a nonce that is not there: accepted,             *)
StoreNew(v) ==
    /\ checking[v].pc = "load"
    /\ cache[checking[v].inv] = Unseen
    /\ cache' = [cache EXCEPT ![checking[v].inv] = checking[v].expiry]
    /\ Accept(v)
    /\ checking' = [checking EXCEPT ![v] = IdleCheck]
    /\ UNCHANGED <<clock, boots>>

(* Mutant of LoadSeen: what is loaded is not looked at.                    *)
MutantLoadAlways(v) ==
    /\ checking[v].pc = "load"
    /\ checking' = [checking EXCEPT ![v].pc = "compare",
                                    ![v].prev = cache[checking[v].inv]]
    /\ UNCHANGED <<clock, boots, cache, accepted, twice>>

(* and loads the expiry of one that is;                                    *)
LoadSeen(v) ==
    /\ checking[v].pc = "load"
    /\ cache[checking[v].inv] # Unseen
    /\ checking' = [checking EXCEPT ![v].pc = "compare",
                                    ![v].prev = cache[checking[v].inv]]
    /\ UNCHANGED <<clock, boots, cache, accepted, twice>>

(* a nonce still remembered is a replay, and denied,                       *)
DenyReplay(v) ==
    /\ checking[v].pc = "compare"
    /\ clock < checking[v].prev
    /\ checking' = [checking EXCEPT ![v] = IdleCheck]
    /\ UNCHANGED <<clock, boots, cache, accepted, twice>>

(* one that has expired is to be refreshed,                                *)
FindExpired(v) ==
    /\ checking[v].pc = "compare"
    /\ clock >= checking[v].prev
    /\ checking' = [checking EXCEPT ![v].pc = "refresh"]
    /\ UNCHANGED <<clock, boots, cache, accepted, twice>>

(* stored again and accepted as fresh.                                     *)
Refresh(v) ==
    /\ checking[v].pc = "refresh"
    /\ cache' = [cache EXCEPT ![checking[v].inv] = checking[v].expiry]
    /\ Accept(v)
    /\ checking' = [checking EXCEPT ![v] = IdleCheck]
    /\ UNCHANGED <<clock, boots>>

(* Time passes; no request is held up for longer than MaxPause.            *)
Tick ==
    /\ clock < MaxClock
    /\ \A v \in Requests :
            checking[v].pc # "idle" => clock < checking[v].since + MaxPause
    /\ clock' = clock + 1
    /\ UNCHANGED <<boots, cache, checking, accepted, twice>>

(* The daemon dies and comes back: newService notes the boot time, in      *)
(* seconds, and makes an empty cache.                                      *)
Restart ==
    /\ Len(boots) <= MaxRestarts
    /\ boots' = Append(boots, Seconds(clock))
    /\ cache' = [i \in Invocation |-> Unseen]
    /\ checking' = [v \in Requests |-> IdleCheck]
    /\ UNCHANGED <<clock, accepted, twice>>

CheckAndStore(v) ==
    \/ Stamp(v) \/ StoreNew(v) \/ LoadSeen(v)
    \/ DenyReplay(v) \/ FindExpired(v) \/ Refresh(v)

Next ==
    \/ \E v \in Requests : (\E i \in Invocation : Present(v, i)) \/ CheckAndStore(v)
    \/ Tick
    \/ Restart

Spec == Init /\ [][Next]_vars

-----------------------------------------------------------------------------
(* One instance accepts an invocation once, if the invocation outlives the *)
(* window in which it is fresh by the time a request may take: its nonce   *)
(* is remembered until no request that saw it fresh can still be at work.  *)
(* CreateInvocation's invocations live Lifetime seconds, five times the    *)
(* freshness window.                                                       *)
Outlives(i) == Ticks(Exp[i]) >= Ticks(Iat[i] + Freshness + 1) + MaxPause

SpentOnce == \A i \in twice : ~Outlives(i)

(* The restart defence: an invocation that one instance accepted is only   *)
(* accepted by a later one that was back within ClockSkew seconds of it.   *)
RestartDefence ==
    \A a, b \in accepted :
        a.inv = b.inv /\ a.instance < b.instance =>
            boots[b.instance] <= a.at + ClockSkew

-----------------------------------------------------------------------------
(* What comments of this code say and the code does not do.                *)

(* internal/verify/pop.go:63: the cache records spent nonces to defeat     *)
(* replay.  An invocation that expires while it is fresh is accepted once  *)
(* more in the rest of its last second, when its nonce has expired.        *)
NeverTwice == twice = {}
=============================================================================
