-------------------------- MODULE InvocationProofs --------------------------
(***************************************************************************)
(* Proofs about Invocations, for any invocations, any number of requests   *)
(* and restarts, and any resolution of the clock.                          *)
(***************************************************************************)
EXTENDS Invocations, TLAPS

-----------------------------------------------------------------------------
(* Ticks and seconds.                                                      *)

(* A tick lies in its second.                                              *)
LEMMA SecondsBound ==
    ASSUME NEW t \in Nat
    PROVE  /\ Seconds(t) \in Nat
           /\ Ticks(Seconds(t)) <= t
           /\ t < Ticks(Seconds(t) + 1)
<1>1. TicksPerSecond \in Nat /\ TicksPerSecond > 0
  BY InvocationAssumption
<1> QED
  BY <1>1 DEF Seconds, Ticks

(* Ticks is monotone and additive.                                         *)
LEMMA TicksMonotone ==
    ASSUME NEW a \in Nat, NEW b \in Nat, a <= b
    PROVE  Ticks(a) \in Nat /\ Ticks(b) \in Nat /\ Ticks(a) <= Ticks(b)
<1>1. TicksPerSecond \in Nat
  BY InvocationAssumption
<1> QED
  BY <1>1 DEF Ticks

LEMMA TicksAdd ==
    ASSUME NEW a \in Nat, NEW b \in Nat
    PROVE  Ticks(a + b) = Ticks(a) + Ticks(b)
<1>1. TicksPerSecond \in Nat
  BY InvocationAssumption
<1> QED
  BY <1>1 DEF Ticks

(* A nonce stored for the remaining lifetime is remembered to the expiry   *)
(* of its invocation, however late the expiry is computed.                 *)
LEMMA TtlReachesExp ==
    ASSUME NEW i \in Invocation, NEW t \in Nat, NEW u \in Nat, t <= u
    PROVE  /\ Ttl(i, Seconds(t)) \in Nat
           /\ u + Ticks(Ttl(i, Seconds(t))) >= Ticks(Exp[i])
<1> DEFINE n == Seconds(t)
           d == Ttl(i, n)
<1>1. n \in Nat /\ Ticks(n) <= t /\ Exp[i] \in Nat
  BY SecondsBound, InvocationAssumption
<1>2. d \in Nat /\ Exp[i] <= n + d
  BY <1>1 DEF Ttl
<1> HIDE DEF n, d
<1> DEFINE m == n + d
<1>a. m \in Nat /\ Exp[i] <= m
  BY <1>1, <1>2
<1>b. Ticks(m) = Ticks(n) + Ticks(d)
  BY <1>1, <1>2, TicksAdd
<1> HIDE DEF m
<1>3. Ticks(Exp[i]) <= Ticks(n) + Ticks(d)
  BY <1>1, <1>a, <1>b, TicksMonotone
<1>4. Ticks(n) \in Nat /\ Ticks(d) \in Nat /\ Ticks(Exp[i]) \in Nat
  BY <1>1, <1>2, TicksMonotone
<1>5. u + Ticks(d) >= Ticks(Exp[i])
  BY <1>1, <1>3, <1>4
<1> QED
  BY <1>2, <1>5 DEF n, d

(* A tick at which an invocation is found fresh precedes the end of its    *)
(* window of freshness.                                                    *)
LEMMA FreshBound ==
    ASSUME NEW i \in Invocation, NEW t \in Nat, Seconds(t) - Iat[i] <= Freshness
    PROVE  t < Ticks(Iat[i] + Freshness + 1)
<1>1. /\ Seconds(t) \in Nat /\ t < Ticks(Seconds(t) + 1)
      /\ Iat[i] \in Nat /\ Freshness \in Nat
  BY SecondsBound, InvocationAssumption
<1>2. Seconds(t) + 1 <= Iat[i] + Freshness + 1
  BY <1>1
<1> DEFINE a == Seconds(t) + 1
           b == Iat[i] + Freshness + 1
<1>3. a \in Nat /\ b \in Nat /\ a <= b
  BY <1>1, <1>2
<1> HIDE DEF a, b
<1>4. Ticks(a) <= Ticks(b) /\ Ticks(a) \in Nat /\ Ticks(b) \in Nat
  BY <1>3, TicksMonotone
<1>5. t < Ticks(a)
  BY <1>1 DEF a
<1> QED
  BY <1>4, <1>5 DEF b

-----------------------------------------------------------------------------
(* Types.                                                                  *)

ActiveCheck ==
    [pc : {"stamp", "load", "compare", "refresh"}, inv : Invocation, since : Nat,
     ttl : Nat, expiry : Nat, prev : Nat]

LEMMA NextTypeOK == TypeOK /\ [Next]_vars => TypeOK'
<1> SUFFICES ASSUME TypeOK, [Next]_vars PROVE TypeOK'
  OBVIOUS
<1> DEFINE Kept == clock' \in Nat /\ boots' \in Seq(Nat) /\ boots' # <<>>
<1>0. /\ Instance \in Nat /\ Instance >= 1 /\ StartTime \in Nat
      /\ \A v \in Requests : checking[v].pc # "idle" => checking[v] \in ActiveCheck
  BY DEF TypeOK, Instance, StartTime, CheckRecord, IdleCheck, ActiveCheck
<1>1. CASE UNCHANGED vars
  BY <1>1 DEF TypeOK, vars, Instance
<1>2. ASSUME NEW v \in Requests, NEW i \in Invocation, Present(v, i) PROVE TypeOK'
  <2> DEFINE new == [pc |-> "stamp", inv |-> i, since |-> clock,
                     ttl |-> Ttl(i, Seconds(clock)), expiry |-> 0, prev |-> 0]
  <2>1. new \in CheckRecord
    BY TtlReachesExp DEF TypeOK, CheckRecord
  <2>2. checking' = [checking EXCEPT ![v] = new]
    BY <1>2 DEF Present
  <2> HIDE DEF new
  <2> QED
    BY <1>2, <2>1, <2>2 DEF Present, TypeOK, Instance
<1>3. ASSUME NEW v \in Requests, Stamp(v) PROVE TypeOK'
  <2> DEFINE new == [checking[v] EXCEPT !.pc = "load",
                                        !.expiry = clock + Ticks(checking[v].ttl)]
  <2>1. clock + Ticks(checking[v].ttl) \in Nat
    BY <1>0, <1>3, TicksMonotone DEF Stamp, ActiveCheck, TypeOK
  <2>2. new \in CheckRecord
    BY <1>0, <1>3, <2>1 DEF Stamp, ActiveCheck, CheckRecord
  <2>3. checking' = [checking EXCEPT ![v] = new]
    BY <1>3 DEF Stamp
  <2> HIDE DEF new
  <2> QED
    BY <1>3, <2>2, <2>3 DEF Stamp, TypeOK, Instance
<1>4. ASSUME NEW v \in Requests, StoreNew(v) \/ Refresh(v) PROVE TypeOK'
  <2>1. checking[v] \in ActiveCheck
    BY <1>0, <1>4 DEF StoreNew, Refresh
  <2>2. Seconds(checking[v].since) \in Nat
    BY <2>1, SecondsBound DEF ActiveCheck
  <2>3. accepted' \subseteq [inv : Invocation, instance : 1..Instance, at : Nat]
    BY <1>0, <1>4, <2>1, <2>2 DEF StoreNew, Refresh, Accept, ActiveCheck, TypeOK
  <2>4. twice' \subseteq Invocation
    BY <1>4, <2>1 DEF StoreNew, Refresh, Accept, ActiveCheck, TypeOK
  <2>5. cache' \in [Invocation -> Nat \cup {Unseen}]
    BY <1>4, <2>1 DEF StoreNew, Refresh, ActiveCheck, TypeOK
  <2> QED
    BY <1>4, <2>3, <2>4, <2>5 DEF StoreNew, Refresh, TypeOK, CheckRecord, Instance
<1>5. ASSUME NEW v \in Requests, LoadSeen(v) PROVE TypeOK'
  <2> DEFINE new == [checking[v] EXCEPT !.pc = "compare", !.prev = cache[checking[v].inv]]
  <2>1. new \in CheckRecord
    BY <1>0, <1>5 DEF LoadSeen, ActiveCheck, CheckRecord, TypeOK
  <2>2. checking' = [checking EXCEPT ![v] = new]
    BY <1>5 DEF LoadSeen
  <2> HIDE DEF new
  <2> QED
    BY <1>5, <2>1, <2>2 DEF LoadSeen, TypeOK, Instance
<1>6. ASSUME NEW v \in Requests, DenyReplay(v) PROVE TypeOK'
  BY <1>6 DEF DenyReplay, TypeOK, CheckRecord, Instance
<1>7. ASSUME NEW v \in Requests, FindExpired(v) PROVE TypeOK'
  <2> DEFINE new == [checking[v] EXCEPT !.pc = "refresh"]
  <2>1. new \in CheckRecord
    BY <1>0, <1>7 DEF FindExpired, ActiveCheck, CheckRecord
  <2>2. checking' = [checking EXCEPT ![v] = new]
    BY <1>7 DEF FindExpired
  <2> HIDE DEF new
  <2> QED
    BY <1>7, <2>1, <2>2 DEF FindExpired, TypeOK, Instance
<1>8. ASSUME Tick PROVE TypeOK'
  BY <1>8 DEF Tick, TypeOK, Instance
<1>9. ASSUME Restart PROVE TypeOK'
  <2> DEFINE now == Seconds(clock)
  <2>0. now \in Nat
    BY SecondsBound DEF TypeOK
  <2> HIDE DEF now
  <2>1. boots' \in Seq(Nat) /\ boots' # <<>> /\ Len(boots') = Len(boots) + 1
    <3>1. boots' = Append(boots, now) /\ boots \in Seq(Nat)
      BY <1>9 DEF Restart, TypeOK, now
    <3> QED
      BY <2>0, <3>1
  <2>2. accepted' \subseteq [inv : Invocation, instance : 1..Instance', at : Nat]
    BY <1>0, <1>9, <2>1 DEF Restart, TypeOK, Instance
  <2> QED
    BY <1>9, <2>1, <2>2 DEF Restart, TypeOK, CheckRecord
<1> QED
  BY <1>1, <1>2, <1>3, <1>4, <1>5, <1>6, <1>7, <1>8, <1>9 DEF Next, CheckAndStore

(* Every reachable state is well typed.                                    *)
THEOREM InvocationsTypeCorrect == Spec => []TypeOK
<1>1. Init => TypeOK
  BY DEF Init, TypeOK, CheckRecord, Instance
<1> QED
  BY <1>1, NextTypeOK, PTL DEF Spec

-----------------------------------------------------------------------------
(***************************************************************************)
(* The inductive invariant.  A request that has passed the validity checks *)
(* passed them recently; what it will store reaches to the expiry of its   *)
(* invocation, and so does everything in the cache; a request about to     *)
(* refresh an expired nonce shows that the invocation does not outlive its *)
(* window.                                                                 *)
(***************************************************************************)
CheckInv(q) ==
    q.pc # "idle" =>
        /\ q.since <= clock
        /\ clock <= q.since + MaxPause
        /\ Iat[q.inv] >= StartTime
        /\ Iat[q.inv] <= Seconds(q.since) + ClockSkew
        /\ q.since < Ticks(Iat[q.inv] + Freshness + 1)
        /\ q.pc = "stamp" => \A u \in Nat :
                q.since <= u => u + Ticks(q.ttl) >= Ticks(Exp[q.inv])
        /\ q.pc \in {"load", "compare", "refresh"} => q.expiry >= Ticks(Exp[q.inv])
        /\ q.pc \in {"compare", "refresh"} => q.prev >= Ticks(Exp[q.inv])
        /\ q.pc = "refresh" => ~Outlives(q.inv)

RequestsInv == \A v \in Requests : CheckInv(checking[v])

CacheInv ==
    /\ \A i \in Invocation : cache[i] # Unseen => cache[i] >= Ticks(Exp[i])
    /\ \A i \in AcceptedBy(Instance) : cache[i] # Unseen

AcceptedInv ==
    \A a \in accepted :
        boots[a.instance] <= Iat[a.inv] /\ Iat[a.inv] <= a.at + ClockSkew

PopInv == RequestsInv /\ CacheInv /\ AcceptedInv /\ SpentOnce

(* An active request's record is one, and the running instance is the last.*)
LEMMA TypeFacts ==
    ASSUME TypeOK
    PROVE  /\ Instance \in Nat /\ Instance >= 1 /\ StartTime \in Nat /\ clock \in Nat
           /\ \A v \in Requests : checking[v].pc # "idle" => checking[v] \in ActiveCheck
           /\ \A a \in accepted : /\ a.inv \in Invocation
                                  /\ a.instance \in 1..Instance
                                  /\ a.at \in Nat
BY DEF TypeOK, Instance, StartTime, CheckRecord, IdleCheck, ActiveCheck

(* A step of request v that moves no clock keeps the others' invariant.    *)
LEMMA OtherRequests ==
    ASSUME TypeOK, RequestsInv, NEW v \in Requests, UNCHANGED <<clock, boots>>,
           \A w \in Requests \ {v} : checking'[w] = checking[w],
           CheckInv(checking[v])'
    PROVE  RequestsInv'
<1>1. ASSUME NEW w \in Requests PROVE CheckInv(checking[w])'
  <2>1. CASE w = v
    BY <2>1
  <2>2. CASE w # v
    BY <2>2 DEF RequestsInv, CheckInv, StartTime, Instance
  <2> QED
    BY <2>1, <2>2
<1> QED
  BY <1>1 DEF RequestsInv

(* Accepting an invocation whose acceptance by this instance would be a    *)
(* second one only if it does not outlive its window.                      *)
LEMMA AcceptStep ==
    ASSUME TypeOK, PopInv, NEW v \in Requests, Accept(v), UNCHANGED <<clock, boots>>,
           checking[v].pc \in {"load", "refresh"},
           cache[checking[v].inv] = Unseen \/ checking[v].pc = "refresh",
           cache' = [cache EXCEPT ![checking[v].inv] = checking[v].expiry],
           checking' = [checking EXCEPT ![v] = IdleCheck]
    PROVE  PopInv'
<1> DEFINE i == checking[v].inv
<1>1. /\ checking[v] \in ActiveCheck /\ i \in Invocation
      /\ Instance' = Instance /\ StartTime' = StartTime
      /\ checking[v].since \in Nat /\ checking[v].expiry \in Nat
  BY TypeFacts DEF ActiveCheck, Instance, StartTime
<1>2. /\ checking[v].expiry >= Ticks(Exp[i])
      /\ Iat[i] >= StartTime
      /\ Iat[i] <= Seconds(checking[v].since) + ClockSkew
      /\ checking[v].pc = "refresh" => ~Outlives(i)
  BY DEF PopInv, RequestsInv, CheckInv
<1>3. RequestsInv'
  <2>1. checking'[v] = IdleCheck /\ \A w \in Requests \ {v} : checking'[w] = checking[w]
    BY DEF TypeOK
  <2>2. CheckInv(checking[v])'
    BY <2>1 DEF CheckInv, IdleCheck
  <2> QED
    BY <2>1, <2>2, OtherRequests DEF PopInv
<1>4. accepted' = accepted \cup
        {[inv |-> i, instance |-> Instance, at |-> Seconds(checking[v].since)]}
  BY DEF Accept
<1>5. CacheInv'
  <2>1. \A k \in Invocation : cache'[k] = IF k = i THEN checking[v].expiry ELSE cache[k]
    BY <1>1 DEF TypeOK
  <2>2. \A k \in AcceptedBy(Instance)' : k = i \/ k \in AcceptedBy(Instance)
    BY <1>1, <1>4 DEF AcceptedBy
  <2>3. checking[v].expiry # Unseen
    BY <1>1 DEF Unseen
  <2>4. \A k \in AcceptedBy(Instance) : k \in Invocation
    BY TypeFacts DEF AcceptedBy
  <2>5. \A k \in Invocation : cache'[k] # Unseen => cache'[k] >= Ticks(Exp[k])
    BY <1>2, <2>1 DEF PopInv, CacheInv
  <2>6. \A k \in AcceptedBy(Instance)' : cache'[k] # Unseen
    BY <1>1, <2>1, <2>2, <2>3, <2>4 DEF PopInv, CacheInv
  <2> QED
    BY <1>1, <2>5, <2>6 DEF CacheInv
<1>6. AcceptedInv'
  <2>1. boots[Instance] <= Iat[i]
    BY <1>2, TypeFacts, InvocationAssumption, <1>1 DEF StartTime
  <2> QED
    BY <1>2, <1>4, <2>1 DEF PopInv, AcceptedInv
<1>7. SpentOnce'
  <2>1. i \in AcceptedBy(Instance) => ~Outlives(i)
    BY <1>2 DEF PopInv, CacheInv
  <2> QED
    BY <2>1 DEF Accept, PopInv, SpentOnce
<1> QED
  BY <1>3, <1>5, <1>6, <1>7 DEF PopInv

(* A step that leaves the cache and the history alone.                     *)
LEMMA QuietStep ==
    ASSUME PopInv, RequestsInv', UNCHANGED <<boots, cache, accepted, twice>>
    PROVE  PopInv'
<1>1. CacheInv'
  BY DEF PopInv, CacheInv, AcceptedBy, Instance
<1>2. AcceptedInv' /\ SpentOnce'
  BY DEF PopInv, AcceptedInv, SpentOnce
<1> QED
  BY <1>1, <1>2 DEF PopInv

LEMMA NextPopInv == TypeOK /\ PopInv /\ [Next]_vars => PopInv'
<1> SUFFICES ASSUME TypeOK, PopInv, [Next]_vars PROVE PopInv'
  OBVIOUS
<1>0. /\ MaxPause \in Nat /\ clock \in Nat
      /\ \A i \in Invocation : Iat[i] \in Nat /\ Exp[i] \in Nat /\ Ticks(Exp[i]) \in Nat
  BY InvocationAssumption, TicksMonotone DEF TypeOK
<1>1. CASE UNCHANGED vars
  <2>1. RequestsInv'
    BY <1>1 DEF vars, PopInv, RequestsInv, CheckInv, StartTime, Instance
  <2> QED
    BY <1>1, <2>1, QuietStep DEF vars
<1>2. ASSUME NEW v \in Requests, NEW i \in Invocation, Present(v, i) PROVE PopInv'
  <2>1. /\ checking'[v] = [pc |-> "stamp", inv |-> i, since |-> clock,
                           ttl |-> Ttl(i, Seconds(clock)), expiry |-> 0, prev |-> 0]
        /\ \A w \in Requests \ {v} : checking'[w] = checking[w]
        /\ UNCHANGED <<clock, boots, cache, accepted, twice>>
        /\ Valid(i, Seconds(clock))
    BY <1>2 DEF Present, TypeOK
  <2>2. clock < Ticks(Iat[i] + Freshness + 1)
    BY <1>0, <2>1, FreshBound DEF Valid
  <2>3. \A u \in Nat : clock <= u =>
            u + Ticks(Ttl(i, Seconds(clock))) >= Ticks(Exp[i])
    BY <1>0, TtlReachesExp
  <2>4. clock <= clock + MaxPause
    BY <1>0
  <2>5. CheckInv(checking[v])'
    BY <1>0, <2>1, <2>2, <2>3, <2>4 DEF CheckInv, Valid, StartTime, Instance
  <2> QED
    BY <2>1, <2>5, OtherRequests, QuietStep DEF PopInv
<1>3. ASSUME NEW v \in Requests, Stamp(v) PROVE PopInv'
  <2> DEFINE q == checking[v]
  <2>1. q \in ActiveCheck /\ q.pc = "stamp" /\ CheckInv(q)
    BY <1>3, TypeFacts DEF Stamp, PopInv, RequestsInv
  <2>2. /\ checking'[v] = [q EXCEPT !.pc = "load", !.expiry = clock + Ticks(q.ttl)]
        /\ \A w \in Requests \ {v} : checking'[w] = checking[w]
        /\ UNCHANGED <<clock, boots, cache, accepted, twice>>
    BY <1>3 DEF Stamp, TypeOK
  <2>3. clock + Ticks(q.ttl) >= Ticks(Exp[q.inv])
    BY <1>0, <2>1 DEF CheckInv
  <2>4. /\ checking'[v].pc = "load" /\ checking'[v].inv = q.inv
        /\ checking'[v].since = q.since /\ checking'[v].expiry = clock + Ticks(q.ttl)
    BY <2>1, <2>2 DEF ActiveCheck
  <2>5. CheckInv(checking[v])'
    BY <2>1, <2>2, <2>3, <2>4 DEF CheckInv, StartTime, Instance
  <2> QED
    BY <2>2, <2>5, OtherRequests, QuietStep DEF PopInv
<1>4. ASSUME NEW v \in Requests, StoreNew(v) \/ Refresh(v) PROVE PopInv'
  BY <1>4, AcceptStep DEF StoreNew, Refresh
<1>5. ASSUME NEW v \in Requests, LoadSeen(v) PROVE PopInv'
  <2> DEFINE q == checking[v]
  <2>1. q \in ActiveCheck /\ q.pc = "load" /\ CheckInv(q) /\ q.inv \in Invocation
    BY <1>5, TypeFacts DEF LoadSeen, PopInv, RequestsInv, ActiveCheck
  <2>2. /\ checking'[v] = [q EXCEPT !.pc = "compare", !.prev = cache[q.inv]]
        /\ \A w \in Requests \ {v} : checking'[w] = checking[w]
        /\ UNCHANGED <<clock, boots, cache, accepted, twice>>
    BY <1>5 DEF LoadSeen, TypeOK
  <2>3. cache[q.inv] >= Ticks(Exp[q.inv])
    BY <1>5, <2>1 DEF LoadSeen, PopInv, CacheInv
  <2>4. /\ checking'[v].pc = "compare" /\ checking'[v].inv = q.inv
        /\ checking'[v].since = q.since /\ checking'[v].expiry = q.expiry
        /\ checking'[v].prev = cache[q.inv]
    BY <2>1, <2>2 DEF ActiveCheck
  <2>5. CheckInv(checking[v])'
    BY <2>1, <2>2, <2>3, <2>4 DEF CheckInv, StartTime, Instance
  <2> QED
    BY <2>2, <2>5, OtherRequests, QuietStep DEF PopInv
<1>6. ASSUME NEW v \in Requests, DenyReplay(v) PROVE PopInv'
  <2>1. /\ checking'[v] = IdleCheck
        /\ \A w \in Requests \ {v} : checking'[w] = checking[w]
        /\ UNCHANGED <<clock, boots, cache, accepted, twice>>
    BY <1>6 DEF DenyReplay, TypeOK
  <2>2. CheckInv(checking[v])'
    BY <2>1 DEF CheckInv, IdleCheck
  <2> QED
    BY <2>1, <2>2, OtherRequests, QuietStep DEF PopInv
<1>7. ASSUME NEW v \in Requests, FindExpired(v) PROVE PopInv'
  <2> DEFINE q == checking[v]
  <2>1. /\ q \in ActiveCheck /\ q.pc = "compare" /\ CheckInv(q) /\ clock >= q.prev
        /\ q.inv \in Invocation /\ q.since \in Nat /\ q.prev \in Nat
    BY <1>7, TypeFacts DEF FindExpired, PopInv, RequestsInv, ActiveCheck
  <2>2. /\ checking'[v] = [q EXCEPT !.pc = "refresh"]
        /\ \A w \in Requests \ {v} : checking'[w] = checking[w]
        /\ UNCHANGED <<clock, boots, cache, accepted, twice>>
    BY <1>7 DEF FindExpired, TypeOK
  <2>3. ~Outlives(q.inv)
    <3> DEFINE end == Ticks(Iat[q.inv] + Freshness + 1)
    <3>1. /\ clock <= q.since + MaxPause /\ q.since < end
          /\ q.prev >= Ticks(Exp[q.inv])
      BY <2>1 DEF CheckInv
    <3>2. end \in Nat
      <4>1. Iat[q.inv] + Freshness + 1 \in Nat
        BY <2>1, InvocationAssumption
      <4> QED
        BY <4>1, TicksMonotone
    <3> HIDE DEF end
    <3>3. Ticks(Exp[q.inv]) < end + MaxPause
      BY <1>0, <2>1, <3>1, <3>2
    <3>4. ~(Ticks(Exp[q.inv]) >= end + MaxPause)
      BY <1>0, <2>1, <3>2, <3>3
    <3> QED
      BY <3>4 DEF Outlives, end
  <2>4. /\ checking'[v].pc = "refresh" /\ checking'[v].inv = q.inv
        /\ checking'[v].since = q.since /\ checking'[v].expiry = q.expiry
        /\ checking'[v].prev = q.prev
    BY <2>1, <2>2 DEF ActiveCheck
  <2>5. CheckInv(checking[v])'
    BY <2>1, <2>2, <2>3, <2>4 DEF CheckInv, StartTime, Instance
  <2> QED
    BY <2>2, <2>5, OtherRequests, QuietStep DEF PopInv
<1>8. ASSUME Tick PROVE PopInv'
  <2>1. ASSUME NEW v \in Requests PROVE CheckInv(checking[v])'
    <3>1. CASE checking[v].pc = "idle"
      BY <1>8, <3>1 DEF Tick, CheckInv
    <3>2. CASE checking[v].pc # "idle"
      <4>1. /\ checking[v].since \in Nat /\ checking[v].since <= clock
            /\ clock < checking[v].since + MaxPause
            /\ clock' = clock + 1
        BY <1>8, <3>2, TypeFacts DEF Tick, PopInv, RequestsInv, CheckInv, ActiveCheck
      <4>2. checking[v].since <= clock' /\ clock' <= checking[v].since + MaxPause
        BY <1>0, <4>1
      <4> QED
        BY <1>8, <3>2, <4>2
           DEF Tick, PopInv, RequestsInv, CheckInv, StartTime, Instance
    <3> QED
      BY <3>1, <3>2
  <2>2. RequestsInv'
    BY <2>1 DEF RequestsInv
  <2> QED
    BY <1>8, <2>2, QuietStep DEF Tick
<1>9. ASSUME Restart PROVE PopInv'
  <2> DEFINE now == Seconds(clock)
  <2>0. now \in Nat
    BY <1>0, SecondsBound
  <2> HIDE DEF now
  <2>1. /\ boots' = Append(boots, now) /\ boots \in Seq(Nat)
        /\ UNCHANGED <<accepted, twice>>
    BY <1>9 DEF Restart, TypeOK, now
  <2>2. /\ Instance' = Instance + 1
        /\ \A k \in 1..Instance : boots'[k] = boots[k]
    BY <2>0, <2>1 DEF Instance
  <2>3. RequestsInv'
    BY <1>9 DEF Restart, RequestsInv, CheckInv, IdleCheck
  <2>4. AcceptedBy(Instance)' = {}
    BY <2>1, <2>2, TypeFacts DEF AcceptedBy
  <2>5. CacheInv'
    BY <1>9, <2>4 DEF Restart, CacheInv
  <2>6. AcceptedInv' /\ SpentOnce'
    BY <2>1, <2>2, TypeFacts DEF PopInv, AcceptedInv, SpentOnce
  <2> QED
    BY <2>3, <2>5, <2>6 DEF PopInv
<1> QED
  BY <1>1, <1>2, <1>3, <1>4, <1>5, <1>6, <1>7, <1>8, <1>9 DEF Next, CheckAndStore

LEMMA PopInvariant == Spec => [](TypeOK /\ PopInv)
<1>1. Init => PopInv
  BY DEF Init, PopInv, RequestsInv, CheckInv, IdleCheck, CacheInv, AcceptedBy,
         AcceptedInv, SpentOnce
<1> QED
  BY <1>1, InvocationsTypeCorrect, NextPopInv, PTL DEF Spec

(* Whatever the clock's resolution and however requests interleave, one    *)
(* instance never accepts an invocation twice that outlives its window.    *)
THEOREM NonceSpentOnce == Spec => []SpentOnce
<1>1. PopInv => SpentOnce
  BY DEF PopInv
<1> QED
  BY <1>1, PopInvariant, PTL

(* A replay across restarts needs a daemon that is back within ClockSkew   *)
(* seconds of the first acceptance.                                        *)
THEOREM RestartsDefended == Spec => []RestartDefence
<1>1. TypeOK /\ PopInv => RestartDefence
  <2> SUFFICES ASSUME TypeOK, PopInv, NEW a \in accepted, NEW b \in accepted,
                      a.inv = b.inv, a.instance < b.instance
               PROVE  boots[b.instance] <= a.at + ClockSkew
    BY DEF RestartDefence
  <2>1. boots[b.instance] <= Iat[a.inv] /\ Iat[a.inv] <= a.at + ClockSkew
    BY DEF PopInv, AcceptedInv
  <2>2. /\ a.inv \in Invocation /\ a.at \in Nat /\ b.instance \in 1..Instance
        /\ boots \in Seq(Nat)
    BY TypeFacts DEF TypeOK
  <2>3. boots[b.instance] \in Nat /\ Iat[a.inv] \in Nat /\ ClockSkew \in Nat
    BY <2>2, InvocationAssumption DEF Instance
  <2> QED
    BY <2>1, <2>2, <2>3
<1> QED
  BY <1>1, PopInvariant, PTL
=============================================================================
