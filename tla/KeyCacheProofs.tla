--------------------------- MODULE KeyCacheProofs ---------------------------
(***************************************************************************)
(* Proofs about KeyCache, for any callers, tokens, key sets and durations. *)
(***************************************************************************)
EXTENDS KeyCache, TLAPS

(* A caller that is past the idle state has a full record.                 *)
LEMMA ActiveRecord ==
  ASSUME TypeOK, NEW c \in Callers, calls[c].pc # "idle"
  PROVE  calls[c] \in ActiveCall
BY DEF TypeOK, CallRecord, Idle

(* What one call changes of its record keeps the type of them all.         *)
LEMMA OneCallTyped ==
  ASSUME TypeOK, NEW c \in Callers, NEW r \in CallRecord,
         calls' = [calls EXCEPT ![c] = r]
  PROVE  calls' \in [Callers -> CallRecord]
BY DEF TypeOK

LEMMA TypeStep == TypeOK /\ [Next]_vars => TypeOK'
<1> SUFFICES ASSUME TypeOK, [Next]_vars PROVE TypeOK'
  OBVIOUS
<1>a. ASSUME NEW c \in Callers, NEW t \in Tokens, NEW pc \in {"check", "wait", "fetch"},
             NEW due \in Nat
      PROVE  Entering(c, t, pc, due) \in ActiveCall
  BY DEF Entering, ActiveCall, TypeOK, NoKeys, Versions
<1>b. \A v, w \in Versions \cup {NoKeys} : Latest(v, w) \in Versions \cup {NoKeys}
  BY DEF Latest
<1>1. ASSUME NEW c \in Callers, NEW t \in Tokens, Hit(c, t) PROVE TypeOK'
  <2> DEFINE e == Entering(c, t, "check", clock + MaxPause)
  <2>1. clock + MaxPause \in Nat
    BY KeyCacheAssumption DEF TypeOK
  <2>2. e \in ActiveCall
    BY <1>a, <2>1
  <2>3. [e EXCEPT !.got = cached] \in ActiveCall
    BY <2>2 DEF ActiveCall, TypeOK
  <2>4. calls' \in [Callers -> CallRecord]
    BY <1>1, <2>3, OneCallTyped DEF Hit, CallRecord
  <2> QED
    BY <1>1, <1>b, <2>4 DEF Hit, TypeOK
<1>2. ASSUME NEW c \in Callers, NEW t \in Tokens, Join(c, t) PROVE TypeOK'
  <2> DEFINE e == Entering(c, t, "wait", 0)
  <2>1. e \in ActiveCall
    BY <1>a
  <2>2. [e EXCEPT !.leader = inflight] \in ActiveCall
    BY <1>2, <2>1 DEF ActiveCall, TypeOK, Join
  <2>3. calls' \in [Callers -> CallRecord]
    BY <1>2, <2>2, OneCallTyped DEF Join, CallRecord
  <2> QED
    BY <1>2, <2>3 DEF Join, TypeOK
<1>3. ASSUME NEW c \in Callers, NEW t \in Tokens, Lead(c, t) PROVE TypeOK'
  <2> DEFINE e == Entering(c, t, "fetch", clock + FetchTimeout)
  <2>1. clock + FetchTimeout \in Nat
    BY KeyCacheAssumption DEF TypeOK
  <2>2. e \in ActiveCall
    BY <1>a, <2>1
  <2>3. [e EXCEPT !.from = published] \in ActiveCall
    BY <2>2 DEF ActiveCall, TypeOK
  <2>4. calls' \in [Callers -> CallRecord]
    BY <1>3, <2>3, OneCallTyped DEF Lead, CallRecord
  <2> QED
    BY <1>3, <2>4 DEF Lead, TypeOK
<1>4. ASSUME NEW c \in Callers, FetchEnds(c) PROVE TypeOK'
  <2>1. PICK v \in (calls[c].from .. published) \cup {NoKeys} :
          calls' = [calls EXCEPT ![c] =
                      [@ EXCEPT !.pc = "store", !.due = clock + MaxPause,
                                !.from = NoKeys, !.got = v]]
    BY <1>4 DEF FetchEnds
  <2>2. calls[c] \in ActiveCall
    BY <1>4, ActiveRecord DEF FetchEnds
  <2>3. v \in Versions \cup {NoKeys}
    <3>1. calls[c].from \in Nat /\ published \in Versions
      BY <2>2, KeyCacheAssumption DEF ActiveCall, TypeOK, Versions, NoKeys
    <3> QED
      BY <2>1, <3>1, KeyCacheAssumption DEF Versions, NoKeys
  <2>4. clock + MaxPause \in Nat
    BY KeyCacheAssumption DEF TypeOK
  <2>5. [calls[c] EXCEPT !.pc = "store", !.due = clock + MaxPause,
                         !.from = NoKeys, !.got = v] \in ActiveCall
    BY <2>2, <2>3, <2>4 DEF ActiveCall
  <2>6. calls' \in [Callers -> CallRecord]
    BY <2>1, <2>5, OneCallTyped DEF CallRecord
  <2> QED
    BY <1>4, <2>6 DEF FetchEnds, TypeOK
<1>5. ASSUME NEW c \in Callers, Store(c) PROVE TypeOK'
  <2>1. calls[c] \in ActiveCall
    BY <1>5, ActiveRecord DEF Store
  <2>2. clock + MaxPause \in Nat
    BY KeyCacheAssumption DEF TypeOK
  <2>3. [calls[c] EXCEPT !.pc = "close", !.due = clock + MaxPause] \in ActiveCall
    BY <2>1, <2>2 DEF ActiveCall
  <2>4. calls' = [calls EXCEPT ![c] =
                    [calls[c] EXCEPT !.pc = "close", !.due = clock + MaxPause]]
    BY <1>5 DEF Store, TypeOK
  <2>5. calls' \in [Callers -> CallRecord]
    BY <2>3, <2>4, OneCallTyped DEF CallRecord
  <2> QED
    BY <1>5, <2>1, <2>5 DEF Store, TypeOK, ActiveCall
<1>6. ASSUME NEW c \in Callers, Close(c) PROVE TypeOK'
  <2>1. calls[c] \in ActiveCall
    BY <1>6, ActiveRecord DEF Close
  <2>2. clock + MaxPause \in Nat
    BY KeyCacheAssumption DEF TypeOK
  <2>3. ASSUME NEW d \in Callers, d \in {c} \cup Sharing(c)
        PROVE  [calls[d] EXCEPT !.pc = "check", !.due = clock + MaxPause,
                                !.got = calls[c].got] \in ActiveCall
    <3>1. calls[d] \in ActiveCall
      BY <2>1, <2>3, ActiveRecord DEF Sharing
    <3> QED
      BY <2>1, <2>2, <3>1 DEF ActiveCall
  <2>4. calls' \in [Callers -> CallRecord]
    BY <1>6, <2>3 DEF Close, CallRecord, TypeOK
  <2> QED
    BY <1>6, <1>b, <2>1, <2>4 DEF Close, TypeOK, ActiveCall
<1>7. ASSUME NEW c \in Callers, Check(c) PROVE TypeOK'
  <2> DEFINE pc == IF Accepts(calls[c].token, calls[c].got) THEN "accepted" ELSE "denied"
  <2>1. calls[c] \in ActiveCall
    BY <1>7, ActiveRecord DEF Check
  <2>2. pc \in {"accepted", "denied"}
    OBVIOUS
  <2>3. [calls[c] EXCEPT !.pc = pc, !.floor = NoKeys, !.due = 0, !.leader = c,
                         !.got = NoKeys] \in ActiveCall
    <3> HIDE DEF pc
    <3> QED
      BY <2>1, <2>2 DEF ActiveCall
  <2>4. calls' \in [Callers -> CallRecord]
    BY <1>7, <2>3, OneCallTyped DEF Check, CallRecord
  <2> QED
    BY <1>7, <2>4 DEF Check, TypeOK
<1>8. ASSUME NEW c \in Callers, Leave(c) PROVE TypeOK'
  BY <1>8 DEF Leave, TypeOK, CallRecord
<1>9. CASE Rotate
  BY <1>9, KeyCacheAssumption DEF Rotate, TypeOK, Versions
<1>10. CASE Tick
  BY <1>10 DEF Tick, TypeOK
<1>11. CASE UNCHANGED vars
  BY <1>11 DEF vars, TypeOK
<1> QED
  BY <1>1, <1>2, <1>3, <1>4, <1>5, <1>6, <1>7, <1>8, <1>9, <1>10, <1>11 DEF Next

(* Every variable keeps its type.                                          *)
THEOREM KeyCacheTypeCorrect == Spec => []TypeOK
<1>1. Init => TypeOK
  BY KeyCacheAssumption DEF Init, TypeOK, CallRecord, Versions, NoKeys, NotYet
<1> QED
  BY <1>1, TypeStep, PTL DEF Spec

-----------------------------------------------------------------------------
(***************************************************************************)
(* Versions only grow along the way from the provider to the cache to the  *)
(* calls: no call is given more than the cache has held, the cache never   *)
(* holds more than the fetch under way will bring, and that fetch, which   *)
(* holds inflight, is the only one there is.                               *)
(***************************************************************************)
Fetching(c) == calls[c].pc \in {"fetch", "store"}

Ordered ==
    /\ served <= cached
    /\ cached <= published
    /\ inflight # Nobody => Fetching(inflight)

(* A result satisfies the calls that were promised no less than f.         *)
Covers(v, f) == v = NoKeys \/ v >= f

CallInv(c) ==
    /\ Fetching(c) => inflight = c
    /\ calls[c].pc = "fetch" => calls[c].from \in Versions /\ cached <= calls[c].from
                                /\ calls[c].from <= published
    /\ calls[c].pc = "store" => Covers(calls[c].got, cached) /\ calls[c].got <= published
    /\ calls[c].pc = "close" => calls[c].got <= cached
    /\ calls[c].pc \in {"fetch", "store", "close", "wait"} => calls[c].floor <= cached
    /\ calls[c].pc \in {"close", "check"} => Covers(calls[c].got, calls[c].floor)
    /\ calls[c].pc = "wait" =>
         LET l == calls[c].leader
         IN  /\ Fetching(l) \/ calls[l].pc = "close"
             /\ calls[l].pc = "close" => Covers(calls[l].got, calls[c].floor)

VersionInv == TypeOK /\ Ordered /\ \A c \in Callers : CallInv(c)

LEMMA VersionInvInit == Init => VersionInv
<1> SUFFICES ASSUME Init PROVE VersionInv
  OBVIOUS
<1>1. TypeOK
  BY KeyCacheAssumption DEF Init, TypeOK, CallRecord, Versions, NoKeys, NotYet
<1> QED
  BY <1>1 DEF Init, VersionInv, Ordered, CallInv, Fetching, Idle, NoKeys

LEMMA VersionInvStep == VersionInv /\ [Next]_vars => VersionInv'
<1> SUFFICES ASSUME VersionInv, [Next]_vars, TypeOK' PROVE Ordered' /\ \A d \in Callers : CallInv(d)'
  BY TypeStep DEF VersionInv
<1>t. /\ published \in Int /\ cached \in Int /\ served \in Int
      /\ \A d \in Callers : calls[d].pc # "idle" =>
           /\ calls[d].got \in Int /\ calls[d].floor \in Int /\ calls[d].from \in Int
           /\ calls[d].leader \in Callers
  <2>1. Versions \cup {NoKeys} \subseteq Int
    BY KeyCacheAssumption DEF Versions, NoKeys
  <2> QED
    BY <2>1, ActiveRecord DEF VersionInv, TypeOK, ActiveCall
<1>1. ASSUME NEW c \in Callers, NEW t \in Tokens, Hit(c, t)
      PROVE  Ordered' /\ \A d \in Callers : CallInv(d)'
  <2>1. served' = cached
    BY <1>1, <1>t DEF Hit, Latest, VersionInv, Ordered
  <2>2. calls'[c].pc = "check" /\ calls'[c].got = cached /\ calls'[c].floor = served
    BY <1>1 DEF Hit, Entering, VersionInv, TypeOK
  <2>3. \A d \in Callers \ {c} : calls'[d] = calls[d]
    BY <1>1 DEF Hit, VersionInv, TypeOK
  <2>4. \A d \in Callers : calls[d].pc = "wait" => calls[d].leader # c
    BY <1>1, <1>t DEF Hit, VersionInv, CallInv, Fetching, Idle
  <2>5. inflight # c
    BY <1>1, KeyCacheAssumption DEF Hit, VersionInv, Ordered, Fetching, Idle, TypeOK
  <2> QED
    BY <1>1, <1>t, <2>1, <2>2, <2>3, <2>4, <2>5
    DEF Hit, VersionInv, TypeOK, Ordered, CallInv, Fetching, Covers
<1>2. ASSUME NEW c \in Callers, NEW t \in Tokens, Join(c, t)
      PROVE  Ordered' /\ \A d \in Callers : CallInv(d)'
  <2>1. inflight \in Callers
    BY <1>2 DEF Join, VersionInv, TypeOK
  <2>2. calls'[c].pc = "wait" /\ calls'[c].leader = inflight /\ calls'[c].floor = served
    BY <1>2, <2>1 DEF Join, Entering, VersionInv, TypeOK
  <2>3. \A d \in Callers \ {c} : calls'[d] = calls[d]
    BY <1>2 DEF Join, VersionInv, TypeOK
  <2>4. \A d \in Callers : calls[d].pc = "wait" => calls[d].leader # c
    BY <1>2, <1>t DEF Join, VersionInv, CallInv, Fetching, Idle
  <2>5. inflight # c
    BY <1>2 DEF Join, VersionInv, Ordered, Fetching, Idle, TypeOK
  <2> QED
    BY <1>2, <1>t, <2>1, <2>2, <2>3, <2>4, <2>5
    DEF Join, VersionInv, TypeOK, Ordered, CallInv, Fetching, Covers
<1>3. ASSUME NEW c \in Callers, NEW t \in Tokens, Lead(c, t)
      PROVE  Ordered' /\ \A d \in Callers : CallInv(d)'
  <2>2. calls'[c].pc = "fetch" /\ calls'[c].from = published /\ calls'[c].floor = served
    BY <1>3 DEF Lead, Entering, VersionInv, TypeOK
  <2>3. \A d \in Callers \ {c} : calls'[d] = calls[d]
    BY <1>3 DEF Lead, VersionInv, TypeOK
  <2>4. \A d \in Callers : calls[d].pc = "wait" => calls[d].leader # c
    BY <1>3, <1>t DEF Lead, VersionInv, CallInv, Fetching, Idle
  <2>5. \A d \in Callers : ~Fetching(d)
    BY <1>3, KeyCacheAssumption DEF Lead, VersionInv, CallInv
  <2> QED
    BY <1>3, <1>t, <2>2, <2>3, <2>4, <2>5
    DEF Lead, VersionInv, TypeOK, Ordered, CallInv, Fetching, Covers
<1>4. ASSUME NEW c \in Callers, FetchEnds(c)
      PROVE  Ordered' /\ \A d \in Callers : CallInv(d)'
  <2>1. PICK v \in (calls[c].from .. published) \cup {NoKeys} :
          calls' = [calls EXCEPT ![c] =
                      [@ EXCEPT !.pc = "store", !.due = clock + MaxPause,
                                !.from = NoKeys, !.got = v]]
    BY <1>4 DEF FetchEnds
  <2>2. calls[c] \in ActiveCall
    BY <1>4, ActiveRecord DEF FetchEnds, VersionInv
  <2>3. calls'[c].pc = "store" /\ calls'[c].got = v /\ calls'[c].floor = calls[c].floor
    BY <2>1, <2>2 DEF VersionInv, TypeOK, ActiveCall
  <2>4. \A d \in Callers \ {c} : calls'[d] = calls[d]
    BY <2>1 DEF VersionInv, TypeOK
  <2>5. v = NoKeys \/ (v >= cached /\ v <= published)
    BY <1>4, <1>t, <2>1 DEF FetchEnds, VersionInv, CallInv
  <2>6. NoKeys <= published
    BY KeyCacheAssumption DEF VersionInv, TypeOK, Versions, NoKeys
  <2> QED
    BY <1>4, <1>t, <2>3, <2>4, <2>5, <2>6
    DEF FetchEnds, VersionInv, TypeOK, Ordered, CallInv, Fetching, Covers
<1>5. ASSUME NEW c \in Callers, Store(c)
      PROVE  Ordered' /\ \A d \in Callers : CallInv(d)'
  <2>1. calls[c] \in ActiveCall
    BY <1>5, ActiveRecord DEF Store, VersionInv
  <2>2. /\ calls'[c].pc = "close" /\ calls'[c].got = calls[c].got
        /\ calls'[c].floor = calls[c].floor
    BY <1>5, <2>1 DEF Store, VersionInv, TypeOK, ActiveCall
  <2>3. \A d \in Callers \ {c} : calls'[d] = calls[d]
    BY <1>5 DEF Store, VersionInv, TypeOK
  <2>4. cached' >= cached /\ cached' <= published /\ calls[c].got <= cached'
    BY <1>5, <1>t, KeyCacheAssumption
    DEF Store, VersionInv, Ordered, CallInv, Covers, TypeOK, Versions, NoKeys
  <2>5. \A d \in Callers \ {c} : ~Fetching(d)
    BY <1>5 DEF Store, VersionInv, CallInv, Fetching
  <2>6. Covers(calls[c].got, cached)
    BY <1>5 DEF Store, VersionInv, CallInv
  <2>7. cached' \in Int
    BY <1>5, <1>t DEF Store
  <2> QED
    BY <1>5, <1>t, <2>2, <2>3, <2>4, <2>5, <2>6, <2>7
    DEF Store, VersionInv, TypeOK, Ordered, CallInv, Fetching, Covers
<1>6. ASSUME NEW c \in Callers, Close(c)
      PROVE  Ordered' /\ \A d \in Callers : CallInv(d)'
  <2>1. ASSUME NEW d \in Callers, d \in {c} \cup Sharing(c)
        PROVE  /\ calls'[d].pc = "check" /\ calls'[d].got = calls[c].got
               /\ Covers(calls[c].got, calls[d].floor)
               /\ calls'[d].floor = calls[d].floor
    <3>1. calls[d] \in ActiveCall
      BY <1>6, <2>1, ActiveRecord DEF Close, Sharing, VersionInv
    <3>2. Covers(calls[c].got, calls[d].floor)
      BY <1>6, <2>1 DEF Close, Sharing, VersionInv, CallInv
    <3> QED
      BY <1>6, <2>1, <3>1, <3>2 DEF Close, ActiveCall
  <2>2. \A d \in Callers : d \notin {c} \cup Sharing(c) => calls'[d] = calls[d]
    BY <1>6 DEF Close
  <2>3. \A d \in Callers : calls[d].pc = "wait" /\ calls[d].leader = c => d \in Sharing(c)
    BY DEF Sharing
  <2>4. served' <= cached /\ served' \in Int
    BY <1>6, <1>t DEF Close, Latest, VersionInv, Ordered, CallInv
  <2>5. ~Fetching(c) /\ \A d \in Sharing(c) : ~Fetching(d) /\ calls[d].pc = "wait"
    BY <1>6 DEF Close, Sharing, Fetching
  <2>6. Ordered'
    BY <1>6, <2>1, <2>2, <2>4, <2>5, KeyCacheAssumption
    DEF Close, VersionInv, TypeOK, Ordered, Fetching
  <2>7. ASSUME NEW d \in Callers, d \in {c} \cup Sharing(c) PROVE CallInv(d)'
    BY <2>1, <2>7 DEF CallInv, Fetching
  <2>8. ASSUME NEW d \in Callers, d \notin {c} \cup Sharing(c) PROVE CallInv(d)'
    <3>1. CallInv(d) /\ calls'[d] = calls[d]
      BY <2>2, <2>8 DEF VersionInv
    <3>2. calls[d].pc = "wait" => calls[d].leader \notin {c} \cup Sharing(c)
                                  /\ calls[d].leader \in Callers
      BY <1>t, <2>3, <2>5, <2>8, <3>1 DEF CallInv, Fetching
    <3>3. calls[d].pc = "wait" => calls'[calls[d].leader] = calls[calls[d].leader]
      BY <2>2, <3>2
    <3> QED
      BY <1>6, <3>1, <3>3 DEF Close, CallInv, Fetching, Covers
  <2> QED
    BY <2>6, <2>7, <2>8
<1>7. ASSUME NEW c \in Callers, Check(c)
      PROVE  Ordered' /\ \A d \in Callers : CallInv(d)'
  <2>1. calls[c] \in ActiveCall
    BY <1>7, ActiveRecord DEF Check, VersionInv
  <2>2. calls'[c].pc \in {"accepted", "denied"}
    BY <1>7, <2>1 DEF Check, VersionInv, TypeOK, ActiveCall
  <2>3. \A d \in Callers \ {c} : calls'[d] = calls[d]
    BY <1>7 DEF Check, VersionInv, TypeOK
  <2>4. \A d \in Callers : calls[d].pc = "wait" => calls[d].leader # c
    BY <1>7, <1>t DEF Check, VersionInv, CallInv, Fetching
  <2> QED
    BY <1>7, <1>t, <2>2, <2>3, <2>4
    DEF Check, VersionInv, TypeOK, Ordered, CallInv, Fetching, Covers
<1>8. ASSUME NEW c \in Callers, Leave(c)
      PROVE  Ordered' /\ \A d \in Callers : CallInv(d)'
  <2>2. calls'[c].pc = "idle"
    BY <1>8 DEF Leave, VersionInv, TypeOK, Idle
  <2>3. \A d \in Callers \ {c} : calls'[d] = calls[d]
    BY <1>8 DEF Leave, VersionInv, TypeOK
  <2>4. \A d \in Callers : calls[d].pc = "wait" => calls[d].leader # c
    BY <1>8, <1>t DEF Leave, VersionInv, CallInv, Fetching
  <2> QED
    BY <1>8, <1>t, <2>2, <2>3, <2>4
    DEF Leave, VersionInv, TypeOK, Ordered, CallInv, Fetching, Covers
<1>9. CASE Rotate
  BY <1>9, <1>t DEF Rotate, VersionInv, Ordered, CallInv, Fetching, Covers
<1>10. CASE Tick
  BY <1>10 DEF Tick, VersionInv, Ordered, CallInv, Fetching, Covers
<1>11. CASE UNCHANGED vars
  BY <1>11 DEF vars, VersionInv, Ordered, CallInv, Fetching, Covers
<1> QED
  BY <1>1, <1>2, <1>3, <1>4, <1>5, <1>6, <1>7, <1>8, <1>9, <1>10, <1>11 DEF Next

(***************************************************************************)
(* Requests to the provider never overlap: who fetches holds inflight      *)
(* until the cache is updated, and only one caller can.                    *)
(***************************************************************************)
THEOREM FetchesNeverOverlap == Spec => []SingleFetch
<1>1. VersionInv => SingleFetch
  BY DEF VersionInv, CallInv, Fetching, SingleFetch
<1> QED
  BY <1>1, VersionInvInit, VersionInvStep, PTL DEF Spec

(***************************************************************************)
(* Keys never go back: what a call is given is no older than anything that *)
(* was given to another call before it began.                              *)
(***************************************************************************)
THEOREM KeysNeverStepBack == Spec => []NoStepBack
<1>1. VersionInv => NoStepBack
  BY DEF VersionInv, CallInv, Covers, NoStepBack
<1> QED
  BY <1>1, VersionInvInit, VersionInvStep, PTL DEF Spec

-----------------------------------------------------------------------------
(***************************************************************************)
(* A caller's deadline leaves it one pause for each step since its fetch   *)
(* ended, and whoever waits began no earlier than the caller it waits for. *)
(***************************************************************************)
Pauses(pc) == CASE pc = "fetch" -> 0 [] pc = "store" -> 1 [] pc = "close" -> 2 [] OTHER -> 3

TimedCall(c) ==
    /\ calls[c].pc \in {"fetch", "wait", "store", "close"} => calls[c].entered <= clock
    /\ calls[c].pc \in {"fetch", "store", "close", "check"} =>
         /\ clock <= calls[c].due
         /\ calls[c].due <= calls[c].entered + FetchTimeout + Pauses(calls[c].pc) * MaxPause
    /\ calls[c].pc = "wait" => calls[calls[c].leader].entered <= calls[c].entered

TimedInv == VersionInv /\ \A c \in Callers : TimedCall(c)

LEMMA TimedInvInit == Init => TimedInv
BY VersionInvInit DEF Init, TimedInv, TimedCall, Idle

LEMMA TimedInvStep == TimedInv /\ [Next]_vars => TimedInv'
<1> SUFFICES ASSUME TimedInv, [Next]_vars, VersionInv' PROVE \A d \in Callers : TimedCall(d)'
  BY VersionInvStep DEF TimedInv
<1>t. /\ clock \in Nat /\ MaxPause \in Nat /\ FetchTimeout \in Nat
      /\ \A d \in Callers : calls[d].pc # "idle" =>
           calls[d].entered \in Nat /\ calls[d].due \in Nat /\ calls[d].leader \in Callers
  BY ActiveRecord, KeyCacheAssumption DEF TimedInv, VersionInv, TypeOK, ActiveCall
<1>w. \A d \in Callers : calls[d].pc = "wait" =>
        calls[calls[d].leader].pc \in {"fetch", "store", "close"}
  BY DEF TimedInv, VersionInv, CallInv, Fetching
<1>p. Pauses("fetch") = 0 /\ Pauses("store") = 1 /\ Pauses("close") = 2 /\ Pauses("check") = 3
  BY DEF Pauses
<1>1. ASSUME NEW c \in Callers, NEW t \in Tokens, Hit(c, t), NEW d \in Callers
      PROVE  TimedCall(d)'
  <2>1. clock' = clock /\ calls[c].pc = "idle"
    BY <1>1 DEF Hit, Idle
  <2>2. /\ calls'[c].pc = "check" /\ calls'[c].entered = clock
        /\ calls'[c].due = clock + MaxPause
    BY <1>1 DEF Hit, Entering, TimedInv, VersionInv, TypeOK
  <2>3. \A e \in Callers \ {c} : calls'[e] = calls[e]
    BY <1>1 DEF Hit, TimedInv, VersionInv, TypeOK
  <2>4. clock + MaxPause <= clock + FetchTimeout + 3 * MaxPause
    BY <1>t
  <2> QED
    BY <1>t, <1>w, <1>p, <2>1, <2>2, <2>3, <2>4 DEF TimedInv, TimedCall
<1>2. ASSUME NEW c \in Callers, NEW t \in Tokens, Join(c, t), NEW d \in Callers
      PROVE  TimedCall(d)'
  <2>1. clock' = clock /\ calls[c].pc = "idle"
    BY <1>2 DEF Join, Idle
  <2>2. /\ inflight \in Callers /\ calls[inflight].pc \in {"fetch", "store"}
    BY <1>2 DEF Join, TimedInv, VersionInv, Ordered, Fetching, TypeOK
  <2>3. /\ calls'[c].pc = "wait" /\ calls'[c].entered = clock /\ calls'[c].leader = inflight
    BY <1>2, <2>2 DEF Join, Entering, TimedInv, VersionInv, TypeOK
  <2>4. \A e \in Callers \ {c} : calls'[e] = calls[e]
    BY <1>2 DEF Join, TimedInv, VersionInv, TypeOK
  <2> QED
    BY <1>t, <1>w, <2>1, <2>2, <2>3, <2>4 DEF TimedInv, TimedCall
<1>3. ASSUME NEW c \in Callers, NEW t \in Tokens, Lead(c, t), NEW d \in Callers
      PROVE  TimedCall(d)'
  <2>1. clock' = clock /\ calls[c].pc = "idle"
    BY <1>3 DEF Lead, Idle
  <2>2. /\ calls'[c].pc = "fetch" /\ calls'[c].entered = clock
        /\ calls'[c].due = clock + FetchTimeout
    BY <1>3 DEF Lead, Entering, TimedInv, VersionInv, TypeOK
  <2>3. \A e \in Callers \ {c} : calls'[e] = calls[e]
    BY <1>3 DEF Lead, TimedInv, VersionInv, TypeOK
  <2> QED
    BY <1>t, <1>w, <1>p, <2>1, <2>2, <2>3 DEF TimedInv, TimedCall
<1>4. ASSUME NEW c \in Callers, FetchEnds(c), NEW d \in Callers
      PROVE  TimedCall(d)'
  <2>1. clock' = clock /\ calls[c].pc = "fetch" /\ calls[c] \in ActiveCall
    BY <1>4, ActiveRecord DEF FetchEnds, TimedInv, VersionInv
  <2>2. /\ calls'[c].pc = "store" /\ calls'[c].entered = calls[c].entered
        /\ calls'[c].due = clock + MaxPause
    BY <1>4, <2>1 DEF FetchEnds, TimedInv, VersionInv, TypeOK, ActiveCall
  <2>3. \A e \in Callers \ {c} : calls'[e] = calls[e]
    BY <1>4 DEF FetchEnds, TimedInv, VersionInv, TypeOK
  <2>4. clock + MaxPause <= calls[c].entered + FetchTimeout + 1 * MaxPause
    BY <1>t, <1>p, <2>1 DEF TimedInv, TimedCall
  <2> QED
    BY <1>t, <1>w, <1>p, <2>1, <2>2, <2>3, <2>4 DEF TimedInv, TimedCall
<1>5. ASSUME NEW c \in Callers, Store(c), NEW d \in Callers
      PROVE  TimedCall(d)'
  <2>1. clock' = clock /\ calls[c].pc = "store" /\ calls[c] \in ActiveCall
    BY <1>5, ActiveRecord DEF Store, TimedInv, VersionInv
  <2>2. /\ calls'[c].pc = "close" /\ calls'[c].entered = calls[c].entered
        /\ calls'[c].due = clock + MaxPause
    BY <1>5, <2>1 DEF Store, TimedInv, VersionInv, TypeOK, ActiveCall
  <2>3. \A e \in Callers \ {c} : calls'[e] = calls[e]
    BY <1>5 DEF Store, TimedInv, VersionInv, TypeOK
  <2>4. clock + MaxPause <= calls[c].entered + FetchTimeout + 2 * MaxPause
    BY <1>t, <1>p, <2>1 DEF TimedInv, TimedCall
  <2> QED
    BY <1>t, <1>w, <1>p, <2>1, <2>2, <2>3, <2>4 DEF TimedInv, TimedCall
<1>6. ASSUME NEW c \in Callers, Close(c), NEW d \in Callers
      PROVE  TimedCall(d)'
  <2>1. clock' = clock /\ calls[c].pc = "close"
    BY <1>6 DEF Close
  <2>2. CASE d \in {c} \cup Sharing(c)
    <3>1. calls[d] \in ActiveCall
      BY <1>6, <2>2, ActiveRecord DEF Close, Sharing, TimedInv, VersionInv
    <3>2. /\ calls'[d].pc = "check" /\ calls'[d].entered = calls[d].entered
          /\ calls'[d].due = clock + MaxPause
      BY <1>6, <2>2, <3>1 DEF Close, ActiveCall
    <3>3. calls[c].entered <= calls[d].entered
      BY <1>t, <2>1, <2>2 DEF Sharing, TimedInv, TimedCall
    <3>4. clock <= calls[c].entered + FetchTimeout + 2 * MaxPause
      BY <1>t, <1>p, <2>1 DEF TimedInv, TimedCall
    <3>5. calls[c].entered \in Nat /\ calls[d].entered \in Nat
      BY <1>t, <2>1, <3>1, <2>2 DEF Sharing
    <3>6. clock + MaxPause <= calls[d].entered + FetchTimeout + 3 * MaxPause
      BY <1>t, <3>3, <3>4, <3>5
    <3> QED
      BY <1>t, <1>p, <2>1, <3>2, <3>6 DEF TimedCall
  <2>3. CASE d \notin {c} \cup Sharing(c)
    <3>1. calls'[d] = calls[d]
      BY <1>6, <2>3 DEF Close
    <3>2. calls[d].pc = "wait" => calls[d].leader \in Callers \ ({c} \cup Sharing(c))
      BY <1>t, <1>w, <2>3 DEF Sharing
    <3>3. calls[d].pc = "wait" => calls'[calls[d].leader] = calls[calls[d].leader]
      BY <1>6, <3>2 DEF Close
    <3> QED
      BY <2>1, <3>1, <3>3 DEF TimedInv, TimedCall
  <2> QED
    BY <2>2, <2>3
<1>7. ASSUME NEW c \in Callers, Check(c) \/ Leave(c), NEW d \in Callers
      PROVE  TimedCall(d)'
  <2>1. clock' = clock /\ calls[c].pc \notin {"fetch", "store", "close", "wait"}
    BY <1>7 DEF Check, Leave
  <2>2. calls'[c].pc \in {"idle", "accepted", "denied"}
    <3>1. CASE Check(c)
      BY <3>1, ActiveRecord DEF Check, TimedInv, VersionInv, TypeOK, ActiveCall
    <3>2. CASE Leave(c)
      BY <3>2 DEF Leave, Idle, TimedInv, VersionInv, TypeOK
    <3> QED
      BY <1>7, <3>1, <3>2
  <2>3. \A e \in Callers \ {c} : calls'[e] = calls[e]
    BY <1>7 DEF Check, Leave, TimedInv, VersionInv, TypeOK
  <2> QED
    BY <1>t, <1>w, <2>1, <2>2, <2>3 DEF TimedInv, TimedCall
<1>8. ASSUME Rotate, NEW d \in Callers PROVE TimedCall(d)'
  BY <1>8 DEF Rotate, TimedInv, TimedCall
<1>9. ASSUME Tick, NEW d \in Callers PROVE TimedCall(d)'
  <2>1. clock' = clock + 1 /\ calls' = calls
    BY <1>9 DEF Tick
  <2>2. calls[d].pc \in {"fetch", "store", "close", "check"} => clock + 1 <= calls[d].due
    BY <1>9, <1>t DEF Tick
  <2> QED
    BY <1>t, <2>1, <2>2 DEF TimedInv, TimedCall
<1>10. ASSUME UNCHANGED vars, NEW d \in Callers PROVE TimedCall(d)'
  BY <1>10 DEF vars, TimedInv, TimedCall
<1> QED
  BY <1>1, <1>2, <1>3, <1>4, <1>5, <1>6, <1>7, <1>8, <1>9, <1>10 DEF Next

(***************************************************************************)
(* No call waits for the provider longer than one timeout, however many    *)
(* calls there are: a call that joins a fetch shares what is left of it.   *)
(***************************************************************************)
THEOREM OneTimeoutForEach == Spec => []OneTimeoutEach
<1>1. TimedInv => OneTimeoutEach
  <2> SUFFICES ASSUME TimedInv, NEW c \in Callers,
                      calls[c].pc \notin {"idle", "accepted", "denied"}
               PROVE  clock <= calls[c].entered + FetchTimeout + 3 * MaxPause
    BY DEF OneTimeoutEach
  <2>1. calls[c] \in ActiveCall
    BY ActiveRecord DEF TimedInv, VersionInv
  <2>2. calls[c].pc \in {"fetch", "wait", "store", "close", "check"}
    BY <2>1 DEF ActiveCall
  <2>3. \A d \in Callers : calls[d].pc \in {"fetch", "store", "close", "check"} =>
          clock <= calls[d].entered + FetchTimeout + 3 * MaxPause
    <3> SUFFICES ASSUME NEW d \in Callers, calls[d].pc \in {"fetch", "store", "close", "check"}
                 PROVE  clock <= calls[d].entered + FetchTimeout + 3 * MaxPause
      OBVIOUS
    <3>1. calls[d].entered \in Nat /\ calls[d].due \in Nat /\ clock \in Nat
          /\ FetchTimeout \in Nat /\ MaxPause \in Nat
      BY ActiveRecord, KeyCacheAssumption DEF TimedInv, VersionInv, TypeOK, ActiveCall
    <3>2. \E k \in {0, 1, 2, 3} : k = Pauses(calls[d].pc)
      BY DEF Pauses
    <3>3. PICK k \in {0, 1, 2, 3} : k = Pauses(calls[d].pc)
      BY <3>2
    <3>4. clock <= calls[d].due /\ calls[d].due <= calls[d].entered + FetchTimeout + k * MaxPause
      BY <3>3 DEF TimedInv, TimedCall
    <3> QED
      BY <3>1, <3>3, <3>4
  <2>4. CASE calls[c].pc = "wait"
    <3>1. /\ calls[c].leader \in Callers
          /\ calls[calls[c].leader].pc \in {"fetch", "store", "close"}
          /\ calls[calls[c].leader].entered <= calls[c].entered
      BY <2>1, <2>4 DEF TimedInv, TimedCall, VersionInv, CallInv, Fetching, ActiveCall
    <3>2. calls[c].entered \in Nat /\ calls[calls[c].leader].entered \in Nat /\ clock \in Nat
          /\ FetchTimeout \in Nat /\ MaxPause \in Nat
      BY <2>1, <3>1, ActiveRecord, KeyCacheAssumption
      DEF TimedInv, VersionInv, TypeOK, ActiveCall
    <3> QED
      BY <2>3, <3>1, <3>2
  <2> QED
    BY <2>2, <2>3, <2>4
<1> QED
  BY <1>1, TimedInvInit, TimedInvStep, PTL DEF Spec
-----------------------------------------------------------------------------
(***************************************************************************)
(* The age of keys.  What a fetch returns was published at its beginning   *)
(* or later, and that lies at most a fetch and a pause before it is cached *)
(* or shared.                                                              *)
(***************************************************************************)
Since(v, t) == retired[v] = NotYet \/ retired[v] >= t

(* The earliest moment at which keys given to a call that began at t may   *)
(* have been withdrawn.                                                    *)
Horizon(t) == t + 1 - Ttl - FetchTimeout - MaxPause

AgeCall(c) ==
    /\ calls[c].pc \in {"check", "accepted"} => calls[c].entered <= clock
    /\ calls[c].pc = "fetch" =>
         \A v \in calls[c].from .. published : Since(v, calls[c].entered)
    /\ calls[c].pc \in {"store", "close"} =>
         calls[c].got = NoKeys \/ Since(calls[c].got, calls[c].entered)
    /\ calls[c].pc = "wait" =>
         calls[c].entered <= calls[calls[c].leader].entered + FetchTimeout + MaxPause
    /\ calls[c].pc = "check" =>
         \/ calls[c].got = NoKeys
         \/ calls[c].got <= published /\ Since(calls[c].got, Horizon(calls[c].entered))
    /\ calls[c].pc = "accepted" =>
         \E v \in 1..published :
            /\ SignerOf[calls[c].token] \in KeysFor(calls[c].token, v)
            /\ Since(v, Horizon(calls[c].entered))

CacheAge ==
    /\ \A v \in Versions : v >= published => retired[v] = NotYet
    /\ fetchedAt <= clock
    /\ cached # NoKeys => Since(cached, fetchedAt - FetchTimeout - MaxPause)

AgeInv == TimedInv /\ CacheAge /\ \A c \in Callers : AgeCall(c)

LEMMA AgeInvInit == Init => AgeInv
BY TimedInvInit, KeyCacheAssumption DEF Init, AgeInv, CacheAge, AgeCall, Idle

(* The numbers in sight.                                                   *)
LEMMA AgeTypes ==
    ASSUME TypeOK
    PROVE  /\ clock \in Nat /\ fetchedAt \in Nat
           /\ published \in Nat /\ 1 <= published /\ published <= Newest
           /\ cached \in Nat /\ cached <= Newest
           /\ Newest \in Nat /\ Versions = 1..Newest /\ NoKeys = 0 /\ NotYet = -1
           /\ Ttl \in Nat /\ 1 <= Ttl /\ FetchTimeout \in Nat /\ MaxPause \in Nat
           /\ \A v \in Versions : retired[v] \in Int
           /\ \A c \in Callers : calls[c].pc # "idle" =>
                /\ calls[c] \in ActiveCall
                /\ calls[c].entered \in Nat /\ calls[c].leader \in Callers
                /\ calls[c].got \in Nat /\ calls[c].from \in Nat
                /\ calls[c].got # NoKeys => calls[c].got \in Versions
<1>1. Versions = 1..Newest /\ NoKeys = 0 /\ NotYet = -1 /\ Newest \in Nat
  BY KeyCacheAssumption DEF Versions, NoKeys, NotYet
<1>2. \A v \in Versions : retired[v] \in Int
  BY <1>1 DEF TypeOK
<1>3. published \in Versions /\ cached \in Versions \cup {NoKeys}
  BY DEF TypeOK
<1>4. ASSUME NEW c \in Callers, calls[c].pc # "idle"
      PROVE  /\ calls[c] \in ActiveCall
             /\ calls[c].entered \in Nat /\ calls[c].leader \in Callers
             /\ calls[c].got \in Versions \cup {NoKeys}
             /\ calls[c].from \in Versions \cup {NoKeys}
  BY <1>4, ActiveRecord DEF ActiveCall
<1> QED
  BY <1>1, <1>2, <1>3, <1>4, KeyCacheAssumption DEF TypeOK

(* No step withdraws keys in the past.                                     *)
LEMMA SinceKept ==
    ASSUME TypeOK, [Next]_vars, NEW v \in Versions, NEW t \in Int, t <= clock, Since(v, t)
    PROVE  Since(v, t)'
<1>1. UNCHANGED retired \/ Rotate
  BY DEF Next, vars, Hit, Join, Lead, FetchEnds, Store, Close, Check, Leave, Tick
<1>2. CASE Rotate
  BY <1>2, AgeTypes DEF Rotate, Since, TypeOK
<1>3. CASE UNCHANGED retired
  BY <1>3 DEF Since
<1> QED
  BY <1>1, <1>2, <1>3

LEMMA CacheAgeStep == AgeInv /\ [Next]_vars => CacheAge'
<1> SUFFICES ASSUME AgeInv, [Next]_vars PROVE CacheAge'
  OBVIOUS
<1>t. TypeOK /\ TimedInv /\ VersionInv /\ CacheAge
  BY DEF AgeInv, TimedInv, VersionInv
<1>1. \A v \in Versions : v >= published' => retired'[v] = NotYet
  <2>1. UNCHANGED <<retired, published>> \/ Rotate
    BY DEF Next, vars, Hit, Join, Lead, FetchEnds, Store, Close, Check, Leave, Tick
  <2>2. CASE Rotate
    BY <1>t, <2>2, AgeTypes DEF Rotate, CacheAge, TypeOK
  <2> QED
    BY <1>t, <2>1, <2>2 DEF CacheAge
<1>2. UNCHANGED <<cached, fetchedAt>> \/ \E c \in Callers : Store(c) /\ calls[c].got # NoKeys
  BY DEF Next, vars, Hit, Join, Lead, FetchEnds, Store, Close, Check, Leave, Tick, Rotate
<1>3. clock' \in Nat /\ clock <= clock'
  <2>1. UNCHANGED clock \/ clock' = clock + 1
    BY DEF Next, vars, Hit, Join, Lead, FetchEnds, Store, Close, Check, Leave, Tick, Rotate
  <2> QED
    BY <1>t, <2>1, AgeTypes
<1>4. CASE UNCHANGED <<cached, fetchedAt>>
  <2>1. fetchedAt' <= clock'
    BY <1>t, <1>3, <1>4, AgeTypes DEF CacheAge
  <2>2. ASSUME cached # NoKeys PROVE Since(cached, fetchedAt - FetchTimeout - MaxPause)'
    <3>1. PICK v, t : v = cached /\ t = fetchedAt - FetchTimeout - MaxPause
      OBVIOUS
    <3>2. v \in Versions /\ t \in Int /\ t <= clock /\ Since(v, t)
      BY <1>t, <2>2, <3>1, AgeTypes DEF CacheAge
    <3>3. Since(v, t)'
      BY <1>t, <3>2, SinceKept
    <3> QED
      BY <1>4, <3>1, <3>3 DEF Since
  <2> QED
    BY <1>1, <1>4, <2>1, <2>2 DEF CacheAge
<1>5. ASSUME NEW c \in Callers, Store(c), calls[c].got # NoKeys PROVE CacheAge'
  <2>1. cached' = calls[c].got /\ fetchedAt' = clock /\ UNCHANGED <<clock, retired>>
    BY <1>5 DEF Store
  <2>2. /\ calls[c].got \in Versions /\ calls[c].entered \in Nat
        /\ Since(calls[c].got, calls[c].entered)
    BY <1>t, <1>5, AgeTypes DEF Store, AgeInv, AgeCall
  <2>3. clock <= calls[c].entered + FetchTimeout + MaxPause
    <3>1. calls[c].due \in Nat
      BY <1>t, <1>5, AgeTypes DEF Store, ActiveCall
    <3>2. clock <= calls[c].due /\ calls[c].due <= calls[c].entered + FetchTimeout + 1 * MaxPause
      BY <1>t, <1>5 DEF Store, TimedInv, TimedCall, Pauses
    <3> QED
      BY <1>t, <2>2, <3>1, <3>2, AgeTypes
  <2>4. Since(cached, fetchedAt - FetchTimeout - MaxPause)'
    <3>1. PICK v, t : v = calls[c].got /\ t = clock - FetchTimeout - MaxPause
      OBVIOUS
    <3>a. clock \in Nat /\ FetchTimeout \in Nat /\ MaxPause \in Nat
      BY <1>t, AgeTypes
    <3>b. v \in Versions /\ retired[v] \in Int
      BY <1>t, <2>2, <3>1, AgeTypes
    <3>2. t \in Int /\ t <= calls[c].entered
      BY <2>2, <2>3, <3>1, <3>a
    <3>3. retired[v] = NotYet \/ retired[v] >= t
      BY <2>2, <3>1, <3>b, <3>2 DEF Since
    <3> QED
      BY <2>1, <3>1, <3>3 DEF Since
  <2> QED
    BY <1>t, <1>1, <2>1, <2>4, AgeTypes DEF CacheAge
<1> QED
  BY <1>2, <1>4, <1>5

(* A call that a step leaves alone, and whose leader, if it waits, keeps   *)
(* the time at which it began.                                             *)
LEMMA AgeFrame ==
    ASSUME AgeInv, [Next]_vars, NEW d \in Callers, calls'[d] = calls[d],
           calls[d].pc = "wait" =>
                calls'[calls[d].leader].entered = calls[calls[d].leader].entered
    PROVE  AgeCall(d)'
<1>t. TypeOK /\ TimedInv /\ VersionInv /\ CacheAge /\ CacheAge' /\ AgeCall(d)
  BY CacheAgeStep DEF AgeInv, TimedInv, VersionInv
<1>1. clock' \in Nat /\ clock <= clock' /\ published' \in Nat /\ published <= published'
      /\ published' <= Newest
  <2>1. UNCHANGED clock \/ clock' = clock + 1
    BY DEF Next, vars, Hit, Join, Lead, FetchEnds, Store, Close, Check, Leave, Tick, Rotate
  <2>2. UNCHANGED published \/ (published < Newest /\ published' = published + 1)
    BY DEF Next, vars, Hit, Join, Lead, FetchEnds, Store, Close, Check, Leave, Tick, Rotate
  <2> QED
    BY <1>t, <2>1, <2>2, AgeTypes
<1>2. CASE calls[d].pc \in {"idle", "denied"}
  BY <1>2 DEF AgeCall
<1>3. CASE calls[d].pc \in {"check", "accepted"}
  <2>h. PICK e, h : e = calls[d].entered /\ h = Horizon(e)
    OBVIOUS
  <2>1. e \in Nat /\ e <= clock
    BY <1>t, <1>3, <2>h, AgeTypes DEF AgeCall
  <2>2. h \in Int /\ h <= clock
    <3>1. Ttl \in Nat /\ 1 <= Ttl /\ FetchTimeout \in Nat /\ MaxPause \in Nat /\ clock \in Nat
      BY <1>t, AgeTypes
    <3> QED
      BY <2>h, <2>1, <3>1 DEF Horizon
  <2>3. \A v \in Versions : Since(v, h) => Since(v, h)'
    BY <1>t, <2>2, SinceKept
  <2>4. \A v \in 1..published : v \in Versions /\ v \in 1..published'
    BY <1>t, <1>1, AgeTypes
  <2>5. clock \in Nat /\ e <= clock'
    BY <1>t, <1>1, <2>1, AgeTypes
  <2>6. CASE calls[d].pc = "check"
    <3>1. \/ calls[d].got = NoKeys
          \/ /\ calls[d].got \in Versions /\ calls[d].got <= published'
             /\ Since(calls[d].got, h)
      BY <1>t, <1>1, <2>h, <2>6, AgeTypes DEF AgeCall
    <3>2. \A v \in Versions : Since(v, h) => Since(v, Horizon(calls[d].entered))'
      BY <2>h, <2>3 DEF Since, Horizon
    <3> QED
      BY <2>h, <2>5, <2>6, <3>1, <3>2 DEF AgeCall, Since
  <2>7. CASE calls[d].pc = "accepted"
    <3>1. PICK v \in 1..published :
            SignerOf[calls[d].token] \in KeysFor(calls[d].token, v) /\ Since(v, h)
      BY <1>t, <2>h, <2>7 DEF AgeCall
    <3>2. v \in 1..published' /\ Since(v, h)'
      BY <2>3, <2>4, <3>1
    <3>3. Since(v, Horizon(calls[d].entered))'
      BY <2>h, <3>2 DEF Since, Horizon
    <3> QED
      BY <2>h, <2>5, <2>7, <3>1, <3>2, <3>3 DEF AgeCall, KeysFor
  <2> QED
    BY <1>3, <2>6, <2>7
<1>4. CASE calls[d].pc = "wait"
  BY <1>t, <1>4 DEF AgeCall
<1>5. CASE calls[d].pc \in {"fetch", "store", "close"}
  <2>1. PICK e : e = calls[d].entered
    OBVIOUS
  <2>2. e \in Nat /\ e \in Int /\ e <= clock
    BY <1>t, <1>5, <2>1, AgeTypes DEF TimedInv, TimedCall
  <2>3. \A v \in Versions : Since(v, e) => Since(v, e)'
    BY <1>t, <2>2, SinceKept
  <2>4. CASE calls[d].pc \in {"store", "close"}
    <3>1. calls[d].got = NoKeys \/ (calls[d].got \in Versions /\ Since(calls[d].got, e))
      BY <1>t, <2>1, <2>4, AgeTypes DEF AgeCall
    <3> QED
      BY <2>1, <2>3, <2>4, <3>1 DEF AgeCall, Since
  <2>5. CASE calls[d].pc = "fetch"
    <3>1. calls[d].from \in Nat /\ 1 <= calls[d].from
          /\ \A v \in calls[d].from .. published : Since(v, e)
      BY <1>t, <2>1, <2>5, AgeTypes DEF AgeCall, VersionInv, CallInv
    <3>2. ASSUME NEW v \in calls[d].from .. published' PROVE Since(v, e)'
      <4>1. v \in Versions /\ v \in Nat
        BY <1>t, <1>1, <3>1, AgeTypes
      <4>2. CASE v <= published
        BY <1>t, <2>3, <3>1, <4>1, <4>2, AgeTypes
      <4>3. CASE published < v
        <5>1. published' <= v
          <6>1. UNCHANGED published \/ published' = published + 1
            BY DEF Next, vars, Hit, Join, Lead, FetchEnds, Store, Close, Check, Leave, Tick, Rotate
          <6> QED
            BY <1>t, <4>1, <4>3, <6>1, AgeTypes
        <5> QED
          BY <1>t, <4>1, <5>1 DEF CacheAge, Since
      <4> QED
        BY <1>t, <4>1, <4>2, <4>3, AgeTypes
    <3> QED
      BY <2>1, <2>5, <3>2 DEF AgeCall, Since
  <2> QED
    BY <1>5, <2>4, <2>5
<1>6. CASE calls[d].pc \notin {"idle", "denied", "check", "accepted", "wait", "fetch", "store", "close"}
  BY <1>t, <1>6, AgeTypes DEF ActiveCall
<1> QED
  BY <1>2, <1>3, <1>4, <1>5, <1>6

LEMMA AgeInvStep == AgeInv /\ [Next]_vars => AgeInv'
<1> SUFFICES ASSUME AgeInv, [Next]_vars, CacheAge' PROVE \A d \in Callers : AgeCall(d)'
  BY TimedInvStep, CacheAgeStep DEF AgeInv
<1>t. TypeOK /\ TimedInv /\ VersionInv /\ CacheAge
  BY DEF AgeInv, TimedInv, VersionInv
<1>n. /\ clock \in Nat /\ published \in Nat /\ Ttl \in Nat /\ 1 <= Ttl
      /\ FetchTimeout \in Nat /\ MaxPause \in Nat /\ NoKeys = 0
      /\ \A v \in Versions : retired[v] \in Int
  BY <1>t, AgeTypes
<1>w. \A d \in Callers : calls[d].pc = "wait" =>
        /\ calls[d].leader \in Callers
        /\ calls[calls[d].leader].pc \in {"fetch", "store", "close"}
  BY <1>t, AgeTypes DEF VersionInv, CallInv, Fetching
(* A step of a single call that keeps its time of entry, if others may     *)
(* wait for it.                                                            *)
<1>f. ASSUME NEW c \in Callers, \A e \in Callers \ {c} : calls'[e] = calls[e],
             \/ calls[c].pc \notin {"fetch", "store", "close"}
             \/ calls'[c].entered = calls[c].entered
      PROVE  \A d \in Callers \ {c} : AgeCall(d)'
  BY <1>f, <1>w, AgeFrame
<1>1. ASSUME NEW c \in Callers, NEW t \in Tokens, Hit(c, t), NEW d \in Callers
      PROVE  AgeCall(d)'
  <2>1. /\ calls[c].pc = "idle" /\ \A e \in Callers \ {c} : calls'[e] = calls[e]
        /\ calls'[c].pc = "check" /\ calls'[c].entered = clock /\ calls'[c].got = cached
        /\ UNCHANGED <<clock, retired, published>>
    BY <1>1, <1>t DEF Hit, Idle, Entering, TypeOK
  <2>2. /\ cached \in Versions /\ cached <= published /\ fetchedAt \in Nat
        /\ clock - fetchedAt < Ttl
        /\ Since(cached, fetchedAt - FetchTimeout - MaxPause)
    BY <1>1, <1>t DEF Hit, Fresh, CacheAge, VersionInv, Ordered, TypeOK
  <2>3. Since(cached, Horizon(clock))
    BY <1>n, <2>2 DEF Since, Horizon
  <2>4. AgeCall(c)'
    BY <1>n, <2>1, <2>2, <2>3 DEF AgeCall, Since, Horizon
  <2> QED
    BY <1>f, <2>1, <2>4
<1>2. ASSUME NEW c \in Callers, NEW t \in Tokens, Join(c, t), NEW d \in Callers
      PROVE  AgeCall(d)'
  <2>1. /\ calls[c].pc = "idle" /\ \A e \in Callers \ {c} : calls'[e] = calls[e]
        /\ calls'[c].pc = "wait" /\ calls'[c].entered = clock /\ calls'[c].leader = inflight
        /\ UNCHANGED <<clock, retired, published>>
    BY <1>2, <1>t DEF Join, Idle, Entering, TypeOK
  <2>2. inflight \in Callers /\ calls[inflight].pc \in {"fetch", "store"}
    BY <1>2, <1>t DEF Join, VersionInv, Ordered, Fetching, TypeOK
  <2>3. clock <= calls[inflight].entered + FetchTimeout + MaxPause
    <3>1. calls[inflight].due \in Nat /\ calls[inflight].entered \in Nat
      BY <1>t, <2>2, AgeTypes DEF ActiveCall
    <3>2. \E k \in {0, 1} : clock <= calls[inflight].due
            /\ calls[inflight].due <= calls[inflight].entered + FetchTimeout + k * MaxPause
      BY <1>t, <2>2 DEF TimedInv, TimedCall, Pauses
    <3> QED
      BY <1>n, <3>1, <3>2
  <2>4. AgeCall(c)'
    BY <2>1, <2>2, <2>3 DEF AgeCall
  <2> QED
    BY <1>f, <2>1, <2>4
<1>3. ASSUME NEW c \in Callers, NEW t \in Tokens, Lead(c, t), NEW d \in Callers
      PROVE  AgeCall(d)'
  <2>1. /\ calls[c].pc = "idle" /\ \A e \in Callers \ {c} : calls'[e] = calls[e]
        /\ calls'[c].pc = "fetch" /\ calls'[c].entered = clock /\ calls'[c].from = published
        /\ UNCHANGED <<clock, retired, published>>
    BY <1>3, <1>t DEF Lead, Idle, Entering, TypeOK
  <2>2. \A v \in published .. published : Since(v, clock)
    BY <1>n, <1>t, AgeTypes DEF CacheAge, Since
  <2>3. AgeCall(c)'
    BY <2>1, <2>2 DEF AgeCall, Since
  <2> QED
    BY <1>f, <2>1, <2>3
<1>4. ASSUME NEW c \in Callers, FetchEnds(c), NEW d \in Callers
      PROVE  AgeCall(d)'
  <2>1. calls[c].pc = "fetch" /\ calls[c] \in ActiveCall /\ calls[c].from \in Versions
    BY <1>4, <1>t, AgeTypes DEF FetchEnds, VersionInv, CallInv
  <2>2. /\ \A e \in Callers \ {c} : calls'[e] = calls[e]
        /\ calls'[c].pc = "store" /\ calls'[c].entered = calls[c].entered
        /\ calls'[c].got \in (calls[c].from .. published) \cup {NoKeys}
        /\ UNCHANGED <<retired, published>>
    BY <1>4, <1>t, <2>1 DEF FetchEnds, TypeOK, ActiveCall
  <2>3. AgeCall(c)'
    BY <2>1, <2>2 DEF AgeInv, AgeCall, Since
  <2> QED
    BY <1>f, <2>2, <2>3
<1>5. ASSUME NEW c \in Callers, Store(c), NEW d \in Callers
      PROVE  AgeCall(d)'
  <2>1. calls[c].pc = "store" /\ calls[c] \in ActiveCall
    BY <1>5, <1>t, AgeTypes DEF Store
  <2>2. /\ \A e \in Callers \ {c} : calls'[e] = calls[e]
        /\ calls'[c].pc = "close" /\ calls'[c].entered = calls[c].entered
        /\ calls'[c].got = calls[c].got
        /\ UNCHANGED <<retired, published>>
    BY <1>5, <1>t, <2>1 DEF Store, TypeOK, ActiveCall
  <2>3. AgeCall(c)'
    BY <2>1, <2>2 DEF AgeInv, AgeCall, Since
  <2> QED
    BY <1>f, <2>2, <2>3
<1>6. ASSUME NEW c \in Callers, Close(c), NEW d \in Callers
      PROVE  AgeCall(d)'
  <2>1. calls[c].pc = "close" /\ UNCHANGED <<clock, retired, published>>
    BY <1>6 DEF Close
  <2>2. CASE d \in {c} \cup Sharing(c)
    <3>1. calls[d] \in ActiveCall
      BY <1>6, <1>t, <2>2, AgeTypes DEF Close, Sharing
    <3>2. /\ calls'[d].pc = "check" /\ calls'[d].entered = calls[d].entered
          /\ calls'[d].got = calls[c].got
      BY <1>6, <2>2, <3>1 DEF Close, ActiveCall
    <3>3. calls[d].entered \in Nat /\ calls[c].entered \in Nat
      BY <1>t, <2>1, <3>1, AgeTypes DEF ActiveCall
    <3>4. calls[d].entered <= clock /\ calls[d].entered <= calls[c].entered + FetchTimeout + MaxPause
      <4>1. CASE d = c
        BY <1>n, <1>t, <2>1, <3>3, <4>1 DEF TimedInv, TimedCall
      <4>2. CASE d \in Sharing(c)
        BY <1>t, <4>2 DEF Sharing, TimedInv, TimedCall, AgeInv, AgeCall
      <4> QED
        BY <2>2, <4>1, <4>2
    <3>5. \/ calls[c].got = NoKeys
          \/ /\ calls[c].got \in Versions /\ calls[c].got <= published
             /\ Since(calls[c].got, calls[c].entered)
      <4>1. calls[c].got <= cached /\ cached <= published
        BY <1>t, <2>1 DEF VersionInv, CallInv, Ordered
      <4>2. calls[c].got \in Nat /\ cached \in Nat
        BY <1>t, <2>1, AgeTypes
      <4>3. calls[c].got = NoKeys \/ (calls[c].got \in Versions /\ Since(calls[c].got, calls[c].entered))
        BY <1>t, <2>1, AgeTypes DEF AgeInv, AgeCall
      <4> QED
        BY <1>n, <4>1, <4>2, <4>3
    <3>6. Horizon(calls[d].entered) <= calls[c].entered
      BY <1>n, <3>3, <3>4 DEF Horizon
    <3>7. \/ calls[c].got = NoKeys
          \/ calls[c].got <= published /\ Since(calls[c].got, Horizon(calls[d].entered))
      <4>1. Horizon(calls[d].entered) \in Int
        BY <1>n, <3>3 DEF Horizon
      <4> QED
        BY <1>n, <3>3, <3>5, <3>6, <4>1 DEF Since
    <3> QED
      BY <2>1, <3>2, <3>4, <3>7 DEF AgeCall, Since, Horizon
  <2>3. CASE d \notin {c} \cup Sharing(c)
    <3>1. calls'[d] = calls[d]
      BY <1>6, <2>3 DEF Close
    <3>2. calls[d].pc = "wait" => calls[d].leader \in Callers \ ({c} \cup Sharing(c))
      BY <1>w, <2>3 DEF Sharing
    <3>3. calls[d].pc = "wait" => calls'[calls[d].leader] = calls[calls[d].leader]
      BY <1>6, <3>2 DEF Close
    <3> QED
      BY <3>1, <3>3, AgeFrame
  <2> QED
    BY <2>2, <2>3
<1>7. ASSUME NEW c \in Callers, Check(c), NEW d \in Callers
      PROVE  AgeCall(d)'
  <2>t. PICK k, v : k = calls[c] /\ v = calls[c].got
    OBVIOUS
  <2>1. k.pc = "check" /\ k \in ActiveCall /\ UNCHANGED <<clock, retired, published>>
    BY <1>7, <1>t, <2>t, AgeTypes DEF Check
  <2>2. /\ \A e \in Callers \ {c} : calls'[e] = calls[e]
        /\ calls'[c].pc = IF Accepts(k.token, v) THEN "accepted" ELSE "denied"
        /\ calls'[c].entered = k.entered /\ calls'[c].token = k.token
    BY <1>7, <1>t, <2>t, <2>1 DEF Check, TypeOK, ActiveCall
  <2>3. ASSUME calls'[c].pc = "accepted"
        PROVE  /\ v \in 1..published
               /\ SignerOf[k.token] \in KeysFor(k.token, v)
               /\ Since(v, Horizon(k.entered))
               /\ k.entered <= clock
    <3>1. Accepts(k.token, v)
      BY <2>2, <2>3
    <3>2. v # NoKeys /\ SignerOf[k.token] \in KeysFor(k.token, v)
      BY <3>1 DEF Accepts
    <3>3. v \in Versions /\ v <= published /\ Since(v, Horizon(k.entered)) /\ k.entered <= clock
      BY <1>t, <2>t, <2>1, <3>2, AgeTypes DEF AgeInv, AgeCall
    <3>4. v \in 1..published
      BY <1>n, <1>t, <3>3, AgeTypes
    <3> QED
      BY <3>2, <3>3, <3>4
  <2>4. AgeCall(c)'
    <3>1. CASE calls'[c].pc = "accepted"
      BY <2>1, <2>2, <2>3, <3>1 DEF AgeCall, Since, Horizon, KeysFor
    <3>2. CASE calls'[c].pc = "denied"
      BY <3>2 DEF AgeCall
    <3> QED
      BY <2>2, <3>1, <3>2
  <2> QED
    BY <1>f, <2>t, <2>1, <2>2, <2>4
<1>8. ASSUME NEW c \in Callers, Leave(c), NEW d \in Callers
      PROVE  AgeCall(d)'
  <2>1. /\ calls[c].pc \in {"accepted", "denied"}
        /\ calls'[c].pc = "idle" /\ \A e \in Callers \ {c} : calls'[e] = calls[e]
    BY <1>8, <1>t DEF Leave, Idle, TypeOK
  <2>2. AgeCall(c)'
    BY <2>1 DEF AgeCall
  <2> QED
    BY <1>f, <2>1, <2>2
<1>9. ASSUME Rotate \/ Tick \/ UNCHANGED vars, NEW d \in Callers PROVE AgeCall(d)'
  <2>1. calls' = calls
    BY <1>9 DEF Rotate, Tick, vars
  <2> QED
    BY <2>1, AgeFrame
<1> QED
  BY <1>1, <1>2, <1>3, <1>4, <1>5, <1>6, <1>7, <1>8, <1>9 DEF Next

(***************************************************************************)
(* A withdrawn key dies with the cache: what a call is accepted under was  *)
(* published less than a lifetime, a fetch and a pause before it began,    *)
(* however many fetches fail and whoever shares them.                      *)
(***************************************************************************)
THEOREM WithdrawnKeysDie == Spec => []WithdrawnKeysExpire
<1>1. AgeInv => WithdrawnKeysExpire
  <2> SUFFICES ASSUME AgeInv, NEW c \in Callers, calls[c].pc = "accepted"
               PROVE  \E v \in 1..published :
                        /\ SignerOf[calls[c].token] \in KeysFor(calls[c].token, v)
                        /\ \/ retired[v] = NotYet
                           \/ retired[v] > calls[c].entered - Ttl - FetchTimeout - MaxPause
    BY DEF WithdrawnKeysExpire
  <2>t. TypeOK
    BY DEF AgeInv, TimedInv, VersionInv
  <2>1. PICK v \in 1..published :
            /\ SignerOf[calls[c].token] \in KeysFor(calls[c].token, v)
            /\ Since(v, Horizon(calls[c].entered))
    BY DEF AgeInv, AgeCall
  <2>2. /\ calls[c].entered \in Nat /\ Ttl \in Nat /\ FetchTimeout \in Nat /\ MaxPause \in Nat
        /\ v \in Versions /\ retired[v] \in Int
    BY <2>t, AgeTypes
  <2> QED
    BY <2>1, <2>2 DEF Since, Horizon
<1> QED
  BY <1>1, AgeInvInit, AgeInvStep, PTL DEF Spec
=============================================================================
