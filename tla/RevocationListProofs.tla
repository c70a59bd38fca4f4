------------------------ MODULE RevocationListProofs ------------------------
(***************************************************************************)
(* Proofs about RevocationLists, for every set of names and pairs, any     *)
(* number of requests, lists and consumers, and any bounds.                *)
(***************************************************************************)
EXTENDS RevocationLists, TLAPS, WellFoundedInduction

-----------------------------------------------------------------------------
(* The highest number.                                                     *)

(* A non-empty set of naturals below a bound has a greatest element.       *)
LEMMA GreatestExists ==
    ASSUME NEW B \in Nat, NEW S \in SUBSET (0..B), S # {}
    PROVE  \E m \in S : \A n \in S : n <= m
<1> DEFINE T == {B - n : n \in S}
<1>1. T \subseteq Nat /\ T # {}
  <2>1. ASSUME NEW n \in S PROVE B - n \in Nat
    <3>1. n \in 0..B
      OBVIOUS
    <3> QED
      BY <3>1
  <2>2. T \subseteq Nat
    BY <2>1
  <2> QED
    BY <2>2
<1> DEFINE R == OpToRel(<, Nat)
<1>2. \E x \in T : \A y \in T : ~ (<<y, x>> \in R)
  <2>1. IsWellFoundedOn(R, Nat)
    BY NatLessThanWellFounded
  <2> HIDE DEF T, R
  <2> QED
    BY <1>1, <2>1, WFMin
<1>3. \A x, y \in Nat : y < x => <<y, x>> \in R
  BY DEF OpToRel
<1> HIDE DEF R
<1>4. PICK x \in T : \A y \in T : ~ (y < x)
  <2> HIDE DEF T, R
  <2> QED
    BY <1>1, <1>2, <1>3
<1>5. PICK m \in S : x = B - m
  OBVIOUS
<1>6. ASSUME NEW n \in S PROVE n <= m
  <2>1. ~ (B - n < B - m)
    BY <1>4, <1>5
  <2>2. n \in 0..B /\ m \in 0..B
    OBVIOUS
  <2>3. n \in Int /\ m \in Int /\ B \in Int
    <3> HIDE DEF T
    <3> QED
      BY <2>2
  <2> HIDE DEF T
  <2> QED
    BY <2>1, <2>3
<1> QED
  BY <1>6

(* What MAX(seq) returns of rows whose numbers have a bound.               *)
LEMMA HighestIs ==
    ASSUME NEW R \in SUBSET Row, NEW B \in Nat, \A r \in R : r.seq <= B
    PROVE  /\ Highest(R) \in Nat
           /\ Highest(R) <= B
           /\ \A r \in R : r.seq <= Highest(R)
           /\ R # {} => \E r \in R : r.seq = Highest(R)
<1> DEFINE S == {0} \cup {r.seq : r \in R}
<1>1. \A r \in R : r.seq \in Nat
  BY DEF Row
<1>2. S \in SUBSET (0..B) /\ S # {}
  BY <1>1
<1>3. \E m \in S : \A n \in S : n <= m
  <2> HIDE DEF S
  <2> QED
    BY <1>2, GreatestExists
<1>4. Highest(R) \in S /\ \A r \in R : r.seq <= Highest(R)
  BY <1>3 DEF Highest
<1>5. R # {} => \E r \in R : r.seq = Highest(R)
  <2> SUFFICES ASSUME NEW q \in R, Highest(R) = 0 PROVE q.seq = 0
    BY <1>4
  <2> QED
    BY <1>1, <1>4
<1> QED
  BY <1>2, <1>4, <1>5

-----------------------------------------------------------------------------
(* The inductive invariant.                                                *)

(* No number is beyond the bound.                                          *)
Numbered ==
    /\ \A r \in rows : r.seq <= MaxSeq
    /\ \A t \in Posters : posting[t].pc = "apply" => posting[t].row.seq <= MaxSeq

(* What was read for a list: rows, at most one of a key, and for whatever  *)
(* had been acknowledged that row or one of its key that is not lower.  *)
Snapshot(E, told) ==
    /\ E \subseteq rows
    /\ \A e, f \in E : Key(e.pair) = Key(f.pair) => e = f
    /\ \A r \in told : \E e \in E : Key(e.pair) = Key(r.pair) /\ e.seq >= r.seq

Snapshots ==
    /\ \A l \in Listers :
        listing[l].pc = "number" => Snapshot(listing[l].entries, listing[l].told)
    /\ \A L \in lists : Snapshot(L.entries, L.told)

Inv == TypeOK /\ Numbered /\ Snapshots /\ CacheTruthful /\ ToldIsKnown

-----------------------------------------------------------------------------
(* A subject's key is a name, and one of its own.                          *)
LEMMA KeyIsName ==
    ASSUME NEW p \in Pairs
    PROVE  Key(p) \in Name /\ Key(p) \in Names(p)
BY PairsAssumption DEF Key, Name, Names

(* What a consumer's entries are after a list: each is what it was, or a   *)
(* later one that the list has for that name.                              *)
LEMMA AppliedIs ==
    ASSUME NEW L \in List, NEW held \in [Name -> Row \cup {NoRow}]
    PROVE  /\ Applied(L, held) \in [Name -> Row \cup {NoRow}]
           /\ \A k \in Name :
                \/ Applied(L, held)[k] = held[k] /\ Newer(L, held, k) = {}
                \/ Applied(L, held)[k] \in Newer(L, held, k)
<1>1. \A k \in Name : Newer(L, held, k) \subseteq Row
  BY DEF Newer, List
<1>2. ASSUME NEW k \in Name, Newer(L, held, k) # {}
      PROVE  (CHOOSE e \in Newer(L, held, k) : TRUE) \in Newer(L, held, k)
  BY <1>2
<1> QED
  BY <1>1, <1>2 DEF Applied

(* Entries read by RevocationEntries are a snapshot of the table.          *)
LEMMA EntriesAreSnapshot ==
    ASSUME rows \subseteq Row, \A r \in rows : r.seq <= MaxSeq,
           NEW E \in RevocationEntries
    PROVE  Snapshot(E, rows)
<1>1. ASSUME NEW e \in E
      PROVE  e \in rows /\ e \in Latest(Under(Key(e.pair)))
  <2>1. PICK k \in Name : e \in Latest(Under(k))
    BY DEF RevocationEntries
  <2> QED
    BY <2>1 DEF Latest, Under
<1>2. ASSUME NEW r \in rows PROVE Key(r.pair) \in Name /\ r \in Under(Key(r.pair))
  BY KeyIsName DEF Row, Under
<1>3. ASSUME NEW e \in E, NEW f \in E, Key(e.pair) = Key(f.pair) PROVE e = f
  <2>1. Under(Key(e.pair)) # {} /\ Key(e.pair) \in Name
    BY <1>1, <1>2
  <2> QED
    BY <1>3, <2>1 DEF RevocationEntries
<1>4. ASSUME NEW r \in rows
      PROVE  \E e \in E : Key(e.pair) = Key(r.pair) /\ e.seq >= r.seq
  <2> DEFINE k == Key(r.pair)
  <2>1. PICK e \in E : Key(e.pair) = k
    BY <1>2 DEF RevocationEntries
  <2>2. e.seq = Highest(Under(k))
    BY <1>1, <2>1 DEF Latest
  <2>3. \A q \in Under(k) : q.seq <= Highest(Under(k))
    <3>1. Under(k) \in SUBSET Row /\ \A q \in Under(k) : q.seq <= MaxSeq
      BY DEF Under
    <3>2. MaxSeq \in Nat
      BY ListsAssumption
    <3> HIDE DEF k
    <3> QED
      BY <3>1, <3>2, HighestIs
  <2>4. e.seq \in Nat /\ r.seq \in Nat
    BY <1>1 DEF Row
  <2> QED
    BY <1>2, <2>1, <2>2, <2>3, <2>4
<1> QED
  BY <1>1, <1>3, <1>4 DEF Snapshot

-----------------------------------------------------------------------------
(* Types.                                                                  *)
LEMMA TypeInit == Init => TypeOK
BY DEF Init, TypeOK, Cache, Row, IdlePost, IdleList, NoRow

LEMMA TypeNext ==
    ASSUME TypeOK, Numbered, Next
    PROVE  TypeOK'
<1> USE DEF TypeOK
<1>1. ASSUME NEW t \in Posters, NEW p \in Pairs, NEW st \in Statuses, PostRequest(t, p, st)
      PROVE  TypeOK'
  <2>1. CurrentSeq(Key(p)) \in Nat
    <3>1. Naming(Key(p)) \in SUBSET Row /\ \A r \in Naming(Key(p)) : r.seq <= MaxSeq
      BY DEF Naming, Numbered
    <3> QED
      BY <3>1, HighestIs, ListsAssumption DEF CurrentSeq
  <2>2. [pair |-> p, seq |-> CurrentSeq(Key(p)) + 1, status |-> st] \in Row
    BY <2>1, ListsAssumption DEF Row
  <2> QED
    BY <1>1, <2>2 DEF PostRequest, IdlePost
<1>2. ASSUME NEW t \in Posters, PostApply(t) PROVE TypeOK'
  <2>1. posting[t].row \in Row
    BY <1>2 DEF PostApply, IdlePost
  <2> QED
    BY <1>2, <2>1 DEF PostApply, Revoke
<1>3. ASSUME NEW t \in Posters, PostConflict(t) PROVE TypeOK'
  BY <1>3 DEF PostConflict
<1>4. ASSUME NEW l \in Listers, ListRead(l) PROVE TypeOK'
  <2>1. PICK E \in RevocationEntries :
            listing' = [listing EXCEPT ![l] =
                            [pc |-> "number", entries |-> E, told |-> rows]]
    BY <1>4 DEF ListRead
  <2>2. E \subseteq Row
    BY EntriesAreSnapshot DEF Numbered, Snapshot
  <2>3. [pc |-> "number", entries |-> E, told |-> rows] \in Read
    BY <2>2 DEF Read
  <2> QED
    BY <1>4, <2>1, <2>3 DEF ListRead
<1>5. ASSUME NEW l \in Listers, ListNumber(l) PROVE TypeOK'
  <2>1. listing[l] \in Read
    BY <1>5 DEF ListNumber, IdleList
  <2>2. [number |-> listSeq + 1, entries |-> listing[l].entries,
         told |-> listing[l].told] \in List
    BY <2>1 DEF Read, List
  <2> QED
    BY <1>5, <2>2 DEF ListNumber
<1>6. ASSUME NEW c \in Consumers, NEW L \in lists, UpdateFromList(c, L) PROVE TypeOK'
  <2>1. cache[c] \in Cache /\ L \in List
    OBVIOUS
  <2>2. Applied(L, cache[c].entries) \in [Name -> Row \cup {NoRow}]
    BY <2>1, AppliedIs DEF Cache
  <2>3. [listSeq |-> L.number, entries |-> Applied(L, cache[c].entries),
         told |-> cache[c].told \cup L.told] \in Cache
    BY <2>1, <2>2 DEF Cache, List
  <2> QED
    BY <1>6, <2>3 DEF UpdateFromList
<1>7. CASE Restart
  BY <1>7 DEF Restart
<1> QED
  BY <1>1, <1>2, <1>3, <1>4, <1>5, <1>6, <1>7 DEF Next

LEMMA TypeStutter == TypeOK /\ UNCHANGED vars => TypeOK'
BY DEF TypeOK, vars

-----------------------------------------------------------------------------
(* The other parts of the invariant.                                       *)
LEMMA RowsGrow ==
    ASSUME Next PROVE rows \subseteq rows'
BY DEF Next, PostRequest, PostApply, PostConflict, Revoke, ListRead, ListNumber,
       UpdateFromList, Restart

LEMMA NumberedNext ==
    ASSUME TypeOK, Numbered, Next
    PROVE  Numbered'
<1> USE DEF Numbered
<1>1. ASSUME NEW t \in Posters, NEW p \in Pairs, NEW st \in Statuses, PostRequest(t, p, st)
      PROVE  Numbered'
  <2>1. CurrentSeq(Key(p)) \in Nat
    <3>1. Naming(Key(p)) \in SUBSET Row /\ \A r \in Naming(Key(p)) : r.seq <= MaxSeq
      BY DEF Naming, TypeOK
    <3> QED
      BY <3>1, HighestIs, ListsAssumption DEF CurrentSeq
  <2>2. CurrentSeq(Key(p)) + 1 <= MaxSeq
    BY <1>1, <2>1, ListsAssumption DEF PostRequest
  <2> QED
    BY <1>1, <2>2 DEF PostRequest, TypeOK
<1>2. ASSUME NEW t \in Posters, PostApply(t) PROVE Numbered'
  <2> DEFINE r == posting[t].row
  <2>1. r \in Row /\ r.seq <= MaxSeq
    BY <1>2 DEF PostApply, IdlePost, TypeOK
  <2>2. rows' = rows \cup {r} /\ posting' = [posting EXCEPT ![t] = IdlePost]
    BY <1>2 DEF PostApply, Revoke
  <2> HIDE DEF r
  <2> QED
    BY <2>1, <2>2 DEF IdlePost, TypeOK
<1>3. ASSUME NEW t \in Posters, PostConflict(t) PROVE Numbered'
  BY <1>3 DEF PostConflict, IdlePost, TypeOK
<1>4. ASSUME NEW l \in Listers, ListRead(l) \/ ListNumber(l) PROVE Numbered'
  BY <1>4 DEF ListRead, ListNumber
<1>5. ASSUME NEW c \in Consumers, NEW L \in lists, UpdateFromList(c, L) PROVE Numbered'
  BY <1>5 DEF UpdateFromList
<1>6. CASE Restart
  BY <1>6 DEF Restart, IdlePost
<1> QED
  BY <1>1, <1>2, <1>3, <1>4, <1>5, <1>6 DEF Next

LEMMA SnapshotsNext ==
    ASSUME TypeOK, Numbered, Snapshots, Next
    PROVE  Snapshots'
<1>1. rows \subseteq rows'
  BY RowsGrow
<1>2. (\A l \in Listers : listing[l].pc = "number" =>
        Snapshot(listing[l].entries, listing[l].told))'
  <2> SUFFICES ASSUME NEW l \in Listers, listing'[l].pc = "number"
               PROVE  Snapshot(listing[l].entries, listing[l].told)'
    OBVIOUS
  <2>1. CASE listing'[l] = listing[l]
    <3>1. Snapshot(listing[l].entries, listing[l].told)
      BY <2>1 DEF Snapshots
    <3> QED
      BY <1>1, <2>1, <3>1 DEF Snapshot, Key
  <2>2. CASE listing'[l] # listing[l]
    <3>1. ListRead(l)
      BY <2>2 DEF Next, PostRequest, PostApply, PostConflict, ListRead, ListNumber,
                  UpdateFromList, Restart, IdleList, TypeOK
    <3>2. PICK E \in RevocationEntries :
            listing' = [listing EXCEPT ![l] =
                            [pc |-> "number", entries |-> E, told |-> rows]]
      BY <3>1 DEF ListRead
    <3>3. Snapshot(E, rows)
      BY EntriesAreSnapshot DEF TypeOK, Numbered
    <3>4. listing'[l].entries = E /\ listing'[l].told = rows
      BY <3>2 DEF TypeOK
    <3> QED
      BY <1>1, <3>3, <3>4 DEF Snapshot, Key
  <2> QED
    BY <2>1, <2>2
<1>3. (\A L \in lists : Snapshot(L.entries, L.told))'
  <2> SUFFICES ASSUME NEW L \in lists' PROVE Snapshot(L.entries, L.told)'
    OBVIOUS
  <2>1. Snapshot(L.entries, L.told)
    <3>1. CASE L \in lists
      BY <3>1 DEF Snapshots
    <3>2. CASE L \notin lists
      <4>1. PICK l \in Listers : ListNumber(l)
        BY <3>2 DEF Next, PostRequest, PostApply, PostConflict, ListRead, ListNumber,
                    UpdateFromList, Restart
      <4> QED
        BY <3>2, <4>1 DEF ListNumber, Snapshots
    <3> QED
      BY <3>1, <3>2
  <2> QED
    BY <1>1, <2>1 DEF Snapshot, Key
<1> QED
  BY <1>2, <1>3 DEF Snapshots

(* One list applied: what the cache holds stays true and known.            *)
LEMMA UpdateKeepsCaches ==
    ASSUME TypeOK, Snapshots, CacheTruthful, ToldIsKnown,
           NEW c \in Consumers, NEW L \in lists, UpdateFromList(c, L)
    PROVE  CacheTruthful' /\ ToldIsKnown'
<1> DEFINE held == cache[c].entries
<1> DEFINE now == Applied(L, held)
<1>1. L \in List /\ held \in [Name -> Row \cup {NoRow}] /\ cache[c].told \in SUBSET Row
  BY DEF TypeOK, Cache
<1>2. Snapshot(L.entries, L.told)
  BY DEF Snapshots
<1>3. /\ rows' = rows
      /\ \A d \in Consumers \ {c} : cache'[d] = cache[d]
      /\ cache'[c].entries = now /\ cache'[c].told = cache[c].told \cup L.told
  BY DEF UpdateFromList, TypeOK
<1>4. /\ now \in [Name -> Row \cup {NoRow}]
      /\ \A k \in Name : \/ now[k] = held[k] /\ Newer(L, held, k) = {}
                         \/ now[k] \in Newer(L, held, k)
  <2> HIDE DEF held
  <2> QED
    BY <1>1, AppliedIs
<1>5. \A k \in Name : held[k].seq \in Nat /\ now[k].seq \in Nat
  BY <1>1, <1>4 DEF Row, NoRow
<1>6. \A k \in Name : now[k].seq >= held[k].seq
  BY <1>4, <1>5 DEF Newer
<1>7. ASSUME NEW k \in Name, now[k] # NoRow PROVE now[k] \in Under(k)
  <2>1. CASE now[k] = held[k]
    <3>1. held[k] \in Under(k)
      BY <1>7, <2>1 DEF CacheTruthful
    <3> QED
      BY <2>1, <3>1
  <2>2. CASE now[k] \in Newer(L, held, k)
    BY <1>2, <2>2 DEF Newer, Snapshot, Under
  <2> HIDE DEF held, now
  <2> QED
    BY <1>4, <2>1, <2>2
<1>8. ASSUME NEW r \in cache[c].told PROVE now[Key(r.pair)].seq >= r.seq
  <2>1. Key(r.pair) \in Name /\ r.seq \in Nat
    <3>1. r.pair \in Pairs /\ r.seq \in Nat
      BY <1>1 DEF Row
    <3> QED
      BY <3>1, KeyIsName
  <2>2. held[Key(r.pair)].seq >= r.seq
    BY DEF ToldIsKnown
  <2> HIDE DEF held, now
  <2> QED
    BY <1>5, <1>6, <2>1, <2>2
<1>9. ASSUME NEW r \in L.told PROVE now[Key(r.pair)].seq >= r.seq
  <2>1. Key(r.pair) \in Name /\ r.seq \in Nat
    <3>1. r.pair \in Pairs /\ r.seq \in Nat
      BY <1>1 DEF Row, List
    <3> QED
      BY <3>1, KeyIsName
  <2>2. PICK e \in L.entries : Key(e.pair) = Key(r.pair) /\ e.seq >= r.seq
    BY <1>2 DEF Snapshot
  <2>3. e.seq \in Nat
    BY <1>1 DEF List, Row
  <2>4. CASE e.seq > held[Key(r.pair)].seq
    <3>1. e \in Newer(L, held, Key(r.pair))
      BY <2>2, <2>4 DEF Newer
    <3>2. now[Key(r.pair)] \in Newer(L, held, Key(r.pair))
      BY <1>4, <2>1, <3>1
    <3>3. now[Key(r.pair)] = e
      BY <1>2, <2>2, <3>2 DEF Newer, Snapshot
    <3> QED
      BY <2>2, <3>3
  <2>5. CASE e.seq <= held[Key(r.pair)].seq
    <3> HIDE DEF held, now
    <3> QED
      BY <1>5, <1>6, <2>1, <2>2, <2>3, <2>5
  <2> HIDE DEF held, now
  <2> QED
    BY <1>5, <2>1, <2>3, <2>4, <2>5
<1> HIDE DEF held, now
<1>10. CacheTruthful'
  <2> SUFFICES ASSUME NEW d \in Consumers, NEW k \in Name, cache'[d].entries[k] # NoRow
               PROVE  cache'[d].entries[k] \in Under(k)'
    BY DEF CacheTruthful
  <2> QED
    BY <1>3, <1>7 DEF CacheTruthful, Under
<1>11. ToldIsKnown'
  <2> SUFFICES ASSUME NEW d \in Consumers, NEW r \in cache'[d].told
               PROVE  cache'[d].entries[Key(r.pair)].seq >= r.seq
    BY DEF ToldIsKnown, Key
  <2> QED
    BY <1>3, <1>8, <1>9 DEF ToldIsKnown
<1> QED
  BY <1>10, <1>11

LEMMA CachesNext ==
    ASSUME TypeOK, Snapshots, CacheTruthful, ToldIsKnown, Next
    PROVE  CacheTruthful' /\ ToldIsKnown'
<1>1. ASSUME NEW c \in Consumers, NEW L \in lists, UpdateFromList(c, L)
      PROVE  CacheTruthful' /\ ToldIsKnown'
  BY <1>1, UpdateKeepsCaches
<1>2. CASE UNCHANGED cache
  <2>1. rows \subseteq rows'
    BY RowsGrow
  <2> QED
    BY <1>2, <2>1 DEF CacheTruthful, ToldIsKnown, Under, Key
<1>3. UNCHANGED cache \/ \E c \in Consumers, L \in lists : UpdateFromList(c, L)
  BY DEF Next, PostRequest, PostApply, PostConflict, Revoke, ListRead, ListNumber, Restart
<1> QED
  BY <1>1, <1>2, <1>3

-----------------------------------------------------------------------------
LEMMA InvInit == Init => Inv
<1> SUFFICES ASSUME Init PROVE Inv
  OBVIOUS
<1>1. TypeOK
  BY TypeInit
<1>2. Numbered /\ Snapshots /\ CacheTruthful /\ ToldIsKnown
  BY DEF Init, Numbered, Snapshots, CacheTruthful, ToldIsKnown, IdlePost, IdleList
<1> QED
  BY <1>1, <1>2 DEF Inv

LEMMA InvNext == Inv /\ [Next]_vars => Inv'
<1>1. Inv /\ Next => Inv'
  BY TypeNext, NumberedNext, SnapshotsNext, CachesNext DEF Inv
<1>2. Inv /\ UNCHANGED vars => Inv'
  BY TypeStutter DEF Inv, vars, Numbered, Snapshots, Snapshot, CacheTruthful, ToldIsKnown,
                     Under, Key
<1> QED
  BY <1>1, <1>2

LEMMA Invariance == Spec => []Inv
BY InvInit, InvNext, PTL DEF Spec

(* Every variable keeps to its type.                                       *)
THEOREM TypeCorrect == Spec => []TypeOK
<1>1. Inv => TypeOK
  BY DEF Inv
<1> QED
  BY <1>1, Invariance, PTL

(* A consumer's cache holds only entries the daemon posted, under their    *)
(* own key: no order of lists, losses or restarts makes it hold another.   *)
THEOREM CachesAreTruthful == Spec => []CacheTruthful
<1>1. Inv => CacheTruthful
  BY DEF Inv
<1> QED
  BY <1>1, Invariance, PTL

(* What had been acknowledged before a list was requested is known to      *)
(* every consumer that accepts the list (handleGetRevocationList,          *)
(* UpdateFromList).                                                        *)
THEOREM AcceptedListsTell == Spec => []ToldIsKnown
<1>1. Inv => ToldIsKnown
  BY DEF Inv
<1> QED
  BY <1>1, Invariance, PTL

(* A list never sets a cache back: an entry is only replaced by one with a *)
(* higher number, whatever the numbers of the lists.                       *)
THEOREM CachesNeverStepBack == Spec => NeverOlder
<1> DEFINE Step ==
        \A c \in Consumers, k \in Name :
            cache'[c].entries[k] # cache[c].entries[k] =>
                cache'[c].entries[k].seq > cache[c].entries[k].seq
<1>1. Inv /\ Next => Step
  <2> SUFFICES ASSUME Inv, Next, NEW c \in Consumers, NEW k \in Name,
                      cache'[c].entries[k] # cache[c].entries[k]
               PROVE  cache'[c].entries[k].seq > cache[c].entries[k].seq
    OBVIOUS
  <2>1. cache \in [Consumers -> Cache] /\ lists \subseteq List
    BY DEF Inv, TypeOK
  <2>2. PICK L \in lists : UpdateFromList(c, L)
    BY <2>1 DEF Next, PostRequest, PostApply, PostConflict, Revoke, ListRead, ListNumber,
                UpdateFromList, Restart
  <2>3. cache'[c].entries = Applied(L, cache[c].entries)
    BY <2>1, <2>2 DEF UpdateFromList
  <2>4. cache[c].entries \in [Name -> Row \cup {NoRow}] /\ L \in List
    BY <2>1 DEF Cache
  <2>5. Applied(L, cache[c].entries)[k] \in Newer(L, cache[c].entries, k)
    BY <2>3, <2>4, AppliedIs
  <2> QED
    BY <2>3, <2>5 DEF Newer
<1>2. Inv /\ [Next]_vars => [Step]_vars
  BY <1>1
<1> QED
  BY <1>2, Invariance, PTL DEF Spec, NeverOlder
=============================================================================
