-------------------------- MODULE AuditChainProofs --------------------------
(***************************************************************************)
(* Proofs about AuditChain, for any number of writers, entries, failures   *)
(* and damages.                                                            *)
(***************************************************************************)
EXTENDS AuditChain, TLAPS, WellFoundedInduction

-----------------------------------------------------------------------------
(* The least and the greatest number.                                      *)

LEMMA LeastExists ==
    ASSUME NEW T \in SUBSET Nat, T # {}
    PROVE  \E x \in T : \A y \in T : x <= y
<1> DEFINE R == OpToRel(<, Nat)
<1>1. \E x \in T : \A y \in T : ~ (<<y, x>> \in R)
  <2>1. IsWellFoundedOn(R, Nat)
    BY NatLessThanWellFounded
  <2> HIDE DEF R
  <2> QED
    BY <2>1, WFMin
<1>2. \A x, y \in Nat : y < x => <<y, x>> \in R
  BY DEF OpToRel
<1> HIDE DEF R
<1>3. PICK x \in T : \A y \in T : ~ (<<y, x>> \in R)
  BY <1>1
<1>4. ASSUME NEW y \in T PROVE x <= y
  <2>1. x \in Nat /\ y \in Nat
    OBVIOUS
  <2>2. ~ (y < x)
    BY <1>2, <1>3, <2>1
  <2> QED
    BY <2>1, <2>2
<1> QED
  BY <1>4

LEMMA GreatestExists ==
    ASSUME NEW B \in Nat, NEW S \in SUBSET (0..B), S # {}
    PROVE  \E m \in S : \A n \in S : n <= m
<1> DEFINE T == {B - n : n \in S}
<1>1. \A n \in S : n \in Nat /\ B - n \in Nat
  <2>1. ASSUME NEW n \in S PROVE n \in Nat /\ B - n \in Nat
    <3>1. n \in 0..B
      OBVIOUS
    <3> QED
      BY <3>1
  <2> QED
    BY <2>1
<1>2. T \in SUBSET Nat /\ T # {}
  BY <1>1
<1>3. \E x \in T : \A y \in T : x <= y
  <2> HIDE DEF T
  <2> QED
    BY <1>2, LeastExists
<1>4. PICK m \in S : \A n \in S : B - m <= B - n
  BY <1>3
<1>5. ASSUME NEW n \in S PROVE n <= m
  <2> HIDE DEF T
  <2>1. m \in Nat /\ n \in Nat /\ B - m <= B - n
    BY <1>1, <1>4
  <2> QED
    BY <2>1
<1> QED
  BY <1>5

(* What the two queries return: the last number, and the one before s.     *)
LEMMA LastSeqIs ==
    ASSUME DOMAIN rows \subseteq Seqs
    PROVE  /\ LastSeq \in {0} \cup DOMAIN rows
           /\ \A s \in DOMAIN rows : s <= LastSeq
<1> DEFINE S == {0} \cup DOMAIN rows
<1>1. S \in SUBSET (0..MaxSeq) /\ S # {} /\ MaxSeq \in Nat
  BY AuditAssumption DEF Seqs
<1>2. \E m \in S : \A n \in S : n <= m
  <2> HIDE DEF S
  <2> QED
    BY <1>1, GreatestExists
<1> QED
  BY <1>2 DEF LastSeq

LEMMA BeforeIs ==
    ASSUME DOMAIN rows \subseteq Seqs, NEW s \in Seqs
    PROVE  /\ Before(s) \in {0} \cup DOMAIN rows
           /\ Before(s) < s
           /\ \A r \in DOMAIN rows : r < s => r <= Before(s)
<1> DEFINE S == {0} \cup {r \in DOMAIN rows : r < s}
<1>1. S \in SUBSET (0..MaxSeq) /\ S # {} /\ MaxSeq \in Nat
  BY AuditAssumption DEF Seqs
<1>2. \E m \in S : \A n \in S : n <= m
  <2> HIDE DEF S
  <2> QED
    BY <1>1, GreatestExists
<1>3. 0 < s
  BY AuditAssumption DEF Seqs
<1> QED
  BY <1>2, <1>3 DEF Before

-----------------------------------------------------------------------------
(* Hashes differ from each other unless what was hashed is the same, and   *)
(* from what is no hash.                                                   *)
LEMMA HashesDiffer ==
    ASSUME NEW s, NEW b, NEW p
    PROVE  /\ Hash(s, b, p) # Genesis /\ Hash(s, b, p) # Garbage
           /\ Hash(s, b, p)[1] = s /\ Hash(s, b, p)[2] = b /\ Hash(s, b, p)[3] = p
BY DEF Hash, Genesis, Garbage

(* The history after an append: whatever stood for something still stands  *)
(* for it, and if anything is added it is the hash of the new entry.       *)
LEMMA PastWithIs ==
    ASSUME NEW s, NEW b, NEW p, NEW h, h = Hash(s, b, p)
    PROVE  \/ PastWith(s, b, p) = past
           \/ /\ p \in Appended /\ h \notin DOMAIN past
              /\ DOMAIN PastWith(s, b, p) = DOMAIN past \cup {h}
              /\ PastWith(s, b, p)[h] = Past(p) \cup {<<s, b>>}
              /\ \A g \in DOMAIN past : PastWith(s, b, p)[g] = past[g]
BY DEF PastWith

LEMMA PastWithTypes ==
    ASSUME NEW T, NEW s, NEW b, NEW p, <<s, b>> \in T,
           p \in Appended => Past(p) \subseteq T,
           \A h \in DOMAIN past : past[h] \subseteq T,
           NEW f, PastWith(s, b, p) = f
    PROVE  \A h \in DOMAIN f : f[h] \subseteq T
<1>1. PICK g : g = Hash(s, b, p)
  OBVIOUS
<1>2. CASE f = past
  BY <1>2
<1>3. CASE f # past
  <2>1. p \in Appended
    BY <1>3 DEF PastWith
  <2>2. f = [h \in DOMAIN past \cup {g} |->
              IF h = g THEN Past(p) \cup {<<s, b>>} ELSE past[h]]
    BY <1>1, <1>3 DEF PastWith
  <2>3. ASSUME NEW h \in DOMAIN f PROVE f[h] \subseteq T
    <3>1. Past(p) \cup {<<s, b>>} \subseteq T
      BY <2>1
    <3>2. CASE h = g
      BY <2>2, <3>1, <3>2
    <3>3. CASE h # g
      <4>1. h \in DOMAIN past /\ f[h] = past[h]
        BY <2>2, <2>3, <3>3
      <4> QED
        BY <4>1
    <3> QED
      BY <3>2, <3>3
  <2> QED
    BY <2>3
<1> QED
  BY <1>2, <1>3

(* The fields of an entry about to be inserted.                            *)
LEMMA EntryIs ==
    ASSUME NEW w
    PROVE  /\ DOMAIN Entry(w) = {"body", "prev", "hash"}
           /\ Entry(w).body = txs[w].body
           /\ Entry(w).prev = txs[w].prev
           /\ Entry(w).hash = Hash(txs[w].seq, txs[w].body, txs[w].prev)
BY DEF Entry

-----------------------------------------------------------------------------
(* The lock: between its reads and its insert a writer is alone.           *)
LockInv ==
    \A w \in Writers : txs[w].pc \in {"seq", "prev", "insert"} => lock = w

LEMMA TypeInit == Init => TypeOK /\ LockInv
<1> SUFFICES ASSUME Init PROVE TypeOK /\ LockInv
  OBVIOUS
<1>1. DOMAIN rows = {}
  BY DEF Init
<1> QED
  BY <1>1, AuditAssumption DEF Init, TypeOK, LockInv, NoTx

LEMMA TypeNext == TypeOK /\ LockInv /\ [Next]_vars => TypeOK' /\ LockInv'
<1> SUFFICES ASSUME TypeOK, LockInv, [Next]_vars PROVE TypeOK' /\ LockInv'
  OBVIOUS
<1>0. Nobody \notin Writers /\ MaxSeq \in Nat /\ MaxFaults \in Nat /\ MaxDamage \in Nat
  BY AuditAssumption
<1>1. CASE UNCHANGED vars
  BY <1>1 DEF vars, TypeOK, LockInv
<1>2. ASSUME NEW w \in Writers, NEW b \in Bodies, Begin(w, b) PROVE TypeOK' /\ LockInv'
  BY <1>2 DEF Begin, TypeOK, LockInv, NoTx
<1>3. ASSUME NEW w \in Writers, Lock(w) PROVE TypeOK' /\ LockInv'
  BY <1>0, <1>3 DEF Lock, TypeOK, LockInv, NoTx
<1>4. ASSUME NEW w \in Writers, ReadSeq(w) PROVE TypeOK' /\ LockInv'
  <2>1. LastSeq \in 0..MaxSeq
    BY <1>0, LastSeqIs DEF TypeOK, Seqs
  <2> QED
    BY <1>0, <1>4, <2>1 DEF ReadSeq, TypeOK, LockInv, NoTx
<1>5. ASSUME NEW w \in Writers, ReadPrev(w) PROVE TypeOK' /\ LockInv'
  BY <1>0, <1>5 DEF ReadPrev, TypeOK, LockInv, NoTx
<1>6. ASSUME NEW w \in Writers, Insert(w) PROVE TypeOK' /\ LockInv'
  <2>1. txs[w].pc = "insert" /\ txs[w].seq \in Seqs /\ txs[w].body \in Bodies
    BY <1>0, <1>6 DEF Insert, TypeOK, NoTx, Seqs
  <2>2. /\ txs' = [txs EXCEPT ![w] = NoTx]
        /\ lock' = IF lock = w THEN Nobody ELSE lock
        /\ UNCHANGED <<faults, damage>>
    BY <1>6 DEF Insert, End
  <2>3. /\ DOMAIN rows' \subseteq Seqs
        /\ \A s \in DOMAIN rows' :
            DOMAIN rows'[s] = {"body", "prev", "hash"} /\ rows'[s].body \in Bodies
    <3>1. CASE UNCHANGED rows
      BY <3>1 DEF TypeOK
    <3>2. CASE ~UNCHANGED rows
      <4>1. rows' = [s \in DOMAIN rows \cup {txs[w].seq} |->
                          IF s = txs[w].seq THEN Entry(w) ELSE rows[s]]
        BY <1>6, <3>2 DEF Insert
      <4>2. \A s \in DOMAIN rows' :
                DOMAIN rows'[s] = {"body", "prev", "hash"} /\ rows'[s].body \in Bodies
        BY <2>1, <4>1, EntryIs DEF TypeOK
      <4> QED
        BY <2>1, <4>1, <4>2 DEF TypeOK
    <3> QED
      BY <3>1, <3>2
  <2>8. \A h \in DOMAIN past' : past'[h] \subseteq Seqs \X Bodies
    <3>1. past' = past \/ past' = PastWith(txs[w].seq, txs[w].body, txs[w].prev)
      BY <1>6 DEF Insert
    <3>2. txs[w].prev \in Appended => Past(txs[w].prev) \subseteq Seqs \X Bodies
      BY DEF Appended, Past, TypeOK
    <3>3. <<txs[w].seq, txs[w].body>> \in Seqs \X Bodies
      BY <2>1
    <3>4. \A g \in DOMAIN past : past[g] \subseteq Seqs \X Bodies
      BY DEF TypeOK
    <3>5. PastWith(txs[w].seq, txs[w].body, txs[w].prev) = past'
            => \A h \in DOMAIN past' : past'[h] \subseteq Seqs \X Bodies
      BY <3>2, <3>3, <3>4, PastWithTypes
    <3> QED
      BY <3>1, <3>4, <3>5
  <2>4. \A u \in Writers \ {w} : txs'[u] = txs[u] /\ txs[u].pc \notin {"seq", "prev", "insert"}
    BY <2>1, <2>2 DEF TypeOK, LockInv
  <2>5. txs'[w] = NoTx
    BY <2>2 DEF TypeOK
  <2>6. LockInv'
    BY <2>4, <2>5 DEF LockInv, NoTx
  <2>7. \A u \in Writers :
         \/ txs'[u] = NoTx
         \/ txs'[u] \in [pc : {"lock", "seq"}, body : Bodies]
         \/ /\ txs'[u].pc \in {"prev", "insert"}
            /\ txs'[u].body \in Bodies
            /\ txs'[u].seq \in 1..(MaxSeq + 1)
    BY <2>4, <2>5 DEF TypeOK
  <2> QED
    BY <1>0, <2>2, <2>3, <2>6, <2>7, <2>8 DEF TypeOK
<1>7. ASSUME NEW w \in Writers, AppendFails(w) PROVE TypeOK' /\ LockInv'
  <2>1. /\ txs' = [txs EXCEPT ![w] = NoTx]
        /\ lock' = IF lock = w THEN Nobody ELSE lock
        /\ faults' = faults + 1 /\ faults < MaxFaults
        /\ UNCHANGED <<rows, damage, past>>
    BY <1>7 DEF AppendFails, End
  <2>2. LockInv'
    BY <1>0, <2>1 DEF TypeOK, LockInv, NoTx
  <2> QED
    BY <1>0, <2>1, <2>2 DEF TypeOK
<1>8. CASE Damage
  <2>1. /\ DOMAIN rows' \subseteq Seqs
        /\ \A s \in DOMAIN rows' :
            DOMAIN rows'[s] = {"body", "prev", "hash"} /\ rows'[s].body \in Bodies
    <3>1. CASE Forge
      BY <3>1 DEF Forge, WriteRow, TypeOK
    <3>2. CASE Remove
      BY <3>2 DEF Remove, TypeOK
    <3> QED
      BY <1>8, <3>1, <3>2 DEF Damage
  <2>2. /\ damage' = damage + 1 /\ damage < MaxDamage
        /\ UNCHANGED <<lock, txs, faults, past>>
    BY <1>8 DEF Damage
  <2>3. LockInv'
    BY <2>1, <2>2 DEF LockInv
  <2> QED
    BY <1>0, <2>1, <2>2, <2>3 DEF TypeOK
<1> QED
  BY <1>1, <1>2, <1>3, <1>4, <1>5, <1>6, <1>7, <1>8 DEF Next

LEMMA TypeInvariance == Spec => [](TypeOK /\ LockInv)
BY TypeInit, TypeNext, PTL DEF Spec

(* Every variable keeps its type.                                          *)
THEOREM AuditTypeCorrect == Spec => []TypeOK
BY TypeInvariance, PTL

-----------------------------------------------------------------------------
(* Undamaged logs.                                                         *)

(* Numbers without a gap, links from each entry to the one below it, and   *)
(* what a writer holding the lock has read is still so.                    *)
UndamagedInv ==
    damage = 0 =>
        /\ DOMAIN rows = 1..LastSeq
        /\ \A s \in DOMAIN rows :
            /\ rows[s].prev = HashOf(s - 1)
            /\ rows[s].hash = Hash(s, rows[s].body, rows[s].prev)
        /\ \A w \in Writers :
            /\ txs[w].pc \in {"prev", "insert"} => txs[w].seq = LastSeq + 1
            /\ txs[w].pc = "insert" => txs[w].prev = HashOf(LastSeq)

(* A step that leaves the table alone.                                     *)
LEMMA UndamagedFrame ==
    ASSUME UndamagedInv, UNCHANGED <<rows, damage>>,
           \A w \in Writers :
                /\ txs'[w].pc \in {"prev", "insert"} =>
                        txs'[w].seq = LastSeq + 1
                        \/ (txs[w].pc \in {"prev", "insert"} /\ txs'[w].seq = txs[w].seq)
                /\ txs'[w].pc = "insert" =>
                        txs'[w].prev = HashOf(LastSeq)
                        \/ (txs[w].pc = "insert" /\ txs'[w].prev = txs[w].prev)
    PROVE  UndamagedInv'
<1>1. LastSeq' = LastSeq /\ \A s : HashOf(s)' = HashOf(s)
  BY DEF LastSeq, HashOf
<1> QED
  BY <1>1 DEF UndamagedInv

LEMMA UndamagedInsert ==
    ASSUME TypeOK, TypeOK', LockInv, UndamagedInv, NEW w \in Writers, Insert(w)
    PROVE  UndamagedInv'
<1> SUFFICES ASSUME damage = 0 PROVE UndamagedInv'
  BY DEF Insert, UndamagedInv
<1> DEFINE n == txs[w].seq
<1>0. MaxSeq \in Nat /\ LastSeq \in Nat
  BY AuditAssumption, LastSeqIs DEF TypeOK, Seqs
<1>1. /\ txs[w].pc = "insert" /\ n = LastSeq + 1 /\ n \in 1..MaxSeq
      /\ txs[w].prev = HashOf(LastSeq)
      /\ DOMAIN rows = 1..LastSeq
      /\ n \notin DOMAIN rows
  BY <1>0 DEF Insert, UndamagedInv
<1>2. /\ rows' = [s \in DOMAIN rows \cup {n} |-> IF s = n THEN Entry(w) ELSE rows[s]]
      /\ txs' = [txs EXCEPT ![w] = NoTx]
      /\ UNCHANGED damage
  BY <1>1 DEF Insert, End
<1>3. DOMAIN rows' = 1..n
  BY <1>0, <1>1, <1>2
<1>4. LastSeq' = n
  <2> HIDE DEF n
  <2>1. n \in {0} \cup DOMAIN rows' /\ \A s \in DOMAIN rows' : s <= n
    BY <1>1, <1>3
  <2>2. \A m \in {0} \cup DOMAIN rows' : (\A s \in DOMAIN rows' : s <= m) => m = n
    BY <1>1, <1>3
  <2> QED
    BY <2>1, <2>2 DEF LastSeq
<1>5. \A s \in 0..LastSeq : HashOf(s)' = HashOf(s)
  BY <1>0, <1>1, <1>2 DEF HashOf
<1>6. ASSUME NEW s \in DOMAIN rows'
      PROVE  /\ rows'[s].prev = HashOf(s - 1)'
             /\ rows'[s].hash = Hash(s, rows'[s].body, rows'[s].prev)
  <2>1. CASE s = n
    <3>1. rows'[s] = Entry(w)
      BY <1>2, <2>1
    <3>2. HashOf(s - 1)' = HashOf(LastSeq)
      BY <1>0, <1>1, <1>5, <2>1
    <3> QED
      BY <1>1, <2>1, <3>1, <3>2, EntryIs
  <2>2. CASE s # n
    <3>1. s \in DOMAIN rows /\ rows'[s] = rows[s] /\ s \in 1..LastSeq
      BY <1>1, <1>2, <2>2
    <3>2. HashOf(s - 1)' = HashOf(s - 1)
      BY <1>0, <1>5, <3>1
    <3> QED
      BY <3>1, <3>2 DEF UndamagedInv
  <2> QED
    BY <2>1, <2>2
<1>7. \A u \in Writers : txs'[u].pc \notin {"prev", "insert"}
  BY <1>1, <1>2 DEF LockInv, TypeOK, NoTx
<1> QED
  BY <1>3, <1>4, <1>6, <1>7 DEF UndamagedInv

LEMMA UndamagedNext ==
    TypeOK /\ TypeOK' /\ LockInv /\ UndamagedInv /\ [Next]_vars => UndamagedInv'
<1> SUFFICES ASSUME TypeOK, TypeOK', LockInv, UndamagedInv, [Next]_vars PROVE UndamagedInv'
  OBVIOUS
<1>1. CASE UNCHANGED vars
  BY <1>1, UndamagedFrame DEF vars
<1>2. ASSUME NEW w \in Writers, NEW b \in Bodies, Begin(w, b) PROVE UndamagedInv'
  BY <1>2, UndamagedFrame DEF Begin, TypeOK
<1>3. ASSUME NEW w \in Writers, Lock(w) \/ AppendFails(w) PROVE UndamagedInv'
  BY <1>3, UndamagedFrame DEF Lock, AppendFails, End, TypeOK, NoTx
<1>4. ASSUME NEW w \in Writers, ReadSeq(w) PROVE UndamagedInv'
  <2>1. /\ UNCHANGED <<rows, damage>>
        /\ txs'[w].pc = "prev" /\ txs'[w].seq = LastSeq + 1
        /\ \A u \in Writers \ {w} : txs'[u] = txs[u]
    BY <1>4 DEF ReadSeq, TypeOK
  <2>2. ASSUME NEW u \in Writers
        PROVE  /\ txs'[u].pc \in {"prev", "insert"} =>
                    txs'[u].seq = LastSeq + 1
                    \/ (txs[u].pc \in {"prev", "insert"} /\ txs'[u].seq = txs[u].seq)
               /\ txs'[u].pc = "insert" =>
                    txs'[u].prev = HashOf(LastSeq)
                    \/ (txs[u].pc = "insert" /\ txs'[u].prev = txs[u].prev)
    <3>1. CASE u = w
      BY <2>1, <3>1
    <3>2. CASE u # w
      BY <2>1, <3>2
    <3> QED
      BY <3>1, <3>2
  <2> QED
    BY <2>1, <2>2, UndamagedFrame
<1>5. ASSUME NEW w \in Writers, ReadPrev(w) PROVE UndamagedInv'
  <2>1. /\ UNCHANGED <<rows, damage>> /\ txs[w].pc = "prev"
        /\ txs'[w].seq = txs[w].seq /\ txs'[w].prev = HashOf(LastSeq)
        /\ \A u \in Writers \ {w} : txs'[u] = txs[u]
    BY <1>5 DEF ReadPrev, TypeOK
  <2>2. ASSUME NEW u \in Writers
        PROVE  /\ txs'[u].pc \in {"prev", "insert"} =>
                    txs'[u].seq = LastSeq + 1
                    \/ (txs[u].pc \in {"prev", "insert"} /\ txs'[u].seq = txs[u].seq)
               /\ txs'[u].pc = "insert" =>
                    txs'[u].prev = HashOf(LastSeq)
                    \/ (txs[u].pc = "insert" /\ txs'[u].prev = txs[u].prev)
    <3>1. CASE u = w
      BY <2>1, <3>1
    <3>2. CASE u # w
      BY <2>1, <3>2
    <3> QED
      BY <3>1, <3>2
  <2> QED
    BY <2>1, <2>2, UndamagedFrame
<1>6. ASSUME NEW w \in Writers, Insert(w) PROVE UndamagedInv'
  BY <1>6, UndamagedInsert
<1>7. CASE Damage
  <2>1. damage' # 0
    BY <1>7, AuditAssumption DEF Damage, TypeOK
  <2> QED
    BY <2>1 DEF UndamagedInv
<1> QED
  BY <1>1, <1>2, <1>3, <1>4, <1>5, <1>6, <1>7 DEF Next

LEMMA UndamagedInit == Init => UndamagedInv
<1> SUFFICES ASSUME Init PROVE UndamagedInv
  OBVIOUS
<1>1. DOMAIN rows = {} /\ LastSeq = 0
  <2>1. DOMAIN rows = {}
    BY DEF Init
  <2> QED
    BY <2>1 DEF LastSeq
<1> QED
  BY <1>1 DEF Init, UndamagedInv, NoTx

LEMMA UndamagedInvariance == Spec => [](TypeOK /\ LockInv /\ UndamagedInv)
BY TypeInvariance, UndamagedInit, UndamagedNext, PTL DEF Spec

(* An append that is about to insert extends the log as it then is,        *)
(* whatever other appends committed since it began.                        *)
THEOREM AppendsAlwaysExtend == Spec => []AppendsExtend
<1>1. UndamagedInv => AppendsExtend
  BY DEF UndamagedInv, AppendsExtend
<1> QED
  BY <1>1, UndamagedInvariance, PTL

(* A log nothing happened to verifies, and has no gap.                     *)
THEOREM UndamagedLogsVerify == Spec => []UndamagedVerifies
<1>1. TypeOK /\ UndamagedInv => UndamagedVerifies
  <2> SUFFICES ASSUME TypeOK, UndamagedInv, damage = 0, NEW s \in DOMAIN rows
               PROVE  /\ DOMAIN rows = 1..LastSeq
                      /\ rows[s].prev = HashOf(Before(s))
                      /\ rows[s].hash = Hash(s, rows[s].body, rows[s].prev)
    BY DEF UndamagedVerifies, Verifies, UndamagedInv
  <2>1. DOMAIN rows = 1..LastSeq /\ LastSeq \in Nat
    BY LastSeqIs, AuditAssumption DEF TypeOK, Seqs, UndamagedInv
  <2>2. s \in Seqs /\ s \in Nat
    BY AuditAssumption DEF TypeOK, Seqs
  <2>3. Before(s) = s - 1
    <3>1. /\ Before(s) \in {0} \cup DOMAIN rows /\ Before(s) < s
          /\ \A r \in DOMAIN rows : r < s => r <= Before(s)
      BY <2>2, BeforeIs DEF TypeOK
    <3>2. Before(s) \in Nat
      BY <2>1, <3>1
    <3>3. s = 1 \/ (s - 1 \in DOMAIN rows /\ s - 1 < s)
      BY <2>1, <2>2
    <3> QED
      BY <2>2, <3>1, <3>2, <3>3
  <2> QED
    BY <2>1, <2>3 DEF UndamagedInv
<1> QED
  BY <1>1, UndamagedInvariance, PTL

-----------------------------------------------------------------------------
(* What the history's hashes stand for.                                    *)

(* A hash that stands for something was computed over a link that does,    *)
(* and stands for the same and for its own entry.                          *)
Stands(h) ==
    \E s \in Seqs, b \in Bodies : \E p \in Appended :
        h = Hash(s, b, p) /\ past[h] = Past(p) \cup {<<s, b>>}

PastInv == \A h \in DOMAIN past : Stands(h)

LEMMA PastInsert ==
    ASSUME TypeOK, PastInv, NEW w \in Writers, Insert(w)
    PROVE  PastInv'
<1>t. PICK s, b, p : s = txs[w].seq /\ b = txs[w].body /\ p = txs[w].prev
  OBVIOUS
<1>h. PICK h : h = Hash(s, b, p)
  OBVIOUS
<1>1. s \in Seqs /\ b \in Bodies
  BY <1>t, AuditAssumption DEF Insert, TypeOK, NoTx, Seqs
<1>2. past' = past \/ past' = PastWith(s, b, p)
  BY <1>t DEF Insert
<1>3. CASE past' = past
  BY <1>3 DEF PastInv, Stands, Appended, Past
<1>4. CASE past' # past
  <2>1. /\ p \in Appended /\ h \notin DOMAIN past
        /\ DOMAIN past' = DOMAIN past \cup {h}
        /\ past'[h] = Past(p) \cup {<<s, b>>}
        /\ \A g \in DOMAIN past : past'[g] = past[g]
    BY <1>h, <1>2, <1>4, PastWithIs
  <2>2. \A q \in Appended : q \in Appended' /\ Past(q)' = Past(q)
    BY <2>1 DEF Appended, Past
  <2>3. Stands(h)'
    BY <1>h, <1>1, <2>1, <2>2 DEF Stands
  <2>4. ASSUME NEW g \in DOMAIN past PROVE Stands(g)'
    <3>1. PICK r \in Seqs, c \in Bodies, q \in Appended :
            g = Hash(r, c, q) /\ past[g] = Past(q) \cup {<<r, c>>}
      BY DEF PastInv, Stands
    <3>2. past'[g] = Past(q)' \cup {<<r, c>>} /\ q \in Appended'
      BY <2>1, <2>2, <3>1
    <3> QED
      BY <3>1, <3>2 DEF Stands
  <2> QED
    BY <2>1, <2>3, <2>4 DEF PastInv
<1> QED
  BY <1>3, <1>4

LEMMA PastInit == Init => PastInv
<1> SUFFICES ASSUME Init PROVE PastInv
  OBVIOUS
<1>1. DOMAIN past = {}
  BY DEF Init
<1> QED
  BY <1>1 DEF PastInv

LEMMA PastNext == TypeOK /\ PastInv /\ [Next]_vars => PastInv'
<1> SUFFICES ASSUME TypeOK, PastInv, [Next]_vars PROVE PastInv'
  OBVIOUS
<1>1. CASE UNCHANGED past
  BY <1>1 DEF PastInv, Stands, Appended, Past
<1>2. UNCHANGED past \/ \E w \in Writers : Insert(w)
  BY DEF Next, vars, Begin, Lock, ReadSeq, ReadPrev, AppendFails, Damage
<1> QED
  BY <1>1, <1>2, PastInsert

LEMMA PastInvariance == Spec => [](TypeOK /\ PastInv)
BY AuditTypeCorrect, PastInit, PastNext, PTL DEF Spec

(* In a log that verifies, an entry whose hash stands for something stands *)
(* for itself and what the hash of the entry before it stands for.         *)
LEMMA VerifiedEntry ==
    ASSUME TypeOK, PastInv, Verifies, NEW s \in DOMAIN rows, rows[s].hash \in DOMAIN past
    PROVE  /\ HashOf(Before(s)) \in Appended
           /\ past[rows[s].hash] = Past(HashOf(Before(s))) \cup {<<s, rows[s].body>>}
<1>t. PICK b, p, h : b = rows[s].body /\ p = HashOf(Before(s)) /\ h = rows[s].hash
  OBVIOUS
<1>1. h = Hash(s, b, p)
  BY <1>t DEF Verifies
<1>2. PICK r \in Seqs, c \in Bodies, q \in Appended :
        h = Hash(r, c, q) /\ past[h] = Past(q) \cup {<<r, c>>}
  BY <1>t DEF PastInv, Stands
<1>3. r = s /\ c = b /\ q = p
  <2>1. h[1] = s /\ h[2] = b /\ h[3] = p
    BY <1>1, HashesDiffer
  <2>2. h[1] = r /\ h[2] = c /\ h[3] = q
    BY <1>2, HashesDiffer
  <2> QED
    BY <2>1, <2>2
<1> QED
  BY <1>t, <1>2, <1>3

(* What the log says up to an entry is that entry and what it says up to   *)
(* the entry before.                                                       *)
LEMMA ContentStep ==
    ASSUME TypeOK, NEW s \in DOMAIN rows, NEW C,
           C = IF Before(s) = 0 THEN {} ELSE Content(Before(s))
    PROVE  Content(s) = C \cup {<<s, rows[s].body>>}
<1>t. PICK m : m = Before(s)
  OBVIOUS
<1>1. /\ m \in {0} \cup DOMAIN rows /\ m < s
      /\ \A r \in DOMAIN rows : r < s => r <= m
      /\ DOMAIN rows \subseteq Nat /\ \A r \in DOMAIN rows : 0 < r
  BY <1>t, BeforeIs, AuditAssumption DEF TypeOK, Seqs
<1>2. \A r \in DOMAIN rows : r <= s <=> r <= m \/ r = s
  BY <1>1
<1>3. C = {<<r, rows[r].body>> : r \in {q \in DOMAIN rows : q <= m}}
  <2>1. CASE m = 0
    <3>1. {q \in DOMAIN rows : q <= m} = {}
      BY <1>1, <2>1
    <3> QED
      BY <1>t, <2>1, <3>1
  <2>2. CASE m # 0
    BY <1>t, <2>2 DEF Content
  <2> QED
    BY <2>1, <2>2
<1>4. {q \in DOMAIN rows : q <= s} = {q \in DOMAIN rows : q <= m} \cup {s}
  BY <1>2
<1> QED
  BY <1>3, <1>4 DEF Content

(* In a log that verifies, an entry with a hash that an append computed    *)
(* vouches for what was appended up to it.                                 *)
THEOREM VerifiedLogsAreHistory == Spec => []VerifiedIsHistory
<1>1. TypeOK /\ PastInv => VerifiedIsHistory
  <2> DEFINE T == {s \in DOMAIN rows :
                    rows[s].hash \in DOMAIN past /\ Content(s) # past[rows[s].hash]}
  <2> SUFFICES ASSUME TypeOK, PastInv, Verifies, T # {}
               PROVE  FALSE
    BY DEF VerifiedIsHistory
  <2>1. T \in SUBSET Nat
    BY AuditAssumption DEF TypeOK, Seqs
  <2>2. \E s \in T : \A r \in T : s <= r
    <3> HIDE DEF T
    <3> QED
      BY <2>1, LeastExists
  <2>3. PICK s \in T : \A r \in T : s <= r
    BY <2>2
  <2>t. PICK m, h : m = Before(s) /\ h = rows[s].hash
    OBVIOUS
  <2>4. /\ s \in DOMAIN rows /\ s \in Nat /\ h \in DOMAIN past
        /\ m \in {0} \cup DOMAIN rows /\ m < s /\ m \in Nat
    <3>1. /\ s \in DOMAIN rows /\ DOMAIN rows \subseteq Seqs /\ h \in DOMAIN past
          /\ \A r \in DOMAIN rows : r \in Nat
      BY <2>3, <2>t, AuditAssumption DEF TypeOK, Seqs
    <3> HIDE DEF T
    <3>2. m \in {0} \cup DOMAIN rows /\ m < s
      BY <2>t, <3>1, BeforeIs
    <3>3. s \in Nat /\ m \in Nat
      BY <3>1, <3>2
    <3> QED
      BY <3>1, <3>2, <3>3
  <2>5. HashOf(m) \in Appended /\ past[h] = Past(HashOf(m)) \cup {<<s, rows[s].body>>}
    BY <2>t, <2>4, VerifiedEntry
  <2>6. Past(HashOf(m)) = IF m = 0 THEN {} ELSE Content(m)
    <3>1. CASE m = 0
      BY <3>1 DEF Past, HashOf
    <3>2. CASE m # 0
      <4>1. m \in DOMAIN rows /\ m \notin T
        <5>1. ~ (s <= m)
          BY <2>4
        <5> HIDE DEF T
        <5> QED
          BY <2>3, <2>4, <3>2, <5>1
      <4>2. HashOf(m) = rows[m].hash
        BY <3>2 DEF HashOf
      <4>3. rows[m].hash # Genesis
        BY <4>1, HashesDiffer DEF Verifies
      <4>4. rows[m].hash \in DOMAIN past
        BY <2>5, <4>2, <4>3 DEF Appended
      <4> QED
        BY <3>2, <4>1, <4>2, <4>3, <4>4 DEF Past
    <3> QED
      BY <3>1, <3>2
  <2>7. Content(s) = Past(HashOf(m)) \cup {<<s, rows[s].body>>}
    BY <2>t, <2>4, <2>6, ContentStep
  <2>8. Content(s) # past[h]
    BY <2>3, <2>t
  <2> QED
    BY <2>5, <2>7, <2>8
<1> QED
  BY <1>1, PastInvariance, PTL
=============================================================================
