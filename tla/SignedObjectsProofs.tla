------------------------ MODULE SignedObjectsProofs -------------------------
(***************************************************************************)
(* Proofs about CanonicalJSON and SignedObjects, for any characters and    *)
(* escapes that JSON can tell apart, documents nested to any bound, any    *)
(* blocks signed and any number of changes on the way.                     *)
(***************************************************************************)
EXTENDS SignedObjects, TLAPS, NaturalsInduction, WellFoundedInduction, FiniteSetTheorems,
        SequenceTheorems

-----------------------------------------------------------------------------
(* Induction, over a set of numbers.                                       *)
LEMMA LeastExists ==
    ASSUME NEW S \in SUBSET Nat, S # {}
    PROVE  \E m \in S : \A n \in S : m <= n
<1> DEFINE R == OpToRel(<, Nat)
<1>1. IsWellFoundedOn(R, Nat)
  BY NatLessThanWellFounded
<1>2. \E x \in S : \A y \in S : ~ (<<y, x>> \in R)
  <2> HIDE DEF R
  <2> QED
    BY <1>1, WFMin
<1>3. \A x, y \in Nat : y < x => <<y, x>> \in R
  BY DEF OpToRel
<1> HIDE DEF R
<1>4. PICK x \in S : \A y \in S : ~ (<<y, x>> \in R)
  BY <1>2
<1>5. ASSUME NEW y \in S PROVE x <= y
  <2>1. ~ (y < x)
    BY <1>3, <1>4
  <2>2. x \in Int /\ y \in Int
    OBVIOUS
  <2> QED
    BY <2>1, <2>2
<1> QED
  BY <1>5

LEMMA Induction ==
    ASSUME NEW S, 0 \in S, \A n \in Nat : n \in S => n + 1 \in S
    PROVE  \A n \in Nat : n \in S
<1> SUFFICES ASSUME NEW n \in Nat \ S PROVE FALSE
  OBVIOUS
<1>1. PICK m \in Nat \ S : \A k \in Nat \ S : m <= k
  BY LeastExists
<1>2. m # 0 /\ m - 1 \in Nat /\ m - 1 < m
  BY <1>1
<1>3. m - 1 \in S
  BY <1>1, <1>2
<1> QED
  BY <1>1, <1>2, <1>3

-----------------------------------------------------------------------------
(* The levels of nesting are as their definition says.                     *)
Above(Value) == Scalar \cup Array(Value) \cup Object(Value)

Tower(n, f) ==
    f[0] = Scalar /\ \A i \in 1..n : f[i] = Above(f[i - 1])

LEMMA TowerExists == \A n \in Nat : \E f : Tower(n, f)
<1> DEFINE S == {n \in Nat : \E f : Tower(n, f)}
<1>1. 0 \in S
  <2>1. Tower(0, [i \in {0} |-> Scalar])
    BY DEF Tower
  <2> QED
    BY <2>1
<1>2. ASSUME NEW n \in Nat, n \in S PROVE n + 1 \in S
  <2>1. PICK f : Tower(n, f)
    BY <1>2
  <2> DEFINE g == [i \in 0..(n + 1) |-> IF i = n + 1 THEN Above(f[n]) ELSE f[i]]
  <2>2. g[0] = Scalar
    BY <2>1 DEF Tower
  <2>3. ASSUME NEW i \in 1..(n + 1) PROVE g[i] = Above(g[i - 1])
    <3>1. CASE i = n + 1
      BY <3>1
    <3>2. CASE i # n + 1
      <4>1. i \in 1..n /\ g[i] = f[i] /\ g[i - 1] = f[i - 1]
        BY <3>2
      <4> QED
        BY <2>1, <4>1 DEF Tower
    <3> QED
      BY <3>1, <3>2
  <2>4. Tower(n + 1, g)
    <3> HIDE DEF g
    <3> QED
      BY <2>2, <2>3 DEF Tower
  <2> QED
    BY <2>4
<1> HIDE DEF S
<1>3. \A n \in Nat : n \in S
  BY <1>1, <1>2, Induction
<1> QED
  BY <1>3 DEF S

LEMMA TowerUnique ==
    ASSUME NEW m \in Nat, NEW n \in Nat, m <= n, NEW f, NEW g, Tower(m, f), Tower(n, g)
    PROVE  f[m] = g[m]
<1> DEFINE S == {i \in Nat : i <= m => f[i] = g[i]}
<1>1. 0 \in S
  BY DEF Tower
<1>2. ASSUME NEW i \in Nat, i \in S PROVE i + 1 \in S
  <2> SUFFICES ASSUME i + 1 <= m PROVE f[i + 1] = g[i + 1]
    OBVIOUS
  <2>1. f[i] = g[i]
    BY <1>2
  <2>2. i + 1 \in 1..m /\ i + 1 \in 1..n /\ (i + 1) - 1 = i
    OBVIOUS
  <2>3. f[i + 1] = Above(f[i]) /\ g[i + 1] = Above(g[i])
    BY <2>2 DEF Tower
  <2> QED
    BY <2>1, <2>3
<1> HIDE DEF S
<1>3. m \in S
  BY <1>1, <1>2, Induction
<1> QED
  BY <1>3 DEF S

LEMMA LevelDef ==
    Level = [n \in Nat |-> IF n = 0 THEN Scalar
                           ELSE Scalar \cup Array(Level[n - 1]) \cup Object(Level[n - 1])]
<1> DEFINE T(n) == CHOOSE f : Tower(n, f)
           L == [n \in Nat |-> T(n)[n]]
<1>1. \A n \in Nat : Tower(n, T(n))
  BY TowerExists
<1> HIDE DEF T
<1>2. ASSUME NEW n \in Nat
      PROVE  L[n] = IF n = 0 THEN Scalar
                    ELSE Scalar \cup Array(L[n - 1]) \cup Object(L[n - 1])
  <2>1. CASE n = 0
    BY <1>1, <2>1 DEF Tower
  <2>2. CASE n # 0
    <3>1. n - 1 \in Nat /\ n - 1 <= n /\ n \in 1..n
      BY <2>2
    <3>2. T(n)[n] = Above(T(n)[n - 1])
      BY <1>1, <3>1 DEF Tower
    <3>3. T(n - 1)[n - 1] = T(n)[n - 1]
      BY <1>1, <3>1, TowerUnique
    <3> QED
      BY <2>2, <3>1, <3>2, <3>3 DEF Above
  <2> QED
    BY <2>1, <2>2
<1>3. L = [n \in Nat |-> IF n = 0 THEN Scalar
                         ELSE Scalar \cup Array(L[n - 1]) \cup Object(L[n - 1])]
  <2>1. L = [n \in Nat |-> L[n]]
    OBVIOUS
  <2> HIDE DEF L
  <2> QED
    BY <1>2, <2>1
<1>4. \E g : g = [n \in Nat |-> IF n = 0 THEN Scalar
                         ELSE Scalar \cup Array(g[n - 1]) \cup Object(g[n - 1])]
  <2> HIDE DEF L
  <2> QED
    BY <1>3
<1> QED
  BY <1>4 DEF Level

LEMMA LevelIs ==
    /\ Level[0] = Scalar
    /\ \A n \in Nat : Level[n + 1] = Scalar \cup Array(Level[n]) \cup Object(Level[n])
<1>1. ASSUME NEW n \in Nat
      PROVE  Level[n + 1] = Scalar \cup Array(Level[n]) \cup Object(Level[n])
  <2>1. n + 1 \in Nat /\ n + 1 # 0 /\ (n + 1) - 1 = n
    OBVIOUS
  <2> QED
    BY <2>1, LevelDef
<1> QED
  BY <1>1, LevelDef

LEMMA AboveMonotone ==
    ASSUME NEW V, NEW W, V \subseteq W
    PROVE  Above(V) \subseteq Above(W)
<1>1. Array(V) \subseteq Array(W)
  <2>1. Seq(V) \subseteq Seq(W)
    BY SeqMonotonic
  <2> QED
    BY <2>1 DEF Array
<1>2. MemberOf(V) \subseteq MemberOf(W)
  BY DEF MemberOf
<1>3. Object(V) \subseteq Object(W)
  <2>1. Seq(MemberOf(V)) \subseteq Seq(MemberOf(W))
    BY <1>2, SeqMonotonic
  <2> QED
    BY <2>1 DEF Object
<1> QED
  BY <1>1, <1>3 DEF Above

LEMMA LevelsNested == \A n \in Nat : Level[n] \subseteq Level[n + 1]
<1> DEFINE S == {n \in Nat : Level[n] \subseteq Level[n + 1]}
<1>1. 0 \in S
  BY LevelIs
<1>2. ASSUME NEW n \in Nat, n \in S PROVE n + 1 \in S
  <2>1. Above(Level[n]) \subseteq Above(Level[n + 1])
    BY <1>2, AboveMonotone
  <2>2. Level[n + 1] = Above(Level[n]) /\ Level[(n + 1) + 1] = Above(Level[n + 1])
    BY LevelIs DEF Above
  <2> QED
    BY <2>1, <2>2
<1> HIDE DEF S
<1>3. \A n \in Nat : n \in S
  BY <1>1, <1>2, Induction
<1> QED
  BY <1>3 DEF S

(* What a document looks like, by its kind.                                *)
LEMMA Kinds ==
    ASSUME NEW v \in Scalar
    PROVE  /\ v[1] \in {"num", "str", "lit", "sig"}
           /\ v = <<v[1], v[2]>>
           /\ v[1] = "num" => v[2] \in DOMAIN IntegerValue \cup FloatingPoint
           /\ v[1] = "str" => v[2] \in Seq(Piece)
           /\ v[1] = "sig" => v[2] \in SigString
BY DEF Scalar, Plain

LEMMA Composite ==
    ASSUME NEW n \in Nat, NEW v \in Level[n + 1]
    PROVE  \/ v \in Scalar
           \/ v = <<"arr", v[2]>> /\ v[1] = "arr" /\ v[2] \in Seq(Level[n])
           \/ /\ v = <<"obj", v[2]>> /\ v[1] = "obj"
              /\ v[2] \in Seq(MemberOf(Level[n]))
<1>1. v \in Scalar \/ v \in Array(Level[n]) \/ v \in Object(Level[n])
  BY LevelIs
<1>2. ASSUME NEW V, NEW k, v \in {k} \X V PROVE v = <<k, v[2]>> /\ v[1] = k /\ v[2] \in V
  BY <1>2
<1>3. CASE v \in Array(Level[n])
  BY <1>2, <1>3 DEF Array
<1>4. CASE v \in Object(Level[n])
  BY <1>2, <1>4 DEF Object
<1> QED
  BY <1>1, <1>3, <1>4

-----------------------------------------------------------------------------
(* The canonical form is as its definition says.                           *)
CanonicalStep(f, v) ==
    IF v[1] = "arr" THEN canonicalizeArray([i \in DOMAIN v[2] |-> f[v[2][i]]])
    ELSE IF v[1] = "obj"
    THEN canonicalizeObject([i \in DOMAIN v[2] |-> v[2][i].key],
                            [i \in DOMAIN v[2] |-> f[v[2][i].val]])
    ELSE canonicalizeScalar(v)

LEMMA CanonicalStepLocal ==
    ASSUME NEW n \in Nat, NEW f, NEW g, \A c \in Level[n] : f[c] = g[c],
           NEW v \in Level[n + 1]
    PROVE  CanonicalStep(f, v) = CanonicalStep(g, v)
<1>1. CASE v \in Scalar
  <2>1. v[1] \notin {"arr", "obj"}
    BY <1>1, Kinds
  <2> QED
    BY <2>1 DEF CanonicalStep
<1>2. CASE v[1] = "arr" /\ v[2] \in Seq(Level[n])
  <2>1. [i \in DOMAIN v[2] |-> f[v[2][i]]] = [i \in DOMAIN v[2] |-> g[v[2][i]]]
    BY <1>2
  <2> QED
    BY <1>2, <2>1 DEF CanonicalStep
<1>3. CASE v[1] = "obj" /\ v[2] \in Seq(MemberOf(Level[n]))
  <2>1. \A i \in DOMAIN v[2] : v[2][i] \in MemberOf(Level[n])
    BY <1>3, ElementOfSeq
  <2>2. \A i \in DOMAIN v[2] : v[2][i].val \in Level[n]
    BY <2>1 DEF MemberOf
  <2>3. [i \in DOMAIN v[2] |-> f[v[2][i].val]] = [i \in DOMAIN v[2] |-> g[v[2][i].val]]
    BY <2>2
  <2> QED
    BY <1>3, <2>3 DEF CanonicalStep
<1> QED
  BY <1>1, <1>2, <1>3, Composite

LEMMA CanonicalSolution ==
    \A n \in Nat : \E f : \A v \in Level[n] : f[v] = CanonicalStep(f, v)
<1> DEFINE Solves(f, n) == \A v \in Level[n] : f[v] = CanonicalStep(f, v)
           S == {n \in Nat : \E f : Solves(f, n)}
<1>1. 0 \in S
  <2> DEFINE f == [v \in Scalar |-> CanonicalStep(<<>>, v)]
  <2>1. ASSUME NEW v \in Scalar PROVE f[v] = CanonicalStep(f, v)
    <3>1. v[1] \notin {"arr", "obj"}
      BY Kinds
    <3> QED
      BY <3>1 DEF CanonicalStep
  <2>2. Solves(f, 0)
    BY <2>1, LevelIs
  <2> QED
    BY <2>2
<1>2. ASSUME NEW n \in Nat, n \in S PROVE n + 1 \in S
  <2>1. PICK f : Solves(f, n)
    BY <1>2
  <2> DEFINE g == [v \in Level[n + 1] |-> CanonicalStep(f, v)]
  <2>2. \A c \in Level[n] : f[c] = g[c]
    BY <2>1, LevelsNested
  <2>3. ASSUME NEW v \in Level[n + 1] PROVE g[v] = CanonicalStep(g, v)
    <3>1. g[v] = CanonicalStep(f, v)
      OBVIOUS
    <3> HIDE DEF g
    <3> QED
      BY <2>2, <3>1, CanonicalStepLocal
  <2> HIDE DEF g
  <2>4. Solves(g, n + 1)
    BY <2>3
  <2> QED
    BY <2>4
<1> HIDE DEF S
<1>3. \A n \in Nat : n \in S
  BY <1>1, <1>2, Induction
<1> QED
  BY <1>3 DEF S

LEMMA DocumentLevel ==
    /\ MaxNesting \in Nat /\ MaxNesting - 1 \in Nat
    /\ Document = Level[MaxNesting] /\ Document = Level[(MaxNesting - 1) + 1]
    /\ Level[MaxNesting - 1] \subseteq Document
<1>1. MaxNesting \in Nat /\ MaxNesting - 1 \in Nat /\ (MaxNesting - 1) + 1 = MaxNesting
  BY NumberAssumption
<1> QED
  BY <1>1, LevelsNested DEF Document

LEMMA CanonicalDef == \A v \in Document : canonicalizeToken[v] = CanonicalStep(canonicalizeToken, v)
<1>1. PICK f : \A v \in Document : f[v] = CanonicalStep(f, v)
  BY CanonicalSolution, DocumentLevel
<1> DEFINE g == [v \in Document |-> f[v]]
<1>2. \A v \in Document : g[v] = CanonicalStep(g, v)
  <2>1. \A c \in Level[MaxNesting - 1] : f[c] = g[c]
    BY DocumentLevel
  <2>2. \A v \in Document : CanonicalStep(f, v) = CanonicalStep(g, v)
    <3> HIDE DEF g
    <3> QED
      BY <2>1, CanonicalStepLocal, DocumentLevel
  <2> QED
    BY <1>1, <2>2
<1>3. g = [v \in Document |-> CanonicalStep(g, v)]
  <2>1. g = [v \in Document |-> g[v]]
    OBVIOUS
  <2> HIDE DEF g
  <2> QED
    BY <1>2, <2>1
<1>4. \E h : h = [v \in Document |-> CanonicalStep(h, v)]
  <2> HIDE DEF g
  <2> QED
    BY <1>3
<1>5. canonicalizeToken = CHOOSE h : h = [v \in Document |-> CanonicalStep(h, v)]
  BY Zenon DEF canonicalizeToken, CanonicalStep
<1>6. canonicalizeToken = [v \in Document |-> CanonicalStep(canonicalizeToken, v)]
  BY <1>4, <1>5
<1> QED
  BY <1>6

-----------------------------------------------------------------------------
(* So is the meaning.                                                      *)
MeaningStep(f, v) ==
    IF v[1] = "arr" THEN ArrayMeaning([i \in DOMAIN v[2] |-> f[v[2][i]]])
    ELSE IF v[1] = "obj"
    THEN ObjectMeaning([i \in DOMAIN v[2] |-> v[2][i].key],
                       [i \in DOMAIN v[2] |-> f[v[2][i].val]])
    ELSE ScalarMeaning(v)

LEMMA MeaningStepLocal ==
    ASSUME NEW n \in Nat, NEW f, NEW g, \A c \in Level[n] : f[c] = g[c],
           NEW v \in Level[n + 1]
    PROVE  MeaningStep(f, v) = MeaningStep(g, v)
<1>1. CASE v \in Scalar
  <2>1. v[1] \notin {"arr", "obj"}
    BY <1>1, Kinds
  <2> QED
    BY <2>1 DEF MeaningStep
<1>2. CASE v[1] = "arr" /\ v[2] \in Seq(Level[n])
  <2>1. [i \in DOMAIN v[2] |-> f[v[2][i]]] = [i \in DOMAIN v[2] |-> g[v[2][i]]]
    BY <1>2
  <2> QED
    BY <1>2, <2>1 DEF MeaningStep
<1>3. CASE v[1] = "obj" /\ v[2] \in Seq(MemberOf(Level[n]))
  <2>1. \A i \in DOMAIN v[2] : v[2][i] \in MemberOf(Level[n])
    BY <1>3, ElementOfSeq
  <2>2. \A i \in DOMAIN v[2] : v[2][i].val \in Level[n]
    BY <2>1 DEF MemberOf
  <2>3. [i \in DOMAIN v[2] |-> f[v[2][i].val]] = [i \in DOMAIN v[2] |-> g[v[2][i].val]]
    BY <2>2
  <2> QED
    BY <1>3, <2>3 DEF MeaningStep
<1> QED
  BY <1>1, <1>2, <1>3, Composite

LEMMA MeaningSolution ==
    \A n \in Nat : \E f : \A v \in Level[n] : f[v] = MeaningStep(f, v)
<1> DEFINE Solves(f, n) == \A v \in Level[n] : f[v] = MeaningStep(f, v)
           S == {n \in Nat : \E f : Solves(f, n)}
<1>1. 0 \in S
  <2> DEFINE f == [v \in Scalar |-> MeaningStep(<<>>, v)]
  <2>1. ASSUME NEW v \in Scalar PROVE f[v] = MeaningStep(f, v)
    <3>1. v[1] \notin {"arr", "obj"}
      BY Kinds
    <3> QED
      BY <3>1 DEF MeaningStep
  <2>2. Solves(f, 0)
    BY <2>1, LevelIs
  <2> QED
    BY <2>2
<1>2. ASSUME NEW n \in Nat, n \in S PROVE n + 1 \in S
  <2>1. PICK f : Solves(f, n)
    BY <1>2
  <2> DEFINE g == [v \in Level[n + 1] |-> MeaningStep(f, v)]
  <2>2. \A c \in Level[n] : f[c] = g[c]
    BY <2>1, LevelsNested
  <2>3. ASSUME NEW v \in Level[n + 1] PROVE g[v] = MeaningStep(g, v)
    <3>1. g[v] = MeaningStep(f, v)
      OBVIOUS
    <3> HIDE DEF g
    <3> QED
      BY <2>2, <3>1, MeaningStepLocal
  <2> HIDE DEF g
  <2>4. Solves(g, n + 1)
    BY <2>3
  <2> QED
    BY <2>4
<1> HIDE DEF S
<1>3. \A n \in Nat : n \in S
  BY <1>1, <1>2, Induction
<1> QED
  BY <1>3 DEF S

LEMMA MeaningDef == \A v \in Document : Meaning[v] = MeaningStep(Meaning, v)
<1>1. PICK f : \A v \in Document : f[v] = MeaningStep(f, v)
  BY MeaningSolution, DocumentLevel
<1> DEFINE g == [v \in Document |-> f[v]]
<1>2. \A v \in Document : g[v] = MeaningStep(g, v)
  <2>1. \A c \in Level[MaxNesting - 1] : f[c] = g[c]
    BY DocumentLevel
  <2>2. \A v \in Document : MeaningStep(f, v) = MeaningStep(g, v)
    <3> HIDE DEF g
    <3> QED
      BY <2>1, MeaningStepLocal, DocumentLevel
  <2> QED
    BY <1>1, <2>2
<1>3. g = [v \in Document |-> MeaningStep(g, v)]
  <2>1. g = [v \in Document |-> g[v]]
    OBVIOUS
  <2> HIDE DEF g
  <2> QED
    BY <1>2, <2>1
<1>4. \E h : h = [v \in Document |-> MeaningStep(h, v)]
  <2> HIDE DEF g
  <2> QED
    BY <1>3
<1>5. Meaning = CHOOSE h : h = [v \in Document |-> MeaningStep(h, v)]
  BY Zenon DEF Meaning, MeaningStep
<1>6. Meaning = [v \in Document |-> MeaningStep(Meaning, v)]
  BY <1>4, <1>5
<1> QED
  BY <1>6

-----------------------------------------------------------------------------
(* Pieces, and the strings they spell.                                     *)
LEMMA RawFacts == \A c \in DOMAIN Raw : Raw[c] \in Nat /\ 32 <= Raw[c] /\ Raw[c] \notin Mandatory
BY CodingAssumption

LEMMA ShortFacts == \A c \in DOMAIN Short : Short[c] \in Nat /\ Short[c] < 128
BY CodingAssumption

LEMMA hex4Facts == \A digits \in DOMAIN hex4 : hex4[digits] \in Nat
BY CodingAssumption

LEMMA SymbolFacts == "\\" \notin DOMAIN Raw /\ "u" \notin DOMAIN Short
BY CodingAssumption

LEMMA Writable ==
    \A unit \in Units \ Mandatory :
        /\ unit < 32 => \E digits \in DOMAIN hex4 : hex4[digits] = unit
        /\ unit >= 32 => \E c \in DOMAIN Raw : Raw[c] = unit
BY CodingAssumption

LEMMA UnitOf ==
    /\ \A c \in DOMAIN Raw : Unit(Literal(c)) = Raw[c] /\ Len(Literal(c)) = 1 /\ Literal(c) \in Piece
    /\ \A c \in DOMAIN Short : Unit(Escape(c)) = Short[c] /\ Len(Escape(c)) = 2 /\ Escape(c) \in Piece
    /\ \A d \in DOMAIN hex4 : Unit(UEscape(d)) = hex4[d] /\ Len(UEscape(d)) = 3 /\ UEscape(d) \in Piece
<1>1. ASSUME NEW c \in DOMAIN Raw PROVE Unit(Literal(c)) = Raw[c] /\ Len(Literal(c)) = 1
  BY DEF Unit, Literal
<1>2. ASSUME NEW c \in DOMAIN Short PROVE Unit(Escape(c)) = Short[c] /\ Len(Escape(c)) = 2
  BY DEF Unit, Escape
<1>3. ASSUME NEW d \in DOMAIN hex4 PROVE Unit(UEscape(d)) = hex4[d] /\ Len(UEscape(d)) = 3
  BY DEF Unit, UEscape
<1> QED
  BY <1>1, <1>2, <1>3 DEF Piece

LEMMA PieceShape ==
    ASSUME NEW p \in Piece
    PROVE  \/ Len(p) = 1 /\ p = Literal(p[1]) /\ p[1] \in DOMAIN Raw /\ Unit(p) = Raw[p[1]]
           \/ Len(p) = 2 /\ p = Escape(p[2]) /\ p[2] \in DOMAIN Short /\ Unit(p) = Short[p[2]]
           \/ Len(p) = 3 /\ p = UEscape(p[3]) /\ p[3] \in DOMAIN hex4 /\ Unit(p) = hex4[p[3]]
<1>1. ASSUME NEW c \in DOMAIN Raw, p = Literal(c)
      PROVE  Len(p) = 1 /\ p = Literal(p[1]) /\ p[1] \in DOMAIN Raw /\ Unit(p) = Raw[p[1]]
  <2>1. p[1] = c
    BY <1>1 DEF Literal
  <2> QED
    BY <1>1, <2>1, UnitOf
<1>2. ASSUME NEW c \in DOMAIN Short, p = Escape(c)
      PROVE  Len(p) = 2 /\ p = Escape(p[2]) /\ p[2] \in DOMAIN Short /\ Unit(p) = Short[p[2]]
  <2>1. p[2] = c
    BY <1>2 DEF Escape
  <2> QED
    BY <1>2, <2>1, UnitOf
<1>3. ASSUME NEW d \in DOMAIN hex4, p = UEscape(d)
      PROVE  Len(p) = 3 /\ p = UEscape(p[3]) /\ p[3] \in DOMAIN hex4 /\ Unit(p) = hex4[p[3]]
  <2>1. p[3] = d
    BY <1>3 DEF UEscape
  <2> QED
    BY <1>3, <2>1, UnitOf
<1>4. \/ \E c \in DOMAIN Raw : p = Literal(c)
      \/ \E c \in DOMAIN Short : p = Escape(c)
      \/ \E d \in DOMAIN hex4 : p = UEscape(d)
  BY DEF Piece
<1> QED
  BY <1>1, <1>2, <1>3, <1>4

LEMMA UnitTypes ==
    /\ \A p \in Piece : Unit(p) \in Units
    /\ \A unit \in Units : unit \in Nat
<1>1. ASSUME NEW p \in Piece PROVE Unit(p) \in Nat
  BY RawFacts, ShortFacts, hex4Facts, PieceShape
<1>2. Replacement \in Nat
  BY DEF Replacement
<1> QED
  BY <1>1, <1>2 DEF Units

(* One piece as writeString writes it.                                     *)
Spelling(u) ==
    IF u \in Mandatory
    THEN Escape(CHOOSE c \in DOMAIN Short \ {"/"} : Short[c] = u)
    ELSE IF u < 32 THEN UEscape(CHOOSE d \in DOMAIN hex4 : hex4[d] = u)
    ELSE Literal(CHOOSE c \in DOMAIN Raw : Raw[c] = u)

LEMMA SpellingSpells ==
    ASSUME NEW u \in Units
    PROVE  /\ Spelling(u) \in Piece /\ Unit(Spelling(u)) = u
           /\ IsSurrogate(u) => Len(Spelling(u)) = 1
<1>1. CASE u \in Mandatory
  <2>1. \E c \in DOMAIN Short \ {"/"} : Short[c] = u
    BY <1>1 DEF Mandatory
  <2>2. PICK c \in DOMAIN Short : Spelling(u) = Escape(c) /\ Short[c] = u
    BY <1>1, <2>1 DEF Spelling
  <2>3. u \in Nat /\ u < 128
    BY <2>2, ShortFacts
  <2>4. ~IsSurrogate(u)
    BY <2>3 DEF IsSurrogate, IsHigh, IsLow
  <2> QED
    BY <2>2, <2>4, UnitOf
<1>2. CASE u \notin Mandatory /\ u < 32
  <2>1. \E d \in DOMAIN hex4 : hex4[d] = u
    BY <1>2, Writable
  <2>2. PICK d \in DOMAIN hex4 : Spelling(u) = UEscape(d) /\ hex4[d] = u
    BY <1>2, <2>1 DEF Spelling
  <2>3. u \in Nat
    BY UnitTypes
  <2>4. ~IsSurrogate(u)
    BY <1>2, <2>3 DEF IsSurrogate, IsHigh, IsLow
  <2> QED
    BY <2>2, <2>4, UnitOf
<1>3. CASE u \notin Mandatory /\ ~(u < 32)
  <2>1. u \in Nat
    BY UnitTypes
  <2>2. u >= 32
    BY <1>3, <2>1
  <2>3. \E c \in DOMAIN Raw : Raw[c] = u
    BY <1>3, <2>2, Writable
  <2>4. PICK c \in DOMAIN Raw : Spelling(u) = Literal(c) /\ Raw[c] = u
    BY <1>3, <2>3 DEF Spelling
  <2> QED
    BY <2>4, UnitOf
<1> QED
  BY <1>1, <1>2, <1>3

LEMMA WrittenString ==
    ASSUME NEW s \in Seq(Units)
    PROVE  /\ writeString(s) = [i \in 1..Len(s) |-> Spelling(s[i])]
           /\ writeString(s) \in Seq(Piece) /\ Len(writeString(s)) = Len(s)
           /\ Named(writeString(s)) = s
<1>1. writeString(s) = [i \in 1..Len(s) |-> Spelling(s[i])]
  BY DEF writeString, Spelling
<1>2. \A i \in 1..Len(s) : s[i] \in Units
  OBVIOUS
<1>3. \A i \in 1..Len(s) : Spelling(s[i]) \in Piece /\ Unit(Spelling(s[i])) = s[i]
  BY <1>2, SpellingSpells
<1>4. writeString(s) \in Seq(Piece) /\ Len(writeString(s)) = Len(s)
  BY <1>1, <1>3
<1>5. Named(writeString(s)) = [i \in 1..Len(s) |-> s[i]]
  BY <1>1, <1>3, <1>4 DEF Named
<1> QED
  BY <1>1, <1>4, <1>5

(* Strings that stand for text stand for it however they are spelled.      *)
LEMMA NamedTypes ==
    ASSUME NEW s \in Seq(Piece)
    PROVE  /\ Named(s) = [i \in 1..Len(s) |-> Unit(s[i])]
           /\ Named(s) \in Seq(Units) /\ Len(Named(s)) = Len(s)
           /\ Decode(s) \in Seq(Units) /\ Len(Decode(s)) = Len(s)
<1>1. \A i \in 1..Len(s) : Unit(s[i]) \in Units
  BY UnitTypes
<1>2. Named(s) = [i \in 1..Len(s) |-> Unit(s[i])]
  BY DEF Named
<1>3. Decode(s) = [i \in 1..Len(s) |-> IF Alone(s, i) THEN Replacement ELSE Unit(s[i])]
  BY DEF Decode
<1>4. Replacement \in Units
  BY DEF Units
<1> QED
  BY <1>1, <1>2, <1>3, <1>4

LEMMA WellFormedDecodes ==
    ASSUME NEW s \in Seq(Piece), WellFormed(s)
    PROVE  Decode(s) = Named(s)
BY DEF WellFormed, Decode, Named

LEMMA RewrittenWellFormed ==
    ASSUME NEW s \in Seq(Piece), WellFormed(s)
    PROVE  WellFormed(writeString(Named(s)))
<1>1. PICK w : w = writeString(Named(s))
  OBVIOUS
<1>2. w \in Seq(Piece) /\ Len(w) = Len(s)
  BY <1>1, NamedTypes, WrittenString
<1>3. \A i \in 1..Len(s) : w[i] = Spelling(Unit(s[i]))
  BY <1>1, NamedTypes, WrittenString
<1>4. \A i \in 1..Len(s) :
        Unit(w[i]) = Unit(s[i]) /\ (IsSurrogate(Unit(s[i])) => Len(w[i]) = 1)
  <2>1. \A i \in 1..Len(s) : Unit(s[i]) \in Units
    BY UnitTypes
  <2> QED
    BY <1>3, <2>1, SpellingSpells
<1>5. ASSUME NEW i \in 1..Len(s), Alone(w, i) PROVE FALSE
  <2>1. ~Alone(s, i)
    BY DEF WellFormed
  <2>2. IsSurrogate(Unit(s[i]))
    BY <1>4, <1>5 DEF Alone
  <2>3. PICK j \in {i, i - 1} :
          /\ {j, j + 1} \subseteq DOMAIN s
          /\ IsHigh(Unit(s[j])) /\ IsLow(Unit(s[j + 1]))
    BY <2>1, <2>2 DEF Alone
  <2>4. j \in 1..Len(s) /\ j + 1 \in 1..Len(s)
    BY <2>3
  <2>5. /\ {j, j + 1} \subseteq DOMAIN w /\ Len(w[j]) = Len(w[j + 1])
        /\ IsHigh(Unit(w[j])) /\ IsLow(Unit(w[j + 1]))
    BY <1>2, <1>4, <2>3, <2>4 DEF IsSurrogate
  <2> QED
    BY <1>5, <2>3, <2>5 DEF Alone
<1> QED
  BY <1>1, <1>2, <1>5 DEF WellFormed

-----------------------------------------------------------------------------
(* Where the pieces of a string begin in its text.                         *)
Symbol == DOMAIN Raw \cup DOMAIN Short \cup DOMAIN hex4 \cup {"\\", "u"}

LEMMA PieceText == Piece \subseteq Seq(Symbol)
<1>1. ASSUME NEW c \in DOMAIN Raw PROVE Literal(c) \in Seq(Symbol)
  BY DEF Literal, Symbol
<1>2. ASSUME NEW c \in DOMAIN Short PROVE Escape(c) \in Seq(Symbol)
  BY DEF Escape, Symbol
<1>3. ASSUME NEW d \in DOMAIN hex4 PROVE UEscape(d) \in Seq(Symbol)
  BY DEF UEscape, Symbol
<1> QED
  BY <1>1, <1>2, <1>3 DEF Piece

(* The text of the first k pieces is T[k].                                 *)
Flattening(s, n, T) ==
    T[0] = <<>> /\ \A k \in 1..n : T[k] = T[k - 1] \o s[k]

LEMMA FlatteningExists ==
    ASSUME NEW s \in Seq(Piece)
    PROVE  \A n \in Nat : \E T : Flattening(s, n, T)
<1> DEFINE S == {n \in Nat : \E T : Flattening(s, n, T)}
<1>1. 0 \in S
  <2>1. Flattening(s, 0, [k \in {0} |-> <<>>])
    BY DEF Flattening
  <2> QED
    BY <2>1
<1>2. ASSUME NEW n \in Nat, n \in S PROVE n + 1 \in S
  <2>1. PICK T : Flattening(s, n, T)
    BY <1>2
  <2> DEFINE U == [k \in 0..(n + 1) |-> IF k = n + 1 THEN T[n] \o s[n + 1] ELSE T[k]]
  <2>2. U[0] = <<>>
    BY <2>1 DEF Flattening
  <2>3. ASSUME NEW k \in 1..(n + 1) PROVE U[k] = U[k - 1] \o s[k]
    <3>1. CASE k = n + 1
      BY <3>1
    <3>2. CASE k # n + 1
      <4>1. k \in 1..n /\ U[k] = T[k] /\ U[k - 1] = T[k - 1]
        BY <3>2
      <4> QED
        BY <2>1, <4>1 DEF Flattening
    <3> QED
      BY <3>1, <3>2
  <2>4. Flattening(s, n + 1, U)
    <3> HIDE DEF U
    <3> QED
      BY <2>2, <2>3 DEF Flattening
  <2> QED
    BY <2>4
<1> HIDE DEF S
<1>3. \A n \in Nat : n \in S
  BY <1>1, <1>2, Induction
<1> QED
  BY <1>3 DEF S

LEMMA FlatteningText ==
    ASSUME NEW s \in Seq(Piece), NEW T, Flattening(s, Len(s), T)
    PROVE  \A k \in 0..Len(s) : T[k] \in Seq(Symbol)
<1> DEFINE S == {k \in Nat : k <= Len(s) => T[k] \in Seq(Symbol)}
<1>1. 0 \in S
  BY EmptySeq DEF Flattening
<1>2. ASSUME NEW k \in Nat, k \in S PROVE k + 1 \in S
  <2> SUFFICES ASSUME k + 1 <= Len(s) PROVE T[k + 1] \in Seq(Symbol)
    OBVIOUS
  <2>1. T[k] \in Seq(Symbol)
    BY <1>2
  <2>2. k + 1 \in 1..Len(s) /\ (k + 1) - 1 = k
    OBVIOUS
  <2>3. s[k + 1] \in Seq(Symbol)
    BY <2>2, PieceText
  <2>4. T[k + 1] = T[k] \o s[k + 1]
    BY <2>2 DEF Flattening
  <2> QED
    BY <2>1, <2>3, <2>4, ConcatProperties
<1> HIDE DEF S
<1>3. \A k \in Nat : k \in S
  BY <1>1, <1>2, Induction
<1> QED
  BY <1>3 DEF S

LEMMA FlattenSeqIs ==
    ASSUME NEW s \in Seq(Piece)
    PROVE  \E T : Flattening(s, Len(s), T) /\ FlattenSeq(s) = T[Len(s)]
<1>0. PICK n : n = Len(s) /\ n \in Nat
  OBVIOUS
<1>1. CASE n = 0
  <2>1. s = <<>>
    BY <1>0, <1>1, EmptySeq
  <2>2. Flattening(s, Len(s), [k \in {0} |-> <<>>])
    BY <1>0, <1>1 DEF Flattening
  <2>3. FlattenSeq(s) = <<>>
    BY <1>0, <1>1, <2>1 DEF FlattenSeq
  <2> QED
    BY <1>0, <1>1, <2>2, <2>3
<1>2. CASE n # 0
  <2> DEFINE Solves(f) == f = [k \in 1..n |-> IF k = 1 THEN s[k] ELSE f[k - 1] \o s[k]]
  <2>1. FlattenSeq(s) = (CHOOSE f : Solves(f))[n]
    BY <1>0, <1>2, Zenon DEF FlattenSeq
  <2>2. \E f : Solves(f)
    <3>1. PICK T : Flattening(s, n, T)
      BY <1>0, FlatteningExists
    <3>2. \A k \in 0..n : T[k] \in Seq(Symbol)
      BY <1>0, <3>1, FlatteningText
    <3> DEFINE f == [k \in 1..n |-> T[k]]
    <3>3. ASSUME NEW k \in 1..n PROVE f[k] = IF k = 1 THEN s[k] ELSE f[k - 1] \o s[k]
      <4>1. T[k] = T[k - 1] \o s[k]
        BY <3>1 DEF Flattening
      <4>2. s[k] \in Seq(Symbol)
        BY <1>0, PieceText
      <4>3. CASE k = 1
        <5>1. T[k - 1] = <<>>
          BY <3>1, <4>3 DEF Flattening
        <5>2. <<>> \o s[k] = s[k]
          BY <4>2, ConcatEmptySeq
        <5> QED
          BY <4>1, <4>3, <5>1, <5>2
      <4>4. CASE k # 1
        <5>1. k - 1 \in 1..n
          BY <1>0, <4>4
        <5> QED
          BY <4>1, <4>4, <5>1
      <4> QED
        BY <4>3, <4>4
    <3>4. f = [k \in 1..n |-> f[k]]
      OBVIOUS
    <3> HIDE DEF f
    <3>5. Solves(f)
      BY <3>3, <3>4
    <3> QED
      BY <3>5
  <2>3. PICK f : f = (CHOOSE g : Solves(g))
    OBVIOUS
  <2>4. Solves(f)
    BY <2>2, <2>3
  <2>5. \A k \in 1..n : f[k] = IF k = 1 THEN s[k] ELSE f[k - 1] \o s[k]
    BY <2>4
  <2> HIDE DEF Solves
  <2> DEFINE T == [k \in 0..n |-> IF k = 0 THEN <<>> ELSE f[k]]
  <2>6. ASSUME NEW k \in 1..n PROVE T[k] = T[k - 1] \o s[k]
    <3>1. CASE k = 1
      <4>1. s[k] \in Seq(Symbol)
        BY <1>0, PieceText
      <4>2. <<>> \o s[k] = s[k]
        BY <4>1, ConcatEmptySeq
      <4> QED
        <5>1. T[k] = s[k]
          BY <1>0, <2>5, <3>1
        <5>2. T[k - 1] = <<>>
          BY <1>0, <3>1
        <5> HIDE DEF T
        <5> QED
          BY <4>2, <5>1, <5>2
    <3>2. CASE k # 1
      <4>1. k - 1 \in 1..n
        BY <1>0, <3>2
      <4> QED
        BY <1>0, <2>5, <3>2, <4>1
    <3> QED
      BY <3>1, <3>2
  <2>7. T[0] = <<>> /\ T[n] = f[n]
    BY <1>0, <1>2
  <2> HIDE DEF T
  <2>8. Flattening(s, n, T)
    BY <2>6, <2>7 DEF Flattening
  <2> QED
    BY <1>0, <2>1, <2>3, <2>7, <2>8
<1> QED
  BY <1>1, <1>2

LEMMA Concatenated ==
    ASSUME NEW a \in Seq(Symbol), NEW b \in Seq(Symbol)
    PROVE  /\ Len(a \o b) = Len(a) + Len(b) /\ Len(a) <= Len(a \o b)
           /\ \A i \in 1..Len(a) : (a \o b)[i] = a[i]
           /\ \A i \in 1..(Len(a) + Len(b)) :
                (a \o b)[i] = IF i <= Len(a) THEN a[i] ELSE b[i - Len(a)]
<1>1. Len(a \o b) = Len(a) + Len(b)
  BY ConcatProperties
<1>2. \A i \in 1..(Len(a) + Len(b)) : (a \o b)[i] = IF i <= Len(a) THEN a[i] ELSE b[i - Len(a)]
  BY ConcatProperties
<1>3. Len(a) \in Nat /\ Len(b) \in Nat
  OBVIOUS
<1>4. \A i \in 1..Len(a) : i \in 1..(Len(a) + Len(b)) /\ i <= Len(a)
  BY <1>3
<1> QED
  BY <1>1, <1>2, <1>3, <1>4

LEMMA FlatteningPrefix ==
    ASSUME NEW s \in Seq(Piece), NEW T, Flattening(s, Len(s), T), NEW k \in 0..Len(s)
    PROVE  \A n \in k..Len(s) :
            Len(T[k]) <= Len(T[n]) /\ \A j \in 1..Len(T[k]) : T[n][j] = T[k][j]
<1> DEFINE Extends(n) == Len(T[k]) <= Len(T[n]) /\ \A j \in 1..Len(T[k]) : T[n][j] = T[k][j]
           S == {n \in Nat : n \in k..Len(s) => Extends(n)}
<1>0. \A n \in 0..Len(s) : T[n] \in Seq(Symbol) /\ Len(T[n]) \in Nat
  BY FlatteningText
<1>1. 0 \in S
  <2>1. Extends(k)
    BY <1>0
  <2> QED
    BY <2>1
<1>2. ASSUME NEW n \in Nat, n \in S PROVE n + 1 \in S
  <2> SUFFICES ASSUME n + 1 \in k..Len(s) PROVE Extends(n + 1)
    OBVIOUS
  <2>1. CASE n + 1 = k
    <3>1. Extends(k)
      BY <1>0
    <3> QED
      BY <2>1, <3>1
  <2>2. CASE n + 1 # k
    <3>1. n \in k..Len(s) /\ n + 1 \in 1..Len(s) /\ (n + 1) - 1 = n
      BY <2>2
    <3>2. Extends(n)
      BY <1>2, <3>1
    <3>3. T[n + 1] = T[n] \o s[n + 1]
      BY <3>1 DEF Flattening
    <3>4. T[n] \in Seq(Symbol) /\ s[n + 1] \in Seq(Symbol)
      BY <1>0, <3>1, PieceText
    <3>5. Len(T[n]) <= Len(T[n + 1]) /\ \A j \in 1..Len(T[n]) : T[n + 1][j] = T[n][j]
      <4>1. PICK a \in Seq(Symbol) : a = T[n]
        BY <3>4
      <4>2. PICK b \in Seq(Symbol) : b = s[n + 1]
        BY <3>4
      <4>3. Len(a) <= Len(a \o b) /\ \A i \in 1..Len(a) : (a \o b)[i] = a[i]
        BY Concatenated
      <4>4. T[n + 1] = a \o b
        BY <3>3, <4>1, <4>2
      <4> QED
        BY <4>1, <4>3, <4>4
    <3>6. Len(T[k]) \in Nat /\ Len(T[n]) \in Nat /\ Len(T[n + 1]) \in Nat
      BY <1>0, <3>1
    <3>7. \A j \in 1..Len(T[k]) : j \in 1..Len(T[n])
      BY <3>2, <3>6
    <3> QED
      BY <3>2, <3>5, <3>6, <3>7
  <2> QED
    BY <2>1, <2>2
<1> HIDE DEF S
<1>3. \A n \in Nat : n \in S
  BY <1>1, <1>2, Induction
<1> QED
  BY <1>3 DEF S

(* The text of a string: where each piece begins, and what is there.       *)
Begins(s, t, off) ==
    /\ off[1] = 1 /\ off[Len(s) + 1] = Len(t) + 1
    /\ \A k \in 1..(Len(s) + 1) : off[k] \in Nat \ {0} /\ off[k] <= Len(t) + 1
    /\ \A k \in 1..Len(s) :
        /\ off[k + 1] = off[k] + Len(s[k])
        /\ \A j \in 1..Len(s[k]) : t[off[k] + j - 1] = s[k][j]

LEMMA TextOf ==
    ASSUME NEW s \in Seq(Piece)
    PROVE  /\ FlattenSeq(s) \in Seq(Symbol)
           /\ \E off : Begins(s, FlattenSeq(s), off)
<1>1. PICK T : Flattening(s, Len(s), T) /\ FlattenSeq(s) = T[Len(s)]
  BY FlattenSeqIs
<1>2. PICK t : t = FlattenSeq(s)
  OBVIOUS
<1> DEFINE off == [k \in 1..(Len(s) + 1) |-> Len(T[k - 1]) + 1]
<1>3. \A k \in 0..Len(s) : T[k] \in Seq(Symbol) /\ Len(T[k]) \in Nat
  BY <1>1, FlatteningText
<1>4. t = T[Len(s)] /\ t \in Seq(Symbol)
  BY <1>1, <1>2, <1>3
<1>5. \A k \in 0..Len(s) :
        Len(T[k]) <= Len(t) /\ \A j \in 1..Len(T[k]) : t[j] = T[k][j]
  BY <1>1, <1>4, FlatteningPrefix
<1>6. off[1] = 1
  <2>1. T[0] = <<>> /\ 1 \in 1..(Len(s) + 1) /\ 1 - 1 = 0
    BY <1>1 DEF Flattening
  <2>2. off[1] = Len(T[0]) + 1
    BY <2>1
  <2> QED
    BY <2>1, <2>2
<1>7. off[Len(s) + 1] = Len(t) + 1
  <2>1. Len(s) + 1 \in 1..(Len(s) + 1) /\ (Len(s) + 1) - 1 = Len(s)
    OBVIOUS
  <2> QED
    BY <1>4, <2>1
<1>8. \A k \in 1..(Len(s) + 1) : off[k] \in Nat \ {0} /\ off[k] <= Len(t) + 1
  <2>1. ASSUME NEW k \in 1..(Len(s) + 1) PROVE off[k] \in Nat \ {0} /\ off[k] <= Len(t) + 1
    <3>1. k - 1 \in 0..Len(s) /\ Len(t) \in Nat
      BY <1>4
    <3>2. off[k] = Len(T[k - 1]) + 1
      OBVIOUS
    <3> HIDE DEF off
    <3> QED
      BY <1>3, <1>5, <3>1, <3>2
  <2> QED
    BY <2>1
<1>9. ASSUME NEW k \in 1..Len(s)
      PROVE  /\ off[k + 1] = off[k] + Len(s[k])
             /\ \A j \in 1..Len(s[k]) : t[off[k] + j - 1] = s[k][j]
  <2>1. k + 1 \in 1..(Len(s) + 1) /\ (k + 1) - 1 = k /\ k \in 1..(Len(s) + 1)
        /\ k - 1 \in 0..Len(s) /\ k \in 0..Len(s)
    OBVIOUS
  <2>2. off[k + 1] = Len(T[k]) + 1 /\ off[k] = Len(T[k - 1]) + 1
    BY <2>1
  <2> HIDE DEF off
  <2>3. T[k] = T[k - 1] \o s[k]
    BY <1>1 DEF Flattening
  <2>4. s[k] \in Seq(Symbol) /\ T[k - 1] \in Seq(Symbol)
    BY <1>3, <2>1, PieceText
  <2>5a. PICK l \in Nat : l = Len(T[k - 1])
    BY <2>4
  <2>5b. PICK m \in Nat : m = Len(s[k])
    BY <2>4
  <2>5. l = Len(T[k - 1]) /\ m = Len(s[k])
    BY <2>5a, <2>5b
  <2>6. Len(T[k]) = l + m
    BY <2>3, <2>4, <2>5, Concatenated
  <2>7. \A i \in 1..(l + m) : T[k][i] = IF i <= l THEN T[k - 1][i] ELSE s[k][i - l]
    BY <2>3, <2>4, <2>5, Concatenated
  <2>8. ASSUME NEW j \in 1..m PROVE t[off[k] + j - 1] = s[k][j]
    <3>0. off[k] = l + 1
      BY <2>2, <2>5
    <3>1. off[k] + j - 1 = l + j /\ l + j \in 1..(l + m) /\ ~(l + j <= l) /\ (l + j) - l = j
      BY <3>0
    <3>2. T[k][l + j] = s[k][j]
      BY <2>7, <3>1
    <3>3. t[l + j] = T[k][l + j]
      BY <1>5, <2>1, <2>6, <3>1
    <3> QED
      BY <3>1, <3>2, <3>3
  <2>9. off[k + 1] = (l + m) + 1 /\ off[k] = l + 1
    BY <2>2, <2>5, <2>6
  <2>10. off[k + 1] = off[k] + m
    BY <2>9
  <2> QED
    BY <2>5, <2>8, <2>10
<1> HIDE DEF off
<1>10. Begins(s, t, off)
  BY <1>6, <1>7, <1>8, <1>9 DEF Begins
<1> QED
  BY <1>2, <1>4, <1>10

-----------------------------------------------------------------------------
(* The scan of validateTextEncoding is as its definition says.             *)
UEscapeIn(t, i) ==
    i + 2 <= Len(t) /\ t[i] = "\\" /\ t[i + 1] = "u" /\ t[i + 2] \in DOMAIN hex4

ScanStep(t, f, i) ==
    \/ i = Len(t) + 1
    \/ t[i] # "\\" /\ f[i + 1]
    \/ /\ t[i] = "\\" /\ i < Len(t) /\ t[i + 1] # "u"
       /\ f[i + 2]
    \/ /\ UEscapeIn(t, i) /\ ~IsSurrogate(hex4[t[i + 2]])
       /\ f[i + 3]
    \/ /\ UEscapeIn(t, i) /\ IsHigh(hex4[t[i + 2]])
       /\ UEscapeIn(t, i + 3) /\ IsLow(hex4[t[i + 5]])
       /\ f[i + 6]

Scanned(t) == CHOOSE f : f = [i \in 1..(Len(t) + 1) |-> ScanStep(t, f, i)]

LEMMA ScanStepLocal ==
    ASSUME NEW n \in Nat, NEW t, n = Len(t), NEW i \in 1..(n + 1), NEW f, NEW g,
           \A j \in (i + 1)..(n + 1) : f[j] = g[j]
    PROVE  ScanStep(t, f, i) = ScanStep(t, g, i)
<1>1. CASE i = n + 1
  BY <1>1 DEF ScanStep
<1>2. CASE i # n + 1
  <2>1. f[i + 1] = g[i + 1]
    BY <1>2
  <2>2. i < n => f[i + 2] = g[i + 2]
    OBVIOUS
  <2>3. UEscapeIn(t, i) => f[i + 3] = g[i + 3]
    BY DEF UEscapeIn
  <2>4. UEscapeIn(t, i + 3) => f[i + 6] = g[i + 6]
    BY DEF UEscapeIn
  <2> QED
    BY <2>1, <2>2, <2>3, <2>4 DEF ScanStep
<1> QED
  BY <1>1, <1>2

LEMMA ScanExists ==
    ASSUME NEW n \in Nat, NEW t, n = Len(t)
    PROVE  \A m \in 0..n : \E f : \A i \in (n + 1 - m)..(n + 1) : f[i] = ScanStep(t, f, i)
<1> DEFINE Solves(f, m) == \A i \in (n + 1 - m)..(n + 1) : f[i] = ScanStep(t, f, i)
           S == {m \in Nat : m <= n => \E f : Solves(f, m)}
<1>1. 0 \in S
  <2> DEFINE f == [i \in {n + 1} |-> TRUE]
  <2>1. f[n + 1] = ScanStep(t, f, n + 1)
    BY DEF ScanStep
  <2>2. \A i \in (n + 1 - 0)..(n + 1) : i = n + 1
    OBVIOUS
  <2> HIDE DEF f
  <2>3. Solves(f, 0)
    BY <2>1, <2>2
  <2> QED
    BY <2>3
<1>2. ASSUME NEW m \in Nat, m \in S PROVE m + 1 \in S
  <2> SUFFICES ASSUME m + 1 <= n PROVE \E f : Solves(f, m + 1)
    OBVIOUS
  <2>1. PICK f : Solves(f, m)
    BY <1>2
  <2>2. PICK k \in 1..n : k = n + 1 - (m + 1) /\ k + 1 = n + 1 - m
    OBVIOUS
  <2> DEFINE g == [i \in k..(n + 1) |-> IF i = k THEN ScanStep(t, f, k) ELSE f[i]]
  <2>3. g[k] = ScanStep(t, f, k) /\ \A i \in (k + 1)..(n + 1) : g[i] = f[i]
    OBVIOUS
  <2> HIDE DEF g
  <2>4. ASSUME NEW i \in k..(n + 1) PROVE ScanStep(t, f, i) = ScanStep(t, g, i)
    <3>1. i \in 1..(n + 1) /\ \A j \in (i + 1)..(n + 1) : f[j] = g[j]
      BY <2>3
    <3> QED
      BY <3>1, ScanStepLocal
  <2>5. ASSUME NEW i \in k..(n + 1) PROVE g[i] = ScanStep(t, g, i)
    <3>1. CASE i = k
      BY <2>3, <2>4, <3>1
    <3>2. CASE i # k
      <4>1. i \in (n + 1 - m)..(n + 1) /\ i \in (k + 1)..(n + 1)
        BY <2>2, <3>2
      <4> QED
        BY <2>1, <2>3, <2>4, <4>1
    <3> QED
      BY <3>1, <3>2
  <2>6. Solves(g, m + 1)
    BY <2>2, <2>5
  <2> QED
    BY <2>6
<1> HIDE DEF S
<1>3. \A m \in Nat : m \in S
  BY <1>1, <1>2, Induction
<1> QED
  BY <1>3 DEF S

LEMMA ScannedIs ==
    ASSUME NEW t \in Seq(Symbol)
    PROVE  \A i \in 1..(Len(t) + 1) : Scanned(t)[i] = ScanStep(t, Scanned(t), i)
<1>1. PICK n \in Nat : n = Len(t)
  OBVIOUS
<1> DEFINE Solves(f) == f = [i \in 1..(Len(t) + 1) |-> ScanStep(t, f, i)]
<1>2. \E f : Solves(f)
  <2>1. n \in 0..n /\ n + 1 - n = 1
    OBVIOUS
  <2>2. PICK f : \A i \in 1..(n + 1) : f[i] = ScanStep(t, f, i)
    BY <1>1, <2>1, ScanExists
  <2> DEFINE g == [i \in 1..(n + 1) |-> f[i]]
  <2>3. g = [i \in 1..(n + 1) |-> g[i]] /\ \A i \in 1..(n + 1) : g[i] = f[i]
    OBVIOUS
  <2> HIDE DEF g
  <2>4. ASSUME NEW i \in 1..(n + 1) PROVE g[i] = ScanStep(t, g, i)
    <3>1. \A j \in (i + 1)..(n + 1) : f[j] = g[j]
      BY <2>3
    <3>2. ScanStep(t, f, i) = ScanStep(t, g, i)
      BY <1>1, <3>1, ScanStepLocal
    <3> QED
      BY <2>2, <2>3, <3>2
  <2>5. Solves(g)
    BY <1>1, <2>3, <2>4
  <2> QED
    BY <2>5
<1>3. PICK f : f = Scanned(t)
  OBVIOUS
<1>4. Solves(f)
  BY <1>2, <1>3 DEF Scanned
<1> QED
  BY <1>3, <1>4

LEMMA validateTextEncodingIs ==
    ASSUME NEW s
    PROVE  validateTextEncoding(s) <=> utf8Valid(s) /\ Scanned(FlattenSeq(s))[1]
BY Zenon DEF validateTextEncoding, Scanned, ScanStep, UEscapeIn

(* What the scan meets where a piece begins.                               *)
LEMMA PieceAt ==
    ASSUME NEW s \in Seq(Piece), NEW t \in Seq(Symbol), NEW off, Begins(s, t, off),
           NEW k \in 1..Len(s)
    PROVE  /\ off[k] \in Nat \ {0} /\ off[k + 1] \in Nat \ {0} /\ off[k + 1] <= Len(t) + 1
           /\ \/ /\ Len(s[k]) = 1 /\ off[k + 1] = off[k] + 1 /\ t[off[k]] # "\\"
              \/ /\ Len(s[k]) = 2 /\ off[k + 1] = off[k] + 2
                 /\ t[off[k]] = "\\" /\ t[off[k] + 1] # "u"
                 /\ ~IsSurrogate(Unit(s[k]))
              \/ /\ Len(s[k]) = 3 /\ off[k + 1] = off[k] + 3
                 /\ UEscapeIn(t, off[k]) /\ hex4[t[off[k] + 2]] = Unit(s[k])
<1>1. PICK p \in Piece : p = s[k]
  OBVIOUS
<1>2. PICK o \in Nat \ {0} : o = off[k]
  <2>1. k \in 1..Len(s) + 1
    OBVIOUS
  <2>2. off[k] \in Nat \ {0}
    BY <2>1 DEF Begins
  <2> QED
    BY <2>2
<1>3. off[k + 1] \in Nat \ {0} /\ off[k + 1] <= Len(t) + 1 /\ off[k + 1] = o + Len(p)
  BY <1>1, <1>2 DEF Begins
<1>4. \A j \in 1..Len(p) : t[o + j - 1] = p[j]
  BY <1>1, <1>2 DEF Begins
<1>5. CASE Len(p) = 1
  <2>1. p = Literal(p[1]) /\ p[1] \in DOMAIN Raw
    BY <1>5, PieceShape
  <2>2. t[o] = p[1]
    BY <1>4, <1>5
  <2>3. t[o] # "\\"
    BY <2>1, <2>2, SymbolFacts
  <2> QED
    BY <1>1, <1>2, <1>3, <1>5, <2>3
<1>6. CASE Len(p) = 2
  <2>1. p = Escape(p[2]) /\ p[2] \in DOMAIN Short /\ Unit(p) = Short[p[2]]
    BY <1>6, PieceShape
  <2>2. t[o] = p[1] /\ t[o + 1] = p[2]
    BY <1>4, <1>6
  <2>3. p[1] = "\\"
    BY <2>1 DEF Escape
  <2>4. p[2] # "u"
    BY <2>1, SymbolFacts
  <2>5. ~IsSurrogate(Unit(p))
    BY <2>1, ShortFacts DEF IsSurrogate, IsHigh, IsLow
  <2> QED
    BY <1>1, <1>2, <1>3, <1>6, <2>2, <2>3, <2>4, <2>5
<1>7. CASE Len(p) = 3
  <2>1. p = UEscape(p[3]) /\ p[3] \in DOMAIN hex4 /\ Unit(p) = hex4[p[3]]
    BY <1>7, PieceShape
  <2>2. t[o] = p[1] /\ t[o + 1] = p[2] /\ t[o + 2] = p[3]
    BY <1>4, <1>7
  <2>3. p[1] = "\\" /\ p[2] = "u"
    BY <2>1 DEF UEscape
  <2>4. o + 2 <= Len(t)
    BY <1>3, <1>7
  <2>5. UEscapeIn(t, o) /\ hex4[t[o + 2]] = Unit(p)
    BY <2>1, <2>2, <2>3, <2>4 DEF UEscapeIn
  <2> QED
    BY <1>1, <1>2, <1>3, <1>7, <2>5
<1>8. Len(p) = 1 \/ Len(p) = 2 \/ Len(p) = 3
  BY PieceShape
<1> QED
  BY <1>5, <1>6, <1>7, <1>8

LEMMA ScanAt ==
    ASSUME NEW s \in Seq(Piece), NEW t \in Seq(Symbol), NEW off, Begins(s, t, off),
           NEW k \in 1..Len(s)
    PROVE  /\ Len(s[k]) \in {1, 2} => (Scanned(t)[off[k]] <=> Scanned(t)[off[k + 1]])
           /\ Len(s[k]) = 3 /\ ~IsSurrogate(Unit(s[k]))
                => (Scanned(t)[off[k]] <=> Scanned(t)[off[k + 1]])
           /\ Len(s[k]) = 3 /\ IsLow(Unit(s[k])) => ~Scanned(t)[off[k]]
           /\ Len(s[k]) = 3 /\ IsHigh(Unit(s[k]))
                => (Scanned(t)[off[k]] <=>
                        /\ k < Len(s) /\ Len(s[k + 1]) = 3 /\ IsLow(Unit(s[k + 1]))
                        /\ Scanned(t)[off[k + 2]])
<1>1. PICK F : F = Scanned(t)
  OBVIOUS
<1>2. PICK o \in Nat \ {0} : o = off[k]
  BY PieceAt
<1>3. PICK q \in Nat \ {0} : q = off[k + 1] /\ q <= Len(t) + 1
  BY PieceAt
<1>4. PICK l \in Nat : l = Len(t)
  OBVIOUS
<1>5. \/ Len(s[k]) = 1 /\ q = o + 1 /\ t[o] # "\\"
      \/ /\ Len(s[k]) = 2 /\ q = o + 2 /\ t[o] = "\\" /\ t[o + 1] # "u"
         /\ ~IsSurrogate(Unit(s[k]))
      \/ /\ Len(s[k]) = 3 /\ q = o + 3 /\ UEscapeIn(t, o) /\ hex4[t[o + 2]] = Unit(s[k])
  BY <1>2, <1>3, PieceAt
<1>6. o \in 1..l
  BY <1>3, <1>4, <1>5
<1>7. F[o] = ScanStep(t, F, o)
  BY <1>1, <1>4, <1>6, ScannedIs
<1>8. CASE Len(s[k]) = 1
  <2>1. F[o] <=> F[q]
    BY <1>4, <1>5, <1>6, <1>7, <1>8 DEF ScanStep, UEscapeIn
  <2> QED
    BY <1>1, <1>2, <1>3, <1>8, <2>1
<1>9. CASE Len(s[k]) = 2
  <2>1. o < l
    BY <1>3, <1>4, <1>5, <1>9
  <2>2. F[o] <=> F[q]
    BY <1>4, <1>5, <1>6, <1>7, <1>9, <2>1 DEF ScanStep, UEscapeIn
  <2> QED
    BY <1>1, <1>2, <1>3, <1>9, <2>2
<1>10. CASE Len(s[k]) = 3
  <2>1. PICK u \in Nat : u = Unit(s[k]) /\ u = hex4[t[o + 2]]
    BY <1>5, <1>10, UnitTypes
  <2>2. q = o + 3 /\ UEscapeIn(t, o) /\ t[o] = "\\" /\ t[o + 1] = "u" /\ o # l + 1
    BY <1>5, <1>6, <1>10 DEF UEscapeIn
  <2>3. F[o] <=> \/ ~IsSurrogate(u) /\ F[o + 3]
                 \/ /\ IsHigh(u) /\ UEscapeIn(t, o + 3) /\ IsLow(hex4[t[o + 5]])
                    /\ F[o + 6]
    BY <1>4, <1>7, <2>1, <2>2 DEF ScanStep
  <2>4. CASE ~IsSurrogate(u)
    <3>1. F[o] <=> F[q]
      BY <2>2, <2>3, <2>4 DEF IsSurrogate
    <3> QED
      BY <1>1, <1>2, <1>3, <1>10, <2>1, <2>4, <3>1 DEF IsSurrogate
  <2>5. CASE IsLow(u)
    <3>1. ~IsHigh(u) /\ IsSurrogate(u)
      BY <2>5 DEF IsLow, IsHigh, IsSurrogate
    <3>2. ~F[o]
      BY <2>3, <3>1
    <3> QED
      BY <1>1, <1>2, <1>10, <2>1, <3>1, <3>2
  <2>6. CASE IsHigh(u)
    <3>1. ~IsLow(u) /\ IsSurrogate(u)
      BY <2>6 DEF IsLow, IsHigh, IsSurrogate
    <3>2. F[o] <=> UEscapeIn(t, q) /\ IsLow(hex4[t[q + 2]]) /\ F[q + 3]
      BY <2>2, <2>3, <2>6, <3>1
    <3>3. CASE k < Len(s)
      <4>1. PICK m \in 1..Len(s) : m = k + 1 /\ m + 1 = k + 2
        BY <3>3
      <4>2. off[m] = q
        BY <1>3, <4>1
      <4>3. \/ Len(s[m]) = 1 /\ t[q] # "\\"
            \/ Len(s[m]) = 2 /\ t[q + 1] # "u"
            \/ /\ Len(s[m]) = 3 /\ off[m + 1] = q + 3 /\ UEscapeIn(t, q)
               /\ hex4[t[q + 2]] = Unit(s[m])
        <5>1. \/ Len(s[m]) = 1 /\ t[off[m]] # "\\"
              \/ Len(s[m]) = 2 /\ t[off[m] + 1] # "u"
              \/ /\ Len(s[m]) = 3 /\ off[m + 1] = off[m] + 3
                 /\ UEscapeIn(t, off[m]) /\ hex4[t[off[m] + 2]] = Unit(s[m])
          BY PieceAt
        <5> QED
          BY <4>2, <5>1
      <4>4. F[o] <=> Len(s[m]) = 3 /\ IsLow(Unit(s[m])) /\ F[off[m + 1]]
        <5>1. CASE Len(s[m]) = 3
          <6>1. off[m + 1] = q + 3 /\ UEscapeIn(t, q) /\ hex4[t[q + 2]] = Unit(s[m])
            BY <4>3, <5>1
          <6> QED
            BY <3>2, <5>1, <6>1
        <5>2. CASE Len(s[m]) # 3
          <6>1. ~UEscapeIn(t, q)
            BY <4>3, <5>2 DEF UEscapeIn
          <6> QED
            BY <3>2, <5>2, <6>1
        <5> QED
          BY <5>1, <5>2
      <4> QED
        BY <1>1, <1>2, <1>10, <2>1, <3>1, <3>3, <4>1, <4>4
    <3>4. CASE ~(k < Len(s))
      <4>1. k = Len(s)
        BY <3>4
      <4>2. q = l + 1
        BY <1>3, <1>4, <4>1 DEF Begins
      <4>3. ~UEscapeIn(t, q)
        BY <1>4, <4>2 DEF UEscapeIn
      <4>4. ~F[o]
        BY <3>2, <4>3
      <4> QED
        BY <1>1, <1>2, <1>10, <2>1, <3>1, <3>4, <4>4
    <3> QED
      BY <3>3, <3>4
  <2> QED
    BY <2>4, <2>5, <2>6 DEF IsSurrogate
<1> QED
  BY <1>5, <1>8, <1>9, <1>10

(* Of the pieces from the k-th on: halves of pairs escaped by \u are next  *)
(* to their other halves.                                                  *)
HighLow(s, j) ==
    /\ {j, j + 1} \subseteq 1..Len(s) /\ Len(s[j]) = 3 /\ Len(s[j + 1]) = 3
    /\ IsHigh(Unit(s[j])) /\ IsLow(Unit(s[j + 1]))

Half(s, i) == Len(s[i]) = 3 /\ IsSurrogate(Unit(s[i]))

EscapesPaired(s, k) ==
    \A i \in k..Len(s) : Half(s, i) => HighLow(s, i) \/ (i > k /\ HighLow(s, i - 1))

LEMMA HighNotLow == \A p \in Piece : ~(IsHigh(Unit(p)) /\ IsLow(Unit(p)))
<1>1. ASSUME NEW p \in Piece PROVE ~(IsHigh(Unit(p)) /\ IsLow(Unit(p)))
  <2>1. PICK u \in Nat : u = Unit(p)
    BY UnitTypes
  <2> QED
    BY <2>1 DEF IsHigh, IsLow
<1> QED
  BY <1>1

LEMMA PairedAt ==
    ASSUME NEW s \in Seq(Piece), NEW k \in 1..Len(s)
    PROVE  /\ ~Half(s, k) => (EscapesPaired(s, k) <=> EscapesPaired(s, k + 1))
           /\ Half(s, k) /\ IsLow(Unit(s[k])) => ~EscapesPaired(s, k)
           /\ Half(s, k) /\ IsHigh(Unit(s[k]))
                => (EscapesPaired(s, k) <=>
                        /\ k < Len(s) /\ Len(s[k + 1]) = 3 /\ IsLow(Unit(s[k + 1]))
                        /\ EscapesPaired(s, k + 2))
<1>0. PICK n \in Nat : n = Len(s)
  OBVIOUS
<1>1. ASSUME ~Half(s, k) PROVE EscapesPaired(s, k) <=> EscapesPaired(s, k + 1)
  <2>1. ~HighLow(s, k)
    BY <1>1 DEF HighLow, Half, IsSurrogate
  <2>2. \A i \in (k + 1)..n : i > k /\ i \in k..n /\ (i > k + 1 \/ i - 1 = k)
    OBVIOUS
  <2>3. \A i \in k..n : i = k \/ i \in (k + 1)..n
    OBVIOUS
  <2>4. ASSUME EscapesPaired(s, k) PROVE EscapesPaired(s, k + 1)
    BY <1>0, <2>1, <2>2, <2>4 DEF EscapesPaired
  <2>5. ASSUME EscapesPaired(s, k + 1) PROVE EscapesPaired(s, k)
    <3>1. ASSUME NEW i \in k..n, Half(s, i) PROVE HighLow(s, i) \/ (i > k /\ HighLow(s, i - 1))
      <4>1. i \in (k + 1)..n
        BY <1>1, <2>3, <3>1
      <4>2. HighLow(s, i) \/ HighLow(s, i - 1)
        BY <1>0, <2>5, <3>1, <4>1 DEF EscapesPaired
      <4> QED
        BY <4>1, <4>2
    <3> QED
      BY <1>0, <3>1 DEF EscapesPaired
  <2> QED
    BY <2>4, <2>5
<1>2. ASSUME Half(s, k), IsLow(Unit(s[k])) PROVE ~EscapesPaired(s, k)
  <2>1. ~HighLow(s, k)
    BY <1>2, HighNotLow DEF HighLow
  <2>2. k \in k..Len(s) /\ ~(k > k)
    OBVIOUS
  <2> QED
    BY <1>2, <2>1, <2>2 DEF EscapesPaired
<1>3. ASSUME Half(s, k), IsHigh(Unit(s[k]))
      PROVE  EscapesPaired(s, k) <=>
                /\ k < Len(s) /\ Len(s[k + 1]) = 3 /\ IsLow(Unit(s[k + 1]))
                /\ EscapesPaired(s, k + 2)
  <2>1. k \in k..n /\ ~(k > k)
    BY <1>0
  <2>2. EscapesPaired(s, k) => HighLow(s, k)
    BY <1>0, <1>3, <2>1 DEF EscapesPaired
  <2>3. HighLow(s, k) <=> k < n /\ Len(s[k + 1]) = 3 /\ IsLow(Unit(s[k + 1]))
    <3>1. k < n <=> {k, k + 1} \subseteq 1..n
      BY <1>0
    <3> QED
      BY <1>0, <1>3, <3>1 DEF HighLow, Half
  <2>4. ASSUME HighLow(s, k) PROVE EscapesPaired(s, k) <=> EscapesPaired(s, k + 2)
    <3>1. PICK m \in 1..n : m = k + 1
      BY <1>0, <2>3, <2>4
    <3>2. IsLow(Unit(s[m])) /\ ~HighLow(s, m)
      <4>1. IsLow(Unit(s[m]))
        BY <2>4, <3>1 DEF HighLow
      <4>2. s[m] \in Piece
        BY <1>0
      <4> QED
        BY <4>1, <4>2, HighNotLow DEF HighLow
    <3>3. \A i \in (k + 2)..n : i > k /\ i \in k..n /\ (i > k + 2 \/ i - 1 = m)
      BY <3>1
    <3>4. \A i \in k..n : i = k \/ i = m \/ i \in (k + 2)..n
      BY <3>1
    <3>5. ASSUME EscapesPaired(s, k) PROVE EscapesPaired(s, k + 2)
      BY <1>0, <3>2, <3>3, <3>5 DEF EscapesPaired
    <3>6. ASSUME EscapesPaired(s, k + 2) PROVE EscapesPaired(s, k)
      <4>1. ASSUME NEW i \in k..n, Half(s, i)
            PROVE  HighLow(s, i) \/ (i > k /\ HighLow(s, i - 1))
        <5>1. CASE i = k
          BY <2>4, <5>1
        <5>2. CASE i = m
          <6>1. i > k /\ i - 1 = k
            BY <3>1, <5>2
          <6> QED
            BY <2>4, <6>1
        <5>3. CASE i \in (k + 2)..n
          <6>1. HighLow(s, i) \/ HighLow(s, i - 1)
            BY <1>0, <3>6, <4>1, <5>3 DEF EscapesPaired
          <6> QED
            BY <3>3, <5>3, <6>1
        <5> QED
          BY <3>4, <5>1, <5>2, <5>3
      <4> QED
        BY <1>0, <4>1 DEF EscapesPaired
    <3> QED
      BY <3>5, <3>6
  <2> QED
    BY <1>0, <2>2, <2>3, <2>4
<1> QED
  BY <1>1, <1>2, <1>3

LEMMA ScanPaired ==
    ASSUME NEW s \in Seq(Piece), NEW t \in Seq(Symbol), NEW off, Begins(s, t, off)
    PROVE  Scanned(t)[1] <=> EscapesPaired(s, 1)
<1>0. PICK n \in Nat : n = Len(s)
  OBVIOUS
<1> DEFINE Same(k) == Scanned(t)[off[k]] <=> EscapesPaired(s, k)
           S == {m \in Nat : \A k \in 1..(n + 1) : n + 1 <= k + m => Same(k)}
<1>1. Same(n + 1)
  <2>1. EscapesPaired(s, n + 1)
    BY <1>0 DEF EscapesPaired
  <2>2. off[n + 1] = Len(t) + 1 /\ Len(t) + 1 \in 1..(Len(t) + 1)
    BY <1>0 DEF Begins
  <2>3. Scanned(t)[Len(t) + 1]
    BY <2>2, ScannedIs DEF ScanStep
  <2> QED
    BY <2>1, <2>2, <2>3
<1>2. 0 \in S
  <2>1. \A k \in 1..(n + 1) : n + 1 <= k + 0 => k = n + 1
    OBVIOUS
  <2> HIDE DEF Same
  <2> QED
    BY <1>1, <2>1
<1>3. ASSUME NEW m \in Nat, m \in S PROVE m + 1 \in S
  <2> SUFFICES ASSUME NEW k \in 1..(n + 1), n + 1 <= k + (m + 1) PROVE Same(k)
    OBVIOUS
  <2>1. \A j \in 1..(n + 1) : j > k => Same(j)
    <3>1. \A j \in 1..(n + 1) : j > k => n + 1 <= j + m
      OBVIOUS
    <3> HIDE DEF Same
    <3> QED
      BY <1>3, <3>1
  <2>2. CASE k = n + 1
    BY <1>1, <2>2
  <2>3. CASE k # n + 1
    <3>1. k \in 1..Len(s) /\ k + 1 \in 1..(n + 1) /\ k + 1 > k
      BY <1>0, <2>3
    <3>2. Same(k + 1)
      BY <2>1, <3>1
    <3>3. k < Len(s) => Same(k + 2)
      <4> SUFFICES ASSUME k < Len(s) PROVE Same(k + 2)
        OBVIOUS
      <4>1. k + 2 \in 1..(n + 1) /\ k + 2 > k
        BY <1>0
      <4> HIDE DEF Same
      <4> QED
        BY <2>1, <4>1
    <3>4. Len(s[k]) \in {1, 2} \/ Len(s[k]) = 3
      BY <3>1, PieceShape
    <3>5. Half(s, k) => IsLow(Unit(s[k])) \/ IsHigh(Unit(s[k]))
      BY DEF Half, IsSurrogate
    <3>6. CASE ~Half(s, k)
      <4>1. Scanned(t)[off[k]] <=> Scanned(t)[off[k + 1]]
        BY <3>1, <3>4, <3>6, ScanAt DEF Half
      <4>2. EscapesPaired(s, k) <=> EscapesPaired(s, k + 1)
        BY <3>1, <3>6, PairedAt
      <4> QED
        BY <3>2, <4>1, <4>2
    <3>7. CASE Half(s, k) /\ IsLow(Unit(s[k]))
      <4>1. ~Scanned(t)[off[k]]
        BY <3>1, <3>7, ScanAt DEF Half
      <4>2. ~EscapesPaired(s, k)
        BY <3>1, <3>7, PairedAt
      <4> QED
        BY <4>1, <4>2
    <3>8. CASE Half(s, k) /\ IsHigh(Unit(s[k]))
      <4>1. Scanned(t)[off[k]] <=>
                /\ k < Len(s) /\ Len(s[k + 1]) = 3 /\ IsLow(Unit(s[k + 1]))
                /\ Scanned(t)[off[k + 2]]
        BY <3>1, <3>8, ScanAt DEF Half
      <4>2. EscapesPaired(s, k) <=>
                /\ k < Len(s) /\ Len(s[k + 1]) = 3 /\ IsLow(Unit(s[k + 1]))
                /\ EscapesPaired(s, k + 2)
        BY <3>1, <3>8, PairedAt
      <4> QED
        BY <3>3, <4>1, <4>2
    <3> QED
      BY <3>5, <3>6, <3>7, <3>8
  <2> QED
    BY <2>2, <2>3
<1> HIDE DEF S
<1>4. \A m \in Nat : m \in S
  BY <1>2, <1>3, Induction
<1>5. Same(1)
  <2>1. n \in S
    BY <1>4
  <2>2. 1 \in 1..(n + 1) /\ n + 1 <= 1 + n
    OBVIOUS
  <2> HIDE DEF Same
  <2> QED
    BY <2>1, <2>2 DEF S
<1>6. off[1] = 1
  BY DEF Begins
<1> QED
  BY <1>5, <1>6

(* The scan and the decoder accept the strings that stand for text.        *)
LEMMA EncodingValid ==
    ASSUME NEW s \in Seq(Piece)
    PROVE  validateTextEncoding(s) <=> WellFormed(s)
<1>1. PICK off : Begins(s, FlattenSeq(s), off)
  BY TextOf
<1>2. Scanned(FlattenSeq(s))[1] <=> EscapesPaired(s, 1)
  BY <1>1, TextOf, ScanPaired
<1>3. \A i \in 1..Len(s) : s[i] \in Piece
  OBVIOUS
<1>4. ASSUME NEW i \in 1..Len(s), Len(s[i]) = 2 PROVE ~Alone(s, i)
  <2>1. Unit(s[i]) = Short[s[i][2]] /\ s[i][2] \in DOMAIN Short
    BY <1>3, <1>4, PieceShape
  <2>2. ~IsSurrogate(Unit(s[i]))
    BY <2>1, ShortFacts DEF IsSurrogate, IsHigh, IsLow
  <2> QED
    BY <2>2 DEF Alone
<1>5. ASSUME NEW i \in 1..Len(s), Len(s[i]) = 3
      PROVE  ~Alone(s, i) <=>
                (Half(s, i) => HighLow(s, i) \/ (i > 1 /\ HighLow(s, i - 1)))
  <2>1. HighLow(s, i) <=>
            /\ {i, i + 1} \subseteq DOMAIN s /\ Len(s[i]) = Len(s[i + 1])
            /\ IsHigh(Unit(s[i])) /\ IsLow(Unit(s[i + 1]))
    BY <1>5 DEF HighLow
  <2>2. (i - 1) + 1 = i /\ (i - 1 \in 1..Len(s) => i > 1) /\ DOMAIN s = 1..Len(s)
    OBVIOUS
  <2>3. i > 1 /\ HighLow(s, i - 1) <=>
            /\ {i - 1, (i - 1) + 1} \subseteq DOMAIN s /\ Len(s[i - 1]) = Len(s[(i - 1) + 1])
            /\ IsHigh(Unit(s[i - 1])) /\ IsLow(Unit(s[(i - 1) + 1]))
    BY <1>5, <2>2 DEF HighLow
  <2> QED
    BY <1>5, <2>1, <2>3 DEF Alone, Half
<1>6. EscapesPaired(s, 1) <=> \A i \in 1..Len(s) : Len(s[i]) = 3 => ~Alone(s, i)
  BY <1>5 DEF EscapesPaired, Half
<1>7. \A i \in 1..Len(s) : Len(s[i]) = 1 \/ Len(s[i]) = 2 \/ Len(s[i]) = 3
  BY <1>3, PieceShape
<1>8. DOMAIN s = 1..Len(s)
  OBVIOUS
<1>9. WellFormed(s) <=> utf8Valid(s) /\ EscapesPaired(s, 1)
  BY <1>4, <1>6, <1>7, <1>8 DEF WellFormed, utf8Valid
<1> QED
  BY <1>2, <1>9, validateTextEncodingIs

-----------------------------------------------------------------------------
(* Strings are ordered.                                                    *)
LEMMA Irreflexive == \A a \in Seq(Units) : ~compareUTF16(a, a)
<1>1. ASSUME NEW a \in Seq(Units), compareUTF16(a, a) PROVE FALSE
  <2>1. PICK i \in 1..Len(a) : i <= Len(a) => a[i] < a[i]
    BY <1>1 DEF compareUTF16
  <2>2. PICK u \in Nat : u = a[i]
    BY UnitTypes
  <2> QED
    BY <2>1, <2>2
<1> QED
  BY <1>1

LEMMA Transitive ==
    ASSUME NEW a \in Seq(Units), NEW b \in Seq(Units), NEW c \in Seq(Units),
           compareUTF16(a, b), compareUTF16(b, c)
    PROVE  compareUTF16(a, c)
<1>1. PICK l \in Nat, m \in Nat, n \in Nat : l = Len(a) /\ m = Len(b) /\ n = Len(c)
  OBVIOUS
<1>2. /\ \A i \in 1..l : a[i] \in Nat
      /\ \A i \in 1..m : b[i] \in Nat
      /\ \A i \in 1..n : c[i] \in Nat
  BY <1>1, UnitTypes
<1>3. PICK i \in 1..m : /\ i <= l + 1 /\ \A j \in 1..(i - 1) : a[j] = b[j]
                        /\ i <= l => a[i] < b[i]
  BY <1>1 DEF compareUTF16
<1>4. PICK k \in 1..n : /\ k <= m + 1 /\ \A j \in 1..(k - 1) : b[j] = c[j]
                        /\ k <= m => b[k] < c[k]
  BY <1>1 DEF compareUTF16
<1>5. ASSUME NEW p \in 1..n, p <= l + 1, \A j \in 1..(p - 1) : a[j] = c[j],
             p <= l => a[p] < c[p]
      PROVE  compareUTF16(a, c)
  <2>1. p \in DOMAIN c
    BY <1>1
  <2>2. p <= Len(a) + 1 /\ (\A j \in 1..(p - 1) : a[j] = c[j]) /\ (p <= Len(a) => a[p] < c[p])
    BY <1>1, <1>5
  <2> QED
    BY <2>1, <2>2, Zenon DEF compareUTF16
<1>6. CASE i < k
  <2>1. i \in 1..n /\ i \in 1..(k - 1) /\ \A j \in 1..(i - 1) : j \in 1..(k - 1)
    BY <1>6
  <2>2. \A j \in 1..(i - 1) : a[j] = c[j]
    BY <1>3, <1>4, <2>1
  <2>3. i <= l => a[i] < c[i]
    BY <1>3, <1>4, <2>1
  <2> QED
    BY <1>3, <1>5, <2>1, <2>2, <2>3
<1>7. CASE i = k
  <2>1. \A j \in 1..(i - 1) : a[j] = c[j]
    BY <1>3, <1>4, <1>7
  <2>2. i <= l => a[i] < c[i]
    <3>1. ASSUME i <= l PROVE a[i] < c[i]
      <4>1. i \in 1..l /\ i \in 1..m /\ i \in 1..n
        BY <1>7, <3>1
      <4>2. a[i] \in Nat /\ b[i] \in Nat /\ c[i] \in Nat
        BY <1>2, <4>1
      <4>3. a[i] < b[i] /\ b[i] < c[i]
        BY <1>3, <1>4, <1>7, <3>1
      <4> QED
        BY <4>2, <4>3
    <3> QED
      BY <3>1
  <2> QED
    BY <1>3, <1>5, <1>7, <2>1, <2>2
<1>8. CASE k < i
  <2>1. k \in 1..(i - 1) /\ k <= l + 1 /\ \A j \in 1..(k - 1) : j \in 1..(i - 1)
    BY <1>3, <1>8
  <2>2. \A j \in 1..(k - 1) : a[j] = c[j]
    BY <1>3, <1>4, <2>1
  <2>3. a[k] < c[k]
    BY <1>3, <1>4, <1>8, <2>1
  <2> QED
    BY <1>5, <2>1, <2>2, <2>3
<1> QED
  BY <1>6, <1>7, <1>8

LEMMA Total ==
    ASSUME NEW a \in Seq(Units), NEW b \in Seq(Units), a # b
    PROVE  compareUTF16(a, b) \/ compareUTF16(b, a)
<1>1. PICK l \in Nat, m \in Nat : l = Len(a) /\ m = Len(b)
  OBVIOUS
<1>2. (\A i \in 1..l : a[i] \in Nat) /\ (\A i \in 1..m : b[i] \in Nat)
  BY <1>1, UnitTypes
<1> DEFINE D == {i \in Nat \ {0} : i > l \/ i > m \/ a[i] # b[i]}
<1>3. D \in SUBSET Nat /\ l + 1 \in D
  OBVIOUS
<1>4. PICK i \in D : \A k \in D : i <= k
  BY <1>3, LeastExists, Zenon
<1>5. \A j \in 1..(i - 1) : j <= l /\ j <= m /\ a[j] = b[j]
  <2>1. \A j \in 1..(i - 1) : j \in Nat \ {0} /\ ~(i <= j)
    BY <1>4
  <2> QED
    BY <1>4, <2>1
<1>6. i \in Nat \ {0} /\ i <= l + 1 /\ i <= m + 1
  <2>1. i \in Nat \ {0}
    BY <1>4
  <2>2. i - 1 <= l /\ i - 1 <= m
    <3>1. CASE i = 1
      BY <3>1
    <3>2. CASE i # 1
      <4>1. i - 1 \in 1..(i - 1)
        BY <2>1, <3>2
      <4> QED
        BY <1>5, <4>1
    <3> QED
      BY <3>1, <3>2
  <2> QED
    BY <2>1, <2>2
<1>7. i > l \/ i > m \/ a[i] # b[i]
  BY <1>4
<1> HIDE DEF D
<1>8. CASE i <= l /\ i <= m
  <2>1. a[i] < b[i] \/ b[i] < a[i]
    BY <1>2, <1>6, <1>7, <1>8
  <2> QED
    BY <1>1, <1>5, <1>6, <1>8, <2>1 DEF compareUTF16
<1>9. CASE i > l /\ i <= m
  <2>1. i \in DOMAIN b
    BY <1>1, <1>6, <1>9
  <2> QED
    BY <1>1, <1>5, <1>6, <1>9, <2>1 DEF compareUTF16
<1>10. CASE i <= l /\ i > m
  <2>1. i \in DOMAIN a
    BY <1>1, <1>6, <1>10
  <2> QED
    BY <1>1, <1>5, <1>6, <1>10, <2>1 DEF compareUTF16
<1>11. CASE i > l /\ i > m
  <2>1. l = i - 1 /\ m = i - 1
    BY <1>6, <1>11
  <2>2. \A j \in 1..l : a[j] = b[j]
    BY <1>5, <2>1
  <2>3. a = b
    BY <1>1, <2>1, <2>2, SeqEqual
  <2> QED
    BY <2>3
<1> QED
  BY <1>6, <1>8, <1>9, <1>10, <1>11

(* Of finitely many strings each has its place.                            *)
Rank(K, k) == Cardinality({l \in K : compareUTF16(l, k)})

LEMMA RankTypes ==
    ASSUME NEW K \in SUBSET Seq(Units), IsFiniteSet(K)
    PROVE  /\ \A k \in K : Rank(K, k) \in Nat /\ Rank(K, k) < Cardinality(K)
           /\ \A j, k \in K : Rank(K, j) = Rank(K, k) => j = k
<1>1. ASSUME NEW k \in K PROVE Rank(K, k) \in Nat /\ Rank(K, k) < Cardinality(K)
  <2>1. PICK B : B = {l \in K : compareUTF16(l, k)}
    OBVIOUS
  <2>2. B \in SUBSET K /\ B # K
    BY <2>1, Irreflexive
  <2>3. IsFiniteSet(B) /\ Cardinality(B) <= Cardinality(K) /\ Cardinality(B) # Cardinality(K)
    BY <2>2, FS_Subset
  <2>4. Cardinality(B) \in Nat /\ Cardinality(K) \in Nat
    BY <2>3, FS_CardinalityType
  <2> QED
    BY <2>1, <2>3, <2>4 DEF Rank
<1>2. ASSUME NEW j \in K, NEW k \in K, compareUTF16(j, k) PROVE Rank(K, j) # Rank(K, k)
  <2>1. PICK A : A = {l \in K : compareUTF16(l, j)}
    OBVIOUS
  <2>2. PICK B : B = {l \in K : compareUTF16(l, k)}
    OBVIOUS
  <2>3. B \in SUBSET K
    BY <2>2
  <2>4. IsFiniteSet(B)
    BY <2>3, FS_Subset
  <2>5. A \subseteq B
    <3>1. ASSUME NEW l \in K, compareUTF16(l, j) PROVE compareUTF16(l, k)
      BY <1>2, <3>1, Transitive
    <3> QED
      BY <2>1, <2>2, <3>1
  <2>6. j \in B /\ j \notin A
    BY <1>2, <2>1, <2>2, Irreflexive
  <2>7. Cardinality(A) # Cardinality(B)
    BY <2>4, <2>5, <2>6, FS_Subset
  <2> QED
    BY <2>1, <2>2, <2>7 DEF Rank
<1>3. ASSUME NEW j \in K, NEW k \in K, Rank(K, j) = Rank(K, k) PROVE j = k
  BY <1>2, <1>3, Total
<1> QED
  BY <1>1, <1>3

Nth(K) ==
    [n \in 1..Cardinality(K) |->
        CHOOSE k \in K : Cardinality({l \in K : compareUTF16(l, k)}) = n - 1]

LEMMA NthTypes ==
    ASSUME NEW K \in SUBSET Seq(Units), IsFiniteSet(K)
    PROVE  /\ Cardinality(K) \in Nat
           /\ \A n \in 1..Cardinality(K) : Nth(K)[n] \in K
           /\ \A m, n \in 1..Cardinality(K) : Nth(K)[m] = Nth(K)[n] => m = n
           /\ \A k \in K : \E n \in 1..Cardinality(K) : Nth(K)[n] = k
<1>1. PICK c \in Nat : c = Cardinality(K)
  BY FS_CardinalityType
<1> DEFINE f == [k \in K |-> Rank(K, k) + 1]
<1>2. \A k \in K : Rank(K, k) \in Nat /\ Rank(K, k) < c
  BY <1>1, RankTypes
<1>3. f \in Injection(K, 1..c)
  <2>1. f \in [K -> 1..c]
    BY <1>2
  <2>2. ASSUME NEW j \in K, NEW k \in K, f[j] = f[k] PROVE j = k
    <3>1. Rank(K, j) = Rank(K, k)
      BY <1>2, <2>2
    <3> QED
      BY <3>1, RankTypes
  <2>3. DOMAIN f = K
    OBVIOUS
  <2> HIDE DEF f
  <2> QED
    BY <2>1, <2>2, <2>3 DEF Injection, IsInjective
<1>4. IsFiniteSet(1..c) /\ Cardinality(1..c) = c
  BY FS_Interval
<1>5. f \in Surjection(K, 1..c)
  <2> HIDE DEF f
  <2> QED
    BY <1>1, <1>3, <1>4, FS_Injection
<1>6. ASSUME NEW n \in 1..c PROVE Nth(K)[n] \in K /\ Rank(K, Nth(K)[n]) = n - 1
  <2>1. PICK k \in K : f[k] = n
    <3> HIDE DEF f
    <3> QED
      BY <1>5 DEF Surjection
  <2>2. Rank(K, k) = n - 1
    BY <1>2, <2>1
  <2>3. PICK j : j = CHOOSE x \in K : Cardinality({l \in K : compareUTF16(l, x)}) = n - 1
    OBVIOUS
  <2>4. j \in K /\ Cardinality({l \in K : compareUTF16(l, j)}) = n - 1
    BY <2>2, <2>3 DEF Rank
  <2>5. Nth(K)[n] = j
    BY <1>1, <2>3 DEF Nth
  <2> QED
    BY <2>4, <2>5 DEF Rank
<1> HIDE DEF f
<1>7. ASSUME NEW m \in 1..c, NEW n \in 1..c, Nth(K)[m] = Nth(K)[n] PROVE m = n
  <2>1. m - 1 = n - 1
    BY <1>6, <1>7
  <2> QED
    BY <2>1
<1>8. ASSUME NEW k \in K PROVE \E n \in 1..c : Nth(K)[n] = k
  <2>1. PICK n \in 1..c : n = Rank(K, k) + 1 /\ Rank(K, k) = n - 1
    BY <1>2
  <2>2. Nth(K)[n] \in K /\ Rank(K, Nth(K)[n]) = Rank(K, k)
    BY <1>6, <2>1
  <2> QED
    BY <2>2, RankTypes
<1> QED
  BY <1>1, <1>6, <1>7, <1>8

-----------------------------------------------------------------------------
(* Objects: values by their keys, and the members that list them.          *)
KeyedBy(keys, values) ==
    [k \in {keys[i] : i \in DOMAIN keys} |-> values[CHOOSE i \in DOMAIN keys : keys[i] = k]]

Listed(g) ==
    [n \in 1..Cardinality(DOMAIN g) |->
        [key |-> writeString(Nth(DOMAIN g)[n]), val |-> g[Nth(DOMAIN g)[n]]]]

LEMMA KeySet ==
    ASSUME NEW n \in Nat, NEW keys \in [1..n -> Seq(Units)]
    PROVE  /\ {keys[i] : i \in DOMAIN keys} \in SUBSET Seq(Units)
           /\ IsFiniteSet({keys[i] : i \in DOMAIN keys})
<1>1. PICK K : K = {keys[i] : i \in DOMAIN keys}
  OBVIOUS
<1>2. K \in SUBSET Seq(Units)
  BY <1>1
<1>3. keys \in Surjection(1..n, K)
  BY <1>1 DEF Surjection
<1>4. IsFiniteSet(1..n)
  BY FS_Interval
<1> QED
  BY <1>1, <1>2, <1>3, <1>4, FS_Surjection

LEMMA ByKeyIs ==
    ASSUME NEW n \in Nat, NEW keys \in [1..n -> Seq(Units)], NEW values
    PROVE  ByKey(keys, values) = Listed(KeyedBy(keys, values))
<1>1. PICK K : K = {keys[i] : i \in DOMAIN keys}
  OBVIOUS
<1>2. K \in SUBSET Seq(Units) /\ IsFiniteSet(K)
  BY <1>1, KeySet
<1>3. PICK g : g = KeyedBy(keys, values)
  OBVIOUS
<1>4. DOMAIN g = K /\ \A k \in K : g[k] = values[CHOOSE i \in DOMAIN keys : keys[i] = k]
  BY <1>1, <1>3 DEF KeyedBy
<1>5. DOMAIN Nth(K) = 1..Cardinality(K)
  BY DEF Nth
<1>6. ByKey(keys, values) =
        [n_1 \in DOMAIN Nth(K) |->
            [key |-> writeString(Nth(K)[n_1]),
             val |-> values[CHOOSE i \in DOMAIN keys : keys[i] = Nth(K)[n_1]]]]
  BY <1>1, Zenon DEF ByKey, Nth
<1>7. \A m \in 1..Cardinality(K) :
        g[Nth(K)[m]] = values[CHOOSE i \in DOMAIN keys : keys[i] = Nth(K)[m]]
  BY <1>2, <1>4, NthTypes
<1>8. ByKey(keys, values) =
        [m \in 1..Cardinality(K) |-> [key |-> writeString(Nth(K)[m]), val |-> g[Nth(K)[m]]]]
  BY <1>5, <1>6, <1>7
<1> QED
  BY <1>3, <1>4, <1>8 DEF Listed

(* What the members list is what they were made from.                      *)
Lists(K, h, keys, values) ==
    /\ DOMAIN keys = 1..Cardinality(K)
    /\ \A m \in 1..Cardinality(K) : keys[m] = Nth(K)[m] /\ values[m] = h[Nth(K)[m]]

LEMMA ListedKeyed ==
    ASSUME NEW K \in SUBSET Seq(Units), IsFiniteSet(K), NEW h, NEW keys, NEW values,
           Lists(K, h, keys, values)
    PROVE  KeyedBy(keys, values) = [k \in K |-> h[k]]
<1>1. PICK c \in Nat : c = Cardinality(K)
  BY FS_CardinalityType
<1>2. DOMAIN keys = 1..c /\ \A m \in 1..c : keys[m] = Nth(K)[m] /\ values[m] = h[Nth(K)[m]]
  BY <1>1 DEF Lists
<1>3. {keys[m] : m \in DOMAIN keys} = K
  <2>1. \A m \in 1..c : keys[m] \in K
    BY <1>1, <1>2, NthTypes
  <2>2. \A k \in K : \E m \in 1..c : keys[m] = k
    BY <1>1, <1>2, NthTypes
  <2>3. ASSUME NEW x PROVE x \in {keys[m] : m \in DOMAIN keys} <=> x \in K
    BY <1>2, <2>1, <2>2
  <2> QED
    BY <2>3
<1>4. ASSUME NEW k \in K PROVE values[CHOOSE m \in DOMAIN keys : keys[m] = k] = h[k]
  <2>1. PICK m : m = CHOOSE x \in DOMAIN keys : keys[x] = k
    OBVIOUS
  <2>2. m \in 1..c /\ keys[m] = k
    BY <1>2, <1>3, <2>1
  <2>3. values[m] = h[k]
    BY <1>2, <2>2
  <2> QED
    BY <2>1, <2>3
<1>5. KeyedBy(keys, values) = [k \in K |-> values[CHOOSE m \in DOMAIN keys : keys[m] = k]]
  BY <1>3 DEF KeyedBy
<1> QED
  BY <1>4, <1>5

-----------------------------------------------------------------------------
(* The canonical form and the meaning, by the kind of the document.        *)
LEMMA LevelsGrow == \A n \in Nat : \A m \in 0..n : Level[m] \subseteq Level[n]
<1> DEFINE S == {n \in Nat : \A m \in 0..n : Level[m] \subseteq Level[n]}
<1>1. 0 \in S
  OBVIOUS
<1>2. ASSUME NEW n \in Nat, n \in S PROVE n + 1 \in S
  <2>1. ASSUME NEW m \in 0..(n + 1) PROVE Level[m] \subseteq Level[n + 1]
    <3>1. CASE m = n + 1
      BY <3>1
    <3>2. CASE m # n + 1
      <4>1. m \in 0..n
        BY <3>2
      <4>2. Level[m] \subseteq Level[n]
        BY <1>2, <4>1
      <4> QED
        BY <4>2, LevelsNested
    <3> QED
      BY <3>1, <3>2
  <2> QED
    BY <2>1
<1> HIDE DEF S
<1>3. \A n \in Nat : n \in S
  BY <1>1, <1>2, Induction
<1> QED
  BY <1>3 DEF S

(* The values in a document nested no deeper than n + 1.                   *)
Inner(n) == n \in Nat /\ n + 1 <= MaxNesting

LEMMA InnerLevels ==
    ASSUME NEW n, Inner(n)
    PROVE  Level[n] \subseteq Document /\ Level[n + 1] \subseteq Document /\ Scalar \subseteq Document
           /\ n \in Nat
<1>1. MaxNesting \in Nat /\ n \in 0..MaxNesting /\ n + 1 \in 0..MaxNesting /\ 0 \in 0..MaxNesting
  BY DocumentLevel DEF Inner
<1> QED
  BY <1>1, LevelsGrow, LevelIs DEF Document, Inner

Names(v) == [i \in DOMAIN v[2] |-> Named(v[2][i].key)]

Parts(f, v) == [i \in DOMAIN v[2] |-> f[v[2][i].val]]

Faulty(v) ==
    \/ \E i \in DOMAIN v[2] : ~WellFormed(v[2][i].key)
    \/ \E i, j \in DOMAIN v[2] : i # j /\ Names(v)[i] = Names(v)[j]

LEMMA MemberTypes ==
    ASSUME NEW n, Inner(n), NEW v, v[2] \in Seq(MemberOf(Level[n]))
    PROVE  /\ \A i \in DOMAIN v[2] : v[2][i].key \in Seq(Piece) /\ v[2][i].val \in Level[n]
                                    /\ v[2][i] = [key |-> v[2][i].key, val |-> v[2][i].val]
           /\ DOMAIN v[2] = 1..Len(v[2]) /\ Len(v[2]) \in Nat
           /\ Names(v) \in [1..Len(v[2]) -> Seq(Units)]
<1>1. \A i \in DOMAIN v[2] : v[2][i] \in MemberOf(Level[n])
  BY ElementOfSeq
<1>2. \A i \in DOMAIN v[2] : v[2][i].key \in Seq(Piece) /\ v[2][i].val \in Level[n]
                            /\ v[2][i] = [key |-> v[2][i].key, val |-> v[2][i].val]
  BY <1>1 DEF MemberOf
<1>3. DOMAIN v[2] = 1..Len(v[2]) /\ Len(v[2]) \in Nat
  OBVIOUS
<1>4. \A i \in DOMAIN v[2] : Named(v[2][i].key) \in Seq(Units)
  BY <1>2, NamedTypes
<1> QED
  BY <1>2, <1>3, <1>4 DEF Names

CanonicalObjectOf(keys, spelled, values) ==
    IF \/ \E i \in DOMAIN keys : ~validateTextEncoding(spelled[i]) \/ values[i] = Reject
       \/ \E i, j \in DOMAIN keys : i # j /\ keys[i] = keys[j]
    THEN Reject
    ELSE <<"obj", ByKey(keys, values)>>

LEMMA CanonicalObject ==
    ASSUME NEW n, Inner(n), NEW v \in Level[n + 1], v[1] = "obj",
           v[2] \in Seq(MemberOf(Level[n]))
    PROVE  canonicalizeToken[v] =
            IF Faulty(v) \/ \E i \in DOMAIN v[2] : canonicalizeToken[v[2][i].val] = Reject
            THEN Reject
            ELSE <<"obj", Listed(KeyedBy(Names(v), Parts(canonicalizeToken, v)))>>
<1>1. PICK spelled : spelled = [i \in DOMAIN v[2] |-> v[2][i].key]
  OBVIOUS
<1>2. PICK values : values = Parts(canonicalizeToken, v)
  OBVIOUS
<1>3. PICK keys : keys = [i \in DOMAIN spelled |-> Decode(spelled[i])]
  OBVIOUS
<1>4. canonicalizeToken[v] = canonicalizeObject(spelled, values)
  <2>1. v \in Document
    BY InnerLevels
  <2>2. canonicalizeToken[v] = CanonicalStep(canonicalizeToken, v)
    BY <2>1, CanonicalDef
  <2> QED
    BY <1>1, <1>2, <2>2 DEF CanonicalStep, Parts
<1>5. DOMAIN spelled = DOMAIN v[2] /\ DOMAIN keys = DOMAIN v[2] /\ DOMAIN Names(v) = DOMAIN v[2]
  BY <1>1, <1>3 DEF Names
<1>6. \A i \in DOMAIN v[2] :
        /\ spelled[i] = v[2][i].key /\ spelled[i] \in Seq(Piece)
        /\ values[i] = canonicalizeToken[v[2][i].val]
        /\ validateTextEncoding(spelled[i]) <=> WellFormed(spelled[i])
        /\ keys[i] = Decode(spelled[i]) /\ Names(v)[i] = Named(spelled[i])
  BY <1>1, <1>2, <1>3, MemberTypes, EncodingValid DEF Parts, Names
<1>7. ASSUME \A i \in DOMAIN v[2] : WellFormed(spelled[i])
      PROVE  keys = Names(v)
  <2>1. \A i \in DOMAIN v[2] : keys[i] = Names(v)[i]
    BY <1>6, <1>7, WellFormedDecodes
  <2> QED
    BY <1>3, <1>5, <2>1 DEF Names
<1>8. canonicalizeObject(spelled, values) =
        IF \/ \E i \in DOMAIN keys : ~validateTextEncoding(spelled[i]) \/ values[i] = Reject
           \/ \E i, j \in DOMAIN keys : i # j /\ keys[i] = keys[j]
        THEN Reject
        ELSE <<"obj", ByKey(keys, values)>>
  <2>1. canonicalizeObject(spelled, values) =
            CanonicalObjectOf([i \in DOMAIN spelled |-> Decode(spelled[i])], spelled, values)
    BY Zenon DEF canonicalizeObject, CanonicalObjectOf
  <2>2. canonicalizeObject(spelled, values) = CanonicalObjectOf(keys, spelled, values)
    BY <1>3, <2>1
  <2> QED
    BY <2>2, Zenon DEF CanonicalObjectOf
<1>9. CASE \E i \in DOMAIN v[2] : ~WellFormed(spelled[i]) \/ values[i] = Reject
  <2>1. canonicalizeObject(spelled, values) = Reject
    BY <1>5, <1>6, <1>8, <1>9
  <2>2. Faulty(v) \/ \E i \in DOMAIN v[2] : canonicalizeToken[v[2][i].val] = Reject
    BY <1>6, <1>9 DEF Faulty
  <2> QED
    BY <1>4, <2>1, <2>2
<1>10. CASE \A i \in DOMAIN v[2] : WellFormed(spelled[i]) /\ values[i] # Reject
  <2>1. keys = Names(v)
    BY <1>7, <1>10
  <2>2. Faulty(v) \/ (\E i \in DOMAIN v[2] : canonicalizeToken[v[2][i].val] = Reject)
            <=> \E i, j \in DOMAIN keys : i # j /\ keys[i] = keys[j]
    BY <1>5, <1>6, <1>10, <2>1 DEF Faulty
  <2>3. ~ \E i \in DOMAIN keys : ~validateTextEncoding(spelled[i]) \/ values[i] = Reject
    BY <1>5, <1>6, <1>10
  <2>4. ByKey(keys, values) = Listed(KeyedBy(keys, values))
    BY <2>1, MemberTypes, ByKeyIs
  <2> QED
    BY <1>2, <1>4, <1>8, <2>1, <2>2, <2>3, <2>4
<1> QED
  BY <1>9, <1>10

ObjectMeaningOf(keys, spelled, parts) ==
    IF \/ \E i \in DOMAIN keys : ~WellFormed(spelled[i]) \/ parts[i] = Undefined
       \/ \E i, j \in DOMAIN keys : i # j /\ keys[i] = keys[j]
    THEN Undefined
    ELSE <<"obj", [k \in {keys[i] : i \in DOMAIN keys} |->
                    parts[CHOOSE i \in DOMAIN keys : keys[i] = k]]>>

LEMMA MeaningObject ==
    ASSUME NEW n, Inner(n), NEW v \in Level[n + 1], v[1] = "obj",
           v[2] \in Seq(MemberOf(Level[n]))
    PROVE  Meaning[v] =
            IF Faulty(v) \/ \E i \in DOMAIN v[2] : Meaning[v[2][i].val] = Undefined
            THEN Undefined
            ELSE <<"obj", KeyedBy(Names(v), Parts(Meaning, v))>>
<1>1. PICK spelled : spelled = [i \in DOMAIN v[2] |-> v[2][i].key]
  OBVIOUS
<1>2. PICK parts : parts = Parts(Meaning, v)
  OBVIOUS
<1>3. PICK keys : keys = [i \in DOMAIN spelled |-> Named(spelled[i])]
  OBVIOUS
<1>4. Meaning[v] = ObjectMeaning(spelled, parts)
  <2>1. v \in Document
    BY InnerLevels
  <2>2. Meaning[v] = MeaningStep(Meaning, v)
    BY <2>1, MeaningDef
  <2> QED
    BY <1>1, <1>2, <2>2 DEF MeaningStep, Parts
<1>5. DOMAIN spelled = DOMAIN v[2] /\ DOMAIN keys = DOMAIN v[2] /\ keys = Names(v)
  BY <1>1, <1>3 DEF Names
<1>6. \A i \in DOMAIN v[2] : spelled[i] = v[2][i].key /\ parts[i] = Meaning[v[2][i].val]
  BY <1>1, <1>2 DEF Parts
<1>7. ObjectMeaning(spelled, parts) =
        IF \/ \E i \in DOMAIN keys : ~WellFormed(spelled[i]) \/ parts[i] = Undefined
           \/ \E i, j \in DOMAIN keys : i # j /\ keys[i] = keys[j]
        THEN Undefined
        ELSE <<"obj", KeyedBy(keys, parts)>>
  <2>0. ObjectMeaning(spelled, parts) =
            ObjectMeaningOf([i \in DOMAIN spelled |-> Named(spelled[i])], spelled, parts)
    BY Zenon DEF ObjectMeaning, ObjectMeaningOf
  <2>1. ObjectMeaning(spelled, parts) = ObjectMeaningOf(keys, spelled, parts)
    BY <1>3, <2>0
  <2> QED
    BY <2>1, Zenon DEF ObjectMeaningOf, KeyedBy
<1>8. Faulty(v) \/ (\E i \in DOMAIN v[2] : Meaning[v[2][i].val] = Undefined)
        <=> \/ \E i \in DOMAIN keys : ~WellFormed(spelled[i]) \/ parts[i] = Undefined
            \/ \E i, j \in DOMAIN keys : i # j /\ keys[i] = keys[j]
  BY <1>5, <1>6 DEF Faulty
<1> QED
  BY <1>2, <1>4, <1>5, <1>7, <1>8

LEMMA ScalarForms ==
    ASSUME NEW v \in Scalar
    PROVE  /\ canonicalizeToken[v] = canonicalizeScalar(v) /\ Meaning[v] = ScalarMeaning(v)
           /\ v \in Document /\ v[1] # "arr" /\ v[1] # "obj"
<1>1. v[1] # "arr" /\ v[1] # "obj"
  BY Kinds
<1>2. v \in Document
  BY DocumentLevel, LevelIs, LevelsGrow
<1> QED
  BY <1>1, <1>2, CanonicalDef, MeaningDef DEF CanonicalStep, MeaningStep

LEMMA ArrayForms ==
    ASSUME NEW n, Inner(n), NEW v \in Level[n + 1], v[1] = "arr", v[2] \in Seq(Level[n])
    PROVE  /\ canonicalizeToken[v] =
                IF \E i \in DOMAIN v[2] : canonicalizeToken[v[2][i]] = Reject THEN Reject
                ELSE <<"arr", [i \in DOMAIN v[2] |-> canonicalizeToken[v[2][i]]]>>
           /\ Meaning[v] =
                IF \E i \in DOMAIN v[2] : Meaning[v[2][i]] = Undefined THEN Undefined
                ELSE <<"arr", [i \in DOMAIN v[2] |-> Meaning[v[2][i]]]>>
<1>1. v \in Document
  BY InnerLevels
<1>2. canonicalizeToken[v] = canonicalizeArray([i \in DOMAIN v[2] |-> canonicalizeToken[v[2][i]]])
  BY <1>1, CanonicalDef DEF CanonicalStep
<1>3. Meaning[v] = ArrayMeaning([i \in DOMAIN v[2] |-> Meaning[v[2][i]]])
  BY <1>1, MeaningDef DEF MeaningStep
<1> QED
  BY <1>2, <1>3 DEF canonicalizeArray, ArrayMeaning

-----------------------------------------------------------------------------
(* Exactly what means something has a canonical form, which means the same.*)
Keeps(v, n) ==
    /\ canonicalizeToken[v] = Reject <=> Meaning[v] = Undefined
    /\ canonicalizeToken[v] # Reject =>
        canonicalizeToken[v] \in Level[n] /\ Meaning[canonicalizeToken[v]] = Meaning[v]

LEMMA ScalarKeeps == \A v \in Scalar : Keeps(v, 0)
<1>1. ASSUME NEW v \in Scalar PROVE Keeps(v, 0)
  <2>1. /\ canonicalizeToken[v] = canonicalizeScalar(v) /\ Meaning[v] = ScalarMeaning(v)
        /\ v = <<v[1], v[2]>>
    BY ScalarForms, Kinds
  <2>2. CASE v[1] = "num"
    <3>1. PICK m : m = v[2] /\ m \in DOMAIN IntegerValue \cup FloatingPoint
      BY <2>2, Kinds
    <3>2. canonicalizeToken[v] =
            IF m \in FloatingPoint THEN Reject ELSE <<"num", writeNumber(m)>>
      BY <2>1, <2>2, <3>1 DEF canonicalizeScalar
    <3>3. Meaning[v] =
            IF m \in DOMAIN IntegerValue THEN <<"num", IntegerValue[m]>> ELSE Undefined
      BY <2>1, <2>2, <3>1 DEF ScalarMeaning
    <3>4. m \in FloatingPoint <=> m \notin DOMAIN IntegerValue
      BY <3>1, NumberAssumption
    <3>5. CASE m \in FloatingPoint
      BY <3>2, <3>3, <3>4, <3>5 DEF Keeps
    <3>6. CASE m \notin FloatingPoint
      <4>1. PICK w : w = <<"num", writeNumber(m)>>
        OBVIOUS
      <4>2. writeNumber(m) \in DOMAIN IntegerValue
            /\ IntegerValue[writeNumber(m)] = IntegerValue[m]
        BY <3>4, <3>6, NumberAssumption DEF writeNumber
      <4>3. w \in Scalar /\ w[1] = "num" /\ w[2] = writeNumber(m)
        BY <4>1, <4>2 DEF Scalar, Plain
      <4>4. Meaning[w] = <<"num", IntegerValue[m]>>
        BY <4>2, <4>3, ScalarForms DEF ScalarMeaning
      <4>5. canonicalizeToken[v] = w /\ Meaning[v] = <<"num", IntegerValue[m]>>
        BY <3>2, <3>3, <3>4, <3>6, <4>1
      <4>6. w # Reject /\ <<"num", IntegerValue[m]>> # Undefined
        BY <4>1 DEF Reject, Undefined
      <4> QED
        BY <4>3, <4>4, <4>5, <4>6, LevelIs DEF Keeps
    <3> QED
      BY <3>5, <3>6
  <2>3. CASE v[1] = "str"
    <3>1. PICK s \in Seq(Piece) : s = v[2]
      BY <2>3, Kinds
    <3>2. canonicalizeToken[v] =
            IF WellFormed(s) THEN <<"str", writeString(Decode(s))>> ELSE Reject
      BY <2>1, <2>3, <3>1, EncodingValid DEF canonicalizeScalar
    <3>3. Meaning[v] = IF WellFormed(s) THEN <<"str", Named(s)>> ELSE Undefined
      BY <2>1, <2>3, <3>1 DEF ScalarMeaning
    <3>4. CASE ~WellFormed(s)
      BY <3>2, <3>3, <3>4 DEF Keeps
    <3>5. CASE WellFormed(s)
      <4>1. PICK t : t = writeString(Named(s))
        OBVIOUS
      <4>2. t \in Seq(Piece) /\ Named(t) = Named(s) /\ WellFormed(t)
        BY <3>5, <4>1, NamedTypes, WrittenString, RewrittenWellFormed
      <4>3. PICK w : w = <<"str", t>>
        OBVIOUS
      <4>4. w \in Scalar /\ w[1] = "str" /\ w[2] = t
        BY <4>2, <4>3 DEF Scalar, Plain
      <4>5. Meaning[w] = <<"str", Named(s)>>
        BY <4>2, <4>4, ScalarForms DEF ScalarMeaning
      <4>6. canonicalizeToken[v] = w /\ Meaning[v] = <<"str", Named(s)>>
        BY <3>2, <3>3, <3>5, <4>1, <4>3, WellFormedDecodes
      <4>7. w # Reject /\ <<"str", Named(s)>> # Undefined
        BY <4>3 DEF Reject, Undefined
      <4> QED
        BY <4>4, <4>5, <4>6, <4>7, LevelIs DEF Keeps
    <3> QED
      BY <3>4, <3>5
  <2>4. CASE v[1] \in {"lit", "sig"}
    <3>1. canonicalizeToken[v] = v /\ Meaning[v] = v
      BY <2>1, <2>4 DEF canonicalizeScalar, ScalarMeaning
    <3>2. v # Reject /\ v # Undefined
      BY <2>1, <2>4 DEF Reject, Undefined
    <3> QED
      BY <3>1, <3>2, LevelIs DEF Keeps
  <2> QED
    BY <2>2, <2>3, <2>4, Kinds
<1> QED
  BY <1>1

LEMMA ArrayKeeps ==
    ASSUME NEW n, Inner(n), \A c \in Level[n] : Keeps(c, n),
           NEW v \in Level[n + 1], v[1] = "arr", v[2] \in Seq(Level[n])
    PROVE  Keeps(v, n + 1)
<1>1. \A i \in DOMAIN v[2] : Keeps(v[2][i], n)
  OBVIOUS
<1>2. CASE \E i \in DOMAIN v[2] : canonicalizeToken[v[2][i]] = Reject
  <2>1. PICK i \in DOMAIN v[2] : canonicalizeToken[v[2][i]] = Reject
    BY <1>2
  <2>2. Meaning[v[2][i]] = Undefined
    BY <1>1, <2>1 DEF Keeps
  <2>3. canonicalizeToken[v] = Reject
    BY <1>2, ArrayForms
  <2>4. Meaning[v] = Undefined
    BY <2>2, ArrayForms
  <2> QED
    BY <2>3, <2>4 DEF Keeps
<1>3. CASE \A i \in DOMAIN v[2] : canonicalizeToken[v[2][i]] # Reject
  <2>1. PICK values : values = [i \in DOMAIN v[2] |-> canonicalizeToken[v[2][i]]]
    OBVIOUS
  <2>2. PICK parts : parts = [i \in DOMAIN v[2] |-> Meaning[v[2][i]]]
    OBVIOUS
  <2>3. PICK w : w = <<"arr", values>>
    OBVIOUS
  <2>4. canonicalizeToken[v] = w
    BY <1>3, <2>1, <2>3, ArrayForms
  <2>5. \A i \in DOMAIN v[2] : Meaning[v[2][i]] # Undefined
    BY <1>1, <1>3 DEF Keeps
  <2>6. Meaning[v] = <<"arr", parts>>
    BY <2>2, <2>5, ArrayForms
  <2>7. DOMAIN values = DOMAIN v[2] /\ values \in Seq(Level[n])
    <3>1. \A i \in 1..Len(v[2]) : canonicalizeToken[v[2][i]] \in Level[n]
      BY <1>1, <1>3 DEF Keeps
    <3> QED
      BY <2>1, <3>1
  <2>8. w \in Level[n + 1] /\ w[1] = "arr" /\ w[2] = values
    BY <2>3, <2>7, LevelIs, InnerLevels DEF Array
  <2>9. \A i \in DOMAIN v[2] : Meaning[values[i]] = parts[i] /\ parts[i] # Undefined
    BY <1>1, <1>3, <2>1, <2>2, <2>5 DEF Keeps
  <2>10. [i \in DOMAIN values |-> Meaning[values[i]]] = parts
    BY <2>2, <2>7, <2>9
  <2>11. Meaning[w] = <<"arr", parts>>
    BY <2>7, <2>8, <2>9, <2>10, ArrayForms
  <2>12. w # Reject /\ <<"arr", parts>> # Undefined
    BY <2>3 DEF Reject, Undefined
  <2> QED
    BY <2>4, <2>6, <2>8, <2>11, <2>12 DEF Keeps
<1> QED
  BY <1>2, <1>3

LEMMA ObjectKeeps ==
    ASSUME NEW n, Inner(n), \A c \in Level[n] : Keeps(c, n),
           NEW v \in Level[n + 1], v[1] = "obj", v[2] \in Seq(MemberOf(Level[n]))
    PROVE  Keeps(v, n + 1)
<1>1. \A i \in DOMAIN v[2] : Keeps(v[2][i].val, n)
  BY MemberTypes
<1>2. CASE Faulty(v) \/ \E i \in DOMAIN v[2] : canonicalizeToken[v[2][i].val] = Reject
  <2>1. canonicalizeToken[v] = Reject
    BY <1>2, CanonicalObject
  <2>2. Faulty(v) \/ \E i \in DOMAIN v[2] : Meaning[v[2][i].val] = Undefined
    BY <1>1, <1>2 DEF Keeps
  <2>3. Meaning[v] = Undefined
    BY <2>2, MeaningObject
  <2> QED
    BY <2>1, <2>3 DEF Keeps
<1>3. CASE ~Faulty(v) /\ \A i \in DOMAIN v[2] : canonicalizeToken[v[2][i].val] # Reject
  <2>1. PICK K : K = {Names(v)[i] : i \in DOMAIN Names(v)}
    OBVIOUS
  <2>2. K \in SUBSET Seq(Units) /\ IsFiniteSet(K)
    <3>1. PICK l \in Nat : l = Len(v[2]) /\ Names(v) \in [1..l -> Seq(Units)]
      BY MemberTypes
    <3>2. PICK keys \in [1..l -> Seq(Units)] : keys = Names(v)
      BY <3>1
    <3> QED
      BY <2>1, <3>2, KeySet
  <2>3. PICK g : g = KeyedBy(Names(v), Parts(canonicalizeToken, v))
    OBVIOUS
  <2>4. PICK h : h = KeyedBy(Names(v), Parts(Meaning, v))
    OBVIOUS
  <2>5. DOMAIN Names(v) = DOMAIN v[2]
    BY DEF Names
  <2>6. DOMAIN g = K /\ DOMAIN h = K /\ h = [k \in K |-> h[k]]
    BY <2>1, <2>3, <2>4 DEF KeyedBy
  <2>7. ASSUME NEW k \in K
        PROVE  /\ g[k] \in Level[n] /\ Meaning[g[k]] = h[k] /\ h[k] # Undefined
               /\ \E s \in Seq(Piece) : WellFormed(s) /\ Named(s) = k
    <3>1. PICK i : i = CHOOSE x \in DOMAIN Names(v) : Names(v)[x] = k
      OBVIOUS
    <3>2. i \in DOMAIN v[2] /\ Names(v)[i] = k
      BY <2>1, <2>5, <3>1
    <3>3. g[k] = canonicalizeToken[v[2][i].val] /\ h[k] = Meaning[v[2][i].val]
      BY <2>1, <2>3, <2>4, <3>1, <3>2 DEF KeyedBy, Parts
    <3>4. Keeps(v[2][i].val, n) /\ canonicalizeToken[v[2][i].val] # Reject
      BY <1>1, <1>3, <3>2
    <3>5. WellFormed(v[2][i].key) /\ v[2][i].key \in Seq(Piece) /\ Named(v[2][i].key) = k
      BY <1>3, <3>2, MemberTypes DEF Faulty, Names
    <3> QED
      BY <3>3, <3>4, <3>5 DEF Keeps
  <2>8. PICK members : members = Listed(g)
    OBVIOUS
  <2>9. PICK c \in Nat : c = Cardinality(K)
    BY <2>2, FS_CardinalityType
  <2>10. members = [m \in 1..c |-> [key |-> writeString(Nth(K)[m]), val |-> g[Nth(K)[m]]]]
    BY <2>6, <2>8, <2>9 DEF Listed
  <2>11. ASSUME NEW m \in 1..c
         PROVE  /\ members[m] \in MemberOf(Level[n])
                /\ WellFormed(members[m].key) /\ Named(members[m].key) = Nth(K)[m]
                /\ Meaning[members[m].val] = h[Nth(K)[m]] /\ h[Nth(K)[m]] # Undefined
    <3>1. PICK k \in K : k = Nth(K)[m]
      BY <2>2, <2>9, NthTypes
    <3>2. PICK s \in Seq(Piece) : WellFormed(s) /\ Named(s) = k
      BY <2>7
    <3>3. PICK key : key = writeString(k)
      OBVIOUS
    <3>4. key \in Seq(Piece) /\ WellFormed(key) /\ Named(key) = k
      BY <3>2, <3>3, NamedTypes, WrittenString, RewrittenWellFormed
    <3>5. members[m] = [key |-> key, val |-> g[k]]
      BY <2>10, <3>1, <3>3
    <3>6. members[m].key = key /\ members[m].val = g[k]
      BY <3>5
    <3>7. members[m] \in MemberOf(Level[n])
      BY <2>7, <3>4, <3>5 DEF MemberOf
    <3> QED
      BY <2>7, <3>1, <3>4, <3>6, <3>7
  <2>12. DOMAIN members = 1..c /\ members \in Seq(MemberOf(Level[n]))
    BY <2>9, <2>10, <2>11
  <2>13. PICK w : w = <<"obj", members>>
    OBVIOUS
  <2>14. w \in Level[n + 1] /\ w[1] = "obj" /\ w[2] = members
    BY <2>12, <2>13, LevelIs, InnerLevels DEF Object
  <2>15. canonicalizeToken[v] = w
    BY <1>3, <2>3, <2>8, <2>13, CanonicalObject
  <2>16. Meaning[v] = <<"obj", h>>
    <3>1. \A i \in DOMAIN v[2] : Meaning[v[2][i].val] # Undefined
      BY <1>1, <1>3 DEF Keeps
    <3> QED
      BY <1>3, <2>4, <3>1, MeaningObject
  <2>17. Names(w) = [m \in 1..c |-> Nth(K)[m]]
    BY <2>11, <2>12, <2>14 DEF Names
  <2>18. ~Faulty(w)
    <3>1. \A i, j \in 1..c : Names(w)[i] = Names(w)[j] => i = j
      BY <2>2, <2>9, <2>17, NthTypes
    <3> QED
      BY <2>11, <2>12, <2>14, <3>1 DEF Faulty
  <2>19. \A m \in 1..c : Parts(Meaning, w)[m] = h[Nth(K)[m]]
    BY <2>11, <2>12, <2>14 DEF Parts
  <2>20. KeyedBy(Names(w), Parts(Meaning, w)) = h
    <3>1. PICK keys : keys = Names(w)
      OBVIOUS
    <3>2. PICK values : values = Parts(Meaning, w)
      OBVIOUS
    <3>3. DOMAIN keys = 1..Cardinality(K)
      BY <2>9, <2>17, <3>1
    <3>4. \A m \in 1..Cardinality(K) : keys[m] = Nth(K)[m] /\ values[m] = h[Nth(K)[m]]
      BY <2>9, <2>17, <2>19, <3>1, <3>2
    <3>5. Lists(K, h, keys, values)
      BY <3>3, <3>4 DEF Lists
    <3>6. KeyedBy(keys, values) = [k \in K |-> h[k]]
      BY <2>2, <3>5, ListedKeyed
    <3> QED
      BY <2>6, <3>1, <3>2, <3>6
  <2>21. \A m \in DOMAIN w[2] : Meaning[w[2][m].val] # Undefined
    BY <2>11, <2>12, <2>14
  <2>22. Meaning[w] = <<"obj", h>>
    BY <2>12, <2>14, <2>18, <2>20, <2>21, MeaningObject
  <2>23. w # Reject /\ <<"obj", h>> # Undefined
    BY <2>13 DEF Reject, Undefined
  <2> QED
    BY <2>14, <2>15, <2>16, <2>22, <2>23 DEF Keeps
<1> QED
  BY <1>2, <1>3

LEMMA KeepsAbove ==
    ASSUME NEW v, NEW m \in Nat, NEW n \in Nat, m <= n, Keeps(v, m)
    PROVE  Keeps(v, n)
<1>1. Level[m] \subseteq Level[n]
  BY LevelsGrow
<1> QED
  BY <1>1 DEF Keeps

LEMMA CanonicalKeeps == \A v \in Document : Keeps(v, MaxNesting)
<1> DEFINE S == {n \in Nat : n <= MaxNesting => \A v \in Level[n] : Keeps(v, n)}
<1>1. 0 \in S
  BY ScalarKeeps, LevelIs
<1>2. ASSUME NEW n \in Nat, n \in S PROVE n + 1 \in S
  <2> SUFFICES ASSUME n + 1 <= MaxNesting, NEW v \in Level[n + 1] PROVE Keeps(v, n + 1)
    OBVIOUS
  <2>1. Inner(n)
    BY DEF Inner
  <2>2. \A c \in Level[n] : Keeps(c, n)
    BY <1>2, DocumentLevel
  <2> HIDE DEF S
  <2>3. CASE v \in Scalar
    BY <2>3, ScalarKeeps, KeepsAbove
  <2>4. CASE v[1] = "arr" /\ v[2] \in Seq(Level[n])
    BY <2>1, <2>2, <2>4, ArrayKeeps
  <2>5. CASE v[1] = "obj" /\ v[2] \in Seq(MemberOf(Level[n]))
    BY <2>1, <2>2, <2>5, ObjectKeeps
  <2> QED
    BY <2>3, <2>4, <2>5, Composite
<1> HIDE DEF S
<1>3. \A n \in Nat : n \in S
  BY <1>1, <1>2, Induction
<1> QED
  BY <1>3, DocumentLevel DEF S

-----------------------------------------------------------------------------
(* What means the same has the same canonical form.                        *)
Forgets(v) ==
    \A w \in Document :
        Meaning[v] # Undefined /\ Meaning[w] = Meaning[v]
            => canonicalizeToken[w] = canonicalizeToken[v]

LEMMA InnerMost ==
    /\ Inner(MaxNesting - 1) /\ Document = Level[(MaxNesting - 1) + 1]
    /\ Level[MaxNesting - 1] \subseteq Document
BY DocumentLevel DEF Inner

LEMMA MeaningKind ==
    ASSUME NEW v \in Document, Meaning[v] # Undefined
    PROVE  Meaning[v][1] = v[1]
<1>1. PICK n : Inner(n) /\ v \in Level[n + 1]
  BY InnerMost
<1>2. CASE v \in Scalar
  <2>1. Meaning[v] = ScalarMeaning(v) /\ v[1] \in {"num", "str", "lit", "sig"}
    BY <1>2, ScalarForms, Kinds
  <2> QED
    BY <2>1 DEF ScalarMeaning
<1>3. CASE v[1] = "arr" /\ v[2] \in Seq(Level[n])
  <2>1. PICK parts : parts = [i \in DOMAIN v[2] |-> Meaning[v[2][i]]]
    OBVIOUS
  <2>2. Meaning[v] = <<"arr", parts>>
    BY <1>1, <1>3, <2>1, ArrayForms
  <2> QED
    BY <1>3, <2>2
<1>4. CASE v[1] = "obj" /\ v[2] \in Seq(MemberOf(Level[n]))
  <2>1. PICK h : h = KeyedBy(Names(v), Parts(Meaning, v))
    OBVIOUS
  <2>2. Meaning[v] = <<"obj", h>>
    BY <1>1, <1>4, <2>1, MeaningObject
  <2> QED
    BY <1>4, <2>2
<1>5. n \in Nat
  BY <1>1 DEF Inner
<1> QED
  BY <1>1, <1>2, <1>3, <1>4, <1>5, Composite

LEMMA ScalarForgets == \A v \in Scalar : Forgets(v)
<1>1. ASSUME NEW v \in Scalar, NEW w \in Document,
             Meaning[v] # Undefined, Meaning[w] = Meaning[v]
      PROVE  canonicalizeToken[w] = canonicalizeToken[v]
  <2>1. w[1] = v[1] /\ v \in Document
    BY <1>1, ScalarForms, MeaningKind
  <2>2. w \in Scalar
    <3>1. v[1] # "arr" /\ v[1] # "obj"
      BY ScalarForms
    <3>2. w \in Level[(MaxNesting - 1) + 1] /\ MaxNesting - 1 \in Nat
      BY DocumentLevel
    <3> QED
      BY <2>1, <3>1, <3>2, Composite
  <2>3. /\ canonicalizeToken[v] = canonicalizeScalar(v) /\ Meaning[v] = ScalarMeaning(v)
        /\ canonicalizeToken[w] = canonicalizeScalar(w) /\ Meaning[w] = ScalarMeaning(w)
    BY <2>2, ScalarForms
  <2>4. CASE v[1] = "num"
    <3>1. PICK m, n : m = v[2] /\ n = w[2]
      OBVIOUS
    <3>2. /\ Meaning[v] = IF m \in DOMAIN IntegerValue THEN <<"num", IntegerValue[m]>> ELSE Undefined
          /\ Meaning[w] = IF n \in DOMAIN IntegerValue THEN <<"num", IntegerValue[n]>> ELSE Undefined
      BY <2>1, <2>3, <2>4, <3>1 DEF ScalarMeaning
    <3>3. m \in DOMAIN IntegerValue /\ n \in DOMAIN IntegerValue
      BY <1>1, <3>2
    <3>4. IntegerValue[m] = IntegerValue[n]
      BY <1>1, <3>2, <3>3
    <3>5. m \notin FloatingPoint /\ n \notin FloatingPoint /\ writeNumber(m) = writeNumber(n)
      BY <3>3, <3>4, NumberAssumption DEF writeNumber
    <3> QED
      BY <2>1, <2>3, <2>4, <3>1, <3>5 DEF canonicalizeScalar
  <2>5. CASE v[1] = "str"
    <3>1. PICK s \in Seq(Piece), t \in Seq(Piece) : s = v[2] /\ t = w[2]
      BY <2>1, <2>2, <2>5, Kinds
    <3>2. /\ Meaning[v] = IF WellFormed(s) THEN <<"str", Named(s)>> ELSE Undefined
          /\ Meaning[w] = IF WellFormed(t) THEN <<"str", Named(t)>> ELSE Undefined
      BY <2>1, <2>3, <2>5, <3>1 DEF ScalarMeaning
    <3>3. WellFormed(s) /\ WellFormed(t)
      BY <1>1, <3>2
    <3>4. Named(s) = Named(t)
      BY <1>1, <3>2, <3>3
    <3>5. /\ Decode(s) = Named(s) /\ Decode(t) = Named(t)
          /\ validateTextEncoding(s) /\ validateTextEncoding(t)
      BY <3>3, WellFormedDecodes, EncodingValid
    <3>6. /\ canonicalizeToken[v] = <<"str", writeString(Named(s))>>
          /\ canonicalizeToken[w] = <<"str", writeString(Named(t))>>
      BY <2>1, <2>3, <2>5, <3>1, <3>5 DEF canonicalizeScalar
    <3> QED
      BY <3>4, <3>6
  <2>6. CASE v[1] \in {"lit", "sig"}
    <3>1. /\ Meaning[v] = v /\ Meaning[w] = w
      BY <2>1, <2>3, <2>6 DEF ScalarMeaning
    <3> QED
      BY <1>1, <3>1
  <2> QED
    BY <2>4, <2>5, <2>6, Kinds
<1> QED
  BY <1>1 DEF Forgets

LEMMA ArrayForgets ==
    ASSUME NEW n, Inner(n), \A c \in Level[n] : Forgets(c),
           NEW v \in Level[n + 1], v[1] = "arr", v[2] \in Seq(Level[n])
    PROVE  Forgets(v)
<1> SUFFICES ASSUME NEW w \in Document, Meaning[v] # Undefined, Meaning[w] = Meaning[v]
             PROVE  canonicalizeToken[w] = canonicalizeToken[v]
  BY DEF Forgets
<1>1. PICK l : Inner(l) /\ w \in Level[l + 1]
  BY InnerMost
<1>2. w[1] = "arr" /\ w[2] \in Seq(Level[l])
  <2>1. w[1] = "arr"
    BY InnerLevels, MeaningKind
  <2>2. l \in Nat
    BY <1>1 DEF Inner
  <2> QED
    BY <1>1, <2>1, <2>2, Composite, ScalarForms
<1>3. PICK parts : parts = [i \in DOMAIN v[2] |-> Meaning[v[2][i]]]
  OBVIOUS
<1>4. PICK others : others = [i \in DOMAIN w[2] |-> Meaning[w[2][i]]]
  OBVIOUS
<1>5. /\ Meaning[v] = <<"arr", parts>> /\ Meaning[w] = <<"arr", others>>
      /\ \A i \in DOMAIN v[2] : Meaning[v[2][i]] # Undefined
      /\ \A i \in DOMAIN w[2] : Meaning[w[2][i]] # Undefined
  BY <1>1, <1>2, <1>3, <1>4, ArrayForms
<1>6. parts = others
  BY <1>5
<1>7. DOMAIN v[2] = DOMAIN w[2]
  BY <1>3, <1>4, <1>6
<1>8. \A i \in DOMAIN v[2] : Meaning[w[2][i]] = Meaning[v[2][i]]
  BY <1>3, <1>4, <1>6, <1>7
<1>9. \A i \in DOMAIN v[2] : v[2][i] \in Level[n] /\ v[2][i] \in Document /\ w[2][i] \in Document
  BY <1>1, <1>2, <1>7, InnerLevels
<1>10. \A i \in DOMAIN v[2] : canonicalizeToken[w[2][i]] = canonicalizeToken[v[2][i]]
  BY <1>5, <1>8, <1>9 DEF Forgets
<1>11. \A i \in DOMAIN v[2] : canonicalizeToken[v[2][i]] # Reject
  BY <1>5, <1>9, CanonicalKeeps DEF Keeps
<1>12. PICK values : values = [i \in DOMAIN v[2] |-> canonicalizeToken[v[2][i]]]
  OBVIOUS
<1>13. canonicalizeToken[v] = <<"arr", values>>
  BY <1>11, <1>12, ArrayForms
<1>14. [i \in DOMAIN w[2] |-> canonicalizeToken[w[2][i]]] = values
  BY <1>7, <1>10, <1>12
<1>15. canonicalizeToken[w] = <<"arr", values>>
  <2>1. \A i \in DOMAIN w[2] : canonicalizeToken[w[2][i]] # Reject
    BY <1>7, <1>10, <1>11
  <2> QED
    BY <1>1, <1>2, <1>14, <2>1, ArrayForms
<1> QED
  BY <1>13, <1>15

LEMMA ObjectForgets ==
    ASSUME NEW n, Inner(n), \A c \in Level[n] : Forgets(c),
           NEW v \in Level[n + 1], v[1] = "obj", v[2] \in Seq(MemberOf(Level[n]))
    PROVE  Forgets(v)
<1> SUFFICES ASSUME NEW w \in Document, Meaning[v] # Undefined, Meaning[w] = Meaning[v]
             PROVE  canonicalizeToken[w] = canonicalizeToken[v]
  BY DEF Forgets
<1>1. PICK l : Inner(l) /\ w \in Level[l + 1]
  BY InnerMost
<1>2. w[1] = "obj" /\ w[2] \in Seq(MemberOf(Level[l]))
  <2>1. w[1] = "obj"
    BY InnerLevels, MeaningKind
  <2>2. l \in Nat
    BY <1>1 DEF Inner
  <2> QED
    BY <1>1, <2>1, <2>2, Composite, ScalarForms
<1>3. PICK g : g = KeyedBy(Names(v), Parts(Meaning, v))
  OBVIOUS
<1>4. PICK h : h = KeyedBy(Names(w), Parts(Meaning, w))
  OBVIOUS
<1>5. /\ Meaning[v] = <<"obj", g>> /\ ~Faulty(v)
      /\ \A i \in DOMAIN v[2] : Meaning[v[2][i].val] # Undefined
  BY <1>3, MeaningObject
<1>6. /\ Meaning[w] = <<"obj", h>> /\ ~Faulty(w)
      /\ \A i \in DOMAIN w[2] : Meaning[w[2][i].val] # Undefined
  BY <1>1, <1>2, <1>4, MeaningObject
<1>7. g = h
  BY <1>5, <1>6
<1>8. PICK a : a = KeyedBy(Names(v), Parts(canonicalizeToken, v))
  OBVIOUS
<1>9. PICK b : b = KeyedBy(Names(w), Parts(canonicalizeToken, w))
  OBVIOUS
<1>10. PICK K : K = {Names(v)[i] : i \in DOMAIN Names(v)}
  OBVIOUS
<1>11. DOMAIN Names(v) = DOMAIN v[2] /\ DOMAIN Names(w) = DOMAIN w[2]
  BY DEF Names
<1>12. K = {Names(w)[i] : i \in DOMAIN Names(w)}
  <2>1. DOMAIN g = K
    BY <1>3, <1>10 DEF KeyedBy
  <2>2. DOMAIN h = {Names(w)[i] : i \in DOMAIN Names(w)}
    BY <1>4 DEF KeyedBy
  <2> QED
    BY <1>7, <2>1, <2>2
<1>13. ASSUME NEW k \in K PROVE a[k] = b[k]
  <2>1. PICK i : i = CHOOSE x \in DOMAIN Names(v) : Names(v)[x] = k
    OBVIOUS
  <2>2. PICK j : j = CHOOSE x \in DOMAIN Names(w) : Names(w)[x] = k
    OBVIOUS
  <2>3. i \in DOMAIN v[2] /\ j \in DOMAIN w[2]
    BY <1>10, <1>11, <1>12, <2>1, <2>2
  <2>4. g[k] = Meaning[v[2][i].val] /\ a[k] = canonicalizeToken[v[2][i].val]
    BY <1>3, <1>8, <1>10, <2>1, <2>3 DEF KeyedBy, Parts
  <2>5. h[k] = Meaning[w[2][j].val] /\ b[k] = canonicalizeToken[w[2][j].val]
    BY <1>4, <1>9, <1>12, <2>2, <2>3 DEF KeyedBy, Parts
  <2>6. v[2][i].val \in Level[n] /\ w[2][j].val \in Document
    BY <1>1, <1>2, <2>3, MemberTypes, InnerLevels
  <2> QED
    BY <1>5, <1>7, <2>3, <2>4, <2>5, <2>6 DEF Forgets
<1>14. a = b
  <2>1. a = [k \in K |-> a[k]]
    BY <1>8, <1>10 DEF KeyedBy
  <2>2. b = [k \in K |-> b[k]]
    BY <1>9, <1>12 DEF KeyedBy
  <2> QED
    BY <1>13, <2>1, <2>2
<1>15. \A i \in DOMAIN v[2] : canonicalizeToken[v[2][i].val] # Reject
  BY <1>5, MemberTypes, InnerLevels, CanonicalKeeps DEF Keeps
<1>16. \A i \in DOMAIN w[2] : canonicalizeToken[w[2][i].val] # Reject
  <2>1. \A i \in DOMAIN w[2] : w[2][i].val \in Level[l]
    BY <1>1, <1>2, MemberTypes
  <2>2. Level[l] \subseteq Document
    BY <1>1, InnerLevels
  <2>3. \A i \in DOMAIN w[2] : Keeps(w[2][i].val, MaxNesting)
    BY <2>1, <2>2, CanonicalKeeps
  <2> QED
    BY <1>6, <2>3 DEF Keeps
<1>17. canonicalizeToken[v] = <<"obj", Listed(a)>>
  BY <1>5, <1>8, <1>15, CanonicalObject
<1>18. canonicalizeToken[w] = <<"obj", Listed(b)>>
  BY <1>1, <1>2, <1>6, <1>9, <1>16, CanonicalObject
<1> QED
  BY <1>14, <1>17, <1>18

LEMMA CanonicalForgets == \A v \in Document : Forgets(v)
<1> DEFINE S == {n \in Nat : n <= MaxNesting => \A v \in Level[n] : Forgets(v)}
<1>1. 0 \in S
  BY ScalarForgets, LevelIs
<1>2. ASSUME NEW n \in Nat, n \in S PROVE n + 1 \in S
  <2> SUFFICES ASSUME n + 1 <= MaxNesting, NEW v \in Level[n + 1] PROVE Forgets(v)
    OBVIOUS
  <2>1. Inner(n)
    BY DEF Inner
  <2>2. \A c \in Level[n] : Forgets(c)
    BY <1>2, DocumentLevel
  <2> HIDE DEF S
  <2>3. CASE v \in Scalar
    BY <2>3, ScalarForgets
  <2>4. CASE v[1] = "arr" /\ v[2] \in Seq(Level[n])
    BY <2>1, <2>2, <2>4, ArrayForgets
  <2>5. CASE v[1] = "obj" /\ v[2] \in Seq(MemberOf(Level[n]))
    BY <2>1, <2>2, <2>5, ObjectForgets
  <2> QED
    BY <2>3, <2>4, <2>5, Composite
<1> HIDE DEF S
<1>3. \A n \in Nat : n \in S
  BY <1>1, <1>2, Induction
<1> QED
  BY <1>3, DocumentLevel DEF S

-----------------------------------------------------------------------------
(* The keys and the blocks.                                                *)
LEMMA KeyFacts ==
    /\ \A c \in {"a", "d", "s"} : Key(c) \in Seq(Piece) /\ WellFormed(Key(c)) /\ Named(Key(c)) = <<Raw[c]>>
    /\ Raw["a"] = 97 /\ Raw["d"] = 100 /\ Raw["s"] = 115
<1>1. /\ Raw["a"] = 97 /\ Raw["d"] = 100 /\ Raw["s"] = 115
      /\ \A c \in {"a", "d", "s"} : c \in DOMAIN Raw
  BY BlockAssumption
<1>2. ASSUME NEW c \in {"a", "d", "s"}
      PROVE  Key(c) \in Seq(Piece) /\ WellFormed(Key(c)) /\ Named(Key(c)) = <<Raw[c]>>
  <2>1. Unit(Literal(c)) = Raw[c] /\ Literal(c) \in Piece
    BY <1>1, UnitOf
  <2>2. PICK p \in Piece : p = Literal(c)
    BY <2>1
  <2>3. Key(c) = <<p>>
    BY <2>2 DEF Key
  <2>4. Key(c) \in Seq(Piece) /\ DOMAIN Key(c) = {1} /\ Key(c)[1] = p
    BY <2>3
  <2>5. Unit(p) = 97 \/ Unit(p) = 100 \/ Unit(p) = 115
    BY <1>1, <2>1, <2>2
  <2>6. ~IsSurrogate(Unit(p))
    BY <2>5 DEF IsSurrogate, IsHigh, IsLow
  <2>7. WellFormed(Key(c))
    BY <2>4, <2>6 DEF WellFormed, Alone
  <2>8. Named(Key(c)) = <<Unit(p)>>
    BY <2>3 DEF Named
  <2> QED
    BY <2>1, <2>2, <2>4, <2>7, <2>8
<1> QED
  BY <1>1, <1>2

LEMMA ScalarByKind ==
    ASSUME NEW v \in Document, v[1] # "arr", v[1] # "obj"
    PROVE  v \in Scalar
BY DocumentLevel, Composite

LEMMA PlainScalar == Plain \subseteq Scalar /\ Object(Plain) \subseteq Object(Scalar)
<1>1. Plain \subseteq Scalar
  BY DEF Scalar
<1>2. MemberOf(Plain) \subseteq MemberOf(Scalar)
  BY <1>1 DEF MemberOf
<1>3. Seq(MemberOf(Plain)) \subseteq Seq(MemberOf(Scalar))
  BY <1>2, SeqMonotonic
<1> QED
  BY <1>1, <1>3 DEF Object

(* What the fields of a block may hold.                                    *)
BlockTypes(b) == b.iss \in Seq(Units) /\ b.dl \in DOMAIN IntegerValue \cup FloatingPoint

LEMMA UnsignedTypes ==
    ASSUME NEW b, BlockTypes(b), NEW v, v = <<"obj", Unsigned(b)>>
    PROVE  /\ Inner(0) /\ v \in Level[0 + 1] /\ v \in Document /\ v[1] = "obj"
           /\ v[2] \in Seq(MemberOf(Level[0])) /\ v[2] \in Seq(MemberOf(Plain))
           /\ DOMAIN v[2] = {1, 2}
           /\ v[2][1] = Member(Key("d"), <<"num", b.dl>>)
           /\ v[2][2] = Member(Key("a"), <<"str", writeString(b.iss)>>)
<1>1. Inner(0)
  BY NumberAssumption DEF Inner
<1>2. PICK x : x = <<"num", b.dl>>
  OBVIOUS
<1>3. PICK y : y = <<"str", writeString(b.iss)>>
  OBVIOUS
<1>4. x \in Plain
  BY <1>2 DEF BlockTypes, Plain
<1>5. y \in Plain
  <2>1. writeString(b.iss) \in Seq(Piece)
    BY WrittenString DEF BlockTypes
  <2> QED
    BY <1>3, <2>1 DEF Plain
<1>6. PICK m : m = Member(Key("d"), x)
  OBVIOUS
<1>7. PICK n : n = Member(Key("a"), y)
  OBVIOUS
<1>8. m \in MemberOf(Plain) /\ n \in MemberOf(Plain)
  BY <1>4, <1>5, <1>6, <1>7, KeyFacts DEF Member, MemberOf
<1>9. v[1] = "obj" /\ v[2] = <<m, n>>
  BY <1>2, <1>3, <1>6, <1>7 DEF Unsigned
<1>10. v[2] \in Seq(MemberOf(Plain)) /\ DOMAIN v[2] = {1, 2} /\ v[2][1] = m /\ v[2][2] = n
  <2>1. PICK M : M = MemberOf(Plain)
    OBVIOUS
  <2>2. m \in M /\ n \in M
    BY <1>8, <2>1
  <2>3. <<m, n>> \in Seq(M)
    BY <2>2
  <2>4. DOMAIN <<m, n>> = {1, 2} /\ <<m, n>>[1] = m /\ <<m, n>>[2] = n
    OBVIOUS
  <2>5. v[2] = <<m, n>>
    BY <1>9
  <2> QED
    BY <2>1, <2>3, <2>4, <2>5, Zenon
<1>11. v \in Object(Plain)
  <2>1. v = <<"obj", v[2]>>
    OBVIOUS
  <2> QED
    BY <1>10, <2>1 DEF Object
<1>12. MemberOf(Plain) \subseteq MemberOf(Level[0])
  BY PlainScalar, LevelIs DEF MemberOf
<1>13. v[2] \in Seq(MemberOf(Level[0]))
  BY <1>10, <1>12, SeqMonotonic
<1>14. v \in Level[0 + 1]
  BY <1>11, PlainScalar, LevelIs
<1>15. v \in Document
  BY <1>1, <1>14, InnerLevels
<1> QED
  BY <1>1, <1>2, <1>3, <1>6, <1>7, <1>9, <1>10, <1>13, <1>14, <1>15

LEMMA MarshalTypes ==
    ASSUME NEW b, BlockTypes(b), b.sig \in SigString, NEW v, v = Marshal(b)
    PROVE  /\ Inner(0) /\ v \in Level[0 + 1] /\ v \in Document /\ v[1] = "obj"
           /\ v[2] \in Seq(MemberOf(Level[0])) /\ DOMAIN v[2] = {1, 2, 3}
           /\ v[2][1] = Member(Key("d"), <<"num", b.dl>>)
           /\ v[2][2] = Member(Key("a"), <<"str", writeString(b.iss)>>)
           /\ v[2][3] = Member(Key("s"), <<"sig", b.sig>>)
<1>1. PICK u : u = <<"obj", Unsigned(b)>>
  OBVIOUS
<1>2. PICK ms : ms = Unsigned(b)
  OBVIOUS
<1>3. /\ Inner(0) /\ ms \in Seq(MemberOf(Level[0])) /\ DOMAIN ms = {1, 2}
      /\ ms[1] = Member(Key("d"), <<"num", b.dl>>)
      /\ ms[2] = Member(Key("a"), <<"str", writeString(b.iss)>>)
  BY <1>1, <1>2, UnsignedTypes
<1>4. PICK x : x = <<"sig", b.sig>>
  OBVIOUS
<1>5. x \in Scalar
  BY <1>4 DEF Scalar
<1>6. PICK m : m = Member(Key("s"), x)
  OBVIOUS
<1>7. m \in MemberOf(Level[0])
  BY <1>5, <1>6, KeyFacts, LevelIs DEF Member, MemberOf
<1>8. v = <<"obj", ms \o <<m>> >>
  BY <1>2, <1>4, <1>6 DEF Marshal
<1>9. v[1] = "obj" /\ v[2] = ms \o <<m>> /\ v = <<"obj", v[2]>>
  BY <1>8
<1>10. Len(ms) = 2
  BY <1>3
<1>11. PICK M : M = MemberOf(Level[0])
  OBVIOUS
<1>12. PICK t : t = ms \o <<m>>
  OBVIOUS
<1>13. <<m>> \in Seq(M) /\ Len(<<m>>) = 1 /\ <<m>>[1] = m /\ ms \in Seq(M)
  BY <1>3, <1>7, <1>11
<1>14. /\ t \in Seq(M) /\ Len(t) = 2 + 1
       /\ \A i \in 1..(2 + 1) : t[i] = IF i <= 2 THEN ms[i] ELSE <<m>>[i - 2]
  <2>1. PICK e \in Seq(M) : e = <<m>> /\ Len(e) = 1
    BY <1>13
  <2>2. /\ ms \o e \in Seq(M) /\ Len(ms \o e) = Len(ms) + Len(e)
        /\ \A i \in 1..(Len(ms) + Len(e)) :
            (ms \o e)[i] = IF i <= Len(ms) THEN ms[i] ELSE e[i - Len(ms)]
    BY <1>13, <2>1, ConcatProperties
  <2> QED
    BY <1>10, <1>12, <2>1, <2>2
<1>15. t \in Seq(M) /\ DOMAIN t = {1, 2, 3} /\ t[1] = ms[1] /\ t[2] = ms[2] /\ t[3] = m
  BY <1>13, <1>14
<1>16. v \in Level[0 + 1]
  <2>1. v[2] \in Seq(MemberOf(Level[0]))
    BY <1>9, <1>11, <1>12, <1>15
  <2>2. v \in Object(Level[0])
    BY <1>9, <2>1 DEF Object
  <2> QED
    BY <2>2, LevelIs
<1>17. v \in Document
  BY <1>3, <1>16, InnerLevels
<1> QED
  BY <1>3, <1>4, <1>6, <1>9, <1>11, <1>12, <1>15, <1>16, <1>17

(* The members that an object lists.                                       *)
LEMMA ListedTypes ==
    ASSUME NEW K \in SUBSET Seq(Units), IsFiniteSet(K), NEW g, DOMAIN g = K,
           NEW V, \A k \in K : g[k] \in V
    PROVE  /\ Listed(g) \in Seq(MemberOf(V))
           /\ \A i \in DOMAIN Listed(g) : \E k \in K : Listed(g)[i].val = g[k]
<1>1. PICK c \in Nat : c = Cardinality(K)
  BY FS_CardinalityType
<1>2. PICK members : members = Listed(g)
  OBVIOUS
<1>3. members = [m \in 1..c |-> [key |-> writeString(Nth(K)[m]), val |-> g[Nth(K)[m]]]]
  BY <1>1, <1>2 DEF Listed
<1>4. ASSUME NEW m \in 1..c
      PROVE  members[m] \in MemberOf(V) /\ \E k \in K : members[m].val = g[k]
  <2>1. PICK k \in K : k = Nth(K)[m]
    BY <1>1, NthTypes
  <2>2. PICK key : key = writeString(k)
    OBVIOUS
  <2>3. key \in Seq(Piece)
    BY <2>2, WrittenString
  <2>4. members[m] = [key |-> key, val |-> g[k]]
    BY <1>3, <2>1, <2>2
  <2> QED
    BY <2>3, <2>4 DEF MemberOf
<1>5. DOMAIN members = 1..c /\ members \in Seq(MemberOf(V))
  BY <1>3, <1>4
<1> QED
  BY <1>2, <1>4, <1>5

(* The values that the canonical form of an object holds.                  *)
HoldsOnly(v, V) ==
    \E members \in Seq(MemberOf(V)) :
        /\ canonicalizeToken[v] = <<"obj", members>>
        /\ \A j \in DOMAIN members :
            \E i \in DOMAIN v[2] : members[j].val = canonicalizeToken[v[2][i].val]

LEMMA CanonicalMembers ==
    ASSUME NEW n, Inner(n), NEW v \in Level[n + 1], v[1] = "obj",
           v[2] \in Seq(MemberOf(Level[n])), canonicalizeToken[v] # Reject,
           NEW V, \A i \in DOMAIN v[2] : canonicalizeToken[v[2][i].val] \in V
    PROVE  HoldsOnly(v, V)
<1>1. PICK g : g = KeyedBy(Names(v), Parts(canonicalizeToken, v))
  OBVIOUS
<1>2. canonicalizeToken[v] = <<"obj", Listed(g)>>
  BY <1>1, CanonicalObject
<1>3. PICK K : K = {Names(v)[i] : i \in DOMAIN Names(v)}
  OBVIOUS
<1>4. K \in SUBSET Seq(Units) /\ IsFiniteSet(K)
  <2>1. PICK l \in Nat : l = Len(v[2]) /\ Names(v) \in [1..l -> Seq(Units)]
    BY MemberTypes
  <2>2. PICK keys \in [1..l -> Seq(Units)] : keys = Names(v)
    BY <2>1
  <2> QED
    BY <1>3, <2>2, KeySet
<1>5. DOMAIN g = K /\ DOMAIN Names(v) = DOMAIN v[2]
  BY <1>1, <1>3 DEF KeyedBy, Names
<1>6. ASSUME NEW k \in K PROVE \E i \in DOMAIN v[2] : g[k] = canonicalizeToken[v[2][i].val]
  <2>1. PICK i : i = CHOOSE x \in DOMAIN Names(v) : Names(v)[x] = k
    OBVIOUS
  <2>2. i \in DOMAIN v[2]
    BY <1>3, <1>5, <2>1
  <2>3. g[k] = canonicalizeToken[v[2][i].val]
    BY <1>1, <1>3, <2>1, <2>2 DEF KeyedBy, Parts
  <2> QED
    BY <2>2, <2>3
<1>7. \A k \in K : g[k] \in V
  BY <1>6
<1>8. PICK members : members = Listed(g)
  OBVIOUS
<1>9. /\ members \in Seq(MemberOf(V))
      /\ \A j \in DOMAIN members : \E k \in K : members[j].val = g[k]
  BY <1>4, <1>5, <1>7, <1>8, ListedTypes
<1> QED
  BY <1>2, <1>6, <1>8, <1>9 DEF HoldsOnly

-----------------------------------------------------------------------------
(* Every block signed has a signature, the canonical form of its rest.     *)
LEMMA MintedTypes ==
    ASSUME NEW b \in Minted
    PROVE  BlockTypes(b) /\ b.dl \in DOMAIN IntegerValue /\ WellFormed(writeString(b.iss))
<1>1. /\ b.iss \in Seq(Units) /\ b.dl \in DOMAIN IntegerValue
      /\ \A i \in DOMAIN b.iss : ~Alone(writeString(b.iss), i)
  BY BlockAssumption
<1>2. DOMAIN writeString(b.iss) = DOMAIN b.iss
  BY DEF writeString
<1> QED
  BY <1>1, <1>2 DEF BlockTypes, WellFormed

LEMMA PlainForms ==
    ASSUME NEW b, BlockTypes(b), b.dl \in DOMAIN IntegerValue, WellFormed(writeString(b.iss))
    PROVE  /\ canonicalizeToken[<<"num", b.dl>>] \in Plain
           /\ canonicalizeToken[<<"str", writeString(b.iss)>>] \in Plain
           /\ Meaning[<<"num", b.dl>>] # Undefined
           /\ Meaning[<<"str", writeString(b.iss)>>] # Undefined
<1>1. PICK x : x = <<"num", b.dl>>
  OBVIOUS
<1>2. PICK s \in Seq(Piece) : s = writeString(b.iss) /\ WellFormed(s)
  BY WrittenString DEF BlockTypes
<1>3. PICK y : y = <<"str", s>>
  OBVIOUS
<1>4. x \in Scalar /\ x[1] = "num" /\ x[2] = b.dl
  BY <1>1 DEF Scalar, Plain
<1>5. y \in Scalar /\ y[1] = "str" /\ y[2] = s
  BY <1>2, <1>3 DEF Scalar, Plain
<1>6. canonicalizeToken[x] \in Plain
  <2>1. b.dl \notin FloatingPoint
    BY NumberAssumption
  <2>2. canonicalizeToken[x] = <<"num", writeNumber(b.dl)>>
    BY <1>4, <2>1, ScalarForms DEF canonicalizeScalar
  <2>3. writeNumber(b.dl) \in DOMAIN IntegerValue
    BY NumberAssumption DEF writeNumber
  <2> QED
    BY <2>2, <2>3 DEF Plain
<1>7. canonicalizeToken[y] \in Plain
  <2>1. validateTextEncoding(s)
    BY <1>2, EncodingValid
  <2>2. PICK t : t = writeString(Decode(s))
    OBVIOUS
  <2>3. t \in Seq(Piece)
    BY <2>2, NamedTypes, WrittenString
  <2>4. canonicalizeToken[y] = <<"str", t>>
    BY <1>5, <2>1, <2>2, ScalarForms DEF canonicalizeScalar
  <2> QED
    BY <2>3, <2>4 DEF Plain
<1>8. Meaning[x] # Undefined
  <2>1. Meaning[x] = <<"num", IntegerValue[b.dl]>>
    BY <1>4, ScalarForms DEF ScalarMeaning
  <2> QED
    BY <2>1 DEF Undefined
<1>9. Meaning[y] # Undefined
  <2>1. Meaning[y] = <<"str", Named(s)>>
    BY <1>2, <1>5, ScalarForms DEF ScalarMeaning
  <2> QED
    BY <2>1 DEF Undefined
<1> QED
  BY <1>1, <1>2, <1>3, <1>6, <1>7, <1>8, <1>9

(* The keys of a block are distinct text.                                  *)
LEMMA BlockNotFaulty ==
    ASSUME NEW v, DOMAIN v[2] = {1, 2} \/ DOMAIN v[2] = {1, 2, 3},
           v[2][1].key = Key("d"), v[2][2].key = Key("a"),
           3 \in DOMAIN v[2] => v[2][3].key = Key("s")
    PROVE  ~Faulty(v)
<1>0. \A i \in DOMAIN v[2] : v[2][i].key \in {Key("a"), Key("d"), Key("s")}
  <2>1. \A i \in DOMAIN v[2] : i = 1 \/ i = 2 \/ i = 3
    OBVIOUS
  <2> QED
    BY <2>1
<1>1. \A i \in DOMAIN v[2] : WellFormed(v[2][i].key)
  BY <1>0, KeyFacts
<1>2. /\ Names(v)[1] = <<100>> /\ Names(v)[2] = <<97>>
      /\ 3 \in DOMAIN v[2] => Names(v)[3] = <<115>>
  BY KeyFacts DEF Names
<1>3. <<100>> # <<97>> /\ <<100>> # <<115>> /\ <<97>> # <<115>>
  OBVIOUS
<1>4. \A i, j \in DOMAIN v[2] : i # j => Names(v)[i] # Names(v)[j]
  BY <1>2, <1>3
<1> QED
  BY <1>1, <1>4 DEF Faulty

LEMMA SignTypes == \A b \in Minted : Sign(b) \in Object(Plain)
<1>1. ASSUME NEW b \in Minted PROVE Sign(b) \in Object(Plain)
  <2>1. PICK v : v = <<"obj", Unsigned(b)>>
    OBVIOUS
  <2>2. /\ Inner(0) /\ v \in Level[0 + 1] /\ v \in Document /\ v[1] = "obj"
        /\ v[2] \in Seq(MemberOf(Level[0])) /\ DOMAIN v[2] = {1, 2}
        /\ v[2][1] = Member(Key("d"), <<"num", b.dl>>)
        /\ v[2][2] = Member(Key("a"), <<"str", writeString(b.iss)>>)
    BY <2>1, MintedTypes, UnsignedTypes
  <2>3. /\ v[2][1].key = Key("d") /\ v[2][1].val = <<"num", b.dl>>
        /\ v[2][2].key = Key("a") /\ v[2][2].val = <<"str", writeString(b.iss)>>
    BY <2>2 DEF Member
  <2>4. \A i \in DOMAIN v[2] :
            canonicalizeToken[v[2][i].val] \in Plain /\ Meaning[v[2][i].val] # Undefined
    BY <2>2, <2>3, MintedTypes, PlainForms
  <2>5. ~Faulty(v)
    <3>1. DOMAIN v[2] = {1, 2} /\ 3 \notin DOMAIN v[2]
      BY <2>2
    <3>2. v[2][1].key = Key("d") /\ v[2][2].key = Key("a")
      BY <2>3
    <3> QED
      BY <3>1, <3>2, BlockNotFaulty
  <2>6. Meaning[v] # Undefined
    <3>1. PICK h : h = KeyedBy(Names(v), Parts(Meaning, v))
      OBVIOUS
    <3>2. Meaning[v] = <<"obj", h>>
      BY <2>2, <2>4, <2>5, <3>1, MeaningObject
    <3> QED
      BY <3>2 DEF Undefined
  <2>7. canonicalizeToken[v] # Reject
    BY <2>2, <2>6, CanonicalKeeps DEF Keeps
  <2>8. PICK members \in Seq(MemberOf(Plain)) : canonicalizeToken[v] = <<"obj", members>>
    <3>1. HoldsOnly(v, Plain)
      BY <2>2, <2>4, <2>7, CanonicalMembers
    <3> QED
      BY <3>1 DEF HoldsOnly
  <2>9. Sign(b) = <<"obj", members>>
    BY <2>1, <2>8 DEF Sign, SignatureInput, Canonicalize
  <2> QED
    BY <2>9 DEF Object
<1> QED
  BY <1>1

-----------------------------------------------------------------------------
(* On its way a block stays an object, whose signatures were all made.     *)
Made(sig) == \E b \in Minted, e \in Base64 : sig = <<e, Sign(b)>>

LEMMA MadeTypes ==
    ASSUME NEW b \in Minted, NEW e \in Base64
    PROVE  <<e, Sign(b)>> \in SigString /\ Made(<<e, Sign(b)>>)
<1>1. PICK sig : sig = Sign(b) /\ sig \in Object(Plain)
  BY SignTypes
<1>2. <<e, sig>> \in SigString
  BY <1>1 DEF SigString
<1> QED
  BY <1>1, <1>2 DEF Made

Carried(doc) ==
    /\ doc = <<"obj", doc[2]>>
    /\ doc[2] \in Seq(MemberOf(Level[MaxNesting - 1]))
    /\ \A i \in DOMAIN doc[2] :
        doc[2][i].val[1] = "sig" => Made(doc[2][i].val[2])

LEMMA CarriedDocument ==
    ASSUME NEW doc, Carried(doc)
    PROVE  doc \in Document
BY DocumentLevel, LevelIs DEF Carried, Object

LEMMA CarriedIf ==
    ASSUME NEW members,
           members \in Seq(MemberOf(Level[MaxNesting - 1])),
           \A i \in DOMAIN members :
            members[i].val[1] = "sig" => Made(members[i].val[2])
    PROVE  Carried(<<"obj", members>>)
BY DEF Carried

LEMMA MintedCarried ==
    ASSUME NEW b \in Minted
    PROVE  Carried(CanonicalBytes(Signed(b)))
<1>1. PICK c : c = Signed(b)
  OBVIOUS
<1>2. c.iss = b.iss /\ c.dl = b.dl /\ c.sig = <<"encoded", Sign(b)>>
  BY <1>1 DEF Signed, EncodeSignature
<1>enc. "encoded" \in Base64
  BY DEF Base64
<1>3. BlockTypes(c) /\ c.dl \in DOMAIN IntegerValue /\ WellFormed(writeString(c.iss))
      /\ c.sig \in SigString
  BY <1>2, <1>enc, MintedTypes, MadeTypes DEF BlockTypes
<1>4. PICK v : v = Marshal(c)
  OBVIOUS
<1>5. /\ Inner(0) /\ v \in Level[0 + 1] /\ v \in Document /\ v[1] = "obj"
      /\ v[2] \in Seq(MemberOf(Level[0])) /\ DOMAIN v[2] = {1, 2, 3}
      /\ v[2][1] = Member(Key("d"), <<"num", c.dl>>)
      /\ v[2][2] = Member(Key("a"), <<"str", writeString(c.iss)>>)
      /\ v[2][3] = Member(Key("s"), <<"sig", c.sig>>)
  BY <1>3, <1>4, MarshalTypes
<1>6. /\ v[2][1].key = Key("d") /\ v[2][1].val = <<"num", c.dl>>
      /\ v[2][2].key = Key("a") /\ v[2][2].val = <<"str", writeString(c.iss)>>
      /\ v[2][3].key = Key("s") /\ v[2][3].val = <<"sig", c.sig>>
  BY <1>5 DEF Member
<1>7. PICK x : x = <<"sig", c.sig>>
  OBVIOUS
<1>8. x \in Scalar /\ canonicalizeToken[x] = x /\ Meaning[x] = x /\ x # Undefined
      /\ x[1] = "sig" /\ Made(x[2])
  <2>1. x \in Scalar /\ x[1] = "sig" /\ x[2] = c.sig
    BY <1>3, <1>7 DEF Scalar
  <2>made. Made(c.sig)
    BY <1>2, <1>enc, MadeTypes
  <2>2. x # Undefined
    BY <1>7 DEF Undefined
  <2> QED
    BY <2>1, <2>made, <2>2, ScalarForms DEF canonicalizeScalar, ScalarMeaning
<1>9. \A i \in DOMAIN v[2] :
        /\ canonicalizeToken[v[2][i].val] \in Scalar /\ Meaning[v[2][i].val] # Undefined
        /\ canonicalizeToken[v[2][i].val] \in Plain \cup {x}
  <2>1. /\ canonicalizeToken[v[2][1].val] \in Plain /\ Meaning[v[2][1].val] # Undefined
        /\ canonicalizeToken[v[2][2].val] \in Plain /\ Meaning[v[2][2].val] # Undefined
    BY <1>3, <1>6, PlainForms
  <2>2. canonicalizeToken[v[2][3].val] = x /\ Meaning[v[2][3].val] # Undefined
    BY <1>6, <1>7, <1>8
  <2>3. \A i \in DOMAIN v[2] : i = 1 \/ i = 2 \/ i = 3
    BY <1>5
  <2>4. x \in Scalar
    BY <1>8
  <2> QED
    BY <2>1, <2>2, <2>3, <2>4, PlainScalar
<1>10. ~Faulty(v)
  BY <1>5, <1>6, BlockNotFaulty
<1>11. Meaning[v] # Undefined
  <2>1. PICK h : h = KeyedBy(Names(v), Parts(Meaning, v))
    OBVIOUS
  <2>2. Meaning[v] = <<"obj", h>>
    BY <1>5, <1>9, <1>10, <2>1, MeaningObject
  <2> QED
    BY <2>2 DEF Undefined
<1>12. canonicalizeToken[v] # Reject
  BY <1>5, <1>11, CanonicalKeeps DEF Keeps
<1>13. PICK members \in Seq(MemberOf(Scalar)) :
        /\ canonicalizeToken[v] = <<"obj", members>>
        /\ \A j \in DOMAIN members :
            \E i \in DOMAIN v[2] : members[j].val = canonicalizeToken[v[2][i].val]
  <2>1. PICK n, V : n = 0 /\ V = Scalar
    OBVIOUS
  <2>2. \A i \in DOMAIN v[2] : canonicalizeToken[v[2][i].val] \in V
    BY <1>9, <2>1
  <2>3. Inner(n) /\ v \in Level[n + 1] /\ v[1] = "obj" /\ v[2] \in Seq(MemberOf(Level[n]))
    BY <1>5, <2>1
  <2>4. HoldsOnly(v, V)
    BY <1>12, <2>2, <2>3, CanonicalMembers
  <2> QED
    BY <2>1, <2>4 DEF HoldsOnly
<1>14. members \in Seq(MemberOf(Level[MaxNesting - 1]))
  <2>1. Scalar \subseteq Level[MaxNesting - 1]
    BY DocumentLevel, LevelIs, LevelsGrow
  <2>2. MemberOf(Scalar) \subseteq MemberOf(Level[MaxNesting - 1])
    BY <2>1 DEF MemberOf
  <2> QED
    BY <2>2, SeqMonotonic
<1>15. ASSUME NEW j \in DOMAIN members, members[j].val[1] = "sig"
       PROVE  Made(members[j].val[2])
  <2>1. members[j].val \in Plain \cup {x}
    BY <1>9, <1>13
  <2>2. \A y \in Plain : y[1] # "sig"
    BY DEF Plain
  <2> QED
    BY <1>8, <1>15, <2>1, <2>2
<1>16. Carried(<<"obj", members>>)
  BY <1>14, <1>15, CarriedIf
<1> QED
  BY <1>1, <1>4, <1>13, <1>16 DEF CanonicalBytes, Canonicalize

LEMMA ScalarsDeep == Scalar \subseteq Level[MaxNesting - 1]
BY DocumentLevel, LevelIs, LevelsGrow

LEMMA CarriedStep ==
    ASSUME Carried(wire), [Next]_vars
    PROVE  Carried(wire')
<1>1. PICK V : V = Level[MaxNesting - 1]
  OBVIOUS
<1>2. PICK ms \in Seq(MemberOf(V)) : ms = wire[2] /\ wire = <<"obj", ms>>
  BY <1>1 DEF Carried
<1>3. \A i \in DOMAIN ms : ms[i].val[1] = "sig" => Made(ms[i].val[2])
  BY <1>2 DEF Carried
<1>4. \A i \in DOMAIN ms : /\ ms[i] \in MemberOf(V)
                           /\ ms[i] = [key |-> ms[i].key, val |-> ms[i].val]
                           /\ ms[i].key \in Seq(Piece) /\ ms[i].val \in V
  <2>1. \A i \in DOMAIN ms : ms[i] \in MemberOf(V)
    BY ElementOfSeq
  <2> QED
    BY <2>1 DEF MemberOf
<1>5. Scalar \subseteq V /\ V \subseteq Document
  BY <1>1, ScalarsDeep, DocumentLevel
<1>6. ASSUME NEW i \in DOMAIN ms, NEW m \in MemberOf(V), wire' = <<"obj", [ms EXCEPT ![i] = m]>>,
             m.val[1] = "sig" => Made(m.val[2])
      PROVE  Carried(wire')
  <2>1. PICK new : new = [ms EXCEPT ![i] = m]
    OBVIOUS
  <2>2. PICK M : M = MemberOf(V)
    OBVIOUS
  <2>3. ms \in Seq(M) /\ m \in M /\ i \in 1..Len(ms)
    BY <2>2
  <2>4. new \in Seq(M) /\ DOMAIN new = DOMAIN ms
    BY <2>1, <2>3
  <2>5. \A j \in DOMAIN ms : new[j] = IF j = i THEN m ELSE ms[j]
    BY <2>1
  <2>6. \A j \in DOMAIN new : new[j].val[1] = "sig" => Made(new[j].val[2])
    BY <1>3, <1>6, <2>4, <2>5
  <2>7. Carried(<<"obj", new>>)
    BY <1>1, <2>2, <2>4, <2>6, CarriedIf
  <2> QED
    BY <1>6, <2>1, <2>7
<1>7. ASSUME NEW m \in NewMembers, Add(m) PROVE Carried(wire')
  <2>1. PICK new : new = Append(ms, m)
    OBVIOUS
  <2>2. m \in MemberOf(V) /\ m.val[1] # "sig"
    BY <1>1, BlockAssumption
  <2>3. PICK M : M = MemberOf(V)
    OBVIOUS
  <2>4. ms \in Seq(M) /\ m \in M
    BY <2>2, <2>3
  <2>5. /\ new \in Seq(M) /\ DOMAIN new = 1..(Len(ms) + 1)
        /\ \A j \in 1..Len(ms) : new[j] = ms[j]
        /\ new[Len(ms) + 1] = m
    BY <2>1, <2>4
  <2>6. \A j \in DOMAIN new : new[j].val[1] = "sig" => Made(new[j].val[2])
    <3>1. ASSUME NEW j \in DOMAIN new, new[j].val[1] = "sig"
          PROVE  Made(new[j].val[2])
      <4>1. j \in DOMAIN ms /\ new[j] = ms[j]
        BY <2>2, <2>5, <3>1
      <4> QED
        BY <1>3, <3>1, <4>1
    <3> QED
      BY <3>1
  <2>7. Carried(<<"obj", new>>)
    BY <1>1, <2>3, <2>5, <2>6, CarriedIf
  <2> QED
    BY <1>2, <1>7, <2>1, <2>7 DEF Add, Change, Members
<1>8. ASSUME NEW i \in DOMAIN ms, Swap(i) PROVE Carried(wire')
  <2>1. i + 1 \in DOMAIN ms /\ i \in DOMAIN ms
    BY <1>2, <1>8 DEF Swap, Members
  <2>2. PICK new : new = [ms EXCEPT ![i] = ms[i + 1], ![i + 1] = ms[i]]
    OBVIOUS
  <2>3. PICK M : M = MemberOf(V)
    OBVIOUS
  <2>4. ms \in Seq(M)
    BY <2>3
  <2>5. /\ new \in Seq(M) /\ DOMAIN new = DOMAIN ms
        /\ \A j \in DOMAIN ms : new[j] = ms[j] \/ new[j] = ms[i] \/ new[j] = ms[i + 1]
    BY <2>1, <2>2, <2>4
  <2>6. \A j \in DOMAIN new : new[j].val[1] = "sig" => Made(new[j].val[2])
    BY <1>3, <2>1, <2>5
  <2>7. Carried(<<"obj", new>>)
    BY <1>1, <2>3, <2>5, <2>6, CarriedIf
  <2> QED
    BY <1>2, <1>8, <2>2, <2>7 DEF Swap, Members
<1>9. ASSUME NEW i \in DOMAIN ms, NEW k \in 1..MaxLength, NEW p \in Pieces, SpellKey(i, k, p)
      PROVE  Carried(wire')
  <2>1. PICK key \in Seq(Piece) : key = ms[i].key
    BY <1>4
  <2>2. p \in Piece /\ k \in DOMAIN key
    BY <1>2, <1>9, <2>1, BlockAssumption DEF SpellKey, Members
  <2>3. PICK new : new = [key EXCEPT ![k] = p]
    OBVIOUS
  <2>4. new \in Seq(Piece)
    BY <2>2, <2>3
  <2>5. PICK m : m = [key |-> new, val |-> ms[i].val]
    OBVIOUS
  <2>6. m \in MemberOf(V) /\ m.val = ms[i].val
    BY <1>4, <2>4, <2>5 DEF MemberOf
  <2>7. wire' = <<"obj", [ms EXCEPT ![i].key[k] = p]>>
    BY <1>2, <1>9 DEF SpellKey, Change, Members
  <2>8. [ms EXCEPT ![i].key[k] = p] = [ms EXCEPT ![i] = m]
    <3>1. PICK r : r = ms[i] /\ r = [key |-> r.key, val |-> r.val] /\ r.key = key
      BY <1>4, <2>1
    <3>2. [r EXCEPT !.key[k] = p] = [r EXCEPT !.key = [key EXCEPT ![k] = p]]
      BY <3>1
    <3>3. [r EXCEPT !.key = new] = [key |-> new, val |-> r.val]
      BY <3>1
    <3>4. [ms[i] EXCEPT !.key[k] = p] = m
      BY <2>3, <2>5, <3>1, <3>2, <3>3
    <3> QED
      BY <3>4
  <2>9. m.val[1] = "sig" => Made(m.val[2])
    BY <1>3, <2>6
  <2>10. wire' = <<"obj", [ms EXCEPT ![i] = m]>>
    BY <2>7, <2>8
  <2>11. m \in MemberOf(V)
    BY <2>6
  <2> QED
    BY <1>6, <2>9, <2>10, <2>11
<1>10. ASSUME NEW i \in DOMAIN ms, NEW k \in 1..MaxLength, NEW p \in Pieces, SpellValue(i, k, p)
       PROVE  Carried(wire')
  <2>1. ms[i].val[1] = "str" /\ k \in DOMAIN ms[i].val[2]
    BY <1>2, <1>10 DEF SpellValue, Members
  <2>2. PICK x \in Scalar : x = ms[i].val /\ x = <<"str", x[2]>>
    BY <1>4, <1>5, <2>1, ScalarByKind, Kinds
  <2>3. PICK s \in Seq(Piece) : s = x[2]
    BY <2>1, <2>2, Kinds
  <2>4. p \in Piece /\ k \in DOMAIN s
    BY <2>1, <2>2, <2>3, BlockAssumption
  <2>5. PICK new : new = [s EXCEPT ![k] = p]
    OBVIOUS
  <2>6. new \in Seq(Piece)
    BY <2>4, <2>5
  <2>7. PICK y : y = <<"str", new>>
    OBVIOUS
  <2>8. y \in V /\ y[1] # "sig"
    BY <1>5, <2>6, <2>7 DEF Scalar, Plain
  <2>9. PICK m : m = [key |-> ms[i].key, val |-> y]
    OBVIOUS
  <2>10. m \in MemberOf(V) /\ m.val[1] # "sig"
    BY <1>4, <2>8, <2>9 DEF MemberOf
  <2>11. wire' = <<"obj", [ms EXCEPT ![i].val[2][k] = p]>>
    BY <1>2, <1>10 DEF SpellValue, Change, Members
  <2>12. [ms EXCEPT ![i].val[2][k] = p] = [ms EXCEPT ![i] = m]
    <3>1. [x EXCEPT ![2][k] = p] = y
      <4>1. [x EXCEPT ![2][k] = p] = [x EXCEPT ![2] = [x[2] EXCEPT ![k] = p]]
        BY <2>2
      <4>2. [x[2] EXCEPT ![k] = p] = new
        BY <2>3, <2>5
      <4>3. [x EXCEPT ![2] = new] = y
        BY <2>2, <2>7
      <4> QED
        BY <4>1, <4>2, <4>3
    <3>2. PICK r : r = ms[i] /\ r = [key |-> r.key, val |-> r.val] /\ r.val = x
      BY <1>4, <2>2
    <3>3. [r EXCEPT !.val[2][k] = p] = [r EXCEPT !.val = [x EXCEPT ![2][k] = p]]
      BY <3>2
    <3>4. [r EXCEPT !.val = y] = [key |-> r.key, val |-> y]
      BY <3>2
    <3>5. [ms[i] EXCEPT !.val[2][k] = p] = m
      BY <2>9, <3>1, <3>2, <3>3, <3>4
    <3> QED
      BY <3>5
  <2> QED
    BY <1>6, <2>10, <2>11, <2>12
<1>11. ASSUME NEW i \in DOMAIN ms, NEW n \in Numbers, Renumber(i, n) PROVE Carried(wire')
  <2>1. ms[i].val[1] = "num"
    BY <1>2, <1>11 DEF Renumber, Members
  <2>2. PICK x \in Scalar : x = ms[i].val /\ x = <<"num", x[2]>>
    BY <1>4, <1>5, <2>1, ScalarByKind, Kinds
  <2>3. PICK y : y = <<"num", n>>
    OBVIOUS
  <2>4. n \in DOMAIN IntegerValue \cup FloatingPoint
    BY BlockAssumption
  <2>5. y \in V /\ y[1] # "sig"
    BY <1>5, <2>3, <2>4 DEF Scalar, Plain
  <2>6. PICK m : m = [key |-> ms[i].key, val |-> y]
    OBVIOUS
  <2>7. m \in MemberOf(V) /\ m.val[1] # "sig"
    BY <1>4, <2>5, <2>6 DEF MemberOf
  <2>8. wire' = <<"obj", [ms EXCEPT ![i].val[2] = n]>>
    BY <1>2, <1>11 DEF Renumber, Change, Members
  <2>9. [ms EXCEPT ![i].val[2] = n] = [ms EXCEPT ![i] = m]
    <3>1. [x EXCEPT ![2] = n] = y
      BY <2>2, <2>3
    <3>2. PICK r : r = ms[i] /\ r = [key |-> r.key, val |-> r.val] /\ r.val = x
      BY <1>4, <2>2
    <3>3. [r EXCEPT !.val[2] = n] = [r EXCEPT !.val = [x EXCEPT ![2] = n]]
      BY <3>2
    <3>4. [r EXCEPT !.val = y] = [key |-> r.key, val |-> y]
      BY <3>2
    <3>5. [ms[i] EXCEPT !.val[2] = n] = m
      BY <2>6, <3>1, <3>2, <3>3, <3>4
    <3> QED
      BY <3>5
  <2> QED
    BY <1>6, <2>7, <2>8, <2>9
<1>12. ASSUME NEW i \in DOMAIN ms, NEW b \in Minted, NEW e \in Base64, Resign(i, b, e)
       PROVE  Carried(wire')
  <2>1. ms[i].val[1] = "sig"
    BY <1>2, <1>12 DEF Resign, Members
  <2>2. PICK x \in Scalar : x = ms[i].val /\ x = <<"sig", x[2]>>
    BY <1>4, <1>5, <2>1, ScalarByKind, Kinds
  <2>sig. PICK sig \in SigString : sig = <<e, Sign(b)>> /\ Made(sig)
    BY MadeTypes
  <2>3. PICK y : y = <<"sig", sig>>
    OBVIOUS
  <2>4. y \in V /\ y[2] = sig
    BY <1>5, <2>3 DEF Scalar
  <2>5. PICK m : m = [key |-> ms[i].key, val |-> y]
    OBVIOUS
  <2>6. m \in MemberOf(V) /\ Made(m.val[2])
    BY <1>4, <2>sig, <2>4, <2>5 DEF MemberOf
  <2>7. wire' = <<"obj", [ms EXCEPT ![i].val[2] = sig]>>
    BY <1>2, <1>12, <2>sig DEF Resign, Change, Members
  <2>8. [ms EXCEPT ![i].val[2] = sig] = [ms EXCEPT ![i] = m]
    <3>1. [x EXCEPT ![2] = sig] = y
      BY <2>2, <2>3
    <3>2. PICK r : r = ms[i] /\ r = [key |-> r.key, val |-> r.val] /\ r.val = x
      BY <1>4, <2>2
    <3>3. [r EXCEPT !.val[2] = sig] = [r EXCEPT !.val = [x EXCEPT ![2] = sig]]
      BY <3>2
    <3>4. [r EXCEPT !.val = y] = [key |-> r.key, val |-> y]
      BY <3>2
    <3>5. [ms[i] EXCEPT !.val[2] = sig] = m
      BY <2>5, <3>1, <3>2, <3>3, <3>4
    <3> QED
      BY <3>5
  <2> QED
    BY <1>6, <2>6, <2>7, <2>8
<1>13. CASE UNCHANGED vars
  BY <1>13 DEF vars, Carried
<1>14. CASE Next
  BY <1>2, <1>7, <1>8, <1>9, <1>10, <1>11, <1>12, <1>14 DEF Next, Members
<1> QED
  BY <1>13, <1>14

(* It stays so whatever other software does.                               *)
THEOREM CarriedAlways == Spec => []Carried(wire)
<1>1. Init => Carried(wire)
  BY MintedCarried DEF Init
<1>2. Carried(wire) /\ [Next]_vars => Carried(wire)'
  <2> SUFFICES ASSUME Carried(wire), [Next]_vars PROVE Carried(wire')
    BY DEF Carried
  <2> QED
    BY CarriedStep
<1> QED
  BY <1>1, <1>2, PTL DEF Spec

(* MeaningKept, of Canonicalize and ValidateIJSON: a document is accepted  *)
(* exactly when it means something; its canonical form means the same and  *)
(* is its own.                                                             *)
THEOREM MeaningIsKept == Spec => []MeaningKept
<1>1. ASSUME Carried(wire) PROVE MeaningKept
  <2>1. PICK v \in Document : v = wire
    BY <1>1, CarriedDocument
  <2>2. Keeps(v, MaxNesting)
    BY CanonicalKeeps
  <2>3. ASSUME Meaning[v] # Undefined
        PROVE  /\ Meaning[canonicalizeToken[v]] = Meaning[v]
               /\ canonicalizeToken[canonicalizeToken[v]] = canonicalizeToken[v]
    <3>1. PICK w : w = canonicalizeToken[v]
      OBVIOUS
    <3>2. w \in Document /\ Meaning[w] = Meaning[v]
      BY <2>2, <2>3, <3>1 DEF Keeps, Document
    <3>3. canonicalizeToken[w] = canonicalizeToken[v]
      BY <2>3, <3>2, CanonicalForgets DEF Forgets
    <3> QED
      BY <3>1, <3>2, <3>3
  <2>4. Meaning[v] = Undefined => canonicalizeToken[v] = Reject
    BY <2>2 DEF Keeps
  <2> QED
    BY <2>1, <2>3, <2>4 DEF MeaningKept, Canonicalize
<1> QED
  BY <1>1, CarriedAlways, PTL

(* SpellingForgotten, of Canonicalize: two documents that mean the same are*)
(* signed and verified as the same bytes, whatever software wrote them.    *)
THEOREM SpellingIsForgotten == Spec => SpellingForgotten
<1>1. ASSUME Carried(wire), Carried(wire)', Meaning[wire'] = Meaning[wire]
      PROVE  Canonicalize(wire') = Canonicalize(wire)
  <2>1. PICK v \in Document : v = wire
    BY <1>1, CarriedDocument
  <2>2. Carried(wire')
    BY <1>1 DEF Carried
  <2>3. PICK w \in Document : w = wire'
    BY <2>2, CarriedDocument
  <2>4. Meaning[w] = Meaning[v]
    BY <1>1, <2>1, <2>3
  <2>5. Keeps(v, MaxNesting) /\ Keeps(w, MaxNesting) /\ Forgets(v)
    BY CanonicalKeeps, CanonicalForgets
  <2>6. canonicalizeToken[w] = canonicalizeToken[v]
    BY <2>4, <2>5 DEF Keeps, Forgets
  <2> QED
    BY <2>1, <2>3, <2>6 DEF Canonicalize
<1>2. Carried(wire) /\ Carried(wire)' =>
        [Meaning[wire'] = Meaning[wire] => Canonicalize(wire') = Canonicalize(wire)]_vars
  BY <1>1
<1> QED
  BY <1>2, CarriedAlways, PTL DEF SpellingForgotten

-----------------------------------------------------------------------------
(* Objects with the same keys in the same order mean the same if and only  *)
(* if their values do.                                                     *)
LEMMA SameParts ==
    ASSUME NEW n, Inner(n), NEW v \in Level[n + 1], NEW w \in Level[n + 1],
           v[1] = "obj", v[2] \in Seq(MemberOf(Level[n])),
           w[1] = "obj", w[2] \in Seq(MemberOf(Level[n])),
           Names(v) = Names(w), ~Faulty(v), Meaning[v] # Undefined, Meaning[v] = Meaning[w]
    PROVE  \A i \in DOMAIN v[2] : Meaning[v[2][i].val] = Meaning[w[2][i].val]
<1>1. DOMAIN Names(v) = DOMAIN v[2] /\ DOMAIN Names(w) = DOMAIN w[2]
      /\ DOMAIN v[2] = DOMAIN w[2]
  BY DEF Names
<1>2. PICK g : g = KeyedBy(Names(v), Parts(Meaning, v))
  OBVIOUS
<1>3. PICK h : h = KeyedBy(Names(w), Parts(Meaning, w))
  OBVIOUS
<1>4. Meaning[v] = <<"obj", g>>
  BY <1>2, MeaningObject
<1>5. Meaning[w] = <<"obj", h>>
  BY <1>3, MeaningObject
<1>6. g = h
  <2>1. PICK m : m = Meaning[v] /\ m = Meaning[w]
    OBVIOUS
  <2>2. m[2] = g
    BY <1>4, <2>1
  <2>3. m[2] = h
    BY <1>5, <2>1
  <2> QED
    BY <2>2, <2>3
<1>7. ASSUME NEW i \in DOMAIN v[2]
      PROVE  Meaning[v[2][i].val] = Meaning[w[2][i].val]
  <2>1. PICK k : k = Names(v)[i]
    OBVIOUS
  <2>2. PICK j : j = CHOOSE x \in DOMAIN Names(v) : Names(v)[x] = k
    OBVIOUS
  <2>3. j \in DOMAIN v[2] /\ Names(v)[j] = k
    BY <1>1, <2>1, <2>2
  <2>4. j = i
    BY <2>1, <2>3 DEF Faulty
  <2>5. k \in {Names(v)[x] : x \in DOMAIN Names(v)}
    BY <1>1, <2>1
  <2>6. g[k] = Parts(Meaning, v)[j]
    BY <1>2, <2>2, <2>5 DEF KeyedBy
  <2>7. h[k] = Parts(Meaning, w)[j]
    BY <1>3, <2>2, <2>5 DEF KeyedBy
  <2> QED
    BY <1>1, <1>6, <2>4, <2>6, <2>7 DEF Parts
<1> QED
  BY <1>7

LEMMA PartsSame ==
    ASSUME NEW n, Inner(n), NEW v \in Level[n + 1], NEW w \in Level[n + 1],
           v[1] = "obj", v[2] \in Seq(MemberOf(Level[n])),
           w[1] = "obj", w[2] \in Seq(MemberOf(Level[n])),
           DOMAIN v[2] = DOMAIN w[2],
           \A i \in DOMAIN v[2] :
            v[2][i].key = w[2][i].key /\ Meaning[v[2][i].val] = Meaning[w[2][i].val]
    PROVE  Meaning[v] = Meaning[w]
<1>1. Names(v) = Names(w) /\ Parts(Meaning, v) = Parts(Meaning, w)
  BY DEF Names, Parts
<1>2. Faulty(v) <=> Faulty(w)
  BY <1>1 DEF Faulty
<1>3. PICK g : g = KeyedBy(Names(v), Parts(Meaning, v))
  OBVIOUS
<1>4. Meaning[v] = IF Faulty(v) \/ \E i \in DOMAIN v[2] : Meaning[v[2][i].val] = Undefined
                   THEN Undefined ELSE <<"obj", g>>
  BY <1>3, MeaningObject
<1>5. Meaning[w] = IF Faulty(w) \/ \E i \in DOMAIN w[2] : Meaning[w[2][i].val] = Undefined
                   THEN Undefined ELSE <<"obj", g>>
  BY <1>1, <1>3, MeaningObject
<1> QED
  BY <1>2, <1>4, <1>5

(* The last of several places there is.                                    *)
LEMMA LastExists ==
    ASSUME NEW n \in Nat, NEW S \in SUBSET (1..n), S # {}
    PROVE  \E i \in S : \A j \in S : j <= i
<1>1. PICK T : T = {m \in Nat : \A j \in S : j <= m}
  OBVIOUS
<1>2. n \in T /\ T \in SUBSET Nat
  BY <1>1
<1>3. PICK m \in T : \A k \in T : m <= k
  BY <1>2, LeastExists
<1>4. m \in Nat /\ \A j \in S : j <= m
  BY <1>1, <1>3
<1>5. CASE m \in S
  BY <1>4, <1>5
<1>6. CASE m \notin S
  <2>1. \A j \in S : j \in Nat /\ 1 <= j /\ j <= m - 1
    BY <1>4, <1>6
  <2>2. m - 1 \in Nat
    <3>1. PICK j \in S : j \in Nat /\ 1 <= j /\ j <= m - 1
      BY <2>1
    <3> QED
      BY <1>4, <3>1
  <2>3. m - 1 \in T
    BY <1>1, <2>1, <2>2
  <2> QED
    BY <1>3, <1>4, <2>3
<1> QED
  BY <1>5, <1>6

(* A field of the struct comes from a member, or from none.                *)
LastIn(S, members) ==
    IF S = {} THEN <<"none">> ELSE members[CHOOSE i \in S : \A j \in S : j <= i].val

LEMMA LastOfIs ==
    ASSUME NEW doc, NEW n \in Nat, DOMAIN doc[2] = 1..n, NEW f
    PROVE  \/ LastOf(doc, f) = <<"none">>
           \/ \E i \in DOMAIN doc[2] : LastOf(doc, f) = doc[2][i].val
<1>1. PICK S : S = {i \in DOMAIN doc[2] :
                    \E c \in Field[f] : Decode(doc[2][i].key) = <<Raw[c]>>}
  OBVIOUS
<1>2. LastOf(doc, f) = LastIn(S, doc[2])
  <2>1. LastOf(doc, f) =
            LastIn({i \in DOMAIN doc[2] :
                    \E c \in Field[f] : Decode(doc[2][i].key) = <<Raw[c]>>}, doc[2])
    BY Zenon DEF LastOf, LastIn
  <2> QED
    BY <1>1, <2>1
<1>3. CASE S # {}
  <2>1. S \in SUBSET (1..n)
    BY <1>1
  <2>2. PICK k : k = CHOOSE i \in S : \A j \in S : j <= i
    OBVIOUS
  <2>3. k \in S
    BY <1>3, <2>1, <2>2, LastExists
  <2>4. LastIn(S, doc[2]) = doc[2][k].val
    BY <1>3, <2>2, Zenon DEF LastIn
  <2>5. k \in DOMAIN doc[2]
    BY <1>1, <2>3
  <2> QED
    BY <1>2, <2>4, <2>5
<1>4. CASE S = {}
  BY <1>2, <1>4 DEF LastIn
<1> QED
  BY <1>3, <1>4

(* What is parsed has the types of a block, and a signature that was made. *)
LEMMA UnmarshalTypes ==
    ASSUME NEW doc, Carried(doc), Typed(doc), NEW u, u = Unmarshal(doc), u.sig # <<>>
    PROVE  BlockTypes(u) /\ Made(u.sig)
<1>1. PICK V : V = Level[MaxNesting - 1]
  OBVIOUS
<1>2. PICK ms \in Seq(MemberOf(V)) : ms = doc[2]
  BY <1>1 DEF Carried
<1>3. \A i \in DOMAIN ms : ms[i] \in MemberOf(V)
  BY <1>2, ElementOfSeq
<1>4. \A i \in DOMAIN ms : ms[i].val \in Document
  BY <1>1, <1>3, DocumentLevel DEF MemberOf
<1>5. Len(ms) \in Nat /\ DOMAIN doc[2] = 1..Len(ms)
  BY <1>2
<1>6. PICK a : a = LastOf(doc, "a")
  OBVIOUS
<1>7. PICK d : d = LastOf(doc, "d")
  OBVIOUS
<1>8. PICK s : s = LastOf(doc, "s")
  OBVIOUS
<1>9. /\ a[1] \in {"none", "str"} /\ d[1] \in {"none", "num"} /\ s[1] \in {"none", "sig"}
  BY <1>6, <1>7, <1>8 DEF Typed
<1>10. /\ u.iss = IF a[1] = "none" THEN Zero.iss ELSE Decode(a[2])
       /\ u.dl = IF d[1] = "none" THEN Zero.dl ELSE writeNumber(d[2])
       /\ u.sig = IF s[1] = "none" THEN Zero.sig ELSE s[2]
  BY <1>6, <1>7, <1>8 DEF Unmarshal
<1>11. Zero.iss = <<>> /\ Zero.dl = "0" /\ Zero.sig = <<>>
  BY DEF Zero
<1>12. <<"none">>[1] = "none"
  OBVIOUS
<1>13. \A f : \/ LastOf(doc, f) = <<"none">>
              \/ \E i \in DOMAIN ms : LastOf(doc, f) = ms[i].val
  BY <1>2, <1>5, LastOfIs
<1>14. u.iss \in Seq(Units)
  <2>1. CASE a[1] = "none"
    BY <1>10, <1>11, <2>1
  <2>2. CASE a[1] = "str"
    <3>1. a \in Document
      BY <1>4, <1>6, <1>12, <1>13, <2>2
    <3>2. a[2] \in Seq(Piece)
      BY <2>2, <3>1, ScalarByKind, Kinds
    <3>3. Decode(a[2]) \in Seq(Units)
      BY <3>2, NamedTypes
    <3> QED
      BY <1>10, <2>2, <3>3
  <2> QED
    BY <1>9, <2>1, <2>2
<1>15. u.dl \in DOMAIN IntegerValue \cup FloatingPoint
  <2>0. "0" \in DOMAIN IntegerValue
    BY NumberAssumption
  <2>1. CASE d[1] = "none"
    BY <1>10, <1>11, <2>0, <2>1
  <2>2. CASE d[1] = "num"
    <3>1. d \in Document
      BY <1>4, <1>7, <1>12, <1>13, <2>2
    <3>2. d[2] \in DOMAIN IntegerValue \cup FloatingPoint
      BY <2>2, <3>1, ScalarByKind, Kinds
    <3> QED
      BY <1>10, <2>0, <2>2, <3>2 DEF writeNumber
  <2> QED
    BY <1>9, <2>1, <2>2
<1>16. Made(u.sig)
  <2>1. s[1] = "sig" /\ u.sig = s[2]
    BY <1>9, <1>10, <1>11
  <2>2. PICK i \in DOMAIN ms : s = ms[i].val
    BY <1>8, <1>12, <1>13, <2>1
  <2> QED
    BY <1>2, <2>1, <2>2 DEF Carried
<1> QED
  BY <1>14, <1>15, <1>16 DEF BlockTypes

(* A block whose signature verifies, signed as b was, is b but for its     *)
(* spelling: what is serialized canonically from the two is the same, if   *)
(* base64 spells the signature of b alike.                                 *)
Respelled(b, e) == [Signed(b) EXCEPT !.sig = <<e, Sign(b)>>]

LEMMA DecodeIs ==
    ASSUME NEW e \in Base64, NEW sig
    PROVE  DecodeSignature(<<e, sig>>) = IF e \in Decodable THEN sig ELSE <<>>
<1>1. PICK s : s = <<e, sig>>
  OBVIOUS
<1>2. s # <<>> /\ s[1] = e /\ s[2] = sig
  BY <1>1
<1> QED
  BY <1>1, <1>2 DEF DecodeSignature

LEMMA InputNotEmpty ==
    ASSUME NEW u, BlockTypes(u)
    PROVE  SignatureInput(u) # <<>>
<1>1. PICK v : v = <<"obj", Unsigned(u)>>
  OBVIOUS
<1>2. v \in Document /\ v[1] = "obj"
  BY <1>1, UnsignedTypes
<1>3. PICK x : x = SignatureInput(u)
  OBVIOUS
<1>4. x = CanonicalStep(canonicalizeToken, v)
  BY <1>1, <1>2, <1>3, CanonicalDef DEF SignatureInput, Canonicalize
<1>5. "obj" # "arr"
  OBVIOUS
<1>6. PICK keys, values : x = canonicalizeObject(keys, values)
  BY <1>2, <1>4, <1>5 DEF CanonicalStep
<1>7. x = Reject \/ \E members : x = <<"obj", members>>
  BY <1>6 DEF canonicalizeObject
<1> QED
  BY <1>3, <1>7 DEF Reject

LEMMA VerifiedIs ==
    ASSUME NEW u, BlockTypes(u), NEW b \in Minted, NEW e \in Base64,
           u.sig = <<e, Sign(b)>>, Verify(u), CanonicalBytes(u) # Reject
    PROVE  e \in Decodable /\ CanonicalBytes(u) = CanonicalBytes(Respelled(b, e))
<1>0. e \in Decodable /\ SignatureInput(u) = Sign(b)
  <2>1. SignatureInput(u) = IF e \in Decodable THEN Sign(b) ELSE <<>>
    BY DecodeIs DEF Verify
  <2>2. SignatureInput(u) # <<>>
    BY InputNotEmpty
  <2> QED
    BY <2>1, <2>2
<1>1. PICK v : v = <<"obj", Unsigned(u)>>
  OBVIOUS
<1>2. PICK w : w = <<"obj", Unsigned(b)>>
  OBVIOUS
<1>3. BlockTypes(b)
  BY MintedTypes
<1>4. /\ Inner(0) /\ v \in Level[0 + 1] /\ v \in Document /\ v[1] = "obj"
      /\ v[2] \in Seq(MemberOf(Level[0])) /\ DOMAIN v[2] = {1, 2}
      /\ v[2][1] = Member(Key("d"), <<"num", u.dl>>)
      /\ v[2][2] = Member(Key("a"), <<"str", writeString(u.iss)>>)
  BY <1>1, UnsignedTypes
<1>5. /\ w \in Level[0 + 1] /\ w \in Document /\ w[1] = "obj"
      /\ w[2] \in Seq(MemberOf(Level[0])) /\ DOMAIN w[2] = {1, 2}
      /\ w[2][1] = Member(Key("d"), <<"num", b.dl>>)
      /\ w[2][2] = Member(Key("a"), <<"str", writeString(b.iss)>>)
  BY <1>2, <1>3, UnsignedTypes
<1>6. /\ v[2][1].key = Key("d") /\ v[2][1].val = <<"num", u.dl>>
      /\ v[2][2].key = Key("a") /\ v[2][2].val = <<"str", writeString(u.iss)>>
      /\ w[2][1].key = Key("d") /\ w[2][1].val = <<"num", b.dl>>
      /\ w[2][2].key = Key("a") /\ w[2][2].val = <<"str", writeString(b.iss)>>
  BY <1>4, <1>5 DEF Member
<1>7. canonicalizeToken[v] = Sign(b) /\ canonicalizeToken[w] = Sign(b)
  BY <1>0, <1>1, <1>2 DEF Sign, SignatureInput, Canonicalize
<1>8. Sign(b) # Reject
  <2>1. PICK members : Sign(b) = <<"obj", members>>
    BY SignTypes DEF Object
  <2> QED
    BY <2>1 DEF Reject
<1>9. Meaning[v] # Undefined /\ Meaning[v] = Meaning[w]
  <2>1. Keeps(v, MaxNesting) /\ Keeps(w, MaxNesting)
    BY <1>4, <1>5, CanonicalKeeps
  <2>2. Meaning[v] # Undefined /\ Meaning[w] # Undefined
    BY <1>7, <1>8, <2>1 DEF Keeps
  <2>3. Meaning[Sign(b)] = Meaning[v] /\ Meaning[Sign(b)] = Meaning[w]
    BY <1>7, <1>8, <2>1 DEF Keeps
  <2> QED
    BY <2>2, <2>3
<1>10. ~Faulty(v)
  <2>1. DOMAIN v[2] = {1, 2} /\ 3 \notin DOMAIN v[2]
    BY <1>4
  <2>2. v[2][1].key = Key("d") /\ v[2][2].key = Key("a")
    BY <1>6
  <2> QED
    BY <2>1, <2>2, BlockNotFaulty
<1>11. Names(v) = Names(w)
  BY <1>4, <1>5, <1>6 DEF Names
<1>12. /\ Meaning[<<"num", u.dl>>] = Meaning[<<"num", b.dl>>]
       /\ Meaning[<<"str", writeString(u.iss)>>] = Meaning[<<"str", writeString(b.iss)>>]
  <2>1. \A i \in DOMAIN v[2] : Meaning[v[2][i].val] = Meaning[w[2][i].val]
    BY <1>4, <1>5, <1>9, <1>10, <1>11, SameParts
  <2> QED
    BY <1>4, <1>6, <2>1
<1>13. PICK c : c = Respelled(b, e)
  OBVIOUS
<1>14. c.iss = b.iss /\ c.dl = b.dl /\ c.sig = u.sig
  BY <1>13 DEF Signed, Respelled
<1>sig. u.sig \in SigString
  BY MadeTypes
<1>15. PICK x : x = Marshal(u)
  OBVIOUS
<1>16. PICK y : y = Marshal(c)
  OBVIOUS
<1>17. /\ x \in Level[0 + 1] /\ x \in Document /\ x[1] = "obj"
       /\ x[2] \in Seq(MemberOf(Level[0])) /\ DOMAIN x[2] = {1, 2, 3}
       /\ x[2][1] = Member(Key("d"), <<"num", u.dl>>)
       /\ x[2][2] = Member(Key("a"), <<"str", writeString(u.iss)>>)
       /\ x[2][3] = Member(Key("s"), <<"sig", u.sig>>)
  BY <1>sig, <1>15, MarshalTypes
<1>18. /\ y \in Level[0 + 1] /\ y \in Document /\ y[1] = "obj"
       /\ y[2] \in Seq(MemberOf(Level[0])) /\ DOMAIN y[2] = {1, 2, 3}
       /\ y[2][1] = Member(Key("d"), <<"num", b.dl>>)
       /\ y[2][2] = Member(Key("a"), <<"str", writeString(b.iss)>>)
       /\ y[2][3] = Member(Key("s"), <<"sig", u.sig>>)
  <2>1. BlockTypes(c) /\ c.sig \in SigString
    BY <1>3, <1>14, <1>sig DEF BlockTypes
  <2>2. /\ y \in Level[0 + 1] /\ y \in Document /\ y[1] = "obj"
        /\ y[2] \in Seq(MemberOf(Level[0])) /\ DOMAIN y[2] = {1, 2, 3}
        /\ y[2][1] = Member(Key("d"), <<"num", c.dl>>)
        /\ y[2][2] = Member(Key("a"), <<"str", writeString(c.iss)>>)
        /\ y[2][3] = Member(Key("s"), <<"sig", c.sig>>)
    BY <1>16, <2>1, MarshalTypes
  <2>3. c.iss = b.iss /\ c.dl = b.dl /\ c.sig = u.sig
    BY <1>14
  <2> QED
    BY <2>2, <2>3
<1>19. \A i \in DOMAIN x[2] :
        x[2][i].key = y[2][i].key /\ Meaning[x[2][i].val] = Meaning[y[2][i].val]
  <2>1. /\ x[2][1].key = y[2][1].key /\ x[2][1].val = <<"num", u.dl>>
        /\ y[2][1].val = <<"num", b.dl>>
    BY <1>17, <1>18 DEF Member
  <2>2. /\ x[2][2].key = y[2][2].key /\ x[2][2].val = <<"str", writeString(u.iss)>>
        /\ y[2][2].val = <<"str", writeString(b.iss)>>
    BY <1>17, <1>18 DEF Member
  <2>3. x[2][3] = y[2][3]
    BY <1>17, <1>18
  <2>4. \A i \in DOMAIN x[2] : i = 1 \/ i = 2 \/ i = 3
    BY <1>17
  <2> QED
    BY <1>12, <2>1, <2>2, <2>3, <2>4
<1>20. Meaning[x] = Meaning[y]
  BY <1>4, <1>17, <1>18, <1>19, PartsSame
<1>21. canonicalizeToken[x] # Reject
  BY <1>15 DEF CanonicalBytes, Canonicalize
<1>22. Meaning[x] # Undefined
  BY <1>17, <1>21, CanonicalKeeps DEF Keeps
<1>23. canonicalizeToken[y] = canonicalizeToken[x]
  BY <1>17, <1>18, <1>20, <1>22, CanonicalForgets DEF Forgets
<1> QED
  BY <1>0, <1>13, <1>15, <1>16, <1>23 DEF CanonicalBytes, Canonicalize

(* OneForm, of ParseRestrictBlock (SD-6) and Verify: a block that parses   *)
(* and verifies is byte for byte one that was signed, whatever was done to *)
(* it on its way, but for the spelling of its signature, which is one of   *)
(* those that DecodeSignature takes.                                       *)
THEOREM OneFormHolds == Spec => []OneForm
<1>1. ASSUME Carried(wire), ParseRestrictBlock(wire), Verify(Unmarshal(wire))
      PROVE  \E b \in Minted, e \in Decodable : wire = CanonicalBytes(Respelled(b, e))
  <2>1. PICK u : u = Unmarshal(wire)
    OBVIOUS
  <2>2. Typed(wire) /\ u.sig # <<>> /\ CanonicalBytes(u) = wire /\ Verify(u)
    BY <1>1, <2>1 DEF ParseRestrictBlock
  <2>3. BlockTypes(u) /\ Made(u.sig)
    BY <1>1, <2>1, <2>2, UnmarshalTypes
  <2>4. PICK b \in Minted, e \in Base64 : u.sig = <<e, Sign(b)>>
    BY <2>3 DEF Made
  <2>5. wire # Reject
    <3>1. PICK members : wire = <<"obj", members>>
      BY <1>1 DEF Carried
    <3> QED
      BY <3>1 DEF Reject
  <2>6. e \in Decodable /\ CanonicalBytes(u) = CanonicalBytes(Respelled(b, e))
    BY <2>2, <2>3, <2>4, <2>5, VerifiedIs
  <2> QED
    BY <2>2, <2>6
<1>2. Carried(wire) => OneForm
  BY <1>1 DEF OneForm, Respelled
<1> QED
  BY <1>2, CarriedAlways, PTL
=============================================================================
