--------------------------- MODULE ExporterProofs ---------------------------
(***************************************************************************)
(* Proofs about Exporter, for any number of requests, entries and outages, *)
(* any batch size and any buffer that holds a batch.                       *)
(***************************************************************************)
EXTENDS Exporter, TLAPS, SequenceTheorems

LEMMA Sizes ==
    /\ BatchSize \in Nat /\ 1 <= BatchSize
    /\ MaxBuffered \in Nat /\ 1 <= MaxBuffered
    /\ MaxEntries \in Nat /\ MaxOutages \in Nat
BY ExporterAssumption

(* Keep returns the end of a sequence, as much of it as fits.              *)
LEMMA KeepIs ==
    ASSUME NEW S, NEW s \in Seq(S)
    PROVE  /\ Keep(s) \in Seq(S)
           /\ Len(Keep(s)) = IF Len(s) <= MaxBuffered THEN Len(s) ELSE MaxBuffered
           /\ \A i \in 1..Len(Keep(s)) : Keep(s)[i] = s[Len(s) - Len(Keep(s)) + i]
<1>s. MaxBuffered \in Nat /\ 1 <= MaxBuffered /\ Len(s) \in Nat
  BY Sizes
<1> DEFINE x == Len(s) - MaxBuffered + 1
           m == IF x > 1 THEN x ELSE 1
<1>1. Max({1, x}) = m
  <2>1. m \in {1, x} /\ \A y \in {1, x} : m >= y
    BY <1>s
  <2>2. \A k \in {1, x} : (\A y \in {1, x} : k >= y) => k = m
    BY <1>s
  <2> HIDE DEF x, m
  <2> QED
    BY <2>1, <2>2 DEF Max
<1>2. Keep(s) = SubSeq(s, m, Len(s))
  BY <1>1 DEF Keep
<1>3. m \in Nat /\ 1 <= m /\ m <= Len(s) + 1
  BY <1>s
<1> HIDE DEF m
<1>4. /\ Len(SubSeq(s, m, Len(s))) = Len(s) - m + 1
      /\ SubSeq(s, m, Len(s)) \in Seq(S)
      /\ \A i \in 1..(Len(s) - m + 1) : SubSeq(s, m, Len(s))[i] = s[m + i - 1]
  <2>1. m \in Int /\ Len(s) \in Int /\ \A i \in m .. Len(s) : s[i] \in S
    BY <1>s, <1>3
  <2>2. PICK n \in Int : n = Len(s)
    BY <2>1
  <2>3. /\ SubSeq(s, m, n) \in Seq(S)
        /\ Len(SubSeq(s, m, n)) = IF m <= n THEN n - m + 1 ELSE 0
        /\ \A i \in 1 .. n - m + 1 : SubSeq(s, m, n)[i] = s[m + i - 1]
    BY <2>1, <2>2, SubSeqProperties
  <2>4. n \in Nat /\ m \in Nat /\ m <= n + 1
    BY <1>s, <1>3, <2>2
  <2>5. (IF m <= n THEN n - m + 1 ELSE 0) = n - m + 1
    BY <2>4
  <2> QED
    BY <2>2, <2>3, <2>5
<1>5. Len(Keep(s)) = Len(s) - m + 1
  BY <1>2, <1>4
<1>6. Len(s) - m + 1 = IF Len(s) <= MaxBuffered THEN Len(s) ELSE MaxBuffered
  <2>1. PICK n \in Nat : n = Len(s)
    BY <1>s
  <2>2. CASE n <= MaxBuffered
    <3>1. ~ (x > 1)
      BY <1>s, <2>1, <2>2
    <3>2. m = 1
      BY <3>1 DEF m
    <3> QED
      BY <2>1, <2>2, <3>2
  <2>3. CASE n > MaxBuffered
    <3>1. x > 1
      BY <1>s, <2>1, <2>3
    <3>2. m = n - MaxBuffered + 1
      BY <2>1, <3>1 DEF m
    <3> QED
      BY <1>s, <2>1, <2>3, <3>2
  <2> QED
    BY <1>s, <2>1, <2>2, <2>3
<1>7. ASSUME NEW i \in 1..Len(Keep(s)) PROVE Keep(s)[i] = s[Len(s) - Len(Keep(s)) + i]
  <2>1. Keep(s)[i] = s[m + i - 1]
    BY <1>2, <1>4, <1>5
  <2>2. m + i - 1 = Len(s) - Len(Keep(s)) + i
    BY <1>s, <1>3, <1>5
  <2> QED
    BY <2>1, <2>2
<1> QED
  BY <1>2, <1>4, <1>5, <1>6, <1>7

-----------------------------------------------------------------------------
(* Every entry is enqueued once: no request holds one that was enqueued or *)
(* that another request holds.                                             *)
Once ==
    /\ \A h \in Handlers : tees[h].pc = "tee" =>
        /\ tees[h].entry \in 1..count
        /\ \A i \in 1..Len(enqueued) : enqueued[i] # tees[h].entry
    /\ \A g, h \in Handlers :
        tees[g].pc = "tee" /\ tees[h].pc = "tee" /\ g # h => tees[g].entry # tees[h].entry
    /\ \A i, j \in 1..Len(enqueued) : enqueued[i] = enqueued[j] => i = j

(***************************************************************************)
(* The buffer is the end of what was enqueued, and the batch a piece that  *)
(* ends where the buffer begins, or earlier if the buffer has overflowed   *)
(* since.  The piece follows the first lo entries, of which                *)
(* - each of the last MaxBuffered enqueued that is among them is received; *)
(* - whatever comes after them and is not received is newer than all that  *)
(*   is;                                                                   *)
(* - every acknowledged one is one.                                        *)
(***************************************************************************)
Window(lo) ==
    LET n == Len(enqueued)
        end == lo + Len(batch)
    IN  /\ end <= n - Len(buf)
        /\ \A i \in 1..Len(batch) : batch[i] = enqueued[lo + i]
        /\ end = n - Len(buf) \/ Len(buf) = MaxBuffered
        /\ \A i \in 1..n : i > n - MaxBuffered => enqueued[i] \in received \/ lo < i
        /\ \A i, j \in 1..n :
            lo < i /\ enqueued[i] \notin received /\ enqueued[j] \in received => j < i
        /\ \A j \in 1..n : enqueued[j] \in acked => j <= lo

WindowInv ==
    /\ Len(buf) <= Len(enqueued)
    /\ \A i \in 1..Len(buf) : buf[i] = enqueued[Len(enqueued) - Len(buf) + i]
    /\ flusher # "post" => batch = <<>>
    /\ \E lo \in Nat : Window(lo)

(* A batch that has filled up is signalled unless a flush is about to take *)
(* it or has just failed.                                                  *)
SignalInv ==
    flusher \in {"select", "post"} /\ Len(buf) >= BatchSize =>
        \/ flushNow \/ (flusher = "select" /\ failed)
        \/ \E h \in Handlers : tees[h].pc = "signal"

ExportInv == TypeOK /\ Once /\ WindowInv /\ SignalInv

(* The numbers in sight.                                                   *)
LEMMA ExportTypes ==
    ASSUME TypeOK
    PROVE  /\ Len(enqueued) \in Nat /\ Len(buf) \in Nat /\ Len(batch) \in Nat
           /\ Len(buf) <= MaxBuffered /\ Len(batch) <= MaxBuffered
           /\ count \in Nat /\ count <= MaxEntries
           /\ \A i \in 1..Len(enqueued) : enqueued[i] \in 1..count
           /\ DOMAIN enqueued = 1..Len(enqueued)
           /\ DOMAIN buf = 1..Len(buf) /\ DOMAIN batch = 1..Len(batch)
           /\ ToSet(enqueued) = {enqueued[i] : i \in 1..Len(enqueued)}
           /\ ToSet(buf) = {buf[i] : i \in 1..Len(buf)}
           /\ ToSet(batch) = {batch[i] : i \in 1..Len(batch)}
<1>1. count \in Nat /\ count <= MaxEntries
  BY Sizes DEF TypeOK
<1>2. \A i \in 1..Len(enqueued) : enqueued[i] \in 1..count
  BY DEF TypeOK
<1> QED
  BY <1>1, <1>2 DEF TypeOK, ToSet

LEMMA ExportInit == Init => ExportInv
<1> SUFFICES ASSUME Init PROVE ExportInv
  OBVIOUS
<1>1. Len(enqueued) = 0 /\ Len(buf) = 0 /\ Len(batch) = 0
  BY DEF Init
<1>2. TypeOK
  <2>1. buf \in Seq(Entries) /\ batch \in Seq(Entries) /\ enqueued \in Seq(1..count)
    BY DEF Init
  <2>2. tees \in [Handlers -> [pc : {"idle", "tee", "signal"}, entry : 0..MaxEntries]]
    BY Sizes DEF Init, Idle
  <2>3. received \subseteq ToSet(enqueued) /\ acked \subseteq received
    BY DEF Init
  <2>4. /\ flushNow \in BOOLEAN /\ last \in BOOLEAN /\ running \in BOOLEAN
        /\ sinkUp \in BOOLEAN /\ failed \in BOOLEAN
        /\ flusher \in {"select", "flush", "post", "stopped"}
    BY DEF Init
  <2>5. count \in 0..MaxEntries /\ outages \in 0..MaxOutages
    BY Sizes DEF Init
  <2>6. Len(buf) <= MaxBuffered /\ Len(batch) <= MaxBuffered
    BY <1>1, Sizes
  <2> QED
    BY <2>1, <2>2, <2>3, <2>4, <2>5, <2>6 DEF TypeOK
<1>3. Once /\ SignalInv
  BY <1>1, Sizes DEF Init, Once, SignalInv, Idle
<1>4. Window(0)
  BY <1>1 DEF Init, Window
<1> QED
  BY <1>1, <1>2, <1>3, <1>4 DEF Init, ExportInv, WindowInv

-----------------------------------------------------------------------------
(* A step that moves no entry.                                             *)
LEMMA WindowFrame ==
    ASSUME WindowInv, UNCHANGED <<enqueued, buf, batch, received, acked>>,
           flusher' # "post" => flusher # "post"
    PROVE  WindowInv'
<1>1. PICK lo \in Nat : Window(lo)
  BY DEF WindowInv
<1>2. Window(lo)'
  BY <1>1 DEF Window
<1> QED
  BY <1>2 DEF WindowInv

LEMMA TeeStep ==
    ASSUME ExportInv, NEW h \in Handlers, Tee(h)
    PROVE  ExportInv'
<1>t. /\ TypeOK /\ Once /\ WindowInv /\ SignalInv
      /\ UNCHANGED <<enqueued, buf, flushNow, exporting, world>>
  BY DEF ExportInv, Tee
<1>0. count \in Nat /\ MaxEntries \in Nat
  BY <1>t, ExportTypes, Sizes
<1>1. /\ count' = count + 1 /\ count' \in 0..MaxEntries
      /\ tees[h].pc = "idle" /\ tees'[h].pc = "tee" /\ tees'[h].entry = count + 1
      /\ \A g \in Handlers \ {h} : tees'[g] = tees[g]
  BY <1>t, <1>0 DEF Tee, TypeOK
<1>2. TypeOK'
  <2>1. tees' \in [Handlers -> [pc : {"idle", "tee", "signal"}, entry : 0..MaxEntries]]
    BY <1>t, <1>1 DEF Tee, TypeOK
  <2>2. enqueued' \in Seq(1..count')
    <3>1. enqueued \in Seq(1..count) /\ 1..count \subseteq 1..count'
      BY <1>t, <1>0, <1>1 DEF TypeOK
    <3> QED
      BY <1>t, <3>1, SeqMonotonic
  <2> QED
    BY <1>t, <1>1, <2>1, <2>2 DEF TypeOK, exporting, world
<1>3. Once'
  <2>1. \A g \in Handlers : tees[g].pc = "tee" => tees[g].entry \in 1..count
    BY <1>t DEF Once
  <2>2. \A i \in 1..Len(enqueued) : enqueued[i] \in 1..count
    BY <1>t, ExportTypes
  <2> QED
    BY <1>t, <1>0, <1>1, <2>1, <2>2 DEF Once
<1>4. WindowInv'
  BY <1>t, WindowFrame DEF exporting
<1>5. SignalInv'
  BY <1>t, <1>1 DEF SignalInv, exporting
<1> QED
  BY <1>2, <1>3, <1>4, <1>5 DEF ExportInv

(* The signal is sent, the loop wakes up, or the world around changes.     *)
LEMMA QuietStep ==
    ASSUME ExportInv,
           \/ \E h \in Handlers : Signal(h)
           \/ FlushOnTick \/ FlushOnSignal \/ FlushOnExit
           \/ Cancel \/ Outage \/ Recover
           \/ UNCHANGED vars
    PROVE  ExportInv'
<1>t. TypeOK /\ Once /\ WindowInv /\ SignalInv
  BY DEF ExportInv
<1>1. /\ UNCHANGED <<count, enqueued, buf, batch, received, acked, failed>>
      /\ flusher' # "post" => flusher # "post"
  BY DEF Signal, FlushOnTick, FlushOnSignal, FlushOnExit, StartFlush, Cancel, Outage, Recover,
         vars, handling, exporting, world
<1>2. WindowInv'
  BY <1>t, <1>1, WindowFrame
<1>3. CASE \E h \in Handlers : Signal(h)
  <2>1. PICK h \in Handlers : Signal(h)
    BY <1>3
  <2>2. /\ tees' = [tees EXCEPT ![h] = Idle] /\ flushNow' = TRUE
        /\ UNCHANGED <<flusher, last, world>>
    BY <2>1 DEF Signal, exporting
  <2>3. /\ tees'[h] = Idle /\ \A g \in Handlers \ {h} : tees'[g] = tees[g]
        /\ Idle.pc = "idle" /\ Idle.entry = 0
    BY <1>t, <2>2 DEF TypeOK, Idle
  <2>4. TypeOK'
    BY <1>t, <1>1, <2>2, Sizes DEF TypeOK, Idle, world
  <2>5. Once'
    BY <1>t, <1>1, <2>3 DEF Once
  <2>6. SignalInv'
    BY <2>2 DEF SignalInv
  <2> QED
    BY <1>2, <2>4, <2>5, <2>6 DEF ExportInv
<1>4. CASE FlushOnTick \/ FlushOnSignal \/ FlushOnExit
  <2>1. /\ UNCHANGED <<tees, world>> /\ flusher' = "flush"
        /\ flushNow' \in BOOLEAN /\ last' \in BOOLEAN
    BY <1>t, <1>4 DEF FlushOnTick, FlushOnSignal, FlushOnExit, StartFlush, handling, TypeOK
  <2>2. TypeOK'
    BY <1>t, <1>1, <2>1 DEF TypeOK, world
  <2>3. Once' /\ SignalInv'
    BY <1>t, <1>1, <2>1 DEF Once, SignalInv
  <2> QED
    BY <1>2, <2>2, <2>3 DEF ExportInv
<1>5. CASE Cancel \/ Outage \/ Recover \/ UNCHANGED vars
  <2>1. UNCHANGED <<tees, flushNow, flusher, last>>
    BY <1>5 DEF Cancel, Outage, Recover, vars, handling, exporting
  <2>2. running' \in BOOLEAN /\ sinkUp' \in BOOLEAN /\ outages' \in 0..MaxOutages
    <3>1. running \in BOOLEAN /\ sinkUp \in BOOLEAN /\ outages \in 0..MaxOutages
      BY <1>t DEF TypeOK
    <3>2. CASE Outage
      <4>1. UNCHANGED running /\ sinkUp' = FALSE
            /\ outages < MaxOutages /\ outages' = outages + 1
        BY <3>2 DEF Outage
      <4>2. outages' \in 0..MaxOutages
        BY <3>1, <4>1, Sizes
      <4> QED
        BY <3>1, <4>1, <4>2
    <3>3. CASE Cancel \/ Recover \/ UNCHANGED vars
      BY <3>1, <3>3 DEF Cancel, Recover, vars, world
    <3> QED
      BY <1>5, <3>2, <3>3
  <2>3. TypeOK'
    BY <1>t, <1>1, <2>1, <2>2 DEF TypeOK
  <2>4. Once' /\ SignalInv'
    BY <1>t, <1>1, <2>1 DEF Once, SignalInv
  <2> QED
    BY <1>2, <2>3, <2>4 DEF ExportInv
<1> QED
  BY <1>3, <1>4, <1>5

LEMMA TakeStep ==
    ASSUME ExportInv, Take
    PROVE  ExportInv'
<1>t. /\ TypeOK /\ Once /\ WindowInv /\ SignalInv
      /\ flusher = "flush" /\ batch = <<>>
      /\ UNCHANGED <<count, tees, enqueued, flushNow, last, received, acked, failed, world>>
  BY DEF ExportInv, Take, handling, WindowInv
<1>a. AfterFlush \in {"select", "stopped"}
  BY DEF AfterFlush
<1>1. CASE buf = <<>>
  <2>1. UNCHANGED <<batch, buf>> /\ flusher' \in {"select", "stopped"} /\ Len(buf) = 0
    BY <1>1, <1>a DEF Take
  <2>2. TypeOK'
    BY <1>t, <2>1 DEF TypeOK, world
  <2>3. Once' /\ SignalInv'
    BY <1>t, <2>1, Sizes DEF Once, SignalInv
  <2>4. WindowInv'
    BY <1>t, <2>1, WindowFrame
  <2> QED
    BY <2>2, <2>3, <2>4 DEF ExportInv
<1>2. CASE buf # <<>>
  <2>1. batch' = buf /\ buf' = <<>> /\ flusher' = "post" /\ Len(buf') = 0
    BY <1>2 DEF Take
  <2>2. TypeOK'
    BY <1>t, <2>1, Sizes DEF TypeOK, world
  <2>3. Once' /\ SignalInv'
    BY <1>t, <2>1, Sizes DEF Once, SignalInv
  <2>t. PICK n, l : n = Len(enqueued) /\ l = Len(buf)
    OBVIOUS
  <2>4. n \in Nat /\ l \in Nat /\ l <= n /\ \A i \in 1..l : buf[i] = enqueued[n - l + i]
    BY <1>t, <2>t, ExportTypes DEF WindowInv
  <2>5. PICK lo \in Nat : Window(lo)
    BY <1>t DEF WindowInv
  <2>6. /\ lo <= n - l /\ (lo = n - l \/ l = MaxBuffered)
        /\ \A i \in 1..n : i > n - MaxBuffered => enqueued[i] \in received \/ lo < i
        /\ \A i, j \in 1..n :
            lo < i /\ enqueued[i] \notin received /\ enqueued[j] \in received => j < i
        /\ \A j \in 1..n : enqueued[j] \in acked => j <= lo
    BY <1>t, <2>t, <2>4, <2>5 DEF Window
  <2>7. PICK k \in Nat : k = n - l
    BY <2>4
  <2>8. Window(k)'
    <3>1. /\ k + l <= n - 0 /\ k + l = n
          /\ \A i \in 1..n : i > n - MaxBuffered => enqueued[i] \in received \/ k < i
          /\ \A i, j \in 1..n :
            k < i /\ enqueued[i] \notin received /\ enqueued[j] \in received => j < i
          /\ \A j \in 1..n : enqueued[j] \in acked => j <= k
      BY <2>4, <2>6, <2>7, Sizes
    <3> QED
      BY <1>t, <2>1, <2>t, <2>4, <2>7, <3>1 DEF Window
  <2>9. WindowInv'
    BY <1>t, <2>1, <2>t, <2>4, <2>8 DEF WindowInv
  <2> QED
    BY <2>2, <2>3, <2>9 DEF ExportInv
<1> QED
  BY <1>1, <1>2

(* Where the waiting entries stand among those enqueued.                   *)
LEMMA Places ==
    ASSUME TypeOK, Once, WindowInv, NEW lo \in Nat, Window(lo),
           NEW j \in 1..Len(enqueued)
    PROVE  /\ enqueued[j] \in ToSet(batch) <=> lo < j /\ j <= lo + Len(batch)
           /\ enqueued[j] \in ToSet(buf) <=> Len(enqueued) - Len(buf) < j
<1>t. PICK n, l, b : n = Len(enqueued) /\ l = Len(buf) /\ b = Len(batch)
  OBVIOUS
<1>1. /\ n \in Nat /\ l \in Nat /\ b \in Nat /\ l <= n /\ lo + b <= n - l
      /\ ToSet(buf) = {buf[i] : i \in 1..l} /\ ToSet(batch) = {batch[i] : i \in 1..b}
  BY <1>t, ExportTypes DEF WindowInv, Window
<1>2. /\ \A i \in 1..l : buf[i] = enqueued[n - l + i]
      /\ \A i \in 1..b : batch[i] = enqueued[lo + i]
      /\ \A i \in 1..n : enqueued[i] = enqueued[j] => i = j
  BY <1>t DEF WindowInv, Window, Once
<1>3. j \in 1..n
  BY <1>t
<1>4. ASSUME enqueued[j] \in ToSet(batch) PROVE lo < j /\ j <= lo + b
  <2>0. PICK i \in 1..b : enqueued[j] = batch[i]
    BY <1>1, <1>4
  <2>1. enqueued[j] = enqueued[lo + i]
    BY <1>2, <2>0
  <2>2. lo + i \in 1..n
    BY <1>1
  <2>3. lo + i = j
    BY <1>2, <2>1, <2>2
  <2> QED
    BY <1>1, <2>3
<1>5. ASSUME lo < j, j <= lo + b PROVE enqueued[j] \in ToSet(batch)
  <2>1. j - lo \in 1..b /\ lo + (j - lo) = j
    BY <1>1, <1>3, <1>5
  <2> QED
    BY <1>1, <1>2, <2>1
<1>6. ASSUME enqueued[j] \in ToSet(buf) PROVE n - l < j
  <2>0. PICK i \in 1..l : enqueued[j] = buf[i]
    BY <1>1, <1>6
  <2>1. enqueued[j] = enqueued[n - l + i]
    BY <1>2, <2>0
  <2>2. n - l + i \in 1..n
    BY <1>1
  <2>3. n - l + i = j
    BY <1>2, <2>1, <2>2
  <2> QED
    BY <1>1, <2>3
<1>7. ASSUME n - l < j PROVE enqueued[j] \in ToSet(buf)
  <2>1. j - (n - l) \in 1..l /\ n - l + (j - (n - l)) = j
    BY <1>1, <1>3, <1>7
  <2> QED
    BY <1>1, <1>2, <2>1
<1> QED
  BY <1>t, <1>4, <1>5, <1>6, <1>7

LEMMA WaitingEnqueued ==
    ASSUME TypeOK, WindowInv
    PROVE  Pending \subseteq ToSet(enqueued)
<1>1. PICK lo \in Nat : Window(lo)
  BY DEF WindowInv
<1>t. PICK n, l, b : n = Len(enqueued) /\ l = Len(buf) /\ b = Len(batch)
  OBVIOUS
<1>2. /\ n \in Nat /\ l \in Nat /\ b \in Nat /\ l <= n /\ lo + b <= n - l
      /\ \A i \in 1..l : buf[i] = enqueued[n - l + i]
      /\ \A i \in 1..b : batch[i] = enqueued[lo + i]
  BY <1>1, <1>t, ExportTypes DEF WindowInv, Window
<1>3. /\ \A i \in 1..l : n - l + i \in 1..n
      /\ \A i \in 1..b : lo + i \in 1..n
  BY <1>2
<1>4. /\ ToSet(buf) = {buf[i] : i \in 1..l} /\ ToSet(batch) = {batch[i] : i \in 1..b}
      /\ ToSet(enqueued) = {enqueued[i] : i \in 1..n}
  BY <1>t, ExportTypes
<1> QED
  BY <1>2, <1>3, <1>4 DEF Pending

(* What both outcomes of a post have in common: the batch is done with,    *)
(* and what is left is the buffer, from place k + 1 on.                    *)
LEMMA PostStep ==
    ASSUME ExportInv, flusher = "post",
           UNCHANGED <<count, tees, enqueued, flushNow, last, world>>,
           batch' = <<>>, flusher' = AfterFlush, failed' \in BOOLEAN,
           buf' \in Seq(Entries), Len(buf') \in Nat, Len(buf') <= MaxBuffered,
           Len(buf') <= Len(enqueued),
           received' \in {received, received \cup ToSet(batch)},
           acked \subseteq acked', acked' \subseteq received',
           \A i \in 1..Len(buf') : buf'[i] = enqueued[Len(enqueued) - Len(buf') + i],
           failed' \/ Len(buf') = Len(buf),
           \E k \in Nat : k = Len(enqueued) - Len(buf') /\ Window(k)'
    PROVE  ExportInv'
<1>t. TypeOK /\ Once /\ WindowInv /\ SignalInv
  BY DEF ExportInv
<1>1. AfterFlush \in {"select", "stopped"}
  BY DEF AfterFlush
<1>2. received' \subseteq ToSet(enqueued)
  BY <1>t, WaitingEnqueued DEF TypeOK, Pending
<1>3. Len(batch') = 0 /\ batch' \in Seq(Entries)
  OBVIOUS
<1>4. TypeOK'
  BY <1>t, <1>1, <1>2, <1>3, Sizes DEF TypeOK, world
<1>5. Once'
  BY <1>t DEF Once
<1>6. WindowInv'
  BY DEF WindowInv
<1>7. SignalInv'
  BY <1>t, <1>1 DEF SignalInv
<1> QED
  BY <1>4, <1>5, <1>6, <1>7 DEF ExportInv

LEMMA DeliverStep ==
    ASSUME ExportInv, Deliver
    PROVE  ExportInv'
<1>t. /\ TypeOK /\ Once /\ WindowInv
      /\ UNCHANGED <<count, tees, enqueued, flushNow, last, world, buf>>
      /\ flusher = "post" /\ batch' = <<>> /\ flusher' = AfterFlush /\ failed' = FALSE
      /\ received' = received \cup ToSet(batch) /\ acked' = acked \cup ToSet(batch)
  BY DEF ExportInv, Deliver, handling
<1>p. PICK n, l, b, lo, B, R :
        /\ n = Len(enqueued) /\ l = Len(buf) /\ b = Len(batch)
        /\ lo \in Nat /\ Window(lo) /\ B = ToSet(batch) /\ R = received
  BY <1>t DEF WindowInv
<1>1. /\ n \in Nat /\ l \in Nat /\ b \in Nat /\ l <= MaxBuffered /\ l <= n
      /\ lo \in Nat /\ lo + b <= n - l /\ (lo + b = n - l \/ l = MaxBuffered)
      /\ \A i \in 1..n : i > n - MaxBuffered => enqueued[i] \in R \/ lo < i
      /\ \A i, j \in 1..n : lo < i /\ enqueued[i] \notin R /\ enqueued[j] \in R => j < i
      /\ \A j \in 1..n : enqueued[j] \in acked => j <= lo
  BY <1>t, <1>p, ExportTypes DEF WindowInv, Window
<1>2. \A j \in 1..n : enqueued[j] \in B <=> lo < j /\ j <= lo + b
  BY <1>t, <1>p, Places
<1>3. PICK k \in Nat : k = n - l
  BY <1>1
<1>4. ASSUME NEW i \in 1..n, i > n - MaxBuffered PROVE enqueued[i] \in R \cup B \/ k < i
  BY <1>1, <1>2, <1>3, <1>4, Sizes
<1>5. ASSUME NEW i \in 1..n, NEW j \in 1..n, k < i,
             enqueued[i] \notin R \cup B, enqueued[j] \in R \cup B
      PROVE  j < i
  BY <1>1, <1>2, <1>3, <1>5
<1>6. ASSUME NEW j \in 1..n, enqueued[j] \in acked \cup B PROVE j <= k
  BY <1>1, <1>2, <1>3, <1>6
<1>7. Window(k)'
  <2>1. k + 0 <= n - l /\ k + 0 = n - l /\ Len(batch') = 0
    BY <1>t, <1>1, <1>3
  <2> QED
    BY <1>t, <1>p, <1>4, <1>5, <1>6, <2>1 DEF Window
<1>8. /\ buf \in Seq(Entries) /\ acked \subseteq received
      /\ \A i \in 1..l : buf[i] = enqueued[n - l + i]
  BY <1>t, <1>p DEF TypeOK, WindowInv
<1> QED
  BY <1>t, <1>p, <1>1, <1>3, <1>7, <1>8, PostStep

LEMMA RequeueStep ==
    ASSUME ExportInv, Requeue
    PROVE  ExportInv'
<1>t. /\ TypeOK /\ Once /\ WindowInv
      /\ UNCHANGED <<count, tees, enqueued, flushNow, last, world, acked>>
      /\ flusher = "post" /\ batch' = <<>> /\ flusher' = AfterFlush /\ failed' = TRUE
      /\ received' \in {received, received \cup ToSet(batch)}
      /\ buf' = Keep(batch \o buf)
  BY DEF ExportInv, Requeue, handling
<1>p. PICK n, l, b, lo, B, R, c :
        /\ n = Len(enqueued) /\ l = Len(buf) /\ b = Len(batch)
        /\ lo \in Nat /\ Window(lo) /\ B = ToSet(batch) /\ R = received
        /\ c = batch \o buf
  BY <1>t DEF WindowInv
<1>1. /\ n \in Nat /\ l \in Nat /\ b \in Nat /\ l <= MaxBuffered /\ l <= n
      /\ lo \in Nat /\ lo + b <= n - l /\ (lo + b = n - l \/ l = MaxBuffered)
      /\ \A i \in 1..n : i > n - MaxBuffered => enqueued[i] \in R \/ lo < i
      /\ \A i, j \in 1..n : lo < i /\ enqueued[i] \notin R /\ enqueued[j] \in R => j < i
      /\ \A j \in 1..n : enqueued[j] \in acked => j <= lo
  BY <1>t, <1>p, ExportTypes DEF WindowInv, Window
<1>2. \A j \in 1..n : enqueued[j] \in B <=> lo < j /\ j <= lo + b
  BY <1>t, <1>p, Places
<1>3. /\ c \in Seq(Entries) /\ Len(c) = b + l
      /\ \A x \in 1..(b + l) : c[x] = IF x <= b THEN batch[x] ELSE buf[x - b]
  BY <1>t, <1>p DEF TypeOK
<1>4. PICK m : m = Len(Keep(c))
  OBVIOUS
<1>5. /\ Keep(c) \in Seq(Entries)
      /\ m = IF b + l <= MaxBuffered THEN b + l ELSE MaxBuffered
      /\ \A i \in 1..m : Keep(c)[i] = c[b + l - m + i]
  <2>1. /\ Keep(c) \in Seq(Entries)
        /\ Len(Keep(c)) = IF Len(c) <= MaxBuffered THEN Len(c) ELSE MaxBuffered
        /\ \A i \in 1..Len(Keep(c)) : Keep(c)[i] = c[Len(c) - Len(Keep(c)) + i]
    BY <1>3, KeepIs
  <2>2. PICK K, q : K = Keep(c) /\ q = Len(c)
    OBVIOUS
  <2>3. q = b + l /\ m = Len(K)
    BY <1>3, <1>4, <2>2
  <2>4. m = IF q <= MaxBuffered THEN q ELSE MaxBuffered
    BY <2>1, <2>2, <2>3
  <2>5. \A i \in 1..m : K[i] = c[q - m + i]
    BY <2>1, <2>2, <2>3
  <2>6. m = IF b + l <= MaxBuffered THEN b + l ELSE MaxBuffered
    BY <2>3, <2>4
  <2>7. ASSUME NEW i \in 1..m PROVE K[i] = c[b + l - m + i]
    <3>1. K[i] = c[q - m + i]
      BY <2>5
    <3>2. m \in Nat
      <4>1. Keep(c) \in Seq(Entries)
        BY <2>1
      <4>2. Len(Keep(c)) \in Nat
        BY <4>1
      <4> QED
        BY <1>4, <4>2
    <3>3. q - m + i = b + l - m + i
      BY <1>1, <2>3, <3>2
    <3> QED
      BY <3>1, <3>3
  <2> QED
    BY <2>1, <2>2, <2>6, <2>7
<1>6. m \in Nat /\ m <= b + l /\ m <= MaxBuffered /\ (m = b + l \/ m = MaxBuffered)
  BY <1>1, <1>5, Sizes
<1>7. PICK k \in Nat : k = n - m
  BY <1>1, <1>6
<1>8. lo <= k
  BY <1>1, <1>6, <1>7
<1>9. ASSUME NEW i \in 1..m PROVE Keep(c)[i] = enqueued[n - m + i]
  <2>1. PICK x \in 1..(b + l) : x = b + l - m + i
    BY <1>1, <1>6
  <2>2. Keep(c)[i] = c[x]
    BY <1>5, <2>1
  <2>3. CASE x <= b
    <3>1. lo + b = n - l
      BY <1>1, <1>6, <2>1, <2>3, Sizes
    <3>2. c[x] = batch[x] /\ batch[x] = enqueued[lo + x]
      BY <1>3, <1>p, <2>3 DEF Window
    <3>3. lo + x = n - m + i
      BY <1>1, <1>6, <2>1, <3>1
    <3> QED
      BY <2>2, <3>2, <3>3
  <2>4. CASE x > b
    <3>1. PICK y \in 1..l : y = x - b
      BY <1>1, <2>4
    <3>2. c[x] = buf[y]
      BY <1>1, <1>3, <2>4, <3>1
    <3>3. buf[y] = enqueued[n - l + y]
      BY <1>t, <1>p DEF WindowInv
    <3>4. n - l + y = n - m + i
      BY <1>1, <1>6, <2>1, <3>1
    <3> QED
      BY <2>2, <3>2, <3>3, <3>4
  <2> QED
    BY <1>1, <2>3, <2>4
<1>10. ASSUME NEW i \in 1..n, i > n - MaxBuffered PROVE enqueued[i] \in received' \/ k < i
  <2>1. CASE m = MaxBuffered
    BY <1>1, <1>6, <1>7, <1>10, <2>1, Sizes
  <2>2. CASE m = b + l
    <3>1. k = lo \/ l = MaxBuffered
      BY <1>1, <1>7, <2>2
    <3> QED
      BY <1>t, <1>p, <1>1, <1>6, <1>7, <1>10, <2>2, <3>1, Sizes
  <2> QED
    BY <1>6, <2>1, <2>2
<1>11. ASSUME NEW i \in 1..n, NEW j \in 1..n, k < i,
              enqueued[i] \notin received', enqueued[j] \in received'
       PROVE  j < i
  <2>1. lo < i
    BY <1>1, <1>7, <1>8, <1>11
  <2>2. CASE received' = R
    BY <1>1, <1>11, <2>1, <2>2
  <2>3. CASE received' = R \cup B
    BY <1>1, <1>2, <1>11, <2>1, <2>3
  <2> QED
    BY <1>t, <1>p, <2>2, <2>3
<1>12. \A j \in 1..n : enqueued[j] \in acked => j <= k
  BY <1>1, <1>7, <1>8
<1>13. Window(k)'
  <2>1. k + 0 <= n - m /\ k + 0 = n - m /\ Len(batch') = 0 /\ Len(buf') = m
    BY <1>t, <1>p, <1>1, <1>4, <1>7
  <2> QED
    BY <1>t, <1>p, <1>10, <1>11, <1>12, <2>1 DEF Window
<1>14. acked' \subseteq received'
  BY <1>t DEF TypeOK
<1>15. /\ buf' \in Seq(Entries) /\ Len(buf') = m /\ m <= n
       /\ \A i \in 1..m : buf'[i] = enqueued[n - m + i]
  <2>1. buf' = Keep(c)
    BY <1>t, <1>p
  <2>2. m <= n
    BY <1>1, <1>6, <1>7
  <2> QED
    BY <1>4, <1>5, <1>9, <2>1, <2>2
<1> QED
  BY <1>t, <1>p, <1>6, <1>7, <1>13, <1>14, <1>15, PostStep

LEMMA EnqueueStep ==
    ASSUME ExportInv, NEW h \in Handlers, Enqueue(h)
    PROVE  ExportInv'
<1>t. /\ TypeOK /\ Once /\ WindowInv
      /\ UNCHANGED <<count, flushNow, flusher, last, batch, received, acked, failed, world>>
      /\ tees[h].pc = "tee"
      /\ buf' = Keep(Append(buf, tees[h].entry))
      /\ enqueued' = Append(enqueued, tees[h].entry)
  BY DEF ExportInv, Enqueue, exporting
<1>p. PICK n, l, b, lo, e, c :
        /\ n = Len(enqueued) /\ l = Len(buf) /\ b = Len(batch)
        /\ lo \in Nat /\ Window(lo) /\ e = tees[h].entry /\ c = Append(buf, e)
  BY <1>t DEF WindowInv
<1>1. /\ n \in Nat /\ l \in Nat /\ b \in Nat /\ l <= MaxBuffered /\ l <= n
      /\ lo \in Nat /\ lo + b <= n - l /\ (lo + b = n - l \/ l = MaxBuffered)
      /\ \A i \in 1..n : i > n - MaxBuffered => enqueued[i] \in received \/ lo < i
      /\ \A i, j \in 1..n :
            lo < i /\ enqueued[i] \notin received /\ enqueued[j] \in received => j < i
      /\ \A j \in 1..n : enqueued[j] \in acked => j <= lo
  BY <1>t, <1>p, ExportTypes DEF WindowInv, Window
<1>2. /\ e \in 1..count /\ e \in Entries
      /\ \A i \in 1..n : enqueued[i] # e
  <2>1. e \in 1..count /\ \A i \in 1..n : enqueued[i] # e
    BY <1>t, <1>p DEF Once
  <2> QED
    BY <1>t, <2>1, ExportTypes, Sizes DEF Entries
<1>3. /\ enqueued' \in Seq(1..count) /\ Len(enqueued') = n + 1
      /\ enqueued'[n + 1] = e /\ \A i \in 1..n : enqueued'[i] = enqueued[i]
  BY <1>t, <1>p, <1>2 DEF TypeOK
<1>4. /\ c \in Seq(Entries) /\ Len(c) = l + 1
      /\ c[l + 1] = e /\ \A x \in 1..l : c[x] = buf[x]
  BY <1>t, <1>p, <1>2 DEF TypeOK
<1>5. PICK m : m = Len(buf')
  OBVIOUS
<1>6. /\ buf' \in Seq(Entries) /\ m \in Nat
      /\ \A i \in 1..m : buf'[i] = c[(l + 1) - m + i]
  <2>1. /\ Keep(c) \in Seq(Entries)
        /\ \A i \in 1..Len(Keep(c)) : Keep(c)[i] = c[Len(c) - Len(Keep(c)) + i]
    BY <1>4, KeepIs
  <2>2. buf' = Keep(c)
    BY <1>t, <1>p
  <2>3. m \in Nat
    <3>1. buf' \in Seq(Entries)
      BY <2>1, <2>2
    <3> QED
      BY <1>5, <3>1
  <2> QED
    BY <1>4, <1>5, <2>1, <2>2, <2>3
<1>7. m <= l + 1 /\ m <= MaxBuffered /\ (m = l + 1 \/ m = MaxBuffered)
  <2>1. Len(Keep(c)) = IF Len(c) <= MaxBuffered THEN Len(c) ELSE MaxBuffered
    BY <1>4, KeepIs
  <2>2. m = IF l + 1 <= MaxBuffered THEN l + 1 ELSE MaxBuffered
    BY <1>t, <1>p, <1>4, <1>5, <2>1
  <2> QED
    BY <1>1, <2>2, Sizes
<1>8. ASSUME NEW i \in 1..m PROVE buf'[i] = enqueued'[(n + 1) - m + i]
  <2>1. PICK x \in 1..(l + 1) : x = (l + 1) - m + i
    BY <1>1, <1>6, <1>7
  <2>2. buf'[i] = c[x]
    BY <1>6, <2>1
  <2>3. CASE x = l + 1
    <3>1. (n + 1) - m + i = n + 1
      BY <1>1, <1>6, <2>1, <2>3
    <3> QED
      BY <1>3, <1>4, <2>2, <2>3, <3>1
  <2>4. CASE x \in 1..l
    <3>1. c[x] = buf[x] /\ buf[x] = enqueued[n - l + x]
      BY <1>t, <1>p, <1>4, <2>4 DEF WindowInv
    <3>2. n - l + x \in 1..n /\ n - l + x = (n + 1) - m + i
      BY <1>1, <1>6, <2>1, <2>4
    <3> QED
      BY <1>3, <2>2, <3>1, <3>2
  <2> QED
    BY <1>1, <2>3, <2>4
<1>9. e \notin received /\ acked \subseteq received
  <2>1. received \subseteq {enqueued[i] : i \in 1..n} /\ acked \subseteq received
    BY <1>t, <1>p, ExportTypes DEF TypeOK
  <2> QED
    BY <1>2, <2>1
<1>10. Window(lo)'
  <2>1. lo + b <= (n + 1) - m /\ (lo + b = (n + 1) - m \/ m = MaxBuffered)
    BY <1>1, <1>6, <1>7
  <2>2. ASSUME NEW i \in 1..b PROVE batch[i] = enqueued'[lo + i]
    <3>1. batch[i] = enqueued[lo + i] /\ lo + i \in 1..n
      BY <1>p, <1>1 DEF Window
    <3> QED
      BY <1>3, <3>1
  <2>3. ASSUME NEW i \in 1..(n + 1), i > (n + 1) - MaxBuffered
        PROVE  enqueued'[i] \in received \/ lo < i
    <3>1. CASE i = n + 1
      BY <1>1, <3>1
    <3>2. CASE i \in 1..n
      BY <1>1, <1>3, <2>3, <3>2, Sizes
    <3> QED
      BY <1>1, <3>1, <3>2
  <2>4. ASSUME NEW i \in 1..(n + 1), NEW j \in 1..(n + 1),
               lo < i, enqueued'[i] \notin received, enqueued'[j] \in received
        PROVE  j < i
    <3>1. j \in 1..n
      BY <1>1, <1>3, <1>9, <2>4
    <3>2. CASE i = n + 1
      BY <1>1, <3>1, <3>2
    <3>3. CASE i \in 1..n
      BY <1>1, <1>3, <2>4, <3>1, <3>3
    <3> QED
      BY <1>1, <3>2, <3>3
  <2>5. ASSUME NEW j \in 1..(n + 1), enqueued'[j] \in acked PROVE j <= lo
    <3>1. j \in 1..n
      BY <1>1, <1>3, <1>9, <2>5
    <3> QED
      BY <1>1, <1>3, <2>5, <3>1
  <2> QED
    BY <1>t, <1>p, <1>3, <1>5, <2>1, <2>2, <2>3, <2>4, <2>5 DEF Window
<1>11. WindowInv'
  <2>1. m <= n + 1
    BY <1>1, <1>6, <1>7
  <2>2. flusher' # "post" => batch' = <<>>
    BY <1>t DEF WindowInv
  <2> QED
    BY <1>p, <1>3, <1>5, <1>8, <1>10, <2>1, <2>2 DEF WindowInv
<1>12. /\ tees' \in [Handlers -> [pc : {"idle", "tee", "signal"}, entry : 0..MaxEntries]]
       /\ tees'[h].pc # "tee" /\ (Len(buf') >= BatchSize => tees'[h].pc = "signal")
       /\ \A g \in Handlers \ {h} : tees'[g] = tees[g]
  <2>1. Idle \in [pc : {"idle", "tee", "signal"}, entry : 0..MaxEntries] /\ Idle.pc = "idle"
    BY Sizes DEF Idle
  <2>2. PICK k : k = [tees[h] EXCEPT !.pc = "signal"]
    OBVIOUS
  <2>3. k \in [pc : {"idle", "tee", "signal"}, entry : 0..MaxEntries] /\ k.pc = "signal"
    BY <1>t, <2>2 DEF TypeOK
  <2>4. tees' = [tees EXCEPT ![h] = IF Len(buf') >= BatchSize THEN k ELSE Idle]
    BY <2>2 DEF Enqueue
  <2> QED
    BY <1>t, <2>1, <2>3, <2>4 DEF TypeOK
<1>13. TypeOK'
  <2>1. received \subseteq ToSet(enqueued')
    <3>1. received \subseteq {enqueued[i] : i \in 1..n}
      BY <1>t, <1>p, ExportTypes DEF TypeOK
    <3>2. DOMAIN enqueued' = 1..(n + 1)
      BY <1>3
    <3>3. \A i \in 1..n : i \in DOMAIN enqueued'
      BY <1>1, <3>2
    <3>4. \A i \in 1..n : enqueued[i] \in ToSet(enqueued')
      BY <1>3, <3>3 DEF ToSet
    <3> QED
      BY <3>1, <3>4
  <2> QED
    BY <1>t, <1>3, <1>5, <1>6, <1>7, <1>12, <2>1 DEF TypeOK, world
<1>14. Once'
  <2>1. \A g \in Handlers : tees'[g].pc = "tee" =>
            g # h /\ tees'[g] = tees[g] /\ tees[g].entry # e
    BY <1>t, <1>p, <1>12 DEF Once
  <2>2. ASSUME NEW g \in Handlers, tees'[g].pc = "tee", NEW i \in 1..(n + 1)
        PROVE  tees'[g].entry \in 1..count /\ enqueued'[i] # tees'[g].entry
    <3>1. CASE i = n + 1
      BY <1>t, <1>3, <2>1, <2>2, <3>1 DEF Once
    <3>2. CASE i \in 1..n
      BY <1>t, <1>p, <1>3, <2>1, <2>2, <3>2 DEF Once
    <3> QED
      BY <1>1, <3>1, <3>2
  <2>3. ASSUME NEW i \in 1..(n + 1), NEW j \in 1..(n + 1), enqueued'[i] = enqueued'[j]
        PROVE  i = j
    <3>1. (i = n + 1 \/ i \in 1..n) /\ (j = n + 1 \/ j \in 1..n)
      BY <1>1
    <3>2. (i = n + 1 /\ j = n + 1) \/ (i \in 1..n /\ j \in 1..n)
      BY <1>2, <1>3, <2>3, <3>1
    <3>3. \A x, y \in 1..n : enqueued[x] = enqueued[y] => x = y
      BY <1>t, <1>p DEF Once
    <3> QED
      BY <1>3, <2>3, <3>2, <3>3
  <2>4. \A g, k \in Handlers :
            tees'[g].pc = "tee" /\ tees'[k].pc = "tee" /\ g # k => tees'[g].entry # tees'[k].entry
    BY <1>t, <2>1 DEF Once
  <2>5. \A g \in Handlers : tees'[g].pc = "tee" => tees'[g].entry \in 1..count
    BY <1>t, <2>1 DEF Once
  <2> QED
    BY <1>t, <1>3, <2>2, <2>3, <2>4, <2>5 DEF Once
<1>15. SignalInv'
  BY <1>12 DEF SignalInv
<1> QED
  BY <1>11, <1>13, <1>14, <1>15 DEF ExportInv

LEMMA ExportNext == ExportInv /\ [Next]_vars => ExportInv'
BY TeeStep, EnqueueStep, QuietStep, TakeStep, DeliverStep, RequeueStep DEF Next

LEMMA ExportInvariance == Spec => []ExportInv
BY ExportInit, ExportNext, PTL DEF Spec

(* Every variable keeps its type.                                          *)
THEOREM ExporterTypeCorrect == Spec => []TypeOK
BY ExportInvariance, PTL DEF ExportInv

-----------------------------------------------------------------------------
(* An entry that was enqueued is received or waits, unless a whole buffer  *)
(* of newer ones followed it, however often flushes fail.                  *)
THEOREM OnlyOldestAreDropped == Spec => []OnlyOldestDropped
<1>1. ExportInv => OnlyOldestDropped
  <2> SUFFICES ASSUME ExportInv, NEW i \in 1..Len(enqueued),
                      ~ (Len(enqueued) - i >= MaxBuffered)
               PROVE  enqueued[i] \in received \cup Pending
    BY DEF OnlyOldestDropped, Superseded
  <2>t. TypeOK /\ Once /\ WindowInv
    BY DEF ExportInv
  <2>p. PICK n, l, b, lo :
            /\ n = Len(enqueued) /\ l = Len(buf) /\ b = Len(batch) /\ lo \in Nat /\ Window(lo)
    BY <2>t DEF WindowInv
  <2>1. /\ n \in Nat /\ l \in Nat /\ b \in Nat /\ i \in 1..n /\ i > n - MaxBuffered
        /\ lo + b = n - l \/ l = MaxBuffered
        /\ enqueued[i] \in received \/ lo < i
    <3>1. n \in Nat /\ l \in Nat /\ b \in Nat /\ i \in 1..n
      BY <2>t, <2>p, ExportTypes
    <3>2. i > n - MaxBuffered
      BY <2>p, <3>1, Sizes
    <3> QED
      BY <2>p, <3>1, <3>2 DEF Window
  <2>2. CASE n - l < i
    BY <2>t, <2>p, <2>2, Places DEF Pending
  <2>3. CASE i <= n - l /\ enqueued[i] \notin received
    <3>1. lo < i /\ i <= lo + b
      BY <2>1, <2>3, Sizes
    <3> QED
      BY <2>t, <2>p, <3>1, Places DEF Pending
  <2> QED
    BY <2>1, <2>2, <2>3
<1> QED
  BY <1>1, ExportInvariance, PTL

(* The sink never receives an entry for the first time after a newer one.  *)
THEOREM OldestGoFirst == Spec => []OldestFirst
<1>1. ExportInv => OldestFirst
  <2> SUFFICES ASSUME ExportInv PROVE OldestFirst
    OBVIOUS
  <2>t. TypeOK /\ Once /\ WindowInv
    BY DEF ExportInv
  <2>p. PICK n, l, b, lo, w :
            /\ n = Len(enqueued) /\ l = Len(buf) /\ b = Len(batch) /\ lo \in Nat /\ Window(lo)
            /\ w = batch \o buf
    BY <2>t DEF WindowInv
  <2>1. n \in Nat /\ l \in Nat /\ b \in Nat /\ lo \in Nat /\ l <= n /\ lo + b <= n - l
    BY <2>t, <2>p, ExportTypes DEF WindowInv, Window
  <2>2. \A k \in 1..n : Position(enqueued[k]) = k
    BY <2>t, <2>p DEF Position, Once
  <2>3. /\ Len(w) = b + l
        /\ \A x \in 1..(b + l) : w[x] = IF x <= b THEN batch[x] ELSE buf[x - b]
    BY <2>t, <2>p DEF TypeOK
  <2>4. ASSUME NEW x \in 1..(b + l)
        PROVE  \E k \in 1..n : w[x] = enqueued[k]
                    /\ k = IF x <= b THEN lo + x ELSE n - l + (x - b)
    <3>1. CASE x <= b
      <4>1. w[x] = batch[x] /\ batch[x] = enqueued[lo + x]
        BY <2>p, <2>1, <2>3, <3>1 DEF Window
      <4>2. lo + x \in 1..n
        BY <2>1, <3>1
      <4> QED
        BY <3>1, <4>1, <4>2
    <3>2. CASE ~ (x <= b)
      <4>1. PICK y \in 1..l : y = x - b
        BY <2>1, <3>2
      <4>2. w[x] = buf[y] /\ buf[y] = enqueued[n - l + y]
        BY <2>t, <2>p, <2>3, <3>2, <4>1 DEF WindowInv
      <4>3. n - l + y \in 1..n
        BY <2>1
      <4> QED
        BY <3>2, <4>1, <4>2, <4>3
    <3> QED
      BY <3>1, <3>2
  <2>5. ASSUME NEW x \in 1..(b + l), NEW y \in 1..(b + l), x < y
        PROVE  Position(w[x]) < Position(w[y])
    <3>1. PICK k \in 1..n : w[x] = enqueued[k]
                    /\ k = IF x <= b THEN lo + x ELSE n - l + (x - b)
      BY <2>4
    <3>2. PICK m \in 1..n : w[y] = enqueued[m]
                    /\ m = IF y <= b THEN lo + y ELSE n - l + (y - b)
      BY <2>4
    <3>3. k < m
      BY <2>1, <2>5, <3>1, <3>2
    <3> QED
      BY <2>2, <3>1, <3>2, <3>3
  <2>6. ASSUME NEW e \in Pending \ received, NEW r \in received
        PROVE  Position(r) < Position(e)
    <3>1. ToSet(enqueued) = {enqueued[i] : i \in 1..n}
      BY <2>t, <2>p, ExportTypes
    <3>2. PICK i \in 1..n : e = enqueued[i]
      BY <2>t, <3>1, WaitingEnqueued
    <3>3. PICK j \in 1..n : r = enqueued[j]
      BY <2>t, <3>1 DEF TypeOK
    <3>4. lo < i
      <4>1. n - l < i \/ lo < i
        BY <2>t, <2>p, <3>2, Places DEF Pending
      <4> QED
        BY <2>1, <4>1
    <3>5. j < i
      BY <2>p, <3>2, <3>3, <3>4 DEF Window
    <3> QED
      BY <2>2, <3>2, <3>3, <3>5
  <2> QED
    BY <2>p, <2>3, <2>5, <2>6 DEF OldestFirst
<1> QED
  BY <1>1, ExportInvariance, PTL

(* What the sink acknowledged is never sent again.                         *)
THEOREM AcknowledgedNeverAgain == Spec => []AckedNeverAgain
<1>1. ExportInv => AckedNeverAgain
  <2> SUFFICES ASSUME ExportInv, NEW e \in acked, e \in Pending PROVE FALSE
    BY DEF AckedNeverAgain
  <2>t. TypeOK /\ Once /\ WindowInv
    BY DEF ExportInv
  <2>p. PICK n, l, b, lo :
            /\ n = Len(enqueued) /\ l = Len(buf) /\ b = Len(batch) /\ lo \in Nat /\ Window(lo)
    BY <2>t DEF WindowInv
  <2>1. n \in Nat /\ l \in Nat /\ b \in Nat /\ lo + b <= n - l
        /\ \A j \in 1..n : enqueued[j] \in acked => j <= lo
    BY <2>t, <2>p, ExportTypes DEF Window
  <2>2. PICK j \in 1..n : e = enqueued[j]
    BY <2>t, <2>p, WaitingEnqueued, ExportTypes
  <2>3. j <= lo
    BY <2>1, <2>2
  <2>4. n - l < j \/ lo < j
    BY <2>t, <2>p, <2>2, Places DEF Pending
  <2> QED
    BY <2>1, <2>p, <2>3, <2>4
<1> QED
  BY <1>1, ExportInvariance, PTL

(* A full batch does not wait for the ticker, unless a flush has just      *)
(* failed.                                                                 *)
THEOREM FullBatchesSignalled == Spec => []FullBatchSignalled
<1>1. ExportInv => FullBatchSignalled
  BY DEF ExportInv, SignalInv, FullBatchSignalled
<1> QED
  BY <1>1, ExportInvariance, PTL
=============================================================================
