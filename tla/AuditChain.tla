----------------------------- MODULE AuditChain -----------------------------
(***************************************************************************)
(* The hash-linked audit log, as the postgres back end keeps it: every     *)
(* append is a transaction that takes an advisory lock, reads the last     *)
(* sequence number and the last hash and inserts the next entry.  Several  *)
(* appends run at once, on connections of their own.                       *)
(*                                                                         *)
(* Whoever has access to the storage may also write or remove rows behind  *)
(* the log's back and, since the hash takes no key, compute the hashes     *)
(* that go with them.  VerifyChain is there to detect it.                  *)
(***************************************************************************)
EXTENDS Integers

CONSTANTS
    Writers,        \* the appends that can be in progress at once
    Nobody,         \* no writer
    Bodies,         \* what an entry says: its type, agent, credential, payload
    MaxSeq,         \* bound on the sequence numbers
    MaxFaults,      \* bound on the statements that fail
    MaxDamage       \* bound on the damages to the stored table

ASSUME AuditAssumption ==
    /\ Nobody \notin Writers
    /\ MaxSeq \in Nat /\ MaxFaults \in Nat /\ MaxDamage \in Nat

VARIABLES
    rows,           \* the table audit_log: seq -> the entry's other columns
    lock,           \* the holder of the advisory lock, or Nobody
    txs,            \* per writer: its transaction
    faults,         \* statements that failed so far
    damage,         \* damages so far
    past            \* history: the hash of an appended entry -> the entries it
                    \* stands for, each as it was appended

vars == <<rows, lock, txs, faults, damage, past>>

Seqs == 1..MaxSeq

(***************************************************************************)
(* SHA-256 over seq, prev_hash and the content: it is taken to be          *)
(* injective, so the hash is the tuple of what was hashed.                 *)
(***************************************************************************)
MutantHashWithoutBody(s, body, prev) == <<s, prev>>

Hash(s, body, prev) == <<s, body, prev>>

Genesis == <<>>

(* A hash that is the hash of nothing.                                     *)
Garbage == <<"garbage">>

LastSeq == CHOOSE m \in {0} \cup DOMAIN rows : \A s \in DOMAIN rows : s <= m

HashOf(s) == IF s = 0 THEN Genesis ELSE rows[s].hash

(* The entry before s in the order of the sequence numbers, 0 for none.    *)
Before(s) ==
    CHOOSE m \in {0} \cup DOMAIN rows :
      m < s /\ \A r \in DOMAIN rows : r < s => r <= m

(* The hashes that stand for entries that were appended, and what for.     *)
Appended == {Genesis} \cup DOMAIN past

Past(h) == IF h = Genesis THEN {} ELSE past[h]

(* What the log says up to and including entry s.                          *)
Content(s) == {<<r, rows[r].body>> : r \in {q \in DOMAIN rows : q <= s}}

(***************************************************************************)
(* A transaction has read nothing, the last sequence number (seq is then   *)
(* its successor), or also the last hash (prev).                           *)
(***************************************************************************)
NoTx == [pc |-> "idle"]

TypeOK ==
    /\ DOMAIN rows \subseteq Seqs
    /\ \A s \in DOMAIN rows : DOMAIN rows[s] = {"body", "prev", "hash"} /\ rows[s].body \in Bodies
    /\ lock \in Writers \cup {Nobody}
    /\ DOMAIN txs = Writers
    /\ \A w \in Writers :
         \/ txs[w] = NoTx
         \/ txs[w] \in [pc : {"lock", "seq"}, body : Bodies]
         \/ /\ txs[w].pc \in {"prev", "insert"}
            /\ txs[w].body \in Bodies
            /\ txs[w].seq \in 1..(MaxSeq + 1)
    /\ faults \in 0..MaxFaults
    /\ damage \in 0..MaxDamage
    /\ \A h \in DOMAIN past : past[h] \subseteq Seqs \X Bodies

Init ==
    /\ rows = <<>>
    /\ lock = Nobody
    /\ txs = [w \in Writers |-> NoTx]
    /\ faults = 0
    /\ damage = 0
    /\ past = <<>>

-----------------------------------------------------------------------------
Begin(w, body) ==
    /\ txs[w] = NoTx
    /\ txs' = [txs EXCEPT ![w] = [pc |-> "lock", body |-> body]]
    /\ UNCHANGED <<rows, lock, faults, damage, past>>

(* pg_advisory_xact_lock: the writer waits until it is free.               *)
MutantLockNothing(w) ==
    /\ txs[w].pc = "lock"
    /\ txs' = [txs EXCEPT ![w].pc = "seq"]
    /\ UNCHANGED <<rows, lock, faults, damage, past>>

Lock(w) ==
    /\ txs[w].pc = "lock"
    /\ lock = Nobody
    /\ lock' = w
    /\ txs' = [txs EXCEPT ![w].pc = "seq"]
    /\ UNCHANGED <<rows, faults, damage, past>>

ReadSeq(w) ==
    /\ txs[w].pc = "seq"
    /\ txs' = [txs EXCEPT ![w] = [pc |-> "prev", body |-> @.body, seq |-> LastSeq + 1]]
    /\ UNCHANGED <<rows, lock, faults, damage, past>>

ReadPrev(w) ==
    /\ txs[w].pc = "prev"
    /\ txs' = [txs EXCEPT ![w] = [pc |-> "insert", body |-> @.body, seq |-> @.seq,
                                  prev |-> HashOf(LastSeq)]]
    /\ UNCHANGED <<rows, lock, faults, damage, past>>

MutantEntryHashedUnlinked(w) ==
    LET tx == txs[w]
    IN  [body |-> tx.body, prev |-> tx.prev, hash |-> Hash(tx.seq, tx.body, Genesis)]

Entry(w) ==
    LET tx == txs[w]
    IN  [body |-> tx.body, prev |-> tx.prev, hash |-> Hash(tx.seq, tx.body, tx.prev)]

(* The transaction ends, which releases the lock if it holds it.           *)
End(w) ==
    /\ txs' = [txs EXCEPT ![w] = NoTx]
    /\ lock' = IF lock = w THEN Nobody ELSE lock

(***************************************************************************)
(* The history after an append of body as entry s with a link to prev: the *)
(* entry's hash stands for what its link stands for and for the entry.     *)
(* A link to what no append has computed stands for nothing, and then the  *)
(* entry's hash does not either.                                           *)
(***************************************************************************)
PastWith(s, body, prev) ==
    LET h == Hash(s, body, prev)
    IN  IF prev \notin Appended \/ h \in DOMAIN past THEN past
        ELSE [g \in DOMAIN past \cup {h} |->
                IF g = h THEN Past(prev) \cup {<<s, body>>} ELSE past[g]]

(***************************************************************************)
(* Insert and commit.  The primary key refuses a sequence number that is   *)
(* taken, and then the append fails.                                       *)
(***************************************************************************)
Insert(w) ==
    /\ txs[w].pc = "insert"
    /\ txs[w].seq <= MaxSeq
    /\ IF txs[w].seq \in DOMAIN rows
         THEN UNCHANGED <<rows, past>>
         ELSE /\ rows' = [s \in DOMAIN rows \cup {txs[w].seq} |->
                            IF s = txs[w].seq THEN Entry(w) ELSE rows[s]]
              /\ past' = PastWith(txs[w].seq, txs[w].body, txs[w].prev)
    /\ End(w)
    /\ UNCHANGED <<faults, damage>>

(* A statement fails or the connection is lost: the transaction is undone. *)
AppendFails(w) ==
    /\ txs[w].pc # "idle"
    /\ faults < MaxFaults
    /\ faults' = faults + 1
    /\ End(w)
    /\ UNCHANGED <<rows, damage, past>>

-----------------------------------------------------------------------------
(***************************************************************************)
(* Damage to the table, one row a time: a row is removed, or written over  *)
(* or added with any body, link and hash that was ever in the log, or none *)
(* of these, or with the very hash of what the row now says.               *)
(***************************************************************************)
Known == {Genesis, Garbage} \cup DOMAIN past \cup {rows[s].hash : s \in DOMAIN rows}

WriteRow(s, row) ==
    rows' = [r \in DOMAIN rows \cup {s} |-> IF r = s THEN row ELSE rows[r]]

Forge ==
    \E s \in Seqs, b \in Bodies, p \in Known :
      \E h \in Known \cup {Hash(s, b, p)} :
        WriteRow(s, [body |-> b, prev |-> p, hash |-> h])

Remove ==
    \E s \in DOMAIN rows : rows' = [r \in DOMAIN rows \ {s} |-> rows[r]]

Damage ==
    /\ damage < MaxDamage
    /\ damage' = damage + 1
    /\ Forge \/ Remove
    /\ UNCHANGED <<lock, txs, faults, past>>

Next ==
    \/ \E w \in Writers, b \in Bodies : Begin(w, b)
    \/ \E w \in Writers :
         Lock(w) \/ ReadSeq(w) \/ ReadPrev(w) \/ Insert(w) \/ AppendFails(w)
    \/ Damage

Spec == Init /\ [][Next]_vars

-----------------------------------------------------------------------------
(* VerifyChain: every entry carries the hash of its predecessor and its own. *)
Verifies ==
    \A s \in DOMAIN rows :
      /\ rows[s].prev = HashOf(Before(s))
      /\ rows[s].hash = Hash(s, rows[s].body, rows[s].prev)

(***************************************************************************)
(* An append that is about to insert extends the log as it then is: its    *)
(* number is the next one and its link is to the last entry, whatever      *)
(* other appends committed since it began (Append: the lock makes the      *)
(* reads and the insert atomic).                                           *)
(***************************************************************************)
AppendsExtend ==
    damage = 0 =>
      \A w \in Writers : txs[w].pc = "insert" =>
        txs[w].seq = LastSeq + 1 /\ txs[w].prev = HashOf(LastSeq)

(* A log nothing happened to verifies, and has no gap (VerifyChain).       *)
UndamagedVerifies ==
    damage = 0 => Verifies /\ DOMAIN rows = 1..LastSeq

(***************************************************************************)
(* If the log verifies, then an entry whose hash is one that an append     *)
(* computed vouches for all that is said up to it: those are exactly the   *)
(* entries that were appended before it, and each says what it said when   *)
(* it was appended.  Whoever changes an entry unnoticed, with access to    *)
(* the storage, has to replace the hashes of this entry and of every later *)
(* one (entryHash covers every semantic field and the previous hash).      *)
(***************************************************************************)
VerifiedIsHistory ==
    Verifies =>
      \A s \in DOMAIN rows :
        rows[s].hash \in DOMAIN past => Content(s) = past[rows[s].hash]
=============================================================================
