---------------------------- MODULE SubjectRows -----------------------------
(***************************************************************************)
(* The table revocation_entries of the postgres back end.  A row names a   *)
(* CID, a DID or both, and rows are only ever added.  Revoke locks and     *)
(* numbers the exact pair (CID, DID); CurrentSeq and GetStatus look for a  *)
(* name in either column; RevocationEntries keys a row by its CID, or by   *)
(* its DID when it has no CID.                                             *)
(***************************************************************************)
EXTENDS Authority, Naturals

CONSTANTS
    Cids, Dids,     \* the names a subject can have
    None,           \* an empty column
    Pairs           \* the subjects clients name: <<CID or None, DID or None>>

ASSUME PairsAssumption ==
    /\ None \notin Cids \cup Dids
    /\ Pairs \subseteq (Cids \cup {None}) \X (Dids \cup {None})
    /\ <<None, None>> \notin Pairs

VARIABLE rows

Name == Cids \cup Dids

Row == [pair : Pairs, seq : Nat, status : Status]

Names(p) == {p[1], p[2]} \ {None}

(* RevocationSubject.Key, and COALESCE(NULLIF(subject_cid, ''), subject_did). *)
Key(p) == IF p[1] = None THEN p[2] ELSE p[1]

(* COALESCE(MAX(seq), 0), and the rows ORDER BY seq DESC may put first.    *)
Highest(R) ==
    CHOOSE n \in {0} \cup {r.seq : r \in R} : \A r \in R : r.seq <= n

Latest(R) == {r \in R : r.seq = Highest(R)}

Naming(s) == {r \in rows : s \in Names(r.pair)}

Under(k) == {r \in rows : Key(r.pair) = k}

OfPair(p) == {r \in rows : r.pair = p}

-----------------------------------------------------------------------------
CurrentSeq(s) == Highest(Naming(s))

(* Revoke refuses a number that does not exceed its own pair's highest; it *)
(* does not look at other pairs that share a name with this one.           *)
Accepts(r) == r.seq > Highest(OfPair(r.pair))

Revoke(r) == Accepts(r) /\ rows' = rows \cup {r}

(* Mutant of RevocationEntries: any row of the key instead of the latest,  *)
(* as DISTINCT ON gives without its ORDER BY.                              *)
MutantUnordered ==
    {E \in SUBSET rows :
        \A k \in Name : Under(k) # {} =>
            \E r \in E : Key(r.pair) = k /\ \A q \in E : Key(q.pair) = k => q = r}

(* RevocationEntries: of every key one latest row.  Where two pairs share  *)
(* a key and a number, the order of the two is the database's choice.      *)
RevocationEntries ==
    {E \in SUBSET (UNION {Latest(Under(k)) : k \in Name}) :
        \A k \in Name : Under(k) # {} =>
            \E r \in E : Key(r.pair) = k /\ \A q \in E : Key(q.pair) = k => q = r}
=============================================================================
