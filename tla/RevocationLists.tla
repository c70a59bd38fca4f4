-------------------------- MODULE RevocationLists ---------------------------
(***************************************************************************)
(* How revocations reach the verifiers that do not ask the daemon: it      *)
(* serves signed, numbered lists of the latest entries, which caches and   *)
(* networks may delay, repeat, reorder and lose, and a verifier applies    *)
(* them to a cache of its own (MemoryRevocationCache.UpdateFromList).      *)
(*                                                                         *)
(* A list request reads the entries first and takes the list's number      *)
(* afterwards, while revocations and other list requests go on.  The       *)
(* counter is a variable of the process and starts at 0 again when the     *)
(* process restarts; the table stays.                                      *)
(***************************************************************************)
EXTENDS SubjectRows, FiniteSets

CONSTANTS
    Posters,        \* the revoke requests that can be in flight at once
    Listers,        \* the list requests that can be in flight at once
    Consumers,      \* the verifiers that apply lists
    Statuses,       \* the statuses clients ask for in this instance
    MaxSeq,         \* bound on the sequence numbers of entries
    MaxLists,       \* bound on the lists served
    MaxRestarts     \* bound on the restarts of the daemon

ASSUME ListsAssumption ==
    /\ Statuses \subseteq Status
    /\ MaxSeq \in Nat /\ MaxLists \in Nat /\ MaxRestarts \in Nat

VARIABLES
    posting,        \* per revoke request: idle, or the row it is about to post
    listing,        \* per list request: idle, or the entries it has read
    listSeq,        \* Service.listSeq
    lists,          \* every list served so far; each may arrive at any time
    cache,          \* per consumer: MemoryRevocationCache
    restarts        \* how often the process has been restarted

vars == <<rows, posting, listing, listSeq, lists, cache, restarts>>

IdlePost == [pc |-> "idle"]

IdleList == [pc |-> "idle"]

(***************************************************************************)
(* told, a history field, holds the rows there were when the request read  *)
(* the entries: whatever had been acknowledged by then is among them.      *)
(***************************************************************************)
Read == [pc : {"number"}, entries : SUBSET Row, told : SUBSET Row]

List == [number : Nat, entries : SUBSET Row, told : SUBSET Row]

(* What a cache holds of a name: nothing, or an entry of that key.         *)
NoRow == [pair |-> <<None, None>>, seq |-> 0, status |-> "NONE"]

Cache ==
    [listSeq : Nat, entries : [Name -> Row \cup {NoRow}], told : SUBSET Row]

TypeOK ==
    /\ rows \subseteq Row
    /\ posting \in [Posters -> {IdlePost} \cup [pc : {"apply"}, row : Row]]
    /\ listing \in [Listers -> {IdleList} \cup Read]
    /\ listSeq \in Nat
    /\ lists \subseteq List
    /\ cache \in [Consumers -> Cache]
    /\ restarts \in Nat

Init ==
    /\ rows = {}
    /\ posting = [t \in Posters |-> IdlePost]
    /\ listing = [l \in Listers |-> IdleList]
    /\ listSeq = 0
    /\ lists = {}
    /\ cache = [c \in Consumers |->
                  [listSeq |-> 0, entries |-> [k \in Name |-> NoRow], told |-> {}]]
    /\ restarts = 0

-----------------------------------------------------------------------------
(* handleRevoke as far as CurrentSeq's answer: it asks for the CID, or for *)
(* the DID when the request names no CID.                                  *)
PostRequest(t, p, st) ==
    /\ posting[t].pc = "idle"
    /\ \E scope \in Scope : ValidateAuthority("platform_root", st, scope)
    /\ CurrentSeq(Key(p)) < MaxSeq
    /\ posting' = [posting EXCEPT ![t] =
            [pc |-> "apply",
             row |-> [pair |-> p, seq |-> CurrentSeq(Key(p)) + 1, status |-> st]]]
    /\ UNCHANGED <<rows, listing, listSeq, lists, cache, restarts>>

(* Store.Revoke accepts the row, and the client is told.                   *)
PostApply(t) ==
    /\ posting[t].pc = "apply"
    /\ Revoke(posting[t].row)
    /\ posting' = [posting EXCEPT ![t] = IdlePost]
    /\ UNCHANGED <<listing, listSeq, lists, cache, restarts>>

(* Store.Revoke refuses it: 409.                                           *)
PostConflict(t) ==
    /\ posting[t].pc = "apply"
    /\ ~Accepts(posting[t].row)
    /\ posting' = [posting EXCEPT ![t] = IdlePost]
    /\ UNCHANGED <<rows, listing, listSeq, lists, cache, restarts>>

-----------------------------------------------------------------------------
(* handleGetRevocationList reads the entries ...                           *)
ListRead(l) ==
    /\ listing[l].pc = "idle"
    /\ Cardinality(lists) < MaxLists
    /\ \E E \in RevocationEntries :
        listing' = [listing EXCEPT ![l] =
                        [pc |-> "number", entries |-> E, told |-> rows]]
    /\ UNCHANGED <<rows, posting, listSeq, lists, cache, restarts>>

(* ... and then takes the next number, signs the list and serves it.       *)
ListNumber(l) ==
    /\ listing[l].pc = "number"
    /\ Cardinality(lists) < MaxLists
    /\ listSeq' = listSeq + 1
    /\ lists' = lists \cup {[number  |-> listSeq + 1,
                             entries |-> listing[l].entries,
                             told    |-> listing[l].told]}
    /\ listing' = [listing EXCEPT ![l] = IdleList]
    /\ UNCHANGED <<rows, posting, cache, restarts>>

-----------------------------------------------------------------------------
Newer(L, held, k) == {e \in L.entries : Key(e.pair) = k /\ e.seq > held[k].seq}

(* Mutant of Applied: the entries of an accepted list replace what the     *)
(* cache held, as if the list's number vouched for them.                   *)
MutantOverwrites(L, held) ==
    [k \in Name |->
        IF \E e \in L.entries : Key(e.pair) = k
        THEN CHOOSE e \in L.entries : Key(e.pair) = k
        ELSE held[k]]

(* The loop of UpdateFromList: of each key the higher number wins.         *)
Applied(L, held) ==
    [k \in Name |->
        IF Newer(L, held, k) = {} THEN held[k]
        ELSE CHOOSE e \in Newer(L, held, k) : TRUE]

(* UpdateFromList.  A list whose number is not higher than the last one    *)
(* accepted is refused, which changes nothing.                             *)
UpdateFromList(c, L) ==
    /\ L.number > cache[c].listSeq
    /\ cache' = [cache EXCEPT ![c] =
            [listSeq |-> L.number,
             entries |-> Applied(L, cache[c].entries),
             told    |-> cache[c].told \cup L.told]]
    /\ UNCHANGED <<rows, posting, listing, listSeq, lists, restarts>>

(* Mutant of Restart: the table is in memory as well.                      *)
MutantVolatile ==
    /\ restarts < MaxRestarts
    /\ restarts' = restarts + 1
    /\ rows' = {}
    /\ posting' = [t \in Posters |-> IdlePost]
    /\ listing' = [l \in Listers |-> IdleList]
    /\ listSeq' = 0
    /\ UNCHANGED <<lists, cache>>

(* The daemon dies and is started again: requests and counter are gone.    *)
Restart ==
    /\ restarts < MaxRestarts
    /\ restarts' = restarts + 1
    /\ posting' = [t \in Posters |-> IdlePost]
    /\ listing' = [l \in Listers |-> IdleList]
    /\ listSeq' = 0
    /\ UNCHANGED <<rows, lists, cache>>

Next ==
    \/ \E t \in Posters :
        \/ \E p \in Pairs, st \in Statuses : PostRequest(t, p, st)
        \/ PostApply(t) \/ PostConflict(t)
    \/ \E l \in Listers : ListRead(l) \/ ListNumber(l)
    \/ \E c \in Consumers, L \in lists : UpdateFromList(c, L)
    \/ Restart

Spec == Init /\ [][Next]_vars

-----------------------------------------------------------------------------
(* Whatever order lists were read, numbered and delivered in, before or    *)
(* after restarts: a cache's entry for a subject is never replaced by an   *)
(* older one, though a higher list number may come with older entries.     *)
NeverOlder ==
    [][\A c \in Consumers, k \in Name :
        cache'[c].entries[k] # cache[c].entries[k] =>
            cache'[c].entries[k].seq > cache[c].entries[k].seq]_vars

(* Every entry a cache holds is one that the daemon posted for that key.   *)
CacheTruthful ==
    \A c \in Consumers, k \in Name :
        cache[c].entries[k] # NoRow => cache[c].entries[k] \in Under(k)

(* A revocation acknowledged before the request for a list that a consumer *)
(* accepted is known to this consumer from then on, or one under the same  *)
(* key whose number is not lower, refused lists and restarts               *)
(* notwithstanding.                                                        *)
ToldIsKnown ==
    \A c \in Consumers : \A r \in cache[c].told :
        cache[c].entries[Key(r.pair)].seq >= r.seq
=============================================================================
