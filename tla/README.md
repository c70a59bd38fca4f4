# adtp in TLA+

TLA+ models, TLC runs and TLAPS proofs of [adtp](https://github.com/Zahanturel/adtp),
the Agent Delegation and Trust Protocol: a daemon (`adtpd`) that issues
capability credentials to agents, lets agents pass narrowed credentials on, and
decides whether a chain of credentials authorizes an invocation. Paths below
are relative to the repository root, which `PROJECT.json` calls `src/`.

## 1. The system

### Components, state, operations

| Component | Where | State | Operations |
|---|---|---|---|
| Credentials and chains | `internal/credential`, `internal/delegation` | none: a CID is the hash of the bytes, so content never changes | `CreateUCAN`, `CreateRestrictBlock`, `BuildChain` |
| Store | `store/memory`, `store/postgres`, `internal/revocation/cache.go`, `cascade.go` | credentials, registration index (credential, element of its chain), latest revocation entry per subject, agents, audit log | one atomic call each: `PutCredential`, `Get`, `ListCredentials`, `Register`, `Contains`, `FindDescendants`, `Revoke`, `GetStatus`, `CurrentSeq`, ... |
| Issuing and delegating | `api/v1/handlers.go` | requests in flight | `handleIssueCredential`, `handleDelegate` |
| Revoking | `api/v1/handlers.go`, `internal/revocation/cascade.go` | requests in flight | `handleRevoke`, `ExecuteCascade` |
| Reconciling | `internal/revocation/reconciliation.go`, `cmd/adtpd/main.go` | passes in flight | `Reconcile`, at startup, on a ticker, on `POST /v1/reconcile` |
| Verifying | `internal/verify` | requests in flight | `Verify`, thirteen steps |
| Proof of possession | `internal/verify/pop.go` | nonce cache, boot time | `VerifyInvocation`, `CheckAndStore` |
| Revocation lists | `internal/revocation/list.go`, `cache.go`, `api/v1` | list sequence, consumer's cache | `handleGetRevocationList`, `UpdateFromList` |
| Authority model | `internal/revocation/authority.go` | none | `ValidateAuthority`, `ValidateReinstatement` |
| Agents | `internal/lifecycle`, `api/v1` | agent records, agent keys | `handleRegisterAgent`, status transitions |
| Capabilities and constraints | `internal/credential/capability.go`, `uri_covers.go`, `internal/verify/steps.go` | none | `URICovers`, `evaluateConstraint` |
| Audit log | `internal/audit`, `store/postgres/audit.go` | hash-linked entries | `Append`, `Query`, `VerifyChain` |
| SIEM exporter | `internal/siem` | bounded queue, pending batch | `Enqueue`, `Flush`, `post` |
| Sponsor authentication | `api/v1/oidc.go`, `middleware.go` | JWKS cache, API keys, rate-limit buckets | `Verify`, `keys`, `AuthMiddleware`, `RateLimit` |
| Signing and canonical JSON | `internal/signing`, `internal/credential/restrict.go` | none | `Canonicalize`, `Sign`, `Verify`, `ParseRestrictBlock` |
| Identity, HTTP, configuration | `internal/identity`, `api/v1/api.go`, `config`, `pkg/adtp` | keys | pure conversions |

### How they interact

Every HTTP request runs in a goroutine of its own and talks to the others only
through the store. A handler is therefore a sequence of atomic store calls, and
the interesting interleavings are those between two calls of two handlers:

* issuing is `PutCredential` and then `Register`; delegating is `Get` (the
  parent), `PutCredential`, `BuildChain`, `Register`;
* revoking is `CurrentSeq` and then `Revoke` with the next sequence number,
  which the store refuses if the subject has moved on; a COMPROMISED credential
  goes on with `FindDescendants` and a `CurrentSeq`, `Revoke` pair for each;
* verifying is `BuildChain`, one `GetStatus` per subject of the chain in map
  order, the proof of possession, and `Contains` for the leaf;
* reconciling is `ListCredentials` and then, per credential and per element of
  its chain, `Contains` and `Register`.

The process may die between any two calls, the database may refuse any of them,
and a client that goes away cancels the request's context, which makes the
request's next call fail. At startup `runServer` reconciles before it listens.

### What makes it correct

* A chain with a revoked element or audience is not authorized (README, PROTOCOL
  P5), whatever races with the decision.
* A revocation that was acknowledged is in force until it is superseded, and
  nothing that was decided on a stale reading supersedes it.
* A cascade reaches all descendants that it can know of.
* The registration index contains the whole chain of every credential, sooner or
  later: it is what cascades enumerate.
* A chain can always be rebuilt from the store; it respects the depth budget its
  root was given.
* An invocation is accepted once.
* A verifier that lives on revocation lists never forgets a revocation it was told of and never
  takes an older entry for a newer one, in whatever order lists arrive.
* What was signed has one byte form, as far as JSON is concerned: a document re-serialised on its way means the same and is signed
  as the same bytes, or is refused, so that the CID computed from it is the CID revocations name. (Base64 leaves a
  gap in this, section 5.)
* Delegation only narrows: whoever puts whatever on top of a chain, the chain authorizes
  nothing it did not authorize before, and what is accepted goes back, by an unbroken line
  of appointments, to a platform that is trusted.
* What the daemon mints, it accepts.

`PROJECT.json` lists the places where this is at risk under `hazards`, each with
the properties that watch over it.

## 2. The modules

```
Authority        the authority model's tables: who may set which status over which scope
Credentials      constants: content of the CIDs, chains, limits
   TrustStore       (with Authority) stored, index, entries; one operator per store call
      Issuing          issue and delegate requests
      Revoking         revoke requests and cascades
      Reconciling      reconciliation passes
      Verifying        verify requests
         Daemon           all of them interleaved, boot, crash; the properties
            MCDaemon         the credentials of the TLC instances
            DaemonProofs     theorems: types, revocation, chains, that Daemon implements RevocationLedger;
                             index, cascades, limits, startup
RevocationLedger what the daemon promises of revocation, abstractly
SubjectRows      (with Authority) the table of revocation entries, whose subjects may be pairs
   RevocationLists  revoke and list requests, restarts, and the consumers' caches
      MCRevocationLists     instance for TLC
      RevocationListProofs  theorems
CanonicalJSON    the canonical form of a document
   SignedObjects    a signed block re-serialised on its way, parsed and verified
      MCSignedObjects  instance for TLC
      SignedObjectsProofs  theorems
Capabilities     resource URIs, constraints and caveats, their evaluation
   Pipeline         a chain growing hop by hop, and what verification makes of it
      MCPipeline       instance for TLC
      PipelineProofs   theorems
Invocations      proof of possession and the nonce cache over a clock
   MCInvocations    instances for TLC
   InvocationProofs theorems
KeyCache         OIDC tokens and the JWKS cache over a clock
   MCKeyCache       instance for TLC
   KeyCacheProofs   theorems
AuditChain       the hash-linked audit log, concurrent appends, damage and forgery
   MCAuditChain     instance for TLC
   AuditChainProofs  theorems
Exporter         the SIEM exporter behind the handlers' tee
   ExporterProofs   theorems
```

**Credentials** is constant level. `Content` gives each CID its parent, its
audience, its depth-left, the number of its capabilities or caveats and its
weight in the chain's width. `Chain(c)` is defined without recursion, as the
least parent-closed set that contains `c`, which keeps the module open to
proofs. `BuildsChain(c, S, maxDepth)` says that `BuildChain` succeeds over a
store holding `S`. It is evaluated in one step although the code reads element
by element: stored credentials are never removed and never change, so a walk
that finds all its elements finds the same ones at any later moment.
`Issuable` and `Delegable` are the validations of the two minting paths. A child
block inherits its parent's validity window unchanged, so time plays no part.

**TrustStore** holds what is shared. Both back ends make each call atomic, with
a mutex or a transaction. `Store.Revoke` also checks the entry's signature; every
entry the daemon posts is signed with its own key. `Denied` stands for
`GetStatus` followed by `statusError`, which let only "no entry" and REINSTATED
through. `StoreFails` is any store call that returns an error, bounded by
`MaxFaults`; a failed call has no effect. (A commit that succeeds although its
caller sees an error is not modelled.)

**Issuing, Revoking, Reconciling, Verifying** keep one record per request or
pass: a program counter and the local variables that live across a store call.
Requests that fail validation change nothing and are not steps. A request that
reads and then writes is two steps. Each module has a `...Fails` step or a
failing disjunct for each place where the code handles an error. `known`,
`skipped`, `clean`, `refused` and `acked` are history variables for the properties. `refused` keeps the delegations that `storeAndRegister` answered 400 after it
had stored them, each with what `BuildChain` had met: a limit, or an error of the store, which the answer does not tell apart.

**Daemon** composes them. `up` says that the server listens. `BootStep` runs
the startup pass and then listens; `BootFails` is the startup pass that cannot
list the store, which the code logs and ignores. `Crash` loses everything except
the store: the back end is taken to be a durable one (`store.backend: postgres`;
with the memory back end a restart begins with an empty store, which is the
initial state). `blocked` is a history variable: the subjects that have been denied
without interruption since a verify request arrived. One daemon process works on the
database at a time.

**RevocationLedger** is the daemon without handlers, locks and sequence checks: every subject has one line of entries
numbered 1, 2, 3, ...; a request takes effect at a single moment as the next entry of its subject, and is answered, if at
all, with entries that took effect on its behalf. `Daemon` implements it under the refinement mapping
`entries <- entries`, `acked <- acked`, `held <- Held`, where `Held` is the union of the rows that the cascades under way have
posted. `CurrentSeq`, the errors, the conflicts, the crashes and everything the other handlers do are stutters; a successful `Revoke` is
`Post`, a reply and a crash are `End`. `Held` being determined by the state of `Daemon`, no history variable is needed.

**Authority** is `ValidateAuthority` with its two tables. The daemon signs every entry with its own key, whose basis is
`platform_root`; the assumption `PlatformMaySetAll` is what lets `RevokeRequest` and `PostRequest` take every status.
`ValidateReinstatement` has no caller and is not modelled.

**SubjectRows** is the table `revocation_entries` of the postgres back end where `TrustStore` has a function from subjects
to entries. A row names a CID, a DID or both. `Revoke` locks and numbers the exact pair, `CurrentSeq` and `GetStatus` look in either column,
and `RevocationEntries` keys a row by its CID if it has one. While every request names a single subject, which is what
`Daemon` assumes, the three agree and the table is `TrustStore.entries`; this module is about requests that name
a credential and its holder together. The memory back end keys by `RevocationSubject.Key` throughout and does not show these differences.
`RevocationEntries` is a set of sets: where two rows of a key share a number, which one `DISTINCT ON` keeps is the database's choice.

**RevocationLists** has the revoke requests as in `Revoking`, without cascades, and the list handler as it is: read the entries,
then take the next number, each under its own mutex, then sign. A list that has been served stays in `lists` and may reach any consumer
at any later time, or twice, or never. `UpdateFromList` is one step because it holds the cache's mutex throughout; a list it refuses leaves the cache as it was. `Restart` loses the requests and sets
`listSeq` to 0 and leaves the table. `told` is a history field: the rows that were in the table when the list was read.

**CanonicalJSON** is `jcs.go`. A document is a value nested `MaxNesting` deep at most, whose strings are sequences of pieces: a piece is a symbol
that stands for itself, a short escape or `\u` with its digits, and spells one UTF-16 code unit. A character beyond the BMP is two pieces, the halves of
its bytes if it is not escaped, which `utf8Valid` keeps together. Which symbols there are and which unit each spells are constants (`Raw`,
`Short`, `hex4`, `IntegerValue`, `FloatingPoint`); `CodingAssumption` and `NumberAssumption` say what JSON ensures of them: symbols can be told apart, every unit that no mandatory escape
names can be written, and two integers of one value are spelled alike except for the zeros. `validateTextEncoding` is a scan over the symbols of the text as in the
code, since whether `\u` begins an escape depends on what comes before it. Text that is not JSON, which the decoder refuses, is no document here.
`canonicalizeToken` and `Level` are recursive functions rather than recursive operators, so that they can be proved about.

**SignedObjects** puts `RestrictBlock`, its `SignatureInput` and `ParseRestrictBlock` on top, with the fields that decide: an issuer (a
string), a depth (a number) and the signature. `wire` is the document on its way; its steps are what an intermediary that decodes and encodes JSON can do to it:
reorder members, spell a string or a number in another way, repeat a key, add a member, put in another block's signature or spell a signature otherwise. A signature is ideal (what was signed), and the string
that holds it is that together with how base64 spells it: as `EncodeSignature` does, with other bits after the last byte, broken into lines, or padded, of which `DecodeSignature`, not being strict, refuses the last only. `MaxEdits` bounds all but the reorderings.
`Meaning` is the reference, the value that RFC 8259 and I-JSON assign to a document, written without looking at the code. `MCSignedObjects` has the
characters on both sides of every boundary the code draws (control characters, the mandatory escapes, either half of a surrogate pair, U+FFFD, and a
character of the BMP that sorts after one beyond it in UTF-16 but before it by code point).

**Capabilities** has the pure part of `credential` and of step 8. A resource is what
`CanonicalizeURI` returns, an authority and the segments of a path, or `NoURI` when it
returns an error; schemes are left out, and so are parameter schemas and the windows of budgets, which
`evaluateConstraint` never looks into. `Holds` is `evaluateConstraint`; metering is off in the daemon
and a constant here.

**Pipeline** has one chain, `chain[1]` being the leaf as in `Chain.Elements`. `Delegate` is `DelegateRestrict`
(`handleDelegate` makes the same call to `CreateRestrictBlock`); `Receive` puts an element of `Foreign` on top, made by
some other implementation: the verifier resolves whatever bytes the CIDs name. `Builds`, `Structural`, `Linked`, `RootTrusted`,
`Signed`, `InWindow`, `Attenuates`, `Authorizes` and `CrossOrgAllowed` are steps 1, 0, 2, 3, 4, 5, 7, 8 and 9;
`Verify` is their conjunction with the part of step 10 that concerns the chain, that the leaf's audience signed the
invocation. An element pins its parent by content, so that a link is the position in
the sequence and cycles do not arise; a signature is the name of whose key made it; the wall clock is read once
per verification. `Grants` leaves out the size limits of step 1: they depend on the
verifier's configuration and a longer chain meets them less easily, which would make `DelegationNarrows` no stronger.
The revocation and registration checks of the same pipeline are in Verifying, because they read shared state, and its
clock and nonces are in Invocations. `minted` is a history variable.

**Invocations** models step 10. The clock ticks `TicksPerSecond` times a second;
validity is judged in whole seconds, the nonce's expiry on the full clock, as in
the code (`time.Now().Unix()` and `time.Time`). `CheckAndStore` is taken apart into
its clock readings and its operations on the `sync.Map`. `Restart` starts a new instance
with an empty cache and the boot second. `MaxPause` bounds the ticks a request may take
between its validity check and its acceptance; the wall clock does not run backwards.

**KeyCache** models `httpJWKS.keys` step by step: the look at the cache and at `inflight`
under the lock, the fetch without it, the update under it again, and `close(f.done)`, which
hands one result to all who wait. The identity provider's key sets are numbered; a fetch
returns a set published while it ran, or fails. `Check` is the rest of `OIDCVerifier.Verify`:
the choice of the key by kid, or of the sole key for a token without one, and the expiry with
its leeway. Each caller rests at most `MaxPause` ticks between two steps and a fetch lasts at most
`FetchTimeout`, the client's timeout.

**AuditChain** is `postgresAuditLog`: every append is a transaction that takes the advisory lock,
reads the last number and the last hash, and inserts; each is a step of its own. A statement
can fail, which undoes the transaction. SHA-256 is taken to be injective, so a hash is
the tuple of what was hashed. `Damage` removes a row behind the log's back, or writes one, over another or at a free number, with any body, a link and
a hash that occur anywhere, that are of nothing, or, since no key goes into a hash, the very hash of what the row then says; `VerifyChain` is the state predicate
`Verifies`. `past`, a history variable, maps each hash that an append has computed to the entries it stands for: the entry itself and what its link stood for.
An entry that is appended to a forged one stands for nothing. The in-memory log is the same chain with
the whole append under one mutex. `entry_id` is not hashed and not modelled.

**Exporter** is `siem.Exporter` with the tee of `handlers.go` in front. `Enqueue` and the
signal that follows it outside of the mutex are two steps; the loop's `select` takes any case that
is ready. A failed post may or may not have reached the sink. An entry is enqueued
even when the primary log refused it, as in the code, and enqueued copies carry neither number nor
hash. Entries of the reconciliations that `runServer` itself starts (`main.go:83`, `main.go:100`)
go to `st.Audit()` and never pass the tee, although the comment on `AuditExporter` speaks of each audit entry. On
shutdown `main` does not wait for the last flush; the model lets it happen or not.

Operators whose name begins with `Mutant` are deliberately wrong variants of the
definition that follows them. No specification uses them; each documents an error
a property would catch, and `PROJECT.json` says which.

## 3. The runs

TLC 2, two workers; every run ends within five minutes.

| Run | Instance | What is asked |
|---|---|---|
| `issue` | a root, two levels of delegation of which the second is too deep for the configured limit, and a block that keeps its parent's depth; one issue or delegate request, one verification at HIGH, startup and one periodic pass, one store error, one crash, with fairness | types; chains resolvable; startup repairs the index; an intact index is never "repaired"; the depth budget; what was refused for a limit is never authorized; the index catches up |
| `revoke` | a root and a block registered beforehand and a second block; two concurrent revoke requests (COMPROMISED, REINSTATED, CASCADE through cascades), a delegation and the startup pass | acknowledged entries stay in force; complete cascades; the daemon implements `RevocationLedger` |
| `verify` | a root and a block, one verification at HIGH or MEDIUM against one revoke request, one delegation, one store error | the revocation guarantee |
| `pop` | two requests, an invocation that lives its full lifetime and one that expires while it is fresh, a restart, two ticks a second | spent once; the restart defence |
| `keys` | two callers, a token with a kid and one without, one key rotation, a provider that fails at will, with fairness | single flight; no step back to older keys; withdrawn keys expire; one timeout for each; every call answered |
| `audit_append` | two writers, three entries, a failing statement, two rows removed or forged | appends extend the log; an undamaged log verifies; in a log that verifies a hash made by an append vouches for all it was computed over |
| `siem` | two requests, buffer of three, batches of two, four entries, two outages, with fairness | only the oldest are dropped; oldest first; acknowledged entries never sent again; full batches signalled; everything exported in the end |
| `delegate` | six roots (of the platform, of a partner with a policy, of a stranger; wrongly signed; malformed; without a delegation depth), 82 foreign elements with each fault the steps look for, six caveat lists, 52 requests, chains of up to two hops | delegation narrows; chain of custody; depth-left bounds the hops; minted blocks verify; accepted requests lie within the root's grant |
| `lists` | a principal named alone and together with one of its credentials; two revoke requests (REVOKED, REINSTATED), two list requests, one consumer, two lists, a restart | a cache holds only posted entries, never steps back, and knows what its lists told |
| `canonical` | two signed blocks whose issuers hold what decoders confuse; two changes by intermediaries, with any number of reorderings | canonicalization keeps the meaning and forgets the spelling; a block that parses and verifies is byte for byte one that was signed, but for the spelling of its signature |
| `enumerable`, `brief` | a small instance that shows each | statements of the documents the code does not keep, section 5 |

**Bounds.** Chains of up to three elements have a root, an inner and a last element,
which is every position the code tells apart; `HardMaxDepth` (100 in the code) is 2,
`MaxChainDepth` 1 where the difference between the two limits matters. The width limit
(`MaxChainCapsCaveats`, 1000 in the code) is met from both sides in `delegate`, where it is 9. `MaxHops` (2) ends the chains of `delegate`,
which is why it skips the deadlock check: three elements have a hop above a hop, and every step of the pipeline
compares at most two neighbours or an element with the root. Two
requests of a kind (in `revoke` and `pop`) suffice for the races of section 1, each of which has one reader and one
writer. `MaxSeq` bounds the sequence number from which a request may start; at 1, each subject sees two
generations of entries, one of which a request may have read before the other landed. (With 2, `revoke` has more than nine million states and does not end
within the time a run may take; `AcknowledgedStaysInForce`, `NothingStaleOverwrites` and `DaemonImplementsLedger` are proved for every `MaxSeq`.)
In `lists`, `MaxSeq` is 2, two lists are the fewest that can arrive in the wrong order, and a restart between them is the case of two lists with the same number.
In `canonical`, two changes are what it takes to break one rule where another one hides it (a repeated key spelled with an escape, say); strings have at most three pieces,
a surrogate pair and something beside it; and an array in an object holds an object (`MaxNesting` 3), which has each kind of value inside each. One fault and one crash can fall into
any gap; the second crash of the same kind meets the same code. In `pop`, freshness, skew and lifetime (60, 60, 300
seconds) are 1, 1 and 3, which keeps their order and makes the lifetime
exceed freshness plus skew, and `MaxClock` lies beyond the expiry of every
invocation. In `keys` the cache lifetime of two ticks exceeds the fetch timeout of one, and the clock
runs for more than a lifetime, a timeout and a pause, the span `WithdrawnKeysExpire` speaks of. In `siem` the
buffer holds one and a half batches, so that a failed batch meets a buffer it does not fit into; five
or more entries only repeat that. `audit_append` lets the log grow to three entries, a first, an inner and a last one,
with two damages, so that an entry can be forged and the one after it linked to the forgery, or an entry be appended to a forged one that is then undone; writers and
bodies are symmetric.
`MaxClock`, `MaxEntries`, `MaxSeq`, `MaxLists` and `MaxEdits` end the runs of `Invocations`, `KeyCache`, `Exporter`, `AuditChain`, `RevocationLists`
and `SignedObjects`, which therefore skip the deadlock check; those of `Daemon` have it.

**Fairness** (`FairSpec`). In `issue`: a request that has begun goes on to
its reply: goroutines are scheduled and store calls return. The startup pass goes on,
and then the daemon serves. Each pass other than the startup one is started again and
again, which is the ticker of `runServer`
with `reconcile_interval_minutes > 0`; without it the property is not claimed. `EventuallyIndexed` says that
again and again everything walkable is registered, not that it stays so: a client may always
store one more credential. Nothing
is assumed of clients, crashes or store errors. In `keys`: a call that has begun goes on, and a fetch ends,
because the client has a timeout; nothing is assumed of the provider. In `siem`: the
ticker fires, a flush goes on (the client's timeout again) and a request that has appended
enqueues; that the sink stays up is a premise of the property, not of the specification.

## 4. The proofs

TLAPS proves, for any set of credentials, any content that satisfies
`ContentAssumption` (acyclic parent links), any limits, any number of requests
and passes and any number of crashes and errors:

* `TypeCorrect`: `Spec => []TypeOK`;
* `RevocationGuarantee`: `Spec => []RevokedNeverAuthorized`. The strengthening says of a
  verification under way that a subject of its chain that is still `blocked` is either still to
  be looked up or was skipped, and that at HIGH nothing is skipped. A lookup that finds a
  subject active takes it out of `blocked`, because it is not denied at that moment; that is
  why the order of the lookups does not matter.
* `AcknowledgedStaysInForce`: `Spec => []AckedInForce`. The strengthening adds the rows a cascade
  has posted but not yet acknowledged. Each is in force because a later `Revoke` of the same
  subject must exceed it.
* `NothingStaleOverwrites`: `Spec => NoStaleOverwrite`. The strengthening says that
  the row a request is about to post never lies more than one above the current sequence
  number: it was one above when it was read, and sequence numbers only grow.
* `ChainsAlwaysResolvable`: `Spec => []ChainsResolvable`. Needs a lemma about `Chain`:
  the chain of a block is the block and the chain of its parent.
* `DaemonImplementsLedger`: `Spec => ImplementsLedger`. The daemon's initial states are the ledger's, and each of
  its steps is a step of the ledger or a stutter. What makes a `Revoke` the *next* entry is the invariant of `NothingStaleOverwrites`:
  the store lets it pass when it is higher, and it is never more than one higher.

* `CascadesAreComplete`: `Spec => []CascadeComplete`. `CascadeInv` follows the descendants that
  were registered when the request arrived from the index to the list of what is left, the row about to be posted and the rows posted.
* `OverLimitStaysUnauthorized`: `Spec => []OverLimitNeverAuthorized`. `LimitInv`: whatever was refused for a limit exceeds the configured limits, and whatever
  is being verified is within them.
* `CleanPassesRepairNothing`: `Spec => []ReconcileIdempotent`. `CleanInv` bounds a pass's repairs by the failed queries, because what it has listed is
  wholly indexed and the element it looks at lies on a chain it has listed.
* `BudgetKept`: `Spec => []DepthBudget`. That every stored block has less depth than its parent is inductive; that an ancestor's depth
  covers the distance to any descendant follows by the shortest chain for which it does not (`BudgetOfNarrowing`), which is where `CID` has to be finite.
* `StartupRepairs`: `Spec => []BootRepairs`. `BootInv` says of the startup pass which stored credentials it has yet to finish, and how far it has come in the chain it is walking.

and of `Invocations`, for any invocations, clock resolution, windows, number of requests and restarts:

* `InvocationsTypeCorrect`;
* `NonceSpentOnce`: `Spec => []SpentOnce`. The invariant `PopInv` relates the
  cache to the requests under way: a nonce accepted by the running instance is in the cache
  with an expiry at or beyond its invocation's exp, whoever stored it, and a request in flight saw its
  invocation fresh at most `MaxPause` ticks ago. An invocation that outlives
  freshness plus pause can then never be found expired.
* `RestartsDefended`: `Spec => []RestartDefence`. Boot times never decrease and an
  accepted `iat` is at most `ClockSkew` ahead of the acceptance.

and of `KeyCache`, for any callers, tokens, key sets, timeouts and clocks:

* `KeyCacheTypeCorrect`;
* `FetchesNeverOverlap`: `Spec => []SingleFetch`. Whoever fetches or is about to store is `inflight`.
* `KeysNeverStepBack`: `Spec => []NoStepBack`. The invariant `VersionInv` bounds every version in
  sight: what anybody was given is at most what is cached or about to be handed out by a
  fetch that has stored; a fetch in progress returns no less than what was published when it began,
  which is no less than what was cached then; and a waiter's floor is at most what its leader will bring.
* `OneTimeoutForEach`: `Spec => []OneTimeoutEach`. `TimedInv` dates every step of a fetch from the
  leader's entry, and a waiter entered after its leader.
* `WithdrawnKeysDie`: `Spec => []WithdrawnKeysExpire`. `AgeInv` dates the key sets: what a fetch returns had not been withdrawn when the
  fetch began; what is cached was fetched by a call that began at most a fetch and a pause before `fetchedAt`; and what a call is given had not been withdrawn
  at its `Horizon`, a cache lifetime, a fetch and a pause before the call began. The assumption that the lifetime is not 0 (`oidc.go` has five minutes) makes
  a waiter's answer at least as fresh as that.

and of `Pipeline`, for any roots and foreign elements, policies, limits, caveats, requests and chains of any length:

* `Typing`: `Spec => []TypeOK`.
* `DelegationsNarrow`: `Spec => DelegationNarrows`. Each step of the pipeline, if it passes for a chain with one
  more element, passes without it (`SoundBelow`, `GrantsBelow`); step 8 always reads the root's att, because a
  sound chain has no other token (`RootDecides`).
* `Custody`: `Spec => []ChainOfCustody`, from linkage, signatures and root trust.
* `DepthsBound`: `Spec => []HopsWithinDepth`. Step 2 compares neighbours only. The strengthening `DepthsFall` says of
  every chain that has been put together, sound or not, that if it is linked then the depth of an element exceeds
  that of any element above it by at least their distance.
* `MintedSoundness`: `Spec => []MintedVerifies`, one conjunct of `Sound` at a time.
* `GrantBinds`: `Spec => []WithinRootGrant`. `CoversExpands` shows that for concrete resources `URICovers`, which
  compares segment by segment, is contained in the declarative `Expands`.

and of `RevocationLists`, for any names, pairs, requests, consumers, numbers, lists and restarts:

* `TypeCorrect`;
* `CachesAreTruthful`: `Spec => []CacheTruthful`;
* `AcceptedListsTell`: `Spec => []ToldIsKnown`. The invariant `Snapshots` says of every list under way or served that its
  entries hold, of every key that had a row when it was read, one whose number is the highest the key had then. That a set of rows has a highest
  number is `GreatestExists`, from the well-foundedness of the naturals; that the numbers are bounded is part of `Numbered`.
* `CachesNeverStepBack`: `Spec => NeverOlder`.

and of `AuditChain`, for any writers, entries, lengths, failures and damages:

* `AuditTypeCorrect`. With `LockInv`: who has read is alone, and the number it read is beyond all in the table.
* `AppendsAlwaysExtend`, `UndamagedLogsVerify`: `Spec => []AppendsExtend` and `Spec => []UndamagedVerifies`, both from `UndamagedInv`.
* `VerifiedLogsAreHistory`: `Spec => []VerifiedIsHistory`. `PastInv` says what the hash of an append stands for: it was computed over its own number and a link that itself
  stands for what was said before, which lies below that number. In a log that verifies, whatever was forged in it, the least entry with such a hash whose past is not what
  the hash stands for would follow another one (`VerifiedEntry`).

and of `Exporter`, for any number of requests, entries and outages and any sizes of batch and buffer:

* `ExporterTypeCorrect`;
* `OnlyOldestAreDropped`: `Spec => []OnlyOldestDropped`; `OldestGoFirst`: `Spec => []OldestFirst`; `AcknowledgedNeverAgain`: `Spec => []AckedNeverAgain`. The properties
  speak of what the sink has received; `WindowInv` says where the code is between taking a batch and putting it back: the buffer is the end of what was enqueued,
  the batch a piece that ends where the buffer begins, or earlier if the buffer has overflowed while the post was under way. What lies before the piece is behind the sink, and `Once`, that no entry is enqueued
  twice, keeps it there.
* `FullBatchesSignalled`: `Spec => []FullBatchSignalled`, from `SignalInv`: between `Enqueue`'s unlock and its signal a handler stands for the signal.

and of `SignedObjects`, for any alphabet, strings of any length, documents nested to any bound, any blocks signed and any number of changes:

* `CarriedAlways`: `Spec => []Carried(wire)`. A document under way is an object of at most the bounded nesting, and each signature in it is one an issuer made.
* `MeaningIsKept`: `Spec => []MeaningKept`. `CanonicalKeeps` says of every document, by induction on its nesting, that it is rejected exactly if
  it means nothing, and that otherwise its canonical form is a document that means the same. For strings this is `EncodingValid`, that the scan over the text accepts exactly the strings none of whose surrogates is
  alone (along `ScanAt`, which follows the scan from piece to piece), together with `WrittenString`, that what is written spells what was decoded. For objects it is `NthTypes`, that ranks by `compareUTF16` number the
  keys, which rests on `Irreflexive`, `Transitive` and `Total`.
* `SpellingIsForgotten`: `Spec => SpellingForgotten`. `CanonicalForgets` is the converse, again by induction: what means the same has the same canonical form. The two
  are why a CID can be computed from any serialization of a document.
* `OneFormHolds`: `Spec => []OneForm`. Of a block that verifies, the signed part means what the signed part of some minted block means (`CanonicalKeeps`), so each of its fields does (`SameParts`), so
  the whole block does, when the signature of the minted block is spelled as the received one (`PartsSame`); by `CanonicalForgets` the two are serialized alike, and SD-6 compared exactly that with the bytes received.

Of these, the induction is over the bound on nesting and over positions in a text, by a lemma about sets of numbers (`Induction`); that the recursive functions
`Level`, `canonicalizeToken`, `Meaning`, the flattening of a text and the scan exist and obey their definitions is proved there as well (`LevelDef`, `CanonicalDef`, `MeaningDef`, `FlattenSeqIs`, `ScannedIs`).

Assumptions: `CodingAssumption`, `NumberAssumption`, `BlockAssumption` (the blocks signed have issuers that are text and depths that are integers, and what other software adds are members of
bounded nesting that hold no signature), `CIDAssumption` (a CID is a digest of fixed length, so there are finitely many), `AuditAssumption`, `PlatformMaySetAll`, `PairsAssumption`, `ListsAssumption`, `CapabilityAssumption`, `ElementAssumption`, `InvocationAssumption`, `PolicyAssumption`, which say what parsing has ensured
(in `ElementAssumption`, that a root's `delegation_depth` is not negative is step 0's `Validate`), `KeyCacheAssumption`, `ExporterAssumption`, `ContentAssumption`, `LimitAssumption`, `SeededAssumption`,
`DaemonAssumption`, `InvocationAssumption`, all checked by TLC in every run.

Every safety property of the runs is proved. Model-checked only: `EventuallyIndexed`, `EveryCallAnswered` and `EventuallyExported`, since TLAPS does not
reason about liveness under fairness or `ENABLED`. No module declares a recursive operator.

## 5. Where the documents and the code differ

Each is a run that TLC refutes; `PROJECT.json` quotes the lines.

* `enumerable`: PROTOCOL 13.6 concludes that every chain authorized at HIGH can be
  enumerated; step 11 asks for the leaf's own row, and `Reconcile` writes that one first.
* `brief`: an invocation that expires while it is fresh can be accepted twice by one instance.

Noted without a run of their own, because the difference is plain from the two texts: PROTOCOL 13.3 makes COMPROMISED and
DECOMMISSIONED terminal, while `handleRevoke` accepts REINSTATED after them (`ValidateReinstatement` has no caller);
PROTOCOL 7.8 and `capability.go` make att a disjunction, of which any member may authorize, while step 8 decides by the first
capability that matches and does not look at a later one; PROTOCOL lets readers skip unknown members, while `ParseRestrictBlock` refuses
them, as its re-serialisation (SD-6) lacks them, which is what `OneForm` rests on; PROTOCOL 13.2 and `schema.sql:69-72` number entries per subject, of which the highest wins, while the
postgres back end numbers each pair of CID and DID for itself: two pairs that share a name tie, or the later entry gets the lower number (a credential and its agent REVOKED as 1, after the agent alone
was REINSTATED as 2, is never in force for the agent), and whoever goes by lists finds an entry of a pair under its CID only, so that no property of the runs claims anything across pairs; and a list sequence that starts at 0 again
after a restart is below what consumers have accepted, so they refuse lists until it has caught up (safe by `ToldIsKnown`, and late). Also: PROTOCOL 13.7 has reconciliation re-run cascades, which
`Reconcile` leaves to callers that do not (verification is not affected, step 6 denies
through the ancestor); an invocation accepted in the second of a restart, or dated ahead, can be
accepted by the next instance as well (`RestartDefence` gives the exact window); the
exporter's missing entries, section 2; `audit.go:4-5`, `:89-91` and `:163` say that any truncation or modification of the log is detectable, by
someone with access to the storage too, but its hash has no key: a log that lost its last entries verifies, and so does one in which an entry was rewritten and its hash and those of all
later entries computed anew (`VerifiedIsHistory` is what does hold, of entries that keep their hash);
`restrict.go:172-174` says that without SD-6 one credential admits unboundedly many CIDs, which SD-6 does not rule out altogether: `DecodeSignature` (`sign.go:120`) takes line breaks and any bits after the last
byte, such a string is canonical JSON, and each spelling of the signature that verifies gives the block a CID of its own (`OneForm` says that there are no others);
`storeAndRegister` answers "delegation chain invalid" also when the store failed while the chain was read, and such a block, which stays in the store, may be registered by `Reconcile` and
authorized (`OverLimitNeverAuthorized` speaks of the blocks for which the answer is true); PROTOCOL 8.1 says that an agent
without `agent/delegate` may not delegate, which the minting path enforces, while step 2 bounds a child's depth-left only
under a parent that states one; and PROTOCOL 7.9 has duplicate entries count once, where the
limits are compared with `len`.

## 6. Plan

Done: the store, the handlers, the daemon and the nonce cache; capabilities and the pipeline; the JWKS cache, the exporter's queue, the
audit log's hash chain; revocation lists over the table of pairs; the abstract ledger and the refinement to it; the authority tables; canonical JSON and the
signed block; a theorem for every safety property of the runs.

Left: a refinement for verification (the verdict on each subject of the chain is its verdict at some moment of the request), which
`RevokedNeverAuthorized` states from the side of the subjects.

## 7. Not modelled

Base58 and DID encodings, key generation and storage, HTTP decoding and routing, configuration parsing, TLS and graceful shutdown:
conversions and I/O without shared state of their own. What the model takes from them is that a CID determines its content (`SignedObjects`
shows the part of it that lies in the bytes) and that only the daemon can sign the entries its store accepts.

Agent registration and the status transitions of `internal/lifecycle` are single store calls, guarded by a table; what could be said of
them would restate the table. Verification does not read agent records.

The memory back end has no model of its own: for single subjects its operations are those of `TrustStore`, and it forgets everything on a restart.
Several daemons on one database are not modelled.

API keys are compared with a fixed set, and the rate limiter is one call to `golang.org/x/time/rate`, whose buckets are that library's. The agent key
store is encryption at rest.
