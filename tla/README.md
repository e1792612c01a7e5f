# spt-txn-pep in TLA+

A TLA+ development of the enforcement point in this repository: the decision
gate, its HTTP and MCP transports, and the transparency log they write. TLC
checks small instances of every module; TLAPS proves the main safety theorems
for every instance.

## 1. The system

An enforcement point sits in front of a paid resource. A caller presents a
token (a single-use nonce and an expiry) and a payment; `gate.Evaluate` decides
ALLOW or DENY; the transport records evidence of the decision and answers.

| part | state | operations | correct means |
|---|---|---|---|
| `gate/gate.go` | none of its own | `Evaluate`: bind, check freshness, ask the policy, spend the nonce last | one nonce allows one caller; a denial before the spend burns nothing |
| `gate/binding.go` | none | `ComputeBinding`, `amount16LE` | equal bindings are equal payments; what fits is bound, what does not is refused |
| `gate/base58.go` | none | decode, encode, 32-byte check | the two directions are inverse, one text per address |
| `gate/mem_spendlog.go` | `seen` under a mutex | `Spend` | check and record are one step; exactly one winner |
| `gateway/pep.go`, `evidence/evidence.go` | nothing but what it writes | `Wrap`'s handler, `Emit`, `receiptFor`, `mapDecision` | served only with receipt and chain entry; a denial is answered whatever fails; the chain agrees with the answers |
| `mcpgate/mcpgate.go` | none | `Authorize`, `ExactPayment.Verify` | an allowed call is inside the approved capability, and is logged |
| `translog/record.go`, `log.go` | `entries` under a mutex | `Append`, `At`, `Len`, `Root`, `Proof`, `Verify` | the chain is contiguous, linked and signed; nothing is lost or renumbered |
| `translog/merkle.go` | none | `MerkleRoot`, `InclusionProof`, `VerifyInclusion` | RFC 6962 tree; proofs are complete and sound |
| `translog/store.go` | the log file, a temporary file | `Encode`, `Save`, `ReadLog` | the file always loads and is a past state of the log; no copy altered without the log's key shows a decision the log did not take |
| `gateway/transparency.go` | none | the root and the entry endpoint | answers are about the log as it was while they were computed |

Interactions. Every HTTP request and every tool call is a goroutine. They share
one `SpendLog`, one `Log`, and (HTTP) one evidence emitter. Only the mutexes of
`MemSpendLog` and `Log` order them. The policy, the spend log, the emitter and
the file system are outside the code and may fail. The endpoints read the log,
and `Save` writes it to a file, while decisions keep arriving.

What is hard to test here: requests that pass every check before either of them
spends; evidence that fails after the nonce is gone; appends between the reads
of one response; overlapping `Save`s; a crash between any two steps; radix
conversions, amounts and tree sizes at their boundaries. `PROJECT.json` lists
these as hazards, each at its line and with the properties that cover it.

## 2. The modules

| module | models | state |
|---|---|---|
| `Crypto` | SHA-256 and Ed25519, idealised (external) | |
| `Base58` | `base58.go` | |
| `Gate` | `binding.go`, the vocabulary and the freshness test of `gate.go` | |
| `ExactPayment` | the agent's policy of `mcpgate.go` | |
| `TransLog` | `record.go`, `log.go` as operators on the sequence of entries | |
| `Merkle` | `merkle.go`; its recursions on sub-slices are functions of their length and offset | |
| `MemSpendLog` | `Spend`, one map access per step | `mu`, `seen`, `pc`, `err` |
| `AtomicLog` | abstract: every method of the log is instantaneous | `log`, `answer` |
| `LossyLog` | abstract: a log that is extended, or restarted from an earlier state | `log` |
| `LogMutex` | the same calls, one memory access per step | plus `mu`, `pc`, `rec`, `slice`, `root`, `size` |
| `EnforcementCore` | `Evaluate` and `Append` by concurrent callers | `clock`, `pc`, `req`, `dec`, `spent`, `stamp`, `entries`, `tag` |
| `PEP` | `Wrap`'s handler on top of it | plus `receipts`, `status` |
| `AuthzSpec` | abstract: what an enforcement point promises | `grants`, `evidence`, `outcome` |
| `PEPAuthz` | the refinement mapping from `PEP` to `AuthzSpec` | |
| `MCPGate` | `Authorize` on top of `EnforcementCore` | plus `result` |
| `Deployment` | `PEP` and `MCPGate` in one process, durable or buffering stores, crash and restart | plus `config`, `synced`, `crashes` and history |
| `Transparency` | the two endpoints against a growing log | `entries` and each handler's locals |
| `Store` | `Save`, `ReadLog`, the file system, crashes, anchoring | `entries`, `file`, `undoable`, `temp`, `anchored`, ... |
| `Lemmas` | lemmas that several proofs use: sequences, the log, the Merkle tree, radix conversion, the layout of the binding | |
| `AlgorithmProofs` | theorems about the pure functions, for any leaves, strings and payments (the specifications of `MCMerkle` and `MCEncoding`) | |
| `*Proofs` | otherwise: theorems about the module they are named after | |
| `MC*` | instances for TLC | |

### Where a step ends

A step ends where another goroutine, the clock or an external service can
intervene. `Evaluate` is therefore three steps: `Check` (binding and freshness,
with the clock value read at the call), `Policy`, and `Spend`. The handler adds
`EmitOK`/`EmitFails`, `Stamp` (the time is an argument of `Append`, read before
the log is locked), `Chain`/`ChainFails`, and the answer. `EnforcementCore`
takes a whole `Spend` and a whole `Append` as one step because they are one
critical section each; `MemSpendLog` and `LogMutex` take these sections apart
and show that this is justified. In the same way `Transparency` takes each
reading method of the log as one step, and `LogMutex` has them access by access.

### Crashes

`Store` has the file system: data that was not synced may be torn, a rename that
was not committed may be undone, two `Save`s may overlap. It implements
`LossyLog`: whatever happens, the log in memory is extended by one chained entry
or goes back to an earlier state. `Deployment` relies on exactly that: a restart
continues from any prefix of the entries (each of them is what a `Save` at the
right time leaves behind), and the composition of both transports implements
`LossyLog` again. Whether the emitter is `Durable()` and whether the spend log
survives (`MemSpendLog` does not) is chosen at the start, in `config`; a buffering
emitter has a `Flush` step, and a crash takes back what was not flushed.

History variables, which no step reads: `life[c]` is the number of crashes before
caller `c` arrived, `ended[c]` the callers that were gone by then, `owner[i]` the
caller that appended entry `i`; in `Store`, `began` and `alone` describe a `Save`,
`settled` the moment of anchoring.

`pc[c]` is the place in the handler, `dec[c]` the `gate.Decision`, `tag[c]` the
locator (`seq`, hash) that goes into the `X-SPT-Txn-Log-Entry` header. `status[r]`
is the HTTP answer; `next.ServeHTTP` counts as 200. Requests may go through
several PEPs and tool calls through several enforcers (`PepKey[r]`,
`EnforcerKey[t]`), which share the stores.

### Data

* A digest is the term built from its preimage and a signature the pair of
  signer and message: no collisions and no forgeries. Everything below is
  relative to that.
* A base58 string is the sequence of its digit values; the conversion itself
  is modelled, with the leading-zero run. Key length, amount width and the
  width of a `uint64` are constants.
* An amount is its sign and the number its digits denote (or `NotDecimal`),
  which is what separates `big.Int.SetString` from `strconv.ParseUint`.
* A token header is: whether it decodes, the length of its nonce, the nonce,
  and the expiry in seconds. An absent `expiry` field decodes to Unix time 0,
  which is not Go's zero time: such a token has expired. `ZeroTime` is "no
  expiry", which an MCP caller or a header can carry.
* The clock counts whole seconds. Error texts are reduced to their prefix. Hex
  and JSON stand for what they encode.

## 3. What TLC checks

All runs take two workers and less than four minutes.

| run | instance | shows |
|---|---|---|
| `pep_decisions` | two requests; two nonces; fresh, expiring and malformed tokens; three payments, of an accepted and of an unknown scheme; every outcome of policy, spend log and emitter; clock 0..1 | `TypeOK`, `SingleUse`, `BurnedOnlyBySpend`, `ReplayIsReal`, `ChainSound`, `ServedHasEvidence`, `EvidenceTiedToPayment`, `AuditMatchesAnswer` |
| `pep_authz` | three requests contest one token, one through a mis-keyed PEP; failing spend log and emitter; weak fairness | `ImplementsAuthz` (the handler implements `AuthzSpec`, fairness included), `Answered`, `DenialSurvivesEvidenceOutage` |
| `deployment` | one request and two tool calls, one through a mis-keyed enforcer; an amount at the limit and one beyond a `uint`; an expiring token; durable stores, or a buffering emitter and `MemSpendLog`; one crash at any step | `ServedOnce`, `PermitMeansSpent`, `AllowedIsApproved`, `EntryIsDecision`, `ServedKeepsReceipt`, `ChainRespectsRealTime`, `ExpiryIsFinal`, `ImplementsLossyLog` |
| `log_mutex` | three appenders, one mis-keyed, an encoder, and a reader for each of `Len`, `At`, `Root`, `Proof`, `Verify` | `ReturnedIsLogged`, `ImplementsAtomicLog` (with termination) |
| `mem_spend_log` | three goroutines on one nonce, a fourth on another | `OneWinner`, `EveryNonceWon` |
| `merkle` | all logs of up to eight leaves over two leaves, one of which looks like an inner node | `RootMatchesReference` (against a tree built leaf by leaf as a binary counter, before and after every carry), `ProofsVerify`, `ProofsSound`, `RootIdentifiesLog` |
| `transparency` | both endpoints, a log that grows to five entries, indices from -1 to 5 | `NeverInternalError`, `RootIsOfServedPeriod`, `QuietReadIsExact` |
| `store` | two savers, three `Save` calls, three entries, two crashes, anchoring at any time | `SnapshotLoads`, `FileIsPastLog`, `SettledAnchorHolds`, `SavedCoversCall`, `AlterationIsRollback` (in every state, over every altered version of the file: entries left out at either end, swapped, edited, signed by another key; root and count old or made to fit; either key; another layout), `ImplementsLossyLog` |
| `encoding` | strings of up to three symbols; all pairs of payments over known and unknown schemes and networks, boundary amounts and addresses of the right and the wrong length | `OneTextPerAddress`, `BindingIdentifiesPayment`, `BindsWhateverFits`, `PolicyAgreesWithBinding` |
| `deployment_unlogged` | as `deployment`, no crash | a violation of `ResultIsLogged` |
| `deployment_lost_entry` | one request, one crash | a violation of `ServedKeepsEntry` |
| `transparency_entry` | the entry endpoint, three entries | a violation of `EntryProofVerifies` |

### What the three violations say

* `deployment_unlogged`. `Authorize` "emits a signed log entry on every path"
  (`mcpgate.go:64`), but discards `Append`'s error: with a signing key that is
  not the log's, a call is allowed, and its result names an entry that does not
  exist. `ImplementsLossyLog` shows that the chain itself is not damaged.
* `deployment_lost_entry`. "ALLOW is served only if BOTH evidence artifacts are
  durable" (`pep.go:169`): the receipt is, the entry is in memory until somebody
  calls `Save`. A crash in between loses the entry of a served request.
  `ServedOnce` and `PermitMeansSpent` show that it does not revive the nonce.
* `transparency_entry`. "Every receipt's inclusion proof verifies against that
  same root" (`transparency_test.go:42`): entry, proof, root and size are read
  under separate lock holds, so an append in between yields `verified: false`
  for an entry that is in the log. The root endpoint pairs root and size the
  same way. `RootIsOfServedPeriod` and `QuietReadIsExact` say what still holds.

Four more differences were met and have no run of their own.

* "A file that has been truncated, reordered, or edited fails to load at all"
  (`store.go:14-15`), and the comparison of the root "is what catches a file whose
  receipts are individually valid but as a set have been truncated or reordered"
  (`store.go:234-236`). The code compares root and count with the entries of the
  same file, and the signatures with the key that the file names. Nothing but the
  single records is signed, and `LoadLog` is told neither a key nor a length. So
  three kinds of altered file load: one that is cut off at its end and has the
  root and count of what is left (every older copy is such a file, and it takes no
  key to make one); a log that another key has signed, under that key; and an
  empty log under any key, which "forged by no one" (`store.go:17-18`) does not
  cover. The tests (`store_test.go:143-232`) alter a log of three and leave the old
  root or the old signatures in place, and such files are indeed refused.
  `AlterationIsRollback` has all of these among its alterations and says exactly
  what holds: under the log's key, those and only those files load that hold the
  log up to some entry; under another key, only files without any entry of this
  log. It shows the comment to be wrong: as a claim over the same alterations,
  "fails to load" has a counterexample as soon as one entry has been saved. The
  property is relative to the file at the path: a copy from before a crash may hold
  entries that the log has lost since (see the anchored root below).
* The comment at `gate.go:78-79` says that evidence "is always tied to the exact
  payment considered"; a payment that cannot be bound gets the zero binding
  (`gate.go:102`), so all of these share one. `EvidenceTiedToPayment` says what
  holds: evidence of anything that was allowed, or that binds, is never shared.
* A root may be anchored that the log then loses. `Save` does not sync the
  directory, so a crash can undo its rename after the anchoring process has read
  the file; and of two overlapping `Save`s the older snapshot may land last. The
  log restarts from before the anchored state and gives its sequence numbers to
  other decisions, all correctly signed. `SettledAnchorHolds` holds when no `Save`
  was under way and the rename had reached the disk; dropping `settled` from it
  gives a counterexample of ten states.
* Neither `Append` nor `Save` bounds the log, while `ReadLog` refuses more than
  100000 entries; `store.go:38` declares such a log out of scope, and `store`
  therefore goes up to a log exactly at the cap.

### What the conditions in the properties are for

* `ServedOnce` and `PermitMeansSpent` hold without exception for a spend log that
  survives; for `MemSpendLog` they hold for the life of one process.
* `ChainRespectsRealTime` orders callers of which one was gone before the other
  arrived. For callers that overlap, the later entry may carry the earlier time,
  because the time is read before the log is locked.
* `ExpiryIsFinal` is about callers that arrive after somebody was refused. A
  caller that passed its check earlier may be allowed after the expiry, because
  the clock is not read again after the policy call.
* `ServedKeepsReceipt` needs `Durable()`; with a buffering emitter a served
  request can lose its receipt, as the warning in `NewPEP` says.

### Bounds, and why they are enough

* Callers. Single use, replay and the chain are about pairs of callers; two
  requests with all inputs, and three in the refinement (a winner and two
  losers), give every pairwise interleaving. The theorems remove this bound.
* `MaxClock = 1`: a token with expiry 0 is fresh at 0 and expired at 1, so it
  expires before, between and after the steps of its request.
* `KeyLen = 1`, `AmountWidth = 2`, `UintWidth = 1`: an address is one or two
  base58 digits, over-long ones included, an amount can be bindable and too
  large for a `uint`, and 65535 and 65536 play the largest amount and one
  beyond. No definition depends on the widths otherwise.
* `MaxLen = 3` with the symbols 0, 1, 4, 24, 57, 255: zero runs of every
  length, carries in both directions (256 = 4 * 58 + 24).
* `MaxLeaves = 8`: every split up to three levels, powers of two and both
  neighbours.
* `MaxLogEntries = 3` for 100000, `MaxEntries = 3`: the cap is met exactly.
* `MaxSaves = 3`, two savers: two overlapping calls and one after or before.
* `MaxCrashes`: two in `Store` (a crash, the recovered log is extended, a
  crash); one in `Deployment`, where what survives is the same after each.
* Two of the four configurations of `Deployment`: everything durable, and a
  buffering emitter with `MemSpendLog`. A buffering emitter may flush at once, so
  the second covers a durable emitter with `MemSpendLog`; the properties that
  need one durable store do not mention the other.
* Runs end when all requests are answered or all bounds are reached, so they do
  not check for deadlock. That nobody is stuck before is `Answered`,
  `EveryNonceWon` and the fairness half of `ImplementsAtomicLog`.

Symmetry is used in safety runs only.

### Fairness

`PEP!FairSpec` gives each request that was received weak fairness of its next
step. The code justifies it: every request has its own goroutine, the Go
scheduler is preemptive, the handler never loops or waits except for the two
mutexes and the external calls, and Go's mutex hands over to a waiter within a
bounded time. It assumes that the policy, the spend log and the emitter return,
with any result; the code has no timeout of its own for them. Nothing is assumed
about the arrival of requests or the clock. In `LogMutex` and `MemSpendLog` every
goroutine calls once, so weak fairness of its next step is all that `Lock` needs;
this goes for the readers too.

## 4. What is proved

TLAPS proves the theorems below for every set of callers and of inputs, every
choice of keys, every clock, log length and number of crashes, and every failure
of the external services. Nothing is assumed but the named assumptions of the
modules; TLC evaluates them on the instances above.

### Assumptions and hypotheses

* `PresentationAssumption`: what a well-formed header presents is not the marker
  `NoReq`, has a nonce from `Nonces` and an integer expiry. `CallAssumption`: the
  amount and the expiry of a tool call are integers. `CapabilityAssumption`:
  the limit of the capability is a natural number that fits a `uint` and an
  amount field (it is a `uint64`, and the field has 16 bytes).
* Addresses, in both of these, are in `Base58Text`: sequences of `b58Index` values.
  The amount of a payment is an integer or `NotDecimal`. Nothing is assumed about
  whether addresses or amounts are well formed.
* `SymbolsAssumption`: what is encoded are bytes. `PaymentsAssumption`: the payments
  put to `ComputeBinding` have addresses in `Base58Text` and an integer or
  `NotDecimal` for an amount; their schemes and networks may be anything.
* `TagsDistinct` is the hypothesis of `EvidenceIsTied` and of
  `BindingTellsPaymentsApart`: different schemes, and different networks, have
  different tags. The allowlists are two maps of the
  operator, and nothing in the code checks this; with one tag for two networks a
  binding does not say which network was paid on. All values in the repository
  satisfy it.
* `TransportsAssumption`, and `RootReqs \cap EntryReqs = {}`: a goroutine serves
  one kind of request. `ProcsAssumption`, `SpendersAssumption`: the value that
  marks a free mutex is no goroutine.
* `StoreAssumption` has, besides types, `OtherPub # LogPub`: another log has another
  key.
* The others give constants their types.
* `WithinCap` (`MaxEntries <= MaxLogEntries`) is a hypothesis of three theorems of
  `StoreProofs`, and of no other: `store.go:38` puts logs above `ReadLog`'s cap out
  of scope. `LoadedNeverForks` and `StoreRefinesLossyLog` say what holds without it.

### The theorems

| component | theorem | statement | from |
|---|---|---|---|
| HTTP enforcement point (`PEPProofs`) | `TypeCorrect` | `[]TypeOK` | `CoreInv` |
| | `NonceIsSingleUse`, `DenialBurnsNothing`, `ReplayIsNeverInvented` | `[]SingleUse`, `[]BurnedOnlyBySpend`, `[]ReplayIsReal` | `CoreInv`, `NonceInv` |
| | `ChainAlwaysVerifies` | `[]ChainSound` | itself |
| | `ServiceHasEvidence` | `[]ServedHasEvidence` | `EvidenceInv` |
| | `AuditIsTheAnswer` | `[]AuditMatchesAnswer` | `EvidenceInv`, `AuditInv` |
| | `PEPImplementsAuthz` | `Authz!AbsSpec` | all of these, `ReceiptInv` |
| | `EvidenceIsTied` | `[]EvidenceTiedToPayment`, with `TagsDistinct` | `EvidenceInv`, `AuditInv`, `TiedInv`, `BindingIdentifies` |
| | `AnswerFitsDecision` | `[]AnswersFit` | `CoreInv`, itself |
| | `HandlerEnds`, `AnsweredOnce` | `[][OneAdvances]_vars`, `[][AnswerIsFinal]_vars` | `CoreInv`, `AnswersFit` |
| both transports with crashes (`DeploymentProofs`) | `ServedAtMostOnce`, `ReceiptedNonceIsDead` | `[]ServedOnce`, `[]PermitMeansSpent` | `SpentInv`, `AllowedOnce`, `PermitInv` |
| | `AllowedStaysApproved` | `[]AllowedIsApproved` | `ApprovalInv` |
| | `ChainSaysWhatWasDecided` | `[]EntryIsDecision` | `OwnerInv` |
| | `ReceiptSurvives` | `[]ServedKeepsReceipt` | `ReceiptInv` |
| | `ChainIsHistory`, `ExpiredStaysRefused` | `[]ChainRespectsRealTime`, `[]ExpiryIsFinal` | `TimeInv`, `OwnerInv`; `ExpiryInv` |
| | `DeploymentRefinesLossyLog` | `ImplementsLossyLog` | `OwnerInv`, `ChainSound` |
| spend log (`MemSpendLogProofs`) | `SpendIsCritical`, `SpendOnce` | `[]SpendInv`, `[]OneWinner` | `SpendInv` |
| | `SpendIsAtomic` | `AtomicSpec` | `SpendInv` |
| | `AnswerMeansWon`, `LockNeverLeaks`, `SpendEnds` | `[]AnsweredIsWon`, `[]HolderRuns`, `[][OneAdvances]_vars` | `SpendInv`, `AnswerInv` |
| log under its mutex (`LogMutexProofs`) | `LogIsCritical`, `AppendedStays` | `[]MutexInv`, `[]ReturnedIsLogged` | `MutexInv` |
| | `LogIsAtomic` | `AtomSpec` | `MutexInv` |
| | `LogLockNeverLeaks`, `MethodsEnd` | `[]HolderRuns`, `[][OneAdvances]_vars` | `MutexInv` |
| Merkle tree (`AlgorithmProofs`) | `EveryProofVerifies`, `NoOtherLeafVerifies`, `RootDeterminesLog` | `[]ProofsVerify`, `[]ProofsSound`, `[]RootIdentifiesLog` | induction on the size |
| | `RootIsReference` | `[]RootMatchesReference` | `ForestInv`, `BagIsRoot` |
| base58 (`Lemmas`, `AlgorithmProofs`) | `ConvertBack` | any radix to any other and back is the identity | induction on numbers and on strings |
| | `Base58IsBijective` | `[]OneTextPerAddress` | `ConvertBack` |
| binding (`Lemmas`, `AlgorithmProofs`) | `BindingIdentifies` | equal bindings exactly for equal payments, any two payments | `LayoutInjective`, `AmountsDiffer` |
| | `BindingTellsPaymentsApart` | `[]BindingIdentifiesPayment`, with `TagsDistinct` | `BindingIdentifies` |
| | `FitsMeansBinds` | `[]BindsWhateverFits` | `CapacityIsRange` |
| the agent's policy (`AlgorithmProofs`) | `PolicyMeansBinding` | `[]PolicyAgreesWithBinding` | `LayoutInjective`, `ConvertBack`, `RangeIsDownward` |
| endpoints (`TransparencyProofs`) | `EndpointNeverFails`, `RootIsCurrent` | `[]NeverInternalError`, `[]RootIsOfServedPeriod` | `ReadIInv` |
| | `QuietReadExact` | `[]QuietReadIsExact` | `ReadIInv`, `QuietInv`, `InclusionComplete` |
| persistence (`StoreProofs`) | `FileAlwaysLoads`, `FileNeverForks` | `[]SnapshotLoads`, `[]FileIsPastLog`, within the cap | `StoreInv` |
| | `LoadedNeverForks` | whatever loads is a past state of the log | `StoreInv` |
| | `SettledAnchorStays` | `[]SettledAnchorHolds`, within the cap | `StoreInv`, `AnchorInv` |
| | `SaveCoversItsCall` | `[]SavedCoversCall` | `StoreInv`, `CallInv` |
| | `NothingIsForged` | any file at all that the log's key had no part in is refused, or an earlier state of the log, or another log's | `StoreInv`, `ShapeInv` |
| | `AlterationsRollBack` | `[]AlterationIsRollback` | `NothingIsForged` |
| | `StoreRefinesLossyLog` | `ImplementsLossyLog` | `StoreInv` |

### The arguments

The HTTP enforcement point.

* `CoreInv` is `TypeOK` with `PhaseInv`, which says what each place of the
  handler knows: before the decision there is no class and no reason, after it
  there is a class, something was presented, and the reason is "allow" exactly
  for an ALLOW. None of the properties is inductive without it, because the
  variables of a caller mean nothing without its `pc`.
* `NonceInv` adds `AllowedIsSpent` (an allowed nonce is in the spend log) to
  `SingleUse`, `BurnedOnlyBySpend` and `ReplayIsReal`. `SingleUse` alone is not
  inductive: a second caller at "spend" is stopped only because the first one's
  nonce is in `spent`. Conversely, a replay is real because `spent` contains
  nothing that no spend put there.
* `ChainSound` is inductive by itself: the appended record continues the tail
  and verified under the log's key (`ExtendedLogVerifies`).
* `EvidenceInv` says that a decision carries the binding of the payment that was
  presented, and what is recorded at each place after the decision: an allowed
  request at "stamp" or later has its PERMIT receipt, at "serve" its ALLOW entry
  as well. Evidence only grows, so other requests cannot take it away.
* `AuditInv`: a locator points to an entry with the caller's decision, no two
  callers have one locator, and every entry is some caller's. With `ReceiptInv`
  (every receipt is that of a request past `Emit`) it gives the simulation: the
  step that decides is the abstract grant or refusal, the emit and the append are
  the abstract evidence steps, the answer is the abstract outcome, and the rest
  stutters.
* `TiedInv`: a receipt carries the binding of the decision it is about, and a
  request whose payment does not bind is never at the policy or at the spend log,
  and so never allowed. With `AuditInv`, which says the same of the entries, a
  shared digest is a shared binding, and `BindingIdentifies` makes it one payment:
  or it is the zero binding, which no digest equals.
* `AnswersFit`: a request has a status exactly when its handler has returned, the
  status fits the decision, and "serve" and "deny" are reached with the decisions
  they are named for. It is inductive with `CoreInv`; the clause about "serve" and
  "deny" is needed because `Serve` and `Deny` do not look at the class again, or
  tell only one of the two denials apart.

The deployment. `DepInv` conjoins one invariant per concern, each of which needs
only `BaseInv` (types, what a caller at each place knows, and that an answer
comes last): a crash changes every variable of the process at once, and each part
says what is left. `SpentInv` and `AllowedOnce` carry the reservation "unless the
spend log was lost in between" that `life` makes precise; `OwnerInv` ties every
surviving entry to the caller that appended it, also when the log has gone back to a
prefix and its sequence numbers are given out again; `TimeInv` and `ExpiryInv`
relate a caller to those that were gone before it arrived. Steps that touch neither
decisions nor stores are covered by one lemma each (`Quiet`).

The mutexes. The inductive invariants say that whoever is between `Lock` and
`Unlock` holds the mutex, and that what it has read is still so. The simulation
maps `StoreSlice`, `SignFails`, the end of `Encode` and the readers' `LookUp` to the
atomic steps, and everything else to stuttering; that no reader overruns the
length it measured is part of it. `Spend` is treated alike: a hit and an insertion
are the atomic `Spend` that `EnforcementCore` has, because whoever has missed still
would.

Termination. Fairness cannot be used in the prover, but what the liveness
properties need besides it can be proved, and is. Each step takes one goroutine or
request to a place with fewer steps left (`SpendEnds`, `MethodsEnd`, `HandlerEnds`), so
none of them loops or retries. A mutex that is held is held by somebody whose next
step does not wait (`LockNeverLeaks`, `LogLockNeverLeaks`), so nobody waits for a
goroutine that is gone or for one that waits itself. And whoever is at the end has
the answer that the property asks for (`AnswerMeansWon`, `AnswerFitsDecision`). That a
goroutine with a step to take does take it in the end is the fairness assumed in
section 3, and only TLC puts the parts together.

Persistence. `StoreInv`: the log in memory is one that `Verify` accepts; what is at
the path, and what an undone rename could bring back, is a complete snapshot of a
prefix of it and reached the disk before its rename; a temporary file past its
`Sync` is such a snapshot too. `AnchorInv` adds that every file that a crash could
leave contains a settled anchor, and every `Save` under way took its snapshot after
it. `CallInv` follows one `Save` from its call: as long as it was alone, what it wrote
is at least the log at its call. `NothingIsForged`
is about every file of the format whose signatures under the log's key were all
taken from the file at the path. A signature covers every field of its record
(`SignatureFixesEntry`; `ShapeInv` says that there are no other fields), the sequence
number included, and `Verify` wants number `i - 1` at place `i`: what was signed for
one place can stand at no other, so a chain made of such signatures is a prefix
(`KeylessChainIsPrefix`). Under another key no entry can be one of this log
(`KeysSeparateLogs`). The root has no part in this: it ties a file to itself only.
`AlterationsRollBack` shows that the alterations of the run are of this kind
(`RearrangedIsMade`).

The endpoints. `ReadIInv` says what each read left behind: an index that was in the
log stays in it, and a root is that of the log at a moment between the first read
and now. `QuietInv` says that as long as the log has the length of the first read, all
the values read are those of the present log.

The Merkle tree (`Lemmas`). The tree is recursive on sub-slices, and the prover
has no induction over an operator. `StrongInduction` is therefore stated for a
set of numbers and proved from the well-founded minimum (`WFMin`); each induction
names the set of sizes for which its claim holds. The recursions of `Merkle` are
functions of the size; that such a function exists is proved by the same
induction (`RootLevelsExist`, `PathLevelsExist`, `UpLevelsExist`), which gives the
recursion equations (`RootEquation`, `PathEquation`, `UpEquation`). All that the
inductions need of the split point is that it lies strictly inside
(`SplitInside`). Then: a hash that a node of the tree has says which kind of node
it is and of which children (`TreeHashes`); a path that leads to the root of a slice
starts at its leaf (`PathsAreSound`); the path that `auditPath` builds leads to the
root (`PathsLeadToRoot`); equal roots are equal slices (`RootsIdentify`).

The reference construction of the tree (`RootIsReference`). `Pow2` is the least set
that has 1 and is closed under doubling, which gives an induction on powers of two
(`Pow2Induction`) and their gaps (`Pow2Gap`). `ForestOf` is the invariant: the trees
of the forest stand side by side and end with the last leaf; each has a power of
two for its size and the root of its leaves for its hash; each is followed by no more
leaves than it has itself. A tree with exactly as many leaves behind it as it has
must be the one before last, with a carry due (`FullMeansCarry`), so adding a leaf
keeps the bound (`ForestGrows`), and a carry merges two halves of one perfect tree
(`ForestCarries`). The bound is also what ties the forest to the code: a power of two
that is followed by at least one and by no more than its own number of leaves is where
`largestPow2Below` splits (`SplitAtPow2`), so hashing the trees together from the
right gives the root of the leaves they cover, one tree at a time (`BagIsRoot`).

Addresses, amounts and the binding (`Lemmas`). `DigitsOf` and `ValueOf` get their
recursion equations in the same way (`DigitsEquation`, `ValueEquation`). The value of
the digits of a number is the number (`ValueOfDigits`, by `StrongInduction`), and the
digits of the value of a string without leading zeros are the string
(`DigitsOfValue`, by `SequencesInduction`). A zero run changes no value
(`ValueOfZeros`), and `Convert` puts back exactly the run it found
(`LeadingZerosOfRun`); together this is `ConvertBack`. Amounts in range with one
`amount16LE` are equal (`AmountsDiffer`), and the blocks of the layout have fixed
lengths, so that equal preimages are equal block by block (`LayoutInjective`). That
the number of bytes an amount needs (`BitLen`) decides whether it is below
`256 ^ AmountWidth` is `CapacityIsRange`, by induction on the width. The policy compares
texts and the binding decoded bytes; `ConvertBack` makes these the same.

### Only model-checked

Liveness: `Answered`, `DenialSurvivesEvidenceOutage`, `EveryNonceWon`, and the
fairness halves of `ImplementsAuthz` and `ImplementsAtomicLog`. The prover has no rules
for fairness; the theorems under "Termination" above are their safety halves. Every
invariant and every other action property of the runs is also a theorem, except those
of the three runs that are expected to fail.

## 5. What is not modelled

* `NewPEP`'s nil checks, log messages, `PublicKey`, `DecisionClass.String`: no
  state depends on them.
* `maxLogBytes`: 100000 entries take about 42 MB, below its 64 MB. `Save`'s
  check for an empty path; temporary files that a crash leaves behind.
* A wall clock that is set back: `time.Now` only moves forward here.
* The known-answer scripts and the CI configuration.

## 6. Plan

Done, in this order: the gate and the HTTP enforcement point; the spend log and
the transparency log at the level of memory accesses; the MCP enforcement point
and the composition with crashes; persistence; the endpoints; the pure functions;
the reading methods under the mutex, buffering emitters and `MemSpendLog` across
restarts, anchoring, and the abstract log that persistence and composition share;
then the proofs of section 4.

Open: the liveness properties beyond the instances of the runs, should the prover
learn to reason about fairness; and `Deployment` with a fair scheduler, where a crash
may leave a caller unanswered and the property worth stating is about the callers of
the last life of the process.
