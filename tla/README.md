# Verification of Trusted Smart Chain (tsc)

TLA+ models of the parts of `tsc` that are its own: the `x/lockup` module with
its staking hooks, bank restriction, queries and EVM precompile, the `x/distro`
module, the decoder for Ethereum transactions in an older encoding, the two
codecs of its messages, and the zero-height export. TLC checks them on small
instances; TLAPS proves the properties of the lock store, with and without
contracts that call it, and of `x/distro` and its schedule for every value of the
constants.

## The system

| Part | State | Operations | Interacts with |
|---|---|---|---|
| lock store (`x/lockup/keeper/locks_by_*_store.go`) | per account a list of locks in date order; per (date, account) an amount, the "expiration queue" | insert, merge, debit, delete | written by the handlers, read by hooks, restriction and queries |
| lockup messages (`msg_server_*.go`) | - | Lock, Extend, SendDelegateAndLock, MultiSendDelegateAndLock | lock store, staking, bank |
| hooks and restriction (`hooks.go`, `send_restriction.go`, `helpers.go`) | markers in the transaction's context | veto of delegation changes and of sends | called by staking and bank in the middle of their operations |
| queries (`query_server.go`) | none; a client keeps its position | ActiveLocks, TotalLockedAmount, AccountLocks, Locks | committed lock store |
| precompile (`precompiles/lockup`) | none | lock, extend, sendDelegateAndLock, locks, totalLockedAmount | lockup handlers inside an Ethereum transaction |
| zero-height export (`app/export.go`) | none | a sequence of passes | distribution, staking and slashing stores |
| node codec (`x/*/types/*.pb.go`) | none | Size, Marshal, Unmarshal per message | transactions, stores, query answers |
| client codec (`api/**/*.pulsar.go`) | a message, with its unknown fields | Has, Set, Mutable, Clear, lists; size, marshal, unmarshal | the same bytes |
| `x/distro` | parameters | Mint, UpdateParams | bank supply, to which x/mint adds |
| legacy decoder (`app/legacy_ethtx.go`) | none | decode | standard decoder, go-ethereum |
| ante handlers (`app/ante`) | context values | route, marking of redelegations, ValidateBasic | every transaction |

What is hard about it: two key families that different lines of code keep
equal; loops in handlers that can fail half-way; hooks that run while the
staking store is half updated; a context value that outlives the message it was
set for; rates that are not whole after a slash; clients that page through a
store that changes; calendar arithmetic and rounding at the ends of periods; a
decoder written by hand; two generated codecs that must agree on the same bytes;
an export whose passes depend on their order. `PROJECT.json` lists these hazards at their lines.

## Modules

| Module | Models | State and actions |
|---|---|---|
| `LockStore` | the two key families | pure operators on a list and a queue |
| `LockupKeeper` | amounts, hooks, restriction; staking and bank as far as they are used | pure operators on the stores |
| `Lockup` | messages, ante handler, transactions, blocks | committed stores `lockup`, `chain`; cache `lockupC`, `chainC`; `tx`, `pc`, `sub` (message and loop iteration), `marked`, `day`. One `Do...` action per message, one step per loop iteration |
| `LockLedger` | what the lock store promises | amounts per account and date, published and draft |
| `LockupQueries` | the queries and two paging clients | extends `Lockup` with `scan` and `pager` |
| `LockupPrecompile` | contract calls | extends `Lockup` with Ethereum transactions of several calls |
| `DelegationScan` | the batch loop of `GetTotalDelegatedAmount` | one step per read and per delegation |
| `HalvingSchedule`, `Distro` | the schedule; the module | `params`, `supply`, `balance`, `provided` (by x/mint), `day` |
| `LegacyEthTx` | the decoder | a sender edits an encoding, the decoder answers |
| `ProtoWire` | the wire format: fields, lengths, varints, skipping | pure operators |
| `ProtoSchema` | the `.proto` files: what a buffer means | one table per message |
| `GogoCodec` | the node's codec | three tables per message, one for each of its methods, and their interpretation |
| `PulsarCodec` | the clients' codec | five tables per message, and their interpretation |
| `MessageCodec` | a message between clients and nodes | `type`, `stage`, `msg`, `wire`, `by`; one action per edit, `Send`, `Node`, `Open` |
| `ZeroHeight` | `prepForZeroHeightGenesis` | `pc`, `allowed`, `dist`, `staking`, `signing`; one action per pass, one per failure and per `log.Fatal` |
| `LockStoreProofs`, `LockupProofs`, `LockupTheorems` | proofs about `LockStore`, `Lockup` and `LockLedger` | - |
| `PrecompileTheorems` | proofs about `LockupPrecompile` | - |
| `SumTheorems` | lemmas about finite sums, and the induction they rest on | - |
| `DistroTheorems` | proofs about `HalvingSchedule` and `Distro` | - |
| `MC...` | instances for TLC | - |

Operators whose name has an underscore and that are called faulty in their
comment are variants of the definition behind them. No specification uses them;
they serve to confirm that each property notices such a mistake.

### Reading `Lockup` against the code

- A handler is a guard (`CanLock`, `CanExtend`, ...: all checks in code order)
  and an effect (`AfterLock`, ...: all writes). `SendDelegateAndLock` composes
  `SendCoins`, `Delegate` and `Lock`, each on what the one before has left.
- A handler error and running out of gas are both `FailTx`, which may happen
  before any message is complete, also where no guard fails. That covers the
  limits of x/staking that are not modelled (entries per delegator and so on).
- x/staking and x/bank are external and modelled from how they are used. Shares
  and tokens are kept apart, with the roundings of `LegacyDec` at `Precision`
  instead of 10^18, because the module compares rounded values.
- The hooks see the staking store as it is when they fire: with the delegation
  still there in `BeforeDelegationRemoved`, with the validator not yet reduced in
  the `AfterDelegationModified` of an unbonding.
- A date is a day number. The two years of Lock and Extend are the constant
  `Horizon`; in the code they are 730 or 731 days.
- Ethereum transactions carry messages that the precompiles build, so they are
  not validated by the ante handler and not marked.
- InitGenesis of x/lockup stores nothing and ExportGenesis returns a state
  without fields (`keeper.go:64-68`), so the chain starts without locks, and one
  that starts from an exported file has lost them.

### Reading the codecs against the code

The generated methods repeat one pattern per kind of field. The pattern is
modelled once (`GogoMarshalField`, `PulsarReadField`, ...), and each method of
each message is a table of the fields it treats, with the number its tag bytes
hold and in the order of its statements. The tables of one message are
independent of each other, of the other codec's and of the schema's: each is
read from its own method. A method that forgets a field, or knows it by another
number or wire type, is another table.

- A buffer is a sequence of fields; a text is a token with a length. Texts of 0,
  1, 2, 127 and 128 bytes stand for the lengths between which varints grow.
- `math.Int` is external: the empty text leaves the value alone, other texts must
  be numbers, and the shortest form is written.
- `Coin`, `PageRequest` and `PageResponse` belong to the SDK and have two fields
  each. A `Coin`'s amount is a `math.Int` to the node and a string to a client.

## Runs

| Run | Checks | Result |
|---|---|---|
| `lockup_store` | types, ordered lists, equal key families, commitments never shortened; `Lockup` implements `LockLedger` | holds |
| `lockup_staking` | a marked redelegation of a locked account is not vetoed (`MoveAllowed`); nothing but a slash, a revived lock or a marked undelegation makes delegations (`CoverageKept`) or balance plus delegations (`BackingKept`) smaller than the locks; a multiple send, also to the sender, takes exactly its total | holds |
| `lockup_queries` | paging through ActiveLocks under concurrent changes; the total of one family is the sum of the other; paging through Locks while the account's active locks stay the same | holds |
| `lockup_precompile` | calls spare other accounts, read-only calls of lock, sendDelegateAndLock and a query write nothing, equal key families | holds |
| `delegation_scan` | fewer delegations than a batch: the loop ends with the sum | holds |
| `distro` | valid parameters, one period per day, exact release at the end of a period, what x/distro lets through within the schedule while x/mint adds to the same supply | holds |
| `legacy_ethtx` | converted transactions are what was sent; all complete old ones are converted; all others get the standard decoder's answer (`OthersAsDecoded`) | holds |
| `message_codec` | for every message: Size is what Marshal writes (`SizeExact`); a field is sent exactly when Has reports it (`PresenceAgrees`); both codecs refuse the same bytes (`SameVerdict`); the node's bytes are a fixed point of both (`CanonicalBytes`); a client loses nothing, fields of newer schemas included (`ClientKeepsMeaning`); a node loses nothing the schema declares (`NodeKeepsDeclared`) | holds |
| `lockup_revive` | "totalDelegated >= totalLocked" between transactions | violated: an expired lock is extended |
| `lockup_marked` | no covered account commits an undelegation that leaves its locks uncovered | violated: one behind a redelegation from the same validator, in the same transaction |
| `delegation_scan_full` | the loop ends with an answer | violated: a full batch is read again and again |
| `zero_height` | after the export each delegation's starting period has its record | violated: the records are deleted after the delegations were given them |

The violated ones state what a comment of the code says; `findings` in
`PROJECT.json` quotes it.

`CoverageKept` and `BackingKept` allow one unit per unbonding that touches a
validator whose rate is not 1: staking pays whole tokens rounded down while the
module rounds the value of what remains up.

Two properties have a premise that marks a limit of the code. `PagerExact` is
about unchanged locks, since Locks slices from an offset that it does not compare
with the length: when the list has become shorter than the offset of the next
page, the request panics. `WithinSchedule` takes the limit of the last day with an
answer, since `1 << period` is zero from period 64 on and the division panics:
nothing can be minted from then on. Both states occur in the runs.

The schedule of x/distro does not bound the supply by itself. The application
gives x/mint the same denom (`app/genesis.go:58`) and runs it in every BeginBlock
(`app/app.go:839`) with the default inflation, and x/mint asks nobody. Its
provisions are an action of `Distro` (`MintProvision`), and `provided` counts
them. `WithinSchedule` says what the mint handler does about them. When what
circulates beyond the limit of the day is at most what x/mint has provided, it
stays so while the parameters stay; and a supply above the limit, through
provisions, genesis or new parameters that allow less, grows by provisions only.

`OthersAsDecoded` compares the decoder's answer with what the standard decoder
made of the same bytes (`verdict`). Every error that mentions an unknown field
leads to the old-format reader, so a transfer or a proposal with such a field is
read as an old Ethereum message; the fields of a proposal are those that come
closest to one.

### Bounds

- Messages of amounts up to 2, two accounts, one or two validators, two or three
  days, horizon 2 or 3. That is enough for merging into an existing lock,
  emptying one, chains of extensions inside a message, a lock that runs out
  while another does not, a message whose second output fails, and rates other
  than 1 (`Precision` 2 in place of 10^18 and a slash to any smaller amount, zero
  included).
- `DefaultLimit` 3 stands for 100, `Batch` 5 for 100. An account has up to three
  active locks, so that pages of 1 and 2 need several requests. `Width` 3 stands
  for 64; the sum of offset and limit does not reach 2^`Width`, since a client
  that keeps its limit has read everything before.
- `MaxPeriod` 7 stands for 1000, `ShiftWidth` 5 for 64, `MaxSpan` 6 for 106751
  days. Periods of one month reach the fifth within the 14 days of the run, and
  periods of three months are longer than `MaxSpan`. x/mint provides up to
  `MaxProvided` 2, enough to take the supply above the limit of early days. Months have three and two
  days in turn, so that a start day exists that every other month lacks.
- `MaxEdits` 2 departures from the canonical encoding, at any level.
- `MaxCalls` 2 successful writing calls of an Ethereum transaction; failing and
  reading calls are not bounded. The instance's calls of extend all fail, as in
  the code: `parseExtensions` asserts a local type that the decoded value never
  has (`tx.go:249`).
- `MessageCodec` covers every message of `proto/`, lists of up to `MaxList` 2
  elements, edits in any order and number, and per message twelve forms of legal
  and up to twenty of illegal foreign bytes. A field of wire type 1 or 5 is skipped by
  its fixed width and is not generated.
- `ZeroHeight` has two validators, one with two delegations, no allow list, one of
  a validator and one with an entry that is no address, and commissions and scraps of 0 or 1.

### Fairness

Only `DelegationScan` states fairness: weak fairness of the loop's next step,
since it runs in one goroutine without waiting. Everything else is safety.
Transactions and blocks are not forced to happen.

Deadlock is not checked for `DelegationScan`, `LegacyEthTx` and `ZeroHeight`,
which end when the question is answered.

## Proofs

`LockupTheorems` proves, for any accounts, validators, transactions, horizon,
days and amounts:

- `Spec => []TypeOK`, `[]ListsWellFormed`, `[]IndexAgreement`;
- `Spec => ImplementsLedger`: every step is a step of `LockLedger` or a stutter.

All rest on one inductive invariant, `IInv`: the types, the transaction machine
(`TxMachine`: the cache between transactions, validated messages within one), and
for both the committed store and the cache, ordered lists without empty
locks within the horizon whose amounts are those of the queue. `IndexAgreement`
alone is not inductive: Extend looks its amount up in the list and removes it
from the queue, which is only the same thing when there is one lock per date
(the order) and the amount is positive (checked by ValidateBasic when the
transaction began, hence the clause of `TxMachine` on running transactions).

`LockStoreProofs` says what each operation does to the amount a list records for
a date; `LockupProofs` carries this over to the store and the ledger;
`LockupTheorems` has one lemma per kind of step. The assumptions are those named
in the modules: the bounds are numbers, and transactions are non-empty sequences
of messages.

`PrecompileTheorems` carries this over to `LockupPrecompile`, whose
transactions interleave Ethereum transactions of several calls with those of
`Lockup`:

- `PrecompileSpec => []IndexAgreement` and `=> ImplementsLedger`;
- `ReadOnlyCalls`: a read-only call changes nothing.

Its invariant `PInv` is `IInv` between Ethereum transactions and `EInv` within
one, where the cache is a well-formed store but the running transaction has no
validated messages, so that `TxMachine` cannot be kept. A call is shown to do to
the locks what a Lock of a positive amount for a date ahead does, or nothing
(`ExtendRefused`: the extend method never gets as far as a write), and a revert
drops the cache, which the ledger allows at any point. The assumptions are that
calls carry arguments of the method's types and that the transactions outside
the EVM take the Cosmos route.

`DistroTheorems` proves of the schedule and of `Distro`, for any calendar whose
months start one after the other, any accounts, parameters and amounts:

- `PeriodsDisjoint`, `PeriodsAdjoin`: no day is in two periods, and each starts the
  day after the one before it ends, whatever the start day (also one that some
  months lack) and the length;
- `LimitGrows`: the limit never falls from one day to the next;
- `Spec => WithinSchedule`, `[]OnePeriodPerDay`, `[]PeriodsRelease`, `[]TypeOK`, the
  last one together with `SupplyHeld`: the supply is what the accounts hold.

On a day in period c the limit is what the periods before c have released and a
share of c's allocation that grows with the day and reaches the whole of it on the
last one (`TotalBounds`); hence it never falls. `PeriodsReleaseHalves` sums the
halvings, each of which loses at most one unit to rounding. For `WithinSchedule`
what a mint leaves is within the limit of its day (`MintsWithinLimit`), a later
limit is no smaller, and a provision moves both sides alike. The invariant is
`TypeOK` with `SupplyHeld`, without which a burn could leave a negative supply.
`SumTheorems` holds what is used of sums: they may be split, renamed, scaled and
bounded, and change by what one summand changes. It starts from the
well-foundedness of the strict subsets of a finite set, since the prover has no
induction over data. The assumptions are that the calendar is ordered and reaches
the end of the periods of all valid parameters, which last until `MaxDay`
(`CalendarAssumption`, `DistroAssumption`), and the arithmetic of powers of two,
which the provers do not know (`PowerAssumption`).

Only model-checked: `CommitmentKept`, `CoverageKept`, `BackingKept`,
`MultiSendDebitsTotal`, `OthersSpared`, the totals and pages of the queries and
`TotalIsSum`; `MoveAllowed`, which uses ENABLED; the liveness of `DelegationScan`;
the decoder's properties; and `MessageCodec`, whose operators recurse over nested
messages.

## Not modelled

- Denominations other than the bond denom, accounts that do not exist,
  cancelling an unbonding, fees.
- `DeleteLocksByAddress`, `GetTotalLocked` and `IterateAndDeleteExpiredLocks`,
  which nothing calls: locks that have run out stay in the store.
- What x/staking does with a hook's error in BeginBlock.
- How much x/mint provides in a block, which depends on the share of the supply
  that is bonded: any amount up to the bound is tried.
- Halving periods of so many months that the month count overflows.
- In the decoder: varint bytes and lengths beyond int, transactions with several
  messages (the reader looks at the first one), integers that are
  present but empty. Whether the standard decoder rejects or drops reserved
  fields is left open and both are checked.
- A call of the precompile that runs out of gas on its own; the transaction may
  revert at any point instead.
- In the codecs: a singular message field that occurs twice (whether pulsar
  merges depends on an option of its runtime); an amount that is written and then
  written empty; varints of more than ten bytes and lengths beyond int, which all
  methods answer with an error. gRPC stubs, gateways and descriptors forward or
  describe. `ExampleData` in `x/distro/types/state.pb.go` has no `.proto` file
  and no use.
- x/lockup's own genesis methods, which are empty, and the JSON of an export.
- The wiring of the application (which hooks and restrictions are registered is
  what `Lockup` assumes), the upgrade handler (one sequence of writes to other
  modules' parameters that stops at the first error), command line, other
  modules' default genesis.

## Further work

1. Calls that redelegate and undelegate from contracts in `LockupPrecompile`,
   together with the hooks.
2. Proofs about the commitments, the coverage of locks and the queries, which
   need sums over lists and queues.
3. Transactions with several messages in `LegacyEthTx`.
4. Cancelling an unbonding, and the redelegation entries that a slash unbonds.
