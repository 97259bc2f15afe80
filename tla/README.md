# A TLA+ verification of soroban-helpers

This directory models the client library `soroban-rs` (crates/soroban-rs), the multisig
contract and the client macro that go with it and the programs that use them, checks the
models with TLC and proves the main results with TLAPS.

## 1. The system

The library deploys Soroban contracts, calls them and manages the accounts that sign for
them. It keeps no threads and persists nothing: its state is in the values the caller
holds, and its concurrency is that of the caller's async tasks, which interleave at every
request to an RPC server, and of other processes on the same accounts.

| component | state | operations | interacts with |
|---|---|---|---|
| Guards (`guard.rs`) | a u16 counter per guard, `NumberOfAllowedCalls` or `AuthorizedCallsFor` a contract | `check`, `update`, the recursive count of a contract's calls | called by Account; reads the authorization entries of a transaction |
| Account (`account.rs`) | signers and guards; `Clone` copies both | `single`, `multisig`, `add_guard`, `sign_transaction`, `sign_transaction_envelope`, `sign_transaction_unsafe`, `configure` | simulation signs with it; Contract holds clones of it |
| AccountConfig (`account.rs`) | weights and thresholds | builders, SetOptions operations | used by `configure` |
| TransactionBuilder, simulation (`transaction.rs`) | the transaction being built | `build` reads the sequence number; `simulate_transaction` fills in fee and resources | Account, Env |
| Contract (`contract.rs`) | wasm, `client_configs` (contract id, Env, clone of an account) | `deploy` (upload, then create), `invoke`, `extend_ttl` | all of the above, Parser |
| Env, RPC (`env.rs`, `rpc.rs`) | an RPC client | `get_account`, `simulate_transaction`, `send_transaction` (which polls) | the network |
| Operations (`operation.rs`) | none | build operations, with or without authorization entries | guards read the entries |
| Auth entries (`auth.rs`) | none | `simulate_transaction_with_auth`, `sign_auth_entry` | Env; the multisig contract verifies what it signs |
| Multisig contract (crates/multisig) | signers, threshold | `__constructor`, `__check_auth` | the ledger calls it |
| Parser, response (`parser.rs`, `response.rs`) | none | find results in transaction metadata | Contract, callers |
| Errors (`error.rs`) | none | kinds, texts, conversions | Env and Contract go by a text and a kind |
| Signer, crypto (`signer.rs`, `crypto.rs`) | a key | hash and sign an envelope for a network; compute a contract id | Account, auth entries |
| Client macro (crates/soroban-rs-macros), ScVal (`scval.rs`) | none | generate a client from a contract's source; convert its arguments | its methods call `Contract::invoke` |
| Examples, scripts (examples/, crates/example) | none | whole programs | everything |
| Files, mocks, test helpers | none | I/O, test support | |

What is hard here, and what makes it correct:

* *Budgets.* A guard is checked, signatures are collected (which can fail), then guards are
  updated one after the other; accounts are cloned in the middle of their lives. No path
  may lose budget, give any away, or move one guard without the others.
* *Counting.* The cost of a transaction under a contract guard is counted recursively in
  unchecked u16 arithmetic over trees of any shape.
* *Co-signing.* An envelope passed round must keep the signatures it has and stay within 20.
  An authorization entry passed round, on the contrary, has its signatures replaced.
* *Sequence numbers.* They are read before two further awaits and used after them, by
  clones of one account at once, and by other processes with the same key.
* *Failure on the network.* A request is lost, refused or answered late; the poll gives up
  while the transaction is still queued; the caller calls again.
* *Fees and resources.* They come from an answer that may be an error, lack data or not
  decode, and a transaction may be simulated several times.
* *Authorization.* Nonces and an expiry found by one simulation are signed, enforced by a
  second and used by a submission, while ledgers close and other clients use nonces up;
  the multisig contract recomputes what the library signed.
* *Deployment.* Two transactions with failures in between; an error that counts as success,
  recognized by its text.
* *Networks.* Building, signing and sending each take an Env, and nothing ties them together.
* *Versions.* The metadata in which results are found changes when the network upgrades.

`PROJECT.json` lists each hazard at its line, with the properties that would catch it.

## 2. The modules

```
Guards <-- EXTENDS -- Account <-- MCAccount
  ^                     ^-- Account_proofs   (about Guards and InvocationTree as well)
  |-- INSTANCE -- ContractClient <-- MCContractClient
  |                 |    ^-- ContractClient_proofs
  |                 +-- INSTANCE --> LedgerCalls   (the abstract specification)
  +-- INSTANCE -- Programs <-- MCPrograms, Programs_proofs
ClientMacro <-- EXTENDS --'
InvocationTree <-- MCInvocationTree, Account_proofs

MultisigAccount <-- EXTENDS -- AuthEntries    <-- MCAuthEntries,   AuthEntries_proofs
  ^                 `--------- AuthCosigning  <-- MCAuthCosigning, AuthCosigning_proofs

ResponseParser <-- TransactionResults <-- MCTransactionResults, AccountSetup_proofs
               <-- AccountSetup       <-- MCAccountSetup,       AccountSetup_proofs

TransactionFees <-- MCTransactionFees, TransactionFees_proofs
Deployments     <-- MCDeployments,     Deployments_proofs
```

Account_proofs and AccountSetup_proofs are each about two specifications, which share what
is proved of Guards and of ResponseParser; so the names of InvocationTree's and
TransactionResults' own `Init`, `Next` and `Spec` have a prefix.

One question per module: a call of the library appears in several, each time with the part
of its state that module is about.

**Guards** has the guards as pure operators. A guard is `[scope, remaining]`; `Check`,
`Update`, `CheckGuards` and `UpdateGuards` are the functions of the same names. What a
guard reads of a transaction is one number per contract, the constant `CallsIn`.

**InvocationTree** is how the code computes that number: `CountAuthorizedCalls` and
`ExtractContractCalls` over trees of invocations, with additions that panic (dev profile)
or wrap (release profile) past `Width` = 2^16. A caller presents transactions to one guard
and `Decide` is its check followed by its update. The trees come in `Levels`, each with
sub-invocations of the levels before it, so that the recursion is a function over the finite
trees and never one into itself. The reference counts *positions* in the trees as a set. It
is kept apart from Guards since nothing else depends on how a count comes about; the theorem
`GuardsCount` ties the two together.

**Account** is a set of handles, the Rust values of type Account. A signing call holds
`&mut Account` and does not await, so it is one action, with one disjunct per early return
and one for success. `Clone` copies signers and guards; `Configure` consumes its handle;
`SignTransactionUnsafe` passes the guards by. Callers keep returned envelopes in slots and
may have them co-signed. Auxiliary variables record what the program forgets: `book` (what
was authorized under each guard since it was granted, inherited by clones), `drawn` (what
all copies of a guard authorized together), `collected` (who signed the envelope in a slot)
and `released` (the guarded signature the last step gave).

**ContractClient** runs tasks that call `deploy`, `invoke` and `extend_ttl`. Each task has a
clone of one account, with guards of its own and a sequence number shared through the
ledger. A step goes from one await to the next: `GetSequence` answers `build`, `Simulate`
answers `simulate_transaction` and signs, `Submit` hands the envelope over and `Poll` ends
`send_transaction`; `Sent` and `CodeExists` are what the caller does with the answer.
Simulation ends with Soroban data, with an error that is only printed, or with data that
does not decode. The network is external and modelled by the answers the code can get: a
queue, a ledger that applies one transaction per sequence number, with success or failure,
and evictions. A submission may be lost, refused, accepted, or accepted with the answer
lost; a poll may give up at any time.

**LedgerCalls** is the abstract specification of a call: it hands transactions over one
after the other, one takes effect at most once and only after it was handed over, no two
take effect at one sequence number, and a call that returns Ok has seen its last transaction
take effect. ContractClient implements it under the mapping at its end (`KeepsPromise`).

**TransactionFees** is one transaction from its builder through any number of simulations
by `simulate_transaction` (one step, or `SigningFails` before it) or `simulate_transaction_with_auth` (`Record`, then
`Enforce`), which take and return it by value. The sum of the fee is taken modulo `U64` and
narrowed by `TryFrom`, both widths parameters. An answer is an error, or has a price, data
that decodes or not, results that decode or not, and entries that somebody else must sign.

**Deployments** is the life of Contract values on several networks: `New` with configs or
without, `FromConfigs`,
`Clone`, `Deploy` then `Create` (the value is gone unless the second answers with an id),
`Invoke`, `ExtendTtl`, each with the operation it builds, and callers of TransactionBuilder
who build, sign and send with different Envs (`CreateWithBuilder`). A hash is modelled by
what is hashed: the payload of an envelope has the network in it, and so has an id.

**AccountSetup** has administrators who fill an AccountConfig and call `configure`, with a
step per await, for one account. The ledger applies the operations of a transaction in
order (`AfterEach`) and records the entry before and after each; `Parsed` finds the account
in that.

**ResponseParser** is `Parser::parse` and the getters of the response as pure operators over
results and metadata of version V3 and V4. **TransactionResults** is the network they are
applied to: transactions run before or after an upgrade from V3 to V4, succeed or fail, and
are answered with or without metadata.

**MultisigAccount** has the multisig contract as pure operators: the storage its constructor
writes, and `CheckAuth`, the loop of `__check_auth` with each of its errors.

**AuthEntries** composes it with `simulate_transaction_with_auth`. `Record` is the answer of
the recording simulation up to the next await: as many results as operations
(`HasResults`), pairing them (`ResultOf`), signing (`SignAuthEntry`), refusing entries that
lack a signature. `Enforce` is the answer of the second simulation. `Land` is the returned
transaction reaching the ledger, at any later time. `Construct` and `CloseLedger` run beside
the clients. What the host records and what it asks of an entry around `__check_auth`
(expiry, nonce) is external.

**AuthCosigning** is `sign_auth_entry` called on its own: places hold the entries of one
recorded call, sign single entries with the key ring, expiry and network of their choice,
and pass some or all of them on; what one place has is sent at some point. Public keys are
numbers, since signatures are sorted by them.

**ClientMacro** is the client macro and the argument conversions as pure operators: `HasStruct`
and `MethodsOf` are what the macro finds in a source file, `MethodOf` and `Generated` make the
methods of the client, `Compiles` says whether there is a program at all; `ToScVal` and `TooLong` are the
conversions and which of them fail.

**Programs** has the six programs of the repository as sequences of library calls, two runs
at once, with the same private key or another. A transaction is signed in one step and
answered in another, so that runs with one key compete for its sequence number. The client
a program uses is the one ClientMacro generates from a source, and where the program calls
`send(alice, bob)` the model calls any method with any arguments; converting those may fail
or panic before anything is signed. The contract on the ledger answers to the public
functions of the same source.

Faults, definitions marked so in the modules, are plausible bugs next to the definition
they alter; no specification uses them. Each property is known to fail under one of them.

## 3. What is checked

| run | question | instance | size |
|---|---|---|---|
| `accounts` | `TypeOK`, `BudgetConserved`, `DrawBoundedByCopies`, `SignaturesCollected`, `DebitAllOrNone` | 2 handles with 0, 1 or 3 signers, 2 guards each, budgets to 2, transactions costing 0 and 2 calls, 2 signatures per envelope, an envelope of another kind | 1.27 M states |
| `invocation_tree` | `CountMatchesPositions`, `EveryNodePaid` | trees of depth 2 and width 2, 2 operations of 2 entries, 3-bit counters, 7, 8 and 14 calls, both profiles | 91 k |
| `client_calls` | `TypeOK`, `CreateFollowsUpload`, `ConfigsNameAContract`, `LedgerWithinBudget`, `OneWinnerPerSequence`, `KeepsPromise`, `CallsReturn` | 2 tasks, one of which calls twice, a budget of 2 transactions | 287 k |
| `transaction_fees` | `FeeIsOfLatestAnswer`, `ResourcesArePaid` | 2 operations of 3 tried, 3 answers, 5 prices, a u32 of 5 bits and a u64 of 8 | 1.57 M |
| `deployments` | `NoEffectElsewhere`, `DeployedIsAsConfigured`, `PredictedIdsComeTrue` | 2 networks, 1 account, 2 Contract values, a contract with and one without constructor, 4 transactions | 1.95 M |
| `account_setup` | `TypeOK`, `ConfigAppliedToWhatWasRead`, `EntryIsOwn`, `EnvelopePaysForOperations` | 2 administrators, configurations of up to 2 signers and thresholds | 1.45 M |
| `transaction_results` | `ResultsTypeOK`, `ParserFindsReturn`, `UpgradeChangesNoResult`, `DecodersAgree` | 2 transactions before, after or around the upgrade, 2 contracts, 2 values | 96 k |
| `auth_entries` | `TypeOK`, `EffectsAreApproved`, `ReturnedStaysGood`, `ReturnedIsComplete`, `EnoughSignersPass` | 2 clients, 1 call each, 3 ledgers, 2 nonces, 5 signer lists, 4 storages, transactions of 1 to 3 operations | 112 k |
| `auth_cosigning` | `SignedOverItself`, `SignedForItsAccount`, `AuthorizedInOneCall` | 2 places, 2 accounts (2 of 2, 1 of 2) and the source, 4 key rings, 2 networks, 2 ledgers, 3 calls | 221 k |
| `programs` | `TypeOK`, `BudgetsFit`, `DeploysItsOwn`, `EachStepTookEffect` | 2 runs of any of the 6 programs with 1 or 2 keys, 6 shapes of sources, 4 values to pass | 215 k |
| `simulation_errors`, `authorized_invoke` | `SimulationErrorsStop`, `AuthorizedInvokeIsSigned` fail | 2 tasks, 1 call each | |

Why the bounds are enough.

* *Accounts.* Two handles are an original and a clone, and clones of clones behave like
  clones; two guards show all-or-none. A budget of 1 is below the cost of two calls and one
  of 2 is equal to it; a cost of 0 is refused by a contract's guard and 1 by the other kind.
  An envelope for two signatures is filled exactly, by two accounts, by an account and a
  stranger, by one account twice, and overfilled. `MCView` leaves out the result of the last
  call, which nothing reads. Three-bit counters overflow once and twice within the trees given.
* *Calls.* A task fails and calls again while the other runs: each can race the other at
  every await for a sequence number, deploy while the other deploys, run out of budget half
  way through a deployment, and find its timed-out transaction applied.
* *Fees.* The prices lie just below, at and above what fits the narrow width with one or two
  operations, with and without the buffer; the largest is the most an i64 has. No sum of the
  code reaches the width of u64 with such prices, in the run or in the program: the model has
  the width, and `FeeIsExact` that it is never passed. Three answers are an ordinary
  simulation followed by the two of the other path, or one that succeeds and two that fail.
* *Deployments.* Four transactions are two deployments, or one with an invocation and an
  extension after it; two networks let each be the wrong one. The ids a caller gives to `new`
  and `from_configs` are those of contracts on either network and those computed in advance,
  of which some never come to exist; for the library an id that is simply wrong is like
  these. One account is enough for transactions to race for its sequence number; that an id
  depends on the account too is left to the theorems, which are for any number.
* *Account set-up.* Configurations list a key twice, add and remove the same signer, or
  remove the other administrator's; each administrator configures once, since `configure`
  consumes the account.
* *Authorization.* In `auth_entries` the signer lists have both signers, one, one twice,
  none, and one unknown; the storages have thresholds 0, 1 and 2 and a signer listed twice;
  the two clients may draw the same nonce; the expiries 1 and 2 pass before, between and
  after the steps of a call. In `auth_cosigning` two single key rings would together meet
  the threshold of two, one is in descending order and one has a key twice.
* *Programs.* Two runs with one key collide at each of their transactions, two with a key
  each must not. The sources are the fixture of the repository, one with two impl blocks and
  a second struct, one with a private function, one whose functions do without an env, and
  two the macro or the compiler refuses; the values are one that stays as it is, a Duration
  between two seconds, and a String that just fits and one that does not.

Reaching the last call, handle or transaction ends a behaviour; deadlock is not checked
there.

Fairness: `client_calls` runs under `FairSpec`, which assumes `WF` of each task's `Answer`,
that is, every await ends. The RPC client's requests time out and its poll has a time
limit, so the runtime gives this. Nothing is assumed of the network: transactions may stay
queued for ever.

The failing runs are two disagreements between the documentation and the code, quoted in
`PROJECT.json`:

* a failed simulation is only printed, although an error is documented;
* an `AuthorizedCallsFor` guard refuses every call `Contract::invoke` makes, since the
  operation carries no authorization entry to count.

Others were met while modelling. The models do what the code does there; no run is about
them:

* copies of a guard each have the whole budget (guard.rs:24); `DrawBoundedByCopies` says
  what holds instead;
* `sign_transaction` accepts an account without signers, which the other signing calls
  refuse (account.rs:535, 667-671);
* a transaction simulated again, with an error or with data that does not decode, has the fee
  of the second answer and the resources of the first (transaction.rs:302, 329);
  `ResourcesArePaid` says that there is no other way it can fall short of its resources;
* when results do not decode, nobody looks for the signatures of others
  (transaction.rs:315);
* the getters call V4 metadata "not a Soroban transaction", the parser reads it
  (response.rs:43, parser.rs:142);
* `extend_ttl` sends an operation in which nothing names the contract (contract.rs:358);
* the client macro makes methods of private functions, although documented for public ones
  (lib.rs:49, 63), drops the first argument of a function whether it is the env or not, takes
  the client's name from the last struct of the file, and generates no return type where the
  contract has none (soroban-rs-macros lib.rs:106, 109, 136, 163); `EachStepTookEffect` has
  that the contract then refuses the call;
* `into_val` panics for a String that does not fit, where `try_into_val` returns an error, and
  either keeps the whole seconds only of a Duration (scval.rs:81-139);
* a failed file operation is an `InvalidArgument`, never a `FileReadError` (error.rs:86).

## 4. What is proved

Checked by `tlapm`, for all values of the constants that the named assumptions allow. A
theorem about a property `P` is `Spec => []P`, or `Spec => P` for action properties and the
refinement.

| module | theorem | property |
|---|---|---|
| `Account_proofs` | `CheckedGuardsPay` | a guard list that `CheckGuards` passes pays in every guard |
| | `TypeCorrect`, `BudgetIsConserved`, `DrawIsBoundedByCopies`, `SignaturesAreCollected`, `DebitIsAllOrNone` | `TypeOK`, `BudgetConserved`, `DrawBoundedByCopies`, `SignaturesCollected`, `DebitAllOrNone` |
| | `CountsMatch`, `NodesArePaid` | `CountMatchesPositions`, `EveryNodePaid` |
| | `CountsAreU16` | a count is a u16 or a panic |
| | `GuardsCount` | a guard that counts in trees decides and pays as Guards has it do with the count |
| `ContractClient_proofs` | `TypeCorrect`, `CreatesFollowUploads`, `ConfigsAreDeployed`, `SigningIsPaid`, `OneWinner`, `PromiseIsKept` | `TypeOK`, `CreateFollowsUpload`, `ConfigsNameAContract`, `LedgerWithinBudget`, `OneWinnerPerSequence`, `KeepsPromise` |
| `TransactionFees_proofs` | `TypeCorrect`, `FeeIsExact`, `FeePaysForResources` | `TypeOK`, `FeeIsOfLatestAnswer`, `ResourcesArePaid` |
| `Deployments_proofs` | `TypeCorrect`, `EffectsStayHome`, `DeployKeepsItsWord`, `PredictionsAreRight` | `TypeOK`, `NoEffectElsewhere`, `DeployedIsAsConfigured`, `PredictedIdsComeTrue` |
| `AuthEntries_proofs` | `TypeCorrect`, `OnlyApprovedTakesEffect`, `ReturnedStays`, `ReturnedComplete`, `EnoughSignersSuffice` | `TypeOK`, `EffectsAreApproved`, `ReturnedStaysGood`, `ReturnedIsComplete`, `EnoughSignersPass` |
| `AuthCosigning_proofs` | `TypeCorrect`, `SignaturesMatch`, `OneCallSigns`, `OneCallAuthorizes` | `TypeOK`, `SignedOverItself`, `SignedForItsAccount`, `AuthorizedInOneCall` |
| `AccountSetup_proofs` | `TypeCorrect`, `ConfigurationIsOfRead`, `EntriesAreOwn`, `EnvelopesPay` | `TypeOK`, `ConfigAppliedToWhatWasRead`, `EntryIsOwn`, `EnvelopePaysForOperations` |
| | `ResultsTypeCorrect`, `ParserFinds`, `UpgradeIsUnseen`, `DecodersAgreeAlways` | `ResultsTypeOK`, `ParserFindsReturn`, `UpgradeChangesNoResult`, `DecodersAgree` |
| | `VersionsParseAlike` | metadata of V3 and V4 with the same content parse to the same |
| | `GettersAgree` | a value the getters find in a successful response is the one the parser finds |
| `Programs_proofs` | `TypeCorrect`, `BudgetsAreExact`, `EachRunOwnsItsContract`, `RunsGoOnFromEffects` | `TypeOK`, `BudgetsFit`, `DeploysItsOwn`, `EachStepTookEffect` |

The type invariants of TransactionFees, Deployments and AuthCosigning are proved and not run
as well; the proofs of their other theorems rest on them.

What the loop of `__check_auth` establishes is the lemma `CheckAuthPasses`; the two proof
modules that lean on it both have it, with its proof.

Assumptions, each named in its module and evaluated by TLC in the module's runs:
`GuardsAssumption` (the special scope is no contract; the counts of `extract_contract_calls`
fit the counter, as u16 makes them), `AccountAssumption` (types of the parameters; received
envelopes are within the limit, as their type makes them; SetOptions transactions carry no
contract calls), `TreeAssumption` (the counter has at least one bit; an invocation has its
sub-invocations in the levels before its own, as a value of Rust does), `ClientAssumption` (types; the special scope is no contract id; no configs
look like their absence), `ResultsAssumption` (what a host function returns, a result and
the part of the metadata about Soroban are not `None`, their absence), `FeesAssumption` (the base fee is positive and within the narrow
width; prices and full fees are at most half the wide one, as prices are i64), `DeploymentsAssumption`
(a contract with a constructor mentions it; the placeholder is no value), `AuthAssumption`
and `CosigningAssumption` (the credentials of the source differ from the smart accounts';
storages and key rings are well typed; neither a storage nor a list of signatures looks like
the absence of one; types of the requests and of what a call needs), `AccountSetupAssumption`
(types; there are the weights 0 and 1; a signer is not its own absence) and
`ProgramsAssumption` (types; the counter holds the budgets the programs write down; a run is
not the id of the contract the repository names; a function with an env has it as a parameter).

Some facts need induction: what the counter of a loop, the fold of a list or the sum of a
set is. The induction theorems of the library take an operator as a parameter, which the
installed provers cannot instantiate; but a statement about the numbers up to `N`, or about
the subsets of a finite set, can be proved by contradiction from the least of them that fails
it (`WFMin` of the library). This is how the sums of `DrawBoundedByCopies`, the entries of
`ReturnedIsComplete`, the operations of a configuration and the counts of InvocationTree are
proved. That a recursive function exists is shown by giving it, or by building it up level by
level (`PositionsExist`).

Argument for Account. The invariant is `IInv`: `TypeOK`, `BudgetConserved`, `SignaturesCollected` and
`FreeHasNoGuards`. The last is needed because constructors leave `guards` and `book` alone:
that a new handle starts with no guard is a fact about handles not yet created. The one
arithmetic fact is about Guards: `Update` takes nothing when the budget lacks the cost,
so conservation of what was *authorized* needs that a guarded signature comes only after
`CheckGuards`, under which `Update` takes the cost exactly. Every guarded success goes
through `Release`, so one lemma serves `SignTransaction`, `SignTransactionEnvelope` and
`Configure`; every refusal goes through `Fail`. `DebitAllOrNone` follows step by step from
`TypeOK`. `DrawBoundedByCopies` adds up what all copies of a guard have left. The proof counts
instead of adding (`LeftUnits`): a copy with budget `n` is `n` pairs of the copy and a number
up to `n`, so that a sum is a cardinality, and a step changes it by that of one set of pairs.
`CopiesInv` adds that finitely many handles were created, that whatever was drawn is booked
under the handle the guard was added to, and that a budget never exceeds its grant. A clone then adds one
copy and at most one grant, a signature moves its cost from one copy to `drawn`.

Argument for InvocationTree. `PlusWraps` is the arithmetic: with `Wrapped(n)` for what is
left of `n` in u16, `n` itself, a panic or a remainder, u16 addition takes `Wrapped(a)` and
`Wrapped(b)` to `Wrapped(a + b)`. `TotalCounts` carries that through a loop, where the
addends are what is left of the sizes of sets that have nothing in common. The positions of
an invocation are its own and, behind each index, those of a sub-invocation, which have
nothing in common (`BranchesApart`). So `Wrapped` of the number of positions solves the
equation of `CountAuthorizedCalls` (`CountSolved`), and nothing else does: at the lowest level
where another solution differed, the sub-invocations would agree (`CountIs`). `ExtractIs`
does the same for entries and operations. `EveryNodePaid` is then inductive with the types
(`TreeInv`): a budget pays `n` or `n % Width` for `n` nodes (`PaysWhatIsLeft`). Account takes the
counts as given, within u16: `CountsAreU16` says that they are, and `GuardsCount` that a step
of the guard of the trees is `Check` and `Update` on the count.

Argument for ContractClient. No property is inductive on its own. `Phase(t)` says what the
transaction of a task has been through at each await (that it is signed when it is being
submitted, that the code is there when it creates, that it was applied with success when its
call returned Ok); `Network` says that what is queued was signed and that the ledger applied
one transaction per sequence number, none beyond its counter; `Budget` counts the signatures
an account gave against what its guards paid, which needs that the set of signatures is
finite and that guards keep their scope. `ConfigsNameAContract` leans on `Network`: a
creation that was applied has left its contract. `OneWinner` follows from `Phase` (both
transactions are applied) and `Network` (then they are one). For the refinement each action
maps to one step of LedgerCalls or to a stutter: `Submit` to handing over, the ledger's
steps to taking effect, `Poll` and `CodeExists` to returning or going on, everything before
the submission to a stutter or a return with an error.

Argument for TransactionFees. `SumIsExact`: the u64 sums never wrap, because a price is an
i64 and so at most half of the width. Then either the narrowing refuses or the fee is
exact. The invariant adds `Phases`: a simulated transaction exists and was answered.
`ResourcesArePaid` is kept by each kind of step in its own way: a new answer with data replaces
the resources and the fee together, one without replaces the fee alone and is the answer the
property names, and a failure leaves both (`ResourcesStay`).

Argument for Deployments. The invariant has the properties themselves and: ids on a ledger
are those of the ledger's own network and preimage, with a TTL (`Networks`); values have
configs on a network when deployed (`Values`); a payload is that of the network signed for
(`SignedAsSaid`); predicted ids are what the ledger would give (`Computed`). `PredictionsAreRight`
is then that ids are injective in network and preimage.

Argument for AuthEntries. `EffectsAreApproved` is not inductive: that an accepted entry was
approved needs that the signatures it carries were given (`EntriesAreSigned`), and a change
of the storage needs that nothing took effect before (`NoEffectBefore`). `DistinctKeysCount`
turns "no key seen twice" into a bijection, so that as many signatures are as many signers.
`ReturnedStaysGood` follows from `ReturnedIsVerified`: the enforcing pass verified each entry,
and neither storage, once written, nor a payload changes afterwards. `EnoughSignersSuffice`
goes the other way: `EntriesAreMade`, that an entry with a signature is one `SignAuthEntry`
made for its signers, and then each of the errors of `__check_auth` is excluded in turn.
`ReturnedIsComplete` is about pairing: results are answered for the operations that invoke,
in order, and handed out to all operations with a running index. `Complete` says that every
operation has what its own call asked for; it follows from where the k-th invoking operation
is and that the index of an operation is the number of those before it.

Argument for AuthCosigning. Every signature is `Genuine`: made by one recorded call for the
entry's account, over its nonce and the expiry it now has, because a later call replaces
expiry and signatures together. `SortedIs`, that sorting neither loses nor adds a signer, is
proved from the definition of a permutation by the pigeonhole principle. What
`CheckAuthPasses` says of the signatures then holds of the signers of that call.

Argument for AccountSetup. Three things have to meet. `History`: the sequence number of the
account counts what was applied, so a transaction with the next number finds the account as
it was when that number was read, whoever raced for it; a refused one moves the number too.
`Recorded`: an applied transaction left the entry its operations make, and its changes hold
the entry before and after each. `Made`: the transaction of an administrator has the
operations of its configuration and the number of its reading. `ConfigurationApplies` is the
heart: applying these operations one after the other gives the account the configuration
describes, by the least operation at which the two would differ, with the weight of a key
after `n` signers being that of the last of them that names it. `ParserFindsAfter` is that the
last update of the last operation is the account after all of them. Without operations
there is nothing to find, and the parser says so.

Argument for TransactionResults. The invariant `ResultsInv` is that an answer is made from
what became of its transaction, which is final. The rest is about one response: with the
metadata there, a successful host function returns its value in either version
(`HostFunctionReturns`), and whatever a response returns is nothing, a contract's address or
data (`ReturnValueType`). Where the getters find no value, `DecodersAgree` also needs that the
operation of a transaction without a host function has no result either.

Argument for Programs. The programs are data, so the invariant says by tables where a run is:
how many transactions were signed before each instruction (`Counted`), after which one the
client and the contract exist (`Holds`), what is left of the budget, in the account or in the
client that took it over (`Budget`). The tables are proved to agree with the texts of the
programs once, and each action then moves one line. That runs do not disturb one another
is `OthersKeepPhase`: contracts are only added to the ledger, and those of a run have its salt.
`Effects` says that what a run signed and does not wait for is on the ledger, and `Kept` what a
transaction on the ledger did when it was applied: a call reached a public function of an
existing contract, and a creation left its contract.

Only model-checked: `CallsReturn`, the liveness property, and with it the fairness of the
awaits. Every other property of the passing runs is a theorem.

## 5. What is not modelled

* Cryptography and XDR: hashes are what is hashed, a signature is named by its key and what
  it covers.
* Soroban's execution and the RPC server are external: modelled by the answers the code can
  get, not by how they come about.
* The client library behind `ExternalRpcClient`, for the same reason; so Env is partly
  modelled only, with no pause between two polls.
* `send_payment`, which builds an operation nothing in the library uses; accessors, builders
  of values and `Display` of accounts; logging.
* Of ScVal, what is not a question of failing or of losing a value; `macros/mod.rs`, which
  builds lists of arguments.
* Of files, the bytes, except that `__constructor` is looked for in them.
* Of errors, their texts and the conversions between kinds. One place goes by a phrase of a
  text: Env looks for "Contract code already exists" in it (env.rs:191), which ContractClient has as
  an answer of its own kind.
* Mocks and test helpers.
* That a getter of the response does not look at whether the transaction succeeded: callers
  have responses of `send_transaction`, whose client answers failed ones with an error.

## 6. Plan

Everything planned is done: the core (Guards, Account, InvocationTree, ContractClient with
LedgerCalls, MultisigAccount, AuthEntries), then the proofs of ContractClient with its
refinement, the fee arithmetic, the decoders, `sign_auth_entry` on its own, and beyond the
first plan Deployments, AccountSetup, and ClientMacro composed with Programs; then the
invariants of AccountSetup and Programs, of AuthEntries the types and the pairing, the sums
of Account, the counts of InvocationTree and the invariants of TransactionResults.

What would add most from here:

1. A model of the errors' texts, with RPC clients other than the library's own behind the
   trait: a phrase that a text holds by chance counts as success of an upload.
2. Composing AuthEntries with ContractClient, so that authorized calls compete for sequence
   numbers as well.
