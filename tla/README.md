# GenVM executor: a TLA+ development

The executor (`src/executor`) runs one transaction of an intelligent contract. It reads the
transaction's data from a *host* over a socket, runs the contract's main WebAssembly VM and
the VMs it starts, checks the contract's nondeterministic blocks against the leader's results,
and sends the host one result: kind, data, storage changes, emissions, fees consumed, and the
first block it disagrees about. The modules here model the executor's own logic: what runs
concurrently, what is counted or charged, what crosses its boundaries and in which form, and
what must survive every way of failing. Of the guest's side, the storage library of the contract
SDK is modelled. The engine (a vendored wasmtime) and the guest runtimes are not.

## 1. Inventory

Paths are relative to `src/executor/src`.

### 1.1 Nondeterministic block queue (`rt/supervisor/mod.rs`, `wasi/genlayer_sdk.rs`, `crates/common/src/sync.rs`)

- *State.* A bounded `tokio_mpmc` channel of tasks; a `Waiter` (an atomic count of the live
  tasks plus one token of the deterministic thread, and a `Notify`); `nondet_call_disagree`,
  an atomic minimum; `encountered_error`; the leader's results, received or being recorded;
  the call counter.
- *Operations.* `run_nondet` (the leader runs the block inline and records its result, a
  validator in sync mode replays the leader's, any other submits a task);
  `submit_nondet_vm_task`; `nondet_vm_processor`, spawned once by `Supervisor::start` and a
  second time inline by `await_nondet_vms`; `await_nondet_vms` (close the channel, give the
  token up, help, wait for the other processor, report).
- *Hard.* Two consumers and a producer; an iteration left early by `continue`; one stored
  permit and one woken waiter for two processors; a countdown that must not reach zero early;
  disagreements recorded by three threads in any order.
- *Correct when* every block handed over is settled before the verdict, the verdict is the
  lowest recorded disagreement or an error, and both the submitter and `await_nondet_vms`
  always return.

### 1.2 Memory limiter (`rt/memlimiter.rs`)

- *State.* A shared `remaining_memory` and its low-water mark; in each limiter what it has
  consumed. *Operations.* `consume` (a compare-and-swap loop), `consume_mul`, `release`,
  `derived`, `memory_growing`, `table_growing`, drop.
- *Hard.* Everything happens between atomic operations of several threads; the counters are
  u32; drop gives back whatever has been counted.
- *Correct when* memory is conserved at every instant, the assert in `release_no_consumed`
  holds, the low-water mark is exact when it is read, and a request is refused only if the
  budget could not cover it.

### 1.3 Contract storage (`rt/vm/storage.rs`)

- *State.* Pages of 32 bytes overridden by this execution, a 128-entry LRU of pages read, the
  host behind them. *Operations.* `read`, `write`, `make_delta`.
- *Hard.* `read` cuts off what it knows at both ends of the range, reads the middle from the
  host in one call, then lays the known pages over it while it caches new ones, which can
  evict a page it counts on; `write` charges page by page, partial pages first.
- *Correct when* reads return the last bytes written or the host's, the cache holds only host
  bytes, each page is paid for once, and the delta says what the overrides say.

### 1.4 Fee buckets (`rt/fees.rs`, `exe/run.rs`)

- *State.* Buckets numbered by the host; for each category of effects the buckets its charges
  come from. *Operations.* `consume_initial`, and the charges of storage pages, messages (fee
  and receipt together), events and nondet outputs.
- *Hard.* Categories, and entries of one category, may name the same bucket, so that each of
  two charges fits while both do not; `consume_initial` can fail half way and the host is
  still told what was consumed.
- *Correct when* no bucket is overdrawn, consumed and remaining add up, and a charge is
  refused only when some bucket is short.

### 1.5 VM tree and effects (`wasi/genlayer_sdk.rs`, `lib.rs`, `rt/mod.rs`)

- *State.* For each VM its permissions, its determinism, its copy of the storage overrides and
  its `VMDataAccumulator`: emissions, value promised, budgets of the message allocation nodes.
- *Operations.* `EthSend`, `PostMessage`, `DeployContract`, `EmitEvent`, `storage_write`,
  `CallContract`, `sandbox`, `run_nondet`, and the end of each VM.
- *Hard.* A sandbox takes its parent's accumulator and must hand it back however it ends, at
  any depth; a called contract gets one of its own that must come back empty; permissions are
  computed anew at each start; value and budgets are checked against accumulators that move.
- *Correct when* what was charged is what will be reported, value promised never exceeds the
  balance, node budgets hold, called contracts have no effects, permissions only shrink.

### 1.6 Virtual file system (`wasi/vfs.rs`, `wasi/preview1.rs`)

- *State.* Open descriptors, a stack of numbers to reuse, the largest number given; a file
  that came from `gl_call` is charged to the VM's limiter until it is closed.
- *Operations.* `place_content`, `path_open`, `fd_close`, `fd_read`, `fd_seek`, `fd_pread`.
- *Hard.* A failure after a number or memory was taken; unsigned positions; a limiter shared
  with other VMs; directories opened relative to directories.
- *Correct when* numbers handed out are vacant, memory charged is memory held, positions stay
  in files, and an open descriptor stays what it was.

### 1.7 Runner resolution (`rt/supervisor/actions.rs`, `runners/*`)

- *State.* The registry of custom runners, contributed by contracts at run time; the cache of
  archives, a `OnceCell` per id; for each VM the scope of custom runners it may name
  (`accumulator.custom_runners`), the walk over init actions with its visited set, and what its
  limiter has paid.
- *Operations.* `load_runner`, `get_arch` and `get_or_create`; `Ctx::apply`; the calls
  `RegisterRunner` and `MapFile`; the starts and ends of sub-VMs, which copy, hand over or drop
  scopes.
- *Hard.* VMs of the deterministic thread and of the processors meet in one cell, one of them
  filling it and possibly failing; an archive is charged in one place to who creates it and in
  another to who finds it; scopes move with accumulators; runners depend on each other.
- *Correct when* a scope holds only runners registered in it or in one it inherited from, and
  these are in the registry; each VM pays for each archive it is given; loading ends.

### 1.8 A run and the host protocol (`exe/run.rs`, `lib.rs`, `host/mod.rs`)

- *State.* A connection per host, with a lock; which method goes to which; the slots that are
  locked; the balance cache; the results of the main VM and of the blocks.
- *Operations.* `create_supervisor` (upgraders and locked slots are read), the eight methods of
  the protocol, `run_with` (merge the result with the verdict, notify a disagreement, send the
  result, say that the run is finished).
- *Hard.* Requests carry no number: an answer belongs to whoever holds the lock. Two methods are
  not answered at all, and nothing orders two connections. Either part of a run may fail, and any
  connection may close at any point, with its lock held.
- *Correct when* everyone reads the answer to its own question, a run that met an internal error
  is not reported as a success, the report names the lowest disagreement and all that was
  consumed, is sent once and before the end is announced, and the process always ends.

### 1.9 Module calls (`modules.rs`, `wasi/genlayer_sdk.rs`)

- *State.* A connection per module, opened by the first request; a mutex; the fuel that the host
  has and the consumption counted so far. *Operations.* `WebRender`, `WebRequest`, `ExecPrompt`,
  `ExecPromptTemplate`, `close`.
- *Hard.* The blocks of two processors share a connection, and a block takes a host's lock, a
  module's and a host's again; a module that dies with a request in its hands.
- *Correct when* answers go to who asked, nobody waits for ever, and a prompt is offered the fuel
  that earlier ones left.

### 1.10 Calldata and the contract ABI (`crates/calldata`, `crates/calldata-derive`, `crates/sdk-rs/src/abi`, `host/mod.rs`)

- *State.* None; pure functions between values, typed objects and bytes. *Operations.* `encode`,
  `decode`, `Decode` and `Encode` of each built-in type and of what the derive macros make for
  structs and for enums of every representation, from bytes or from a value in memory; the types
  of `gl_call`'s requests, a VM's stdin, the execution data and the report; `contract_main`.
- *Hard.* Hashes of bytes are compared, so a value must have one wire form; lengths and numbers
  in LEB128 have several; one type is read by two implementations of one interface; a message is
  accepted at one depth of nesting and reported at another.
- *Correct when* `decode` accepts only what `encode` writes, both ways of reading agree, nothing
  on a wire is dropped unseen, and what was accepted can be reported.

### 1.11 Guest storage (`crates/sdk-rs/src/storage`)

- *State.* Bytes of contract storage, by slot and offset. *Operations.* For `TreeMap` insert,
  remove, clear, lookups and iteration; for the other types get, set, append, pop, truncate,
  clear, set the length; the root record with the code slot.
- *Hard.* An AVL tree whose nodes live in recycled slots that keep their old bytes; several
  rotations in one removal; types packed by computed offsets, with nothing erased when a
  collection shrinks, and elements that `append_slot` returns uninitialised.
- *Correct when* the map answers as a map, its balance factors are the heights' differences, no
  slot is lost or used twice, and a contract reads what it last stored.

### 1.12 The rest — not modelled

Fee-expression evaluator, ABI encoding of the allocation tree, archive parsing, error chains and
fingerprints: pure functions, whose results are inputs of the models. Compilation cache:
immutable results behind a per-key lock. Command line and configuration: start-up parsing. The
guest runtimes and the rest of the SDK run inside the guest. The float-rewriting tool translates
modules when the runners are built. Logging and metrics are output only. Vendored crates: see the
external definitions (LRU cache, channel, `Notify`) for what is assumed of them.

### 1.13 How the parts meet

The host's execution data (1.10) sets a run up (1.8). `run_with_impl` pays the initial fees
(1.4), starts the main VM (1.5) and waits for it;
`run_with` then calls `await_nondet_vms` (1.1). VM handlers write storage (1.3), which charges
pages (1.4); they place results as files (1.6), which consume memory (1.2); they ask hosts and modules (1.8,
1.9). `run_with` then reports. Deterministic VMs
never run concurrently, because a parent waits for its child; concurrency is between the
deterministic thread and the two processors, each running a nondeterministic VM of its own.
Deterministic VMs share one memory budget, nondeterministic ones another, and those of the
second processor, which only starts when the deterministic VM has ended, a third.

## 2. Modules

| module | models | proofs |
|---|---|---|
| `NondetVerdict` | abstract: blocks are settled once, the verdict is a function of how | |
| `NondetQueue` | 1.1, one action per atomic operation; implements `NondetVerdict` | `NondetQueueProofs` |
| `MemBudget` | abstract: a budget taken and returned in single steps | |
| `MemLimiter` | 1.2, one action per atomic operation; implements `MemBudget` | `MemLimiterProofs` |
| `PageStorage` | 1.3, one action per call | `PageStorageProofs` |
| `DataLimit` | 1.4, one action per charge | in `VmEffectsProofs` |
| `VmEffects` | 1.5 on top of `DataLimit` (EXTENDS: every charge of a handler is one of its operators) | `VmEffectsProofs` |
| `Vfs` | 1.6, one action per WASI call | `VfsProofs` |
| `RunnerScope` | 1.7, one action per call, per init action and per step of a cell | `RunnerScopeProofs` |
| `HostRun` | 1.8 and 1.9, one action per request, answer and step of `run_with`; uses `NondetVerdict` for the queue | `HostRunProofs` |
| `Calldata` | 1.10: values and bytes | |
| `CalldataCodec` | 1.10: typed objects, values and bytes (EXTENDS `Calldata`) | |
| `ContractAbi` | 1.10: the types, and the main VM as a machine that makes requests (EXTENDS `CalldataCodec`) | |
| `TreeMap` | 1.11, one action per call of the map | |
| `StorageTypes` | 1.11, one action per call on a handle | |
| `SumTheorems` | nothing of the code: facts about sums over finite sets and over sequences | itself |

Each machine has an `MC` module with the values of its constants. Where parts of a module's safety
belong together a run checks their conjunction, which is the last of them in the module
(`ExactCountdown`, `CompleteVerdict`, `MemoryConserved`, `CacheAndFeesExact`, `FeesExact`,
`PromisesHold`, `DescriptorsSound`, `ScopesSound`, `TreeSound`); each module's type invariant is
part of one. Definitions named `X_Something`
that stand before a definition `X` are mutants of it: the same definition with a bug that a
change of the code could bring in. They are used by nothing else; with one in the place of `X`
the run of the property named in PROJECT.json fails.

**NondetQueue.** `det` is the deterministic thread's program counter: `run` in contract code,
`send` inside `submit_nondet_vm_task`, then the steps of `await_nondet_vms`. `proc[p]` is each
processor's: `select` at the `select!`, `parked` after it registered with the `Notify`,
`check`, `run`, `publish` in an iteration, `drop` at the end of it where the decrementer is
dropped. A `counter` that reaches zero stores the `permit` or wakes a parked processor
(`Decrement`). What a block does is a choice among `Outcomes`; what a leader recorded is an
arbitrary transcript `leaderResults` chosen in `Init`. `fate` and `failed` are histories of
what became of each call and which call's error is kept.

**MemLimiter.** `at[l]` is where limiter `l`'s thread is between two atomic operations, `seen`
what it loaded, `consumed[l]` its own counter, `blocks[l]` what it may later release
one by one. Additions wrap at `U32Max`. A thread is used by one VM, so one request is under
way per limiter. The refinement takes a consume to have happened at its successful
compare-and-swap, a refusal at the load that shows too little.

**PageStorage.** A byte is a number that says which slot position it belongs to and who wrote
it, so that a byte copied to the wrong place is seen. `ReadResult` is the two-pass algorithm
with the LRU (`LruGet`, `LruInsert` are external) and the staging buffer: `CutEnds` looks at the
known pages at both ends, `NeedFrom` and `NeedTo` are what is left for the host, `SecondPass` goes
through the pages with `ReadPass`, `PutStaged` caches what was staged. `WriteOrder` is the
order in which `write` visits pages, `WriteNext` writes one of them, and `WritePage` stops at the
first it cannot pay for. The calls are folds of a step for one page, so that proofs can follow them
page by page.

**DataLimit and VmEffects.** VMs are a `stack` of records, since a parent is suspended until
its child ends. `Push` and the `...Returns` actions are the two halves of `spawn_apply_run`
seen from the handler. What a fee expression gives is a choice in `Costs`. A deployment first
writes its code (`WriteCode`), and may fail there (`PreparationFails`): then no VM is started
and the result is `FullResult::empty_from`, without storage changes, while the pages already
written stay charged. The leader's nondet VM is a VM of the stack; a validator's is in
`NondetQueue` and has no effects.

**Vfs.** `fds` is a partial function; `free` the stack of numbers. `others` is what other
users of the shared limiter hold, and changes at any time (`Neighbours`). A descriptor's
`node` is a history of the tree node the walk ended at.

**RunnerScope.** `vms` are the VMs in the order of their start; `at` is where each is: `fetch`
waiting for the archive `want`, `walk` between two init actions with `todo` still to apply,
`mapping` and `placing` inside a `MapFile` call, `running` in guest code, `waiting` for a child,
`ended`, `gone`. `cell[id]` is the `OnceCell`: empty, being filled by a VM, or ready. `then` is
what a `With` or a `Depends` goes on with once the archive is there. `mem` is what is left for
deterministic and for nondeterministic VMs; `own` is given back when the VM is dropped, while
`MapFile` and `RegisterRunner` charge the root limiter for good. `given`, `extra` and `by` are
histories. A guest does anything it has the permission for; an archive may be of another major
version or not parse, and a file may be missing (`FetchFails`, `ApplyEnds`).

**HostRun.** `pc[a]` says where the main VM (`-1`) or block `a` is, the call it waits for and a
number it keeps: the value of the message being checked, the fuel offered, what a prompt
consumed. `Ask` takes a connection's lock and writes a request, `Answered` reads the answer and
gives the lock back: the bytes of both are messages that carry, as history, who asked. `Tell` is a
request that is not answered. Hosts and modules (external) answer in order, refuse, or close the
connection (`Failure`). The queue is `NondetVerdict`, which `NondetQueue` implements: `Submit`,
`Settle`, `Skip` and `Decide` are its steps, so that what is shown here of the report rests on
that refinement; `TakeBlock` adds that at most one block runs beside the main VM, two after it.
`seen`, `consumed`, `heard` and `crossed` are histories.

**Calldata, CalldataCodec, ContractAbi.** A value is a tagged tuple, a string the sequence of its
bytes, a map a function. A decoder gives `Ok(what it read, what is left)` or `Err(reason)`. A type
is a record whose `kind` names the impl, an object what the impl makes; `Decode` reads from a
source that is either bytes (with the number of containers open) or a value, as the code's visitor
does. Names on the wire are one byte, numbered in the order of the names, because only their order
matters; texts that are parsed (numbers in a prompt's waiting time) are a few samples.
`ContractAbi`'s machine reads a request as `gl_call` does, appends the emission, and ends with
what `contract_main` made of a return value or an error; `Report` is what `consume_result` sends.

**TreeMap, StorageTypes.** `TreeMap` is a record of the root, the pool with every node ever
written, its stored length and the free list; recursion of the code is recursion here. A storage
type is a record with its size; a handle is a slot and an offset, and a slot is the sequence of
the offsets that derived it, which takes the hash (external) to be injective. `dict` and `val` are
histories: the map, and the value, that the calls should have built. Appending to a collection
and setting its new element are two calls, as in the code, so `val` remembers what each place of a
collection last held beyond its length too: that, or zero, is what an element not set shows.

## 3. Runs

| run | what it asks | instance |
|---|---|---|
| `NondetQueue` | countdown exact, queue drained, verdict sound, leader's record without holes, refinement of `NondetVerdict`; every await and submit returns | 4 calls, channel of 2, every role and transcript; 186k states |
| `MemLimiter` | conservation, no overflow on release, exact low-water mark, refinement of `MemBudget` | 3 limiters on 5 units, symmetric; 509k states |
| `PageStorage` | reads, cache, failing writes, one fee per page, delta | 2 slots of 3 pages of 2 bytes, cache 2, staging 1, fees for 2, 2 writers; 37k states |
| `PageStorage_long` | does a read longer than cache and staging return what is stored? (violated, 5.1) | 4 pages, cache 2, staging 1 |
| `VmEffects` | charged is reported, node budgets, balance, static calls, shrinking permissions, append-only effects; accounts balance, a charge is refused only when short, and the buckets behave as `DataLimit` says | 3 VMs deep, 2 nodes, 2 pages, buckets shared by categories and by entries of one, both kinds of main permissions; 113k states |
| `Vfs` | vacant numbers, memory accounted, positions, open descriptors kept | 5 descriptors, 2 units of memory, a tree of 3 nodes; 575k states |
| `RunnerScope` | scopes registered and earned, archives paid for, loading ends | 3 VMs, one of them nondeterministic, 4 runners, memory for 6 and 4 units; 500k states |
| `RunnerScope_depends` | is a VM given only custom runners of its scope? (violated, 5.2) | 2 VMs |
| `HostRun` | answers reach who asked, balances, fuel and locked slots are right, the report is whole, sent once and before the end; the process ends | leader and validator, 2 blocks, 3 calls of the main VM, 1 of a block, one and two connections, one fault; 1.14M states |
| `Calldata` | one wire form, both readers agree, what is read is written, results can be reported, a guest hears the leader's result | all wires of up to 4 bytes out of 14; several objects of each of 8 types, those of 7 types also with any byte changed, lost or doubled; what is only written, of 3 types, read back as a value; a run with nested values; 50k states |
| `Calldata_report` | can every emission be reported? (violated, 5.3) | one emission |
| `GuestStorage` | the map's answers, balance factors and slots; reads of every type | 6 keys in any order, 3 calls on a tree of 12 keys, a value of its own for each key and a second one for two of them, 4 calls on a contract of 5 fields; 266k states |

*Why the bounds are enough.* Four calls and two slots put a task in each processor's hands
while the channel is full, which is every kind of place a task can be, twice; with one
processor stopped in an iteration, the deterministic thread meets a full channel. Three
limiters are one more than the two that race, and five units let two of the requests collide
while a third wraps. Three pages and a cache of two have a read with known pages at either end
or in the middle, and an eviction; staging of one makes both ways of caching happen. Three VMs
below the main one give a sandbox in a sandbox, a call in a sandbox and a sandbox in a call,
and one refused for its depth. Five descriptors with four preopened make MAX_FDS bind on the
second open. Two deterministic VMs and a nondeterministic one have every inheritance of a scope
and two fillers of one cell; memory of six is enough to load a contract with its library,
register a runner and load a second VM, and ends anywhere on the way when more is asked for; a
library that depends on itself makes the visited set matter. Two blocks and one main VM can each
hold one of the locks while the third waits, and blocks of a validator overlap; three calls of the
main VM are two blocks and a message or a write; one fault at any point is what the code's error
paths are about, since the run ends after it. Six keys in any order of calls have every
case of a rotation, and the tree of twelve, as unbalanced as an AVL tree may be, makes one removal rotate at
two levels. Wires of four bytes hold containers with elements of every kind, and numbers and lengths
with padding; longer ones, with several keys in and out of order, come from the types. A maximal
depth of six leaves room for the types and puts a contract's values on both sides of the limit.
No two keys of the map are given one value, so a recycled node that kept the value of the last one
in its slot would be seen, and two values for one key make updates visible. Four calls reach an
element that is set, removed, uncovered again and read as it was left.

The bounded constants are the code's own limits made small (`NONDET_BLOCKS`, channel capacity,
`VM_RECURSION`, `MAX_FDS`, `STORAGE_CACHE_SIZE`, u32 and U256 maxima). Two guards were added,
both in `RunnerScope`: `MaxVms` on the VMs started in a run and `MaxNondet` on the
nondeterministic ones, of which two at most run at once in the code. Emissions are bounded by fees,
and fees by the buckets. `HostRun`, `GuestStorage` and `Calldata` bound the number of calls
(`MainCalls`, `BlockCalls`, `Faults`, `MaxOps`, `MaxWrites`, `MAX_EMISSIONS`).

The view of `GuestStorage` takes as one the states that differ only in old bytes of nodes no
longer in the tree: the code writes every field of a slot it allocates before it reads one, and no
query looks outside the tree and the free list.

*Deadlock* is checked where the system goes on: where the program has ended there is an explicit
stuttering disjunct (`Done`, `AllDead`, `Finished`, `NotStarted`, `Stop`'s states). `GuestStorage`
and `Calldata` are calls of a library and stop at their bound; `HostRun` stops when the process
has ended, and that it stops nowhere else is `RunEnds`.

*Fairness* is assumed for `CallersReturn` (`AwaitReturns` and `SubmitReturns`), as weak fairness of each
processor, of `await_nondet_vms`, and of the rest of a `run_nondet` that has begun, and for
`LoadingEnds`, as weak fairness of the steps of a VM that is loading. tokio polls every task
that is ready, and nothing here is enabled only now and then: a parked processor that is woken
stays runnable, a free slot stays free for the only sender; a cell that one VM finds taken it
may find taken again by another, but each of these fillers ends. A nondeterministic block is
taken to end: the executor has no timeout of its own, and the manager kills the whole process
when one runs too long (`rt/supervisor/mod.rs:376`). `RunEnds` assumes weak fairness of all
steps but the faults, taken together: as long as some VM, host or module can go on, one of them
does. Nothing more is needed, because each of them makes a bounded number of steps; what it does
assume is that hosts and modules answer a request or close the connection, and the executor has
no timeout of its own for them. Guests are not fair (`DetEnds`, `GlCall`),
so `AwaitReturns` begins where the deterministic VM has ended.

## 4. Proofs

The theorems hold for every value of the constants that satisfies the `ASSUME`s of the modules:
sizes and costs are naturals, limiters are finitely many, a fee configuration names the buckets
that exist (`handle` refuses others), a page costs the same each time, the number of calls does
not exceed `U32Max`, which in the code means "no disagreement". `RunnersAssumption` takes the
actions of all `runner.json` files from a set `InitActions` that holds the actions inside its
members too; this is what a finite file gives.

An argument rarely needs the bounds of section 3: none of the theorems bounds calls, VMs, blocks
or faults other than by the constants.

- **NondetQueueProofs.** `InductiveInvariant`: `IInv`, of seven parts. `TypeOK` is not
  inductive alone: that the counter stays natural *is* the counting argument. `HoldersOK` ties
  each program counter to the task it holds, `Exclusive` says that a call has one holder,
  so that taking a task from one set of holders to another keeps the cardinality in
  `CountdownOK`; `FatesOK` says that a call still `submitted` is held by somebody, hence
  nothing is unsettled once the countdown has ended (lemma `ZeroMeansDrained`); `CellsOK` relates
  the two shared cells to the fates. From it `TypeCorrect` and
  `CountdownIsExact` (together `CountdownSoundness`), `NothingLeftBehind` and `VerdictSoundness`
  (together `NoBlockIsLost`), and `Refinement`: `Spec => NondetVerdict!Spec`, by
  a lemma per kind of abstract step. There is one lemma for each action that can disturb the
  invariant; those that only move a program counter share `MovesDetPreserves` and
  `MovesProcPreserves`. `LeaderLeavesNoHole` rests on `ResultsInv`, inductive with `IInv`: where
  the deterministic thread is says which call's result is still missing.
- **MemLimiterProofs.** `InductiveInvariant`: `TypeOK`, `Conserved` (remaining, consumed and what
  is between two atomic operations add up to the budget, a sum over all limiters),
  `ReleaseNeverOverflows`, `LowWater`, and `Fits`: a limiter's blocks and what it is giving back
  are part of what it counted. Without `Fits` a release could return what nobody took. From it
  `MemoryIsConserved`, `LowWaterSoundness`, and `BudgetRefinement`: `Spec => ImplementsBudget`,
  where a consumption takes place at the successful compare-and-swap and a refusal at the load.
- **VfsProofs.** `InductiveInvariant`: `TypeOK /\ FreeIsVacant /\ PositionInFile`. A number is
  on the stack or open or neither, and all are at most `next`; that is what makes the next
  fresh number fresh. `TypeCorrect` (with MAX_FDS), `VacantNumbers`, `PositionsInFiles`, together
  `DescriptorsAreSound`, and the action property `OpenFdsKept`. `MemoryIsAccounted` adds that the
  limiter has charged the slots of the table and the sum of the contents kept for open files;
  what a failed open loses is in it.
- **VmEffectsProofs.** `InductiveInvariant`: `FeesInv` (buckets balance), `StackInv`, `RunInv`,
  `PrepInv` (what is charged before the main VM starts) and `HolderInv`. The stack is described
  link by link (`Link`): what a VM hands over and keeps when it starts another; `Quiet` says that
  from the first VM that is no sandbox upwards there are no effects. So exactly one VM holds the
  accumulator that will be reported, however deep the sandboxes, and `HolderInv` says of that one
  that its emissions, node budgets, value and pages are what was charged. From it `FeesAreExact`
  (the running sums of `consume_bucket_raw` refuse a charge exactly when a bucket is short, also
  if entries share buckets), `ReportsWhatWasCharged`, `PromisesAreBacked`, `CallsLeaveNothing`,
  `PermissionsAreInherited`, the action property `EffectsAreKept`, and `FeesRefinement`: the tree of
  VMs implements the specification of the fee buckets.
- **RunnerScopeProofs.** The VMs form a tree, in the order of their start (`Vms`); `Owner` and
  `Lineage` climb along parents. `Registered` and `Earned` are inductive if they are said of the
  VMs that are gone too, since a child's scope may have come from one. From these `ScopesAreSound`.
  `ArchivesArePaidFor` is inductive with the shape of a VM's record: where a VM stands in a cell
  (waiting, filling, finding it ready) says whether the archive it wants is already paid for.
- **HostRunProofs.** The invariants come in layers. `Placement`: where VMs may be, together;
  `Judged`: what the blocks' fates and the verdict have to do with that. `Traffic`: for each
  connection, who holds its lock and whether the only unanswered request, or its answer, is on the
  way, or lost with the connection; notifications stand before it. A lock alone would not do:
  what makes answers reach who asked is that a connection never carries two requests that are
  answered. From these `AnswersAreNotCrossed`. Each of the others adds a part of its own:
  `Money` for `BalanceIsTheHosts`; `Notified` for `FinishedComesLast`, which ties the end of the
  main VM to what is on the wires; `Accounted` and `Reported` for `ReportsAreWhole`: as long as
  nothing has failed, what has been counted and what prompts still have to count add up to what
  modules consumed, saturated; `FuelKnown` and `Offered` for `PromptsHearWhatIsLeft`: what the host
  was told of, the notifications on the way and what is still to be told add up to what was
  consumed, because `consume_fuel` always takes the same connection, and a leader's VMs wait for
  their blocks; `Guarded` for `LockedSlotsAreKept`: while VMs run, the slots locked are those of the
  contract's storage, in order (`OrderExists`: a list can be put in order), and in a list in order
  the binary search finds every slot (`SearchFinds`, by the smallest interval that would miss one).
- **PageStorageProofs.** A call is a fold over pages. `FoldExists` shows that the recursive function
  a fold is defined by exists (`UpTo`: there is no least index where it would not), and `FoldTrace` unrolls it
  into the states after each page; what a call keeps is then shown of each of those states.
  `IInv`: the overrides are as many pages as were paid for (`Funded`), the cache holds host pages,
  each once (`CacheOK`), `StorageIsContents`. `WriteKeeps` follows a write and shows that its order
  leaves no page out; its invariant `WriteInv` also holds where the fees run out. `ReadKeeps` follows
  the second pass with `PassInv`: the bytes the host was asked for are in the buffer, staged pages
  are not cached, and the pages cut off at the ends have, in the cache, only pages of the range in
  front of them. From the last follows `Room`: when a page must be cached because the staging
  buffer is full, an entry the pass still counts on is not the oldest one, or else the range would
  have more pages than cache and staging buffer hold. Hence the condition of `ReadsThatFit`:
  `[][...]_vars` says of each read that `ReadReturnsContents` holds after it if its pages
  fit; longer reads do break it (5.1). `CacheAndFees` and `OverridesAreContents` need no such
  condition: a read that loses bytes still caches nothing wrong. `DeltaIsOverrides`
  rests on `InOrderIs` (a finite set of pages can be put in order), on `NextPage` (nothing lies
  between a page and its successor) and on `DeltaInv`: the last entry ends with the page taken last.
- **SumTheorems.** Sums over a finite set and over a sequence (`SumFunctionOnSet`, `SumFunction`):
  of a changed function, of a longer and of a shortened sequence, of two functions. The provers
  cannot apply an induction theorem; a smallest counterexample (`LeastNat`, `SmallestSet`) takes
  its place.

*Only model-checked:* liveness (`CallersReturn`, `LoadingEnds`, `RunEnds`), out of the prover's
reach; `Calldata`, `CalldataCodec`, `ContractAbi`, `TreeMap` and `StorageTypes`, whose code is
recursive over data. For reads too long for cache and staging buffer nothing is claimed beyond
what `CacheAndFees` and `OverridesAreContents` say of every step.

## 5. Where the code and its words part

1. `PageStorage_long`. A read longer than cache and staging buffer evicts a page at its end
   that it had counted as known; that page's bytes in the caller's buffer are never filled.
2. `RunnerScope_depends`. `load_runner` says that a custom runner is only resolvable in a scope
   that registered or inherited it; `With` and `Depends` go past that check, so that a
   nondeterministic VM, whose scope is empty, is given a runner of the deterministic scope.
3. `Calldata_report`. A message that `gl_call` accepts and charges is one level deeper in the
   report than in the request; nested to the limit, it makes `to_value` panic when the run is
   reported, and the host gets no result. Return values have room to spare
   (`ResultIsReportable`).
4. Three expectations of `preview1.rs` are stated in `Vfs.tla` and listed by no run; each is
   violated when it is added to `Vfs.cfg`. `NoFdLost`: `path_open`'s `inspect_err` never runs,
   since the body leaves the function by `return` and `?`, and a failed open loses a descriptor
   number and the memory charged for it. `DirFdNamesItsDirectory`: a directory opened relative to
   a directory other than the root is recorded under the parent's path twice.
   `PreadPastEndIsEmpty`: an offset past the end slices out of bounds and panics.

Seen while modelling, and not stated as properties:

- A queued block is skipped as soon as any disagreement is recorded, also one of a *later* call,
  while the log line says "in previous one" (`rt/supervisor/mod.rs:545`; the verdict is sound all
  the same).
- The first VM to load a chain runner pays for its code too, later ones only for the archive, so
  that the memory left to a VM depends on who came first; each `MapFile` call charges the root
  limiter until the end of the transaction.
- `load_modules` looks for the deterministic module twice and never for the other
  (`actions.rs:464`), which costs a recompilation.
- The fuel left is read before the module's lock is taken (`wasi/genlayer_sdk.rs:1205`): two
  blocks of a validator may be offered the same fuel. `FuelIsFresh` is therefore about leaders, and
  about a host that gets both methods on one connection: `consume_fuel` is not acknowledged, and
  over another connection it may come later than the next question.
- A disagreement that cannot be written ends `run_with` before the result is sent
  (`lib.rs:313`), and an error of `create_supervisor` ends the process with nothing sent at all,
  while one of `consume_initial` is reported.
- A module's connection that broke is not opened again (`modules.rs`); each later request is an
  internal error of its block.
- `get_self_balance` subtracts what was sent from the balance the host gives (`wasi/genlayer_sdk.rs:1516`);
  a host whose answer shrinks in the course of a run could make it underflow. `HostRun` takes the
  balance to be constant.
- The bytes of a leader's `Return` are handed to the validator's guest without being decoded
  (`wasi/genlayer_sdk.rs:1763`), unlike those of a user error.
- `contract_main` ends in `unreachable!()` when a return value is nested so deep that `gl_call`
  refuses it (`crates/sdk-rs/src/abi/entry.rs`); the VM then ends with a trap.

The models contain these behaviours; the properties of the passing runs hold with them.

## 6. Plan

Done, in order of importance: the queue and its verdict, the limiter, storage, fees, the VM
tree, files, runners and their scopes, the run with its hosts and modules, calldata and the ABI,
the guest's storage; the proofs of the queue, the limiter, the files, the fees and the VM tree,
the scopes, the run and the storage.

Left to prove: what `TreeMap` and `StorageTypes` promise, as far as it does not rest on induction
over data; the walk of the map is bounded by the height of the tree, which a fold could express.

Left to model: `map_file` in `Vfs`, which extends the tree while a VM runs; the map's
own place in a storage layout, which joins `TreeMap` and `StorageTypes`; the evaluator of fee
expressions with its U256 overflow.

## 7. What is left out of the modelled parts

- In `VmEffects`: errors of the host connection inside handlers, which end the run, and `EthCall`,
  module calls and balance reads (all in `HostRun`); U256 overflow of fee additions. The balance
  is a constant, read once and cached in the code.
- In `HostRun`: the sync role, in which no block runs (`NondetQueue` has it); deterministic
  sub-VMs, which run while their parent waits and make the same calls; the bytes of frames, and
  which page a `StorageRead` asks for; the memory a web request is refused for; a host that
  answers what was not asked.
- In `ContractAbi`: permissions, fees and balances (`VmEffects`). In `CalldataCodec`: display and
  JSON. In `StorageTypes`: a `TreeMap` inside a layout, and `set_len` of a string by itself; in `TreeMap`: the bytes of keys and values.
- `write_code` and `write_major` are writes of given ranges; `VmEffects` has their pages.
- In `Vfs`: directory listing, stat calls and the calls that only return an error; mapping
  files into the tree.
- In `RunnerScope`: what the guest does in `_initialize`, which `LinkWasm` runs in the middle of
  the walk; `LinkWasm`, `AddEnv` and `SetArgs` themselves, which touch neither scopes nor
  archives; a directory mapped by one `MapFile` is one file; the archive that a deployment puts
  into the cache beforehand; the depth limit (in `VmEffects`); the second
  processor's budget, whose VMs start when no other VM but the first processor's is left; apart
  are the memory that instances take (`MemLimiter`) and the archives.
