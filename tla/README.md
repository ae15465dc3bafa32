# A TLA+ specification of RiftGPU

RiftGPU (crates `vrb-*`) is a Rust workspace that runs compute operators on AMD GPUs through
Vulkan and HIP: it keeps model data resident on the GPU, routes operations to backends, loads
operator and backend plugins from dynamic libraries, and lets Vulkan and HIP work on the same
allocation. This directory holds its formal model: TLA+ modules translated from the source, TLC
configurations that model-check them on small instances, and TLAPS proofs of the properties that
matter most, for every value of the constants. `PROJECT.json` maps every definition to the source
lines it stands for and lists the hazards that the properties are aimed at.

    tlc -workers 2 -config MCResidencyCache.cfg MCResidencyCache    # any run of the table below
    tlapm ResidencyCacheProofs.tla                                  # any *Proofs module

Paths below are relative to `src/`. Where code differs by platform the Windows build is modelled:
elsewhere the HIP plugin, the Vulkan session and the bridge return "unavailable".

## 1. Inventory

### Components that keep state

| component | state | operations | hard behaviour | what makes it correct |
|---|---|---|---|---|
| `vrb-residency` `ResidencyCache` | one mutex around entries (key -> allocation, last touch), `resident_bytes`, LRU clock, counters | `acquire`, `invalidate`, `clear`, `stats` | the mutex is held across eviction and `provider.open`, which may fail, return a different spec or panic; callers keep evicted allocations alive by `Arc`; the clock wraps | byte count exact, capacity respected, every lease serves exactly what was asked for, eviction always finds a victim and takes the oldest |
| `vrb-kv-cache` `KvCache` | entries (sequence, layer) -> blocks, bytes, last touch | `append`, `view`, `remove`, `clear` | `append` checks, then evicts in a loop, then relies on the checks | runs are contiguous from token 0, an accepted append cannot fail halfway |
| `vrb-shared-operator-loader` | per load: the callbacks behind a mutex, the library; `Arc`s of it in operators, registries, callers | `load_with_policy`, `register_into`, `execute_shared`, `Drop` | the last `Arc` may be dropped by any thread; `Drop` calls `shutdown`, and skips it when the mutex is poisoned | code is loaded while it runs, `shutdown` runs once and last |
| `vrb-operator-loader` | the same | the same, with two callbacks (`output_size`, `execute`) and an allocation in one critical section | a panic in between poisons the mutex | both callbacks see one plugin state; a panic is final |
| `vrb-backends` `plugin.rs` | the same, one `Arc` per backend | `load`, `probe`, `execute_raw`, `Drop` | as above | as above |
| `vrb-hip-shared-gemm-plugin` | static `RUNTIME_STATE`: the HIP and rocBLAS libraries and a handle per device; per thread HIP's current device | `execute`, `shutdown`, `query_operator` | every driver call may fail; handles are shared by threads, the current device is not | an answered GEMM has finished, its regions are mapped until then, handles do not leak |
| `vrb-vulkan-shared-buffer` | a session: Vulkan context, buffers, their queue-family ownership | `with_buffers` | partial failure of the release and reclaim loops; the operation may panic; a failed queue wait leaves a submission pending | the operation sees only buffers it owns; `Ok` means final data; every reclaim is attempted |
| `vrb-backends` `interop.rs` | static `BRIDGE_RUNTIME`, made by the first call and kept; locals of the call | `run_zero_copy`, `run_copy_fallback` | failure at each of about twenty driver calls; unwinding order; queued memsets; recycled memory | one side at a time owns the shared allocation; a report is about bytes this call wrote |
| `vrb-autotune` `AutotuneDatabase` | records in memory; a file, and a temporary file named after the process | `record`, `lookup`, `performance_table_for`, `load`, `save` | `save` is write, rename, and on failure remove and rename again; processes race, crash and fail in between | a reader never sees a partly written file; a stored database is not lost |
| `vrb-core` | `PerformanceTable`, `BackendRegistry`, `Runtime` (immutable once built) | `RuntimeBuilder`, `select`, `route`, `probes` | `route` probes one backend after the other while devices come and go | the answer was there, and nothing faster was there all the time |
| `vrb-execution-plan` | none | `plan` | dynamic programme over a chain with transition costs | the plan costs least and adds up |
| `vrb-shared-operators`, `vrb-operators` | registry: operators by kind, in registration order | `register`, `select`, `execute`, drop | preference falls back to order; the invocation's own handles count as well as the request's | first compatible |

### Components without state

| component | operations | hard behaviour | what makes it correct |
|---|---|---|---|
| `vrb-gemm-shared-protocol` | control messages encoded and decoded; the lengths that the regions must have | checks in four crates, in u64 and as i32, must fit together | exactly the well-formed calls reach rocBLAS |
| `vrb-gemm-protocol`, `vrb-gemm-reference` and its plugin | requests and responses; limits; the loops | products beyond u64; two callbacks read one message apart | every GEMM is served exactly or refused for the right reason |
| `vrb-attention-protocol`, `vrb-attention-reference` | validation; the loops over heads, queries and keys | unchecked indices from a control that another crate checked | only the right vectors are read and written |
| loading of a plugin | `validate_plugin_descriptor`, `validate_capabilities`, the conversions of tags and bits | a plugin's claims about itself | nothing is selected on an incoherent claim |

The ABI crates (`vrb-plugin-api`, `vrb-operator-plugin-api`, `vrb-shared-operator-plugin-api`)
declare `repr(C)` types; `cpu.rs`, `hip.rs` and `vulkan.rs` of `vrb-backends` query drivers;
`vrb-cli` parses and prints; three `vrb-test-*` crates are fixtures.

### How they interact

    caller --acquire/lease--> ResidencyCache --open--> provider (external)
    caller --execute--> SharedOperatorRegistry --Arc--> loaded plugin --callback, under the host's
                        mutex--> HIP GEMM plugin --under RUNTIME_STATE--> HIP, rocBLAS
    caller --with_buffers--> Vulkan session --operation(handles)--> a shared operator
    benchmark --record/save--> AutotuneDatabase --performance_table_for--> router, planner
    caller --run_zero_copy--> bridge runtime --> Vulkan and HIP

Shared state is the two statics, the mutex of each load or cache, `Arc`s, HIP's per-thread current
device, and the tuning file. Callbacks run under the caller's mutex; nothing is asynchronous but
the device queues.

## 2. Modules

State and actions keep the names of the code. A "History" group of variables in a module records
what happened for the properties to compare with; no guard reads it. A comment `Mutant:` marks a
definition that no specification uses: a plausible bug, which the property named for it in
`PROJECT.json` must catch.

**ResidencyCache** (`vrb-residency`). `acquire` is `AcquireHit`, or `AcquireMiss` (the lookup that
removes a stale entry), one `EvictOne` per turn of the eviction loop, and `OpenReturns`,
`OpenFails` or `OpenPanics`; the mutex is `owner`. `invalidate` and `clear` are one action each,
`DropLease` is a caller's. `heap` is the memory behind the `Arc`s: an allocation dies when neither
an entry nor a lease names it, which is what `Arc` does and not a property of the cache. The clock
wraps to 1 at `U64Max`, the counters saturate there.

**SequenceStore** is the abstract KV store: runs that start at token 0, grow at the end and are lost
only as a whole. **KvCache** (`vrb-kv-cache`) is the code: `AcceptAppend` (all checks), `EvictOne`
per eviction, `Push`; `View`, `Remove`, `Clear`. The type takes `&mut self`, so calls do not
interleave; the steps of one are separate so that what the checks established is seen to hold until
`Push` uses it. `ImplementsStore` is the refinement, `held` being `blocks`.

**SharedOperatorHost** (`vrb-shared-operator-loader`). A load is `unused`, `loading`, `live`,
`shutting`, `closed` or `failed`; `refs[l]` says who holds an `Arc` of its state (the library value,
a registry, threads). A call borrows the reference it goes through, so it is not dropped meanwhile.
`DropReference` of the last one runs `Drop`: shutdown under the mutex, then the library goes.

**BytePluginHost** (`vrb-operator-loader`, `plugin.rs`) takes the lifetime from SharedOperatorHost
and has calls of its own, which lock first: `Enter`, `SizeRefused` or `SizeAnswered`,
`OutputPanics` or `OutputAllocated`, `CallReturns`; a backend plugin's call is `Enter` and
`CallReturns`. `memory` is what a plugin keeps between callbacks.

**GemmProtocol** and **AttentionProtocol** are the messages of the host-byte operators, records of
their header's fields; **GemmReference** is the CPU oracle, its plugin's `output_size` and `execute`,
and the host's `execute_plugin` and registry around them; **AttentionReference** is the places that
the loops of the attention oracle read and write. **CpuReferences** puts both beside BytePluginHost:
`AskGemm` encodes a caller's matrices, damages the message or not, and has the operator that the
registry finds answer it; `AskAttention` passes a caller's tensors, which may be an element short.
The oracles have no state, so they are asked while no plugin is loaded, which is asking at any time.

**HipSharedGemm** (`vrb-hip-shared-gemm-plugin`). One action per driver call of `execute`, with a
failing twin: `LockRuntime`, `SelectHandle`, `ImportRegion` three times, `Launch`, `Synchronize`,
`WriteReceipt`, `Return`; `Shutdown`; `Finish` is the device's. `Leave` is what Rust does when the
closure ends: regions are unmapped and the guard dropped.

**Checked** is `checked_add` and `checked_mul` at a small width; `None` is the error that every `?`
makes of an overflow, the constant that **Option** declares. **SharedGemmProtocol** is the control
message, a record of its fields. **SharedPluginDescriptor** is the loader's validation of what a
plugin says of itself, and the conversion into capabilities. **SharedOperators** is
`vrb-shared-operators`: the validation of an invocation, the selection, and the registry
(`registered`), whose operators go one by one.

**SharedGemmSystem** composes these with SharedOperatorHost and HipSharedGemm. It extends the
latter, whose `Spec` it implements; its own specification is `SystemSpec`. There are several loads
of one library image over its one static runtime, a registry that holds their operators and the
application's own, and calls that carry a message and regions. `CallRegistry` selects; `Prepare` is
the host's own checks; `EnterPlugin` takes the mutex and hands the plugin the verdict of its checks
(`Verdict`); then the thread takes the plugin's steps, and returning from the plugin returns from
the callback. The plugin's `shutdown` is the host's shutdown callback; `dropper` is the thread
inside the registry's drop. `call` is what a thread asked for, with a count of launches.

**SharedBufferSession** (`vrb-vulkan-shared-buffer`). `stage` and `next` are the loop `with_buffers`
is in and where; each driver call succeeds or fails; `pending` are submissions that the queue has
not executed, which after a failed wait may happen late or never. `OperationPanics` unwinds.

**BridgeRuntime** (`interop.rs`). A call is a script: a sequence of driver calls, each of which
obtains something, moves bytes, hands ownership over or waits. `held` are the locals in creation
order, dropped in reverse by `?` and at the end. Memsets are queued on the thread's current device.

**Routing** (`vrb-core`) and **ExecutionPlan** (`vrb-execution-plan`) are operators without state;
`Layers` is a recursive function. **BackendRuntime** is the `Runtime`: the builder and its duplicate
ids (`AddBackend`), and a `route` of which each probe (`ProbeNext`) is a step between which devices
come and go; a probe may also answer an error. **AutotuneStore** (`vrb-autotune`) has one action per
system call of `save`, each of which may fail, and `Crash`. **TunedPlanning** composes the four:
`Decide` projects the decider's database onto a performance table, plans a chain and routes its
requests; `StartRuntime` gives a runtime that table, or none.

The `MC*` modules give constants their values; each `*Proofs` module extends the module it is about.

## 3. Runs

| run | instance | shows |
|---|---|---|
| `residency` | 3 keys, two of them with specs of different size or generation, sizes 0 to 4, a negative device; 2 threads, capacity 3, `U64Max` 4 | exact bytes, capacity, a victim when one is needed, leases that serve the request, counters that balance, LRU order until the clock wraps |
| `kv_cache` | 2 layers of one sequence and 1 of another, blocks of 1 or 2 tokens, invalid ones, ones that end at `U64Max` or would end beyond it, capacity 4, `U64Max` 5 | exact bytes, capacity, no accepted append stuck, LRU order, refinement of SequenceStore and with it contiguous runs |
| `kv_active_sequence` | the same | a finding, see section 5 |
| `shared_host` | 2 threads, 2 loads of one library, one without `shutdown` | no callback of an unloaded library, `shutdown` once and last, waiting calls get in |
| `shared_plugin_state` | the same | a finding |
| `byte_plugins` | 2 threads, an operator library and a backend plugin; 231 GEMMs and 868 attentions of the CPU oracles, good, over a limit, damaged or short | size and execution see one state, nothing runs after a panic, only a panic loses `shutdown`; a GEMM is served exactly or refused for the right reason; an attention stays inside its tensors |
| `hip_gemm` | 2 threads, 2 devices, valid and refused requests, with and without room for the receipt | `OK` or `BUFFER_TOO_SMALL` means that the GEMM finished, regions outlive it, handles are accounted for, `RUNTIME_STATE` is released |
| `shared_gemm_system` | 2 threads, 1 device; 2 loads of one image, a plugin whose claims are incoherent, an operator of the application; 9 calls, good, too large, off the end, with synchronisation points, with foreign handles | the static runtime is empty when the last load is gone; only well-formed calls run and the plugin refuses none of them; an answer tells whether C was written; the first fitting operator is taken |
| `shared_session` | 1 to 3 buffers, all choices of upload and readback, any failure | the operation owns its buffers, `Ok` means final data, every reclaim is attempted |
| `session_panic` | the same | a finding |
| `tuned_planning` | 2 processes, 3 backends (HIP, Vulkan, CPU), 2 operations, 4 keys, 3 workloads, 2 records, with or without a file from before, which holds a key twice; runtimes of any backends, 1 device that comes or goes in a route | readers find a whole database or none, a stored file survives, nothing gives a key a second record, plans are optimal by the database's measurements and agree with the router; a route gives a backend that was there, and none faster was there all the time |
| `bridge` | 2 threads, 2 HIP devices, both calls, any driver failure | one side at a time, nothing given up that a memset still writes, reports are about this call's bytes, only a driver fault makes a call fail |

### Why the bounds are enough

- *Two threads* are enough for every race in code whose critical sections are guarded by one mutex
  each: one thread is inside and one waits, drops or leaves. *Two loads* give two mutexes over one
  image. Three keys give a victim, a survivor and a newcomer; a capacity of 3 or 4 with sizes of 1
  to 3 makes one request evict none, one or two entries; oversized and empty requests are refused.
- `U64Max` is the width of the counters. It is small so that the clock really wraps and the
  counters really saturate; with the code's 2^64 neither happens in practice, so the runs check more
  than the deployed range.
- `Allocs` in `residency` has an address for each allocation that three entries or two leases and
  the one being opened can keep alive at once, as far as capacity lets them: addresses are reused
  after an allocation dies, as by an allocator.
- The checked arithmetic is run at widths where it overflows. In `shared_gemm_system` `U64Max` is
  255 and `I32Max` is 7, in the proportion of the code (`WidthsAsInRust`): four bytes times the
  product of two i32s fits in a u64, so a dimension can be too large for rocBLAS (8) with or without
  regions that overflow, and an offset of 250 overflows with its length. In `byte_plugins` `U64Max`
  is 1023 and the limits (230 elements, 110 multiply-adds, 112 bytes of output, 40 tensor elements,
  60 scores) are passed one at a time, and with `16 x 15` and `15 x 15 x 5` products overflow u64.
  `usize` is u64; matrices hold integers, so that products and sums are exact.
- `MaxChanges = 1`: a device that was found and goes, or was missed and comes, is what tells a route
  from a snapshot; a second change would only make fewer backends present all the time.
- Symmetry is used for threads, addresses and processes only, in runs without liveness
  properties, where no definition tells them apart.
- `MaxRecords = 2` and one new median suffice with the earlier database of four records, the
  first and last of one key: a record can be new, replace one, make a measured set complete or partial, and change an order.
  The costs are chosen so that the locally fastest backend is not on the best plan. `Decide` is
  allowed when nobody is inside `save`: it reads only the decider's memory, which `save` does not
  change, so nothing is lost and the state space is a fraction. For the same reason the store
  stands still until the decision is used (`Forget`), and while there is a runtime, which has copied
  its table.
- A session of three buffers has a first, a middle and a last one, which is what the loops tell apart.

`CHECK_DEADLOCK FALSE` stands where a system really stops: a session that has ended, loads that are
all closed, a poisoned cache that nobody holds a lease of.

### Fairness

`LockIsPassedOn` (shared_host) assumes weak fairness of the steps of a call that has begun and of a
returning plugin callback: a running thread keeps running and callbacks return. It does not assume
that a given waiter gets the mutex, since `std::sync::Mutex` promises no order; the property says
that *some* waiter gets in, again and again. `RuntimeReleased` (hip_gemm) assumes weak fairness of
the devices and of the steps inside the closure. No fairness is assumed of callers: they may stop
calling at any time, and the choice between success and failure of a driver call is never fair.
The other runs are about safety and assume nothing.

## 4. Proofs

| module | theorem | statement |
|---|---|---|
| ResidencyCacheProofs | `TypeCorrect`, `AccountingIsExact`, `CapacityIsRespected`, `EvictionNeverStuck`, `LeasesServeTheirRequest`, `EvictionIsLeastRecent`, `StatisticsAddUp` | every property of the `residency` run |
| KvCacheProofs | `RunsStayContiguous` | the abstract store keeps its runs contiguous |
| KvCacheProofs | `TypeCorrect`, `CapacityIsRespected`, `CountsAreExact`, `AcceptedAppendsSucceed`, `CacheImplementsStore`, `EntriesAreContiguous`, `EvictionIsLeastRecent` | every property of the `kv_cache` run: the code implements the store, and contiguity follows by refinement |
| SharedOperatorHostProofs | `TypeCorrect`, `NoCallbackAfterUnload`, `OneCallbackAtATime`, `ShutdownRunsOnce`, `NothingAfterShutdown`; `SizesAreCurrent`, `PanicsAreFinal`, `ShutdownLostToPanics` | plugin lifetimes for any number of threads and loads, with a panic inside the mutex for host-byte plugins |
| SharedOperatorHostProofs | `AttentionIsInside` | the indices of the attention oracle, for controls of any size |
| SharedOperatorHostProofs | `GemmsAreServed` | a GEMM of any dimensions, through codec, registry, loader, plugin and oracle; with the lines above, every property of the `byte_plugins` run |
| SharedGemmSystemProofs | `PluginTypes`, `AnswersAreFinished`, `RegionsStayMapped`, `NoHandleLeaks` | every safety property of the `hip_gemm` run, for any number of threads and devices |
| SharedGemmSystemProofs | `PluginBehindTheHost`, `OnlyWellFormedCallsRun`, `AnswersTell`, `NothingLeftBehind`, `FirstFittingIsChosen` | the system implements HipSharedGemm; every property of the `shared_gemm_system` run, for any threads, loads, devices, calls and operators |
| SharedBufferSessionProofs | `TypeCorrect`, `OperationHasTheBuffers`, `OkIsFinal`, `EveryReclaimIsTried` | every property of the `shared_session` run, for any number of buffers |
| TunedPlanningProofs | `TypeCorrect`, `FilesAreWhole`, `FileIsKept`, `LookupTellsWhatIsPlannedBy` | the tuning file for any number of savers, keys and crashes, and any files from before |
| TunedPlanningProofs | `RouteIsRight`, `PlansAreOptimal`, `PlannerAndRouterAgree` | routes and plans for any backends, tables and chains; with the line above, every property of the `tuned_planning` run |
| BridgeRuntimeProofs | `TypeCorrect`, `OneUserAtATime`, `ReportsAreReal`, `FailuresAreFaults` | every property of the `bridge` run, for any number of threads and devices |

**DataInduction** holds what the proofs need of data of any size. The library's induction rules take
a predicate, which the provers cannot instantiate; its lemmas take a set instead (`NatSetInduction`,
`UpwardInduction`, `DownwardInduction`, `SubsetInduction`), from the fact that a well-founded order
has least elements. With them it shows that `SumFunction`, which folds a function in an order it
chooses, adds up every value once (`SumIsNatural`, `SumIsInteger`, `SumOfOneChange`,
`SumOfExtension`, `SumOfOneMore`, `SumOfZeros`, `SumOfScaled`): the byte counts of both caches, the
costs of a plan and the dot products of a GEMM rest on that.

Each proof has the same shape: an inductive invariant (`IInv`, or `StoreInv`, `SessionInv`,
`BridgeInv`), that `Init` establishes it, lemmas that each action preserves it, and a theorem per
property. What the invariant adds to the properties:

- *ResidencyCache*: the call in progress has an admissible `want` and nothing cached under its key
  (`CallInProgress`), and entries are live allocations under their own key (`Consistent`). Without
  the first, the entry being replaced could itself be counted; without the second a refund could be
  of a dead allocation's size.
- *KvCache*: the accepted append still fits its entry and still begins where the entry ends
  (`Accepted`), and absent entries weigh nothing. This is the fact that `append` relies on across its
  eviction loop: eviction spares the target, so its checks stay true.
  Every entry's count is the sum of its blocks' bytes (`RunsWeighTheirBlocks`).
- *SharedOperatorHost*: a load is live exactly when it is referenced, a call pins a reference, and the
  owner of a mutex is inside a callback of that load (`Lifetimes`). No mutex of this host is ever
  poisoned (`NeverPoisoned`): its only panic (`vec!` of the receipt) happens before the lock is
  taken. The host-byte plugins share `Lifetimes` and may be poisoned; what a call keeps in their
  critical section (`Section`) is where it is and that the size it got is for the plugin's present
  state, because nobody else is inside.
- *HipSharedGemm*: the owner of `RUNTIME_STATE` is the one thread inside the closure, with its
  device selected, with as many regions as its place says; a cached handle works on the device
  it is cached for; a running GEMM is awaited by the thread whose device it runs on, unless a
  synchronisation failed.
- *SharedGemmSystem*: a thread is in the plugin exactly while the host has it in the callback, with
  the verdict of the plugin's checks on the invocation it was asked for, and has launched once if
  its place says so (`CallsInv`, `Tied`); a load that a call, a loader or a `Drop` works on is in the
  stage that goes with that (`LoadsKept`); the runtime is there only while a load is that will shut
  it down (`RuntimeIsHeld`). The plugin's invariant comes with `PluginBehindTheHost`, a refinement:
  every step of the system is a step of HipSharedGemm or a stutter. That four crates' checks let
  exactly the well-formed calls through is a lemma of its own (`VerdictIsRight`), from checked
  arithmetic to ordinary arithmetic. What the registry holds has passed its loader's checks
  (`Listed`, `Vetted`).
- *SharedBufferSession*: up to the operation nothing has failed and nothing is on the queue
  (`NothingYet`); each loop has done its work for the buffers before `next` (`GivenUp`, `TakenBack`);
  afterwards every pending submission moves a buffer back to Vulkan (`TowardsVulkan`), so what was
  reclaimed stays reclaimed, and only a session without an error reads back (`ReadsFinalData`).
- *Attention oracle*: it keeps no state, so the invariant only says that an answer is the turns of
  the question (`AttentionAsked`). The work is arithmetic: row-major places are a numbering
  (`RowIsInside`, `RowOfPlace`, `RowsAreNumbered`), checked products that succeed are products
  (`ProductIsExact`), a query head lies in the group of exactly one key head (`HeadIsShared`), and
  the keys a causal position may see are the first ones (`SeenAreFirst`).
- *GEMM oracle*: no state either (`GemmAsked`). The proof follows a request: lengths that are told at
  all are right by ordinary arithmetic (`RequestLength`, `ResponseLength`); what arrives undamaged
  is what was encoded, and what is damaged does not pass `inspect_request` (`RequestIsInspected`,
  `HeaderIsInspected`, `ChecksSay`); the decoded slices are the caller's matrices
  (`DecodedValues`); the loops, which count from 0 over slices and multiply each term by alpha, give
  the product (`ElementIsProduct`, by `SumOfScaled`); `output_size` tells the length that `execute`
  then writes (`LengthIsTold`, `OracleSays`, `PluginSays`), so no capacity is ever too small.
- *AutotuneStore*: a saver past `fs::write` has a whole database at its temporary path
  (`WholeTemporaries`), which no other saver writes to. `load` accepts a file with two records of one
  key: of such a key `lookup` tells the first, plans are made by the
  last, and `record` replaces the first only, so a plan never sees a new measurement. No step brings a
  second record about where there was none (`UpsertKeepsKeysApart`, `NoStepDuplicates`), and where
  there is one record the two ways of reading agree (`FirstAndLast`, `OneRecordIsAgreedOn`). The
  proof is about the specification of TunedPlanning, whose other steps leave the store alone.
- *Routing*: a backend that a route found was up when it was probed, and one that was up all the
  time has been found or is still to be probed (`Probed`); an answer is the choice among what was
  found (`Selected`). That `Route` takes the fastest is `RouteIsFastest`.
- *Planning*: `Layers`, the walk back of `Reconstructed` and the totals are recursive functions, so
  that they exist is an induction (`LayersExist`, `WayBackExists`). Each layer holds the least cost of
  a way that ends at each backend: no assignment costs less (`NoCheaperWay`), and the walk back
  costs just what its last state says (`WayBackCostsItsTotal`); `PlanIsLeast` puts them together.
  The invariant says only that a decision is what `Decision` computes from some database.
  `PlannerAgreesWithRouter` leaves out one case that `validate_cost` permits: with a rank penalty of
  zero the planner does not tell unmeasured backends apart, and takes the first by id where the
  router takes the first by rank.
- *BridgeRuntime*: the guards of a call are a prefix of one chain whose length is fixed by the place
  in the script (`Nested`, `Place`), the side that may use the allocation is fixed by it too (`Sides`),
  a memset is on its way only up to the synchronisation that waits for it (`Awaited`), and from
  there on the pattern has come as far as the script (`Written`); so the guards that a failing or
  returning call drops are none that a memset still writes through (`NothingWrittenIsDropped`);
  outcomes have a cause (`Concluded`).
- The statistics of ResidencyCache use `TicksAreCalls` (every tick is a hit or a miss, until the clock
  wraps) and `MissesAreAccounted` (every miss is an entry, an eviction, a failure or in progress).
- The two LRU theorems use a further invariant, `StampsFollowOrder`: until the clock wraps, the
  order of the stamps is the order of use.

**Assumptions.** The types of the constants, as Rust's types and the C structures give them:
`SpecsAreRecords`, `FiniteKeys`, `NoneIsNoValue`, `NonZeroCapacity`, `CountersHaveWidth`,
`KeysAreRecords`, `BlocksAreRecords`, `CapacityHasWidth`, `SilentLoads`, `HoldersDiffer`,
`SomeDevice`, `DevicesAreNumbered`, `NoneIsNoName`, `BackendsAreLoads`, `SomeBuffers`, `BridgeIsADevice`,
`EarlierAreDatabases`, `FilesAreTold`, `BoundsAreNatural`, `BackendsAreNumbers` (a backend is its
place in the order of ids), `RanksAreNumbers`, `CostsAreNumbers`, `WorkloadsAreTyped`,
`WordsAreNumbers`, `AttentionsAreTyped`, `WidthIsPositive`, `NoneIsNoNumber`, `CallsAreTyped`,
`PoliciesAreTyped`, `OperatorsDiffer`, `LimitsAreNumbers`, `NoneIsNoMessage`, `GemmsAreTyped` (a
matrix has the dimensions its request says). Five say more:
- `NonZeroCapacity` is what `new` enforces, and `CapacityHasWidth` that a capacity is a u64.
- `WidthsAsInRust`: four bytes times two i32s fit in a u64.
- `OneOperatorEach`: a plugin library of SharedGemmSystem offers one operator, as the HIP plugin does.
- `DamageShows` bounds what may happen to a GEMM message: its header is no longer that of a request,
  or no longer tells its length. Damage that leaves both right makes another request, and is
  answered as that.
- `OneSaverPerProcess` keeps two threads of one process from saving at once (section 6).

Callers of SharedGemmSystem name devices that there are (`Controls`): to name another is to see
`hipSetDevice` fail, which it may do anyway. Costs and medians are whole microseconds.

**Model-checked only.**
- Liveness (`LockIsPassedOn`, `RuntimeReleased`): the prover has no fairness and no ENABLED.

## 5. Where code and documents disagree

- *An append may evict part of its own sequence* (`kv_active_sequence`). `evict_for` spares only the
  exact (sequence, layer) being appended to; `V0.2.md:29` says that eviction does not corrupt an
  active sequence, but other layers of the same sequence are evicted.
- *Two loads of one library share plugin state without a common mutex* (`shared_plugin_state`). The
  comment at `vrb-shared-operator-loader/src/lib.rs:276-278` says that callbacks sharing plugin
  state are serialized. They are within one load.
- *A panicking operation skips the reclaim* (`session_panic`). The comment at
  `vrb-vulkan-shared-buffer/src/lib.rs:93-94` promises the reclaim before any allocation is destroyed.

## 6. Not modelled, and why

- Floating point: softmax, rounding, sums that are not finite, `f64` costs that are not whole
  microseconds. TLC has integers. The attention oracle is therefore modelled by the places it reads
  and writes only.
- The bytes of a message: the offset of each field and the encoding of numbers. A message is a record
  of its fields, and damage replaces fields.
- Reentrancy: a provider or an allocation's destructor that calls back into the cache would block
  for ever, under a mutex that is not reentrant. Neither is in the repository.
- HIP GEMM: a `rocblas_sgemm` that reports an error after having started work.
- Bridge: poisoning of `BRIDGE_RUNTIME` (nothing inside panics), a Vulkan submission that executes
  after a failed queue wait (SharedBufferSession models that), a device that is lost while the
  runtime keeps its context, two GPUs of the same name, which the code correlates by name.
- Session: the command buffer and staging memory that a failed wait leaves behind, and the size
  arithmetic of `validate_specs`, which precedes every state change.
- AutotuneStore: two threads of one process that save at once (`OneSaverPerProcess`): they share a
  temporary file, and callers must keep them apart. A power failure: `save` does not sync, so the
  order of rename and data on disk is the file system's.
- Host-byte plugins: of the descriptor's validation only whether it is accepted; the shared
  loader's, which is the stricter one, is modelled in SharedPluginDescriptor. A backend plugin's
  conversion of its probe into a `CapabilitySet`.
- Driver queries, argument parsing, test fixtures, ABI declarations: no state, or pure I/O.

## 7. How the project is organised

The order of the modules follows the risk: what is shared and locked first (the cache, plugin
lifetimes, the HIP runtime), then what crosses an ownership boundary (session, bridge), then storage,
then the decisions made from it, and last the stateless code that the others hand data to.

    ResidencyCache                         SequenceStore <=refines= KvCache
    Option <- HipSharedGemm, SharedOperatorHost      Checked <- SharedGemmProtocol, SharedOperators
              \_____________ SharedGemmSystem _____________/ <- SharedPluginDescriptor
    SharedOperatorHost <- BytePluginHost <- CpuReferences -> GemmReference -> GemmProtocol
                                                          -> AttentionReference -> AttentionProtocol
    SharedBufferSession                    BridgeRuntime
    AutotuneStore, ExecutionPlan -> Routing <- BackendRuntime, all in TunedPlanning

A component stands alone where its properties can be stated of it alone, and is composed where one
side's guarantee is the other's assumption: the host's mutex and lifetimes with the plugin's static
runtime, four crates' checks of one message, a database with the planner and the router that read it.
The abstract specification that a component is shown to implement is SequenceStore; references that
algorithms are compared with stand beside the properties (`Assignments`, `ReferenceTotal`,
`ProductOf`, `HeaderIsConsistent`, `WellFormed`, `Serves`).
