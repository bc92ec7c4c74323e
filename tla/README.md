# A TLA+ model of animaksm

This directory holds a formal model of the daemon and of the swap proxy in
`src/crates`, the TLC runs that check it and the TLAPS proofs about it.
`PROJECT.json` lists the runs, the source lines each definition models, the
hazards that the properties are for, and the theorems.

## The system and its parts

| Part | State | Operations | Talks to |
|---|---|---|---|
| Swap proxy engine (`swap-proxy/src/main.rs`, `ProxyEngine`) | passthrough flag, three mutexes around the parts below | `handle_write`, `handle_read`, `handle_discard` | called by up to four ublk queue threads, or by the dry run |
| Page store, slot allocator, translation table (`backend.rs`) | slot contents; FIFO of free slots and `next_slot`; offset to mapping | read, write, allocate, free, insert, remove | the engine |
| Dedup table (`dedup.rs`, `fingerprint.rs`) | fingerprint to counted slot, Bloom filter, LRU list | lookup, insert with eviction, add and remove a reference | the engine, when passthrough is off |
| ublk frontend (`ublk_frontend.rs`) | queues, buffers, completion failures | sets up queues, splits a request into page operations, completes it | kernel; the engine |
| Swap proxy service (`swap-proxy/src/main.rs`, `systemd/animaksm-swap-proxy.service`) | the device, the active swap areas | launch, bootstrap as swap, end, `cleanup` as `ExecStopPost` | the frontend; mkswap, swapon, swapoff |
| Governor (`daemon/src/governor.rs`, `common/src/psi.rs`) | level, hysteresis and ramp-up counters, entry time, last action | `tick`: classify, transition, apply profile, profit check | PSI and KSM files; the KSM controller |
| KSM controller (`common/src/ksm.rs`) | none of its own; the sysfs knobs and the snapshot file | clamped writes, snapshot, restore | sysfs, the state directory |
| Daemon life cycle (`daemon/src/main.rs`, `systemd/animaksm.service`) | tasks, shutdown channel | start, stop with a five-second timeout, restore; `restore-ksm` as `ExecStopPost` | all of the daemon's tasks, systemd |
| Process scanner (`scanner.rs`, `common/src/procfs.rs`) | statistics, the time of the last action | scan cycle: filters, ranking, advice, collapse | `/proc`, the injector, the shared state |
| ptrace injector (`madvise.rs`) | a stopped target's registers | attach, inject, restore, detach | target processes |
| Metrics, configuration, errors | none | logging, parsing | |

What is hard here: queue threads that interleave between the engine's short
critical sections, store writes that fail half way, slots that change hands;
reference counts against metadata that may be evicted; a controller whose
damping rules (hysteresis, cooldown, stabilization window, profit check)
interfere; a snapshot and a restore that crashes, timeouts, failed starts and a
concurrently writing governor may cut anywhere; requests of several pages that
fail or interleave half way; foreign processes that are stopped, given other
registers and resumed while they receive signals, die, exec or change their
memory, and whose description in `/proc` is stale as soon as it is read.

## Modules

`Backend` and `DedupTable` model the two data structures, one operator per
method, and hold their variables. `ProxyEngine` extends them with the threads.
The engine takes its mutexes one after the other and never two together, so an
operation is a sequence of critical sections and each section is one action:

| Action | Critical section |
|---|---|
| `Invoke`, `Reply` | a page operation reaches a handler, and returns |
| `WriteBegin`, `Verify` | passthrough test and dedup lookup; comparison with the stored page and `add_reference` |
| `AllocateDirect`, `AllocateUnique` | `slot_allocator.lock().allocate()` |
| `StoreDirect`, `StoreUnique` | `store.lock().write_page()`, which may fail and tear the slot |
| `Unwind` | `free_slot` after a failed write |
| `InsertUnique` | `dedup_table.insert`, with eviction, or refusal |
| `MapPage`, `Discard` | `translation.lock().insert()` / `remove()` |
| `ReleaseMapping` | `release_mapping` of the displaced translation |
| `ReadLookup`, `ReadLoad` | translation lookup; then `store.lock().read_page()` |
| `EnableDedup` | the dry run clears passthrough |

`pc` says which section a thread enters next; `slot`, `entry`, `old` and `ret`
are its locals; `raced` is a history variable. The dedup table is reached from
one thread only (the dry run; the assumption `EngineAssumption`), so its calls
are single steps there. Pages are model values; fingerprints, prefixes and Bloom
bits are functions of them that the instances let collide. LRU ticks matter
only by their order, so the LRU list is an order relation.

`PageDevice` is the abstract specification: what the proxy promises the kernel.
A write or discard takes effect at one instant or fails without a trace; a read
that no write or discard of its page overlaps returns the current contents. An
overlapped read may return anything: the engine drops the translation lock
before it reads the slot, so the slot may be reused in between, and the model
shows that this does happen. `ImplementsPageDevice` maps the engine onto it:
the contents of a page are what its translation and the store give.

`Governor` is the control loop. PSI values are integers in 1/100 percent, so the score
comparison is exact (the code uses `f32`; readings are picked away from rounding). The
class of every reading is compared with `Justified`, which states each level's score
and thresholds by themselves; two readings lie exactly on a threshold. Of the knobs
`run` is left out, which is 1 above level 0. Instants are ages that saturate where no
test tells them apart. `Tick` is the whole of `tick`, `TickWithReadings` of
`tick_with_readings`, with each sysfs write allowed to fail. `above`, `below`,
`scansAtEntry` and `stale` are history.

`Daemon` is the life cycle around the sysfs knobs: snapshot through a temporary
file, the governor's writes one by one, the signal, the timeout, the restore
write by write, exit, crash, `ExecStopPost`, and the next start. The kernel's
refusal of `pages_to_scan` under the scan-time advisor, the advisor's own
changes and the administrator are external actions. The governor in it may apply
any profile at any time. The rate limit in `write_param` is left out because it
never engages: `last_update` is set once, half a second in the past.

The scanner appears in it as a task that is idle or busy, because a cycle holds
its thread until it ends; the configuration file may be edited, removed or broken
whenever a process reads it.

`UblkFrontend` puts the queues on top of `PageDevice` (so each page operation has
the atomicity that `ProxyEngine` is shown to have and the interleaving it allows):

| Action | Code |
|---|---|
| `Issue` | external: the kernel puts a request on a tag |
| `Fetch` | the closure of `run_queue` begins; `execute_request` answers at once what is unsupported, a flush, or invalid |
| `NextPage`, `EngineStep`, `PageDone` | one turn of a loop of `execute_request`: call, effect or failure, `?` or the next page |
| `Complete` | `complete_io_cmd_unified`, delivered or not, and the failure counter |

`SwapProxy` is the service around it: `RunCommand`, `RunProxyV2` (dry run or
`RunRealProxy`), `AddDevice`, `QueueInit` for each queue, `GoLive`; the bootstrap
thread's `Mkswap`, `MkswapReturns`, `Swapon`; `Ends`, the death of the process at
any of these steps; and `ListSwaps`, `Swapoff`, `CleanupEnds` of
`cleanup_after_crash`. A device that comes up again is empty, because nothing of
the engine is read back. Swap names are a prefix and a class of suffixes, which is
all that `ubd_devices_in_swapon_output` looks at. That a device goes live only when all
its queues have submitted their commands (`GoLive`), and that swapon refuses an area
without a header, is the kernel's doing and modelled as such. `nr_sectors << 9` is
taken not to overflow, which the limits of the device exclude. `touched`, `before` and
`failed` are history.

`Madvise` holds the operators on memory maps: which regions are eligible, the batch
under the cap, the huge pages inside a region. The filters (`Keep`) and the sum of
`build_batch` (`PagesUpTo`) are recursive functions, whose value at each place a proof
can follow from the one before. `PtraceInjector` is `madvise_via_ptrace`, one action
for each wait and each group of ptrace calls on a stopped target. The kernel's side of
ptrace is external and modelled from how the code uses it: a tracee stops for a
pending signal before it runs any code, else at the entry and exit of the call; the
code sees the number of the signal only, so a syscall stop and somebody's SIGTRAP are
alike. A real-time signal has no variant in nix's `Signal`, and its `waitpid` returns
EINVAL for the stop: the wait of the attach then fails (`WaitFailed`), while the later
waits answer it like any unexpected stop. `waitpid` is not interrupted: tokio installs
its handlers with `SA_RESTART`. `Scanner` extends it with the cycle, each reading of
`/proc` a step of its own: `ReadStatus`, `ReadKsmStat`, `ReadMaps` (each followed by
the end of its pass), `ApplyMergeable`, `InjectNext` and `InjectReturned` region by
region, `Applied`, `CollapseRegions`, `CycleEnds`. A process is an image (name, size,
statistics and maps) that exec or reuse of the pid replaces (`NewImage`) and that may
turn into others as the process runs (`Develops`): `Developments` is the constant that
says what mprotect, mmap, munmap or a change of its statistics may make of it, at any
time, between two readings as well as while it is traced. `seen` records what each
process was when this cycle read each of its files. The listing of `/proc` and the
stable sort are given as the set of the one sequence that they leave (`ListPids`,
`LargestFirst`), which TLC enumerates and a proof can reason about. `seen`, `held`,
`others` and `sinceMerge` are history.

`MCProxyEngine`, `MCGovernor`, `MCDaemon`, `MCSwapProxy` and `MCScanner` are the
instances for TLC. The modules named `...Proofs` hold the theorems; each EXTENDS the
module it is about, `ProxyRefinementProofs` and `ProxyDedupProofs` also the proofs
they build on.

## Runs

| Run | Bounds | What it shows |
|---|---|---|
| `proxy_real` | 2 threads, 2 offsets, 2 pages, 3 slots | `TypeOK`, `SlotOwnership`, `ImplementsPageDevice` under every interleaving, with failing reads and writes. Three slots for two pages let both the free queue and exhaustion occur. |
| `proxy_dryrun` | 1 thread, 4 pages of which two pairs collide, table with room for every fingerprint | `RefCountExact`, `NoLiveSlotFreed`, `ImplementsPageDevice` with dedup switched on half way |
| `proxy_fulltable` | table of 2 entries, 3 fingerprints | `LruListsTheTable`, `BloomCoversTable`, `TableWithinBound` with evictions and refusals |
| `governor` | a PSI file per target level, one with a value that does not parse, hysteresis 2, window longer than cooldown | `NeverStops`, `MovesTowardTarget`, `HysteresisHonoured`, `PressureChangesDamped`, `KnobsFollowLevel`, `Converges` |
| `daemon_clean` | settings within the safe ranges, no failing writes | `DriftFree` and `StopTerminates` through crashes, timeouts and scanner cycles that never end |
| `daemon_faults` | everything may fail, three configurations | `RestoresSnapshot`, `SnapshotNeverTorn`, with a configuration file that changes |
| `swap_proxy` | 2 queues, 3 tags, 3 pages, eight requests of every kind, one of zero pages, 4 swap names | `AnswersAreTrue`, `ChangesOnlyAsAsked`, `RequestsAreAnswered`, `ActiveSwapHasHeader`, `CleanupIsExact` |
| `scanner` | 4 pids, 10 images of which one may replace a running one and three others may come of one by mprotect, munmap or new statistics, 2 places, 2 signals for each call and one other event | see below |
| `proxy_evict`, `proxy_full`, `governor_profit`, `daemon_stale` | | disagreements, below |

`scanner` checks that a target is left as it was found: its registers
(`BorrowedRegistersReturned`), not traced (`Released`), not stopped (`LeftAsFound`);
that what is reported and what is done agree (`MarkedAsReported`,
`DryRunTouchesNothing`); that the right memory of the right processes is chosen
(`AdvisesOnlyAsRead`, `LargestAreChosen`, `BatchIsCappedPrefix`,
`CollapsesWholeHugePages`); and the rhythm (`BurstsSpaced`, `CycleTerminates`).
`LeftAsFound` allows one signal from elsewhere per injection, unless it is a real-time
one that the wait of the attach reports, and `MarkedAsReported` allows one; they say why
two are too many, and the instance has two, so the exemptions are exercised.

In `scanner` the three initial populations put a candidate at the size limit, one
below it, a blocklisted name, a loss, an already merged process, a kernel thread and
pid 2 before the filters; the regions of `Big` put the cap and the huge-page
boundaries inside a region. A process may exec a blocklisted image; `Big` may lose
pages from the middle of a region (`Shrunk`) or have one made executable and another
mapped (`Jit`), and the statistics of `Mid` may turn negative (`Loss`), before,
between and after the readings: what is advised then is what `AdvisesOnlyAsRead` and
`MarkedAsReported` must get right. The former speaks of what was read, because no more
is true of the code (see "From the scanner" below). `LargestAreChosen` compares a
target with every process that passed the filters by `seen`, not with what the passes
kept, so a cut made too early would show. In `swap_proxy` the requests of the two
queues overlap in both directions, and two tags on one queue make one wait for the
other. One completion failure reaches the limit `MaxFailures`.

The bounds are small because the code treats threads, offsets and pages
uniformly: two threads give every pairwise race, two offsets with one slot to
spare give reuse of a slot by another page, and three fingerprints with two
entries give a choice of victim. In `proxy_real` threads and offsets are
symmetric. `MaxScans`, `MaxAge` and `MaxValue` cap counters beyond
which no guard distinguishes values. Each passing property has a mutant of the
code that violates it.

Fairness is assumed in four places. `Governor`: time keeps passing, and a tick that
repeats the last reading (`SteadyTick`) and would change something is not put off for
ever, as tokio's interval guarantees; fairness of `Tick` itself would be wrong,
because at rest a tick changes nothing and weak fairness would then force the readings
to change. `Daemon`: the shutdown timer fires, sysfs writes return and processes that
are told to exit make progress; nothing is assumed of the governor or the scanner,
which may tick or hang for ever; a process that then does not end is killed by
systemd's stop timeout, which the unit leaves at its default (`StopKill`).
`SwapProxy`: the queue threads run; nothing is assumed of mkswap, swapon or the end of
the process. `Scanner`: the scanner's thread runs, and a traced process does stop when
it is told to; the waits have no timeout, so this is needed, and a target in an
uninterruptible sleep may break it: `CycleTerminates` does not say that no process can
keep the scanner waiting. That the daemon stops all the same is `StopTerminates`.
`Converges` assumes that readings settle in one pressure class and that KSM is
profitable.

## Disagreements found

With a run of its own:

* `proxy_evict`: metadata of a page is evicted, the page is stored again
  elsewhere, and the release of the first translation then frees the second's
  slot (`dedup.rs:238`, against the comment above it). Dedup is only on in the
  dry run and in tests.
* `proxy_full`: with as many slots as pages and allocation before release, a
  device whose pages have all been written refuses every overwrite
  (`main.rs:123`).
* `governor_profit`: `full_scans_at_level` is only ever zero, so the profit
  check does not wait for scans at the level (`governor.rs:232`).
* `daemon_stale`: a start that fails before its snapshot makes `restore-ksm`
  write an earlier run's snapshot over newer settings.

Visible in the modules without a run: the profit step-down ignores the
stabilization window (`PressureChangesDamped` has to exempt it, although
`config.rs:95-96` speaks of all actions of a tier); restore clamps originals that
lie outside `PARAM_RANGES` (`RestoresSnapshot` says so); a governor that
outlives the shutdown timeout writes after the restore, which only
`ExecStopPost` repairs (`DriftFree` fails with `Systemd = FALSE`);
`psi_full_threshold` is documented as the threshold "for critical" but
`classify` compares twice its value and returns high; and real mode never
leaves passthrough, although the README speaks of deduplicated I/O.

From the swap proxy: the message at `ublk_frontend.rs:221` says "stopping queue", but
the queue goes on; queue initialization is meant to fail "atomically"
(`ublk_frontend.rs:193`), but the error is only reported once the device has been
stopped, and until then a device with one broken queue neither goes live nor ends
(`QueueInit`); `main.rs:81` and the README say that cleanup restores zram, but it only
prints; the unit passes `--store-path`, which `run` does not have; cleanup runs after
the process is gone, so pages still swapped out cannot be read back.

From the scanner: signals that reach a traced target and are reported to the daemon
are dropped, because every resume and detach passes none; two signals around the
attach can leave the target stopped, and a real-time signal alone can, when the wait
of the attach fails because of it and the target is detached with the SIGSTOP of the
attach still pending (`madvise.rs:368-371`); two SIGTRAPs pass for both syscall stops
and the region counts as merged; a target killed after its stop has been waited for is
not reaped (`Released` says so); the level 2 filter looks at `merge_any` only,
although `scanner.rs:13` says "skip already-merged"; `target_cgroups` and
`duplicate_ratio_threshold` are not used; what was read is not read again before it is
used: memory that the process makes executable, or maps anew, between the reading of
its maps (`scanner.rs:165`) and the injection (`madvise.rs:385-391`) is advised all
the same, so is a process whose ksm_stat has turned against it, and after an exec so
is the new image, even one whose name is on the blocklist, at the addresses of the old
one. `AdvisesOnlyAsRead` therefore promises only what the readings said.

From the daemon: `scanner.interval_secs = 0` passes `validate` and the scanner task
panics at once; `restore-ksm` with an edited or removed configuration restores
nothing; a PSI value that does not parse counts as 0, no pressure.

## Proofs

The theorems hold for every value of the constants that the named assumptions of the
modules allow (typing, finiteness of `Pids`, one thread in the dry run; for the scanner,
`MapsAssumption`: a line of `/proc/PID/maps` is a region that is not empty or does not
parse, and `ScannerAssumption`: sizes are natural numbers, a ksm_stat file has the two
fields or lacks them, and is told from no file; `Developments` is any relation between
images). What a
theorem assumes beyond those is in its statement and in the table. "Adds" is what
the inductive invariant has that the property has not.

| Theorem | Property | Assumes | Adds |
|---|---|---|---|
| `TypeCorrect` | `TypeOK` | | `LocalsOK`: what each section may rely on from earlier ones |
| `RealModeOwnership` | `SlotOwnership` | real mode | `PassthroughInv`: every translation is direct |
| `RealModeImplementsDevice` | `ImplementsPageDevice` | real mode | the written slot holds the page until it is mapped; the slot of an unraced read is still the page's |
| `LruAlwaysListsTable`, `TableAlwaysBounded`, `BloomNeverHides` | `LruListsTheTable`, `TableWithinBound`, `BloomCoversTable` | | each other, and that the table is finite |
| `CountsAlwaysExact` | `RefCountExact` | dry run, no eviction | `SlotsApart`, `CountsOK`, `HitOK` |
| `LiveSlotsNeverFreed` | `NoLiveSlotFreed` | no eviction in the dry run | the same in the dry run; ownership in real mode |
| `DryRunImplementsDevice` | `ImplementsPageDevice` | dry run, no eviction | both of the above, and that the entry inserted is stored |
| `RoomForAll` | (no eviction) | as many entries as fingerprints | |
| `GovernorTypeCorrect`, `KnobsAlwaysFollowLevel` | `TypeOK`, `KnobsFollowLevel` | | `CountersHonest` |
| `GovernorNeverStops`, `LevelMovesTowardTarget`, `HysteresisAlwaysHonoured`, `PressureChangesAlwaysDamped` | the four action properties | | `CountersHonest` |
| `DaemonTypeCorrect`, `SnapshotAlwaysWhole` | `TypeOK`, `SnapshotNeverTorn` | | the temporary file is complete when it is renamed; queued writes are within the ranges |
| `RestorePutsBackSnapshot` | `RestoresSnapshot` | systemd | `OneWriter`, `RestoreUnderWay` |
| `NoDriftInCleanOperation` | `DriftFree` | `CleanOperation` | the knobs before the snapshot, the snapshot after it |
| `SwapProxyTypeCorrect`, `AnswersAlwaysTrue`, `PagesChangeOnlyAsAsked` | `TypeOK`, `AnswersAreTrue`, `ChangesOnlyAsAsked` | | `QueuesOK`: where a queue is in its request |
| `ActiveSwapAlwaysHasHeader`, `CleanupAlwaysExact` | `ActiveSwapHasHeader`, `CleanupIsExact` | | `BootOK`, `HeaderOK`; `CleanupInv` |
| `RegistersAlwaysReturned`, `TargetsAlwaysReleased` | `BorrowedRegistersReturned`, `Released` | | `TracingOK`: whom the daemon traces at each stage |
| `JobControlLeftAsFound`, `OkMeansMarked` | `LeftAsFound`, `MarkedAsReported` | | `SignalsOK`, `MarkedOK` |
| `LargestAlwaysChosen`, `DryRunAlwaysHarmless` | `LargestAreChosen`, `DryRunTouchesNothing` | | `SievedOK`; `CycleOK`, `DryRunOK` |
| `TypesAlwaysHold` | `TypeOK` of `Scanner` | | `ListsOK`: no list of a cycle names a process twice |
| `BatchesAlwaysCapped`, `CollapsesAlwaysWhole` | `BatchIsCappedPrefix`, `CollapsesWholeHugePages` | | `ListsOK`, `CollapsedOK` |
| `BurstsAlwaysSpaced` | `BurstsSpaced` | | `WindowOK` |
| `OnlyAsReadAdvised` | `AdvisesOnlyAsRead` | | `BatchOK`, `SievedOK` |

`ProxyEngineProofs`: `TypeOK` is not inductive, since a section uses locals that an
earlier one set. One lemma per action.

`ProxyOwnershipProofs`: every slot below `next_slot` has exactly one owner, a place in
the free queue, a page, or a thread between two sections. Without `PassthroughInv`
`release_mapping` could free a slot named by the table rather than by the translation.
Five lemmas say how a slot changes hands (stays, allocated, freed, mapped, unmapped),
over the ownership relations alone; one lemma per action shows which of them it is.

`ProxyRefinementProofs`: a write takes effect in `MapPage`, a discard in `Discard`, a
failure where it is detected; every other section is a stutter of the device. For
`StoreDirect` and `Unwind` that is a consequence of exclusive ownership, which is
why the theorem builds on the ownership invariant: a slot that is written, torn or
freed is one that no page maps.

`ProxyDedupProofs`, the table: the eviction finds a victim because the LRU list is a
total order of exactly the finite set of tracked fingerprints, and the bound holds
because it does. The dry run: `SlotsApart` says that a slot is free, or held
directly by one page, or by one entry of the table, or by the thread; `CountsOK`
that the count of an entry is the number of references to it, in the translations
and in the thread's hands, all of them to the entry's slot; `HitOK` that what a
lookup has found is still there when it is verified. None holds without the others:
the release at count 1 frees the slot only if nothing else names it. All need
`NoEviction`, that an entry leaves the map only when its last reference is
released. The run `proxy_evict` shows what happens otherwise, so it cannot be
dropped; it is not empty, because `RoomForAll` proves it of every table that
is as large as the number of fingerprints.

`GovernorProofs`: `CountersHonest` says that `ramp_up_count` and `hysteresis_count`
never run ahead of the consecutive readings they stand for, through resets, cooldowns
and profit step-downs. The action properties then follow from one lemma about a tick,
`StepIsSound`; for `MovesTowardTarget`, `TargetIsJustified` shows that classify and
`pressure_to_level` together pick the highest level that a score or threshold
justifies.

`DaemonProofs`: `RestoreUnderWay` says which knobs a restore has already put back, so
that the end of the queue means all of them. That is true of `restore-ksm` only, which
alone has the knobs to itself (`OneWriter`); the restore inside the daemon may meet a
governor that has outlived the shutdown timeout. Hence `Systemd`, whose unit runs it.
`CleanOperation` is systemd, settings in the safe ranges, no start that fails before
its snapshot, no failing write and a configuration file left alone; crashes,
timeouts and hanging tasks are allowed. `daemon_stale` shows what a failing start
does, and a setting outside the ranges is clamped by the restore.

`SwapProxyProofs`: `QueuesOK` follows a request through its loop: the pages done hold
what was asked unless another request touched them, and the page operation under way
is the one the loop is at. `touched` is set by whatever may change a page of the
request, so every effect either belongs to the queue's own request or is excused.
For the header: mkswap is alone on the device and is answered once (`BootOK`),
and nothing outstanding can reach page 0 of an active area (`HeaderOK`).

`ScannerProofs`: `TracingOK` says for each stage of the injection in which mode the
target is and who has its registers. `SignalsOK` is an account of signals: each
stage that a signal from elsewhere has led to, and a SIGSTOP still pending, has cost
one of them, so with one signal the injection cannot both take it for the stop of
the attach and end on it, unless the wait of the attach itself fails on it.

A second invariant, `CycleInv`, is inductive together with the first. `ListsOK`: the
list of a pass and what the pass has kept are different processes, so neither grows
beyond the number of pids (a pigeonhole lemma, `AtMostAllPids`), and ranking leaves at
most `MaxCandidates`. `WindowOK`: as long as a cycle has counted nothing, the window
is no older than the latest merge; `merged` is what connects the two, because the
window is stamped only when the cycle ends. `BatchOK`: what the injector has been told
to advise lies in an eligible region of the maps of the target in hand. A third,
`SievedOK`, is about `seen`: who is in the list of a pass has passed, by what was
read, every filter up to that one, with the size that was read; and whoever passed
them all is still in a list until `LargestFirst` cuts it. From that and the sort, a
place within the limit has fewer than the limit of larger processes that passed
(`LargerAreKept` counts them by the places they have in the list), which is
`LargestAreChosen`; and with `BatchOK` and the maps that were read,
`AdvisesOnlyAsRead`. It does not mention what the processes are now, so no assumption
on what becomes of them is needed.

Under these lie lemmas on the operators of `Madvise`. The library's induction rules take
an operator as a parameter, which no installed prover can instantiate, so induction is
stated here about sets (`Induction`: a set of numbers that holds 0 and with each number
its successor holds all; from `Least`), and `Recursion` about any function on `0 .. n`
that is given step by step. From them follow what a filter keeps (`KeepSteps`,
`KeepElements`), the running sum of sizes (`PagesSteps`, `Monotone`, `Covered`) and the
concatenation of the pages of a list of regions (`JoinSteps`, `PagesAt`: the k-th page
overall is at a known offset of a known region). `BatchCapped` compares, place by place,
the pages of a batch with a prefix of the pages of all eligible regions, through the
cut region and the cap. `Rounded` and `CollapseWhole` do the arithmetic of rounding
inwards to multiples of any `ThpSize`.

Every invariant and every action property that a passing run checks is stated by a
theorem. Only model-checked:

* liveness under fairness: `Converges`, `StopTerminates`, `RequestsAreAnswered`,
  `CycleTerminates` (the prover has neither ENABLED nor fairness);
* the disagreements, which are violations. The theorems about a dry run assume that
  nothing is evicted because `NoLiveSlotFreed` fails otherwise (`proxy_evict`).

## Not modelled

Code that no part of the program calls: `PsiTrigger`, `process_madvise_batch`,
`apply_madvise_batches`, `read_cgroup_procs`, the pagemap readers,
`read_process_comm`. Code that only reads and prints: metrics, `status` and
`stats`, statistics counters, error types. Default values of the configuration and
the hash functions (a constant of `DedupTable`). The dedup table under concurrent
callers: the program reaches it from one thread only.

Abstracted: a daemon that is itself killed in the middle of an injection (the
kernel then detaches the target with the injected registers); exec by another
thread of a target while it is traced; a vDSO address that is stale after an exec
is assumed to fault; clean exits of a target and SIGKILL are one action; a dry run
of the daemon, which writes nothing.

## Plan

Left to do, in this order: the interleavings of a dedup table under several callers,
if real mode ever leaves passthrough (`EngineAssumption` excludes them now); a daemon
that is killed in the middle of an injection, which would join `Daemon` to `Scanner`;
liveness proofs, should the prover learn fairness.
