# A TLA+ model of kvm_db

This directory holds a formal model of the programs of this repository: TLA+
modules, the TLC configurations that check them on small instances, and proofs,
checked by TLAPS, of the safety properties of the KDB page cache and its module,
of uringblk's data path, administration commands, loading and client library,
and of the WAL driver's devices and its loading beside the program that uses it.

## The system

The repository contains three kernel modules and one program.

| Part | Source | What it does |
|---|---|---|
| KDB cache (`kdb`) | `src/vma.c`, `src/lp_state.c`, `src/cp_pool.c`, `src/chrdev.c`, `src/kdb_main.c` | A device that processes map. A fault finds or makes a *logical page* (an entry of a hash table per mapping) and in it a *canonical page* (a page frame); a first write marks the page dirty. |
| uringblk | `driver/uringblk_main.c`, `driver/uringblk_sysfs.c` | A multi-queue block device over memory (virtual backend) or over another block device (device backend), with administration commands sent through io_uring. |
| WAL driver | `driver/wal_driver_main.c` | A character device that answers reads with a fixed message and a block device, with shared statistics. |
| `kvm_db` | `src/kvm_db.cc`, `src/kvm_wal.cc`, `src/kvm_uringblk.cc`, `src/kvm_probe.cc` | Makes the device nodes of the WAL driver, probes KVM, opens and tests the devices, and removes the nodes. |

The parts interact in few places. Threads of mapping processes meet in the hash
table, the logical pages and the page pool. Requests of the block layer meet in
the medium and the statistics of uringblk, administration commands in its
feature word and mutex. The loading of a module races with processes that open
its nodes, and the WAL driver, the kernel's devtmpfs and `kvm_db` meet in the
names `/dev/rwal` and `/dev/wal`. The library of `kvm_uringblk.cc` meets uringblk
through io_uring, whose threads go on serving a request after the library has
given up waiting for it.

## Modules

| Module | Models | State and actions |
|---|---|---|
| `KdbCache` | The fault path of `kdb` | One program counter per thread; one action per step between two accesses to shared state. |
| `KdbPageMap` | What the cache promises | A table from offsets to pages, filled once; installed pages come from it; writable pages are dirty. |
| `KdbModule` | `kdb_init`, `kdb_exit`, open and release, around `KdbCache` | The step `kdb_init` or `kdb_exit` is at, the slab caches that exist, the open descriptors; all actions of `KdbCache` while the module is live. |
| `KdbFork` | `KdbCache` with `kdb_vma_open` | Areas duplicated by fork or a split. |
| `KdbCacheInv` | | The inductive invariants of the proofs about `KdbCache`. |
| `UringblkQueue` | `uringblk_queue_rq` and both backends | One program counter per request, the contexts and pages allocated, `stats_lock`; copies sector by sector, callbacks that outlive their request, `stats_reset_store`. |
| `UringblkDisk` | What a disk promises | Requests take effect sector by sector, in place, and `ok` means all of them. |
| `UringblkAdmin` | `uringblk_uring_cmd` and its handlers | Commands in flight, the mutex, copies to and from user space, retries, signals, task work. |
| `UringblkModule` | `uringblk_init`, `uringblk_exit` | What is registered, the device array and list with their uninitialised entries; one action per step, failure and error label; administration files opened meanwhile. |
| `UringblkClient` | `UringBlkDevice` and `UringBlkManager` of `kvm_uringblk.cc` | The descriptor table, the descriptor each object owns, the call in progress with its ring, what io_uring is serving; one action per system call or step of a test. |
| `WalDriver` | The operations of the WAL driver | Positions copied before and stored after each handler or given by the caller, `status_mutex`, the counters as `u32`, the bio being served segment by segment. |
| `WalSystem` | Load and unload of the WAL driver with the program | Nine steps of the driver and their labels, the nodes in `/dev`, the program's system calls one by one, its death. |

The modules `..._proofs` hold the theorems; "What is proved" says which has what.
The modules `MC...` give the constants their values for TLC. Definitions whose
comment starts with "Mutant" are altered forms of a definition (a dropped
guard, a missing unlock, an off-by-one), used to confirm that each property can
fail; no specification uses them.

### Abstractions

*KdbCache.* A critical section of `hash_lock` or `kdb_dev.lock` is one step,
since everything it protects is only accessed under it; the lock of a logical
page is a variable, because `kdb_fault` allocates while it holds it. The hash
buckets are one set of linked objects; `Chain` is what a walk for a number can
find. The three allocations of a logical page are one step that succeeds or
fails. `total_faults` and `total_mkwrite` are read by nothing: counting them is a
step (the context is accessed) that stores nothing. Calls that are refused
change nothing and are stuttering steps. Mappings are shared ones. `Munmap` is
atomic and waits for the faults of the area, as the kernel's locks make it wait.
The test of `ctx` for NULL comes after its first use and is dead. Page contents
are left out: a page is what tells two mappings apart. The handlers return
`VM_FAULT_LOCKED` (`src/vma.c:76` and `:125`) without calling `lock_page`, which
tells the kernel that they hold the lock of the page. The kernel relies on that to
finish a fault before the page can be taken away. The model installs the page as
the code asks the kernel to, so it assumes an exclusion that the code does not
provide. Likewise `cp_pool_alloc` may sleep while the spinlock of the logical
page is held: the model lets an allocation take any time, for ever included, and
says who waits for it, but not what a kernel does that checks for it.

*KdbModule.* The steps of `kdb_init` and `kdb_exit`, each failure and each error
label, interleave with processes only through the module's reference count: a
file that is open, or that an area still maps, keeps the module in. `ptrs` is
kept beside `caches` because the code tests pointers that it does not clear.
`MaxFiles` bounds the descriptors open at a time.

*UringblkQueue.* Positions and lengths count sectors of 512 bytes. A flush or
passthrough request has no segment and the position -1, which the signed bounds
test lets through. The bounds branch is dead for requests the block layer
issues. A discard and a request to write zeroes have a length and no vector: the
block layer makes them that way. The loop over the segments of a discard then
reads a vector that is not there, and its handler is lost, with either backend;
so the discard branches of `uringblk_queue_rq`, with `virtual_backend_discard`, are
never reached. A context and its page are objects. The callback of a bio answers
the request and frees the context in a later step, when the tag may already
serve another request. `stats_lock` is held from the counting of an operation to
that of its sectors. The synchronous device operations (`device_backend_read`,
`_write`, `_flush`) and `device_backend_flush_async` are not reached from
`uringblk_queue_rq`.

*UringblkAdmin.* Of what commands answer only the feature word is kept, the one
piece of state they share; a word is the set of its bits. Lengths are too short,
acceptable or above 4096. An opcode without a handler stands for all of them.
A call that cancels a command (`IO_URING_F_CANCEL`) returns before it touches
anything, so it is a stuttering step and the command it is about goes on.

*UringblkModule.* What a step registers is an element of a set; `GARBAGE` is the
value of memory `kmalloc_array` did not clear. `wild` records the kinds of such
values that were followed or freed: a path of the list, a slot of the device
array, or the slot read by the open of an administration file. `max_devices` is
an int and may be negative. Once `cdev_add` has registered the numbers a file can
be opened through any node that has them, so also before the driver makes its
own node and after a failed load has left the interface behind.
`ParseDeviceList` is what the tokenising loop does: the separator it looks for
has been overwritten by the time it looks, so it stops after the first entry.

*UringblkClient.* One thread calls the library, as `kvm_db` does. Descriptors and
rings are the kernel's: `open` and `io_uring_queue_init` take the lowest free
descriptor or fail. What becomes of a request is the driver's doing: it is
answered in any of the ways `uringblk_main.c` answers, in its own time, and a
write that is answered with an error may have landed all the same. A wait can be
cut short by a signal, after which the request is an orphan that is still served.
A transfer is that of `main`, one page at offset 0 and so one segment. Nobody else
writes to the disks. Of a disk one block is kept, of an answer to a command only
whether it succeeded. `known` and `gaveup` are no variables of the library: they
record what the last successful write wrote and what failed ones were to write.

*WalDriver.* `status_mutex` is a variable: a handler counts its call and adds its
bytes in two steps, and a bio keeps the mutex over all its segments. `owed` is what
the holder has still to add. `read` and `write` work on the kernel's copy of
`f_pos`, `pread` and `pwrite` on a position of the caller's. `wraps` is no
variable of the driver: it records which counters have wrapped since they were
last reset. A block's content is zero, written or the message.

*WalSystem.* Each acquisition of the driver is a step, and so is each system call
of the program that looks at a node, makes, removes, opens or closes one.
`create_single_device` removes whatever is at the name it wants
(`src/kvm_wal.cc:96`), a node of the kernel's included; `cleanup_single_device`
only what the program made. When a creation fails the clean-up runs twice, in
the function and in the destructor; the second finds nothing and is left out.
The program starts over after it ends.

## What the runs check

Each run is a module and a configuration, `tlc -config <run>.cfg <module>`.

| Run | Instance | Shows |
|---|---|---|
| `KdbCache_cache` | 2 threads, 1 area of 2 pages laid out as one logical page or as two, 2 logical page objects, 2 frames | One logical page per number, one page per offset, references and counters equal to their holders, dirty before writable, `page_mkwrite` always finds its page, slots never change, the cache implements `KdbPageMap`; all with the layout changed between mappings. |
| `KdbCache_areas` | 2 threads, 2 areas | No use of freed memory, no frame in two slots, and `FullInv`, the inductive invariant of the proofs. |
| `KdbModule_life` | 2 threads, 1 area, 1 descriptor, three layouts (one wraps, one is refused), fair | Slab caches exist while objects do, through failing loads with their error labels, unloads and mappings that outlive their descriptor; the size test of mmap agrees with the bound of faults, also when the product wraps; every fault returns unless an allocation under the lock of its logical page never does. |
| `UringblkQueue_requests` | 2 requests of all kinds, 2 contexts, 2 sectors, pages of 2, one segment of at most a page, both backends, every allocation and bio failing, fair | Implements `UringblkDisk`; whoever takes `stats_lock` finds statistics that agree, under resets; a context is in the hands of one request or about to be freed; reads, writes, passthrough commands, requests to write zeroes and, on the virtual backend, flushes are answered. |
| `UringblkAdmin_commands` | 2 commands, one supported and one unsupported flag, fair | Features stay supported; answers are current; SET_FEATURES is all or nothing; every command is answered. |
| `UringblkModule_load` | lists of up to 2 entries, empty ones included, `max_devices` from -1 to 2, 2 minors, both backends | Only a list that begins with an empty entry leads to a pointer never set; a failed load keeps at most the administration interface; an unload keeps nothing; what an open file or a disk reaches is whole. Where `max_devices` leaves no device, the copied path is the exception (`Uncounted`). |
| `UringblkClient_calls` | 2 objects and the one of the tests, 1 disk, 3 descriptors, 2 requests of io_uring, 2 values, fair | Every descriptor has one owner, a successful read finds the last successful write or one that failed under way, every call returns unless it waits for a flush that is never answered. |
| `WalDriver_calls` | 2 threads on one file, positions 0 and 4 to seek to or to give, bios of up to 2 segments, 3 counted calls, counters of 4 values | Reads stay in the message; whoever takes `status_mutex` finds bytes that belong to the calls and segments counted, up to what has wrapped. |
| `WalSystem_run` | majors 240 and 250 | Every failed load and every unload gives everything back; storage outlives the disk; the clean-up of the program unlinks only nodes the program made. |

Three further runs state what the code or a document says and are violated:

- `KdbFork` (`NoDanglingContext`): a duplicated area keeps a context that the
  close of the other copy frees (`src/vma.c:132`).
- `UringblkQueue_segments` (`OkMeansWhole`): the device backend answers `ok`
  after the first segment, cut at a page (`driver/uringblk_main.c:242`).
- `UringblkQueue_flush` (`EveryRequestEnds`): with the device backend a flush is
  never answered (`driver/uringblk_main.c:248`).

### Further counterexample configurations

These are not part of the regular runs; each shows one disagreement between
the code and what is written about it, and TLC reports the property violated.

| Configuration | Property | Against |
|---|---|---|
| `KdbCache_lpcount` | `LinkedLpHasReference` | `src/lp_state.c:261` "Should not happen": the table holds no reference, so every idle logical page has count 0. |
| `KdbCache_leak` | `AllocatedIsCurrent` | `src/cp_pool.h:35`: pages stay allocated after unmap, no longer counted. |
| `UringblkQueue_blocks` | `OneAddressPerSector` | `docs/REQUITEMENTS-BASIC.md:24` "Logical sector size: 512–4096 bytes": a position in 512-byte sectors is multiplied by the logical block size. |
| `UringblkQueue_zeroes` | `DeclaredOpsServed` | `driver/README_URINGBLK.md:15`: write-zeroes is announced and refused. |
| `UringblkQueue_discard` | `EveryRequestEnds` | `docs/REQUITEMENTS-BASIC.md:159` "ensure eventual completion or `-EIO`": with either backend the handler of a discard is lost in the loop over segments it does not have. |
| `UringblkAdmin_nonblock` | `NonblockNeverSleeps` | `driver/uringblk_main.c:592`: the mutex can be taken between the look and the lock. |
| `UringblkModule_leak` | `FailedLoadReleasesAll` | `docs/uringblk-specification.md:499`: a failed load leaves the administration region, cdev and class. |
| `UringblkModule_list`, `UringblkModule_paths` | `EveryListedPathHasDevice`, `DevicesSitOnListedPaths` | `driver/uringblk_main.c:92`: only the first path is parsed, and the device takes `backend_device` instead. |
| `UringblkModule_hole` | `NoWildPointer` | `driver/uringblk_main.c:1790`: a list that starts with an empty entry leads to an entry never set. |
| `UringblkModule_open` | `NoStrayOpen` | `driver/uringblk_main.c:1570`: the numbers can be opened before the device behind them is there, and after a failed load. |
| `UringblkClient_poll` | `PollFallback` | `src/kvm_uringblk.cc:243` "Fallback to regular ring if polling not supported": the ring of a disk that cannot be polled is made all the same, and the transfer then fails. |
| `WalDriver_first` | `FirstReadReturnsMessage` | `driver/README.md:14`: after a write through the same file the first read can return nothing. |
| `WalSystem_nodes` | `NodesLeadToDriver` | `driver/wal_driver.h:5`: the program's node has a fixed major number. |

Two further configurations of `UringblkClient` are kept. `UringblkClient_late`
(`NoLateRead`, violated) shows that a read whose wait is cut short stays in flight
after its call has returned. `UringblkClient_two` is a larger instance of
`UringblkClient_calls` with two disks and passes (about 2.5 million states).

### Bounds

Two threads are enough for the races of the cache: every conflict (two lookups
that miss, two empty slots, an insertion lost) is between two faults, and the
proofs below hold for any number. Two offsets share one logical page in one
layout, so a neighbour's slot and dirty bit can be disturbed, and have one each in
the other, so that both objects are linked. There are as many frames as slots:
frames left behind by an unmap exhaust the pool, so allocation failure happens by
itself as well as by choice. In `KdbModule_life` sizes wrap at 16 bytes with pages
of 2, and one area with one descriptor lets a mapping outlive its descriptor
while the module is asked to go. Two requests over two sectors can overlap in
part and interleave sector by sector, and two contexts let one wait to be freed
while its tag serves a new request that has the other; the proofs hold for any
number. In `UringblkClient_calls` three descriptors run out (two objects and a
ring use them all) and two requests let an orphan be served during a later call.
`MaxRequests`, `MaxCalls`, `MaxFiles` and the sizes of the object sets are the only
bounds on counters. In `WalDriver_calls` `U32` is 4, so that the totals of bytes
wrap within three calls and the counts do not; `BytesBelongToCalls` bounds a total
from above while the counts have not wrapped and from below while the total has
not. Position 4 lies past the message, whose length is 3.
Runs without a deadlock check are those that stop: the bound on requests is
reached, or the module has failed or exited.

`KdbCache_cache` and `KdbCache_areas` use symmetry over threads, areas, contexts,
logical pages and frames, and `WalDriver_calls` over threads, which the
specifications treat alike; they check no liveness. The two temporal properties
of `KdbCache_cache` are safety properties.

### Fairness

`KdbCache`: weak fairness of each thread inside a handler (the kernel schedules
it), except while it allocates a page, since `alloc_page` may take any time; and
strong fairness of taking the lock of a logical page (the kernel's spinlocks are
queued), in `kdb_fault` and in `kdb_page_mkwrite`. No fairness of faults, maps or
unmaps.
`UringblkQueue`: weak fairness of the handling of each request, the device's
answer to a bio included; none of submission. `UringblkAdmin`: weak fairness of
each command's steps, strong fairness of taking the mutex, which hands over to
its waiters; signals are never required. `UringblkClient`: weak fairness of the
library's steps, since the calling thread is scheduled, and of the driver
answering each request but a flush, which `UringblkQueue_flush` shows it may lose;
none of the program's calls, and a wait is never required to fail. `KdbModule` takes the fairness of
`KdbCache` and adds none: nobody need load or unload the module.

## What is proved

The theorems hold for all values of the constants that satisfy the assumptions
the modules name; nothing else is assumed.

| Module | Theorem | Statement |
|---|---|---|
| `KdbCache_proofs` | `TypeCorrect` | `Spec => []TypeOK` |
| | `OneLp` | `Spec => []OneLpPerLpn` |
| | `NoDanglingUse` | `Spec => []NoUseAfterFree` |
| | `OnePage` | `Spec => []OnePagePerOffset` |
| | `DirtyBeforeWrite` | `Spec => []WritableIsDirty` |
| | `MkwriteLookup` | `Spec => []MkwriteFindsLp` |
| | `Stable` | `Spec => SlotsAreStable` |
| | `HoldersCounted` | `Spec => []RefcountIsHolders` |
| | `Inductive` | `Spec => []FullInv` |
| | `FramesDiffer` | `Spec => []PagesNotAliased` |
| | `RefsCounted` | `Spec => []CachedPageRefs` |
| | `AllocatedCounted` | `Spec => []AllocatedCountsCached` |
| | `Refines` | `Spec => ImplementsPageMap` |
| | `CachesOutliveObjects` | `SpecModule => []CachesHoldObjects` |
| | `MappingsInRange` | `SpecModule => []AcceptedMappingInRange` |
| | `InductiveInLife` | `SpecModule => []FullInv` |
| | `CountedInLife` | `SpecModule => []AllocatedCountsCached` |
| | `PoolSettles` | `SpecModule => []PoolSettled` |
| | `RefinesInLife` | `SpecModule => ImplementsPageMap` |
| `UringblkAdmin_proofs` | `TypeCorrect` | `Spec => []TypeOK` |
| | `Supported` | `Spec => []FeaturesSupported` |
| | `Current` | `Spec => []AnswerIsCurrent` |
| | `AllOrNothing` | `Spec => SetIsAllOrNothing` |
| `UringblkQueue_proofs` | `TypeCorrect` | `Spec => []TypeOK` |
| | `NoContextLeft` | `Spec => []ContextsFreed` |
| | `Together` | `Spec => []StatsTogether` |
| | `WhatOkMeans` | `Spec => []OkTransfers` |
| | `OthersAnswered` | `Spec => []OnlyTheseLost` |
| | `OkIsWhole` | `OneBio` implies `Spec => []OkMeansWhole` |
| | `SectorsInPlace` | `LBS = 1` implies `Spec => []OneAddressPerSector` |
| | `InsideMedium` | `Spec => []TransfersInside` |
| | `Refines` | `Whole` implies `Spec => ImplementsDisk` |
| `UringblkClient_proofs` | `Owned` | `Spec => []OneOwner` |
| | `ReadsBack` | `Spec => []ReadsBackWrites` |
| `UringblkModule_proofs` | `TypeCorrect` | `Spec => []TypeOK` |
| | `DeviceWhole` | `Spec => []ReachableDeviceWhole` |
| | `ExitGivesBack` | `Spec => []ExitReleasesAll` |
| | `FailedLoadGivesBack` | `Spec => []FailedLoadKeepsAtMostAdmin` |
| | `WildFromHole` | `Spec => []WildOnlyFromHole` |
| `Wal_proofs` | `AllReleased` | `SpecSystem => []NothingLeftBehind` |
| | `DiskHasStorage` | `SpecSystem => []StorageUnderDisk` |
| | `OwnNodesRemoved` | `SpecSystem => []CleanupRemovesOwn` |
| | `TypeCorrect` | `Spec => []TypeOK` |
| | `BytesCounted` | `Spec => []BytesBelongToCalls` |
| | `ReadsInMessage` | `Spec => []ReadStaysInMessage` |

### The KDB cache

The assumptions are those of `KdbCache`: layouts are records of naturals, sizes are
positive, `NULL` is no object, and the sets of objects, offsets, threads and
areas are finite (`FiniteAssumption` is what lets holders be counted).

None of the properties is inductive alone. The invariant `IInv` of `KdbCacheInv`
adds, in this order of dependence: `CtxInv` (a thread inside a handler works on
a mapped area with an allocated context of valid layout, and no two areas share
one, which is what fails once areas are duplicated), `LocalInv` (where a thread
has a logical page or a page), `LpInv` (a linked object is linked once, an object
about to be inserted is known to one thread, an object that was found is the
linked one for the thread's offset), `LockInv` (the thread in the critical section
owns the lock, and the slot it is about to fill is still empty), `PageInv` (the
pages in flight and installed are those in the slots) and `DirtyInv` (a thread
past `set_bit` finds the bit set). Each conjunct is shown to be kept by the steps
of a thread, by the start of a fault and by the calls of users.
`KdbCacheSteps_proofs` has these lemmas, and those about owners, ranges and the page
map below; `KdbCacheRefs_proofs` has what is counted; `KdbCache_proofs` puts them
together and has all the theorems. The proofs rest on lemmas about what a step
leaves alone (`StepFrame`, `StepTables`) and on `CpiInArray`, that an index computed
by `kdb_fault` lies inside the array.

The references of pages need more: that a frame is in one slot depends on
`cp_pool_alloc` handing out only frames nobody refers to, and that the frame of a
slot has references depends on the count being right. So `PagesNotAliased` and
`CachedPageRefs` are proved together, in `FullInv`, with `NewInv` (a logical page
that is not yet inserted has no page) and `FreshInv` (a page on its way to its
slot is in no slot and with no other thread, and has its one reference). TLC
checks `FullInv` in `KdbCache_areas`. Each step then changes the set of holders of a
page or logical page, or of filled slots, by at most one member, and the counter
with it; `munmap` takes away a whole area's at once.

For the refinement, `TableForm` says that the entry of an offset is what the one
logical page of that offset has in the offset's slot; `CpStore` is the step of the
map that fills an entry, `MkMark` the one that marks an offset, `MapPage` installs,
and every other step of a handler leaves all tables alone.

For the module, `ModuleInv` keeps `IInv` through loads and unloads and adds `OwnersInv` (a
context belongs to a mapped area, a logical page is linked or about to be) and
`LifeInv` (which caches exist at which step; descriptors and areas only while the
module is live). `MappingsInRange` needs no more than arithmetic: reduction
modulo 2^64 only makes the size smaller. The theorems named `...InLife` carry the
results about `Spec` over to `SpecModule`. Every step of the module is a step of
the cache, one that the cache does not see, or `Load` (`ModuleSteps`), and `Load`
resets the layout and the counters of the pool only: it can do that because a
module that is not live has no slot filled and no thread in a handler
(`EmptyWhenOut`). `PoolSettled` says that the three counters of the pool agree
and that a module that is not live reports no page, so the warning of
`cp_pool_exit` is dead. That is a statement about the counters: the frames
themselves stay allocated, as `KdbCache_leak` shows, and the report does not tell.

### uringblk

`UringblkAdmin_proofs`: `IInv` says that the command between lock and unlock is
the one that has the mutex, that a handler's local copy is the features, which
nobody changes meanwhile, or the checked argument, and when the user's buffer is
still empty. The assumptions are `FlagsAssumption`
and `InputsAssumption` (commands are records of the right shape).

`UringblkQueue_proofs`: `IInv` says that a request being served passed the bounds
test and that no more has been transferred than it is long (`Serving`), who has
each context and page (`CtxInv`: exactly the requests at the steps from the
allocation to the answer, each its own), and that the counters agree or will
when the handler that has `stats_lock` has counted its sectors (`StatsInv`).
For the refinement `DInv` adds what the
buffers hold (`Memory`). `Refines` has the hypothesis `Whole`: logical blocks of
one sector and, with a device backend, one segment of at most a page (`OneBio`);
outside it the run `UringblkQueue_segments` shows that the statement is false.
Five theorems say how far the disagreements found go. `AnswerInv` adds to `IInv`
that each backend's steps are taken with that backend only. `WhatOkMeans` then
gives, without any hypothesis, the sectors that `ok` stands for, and `OkIsWhole`
that these are all of them under `OneBio` (for the virtual backend alone, always).
`OthersAnswered` says that the flush of `UringblkQueue_flush` and the discard of
`UringblkQueue_discard` are the only kinds of request that are lost. The wrong
multiplication behind `UringblkQueue_blocks` does no harm with blocks of one sector (`SectorsInPlace`), and with larger ones it
leads to a wrong place but never outside the medium (`InsideMedium`), since the
product is what is tested.
`LengthsAssumption` states that the length of a request lies between that of its
first segment and `MaxLen`. It is a fact about a fold over the segments that
would need induction; TLC evaluates it on every run.

`UringblkClient_proofs`: `CallInv` (a call has a ring and a request exactly at the
steps where the code has them) and `FdInv` (descriptors and their owners) give
`Owned`; `LateInv` (a write that was given up and is still served is one of
`gaveup`) and `DataInv`, which relates what succeeded and was given up, what the
write in progress has put on the disk and what a read has found, give
`ReadsBack`. `NullAssumption`
says that `NULL` is none of the values it stands beside.

`UringblkModule_proofs`: since the list ends after its first entry there is at
most one device (`LoopInv`). `DeviceInv` says which of its parts it has at each
step, error label and step of unloading, and where a file opened through its
node can exist; that gives `DeviceWhole` for all parameters. `HeldInv` lists what
the driver may have at each step. Where `max_devices` is not positive,
`device_count` no longer covers the entry of the list, whose string is then not
freed: `Uncounted` is that string. `WildInv` says that what was parsed has an entry
unless the list begins with an empty one; `UringblkModule_hole` shows what
happens then. `ModuleAssumption` says that `NULL`, `EMPTY` and `GARBAGE` are told
apart from paths and lists, and that there is a minor.

### The WAL driver and the program

`Wal_proofs` is about both modules, whose names do not clash. For `WalSystem`,
`LoadInv` says what the driver has at each of its nine steps.
`UndoInv` says that what an error path or `wal_driver_exit` still has to release is
exactly what the driver has, each thing once, and nothing but the `/proc` entry
before the disk; the lemma `Sequences` shows it for each of the ten sequences of
the code, and `Released` that it stays so as they are worked off. `NodeInv` ties a
node of the kernel's to a registered device and `ProgramInv` says that the
program has made no node yet where it is about to make one: without it
`CleanupRemovesOwn` could be lost when `create_single_device` removes what is
there. The assumptions are that major numbers are positive and that `NULL` is no
node.

For the devices, `DevicesInv` consists of the type invariant, `HandlerInv` (a call
whose handler has not returned has no result yet), `LockInv` (bytes are owed only
while `status_mutex` is held), `BytesInv` and `ReadStaysInMessage`. `BytesInv` is the
relation of `BytesBelongToCalls` between a total and the counts of the calls and
segments that add to it, with the bytes still owed added to the total, so that it
holds at every step and not only when the mutex is free. A call adds one to a
count and at most a page or a segment to the total, both modulo `U32`; the lemmas
`Upper` and `Lower` show that the bound from above survives as long as no count has
wrapped and the bound from below as long as the total has not, and `Wrapped` what
one addition does. Serving a bio one segment at a time is what makes this a
matter of single additions. `WalAssumption` says that sizes are positive, that
there is a file, that a bio has at least one segment, each of at most a page, and
that no thread is called what the mutex holds for a bio or for nobody.

### Only model-checked

Liveness (`FaultReturns`, `EveryRequestEnds`, `EveryServedRequestEnds`,
`EveryCommandAnswered`, `CallsReturn`), which like `ENABLED` is out of the prover's
reach. Every invariant and every action property of the passing runs, and both
refinements, have a theorem. Outside `Whole` and `OneBio` nothing is claimed of the
theorems that have them as hypotheses. That the fold
that adds up the segments of a request has the bounds of `LengthsAssumption`
is evaluated by TLC and not proved.

## What is not modelled

- `src/kvm_probe.cc`, the test programs and the build scripts: I/O and clients.
- The tests of `WAL_device_interface`: each reads or writes once through an open
  node, compares and prints, and keeps nothing; what the driver does with the
  calls is in `WalDriver`.
- The sysfs attributes that only show a value, `/proc/wal_driver`, the latency
  percentiles (no code records a latency) and `wal_block_request`, compiled only
  for kernels before 5.9.
- The synchronous operations of the device backend, the discard branches of both
  backends, `cp_pool_free` and the
  accessors of the client library that change nothing: no execution
  reaches the others.
- Memory ordering weaker than interleaving, what the kernel does about sleeping
  in atomic context and about the page lock that the KDB handlers do not take, and
  page contents of the KDB cache.
- `Requirements_Specification.md` describes components without code.
