# Memory management of gem5 with a separate NVM: specifications and proofs

The repository is gem5 20.1 with a patch (`HOWTO-NVM.md`, section 4.2) that
gives a simulated system two physical memories: a volatile one at address 0 and
a non-volatile one (NVM) at `NVM_START_ADDR`. In system-call emulation mode a
virtual address in the NVM range must get an NVM frame, every other address a
volatile one. This directory specifies that part of the simulator in TLA+,
checks it with TLC and proves its main properties with TLAPS.

Paths below are relative to `src/gem5-20.1/src` unless they start with `src/`.

## The system and its parts

| Part | Code | Here |
|---|---|---|
| Physical page allocators | `sim/system.cc` | `PhysPages`, `AllocLoop` |
| Virtual memory areas | `sim/vma.*`, `sim/mem_state.cc` | `VmaList` |
| Address space state | `sim/mem_state.*` | `MemorySpaces` |
| Emulated page table | `mem/page_table.*`, port proxies | `MemorySpaces` |
| Processes, memory system calls, faults, checkpoints | `sim/process.cc`, `sim/syscall_emul.*`, `arch/x86/process.cc` | `MemorySpaces` |
| TLBs | `arch/x86/tlb.cc` | planned (1) |
| Futexes, threads, exit | `sim/futex_map.*`, `sim/syscall_emul.cc` | planned (2) |
| Memory controller, NVM interface | `mem/mem_ctrl.cc`, `mem/mem_interface.cc` | planned (3) |
| MI_example coherence | `mem/ruby/protocol` | planned (4) |
| Garnet flow control | `mem/ruby/network/garnet` | planned (5) |
| Event queue, drain | `sim/eventq.*`, `sim/drain.*` | planned (6) |
| Classic caches, crossbars | `mem/cache`, `mem/coherent_xbar.cc` | planned (7) |
| CPU models, instruction sets, devices, GPU, SystemC, vendored code | `cpu`, `arch`, `dev`, `gpu-compute`, `systemc`, `ext` | not modelled |

The interaction that matters: a system call changes the list of areas
(`MemState`) and the page table; a page fault consults the areas and asks
`Process::allocateMem` for a frame; the virtual address selects the allocator;
`clone` and `execve` build a second page table; a checkpoint saves some of this
state and a restored simulation starts from it.

## Modules

* `PhysPages`: the two allocators. A page number stands for a page-aligned
  address, a *frame* is a physical page. `allocPhysPages` is in closed form;
  `VolatileEnd` and `VolatileRun` describe a series of one-page requests.
* `AllocLoop`: `allocPhysPages` statement by statement; compared with the
  closed form.
* `VmaList`: areas with their host buffers; `unmapRegion` and `remapRegion` as
  functions from lists to lists.
* `MemorySpaces`: the composition. A *space* is a process with its own page
  table; processes made with `CLONE_VM` act on the space of their creator.
* `FreshFrames`: the abstract promise of frame allocation. An entry has its
  frame for itself, and a frame an entry gets comes from another entry or was
  never handed out before.
* `MemorySpacesProofs`: the theorems.
* `MCAllocLoop`, `MCVmaList`, `MCMemorySpaces`: boards, programs and bounds for
  TLC, and in the last one the statements of documents and comments that TLC
  refutes. `MCVmaList` also holds the reference meaning of a list of areas.

### State of `MemorySpaces`

| Variable | Code |
|---|---|
| `pagePtr`, `pageNVMPtr` | the members of `System` |
| `pTable` | `EmulationPageTable::pTable` of each space, `-1` for no entry |
| `mem` | `MemState`: `users` says who holds it (a configured process, one made by clone or execve, several after `CLONE_VM`), `brk` is `_brkPoint` (bytes), `endBrk` `_endBrkPoint`, `stackMin`, `mmapEnd`, `vmas` `_vmaList` |
| `live` | spaces whose process ran `initState` |
| `ckpt` | the checkpoint on disk |
| `restored` | the simulation started from a checkpoint |
| `sim` | `"running"`, or the panic, fatal error or failed assertion that ended it |

### Actions

| Action | Code |
|---|---|
| `InitState` | `initState` of a configured process: image, initial stack, vsyscall page |
| `Fault` | `PageFault::invoke`, `MemState::fixupFault`, stack growth included |
| `Brk` | `brkFunc`, `updateBrkRegion` |
| `Mmap`, `MmapFixed`, `Munmap` | `mmapFunc`, `munmapFunc`, `extendMmap`, `mapRegion`, `unmapRegion` |
| `MremapGrow`, `MremapShrink` | the branches of `mremapFunc` |
| `Fork`, `CloneVM`, `Execve` | `cloneFunc`, `Process::clone`, `replicatePage`, `execveFunc` |
| `Checkpoint`, `Restore` | `serialize` and `unserialize` of `System`, `Process`, `MemState`, `EmulationPageTable` |

A system call, a fault or a checkpoint runs to completion inside one event of
the single-threaded simulator, so each is one action. Interleaving is between
events of different processes. A loop that allocates page by page is one
*placement* of frames on pages, constrained by the order of the loop;
`getMappings` walks an unordered map, so the order in `Fork` is free.

Abstractions:

* Pages are the unit, except for the break. Lengths are positive.
* Page contents, flags and names are left out.
* A mapped file is the number of pages it holds behind the mapped offset. With
  none, the constructor of `MappedFileBuffer` panics (`filePanic`); its panics
  for a length of zero and for a failing host `mmap` are left out.
* System calls that return an error without a state change are stuttering steps.
* Exit is not modelled. After `execve` in a space that `CLONE_VM` shared, the
  others may still run on the old page table or may all have gone before:
  `Execve` has both outcomes. Once a space has been shared it counts as shared.
* The order in which `argsInit` writes several stack pages depends on the
  arguments and is free in the model.
* A checkpoint is taken while only configured processes run, none of them
  replaced by `execve`: the others do not exist in a restarted simulation.
* The test for the NVM range is written out four times in the code, in equal
  form, and is the one definition `InNvm` here.
* Assertions are enabled, as in `gem5.opt`.

mremap may move a range anywhere, onto areas and pages and onto itself. The page
loop of `remapRegion` goes upwards, so an entry that lands higher up in its own
range is moved again; `Landing` says where it ends, and `Collide` when it meets
a mapped page, which fails the assertion of `EmulationPageTable::remap`.

## Runs

Passing runs:

| Run | Shows | States |
|---|---|---|
| `alloc_loop` | the skip loop agrees with the closed form, ends, avoids the NVM | 1,850 |
| `vma_list` | areas are never empty; as long as no page moved onto a reserved one, areas are disjoint and host buffers mean what the calls asked for | 363,973 |
| `calls` | brk, mmap, munmap and faults: types, private frames, separated memories, disjoint areas, no page without area, the break within `_endBrkPoint` | 206,174 |
| `fork` | fork, threads, execve, heap and stack growth: private and fresh frames | 11,677 |
| `restore` | checkpoint, restore, execve: the inductive invariant itself | 2,984 |
| `mremap` | all branches of mremap, onto any target: private and fresh frames | 116,722 |

Runs that refute a statement (each is a finding in `PROJECT.json`):

| Run | Statement |
|---|---|
| `nvm_overflow` | NVM addresses get frames of the NVM |
| `mremap_crosses` | no volatile address gets an NVM frame (a single page moves) |
| `mremap_overlap` | regions do not overlap; a remapped region is joined with one it meets |
| `restore_shares` | allocated NVM pages are unused, after a restore too |
| `mremap_no_area` | physical memory always has an area |
| `restore_break` | `_endBrkPoint` is the furthest mapped heap location |

`remapRegion` and `mremapFunc` do not look at the areas of the target. The two
properties of `vma_list` about the meaning of the list are therefore claimed up
to the first page that moves onto a reserved one, and `AreasDisjoint` for
workloads without mremap; `mremap_overlap` shows it broken by two mmaps and one
mremap.

Other behaviour the model shows and no run states: the heap of a program with a
`.NVM` section starts behind it, in the NVM range; mremap onto a mapped target
fails the assertion of `EmulationPageTable::remap`; the in-place branch of
mremap, which a comment calls impossible when growing downward, follows a hinted
mmap that ends at `_mmapEnd`; a forked child keeps initial pages its parent had
unmapped.

### Bounds

The board has five volatile pages, a hole of two, an NVM of two pages and the
extra page that the inclusive `NVM_END_ADDR` adds. Memory therefore runs out,
the NVM overflows and the boundary page is used within a few steps. `fork` uses
three more volatile pages, so that a fork or an execve still finds memory after
a thread was made. `mremap` leaves room for one NVM page beyond the image; its
argument pages are adjacent, so that two-page ranges overlap themselves in both
directions and straddle the end of the NVM. The heap starts inside the NVM range and grows out
of it, the mmap region comes down to it, so that areas, heap and NVM boundary
meet. `Ops` selects the calls of a run.

* `NvmBound` caps `pageNVMPtr`, which the code never bounds; it exceeds the NVM
  where a property depends on that.
* `MmapFloor` caps how far down the mmap region grows.
* `MaxAreas` caps the areas a space has when it makes a call.
* `MaxRequest`, `MaxCalls`, `Top` bound the runs of `AllocLoop` and `VmaList`.
  `AllocLoop` uses a board with memory behind the NVM, and requests up to the
  size of the NVM.

Deadlock is not checked: the simulation ends with a panic, a fatal error or an
assertion, and the capped counters stop a run.

### Fairness

Only `AllocLoop` states a liveness property, `SkipTerminates`, under weak
fairness of the loop and of the return: the loop is sequential code of the
simulator. What a workload does next is never assumed.

## Proofs

`MemorySpacesProofs` proves, for any number of spaces, pages and calls:

* `FrameInvariant`: `Spec => []FrameInv`;
* `FrameTypes`: `Spec => []FrameTypeOK`, the part of `TypeOK` about frames;
* `FramesArePrivate`: `Spec => []FramesPrivate`;
* `MemoriesAreSeparate`: `Spec => []SpacesSeparated`;
* `FramesAreFresh`: without checkpoints, `Spec => ImplementsFreshFrames`.

`FramesPrivate` is not inductive: a new frame is unused only because every frame
in use lies below the pointer of its allocator, and the two allocators never
meet because `pagePtr` stays below the NVM. `FrameInv` adds both, and the same
facts about the checkpoint, to which `Restore` returns. NVM frames of a restored
simulation are excepted, because `pageNVMPtr` is not saved.

The argument rests on one relation between page tables. `Inherits` says that
each frame of the new table was in the old one or is fresh, and that no two
entries come from the same one. A page that mremap moves needs no case analysis
of where it lands: two pages of the new table have different movers. `InheritsPreserves` derives the invariant from
it once; each action is then shown to be such a step. `FramesAreFresh` reads
the same relation as a step of `FreshFrames`.

Assumptions: `LayoutAssumption` (the m5ops range lies above the memory),
`BoardAssumption` (no memory above `NVM_END_ADDR`, as on the boards of
`src/configs/NVM`; with more memory a request of several pages that is moved
behind the NVM would reserve only one of them), and `SpacesAssumption` (types of the constants).

Only model-checked: `AreaTypeOK`, `AreasDisjoint`, `PagesHaveArea` and
`BreakWithinHeap`, which depend on lists filtered with `SelectSeq`, about which
the provers know nothing; the meaning of `unmapRegion` and `remapRegion`; that
the loop of `allocPhysPages` computes its closed form, an induction;
`SkipTerminates`, a liveness property.

## Hazards

`PROJECT.json` lists what can go wrong where. The groups are: the edges of the
NVM range; allocators at their limit; list surgery on areas; state a checkpoint
forgets; mremap; and, for the planned parts, stale TLB entries, futex
bookkeeping, a controller that waits for an event, and credits.

## Plan

In order of importance for this fork of gem5:

1. `Tlb`: the translations each context caches, over `MemorySpaces`; flushes of
   munmap, mremap, clone and execve. Property: a cached translation agrees with
   the page table of the process on that context. Candidate for a proof.
2. `FutexMap` with threads and exit: each waiter is in one list, `waitingTcs`
   agrees with the lists, exit wakes the joiner. Liveness of wake-ups.
3. `NvmCtrl`: queues and bus direction of the memory controller with
   `NVMInterface`; bounds on pending reads and writes, no lost restart (liveness
   under fair events), refinement of a queue that answers every read once.
4. `MIExample`: caches and directory; single writer, abstract memory as the
   refined specification.
5. `GarnetCredits`: credits and buffer slots of a virtual channel add up.
6. `EventQueue` against a sorted reference; `Drain` composed with checkpoints.
7. MSHR targets and the snoop filter.
8. Further proofs: areas on a representation that avoids `SelectSeq`; the
   invariants of 1 to 3 and 5.

Not planned: CPU pipelines, instruction sets, devices, GPU, SystemC, vendored
libraries and benchmark results. They are untouched by the patch or are not
part of its two configurations.
