# TLA+ models of wow-optimize

wow-optimize is a library injected into the client of a game (`src/src/core/dllmain.cpp`
installs it). It replaces functions of the client and of Direct3D 9 with faster ones. Most
of its 770 files are one sequential replacement each, and their reference is the machine
code they replace, which is not in the repository. What can be wrong in ways a test hardly
reaches is the part with state, threads or waiting of its own, and that is what is modelled here:

* the **render thread**: Direct3D calls of the client's main thread go into a lock-free ring
  and a second thread executes them (`gx_ring.h`, `gx_render_thread.cpp`, `gx_buffers.cpp`,
  `gx_internal.h`);
* the **write batcher**: small file writes of the client gather in one buffer
  (`client_write_batch.cpp`);
* the **fork-join workers**: particles and animated models of a scene are cut into slices for
  worker threads (`parallel_particles.cpp`, `m2_parallel_roots.cpp`, `m2_parallel_children.cpp`);
* the **delayed texture release**: last releases are withheld for some seconds, and not in
  transitions (`texture_unload_delay.cpp`, with `loading_state.cpp` and `allocators/loading_defrag.cpp`);
* the **bytecode store**: compiled Lua chunks kept on disk from session to session, by a client that is
  killed, never closed (`runtime_vm/lua_bytecode_store.cpp`);
* the **Lua state**: the client replaces it under the library at every reload
  (`runtime_vm/lua_optimize.cpp`).

The line numbers of this file refer to `src/src/hooks_subsystems/` unless a path says
otherwise. `RT` is `gx_render_thread.cpp`, `BF` is `gx_buffers.cpp`, `LO` is
`src/src/runtime_vm/lua_optimize.cpp`, `BS` is `src/src/runtime_vm/lua_bytecode_store.cpp`.

## Inventory

| component | state | operations | talks to | hard part | what makes it correct |
|---|---|---|---|---|---|
| command ring (`gx_ring.h`, `RT` 290-378) | cursors `wr`, `pub`, `rd`, `rdCache`; `sleeping`; events; 4 MB of slots | Emit, RingReserve(Full), Flush, RenderThreadProc, Drain, Shutdown | every thunk | two threads without a lock, x86 store buffers, 32-bit wrap, sleeping consumer, dead consumer, drain that gives up | FIFO of whole commands; no slot reused early; no lost wake-up; waits end |
| frames and locks (`RT` 327-350, 546-770; `BF` 214-340) | frame counters, two arenas, lock modes, shadows, `g_queueOff`, last Present's result | Present, Throttle, Flip, Lock, Unlock, upload, SwitchTo, Reset | ring, governor, device | data read two frames after it was written; real locks against queued draws; switching modes; device loss | the device sees the client's calls and data in order |
| device life cycle (`RT` 940-1330) | `g_armed`, `g_active`, `g_dead`, `g_thread`, vtables, originals | loader hook, CreateDevice hook, OnMainThreadTick, StartThread, PatchDevice, Shutdown | client, runtime | devices replaced while commands are queued, a thread that cannot start or dies | commands run on their device; queueing only with a consumer |
| buffer table (`BF` 60-140) | 32768 slots | Find, Insert, Erase | locks | backward shift over the wrap-around, one lock for two threads | every tracked buffer is found |
| buffer references (`BF` 170-212, 255-330) | references, entries, `g_emulatedLocks` | create, track, lock, unlock, release on either thread | table, ring | last reference dropped by either thread, address re-used | uploads keep buffers alive; counts agree |
| governor (`RT` 580-690) | stint, sums, `want` | GovernorOnPresent, GovernorHold | SwitchTo | retries, voided stints | a mode is held because it was measured faster |
| write batcher (`client_write_batch.cpp`, hooks in `core/dllmain.cpp` and `loading_state.cpp`) | one buffer, its owner, counts | TryAbsorb, FlushHandle, OnClosing, FlushAll | client I/O on any thread | several threads, failing writes, exit | every file gets its bytes in order |
| particle fill (`parallel_particles.cpp`) | one job; claim word, generation, count of chunks done; per worker a flag and an event | RunLoop, Parallel, RunJob, RunChunks, WorkerProc, Shutdown | client's emitters | a claim word re-used by every job, workers asleep between jobs, a chunk that faults | the buffer is what the client's loop would have left |
| M2 animation (`m2_parallel_roots.cpp`, `m2_parallel_children.cpp`) | recorded roots, probe counts; a pool in use; per pool slices, events, a countdown | Site_Animate(Alt), Site_Dispatch, Site_Wait, the attachment hook, two kinds of worker | client's scene pass and its own worker | two pools entered from inside each other, faults, fall-back to the client's way | each model once, nobody animates after the wait |
| delayed texture release (`texture_unload_delay.cpp`) | queue and set, two counters, the time of the last transition | hook on release, OnFrame, Flush, Discard | loading screen, Lua swap, client's textures on other threads | texture re-acquired while queued, transitions that never end | a release withheld owns a reference and is made or taken back |
| loading screen (`loading_state.cpp`, `allocators/loading_defrag.cpp`) | two flags, a watchdog | loading events, IsLoadingActive | textures, writes, arenas | an end without a begin, a begin without an end | the window closes |
| Lua state (`LO`) | `g_luaInitState`, `Api.L`, pending state and its counts, swap flags, marker counts, `gcOptimized` | OnMainThreadSleep, DoMainThreadInit, FrameScript hook, OptimizeGC, PublishGcActive | the client's Lua, the companion addon | replaced at a new address, at the old one, torn down before it goes | the last state is taken over and its collector stepped by somebody |
| bytecode store (`BS`, called by `lua_proto_cache.cpp`, reading through `lua_undump.cpp`) | two files, the index in memory, the append position, dirty and dead | Init, LoadIndex, StartFresh, Lookup, Confirm, Capture, SaveIfDirty | proto cache, undumper, the periodic report | killed at any step, power lost, a patched client, writes that fail | a lookup reads the dump of the chunk asked for; what was saved lasts |
| task pool (`hooks_async.cpp`) | ring of tasks | none: every producer is compiled out (205, 368, 457, 540) and no worker is started (625) | | | |
| addon dispatcher (`threading/addon_dispatcher.cpp`) | queue, worker set | CollectCallback has no caller | | | |
| nameplate and grass workers | slices | dispatch, join | scene | off unless configured | |
| file read-ahead, saved variables | queues | hooks | client I/O | result is data only; the asynchronous saver is not installed | |
| lookup caches, coalescers, quality governors, guards, fast paths | one cache or value each | one hook each | client | completeness of invalidation | a fact about the client's binary |
| Lua VM fast paths and caches | tables, collector pace | one hook per API function | Lua state | sequential | equal to the function replaced |
| allocators | heap choice, pressure | malloc family, ticks | every thread | fallback order | see the plan |
| diagnostics, SIMD kernels, core, launcher | logs; none; configuration | | | | not modelled |

`PROJECT.json` lists every component with its files, and the hazards line by line.

## Modules

    GxQueue                       what the ring promises: calls in order, each once
      ^ implemented by
    GxRing   --- GxRing_proof     the ring's protocol, memory access by memory access
    GxFrames --- GxFrames_proof   frames, arenas, locks, uploads, on top of the queue;
                                  implements GxQueue itself, with data
    GxDevice --- GxDevice_proof   the device's life
    GxGovernor                    the governor, on top of SwitchTo (proofs: GxDevice_proof)
    GxTable   GxBuffers           the buffer table; references, entries and lock counts
       \       /
       GxTracked --- GxTracked_proof   both, under the table's lock
    WriteBatch --- WriteBatch_proof   the write batcher
    ParticleJobs --- ParticleJobs_proof   the particle fill
    M2Scene                       both pools of the animation pass, one inside the other (proofs: ParticleJobs_proof)
    TextureDelay --- TextureDelay_proof   withheld releases, the loading screen, the addon and the swap flags
    BytecodeStore --- BytecodeStore_proof   the compiled chunks on disk, over many sessions
    LuaSwap                       the Lua state and who steps its collector (proofs: BytecodeStore_proof)

Three proofs stand in the proof module of a neighbour, which EXTENDS both: the governor's in that of the device, the Lua state's in that of the
chunks loaded into it, the animation pass's in that of the other fork-join workers. `GovernorSpec`, `SwapSpec` and `SceneSpec`, with their `Init` and `Next`, have names of their own for that.

`MC<module>.tla` and its `.cfg` files instantiate each for TLC. A module that looks at several
environments has a constant `Scenarios` (M2Scene: `Sessions`): a set of sessions, of which a variable chosen by `Init`
picks one; a session names what may happen in it (a fault, a drain that gives up, a lost device).
A property names in its formula the scenarios in which the code does not promise it.

**GxRing.** One step is one access to memory that the other thread can see. Commands are 8-byte
units; `wr`, `rdCache`, `unflushed`, `pub` are the producer's, `crd`, `cpub`, `cn` the render
thread's batch. The two stores the wake-up depends on, of `pub` and of `sleeping`, stay in a
store buffer (`pub # pubMem`, `sleeping # sleepMem`) until committed; the fences wait for that.
`Reserve`, `RingFull`, `Refit` are `RingReserve` and its full-ring loop; `Claim` and `Fill` are
`Emit` and the thunk that writes the arguments; `Publish`, `FlushFence`, `FlushWake` are
`Ring::Flush`; `Poll`, `Arm`, `Recheck`, `Woken`, `Begin`, `Finish` are `RenderThreadProc`. A fault is
a command the render thread does not come back from. `Drain` returns by `Drained`, or by `GiveUp`
at any time; the direct call after that is the only one GxQueue lets overtake (`late`).

**GxFrames.** The ring is a sequence, because GxRing implements GxQueue. A buffer has one of three
classes (`sync`: drain then real lock; `direct`: a block of the frame's arena; `shadow`: a
persistent copy, uploaded in pieces when unlocked). `mpc` says where the main thread is inside a
call that takes several steps, each wait for the render thread being a step of its own. What
reaches the device is the variable `device`, an upload with the data its arena block holds *when it
is executed*. That is what makes GxQueue's promise say something about the arenas: a block handed
out again too early changes a call already made.

**GxDevice.** A class is one vtable. `slots` is what the slots hold, `orig` what was captured. The
state is that of the globals of the same names. The client may create its device before
or after the hook is there, replace it, load ReShade, and shut down at any time.

**GxTable** has the hash as a variable chosen by `Init`, so a run covers every hash function of its
keys. `Insert` is one step (the table lock is held), `Erase` a step per turn of its loop.

**GxBuffers** takes the table as a function and follows who holds a reference. `T_BufRelease` is two
steps, the runtime's Release and the erasing of the entry, because the lock is not held over both.

**GxTracked** puts the function of GxBuffers into the slots of GxTable. Erasing an entry goes round the
loop of `Erase` with the lock held, while the other thread does what needs no table; tracking, locking and
unlocking wait for the lock. The erasing of GxBuffers is the loop's last turn. An Unlock frees the entry first and then posts its uploads one by one, none for a lock that only read.

**GxGovernor** has one action for each way `GovernorOnPresent` returns. Frame times are cut to what
the tests look at; which mean is smaller is free.

**WriteBatch** has a step for the look `TryAbsorb` takes at `g_dead` before the lock, one for what runs under the lock
(`Absorb` for a small write, `Pass` for a large one), which does not look again, and one for the client's own call after it. A
write is a number. `disk` is what the file was given, `handed` what the client was told was written, `late` names the files
the batcher took a write of after it had retired.

**ParticleJobs** has a step per access to a word another thread can see: `PublishClaim` and `PublishGen` are
the two stores of `RunJob`, `CallSleeper` one turn of its loop over the sleepers, `Look`/`Claim`/`Fill` one turn
of `RunChunks` on any thread, `Arm`/`Recheck`/`Wait`/`Woken`/`Awake` the worker between jobs. A vertex is the
number of its particle, or `Odd`. `Collect` is all `Parallel` does after the join: faults, NaNs, the comparison, the copy.

**M2Scene.** What a thread still has to do is a stack: animate a model, then attach its children, which may
fork to the children's pool, whose workers animate models in turn. `Dispatch`, `RecordAll`, `RunRecorded`,
`PassDone`, `ClientWait` are the two call sites that bracket a pass (`Site_Dispatch`, `Site_Wait`), with the probe passes left to the
client and the judgement that retires the module.

**TextureDelay.** `refs` is the count in the texture, `held` what the client holds, and the difference what this module
owes. Release is two steps, the look at the count and the queueing; a flush takes entries out under the lock and
releases them one by one outside it (`todo`). Other threads look up and release in between. What suspends the delay are the
loading events, the Lua swap, and the addon's global `addonLoading`: `ReadAddonState` copies it to `modeLoading` (`Config.isLoading`),
which no watchdog bounds and only a swap resets, and does so only while `polling` (`State.gcOptimized`), which `CollectorThrows` ends.

**BytecodeStore.** `bin` and `idx` are the files as the system shows them, `binFlushed` and `idxFlushed` how much of them is on the
disk. A session goes from `StartLoaded` or `StartFresh` to `Kill` or `PowerLoss`; `pc` stands between two writes of StartFresh
(`headBin`, `cutIdx`, `headIdx`) and of SaveIfDirty (`cut`, `recs`, `head`, `sync`). A dump is cells that carry the chunk, the build and their number, so bytes
of another chunk, another build or a lost write are told apart. `MayFail` names the calls that may fail.

**LuaSwap.** One action for each way `OnMainThreadSleep` returns. The client creates states at any address, tears
the globals of one down before it goes, runs scripts. Times are what is left of them.

## Runs

| run | question | instance and why it is enough | states |
|---|---|---|---|
| `gx_ring` | does the ring implement GxQueue, with no slot reused and no wake-up lost, and do drains, waits and the shutdown end? | ring of 3 units, word of 9 (cursors wrap), commands of 1 and 2 units (padding and exact fits), publication and `rd` every 2 commands, 2 payloads; faults and drains that give up | 0.6 M |
| `frames` | order of calls and data, arenas, shadows, switches to direct calls, lost devices; does every Present return? | 1 or 2 buffers, 1 arena block (so it runs out), rings of 1 to 3 commands, limit of 1 frame, counters wrapping at 3; seven scenarios, one with locks open across Presents and drains that give up. In a ring of 3 an upload and two presents fit, so it is the limit on the frames in flight that keeps an arena from being handed out too early | 1.1 M |
| `device` | commands on their device, originals, native runtime, consumer | 1 class, 3 devices, 3 commands; four scenarios | 2 k |
| `tracked` | references, entries, lock modes; what the table finds | 3 addresses, re-used, table of 4 slots under every hash function up to a renaming of the addresses (every wrap of hole, probe and home), 1 queued upload | 1.1 M |
| `governor` | timing in mode, comparison, end of probes | stints of 3, hold of 4, hitches and too few frames, 2 voided stints | 3.6 k |
| `write_batch` | order, closed files, reads and seeks, losses | 2 files, buffer of 2, 5 writes (two buffers full and one more); 2 threads with short flushes and exit, 1 thread with failing writes | 5.2 M |
| `particles` | one filler per chunk, the client's vertices, wake-ups, ends | 2 workers; emitters cut in three until stopped, in two with faulting or odd chunks, and those left to the client; generations wrap at 2, the first job and every second one compared | 0.4 M |
| `m2_scene` | each model once, nobody animating after the wait, the wait ends | 2 workers in each pool and the client's; four roots, two with children, one child with children, one hidden; six roots (table of 5 overflows) with faults and OFF stints; a probe every 3 passes | 31 k |
| `texture` | withheld releases: owned, and ended; does the bypass end? | 3 textures, queue of 2 (it fills), flush of 1, counts up to 2, 2 transitions (one begins in the grace of another), all times 1 | 0.2 M |
| `lua` | take-over, the collector's owner, false alarms | 3 addresses, 3 reloads, settling of 2 frames and a tick, marker looked at every 2 ticks, tear-down of 1; a session whose first state comes late | 23 k |
| `bytecode` | does the index only name dumps that are there, and does a save last? | 4 chunks, two of one hash, one of two cells, one rebuilt wrong; 2 builds; at most 3 entries; kills and losses of power at every step | 54 k |
| `lua_init` | "will retry on next frame"? | no state at the first Sleep: **violated** | |

The bounds are sizes at which the case in question has happened at least twice (a ring that wrapped,
an arena that ran out, a buffer that filled): the code has no other dependence on them. Deadlock
is checked wherever the system cannot stop; device, batcher, particle, scene, texture and Lua instances end when
a shutdown, exit or a bound on devices, writes, transitions or reloads is reached, or when the client makes no call any more.

What the passing runs show, in words:

* *Ring.* The device receives the calls of the client in its order, each once, with its arguments
  (`Fifo`), however the two threads interleave and whenever the stores become visible; after a fault the
  rest is lost and nothing is repeated; a call is late only right after a drain that gave up. `CursorOrder` is why: what may still be read is
  never reserved. The millisecond cap on the consumer's sleep (`RT` 306) is not needed for progress (`WaitsEnd`, `StopIsSeen`).
* *Frames.* With the ring replaced by its promise, the order also holds for the *data* of locks, real
  locks wait for the queue, arena blocks are handed out once, direct calls begin on an empty ring with no lock of ours open, and a Present that reports a lost device does so while it is
  lost.
* *Device.* With drains that finish, a command runs on the device it was made for, through any
  number of replacements.
* *Buffers and table.* Whenever the lock is free the table finds exactly the tracked buffers, each in one slot; a buffer
  outlives its uploads; a locked buffer stays tracked.
* *Governor.* The mode held follows from a comparison, unless a probe was given up.
* *Write batcher.* The client's bytes reach each file in order and before anything else it does with the
  file, and none are held for a closed one, except where a batcher that another thread's flush has just retired takes one more write (`MCWriteBatchLate` below); a flush that fell short retires the batcher, at whichever call site it happened.
* *Particles.* The claim word keeps chunks of one job from threads of another although it is re-used, and two generations
  are enough for it. Whatever faults, the client never finds a half-filled buffer.
* *Scene.* The countdown of each pool is enough for the join, also when both pools fork at once and a child's
  animation finds its pool in use; a fault shortens a pass but does not hang it.
* *Textures.* A texture looked up and released elsewhere between any two steps is never released twice: what is withheld
  owns a reference. The bypass ends after the last transition also when a loading screen's end is lost, and then only the addon's own
  word, kept up or no longer read, can keep it on.
* *Bytecode store.* Bytes handed to the undumper are those of the chunk asked for, dumped by this build, after any number of crashes
  and of patches. A save that has ended is what the next session loads, whatever happens until the next save begins, except that a store found wrong stays gone.
* *Lua.* Whichever way the client replaces its state, the module ends up on the last one with its marker there, and a
  collector it has stopped is stepped, or reported as not stepped.

### Fairness

`GxRing`: weak fairness of the producer's steps inside a call, of the consumer's steps, and of the
commits of stored values. Both are running threads of one process and a processor does not hold a store back for ever.
The client's choice to make another call, faults, `GiveUp` and the cap on the sleep have none.
`GxFrames`: the same, for the main thread inside a call, the execution of the oldest
command and the death of a faulted thread. `GxTracked`: the loop of `Erase` goes round. `GxGovernor`: weak fairness of
closing a lock (the client unlocks what it locked before it draws) and strong fairness of a Present with no lock open
whose drain ends: the client presents for ever, and a governor that never gets such a frame
cannot switch, whatever it does. `ParticleJobs` and `M2Scene`: every thread that is inside a job, a pass or a shutdown runs; nothing is assumed of
when the client begins one. `TextureDelay`: the main thread goes on and comes to the pump between its releases (strong, because
releases may come between two pumps), time passes, and a swap settles (strong, since a pump may be under way; the one that is dropped, `MCLuaSwapBack` below, would keep the bypass on), and
the addon's global is read every few frames as long as it is read at all; a loading screen need not end, nor the addon take its word back.
`LuaSwap`: the client sleeps every frame, runs scripts, time passes, and a state that was torn down is followed by another.

## Proofs

Eight modules hold proofs checked by TLAPS, for every value of the constants that the modules'
named assumptions allow (`RingAssumption`, `FramesAssumption`, `DeviceAssumption`, `GovernorAssumption`, `BuffersAssumption`, `TrackedAssumption`,
`BatchAssumption`, `ParticleAssumption`, `SceneAssumption`, `TextureAssumption`, `LuaSwapAssumption`, `StoreAssumption`).
A hypothesis beyond those is written in the theorem, and said here.

* `TypeCorrect` (ring). `TypeOK` alone is not inductive: that a claimed command fits its slot, and that
  `unflushed` is at most `kFlushEvery`, depend on where the producer is. `TypeInv` adds `EmitState`: at each
  point of `Emit` the size asked for is a size of a command, and a flush entered because the count was reached leaves it at zero. The lemmas
  `CursorArithmetic`, `PadInRange`, `ClaimType`, `PublishType` do the modular arithmetic once.
* `WakeupCorrect`: `NoLostWakeup`. The strengthening `WakeInv` says what each fence is for: the published cursor
  differs from the visible one only before the producer's fence (`FencedPub`), and a consumer that sleeps is seen to (`FencedSleep`).
* `CursorsCorrect`: `CursorOrder`. Order between cursors says nothing of *where commands begin*, and a consumer that ends its batch
  between two commands would pass the end. `Held` therefore adds that the ring is cut into whole commands: there is a set of cursors, with all of both threads' among them, from each of which the slot leads
  exactly to the next (`Cut`, `Whole`). Distances modulo the word add up as long as they stay below it (`DistChain`), which is what `Word > Ring` is for.
* `FifoCorrect`: the ring refines GxQueue. The queue of the refinement is read off the ring (`Content`), the commands before a cursor in a recursive function.
  It is the same whichever set of cuts is taken (`Chain`), an append by the producer extends it at the end and a
  finished command takes off its head; both by induction over the cursor, which the prover does from the well-foundedness of < on the naturals (`LeastNumber`).
  After that each step is one of GxQueue's or changes nothing of it.
* `SwitchCorrect` (frames): `SwitchIsSafe`, with `FramesTypeCorrect`. `FramesInv` adds that `g_emulatedLocks` is the number of buffers under an emulated lock (`Counted`), and that direct calls begin
  with the ring empty and no such lock open, and only at a Present (`Off`). `LossCorrect`: `NoStaleLoss` in scenarios that do not both lose the device and switch to direct calls, the
  pair that `MCStaleLoss` shows to be needed; `Answered` says that a result "lost" is of a loss not yet answered by a Reset.
* `CallsCorrect`: `CallOrder`, hence the refinement of GxQueue *with data*. It assumes `MaxFramesInFlight = 1`, which is `kMaxFramesInFlight` (`gx_ring.h` 35): the two arenas
  of the code are enough for that number and no other. `Arenas` is the inductive statement: the ring holds the end of one frame and the beginning of the next (`Parted`, `Cut`), the uploads of the first are in the other
  arena, those of the second in blocks already handed out of this one, and the block of an open lock is in neither (`Own`). `Throttle` is what gives
  the first part before a flip. Like the property, it speaks of clients that close each lock before the Present (`Closed`).
* `ShadowCorrect`: `ShadowIsCopy`. What a buffer will hold is a fold over the queue, so the proof needs to know what one command, and one more at
  either end, does to it: `Ran`, `After` and the inductions over the length of the queue (`AfterAppend` and its neighbours), once, over any queue and arena. `Copy` is the invariant: the shadow is what the buffer
  will hold, except for the pieces of an open lock that writes and for those `UploadInPlace` has not come to, of which the ones before `job.piece` already agree. That an upload's
  arena block still holds its data when it is executed comes from `Arenas`, hence again `MaxFramesInFlight = 1`. In a session with a readable buffer no drain gives up, nothing switches to direct
  calls and no lock stays open across a Present; TLC finds `ShadowIsCopy` violated with each of the three alone, so no hypothesis can go.
* `UploadsCorrect`, `BuffersTypeCorrect` (references): `RefsInv`; the references of a buffer are the uploads in the ring that name it, counted as places in the queue, and the client's own.
  `LocksCorrect`: `LockedStaysTracked`; `LocksInv` adds that only the buffers being erased have an entry and no reference (`EntriesFollow`), that both threads never erase the same one, and that
  the client's thunks run on what it holds (`ClientHolds`). It assumes `~ReuseEarly`: no address comes back between the runtime's Release and the erasing, the case `MCGxBuffersReuse` shows to be needed.
  All three are theorems of `TrackedSpec`, where the loop of `Erase` runs turn by turn; `TrackedRefines` shows that GxTracked implements GxBuffers.
* `SlotsCorrect`, `TableCorrect` (table): for every table size and every hash function. `Sound` is what a table is between operations: no key twice (`Once`), and no free slot
  on the way of a probe (`Reached`). `Shifting` is the loop invariant of Erase's backward shift: of the entries whose way leads over the hole, none is between
  the hole and the slot looked at last. `SlotsCorrect` needs no hypothesis; that the slots are *exactly* the entries of buffers that live (`TableIsEntries`) again needs `~ReuseEarly`.
* `DeviceTypeCorrect`, `NativeCorrect` (`NativeInv`: on Windows' own runtime nothing is ever hooked),
  `CommandsStayOnDevice` (`DeviceInv`: `ThreadState` ties the thread to `active`, `stop` and the hook's progress,
  `DeviceState` says that the ring is empty between the hook's drain and the change of device) and `RestartCorrect` (`RestartInv`:
  whoever came through the hook is queueing or about to; an action property).
  `ConsumerCorrect`: `QueueHasConsumer`, wherever the client does not make another device after a fault (`DeviceStays`); `Consumer` says that a thread is gone only
  after Shutdown or a fault, and, without a second device, that there is no thread yet when the hook is at work. `OriginalsCorrect`: `OrigIsNotOurs`, with one vtable or one
  device through the hook (`OneVtable`). The two conditions are the ones `MCGxDeviceDead` and the recreated devices of two classes below show to be needed.
* `BatchTypeCorrect`, `OrderCorrect`, `ReadsCorrect`, `BlameCorrect` (write batcher): `InOrder`, `CallsSeeWrites` and
  `BlamesItselfRightly`, for any number of threads and files, wherever the client's own writes succeed (`Clean`; `MCWriteBatchStandDown` shows why).
  Order and reads except the files in `late` and those a flush lost bytes of; that `late` is empty before a flush fell short, and always with one thread, is part of `InOrder`.
  The three hold together or not at all: order needs that a batcher that stood down holds nothing but for a late file, and that it was another thread's flush that
  failed between a look at `g_dead` and the lock (`StoodDown`), this that the size check never fails in vain (`DueIsThere`), this the count of the bytes under the check (`Counted`), and this that a thread in a call has the file to
  itself with nothing held for it (`InCall`). `FlushEffect` says once what a flush does, and `FlushOwnerKeeps`, `NoFlushKeeps` carry the steps that share one.
* `TimingCorrect`, `HoldCorrect` (governor): `GovernorInv` adds to both that the mode *wanted* between two probes is the one the last
  comparison chose (`HoldsChoice`), because a switch that is refused is tried again later from what is wanted.
* `WorkersAreCalled` (particles): `SleepInv` adds `Marked`, a worker past `Arm` is marked asleep or its event is set.
  `ChunksCorrect`: `ClaimInv` adds `Handed` (the chunks below the claim word's next are given out, once each) and `Counted` (of those,
  all but the ones being filled are counted done), so `done = chunks` leaves no filler. The cardinality of the set of fillers carries it, hence
  `FillerCount` and `ThreadSets`. `FillCorrect`: `DataInv` adds `Staging`, what each chunk given out holds, and
  `ChunksCover` shows by division arithmetic that the chunks of the partition leave no particle out.
* `JoinCorrect` (animation pass): `JoinMeansDone`, for any number of workers in either pool, any tree of models, any `kMinParallel`, `kMaxTasks` and table of roots. `SceneInv` says
  three things. `PoolsInv`: the countdown of each pool is the number of its workers that were called and have not finished, and a worker between two slices has an empty stack; it
  rests on `ForkEffect`, which says that the slices go to exactly as many workers as the count says (`RanksBelow`), at most one participant per item. `PassInv` ties the roots' pool and
  the client's worker to the place of the main thread in the pass. `KidsInv` is the heart: the children's pool is free with every attach list in place, or *one* thread, which is no worker
  of that pool, has *one* item of it somewhere in its stack (`One`), and the countdown is above zero only while that item is the join. The lemmas `Onward...` say what replacing the top of a stack does to that item.
  It assumes `Quiet`: no fault under a roots' worker while the children's module is on, the case `MCM2SceneFault` shows to be needed.
* `EachOnceCorrect`: `EachOnce`, for any forest of models. `PassOnceInv` adds to `SceneInv` where every model of the pass is. The places are each thread's stack, the slice of each
  worker that was called, and the table of recorded roots (`Held`); `ListsInv` says that no model is at two of them or at one twice, and that what is there to be animated was not yet (`Tidy`).
  `TreesInv` says that a child is somewhere only when its parent was animated and has handed its children out (`Grown`), all of them (`Whole`). Most steps deal what one or two places hold out
  among a few places, together with children that were nowhere before: `Regroup` and `ListsStep` do this once, for any places. That the client's halves, the table and what spills over it, and the slices of a fork share a
  list out without overlap or gap is arithmetic: `HalvesElements`, `StretchElements`, `SlicesElements` (where each slice ends, `Ends`, grows from 0 to the length) and `RanksUsed` (the ranks of the workers called are exactly
  the first numbers). When the pass is over nothing waits, so what was animated holds the roots and the shown children of each of its own; `DueIsLeast` shows that `Due` is the least such set, for trees of any depth.
  Hypotheses: `Quiet`; `Forest`, no model has two parents or is in a list twice; and `Fits`, which `MCM2SceneCap` shows to be needed: with the children's module on, no model has more than `kMaxTasks` shown children.
* `StoreCorrect` (bytecode store): `IndexNamesDumps`, with every failure allowed. `InMemory` is the property with the append position between the dumps and what
  comes later; `OnDisk` says the same of the index on disk *and* that what it vouches for is flushed, which a loss of power does not undo; `Saving` says that the
  index has no header while the save rewrites it and that captures start behind what it vouches for; `Fresh` that a blob file made anew is empty next to
  an index that is not yet. `StoreTypeCorrect` comes with it.
* `SaveCorrect`: `SaveLasts`. `Saved` adds to `StoreInv` that the header of the blob file is this session's, that a store given up stays so, and that the save that reaches its last flush
  has an index with all of the session. Two hypotheses: that the header writes the code does not look at succeed (`HeadersWritten`), and that the append position keeps within the cap, which the code tests before the
  append and not after; without either it is false (last rows but one of the table below).
* `ReleaseCorrect` (textures): `ReleaseOwnsReference`, with `MembershipCorrect`: `g_queued` is "kept in step" with the queue, each texture once. `TextureInv` counts, for each texture, its places in the queue, in the list of a
  flush and in the hands of a thread, and says that the count of the texture is at least these and the client's own. The sweep's effect on the counts is an induction over the queue (`SweptIs`, `SweepCounts`).
* `RebuiltCorrect` (Lua): `MarkerInv` says that a marker missed on a state being torn down is looked at again only after the tear-down
  (`LookIsLater`), from `TornTicks < MarkerTicks`.

Written for the proofs, with the same values as before: `Content` and `CommandsBefore` of GxRing, `Swept` of TextureDelay and `Shown` of M2Scene are recursive functions, one entry at a time as the loop in the code goes;
`EveryKeyIsFound` of GxTable compares keys and not their number; `FramesAssumption` and `TrackedAssumption` say that there are finitely many buffers; `SceneAssumption` says what a session is by `IsSession`, without a set of all of them, and that finitely many models have children;
`Due` of M2Scene goes down as many levels as there may be (it went down three, all that the runs have); `FramesAssumption` says that no contents of a buffer is `None`.

Every safety property the runs check is the subject of a theorem. `RestartCorrect`, `MembershipCorrect` and `SlotsCorrect` are proved and were checked while they were written; no run repeats them. Liveness (`WaitsEnd`, `StopIsSeen`, `PresentReturns`, `EraseEnds`, `ProbeEnds`, `JobEnds`,
`StopEnds`, `PassEnds`, `DelayEnds`, `WindowCloses`, `StateIsTakenOver`, `CollectorHasOwner`) is out of the prover's reach and is only model-checked.

## Disagreements between code and comments

One has a run (`PROJECT.json`, "findings").

* `lua_init`: the Lua initialisation that finds no state says it will be retried and is not.

Others were met while modelling. The configurations below reproduce them (`tlc -config X.cfg M`, one
property each; where a run's own configuration is named, with the constants and the property as said) and are no part of the list of runs; the passing runs leave the named event
out, or the property excepts it.

| configuration | what it shows |
|---|---|
| `MCGxDeviceDead` | After a fault "queued rendering is switched off for the rest of the session" (`RT` 283-285). A device created later passes `StartThread`, which returns because the handle of the exited thread is still there (954), and `g_active` is set again (1026): calls are queued with nobody to run them. |
| `MCGxGovernorAbandon` | A probe given up calls `SwitchTo(false)` but leaves `want` at the mode of its stint (`RT` 651). When that was direct, `GovernorHold` in the same Present goes direct again and stays so for `kHoldMs`; "the render thread is only abandoned where direct calls are faster" (591). |
| `MCWriteBatchExit` | "Flushed from every exit ... and process exit" (`client_write_batch.cpp` 27-29): `FlushAll` is called only from the FreeLibrary branch of `DllMain`; at process exit it leaves before (`src/src/core/dllmain.cpp` 12134). |
| `MCWriteBatchLate` | "Once a flush has failed the file is already wrong and continuing to buffer it would only add to the damage" (`client_write_batch.cpp` 123). `TryAbsorb` looks at `g_dead` before the lock (195) and not again: a thread that has looked when another thread's flush fails is absorbed into the retired batcher, and its next write, which goes straight to the file, overtakes the one held. A read in between finds the file short of it or out of order. `InOrder` and `CallsSeeWrites` except the files this has happened to (`late`). |
| `MCWriteBatchStandDown` | A failed write of the client's own is taken for a loss of the batcher's (`client_write_batch.cpp` 203), which retires while it holds another thread's bytes; that thread's next write overtakes them. |
| `MCGxFrames`, `Scenarios <- MCSpan`, `Promised` | A buffer locked before a Present and unlocked after it posts an upload from the earlier frame's arena (`RT` 719); the next flip hands that block out while the upload is still queued. |
| `MCGxFrames`, `Scenarios <- MCShadowStale`, `ShadowIsCopy` | A readable buffer written during a direct stint (`BF` 220): its shadow, made before, is not brought up to date, and is what the next lock shows. |
| `MCGxFrames`, `Scenarios <- MCStaleLoss`, `NoStaleLoss` | `SyncEnter` returns before it forgets the last Present's result when nothing is queued (`RT` 746-750): after a Reset made in a direct stint, the next queued Present returns the old loss. |
| `MCGxDevice`, `Classes = {hw, sw}`, `Scenarios <- MCRecreate`, `OrigIsNotOurs` | Devices of class A, B and A again: `PatchDevice` remembers one vtable (`RT` 985) and captures its own thunks as originals. |
| `MCGxTableFull` | `Erase` from a full table never ends (`BF` 128); `Insert` lets the table fill up (`BF` 118). |
| `MCGxBuffersReuse` | An address handed out again between the runtime's Release and `Erase` (`BF` 207-211) loses the new buffer's entry. |
| `MCM2SceneCap` | Shown children beyond `kMaxTasks` (32) of one model are animated by nobody (`m2_parallel_children.cpp` 198). |
| `MCM2SceneFault` | A fault of a roots' worker inside the children's hook is caught above it (`m2_parallel_roots.cpp` 182): the pool stays in use, the model's attach list null. |
| `MCTextureDelay`, invariant `NoLeak` | `Discard` (`texture_unload_delay.cpp` 248), and a sweep that finds a queued texture wanted again (274), drop releases without making them: the count stays one too high. |
| `MCTextureDelay`, `AddonIsHeard` | `Config.isLoading` counts as a loading screen (`texture_unload_delay.cpp` 67, `LO` 2372), has no watchdog and is read only below the test of `gcOptimized` (`LO` 2145): after a collector step has thrown, an addon that said it was loading is not heard when it takes it back, and no texture is delayed until the state is swapped. |
| `MCBytecodeStoreKill` | "A kill loses the captures made since the last save and nothing else" (`BS` 61), and a file caught in the middle of a save has a header that "still describes the previous save" (625): the index is cut first (628), so such a kill loses the whole store. |
| `MCBytecodeStore`, `MaxFileBytes = 2` | "A full store keeps what it has" (`BS` 117): the cap is tested before the append (540), the last chunk may pass it, and LoadIndex refuses an index that vouches for more than the cap (323). |
| `MCBytecodeStore`, `MayFail = {"fresh", "lua", "revoke"}` | The headers written by StartFresh (`BS` 287, 294), the dump header (559) and the revocation (517) are not looked at: when one fails, what is saved later is refused, or what was found wrong comes back. |
| `MCLuaSwapBack` | A third state at the address of the first while the second settles: the wait is dropped (`LO` 2040) but the swapping flags, which every inline hook tests, stay up for the session. |

Also: when `CreateThread` fails for a device that came through the hook, `OnMainThreadTick` asks for a
device restart all the same (`RT` 1222), the case `RestartOnlyIfMissed` excepts; and a probe given up leaves its
sums for the next comparison (`RT` 651), the case `ComparisonDecides` excepts.

## Not modelled, and simplifications

* GxRing: stores to slots are not delayed. On x86 they are older than the store to `pub` that publishes them, so a consumer
  that sees the cursor sees the command. Compiler reordering is excluded by the barriers in the code.
* GxFrames: locks cover the whole buffer, an arena block is one piece; texture locks take `SyncEnter`'s path (`SyncCall`);
  calls the runtime makes itself, arrays that cannot be read and failing native calls are left out.
* GxTracked: the table lock is one step to take; a thread that waits for it is one that does not step. A piece that finds the arena full is uploaded in place
  by the main thread after a drain; here it is one of the pieces that are not posted (GxFrames has it).
* GxGovernor: the A/B harness, which drives the same switch, is left out.
* WriteBatch: writes are one unit each; a file is used by the thread that opened it. `FlushHandle` reads the
  handle and the length before taking the lock (237), and the model does it in one step with the locked part: only the thread that has the file open makes it the
  buffer's, and whoever takes it away has flushed it first, so the early return is taken only where the locked part would do nothing.
* ParticleJobs: one particle makes one vertex and at most one chunk of a job goes wrong. Memory is sequentially consistent: every
  write another thread waits for is interlocked, or followed by an interlocked one before it matters.
* M2Scene: the slower of two ways is free; models stay the same within a pass. The counts of waits and probes go as far as the code tells them apart.
* TextureDelay: the two counters of the self-check are one count and a flag; look-ups by name always find the texture. Counts are bounded by `MaxRefs`,
  because a release that was dropped leaves them too high.
* BytecodeStore: changes of a file's length last, in order, as a journal keeps them, and `FlushFileBuffers` does what it says; a lost write leaves
  junk. The store runs only with the proto cache on, on the main thread. The taint rule, which keeps chunks out, the choice of the numbered pair and the
  thirty seconds between saves are left out; `Shutdown` has no caller.
* LuaSwap: `OptimizeGC` that throws also clears the pointer it calls, so later set-ups fail too; the model leaves each one open.
  A Lua state has two globals, the marker and who steps the collector. `OnLuaStateCreated` and `OnLuaStateShutdown` are compiled without effect
  (`src/src/core/version.h` 746), the branch for a VM never initialised (`LO` 2049-2079) is not reached, `Shutdown` (2206) is left out.
* The task pool and the addon dispatcher: nothing in the program at this commit puts work into either.
* Everything marked `not_modelled` in `PROJECT.json`, with the reason there. It is most of the lines of the repository:
  replacements of one client function each, censuses, tables of addresses and the installation code. Their
  correctness is equality with code that is not here, or a fact about the client's binary (which writers of a value exist), and a
  model would have to take that on trust.

## Plan

Done, in the order of importance: the render thread (GxQueue, GxRing, GxFrames, GxDevice, GxTable, GxBuffers, GxTracked, GxGovernor),
the write batcher, the fork-join workers, delayed textures, the Lua state, the bytecode store; the theorems above.

Next modules worth writing: `async_poll_spin.cpp` with `async_tex_loader.cpp` (read-ahead against the client's polling), the Lua collector's
pace (step budget and emergency collection), the fallback order of `crt_free_hook.cpp`, the ring of `diagnostics/flight_recorder.cpp`.

No safety property is without its theorem; the next ones come with the next modules.
