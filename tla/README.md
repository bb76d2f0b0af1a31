# Verification of rwmdc

rwmdc is a Vulkan text editor under construction, with prototypes of the storage
layer it is meant to use. This directory holds TLA+ models of the parts whose
correctness depends on order: who runs before whom, what a crash leaves, what a
slot, a fence or a queue is still used for. TLC checks the models on small
instances; TLAPS proves the central results for every value of the constants.

Paths below are relative to the repository. `G/` stands for `src/lib/grim/`,
`io_bench.c` and `storage_bench.c` live in `prototypes/saving/`.

## 1. The system

| Component | Code | State | Operations | Modules |
|---|---|---|---|---|
| Worker ring | `io_bench.c` 205-345, 370-417 | ring of slots, two position counters, two event words with waiting flags, `stopping`, the caller's completions | `worker_ring_submit`, `worker_ring_wait`, `worker_ring_main`, `engine_destroy` | `WorkerRing`, `DurableQueue` |
| Mutex worker | `io_bench.c` 346-368, 597-622 | `pending`, `done`, `stop`, `request` under a mutex with two condition variables | `transaction`, `worker_main`, `engine_destroy` | `MutexWorker`, `Engines`, `DurableQueue` |
| Direct engines | `io_bench.c` 137-203, 419-643 | operations the kernel holds, bytes written, reserved space | `write_sync`, `aio_transaction`, `ring_transaction`, `ring_linked_transaction`, `reserve_request` | `DurableWrite`, `Engines`, `DurableQueue` |
| Benchmark and queue check | `io_bench.c` 770-1135 | the engine chosen, the gate of the check | `main`, `queue_check` | `Engines`, `WorkerRing` (in part) |
| Write-ahead log | `storage_bench.c` 80-107, 146-340, 376-500 | frames in the file, how many are durable, the staged group, head and acknowledgement | `bench`, `select_durable`, `recover`, `materialize` | `WalStore`, `Storage` |
| Whole-file publication | `storage_bench.c` 345-361, 505-521 | inodes in cache and on disk, the target's name | `persist_full`, `child_commit` | `Publish`, `Storage` |
| Ring buffer | `G/mem/buff.h` | read and write index, slots | push, pop, peek | `RingBuff` |
| Arena | `G/mem/arena.h` | length, chain of checkpoints in the page | alloc, ckpt, rollback, pop | `Arena`, `FrameMemory` |
| Set-up, main loop, teardown | `src/main.c` | the call the thread is in, what it has created | `main` | `Desktop`, `MainThread` |
| Frame loop | `G/gfx/rendering.h`, `swapchain.h`, `enqueue.h`, `sync_objects.h`, `src/main.c` | frame counter, fences, swapchain in use, ring of retired swapchains, what GPU and presentation hold | `start_frame`, `draw_frame`, `end_frame`, `recreate_swapchain`, `process_garbage`, `empty_garbage` | `FrameLoop`, `RingBuff`, `FrameMemory` |
| GPU set-up | `G/gfx/context.h`, `command_buffer.h`, `buffer.h`, `rendering.h` | queue families chosen, command pools and their buffers, objects alive | `find_queue_families`, `create_command_pool`, `buffer_copy`, the `cleanup_*` calls | `GpuContext`, `Desktop` |
| Input devices | `G/os/input_linux.h` | open devices, key flags, libevdev's picture of each device | `input_ctx_create`, `input_refresh`, `input_update`, `input_cleanup` | `InputDevices`, `Desktop` |
| Window | `G/os/window_wayland.h`, `window_x11.h` | size, close request, pointer lock, events on the wire | open, listeners, poll, lock, close | `GrimWindow`, `Desktop` |
| Physics slots | `G/phx/avbd.h` | component pool with a free list, generations | create, delete, get | `PhysicsSlots` |
| Editor session | `src/main_bench.c` 346-950 | event queue, pending paste, document with undo, selection, title, what is on the screen | `editor_process_events`, `editor_key`, `editor_event`, `run_editor` | `EditorSession` |
| Everything else | text and fonts, mathematics, animation, configuration, Rune assets, logging, vendored code | | | not modelled (section 8) |

How they interact:

- The benchmark's caller hands durable writes to one of the engines. The two
  worker engines share memory with a thread (futex words in one, a mutex in the
  other); the direct ones share only the kernel's operations. All promise the same
  thing, which `DurableQueue` states once.
- The log and the publication talk to the file system alone: write, sync, rename,
  and the sync of a directory. A kill or a power loss may come between any two.
- `main.c` drives the frame loop; the loop keeps retired swapchains in a ring
  buffer; the ring's storage comes out of the arena `main.c` owns.
- Around each frame `main.c` polls the window, reads the keyboards and locks or frees
  the pointer by what it read. All keyboards share one set of key flags. The kernel
  fills a bounded queue per keyboard; the window server resizes, pings and asks to
  close when it likes. At the end the GPU's objects go before the window's, and those
  before the display.
- The font reaches the GPU through a command pool that is, on some cards, the pool of
  the frames as well.
- The editor's loop reads a queue that the window fills, asks the window for the
  clipboard and gets the text back as a later event, and keeps a document whose
  undo states carry ids.

What is hard: lost wake-ups and the two-sided eventcount of the ring; the reuse
of slots and completions; failures between a write and its flush; torn frames and
what recovery makes of them; two swapchains, three semaphores and two fences that
outlive each other's users; asynchronous clipboard text that overtakes typing; key
releases the kernel throws away; window events that arrive between a poll and a frame;
objects destroyed after what they were made from.
`PROJECT.json` lists the hazards by source line, with the properties that would
catch each going wrong.

What makes each component correct:

- **Engines**: what the caller is told is durable is durable; no completion,
  buffer or slot is used after its owner has it back; calls and shutdown return,
  and shutdown leaves nothing admitted undone.
- **Log**: an acknowledged revision survives any crash; what recovery returns
  replays to the writer's own documents; its status is truthful.
- **Publication**: a reader finds a whole old or a whole new file; a reported
  publication is on the disk.
- **Frame loop**: nothing the GPU or a presentation uses is destroyed or reused;
  what is retired is destroyed exactly once, and in the end; a resize is honoured
  and a close request ends the program.
- **Input**: no key sticks, whatever the kernel drops; the pointer is given back when
  Enter is released.
- **Window**: a frame is drawn for the latest size; the server's pings are answered;
  one pointer lock at a time.
- **GPU set-up**: frames find the command buffers made for them.
- **Teardown**: what was created is destroyed, not twice, and not after what it was made
  from. On X11 the code does otherwise with the display's screen (section 6).
- **Physics**: a deleted handle is refused, until the 32-bit generation of its slot has
  come round; no two components share a slot.
- **Memory**: what is allocated keeps its contents until its owner frees it.
- **Editor**: input in order, none lost; unsaved changes are dropped only after a
  warning about them; title, selection and screen follow the document.

## 2. Modules

| Module | Role |
|---|---|
| `DurableQueue` | abstract specification: an ordered durable queue of some capacity |
| `WorkerRing`, `MutexWorker`, `DurableWrite` | the engines; each implements `DurableQueue` |
| `Engines` | one process of the benchmark: composes `MutexWorker` and `DurableWrite` |
| `WalStore`, `Publish` | the two ways the storage prototype makes documents durable |
| `Storage` | one process of the storage benchmark: composes `WalStore` and `Publish` |
| `RingBuff`, `Arena` | operators on the records of `buff.h` and `arena.h`; no state of their own |
| `FrameLoop` | the render loop, composed with `RingBuff` (`INSTANCE`) |
| `FrameMemory` | main's use of the arena over the same run of the program, composed with `Arena` |
| `MainThread` | what the parts of `main.c`'s thread share: its place and the objects alive |
| `InputDevices`, `GrimWindow`, `GpuContext` | keyboards, window and GPU set-up |
| `Desktop` | `main.c`: composes the three on `MainThread` |
| `EditorSession` | the editor |
| `PhysicsSlots` | the component pool |
| `WorkerRingProofs`, `MutexWorkerProofs`, `StorageProofs`, `FrameLoopProofs`, `DesktopProofs`, `EditorSessionProofs`, `PhysicsProofs` | the theorems of one module each |
| `EnginesProofs` | theorems of the composition, on top of `MutexWorkerProofs` |
| `MC*` | instances for TLC: constants that are not literals, and symmetry sets |

Every definition that stands for code has its source lines in the map of
`PROJECT.json`. Definitions named `...Late`, `...Early`, `...Unchecked` and the
like, marked "Mutant" in a comment, are a plausible bug in the definition that
follows them; substituting one must break the property it is listed with.

### WorkerRing

A step is one shared access or one system call. The producer's program counter
`ppc` runs through `worker_ring_try_submit` (`TryFull`, `TryRoom`, `FillSlot`,
`Publish`, `BumpRequest`, `CheckRequestWaiting`) and the two loops around
`event_wait` (`Register`, `Snapshot`, recheck, `FutexWait`, `Unregister`); `mode`
says which call it is in. The worker's `wpc` runs through `worker_ring_main`, with
the store of `stopping` and its load as separate steps. `file` is what is durable,
`owner` and `buffer` are the caller's view of its completions. The write may fail
at any request. A futex wait may return at any time.

`gate` is the check-only gate of `queue_check`: open, held until the queue is full,
or held until the engine is stopped. With `ReapFirst` the caller destroys a running
engine only after it has reaped all it submitted, which is what the measuring loop
does; without it `DrainedAtExit` fails (section 6).

All publications are release/acquire or sequentially consistent and every relaxed
access is to a word only the accessing thread writes, so interleaving steps loses
no behaviour.

### MutexWorker

Acquiring the mutex is one step, the code up to the next release or wait another.
Both waits may return spuriously; clocks and I/O may fail.

### DurableWrite

One process of any of the four engines, chosen in `Init`. `state` and `res` follow
the write and the flush of the current transaction through the kernel, which may
shorten, interrupt, fail or cancel them; `cached` and `disk` are bytes, so that a
flush that misses the tail of a short write is seen. For io_uring a hard failure of
submission or wait ends the run, as `main` exits then.

### Engines

`main` picks one engine for the whole run, so `engine` says whether the steps are those
of `MutexWorker` or of `DurableWrite` (an `INSTANCE` with its own variables); what the
caller submits and is told is alike. The two liveness and the two refinement questions
are asked of the composition.

### WalStore

The file is a sequence of frames, each whole, torn in its header or payload, or
damaged. `Reading` is `recover`'s loop over them, as a function of how many it has
read, and `Recover` its end; `Materialize` replays the chain of parents. "direct" is how
`recover_check` uses the log (a branch from any revision, selections, reopening,
damage), "packed" and "aligned" are `bench`'s groups. `PowerLoss` keeps the durable
prefix and any part of what follows, the last kept frame torn or not; until the
directory is synced it may take the file with its name. `recover_check` acknowledges its
first selections before it syncs the directory (`storage_bench.c:531-533`), so
`AckSurvives` excepts a file lost that way (`LostWithName`); `bench` syncs the directory
first.

### Publish

Blocks of inodes in the cache and on the disk. Write-back of a block or of the
name may happen at any time; sync forces it.

### Storage

A process uses one method for its whole life. `Storage` starts in either and takes the
steps of that one, which is `bench`'s branch on the method.

### FrameLoop, FrameMemory

`FrameLoop` has one action per call of the loop that can observe or change
something shared: wait for the slot's fence, acquire, submit, present, recreate
from the start or the end of a frame, process one piece of garbage, drain, poll.
A swapchain with its semaphores, fences and views is one "generation". The GPU
finishes submissions in order, presentations complete in their own time. `Backlog`
bounds how many presentations may be waiting. The loop at `main.c:89`, which waits for a
window without size, is never entered: the Wayland window stores its default in place of
0, and an X11 window has at least one pixel.

`FrameMemory` follows the same program through its arena, word by word: which
checkpoint each function takes and gives back and where the garbage ring's slots
lie.

### Desktop, InputDevices, GrimWindow, GpuContext

`pc` is the call of `main` the thread is in, `alive` the objects it has created and not
destroyed. The thread's steps follow `main.c`: `InputRefresh`, `WindowCreate`,
`GraphicsContextCreate`, `RenderContextCreate`, `CreateRenderState`, then in a loop
`Poll` and `Dispatch`, `InputUpdate` with one step per event, `PointerLock`, and `Frame`
or `FrameRestarts`, and after the loop `Destroy` for each call that destroys and
`InputCleanup`. `twice` is a history variable: it collects what a call destroyed when it
was not alive, the pointer lock of the loop included. Here a frame is one step: its
inside is `FrameLoop`. At any time before the teardown a user presses, releases or
unplugs (`Kernel`), and the server resizes, pings, asks to close or answers the round
trip (`Server`).

- *Keyboards.* The kernel's queue is bounded; an event too many empties it and leaves
  `SYN_DROPPED`. libevdev then keeps a picture of its own (`seen`) and hands out the
  differences (`pend`) to a caller that asks with the flag SYNC. Both are external,
  modelled from how `input_linux.h` uses them. `down` is the program's `key_*` flags.
  A device that is unplugged looks to the code like one with nothing to read, so
  `NoStuckKey` and `PointerGivenBack` except it.
- *Window.* Requests reach the server in order and take effect at once; events wait on
  the wire. Wayland polls with a round trip, so `SizeIsLatest` holds from the poll's
  beginning; X11 takes what has arrived, and sends no Expose to a window made smaller,
  so nothing is claimed of its size. Configure events come once a buffer was attached,
  as the code never makes an initial commit: the passing run assumes a compositor that
  accepts the first frame as the commit (section 6, finding 5). It also assumes one that
  ignores the acknowledgement of serial 0 (section 6). `DestroyNotify`, which asks to
  close without ending the poll, the warping of the pointer and axes are left out.
- *GPU.* A device is a sequence of queue families. `pools` is the handle of each family's
  command pool and `buffers` what its `command_buffers` points at; `buffer_copy` leaves a
  freed buffer there. At the teardown a pool goes by its handle, which two names may
  share, and a null handle destroys nothing. The passing run has two cards with a family
  for copies alone; those without are finding 4.

### PhysicsSlots

The array's slots with their generations and the word that is `next_empty` in an empty
slot and `mass` in a live one: a mass written through `physics_component_get` changes the
same bits. Holders may delete a handle twice. `Generations` is the number of values of a
generation, 2^32 in the code; `wrapped` is a history variable of the slots whose
generation has come round.

### EditorSession

One action per kind of event (`Text`, `Delete`, `Arrow`, ..., `Press`, `Move`,
`Release`) and one per stage of the loop (`Completions`, `CompletePaste`,
`AwaitPaste`, `HandleEvent`, `EventsDone`, `Close`, `Minimised`, `Layout`, `Frame`).
`history` keeps the undo states as pairs of id and length. `applied`, `issued` and
`warned` are history variables. The document and the window are modelled from how
`main_bench.c` uses them.

## 3. Runs

| Run | What it shows | Bounds |
|---|---|---|
| `ring` | no slot race, no early reuse, nothing left at exit, refinement of `DurableQueue`; no lost wake-up, shutdown returns | 1 slot, 2 requests, 2 completions, events modulo 3, all gates |
| `ring_shutdown_race` | counterexample to `DrainedAtExit` | 2 slots; the caller may stop with work outstanding |
| `engines` | a flush covers all of its data, nothing overlaps, refinement of `DurableQueue`, every call returns, for the mutex engine and each direct one | 3 transactions of 3 bytes, reservation off or in chunks of 4 |
| `storage` | acknowledged revisions survive; recovery makes nothing up; placement of groups; atomic replacement; durability on return | log: 14 frames in groups of 2 edits, 6 frames and 2 edits one by one; files: 3 documents of 3 blocks, three ways of publishing |
| `frames` | use, reuse and disposal of everything a frame holds; resizing | 2 images, ring of 4 slots, counter wraps at 3, 4 generations, 2 sizes |
| `frames_live` | closing ends the program, garbage goes away | the same, one presentation waiting at a time |
| `frame_memory_ring` | counterexample to `RingIntact` | a page of 24 words, 5 swapchains |
| `session` | order of input, warnings, title, selection, screen; every input answered | 3 events of 16 kinds, 3 bytes |
| `desktop` | no stuck key, pointer given back and locked once, size current, pings answered, frames' command buffers live, clean teardown | both windows, 2 cards, 2 keyboards sharing Enter, kernel queue of 1 event, 3 inputs, 2 server events, sizes 0 and 1 |
| `gpu_single_family` | counterexample to `FrameBuffersLive` | a card of one queue family |
| `window_first_commit` | counterexample to `AttachAfterConfigure` | Wayland, one server event |
| `physics_list` | counterexample to `NextSlotIsEmpty` | 3 slots, masses 0, 1 and 7, generations modulo 3 |

Why the bounds are enough to meet the interesting cases:

- Ring: with one slot every submission after the first meets a full ring and every
  position wraps, which is the hardest case for wake-ups; a completion is used again for
  the second request. For more slots the theorems of section 5 hold, and
  `ring_shutdown_race` has two.
- Event words: the counter is 32 bits wide in the code. A waiter that has taken its
  snapshot can miss only a full turn of notifications. In one slot's time at most
  `Slots + 1` of them come before the waiter must be asleep: with
  `EventMod = Slots + 2` liveness holds, with `Slots + 1` TLC finds the lost
  wake-up. 2^32 is far from that for 64 slots.
- Direct engines: three bytes allow a short write in the first, the middle and
  none; a chunk of four makes the reservation end inside a request.
- Log: two edits per group, a header of 40 and a page of 128 bytes produce groups
  that end just short of a page, so the padding's extra page is taken; six frames
  written singly are a base, a branch, a selection and its acknowledgement.
- Frames: an odd wrap of the counter makes the slot sequence skip (0, 1, 0, 0, 1),
  which is what a u32 does for three images; four generations and a ring of
  four let garbage pile up behind a presentation that is late. Liveness is checked with
  one presentation waiting: more of them delay the disposal, they do not change who
  must act for it.
- Session: a paste, something typed behind it and a close or an undo are three
  events; all orders of all kinds are tried.
- Desktop: a queue of one event overflows at the second input of a turn, so three inputs
  are a press that is read, a release that is thrown away and one event behind it; two
  keyboards with Enter are the smallest case of a shared flag; two server events are a
  resize on the wire while another, a ping or a close follows.

Deadlock is checked except in `storage`, whose process may exit, fail or lose power for
good, in the three runs of `Desktop`, whose program exits, and in `physics_list`, whose
state ends where the code would leave its array.

## 4. Fairness

- `WorkerRing`: weak fairness of the producer inside a call, of the worker, of the
  futex wake and of the thread that opens the gate. All are threads of a preemptive
  scheduler whose steps, once enabled, stay enabled; the caller owes no call, and
  spurious returns owe nothing.
- `Engines`: strong fairness of both threads of the mutex engine, as each may find the
  mutex held again and again because the other's waits return spuriously, and a kernel
  mutex does not starve a waiter for ever; in the calling thread, weak fairness of the
  caller and strong fairness of the kernel's progress, that is, a signal does not
  interrupt every attempt.
- `FrameLoop`: weak fairness of the loop, the GPU and the presentation engine; strong
  fairness of a successful acquire, that is, the compositor does not call every
  swapchain out of date for ever (`main.c` tests for closing only after a frame that
  could be started).
- `Desktop`: weak fairness of the main thread and of the server's answer to a round trip.
  Users and server owe nothing else, and frames may restart for ever.
- `EditorSession`: weak fairness of the loop; strong fairness of the end of a
  clipboard transfer, of a layout that asks for a redraw (the caret blinks, the
  window does not stay minimised) and of a successful frame.

## 5. Proofs

All eight proof modules follow one pattern: an inductive invariant, a lemma that each
of its parts is preserved by every action, and theorems drawn from it.
The assumptions are those stated with the constants. The one that is not obvious is that
a preallocation chunk holds the base frame: the benchmark's chunks are 64 KiB and 1 MiB
(`storage_bench.c:372`), the frame a header and a payload of 40.

- **`WorkerRingProofs`**, for every number of slots, requests and completions and
  every event width. `NoSlotRace` is not inductive: it needs `Counters` (the ring is
  never overrun, and positions less than a lap apart have different slots,
  `SlotDistinct`). `RequestIsLive` needs `LiveSlots`: each request between its fill
  and its completion sits in its slot, with its own completion and data; and that
  needs `Outstandings`, that no two completions are of one request. `AckedIsDurable`
  adds `Results`; `DrainedAtExit` adds `Stopped`, which says what the worker can have
  read of the head when `stopping` is visible. Theorems: `TypeCorrect`,
  `SlotRaceFreedom`, `LiveRequests`, `ReleaseAfterDone`, `Durability`,
  `ShutdownDrains` and `Refinement` (every step maps to a step of `DurableQueue` or
  to a stutter; the last two under `ReapFirst`).
- **`MutexWorkerProofs`**, for any number of transactions: types and the mutex's
  holder, durability of what was told ok, `WorkIsAwaited`, and the refinement.
- **`EnginesProofs`**, for any number of transactions, any size of a request and any
  preallocation chunks. `WorkerRuns` and `DirectRuns` take the composition apart: each of
  its behaviours is one of `MutexWorker` and one of `DurableWrite`, so what is proved of
  the former carries over. For the latter `DInv` says where in a transaction which
  operation may be in flight (`Quiet`), what the caller knows of each request
  (`Answers`), and which bytes of the request are in the page cache and on the disk at
  each step, short and linked writes included (`Written`, `Flushed`). `Bounded` is
  needed because the queue's sequence must be read off the disk: no request but the
  current one may have begun to reach it. The arithmetic of byte spans is in six lemmas
  (`Places` to `NotReached`). Theorems: `BuffersAreReleased`, `DirectRefinement`, and
  `EveryEngineIsDurable` for the composition.
- **`StorageProofs`**, for any number of documents and blocks, and for histories of any
  length over any base. *Publication*: `TypeCorrect`, `ReplacementIsAtomic`,
  `PublicationIsDurable`; the invariant says which inode each name may lead to, and that
  an inode is complete on the disk before a name does. *Log*: `AckSurvives` speaks of what
  recovery would return and is far from inductive. `LogInv` says instead that the frames
  of the file and those staged are a chain (`Chained`): each is where its number says,
  leads to revisions in front of it, and its edit makes its document from its parent's.
  Whether a frame is whole is kept apart from that (`SameFrame`), so that what is torn,
  lost or damaged leaves a shorter chain (`RemainsChained`), of which `Media` says where it
  may be torn. With `Position`, what a live writer knows of its file, and `Acknowledged`
  it is kept by every step. What recovery makes of a chain is then a fact about data:
  `ChainRecovered` (exactly the whole frames in front, with the last selection among
  them), `ChainRefused` (nothing, over another base) and `ChainMaterializes`. These are
  inductions over the frames; as the library's induction cannot be instantiated here,
  `Induction` restates it for sets of numbers, from the well-foundedness of `<`. Sizes of
  files (`BytesAre`, `BytesOfFront`) go the same way, and `GroupsPlaced` needs besides that
  a page is filled (`SealedIs`), that growth covers a write (`GrownIs`) and that the
  first chunk is reserved before the file is written (`Placed`). Theorems:
  `AcknowledgedRevisionsSurvive`, `RecoveriesAreTruthful`, `GroupsArePlaced`, and, of a
  step, `SyncedFramesStay`: it takes back no sync and no acknowledgement, and changes no
  frame in front of the last sync.
- **`FrameLoopProofs`**, for one to three images, any capacity 2 to 2^15 of the ring, any
  sizes of the window, any value at which the frame count wraps and any number of
  presents waiting. The first part proves the ring: what it contains after a push or a
  pop, for indices that wrap (`RingContents`, `RingPushed`, `RingPopped`). `IInv` adds to
  the properties what ties the two queues together (`PresentsInv`): every submission is
  followed by the present of its image, no image is in two of them, and while a present
  is pending its fence is closed. Without that `GpuUsesLiveObjects` is not inductive: a
  fence seen open must mean that the submissions before the present are done too.
  Theorems: `GpuObjectsLive`, `GarbageIsAccounted`, `GarbageHasRoom`, `SlotsExclusive`,
  `FencesOpen`, `ResizesTakeEffect`, and `DisposalAfterPresents`, an action property.
- **`DesktopProofs`**, for any keyboards, keys, queue length, window and sizes.
  `NoStuckKeys`: a flag that is set has a source, a key libevdev takes to be down on some
  keyboard or a difference not yet handed out; and libevdev's picture together with what
  is queued tells what is held, or the queue holds a `SYN_DROPPED`. `FrameBuffersAreLive`:
  for every card with a family for copies alone, `find_queue_families` keeps the two pools
  apart, so the upload never touches the frames' buffers; the hypothesis is what
  `gpu_single_family` violates. `OneLock`: the server's count of constraints follows
  the window's flag in the loop, and in the teardown follows what is still to be
  destroyed, in which the lock stands at most once. `SizesAreLatest`: the configures on
  the wire are those not acknowledged, in order, and the answer to a round trip comes
  after those sent before the poll; when it has been read, they have been too.
  `TeardownsAreClean`: objects have a rank above that of everything made from them, each
  list to destroy is in the order of ranks, and what exists stands in it. The ranks
  replace a comparison of every pair of objects. That nothing is destroyed twice needs
  more: what a call still to come destroys is alive (`Destroyed`), which for a pool means
  that a handle is forgotten when it is destroyed, and for the lock that the window's
  handle of it is never stale. The X11 screen is excepted by name (`Misfreed`).
- **`EditorSessionProofs`**, for any number of inputs and any length of the document.
  `QueueInOrder` says which inputs wait in the queue when some have been handled and one
  paste is under way, whose answer may come at any time: exactly the rest, oldest first.
  For closing, `HistoryOrdered`: undo states have ids of their own, so that a state
  saved or warned about is recognised after undo and redo and no later edit takes its id.
  Theorems: `InputsAreInOrder`, `DiscardsAreWarned`, `TitlesAreTruthful`,
  `SelectionsAreInDocument`, `ScreensAreCurrent`.
- **`PhysicsProofs`**, for any number of slots and any width of the generation:
  `DeletedStaysRefused`. Every deleted handle has a generation below its slot's, and no
  handle held one above, although slots are shared (finding 3), as long as the slot's
  generation has not come round. After that, which takes 2^32 deletions of one slot, an
  old handle may be taken for a new one.

Every invariant a run checks has its theorem. Only model-checked are the liveness
properties: the provers have no ENABLED and no fairness.

Where a module keeps a type invariant that no run lists, it describes the variables and
is the base of its proofs or of those planned.

## 6. Disagreements found

1. **Shutdown can drop admitted work** (`ring_shutdown_race`). `worker_ring_main`
   loads `submitted` (`io_bench.c:320`) before `stopping` (`:321`). A request
   submitted and a stop published between the two loads are both missed: the worker
   exits with the old head. The comment at `:400` says "all admitted work is drained
   first". The check's own shutdown test holds the worker behind a gate until stopping
   is set, so its schedule cannot contain the race; `ring` shows that schedule,
   and that of a caller which reaps first, to be right.
2. **The garbage ring lies in freed memory** (`frame_memory_ring`). `main.c:57` pops
   the arena from which `create_render_state` allocated the ring's slots
   (`G/gfx/rendering.h:112`). The scratch of a later `recreate_swapchain` overwrites
   a retired swapchain's handles while it waits. The comment at `main.c:55-56` supposes
   the arena was not used in there for anything.
3. **Two components get one slot** (`physics_list`). `physics_component_create` takes
   `components_count` for the new first free slot before it counts the new component
   (`G/phx/avbd.h:409-410`), so the slot just handed out is handed out again, with the same
   generation. The comment at `:150` says the list leads through empty slots.
4. **One queue family for everything leaves the frames without command buffers**
   (`gpu_single_family`). `find_queue_families` falls back to the graphics family for
   transfers (`G/gfx/context.h:386-388`); its pool exists when `render_context_create` looks
   for one (`rendering.h:47`), so the frames' buffers are never made, and `buffer_copy`
   leaves a freed one in their place (`buffer.h:77-100`).
5. **No initial commit** (`window_first_commit`). The call that would commit the surface
   is commented out (`window_wayland.h:202`), so the first commit carries the first frame,
   before any configure. `xdg-shell.h:224-226` says the client must first commit without a
   buffer.

Seen while modelling, without a run of their own:

- **Serial 0 is acknowledged.** `xdg_toplevel_configure` ends with
  `xdg_surface_ack_configure(.., 0)` (`window_wayland.h:550`). No configure has that
  serial; `lib/wayland/xdg-shell.h:1218-1219` (and 984-987) says acknowledging one that
  was never sent raises `invalid_serial`, which ends the connection. The model has only
  the acknowledgement of the surface's own configure; a server that keeps to the protocol
  there would end the program at the first configure, so that what `desktop` shows of
  the Wayland window holds with one that does not.
- **The X11 screen is freed under its display.** `screen` is `DefaultScreenOfDisplay`'s
  pointer into the display (`window_x11.h:47`). `close_window` gives it to `XFree`
  (`:165`) while the display is open, and `XCloseDisplay` (`:166`) reads and frees it
  again. `Desktop` models both; `TeardownIsClean` excepts that object, and only on
  X11, and holds of everything else.

## 7. Plan

What would add most next:

1. `FrameMemory`: what holds of it as well (every checkpoint leads back to an earlier
   one; the arena returns to its length after a frame).
2. `RingBuff`: the push of several elements, once something calls it.

## 8. Not modelled

- Numeric code (`G/anim.h`, `camera.h`, `math.h`, `G/text/`, `physics_update`):
  floating-point computation on single records, without state a finite model could tell
  apart.
- `src/config.h`: it does not compile as it stands and nothing calls it.
- Rune (`G/rune/*.h`): nothing in the tree uses it. The tool the build builds from it is
  not there, and the check of what was written does not compile.
- The arena's scratch, its dynamic runs and its allocation lists; the ring's push of
  several elements: `main.c` does not use them, or not beyond one call.
- The rest of the GPU's set-up (`pipeline.h`, `image.h`, `vkutils.h`, ...): structures filled
  once and names of enumerators.
- `vkDeviceWaitIdle` waits for queues, not for presentations: what a driver does with
  the fences of a swapchain destroyed after it is outside this code.
- A present that could not be queued for another reason, such as a lack of memory, while
  `render_target_resized` is set: `end_frame` then recreates the swapchain and goes on
  (`rendering.h:299-310`); the frame's semaphore is left signalled. The model takes a
  present to be queued or the program to end.
- The limit on the number of input devices, and the descriptors left open when a device
  is dropped (`input_linux.h:251`, `:265`).
- The measuring loop, statistics and JSON of both benchmarks and their Python runners.
- The editor's scrolling, scrollbar and metrics: view state nothing else depends on.
- Logging, assertion macros and string formatting. An assertion appears as a guard
  where it can stop the program.
- Vendored and generated code. It is most of the tree: of some 50900 lines counted as
  implementation, 31600 are `fontshaper.h`, 2400 the generated `xdg-shell.h` and 1200 the
  names of `vkutils.h`. The mapped definitions cover a small share of the whole for that
  reason; of the stateful code, what is left is listed above.
