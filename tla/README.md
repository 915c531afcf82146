# Verification of emeraude-engine

TLA+ models of the parts of the engine where threads, the graphics device and
failures meet, with the TLC runs that check them and the TLAPS proofs of what
matters most. Paths are relative to the root of the repository (`src/...`,
`docs/...`); short names of files are those of `src/src/` (`Core.cpp`,
`Renderer.cpp`, `Recorder.cpp`, ...). `PROJECT.json` has the exact lines every
definition stands for.

## 1. The system

emeraude-engine is a 3D engine on Vulkan. A `Core` owns the main loop and the
two threads of the engine (logics, rendering) and uses a pool of workers for
everything that loads. About 290 000 lines; most of them describe data
(materials, effects, shaders) that is handed to the device. The state that
several actors share is in the parts below.

| Component | State | Operations | Interacts with |
|---|---|---|---|
| Resources: dependency protocol (`Resources/ResourceTrait`) | status, dependencies to wait for, parents to notify, one mutex per resource | begin/end of a load, `addDependency`, `checkDependencies`, `dependencyLoaded` | each other, from any worker; observers |
| Resources: containers and sweeps (`Resources/Container`, `Manager`, `LoadingRequest`) | one map of shared pointers per type, the requests being downloaded, one mutex each | `getResource`, `getOrCreate...`, loading tasks, `onNotification`, `unloadUnusedResources` | the pool, the network manager, clients on any thread, other containers from inside `load()` |
| Renderer: frames in flight (`Graphics/Renderer`, `RendererFrameScope`, `Vulkan/DeferredDestructor`) | current frame, fence and semaphores per frame, present semaphores per image, retired objects | `renderFrame`, `discardAcquiredImage`, `recreateRenderingSubSystem`, `retire...`, `tick` | the device, the presentation engine, the window, any thread that retires |
| Vulkan: swap-chain, queue, fence | status of the swap-chain, its images | acquire, present, recreate, submit, wait | the renderer |
| Core (`Core`): redraws | frames owed, a mutex and a condition, `m_windowChanged` | `requestRedraw`, `renderingTask`, `onWindowChanged`, `onNotification` | any thread requests; the window, the renderer, the overlay |
| Core (`Core`): loops | running flags, paused, deadline of the next cycle | `run`, `pause`, `resume`, `stop`, `scheduleMainLoopCycle`, the two threads | the scene manager's shared lock |
| Scenes: manager (`Scenes/Manager`, editor, bindless table) | list of scenes, active scene, two mutexes; what the input manager, the table and command buffers refer to | create, look up, enable, disable, delete, toggle the editor | Core's threads, which hold the active scene under a shared lock; the device |
| Scenes: published state (`Scenes/Scene.rendering`) | two states of every entity and view, the index of the one to render | publish, the passes of a frame, archive | the logics thread writes, the render thread reads, without a lock |
| Vulkan: transfers (`Vulkan/TransferManager` and its operations) | operations with a staging buffer, a fence and a semaphore each | reserve, grow, write, submit once or twice, reuse | loaders on any worker, the device |
| Graphics: video recorder (`Graphics/Recorder`) | readback slots with a fence each, the queue, flag and thread of each recording | capture, harvest, encode, start, stop, terminate | the render thread captures, the main one starts and stops, a thread per recording encodes |
| Net: downloads (`Net/Manager`) | list of downloads, its indices are the tickets | `download`, status | containers, the pool |
| Audio, overlay, console, input | per part: queues between a thread of its own and the main one | | Core |
| Physics, animations, Saphir, asset loaders, services, platform | sequential, or numeric, or input/output | | |

### What is hard

- **Interleaving.** A dependency may end its loading while another thread is
  declaring it; two threads may find the same resource ready; requests for one
  name meet sweeps, downloads and synchronous loads; a redraw is requested
  between the test and the sleep of the rendering thread, or while a frame that
  does not show it is under way; a request of a cycle is stored between the load
  and the removal of the former; a recording is stopped between the test and the
  wait of its encoder.
- **Order.** Images come from the swap-chain in any order and presents end in
  any order; notifications of dependencies arrive in any order; a resize reaches
  Core before the renderer; a scene dies while frames that show it are on the
  device.
- **Partial failure.** Every call to the device in `renderFrame()`, in an upload
  and in a capture may fail after others have had effects on fences, semaphores
  and images. One dependency of several may fail.
- **Time measured in steps.** The deferred destructor counts ticks that stand
  for fence waits of different frames; two published states stand for "the
  passes of a frame are quick".
- **Locks held across calls.** A synchronous load keeps the mutex of its
  container while it calls other containers; `deleteScene()` takes a second
  lock, twice, under its first; the main thread wants alone a lock that two
  threads share over and over.
- **Stale state.** The view is archived at an index some other frame recorded;
  the bindless table refers to scenes that were disabled.

`PROJECT.json` lists these as hazards, each at its line, with the property
that covers it or the reason none does; section 6 lists further ones.

### What makes each part correct

- *Dependency protocol*: no lost wake-up; nothing created before what it
  declared; the two lists agree; a load ends, unless something it waits for
  failed.
- *Containers*: one resource per name, one `load()` per resource, nothing in
  use is dropped, nothing unused is kept, synchronous loads return.
- *Frames*: nothing in use is destroyed; no fence is waited for in vain; no
  semaphore is used twice at once; no image is lost; a degraded swap-chain is
  recreated.
- *Redraws*: a change is owed enough frames until it is shown, and is shown,
  unless a frame fails; the rendering thread never sleeps on what it owes, and
  ends.
- *Loops*: a pause is entered; a requested cycle is run; stop ends every thread.
- *Scene manager*: no thread, command buffer or texture slot refers to a
  destroyed scene (the code has two exceptions, see section 4); what listens to
  the input is active; calls return.
- *Published state*: a pass sees one whole state, the latest when it began;
  states are shown in order; the archive has what was drawn. The passes of one
  picture may see different states.
- *Transfers*: what is uploaded arrives and is nobody else's; a semaphore is
  signaled once per wait; operations come back. Operations that were left half
  made are the exception.
- *Recorder*: the buffer is bounded, the file complete, its time that of the
  clock, and it is finished after a stop.

## 2. Modules

| Module | Models | Read with |
|---|---|---|
| `Creation` | abstract: a resource is created after what it declared | |
| `ResourceChain` | the dependency protocol, one step per locked region; implements `Creation` | `Resources/ResourceTrait.cpp` |
| `ResourceStore` | abstract: what clients and resources see of a resource | |
| `ResourceContainer` | requests, loads, downloads, sweeps; one step per locked operation; implements `ResourceStore` | `Resources/Container.hpp`, `Container.cpp`, `LoadingRequest.cpp`, `Manager.cpp` |
| `RenderFrames` | `renderFrame()` step by step, the swap-chain, the device, the deferred destructor | `Graphics/Renderer.cpp`, `Vulkan/SwapChain.cpp`, `Vulkan/DeferredDestructor.hpp` |
| `OnDemandRedraw` | the budget of frames, the rendering thread, what requests redraws | `Core.cpp`, `Core.hpp` |
| `MainLoop` | the three loops: pause, resume, stop, cycles | `Core.cpp`, `Scenes/Manager.hpp` |
| `Snapshot` | abstract: states follow one another, each pass of a picture reads the latest | |
| `StateBuffers` | the two states, the publication, the passes; implements `Snapshot` | `Scenes/Scene.rendering.cpp`, `Graphics/ViewMatrices2DUBO.cpp`, `Renderer.cpp` |
| `ActiveScene` | the scene manager, its two locks, what refers to a scene | `Scenes/Manager.cpp`, `Scenes/Editor/Manager.cpp`, `Graphics/BindlessTextureManager.cpp` |
| `TransferPool` | uploads and downloads, their operations, the device | `Vulkan/TransferManager.cpp`, `.hpp`, the two `...TransferOperation`, `Vulkan/Buffer` |
| `VideoRecorder` | captures, slots, the grab buffer, the encoder, stops | `Graphics/Recorder.cpp` |
| `Core_proofs` | the theorems of `MainLoop` and `OnDemandRedraw`, the two views of `Core` | |
| `..._proofs` | the theorems of the module of that name and their proofs | |
| `MC...` | instances for TLC | |

### ResourceChain

`status`, `deps` and `parents` are `m_status`, `m_dependenciesToWaitFor` and
`m_parentsToNotify`. What a thread has yet to do is its call stack (`todo`), a
sequence of jobs: inside `load()`, between the tests and the link of
`addDependency()`, before `checkDependencies()`, inside
`onDependenciesLoaded()`, telling parents. A step is a region under the
mutex; `addDependency()` holds two mutexes over two steps, because the lists
its search for cycles reads are those of *other* resources, which other
threads may change in between. `declared` and `announced` are history.

`Names` says what a description may refer to (any resource, cycles included),
`Outcomes` what `onDependenciesLoaded()` may return, `Failures` which failures
happen. A description is not read in any order: `load()` may declare any of
`Names[r]` at any time, and end at any time. `addDependency()` is only called
inside a `load()`, which is its precondition (`ResourceTrait.hpp:797`): the code
does not enforce it, in the statuses `Loading` and `Loaded` it logs and goes on to
the link (`ResourceTrait.cpp:164-174`). `LoadedAfterDependencies`
and `CreationKept` rest on it.

`Creation` is the promise: what a resource needs is declared before it is
complete and nothing after, and its creation begins when all of that was
created. Nothing is left in it of lists, locks, notifications and checks. Two
threads may pass the same test, so one creation may end when another has already
ended otherwise (`Finish`). `StageOf` and the history give its variables.

### ResourceContainer

`status[n] = "None"` is the absence of an entry in `m_resources`. The uses of
shared pointers are explicit: clients (`held`), resources (`uses`), tasks
(`queue`), downloads (`external`), calls of `load()` (`calls`), and the pointers
to the parents a resource that is not loaded keeps. `InUse` and `Pinned` say
what `use_count()` tells. The sweep follows the manager: the containers in order
of complexity, again until a pass drops nothing; inside one container
`std::erase_if` visits the entries in an unspecified order, so what it drops is
any set between "unpointed before" and "unpointed but by those dropped".

A resource keeps what it uses, and `parents` who waits for it (`Depend`, the
double link). The protocol of `ResourceChain` appears as its outcome: a resource
that waits for nothing more is about to be created (`Waking`; that somebody does
is `NoLostWakeup` there), and `onDependenciesLoaded()` succeeds or, for what is
in `Broken`, fails (`Settle`, `Outcome`). Several threads may have passed the
same test, one per thing it uses and the end of its own `load()`: `late` counts
those still inside, each of which sets the status again (`SettleAgain`), so that
it may go from `Loaded` to `Failed` and back. `created` is history: what was
loaded once. The single loader that `ResourceChain` assumes (`BeginLoading` from
`"Unloaded"`) is what `OneLoader` shows here.

A synchronous call gives its resource to who asked when it returns (`Return`):
the client keeps it, or the outer `load()` depends on it. One that failed is
given all the same if the store knows it, and replaced by the default resource in
`getOrCreateResourceSync()` (`Substituted`). An entry a
client made to fill by hand later (`createResource`), which has neither a task
nor a call, is not represented.

`ResourceStore` is the promise: who asks for a name gets the resource there is
or a new one; it is created after all it uses was, or fails; it may change its
mind between the two as long as another thread is creating it as well
(`unsure`), and is dropped when only what is dropped with it keeps it. `Store` is
the mapping: a resource that has not begun, is queued or is in a call of `load()`
is "Loading" (`Stage`), what clients and resources keep is the same, and `unsure`
is `late` above zero. `Usable` and `HandedOutForGood` are stated of the promise
and proved of the containers: they say no more than the code keeps, that a
loaded resource has all it uses, created and not dropped, and that what a client
keeps is settled for good once nobody is creating it any more.

### RenderFrames

`pc` is the place in `renderFrame()`; each step ends where a call to the device
returns. `fence`, `acquired`, `images`, `waits`, `oldWaits` are the objects of
the device: fences, image-available semaphores, who has an image, which
semaphore its present waits for, and the semaphores presents to former
swap-chains still wait for. `refs` is what the command buffers a frame submitted
reference, until its fence is signaled; `life` and `age` are the deferred
destructor (an age is the distance of an entry to `m_currentTick`).

### OnDemandRedraw

`render` is the place of the rendering thread in its loop, `handler` that of
the main thread in the handlers of `Core`; the specification is `RedrawSpec`
(`MainLoop` has the other one of `Core`, `Spec`). Between the test of
the budget and the sleep it holds the mutex (`"falling"`), so `requestRedraw()`
waits (`Unlocked`); the frame takes from the budget in two steps, a load and a
decrement (`Consume`, `Take`), between which a request may set it. A frame draws
and is presented (`Draw`, `Present`), is abandoned after it was begun or refused
by the present (`Abandon`), finds the surface out of date (`OutOfDate`), gets no
image (`NoImage`), or recreates the swap-chain, which may fail before anything
was begun (`SurfaceUnknown`) or half-way (`RecreateFails`), and then leaves the
status `"Broken"`, which `renderFrame()` neither draws with nor recreates. That is
the interface `RenderFrames` has in detail. Every one of them takes a frame from
the budget, and Core is told of a recreation that succeeds only (`refreshed`):
`failed` counts the frames that failed since the last request, and is what the
properties except. The main thread's handlers are split
where another thread may come in: `FramebufferResized` tells Core, `SetDegraded`
the renderer; `WindowChanged`, `LowerFlag`, `RedrawFollowed` are
`onWindowChanged()`. One change is followed at a time (`change`), which is
enough, as requests do not say what they are for.

### MainLoop

`place` are the two threads (before the test, before the lock, in the scene),
`main` is the place in `run()`, which goes through the same cycle in and out of
a pause (`inPause`). `scheduled` is the atomic deadline, abstracted to none,
later and due; `read` is what `executeMainLoopCycle()` loaded, forgotten when the
value changes, so that `Remaining` is the compare-and-swap. `wanted` and
`unseen` are history: the last request, and whether it was made when the main
thread was already in a wait nothing was to end. Events (`Pause`, `Resume`,
`Stop`) come while the main thread waits or in the application's cycle.

### StateBuffers and Snapshot

A part is what is copied or read in one go: the coordinates of an entity, the
matrices of a point of view; a state is its number. The logics thread writes
parts in any order, then stores the index; the rendering thread goes through
the passes of a frame, each of which loads the index and reads the parts. The
code has no lock; that a pass is over before the *second* publication from its
beginning starts is an assumption on speed (`QuickPasses`), which the
theorems name. `picture` is what the passes of the frame in progress have read,
`shown` what all those of the last frame have, `drawn` its pass `"draw"` alone.
`Snapshot` is the promise, of each pass and not of the frame: it reads the whole
of the latest state there was when it began, and a picture is made of what its
passes read. `Promise` is the mapping: the latest state is `published`, a pass
before the archive is a reading, and `picture` and `shown` are the same. The view
matrices are uploaded before the frame (`Core.cpp:279`,
`Scene.rendering.cpp:333`), the draw loads the index again
(`Scene.rendering.cpp:420`), so a picture may mix two states
(`PictureIsOneState`, section 4).

### ActiveScene

A scene exists as long as something owns it (`Owned`: the list, the active
pointer, clients); what refers to it otherwise is `using` (the threads), `table`,
`arrays` and `environment` (the slots of the bindless table for 2D and cube
textures, for cube arrays and for the environment), `enabled` (the input manager)
and `flight` (command buffers on the device). `Plain` are the scenes with neither
2D nor cube textures but an environment, `Gobo` those with cube arrays. `Cleared`
is `clearTextureSet()`, with its early return for the first and without a hand on
the second. `list`, `owner` and `inScene` are the
locks; a call is a sequence of places between its locks. `Switcher` are the
threads that enable, disable and delete.

### TransferPool

A call holds the mutex from its first line to its return, so there is one call
at a time (`op`, `target`, `place`); the device (`Copy`, `Finish`) runs beside
it. An operation is listed and created, reserved (its fence reset), written to,
submitted in one or two parts; each step may fail, and then the fence stays reset
for good (`spent`). Bytes are abstracted to whose they are (`content`, `data`),
sizes are kept, because an expansion that fails has stored the new size.

An operation whose creation fails stays listed. Without its staging buffer or its
fence it is never available (`FenceFails`: given up at once). An image operation
creates its semaphore last: without it the fence is there and signaled
(`SemaphoreFails`), and the next upload uses the operation. Its two submissions
are then not ordered (`SubmitLoose`, `CopyLoose`, `loose`), its fence says nothing
of its copy, and `astray` records the images whose copy was ever submitted so.

### VideoRecorder

Time is in ticks of the film's frame rate; a capture is the tick it was taken
at. A slot has a fence and a capture; `pending` are the slots submitted and not
harvested. `render`, `main`, `encoder` are the places of the three kinds of
thread. The encoder holds the mutex of its queue between its test and its wait
(`"dozing"`); harvests need that mutex, stops do not. `owed` is history: what
was captured and is neither encoded nor refused by the codec; that the codec gives
back at the end what it has kept for its lookahead (`Recorder.cpp:800-831`) is not
represented: an image handed to the codec counts as written. `unheard` is
history as well: whose last notification came while the encoder was dozing.
`StopsAnytime` lets the main thread stop inside of a capture, as it may; what
follows in the code is a use of a moved pointer, so the other properties are
checked and proved without it, and `CaptureHasSession` states the difference.

### How they compose

`ResourceContainer` uses the protocol of `ResourceChain` as one step, and gives
it its single loader. `OnDemandRedraw` uses the swap-chain of `RenderFrames` as
the outcomes of a frame. `MainLoop` and `ActiveScene` use the same shared lock
from its two ends: who waits for whom, and what is behind it. `StateBuffers`
runs under that lock, which is why a scene does not change during a frame.
`VideoRecorder` captures after the frame of `RenderFrames`, by submissions with
fences of their own. `TransferPool` is what the `load()` of a resource calls.
The products of these modules are out of TLC's reach; each is written so that
what it takes from another is a property checked there.

## 3. Runs

All bounds are in the `.cfg` files; no run uses a state constraint, so every
run explores its whole state space. No symmetry is used, as every passing run
also checks a liveness property.

| Run | Question | Size |
|---|---|---|
| `chain` | Does the protocol lose a wake-up, create too early, disagree on its lists, or leave a load open, in any interleaving? | 3 resources that may all name each other, 2 threads, all failures, 106 678 states |
| `container` | One resource per name, one loader, complete and safe sweeps, no deadlock between containers, as a client is promised? | 4 names in 3 containers, 1 client, 1 worker, creations that fail or happen twice, a sweep, 184 035 states |
| `frames` | Are the device's objects used as they may be, wherever a frame fails? | 3 frames and images, 1 object that is created, retired and destroyed again, 324 000 states |
| `redraw` | Is what is not on the screen always owed, and shown in the end, and what does a frame that fails cost? | 3 images, changes, resizes, scenes and failures at any time, 116 749 states |
| `mainloop` | Are cycles run, pauses entered, loops stopped? | 3 threads, requests and events at any time, 20 000 states |
| `buffers` | Are the double states an atomic snapshot for each pass? | 2 parts, 3 publications, every order of passes, 25 660 states |
| `scenes` | Is a destroyed scene referred to, do the locks block? | 2 scenes (one with an environment only, one with textures and cube arrays), 2 callers, 2 threads, 8 328 states |
| `transfers` | Do data, semaphores and operations stay apart, wherever an upload or the creation of an operation fails? | 3 targets, 3 operations, 2 sizes, 488 131 states |
| `recorder` | Is the buffer bounded, the file complete, on time and finished? | 2 slots, 2 recordings, 5 ticks, a queue of 1, failing submissions, 438 015 states |
| `forever` | the end of a load (`ResourceTrait.hpp:612`) | found violated |
| `lost` | the deferred destructor (`Renderer.cpp:1549-1551`) | found violated |
| `unheard` | the end of a recording (`Recorder.hpp:403-404`) | found violated |

Why the bounds suffice. *chain*: a wake-up is lost between two threads and two
resources; the third resource gives chains, shared dependencies and two parents
of one dependency. Each thread may be inside a synchronous load of one resource
while loading another, so up to four jobs are open. *container*: a material, a texture
and its image are a chain of three layers, enough for two containers to be locked
at once, for a resource pinned by one that is dropped in the same pass, for a
loaded user of a loaded resource, and for a request that meets a queued, running,
failed, refused and downloading load; the other texture is refused. A resource that uses
one other may be created by two threads, which is where a status changes back. *frames*: with three frames the current, the previous and
the next are different, which is what fences, semaphores and ages distinguish;
one object is enough, as objects do not interact. *redraw*: three images is what
the engine asks for and the least for which `NothingForgotten` holds. *buffers*:
three publications overwrite each of the two states; two parts are enough to
tear one. *scenes*: the deleted scene and another, with a client that keeps a
pointer to either. *transfers*: two images share two operations, so that one is
reused, expanded, left without a semaphore or given up while the other is on the
device; the buffer has the path with one submission. *recorder*: two slots are enough to be harvested
out of order, two recordings for one that is encoded while the next captures;
the queue of one is full at once.

### Fairness

- `ResourceChain`: each thread inside a call goes on, `load()` ends, and a
  requested resource gets a loader: the pool runs every task. Weak fairness is
  enough as mutexes are held for single steps. `load()` is not made to declare
  anything.
- `ResourceContainer`: a thread inside `load()` goes on without having to fail (strong fairness, as it
  competes for mutexes that are released over and over), tasks start, downloads
  end. Clients and sweeps are not fair: nothing may depend on them.
- `RenderFrames`: the render thread goes on, submissions and presents end, and
  a recreation that is tried over and over succeeds in the end. Window events
  and the threads that retire objects are not fair. That the render thread goes on
  means that `renderFrame()` is called over and over, as it is while a scene is
  active; without one a recreation that failed is tried again at the next request
  of a redraw only, which is the subject of `OnDemandRedraw`.
- `OnDemandRedraw`: the rendering thread goes on and its wait times out (weak);
  the main thread, whose waits are bounded, handles an event or the flag, and
  who made a change requests the redraw (strong: they wait for a mutex, or for
  the main thread to be free of the handlers of other events). Nobody has to
  change, resize, switch or stop anything, and frames may fail for ever.
- `MainLoop`: each thread goes on (weak) and who stored a request posts the
  event. No event is owed. `LockExclusive` has weak fairness only: readers that
  overlap may keep it out, and `PauseIsEntered` does not need more because the
  pause flag makes them stop.
- `StateBuffers`: both threads go on (weak), and a frame gets an image in the
  end (strong for the draw, as frames may end early over and over).
- `ActiveScene`: who waits for the exclusive lock gets it if it is free over and
  over (strong); calls and holders of the shared lock go on (weak). `CallsReturn`
  is stated for executions where the shared lock is free over and over: the code
  does not ensure it, two threads may relay each other in it.
- `TransferPool`: a call goes on to its end, the device executes what it has
  (weak, per operation). What was submitted without a semaphore is not fair: no
  property needs it.
- `VideoRecorder`: the device copies, the main thread goes on in a stop, the
  encoders go on (weak), and a stop gets the mutex of the queue it competes for
  (strong). Captures, starts, stops and time are not fair.

## 4. Properties

**chain** — `NoLostWakeup`, `ListsAgree`, `LoadedAfterDependencies`,
`CreationKept` and `LoadingEndsOrIsDoomed` hold. `addDependency()` takes *both*
mutexes: with its own only (mutant `FreeOwnOnly`) two threads close a ring and
`LoadingEndsOrIsDoomed` is violated. `LoadedAfterDependencies` is stated with
history, because a status may leave `Loaded` (see `FailedIsTerminal` below).
`CreationKept` is the refinement; were an end of `load()` not refused after a
failure (mutant `RefusedAccepted`), a failed resource would become complete.
`NoCircularCreation` is what is left of the detection of cycles: two calls may
close a ring (`NoCircularWait` below), but nothing in it is created. It is in no
run, as with three resources no ring is closed: it is proved for any number
(`NoCircleCreated`), and was checked with four in a ring (`Names <- NamesRing`,
80 021 states), where one is.

**container** — `OneLoader`, `PointedIsStored`, `SweepComplete`, `NoDeadlock`,
`CallsReturn` and `StoreKept` hold, although a creation may fail and may happen
twice, with different ends. Were a failed dependency taken for a ready one
(mutant `WakingEnded`), a resource would be created before what it uses:
`StoreKept` is violated. `SweepComplete` makes an exception of what waits for a
resource that failed or never loads: the two point at each other for ever, so
neither is ever dropped. `NoDeadlock` and `CallsReturn` rest on the layers of
`LayersAssumption`: a resource only asks for resources of less complexity.
With one mutex for all containers (mutant `LockedTogether`) both are violated.

**frames** — all hold when no call loses the surface and the draining
submission of `discardAcquiredImage()` does not fail itself. `SemaphoresFree` is
of both kinds of semaphores: the one an acquisition signals and those presents
wait for. `DegradedIsRecreated` makes an exception of a window event during a
recreation, whose status the end of the recreation overwrites.

**redraw** — `NoLostWakeup` rests on the mutex (mutant `UnlockedAlways`).
`NothingForgotten` is the argument for the number of images as the budget: a
frame in progress takes one of the frames a request has just set, a surface that
was not reported takes another to be found out. A frame that fails, or a
recreation that fails, takes one as well (`Renderer.cpp:1515-1521`, 1573, 1615),
and nothing asks for another in its place: what the property states is that it
costs one and no more. After as many failures as there are images, with no scene
active, a change may stay off the screen, and the swap-chain degraded, until
something else asks for a redraw. So `ChangeIsShown` makes an exception of a
failed frame; it and `RenderingEnds` hold, the latter only because the wait has a
timeout, as `stop()` notifies without the mutex. With two images
`NothingForgotten` is violated.

**mainloop** — `NoRequestSleptOn`, `CycleIsRun`, `PauseIsEntered` and `StopEnds`
hold. The removal of a request must be a compare-and-swap (mutant
`RemainingStored`), the pause must be tested before the lock is taken (mutant
`EntersPaused`).

**buffers** — `PassIsWhole` holds under `QuickPasses`; so do `HistoryIsDrawn`,
for the frames that record their index, `Snapshots`, which is the refinement,
and `PublishedIsDrawn`, of all passes of a picture. None says that a picture is of
one state: `PictureIsOneState` below is violated under `QuickPasses` as well.

**scenes** — `NothingDestroyedInUse` and `EnabledIsActive` hold with one thread
that enables, disables and deletes; without the wait for the device (mutant
`DrainedLater`) the first is violated. It counts what the threads hold, what the
command buffers refer to, and the slots for 2D and cube textures and for the
environment. Two kinds of slots it does not count, because the code leaves them
to a destroyed scene (`NoDescriptorLeft` below): the environment of a scene that
has no 2D or cube texture of its own (`BindlessTextureManager.cpp:476-480`), and
the cube arrays of any (511-512). `CallsReturn` holds although `deleteScene()`
keeps the mutex of the list throughout.

**transfers** — `DataIsOwn` and `SemaphoreIsFree` hold wherever a step fails,
the creation of an operation included. An image operation that was left without
its semaphore goes on being used, though, and what it carries is excepted
(`astray`): `EveryDataIsOwn` below is violated. `OperationsReturn` makes an
exception of what is given up (`spent`): a failed upload, and every download,
leaves a fence reset that nothing will signal, a creation that failed early
leaves no fence, and the operation is lost for good. `UploadsLand` holds, with
the exception of the first. What the two liveness properties rest on,
`NoOperationLost` and `UploadsUnderWay`, was checked on the same instance
(mutants `FencedNot` and `SubmitFailsIgnored` violate them) and is proved below.

**recorder** — `GrabBufferBounded` gives the real bound, that of the queue plus
all slots, since the code tests before it harvests. `FileIsComplete` follows a
capture from the slot to the file through the stop. `DriftIsBounded` is what is
left of a timeline that never drifts: images may be late by the slots, no more.
`FileIsComplete` ends where the codec takes an image; what the codec still has at
the end of a file, and stops inside of a capture, are not in it.
`RecordingEnds` makes an exception of the two ways a stop is stuck, an unheard
notification and a fence that was reset for a submission that failed.

### Disagreements between the code and its texts

Three are runs that TLC finds violated, with the lines in `PROJECT.json`:

1. `forever` (`LoadingEnds`): a dependency whose load fails tells its observers
   (`ResourceTrait.cpp:425-431`) and not its parents, which stay in `Loading` for
   ever.
2. `lost` (`NothingDestroyedInUse`): after the surface is lost the deferred
   destructor's ticks no longer stand for fence waits of different frames.
3. `unheard` (`FileIsFinished`): a stop between the test and the wait of the
   encoder is not heard; the file is never finished and `onTerminate()` joins the
   thread for ever (`Recorder.cpp:518-520` without the mutex of 605).

The others are definitions of the modules that TLC finds violated in the same
way, when they are put in the place of a run's properties with the constants
named here:

| Definition | What happens | What the text says |
|---|---|---|
| `ResourceChain!FailedIsTerminal` | two threads past the same test set `Failed` and then `Loaded` | `ResourceTrait.hpp:359`: "loading failed at any stage (terminal state)" |
| `ResourceChain!NoCircularWait` (`Names <- NamesRing`, 4 resources) | the detection of cycles is not atomic with the links it guards: two calls close a ring | `docs/resource-management.md:439`: "The system automatically detects and prevents circular dependencies" |
| `ResourceChain!FailureAnnounced` | a load that fails in `addDependency()` emits no `LoadFailed` | `ResourceTrait.hpp:821`: "Resource transitions to Failed and emits LoadFailed notification" |
| `ResourceContainer!ExternalLoads` (`NetNotifies = FALSE`) | nobody sends the notification that ends a download | `Container.hpp:948-951`: "Downloads if not cached", "Loads from cache after download" |
| `RenderFrames!NoPresentWaits` | present semaphores survive a recreation, but so do the presents that wait for them | `docs/caution-points.md`, on present semaphores per image |
| `RenderFrames!RecreationIsRetried` | a recreation that fails half-way leaves a status nothing tests for | `Renderer.cpp:1514`: "Let's try to recreate every new frame" |
| `OnDemandRedraw!SurfaceIsFollowed` (`N = 2`) | Core hears of a resize before the renderer: the frames requested for it may be over before the swap-chain is degraded | `Core.cpp:2105-2109`: the request makes the rendering thread process the resize |
| `OnDemandRedraw!OverlayIsResized` | `m_windowChanged`, a plain `bool`, is lowered after the overlay was resized: a second recreation in between is not followed | `Core.cpp:2158`: "If the swap-chain has been refreshed, we refresh the application according to the new framebuffer" |
| `MainLoop!StopAlwaysEnds` | the loop of a pause does not test the running flag (`Core.cpp:489`) | `Core.hpp:308`: "The main loop continues until stop() is called" |
| `MainLoop!EveryCycleIsRun` | a delayed request is stored and nothing ends a wait that has begun without a timeout (`Core.cpp:1281`) | `Core.hpp:341-344`: "Guarantees that a main-loop cycle runs within the requested delay [...] (including while paused)" |
| `StateBuffers!SnapshotIsStable` (`QuickPasses = FALSE`) | two publications within one pass overwrite what it reads | `Scene.hpp:415-416`: "the render thread reads a consistent, stable snapshot of the scene" |
| `StateBuffers!PictureIsOneState` | each pass loads the index anew (`Scene.rendering.cpp:333`, 420): the view matrices of a picture may be of one state and its entities of the next | the same, of the frame |
| `StateBuffers!HistoryIsAlwaysDrawn` | a frame without post-processing archives the view at the index some earlier frame recorded (`Renderer.cpp:1735`; the index is only set at 1844-1856 and 2038-2046) | `ViewMatricesInterface.hpp:368`: "The render state-valid index the frame was rendered with." |
| `ActiveScene!GizmosOutliveFrames` | the editor is deactivated before the lock is taken and the device waited for: the gizmos die under the command buffers that draw them (`Scenes/Manager.cpp:347-354`, `Editor/Manager.cpp:131-153`) | `docs/multi-scene-resource-ownership.md:58-61`: wait "before any GPU object the descriptor set / an in-flight frame may reference is destroyed" |
| `ActiveScene!NoDescriptorLeft` | `clearTextureSet()` returns early for a scene without 2D and cube textures and leaves its environment in the table (`BindlessTextureManager.cpp:476-480`); it never clears a cube array (511-512) | `docs/caution-points.md:1187-1188`: "zero descriptor references" |
| `TransferPool!EveryDataIsOwn` | an image operation whose semaphore could not be created stays listed, with a signaled fence (`TransferManager.cpp:742-749`, `ImageTransferOperation.cpp:80-89`): its next uses are not ordered, and a copy may read the bytes of another | `ImageTransferOperation.hpp:163`, of `isAvailable()`: "available for a new transfer" |
| `VideoRecorder!NeverAhead`, `OnTime` | slots are harvested by index (`Recorder.cpp:555-558`): a later capture may be queued first, and the earlier one then takes a tick of its own, out of order | `Recorder.cpp:541-542`: "the timeline never drifts" |
| `VideoRecorder!CaptureHasSession` (`StopsAnytime = TRUE`) | the main thread moves `m_currentSession` away while the rendering thread is inside `captureAndSubmitFrame()` | `Recorder.hpp:507`: "Recording state (main thread only)" |

## 5. Proofs

TLC shows the properties for the sizes above; the theorems hold for every value
of the constants under the assumptions named in the modules. Every module of a
component has a `TypeCorrect` (`RedrawTypeCorrect` for `OnDemandRedraw`), and
every invariant a passing run checks is stated by a theorem. One theorem,
`NoCircleCreated`, states a property no run checks (see `chain`).

**`ResourceChain_proofs!WakeupSafe`** — for any sets of
resources and threads, any descriptions, any failures. `NoLostWakeup` is not
inductive: that a ready resource is about to be examined depends on who links to
it and who is being told. `WakeupInv` adds that what a resource waits for has it
as a parent or is about to tell it (`Linked`), that a resource with parents is
not loaded (`ParentsUnloaded`: the list is moved in the region that sets the
status), and that between the tests and the link of `addDependency()` the
dependency is not loaded (`LinkSound`: its mutex is held).
`ReplaceKeeps` and `QuietStep` are the lemmas on call stacks: a step that only
replaces its own innermost job disturbs nobody else's examination.

**`ResourceChain_proofs!ListsConsistent`, `CreatedInOrder`** — in the same
generality. Both need that some jobs are alone in the whole system (`Alone`): one
load per resource, no load and creation of one resource at once, each parent told
once. `OrderInv` adds what a job knows of its resource while it is on a stack
(`JobSound`), that a created resource had everything it declared
(`LoadedSound`), that a declared dependency is waited for or was created
(`DeclaredSound`), and that a parent waits (`ParentsWait`). Jobs are compared by
their place counted from the bottom of a call stack (`JobAt`), which calls and
returns leave alone; `EndStep`, `GoOnStep` and `CallStep` say what the three kinds
of step do to places, and each action has one lemma over them.

**`ResourceChain_proofs!Implements`, `NoCircleCreated`, `DeclaredForGood`** — in
the same generality. `PromiseStep` maps each step, under `OrderInv`: the two ways
`addDependency()` succeeds are `Declare`, as the load they belong to is still open
(`JobSound`); a check that finds everything there is `Start`, as what is no longer
waited for was created (`DeclaredSound`); the ends of a creation are `Finish`
(`FinishPromise`); telling parents and checks that find something missing leave
the promise alone. `PromiseMoves` says what a step of `Creation` may do. `Settled`
is its invariant: what is created, or being created, has declared all it will, and
that was created. Then nothing created before needs what is created last, which
cannot need itself either: a set without a ring stays one (`CircleStep`), with no
induction over the set. `DeclaredForGood` is the same as a property of steps.

**`ResourceContainer_proofs!OneLoad`, `PointedStored`** — for any names,
containers, clients and workers, any sources and dependencies, wherever loads and
downloads fail, and whether or not the network notifies. Neither is inductive
alone; `ContainerInv` proves them together. A call of `load()` is alone in the
system for its resource (`Alone`), and has left to ask for what its resource
needs (`CallsSound`). `LoadSound` ties the status of a resource to
what is under way for it: a queued task, an awaited download or a call, of which
there is one at most, and none once the call has ended. `UsesSound` and `HeldSound`
say that what a resource or a client points at is stored: a sweep only drops what
nothing outside of the dropped points at.

**`ResourceContainer_proofs!SweepsComplete`** — in the same generality.
`garbage` is what was unused when the sweep began and has been left alone since.
A resource is pointed at by those that use it and, as a parent, by the
dependencies it waits for. `GarbageInv` says that nothing but garbage points at garbage (`GarbageLoose`,
`GarbageClosed`), and that a container the current pass has been through either
holds no garbage that nothing points at, or the pass has dropped something
and another will follow (`GarbagePinned`). In a pass that dropped nothing every
garbage that is stored is then pointed at by garbage. Take what reaches one such
resource with nothing stuck among it. If a resource there waits for a
dependency, that dependency waits as well, in a later container, and so on beyond
the last container, which cannot be. So only pointers of users are left, and each
user is in an earlier container, on and on before the first: there is none. What
makes this an argument for any `Order` is that a container has one place in it, which is why `OrderAssumption` says that `Order` is injective:
`Manager.cpp:166-176` puts each container of its map in the list once.
`LayersAssumption` is the layering by dependency complexity the engine sorts by;
resources that use each other in a circle would be kept.

**`ResourceContainer_proofs!DeadlockFree`** — in the same generality. The calls a
thread is inside go down the order of the containers (`LayersSound`), because
each was made by the innermost of that moment, for something it needs. Whoever
holds a mutex that a call may wait for is then inside a call further down than
that call (`HolderBelow`), so the thread whose innermost call is furthest down
waits for nobody. A thread that waited for a mutex of its own would be further
down than itself.

**`ResourceContainer_proofs!Implements`, `LoadedUsable`, `HandedOut`** — in the
same generality, creations that fail or happen more than once included.
`StoreStep` maps each action, under `ContainerInv`: a request is `Get`, or `Ask`
when nothing is handed out; a request of a `load()` is `Use`, `UseRefused` or
`Ask`, as the resource it is for is being loaded; the return of a call is `Get`
for a client, `Use` for an outer call (`ReturnRefines`; the outer one is still
being loaded, `OuterSound`); `FailLoad` is `Fail`; the first end of a creation is
`Create` and the further ones `CreateAgain` (`OutcomeRefines`); a container's part
of a sweep is `Drop`, because what points at the dropped is dropped
(`SweepRefines`); the rest leaves the promise alone. That `Create` comes after all
that is used was created is `LinksSound`: what a resource uses has it as a parent
or was created. `LinksSound` also gives `Usable`: what was created has all it uses
created and ended. `HandedOutForGood` is a property of the steps of the promise
(`KeptStep`): a resource that loaded or failed changes by `CreateAgain` only, which
needs another thread inside its creation. Without the exception it is false, and
`FailedIsTerminal` of section 4 is the trace.

**`RenderFrames_proofs!NoUseAfterDestroy`** — for any number of
frames and objects, any failing calls (the draining submission included), if no
call reports the loss of the surface (`NoSurfaceLoss`; run `lost` shows it is
needed). `InUseInv` measures a frame's age: `TicksSince(f)` is the number of
ticks since frame `f` was submitted, and every object its command buffers
reference was retired at most that many ticks ago (`ReferencesAged`). A tick
follows the fence wait of the current frame, so no other frame is `N` ticks old.
A call that ends early ticks without going to the next frame; it either leaves
the swap-chain degraded, so that the next call waits for the whole device
(`WillBeIdle`), or finds nothing running (`NothingRuns`). `DiscardStep`,
`NoImageStep`, `PresentStep` and `BeginFrameStep` are the steps where this is
used.

**`RenderFrames_proofs!ImagesKept`, `FencesSignaled`, `SemaphoresAlternate`** —
the first for any failures: one image at most is acquired, and only between the
acquisition and the present or the recreation (`ImagesInv`). The others if the
submission that drains an abandoned frame does not fail (`NoDrainFailure`): a
fence is reset, and a frame has the semaphore of its acquisition signaled, only
inside the call that will submit or drain (`SyncInv`).

**`Core_proofs!WakeupSafe`, `Remembered`** (`OnDemandRedraw`) — the first for any number
of images: between the test that found nothing owed and the sleep the mutex is
held. The second, for three or more (`N > 2`), wherever frames and recreations
fail: `NothingForgotten` is strengthened by the frame in progress (`FrameInv`: it is
one that is owed, and what is drawn is drawn in it), by what each handler of the
main thread is about to request, and by the count of the frames that failed since
the last request. A frame takes one of the `N` just set and leaves the two that
are needed; one that fails raises `failed` by what it will take from the budget.
It does not say that a change is shown after failures: then nothing is owed for
it, and the code asks for nothing more.

**`Core_proofs!RequestsSafe`** (`MainLoop`) — for any timing of requests and events.
`DeadlineInv` is the strengthening: a wanted request is in `scheduled` except in
the cycle that is about to serve it, one that is wanted later is there as a later
one, and what is about to be removed as due is not a later one. The
compare-and-swap keeps the last of these: what was read is forgotten when the
value changes.

**`StateBuffers_proofs!Whole`, `History`, `Forward`, `Implements`** — for any
parts and number of publications, under `QuickPasses`. The invariant says that
the state at the stored index is whole and the latest, that the other one holds
the former state but for the parts already written, and that a pass reads at one
of the two with nothing written over it. The parts are
named `PublishedWhole`, `WrittenNext`, `ReadIsTaken` and `ArchiveFollows`.
`OldIsOlder` orders what the last picture had, what the frame in progress has read
and what its pass reads. `Forward` is then that of two pictures nothing in the
later is older than anything in the former. `Implements` is the refinement: every
step of the double buffer is one of `Snapshot`'s or leaves it alone, so each pass,
the upload of the view matrices as much as the draw, reads one whole state, the
latest when it began. That all passes of a picture read the same one is not
claimed and not so.

**`ActiveScene_proofs!DeletionSafe`, `ListenersAlive`** — for any scenes and
any number of threads that look scenes up, when one thread at a time enables,
disables and deletes (`OneSwitcher`). The invariant ties the place of a call to
the locks it holds, and what is in the table or used by a thread to the active
scene; the scene whose environment is in the table is active too, unless it is one
`clearTextureSet()` returns early for; what is on the device is listed, owned, or
there until the device has been waited for (`LockInv`, `GroundInv`, `References`).
Those scenes' environments and the cube arrays are what the theorem leaves out,
as the property does.

**`TransferPool_proofs!SemaphoresAlternate`, `UploadsIntact`** — for any
targets, operations and sizes, with operations that were left half made in the
pool. The invariant ties a fence to what is left on the device: an operation whose
fence is ready has no copy, no second half and a semaphore that is free or was
never there; while a copy is on the device its staging buffer has its bytes and
the fence is not ready (`FenceInv`, `ChainInv`, `PlaceInv`, `ContentInv`). Only an
operation of images lacks its semaphore, so a buffer always has the order it
needs (`ChainInv`), and what is copied without one is of a target that is
`astray` (`LooseInv`), which the second theorem excepts.

**`TransferPool_proofs!UploadsOnTheWay`, `OperationsKept`** — what is invariant in
the two liveness properties, in the same generality. What a caller was told is
uploaded, and is not `astray`, is there, or its copy is submitted with its bytes
untouched; between the two submissions of a chained upload the copy may already
be over (`HalfInv`). An operation that is listed, not in use and not given up is
available, or the device has what signals its fence (`SignalInv`): a lone copy, or
a second half whose semaphore is signaled, missing, or has its copy before it
(`ChainInv`). An operation whose creation left it without a fence counts as given
up: nothing in the code takes it back. That the device then executes what it has
is fairness, and stays with TLC.

**`VideoRecorder_proofs!FilesComplete`, `BufferBounded`** — for any number of
slots, recordings and ticks, any bound and any failing submission, if a recording
is stopped between captures (`~StopsAnytime`). `ControlInv` says that the current
session runs until its stop has harvested every slot, that a slot is only
pending then, and that an encoder that ends has an empty queue. `OwedInv` says
that a capture that is not encoded is *held*: in the queue of its session, in the
hand of its encoder, or in a pending slot (`Held`); each step moves it from one
to the next. `BufferInv` adds to the bound the room for the capture under way.
`TypeCorrect` needs no assumption.

**`VideoRecorder_proofs!DriftBounded`** — under the same condition. An image
gets the tick it was captured at, or the one after the last if that is taken, so
the film is ahead by as many images as have overtaken an earlier capture, and an
image can only be overtaken while it is in a slot. `CapturedInv` says that a
capture is in one place (`HeldOnce`), with a time that has passed. `Overtaken` are
the captures of a recording that are still to be encoded although a later one was
harvested before them: `OvertakenInv` says they fit in the slots but one.
`DriftInv` says that for every time from the last tick written to the last
capture, and for the last capture in any case, that tick plus the images owed up
to the time is ahead of it by less than the number of slots: each encoding moves at most one
image from the second count to the first (`EncodeDrift`), and what is captured
next is later than all (`LaterDrift`).

**Model-checked only**: all liveness, which the provers cannot do with fairness
(`LoadingEndsOrIsDoomed`, `CallsReturn`, `DegradedIsRecreated`, `ChangeIsShown`,
`RenderingEnds`, `CycleIsRun`, `PauseIsEntered`, `StopEnds`, `PublishedIsDrawn`,
`OperationsReturn`, `UploadsLand`, `RecordingEnds`). What a theorem assumes beyond
the modules' assumptions (`OneSwitcher`, `NoSurfaceLoss`, `NoDrainFailure`,
`QuickPasses`, `~StopsAnytime`, `N > 2`) is what the runs give their constants,
and a definition of section 4 shows what happens without it.

## 6. What is left out

- Resources: the `Default` resource of a container, entries a client fills by
  hand, `terminate()`, the parsing of stores. A resource given itself as a dependency (it would lock one mutex
  twice). Each pooled task keeps a pointer to its resource, so the pool itself
  is not modelled beyond the set of waiting tasks.
- Frames: `renderOffscreenFrame()`, the loss of the device, `fullRecreate()`,
  a swap-chain whose number of images changes, and the contents of command
  buffers. The submissions for shadow maps and textures are taken as part of the
  frame's: they are ordered before it by semaphores and end before its fence.
- The time-out of an acquisition is 60 s, as is that of a fence wait; the model
  takes it that no submission lasts longer. As it is never zero
  (`Renderer.hpp:1628`), `VK_NOT_READY` (`SwapChain.cpp:1352-1357`) is not an
  outcome of an acquisition.
- Core: the start and end of the services, the application's veto against
  `stop()`, keys and console commands.
- Scenes: `loadScene()` (a new scene and the building of it), static entities
  that other threads add and remove without a lock, what a pass does with a
  state, the timers a pause stops.
- Transfers: layout transitions and clears, which wait for a fence of their own
  under the same mutex; the termination. A fence that could not be created is
  taken to be never ready, a semaphore that could not (`VK_NULL_HANDLE` in a
  submission) to be no semaphore; the device may do worse.
- Recorder: the hardware path (the same queue and flag, joined at the stop), the
  copy by way of the transfer queue (two submissions, of which the second may
  fail), the adaptive speed (`m_maxQueuedFrames - 2` wraps when the bound is 1),
  starts that fail, recycled buffers, sessions removed when they have finished,
  what the codec keeps for its lookahead until the end (`Recorder.cpp:800-831`).
- Net: the list of tickets. Two resources at one URL share a ticket; a task
  reads the list while another thread may be growing it.
- Audio (mixer and recorder), console, overlay, input: small queues between two
  threads; not begun.
- Physics, animations, shader generation, loaders, materials, geometry: numeric
  or sequential work on data, for tests and not for these tools. They are most of
  the repository: the definitions stand for a small share of its lines, and a
  larger one would model data for its own sake.

Hazards that are known and not in `PROJECT.json`:

- `ResourceTrait.cpp:330` — two threads pass the locked test for one resource
  and both set its status (`FailedIsTerminal`); `ResourceTrait.cpp:216` — a
  refused dependency fails a resource without a notification
  (`FailureAnnounced`); `ResourceTrait.cpp:225` — a resource and the failed one
  it waits for are never swept.
- `Container.hpp:1535` — a resource at something that is not a URL: null once,
  the unloaded entry ever after; `Container.hpp:1539` — a URL that is in the
  cache: no task is queued.
- `SwapChain.cpp:210` — a recreation that fails half-way
  (`RecreationIsRetried`); `Renderer.cpp:2401` — the submission that drains an
  abandoned frame fails as well; `Renderer.cpp:1764` — a recreated swap-chain
  with more images than present semaphores; `Renderer.cpp:1325` — without a
  window nothing ticks the deferred destructor.
- `Window.cpp:1112` — the wait for a minimised window ends when either side is
  positive.
- `Renderer.cpp:1515` — a recreation that fails takes a frame from the budget and
  nothing asks for another (`failed` in `OnDemandRedraw`). `Core.cpp:341` — the flag of the window (`OverlayIsResized`); `Core.cpp:1277`,
  `499` — a request made in a pause, the end of a pause; `Core.cpp:484` — the
  scene that is paused may not be the one that is resumed; `Core.cpp:166` — the
  logics thread runs the editor outside of the lock.
- `Scene.rendering.cpp:420` — passes of one picture at different states
  (`PictureIsOneState`); `Scene.entities.cpp:153` — static entities come and go under an iterator.
- `Scenes/Manager.cpp:332` — observers are notified under the locks.
- `BindlessTextureManager.cpp:511` — the cube arrays of a scene stay in the table
  (`NoDescriptorLeft`; `docs/caution-points.md` knows of it). `TransferManager.hpp:196` — nothing orders a frame after the upload
  it needs on another queue.

## 7. Plan

Done: `ResourceChain` with `Creation`, `ResourceContainer` with `ResourceStore`, `RenderFrames`, `OnDemandRedraw`,
`MainLoop`, `StateBuffers` with `Snapshot`, `ActiveScene`, `TransferPool`,
`VideoRecorder`; every invariant of the runs is proved, and the three
refinements. Next:

1. Theorems: what is invariant in the liveness properties that have none yet
   (`RecordingEnds`, `StopEnds`, `DegradedIsRecreated`, `CallsReturn` of
   `ActiveScene`), as `DeadlockFree` and `OperationsKept` are for theirs.
2. An abstract specification of frames for `RenderFrames` to implement.
3. The tickets of `Net::Manager`, composed with `ResourceContainer`.
4. The hardware path of the recorder beside the software one.
5. The audio mixer and the console: their queues against the main thread.

When room for runs is short, one that shows a disagreement goes first; the
definition stays in its module and in the table above.
