---------------------------- MODULE RenderFrames ----------------------------
(***************************************************************************)
(* The frames in flight of src/src/Graphics/Renderer.cpp (renderFrame) and *)
(* what they synchronise: the fences and semaphores of a frame, the images *)
(* of the swap-chain (Vulkan/SwapChain.cpp), and the objects destroyed     *)
(* once no command buffer can reference them                               *)
(* (Vulkan/DeferredDestructor.hpp).                                        *)
(*                                                                         *)
(* The actors are the render thread, which is inside one call of           *)
(* renderFrame() after another; the graphics device and the presentation   *)
(* engine; the main thread, which reports window events; and any thread    *)
(* that retires an object.                                                 *)
(***************************************************************************)
EXTENDS Naturals, FiniteSets

CONSTANTS
    N,              \* the images of the swap-chain, and the frames in flight
    Object,         \* the objects command buffers reference
    Failing,        \* the calls to the device that may fail
    AcquireErrors,  \* the errors vkAcquireNextImageKHR() may return
    PresentErrors   \* the errors vkQueuePresentKHR() may return

ASSUME NAssumption == N \in Nat \ {0}
ASSUME FailingAssumption ==
    Failing \subseteq
        {"surface", "recreate", "reset", "record", "submit", "drain"}
ASSUME AcquireAssumption ==
    AcquireErrors \subseteq {"OutOfDate", "SurfaceLost", "Timeout"}
ASSUME PresentAssumption == PresentErrors \subseteq {"OutOfDate", "SurfaceLost"}

Frame == 0 .. N - 1

Image == 0 .. N - 1

VARIABLES
    chain,      \* m_status of the swap-chain
    pc,         \* what the render thread does next in renderFrame()
    frame,      \* m_currentFrameIndex
    image,      \* imageIndex: the image acquired last
    fence,      \* the in-flight fence of each frame
    acquired,   \* the frames whose image-available semaphore is signaled
    images,     \* who has each image of the swap-chain
    waits,      \* the semaphore the present of each image waits, or waited, for
    oldWaits,   \* the semaphores presents to former swap-chains still wait for
    recorded,   \* what the command buffers of the call reference
    refs,       \* what the command buffers each frame submitted reference
    life,       \* whether an object is live, retired or destroyed
    age         \* the ticks since an object was retired

thread == <<pc, frame, image, recorded>>
device == <<fence, acquired, refs>>
presents == <<images, waits, oldWaits>>
objects == <<life, age>>
vars == <<chain, thread, device, presents, objects>>

Init ==
    /\ chain = "Ready"
    /\ pc = "begin"
    /\ frame = 0
    /\ image = 0
    /\ fence = [f \in Frame |-> "signaled"]
    /\ acquired = {}
    /\ images = [i \in Image |-> "available"]
    /\ waits = [i \in Image |-> i]
    /\ oldWaits = {}
    /\ recorded = {}
    /\ refs = [f \in Frame |-> {}]
    /\ life = [o \in Object |-> "live"]
    /\ age = [o \in Object |-> 0]

(***************************************************************************)
(* The deferred destructor.  An entry keeps the tick of its retirement;    *)
(* its age is the distance to m_currentTick.  The entries are in order of  *)
(* retirement, so those popped from the front are all those old enough.    *)
(***************************************************************************)
\* Mutant of Expired: one tick too early.
ExpiredEarly(n) == n + 1 >= N

Expired(n) == n >= N

Retire(o) ==
    /\ life[o] = "live"
    /\ life' = [life EXCEPT ![o] = "retired"]
    /\ age' = [age EXCEPT ![o] = 0]
    /\ UNCHANGED <<chain, thread, device, presents>>

\* A new object takes the place of one that was destroyed.
Create(o) ==
    /\ life[o] = "destroyed"
    /\ life' = [life EXCEPT ![o] = "live"]
    /\ UNCHANGED <<chain, thread, device, presents, age>>

Tick ==
    /\ life' = [o \in Object |->
                 IF life[o] = "retired" /\ Expired(age[o] + 1)
                 THEN "destroyed" ELSE life[o]]
    /\ age' = [o \in Object |->
                IF life[o] = "retired" /\ ~ Expired(age[o] + 1)
                THEN age[o] + 1 ELSE 0]

(***************************************************************************)
(* renderFrame(), step by step.  "Return" ends the call without going to   *)
(* the next frame.                                                         *)
(***************************************************************************)
GoTo(step) == pc' = step /\ recorded' = {} /\ UNCHANGED <<frame, image>>

Return == GoTo("begin")

\* waitIdle(): every submission is complete.
Idle ==
    /\ fence' = [f \in Frame |->
                  IF fence[f] = "pending" THEN "signaled" ELSE fence[f]]
    /\ refs' = [f \in Frame |-> {}]
    /\ UNCHANGED acquired

\* The swap-chain is degraded: recreateRenderingSubSystem() waits for the
\* device, and may not get the properties of the surface...
SurfaceUnknown ==
    /\ "surface" \in Failing
    /\ pc = "begin"
    /\ chain = "Degraded"
    /\ Idle
    /\ Return
    /\ UNCHANGED <<chain, presents, objects>>

\* ...or takes the swap-chain down...
BeginRecreate ==
    /\ pc = "begin"
    /\ chain = "Degraded"
    /\ Idle
    /\ chain' = "UnderConstruction"
    /\ GoTo("recreate")
    /\ UNCHANGED <<presents, objects>>

\* ...and makes another, to which the pending presents do not belong.
Recreate ==
    /\ pc = "recreate"
    /\ chain' = "Ready"
    /\ images' = [i \in Image |-> "available"]
    /\ oldWaits' = oldWaits \union
                    {waits[i] : i \in {j \in Image : images[j] = "presented"}}
    /\ Return
    /\ UNCHANGED <<device, waits, objects>>

RecreateFails ==
    /\ "recreate" \in Failing
    /\ pc = "recreate"
    /\ Return
    /\ UNCHANGED <<chain, device, presents, objects>>

\* The wait for the fence of the frame, then tick().
BeginFrame ==
    /\ pc = "begin"
    /\ chain # "Degraded"
    /\ fence[frame] = "signaled"
    /\ Tick
    /\ GoTo("acquire")
    /\ UNCHANGED <<chain, device, presents>>

\* acquireNextImage() returns an image; the swap-chain may be sub-optimal.
Acquire(i) ==
    /\ pc = "acquire"
    /\ chain = "Ready"
    /\ images[i] = "available"
    /\ images' = [images EXCEPT ![i] = "acquired"]
    /\ image' = i
    /\ acquired' = acquired \union {frame}
    /\ chain' \in {"Ready", "Degraded"}
    /\ pc' = "reset"
    /\ UNCHANGED <<frame, recorded, fence, refs, waits, oldWaits, objects>>

\* The status of the swap-chain after an error.
After(error) ==
    IF error = "OutOfDate" THEN "Degraded"
    ELSE IF error = "SurfaceLost" THEN "Failure"
    ELSE chain

\* It returns none.  The time-out is that of a fence: no submission outlasts it.
\* VK_NOT_READY answers a zero time-out only, and m_timeout is a minute.
AcquireFails(error) ==
    /\ pc = "acquire"
    /\ chain = "Ready"
    /\ error = "Timeout" => \A f \in Frame : fence[f] # "pending"
    /\ chain' = After(error)
    /\ Return
    /\ UNCHANGED <<device, presents, objects>>

\* Mutant of NotReady: the call blocks until the swap-chain is ready.
NotReadyBlocks == FALSE /\ UNCHANGED vars

\* It returns at once: the swap-chain was not ready, or is no longer.
NotReady ==
    /\ pc = "acquire"
    /\ chain # "Ready"
    /\ Return
    /\ UNCHANGED <<chain, device, presents, objects>>

\* Mutant of Discard: the semaphores are drained, the fence is not signaled.
DiscardUnsignaled(signalFence) ==
    /\ acquired' = acquired \ {frame}
    /\ chain' = "Degraded"
    /\ Return
    /\ UNCHANGED <<fence, refs, presents, objects>>

\* Mutant of Discard: the fence is signaled, the semaphores are not drained.
DiscardUndrained(signalFence) ==
    /\ fence' = IF signalFence
                THEN [fence EXCEPT ![frame] = "pending"] ELSE fence
    /\ chain' = "Degraded"
    /\ Return
    /\ UNCHANGED <<acquired, refs, presents, objects>>

\* Mutant of Discard: an abandoned frame is just dropped.
DiscardNothing(signalFence) ==
    /\ Return
    /\ UNCHANGED <<chain, device, presents, objects>>

(***************************************************************************)
(* discardAcquiredImage(): an empty batch waits for the semaphores of the  *)
(* abandoned frame (and so for what it has submitted for shadow maps and   *)
(* textures), signals its fence if it was reset, and the swap-chain is     *)
(* degraded, as the image is never presented.                              *)
(***************************************************************************)
Discard(signalFence) ==
    /\ \/ /\ acquired' = acquired \ {frame}
          /\ fence' = IF signalFence
                      THEN [fence EXCEPT ![frame] = "pending"] ELSE fence
       \/ /\ "drain" \in Failing
          /\ UNCHANGED <<acquired, fence>>
    /\ refs' = [refs EXCEPT ![frame] = recorded]
    /\ chain' = "Degraded"
    /\ Return
    /\ UNCHANGED <<presents, objects>>

ResetFence ==
    /\ pc = "reset"
    /\ fence' = [fence EXCEPT ![frame] = "reset"]
    /\ GoTo("record")
    /\ UNCHANGED <<chain, acquired, refs, presents, objects>>

ResetFails ==
    /\ "reset" \in Failing
    /\ pc = "reset"
    /\ Discard(FALSE)

\* The command buffers are recorded; they reference some of the live objects.
Record(S) ==
    /\ pc = "record"
    /\ \A o \in S : life[o] = "live"
    /\ recorded' = S
    /\ pc' = "submit"
    /\ UNCHANGED <<chain, frame, image, device, presents, objects>>

RecordFails ==
    /\ "record" \in Failing
    /\ pc = "submit"
    /\ Discard(TRUE)

\* Mutant of PresentSemaphore: one semaphore per frame in flight.
PresentSemaphoreOfFrame(f, i) == f

\* The semaphore frame f signals and the present of image i waits for.
PresentSemaphore(f, i) == i

Submit ==
    /\ pc = "submit"
    /\ fence' = [fence EXCEPT ![frame] = "pending"]
    /\ refs' = [refs EXCEPT ![frame] = recorded]
    /\ acquired' = acquired \ {frame}
    /\ waits' = [waits EXCEPT ![image] = PresentSemaphore(frame, image)]
    /\ GoTo("present")
    /\ UNCHANGED <<chain, images, oldWaits, objects>>

SubmitFails ==
    /\ "submit" \in Failing
    /\ pc = "submit"
    /\ Discard(TRUE)

\* (frame + 1) % N
NextFrame(f) == IF f = N - 1 THEN 0 ELSE f + 1

\* The image is presented, and renderFrame() goes to the next frame.
Present ==
    /\ pc = "present"
    /\ images' = [images EXCEPT ![image] = "presented"]
    /\ chain' \in {chain} \union {After(error) : error \in PresentErrors}
    /\ pc' = "begin"
    /\ frame' = NextFrame(frame)
    /\ UNCHANGED <<image, recorded, device, waits, oldWaits, objects>>

(***************************************************************************)
(* The device, the presentation engine, the window.                        *)
(***************************************************************************)
Complete(f) ==
    /\ fence[f] = "pending"
    /\ fence' = [fence EXCEPT ![f] = "signaled"]
    /\ refs' = [refs EXCEPT ![f] = {}]
    /\ UNCHANGED <<chain, thread, acquired, presents, objects>>

\* The engine is done with image i and with the semaphore of its present.
Shown(i) ==
    /\ images[i] = "presented"
    /\ images' = [images EXCEPT ![i] = "available"]
    /\ UNCHANGED <<chain, thread, device, waits, oldWaits, objects>>

\* The same of a present to a former swap-chain.
OldShown(k) ==
    /\ k \in oldWaits
    /\ oldWaits' = oldWaits \ {k}
    /\ UNCHANGED <<chain, thread, device, images, waits, objects>>

\* Renderer::onNotification(): the framebuffer was resized or rescaled.
WindowEvent ==
    /\ chain' = "Degraded"
    /\ UNCHANGED <<thread, device, presents, objects>>

RenderStep ==
    \/ SurfaceUnknown
    \/ BeginRecreate
    \/ Recreate
    \/ RecreateFails
    \/ BeginFrame
    \/ \E i \in Image : Acquire(i)
    \/ \E error \in AcquireErrors : AcquireFails(error)
    \/ NotReady
    \/ ResetFence
    \/ ResetFails
    \/ \E S \in SUBSET Object : Record(S)
    \/ RecordFails
    \/ Submit
    \/ SubmitFails
    \/ Present

Next ==
    \/ RenderStep
    \/ \E o \in Object : Retire(o)
    \/ \E o \in Object : Create(o)
    \/ \E f \in Frame : Complete(f)
    \/ \E i \in Image : Shown(i)
    \/ \E k \in Image : OldShown(k)
    \/ WindowEvent

Spec == Init /\ [][Next]_vars

(***************************************************************************)
(* Fairness.  The render thread runs, submissions and presents end, and a  *)
(* call to the device does not fail for ever.                              *)
(***************************************************************************)
FairSpec ==
    /\ Spec
    /\ WF_vars(RenderStep)
    /\ \A f \in Frame : WF_vars(Complete(f))
    /\ \A i \in Image : WF_vars(Shown(i))
    /\ SF_vars(BeginRecreate) /\ SF_vars(Recreate)

-----------------------------------------------------------------------------

TypeOK ==
    /\ chain \in {"Ready", "Degraded", "UnderConstruction", "Failure"}
    /\ pc \in {"begin", "recreate", "acquire", "reset", "record", "submit",
               "present"}
    /\ frame \in Frame
    /\ image \in Image
    /\ fence \in [Frame -> {"signaled", "reset", "pending"}]
    /\ acquired \in SUBSET Frame
    /\ images \in [Image -> {"available", "acquired", "presented"}]
    /\ waits \in [Image -> Image]
    /\ oldWaits \in SUBSET Image
    /\ recorded \in SUBSET Object
    /\ refs \in [Frame -> SUBSET Object]
    /\ life \in [Object -> {"live", "retired", "destroyed"}]
    /\ age \in [Object -> 0 .. N - 1]

(***************************************************************************)
(* What the device may execute is not destroyed.  Renderer.cpp:1549-1551:  *)
(* retired resources are destroyed "once all in-flight frames have         *)
(* completed. After framesInFlight() fence waits, every command buffer     *)
(* that could reference them has finished execution".                      *)
(***************************************************************************)
NothingDestroyedInUse ==
    \A f \in Frame : \A o \in refs[f] : life[o] # "destroyed"

(***************************************************************************)
(* The render thread waits for no fence that nothing will signal: the wait *)
(* would time out and abort the program.                                   *)
(***************************************************************************)
FenceWillSignal ==
    pc = "begin" => fence[frame] # "reset"

(***************************************************************************)
(* A frame asks for an image with a semaphore that holds no signal, which  *)
(* every early return after an acquisition must have consumed.             *)
(***************************************************************************)
AcquireSemaphoreFree ==
    pc = "acquire" /\ chain = "Ready" => frame \notin acquired

(***************************************************************************)
(* The semaphore a submission signals for the present is one that no       *)
(* present of an image of this swap-chain waits for, in whatever order the *)
(* engine hands out the images.                                            *)
(***************************************************************************)
PresentSemaphoreFree ==
    pc = "submit" =>
        \A i \in Image :
            images[i] = "presented" => waits[i] # PresentSemaphore(frame, image)

\* Both, for every call that takes a semaphore.
SemaphoresFree == AcquireSemaphoreFree /\ PresentSemaphoreFree

(***************************************************************************)
(* No image is lost: a swap-chain the render thread goes on with has none  *)
(* that was acquired in an earlier call and never presented.               *)
(***************************************************************************)
NoImageLost ==
    pc = "begin" /\ chain = "Ready" =>
        \A i \in Image : images[i] # "acquired"

(***************************************************************************)
(* A degraded swap-chain is recreated: wherever the render thread is when  *)
(* an error or the window reports it, it comes back to the test.  The      *)
(* exception is a window event during a recreation: its end overwrites the *)
(* status.                                                                 *)
(***************************************************************************)
DegradedIsRecreated ==
    chain = "Degraded" /\ pc # "recreate" ~> chain = "UnderConstruction"

-----------------------------------------------------------------------------
(***************************************************************************)
(* What the comments and documents of the code say of it.                  *)
(***************************************************************************)

(***************************************************************************)
(* docs/caution-points.md: a present semaphore per swap-chain image, kept  *)
(* across recreations, is never signaled while a present waits for it.     *)
(***************************************************************************)
NoPresentWaits ==
    pc = "submit" => PresentSemaphore(frame, image) \notin oldWaits

(***************************************************************************)
(* Renderer.cpp:1514, of a degraded swap-chain: "Let's try to recreate     *)
(* every new frame".  So it is ready again in the end.                     *)
(***************************************************************************)
RecreationIsRetried == chain = "UnderConstruction" ~> chain = "Ready"
=============================================================================
