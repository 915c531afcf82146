------------------------- MODULE RenderFrames_proofs -------------------------
(***************************************************************************)
(* Proofs about RenderFrames, for any number of frames in flight: its      *)
(* types; that the deferred destructor destroys nothing a submitted        *)
(* command buffer references, as long as the surface is not lost; that no  *)
(* acquired image is lost; and that fences will signal and semaphores are  *)
(* free, as long as an abandoned frame can be drained.                     *)
(***************************************************************************)
EXTENDS RenderFrames, TLAPS

-----------------------------------------------------------------------------
(***************************************************************************)
(* The inductive invariant.                                                *)
(***************************************************************************)

\* The frames the render thread has ended since frame f was last submitted.
Distance(f) == IF f < frame THEN frame - f ELSE frame - f + N

\* The render thread is between tick() and the submission of its frame.
Preparing == pc \in {"acquire", "reset", "record", "submit"}

\* How often tick() ran, at most, since frame f was last submitted.
TicksSince(f) ==
    IF pc \in {"begin", "recreate"} THEN Distance(f) - 1
    ELSE IF f = frame THEN 0
    ELSE Distance(f)

\* The next call of renderFrame() waits for the whole device.
WillBeIdle == chain = "Degraded" /\ pc = "begin"

\* An object a command buffer references was retired after its recording.
RetiredSince(o, ticks) ==
    life[o] = "live" \/ (life[o] = "retired" /\ age[o] <= ticks)

NotLost == chain # "Failure"

RecordedAlive ==
    /\ pc # "submit" => recorded = {}
    /\ \A o \in recorded : RetiredSince(o, 0)

NothingRuns ==
    /\ pc = "recreate" \/ chain = "UnderConstruction" =>
        \A f \in Frame : refs[f] = {}
    /\ chain = "UnderConstruction" => pc \in {"begin", "recreate", "acquire"}
    /\ Preparing => refs[frame] = {}

FenceGuards ==
    \A f \in Frame : refs[f] = {} \/ fence[f] = "pending" \/ WillBeIdle

ReferencesAged ==
    \A f \in Frame : \A o \in refs[f] :
        /\ life[o] # "destroyed"
        /\ WillBeIdle \/ RetiredSince(o, TicksSince(f))

InUseInv ==
    /\ TypeOK
    /\ NotLost
    /\ RecordedAlive
    /\ NothingRuns
    /\ FenceGuards
    /\ ReferencesAged

\* No call reports the loss of the surface.
NoSurfaceLoss == "SurfaceLost" \notin AcquireErrors \union PresentErrors

-----------------------------------------------------------------------------
(***************************************************************************)
(* Types.                                                                  *)
(***************************************************************************)

\* The errors lead to statuses, and to a lost swap-chain only by a lost
\* surface.
LEMMA AfterType ==
    ASSUME NEW error \in AcquireErrors \union PresentErrors, TypeOK
    PROVE  /\ After(error) \in {chain, "Degraded", "Failure"}
           /\ error # "SurfaceLost" => After(error) \in {chain, "Degraded"}
           /\ error = "Timeout" => After(error) = chain
           /\ error = "OutOfDate" => After(error) = "Degraded"
<1>1. error \in {"OutOfDate", "SurfaceLost", "Timeout"}
  BY AcquireAssumption, PresentAssumption
<1>2. QED
  BY <1>1 DEF After

\* tick() keeps the ages below the number of frames.
LEMMA TickType ==
    ASSUME TypeOK, Tick
    PROVE  /\ life' \in [Object -> {"live", "retired", "destroyed"}]
           /\ age' \in [Object -> 0 .. N - 1]
<1>1. life' \in [Object -> {"live", "retired", "destroyed"}]
  BY DEF Tick, TypeOK
<1>2. ASSUME NEW o \in Object
      PROVE  (IF life[o] = "retired" /\ ~ Expired(age[o] + 1)
              THEN age[o] + 1 ELSE 0) \in 0 .. N - 1
  BY <1>2, NAssumption DEF TypeOK, Expired
<1>3. QED
  BY <1>1, <1>2 DEF Tick

\* discardAcquiredImage() keeps the types.
LEMMA DiscardType ==
    ASSUME TypeOK, NEW signalFence \in BOOLEAN, Discard(signalFence)
    PROVE  TypeOK'
<1>1. /\ chain' = "Degraded"
      /\ pc' = "begin"
      /\ recorded' = {}
      /\ UNCHANGED <<frame, image, images, waits, oldWaits, life, age>>
  BY DEF Discard, Return, GoTo, presents, objects
<1>2. refs' \in [Frame -> SUBSET Object]
  BY DEF Discard, TypeOK
<1>3. fence' \in [Frame -> {"signaled", "reset", "pending"}]
  BY DEF Discard, TypeOK
<1>4. acquired' \in SUBSET Frame
  BY DEF Discard, TypeOK
<1>5. QED
  BY <1>1, <1>2, <1>3, <1>4 DEF TypeOK

LEMMA TypeStep == TypeOK /\ [Next]_vars => TypeOK'
<1> SUFFICES ASSUME TypeOK, [Next]_vars PROVE TypeOK'
  OBVIOUS
<1> USE NAssumption DEF Frame, Image
<1>1. CASE BeginRecreate
  BY <1>1 DEF TypeOK, BeginRecreate, Idle, GoTo, presents, objects
<1>2. CASE Recreate
  <2>1. oldWaits' \in SUBSET Image
    BY <1>2, ZenonT(40) DEF TypeOK, Recreate
  <2>2. images' \in [Image -> {"available", "acquired", "presented"}]
    BY <1>2 DEF TypeOK, Recreate
  <2>3. /\ chain' = "Ready" /\ pc' = "begin" /\ recorded' = {}
        /\ UNCHANGED <<frame, image, fence, acquired, refs, waits, life, age>>
    BY <1>2 DEF Recreate, Return, GoTo, device, objects
  <2>4. QED
    BY <2>1, <2>2, <2>3 DEF TypeOK
<1>3. CASE RecreateFails
  BY <1>3 DEF TypeOK, RecreateFails, Return, GoTo, device, presents, objects
<1>4. CASE BeginFrame
  <2>1. Tick
    BY <1>4 DEF BeginFrame
  <2>2. QED
    BY <1>4, <2>1, TickType DEF TypeOK, BeginFrame, GoTo, device, presents
<1>5. ASSUME NEW i \in Image, Acquire(i) PROVE TypeOK'
  BY <1>5 DEF TypeOK, Acquire, objects
<1>6. ASSUME NEW error \in AcquireErrors, AcquireFails(error) PROVE TypeOK'
  <2>1. chain' \in {chain, "Degraded", "Failure"}
    BY <1>6, AfterType DEF AcquireFails
  <2>2. QED
    BY <1>6, <2>1
    DEF TypeOK, AcquireFails, Return, GoTo, device, presents, objects
<1>7. CASE NotReady
  BY <1>7 DEF TypeOK, NotReady, Return, GoTo, device, presents, objects
<1>8. CASE ResetFence
  BY <1>8 DEF TypeOK, ResetFence, GoTo, presents, objects
<1>9. CASE ResetFails
  BY <1>9, DiscardType DEF ResetFails
<1>10. ASSUME NEW S \in SUBSET Object, Record(S) PROVE TypeOK'
  BY <1>10 DEF TypeOK, Record, device, presents, objects
<1>11. CASE RecordFails
  BY <1>11, DiscardType DEF RecordFails
<1>12. CASE Submit
  BY <1>12 DEF TypeOK, Submit, GoTo, PresentSemaphore, objects
<1>13. CASE SubmitFails
  BY <1>13, DiscardType DEF SubmitFails
<1>14. CASE Present
  <2>1. chain' \in {chain, "Degraded", "Failure"}
    BY <1>14, AfterType DEF Present
  <2>2. frame' \in Frame
    BY <1>14 DEF Present, NextFrame, TypeOK
  <2>3. QED
    BY <1>14, <2>1, <2>2 DEF TypeOK, Present, device, objects
<1>15. ASSUME NEW o \in Object, Retire(o) PROVE TypeOK'
  <2>1. /\ life' \in [Object -> {"live", "retired", "destroyed"}]
        /\ age' \in [Object -> 0 .. N - 1]
    BY <1>15 DEF TypeOK, Retire
  <2>2. QED
    BY <1>15, <2>1 DEF TypeOK, Retire, thread, device, presents
<1>16. ASSUME NEW o \in Object, Create(o) PROVE TypeOK'
  BY <1>16 DEF TypeOK, Create, thread, device, presents
<1>17. ASSUME NEW f \in Frame, Complete(f) PROVE TypeOK'
  BY <1>17 DEF TypeOK, Complete, thread, presents, objects
<1>18. ASSUME NEW i \in Image, Shown(i) PROVE TypeOK'
  BY <1>18 DEF TypeOK, Shown, thread, device, objects
<1>19. ASSUME NEW k \in Image, OldShown(k) PROVE TypeOK'
  BY <1>19 DEF TypeOK, OldShown, thread, device, objects
<1>20. CASE WindowEvent
  BY <1>20 DEF TypeOK, WindowEvent, thread, device, presents, objects
<1>21. CASE UNCHANGED vars
  BY <1>21 DEF TypeOK, vars, thread, device, presents, objects
<1>22. CASE SurfaceUnknown
  BY <1>22 DEF TypeOK, SurfaceUnknown, Idle, Return, GoTo, presents, objects
<1>23. QED
  BY <1>22, <1>1, <1>2, <1>3, <1>4, <1>5, <1>6, <1>7, <1>8, <1>9, <1>10, <1>11,
     <1>12, <1>13, <1>14, <1>15, <1>16, <1>17, <1>18, <1>19, <1>20, <1>21
  DEF Next, RenderStep

LEMMA TypeInit == Init => TypeOK
BY NAssumption DEF Init, TypeOK, Frame, Image

(***************************************************************************)
(* Every variable has its type in every reachable state: the ages stay     *)
(* below the number of frames, and renderFrame() in its steps.             *)
(***************************************************************************)
THEOREM TypeCorrect == Spec => []TypeOK
<1>1. QED
  BY TypeInit, TypeStep, PTL DEF Spec
-----------------------------------------------------------------------------
(***************************************************************************)
(* Nothing a submitted command buffer references is destroyed.             *)
(***************************************************************************)

LEMMA InUseInit == Init => InUseInv
<1> SUFFICES ASSUME Init PROVE InUseInv
  OBVIOUS
<1>1. TypeOK
  BY TypeInit
<1>2. QED
  BY <1>1, NAssumption DEF Init, InUseInv, NotLost, RecordedAlive, NothingRuns,
    FenceGuards, ReferencesAged, Preparing, Frame

\* The ticks since a submission, and the distance, are natural numbers.
LEMMA TicksType ==
    ASSUME TypeOK, NEW f \in Frame
    PROVE  /\ Distance(f) \in 1 .. N
           /\ f # frame => Distance(f) \in 1 .. N - 1
           /\ TicksSince(f) \in 0 .. N
BY NAssumption DEF TypeOK, Frame, Distance, TicksSince

\* discardAcquiredImage(): the next call waits for the device, whether or not
\* the fence covers what the abandoned frame had submitted.
LEMMA DiscardStep ==
    ASSUME InUseInv, NEW signalFence \in BOOLEAN, Discard(signalFence)
    PROVE  InUseInv'
<1>1. TypeOK'
  BY DiscardType DEF InUseInv
<1>2. WillBeIdle' /\ recorded' = {} /\ UNCHANGED <<frame, life, age>>
  BY DEF Discard, WillBeIdle, Return, GoTo, objects
<1>3. refs' = [refs EXCEPT ![frame] = recorded]
  BY DEF Discard
<1>4. NotLost' /\ RecordedAlive' /\ NothingRuns' /\ FenceGuards'
  BY <1>2 DEF NotLost, RecordedAlive, NothingRuns, FenceGuards, WillBeIdle,
    Preparing
<1>5. ReferencesAged'
  <2> SUFFICES ASSUME NEW f \in Frame, NEW o \in refs'[f]
               PROVE  life[o] # "destroyed"
    BY <1>2 DEF ReferencesAged
  <2>1. o \in refs[f] \/ o \in recorded
    BY <1>3 DEF InUseInv, TypeOK
  <2>2. QED
    BY <2>1 DEF InUseInv, ReferencesAged, RecordedAlive, RetiredSince
<1>6. QED
  BY <1>1, <1>4, <1>5 DEF InUseInv

(***************************************************************************)
(* tick(): a frame that is not the current one was submitted less than N   *)
(* ticks ago, and the current one references nothing, as its fence was     *)
(* waited for.                                                             *)
(***************************************************************************)
LEMMA BeginFrameStep ==
    ASSUME InUseInv, BeginFrame
    PROVE  InUseInv'
<1> USE NAssumption
<1>1. TypeOK'
  BY TypeStep DEF BeginFrame, InUseInv, Next, RenderStep
<1>2. /\ pc = "begin" /\ pc' = "acquire" /\ recorded' = {}
      /\ chain # "Degraded" /\ fence[frame] = "signaled"
      /\ UNCHANGED <<chain, frame, fence, refs>>
      /\ Tick
  BY DEF BeginFrame, GoTo, device
<1>3. refs[frame] = {}
  BY <1>2 DEF InUseInv, FenceGuards, WillBeIdle, TypeOK
<1>4. NotLost' /\ RecordedAlive' /\ NothingRuns' /\ FenceGuards'
  BY <1>2, <1>3 DEF InUseInv, NotLost, RecordedAlive, NothingRuns, FenceGuards,
    WillBeIdle, Preparing
<1>5. ReferencesAged'
  <2> SUFFICES ASSUME NEW f \in Frame, NEW o \in refs[f]
               PROVE  /\ life'[o] # "destroyed"
                      /\ RetiredSince(o, TicksSince(f))'
    BY <1>2 DEF ReferencesAged
  <2>1. f # frame /\ o \in Object
    BY <1>3 DEF InUseInv, TypeOK
  <2>2. RetiredSince(o, Distance(f) - 1)
    BY <1>2 DEF InUseInv, ReferencesAged, WillBeIdle, TicksSince
  <2>3. Distance(f) \in 1 .. N - 1 /\ Distance(f)' = Distance(f)
    BY <1>2, <2>1, TicksType DEF InUseInv, Distance
  <2>4. TicksSince(f)' = Distance(f)
    BY <1>2, <2>1, <2>3 DEF TicksSince
  <2>5. age[o] \in 0 .. N - 1
    BY <2>1 DEF InUseInv, TypeOK
  <2>6. CASE life[o] = "live"
    BY <1>2, <2>1, <2>6 DEF Tick, RetiredSince
  <2>7. CASE life[o] = "retired"
    <3>1. age[o] + 1 <= Distance(f) /\ ~ Expired(age[o] + 1)
      BY <2>2, <2>3, <2>5, <2>7 DEF RetiredSince, Expired
    <3>2. life'[o] = "retired" /\ age'[o] = age[o] + 1
      BY <1>2, <2>1, <2>7, <3>1 DEF Tick
    <3>3. QED
      BY <2>4, <3>1, <3>2 DEF RetiredSince
  <2>8. QED
    BY <2>2, <2>6, <2>7 DEF RetiredSince
<1>6. QED
  BY <1>1, <1>4, <1>5 DEF InUseInv

\* A submission: what it references was retired after the last tick, if at all.
LEMMA SubmitStep ==
    ASSUME InUseInv, Submit
    PROVE  InUseInv'
<1>1. TypeOK'
  BY TypeStep DEF InUseInv, Next, RenderStep
<1>2. /\ pc = "submit" /\ pc' = "present" /\ recorded' = {}
      /\ fence' = [fence EXCEPT ![frame] = "pending"]
      /\ refs' = [refs EXCEPT ![frame] = recorded]
      /\ UNCHANGED <<chain, frame, life, age>>
  BY DEF Submit, GoTo, objects
<1>3. NotLost' /\ RecordedAlive'
  BY <1>2 DEF InUseInv, NotLost, RecordedAlive
<1>4. NothingRuns' /\ FenceGuards'
  BY <1>2 DEF InUseInv, NothingRuns, FenceGuards, WillBeIdle, Preparing, TypeOK
<1>5. ReferencesAged'
  <2> SUFFICES ASSUME NEW f \in Frame, NEW o \in refs'[f]
               PROVE  RetiredSince(o, TicksSince(f)')
    BY <1>2 DEF ReferencesAged, RetiredSince
  <2>1. CASE f = frame
    BY <1>2, <2>1 DEF InUseInv, TypeOK, RecordedAlive, TicksSince
  <2>2. CASE f # frame
    <3>1. o \in refs[f] /\ ~ WillBeIdle
      BY <1>2, <2>2 DEF InUseInv, TypeOK, WillBeIdle
    <3>2. TicksSince(f)' = TicksSince(f)
      BY <1>2, <2>2 DEF TicksSince, Distance
    <3>3. QED
      BY <3>1, <3>2 DEF InUseInv, ReferencesAged
  <2>3. QED
    BY <2>1, <2>2
<1>6. QED
  BY <1>1, <1>3, <1>4, <1>5 DEF InUseInv

\* The next frame: every other frame is one further away, and as many ticks.
LEMMA PresentStep ==
    ASSUME NoSurfaceLoss, InUseInv, Present
    PROVE  InUseInv'
<1> USE NAssumption
<1>1. TypeOK'
  BY TypeStep DEF InUseInv, Next, RenderStep
<1>2. /\ pc = "present" /\ pc' = "begin" /\ frame' = NextFrame(frame)
      /\ UNCHANGED <<recorded, fence, refs, life, age>>
  BY DEF Present, device, objects
<1>3. chain' \in {chain, "Degraded"}
  BY AfterType DEF Present, NoSurfaceLoss, InUseInv
<1>4. NotLost' /\ RecordedAlive'
  BY <1>2, <1>3 DEF InUseInv, NotLost, RecordedAlive, RetiredSince
<1>5. chain # "UnderConstruction"
  BY <1>2 DEF InUseInv, NothingRuns
<1>6. NothingRuns' /\ FenceGuards'
  BY <1>2, <1>3, <1>5 DEF InUseInv, NothingRuns, FenceGuards, WillBeIdle,
    Preparing
<1>7. ReferencesAged'
  <2> SUFFICES ASSUME NEW f \in Frame, NEW o \in refs[f]
               PROVE  RetiredSince(o, TicksSince(f)')
    BY <1>2 DEF ReferencesAged, RetiredSince
  <2>1. RetiredSince(o, TicksSince(f))
    BY <1>2 DEF InUseInv, ReferencesAged, WillBeIdle
  <2>2. TicksSince(f)' = TicksSince(f)
    BY <1>2 DEF TicksSince, Distance, NextFrame, InUseInv, TypeOK, Frame
  <2>3. QED
    BY <2>1, <2>2
<1>8. QED
  BY <1>1, <1>4, <1>6, <1>7 DEF InUseInv

\* Retiring and creating: a new retirement has seen no tick.
LEMMA ObjectStep ==
    ASSUME InUseInv, NEW x \in Object, Retire(x) \/ Create(x)
    PROVE  InUseInv'
<1>1. TypeOK'
  BY TypeStep DEF InUseInv, Next
<1>2. UNCHANGED <<chain, pc, frame, recorded, fence, refs>>
  BY DEF Retire, Create, thread, device
<1>3. NotLost' /\ NothingRuns' /\ FenceGuards'
  BY <1>2 DEF InUseInv, NotLost, NothingRuns, FenceGuards, WillBeIdle, Preparing
<1>4. ASSUME NEW o \in Object, NEW n \in Nat, RetiredSince(o, n)
      PROVE  RetiredSince(o, n)'
  <2>1. n' = n
    OBVIOUS
  <2>2. CASE o = x
    BY <1>4, <2>1, <2>2 DEF RetiredSince, Retire, Create, InUseInv, TypeOK
  <2>3. CASE o # x
    BY <1>4, <2>1, <2>3 DEF RetiredSince, Retire, Create, InUseInv, TypeOK
  <2>4. QED
    BY <2>2, <2>3
<1>5. RecordedAlive'
  BY <1>2, <1>4 DEF InUseInv, RecordedAlive, TypeOK
<1>6. ReferencesAged'
  <2> SUFFICES ASSUME NEW f \in Frame, NEW o \in refs[f]
               PROVE  /\ life'[o] # "destroyed"
                      /\ WillBeIdle' \/ RetiredSince(o, TicksSince(f))'
    BY <1>2 DEF ReferencesAged
  <2>1. o \in Object /\ life[o] # "destroyed"
    BY DEF InUseInv, TypeOK, ReferencesAged
  <2>2. life'[o] # "destroyed"
    BY <2>1 DEF Retire, Create, InUseInv, TypeOK
  <2>3. CASE WillBeIdle
    BY <1>2, <2>2, <2>3 DEF WillBeIdle
  <2>4. CASE ~ WillBeIdle
    <3>1. PICK n \in Nat : n = TicksSince(f)
      BY TicksType, NAssumption DEF InUseInv
    <3>2. TicksSince(f)' = n
      BY <1>2, <3>1 DEF TicksSince, Distance
    <3>3. RetiredSince(o, n)
      BY <2>4, <3>1 DEF InUseInv, ReferencesAged
    <3>4. RetiredSince(o, n)'
      BY <1>4, <2>1, <3>3
    <3>5. QED
      BY <2>2, <3>2, <3>4 DEF RetiredSince
  <2>5. QED
    BY <2>3, <2>4
<1>7. QED
  BY <1>1, <1>3, <1>5, <1>6 DEF InUseInv

\* The render thread waits for the device before it takes the swap-chain down.
LEMMA BeginRecreateStep ==
    ASSUME InUseInv, BeginRecreate \/ SurfaceUnknown
    PROVE  InUseInv'
<1>1. TypeOK'
  BY TypeStep DEF InUseInv, Next, RenderStep
<1>2. /\ pc' \in {"begin", "recreate"} /\ recorded' = {}
      /\ chain' \in {"Degraded", "UnderConstruction"}
      /\ refs' = [f \in Frame |-> {}]
  BY DEF BeginRecreate, SurfaceUnknown, Return, GoTo, Idle
<1>3. QED
  BY <1>1, <1>2 DEF InUseInv, NotLost, RecordedAlive, NothingRuns, FenceGuards,
    ReferencesAged, Preparing

\* The end of a recreation: nothing has run since it began.
LEMMA RecreateStep ==
    ASSUME InUseInv, Recreate \/ RecreateFails
    PROVE  InUseInv'
<1>1. TypeOK'
  BY TypeStep DEF InUseInv, Next, RenderStep
<1>2. /\ pc = "recreate" /\ pc' = "begin" /\ recorded' = {}
      /\ chain' \in {"Ready", chain}
      /\ refs' = refs
  BY DEF Recreate, RecreateFails, Return, GoTo, device
<1>3. \A f \in Frame : refs[f] = {}
  BY <1>2 DEF InUseInv, NothingRuns
<1>4. QED
  BY <1>1, <1>2, <1>3 DEF InUseInv, NotLost, RecordedAlive, NothingRuns,
    FenceGuards, ReferencesAged, Preparing

(***************************************************************************)
(* A call that ends without an image, and so without going to the next     *)
(* frame, has ticked: either nothing runs, or the next call waits for the  *)
(* device.                                                                 *)
(***************************************************************************)
LEMMA NoImageStep ==
    ASSUME NoSurfaceLoss, InUseInv,
           \/ \E error \in AcquireErrors : AcquireFails(error)
           \/ NotReady
    PROVE  InUseInv'
<1>1. TypeOK'
  BY TypeStep DEF InUseInv, Next, RenderStep
<1>2. /\ pc = "acquire" /\ pc' = "begin" /\ recorded' = {}
      /\ UNCHANGED <<frame, fence, refs, life, age>>
  BY DEF AcquireFails, NotReady, Return, GoTo, device, objects
<1>3. /\ chain' \in {"Ready", "Degraded", "UnderConstruction"}
      /\ chain' = "Degraded" \/ \A f \in Frame : refs[f] = {}
  <2>1. CASE NotReady
    BY <2>1 DEF NotReady, InUseInv, TypeOK, NotLost, NothingRuns
  <2>2. ASSUME NEW error \in AcquireErrors, AcquireFails(error)
        PROVE  /\ chain' \in {"Ready", "Degraded"}
               /\ chain' = "Degraded" \/ \A f \in Frame : refs[f] = {}
    <3>1. error \in {"OutOfDate", "Timeout"}
      BY <2>2, AcquireAssumption DEF NoSurfaceLoss
    <3>2. CASE error = "OutOfDate"
      BY <2>2, <3>2, AfterType DEF AcquireFails, InUseInv
    <3>3. CASE error = "Timeout"
      BY <2>2, <3>3, AfterType
      DEF AcquireFails, InUseInv, FenceGuards, WillBeIdle
    <3>4. QED
      BY <3>1, <3>2, <3>3
  <2>3. QED
    BY <2>1, <2>2
<1>4. \A f \in Frame : \A o \in refs[f] : life[o] # "destroyed"
  BY DEF InUseInv, ReferencesAged
<1>5. CASE chain' = "Degraded"
  BY <1>1, <1>2, <1>4, <1>5 DEF InUseInv, NotLost, RecordedAlive, NothingRuns,
    FenceGuards, ReferencesAged, Preparing, WillBeIdle
<1>6. CASE \A f \in Frame : refs[f] = {}
  BY <1>1, <1>2, <1>3, <1>6 DEF InUseInv, NotLost, RecordedAlive, NothingRuns,
    FenceGuards, ReferencesAged, Preparing
<1>7. QED
  BY <1>3, <1>5, <1>6

\* The steps of a frame up to its submission submit nothing.
LEMMA PrepareStep ==
    ASSUME InUseInv,
           \/ \E i \in Image : Acquire(i)
           \/ ResetFence
           \/ \E S \in SUBSET Object : Record(S)
    PROVE  InUseInv'
<1>1. TypeOK'
  BY TypeStep DEF InUseInv, Next, RenderStep
<1>2. /\ pc \in {"acquire", "reset", "record"}
      /\ pc' \in {"reset", "record", "submit"}
      /\ pc' # "submit" => recorded' = recorded \/ recorded' = {}
      /\ \A o \in recorded' : life[o] = "live"
      /\ chain' \in {"Ready", "Degraded", chain}
      /\ pc # "acquire" => chain' = chain
      /\ pc = "acquire" => chain = "Ready"
      /\ UNCHANGED <<frame, refs, life, age>>
  BY DEF Acquire, ResetFence, Record, GoTo, objects, InUseInv, RecordedAlive,
    device
<1>3. chain # "UnderConstruction" /\ chain' # "UnderConstruction"
  BY <1>2 DEF InUseInv, NothingRuns
<1>4. refs[frame] = {}
  BY <1>2 DEF InUseInv, NothingRuns, Preparing
<1>5. \A f \in Frame : f # frame => fence'[f] = fence[f]
  BY DEF Acquire, ResetFence, Record, device, InUseInv, TypeOK
<1>6. NotLost' /\ RecordedAlive' /\ NothingRuns'
  BY <1>2, <1>3, <1>4 DEF InUseInv, NotLost, RecordedAlive, NothingRuns,
    RetiredSince
<1>7. FenceGuards'
  BY <1>2, <1>4, <1>5 DEF InUseInv, FenceGuards, WillBeIdle
<1>8. ReferencesAged'
  <2>1. \A f \in Frame : TicksSince(f)' = TicksSince(f)
    BY <1>2 DEF TicksSince, Distance
  <2>2. ~ WillBeIdle
    BY <1>2 DEF WillBeIdle
  <2>3. QED
    BY <1>2, <2>1, <2>2 DEF InUseInv, ReferencesAged, RetiredSince
<1>9. QED
  BY <1>1, <1>6, <1>7, <1>8 DEF InUseInv

\* The device ends a submission, which then references nothing.
LEMMA CompleteStep ==
    ASSUME InUseInv, NEW f \in Frame, Complete(f)
    PROVE  InUseInv'
<1>1. TypeOK'
  BY TypeStep DEF InUseInv, Next
<1>2. /\ UNCHANGED <<chain, pc, frame, recorded, life, age>>
      /\ fence' = [fence EXCEPT ![f] = "signaled"]
      /\ refs' = [refs EXCEPT ![f] = {}]
  BY DEF Complete, thread, objects
<1>3. \A g \in Frame :
        refs'[g] = {} \/ (refs'[g] = refs[g] /\ fence'[g] = fence[g])
  BY <1>2 DEF InUseInv, TypeOK
<1>4. NotLost' /\ RecordedAlive' /\ NothingRuns' /\ FenceGuards'
  BY <1>2, <1>3 DEF InUseInv, NotLost, RecordedAlive, NothingRuns, FenceGuards,
    WillBeIdle, Preparing, RetiredSince, TypeOK
<1>5. ReferencesAged'
  <2>1. \A g \in Frame : TicksSince(g)' = TicksSince(g)
    BY <1>2 DEF TicksSince, Distance
  <2>2. QED
    BY <1>2, <1>3, <2>1
    DEF InUseInv, ReferencesAged, RetiredSince, WillBeIdle
<1>6. QED
  BY <1>1, <1>4, <1>5 DEF InUseInv

\* The window, whenever it reports: at worst the next call waits for the device.
LEMMA WindowStep ==
    ASSUME InUseInv, WindowEvent
    PROVE  InUseInv'
<1>1. TypeOK'
  BY TypeStep DEF InUseInv, Next
<1>2. /\ chain' = "Degraded"
      /\ UNCHANGED <<pc, frame, recorded, fence, refs, life, age>>
  BY DEF WindowEvent, thread, device, objects
<1>3. NotLost' /\ RecordedAlive' /\ NothingRuns' /\ FenceGuards'
  BY <1>2 DEF InUseInv, NotLost, RecordedAlive, NothingRuns, FenceGuards,
    WillBeIdle, Preparing, RetiredSince
<1>4. ReferencesAged'
  <2>1. \A f \in Frame : TicksSince(f)' = TicksSince(f)
    BY <1>2 DEF TicksSince, Distance
  <2>2. QED
    BY <1>2, <2>1 DEF InUseInv, ReferencesAged, RetiredSince, WillBeIdle
<1>5. QED
  BY <1>1, <1>3, <1>4 DEF InUseInv

\* The presentation engine disturbs nothing the invariant is about.
LEMMA OtherStep ==
    ASSUME InUseInv,
           \/ \E i \in Image : Shown(i)
           \/ \E k \in Image : OldShown(k)
           \/ UNCHANGED vars
    PROVE  InUseInv'
<1>1. TypeOK'
  BY TypeStep DEF InUseInv, Next
<1>2. UNCHANGED <<chain, pc, frame, recorded, fence, refs, life, age>>
  BY DEF Shown, OldShown, vars, thread, device, objects
<1>3. NotLost' /\ RecordedAlive' /\ NothingRuns' /\ FenceGuards'
  BY <1>2 DEF InUseInv, NotLost, RecordedAlive, NothingRuns, FenceGuards,
    WillBeIdle, Preparing, RetiredSince
<1>4. ReferencesAged'
  <2>1. \A f \in Frame : TicksSince(f)' = TicksSince(f)
    BY <1>2 DEF TicksSince, Distance
  <2>2. QED
    BY <1>2, <2>1 DEF InUseInv, ReferencesAged, RetiredSince, WillBeIdle
<1>5. QED
  BY <1>1, <1>3, <1>4 DEF InUseInv

LEMMA InUseStep ==
    ASSUME NoSurfaceLoss, InUseInv, [Next]_vars
    PROVE  InUseInv'
<1>1. CASE RenderStep
  BY <1>1, BeginRecreateStep, RecreateStep, BeginFrameStep, PrepareStep,
     NoImageStep, DiscardStep, SubmitStep, PresentStep
  DEF RenderStep, ResetFails, RecordFails, SubmitFails
<1>2. CASE \E o \in Object : Retire(o) \/ Create(o)
  BY <1>2, ObjectStep
<1>3. CASE \E f \in Frame : Complete(f)
  BY <1>3, CompleteStep
<1>4. CASE WindowEvent
  BY <1>4, WindowStep
<1>5. CASE \/ \E i \in Image : Shown(i)
           \/ \E k \in Image : OldShown(k)
           \/ UNCHANGED vars
  BY <1>5, OtherStep
<1>6. QED
  BY <1>1, <1>2, <1>3, <1>4, <1>5 DEF Next

(***************************************************************************)
(* As long as no call reports the loss of the surface, the deferred        *)
(* destructor destroys nothing that a submitted command buffer references, *)
(* for any number of frames in flight and of objects, and wherever a frame *)
(* fails, is abandoned, or the window interferes.                          *)
(***************************************************************************)
THEOREM NoUseAfterDestroy ==
    ASSUME NoSurfaceLoss
    PROVE  Spec => []NothingDestroyedInUse
<1>1. InUseInv /\ [Next]_vars => InUseInv'
  BY InUseStep
<1>2. InUseInv => NothingDestroyedInUse
  BY DEF InUseInv, ReferencesAged, NothingDestroyedInUse
<1>3. QED
  BY InUseInit, <1>1, <1>2, PTL DEF Spec

-----------------------------------------------------------------------------
(***************************************************************************)
(* The images.  Between its acquisition and its present the image of the   *)
(* call is the only one acquired; a call that ends without a present       *)
(* leaves a swap-chain that is not ready, until another is made.  Each     *)
(* present waits for the semaphore of its own image.                       *)
(***************************************************************************)
HasImage == pc \in {"reset", "record", "submit", "present"}

OneAcquired ==
    HasImage => /\ images[image] = "acquired"
                /\ \A i \in Image : images[i] = "acquired" => i = image

NoneAcquired ==
    pc \in {"begin", "acquire"} /\ chain = "Ready" =>
        \A i \in Image : images[i] # "acquired"

ImagesInv ==
    /\ TypeOK
    /\ OneAcquired
    /\ NoneAcquired
    /\ pc = "recreate" => chain # "Ready"
    /\ \A i \in Image : waits[i] = i

LEMMA ImagesInit == Init => ImagesInv
<1> SUFFICES ASSUME Init PROVE ImagesInv
  OBVIOUS
<1>1. TypeOK
  BY TypeInit
<1>2. QED
  BY <1>1 DEF Init, ImagesInv, OneAcquired, NoneAcquired, HasImage

LEMMA ImagesStep == ImagesInv /\ [Next]_vars => ImagesInv'
<1> SUFFICES ASSUME ImagesInv, [Next]_vars PROVE ImagesInv'
  OBVIOUS
<1> USE DEF ImagesInv, OneAcquired, NoneAcquired, HasImage
<1>1. TypeOK'
  BY TypeStep
\* An abandoned image leaves the swap-chain degraded.
<1>2. ASSUME NEW signalFence \in BOOLEAN, Discard(signalFence)
      PROVE  ImagesInv'
  BY <1>1, <1>2 DEF Discard, Return, GoTo, presents
<1>3. CASE SurfaceUnknown \/ BeginRecreate \/ RecreateFails
  BY <1>1, <1>3 DEF SurfaceUnknown, BeginRecreate, RecreateFails, Return, GoTo,
    presents
<1>4. CASE Recreate
  BY <1>1, <1>4 DEF Recreate, Return, GoTo
<1>5. CASE BeginFrame
  BY <1>1, <1>5 DEF BeginFrame, GoTo, presents
<1>6. ASSUME NEW i \in Image, Acquire(i) PROVE ImagesInv'
  BY <1>1, <1>6 DEF Acquire, TypeOK
<1>7. CASE (\E error \in AcquireErrors : AcquireFails(error)) \/ NotReady
  BY <1>1, <1>7 DEF AcquireFails, NotReady, Return, GoTo, presents
<1>8. CASE ResetFence \/ \E S \in SUBSET Object : Record(S)
  BY <1>1, <1>8 DEF ResetFence, Record, GoTo, presents
<1>9. CASE Submit
  BY <1>1, <1>9 DEF Submit, GoTo, PresentSemaphore, TypeOK
<1>10. CASE Present
  BY <1>1, <1>10 DEF Present, TypeOK
<1>11. ASSUME NEW i \in Image, Shown(i) PROVE ImagesInv'
  BY <1>1, <1>11 DEF Shown, thread, TypeOK
<1>12. CASE WindowEvent
  BY <1>1, <1>12 DEF WindowEvent, thread, presents
<1>13. CASE \/ \E o \in Object : Retire(o) \/ Create(o)
            \/ \E f \in Frame : Complete(f)
            \/ \E k \in Image : OldShown(k)
            \/ UNCHANGED vars
  BY <1>1, <1>13 DEF Retire, Create, Complete, OldShown, vars, thread, presents
<1>14. QED
  BY <1>2, <1>3, <1>4, <1>5, <1>6, <1>7, <1>8, <1>9, <1>10, <1>11, <1>12, <1>13
  DEF Next, RenderStep, ResetFails, RecordFails, SubmitFails

(***************************************************************************)
(* No image is lost, wherever a frame fails, in whatever order images come *)
(* and presents end.                                                       *)
(***************************************************************************)
THEOREM ImagesKept == Spec => []NoImageLost
<1>1. ImagesInv => NoImageLost
  BY DEF ImagesInv, NoneAcquired, NoImageLost
<1>2. QED
  BY ImagesInit, ImagesStep, <1>1, PTL DEF Spec

-----------------------------------------------------------------------------
(***************************************************************************)
(* Fences and semaphores of the frames: a fence is reset, or an            *)
(* acquisition's semaphore signaled, only inside the call that will submit *)
(* or drain.  That needs the submission that drains not to fail.           *)
(***************************************************************************)
NoDrainFailure == "drain" \notin Failing

SyncInv ==
    /\ TypeOK
    /\ \A f \in Frame :
          fence[f] = "reset" => f = frame /\ pc \in {"record", "submit"}
    /\ \A f \in acquired : f = frame /\ pc \in {"reset", "record", "submit"}

LEMMA SyncInit == Init => SyncInv
<1> SUFFICES ASSUME Init PROVE SyncInv
  OBVIOUS
<1>1. TypeOK
  BY TypeInit
<1>2. QED
  BY <1>1 DEF Init, SyncInv

LEMMA SyncStep ==
    ASSUME NoDrainFailure, SyncInv, [Next]_vars
    PROVE  SyncInv'
<1> USE DEF SyncInv
<1>1. TypeOK'
  BY TypeStep
\* What is abandoned is drained, and its fence signaled if it was reset.
<1>2. CASE ResetFails \/ RecordFails \/ SubmitFails
  <2>1. PICK signalFence \in BOOLEAN :
           /\ Discard(signalFence)
           /\ signalFence \/ fence[frame] # "reset"
    BY <1>2 DEF ResetFails, RecordFails, SubmitFails, TypeOK
  <2>2. /\ acquired' = acquired \ {frame}
        /\ fence' = IF signalFence
                    THEN [fence EXCEPT ![frame] = "pending"] ELSE fence
    BY <2>1 DEF Discard, NoDrainFailure
  <2>3. acquired' = {}
    BY <2>2
  <2>4. \A f \in Frame : fence'[f] # "reset"
    BY <2>1, <2>2 DEF TypeOK
  <2>5. QED
    BY <1>1, <2>3, <2>4
<1>3. CASE SurfaceUnknown \/ BeginRecreate
  <2>1. \A f \in Frame : fence'[f] # "reset"
    BY <1>3 DEF SurfaceUnknown, BeginRecreate, Idle, TypeOK
  <2>2. acquired' = {}
    BY <1>3 DEF SurfaceUnknown, BeginRecreate, Idle
  <2>3. QED
    BY <1>1, <2>1, <2>2
<1>4. CASE Recreate \/ RecreateFails \/ NotReady
           \/ \E error \in AcquireErrors : AcquireFails(error)
  BY <1>1, <1>4 DEF Recreate, RecreateFails, NotReady, AcquireFails, Return,
    GoTo, device
<1>5. CASE BeginFrame
  BY <1>1, <1>5 DEF BeginFrame, GoTo, device
<1>6. CASE \E i \in Image : Acquire(i)
  BY <1>1, <1>6 DEF Acquire
<1>7. CASE ResetFence
  BY <1>1, <1>7 DEF ResetFence, GoTo, TypeOK
<1>8. CASE \E S \in SUBSET Object : Record(S)
  BY <1>1, <1>8 DEF Record, device
<1>9. CASE Submit
  <2>1. acquired' = {}
    BY <1>9 DEF Submit
  <2>2. \A f \in Frame : fence'[f] # "reset"
    BY <1>9 DEF Submit, TypeOK
  <2>3. QED
    BY <1>1, <2>1, <2>2
<1>10. CASE Present
  BY <1>1, <1>10 DEF Present, device
<1>11. CASE \E f \in Frame : Complete(f)
  BY <1>1, <1>11 DEF Complete, thread, TypeOK
<1>12. CASE \/ \E o \in Object : Retire(o) \/ Create(o)
            \/ \E i \in Image : Shown(i) \/ OldShown(i)
            \/ WindowEvent
            \/ UNCHANGED vars
  BY <1>1, <1>12 DEF Retire, Create, Shown, OldShown, WindowEvent, vars, thread,
    device
<1>13. QED
  BY <1>2, <1>3, <1>4, <1>5, <1>6, <1>7, <1>8, <1>9, <1>10, <1>11, <1>12
  DEF Next, RenderStep

(***************************************************************************)
(* As long as an abandoned frame can be drained, the render thread waits   *)
(* for no fence that nothing will signal.                                  *)
(***************************************************************************)
THEOREM FencesSignaled ==
    ASSUME NoDrainFailure
    PROVE  Spec => []FenceWillSignal
<1>1. SyncInv /\ [Next]_vars => SyncInv'
  BY SyncStep
<1>2. SyncInv => FenceWillSignal
  BY DEF SyncInv, FenceWillSignal, TypeOK
<1>3. QED
  BY SyncInit, <1>1, <1>2, PTL DEF Spec

(***************************************************************************)
(* And every semaphore a call takes is free: that of the acquisition as it *)
(* was consumed, that of the present as its image came back.               *)
(***************************************************************************)
THEOREM SemaphoresAlternate ==
    ASSUME NoDrainFailure
    PROVE  Spec => []SemaphoresFree
<1>1. SyncInv /\ [Next]_vars => SyncInv'
  BY SyncStep
<1>2. SyncInv /\ ImagesInv => SemaphoresFree
  BY DEF SyncInv, ImagesInv, OneAcquired, HasImage, SemaphoresFree,
    AcquireSemaphoreFree, PresentSemaphoreFree, PresentSemaphore
<1>3. QED
  BY SyncInit, ImagesInit, ImagesStep, <1>1, <1>2, PTL DEF Spec
=============================================================================
