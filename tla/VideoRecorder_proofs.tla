------------------------ MODULE VideoRecorder_proofs ------------------------
(***************************************************************************)
(* Theorems about VideoRecorder, for any number of slots, sessions and     *)
(* ticks, any bound of the queue, and any failing submission.              *)
(***************************************************************************)
EXTENDS VideoRecorder, FiniteSetTheorems, TLAPS

-----------------------------------------------------------------------------
(***************************************************************************)
(* Types.  While it records or stops, the recorder has a session.          *)
(***************************************************************************)
Stopping == main \in {"harvesting", "signaling", "notifying"}

SessionInv ==
    /\ recording \/ Stopping => session # NoSession
    /\ Stopping => ~recording

LEMMA TypeInit == Init => TypeOK
<1> SUFFICES ASSUME Init
             PROVE  TypeOK
  OBVIOUS
<1>1. 0 \in Capture /\ 0 \in 0..SlotCount
  BY SizesAssumption DEF Capture
<1>2. copy \in [Slot -> Capture] /\ inHand \in [Session -> Capture]
  BY <1>1 DEF Init
<1>3. queue \in [Session -> Seq(Capture)] /\ lastPts \in [Session -> Int]
  BY DEF Init
<1>4. QED
  BY <1>1, <1>2, <1>3 DEF Init, TypeOK, EncoderPlace

LEMMA NotifiedTyped ==
    TypeOK => Notified(session) \in [Session -> EncoderPlace]
<1> SUFFICES ASSUME TypeOK
             PROVE  Notified(session) \in [Session -> EncoderPlace]
  OBVIOUS
<1>1. encoder \in [Session -> EncoderPlace] /\ "testing" \in EncoderPlace
  BY DEF TypeOK, EncoderPlace
<1>2. QED
  BY <1>1 DEF Notified

LEMMA HarvestTyped ==
    ASSUME TypeOK, NEW i \in Slot, Harvest(i)
    PROVE  /\ queue' \in [Session -> Seq(Capture)]
           /\ encoder' \in [Session -> EncoderPlace]
           /\ pending' \in SUBSET Slot
           /\ fence' = fence /\ copy' = copy
<1>1. copy[i] \in Capture
  BY DEF TypeOK
<1>2. queue' \in [Session -> Seq(Capture)]
  <2>1. queue \in [Session -> Seq(Capture)]
    BY DEF TypeOK
  <2>2. CASE session \in Session
    <3>1. Append(queue[session], copy[i]) \in Seq(Capture)
      BY <1>1, <2>1, <2>2
    <3>2. QED
      BY <2>1, <3>1 DEF Harvest
  <2>3. CASE session \notin Session
    BY <2>1, <2>3 DEF Harvest
  <2>4. QED
    BY <2>2, <2>3
<1>3. encoder' \in [Session -> EncoderPlace]
  BY NotifiedTyped DEF Harvest
<1>4. QED
  BY <1>2, <1>3 DEF TypeOK, Harvest

LEMMA TypeStep == TypeOK /\ SessionInv /\ [Next]_vars => TypeOK'
<1> SUFFICES ASSUME TypeOK, SessionInv, [Next]_vars
             PROVE  TypeOK'
  OBVIOUS
<1> USE SizesAssumption DEF time, slots, encoding, rendering, control, EncoderPlace
<1>1. CASE Tick
  BY <1>1 DEF Tick, TypeOK, Capture
<1>2. ASSUME NEW i \in Slot, CopyOnDevice(i)
      PROVE  TypeOK'
  BY <1>2 DEF CopyOnDevice, TypeOK
<1>3. CASE ShouldCaptureFrame
  BY <1>3 DEF ShouldCaptureFrame, TypeOK
<1>4. CASE TestBackpressure
  BY <1>4 DEF TestBackpressure, TypeOK
<1>5. CASE RenderHarvest
  <2>1. renderAt' \in 0..SlotCount
    BY <1>5 DEF RenderHarvest, TypeOK, Slot
  <2>2. CASE Harvest(renderAt)
    BY <1>5, <2>1, <2>2, HarvestTyped DEF RenderHarvest, TypeOK
  <2>3. CASE UNCHANGED <<queue, encoder, slots>>
    BY <1>5, <2>1, <2>3 DEF RenderHarvest, TypeOK
  <2>4. QED
    BY <1>5, <2>2, <2>3 DEF RenderHarvest
<1>6. CASE SubmitGPUCopy
  <2>1. session \in Session /\ clock \in Capture /\ 0 \in 0..SlotCount
    BY <1>6 DEF SubmitGPUCopy, TypeOK, NoSession
  <2>2. /\ fence' \in [Slot -> {"signaled", "submitted", "reset"}]
        /\ copy' \in [Slot -> Capture]
        /\ pending' \in SUBSET Slot
        /\ lastCapture' \in Capture
    <3>1. fence' \in [Slot -> {"signaled", "submitted", "reset"}]
      BY <1>6 DEF SubmitGPUCopy, TypeOK
    <3>2. copy' \in [Slot -> Capture]
      BY <1>6, <2>1 DEF SubmitGPUCopy, TypeOK
    <3>3. QED
      BY <1>6, <2>1, <3>1, <3>2 DEF SubmitGPUCopy, TypeOK
  <2>3. owed' \in [Session -> SUBSET Capture]
    BY <1>6, <2>1 DEF SubmitGPUCopy, TypeOK
  <2>4. QED
    BY <1>6, <2>1, <2>2, <2>3 DEF SubmitGPUCopy, TypeOK
<1>7. CASE StartRecording
  BY <1>7 DEF StartRecording, TypeOK
<1>8. CASE StopRecording
  BY <1>8 DEF StopRecording, BeginStop, TypeOK
<1>9. CASE OnTerminate
  BY <1>9 DEF OnTerminate, BeginStop, TypeOK
<1>10. CASE StopHarvest
  <2>1. mainAt' \in 0..SlotCount
    BY <1>10 DEF StopHarvest, TypeOK, Slot
  <2>2. CASE Harvest(mainAt)
    BY <1>10, <2>1, <2>2, HarvestTyped DEF StopHarvest, TypeOK
  <2>3. CASE UNCHANGED <<queue, encoder, slots>>
    BY <1>10, <2>1, <2>3 DEF StopHarvest, TypeOK
  <2>4. QED
    BY <1>10, <2>2, <2>3 DEF StopHarvest
<1>11. CASE DestroyAsyncResources
  BY <1>11 DEF DestroyAsyncResources, TypeOK
<1>12. CASE LowerRunning
  BY <1>12 DEF LowerRunning, TypeOK
<1>13. CASE DetachSession
  <2>1. encoder' \in [Session -> EncoderPlace]
    BY <1>13, NotifiedTyped DEF DetachSession
  <2>2. unheard' \in SUBSET Session
    BY <1>13 DEF DetachSession, TypeOK, SessionInv, Stopping
  <2>3. QED
    BY <1>13, <2>1, <2>2 DEF DetachSession, TypeOK
<1>14. CASE Join
  BY <1>14 DEF Join, TypeOK
<1>15. ASSUME NEW s \in Session, TakeFrame(s)
       PROVE  TypeOK'
  <2>1. queue[s] \in Seq(Capture) /\ queue[s] # <<>>
    BY <1>15 DEF TakeFrame, TypeOK
  <2>2. Head(queue[s]) \in Capture /\ Tail(queue[s]) \in Seq(Capture)
    BY <2>1
  <2>3. QED
    BY <1>15, <2>2 DEF TakeFrame, TypeOK
<1>16. ASSUME NEW s \in Session, TestEmpty(s)
       PROVE  TypeOK'
  BY <1>16 DEF TestEmpty, TypeOK
<1>17. ASSUME NEW s \in Session, FallAsleep(s)
       PROVE  TypeOK'
  BY <1>17 DEF FallAsleep, TypeOK
<1>18. ASSUME NEW s \in Session, SpuriousWakeup(s)
       PROVE  TypeOK'
  BY <1>18 DEF SpuriousWakeup, TypeOK
<1>19. ASSUME NEW s \in Session, EncodeImage(s)
       PROVE  TypeOK'
  <2>1. Filled(s) \cup {Pts(s)} \subseteq Int
    BY DEF Filled, Pts, TypeOK, Capture
  <2>2. lastPts' \in [Session -> Int]
    BY <1>19, <2>1 DEF EncodeImage, TypeOK
  <2>3. QED
    BY <1>19, <2>2 DEF EncodeImage, TypeOK, Capture
<1>20. ASSUME NEW s \in Session, Finalize(s)
       PROVE  TypeOK'
  BY <1>20 DEF Finalize, TypeOK
<1>21. CASE UNCHANGED vars
  BY <1>21 DEF vars, TypeOK
<1>22. QED
  BY <1>1, <1>2, <1>3, <1>4, <1>5, <1>6, <1>7, <1>8, <1>9, <1>10, <1>11, <1>12, <1>13, <1>14,
     <1>15, <1>16, <1>17, <1>18, <1>19, <1>20, <1>21
  DEF Next, RenderStep, MainStep, EncoderStep

LEMMA SessionStep == TypeOK /\ SessionInv /\ [Next]_vars => SessionInv'
<1> SUFFICES ASSUME TypeOK, SessionInv, [Next]_vars
             PROVE  SessionInv'
  OBVIOUS
<1> USE DEF SessionInv, Stopping, time, slots, encoding, rendering, control
<1>1. CASE StartRecording
  BY <1>1 DEF StartRecording, Session, NoSession
<1>2. CASE StopRecording \/ OnTerminate
  BY <1>2 DEF StopRecording, OnTerminate, BeginStop
<1>3. CASE DetachSession
  <2>1. ~recording
    BY <1>3 DEF DetachSession
  <2>2. QED
    BY <1>3, <2>1 DEF DetachSession
<1>4. CASE StopHarvest \/ DestroyAsyncResources \/ LowerRunning \/ Join
  BY <1>4 DEF StopHarvest, DestroyAsyncResources, LowerRunning, Join
<1>5. CASE Tick \/ \E i \in Slot : CopyOnDevice(i)
  BY <1>5 DEF Tick, CopyOnDevice
<1>6. CASE RenderStep
  BY <1>6 DEF RenderStep, ShouldCaptureFrame, TestBackpressure, RenderHarvest, SubmitGPUCopy
<1>7. CASE \E s \in Session : EncoderStep(s) \/ SpuriousWakeup(s)
  BY <1>7 DEF EncoderStep, SpuriousWakeup, TakeFrame, TestEmpty, FallAsleep, EncodeImage, Finalize
<1>8. CASE UNCHANGED vars
  BY <1>8 DEF vars
<1>9. QED
  BY <1>1, <1>2, <1>3, <1>4, <1>5, <1>6, <1>7, <1>8 DEF Next, MainStep

\* The statuses, places and frames have their types, wherever a submission
\* fails and whenever a recording is stopped.
THEOREM TypeCorrect == Spec => []TypeOK
<1>1. Init => SessionInv
  BY DEF Init, SessionInv, Stopping
<1>2. QED
  BY <1>1, TypeInit, TypeStep, SessionStep, PTL DEF Spec

-----------------------------------------------------------------------------
(***************************************************************************)
(* The threads, when recordings are only stopped between captures: a       *)
(* session runs until its stop has harvested every slot, and its thread    *)
(* ends with nothing queued.                                               *)
(***************************************************************************)
RunningInv ==
    /\ running = IF recording \/ main \in {"harvesting", "signaling"} THEN {session} ELSE {}
    /\ \A s \in running : encoder[s] # "none"
    /\ render # "idle" => recording

PendingInv ==
    /\ pending # {} => recording \/ main = "harvesting"
    /\ \A i \in pending : main = "harvesting" => mainAt <= i
    /\ main # "harvesting" => mainAt = 0

EndedInv ==
    \A s \in Session :
        /\ encoder[s] \in {"finalizing", "done"} => s \notin running /\ queue[s] = <<>>
        /\ encoder[s] = "none" => queue[s] = <<>>

ControlInv == TypeOK /\ SessionInv /\ RunningInv /\ PendingInv /\ EndedInv

LEMMA ControlInit == Init => ControlInv
<1> SUFFICES ASSUME Init
             PROVE  ControlInv
  OBVIOUS
<1>1. TypeOK
  BY TypeInit
<1>2. SessionInv /\ RunningInv /\ PendingInv
  BY DEF Init, SessionInv, Stopping, RunningInv, PendingInv
<1>3. EndedInv
  BY DEF Init, EndedInv
<1>4. QED
  BY <1>1, <1>2, <1>3 DEF ControlInv

LEMMA RunningStep == ~StopsAnytime /\ ControlInv /\ [Next]_vars => RunningInv'
<1> SUFFICES ASSUME ~StopsAnytime, ControlInv, [Next]_vars
             PROVE  RunningInv'
  OBVIOUS
<1> USE DEF ControlInv, SessionInv, Stopping, RunningInv, time, slots, encoding, rendering, control
<1>1. CASE StartRecording
  BY <1>1 DEF StartRecording, TypeOK
<1>2. CASE StopRecording \/ OnTerminate
  BY <1>2 DEF StopRecording, OnTerminate, BeginStop
<1>3. CASE StopHarvest
  BY <1>3 DEF StopHarvest, Harvest, Notified, TypeOK
<1>4. CASE DestroyAsyncResources \/ LowerRunning \/ Join
  BY <1>4 DEF DestroyAsyncResources, LowerRunning, Join
<1>5. CASE DetachSession
  BY <1>5 DEF DetachSession
<1>6. CASE Tick \/ \E i \in Slot : CopyOnDevice(i)
  BY <1>6 DEF Tick, CopyOnDevice
<1>7. CASE ShouldCaptureFrame \/ TestBackpressure \/ SubmitGPUCopy
  BY <1>7 DEF ShouldCaptureFrame, TestBackpressure, SubmitGPUCopy
<1>8. CASE RenderHarvest
  BY <1>8 DEF RenderHarvest, Harvest, Notified, TypeOK
<1>9. ASSUME NEW s \in Session, EncoderStep(s) \/ SpuriousWakeup(s)
      PROVE  RunningInv'
  BY <1>9 DEF EncoderStep, SpuriousWakeup, TakeFrame, TestEmpty, FallAsleep, EncodeImage, Finalize, TypeOK
<1>10. CASE UNCHANGED vars
  BY <1>10 DEF vars
<1>11. QED
  BY <1>1, <1>2, <1>3, <1>4, <1>5, <1>6, <1>7, <1>8, <1>9, <1>10 DEF Next, MainStep, RenderStep

LEMMA PendingStep == ControlInv /\ [Next]_vars => PendingInv'
<1> SUFFICES ASSUME ControlInv, [Next]_vars
             PROVE  PendingInv'
  OBVIOUS
<1> USE DEF ControlInv, SessionInv, Stopping, RunningInv, PendingInv, time, slots, encoding, rendering, control
<1>1. CASE StartRecording
  BY <1>1 DEF StartRecording
<1>2. CASE StopRecording \/ OnTerminate
  <2>1. mainAt = 0 /\ \A i \in pending : 0 <= i
    BY <1>2, SizesAssumption DEF StopRecording, OnTerminate, TypeOK, Slot
  <2>2. CASE BeginStop
    BY <2>1, <2>2 DEF BeginStop
  <2>3. CASE OnTerminate /\ ~recording
    BY <2>1, <2>3 DEF OnTerminate, BeginStop
  <2>4. QED
    BY <1>2, <2>2, <2>3 DEF StopRecording, OnTerminate
<1>3. CASE StopHarvest
  <2>1. pending' = pending \ {mainAt}
    BY <1>3 DEF StopHarvest, Harvest
  <2>2. \A i \in pending' : mainAt + 1 <= i
    BY <1>3, <2>1, SizesAssumption DEF StopHarvest, TypeOK, Slot
  <2>3. QED
    BY <1>3, <2>1, <2>2 DEF StopHarvest
<1>4. CASE DestroyAsyncResources \/ Join
  BY <1>4 DEF DestroyAsyncResources, Join
<1>5. CASE LowerRunning \/ DetachSession
  BY <1>5 DEF LowerRunning, DetachSession
<1>6. CASE Tick \/ \E i \in Slot : CopyOnDevice(i)
  BY <1>6 DEF Tick, CopyOnDevice
<1>7. CASE ShouldCaptureFrame \/ TestBackpressure
  BY <1>7 DEF ShouldCaptureFrame, TestBackpressure
<1>8. CASE RenderHarvest \/ SubmitGPUCopy
  <2>1. recording /\ main # "harvesting"
    BY <1>8 DEF RenderHarvest, SubmitGPUCopy
  <2>2. recording' /\ main' = main /\ mainAt' = mainAt
    BY <1>8, <2>1 DEF RenderHarvest, SubmitGPUCopy
  <2>3. QED
    BY <2>1, <2>2
<1>9. ASSUME NEW s \in Session, EncoderStep(s) \/ SpuriousWakeup(s)
      PROVE  PendingInv'
  BY <1>9 DEF EncoderStep, SpuriousWakeup, TakeFrame, TestEmpty, FallAsleep, EncodeImage, Finalize
<1>10. CASE UNCHANGED vars
  BY <1>10 DEF vars
<1>11. QED
  BY <1>1, <1>2, <1>3, <1>4, <1>5, <1>6, <1>7, <1>8, <1>9, <1>10 DEF Next, MainStep, RenderStep

\* A frame is only queued for a session that runs.
LEMMA HarvestRuns ==
    ASSUME ControlInv, session \in running, NEW i \in Slot, Harvest(i)
    PROVE  /\ session \in Session
           /\ \A s \in Session :
                /\ s # session => queue'[s] = queue[s] /\ encoder'[s] = encoder[s]
                /\ encoder'[s] \in {"finalizing", "done"} => encoder[s] = encoder'[s]
                /\ encoder'[s] = "none" <=> encoder[s] = "none"
           /\ queue'[session] = Append(queue[session], copy[i])
<1>1. session \in Session
  BY DEF ControlInv, RunningInv, TypeOK
<1>2. QED
  BY <1>1 DEF ControlInv, TypeOK, Harvest, Notified

LEMMA EndedStep == ControlInv /\ [Next]_vars => EndedInv'
<1> SUFFICES ASSUME ControlInv, [Next]_vars
             PROVE  EndedInv'
  OBVIOUS
<1> USE DEF EndedInv, time, slots, encoding, rendering, control
<1>. TypeOK /\ EndedInv /\ SessionInv /\ RunningInv
  BY DEF ControlInv
<1>1. CASE StartRecording
  BY <1>1 DEF StartRecording, TypeOK
<1>2. CASE StopRecording \/ OnTerminate
  BY <1>2 DEF StopRecording, OnTerminate, BeginStop
<1>3. ASSUME NEW i \in Slot, session \in running, Harvest(i), running' = running
      PROVE  EndedInv'
  BY <1>3, HarvestRuns DEF RunningInv
<1>4. CASE StopHarvest
  <2>1. session \in running /\ running' = running /\ mainAt \in Slot
    BY <1>4 DEF StopHarvest, RunningInv
  <2>2. QED
    BY <1>3, <1>4, <2>1 DEF StopHarvest
<1>5. CASE RenderHarvest
  <2>1. session \in running /\ running' = running /\ renderAt \in Slot
    BY <1>5 DEF RenderHarvest, RunningInv
  <2>2. QED
    BY <1>3, <1>5, <2>1 DEF RenderHarvest
<1>6. CASE DestroyAsyncResources \/ LowerRunning \/ Join
  BY <1>6 DEF DestroyAsyncResources, LowerRunning, Join
<1>7. CASE DetachSession
  BY <1>7 DEF DetachSession, Notified, TypeOK
<1>8. CASE Tick \/ \E i \in Slot : CopyOnDevice(i)
  BY <1>8 DEF Tick, CopyOnDevice
<1>9. CASE ShouldCaptureFrame \/ TestBackpressure \/ SubmitGPUCopy
  BY <1>9 DEF ShouldCaptureFrame, TestBackpressure, SubmitGPUCopy
<1>10. ASSUME NEW s \in Session, TakeFrame(s)
       PROVE  EndedInv'
  BY <1>10 DEF TakeFrame, TypeOK
<1>11. ASSUME NEW s \in Session, TestEmpty(s) \/ FallAsleep(s) \/ SpuriousWakeup(s)
       PROVE  EndedInv'
  BY <1>11 DEF TestEmpty, Drained, FallAsleep, SpuriousWakeup, TypeOK
<1>12. ASSUME NEW s \in Session, EncodeImage(s) \/ Finalize(s)
       PROVE  EndedInv'
  BY <1>12 DEF EncodeImage, Finalize, TypeOK
<1>13. CASE UNCHANGED vars
  BY <1>13 DEF vars
<1>14. QED
  BY <1>1, <1>2, <1>4, <1>5, <1>6, <1>7, <1>8, <1>9, <1>10, <1>11, <1>12, <1>13
  DEF Next, MainStep, RenderStep, EncoderStep

LEMMA ControlStep == ~StopsAnytime /\ ControlInv /\ [Next]_vars => ControlInv'
BY TypeStep, SessionStep, RunningStep, PendingStep, EndedStep DEF ControlInv

-----------------------------------------------------------------------------
(***************************************************************************)
(* Complete files: a capture that is not encoded is queued, in the hand of *)
(* the thread that encodes it, or in a slot of the current session.        *)
(***************************************************************************)
Elements(q) == {q[k] : k \in 1..Len(q)}

InSlots(s) == IF s = session THEN {copy[i] : i \in pending} ELSE {}

Taken(s) == IF encoder[s] = "encoding" THEN {inHand[s]} ELSE {}

Held(s) == Elements(queue[s]) \cup Taken(s) \cup InSlots(s)

OwedInv == \A s \in Session : owed[s] \subseteq Held(s)

LEMMA AppendElements ==
    ASSUME NEW S, NEW q \in Seq(S), NEW e \in S
    PROVE  Elements(Append(q, e)) = Elements(q) \cup {e}
<1>1. Len(Append(q, e)) = Len(q) + 1 /\ Len(q) \in Nat
  OBVIOUS
<1>2. \A k \in 1..Len(q) : Append(q, e)[k] = q[k]
  OBVIOUS
<1>3. Append(q, e)[Len(q) + 1] = e
  OBVIOUS
<1>4. 1..Len(q) + 1 = 1..Len(q) \cup {Len(q) + 1}
  BY <1>1
<1>5. QED
  BY <1>1, <1>2, <1>3, <1>4 DEF Elements

LEMMA TailElements ==
    ASSUME NEW S, NEW q \in Seq(S), q # <<>>
    PROVE  Elements(q) = {Head(q)} \cup Elements(Tail(q))
<1>1. Len(q) \in Nat /\ Len(q) >= 1 /\ Len(Tail(q)) = Len(q) - 1
  OBVIOUS
<1>2. \A k \in 1..Len(q) - 1 : Tail(q)[k] = q[k + 1]
  OBVIOUS
<1>3. Head(q) = q[1]
  OBVIOUS
<1>4. ASSUME NEW e \in Elements(q)
      PROVE  e \in {Head(q)} \cup Elements(Tail(q))
  <2>1. PICK k \in 1..Len(q) : e = q[k]
    BY <1>4 DEF Elements
  <2>2. CASE k = 1
    BY <1>3, <2>1, <2>2
  <2>3. CASE k # 1
    <3>1. k - 1 \in 1..Len(q) - 1 /\ (k - 1) + 1 = k
      BY <1>1, <2>1, <2>3
    <3>2. Tail(q)[k - 1] = e
      BY <1>2, <2>1, <3>1
    <3>3. QED
      BY <1>1, <3>1, <3>2 DEF Elements
  <2>4. QED
    BY <2>2, <2>3
<1>5. ASSUME NEW e \in {Head(q)} \cup Elements(Tail(q))
      PROVE  e \in Elements(q)
  <2>1. CASE e = Head(q)
    BY <1>1, <1>3, <2>1 DEF Elements
  <2>2. CASE e \in Elements(Tail(q))
    <3>1. PICK k \in 1..Len(q) - 1 : e = Tail(q)[k]
      BY <1>1, <2>2 DEF Elements
    <3>2. k + 1 \in 1..Len(q) /\ e = q[k + 1]
      BY <1>1, <1>2, <3>1
    <3>3. QED
      BY <3>2 DEF Elements
  <2>3. QED
    BY <1>5, <2>1, <2>2
<1>6. QED
  BY <1>4, <1>5

\* What is harvested goes from its slot to the queue.
LEMMA HarvestHolds ==
    ASSUME ControlInv, OwedInv, session \in running, NEW i \in Slot, Harvest(i),
           UNCHANGED <<session, inHand, owed>>
    PROVE  OwedInv'
<1>1. /\ session \in Session
      /\ copy[i] \in Capture /\ queue[session] \in Seq(Capture)
      /\ pending' = pending \ {i} /\ copy' = copy
  BY HarvestRuns DEF ControlInv, TypeOK, Harvest
<1>2. ASSUME NEW s \in Session
      PROVE  Taken(s) \subseteq Taken(s)'
  BY <1>2 DEF Taken, Harvest, Notified, ControlInv, TypeOK
<1>3. Elements(queue[session])' = Elements(queue[session]) \cup {copy[i]}
  <2>1. queue'[session] = Append(queue[session], copy[i])
    BY HarvestRuns
  <2>2. QED
    BY <1>1, <2>1, AppendElements DEF Elements
<1>4. InSlots(session) \subseteq InSlots(session)' \cup {copy[i]}
  BY <1>1 DEF InSlots
<1>5. Held(session) \subseteq Held(session)'
  BY <1>1, <1>2, <1>3, <1>4 DEF Held
<1>6. ASSUME NEW s \in Session, s # session
      PROVE  Held(s) \subseteq Held(s)'
  <2>1. queue'[s] = queue[s]
    BY <1>6, HarvestRuns
  <2>2. QED
    BY <1>2, <1>6, <2>1 DEF Held, InSlots, Elements
<1>7. \A s \in Session : Held(s) \subseteq Held(s)'
  BY <1>5, <1>6
<1>8. QED
  BY <1>7 DEF OwedInv

LEMMA OwedStep == ControlInv /\ OwedInv /\ [Next]_vars => OwedInv'
<1> SUFFICES ASSUME ControlInv, OwedInv, [Next]_vars
             PROVE  OwedInv'
  OBVIOUS
<1> USE DEF time, slots, encoding, rendering, control
<1>. TypeOK /\ EndedInv /\ SessionInv /\ RunningInv /\ PendingInv
  BY DEF ControlInv
<1>0. ASSUME UNCHANGED <<queue, owed, inHand>>,
             \A s \in Session : encoder[s] = "encoding" => encoder'[s] = "encoding",
             \A s \in Session : InSlots(s) \subseteq InSlots(s)'
      PROVE  OwedInv'
  BY <1>0 DEF OwedInv, Held, Taken, Elements
<1>1. CASE StartRecording
  <2>1. pending = {}
    BY <1>1 DEF StartRecording, PendingInv
  <2>2. \A s \in Session : InSlots(s) = {}
    BY <2>1 DEF InSlots
  <2>3. \A s \in Session : encoder[s] = "encoding" => encoder'[s] = "encoding"
    BY <1>1 DEF StartRecording, Opened, TypeOK
  <2>4. UNCHANGED <<queue, owed, inHand>>
    BY <1>1 DEF StartRecording
  <2>5. QED
    BY <1>0, <2>2, <2>3, <2>4
<1>2. CASE StopRecording \/ OnTerminate \/ LowerRunning \/ Join
  BY <1>0, <1>2 DEF StopRecording, OnTerminate, BeginStop, LowerRunning, Join, InSlots
<1>3. CASE StopHarvest
  <2>1. session \in running /\ mainAt \in Slot /\ UNCHANGED <<session, inHand, owed>>
    BY <1>3 DEF StopHarvest, RunningInv
  <2>2. CASE Harvest(mainAt)
    BY <2>1, <2>2, HarvestHolds
  <2>3. CASE UNCHANGED <<queue, encoder, slots>>
    BY <1>0, <2>1, <2>3 DEF InSlots
  <2>4. QED
    BY <1>3, <2>2, <2>3 DEF StopHarvest
<1>4. CASE RenderHarvest
  <2>1. session \in running /\ renderAt \in Slot /\ UNCHANGED <<session, inHand, owed>>
    BY <1>4 DEF RenderHarvest, RunningInv
  <2>2. CASE Harvest(renderAt)
    BY <2>1, <2>2, HarvestHolds
  <2>3. CASE UNCHANGED <<queue, encoder, slots>>
    BY <1>0, <2>1, <2>3 DEF InSlots
  <2>4. QED
    BY <1>4, <2>2, <2>3 DEF RenderHarvest
<1>5. CASE DestroyAsyncResources
  <2>1. pending = {}
    BY <1>5, SizesAssumption DEF DestroyAsyncResources, PendingInv, TypeOK, Slot
  <2>2. QED
    BY <1>0, <1>5, <2>1 DEF DestroyAsyncResources, InSlots
<1>6. CASE DetachSession
  <2>1. pending = {}
    BY <1>6 DEF DetachSession, PendingInv, SessionInv, Stopping
  <2>2. QED
    BY <1>0, <1>6, <2>1 DEF DetachSession, Notified, InSlots, TypeOK
<1>7. CASE Tick \/ \E i \in Slot : CopyOnDevice(i)
  BY <1>0, <1>7 DEF Tick, CopyOnDevice, InSlots
<1>8. CASE ShouldCaptureFrame \/ TestBackpressure
  BY <1>0, <1>8 DEF ShouldCaptureFrame, TestBackpressure, InSlots
<1>9. CASE SubmitGPUCopy
  <2>1. UNCHANGED <<queue, encoder, inHand, session>> /\ session \in Session
    BY <1>9 DEF SubmitGPUCopy, TypeOK
  <2>2. CASE UNCHANGED <<pending, copy, owed>>
    BY <1>0, <2>1, <2>2 DEF InSlots
  <2>3. ASSUME NEW i \in Slot, i \notin pending,
               copy' = [copy EXCEPT ![i] = clock],
               pending' = pending \cup {i},
               owed' = [owed EXCEPT ![session] = @ \cup {clock}]
        PROVE  OwedInv'
    <3>1. \A j \in pending : copy'[j] = copy[j] /\ j \in pending'
      BY <2>3 DEF TypeOK
    <3>2. InSlots(session) \cup {clock} \subseteq InSlots(session)'
      BY <2>1, <2>3, <3>1 DEF InSlots, TypeOK
    <3>3. \A s \in Session : Held(s) \subseteq Held(s)'
      BY <2>1, <3>1, <3>2 DEF Held, InSlots, Taken, Elements
    <3>4. clock \in Held(session)'
      BY <3>2 DEF Held
    <3>5. \A s \in Session : owed'[s] \subseteq Held(s)'
      BY <2>1, <2>3, <3>3, <3>4 DEF OwedInv, TypeOK
    <3>6. QED
      BY <3>5 DEF OwedInv
  <2>4. QED
    BY <1>9, <2>2, <2>3 DEF SubmitGPUCopy, FirstFree
<1>10. ASSUME NEW t \in Session, TakeFrame(t)
       PROVE  OwedInv'
  <2>1. /\ queue[t] \in Seq(Capture) /\ queue[t] # <<>>
        /\ queue' = [queue EXCEPT ![t] = Tail(queue[t])]
        /\ inHand' = [inHand EXCEPT ![t] = Head(queue[t])]
        /\ encoder' = [encoder EXCEPT ![t] = "encoding"]
        /\ encoder[t] = "testing"
        /\ UNCHANGED <<owed, session, pending, copy>>
    BY <1>10 DEF TakeFrame, TypeOK
  <2>2. Elements(queue[t]) = Taken(t)' \cup Elements(queue[t])'
    <3>1. queue'[t] = Tail(queue[t]) /\ Taken(t)' = {Head(queue[t])}
      BY <2>1 DEF Taken, TypeOK
    <3>2. Elements(queue[t])' = Elements(Tail(queue[t]))
      BY <3>1 DEF Elements
    <3>3. Elements(queue[t]) = {Head(queue[t])} \cup Elements(Tail(queue[t]))
      BY <2>1, TailElements
    <3>4. QED
      BY <3>1, <3>2, <3>3
  <2>3. Held(t) \subseteq Held(t)'
    BY <2>1, <2>2 DEF Held, Taken, InSlots
  <2>4. ASSUME NEW s \in Session, s # t
        PROVE  Held(s) \subseteq Held(s)'
    BY <2>1, <2>4 DEF Held, Taken, InSlots, Elements, TypeOK
  <2>5. \A s \in Session : Held(s) \subseteq Held(s)'
    BY <2>3, <2>4
  <2>6. QED
    BY <2>1, <2>5 DEF OwedInv
<1>11. ASSUME NEW t \in Session, TestEmpty(t) \/ FallAsleep(t) \/ SpuriousWakeup(t)
       PROVE  OwedInv'
  BY <1>0, <1>11 DEF TestEmpty, FallAsleep, SpuriousWakeup, InSlots, TypeOK
<1>12. ASSUME NEW t \in Session, EncodeImage(t)
       PROVE  OwedInv'
  <2>1. \A s \in Session : s # t => Held(s)' = Held(s) /\ owed'[s] = owed[s]
    BY <1>12 DEF EncodeImage, Held, Taken, InSlots, Elements, TypeOK
  <2>2. Held(t) \subseteq Held(t)' \cup {inHand[t]}
    BY <1>12 DEF EncodeImage, Held, Taken, InSlots, Elements, TypeOK
  <2>3. owed'[t] = owed[t] \ {inHand[t]}
    BY <1>12 DEF EncodeImage, TypeOK
  <2>4. QED
    BY <2>1, <2>2, <2>3 DEF OwedInv
<1>13. ASSUME NEW t \in Session, Finalize(t)
       PROVE  OwedInv'
  <2>1. queue[t] = <<>>
    BY <1>13 DEF Finalize, EndedInv
  <2>2. queue' = queue
    BY <1>13, <2>1 DEF Finalize, TypeOK
  <2>3. QED
    BY <1>0, <1>13, <2>2 DEF Finalize, InSlots, TypeOK
<1>14. CASE UNCHANGED vars
  BY <1>0, <1>14 DEF vars, InSlots
<1>15. QED
  BY <1>1, <1>2, <1>3, <1>4, <1>5, <1>6, <1>7, <1>8, <1>9, <1>10, <1>11, <1>12, <1>13, <1>14
  DEF Next, MainStep, RenderStep, EncoderStep

LEMMA OwedSafe == ControlInv /\ OwedInv => FileIsComplete
<1> SUFFICES ASSUME ControlInv, OwedInv, NEW s \in Session, encoder[s] = "done"
             PROVE  owed[s] = {}
  BY DEF FileIsComplete
<1>1. queue[s] = <<>> /\ s \notin running
  BY DEF ControlInv, EndedInv
<1>2. InSlots(s) = {}
  BY <1>1 DEF ControlInv, RunningInv, PendingInv, InSlots
<1>3. Elements(queue[s]) = {}
  BY <1>1 DEF Elements
<1>4. QED
  BY <1>2, <1>3 DEF OwedInv, Held, Taken

\* If recordings are stopped between captures, a file that is finished has
\* every image that was captured and that the codec took.
THEOREM FilesComplete == ASSUME ~StopsAnytime PROVE Spec => []FileIsComplete
<1>1. Init => ControlInv /\ OwedInv
  BY ControlInit DEF Init, OwedInv
<1>2. ControlInv /\ OwedInv /\ [Next]_vars => (ControlInv /\ OwedInv)'
  BY ControlStep, OwedStep
<1>3. QED
  BY <1>1, <1>2, OwedSafe, PTL DEF Spec

-----------------------------------------------------------------------------
(***************************************************************************)
(* The grab buffer.  Between the test of the bound and the end of the      *)
(* capture there is room for one more.                                     *)
(***************************************************************************)
Room == IF render = "harvesting" THEN 1 ELSE 0

BufferInv ==
    session # NoSession =>
        Len(queue[session]) + Cardinality(pending) + Room <= MaxQueued + SlotCount

LEMMA SlotsFinite ==
    ASSUME TypeOK
    PROVE  IsFiniteSet(pending) /\ Cardinality(pending) \in 0..SlotCount
<1>1. IsFiniteSet(Slot) /\ Cardinality(Slot) = SlotCount
  BY SizesAssumption, FS_Interval DEF Slot
<1>2. IsFiniteSet(pending) /\ Cardinality(pending) <= SlotCount
  BY <1>1, FS_Subset DEF TypeOK
<1>3. Cardinality(pending) \in Nat
  BY <1>2, FS_CardinalityType
<1>4. QED
  BY <1>2, <1>3, SizesAssumption

\* What is harvested goes from its slot to the queue, and nothing is queued
\* for a session that is not open.
LEMMA HarvestRoom ==
    ASSUME ControlInv, BufferInv, session \in running, NEW i \in pending, Harvest(i),
           UNCHANGED <<session, render>>
    PROVE  BufferInv'
<1>. TypeOK /\ i \in Slot
  BY DEF ControlInv, TypeOK
<1>1. queue'[session] = Append(queue[session], copy[i]) /\ session \in Session
  BY HarvestRuns
<1>2. Len(queue'[session]) = Len(queue[session]) + 1 /\ Len(queue[session]) \in Nat
  <2>1. queue[session] \in Seq(Capture) /\ copy[i] \in Capture
    BY <1>1 DEF TypeOK
  <2>2. QED
    BY <1>1, <2>1
<1>3. /\ Cardinality(pending') = Cardinality(pending) - 1
      /\ Cardinality(pending) \in Nat
  <2>1. IsFiniteSet(pending) /\ pending' = pending \ {i}
    BY SlotsFinite DEF Harvest
  <2>2. QED
    BY <2>1, FS_RemoveElement, FS_CardinalityType
<1>4. Room \in Int /\ Room' = Room
  BY DEF Room
<1>5. session # NoSession
  BY <1>1 DEF Session, NoSession
<1>6. QED
  BY <1>2, <1>3, <1>4, <1>5, SizesAssumption DEF BufferInv

LEMMA BufferStep == ControlInv /\ BufferInv /\ [Next]_vars => BufferInv'
<1> SUFFICES ASSUME ControlInv, BufferInv, [Next]_vars
             PROVE  BufferInv'
  OBVIOUS
<1> USE DEF time, slots, encoding, rendering, control
<1>. TypeOK /\ EndedInv /\ SessionInv /\ RunningInv /\ PendingInv
  BY DEF ControlInv
<1>0. ASSUME UNCHANGED <<session, queue, pending, render>>
      PROVE  BufferInv'
  BY <1>0 DEF BufferInv, Room
<1>a. Cardinality(pending) \in 0..SlotCount /\ Room \in {0, 1}
  BY SlotsFinite DEF Room
<1>b. ASSUME NEW s \in Session
      PROVE  Len(queue[s]) \in Nat
  BY <1>b DEF TypeOK
<1>c. session # NoSession => session \in Session
  BY DEF TypeOK
<1>1. CASE StartRecording
  <2>1. pending = {} /\ pending' = {} /\ render' = "idle"
    BY <1>1 DEF StartRecording, PendingInv, RunningInv
  <2>2. PICK s \in Session : session' = s /\ queue[s] = <<>>
    BY <1>1 DEF StartRecording, Opened, EndedInv
  <2>3. Len(queue'[session']) = 0
    BY <1>1, <2>2 DEF StartRecording
  <2>4. Cardinality(pending') = 0 /\ Room' = 0
    BY <2>1, FS_EmptySet DEF Room
  <2>5. QED
    BY <2>3, <2>4, SizesAssumption DEF BufferInv
<1>2. CASE StopRecording \/ OnTerminate \/ LowerRunning \/ Join
  BY <1>0, <1>2 DEF StopRecording, OnTerminate, BeginStop, LowerRunning, Join
<1>3. CASE StopHarvest
  <2>1. session \in running /\ UNCHANGED <<session, render>>
    BY <1>3 DEF StopHarvest, RunningInv
  <2>2. CASE mainAt \in pending
    BY <1>3, <2>1, <2>2, HarvestRoom DEF StopHarvest
  <2>3. CASE mainAt \notin pending
    BY <1>0, <1>3, <2>1, <2>3 DEF StopHarvest
  <2>4. QED
    BY <2>2, <2>3
<1>4. CASE RenderHarvest
  <2>1. session \in running /\ UNCHANGED <<session, render>>
    BY <1>4 DEF RenderHarvest, RunningInv
  <2>2. CASE renderAt \in pending /\ Harvest(renderAt)
    BY <2>1, <2>2, HarvestRoom
  <2>3. CASE UNCHANGED <<queue, encoder, slots>>
    BY <1>0, <2>1, <2>3
  <2>4. QED
    BY <1>4, <2>2, <2>3 DEF RenderHarvest
<1>5. CASE DestroyAsyncResources
  <2>1. pending' = pending
    BY <1>5, SizesAssumption DEF DestroyAsyncResources, PendingInv, TypeOK, Slot
  <2>2. QED
    BY <1>0, <1>5, <2>1 DEF DestroyAsyncResources
<1>6. CASE DetachSession
  BY <1>6 DEF DetachSession, BufferInv
<1>7. CASE Tick \/ ShouldCaptureFrame \/ \E i \in Slot : CopyOnDevice(i)
  <2>1. UNCHANGED <<session, queue, pending>>
    BY <1>7 DEF Tick, ShouldCaptureFrame, CopyOnDevice
  <2>2. Room' = Room
    BY <1>7 DEF Tick, ShouldCaptureFrame, CopyOnDevice, Room
  <2>3. QED
    BY <2>1, <2>2 DEF BufferInv
<1>8. CASE TestBackpressure
  <2>1. session \in Session /\ UNCHANGED <<session, queue, pending>>
    BY <1>8, <1>c DEF TestBackpressure
  <2>2. CASE QueueFull
    <3>1. Room' = 0
      BY <1>8, <2>2 DEF TestBackpressure, Room
    <3>2. QED
      BY <1>a, <1>b, <2>1, <3>1, SizesAssumption DEF BufferInv
  <2>3. CASE ~QueueFull
    <3>1. Len(queue[session]) < MaxQueued
      BY <1>b, <2>1, <2>3, SizesAssumption DEF QueueFull
    <3>2. Room' \in {0, 1}
      BY DEF Room
    <3>3. QED
      BY <1>a, <1>b, <2>1, <3>1, <3>2, SizesAssumption DEF BufferInv
  <2>4. QED
    BY <2>2, <2>3
<1>9. CASE SubmitGPUCopy
  <2>1. /\ session \in Session /\ session # NoSession
        /\ UNCHANGED <<queue, session>>
        /\ Room = 1 /\ Room' = 0
    BY <1>9, <1>c DEF SubmitGPUCopy, Room
  <2>2. CASE pending' = pending
    BY <1>a, <1>b, <2>1, <2>2, SizesAssumption DEF BufferInv
  <2>3. ASSUME NEW i \in Slot, i \notin pending, pending' = pending \cup {i}
        PROVE  BufferInv'
    <3>1. Cardinality(pending') = Cardinality(pending) + 1
      BY <2>3, SlotsFinite, FS_AddElement
    <3>2. QED
      BY <1>a, <1>b, <2>1, <3>1, SizesAssumption DEF BufferInv
  <2>4. QED
    BY <1>9, <2>2, <2>3 DEF SubmitGPUCopy, FirstFree
<1>10. ASSUME NEW s \in Session, TakeFrame(s)
       PROVE  BufferInv'
  <2>1. UNCHANGED <<session, pending>> /\ Room' = Room
    BY <1>10 DEF TakeFrame, Room
  <2>2. \A u \in Session : Len(queue'[u]) <= Len(queue[u]) /\ Len(queue'[u]) \in Nat
    <3>1. queue[s] \in Seq(Capture) /\ queue[s] # <<>>
      BY <1>10 DEF TakeFrame, TypeOK
    <3>2. Len(Tail(queue[s])) = Len(queue[s]) - 1 /\ Len(queue[s]) >= 1
      BY <3>1
    <3>3. QED
      BY <1>10, <1>b, <3>2 DEF TakeFrame, TypeOK
  <2>3. QED
    BY <1>a, <1>b, <1>c, <2>1, <2>2, SizesAssumption DEF BufferInv
<1>11. ASSUME NEW s \in Session, TestEmpty(s) \/ FallAsleep(s) \/ SpuriousWakeup(s) \/ EncodeImage(s)
       PROVE  BufferInv'
  BY <1>0, <1>11 DEF TestEmpty, FallAsleep, SpuriousWakeup, EncodeImage
<1>12. ASSUME NEW s \in Session, Finalize(s)
       PROVE  BufferInv'
  <2>1. queue[s] = <<>> /\ queue' = queue
    BY <1>12 DEF Finalize, EndedInv, TypeOK
  <2>2. QED
    BY <1>0, <1>12, <2>1 DEF Finalize
<1>13. CASE UNCHANGED vars
  BY <1>0, <1>13 DEF vars
<1>14. QED
  BY <1>1, <1>2, <1>3, <1>4, <1>5, <1>6, <1>7, <1>8, <1>9, <1>10, <1>11, <1>12, <1>13
  DEF Next, MainStep, RenderStep, EncoderStep

LEMMA BufferSafe == ControlInv /\ BufferInv => GrabBufferBounded
<1> SUFFICES ASSUME ControlInv, BufferInv, session # NoSession
             PROVE  Len(queue[session]) + Cardinality(pending) <= MaxQueued + SlotCount
  BY DEF GrabBufferBounded
<1>1. session \in Session /\ Len(queue[session]) \in Nat
  BY DEF ControlInv, TypeOK
<1>2. Cardinality(pending) \in Nat /\ Room \in {0, 1}
  BY SlotsFinite DEF ControlInv, Room
<1>3. QED
  BY <1>1, <1>2, SizesAssumption DEF BufferInv

\* If recordings are stopped between captures, what is queued and what may
\* still be is never more than the bound of the queue and all slots.
THEOREM BufferBounded == ASSUME ~StopsAnytime PROVE Spec => []GrabBufferBounded
<1>1. Init => ControlInv /\ BufferInv
  BY ControlInit DEF Init, BufferInv
<1>2. ControlInv /\ BufferInv /\ [Next]_vars => (ControlInv /\ BufferInv)'
  BY ControlStep, BufferStep
<1>3. QED
  BY <1>1, <1>2, BufferSafe, PTL DEF Spec

-----------------------------------------------------------------------------
(***************************************************************************)
(* The drift.  Every capture is held once, until it is encoded; and there  *)
(* are never more captures than other slots that a later one overtook.     *)
(***************************************************************************)
HeldOnce(s) ==
    /\ Held(s) \subseteq owed[s]
    /\ \A j, k \in 1..Len(queue[s]) : queue[s][j] = queue[s][k] => j = k
    /\ Taken(s) \cap Elements(queue[s]) = {}
    /\ InSlots(s) \cap (Taken(s) \cup Elements(queue[s])) = {}

CapturedInv ==
    /\ lastCapture <= clock
    /\ render # "idle" => lastCapture < clock
    /\ \A s \in Session : \A d \in owed[s] : d <= lastCapture
    /\ \A i, j \in pending : copy[i] = copy[j] => i = j
    /\ \A s \in Session : HeldOnce(s)

LEMMA HarvestOnce ==
    ASSUME ControlInv, CapturedInv, session \in running, NEW i \in pending, Harvest(i),
           UNCHANGED <<session, inHand, owed, time, render>>
    PROVE  CapturedInv'
<1> USE DEF time
<1>. TypeOK /\ i \in Slot
  BY DEF ControlInv, TypeOK
<1>1. /\ session \in Session
      /\ copy[i] \in Capture /\ queue[session] \in Seq(Capture)
      /\ pending' = pending \ {i} /\ copy' = copy
      /\ queue'[session] = Append(queue[session], copy[i])
      /\ \A s \in Session : s # session => queue'[s] = queue[s]
  BY HarvestRuns DEF ControlInv, TypeOK, Harvest
<1>2. ASSUME NEW s \in Session
      PROVE  Taken(s)' = Taken(s)
  BY <1>2 DEF Taken, Harvest, Notified, TypeOK
<1>3. Elements(queue[session])' = Elements(queue[session]) \cup {copy[i]}
  <2>1. Elements(queue'[session]) = Elements(queue[session]) \cup {copy[i]}
    BY <1>1, AppendElements
  <2>2. QED
    BY <2>1 DEF Elements
<1>4. /\ InSlots(session) = InSlots(session)' \cup {copy[i]}
      /\ copy[i] \notin InSlots(session)'
  BY <1>1 DEF InSlots, CapturedInv, TypeOK
<1>5. HeldOnce(session)'
  <2>1. HeldOnce(session)
    BY <1>1 DEF CapturedInv
  <2>2. Held(session)' = Held(session)
    BY <1>1, <1>2, <1>3, <1>4 DEF Held
  <2>3. copy[i] \notin Elements(queue[session]) /\ copy[i] \notin Taken(session)
    BY <1>4, <2>1 DEF HeldOnce
  <2>4. \A j, k \in 1..Len(queue[session])' : queue'[session][j] = queue'[session][k] => j = k
    <3> DEFINE q == queue[session]
    <3>1. /\ Len(Append(q, copy[i])) = Len(q) + 1 /\ Len(q) \in Nat
          /\ \A k \in 1..Len(q) : Append(q, copy[i])[k] = q[k]
          /\ Append(q, copy[i])[Len(q) + 1] = copy[i]
      BY <1>1
    <3>2. \A k \in 1..Len(q) : q[k] # copy[i]
      BY <2>3 DEF Elements
    <3>3. \A j, k \in 1..Len(q) : q[j] = q[k] => j = k
      BY <2>1 DEF HeldOnce
    <3> HIDE DEF q
    <3>4. \A j, k \in 1..Len(q) + 1 :
            Append(q, copy[i])[j] = Append(q, copy[i])[k] => j = k
      <4> SUFFICES ASSUME NEW j \in 1..Len(q) + 1, NEW k \in 1..Len(q) + 1,
                          Append(q, copy[i])[j] = Append(q, copy[i])[k]
                   PROVE  j = k
        OBVIOUS
      <4>1. j \in 1..Len(q) \/ j = Len(q) + 1
        BY <3>1
      <4>2. k \in 1..Len(q) \/ k = Len(q) + 1
        BY <3>1
      <4>3. QED
        BY <3>1, <3>2, <3>3, <4>1, <4>2
    <3>5. QED
      BY <1>1, <3>1, <3>4 DEF q
  <2>5. Held(session)' \subseteq owed'[session]
    BY <2>1, <2>2 DEF HeldOnce
  <2>6. /\ (Taken(session) \cap Elements(queue[session]))' = {}
        /\ (InSlots(session) \cap (Taken(session) \cup Elements(queue[session])))' = {}
    BY <1>1, <1>2, <1>3, <1>4, <2>1, <2>3 DEF HeldOnce
  <2>7. QED
    BY <2>4, <2>5, <2>6 DEF HeldOnce
<1>6. ASSUME NEW s \in Session, s # session
      PROVE  HeldOnce(s)'
  <2>1. queue'[s] = queue[s] /\ Taken(s)' = Taken(s) /\ InSlots(s)' = InSlots(s)
    BY <1>1, <1>2, <1>6 DEF InSlots
  <2>2. HeldOnce(s)
    BY DEF CapturedInv
  <2>3. QED
    BY <2>1, <2>2 DEF HeldOnce, Held, Elements
<1>7. QED
  BY <1>1, <1>5, <1>6 DEF CapturedInv

\* Where captures stay or leave their slots.
LEMMA OnceKept ==
    ASSUME CapturedInv, UNCHANGED <<queue, owed>>,
           \A s \in Session : Taken(s)' = Taken(s),
           \A s \in Session : InSlots(s)' \subseteq InSlots(s)
    PROVE  \A s \in Session : HeldOnce(s)'
BY DEF CapturedInv, HeldOnce, Held, Elements

LEMMA CapturedStep == ControlInv /\ CapturedInv /\ [Next]_vars => CapturedInv'
<1> SUFFICES ASSUME ControlInv, CapturedInv, [Next]_vars
             PROVE  CapturedInv'
  OBVIOUS
<1> USE DEF time, slots, encoding, rendering, control
<1>. TypeOK /\ EndedInv /\ SessionInv /\ RunningInv /\ PendingInv
  BY DEF ControlInv
<1>t. clock \in Int /\ lastCapture \in Int
  BY DEF TypeOK, Capture
<1>0. ASSUME UNCHANGED <<queue, owed, lastCapture, clock, copy>>,
             pending' \subseteq pending,
             render' # "idle" => render # "idle" \/ Due,
             \A s \in Session : Taken(s)' = Taken(s),
             \A s \in Session : InSlots(s)' \subseteq InSlots(s)
      PROVE  CapturedInv'
  BY <1>0, <1>t, OnceKept DEF CapturedInv, Due
<1>1. CASE StartRecording
  <2>1. /\ pending = {} /\ render = "idle" /\ lastCapture' = clock
        /\ UNCHANGED <<clock, pending, copy, queue, owed, inHand, render>>
    BY <1>1 DEF StartRecording, PendingInv, RunningInv
  <2>2. \A s \in Session : Taken(s)' = Taken(s)
    BY <1>1 DEF StartRecording, Opened, Taken, TypeOK
  <2>3. \A s \in Session : InSlots(s)' \subseteq InSlots(s)
    BY <2>1 DEF InSlots
  <2>4. \A s \in Session : HeldOnce(s)'
    BY <2>1, <2>2, <2>3, OnceKept
  <2>5. \A s \in Session : \A d \in owed[s] : d \in Int /\ d <= clock
    BY <1>t DEF CapturedInv, TypeOK, Capture
  <2>6. QED
    BY <1>t, <2>1, <2>4, <2>5 DEF CapturedInv
<1>2. CASE StopRecording \/ OnTerminate \/ LowerRunning \/ Join
  BY <1>0, <1>2 DEF StopRecording, OnTerminate, BeginStop, LowerRunning, Join, InSlots, Taken
<1>3. CASE StopHarvest
  <2>1. session \in running /\ UNCHANGED <<session, inHand, owed, time, render>>
    BY <1>3 DEF StopHarvest, RunningInv
  <2>2. CASE mainAt \in pending
    BY <1>3, <2>1, <2>2, HarvestOnce DEF StopHarvest
  <2>3. CASE mainAt \notin pending
    BY <1>0, <1>3, <2>1, <2>3 DEF StopHarvest, InSlots, Taken
  <2>4. QED
    BY <2>2, <2>3
<1>4. CASE RenderHarvest
  <2>1. session \in running /\ UNCHANGED <<session, inHand, owed, time, render>>
    BY <1>4 DEF RenderHarvest, RunningInv
  <2>2. CASE renderAt \in pending /\ Harvest(renderAt)
    BY <2>1, <2>2, HarvestOnce
  <2>3. CASE UNCHANGED <<queue, encoder, slots>>
    BY <1>0, <2>1, <2>3 DEF InSlots, Taken
  <2>4. QED
    BY <1>4, <2>2, <2>3 DEF RenderHarvest
<1>5. CASE DestroyAsyncResources
  BY <1>0, <1>5 DEF DestroyAsyncResources, InSlots, Taken
<1>6. CASE DetachSession
  <2>1. \A s \in Session : Taken(s)' = Taken(s)
    BY <1>6 DEF DetachSession, Notified, Taken, TypeOK
  <2>2. \A s \in Session : InSlots(s)' \subseteq InSlots(s)
    BY <1>6 DEF DetachSession, InSlots, Session, NoSession
  <2>3. QED
    BY <1>0, <1>6, <2>1, <2>2 DEF DetachSession
<1>7. CASE Tick
  <2>1. \A s \in Session : HeldOnce(s)'
    BY <1>7, OnceKept DEF Tick, InSlots, Taken
  <2>2. QED
    BY <1>7, <1>t, <2>1 DEF Tick, CapturedInv
<1>8. CASE ShouldCaptureFrame \/ TestBackpressure \/ \E i \in Slot : CopyOnDevice(i)
  BY <1>0, <1>8 DEF ShouldCaptureFrame, TestBackpressure, CopyOnDevice, InSlots, Taken
<1>9. CASE SubmitGPUCopy
  <2>1. /\ UNCHANGED <<clock, queue, encoder, inHand, session>> /\ session \in Session
        /\ render' = "idle" /\ lastCapture < clock
    BY <1>9 DEF SubmitGPUCopy, TypeOK, CapturedInv
  <2>2. CASE UNCHANGED <<pending, copy, owed, lastCapture>>
    BY <1>0, <2>1, <2>2 DEF InSlots, Taken
  <2>3. ASSUME NEW i \in Slot, i \notin pending,
               copy' = [copy EXCEPT ![i] = clock],
               pending' = pending \cup {i},
               lastCapture' = clock,
               owed' = [owed EXCEPT ![session] = @ \cup {clock}]
        PROVE  CapturedInv'
    <3>1. \A j \in pending : copy'[j] = copy[j] /\ j \in Slot
      BY <2>3 DEF TypeOK
    <3>2. copy'[i] = clock
      BY <2>3 DEF TypeOK
    <3>3. \A s \in Session : \A d \in owed[s] : d \in Int /\ d < clock
      BY <1>t, <2>1 DEF CapturedInv, TypeOK, Capture
    <3>4. InSlots(session) \subseteq owed[session]
      BY <2>1 DEF CapturedInv, HeldOnce, Held
    <3>5. \A j \in pending : copy[j] # clock
      BY <1>t, <2>1, <3>3, <3>4 DEF InSlots
    <3>6. \A j, k \in pending' : copy'[j] = copy'[k] => j = k
      BY <2>3, <3>1, <3>2, <3>5 DEF CapturedInv
    <3>7. InSlots(session)' = InSlots(session) \cup {clock}
      BY <2>1, <2>3, <3>1, <3>2 DEF InSlots
    <3>8. owed'[session] = owed[session] \cup {clock}
      BY <2>1, <2>3 DEF TypeOK
    <3>9. clock \notin owed[session]
      BY <1>t, <2>1, <3>3
    <3>10. HeldOnce(session)'
      <4>1. HeldOnce(session) /\ Taken(session)' = Taken(session)
            /\ Elements(queue[session])' = Elements(queue[session])
        BY <2>1 DEF CapturedInv, Taken, Elements
      <4>2. QED
        BY <2>1, <3>7, <3>8, <3>9, <4>1 DEF HeldOnce, Held
    <3>11. ASSUME NEW s \in Session, s # session
           PROVE  HeldOnce(s)'
      <4>1. HeldOnce(s) /\ Taken(s)' = Taken(s) /\ InSlots(s)' = InSlots(s)
            /\ owed'[s] = owed[s]
        BY <2>1, <2>3, <3>11 DEF CapturedInv, Taken, InSlots, TypeOK
      <4>2. QED
        BY <2>1, <4>1 DEF HeldOnce, Held, Elements
    <3>12. ASSUME NEW s \in Session, NEW d \in owed'[s]
           PROVE  d <= clock
      <4>1. d \in owed[s] \/ d = clock
        BY <2>3, <3>12 DEF TypeOK
      <4>2. QED
        BY <1>t, <3>3, <4>1
    <3>13. QED
      BY <1>t, <2>1, <2>3, <3>6, <3>10, <3>11, <3>12 DEF CapturedInv
  <2>4. QED
    BY <1>9, <2>2, <2>3 DEF SubmitGPUCopy, FirstFree
<1>10. ASSUME NEW t \in Session, TakeFrame(t)
       PROVE  CapturedInv'
  <2>1. /\ queue[t] \in Seq(Capture) /\ queue[t] # <<>>
        /\ queue'[t] = Tail(queue[t]) /\ Taken(t) = {} /\ Taken(t)' = {Head(queue[t])}
        /\ UNCHANGED <<owed, session, pending, copy, clock, lastCapture, render>>
    BY <1>10 DEF TakeFrame, TypeOK, Taken
  <2>2. /\ Len(queue[t]) \in Nat /\ Len(Tail(queue[t])) = Len(queue[t]) - 1
        /\ Head(queue[t]) = queue[t][1] /\ Len(queue[t]) >= 1
        /\ \A k \in 1..Len(queue[t]) - 1 : Tail(queue[t])[k] = queue[t][k + 1]
    BY <2>1
  <2>3. HeldOnce(t)
    BY DEF CapturedInv
  <2>4. \A j, k \in 1..Len(queue[t]) : queue[t][j] = queue[t][k] => j = k
    BY <2>3 DEF HeldOnce
  <2>5. Elements(queue[t]) = {Head(queue[t])} \cup Elements(Tail(queue[t]))
    BY <2>1, TailElements
  <2>6. Elements(queue[t])' = Elements(Tail(queue[t]))
    BY <2>1 DEF Elements
  <2>7. Head(queue[t]) \notin Elements(Tail(queue[t]))
    <3> SUFFICES ASSUME NEW k \in 1..Len(queue[t]) - 1, queue[t][k + 1] = queue[t][1]
                 PROVE  FALSE
      BY <2>2 DEF Elements
    <3>1. k + 1 \in 1..Len(queue[t]) /\ 1 \in 1..Len(queue[t]) /\ k + 1 # 1
      BY <2>2
    <3>2. QED
      BY <2>4, <3>1
  <2>8. \A j, k \in 1..Len(queue[t])' : queue'[t][j] = queue'[t][k] => j = k
    <3> SUFFICES ASSUME NEW j \in 1..Len(queue[t]) - 1, NEW k \in 1..Len(queue[t]) - 1,
                        queue[t][j + 1] = queue[t][k + 1]
                 PROVE  j = k
      BY <2>1, <2>2
    <3>1. j + 1 \in 1..Len(queue[t]) /\ k + 1 \in 1..Len(queue[t])
      BY <2>2
    <3>2. j + 1 = k + 1
      BY <2>4, <3>1
    <3>3. QED
      BY <2>2, <3>2
  <2>9. InSlots(t)' = InSlots(t)
    BY <2>1 DEF InSlots
  <2>10. HeldOnce(t)'
    BY <2>1, <2>3, <2>5, <2>6, <2>7, <2>8, <2>9 DEF HeldOnce, Held
  <2>11. ASSUME NEW s \in Session, s # t
         PROVE  HeldOnce(s)'
    <3>1. HeldOnce(s) /\ Taken(s)' = Taken(s) /\ InSlots(s)' = InSlots(s)
          /\ queue'[s] = queue[s]
      BY <1>10, <2>11 DEF CapturedInv, TakeFrame, Taken, InSlots, TypeOK
    <3>2. QED
      BY <2>1, <3>1 DEF HeldOnce, Held, Elements
  <2>12. QED
    BY <2>1, <2>10, <2>11 DEF CapturedInv
<1>11. ASSUME NEW t \in Session, TestEmpty(t) \/ FallAsleep(t) \/ SpuriousWakeup(t)
       PROVE  CapturedInv'
  <2>1. \A s \in Session : Taken(s)' = Taken(s)
    BY <1>11 DEF TestEmpty, FallAsleep, SpuriousWakeup, Taken, TypeOK
  <2>2. \A s \in Session : InSlots(s)' \subseteq InSlots(s)
    BY <1>11 DEF TestEmpty, FallAsleep, SpuriousWakeup, InSlots
  <2>3. QED
    BY <1>0, <1>11, <2>1, <2>2 DEF TestEmpty, FallAsleep, SpuriousWakeup
<1>12. ASSUME NEW t \in Session, EncodeImage(t)
       PROVE  CapturedInv'
  <2>1. /\ Taken(t) = {inHand[t]} /\ Taken(t)' = {}
        /\ owed'[t] = owed[t] \ {inHand[t]}
        /\ UNCHANGED <<queue, session, pending, copy, clock, lastCapture, render>>
    BY <1>12 DEF EncodeImage, Taken, TypeOK
  <2>2. HeldOnce(t)'
    <3>1. HeldOnce(t) /\ InSlots(t)' = InSlots(t)
          /\ Elements(queue[t])' = Elements(queue[t])
      BY <2>1 DEF CapturedInv, InSlots, Elements
    <3>2. QED
      BY <2>1, <3>1 DEF HeldOnce, Held
  <2>3. ASSUME NEW s \in Session, s # t
        PROVE  HeldOnce(s)' /\ owed'[s] = owed[s]
    <3>1. HeldOnce(s) /\ Taken(s)' = Taken(s) /\ InSlots(s)' = InSlots(s)
          /\ owed'[s] = owed[s]
      BY <1>12, <2>1, <2>3 DEF CapturedInv, EncodeImage, Taken, InSlots, TypeOK
    <3>2. QED
      BY <2>1, <3>1 DEF HeldOnce, Held, Elements
  <2>4. QED
    BY <2>1, <2>2, <2>3 DEF CapturedInv
<1>13. ASSUME NEW t \in Session, Finalize(t)
       PROVE  CapturedInv'
  <2>1. queue' = queue
    BY <1>13 DEF Finalize, EndedInv, TypeOK
  <2>2. QED
    BY <1>0, <1>13, <2>1 DEF Finalize, InSlots, Taken, TypeOK
<1>14. CASE UNCHANGED vars
  BY <1>0, <1>14 DEF vars, InSlots, Taken
<1>15. QED
  BY <1>1, <1>2, <1>3, <1>4, <1>5, <1>6, <1>7, <1>8, <1>9, <1>10, <1>11, <1>12, <1>13, <1>14
  DEF Next, MainStep, RenderStep, EncoderStep

\* The captures before that at place k of the queue that are not ahead of it,
\* and those before the one that is encoded.
Overtaken(s, k) ==
    {d \in owed[s] : d < queue[s][k]} \ (Taken(s) \cup {queue[s][j] : j \in 1..k - 1})

OvertakenInHand(s) == {d \in owed[s] : d < inHand[s]}

OvertakenInv ==
    \A s \in Session :
        /\ encoder[s] = "encoding" => Cardinality(OvertakenInHand(s)) < SlotCount
        /\ \A k \in 1..Len(queue[s]) : Cardinality(Overtaken(s, k)) < SlotCount

LEMMA OwedFinite ==
    ASSUME TypeOK, NEW s \in Session, NEW A, A \subseteq owed[s]
    PROVE  IsFiniteSet(A) /\ Cardinality(A) \in Nat
<1>1. IsFiniteSet(0..LastTick)
  BY SizesAssumption, FS_Interval
<1>2. A \in SUBSET (0..LastTick)
  BY DEF TypeOK, Capture
<1>3. QED
  BY <1>1, <1>2, FS_Subset, FS_CardinalityType

\* A part of the captures that are owed has no more of them.
LEMMA FewerOwed ==
    ASSUME TypeOK, NEW s \in Session, NEW A, A \subseteq owed[s], NEW B, B \subseteq A
    PROVE  /\ Cardinality(B) \in Nat /\ Cardinality(A) \in Nat
           /\ Cardinality(B) <= Cardinality(A)
<1>1. IsFiniteSet(A) /\ Cardinality(A) \in Nat /\ B \in SUBSET A
  BY OwedFinite
<1>2. IsFiniteSet(B) /\ Cardinality(B) <= Cardinality(A)
  BY <1>1, FS_Subset
<1>3. QED
  BY <1>1, <1>2, FS_CardinalityType

\* When a slot is harvested, what was captured before is queued, or in other
\* slots.
LEMMA HarvestOvertakes ==
    ASSUME ControlInv, OwedInv, OvertakenInv, session \in running,
           NEW i \in pending, Harvest(i), UNCHANGED <<session, inHand, owed>>
    PROVE  OvertakenInv'
<1>. TypeOK /\ i \in Slot
  BY DEF ControlInv, TypeOK
<1>1. /\ session \in Session
      /\ copy[i] \in Capture /\ queue[session] \in Seq(Capture)
      /\ queue'[session] = Append(queue[session], copy[i])
      /\ \A s \in Session : s # session => queue'[s] = queue[s]
  BY HarvestRuns DEF ControlInv, TypeOK
<1>2. \A s \in Session : /\ Taken(s)' = Taken(s)
                         /\ encoder'[s] = "encoding" <=> encoder[s] = "encoding"
  BY DEF Taken, Harvest, Notified, TypeOK
<1>3. \A s \in Session :
        encoder'[s] = "encoding" => Cardinality(OvertakenInHand(s))' < SlotCount
  BY <1>2 DEF OvertakenInv, OvertakenInHand
<1> DEFINE q == queue[session]
<1>4. /\ Len(queue'[session]) = Len(q) + 1 /\ Len(q) \in Nat
      /\ \A k \in 1..Len(q) : queue'[session][k] = q[k]
      /\ queue'[session][Len(q) + 1] = copy[i]
  BY <1>1
<1>5. ASSUME NEW s \in Session, NEW k \in 1..Len(queue'[s]), k \in 1..Len(queue[s])
      PROVE  Cardinality(Overtaken(s, k)') < SlotCount
  <2>1. /\ queue'[s][k] = queue[s][k]
        /\ \A j \in 1..k - 1 : queue'[s][j] = queue[s][j]
    <3>1. CASE s # session
      BY <1>1, <3>1
    <3>2. CASE s = session
      <4>1. k \in 1..Len(q) /\ \A j \in 1..k - 1 : j \in 1..Len(q)
        BY <1>4, <1>5, <3>2
      <4>2. QED
        BY <1>4, <3>2, <4>1
    <3>3. QED
      BY <3>1, <3>2
  <2>2. Overtaken(s, k)' = Overtaken(s, k)
    BY <1>2, <2>1 DEF Overtaken
  <2>3. QED
    BY <1>5, <2>2 DEF OvertakenInv
<1>6. ASSUME NEW k, k = Len(q) + 1
      PROVE  Cardinality(Overtaken(session, k)') < SlotCount
  <2> DEFINE P == pending \ {i}
             C == {copy[j] : j \in P}
             f == [j \in P |-> copy[j]]
  <2>1. Overtaken(session, k)' \subseteq C
    <3> SUFFICES ASSUME NEW d \in Overtaken(session, k)'
                 PROVE  d \in C
      OBVIOUS
    <3>0. /\ queue'[session][k] = copy[i] /\ k - 1 = Len(q)
          /\ \A j \in 1..Len(q) : queue'[session][j] = q[j]
      BY <1>4, <1>6
    <3>1. d \in owed[session] /\ d < copy[i] /\ d \in InSlots(session)
      <4>1. /\ d \in owed[session] /\ d < copy[i] /\ d \notin Taken(session)
            /\ \A j \in 1..Len(q) : d # q[j]
        BY <1>1, <1>2, <3>0 DEF Overtaken
      <4>2. d \in Held(session)
        BY <1>1, <4>1 DEF OwedInv
      <4>3. QED
        BY <4>1, <4>2 DEF Held, Elements
    <3>2. PICK j \in pending : d = copy[j]
      BY <3>1 DEF InSlots
    <3>3. j # i
      BY <1>1, <3>1, <3>2 DEF Capture
    <3>4. QED
      BY <3>2, <3>3
  <2>2. IsFiniteSet(P) /\ Cardinality(P) < SlotCount
    <3>1. IsFiniteSet(pending) /\ Cardinality(pending) \in 0..SlotCount
      BY SlotsFinite
    <3>2. IsFiniteSet(P) /\ Cardinality(P) = Cardinality(pending) - 1
      BY <3>1, FS_RemoveElement
    <3>3. QED
      BY <3>1, <3>2, SizesAssumption
  <2>3. f \in Surjection(P, C)
    BY DEF Surjection
  <2>4. IsFiniteSet(C) /\ Cardinality(C) <= Cardinality(P)
    BY <2>2, <2>3, FS_Surjection
  <2> HIDE DEF P, C
  <2>5. Cardinality(Overtaken(session, k)') <= Cardinality(C)
    BY <2>1, <2>4, FS_Subset
  <2>6. /\ Cardinality(Overtaken(session, k)') \in Nat
        /\ Cardinality(C) \in Nat /\ Cardinality(P) \in Nat
    <3>1. IsFiniteSet(Overtaken(session, k)')
      BY <2>1, <2>4, FS_Subset
    <3>2. QED
      BY <3>1, <2>2, <2>4, FS_CardinalityType
  <2>7. QED
    BY <2>2, <2>4, <2>5, <2>6, SizesAssumption
<1>7. ASSUME NEW s \in Session, NEW k \in 1..Len(queue'[s])
      PROVE  Cardinality(Overtaken(s, k)') < SlotCount
  <2>1. CASE k \in 1..Len(queue[s])
    BY <1>5, <2>1
  <2>2. CASE k \notin 1..Len(queue[s])
    <3>1. s = session /\ k = Len(q) + 1
      BY <1>1, <1>4, <1>7, <2>2
    <3>2. QED
      BY <1>6, <3>1
  <2>3. QED
    BY <2>1, <2>2
<1>8. QED
  BY <1>3, <1>7 DEF OvertakenInv

\* Where nothing is queued, taken or captured.
LEMMA OvertakenKept ==
    ASSUME OvertakenInv, UNCHANGED <<queue, owed, inHand>>,
           \A s \in Session : encoder'[s] = "encoding" <=> encoder[s] = "encoding"
    PROVE  OvertakenInv'
BY DEF OvertakenInv, Overtaken, OvertakenInHand, Taken

LEMMA OvertakenStep ==
    ControlInv /\ OwedInv /\ CapturedInv /\ OvertakenInv /\ [Next]_vars => OvertakenInv'
<1> SUFFICES ASSUME ControlInv, OwedInv, CapturedInv, OvertakenInv, [Next]_vars
             PROVE  OvertakenInv'
  OBVIOUS
<1> USE DEF time, slots, encoding, rendering, control
<1>. TypeOK /\ EndedInv /\ SessionInv /\ RunningInv /\ PendingInv
  BY DEF ControlInv
<1>a. TypeOK'
  BY TypeStep
<1>1. CASE StartRecording
  <2>1. \A s \in Session : encoder'[s] = "encoding" <=> encoder[s] = "encoding"
    BY <1>1 DEF StartRecording, Opened, TypeOK
  <2>2. QED
    BY <1>1, <2>1, OvertakenKept DEF StartRecording
<1>2. CASE StopRecording \/ OnTerminate \/ LowerRunning \/ Join \/ DestroyAsyncResources
  BY <1>2, OvertakenKept
  DEF StopRecording, OnTerminate, BeginStop, LowerRunning, Join, DestroyAsyncResources
<1>3. CASE StopHarvest
  <2>1. session \in running /\ UNCHANGED <<session, inHand, owed>>
    BY <1>3 DEF StopHarvest, RunningInv
  <2>2. CASE mainAt \in pending
    BY <1>3, <2>1, <2>2, HarvestOvertakes DEF StopHarvest
  <2>3. CASE mainAt \notin pending
    BY <1>3, <2>1, <2>3, OvertakenKept DEF StopHarvest
  <2>4. QED
    BY <2>2, <2>3
<1>4. CASE RenderHarvest
  <2>1. session \in running /\ UNCHANGED <<session, inHand, owed>>
    BY <1>4 DEF RenderHarvest, RunningInv
  <2>2. CASE renderAt \in pending /\ Harvest(renderAt)
    BY <2>1, <2>2, HarvestOvertakes
  <2>3. CASE UNCHANGED <<queue, encoder, slots>>
    BY <2>1, <2>3, OvertakenKept
  <2>4. QED
    BY <1>4, <2>2, <2>3 DEF RenderHarvest
<1>5. CASE DetachSession
  <2>1. \A s \in Session : encoder'[s] = "encoding" <=> encoder[s] = "encoding"
    BY <1>5 DEF DetachSession, Notified, TypeOK
  <2>2. QED
    BY <1>5, <2>1, OvertakenKept DEF DetachSession
<1>6. CASE Tick \/ ShouldCaptureFrame \/ TestBackpressure \/ \E i \in Slot : CopyOnDevice(i)
  BY <1>6, OvertakenKept DEF Tick, ShouldCaptureFrame, TestBackpressure, CopyOnDevice
<1>7. CASE SubmitGPUCopy
  <2>1. /\ UNCHANGED <<queue, encoder, inHand, session>> /\ session \in Session
        /\ lastCapture < clock /\ clock \in Int /\ lastCapture \in Int
    BY <1>7 DEF SubmitGPUCopy, TypeOK, CapturedInv, Capture
  <2>2. CASE UNCHANGED owed
    BY <2>1, <2>2, OvertakenKept
  <2>3. CASE owed' = [owed EXCEPT ![session] = @ \cup {clock}]
    <3>1. \A s \in Session : /\ owed[s] \subseteq owed'[s]
                             /\ owed'[s] \subseteq owed[s] \cup {clock}
      BY <2>3 DEF TypeOK
    <3>2. \A s \in Session : \A e \in owed[s] : e \in Int /\ ~ (clock < e)
      BY <2>1 DEF CapturedInv, TypeOK, Capture
    <3>3. ASSUME NEW s \in Session, NEW k \in 1..Len(queue[s])
          PROVE  Overtaken(s, k)' = Overtaken(s, k)
      <4>1. queue[s][k] \in owed[s]
        BY <3>3 DEF CapturedInv, HeldOnce, Held, Elements
      <4>2. {d \in owed'[s] : d < queue[s][k]} = {d \in owed[s] : d < queue[s][k]}
        BY <3>1, <3>2, <4>1
      <4>3. QED
        BY <2>1, <4>2 DEF Overtaken, Taken
    <3>4. ASSUME NEW s \in Session, encoder[s] = "encoding"
          PROVE  OvertakenInHand(s)' = OvertakenInHand(s)
      <4>1. inHand[s] \in owed[s]
        BY <3>4 DEF CapturedInv, HeldOnce, Held, Taken
      <4>2. {d \in owed'[s] : d < inHand[s]} = {d \in owed[s] : d < inHand[s]}
        BY <3>1, <3>2, <4>1
      <4>3. QED
        BY <2>1, <4>2 DEF OvertakenInHand
    <3>5. QED
      BY <2>1, <3>3, <3>4 DEF OvertakenInv
  <2>4. QED
    BY <1>7, <2>2, <2>3 DEF SubmitGPUCopy
<1>8. ASSUME NEW t \in Session, TakeFrame(t)
      PROVE  OvertakenInv'
  <2>1. /\ queue[t] \in Seq(Capture) /\ queue[t] # <<>>
        /\ queue'[t] = Tail(queue[t]) /\ Taken(t) = {} /\ Taken(t)' = {Head(queue[t])}
        /\ inHand'[t] = Head(queue[t])
        /\ UNCHANGED owed
        /\ \A s \in Session : s # t => /\ queue'[s] = queue[s] /\ inHand'[s] = inHand[s]
                                       /\ encoder'[s] = encoder[s]
    BY <1>8 DEF TakeFrame, TypeOK, Taken
  <2>2. /\ Len(queue[t]) \in Nat /\ Len(Tail(queue[t])) = Len(queue[t]) - 1
        /\ Head(queue[t]) = queue[t][1] /\ Len(queue[t]) >= 1
        /\ \A k \in 1..Len(queue[t]) - 1 : Tail(queue[t])[k] = queue[t][k + 1]
    BY <2>1
  <2>3. Cardinality(OvertakenInHand(t)') < SlotCount
    <3>1. 1 \in 1..Len(queue[t]) /\ 1..1 - 1 = {}
      BY <2>2
    <3>2. OvertakenInHand(t)' = Overtaken(t, 1)
      BY <2>1, <2>2, <3>1 DEF OvertakenInHand, Overtaken
    <3>3. QED
      BY <3>1, <3>2 DEF OvertakenInv
  <2>4. ASSUME NEW k \in 1..Len(queue'[t])
        PROVE  Cardinality(Overtaken(t, k)') < SlotCount
    <3>1. k \in 1..Len(queue[t]) - 1 /\ k + 1 \in 1..Len(queue[t]) /\ k \in Nat
      BY <2>1, <2>2, <2>4
    <3>2. ASSUME NEW j \in 1..(k + 1) - 1
          PROVE  queue[t][j] = Head(queue[t]) \/ \E l \in 1..k - 1 : queue'[t][l] = queue[t][j]
      <4>1. CASE j = 1
        BY <2>2, <4>1
      <4>2. CASE j # 1
        <5>1. /\ j - 1 \in 1..k - 1 /\ j - 1 \in 1..Len(queue[t]) - 1
              /\ (j - 1) + 1 = j
          BY <2>2, <3>1, <3>2, <4>2
        <5>2. queue'[t][j - 1] = queue[t][j]
          BY <2>1, <2>2, <5>1
        <5>3. QED
          BY <5>1, <5>2
      <4>3. QED
        BY <4>1, <4>2
    <3>3. queue'[t][k] = queue[t][k + 1]
      BY <2>1, <2>2, <3>1
    <3>4. Overtaken(t, k)' \subseteq Overtaken(t, k + 1)
      BY <2>1, <3>2, <3>3 DEF Overtaken
    <3>5. Cardinality(Overtaken(t, k + 1)) < SlotCount
      BY <3>1 DEF OvertakenInv
    <3>6. Overtaken(t, k + 1) \subseteq owed[t]
      BY DEF Overtaken
    <3>7. /\ Cardinality(Overtaken(t, k)') \in Nat /\ Cardinality(Overtaken(t, k + 1)) \in Nat
          /\ Cardinality(Overtaken(t, k)') <= Cardinality(Overtaken(t, k + 1))
      BY <3>4, <3>6, FewerOwed
    <3>8. QED
      BY <3>5, <3>7, SizesAssumption
  <2>5. ASSUME NEW s \in Session, s # t
        PROVE  /\ OvertakenInHand(s)' = OvertakenInHand(s)
               /\ \A k : Overtaken(s, k)' = Overtaken(s, k)
    BY <2>1, <2>5 DEF OvertakenInHand, Overtaken, Taken
  <2>6. QED
    BY <2>1, <2>3, <2>4, <2>5 DEF OvertakenInv
<1>9. ASSUME NEW t \in Session, TestEmpty(t) \/ FallAsleep(t) \/ SpuriousWakeup(t)
      PROVE  OvertakenInv'
  <2>1. \A s \in Session : encoder'[s] = "encoding" <=> encoder[s] = "encoding"
    BY <1>9 DEF TestEmpty, FallAsleep, SpuriousWakeup, TypeOK
  <2>2. QED
    BY <1>9, <2>1, OvertakenKept DEF TestEmpty, FallAsleep, SpuriousWakeup
<1>10. ASSUME NEW t \in Session, EncodeImage(t)
       PROVE  OvertakenInv'
  <2>1. /\ Taken(t) = {inHand[t]} /\ Taken(t)' = {} /\ encoder'[t] = "testing"
        /\ owed'[t] = owed[t] \ {inHand[t]}
        /\ UNCHANGED queue
        /\ \A s \in Session : s # t => /\ owed'[s] = owed[s] /\ inHand'[s] = inHand[s]
                                       /\ encoder'[s] = encoder[s]
    BY <1>10 DEF EncodeImage, Taken, TypeOK
  <2>2. ASSUME NEW k \in 1..Len(queue[t])
        PROVE  Cardinality(Overtaken(t, k)') < SlotCount
    <3>1. Overtaken(t, k)' \subseteq Overtaken(t, k) /\ Overtaken(t, k) \subseteq owed[t]
      BY <2>1 DEF Overtaken
    <3>2. Cardinality(Overtaken(t, k)) < SlotCount
      BY DEF OvertakenInv
    <3>3. /\ Cardinality(Overtaken(t, k)') \in Nat /\ Cardinality(Overtaken(t, k)) \in Nat
          /\ Cardinality(Overtaken(t, k)') <= Cardinality(Overtaken(t, k))
      BY <3>1, FewerOwed
    <3>4. QED
      BY <3>2, <3>3, SizesAssumption
  <2>3. ASSUME NEW s \in Session, s # t
        PROVE  /\ OvertakenInHand(s)' = OvertakenInHand(s)
               /\ \A k : Overtaken(s, k)' = Overtaken(s, k)
    BY <2>1, <2>3 DEF OvertakenInHand, Overtaken, Taken
  <2>4. QED
    BY <2>1, <2>2, <2>3 DEF OvertakenInv
<1>11. ASSUME NEW t \in Session, Finalize(t)
       PROVE  OvertakenInv'
  <2>1. queue' = queue
    BY <1>11 DEF Finalize, EndedInv, TypeOK
  <2>2. \A s \in Session : encoder'[s] = "encoding" <=> encoder[s] = "encoding"
    BY <1>11 DEF Finalize, TypeOK
  <2>3. QED
    BY <1>11, <2>1, <2>2, OvertakenKept DEF Finalize
<1>12. CASE UNCHANGED vars
  BY <1>12, OvertakenKept DEF vars
<1>13. QED
  BY <1>1, <1>2, <1>3, <1>4, <1>5, <1>6, <1>7, <1>8, <1>9, <1>10, <1>11, <1>12
  DEF Next, MainStep, RenderStep, EncoderStep

\* The captures that may still make the film late are as many ticks away.
OwedUntil(s, y) == {d \in owed[s] : d <= y}

DriftInv ==
    \A s \in Session : \A y \in Int :
        y <= lastCapture /\ (lastPts[s] <= y \/ y = lastCapture) =>
            lastPts[s] + Cardinality(OwedUntil(s, y)) < y + SlotCount

LEMMA DriftInit == Init => DriftInv
<1> SUFFICES ASSUME Init, NEW s \in Session, NEW y \in Int,
                    y <= lastCapture /\ (lastPts[s] <= y \/ y = lastCapture)
             PROVE  lastPts[s] + Cardinality(OwedUntil(s, y)) < y + SlotCount
  BY DEF DriftInv
<1>1. OwedUntil(s, y) = {} /\ lastPts[s] = -1 /\ y >= -1
  BY DEF Init, OwedUntil
<1>2. Cardinality(OwedUntil(s, y)) = 0
  BY <1>1, FS_EmptySet
<1>3. QED
  BY <1>1, <1>2, SizesAssumption

\* When a capture is taken, or a recording starts, the present is later.
LEMMA LaterDrift ==
    ASSUME TypeOK, CapturedInv, DriftInv, NEW s \in Session,
           lastPts'[s] = lastPts[s], lastCapture' = clock,
           \/ owed'[s] = owed[s]
           \/ owed'[s] = owed[s] \cup {clock} /\ lastCapture < clock,
           NEW y \in Int, y <= clock, lastPts[s] <= y \/ y = clock
    PROVE  lastPts[s] + Cardinality(OwedUntil(s, y)') < y + SlotCount
<1>1. /\ clock \in Int /\ lastCapture \in Int /\ lastCapture <= clock
      /\ lastPts[s] \in Int /\ SlotCount \in Int
      /\ \A d \in owed[s] : d \in Int /\ d <= lastCapture
  BY SizesAssumption DEF TypeOK, CapturedInv, Capture
<1>2. /\ Cardinality(OwedUntil(s, lastCapture)) \in Nat
      /\ IsFiniteSet(OwedUntil(s, lastCapture))
      /\ OwedUntil(s, lastCapture) = owed[s]
      /\ lastPts[s] + Cardinality(OwedUntil(s, lastCapture)) < lastCapture + SlotCount
  <2>1. OwedUntil(s, lastCapture) = owed[s]
    BY <1>1 DEF OwedUntil
  <2>2. lastPts[s] + Cardinality(OwedUntil(s, lastCapture)) < lastCapture + SlotCount
    BY <1>1 DEF DriftInv
  <2>3. QED
    BY <2>1, <2>2, OwedFinite
<1>3. CASE y <= lastCapture /\ y # clock
  <2>1. OwedUntil(s, y)' = OwedUntil(s, y)
    BY <1>1, <1>3 DEF OwedUntil
  <2>2. QED
    BY <1>1, <1>3, <2>1 DEF DriftInv
<1>4. CASE y > lastCapture /\ y # clock
  <2>1. OwedUntil(s, y)' = owed[s]
    BY <1>1, <1>4 DEF OwedUntil
  <2>2. QED
    BY <1>1, <1>2, <1>4, <2>1
<1>5. CASE y = clock
  <2>1. CASE owed'[s] = owed[s]
    <3>1. OwedUntil(s, y)' = owed[s]
      BY <1>1, <1>5, <2>1 DEF OwedUntil
    <3>2. QED
      BY <1>1, <1>2, <1>5, <3>1
  <2>2. CASE owed'[s] = owed[s] \cup {clock} /\ lastCapture < clock
    <3>1. OwedUntil(s, y)' = owed[s] \cup {clock} /\ clock \notin owed[s]
      BY <1>1, <1>5, <2>2 DEF OwedUntil
    <3>2. Cardinality(OwedUntil(s, y)') = Cardinality(owed[s]) + 1
      <4>1. IsFiniteSet(owed[s])
        BY <1>2
      <4>2. Cardinality(owed[s] \cup {clock}) = Cardinality(owed[s]) + 1
        BY <3>1, <4>1, FS_AddElement
      <4>3. QED
        BY <3>1, <4>2
    <3>3. QED
      BY <1>1, <1>2, <1>5, <2>2, <3>2
  <2>3. QED
    BY <2>1, <2>2
<1>6. QED
  BY <1>1, <1>3, <1>4, <1>5

\* A late image takes a tick of its own, and is no longer owed; another takes
\* that of its capture, which at most SlotCount - 1 earlier ones may follow.
LEMMA EncodeDrift ==
    ASSUME TypeOK, CapturedInv, OvertakenInv, DriftInv, NEW s \in Session, EncodeImage(s),
           NEW y \in Int, y <= lastCapture, lastPts'[s] <= y \/ y = lastCapture
    PROVE  lastPts'[s] + Cardinality(OwedUntil(s, y)') < y + SlotCount
<1> DEFINE c == inHand[s]
           p == lastPts[s]
           pp == lastPts'[s]
<1>1. /\ c \in Int /\ 0 <= c /\ p \in Int /\ lastCapture \in Int
      /\ SlotCount \in Int /\ 1 <= SlotCount
      /\ c \in owed[s] /\ c <= lastCapture
      /\ owed'[s] = owed[s] \ {c} /\ lastCapture' = lastCapture
      /\ \A d \in owed[s] : d \in Int
  <2>1. c \in owed[s]
    BY DEF EncodeImage, CapturedInv, HeldOnce, Held, Taken
  <2>2. c \in Int /\ 0 <= c /\ p \in Int /\ lastCapture \in Int
        /\ \A d \in owed[s] : d \in Int
    BY <2>1 DEF TypeOK, Capture
  <2>3. owed'[s] = owed[s] \ {c} /\ lastCapture' = lastCapture
    BY DEF EncodeImage, TypeOK, time
  <2>4. QED
    BY <2>1, <2>2, <2>3, SizesAssumption DEF CapturedInv
<1>2. pp \in Filled(s) \cup {Pts(s)}
  BY DEF EncodeImage, TypeOK
<1>3. /\ OwedUntil(s, y)' = OwedUntil(s, y) \ {c}
      /\ OwedUntil(s, y) \subseteq owed[s]
  BY <1>1 DEF OwedUntil
<1>4. /\ IsFiniteSet(OwedUntil(s, y)) /\ Cardinality(OwedUntil(s, y)) \in Nat
      /\ Cardinality(OwedUntil(s, y)') \in Nat
  BY <1>3, OwedFinite, FewerOwed
<1>5. CASE c <= p
  <2>1. pp \in {p, p + 1}
    BY <1>1, <1>2, <1>5 DEF Filled, Pts
  <2>2. c \in OwedUntil(s, y) /\ (p <= y \/ y = lastCapture)
    BY <1>1, <1>5, <2>1 DEF OwedUntil
  <2>3. Cardinality(OwedUntil(s, y)') = Cardinality(OwedUntil(s, y)) - 1
    <3>1. Cardinality(OwedUntil(s, y) \ {c}) = Cardinality(OwedUntil(s, y)) - 1
      BY <1>4, <2>2, FS_RemoveElement
    <3>2. QED
      BY <1>3, <3>1
  <2>4. p + Cardinality(OwedUntil(s, y)) < y + SlotCount
    <3>1. y <= lastCapture /\ (lastPts[s] <= y \/ y = lastCapture)
      BY <2>2
    <3>2. QED
      BY <3>1, Zenon DEF DriftInv
  <2>5. QED
    BY <1>1, <1>4, <2>1, <2>3, <2>4
<1>6. CASE p < c
  <2> DEFINE A == OvertakenInHand(s)
  <2>1. pp \in Int /\ pp <= c
    BY <1>1, <1>2, <1>6 DEF Filled, Pts
  <2>2. A \subseteq owed[s] /\ Cardinality(A) < SlotCount
    BY DEF OvertakenInv, OvertakenInHand, EncodeImage
  <2>3. IsFiniteSet(A) /\ Cardinality(A) \in Nat
    BY <2>2, OwedFinite
  <2>4. CASE y < c
    <3>1. OwedUntil(s, y)' \subseteq A
      BY <1>1, <1>3, <2>4 DEF OwedUntil, OvertakenInHand
    <3>2. Cardinality(OwedUntil(s, y)') <= Cardinality(A)
      BY <2>3, <3>1, FS_Subset
    <3>3. pp <= y
      BY <1>1, <2>4
    <3>4. QED
      BY <1>1, <1>4, <2>1, <2>2, <2>3, <3>2, <3>3
  <2>5. CASE c <= y
    <3> DEFINE B == c + 1..y
    <3>1. IsFiniteSet(B) /\ Cardinality(B) = y - c
      <4>1. c + 1 \in Int /\ y \in Int
        BY <1>1
      <4>2. IsFiniteSet(B) /\ Cardinality(B) = IF c + 1 > y THEN 0 ELSE y - (c + 1) + 1
        BY <4>1, FS_Interval
      <4>3. QED
        BY <1>1, <2>5, <4>2
    <3>2. OwedUntil(s, y)' \subseteq A \cup B
      BY <1>1, <1>3 DEF OwedUntil, OvertakenInHand
    <3> HIDE DEF A, B
    <3>3. /\ IsFiniteSet(A \cup B)
          /\ Cardinality(A \cup B) = Cardinality(A) + Cardinality(B) - Cardinality(A \cap B)
      BY <2>3, <3>1, FS_Union
    <3>4. Cardinality(A \cap B) \in Nat
      BY <2>3, FS_Subset, FS_CardinalityType
    <3>5. Cardinality(OwedUntil(s, y)') <= Cardinality(A \cup B)
      BY <3>2, <3>3, FS_Subset
    <3>6. Cardinality(OwedUntil(s, y)') <= Cardinality(A) + (y - c)
      BY <1>1, <1>4, <2>3, <3>1, <3>3, <3>4, <3>5
    <3>7. QED
      BY <1>1, <1>4, <2>1, <2>2, <2>3, <3>6
  <2>6. QED
    BY <1>1, <2>4, <2>5
<1>7. QED
  BY <1>1, <1>5, <1>6

LEMMA DriftStep ==
    ControlInv /\ CapturedInv /\ OvertakenInv /\ DriftInv /\ [Next]_vars => DriftInv'
<1> SUFFICES ASSUME ControlInv, CapturedInv, OvertakenInv, DriftInv, [Next]_vars
             PROVE  DriftInv'
  OBVIOUS
<1> USE DEF time, slots, encoding, rendering, control
<1>. TypeOK
  BY DEF ControlInv
<1>0. ASSUME UNCHANGED <<lastCapture, lastPts, owed>>
      PROVE  DriftInv'
  BY <1>0 DEF DriftInv, OwedUntil
<1>1. CASE StartRecording
  <2>1. \A s \in Session : lastPts'[s] = lastPts[s] /\ owed'[s] = owed[s]
    BY <1>1 DEF StartRecording
  <2>2. lastCapture' = clock
    BY <1>1 DEF StartRecording
  <2>3. QED
    BY <2>1, <2>2, LaterDrift DEF DriftInv
<1>2. CASE SubmitGPUCopy
  <2>1. lastPts' = lastPts /\ lastCapture < clock
    BY <1>2 DEF SubmitGPUCopy, CapturedInv
  <2>2. CASE UNCHANGED <<owed, lastCapture>>
    BY <1>0, <2>1, <2>2
  <2>3. CASE lastCapture' = clock /\ owed' = [owed EXCEPT ![session] = @ \cup {clock}]
    <3>1. \A s \in Session : owed'[s] = owed[s] \/ owed'[s] = owed[s] \cup {clock}
      BY <2>3 DEF TypeOK
    <3>2. QED
      BY <2>1, <2>3, <3>1, LaterDrift DEF DriftInv
  <2>4. QED
    BY <1>2, <2>2, <2>3 DEF SubmitGPUCopy
<1>3. ASSUME NEW t \in Session, EncodeImage(t)
      PROVE  DriftInv'
  <2>1. lastCapture' = lastCapture
    BY <1>3 DEF EncodeImage
  <2>2. ASSUME NEW s \in Session, s # t
        PROVE  lastPts'[s] = lastPts[s] /\ owed'[s] = owed[s]
    BY <1>3, <2>2 DEF EncodeImage, TypeOK
  <2>3. SUFFICES ASSUME NEW s \in Session, NEW y \in Int, y <= lastCapture,
                        lastPts'[s] <= y \/ y = lastCapture
                 PROVE  lastPts'[s] + Cardinality(OwedUntil(s, y)') < y + SlotCount
    BY <2>1 DEF DriftInv
  <2>4. CASE s = t
    BY <1>3, <2>3, <2>4, EncodeDrift
  <2>5. CASE s # t
    <3>1. OwedUntil(s, y)' = OwedUntil(s, y)
      BY <2>2, <2>5 DEF OwedUntil
    <3>2. QED
      BY <2>2, <2>3, <2>5, <3>1 DEF DriftInv
  <2>6. QED
    BY <2>4, <2>5
<1>4. CASE StopHarvest \/ RenderHarvest
  BY <1>0, <1>4 DEF StopHarvest, RenderHarvest
<1>5. CASE StopRecording \/ OnTerminate \/ DestroyAsyncResources \/ LowerRunning \/ DetachSession \/ Join
  BY <1>0, <1>5 DEF StopRecording, OnTerminate, BeginStop, DestroyAsyncResources, LowerRunning,
                    DetachSession, Join
<1>6. CASE Tick \/ ShouldCaptureFrame \/ TestBackpressure \/ \E i \in Slot : CopyOnDevice(i)
  BY <1>0, <1>6 DEF Tick, ShouldCaptureFrame, TestBackpressure, CopyOnDevice
<1>7. ASSUME NEW t \in Session,
             TakeFrame(t) \/ TestEmpty(t) \/ FallAsleep(t) \/ SpuriousWakeup(t) \/ Finalize(t)
      PROVE  DriftInv'
  BY <1>0, <1>7 DEF TakeFrame, TestEmpty, FallAsleep, SpuriousWakeup, Finalize
<1>8. CASE UNCHANGED vars
  BY <1>0, <1>8 DEF vars
<1>9. QED
  BY <1>1, <1>2, <1>3, <1>4, <1>5, <1>6, <1>7, <1>8 DEF Next, MainStep, RenderStep, EncoderStep

LEMMA DriftSafe == TypeOK /\ CapturedInv /\ DriftInv => DriftIsBounded
<1> SUFFICES ASSUME TypeOK, CapturedInv, DriftInv, NEW s \in Session
             PROVE  lastPts[s] < clock + SlotCount
  BY DEF DriftIsBounded
<1>1. /\ lastCapture \in Int /\ clock \in Int /\ lastCapture <= clock
      /\ lastPts[s] \in Int /\ SlotCount \in Int
  BY SizesAssumption DEF TypeOK, CapturedInv, Capture
<1>2. lastPts[s] + Cardinality(OwedUntil(s, lastCapture)) < lastCapture + SlotCount
  BY <1>1 DEF DriftInv
<1>3. Cardinality(OwedUntil(s, lastCapture)) \in Nat
  <2>1. OwedUntil(s, lastCapture) \subseteq owed[s]
    BY DEF OwedUntil
  <2>2. QED
    BY <2>1, OwedFinite
<1>4. QED
  BY <1>1, <1>2, <1>3

\* If recordings are stopped between captures, the film runs ahead of the clock
\* by less than one tick per slot, in whatever order slots are harvested.
THEOREM DriftBounded == ASSUME ~StopsAnytime PROVE Spec => []DriftIsBounded
<1> DEFINE Inv == ControlInv /\ OwedInv /\ CapturedInv /\ OvertakenInv /\ DriftInv
<1>1. Init => Inv
  <2> SUFFICES ASSUME Init
               PROVE  Inv
    OBVIOUS
  <2>1. ControlInv /\ OwedInv /\ DriftInv
    BY ControlInit, DriftInit DEF Init, OwedInv
  <2>2. \A s \in Session : Elements(queue[s]) = {} /\ Taken(s) = {} /\ InSlots(s) = {}
    BY DEF Init, Elements, Taken, InSlots
  <2>3. CapturedInv
    BY <2>2 DEF Init, CapturedInv, HeldOnce, Held
  <2>4. OvertakenInv
    BY DEF Init, OvertakenInv
  <2>5. QED
    BY <2>1, <2>3, <2>4
<1>2. Inv /\ [Next]_vars => Inv'
  BY ControlStep, OwedStep, CapturedStep, OvertakenStep, DriftStep
<1>3. Inv => DriftIsBounded
  BY DriftSafe DEF ControlInv
<1> HIDE DEF Inv
<1>4. QED
  BY <1>1, <1>2, <1>3, PTL DEF Spec
=============================================================================
