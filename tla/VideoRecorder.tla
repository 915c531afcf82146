--------------------------- MODULE VideoRecorder ---------------------------
(***************************************************************************)
(* The video recorder (Graphics/Recorder.cpp), on its software path.  The  *)
(* rendering thread has the device copy images of the swap-chain into      *)
(* readback slots, and moves what was copied to the queue of the current   *)
(* session; a thread of the session encodes it.  The main thread starts    *)
(* and stops recordings; a stopped session goes on encoding what is left.  *)
(*                                                                         *)
(* Time is in ticks of the frame rate of the film.  A capture is the tick  *)
(* it was taken at: only one is taken per tick.                            *)
(***************************************************************************)
EXTENDS Integers, Sequences, FiniteSets

CONSTANTS
    SlotCount,      \* the readback slots, AsyncBufferCount
    MaxQueued,      \* m_maxQueuedFrames
    SessionCount,   \* the bound on the recordings
    LastTick,       \* the bound on time
    SubmitFails,    \* whether a submission of a copy may fail
    StopsAnytime    \* whether the main thread may stop inside of a capture

ASSUME SizesAssumption ==
    /\ SlotCount \in Nat \ {0}
    /\ MaxQueued \in Nat \ {0}
    /\ SessionCount \in Nat
    /\ LastTick \in Nat

ASSUME ChoicesAssumption == SubmitFails \in BOOLEAN /\ StopsAnytime \in BOOLEAN

Slot == 0..SlotCount - 1
Session == 1..SessionCount
NoSession == 0
Capture == 0..LastTick

VARIABLES
    clock,          \* the present tick
    lastCapture,    \* m_lastCaptureTime
    recording,      \* m_isRecording
    session,        \* m_currentSession
    fence,          \* of each slot: "signaled", "submitted", or "reset" and not submitted
    pending,        \* the slots with a copy that is not harvested
    copy,           \* the capture in each slot
    queue,          \* frameQueue of each session
    running,        \* the sessions with threadRunning
    encoder,        \* the place of the thread of each session
    inHand,         \* the frame it took
    lastPts,        \* lastEncodedPts
    render,         \* the place of the rendering thread
    renderAt,       \* the slot it is at
    main,           \* the place of the main thread
    mainAt,         \* the slot it is at
    leaving,        \* the service is terminated after that
    \* History:
    owed,           \* the captures of each session that are not encoded nor refused
    unheard         \* the sessions whose last notification found no one waiting

time == <<clock, lastCapture>>
slots == <<fence, pending, copy>>
encoding == <<inHand, lastPts, owed>>
rendering == <<render, renderAt>>
control == <<recording, session, running, main, mainAt, leaving, unheard>>
vars == <<time, slots, queue, encoder, encoding, rendering, control>>

Init ==
    /\ clock = 0
    /\ lastCapture = 0
    /\ recording = FALSE
    /\ session = NoSession
    /\ fence = [i \in Slot |-> "signaled"]
    /\ pending = {}
    /\ copy = [i \in Slot |-> 0]
    /\ queue = [s \in Session |-> <<>>]
    /\ running = {}
    /\ encoder = [s \in Session |-> "none"]
    /\ inHand = [s \in Session |-> 0]
    /\ lastPts = [s \in Session |-> -1]
    /\ render = "idle"
    /\ renderAt = 0
    /\ main = "idle"
    /\ mainAt = 0
    /\ leaving = FALSE
    /\ owed = [s \in Session |-> {}]
    /\ unheard = {}

\* Films are timed from the start of their recording: the time between two
\* recordings does not count.
Tick ==
    /\ recording
    /\ clock < LastTick
    /\ clock' = clock + 1
    /\ UNCHANGED <<lastCapture, slots, queue, encoder, encoding, rendering, control>>

(***************************************************************************)
(* What is shared by the threads of a session: the queue under its mutex,  *)
(* and its condition.  A thread has the mutex from the test of the         *)
(* condition to the wait that gives it back.                               *)
(***************************************************************************)
Unlocked(s) == encoder[s] # "dozing"

\* Mutant: no notification.
NotifiedNot(s) == encoder

Notified(s) == [encoder EXCEPT ![s] = IF @ = "asleep" THEN "testing" ELSE @]

\* harvestReadback() of a slot whose copy ended.
Harvest(i) ==
    /\ fence[i] = "signaled"
    /\ Unlocked(session)
    /\ queue' = [queue EXCEPT ![session] = Append(@, copy[i])]
    /\ encoder' = Notified(session)
    /\ pending' = pending \ {i}
    /\ UNCHANGED <<fence, copy>>

CopyOnDevice(i) ==
    /\ fence[i] = "submitted"
    /\ \A j \in Slot : fence[j] = "submitted" => copy[i] <= copy[j]
    /\ fence' = [fence EXCEPT ![i] = "signaled"]
    /\ UNCHANGED <<time, pending, copy, queue, encoder, encoding, rendering, control>>

(***************************************************************************)
(* The rendering thread, after a frame.                                    *)
(***************************************************************************)
\* Mutant: m_lastCaptureTime is not kept.
DueAgain == clock >= lastCapture

Due == clock > lastCapture

ShouldCaptureFrame ==
    /\ render = "idle"
    /\ recording
    /\ Due
    /\ render' = "entered"
    /\ UNCHANGED <<time, slots, queue, encoder, encoding, renderAt, control>>

\* Mutant: one too many.
QueueFullLater == Len(queue[session]) > MaxQueued

QueueFull == Len(queue[session]) >= MaxQueued

TestBackpressure ==
    /\ render = "entered"
    /\ session # NoSession
    /\ Unlocked(session)
    /\ render' = IF QueueFull THEN "idle" ELSE "harvesting"
    /\ UNCHANGED <<time, slots, queue, encoder, encoding, renderAt, control>>

RenderHarvest ==
    /\ render = "harvesting"
    /\ renderAt \in Slot
    /\ session # NoSession
    /\ \/ renderAt \in pending /\ Harvest(renderAt)
       \/ /\ renderAt \notin pending \/ fence[renderAt] # "signaled"
          /\ UNCHANGED <<queue, encoder, slots>>
    /\ renderAt' = renderAt + 1
    /\ UNCHANGED <<time, encoding, render, control>>

FirstFree(i) == i \notin pending /\ \A j \in Slot \ pending : i <= j

\* Without a free slot, or an image, nothing is captured.
SubmitGPUCopy ==
    /\ render = "harvesting"
    /\ renderAt = SlotCount
    /\ session # NoSession
    /\ render' = "idle"
    /\ renderAt' = 0
    /\ \/ \E i \in Slot :
            /\ FirstFree(i)
            /\ fence' = [fence EXCEPT ![i] = "submitted"]
            /\ copy' = [copy EXCEPT ![i] = clock]
            /\ pending' = pending \cup {i}
            /\ lastCapture' = clock
            /\ owed' = [owed EXCEPT ![session] = @ \cup {clock}]
       \/ \E i \in Slot :
            /\ FirstFree(i)
            /\ SubmitFails
            /\ fence' = [fence EXCEPT ![i] = "reset"]
            /\ UNCHANGED <<pending, copy, lastCapture, owed>>
       \/ UNCHANGED <<slots, lastCapture, owed>>
    /\ UNCHANGED <<clock, queue, encoder, inHand, lastPts, control>>

(***************************************************************************)
(* The main thread.                                                        *)
(***************************************************************************)
Opened == {s \in Session : encoder[s] # "none"}

StartRecording ==
    /\ main = "idle"
    /\ ~leaving
    /\ ~recording
    /\ \E s \in Session \ Opened :
        /\ \A t \in Session \ Opened : s <= t
        /\ session' = s
        /\ running' = running \cup {s}
        /\ encoder' = [encoder EXCEPT ![s] = "testing"]
    /\ lastCapture' = clock
    /\ recording' = TRUE
    /\ UNCHANGED <<clock, slots, queue, encoding, rendering, main, mainAt, leaving, unheard>>

BeginStop ==
    /\ recording' = FALSE
    /\ main' = "harvesting"
    /\ UNCHANGED <<time, slots, queue, encoder, encoding, rendering, session, running, mainAt, unheard>>

StopRecording ==
    /\ main = "idle"
    /\ recording
    /\ StopsAnytime \/ render = "idle"
    /\ BeginStop
    /\ UNCHANGED leaving

\* The rendering thread is over when services are terminated.
OnTerminate ==
    /\ main = "idle"
    /\ render = "idle"
    /\ ~leaving
    /\ leaving' = TRUE
    /\ \/ recording /\ BeginStop
       \/ /\ ~recording
          /\ main' = "joining"
          /\ UNCHANGED <<time, slots, queue, encoder, encoding, rendering, recording, session,
                         running, mainAt, unheard>>

\* It waits for the copy of a slot that is pending.
StopHarvest ==
    /\ main = "harvesting"
    /\ mainAt \in Slot
    /\ IF mainAt \in pending THEN Harvest(mainAt) ELSE UNCHANGED <<queue, encoder, slots>>
    /\ mainAt' = mainAt + 1
    /\ UNCHANGED <<time, encoding, rendering, recording, session, running, main, leaving,
                   unheard>>

Idle(i) == fence[i] = "signaled"

DestroyAsyncResources ==
    /\ main = "harvesting"
    /\ mainAt = SlotCount
    /\ \A i \in Slot : Idle(i)
    /\ pending' = {}
    /\ main' = "signaling"
    /\ mainAt' = 0
    /\ UNCHANGED <<time, fence, copy, queue, encoder, encoding, rendering, recording, session,
                   running, leaving, unheard>>

\* threadRunning is lowered without the mutex of the queue.
LowerRunning ==
    /\ main = "signaling"
    /\ running' = running \ {session}
    /\ main' = "notifying"
    /\ UNCHANGED <<time, slots, queue, encoder, encoding, rendering, recording, session, mainAt,
                   leaving, unheard>>

DetachSession ==
    /\ main = "notifying"
    /\ encoder' = Notified(session)
    /\ unheard' = IF Unlocked(session) THEN unheard ELSE unheard \cup {session}
    /\ session' = NoSession
    /\ main' = IF leaving THEN "joining" ELSE "idle"
    /\ UNCHANGED <<time, slots, queue, encoding, rendering, recording, running, mainAt, leaving>>

Join ==
    /\ main = "joining"
    /\ \A s \in Opened : encoder[s] = "done"
    /\ main' = "ended"
    /\ UNCHANGED <<time, slots, queue, encoder, encoding, rendering, recording, session, running,
                   mainAt, leaving, unheard>>

(***************************************************************************)
(* The thread of a session.                                                *)
(***************************************************************************)
TakeFrame(s) ==
    /\ encoder[s] = "testing"
    /\ queue[s] # <<>>
    /\ inHand' = [inHand EXCEPT ![s] = Head(queue[s])]
    /\ queue' = [queue EXCEPT ![s] = Tail(@)]
    /\ encoder' = [encoder EXCEPT ![s] = "encoding"]
    /\ UNCHANGED <<time, slots, lastPts, owed, rendering, control>>

\* Mutant: the thread ends with the flag, whatever is queued.
DrainedOrStopped(s) == queue[s] = <<>> \/ s \notin running

Drained(s) == queue[s] = <<>>

TestEmpty(s) ==
    /\ encoder[s] = "testing"
    /\ Drained(s)
    /\ encoder' = [encoder EXCEPT ![s] = IF s \in running THEN "dozing" ELSE "finalizing"]
    /\ UNCHANGED <<time, slots, queue, encoding, rendering, control>>

FallAsleep(s) ==
    /\ encoder[s] = "dozing"
    /\ encoder' = [encoder EXCEPT ![s] = "asleep"]
    /\ UNCHANGED <<time, slots, queue, encoding, rendering, control>>

SpuriousWakeup(s) ==
    /\ encoder[s] = "asleep"
    /\ encoder' = [encoder EXCEPT ![s] = "testing"]
    /\ UNCHANGED <<time, slots, queue, encoding, rendering, control>>

Pts(s) == IF inHand[s] <= lastPts[s] THEN lastPts[s] + 1 ELSE inHand[s]

\* The ticks since the last picture are filled with copies of it, until the
\* codec refuses one; then it may refuse the image itself.
Filled(s) == IF lastPts[s] >= 0 THEN lastPts[s]..Pts(s) - 1 ELSE {lastPts[s]}

EncodeImage(s) ==
    /\ encoder[s] = "encoding"
    /\ \E p \in Filled(s) \cup {Pts(s)} : lastPts' = [lastPts EXCEPT ![s] = p]
    /\ owed' = [owed EXCEPT ![s] = @ \ {inHand[s]}]
    /\ inHand' = [inHand EXCEPT ![s] = 0]
    /\ encoder' = [encoder EXCEPT ![s] = "testing"]
    /\ UNCHANGED <<time, slots, queue, rendering, control>>

\* What the codec still holds for its lookahead, which is flushed into the file
\* here, is not represented: an image handed to the codec counts as encoded.
Finalize(s) ==
    /\ encoder[s] = "finalizing"
    /\ encoder' = [encoder EXCEPT ![s] = "done"]
    /\ queue' = [queue EXCEPT ![s] = <<>>]
    /\ UNCHANGED <<time, slots, encoding, rendering, control>>

RenderStep == ShouldCaptureFrame \/ TestBackpressure \/ RenderHarvest \/ SubmitGPUCopy

MainStep == StopHarvest \/ DestroyAsyncResources \/ LowerRunning \/ DetachSession \/ Join

EncoderStep(s) == TakeFrame(s) \/ TestEmpty(s) \/ FallAsleep(s) \/ EncodeImage(s) \/ Finalize(s)

Next ==
    \/ Tick
    \/ \E i \in Slot : CopyOnDevice(i)
    \/ RenderStep
    \/ StartRecording \/ StopRecording \/ OnTerminate
    \/ MainStep
    \/ \E s \in Session : EncoderStep(s) \/ SpuriousWakeup(s)

Spec == Init /\ [][Next]_vars

\* The threads go on, and submitted copies end; the main thread gets the
\* mutex it competes for.  Nobody has to capture, start or stop anything, and
\* the time may stand still.
Fairness ==
    /\ \A i \in Slot : WF_vars(CopyOnDevice(i))
    /\ WF_vars(MainStep) /\ SF_vars(StopHarvest)
    /\ \A s \in Session : WF_vars(EncoderStep(s))

FairSpec == Spec /\ Fairness

(***************************************************************************)
(* Properties.                                                             *)
(***************************************************************************)

EncoderPlace == {"none", "testing", "dozing", "asleep", "encoding", "finalizing", "done"}

\* The statuses, places and frames have their types.
TypeOK ==
    /\ clock \in Capture /\ lastCapture \in Capture
    /\ recording \in BOOLEAN /\ leaving \in BOOLEAN
    /\ session \in Session \cup {NoSession}
    /\ fence \in [Slot -> {"signaled", "submitted", "reset"}]
    /\ pending \in SUBSET Slot
    /\ copy \in [Slot -> Capture]
    /\ queue \in [Session -> Seq(Capture)]
    /\ running \in SUBSET Session /\ unheard \in SUBSET Session
    /\ encoder \in [Session -> EncoderPlace]
    /\ inHand \in [Session -> Capture]
    /\ lastPts \in [Session -> Int]
    /\ render \in {"idle", "entered", "harvesting"}
    /\ main \in {"idle", "harvesting", "signaling", "notifying", "joining", "ended"}
    /\ renderAt \in 0..SlotCount /\ mainAt \in 0..SlotCount
    /\ owed \in [Session -> SUBSET Capture]

\* The grab buffer is bounded (Recorder.hpp:87-88), though the bound is only
\* tested before the slots are harvested, and not at all by a stop: what is
\* queued and what may still be is never more than the bound and all slots.
GrabBufferBounded ==
    session # NoSession =>
        Len(queue[session]) + Cardinality(pending) <= MaxQueued + SlotCount

\* A file that is finished has every image that was captured, those whose
\* copy was on the device at the stop included, unless the codec refused it.
FileIsComplete ==
    \A s \in Session : encoder[s] = "done" => owed[s] = {}

\* The film never runs ahead of the clock by more than the images that the
\* slots may hold back, although slots are not harvested in the order of
\* their captures and each late image takes a tick of its own.
DriftIsBounded ==
    \A s \in Session : lastPts[s] < clock + SlotCount

\* What keeps a stop from its end: the thread of the session missed the
\* notification, or the fence of a copy that was not submitted is waited for.
Stuck(s) == s \in unheard \/ \E i \in Slot : fence[i] = "reset"

Stopped(s) == encoder[s] # "none" /\ ~(recording /\ s = session)

\* A stopped session finishes its file, unless the stop is stuck.
RecordingEnds == \A s \in Session : Stopped(s) ~> (encoder[s] = "done" \/ Stuck(s))

\* "Once detached from the Recorder, it autonomously drains remaining frames,
\* flushes the codec, patches the IVF header" (Recorder.hpp:403-404).  It is
\* not so when the stop comes between the test and the wait of the thread.
FileIsFinished == \A s \in Session : Stopped(s) ~> encoder[s] = "done"

\* The recording is "main thread only" (Recorder.hpp:507), but captures are the
\* rendering thread's.  Not so if a stop may come inside of a capture.
CaptureHasSession == render # "idle" => session # NoSession

\* The "timeline never drifts" (Recorder.cpp:541-542).  Not so when slots are
\* harvested in another order than they were captured.
NeverAhead == \A s \in Session : lastPts[s] <= clock

\* Each image is at the tick of its capture, and so in the order of the
\* captures.  Not so, for the same reason.
OnTime == \A s \in Session : encoder[s] = "encoding" => Pts(s) = inHand[s]
=============================================================================
