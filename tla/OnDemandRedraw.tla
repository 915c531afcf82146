--------------------------- MODULE OnDemandRedraw ---------------------------
(***************************************************************************)
(* The on-demand rendering of src/src/Core.cpp: the rendering thread       *)
(* sleeps until a redraw is requested, draws as many frames as it owes,    *)
(* and sleeps again (requestRedraw, renderingTask).  The main thread       *)
(* reports the events of the window and follows the swap-chain when the    *)
(* rendering thread recreated it (onNotification, onWindowChanged), it     *)
(* enables and disables scenes, and any thread may change what a frame     *)
(* shows and then request a redraw.                                        *)
(*                                                                         *)
(* One change is followed at a time, from the moment it is made to the     *)
(* moment a frame that has it is presented; a change made meanwhile is a   *)
(* request only.  A frame may fail, and it is taken from the budget all    *)
(* the same: "failed" counts those.  The engine is not paused here:        *)
(* MainLoop has the pause.                                                 *)
(***************************************************************************)
EXTENDS Naturals

CONSTANT N      \* framesInFlight(): the images of the swap-chain

ASSUME NAssumption == N \in Nat \ {0}

VARIABLES
    render,     \* where the rendering thread is in renderingTask()
    handler,    \* where the main thread is in its handlers
    budget,     \* m_pendingFrames: the frames still owed
    running,    \* m_isRenderingLoopRunning
    scene,      \* whether a scene is active: it is then drawn continuously
    change,     \* the followed change: "made", "drawn" in a frame, or "shown"
    asking,     \* a thread made a change and is about to request a redraw
    fits,       \* the swap-chain has the size of the surface
    resized,    \* the window system has a resize event for the main thread
    status,     \* of the swap-chain: "Ready", "Degraded", or "Broken", one
                \* renderFrame() has no image of and does not recreate
    refreshed,  \* m_windowChanged
    overlay,    \* the overlay has the size of the swap-chain
    failed      \* history: frames that failed since the last request, up to N

window == <<fits, resized, status, refreshed, overlay>>
content == <<change, asking>>
debt == <<budget, failed>>
redrawVars ==
    <<render, handler, debt, running, scene, content, window>>

RenderPlaces ==
    {"test", "gate", "budget", "falling", "asleep", "woken", "enter", "draw",
     "recreate", "consume", "take", "done"}

\* The rendering thread holds the active scene for sharing.
InFrame == render \in {"draw", "recreate"}

RedrawInit ==
    /\ render = "test"
    /\ handler = "loop"
    /\ budget = 0
    /\ running = TRUE
    /\ scene = FALSE
    /\ change = "shown"
    /\ asking = FALSE
    /\ fits = TRUE
    /\ resized = FALSE
    /\ status = "Ready"
    /\ refreshed = FALSE
    /\ overlay = TRUE
    /\ failed = 0

(***************************************************************************)
(* requestRedraw(): one frame for each image, stored under the mutex the   *)
(* rendering thread keeps from its test of the budget to its sleep.        *)
(***************************************************************************)
\* Mutant of Owed: a frame per request.
OwedOne == 1

Owed == N

\* Mutant of Unlocked: the budget is stored without the mutex.
UnlockedAlways == TRUE

Unlocked == render # "falling"

Notified == IF render = "asleep" THEN "woken" ELSE render

RequestRedraw ==
    /\ Unlocked
    /\ budget' = Owed
    /\ failed' = 0
    /\ render' = Notified

(***************************************************************************)
(* Any thread: the content of a frame changes, then a redraw is requested. *)
(***************************************************************************)
Change ==
    /\ change = "shown"
    /\ ~ asking
    /\ change' = "made"
    /\ asking' = TRUE
    /\ UNCHANGED <<render, handler, debt, running, scene, window>>

Ask ==
    /\ asking
    /\ asking' = FALSE
    /\ RequestRedraw
    /\ UNCHANGED <<handler, running, scene, change, window>>

\* A request for another change, or because the window is visible again.
AskAgain ==
    /\ RequestRedraw
    /\ UNCHANGED <<handler, running, scene, content, window>>

(***************************************************************************)
(* The main thread.                                                        *)
(***************************************************************************)
\* Enabling or disabling a scene notifies while it holds the active scene.
SwitchScene ==
    /\ handler = "loop"
    /\ ~ InFrame
    /\ scene' = ~ scene
    /\ change' = "made"
    /\ RequestRedraw
    /\ UNCHANGED <<handler, running, asking, window>>

\* The window system resizes the surface...
Resize ==
    /\ fits' = FALSE
    /\ resized' = TRUE
    /\ UNCHANGED <<render, handler, debt, running, scene, content, status,
                   refreshed, overlay>>

\* ...and the event goes to Core, the first observer of the window...
FramebufferResized ==
    /\ handler = "loop"
    /\ resized
    /\ resized' = FALSE
    /\ handler' = "notifying"
    /\ RequestRedraw
    /\ UNCHANGED <<running, scene, content, fits, status, refreshed, overlay>>

\* ...then to the renderer.
SetDegraded ==
    /\ handler = "notifying"
    /\ handler' = "loop"
    /\ status' = "Degraded"
    /\ UNCHANGED <<render, debt, running, scene, content, fits, resized,
                   refreshed, overlay>>

\* onWindowChanged(): the overlay takes the size of the swap-chain...
WindowChanged ==
    /\ handler = "loop"
    /\ refreshed
    /\ overlay' = TRUE
    /\ handler' = "following"
    /\ UNCHANGED <<render, debt, running, scene, content, fits, resized,
                   status, refreshed>>

\* ...the flag is lowered...
LowerFlag ==
    /\ handler = "following"
    /\ refreshed' = FALSE
    /\ handler' = "followed"
    /\ UNCHANGED <<render, debt, running, scene, content, fits, resized,
                   status, overlay>>

\* ...and the new framebuffer is to be painted.
\* Mutant of RedrawFollowed: the last request is forgotten.
RedrawForgotten ==
    /\ handler = "followed"
    /\ handler' = "loop"
    /\ UNCHANGED <<render, debt, running, scene, content, window>>

RedrawFollowed ==
    /\ handler = "followed"
    /\ handler' = "loop"
    /\ RequestRedraw
    /\ UNCHANGED <<running, scene, content, window>>

\* stop() notifies without the mutex.
StopRendering ==
    /\ handler = "loop"
    /\ running
    /\ running' = FALSE
    /\ render' = Notified
    /\ UNCHANGED <<handler, debt, scene, content, window>>

(***************************************************************************)
(* The rendering thread: the gate.                                         *)
(***************************************************************************)
Goes(from, to) ==
    /\ render = from
    /\ render' = to
    /\ UNCHANGED <<handler, running, scene, asking>>

Test ==
    /\ Goes("test", IF running THEN "gate" ELSE "done")
    /\ UNCHANGED <<debt, change, window>>

Gate ==
    /\ Goes("gate", IF scene THEN "enter" ELSE "budget")
    /\ UNCHANGED <<debt, change, window>>

\* Under the mutex; the predicate of the wait is tested before the wait.
TestBudget ==
    /\ Goes("budget",
            CASE budget > 0 -> "enter"
              [] budget = 0 /\ running -> "falling"
              [] OTHER -> "test")
    /\ UNCHANGED <<debt, change, window>>

FallAsleep ==
    /\ Goes("falling", "asleep")
    /\ UNCHANGED <<debt, change, window>>

\* Mutant of SafetyTimeout: a wait without a timeout.
SafetyTimeoutNone == FALSE

SafetyTimeout ==
    /\ Goes("asleep", "woken")
    /\ UNCHANGED <<debt, change, window>>

Wake ==
    /\ Goes("woken", IF budget > 0 THEN "enter" ELSE "test")
    /\ UNCHANGED <<debt, change, window>>

(***************************************************************************)
(* The rendering thread: a frame.  renderFrame() recreates a degraded      *)
(* swap-chain, has no image of one that does not fit or is broken, or      *)
(* draws.                                                                  *)
(***************************************************************************)
\* What is drawn in a frame that fails is not shown.
Lost(c) == IF c = "drawn" THEN "made" ELSE c

FrameFails ==
    /\ failed' = IF failed < N THEN failed + 1 ELSE failed
    /\ change' = Lost(change)
    /\ UNCHANGED budget

Draw ==
    /\ Goes("enter", "draw")
    /\ status = "Ready"
    /\ fits
    /\ change' = IF change = "made" THEN "drawn" ELSE change
    /\ UNCHANGED <<debt, window>>

OutOfDate ==
    /\ Goes("enter", "consume")
    /\ status = "Ready"
    /\ ~ fits
    /\ status' = "Degraded"
    /\ UNCHANGED <<debt, change, fits, resized, refreshed, overlay>>

\* A time-out or an error, which may break the swap-chain.
NoImage ==
    /\ Goes("enter", "consume")
    /\ status # "Degraded"
    /\ status' \in {status, "Broken"}
    /\ FrameFails
    /\ UNCHANGED <<fits, resized, refreshed, overlay>>

\* The properties of the surface are unknown: nothing was begun.
SurfaceUnknown ==
    /\ Goes("enter", "consume")
    /\ status = "Degraded"
    /\ FrameFails
    /\ UNCHANGED window

Recreate ==
    /\ Goes("enter", "recreate")
    /\ status = "Degraded"
    /\ status' = "Broken"
    /\ fits' = TRUE
    /\ overlay' = FALSE
    /\ UNCHANGED <<debt, change, resized, refreshed>>

\* The status becomes Ready whatever was reported meanwhile.
Recreated ==
    /\ Goes("recreate", "consume")
    /\ status' = "Ready"
    /\ refreshed' = TRUE
    /\ UNCHANGED <<debt, change, fits, resized, overlay>>

\* renderFrame() returns without a word to Core: the flag stays as it is.
RecreateFails ==
    /\ Goes("recreate", "consume")
    /\ fits' = FALSE
    /\ FrameFails
    /\ UNCHANGED <<resized, status, refreshed, overlay>>

Present ==
    /\ Goes("draw", "consume")
    /\ change' = IF change = "drawn" THEN "shown" ELSE change
    /\ UNCHANGED <<debt, window>>

\* The frame is abandoned, or its image is refused by the present.
Abandon ==
    /\ Goes("draw", "consume")
    /\ status' \in {"Degraded", "Broken"}
    /\ FrameFails
    /\ UNCHANGED <<fits, resized, refreshed, overlay>>

Consume ==
    /\ Goes("consume", IF budget > 0 THEN "take" ELSE "test")
    /\ UNCHANGED <<debt, change, window>>

Take ==
    /\ Goes("take", "test")
    /\ budget' = budget - 1
    /\ UNCHANGED <<failed, change, window>>

(***************************************************************************)
(* The specification.                                                      *)
(***************************************************************************)
Client == Change \/ Ask \/ AskAgain

Main ==
    SwitchScene \/ FramebufferResized \/ SetDegraded \/ WindowChanged
    \/ LowerFlag \/ RedrawFollowed \/ StopRendering

RenderStep ==
    Test \/ Gate \/ TestBudget \/ FallAsleep \/ Wake \/ Draw \/ OutOfDate
    \/ NoImage \/ SurfaceUnknown \/ Recreate \/ Recreated \/ RecreateFails
    \/ Present \/ Abandon \/ Consume \/ Take

RedrawNext == Client \/ Main \/ Resize \/ RenderStep \/ SafetyTimeout

RedrawSpec == RedrawInit /\ [][RedrawNext]_redrawVars

\* The rendering thread runs and its waits end; the main thread returns from
\* a handler and, its waits being bounded, handles the events and the flag; a
\* thread that made a change requests the redraw.
FairRedrawSpec ==
    /\ RedrawSpec
    /\ WF_redrawVars(RenderStep)
    /\ WF_redrawVars(SafetyTimeout)
    /\ SF_redrawVars(FramebufferResized)
    /\ WF_redrawVars(SetDegraded)
    /\ WF_redrawVars(WindowChanged)
    /\ WF_redrawVars(LowerFlag)
    /\ SF_redrawVars(RedrawFollowed)
    /\ SF_redrawVars(Ask)

-----------------------------------------------------------------------------
RedrawTypeOK ==
    /\ render \in RenderPlaces
    /\ handler \in {"loop", "notifying", "following", "followed"}
    /\ budget \in 0 .. N
    /\ change \in {"made", "drawn", "shown"}
    /\ running \in BOOLEAN
    /\ scene \in BOOLEAN
    /\ asking \in BOOLEAN
    /\ fits \in BOOLEAN
    /\ resized \in BOOLEAN
    /\ refreshed \in BOOLEAN
    /\ overlay \in BOOLEAN
    /\ status \in {"Ready", "Degraded", "Broken"}
    /\ failed \in 0 .. N

(***************************************************************************)
(* The rendering thread never sleeps on frames it owes: requestRedraw()    *)
(* stores "under the same mutex the rendering thread waits on, to close    *)
(* the lost-wakeup window" (Core.cpp:202-203).                             *)
(***************************************************************************)
NoLostWakeup == render = "asleep" => budget = 0

(***************************************************************************)
(* What is not on the screen yet, a change or a surface that the           *)
(* swap-chain does not fit, is either about to be requested, or owed       *)
(* enough frames, after the one in progress has taken its own: each that   *)
(* failed since the last request has cost one, and no more.  A surface     *)
(* that was not reported takes two: one finds it out, one recreates.       *)
(***************************************************************************)
Behind == change = "made" \/ ~ fits

AboutToRequest ==
    \/ asking \/ resized \/ refreshed
    \/ handler \in {"following", "followed"}
    \/ render = "recreate"

InProgress == IF render \in {"draw", "consume", "take"} THEN 1 ELSE 0

FramesNeeded == IF ~ fits /\ status = "Ready" THEN 2 ELSE 1

NothingForgotten ==
    Behind /\ ~ scene /\ ~ AboutToRequest =>
        budget + failed >= FramesNeeded + InProgress

(***************************************************************************)
(* Once the window is left alone, a change is shown, whatever frame was in *)
(* progress, unless the engine stops or a frame requested for it fails:    *)
(* nothing asks for another in its place.                                  *)
(***************************************************************************)
Settled == <>[] ~ resized

Excused == ~ running \/ failed > 0

ChangeIsShown ==
    Settled => (change # "shown" ~> change = "shown" \/ Excused)

(***************************************************************************)
(* stop() ends the rendering thread, although it lowers the flag and       *)
(* notifies without the mutex.                                             *)
(***************************************************************************)
RenderingEnds == ~ running ~> render = "done"

-----------------------------------------------------------------------------
(***************************************************************************)
(* What the comments of the code say of it.                                *)
(***************************************************************************)

(***************************************************************************)
(* Core.cpp:2105-2109, of a resize: the request is there so that the       *)
(* rendering thread "processes the resize".  The surface is followed.      *)
(***************************************************************************)
SurfaceIsFollowed ==
    Settled => (~ fits ~> fits \/ Excused)

(***************************************************************************)
(* Core.cpp:2158: "If the swap-chain has been refreshed, we refresh the    *)
(* application according to the new framebuffer."                          *)
(***************************************************************************)
OverlayIsResized ==
    Settled => (~ overlay ~> overlay \/ Excused)
=============================================================================
