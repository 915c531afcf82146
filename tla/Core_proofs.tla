----------------------------- MODULE Core_proofs -----------------------------
(***************************************************************************)
(* What is proved of the threads of src/src/Core.cpp: of MainLoop, then of *)
(* OnDemandRedraw for every number of images.                              *)
(***************************************************************************)
EXTENDS MainLoop, OnDemandRedraw, TLAPS

(***************************************************************************)
(* A request keeps its deadline until the cycle that serves it: a deadline *)
(* is removed just before the application is called, and only the one that *)
(* was read as due.                                                        *)
(***************************************************************************)
DeadlineInv ==
    /\ wanted \in {"none", "later", "due"}
    /\ main # "call" /\ wanted # "none" => scheduled # "none"
    /\ wanted = "later" => scheduled = "later"
    /\ main = "clear" /\ read = "due" => wanted # "later"

RequestInv == DeadlineInv /\ NoRequestSleptOn

LEMMA RequestInit == Init => RequestInv
BY DEF Init, RequestInv, DeadlineInv, NoRequestSleptOn

LEMMA RequestStep == RequestInv /\ [Next]_vars => RequestInv'
<1> SUFFICES ASSUME RequestInv, [Next]_vars
             PROVE  RequestInv'
  OBVIOUS
<1> USE DEF RequestInv, DeadlineInv, NoRequestSleptOn
<1>1. ASSUME NEW t \in Task, TaskStep(t)
      PROVE  RequestInv'
  BY <1>1 DEF TaskStep, TestTask, LockShared, UnlockShared, flow, requests
<1>2. CASE ScheduleNow
  BY <1>2 DEF ScheduleNow, flow
<1>3. CASE WakeUp
  BY <1>3 DEF WakeUp, flow
<1>4. CASE ScheduleLater
  BY <1>4 DEF ScheduleLater, flow
<1>5. CASE TimePasses
  BY <1>5 DEF TimePasses, Later, flow
<1>6. CASE Event
  BY <1>6 DEF Event, Pause, Resume, Stop, Handling, flow, requests
<1>7. CASE TestLoop \/ CheckRenderer \/ TestPause \/ LockExclusive \/ Join
  BY <1>7 DEF TestLoop, CheckRenderer, TestPause, LockExclusive, Join, requests
<1>8. CASE BeginWait \/ EndWait
  BY <1>8 DEF BeginWait, EndWait, requests
<1>9. CASE BeginCycle
  BY <1>9 DEF BeginCycle
<1>10. CASE ClearRequest
  BY <1>10 DEF ClearRequest, Remaining
<1>11. CASE RunCycle
  BY <1>11 DEF RunCycle
<1>12. CASE UNCHANGED vars
  BY <1>12 DEF vars, flow, requests
<1>13. QED
  BY <1>1, <1>2, <1>3, <1>4, <1>5, <1>6, <1>7, <1>8, <1>9, <1>10, <1>11,
     <1>12 DEF Next, Request, MainStep

(***************************************************************************)
(* Whatever the threads ask for and when, the main thread does not sleep   *)
(* on a request it could have seen.                                        *)
(***************************************************************************)
THEOREM RequestsSafe == Spec => []NoRequestSleptOn
<1>1. RequestInv => NoRequestSleptOn
  BY DEF RequestInv
<1>2. QED
  BY <1>1, RequestInit, RequestStep, PTL DEF Spec

-----------------------------------------------------------------------------
(***************************************************************************)
(* The places and times, which SMT handles, and the flags, which Zenon     *)
(* does.                                                                   *)
(***************************************************************************)
PlacesInv ==
    /\ loops \in SUBSET ({"main"} \union Task)
    /\ place \in [Task -> {"test", "enter", "scene", "done"}]
    /\ main \in {"test", "bound", "wait", "window", "cycle", "clear", "call",
                 "pause", "lock", "join", "done"}
    /\ scheduled \in {"none", "later", "due"}
    /\ read \in {"none", "later", "due"}
    /\ wanted \in {"none", "later", "due"}

FlagsInv ==
    /\ paused \in BOOLEAN
    /\ inPause \in BOOLEAN
    /\ timed \in BOOLEAN
    /\ posted \in BOOLEAN
    /\ waking \in BOOLEAN
    /\ unseen \in BOOLEAN

LEMMA PlacesStep == PlacesInv /\ [Next]_vars => PlacesInv'
<1> SUFFICES ASSUME PlacesInv, [Next]_vars
             PROVE  PlacesInv'
  OBVIOUS
<1> USE DEF PlacesInv
<1>1. ASSUME NEW t \in Task, TaskStep(t)
      PROVE  PlacesInv'
  BY <1>1 DEF TaskStep, TestTask, LockShared, UnlockShared, flow, requests
<1>2. CASE Request
  BY <1>2 DEF Request, ScheduleNow, WakeUp, ScheduleLater, TimePasses, Later,
              flow
<1>3. CASE Event
  BY <1>3 DEF Event, Pause, Resume, Stop, StillRunning, flow, requests
<1>4. CASE TestLoop \/ BeginWait \/ EndWait \/ CheckRenderer
  BY <1>4 DEF TestLoop, BeginWait, EndWait, CheckRenderer, StillRunning, requests
<1>5. CASE BeginCycle \/ ClearRequest \/ RunCycle
  BY <1>5 DEF BeginCycle, ClearRequest, RunCycle, Remaining
<1>6. CASE TestPause \/ LockExclusive \/ Join
  BY <1>6 DEF TestPause, LockExclusive, Join, requests
<1>7. CASE UNCHANGED vars
  BY <1>7 DEF vars, flow, requests
<1>8. QED
  BY <1>1, <1>2, <1>3, <1>4, <1>5, <1>6, <1>7 DEF Next, MainStep

LEMMA FlagsStep == FlagsInv /\ [Next]_vars => FlagsInv'
<1> SUFFICES ASSUME FlagsInv, [Next]_vars
             PROVE  FlagsInv'
  OBVIOUS
<1> USE DEF FlagsInv
<1>1. ASSUME NEW t \in Task, TaskStep(t)
      PROVE  FlagsInv'
  BY <1>1, Zenon DEF TaskStep, TestTask, LockShared, UnlockShared, flow,
                     requests
<1>2. CASE ScheduleNow \/ WakeUp
  BY <1>2, Zenon DEF ScheduleNow, WakeUp, flow
<1>3. CASE ScheduleLater \/ TimePasses
  BY <1>3, Zenon DEF ScheduleLater, TimePasses, flow
<1>4. CASE Event
  BY <1>4, Zenon DEF Event, Pause, Resume, Stop, flow, requests
<1>5. CASE TestLoop \/ CheckRenderer
  BY <1>5, Zenon DEF TestLoop, CheckRenderer, requests
<1>6. CASE BeginWait \/ EndWait
  BY <1>6, Zenon DEF BeginWait, EndWait, requests
<1>7. CASE BeginCycle \/ ClearRequest \/ RunCycle
  BY <1>7, Zenon DEF BeginCycle, ClearRequest, RunCycle
<1>8. CASE TestPause \/ LockExclusive \/ Join
  BY <1>8, Zenon DEF TestPause, LockExclusive, Join, requests
<1>9. CASE UNCHANGED vars
  BY <1>9, Zenon DEF vars, flow, requests
<1>10. QED
  BY <1>1, <1>2, <1>3, <1>4, <1>5, <1>6, <1>7, <1>8, <1>9
     DEF Next, Request, MainStep

(***************************************************************************)
(* The threads keep to their places, and the deadline to its values.       *)
(***************************************************************************)
THEOREM TypeCorrect == Spec => []TypeOK
<1>1. Init => PlacesInv /\ FlagsInv
  BY DEF Init, PlacesInv, FlagsInv
<1>2. PlacesInv /\ FlagsInv => TypeOK
  BY DEF PlacesInv, FlagsInv, TypeOK
<1>3. QED
  BY <1>1, <1>2, PlacesStep, FlagsStep, PTL DEF Spec

-----------------------------------------------------------------------------
(* The on-demand rendering. *)

(***************************************************************************)
(* The budget is only taken from by the thread that found it positive, and *)
(* it cannot grow between the test under the mutex and the sleep.          *)
(***************************************************************************)
BudgetInv ==
    /\ render \in RenderPlaces
    /\ budget \in 0 .. N
    /\ failed \in 0 .. N
    /\ render = "take" => budget > 0
    /\ render \in {"falling", "asleep"} => budget = 0

LEMMA BudgetInit == RedrawInit => BudgetInv
BY NAssumption DEF RedrawInit, BudgetInv, RenderPlaces

LEMMA BudgetStep == BudgetInv /\ [RedrawNext]_redrawVars => BudgetInv'
<1> SUFFICES ASSUME BudgetInv, [RedrawNext]_redrawVars
             PROVE  BudgetInv'
  OBVIOUS
<1> USE NAssumption DEF BudgetInv, RenderPlaces, debt
<1>1. ASSUME Client
      PROVE  BudgetInv'
  BY <1>1 DEF Client, Change, Ask, AskAgain, RequestRedraw, Unlocked, Owed,
              Notified
<1>2. ASSUME Main
      PROVE  BudgetInv'
  <2>1. CASE SwitchScene \/ FramebufferResized \/ RedrawFollowed
    BY <2>1 DEF SwitchScene, FramebufferResized, RedrawFollowed,
                RequestRedraw, Unlocked, Owed, Notified
  <2>2. CASE SetDegraded \/ WindowChanged \/ LowerFlag
    BY <2>2 DEF SetDegraded, WindowChanged, LowerFlag
  <2>3. CASE StopRendering
    BY <2>3 DEF StopRendering, Notified
  <2>4. QED
    BY <1>2, <2>1, <2>2, <2>3 DEF Main
<1>3. ASSUME Resize
      PROVE  BudgetInv'
  BY <1>3 DEF Resize
<1>4. ASSUME RenderStep
      PROVE  BudgetInv'
  <2>1. CASE Test \/ Gate \/ TestBudget
    BY <2>1 DEF Test, Gate, TestBudget, Goes
  <2>2. CASE FallAsleep \/ Wake
    BY <2>2 DEF FallAsleep, Wake, Goes
  <2>3. CASE Draw \/ OutOfDate \/ Recreate
    BY <2>3 DEF Draw, OutOfDate, Recreate, Goes
  <2>4. CASE Recreated \/ Present
    BY <2>4 DEF Recreated, Present, Goes
  <2>5. CASE NoImage \/ SurfaceUnknown
    BY <2>5 DEF NoImage, SurfaceUnknown, FrameFails, Goes
  <2>6. CASE RecreateFails \/ Abandon
    BY <2>6 DEF RecreateFails, Abandon, FrameFails, Goes
  <2>7. CASE Consume
    BY <2>7 DEF Consume, Goes
  <2>8. CASE Take
    BY <2>8 DEF Take, Goes
  <2>9. QED
    BY <1>4, <2>1, <2>2, <2>3, <2>4, <2>5, <2>6, <2>7, <2>8 DEF RenderStep
<1>5. ASSUME SafetyTimeout
      PROVE  BudgetInv'
  BY <1>5 DEF SafetyTimeout, Goes
<1>6. CASE UNCHANGED redrawVars
  BY <1>6 DEF redrawVars
<1>7. QED
  BY <1>1, <1>2, <1>3, <1>4, <1>5, <1>6 DEF RedrawNext

LEMMA BudgetAlways == RedrawSpec => []BudgetInv
BY BudgetInit, BudgetStep, PTL DEF RedrawSpec

(***************************************************************************)
(* The flags and the places of the other threads.                          *)
(***************************************************************************)
RedrawFlagsInv ==
    /\ handler \in {"loop", "notifying", "following", "followed"}
    /\ change \in {"made", "drawn", "shown"}
    /\ running \in BOOLEAN
    /\ scene \in BOOLEAN
    /\ asking \in BOOLEAN
    /\ fits \in BOOLEAN
    /\ resized \in BOOLEAN
    /\ status \in {"Ready", "Degraded", "Broken"}
    /\ refreshed \in BOOLEAN
    /\ overlay \in BOOLEAN

LEMMA RedrawFlagsStep ==
    RedrawFlagsInv /\ [RedrawNext]_redrawVars => RedrawFlagsInv'
<1> SUFFICES ASSUME RedrawFlagsInv, [RedrawNext]_redrawVars
             PROVE  RedrawFlagsInv'
  OBVIOUS
<1> USE DEF RedrawFlagsInv
<1>1. CASE Client
  <2>1. CASE Change
    BY <2>1, Zenon DEF Change, window
  <2>2. CASE Ask
    BY <2>2, Zenon DEF Ask, window
  <2>3. CASE AskAgain
    BY <2>3, ZenonT(30) DEF AskAgain, window, content
  <2>4. QED
    BY <1>1, <2>1, <2>2, <2>3 DEF Client
<1>2. CASE SwitchScene
  BY <1>2, Zenon DEF SwitchScene, window
<1>3. CASE FramebufferResized \/ SetDegraded \/ WindowChanged
  <2>1. CASE FramebufferResized
    BY <2>1, Zenon DEF FramebufferResized, content
  <2>2. CASE SetDegraded
    BY <2>2, Zenon DEF SetDegraded, content
  <2>3. CASE WindowChanged
    BY <2>3, Zenon DEF WindowChanged, content
  <2>4. QED
    BY <1>3, <2>1, <2>2, <2>3
<1>4. CASE StopRendering \/ Resize
  BY <1>4, Zenon DEF StopRendering, Resize, window, content
<1>5. CASE LowerFlag
  BY <1>5, Zenon DEF LowerFlag, content
<1>6. CASE RedrawFollowed
  BY <1>6, Zenon DEF RedrawFollowed, window, content
<1>7. CASE Test \/ Gate \/ TestBudget
  BY <1>7, ZenonT(30) DEF Test, Gate, TestBudget, Goes, window
<1>8. CASE FallAsleep \/ Wake \/ SafetyTimeout
  BY <1>8, Zenon DEF FallAsleep, Wake, SafetyTimeout, Goes, window
<1>9. CASE Draw
  BY <1>9, Zenon DEF Draw, Goes, window
<1>10. CASE OutOfDate \/ Recreate \/ Recreated
  BY <1>10, Zenon DEF OutOfDate, Recreate, Recreated, Goes
<1>11. CASE NoImage \/ SurfaceUnknown \/ RecreateFails \/ Present \/ Abandon
  <2>1. CASE NoImage
    BY <2>1, Zenon DEF NoImage, FrameFails, Lost, Goes
  <2>2. CASE SurfaceUnknown
    BY <2>2, Zenon DEF SurfaceUnknown, FrameFails, Lost, Goes, window
  <2>3. CASE RecreateFails
    BY <2>3, Zenon DEF RecreateFails, FrameFails, Lost, Goes
  <2>4. CASE Present
    BY <2>4, Zenon DEF Present, Goes, window
  <2>5. CASE Abandon
    BY <2>5, Zenon DEF Abandon, FrameFails, Lost, Goes
  <2>6. QED
    BY <1>11, <2>1, <2>2, <2>3, <2>4, <2>5
<1>12. CASE Consume \/ Take
  BY <1>12, Zenon DEF Consume, Take, Goes, window
<1>13. CASE UNCHANGED redrawVars
  BY <1>13, ZenonT(30) DEF redrawVars, window, content
<1>14. QED
  BY <1>1, <1>2, <1>3, <1>4, <1>5, <1>6, <1>7, <1>8, <1>9,
     <1>10, <1>11, <1>12, <1>13
     DEF RedrawNext, Main, RenderStep

(***************************************************************************)
(* The budget never drops below zero, and the threads keep to their        *)
(* places.                                                                 *)
(***************************************************************************)
THEOREM RedrawTypeCorrect == RedrawSpec => []RedrawTypeOK
<1>1. RedrawInit => RedrawFlagsInv
  BY Zenon DEF RedrawInit, RedrawFlagsInv
<1>2. BudgetInv /\ RedrawFlagsInv => RedrawTypeOK
  BY DEF BudgetInv, RedrawFlagsInv, RedrawTypeOK
<1>3. QED
  BY <1>1, <1>2, RedrawFlagsStep, BudgetAlways, PTL DEF RedrawSpec

(***************************************************************************)
(* No request is slept on: the mutex closes the lost-wakeup window.        *)
(***************************************************************************)
THEOREM WakeupSafe == RedrawSpec => []NoLostWakeup
<1>1. BudgetInv => NoLostWakeup
  BY DEF BudgetInv, NoLostWakeup
<1>2. QED
  BY <1>1, BudgetAlways, PTL

-----------------------------------------------------------------------------
(***************************************************************************)
(* The frame in progress is one that is owed, unless a scene is active: if *)
(* it fails, it has cost one.                                              *)
(***************************************************************************)
FrameInv ==
    /\ change = "drawn" => render = "draw"
    /\ render = "recreate" => status # "Ready"
    /\ ~ scene /\ render \in {"enter", "draw", "recreate"} => budget > 0

ForgottenInv == BudgetInv /\ FrameInv /\ NothingForgotten

LEMMA ForgottenStep ==
    ASSUME N > 2, ForgottenInv, [RedrawNext]_redrawVars, BudgetInv'
    PROVE  ForgottenInv'
<1> SUFFICES FrameInv' /\ NothingForgotten'
  BY DEF ForgottenInv
<1> USE NAssumption DEF ForgottenInv, BudgetInv, debt
<1> DEFINE Kept == FrameInv' /\ NothingForgotten'
<1>1. ASSUME RequestRedraw, change' = "drawn" => change = "drawn",
             status' = status
      PROVE  Kept
  BY <1>1 DEF RequestRedraw, Unlocked, Owed, Notified, FrameInv,
              NothingForgotten, FramesNeeded, InProgress
<1> USE DEF FrameInv, NothingForgotten, Behind, AboutToRequest, FramesNeeded,
            InProgress
<1>3. CASE Change
  BY <1>3 DEF Change, window
<1>4. CASE \/ Ask \/ AskAgain \/ SwitchScene
           \/ FramebufferResized \/ RedrawFollowed
  BY <1>1, <1>4 DEF Ask, AskAgain, SwitchScene, FramebufferResized,
                    RedrawFollowed, window, content
<1>5. CASE SetDegraded \/ WindowChanged \/ LowerFlag
  <2>1. CASE SetDegraded
    BY <2>1 DEF SetDegraded, content
  <2>2. CASE WindowChanged
    BY <2>2 DEF WindowChanged, content
  <2>3. CASE LowerFlag
    BY <2>3 DEF LowerFlag, content
  <2>4. QED
    BY <1>5, <2>1, <2>2, <2>3
<1>6. CASE StopRendering
  BY <1>6 DEF StopRendering, Notified, window, content
<1>7. CASE Resize
  BY <1>7 DEF Resize, content
<1>8. CASE Test \/ Gate \/ TestBudget \/ FallAsleep \/ Wake \/ SafetyTimeout
  BY <1>8 DEF Test, Gate, TestBudget, FallAsleep, Wake, SafetyTimeout, Goes,
              window
<1>9. CASE Draw
  BY <1>9 DEF Draw, Goes, window
<1>10. CASE OutOfDate
  BY <1>10 DEF OutOfDate, Goes
<1>11. CASE Recreate \/ Recreated
  BY <1>11 DEF Recreate, Recreated, Goes
<1>12. CASE NoImage \/ SurfaceUnknown \/ RecreateFails \/ Present \/ Abandon
  <2>1. CASE NoImage
    BY <2>1 DEF NoImage, FrameFails, Lost, Goes
  <2>2. CASE SurfaceUnknown
    BY <2>2 DEF SurfaceUnknown, FrameFails, Lost, Goes, window
  <2>3. CASE RecreateFails
    BY <2>3 DEF RecreateFails, FrameFails, Lost, Goes
  <2>4. CASE Present
    BY <2>4 DEF Present, Goes, window
  <2>5. CASE Abandon
    BY <2>5 DEF Abandon, FrameFails, Lost, Goes
  <2>6. QED
    BY <1>12, <2>1, <2>2, <2>3, <2>4, <2>5
<1>13. CASE Consume
  BY <1>13 DEF Consume, Goes, window
<1>14. CASE Take
  BY <1>14 DEF Take, Goes, window
<1>15. CASE UNCHANGED redrawVars
  BY <1>15 DEF redrawVars, window, content
<1>16. QED
  BY <1>3, <1>4, <1>5, <1>6, <1>7, <1>8, <1>9, <1>10, <1>11, <1>12, <1>13,
     <1>14, <1>15 DEF RedrawNext, Client, Main, RenderStep

(***************************************************************************)
(* With a triple-buffered swap-chain or more, what is not on the screen is *)
(* owed enough frames, but for those that failed since the last request,   *)
(* or a thread is about to request them: a recreation that fails and a     *)
(* frame that is abandoned each cost one frame, and nothing asks for       *)
(* another.  With two images it is not so (SurfaceIsFollowed).             *)
(***************************************************************************)
THEOREM Remembered ==
    ASSUME N > 2
    PROVE  RedrawSpec => []NothingForgotten
<1>1. RedrawInit => ForgottenInv
  BY BudgetInit
     DEF RedrawInit, ForgottenInv, FrameInv, NothingForgotten, Behind
<1>2. ForgottenInv /\ [RedrawNext]_redrawVars /\ BudgetInv' => ForgottenInv'
  BY ForgottenStep
<1>3. ForgottenInv => NothingForgotten
  BY DEF ForgottenInv
<1>4. QED
  BY <1>1, <1>2, <1>3, BudgetAlways, PTL DEF RedrawSpec
=============================================================================
