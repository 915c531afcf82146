------------------------------ MODULE MainLoop ------------------------------
(***************************************************************************)
(* The three loops of src/src/Core.cpp: run() on the main thread,          *)
(* logicsTask() and renderingTask() on theirs; how they are paused and     *)
(* stopped, the shared lock of the active scene between them               *)
(* (Scenes/Manager.hpp), and the cycles of the main loop any thread may    *)
(* ask for (scheduleMainLoopCycle).                                        *)
(*                                                                         *)
(* What the main thread does under the exclusive lock is one step here: it *)
(* waits for no other lock in it.  What a frame or a cycle of the logic    *)
(* does under the shared lock is left out.                                 *)
(***************************************************************************)

Task == {"logics", "render"}

VARIABLES
    loops,      \* the loops whose running flag is up
    paused,     \* m_paused
    place,      \* where the two other threads are in their loops
    main,       \* where the main thread is in run()
    inPause,    \* the main thread is past pauseTimers(), before resumeTimers()
    timed,      \* the wait of the main thread has a timeout
    posted,     \* an event is there to end a wait
    scheduled,  \* m_scheduledCycleDueTimeMS: "none", or the time is "later" or "due"
    read,       \* what executeMainLoopCycle() loaded of it, if it is still there
    waking,     \* a thread stored an immediate request and is about to post
    wanted,     \* the last request, until a cycle runs when it is due
    unseen      \* it was made when the main thread was already in a wait
                \* that neither a timeout nor an event was to end

flow == <<main, inPause, timed>>
requests == <<scheduled, read, waking, wanted, unseen>>
vars == <<loops, paused, place, flow, posted, requests>>

Init ==
    /\ loops = {"main"} \union Task
    /\ paused = FALSE
    /\ place = [t \in Task |-> "test"]
    /\ main = "test"
    /\ inPause = FALSE
    /\ timed = TRUE
    /\ posted = FALSE
    /\ scheduled = "none"
    /\ read = "none"
    /\ waking = FALSE
    /\ wanted = "none"
    /\ unseen = FALSE

(***************************************************************************)
(* logicsTask() and renderingTask().  The pause is tested before the lock  *)
(* is taken: a paused thread sleeps without it.                            *)
(***************************************************************************)
\* Mutant of Enters: the pause is tested under the lock.
EntersPaused == TRUE

Enters == ~ paused

TestTask(t) ==
    /\ place[t] = "test"
    /\ \/ t \notin loops /\ place' = [place EXCEPT ![t] = "done"]
       \/ t \in loops /\ Enters /\ place' = [place EXCEPT ![t] = "enter"]
    /\ UNCHANGED <<loops, paused, flow, posted, requests>>

LockShared(t) ==
    /\ place[t] = "enter"
    /\ place' = [place EXCEPT ![t] = "scene"]
    /\ UNCHANGED <<loops, paused, flow, posted, requests>>

UnlockShared(t) ==
    /\ place[t] = "scene"
    /\ place' = [place EXCEPT ![t] = "test"]
    /\ UNCHANGED <<loops, paused, flow, posted, requests>>

(***************************************************************************)
(* scheduleMainLoopCycle(), in any thread: the last request wins.          *)
(***************************************************************************)
ScheduleNow ==
    /\ scheduled' = "due"
    /\ read' = "none"
    /\ waking' = TRUE
    /\ wanted' = "due"
    /\ unseen' = FALSE
    /\ UNCHANGED <<loops, paused, place, flow, posted>>

WakeUp ==
    /\ waking
    /\ waking' = FALSE
    /\ posted' = TRUE
    /\ UNCHANGED <<loops, paused, place, flow, scheduled, read, wanted, unseen>>

ScheduleLater ==
    /\ scheduled' = "later"
    /\ read' = "none"
    /\ wanted' = "later"
    /\ unseen' = (main = "wait" /\ ~ timed /\ ~ posted /\ ~ waking)
    /\ UNCHANGED <<loops, paused, place, flow, posted, waking>>

Later(time) == IF time = "later" THEN "due" ELSE time

TimePasses ==
    /\ "later" \in {scheduled, wanted}
    /\ scheduled' = Later(scheduled)
    /\ read' = Later(read)
    /\ wanted' = Later(wanted)
    /\ UNCHANGED <<loops, paused, place, flow, posted, waking, unseen>>

(***************************************************************************)
(* What events of the window, keys, console commands and the application   *)
(* ask for on the main thread: pause(), resume(), stop().                  *)
(***************************************************************************)
Handling == main \in {"wait", "call"}

Pause ==
    /\ Handling
    /\ ~ paused
    /\ paused' = TRUE
    /\ posted' = (posted \/ main = "wait")
    /\ UNCHANGED <<loops, place, flow, requests>>

\* Only events: the engine calls resume() from none of its cycles.
Resume ==
    /\ main = "wait"
    /\ paused
    /\ paused' = FALSE
    /\ posted' = TRUE
    /\ UNCHANGED <<loops, place, flow, requests>>

\* Mutant of StillRunning: the logics thread is forgotten.
StillRunningLogics == {"logics"}

StillRunning == {}

Stop ==
    /\ Handling
    /\ loops # {}
    /\ loops' = StillRunning
    /\ posted' = (posted \/ main = "wait")
    /\ UNCHANGED <<paused, place, flow, requests>>

(***************************************************************************)
(* run(): one loop while the engine runs, and one within it while it is    *)
(* paused.                                                                 *)
(***************************************************************************)
TestLoop ==
    /\ main = "test"
    /\ main' = CASE inPause /\ paused -> "cycle"
                 [] inPause /\ ~ paused -> "lock"
                 [] ~ inPause /\ "main" \in loops -> "bound"
                 [] OTHER -> "join"
    /\ UNCHANGED <<loops, paused, place, inPause, timed, posted, requests>>

\* mainLoopWaitTimeout(): in the pause only a request bounds the wait.
BeginWait ==
    /\ main = "bound"
    /\ main' = "wait"
    /\ timed' = (~ inPause \/ scheduled # "none")
    /\ UNCHANGED <<loops, paused, place, inPause, posted, requests>>

EndWait ==
    /\ main = "wait"
    /\ posted \/ timed
    /\ posted' = FALSE
    /\ main' = IF inPause THEN "test" ELSE "window"
    /\ unseen' = FALSE
    /\ UNCHANGED <<loops, paused, place, inPause, timed, scheduled, read,
                   waking, wanted>>

\* A renderer that is not usable any more stops the engine.
CheckRenderer ==
    /\ main = "window"
    /\ main' = "cycle"
    /\ loops' \in {loops, StillRunning}
    /\ UNCHANGED <<paused, place, inPause, timed, posted, requests>>

\* executeMainLoopCycle(): the deadline is read...
BeginCycle ==
    /\ main = "cycle"
    /\ main' = "clear"
    /\ read' = scheduled
    /\ UNCHANGED <<loops, paused, place, inPause, timed, posted, scheduled,
                   waking, wanted, unseen>>

\* ...and, if it is due, removed unless another took its place.
\* Mutant of Remaining: a store in place of the compare-and-swap.
RemainingStored(request) == "none"

Remaining(request) == IF request = "due" THEN "none" ELSE scheduled

ClearRequest ==
    /\ main = "clear"
    /\ main' = "call"
    /\ scheduled' = Remaining(read)
    /\ UNCHANGED <<loops, paused, place, inPause, timed, posted, read, waking,
                   wanted, unseen>>

\* onCoreMainLoopCycle().
RunCycle ==
    /\ main = "call"
    /\ main' = IF inPause THEN "bound" ELSE "pause"
    /\ wanted' = IF wanted = "due" THEN "none" ELSE wanted
    /\ UNCHANGED <<loops, paused, place, inPause, timed, posted, scheduled,
                   read, waking, unseen>>

TestPause ==
    /\ main = "pause"
    /\ main' = IF paused THEN "lock" ELSE "test"
    /\ UNCHANGED <<loops, paused, place, inPause, timed, posted, requests>>

\* withExclusiveActiveScene(): pauseTimers() on the way in, resumeTimers()
\* on the way out.
LockExclusive ==
    /\ main = "lock"
    /\ \A t \in Task : place[t] # "scene"
    /\ main' = "test"
    /\ inPause' = ~ inPause
    /\ UNCHANGED <<loops, paused, place, timed, posted, requests>>

Join ==
    /\ main = "join"
    /\ \A t \in Task : place[t] = "done"
    /\ main' = "done"
    /\ UNCHANGED <<loops, paused, place, inPause, timed, posted, requests>>

(***************************************************************************)
(* The specification.                                                      *)
(***************************************************************************)
TaskStep(t) == TestTask(t) \/ LockShared(t) \/ UnlockShared(t)

Request == ScheduleNow \/ WakeUp \/ ScheduleLater \/ TimePasses

Event == Pause \/ Resume \/ Stop

MainStep ==
    TestLoop \/ BeginWait \/ EndWait \/ CheckRenderer \/ BeginCycle
    \/ ClearRequest \/ RunCycle \/ TestPause \/ LockExclusive \/ Join

Next == (\E t \in Task : TaskStep(t)) \/ Request \/ Event \/ MainStep

Spec == Init /\ [][Next]_vars

\* The threads run.  Nobody owes the engine an event, and readers that
\* overlap may keep the exclusive lock from the main thread.
FairSpec ==
    /\ Spec
    /\ \A t \in Task : WF_vars(TaskStep(t))
    /\ WF_vars(WakeUp)
    /\ WF_vars(MainStep)

-----------------------------------------------------------------------------
TypeOK ==
    /\ loops \in SUBSET ({"main"} \union Task)
    /\ paused \in BOOLEAN
    /\ place \in [Task -> {"test", "enter", "scene", "done"}]
    /\ main \in {"test", "bound", "wait", "window", "cycle", "clear", "call",
                 "pause", "lock", "join", "done"}
    /\ inPause \in BOOLEAN
    /\ timed \in BOOLEAN
    /\ posted \in BOOLEAN
    /\ scheduled \in {"none", "later", "due"}
    /\ read \in {"none", "later", "due"}
    /\ waking \in BOOLEAN
    /\ wanted \in {"none", "later", "due"}
    /\ unseen \in BOOLEAN

(***************************************************************************)
(* The main thread never waits without a timeout on a request it could     *)
(* have seen, unless an event is about to end the wait.                    *)
(***************************************************************************)
NoRequestSleptOn ==
    main = "wait" /\ ~ timed /\ wanted # "none" /\ ~ unseen =>
        posted \/ waking

(***************************************************************************)
(* When the last request is due, a cycle runs, paused or not.  The engine  *)
(* may stop instead, or wait for the scene at the end of a pause.          *)
(***************************************************************************)
Served == wanted # "due" \/ loops = {} \/ (main = "lock" /\ inPause)

CycleIsRun == wanted = "due" /\ ~ unseen ~> Served

(***************************************************************************)
(* A pause is entered: the loops let go of the active scene and do not     *)
(* come back, so that the main thread gets it.  Core.cpp:222-225: "Check   *)
(* the pause flag BEFORE taking the lock. This prevents deadlock".         *)
(***************************************************************************)
PauseIsEntered == main = "lock" /\ ~ inPause ~> inPause

(***************************************************************************)
(* stop() ends the three loops, wherever the threads are, unless the main  *)
(* thread is in the pause.                                                 *)
(***************************************************************************)
StopEnds == loops # {"main"} \union Task ~> main = "done" \/ inPause

-----------------------------------------------------------------------------
(***************************************************************************)
(* What the comments of the code say of it.                                *)
(***************************************************************************)

(***************************************************************************)
(* Core.hpp:308: "The main loop continues until stop() is called".         *)
(***************************************************************************)
StopAlwaysEnds == loops = {} ~> main = "done"

(***************************************************************************)
(* Core.hpp:341-344: "Guarantees that a main-loop cycle runs within the    *)
(* requested delay: the wait timeout of the next iteration is bounded by   *)
(* the pending deadline (including while paused)".                         *)
(***************************************************************************)
EveryCycleIsRun == wanted = "due" ~> Served
=============================================================================
