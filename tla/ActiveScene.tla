---------------------------- MODULE ActiveScene ----------------------------
(***************************************************************************)
(* The scene manager (src/src/Scenes/Manager.cpp) against the two threads  *)
(* that hold the active scene under a shared lock: scenes are created,     *)
(* enabled, disabled and deleted while frames are recorded and the device  *)
(* still executes former ones.                                             *)
(*                                                                         *)
(* A scene exists as long as something owns it: the list of the manager,   *)
(* the active scene, or a pointer somebody got.  A name that is free again *)
(* stands for a new scene.  What is enabled is what the list has at the    *)
(* time it is asked for.                                                   *)
(***************************************************************************)
EXTENDS Naturals

CONSTANTS
    Scene,
    Plain,      \* the scenes that have neither 2D nor cube textures, apart
                \* from their environment
    Gobo,       \* the scenes that have cube-array textures
    Caller,     \* the threads that call the manager
    Switcher,   \* those that enable, disable and delete
    NoScene,
    NoCaller

ASSUME ScenesAssumption ==
    Plain \subseteq Scene /\ Gobo \subseteq Scene /\ NoScene \notin Scene

ASSUME CallersAssumption == Switcher \subseteq Caller /\ NoCaller \notin Caller

Thread == {"logics", "render"}

VARIABLES
    listed,         \* m_scenes
    active,         \* m_activeScene
    held,           \* the pointer a caller has
    list,           \* who holds m_sceneListAccess
    owner,          \* who holds m_activeSceneSharedAccess alone
    using,          \* what each thread holds it for, together
    inScene,        \* the threads that hold it together
    place,          \* where a caller is in a call
    target,         \* the scene it deletes
    enabled,        \* the scenes that listen to the input manager
    table,          \* the scenes with 2D or cube textures in the bindless table
    arrays,         \* the scenes with cube-array textures in it
    environment,    \* the scene in its slots for the environment
    editing,        \* the editor is active, its gizmos exist
    flight          \* what the submitted command buffers refer to

locks == <<list, owner, using, inScene>>
call == <<held, place, target>>
device == <<table, arrays, environment, flight>>
vars == <<listed, active, locks, call, enabled, device, editing>>

Gizmos == "gizmos"

\* What a smart pointer keeps.
Owned == listed \union {active} \union {held[c] : c \in Caller}

Init ==
    /\ listed = {}
    /\ active = NoScene
    /\ held = [c \in Caller |-> NoScene]
    /\ list = NoCaller
    /\ owner = NoCaller
    /\ using = [t \in Thread |-> NoScene]
    /\ inScene = {}
    /\ place = [c \in Caller |-> "idle"]
    /\ target = [c \in Caller |-> NoScene]
    /\ enabled = {}
    /\ table = {}
    /\ arrays = {}
    /\ environment = NoScene
    /\ editing = FALSE
    /\ flight = {}

(***************************************************************************)
(* newScene(), getScene(): under the mutex of the list only.               *)
(***************************************************************************)
NewScene(c, s) ==
    /\ place[c] = "idle"
    /\ list = NoCaller
    /\ s \notin Owned
    /\ listed' = listed \union {s}
    /\ UNCHANGED <<active, locks, call, enabled, device, editing>>

GetScene(c, s) ==
    /\ c \notin Switcher
    /\ held[c] = NoScene
    /\ list = NoCaller
    /\ s \in listed
    /\ held' = [held EXCEPT ![c] = s]
    /\ UNCHANGED <<listed, active, locks, place, target, enabled, device, editing>>

Release(c) ==
    /\ c \notin Switcher
    /\ held[c] # NoScene
    /\ held' = [held EXCEPT ![c] = NoScene]
    /\ UNCHANGED <<listed, active, locks, place, target, enabled, device, editing>>

(***************************************************************************)
(* The exclusive lock of the active scene.                                 *)
(***************************************************************************)
Unshared == inScene = {}

Lock(c, from, to) ==
    /\ place[c] = from
    /\ owner = NoCaller
    /\ Unshared
    /\ owner' = c
    /\ place' = [place EXCEPT ![c] = to]
    /\ UNCHANGED <<listed, active, list, using, inScene, held, target, enabled,
                   device, editing>>

(***************************************************************************)
(* enableScene(), of a scene of the list.                                  *)
(***************************************************************************)
\* Mutant of Activatable: the active scene is not looked at.
ActivatableAlways == TRUE

Activatable == active = NoScene

BeginEnable(c, s) ==
    /\ c \in Switcher
    /\ place[c] = "idle"
    /\ list = NoCaller
    /\ s \in listed
    /\ Activatable
    /\ held' = [held EXCEPT ![c] = s]
    /\ place' = [place EXCEPT ![c] = "enable"]
    /\ UNCHANGED <<listed, active, locks, target, enabled, device, editing>>

LockToEnable(c) == Lock(c, "enable", "enabling")

Enable(c) ==
    /\ place[c] = "enabling"
    /\ \/ active' = held[c] /\ enabled' = enabled \union {held[c]}
       \/ UNCHANGED <<active, enabled>>
    /\ owner' = NoCaller
    /\ held' = [held EXCEPT ![c] = NoScene]
    /\ place' = [place EXCEPT ![c] = "idle"]
    /\ UNCHANGED <<listed, list, using, inScene, target, device, editing>>

(***************************************************************************)
(* disableActiveScene(), on its own or from deleteScene().                 *)
(***************************************************************************)
\* The editor is deactivated before the lock is taken.
BeginDisable(c) ==
    /\ c \in Switcher
    /\ place[c] = "idle"
    /\ active # NoScene
    /\ editing' = FALSE
    /\ place' = [place EXCEPT ![c] = "disable"]
    /\ UNCHANGED <<listed, active, locks, held, target, enabled, device>>

LockToDisable(c) == Lock(c, "disable", "disabling")

\* clearTextureSet() returns at once for a scene without 2D and cube textures,
\* whatever else it has, and touches no slot of a cube array.
Cleared ==
    /\ UNCHANGED arrays
    /\ IF active \in Plain
       THEN UNCHANGED <<table, environment>>
       ELSE table' = table \ {active} /\ environment' = NoScene

Disable(c) ==
    /\ place[c] = "disabling"
    /\ Cleared
    /\ enabled' = enabled \ {active}
    /\ active' = NoScene
    /\ owner' = NoCaller
    /\ place' = [place EXCEPT ![c] = IF target[c] = NoScene THEN "idle" ELSE "erase"]
    /\ UNCHANGED <<listed, list, using, inScene, held, target, editing, flight>>

(***************************************************************************)
(* deleteScene(): under the mutex of the list to the end.  The scene is    *)
(* erased under the exclusive lock, after the device has been waited for.  *)
(***************************************************************************)
BeginDelete(c, s) ==
    /\ c \in Switcher
    /\ place[c] = "idle"
    /\ list = NoCaller
    /\ s \in listed
    /\ list' = c
    /\ target' = [target EXCEPT ![c] = s]
    /\ IF s = active
       THEN /\ editing' = FALSE
            /\ place' = [place EXCEPT ![c] = "disable"]
       ELSE /\ place' = [place EXCEPT ![c] = "erase"]
            /\ UNCHANGED editing
    /\ UNCHANGED <<listed, active, owner, using, inScene, held, enabled, device>>

\* Mutant of LockToErase: the mutex of the list is taken a second time.
LockToEraseTwice(c) == list = NoCaller /\ Lock(c, "erase", "erasing")

LockToErase(c) == Lock(c, "erase", "erasing")

\* Mutant of Drained: the device is not waited for.
DrainedLater == flight

Drained == {}

Erase(c) ==
    /\ place[c] = "erasing"
    /\ flight' = Drained
    /\ listed' = listed \ {target[c]}
    /\ owner' = NoCaller
    /\ list' = NoCaller
    /\ target' = [target EXCEPT ![c] = NoScene]
    /\ place' = [place EXCEPT ![c] = "idle"]
    /\ UNCHANGED <<active, using, inScene, held, enabled, table, arrays,
                   environment, editing>>

\* toggleEditorMode(): no lock, and the gizmos are made or destroyed at once.
ToggleEditor(c) ==
    /\ c \in Switcher
    /\ place[c] = "idle"
    /\ editing \/ active # NoScene
    /\ editing' = ~ editing
    /\ UNCHANGED <<listed, active, locks, call, enabled, device>>

(***************************************************************************)
(* withSharedActiveScene(), in the two threads.  The logics thread does    *)
(* not go on without a scene; the rendering thread draws the overlay.      *)
(***************************************************************************)
LockShared(t) ==
    /\ t \notin inScene
    /\ owner = NoCaller
    /\ inScene' = inScene \union {t}
    /\ using' = [using EXCEPT ![t] = active]
    /\ UNCHANGED <<listed, active, list, owner, call, enabled, device, editing>>

UnlockShared(t) ==
    /\ inScene' = inScene \ {t}
    /\ using' = [using EXCEPT ![t] = NoScene]
    /\ UNCHANGED <<listed, active, list, owner, call, enabled, editing>>

EndLogics ==
    /\ "logics" \in inScene
    /\ UnlockShared("logics")
    /\ UNCHANGED device

Drawn == {using["render"]} \ {NoScene}

\* syncTextureSet(), then a command buffer that refers to what was drawn.
EndFrame ==
    /\ "render" \in inScene
    /\ UnlockShared("render")
    /\ table' = table \union (Drawn \ Plain)
    /\ arrays' = arrays \union (Drawn \intersect Gobo)
    /\ environment' = IF Drawn = {} THEN environment ELSE using["render"]
    /\ flight' = flight \union Drawn \union (IF editing THEN {Gizmos} ELSE {})

\* The device is done with the last command buffer that refers to x.
Complete(x) ==
    /\ x \in flight
    /\ flight' = flight \ {x}
    /\ UNCHANGED <<listed, active, locks, call, enabled, table, arrays,
                   environment, editing>>

(***************************************************************************)
(* The specification.                                                      *)
(***************************************************************************)
LockStep(c) == LockToEnable(c) \/ LockToDisable(c) \/ LockToErase(c)

CallStep(c) == Enable(c) \/ Disable(c) \/ Erase(c)

Call(c) ==
    \/ \E s \in Scene : \/ NewScene(c, s) \/ GetScene(c, s)
                        \/ BeginEnable(c, s) \/ BeginDelete(c, s)
    \/ Release(c) \/ BeginDisable(c) \/ ToggleEditor(c)

ThreadStep == (\E t \in Thread : LockShared(t)) \/ EndLogics \/ EndFrame

Device == \E x \in flight : Complete(x)

Next ==
    \/ \E c \in Caller : Call(c) \/ LockStep(c) \/ CallStep(c)
    \/ ThreadStep
    \/ Device

Spec == Init /\ [][Next]_vars

\* A caller that is in a region goes on; one that waits for the exclusive
\* lock gets it when the last thread that shares it leaves; the threads leave.
FairSpec ==
    /\ Spec
    /\ \A c \in Caller : SF_vars(LockStep(c)) /\ WF_vars(CallStep(c))
    /\ WF_vars(EndLogics)
    /\ WF_vars(EndFrame)

-----------------------------------------------------------------------------
TypeOK ==
    /\ listed \in SUBSET Scene
    /\ active \in Scene \union {NoScene}
    /\ held \in [Caller -> Scene \union {NoScene}]
    /\ list \in Caller \union {NoCaller}
    /\ owner \in Caller \union {NoCaller}
    /\ using \in [Thread -> Scene \union {NoScene}]
    /\ inScene \in SUBSET Thread
    /\ place \in [Caller -> {"idle", "enable", "enabling", "disable",
                             "disabling", "erase", "erasing"}]
    /\ target \in [Caller -> Scene \union {NoScene}]
    /\ enabled \in SUBSET Scene
    /\ table \in SUBSET Scene
    /\ arrays \in SUBSET Scene
    /\ environment \in Scene \union {NoScene}
    /\ editing \in BOOLEAN
    /\ flight \in SUBSET (Scene \union {Gizmos})

(***************************************************************************)
(* No thread, no submitted command buffer and no slot of the table for a   *)
(* 2D or cube texture, an environment included, refers to a scene that is  *)
(* destroyed (deleteScene): "nothing references this scene's resources     *)
(* while ~Scene destroys them" (Manager.cpp:275-278).  Two exceptions are  *)
(* what clearTextureSet() leaves in the table (NoDescriptorLeft): the      *)
(* environment of a scene that has no other 2D or cube texture, and the    *)
(* cube arrays.                                                            *)
(***************************************************************************)
InUse ==
    {using[t] : t \in Thread} \union (flight \ {Gizmos})
        \union table \union ({environment} \ Plain)

NothingDestroyedInUse == InUse \subseteq Owned \union {NoScene}

(***************************************************************************)
(* The scenes that listen to the input manager are the active one: a scene *)
(* that is destroyed is not called any more.                               *)
(***************************************************************************)
EnabledIsActive == enabled = {active} \ {NoScene}

(***************************************************************************)
(* A call returns, provided the two threads do not relay each other in the *)
(* shared lock for ever.                                                   *)
(***************************************************************************)
CallsReturn ==
    []<>(inScene = {}) =>
        \A c \in Caller : place[c] # "idle" ~> place[c] = "idle"

-----------------------------------------------------------------------------
(***************************************************************************)
(* What the documents say of it.                                           *)
(***************************************************************************)

(***************************************************************************)
(* caution-points.md:1187-1188, of the scene that is disabled: it "has     *)
(* zero descriptor references".                                            *)
(***************************************************************************)
NoDescriptorLeft ==
    active = NoScene => table = {} /\ arrays = {} /\ environment = NoScene

(***************************************************************************)
(* multi-scene-resource-ownership.md:58-61, of disabling: the device is    *)
(* waited for "before any GPU object the descriptor set / an in-flight     *)
(* frame may reference is destroyed".                                      *)
(***************************************************************************)
GizmosOutliveFrames == Gizmos \in flight => editing
=============================================================================
