------------------------- MODULE ActiveScene_proofs -------------------------
(***************************************************************************)
(* Theorems about ActiveScene, for any scenes and callers.  What they say  *)
(* of destruction is for one caller that enables, disables and deletes.    *)
(***************************************************************************)
EXTENDS ActiveScene, TLAPS

-----------------------------------------------------------------------------
(***************************************************************************)
(* Types.  A scene is enabled through a pointer that the caller keeps.     *)
(***************************************************************************)
OnlySwitchers == \A c \in Caller : place[c] # "idle" => c \in Switcher

PointerKept ==
    \A c \in Caller : place[c] \in {"enable", "enabling"} => held[c] \in Scene

TypeInv == TypeOK /\ OnlySwitchers /\ PointerKept

LEMMA TypeInit == Init => TypeInv
BY DEF Init, TypeInv, TypeOK, OnlySwitchers, PointerKept

LEMMA TypeStep == TypeInv /\ [Next]_vars => TypeInv'
<1> SUFFICES ASSUME TypeInv, [Next]_vars
             PROVE  TypeInv'
  OBVIOUS
<1> USE ScenesAssumption DEF TypeInv, TypeOK, OnlySwitchers, PointerKept, locks, call, device
<1>1. ASSUME NEW c \in Caller, NEW s \in Scene, NewScene(c, s)
      PROVE  TypeInv'
  BY <1>1 DEF NewScene
<1>2. ASSUME NEW c \in Caller, NEW s \in Scene, GetScene(c, s)
      PROVE  TypeInv'
  BY <1>2 DEF GetScene
<1>3. ASSUME NEW c \in Caller, NEW s \in Scene, BeginEnable(c, s)
      PROVE  TypeInv'
  BY <1>3 DEF BeginEnable, Activatable
<1>4. ASSUME NEW c \in Caller, NEW s \in Scene, BeginDelete(c, s)
      PROVE  TypeInv'
  BY <1>4 DEF BeginDelete
<1>5. ASSUME NEW c \in Caller, Release(c)
      PROVE  TypeInv'
  BY <1>5 DEF Release
<1>6. ASSUME NEW c \in Caller, BeginDisable(c)
      PROVE  TypeInv'
  BY <1>6 DEF BeginDisable
<1>7. ASSUME NEW c \in Caller, ToggleEditor(c)
      PROVE  TypeInv'
  BY <1>7 DEF ToggleEditor
<1>8. ASSUME NEW c \in Caller, LockToEnable(c)
      PROVE  TypeInv'
  BY <1>8 DEF LockToEnable, Lock, Unshared
<1>9. ASSUME NEW c \in Caller, LockToDisable(c)
      PROVE  TypeInv'
  BY <1>9 DEF LockToDisable, Lock, Unshared
<1>10. ASSUME NEW c \in Caller, LockToErase(c)
      PROVE  TypeInv'
  BY <1>10 DEF LockToErase, Lock, Unshared
<1>11. ASSUME NEW c \in Caller, Enable(c)
      PROVE  TypeInv'
  BY <1>11 DEF Enable
<1>12. ASSUME NEW c \in Caller, Disable(c)
      PROVE  TypeInv'
  BY <1>12 DEF Disable, Cleared
<1>13. ASSUME NEW c \in Caller, Erase(c)
      PROVE  TypeInv'
  BY <1>13 DEF Erase, Drained
<1>14. ASSUME NEW t \in Thread, LockShared(t)
      PROVE  TypeInv'
  BY <1>14 DEF LockShared
<1>15. ASSUME EndLogics
      PROVE  TypeInv'
  BY <1>15 DEF EndLogics, UnlockShared, Thread
<1>16. ASSUME EndFrame
      PROVE  TypeInv'
  BY <1>16 DEF EndFrame, UnlockShared, Drawn, Thread
<1>17. ASSUME NEW x \in flight, Complete(x)
      PROVE  TypeInv'
  BY <1>17 DEF Complete
<1>18. ASSUME UNCHANGED vars
      PROVE  TypeInv'
  BY <1>18 DEF vars
<1>19. QED
  BY <1>1, <1>2, <1>3, <1>4, <1>5, <1>6, <1>7,
     <1>8, <1>9, <1>10, <1>11, <1>12, <1>13, <1>14, <1>15, <1>16, <1>17, <1>18
     DEF Next, Call, LockStep, CallStep, ThreadStep, Device

(***************************************************************************)
(* Whoever calls the manager, and when, each variable keeps its type: no   *)
(* null scene is enabled, drawn or entered in the table.                   *)
(***************************************************************************)
THEOREM TypeCorrect == Spec => []TypeOK
<1>1. Spec => []TypeInv
  BY TypeInit, TypeStep, PTL DEF Spec
<1>2. TypeInv => TypeOK
  BY DEF TypeInv
<1>3. QED
  BY <1>1, <1>2, PTL

-----------------------------------------------------------------------------
(***************************************************************************)
(* The locks.  A region is alone in its scene, and what a thread uses is   *)
(* what is active as long as it shares the lock.                           *)
(***************************************************************************)
LockHeld ==
    \A c \in Caller :
        place[c] \in {"enabling", "disabling", "erasing"} => owner = c /\ inScene = {}

UsingActive ==
    \A t \in Thread : using[t] # NoScene => using[t] = active /\ t \in inScene

LockInv == LockHeld /\ UsingActive

LEMMA LockInit == Init => LockInv
BY DEF Init, LockInv, LockHeld, UsingActive

LEMMA LockInvStep == TypeInv /\ LockInv /\ [Next]_vars => LockInv'
<1> SUFFICES ASSUME TypeInv, LockInv, [Next]_vars
             PROVE  LockInv'
  OBVIOUS
<1> USE CallersAssumption DEF TypeInv, TypeOK, LockInv, LockHeld, UsingActive, locks, call, device
<1>1. ASSUME NEW c \in Caller, NEW s \in Scene, NewScene(c, s)
      PROVE  LockInv'
  BY <1>1 DEF NewScene
<1>2. ASSUME NEW c \in Caller, NEW s \in Scene, GetScene(c, s)
      PROVE  LockInv'
  BY <1>2 DEF GetScene
<1>3. ASSUME NEW c \in Caller, NEW s \in Scene, BeginEnable(c, s)
      PROVE  LockInv'
  BY <1>3 DEF BeginEnable, Activatable
<1>4. ASSUME NEW c \in Caller, NEW s \in Scene, BeginDelete(c, s)
      PROVE  LockInv'
  BY <1>4 DEF BeginDelete
<1>5. ASSUME NEW c \in Caller, Release(c)
      PROVE  LockInv'
  BY <1>5 DEF Release
<1>6. ASSUME NEW c \in Caller, BeginDisable(c)
      PROVE  LockInv'
  BY <1>6 DEF BeginDisable
<1>7. ASSUME NEW c \in Caller, ToggleEditor(c)
      PROVE  LockInv'
  BY <1>7 DEF ToggleEditor
<1>8. ASSUME NEW c \in Caller, LockToEnable(c)
      PROVE  LockInv'
  BY <1>8 DEF LockToEnable, Lock, Unshared
<1>9. ASSUME NEW c \in Caller, LockToDisable(c)
      PROVE  LockInv'
  BY <1>9 DEF LockToDisable, Lock, Unshared
<1>10. ASSUME NEW c \in Caller, LockToErase(c)
      PROVE  LockInv'
  BY <1>10 DEF LockToErase, Lock, Unshared
<1>11. ASSUME NEW c \in Caller, Enable(c)
      PROVE  LockInv'
  BY <1>11 DEF Enable
<1>12. ASSUME NEW c \in Caller, Disable(c)
      PROVE  LockInv'
  BY <1>12 DEF Disable, Cleared
<1>13. ASSUME NEW c \in Caller, Erase(c)
      PROVE  LockInv'
  BY <1>13 DEF Erase, Drained
<1>14. ASSUME NEW t \in Thread, LockShared(t)
      PROVE  LockInv'
  BY <1>14 DEF LockShared
<1>15. ASSUME EndLogics
      PROVE  LockInv'
  BY <1>15 DEF EndLogics, UnlockShared, Thread
<1>16. ASSUME EndFrame
      PROVE  LockInv'
  BY <1>16 DEF EndFrame, UnlockShared, Drawn, Thread
<1>17. ASSUME NEW x \in flight, Complete(x)
      PROVE  LockInv'
  BY <1>17 DEF Complete
<1>18. ASSUME UNCHANGED vars
      PROVE  LockInv'
  BY <1>18 DEF vars
<1>19. QED
  BY <1>1, <1>2, <1>3, <1>4, <1>5, <1>6, <1>7,
     <1>8, <1>9, <1>10, <1>11, <1>12, <1>13, <1>14, <1>15, <1>16, <1>17, <1>18
     DEF Next, Call, LockStep, CallStep, ThreadStep, Device

-----------------------------------------------------------------------------
(***************************************************************************)
(* What the manager tests before it locks still holds when it has the      *)
(* lock, as long as nobody else enables and disables.                      *)
(***************************************************************************)
OneSwitcher == \A c, d \in Switcher : c = d

EnableGround ==
    \A c \in Caller :
        place[c] \in {"enable", "enabling"} => held[c] \in listed /\ active = NoScene

\* A scene that is being deleted is active until it is disabled.
DeleteGround ==
    \A c \in Caller :
        /\ place[c] \in {"idle", "enable", "enabling"} => target[c] = NoScene
        /\ place[c] \in {"disable", "disabling"} => target[c] \in {active, NoScene}
        /\ place[c] \in {"erase", "erasing"} => target[c] # active

GroundInv == EnableGround /\ DeleteGround /\ active \in listed \union {NoScene}

LEMMA GroundInit == Init => GroundInv
BY DEF Init, GroundInv, EnableGround, DeleteGround

LEMMA GroundStep ==
  ASSUME OneSwitcher
  PROVE  TypeInv /\ GroundInv /\ [Next]_vars => GroundInv'
<1> SUFFICES ASSUME TypeInv, GroundInv, [Next]_vars
             PROVE  GroundInv'
  OBVIOUS
<1> USE OneSwitcher, ScenesAssumption DEF TypeInv, TypeOK, OnlySwitchers, GroundInv, EnableGround, DeleteGround,
           OneSwitcher, locks, call, device
<1>1. ASSUME NEW c \in Caller, NEW s \in Scene, NewScene(c, s)
      PROVE  GroundInv'
  BY <1>1 DEF NewScene
<1>2. ASSUME NEW c \in Caller, NEW s \in Scene, GetScene(c, s)
      PROVE  GroundInv'
  BY <1>2 DEF GetScene
<1>3. ASSUME NEW c \in Caller, NEW s \in Scene, BeginEnable(c, s)
      PROVE  GroundInv'
  BY <1>3 DEF BeginEnable, Activatable
<1>4. ASSUME NEW c \in Caller, NEW s \in Scene, BeginDelete(c, s)
      PROVE  GroundInv'
  BY <1>4 DEF BeginDelete
<1>5. ASSUME NEW c \in Caller, Release(c)
      PROVE  GroundInv'
  BY <1>5 DEF Release
<1>6. ASSUME NEW c \in Caller, BeginDisable(c)
      PROVE  GroundInv'
  BY <1>6 DEF BeginDisable
<1>7. ASSUME NEW c \in Caller, ToggleEditor(c)
      PROVE  GroundInv'
  BY <1>7 DEF ToggleEditor
<1>8. ASSUME NEW c \in Caller, LockToEnable(c)
      PROVE  GroundInv'
  BY <1>8 DEF LockToEnable, Lock, Unshared
<1>9. ASSUME NEW c \in Caller, LockToDisable(c)
      PROVE  GroundInv'
  BY <1>9 DEF LockToDisable, Lock, Unshared
<1>10. ASSUME NEW c \in Caller, LockToErase(c)
      PROVE  GroundInv'
  BY <1>10 DEF LockToErase, Lock, Unshared
<1>11. ASSUME NEW c \in Caller, Enable(c)
      PROVE  GroundInv'
  BY <1>11 DEF Enable
<1>12. ASSUME NEW c \in Caller, Disable(c)
      PROVE  GroundInv'
  BY <1>12 DEF Disable, Cleared
<1>13. ASSUME NEW c \in Caller, Erase(c)
      PROVE  GroundInv'
  BY <1>13 DEF Erase, Drained
<1>14. ASSUME NEW t \in Thread, LockShared(t)
      PROVE  GroundInv'
  BY <1>14 DEF LockShared
<1>15. ASSUME EndLogics
      PROVE  GroundInv'
  BY <1>15 DEF EndLogics, UnlockShared, Thread
<1>16. ASSUME EndFrame
      PROVE  GroundInv'
  BY <1>16 DEF EndFrame, UnlockShared, Drawn, Thread
<1>17. ASSUME NEW x \in flight, Complete(x)
      PROVE  GroundInv'
  BY <1>17 DEF Complete
<1>18. ASSUME UNCHANGED vars
      PROVE  GroundInv'
  BY <1>18 DEF vars
<1>19. QED
  BY <1>1, <1>2, <1>3, <1>4, <1>5, <1>6, <1>7,
     <1>8, <1>9, <1>10, <1>11, <1>12, <1>13, <1>14, <1>15, <1>16, <1>17, <1>18
     DEF Next, Call, LockStep, CallStep, ThreadStep, Device

-----------------------------------------------------------------------------
(***************************************************************************)
(* The device and the table refer to scenes of the list: what is drawn is  *)
(* active, so listed, and the device is waited for before a scene leaves.  *)
(***************************************************************************)
References ==
    /\ flight \ {Gizmos} \subseteq listed
    /\ table \subseteq {active}
    /\ table \intersect Plain = {}
    /\ environment \in {active, NoScene} \union Plain

LEMMA ReferencesInit == Init => References
BY DEF Init, References

LEMMA ReferencesStep ==
    TypeInv /\ LockInv /\ GroundInv /\ References /\ [Next]_vars => References'
<1> SUFFICES ASSUME TypeInv, LockInv, GroundInv, References, [Next]_vars
             PROVE  References'
  OBVIOUS
<1> USE ScenesAssumption DEF TypeInv, TypeOK, LockInv, UsingActive, GroundInv, EnableGround,
           DeleteGround, References, locks, call, device
<1>1. ASSUME NEW c \in Caller, NEW s \in Scene, NewScene(c, s)
      PROVE  References'
  BY <1>1 DEF NewScene
<1>2. ASSUME NEW c \in Caller, NEW s \in Scene, GetScene(c, s)
      PROVE  References'
  BY <1>2 DEF GetScene
<1>3. ASSUME NEW c \in Caller, NEW s \in Scene, BeginEnable(c, s)
      PROVE  References'
  BY <1>3 DEF BeginEnable, Activatable
<1>4. ASSUME NEW c \in Caller, NEW s \in Scene, BeginDelete(c, s)
      PROVE  References'
  BY <1>4 DEF BeginDelete
<1>5. ASSUME NEW c \in Caller, Release(c)
      PROVE  References'
  BY <1>5 DEF Release
<1>6. ASSUME NEW c \in Caller, BeginDisable(c)
      PROVE  References'
  BY <1>6 DEF BeginDisable
<1>7. ASSUME NEW c \in Caller, ToggleEditor(c)
      PROVE  References'
  BY <1>7 DEF ToggleEditor
<1>8. ASSUME NEW c \in Caller, LockToEnable(c)
      PROVE  References'
  BY <1>8 DEF LockToEnable, Lock, Unshared
<1>9. ASSUME NEW c \in Caller, LockToDisable(c)
      PROVE  References'
  BY <1>9 DEF LockToDisable, Lock, Unshared
<1>10. ASSUME NEW c \in Caller, LockToErase(c)
      PROVE  References'
  BY <1>10 DEF LockToErase, Lock, Unshared
<1>11. ASSUME NEW c \in Caller, Enable(c)
      PROVE  References'
  BY <1>11 DEF Enable
<1>12. ASSUME NEW c \in Caller, Disable(c)
      PROVE  References'
  BY <1>12 DEF Disable, Cleared
<1>13. ASSUME NEW c \in Caller, Erase(c)
      PROVE  References'
  BY <1>13 DEF Erase, Drained
<1>14. ASSUME NEW t \in Thread, LockShared(t)
      PROVE  References'
  BY <1>14 DEF LockShared
<1>15. ASSUME EndLogics
      PROVE  References'
  BY <1>15 DEF EndLogics, UnlockShared, Thread
<1>16. ASSUME EndFrame
      PROVE  References'
  BY <1>16 DEF EndFrame, UnlockShared, Drawn, Thread
<1>17. ASSUME NEW x \in flight, Complete(x)
      PROVE  References'
  BY <1>17 DEF Complete
<1>18. ASSUME UNCHANGED vars
      PROVE  References'
  BY <1>18 DEF vars
<1>19. QED
  BY <1>1, <1>2, <1>3, <1>4, <1>5, <1>6, <1>7,
     <1>8, <1>9, <1>10, <1>11, <1>12, <1>13, <1>14, <1>15, <1>16, <1>17, <1>18
     DEF Next, Call, LockStep, CallStep, ThreadStep, Device

IInv == TypeInv /\ LockInv /\ GroundInv /\ References

LEMMA InUseOwned == IInv => NothingDestroyedInUse
BY DEF IInv, TypeInv, TypeOK, LockInv, UsingActive, GroundInv, References,
       NothingDestroyedInUse, InUse, Owned

LEMMA Invariant ==
  ASSUME OneSwitcher
  PROVE  Spec => []IInv
<1>1. Init => IInv
  BY TypeInit, LockInit, GroundInit, ReferencesInit DEF IInv
<1>2. IInv /\ [Next]_vars => IInv'
  BY TypeStep, LockInvStep, GroundStep, ReferencesStep DEF IInv
<1>3. QED
  BY <1>1, <1>2, PTL DEF Spec

(***************************************************************************)
(* With one caller that enables, disables and deletes, and any number that *)
(* create scenes and keep pointers, deleteScene() destroys no scene a      *)
(* thread, a submitted command buffer or the texture table refers to, but  *)
(* for two kinds of slots: the environment of a scene that has no other 2D *)
(* or cube texture, and the cube arrays, which disabling does not clear.   *)
(***************************************************************************)
THEOREM DeletionSafe ==
  ASSUME OneSwitcher
  PROVE  Spec => []NothingDestroyedInUse
BY Invariant, InUseOwned, PTL

-----------------------------------------------------------------------------
(***************************************************************************)
(* The input manager.                                                      *)
(***************************************************************************)
LEMMA EnabledInit == Init => EnabledIsActive
BY DEF Init, EnabledIsActive

LEMMA EnabledStep == IInv /\ EnabledIsActive /\ [Next]_vars => EnabledIsActive'
<1> SUFFICES ASSUME IInv, EnabledIsActive, [Next]_vars
             PROVE  EnabledIsActive'
  OBVIOUS
<1> USE ScenesAssumption DEF IInv, TypeInv, TypeOK, PointerKept, GroundInv, EnableGround, EnabledIsActive, locks, call, device
<1>1. ASSUME NEW c \in Caller, NEW s \in Scene, NewScene(c, s)
      PROVE  EnabledIsActive'
  BY <1>1 DEF NewScene
<1>2. ASSUME NEW c \in Caller, NEW s \in Scene, GetScene(c, s)
      PROVE  EnabledIsActive'
  BY <1>2 DEF GetScene
<1>3. ASSUME NEW c \in Caller, NEW s \in Scene, BeginEnable(c, s)
      PROVE  EnabledIsActive'
  BY <1>3 DEF BeginEnable, Activatable
<1>4. ASSUME NEW c \in Caller, NEW s \in Scene, BeginDelete(c, s)
      PROVE  EnabledIsActive'
  BY <1>4 DEF BeginDelete
<1>5. ASSUME NEW c \in Caller, Release(c)
      PROVE  EnabledIsActive'
  BY <1>5 DEF Release
<1>6. ASSUME NEW c \in Caller, BeginDisable(c)
      PROVE  EnabledIsActive'
  BY <1>6 DEF BeginDisable
<1>7. ASSUME NEW c \in Caller, ToggleEditor(c)
      PROVE  EnabledIsActive'
  BY <1>7 DEF ToggleEditor
<1>8. ASSUME NEW c \in Caller, LockToEnable(c)
      PROVE  EnabledIsActive'
  BY <1>8 DEF LockToEnable, Lock, Unshared
<1>9. ASSUME NEW c \in Caller, LockToDisable(c)
      PROVE  EnabledIsActive'
  BY <1>9 DEF LockToDisable, Lock, Unshared
<1>10. ASSUME NEW c \in Caller, LockToErase(c)
      PROVE  EnabledIsActive'
  BY <1>10 DEF LockToErase, Lock, Unshared
<1>11. ASSUME NEW c \in Caller, Enable(c)
      PROVE  EnabledIsActive'
  BY <1>11 DEF Enable
<1>12. ASSUME NEW c \in Caller, Disable(c)
      PROVE  EnabledIsActive'
  BY <1>12 DEF Disable, Cleared
<1>13. ASSUME NEW c \in Caller, Erase(c)
      PROVE  EnabledIsActive'
  BY <1>13 DEF Erase, Drained
<1>14. ASSUME NEW t \in Thread, LockShared(t)
      PROVE  EnabledIsActive'
  BY <1>14 DEF LockShared
<1>15. ASSUME EndLogics
      PROVE  EnabledIsActive'
  BY <1>15 DEF EndLogics, UnlockShared, Thread
<1>16. ASSUME EndFrame
      PROVE  EnabledIsActive'
  BY <1>16 DEF EndFrame, UnlockShared, Drawn, Thread
<1>17. ASSUME NEW x \in flight, Complete(x)
      PROVE  EnabledIsActive'
  BY <1>17 DEF Complete
<1>18. ASSUME UNCHANGED vars
      PROVE  EnabledIsActive'
  BY <1>18 DEF vars
<1>19. QED
  BY <1>1, <1>2, <1>3, <1>4, <1>5, <1>6, <1>7,
     <1>8, <1>9, <1>10, <1>11, <1>12, <1>13, <1>14, <1>15, <1>16, <1>17, <1>18
     DEF Next, Call, LockStep, CallStep, ThreadStep, Device

(***************************************************************************)
(* Under the same condition the scenes the input manager calls are the     *)
(* active one.                                                             *)
(***************************************************************************)
THEOREM ListenersAlive ==
  ASSUME OneSwitcher
  PROVE  Spec => []EnabledIsActive
<1>1. IInv /\ EnabledIsActive /\ [Next]_vars => EnabledIsActive'
  BY EnabledStep
<1>2. QED
  BY Invariant, EnabledInit, <1>1, PTL DEF Spec
=============================================================================
