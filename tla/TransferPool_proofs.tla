------------------------- MODULE TransferPool_proofs -------------------------
(***************************************************************************)
(* Theorems about TransferPool, for any targets, sizes and operations.     *)
(***************************************************************************)
EXTENDS TransferPool, TLAPS

-----------------------------------------------------------------------------
(***************************************************************************)
(* Types.  A call that is past its first line has a target, and an         *)
(* operation once it found one.                                            *)
(***************************************************************************)
CallInv ==
    /\ place # "idle" => target \in Target
    /\ place \notin {"idle", "fit", "expand"} => op \in made
    /\ place \in {"idle", "fit", "expand"} => op = NoOp

TypeInv == TypeOK /\ CallInv

LEMMA TypeInit == Init => TypeInv
BY BytesAssumption DEF Init, TypeInv, TypeOK, CallInv

LEMMA TypeStep == TypeInv /\ [Next]_vars => TypeInv'
<1> SUFFICES ASSUME TypeInv, [Next]_vars
             PROVE  TypeInv'
  OBVIOUS
<1> USE OpsAssumption, TargetsAssumption, BytesAssumption DEF TypeInv, TypeOK, CallInv, pool, sync, call, result
<1>1. ASSUME NEW t \in Target, Upload(t)
      PROVE  TypeInv'
  BY <1>1 DEF Upload, Call
<1>2. ASSUME NEW t \in Target, Download(t)
      PROVE  TypeInv'
  BY <1>2 DEF Download, Call
<1>3. ASSUME NEW o \in Op, Fit(o)
      PROVE  TypeInv'
  BY <1>3 DEF Fit, Goto, Pool, Available
<1>4. ASSUME NEW o \in Op, Expand(o)
      PROVE  TypeInv'
  BY <1>4 DEF Expand, Resized, Goto, Pool, Available
<1>5. ASSUME NEW o \in Op, ExpandFails(o)
      PROVE  TypeInv'
  BY <1>5 DEF ExpandFails, Pool, Available
<1>6. ASSUME NEW o \in Op, CreateOp(o)
      PROVE  TypeInv'
  BY <1>6 DEF CreateOp, NewOp, Unmade, NothingExpands, Resized, Goto
<1>7. CASE NothingFits
  BY <1>7 DEF NothingFits, Goto
<1>8. CASE NoOpLeft
  BY <1>8 DEF NoOpLeft, NothingExpands, Return
<1>9. CASE Reserve
  BY <1>9 DEF Reserve, Requested, Goto
<1>10. CASE ReserveFails
  BY <1>10 DEF ReserveFails, Return
<1>11. CASE Write
  BY <1>11 DEF Write, Goto
<1>12. CASE Submit
  BY <1>12 DEF Submit, Fenced, Return
<1>13. CASE SubmitCopy
  BY <1>13 DEF SubmitCopy, Goto
<1>14. CASE SubmitFinish
  BY <1>14 DEF SubmitFinish, Fenced, Return
<1>15. CASE ReadBack
  BY <1>15 DEF ReadBack, Return
<1>16. CASE StepFails \/ SubmitFails
  BY <1>16 DEF StepFails, SubmitFails, GiveUp, Return
<1>17. ASSUME NEW o \in Op, Copy(o)
      PROVE  TypeInv'
  BY <1>17 DEF Copy, Signaled
<1>18. ASSUME NEW o \in Op, Finish(o)
      PROVE  TypeInv'
  BY <1>18 DEF Finish, Signaled
<1>19. ASSUME NEW o \in Op, FenceFails(o)
      PROVE  TypeInv'
  BY <1>19 DEF FenceFails, NewOp, Unmade, NothingExpands, Return
<1>20. ASSUME NEW o \in Op, SemaphoreFails(o)
      PROVE  TypeInv'
  BY <1>20 DEF SemaphoreFails, NewOp, Unmade, NothingExpands, Resized, Return
<1>21. CASE SubmitLoose
  BY <1>21 DEF SubmitLoose, Goto
<1>22. ASSUME NEW o \in Op, CopyLoose(o)
      PROVE  TypeInv'
  BY <1>22 DEF CopyLoose
<1>23. CASE UNCHANGED vars
  BY <1>23 DEF vars
<1>24. QED
  BY <1>1, <1>2, <1>3, <1>4, <1>5, <1>6, <1>7, <1>8, <1>9, <1>10,
     <1>11, <1>12, <1>13, <1>14, <1>15, <1>16, <1>17, <1>18, <1>19, <1>20,
     <1>21, <1>22, <1>23
     DEF Next, Begin, Search, Transfer, Device

(***************************************************************************)
(* Whatever fails, the pool, the synchronization objects and the call in   *)
(* progress keep their types; what is given up or lacks a staging buffer   *)
(* is an operation of the pool.                                            *)
(***************************************************************************)
THEOREM TypeCorrect == Spec => []TypeOK
<1>1. Spec => []TypeInv
  BY TypeInit, TypeStep, PTL DEF Spec
<1>2. TypeInv => TypeOK
  BY DEF TypeInv
<1>3. QED
  BY <1>1, <1>2, PTL

-----------------------------------------------------------------------------
(***************************************************************************)
(* The fence tells the truth, of what is not loose: an operation whose     *)
(* fence is signaled has nothing left on the device, and one whose fence   *)
(* is reset has at most the copy of a pair that was never completed.       *)
(***************************************************************************)
FenceInv ==
    \A o \in Op :
        /\ fence[o] = "ready" => copying[o] = NoTarget /\ semaphore[o] \in {"free", "null"}
        /\ fence[o] # "pending" => finishing[o] = NoTarget
        /\ o \notin made => fence[o] = "ready" /\ semaphore[o] = "free"

\* What is loose is the copy of a target that is known to be astray.
LooseInv == \A o \in Op : loose[o] \subseteq astray

\* A semaphore goes with a chained copy; it is an image's that may be missing.
ChainInv ==
    \A o \in Op :
        /\ semaphore[o] = "pending" <=> copying[o] \in Chained
        /\ finishing[o] # NoTarget => semaphore[o] # "free"
        /\ copying[o] \notin Chained \union {NoTarget} => semaphore[o] = "free"
        /\ semaphore[o] = "null" => o \in ImageOp

\* What the operation of the call is ready for.
PlaceInv ==
    /\ place \notin {"idle", "fit", "expand"} => (op \in ImageOp <=> target \in Image)
    /\ place = "reserve" => fence[op] = "ready"
    /\ place \in {"write", "submit", "download", "finish"} => fence[op] = "reset"
    /\ place \in {"write", "submit", "download"} =>
           copying[op] = NoTarget /\ semaphore[op] \in {"free", "null"}
    /\ place = "finish" => semaphore[op] # "free"

UseInv == FenceInv /\ LooseInv /\ ChainInv /\ PlaceInv

LEMMA UseInit == Init => UseInv
BY TargetsAssumption DEF Init, UseInv, FenceInv, LooseInv, ChainInv, PlaceInv

LEMMA UseStep == TypeInv /\ UseInv /\ [Next]_vars => UseInv'
<1> SUFFICES ASSUME TypeInv, UseInv, [Next]_vars
             PROVE  UseInv'
  OBVIOUS
<1> USE OpsAssumption, TargetsAssumption DEF TypeInv, TypeOK, CallInv, UseInv, FenceInv, LooseInv, ChainInv, PlaceInv, pool, sync, call, result
<1>1. ASSUME NEW t \in Target, Upload(t)
      PROVE  UseInv'
  BY <1>1 DEF Upload, Call
<1>2. ASSUME NEW t \in Target, Download(t)
      PROVE  UseInv'
  BY <1>2 DEF Download, Call
<1>3. ASSUME NEW o \in Op, Fit(o)
      PROVE  UseInv'
  BY <1>3 DEF Fit, Goto, Pool, Available
<1>4. ASSUME NEW o \in Op, Expand(o)
      PROVE  UseInv'
  BY <1>4 DEF Expand, Resized, Goto, Pool, Available
<1>5. ASSUME NEW o \in Op, ExpandFails(o)
      PROVE  UseInv'
  BY <1>5 DEF ExpandFails, Pool, Available
<1>6. ASSUME NEW o \in Op, CreateOp(o)
      PROVE  UseInv'
  BY <1>6 DEF CreateOp, NewOp, Unmade, NothingExpands, Resized, Goto
<1>7. CASE NothingFits
  BY <1>7 DEF NothingFits, Goto
<1>8. CASE NoOpLeft
  BY <1>8 DEF NoOpLeft, NothingExpands, Return
<1>9. CASE Reserve
  BY <1>9 DEF Reserve, Requested, Goto
<1>10. CASE ReserveFails
  BY <1>10 DEF ReserveFails, Return
<1>11. CASE Write
  BY <1>11 DEF Write, Goto
<1>12. CASE Submit
  BY <1>12 DEF Submit, Fenced, Return
<1>13. CASE SubmitCopy
  BY <1>13 DEF SubmitCopy, Goto
<1>14. CASE SubmitFinish
  BY <1>14 DEF SubmitFinish, Fenced, Return
<1>15. CASE ReadBack
  BY <1>15 DEF ReadBack, Return
<1>16. CASE StepFails \/ SubmitFails
  BY <1>16 DEF StepFails, SubmitFails, GiveUp, Return
<1>17. ASSUME NEW o \in Op, Copy(o)
      PROVE  UseInv'
  BY <1>17 DEF Copy, Signaled
<1>18. ASSUME NEW o \in Op, Finish(o)
      PROVE  UseInv'
  BY <1>18 DEF Finish, Signaled
<1>19. ASSUME NEW o \in Op, FenceFails(o)
      PROVE  UseInv'
  BY <1>19 DEF FenceFails, NewOp, Unmade, NothingExpands, Return
<1>20. ASSUME NEW o \in Op, SemaphoreFails(o)
      PROVE  UseInv'
  BY <1>20 DEF SemaphoreFails, NewOp, Unmade, NothingExpands, Resized, Return
<1>21. CASE SubmitLoose
  BY <1>21 DEF SubmitLoose, Goto
<1>22. ASSUME NEW o \in Op, CopyLoose(o)
      PROVE  UseInv'
  BY <1>22 DEF CopyLoose
<1>23. CASE UNCHANGED vars
  BY <1>23 DEF vars
<1>24. QED
  BY <1>1, <1>2, <1>3, <1>4, <1>5, <1>6, <1>7, <1>8, <1>9, <1>10,
     <1>11, <1>12, <1>13, <1>14, <1>15, <1>16, <1>17, <1>18, <1>19, <1>20,
     <1>21, <1>22, <1>23
     DEF Next, Begin, Search, Transfer, Device

LEMMA UseCorrect == Spec => [](TypeInv /\ UseInv)
BY TypeInit, TypeStep, UseInit, UseStep, PTL DEF Spec

(***************************************************************************)
(* An upload that was given up between its two submissions leaves a        *)
(* semaphore that nobody waits for, and no later upload meets it: the      *)
(* semaphore an upload is to signal is free, or was never created.         *)
(***************************************************************************)
THEOREM SemaphoresAlternate == Spec => []SemaphoreIsFree
<1>1. UseInv => SemaphoreIsFree
  BY DEF UseInv, PlaceInv, SemaphoreIsFree
<1>2. QED
  BY UseCorrect, <1>1, PTL

-----------------------------------------------------------------------------
(***************************************************************************)
(* Until it is copied, a staging buffer holds what was written for it.     *)
(***************************************************************************)
ContentInv ==
    /\ \A o \in Op : copying[o] # NoTarget => content[o] = copying[o]
    /\ place = "submit" => content[op] = target

DataInv == ContentInv /\ DataIsOwn

LEMMA DataInit == Init => DataInv
BY DEF Init, DataInv, ContentInv, DataIsOwn

LEMMA DataStep == TypeInv /\ UseInv /\ DataInv /\ [Next]_vars => DataInv'
<1> SUFFICES ASSUME TypeInv, UseInv, DataInv, [Next]_vars
             PROVE  DataInv'
  OBVIOUS
<1> USE OpsAssumption, TargetsAssumption DEF TypeInv, TypeOK, CallInv, UseInv, FenceInv, LooseInv, PlaceInv, DataInv, ContentInv,
           DataIsOwn, pool, sync, call, result
<1>1. ASSUME NEW t \in Target, Upload(t)
      PROVE  DataInv'
  BY <1>1 DEF Upload, Call
<1>2. ASSUME NEW t \in Target, Download(t)
      PROVE  DataInv'
  BY <1>2 DEF Download, Call
<1>3. ASSUME NEW o \in Op, Fit(o)
      PROVE  DataInv'
  BY <1>3 DEF Fit, Goto, Pool, Available
<1>4. ASSUME NEW o \in Op, Expand(o)
      PROVE  DataInv'
  BY <1>4 DEF Expand, Resized, Goto, Pool, Available
<1>5. ASSUME NEW o \in Op, ExpandFails(o)
      PROVE  DataInv'
  BY <1>5 DEF ExpandFails, Pool, Available
<1>6. ASSUME NEW o \in Op, CreateOp(o)
      PROVE  DataInv'
  BY <1>6 DEF CreateOp, NewOp, Unmade, NothingExpands, Resized, Goto
<1>7. CASE NothingFits
  BY <1>7 DEF NothingFits, Goto
<1>8. CASE NoOpLeft
  BY <1>8 DEF NoOpLeft, NothingExpands, Return
<1>9. CASE Reserve
  BY <1>9 DEF Reserve, Requested, Goto
<1>10. CASE ReserveFails
  BY <1>10 DEF ReserveFails, Return
<1>11. CASE Write
  BY <1>11 DEF Write, Goto
<1>12. CASE Submit
  BY <1>12 DEF Submit, Fenced, Return
<1>13. CASE SubmitCopy
  BY <1>13 DEF SubmitCopy, Goto
<1>14. CASE SubmitFinish
  BY <1>14 DEF SubmitFinish, Fenced, Return
<1>15. CASE ReadBack
  BY <1>15 DEF ReadBack, Return
<1>16. CASE StepFails \/ SubmitFails
  BY <1>16 DEF StepFails, SubmitFails, GiveUp, Return
<1>17. ASSUME NEW o \in Op, Copy(o)
      PROVE  DataInv'
  BY <1>17 DEF Copy, Signaled
<1>18. ASSUME NEW o \in Op, Finish(o)
      PROVE  DataInv'
  BY <1>18 DEF Finish, Signaled
<1>19. ASSUME NEW o \in Op, FenceFails(o)
      PROVE  DataInv'
  BY <1>19 DEF FenceFails, NewOp, Unmade, NothingExpands, Return
<1>20. ASSUME NEW o \in Op, SemaphoreFails(o)
      PROVE  DataInv'
  BY <1>20 DEF SemaphoreFails, NewOp, Unmade, NothingExpands, Resized, Return
<1>21. CASE SubmitLoose
  BY <1>21 DEF SubmitLoose, Goto
<1>22. ASSUME NEW o \in Op, CopyLoose(o)
      PROVE  DataInv'
  BY <1>22 DEF CopyLoose
<1>23. CASE UNCHANGED vars
  BY <1>23 DEF vars
<1>24. QED
  BY <1>1, <1>2, <1>3, <1>4, <1>5, <1>6, <1>7, <1>8, <1>9, <1>10,
     <1>11, <1>12, <1>13, <1>14, <1>15, <1>16, <1>17, <1>18, <1>19, <1>20,
     <1>21, <1>22, <1>23
     DEF Next, Begin, Search, Transfer, Device

(***************************************************************************)
(* However many threads load, and whatever fails, no buffer and no image   *)
(* receives the bytes of another one, but an image whose copy was ever     *)
(* submitted by an operation whose semaphore could not be created.         *)
(***************************************************************************)
THEOREM UploadsIntact == Spec => []DataIsOwn
<1>1. Spec => []DataInv
  BY UseCorrect, DataInit, DataStep, PTL DEF Spec
<1>2. DataInv => DataIsOwn
  BY DEF DataInv
<1>3. QED
  BY <1>1, <1>2, PTL

-----------------------------------------------------------------------------
(***************************************************************************)
(* The first half of a chained upload has been copied, or is to be.        *)
(***************************************************************************)
HalfInv ==
    place = "finish" =>
        data[target] = target \/ copying[op] = target \/ target \in astray

LandingInv == HalfInv /\ UploadsUnderWay

LEMMA LandingStep ==
    TypeInv /\ UseInv /\ DataInv /\ LandingInv /\ [Next]_vars => LandingInv'
<1> SUFFICES ASSUME TypeInv, UseInv, DataInv, LandingInv, [Next]_vars
             PROVE  LandingInv'
  OBVIOUS
<1> USE OpsAssumption, TargetsAssumption DEF TypeInv, TypeOK, CallInv, UseInv, FenceInv, LooseInv, PlaceInv, DataInv, ContentInv,
           DataIsOwn, LandingInv, HalfInv, UploadsUnderWay, pool, sync, call, result
<1>1. ASSUME NEW t \in Target, Upload(t)
      PROVE  LandingInv'
  BY <1>1 DEF Upload, Call
<1>2. ASSUME NEW t \in Target, Download(t)
      PROVE  LandingInv'
  BY <1>2 DEF Download, Call
<1>3. ASSUME NEW o \in Op, Fit(o)
      PROVE  LandingInv'
  BY <1>3 DEF Fit, Goto, Pool, Available
<1>4. ASSUME NEW o \in Op, Expand(o)
      PROVE  LandingInv'
  BY <1>4 DEF Expand, Resized, Goto, Pool, Available
<1>5. ASSUME NEW o \in Op, ExpandFails(o)
      PROVE  LandingInv'
  BY <1>5 DEF ExpandFails, Pool, Available
<1>6. ASSUME NEW o \in Op, CreateOp(o)
      PROVE  LandingInv'
  BY <1>6 DEF CreateOp, NewOp, Unmade, NothingExpands, Resized, Goto
<1>7. CASE NothingFits
  BY <1>7 DEF NothingFits, Goto
<1>8. CASE NoOpLeft
  BY <1>8 DEF NoOpLeft, NothingExpands, Return
<1>9. CASE Reserve
  BY <1>9 DEF Reserve, Requested, Goto
<1>10. CASE ReserveFails
  BY <1>10 DEF ReserveFails, Return
<1>11. CASE Write
  BY <1>11 DEF Write, Goto
<1>12. CASE Submit
  BY <1>12 DEF Submit, Fenced, Return
<1>13. CASE SubmitCopy
  BY <1>13 DEF SubmitCopy, Goto
<1>14. CASE SubmitFinish
  BY <1>14 DEF SubmitFinish, Fenced, Return
<1>15. CASE ReadBack
  BY <1>15 DEF ReadBack, Return
<1>16. CASE StepFails \/ SubmitFails
  BY <1>16 DEF StepFails, SubmitFails, GiveUp, Return
<1>17. ASSUME NEW o \in Op, Copy(o)
      PROVE  LandingInv'
  BY <1>17 DEF Copy, Signaled
<1>18. ASSUME NEW o \in Op, Finish(o)
      PROVE  LandingInv'
  BY <1>18 DEF Finish, Signaled
<1>19. ASSUME NEW o \in Op, FenceFails(o)
      PROVE  LandingInv'
  BY <1>19 DEF FenceFails, NewOp, Unmade, NothingExpands, Return
<1>20. ASSUME NEW o \in Op, SemaphoreFails(o)
      PROVE  LandingInv'
  BY <1>20 DEF SemaphoreFails, NewOp, Unmade, NothingExpands, Resized, Return
<1>21. CASE SubmitLoose
  BY <1>21 DEF SubmitLoose, Goto
<1>22. ASSUME NEW o \in Op, CopyLoose(o)
      PROVE  LandingInv'
  BY <1>22 DEF CopyLoose
<1>23. CASE UNCHANGED vars
  BY <1>23 DEF vars
<1>24. QED
  BY <1>1, <1>2, <1>3, <1>4, <1>5, <1>6, <1>7, <1>8, <1>9, <1>10,
     <1>11, <1>12, <1>13, <1>14, <1>15, <1>16, <1>17, <1>18, <1>19, <1>20,
     <1>21, <1>22, <1>23
     DEF Next, Begin, Search, Transfer, Device

\* Whatever fails, what a caller was told is uploaded is there, or its copy is
\* submitted and nothing has touched its bytes, or was submitted with no
\* semaphore.
THEOREM UploadsOnTheWay == Spec => []UploadsUnderWay
<1>1. Init => LandingInv
  BY DEF Init, LandingInv, HalfInv, UploadsUnderWay
<1>2. LandingInv => UploadsUnderWay
  BY DEF LandingInv
<1>3. QED
  BY <1>1, <1>2, TypeInit, TypeStep, UseInit, UseStep, DataInit, DataStep, LandingStep, PTL
     DEF Spec

-----------------------------------------------------------------------------
(***************************************************************************)
(* The fence of an operation that nobody uses is signaled or will be, and  *)
(* the copy of a pair under way is before its second half.                 *)
(***************************************************************************)
SignalInv ==
    /\ \A o \in made \ spent : Available(o) \/ o = op \/ fence[o] = "pending"
    /\ \A o \in Op : fence[o] = "pending" =>
           copying[o] \in Target \ Chained \/ finishing[o] # NoTarget

LEMMA SignalStep ==
    TypeInv /\ UseInv /\ SignalInv /\ [Next]_vars => SignalInv'
<1> SUFFICES ASSUME TypeInv, UseInv, SignalInv, [Next]_vars
             PROVE  SignalInv'
  OBVIOUS
<1> USE OpsAssumption, TargetsAssumption DEF TypeInv, TypeOK, CallInv, UseInv, FenceInv, ChainInv, PlaceInv,
           SignalInv, Available, pool, sync, call, result
<1>1. ASSUME NEW t \in Target, Upload(t)
      PROVE  SignalInv'
  BY <1>1 DEF Upload, Call
<1>2. ASSUME NEW t \in Target, Download(t)
      PROVE  SignalInv'
  BY <1>2 DEF Download, Call
<1>3. ASSUME NEW o \in Op, Fit(o)
      PROVE  SignalInv'
  BY <1>3 DEF Fit, Goto, Pool
<1>4. ASSUME NEW o \in Op, Expand(o)
      PROVE  SignalInv'
  BY <1>4 DEF Expand, Resized, Goto, Pool
<1>5. ASSUME NEW o \in Op, ExpandFails(o)
      PROVE  SignalInv'
  BY <1>5 DEF ExpandFails, Pool
<1>6. ASSUME NEW o \in Op, CreateOp(o)
      PROVE  SignalInv'
  BY <1>6 DEF CreateOp, NewOp, Unmade, NothingExpands, Resized, Goto
<1>7. CASE NothingFits
  BY <1>7 DEF NothingFits, Goto
<1>8. CASE NoOpLeft
  BY <1>8 DEF NoOpLeft, NothingExpands, Return
<1>9. CASE Reserve
  BY <1>9 DEF Reserve, Requested, Goto
<1>10. CASE ReserveFails
  BY <1>10 DEF ReserveFails, Return
<1>11. CASE Write
  BY <1>11 DEF Write, Goto
<1>12. CASE Submit
  BY <1>12 DEF Submit, Fenced, Return
<1>13. CASE SubmitCopy
  BY <1>13 DEF SubmitCopy, Goto
<1>14. CASE SubmitFinish
  BY <1>14 DEF SubmitFinish, Fenced, Return
<1>15. CASE ReadBack
  BY <1>15 DEF ReadBack, Return
<1>16. CASE StepFails \/ SubmitFails
  BY <1>16 DEF StepFails, SubmitFails, GiveUp, Return
<1>17. ASSUME NEW o \in Op, Copy(o)
      PROVE  SignalInv'
  BY <1>17 DEF Copy, Signaled
<1>18. ASSUME NEW o \in Op, Finish(o)
      PROVE  SignalInv'
  BY <1>18 DEF Finish, Signaled
<1>19. ASSUME NEW o \in Op, FenceFails(o)
      PROVE  SignalInv'
  BY <1>19 DEF FenceFails, NewOp, Unmade, NothingExpands, Return
<1>20. ASSUME NEW o \in Op, SemaphoreFails(o)
      PROVE  SignalInv'
  BY <1>20 DEF SemaphoreFails, NewOp, Unmade, NothingExpands, Resized, Return
<1>21. CASE SubmitLoose
  BY <1>21 DEF SubmitLoose, Goto
<1>22. ASSUME NEW o \in Op, CopyLoose(o)
      PROVE  SignalInv'
  BY <1>22 DEF CopyLoose
<1>23. CASE UNCHANGED vars
  BY <1>23 DEF vars
<1>24. QED
  BY <1>1, <1>2, <1>3, <1>4, <1>5, <1>6, <1>7, <1>8, <1>9, <1>10,
     <1>11, <1>12, <1>13, <1>14, <1>15, <1>16, <1>17, <1>18, <1>19, <1>20,
     <1>21, <1>22, <1>23
     DEF Next, Begin, Search, Transfer, Device

\* Wherever transfers fail, an operation that is neither in use nor given up is
\* available, or the device has all it needs to signal its fence.
THEOREM OperationsKept == Spec => []NoOperationLost
<1>1. Init => SignalInv
  BY DEF Init, SignalInv
<1>2. TypeInv /\ UseInv /\ SignalInv => NoOperationLost
  <2> SUFFICES ASSUME TypeInv, UseInv, SignalInv, NEW o \in made \ spent,
                      fence[o] = "pending"
               PROVE  WillSignal(o)
    BY DEF NoOperationLost, SignalInv
  <2>1. o \in Op /\ semaphore[o] \in {"free", "pending", "signaled", "null"}
    BY DEF TypeInv, TypeOK
  <2>2. QED
    BY <2>1 DEF WillSignal, SignalInv, UseInv, ChainInv
<1>3. QED
  BY <1>1, <1>2, TypeInit, TypeStep, UseInit, UseStep, SignalStep, PTL DEF Spec
==============================================================================
