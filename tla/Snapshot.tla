------------------------------ MODULE Snapshot ------------------------------
(***************************************************************************)
(* What the rendering thread is promised of the scene the logics thread    *)
(* updates (src/src/Scenes/Scene.hpp, publishStateForRendering): states    *)
(* follow one another, and each pass of a frame reads the whole of one of  *)
(* them, the latest there was when the pass began.  A picture has what its *)
(* passes read.                                                            *)
(***************************************************************************)
EXTENDS Naturals

VARIABLES
    state,      \* the number of the latest state
    reading,    \* a pass is in progress
    taken,      \* the state it reads, 0 between passes
    picture,    \* the states the frame in progress has read
    shown       \* the states the last picture is made of

vars == <<state, reading, taken, picture, shown>>

Init == state = 0 /\ reading = FALSE /\ taken = 0 /\ picture = {} /\ shown = {0}

Advance ==
    /\ state' = state + 1
    /\ UNCHANGED <<reading, taken, picture, shown>>

\* A pass of the frame, or the first of another: what was read is dropped.
Begin ==
    /\ ~ reading
    /\ reading' = TRUE
    /\ taken' = state
    /\ picture' \in {picture, {}}
    /\ UNCHANGED <<state, shown>>

\* The end of a pass, which may be the last of the frame.
End ==
    /\ reading
    /\ reading' = FALSE
    /\ taken' = 0
    /\ \/ picture' = picture \union {taken} /\ UNCHANGED shown
       \/ picture' = {} /\ shown' = picture \union {taken}
    /\ UNCHANGED state

Next == Advance \/ Begin \/ End

Spec == Init /\ [][Next]_vars
=============================================================================
