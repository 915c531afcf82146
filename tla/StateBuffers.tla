---------------------------- MODULE StateBuffers ----------------------------
(***************************************************************************)
(* The two render states of every entity and point of view of a scene      *)
(* (src/src/Scenes/Scene.rendering.cpp).  The logics thread copies its     *)
(* state, part by part, into the one the rendering thread is not told of,  *)
(* then stores the index (publishStateForRendering).  No lock is shared    *)
(* for it: each pass of a frame loads the index and reads the parts at it. *)
(*                                                                         *)
(* A part is what is copied or read in one go: the coordinates of an       *)
(* entity, the matrices of a point of view.  A state is its number.  The   *)
(* set of parts is fixed here, and the logics thread is the only writer of *)
(* the state it publishes.                                                 *)
(***************************************************************************)
EXTENDS Integers

CONSTANTS
    Part,           \* what is published and read
    MaxPublished,   \* a bound on the publications
    QuickPasses     \* whether a pass is over before the second publication
                    \* from its beginning starts

ASSUME PartAssumption == Part # {}

ASSUME PublicationsAssumption == MaxPublished \in Nat

ASSUME PassesAssumption == QuickPasses \in BOOLEAN

Pass == {"upload", "cast", "texture", "draw", "archive"}

VARIABLES
    published,          \* the number of the state at renderStateIndex
    renderStateIndex,   \* m_renderStateIndex
    renderState,        \* m_renderState, m_renderStateCoordinates of every part
    written,            \* the parts the publication in progress has copied
    pass,               \* what the rendering thread reads the states for
    last,               \* its former pass
    readStateIndex,     \* the index the pass reads at
    currentReadStateIndex,  \* Renderer::m_currentReadStateIndex
    effects,            \* post-processing is active in this frame
    seen,               \* the parts the pass has read, with their numbers
    taken,              \* the state the pass ought to see
    picture,            \* the states the passes of the frame have read so far
    shown,              \* the states all passes of the last frame have read
    drawn,              \* the states its pass "draw" has read
    archived            \* the states the archive of the last frame has

logics == <<published, renderStateIndex, renderState, written>>
frame ==
    <<pass, last, readStateIndex, currentReadStateIndex, effects, picture>>
history == <<shown, drawn, archived>>
vars == <<logics, frame, seen, taken, history>>

Index == {0, 1}

Init ==
    /\ published = 0
    /\ renderStateIndex = 0
    /\ renderState = [i \in Index |-> [c \in Part |-> 0]]
    /\ written = {}
    /\ pass = "none"
    /\ last = "archive"
    /\ readStateIndex = 0
    /\ currentReadStateIndex = 0
    /\ effects = FALSE
    /\ seen = [c \in {} |-> 0]
    /\ taken = 0
    /\ picture = {}
    /\ shown = {0}
    /\ drawn = {0}
    /\ archived = {0}

(***************************************************************************)
(* The logics thread: publishStateForRendering().                          *)
(***************************************************************************)
\* Mutant of NextTarget: the state in use is written to.
NextTargetInUse == renderStateIndex

NextTarget == 1 - renderStateIndex

\* The rendering thread is to read at readStateIndex, or will again.
\* The archive follows the draw, at the same index if it was recorded.
Reading ==
    \/ pass \in Pass \ {"archive"}
    \/ effects /\ (pass = "archive" \/ last = "draw")

\* A publication starts with its first copy.
MayStart ==
    /\ published < MaxPublished
    /\ QuickPasses /\ Reading => readStateIndex = renderStateIndex

Write(c) ==
    /\ c \notin written
    /\ written = {} => MayStart
    /\ renderState' = [renderState EXCEPT ![NextTarget][c] = published + 1]
    /\ written' = written \union {c}
    /\ UNCHANGED <<published, renderStateIndex, frame, seen, taken, history>>

\* Mutant of Complete: the index is stored once something is copied.
CompleteInPart == written # {}

Complete == written = Part

Publish ==
    /\ Complete
    /\ written # {}
    /\ renderStateIndex' = NextTarget
    /\ published' = published + 1
    /\ written' = {}
    /\ UNCHANGED <<renderState, frame, seen, taken, history>>

(***************************************************************************)
(* The rendering thread: the passes of a frame.  The view matrices are     *)
(* uploaded, shadow maps cast, textures rendered to, the scene drawn, and  *)
(* the view it was drawn with archived.  A frame may end before it draws.  *)
(* Its picture is made of what all its passes before the archive read,     *)
(* each at an index of its own; a shadow map or a texture of a former      *)
(* frame is not counted in it.                                             *)
(***************************************************************************)
Following ==
    CASE last = "upload" -> {"cast", "texture", "draw", "upload"}
      [] last = "cast" -> {"cast", "texture", "draw", "upload"}
      [] last = "texture" -> {"texture", "draw", "upload"}
      [] last = "draw" -> {"archive"}
      [] last = "archive" -> {"upload"}

\* Mutant of Loaded: the index is the one being written.
LoadedNext == NextTarget

Loaded == renderStateIndex

BeginPass(p) ==
    /\ pass = "none"
    /\ p \in Following \ {"archive"}
    /\ pass' = p
    /\ readStateIndex' = Loaded
    /\ taken' = published
    /\ picture' = IF p = "upload" THEN {} ELSE picture
    /\ effects' \in IF p = "draw" THEN BOOLEAN ELSE {effects}
    /\ UNCHANGED <<logics, last, currentReadStateIndex, seen, history>>

\* The archive reads at m_currentReadStateIndex.
BeginArchive ==
    /\ pass = "none"
    /\ "archive" \in Following
    /\ pass' = "archive"
    /\ readStateIndex' = currentReadStateIndex
    /\ UNCHANGED <<logics, last, currentReadStateIndex, effects, picture, seen,
                   taken, history>>

ReadPart(c) ==
    /\ pass # "none"
    /\ c \notin DOMAIN seen
    /\ seen' = [d \in DOMAIN seen \union {c} |->
                    IF d = c THEN renderState[readStateIndex][c] ELSE seen[d]]
    /\ UNCHANGED <<logics, frame, taken, history>>

\* Only frames with post-processing record the index they were drawn at.
\* Mutant of Recorded: the index is loaded again.
RecordedAgain == IF effects THEN renderStateIndex ELSE currentReadStateIndex

Recorded == IF effects THEN readStateIndex ELSE currentReadStateIndex

States == {seen[c] : c \in DOMAIN seen}

EndPass ==
    /\ pass # "none"
    /\ DOMAIN seen = Part
    /\ pass' = "none"
    /\ last' = pass
    /\ seen' = [c \in {} |-> 0]
    /\ picture' = IF pass \in {"draw", "archive"}
                  THEN {} ELSE picture \union States
    /\ shown' = IF pass = "draw" THEN picture \union States ELSE shown
    /\ drawn' = IF pass = "draw" THEN States ELSE drawn
    /\ archived' = IF pass = "archive" THEN States ELSE archived
    /\ currentReadStateIndex' =
           IF pass = "draw" THEN Recorded ELSE currentReadStateIndex
    /\ UNCHANGED <<logics, readStateIndex, effects, taken>>

(***************************************************************************)
(* The specification.                                                      *)
(***************************************************************************)
LogicsStep == (\E c \in Part : Write(c)) \/ Publish

RenderStep ==
    \/ \E p \in Pass : BeginPass(p)
    \/ BeginArchive
    \/ \E c \in Part : ReadPart(c)
    \/ EndPass

Next == LogicsStep \/ RenderStep

Spec == Init /\ [][Next]_vars

\* Both threads run, and a frame in the end has an image to draw to.
FairSpec ==
    /\ Spec
    /\ WF_vars(LogicsStep)
    /\ WF_vars(RenderStep)
    /\ SF_vars(BeginPass("draw"))

-----------------------------------------------------------------------------
TypeOK ==
    /\ published \in 0 .. MaxPublished
    /\ renderStateIndex \in Index
    /\ renderState \in [Index -> [Part -> 0 .. MaxPublished]]
    /\ written \in SUBSET Part
    /\ pass \in Pass \union {"none"}
    /\ last \in Pass
    /\ readStateIndex \in Index
    /\ currentReadStateIndex \in Index
    /\ effects \in BOOLEAN
    /\ DOMAIN seen \in SUBSET Part
    /\ \A c \in DOMAIN seen : seen[c] \in 0 .. MaxPublished
    /\ taken \in 0 .. MaxPublished
    /\ picture \in SUBSET (0 .. MaxPublished)
    /\ shown \in SUBSET (0 .. MaxPublished)
    /\ drawn \in SUBSET (0 .. MaxPublished)
    /\ archived \in SUBSET (0 .. MaxPublished)

(***************************************************************************)
(* A pass sees the parts of one state, that of the index it loaded, though *)
(* the logics thread publishes meanwhile.                                  *)
(***************************************************************************)
PassIsWhole == Reading => \A c \in DOMAIN seen : seen[c] = taken

(***************************************************************************)
(* The archive has the state the pass that draws has read                  *)
(* (archiveStateAfterRendering), in the frames that record the index.      *)
(***************************************************************************)
HistoryIsDrawn ==
    last = "archive" /\ effects => archived = drawn

(***************************************************************************)
(* A state is never followed on the screen by a former one: nothing in a   *)
(* picture is older than anything in the one before it.                    *)
(***************************************************************************)
NeverBack ==
    [][pass = "draw" /\ pass' = "none" =>
           \A old \in shown, new \in shown' : old <= new]_vars

(***************************************************************************)
(* Each pass of a frame reads an atomic snapshot: a picture has the whole  *)
(* of the latest state at the beginning of each of its passes, the view    *)
(* matrices' as well as the draw's.  They may be different states: a frame *)
(* as a whole is not a snapshot (PictureIsOneState).                       *)
(***************************************************************************)
Promise ==
    INSTANCE Snapshot WITH
        state <- published,
        reading <- pass \in Pass \ {"archive"},
        taken <- IF pass \in Pass \ {"archive"} THEN taken ELSE 0

Snapshots == Promise!Spec

(***************************************************************************)
(* A published state is shown, or a later one, in all of a picture.        *)
(***************************************************************************)
PublishedIsDrawn ==
    \A n \in 0 .. MaxPublished :
        published >= n ~> \A s \in shown : s >= n

-----------------------------------------------------------------------------
(***************************************************************************)
(* What the comments of the code say of it.                                *)
(***************************************************************************)

(***************************************************************************)
(* ViewMatricesInterface.hpp:368, of the state to archive: "The render     *)
(* state-valid index the frame was rendered with."                         *)
(***************************************************************************)
HistoryIsAlwaysDrawn == last = "archive" => archived = drawn

(***************************************************************************)
(* Scene.hpp:415-416: "the render thread reads a consistent, stable        *)
(* snapshot of the scene".                                                 *)
(***************************************************************************)
SnapshotIsStable == pass # "archive" => \A c, d \in DOMAIN seen : seen[c] = seen[d]

(***************************************************************************)
(* The same words, of the whole frame: the view matrices it was drawn with *)
(* and the entities it has are of one state.                               *)
(***************************************************************************)
PictureIsOneState == \A a, b \in shown : a = b
=============================================================================
