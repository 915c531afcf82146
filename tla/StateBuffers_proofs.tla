------------------------- MODULE StateBuffers_proofs -------------------------
(***************************************************************************)
(* What is proved of StateBuffers for every set of parts and any number of *)
(* publications.                                                           *)
(***************************************************************************)
EXTENDS StateBuffers, TLAPS

USE PartAssumption, PublicationsAssumption

(***************************************************************************)
(* The places, the numbers and the indices.                                *)
(***************************************************************************)
PlacesInv ==
    /\ published \in 0 .. MaxPublished
    /\ renderStateIndex \in Index
    /\ renderState \in [Index -> [Part -> 0 .. MaxPublished]]
    /\ written \in SUBSET Part
    /\ pass \in Pass \union {"none"}
    /\ last \in Pass
    /\ readStateIndex \in Index
    /\ currentReadStateIndex \in Index
    /\ taken \in 0 .. MaxPublished
    /\ written # {} => published < MaxPublished
    /\ DOMAIN seen \in SUBSET Part

LEMMA PlacesInit == Init => PlacesInv
BY DEF Init, PlacesInv, Index, Pass

LEMMA PlacesStep == PlacesInv /\ [Next]_vars => PlacesInv'
<1> SUFFICES ASSUME PlacesInv, [Next]_vars
             PROVE  PlacesInv'
  OBVIOUS
<1> USE DEF PlacesInv, Index
<1>1. ASSUME NEW c \in Part, Write(c)
      PROVE  PlacesInv'
  <2>1. NextTarget \in Index /\ published + 1 \in 0 .. MaxPublished
    BY <1>1 DEF Write, MayStart, NextTarget
  <2>2. renderState' \in [Index -> [Part -> 0 .. MaxPublished]]
    BY <1>1, <2>1 DEF Write
  <2>3. written' \in SUBSET Part /\ published' < MaxPublished
    BY <1>1 DEF Write, MayStart
  <2>4. QED
    BY <1>1, <2>2, <2>3 DEF Write, frame
<1>2. CASE Publish
  BY <1>2 DEF Publish, NextTarget, frame
<1>3. ASSUME NEW p \in Pass, BeginPass(p)
      PROVE  PlacesInv'
  BY <1>3 DEF BeginPass, Loaded, logics
<1>4. CASE BeginArchive
  BY <1>4 DEF BeginArchive, logics, Pass
<1>5. ASSUME NEW c \in Part, ReadPart(c)
      PROVE  PlacesInv'
  BY <1>5 DEF ReadPart, logics, frame
<1>6. CASE EndPass
  <2>1. currentReadStateIndex' \in Index
    BY <1>6 DEF EndPass, Recorded
  <2>2. QED
    BY <1>6, <2>1 DEF EndPass, logics
<1>7. CASE UNCHANGED vars
  BY <1>7 DEF vars, logics, frame
<1>8. QED
  BY <1>1, <1>2, <1>3, <1>4, <1>5, <1>6, <1>7
     DEF Next, LogicsStep, RenderStep

\* The numbers read, and what the history has of them.
ValuesInv ==
    /\ \A c \in DOMAIN seen : seen[c] \in 0 .. MaxPublished
    /\ picture \in SUBSET (0 .. MaxPublished)
    /\ shown \in SUBSET (0 .. MaxPublished)
    /\ drawn \in SUBSET (0 .. MaxPublished)
    /\ archived \in SUBSET (0 .. MaxPublished)

LEMMA ValuesInit == Init => ValuesInv
BY DEF Init, ValuesInv

LEMMA ValuesStep ==
    ASSUME PlacesInv, ValuesInv, [Next]_vars
    PROVE  ValuesInv'
<1> USE DEF ValuesInv
<1>1. CASE LogicsStep
  BY <1>1 DEF LogicsStep, Write, Publish, frame, history
<1>2. CASE (\E p \in Pass : BeginPass(p)) \/ BeginArchive
  BY <1>2 DEF BeginPass, BeginArchive, history
<1>3. ASSUME NEW c \in Part, ReadPart(c)
      PROVE  ValuesInv'
  BY <1>3 DEF ReadPart, frame, history, PlacesInv
<1>4. CASE EndPass
  <2>1. States \in SUBSET (0 .. MaxPublished)
    BY DEF States
  <2>2. QED
    BY <1>4, <2>1 DEF EndPass
<1>5. CASE UNCHANGED vars
  BY <1>5 DEF vars, frame, history
<1>6. QED
  BY <1>1, <1>2, <1>3, <1>4, <1>5 DEF Next, RenderStep

EffectsInv == effects \in BOOLEAN

LEMMA EffectsStep == EffectsInv /\ [Next]_vars => EffectsInv'
<1> SUFFICES ASSUME EffectsInv, [Next]_vars
             PROVE  EffectsInv'
  OBVIOUS
<1> USE DEF EffectsInv
<1>1. CASE LogicsStep
  BY <1>1, Zenon DEF LogicsStep, Write, Publish, frame
<1>2. ASSUME NEW p \in Pass, BeginPass(p)
      PROVE  EffectsInv'
  <2>1. CASE p = "draw"
    BY <1>2, <2>1, Zenon DEF BeginPass
  <2>2. CASE p # "draw"
    <3>1. effects' \in {effects}
      BY <1>2, <2>2, Zenon DEF BeginPass
    <3>2. QED
      BY <3>1, Zenon
  <2>3. QED
    BY <2>1, <2>2
<1>3. CASE BeginArchive \/ EndPass
  BY <1>3, Zenon DEF BeginArchive, EndPass
<1>4. CASE \E c \in Part : ReadPart(c)
  BY <1>4, Zenon DEF ReadPart, frame
<1>5. CASE UNCHANGED vars
  BY <1>5, Zenon DEF vars, frame
<1>6. QED
  BY <1>1, <1>2, <1>3, <1>4, <1>5, Zenon DEF Next, RenderStep

(***************************************************************************)
(* The two buffers of every part and the index stay in their types,        *)
(* however long a pass lasts.                                              *)
(***************************************************************************)
THEOREM TypeCorrect == Spec => []TypeOK
<1> DEFINE Types == PlacesInv /\ ValuesInv /\ EffectsInv
<1>1. Init => EffectsInv
  BY Zenon DEF Init, EffectsInv
<1>2. Init => Types
  BY <1>1, PlacesInit, ValuesInit
<1>3. Types /\ [Next]_vars => Types'
  BY PlacesStep, ValuesStep, EffectsStep
<1>4. Types => TypeOK
  BY DEF PlacesInv, ValuesInv, EffectsInv, TypeOK
<1> HIDE DEF Types
<1>5. QED
  BY <1>2, <1>3, <1>4, PTL DEF Spec

(***************************************************************************)
(* What the buffers hold.  The one told to the rendering thread has the    *)
(* published state; the other gets the next; and while the rendering       *)
(* thread needs the buffer it reads, nothing is written to it.             *)
(***************************************************************************)
PublishedWhole == \A c \in Part : renderState[renderStateIndex][c] = published

WrittenNext == \A c \in written : renderState[NextTarget][c] = published + 1

ReadIsTaken ==
    Reading =>
        /\ \A c \in Part : renderState[readStateIndex][c] = taken
        /\ written # {} => readStateIndex = renderStateIndex

\* The archive follows the draw, at the index it recorded.
ArchiveFollows ==
    /\ pass = "archive" => last = "draw"
    /\ last = "draw" => pass \in {"none", "archive"}
    /\ effects /\ last = "draw" => currentReadStateIndex = readStateIndex

BuffersInv == PublishedWhole /\ WrittenNext /\ ReadIsTaken /\ ArchiveFollows

LEMMA BuffersInit == Init => BuffersInv
BY DEF Init, BuffersInv, PublishedWhole, WrittenNext, ReadIsTaken, Index,
       ArchiveFollows, Reading, Pass

LEMMA BuffersStep ==
    ASSUME QuickPasses, PlacesInv, BuffersInv, [Next]_vars
    PROVE  BuffersInv'
<1> USE DEF PlacesInv, BuffersInv, Index
<1>1. ASSUME NEW c \in Part, Write(c)
      PROVE  BuffersInv'
  <2>1. /\ UNCHANGED <<published, renderStateIndex, frame, taken>>
        /\ renderState' = [renderState EXCEPT ![NextTarget][c] = published + 1]
        /\ written' = written \union {c}
    BY <1>1 DEF Write
  <2>2. PublishedWhole'
    BY <2>1 DEF PublishedWhole, NextTarget
  <2>3. WrittenNext'
    BY <2>1 DEF WrittenNext, NextTarget
  <2>4. ReadIsTaken'
    <3>1. Reading' <=> Reading
      BY <2>1 DEF Reading, frame
    <3>2. Reading => readStateIndex = renderStateIndex
      BY <1>1 DEF Write, MayStart, ReadIsTaken
    <3>3. QED
      BY <2>1, <3>1, <3>2 DEF ReadIsTaken, NextTarget, frame
  <2>5. ArchiveFollows'
    BY <2>1 DEF ArchiveFollows, frame
  <2>6. QED
    BY <2>2, <2>3, <2>4, <2>5
<1>2. CASE Publish
  <2>1. /\ UNCHANGED <<renderState, frame, taken>>
        /\ written = Part /\ written' = {}
        /\ renderStateIndex' = NextTarget /\ published' = published + 1
    BY <1>2 DEF Publish, Complete
  <2>2. PublishedWhole' /\ WrittenNext'
    BY <2>1 DEF PublishedWhole, WrittenNext
  <2>3. ReadIsTaken' /\ ArchiveFollows'
    BY <2>1 DEF ReadIsTaken, ArchiveFollows, Reading, frame
  <2>4. QED
    BY <2>2, <2>3
<1>3. ASSUME NEW p \in Pass, BeginPass(p)
      PROVE  BuffersInv'
  <2>1. PublishedWhole' /\ WrittenNext'
    BY <1>3 DEF BeginPass, PublishedWhole, WrittenNext, NextTarget, logics
  <2>2. ReadIsTaken'
    BY <1>3 DEF BeginPass, Loaded, ReadIsTaken, PublishedWhole, logics
  <2>3. ArchiveFollows'
    BY <1>3 DEF BeginPass, ArchiveFollows, Following, Pass
  <2>4. QED
    BY <2>1, <2>2, <2>3
<1>4. CASE BeginArchive
  <2>1. last = "draw"
    BY <1>4 DEF BeginArchive, Following, Pass
  <2>2. PublishedWhole' /\ WrittenNext' /\ ArchiveFollows'
    BY <1>4, <2>1 DEF BeginArchive, PublishedWhole, WrittenNext, NextTarget,
                      logics, ArchiveFollows
  <2>3. ReadIsTaken'
    BY <1>4, <2>1 DEF BeginArchive, ReadIsTaken, Reading, ArchiveFollows,
                      logics, Pass
  <2>4. QED
    BY <2>2, <2>3
<1>5. ASSUME NEW c \in Part, ReadPart(c)
      PROVE  BuffersInv'
  BY <1>5 DEF ReadPart, logics, frame, PublishedWhole, WrittenNext, NextTarget,
              ReadIsTaken, Reading, ArchiveFollows
<1>6. CASE EndPass
  <2>1. PublishedWhole' /\ WrittenNext'
    BY <1>6 DEF EndPass, PublishedWhole, WrittenNext, NextTarget, logics
  <2>2. ReadIsTaken'
    BY <1>6 DEF EndPass, ReadIsTaken, Reading, ArchiveFollows, logics, Pass
  <2>3. ArchiveFollows'
    BY <1>6 DEF EndPass, ArchiveFollows, Recorded
  <2>4. QED
    BY <2>1, <2>2, <2>3
<1>7. CASE UNCHANGED vars
  BY <1>7 DEF vars, logics, frame, PublishedWhole, WrittenNext, NextTarget,
              ReadIsTaken, Reading, ArchiveFollows
<1>8. QED
  BY <1>1, <1>2, <1>3, <1>4, <1>5, <1>6, <1>7
     DEF Next, LogicsStep, RenderStep

(***************************************************************************)
(* What the passes have seen: one state, and from it the history.          *)
(***************************************************************************)
SeenIsTaken ==
    /\ PassIsWhole
    /\ pass = "none" => DOMAIN seen = {}

HistoryInv ==
    /\ effects /\ last = "draw" => drawn = {taken}
    /\ HistoryIsDrawn

OldIsOlder ==
    /\ \A n \in shown : n \in 0 .. published
    /\ \A n \in picture : n \in 0 .. published
    /\ \A n \in shown, m \in picture : n <= m
    /\ pass \in Pass \ {"archive"} => \A n \in shown : n <= taken
    /\ last = "draw" => picture = {}
    /\ taken <= published

SeenInv == SeenIsTaken /\ HistoryInv /\ OldIsOlder

LEMMA SeenInit == Init => SeenInv
BY DEF Init, SeenInv, SeenIsTaken, HistoryInv, OldIsOlder, PassIsWhole,
       HistoryIsDrawn

\* The states of a pass that has read every part.
LEMMA WholePass ==
    ASSUME PlacesInv, SeenIsTaken, Reading, DOMAIN seen = Part
    PROVE  States = {taken}
BY DEF SeenIsTaken, PassIsWhole, States

LEMMA SeenStep ==
    ASSUME PlacesInv, BuffersInv, SeenInv, [Next]_vars
    PROVE  SeenInv'
<1> USE DEF SeenInv, PlacesInv
<1>1. ASSUME NEW c \in Part, Write(c)
      PROVE  SeenInv'
  BY <1>1 DEF Write, frame, history, SeenIsTaken, HistoryInv, OldIsOlder,
              PassIsWhole, HistoryIsDrawn, Reading
<1>2. CASE Publish
  <2>1. /\ UNCHANGED <<frame, seen, taken, history>>
        /\ published' = published + 1
    BY <1>2 DEF Publish
  <2>2. SeenIsTaken' /\ HistoryInv'
    BY <2>1 DEF frame, history, SeenIsTaken, HistoryInv, PassIsWhole,
                HistoryIsDrawn, Reading
  <2>3. OldIsOlder'
    BY <2>1 DEF frame, history, OldIsOlder
  <2>4. QED
    BY <2>2, <2>3
<1>3. ASSUME NEW p \in Pass, BeginPass(p)
      PROVE  SeenInv'
  <2>1. SeenIsTaken'
    BY <1>3 DEF BeginPass, SeenIsTaken, PassIsWhole
  <2>2. HistoryInv'
    BY <1>3 DEF BeginPass, HistoryInv, HistoryIsDrawn, history, Following, Pass
  <2>3. OldIsOlder'
    <3>1. /\ UNCHANGED <<published, shown, last>>
          /\ taken' = published /\ pass' # "archive"
          /\ picture' = {} \/ picture' = picture
      BY <1>3 DEF BeginPass, logics, history
    <3>2. QED
      BY <3>1 DEF OldIsOlder
  <2>4. QED
    BY <2>1, <2>2, <2>3
<1>4. CASE BeginArchive
  <2>1. SeenIsTaken'
    BY <1>4 DEF BeginArchive, SeenIsTaken, PassIsWhole
  <2>2. HistoryInv' /\ OldIsOlder'
    BY <1>4 DEF BeginArchive, HistoryInv, HistoryIsDrawn, OldIsOlder, logics,
                history, Pass
  <2>3. QED
    BY <2>1, <2>2
<1>5. ASSUME NEW c \in Part, ReadPart(c)
      PROVE  SeenInv'
  <2>1. SeenIsTaken'
    <3>1. Reading' <=> Reading
      BY <1>5 DEF ReadPart, frame, Reading
    <3>2. Reading => renderState[readStateIndex][c] = taken
      BY DEF BuffersInv, ReadIsTaken
    <3>3. QED
      BY <1>5, <3>1, <3>2 DEF ReadPart, frame, SeenIsTaken, PassIsWhole
  <2>2. HistoryInv' /\ OldIsOlder'
    BY <1>5 DEF ReadPart, HistoryInv, HistoryIsDrawn, OldIsOlder, logics,
                frame, history
  <2>3. QED
    BY <2>1, <2>2
<1>6. CASE EndPass
  <2>1. SeenIsTaken'
    BY <1>6 DEF EndPass, SeenIsTaken, PassIsWhole
  <2>2. pass # "archive" \/ effects => States = {taken}
    BY <1>6, WholePass DEF EndPass, Reading
  <2>3. HistoryInv'
    <3>1. CASE pass = "draw"
      BY <1>6, <2>2, <3>1 DEF EndPass, HistoryInv, HistoryIsDrawn
    <3>2. CASE pass = "archive"
      <4>1. last = "draw"
        BY <3>2 DEF BuffersInv, ArchiveFollows
      <4>2. QED
        BY <1>6, <2>2, <3>2, <4>1 DEF EndPass, HistoryInv, HistoryIsDrawn
    <3>3. CASE pass \notin {"draw", "archive"}
      BY <1>6, <3>3 DEF EndPass, HistoryInv, HistoryIsDrawn
    <3>4. QED
      BY <3>1, <3>2, <3>3
  <2>4. OldIsOlder'
    <3>1. pass' = "none" /\ taken' = taken /\ published' = published
      BY <1>6 DEF EndPass, logics
    <3>2. taken \in 0 .. published
      BY DEF OldIsOlder
    <3>3. CASE pass = "draw"
      <4>1. picture' = {} /\ shown' = picture \union {taken}
        BY <1>6, <2>2, <3>3 DEF EndPass
      <4>2. QED
        BY <3>1, <3>2, <3>3, <4>1 DEF OldIsOlder, Pass
    <3>4. CASE pass = "archive"
      BY <1>6, <3>1, <3>4 DEF EndPass, OldIsOlder, Pass
    <3>5. CASE pass \notin {"draw", "archive"}
      <4>1. pass \in Pass \ {"archive"}
        BY <1>6, <3>5 DEF EndPass
      <4>2. picture' = picture \union {taken} /\ shown' = shown
        BY <1>6, <2>2, <3>5 DEF EndPass
      <4>3. QED
        BY <1>6, <3>1, <3>2, <3>5, <4>1, <4>2 DEF EndPass, OldIsOlder, Pass
    <3>6. QED
      BY <3>3, <3>4, <3>5
  <2>5. QED
    BY <2>1, <2>3, <2>4
<1>7. CASE UNCHANGED vars
  BY <1>7 DEF vars, logics, frame, history, SeenIsTaken, HistoryInv,
              OldIsOlder, PassIsWhole, HistoryIsDrawn, Reading
<1>8. QED
  BY <1>1, <1>2, <1>3, <1>4, <1>5, <1>6, <1>7
     DEF Next, LogicsStep, RenderStep

AllInv == PlacesInv /\ BuffersInv /\ SeenInv

LEMMA AllAlways ==
    ASSUME QuickPasses
    PROVE  Spec => []AllInv
<1>1. Init => AllInv
  BY PlacesInit, BuffersInit, SeenInit DEF AllInv
<1>2. AllInv /\ [Next]_vars => AllInv'
  BY PlacesStep, BuffersStep, SeenStep DEF AllInv
<1>3. QED
  BY <1>1, <1>2, PTL DEF Spec

(***************************************************************************)
(* A pass that is over before the second publication from its beginning    *)
(* sees the parts of one state, for any scene (Scene.hpp:415-416).         *)
(***************************************************************************)
THEOREM Whole ==
    ASSUME QuickPasses
    PROVE  Spec => []PassIsWhole
<1>1. AllInv => PassIsWhole
  BY DEF AllInv, SeenInv, SeenIsTaken
<1>2. QED
  BY <1>1, AllAlways, PTL

(***************************************************************************)
(* The archived view is the one the frame was drawn with, in the frames    *)
(* that record the index.                                                  *)
(***************************************************************************)
THEOREM History ==
    ASSUME QuickPasses
    PROVE  Spec => []HistoryIsDrawn
<1>1. AllInv => HistoryIsDrawn
  BY DEF AllInv, SeenInv, HistoryInv
<1>2. QED
  BY <1>1, AllAlways, PTL

(***************************************************************************)
(* Nothing in a picture is older than anything in the one before it.       *)
(***************************************************************************)
THEOREM Forward ==
    ASSUME QuickPasses
    PROVE  Spec => NeverBack
<1>1. ASSUME AllInv, [Next]_vars, pass = "draw", pass' = "none"
      PROVE  \A old \in shown, new \in shown' : old <= new
  <2>1. EndPass
    BY <1>1 DEF Next, LogicsStep, RenderStep, Write, Publish, BeginPass,
                BeginArchive, ReadPart, frame, vars, Pass
  <2>2. States = {taken}
    BY <1>1, <2>1, WholePass DEF EndPass, AllInv, SeenInv, Reading, Pass
  <2>3. shown' = picture \union {taken}
    BY <1>1, <2>1, <2>2 DEF EndPass
  <2>4. QED
    BY <1>1, <2>3 DEF AllInv, SeenInv, OldIsOlder, Pass
<1>2. QED
  BY <1>1, AllAlways, PTL DEF Spec, NeverBack

(***************************************************************************)
(* Every behaviour is one of Snapshot: each pass of a frame, the upload of *)
(* the view matrices as well as the draw, reads one whole state, the       *)
(* latest when it began, and a picture has what its passes read.           *)
(***************************************************************************)
LEMMA SnapshotStep ==
    ASSUME AllInv, [Next]_vars
    PROVE  [Promise!Next]_(Promise!vars)
<1> USE DEF Promise!Next, Promise!vars, Promise!Advance, Promise!Begin,
            Promise!End
<1>1. ASSUME NEW c \in Part, Write(c)
      PROVE  UNCHANGED Promise!vars
  BY <1>1 DEF Write, frame, history
<1>2. CASE Publish
  BY <1>2 DEF Publish, frame, history
<1>3. ASSUME NEW p \in Pass, BeginPass(p)
      PROVE  Promise!Begin
  BY <1>3 DEF BeginPass, Following, logics, history, Pass
<1>4. CASE BeginArchive
  BY <1>4 DEF BeginArchive, logics, history, Pass
<1>5. ASSUME NEW c \in Part, ReadPart(c)
      PROVE  UNCHANGED Promise!vars
  BY <1>5 DEF ReadPart, logics, frame, history
<1>6. CASE EndPass
  <2>1. CASE pass \in Pass \ {"archive"}
    <3>1. States = {taken}
      BY <1>6, <2>1, WholePass DEF EndPass, AllInv, SeenInv, Reading
    <3>2. QED
      BY <1>6, <2>1, <3>1 DEF EndPass, logics, Pass
  <2>2. CASE pass = "archive"
    BY <1>6, <2>2
       DEF EndPass, logics, AllInv, SeenInv, OldIsOlder, BuffersInv,
           ArchiveFollows, Pass
  <2>3. QED
    BY <1>6, <2>1, <2>2 DEF EndPass, AllInv, PlacesInv
<1>7. CASE UNCHANGED vars
  BY <1>7 DEF vars, logics, frame, history
<1>8. QED
  BY <1>1, <1>2, <1>3, <1>4, <1>5, <1>6, <1>7
     DEF Next, LogicsStep, RenderStep

THEOREM Implements ==
    ASSUME QuickPasses
    PROVE  Spec => Snapshots
<1>1. Init => Promise!Init
  BY DEF Init, Promise!Init, Pass
<1>2. AllInv /\ [Next]_vars => [Promise!Next]_(Promise!vars)
  BY SnapshotStep
<1>3. QED
  BY <1>1, <1>2, AllAlways, PTL DEF Spec, Snapshots, Promise!Spec
=============================================================================
