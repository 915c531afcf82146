---------------------------- MODULE TransferPool ----------------------------
(***************************************************************************)
(* The transfer manager of the device (Vulkan/TransferManager.cpp):        *)
(* threads that load resources upload buffers and images, one at a time    *)
(* under one mutex, and leave the copy to the device.  What an upload      *)
(* needs (staging buffer, command buffers, fence, semaphore) is an         *)
(* operation, which is kept and used again when its fence is signaled.     *)
(*                                                                         *)
(* An operation is listed before it is created, and stays listed when its  *)
(* creation fails.  One that lacks its semaphore only, which is created    *)
(* last, has a signaled fence: it is used as any other, and nothing orders *)
(* what it submits (the device is supposed to take VK_NULL_HANDLE for no   *)
(* semaphore).                                                             *)
(*                                                                         *)
(* A chained upload is in two submissions, of the copy and of what the     *)
(* graphics queue does with it, ordered by the semaphore; the fence is of  *)
(* the second.  Images are chained; buffers are if transfers have a queue  *)
(* family of their own.  Bytes are abstracted to whose they are.           *)
(***************************************************************************)
EXTENDS Naturals

CONSTANTS
    Target,     \* the buffers and images that are uploaded or downloaded
    Image,      \* the images of them
    Chained,    \* those whose upload is in two submissions
    Op,         \* the operations there may be
    ImageOp,    \* those of the images
    NoTarget,
    NoOp,
    MaxBytes,   \* the bound on sizes
    Bytes       \* what each target needs

ASSUME TargetsAssumption == Image \subseteq Chained /\ Chained \subseteq Target /\ NoTarget \notin Target

ASSUME OpsAssumption == ImageOp \subseteq Op /\ NoOp \notin Op

ASSUME BytesAssumption == MaxBytes \in Nat /\ Bytes \in [Target -> 1..MaxBytes]

VARIABLES
    made,       \* the operations of the two vectors
    bytes,      \* the capacity of their staging buffers
    whole,      \* the operations that have a staging buffer
    content,    \* what the staging buffers hold
    fence,      \* "ready", "reset", "pending"; "none": it was not created
    semaphore,  \* "free", "pending", "signaled"; "null": it was not created
    copying,    \* the submitted copies
    finishing,  \* the submitted second halves
    spent,      \* the operations given up: by a creation or an upload that failed,
                \* or by a download
    loose,      \* the copies submitted with no semaphore
    op,         \* the operation in use by the thread with the mutex
    target,     \* what it uploads or downloads
    place,      \* where it is
    tried,      \* the operations it could not expand
    uploaded,   \* the targets the callers were told are uploaded
    astray,     \* those whose copy was ever submitted with no semaphore
    data        \* what the targets hold

pool == <<made, bytes, whole, content>>
sync == <<fence, semaphore, copying, finishing, spent, loose>>
call == <<op, target, place, tried>>
result == <<uploaded, astray, data>>
vars == <<pool, sync, call, result>>

Init ==
    /\ made = {}
    /\ bytes = [o \in Op |-> 0]
    /\ whole = {}
    /\ content = [o \in Op |-> NoTarget]
    /\ fence = [o \in Op |-> "ready"]
    /\ semaphore = [o \in Op |-> "free"]
    /\ copying = [o \in Op |-> NoTarget]
    /\ finishing = [o \in Op |-> NoTarget]
    /\ spent = {}
    /\ loose = [o \in Op |-> {}]
    /\ op = NoOp
    /\ target = NoTarget
    /\ place = "idle"
    /\ tried = {}
    /\ uploaded = {}
    /\ astray = {}
    /\ data = [t \in Target |-> NoTarget]

(***************************************************************************)
(* A call has the mutex from its first line to its return.                 *)
(***************************************************************************)
Call(t, next) ==
    /\ place = "idle"
    /\ place' = next
    /\ target' = t
    /\ UNCHANGED <<op, tried, pool, sync, result>>

Upload(t) == t \notin uploaded /\ Call(t, "fit")

Download(t) == t \in uploaded \intersect Image /\ Call(t, "fit")

Downloads == target \in uploaded

Goto(o, next) == op' = o /\ place' = next /\ UNCHANGED <<target, tried>>

Return ==
    /\ op' = NoOp
    /\ target' = NoTarget
    /\ place' = "idle"
    /\ tried' = {}

(***************************************************************************)
(* getAndReserve*TransferOperation(): an available operation that is large *)
(* enough, else one that can be expanded, else a new one.                  *)
(***************************************************************************)
Pool == {o \in made : o \in ImageOp <=> target \in Image}

\* Mutant of Available: the fence is not looked at.
AvailableAlways(o) == TRUE

Available(o) == fence[o] = "ready"

Fit(o) ==
    /\ place = "fit"
    /\ o \in Pool
    /\ Available(o)
    /\ Bytes[target] <= bytes[o]
    /\ Goto(o, "reserve")
    /\ UNCHANGED <<pool, sync, result>>

NothingFits ==
    /\ place = "fit"
    /\ \A o \in Pool : ~ Available(o) \/ Bytes[target] > bytes[o]
    /\ Goto(NoOp, "expand")
    /\ UNCHANGED <<pool, sync, result>>

Resized(o) == [bytes EXCEPT ![o] = Bytes[target]]

\* Buffer::recreateOnHardware() stores the size before it creates.
Expand(o) ==
    /\ place = "expand"
    /\ o \in Pool \ tried
    /\ Available(o)
    /\ IF Bytes[target] <= bytes[o]
       THEN UNCHANGED pool
       ELSE /\ bytes' = Resized(o)
            /\ whole' = whole \union {o}
            /\ content' = [content EXCEPT ![o] = NoTarget]
            /\ UNCHANGED made
    /\ Goto(o, "reserve")
    /\ UNCHANGED <<sync, result>>

ExpandFails(o) ==
    /\ place = "expand"
    /\ o \in Pool \ tried
    /\ Available(o)
    /\ Bytes[target] > bytes[o]
    /\ bytes' = [bytes EXCEPT ![o] = Bytes[target]]
    /\ whole' = whole \ {o}
    /\ content' = [content EXCEPT ![o] = NoTarget]
    /\ tried' = tried \union {o}
    /\ UNCHANGED <<made, op, target, place, sync, result>>

NothingExpands ==
    /\ place = "expand"
    /\ \A o \in Pool \ tried : ~ Available(o)

\* The vectors grow at their end: which operation is the next does not matter.
Unmade == {o \in Op \ made : o \in ImageOp <=> target \in Image}

NewOp(o) ==
    /\ NothingExpands
    /\ o \in Unmade
    /\ o = CHOOSE next \in Unmade : TRUE
    /\ made' = made \union {o}

CreateOp(o) ==
    /\ NewOp(o)
    /\ bytes' = Resized(o)
    /\ whole' = whole \union {o}
    /\ Goto(o, "reserve")
    /\ UNCHANGED <<content, sync, result>>

\* The staging buffer, or the fence, could not be created: it is never available,
\* whatever else it has.
FenceFails(o) ==
    /\ NewOp(o)
    /\ fence' = [fence EXCEPT ![o] = "none"]
    /\ spent' = spent \union {o}
    /\ Return
    /\ UNCHANGED <<bytes, whole, content, semaphore, copying, finishing, loose, result>>

\* Of an image the semaphore comes after the fence, of a buffer before it.
SemaphoreFails(o) ==
    /\ NewOp(o)
    /\ o \in ImageOp
    /\ bytes' = Resized(o)
    /\ whole' = whole \union {o}
    /\ semaphore' = [semaphore EXCEPT ![o] = "null"]
    /\ Return
    /\ UNCHANGED <<content, fence, copying, finishing, spent, loose, result>>

\* The bound: no operation is left, the call fails.
NoOpLeft ==
    /\ NothingExpands
    /\ Unmade = {}
    /\ Return
    /\ UNCHANGED <<pool, sync, result>>

\* setRequestedForTransfer(), which resets the fence last.
\* Mutant of Requested: the fence is left as it is.
RequestedUnreset == fence

Requested == [fence EXCEPT ![op] = "reset"]

Reserve ==
    /\ place = "reserve"
    /\ fence' = Requested
    /\ Goto(op, IF Downloads THEN "download" ELSE "write")
    /\ UNCHANGED <<semaphore, copying, finishing, spent, loose, pool, result>>

ReserveFails ==
    /\ place = "reserve"
    /\ Return
    /\ UNCHANGED <<pool, sync, result>>

(***************************************************************************)
(* What is left of a call.  When a step fails, the operation has its fence *)
(* reset and nothing that will signal it.                                  *)
(***************************************************************************)
GiveUp ==
    /\ spent' = spent \union {op}
    /\ Return
    /\ UNCHANGED <<fence, semaphore, copying, finishing, loose, pool, result>>

StepFails == place \in {"write", "finish", "download"} /\ GiveUp

Write ==
    /\ place = "write"
    /\ op \in whole
    /\ content' = [content EXCEPT ![op] = target]
    /\ Goto(op, "submit")
    /\ UNCHANGED <<made, bytes, whole, sync, result>>

\* The copy of a buffer, with the fence.
\* Mutant of Fenced: the submission has no fence.
FencedNot == fence

Fenced == [fence EXCEPT ![op] = "pending"]

Submit ==
    /\ place = "submit"
    /\ target \notin Chained
    /\ copying' = [copying EXCEPT ![op] = target]
    /\ fence' = Fenced
    /\ uploaded' = uploaded \union {target}
    /\ Return
    /\ UNCHANGED <<semaphore, finishing, spent, loose, pool, astray, data>>

\* The first of two, which signals the semaphore if there is one.
SubmitCopy ==
    /\ place = "submit"
    /\ target \in Chained
    /\ semaphore[op] # "null"
    /\ copying' = [copying EXCEPT ![op] = target]
    /\ semaphore' = [semaphore EXCEPT ![op] = "pending"]
    /\ Goto(op, "finish")
    /\ UNCHANGED <<fence, finishing, spent, loose, pool, result>>

SubmitLoose ==
    /\ place = "submit"
    /\ target \in Chained
    /\ semaphore[op] = "null"
    /\ loose' = [loose EXCEPT ![op] = @ \union {target}]
    /\ astray' = astray \union {target}
    /\ Goto(op, "finish")
    /\ UNCHANGED <<fence, semaphore, copying, finishing, spent, pool, uploaded, data>>

\* Mutant of SubmitFails: the second is submitted all the same.
SubmitFailsIgnored ==
    /\ place = "submit"
    /\ IF target \in Chained
       THEN Goto(op, "finish") /\ UNCHANGED <<pool, sync, result>>
       ELSE GiveUp

SubmitFails == place = "submit" /\ GiveUp

\* The second, which waits for the semaphore and signals the fence.
SubmitFinish ==
    /\ place = "finish"
    /\ finishing' = [finishing EXCEPT ![op] = target]
    /\ fence' = Fenced
    /\ uploaded' = uploaded \union {target}
    /\ Return
    /\ UNCHANGED <<semaphore, copying, spent, loose, pool, astray, data>>

\* downloadImage(): submitted with a fence of its own, and waited for.  The
\* code does not test that the staging buffer is there.
ReadBack ==
    /\ place = "download"
    /\ op \in whole
    /\ content' = [content EXCEPT ![op] = data[target]]
    /\ spent' = spent \union {op}
    /\ Return
    /\ UNCHANGED <<made, bytes, whole, fence, semaphore, copying, finishing, loose, result>>

(***************************************************************************)
(* The device.                                                             *)
(***************************************************************************)
Signaled(o) == [fence EXCEPT ![o] = IF @ = "pending" THEN "ready" ELSE @]

Copy(o) ==
    /\ copying[o] # NoTarget
    /\ data' = [data EXCEPT ![copying[o]] = content[o]]
    /\ copying' = [copying EXCEPT ![o] = NoTarget]
    /\ IF copying[o] \in Chained
       THEN semaphore' = [semaphore EXCEPT ![o] = "signaled"] /\ UNCHANGED fence
       ELSE fence' = Signaled(o) /\ UNCHANGED semaphore
    /\ UNCHANGED <<finishing, spent, loose, pool, call, uploaded, astray>>

CopyLoose(o) ==
    \E t \in loose[o] :
        /\ data' = [data EXCEPT ![t] = content[o]]
        /\ loose' = [loose EXCEPT ![o] = @ \ {t}]
        /\ UNCHANGED <<fence, semaphore, copying, finishing, spent, pool, call, uploaded, astray>>

Finish(o) ==
    /\ finishing[o] # NoTarget
    /\ semaphore[o] \in {"signaled", "null"}
    /\ finishing' = [finishing EXCEPT ![o] = NoTarget]
    /\ semaphore' = [semaphore EXCEPT ![o] = IF @ = "null" THEN @ ELSE "free"]
    /\ fence' = Signaled(o)
    /\ UNCHANGED <<copying, spent, loose, pool, call, result>>

(***************************************************************************)
(* The specification.                                                      *)
(***************************************************************************)
Begin == \E t \in Target : Upload(t) \/ Download(t)

Search ==
    \/ \E o \in Op : \/ Fit(o) \/ Expand(o) \/ ExpandFails(o)
                    \/ CreateOp(o) \/ FenceFails(o) \/ SemaphoreFails(o)
    \/ NothingFits \/ NoOpLeft

Transfer ==
    \/ Reserve \/ ReserveFails \/ Write \/ Submit \/ SubmitCopy
    \/ SubmitLoose \/ SubmitFinish \/ ReadBack \/ StepFails \/ SubmitFails

Device == \E o \in Op : Copy(o) \/ CopyLoose(o) \/ Finish(o)

Next == Begin \/ Search \/ Transfer \/ Device

Spec == Init /\ [][Next]_vars

\* A call goes on to its end, and the device executes what it is given; no
\* property needs that of what is submitted with no semaphore.
FairSpec ==
    /\ Spec
    /\ WF_vars(Search \/ Transfer)
    /\ \A o \in Op : WF_vars(Copy(o) \/ Finish(o))

-----------------------------------------------------------------------------
TypeOK ==
    /\ made \in SUBSET Op
    /\ bytes \in [Op -> 0..MaxBytes]
    /\ whole \in SUBSET made
    /\ content \in [Op -> Target \union {NoTarget}]
    /\ fence \in [Op -> {"ready", "reset", "pending", "none"}]
    /\ semaphore \in [Op -> {"free", "pending", "signaled", "null"}]
    /\ copying \in [Op -> Target \union {NoTarget}]
    /\ finishing \in [Op -> Target \union {NoTarget}]
    /\ spent \in SUBSET made
    /\ loose \in [Op -> SUBSET Chained]
    /\ op \in made \union {NoOp}
    /\ target \in Target \union {NoTarget}
    /\ place \in {"idle", "fit", "expand", "reserve", "write", "submit",
                  "finish", "download"}
    /\ tried \in SUBSET made
    /\ uploaded \in SUBSET Target
    /\ astray \in SUBSET Target
    /\ data \in [Target -> Target \union {NoTarget}]

(***************************************************************************)
(* A buffer or an image receives its own bytes: a staging buffer is not    *)
(* written, expanded or read into while the device has still to copy from  *)
(* it (isAvailable, setRequestedForTransfer).  Excepted is an image whose  *)
(* copy was ever submitted by an operation that has no semaphore: the      *)
(* fence of such an operation says nothing of its copies.                  *)
(***************************************************************************)
DataIsOwn == \A t \in Target \ astray : data[t] \in {NoTarget, t}

(***************************************************************************)
(* A semaphore, if there is one, is signaled by one submission for one     *)
(* wait: the copy is submitted when nothing is left of the former use of   *)
(* the operation.                                                          *)
(***************************************************************************)
SemaphoreIsFree == place = "submit" => semaphore[op] \in {"free", "null"}

(***************************************************************************)
(* What a caller was told is uploaded is on its way while it is not there: *)
(* its copy is submitted and its bytes are still in the staging buffer.    *)
(* It is why UploadsLand holds.                                            *)
(***************************************************************************)
UploadsUnderWay ==
    \A t \in uploaded \ astray :
        data[t] = t \/ \E o \in Op : copying[o] = t /\ content[o] = t

(***************************************************************************)
(* An operation that is neither in use nor given up can be used again, or  *)
(* the device has what will signal its fence, and waits for no semaphore   *)
(* that nothing will signal.  It is why OperationsReturn holds.            *)
(***************************************************************************)
WillSignal(o) ==
    /\ fence[o] = "pending"
    /\ \/ copying[o] \in Target \ Chained
       \/ /\ finishing[o] # NoTarget
          /\ copying[o] \in Chained \/ semaphore[o] \in {"signaled", "null"}

NoOperationLost ==
    \A o \in made \ spent : Available(o) \/ o = op \/ WillSignal(o)

(***************************************************************************)
(* An operation is lost by a download, by an upload that fails, or by its  *)
(* own creation that fails before its fence is there, and in no other way: *)
(* else it is available again, or will be.                                 *)
(***************************************************************************)
OperationsReturn ==
    \A o \in Op : (o \in made \ spent) ~> (Available(o) \/ o \in spent)

(***************************************************************************)
(* What the callers were told is uploaded is all there in the end, but     *)
(* what an operation that has no semaphore was ever used for.              *)
(***************************************************************************)
UploadsLand == []<>(\A t \in uploaded \ astray : data[t] = t)

(***************************************************************************)
(* Violated, and in no run: the same with no exception.  What an operation *)
(* with no semaphore copies may be read by the second half before, and its *)
(* bytes overwritten by the next use of the operation.                     *)
(***************************************************************************)
EveryDataIsOwn == \A t \in Target : data[t] \in {NoTarget, t}

=============================================================================
