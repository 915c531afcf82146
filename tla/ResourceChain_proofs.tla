------------------------ MODULE ResourceChain_proofs ------------------------
(***************************************************************************)
(* Theorems about ResourceChain, for any resources, threads, descriptions, *)
(* outcomes of the creation and failures of the load.                      *)
(***************************************************************************)
EXTENDS ResourceChain, SequenceTheorems, TLAPS

(***************************************************************************)
(* A job is on a stack after a call or a replacement exactly when one      *)
(* would expect it.                                                        *)
(***************************************************************************)
LEMMA NewJobType ==
    ASSUME NEW op \in {"load", "link", "check", "create", "notify"},
           NEW r \in Resource, NEW S \in SUBSET Resource
    PROVE  NewJob(op, r, S) \in Job
  BY DEF NewJob, Job

LEMMA TopType ==
    ASSUME TypeOK, NEW t \in Thread, todo[t] # <<>>
    PROVE  /\ Top(t) \in Job
           /\ Top(t) \in Jobs(t)
           /\ Tail(todo[t]) \in Seq(Job)
           /\ Jobs(t) = {Top(t)} \union Range(Tail(todo[t]))
<1>1. todo[t] \in Seq(Job)
  BY DEF TypeOK
<1>2. Head(todo[t]) \in Job /\ Tail(todo[t]) \in Seq(Job)
  BY <1>1, HeadTailProperties
<1>3. todo[t] = <<Head(todo[t])>> \o Tail(todo[t])
  BY <1>1
<1>4. <<Head(todo[t])>> \in Seq(Job)
  BY <1>2
<1>5. Range(todo[t]) = Range(<<Head(todo[t])>>) \union Range(Tail(todo[t]))
  BY <1>2, <1>3, <1>4, RangeConcatenation, ZenonT(40)
<1>6. Range(<<Head(todo[t])>>) = {Head(todo[t])}
  BY DEF Range
<1>7. QED
  BY <1>2, <1>5, <1>6 DEF Top, Jobs

LEMMA ReplaceJobs ==
    ASSUME TypeOK, NEW t \in Thread, todo[t] # <<>>,
           NEW js \in Seq(Job), Replace(t, js)
    PROVE  /\ todo' \in [Thread -> Seq(Job)]
           /\ \A j : Pending(j)' => Pending(j) \/ j \in Range(js)
           /\ \A j \in Range(js) : Pending(j)'
           /\ \A j : Pending(j) /\ j # Top(t) => Pending(j)'
<1>1. /\ Tail(todo[t]) \in Seq(Job)
      /\ Jobs(t) = {Top(t)} \union Range(Tail(todo[t]))
  BY TopType
<1>2. todo' = [todo EXCEPT ![t] = js \o Tail(todo[t])]
  BY DEF Replace
<1>3. js \o Tail(todo[t]) \in Seq(Job)
  BY <1>1
<1>4. Range(js \o Tail(todo[t])) = Range(js) \union Range(Tail(todo[t]))
  <2>1. js \in Seq(Job) /\ Tail(todo[t]) \in Seq(Job)
    BY <1>1
  <2>2. QED
    BY ONLY <2>1, RangeConcatenation, ZenonT(40)
<1>5. Jobs(t)' = Range(js) \union Range(Tail(todo[t]))
  BY <1>2, <1>4 DEF Jobs, TypeOK
<1>6. \A u \in Thread \ {t} : Jobs(u)' = Jobs(u)
  BY <1>2 DEF Jobs, TypeOK
<1>7. todo' \in [Thread -> Seq(Job)]
  BY <1>2, <1>3 DEF TypeOK
<1>8. QED
  BY <1>1, <1>5, <1>6, <1>7 DEF Pending

LEMMA CallJobs ==
    ASSUME TypeOK, NEW t \in Thread, NEW k \in Job, Call(t, k)
    PROVE  /\ todo' \in [Thread -> Seq(Job)]
           /\ \A j : Pending(j)' <=> Pending(j) \/ j = k
<1>1. todo' = [todo EXCEPT ![t] = <<k>> \o todo[t]]
  BY DEF Call
<1>2. todo[t] \in Seq(Job) /\ <<k>> \in Seq(Job)
  BY DEF TypeOK
<1>3. Range(<<k>> \o todo[t]) = {k} \union Range(todo[t])
  <2>1. Range(<<k>> \o todo[t]) = Range(<<k>>) \union Range(todo[t])
    BY <1>2, RangeConcatenation, ZenonT(40)
  <2>2. Range(<<k>>) = {k}
    BY DEF Range
  <2>3. QED
    BY <2>1, <2>2
<1>4. <<k>> \o todo[t] \in Seq(Job)
  BY <1>2
<1>5. Jobs(t)' = {k} \union Jobs(t)
  BY <1>1, <1>3 DEF Jobs, TypeOK
<1>6. \A u \in Thread \ {t} : Jobs(u)' = Jobs(u)
  BY <1>1 DEF Jobs, TypeOK
<1>7. todo' \in [Thread -> Seq(Job)]
  BY <1>1, <1>4 DEF TypeOK
<1>8. QED
  BY <1>5, <1>6, <1>7 DEF Pending

-----------------------------------------------------------------------------
(***************************************************************************)
(* Type correctness: every variable of the model keeps its type.           *)
(***************************************************************************)
LEMMA TypeStep == TypeOK /\ [Next]_vars => TypeOK'
<1> SUFFICES ASSUME TypeOK, [Next]_vars PROVE TypeOK'
  OBVIOUS
<1>1. ASSUME NEW t \in Thread, NEW r \in Resource, BeginLoading(t, r)
      PROVE  TypeOK'
  <2>1. NewJob("load", r, {}) \in Job
    BY NewJobType
  <2>2. todo' \in [Thread -> Seq(Job)]
    BY <1>1, <2>1, CallJobs DEF BeginLoading
  <2>3. QED
    BY <1>1, <2>2 DEF BeginLoading, TypeOK, Statuses
<1>2. ASSUME NEW r \in Resource, ParseFailure(r)
      PROVE  TypeOK'
  BY <1>2 DEF ParseFailure, TypeOK, Statuses
<1>3. ASSUME NEW t \in Thread, ThreadStep(t)
      PROVE  TypeOK'
  <2>1. /\ todo[t] # <<>>
        /\ Top(t) \in Job
        /\ Top(t).res \in Resource
        /\ Top(t).with \in SUBSET Resource
    <3>1. todo[t] # <<>>
      BY <1>3 DEF ThreadStep, At, AddDependency, AddNull, Link, EndLoading,
         FailLoading, RefusedEnd, CheckDependencies, Created, NotCreated,
         DependencyLoaded, Notified
    <3>2. QED
      BY <3>1, TopType DEF Job
  <2>2. <<>> \in Seq(Job)
    OBVIOUS
  <2>3. ASSUME NEW j \in Job
        PROVE  <<j>> \in Seq(Job)
    OBVIOUS
  <2>4. ASSUME NEW d \in Resource, AddDependency(t, d)
        PROVE  TypeOK'
    <3>1. NewJob("link", Top(t).res, {d}) \in Job
      BY <2>1, NewJobType
    <3>2. todo' \in [Thread -> Seq(Job)]
      BY <2>4, <3>1, CallJobs DEF AddDependency, TypeOK
    <3>3. status' \in [Resource -> Statuses]
      BY <2>1, <2>4 DEF AddDependency, TypeOK, Statuses
    <3>4. declared' \in [Resource -> SUBSET Resource]
      BY <2>1, <2>4 DEF AddDependency, TypeOK
    <3>5. QED
      BY <2>4, <3>2, <3>3, <3>4 DEF AddDependency, TypeOK
  <2>5. CASE AddNull(t)
    BY <2>1, <2>5 DEF AddNull, TypeOK, Statuses
  <2>6. CASE Link(t)
    <3>1. todo' \in [Thread -> Seq(Job)]
      BY <2>1, <2>2, <2>6, ReplaceJobs DEF Link
    <3>2. QED
      BY <2>1, <2>6, <3>1 DEF Link, TypeOK
  <2>7. CASE EndLoading(t)
    <3>1. <<NewJob("check", Top(t).res, {})>> \in Seq(Job)
      BY <2>1, <2>3, NewJobType
    <3>2. todo' \in [Thread -> Seq(Job)]
      BY <2>1, <2>7, <3>1, ReplaceJobs DEF EndLoading
    <3>3. QED
      BY <2>1, <2>7, <3>2 DEF EndLoading, TypeOK, Statuses
  <2>8. CASE FailLoading(t)
    <3>1. todo' \in [Thread -> Seq(Job)]
      BY <2>1, <2>2, <2>8, ReplaceJobs DEF FailLoading
    <3>2. QED
      BY <2>1, <2>8, <3>1 DEF FailLoading, TypeOK, Statuses
  <2>9. CASE RefusedEnd(t)
    <3>1. todo' \in [Thread -> Seq(Job)]
      BY <2>1, <2>2, <2>9, ReplaceJobs DEF RefusedEnd
    <3>2. QED
      BY <2>9, <3>1 DEF RefusedEnd, TypeOK
  <2>10. CASE CheckDependencies(t)
    <3>1. <<NewJob("create", Top(t).res, {})>> \in Seq(Job)
      BY <2>1, <2>3, NewJobType
    <3>2. todo' \in [Thread -> Seq(Job)]
      BY <2>1, <2>2, <2>10, <3>1, ReplaceJobs DEF CheckDependencies
    <3>3. QED
      BY <2>10, <3>2 DEF CheckDependencies, TypeOK
  <2>11. CASE Created(t)
    <3>1. <<NewJob("notify", Top(t).res, parents[Top(t).res])>> \in Seq(Job)
      BY <2>1, <2>3, NewJobType DEF TypeOK
    <3>2. todo' \in [Thread -> Seq(Job)]
      BY <2>1, <2>11, <3>1, ReplaceJobs DEF Created
    <3>3. QED
      BY <2>1, <2>11, <3>2 DEF Created, TypeOK, Statuses
  <2>12. CASE NotCreated(t)
    <3>1. todo' \in [Thread -> Seq(Job)]
      BY <2>1, <2>2, <2>12, ReplaceJobs DEF NotCreated
    <3>2. QED
      BY <2>1, <2>12, <3>1 DEF NotCreated, TypeOK, Statuses
  <2>13. ASSUME NEW p \in Resource, DependencyLoaded(t, p)
         PROVE  TypeOK'
    <3>1. <<NewJob("check", p, {}),
            NewJob("notify", Top(t).res, Top(t).with \ {p})>> \in Seq(Job)
      BY <2>1, NewJobType
    <3>2. todo' \in [Thread -> Seq(Job)]
      BY <2>1, <2>13, <3>1, ReplaceJobs DEF DependencyLoaded
    <3>3. QED
      BY <2>1, <2>13, <3>2 DEF DependencyLoaded, TypeOK
  <2>14. CASE Notified(t)
    <3>1. todo' \in [Thread -> Seq(Job)]
      BY <2>1, <2>2, <2>14, ReplaceJobs DEF Notified
    <3>2. QED
      BY <2>14, <3>1 DEF Notified, TypeOK
  <2>15. QED
    BY <1>3, <2>4, <2>5, <2>6, <2>7, <2>8, <2>9, <2>10, <2>11, <2>12, <2>13,
       <2>14 DEF ThreadStep
<1>4. CASE UNCHANGED vars
  BY <1>4 DEF vars, TypeOK
<1>5. QED
  BY <1>1, <1>2, <1>3, <1>4 DEF Next

(***************************************************************************)
(* The model is well typed (ResourceTrait.hpp:937-941).                    *)
(***************************************************************************)
THEOREM TypeCorrect == Spec => []TypeOK
<1>1. Init => TypeOK
  BY DEF Init, TypeOK, Statuses
<1>2. QED
  BY <1>1, TypeStep, PTL DEF Spec

-----------------------------------------------------------------------------
(***************************************************************************)
(* No wake-up is lost.                                                     *)
(*                                                                         *)
(* NoLostWakeup is not inductive.  Three facts carry it: an addDependency()*)
(* between its tests and the link knows its dependency not loaded, because *)
(* it holds the mutex a loader needs to say so; a resource with a parent   *)
(* list is not loaded, because the list is moved with the status; and what *)
(* a resource waits for has it in its parent list or is notifying it.      *)
(***************************************************************************)
LinkSound ==
    \A j \in Job : Pending(j) /\ j.op = "link" =>
        \A d \in j.with : status[d] # "Loaded"

ParentsUnloaded ==
    \A d \in Resource : parents[d] # {} => status[d] # "Loaded"

Linked ==
    \A p, d \in Resource :
        d \in deps[p] => p \in parents[d] \/ Notifying(p, d)

LastExamined ==
    \A p \in Resource :
        status[p] = "Loading" /\ deps[p] = {} => Examined(p)

WakeupInv ==
    /\ TypeOK
    /\ LinkSound
    /\ ParentsUnloaded
    /\ Linked
    /\ LastExamined

LEMMA WakeupInvImplies == WakeupInv => NoLostWakeup
<1> SUFFICES ASSUME WakeupInv, NEW p \in Resource, ReadyToCreate(p)
             PROVE  Examined(p)
  BY DEF NoLostWakeup
<1>1. CASE deps[p] = {}
  BY <1>1 DEF WakeupInv, LastExamined, ReadyToCreate
<1>2. CASE deps[p] # {}
  <2>1. PICK d \in deps[p] : TRUE
    BY <1>2
  <2>2. d \in Resource /\ status[d] = "Loaded"
    BY <2>1 DEF WakeupInv, TypeOK, ReadyToCreate
  <2>3. Notifying(p, d)
    BY <2>1, <2>2 DEF WakeupInv, Linked, ParentsUnloaded
  <2>4. QED
    BY <2>2, <2>3 DEF Examined
<1>3. QED
  BY <1>1, <1>2

LEMMA WakeupInit == Init => WakeupInv
<1> SUFFICES ASSUME Init PROVE WakeupInv
  OBVIOUS
<1>1. TypeOK
  BY DEF Init, TypeOK, Statuses
<1>2. \A j : ~ Pending(j)
  BY DEF Init, Pending, Jobs, Range
<1>3. QED
  BY <1>1, <1>2 DEF Init, WakeupInv, LinkSound, ParentsUnloaded, Linked,
     LastExamined

(***************************************************************************)
(* What a replacement does to the jobs the invariant speaks of.            *)
(***************************************************************************)
NotifyingKept ==
    \A p, d \in Resource : Notifying(p, d) => Notifying(p, d)'

ExaminedKept(p) == Examined(p) => Examined(p)'

NoNewLink == \A j \in Job : Pending(j)' /\ j.op = "link" => Pending(j)

LEMMA ReplaceKeeps ==
    ASSUME TypeOK, NEW t \in Thread, todo[t] # <<>>,
           NEW js \in Seq(Job), Replace(t, js), Top(t).op # "notify"
    PROVE  /\ NotifyingKept
           /\ \A p \in Resource :
                Top(t).op \in {"check", "create"} /\ p # Top(t).res
                    => ExaminedKept(p)
           /\ \A p \in Resource :
                Top(t).op \notin {"check", "create"} => ExaminedKept(p)
           /\ (\A j \in Range(js) : j.op # "link") => NoNewLink
<1>1. /\ \A j : Pending(j)' => Pending(j) \/ j \in Range(js)
      /\ \A j : Pending(j) /\ j # Top(t) => Pending(j)'
  BY ReplaceJobs
<1>2. NotifyingKept
  <2> SUFFICES ASSUME NEW p \in Resource, NEW d \in Resource, Notifying(p, d)
               PROVE  Notifying(p, d)'
    BY DEF NotifyingKept
  <2>1. PICK S \in SUBSET Resource :
            p \in S /\ Pending(NewJob("notify", d, S))
    BY DEF Notifying
  <2>2. NewJob("notify", d, S) # Top(t)
    BY DEF NewJob
  <2>3. Pending(NewJob("notify", d, S))'
    BY <1>1, <2>1, <2>2 DEF NewJob
  <2>4. QED
    BY <2>1, <2>3 DEF Notifying, NewJob
<1>3. ASSUME NEW p \in Resource,
             Top(t) # NewJob("check", p, {}), Top(t) # NewJob("create", p, {})
      PROVE  ExaminedKept(p)
  <2>1. /\ Pending(NewJob("check", p, {})) => Pending(NewJob("check", p, {}))'
        /\ Pending(NewJob("create", p, {})) => Pending(NewJob("create", p, {}))'
    BY <1>1, <1>3 DEF NewJob
  <2>2. QED
    BY <1>2, <2>1 DEF ExaminedKept, Examined, NotifyingKept, NewJob
<1>4. ASSUME NEW p \in Resource, Top(t).op \notin {"check", "create"} \/ p # Top(t).res
      PROVE  ExaminedKept(p)
  BY <1>3, <1>4 DEF NewJob
<1>5. (\A j \in Range(js) : j.op # "link") => NoNewLink
  BY <1>1 DEF NoNewLink
<1>6. QED
  BY <1>2, <1>4, <1>5

(***************************************************************************)
(* A step that changes no list, loads nothing, ends no enqueuing and takes *)
(* no job away from a resource still in the Loading status.                *)
(***************************************************************************)
LEMMA QuietStep ==
    ASSUME WakeupInv, TypeOK', UNCHANGED <<deps, parents>>,
           NoNewLink, NotifyingKept,
           \A r \in Resource : status[r]' = "Loaded" => status[r] = "Loaded",
           \A r \in Resource :
                status[r]' = "Loading" => status[r] = "Loading" /\ ExaminedKept(r)
    PROVE  WakeupInv'
<1>1. LinkSound'
  BY DEF WakeupInv, LinkSound, NoNewLink, Job
<1>2. ParentsUnloaded'
  BY DEF WakeupInv, ParentsUnloaded
<1>3. Linked'
  BY DEF WakeupInv, Linked, NotifyingKept
<1>4. LastExamined'
  BY DEF WakeupInv, LastExamined, ExaminedKept
<1>5. QED
  BY <1>1, <1>2, <1>3, <1>4 DEF WakeupInv

LEMMA WakeupStep == WakeupInv /\ [Next]_vars => WakeupInv'
<1> SUFFICES ASSUME WakeupInv, [Next]_vars PROVE WakeupInv'
  OBVIOUS
<1>1. TypeOK /\ TypeOK'
  BY TypeStep DEF WakeupInv
<1>2. ASSUME NEW t \in Thread, NEW r \in Resource, BeginLoading(t, r)
      PROVE  WakeupInv'
  <2>1. \A j : Pending(j)' <=> Pending(j) \/ j = NewJob("load", r, {})
    <3>1. NewJob("load", r, {}) \in Job
      BY NewJobType
    <3>2. QED
      BY <1>1, <1>2, <3>1, CallJobs DEF BeginLoading
  <2>2. NoNewLink /\ NotifyingKept /\ \A p \in Resource : ExaminedKept(p)
    BY <2>1 DEF NoNewLink, NotifyingKept, ExaminedKept, Examined, Notifying,
       NewJob
  <2>3. QED
    BY <1>1, <1>2, <2>2, QuietStep DEF BeginLoading, TypeOK
<1>3. ASSUME NEW r \in Resource, ParseFailure(r)
      PROVE  WakeupInv'
  <2>1. NoNewLink /\ NotifyingKept /\ \A p \in Resource : ExaminedKept(p)
    BY <1>3 DEF ParseFailure, NoNewLink, NotifyingKept, ExaminedKept,
       Examined, Notifying, Pending, Jobs
  <2>2. QED
    BY <1>1, <1>3, <2>1, QuietStep DEF ParseFailure, TypeOK
<1>4. ASSUME NEW t \in Thread, ThreadStep(t)
      PROVE  WakeupInv'
  <2>0. PICK r : r = Top(t).res
    OBVIOUS
  <2>1. /\ todo[t] # <<>>
        /\ Top(t) \in Job /\ Top(t) \in Jobs(t) /\ Pending(Top(t))
        /\ r \in Resource /\ r = Top(t).res
        /\ Top(t).with \in SUBSET Resource
    <3>1. todo[t] # <<>>
      BY <1>4 DEF ThreadStep, At, AddDependency, AddNull, Link, EndLoading,
         FailLoading, RefusedEnd, CheckDependencies, Created, NotCreated,
         DependencyLoaded, Notified
    <3>2. QED
      BY <1>1, <2>0, <3>1, TopType DEF Job, Pending
  <2>2. <<>> \in Seq(Job) /\ Range(<<>>) = {}
    BY DEF Range
  <2>3. ASSUME NEW j \in Job
        PROVE  <<j>> \in Seq(Job) /\ Range(<<j>>) = {j}
    BY DEF Range
  <2>4. ASSUME NEW d \in Resource, AddDependency(t, d)
        PROVE  WakeupInv'
    <3> DEFINE k == NewJob("link", r, {d})
    <3>1. UNCHANGED <<deps, parents>>
      BY <2>1, <2>4 DEF AddDependency
    <3>2. CASE UNCHANGED todo
      <4>1. NoNewLink /\ NotifyingKept /\ \A p \in Resource : ExaminedKept(p)
        BY <3>2 DEF NoNewLink, NotifyingKept, ExaminedKept, Examined,
           Notifying, Pending, Jobs
      <4>2. status' = status \/ status' = [status EXCEPT ![r] = "Failed"]
        BY <2>1, <2>4 DEF AddDependency
      <4>3. QED
        BY <1>1, <2>1, <3>1, <4>1, <4>2, QuietStep DEF TypeOK
    <3>3. CASE Call(t, k) /\ UNCHANGED status /\ status[d] # "Loaded"
      <4>1. k \in Job
        BY <2>1, NewJobType
      <4>2. \A j : Pending(j)' <=> Pending(j) \/ j = k
        BY <1>1, <3>3, <4>1, CallJobs
      <4>3. LinkSound'
        BY <3>3, <4>2 DEF WakeupInv, LinkSound, NewJob
      <4>4. NotifyingKept /\ \A p \in Resource : ExaminedKept(p)
        BY <4>2 DEF NotifyingKept, ExaminedKept, Examined, Notifying, NewJob
      <4>5. ParentsUnloaded' /\ Linked' /\ LastExamined'
        BY <3>1, <3>3, <4>4 DEF WakeupInv, ParentsUnloaded, Linked,
           LastExamined, NotifyingKept, ExaminedKept
      <4>6. QED
        BY <1>1, <4>3, <4>5 DEF WakeupInv
    <3>4. QED
      BY <2>1, <2>4, <3>2, <3>3 DEF AddDependency
  <2>5. CASE AddNull(t)
    <3>1. NoNewLink /\ NotifyingKept /\ \A p \in Resource : ExaminedKept(p)
      BY <2>5 DEF AddNull, NoNewLink, NotifyingKept, ExaminedKept, Examined,
         Notifying, Pending, Jobs
    <3>2. QED
      BY <1>1, <2>1, <2>5, <3>1, QuietStep DEF AddNull, TypeOK
  <2>6. CASE Link(t)
    <3>1. /\ Top(t).op = "link"
          /\ Replace(t, <<>>)
          /\ status' = status
          /\ deps' = [deps EXCEPT ![r] = @ \union Top(t).with]
          /\ parents' = [d \in Resource |->
                parents[d] \union IF d \in Top(t).with THEN {r} ELSE {}]
      BY <2>1, <2>6 DEF Link, At, Top
    <3>2. NoNewLink /\ NotifyingKept /\ \A p \in Resource : ExaminedKept(p)
      BY <1>1, <2>1, <2>2, <3>1, ReplaceKeeps
    <3>3. LinkSound'
      BY <3>1, <3>2 DEF WakeupInv, LinkSound, NoNewLink
    <3>4. \A d \in Top(t).with : status[d] # "Loaded"
      BY <2>1, <3>1 DEF WakeupInv, LinkSound
    <3>5. ParentsUnloaded'
      BY <3>1, <3>4 DEF WakeupInv, ParentsUnloaded
    <3>6. Linked'
      <4> SUFFICES ASSUME NEW p \in Resource, NEW d \in Resource,
                          d \in deps[p]'
                   PROVE  p \in parents[d]' \/ Notifying(p, d)'
        BY DEF Linked
      <4>1. CASE d \in deps[p]
        BY <3>1, <3>2, <4>1 DEF WakeupInv, Linked, NotifyingKept
      <4>2. CASE d \notin deps[p]
        BY <1>1, <3>1, <4>2 DEF TypeOK
      <4>3. QED
        BY <4>1, <4>2
    <3>7. LastExamined'
      BY <1>1, <2>1, <3>1, <3>2 DEF WakeupInv, LastExamined, ExaminedKept,
         TypeOK
    <3>8. QED
      BY <1>1, <3>3, <3>5, <3>6, <3>7 DEF WakeupInv
  <2>7. CASE EndLoading(t)
    <3> DEFINE k == NewJob("check", r, {})
    <3>1. /\ Top(t).op = "load"
          /\ Replace(t, <<k>>)
          /\ status' = [status EXCEPT ![r] = "Loading"]
          /\ UNCHANGED <<deps, parents>>
      BY <2>1, <2>7 DEF EndLoading, At, Top
    <3>2. k \in Job /\ <<k>> \in Seq(Job) /\ Range(<<k>>) = {k}
      BY <2>1, <2>3, NewJobType
    <3>3. NoNewLink /\ NotifyingKept /\ \A p \in Resource : ExaminedKept(p)
      <4>1. \A j \in Range(<<k>>) : j.op # "link"
        BY <3>2 DEF NewJob
      <4>2. QED
        BY <1>1, <2>1, <3>1, <3>2, <4>1, ReplaceKeeps
    <3>4. Examined(r)'
      BY <1>1, <2>1, <3>1, <3>2, ReplaceJobs DEF Examined
    <3>5. LinkSound'
      BY <1>1, <3>1, <3>3 DEF WakeupInv, LinkSound, NoNewLink, TypeOK, Job
    <3>6. ParentsUnloaded'
      BY <1>1, <3>1 DEF WakeupInv, ParentsUnloaded, TypeOK
    <3>7. Linked'
      BY <3>1, <3>3 DEF WakeupInv, Linked, NotifyingKept
    <3>8. LastExamined'
      BY <1>1, <3>1, <3>3, <3>4 DEF WakeupInv, LastExamined, ExaminedKept,
         TypeOK
    <3>9. QED
      BY <1>1, <3>5, <3>6, <3>7, <3>8 DEF WakeupInv
  <2>8. CASE FailLoading(t)
    <3>1. Top(t).op = "load" /\ Replace(t, <<>>)
      BY <2>8 DEF FailLoading, At, Top
    <3>2. NoNewLink /\ NotifyingKept /\ \A p \in Resource : ExaminedKept(p)
      BY <1>1, <2>1, <2>2, <3>1, ReplaceKeeps
    <3>3. QED
      BY <1>1, <2>1, <2>8, <3>2, QuietStep DEF FailLoading, TypeOK
  <2>9. CASE RefusedEnd(t)
    <3>1. Top(t).op = "load" /\ Replace(t, <<>>)
      BY <2>9 DEF RefusedEnd, At, Top
    <3>2. NoNewLink /\ NotifyingKept /\ \A p \in Resource : ExaminedKept(p)
      BY <1>1, <2>1, <2>2, <3>1, ReplaceKeeps
    <3>3. QED
      BY <1>1, <2>9, <3>2, QuietStep DEF RefusedEnd
  <2>10. CASE CheckDependencies(t)
    <3> DEFINE k == NewJob("create", r, {})
    <3>1. Top(t).op = "check" /\ UNCHANGED <<status, deps, parents>>
      BY <2>1, <2>10 DEF CheckDependencies, At, Top
    <3>2. PICK js \in Seq(Job) :
            /\ Replace(t, js)
            /\ Range(js) \subseteq {k}
            /\ ReadyToCreate(r) => k \in Range(js)
      <4>1. k \in Job /\ <<k>> \in Seq(Job) /\ Range(<<k>>) = {k}
        BY <2>1, <2>3, NewJobType
      <4>2. CASE ReadyToCreate(r)
        BY <2>1, <2>10, <4>1, <4>2 DEF CheckDependencies
      <4>3. CASE ~ ReadyToCreate(r)
        BY <2>1, <2>2, <2>10, <4>3 DEF CheckDependencies
      <4>4. QED
        BY <4>2, <4>3
    <3>3. \A j \in Range(js) : j.op # "link"
      BY <3>2 DEF NewJob
    <3>4. /\ NoNewLink /\ NotifyingKept
          /\ \A p \in Resource : p # r => ExaminedKept(p)
      BY <1>1, <2>1, <3>1, <3>2, <3>3, ReplaceKeeps
    <3>5. LinkSound' /\ ParentsUnloaded' /\ Linked'
      BY <3>1, <3>4 DEF WakeupInv, LinkSound, ParentsUnloaded, Linked,
         NoNewLink, NotifyingKept
    <3>6. ASSUME status[r] = "Loading", deps[r] = {}
          PROVE  Examined(r)'
      <4>1. ReadyToCreate(r)
        BY <3>6 DEF ReadyToCreate
      <4>2. Pending(k)'
        BY <1>1, <2>1, <3>2, <4>1, ReplaceJobs
      <4>3. QED
        BY <4>2 DEF Examined
    <3>7. LastExamined'
      BY <3>1, <3>4, <3>6 DEF WakeupInv, LastExamined, ExaminedKept
    <3>8. QED
      BY <1>1, <3>5, <3>7 DEF WakeupInv
  <2>11. CASE Created(t)
    <3>0. PICK S \in SUBSET Resource : S = parents[r]
      BY <1>1, <2>1 DEF TypeOK
    <3> DEFINE k == NewJob("notify", r, S)
    <3>1. /\ Top(t).op = "create"
          /\ Free(r)
          /\ Replace(t, <<k>>)
          /\ status' = [status EXCEPT ![r] = "Loaded"]
          /\ parents' = [parents EXCEPT ![r] = {}]
          /\ deps' = deps
      BY <2>1, <2>11, <3>0 DEF Created, At, Top
    <3>2. k \in Job /\ <<k>> \in Seq(Job) /\ Range(<<k>>) = {k}
      BY <2>1, <2>3, NewJobType
    <3>3. /\ NoNewLink /\ NotifyingKept
          /\ \A p \in Resource : p # r => ExaminedKept(p)
      <4>1. \A j \in Range(<<k>>) : j.op # "link"
        BY <3>2 DEF NewJob
      <4>2. QED
        BY <1>1, <2>1, <3>1, <3>2, <4>1, ReplaceKeeps
    <3>4. LinkSound'
      <4> SUFFICES ASSUME NEW j \in Job, Pending(j)', j.op = "link",
                          NEW d \in j.with
                   PROVE  status[d]' # "Loaded"
        BY DEF LinkSound
      <4>1. Pending(j)
        BY <3>3 DEF NoNewLink
      <4>2. d # r
        BY <3>1, <4>1 DEF Free, Pending
      <4>3. status[d] # "Loaded"
        BY <4>1 DEF WakeupInv, LinkSound
      <4>4. QED
        BY <1>1, <3>1, <4>2, <4>3 DEF TypeOK, Job
    <3>5. ParentsUnloaded'
      BY <1>1, <3>1 DEF WakeupInv, ParentsUnloaded, TypeOK
    <3>6. ASSUME NEW p \in parents[r]
          PROVE  Notifying(p, r)'
      <4>1. Pending(k)'
        BY <1>1, <2>1, <3>1, <3>2, ReplaceJobs
      <4>2. QED
        BY <3>0, <4>1 DEF Notifying
    <3>7. Linked'
      BY <1>1, <2>1, <3>1, <3>3, <3>6 DEF WakeupInv, Linked, NotifyingKept,
         TypeOK
    <3>8. LastExamined'
      BY <1>1, <3>1, <3>3 DEF WakeupInv, LastExamined, ExaminedKept, TypeOK
    <3>9. QED
      BY <1>1, <3>4, <3>5, <3>7, <3>8 DEF WakeupInv
  <2>12. CASE NotCreated(t)
    <3>1. /\ Top(t).op = "create"
          /\ Replace(t, <<>>)
          /\ status' = [status EXCEPT ![r] = "Failed"]
          /\ UNCHANGED <<deps, parents>>
      BY <2>1, <2>12 DEF NotCreated, At, Top
    <3>2. /\ NoNewLink /\ NotifyingKept
          /\ \A p \in Resource : p # r => ExaminedKept(p)
      BY <1>1, <2>1, <2>2, <3>1, ReplaceKeeps
    <3>3. QED
      BY <1>1, <2>1, <3>1, <3>2, QuietStep DEF TypeOK
  <2>13. ASSUME NEW p \in Resource, DependencyLoaded(t, p)
         PROVE  WakeupInv'
    <3>0. PICK S \in SUBSET Resource : S = Top(t).with
      BY <2>1
    <3> DEFINE k1 == NewJob("check", p, {})
               k2 == NewJob("notify", r, S \ {p})
    <3>1. /\ Top(t) = NewJob("notify", r, S)
          /\ Replace(t, <<k1, k2>>)
          /\ UNCHANGED <<status, parents>>
          /\ deps' = [deps EXCEPT ![p] = @ \ {r}]
      BY <2>1, <2>13, <3>0 DEF DependencyLoaded, At, Top, Job, NewJob
    <3>2a. k1 \in Job /\ k2 \in Job
      BY <2>1, NewJobType
    <3> HIDE DEF k1, k2
    <3>2. <<k1, k2>> \in Seq(Job) /\ Range(<<k1, k2>>) = {k1, k2}
      BY <3>2a DEF Range
    <3>3. /\ \A j : Pending(j)' => Pending(j) \/ j \in {k1, k2}
          /\ Pending(k1)' /\ Pending(k2)'
          /\ \A j : Pending(j) /\ j # Top(t) => Pending(j)'
      BY <1>1, <2>1, <3>1, <3>2, ReplaceJobs
    <3> USE DEF k1, k2
    <3>4. NoNewLink
      BY <3>3 DEF NoNewLink, NewJob
    <3>5. ASSUME NEW q \in Resource, NEW d \in Resource, Notifying(q, d),
                 d # r \/ q # p
          PROVE  Notifying(q, d)'
      <4>1. PICK T \in SUBSET Resource :
                q \in T /\ Pending(NewJob("notify", d, T))
        BY <3>5 DEF Notifying
      <4>2. CASE NewJob("notify", d, T) = Top(t)
        <5>1. d = r /\ T = S
          BY <3>1, <4>2 DEF NewJob
        <5>2. q \in S \ {p}
          BY <3>5, <4>1, <5>1
        <5>3. QED
          BY <3>3, <5>1, <5>2 DEF Notifying
      <4>3. CASE NewJob("notify", d, T) # Top(t)
        BY <3>3, <4>1, <4>3 DEF Notifying
      <4>4. QED
        BY <4>2, <4>3
    <3>6. Examined(p)'
      BY <3>3 DEF Examined
    <3>7. ASSUME NEW q \in Resource, q # p
          PROVE  ExaminedKept(q)
      <4>1. /\ Pending(NewJob("check", q, {})) => Pending(NewJob("check", q, {}))'
            /\ Pending(NewJob("create", q, {})) => Pending(NewJob("create", q, {}))'
        BY <3>1, <3>3 DEF NewJob
      <4>2. QED
        BY <3>5, <3>7, <4>1 DEF ExaminedKept, Examined
    <3>8. LinkSound' /\ ParentsUnloaded'
      BY <3>1, <3>4 DEF WakeupInv, LinkSound, ParentsUnloaded, NoNewLink
    <3>9. Linked'
      <4> SUFFICES ASSUME NEW q \in Resource, NEW d \in Resource,
                          d \in deps[q]'
                   PROVE  q \in parents[d]' \/ Notifying(q, d)'
        BY DEF Linked
      <4>1. d \in deps[q] /\ (d # r \/ q # p)
        BY <1>1, <3>1 DEF TypeOK
      <4>2. QED
        BY <3>1, <3>5, <4>1 DEF WakeupInv, Linked
    <3>10. LastExamined'
      BY <1>1, <3>1, <3>6, <3>7 DEF WakeupInv, LastExamined, ExaminedKept,
         TypeOK
    <3>11. QED
      BY <1>1, <3>8, <3>9, <3>10 DEF WakeupInv
  <2>14. CASE Notified(t)
    <3>1. /\ Top(t) = NewJob("notify", r, {})
          /\ Replace(t, <<>>)
          /\ UNCHANGED <<status, deps, parents>>
      BY <2>1, <2>14 DEF Notified, At, Top, Job, NewJob
    <3>2. /\ \A j : Pending(j)' => Pending(j)
          /\ \A j : Pending(j) /\ j # Top(t) => Pending(j)'
      BY <1>1, <2>1, <2>2, <3>1, ReplaceJobs
    <3>3. NoNewLink
      BY <3>2 DEF NoNewLink
    <3>4. NotifyingKept
      <4> SUFFICES ASSUME NEW p \in Resource, NEW d \in Resource,
                          Notifying(p, d)
                   PROVE  Notifying(p, d)'
        BY DEF NotifyingKept
      <4>1. PICK S \in SUBSET Resource :
                p \in S /\ Pending(NewJob("notify", d, S))
        BY DEF Notifying
      <4>2. NewJob("notify", d, S) # Top(t)
        BY <3>1, <4>1 DEF NewJob
      <4>3. QED
        BY <3>2, <4>1, <4>2 DEF Notifying
    <3>5. ASSUME NEW p \in Resource
          PROVE  ExaminedKept(p)
      <4>1. /\ Pending(NewJob("check", p, {})) => Pending(NewJob("check", p, {}))'
            /\ Pending(NewJob("create", p, {})) => Pending(NewJob("create", p, {}))'
        BY <3>1, <3>2 DEF NewJob
      <4>2. QED
        BY <3>4, <4>1 DEF ExaminedKept, Examined, NotifyingKept
    <3>6. QED
      BY <1>1, <3>1, <3>3, <3>4, <3>5, QuietStep
  <2>15. QED
    BY <1>4, <2>4, <2>5, <2>6, <2>7, <2>8, <2>9, <2>10, <2>11, <2>12, <2>13,
       <2>14 DEF ThreadStep
<1>5. CASE UNCHANGED vars
  <2>1. NoNewLink /\ NotifyingKept /\ \A p \in Resource : ExaminedKept(p)
    BY <1>5 DEF vars, NoNewLink, NotifyingKept, ExaminedKept, Examined,
       Notifying, Pending, Jobs
  <2>2. QED
    BY <1>1, <1>5, <2>1, QuietStep DEF vars
<1>6. QED
  BY <1>2, <1>3, <1>4, <1>5 DEF Next

(***************************************************************************)
(* checkDependencies() and addDependency() never lose a wake-up: a         *)
(* resource that waits only for what is loaded is about to be examined     *)
(* (ResourceTrait.cpp:129-380).                                            *)
(***************************************************************************)
THEOREM WakeupSafe == Spec => []NoLostWakeup
<1>1. Spec => []WakeupInv
  BY WakeupInit, WakeupStep, PTL DEF Spec
<1>2. QED
  BY <1>1, WakeupInvImplies, PTL

-----------------------------------------------------------------------------
(***************************************************************************)
(* The two lists agree, and a resource is created after what it declared.  *)
(*                                                                         *)
(* Both need to know that some jobs are alone: a resource has one load, no *)
(* load and creation at once, and tells each of its parents once.  A call  *)
(* stack may hold equal jobs, so this is said of their places, counted     *)
(* from the bottom of the stack, which the calls above do not change.      *)
(***************************************************************************)
Depth(t) == Len(todo[t])

JobAt(t, k) == todo[t][Depth(t) + 1 - k]

Conflict(i, j) ==
    /\ i.res = j.res
    /\ \/ i.op = "load" /\ j.op \in {"load", "create"}
       \/ i.op = "create" /\ j.op = "load"
       \/ i.op = "notify" /\ j.op = "notify" /\ i.with \intersect j.with # {}

Alone ==
    \A t, u \in Thread : \A k \in 1 .. Depth(t), l \in 1 .. Depth(u) :
        Conflict(JobAt(t, k), JobAt(u, l)) => t = u /\ k = l

\* addDependency() is called by load(), and calls nothing while it links.
LinkOnLoad ==
    \A t \in Thread : \A k \in 1 .. Depth(t) :
        JobAt(t, k).op = "link" =>
            /\ k = Depth(t) /\ k > 1
            /\ JobAt(t, k - 1).op = "load"
            /\ JobAt(t, k - 1).res = JobAt(t, k).res

\* d was created, and is loaded still unless a second creation has failed.
WasCreated(d) ==
    /\ "LoadFinished" \in announced[d]
    /\ status[d] = "Loaded" \/ "LoadFailed" \in announced[d]

Enqueued == {"Enqueuing", "ManualEnqueuing"}

\* What a job on a stack knows of its resource.
JobSound(j) ==
    /\ j.op = "load" => status[j.res] \in Enqueued \union {"Failed"}
    /\ j.op = "link" => /\ status[j.res] \in Enqueued
                        /\ \A d \in j.with : d \notin deps[j.res]
    /\ j.op = "create" => /\ status[j.res] \in {"Loading", "Loaded", "Failed"}
                          /\ \A d \in declared[j.res] : WasCreated(d)
    /\ j.op = "notify" => /\ WasCreated(j.res)
                          /\ \A p \in j.with : /\ j.res \in deps[p]
                                               /\ p \notin parents[j.res]

JobsSound == \A t \in Thread : \A k \in 1 .. Depth(t) : JobSound(JobAt(t, k))

LoadedSound ==
    \A p \in Resource : status[p] = "Loaded" =>
        /\ "LoadFinished" \in announced[p]
        /\ \A d \in declared[p] : WasCreated(d)

DeclaredSound ==
    \A p \in Resource : \A d \in declared[p] : d \in deps[p] \/ WasCreated(d)

ParentsWait == \A d \in Resource : \A p \in parents[d] : d \in deps[p]

OrderInv ==
    /\ TypeOK
    /\ Alone /\ LinkOnLoad /\ JobsSound
    /\ LoadedSound /\ DeclaredSound /\ ParentsWait

-----------------------------------------------------------------------------
(***************************************************************************)
(* Places.                                                                 *)
(***************************************************************************)
LEMMA PlaceType ==
    ASSUME TypeOK, NEW t \in Thread
    PROVE  /\ Depth(t) \in Nat
           /\ \A k \in 1 .. Depth(t) :
                JobAt(t, k) \in Job /\ JobAt(t, k) \in Jobs(t)
           /\ \A j \in Jobs(t) : \E k \in 1 .. Depth(t) : j = JobAt(t, k)
           /\ todo[t] # <<>> => Depth(t) > 0 /\ JobAt(t, Depth(t)) = Top(t)
<1>1. todo[t] \in Seq(Job) /\ Depth(t) \in Nat /\ DOMAIN todo[t] = 1 .. Depth(t)
  BY DEF TypeOK, Depth
<1>2. ASSUME NEW k \in 1 .. Depth(t)
      PROVE  JobAt(t, k) \in Job /\ JobAt(t, k) \in Jobs(t)
  <2>1. Depth(t) + 1 - k \in 1 .. Depth(t)
    BY <1>1
  <2>2. QED
    BY <1>1, <2>1 DEF JobAt, Jobs, Range
<1>3. ASSUME NEW j \in Jobs(t)
      PROVE  \E k \in 1 .. Depth(t) : j = JobAt(t, k)
  <2>1. PICK i \in 1 .. Depth(t) : j = todo[t][i]
    BY <1>1 DEF Jobs, Range
  <2>2. /\ Depth(t) + 1 - i \in 1 .. Depth(t)
        /\ Depth(t) + 1 - (Depth(t) + 1 - i) = i
    BY <1>1
  <2>3. QED
    BY <2>1, <2>2 DEF JobAt
<1>4. ASSUME todo[t] # <<>>
      PROVE  Depth(t) > 0 /\ JobAt(t, Depth(t)) = Top(t)
  <2>1. Depth(t) > 0 /\ Head(todo[t]) = todo[t][1]
    BY <1>1, <1>4 DEF Depth
  <2>2. Depth(t) + 1 - Depth(t) = 1
    BY <1>1
  <2>3. QED
    BY <2>1, <2>2 DEF JobAt, Top
<1>5. QED
  BY <1>1, <1>2, <1>3, <1>4

\* The step changes no job but those of thread t from place n on.
Kept(t, n) ==
    \A u \in Thread :
        /\ u # t => Depth(u)' = Depth(u)
        /\ \A k \in 1 .. Depth(u)' :
             u # t \/ k < n => k \in 1 .. Depth(u) /\ JobAt(u, k)' = JobAt(u, k)

LEMMA ReplacePlaces ==
    ASSUME TypeOK, NEW t \in Thread, todo[t] # <<>>,
           NEW js \in Seq(Job), Replace(t, js)
    PROVE  /\ Kept(t, Depth(t))
           /\ Depth(t)' = Depth(t) - 1 + Len(js)
           /\ \A i \in 1 .. Len(js) : JobAt(t, Depth(t) + 1 - i)' = js[i]
<1> DEFINE s == todo[t]
           r == Tail(s)
<1>1. /\ s \in Seq(Job) /\ Len(s) \in Nat /\ Len(s) > 0
      /\ r \in Seq(Job) /\ Len(r) = Len(s) - 1
  BY DEF TypeOK
<1>2. \A i \in 1 .. Len(r) : r[i] = s[i + 1]
  BY <1>1
<1>3. todo'[t] = js \o r /\ \A u \in Thread \ {t} : todo'[u] = todo[u]
  BY DEF Replace, TypeOK
<1>4. Len(js) \in Nat /\ Len(js \o r) = Len(js) + Len(r)
  BY <1>1
<1>5. /\ \A i \in 1 .. Len(js) : (js \o r)[i] = js[i]
      /\ \A i \in 1 .. Len(r) : (js \o r)[Len(js) + i] = r[i]
  BY <1>1, <1>4
<1>6. Depth(t)' = Depth(t) - 1 + Len(js) /\ Depth(t) = Len(s)
  BY <1>1, <1>3, <1>4 DEF Depth
<1> HIDE DEF s, r
<1>7. ASSUME NEW k \in 1 .. Depth(t)', k < Depth(t)
      PROVE  k \in 1 .. Depth(t) /\ JobAt(t, k)' = JobAt(t, k)
  <2>1. k \in Int /\ 0 < k /\ k < Len(s)
    BY <1>1, <1>4, <1>6, <1>7
  <2>2. PICK m \in 1 .. Len(r) : m = Len(s) - k
    <3>1. Len(s) - k \in 1 .. Len(s) - 1
      BY <1>1, <2>1
    <3>2. QED
      BY <1>1, <3>1
  <2>3. Depth(t)' + 1 - k = Len(js) + m
    BY <1>1, <1>4, <1>6, <2>1, <2>2
  <2>4. JobAt(t, k)' = r[m]
    BY <1>3, <1>5, <2>3 DEF JobAt
  <2>5. r[m] = s[m + 1]
    BY <1>2
  <2>6. JobAt(t, k) = s[m + 1]
    BY <1>1, <1>6, <2>1, <2>2 DEF JobAt, s
  <2>7. k \in 1 .. Depth(t)
    BY <1>1, <1>6, <2>1
  <2>8. QED
    BY <2>4, <2>5, <2>6, <2>7
<1>8. ASSUME NEW i \in 1 .. Len(js)
      PROVE  JobAt(t, Depth(t) + 1 - i)' = js[i]
  <2>1. Depth(t)' + 1 - (Depth(t)' + 1 - i) = i
    BY <1>1, <1>4, <1>6
  <2>2. JobAt(t, Depth(t) + 1 - i)' = todo'[t][i]
    BY <2>1 DEF JobAt
  <2>3. QED
    BY <1>3, <1>5, <2>2
<1>9. ASSUME NEW u \in Thread, u # t
      PROVE  Depth(u)' = Depth(u) /\ \A k : JobAt(u, k)' = JobAt(u, k)
  BY <1>3, <1>9 DEF JobAt, Depth
<1>10. QED
  BY <1>6, <1>7, <1>8, <1>9 DEF Kept

LEMMA CallPlaces ==
    ASSUME TypeOK, NEW t \in Thread, NEW j \in Job, Call(t, j)
    PROVE  /\ Kept(t, Depth(t) + 1)
           /\ Depth(t)' = Depth(t) + 1
           /\ JobAt(t, Depth(t))' = j
<1> DEFINE s == todo[t]
<1>1. s \in Seq(Job) /\ Len(s) \in Nat /\ <<j>> \in Seq(Job)
  BY DEF TypeOK
<1>2. todo'[t] = <<j>> \o s /\ \A u \in Thread \ {t} : todo'[u] = todo[u]
  BY DEF Call, TypeOK
<1>3. /\ Len(<<j>> \o s) = Len(s) + 1
      /\ (<<j>> \o s)[1] = j
      /\ \A i \in 1 .. Len(s) : (<<j>> \o s)[1 + i] = s[i]
  BY <1>1
<1>4. Depth(t)' = Depth(t) + 1 /\ Depth(t) = Len(s)
  BY <1>2, <1>3 DEF Depth
<1> HIDE DEF s
<1>5. JobAt(t, Depth(t))' = j
  <2>1. Depth(t)' + 1 - Depth(t)' = 1
    BY <1>1, <1>4
  <2>2. QED
    BY <1>2, <1>3, <2>1 DEF JobAt
<1>6. ASSUME NEW k \in 1 .. Depth(t)', k < Depth(t) + 1
      PROVE  k \in 1 .. Depth(t) /\ JobAt(t, k)' = JobAt(t, k)
  <2>1. k \in 1 .. Len(s)
    BY <1>1, <1>4, <1>6
  <2>2. PICK i \in 1 .. Len(s) : i = Len(s) + 1 - k
    BY <1>1, <2>1
  <2>3. Depth(t)' + 1 - k = 1 + i
    BY <1>1, <1>4, <2>1, <2>2
  <2>4. JobAt(t, k)' = s[i]
    BY <1>2, <1>3, <2>3 DEF JobAt
  <2>5. QED
    BY <1>4, <2>1, <2>2, <2>4 DEF JobAt, s
<1>7. ASSUME NEW u \in Thread, u # t
      PROVE  Depth(u)' = Depth(u) /\ \A k : JobAt(u, k)' = JobAt(u, k)
  BY <1>2, <1>7 DEF JobAt, Depth
<1>8. QED
  BY <1>4, <1>5, <1>6, <1>7 DEF Kept

(***************************************************************************)
(* A step that keeps the jobs below place n of thread t preserves what is  *)
(* said of the places, if the jobs it keeps stay sound and the ones it     *)
(* adds are sound and alone.                                               *)
(***************************************************************************)
Stays(j) == JobSound(j) => JobSound(j)'

\* The jobs that are not at or above place n of thread t.
Elsewhere(t, n, u, k) == u # t \/ k < n

OthersStay(t, n) ==
    \A u \in Thread : \A k \in 1 .. Depth(u) : \A j \in Job :
        Elsewhere(t, n, u, k) /\ j = JobAt(u, k) => Stays(j)

\* No other job is one that j excludes.
NoConflict(t, n, j) ==
    \A u \in Thread : \A l \in 1 .. Depth(u) :
        Elsewhere(t, n, u, l) => ~ Conflict(j, JobAt(u, l))

LEMMA PlaceTypeNext ==
    ASSUME TypeOK', NEW t \in Thread
    PROVE  /\ Depth(t)' \in Nat
           /\ \A k \in 1 .. Depth(t)' : JobAt(t, k)' \in Job
<1>1. /\ todo'[t] \in Seq(Job) /\ Depth(t)' \in Nat
      /\ DOMAIN todo'[t] = 1 .. Depth(t)'
  BY DEF TypeOK, Depth
<1>2. ASSUME NEW k \in 1 .. Depth(t)'
      PROVE  JobAt(t, k)' \in Job
  <2>1. Depth(t)' + 1 - k \in 1 .. Depth(t)'
    BY <1>1
  <2>2. QED
    BY <1>1, <2>1 DEF JobAt
<1>3. QED
  BY <1>1, <1>2

LEMMA PlacesStep ==
    ASSUME TypeOK, TypeOK', Alone, LinkOnLoad, JobsSound,
           NEW t \in Thread, NEW n \in Nat, Kept(t, n),
           OthersStay(t, n),
           \A k \in 1 .. Depth(t) : k < n => JobAt(t, k).op # "link",
           \A k \in 1 .. Depth(t)' : \A j \in Job :
                k >= n /\ j = JobAt(t, k)' =>
                    /\ JobSound(j)'
                    /\ j.op = "link" => /\ k = Depth(t)' /\ k = n /\ k > 1
                                        /\ JobAt(t, k - 1).op = "load"
                                        /\ JobAt(t, k - 1).res = j.res
                    /\ j.op \in {"check", "link"} \/ k = n
                    /\ NoConflict(t, n, j)
    PROVE  Alone' /\ LinkOnLoad' /\ JobsSound'
<1>1. ASSUME NEW u \in Thread, NEW k \in 1 .. Depth(u)', Elsewhere(t, n, u, k)
      PROVE  k \in 1 .. Depth(u) /\ JobAt(u, k)' = JobAt(u, k)
  BY <1>1 DEF Kept, Elsewhere
<1>2. ASSUME NEW u \in Thread, NEW k \in 1 .. Depth(u)'
      PROVE  /\ k \in Nat /\ JobAt(u, k)' \in Job /\ Depth(u)' \in Nat
             /\ ~ Elsewhere(t, n, u, k) => u = t /\ k >= n
  BY PlaceTypeNext DEF Elsewhere
<1>3. JobsSound'
  <2> SUFFICES ASSUME NEW u \in Thread, NEW k \in 1 .. Depth(u)'
               PROVE  JobSound(JobAt(u, k))'
    BY DEF JobsSound
  <2>1. PICK j \in Job : j = JobAt(u, k)'
    BY <1>2
  <2>2. JobSound(j)'
    <3>1. CASE Elsewhere(t, n, u, k)
      BY <1>1, <2>1, <3>1 DEF JobsSound, OthersStay, Stays
    <3>2. CASE ~ Elsewhere(t, n, u, k)
      BY <1>2, <2>1, <3>2
    <3>3. QED
      BY <3>1, <3>2
  <2>3. QED
    BY <2>1, <2>2 DEF JobSound, WasCreated
<1>4. Alone'
  <2> SUFFICES ASSUME NEW u \in Thread, NEW v \in Thread,
                      NEW k \in 1 .. Depth(u)', NEW l \in 1 .. Depth(v)',
                      NEW i \in Job, NEW j \in Job,
                      i = JobAt(u, k)', j = JobAt(v, l)', Conflict(i, j)
               PROVE  u = v /\ k = l
    BY <1>2 DEF Alone, Conflict
  <2>1. Conflict(j, i)
    BY DEF Conflict
  <2>2. CASE Elsewhere(t, n, u, k) /\ Elsewhere(t, n, v, l)
    BY <1>1, <2>2 DEF Alone
  <2>3. CASE ~ Elsewhere(t, n, u, k) /\ Elsewhere(t, n, v, l)
    BY <1>1, <1>2, <2>3 DEF NoConflict
  <2>4. CASE Elsewhere(t, n, u, k) /\ ~ Elsewhere(t, n, v, l)
    BY <1>1, <1>2, <2>1, <2>4 DEF NoConflict
  <2>5. CASE ~ Elsewhere(t, n, u, k) /\ ~ Elsewhere(t, n, v, l)
    <3>1. i.op \notin {"check", "link"} /\ j.op \notin {"check", "link"}
      BY DEF Conflict
    <3>2. QED
      BY <1>2, <2>5, <3>1
  <2>6. QED
    BY <2>2, <2>3, <2>4, <2>5
<1>5. LinkOnLoad'
  <2> SUFFICES ASSUME NEW u \in Thread, NEW k \in 1 .. Depth(u)',
                      JobAt(u, k)'.op = "link"
               PROVE  /\ k = Depth(u)' /\ k > 1
                      /\ JobAt(u, k - 1)'.op = "load"
                      /\ JobAt(u, k - 1)'.res = JobAt(u, k)'.res
    BY DEF LinkOnLoad
  <2>1. CASE Elsewhere(t, n, u, k)
    <3>1. u # t /\ Depth(u)' = Depth(u) /\ k \in 1 .. Depth(u)
      BY <1>1, <2>1 DEF Kept, Elsewhere
    <3>2. /\ k = Depth(u) /\ k > 1
          /\ JobAt(u, k - 1).op = "load"
          /\ JobAt(u, k - 1).res = JobAt(u, k).res
      BY <1>1, <2>1, <3>1 DEF LinkOnLoad
    <3>3. k - 1 \in 1 .. Depth(u)' /\ Elsewhere(t, n, u, k - 1)
      BY <1>2, <3>1, <3>2 DEF Elsewhere
    <3>4. JobAt(u, k - 1)' = JobAt(u, k - 1) /\ JobAt(u, k)' = JobAt(u, k)
      BY <1>1, <2>1, <3>3
    <3>5. QED
      BY <3>1, <3>2, <3>4
  <2>2. CASE ~ Elsewhere(t, n, u, k)
    <3>1. PICK j \in Job : j = JobAt(t, k)'
      BY <1>2, <2>2
    <3>2. /\ u = t /\ k = Depth(t)' /\ k = n /\ k > 1
          /\ JobAt(t, k - 1).op = "load"
          /\ JobAt(t, k - 1).res = j.res
      BY <1>2, <2>2, <3>1
    <3>3. k - 1 \in 1 .. Depth(t)' /\ Elsewhere(t, n, t, k - 1)
      BY <1>2, <3>2 DEF Elsewhere
    <3>4. JobAt(t, k - 1)' = JobAt(t, k - 1)
      BY <1>1, <3>3
    <3>5. QED
      BY <3>1, <3>2, <3>4
  <2>3. QED
    BY <2>1, <2>2
<1>6. QED
  BY <1>3, <1>4, <1>5

PlacesInv == TypeOK /\ Alone /\ LinkOnLoad /\ JobsSound

\* The forms a step has: it leaves the stacks alone, ...
LEMMA SameStep ==
    ASSUME PlacesInv, TypeOK', UNCHANGED todo,
           \A u \in Thread : \A k \in 1 .. Depth(u) : \A j \in Job :
                j = JobAt(u, k) => Stays(j)
    PROVE  PlacesInv'
<1>1. \A u \in Thread : Depth(u)' = Depth(u) /\ \A k : JobAt(u, k)' = JobAt(u, k)
  BY DEF Depth, JobAt
<1>2. Alone' /\ LinkOnLoad'
  BY <1>1 DEF PlacesInv, Alone, LinkOnLoad
<1>3. JobsSound'
  <2> SUFFICES ASSUME NEW u \in Thread, NEW k \in 1 .. Depth(u)
               PROVE  JobSound(JobAt(u, k))'
    BY <1>1 DEF JobsSound
  <2>1. PICK j \in Job : j = JobAt(u, k)
    BY PlaceType DEF PlacesInv
  <2>2. JobSound(j)' /\ j = JobAt(u, k)'
    BY <1>1, <2>1 DEF PlacesInv, JobsSound, Stays
  <2>3. QED
    BY <2>2 DEF JobSound, WasCreated
<1>4. QED
  BY <1>2, <1>3 DEF PlacesInv

\* ...ends a job, ...
LEMMA EndStep ==
    ASSUME PlacesInv, TypeOK', NEW t \in Thread, todo[t] # <<>>,
           Replace(t, <<>>), OthersStay(t, Depth(t))
    PROVE  PlacesInv'
<1>1. PICK n \in Nat : n = Depth(t)
  BY PlaceType DEF PlacesInv
<1>2. Kept(t, n) /\ Depth(t)' = n - 1
  <2>1. <<>> \in Seq(Job) /\ Len(<<>>) = 0
    OBVIOUS
  <2>2. Kept(t, Depth(t)) /\ Depth(t)' = Depth(t) - 1 + Len(<<>>)
    BY <2>1, ReplacePlaces DEF PlacesInv
  <2>3. QED
    BY <1>1, <2>1, <2>2
<1>3. OthersStay(t, n)
  BY <1>1
<1>4. \A k \in 1 .. Depth(t) : k < n => JobAt(t, k).op # "link"
  BY <1>1 DEF PlacesInv, LinkOnLoad
<1>5. \A k \in 1 .. Depth(t)' : ~ (k >= n)
  BY <1>1, <1>2
<1>6. QED
  BY <1>2, <1>3, <1>4, <1>5, PlacesStep DEF PlacesInv

\* ...goes on with another, ...
LEMMA GoOnStep ==
    ASSUME PlacesInv, TypeOK', NEW t \in Thread, todo[t] # <<>>,
           NEW j \in Job, Replace(t, <<j>>), OthersStay(t, Depth(t)),
           j.op # "link", JobSound(j)', NoConflict(t, Depth(t), j)
    PROVE  PlacesInv'
<1>1. PICK n \in Nat : n = Depth(t)
  BY PlaceType DEF PlacesInv
<1>2. Kept(t, n) /\ Depth(t)' = n /\ JobAt(t, n)' = j
  <2>1. PICK js \in Seq(Job) : js = <<j>> /\ Len(js) = 1 /\ js[1] = j
    <3>1. <<j>> \in Seq(Job) /\ Len(<<j>>) = 1 /\ <<j>>[1] = j
      OBVIOUS
    <3>2. QED
      BY <3>1
  <2>2. /\ Kept(t, Depth(t)) /\ Depth(t)' = Depth(t) - 1 + Len(js)
        /\ \A i \in 1 .. Len(js) : JobAt(t, Depth(t) + 1 - i)' = js[i]
    BY <2>1, ReplacePlaces DEF PlacesInv
  <2>3. Depth(t)' = n
    BY <1>1, <2>1, <2>2
  <2>4. JobAt(t, n)' = JobAt(t, Depth(t) + 1 - 1)'
    BY <2>3 DEF JobAt
  <2>5. JobAt(t, Depth(t) + 1 - 1)' = j
    BY <2>1, <2>2
  <2>6. QED
    BY <1>1, <2>2, <2>3, <2>4, <2>5
<1>3. OthersStay(t, n) /\ NoConflict(t, n, j)
  BY <1>1
<1>4. \A k \in 1 .. Depth(t) : k < n => JobAt(t, k).op # "link"
  BY <1>1 DEF PlacesInv, LinkOnLoad
<1>5. ASSUME NEW k \in 1 .. Depth(t)', k >= n
      PROVE  k = n /\ JobAt(t, k)' = j
  BY <1>2, <1>5
<1>6. QED
  BY <1>2, <1>3, <1>4, <1>5, PlacesStep DEF PlacesInv

\* ...or calls.
LEMMA CallStep ==
    ASSUME PlacesInv, TypeOK', NEW t \in Thread,
           NEW j \in Job, Call(t, j), OthersStay(t, Depth(t) + 1),
           todo[t] = <<>> \/ Top(t).op # "link",
           j.op = "link" => /\ todo[t] # <<>>
                            /\ Top(t).op = "load" /\ Top(t).res = j.res,
           JobSound(j)', NoConflict(t, Depth(t) + 1, j)
    PROVE  PlacesInv'
<1>1. PICK n \in Nat : n = Depth(t) + 1
  BY PlaceType DEF PlacesInv
<1>2. /\ Kept(t, n) /\ Depth(t)' = n /\ JobAt(t, n)' = j
      /\ Depth(t) \in Nat
  <2>1. /\ Kept(t, Depth(t) + 1) /\ Depth(t)' = Depth(t) + 1
        /\ JobAt(t, Depth(t))' = j
    BY CallPlaces DEF PlacesInv
  <2>2. QED
    BY <1>1, <2>1, PlaceType DEF PlacesInv
<1>3. OthersStay(t, n) /\ NoConflict(t, n, j)
  BY <1>1
<1>4. todo[t] # <<>> => Depth(t) > 0 /\ JobAt(t, Depth(t)) = Top(t)
  BY PlaceType DEF PlacesInv
<1>5. todo[t] = <<>> => Depth(t) = 0
  BY DEF Depth
<1>6. \A k \in 1 .. Depth(t) : k < n => JobAt(t, k).op # "link"
  BY <1>2, <1>4, <1>5 DEF PlacesInv, LinkOnLoad
<1>7. ASSUME NEW k \in 1 .. Depth(t)', k >= n
      PROVE  k = n /\ JobAt(t, k)' = j
  BY <1>2, <1>7
<1>8. j.op = "link" => /\ n > 1 /\ JobAt(t, n - 1).op = "load"
                       /\ JobAt(t, n - 1).res = j.res
  BY <1>1, <1>2, <1>4
<1>9. QED
  BY <1>2, <1>3, <1>6, <1>7, <1>8, PlacesStep DEF PlacesInv

-----------------------------------------------------------------------------
(***************************************************************************)
(* The steps.                                                              *)
(***************************************************************************)
LEMMA TopFacts ==
    ASSUME PlacesInv, NEW t \in Thread, todo[t] # <<>>
    PROVE  /\ Top(t) \in Job /\ JobSound(Top(t))
           /\ NoConflict(t, Depth(t), Top(t))
           /\ \A u \in Thread : \A k \in 1 .. Depth(u) :
                JobAt(u, k).op = "link" /\ JobAt(u, k).res = Top(t).res =>
                    /\ Top(t).op # "load"
                    /\ Top(t).op = "link" => u = t /\ k = Depth(t)
<1>1. /\ Depth(t) \in Nat /\ Depth(t) > 0 /\ JobAt(t, Depth(t)) = Top(t)
      /\ Depth(t) \in 1 .. Depth(t)
      /\ Top(t) \in Job
  <2>1. Depth(t) \in Nat /\ Depth(t) > 0 /\ JobAt(t, Depth(t)) = Top(t)
    BY PlaceType DEF PlacesInv
  <2>2. Depth(t) \in 1 .. Depth(t)
    BY <2>1
  <2>3. QED
    BY <2>1, <2>2, PlaceType DEF PlacesInv
<1>2. JobSound(Top(t))
  BY <1>1 DEF PlacesInv, JobsSound
<1>3. NoConflict(t, Depth(t), Top(t))
  <2> SUFFICES ASSUME NEW u \in Thread, NEW l \in 1 .. Depth(u),
                      Elsewhere(t, Depth(t), u, l)
               PROVE  ~ Conflict(JobAt(t, Depth(t)), JobAt(u, l))
    BY <1>1 DEF NoConflict
  <2>1. u # t \/ l # Depth(t)
    BY <1>1 DEF Elsewhere
  <2>2. QED
    BY <1>1, <2>1 DEF PlacesInv, Alone
<1>4. ASSUME NEW u \in Thread, NEW k \in 1 .. Depth(u),
             JobAt(u, k).op = "link", JobAt(u, k).res = Top(t).res
      PROVE  /\ Top(t).op # "load"
             /\ Top(t).op = "link" => u = t /\ k = Depth(t)
  <2>1. /\ k = Depth(u) /\ k > 1 /\ Depth(u) \in Nat
        /\ JobAt(u, k - 1).op = "load" /\ JobAt(u, k - 1).res = Top(t).res
    BY <1>4, PlaceType DEF PlacesInv, LinkOnLoad
  <2>2. k - 1 \in 1 .. Depth(u)
    BY <2>1
  <2>3. Top(t).op # "load"
    <3>1. SUFFICES ASSUME Top(t).op = "load" PROVE FALSE
      OBVIOUS
    <3>2. Conflict(JobAt(t, Depth(t)), JobAt(u, k - 1))
      BY <1>1, <2>1, <3>1 DEF Conflict
    <3>3. u = t /\ k - 1 = Depth(t)
      BY <1>1, <2>2, <3>2 DEF PlacesInv, Alone
    <3>4. QED
      BY <2>1, <3>3
  <2>4. ASSUME Top(t).op = "link"
        PROVE  u = t /\ k = Depth(t)
    <3>1. /\ Depth(t) > 1 /\ JobAt(t, Depth(t) - 1).op = "load"
          /\ JobAt(t, Depth(t) - 1).res = Top(t).res
      BY <1>1, <2>4 DEF PlacesInv, LinkOnLoad
    <3>2. Depth(t) - 1 \in 1 .. Depth(t)
      BY <1>1, <3>1
    <3>3. Conflict(JobAt(t, Depth(t) - 1), JobAt(u, k - 1))
      BY <2>1, <3>1 DEF Conflict
    <3>4. u = t /\ k - 1 = Depth(t) - 1
      BY <2>2, <3>2, <3>3 DEF PlacesInv, Alone
    <3>5. QED
      BY <1>1, <2>1, <3>4
  <2>5. QED
    BY <2>3, <2>4
<1>5. QED
  BY <1>1, <1>2, <1>3, <1>4

\* The part of the invariant that is not about call stacks.
ListsInv == LoadedSound /\ DeclaredSound /\ ParentsWait

LEMMA OrderParts == OrderInv <=> PlacesInv /\ ListsInv
BY DEF OrderInv, PlacesInv, ListsInv

LEMMA BeginOrder ==
    ASSUME OrderInv, TypeOK', NEW t \in Thread, NEW r \in Resource,
           BeginLoading(t, r)
    PROVE  OrderInv'
<1> DEFINE j == NewJob("load", r, {})
<1>1. PICK e \in Enqueued :
        /\ status[r] = "Unloaded" /\ status' = [status EXCEPT ![r] = e]
        /\ UNCHANGED <<deps, parents, declared, announced>>
        /\ Call(t, j)
        /\ todo[t] = <<>> \/ Top(t).op # "link"
  BY DEF BeginLoading, At, Top, Enqueued
<1>2. j \in Job /\ j.op = "load" /\ j.res = r
  BY NewJobType DEF NewJob
<1>3. \A d \in Resource : WasCreated(d) => WasCreated(d)'
  BY <1>1 DEF WasCreated, OrderInv, TypeOK, Enqueued
<1>4. \A i \in Job : Stays(i)
  BY <1>1, <1>3 DEF Stays, JobSound, OrderInv, TypeOK, Job, Enqueued
<1>5. JobSound(j)'
  BY <1>1, <1>2 DEF JobSound, OrderInv, TypeOK
<1>6. NoConflict(t, Depth(t) + 1, j)
  BY <1>1, <1>2
  DEF NoConflict, Conflict, OrderInv, JobsSound, JobSound, Enqueued
<1> HIDE DEF j
<1>7. PlacesInv'
  BY <1>1, <1>2, <1>4, <1>5, <1>6, OrderParts, CallStep DEF OthersStay
<1>8. ListsInv'
  BY <1>1, <1>3 DEF ListsInv, OrderInv, LoadedSound, DeclaredSound, ParentsWait,
    TypeOK, Enqueued
<1>9. QED
  BY <1>7, <1>8 DEF OrderInv, PlacesInv, ListsInv

LEMMA ParseOrder ==
    ASSUME OrderInv, TypeOK', NEW r \in Resource, ParseFailure(r)
    PROVE  OrderInv'
<1>1. /\ status[r] = "Unloaded" /\ status' = [status EXCEPT ![r] = "Failed"]
      /\ \A d \in Resource : announced[d] \subseteq announced'[d]
      /\ UNCHANGED <<deps, parents, declared, todo>>
  BY DEF ParseFailure, OrderInv, TypeOK
<1>2. \A d \in Resource : WasCreated(d) => WasCreated(d)'
  BY <1>1 DEF WasCreated, OrderInv, TypeOK
<1>3. \A i \in Job : Stays(i)
  BY <1>1, <1>2 DEF Stays, JobSound, OrderInv, TypeOK, Job, Enqueued
<1>4. PlacesInv'
  BY <1>1, <1>3, OrderParts, SameStep
<1>5. ListsInv'
  BY <1>1, <1>2 DEF ListsInv, OrderInv, LoadedSound, DeclaredSound, ParentsWait,
    TypeOK
<1>6. QED
  BY <1>4, <1>5 DEF OrderInv, PlacesInv, ListsInv

\* A load() or addDependency() that fails while no link of its resource is
\* under way.
LEMMA FailedStays ==
    ASSUME OrderInv, TypeOK', NEW r \in Resource,
           status[r] \in Enqueued \union {"Failed"},
           status' = [status EXCEPT ![r] = "Failed"],
           \A d \in Resource : announced[d] \subseteq announced'[d],
           UNCHANGED <<deps, parents, declared>>
    PROVE  /\ \A j \in Job : ~ (j.op = "link" /\ j.res = r) => Stays(j)
           /\ ListsInv'
<1>1. \A d \in Resource : WasCreated(d) => WasCreated(d)'
  BY DEF WasCreated, OrderInv, TypeOK, Enqueued
<1>2. \A j \in Job : ~ (j.op = "link" /\ j.res = r) => Stays(j)
  BY <1>1 DEF Stays, JobSound, OrderInv, TypeOK, Job
<1>3. ListsInv'
  BY <1>1 DEF ListsInv, OrderInv, LoadedSound, DeclaredSound, ParentsWait, TypeOK
<1>4. QED
  BY <1>2, <1>3

LEMMA AddNullOrder ==
    ASSUME OrderInv, TypeOK', NEW t \in Thread, AddNull(t)
    PROVE  OrderInv'
<1>1. PICK r : r = Top(t).res
  OBVIOUS
<1>2. /\ todo[t] # <<>> /\ Top(t).op = "load"
      /\ status' = [status EXCEPT ![r] = "Failed"]
      /\ UNCHANGED <<deps, parents, declared, announced, todo>>
  BY <1>1 DEF AddNull, At, Top
<1>3. /\ r \in Resource /\ status[r] \in Enqueued \union {"Failed"}
      /\ \A u \in Thread : \A k \in 1 .. Depth(u) :
           ~ (JobAt(u, k).op = "link" /\ JobAt(u, k).res = r)
  BY <1>1, <1>2, TopFacts, OrderParts DEF JobSound, Job
<1>4. /\ \A j \in Job : ~ (j.op = "link" /\ j.res = r) => Stays(j)
      /\ ListsInv'
  BY <1>2, <1>3, FailedStays
<1>5. PlacesInv'
  BY <1>2, <1>3, <1>4, SameStep, OrderParts
<1>6. QED
  BY <1>4, <1>5 DEF OrderInv, PlacesInv, ListsInv

LEMMA AddDependencyOrder ==
    ASSUME OrderInv, TypeOK', NEW t \in Thread, NEW d \in Resource,
           AddDependency(t, d)
    PROVE  OrderInv'
<1>1. PICK r : r = Top(t).res
  OBVIOUS
<1>2. /\ todo[t] # <<>> /\ Top(t).op = "load"
      /\ status[r] \in Enqueued
      /\ UNCHANGED <<deps, parents, announced>>
  BY <1>1, TopFacts, OrderParts DEF AddDependency, At, Top, JobSound
<1>3. /\ r \in Resource
      /\ \A u \in Thread : \A k \in 1 .. Depth(u) :
           ~ (JobAt(u, k).op = "link" /\ JobAt(u, k).res = r)
  BY <1>1, <1>2, TopFacts, OrderParts DEF JobSound, Job
<1>4. CASE /\ status[d] = "Loaded" \/ d \in deps[r]
           /\ declared' = [declared EXCEPT ![r] = @ \union {d}]
           /\ UNCHANGED <<status, todo>>
  <2>1. \A x \in Resource : WasCreated(x) <=> WasCreated(x)'
    BY <1>2, <1>4 DEF WasCreated
  <2>2. d \in deps[r] \/ WasCreated(d)
    BY <1>4 DEF OrderInv, LoadedSound, WasCreated
  <2>3. \A j \in Job : Stays(j)
    BY <1>2, <1>4, <2>1 DEF Stays, JobSound, OrderInv, TypeOK, Job, Enqueued
  <2>4. PlacesInv'
    BY <1>4, <2>3, SameStep, OrderParts
  <2>5. LoadedSound' /\ ParentsWait'
    BY <1>2, <1>4, <2>1 DEF OrderInv, LoadedSound, ParentsWait, TypeOK, Enqueued
  <2>6. DeclaredSound'
    BY <1>2, <1>4, <2>1, <2>2 DEF OrderInv, DeclaredSound, TypeOK
  <2>7. QED
    BY <2>4, <2>5, <2>6 DEF OrderInv, PlacesInv
<1>5. CASE status' = [status EXCEPT ![r] = "Failed"] /\ UNCHANGED <<todo, declared>>
  <2>1. /\ \A j \in Job : ~ (j.op = "link" /\ j.res = r) => Stays(j)
        /\ ListsInv'
    BY <1>2, <1>3, <1>5, FailedStays
  <2>2. PlacesInv'
    BY <1>3, <1>5, <2>1, SameStep, OrderParts
  <2>3. QED
    BY <2>1, <2>2 DEF OrderInv, PlacesInv, ListsInv
<1>6. CASE /\ d \notin deps[r]
           /\ Call(t, NewJob("link", r, {d}))
           /\ UNCHANGED <<status, declared>>
  <2>1. PICK j \in Job : /\ j = NewJob("link", r, {d})
                         /\ j.op = "link" /\ j.res = r /\ j.with = {d}
    <3>1. NewJob("link", r, {d}) \in Job
      BY <1>3, NewJobType
    <3>2. QED
      BY <3>1 DEF NewJob
  <2>2. \A i \in Job : Stays(i)
    BY <1>2, <1>6 DEF Stays, JobSound, WasCreated
  <2>3. JobSound(j)'
    BY <1>2, <1>6, <2>1 DEF JobSound
  <2>4. NoConflict(t, Depth(t) + 1, j)
    BY <2>1 DEF NoConflict, Conflict
  <2>5. PlacesInv'
    BY <1>1, <1>2, <1>6, <2>1, <2>2, <2>3, <2>4, CallStep, OrderParts
    DEF OthersStay
  <2>6. ListsInv'
    BY <1>2, <1>6
    DEF ListsInv, OrderInv, LoadedSound, DeclaredSound, ParentsWait, WasCreated
  <2>7. QED
    BY <2>5, <2>6 DEF OrderInv, PlacesInv, ListsInv
<1>7. QED
  BY <1>1, <1>4, <1>5, <1>6 DEF AddDependency

LEMMA LinkOrder ==
    ASSUME OrderInv, TypeOK', NEW t \in Thread, Link(t)
    PROVE  OrderInv'
<1>1. PICK r, S : r = Top(t).res /\ S = Top(t).with
  OBVIOUS
<1>2. /\ todo[t] # <<>> /\ Top(t).op = "link"
      /\ Replace(t, <<>>)
      /\ deps' = [deps EXCEPT ![r] = @ \union S]
      /\ parents' = [d \in Resource |->
                        parents[d] \union IF d \in S THEN {r} ELSE {}]
      /\ declared' = [declared EXCEPT ![r] = @ \union S]
      /\ UNCHANGED <<status, announced>>
  BY <1>1 DEF Link, At, Top
<1>3. /\ r \in Resource /\ S \in SUBSET Resource
      /\ status[r] \in Enqueued /\ \A d \in S : d \notin deps[r]
      /\ \A u \in Thread : \A k \in 1 .. Depth(u) :
           JobAt(u, k).op = "link" /\ JobAt(u, k).res = r =>
                u = t /\ k = Depth(t)
  BY <1>1, <1>2, TopFacts, OrderParts DEF JobSound, Job
<1>4. \A d \in Resource : WasCreated(d) <=> WasCreated(d)'
  BY <1>2 DEF WasCreated
<1>5. ASSUME NEW j \in Job, ~ (j.op = "link" /\ j.res = r)
      PROVE  Stays(j)
  <2>1. j.res \in Resource /\ j.with \in SUBSET Resource
    BY DEF Job
  <2>2. j.op = "link" => (JobSound(j) => JobSound(j)')
    BY <1>2, <1>3, <1>5, <2>1 DEF JobSound, OrderInv, TypeOK
  <2>3. j.op = "create" => (JobSound(j) => JobSound(j)')
    BY <1>2, <1>3, <1>4, <2>1 DEF JobSound, OrderInv, TypeOK, Enqueued
  <2>4. j.op = "notify" => (JobSound(j) => JobSound(j)')
    BY <1>2, <1>3, <1>4, <2>1 DEF JobSound, OrderInv, TypeOK
  <2>5. j.op \notin {"link", "create", "notify"} => (JobSound(j) => JobSound(j)')
    BY <1>2 DEF JobSound
  <2>6. QED
    BY <2>2, <2>3, <2>4, <2>5 DEF Stays
<1>6. Depth(t) \in Nat
  BY PlaceType DEF OrderInv
<1>7. OthersStay(t, Depth(t))
  BY <1>3, <1>5, <1>6 DEF OthersStay, Elsewhere
<1>8. PlacesInv'
  BY <1>2, <1>7, EndStep, OrderParts
<1>9. LoadedSound'
  BY <1>2, <1>3, <1>4 DEF OrderInv, LoadedSound, TypeOK, Enqueued
<1>10. DeclaredSound'
  BY <1>2, <1>3, <1>4 DEF OrderInv, DeclaredSound, TypeOK
<1>11. ParentsWait'
  BY <1>2, <1>3 DEF OrderInv, ParentsWait, TypeOK
<1>12. QED
  BY <1>8, <1>9, <1>10, <1>11 DEF OrderInv, PlacesInv

LEMMA EndLoadingOrder ==
    ASSUME OrderInv, TypeOK', NEW t \in Thread, EndLoading(t)
    PROVE  OrderInv'
<1>1. PICK r : r = Top(t).res
  OBVIOUS
<1>2. /\ todo[t] # <<>> /\ Top(t).op = "load"
      /\ status[r] \in Enqueued
      /\ status' = [status EXCEPT ![r] = "Loading"]
      /\ Replace(t, <<NewJob("check", r, {})>>)
      /\ UNCHANGED <<deps, parents, declared, announced>>
  BY <1>1 DEF EndLoading, At, Top, Enqueued
<1>3. /\ r \in Resource
      /\ \A u \in Thread : \A k \in 1 .. Depth(u) :
           Elsewhere(t, Depth(t), u, k) =>
             ~ (JobAt(u, k).op \in {"link", "load"} /\ JobAt(u, k).res = r)
  BY <1>1, <1>2, TopFacts, OrderParts DEF NoConflict, Conflict, Job
<1>4. \A d \in Resource : WasCreated(d) => WasCreated(d)'
  BY <1>2 DEF WasCreated, OrderInv, TypeOK, Enqueued
<1>5. \A j \in Job : ~ (j.op \in {"link", "load"} /\ j.res = r) => Stays(j)
  BY <1>2, <1>4 DEF Stays, JobSound, OrderInv, TypeOK, Job, Enqueued
<1>6. PICK j \in Job : j = NewJob("check", r, {}) /\ j.op = "check"
  <2>1. NewJob("check", r, {}) \in Job
    BY <1>3, NewJobType
  <2>2. QED
    BY <2>1 DEF NewJob
<1>7. JobSound(j)' /\ NoConflict(t, Depth(t), j)
  BY <1>6 DEF JobSound, NoConflict, Conflict
<1>8. PlacesInv'
  BY <1>2, <1>3, <1>5, <1>6, <1>7, GoOnStep, OrderParts DEF OthersStay
<1>9. ListsInv'
  BY <1>2, <1>4 DEF ListsInv, OrderInv, LoadedSound, DeclaredSound, ParentsWait,
    TypeOK, Enqueued
<1>10. QED
  BY <1>8, <1>9 DEF OrderInv, PlacesInv, ListsInv

LEMMA FailLoadingOrder ==
    ASSUME OrderInv, TypeOK', NEW t \in Thread, FailLoading(t)
    PROVE  OrderInv'
<1>1. PICK r : r = Top(t).res
  OBVIOUS
<1>2. /\ todo[t] # <<>> /\ Top(t).op = "load"
      /\ status[r] \in Enqueued
      /\ status' = [status EXCEPT ![r] = "Failed"]
      /\ \A d \in Resource : announced[d] \subseteq announced'[d]
      /\ Replace(t, <<>>)
      /\ UNCHANGED <<deps, parents, declared>>
  BY <1>1 DEF FailLoading, At, Top, Enqueued, OrderInv, TypeOK
<1>3. /\ r \in Resource
      /\ \A u \in Thread : \A k \in 1 .. Depth(u) :
           ~ (JobAt(u, k).op = "link" /\ JobAt(u, k).res = r)
  BY <1>1, <1>2, TopFacts, OrderParts DEF Job
<1>4. /\ \A j \in Job : ~ (j.op = "link" /\ j.res = r) => Stays(j)
      /\ ListsInv'
  BY <1>2, <1>3, FailedStays
<1>5. PlacesInv'
  BY <1>2, <1>3, <1>4, EndStep, OrderParts DEF OthersStay
<1>6. QED
  BY <1>4, <1>5 DEF OrderInv, PlacesInv, ListsInv

LEMMA RefusedOrder ==
    ASSUME OrderInv, TypeOK', NEW t \in Thread, RefusedEnd(t) \/ Notified(t)
    PROVE  OrderInv'
<1>1. /\ todo[t] # <<>> /\ Replace(t, <<>>)
      /\ UNCHANGED <<status, deps, parents, declared, announced>>
  BY DEF RefusedEnd, Notified, At
<1>2. \A j \in Job : Stays(j)
  BY <1>1 DEF Stays, JobSound, WasCreated
<1>3. PlacesInv'
  BY <1>1, <1>2, EndStep, OrderParts DEF OthersStay
<1>4. ListsInv'
  BY <1>1 DEF ListsInv, OrderInv, LoadedSound, DeclaredSound, ParentsWait,
    WasCreated
<1>5. QED
  BY <1>3, <1>4 DEF OrderInv, PlacesInv, ListsInv

\* What is ready to create has only declared what was created.
LEMMA CheckOrder ==
    ASSUME OrderInv, TypeOK', NEW t \in Thread, CheckDependencies(t)
    PROVE  OrderInv'
<1>1. PICK r : r = Top(t).res
  OBVIOUS
<1>2. /\ todo[t] # <<>>
      /\ UNCHANGED <<status, deps, parents, declared, announced>>
  BY DEF CheckDependencies, At
<1>3. r \in Resource
  BY <1>1, <1>2, TopFacts, OrderParts DEF Job
<1>4. \A i \in Job : Stays(i)
  BY <1>2 DEF Stays, JobSound, WasCreated
<1>5. ListsInv'
  BY <1>2 DEF ListsInv, OrderInv, LoadedSound, DeclaredSound, ParentsWait,
    WasCreated
<1>6. CASE Replace(t, <<>>)
  <2>1. PlacesInv'
    BY <1>2, <1>4, <1>6, EndStep, OrderParts DEF OthersStay
  <2>2. QED
    BY <1>5, <2>1 DEF OrderInv, PlacesInv, ListsInv
<1>7. CASE ReadyToCreate(r) /\ Replace(t, <<NewJob("create", r, {})>>)
  <2>1. PICK j \in Job : j = NewJob("create", r, {}) /\ j.op = "create" /\ j.res = r
    <3>1. NewJob("create", r, {}) \in Job
      BY <1>3, NewJobType
    <3>2. QED
      BY <3>1 DEF NewJob
  <2>2. status[r] = "Loading" /\ \A d \in declared[r] : WasCreated(d)
    BY <1>3, <1>7
    DEF ReadyToCreate, OrderInv, TypeOK, DeclaredSound, LoadedSound, WasCreated
  <2>3. JobSound(j)'
    BY <1>2, <2>1, <2>2 DEF JobSound, WasCreated
  <2>4. NoConflict(t, Depth(t), j)
    BY <2>1, <2>2 DEF NoConflict, Conflict, OrderInv, JobsSound, JobSound, Enqueued
  <2>5. PlacesInv'
    BY <1>2, <1>4, <1>7, <2>1, <2>3, <2>4, GoOnStep, OrderParts DEF OthersStay
  <2>6. QED
    BY <1>5, <2>5 DEF OrderInv, PlacesInv, ListsInv
<1>8. QED
  BY <1>1, <1>6, <1>7 DEF CheckDependencies

LEMMA CreatedOrder ==
    ASSUME OrderInv, TypeOK', NEW t \in Thread, Created(t)
    PROVE  OrderInv'
<1>1. PICK r, S : r = Top(t).res /\ S = parents[r]
  OBVIOUS
<1>2. /\ todo[t] # <<>> /\ Top(t).op = "create"
      /\ status' = [status EXCEPT ![r] = "Loaded"]
      /\ parents' = [parents EXCEPT ![r] = {}]
      /\ announced' = [announced EXCEPT ![r] = @ \union {"LoadFinished"}]
      /\ Replace(t, <<NewJob("notify", r, S)>>)
      /\ UNCHANGED <<deps, declared>>
  BY <1>1 DEF Created, At, Top
<1>3. /\ r \in Resource /\ S \in SUBSET Resource
      /\ status[r] \in {"Loading", "Loaded", "Failed"}
      /\ \A d \in declared[r] : WasCreated(d)
      /\ \A u \in Thread : \A k \in 1 .. Depth(u) :
           Elsewhere(t, Depth(t), u, k) =>
             ~ (JobAt(u, k).op = "load" /\ JobAt(u, k).res = r)
  <2>1. r \in Resource /\ JobSound(Top(t)) /\ NoConflict(t, Depth(t), Top(t))
    BY <1>1, <1>2, TopFacts, OrderParts DEF Job
  <2>2. S \in SUBSET Resource
    BY <1>1, <2>1 DEF OrderInv, TypeOK
  <2>3. QED
    BY <1>1, <1>2, <2>1, <2>2 DEF JobSound, NoConflict, Conflict
<1>4. /\ \A d \in Resource : WasCreated(d) => WasCreated(d)'
      /\ WasCreated(r)'
  BY <1>2, <1>3 DEF WasCreated, OrderInv, TypeOK
<1>5. \A j \in Job : ~ (j.op = "load" /\ j.res = r) => Stays(j)
  BY <1>2, <1>3, <1>4 DEF Stays, JobSound, OrderInv, TypeOK, Job, Enqueued
<1>6. PICK j \in Job : /\ j = NewJob("notify", r, S)
                       /\ j.op = "notify" /\ j.res = r /\ j.with = S
  <2>1. NewJob("notify", r, S) \in Job
    BY <1>3, NewJobType
  <2>2. QED
    BY <2>1 DEF NewJob
<1>7. \A p \in S : r \in deps[p]
  BY <1>1, <1>3 DEF OrderInv, ParentsWait
<1>8. JobSound(j)'
  BY <1>2, <1>3, <1>4, <1>6, <1>7 DEF JobSound, OrderInv, TypeOK
<1>9. NoConflict(t, Depth(t), j)
  BY <1>1, <1>6 DEF NoConflict, Conflict, OrderInv, JobsSound, JobSound
<1>10. PlacesInv'
  BY <1>2, <1>3, <1>5, <1>6, <1>8, <1>9, GoOnStep, OrderParts DEF OthersStay
<1>11. LoadedSound'
  BY <1>2, <1>3, <1>4 DEF OrderInv, LoadedSound, TypeOK
<1>12. DeclaredSound' /\ ParentsWait'
  BY <1>2, <1>4 DEF OrderInv, DeclaredSound, ParentsWait, TypeOK
<1>13. QED
  BY <1>10, <1>11, <1>12 DEF OrderInv, PlacesInv

LEMMA NotCreatedOrder ==
    ASSUME OrderInv, TypeOK', NEW t \in Thread, NotCreated(t)
    PROVE  OrderInv'
<1>1. PICK r : r = Top(t).res
  OBVIOUS
<1>2. /\ todo[t] # <<>> /\ Top(t).op = "create"
      /\ status' = [status EXCEPT ![r] = "Failed"]
      /\ announced' = [announced EXCEPT ![r] = @ \union {"LoadFailed"}]
      /\ Replace(t, <<>>)
      /\ UNCHANGED <<deps, parents, declared>>
  BY <1>1 DEF NotCreated, At, Top
<1>3. r \in Resource /\ status[r] \in {"Loading", "Loaded", "Failed"}
  BY <1>1, <1>2, TopFacts, OrderParts DEF JobSound, Job
<1>4. \A d \in Resource : WasCreated(d) => WasCreated(d)'
  BY <1>2, <1>3 DEF WasCreated, OrderInv, TypeOK
<1>5. \A j \in Job : Stays(j)
  BY <1>2, <1>3, <1>4 DEF Stays, JobSound, OrderInv, TypeOK, Job, Enqueued
<1>6. PlacesInv'
  BY <1>2, <1>5, EndStep, OrderParts DEF OthersStay
<1>7. ListsInv'
  BY <1>2, <1>3, <1>4 DEF ListsInv, OrderInv, LoadedSound, DeclaredSound,
    ParentsWait, TypeOK
<1>8. QED
  BY <1>6, <1>7 DEF OrderInv, PlacesInv, ListsInv

\* The parent that was told is told once, and was waiting until then.
LEMMA DependencyLoadedOrder ==
    ASSUME OrderInv, TypeOK', NEW t \in Thread, NEW p \in Resource,
           DependencyLoaded(t, p)
    PROVE  OrderInv'
<1>1. PICK d, S : d = Top(t).res /\ S = Top(t).with
  OBVIOUS
<1>2. /\ todo[t] # <<>> /\ Top(t).op = "notify" /\ p \in S
      /\ deps' = [deps EXCEPT ![p] = @ \ {d}]
      /\ Replace(t, <<NewJob("check", p, {}), NewJob("notify", d, S \ {p})>>)
      /\ UNCHANGED <<status, parents, declared, announced>>
  BY <1>1 DEF DependencyLoaded, At, Top
<1>3. /\ d \in Resource /\ S \in SUBSET Resource
      /\ WasCreated(d)
      /\ \A q \in S : d \in deps[q] /\ q \notin parents[d]
      /\ NoConflict(t, Depth(t), Top(t))
  BY <1>1, <1>2, TopFacts, OrderParts DEF JobSound, Job
<1>4. PICK i, j \in Job :
        /\ i = NewJob("check", p, {}) /\ i.op = "check"
        /\ j = NewJob("notify", d, S \ {p})
        /\ j.op = "notify" /\ j.res = d /\ j.with = S \ {p}
  <2>1. NewJob("check", p, {}) \in Job /\ NewJob("notify", d, S \ {p}) \in Job
    BY <1>3, NewJobType
  <2>2. QED
    BY <2>1 DEF NewJob
<1>5. PICK n \in Nat : n = Depth(t)
  BY PlaceType DEF OrderInv
<1>6. /\ Kept(t, n) /\ Depth(t)' = n + 1
      /\ JobAt(t, n + 1)' = i /\ JobAt(t, n)' = j
  <2>1. PICK js \in Seq(Job) :
          js = <<i, j>> /\ Len(js) = 2 /\ js[1] = i /\ js[2] = j
    <3>1. /\ <<i, j>> \in Seq(Job) /\ Len(<<i, j>>) = 2
          /\ <<i, j>>[1] = i /\ <<i, j>>[2] = j
      OBVIOUS
    <3>2. QED
      BY <3>1
  <2>2. /\ Kept(t, Depth(t)) /\ Depth(t)' = Depth(t) - 1 + Len(js)
        /\ \A m \in 1 .. Len(js) : JobAt(t, Depth(t) + 1 - m)' = js[m]
    BY <1>2, <1>4, <2>1, ReplacePlaces DEF OrderInv
  <2>3. Depth(t)' = n + 1
    BY <1>5, <2>1, <2>2
  <2>4. JobAt(t, Depth(t) + 1 - 1)' = i /\ JobAt(t, Depth(t) + 1 - 2)' = j
    BY <2>1, <2>2
  <2>5. /\ JobAt(t, n + 1)' = JobAt(t, Depth(t) + 1 - 1)'
        /\ JobAt(t, n)' = JobAt(t, Depth(t) + 1 - 2)'
    BY <2>3 DEF JobAt
  <2>6. QED
    BY <1>5, <2>2, <2>3, <2>4, <2>5
<1>7. \A x \in Resource : WasCreated(x) <=> WasCreated(x)'
  BY <1>2 DEF WasCreated
<1>8. ASSUME NEW u \in Thread, NEW k \in 1 .. Depth(u), NEW x \in Job,
             Elsewhere(t, n, u, k), x = JobAt(u, k)
      PROVE  Stays(x)
  <2>1. x.res \in Resource /\ x.with \in SUBSET Resource
    BY DEF Job
  <2>2. x.op = "notify" /\ x.res = d => p \notin x.with
    BY <1>1, <1>2, <1>3, <1>5, <1>8 DEF NoConflict, Conflict
  <2>3. x.op = "link" => (JobSound(x) => JobSound(x)')
    BY <1>2, <2>1 DEF JobSound, OrderInv, TypeOK
  <2>4. x.op = "notify" => (JobSound(x) => JobSound(x)')
    BY <1>2, <1>7, <2>1, <2>2 DEF JobSound, OrderInv, TypeOK
  <2>5. x.op \notin {"link", "notify"} => (JobSound(x) => JobSound(x)')
    BY <1>2, <1>7, <2>1 DEF JobSound, OrderInv, TypeOK
  <2>6. QED
    BY <2>3, <2>4, <2>5 DEF Stays
<1>9. JobSound(i)' /\ NoConflict(t, n, i)
  BY <1>4 DEF JobSound, NoConflict, Conflict
<1>10. JobSound(j)'
  <2>1. \A q \in S \ {p} : d \in deps'[q] /\ q \notin parents'[d]
    BY <1>2, <1>3 DEF OrderInv, TypeOK
  <2>2. WasCreated(d)'
    BY <1>3, <1>7
  <2>3. QED
    BY <1>4, <2>1, <2>2 DEF JobSound
<1>11. NoConflict(t, n, j)
  BY <1>1, <1>2, <1>3, <1>4, <1>5 DEF NoConflict, Conflict
<1>12. \A k \in 1 .. Depth(t) : k < n => JobAt(t, k).op # "link"
  BY <1>5 DEF OrderInv, LinkOnLoad
<1>13. ASSUME NEW k \in 1 .. Depth(t)', k >= n
       PROVE  \/ k = n /\ JobAt(t, k)' = j
              \/ k = n + 1 /\ JobAt(t, k)' = i
  BY <1>6, <1>13
<1>14. Alone' /\ LinkOnLoad' /\ JobsSound'
  <2>1. OthersStay(t, n)
    BY <1>8 DEF OthersStay
  <2>2. \A k \in 1 .. Depth(t)' : \A x \in Job :
          k >= n /\ x = JobAt(t, k)' =>
            /\ JobSound(x)' /\ NoConflict(t, n, x)
            /\ x.op # "link" /\ (x.op = "check" \/ k = n)
    BY <1>4, <1>9, <1>10, <1>11, <1>13
  <2>3. QED
    BY <1>6, <1>12, <2>1, <2>2, PlacesStep DEF OrderInv
<1>15. LoadedSound' /\ ParentsWait'
  BY <1>2, <1>3, <1>7 DEF OrderInv, LoadedSound, ParentsWait, TypeOK
<1>16. DeclaredSound'
  BY <1>2, <1>3, <1>7 DEF OrderInv, DeclaredSound, TypeOK
<1>17. QED
  BY <1>14, <1>15, <1>16 DEF OrderInv

LEMMA OrderInit == Init => OrderInv
<1> SUFFICES ASSUME Init PROVE OrderInv
  OBVIOUS
<1>1. TypeOK
  BY DEF Init, TypeOK, Statuses
<1>2. \A t \in Thread : Depth(t) = 0
  BY DEF Init, Depth
<1>3. Alone /\ LinkOnLoad /\ JobsSound
  BY <1>2 DEF Alone, LinkOnLoad, JobsSound
<1>4. LoadedSound /\ DeclaredSound /\ ParentsWait
  BY DEF Init, LoadedSound, DeclaredSound, ParentsWait
<1>5. QED
  BY <1>1, <1>3, <1>4 DEF OrderInv

LEMMA OrderStep == OrderInv /\ [Next]_vars => OrderInv'
<1> SUFFICES ASSUME OrderInv, [Next]_vars PROVE OrderInv'
  OBVIOUS
<1>1. TypeOK'
  BY TypeStep DEF OrderInv
<1>2. CASE UNCHANGED vars
  <2>1. \A j \in Job : Stays(j)
    BY <1>2 DEF vars, Stays, JobSound, WasCreated
  <2>2. PlacesInv'
    BY <1>1, <1>2, <2>1, SameStep, OrderParts DEF vars
  <2>3. ListsInv'
    BY <1>2 DEF vars, ListsInv, OrderInv, LoadedSound, DeclaredSound,
      ParentsWait, WasCreated
  <2>4. QED
    BY <2>2, <2>3 DEF OrderInv, PlacesInv, ListsInv
<1>3. CASE \E t \in Thread : ThreadStep(t)
  BY <1>1, <1>3, AddDependencyOrder, AddNullOrder, LinkOrder, EndLoadingOrder,
     FailLoadingOrder, RefusedOrder, CheckOrder, CreatedOrder, NotCreatedOrder,
     DependencyLoadedOrder DEF ThreadStep
<1>4. QED
  BY <1>1, <1>2, <1>3, BeginOrder, ParseOrder DEF Next

(***************************************************************************)
(* Whatever the threads do, whatever fails: a resource that is created, or *)
(* being created, has declared nothing that was not created before         *)
(* (ResourceTrait.cpp:289-346).                                            *)
(***************************************************************************)
THEOREM CreatedInOrder == Spec => []LoadedAfterDependencies
<1>1. OrderInv => LoadedAfterDependencies
  <2> SUFFICES ASSUME OrderInv, NEW p \in Resource, NEW d \in declared[p],
                      status[p] = "Loaded" \/ Pending(NewJob("create", p, {}))
               PROVE  WasCreated(d)
    BY DEF LoadedAfterDependencies, WasCreated
  <2>1. CASE status[p] = "Loaded"
    BY <2>1 DEF OrderInv, LoadedSound
  <2>2. CASE Pending(NewJob("create", p, {}))
    <3>1. \E t \in Thread : \E k \in 1 .. Depth(t) :
            JobAt(t, k) = NewJob("create", p, {})
      BY <2>2, PlaceType DEF Pending, OrderInv
    <3>2. QED
      BY <3>1 DEF OrderInv, JobsSound, JobSound, NewJob
  <2>3. QED
    BY <2>1, <2>2
<1>2. QED
  BY OrderInit, OrderStep, <1>1, PTL DEF Spec

(***************************************************************************)
(* The list of what a resource waits for and the lists of who waits for it *)
(* agree, up to the notifications under way, each of which is for one of   *)
(* the parents that still wait (ResourceTrait.cpp:222-225, 319-370).       *)
(***************************************************************************)
THEOREM ListsConsistent == Spec => []ListsAgree
<1>1. WakeupInv /\ OrderInv => ListsAgree
  <2> SUFFICES ASSUME WakeupInv, OrderInv, NEW p \in Resource, NEW d \in Resource
               PROVE  /\ d \in deps[p] <=> p \in parents[d] \/ Notifying(p, d)
                      /\ ~ (p \in parents[d] /\ Notifying(p, d))
    BY DEF ListsAgree
  <2>1. ASSUME Notifying(p, d)
        PROVE  d \in deps[p] /\ p \notin parents[d]
    <3>1. PICK S \in SUBSET Resource : p \in S /\ Pending(NewJob("notify", d, S))
      BY <2>1 DEF Notifying
    <3>2. \E t \in Thread : \E k \in 1 .. Depth(t) :
            JobAt(t, k) = NewJob("notify", d, S)
      BY <3>1, PlaceType DEF Pending, OrderInv
    <3>3. QED
      BY <3>1, <3>2 DEF OrderInv, JobsSound, JobSound, NewJob
  <2>2. QED
    BY <2>1 DEF WakeupInv, Linked, OrderInv, ParentsWait
<1>2. QED
  BY WakeupInit, WakeupStep, OrderInit, OrderStep, <1>1, PTL DEF Spec

-----------------------------------------------------------------------------
(***************************************************************************)
(* The protocol implements Creation.                                       *)
(***************************************************************************)
CreatedSet == {r \in Resource : "LoadFinished" \in announced[r]}

CreatingSet == {r \in Resource : IsCreating(r)}

LEMMA CreatingPending ==
    \A r : IsCreating(r) <=> \E j : Pending(j) /\ j.op = "create" /\ j.res = r
BY DEF IsCreating, Pending

\* A step that neither begins nor ends a creation.
LEMMA ReplaceCreating ==
    ASSUME TypeOK, NEW t \in Thread, todo[t] # <<>>,
           NEW js \in Seq(Job), Replace(t, js), Top(t).op # "create",
           \A j \in Range(js) : j.op # "create"
    PROVE  CreatingSet' = CreatingSet
<1>1. /\ \A j : Pending(j)' => Pending(j) \/ j \in Range(js)
      /\ \A j : Pending(j) /\ j # Top(t) => Pending(j)'
  BY ReplaceJobs
<1>2. \A j : j.op = "create" => (Pending(j)' <=> Pending(j))
  BY <1>1
<1>3. \A r : IsCreating(r)' <=> IsCreating(r)
  BY <1>2 DEF IsCreating, Pending
<1>4. QED
  BY <1>3 DEF CreatingSet

LEMMA CallCreating ==
    ASSUME TypeOK, NEW t \in Thread, NEW k \in Job, Call(t, k), k.op # "create"
    PROVE  CreatingSet' = CreatingSet
<1>1. \A j : j.op = "create" => (Pending(j)' <=> Pending(j))
  BY CallJobs
<1>2. \A r : IsCreating(r)' <=> IsCreating(r)
  BY <1>1 DEF IsCreating, Pending
<1>3. QED
  BY <1>2 DEF CreatingSet

LEMMA EndCreating ==
    ASSUME TypeOK, NEW t \in Thread, todo[t] # <<>>, Replace(t, <<>>),
           Top(t).op # "create"
    PROVE  CreatingSet' = CreatingSet
<1>1. <<>> \in Seq(Job) /\ Range(<<>>) = {}
  BY DEF Range
<1>2. QED
  BY <1>1, ReplaceCreating

LEMMA SameCreating ==
    ASSUME UNCHANGED todo
    PROVE  CreatingSet' = CreatingSet
<1>1. \A r : IsCreating(r)' <=> IsCreating(r)
  BY DEF IsCreating, Jobs
<1>2. QED
  BY <1>1 DEF CreatingSet

LEMMA StageStep ==
    ASSUME TypeOK, NEW r \in Resource, NEW s \in Statuses,
           status' = [status EXCEPT ![r] = s]
    PROVE  stages' = [stages EXCEPT ![r] = StageOf(s)]
<1>1. \A x \in Resource : status'[x] = IF x = r THEN s ELSE status[x]
  BY DEF TypeOK
<1>2. stages' = [x \in Resource |-> StageOf(status'[x])]
  BY DEF stages
<1>3. stages = [x \in Resource |-> StageOf(status[x])]
  BY DEF stages
<1>4. \A x \in Resource :
        StageOf(status'[x]) = IF x = r THEN StageOf(s) ELSE stages[x]
  BY <1>1, <1>3
<1>5. QED
  BY <1>2, <1>3, <1>4

LEMMA StageNames ==
    /\ StageOf("Unloaded") = "Idle"
    /\ StageOf("Enqueuing") = "Declaring"
    /\ StageOf("ManualEnqueuing") = "Declaring"
    /\ StageOf("Loading") = "Complete"
    /\ StageOf("Loaded") = "Created"
    /\ StageOf("Failed") = "Failed"
    /\ \A r \in Resource : stages[r] = StageOf(status[r])
BY DEF StageOf, stages

LEMMA PromiseInit == Init => Promise!Init
<1> SUFFICES ASSUME Init PROVE Promise!Init
  OBVIOUS
<1>1. stages = [r \in Resource |-> "Idle"]
  BY DEF Init, stages, StageOf
<1>2. CreatedSet = {}
  BY DEF Init, CreatedSet
<1>3. CreatingSet = {}
  BY DEF Init, CreatingSet, IsCreating, Jobs, Range
<1>4. QED
  BY <1>1, <1>2, <1>3 DEF Init, Promise!Init, CreatedSet, CreatingSet

\* The steps that only change the stage of one resource.
LEMMA StageOnly ==
    ASSUME OrderInv, NEW r \in Resource, NEW s \in Statuses,
           status' = [status EXCEPT ![r] = s],
           UNCHANGED <<declared, CreatedSet, CreatingSet>>,
           \/ status[r] = "Unloaded" /\ s \in Enqueued
           \/ status[r] \in Enqueued /\ s = "Loading"
           \/ status[r] \in Enqueued \union {"Unloaded"} /\ s = "Failed"
    PROVE  Promise!Next
<1>1. stages' = [stages EXCEPT ![r] = StageOf(s)]
  BY StageStep DEF OrderInv
<1>2. UNCHANGED <<declared, {x \in Resource : "LoadFinished" \in announced[x]},
                  {x \in Resource : IsCreating(x)}>>
  BY DEF CreatedSet, CreatingSet
<1>3. Promise!Begin(r) \/ Promise!Complete(r) \/ Promise!Reject(r)
  BY <1>1, <1>2, StageNames
     DEF Promise!Begin, Promise!Complete, Promise!Reject, Enqueued
<1>4. QED
  BY <1>3 DEF Promise!Next

LEMMA DeclareOnly ==
    ASSUME OrderInv, NEW r \in Resource, NEW D \in SUBSET Resource,
           status[r] \in Enqueued, UNCHANGED status,
           declared' = [declared EXCEPT ![r] = @ \union D],
           UNCHANGED <<CreatedSet, CreatingSet>>
    PROVE  Promise!Next
<1>1. stages[r] = "Declaring" /\ stages' = stages
  BY StageNames DEF Enqueued, stages
<1>2. Promise!Declare(r, D)
  BY <1>1 DEF Promise!Declare, CreatedSet, CreatingSet
<1>3. QED
  BY <1>2 DEF Promise!Next

LEMMA NothingSeen ==
    ASSUME UNCHANGED <<status, declared, CreatedSet, CreatingSet>>
    PROVE  UNCHANGED Promise!vars
<1>1. stages' = stages
  BY DEF stages
<1>2. QED
  BY <1>1 DEF Promise!vars, CreatedSet, CreatingSet

LEMMA CheckPromise ==
    ASSUME OrderInv, NEW t \in Thread, CheckDependencies(t)
    PROVE  [Promise!Next]_(Promise!vars)
<1>1. PICK r : r = Top(t).res
  OBVIOUS
<1>2. /\ todo[t] # <<>> /\ Top(t).op = "check"
      /\ UNCHANGED <<status, deps, parents, declared, announced>>
  BY DEF CheckDependencies, At, Top
<1>3. TypeOK /\ r \in Resource /\ UNCHANGED CreatedSet
  BY <1>1, <1>2, TopFacts, OrderParts DEF Job, PlacesInv, CreatedSet
<1>4. CASE Replace(t, <<>>)
  <2>1. UNCHANGED CreatingSet
    BY <1>2, <1>3, <1>4, EndCreating
  <2>2. QED
    BY <1>2, <1>3, <2>1, NothingSeen
<1>5. CASE ReadyToCreate(r) /\ Replace(t, <<NewJob("create", r, {})>>)
  <2>1. PICK j \in Job : j = NewJob("create", r, {}) /\ j.op = "create" /\ j.res = r
    <3>1. NewJob("create", r, {}) \in Job
      BY <1>3, NewJobType
    <3>2. QED
      BY <3>1 DEF NewJob
  <2>2. /\ \A i : Pending(i)' => Pending(i) \/ i = j
        /\ Pending(j)'
        /\ \A i : Pending(i) /\ i # Top(t) => Pending(i)'
    <3>1. <<j>> \in Seq(Job) /\ Range(<<j>>) = {j}
      BY DEF Range
    <3>2. QED
      BY <1>2, <1>3, <1>5, <2>1, <3>1, ReplaceJobs
  <2>3. \A x : IsCreating(x)' <=> IsCreating(x) \/ x = r
    BY <1>2, <2>1, <2>2 DEF IsCreating, Pending
  <2>4. CreatingSet' = CreatingSet \union {r}
    BY <1>3, <2>3 DEF CreatingSet
  <2>5. stages[r] = "Complete" /\ stages' = stages
    BY <1>2, <1>3, <1>5, StageNames DEF ReadyToCreate, stages
  <2>6. declared[r] \subseteq CreatedSet
    BY <1>3, <1>5
    DEF ReadyToCreate, OrderInv, TypeOK, DeclaredSound, LoadedSound, WasCreated,
      CreatedSet
  <2>7. Promise!Start(r)
    BY <1>2, <2>4, <2>5, <2>6 DEF Promise!Start, CreatedSet, CreatingSet
  <2>8. QED
    BY <1>3, <2>7 DEF Promise!Next
<1>6. QED
  BY <1>1, <1>4, <1>5 DEF CheckDependencies

\* The end of a creation, which leaves other creations of r alone.
LEMMA FinishPromise ==
    ASSUME OrderInv, NEW t \in Thread, todo[t] # <<>>, Top(t).op = "create",
           NEW js \in Seq(Job), Replace(t, js), \A j \in Range(js) : j.op # "create",
           NEW r, r = Top(t).res, NEW success \in BOOLEAN,
           status' = [status EXCEPT ![r] = IF success THEN "Loaded" ELSE "Failed"],
           announced' = [announced EXCEPT ![r] =
                @ \union {IF success THEN "LoadFinished" ELSE "LoadFailed"}],
           UNCHANGED declared
    PROVE  Promise!Next
<1>1. TypeOK /\ r \in Resource /\ Pending(Top(t))
  <2>1. TypeOK /\ r \in Resource
    BY TopFacts, OrderParts DEF Job, PlacesInv
  <2>2. Top(t) \in Jobs(t)
    BY <2>1, TopType
  <2>3. QED
    BY <2>1, <2>2 DEF Pending
<1>2. stages' = [stages EXCEPT ![r] = IF success THEN "Created" ELSE "Failed"]
  BY <1>1, StageStep, StageNames DEF Statuses
<1>3. r \in CreatingSet
  BY <1>1 DEF CreatingSet, IsCreating, Pending
<1>4. CreatedSet' = IF success THEN CreatedSet \union {r} ELSE CreatedSet
  BY <1>1 DEF CreatedSet, TypeOK
<1>5. CreatingSet' \in {CreatingSet, CreatingSet \ {r}}
  <2>1. /\ \A i : Pending(i)' => Pending(i) \/ i \in Range(js)
        /\ \A i : Pending(i) /\ i # Top(t) => Pending(i)'
    BY <1>1, ReplaceJobs
  <2>2. \A x : IsCreating(x)' => IsCreating(x)
    BY <2>1 DEF IsCreating, Pending
  <2>3. \A x : x # r /\ IsCreating(x) => IsCreating(x)'
    BY <2>1 DEF IsCreating, Pending
  <2>4. QED
    BY <2>2, <2>3 DEF CreatingSet
<1>6. Promise!Finish(r, success)
  BY <1>2, <1>3, <1>4, <1>5 DEF Promise!Finish, CreatedSet, CreatingSet
<1>7. QED
  BY <1>1, <1>6 DEF Promise!Next

LEMMA PromiseStep ==
    ASSUME OrderInv, [Next]_vars
    PROVE  [Promise!Next]_(Promise!vars)
<1>a. TypeOK
  BY DEF OrderInv
<1>b. ASSUME NEW t \in Thread, todo[t] # <<>>
      PROVE  /\ Top(t) \in Job /\ Top(t).res \in Resource
             /\ Top(t).with \in SUBSET Resource /\ JobSound(Top(t))
  BY <1>b, TopFacts, OrderParts DEF Job
<1>c. UNCHANGED announced => UNCHANGED CreatedSet
  BY DEF CreatedSet
<1>d. ASSUME NEW r \in Resource,
             announced' = [announced EXCEPT ![r] = @ \union {"LoadFailed"}]
      PROVE  UNCHANGED CreatedSet
  BY <1>a, <1>d DEF CreatedSet, TypeOK
<1>e. <<>> \in Seq(Job) /\ Range(<<>>) = {}
  BY DEF Range
<1>f. ASSUME NEW op, NEW r \in Resource, NEW S \in SUBSET Resource,
             op \in {"load", "link", "check", "notify"}
      PROVE  NewJob(op, r, S) \in Job /\ NewJob(op, r, S).op # "create"
  BY <1>f, NewJobType DEF NewJob
<1>1. ASSUME NEW t \in Thread, NEW r \in Resource, BeginLoading(t, r)
      PROVE  Promise!Next
  <2>1. UNCHANGED CreatingSet
    BY <1>a, <1>f, <1>1, CallCreating DEF BeginLoading
  <2>2. PICK e \in Enqueued : /\ e \in Statuses /\ status[r] = "Unloaded"
                              /\ status' = [status EXCEPT ![r] = e]
    BY <1>1 DEF BeginLoading, Enqueued, Statuses
  <2>3. QED
    BY <1>c, <1>1, <2>1, <2>2, StageOnly DEF BeginLoading
<1>2. ASSUME NEW r \in Resource, ParseFailure(r)
      PROVE  Promise!Next
  BY <1>d, <1>2, SameCreating, StageOnly DEF ParseFailure, Statuses
<1>3. ASSUME NEW t \in Thread, NEW d \in Resource, AddDependency(t, d)
      PROVE  [Promise!Next]_(Promise!vars)
  <2> DEFINE r == Top(t).res
  <2>1. /\ todo[t] # <<>> /\ r \in Resource /\ status[r] \in Enqueued
        /\ UNCHANGED CreatedSet
    BY <1>b, <1>c, <1>3 DEF AddDependency, At, Top, JobSound, Enqueued
  <2>2. CASE declared' = [declared EXCEPT ![r] = @ \union {d}] /\ UNCHANGED <<status, todo>>
    <3>1. {d} \in SUBSET Resource /\ UNCHANGED CreatingSet
      BY <2>2, SameCreating
    <3>2. QED
      BY <2>1, <2>2, <3>1, DeclareOnly
  <2>3. CASE status' = [status EXCEPT ![r] = "Failed"] /\ UNCHANGED <<todo, declared>>
    BY <2>1, <2>3, SameCreating, StageOnly DEF Statuses
  <2>4. CASE Call(t, NewJob("link", r, {d})) /\ UNCHANGED <<status, declared>>
    <3>1. UNCHANGED CreatingSet
      BY <1>a, <1>f, <2>1, <2>4, CallCreating
    <3>2. QED
      BY <2>1, <2>4, <3>1, NothingSeen
  <2>5. QED
    BY <1>3, <2>2, <2>3, <2>4 DEF AddDependency
<1>4. ASSUME NEW t \in Thread, AddNull(t)
      PROVE  [Promise!Next]_(Promise!vars)
  <2> DEFINE r == Top(t).res
  <2>1. /\ todo[t] # <<>> /\ r \in Resource /\ status[r] \in Enqueued \union {"Failed"}
        /\ status' = [status EXCEPT ![r] = "Failed"]
        /\ UNCHANGED <<declared, CreatedSet, CreatingSet>>
    BY <1>b, <1>c, <1>4, SameCreating DEF AddNull, At, Top, JobSound
  <2>2. CASE status[r] = "Failed"
    <3>1. UNCHANGED status
      BY <1>a, <2>1, <2>2 DEF TypeOK
    <3>2. QED
      BY <2>1, <3>1, NothingSeen
  <2>3. CASE status[r] \in Enqueued
    BY <2>1, <2>3, StageOnly DEF Statuses
  <2>4. QED
    BY <2>1, <2>2, <2>3
<1>5. ASSUME NEW t \in Thread, Link(t)
      PROVE  Promise!Next
  <2>1. /\ todo[t] # <<>> /\ Top(t).op = "link" /\ Replace(t, <<>>)
        /\ UNCHANGED <<status, CreatedSet>>
    BY <1>c, <1>5 DEF Link, At, Top
  <2>2. UNCHANGED CreatingSet
    BY <1>a, <2>1, EndCreating
  <2>3. /\ Top(t).res \in Resource /\ Top(t).with \in SUBSET Resource
        /\ status[Top(t).res] \in Enqueued
    BY <1>b, <2>1 DEF JobSound
  <2>4. QED
    BY <1>5, <2>1, <2>2, <2>3, DeclareOnly DEF Link
<1>6. ASSUME NEW t \in Thread, EndLoading(t)
      PROVE  Promise!Next
  <2> DEFINE r == Top(t).res
             j == NewJob("check", r, {})
  <2>1. /\ todo[t] # <<>> /\ Top(t).op = "load" /\ r \in Resource
        /\ status[r] \in Enqueued /\ status' = [status EXCEPT ![r] = "Loading"]
        /\ Replace(t, <<j>>) /\ UNCHANGED <<declared, CreatedSet>>
    BY <1>b, <1>c, <1>6 DEF EndLoading, At, Top, Enqueued
  <2>2. j \in Job /\ j.op # "create"
    BY <1>f, <2>1
  <2> HIDE DEF j
  <2>3. <<j>> \in Seq(Job) /\ \A i \in Range(<<j>>) : i.op # "create"
    BY <2>2 DEF Range
  <2>4. UNCHANGED CreatingSet
    BY <1>a, <2>1, <2>3, ReplaceCreating
  <2>5. QED
    BY <2>1, <2>4, StageOnly DEF Statuses
<1>7. ASSUME NEW t \in Thread, FailLoading(t)
      PROVE  Promise!Next
  <2> DEFINE r == Top(t).res
  <2>1. /\ todo[t] # <<>> /\ Top(t).op = "load" /\ r \in Resource
        /\ status[r] \in Enqueued /\ status' = [status EXCEPT ![r] = "Failed"]
        /\ Replace(t, <<>>) /\ UNCHANGED <<declared, CreatedSet>>
    BY <1>b, <1>d, <1>7 DEF FailLoading, At, Top, Enqueued
  <2>2. UNCHANGED CreatingSet
    BY <1>a, <2>1, EndCreating
  <2>3. QED
    BY <2>1, <2>2, StageOnly DEF Statuses
<1>8. ASSUME NEW t \in Thread, RefusedEnd(t) \/ Notified(t)
      PROVE  UNCHANGED Promise!vars
  <2>1. /\ todo[t] # <<>> /\ Top(t).op # "create" /\ Replace(t, <<>>)
        /\ UNCHANGED <<status, declared, CreatedSet>>
    BY <1>c, <1>8 DEF RefusedEnd, Notified, At, Top
  <2>2. UNCHANGED CreatingSet
    BY <1>a, <2>1, EndCreating
  <2>3. QED
    BY <2>1, <2>2, NothingSeen
<1>9. ASSUME NEW t \in Thread, Created(t)
      PROVE  Promise!Next
  <2> DEFINE r == Top(t).res
             j == NewJob("notify", r, parents[r])
  <2>1. /\ todo[t] # <<>> /\ Top(t).op = "create" /\ r \in Resource
        /\ status' = [status EXCEPT ![r] = "Loaded"]
        /\ announced' = [announced EXCEPT ![r] = @ \union {"LoadFinished"}]
        /\ Replace(t, <<j>>) /\ UNCHANGED declared
    BY <1>b, <1>9 DEF Created, At, Top
  <2>2. j \in Job /\ j.op # "create"
    BY <1>a, <1>f, <2>1 DEF TypeOK
  <2> HIDE DEF j
  <2>3. <<j>> \in Seq(Job) /\ \A i \in Range(<<j>>) : i.op # "create"
    BY <2>2 DEF Range
  <2>4. QED
    BY <2>1, <2>3, FinishPromise
<1>10. ASSUME NEW t \in Thread, NotCreated(t)
      PROVE  Promise!Next
  <2> DEFINE r == Top(t).res
  <2>1. /\ todo[t] # <<>> /\ Top(t).op = "create"
        /\ status' = [status EXCEPT ![r] = "Failed"]
        /\ announced' = [announced EXCEPT ![r] = @ \union {"LoadFailed"}]
        /\ Replace(t, <<>>) /\ UNCHANGED declared
    BY <1>10 DEF NotCreated, At, Top
  <2>2. QED
    BY <1>e, <2>1, FinishPromise
<1>11. ASSUME NEW t \in Thread, NEW p \in Resource, DependencyLoaded(t, p)
      PROVE  UNCHANGED Promise!vars
  <2> DEFINE i == NewJob("check", p, {})
             j == NewJob("notify", Top(t).res, Top(t).with \ {p})
  <2>1. /\ todo[t] # <<>> /\ Top(t).op = "notify" /\ Replace(t, <<i, j>>)
        /\ UNCHANGED <<status, declared, CreatedSet>>
    BY <1>c, <1>11 DEF DependencyLoaded, At, Top
  <2>2. i \in Job /\ i.op # "create" /\ j \in Job /\ j.op # "create"
    BY <1>b, <1>f, <2>1
  <2> HIDE DEF i, j
  <2>3. <<i, j>> \in Seq(Job) /\ \A k \in Range(<<i, j>>) : k.op # "create"
    BY <2>2 DEF Range
  <2>4. UNCHANGED CreatingSet
    BY <1>a, <2>1, <2>3, ReplaceCreating
  <2>5. QED
    BY <2>1, <2>4, NothingSeen
<1>12. CASE UNCHANGED vars
  BY <1>c, <1>12, SameCreating, NothingSeen DEF vars
<1>13. QED
  BY <1>1, <1>2, <1>3, <1>4, <1>5, <1>6, <1>7, <1>8, <1>9, <1>10, <1>11, <1>12,
     CheckPromise DEF Next, ThreadStep

(***************************************************************************)
(* The dependency protocol implements Creation: whatever the threads do,   *)
(* whatever fails, what a resource needs is declared before it is complete *)
(* and was created before its creation begins (ResourceTrait.cpp:129-380). *)
(***************************************************************************)
THEOREM Implements == Spec => CreationKept
<1>1. OrderInv /\ [Next]_vars => [Promise!Next]_(Promise!vars)
  BY PromiseStep
<1>2. QED
  BY <1>1, PromiseInit, OrderInit, OrderStep, PTL
     DEF Spec, CreationKept, Promise!Spec

(***************************************************************************)
(* What follows from the promise.                                          *)
(***************************************************************************)
Open == {"Idle", "Declaring"}

\* What a step of Creation may do, in the terms of the properties below.
LEMMA PromiseMoves ==
    ASSUME TypeOK, [Promise!Next]_(Promise!vars)
    PROVE  /\ \A r \in Resource :
                /\ stages[r] # "Declaring" => declared'[r] = declared[r]
                /\ stages[r] \notin Open => stages'[r] \notin Open
           /\ \A r \in CreatingSet' \ CreatingSet :
                stages[r] = "Complete" /\ declared[r] \subseteq CreatedSet
           /\ CreatedSet \subseteq CreatedSet'
           /\ \/ CreatedSet' = CreatedSet
              \/ \E r \in CreatingSet : CreatedSet' = CreatedSet \union {r}
<1>1. /\ declared \in [Resource -> SUBSET Resource]
      /\ stages = [r \in Resource |-> stages[r]]
  BY DEF TypeOK, stages
<1>2. ASSUME UNCHANGED Promise!vars
      PROVE  UNCHANGED <<stages, declared, CreatedSet, CreatingSet>>
  BY <1>2 DEF Promise!vars, CreatedSet, CreatingSet
<1>3. ASSUME NEW r \in Resource,
             Promise!Begin(r) \/ Promise!Complete(r) \/ Promise!Reject(r)
      PROVE  /\ UNCHANGED <<declared, CreatedSet, CreatingSet>>
             /\ \A x \in Resource : stages[x] \notin Open => stages'[x] \notin Open
  <2>1. UNCHANGED <<declared, CreatedSet, CreatingSet>>
    BY <1>3 DEF Promise!Begin, Promise!Complete, Promise!Reject, CreatedSet, CreatingSet
  <2>2. stages[r] \in Open /\ \E s : stages' = [stages EXCEPT ![r] = s]
    BY <1>3 DEF Promise!Begin, Promise!Complete, Promise!Reject, Open
  <2>3. QED
    BY <1>1, <2>1, <2>2
<1>4. ASSUME NEW r \in Resource, Promise!Start(r)
      PROVE  /\ UNCHANGED <<stages, declared, CreatedSet>>
             /\ CreatingSet' = CreatingSet \union {r}
             /\ stages[r] = "Complete" /\ declared[r] \subseteq CreatedSet
  BY <1>4 DEF Promise!Start, CreatedSet, CreatingSet
<1>5. ASSUME NEW r \in Resource, NEW D \in SUBSET Resource, Promise!Declare(r, D)
      PROVE  /\ UNCHANGED <<stages, CreatedSet, CreatingSet>>
             /\ stages[r] = "Declaring"
             /\ declared' = [declared EXCEPT ![r] = @ \union D]
  BY <1>5 DEF Promise!Declare, CreatedSet, CreatingSet
<1>6. ASSUME NEW r \in Resource, NEW success \in BOOLEAN, Promise!Finish(r, success)
      PROVE  /\ UNCHANGED declared
             /\ r \in CreatingSet /\ CreatingSet' \subseteq CreatingSet
             /\ CreatedSet' \in {CreatedSet, CreatedSet \union {r}}
             /\ \A x \in Resource : stages[x] \notin Open => stages'[x] \notin Open
  <2>1. /\ UNCHANGED declared
        /\ r \in CreatingSet /\ CreatingSet' \in {CreatingSet, CreatingSet \ {r}}
        /\ CreatedSet' \in {CreatedSet, CreatedSet \union {r}}
    BY <1>6 DEF Promise!Finish, CreatedSet, CreatingSet
  <2>2. \E s : s \notin Open /\ stages' = [stages EXCEPT ![r] = s]
    BY <1>6 DEF Promise!Finish, Open
  <2>3. QED
    BY <1>1, <2>1, <2>2
<1>7. CASE UNCHANGED Promise!vars
  BY <1>2, <1>7
<1>8. CASE \E r \in Resource : Promise!Begin(r) \/ Promise!Complete(r) \/ Promise!Reject(r)
  BY <1>3, <1>8
<1>9. CASE \E r \in Resource : Promise!Start(r)
  BY <1>4, <1>9
<1>10. CASE \E r \in Resource : \E D \in SUBSET Resource : Promise!Declare(r, D)
  BY <1>1, <1>5, <1>10
<1>11. CASE \E r \in Resource : \E success \in BOOLEAN : Promise!Finish(r, success)
  BY <1>6, <1>11
<1>12. QED
  BY <1>7, <1>8, <1>9, <1>10, <1>11 DEF Promise!Next

\* What a resource needs is settled, and was created, when its creation begins.
Settled ==
    \A r \in CreatingSet \union CreatedSet :
        stages[r] \notin Open /\ declared[r] \subseteq CreatedSet

LEMMA SettledStep ==
    ASSUME TypeOK, Settled, [Promise!Next]_(Promise!vars)
    PROVE  Settled' /\ \A r \in CreatingSet \union CreatedSet : declared'[r] = declared[r]
<1>1. CreatingSet \subseteq Resource /\ CreatedSet \subseteq Resource
      /\ CreatingSet' \subseteq Resource /\ CreatedSet' \subseteq Resource
  BY DEF CreatingSet, CreatedSet
<1>2. /\ \A r \in Resource :
           /\ stages[r] # "Declaring" => declared'[r] = declared[r]
           /\ stages[r] \notin Open => stages'[r] \notin Open
      /\ \A r \in CreatingSet' \ CreatingSet :
           stages[r] = "Complete" /\ declared[r] \subseteq CreatedSet
      /\ CreatedSet \subseteq CreatedSet'
      /\ CreatedSet' \subseteq CreatedSet \union CreatingSet
  BY PromiseMoves
<1>3. \A r \in CreatingSet \union CreatedSet : declared'[r] = declared[r]
  BY <1>1, <1>2 DEF Settled, Open
<1>4. ASSUME NEW r \in CreatingSet' \union CreatedSet'
      PROVE  stages'[r] \notin Open /\ declared'[r] \subseteq CreatedSet'
  <2>1. stages[r] \notin Open /\ declared[r] \subseteq CreatedSet
    BY <1>2 DEF Settled, Open
  <2>2. QED
    BY <1>1, <1>2, <2>1 DEF Open
<1>5. QED
  BY <1>3, <1>4 DEF Settled

\* What is created last needs only what was created before.
LEMMA CircleStep ==
    ASSUME TypeOK, Settled, Promise!NoCircle, [Promise!Next]_(Promise!vars)
    PROVE  Promise!NoCircle'
<1>1. \A S \in SUBSET CreatedSet : S # {} => \E r \in S : declared[r] \intersect S = {}
  BY DEF Promise!NoCircle, CreatedSet
<1>2. \A r \in CreatingSet \union CreatedSet :
        declared'[r] = declared[r] /\ declared[r] \subseteq CreatedSet
  BY SettledStep DEF Settled
<1>3. SUFFICES ASSUME NEW S \in SUBSET CreatedSet', S # {}
               PROVE  \E r \in S : declared'[r] \intersect S = {}
  BY DEF Promise!NoCircle, CreatedSet
<1>4. CASE S \subseteq CreatedSet
  BY <1>1, <1>2, <1>3, <1>4
<1>5. CASE ~ (S \subseteq CreatedSet)
  <2>1. PICK x \in CreatingSet : x \in S /\ x \notin CreatedSet /\ S \ {x} \subseteq CreatedSet
    BY <1>5, PromiseMoves
  <2>2. CASE S = {x}
    BY <1>2, <2>1, <2>2
  <2>3. CASE S # {x}
    <3>0. S \ {x} \in SUBSET CreatedSet /\ S \ {x} # {}
      BY <1>3, <2>1, <2>3
    <3>1. PICK r \in S \ {x} : declared[r] \intersect (S \ {x}) = {}
      BY <1>1, <3>0
    <3>2. x \notin declared[r] /\ declared'[r] = declared[r]
      BY <1>2, <2>1, <3>1
    <3>3. QED
      BY <3>1, <3>2
  <2>4. QED
    BY <2>2, <2>3
<1>6. QED
  BY <1>4, <1>5

LEMMA SettledInit == Init => Settled /\ Promise!NoCircle
<1> SUFFICES ASSUME Init PROVE Settled /\ Promise!NoCircle
  OBVIOUS
<1>1. CreatedSet = {}
  BY DEF Init, CreatedSet
<1>2. CreatingSet = {}
  BY DEF Init, CreatingSet, IsCreating, Jobs, Range
<1>3. Settled
  BY <1>1, <1>2 DEF Settled
<1>4. Promise!NoCircle
  BY <1>1 DEF Promise!NoCircle, CreatedSet
<1>5. QED
  BY <1>3, <1>4

(***************************************************************************)
(* Two threads may close a ring of resources that wait for each other, as  *)
(* the search of addDependency() (ResourceTrait.cpp:501) is not atomic     *)
(* with the links.  Nothing in such a ring is ever created: what is        *)
(* created does not need itself, directly or through others.               *)
(***************************************************************************)
THEOREM NoCircleCreated == Spec => []NoCircularCreation
<1>1. OrderInv => TypeOK
  BY DEF OrderInv
<1>2. OrderInv /\ Settled /\ Promise!NoCircle /\ [Next]_vars
        => Settled' /\ Promise!NoCircle'
  BY <1>1, PromiseStep, SettledStep, CircleStep
<1>3. QED
  BY <1>2, SettledInit, OrderInit, OrderStep, PTL DEF Spec, NoCircularCreation

(***************************************************************************)
(* What a resource has declared does not change once its creation has      *)
(* begun: the set onDependenciesLoaded() runs for is the one that was      *)
(* waited for (ResourceTrait.cpp:157-160, 289-346).                        *)
(***************************************************************************)
THEOREM DeclaredForGood == Spec => Promise!NeedsSettled
<1>1. OrderInv /\ Settled /\ [Next]_vars
        => [Promise!NeedsKept]_(Promise!vars)
  BY PromiseStep, SettledStep
     DEF OrderInv, Promise!NeedsKept, CreatingSet, CreatedSet
<1>2. OrderInv /\ Settled /\ [Next]_vars => Settled'
  BY PromiseStep, SettledStep DEF OrderInv
<1>3. QED
  BY <1>1, <1>2, SettledInit, OrderInit, OrderStep, PTL
     DEF Spec, Promise!NeedsSettled
=============================================================================
