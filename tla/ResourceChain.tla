--------------------------- MODULE ResourceChain ---------------------------
(***************************************************************************)
(* The dependency protocol of src/src/Resources/ResourceTrait.cpp: how a   *)
(* resource collects the resources it depends on, waits for them, is       *)
(* created once they are there, and wakes the resources waiting for it.    *)
(*                                                                         *)
(* Every resource has a mutex (m_dependenciesAccess), which the code takes *)
(* for short regions only; virtual calls and notifications happen between  *)
(* two regions.  A step of this module is one such region.  What a thread  *)
(* still has to do is its call stack: a sequence of jobs, the innermost    *)
(* one first.                                                              *)
(***************************************************************************)
EXTENDS Naturals, Sequences, FiniteSets, Functions

CONSTANTS
    Resource,   \* the resources
    Thread,     \* the pool workers and the threads that load synchronously
    Names,      \* Names[r]: the resources the description of r may refer to
    Manual,     \* the resources built by hand (enableManualLoading)
    Outcomes,   \* Outcomes[r]: what r's onDependenciesLoaded() may return
    Failures    \* which failures of a load the instance exhibits

ASSUME NamesAssumption == Names \in [Resource -> SUBSET Resource]
ASSUME ManualAssumption == Manual \subseteq Resource
ASSUME OutcomesAssumption == Outcomes \in [Resource -> SUBSET BOOLEAN]
ASSUME FailuresAssumption == Failures \subseteq {"parse", "data", "null"}

VARIABLES
    status,     \* m_status
    deps,       \* m_dependenciesToWaitFor
    parents,    \* m_parentsToNotify
    todo,       \* the jobs on the call stack of each thread
    declared,   \* history: what addDependency() accepted for each resource
    announced   \* history: the notifications each resource has emitted

vars == <<status, deps, parents, todo, declared, announced>>

Statuses ==
    {"Unloaded", "Enqueuing", "ManualEnqueuing", "Loading", "Loaded", "Failed"}

(***************************************************************************)
(* The jobs of a call stack:                                               *)
(*   load    inside load() of res, between beginLoading() and the end;     *)
(*   link    inside addDependency(): both mutexes held, the tests passed,  *)
(*           the two lists of res and of the resource in "with" not yet    *)
(*           changed;                                                      *)
(*   check   about to run checkDependencies() of res;                      *)
(*   create  inside onDependenciesLoaded() of res, no mutex held;          *)
(*   notify  about to call dependencyLoaded() of the parents in "with".    *)
(***************************************************************************)
Job == [op : {"load", "link", "check", "create", "notify"},
        res : Resource, with : SUBSET Resource]

NewJob(op, r, S) == [op |-> op, res |-> r, with |-> S]

\* The innermost job of thread t is op.
At(t, op) == todo[t] # <<>> /\ Head(todo[t]).op = op

Top(t) == Head(todo[t])

\* Thread t replaces its innermost job by the jobs js.
Replace(t, js) == todo' = [todo EXCEPT ![t] = js \o Tail(todo[t])]

\* Thread t calls into the job j.
Call(t, j) == todo' = [todo EXCEPT ![t] = <<j>> \o todo[t]]

\* The jobs on the call stack of thread t.
Jobs(t) == Range(todo[t])

\* Mutant of Free: addDependency() locks its own mutex, not the dependency's.
FreeOwnOnly(r) ==
    \A t \in Thread : \A j \in Jobs(t) : j.op = "link" => r # j.res

\* The mutex of r is free.  Only addDependency() holds mutexes across a step.
Free(r) ==
    \A t \in Thread : \A j \in Jobs(t) :
        j.op = "link" => r \notin {j.res} \union j.with

Init ==
    /\ status = [r \in Resource |-> "Unloaded"]
    /\ deps = [r \in Resource |-> {}]
    /\ parents = [r \in Resource |-> {}]
    /\ todo = [t \in Thread |-> <<>>]
    /\ declared = [r \in Resource |-> {}]
    /\ announced = [r \in Resource |-> {}]

(***************************************************************************)
(* beginLoading() or enableManualLoading(): an idle thread takes the       *)
(* loading task of r, or a load() in progress loads r synchronously.  The  *)
(* container gives each resource one loader.                               *)
(***************************************************************************)
BeginLoading(t, r) ==
    /\ todo[t] = <<>> \/ At(t, "load")
    /\ status[r] = "Unloaded"
    /\ status' = [status EXCEPT ![r] =
                    IF r \in Manual THEN "ManualEnqueuing" ELSE "Enqueuing"]
    /\ Call(t, NewJob("load", r, {}))
    /\ UNCHANGED <<deps, parents, declared, announced>>

\* load(filepath): the description cannot be parsed.
ParseFailure(r) ==
    /\ "parse" \in Failures
    /\ status[r] = "Unloaded"
    /\ r \notin Manual
    /\ status' = [status EXCEPT ![r] = "Failed"]
    /\ announced' = [announced EXCEPT ![r] = @ \union {"LoadFailed"}]
    /\ UNCHANGED <<deps, parents, todo, declared>>

\* addDependency(nullptr).
AddNull(t) ==
    /\ "null" \in Failures
    /\ At(t, "load")
    /\ Free(Top(t).res)
    /\ status' = [status EXCEPT ![Top(t).res] = "Failed"]
    /\ UNCHANGED <<deps, parents, todo, declared, announced>>

(***************************************************************************)
(* wouldCreateCycle(): the depth-first search from d through the lists of  *)
(* dependencies reaches r; every list closed set that holds d holds r.     *)
(***************************************************************************)
WouldCreateCycle(r, d) ==
    \A S \in SUBSET Resource :
        (d \in S /\ \A x \in S : deps[x] \subseteq S) => r \in S

(***************************************************************************)
(* addDependency(d) up to the end of its tests, both mutexes taken.  The   *)
(* lists the search reads are those of other resources, whose mutexes are  *)
(* not held: they may change before the link is made.                      *)
(*                                                                         *)
(* A call comes from inside load() only, as the precondition at            *)
(* ResourceTrait.hpp:797 says.  The code does not enforce it: of a         *)
(* resource that is Loading or Loaded it logs the call and goes on to make *)
(* the link (ResourceTrait.cpp:164-174), which is not modelled.            *)
(***************************************************************************)
AddDependency(t, d) ==
    LET r == Top(t).res IN
    /\ At(t, "load")
    /\ d \in Names[r] \ {r}
    /\ Free(r) /\ Free(d)
    /\ status[r] \notin {"Unloaded", "Failed"}
    /\ \/ /\ status[d] = "Loaded" \/ d \in deps[r]
          /\ declared' = [declared EXCEPT ![r] = @ \union {d}]
          /\ UNCHANGED <<status, todo>>
       \/ /\ status[d] # "Loaded" /\ d \notin deps[r]
          /\ WouldCreateCycle(r, d)
          /\ status' = [status EXCEPT ![r] = "Failed"]
          /\ UNCHANGED <<todo, declared>>
       \/ /\ status[d] # "Loaded" /\ d \notin deps[r]
          /\ ~ WouldCreateCycle(r, d)
          /\ Call(t, NewJob("link", r, {d}))
          /\ UNCHANGED <<status, declared>>
    /\ UNCHANGED <<deps, parents, announced>>

\* Mutant of Link: the dependency does not learn of its new parent.
LinkOneWay(t) ==
    LET r == Top(t).res IN
    /\ At(t, "link")
    /\ deps' = [deps EXCEPT ![r] = @ \union Top(t).with]
    /\ declared' = [declared EXCEPT ![r] = @ \union Top(t).with]
    /\ Replace(t, <<>>)
    /\ UNCHANGED <<status, parents, announced>>

\* The end of addDependency(): the double link, then both mutexes released.
Link(t) ==
    LET r == Top(t).res IN
    /\ At(t, "link")
    /\ deps' = [deps EXCEPT ![r] = @ \union Top(t).with]
    /\ parents' = [d \in Resource |->
                    parents[d] \union IF d \in Top(t).with THEN {r} ELSE {}]
    /\ declared' = [declared EXCEPT ![r] = @ \union Top(t).with]
    /\ Replace(t, <<>>)
    /\ UNCHANGED <<status, announced>>

\* setLoadSuccess(true): all the dependencies r will ever have are declared.
EndLoading(t) ==
    LET r == Top(t).res IN
    /\ At(t, "load")
    /\ status[r] \in {"Enqueuing", "ManualEnqueuing"}
    /\ status' = [status EXCEPT ![r] = "Loading"]
    /\ Replace(t, <<NewJob("check", r, {})>>)
    /\ UNCHANGED <<deps, parents, declared, announced>>

\* setLoadSuccess(false): the data of the resource were no good.
FailLoading(t) ==
    LET r == Top(t).res IN
    /\ "data" \in Failures
    /\ At(t, "load")
    /\ status[r] \in {"Enqueuing", "ManualEnqueuing"}
    /\ status' = [status EXCEPT ![r] = "Failed"]
    /\ announced' = [announced EXCEPT ![r] = @ \union {"LoadFailed"}]
    /\ Replace(t, <<>>)
    /\ UNCHANGED <<deps, parents, declared>>

\* Mutant of RefusedEnd: setLoadSuccess() does not test for the failure.
RefusedAccepted(t) ==
    /\ At(t, "load")
    /\ status[Top(t).res] = "Failed"
    /\ status' = [status EXCEPT ![Top(t).res] = "Loading"]
    /\ Replace(t, <<NewJob("check", Top(t).res, {})>>)
    /\ UNCHANGED <<deps, parents, declared, announced>>

\* setLoadSuccess() after addDependency() failed: refused, nothing changes.
RefusedEnd(t) ==
    /\ At(t, "load")
    /\ status[Top(t).res] = "Failed"
    /\ Replace(t, <<>>)
    /\ UNCHANGED <<status, deps, parents, declared, announced>>

\* Mutant of ReadyToCreate: the status alone decides.
ReadyUnchecked(r) == status[r] = "Loading"

\* The locked test of checkDependencies().
ReadyToCreate(r) ==
    status[r] = "Loading" /\ \A d \in deps[r] : status[d] = "Loaded"

CheckDependencies(t) ==
    LET r == Top(t).res IN
    /\ At(t, "check")
    /\ Free(r)
    /\ \/ ReadyToCreate(r) /\ Replace(t, <<NewJob("create", r, {})>>)
       \/ ~ ReadyToCreate(r) /\ Replace(t, <<>>)
    /\ UNCHANGED <<status, deps, parents, declared, announced>>

\* Mutant of Created: the list of parents is copied, not moved.
CreatedCopying(t) ==
    LET r == Top(t).res IN
    /\ At(t, "create")
    /\ TRUE \in Outcomes[r]
    /\ Free(r)
    /\ status' = [status EXCEPT ![r] = "Loaded"]
    /\ announced' = [announced EXCEPT ![r] = @ \union {"LoadFinished"}]
    /\ Replace(t, <<NewJob("notify", r, parents[r])>>)
    /\ UNCHANGED <<deps, parents, declared>>

\* onDependenciesLoaded() has returned true: the second locked region.
Created(t) ==
    LET r == Top(t).res IN
    /\ At(t, "create")
    /\ TRUE \in Outcomes[r]
    /\ Free(r)
    /\ status' = [status EXCEPT ![r] = "Loaded"]
    /\ parents' = [parents EXCEPT ![r] = {}]
    /\ announced' = [announced EXCEPT ![r] = @ \union {"LoadFinished"}]
    /\ Replace(t, <<NewJob("notify", r, parents[r])>>)
    /\ UNCHANGED <<deps, declared>>

\* onDependenciesLoaded() has returned false.
NotCreated(t) ==
    LET r == Top(t).res IN
    /\ At(t, "create")
    /\ FALSE \in Outcomes[r]
    /\ Free(r)
    /\ status' = [status EXCEPT ![r] = "Failed"]
    /\ announced' = [announced EXCEPT ![r] = @ \union {"LoadFailed"}]
    /\ Replace(t, <<>>)
    /\ UNCHANGED <<deps, parents, declared>>

\* dependencyLoaded() of one parent: its locked region, then its own check.
DependencyLoaded(t, p) ==
    LET d == Top(t).res IN
    /\ At(t, "notify")
    /\ p \in Top(t).with
    /\ Free(p)
    /\ deps' = [deps EXCEPT ![p] = @ \ {d}]
    /\ Replace(t, <<NewJob("check", p, {}),
                    NewJob("notify", d, Top(t).with \ {p})>>)
    /\ UNCHANGED <<status, parents, declared, announced>>

\* Every parent was told.
Notified(t) ==
    /\ At(t, "notify")
    /\ Top(t).with = {}
    /\ Replace(t, <<>>)
    /\ UNCHANGED <<status, deps, parents, declared, announced>>

ThreadStep(t) ==
    \/ \E d \in Resource : AddDependency(t, d)
    \/ AddNull(t)
    \/ Link(t)
    \/ EndLoading(t)
    \/ FailLoading(t)
    \/ RefusedEnd(t)
    \/ CheckDependencies(t)
    \/ Created(t)
    \/ NotCreated(t)
    \/ \E p \in Resource : DependencyLoaded(t, p)
    \/ Notified(t)

Next ==
    \/ \E t \in Thread, r \in Resource : BeginLoading(t, r)
    \/ \E r \in Resource : ParseFailure(r)
    \/ \E t \in Thread : ThreadStep(t)

Spec == Init /\ [][Next]_vars

(***************************************************************************)
(* Fairness.  The pool runs every task it was given and the operating      *)
(* system runs every thread, so a started call makes progress, and every   *)
(* requested resource finds a loader.  A mutex is only held for the one    *)
(* step between AddDependency and Link, so weak fairness is enough.  A     *)
(* load() ends: its description is finite.                                 *)
(***************************************************************************)
Fairness ==
    /\ \A r \in Resource : WF_vars(\E t \in Thread : BeginLoading(t, r))
    /\ \A t \in Thread :
        /\ WF_vars(EndLoading(t) \/ RefusedEnd(t))
        /\ WF_vars(ThreadStep(t) /\ ~ At(t, "load"))

FairSpec == Spec /\ Fairness

-----------------------------------------------------------------------------

TypeOK ==
    /\ status \in [Resource -> Statuses]
    /\ deps \in [Resource -> SUBSET Resource]
    /\ parents \in [Resource -> SUBSET Resource]
    /\ todo \in [Thread -> Seq(Job)]
    /\ declared \in [Resource -> SUBSET Resource]
    /\ announced \in [Resource -> SUBSET {"LoadFinished", "LoadFailed"}]

\* Some thread has the job j on its call stack.
Pending(j) == \E t \in Thread : j \in Jobs(t)

\* Some thread will still call dependencyLoaded(d) on p.
Notifying(p, d) ==
    \E S \in SUBSET Resource : p \in S /\ Pending(NewJob("notify", d, S))

\* Some thread will still run checkDependencies() of p, or is past its test.
Examined(p) ==
    \/ Pending(NewJob("check", p, {}))
    \/ Pending(NewJob("create", p, {}))
    \/ \E d \in Resource : Notifying(p, d)

(***************************************************************************)
(* No wake-up is lost.  A resource in the Loading status whose remaining   *)
(* dependencies are all loaded (or that has none) is always about to be    *)
(* examined by some thread: a dependency that ends while it is being       *)
(* declared is skipped, or notifies its new parent, or is found loaded by  *)
(* the check at the end of the parent's own load().                        *)
(***************************************************************************)
NoLostWakeup ==
    \A p \in Resource : ReadyToCreate(p) => Examined(p)

(***************************************************************************)
(* The two lists agree.  A resource is in the parent list of exactly those *)
(* it waits for, up to the notifications already taken out of the parent   *)
(* list and not yet delivered.                                             *)
(***************************************************************************)
ListsAgree ==
    \A p, d \in Resource :
        /\ d \in deps[p] <=> p \in parents[d] \/ Notifying(p, d)
        /\ ~ (p \in parents[d] /\ Notifying(p, d))

(***************************************************************************)
(* "Loaded: resource and all dependencies successfully loaded".  Whatever  *)
(* the order the threads ran in, every dependency that a loaded resource,  *)
(* or one whose onDependenciesLoaded() runs, has declared was created      *)
(* before.  It is loaded still, unless a second thread had it fail after   *)
(* that: see FailedIsTerminal.                                             *)
(***************************************************************************)
LoadedAfterDependencies ==
    \A p \in Resource :
        status[p] = "Loaded" \/ Pending(NewJob("create", p, {})) =>
            \A d \in declared[p] :
                /\ "LoadFinished" \in announced[d]
                /\ status[d] = "Loaded" \/ "LoadFailed" \in announced[d]

(***************************************************************************)
(* x is reachable from r: r waits for x, directly or through others.       *)
(***************************************************************************)
WaitsFor(r, x) == \E d \in deps[r] : WouldCreateCycle(x, d)

\* What r waits for has failed, so nothing will ever wake r.
Doomed(r) == \E x \in Resource : WaitsFor(r, x) /\ status[x] = "Failed"

(***************************************************************************)
(* A resource that has declared all it needs settles, unless something it  *)
(* waits for failed: no interleaving of loaders, notifications and checks  *)
(* leaves it waiting for what is already there.                            *)
(***************************************************************************)
LoadingEndsOrIsDoomed ==
    \A r \in Resource :
        status[r] = "Loading" ~> status[r] \in {"Loaded", "Failed"} \/ Doomed(r)

(***************************************************************************)
(* The protocol implements Creation.  Two threads may be creating one      *)
(* resource, so what was created may have failed since.                    *)
(***************************************************************************)
StageOf(s) ==
    CASE s = "Unloaded" -> "Idle"
      [] s \in {"Enqueuing", "ManualEnqueuing"} -> "Declaring"
      [] s = "Loading" -> "Complete"
      [] s = "Loaded" -> "Created"
      [] s = "Failed" -> "Failed"

stages == [r \in Resource |-> StageOf(status[r])]

IsCreating(r) == \E t \in Thread : \E j \in Jobs(t) : j.op = "create" /\ j.res = r

Promise ==
    INSTANCE Creation WITH
        stage <- stages,
        needs <- declared,
        created <- {r \in Resource : "LoadFinished" \in announced[r]},
        creating <- {r \in Resource : IsCreating(r)}

CreationKept == Promise!Spec

(***************************************************************************)
(* What is created does not need itself, directly or through others, even  *)
(* where the search of addDependency() has missed a ring (see              *)
(* NoCircularWait).  It is in no run, as it takes four resources to close  *)
(* a ring: ResourceChain_proofs proves it.                                 *)
(***************************************************************************)
NoCircularCreation == Promise!NoCircle

-----------------------------------------------------------------------------
(***************************************************************************)
(* What the comments and documents of the code say of it.                  *)
(***************************************************************************)

(***************************************************************************)
(* ResourceTrait.hpp:612: once a load was ended with success, "Resource    *)
(* transitions to Loading, then eventually Loaded or Failed".              *)
(***************************************************************************)
LoadingEnds ==
    \A r \in Resource :
        status[r] = "Loading" ~> status[r] \in {"Loaded", "Failed"}

(***************************************************************************)
(* ResourceTrait.hpp:359: "Failed: loading failed at any stage (terminal   *)
(* state)".                                                                *)
(***************************************************************************)
FailedIsTerminal ==
    [][\A r \in Resource : status[r] = "Failed" => status'[r] = "Failed"]_vars

(***************************************************************************)
(* docs/resource-management.md:439: "The system automatically detects and  *)
(* prevents circular dependencies".                                        *)
(***************************************************************************)
NoCircularWait == \A r \in Resource : ~ WaitsFor(r, r)

(***************************************************************************)
(* ResourceTrait.hpp:821: on failure the "Resource transitions to Failed   *)
(* and emits LoadFailed notification".                                     *)
(***************************************************************************)
FailureAnnounced ==
    \A r \in Resource :
        /\ status[r] = "Failed"
        /\ ~ Pending(NewJob("load", r, {}))
        => "LoadFailed" \in announced[r]
=============================================================================
