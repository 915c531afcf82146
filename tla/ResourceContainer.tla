------------------------- MODULE ResourceContainer -------------------------
(***************************************************************************)
(* The resource containers of src/src/Resources/Container.hpp and the      *)
(* manager that sweeps them (Manager.cpp): named resources are handed out  *)
(* as shared pointers, loaded on demand by the pool (or by the caller,     *)
(* under the mutex of the container), and dropped by a sweep once nothing  *)
(* but the container points at them.                                       *)
(*                                                                         *)
(* Each operation of a container is one step: it runs under the mutex      *)
(* (m_resourcesAccess).  The exception is a synchronous load, which keeps  *)
(* the mutex while load() runs and while load() calls other containers.    *)
(* What the resources then wait for is the protocol of ResourceChain; here *)
(* a resource is created when none it waits for is left, by one thread or  *)
(* by several in turn, each of which may find that the creation fails.     *)
(***************************************************************************)
EXTENDS Naturals, Sequences, FiniteSets, Functions

CONSTANTS
    Name,       \* the names clients ask for
    Container,  \* the containers, one per type of resource
    Home,       \* Home[n]: the container of n
    Source,     \* Source[n]: what the store, or the caller, knows of n
    Needs,      \* Needs[n]: the resources load() of n asks for
    Broken,     \* the names whose data may be unusable, or creation fail
    Order,      \* the containers, highest dependency complexity first
    Client,     \* threads that call the containers
    Worker,     \* threads of the pool
    NetNotifies \* whether Net::Manager reports the end of a download

Sources ==
    {"local",     \* in the store, on disk or inline (LocalData, DirectData)
     "made",      \* not in the store: created by a function of the caller
     "remote",    \* in the store, at a URL (ExternalData)
     "cached",    \* at a URL, already in the download cache
     "badurl"}    \* at something that is not a URL

ASSUME HomeAssumption == Home \in [Name -> Container]
ASSUME SourceAssumption == Source \in [Name -> Sources]
ASSUME NeedsAssumption == Needs \in [Name -> SUBSET Name]
ASSUME OrderAssumption ==
    Order \in Seq(Container) /\ Range(Order) = Container /\ IsInjective(Order)
\* A resource only asks for resources of less dependency complexity.
ASSUME LayersAssumption ==
    \A n \in Name, x \in Name : x \in Needs[n] =>
        \E i, j \in DOMAIN Order :
            i < j /\ Order[i] = Home[n] /\ Order[j] = Home[x]
ASSUME NetAssumption == NetNotifies \in BOOLEAN

Thread == Client \union Worker

VARIABLES
    status,   \* "None": no entry in m_resources; else the resource's status
    uses,     \* the resources each resource keeps a pointer to
    parents,  \* m_parentsToNotify: the resources that wait for each resource
    late,     \* how many more threads are inside onDependenciesLoaded()
    created,  \* history: the resources that were loaded once, at least
    held,     \* the resources each client keeps a pointer to
    queue,    \* the names whose loading task waits in the pool
    external, \* m_externalResources: the names whose download is awaited
    calls,    \* the load() calls each thread is inside, innermost first
    sweep,    \* the containers left in the current pass, and whether it hit
    garbage,  \* history: what was unused when the sweep began, and still is
    loads     \* history: how often load() was called on the current resource

vars == <<status, uses, parents, late, created, held, queue, external, calls,
          sweep, garbage, loads>>

links == <<uses, parents, late, created>>

Idle == [left |-> <<>>, hit |-> FALSE]

\* A call of load(): what it has yet to ask for, and whether its caller
\* holds the mutex of the container.
Frame == [name : Name, rest : SUBSET Name, locked : BOOLEAN]

Frames(t) == Range(calls[t])

\* Mutant of Locked: one mutex for all the containers.
LockedTogether(b) ==
    \E t \in Thread : \E f \in Frames(t) : f.locked

\* The mutex of container b is held across steps only by a synchronous load.
Locked(b) ==
    \E t \in Thread : \E f \in Frames(t) : f.locked /\ Home[f.name] = b

Stored(n) == status[n] # "None"

(***************************************************************************)
(* Who points at what.  A resource points at those it uses, and at those   *)
(* that wait for it.                                                       *)
(***************************************************************************)
PointsAt(p, n) == n \in uses[p] \/ n \in parents[p]

\* Mutant of Waking: only a dependency that is being loaded is waited for.
WakingEnded(n) ==
    /\ status[n] = "Loading"
    /\ \A x \in Name : n \in parents[x] => status[x] \in {"Unloaded", "Failed"}

\* Nothing is left for n to wait for: a thread is about to create it
\* (NoLostWakeup of ResourceChain), and points at it meanwhile.
Waking(n) == status[n] = "Loading" /\ \A x \in Name : n \notin parents[x]

\* Mutant of Anchored: the tasks and downloads keep no pointer.
AnchoredByCalls(n) ==
    \/ \E t \in Client : n \in held[t]
    \/ \E t \in Thread : \E f \in Frames(t) : f.name = n
    \/ Waking(n)

\* n is pointed at by a client, a task, a download, a call or who creates it.
Anchored(n) ==
    \/ \E t \in Client : n \in held[t]
    \/ n \in queue \union external
    \/ \E t \in Thread : \E f \in Frames(t) : f.name = n
    \/ Waking(n) \/ late[n] > 0

\* x is reached from n by pointers, or is n.
Reaches(n, x) ==
    \A T \in SUBSET Name :
        (n \in T /\ \A p \in T, y \in Name \ T : ~ PointsAt(p, y)) => x \in T

InUse == {x \in Name : \E n \in Name : Anchored(n) /\ Reaches(n, x)}

Init ==
    /\ status = [n \in Name |-> "None"]
    /\ uses = [n \in Name |-> {}]
    /\ parents = [n \in Name |-> {}]
    /\ late = [n \in Name |-> 0]
    /\ created = {}
    /\ held = [t \in Client |-> {}]
    /\ queue = {}
    /\ external = {}
    /\ calls = [t \in Thread |-> <<>>]
    /\ sweep = Idle
    /\ garbage = {}
    /\ loads = [n \in Name |-> 0]

(***************************************************************************)
(* getResource() and getOrCreateResource() of n by thread t, in one locked *)
(* region.  A stored resource is returned as it is, whatever its status.   *)
(* Otherwise an entry is made and its loading arranged                     *)
(* (pushInLoadingQueue, createResourceUnlocked); "sync" is the value that  *)
(* reaches pushInLoadingQueue, which checkLoadedResource inverts.  frames  *)
(* is the call stack of t to build upon.  An entry that a client has made  *)
(* to fill by hand, with neither task nor call (createResource), is not    *)
(* represented.                                                            *)
(***************************************************************************)
Loadable(n) == Source[n] \in {"local", "made"}

\* Mutant of Known: a resource is found only once it has begun its loading.
KnownBegun(n) == status[n] \notin {"None", "Unloaded"}

Known(n) == Stored(n)

Find(t, n, sync, frames) ==
    /\ ~ Locked(Home[n])
    /\ garbage' = {x \in garbage : ~ Reaches(n, x)}
    /\ \/ /\ Known(n)
          /\ calls' = [calls EXCEPT ![t] = frames]
          /\ UNCHANGED <<status, queue, external, loads>>
       \/ /\ ~ Known(n)
          /\ Loadable(n) /\ sync
          /\ status' = [status EXCEPT ![n] = "Enqueuing"]
          /\ loads' = [loads EXCEPT ![n] = @ + 1]
          /\ LET f == [name |-> n, rest |-> Needs[n], locked |-> TRUE]
             IN  calls' = [calls EXCEPT ![t] = <<f>> \o frames]
          /\ UNCHANGED <<queue, external>>
       \/ /\ ~ Known(n)
          /\ Loadable(n) /\ ~ sync
          /\ status' = [status EXCEPT ![n] =
                IF Source[n] = "made" THEN "Enqueuing" ELSE "Unloaded"]
          /\ queue' = queue \union {n}
          /\ calls' = [calls EXCEPT ![t] = frames]
          /\ UNCHANGED <<external, loads>>
       \/ /\ ~ Known(n)
          /\ ~ Loadable(n)
          /\ status' = [status EXCEPT ![n] = "Unloaded"]
          /\ external' = IF Source[n] = "remote" /\ ~ sync
                         THEN external \union {n} ELSE external
          /\ calls' = [calls EXCEPT ![t] = frames]
          /\ UNCHANGED <<queue, loads>>

\* The caller gets a null pointer: startDownload() refused, entry left behind.
Refused(n, sync) == ~ Known(n) /\ Source[n] = "badurl" /\ ~ sync

\* The caller has to load n itself, and gets it when that call returns.
Called(n, sync) == ~ Known(n) /\ Loadable(n) /\ sync

\* A client, outside of any call, asks for n and keeps the pointer.
Request(t, n, sync) ==
    /\ calls[t] = <<>>
    /\ Find(t, n, sync, <<>>)
    /\ held' = IF Refused(n, sync) \/ Called(n, sync) THEN held
               ELSE [held EXCEPT ![t] = @ \union {n}]
    /\ UNCHANGED <<links, sweep>>

Release(t, n) ==
    /\ calls[t] = <<>>
    /\ n \in held[t]
    /\ held' = [held EXCEPT ![t] = @ \ {n}]
    /\ UNCHANGED <<status, links, queue, external, calls, sweep, garbage, loads>>

Inside(t) == calls[t] # <<>>

Top(t) == Head(calls[t])

\* load() of the innermost call still runs.
Loading(t) == Inside(t) /\ status[Top(t).name] = "Enqueuing"

\* addDependency() of p: p uses n, and waits for it unless it is loaded.
Depend(p, n) ==
    /\ uses' = [uses EXCEPT ![p] = @ \union {n}]
    /\ parents' = IF status[n] = "Loaded" THEN parents
                  ELSE [parents EXCEPT ![n] = @ \union {p}]
    /\ UNCHANGED <<late, created>>

\* load() asks another container for n and adds it to its dependencies.
Subrequest(t, n, sync) ==
    /\ Loading(t)
    /\ n \in Top(t).rest
    /\ ~ Refused(n, sync)
    /\ Find(t, n, sync,
            <<[Top(t) EXCEPT !.rest = @ \ {n}]>> \o Tail(calls[t]))
    /\ IF Called(n, sync) THEN UNCHANGED links ELSE Depend(Top(t).name, n)
    /\ UNCHANGED <<held, sweep>>

\* load() gets a null pointer for n: it gives up, setLoadSuccess(false).
SubrequestRefused(t, n) ==
    /\ Loading(t)
    /\ n \in Top(t).rest
    /\ Refused(n, FALSE)
    /\ ~ Locked(Home[n])
    /\ status' = [status EXCEPT ![n] = "Unloaded", ![Top(t).name] = "Failed"]
    /\ garbage' = {x \in garbage : ~ Reaches(n, x)}
    /\ UNCHANGED <<links, held, queue, external, calls, sweep, loads>>

\* A worker runs the loading task of n.
StartTask(t, n) ==
    /\ calls[t] = <<>>
    /\ n \in queue
    /\ queue' = queue \ {n}
    /\ status' = [status EXCEPT ![n] = "Enqueuing"]
    /\ loads' = [loads EXCEPT ![n] = @ + 1]
    /\ calls' = [calls EXCEPT ![t] =
            <<[name |-> n, rest |-> Needs[n], locked |-> FALSE]>>]
    /\ UNCHANGED <<links, held, external, sweep, garbage>>

\* setLoadSuccess(true): load() has asked for all it needs.
EndLoad(t) ==
    /\ Loading(t)
    /\ Top(t).rest = {}
    /\ status' = [status EXCEPT ![Top(t).name] = "Loading"]
    /\ UNCHANGED <<links, held, queue, external, calls, sweep, garbage, loads>>

\* setLoadSuccess(false): the data of the resource were no good.
FailLoad(t) ==
    /\ Loading(t)
    /\ Top(t).name \in Broken
    /\ status' = [status EXCEPT ![Top(t).name] = "Failed"]
    /\ UNCHANGED <<links, held, queue, external, calls, sweep, garbage, loads>>

(***************************************************************************)
(* The call of load() returns, and a synchronous one releases the mutex.   *)
(* Who asked for n gets it, be it failed; but getOrCreateResourceSync()    *)
(* gives Default in the place of one that failed, whose entry stays in the *)
(* container and is handed out later.                                      *)
(***************************************************************************)
Substituted(n) == Source[n] = "made" /\ status[n] = "Failed"

Return(t) ==
    LET n == Top(t).name
        outer == Tail(calls[t])
        given == Top(t).locked /\ ~ Substituted(n)
    IN
    /\ Inside(t) /\ ~ Loading(t)
    /\ calls' = [calls EXCEPT ![t] = outer]
    /\ held' = [c \in Client |->
                  IF c = t /\ outer = <<>> /\ given THEN held[c] \union {n} ELSE held[c]]
    /\ IF outer # <<>> /\ given THEN Depend(Head(outer).name, n) ELSE UNCHANGED links
    /\ UNCHANGED <<status, queue, external, sweep, garbage, loads>>

(***************************************************************************)
(* onDependenciesLoaded() of n ends, with success or not: the second       *)
(* locked region of checkDependencies().                                   *)
(***************************************************************************)
Outcome(n, success) ==
    /\ success \/ n \in Broken
    /\ status' = [status EXCEPT ![n] = IF success THEN "Loaded" ELSE "Failed"]
    /\ parents' = IF success THEN [parents EXCEPT ![n] = {}] ELSE parents
    /\ created' = IF success THEN created \union {n} ELSE created
    /\ UNCHANGED <<uses, held, queue, external, calls, sweep, garbage, loads>>

(***************************************************************************)
(* The first thread to create n.  Others may have passed the same test:    *)
(* the end of load() makes it, and so does each notification of something  *)
(* n uses.                                                                 *)
(***************************************************************************)
Settle(n, success) ==
    /\ Waking(n)
    /\ late' \in {[late EXCEPT ![n] = i] : i \in 0 .. Cardinality(uses[n])}
    /\ Outcome(n, success)

\* Another one, whatever the first has made of it.
SettleAgain(n, success) ==
    /\ late[n] > 0
    /\ late' = [late EXCEPT ![n] = @ - 1]
    /\ Outcome(n, success)

(***************************************************************************)
(* onNotification(FileDownloaded): a download that is done queues the      *)
(* loading task; one that failed is dropped without telling the resource.  *)
(***************************************************************************)
FileDownloaded(n, done) ==
    /\ NetNotifies
    /\ n \in external
    /\ ~ Locked(Home[n])
    /\ external' = external \ {n}
    /\ queue' = IF done THEN queue \union {n} ELSE queue
    /\ UNCHANGED <<status, links, held, calls, sweep, garbage, loads>>

(***************************************************************************)
(* Manager::unloadUnusedResources(): passes over the containers until one  *)
(* unloads nothing.  std::erase_if visits a container in an unspecified    *)
(* order and drops what only the container points at when visited: what    *)
(* nothing points at now, and perhaps what only those dropped pointed at.  *)
(***************************************************************************)
\* Mutant of Pinned: the lambda of std::erase_if copies the pointer it tests.
PinnedByCopy(n, E) == TRUE

Pinned(n, E) ==
    Anchored(n) \/ \E p \in Name \ E : Stored(p) /\ PointsAt(p, n)

Unloadable(b, E) ==
    LET present == {n \in Name : Home[n] = b /\ Stored(n)} IN
    /\ E \subseteq present
    /\ {n \in present : ~ Pinned(n, {})} \subseteq E
    /\ \A n \in E : ~ Pinned(n, E)

BeginSweep ==
    /\ sweep = Idle
    /\ sweep' = [left |-> Order, hit |-> FALSE]
    /\ garbage' = {n \in Name : Stored(n)} \ InUse
    /\ UNCHANGED <<status, links, held, queue, external, calls, loads>>

\* The pass goes on, is repeated, or was the last.
NextPass(left, hit) ==
    IF left # <<>> \/ ~ hit THEN [left |-> left, hit |-> hit /\ left # <<>>]
    ELSE [left |-> Order, hit |-> FALSE]

SweepContainer ==
    /\ sweep.left # <<>>
    /\ ~ Locked(Head(sweep.left))
    /\ \E E \in SUBSET Name :
        /\ Unloadable(Head(sweep.left), E)
        /\ status' = [n \in Name |-> IF n \in E THEN "None" ELSE status[n]]
        /\ uses' = [n \in Name |-> IF n \in E THEN {} ELSE uses[n]]
        /\ parents' = [n \in Name |-> IF n \in E THEN {} ELSE parents[n]]
        /\ created' = created \ E
        /\ loads' = [n \in Name |-> IF n \in E THEN 0 ELSE loads[n]]
        /\ sweep' = NextPass(Tail(sweep.left), sweep.hit \/ E # {})
    /\ UNCHANGED <<late, held, queue, external, calls, garbage>>

Next ==
    \/ \E t \in Client, n \in Name, sync \in BOOLEAN : Request(t, n, sync)
    \/ \E t \in Client, n \in Name : Release(t, n)
    \/ \E t \in Thread, n \in Name, sync \in BOOLEAN : Subrequest(t, n, sync)
    \/ \E t \in Thread, n \in Name : SubrequestRefused(t, n)
    \/ \E t \in Worker, n \in Name : StartTask(t, n)
    \/ \E t \in Thread : EndLoad(t)
    \/ \E t \in Thread : FailLoad(t)
    \/ \E t \in Thread : Return(t)
    \/ \E n \in Name, success \in BOOLEAN : Settle(n, success)
    \/ \E n \in Name, success \in BOOLEAN : SettleAgain(n, success)
    \/ \E n \in Name, done \in BOOLEAN : FileDownloaded(n, done)
    \/ BeginSweep
    \/ SweepContainer

Spec == Init /\ [][Next]_vars

(***************************************************************************)
(* Fairness.  The pool runs the tasks it has, downloads end, and a thread  *)
(* inside load() goes on, without having to fail; a mutex that is released *)
(* again and again is obtained by those who wait for it.  Clients and      *)
(* sweeps may stop at any time.                                            *)
(***************************************************************************)
InsideStep(t) ==
    \/ \E n \in Name, sync \in BOOLEAN : Subrequest(t, n, sync)
    \/ \E n \in Name : SubrequestRefused(t, n)
    \/ EndLoad(t)
    \/ Return(t)

Fairness ==
    /\ \A t \in Thread : SF_vars(InsideStep(t))
    /\ WF_vars(\E t \in Worker, n \in Name : StartTask(t, n))
    /\ WF_vars(\E n \in Name : FileDownloaded(n, TRUE))

FairSpec == Spec /\ Fairness

-----------------------------------------------------------------------------

TypeOK ==
    /\ status \in [Name -> {"None", "Unloaded", "Enqueuing", "Loading",
                            "Loaded", "Failed"}]
    /\ uses \in [Name -> SUBSET Name]
    /\ parents \in [Name -> SUBSET Name]
    /\ late \in [Name -> Nat]
    /\ created \in SUBSET Name
    /\ held \in [Client -> SUBSET Name]
    /\ queue \in SUBSET Name
    /\ external \in SUBSET Name
    /\ calls \in [Thread -> Seq(Frame)]
    /\ sweep \in [left : {SubSeq(Order, i, Len(Order)) : i \in 1 .. Len(Order) + 1},
                 hit : BOOLEAN]
    /\ garbage \in SUBSET Name
    /\ loads \in [Name -> Nat]

(***************************************************************************)
(* One loader.  However requests, downloads and sweeps interleave, load()  *)
(* is called at most once on a resource: a second call would find it in    *)
(* the wrong status, or load it twice.  It is what ResourceChain assumes.  *)
(***************************************************************************)
OneLoader ==
    \A n \in Name :
        loads[n] + Cardinality({n} \intersect queue)
                 + Cardinality({n} \intersect external) <= 1

(***************************************************************************)
(* A name has one resource.  Whoever keeps a pointer to a resource, be it  *)
(* a client, another resource, a task, a download or a call of load(), the *)
(* sweep has not dropped it, so the next request finds that same resource  *)
(* and makes no second one of the same name.                               *)
(***************************************************************************)
PointedIsStored ==
    \A n \in Name :
        \/ Anchored(n)
        \/ n \in queue \union external
        \/ \E p \in Name : n \in uses[p]
        => Stored(n)

\* n failed or was never loaded, while something waits for it.
Stuck(n) == status[n] \in {"Unloaded", "Failed"} /\ parents[n] # {}

(***************************************************************************)
(* A sweep is complete.  What nobody used when it began and nobody asked   *)
(* for since is gone when it ends, however loads and requests ran beside   *)
(* it.  The exception is what waits for a resource that failed or never    *)
(* loads: the two point at each other for ever.                            *)
(***************************************************************************)
SweepComplete ==
    sweep.left = <<>> =>
        \A n \in garbage :
            Stored(n) => \E p \in garbage : Stuck(p) /\ Reaches(p, n)

(***************************************************************************)
(* No deadlock of the mutexes.  A synchronous load keeps the mutex of its  *)
(* container while load() asks other containers, in an order of its own.   *)
(* Whichever it asks next, some thread that is inside a load can ask all   *)
(* it has left without waiting for a mutex, another thread's or its own    *)
(* (m_resourcesAccess is not recursive).                                   *)
(***************************************************************************)
MayWait(t) == Loading(t) /\ \E n \in Top(t).rest : Locked(Home[n])

NoDeadlock ==
    (\E t \in Thread : Inside(t)) => \E t \in Thread : Inside(t) /\ ~ MayWait(t)

(***************************************************************************)
(* Calls return.  Synchronous loads keep the mutex of their container      *)
(* while they call other containers, which may be doing the same: as       *)
(* dependencies have less complexity, no thread waits for ever.            *)
(***************************************************************************)
CallsReturn == \A t \in Thread : calls[t] # <<>> ~> calls[t] = <<>>

(***************************************************************************)
(* The containers implement ResourceStore: clients and resources see a     *)
(* resource that is being loaded, from the request on, until it is loaded  *)
(* or failed, and that nothing drops while they keep it.  It changes after *)
(* that only as long as another thread is creating it as well.             *)
(***************************************************************************)
Stage(n) ==
    IF status[n] \in {"Unloaded", "Enqueuing"} THEN "Loading" ELSE status[n]

stages == [n \in Name |-> Stage(n)]

Store ==
    INSTANCE ResourceStore WITH
        state <- stages, unsure <- {n \in Name : late[n] > 0}

StoreKept == Store!Spec

-----------------------------------------------------------------------------
(***************************************************************************)
(* Container.hpp:948-951: "For external URL resources, automatically: [1.] *)
(* Checks local cache first [2.] Downloads if not cached [3.] Loads from   *)
(* cache after download".  So an external resource asked for without       *)
(* synchronous loading has its load() called in the end.                   *)
(***************************************************************************)
ExternalLoads ==
    \A n \in Name :
        n \in external ~> loads[n] > 0 \/ ~ Stored(n)
=============================================================================
