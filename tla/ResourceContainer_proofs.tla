---------------------- MODULE ResourceContainer_proofs ----------------------
(***************************************************************************)
(* Theorems about ResourceContainer, for any names, containers and         *)
(* threads, any sources and layered needs, and whatever may fail.          *)
(***************************************************************************)
EXTENDS ResourceContainer, FiniteSetTheorems, WellFoundedInduction, TLAPS

-----------------------------------------------------------------------------
(***************************************************************************)
(* Calls.  At(t, k) is the k-th call of load() thread t is inside, from    *)
(* the outermost: a call keeps its place while inner ones come and go.     *)
(***************************************************************************)
Depth(t) == Len(calls[t])

At(t, k) == calls[t][Depth(t) + 1 - k]

InCall(n) == \E t \in Thread : \E k \in 1 .. Depth(t) : At(t, k).name = n

\* One call of load() per resource.
Alone ==
    \A t, u \in Thread : \A k \in 1 .. Depth(t), l \in 1 .. Depth(u) :
        At(t, k).name = At(u, l).name => t = u /\ k = l

\* Each call was made by the one around it, which goes on when it returns.
CallsSound ==
    \A t \in Thread : \A k \in 1 .. Depth(t) :
        /\ At(t, k).rest \subseteq Needs[At(t, k).name]
        /\ k < Depth(t) => At(t, k + 1).name \in Needs[At(t, k).name]

OuterSound ==
    \A t \in Thread : \A k \in 1 .. Depth(t) :
        k < Depth(t) => status[At(t, k).name] = "Enqueuing"

-----------------------------------------------------------------------------
(***************************************************************************)
(* The inductive invariant of the containers: what the status of a         *)
(* resource says of its loading, that all that is pointed at is there, and *)
(* that a resource waits for what it uses and was never loaded.            *)
(***************************************************************************)
LoadSound(n) ==
    /\ loads[n] \in {0, 1}
    /\ status[n] \in {"None", "Unloaded"} => loads[n] = 0
    /\ status[n] = "Enqueuing" => IF loads[n] = 0 THEN n \in queue ELSE InCall(n)
    /\ status[n] \in {"Loading", "Loaded", "Failed"} => loads[n] = 1
    /\ n \in queue => status[n] \in {"Unloaded", "Enqueuing"} /\ loads[n] = 0
    /\ n \in external => status[n] = "Unloaded" /\ n \notin queue
    /\ InCall(n) => loads[n] = 1

UsesSound(n) ==
    /\ uses[n] \subseteq Needs[n]
    /\ uses[n] # {} => Stored(n)
    /\ \A x \in uses[n] : Stored(x)

Ended(n) == status[n] \in {"Loaded", "Failed"}

LinksSound(n) ==
    /\ \A p \in parents[n] : n \in uses[p] /\ status[n] # "Loaded"
    /\ \A x \in uses[n] : n \in parents[x] \/ x \in created
    /\ n \in created => uses[n] \subseteq created /\ Ended(n)
    /\ status[n] = "Loaded" => n \in created
    /\ late[n] > 0 => uses[n] \subseteq created /\ Ended(n)

HeldSound == \A t \in Client : \A n \in held[t] : Stored(n)

ContainerInv ==
    /\ TypeOK
    /\ Alone /\ CallsSound /\ OuterSound
    /\ \A n \in Name : LoadSound(n) /\ UsesSound(n) /\ LinksSound(n)
    /\ HeldSound

(***************************************************************************)
(* The inductive invariant of the sweeps.  Nothing points at garbage but   *)
(* garbage; and in a pass that has dropped nothing, each garbage of the    *)
(* containers it has visited is pointed at.                                *)
(***************************************************************************)
GarbageLoose == \A n \in garbage : ~ Anchored(n)

GarbageClosed ==
    \A n \in garbage, p \in Name : PointsAt(p, n) => p \in garbage

GarbagePinned ==
    \A n \in garbage :
        ~ sweep.hit /\ Stored(n) /\ Home[n] \notin Range(sweep.left) =>
            \E p \in Name : PointsAt(p, n)

GarbageInv ==
    /\ GarbageLoose /\ GarbageClosed /\ GarbagePinned
    /\ sweep.left = <<>> => ~ sweep.hit

-----------------------------------------------------------------------------
(***************************************************************************)
(* Sequences of calls.                                                     *)
(***************************************************************************)
LEMMA TopIsLast ==
    ASSUME TypeOK, NEW t \in Thread, Inside(t)
    PROVE  /\ calls[t] \in Seq(Frame) /\ Depth(t) \in Nat \ {0}
           /\ Top(t) = At(t, Depth(t)) /\ Top(t) \in Frame
<1>1. calls[t] \in Seq(Frame) /\ calls[t] # <<>>
  BY DEF TypeOK, Inside
<1>2. Len(calls[t]) \in Nat \ {0} /\ Head(calls[t]) = calls[t][1] /\ Head(calls[t]) \in Frame
  BY <1>1
<1>3. QED
  BY <1>1, <1>2 DEF Depth, At, Top

LEMMA PlaceTyped ==
    ASSUME TypeOK, NEW t \in Thread, NEW k \in 1 .. Depth(t)
    PROVE  At(t, k) \in Frame /\ Depth(t) \in Nat
<1>1. calls[t] \in Seq(Frame)
  BY DEF TypeOK
<1>2. Len(calls[t]) \in Nat /\ Len(calls[t]) + 1 - k \in 1 .. Len(calls[t])
  BY <1>1 DEF Depth
<1>3. QED
  BY <1>1, <1>2 DEF Depth, At

LEMMA EmptyDepth == ASSUME NEW t \in Thread, calls[t] = <<>> PROVE Depth(t) = 0
BY DEF Depth

\* A call that ends leaves the others where they are.
LEMMA EndCalls ==
    ASSUME TypeOK, NEW t \in Thread, Inside(t),
           calls' = [calls EXCEPT ![t] = Tail(@)]
    PROVE  /\ calls' \in [Thread -> Seq(Frame)]
           /\ \A u \in Thread : \A k \in 1 .. Depth(u)' :
                /\ k \in 1 .. Depth(u) /\ At(u, k)' = At(u, k)
                /\ u = t => k # Depth(t)
           /\ \A u \in Thread : \A k \in 1 .. Depth(u) :
                (u = t /\ k = Depth(t)) \/ k \in 1 .. Depth(u)'
<1>1. calls[t] \in Seq(Frame) /\ calls[t] # <<>>
  BY DEF TypeOK, Inside
<1>2. /\ Tail(calls[t]) \in Seq(Frame)
      /\ Len(Tail(calls[t])) = Len(calls[t]) - 1
      /\ Len(calls[t]) \in Nat \ {0}
      /\ \A j \in 1 .. Len(calls[t]) - 1 : Tail(calls[t])[j] = calls[t][j + 1]
  BY <1>1
<1>3. /\ calls'[t] = Tail(calls[t])
      /\ \A u \in Thread : u # t => calls'[u] = calls[u]
  BY DEF TypeOK
<1>4. calls' \in [Thread -> Seq(Frame)]
  BY <1>2 DEF TypeOK
<1>5. Depth(t)' = Depth(t) - 1 /\ Depth(t) \in Nat \ {0}
  BY <1>2, <1>3 DEF Depth
<1>6. ASSUME NEW k \in 1 .. Depth(t)'
      PROVE  /\ k \in 1 .. Depth(t) /\ k # Depth(t)
             /\ At(t, k)' = At(t, k)
  <2>1. /\ Depth(t)' + 1 - k \in 1 .. Len(calls[t]) - 1
        /\ Depth(t) + 1 - k = (Depth(t)' + 1 - k) + 1
        /\ k \in 1 .. Depth(t) /\ k # Depth(t)
    BY <1>5 DEF Depth
  <2>2. At(t, k)' = Tail(calls[t])[Depth(t)' + 1 - k]
    BY <1>3 DEF At
  <2>3. QED
    BY <1>2, <2>1, <2>2 DEF At
<1>7. \A u \in Thread : u # t => Depth(u)' = Depth(u) /\ \A k : At(u, k)' = At(u, k)
  BY <1>3 DEF Depth, At
<1>8. \A k \in 1 .. Depth(t) : k = Depth(t) \/ k \in 1 .. Depth(t)'
  BY <1>5
<1>9. QED
  BY <1>4, <1>6, <1>7, <1>8, Zenon

\* What load() may have left of its calls when it goes on: all of them, the
\* innermost perhaps with less to ask for.
GoesOn(t, s) ==
    /\ s \in Seq(Frame) /\ Len(s) = Depth(t)
    /\ \A k \in 1 .. Depth(t) :
         LET f == s[Depth(t) + 1 - k]
         IN  f.name = At(t, k).name /\ f.rest \subseteq At(t, k).rest

LEMMA GoOnCalls ==
    ASSUME TypeOK, NEW t \in Thread, NEW s, GoesOn(t, s),
           calls' = [calls EXCEPT ![t] = s]
    PROVE  /\ calls' \in [Thread -> Seq(Frame)]
           /\ \A u \in Thread : Depth(u)' = Depth(u)
           /\ \A u \in Thread : \A k \in 1 .. Depth(u) :
                /\ At(u, k)'.name = At(u, k).name
                /\ At(u, k)'.rest \subseteq At(u, k).rest
<1>1. /\ calls'[t] = s
      /\ \A u \in Thread : u # t => calls'[u] = calls[u]
  BY DEF TypeOK
<1>2. calls' \in [Thread -> Seq(Frame)]
  BY DEF TypeOK, GoesOn
<1>3. \A u \in Thread : u # t => Depth(u)' = Depth(u) /\ \A k : At(u, k)' = At(u, k)
  BY <1>1 DEF Depth, At
<1>4. Depth(t)' = Depth(t)
  BY <1>1 DEF Depth, GoesOn
<1>5. \A k \in 1 .. Depth(t) : /\ At(t, k)'.name = At(t, k).name
                               /\ At(t, k)'.rest \subseteq At(t, k).rest
  BY <1>1, <1>4 DEF At, GoesOn
<1>6. QED
  BY <1>2, <1>3, <1>4, <1>5

LEMMA BeginCall ==
    ASSUME TypeOK, NEW t \in Thread, NEW s, GoesOn(t, s), NEW f \in Frame,
           calls' = [calls EXCEPT ![t] = <<f>> \o s]
    PROVE  /\ calls' \in [Thread -> Seq(Frame)]
           /\ \A u \in Thread : \A k \in 1 .. Depth(u)' :
                \/ u = t /\ k = Depth(t) + 1 /\ At(u, k)' = f
                \/ k \in 1 .. Depth(u)
           /\ \A u \in Thread : \A k \in 1 .. Depth(u) :
                /\ k \in 1 .. Depth(u)' /\ (u = t => k # Depth(t) + 1)
                /\ At(u, k)'.name = At(u, k).name
                /\ At(u, k)'.rest \subseteq At(u, k).rest
           /\ \E k \in 1 .. Depth(t)' : At(t, k)' = f
<1>1. /\ calls'[t] = <<f>> \o s
      /\ \A u \in Thread : u # t => calls'[u] = calls[u]
  BY DEF TypeOK
<1>2. /\ <<f>> \o s \in Seq(Frame) /\ Len(<<f>> \o s) = Depth(t) + 1
      /\ (<<f>> \o s)[1] = f
      /\ \A j \in 1 .. Depth(t) : (<<f>> \o s)[j + 1] = s[j]
      /\ Depth(t) \in Nat
  <2>1. s \in Seq(Frame) /\ Len(s) = Depth(t) /\ <<f>> \in Seq(Frame)
    BY DEF GoesOn, TypeOK, Depth
  <2>2. Depth(t) \in Nat
    BY <2>1
  <2>3. /\ <<f>> \o s \in Seq(Frame) /\ Len(<<f>> \o s) = Depth(t) + 1
        /\ (<<f>> \o s)[1] = f
    BY <2>1
  <2>4. \A j \in 1 .. Depth(t) : (<<f>> \o s)[j + 1] = s[j]
    BY <2>1, <2>2
  <2>5. QED
    BY <2>2, <2>3, <2>4
<1>3. calls' \in [Thread -> Seq(Frame)]
  BY <1>2 DEF TypeOK
<1>4. \A u \in Thread : u # t => Depth(u)' = Depth(u) /\ \A k : At(u, k)' = At(u, k)
  BY <1>1 DEF Depth, At
<1>5. Depth(t)' = Depth(t) + 1
  BY <1>1, <1>2 DEF Depth
<1>6. ASSUME NEW k, k = Depth(t) + 1
      PROVE  k \in 1 .. Depth(t)' /\ At(t, k)' = f
  <2>1. k \in 1 .. Depth(t)' /\ Depth(t)' + 1 - k = 1
    BY <1>2, <1>5, <1>6
  <2>2. QED
    BY <1>1, <1>2, <2>1 DEF At
<1>7. ASSUME NEW k \in 1 .. Depth(t)
      PROVE  At(t, k)' = s[Depth(t) + 1 - k]
  <2> DEFINE j == Depth(t) + 1 - k
  <2>1. j \in 1 .. Depth(t) /\ Depth(t)' + 1 - k = j + 1
    BY <1>2, <1>5
  <2>2. At(t, k)' = (<<f>> \o s)[j + 1]
    BY <1>1, <2>1 DEF At
  <2>3. QED
    BY <1>2, <2>1, <2>2
<1>8. ASSUME NEW k \in 1 .. Depth(t)
      PROVE  /\ k \in 1 .. Depth(t)' /\ k # Depth(t) + 1
             /\ At(t, k)'.name = At(t, k).name
             /\ At(t, k)'.rest \subseteq At(t, k).rest
  BY <1>2, <1>5, <1>7 DEF GoesOn
<1>9. \A k \in 1 .. Depth(t)' : k = Depth(t) + 1 \/ k \in 1 .. Depth(t)
  BY <1>2, <1>5
<1>10. \E k \in 1 .. Depth(t)' : At(t, k)' = f
  BY <1>2, <1>5, <1>6
<1>11. QED
  BY <1>3, <1>4, <1>6, <1>8, <1>9, <1>10, Zenon

\* A call that asks for n has one resource less to ask for.
LEMMA AskedCalls ==
    ASSUME TypeOK, NEW t \in Thread, Inside(t), NEW n
    PROVE  GoesOn(t, <<[Top(t) EXCEPT !.rest = @ \ {n}]>> \o Tail(calls[t]))
<1> DEFINE f == [Top(t) EXCEPT !.rest = @ \ {n}]
           s == <<f>> \o Tail(calls[t])
<1>1. /\ f \in Frame /\ f.name = Top(t).name /\ f.rest \subseteq Top(t).rest
      /\ Top(t) = calls[t][1]
  <2>1. Top(t) \in Frame /\ Top(t) = calls[t][1]
    BY TopIsLast DEF Top
  <2>2. QED
    BY <2>1 DEF Frame
<1>2. /\ calls[t] \in Seq(Frame) /\ calls[t] # <<>>
      /\ Depth(t) \in Nat \ {0} /\ Depth(t) = Len(calls[t])
  BY TopIsLast DEF Inside, Depth
<1>3. /\ Tail(calls[t]) \in Seq(Frame) /\ Len(Tail(calls[t])) = Depth(t) - 1
      /\ \A j \in 1 .. Depth(t) - 1 : Tail(calls[t])[j] = calls[t][j + 1]
  BY <1>2
<1>4. s \in Seq(Frame) /\ Len(s) = Depth(t) /\ s[1] = f
  BY <1>1, <1>2, <1>3
<1>5. ASSUME NEW i \in 2 .. Depth(t)
      PROVE  s[i] = calls[t][i]
  <2>1. s[i] = Tail(calls[t])[i - 1]
    <3>1. i \in 1 .. 1 + Len(Tail(calls[t])) /\ i # 1
      BY <1>2, <1>3
    <3>2. QED
      BY <1>1, <1>3, <3>1
  <2>2. i - 1 \in 1 .. Depth(t) - 1 /\ (i - 1) + 1 = i
    BY <1>2
  <2>3. QED
    BY <1>3, <2>1, <2>2
<1>6. ASSUME NEW i \in 1 .. Depth(t)
      PROVE  s[i].name = calls[t][i].name /\ s[i].rest \subseteq calls[t][i].rest
  <2>1. CASE i = 1
    BY <1>1, <1>4, <2>1
  <2>2. CASE i \in 2 .. Depth(t)
    BY <1>5, <2>2
  <2>3. i = 1 \/ i \in 2 .. Depth(t)
    BY <1>2
  <2>4. QED
    BY <2>1, <2>2, <2>3
<1>7. \A k \in 1 .. Depth(t) : Depth(t) + 1 - k \in 1 .. Depth(t)
  BY <1>2
<1>8. QED
  BY <1>4, <1>6, <1>7 DEF GoesOn, At

-----------------------------------------------------------------------------
(***************************************************************************)
(* What is left of a pass.                                                 *)
(***************************************************************************)
Lefts == {SubSeq(Order, i, Len(Order)) : i \in 1 .. Len(Order) + 1}

LEMMA PassGoesOn ==
    ASSUME NEW left \in Lefts, left # <<>>
    PROVE  /\ Tail(left) \in Lefts
           /\ Range(left) = {Head(left)} \union Range(Tail(left))
<1>1. Order \in Seq(Container) /\ Len(Order) \in Nat
  BY OrderAssumption
<1>2. PICK i \in 1 .. Len(Order) + 1 : left = SubSeq(Order, i, Len(Order))
  BY DEF Lefts
<1>3. i \in 1 .. Len(Order)
  BY <1>1, <1>2
<1>4. Tail(left) = SubSeq(Order, i + 1, Len(Order))
  BY <1>1, <1>2, <1>3
<1>5. Tail(left) \in Lefts
  <2>1. i + 1 \in 1 .. Len(Order) + 1
    BY <1>1, <1>3
  <2>2. QED
    BY <1>4, <2>1 DEF Lefts
<1>6. left \in Seq(Container)
  BY <1>1, <1>2
<1>7. /\ Head(left) = left[1] /\ Len(left) \in Nat \ {0}
      /\ DOMAIN left = 1 .. Len(left) /\ DOMAIN Tail(left) = 1 .. Len(left) - 1
      /\ \A j \in 1 .. Len(left) - 1 : Tail(left)[j] = left[j + 1]
  BY <1>6
<1>8. \A j \in 2 .. Len(left) : j - 1 \in 1 .. Len(left) - 1 /\ left[j] = Tail(left)[j - 1]
  BY <1>7
<1>9. \A j \in DOMAIN left : j = 1 \/ j \in 2 .. Len(left)
  BY <1>7
<1>10. Range(left) \subseteq {Head(left)} \union Range(Tail(left))
  <2>1. SUFFICES ASSUME NEW j \in DOMAIN left
                 PROVE  left[j] \in {Head(left)} \union Range(Tail(left))
    BY DEF Range
  <2>2. CASE j = 1
    BY <1>7, <2>2
  <2>3. CASE j \in 2 .. Len(left)
    BY <1>7, <1>8, <2>3 DEF Range
  <2>4. QED
    BY <1>9, <2>2, <2>3
<1>11. {Head(left)} \union Range(Tail(left)) \subseteq Range(left)
  BY <1>7 DEF Range
<1>12. QED
  BY <1>5, <1>10, <1>11

LEMMA PassBegins == Order \in Lefts /\ <<>> \in Lefts
<1>1. Order \in Seq(Container) /\ Len(Order) \in Nat
  BY OrderAssumption
<1>2. SubSeq(Order, 1, Len(Order)) = Order
  BY <1>1
<1>3. SubSeq(Order, Len(Order) + 1, Len(Order)) = <<>>
  BY <1>1
<1>4. 1 \in 1 .. Len(Order) + 1 /\ Len(Order) + 1 \in 1 .. Len(Order) + 1
  BY <1>1
<1>5. QED
  BY <1>2, <1>3, <1>4 DEF Lefts

-----------------------------------------------------------------------------
(***************************************************************************)
(* Types.                                                                  *)
(***************************************************************************)
LEMMA TypeInit == Init => TypeOK
<1> SUFFICES ASSUME Init
             PROVE  TypeOK
  OBVIOUS
<1>1. calls \in [Thread -> Seq(Frame)]
  BY DEF Init
<1>2. sweep \in [left : Lefts, hit : BOOLEAN]
  BY PassBegins DEF Init, Idle
<1>3. QED
  BY <1>1, <1>2 DEF Init, TypeOK, Lefts

LEMMA NewCall ==
    ASSUME NEW n \in Name, NEW locked \in BOOLEAN
    PROVE  [name |-> n, rest |-> Needs[n], locked |-> locked] \in Frame
BY NeedsAssumption DEF Frame

\* The four outcomes of a request: n is known, its caller loads it at once, a
\* task is queued for it, or it waits for a download or for nothing.
FoundKnown(t, n, s) ==
    /\ Stored(n)
    /\ calls' = [calls EXCEPT ![t] = s]
    /\ UNCHANGED <<status, queue, external, loads>>

FoundByCaller(t, n, s) ==
    /\ ~ Stored(n)
    /\ status' = [status EXCEPT ![n] = "Enqueuing"]
    /\ loads' = [loads EXCEPT ![n] = @ + 1]
    /\ calls' = [calls EXCEPT ![t] =
                   <<[name |-> n, rest |-> Needs[n], locked |-> TRUE]>> \o s]
    /\ UNCHANGED <<queue, external>>

FoundQueued(t, n, s) ==
    /\ ~ Stored(n)
    /\ \E x \in {"Enqueuing", "Unloaded"} : status' = [status EXCEPT ![n] = x]
    /\ queue' = queue \union {n}
    /\ calls' = [calls EXCEPT ![t] = s]
    /\ UNCHANGED <<external, loads>>

FoundAway(t, n, s) ==
    /\ ~ Stored(n)
    /\ status' = [status EXCEPT ![n] = "Unloaded"]
    /\ external' = external \/ external' = external \union {n}
    /\ calls' = [calls EXCEPT ![t] = s]
    /\ UNCHANGED <<queue, loads>>

LEMMA FindCases ==
    ASSUME NEW t \in Thread, NEW n \in Name, NEW sync \in BOOLEAN, NEW s,
           Find(t, n, sync, s)
    PROVE  /\ garbage' = {x \in garbage : ~ Reaches(n, x)}
           /\ \/ FoundKnown(t, n, s) \/ FoundByCaller(t, n, s)
              \/ FoundQueued(t, n, s) \/ FoundAway(t, n, s)
<1>1. garbage' = {x \in garbage : ~ Reaches(n, x)}
  BY DEF Find
<1>2. CASE Known(n)
  BY <1>2 DEF Find, Known, FoundKnown
<1>3. CASE ~ Known(n) /\ Loadable(n) /\ sync
  <2>1. FoundByCaller(t, n, s)
    BY <1>3 DEF Find, Known, FoundByCaller
  <2>2. QED
    BY <1>1, <2>1
<1>4. CASE ~ Known(n) /\ Loadable(n) /\ ~ sync
  <2>1. FoundQueued(t, n, s)
    BY <1>4 DEF Find, Known, FoundQueued
  <2>2. QED
    BY <1>1, <2>1
<1>5. CASE ~ Known(n) /\ ~ Loadable(n)
  <2>1. FoundAway(t, n, s)
    BY <1>5 DEF Find, Known, FoundAway
  <2>2. QED
    BY <1>1, <2>1
<1>6. QED
  BY <1>1, <1>2, <1>3, <1>4, <1>5

LEMMA FindTyped ==
    ASSUME TypeOK, NEW t \in Thread, NEW n \in Name, NEW sync \in BOOLEAN,
           NEW s, GoesOn(t, s), Find(t, n, sync, s),
           uses' \in [Name -> SUBSET Name], parents' \in [Name -> SUBSET Name],
           held' \in [Client -> SUBSET Name], UNCHANGED <<late, created, sweep>>
    PROVE  TypeOK'
<1>1. garbage' \in SUBSET Name
  BY FindCases DEF TypeOK
<1>2. CASE FoundKnown(t, n, s)
  BY <1>1, <1>2, GoOnCalls DEF FoundKnown, TypeOK
<1>3. CASE FoundByCaller(t, n, s)
  <2>1. calls' \in [Thread -> Seq(Frame)]
    BY <1>3, NewCall, BeginCall DEF FoundByCaller
  <2>2. QED
    BY <1>1, <1>3, <2>1 DEF FoundByCaller, TypeOK
<1>4. CASE FoundQueued(t, n, s)
  <2>1. calls' \in [Thread -> Seq(Frame)]
    BY <1>4, GoOnCalls DEF FoundQueued
  <2>2. status' \in [Name -> {"None", "Unloaded", "Enqueuing", "Loading",
                              "Loaded", "Failed"}]
    BY <1>4 DEF FoundQueued, TypeOK
  <2>3. QED
    BY <1>1, <1>4, <2>1, <2>2 DEF FoundQueued, TypeOK
<1>5. CASE FoundAway(t, n, s)
  BY <1>1, <1>5, GoOnCalls DEF FoundAway, TypeOK
<1>6. QED
  BY <1>2, <1>3, <1>4, <1>5, FindCases

LEMMA EmptyCalls ==
    ASSUME TypeOK, NEW t \in Thread, calls[t] = <<>>
    PROVE  GoesOn(t, <<>>) /\ Depth(t) = 0
BY DEF GoesOn, Depth

LEMMA DependTyped ==
    ASSUME TypeOK, NEW p \in Name, NEW n \in Name, Depend(p, n) \/ UNCHANGED links
    PROVE  /\ uses' \in [Name -> SUBSET Name] /\ parents' \in [Name -> SUBSET Name]
           /\ UNCHANGED <<late, created>>
<1>1. CASE Depend(p, n)
  <2>1. uses' \in [Name -> SUBSET Name]
    BY <1>1 DEF TypeOK, Depend
  <2>2. parents' \in [Name -> SUBSET Name]
    BY <1>1 DEF TypeOK, Depend
  <2>3. QED
    BY <1>1, <2>1, <2>2 DEF Depend
<1>2. CASE UNCHANGED links
  BY <1>2 DEF TypeOK, links
<1>3. QED
  BY <1>1, <1>2

LEMMA OutcomeTyped ==
    ASSUME TypeOK, NEW n \in Name, NEW success \in BOOLEAN, Outcome(n, success),
           late' \in [Name -> Nat]
    PROVE  TypeOK'
BY DEF TypeOK, Outcome

LEMMA TypeStep == TypeOK /\ [Next]_vars => TypeOK'
<1> SUFFICES ASSUME TypeOK, [Next]_vars
             PROVE  TypeOK'
  OBVIOUS
<1> USE DEF Thread, Lefts, links
<1>1. ASSUME NEW t \in Client, NEW n \in Name, NEW sync \in BOOLEAN, Request(t, n, sync)
      PROVE  TypeOK'
  <2>1. GoesOn(t, <<>>) /\ Find(t, n, sync, <<>>)
    BY <1>1, EmptyCalls DEF Request
  <2>2. /\ uses' \in [Name -> SUBSET Name] /\ parents' \in [Name -> SUBSET Name]
        /\ held' \in [Client -> SUBSET Name] /\ UNCHANGED <<late, created, sweep>>
    BY <1>1 DEF Request, TypeOK
  <2>3. t \in Thread
    OBVIOUS
  <2>4. QED
    BY <2>1, <2>2, <2>3, FindTyped
<1>2. ASSUME NEW t \in Client, NEW n \in Name, Release(t, n)
      PROVE  TypeOK'
  BY <1>2 DEF Release, TypeOK
<1>3. ASSUME NEW t \in Thread, NEW n \in Name, NEW sync \in BOOLEAN, Subrequest(t, n, sync)
      PROVE  TypeOK'
  <2> DEFINE s == <<[Top(t) EXCEPT !.rest = @ \ {n}]>> \o Tail(calls[t])
  <2>1. GoesOn(t, s) /\ Find(t, n, sync, s)
    BY <1>3, AskedCalls DEF Subrequest, Loading
  <2> HIDE DEF s
  <2>0. Top(t).name \in Name
    BY <1>3, TopIsLast DEF Subrequest, Loading, Frame
  <2>2. /\ uses' \in [Name -> SUBSET Name] /\ parents' \in [Name -> SUBSET Name]
        /\ held' \in [Client -> SUBSET Name] /\ UNCHANGED <<late, created, sweep>>
    <3>1. Depend(Top(t).name, n) \/ UNCHANGED links
      BY <1>3 DEF Subrequest
    <3>2. UNCHANGED <<held, sweep>>
      BY <1>3 DEF Subrequest
    <3>3. QED
      BY <2>0, <3>1, <3>2, DependTyped DEF TypeOK
  <2>3. QED
    BY <2>1, <2>2, FindTyped
<1>4. ASSUME NEW t \in Thread, NEW n \in Name, SubrequestRefused(t, n)
      PROVE  TypeOK'
  BY <1>4 DEF SubrequestRefused, TypeOK
<1>5. ASSUME NEW t \in Worker, NEW n \in Name, StartTask(t, n)
      PROVE  TypeOK'
  <2> DEFINE f == [name |-> n, rest |-> Needs[n], locked |-> FALSE]
  <2>1. f \in Frame
    BY NewCall
  <2>2. calls' \in [Thread -> Seq(Frame)]
    BY <1>5, <2>1 DEF StartTask, TypeOK
  <2>3. QED
    BY <1>5, <2>2 DEF StartTask, TypeOK
<1>6. ASSUME NEW t \in Thread, EndLoad(t)
      PROVE  TypeOK'
  BY <1>6 DEF EndLoad, TypeOK
<1>7. ASSUME NEW t \in Thread, FailLoad(t)
      PROVE  TypeOK'
  BY <1>7 DEF FailLoad, TypeOK
<1>7a. ASSUME NEW t \in Thread, Return(t)
       PROVE  TypeOK'
  <2>1. calls' \in [Thread -> Seq(Frame)] /\ Top(t).name \in Name
    BY <1>7a, EndCalls, TopIsLast DEF Return, Frame
  <2>2. held' \in [Client -> SUBSET Name]
    BY <1>7a, <2>1 DEF Return, TypeOK
  <2>3. /\ uses' \in [Name -> SUBSET Name] /\ parents' \in [Name -> SUBSET Name]
        /\ UNCHANGED <<late, created>>
    <3>1. CASE UNCHANGED links
      BY <3>1 DEF TypeOK
    <3>2. CASE Tail(calls[t]) # <<>> /\ Depend(Head(Tail(calls[t])).name, Top(t).name)
      <4>1. Head(Tail(calls[t])).name \in Name
        <5>1. calls[t] \in Seq(Frame) /\ calls[t] # <<>>
          BY <1>7a DEF TypeOK, Return, Inside
        <5>2. Tail(calls[t]) \in Seq(Frame)
          BY <5>1
        <5>3. Head(Tail(calls[t])) \in Frame
          BY <3>2, <5>2
        <5>4. QED
          BY <5>3 DEF Frame
      <4>2. QED
        BY <2>1, <3>2, <4>1, DependTyped
    <3>3. QED
      BY <1>7a, <3>1, <3>2 DEF Return
  <2>4. QED
    BY <1>7a, <2>1, <2>2, <2>3 DEF Return, TypeOK
<1>8. ASSUME NEW n \in Name, NEW success \in BOOLEAN,
             Settle(n, success) \/ SettleAgain(n, success)
      PROVE  TypeOK'
  <2>1. late' \in [Name -> Nat]
    <3>1. PICK i \in Nat : late' = [late EXCEPT ![n] = i]
      <4>1. CASE Settle(n, success)
        <5>1. \A i \in 0 .. Cardinality(uses[n]) : i \in Nat
          OBVIOUS
        <5>2. \E i \in 0 .. Cardinality(uses[n]) : late' = [late EXCEPT ![n] = i]
          BY <4>1 DEF Settle
        <5>3. QED
          BY <5>1, <5>2, Zenon
      <4>2. CASE SettleAgain(n, success)
        <5>1. late[n] - 1 \in Nat
          BY <4>2 DEF SettleAgain, TypeOK
        <5>2. QED
          BY <4>2, <5>1 DEF SettleAgain
      <4>3. QED
        BY <1>8, <4>1, <4>2
    <3>2. QED
      BY <3>1 DEF TypeOK
  <2>2. QED
    BY <1>8, <2>1, OutcomeTyped DEF Settle, SettleAgain
<1>9. ASSUME NEW n \in Name, NEW done \in BOOLEAN, FileDownloaded(n, done)
      PROVE  TypeOK'
  BY <1>9 DEF FileDownloaded, TypeOK
<1>10. CASE BeginSweep
  BY <1>10, PassBegins DEF BeginSweep, TypeOK
<1>11. CASE SweepContainer
  <2>1. sweep.left \in Lefts /\ sweep.left # <<>> /\ sweep.hit \in BOOLEAN
    BY <1>11 DEF SweepContainer, TypeOK
  <2>2. \A hit \in BOOLEAN : NextPass(Tail(sweep.left), hit) \in [left : Lefts, hit : BOOLEAN]
    BY <2>1, PassGoesOn, PassBegins DEF NextPass
  <2>3. PICK E \in SUBSET Name :
          /\ status' = [n \in Name |-> IF n \in E THEN "None" ELSE status[n]]
          /\ uses' = [n \in Name |-> IF n \in E THEN {} ELSE uses[n]]
          /\ parents' = [n \in Name |-> IF n \in E THEN {} ELSE parents[n]]
          /\ created' = created \ E
          /\ loads' = [n \in Name |-> IF n \in E THEN 0 ELSE loads[n]]
          /\ sweep' = NextPass(Tail(sweep.left), sweep.hit \/ E # {})
    BY <1>11 DEF SweepContainer
  <2>4. sweep' \in [left : Lefts, hit : BOOLEAN]
    BY <2>1, <2>2, <2>3
  <2>5. QED
    BY <1>11, <2>3, <2>4 DEF SweepContainer, TypeOK
<1>12. CASE UNCHANGED vars
  BY <1>12 DEF vars, TypeOK
<1>13. QED
  BY <1>1, <1>2, <1>3, <1>4, <1>5, <1>6, <1>7, <1>7a, <1>8, <1>9, <1>10, <1>11, <1>12 DEF Next

\* The statuses, pointers, calls and what is left of a pass have their types.
THEOREM TypeCorrect == Spec => []TypeOK
BY TypeInit, TypeStep, PTL DEF Spec

-----------------------------------------------------------------------------
(***************************************************************************)
(* The calls of a step that ends, goes on or begins one.                   *)
(***************************************************************************)
LEMMA EndStep ==
    ASSUME TypeOK, Alone, CallsSound, NEW t \in Thread, Inside(t),
           calls' = [calls EXCEPT ![t] = Tail(@)]
    PROVE  /\ Alone' /\ CallsSound'
           /\ \A x : InCall(x)' <=> (InCall(x) /\ x # Top(t).name)
           /\ InCall(Top(t).name) /\ Top(t).name \in Name
<1>1. /\ \A u \in Thread : \A k \in 1 .. Depth(u)' :
            /\ k \in 1 .. Depth(u) /\ At(u, k)' = At(u, k)
            /\ u = t => k # Depth(t)
      /\ \A u \in Thread : \A k \in 1 .. Depth(u) :
            (u = t /\ k = Depth(t)) \/ k \in 1 .. Depth(u)'
  BY EndCalls
<1>2. Top(t) = At(t, Depth(t)) /\ Depth(t) \in 1 .. Depth(t) /\ Top(t).name \in Name
  BY TopIsLast DEF Frame
<1>3. Alone'
  <2> SUFFICES ASSUME NEW u \in Thread, NEW v \in Thread,
                      NEW k \in 1 .. Depth(u)', NEW l \in 1 .. Depth(v)',
                      At(u, k)'.name = At(v, l)'.name
               PROVE  u = v /\ k = l
    BY DEF Alone
  <2>1. /\ k \in 1 .. Depth(u) /\ l \in 1 .. Depth(v)
        /\ At(u, k).name = At(v, l).name
    BY <1>1
  <2>2. QED
    BY <2>1 DEF Alone
<1>4. CallsSound'
  <2> SUFFICES ASSUME NEW u \in Thread, NEW k \in 1 .. Depth(u)'
               PROVE  /\ At(u, k)'.rest \subseteq Needs[At(u, k)'.name]
                      /\ k < Depth(u)' => At(u, k + 1)'.name \in Needs[At(u, k)'.name]
    BY DEF CallsSound
  <2>0. /\ Depth(u) \in Nat /\ (u # t => Depth(u)' = Depth(u))
        /\ Depth(t)' = Depth(t) - 1
    <3>1. calls[t] \in Seq(Frame) /\ calls[t] # <<>> /\ calls[u] \in Seq(Frame)
      BY DEF TypeOK, Inside
    <3>2. Len(Tail(calls[t])) = Len(calls[t]) - 1 /\ Len(calls[u]) \in Nat
      BY <3>1
    <3>3. calls'[t] = Tail(calls[t]) /\ (u # t => calls'[u] = calls[u])
      BY DEF TypeOK
    <3>4. QED
      BY <3>1, <3>2, <3>3 DEF Depth
  <2>1. k \in 1 .. Depth(u) /\ At(u, k)' = At(u, k)
    BY <1>1
  <2>2. ASSUME k < Depth(u)'
        PROVE  /\ At(u, k + 1)' = At(u, k + 1) /\ k < Depth(u)
    <3>1. Depth(u)' \in Nat
      BY <1>2, <2>0
    <3>2. k + 1 \in 1 .. Depth(u)'
      BY <2>2, <3>1
    <3>3. k + 1 \in 1 .. Depth(u) /\ At(u, k + 1)' = At(u, k + 1)
      BY <1>1, <3>2
    <3>4. QED
      BY <2>0, <3>3
  <2>3. QED
    BY <2>1, <2>2 DEF CallsSound
<1>5. ASSUME NEW x, InCall(x)'
      PROVE  InCall(x) /\ x # Top(t).name
  <2>0. PICK u \in Thread : \E k \in 1 .. Depth(u)' : At(u, k)'.name = x
    BY <1>5 DEF InCall
  <2>1. PICK k \in 1 .. Depth(u)' : At(u, k)'.name = x
    BY <2>0
  <2>2. At(u, k).name = x /\ k \in 1 .. Depth(u) /\ (u = t => k # Depth(t))
    BY <1>1, <2>1
  <2>3. InCall(x)
    BY <2>2 DEF InCall
  <2>4. x # Top(t).name
    BY <1>2, <2>2 DEF Alone
  <2>5. QED
    BY <2>3, <2>4
<1>6. ASSUME NEW x, InCall(x), x # Top(t).name
      PROVE  InCall(x)'
  <2>0. PICK u \in Thread : \E k \in 1 .. Depth(u) : At(u, k).name = x
    BY <1>6 DEF InCall
  <2>1. PICK k \in 1 .. Depth(u) : At(u, k).name = x
    BY <2>0
  <2>2. k \in 1 .. Depth(u)' /\ At(u, k)'.name = x
    BY <1>1, <1>2, <1>6, <2>1
  <2>3. QED
    BY <2>2 DEF InCall
<1>7. InCall(Top(t).name)
  BY <1>2 DEF InCall
<1>8. QED
  BY <1>2, <1>3, <1>4, <1>5, <1>6, <1>7

LEMMA GoOnStep ==
    ASSUME TypeOK, Alone, CallsSound, NEW t \in Thread, NEW s, GoesOn(t, s),
           calls' = [calls EXCEPT ![t] = s]
    PROVE  /\ Alone' /\ CallsSound'
           /\ \A x : InCall(x)' <=> InCall(x)
<1>1. /\ \A u \in Thread : Depth(u)' = Depth(u)
      /\ \A u \in Thread : \A k \in 1 .. Depth(u) :
            /\ At(u, k)'.name = At(u, k).name
            /\ At(u, k)'.rest \subseteq At(u, k).rest
  BY GoOnCalls
<1>2. Alone'
  BY <1>1 DEF Alone
<1>3. CallsSound'
  <2> SUFFICES ASSUME NEW u \in Thread, NEW k \in 1 .. Depth(u)
               PROVE  /\ At(u, k)'.rest \subseteq Needs[At(u, k)'.name]
                      /\ k < Depth(u) => At(u, k + 1)'.name \in Needs[At(u, k)'.name]
    BY <1>1 DEF CallsSound
  <2>1. Depth(u) \in Nat
    BY PlaceTyped
  <2>2. k < Depth(u) => k + 1 \in 1 .. Depth(u)
    BY <2>1
  <2>3. QED
    BY <1>1, <2>2 DEF CallsSound
<1>4. \A x : InCall(x)' <=> InCall(x)
  BY <1>1 DEF InCall
<1>5. QED
  BY <1>2, <1>3, <1>4

LEMMA BeginStep ==
    ASSUME TypeOK, Alone, CallsSound, NEW t \in Thread, NEW s, GoesOn(t, s),
           NEW f \in Frame, ~ InCall(f.name), f.rest \subseteq Needs[f.name],
           Inside(t) => f.name \in Needs[Top(t).name],
           calls' = [calls EXCEPT ![t] = <<f>> \o s]
    PROVE  /\ Alone' /\ CallsSound'
           /\ \A x : InCall(x)' <=> (InCall(x) \/ x = f.name)
<1>1. /\ \A u \in Thread : \A k \in 1 .. Depth(u)' :
            \/ u = t /\ k = Depth(t) + 1 /\ At(u, k)' = f
            \/ k \in 1 .. Depth(u)
      /\ \A u \in Thread : \A k \in 1 .. Depth(u) :
            /\ k \in 1 .. Depth(u)' /\ (u = t => k # Depth(t) + 1)
            /\ At(u, k)'.name = At(u, k).name
            /\ At(u, k)'.rest \subseteq At(u, k).rest
      /\ \E k \in 1 .. Depth(t)' : At(t, k)' = f
  BY BeginCall
<1>2. ASSUME NEW u \in Thread, NEW k \in 1 .. Depth(u)
      PROVE  At(u, k).name # f.name
  BY <1>2 DEF InCall
<1>3. Alone'
  <2> SUFFICES ASSUME NEW u \in Thread, NEW v \in Thread,
                      NEW k \in 1 .. Depth(u)', NEW l \in 1 .. Depth(v)',
                      At(u, k)'.name = At(v, l)'.name
               PROVE  u = v /\ k = l
    BY DEF Alone
  <2>1. CASE k \in 1 .. Depth(u) /\ l \in 1 .. Depth(v)
    BY <1>1, <2>1 DEF Alone
  <2>2. CASE k \notin 1 .. Depth(u)
    <3>1. u = t /\ k = Depth(t) + 1 /\ At(u, k)' = f
      BY <1>1, <2>2
    <3>2. l \notin 1 .. Depth(v)
      BY <1>1, <1>2, <3>1
    <3>3. QED
      BY <1>1, <3>1, <3>2
  <2>3. CASE l \notin 1 .. Depth(v)
    <3>1. v = t /\ l = Depth(t) + 1 /\ At(v, l)' = f
      BY <1>1, <2>3
    <3>2. k \notin 1 .. Depth(u)
      BY <1>1, <1>2, <3>1
    <3>3. QED
      BY <1>1, <3>1, <3>2
  <2>4. QED
    BY <2>1, <2>2, <2>3
<1>4. CallsSound'
  <2> SUFFICES ASSUME NEW u \in Thread, NEW k \in 1 .. Depth(u)'
               PROVE  /\ At(u, k)'.rest \subseteq Needs[At(u, k)'.name]
                      /\ k < Depth(u)' => At(u, k + 1)'.name \in Needs[At(u, k)'.name]
    BY DEF CallsSound
  <2>1. /\ Depth(u) \in Nat /\ (u # t => Depth(u)' = Depth(u))
        /\ Depth(t)' = Depth(t) + 1 /\ Depth(t) \in Nat
    <3>1. calls[t] \in Seq(Frame) /\ calls[u] \in Seq(Frame) /\ s \in Seq(Frame)
      BY DEF TypeOK, GoesOn
    <3>2. Len(<<f>> \o s) = Len(s) + 1 /\ Len(s) = Len(calls[t])
      BY <3>1 DEF GoesOn, Depth
    <3>3. calls'[t] = <<f>> \o s /\ (u # t => calls'[u] = calls[u])
      BY DEF TypeOK
    <3>4. QED
      BY <3>1, <3>2, <3>3 DEF Depth
  <2>2. CASE k \notin 1 .. Depth(u)
    <3>1. u = t /\ k = Depth(t) + 1 /\ At(u, k)' = f
      BY <1>1, <2>2
    <3>2. QED
      BY <2>1, <3>1
  <2>3. CASE k \in 1 .. Depth(u)
    <3>1. At(u, k)'.name = At(u, k).name /\ At(u, k)'.rest \subseteq At(u, k).rest
      BY <1>1, <2>3
    <3>2. CASE k < Depth(u)
      <4>1. k + 1 \in 1 .. Depth(u)
        BY <2>1, <2>3, <3>2
      <4>2. At(u, k + 1)'.name = At(u, k + 1).name
        BY <1>1, <4>1
      <4>3. QED
        BY <2>3, <3>1, <3>2, <4>2 DEF CallsSound
    <3>3. CASE ~ (k < Depth(u)) /\ u = t
      <4>1. k = Depth(t) /\ k + 1 \in 1 .. Depth(t)' /\ k + 1 \notin 1 .. Depth(t)
        BY <2>1, <2>3, <3>3
      <4>2. At(t, k + 1)' = f
        BY <1>1, <4>1
      <4>3. Inside(t) /\ Top(t) = At(t, k)
        <5>1. calls[t] # <<>>
          BY <4>1, <2>3, <3>3, EmptyDepth
        <5>2. QED
          BY <4>1, <5>1, TopIsLast DEF Inside
      <4>4. QED
        BY <2>3, <3>1, <3>3, <4>2, <4>3 DEF CallsSound
    <3>4. CASE ~ (k < Depth(u)) /\ u # t
      BY <2>1, <2>3, <3>1, <3>4 DEF CallsSound
    <3>5. QED
      BY <3>2, <3>3, <3>4
  <2>4. QED
    BY <2>2, <2>3
<1>5. ASSUME NEW x, InCall(x)'
      PROVE  InCall(x) \/ x = f.name
  <2>0. PICK u \in Thread : \E k \in 1 .. Depth(u)' : At(u, k)'.name = x
    BY <1>5 DEF InCall
  <2>1. PICK k \in 1 .. Depth(u)' : At(u, k)'.name = x
    BY <2>0
  <2>2. QED
    BY <1>1, <2>1 DEF InCall
<1>6. ASSUME NEW x, InCall(x)
      PROVE  InCall(x)'
  <2>0. PICK u \in Thread : \E k \in 1 .. Depth(u) : At(u, k).name = x
    BY <1>6 DEF InCall
  <2>1. PICK k \in 1 .. Depth(u) : At(u, k).name = x
    BY <2>0
  <2>2. QED
    BY <1>1, <2>1 DEF InCall
<1>7. InCall(f.name)'
  <2>1. PICK k \in 1 .. Depth(t)' : At(t, k)' = f
    BY <1>1
  <2>2. \E u \in Thread : \E l \in 1 .. Depth(u)' : At(u, l)'.name = f.name
    BY <2>1
  <2>3. QED
    BY <2>2 DEF InCall
<1>8. QED
  BY <1>3, <1>4, <1>5, <1>6, <1>7

\* The names of the calls, and of the frames.
LEMMA FramesAt ==
    ASSUME NEW c \in [Thread -> Seq(Frame)], NEW x
    PROVE  (\E t \in Thread : \E f \in Range(c[t]) : f.name = x)
             <=> (\E t \in Thread : \E k \in 1 .. Len(c[t]) :
                     c[t][Len(c[t]) + 1 - k].name = x)
<1>1. ASSUME NEW t \in Thread, NEW f \in Range(c[t]), f.name = x
      PROVE  \E k \in 1 .. Len(c[t]) : c[t][Len(c[t]) + 1 - k].name = x
  <2>1. c[t] \in Seq(Frame)
    OBVIOUS
  <2>2. PICK i \in DOMAIN c[t] : c[t][i] = f
    BY DEF Range
  <2>3. i \in 1 .. Len(c[t]) /\ Len(c[t]) \in Nat
    BY <2>1, <2>2
  <2>4. /\ Len(c[t]) + 1 - i \in 1 .. Len(c[t])
        /\ Len(c[t]) + 1 - (Len(c[t]) + 1 - i) = i
    BY <2>3
  <2>5. QED
    BY <1>1, <2>2, <2>4
<1>2. ASSUME NEW t \in Thread, NEW k \in 1 .. Len(c[t]),
             c[t][Len(c[t]) + 1 - k].name = x
      PROVE  \E f \in Range(c[t]) : f.name = x
  <2>1. c[t] \in Seq(Frame)
    OBVIOUS
  <2>2. Len(c[t]) + 1 - k \in DOMAIN c[t]
    BY <2>1
  <2>3. QED
    BY <1>2, <2>2 DEF Range
<1>3. QED
  BY <1>1, <1>2

LEMMA AnchoredAs ==
    ASSUME calls \in [Thread -> Seq(Frame)], NEW x
    PROVE  Anchored(x) <=> \/ \E t \in Client : x \in held[t]
                           \/ x \in queue \union external
                           \/ InCall(x) \/ Waking(x) \/ late[x] > 0
BY FramesAt DEF Anchored, Frames, InCall, At, Depth

LEMMA AnchoredNext ==
    ASSUME calls' \in [Thread -> Seq(Frame)], NEW x
    PROVE  Anchored(x)' <=> \/ \E t \in Client : x \in held'[t]
                            \/ x \in queue' \union external'
                            \/ InCall(x)' \/ Waking(x)' \/ late'[x] > 0
BY FramesAt DEF Anchored, Frames, InCall, At, Depth

-----------------------------------------------------------------------------
(***************************************************************************)
(* The invariant of the containers is inductive.                           *)
(***************************************************************************)
LEMMA ContainerInit == Init => ContainerInv
<1> SUFFICES ASSUME Init
             PROVE  ContainerInv
  OBVIOUS
<1>1. \A t \in Thread : Depth(t) = 0
  BY DEF Init, Depth
<1>2. Alone /\ CallsSound /\ OuterSound /\ \A n \in Name : ~ InCall(n)
  BY <1>1 DEF Alone, CallsSound, OuterSound, InCall
<1>3. \A n \in Name : LoadSound(n) /\ UsesSound(n) /\ LinksSound(n)
  BY <1>2 DEF Init, LoadSound, UsesSound, LinksSound
<1>4. HeldSound
  BY DEF Init, HeldSound
<1>5. QED
  BY <1>2, <1>3, <1>4, TypeInit DEF ContainerInv

\* A call that is not the innermost one of its thread has its load() running.
LEMMA GoOnOuter ==
    ASSUME TypeOK, OuterSound, NEW t \in Thread, NEW s, GoesOn(t, s),
           calls' = [calls EXCEPT ![t] = s],
           \A x \in Name : status[x] = "Enqueuing" => status'[x] = "Enqueuing"
    PROVE  OuterSound'
<1>1. /\ \A u \in Thread : Depth(u)' = Depth(u)
      /\ \A u \in Thread : \A k \in 1 .. Depth(u) : At(u, k)'.name = At(u, k).name
  BY GoOnCalls
<1>2. \A u \in Thread : \A k \in 1 .. Depth(u) : At(u, k).name \in Name
  BY PlaceTyped DEF Frame
<1>3. QED
  BY <1>1, <1>2 DEF OuterSound

LEMMA BeginOuter ==
    ASSUME TypeOK, OuterSound, NEW t \in Thread, NEW s, GoesOn(t, s), NEW f \in Frame,
           Inside(t) => Loading(t), calls' = [calls EXCEPT ![t] = <<f>> \o s],
           \A x \in Name : status[x] = "Enqueuing" => status'[x] = "Enqueuing"
    PROVE  OuterSound'
<1>1. /\ \A u \in Thread : \A k \in 1 .. Depth(u)' :
            (u = t /\ k = Depth(t) + 1) \/ k \in 1 .. Depth(u)
      /\ \A u \in Thread : \A k \in 1 .. Depth(u) : At(u, k)'.name = At(u, k).name
  BY BeginCall
<1>2. SUFFICES ASSUME NEW u \in Thread, NEW k \in 1 .. Depth(u)', k < Depth(u)'
               PROVE  status'[At(u, k)'.name] = "Enqueuing"
  BY DEF OuterSound
<1>3. /\ Depth(u) \in Nat /\ (u # t => Depth(u)' = Depth(u))
      /\ Depth(t)' = Depth(t) + 1 /\ Depth(t) \in Nat
  <2>1. calls[t] \in Seq(Frame) /\ calls[u] \in Seq(Frame) /\ s \in Seq(Frame)
    BY DEF TypeOK, GoesOn
  <2>2. Len(<<f>> \o s) = Len(s) + 1 /\ Len(s) = Len(calls[t])
    BY <2>1 DEF GoesOn, Depth
  <2>3. calls'[t] = <<f>> \o s /\ (u # t => calls'[u] = calls[u])
    BY DEF TypeOK
  <2>4. QED
    BY <2>1, <2>2, <2>3 DEF Depth
<1>4. k \in 1 .. Depth(u)
  BY <1>1, <1>2, <1>3
<1>5. At(u, k)'.name = At(u, k).name /\ At(u, k).name \in Name
  BY <1>1, <1>4, PlaceTyped DEF Frame
<1>6. CASE k < Depth(u)
  BY <1>4, <1>5, <1>6 DEF OuterSound
<1>7. CASE u = t /\ k = Depth(t)
  <2>1. Inside(t)
    BY <1>4, <1>7, EmptyDepth DEF Inside
  <2>2. Top(t) = At(t, k)
    BY <1>7, <2>1, TopIsLast
  <2>3. QED
    BY <1>5, <1>7, <2>1, <2>2 DEF Loading
<1>8. QED
  BY <1>2, <1>3, <1>4, <1>6, <1>7

LEMMA EndOuter ==
    ASSUME TypeOK, OuterSound, NEW t \in Thread, Inside(t),
           calls' = [calls EXCEPT ![t] = Tail(@)], UNCHANGED status
    PROVE  OuterSound'
<1>1. \A u \in Thread : \A k \in 1 .. Depth(u)' :
            k \in 1 .. Depth(u) /\ At(u, k)' = At(u, k)
  BY EndCalls
<1>2. SUFFICES ASSUME NEW u \in Thread, NEW k \in 1 .. Depth(u)', k < Depth(u)'
               PROVE  status[At(u, k)'.name] = "Enqueuing"
  BY DEF OuterSound
<1>3. Depth(u) \in Nat /\ Depth(u)' <= Depth(u) /\ Depth(u)' \in Nat
  <2>1. calls[u] \in Seq(Frame) /\ calls'[u] \in Seq(Frame)
    BY EndCalls DEF TypeOK
  <2>2. Depth(u) \in Nat /\ Depth(u)' \in Nat
    BY <2>1 DEF Depth
  <2>3. Depth(u)' = 0 \/ Depth(u)' \in 1 .. Depth(u)'
    BY <2>2
  <2>4. QED
    BY <1>1, <2>2, <2>3
<1>4. k \in 1 .. Depth(u) /\ At(u, k)' = At(u, k) /\ k < Depth(u)
  BY <1>1, <1>2, <1>3
<1>5. QED
  BY <1>4 DEF OuterSound

\* Only the innermost call of a thread may end its load().
LEMMA StillOuter ==
    ASSUME TypeOK, Alone, OuterSound, UNCHANGED calls,
           \A x \in Name : InCall(x) /\ status[x] = "Enqueuing" =>
              \/ status'[x] = "Enqueuing"
              \/ \E t \in Thread : Inside(t) /\ Top(t).name = x
    PROVE  OuterSound'
<1>1. /\ \A u : Depth(u)' = Depth(u)
      /\ \A u, k : At(u, k)' = At(u, k)
  BY DEF At, Depth
<1>2. SUFFICES ASSUME NEW u \in Thread, NEW k \in 1 .. Depth(u), k < Depth(u)
               PROVE  status'[At(u, k).name] = "Enqueuing"
  BY <1>1 DEF OuterSound
<1> DEFINE x == At(u, k).name
<1>3. x \in Name /\ InCall(x) /\ status[x] = "Enqueuing"
  BY <1>2, PlaceTyped DEF Frame, InCall, OuterSound
<1>4. ASSUME NEW t \in Thread, Inside(t), Top(t).name = x
      PROVE  FALSE
  <2>1. Top(t) = At(t, Depth(t)) /\ Depth(t) \in 1 .. Depth(t)
    BY <1>4, TopIsLast
  <2>2. u = t /\ k = Depth(t)
    BY <1>4, <2>1 DEF Alone
  <2>3. QED
    BY <1>2, <2>1, <2>2
<1>5. QED
  BY <1>3, <1>4

\* What a call asks for it needs.
LEMMA TopNeeds ==
    ASSUME TypeOK, CallsSound, NEW t \in Thread, Inside(t), NEW n \in Top(t).rest
    PROVE  n \in Name /\ n \in Needs[Top(t).name]
<1>1. /\ Depth(t) \in 1 .. Depth(t) /\ Top(t) = At(t, Depth(t))
      /\ Top(t) \in Frame
  BY TopIsLast
<1>2. QED
  BY <1>1 DEF CallsSound, Frame

\* A call made by another gives it something it needs.
LEMMA OuterCall ==
    ASSUME ContainerInv, NEW t \in Thread, Inside(t), Tail(calls[t]) # <<>>
    PROVE  LET p == Head(Tail(calls[t])).name
           IN  /\ p \in Name /\ InCall(p) /\ status[p] = "Enqueuing"
               /\ Top(t).name \in Needs[p]
<1> USE DEF ContainerInv
<1> DEFINE outer == Tail(calls[t])
<1>1. /\ calls[t] \in Seq(Frame) /\ Depth(t) \in Nat \ {0}
      /\ Top(t) = At(t, Depth(t)) /\ Top(t) \in Frame
  BY TopIsLast
<1>2. Depth(t) = Len(calls[t]) /\ Len(calls[t]) > 1 /\ Head(outer) = calls[t][2]
  BY <1>1 DEF Depth
<1> DEFINE k == Depth(t) - 1
<1>3. k \in 1 .. Depth(t) /\ Depth(t) + 1 - k = 2 /\ k + 1 = Depth(t) /\ k < Depth(t)
  BY <1>1, <1>2
<1>4. Head(outer) = At(t, k)
  BY <1>2, <1>3 DEF At
<1> HIDE DEF k, outer
<1>5. At(t, k).name \in Name /\ InCall(At(t, k).name)
  BY <1>3, PlaceTyped DEF Frame, InCall
<1>6. status[At(t, k).name] = "Enqueuing"
  BY <1>3 DEF OuterSound
<1>7. Top(t).name \in Needs[At(t, k).name]
  BY <1>1, <1>3 DEF CallsSound
<1>8. QED
  BY <1>4, <1>5, <1>6, <1>7 DEF outer

LEMMA FindSound ==
    ASSUME ContainerInv, NEW t \in Thread, NEW n \in Name, NEW sync \in BOOLEAN,
           NEW s, GoesOn(t, s), Find(t, n, sync, s),
           Inside(t) => Loading(t) /\ n \in Top(t).rest
    PROVE  /\ Alone' /\ CallsSound' /\ OuterSound'
           /\ \A x \in Name : LoadSound(x)' /\ (Stored(x) => Stored(x)')
           /\ \A x \in Name : Stored(x) => status'[x] = status[x]
           /\ Stored(n)' /\ (~ Stored(n) => status'[n] # "Loaded")
           /\ \A x \in Name : ~ Stored(x) => x = n \/ status'[x] = status[x]
<1> USE DEF ContainerInv
<1>1. CASE FoundKnown(t, n, s)
  <2>1. Alone' /\ CallsSound' /\ \A x : InCall(x)' <=> InCall(x)
    BY <1>1, GoOnStep DEF FoundKnown
  <2>2. OuterSound'
    BY <1>1, GoOnOuter DEF FoundKnown
  <2>3. QED
    BY <1>1, <2>1, <2>2 DEF FoundKnown, LoadSound, Stored
<1>2. CASE FoundByCaller(t, n, s)
  <2> DEFINE f == [name |-> n, rest |-> Needs[n], locked |-> TRUE]
  <2>1. /\ loads[n] = 0 /\ ~ InCall(n) /\ n \notin queue /\ n \notin external
    BY <1>2 DEF FoundByCaller, LoadSound, Stored
  <2>2. f \in Frame /\ f.name = n /\ f.rest \subseteq Needs[n]
    BY NewCall
  <2>3. calls' = [calls EXCEPT ![t] = <<f>> \o s]
    BY <1>2 DEF FoundByCaller
  <2>3a. Inside(t) => n \in Needs[Top(t).name]
    BY TopNeeds
  <2>3b. \A x \in Name : status[x] = "Enqueuing" => status'[x] = "Enqueuing"
    BY <1>2 DEF FoundByCaller, Stored, TypeOK
  <2> HIDE DEF f
  <2>4. Alone' /\ CallsSound' /\ \A x : InCall(x)' <=> (InCall(x) \/ x = n)
    BY <2>1, <2>2, <2>3, <2>3a, BeginStep
  <2>4a. OuterSound'
    BY <2>2, <2>3, <2>3b, BeginOuter
  <2>5. \A x \in Name : x # n => status'[x] = status[x] /\ loads'[x] = loads[x]
    BY <1>2 DEF FoundByCaller, TypeOK
  <2>6. status'[n] = "Enqueuing" /\ loads'[n] = 1 /\ UNCHANGED <<queue, external>>
    BY <1>2, <2>1 DEF FoundByCaller, TypeOK
  <2>7. QED
    BY <1>2, <2>1, <2>4, <2>4a, <2>5, <2>6 DEF FoundByCaller, LoadSound, Stored
<1>3. CASE FoundQueued(t, n, s)
  <2>1. loads[n] = 0 /\ ~ InCall(n) /\ n \notin external
    BY <1>3 DEF FoundQueued, LoadSound, Stored
  <2>2. Alone' /\ CallsSound' /\ \A x : InCall(x)' <=> InCall(x)
    BY <1>3, GoOnStep DEF FoundQueued
  <2>3. /\ \A x \in Name : x # n => status'[x] = status[x]
        /\ status'[n] \in {"Enqueuing", "Unloaded"}
        /\ queue' = queue \union {n} /\ UNCHANGED <<loads, external>>
    BY <1>3 DEF FoundQueued, TypeOK
  <2>4. OuterSound'
    BY <1>3, <2>3, GoOnOuter DEF FoundQueued, Stored
  <2>5. QED
    BY <1>3, <2>1, <2>2, <2>3, <2>4 DEF FoundQueued, LoadSound, Stored
<1>4. CASE FoundAway(t, n, s)
  <2>1. loads[n] = 0 /\ ~ InCall(n) /\ n \notin queue
    BY <1>4 DEF FoundAway, LoadSound, Stored
  <2>2. Alone' /\ CallsSound' /\ \A x : InCall(x)' <=> InCall(x)
    BY <1>4, GoOnStep DEF FoundAway
  <2>3. /\ \A x \in Name : x # n => status'[x] = status[x]
        /\ status'[n] = "Unloaded"
        /\ external' \subseteq external \union {n} /\ UNCHANGED <<loads, queue>>
    BY <1>4 DEF FoundAway, TypeOK
  <2>4. OuterSound'
    BY <1>4, <2>3, GoOnOuter DEF FoundAway, Stored
  <2>5. QED
    BY <1>4, <2>1, <2>2, <2>3, <2>4 DEF FoundAway, LoadSound, Stored
<1>5. QED
  BY <1>1, <1>2, <1>3, <1>4, FindCases

\* What is kept where nothing is dropped.
LEMMA UsesKept ==
    ASSUME ContainerInv, \A x \in Name : Stored(x) => Stored(x)', UNCHANGED uses
    PROVE  \A n \in Name : UsesSound(n)'
BY DEF ContainerInv, UsesSound, TypeOK

LEMMA HeldKept ==
    ASSUME ContainerInv, \A x \in Name : Stored(x) => Stored(x)',
           \A c \in Client : held'[c] \subseteq held[c]
    PROVE  HeldSound'
BY DEF ContainerInv, HeldSound, TypeOK

\* What has ended stays so, and nothing else is loaded.
StatusKept ==
    \A x \in Name : /\ Ended(x) => status'[x] = status[x]
                    /\ ~ Ended(x) => status'[x] # "Loaded"

LEMMA LinksKept ==
    ASSUME ContainerInv, UNCHANGED links, StatusKept
    PROVE  \A n \in Name : LinksSound(n)'
<1> SUFFICES ASSUME NEW n \in Name
             PROVE  LinksSound(n)'
  OBVIOUS
<1>1. uses' = uses /\ parents' = parents /\ late' = late /\ created' = created
  BY DEF links
<1>2. LinksSound(n) /\ (Ended(n) => status'[n] = status[n])
      /\ (~ Ended(n) => status'[n] # "Loaded")
  BY DEF ContainerInv, StatusKept
<1>3. (Ended(n) => Ended(n)') /\ (status[n] # "Loaded" => status'[n] # "Loaded")
      /\ (status'[n] = "Loaded" => status[n] = "Loaded")
  BY <1>2 DEF Ended
<1>4. \A p \in parents'[n] : n \in uses'[p] /\ status'[n] # "Loaded"
  BY <1>1, <1>2, <1>3 DEF LinksSound
<1>5. \A x \in uses'[n] : n \in parents'[x] \/ x \in created'
  BY <1>1, <1>2 DEF LinksSound
<1>6. /\ n \in created' => uses'[n] \subseteq created' /\ Ended(n)'
      /\ status'[n] = "Loaded" => n \in created'
      /\ late'[n] > 0 => uses'[n] \subseteq created' /\ Ended(n)'
  BY <1>1, <1>2, <1>3 DEF LinksSound
<1>7. QED
  BY <1>4, <1>5, <1>6 DEF LinksSound

LEMMA LinksDepend ==
    ASSUME ContainerInv, NEW p \in Name, NEW n \in Name, Depend(p, n), StatusKept,
           status[p] = "Enqueuing"
    PROVE  \A x \in Name : LinksSound(x)'
<1> USE DEF ContainerInv
<1>1. /\ \A x \in Name : x # p => uses'[x] = uses[x]
      /\ uses'[p] = uses[p] \union {n}
      /\ UNCHANGED <<late, created>>
  BY DEF Depend, TypeOK
<1>2. /\ \A x \in Name : x # n => parents'[x] = parents[x]
      /\ status[n] = "Loaded" => parents'[n] = parents[n]
      /\ status[n] # "Loaded" => parents'[n] = parents[n] \union {p}
  BY DEF Depend, TypeOK
<1>3. ~ Ended(p) /\ p \notin created /\ ~ (late[p] > 0)
  BY DEF Ended, LinksSound
<1>4. SUFFICES ASSUME NEW x \in Name
               PROVE  LinksSound(x)'
  OBVIOUS
<1>5. \A y \in parents'[x] : x \in uses'[y] /\ status'[x] # "Loaded"
  <2> SUFFICES ASSUME NEW y \in parents'[x]
               PROVE  x \in uses'[y] /\ status'[x] # "Loaded"
    OBVIOUS
  <2>1. CASE y \in parents[x]
    <3>1. y \in Name /\ x \in uses[y] /\ status[x] # "Loaded"
      BY <2>1 DEF LinksSound, TypeOK
    <3>2. x \in uses'[y]
      BY <1>1, <3>1
    <3>3. status'[x] # "Loaded"
      BY <3>1 DEF StatusKept, Ended
    <3>4. QED
      BY <3>2, <3>3
  <2>2. CASE y \notin parents[x]
    <3>1. x = n /\ y = p /\ status[n] # "Loaded"
      BY <1>2, <2>2
    <3>2. QED
      BY <1>1, <3>1 DEF StatusKept, Ended
  <2>3. QED
    BY <2>1, <2>2
<1>6. \A y \in uses'[x] : x \in parents'[y] \/ y \in created'
  <2> SUFFICES ASSUME NEW y \in uses'[x]
               PROVE  x \in parents'[y] \/ y \in created
    BY <1>1
  <2>1. CASE y \in uses[x]
    <3>1. y \in Name /\ (x \in parents[y] \/ y \in created)
      BY <2>1 DEF LinksSound, TypeOK
    <3>2. QED
      BY <1>2, <3>1
  <2>2. CASE y \notin uses[x]
    <3>1. x = p /\ y = n
      BY <1>1, <2>2
    <3>2. status[n] = "Loaded" => n \in created
      BY DEF LinksSound
    <3>3. QED
      BY <1>2, <3>1, <3>2
  <2>3. QED
    BY <2>1, <2>2
<1>7. (x \in created => uses[x] \subseteq created /\ Ended(x))
      /\ (status[x] = "Loaded" => x \in created)
      /\ (late[x] > 0 => uses[x] \subseteq created /\ Ended(x))
  BY DEF LinksSound
<1>8. (x \in created' => uses'[x] \subseteq created' /\ Ended(x)')
      /\ (status'[x] = "Loaded" => x \in created')
      /\ (late'[x] > 0 => uses'[x] \subseteq created' /\ Ended(x)')
  BY <1>1, <1>3, <1>7 DEF StatusKept, Ended
<1>9. QED
  BY <1>5, <1>6, <1>8 DEF LinksSound

LEMMA LinksOutcome ==
    ASSUME ContainerInv, NEW n \in Name, NEW success \in BOOLEAN, Outcome(n, success),
           uses[n] \subseteq created, \A x \in Name : x # n => late'[x] = late[x]
    PROVE  \A x \in Name : LinksSound(x)'
<1> USE DEF ContainerInv
<1>1. /\ uses' = uses /\ created \subseteq created' /\ created' \subseteq created \union {n}
      /\ \A x \in Name : x # n => status'[x] = status[x] /\ parents'[x] = parents[x]
      /\ status'[n] \in {"Loaded", "Failed"} /\ parents'[n] \subseteq parents[n]
      /\ status'[n] = "Loaded" => parents'[n] = {} /\ n \in created'
      /\ status'[n] = "Failed" => parents'[n] = parents[n]
  BY DEF Outcome, TypeOK
<1>2. SUFFICES ASSUME NEW x \in Name
               PROVE  LinksSound(x)'
  OBVIOUS
<1>3. \A y \in parents'[x] : x \in uses'[y] /\ status'[x] # "Loaded"
  BY <1>1 DEF LinksSound
<1>4. \A y \in uses'[x] : x \in parents'[y] \/ y \in created'
  <2> SUFFICES ASSUME NEW y \in uses[x]
               PROVE  x \in parents'[y] \/ y \in created'
    BY <1>1
  <2>1. y \in Name /\ (x \in parents[y] \/ y \in created)
    BY DEF LinksSound, TypeOK
  <2>2. QED
    BY <1>1, <2>1
<1>5. (x \in created' => uses'[x] \subseteq created' /\ Ended(x)')
      /\ (status'[x] = "Loaded" => x \in created')
      /\ (late'[x] > 0 => uses'[x] \subseteq created' /\ Ended(x)')
  <2>1. CASE x = n
    BY <1>1, <2>1 DEF Ended
  <2>2. CASE x # n
    <3>1. (x \in created => uses[x] \subseteq created /\ Ended(x))
          /\ (status[x] = "Loaded" => x \in created)
          /\ (late[x] > 0 => uses[x] \subseteq created /\ Ended(x))
      BY DEF LinksSound
    <3>2. QED
      BY <1>1, <2>2, <3>1 DEF Ended
  <2>3. QED
    BY <2>1, <2>2
<1>6. QED
  BY <1>3, <1>4, <1>5 DEF LinksSound

\* Nothing is left to wait for once all that is used was loaded.
LEMMA WokenUses ==
    ASSUME ContainerInv, NEW n \in Name, Waking(n) \/ late[n] > 0
    PROVE  uses[n] \subseteq created
BY DEF ContainerInv, LinksSound, Waking, TypeOK

\* The resource whose load() runs.
LEMMA LoadingSound ==
    ASSUME ContainerInv, NEW t \in Thread, Loading(t)
    PROVE  /\ Top(t) \in Frame /\ Top(t).name \in Name
           /\ InCall(Top(t).name) /\ status[Top(t).name] = "Enqueuing"
           /\ loads[Top(t).name] = 1
           /\ Top(t).name \notin queue /\ Top(t).name \notin external
<1> USE DEF ContainerInv
<1>1. /\ Depth(t) \in 1 .. Depth(t) /\ Top(t) = At(t, Depth(t)) /\ Top(t) \in Frame
      /\ status[Top(t).name] = "Enqueuing"
  BY TopIsLast DEF Loading
<1>2. Top(t).name \in Name /\ InCall(Top(t).name)
  BY <1>1 DEF Frame, InCall
<1>3. QED
  BY <1>1, <1>2 DEF LoadSound

\* load() ends with status x.
LEMMA EndSound ==
    ASSUME ContainerInv, NEW t \in Thread, Loading(t),
           NEW x \in {"Loading", "Failed"},
           status' = [status EXCEPT ![Top(t).name] = x],
           UNCHANGED <<queue, external, calls, loads>>
    PROVE  /\ Alone' /\ CallsSound' /\ OuterSound' /\ StatusKept
           /\ \A y \in Name : LoadSound(y)' /\ (Stored(y) => Stored(y)')
<1> USE DEF ContainerInv
<1> DEFINE m == Top(t).name
<1>1. /\ \A u : Depth(u)' = Depth(u)
      /\ \A u, k : At(u, k)' = At(u, k)
  BY DEF At, Depth
<1>2. /\ m \in Name /\ InCall(m) /\ status[m] = "Enqueuing" /\ loads[m] = 1
      /\ m \notin queue /\ m \notin external
  BY LoadingSound
<1>3. /\ \A y \in Name : y # m => status'[y] = status[y]
      /\ status'[m] = x
  BY <1>2 DEF TypeOK
<1>4. OuterSound'
  <2>1. \A y \in Name : status'[y] = status[y] \/ (Inside(t) /\ Top(t).name = y)
    BY <1>3 DEF Loading
  <2>2. QED
    BY <2>1, StillOuter
<1> HIDE DEF m
<1>5. Alone' /\ CallsSound' /\ \A y : InCall(y)' <=> InCall(y)
  <2>1. Alone'
    BY <1>1 DEF Alone
  <2>2. CallsSound'
    BY <1>1 DEF CallsSound
  <2>3. QED
    BY <1>1, <2>1, <2>2 DEF InCall
<1>6. QED
  BY <1>2, <1>3, <1>4, <1>5 DEF LoadSound, Stored, StatusKept, Ended

\* What a request makes of the statuses.
LEMMA FoundStatus ==
    ASSUME NEW n \in Name,
           \A x \in Name : Stored(x) => status'[x] = status[x],
           \A x \in Name : ~ Stored(x) => x = n \/ status'[x] = status[x],
           ~ Stored(n) => status'[n] # "Loaded"
    PROVE  StatusKept
BY DEF StatusKept, Ended, Stored

LEMMA UsesDepend ==
    ASSUME ContainerInv, NEW p \in Name, NEW n \in Name,
           Depend(p, n) \/ UNCHANGED links,
           n \in Needs[p], Stored(p), Stored(n)',
           \A x \in Name : Stored(x) => Stored(x)'
    PROVE  \A y \in Name : UsesSound(y)'
<1> USE DEF ContainerInv
<1> SUFFICES ASSUME NEW y \in Name
             PROVE  UsesSound(y)'
  OBVIOUS
<1>1. uses'[y] = uses[y] \/ (y = p /\ uses'[y] = uses[y] \union {n})
  BY DEF Depend, links, TypeOK
<1>2. /\ uses[y] \subseteq Needs[y]
      /\ uses[y] # {} => Stored(y)'
      /\ \A x \in uses[y] : Stored(x)'
  BY DEF UsesSound, TypeOK
<1>3. QED
  BY <1>1, <1>2 DEF UsesSound

LEMMA ContainerStep == ContainerInv /\ [Next]_vars => ContainerInv'
<1> SUFFICES ASSUME ContainerInv, [Next]_vars
             PROVE  ContainerInv'
  OBVIOUS
<1> USE DEF ContainerInv
<1>a. TypeOK'
  BY TypeStep
<1>b. ASSUME UNCHANGED calls,
             \A x \in Name : InCall(x) /\ status[x] = "Enqueuing" => status'[x] = "Enqueuing"
      PROVE  /\ Alone' /\ CallsSound' /\ OuterSound'
             /\ \A x : InCall(x)' <=> InCall(x)
  <2>1. /\ \A t : Depth(t)' = Depth(t)
        /\ \A t, k : At(t, k)' = At(t, k)
    BY <1>b DEF At, Depth
  <2>2. Alone'
    BY <2>1 DEF Alone
  <2>3. CallsSound'
    BY <2>1 DEF CallsSound
  <2>4. OuterSound'
    BY <1>b, StillOuter
  <2>5. QED
    BY <2>1, <2>2, <2>3, <2>4 DEF InCall
<1>1. ASSUME NEW t \in Client, NEW n \in Name, NEW sync \in BOOLEAN, Request(t, n, sync)
      PROVE  ContainerInv'
  <2>1. /\ GoesOn(t, <<>>) /\ Find(t, n, sync, <<>>) /\ ~ Inside(t)
        /\ UNCHANGED links
    BY <1>1, EmptyCalls DEF Request, Thread, Inside
  <2>2. /\ Alone' /\ CallsSound' /\ OuterSound' /\ Stored(n)'
        /\ \A x \in Name : LoadSound(x)' /\ (Stored(x) => Stored(x)')
        /\ StatusKept
    BY <2>1, FindSound, FoundStatus DEF Thread
  <2>3. \A x \in Name : UsesSound(x)' /\ LinksSound(x)'
    BY <2>1, <2>2, UsesKept, LinksKept DEF links
  <2>4. \A c \in Client : held'[c] \subseteq held[c] \union {n}
    BY <1>1 DEF Request, TypeOK
  <2>5. HeldSound'
    BY <2>2, <2>4 DEF HeldSound, TypeOK
  <2>6. QED
    BY <1>a, <2>2, <2>3, <2>5
<1>2. ASSUME NEW t \in Client, NEW n \in Name, Release(t, n)
      PROVE  ContainerInv'
  <2>1. UNCHANGED <<status, links, queue, external, loads, calls>>
    BY <1>2 DEF Release
  <2>2. Alone' /\ CallsSound' /\ OuterSound' /\ \A x : InCall(x)' <=> InCall(x)
    BY <1>b, <2>1
  <2>3. \A x \in Name : LoadSound(x)' /\ (Stored(x) => Stored(x)')
    BY <2>1, <2>2 DEF LoadSound, Stored
  <2>4. \A x \in Name : UsesSound(x)' /\ LinksSound(x)'
    BY <2>1, <2>3, UsesKept, LinksKept DEF links, StatusKept, Ended
  <2>5. \A c \in Client : held'[c] \subseteq held[c]
    BY <1>2 DEF Release, TypeOK
  <2>6. QED
    BY <1>a, <2>2, <2>3, <2>4, <2>5, HeldKept
<1>3. ASSUME NEW t \in Thread, NEW n \in Name, NEW sync \in BOOLEAN, Subrequest(t, n, sync)
      PROVE  ContainerInv'
  <2> DEFINE s == <<[Top(t) EXCEPT !.rest = @ \ {n}]>> \o Tail(calls[t])
             m == Top(t).name
  <2>1. /\ Loading(t) /\ Inside(t) /\ n \in Top(t).rest
        /\ Depend(m, n) \/ UNCHANGED links
        /\ UNCHANGED held
    BY <1>3 DEF Subrequest, Loading
  <2>2. GoesOn(t, s) /\ Find(t, n, sync, s)
    BY <1>3, <2>1, AskedCalls DEF Subrequest
  <2> HIDE DEF s
  <2>3. /\ Alone' /\ CallsSound' /\ OuterSound' /\ Stored(n)'
        /\ \A x \in Name : LoadSound(x)' /\ (Stored(x) => Stored(x)')
        /\ StatusKept
    BY <2>1, <2>2, FindSound, FoundStatus
  <2>4. m \in Name /\ n \in Needs[m] /\ status[m] = "Enqueuing"
    BY <2>1, TopNeeds, LoadingSound
  <2> HIDE DEF m
  <2>5. \A y \in Name : UsesSound(y)'
    BY <2>1, <2>3, <2>4, UsesDepend DEF Stored
  <2>6. \A y \in Name : LinksSound(y)'
    BY <2>1, <2>3, <2>4, LinksDepend, LinksKept
  <2>7. HeldSound'
    BY <2>1, <2>3, HeldKept
  <2>8. QED
    BY <1>a, <2>3, <2>5, <2>6, <2>7
<1>4. ASSUME NEW t \in Thread, NEW n \in Name, SubrequestRefused(t, n)
      PROVE  ContainerInv'
  <2> DEFINE m == Top(t).name
  <2>1. ~ Stored(n) /\ loads[n] = 0 /\ n \notin queue /\ ~ InCall(n)
    BY <1>4 DEF SubrequestRefused, Refused, Known, Stored, LoadSound
  <2>2. /\ m \in Name /\ InCall(m) /\ status[m] = "Enqueuing" /\ loads[m] = 1
        /\ m \notin queue /\ m \notin external /\ Inside(t)
    BY <1>4, LoadingSound DEF SubrequestRefused, Loading
  <2>3. /\ m # n /\ status' = [status EXCEPT ![n] = "Unloaded", ![m] = "Failed"]
        /\ UNCHANGED <<links, held, queue, external, calls, loads>>
    BY <1>4, <2>1, <2>2 DEF SubrequestRefused
  <2>4. /\ status'[n] = "Unloaded" /\ status'[m] = "Failed"
        /\ \A y \in Name : y # n /\ y # m => status'[y] = status[y]
    BY <2>2, <2>3 DEF TypeOK
  <2>5. /\ \A y \in Name : y # n => status'[y] = status[y] \/ Top(t).name = y
        /\ status[n] = "None"
    BY <2>1, <2>4 DEF Stored
  <2> HIDE DEF m
  <2>6. /\ \A u : Depth(u)' = Depth(u)
        /\ \A u, k : At(u, k)' = At(u, k)
    BY <2>3 DEF At, Depth
  <2>7. OuterSound'
    BY <2>2, <2>3, <2>5, StillOuter
  <2>8. Alone' /\ CallsSound' /\ \A x : InCall(x)' <=> InCall(x)
    <3>1. Alone'
      BY <2>6 DEF Alone
    <3>2. CallsSound'
      BY <2>6 DEF CallsSound
    <3>3. QED
      BY <2>6, <3>1, <3>2 DEF InCall
  <2>9. \A y \in Name : LoadSound(y)' /\ (Stored(y) => Stored(y)')
    BY <2>1, <2>2, <2>3, <2>4, <2>8 DEF LoadSound, Stored
  <2>10. StatusKept
    BY <2>2, <2>4, <2>5 DEF StatusKept, Ended
  <2>11. (\A y \in Name : UsesSound(y)' /\ LinksSound(y)') /\ HeldSound'
    BY <2>3, <2>9, <2>10, UsesKept, HeldKept, LinksKept DEF links
  <2>12. QED
    BY <1>a, <2>7, <2>8, <2>9, <2>11
<1>5. ASSUME NEW t \in Worker, NEW n \in Name, StartTask(t, n)
      PROVE  ContainerInv'
  <2> DEFINE f == [name |-> n, rest |-> Needs[n], locked |-> FALSE]
  <2>1. /\ loads[n] = 0 /\ ~ InCall(n) /\ n \in queue /\ Stored(n)
        /\ status[n] \in {"Unloaded", "Enqueuing"}
    BY <1>5 DEF StartTask, LoadSound, Stored
  <2>2. f \in Frame /\ f.name = n /\ f.rest \subseteq Needs[n]
    BY NewCall
  <2>3. GoesOn(t, <<>>) /\ ~ Inside(t) /\ t \in Thread
    BY <1>5, EmptyCalls DEF StartTask, Thread, Inside
  <2>4. calls' = [calls EXCEPT ![t] = <<f>> \o <<>>]
    BY <1>5, <2>2 DEF StartTask
  <2> HIDE DEF f
  <2>5. Alone' /\ CallsSound' /\ \A x : InCall(x)' <=> (InCall(x) \/ x = n)
    BY <2>1, <2>2, <2>3, <2>4, BeginStep
  <2>6. /\ \A x \in Name : x # n => status'[x] = status[x] /\ loads'[x] = loads[x]
        /\ status'[n] = "Enqueuing" /\ loads'[n] = 1
        /\ queue' = queue \ {n} /\ UNCHANGED <<links, held, external>>
    BY <1>5, <2>1 DEF StartTask, TypeOK
  <2>7. n \notin external
    BY <2>1 DEF LoadSound
  <2>8. \A y \in Name : LoadSound(y)' /\ (Stored(y) => Stored(y)')
    BY <2>1, <2>5, <2>6, <2>7 DEF LoadSound, Stored
  <2>9. \A x \in Name : status[x] = "Enqueuing" => status'[x] = "Enqueuing"
    BY <2>6
  <2>10. OuterSound'
    BY <2>2, <2>3, <2>4, <2>9, BeginOuter
  <2>11. StatusKept
    BY <2>1, <2>6 DEF StatusKept, Ended
  <2>12. (\A y \in Name : UsesSound(y)' /\ LinksSound(y)') /\ HeldSound'
    BY <2>6, <2>8, <2>11, UsesKept, HeldKept, LinksKept DEF links
  <2>13. QED
    BY <1>a, <2>5, <2>8, <2>10, <2>12
<1>6. ASSUME NEW t \in Thread, EndLoad(t) \/ FailLoad(t)
      PROVE  ContainerInv'
  <2>1. /\ Loading(t) /\ UNCHANGED <<links, held, queue, external, calls, loads>>
        /\ \E x \in {"Loading", "Failed"} : status' = [status EXCEPT ![Top(t).name] = x]
    BY <1>6 DEF EndLoad, FailLoad
  <2>2. /\ Alone' /\ CallsSound' /\ OuterSound' /\ StatusKept
        /\ \A y \in Name : LoadSound(y)' /\ (Stored(y) => Stored(y)')
    BY <2>1, EndSound
  <2>3. (\A y \in Name : UsesSound(y)' /\ LinksSound(y)') /\ HeldSound'
    BY <2>1, <2>2, UsesKept, HeldKept, LinksKept DEF links
  <2>4. QED
    BY <1>a, <2>2, <2>3
<1>7. ASSUME NEW t \in Thread, Return(t)
      PROVE  ContainerInv'
  <2>0. PICK n \in Name : n = Top(t).name
    BY <1>7, TopIsLast DEF Return, Frame
  <2> DEFINE outer == Tail(calls[t])
  <2>1. /\ Inside(t) /\ ~ Loading(t) /\ calls' = [calls EXCEPT ![t] = Tail(@)]
        /\ \A c \in Client : held'[c] \subseteq held[c] \union {n}
        /\ (outer # <<>> /\ Depend(Head(outer).name, n)) \/ UNCHANGED links
        /\ UNCHANGED <<status, queue, external, loads>>
    BY <1>7, <2>0 DEF Return
  <2>2. /\ Alone' /\ CallsSound'
        /\ \A x : InCall(x)' <=> (InCall(x) /\ x # n)
        /\ InCall(n)
    BY <2>0, <2>1, EndStep
  <2>3. OuterSound'
    BY <2>1, EndOuter
  <2>4. status[n] # "Enqueuing" /\ Stored(n)
    BY <2>0, <2>1, <2>2 DEF Loading, LoadSound, Stored
  <2>5. CASE UNCHANGED links
    <3>1. \A x \in Name : LoadSound(x)' /\ (Stored(x) => Stored(x)')
      BY <2>1, <2>2, <2>4 DEF LoadSound, Stored
    <3>2. StatusKept
      BY <2>1 DEF StatusKept, Ended
    <3>3. \A y \in Name : UsesSound(y)' /\ LinksSound(y)'
      BY <2>5, <3>1, <3>2, UsesKept, LinksKept DEF links
    <3>4. HeldSound'
      BY <2>1, <2>4, <3>1 DEF HeldSound, TypeOK
    <3>5. QED
      BY <1>a, <2>2, <2>3, <3>1, <3>3, <3>4
  <2>6. CASE outer # <<>> /\ Depend(Head(outer).name, n)
    <3>1. PICK p \in Name : p = Head(outer).name /\ status[p] = "Enqueuing" /\ n \in Needs[p]
      BY <2>0, <2>1, <2>6, OuterCall
    <3>2. \A x \in Name : LoadSound(x)' /\ (Stored(x) => Stored(x)')
      BY <2>1, <2>2, <2>4 DEF LoadSound, Stored
    <3>3. StatusKept /\ Stored(p)
      BY <2>1, <3>1 DEF StatusKept, Ended, Stored
    <3>4. Depend(p, n)
      BY <2>6, <3>1
    <3>5. \A y \in Name : UsesSound(y)'
      BY <2>4, <3>1, <3>2, <3>3, <3>4, UsesDepend
    <3>6. \A y \in Name : LinksSound(y)'
      BY <3>1, <3>3, <3>4, LinksDepend
    <3>7. HeldSound'
      BY <2>1, <2>4, <3>2 DEF HeldSound, TypeOK
    <3>8. QED
      BY <1>a, <2>2, <2>3, <3>2, <3>5, <3>6, <3>7
  <2>7. QED
    BY <2>1, <2>5, <2>6
<1>8. ASSUME NEW n \in Name, NEW success \in BOOLEAN,
             Settle(n, success) \/ SettleAgain(n, success)
      PROVE  ContainerInv'
  <2>1. /\ Waking(n) \/ late[n] > 0
        /\ Outcome(n, success)
        /\ \A x \in Name : x # n => late'[x] = late[x]
    BY <1>8 DEF Settle, SettleAgain, TypeOK
  <2>2. uses[n] \subseteq created
    BY <2>1, WokenUses
  <2>3. \A y \in Name : LinksSound(y)'
    BY <2>1, <2>2, LinksOutcome
  <2>4. /\ status[n] \in {"Loading", "Loaded", "Failed"}
        /\ status'[n] \in {"Loaded", "Failed"}
        /\ \A x \in Name : x # n => status'[x] = status[x]
        /\ UNCHANGED <<uses, held, queue, external, calls, loads>>
    BY <2>1 DEF Outcome, Waking, LinksSound, Ended, TypeOK
  <2>5. Alone' /\ CallsSound' /\ OuterSound' /\ \A x : InCall(x)' <=> InCall(x)
    BY <1>b, <2>4
  <2>6. \A y \in Name : LoadSound(y)' /\ (Stored(y) => Stored(y)')
    BY <2>4, <2>5 DEF LoadSound, Stored
  <2>7. (\A y \in Name : UsesSound(y)') /\ HeldSound'
    BY <2>4, <2>6, UsesKept, HeldKept
  <2>8. QED
    BY <1>a, <2>3, <2>5, <2>6, <2>7
<1>9. ASSUME NEW n \in Name, NEW done \in BOOLEAN, FileDownloaded(n, done)
      PROVE  ContainerInv'
  <2>1. /\ UNCHANGED <<status, links, held, calls, loads>>
        /\ n \in external /\ external' = external \ {n}
        /\ queue' \in {queue, queue \union {n}}
    BY <1>9 DEF FileDownloaded
  <2>2. Alone' /\ CallsSound' /\ OuterSound' /\ \A x : InCall(x)' <=> InCall(x)
    BY <1>b, <2>1
  <2>3. \A y \in Name : LoadSound(y)' /\ (Stored(y) => Stored(y)')
    BY <2>1, <2>2 DEF LoadSound, Stored
  <2>4. (\A y \in Name : UsesSound(y)' /\ LinksSound(y)') /\ HeldSound'
    BY <2>1, <2>3, UsesKept, HeldKept, LinksKept DEF links, StatusKept, Ended
  <2>5. QED
    BY <1>a, <2>2, <2>3, <2>4
<1>10. CASE BeginSweep \/ UNCHANGED vars
  <2>1. UNCHANGED <<status, links, held, queue, external, calls, loads>>
    BY <1>10 DEF BeginSweep, vars, links
  <2>2. Alone' /\ CallsSound' /\ OuterSound' /\ \A x : InCall(x)' <=> InCall(x)
    BY <1>b, <2>1
  <2>3. \A y \in Name : LoadSound(y)' /\ (Stored(y) => Stored(y)')
    BY <2>1, <2>2 DEF LoadSound, Stored
  <2>4. (\A y \in Name : UsesSound(y)' /\ LinksSound(y)') /\ HeldSound'
    BY <2>1, <2>3, UsesKept, HeldKept, LinksKept DEF links, StatusKept, Ended
  <2>5. QED
    BY <1>a, <2>2, <2>3, <2>4
<1>11. CASE SweepContainer
  <2>1. PICK E \in SUBSET Name :
          /\ Unloadable(Head(sweep.left), E)
          /\ status' = [n \in Name |-> IF n \in E THEN "None" ELSE status[n]]
          /\ uses' = [n \in Name |-> IF n \in E THEN {} ELSE uses[n]]
          /\ parents' = [n \in Name |-> IF n \in E THEN {} ELSE parents[n]]
          /\ created' = created \ E
          /\ loads' = [n \in Name |-> IF n \in E THEN 0 ELSE loads[n]]
    BY <1>11 DEF SweepContainer
  <2>2. UNCHANGED <<late, held, queue, external, calls>>
    BY <1>11 DEF SweepContainer
  <2>3. ASSUME NEW n \in E
        PROVE  /\ ~ InCall(n) /\ n \notin queue /\ n \notin external /\ ~ (late[n] > 0)
               /\ \A c \in Client : n \notin held[c]
               /\ \A p \in Name \ E : Stored(p) => n \notin uses[p] /\ n \notin parents[p]
    <3>1. ~ Anchored(n) /\ \A p \in Name \ E : Stored(p) => ~ PointsAt(p, n)
      BY <2>1 DEF Unloadable, Pinned
    <3>2. calls \in [Thread -> Seq(Frame)]
      BY DEF TypeOK
    <3>3. QED
      BY <3>1, <3>2, AnchoredAs DEF PointsAt
  <2>4. Alone' /\ CallsSound' /\ OuterSound' /\ \A x : InCall(x)' <=> InCall(x)
    BY <1>b, <2>1, <2>2, <2>3
  <2>5. \A y \in Name : LoadSound(y)'
    BY <2>1, <2>2, <2>3, <2>4 DEF LoadSound
  <2>6. ASSUME NEW y \in Name, y \notin E
        PROVE  /\ uses'[y] = uses[y] /\ parents'[y] = parents[y]
               /\ status'[y] = status[y] /\ late'[y] = late[y]
               /\ uses[y] \intersect E = {} /\ parents[y] \intersect E = {}
    <3>1. /\ uses'[y] = uses[y] /\ parents'[y] = parents[y]
          /\ status'[y] = status[y] /\ late'[y] = late[y]
      BY <2>1, <2>2, <2>6
    <3>2. uses[y] \intersect E = {}
      BY <2>3, <2>6 DEF UsesSound
    <3>3. parents[y] # {} => Stored(y)
      BY DEF LinksSound, UsesSound, TypeOK
    <3>4. parents[y] \intersect E = {}
      BY <2>3, <2>6, <3>3
    <3>5. QED
      BY <3>1, <3>2, <3>4
  <2>7. \A y \in Name : UsesSound(y)'
    <3> SUFFICES ASSUME NEW y \in Name
                 PROVE  UsesSound(y)'
      OBVIOUS
    <3>1. CASE y \in E
      BY <2>1, <3>1 DEF UsesSound
    <3>2. CASE y \notin E
      <4>1. UsesSound(y) /\ uses[y] \subseteq Name
        BY DEF TypeOK
      <4>2. \A x \in uses[y] : Stored(x)'
        BY <2>6, <3>2, <4>1 DEF UsesSound, Stored
      <4>3. QED
        BY <2>6, <3>2, <4>1, <4>2 DEF UsesSound, Stored
    <3>3. QED
      BY <3>1, <3>2
  <2>8. \A y \in Name : LinksSound(y)'
    <3> SUFFICES ASSUME NEW y \in Name
                 PROVE  LinksSound(y)'
      OBVIOUS
    <3>0. LinksSound(y) /\ uses[y] \subseteq Name /\ parents[y] \subseteq Name
      BY DEF TypeOK
    <3>1. CASE y \in E
      BY <2>1, <2>2, <2>3, <3>1 DEF LinksSound
    <3>2. CASE y \notin E
      <4>1. \A x \in parents[y] : uses'[x] = uses[x]
        BY <2>6, <3>0, <3>2
      <4>2. \A x \in uses[y] : parents'[x] = parents[x] /\ (x \in created => x \in created')
        BY <2>1, <2>6, <3>0, <3>2
      <4>3. y \in created' <=> y \in created
        BY <2>1, <3>2
      <4>4. \A x \in parents'[y] : y \in uses'[x] /\ status'[y] # "Loaded"
        BY <2>6, <3>0, <3>2, <4>1 DEF LinksSound
      <4>5. \A x \in uses'[y] : y \in parents'[x] \/ x \in created'
        BY <2>6, <3>0, <3>2, <4>2 DEF LinksSound
      <4>6. /\ y \in created' => uses'[y] \subseteq created' /\ Ended(y)'
            /\ status'[y] = "Loaded" => y \in created'
            /\ late'[y] > 0 => uses'[y] \subseteq created' /\ Ended(y)'
        BY <2>6, <3>0, <3>2, <4>2, <4>3 DEF LinksSound, Ended
      <4>7. QED
        BY <4>4, <4>5, <4>6 DEF LinksSound
    <3>3. QED
      BY <3>1, <3>2
  <2>9. HeldSound'
    <3>1. \A c \in Client : \A x \in held[c] : x \in Name \ E /\ Stored(x)'
      BY <2>1, <2>3 DEF HeldSound, Stored, TypeOK
    <3>2. QED
      BY <2>2, <3>1 DEF HeldSound
  <2>10. QED
    BY <1>a, <2>4, <2>5, <2>7, <2>8, <2>9
<1>12. QED
  BY <1>1, <1>2, <1>3, <1>4, <1>5, <1>6, <1>7, <1>8, <1>9, <1>10, <1>11 DEF Next

\* However requests, downloads and sweeps interleave, load() is called at most
\* once on a resource, and never while its task or its download is awaited.
THEOREM OneLoad == Spec => []OneLoader
<1>1. ContainerInv => OneLoader
  <2> SUFFICES ASSUME ContainerInv, NEW n \in Name
               PROVE  loads[n] + Cardinality({n} \intersect queue)
                               + Cardinality({n} \intersect external) <= 1
    BY DEF OneLoader
  <2>1. Cardinality({n}) = 1 /\ Cardinality({}) = 0
    BY FS_Singleton, FS_EmptySet
  <2>2. {n} \intersect queue \in {{}, {n}} /\ {n} \intersect external \in {{}, {n}}
    OBVIOUS
  <2>3. LoadSound(n) /\ n \in Name
    BY DEF ContainerInv
  <2>4. CASE n \in queue
    <3>1. {n} \intersect queue = {n} /\ {n} \intersect external = {} /\ loads[n] = 0
      BY <2>3, <2>4 DEF LoadSound
    <3>2. QED
      BY <2>1, <3>1
  <2>5. CASE n \in external
    <3>1. {n} \intersect queue = {} /\ {n} \intersect external = {n} /\ loads[n] = 0
      BY <2>3, <2>5 DEF LoadSound
    <3>2. QED
      BY <2>1, <3>1
  <2>6. CASE n \notin queue /\ n \notin external
    <3>1. {n} \intersect queue = {} /\ {n} \intersect external = {} /\ loads[n] \in {0, 1}
      BY <2>3, <2>6 DEF LoadSound
    <3>2. QED
      BY <2>1, <3>1
  <2>7. QED
    BY <2>4, <2>5, <2>6
<1>2. QED
  BY <1>1, ContainerInit, ContainerStep, PTL DEF Spec

\* Whatever a client, a resource, a task, a download or a call of load() points
\* at, no sweep has dropped: the next request for the name finds it.
THEOREM PointedStored == Spec => []PointedIsStored
<1>1. ContainerInv => PointedIsStored
  <2> SUFFICES ASSUME ContainerInv, NEW n \in Name,
                      \/ Anchored(n)
                      \/ n \in queue \union external
                      \/ \E p \in Name : n \in uses[p]
               PROVE  Stored(n)
    BY DEF PointedIsStored
  <2>1. \/ \E t \in Client : n \in held[t]
        \/ n \in queue \union external
        \/ InCall(n) \/ Waking(n) \/ late[n] > 0
        \/ \E p \in Name : n \in uses[p]
    <3>1. calls \in [Thread -> Seq(Frame)]
      BY DEF ContainerInv, TypeOK
    <3>2. QED
      BY <3>1, AnchoredAs
  <2>2. /\ LoadSound(n) /\ LinksSound(n) /\ HeldSound
        /\ \A p \in Name : UsesSound(p)
    BY DEF ContainerInv
  <2>3. QED
    BY <2>1, <2>2 DEF LoadSound, LinksSound, HeldSound, UsesSound, Waking, Stored, Ended
<1>2. QED
  BY <1>1, ContainerInit, ContainerStep, PTL DEF Spec

-----------------------------------------------------------------------------
(***************************************************************************)
(* The invariant of the sweeps is inductive.  Outside of a sweep, what is  *)
(* garbage stays as it is: nothing gets to it but through what is in use.  *)
(***************************************************************************)
LEMMA ReachesSelf == ASSUME NEW n \in Name PROVE Reaches(n, n)
BY DEF Reaches

LEMMA ReachesOn ==
    ASSUME NEW n \in Name, NEW x \in Name, NEW y \in Name,
           Reaches(n, x), PointsAt(x, y)
    PROVE  Reaches(n, y)
BY DEF Reaches

\* A request of n leaves the garbage that n does not reach.
GarbageShrinks(n) == garbage' = {x \in garbage : ~ Reaches(n, x)}

LEMMA ShrunkClosed ==
    ASSUME GarbageInv, NEW n \in Name, garbage \subseteq Name, GarbageShrinks(n)
    PROVE  /\ garbage' \subseteq garbage /\ n \notin garbage'
           /\ \A y \in garbage' : \A p \in Name : PointsAt(p, y) => p \in garbage'
<1>1. ASSUME NEW y \in garbage', NEW p \in Name, PointsAt(p, y)
      PROVE  p \in garbage'
  <2>1. y \in garbage /\ ~ Reaches(n, y) /\ p \in garbage
    BY <1>1 DEF GarbageShrinks, GarbageInv, GarbageClosed
  <2>2. ~ Reaches(n, p)
    BY <1>1, <2>1, ReachesOn
  <2>3. QED
    BY <2>1, <2>2 DEF GarbageShrinks
<1>2. QED
  BY <1>1, ReachesSelf DEF GarbageShrinks

\* A step that leaves what is still garbage, and what points at it, alone.
LEMMA GarbageKept ==
    ASSUME TypeOK, TypeOK', GarbageInv, UNCHANGED sweep,
           garbage' \subseteq garbage,
           \A y \in garbage' : \A p \in Name : PointsAt(p, y) => p \in garbage',
           \A y \in garbage' : \A p \in Name : y \in uses'[p] <=> y \in uses[p],
           \A y \in garbage' : \A p \in Name : y \in parents'[p] <=> y \in parents[p],
           \A y \in garbage' : status'[y] = status[y] /\ late'[y] = late[y],
           \A y \in garbage' : \A t \in Client : y \in held'[t] => y \in held[t],
           \A y \in garbage' : y \in queue' \union external' => y \in queue \union external,
           \A y \in garbage' : InCall(y)' => InCall(y)
    PROVE  GarbageInv'
<1>1. calls \in [Thread -> Seq(Frame)] /\ calls' \in [Thread -> Seq(Frame)]
  BY DEF TypeOK
<1>2. garbage' \subseteq Name
  BY DEF TypeOK
<1>3. \A y \in garbage' : \A p \in Name : PointsAt(p, y)' <=> PointsAt(p, y)
  BY <1>2 DEF PointsAt
<1>4. GarbageLoose'
  <2> SUFFICES ASSUME NEW y \in garbage', Anchored(y)'
               PROVE  FALSE
    BY DEF GarbageLoose
  <2>1. \/ \E t \in Client : y \in held'[t]
        \/ y \in queue' \union external'
        \/ InCall(y)' \/ Waking(y)' \/ late'[y] > 0
    BY <1>1, AnchoredNext
  <2>2. (Waking(y)' => Waking(y)) /\ (late'[y] > 0 => late[y] > 0)
    BY DEF Waking
  <2>3. Anchored(y)
    BY <1>1, <2>1, <2>2, AnchoredAs
  <2>4. QED
    BY <2>3 DEF GarbageInv, GarbageLoose
<1>5. GarbageClosed'
  BY <1>3 DEF GarbageClosed
<1>6. GarbagePinned'
  <2>1. \A y \in garbage' : Stored(y)' => Stored(y)
    BY DEF Stored
  <2>2. QED
    BY <1>3, <2>1 DEF GarbageInv, GarbagePinned
<1>7. QED
  BY <1>4, <1>5, <1>6 DEF GarbageInv

LEMMA FindKeeps ==
    ASSUME ContainerInv, GarbageInv, NEW t \in Thread, NEW n \in Name,
           NEW sync \in BOOLEAN, NEW s, GoesOn(t, s), Find(t, n, sync, s),
           Inside(t) => n \in Top(t).rest
    PROVE  /\ garbage' \subseteq garbage /\ n \notin garbage'
           /\ \A y \in garbage' : \A p \in Name : PointsAt(p, y) => p \in garbage'
           /\ \A y \in garbage' : status'[y] = status[y]
           /\ \A y \in garbage' : y \in queue' \union external' => y \in queue \union external
           /\ \A y \in garbage' : InCall(y)' => InCall(y)
<1> USE DEF ContainerInv
<1>1. /\ garbage' \subseteq garbage /\ n \notin garbage' /\ garbage' \subseteq Name
      /\ \A y \in garbage' : \A p \in Name : PointsAt(p, y) => p \in garbage'
  <2>1. garbage \subseteq Name /\ GarbageShrinks(n)
    BY FindCases DEF GarbageShrinks, TypeOK
  <2>2. QED
    BY <2>1, ShrunkClosed
<1>2. \A x : InCall(x)' => InCall(x) \/ x = n
  <2>1. CASE calls' = [calls EXCEPT ![t] = s]
    BY <2>1, GoOnStep
  <2>2. CASE FoundByCaller(t, n, s)
    <3> DEFINE f == [name |-> n, rest |-> Needs[n], locked |-> TRUE]
    <3>1. f \in Frame /\ f.name = n /\ f.rest \subseteq Needs[n]
      BY NewCall
    <3>1a. ~ InCall(n) /\ (Inside(t) => n \in Needs[Top(t).name])
      BY <2>2, TopNeeds DEF FoundByCaller, LoadSound, Stored
    <3>2. calls' = [calls EXCEPT ![t] = <<f>> \o s]
      BY <2>2 DEF FoundByCaller
    <3> HIDE DEF f
    <3>3. QED
      BY <3>1, <3>1a, <3>2, BeginStep
  <2>3. QED
    BY <2>1, <2>2, FindCases DEF FoundKnown, FoundQueued, FoundAway
<1>3. /\ \A x \in Name : x # n => status'[x] = status[x]
      /\ queue' \union external' \subseteq queue \union external \union {n}
  <2>1. CASE FoundKnown(t, n, s)
    BY <2>1 DEF FoundKnown
  <2>2. CASE FoundByCaller(t, n, s)
    BY <2>2 DEF FoundByCaller, Stored, TypeOK
  <2>3. CASE FoundQueued(t, n, s)
    BY <2>3 DEF FoundQueued, Stored, TypeOK
  <2>4. CASE FoundAway(t, n, s)
    BY <2>4 DEF FoundAway, Stored, TypeOK
  <2>5. QED
    BY <2>1, <2>2, <2>3, <2>4, FindCases
<1>4. QED
  BY <1>1, <1>2, <1>3

LEMMA GarbageInit == Init => GarbageInv
BY DEF Init, Idle, GarbageInv, GarbageLoose, GarbageClosed, GarbagePinned

LEMMA BeginSweepKeeps == ContainerInv /\ BeginSweep => GarbageInv'
<1> SUFFICES ASSUME ContainerInv, BeginSweep
             PROVE  GarbageInv'
  OBVIOUS
<1>1. garbage' = {n \in Name : Stored(n)} \ InUse
  BY DEF BeginSweep
<1>2. /\ \A n : Anchored(n)' <=> Anchored(n)
      /\ \A n, p : PointsAt(p, n)' <=> PointsAt(p, n)
  BY DEF BeginSweep, Anchored, PointsAt, Waking, Frames, links
<1>3. GarbageLoose'
  BY <1>1, <1>2, ReachesSelf DEF InUse, GarbageLoose
<1>4. GarbageClosed'
  <2> SUFFICES ASSUME NEW n \in garbage', NEW p \in Name, PointsAt(p, n)
               PROVE  p \in garbage'
    BY <1>2 DEF GarbageClosed
  <2>1. n \in Name /\ n \notin InUse
    BY <1>1
  <2>2. Stored(p)
    BY <2>1 DEF PointsAt, ContainerInv, UsesSound, LinksSound, TypeOK
  <2>3. p \notin InUse
    BY <2>1, ReachesOn DEF InUse
  <2>4. QED
    BY <1>1, <2>2, <2>3
<1>5. sweep'.left = Order /\ sweep'.hit = FALSE
  BY DEF BeginSweep
<1>6. \A n \in Name : Home[n] \in Range(Order)
  BY HomeAssumption, OrderAssumption
<1>7. GarbagePinned'
  BY <1>1, <1>5, <1>6 DEF GarbagePinned
<1>8. QED
  BY <1>3, <1>4, <1>5, <1>7 DEF GarbageInv

LEMMA SweepKeeps == ContainerInv /\ GarbageInv /\ SweepContainer => GarbageInv'
<1> SUFFICES ASSUME ContainerInv, GarbageInv, SweepContainer
             PROVE  GarbageInv'
  OBVIOUS
<1> DEFINE b == Head(sweep.left)
           rest == Tail(sweep.left)
<1>1. PICK E \in SUBSET Name :
        /\ Unloadable(b, E)
        /\ status' = [n \in Name |-> IF n \in E THEN "None" ELSE status[n]]
        /\ uses' = [n \in Name |-> IF n \in E THEN {} ELSE uses[n]]
        /\ parents' = [n \in Name |-> IF n \in E THEN {} ELSE parents[n]]
        /\ sweep' = NextPass(rest, sweep.hit \/ E # {})
  BY DEF SweepContainer
<1>2. /\ UNCHANGED <<late, held, queue, external, calls, garbage>> /\ garbage \subseteq Name
      /\ sweep.left # <<>> /\ sweep.left \in Lefts /\ sweep.hit \in BOOLEAN
      /\ calls \in [Thread -> Seq(Frame)] /\ calls' \in [Thread -> Seq(Frame)]
  BY DEF SweepContainer, ContainerInv, TypeOK, Lefts
<1>3. ASSUME NEW n \in Name, NEW p \in Name, PointsAt(p, n)
      PROVE  Stored(p) /\ (p \notin E => n \notin E)
  <2>1. Stored(p)
    BY <1>3 DEF PointsAt, ContainerInv, UsesSound, LinksSound, TypeOK
  <2>2. QED
    BY <1>1, <1>3, <2>1 DEF Unloadable, Pinned
<1>4. ASSUME NEW n \in Name, NEW p \in Name, PointsAt(p, n)'
      PROVE  PointsAt(p, n)
  BY <1>1, <1>4 DEF PointsAt
<1>5. ASSUME NEW n \in Name, Waking(n)'
      PROVE  Waking(n)
  <2>1. n \notin E /\ status[n] = "Loading"
    BY <1>1, <1>5 DEF Waking
  <2>2. ASSUME NEW x \in Name, n \in parents[x]
        PROVE  FALSE
    <3>1. x \in E
      BY <1>1, <1>5, <2>2 DEF Waking
    <3>2. x \in uses[n]
      BY <2>2 DEF ContainerInv, LinksSound
    <3>3. QED
      BY <1>3, <2>1, <3>1, <3>2 DEF PointsAt
  <2>3. QED
    BY <2>1, <2>2 DEF Waking
<1>6. GarbageLoose'
  <2> SUFFICES ASSUME NEW n \in garbage, Anchored(n)'
               PROVE  FALSE
    BY <1>2 DEF GarbageLoose
  <2>1. \/ \E t \in Client : n \in held[t]
        \/ n \in queue \union external
        \/ InCall(n) \/ Waking(n) \/ late[n] > 0
    <3>1. InCall(n)' <=> InCall(n)
      BY <1>2 DEF InCall, At, Depth
    <3>2. QED
      BY <1>2, <1>5, <3>1, AnchoredNext
  <2>2. QED
    BY <1>2, <2>1, AnchoredAs DEF GarbageInv, GarbageLoose
<1>7. GarbageClosed'
  BY <1>2, <1>4 DEF GarbageInv, GarbageClosed
<1> HIDE DEF b, rest
<1>8. \/ /\ sweep' = [left |-> rest, hit |-> FALSE]
         /\ ~ sweep.hit /\ E = {}
      \/ sweep' = [left |-> rest, hit |-> TRUE] /\ rest # <<>>
      \/ sweep' = [left |-> Order, hit |-> FALSE]
  <2>1. CASE sweep.hit \/ E # {}
    BY <1>1, <1>2, <2>1 DEF NextPass
  <2>2. CASE ~ sweep.hit /\ E = {}
    BY <1>1, <1>2, <2>2 DEF NextPass
  <2>3. QED
    BY <2>1, <2>2
<1>9. GarbagePinned'
  <2> SUFFICES ASSUME NEW n \in garbage, ~ sweep'.hit, Stored(n)',
                      Home[n] \notin Range(sweep'.left)
               PROVE  \E p \in Name : PointsAt(p, n)'
    BY <1>2 DEF GarbagePinned
  <2>1. Home[n] \in Range(Order) /\ n \in Name
    BY <1>2, HomeAssumption, OrderAssumption
  <2>2. sweep'.left = rest /\ ~ sweep.hit /\ E = {}
    BY <1>8, <2>1
  <2>3. status' = status /\ uses' = uses /\ parents' = parents
    BY <1>1, <2>2 DEF ContainerInv, TypeOK
  <2>4. Range(sweep.left) = {b} \union Range(rest)
    BY <1>2, PassGoesOn DEF b, rest
  <2>5. \E p \in Name : PointsAt(p, n)
    <3>1. CASE Home[n] = b
      <4>1. Pinned(n, {})
        BY <1>1, <2>1, <2>2, <2>3, <3>1 DEF Unloadable, Stored
      <4>2. ~ Anchored(n)
        BY DEF GarbageInv, GarbageLoose
      <4>3. QED
        BY <4>1, <4>2 DEF Pinned
    <3>2. CASE Home[n] # b
      <4>1. Stored(n) /\ Home[n] \notin Range(sweep.left)
        BY <2>2, <2>3, <2>4, <3>2 DEF Stored
      <4>2. QED
        BY <2>2, <4>1 DEF GarbageInv, GarbagePinned
    <3>3. QED
      BY <3>1, <3>2
  <2>6. QED
    BY <2>3, <2>5 DEF PointsAt
<1>10. sweep'.left = <<>> => ~ sweep'.hit
  BY <1>8
<1>11. QED
  BY <1>6, <1>7, <1>9, <1>10 DEF GarbageInv

\* p begins to use n, neither of which is garbage.
LEMMA DependKeeps ==
    ASSUME TypeOK, NEW p \in Name, NEW n \in Name, Depend(p, n),
           NEW y \in Name, y # n, y # p
    PROVE  /\ \A q \in Name : y \in uses'[q] <=> y \in uses[q]
           /\ \A q \in Name : y \in parents'[q] <=> y \in parents[q]
           /\ late'[y] = late[y]
<1>1. \A q \in Name : uses'[q] = uses[q] \/ uses'[q] = uses[q] \union {n}
  BY DEF Depend, TypeOK
<1>2. \A q \in Name : parents'[q] = parents[q] \/ parents'[q] = parents[q] \union {p}
  BY DEF Depend, TypeOK
<1>3. QED
  BY <1>1, <1>2 DEF Depend

LEMMA GarbageStep == ContainerInv /\ GarbageInv /\ [Next]_vars => GarbageInv'
<1> SUFFICES ASSUME ContainerInv, GarbageInv, [Next]_vars
             PROVE  GarbageInv'
  OBVIOUS
<1>a. TypeOK /\ TypeOK' /\ garbage \subseteq Name /\ garbage' \subseteq Name
  BY TypeStep DEF ContainerInv, TypeOK
<1>b. \A n : Anchored(n) => n \notin garbage
  BY DEF GarbageInv, GarbageLoose
<1>c. \A n : InCall(n) => n \notin garbage
  BY <1>a, <1>b, AnchoredAs DEF TypeOK
<1>d. ASSUME UNCHANGED garbage
      PROVE  /\ garbage' \subseteq garbage
             /\ \A y \in garbage' : \A p \in Name : PointsAt(p, y) => p \in garbage'
  BY <1>d DEF GarbageInv, GarbageClosed
<1>e. ASSUME UNCHANGED calls
      PROVE  \A x : InCall(x)' <=> InCall(x)
  BY <1>e DEF InCall, At, Depth
<1>f. ASSUME UNCHANGED links
      PROVE  /\ \A y \in garbage' : \A p \in Name : y \in uses'[p] <=> y \in uses[p]
             /\ \A y \in garbage' : \A p \in Name : y \in parents'[p] <=> y \in parents[p]
             /\ \A y \in garbage' : late'[y] = late[y]
  BY <1>f DEF links
<1>g. ASSUME NEW t \in Thread, Loading(t)
      PROVE  /\ Top(t).name \in Name /\ Top(t).name \notin garbage
             /\ status[Top(t).name] = "Enqueuing" /\ Inside(t)
  BY <1>c, <1>g, LoadingSound DEF Loading
<1>1. ASSUME NEW t \in Client, NEW n \in Name, NEW sync \in BOOLEAN, Request(t, n, sync)
      PROVE  GarbageInv'
  <2>1. t \in Thread /\ GoesOn(t, <<>>) /\ Find(t, n, sync, <<>>) /\ ~ Inside(t)
    BY <1>1, <1>a, EmptyCalls DEF Request, Thread, Inside
  <2>2. \A c \in Client : held'[c] \subseteq held[c] \union {n}
    BY <1>1, <1>a DEF Request, TypeOK
  <2>3. UNCHANGED links /\ UNCHANGED sweep
    BY <1>1 DEF Request
  <2>4. /\ garbage' \subseteq garbage /\ n \notin garbage'
        /\ \A y \in garbage' : \A p \in Name : PointsAt(p, y) => p \in garbage'
        /\ \A y \in garbage' : status'[y] = status[y]
        /\ \A y \in garbage' : y \in queue' \union external' => y \in queue \union external
        /\ \A y \in garbage' : InCall(y)' => InCall(y)
    BY <2>1, FindKeeps
  <2>5. \A y \in garbage' : \A c \in Client : y \in held'[c] => y \in held[c]
    BY <2>2, <2>4
  <2>6. QED
    BY <1>a, <1>f, <2>3, <2>4, <2>5, GarbageKept
<1>2. ASSUME NEW t \in Client, NEW n \in Name, Release(t, n)
      PROVE  GarbageInv'
  <2>1. /\ \A c \in Client : held'[c] \subseteq held[c]
        /\ UNCHANGED links /\ UNCHANGED <<status, queue, external, calls, sweep, garbage>>
    BY <1>2, <1>a DEF Release, TypeOK
  <2>2. QED
    BY <1>a, <1>d, <1>e, <1>f, <2>1, GarbageKept
<1>3. ASSUME NEW t \in Thread, NEW n \in Name, NEW sync \in BOOLEAN, Subrequest(t, n, sync)
      PROVE  GarbageInv'
  <2> DEFINE s == <<[Top(t) EXCEPT !.rest = @ \ {n}]>> \o Tail(calls[t])
             m == Top(t).name
  <2>1. /\ Loading(t) /\ n \in Top(t).rest
        /\ Depend(m, n) \/ UNCHANGED links
        /\ UNCHANGED <<held, sweep>>
    BY <1>3 DEF Subrequest
  <2>2. GoesOn(t, s) /\ Find(t, n, sync, s)
    BY <1>3, <1>a, AskedCalls DEF Subrequest, Loading
  <2> HIDE DEF s
  <2>3. /\ garbage' \subseteq garbage /\ n \notin garbage'
        /\ \A y \in garbage' : \A p \in Name : PointsAt(p, y) => p \in garbage'
        /\ \A y \in garbage' : status'[y] = status[y]
        /\ \A y \in garbage' : y \in queue' \union external' => y \in queue \union external
        /\ \A y \in garbage' : InCall(y)' => InCall(y)
    BY <2>1, <2>2, FindKeeps
  <2>4. m \in Name /\ m \notin garbage'
    BY <1>g, <2>1, <2>3
  <2> HIDE DEF m
  <2>5. /\ \A y \in garbage' : \A p \in Name : y \in uses'[p] <=> y \in uses[p]
        /\ \A y \in garbage' : \A p \in Name : y \in parents'[p] <=> y \in parents[p]
        /\ \A y \in garbage' : late'[y] = late[y]
    <3>1. CASE UNCHANGED links
      BY <1>f, <3>1
    <3>2. CASE Depend(m, n)
      <4>1. \A y \in garbage' : y \in Name /\ y # n /\ y # m
        BY <1>a, <2>3, <2>4
      <4>2. QED
        BY <1>a, <2>4, <3>2, <4>1, DependKeeps
    <3>3. QED
      BY <2>1, <3>1, <3>2
  <2>6. QED
    BY <1>a, <2>1, <2>3, <2>5, GarbageKept
<1>4. ASSUME NEW t \in Thread, NEW n \in Name, SubrequestRefused(t, n)
      PROVE  GarbageInv'
  <2> DEFINE m == Top(t).name
  <2>1. m \in Name /\ m \notin garbage
    BY <1>4, <1>g DEF SubrequestRefused
  <2>2. /\ GarbageShrinks(n)
        /\ UNCHANGED links /\ UNCHANGED <<held, queue, external, calls, sweep>>
        /\ status' = [status EXCEPT ![n] = "Unloaded", ![m] = "Failed"]
    BY <1>4 DEF SubrequestRefused, GarbageShrinks
  <2>3. /\ garbage' \subseteq garbage /\ n \notin garbage'
        /\ \A y \in garbage' : \A p \in Name : PointsAt(p, y) => p \in garbage'
    BY <1>a, <2>2, ShrunkClosed
  <2> HIDE DEF m
  <2>4. \A y \in garbage' : status'[y] = status[y]
    <3>1. \A y \in Name : y # n /\ y # m => status'[y] = status[y]
      BY <2>1, <2>2 DEF ContainerInv, TypeOK
    <3>2. QED
      BY <1>a, <2>1, <2>3, <3>1
  <2>5. QED
    BY <1>a, <1>e, <1>f, <2>2, <2>3, <2>4, GarbageKept
<1>5. ASSUME NEW t \in Worker, NEW n \in Name, StartTask(t, n)
      PROVE  GarbageInv'
  <2> DEFINE f == [name |-> n, rest |-> Needs[n], locked |-> FALSE]
  <2>1. n \notin garbage /\ ~ InCall(n) /\ t \in Thread /\ ~ Inside(t)
    BY <1>5, <1>b DEF StartTask, Anchored, Thread, ContainerInv, LoadSound, Inside
  <2>2. f \in Frame /\ f.name = n /\ f.rest \subseteq Needs[n]
    BY NewCall
  <2>3. /\ calls' = [calls EXCEPT ![t] = <<f>> \o <<>>] /\ GoesOn(t, <<>>)
        /\ status' = [status EXCEPT ![n] = "Enqueuing"]
        /\ UNCHANGED links /\ UNCHANGED <<held, external, sweep, garbage>>
        /\ queue' \subseteq queue
    BY <1>5, <1>a, <2>1, <2>2, EmptyCalls DEF StartTask
  <2> HIDE DEF f
  <2>4. \A x : InCall(x)' => InCall(x) \/ x = n
    BY <2>1, <2>2, <2>3, BeginStep DEF ContainerInv
  <2>5. \A y \in garbage' : status'[y] = status[y]
    BY <1>a, <2>1, <2>3 DEF TypeOK
  <2>6. QED
    BY <1>a, <1>d, <1>f, <2>1, <2>3, <2>4, <2>5, GarbageKept
<1>6. ASSUME NEW t \in Thread, EndLoad(t) \/ FailLoad(t)
      PROVE  GarbageInv'
  <2> DEFINE m == Top(t).name
  <2>1. m \in Name /\ m \notin garbage
    BY <1>6, <1>g DEF EndLoad, FailLoad
  <2>2. /\ UNCHANGED links /\ UNCHANGED <<held, queue, external, calls, sweep, garbage>>
        /\ \E x : status' = [status EXCEPT ![m] = x]
    BY <1>6 DEF EndLoad, FailLoad
  <2> HIDE DEF m
  <2>3. \A y \in garbage' : status'[y] = status[y]
    BY <1>a, <2>1, <2>2 DEF TypeOK
  <2>4. QED
    BY <1>a, <1>d, <1>e, <1>f, <2>2, <2>3, GarbageKept
<1>7. ASSUME NEW t \in Thread, Return(t)
      PROVE  GarbageInv'
  <2>0. PICK n \in Name : n = Top(t).name
    BY <1>7, <1>a, TopIsLast DEF Return, Frame
  <2> DEFINE outer == Tail(calls[t])
  <2>1. /\ Inside(t) /\ calls' = [calls EXCEPT ![t] = Tail(@)]
        /\ \A c \in Client : held'[c] \subseteq held[c] \union {n}
        /\ (outer # <<>> /\ Depend(Head(outer).name, n)) \/ UNCHANGED links
        /\ UNCHANGED <<status, queue, external, sweep, garbage>>
    BY <1>7, <2>0 DEF Return
  <2>2. InCall(n) /\ \A x : InCall(x)' => InCall(x)
    BY <2>0, <2>1, EndStep DEF ContainerInv
  <2>3. n \notin garbage'
    BY <1>c, <2>1, <2>2
  <2>4. /\ \A y \in garbage' : \A p \in Name : y \in uses'[p] <=> y \in uses[p]
        /\ \A y \in garbage' : \A p \in Name : y \in parents'[p] <=> y \in parents[p]
        /\ \A y \in garbage' : late'[y] = late[y]
    <3>1. CASE UNCHANGED links
      BY <1>f, <3>1
    <3>2. CASE outer # <<>> /\ Depend(Head(outer).name, n)
      <4>1. PICK p \in Name : p = Head(outer).name /\ InCall(p)
        BY <2>1, <3>2, OuterCall
      <4>2. \A y \in garbage' : y \in Name /\ y # n /\ y # p
        BY <1>a, <1>c, <2>1, <2>3, <4>1
      <4>3. QED
        BY <1>a, <3>2, <4>1, <4>2, DependKeeps
    <3>3. QED
      BY <2>1, <3>1, <3>2
  <2>5. \A y \in garbage' : \A c \in Client : y \in held'[c] => y \in held[c]
    BY <2>1, <2>3
  <2>6. QED
    BY <1>a, <1>d, <2>1, <2>2, <2>4, <2>5, GarbageKept
<1>8. ASSUME NEW n \in Name, NEW success \in BOOLEAN,
             Settle(n, success) \/ SettleAgain(n, success)
      PROVE  GarbageInv'
  <2>1. /\ Waking(n) \/ late[n] > 0
        /\ Outcome(n, success)
        /\ \A x \in Name : x # n => late'[x] = late[x]
    BY <1>8, <1>a DEF Settle, SettleAgain, TypeOK
  <2>2. n \notin garbage
    BY <1>b, <2>1 DEF Anchored
  <2>3. \A y \in garbage : y \notin parents[n]
    BY <2>2 DEF GarbageInv, GarbageClosed, PointsAt
  <2>4. UNCHANGED <<uses, held, queue, external, calls, sweep, garbage>>
    BY <2>1 DEF Outcome
  <2>5. \A y \in garbage' : status'[y] = status[y] /\ late'[y] = late[y]
    BY <1>a, <2>1, <2>2, <2>4 DEF Outcome, TypeOK
  <2>6. \A y \in garbage' : \A p \in Name : y \in parents'[p] <=> y \in parents[p]
    <3>1. /\ \A p \in Name : p # n => parents'[p] = parents[p]
          /\ parents'[n] \subseteq parents[n]
      BY <1>a, <2>1 DEF Outcome, TypeOK
    <3>2. QED
      BY <2>3, <2>4, <3>1
  <2>7. QED
    BY <1>a, <1>d, <1>e, <2>4, <2>5, <2>6, GarbageKept
<1>9. ASSUME NEW n \in Name, NEW done \in BOOLEAN, FileDownloaded(n, done)
      PROVE  GarbageInv'
  <2>1. /\ UNCHANGED links /\ UNCHANGED <<status, held, calls, sweep, garbage>>
        /\ queue' \union external' \subseteq queue \union external
    BY <1>9 DEF FileDownloaded
  <2>2. QED
    BY <1>a, <1>d, <1>e, <1>f, <2>1, GarbageKept
<1>10. CASE BeginSweep
  BY <1>10, BeginSweepKeeps
<1>11. CASE SweepContainer
  BY <1>11, SweepKeeps
<1>12. CASE UNCHANGED vars
  <2>1. UNCHANGED links /\ UNCHANGED <<status, held, queue, external, calls, sweep, garbage>>
    BY <1>12 DEF vars, links
  <2>2. QED
    BY <1>a, <1>d, <1>e, <1>f, <2>1, GarbageKept
<1>13. QED
  BY <1>1, <1>2, <1>3, <1>4, <1>5, <1>6, <1>7, <1>8, <1>9, <1>10, <1>11, <1>12 DEF Next

-----------------------------------------------------------------------------
(***************************************************************************)
(* What a sweep leaves.  Pos(n) is the place of the container of n in the  *)
(* order of the passes; it grows from a resource to those it uses.         *)
(***************************************************************************)
Pos(n) == CHOOSE i \in DOMAIN Order : Order[i] = Home[n]

LEMMA PosTyped ==
    ASSUME NEW n \in Name
    PROVE  Pos(n) \in 1 .. Len(Order) /\ Order[Pos(n)] = Home[n] /\ Len(Order) \in Nat
<1>1. \E i \in DOMAIN Order : Order[i] = Home[n]
  BY HomeAssumption, OrderAssumption DEF Range
<1>2. Pos(n) \in DOMAIN Order /\ Order[Pos(n)] = Home[n]
  BY <1>1 DEF Pos
<1>3. QED
  BY <1>2, OrderAssumption

LEMMA PosGrows ==
    ASSUME NEW n \in Name, NEW x \in Name, x \in Needs[n]
    PROVE  Pos(n) < Pos(x)
<1>1. PICK i \in DOMAIN Order, j \in DOMAIN Order :
        i < j /\ Order[i] = Home[n] /\ Order[j] = Home[x]
  BY LayersAssumption
<1>2. \A a \in DOMAIN Order, c \in DOMAIN Order : Order[a] = Order[c] => a = c
  BY OrderAssumption DEF IsInjective
<1>3. DOMAIN Order = 1 .. Len(Order)
  BY OrderAssumption
<1>4. Pos(n) = i /\ Pos(x) = j
  BY <1>1, <1>2, <1>3, PosTyped
<1>5. QED
  BY <1>1, <1>4

LEMMA LeastNatural ==
    ASSUME NEW S \in SUBSET Nat, S # {}
    PROVE  \E i \in S : \A j \in S : i <= j
<1> DEFINE R == {ss \in Nat \X Nat : ss[1] < ss[2]}
<1>1. IsWellFoundedOn(R, Nat)
  BY NatLessThanWellFounded DEF OpToRel
<1>2. ASSUME NEW i \in S, NEW j \in S, <<j, i>> \notin R
      PROVE  i <= j
  <2>1. i \in Nat /\ j \in Nat /\ <<j, i>> \in Nat \X Nat
    OBVIOUS
  <2>2. ~ (j < i)
    BY <1>2, <2>1
  <2>3. QED
    BY <2>1, <2>2
<1> HIDE DEF R
<1>3. \E i \in S : \A j \in S : ~ (<<j, i>> \in R)
  BY <1>1, WFMin
<1>4. QED
  BY <1>2, <1>3

\* A set of resources has a first and a last one in the order of the passes.
LEMMA FirstAndLast ==
    ASSUME NEW G \in SUBSET Name, G # {}
    PROVE  /\ \E n \in G : \A x \in G : Pos(n) <= Pos(x)
           /\ \E n \in G : \A x \in G : Pos(x) <= Pos(n)
<1>1. \A n \in G : Pos(n) \in 1 .. Len(Order) /\ Len(Order) \in Nat
  BY PosTyped
<1>2. \E n \in G : \A x \in G : Pos(n) <= Pos(x)
  <2> DEFINE S == {Pos(n) : n \in G}
  <2>1. S \in SUBSET Nat /\ S # {}
    BY <1>1
  <2>2. PICK i \in S : \A j \in S : i <= j
    BY <2>1, LeastNatural
  <2>3. QED
    BY <2>2
<1>3. \E n \in G : \A x \in G : Pos(x) <= Pos(n)
  <2> DEFINE S == {Len(Order) - Pos(n) : n \in G}
  <2>1. S \in SUBSET Nat /\ S # {}
    BY <1>1
  <2>2. PICK i \in S : \A j \in S : i <= j
    BY <2>1, LeastNatural
  <2>3. PICK n \in G : i = Len(Order) - Pos(n)
    OBVIOUS
  <2>4. \A x \in G : Len(Order) - Pos(n) <= Len(Order) - Pos(x)
    BY <2>2, <2>3
  <2>5. QED
    BY <1>1, <2>4
<1>4. QED
  BY <1>2, <1>3

LEMMA ReachesBack ==
    ASSUME NEW q \in Name, NEW p \in Name, NEW n \in Name,
           PointsAt(q, p), Reaches(p, n)
    PROVE  Reaches(q, n)
BY DEF Reaches

\* Garbage that others wait for, and that is not stuck, waits for other garbage.
LEMMA GarbageWaits ==
    ASSUME ContainerInv, GarbageInv, NEW p \in garbage, parents[p] # {}, ~ Stuck(p)
    PROVE  \E x \in Name : p \in parents[x] /\ x \in uses[p]
<1>1. /\ p \in Name /\ ~ Anchored(p) /\ parents \in [Name -> SUBSET Name]
      /\ status[p] \in {"None", "Unloaded", "Enqueuing", "Loading", "Loaded", "Failed"}
      /\ calls \in [Thread -> Seq(Frame)]
  BY DEF ContainerInv, GarbageInv, GarbageLoose, TypeOK
<1>2. p \notin queue /\ ~ InCall(p) /\ ~ Waking(p)
  BY <1>1, AnchoredAs
<1>3. status[p] # "Loaded" /\ Stored(p)
  BY <1>1 DEF ContainerInv, LinksSound, UsesSound
<1>4. status[p] = "Loading"
  BY <1>1, <1>2, <1>3 DEF ContainerInv, LoadSound, Stored, Stuck
<1>5. PICK x \in Name : p \in parents[x]
  BY <1>2, <1>4 DEF Waking
<1>6. QED
  BY <1>5 DEF ContainerInv, LinksSound

\* What nobody used when a sweep began, and nobody asked for since, is gone
\* when it ends, but for what a resource that failed or never loads holds.
THEOREM SweepsComplete == Spec => []SweepComplete
<1>1. ContainerInv /\ GarbageInv => SweepComplete
  <2> SUFFICES ASSUME ContainerInv, GarbageInv, sweep.left = <<>>,
                      NEW n \in garbage, Stored(n),
                      \A p \in garbage : ~ (Stuck(p) /\ Reaches(p, n))
               PROVE  FALSE
    BY DEF SweepComplete
  <2> DEFINE G == {p \in garbage : Stored(p) /\ Reaches(p, n)}
             B == {p \in G : parents[p] # {}}
  <2>1. garbage \subseteq Name /\ n \in G /\ G \subseteq Name
    BY ReachesSelf DEF ContainerInv, TypeOK
  <2>2. \A p \in Name : /\ uses[p] \subseteq Needs[p] /\ uses[p] \subseteq Name
                        /\ \A x \in Name : PointsAt(p, x) => Stored(p)
    BY DEF ContainerInv, UsesSound, LinksSound, PointsAt, TypeOK
  <2>3. ASSUME NEW y \in G, NEW p \in Name, PointsAt(p, y)
        PROVE  p \in G
    <3>1. p \in garbage
      BY <2>3 DEF GarbageInv, GarbageClosed
    <3>2. Stored(p)
      BY <2>1, <2>2, <2>3
    <3>3. Reaches(p, n)
      BY <2>1, <2>3, ReachesBack
    <3>4. QED
      BY <3>1, <3>2, <3>3
  <2>4. ASSUME NEW y \in G
        PROVE  \E p \in Name : PointsAt(p, y)
    <3>1. ~ sweep.hit /\ Range(sweep.left) = {}
      BY DEF GarbageInv, Range
    <3>2. QED
      BY <2>4, <3>1 DEF GarbageInv, GarbagePinned
  <2>5. ASSUME NEW p \in B
        PROVE  \E x \in B : Pos(p) < Pos(x)
    <3>1. p \in garbage /\ p \in Name /\ parents[p] # {} /\ ~ Stuck(p)
      BY <2>1
    <3>2. PICK x \in Name : p \in parents[x] /\ x \in uses[p]
      BY <3>1, GarbageWaits
    <3>3. x \in B
      BY <2>3, <3>2 DEF PointsAt
    <3>4. Pos(p) < Pos(x)
      BY <2>2, <3>1, <3>2, PosGrows
    <3>5. QED
      BY <3>3, <3>4
  <2>6. B = {}
    <3> SUFFICES ASSUME B # {}
                 PROVE  FALSE
      OBVIOUS
    <3>1. PICK p \in B : \A x \in B : Pos(x) <= Pos(p)
      BY <2>1, FirstAndLast
    <3>2. PICK x \in B : Pos(p) < Pos(x)
      BY <2>5
    <3>3. Pos(p) \in Nat /\ Pos(x) \in Nat
      BY <2>1, PosTyped
    <3>4. QED
      BY <3>1, <3>2, <3>3
  <2>7. ASSUME NEW y \in G
        PROVE  \E p \in G : Pos(p) < Pos(y)
    <3>1. PICK p \in Name : PointsAt(p, y)
      BY <2>4
    <3>2. p \in G
      BY <2>3, <3>1
    <3>3. y \in uses[p]
      BY <2>1, <2>6, <3>1, <3>2 DEF PointsAt
    <3>4. QED
      BY <2>1, <2>2, <3>2, <3>3, PosGrows
  <2>8. PICK y \in G : \A x \in G : Pos(y) <= Pos(x)
    BY <2>1, FirstAndLast
  <2>9. PICK p \in G : Pos(p) < Pos(y)
    BY <2>7
  <2>10. Pos(p) \in Nat /\ Pos(y) \in Nat
    BY <2>1, PosTyped
  <2>11. QED
    BY <2>8, <2>9, <2>10
<1>2. QED
  BY <1>1, ContainerInit, ContainerStep, GarbageInit, GarbageStep, PTL DEF Spec

-----------------------------------------------------------------------------
(***************************************************************************)
(* The refinement of ResourceStore.                                        *)
(***************************************************************************)
LEMMA StageChanged ==
    ASSUME TypeOK, NEW m \in Name, NEW x, status' = [status EXCEPT ![m] = x]
    PROVE  stages' = [stages EXCEPT ![m] =
                        IF x \in {"Unloaded", "Enqueuing"} THEN "Loading" ELSE x]
BY DEF TypeOK, stages, Stage

LEMMA StageKept ==
    ASSUME TypeOK, NEW m \in Name, status[m] \in {"Unloaded", "Enqueuing"},
           NEW x \in {"Enqueuing", "Loading"}, status' = [status EXCEPT ![m] = x]
    PROVE  stages' = stages
<1>1. \A n \in Name : Stage(n)' = Stage(n)
  BY DEF TypeOK, Stage
<1>2. QED
  BY <1>1 DEF stages

\* A request begins the loading of a resource that was not there.
LEMMA FindAsks ==
    ASSUME TypeOK, NEW t \in Thread, NEW n \in Name, NEW sync \in BOOLEAN, NEW s,
           Find(t, n, sync, s)
    PROVE  stages' = Store!Asked(n)
<1>1. CASE Stored(n) /\ UNCHANGED status
  BY <1>1 DEF Store!Asked, stages, Stage, Stored
<1>2. CASE ~ Stored(n) /\ \E x \in {"Enqueuing", "Unloaded"} : status' = [status EXCEPT ![n] = x]
  <2>1. stages' = [stages EXCEPT ![n] = "Loading"]
    BY <1>2, StageChanged
  <2>2. stages[n] = "None"
    BY <1>2 DEF stages, Stage, Stored
  <2>3. QED
    BY <2>1, <2>2 DEF Store!Asked
<1>3. CASE FoundKnown(t, n, s)
  BY <1>1, <1>3 DEF FoundKnown
<1>4. CASE FoundByCaller(t, n, s)
  BY <1>2, <1>4 DEF FoundByCaller
<1>5. CASE FoundQueued(t, n, s)
  BY <1>2, <1>5 DEF FoundQueued
<1>6. CASE FoundAway(t, n, s)
  BY <1>2, <1>6 DEF FoundAway
<1>7. QED
  BY <1>3, <1>4, <1>5, <1>6, FindCases

\* The resources a sweep drops are kept by nothing but one another.
LEMMA SweepRefines ==
    ASSUME ContainerInv, SweepContainer
    PROVE  \E E \in SUBSET Name : Store!Drop(E)
<1> USE DEF ContainerInv
<1>1. PICK E \in SUBSET Name :
        /\ Unloadable(Head(sweep.left), E)
        /\ status' = [n \in Name |-> IF n \in E THEN "None" ELSE status[n]]
        /\ uses' = [n \in Name |-> IF n \in E THEN {} ELSE uses[n]]
        /\ created' = created \ E
  BY DEF SweepContainer
<1>2. held' = held /\ late' = late
  BY DEF SweepContainer
<1>3. ASSUME NEW n \in E
      PROVE  /\ \A c \in Client : n \notin held[c]
             /\ \A p \in Name \ E : n \notin uses[p]
             /\ ~ (late[n] > 0)
  <2>1. ~ Anchored(n) /\ \A p \in Name \ E : Stored(p) => ~ PointsAt(p, n)
    BY <1>1 DEF Unloadable, Pinned
  <2>2. \A p \in Name : ~ Stored(p) => uses[p] = {}
    BY DEF UsesSound
  <2>3. QED
    BY <2>1, <2>2 DEF Anchored, PointsAt
<1>4. stages' = [n \in Name |-> IF n \in E THEN "None" ELSE stages[n]]
  <2>1. \A n \in Name : Stage(n)' = IF n \in E THEN "None" ELSE Stage(n)
    BY <1>1 DEF Stage
  <2>2. QED
    BY <2>1 DEF stages
<1>5. Store!Drop(E)
  BY <1>1, <1>2, <1>3, <1>4 DEF Store!Drop
<1>6. QED
  BY <1>5

\* A call that returns hands the resource to the client, or to the outer call.
LEMMA ReturnRefines ==
    ASSUME ContainerInv, NEW t \in Thread, Return(t)
    PROVE  Store!Next \/ UNCHANGED Store!vars
<1>1. PICK n \in Name : n = Top(t).name
  BY TopIsLast DEF Return, Frame, ContainerInv
<1> DEFINE outer == Tail(calls[t])
<1>2. /\ Inside(t) /\ calls' = [calls EXCEPT ![t] = Tail(@)]
      /\ UNCHANGED status
  BY DEF Return
<1>3. stages' = stages /\ stages[n] # "None" /\ Store!Asked(n) = stages
  <2>1. InCall(n)
    BY <1>1, <1>2, EndStep DEF ContainerInv
  <2>2. stages[n] # "None"
    BY <2>1 DEF ContainerInv, LoadSound, stages, Stage
  <2>3. stages' = stages
    BY <1>2 DEF stages, Stage
  <2>4. QED
    BY <2>2, <2>3 DEF Store!Asked, stages
<1>4. CASE outer # <<>> /\ Depend(Head(outer).name, n) /\ held' = held
  <2>1. PICK p \in Name : p = Head(outer).name /\ status[p] = "Enqueuing"
    BY <1>2, <1>4, OuterCall
  <2>2. stages[p] = "Loading"
    BY <2>1 DEF stages, Stage
  <2>3. Store!Use(p, n)
    BY <1>3, <1>4, <2>1, <2>2 DEF Depend, Store!Use
  <2>4. QED
    BY <2>3 DEF Store!Next
<1>5. CASE UNCHANGED links /\ held' = held
  BY <1>3, <1>5 DEF links, Store!vars
<1>6. CASE UNCHANGED links /\ t \in Client /\ held' = [held EXCEPT ![t] = @ \union {n}]
  <2>1. Store!Get(t, n)
    BY <1>3, <1>6 DEF links, Store!Get
  <2>2. QED
    BY <1>6, <2>1 DEF Store!Next
<1>7. QED
  <2> DEFINE given == Top(t).locked /\ ~ Substituted(Top(t).name)
  <2>1. held \in [Client -> SUBSET Name]
    BY DEF ContainerInv, TypeOK
  <2>2. /\ held' = [c \in Client |->
                     IF c = t /\ outer = <<>> /\ given THEN held[c] \union {n} ELSE held[c]]
        /\ IF outer # <<>> /\ given THEN Depend(Head(outer).name, n) ELSE UNCHANGED links
    BY <1>1 DEF Return
  <2> HIDE DEF given, outer
  <2>3. CASE outer # <<>> /\ given
    <3>1. held' = held
      BY <2>1, <2>2, <2>3
    <3>2. QED
      BY <1>4, <2>2, <2>3, <3>1
  <2>4. CASE ~ given \/ t \notin Client
    <3>1. held' = held
      BY <2>1, <2>2, <2>4
    <3>2. QED
      BY <1>5, <2>2, <2>3, <3>1
  <2>5. CASE outer = <<>> /\ given /\ t \in Client
    <3>1. held' = [held EXCEPT ![t] = @ \union {n}]
      BY <2>1, <2>2, <2>5
    <3>2. QED
      BY <1>6, <2>2, <2>5, <3>1
  <2>6. QED
    BY <2>3, <2>4, <2>5

\* The end of a creation.
LEMMA OutcomeRefines ==
    ASSUME ContainerInv, NEW n \in Name, NEW success \in BOOLEAN, Outcome(n, success)
    PROVE  Store!Outcome(n, success)
<1>1. stages' = [stages EXCEPT ![n] = IF success THEN "Loaded" ELSE "Failed"]
  <2> DEFINE x == IF success THEN "Loaded" ELSE "Failed"
  <2>1. status' = [status EXCEPT ![n] = x] /\ x \notin {"Unloaded", "Enqueuing"}
    BY DEF Outcome
  <2> HIDE DEF x
  <2>2. stages' = [stages EXCEPT ![n] = x]
    BY <2>1, StageChanged DEF ContainerInv
  <2>3. QED
    BY <2>2 DEF x
<1>2. QED
  BY <1>1 DEF Outcome, Store!Outcome

LEMMA StoreStep ==
    ASSUME ContainerInv, [Next]_vars
    PROVE  [Store!Next]_(Store!vars)
<1>a. TypeOK
  BY DEF ContainerInv
<1> DEFINE Still == UNCHANGED stages /\ UNCHANGED held /\ UNCHANGED links
<1>b. Still => UNCHANGED Store!vars
  BY DEF Store!vars, links
<1>c. UNCHANGED status => UNCHANGED stages
  BY DEF stages, Stage
<1>d. \A n \in Name : status[n] = "Enqueuing" => stages[n] = "Loading"
  BY DEF stages, Stage
<1>1. ASSUME NEW t \in Client, NEW n \in Name, NEW sync \in BOOLEAN, Request(t, n, sync)
      PROVE  Store!Next
  <2>1. stages' = Store!Asked(n) /\ UNCHANGED <<uses, late, created>>
    BY <1>a, <1>1, FindAsks DEF Request, Thread, links
  <2>2. CASE Refused(n, sync) \/ Called(n, sync)
    <3>1. stages[n] = "None" /\ held' = held
      BY <1>1, <2>2 DEF Request, Refused, Called, Known, Stored, stages, Stage
    <3>2. Store!Ask(n)
      BY <2>1, <3>1 DEF Store!Ask
    <3>3. QED
      BY <3>2 DEF Store!Next
  <2>3. CASE ~ (Refused(n, sync) \/ Called(n, sync))
    <3>1. Store!Get(t, n)
      BY <1>1, <2>1, <2>3 DEF Request, Store!Get
    <3>2. QED
      BY <3>1 DEF Store!Next
  <2>4. QED
    BY <2>2, <2>3
<1>2. ASSUME NEW t \in Client, NEW n \in Name, Release(t, n)
      PROVE  Store!Next
  <2>1. Store!Release(t, n)
    BY <1>2, <1>c DEF Release, Store!Release, links
  <2>2. QED
    BY <2>1 DEF Store!Next
<1>3. ASSUME NEW t \in Thread, NEW n \in Name, NEW sync \in BOOLEAN, Subrequest(t, n, sync)
      PROVE  Store!Next
  <2> DEFINE m == Top(t).name
  <2>1. m \in Name /\ stages[m] = "Loading"
    BY <1>3, <1>d, LoadingSound DEF Subrequest
  <2>2. stages' = Store!Asked(n) /\ held' = held
    BY <1>a, <1>3, FindAsks DEF Subrequest
  <2>3. CASE Called(n, sync)
    <3>1. stages[n] = "None" /\ UNCHANGED links
      BY <1>3, <2>3 DEF Subrequest, Called, Known, Stored, stages, Stage
    <3>2. Store!Ask(n)
      BY <2>2, <3>1 DEF Store!Ask, links
    <3>3. QED
      BY <3>2 DEF Store!Next
  <2>4. CASE ~ Called(n, sync)
    <3>1. Depend(m, n)
      BY <1>3, <2>4 DEF Subrequest
    <3>2. Store!Use(m, n)
      BY <2>1, <2>2, <3>1 DEF Depend, Store!Use
    <3>3. QED
      BY <2>1, <3>2 DEF Store!Next
  <2>5. QED
    BY <2>3, <2>4
<1>4. ASSUME NEW t \in Thread, NEW n \in Name, SubrequestRefused(t, n)
      PROVE  Store!Next
  <2> DEFINE m == Top(t).name
  <2>1. m \in Name /\ status[m] = "Enqueuing" /\ status[n] = "None"
    BY <1>4, LoadingSound DEF SubrequestRefused, Refused, Known, Stored
  <2>2. /\ status' = [status EXCEPT ![n] = "Unloaded", ![m] = "Failed"]
        /\ UNCHANGED links /\ UNCHANGED held
    BY <1>4 DEF SubrequestRefused
  <2> HIDE DEF m
  <2>3. stages[m] = "Loading" /\ stages[n] = "None"
    BY <2>1 DEF stages, Stage
  <2>4. stages' = [Store!Asked(n) EXCEPT ![m] = "Failed"]
    <3>1. \A x \in Name : Stage(x)' = IF x = m THEN "Failed"
                                      ELSE IF x = n THEN "Loading" ELSE Stage(x)
      BY <1>a, <2>1, <2>2 DEF Stage, TypeOK
    <3>2. QED
      BY <2>1, <2>3, <3>1 DEF stages, Store!Asked
  <2>5. Store!UseRefused(m, n)
    BY <2>2, <2>3, <2>4 DEF links, Store!UseRefused
  <2>6. QED
    BY <2>1, <2>5 DEF Store!Next
<1>5. ASSUME NEW t \in Worker, NEW n \in Name, StartTask(t, n)
      PROVE  Still
  <2>1. status[n] \in {"Unloaded", "Enqueuing"}
    BY <1>5 DEF StartTask, ContainerInv, LoadSound
  <2>2. QED
    BY <1>a, <1>5, <2>1, StageKept DEF StartTask
<1>6. ASSUME NEW t \in Thread, EndLoad(t)
      PROVE  Still
  <2>1. Top(t).name \in Name /\ status[Top(t).name] = "Enqueuing"
    BY <1>6, LoadingSound DEF EndLoad
  <2>2. QED
    BY <1>a, <1>6, <2>1, StageKept DEF EndLoad
<1>7. ASSUME NEW t \in Thread, FailLoad(t)
      PROVE  Store!Next
  <2> DEFINE m == Top(t).name
  <2>1. m \in Name /\ stages[m] = "Loading"
    BY <1>7, <1>d, LoadingSound DEF FailLoad
  <2>2. /\ status' = [status EXCEPT ![m] = "Failed"]
        /\ UNCHANGED links /\ UNCHANGED held
    BY <1>7 DEF FailLoad
  <2> HIDE DEF m
  <2>3. stages' = [stages EXCEPT ![m] = "Failed"]
    BY <1>a, <2>1, <2>2, StageChanged
  <2>4. Store!Fail(m)
    BY <2>1, <2>2, <2>3 DEF links, Store!Fail, Store!Outcome
  <2>5. QED
    BY <2>1, <2>4 DEF Store!Next
<1>7a. ASSUME NEW t \in Thread, Return(t)
       PROVE  Store!Next \/ UNCHANGED Store!vars
  BY <1>7a, ReturnRefines
<1>8. ASSUME NEW n \in Name, NEW success \in BOOLEAN,
             Settle(n, success) \/ SettleAgain(n, success)
      PROVE  Store!Next
  <2> DEFINE unsure == {x \in Name : late[x] > 0}
  <2>1. Store!Outcome(n, success)
    BY <1>8, OutcomeRefines DEF Settle, SettleAgain
  <2>2. /\ \E i \in Nat : late' = [late EXCEPT ![n] = i]
        /\ late \in [Name -> Nat]
    BY <1>a, <1>8 DEF Settle, SettleAgain, TypeOK
  <2>3. \A x \in Name : x # n => late'[x] = late[x]
    BY <2>2
  <2>4. CASE Settle(n, success)
    <3>1. stages[n] = "Loading" /\ uses[n] \subseteq created
      BY <2>4, WokenUses DEF Settle, Waking, stages, Stage
    <3>2. n \notin unsure
      BY <2>4 DEF Settle, Waking, ContainerInv, LinksSound, Ended
    <3>3. unsure' \in {unsure, unsure \union {n}}
      BY <2>3, <3>2
    <3>4. Store!Create(n, success)
      BY <2>1, <3>1, <3>3 DEF Store!Create
    <3>5. QED
      BY <3>4 DEF Store!Next
  <2>5. CASE SettleAgain(n, success)
    <3>1. n \in unsure
      BY <2>5 DEF SettleAgain
    <3>2. unsure' \in {unsure, unsure \ {n}}
      BY <2>3, <3>1
    <3>3. Store!CreateAgain(n, success)
      BY <2>1, <3>1, <3>2 DEF Store!CreateAgain
    <3>4. QED
      BY <3>3 DEF Store!Next
  <2>6. QED
    BY <1>8, <2>4, <2>5
<1>9. ASSUME NEW n \in Name, NEW done \in BOOLEAN, FileDownloaded(n, done)
      PROVE  Still
  BY <1>9, <1>c DEF FileDownloaded
<1>10. CASE BeginSweep
  <2>1. Still
    BY <1>10, <1>c DEF BeginSweep
  <2>2. QED
    BY <1>b, <2>1
<1>11. CASE SweepContainer
  BY <1>11, SweepRefines DEF Store!Next
<1>12. CASE UNCHANGED vars
  <2>1. Still
    BY <1>12, <1>c DEF vars, links
  <2>2. QED
    BY <1>b, <2>1
<1> HIDE DEF Still
<1>13. QED
  BY <1>b, <1>1, <1>2, <1>3, <1>4, <1>5, <1>6, <1>7, <1>7a, <1>8, <1>9, <1>10, <1>11, <1>12 DEF Next

(***************************************************************************)
(* The containers keep what ResourceStore promises: whatever threads,      *)
(* tasks, downloads and sweeps do, each step looks to clients and to       *)
(* resources like one of its own, or like nothing.                         *)
(***************************************************************************)
THEOREM Implements == Spec => StoreKept
<1>1. Init => Store!Init
  <2> SUFFICES ASSUME Init
               PROVE  Store!Init
    OBVIOUS
  <2>1. stages = [n \in Name |-> "None"]
    BY DEF Init, stages, Stage
  <2>2. QED
    BY <2>1 DEF Init, Store!Init
<1>2. ContainerInv /\ [Next]_vars => [Store!Next]_(Store!vars)
  BY StoreStep
<1>3. QED
  BY <1>1, <1>2, ContainerInit, ContainerStep, PTL DEF Spec, StoreKept, Store!Spec

(***************************************************************************)
(* What follows from the promise.                                          *)
(***************************************************************************)
LEMMA StoreTyped ==
    ASSUME ContainerInv
    PROVE  /\ stages \in [Name -> {"None", "Loading", "Loaded", "Failed"}]
           /\ held \in [Client -> SUBSET Name] /\ uses \in [Name -> SUBSET Name]
           /\ \A c \in Client : \A n \in held[c] : stages[n] # "None"
<1>1. TypeOK
  BY DEF ContainerInv
<1>2. stages \in [Name -> {"None", "Loading", "Loaded", "Failed"}]
  <2>1. \A n \in Name : Stage(n) \in {"None", "Loading", "Loaded", "Failed"}
    BY <1>1 DEF TypeOK, Stage
  <2>2. QED
    BY <2>1 DEF stages
<1>3. \A c \in Client : \A n \in held[c] : stages[n] # "None"
  BY <1>1 DEF TypeOK, ContainerInv, HeldSound, Stored, stages, Stage
<1>4. QED
  BY <1>1, <1>2, <1>3 DEF TypeOK

\* All that a loaded resource uses was loaded, and is still there, whatever
\* sweeps, failures and further requests there are.
THEOREM LoadedUsable == Spec => []Store!Usable
<1>1. ContainerInv => Store!Usable
  <2> SUFFICES ASSUME ContainerInv, NEW n \in Name, stages[n] = "Loaded", NEW x \in uses[n]
               PROVE  x \in created /\ stages[x] \in {"Loaded", "Failed"}
    BY DEF Store!Usable
  <2>1. status[n] = "Loaded"
    BY DEF stages, Stage
  <2>2. x \in Name /\ x \in created
    BY <2>1 DEF ContainerInv, LinksSound, TypeOK
  <2>3. Ended(x)
    BY <2>2 DEF ContainerInv, LinksSound
  <2>4. QED
    BY <2>2, <2>3 DEF Ended, stages, Stage
<1>2. QED
  BY <1>1, ContainerInit, ContainerStep, PTL DEF Spec

LEMMA KeptStep ==
    ASSUME ContainerInv, [Store!Next]_(Store!vars), NEW c \in Client, NEW x \in held[c]
    PROVE  Store!Kept(x)
<1>1. /\ stages \in [Name -> {"None", "Loading", "Loaded", "Failed"}]
      /\ x \in Name /\ stages[x] # "None" /\ c \in Client
  BY StoreTyped
<1>2. ASSUME NEW n \in Name
      PROVE  Store!Asked(n)[x] = stages[x]
  BY <1>1 DEF Store!Asked
<1> DEFINE unsure == {n \in Name : late[n] > 0}
<1>2a. ASSUME stages'[x] = stages[x], unsure' = unsure
       PROVE  Store!Kept(x)
  BY <1>1, <1>2a DEF Store!Kept
<1>3. ASSUME NEW d \in Client, NEW n \in Name, Store!Get(d, n) \/ Store!Release(d, n)
      PROVE  Store!Kept(x)
  BY <1>2, <1>2a, <1>3 DEF Store!Get, Store!Release
<1>4. ASSUME NEW n \in Name, Store!Ask(n)
      PROVE  Store!Kept(x)
  BY <1>2, <1>2a, <1>4 DEF Store!Ask
<1>5. ASSUME NEW n \in Name, Store!Fail(n)
      PROVE  Store!Kept(x)
  <2>1. CASE x = n
    BY <1>1, <1>5, <2>1 DEF Store!Fail, Store!Outcome, Store!Kept
  <2>2. CASE x # n
    BY <1>1, <1>2a, <1>5, <2>2 DEF Store!Fail, Store!Outcome
  <2>3. QED
    BY <2>1, <2>2
<1>6. ASSUME NEW p \in Name, NEW n \in Name, Store!Use(p, n)
      PROVE  Store!Kept(x)
  BY <1>2, <1>2a, <1>6 DEF Store!Use
<1>7. ASSUME NEW p \in Name, NEW n \in Name, Store!UseRefused(p, n)
      PROVE  Store!Kept(x)
  <2>1. Store!Asked(n) \in [Name -> {"None", "Loading", "Loaded", "Failed"}]
    BY <1>1 DEF Store!Asked
  <2>2. stages'[x] = IF x = p THEN "Failed" ELSE stages[x]
    BY <1>1, <1>2, <1>7, <2>1 DEF Store!UseRefused
  <2>3. CASE x = p
    BY <1>1, <1>7, <2>2, <2>3 DEF Store!UseRefused, Store!Kept
  <2>4. CASE x # p
    BY <1>2a, <1>7, <2>2, <2>4 DEF Store!UseRefused
  <2>5. QED
    BY <2>3, <2>4
<1>8. ASSUME NEW n \in Name, NEW success \in BOOLEAN,
             Store!Create(n, success) \/ Store!CreateAgain(n, success)
      PROVE  Store!Kept(x)
  <2>1. /\ stages[n] = "Loading" \/ n \in unsure
        /\ stages' = [stages EXCEPT ![n] = IF success THEN "Loaded" ELSE "Failed"]
        /\ unsure' \in {unsure, unsure \union {n}, unsure \ {n}}
    BY <1>8 DEF Store!Create, Store!CreateAgain, Store!Outcome
  <2>2. CASE x = n
    <3>1. stages'[x] \in {"Loaded", "Failed"}
      BY <1>1, <2>1, <2>2
    <3>2. QED
      BY <2>1, <2>2, <3>1 DEF Store!Kept
  <2>3. CASE x # n
    <3>1. stages'[x] = stages[x]
      BY <1>1, <2>1, <2>3
    <3>2. x \in unsure' => x \in unsure
      BY <2>1, <2>3
    <3>3. QED
      BY <1>1, <3>1, <3>2 DEF Store!Kept
  <2>4. QED
    BY <2>2, <2>3
<1>9. ASSUME NEW E \in SUBSET Name, Store!Drop(E)
      PROVE  Store!Kept(x)
  <2>1. x \notin E
    BY <1>1, <1>9 DEF Store!Drop
  <2>2. QED
    BY <1>1, <1>2a, <1>9, <2>1 DEF Store!Drop
<1>10. CASE UNCHANGED Store!vars
  BY <1>2a, <1>10 DEF Store!vars
<1>11. QED
  BY <1>3, <1>4, <1>5, <1>6, <1>7, <1>8, <1>9, <1>10 DEF Store!Next

\* What a client keeps is not dropped nor loaded anew, and once it is loaded or
\* failed it stays so, unless another thread is still creating it as well.
THEOREM HandedOut == Spec => Store!HandedOutForGood
<1>1. ContainerInv /\ [Next]_vars
        => [\A c \in Client : \A n \in held[c] : Store!Kept(n)]_(Store!vars)
  BY StoreStep, KeptStep
<1>2. QED
  BY <1>1, ContainerInit, ContainerStep, PTL DEF Spec, Store!HandedOutForGood

-----------------------------------------------------------------------------
(***************************************************************************)
(* The mutexes.  The inductive invariant is that the calls a thread is     *)
(* inside go down the order of the containers, as what they ask for does.  *)
(***************************************************************************)
LayersSound ==
    \A t \in Thread : \A k, l \in 1 .. Depth(t) :
        k < l => Pos(At(t, k).name) < Pos(At(t, l).name)

LEMMA LayersFind ==
    ASSUME ContainerInv, LayersSound, NEW t \in Thread, NEW n \in Name,
           NEW sync \in BOOLEAN, NEW s, GoesOn(t, s), Find(t, n, sync, s),
           Inside(t) => n \in Top(t).rest
    PROVE  LayersSound'
<1> USE DEF ContainerInv
<1>1. ASSUME calls' = [calls EXCEPT ![t] = s]
      PROVE  LayersSound'
  <2>1. /\ \A u \in Thread : Depth(u)' = Depth(u)
        /\ \A u \in Thread : \A k \in 1 .. Depth(u) : At(u, k)'.name = At(u, k).name
    BY <1>1, GoOnCalls
  <2>2. SUFFICES ASSUME NEW u \in Thread, NEW k \in 1 .. Depth(u)',
                        NEW l \in 1 .. Depth(u)', k < l
                 PROVE  Pos(At(u, k)'.name) < Pos(At(u, l)'.name)
    BY DEF LayersSound
  <2>3. k \in 1 .. Depth(u) /\ l \in 1 .. Depth(u)
    BY <2>1
  <2>4. QED
    BY <2>1, <2>2, <2>3 DEF LayersSound
<1>2. ASSUME FoundByCaller(t, n, s)
      PROVE  LayersSound'
  <2> DEFINE f == [name |-> n, rest |-> Needs[n], locked |-> TRUE]
  <2>1. f \in Frame /\ f.name = n
    BY NewCall
  <2>2. calls' = [calls EXCEPT ![t] = <<f>> \o s]
    BY <1>2 DEF FoundByCaller
  <2> HIDE DEF f
  <2>3. /\ \A u \in Thread : \A k \in 1 .. Depth(u)' :
              \/ u = t /\ k = Depth(t) + 1 /\ At(u, k)' = f
              \/ k \in 1 .. Depth(u)
        /\ \A u \in Thread : \A k \in 1 .. Depth(u) : At(u, k)'.name = At(u, k).name
    BY <2>1, <2>2, BeginCall
  <2>4. ASSUME NEW k \in 1 .. Depth(t)
        PROVE  Pos(At(t, k).name) < Pos(n)
    <3>1. Depth(t) \in Nat /\ Inside(t)
      BY PlaceTyped, EmptyCalls DEF Inside
    <3>2. /\ Top(t) = At(t, Depth(t)) /\ Depth(t) \in 1 .. Depth(t)
          /\ Top(t).name \in Name
      BY <3>1, TopIsLast DEF Frame
    <3>3. n \in Needs[Top(t).name]
      BY <3>1, <3>2 DEF CallsSound
    <3>4. Pos(Top(t).name) < Pos(n)
      BY <3>2, <3>3, PosGrows
    <3>5. At(t, k).name \in Name
      BY PlaceTyped DEF Frame
    <3>6. /\ Pos(At(t, k).name) \in Nat /\ Pos(Top(t).name) \in Nat
          /\ Pos(n) \in Nat
      BY <3>2, <3>5, PosTyped
    <3>7. CASE k < Depth(t)
      <4>1. Pos(At(t, k).name) < Pos(Top(t).name)
        BY <3>2, <3>7 DEF LayersSound
      <4>2. QED
        BY <3>4, <3>6, <4>1
    <3>8. CASE k = Depth(t)
      BY <3>2, <3>4, <3>8
    <3>9. QED
      BY <3>1, <3>7, <3>8
  <2>5. SUFFICES ASSUME NEW u \in Thread, NEW k \in 1 .. Depth(u)',
                        NEW l \in 1 .. Depth(u)', k < l
                 PROVE  Pos(At(u, k)'.name) < Pos(At(u, l)'.name)
    BY DEF LayersSound
  <2>6. Depth(t) \in Nat
    BY DEF TypeOK, Depth
  <2>7. CASE l \in 1 .. Depth(u)
    <3>1. k \in 1 .. Depth(u)
      BY <2>3, <2>5, <2>6, <2>7
    <3>2. QED
      BY <2>3, <2>5, <2>7, <3>1 DEF LayersSound
  <2>8. CASE l \notin 1 .. Depth(u)
    <3>1. u = t /\ l = Depth(t) + 1 /\ At(u, l)' = f
      BY <2>3, <2>8
    <3>2. k \in 1 .. Depth(t)
      BY <2>3, <2>5, <2>6, <3>1
    <3>3. QED
      BY <2>1, <2>3, <2>4, <3>1, <3>2
  <2>9. QED
    BY <2>7, <2>8
<1>3. QED
  BY <1>1, <1>2, FindCases DEF FoundKnown, FoundQueued, FoundAway

LEMMA LayersEnd ==
    ASSUME ContainerInv, LayersSound, NEW t \in Thread, Inside(t),
           calls' = [calls EXCEPT ![t] = Tail(@)]
    PROVE  LayersSound'
<1>1. \A u \in Thread : \A k \in 1 .. Depth(u)' :
        k \in 1 .. Depth(u) /\ At(u, k)' = At(u, k)
  BY EndCalls DEF ContainerInv
<1>2. SUFFICES ASSUME NEW u \in Thread, NEW k \in 1 .. Depth(u)',
                      NEW l \in 1 .. Depth(u)', k < l
               PROVE  Pos(At(u, k)'.name) < Pos(At(u, l)'.name)
  BY DEF LayersSound
<1>3. QED
  BY <1>1, <1>2 DEF LayersSound

LEMMA LayersStep == ContainerInv /\ LayersSound /\ [Next]_vars => LayersSound'
<1> SUFFICES ASSUME ContainerInv, LayersSound, [Next]_vars
             PROVE  LayersSound'
  OBVIOUS
<1> USE DEF ContainerInv, Thread
<1>a. ASSUME UNCHANGED calls
      PROVE  LayersSound'
  BY <1>a DEF LayersSound, At, Depth
<1>1. ASSUME NEW t \in Client, NEW n \in Name, NEW sync \in BOOLEAN, Request(t, n, sync)
      PROVE  LayersSound'
  <2>1. GoesOn(t, <<>>) /\ Find(t, n, sync, <<>>) /\ ~ Inside(t)
    BY <1>1, EmptyCalls DEF Request, Inside
  <2>2. QED
    BY <2>1, LayersFind
<1>2. ASSUME NEW t \in Client, NEW n \in Name, Release(t, n)
      PROVE  LayersSound'
  BY <1>a, <1>2 DEF Release
<1>3. ASSUME NEW t \in Thread, NEW n \in Name, NEW sync \in BOOLEAN, Subrequest(t, n, sync)
      PROVE  LayersSound'
  <2> DEFINE s == <<[Top(t) EXCEPT !.rest = @ \ {n}]>> \o Tail(calls[t])
  <2>1. GoesOn(t, s) /\ Find(t, n, sync, s) /\ n \in Top(t).rest
    BY <1>3, AskedCalls DEF Subrequest, Loading
  <2> HIDE DEF s
  <2>2. QED
    BY <2>1, LayersFind
<1>4. ASSUME NEW t \in Thread, NEW n \in Name, SubrequestRefused(t, n)
      PROVE  LayersSound'
  BY <1>a, <1>4 DEF SubrequestRefused
<1>5. ASSUME NEW t \in Worker, NEW n \in Name, StartTask(t, n)
      PROVE  LayersSound'
  <2> DEFINE f == [name |-> n, rest |-> Needs[n], locked |-> FALSE]
  <2>1. /\ calls'[t] = <<f>>
        /\ \A u \in Thread : u # t => calls'[u] = calls[u]
    BY <1>5 DEF StartTask, TypeOK
  <2>2. Depth(t)' = 1
    BY <2>1 DEF Depth
  <2>3. \A k, l \in 1 .. Depth(t)' : ~ (k < l)
    BY <2>2
  <2>4. \A u \in Thread : u # t => Depth(u)' = Depth(u) /\ \A k : At(u, k)' = At(u, k)
    BY <2>1 DEF Depth, At
  <2>5. QED
    BY <2>3, <2>4 DEF LayersSound
<1>6. ASSUME NEW t \in Thread, EndLoad(t) \/ FailLoad(t)
      PROVE  LayersSound'
  BY <1>a, <1>6 DEF EndLoad, FailLoad
<1>7. ASSUME NEW t \in Thread, Return(t)
      PROVE  LayersSound'
  BY <1>7, LayersEnd DEF Return
<1>8. ASSUME NEW n \in Name, NEW success \in BOOLEAN,
             Settle(n, success) \/ SettleAgain(n, success)
      PROVE  LayersSound'
  BY <1>a, <1>8 DEF Settle, SettleAgain, Outcome
<1>9. ASSUME NEW n \in Name, NEW done \in BOOLEAN, FileDownloaded(n, done)
      PROVE  LayersSound'
  BY <1>a, <1>9 DEF FileDownloaded
<1>10. CASE BeginSweep
  BY <1>a, <1>10 DEF BeginSweep
<1>11. CASE SweepContainer
  BY <1>a, <1>11 DEF SweepContainer
<1>12. CASE UNCHANGED vars
  BY <1>a, <1>12 DEF vars
<1>13. QED
  BY <1>1, <1>2, <1>3, <1>4, <1>5, <1>6, <1>7, <1>8, <1>9, <1>10, <1>11, <1>12 DEF Next

\* Who holds the mutex that the call of t may wait for, t itself or another, is
\* inside a call for a container further down the order.
LEMMA HolderBelow ==
    ASSUME ContainerInv, LayersSound, NEW t \in Thread, Inside(t), MayWait(t)
    PROVE  \E u \in Thread : Inside(u) /\ Pos(Top(t).name) < Pos(Top(u).name)
<1> USE DEF ContainerInv
<1>1. PICK n \in Top(t).rest : Locked(Home[n])
  BY DEF MayWait
<1>2. /\ Top(t) = At(t, Depth(t)) /\ Depth(t) \in 1 .. Depth(t)
      /\ Top(t).name \in Name /\ n \in Name
  BY TopIsLast DEF Frame
<1>3. Pos(Top(t).name) < Pos(n)
  <2>1. n \in Needs[Top(t).name]
    BY <1>2 DEF CallsSound
  <2>2. QED
    BY <1>2, <2>1, PosGrows
<1>4. PICK u \in Thread : \E f \in Frames(u) : f.locked /\ Home[f.name] = Home[n]
  BY <1>1 DEF Locked
<1>5. PICK f \in Range(calls[u]) : Home[f.name] = Home[n]
  BY <1>4 DEF Frames
<1>6. calls[u] \in Seq(Frame)
  BY DEF TypeOK
<1>7. PICK i \in DOMAIN calls[u] : calls[u][i] = f
  BY DEF Range
<1>8. i \in 1 .. Depth(u) /\ Depth(u) \in Nat /\ calls[u] # <<>>
  BY <1>6, <1>7 DEF Depth
<1> DEFINE k == Depth(u) + 1 - i
<1>9. k \in 1 .. Depth(u) /\ Depth(u) + 1 - k = i
  BY <1>8
<1>10. At(u, k) = f
  BY <1>7, <1>9 DEF At
<1> HIDE DEF k
<1>11. Inside(u) /\ Top(u) = At(u, Depth(u)) /\ Top(u).name \in Name
  BY <1>8, TopIsLast DEF Inside, Frame
<1>12. Pos(f.name) = Pos(n)
  BY <1>5 DEF Pos
<1>13. At(u, k).name \in Name
  BY <1>9, PlaceTyped DEF Frame
<1>14. /\ Pos(Top(t).name) \in Nat /\ Pos(Top(u).name) \in Nat /\ Pos(n) \in Nat
  BY <1>2, <1>11, PosTyped
<1>15. CASE k < Depth(u)
  <2>1. Pos(n) < Pos(Top(u).name)
    BY <1>8, <1>9, <1>10, <1>11, <1>12, <1>15 DEF LayersSound
  <2>2. QED
    BY <1>3, <1>11, <1>14, <2>1
<1>16. CASE k = Depth(u)
  BY <1>3, <1>10, <1>11, <1>12, <1>16
<1>17. QED
  BY <1>8, <1>9, <1>15, <1>16

\* Synchronous loads do not deadlock: of the threads inside load(), one at least
\* has no mutex to wait for, whatever it asks for next.
THEOREM DeadlockFree == Spec => []NoDeadlock
<1>1. Init => LayersSound
  <2> SUFFICES ASSUME Init, NEW t \in Thread
               PROVE  Depth(t) = 0
    BY DEF LayersSound
  <2>1. QED
    BY DEF Init, Depth
<1>2. ContainerInv /\ LayersSound => NoDeadlock
  <2> SUFFICES ASSUME ContainerInv, LayersSound, NEW v \in Thread, Inside(v)
               PROVE  \E t \in Thread : Inside(t) /\ ~ MayWait(t)
    BY DEF NoDeadlock
  <2> DEFINE G == {Top(t).name : t \in {u \in Thread : Inside(u)}}
  <2>1. \A t \in Thread : Inside(t) => Top(t).name \in Name
    BY TopIsLast DEF ContainerInv, Frame
  <2>2. G \in SUBSET Name /\ G # {}
    BY <2>1
  <2>3. PICK n \in G : \A x \in G : Pos(x) <= Pos(n)
    BY <2>2, FirstAndLast
  <2>4. PICK t \in Thread : Inside(t) /\ Top(t).name = n
    OBVIOUS
  <2>5. ASSUME NEW u \in Thread, Inside(u)
        PROVE  ~ (Pos(n) < Pos(Top(u).name))
    <3>1. Pos(Top(u).name) <= Pos(n)
      BY <2>3, <2>5
    <3>2. Pos(n) \in Nat /\ Pos(Top(u).name) \in Nat
      BY <2>1, <2>2, <2>5, PosTyped
    <3>3. QED
      BY <3>1, <3>2
  <2>6. ~ MayWait(t)
    BY <2>4, <2>5, HolderBelow
  <2>7. QED
    BY <2>4, <2>6
<1>3. QED
  BY <1>1, <1>2, ContainerInit, ContainerStep, LayersStep, PTL DEF Spec
=============================================================================
