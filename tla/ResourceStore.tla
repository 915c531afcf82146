---------------------------- MODULE ResourceStore ----------------------------
(***************************************************************************)
(* What the containers of src/src/Resources promise to those who use       *)
(* resources, whatever threads, tasks, downloads and sweeps are behind it: *)
(* a name stands for one resource as long as something keeps it, and a     *)
(* resource is loaded once all that it uses has been.                      *)
(***************************************************************************)
CONSTANTS Name, Client

VARIABLES
    state,   \* "None", "Loading", and then "Loaded" or "Failed"
    held,    \* what each client keeps
    uses,    \* what each resource keeps
    created, \* those that were loaded once, at least
    unsure   \* those that loaded or failed, and may yet change their mind

vars == <<state, held, uses, created, unsure>>

Init ==
    /\ state = [n \in Name |-> "None"]
    /\ held = [c \in Client |-> {}]
    /\ uses = [n \in Name |-> {}]
    /\ created = {}
    /\ unsure = {}

Asked(n) == [state EXCEPT ![n] = IF @ = "None" THEN "Loading" ELSE @]

\* A client asks for n, and gets the resource there is, or a new one.
Get(c, n) ==
    /\ state' = Asked(n)
    /\ held' = [held EXCEPT ![c] = @ \union {n}]
    /\ UNCHANGED <<uses, created, unsure>>

\* A new resource that is not handed out, or not yet.
Ask(n) ==
    /\ state[n] = "None"
    /\ state' = Asked(n)
    /\ UNCHANGED <<held, uses, created, unsure>>

Release(c, n) ==
    /\ held' = [held EXCEPT ![c] = @ \ {n}]
    /\ UNCHANGED <<state, uses, created, unsure>>

\* The resource p, while it is loading, begins to use n.
Use(p, n) ==
    /\ state[p] = "Loading"
    /\ state' = Asked(n)
    /\ uses' = [uses EXCEPT ![p] = @ \union {n}]
    /\ UNCHANGED <<held, created, unsure>>

\* ...or is refused n, and fails.
UseRefused(p, n) ==
    /\ state[p] = "Loading" /\ state[n] = "None"
    /\ state' = [Asked(n) EXCEPT ![p] = "Failed"]
    /\ UNCHANGED <<held, uses, created, unsure>>

Outcome(n, success) ==
    /\ state' = [state EXCEPT ![n] = IF success THEN "Loaded" ELSE "Failed"]
    /\ created' = IF success THEN created \union {n} ELSE created
    /\ UNCHANGED <<held, uses>>

\* The loading of n fails before n is created.
Fail(n) ==
    /\ state[n] = "Loading"
    /\ Outcome(n, FALSE)
    /\ UNCHANGED unsure

\* n is created, or fails to be, once all that it uses has been loaded.
Create(n, success) ==
    /\ state[n] = "Loading"
    /\ uses[n] \subseteq created
    /\ Outcome(n, success)
    /\ unsure' \in {unsure, unsure \union {n}}

\* n was being created more than once.
CreateAgain(n, success) ==
    /\ n \in unsure
    /\ Outcome(n, success)
    /\ unsure' \in {unsure, unsure \ {n}}

\* What nobody keeps but those dropped may be dropped, once it is settled.
Drop(E) ==
    /\ E \intersect unsure = {}
    /\ \A c \in Client : held[c] \intersect E = {}
    /\ \A p \in Name \ E : uses[p] \intersect E = {}
    /\ state' = [n \in Name |-> IF n \in E THEN "None" ELSE state[n]]
    /\ uses' = [n \in Name |-> IF n \in E THEN {} ELSE uses[n]]
    /\ created' = created \ E
    /\ UNCHANGED <<held, unsure>>

Next ==
    \/ \E c \in Client, n \in Name : Get(c, n) \/ Release(c, n)
    \/ \E n \in Name : Ask(n) \/ Fail(n)
    \/ \E p \in Name, n \in Name : Use(p, n) \/ UseRefused(p, n)
    \/ \E n \in Name, success \in BOOLEAN : Create(n, success) \/ CreateAgain(n, success)
    \/ \E E \in SUBSET Name : Drop(E)

Spec == Init /\ [][Next]_vars

-----------------------------------------------------------------------------
(***************************************************************************)
(* A resource that is loaded was created after all that it uses, and all   *)
(* that is still there, although sweeps, failures and requests go on.  It  *)
(* is loaded still, unless it was created more than once and the last to   *)
(* do so failed.                                                           *)
(***************************************************************************)
Usable ==
    \A n \in Name : state[n] = "Loaded" =>
        uses[n] \subseteq {x \in created : state[x] \in {"Loaded", "Failed"}}

(***************************************************************************)
(* A resource that a client keeps stays what it is: it is not dropped, it  *)
(* is not loaded anew, and once loaded or failed it does not change but as *)
(* long as another thread is creating it as well.                          *)
(***************************************************************************)
Kept(n) ==
    /\ state'[n] # "None"
    /\ state[n] \in {"Loaded", "Failed"} => state'[n] \in {"Loaded", "Failed"}
    /\ state[n] \in {"Loaded", "Failed"} /\ n \notin unsure =>
        state'[n] = state[n] /\ n \notin unsure'

HandedOutForGood ==
    [][\A c \in Client : \A n \in held[c] : Kept(n)]_vars
=============================================================================
