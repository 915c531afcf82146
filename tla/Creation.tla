------------------------------ MODULE Creation ------------------------------
(***************************************************************************)
(* What the dependency protocol of src/src/Resources/ResourceTrait.cpp     *)
(* promises, whatever locks, lists, notifications and checks are behind    *)
(* it: a resource declares what it needs before it is complete and nothing *)
(* after, and it is created once all of that was created.                  *)
(***************************************************************************)
CONSTANT Resource

VARIABLES
    stage,      \* "Idle", "Declaring", "Complete", "Created" or "Failed"
    needs,      \* what each resource has declared
    created,    \* the resources that have been created
    creating    \* those that onDependenciesLoaded() runs for

vars == <<stage, needs, created, creating>>

Init ==
    /\ stage = [r \in Resource |-> "Idle"]
    /\ needs = [r \in Resource |-> {}]
    /\ created = {}
    /\ creating = {}

Begin(r) ==
    /\ stage[r] = "Idle"
    /\ stage' = [stage EXCEPT ![r] = "Declaring"]
    /\ UNCHANGED <<needs, created, creating>>

Declare(r, D) ==
    /\ stage[r] = "Declaring"
    /\ needs' = [needs EXCEPT ![r] = @ \union D]
    /\ UNCHANGED <<stage, created, creating>>

Complete(r) ==
    /\ stage[r] = "Declaring"
    /\ stage' = [stage EXCEPT ![r] = "Complete"]
    /\ UNCHANGED <<needs, created, creating>>

\* A resource that is refused is never created.
Reject(r) ==
    /\ stage[r] \in {"Idle", "Declaring"}
    /\ stage' = [stage EXCEPT ![r] = "Failed"]
    /\ UNCHANGED <<needs, created, creating>>

Start(r) ==
    /\ stage[r] = "Complete"
    /\ needs[r] \subseteq created
    /\ creating' = creating \union {r}
    /\ UNCHANGED <<stage, needs, created>>

\* Another thread may be creating r as well, and have the last word.
Finish(r, success) ==
    /\ r \in creating
    /\ stage' = [stage EXCEPT ![r] = IF success THEN "Created" ELSE "Failed"]
    /\ created' = IF success THEN created \union {r} ELSE created
    /\ creating' \in {creating, creating \ {r}}
    /\ UNCHANGED needs

Next ==
    \E r \in Resource :
        \/ Begin(r) \/ Complete(r) \/ Reject(r) \/ Start(r)
        \/ \E D \in SUBSET Resource : Declare(r, D)
        \/ \E success \in BOOLEAN : Finish(r, success)

Spec == Init /\ [][Next]_vars

-----------------------------------------------------------------------------
(***************************************************************************)
(* What is created does not need itself, directly or through others: in    *)
(* any set of created resources there is one that needs none of the set.   *)
(***************************************************************************)
NoCircle ==
    \A S \in SUBSET created :
        S # {} => \E r \in S : needs[r] \intersect S = {}

(***************************************************************************)
(* What a resource needs is settled when its creation begins.              *)
(***************************************************************************)
NeedsKept == \A r \in creating \union created : needs'[r] = needs[r]

NeedsSettled == [][NeedsKept]_vars
=============================================================================
