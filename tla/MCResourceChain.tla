-------------------------- MODULE MCResourceChain --------------------------
(* Instances of ResourceChain for TLC. *)
EXTENDS ResourceChain, TLC

CONSTANTS r1, r2, r3, r4, t1, t2

\* Every resource may name every other one, itself included.
NamesAny == [r \in Resource |-> Resource]

\* A chain with a shared end: r1 names r2 and r3, r2 names r3.
NamesDag == (r1 :> {r2, r3}) @@ (r2 :> {r3}) @@ (r3 :> {})

\* A data error: four descriptions that name each other in a ring.
NamesRing == (r1 :> {r2}) @@ (r2 :> {r3}) @@ (r3 :> {r4}) @@ (r4 :> {r1})

\* Creation succeeds.
OutcomesGood == [r \in Resource |-> {TRUE}]

\* isCreated() is tested and set by two threads at once: either answer.
OutcomesAny == [r \in Resource |-> BOOLEAN]
=============================================================================
