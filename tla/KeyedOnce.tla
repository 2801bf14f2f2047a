------------------------------ MODULE KeyedOnce ------------------------------
(***************************************************************************)
(* What an idempotency key promises a client of the fleet trigger, said    *)
(* without caches, clocks or subprocesses.  A key is owned by at most one   *)
(* request at a time: the one whose execution answers for that key.  While  *)
(* it is owned nobody else executes under the key; a request either takes   *)
(* the free key and settles it with its own result, or is answered with     *)
(* the result its owner settled.  FleetTrigger implements this as long as   *)
(* clients do not overlap two requests with one key.                        *)
(***************************************************************************)

CONSTANTS
    Requests,   \* requests clients may send
    Keys,       \* idempotency keys
    None        \* no owner, no answer

VARIABLES
    owner,      \* owner[k]: the request whose execution answers for key k
    source      \* source[r]: the request whose execution answered r

vars == <<owner, source>>

TypeOK ==
    /\ owner \in [Keys -> Requests \cup {None}]
    /\ source \in [Requests -> Requests \cup {None}]

Init ==
    /\ owner = [k \in Keys |-> None]
    /\ source = [r \in Requests |-> None]

\* r begins to execute under k, which nobody owns.
Take(r, k) ==
    /\ owner[k] = None
    /\ source[r] = None
    /\ \A j \in Keys : owner[j] # r
    /\ owner' = [owner EXCEPT ![k] = r]
    /\ UNCHANGED source

\* r's execution ends; its result either stays the answer of k or is dropped.
Settle(r, k) ==
    /\ owner[k] = r
    /\ source[r] = None
    /\ source' = [source EXCEPT ![r] = r]
    /\ owner' \in {owner, [owner EXCEPT ![k] = None]}

\* r is answered with the result the owner of k settled.
Replay(r, k) ==
    /\ owner[k] # None
    /\ source[owner[k]] = owner[k]
    /\ source[r] = None
    /\ source' = [source EXCEPT ![r] = owner[k]]
    /\ UNCHANGED owner

\* Windows close, or the process restarts and forgets.
Release(S) ==
    /\ owner' = [k \in Keys |-> IF k \in S THEN None ELSE owner[k]]
    /\ UNCHANGED source

Next ==
    \/ \E r \in Requests, k \in Keys : Take(r, k) \/ Settle(r, k) \/ Replay(r, k)
    \/ \E S \in SUBSET Keys : Release(S)

Spec == Init /\ [][Next]_vars
=============================================================================
