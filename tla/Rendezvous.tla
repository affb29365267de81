----------------------------- MODULE Rendezvous ------------------------------
(***************************************************************************)
(* What grid.sync() promises: each thread comes to its next barrier and    *)
(* leaves it once every thread of the grid has come to that barrier.       *)
(***************************************************************************)
EXTENDS Integers

CONSTANTS Grid,    \* the threads of the grid
          Rounds   \* how many barriers each runs through

VARIABLES came, left   \* how many barriers each thread has come to, has left
vars == << came, left >>

Init == came = [t \in Grid |-> 0] /\ left = [t \in Grid |-> 0]

Come(t) == /\ came[t] = left[t] /\ came[t] < Rounds
           /\ came' = [came EXCEPT ![t] = @ + 1]
           /\ UNCHANGED left
(* Threads that stand in a barrier leave it, one or several at once. *)
Leave(T) == /\ \A t \in T : /\ left[t] < came[t]
                            /\ \A u \in Grid : came[u] >= came[t]
            /\ left' = [t \in Grid |-> IF t \in T THEN came[t] ELSE left[t]]
            /\ UNCHANGED came

Next == (\E t \in Grid : Come(t)) \/ (\E T \in SUBSET Grid : Leave(T))
Spec == Init /\ [][Next]_vars
=============================================================================
