---------------------------- MODULE ExactlyOnce ----------------------------
(***************************************************************************)
(* What a store-and-forward queue with retries promises: an item that was  *)
(* offered may be taken into the store, once.                              *)
(***************************************************************************)
EXTENDS Naturals

CONSTANT Items

VARIABLES
    offered, \* the items handed to the queue
    copies   \* how many copies of an item the store holds

vars == <<offered, copies>>

Init ==
    /\ offered = {}
    /\ copies = [i \in Items |-> 0]

Offer(i) ==
    /\ offered' = offered \cup {i}
    /\ UNCHANGED copies

Take(i) ==
    /\ i \in offered
    /\ copies[i] = 0
    /\ copies' = [copies EXCEPT ![i] = 1]
    /\ UNCHANGED offered

Next == \E i \in Items : Offer(i) \/ Take(i)

Spec == Init /\ [][Next]_vars
=============================================================================
