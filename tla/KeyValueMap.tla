---------------------------- MODULE KeyValueMap -----------------------------
(***************************************************************************)
(* What hashtable.h promises: a map with one writer at a time, which a     *)
(* reader may look at between any two steps of the writer.  A call takes   *)
(* effect at once, exactly when it succeeds, and at no other key; put may  *)
(* fail at any time.                                                       *)
(***************************************************************************)
CONSTANTS Keys, Values, NoValue

VARIABLES
    map,   \* what a reader finds under each key
    call   \* the call of the writer and how far it is

vars == <<map, call>>

Free == [op |-> "none", key |-> NoValue, value |-> NoValue, state |-> "none"]

Init ==
    /\ map = [k \in Keys |-> NoValue]
    /\ call = Free

Start ==
    \E o \in {"put", "remove"}, k \in Keys, v \in Values :
        /\ call = Free
        /\ call' = [op |-> o, key |-> k, value |-> v, state |-> "called"]
        /\ map' = map

Effect ==
    /\ call.state = "called"
    /\ call' = [call EXCEPT !.state = "done"]
    /\ \/ /\ call.op = "put"
          /\ map' = [map EXCEPT ![call.key] = call.value]
       \/ /\ call.op = "remove"
          /\ map[call.key] # NoValue
          /\ map' = [map EXCEPT ![call.key] = NoValue]

Failure ==
    /\ call.state = "called"
    /\ call.op = "remove" => map[call.key] = NoValue
    /\ call' = [call EXCEPT !.state = "failed"]
    /\ map' = map

Return ==
    /\ call.state \in {"done", "failed"}
    /\ call' = Free
    /\ map' = map

Next == Start \/ Effect \/ Failure \/ Return

Spec == Init /\ [][Next]_vars
=============================================================================
