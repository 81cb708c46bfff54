--------------------------- MODULE MessageStream ----------------------------
(***************************************************************************)
(* What the user of a websocket sees: after the upgrade whole messages,    *)
(* and messages in frames of which only the last one is marked as such.    *)
(* The frames of a message follow one another, without a message or a      *)
(* frame of another type in between, and nothing follows the end.          *)
(***************************************************************************)
VARIABLES
    gathers,  \* the frames of a compressed message may be gathered first
    phase,    \* "handshake", "open" or "closed"
    message,  \* type of the message of which some frames are delivered
    event     \* what the last step delivered

vars == <<gathers, phase, message, event>>

Nothing == [what |-> "nothing", type |-> "none", last |-> FALSE]

Init ==
    /\ gathers \in BOOLEAN
    /\ phase = "handshake"
    /\ message = "none"
    /\ event = Nothing

Open ==
    /\ phase = "handshake"
    /\ phase' = "open"
    /\ event' = Nothing
    /\ message' = message

\* A step without delivery, which may end the connection.
Internal ==
    /\ phase' \in {phase, "closed"}
    /\ event' = Nothing
    /\ message' = IF phase' = "closed" THEN "none" ELSE message

\* A delivery may end the connection too: the user refuses the data.
Deliver ==
    /\ phase = "open"
    /\ phase' \in {"open", "closed"}
    /\ \E t \in {"text", "binary"} :
          \/ /\ message = "none"
             /\ event' = [what |-> "message", type |-> t, last |-> TRUE]
             /\ message' = "none"
          \/ /\ message \in {"none", t}
             /\ event' = [what |-> "frame", type |-> t, last |-> FALSE]
             /\ message' = IF phase' = "closed" THEN "none" ELSE t
          \/ /\ message = t \/ (message = "none" /\ gathers)
             /\ event' = [what |-> "frame", type |-> t, last |-> TRUE]
             /\ message' = "none"

Next == (Open \/ Internal \/ Deliver) /\ UNCHANGED gathers

Spec == Init /\ [][Next]_vars
=============================================================================
