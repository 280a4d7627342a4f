------------------------------ MODULE AtLeastOnce ------------------------------
(***************************************************************************)
(* What the entity pipeline promises of each message the broker accepted:  *)
(* it stays outstanding until it is either completed, which takes its      *)
(* effect on the sink first, or rejected.  Effects may be repeated, and a  *)
(* message never goes from completed or rejected back to anything else.    *)
(***************************************************************************)
CONSTANT Messages

VARIABLES
    accepted,    \* messages the broker has queued
    effects,     \* messages that reached the sink at least once
    completed,   \* messages acknowledged to the broker
    dropped      \* messages refused without requeue

aloVars == <<accepted, effects, completed, dropped>>

Outstanding == accepted \ (completed \cup dropped)

Init == accepted = {} /\ effects = {} /\ completed = {} /\ dropped = {}

Accept(m) ==
    /\ m \notin accepted
    /\ accepted' = accepted \cup {m}
    /\ UNCHANGED <<effects, completed, dropped>>

Effect(m) ==
    /\ m \in accepted
    /\ effects' = effects \cup {m}
    /\ UNCHANGED <<accepted, completed, dropped>>

Complete(m) ==
    /\ m \in Outstanding \cap effects
    /\ completed' = completed \cup {m}
    /\ UNCHANGED <<accepted, effects, dropped>>

Drop(m) ==
    /\ m \in Outstanding
    /\ dropped' = dropped \cup {m}
    /\ UNCHANGED <<accepted, effects, completed>>

Next == \E m \in Messages : Accept(m) \/ Effect(m) \/ Complete(m) \/ Drop(m)

Spec == Init /\ [][Next]_aloVars
=============================================================================
