---------------------------- MODULE BoundedHistory ----------------------------
(***************************************************************************)
(* What the activity ring promises to its readers: the newest items it was *)
(* given, newest first, at most Bound of them, until the process ends.     *)
(***************************************************************************)
EXTENDS Naturals, Sequences

CONSTANTS
    Bound,   \* items kept
    Items    \* what may be added

VARIABLE recent   \* the items kept, newest first

Kept == IF Len(recent) < Bound THEN Len(recent) + 1 ELSE Bound

Init == recent = <<>>

Add(e) == recent' = [k \in 1..Kept |-> IF k = 1 THEN e ELSE recent[k - 1]]

Clear == recent' = <<>>

\* The item added is at the head of what is kept afterwards.
Next == Clear \/ (recent' # <<>> /\ recent'[1] \in Items /\ Add(recent'[1]))

Spec == Init /\ [][Next]_recent
=============================================================================
