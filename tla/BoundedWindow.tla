--------------------------- MODULE BoundedWindow ---------------------------
(***************************************************************************)
(* What the ring buffer buffer_s of src/include/anp_metrics.h promises     *)
(* ("push an element into the buffer (overwrites the oldest if full)"):   *)
(* it holds the last Size values pushed, oldest first, and counts the      *)
(* values it has overwritten.                                              *)
(***************************************************************************)
EXTENDS Naturals, Sequences

CONSTANTS Size, Values

VARIABLES window, dropped

Init == window = <<>> /\ dropped = 0

Push(v) ==
    IF Len(window) = Size
    THEN window' = Append(Tail(window), v) /\ dropped' = dropped + 1
    ELSE window' = Append(window, v) /\ UNCHANGED dropped

Next == \E v \in Values : Push(v)

Spec == Init /\ [][Next]_<<window, dropped>>
=============================================================================
