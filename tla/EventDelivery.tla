--------------------------- MODULE EventDelivery ---------------------------
(***************************************************************************)
(* What the event queue of the data layer promises to its callers: an      *)
(* event it accepts is handled at most once and in the order of            *)
(* acceptance, nothing else is handled, and a closed queue accepts nothing *)
(* more.  It does not promise that an accepted event is ever handled: the  *)
(* queue lives in the memory of the process.                               *)
(***************************************************************************)
EXTENDS Naturals, Sequences

CONSTANT Events

VARIABLES
    accepted,   \* the events Apply accepted, in order
    handled,    \* the events the worker began to handle, in order
    open        \* whether the queue accepts events

vars == <<accepted, handled, open>>

Occurs(e, s) == \E i \in DOMAIN s : s[i] = e

Init ==
    /\ accepted \in {<<>>} \cup {<<e>> : e \in Events}
    /\ handled = <<>>
    /\ open = TRUE

Accept(e) ==
    /\ open /\ ~Occurs(e, accepted)
    /\ accepted' = Append(accepted, e)
    /\ UNCHANGED <<handled, open>>

Handle ==
    /\ Len(handled) < Len(accepted)
    /\ handled' = Append(handled, accepted[Len(handled) + 1])
    /\ UNCHANGED <<accepted, open>>

Close ==
    /\ open
    /\ open' = FALSE
    /\ UNCHANGED <<accepted, handled>>

Next == (\E e \in Events : Accept(e)) \/ Handle \/ Close

Spec == Init /\ [][Next]_vars

=============================================================================
