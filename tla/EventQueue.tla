------------------------------ MODULE EventQueue ------------------------------
(***************************************************************************)
(* What a session's Events channel promises its reader, with no goroutine, *)
(* lock or wake-up in sight: a queue that takes events until the session   *)
(* ends, hands them over in order, and closes once it is empty, or at once *)
(* when it is stopped.  EventPump is shown to implement it.                *)
(***************************************************************************)
EXTENDS Sequences

CONSTANTS Events,     \* what may be pushed
          NoEvent     \* what the reader holds before the first event

VARIABLES items,      \* accepted and not yet handed over
          ended,      \* no event is accepted any more
          stopped,    \* the rest need not be handed over
          closed,     \* the reader has seen the end of the channel
          last        \* the event handed over last

queueVars == <<items, ended, stopped, closed, last>>

Init ==
    /\ items = <<>>
    /\ ended = FALSE
    /\ stopped = FALSE
    /\ closed = FALSE
    /\ last = NoEvent

Push(e) ==
    /\ ~ended
    /\ items' = Append(items, e)
    /\ UNCHANGED <<ended, stopped, closed, last>>

End ==
    /\ ended' = TRUE
    /\ UNCHANGED <<items, stopped, closed, last>>

Stop ==
    /\ ended
    /\ stopped' = TRUE
    /\ UNCHANGED <<items, ended, closed, last>>

Deliver ==
    /\ ~closed
    /\ items # <<>>
    /\ last' = Head(items)
    /\ items' = Tail(items)
    /\ UNCHANGED <<ended, stopped, closed>>

\* The channel closes after the last event, unless it was stopped.
Close ==
    /\ ~closed
    /\ stopped \/ (ended /\ items = <<>>)
    /\ closed' = TRUE
    /\ UNCHANGED <<items, ended, stopped, last>>

Next == (\E e \in Events : Push(e)) \/ End \/ Stop \/ Deliver \/ Close

Spec == Init /\ [][Next]_queueVars
===============================================================================
