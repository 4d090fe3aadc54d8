------------------------------ MODULE SessionContract ------------------------------
(***************************************************************************)
(* What a driver.Session promises the reader of its Events: turns start    *)
(* and end one at a time, an approval is asked for once and settled once,  *)
(* and nothing is told once the channel is ending.  The drivers that keep  *)
(* it instantiate it with the events their pump has accepted.              *)
(***************************************************************************)
EXTENDS Naturals

CONSTANTS Approvals,  \* the approvals an agent may ask for
          MayCross    \* the driver may tell one as resolved before it asks for it

VARIABLES started,    \* turn.started events
          ended,      \* turn.completed events, and the errors that end a turn
          approval,   \* what the reader has been told of each approval
          gone,       \* the driver knows the agent's process to be gone
          closed      \* the pump takes no more

vars == <<started, ended, approval, gone, closed>>

Init ==
    /\ started = 0 /\ ended = 0
    /\ approval = [a \in Approvals |-> "nothing"]
    /\ gone = FALSE /\ closed = FALSE

\* One turn at a time, while there is an agent to run it.  A prompt that meets
\* the agent's exit may start a turn nobody ends.
MayStart == started = ended \/ gone

\* The reader's view of turns in one step: no news, a start, an end, or both
\* when all the agent said of a turn is its result.
TurnNews ==
    \/ UNCHANGED <<started, ended>>
    \/ MayStart /\ started' = started + 1 /\ UNCHANGED ended
    \/ ended < started /\ ended' = ended + 1 /\ UNCHANGED started
    \/ started = ended /\ started' = started + 1 /\ ended' = ended + 1

\* Approvals are settled together when the turn they belong to ends.  One told
\* as settled before it was asked for is asked for unseen.
Ask(a) == approval[a] = "nothing" /\ approval' = [approval EXCEPT ![a] = "asked"]

Settle(settled) ==
    /\ \A a \in settled : approval[a] = "asked" \/ (MayCross /\ approval[a] = "nothing")
    /\ approval' = [a \in Approvals |-> IF a \in settled THEN "settled" ELSE approval[a]]

ApprovalNews ==
    \/ \E a \in Approvals : Ask(a)
    \/ \E settled \in SUBSET Approvals : Settle(settled)

Tell ==
    /\ ~closed
    /\ TurnNews
    /\ ApprovalNews
    /\ UNCHANGED <<gone, closed>>

\* What the driver learns of the exit it tells at once: the turn that was left
\* and the approvals nobody will answer.
AgentGone ==
    /\ ~gone
    /\ gone' = TRUE
    /\ \/ UNCHANGED <<started, ended, approval>>
       \/ /\ ~closed
          /\ UNCHANGED started
          /\ ended' \in {ended, started}
          /\ \E settled \in SUBSET Approvals : Settle(settled)
    /\ UNCHANGED closed

CloseEvents ==
    /\ ~closed
    /\ closed' = TRUE
    /\ UNCHANGED <<started, ended, approval, gone>>

Next == Tell \/ AgentGone \/ CloseEvents

Spec == Init /\ [][Next]_vars
===============================================================================
