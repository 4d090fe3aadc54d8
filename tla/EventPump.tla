------------------------------- MODULE EventPump -------------------------------
(***************************************************************************)
(* driver/events.go: the eventPump every backend's Events channel is.      *)
(* Producers (read loops, turn goroutines, callers of Close and Kill) push *)
(* under a lock and then signal without blocking; one goroutine swaps the  *)
(* queue out in batches and hands it to the reader.                        *)
(***************************************************************************)
EXTENDS Naturals, Sequences

CONSTANTS Producers,   \* goroutines that call push, end or stopNow
          Events,      \* the events they push
          NoEvent,     \* what the reader holds before the first event
          MaxPushes    \* bound: events accepted in one behaviour

ASSUME NoEventAssumption == NoEvent \notin Events
ASSUME MaxPushesAssumption == MaxPushes \in Nat

VARIABLES
    queue,       \* eventPump.queue
    ended,       \* eventPump.ended
    wake,        \* a token is in eventPump.wake, which holds one
    stopped,     \* eventPump.stop is closed
    producer,    \* where each producer is inside push, end or stopNow
    runner,      \* where run is; "closed" once it has closed out
    batch,       \* run's batch, what is left of it
    reading,     \* the reader still receives from Events
    accepted,    \* history: every event push accepted, in order
    delivered    \* history: every event the reader received, in order

vars == <<queue, ended, wake, stopped, producer, runner, batch, reading,
          accepted, delivered>>

shared == <<queue, ended, accepted>>
runState == <<runner, batch, delivered>>

ProducerStates == {"idle", "signal", "stopSignal", "closeStop"}
RunnerStates == {"take", "send", "park", "closed"}

Init ==
    /\ queue = <<>>
    /\ ended = FALSE
    /\ wake = FALSE
    /\ stopped = FALSE
    /\ producer = [p \in Producers |-> "idle"]
    /\ runner = "take"
    /\ batch = <<>>
    /\ reading = TRUE
    /\ accepted = <<>>
    /\ delivered = <<>>

Goto(p, from, to) ==
    /\ producer[p] = from
    /\ producer' = [producer EXCEPT ![p] = to]

-------------------------------------------------------------------------------
(* Producers.  A push after end returns with nothing changed.              *)

PushLocked(p, e) ==
    /\ ~ended
    /\ Len(accepted) < MaxPushes
    /\ queue' = Append(queue, e)
    /\ accepted' = Append(accepted, e)
    /\ Goto(p, "idle", "signal")
    /\ UNCHANGED <<ended, wake, stopped, reading, runState>>

EndLocked(p) ==
    /\ ended' = TRUE
    /\ Goto(p, "idle", "signal")
    /\ UNCHANGED <<queue, accepted, wake, stopped, reading, runState>>

StopNowLocked(p) ==
    /\ ended' = TRUE
    /\ Goto(p, "idle", "stopSignal")
    /\ UNCHANGED <<queue, accepted, wake, stopped, reading, runState>>

\* A slip: the producer returns without signalling.
SignalForgotten(p) ==
    /\ \/ Goto(p, "signal", "idle")
       \/ Goto(p, "stopSignal", "closeStop")
    /\ UNCHANGED <<wake, stopped, reading, shared, runState>>

\* The send on wake, or its default when the token is already there.
Signal(p) ==
    /\ \/ Goto(p, "signal", "idle")
       \/ Goto(p, "stopSignal", "closeStop")
    /\ wake' = TRUE
    /\ UNCHANGED <<stopped, reading, shared, runState>>

CloseStop(p) ==
    /\ Goto(p, "closeStop", "idle")
    /\ stopped' = TRUE
    /\ UNCHANGED <<wake, reading, shared, runState>>

-------------------------------------------------------------------------------
(* run.                                                                    *)

\* Slips: the queue is not reset; ended is looked at before the batch is sent.
TakeCopies ==
    /\ runner = "take"
    /\ batch' = queue
    /\ runner' = IF queue # <<>> THEN "send"
                 ELSE IF ended THEN "closed" ELSE "park"
    /\ UNCHANGED <<shared, wake, stopped, producer, reading, delivered>>

TakeEndsFirst ==
    /\ runner = "take"
    /\ batch' = queue
    /\ queue' = <<>>
    /\ runner' = IF ended THEN "closed" ELSE IF queue # <<>> THEN "send" ELSE "park"
    /\ UNCHANGED <<ended, accepted, wake, stopped, producer, reading, delivered>>

\* One locked read of queue and ended; an empty batch parks or closes.
Take ==
    /\ runner = "take"
    /\ batch' = queue
    /\ queue' = <<>>
    /\ runner' = IF queue # <<>> THEN "send"
                 ELSE IF ended THEN "closed" ELSE "park"
    /\ UNCHANGED <<ended, accepted, wake, stopped, producer, reading, delivered>>

\* A slip: the batch goes out as one event.
DeliverBatch ==
    /\ runner = "send"
    /\ reading
    /\ delivered' = Append(delivered, batch)
    /\ batch' = <<>>
    /\ runner' = "take"
    /\ UNCHANGED <<shared, wake, stopped, producer, reading>>

\* out is unbuffered: the send and the reader's receive are one step.
Deliver ==
    /\ runner = "send"
    /\ reading
    /\ delivered' = Append(delivered, Head(batch))
    /\ batch' = Tail(batch)
    /\ runner' = IF Tail(batch) = <<>> THEN "take" ELSE "send"
    /\ UNCHANGED <<shared, wake, stopped, producer, reading>>

Wake ==
    /\ runner = "park"
    /\ wake
    /\ wake' = FALSE
    /\ runner' = "take"
    /\ UNCHANGED <<shared, stopped, producer, reading, batch, delivered>>

\* A slip: the send does not watch stop.
SeeStopOnlyParked ==
    /\ runner = "park"
    /\ stopped
    /\ runner' = "closed"
    /\ UNCHANGED <<shared, wake, stopped, producer, reading, batch, delivered>>

SeeStop ==
    /\ runner \in {"send", "park"}
    /\ stopped
    /\ runner' = "closed"
    /\ UNCHANGED <<shared, wake, stopped, producer, reading, batch, delivered>>

\* The reader may go away without a word.
StopReading ==
    /\ reading
    /\ reading' = FALSE
    /\ UNCHANGED <<shared, wake, stopped, producer, runState>>

-------------------------------------------------------------------------------
Next ==
    \/ \E p \in Producers :
          \/ \E e \in Events : PushLocked(p, e)
          \/ EndLocked(p)
          \/ StopNowLocked(p)
          \/ Signal(p)
          \/ CloseStop(p)
    \/ Take \/ Deliver \/ Wake \/ SeeStop \/ StopReading

Spec == Init /\ [][Next]_vars

\* A call that has begun returns, run is scheduled, and a reader that is
\* still reading takes what it is offered.  Nobody has to push, end or stop.
Fairness ==
    /\ \A p \in Producers : WF_vars(Signal(p)) /\ WF_vars(CloseStop(p))
    /\ WF_vars(Take) /\ WF_vars(Deliver) /\ WF_vars(Wake) /\ WF_vars(SeeStop)

FairSpec == Spec /\ Fairness

-------------------------------------------------------------------------------
(* Properties.                                                             *)

TypeOK ==
    /\ queue \in Seq(Events)
    /\ ended \in BOOLEAN
    /\ wake \in BOOLEAN
    /\ stopped \in BOOLEAN
    /\ producer \in [Producers -> ProducerStates]
    /\ runner \in RunnerStates
    /\ batch \in Seq(Events)
    /\ reading \in BOOLEAN
    /\ accepted \in Seq(Events)
    /\ delivered \in Seq(Events)

\* Every accepted event is delivered, in the batch or in the queue, once and
\* in the order push accepted it: the swap of run loses and repeats nothing.
NothingLost == accepted = delivered \o batch \o queue

\* A channel that closed without stopNow has delivered everything push
\* accepted: ended is read with the queue, so no event slips in between.
ClosedMeansDrained == (runner = "closed" /\ ~stopped) => delivered = accepted

\* run never parks on work nobody will wake it for: a token is there, or a
\* producer that changed the state has still to send one.
NoLostWakeup ==
    (runner = "park" /\ (queue # <<>> \/ ended)) =>
        \/ wake
        \/ \E p \in Producers : producer[p] \in {"signal", "stopSignal"}

\* end closes the channel as long as somebody reads it.
EndCloses == ended ~> (runner = "closed" \/ ~reading)

\* stopNow closes the channel even when nobody reads it: Close cannot leave
\* the pump's goroutine behind, blocked on a consumer that went away.
StopCloses == stopped ~> (runner = "closed")

\* Every accepted event reaches a reader that keeps reading, unless stopped.
AllDelivered ==
    \A i \in 1..MaxPushes :
        (Len(accepted) >= i) ~> (Len(delivered) >= i \/ stopped \/ ~reading)

\* What the consumer and Close rely on together: events arrive, and the channel
\* closes, drained or stopped.
ReaderServed == EndCloses /\ StopCloses /\ AllDelivered

-------------------------------------------------------------------------------
(* The pump implements the queue its readers are promised.                 *)

LastDelivered == IF delivered = <<>> THEN NoEvent ELSE delivered[Len(delivered)]

Queue == INSTANCE EventQueue
            WITH items <- batch \o queue,
                 closed <- (runner = "closed"),
                 last <- LastDelivered

ImplementsQueue == Queue!Spec
===============================================================================
