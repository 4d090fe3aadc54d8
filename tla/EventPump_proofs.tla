---------------------------- MODULE EventPump_proofs ----------------------------
(***************************************************************************)
(* Proofs about EventPump, for any number of producers, events and pushes: *)
(* its invariants, and that it implements EventQueue.                      *)
(***************************************************************************)
EXTENDS EventPump, SequenceTheorems, TLAPS

-------------------------------------------------------------------------------
(* Facts about sequences.                                                  *)

\* What push appends to the queue it appends to the whole stream.
LEMMA AppendToConcat ==
    ASSUME NEW S, NEW s \in Seq(S), NEW t \in Seq(S), NEW e \in S
    PROVE  s \o Append(t, e) = Append(s \o t, e)
<1>1. Append(t, e) = t \o <<e>>
    BY AppendIsConcat
<1>2. Append(s \o t, e) = (s \o t) \o <<e>>
    BY AppendIsConcat, ConcatProperties
<1>3. <<e>> \in Seq(S)
    OBVIOUS
<1> QED
    BY <1>1, <1>2, <1>3, ConcatAssociative

\* Handing an event over moves the cut between two parts of the stream.
LEMMA MoveHead ==
    ASSUME NEW S, NEW s \in Seq(S), NEW t \in Seq(S), t # <<>>
    PROVE  Append(s, Head(t)) \o Tail(t) = s \o t
<1>1. Head(t) \in S /\ Tail(t) \in Seq(S)
    BY HeadTailProperties
<1>2. Append(s, Head(t)) = s \o <<Head(t)>>
    BY <1>1, AppendIsConcat
<1>3. t = <<Head(t)>> \o Tail(t)
    BY SMT
<1>4. <<Head(t)>> \in Seq(S)
    BY <1>1
<1>5. (s \o <<Head(t)>>) \o Tail(t) = s \o (<<Head(t)>> \o Tail(t))
    BY <1>1, <1>4, ConcatAssociative
<1> QED
    BY <1>2, <1>3, <1>5

\* The head of the stream is the head of its first part.
LEMMA HeadOfConcat ==
    ASSUME NEW S, NEW s \in Seq(S), NEW t \in Seq(S), s # <<>>
    PROVE  /\ s \o t # <<>>
           /\ Head(s \o t) = Head(s)
           /\ Tail(s \o t) = Tail(s) \o t
    BY SMT

-------------------------------------------------------------------------------
(* The inductive invariant.                                                *)

\* What run's place in its loop says of the batch it holds and of the state
\* it last read: it looks for more only when the batch is used up, and closes
\* unasked only on an ended and empty pump.
RunnerInv ==
    /\ runner \in {"take", "park"} => batch = <<>>
    /\ runner = "send" => batch # <<>>
    /\ (runner = "closed" /\ ~stopped) => (ended /\ batch = <<>> /\ queue = <<>>)

\* stopNow ends the pump before it closes stop.
StopInv ==
    /\ stopped => ended
    /\ \A p \in Producers : producer[p] \in {"stopSignal", "closeStop"} => ended

IInv == TypeOK /\ RunnerInv /\ StopInv /\ NothingLost /\ NoLostWakeup

LEMMA InitIInv == Init => IInv
<1> SUFFICES ASSUME Init PROVE IInv
    OBVIOUS
<1> USE DEF Init
<1>1. TypeOK
  <2>1. producer \in [Producers -> ProducerStates] /\ runner \in RunnerStates
      BY DEF ProducerStates, RunnerStates
  <2> QED
      BY <2>1, EmptySeq DEF TypeOK
<1>2. RunnerInv /\ StopInv /\ NoLostWakeup
    BY DEF RunnerInv, StopInv, NoLostWakeup
<1>3. NothingLost
    BY DEF NothingLost
<1> QED
    BY <1>1, <1>2, <1>3 DEF IInv

LEMMA NextTypeOK == IInv /\ [Next]_vars => TypeOK'
<1> SUFFICES ASSUME IInv, [Next]_vars PROVE TypeOK'
    OBVIOUS
<1> USE DEF IInv, TypeOK, ProducerStates, RunnerStates, shared, runState
<1>1. ASSUME NEW p \in Producers, NEW e \in Events, PushLocked(p, e)
      PROVE  TypeOK'
    BY <1>1, AppendProperties DEF PushLocked, Goto
<1>2. ASSUME NEW p \in Producers, EndLocked(p) \/ StopNowLocked(p)
      PROVE  TypeOK'
    BY <1>2 DEF EndLocked, StopNowLocked, Goto
<1>3. ASSUME NEW p \in Producers, Signal(p) \/ CloseStop(p)
      PROVE  TypeOK'
    BY <1>3 DEF Signal, CloseStop, Goto
<1>4. CASE Take
    BY <1>4, EmptySeq DEF Take
<1>5. CASE Deliver
  <2>1. Head(batch) \in Events /\ Tail(batch) \in Seq(Events)
      BY <1>5, HeadTailProperties DEF Deliver, RunnerInv
  <2> QED
      BY <1>5, <2>1, AppendProperties DEF Deliver
<1>6. CASE Wake
    BY <1>6 DEF Wake
<1>7. CASE SeeStop \/ StopReading
    BY <1>7 DEF SeeStop, StopReading
<1>8. CASE UNCHANGED vars
    BY <1>8 DEF vars
<1> QED
    BY <1>1, <1>2, <1>3, <1>4, <1>5, <1>6, <1>7, <1>8 DEF Next

LEMMA NextRunnerInv == IInv /\ [Next]_vars => RunnerInv' /\ StopInv'
<1> SUFFICES ASSUME IInv, [Next]_vars PROVE RunnerInv' /\ StopInv'
    OBVIOUS
<1> USE DEF IInv, TypeOK, RunnerInv, StopInv, shared, runState
<1>1. ASSUME NEW p \in Producers, NEW e \in Events, PushLocked(p, e)
      PROVE  RunnerInv' /\ StopInv'
    BY <1>1 DEF PushLocked, Goto
<1>2. ASSUME NEW p \in Producers, EndLocked(p) \/ StopNowLocked(p)
      PROVE  RunnerInv' /\ StopInv'
    BY <1>2 DEF EndLocked, StopNowLocked, Goto
<1>3. ASSUME NEW p \in Producers, Signal(p) \/ CloseStop(p)
      PROVE  RunnerInv' /\ StopInv'
    BY <1>3 DEF Signal, CloseStop, Goto
<1>4. CASE Take
    BY <1>4 DEF Take
<1>5. CASE Deliver
    BY <1>5 DEF Deliver
<1>6. CASE Wake \/ SeeStop \/ StopReading
    BY <1>6 DEF Wake, SeeStop, StopReading
<1>7. CASE UNCHANGED vars
    BY <1>7 DEF vars
<1> QED
    BY <1>1, <1>2, <1>3, <1>4, <1>5, <1>6, <1>7 DEF Next

LEMMA NextNothingLost == IInv /\ [Next]_vars => NothingLost'
<1> SUFFICES ASSUME IInv, [Next]_vars PROVE NothingLost'
    OBVIOUS
<1> USE DEF IInv, TypeOK, NothingLost, shared, runState
<1>1. ASSUME NEW p \in Producers, NEW e \in Events, PushLocked(p, e)
      PROVE  NothingLost'
  <2>1. delivered \o batch \in Seq(Events)
      BY ConcatProperties
  <2>2. (delivered \o batch) \o Append(queue, e)
            = Append((delivered \o batch) \o queue, e)
      BY <2>1, AppendToConcat
  <2> QED
      BY <1>1, <2>2 DEF PushLocked
<1>2. CASE Take
  <2>1. batch = <<>>
      BY <1>2 DEF Take, RunnerInv
  <2> QED
      BY <1>2, <2>1, ConcatEmptySeq, ConcatProperties DEF Take
<1>3. CASE Deliver
    BY <1>3, MoveHead DEF Deliver, RunnerInv
<1>4. CASE \/ Wake \/ SeeStop \/ StopReading
           \/ \E p \in Producers : \/ EndLocked(p) \/ StopNowLocked(p)
                                   \/ Signal(p) \/ CloseStop(p)
    BY <1>4 DEF Wake, SeeStop, StopReading, EndLocked, StopNowLocked, Signal, CloseStop
<1>5. CASE UNCHANGED vars
    BY <1>5 DEF vars
<1> QED
    BY <1>1, <1>2, <1>3, <1>4, <1>5 DEF Next

LEMMA NextNoLostWakeup == IInv /\ [Next]_vars => NoLostWakeup'
<1> SUFFICES ASSUME IInv, [Next]_vars PROVE NoLostWakeup'
    OBVIOUS
<1> USE DEF IInv, TypeOK, NoLostWakeup, shared, runState
<1>1. ASSUME NEW p \in Producers, NEW e \in Events, PushLocked(p, e)
      PROVE  NoLostWakeup'
    BY <1>1 DEF PushLocked, Goto
<1>2. ASSUME NEW p \in Producers, EndLocked(p) \/ StopNowLocked(p)
      PROVE  NoLostWakeup'
    BY <1>2 DEF EndLocked, StopNowLocked, Goto
<1>3. ASSUME NEW p \in Producers, Signal(p)
      PROVE  NoLostWakeup'
    BY <1>3 DEF Signal
<1>4. ASSUME NEW p \in Producers, CloseStop(p)
      PROVE  NoLostWakeup'
    BY <1>4 DEF CloseStop, Goto
<1>5. CASE Take \/ Deliver \/ Wake \/ SeeStop \/ StopReading
    BY <1>5 DEF Take, Deliver, Wake, SeeStop, StopReading
<1>6. CASE UNCHANGED vars
    BY <1>6 DEF vars
<1> QED
    BY <1>1, <1>2, <1>3, <1>4, <1>5, <1>6 DEF Next

\* Every reachable state of the pump satisfies the inductive invariant.
THEOREM Inductive == Spec => []IInv
<1>1. IInv /\ [Next]_vars => IInv'
    BY NextTypeOK, NextRunnerInv, NextNothingLost, NextNoLostWakeup DEF IInv
<1> QED
    BY InitIInv, <1>1, PTL DEF Spec

-------------------------------------------------------------------------------
(* The properties the runs check.                                          *)

\* The pump's variables keep their types.
THEOREM TypeCorrect == Spec => []TypeOK
<1>1. IInv => TypeOK
    BY DEF IInv
<1> QED
    BY Inductive, <1>1, PTL

\* Nothing push accepted is lost, repeated or reordered on its way to the
\* reader, whatever the producers and run interleave.
THEOREM NoEventLost == Spec => []NothingLost
<1>1. IInv => NothingLost
    BY DEF IInv
<1> QED
    BY Inductive, <1>1, PTL

\* run never parks without somebody left to wake it.
THEOREM WakeupNeverLost == Spec => []NoLostWakeup
<1>1. IInv => NoLostWakeup
    BY DEF IInv
<1> QED
    BY Inductive, <1>1, PTL

\* A channel that closed without stopNow delivered all that push accepted.
THEOREM DrainedWhenClosed == Spec => []ClosedMeansDrained
<1>1. IInv => ClosedMeansDrained
  <2> SUFFICES ASSUME IInv, runner = "closed", ~stopped
               PROVE  delivered = accepted
      BY DEF ClosedMeansDrained
  <2>1. batch = <<>> /\ queue = <<>>
      BY DEF IInv, RunnerInv
  <2> QED
      BY <2>1, ConcatEmptySeq DEF IInv, TypeOK, NothingLost
<1> QED
    BY Inductive, <1>1, PTL

-------------------------------------------------------------------------------
(* The pump implements the abstract queue: Take and the signalling are     *)
(* stutters, but for the Take that finds an ended pump empty.              *)

LEMMA StepRefines == IInv /\ [Next]_vars => [Queue!Next]_(Queue!queueVars)
<1> SUFFICES ASSUME IInv, [Next]_vars PROVE [Queue!Next]_(Queue!queueVars)
    OBVIOUS
<1> USE DEF IInv, TypeOK, Queue!Next, Queue!queueVars, LastDelivered, shared, runState
<1>1. ASSUME NEW p \in Producers, NEW e \in Events, PushLocked(p, e)
      PROVE  Queue!Push(e)
    BY <1>1, AppendToConcat DEF PushLocked, Queue!Push
<1>2. ASSUME NEW p \in Producers, EndLocked(p) \/ StopNowLocked(p)
      PROVE  Queue!End
    BY <1>2 DEF EndLocked, StopNowLocked, Queue!End
<1>3. ASSUME NEW p \in Producers, Signal(p)
      PROVE  UNCHANGED Queue!queueVars
    BY <1>3 DEF Signal
<1>4. ASSUME NEW p \in Producers, CloseStop(p)
      PROVE  Queue!Stop
    BY <1>4 DEF CloseStop, Goto, StopInv, Queue!Stop
<1>5. CASE Take
  <2>1. batch = <<>> /\ batch' \o queue' = batch \o queue
      BY <1>5, ConcatEmptySeq DEF Take, RunnerInv
  <2>2. CASE queue = <<>> /\ ended
    <3>1. batch \o queue = <<>>
        BY <2>1, <2>2, ConcatEmptySeq
    <3> QED
        BY <1>5, <2>1, <2>2, <3>1 DEF Take, Queue!Close
  <2>3. CASE ~(queue = <<>> /\ ended)
      BY <1>5, <2>1, <2>3 DEF Take
  <2> QED
      BY <2>2, <2>3
<1>6. CASE Deliver
  <2>1. batch # <<>>
      BY <1>6 DEF Deliver, RunnerInv
  <2>2. /\ batch \o queue # <<>>
        /\ Head(batch \o queue) = Head(batch)
        /\ Tail(batch \o queue) = Tail(batch) \o queue
      BY <2>1, HeadOfConcat
  <2>3. Head(batch) \in Events
      BY <2>1, HeadTailProperties
  <2>4. LastDelivered' = Head(batch)
      BY <1>6, <2>3, AppendProperties DEF Deliver
  <2> QED
      BY <1>6, <2>2, <2>4 DEF Deliver, Queue!Deliver
<1>7. CASE SeeStop
    BY <1>7 DEF SeeStop, Queue!Close
<1>8. CASE Wake \/ StopReading
    BY <1>8 DEF Wake, StopReading
<1>9. CASE UNCHANGED vars
    BY <1>9 DEF vars
<1> QED
    BY <1>1, <1>2, <1>3, <1>4, <1>5, <1>6, <1>7, <1>8, <1>9 DEF Next

\* Whatever its producers do, the pump behaves as the queue its reader is
\* promised: in order, nothing lost, closed only when drained or stopped.
THEOREM PumpIsQueue == Spec => ImplementsQueue
<1>1. Init => Queue!Init
    BY DEF Init, Queue!Init, LastDelivered
<1>2. Spec => [][Queue!Next]_(Queue!queueVars)
    BY Inductive, StepRefines, PTL DEF Spec
<1> QED
    BY <1>1, <1>2, PTL DEF Spec, Queue!Spec, ImplementsQueue
===============================================================================
