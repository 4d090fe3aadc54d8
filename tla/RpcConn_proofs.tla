----------------------------- MODULE RpcConn_proofs -----------------------------
(***************************************************************************)
(* Proofs about RpcConn, for any number of calls: reply channels are used  *)
(* safely, no call is left in the registry or waiting for nobody.          *)
(***************************************************************************)
EXTENDS RpcConn, SequenceTheorems, TLAPS

-------------------------------------------------------------------------------
(* The inductive invariant.                                                *)

\* A reply channel is open exactly while somebody may still use it: a call in
\* the registry, the one Deliver took out, or one Close has yet to fail.
ChannelInv ==
    /\ \A c \in registered : reply[c] = "open" /\ pc[c] \in {"write", "wait", "forget"}
    /\ \A c \in Calls : pc[c] = "start" => reply[c] = "none"
    /\ \A c \in Calls :
          (pc[c] \in {"write", "wait"} /\ reply[c] = "open") =>
              c \in registered \cup failing \cup {delivering}
    /\ \A c \in Calls : pc[c] \in {"write", "wait"} => reply[c] # "none"
    /\ delivering \notin registered

\* The read loop's place: it delivers one call at a time, fails calls only
\* after Close has refused new ones, and is done once all are failed.
LoopInv ==
    /\ reader = "deliver" <=> delivering # NoCall
    /\ failing # {} => reader = "failing"
    /\ reader \in {"failing", "done"} <=> refusing
    /\ refusing => registered = {}

\* A call about to report a closed connection, or that has, was never handed
\* a reply.
RefusedInv ==
    \A c \in Calls :
        (pc[c] = "refused" \/ outcome[c] \in {"closed", "closedReadError"}) =>
            /\ pc[c] \in {"refused", "returned"}
            /\ reply[c] \in {"none", "closed"}

IInv == TypeOK /\ ChannelInv /\ LoopInv /\ ChannelsSafe /\ RefusedInv

LEMMA InitIInv == Init => IInv
<1> SUFFICES ASSUME Init PROVE IInv
    OBVIOUS
<1>1. TypeOK
  <2>1. inbound \in Seq(Messages)
      BY EmptySeq DEF Init
  <2> QED
      BY <2>1 DEF Init, TypeOK, CallStates, Outcomes, ReaderStates
<1>2. ChannelInv /\ LoopInv /\ ChannelsSafe /\ RefusedInv
    BY NoCallAssumption DEF Init, ChannelInv, LoopInv, ChannelsSafe, RefusedInv
<1> QED
    BY <1>1, <1>2 DEF IInv

LEMMA HeadOfInbound ==
    ASSUME TypeOK, inbound # <<>>
    PROVE  Head(inbound) \in Messages /\ Tail(inbound) \in Seq(Messages)
    BY HeadTailProperties DEF TypeOK

LEMMA NextTypeOK == IInv /\ [Next]_vars => TypeOK'
<1> SUFFICES ASSUME IInv, [Next]_vars PROVE TypeOK'
    OBVIOUS
<1> USE DEF IInv, TypeOK, CallStates, Outcomes, ReaderStates, Goto, Outcome, callerVars, loopVars
<1>1. ASSUME NEW c \in Calls, Add(c) PROVE TypeOK'
    BY <1>1 DEF Add
<1>2. ASSUME NEW c \in Calls, Write(c) PROVE TypeOK'
    BY <1>2 DEF Write
<1>3. ASSUME NEW c \in Calls, Receive(c) PROVE TypeOK'
    BY <1>3 DEF Receive
<1>4. ASSUME NEW c \in Calls, ReceiveClosed(c) PROVE TypeOK'
    BY <1>4 DEF ReceiveClosed
<1>5. ASSUME NEW c \in Calls, ContextDone(c) PROVE TypeOK'
    BY <1>5 DEF ContextDone
<1>6. ASSUME NEW c \in Calls, Forget(c) PROVE TypeOK'
    BY <1>6 DEF Forget
<1>7. ASSUME NEW c \in Calls, ClosedErr(c) PROVE TypeOK'
    BY <1>7 DEF ClosedErr
<1>8. ASSUME NEW c \in Calls, Cancel(c) PROVE TypeOK'
    BY <1>8 DEF Cancel
<1>9. ASSUME NEW c \in Calls, CloseReply(c) PROVE TypeOK'
    BY <1>9 DEF CloseReply
<1>10. CASE PeerWrites
    BY <1>10, AppendProperties DEF PeerWrites
<1>11. CASE DeliverLocked
  <2>1. Head(inbound) \in Messages /\ Tail(inbound) \in Seq(Messages)
      BY <1>11, HeadOfInbound DEF DeliverLocked
  <2> QED
      BY <1>11, <2>1 DEF DeliverLocked
<1>12. CASE DeliverSend
    BY <1>12 DEF DeliverSend
<1>13. CASE DispatchOther
    BY <1>13, HeadOfInbound DEF DispatchOther
<1>14. CASE StreamEnds
    BY <1>14 DEF StreamEnds
<1>15. CASE CloseLocked
    BY <1>15 DEF CloseLocked
<1>16. CASE CloseDone
    BY <1>16 DEF CloseDone
<1>17. CASE UNCHANGED vars
    BY <1>17 DEF vars
<1> QED
    BY <1>1, <1>2, <1>3, <1>4, <1>5, <1>6, <1>7, <1>8, <1>9, <1>10,
       <1>11, <1>12, <1>13, <1>14, <1>15, <1>16, <1>17
    DEF Next, CallStep, LoopStep

LEMMA NextLoopInv == IInv /\ [Next]_vars => LoopInv'
<1> SUFFICES ASSUME IInv, [Next]_vars PROVE LoopInv'
    OBVIOUS
<1> USE DEF IInv, TypeOK, LoopInv, Goto, Outcome, callerVars, loopVars
<1>1. ASSUME NEW c \in Calls, Add(c) PROVE LoopInv'
    BY <1>1 DEF Add
<1>2. ASSUME NEW c \in Calls, Write(c) PROVE LoopInv'
    BY <1>2 DEF Write
<1>3. ASSUME NEW c \in Calls, Receive(c) PROVE LoopInv'
    BY <1>3 DEF Receive
<1>4. ASSUME NEW c \in Calls, ReceiveClosed(c) PROVE LoopInv'
    BY <1>4 DEF ReceiveClosed
<1>5. ASSUME NEW c \in Calls, ContextDone(c) PROVE LoopInv'
    BY <1>5 DEF ContextDone
<1>6. ASSUME NEW c \in Calls, Forget(c) PROVE LoopInv'
    BY <1>6 DEF Forget
<1>7. ASSUME NEW c \in Calls, ClosedErr(c) PROVE LoopInv'
    BY <1>7 DEF ClosedErr
<1>8. ASSUME NEW c \in Calls, Cancel(c) PROVE LoopInv'
    BY <1>8 DEF Cancel
<1>9. ASSUME NEW c \in Calls, CloseReply(c) PROVE LoopInv'
    BY <1>9 DEF CloseReply
<1>10. CASE PeerWrites
    BY <1>10 DEF PeerWrites
<1>11. CASE DeliverLocked
    BY <1>11, NoCallAssumption DEF DeliverLocked
<1>12. CASE DeliverSend
    BY <1>12 DEF DeliverSend
<1>13. CASE DispatchOther
    BY <1>13 DEF DispatchOther
<1>14. CASE StreamEnds
    BY <1>14 DEF StreamEnds
<1>15. CASE CloseLocked
    BY <1>15 DEF CloseLocked
<1>16. CASE CloseDone
    BY <1>16 DEF CloseDone
<1>17. CASE UNCHANGED vars
    BY <1>17 DEF vars
<1> QED
    BY <1>1, <1>2, <1>3, <1>4, <1>5, <1>6, <1>7, <1>8, <1>9, <1>10,
       <1>11, <1>12, <1>13, <1>14, <1>15, <1>16, <1>17
    DEF Next, CallStep, LoopStep

LEMMA NextChannelInv == IInv /\ [Next]_vars => ChannelInv'
<1> SUFFICES ASSUME IInv, [Next]_vars PROVE ChannelInv'
    OBVIOUS
<1> USE DEF IInv, TypeOK, ChannelInv, LoopInv, ChannelsSafe, Goto, Outcome, callerVars, loopVars
<1>1. ASSUME NEW c \in Calls, Add(c) PROVE ChannelInv'
  <2>1. c # delivering
      BY <1>1, NoCallAssumption DEF Add
  <2> QED
      BY <1>1, <2>1 DEF Add
<1>2. ASSUME NEW c \in Calls, Write(c) PROVE ChannelInv'
    BY <1>2 DEF Write
<1>3. ASSUME NEW c \in Calls, Receive(c) PROVE ChannelInv'
    BY <1>3 DEF Receive
<1>4. ASSUME NEW c \in Calls, ReceiveClosed(c) PROVE ChannelInv'
    BY <1>4 DEF ReceiveClosed
<1>5. ASSUME NEW c \in Calls, ContextDone(c) PROVE ChannelInv'
    BY <1>5 DEF ContextDone
<1>6. ASSUME NEW c \in Calls, Forget(c) PROVE ChannelInv'
    BY <1>6 DEF Forget
<1>7. ASSUME NEW c \in Calls, ClosedErr(c) PROVE ChannelInv'
    BY <1>7 DEF ClosedErr
<1>8. ASSUME NEW c \in Calls, Cancel(c) PROVE ChannelInv'
    BY <1>8 DEF Cancel
<1>9. ASSUME NEW c \in Calls, CloseReply(c) PROVE ChannelInv'
    BY <1>9 DEF CloseReply
<1>10. CASE PeerWrites
    BY <1>10 DEF PeerWrites
<1>11. CASE DeliverLocked
  <2>1. delivering = NoCall
      BY <1>11 DEF DeliverLocked
  <2> QED
      BY <1>11, <2>1, NoCallAssumption DEF DeliverLocked
<1>12. CASE DeliverSend
  <2>1. delivering \in Calls /\ delivering \notin registered
      BY <1>12 DEF DeliverSend
  <2> QED
      BY <1>12, <2>1, NoCallAssumption DEF DeliverSend
<1>13. CASE DispatchOther
    BY <1>13 DEF DispatchOther
<1>14. CASE StreamEnds
    BY <1>14 DEF StreamEnds
<1>15. CASE CloseLocked
    BY <1>15 DEF CloseLocked
<1>16. CASE CloseDone
    BY <1>16 DEF CloseDone
<1>17. CASE UNCHANGED vars
    BY <1>17 DEF vars
<1> QED
    BY <1>1, <1>2, <1>3, <1>4, <1>5, <1>6, <1>7, <1>8, <1>9, <1>10,
       <1>11, <1>12, <1>13, <1>14, <1>15, <1>16, <1>17
    DEF Next, CallStep, LoopStep

LEMMA NextChannelsSafe == IInv /\ [Next]_vars => ChannelsSafe'
<1> SUFFICES ASSUME IInv, [Next]_vars PROVE ChannelsSafe'
    OBVIOUS
<1> USE DEF IInv, TypeOK, ChannelInv, LoopInv, ChannelsSafe, Goto, Outcome, callerVars, loopVars
<1>1. ASSUME NEW c \in Calls, Add(c) PROVE ChannelsSafe'
    BY <1>1 DEF Add
<1>2. ASSUME NEW c \in Calls, Write(c) PROVE ChannelsSafe'
    BY <1>2 DEF Write
<1>3. ASSUME NEW c \in Calls, Receive(c) PROVE ChannelsSafe'
    BY <1>3 DEF Receive
<1>4. ASSUME NEW c \in Calls, ReceiveClosed(c) PROVE ChannelsSafe'
    BY <1>4 DEF ReceiveClosed
<1>5. ASSUME NEW c \in Calls, ContextDone(c) PROVE ChannelsSafe'
    BY <1>5 DEF ContextDone
<1>6. ASSUME NEW c \in Calls, Forget(c) PROVE ChannelsSafe'
    BY <1>6 DEF Forget
<1>7. ASSUME NEW c \in Calls, ClosedErr(c) PROVE ChannelsSafe'
    BY <1>7 DEF ClosedErr
<1>8. ASSUME NEW c \in Calls, Cancel(c) PROVE ChannelsSafe'
    BY <1>8 DEF Cancel
<1>9. ASSUME NEW c \in Calls, CloseReply(c) PROVE ChannelsSafe'
    BY <1>9 DEF CloseReply
<1>10. CASE PeerWrites
    BY <1>10 DEF PeerWrites
<1>11. CASE DeliverLocked
    BY <1>11 DEF DeliverLocked
<1>12. CASE DeliverSend
    BY <1>12 DEF DeliverSend
<1>13. CASE DispatchOther
    BY <1>13 DEF DispatchOther
<1>14. CASE StreamEnds
    BY <1>14 DEF StreamEnds
<1>15. CASE CloseLocked
    BY <1>15 DEF CloseLocked
<1>16. CASE CloseDone
    BY <1>16 DEF CloseDone
<1>17. CASE UNCHANGED vars
    BY <1>17 DEF vars
<1> QED
    BY <1>1, <1>2, <1>3, <1>4, <1>5, <1>6, <1>7, <1>8, <1>9, <1>10,
       <1>11, <1>12, <1>13, <1>14, <1>15, <1>16, <1>17
    DEF Next, CallStep, LoopStep

LEMMA NextRefusedInv == IInv /\ [Next]_vars => RefusedInv'
<1> SUFFICES ASSUME IInv, [Next]_vars PROVE RefusedInv'
    OBVIOUS
<1> USE DEF IInv, TypeOK, ChannelInv, ChannelsSafe, RefusedInv, Goto, Outcome, callerVars, loopVars
<1>1. ASSUME NEW c \in Calls, Add(c) PROVE RefusedInv'
    BY <1>1 DEF Add
<1>2. ASSUME NEW c \in Calls, Write(c) PROVE RefusedInv'
    BY <1>2 DEF Write
<1>3. ASSUME NEW c \in Calls, Receive(c) PROVE RefusedInv'
    BY <1>3 DEF Receive
<1>4. ASSUME NEW c \in Calls, ReceiveClosed(c) PROVE RefusedInv'
    BY <1>4 DEF ReceiveClosed
<1>5. ASSUME NEW c \in Calls, ContextDone(c) PROVE RefusedInv'
    BY <1>5 DEF ContextDone
<1>6. ASSUME NEW c \in Calls, Forget(c) PROVE RefusedInv'
    BY <1>6 DEF Forget
<1>7. ASSUME NEW c \in Calls, ClosedErr(c) PROVE RefusedInv'
    BY <1>7 DEF ClosedErr
<1>8. ASSUME NEW c \in Calls, Cancel(c) PROVE RefusedInv'
    BY <1>8 DEF Cancel
<1>9. ASSUME NEW c \in Calls, CloseReply(c) PROVE RefusedInv'
    BY <1>9 DEF CloseReply
<1>10. CASE PeerWrites
    BY <1>10 DEF PeerWrites
<1>11. CASE DeliverLocked
    BY <1>11 DEF DeliverLocked
<1>12. CASE DeliverSend
    BY <1>12 DEF DeliverSend
<1>13. CASE DispatchOther
    BY <1>13 DEF DispatchOther
<1>14. CASE StreamEnds
    BY <1>14 DEF StreamEnds
<1>15. CASE CloseLocked
    BY <1>15 DEF CloseLocked
<1>16. CASE CloseDone
    BY <1>16 DEF CloseDone
<1>17. CASE UNCHANGED vars
    BY <1>17 DEF vars
<1> QED
    BY <1>1, <1>2, <1>3, <1>4, <1>5, <1>6, <1>7, <1>8, <1>9, <1>10,
       <1>11, <1>12, <1>13, <1>14, <1>15, <1>16, <1>17
    DEF Next, CallStep, LoopStep

\* The invariant holds in every reachable state.
THEOREM Inductive == Spec => []IInv
<1>1. IInv /\ [Next]_vars => IInv'
    BY NextTypeOK, NextLoopInv, NextChannelInv, NextChannelsSafe, NextRefusedInv DEF IInv
<1> QED
    BY InitIInv, <1>1, PTL DEF Spec

-------------------------------------------------------------------------------
(* The properties the runs check.                                          *)

\* The connection's variables keep their types.
THEOREM TypeCorrect == Spec => []TypeOK
<1>1. IInv => TypeOK
    BY DEF IInv
<1> QED
    BY Inductive, <1>1, PTL

\* A reply is sent only on an empty open channel and a channel is closed once:
\* the read loop neither blocks on a caller nor panics.
THEOREM ChannelsAlwaysSafe == Spec => []ChannelsSafe
<1>1. IInv => ChannelsSafe
    BY DEF IInv
<1> QED
    BY Inductive, <1>1, PTL

\* A call that returned, with an answer, an error or its ctx's error, has left
\* the registry.
THEOREM RegistryForgets == Spec => []NoCallLeft
<1>1. IInv => NoCallLeft
    BY DEF IInv, ChannelInv, NoCallLeft
<1> QED
    BY Inductive, <1>1, PTL

\* Once done has closed no call waits on a channel nobody will use.
THEOREM NobodyWaitsForNobody == Spec => []NobodyStranded
<1>1. IInv => NobodyStranded
  <2> SUFFICES ASSUME IInv, reader = "done", NEW c \in Calls, pc[c] = "wait"
               PROVE  reply[c] \in {"full", "closed"}
      BY DEF NobodyStranded
  <2>1. registered = {} /\ failing = {} /\ delivering = NoCall
      BY DEF IInv, LoopInv
  <2>2. reply[c] # "open" /\ reply[c] # "none"
      BY <2>1, NoCallAssumption DEF IInv, ChannelInv
  <2> QED
      BY <2>2 DEF IInv, TypeOK
<1> QED
    BY Inductive, <1>1, PTL

\* A reply that was handed over is never reported as a closed connection.
THEOREM AnswersSurvive == Spec => []AnswerSurvivesClose
<1>1. IInv => AnswerSurvivesClose
    BY DEF IInv, RefusedInv, AnswerSurvivesClose
<1> QED
    BY Inductive, <1>1, PTL
\* The registry is exact, for any number of calls and replies.
THEOREM RegistryAlwaysExact == Spec => []RegistryExact
<1>1. NoCallLeft /\ NobodyStranded => RegistryExact
    BY DEF RegistryExact
<1> QED
    BY <1>1, RegistryForgets, NobodyWaitsForNobody, PTL
===============================================================================
