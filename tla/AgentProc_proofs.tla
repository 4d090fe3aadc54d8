---------------------------- MODULE AgentProc_proofs ----------------------------
(***************************************************************************)
(* Proofs about AgentProc and the StderrCopier it extends, for any number  *)
(* of flushes and callers and any output.  First of the copier by itself:  *)
(* what a flush promises, and that none is forgotten.  Then the process    *)
(* never disturbs its copier, so that all this holds inside it; and what   *)
(* Exited promises.                                                        *)
(***************************************************************************)
EXTENDS AgentProc, SequenceTheorems, TLAPS


-------------------------------------------------------------------------------
(* The inductive invariant.                                                *)

\* The three positions in the stream, and when the copier is between two.
PositionInv ==
    /\ copied <= taken /\ taken <= written
    /\ copier \notin {"copy", "drainCopy"} => copied = taken
    /\ \A f \in Flushers : target[f] <= written

\* Only a flush that was called is waiting or released.
CalledInv ==
    /\ \A i \in 1..Len(waiting) : flush[waiting[i]] # "idle"
    /\ \A f \in released : flush[f] # "idle"

\* What a drain has covered: when it ends, all that the flushes it was armed
\* for wait on.
DrainInv ==
    /\ copier \in {"drain", "drainCopy", "release"} => armed <= Len(waiting)
    /\ copier = "release" => \A i \in 1..armed : copied >= target[waiting[i]]

\* A copier that stops by itself has read the pipe to its end.
StopInv ==
    (copier \in {"stopping", "stopped"} /\ readEnd) => (~writers /\ taken = written)

ReleasedInv == \A f \in released : readEnd => copied >= target[f]

IInv == /\ TypeOK /\ PositionInv /\ CalledInv /\ DrainInv /\ StopInv
        /\ ReleasedInv /\ NoFlushForgotten /\ FlushCovers

LEMMA InitIInv == Init => IInv
<1> SUFFICES ASSUME Init PROVE IInv
    OBVIOUS
<1>1. TypeOK
  <2>1. waiting \in Seq(Flushers)
      BY EmptySeq DEF Init
  <2> QED
      BY <2>1 DEF Init, TypeOK, CopierStates
<1>2. Len(waiting) = 0
    BY DEF Init
<1>3. PositionInv /\ CalledInv /\ DrainInv /\ StopInv /\ ReleasedInv
    BY <1>2 DEF Init, PositionInv, CalledInv, DrainInv, StopInv, ReleasedInv
<1>4. NoFlushForgotten /\ FlushCovers
    BY DEF Init, NoFlushForgotten, FlushCovers
<1> QED
    BY <1>1, <1>3, <1>4 DEF IInv

LEMMA NextTypeOK == IInv /\ [Next]_vars => TypeOK'
<1> SUFFICES ASSUME IInv, [Next]_vars PROVE TypeOK'
    OBVIOUS
<1> USE DEF IInv, TypeOK, CopierStates, CopierGoes, pipe, flushState
<1>1. ASSUME NEW f \in Flushers, Flush(f) PROVE TypeOK'
  <2>1. waiting' \in Seq(Flushers)
    <3>1. waiting' = waiting \/ waiting' = Append(waiting, f)
        BY <1>1 DEF Flush
    <3>2. waiting \in Seq(Flushers)
        OBVIOUS
    <3>3. Append(waiting, f) \in Seq(Flushers)
        BY <3>2, AppendProperties
    <3> QED
        BY <3>1, <3>2, <3>3
  <2> QED
      BY <1>1, <2>1 DEF Flush
<1>2. ASSUME NEW f \in Flushers, FlushReturns(f) PROVE TypeOK'
    BY <1>2 DEF FlushReturns
<1>3. CASE ChildWrites
    BY <1>3 DEF ChildWrites
<1>4. CASE WritersGone
    BY <1>4 DEF WritersGone
<1>5. CASE ReapCloses
    BY <1>5 DEF ReapCloses
<1>6. CASE ReadBegins
    BY <1>6 DEF ReadBegins
<1>7. CASE ReadReturns
    BY <1>7 DEF ReadReturns
<1>8. CASE Copy
    BY <1>8 DEF Copy
<1>9. CASE ClearDeadline
    BY <1>9 DEF ClearDeadline
<1>10. CASE CountArmed
    BY <1>10 DEF CountArmed
<1>11. CASE Drain
    BY <1>11 DEF Drain
<1>12. CASE Release
  <2>1. /\ waiting' \in Seq(Flushers)
        /\ \A i \in 1..armed : waiting[i] \in Flushers
      BY <1>12 DEF Release, DrainInv
  <2> QED
      BY <1>12, <2>1 DEF Release
<1>13. CASE Stop
  <2>1. \A i \in 1..Len(waiting) : waiting[i] \in Flushers
      BY <1>13
  <2> QED
      BY <1>13, <2>1, EmptySeq DEF Stop
<1>14. CASE UNCHANGED vars
    BY <1>14 DEF vars
<1> QED
    BY <1>1, <1>2, <1>3, <1>4, <1>5, <1>6, <1>7, <1>8, <1>9, <1>10,
       <1>11, <1>12, <1>13, <1>14
    DEF Next, CopierStep

LEMMA NextPositionInv == IInv /\ [Next]_vars => PositionInv'
<1> SUFFICES ASSUME IInv, [Next]_vars PROVE PositionInv'
    OBVIOUS
<1> USE DEF IInv, TypeOK, PositionInv, CopierGoes, pipe, flushState
<1>1. ASSUME NEW f \in Flushers, Flush(f) PROVE PositionInv'
    BY <1>1 DEF Flush
<1>2. ASSUME NEW f \in Flushers, FlushReturns(f) PROVE PositionInv'
    BY <1>2 DEF FlushReturns
<1>3. CASE ChildWrites
    BY <1>3 DEF ChildWrites
<1>4. CASE WritersGone
    BY <1>4 DEF WritersGone
<1>5. CASE ReapCloses
    BY <1>5 DEF ReapCloses
<1>6. CASE ReadBegins
    BY <1>6 DEF ReadBegins
<1>7. CASE ReadReturns
    BY <1>7 DEF ReadReturns
<1>8. CASE Copy
    BY <1>8 DEF Copy
<1>9. CASE ClearDeadline
    BY <1>9 DEF ClearDeadline
<1>10. CASE CountArmed
    BY <1>10 DEF CountArmed
<1>11. CASE Drain
    BY <1>11 DEF Drain
<1>12. CASE Release
    BY <1>12 DEF Release
<1>13. CASE Stop
    BY <1>13 DEF Stop
<1>14. CASE UNCHANGED vars
    BY <1>14 DEF vars
<1> QED
    BY <1>1, <1>2, <1>3, <1>4, <1>5, <1>6, <1>7, <1>8, <1>9, <1>10,
       <1>11, <1>12, <1>13, <1>14
    DEF Next, CopierStep

LEMMA NextCalledInv == IInv /\ [Next]_vars => CalledInv'
<1> SUFFICES ASSUME IInv, [Next]_vars PROVE CalledInv'
    OBVIOUS
<1> USE DEF IInv, TypeOK, CalledInv, DrainInv, CopierGoes, pipe, flushState
<1>1. ASSUME NEW f \in Flushers, Flush(f) PROVE CalledInv'
  <2>1. CASE waiting' = waiting
      BY <1>1, <2>1 DEF Flush
  <2>2. CASE waiting' = Append(waiting, f)
    <3>1. /\ Len(waiting') = Len(waiting) + 1
          /\ \A i \in 1..Len(waiting') :
                waiting'[i] = IF i = Len(waiting) + 1 THEN f ELSE waiting[i]
        BY <2>2, AppendProperties
    <3> QED
        BY <1>1, <2>2, <3>1 DEF Flush
  <2> QED
      BY <1>1, <2>1, <2>2 DEF Flush
<1>2. ASSUME NEW f \in Flushers, FlushReturns(f) PROVE CalledInv'
    BY <1>2 DEF FlushReturns
<1>3. CASE ChildWrites
    BY <1>3 DEF ChildWrites
<1>4. CASE WritersGone
    BY <1>4 DEF WritersGone
<1>5. CASE ReapCloses
    BY <1>5 DEF ReapCloses
<1>6. CASE ReadBegins
    BY <1>6 DEF ReadBegins
<1>7. CASE ReadReturns
    BY <1>7 DEF ReadReturns
<1>8. CASE Copy
    BY <1>8 DEF Copy
<1>9. CASE ClearDeadline
    BY <1>9 DEF ClearDeadline
<1>10. CASE CountArmed
    BY <1>10 DEF CountArmed
<1>11. CASE Drain
    BY <1>11 DEF Drain
<1>12. CASE Release
  <2>1. /\ Len(waiting') = Len(waiting) - armed
        /\ \A i \in 1..Len(waiting') : waiting'[i] = waiting[i + armed]
      BY <1>12 DEF Release
  <2>2. \A i \in 1..Len(waiting') : flush'[waiting'[i]] # "idle"
      BY <1>12, <2>1 DEF Release
  <2>3. \A g \in released' : flush'[g] # "idle"
      BY <1>12 DEF Release
  <2> QED
      BY <2>2, <2>3
<1>13. CASE Stop
    BY <1>13 DEF Stop
<1>14. CASE UNCHANGED vars
    BY <1>14 DEF vars
<1> QED
    BY <1>1, <1>2, <1>3, <1>4, <1>5, <1>6, <1>7, <1>8, <1>9, <1>10,
       <1>11, <1>12, <1>13, <1>14
    DEF Next, CopierStep

LEMMA NextDrainInv == IInv /\ [Next]_vars => DrainInv'
<1> SUFFICES ASSUME IInv, [Next]_vars PROVE DrainInv'
    OBVIOUS
<1> USE DEF IInv, TypeOK, PositionInv, CalledInv, DrainInv, CopierGoes, pipe, flushState
<1>1. ASSUME NEW f \in Flushers, Flush(f) PROVE DrainInv'
  <2>1. CASE waiting' = waiting
      BY <1>1, <2>1 DEF Flush
  <2>2. CASE waiting' = Append(waiting, f)
    <3>1. /\ Len(waiting') = Len(waiting) + 1
          /\ \A i \in 1..Len(waiting') :
                waiting'[i] = IF i = Len(waiting) + 1 THEN f ELSE waiting[i]
        BY <2>2, AppendProperties
    <3> QED
        BY <1>1, <2>2, <3>1 DEF Flush
  <2> QED
      BY <1>1, <2>1, <2>2 DEF Flush
<1>2. ASSUME NEW f \in Flushers, FlushReturns(f) PROVE DrainInv'
    BY <1>2 DEF FlushReturns
<1>3. CASE ChildWrites
    BY <1>3 DEF ChildWrites
<1>4. CASE WritersGone
    BY <1>4 DEF WritersGone
<1>5. CASE ReapCloses
    BY <1>5 DEF ReapCloses
<1>6. CASE ReadBegins
    BY <1>6 DEF ReadBegins
<1>7. CASE ReadReturns
    BY <1>7 DEF ReadReturns
<1>8. CASE Copy
    BY <1>8 DEF Copy
<1>9. CASE ClearDeadline
    BY <1>9 DEF ClearDeadline
<1>10. CASE CountArmed
    BY <1>10 DEF CountArmed
<1>11. CASE Drain
    BY <1>11 DEF Drain
<1>12. CASE Release
    BY <1>12 DEF Release
<1>13. CASE Stop
    BY <1>13 DEF Stop
<1>14. CASE UNCHANGED vars
    BY <1>14 DEF vars
<1> QED
    BY <1>1, <1>2, <1>3, <1>4, <1>5, <1>6, <1>7, <1>8, <1>9, <1>10,
       <1>11, <1>12, <1>13, <1>14
    DEF Next, CopierStep

LEMMA NextStopInv == IInv /\ [Next]_vars => StopInv'
<1> SUFFICES ASSUME IInv, [Next]_vars PROVE StopInv'
    OBVIOUS
<1> USE DEF IInv, TypeOK, PositionInv, StopInv, CopierGoes, pipe, flushState
<1>1. ASSUME NEW f \in Flushers, Flush(f) PROVE StopInv'
    BY <1>1 DEF Flush
<1>2. ASSUME NEW f \in Flushers, FlushReturns(f) PROVE StopInv'
    BY <1>2 DEF FlushReturns
<1>3. CASE ChildWrites
    BY <1>3 DEF ChildWrites
<1>4. CASE WritersGone
    BY <1>4 DEF WritersGone
<1>5. CASE ReapCloses
    BY <1>5 DEF ReapCloses
<1>6. CASE ReadBegins
    BY <1>6 DEF ReadBegins
<1>7. CASE ReadReturns
    BY <1>7 DEF ReadReturns
<1>8. CASE Copy
    BY <1>8 DEF Copy
<1>9. CASE ClearDeadline
    BY <1>9 DEF ClearDeadline
<1>10. CASE CountArmed
    BY <1>10 DEF CountArmed
<1>11. CASE Drain
    BY <1>11 DEF Drain
<1>12. CASE Release
    BY <1>12 DEF Release
<1>13. CASE Stop
    BY <1>13 DEF Stop
<1>14. CASE UNCHANGED vars
    BY <1>14 DEF vars
<1> QED
    BY <1>1, <1>2, <1>3, <1>4, <1>5, <1>6, <1>7, <1>8, <1>9, <1>10,
       <1>11, <1>12, <1>13, <1>14
    DEF Next, CopierStep

LEMMA NextReleasedInv == IInv /\ [Next]_vars => ReleasedInv'
<1> SUFFICES ASSUME IInv, [Next]_vars PROVE ReleasedInv'
    OBVIOUS
<1> USE DEF IInv, TypeOK, PositionInv, CalledInv, DrainInv, StopInv, ReleasedInv, CopierGoes, pipe, flushState
<1>1. ASSUME NEW f \in Flushers, Flush(f) PROVE ReleasedInv'
    BY <1>1 DEF Flush
<1>2. ASSUME NEW f \in Flushers, FlushReturns(f) PROVE ReleasedInv'
    BY <1>2 DEF FlushReturns
<1>3. CASE ChildWrites
    BY <1>3 DEF ChildWrites
<1>4. CASE WritersGone
    BY <1>4 DEF WritersGone
<1>5. CASE ReapCloses
    BY <1>5 DEF ReapCloses
<1>6. CASE ReadBegins
    BY <1>6 DEF ReadBegins
<1>7. CASE ReadReturns
    BY <1>7 DEF ReadReturns
<1>8. CASE Copy
    BY <1>8 DEF Copy
<1>9. CASE ClearDeadline
    BY <1>9 DEF ClearDeadline
<1>10. CASE CountArmed
    BY <1>10 DEF CountArmed
<1>11. CASE Drain
    BY <1>11 DEF Drain
<1>12. CASE Release
    BY <1>12 DEF Release
<1>13. CASE Stop
    BY <1>13 DEF Stop
<1>14. CASE UNCHANGED vars
    BY <1>14 DEF vars
<1> QED
    BY <1>1, <1>2, <1>3, <1>4, <1>5, <1>6, <1>7, <1>8, <1>9, <1>10,
       <1>11, <1>12, <1>13, <1>14
    DEF Next, CopierStep

LEMMA NextNoFlushForgotten == IInv /\ [Next]_vars => NoFlushForgotten'
<1> SUFFICES ASSUME IInv, [Next]_vars PROVE NoFlushForgotten'
    OBVIOUS
<1> USE DEF IInv, TypeOK, DrainInv, NoFlushForgotten, CopierGoes, pipe, flushState
<1>1. ASSUME NEW f \in Flushers, Flush(f) PROVE NoFlushForgotten'
    BY <1>1 DEF Flush
<1>2. ASSUME NEW f \in Flushers, FlushReturns(f) PROVE NoFlushForgotten'
    BY <1>2 DEF FlushReturns
<1>3. CASE ChildWrites
    BY <1>3 DEF ChildWrites
<1>4. CASE WritersGone
    BY <1>4 DEF WritersGone
<1>5. CASE ReapCloses
    BY <1>5 DEF ReapCloses
<1>6. CASE ReadBegins
    BY <1>6 DEF ReadBegins
<1>7. CASE ReadReturns
    BY <1>7 DEF ReadReturns
<1>8. CASE Copy
    BY <1>8 DEF Copy
<1>9. CASE ClearDeadline
    BY <1>9 DEF ClearDeadline
<1>10. CASE CountArmed
    BY <1>10 DEF CountArmed
<1>11. CASE Drain
    BY <1>11 DEF Drain
<1>12. CASE Release
    BY <1>12 DEF Release
<1>13. CASE Stop
    BY <1>13 DEF Stop
<1>14. CASE UNCHANGED vars
    BY <1>14 DEF vars
<1> QED
    BY <1>1, <1>2, <1>3, <1>4, <1>5, <1>6, <1>7, <1>8, <1>9, <1>10,
       <1>11, <1>12, <1>13, <1>14
    DEF Next, CopierStep

LEMMA NextFlushCovers == IInv /\ [Next]_vars => FlushCovers'
<1> SUFFICES ASSUME IInv, [Next]_vars PROVE FlushCovers'
    OBVIOUS
<1> USE DEF IInv, TypeOK, PositionInv, StopInv, ReleasedInv, FlushCovers, CopierGoes, pipe, flushState
<1>1. ASSUME NEW f \in Flushers, Flush(f) PROVE FlushCovers'
    BY <1>1 DEF Flush
<1>2. ASSUME NEW f \in Flushers, FlushReturns(f) PROVE FlushCovers'
    BY <1>2 DEF FlushReturns
<1>3. CASE ChildWrites
    BY <1>3 DEF ChildWrites
<1>4. CASE WritersGone
    BY <1>4 DEF WritersGone
<1>5. CASE ReapCloses
    BY <1>5 DEF ReapCloses
<1>6. CASE ReadBegins
    BY <1>6 DEF ReadBegins
<1>7. CASE ReadReturns
    BY <1>7 DEF ReadReturns
<1>8. CASE Copy
    BY <1>8 DEF Copy
<1>9. CASE ClearDeadline
    BY <1>9 DEF ClearDeadline
<1>10. CASE CountArmed
    BY <1>10 DEF CountArmed
<1>11. CASE Drain
    BY <1>11 DEF Drain
<1>12. CASE Release
    BY <1>12 DEF Release
<1>13. CASE Stop
    BY <1>13 DEF Stop
<1>14. CASE UNCHANGED vars
    BY <1>14 DEF vars
<1> QED
    BY <1>1, <1>2, <1>3, <1>4, <1>5, <1>6, <1>7, <1>8, <1>9, <1>10,
       <1>11, <1>12, <1>13, <1>14
    DEF Next, CopierStep

\* The invariant holds in every reachable state.
THEOREM Inductive == Spec => []IInv
<1>1. IInv /\ [Next]_vars => IInv'
    BY NextTypeOK, NextPositionInv, NextCalledInv, NextDrainInv, NextStopInv,
       NextReleasedInv, NextNoFlushForgotten, NextFlushCovers
    DEF IInv
<1> QED
    BY InitIInv, <1>1, PTL DEF Spec

-------------------------------------------------------------------------------
(* The properties the runs check.                                          *)

\* The copier's variables keep their types.
THEOREM TypeCorrect == Spec => []TypeOK
<1>1. IInv => TypeOK
    BY DEF IInv
<1> QED
    BY Inductive, <1>1, PTL

\* flush keeps its promise: what was written before the call has been copied
\* when it returns, unless the pipe was closed under the copier.
THEOREM FlushKeepsPromise == Spec => []FlushCovers
<1>1. IInv => FlushCovers
    BY DEF IInv
<1> QED
    BY Inductive, <1>1, PTL

\* A waiting flush always has a deadline set or a drain or stop under way that
\* releases it.
THEOREM FlushNeverForgotten == Spec => []NoFlushForgotten
<1>1. IInv => NoFlushForgotten
    BY DEF IInv
<1> QED
    BY Inductive, <1>1, PTL


-------------------------------------------------------------------------------
(* The process is a copier to its copier.                                  *)

\* Starting, exiting or killing a process is at most the end of the writers.
LEMMA ProcessesStep ==
    ASSUME NEW c, NEW k, Processes(c, k) PROVE [Next]_vars
BY DEF Processes, Next, copierVars

LEMMA StepIsCopierStep == [ProcNext]_allVars => [Next]_vars
<1> SUFFICES ASSUME [ProcNext]_allVars PROVE [Next]_vars
    OBVIOUS
<1>1. CASE CopierMoves
    BY <1>1 DEF CopierMoves, Next
<1>2. CASE CopierRuns
    BY <1>2 DEF CopierRuns, Next
<1>3. ASSUME NEW f \in Flushers, FlushEnds(f) PROVE [Next]_vars
    BY <1>3 DEF FlushEnds, Next
<1>4. CASE LeavesBehind \/ ChildExits \/ KinExit
    BY <1>4, ProcessesStep DEF LeavesBehind, ChildExits, KinExit
<1>5. CASE ReaderStops \/ DrainFires \/ WaitReturns \/ CutOutput \/ OutputRead \/ StderrRead
    BY <1>5 DEF ReaderStops, DrainFires, WaitReturns, CutOutput, OutputRead, StderrRead, copierVars
<1>6. CASE CutStderr
    BY <1>6 DEF CutStderr, Next
<1>7. ASSUME NEW c \in Callers, CallClose(c) \/ CallKill(c) \/ GraceOver(c) \/ CallStep(c)
      PROVE  [Next]_vars
    BY <1>7, ProcessesStep DEF CallClose, CallKill, GraceOver, CallStep, KillLooks, Signal, CloseReturns, copierVars
<1>8. CASE UNCHANGED allVars
    BY <1>8 DEF allVars, copierVars
<1> QED
    BY <1>1, <1>2, <1>3, <1>4, <1>5, <1>6, <1>7, <1>8 DEF ProcNext, ReapStep

\* The process implements the copier: whatever the child, the processes it
\* leaves behind, Reap, Close and Kill do, the copier sees a pipe that is
\* written, loses its writers, or is closed.
THEOREM ProcessHasCopier == ProcSpec => Spec
<1>1. ProcInit => Init
    BY DEF ProcInit
<1> QED
    BY <1>1, StepIsCopierStep, PTL DEF ProcSpec, Spec

\* flush keeps its promise inside the process too: grandchildren, the drain
\* timeout, Close and Kill included.
THEOREM FlushKeepsPromiseInProcess == ProcSpec => [](FlushCovers /\ NoFlushForgotten)
BY ProcessHasCopier, FlushKeepsPromise, FlushNeverForgotten, PTL

-------------------------------------------------------------------------------
(* Types.                                                                  *)

ProcessTypes ==
    /\ child \in {"running", "exited", "reaped"} /\ kin \subseteq {"out", "err"}
    /\ output \in BOOLEAN /\ readDone \in BOOLEAN
    /\ drain \in {"off", "running", "fired"}
    /\ reap \in {"wait", "stdout", "reader", "stderr", "copier", "done"}
    /\ at \in [Callers -> {"idle", "grace", "kill", "closeKill", "signal", "closeSignal", "wait", "returned"}]

LEMMA NextProcessTypes == ProcessTypes /\ [ProcNext]_allVars => ProcessTypes'
<1> SUFFICES ASSUME ProcessTypes, [ProcNext]_allVars PROVE ProcessTypes'
    OBVIOUS
<1> USE DEF ProcessTypes
<1>1. CASE CopierMoves \/ CopierRuns \/ \E f \in Flushers : FlushEnds(f)
    BY <1>1 DEF CopierMoves, CopierRuns, FlushEnds, processVars
<1>2. CASE LeavesBehind \/ ChildExits \/ KinExit
    BY <1>2 DEF LeavesBehind, ChildExits, KinExit, Processes
<1>3. CASE ReaderStops \/ DrainFires
    BY <1>3 DEF ReaderStops, DrainFires
<1>4. CASE ReapStep
    BY <1>4 DEF ReapStep, WaitReturns, CutOutput, OutputRead, CutStderr, StderrRead, ReapGoes
<1>5. ASSUME NEW c \in Callers, CallClose(c) \/ CallKill(c) \/ GraceOver(c) \/ CallStep(c)
      PROVE  ProcessTypes'
  <2>1. CASE CallClose(c) \/ CallKill(c) \/ GraceOver(c) \/ KillLooks(c) \/ CloseReturns(c)
      BY <2>1 DEF CallClose, CallKill, GraceOver, KillLooks, CloseReturns, Goes
  <2>2. CASE Signal(c)
      BY <2>2 DEF Signal, Processes, Goes
  <2> QED
      BY <1>5, <2>1, <2>2 DEF CallStep
<1>6. CASE UNCHANGED allVars
    BY <1>6 DEF allVars, processVars
<1> QED
    BY <1>1, <1>2, <1>3, <1>4, <1>5, <1>6 DEF ProcNext

\* The variables of the process and of its copier keep their types.
THEOREM ProcTypeCorrect == ProcSpec => []ProcTypeOK
<1>1. ProcInit => ProcessTypes
    BY DEF ProcInit, ProcessTypes
<1>2. ProcessTypes /\ TypeOK => ProcTypeOK
    BY DEF ProcessTypes, ProcTypeOK
<1> QED
    BY <1>1, <1>2, NextProcessTypes, ProcessHasCopier, TypeCorrect, PTL DEF ProcSpec

-------------------------------------------------------------------------------
(* What Exited promises.                                                   *)

\* How far Reap has come, and what it has seen on the way.
ReapInv ==
    /\ reap # "wait" => child = "reaped"
    /\ reap \in {"stderr", "copier", "done"} => readDone
    /\ reap = "done" => copier = "stopped"

LEMMA InitReapInv == ProcInit => ReapInv
BY DEF ProcInit, ReapInv

LEMMA NextReapInv == ReapInv /\ [ProcNext]_allVars => ReapInv'
<1> SUFFICES ASSUME ReapInv, [ProcNext]_allVars PROVE ReapInv'
    OBVIOUS
<1> USE DEF ReapInv
<1>1. CASE CopierMoves
    BY <1>1 DEF CopierMoves, processVars, ChildWrites, Flush
<1>2. CASE CopierRuns
  <2>1. copier # "stopped"
      BY <1>2 DEF CopierRuns, CopierStep, CopierGoes, ReadBegins, ReadReturns, Copy, ClearDeadline,
                  CountArmed, Drain, Release, Stop
  <2> QED
      BY <1>2, <2>1 DEF CopierRuns, processVars
<1>3. ASSUME NEW f \in Flushers, FlushEnds(f) PROVE ReapInv'
    BY <1>3 DEF FlushEnds, FlushReturns, processVars
<1>4. CASE LeavesBehind \/ ChildExits \/ KinExit
    BY <1>4 DEF LeavesBehind, ChildExits, KinExit, Processes, WritersGone, copierVars, vars
<1>5. CASE ReaderStops \/ DrainFires
    BY <1>5 DEF ReaderStops, DrainFires, copierVars, vars
<1>6. CASE WaitReturns \/ CutOutput \/ OutputRead \/ StderrRead
    BY <1>6 DEF WaitReturns, CutOutput, OutputRead, StderrRead, ReapGoes, copierVars, vars
<1>7. CASE CutStderr
    BY <1>7 DEF CutStderr, ReapGoes, ReapCloses
<1>8. ASSUME NEW c \in Callers, CallClose(c) \/ CallKill(c) \/ GraceOver(c) \/ CallStep(c)
      PROVE  ReapInv'
    BY <1>8 DEF CallClose, CallKill, GraceOver, CallStep, KillLooks, Signal, CloseReturns, Processes,
                WritersGone, copierVars, vars
<1>9. CASE UNCHANGED allVars
    BY <1>9 DEF allVars, copierVars, processVars, vars
<1> QED
    BY <1>1, <1>2, <1>3, <1>4, <1>5, <1>6, <1>7, <1>8, <1>9 DEF ProcNext, ReapStep

LEMMA ReapInvHolds == ProcSpec => []ReapInv
BY InitReapInv, NextReapInv, PTL DEF ProcSpec

\* Exited means read: the child is reaped, its stdout read and its copier
\* stopped, with everything it wrote to stderr copied unless the pipe had to be
\* closed under a process left behind.
THEOREM ExitedIsRead == ProcSpec => []ExitedMeansRead
<1>1. ReapInv /\ IInv => ExitedMeansRead
    BY DEF ReapInv, IInv, StopInv, PositionInv, ExitedMeansRead, Exited
<1> QED
    BY <1>1, ReapInvHolds, ProcessHasCopier, Inductive, PTL
===============================================================================
