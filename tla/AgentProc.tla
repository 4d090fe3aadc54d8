------------------------------- MODULE AgentProc -------------------------------
(***************************************************************************)
(* internal/agentproc/agentproc.go: an agent's process from Start to       *)
(* Exited, with the copier of its stderr.  The child may leave processes   *)
(* behind that hold its pipes; Reap gives both pipes one DrainTimeout      *)
(* after the child's exit, and Close gives the child a grace before it     *)
(* kills the group.                                                        *)
(***************************************************************************)
EXTENDS StderrCopier

CONSTANT Callers    \* the goroutines that call Close or Kill, each once

VARIABLES
    child,      \* running, exited, or reaped: collected by Wait
    kin,        \* the pipes that processes the child started hold
    output,     \* Reap has not closed our end of stdout
    readDone,   \* the reader of stdout has finished
    drain,      \* Reap's DrainTimeout
    reap,       \* where Reap's goroutine is; Exited closes as it is done
    at          \* where each call of Close or Kill is

copierVars == vars
processVars == <<child, kin, output, readDone, drain, reap, at>>
allVars == <<copierVars, processVars>>

\* Start: the child runs, its own ends of the pipes closed on our side.
ProcInit ==
    /\ Init
    /\ child = "running" /\ kin = {} /\ output = TRUE /\ readDone = FALSE
    /\ drain = "off" /\ reap = "wait"
    /\ at = [c \in Callers |-> "idle"]

Exited == reap = "done"

-------------------------------------------------------------------------------
(* The processes.  The pipe's last writer is gone when the child and those  *)
(* it left behind are.                                                      *)

HeldBy(c, k) == c = "running" \/ "err" \in k

Processes(c, k) ==
    /\ child' = c /\ kin' = k
    /\ IF writers /\ ~HeldBy(c, k) THEN WritersGone ELSE UNCHANGED copierVars

LeavesBehind ==
    /\ child = "running" /\ kin = {}
    /\ \E k \in SUBSET {"out", "err"} \ {{}} : Processes(child, k)
    /\ UNCHANGED <<output, readDone, drain, reap, at>>

ChildExits ==
    /\ child = "running"
    /\ Processes("exited", kin)
    /\ UNCHANGED <<output, readDone, drain, reap, at>>

KinExit ==
    /\ kin # {}
    /\ Processes(child, {})
    /\ UNCHANGED <<output, readDone, drain, reap, at>>

\* The reader of stdout: it ends with the pipe, or gives up before.
OutputOver == ~output \/ (child # "running" /\ "out" \notin kin)

ReaderStops ==
    /\ ~readDone /\ readDone' = TRUE
    /\ UNCHANGED <<copierVars, child, kin, output, drain, reap, at>>

-------------------------------------------------------------------------------
(* Reap.                                                                   *)

ReapGoes(from, to) == reap = from /\ reap' = to

WaitReturns ==
    /\ ReapGoes("wait", "stdout")
    /\ child = "exited" /\ child' = "reaped"
    /\ drain' = "running"
    /\ UNCHANGED <<copierVars, kin, output, readDone, at>>

DrainFires ==
    /\ drain = "running" /\ drain' = "fired"
    /\ UNCHANGED <<copierVars, child, kin, output, readDone, reap, at>>

\* A slip: the timer's one tick is taken, and none is left for stderr.
CutOutputTakesTick ==
    /\ ReapGoes("stdout", "reader")
    /\ drain = "fired" /\ drain' = "off"
    /\ output' = FALSE
    /\ UNCHANGED <<copierVars, child, kin, readDone, at>>

\* The timer's tick is taken; a closed channel in its place fires for stderr.
CutOutput ==
    /\ ReapGoes("stdout", "reader")
    /\ drain = "fired"
    /\ output' = FALSE
    /\ UNCHANGED <<copierVars, child, kin, readDone, drain, at>>

OutputRead ==
    /\ ReapGoes("stdout", "stderr") \/ ReapGoes("reader", "stderr")
    /\ readDone
    /\ UNCHANGED <<copierVars, child, kin, output, readDone, drain, at>>

\* A slip: the copier is not waited for.
CutStderrAndGo ==
    /\ ReapGoes("stderr", "done")
    /\ drain = "fired"
    /\ ReapCloses
    /\ UNCHANGED <<child, kin, output, readDone, drain, at>>

CutStderr ==
    /\ ReapGoes("stderr", "copier")
    /\ drain = "fired"
    /\ ReapCloses
    /\ UNCHANGED <<child, kin, output, readDone, drain, at>>

StderrRead ==
    /\ ReapGoes("stderr", "done") \/ ReapGoes("copier", "done")
    /\ copier = "stopped"
    /\ UNCHANGED <<copierVars, child, kin, output, readDone, drain, at>>

-------------------------------------------------------------------------------
(* Close and Kill.                                                         *)

Goes(c, from, to) == at[c] = from /\ at' = [at EXCEPT ![c] = to]

\* Close ends the child's input, which it may take as the request to exit.
CallClose(c) ==
    /\ Goes(c, "idle", "grace")
    /\ UNCHANGED <<copierVars, child, kin, output, readDone, drain, reap>>

CallKill(c) ==
    /\ Goes(c, "idle", "kill")
    /\ UNCHANGED <<copierVars, child, kin, output, readDone, drain, reap>>

GraceOver(c) ==
    /\ Goes(c, "grace", "closeKill")
    /\ UNCHANGED <<copierVars, child, kin, output, readDone, drain, reap>>

\* Kill looks at Exited, then signals the group.
KillLooks(c) ==
    /\ \/ Goes(c, "kill", IF Exited THEN "returned" ELSE "signal")
       \/ Goes(c, "closeKill", IF Exited THEN "wait" ELSE "closeSignal")
    /\ UNCHANGED <<copierVars, child, kin, output, readDone, drain, reap>>

\* What has left the group survives.
Signal(c) ==
    /\ Goes(c, "signal", "returned") \/ Goes(c, "closeSignal", "wait")
    /\ \E k \in {{}, kin} : Processes(IF child = "running" THEN "exited" ELSE child, k)
    /\ UNCHANGED <<output, readDone, drain, reap>>

\* Close, from either wait, once Exited has closed.
CloseReturns(c) ==
    /\ Goes(c, "grace", "returned") \/ Goes(c, "wait", "returned")
    /\ Exited
    /\ UNCHANGED <<copierVars, child, kin, output, readDone, drain, reap>>

-------------------------------------------------------------------------------
CopierMoves ==
    /\ \/ ChildWrites
       \/ \E f \in Flushers : Flush(f)
    /\ UNCHANGED processVars

CopierRuns == CopierStep /\ UNCHANGED processVars

FlushEnds(f) == FlushReturns(f) /\ UNCHANGED processVars

ReapStep == WaitReturns \/ CutOutput \/ OutputRead \/ CutStderr \/ StderrRead

CallStep(c) == KillLooks(c) \/ Signal(c) \/ CloseReturns(c)

ProcNext ==
    \/ CopierMoves \/ CopierRuns \/ \E f \in Flushers : FlushEnds(f)
    \/ LeavesBehind \/ ChildExits \/ KinExit \/ ReaderStops
    \/ DrainFires \/ ReapStep
    \/ \E c \in Callers : CallClose(c) \/ CallKill(c) \/ GraceOver(c) \/ CallStep(c)

ProcSpec == ProcInit /\ [][ProcNext]_allVars

\* Our goroutines run and our timers fire; a reader sees its pipe's end.  The
\* child and what it leaves behind need never exit.
FairProcSpec ==
    /\ ProcSpec
    /\ WF_allVars(CopierRuns)
    /\ \A f \in Flushers : WF_allVars(FlushEnds(f))
    /\ WF_allVars(OutputOver /\ ReaderStops)
    /\ WF_allVars(DrainFires) /\ WF_allVars(ReapStep)
    /\ \A c \in Callers : WF_allVars(GraceOver(c)) /\ WF_allVars(CallStep(c))

-------------------------------------------------------------------------------
(* Properties.                                                             *)

ProcTypeOK ==
    /\ TypeOK
    /\ child \in {"running", "exited", "reaped"} /\ kin \subseteq {"out", "err"}
    /\ output \in BOOLEAN /\ readDone \in BOOLEAN
    /\ drain \in {"off", "running", "fired"}
    /\ reap \in {"wait", "stdout", "reader", "stderr", "copier", "done"}
    /\ at \in [Callers -> {"idle", "grace", "kill", "closeKill", "signal", "closeSignal", "wait", "returned"}]

\* What Exited promises: the child is reaped, its stdout read, and no goroutine
\* of ours writes to the caller's stderr any more; unless a process left behind
\* held the pipe for all of DrainTimeout, everything written to it is there.
ExitedMeansRead ==
    Exited => /\ child = "reaped" /\ readDone /\ copier = "stopped"
              /\ readEnd => copied = written /\ ~writers

\* Whatever the child left behind holds, its exit is collected, and a call of
\* Close or Kill returns though the child ignores the end of its input.
ExitIsCollected ==
    /\ child # "running" ~> Exited
    /\ \A c \in Callers : at[c] # "idle" ~> at[c] = "returned"

\* Every flush returns, with a child that writes on, exits, or is cut off by
\* Reap; and once nobody writes any more everything written is copied.
CopierDelivers == FlushTerminates /\ AllCopied
===============================================================================
