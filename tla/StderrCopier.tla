------------------------------ MODULE StderrCopier ------------------------------
(***************************************************************************)
(* internal/agentproc/stderr.go: the goroutine that copies a child's       *)
(* stderr to the caller's writer, and flush, which waits until everything  *)
(* the child wrote before the call is there.  What the child writes is     *)
(* counted, not spelled: written >= taken >= copied are positions in one   *)
(* stream.                                                                 *)
(***************************************************************************)
EXTENDS Naturals, Sequences

CONSTANTS Flushers,    \* the calls of flush, each made once
          MaxWritten   \* bound: chunks the child writes to stderr

ASSUME MaxWrittenAssumption == MaxWritten \in Nat

VARIABLES
    written,     \* chunks the child and its children have put in the pipe
    taken,       \* chunks the copier has read from it
    copied,      \* chunks that have reached the caller's writer
    writers,     \* some process still holds the pipe's write end
    readEnd,     \* the read end is open: Reap has not closed it
    deadline,    \* the read deadline is set, and it is always set to now
    waiting,     \* stderrCopier.waiting
    released,    \* the flushes whose channel is closed
    copier,      \* where run is; "stopped" once done has closed
    armed,       \* run's armed: the flushes the drain under way covers
    flush,       \* where each flush is
    target       \* history: what was written when the flush was called

vars == <<written, taken, copied, writers, readEnd, deadline, waiting, released,
          copier, armed, flush, target>>

pipe == <<written, writers, readEnd>>
flushState == <<flush, target>>

CopierStates == {"read", "blocked", "copy", "clear", "count", "drain",
                 "drainCopy", "release", "stopping", "stopped"}

Init ==
    /\ written = 0
    /\ taken = 0
    /\ copied = 0
    /\ writers = TRUE
    /\ readEnd = TRUE
    /\ deadline = FALSE
    /\ waiting = <<>>
    /\ released = {}
    /\ copier = "read"
    /\ armed = 0
    /\ flush = [f \in Flushers |-> "idle"]
    /\ target = [f \in Flushers |-> 0]

CopierGoes(from, to) == copier = from /\ copier' = to

-------------------------------------------------------------------------------
(* The child, and Reap.                                                    *)

ChildWrites ==
    /\ writers
    /\ written < MaxWritten
    /\ written' = written + 1
    /\ UNCHANGED <<taken, copied, writers, readEnd, deadline, waiting, released,
                   copier, armed, flushState>>

\* The last process holding the write end exits.
WritersGone ==
    /\ writers
    /\ writers' = FALSE
    /\ UNCHANGED <<written, taken, copied, readEnd, deadline, waiting, released,
                   copier, armed, flushState>>

\* Reap gives up on a grandchild that holds the pipe.
ReapCloses ==
    /\ readEnd
    /\ readEnd' = FALSE
    /\ UNCHANGED <<written, taken, copied, writers, deadline, waiting, released,
                   copier, armed, flushState>>

-------------------------------------------------------------------------------
(* flush.                                                                  *)

\* Registering and setting the deadline are one locked step.  A stopped copier
\* or a closed read end has nothing to wait for.
Flush(f) ==
    /\ flush[f] = "idle"
    /\ target' = [target EXCEPT ![f] = written]
    /\ \/ /\ copier = "stopped" \/ ~readEnd
          /\ flush' = [flush EXCEPT ![f] = "returned"]
          /\ UNCHANGED <<waiting, deadline>>
       \/ /\ copier # "stopped" /\ readEnd
          /\ flush' = [flush EXCEPT ![f] = "waiting"]
          /\ waiting' = Append(waiting, f)
          /\ deadline' = TRUE
    /\ UNCHANGED <<pipe, taken, copied, released, copier, armed>>

FlushReturns(f) ==
    /\ flush[f] = "waiting"
    /\ f \in released
    /\ flush' = [flush EXCEPT ![f] = "returned"]
    /\ UNCHANGED <<pipe, taken, copied, deadline, waiting, released, copier,
                   armed, target>>

-------------------------------------------------------------------------------
(* run.                                                                    *)

\* Read looks at the deadline before it looks at the pipe: a read that starts
\* after it fails at once, data waiting or not.
ReadBegins ==
    /\ IF ~readEnd THEN CopierGoes("read", "stopping")
       ELSE IF deadline THEN CopierGoes("read", "clear")
       ELSE CopierGoes("read", "blocked")
    /\ UNCHANGED <<pipe, taken, copied, deadline, waiting, released, armed, flushState>>

\* A read that has started takes what is there, waits while nothing is, and
\* is ended by the deadline, by the end of the pipe or by its closing.
ReadReturns ==
    /\ \/ /\ taken < written
          /\ taken' \in (taken + 1)..written
          /\ CopierGoes("blocked", "copy")
       \/ /\ (taken = written /\ ~writers) \/ ~readEnd
          /\ CopierGoes("blocked", "stopping")
          /\ UNCHANGED taken
       \/ /\ taken = written /\ deadline
          /\ CopierGoes("blocked", "clear")
          /\ UNCHANGED taken
    /\ UNCHANGED <<pipe, copied, deadline, waiting, released, armed, flushState>>

Copy ==
    /\ \/ CopierGoes("copy", "read")
       \/ CopierGoes("drainCopy", "drain")
    /\ copied' = taken
    /\ UNCHANGED <<pipe, taken, deadline, waiting, released, armed, flushState>>

ClearDeadline ==
    /\ CopierGoes("clear", "count")
    /\ deadline' = FALSE
    /\ UNCHANGED <<pipe, taken, copied, waiting, released, armed, flushState>>

CountArmed ==
    /\ CopierGoes("count", "drain")
    /\ armed' = Len(waiting)
    /\ UNCHANGED <<pipe, taken, copied, deadline, waiting, released, flushState>>

\* A slip: a pipe without writers is taken to be empty.
DrainEndsEarly ==
    /\ \/ /\ taken < written /\ writers
          /\ taken' \in (taken + 1)..written
          /\ CopierGoes("drain", "drainCopy")
       \/ /\ taken = written /\ writers
          /\ CopierGoes("drain", "release")
          /\ UNCHANGED taken
       \/ /\ ~writers \/ ~readEnd
          /\ CopierGoes("drain", "stopping")
          /\ UNCHANGED taken
    /\ UNCHANGED <<pipe, copied, deadline, waiting, released, armed, flushState>>

\* drainNow: read until the pipe is empty, without waiting and without looking
\* at the deadline.  It reports false at the pipe's end, or when the read end
\* was closed before it began; once begun it reads on.
Drain ==
    /\ \/ /\ taken < written
          /\ taken' \in (taken + 1)..written
          /\ CopierGoes("drain", "drainCopy")
       \/ /\ taken = written /\ writers
          /\ CopierGoes("drain", "release")
          /\ UNCHANGED taken
       \/ /\ (taken = written /\ ~writers) \/ ~readEnd
          /\ CopierGoes("drain", "stopping")
          /\ UNCHANGED taken
    /\ UNCHANGED <<pipe, copied, deadline, waiting, released, armed, flushState>>

\* Slips: what is left is taken off armed; every waiting flush is released;
\* the deadline is cleared at the end.
ReleaseCountsDown ==
    /\ CopierGoes("release", "read")
    /\ released' = released \cup {waiting[i] : i \in 1..armed}
    /\ waiting' = SubSeq(waiting, armed + 1, Len(waiting))
    /\ armed' = armed - Len(waiting)
    /\ deadline' = (deadline \/ waiting' # <<>>)
    /\ UNCHANGED <<pipe, taken, copied, flushState>>

ReleaseAll ==
    /\ CopierGoes("release", "read")
    /\ released' = released \cup {waiting[i] : i \in 1..Len(waiting)}
    /\ waiting' = <<>>
    /\ armed' = 0
    /\ UNCHANGED <<pipe, taken, copied, deadline, flushState>>

ReleaseThenClear ==
    /\ CopierGoes("release", "read")
    /\ released' = released \cup {waiting[i] : i \in 1..armed}
    /\ waiting' = SubSeq(waiting, armed + 1, Len(waiting))
    /\ armed' = 0
    /\ deadline' = FALSE
    /\ UNCHANGED <<pipe, taken, copied, flushState>>

\* The flushes registered since armed was counted get a drain of their own.
Release ==
    /\ CopierGoes("release", "read")
    /\ released' = released \cup {waiting[i] : i \in 1..armed}
    /\ waiting' = SubSeq(waiting, armed + 1, Len(waiting))
    /\ armed' = 0
    /\ deadline' = (deadline \/ waiting' # <<>>)
    /\ UNCHANGED <<pipe, taken, copied, flushState>>

\* The deferred function: done closes under the lock flush registers under.
Stop ==
    /\ CopierGoes("stopping", "stopped")
    /\ released' = released \cup {waiting[i] : i \in 1..Len(waiting)}
    /\ waiting' = <<>>
    /\ UNCHANGED <<pipe, taken, copied, deadline, armed, flushState>>

-------------------------------------------------------------------------------
CopierStep ==
    \/ ReadBegins \/ ReadReturns \/ Copy \/ ClearDeadline \/ CountArmed
    \/ Drain \/ Release \/ Stop

Next ==
    \/ ChildWrites \/ WritersGone \/ ReapCloses
    \/ \E f \in Flushers : Flush(f) \/ FlushReturns(f)
    \/ CopierStep

Spec == Init /\ [][Next]_vars

\* The copier's goroutine and a released flush run; the child owes nothing.
FairSpec ==
    /\ Spec
    /\ WF_vars(CopierStep)
    /\ \A f \in Flushers : WF_vars(FlushReturns(f))

-------------------------------------------------------------------------------
(* Properties.                                                             *)

TypeOK ==
    /\ written \in Nat /\ taken \in Nat /\ copied \in Nat
    /\ writers \in BOOLEAN /\ readEnd \in BOOLEAN /\ deadline \in BOOLEAN
    /\ waiting \in Seq(Flushers)
    /\ released \subseteq Flushers
    /\ copier \in CopierStates
    /\ armed \in Nat
    /\ flush \in [Flushers -> {"idle", "waiting", "returned"}]
    /\ target \in [Flushers -> Nat]

\* flush returns only once everything written before the call has been copied,
\* unless the pipe was closed under the copier: the promise a caller that
\* quotes stderr relies on, over drains that overlap with later flushes.
FlushCovers ==
    \A f \in Flushers :
        (flush[f] = "returned" /\ readEnd) => copied >= target[f]

\* A waiting flush is never forgotten: its deadline is set, or the copier is
\* on its way to the drain or the stop that releases it.
NoFlushForgotten ==
    waiting # <<>> =>
        \/ deadline
        \/ copier \in {"clear", "count", "stopping"}
        \/ copier \in {"drain", "drainCopy", "release"} /\ armed > 0

\* Every flush returns, whether or not the child writes on, exits, or leaves
\* the pipe to a grandchild.
FlushTerminates == \A f \in Flushers : flush[f] = "waiting" ~> flush[f] = "returned"

\* Once nobody writes any more everything written reaches the writer.
AllCopied == ~writers ~> (copied = written \/ ~readEnd)
===============================================================================
