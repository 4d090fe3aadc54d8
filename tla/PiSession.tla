------------------------------ MODULE PiSession ------------------------------
(***************************************************************************)
(* driver/pi.go over protocol/pirpc: one session with the pi agent.  The   *)
(* read loop takes pi's records in order and hands each answer to the      *)
(* goroutine that waits for it, which may run after later records were     *)
(* taken.  Turns are opened by prompts, /compact and pi's own runs, and    *)
(* ended by whichever of five places finds the turn to be over.  What a    *)
(* record says, usage, model and stop reason are left out; that an abort   *)
(* makes pi end its run is part of what pi may do.                         *)
(***************************************************************************)
EXTENDS Integers, Sequences, FiniteSets, SequencesExt

CONSTANTS Prompts,     \* the calls of Prompt, /compact among them
          Dialogs,     \* the dialogs pi's extensions raise
          Nobody,
          MaxWork,     \* bound: calls of Prompt and dialogs together
          MaxUnread    \* bound: records on the wire

ASSUME NamesAssumption == Nobody \notin Prompts
ASSUME DialogsAssumption == IsFiniteSet(Dialogs)
ASSUME BoundsAssumption == MaxWork \in Nat /\ MaxUnread \in Nat

VARIABLES
    \* pi: its streams, the prompts in preflight, the prompt whose run it is
    \* and how far, one deferred until that run settles, the compaction it is
    \* at, the dialogs its extensions wait on.
    stream, wire, stdin, preparing, runner, run, deferred, compaction, waits,
    \* piSession.
    turnActive, turnIndex, runSeen, compacting,
    dialogs,      \* the turn of each parked dialog, NotParked for the others
    timed,        \* dialogs with a timer; those whose timer has fired
    firing,
    resolving,    \* dialogs dropped by Resolve, not answered yet
    telling,      \* dialogs answered and not yet told as resolved
    call,         \* where each call of Prompt, with its goroutine, is
    kind, turn,   \* the command it sends, the turn it was sent in
    caller,       \* the goroutine that calls Close and Kill
    watch,        \* where watch is
    pumpEnded,    \* the pump takes no more events
    \* History: the events the pump accepted.
    starts, ends, asked, settled

piVars == <<stream, wire, stdin, preparing, runner, run, deferred, compaction, waits>>
turnVars == <<turnActive, turnIndex, runSeen, starts, ends>>
dialogVars == <<dialogs, timed, firing, resolving, telling, asked, settled>>
callVars == <<call, kind, turn>>
endVars == <<caller, watch, pumpEnded>>
vars == <<piVars, turnVars, compacting, dialogVars, callVars, endVars>>

\* What pi writes and reads.
AgentStart == [type |-> "agent_start"]
Output == [type |-> "message_update"]
Settled == [type |-> "agent_settled"]
Dialog(d) == [type |-> "extension_ui_request", id |-> d]
Response(p, answer) == [type |-> "response", id |-> p, answer |-> answer]
\* To a command, and to get_state.
States == {"idle", "busy", "compacting"}
Answers == {"accepted", "refused"} \cup States
Records == {AgentStart, Output, Settled} \cup {Dialog(d) : d \in Dialogs}
             \cup {Response(p, a) : p \in Prompts, a \in Answers}

Command(p) == [type |-> "command", id |-> p]
GetState(p) == [type |-> "get_state", id |-> p]
Answer(d) == [type |-> "extension_ui_response", id |-> d]
Commands == {Command(p) : p \in Prompts} \cup {GetState(p) : p \in Prompts} \cup {Answer(d) : d \in Dialogs}

NotParked == -1    \* no turn has this index

Init ==
    /\ stream = "up" /\ wire = <<>> /\ stdin = <<>>
    /\ preparing = {} /\ runner = Nobody /\ run = "none" /\ deferred = Nobody
    /\ compaction = Nobody /\ waits = {}
    /\ turnActive = FALSE /\ turnIndex = 0 /\ runSeen = FALSE /\ compacting = FALSE
    /\ dialogs = [d \in Dialogs |-> NotParked]
    /\ timed = {} /\ firing = {} /\ resolving = {} /\ telling = {}
    /\ call = [p \in Prompts |-> "new"]
    /\ kind = [p \in Prompts |-> "prompt"]
    /\ turn = [p \in Prompts |-> 0]
    /\ caller = "idle" /\ watch = "waiting" /\ pumpEnded = FALSE
    /\ starts = 0 /\ ends = 0
    /\ asked = [d \in Dialogs |-> 0] /\ settled = [d \in Dialogs |-> 0]

-------------------------------------------------------------------------------
(* pi.                                                                     *)

Writes(record) ==
    /\ stream = "up"
    /\ Len(wire) < MaxUnread
    /\ wire' = Append(wire, record)

Takes(command) ==
    /\ stream = "up"
    /\ stdin # <<>>
    /\ Head(stdin) = command
    /\ stdin' = Tail(stdin)

piLeaves == <<turnVars, compacting, dialogVars, callVars, endVars>>

\* A prompt goes to preflight.  While a run goes on a steering one is queued
\* for it, or for a run of its own if that one is settling; no run starts
\* beside another or beside a compaction.
TakesPrompt(p) ==
    /\ kind[p] \in {"prompt", "steering_prompt"}
    /\ Takes(Command(p))
    /\ \/ /\ run = "none" /\ compaction = Nobody
          /\ preparing' = preparing \cup {p}
          /\ UNCHANGED <<wire, deferred>>
       \/ /\ run # "none" /\ kind[p] = "steering_prompt"
          /\ Writes(Response(p, "accepted"))
          /\ deferred' \in {deferred, p}
          /\ UNCHANGED preparing
       \/ /\ run # "none" \/ compaction # Nobody
          /\ Writes(Response(p, "refused"))
          /\ UNCHANGED <<preparing, deferred>>
    /\ UNCHANGED <<stream, runner, run, compaction, waits, piLeaves>>

\* A steer is queued for the run there is or will be, or refused.
TakesSteer(p) ==
    /\ kind[p] = "steer"
    /\ Takes(Command(p))
    /\ \E answer \in {"accepted", "refused"} : Writes(Response(p, answer))
    /\ UNCHANGED <<stream, preparing, runner, run, deferred, compaction, waits, piLeaves>>

TakesCompact(p) ==
    /\ kind[p] = "compact"
    /\ Takes(Command(p))
    /\ \/ /\ run = "none" /\ compaction = Nobody
          /\ compaction' = p
          /\ UNCHANGED wire
       \/ Writes(Response(p, "refused")) /\ UNCHANGED compaction
    /\ UNCHANGED <<stream, preparing, runner, run, deferred, waits, piLeaves>>

\* The prompt is refused, handled without a run, or its run is about to start.
Prepared(p) ==
    /\ p \in preparing
    /\ preparing' = preparing \ {p}
    /\ \/ Writes(Response(p, "refused")) /\ UNCHANGED <<runner, run>>
       \/ Writes(Response(p, "accepted")) /\ UNCHANGED <<runner, run>>
       \/ /\ run = "none" /\ compaction = Nobody
          /\ Writes(Response(p, "accepted"))
          /\ runner' = p /\ run' = "starting"
    /\ UNCHANGED <<stream, stdin, deferred, compaction, waits, piLeaves>>

RunStarts ==
    /\ run = "starting"
    /\ Writes(AgentStart)
    /\ run' = "going"
    /\ UNCHANGED <<stream, stdin, preparing, runner, deferred, compaction, waits, piLeaves>>

Speaks ==
    /\ run = "going"
    /\ Writes(Output)
    /\ UNCHANGED <<stream, stdin, preparing, runner, run, deferred, compaction, waits, piLeaves>>

\* By itself, on abort, or for an error; a dialog may outlive it.
Settles ==
    /\ run = "going"
    /\ Writes(Settled)
    /\ runner' = deferred
    /\ run' = IF deferred = Nobody THEN "none" ELSE "starting"
    /\ deferred' = Nobody
    /\ UNCHANGED <<stream, stdin, preparing, compaction, waits, piLeaves>>

\* A compaction may settle before it is answered.
CompactionSettles ==
    /\ compaction # Nobody
    /\ Writes(Settled)
    /\ UNCHANGED <<stream, stdin, preparing, runner, run, deferred, compaction, waits, piLeaves>>

Compacted ==
    /\ compaction # Nobody
    /\ \E answer \in {"accepted", "refused"} : Writes(Response(compaction, answer))
    /\ compaction' = Nobody
    /\ UNCHANGED <<stream, stdin, preparing, runner, run, deferred, waits, piLeaves>>

TakesGetState(p) ==
    /\ Takes(GetState(p))
    /\ Writes(Response(p, IF run # "none" THEN "busy" ELSE IF compaction # Nobody THEN "compacting" ELSE "idle"))
    /\ UNCHANGED <<stream, preparing, runner, run, deferred, compaction, waits, piLeaves>>

Raised == waits \cup {d \in Dialogs : asked[d] > 0}

MoreWork == Cardinality({p \in Prompts : call[p] # "new"}) + Cardinality(Raised) < MaxWork

Asks(d) ==
    /\ d \notin Raised /\ MoreWork
    /\ Writes(Dialog(d))
    /\ waits' = waits \cup {d}
    /\ UNCHANGED <<stream, stdin, preparing, runner, run, deferred, compaction, piLeaves>>

TakesAnswer(d) ==
    /\ Takes(Answer(d))
    /\ waits' = waits \ {d}
    /\ UNCHANGED <<stream, wire, preparing, runner, run, deferred, compaction, piLeaves>>

\* pi's own timer: it goes on with the dialog's default.
Defaults(d) ==
    /\ d \in timed \cap waits
    /\ waits' = waits \ {d}
    /\ UNCHANGED <<stream, wire, stdin, preparing, runner, run, deferred, compaction, piLeaves>>

\* What it wrote before it exited is still read.
PiExits ==
    /\ stream = "up"
    /\ stream' = "ending"
    /\ UNCHANGED <<wire, stdin, preparing, runner, run, deferred, compaction, waits, piLeaves>>

\* It exits when its input ends, or is killed a grace later.
PiStops == caller # "idle" /\ PiExits

-------------------------------------------------------------------------------
(* What the handlers share.                                                *)

Count(event, n) == event' = IF pumpEnded THEN event ELSE event + n

CountEach(event, ds) ==
    event' = [d \in Dialogs |-> IF d \in ds /\ ~pumpEnded THEN event[d] + 1 ELSE event[d]]

Goes(p, from, to) == call[p] \in from /\ call' = [call EXCEPT ![p] = to]

Opens ==
    /\ turnActive' = TRUE
    /\ turnIndex' = IF turnActive THEN turnIndex ELSE turnIndex + 1
    /\ Count(starts, IF turnActive THEN 0 ELSE 1)
    /\ UNCHANGED ends

openTurnLocked == Opens /\ runSeen' = (turnActive /\ runSeen)

\* completeTurnLocked and failTurnLocked.
endTurnLocked ==
    /\ turnActive' = FALSE
    /\ Count(ends, 1)
    /\ UNCHANGED <<turnIndex, runSeen, starts>>

\* A write fails once pi is gone or its input is closed.
CanSend == stream = "up" /\ caller # "closing"

Send(commands) == stdin' = IF CanSend THEN stdin \o commands ELSE stdin

Parked == {d \in Dialogs : dialogs[d] # NotParked}

Drop(ds) == dialogs' = [d \in Dialogs |-> IF d \in ds THEN NotParked ELSE dialogs[d]]

\* withdrawDialogLocked: dismissed in pi, and told of.
Withdraw(ds) ==
    /\ Drop(ds)
    /\ \E order \in SetToSeqs(ds) : Send([i \in 1..Len(order) |-> Answer(order[i])])
    /\ CountEach(settled, ds)
    /\ UNCHANGED <<timed, firing, resolving, telling, asked>>

piButStdin == <<stream, wire, preparing, runner, run, deferred, compaction, waits>>

-------------------------------------------------------------------------------
(* The read loop.                                                          *)

Reads(record) ==
    /\ wire # <<>>
    /\ Head(wire) = record
    /\ wire' = Tail(wire)
    /\ UNCHANGED <<stream, preparing, runner, run, deferred, compaction, waits>>

ReadStart ==
    /\ Reads(AgentStart)
    /\ Opens /\ runSeen' = TRUE
    /\ UNCHANGED <<stdin, compacting, dialogVars, callVars, endVars>>

\* onUpdate, onAssistant, onTool.
ReadOutput ==
    /\ Reads(Output)
    /\ openTurnLocked
    /\ UNCHANGED <<stdin, compacting, dialogVars, callVars, endVars>>

\* A slip: the dialogs of the turn are dropped and pi is left waiting.
ReadSettledDrops ==
    /\ Reads(Settled)
    /\ IF turnActive /\ ~compacting
       THEN LET its == {d \in Parked : dialogs[d] = turnIndex}
            IN Drop(its) /\ CountEach(settled, its) /\ endTurnLocked
       ELSE UNCHANGED <<turnVars, dialogs, settled>>
    /\ UNCHANGED <<stdin, timed, firing, resolving, telling, asked, compacting, callVars, endVars>>

\* onSettledLocked: a compaction's turn is ended by its answer.
ReadSettled ==
    /\ Reads(Settled)
    /\ IF turnActive /\ ~compacting
       THEN Withdraw({d \in Parked : dialogs[d] = turnIndex}) /\ endTurnLocked
       ELSE UNCHANGED <<stdin, turnVars, dialogVars>>
    /\ UNCHANGED <<compacting, callVars, endVars>>

\* onUIRequest.
ReadDialog(d) ==
    /\ Reads(Dialog(d))
    /\ dialogs' = [dialogs EXCEPT ![d] = IF turnActive THEN turnIndex ELSE 0]
    /\ timed' \in {timed, timed \cup {d}}
    /\ CountEach(asked, {d})
    /\ UNCHANGED <<stdin, turnVars, compacting, firing, resolving, telling, settled, callVars, endVars>>

\* Client.dispatch: an answer goes to whoever waits for it.
ReadResponse(p) ==
    \E answer \in Answers :
       /\ Reads(Response(p, answer))
       /\ call' = IF call[p] \in {"sent", "asking"} THEN [call EXCEPT ![p] = answer] ELSE call
       /\ UNCHANGED <<stdin, turnVars, compacting, dialogVars, kind, turn, endVars>>

StreamDone ==
    /\ stream = "ending" /\ wire = <<>>
    /\ stream' = "done"
    /\ UNCHANGED <<wire, stdin, preparing, runner, run, deferred, compaction, waits, piLeaves>>

-------------------------------------------------------------------------------
(* Prompt and the goroutine it leaves behind.                              *)

\* The command is text or /compact.
PromptCheck(p) ==
    /\ MoreWork
    /\ Goes(p, {"new"}, IF stream = "exited" THEN "gone" ELSE "checked")
    /\ \E k \in {"prompt", "compact"} : kind' = [kind EXCEPT ![p] = k]
    /\ UNCHANGED <<piVars, turnVars, compacting, dialogVars, turn, endVars>>

\* The turn it opens or steers, and with that the command it will be.
PromptOpen(p) ==
    /\ kind[p] = "prompt"
    /\ Goes(p, {"checked"}, "opened")
    /\ openTurnLocked
    /\ turn' = [turn EXCEPT ![p] = turnIndex']
    /\ kind' = [kind EXCEPT ![p] = IF ~turnActive THEN "prompt"
                                   ELSE IF runSeen THEN "steering_prompt" ELSE "steer"]
    /\ UNCHANGED <<piVars, compacting, dialogVars, endVars>>

\* compact: refused while a turn is open.
CompactOpen(p) ==
    /\ kind[p] = "compact"
    /\ Goes(p, {"checked"}, IF turnActive THEN "gone" ELSE "opened")
    /\ IF turnActive
       THEN UNCHANGED <<turnVars, compacting, turn>>
       ELSE openTurnLocked /\ compacting' = TRUE /\ turn' = [turn EXCEPT ![p] = turnIndex']
    /\ UNCHANGED <<piVars, dialogVars, kind, endVars>>

\* Expect and Send.  The turn of a /compact that cannot be sent fails, that of
\* a prompt is left to watch.
PromptSend(p) ==
    /\ Goes(p, {"opened"}, IF CanSend THEN "sent" ELSE "gone")
    /\ Send(<<Command(p)>>)
    /\ IF kind[p] = "compact" /\ ~CanSend /\ compacting
       THEN /\ compacting' = FALSE
            /\ IF turnActive /\ stream \in {"up", "ending"} THEN endTurnLocked ELSE UNCHANGED turnVars
       ELSE UNCHANGED <<turnVars, compacting>>
    /\ UNCHANGED <<piButStdin, dialogVars, kind, turn, endVars>>

\* A slip: whichever turn it is.
StillOne(p) == turnActive /\ ~runSeen

\* The turn the prompt was sent in is open, and has not seen a run.
StillIts(p) == turnActive /\ turnIndex = turn[p] /\ ~runSeen

\* awaitPrompt: a refusal comes with no run.
Refused(p) ==
    /\ kind[p] # "compact"
    /\ Goes(p, {"refused"}, "gone")
    /\ IF StillIts(p) THEN endTurnLocked ELSE UNCHANGED turnVars
    /\ UNCHANGED <<piVars, compacting, dialogVars, kind, turn, endVars>>

\* A slip: an acceptance is always of a run.
AcceptedIsRun(p) ==
    /\ kind[p] # "compact"
    /\ Goes(p, {"accepted"}, "gone")
    /\ UNCHANGED <<piVars, turnVars, compacting, dialogVars, kind, turn, endVars>>

Accepted(p) ==
    /\ kind[p] # "compact"
    /\ Goes(p, {"accepted"}, IF StillIts(p) /\ ~compacting THEN "checking" ELSE "gone")
    /\ UNCHANGED <<piVars, turnVars, compacting, dialogVars, kind, turn, endVars>>

AskState(p) ==
    /\ Goes(p, {"checking"}, IF CanSend THEN "asking" ELSE "gone")
    /\ Send(<<GetState(p)>>)
    /\ UNCHANGED <<piButStdin, turnVars, compacting, dialogVars, kind, turn, endVars>>

\* Nothing runs and nothing has: pi handled the prompt itself.  A turn met by
\* a compaction is left to it.
StateKnown(p) ==
    /\ Goes(p, States, IF call[p] = "compacting" /\ StillIts(p) THEN "gave_up" ELSE "gone")
    /\ IF call[p] = "idle" /\ StillIts(p) /\ ~compacting THEN endTurnLocked ELSE UNCHANGED turnVars
    /\ UNCHANGED <<piVars, compacting, dialogVars, kind, turn, endVars>>

\* get_state was not answered in time.
GiveUp(p) ==
    /\ Goes(p, {"asking"}, "gave_up")
    /\ UNCHANGED <<piVars, turnVars, compacting, dialogVars, kind, turn, endVars>>

\* The answer to /compact.
CompactAnswered(p) ==
    /\ kind[p] = "compact"
    /\ Goes(p, {"accepted", "refused"}, "gone")
    /\ compacting' = FALSE
    /\ IF compacting /\ turnActive THEN endTurnLocked ELSE UNCHANGED turnVars
    /\ UNCHANGED <<piVars, dialogVars, kind, turn, endVars>>

\* A slip: the end of the stream wakes only those that asked for the state.
AnswerLostToSome(p) ==
    /\ stream \in {"done", "exited"}
    /\ Goes(p, {"asking"}, "gone")
    /\ UNCHANGED <<piVars, turnVars, compacting, dialogVars, kind, turn, endVars>>

\* The stream ended first; what is left of the turn is watch's.
AnswerLost(p) ==
    /\ stream \in {"done", "exited"}
    /\ Goes(p, {"sent", "asking"}, "gone")
    /\ compacting' = (compacting /\ kind[p] # "compact")
    /\ UNCHANGED <<piVars, turnVars, dialogVars, kind, turn, endVars>>

-------------------------------------------------------------------------------
(* Dialogs.                                                                *)

\* Resolve, by somebody who was asked: dropped under the lock, answered and
\* told of after it.
Resolve(d) ==
    /\ d \in Parked /\ asked[d] > 0
    /\ Drop({d})
    /\ resolving' = resolving \cup {d}
    /\ UNCHANGED <<piVars, turnVars, compacting, timed, firing, telling, asked, settled, callVars, endVars>>

AnswerDialog(d) ==
    /\ d \in resolving
    /\ resolving' = resolving \ {d}
    /\ Send(<<Answer(d)>>)
    /\ telling' = IF CanSend THEN telling \cup {d} ELSE telling
    /\ UNCHANGED <<piButStdin, turnVars, compacting, dialogs, timed, firing, asked, settled, callVars, endVars>>

TellResolved(d) ==
    /\ d \in telling
    /\ telling' = telling \ {d}
    /\ CountEach(settled, {d})
    /\ UNCHANGED <<piVars, turnVars, compacting, dialogs, timed, firing, resolving, asked, callVars, endVars>>

\* A slip: a dialog without a timeout has one of no length.
TimerFiresAtOnce(d) ==
    /\ d \in Parked
    /\ firing' = firing \cup {d}
    /\ UNCHANGED <<piVars, turnVars, compacting, dialogs, timed, resolving, telling, asked, settled, callVars, endVars>>

\* A timer that has fired waits for the lock; Stop comes too late for it.
TimerFires(d) ==
    /\ d \in timed \cap Parked
    /\ firing' = firing \cup {d}
    /\ UNCHANGED <<piVars, turnVars, compacting, dialogs, timed, resolving, telling, asked, settled, callVars, endVars>>

\* A slip: the dialog is not looked up again.
TimerRunsBlind(d) ==
    /\ d \in firing
    /\ firing' = firing \ {d}
    /\ Drop({d})
    /\ CountEach(settled, {d})
    /\ UNCHANGED <<piVars, turnVars, compacting, timed, resolving, telling, asked, callVars, endVars>>

TimerRuns(d) ==
    /\ d \in firing
    /\ firing' = firing \ {d}
    /\ Drop({d})
    /\ CountEach(settled, {d} \cap Parked)
    /\ UNCHANGED <<piVars, turnVars, compacting, timed, resolving, telling, asked, callVars, endVars>>

Interrupt ==
    /\ Parked # {}
    /\ Withdraw(Parked)
    /\ UNCHANGED <<piButStdin, turnVars, compacting, callVars, endVars>>

-------------------------------------------------------------------------------
(* Close, Kill and watch.                                                  *)

\* Process.Reap.
Reaped ==
    /\ stream = "done"
    /\ stream' = "exited"
    /\ UNCHANGED <<wire, stdin, preparing, runner, run, deferred, compaction, waits, piLeaves>>

CallClose ==
    /\ caller = "idle" /\ ~pumpEnded
    /\ caller' = "closing"
    /\ UNCHANGED <<piVars, turnVars, compacting, dialogVars, callVars, watch, pumpEnded>>

CallKill ==
    /\ caller = "idle" /\ stream = "up"
    /\ caller' = "killing"
    /\ stream' = "ending"
    /\ UNCHANGED <<wire, stdin, preparing, runner, run, deferred, compaction, waits, turnVars, compacting,
                   dialogVars, callVars, watch, pumpEnded>>

\* Both wait for the exit; Close then stops the pump.
CallReturns ==
    /\ caller # "idle" /\ stream = "exited"
    /\ caller' = "idle"
    /\ pumpEnded' = (pumpEnded \/ caller = "closing")
    /\ UNCHANGED <<piVars, turnVars, compacting, dialogVars, callVars, watch>>

WatchReports ==
    /\ watch = "waiting" /\ stream = "exited"
    /\ watch' = "ending"
    /\ Drop(Parked)
    /\ CountEach(settled, Parked)
    /\ IF turnActive THEN endTurnLocked ELSE UNCHANGED turnVars
    /\ UNCHANGED <<piVars, compacting, timed, firing, resolving, telling, asked, callVars, caller, pumpEnded>>

WatchEnds ==
    /\ watch = "ending"
    /\ watch' = "finished"
    /\ pumpEnded' = TRUE
    /\ UNCHANGED <<piVars, turnVars, compacting, dialogVars, callVars, caller>>

-------------------------------------------------------------------------------
Pi ==
    \/ \E p \in Prompts : TakesPrompt(p) \/ TakesSteer(p) \/ TakesCompact(p) \/ Prepared(p) \/ TakesGetState(p)
    \/ RunStarts \/ Speaks \/ Settles \/ CompactionSettles \/ Compacted \/ PiExits
    \/ \E d \in Dialogs : Asks(d) \/ TakesAnswer(d) \/ Defaults(d)

ReadLoop ==
    \/ ReadStart \/ ReadOutput \/ ReadSettled \/ StreamDone
    \/ \E d \in Dialogs : ReadDialog(d)
    \/ \E p \in Prompts : ReadResponse(p)

Goroutine(p) ==
    \/ PromptSend(p) \/ Refused(p) \/ Accepted(p) \/ AskState(p) \/ StateKnown(p)
    \/ GiveUp(p) \/ CompactAnswered(p) \/ AnswerLost(p)

Ending == CallReturns \/ Reaped \/ WatchReports \/ WatchEnds

Next ==
    \/ Pi \/ ReadLoop
    \/ \E p \in Prompts : PromptCheck(p) \/ PromptOpen(p) \/ CompactOpen(p) \/ Goroutine(p)
    \/ \E d \in Dialogs :
          Resolve(d) \/ AnswerDialog(d) \/ TellResolved(d) \/ TimerFires(d) \/ TimerRuns(d)
    \/ Interrupt
    \/ CallClose \/ CallKill \/ Ending

Spec == Init /\ [][Next]_vars

\* The session's goroutines run, and a pi whose input has ended or that was
\* killed exits.  Nothing makes pi answer, or a person decide.
FairSpec ==
    /\ Spec
    /\ WF_vars(PiStops) /\ WF_vars(ReadLoop) /\ WF_vars(Ending)
    /\ \A p \in Prompts : WF_vars(Goroutine(p))

-------------------------------------------------------------------------------
(* Properties.                                                             *)

TypeOK ==
    /\ stream \in {"up", "ending", "done", "exited"}
    /\ wire \in Seq(Records) /\ stdin \in Seq(Commands)
    /\ preparing \subseteq Prompts /\ run \in {"none", "starting", "going"}
    /\ runner \in Prompts \cup {Nobody} /\ deferred \in Prompts \cup {Nobody}
    /\ compaction \in Prompts \cup {Nobody} /\ waits \subseteq Dialogs
    /\ turnActive \in BOOLEAN /\ turnIndex \in Nat
    /\ runSeen \in BOOLEAN /\ compacting \in BOOLEAN
    /\ dialogs \in [Dialogs -> Nat \cup {NotParked}]
    /\ timed \subseteq Dialogs /\ firing \subseteq timed
    /\ resolving \subseteq Dialogs /\ telling \subseteq Dialogs
    /\ call \in [Prompts -> {"new", "checked", "opened", "sent", "checking", "asking", "gone", "gave_up"}
                              \cup Answers]
    /\ kind \in [Prompts -> {"prompt", "steering_prompt", "steer", "compact"}]
    /\ turn \in [Prompts -> Nat]
    /\ caller \in {"idle", "closing", "killing"}
    /\ watch \in {"waiting", "ending", "finished"}
    /\ pumpEnded \in BOOLEAN
    /\ starts \in Nat /\ ends \in Nat
    /\ asked \in [Dialogs -> Nat] /\ settled \in [Dialogs -> Nat]

\* No dialog keeps pi waiting for good: one an extension waits on and a person
\* was shown can be decided, or has an answer on its way, or pi's own timer.
WaitedOnIsReachable ==
    \A d \in waits : asked[d] > 0 /\ CanSend =>
        d \in Parked \cup resolving \cup timed \/ Contains(stdin, Answer(d))

\* When pi runs nothing and has been heard out, no turn is left open: whichever
\* way each prompt went, something ended the turn it was sent in.  One whose
\* get_state was not answered in time, or told of a compaction, is the
\* exception the code leaves.
RestLeavesNoTurn ==
    /\ stream = "up" /\ caller = "idle" /\ wire = <<>> /\ run = "none"
    /\ \A p \in Prompts : call[p] \in {"new", "checked", "gone"}
    => ~turnActive

\* The answer to a prompt that opened a turn ends none whose prompt has a run,
\* going or about to start: neither its own turn nor a later one.  (The answer
\* to a steer may: see HandledIsHandled.)
HandledHasNoRun ==
    [][\A p \in Prompts :
         kind[p] = "prompt" /\ call[p] \in States /\ call'[p] = "gone" /\ turnActive /\ ~turnActive'
           => \A q \in preparing \cup ({runner} \ {Nobody}) : kind[q] # "prompt" \/ turn[q] # turnIndex]_vars

\* The comment on awaitPrompt: get_state tells a prompt pi handled itself from
\* a run about to start.  It does not hold of a steer: see the README.
HandledIsHandled ==
    [][\A p \in Prompts :
         call[p] \in States /\ call'[p] = "gone" /\ turnActive /\ ~turnActive'
           => \A q \in preparing \cup ({runner} \ {Nobody}) : turn[q] # turnIndex]_vars

\* The comment on Prompt: the turn /compact opens ends when compaction does.
\* It does not hold: see the README.
CompactionHasItsTurn == compacting /\ watch = "waiting" => turnActive

\* What the reader has been told of a dialog; told as resolved twice is
\* nothing the contract knows.
Told(d) ==
    CASE settled[d] = 1 -> "settled"
      [] settled[d] > 1 -> "twice"
      [] asked[d] = 1 /\ settled[d] = 0 -> "asked"
      [] OTHER -> "nothing"

Contract ==
    INSTANCE SessionContract
    WITH Approvals <- Dialogs, MayCross <- FALSE, started <- starts, ended <- ends,
         approval <- [d \in Dialogs |-> Told(d)],
         gone <- watch # "waiting", closed <- pumpEnded

\* The events keep the contract of a session: turns one at a time while pi
\* lives, a dialog settled once however Resolve, its timer, the interrupt and
\* the end of the run meet, nothing told as the channel ends.
KeepsContract == Contract!Spec

\* Once pi is gone its session ends: the goroutines that wait for its answers,
\* watch and the calls of Close and Kill, and the pump with them.
GoneEndsSession ==
    /\ \A p \in Prompts : (call[p] \notin {"new", "checked"} /\ stream = "ending") ~> (call[p] \in {"gone", "gave_up"})
    /\ (caller # "idle" \/ stream = "ending") ~> (caller = "idle" /\ watch = "finished" /\ pumpEnded)
===============================================================================
