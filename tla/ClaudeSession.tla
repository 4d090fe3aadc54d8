----------------------------- MODULE ClaudeSession -----------------------------
(***************************************************************************)
(* driver/claude.go over protocol/claudecode: one session with the claude  *)
(* CLI.  The read loop takes what the CLI writes in order, but answers its *)
(* permission requests on goroutines of their own; Prompt, Resolve, Close  *)
(* and Kill are the caller's, and watch ends the session.  What a message  *)
(* says, how a turn ended and the sub-agents' progress are left out; that  *)
(* Interrupt makes the CLI end its turn is part of what the CLI may do.    *)
(***************************************************************************)
EXTENDS Naturals, Sequences, FiniteSets

CONSTANTS Requests,    \* the CLI's control requests
          ToolIds,     \* tool_use ids; NoId for a request without one
          NoId, Nobody,
          MaxTurns,    \* bound: turns the CLI starts
          MaxWork,     \* bound: calls of Prompt and requests together
          MaxUnread    \* bound: messages on the wire

ASSUME NamesAssumption ==
    /\ Nobody \notin Requests
    /\ ToolIds \cap Requests = {}
ASSUME BoundsAssumption == MaxTurns \in Nat /\ MaxWork \in Nat /\ MaxUnread \in Nat

Keys == (ToolIds \ {NoId}) \cup Requests    \* a tool_use id, or the request's own

VARIABLES
    \* The CLI: its stream, what it wrote and we have not read, whether it runs
    \* a turn, the turns it has run, prompts it has not taken, the requests it
    \* waits on, whether it still owes the empty result of a resume.
    stream, wire, running, ran, inbox, outstanding, settling,
    toolUse,      \* the tool_use id of each approval
    \* claudecode.Client.
    inflight,     \* requests being answered
    cancelled,    \* requests whose context has ended
    \* claudeSession.
    turnActive, pending,
    prompts, checked, opened,    \* calls of Prompt: made, past the look at Done, past openTurnLocked
    request,      \* where the goroutine of each request is
    keyOf,        \* the id an approval was raised under
    answer,       \* approvals whose answer channel holds a decision
    telling,      \* approvals taken from pending and not yet told as resolved
    caller,       \* the goroutine that calls Close and Kill
    watch,        \* where watch is
    pumpEnded,    \* the pump takes no more events
    \* History: the events the pump accepted.
    starts, ends, asked, settled

cliVars == <<stream, wire, running, ran, inbox, outstanding, settling, toolUse>>
clientVars == <<inflight, cancelled>>
approvalVars == <<pending, keyOf, answer, telling, asked, settled>>
turnVars == <<turnActive, starts, ends>>
promptVars == <<prompts, checked, opened>>
endVars == <<caller, watch, pumpEnded>>
vars == <<cliVars, clientVars, approvalVars, turnVars, promptVars, request, endVars>>

\* What is on the wire: something of a turn, its result, the empty result, a
\* request, or the withdrawal of one.
Output == [kind |-> "output"]
Result(turns) == [kind |-> "result", turns |-> turns]
Request(r) == [kind |-> "request", req |-> r]
Withdrawn(r) == [kind |-> "withdrawn", req |-> r]
Messages == {Output} \cup {Result(n) : n \in {0, 1}}
              \cup {Request(r) : r \in Requests} \cup {Withdrawn(r) : r \in Requests}

Init ==
    /\ stream = "up" /\ wire = <<>> /\ running = FALSE /\ ran = 0 /\ inbox = 0
    /\ outstanding = {} /\ settling \in BOOLEAN
    /\ toolUse \in [Requests -> ToolIds]
    /\ inflight = {} /\ cancelled = {}
    /\ turnActive = FALSE
    /\ pending = [k \in Keys |-> Nobody]
    /\ prompts = 0 /\ checked = 0 /\ opened = 0
    /\ request = [r \in Requests |-> "none"]
    /\ keyOf = [r \in Requests |-> r]
    /\ answer = {} /\ telling = {}
    /\ caller = "idle" /\ watch = "waiting" /\ pumpEnded = FALSE
    /\ starts = 0 /\ ends = 0
    /\ asked = [r \in Requests |-> 0] /\ settled = [r \in Requests |-> 0]

-------------------------------------------------------------------------------
(* The CLI.                                                                *)

Says(message) ==
    /\ stream = "up"
    /\ Len(wire) < MaxUnread
    /\ wire' = Append(wire, message)

\* A prompt starts a turn, or is folded into the one that runs.
TakesPrompt ==
    /\ stream = "up" /\ inbox > 0
    /\ inbox' = inbox - 1
    /\ \/ running /\ UNCHANGED <<running, ran>>
       \/ ~running /\ ran < MaxTurns /\ running' = TRUE /\ ran' = ran + 1
    /\ UNCHANGED <<stream, wire, outstanding, settling, toolUse, clientVars, approvalVars,
                   turnVars, promptVars, request, endVars>>

Speaks ==
    /\ running
    /\ Says(Output)
    /\ UNCHANGED <<stream, running, ran, inbox, outstanding, settling, toolUse, clientVars,
                   approvalVars, turnVars, promptVars, request, endVars>>

Requested == {r \in Requests : request[r] # "none" \/ \E i \in 1..Len(wire) : wire[i] = Request(r)}

MoreWork == prompts + Cardinality(Requested) < MaxWork

Asks(r) ==
    /\ running
    /\ r \notin Requested /\ MoreWork
    /\ Says(Request(r))
    /\ outstanding' = outstanding \cup {r}
    /\ UNCHANGED <<stream, running, ran, inbox, settling, toolUse, clientVars, approvalVars,
                   turnVars, promptVars, request, endVars>>

Withdraws(r) ==
    /\ r \in outstanding
    /\ Says(Withdrawn(r))
    /\ outstanding' = outstanding \ {r}
    /\ UNCHANGED <<stream, running, ran, inbox, settling, toolUse, clientVars, approvalVars,
                   turnVars, promptVars, request, endVars>>

\* The result, by itself or after an interrupt; the turn's requests go with it.
EndsTurn ==
    /\ running
    /\ Says(Result(1))
    /\ running' = FALSE
    /\ outstanding' = {}
    /\ UNCHANGED <<stream, ran, inbox, settling, toolUse, clientVars, approvalVars, turnVars,
                   promptVars, request, endVars>>

\* A resumed session may settle with a result that no turn is behind.
Settles ==
    /\ settling /\ ~running
    /\ Says(Result(0))
    /\ settling' = FALSE
    /\ UNCHANGED <<stream, running, ran, inbox, outstanding, toolUse, clientVars,
                   approvalVars, turnVars, promptVars, request, endVars>>

\* What it wrote before it exited is still read.
CliExits ==
    /\ stream = "up"
    /\ stream' = "ending"
    /\ UNCHANGED <<wire, running, ran, inbox, outstanding, settling, toolUse, clientVars,
                   approvalVars, turnVars, promptVars, request, endVars>>

\* It exits when its input ends, or is killed a grace later.
CliStops == caller # "idle" /\ CliExits

-------------------------------------------------------------------------------
(* The events.                                                             *)

Count(event, n) == event' = IF pumpEnded THEN event ELSE event + n

CountEach(event, rs) ==
    event' = [r \in Requests |-> IF r \in rs /\ ~pumpEnded THEN event[r] + 1 ELSE event[r]]

openTurnLocked ==
    /\ turnActive' = TRUE
    /\ Count(starts, IF turnActive THEN 0 ELSE 1)

-------------------------------------------------------------------------------
(* The read loop.                                                          *)

Reads(message) ==
    /\ wire # <<>>
    /\ Head(wire) = message
    /\ wire' = Tail(wire)
    /\ UNCHANGED <<stream, running, ran, inbox, outstanding, settling, toolUse>>

\* onStream and onAssistant: output may arrive while no turn is open.
ReadOutput ==
    /\ Reads(Output)
    /\ openTurnLocked
    /\ UNCHANGED <<clientVars, approvalVars, ends, promptVars, request, endVars>>

Parked == {pending[k] : k \in Keys} \ {Nobody}

\* A slip: a result with no turn behind it ends one all the same.
ReadResultAlways ==
    \E n \in {0, 1} :
       /\ Reads(Result(n))
       /\ turnActive' = FALSE
       /\ Count(ends, 1)
       /\ pending' = [k \in Keys |-> Nobody]
       /\ CountEach(settled, Parked)
       /\ UNCHANGED <<starts, clientVars, keyOf, answer, telling, asked, promptVars, request, endVars>>

\* onResult: a turn nobody opened is opened first; what is still parked was
\* withdrawn with the turn.
ReadResult ==
    \E n \in {0, 1} :
       /\ Reads(Result(n))
       /\ IF turnActive \/ n > 0
          THEN /\ turnActive' = FALSE
               /\ Count(starts, IF turnActive THEN 0 ELSE 1)
               /\ Count(ends, 1)
               /\ pending' = [k \in Keys |-> Nobody]
               /\ CountEach(settled, Parked)
          ELSE UNCHANGED <<turnVars, pending, settled>>
       /\ UNCHANGED <<clientVars, keyOf, answer, telling, asked, promptVars, request, endVars>>

\* Client.serve: the goroutine answers when it is scheduled.
ReadRequest(r) ==
    /\ Reads(Request(r))
    /\ inflight' = inflight \cup {r}
    /\ request' = [request EXCEPT ![r] = "spawned"]
    /\ UNCHANGED <<cancelled, approvalVars, turnVars, promptVars, endVars>>

\* Client.withdraw: a request already answered is no longer in flight.
ReadWithdrawn(r) ==
    /\ Reads(Withdrawn(r))
    /\ cancelled' = IF r \in inflight THEN cancelled \cup {r} ELSE cancelled
    /\ UNCHANGED <<inflight, approvalVars, turnVars, promptVars, request, endVars>>

\* A slip: only Done tells the goroutines.
StreamDoneOnly ==
    /\ stream = "ending" /\ wire = <<>>
    /\ stream' = "done"
    /\ inflight' = {}
    /\ UNCHANGED <<wire, running, ran, inbox, outstanding, settling, toolUse, cancelled,
                   approvalVars, turnVars, promptVars, request, endVars>>

\* Client.shutdown.
StreamDone ==
    /\ stream = "ending" /\ wire = <<>>
    /\ stream' = "done"
    /\ inflight' = {}
    /\ cancelled' = cancelled \cup inflight
    /\ UNCHANGED <<wire, running, ran, inbox, outstanding, settling, toolUse, approvalVars,
                   turnVars, promptVars, request, endVars>>

-------------------------------------------------------------------------------
(* Prompt.                                                                 *)

PromptCheck ==
    /\ MoreWork
    /\ prompts' = prompts + 1
    /\ checked' = IF stream = "done" THEN checked ELSE checked + 1
    /\ UNCHANGED <<cliVars, clientVars, approvalVars, turnVars, opened, request, endVars>>

Opens ==
    /\ checked > 0
    /\ checked' = checked - 1
    /\ opened' = opened + 1
    /\ UNCHANGED <<cliVars, clientVars, approvalVars, prompts, ends, request, endVars>>

\* A slip: a prompt that steers is told as a turn of its own.
PromptOpenAlways ==
    /\ Opens
    /\ turnActive' = TRUE
    /\ Count(starts, 1)

PromptOpen == Opens /\ openTurnLocked

\* The write fails once the CLI is gone or its input is closed.
PromptSend ==
    /\ opened > 0
    /\ opened' = opened - 1
    /\ inbox' = IF stream = "up" /\ caller # "closing" THEN inbox + 1 ELSE inbox
    /\ UNCHANGED <<stream, wire, running, ran, outstanding, settling, toolUse, clientVars,
                   approvalVars, turnVars, prompts, checked, request, endVars>>

-------------------------------------------------------------------------------
(* serve's goroutine and onPermission.                                     *)

Goes(r, from, to) == request[r] = from /\ request' = [request EXCEPT ![r] = to]

\* A slip: an id already taken is taken over.
ParkOver(r) ==
    LET k == IF toolUse[r] = NoId THEN r ELSE toolUse[r]
    IN /\ Goes(r, "spawned", "parked")
       /\ pending' = [pending EXCEPT ![k] = r]
       /\ keyOf' = [keyOf EXCEPT ![r] = k]
       /\ UNCHANGED <<cliVars, clientVars, answer, telling, asked, settled, turnVars, promptVars, endVars>>

Park(r) ==
    LET k == IF toolUse[r] = NoId THEN r
             ELSE IF pending[toolUse[r]] # Nobody THEN r ELSE toolUse[r]
    IN /\ Goes(r, "spawned", "parked")
       /\ pending' = [pending EXCEPT ![k] = r]
       /\ keyOf' = [keyOf EXCEPT ![r] = k]
       /\ UNCHANGED <<cliVars, clientVars, answer, telling, asked, settled, turnVars, promptVars, endVars>>

Raise(r) ==
    /\ Goes(r, "parked", "raised")
    /\ CountEach(asked, {r})
    /\ UNCHANGED <<cliVars, clientVars, pending, keyOf, answer, telling, settled, turnVars,
                   promptVars, endVars>>

TakeAnswer(r) ==
    /\ r \in answer
    /\ Goes(r, "raised", "replying")
    /\ UNCHANGED <<cliVars, clientVars, approvalVars, turnVars, promptVars, endVars>>

\* ctx.Done: whatever is under the id is taken and told of.
GiveUp(r) ==
    /\ r \in cancelled
    /\ Goes(r, "raised", "replying")
    /\ telling' = telling \cup ({pending[keyOf[r]]} \ {Nobody})
    /\ pending' = [pending EXCEPT ![keyOf[r]] = Nobody]
    /\ UNCHANGED <<cliVars, clientVars, keyOf, answer, asked, settled, turnVars, promptVars, endVars>>

\* A permission for a caller's tool, a call of one, a request of another kind:
\* answered without asking anybody.
Serve(r) ==
    /\ Goes(r, "spawned", "replying")
    /\ UNCHANGED <<cliVars, clientVars, approvalVars, turnVars, promptVars, endVars>>

\* A request withdrawn meanwhile gets no answer.
Reply(r) ==
    /\ Goes(r, "replying", "gone")
    /\ inflight' = inflight \ {r}
    /\ outstanding' = IF r \in cancelled THEN outstanding ELSE outstanding \ {r}
    /\ UNCHANGED <<stream, wire, running, ran, inbox, settling, toolUse, cancelled,
                   approvalVars, turnVars, promptVars, endVars>>

\* Resolve, by somebody who was asked: the decision is handed over, and told
\* of after that.
Resolve(k) ==
    LET r == pending[k]
    IN /\ r # Nobody
       /\ asked[r] > 0
       /\ pending' = [pending EXCEPT ![k] = Nobody]
       /\ answer' = answer \cup {r}
       /\ telling' = telling \cup {r}
       /\ UNCHANGED <<cliVars, clientVars, keyOf, asked, settled, turnVars, promptVars, request, endVars>>

TellResolved(r) ==
    /\ r \in telling
    /\ telling' = telling \ {r}
    /\ CountEach(settled, {r})
    /\ UNCHANGED <<cliVars, clientVars, pending, keyOf, answer, asked, turnVars, promptVars, request,
                   endVars>>

-------------------------------------------------------------------------------
(* Close, Kill and watch.                                                  *)

CallClose ==
    /\ caller = "idle" /\ ~pumpEnded
    /\ caller' = "closing"
    /\ UNCHANGED <<cliVars, clientVars, approvalVars, turnVars, promptVars, request, watch, pumpEnded>>

CallKill ==
    /\ caller = "idle" /\ stream = "up"
    /\ caller' = "killing"
    /\ stream' = "ending"
    /\ UNCHANGED <<wire, running, ran, inbox, outstanding, settling, toolUse, clientVars,
                   approvalVars, turnVars, promptVars, request, watch, pumpEnded>>

\* Both wait for the exit; Close then stops the pump.
CallReturns ==
    /\ caller # "idle" /\ stream = "done"
    /\ caller' = "idle"
    /\ pumpEnded' = (pumpEnded \/ caller = "closing")
    /\ UNCHANGED <<cliVars, clientVars, approvalVars, turnVars, promptVars, request, watch>>

\* A slip: a turn is reported only if claude was at work on it.
WatchLooksForWork ==
    /\ watch = "waiting" /\ stream = "done"
    /\ watch' = IF turnActive /\ running THEN "reporting" ELSE "ending"
    /\ turnActive' = FALSE
    /\ UNCHANGED <<cliVars, clientVars, approvalVars, starts, ends, promptVars, request, caller, pumpEnded>>

WatchLooks ==
    /\ watch = "waiting" /\ stream = "done"
    /\ watch' = IF turnActive THEN "reporting" ELSE "ending"
    /\ turnActive' = FALSE
    /\ UNCHANGED <<cliVars, clientVars, approvalVars, starts, ends, promptVars, request, caller, pumpEnded>>

WatchReports ==
    /\ watch = "reporting"
    /\ watch' = "ending"
    /\ Count(ends, 1)
    /\ UNCHANGED <<cliVars, clientVars, approvalVars, turnActive, starts, promptVars, request, caller, pumpEnded>>

WatchEnds ==
    /\ watch = "ending"
    /\ watch' = "finished"
    /\ pumpEnded' = TRUE
    /\ UNCHANGED <<cliVars, clientVars, approvalVars, turnVars, promptVars, request, caller>>

-------------------------------------------------------------------------------
Cli ==
    \/ TakesPrompt \/ Speaks \/ EndsTurn \/ Settles \/ CliExits
    \/ \E r \in Requests : Asks(r) \/ Withdraws(r)

ReadLoop ==
    \/ ReadOutput \/ ReadResult \/ StreamDone
    \/ \E r \in Requests : ReadRequest(r) \/ ReadWithdrawn(r)

Goroutine(r) ==
    \/ Park(r) \/ Raise(r) \/ TakeAnswer(r) \/ GiveUp(r)
    \/ Serve(r) \/ Reply(r)

Ending == CallReturns \/ WatchLooks \/ WatchReports \/ WatchEnds

Next ==
    \/ Cli \/ ReadLoop
    \/ PromptCheck \/ PromptOpen \/ PromptSend
    \/ \E r \in Requests : Goroutine(r)
    \/ \E k \in Keys : Resolve(k)
    \/ \E r \in Requests : TellResolved(r)
    \/ CallClose \/ CallKill \/ Ending

Spec == Init /\ [][Next]_vars

\* The session's goroutines run, and a CLI whose input has ended or that was
\* killed exits.  Nothing makes it end a turn, or a person decide.
FairSpec ==
    /\ Spec
    /\ WF_vars(CliStops) /\ WF_vars(ReadLoop) /\ WF_vars(Ending)
    /\ \A r \in Requests : WF_vars(Goroutine(r))

-------------------------------------------------------------------------------
(* Properties.                                                             *)

TypeOK ==
    /\ stream \in {"up", "ending", "done"} /\ wire \in Seq(Messages)
    /\ running \in BOOLEAN /\ ran \in 0..MaxTurns /\ inbox \in Nat
    /\ outstanding \subseteq Requests /\ settling \in BOOLEAN
    /\ toolUse \in [Requests -> ToolIds]
    /\ inflight \subseteq Requests /\ cancelled \subseteq Requests
    /\ turnActive \in BOOLEAN
    /\ pending \in [Keys -> Requests \cup {Nobody}]
    /\ prompts \in Nat /\ checked \in Nat /\ opened \in Nat
    /\ request \in [Requests -> {"none", "spawned", "parked", "raised", "replying", "gone"}]
    /\ keyOf \in [Requests -> Keys]
    /\ answer \subseteq Requests /\ telling \subseteq Requests
    /\ caller \in {"idle", "closing", "killing"}
    /\ watch \in {"waiting", "reporting", "ending", "finished"}
    /\ pumpEnded \in BOOLEAN
    /\ starts \in Nat /\ ends \in Nat
    /\ asked \in [Requests -> Nat] /\ settled \in [Requests -> Nat]

\* What claude still waits for a person to decide, and a person was shown, can
\* be decided: neither another request with its tool_use id nor the end of an
\* earlier turn takes it out of reach.  The code keeps this but for a request
\* under the id of one that was both decided or ended and withdrawn: GiveUp
\* takes whatever is under the id.
AskedIsReachable ==
    \A r \in Requests :
        request[r] = "raised" /\ r \in outstanding /\ stream = "up" /\ r \notin answer =>
            \/ pending[keyOf[r]] = r
            \/ \E q \in cancelled \ {r} : keyOf[q] = keyOf[r]

\* The comment in onPermission: nobody is left holding an approval that can no
\* longer be answered.
NobodyLeftHolding ==
    \A r \in Requests :
        request[r] \in {"raised", "gone"} /\ asked[r] > settled[r] /\ ~pumpEnded =>
            pending[keyOf[r]] = r \/ r \in telling

\* An approval that was asked for is in reach of whoever was asked, and taken
\* off the screen when it no longer is.
AskedIsKept == AskedIsReachable /\ NobodyLeftHolding

\* A turn told to have started does not stay open for nothing, although Prompt
\* opens it before it sends and a result may be another turn's.  While claude
\* lives it is at work on one, or has a prompt or a result still to come; once it
\* is gone, whatever became of the prompt, the end is told before the channel
\* closes, of every turn opened before watch looked.
OpenTurnsEnd ==
    /\ stream = "up" /\ caller # "closing" /\ turnActive =>
          running \/ inbox > 0 \/ opened > 0 \/ \E i \in 1..Len(wire) : wire[i].kind = "result"
    /\ watch = "ending" /\ ~pumpEnded /\ ~turnActive => starts = ends

\* What the reader has been told of an approval; told as resolved twice is
\* nothing the contract knows.
Told(r) ==
    CASE settled[r] = 1 -> "settled"
      [] settled[r] > 1 -> "twice"
      [] asked[r] = 1 /\ settled[r] = 0 -> "asked"
      [] OTHER -> "nothing"

Contract ==
    INSTANCE SessionContract
    WITH Approvals <- Requests, MayCross <- TRUE, started <- starts, ended <- ends,
         approval <- [r \in Requests |-> Told(r)],
         gone <- watch # "waiting", closed <- pumpEnded

\* The events keep the contract of a session: turns one at a time while claude
\* lives, an approval settled once however the person, claude's withdrawal and
\* the end of the turn meet, nothing told as the channel ends.
KeepsContract == Contract!Spec

\* Once claude is gone its session ends: the requests' goroutines, watch and
\* the calls of Close and Kill all come to an end, and the pump with them.
GoneEndsSession ==
    /\ \A r \in Requests : (request[r] # "none" /\ stream = "done") ~> (request[r] = "gone")
    /\ (caller # "idle" \/ stream = "done") ~> (caller = "idle" /\ watch = "finished" /\ pumpEnded)
===============================================================================
