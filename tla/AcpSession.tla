------------------------------ MODULE AcpSession ------------------------------
(***************************************************************************)
(* driver/acp.go: one session with an ACP agent.  A prompt is a goroutine  *)
(* waiting on the agent's answer, perhaps with a second one watching for a *)
(* first sign of work; a request of the agent is a goroutine parked on a   *)
(* person; watch, Close and Kill race to end the session through one       *)
(* sync.Once.  Events are not kept as a sequence (EventPump shows that     *)
(* they arrive in order): the model keeps which ones push accepted.        *)
(***************************************************************************)
EXTENDS Integers, FiniteSets

CONSTANTS Prompts,     \* the Prompt calls of a behaviour, each made once
          Requests,    \* the agent's requests that ask a person
          Ids,         \* the ids requests are parked under
          Nobody       \* no request

ASSUME PromptsAssumption == IsFiniteSet(Prompts)
ASSUME NobodyAssumption == Nobody \notin Requests

VARIABLES
    stream,      \* the agent's stdout: "up", "failing" (calls fail), "done"
    turn,        \* where each Prompt and the goroutine it starts are
    outcome,     \* what PromptBlocks returned: "ok", "error", "cut"
    settled,     \* the prompts whose settled flag is set
    timer,       \* where each awaitFirstEvent is
    turns,       \* acpSession.turns
    waiting,     \* acpSession.waiting, as the set of prompts
    agentTurn,   \* acpSession.agentTurn # ""
    pending,     \* acpSession.pending
    key,         \* the id of each request, which agents may leave out
    asking,      \* where each request's goroutine is
    answer,      \* what settle put in each request's answer channel
    reply,       \* what the agent was answered
    caller,      \* the one goroutine that calls the session's methods
    resolving,   \* the request Resolve has taken out of pending
    ending,      \* where the owner of closeOnce is
    by,          \* who it is: "watch", "kill" or "close"
    pumpEnded,   \* eventPump.ended: later events are dropped
    \* History: the events push accepted, and what a property looks back at.
    begun,       \* prompts whose turn.started was accepted
    told,        \* per prompt, the kinds of end event accepted for it
    exits,       \* how many process_exited were accepted
    asked,       \* requests whose approval.required was accepted
    latest,      \* the request last parked under each id
    resolved,    \* how many approval.resolved were accepted for each request
    worked,      \* prompts a sign of work released before their timer did
    seen         \* prompts counted when reportExit looked

prompting == <<turn, outcome, settled, timer>>
counting == <<turns, waiting, agentTurn>>
parking == <<pending, key, asking, answer, reply>>
calling == <<caller, resolving>>
closing == <<ending, by, pumpEnded>>
turnHistory == <<begun, told, worked>>
askHistory == <<asked, resolved, latest>>
exitHistory == <<exits, seen>>

vars == <<stream, prompting, counting, parking, calling, closing,
          turnHistory, askHistory, exitHistory>>

TurnStates == {"none", "checked", "counted", "calling", "back", "released",
               "settled", "uncounted", "reported", "left"}
TimerStates == {"off", "armed", "silent", "claimed", "uncounted", "gone"}
AskStates == {"none", "arrived", "working", "registered", "raised",
              "dropping", "replied"}
EndStates == {"open", "fail", "reap", "report", "exitEvent", "endPump", "finished"}
EndKinds == {"completed", "error", "no_response"}

Init ==
    /\ stream = "up"
    /\ turn = [p \in Prompts |-> "none"]
    /\ outcome = [p \in Prompts |-> "none"]
    /\ settled = {}
    /\ timer = [p \in Prompts |-> "off"]
    /\ turns = 0
    /\ waiting = {}
    /\ agentTurn = FALSE
    /\ pending = [i \in Ids |-> Nobody]
    /\ key \in [Requests -> Ids]
    /\ asking = [r \in Requests |-> "none"]
    /\ answer = [r \in Requests |-> "none"]
    /\ reply = [r \in Requests |-> "none"]
    /\ caller = "idle"
    /\ resolving = Nobody
    /\ ending = "open"
    /\ by = "none"
    /\ pumpEnded = FALSE
    /\ begun = {}
    /\ told = [p \in Prompts |-> [k \in EndKinds |-> 0]]
    /\ exits = 0
    /\ asked = {}
    /\ latest = [i \in Ids |-> Nobody]
    /\ resolved = [r \in Requests |-> 0]
    /\ worked = {}
    /\ seen = {}

Turn(p, from, to) == turn[p] = from /\ turn' = [turn EXCEPT ![p] = to]
Timer(p, from, to) == timer[p] = from /\ timer' = [timer EXCEPT ![p] = to]
Ask(r, from, to) == asking[r] = from /\ asking' = [asking EXCEPT ![r] = to]
End(from, to) == ending = from /\ ending' = to

\* pump.push: an event is accepted unless the pump has ended.
Accept(set, x) == IF pumpEnded THEN set ELSE set \cup {x}
Tell(p, kind) == told' = IF pumpEnded THEN told
                         ELSE [told EXCEPT ![p][kind] = @ + 1]

\* alive: every prompt still waiting has now seen a sign of work.
Alive == waiting' = {} /\ worked' = worked \cup waiting

-------------------------------------------------------------------------------
(* The agent's stream.  Pending calls fail before Done closes, and both    *)
(* before the process is reaped.                                           *)

AgentExits ==
    /\ stream = "up"
    /\ stream' = "failing"
    /\ UNCHANGED <<prompting, counting, parking, calling, closing,
                   turnHistory, askHistory, exitHistory>>

StreamDone ==
    /\ stream = "failing"
    /\ stream' = "done"
    /\ UNCHANGED <<prompting, counting, parking, calling, closing,
                   turnHistory, askHistory, exitHistory>>

\* onUpdate with an update that isWork.
SignOfWork ==
    /\ stream = "up"
    /\ Alive
    /\ UNCHANGED <<stream, prompting, turns, agentTurn, parking, calling,
                   closing, begun, told, askHistory, exitHistory>>

\* A turn the agent starts on its own.  Both run on the read loop, before
\* the stream can end, so their event is never dropped.
BeginAgentTurn ==
    /\ stream = "up"
    /\ turns <= 0
    /\ ~agentTurn
    /\ agentTurn' = TRUE
    /\ turns' = turns + 1
    /\ UNCHANGED <<stream, prompting, waiting, parking, calling, closing,
                   turnHistory, askHistory, exitHistory>>

EndAgentTurn ==
    /\ stream = "up"
    /\ agentTurn
    /\ agentTurn' = FALSE
    /\ turns' = turns - 1
    /\ UNCHANGED <<stream, prompting, waiting, parking, calling, closing,
                   turnHistory, askHistory, exitHistory>>

-------------------------------------------------------------------------------
(* Prompt, in the caller's goroutine.                                      *)

PromptCheck(p) ==
    /\ caller = "idle"
    /\ stream # "done"
    /\ Turn(p, "none", "checked")
    /\ caller' = "prompting"
    /\ UNCHANGED <<stream, outcome, settled, timer, counting, parking,
                   resolving, closing, turnHistory, askHistory, exitHistory>>

PromptCount(p) ==
    /\ Turn(p, "checked", "counted")
    /\ turns' = turns + 1
    /\ waiting' = waiting \cup {p}
    /\ UNCHANGED <<stream, outcome, settled, timer, agentTurn, parking, calling,
                   closing, turnHistory, askHistory, exitHistory>>

\* turn.started, and the two goroutines.  An unbounded first event is a
\* timer that never fires.
PromptStart(p) ==
    /\ Turn(p, "counted", "calling")
    /\ timer' = [timer EXCEPT ![p] = "armed"]
    /\ begun' = Accept(begun, p)
    /\ caller' = "idle"
    /\ UNCHANGED <<stream, outcome, settled, counting, parking, resolving,
                   closing, told, worked, askHistory, exitHistory>>

-------------------------------------------------------------------------------
(* The prompt's goroutine.                                                 *)

CallReturns(p, how) ==
    /\ Turn(p, "calling", "back")
    /\ outcome' = [outcome EXCEPT ![p] = how]
    /\ UNCHANGED <<stream, settled, timer, counting, parking, calling, closing,
                   turnHistory, askHistory, exitHistory>>

Answered(p) == stream = "up" /\ CallReturns(p, "ok")

\* The agent's error, PromptTimeout, or stdin no longer read.
Failed(p) == stream # "done" /\ CallReturns(p, "error")

\* The call fails as the stream ends.
CutShort(p) == stream # "up" /\ CallReturns(p, "cut")

Release(p) ==
    /\ Turn(p, "back", "released")
    /\ waiting' = waiting \ {p}
    /\ UNCHANGED <<stream, outcome, settled, timer, turns, agentTurn, parking,
                   calling, closing, turnHistory, askHistory, exitHistory>>

\* A failed prompt leaves its turn to whoever ends the session, if Done has
\* closed.  One cut short waits for that: acpStreamEndGrace is taken to be
\* long enough.
LeaveOpen(p) ==
    /\ outcome[p] \in {"error", "cut"}
    /\ stream = "done"
    /\ Turn(p, "released", "left")
    /\ UNCHANGED <<stream, outcome, settled, timer, counting, parking, calling,
                   closing, turnHistory, askHistory, exitHistory>>

\* A slip: settle is not asked.
SettleAlways(p) ==
    /\ outcome[p] \in {"ok", "error"}
    /\ Turn(p, "released", "settled")
    /\ settled' = settled \cup {p}
    /\ UNCHANGED <<stream, outcome, timer, counting, parking, calling, closing,
                   turnHistory, askHistory, exitHistory>>

\* Done or the timer of zero: a failed call may go either way.
Settle(p) ==
    /\ outcome[p] \in {"ok", "error"}
    /\ Turn(p, "released", IF p \in settled THEN "reported" ELSE "settled")
    /\ settled' = settled \cup {p}
    /\ UNCHANGED <<stream, outcome, timer, counting, parking, calling, closing,
                   turnHistory, askHistory, exitHistory>>

Uncount(p) ==
    /\ Turn(p, "settled", "uncounted")
    /\ turns' = turns - 1
    /\ UNCHANGED <<stream, outcome, settled, timer, waiting, agentTurn, parking,
                   calling, closing, turnHistory, askHistory, exitHistory>>

\* A slip: what the call returned is taken for the event.
ReportOutcome(p) ==
    /\ Turn(p, "uncounted", "reported")
    /\ told' = [told EXCEPT ![p] = [k \in {outcome[p]} |-> 1]]
    /\ UNCHANGED <<stream, outcome, settled, timer, counting, parking, calling,
                   closing, begun, worked, askHistory, exitHistory>>


Report(p) ==
    /\ Turn(p, "uncounted", "reported")
    /\ Tell(p, IF outcome[p] = "ok" THEN "completed" ELSE "error")
    /\ UNCHANGED <<stream, outcome, settled, timer, counting, parking, calling,
                   closing, begun, worked, askHistory, exitHistory>>

-------------------------------------------------------------------------------
(* awaitFirstEvent.                                                        *)

\* life or Done closed.
TimerLeaves(p) ==
    /\ p \notin waiting \/ stream = "done"
    /\ Timer(p, "armed", "gone")
    /\ UNCHANGED <<stream, turn, outcome, settled, counting, parking, calling,
                   closing, turnHistory, askHistory, exitHistory>>

\* A slip: the timer does not look whether the prompt still waits.
TimerFiresBlindly(p) ==
    /\ Timer(p, "armed", "silent")
    /\ waiting' = waiting \ {p}
    /\ UNCHANGED <<stream, turn, outcome, settled, turns, agentTurn, parking,
                   calling, closing, turnHistory, askHistory, exitHistory>>

TimerFires(p) ==
    /\ Timer(p, "armed", IF p \in waiting THEN "silent" ELSE "gone")
    /\ waiting' = waiting \ {p}
    /\ UNCHANGED <<stream, turn, outcome, settled, turns, agentTurn, parking,
                   calling, closing, turnHistory, askHistory, exitHistory>>

TimerSettles(p) ==
    /\ Timer(p, "silent", IF p \in settled THEN "gone" ELSE "claimed")
    /\ settled' = settled \cup {p}
    /\ UNCHANGED <<stream, turn, outcome, counting, parking, calling, closing,
                   turnHistory, askHistory, exitHistory>>

\* A slip: the timeout leaves the turn counted.
TimerKeepsCount(p) ==
    /\ Timer(p, "claimed", "uncounted")
    /\ UNCHANGED <<stream, turn, outcome, settled, counting, parking,
                   calling, closing, turnHistory, askHistory, exitHistory>>


TimerUncounts(p) ==
    /\ Timer(p, "claimed", "uncounted")
    /\ turns' = turns - 1
    /\ UNCHANGED <<stream, turn, outcome, settled, waiting, agentTurn, parking,
                   calling, closing, turnHistory, askHistory, exitHistory>>

TimerReports(p) ==
    /\ Timer(p, "uncounted", "gone")
    /\ Tell(p, "no_response")
    /\ UNCHANGED <<stream, turn, outcome, settled, counting, parking, calling,
                   closing, begun, worked, askHistory, exitHistory>>

-------------------------------------------------------------------------------
(* The agent's requests: onPermission, onElicitation, and an extension's   *)
(* Ask and Approve.  handleRequest passes a context that never ends.       *)

Arrive(r) ==
    /\ stream = "up"
    /\ Ask(r, "none", "arrived")
    /\ UNCHANGED <<stream, prompting, counting, pending, key, answer, reply, calling,
                   closing, turnHistory, askHistory, exitHistory>>

RequestIsWork(r) ==
    /\ Ask(r, "arrived", "working")
    /\ Alive
    /\ UNCHANGED <<stream, prompting, turns, agentTurn, pending, key, answer, reply,
                   calling, closing, begun, told, askHistory, exitHistory>>

\* autoAllow, or a caller's tool: allowed without asking anybody.
AllowUnasked(r) ==
    /\ Ask(r, "working", "replied")
    /\ reply' = [reply EXCEPT ![r] = "resolved"]
    /\ UNCHANGED <<stream, prompting, counting, pending, key, answer, calling,
                   closing, turnHistory, askHistory, exitHistory>>

\* An earlier request under the same id is no longer in the map.
Park(r) ==
    /\ Ask(r, "working", "registered")
    /\ pending' = [pending EXCEPT ![key[r]] = r]
    /\ latest' = [latest EXCEPT ![key[r]] = r]
    /\ UNCHANGED <<stream, prompting, counting, key, answer, reply, calling, closing,
                   turnHistory, asked, resolved, exitHistory>>

Raise(r) ==
    /\ Ask(r, "registered", "raised")
    /\ asked' = Accept(asked, r)
    /\ UNCHANGED <<stream, prompting, counting, pending, key, answer, reply, calling,
                   closing, turnHistory, resolved, latest, exitHistory>>

\* A slip: a request that is answered drops its id, as one that gives up does.
TakeAnswerDrops(r) ==
    /\ answer[r] # "none"
    /\ Ask(r, "raised", "replied")
    /\ reply' = [reply EXCEPT ![r] = answer[r]]
    /\ pending' = [pending EXCEPT ![key[r]] = Nobody]
    /\ UNCHANGED <<stream, prompting, counting, key, answer, calling,
                   closing, turnHistory, askHistory, exitHistory>>

TakeAnswer(r) ==
    /\ answer[r] # "none"
    /\ Ask(r, "raised", "replied")
    /\ reply' = [reply EXCEPT ![r] = answer[r]]
    /\ UNCHANGED <<stream, prompting, counting, pending, key, answer, calling,
                   closing, turnHistory, askHistory, exitHistory>>

\* A slip: park waits for its answer and its context alone.
GiveUpNever(r) == FALSE /\ UNCHANGED vars

GiveUp(r) ==
    /\ stream = "done"
    /\ Ask(r, "raised", "dropping")
    /\ UNCHANGED <<stream, prompting, counting, pending, key, answer, reply, calling,
                   closing, turnHistory, askHistory, exitHistory>>

\* dropPending deletes whatever is under the id.
DropPending(r) ==
    /\ Ask(r, "dropping", "replied")
    /\ pending' = [pending EXCEPT ![key[r]] = Nobody]
    /\ reply' = [reply EXCEPT ![r] = "cancelled"]
    /\ UNCHANGED <<stream, prompting, counting, key, answer, calling, closing,
                   turnHistory, askHistory, exitHistory>>

-------------------------------------------------------------------------------
(* Resolve, of an id that was asked about.  One that is no longer pending  *)
(* is an error and changes nothing.                                        *)

\* A slip: the request stays in the map.
ResolveLooks(i) ==
    /\ caller = "idle"
    /\ \E r \in asked : key[r] = i
    /\ pending[i] # Nobody
    /\ caller' = "resolving"
    /\ resolving' = pending[i]
    /\ UNCHANGED <<stream, prompting, counting, parking, closing,
                   turnHistory, askHistory, exitHistory>>

ResolveTakes(i) ==
    /\ caller = "idle"
    /\ \E r \in asked : key[r] = i
    /\ pending[i] # Nobody
    /\ caller' = "resolving"
    /\ resolving' = pending[i]
    /\ pending' = [pending EXCEPT ![i] = Nobody]
    /\ UNCHANGED <<stream, prompting, counting, key, asking, answer, reply, closing,
                   turnHistory, askHistory, exitHistory>>

\* pendingRequest.settle: the first answer stays.
ResolveSettles ==
    /\ caller = "resolving"
    /\ caller' = "resolved"
    /\ answer' = [answer EXCEPT ![resolving] = IF @ = "none" THEN "resolved" ELSE @]
    /\ UNCHANGED <<stream, prompting, counting, pending, key, asking, reply, resolving,
                   closing, turnHistory, askHistory, exitHistory>>

ResolveTells ==
    /\ caller = "resolved"
    /\ caller' = "idle"
    /\ resolving' = Nobody
    /\ resolved' = IF pumpEnded THEN resolved
                   ELSE [resolved EXCEPT ![resolving] = @ + 1]
    /\ UNCHANGED <<stream, prompting, counting, parking, closing,
                   turnHistory, asked, latest, exitHistory>>

-------------------------------------------------------------------------------
(* Close, Kill and watch.                                                  *)

CallClose ==
    /\ caller = "idle"
    /\ caller' = "closing"
    /\ UNCHANGED <<stream, prompting, counting, parking, resolving, closing,
                   turnHistory, askHistory, exitHistory>>

CallKill ==
    /\ caller = "idle"
    /\ caller' = "killing"
    /\ UNCHANGED <<stream, prompting, counting, parking, resolving, closing,
                   turnHistory, askHistory, exitHistory>>

\* A slip: nothing watches for the stream's end.
OwnByCall(who) ==
    /\ \/ who = "kill" /\ caller = "killing"
       \/ who = "close" /\ caller = "closing"
    /\ End("open", "fail")
    /\ by' = who
    /\ UNCHANGED <<stream, prompting, counting, parking, calling, pumpEnded,
                   turnHistory, askHistory, exitHistory>>

\* closeOnce.Do, for the first of them.
Own(who) ==
    /\ \/ who = "watch" /\ stream = "done"
       \/ who = "kill" /\ caller = "killing"
       \/ who = "close" /\ caller = "closing"
    /\ End("open", "fail")
    /\ by' = who
    /\ UNCHANGED <<stream, prompting, counting, parking, calling, pumpEnded,
                   turnHistory, askHistory, exitHistory>>

FailPending ==
    /\ End("fail", "reap")
    /\ pending' = [i \in Ids |-> Nobody]
    /\ answer' = [r \in Requests |->
                     IF pending[key[r]] = r /\ answer[r] = "none"
                     THEN "cancelled" ELSE answer[r]]
    /\ UNCHANGED <<stream, prompting, counting, key, asking, reply, calling,
                   by, pumpEnded, turnHistory, askHistory, exitHistory>>

\* proc.Wait closes the agent's stdin and kills it after a grace; proc.Kill
\* kills it at once.  Either way it ends.
AgentDies ==
    /\ ending = "reap"
    /\ AgentExits

\* The process is reaped only once its stdout has been read to the end.
Reap ==
    /\ stream = "done"
    /\ End("reap", IF by = "close" THEN "finished" ELSE "report")
    /\ UNCHANGED <<stream, prompting, counting, parking, calling, by, pumpEnded,
                   turnHistory, askHistory, exitHistory>>

\* reportExit's locked look.
LookForTurns ==
    /\ End("report", IF turns > 0 THEN "exitEvent" ELSE "endPump")
    /\ turns' = 0
    /\ seen' = {p \in Prompts : turn[p] \notin {"none", "checked"}}
    /\ UNCHANGED <<stream, prompting, waiting, agentTurn, parking, calling, by,
                   pumpEnded, turnHistory, askHistory, exits>>

\* A slip: the session ends before reportExit has told of the turn.
EndPumpEarly ==
    /\ End("exitEvent", "finished")
    /\ pumpEnded' = TRUE
    /\ UNCHANGED <<stream, prompting, counting, parking, calling, by,
                   turnHistory, askHistory, exitHistory>>

ExitEvent ==
    /\ End("exitEvent", "endPump")
    /\ exits' = IF pumpEnded THEN exits ELSE exits + 1
    /\ UNCHANGED <<stream, prompting, counting, parking, calling, by, pumpEnded,
                   turnHistory, askHistory, seen>>

EndPump ==
    /\ End("endPump", "finished")
    /\ pumpEnded' = TRUE
    /\ UNCHANGED <<stream, prompting, counting, parking, calling, by,
                   turnHistory, askHistory, exitHistory>>

\* A slip: a call is woken only by an end of its own making.
ReturnIfOwner ==
    /\ \/ caller = "closing" /\ by = "close"
       \/ caller = "killing" /\ by = "kill"
    /\ ending = "finished"
    /\ caller' = "idle"
    /\ pumpEnded' = (pumpEnded \/ caller = "closing")
    /\ UNCHANGED <<stream, prompting, counting, parking, resolving, ending, by,
                   turnHistory, askHistory, exitHistory>>

\* Whoever came second waits in closeOnce.Do until the first is through;
\* Close then stops the pump in any case.
Return ==
    /\ caller \in {"closing", "killing"}
    /\ ending = "finished"
    /\ caller' = "idle"
    /\ pumpEnded' = (pumpEnded \/ caller = "closing")
    /\ UNCHANGED <<stream, prompting, counting, parking, resolving, ending, by,
                   turnHistory, askHistory, exitHistory>>

-------------------------------------------------------------------------------
PromptGoroutine(p) ==
    \/ Release(p) \/ LeaveOpen(p) \/ Settle(p) \/ Uncount(p) \/ Report(p)

TimerGoroutine(p) ==
    \/ TimerLeaves(p) \/ TimerSettles(p) \/ TimerUncounts(p) \/ TimerReports(p)

RequestGoroutine(r) ==
    \/ RequestIsWork(r) \/ AllowUnasked(r) \/ Park(r) \/ Raise(r)
    \/ TakeAnswer(r) \/ GiveUp(r) \/ DropPending(r)

Resolving == ResolveSettles \/ ResolveTells

Closers == {"watch", "kill", "close"}

Ending ==
    \/ \E who \in Closers : Own(who)
    \/ FailPending \/ Reap \/ LookForTurns \/ ExitEvent \/ EndPump \/ Return

Next ==
    \/ AgentExits \/ StreamDone \/ SignOfWork \/ BeginAgentTurn \/ EndAgentTurn
    \/ \E p \in Prompts :
          \/ PromptCheck(p) \/ PromptCount(p) \/ PromptStart(p)
          \/ Answered(p) \/ Failed(p) \/ CutShort(p)
          \/ PromptGoroutine(p)
          \/ TimerFires(p) \/ TimerGoroutine(p)
    \/ \E r \in Requests : Arrive(r) \/ RequestGoroutine(r)
    \/ \E i \in Ids : ResolveTakes(i)
    \/ Resolving \/ CallClose \/ CallKill \/ AgentDies \/ Ending

Spec == Init /\ [][Next]_vars

\* Goroutines that can run do, calls that have begun return, a process told
\* to end ends.  Nothing makes the agent answer, the person resolve, or the
\* caller close.
Fairness ==
    /\ WF_vars(StreamDone) /\ WF_vars(AgentDies)
    /\ \A p \in Prompts :
          /\ WF_vars(PromptCount(p)) /\ WF_vars(PromptStart(p))
          /\ WF_vars(CutShort(p))
          /\ WF_vars(PromptGoroutine(p)) /\ WF_vars(TimerGoroutine(p))
    /\ \A r \in Requests : WF_vars(RequestGoroutine(r))
    /\ WF_vars(Resolving) /\ WF_vars(Ending)

FairSpec == Spec /\ Fairness

-------------------------------------------------------------------------------
(* Properties.                                                             *)

TypeOK ==
    /\ stream \in {"up", "failing", "done"}
    /\ turn \in [Prompts -> TurnStates]
    /\ outcome \in [Prompts -> {"none", "ok", "error", "cut"}]
    /\ settled \subseteq Prompts
    /\ timer \in [Prompts -> TimerStates]
    /\ turns \in Int
    /\ waiting \subseteq Prompts
    /\ agentTurn \in BOOLEAN
    /\ pending \in [Ids -> Requests \cup {Nobody}]
    /\ key \in [Requests -> Ids]
    /\ asking \in [Requests -> AskStates]
    /\ answer \in [Requests -> {"none", "resolved", "cancelled"}]
    /\ reply \in [Requests -> {"none", "resolved", "cancelled"}]
    /\ caller \in {"idle", "prompting", "resolving", "resolved", "closing", "killing"}
    /\ resolving \in Requests \cup {Nobody}
    /\ ending \in EndStates
    /\ by \in Closers \cup {"none"}
    /\ pumpEnded \in BOOLEAN
    /\ begun \subseteq Prompts
    /\ told \in [Prompts -> [EndKinds -> Nat]]
    /\ exits \in Nat
    /\ asked \subseteq Requests
    /\ latest \in [Ids -> Requests \cup {Nobody}]
    /\ resolved \in [Requests -> Nat]
    /\ worked \subseteq Prompts
    /\ seen \subseteq Prompts

\* A prompt reports its own end at most once, although its answer and its
\* first-event timeout race to: settle has one winner.
ToldOnce ==
    \A p \in Prompts :
        /\ \A k \in EndKinds : told[p][k] <= 1
        /\ \A k, l \in EndKinds : told[p][k] > 0 /\ told[p][l] > 0 => k = l

Uncounted(p) == turn[p] = "uncounted" \/ timer[p] = "uncounted"
Counted(p) ==
    /\ turn[p] \notin {"none", "checked"}
    /\ p \notin settled \/ turn[p] = "settled" \/ timer[p] = "claimed"

\* Until reportExit resets it, turns counts exactly the turns nobody has
\* begun to report, so that reportExit and BeginAgentTurn see the truth.
TurnsCounted ==
    ending \in {"open", "fail", "reap", "report"} =>
        turns = Cardinality({p \in Prompts : Counted(p)})
                  + (IF agentTurn THEN 1 ELSE 0)

\* A prompt whose goroutine left its turn to whoever ends the session is not
\* forgotten: if reportExit could see the turn, process_exited was told
\* before Events closed.
LeftTurnsReported ==
    \A p \in Prompts :
        turn[p] = "left" /\ p \in seen /\ p \notin settled /\ ending = "finished" =>
            exits = 1

\* no_response is told only of a prompt that had no sign of work between its
\* start and its timeout.
NoResponseMeansSilent ==
    \A p \in Prompts : told[p]["no_response"] > 0 => p \notin worked

\* What a prompt reports of its own end is one thing, and true.
ToldTruly == ToldOnce /\ NoResponseMeansSilent

\* A request is resolved once, as Resolve refuses one already resolved, and
\* approval.resolved is the truth while the agent lives: its request was not
\* answered with a cancellation instead.
ResolvedOnce ==
    \A r \in Requests :
        /\ resolved[r] <= 1
        /\ resolved[r] = 1 /\ reply[r] = "cancelled" => stream = "done"

Reachable(r) == resolving = r \/ pending[key[r]] = r
Open(r) == asking[r] = "raised" /\ answer[r] = "none"

\* Requests without a tool call id share one: the request last parked under an
\* id can be answered by a person until it is, or until the agent is gone,
\* although the goroutine, the answer or the Resolve of an earlier one comes late.
AskedIsReachable ==
    \A r \in Requests :
        Open(r) /\ latest[key[r]] = r /\ stream # "done" => Reachable(r)

\* A request put to a person can be answered by that person.  It does not hold
\* of one whose id another was parked under meanwhile: see the README.
EachAskedIsReachable == \A r \in Requests : Open(r) /\ stream # "done" => Reachable(r)

\* A turn told to have started, and answered by the agent, is told to have
\* ended by the time Events closes, and once: by its own event or by
\* process_exited.
EveryTurnEndsOnce ==
    (ending = "finished" /\ by # "close") =>
        \A p \in begun :
            outcome[p] = "ok" => (exits = 1) # (\E k \in EndKinds : told[p][k] > 0)

\* A dead agent does not look alive: its session ends by itself.
DeathEndsSession == (stream # "up") ~> (ending = "finished")

\* Close and Kill return, although they wait for one another, for watch and
\* for the agent.
CallsReturn == (caller # "idle") ~> (caller = "idle")

\* No request of the agent keeps its goroutine once the agent is gone, even
\* one parked after failPending or under another's id.
NoRequestStranded ==
    \A r \in Requests :
        (asking[r] # "none" /\ stream = "done") ~> (asking[r] = "replied")

\* Close, Kill and the agent's requests all come to their end.
RequestsEnd == NoRequestStranded /\ CallsReturn
===============================================================================
