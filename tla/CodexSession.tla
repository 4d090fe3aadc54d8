----------------------------- MODULE CodexSession -----------------------------
(***************************************************************************)
(* driver/codex.go: one session with codex app-server.  Codex writes turn  *)
(* notifications, requests and answers on one stream; the read loop takes  *)
(* them in order, but hands a request to a goroutine of its own and an     *)
(* answer to the send loop, which act on them later.  Close, Kill and      *)
(* watch end the session.  Usage, items and sub-agents' progress are left  *)
(* out; a sub-agent's requests are not.                                    *)
(***************************************************************************)
EXTENDS Naturals, Sequences, FiniteSets

CONSTANTS Approvals,   \* codex's requests for an approval
          Tools,       \* codex's calls of a caller's tool
          Items,       \* the item ids approvals carry
          Nobody,      \* no request
          MaxTurns,    \* bound: turns codex starts
          MaxWork,     \* bound: Prompt calls and requests together
          MaxUnread    \* bound: messages on the wire

ASSUME RequestsAssumption == Approvals \cap Tools = {} /\ Nobody \notin Approvals
ASSUME BoundsAssumption == MaxTurns \in Nat /\ MaxWork \in Nat /\ MaxUnread \in Nat

Requests == Approvals \cup Tools
Turns == 1..MaxTurns
NoTurn == 0
Child == MaxTurns + 1    \* the turn a sub-agent's requests name

\* An approval is pending under its item's id or, if that is taken, under the
\* id with the request's own added.
Keys == Items \X (Approvals \cup {Nobody})

VARIABLES
    \* codex: its stream, what it wrote and we have not read, the turn it
    \* runs, the turns it has run, the call it has to answer, the requests it
    \* waits on and the turn each belongs to.
    stream, wire, running, ran, asking, outstanding, turnOf,
    hasSteer,    \* this codex has turn/steer
    \* The send loop: prompts queued, where it is, the turn it is dealing with.
    accepted, queued, sender, sending,
    activeTurn,  \* codexSession.activeTurn
    pending,     \* codexSession.pending; byRPC is its inverse
    calls,       \* codexSession.calls
    item,        \* the item id of each approval
    request,     \* where the goroutine of each request is
    keyOf,       \* the key of each approval
    answer,      \* what settle put in an approval's channel, or a tool's cancel
    closing,     \* codexSession.closing
    caller,      \* the goroutine that calls Close and Kill
    watch,       \* where watch is
    pumpEnded,   \* the pump takes no more events
    \* History.
    killed,      \* Kill was called before the session was closing
    exits,       \* process_exited accepted
    shown,       \* the last approval event accepted for each approval
    resolved,    \* how many approval.resolved were accepted for each
    over,        \* the turns whose end the read loop has taken
    died,        \* the stream ended before the session was closing
    refusedIdle  \* a prompt was refused though codex ran nothing

codexVars == <<stream, wire, running, ran, asking, outstanding, turnOf, died>>
sendVars == <<hasSteer, accepted, queued, sender, sending, refusedIdle>>
requestVars == <<pending, calls, item, request, keyOf, answer, shown, resolved>>
endVars == <<closing, caller, watch, pumpEnded, killed, exits>>
vars == <<codexVars, sendVars, activeTurn, requestVars, endVars, over>>

\* What is on the wire.
Response(t) == [kind |-> "response", turn |-> t]
Refusal == [kind |-> "refusal"]
Started(t) == [kind |-> "started", turn |-> t]
Completed(t) == [kind |-> "completed", turn |-> t]
Request(r) == [kind |-> "request", req |-> r]
Withdrawn(r) == [kind |-> "withdrawn", req |-> r]
Messages ==
    {Response(t) : t \in Turns} \cup {Refusal} \cup {Started(t) : t \in Turns}
      \cup {Completed(t) : t \in Turns} \cup {Request(r) : r \in Requests}
      \cup {Withdrawn(r) : r \in Requests}

Init ==
    /\ stream = "up" /\ wire = <<>> /\ running = NoTurn /\ ran = 0
    /\ asking = "nothing" /\ outstanding = {}
    /\ turnOf = [r \in Requests |-> NoTurn]
    /\ hasSteer \in BOOLEAN
    /\ accepted = 0 /\ queued = 0 /\ sender = "idle" /\ sending = NoTurn
    /\ activeTurn = NoTurn
    /\ pending = [k \in Keys |-> Nobody]
    /\ calls = {}
    /\ item \in [Approvals -> Items]
    /\ request = [r \in Requests |-> "none"]
    /\ keyOf \in [Approvals -> Keys]
    /\ \A r \in Approvals : keyOf[r] = <<item[r], Nobody>>
    /\ answer = [r \in Requests |-> "none"]
    /\ closing = FALSE /\ caller = "idle" /\ watch = "waiting" /\ pumpEnded = FALSE
    /\ killed = FALSE /\ exits = 0
    /\ shown = [r \in Approvals |-> "none"]
    /\ resolved = [r \in Approvals |-> 0]
    /\ over = {}
    /\ died = FALSE
    /\ refusedIdle = FALSE

-------------------------------------------------------------------------------
(* codex.  Whatever it writes is read in order.                            *)

Says(messages) ==
    /\ stream = "up"
    /\ Len(wire) + Len(messages) <= MaxUnread
    /\ wire' = wire \o messages

MoreWork == accepted + Cardinality({r \in Requests : turnOf[r] # NoTurn}) < MaxWork

\* turn/start: the answer and turn/started come in either order.
StartsTurn ==
    /\ asking = "start"
    /\ running = NoTurn
    /\ ran < MaxTurns
    /\ ran' = ran + 1
    /\ running' = ran'
    /\ \/ Says(<<Response(ran'), Started(ran')>>)
       \/ Says(<<Started(ran'), Response(ran')>>)
    /\ asking' = "nothing"
    /\ UNCHANGED <<stream, outstanding, turnOf, died, sendVars, activeTurn,
                   requestVars, endVars, over>>

\* turn/steer names the turn it means; any call may be refused.
SteerFits == running # NoTurn /\ sending = running

AnswersSteer ==
    /\ asking = "steer"
    /\ SteerFits
    /\ Says(<<Response(running)>>)
    /\ asking' = "nothing"
    /\ UNCHANGED <<stream, running, ran, outstanding, turnOf, died, sendVars,
                   activeTurn, requestVars, endVars, over>>

Refuses ==
    /\ asking # "nothing"
    /\ asking = "steer" => ~SteerFits
    /\ Says(<<Refusal>>)
    /\ asking' = "nothing"
    /\ UNCHANGED <<stream, running, ran, outstanding, turnOf, died, sendVars,
                   activeTurn, requestVars, endVars, over>>

\* A turn ends, by itself or interrupted, with the requests it still had.
CompletesTurn ==
    /\ running # NoTurn
    /\ Says(<<Completed(running)>>)
    /\ running' = NoTurn
    /\ outstanding' = {r \in outstanding : turnOf[r] # running}
    /\ UNCHANGED <<stream, ran, asking, turnOf, died, sendVars, activeTurn,
                   requestVars, endVars, over>>

Asks(r, t) ==
    /\ running # NoTurn
    /\ turnOf[r] = NoTurn /\ MoreWork
    /\ t \in {running, Child}
    /\ turnOf' = [turnOf EXCEPT ![r] = t]
    /\ outstanding' = outstanding \cup {r}
    /\ Says(<<Request(r)>>)
    /\ UNCHANGED <<stream, running, ran, asking, died, sendVars, activeTurn,
                   requestVars, endVars, over>>

Withdraws(r) ==
    /\ r \in outstanding
    /\ outstanding' = outstanding \ {r}
    /\ Says(<<Withdrawn(r)>>)
    /\ UNCHANGED <<stream, running, ran, asking, turnOf, died, sendVars,
                   activeTurn, requestVars, endVars, over>>

\* What it wrote before it exited is still read.
CodexExits ==
    /\ stream = "up"
    /\ stream' = "ending"
    /\ died' = ~closing
    /\ UNCHANGED <<wire, running, ran, asking, outstanding, turnOf, sendVars,
                   activeTurn, requestVars, endVars, over>>

CodexStops == closing /\ CodexExits

StreamDone ==
    /\ stream = "ending"
    /\ wire = <<>>
    /\ stream' = "done"
    /\ UNCHANGED <<wire, running, ran, asking, outstanding, turnOf, died, sendVars,
                   activeTurn, requestVars, endVars, over>>

-------------------------------------------------------------------------------
(* Prompt and the send loop.  Its context ends with stop or with the       *)
(* stream, and with it whatever it was doing.                              *)

Ended == closing \/ stream = "done"
Send(from, to) == sender = from /\ sender' = to

Prompt ==
    /\ ~closing
    /\ MoreWork
    /\ accepted' = accepted + 1
    /\ queued' = queued + 1
    /\ UNCHANGED <<codexVars, hasSteer, sender, sending, refusedIdle, activeTurn, requestVars,
                   endVars, over>>

\* send: the look at activeTurn, and the call it leads to.
SendRefused ==
    /\ activeTurn # NoTurn /\ ~hasSteer
    /\ queued > 0
    /\ Send("idle", "idle")
    /\ queued' = queued - 1
    /\ refusedIdle' = (refusedIdle \/ (running = NoTurn /\ wire = <<>>))
    /\ UNCHANGED <<codexVars, hasSteer, accepted, sending, activeTurn, requestVars, endVars, over>>

SendSteers ==
    /\ activeTurn # NoTurn /\ hasSteer
    /\ queued > 0
    /\ Send("idle", "steering")
    /\ queued' = queued - 1
    /\ asking' = "steer"
    /\ sending' = activeTurn
    /\ UNCHANGED <<stream, wire, running, ran, outstanding, turnOf, died, hasSteer, accepted,
                   refusedIdle, activeTurn, requestVars, endVars, over>>

\* A slip: a prompt sent again as a new turn is taken off the queue again.
SendStartsAnew ==
    /\ \/ /\ activeTurn = NoTurn
          /\ queued > 0
          /\ Send("idle", "starting")
       \/ Send("refused", "starting")
    /\ queued' = queued - 1
    /\ asking' = "start"
    /\ UNCHANGED <<stream, wire, running, ran, outstanding, turnOf, died, hasSteer, accepted,
                   sending, refusedIdle, activeTurn, requestVars, endVars, over>>

SendStarts ==
    /\ \/ /\ activeTurn = NoTurn
          /\ queued > 0
          /\ Send("idle", "starting")
          /\ queued' = queued - 1
       \/ /\ Send("refused", "starting")    \* the turn ended meanwhile
          /\ UNCHANGED queued
    /\ asking' = "start"
    /\ UNCHANGED <<stream, wire, running, ran, outstanding, turnOf, died, hasSteer, accepted,
                   sending, refusedIdle, activeTurn, requestVars, endVars, over>>

\* The answer has been handed over; the loop gets to it in its own time.
SendApplies ==
    /\ Send("answered", "idle")
    /\ activeTurn' = IF activeTurn = NoTurn THEN sending ELSE activeTurn
    /\ sending' = NoTurn
    /\ UNCHANGED <<codexVars, hasSteer, accepted, queued, refusedIdle, requestVars,
                   endVars, over>>

SendStops ==
    /\ Ended
    /\ sender # "stopped"
    /\ sender' = "stopped"
    /\ sending' = NoTurn
    /\ UNCHANGED <<codexVars, hasSteer, accepted, queued, refusedIdle, activeTurn,
                   requestVars, endVars, over>>

-------------------------------------------------------------------------------
(* The read loop.                                                          *)

Reads(message) ==
    /\ wire # <<>>
    /\ Head(wire) = message
    /\ wire' = Tail(wire)
    /\ UNCHANGED <<stream, running, ran, asking, outstanding, turnOf, died>>

ReadResponse(t) ==
    /\ Reads(Response(t))
    /\ CASE sender = "starting" -> sender' = "answered" /\ sending' = t
         [] sender = "steering" -> sender' = "idle" /\ sending' = NoTurn
         [] sender = "stopped" -> UNCHANGED <<sender, sending>>
    /\ UNCHANGED <<hasSteer, accepted, queued, refusedIdle, activeTurn, requestVars, endVars, over>>

\* A slip: a refused start is not an answer.
ReadRefusalWaits ==
    /\ Reads(Refusal)
    /\ sender' = IF sender = "steering" THEN "refused" ELSE sender
    /\ sending' = NoTurn
    /\ UNCHANGED <<hasSteer, accepted, queued, refusedIdle, activeTurn, requestVars,
                   endVars, over>>

\* A refused steer starts a new turn; a refused start is an error event.
ReadRefusal ==
    /\ Reads(Refusal)
    /\ sender' = CASE sender = "steering" -> "refused"
                   [] sender = "starting" -> "idle"
                   [] sender = "stopped" -> "stopped"
    /\ sending' = NoTurn
    /\ UNCHANGED <<hasSteer, accepted, queued, refusedIdle, activeTurn, requestVars,
                   endVars, over>>

\* A slip: an active turn is not replaced.
ReadStartedIfNone(t) ==
    /\ Reads(Started(t))
    /\ activeTurn' = IF activeTurn = NoTurn THEN t ELSE activeTurn
    /\ UNCHANGED <<sendVars, requestVars, endVars, over>>

ReadStarted(t) ==
    /\ Reads(Started(t))
    /\ activeTurn' = t
    /\ UNCHANGED <<sendVars, requestVars, endVars, over>>

\* pump.push of an approval event.
Show(rs, what) ==
    shown' = [r \in Approvals |-> IF r \in rs /\ ~pumpEnded THEN what ELSE shown[r]]
Resolved(rs) ==
    /\ Show(rs, "resolved")
    /\ resolved' = [r \in Approvals |->
                       IF r \in rs /\ ~pumpEnded THEN resolved[r] + 1 ELSE resolved[r]]

\* Take approvals out of the map, and answer them as nobody will decide.
Remove(rs) == pending' = [k \in Keys |-> IF pending[k] \in rs THEN Nobody ELSE pending[k]]
Settle(rs, what) ==
    answer' = [r \in Requests |->
                  IF r \in rs /\ answer[r] = "none" THEN what ELSE answer[r]]

Parked == {pending[k] : k \in Keys} \ {Nobody}

\* withdraw and cancelCalls.
Withdraw(rs) ==
    /\ Remove(rs)
    /\ Resolved(rs \cap Parked)
    /\ Settle(rs \cap (Parked \cup calls), "cancelled")

\* A slip: every request is withdrawn, whichever turn it belongs to.
ReadCompletedAll(t) ==
    /\ Reads(Completed(t))
    /\ activeTurn' = IF activeTurn = t THEN NoTurn ELSE activeTurn
    /\ over' = over \cup {t}
    /\ Withdraw(Requests)
    /\ UNCHANGED <<sendVars, calls, item, request, keyOf, endVars>>

ReadCompleted(t) ==
    /\ Reads(Completed(t))
    /\ activeTurn' = IF activeTurn = t THEN NoTurn ELSE activeTurn
    /\ over' = over \cup {t}
    /\ Withdraw({r \in Requests : turnOf[r] = t})
    /\ UNCHANGED <<sendVars, calls, item, request, keyOf, endVars>>

\* serverRequest/resolved.  What names another thread goes to
\* onChildNotification, which knows no withdrawal: a sub-agent's request stays.
ReadWithdrawn(r) ==
    /\ Reads(Withdrawn(r))
    /\ \/ /\ turnOf[r] # Child
          /\ Withdraw({r})
          /\ UNCHANGED <<calls, item, request, keyOf>>
       \/ turnOf[r] = Child /\ UNCHANGED requestVars
    /\ UNCHANGED <<sendVars, activeTurn, endVars, over>>

\* A goroutine answers it, when it is scheduled.
ReadRequest(r) ==
    /\ Reads(Request(r))
    /\ request' = [request EXCEPT ![r] = "spawned"]
    /\ UNCHANGED <<sendVars, activeTurn, pending, calls, item, keyOf, answer, shown,
                   resolved, endVars, over>>

-------------------------------------------------------------------------------
(* onRequest and runCallerTool, each in its goroutine.                     *)

Goes(r, from, to) == request[r] = from /\ request' = [request EXCEPT ![r] = to]

RefuseWhenClosing(r) ==
    /\ closing
    /\ Goes(r, "spawned", "replied")
    /\ answer' = [answer EXCEPT ![r] = "cancelled"]
    /\ UNCHANGED <<codexVars, sendVars, activeTurn, pending, calls, item, keyOf,
                   shown, resolved, endVars, over>>

\* A slip: a key already taken is taken over.
ParkOver(r) ==
    LET k == <<item[r], Nobody>>
    IN /\ ~closing
       /\ Goes(r, "spawned", "parked")
       /\ pending' = [pending EXCEPT ![k] = r]
       /\ keyOf' = [keyOf EXCEPT ![r] = k]
       /\ UNCHANGED <<codexVars, sendVars, activeTurn, calls, item, answer, shown,
                      resolved, endVars, over>>

Park(r) ==
    LET k == <<item[r], IF pending[<<item[r], Nobody>>] = Nobody THEN Nobody ELSE r>>
    IN /\ ~closing
       /\ Goes(r, "spawned", "parked")
       /\ pending' = [pending EXCEPT ![k] = r]
       /\ keyOf' = [keyOf EXCEPT ![r] = k]
       /\ UNCHANGED <<codexVars, sendVars, activeTurn, calls, item, answer, shown,
                      resolved, endVars, over>>

Raise(r) ==
    /\ Goes(r, "parked", "raised")
    /\ Show({r}, "required")
    /\ UNCHANGED <<codexVars, sendVars, activeTurn, pending, calls, item, keyOf, answer,
                   resolved, endVars, over>>

TakeAnswer(r) ==
    /\ answer[r] # "none"
    /\ Goes(r, "raised", "replied")
    /\ outstanding' = outstanding \ {r}
    /\ UNCHANGED <<stream, wire, running, ran, asking, turnOf, died, sendVars, activeTurn,
                   pending, calls, item, keyOf, answer, shown, resolved, endVars, over>>

\* A slip: ctx ends when the session closes.
GiveUpWhenClosing(r) ==
    /\ stream = "done" /\ closing
    /\ Goes(r, "raised", "replied")
    /\ pending' = [pending EXCEPT ![keyOf[r]] = Nobody]
    /\ UNCHANGED <<codexVars, sendVars, activeTurn, calls, item, keyOf, answer, shown,
                   resolved, endVars, over>>

\* ctx ends with the stream: drop, by key, and a cancelled answer.
GiveUp(r) ==
    /\ stream = "done"
    /\ Goes(r, "raised", "replied")
    /\ pending' = [pending EXCEPT ![keyOf[r]] = Nobody]
    /\ UNCHANGED <<codexVars, sendVars, activeTurn, calls, item, keyOf, answer, shown,
                   resolved, endVars, over>>

RunTool(r) ==
    /\ ~closing
    /\ Goes(r, "spawned", "running")
    /\ calls' = calls \cup {r}
    /\ UNCHANGED <<codexVars, sendVars, activeTurn, pending, item, keyOf, answer, shown,
                   resolved, endVars, over>>

\* The tool returns, of its own accord or because its context ended.
ToolReturns(r) ==
    /\ Goes(r, "running", "replied")
    /\ calls' = calls \ {r}
    /\ outstanding' = outstanding \ {r}
    /\ UNCHANGED <<stream, wire, running, ran, asking, turnOf, died, sendVars, activeTurn,
                   pending, item, keyOf, answer, shown, resolved, endVars, over>>

ToolCancelled(r) ==
    /\ answer[r] = "cancelled" \/ stream = "done"
    /\ ToolReturns(r)

\* A slip: the approval stays pending.
ResolveKeeps(k) ==
    LET r == pending[k]
    IN /\ r # Nobody
       /\ \E q \in Approvals : keyOf[q] = k /\ shown[q] = "required"
       /\ Settle({r}, "decided")
       /\ Resolved({r})
       /\ UNCHANGED <<codexVars, sendVars, activeTurn, pending, calls, item, request,
                      keyOf, endVars, over>>

\* Resolve, of an approval somebody was shown.  The take, the settle and the
\* event are one step: once taken, nothing else reaches the approval.
Resolve(k) ==
    LET r == pending[k]
    IN /\ r # Nobody
       /\ \E q \in Approvals : keyOf[q] = k /\ shown[q] = "required"
       /\ Remove({r})
       /\ Settle({r}, "decided")
       /\ Resolved({r})
       /\ UNCHANGED <<codexVars, sendVars, activeTurn, calls, item, request,
                      keyOf, endVars, over>>

-------------------------------------------------------------------------------
(* Close, Kill and watch.                                                  *)

CallClose ==
    /\ caller = "idle"
    /\ caller' = "shutdown"
    /\ UNCHANGED <<codexVars, sendVars, activeTurn, requestVars, closing, watch,
                   pumpEnded, killed, exits, over>>

\* proc.Kill, then the wait for watch.
CallKill ==
    /\ caller = "idle"
    /\ caller' = "killing"
    /\ IF stream = "up" THEN stream' = "ending" /\ died' = ~closing
                        ELSE UNCHANGED <<stream, died>>
    /\ killed' = (killed \/ ~closing)
    /\ UNCHANGED <<wire, running, ran, asking, outstanding, turnOf, sendVars, activeTurn,
                   requestVars, closing, watch, pumpEnded, exits, over>>

\* A slip: Kill shuts down without waiting for watch.
KillGoesOn ==
    /\ caller = "killing"
    /\ caller' = "shutdown"
    /\ UNCHANGED <<codexVars, sendVars, activeTurn, requestVars, closing, watch,
                   pumpEnded, killed, exits, over>>

KillWaits ==
    /\ caller = "killing"
    /\ watch = "finished"
    /\ caller' = "shutdown"
    /\ UNCHANGED <<codexVars, sendVars, activeTurn, requestVars, closing, watch,
                   pumpEnded, killed, exits, over>>

\* shutdown: closing, the parked approvals and the tools, stop; the second
\* call finds closeOnce done.
Shutdown ==
    /\ caller = "shutdown"
    /\ caller' = "reaping"
    /\ closing' = TRUE
    /\ pending' = [k \in Keys |-> Nobody]
    /\ Settle(Parked \cup calls, "cancelled")
    /\ UNCHANGED <<codexVars, sendVars, activeTurn, calls, item, request, keyOf, shown,
                   resolved, watch, pumpEnded, killed, exits, over>>

\* proc.Close waits for the exit; Close stops the pump.
Reaped ==
    /\ caller = "reaping"
    /\ stream = "done"
    /\ caller' = "idle"
    /\ pumpEnded' = TRUE
    /\ UNCHANGED <<codexVars, sendVars, activeTurn, requestVars, closing, watch, killed, exits,
                   over>>

\* A slip: watch tells of an exit without asking whether it was asked for.
WatchTells ==
    /\ watch = "waiting"
    /\ stream = "done"
    /\ watch' = "exited"
    /\ pending' = [k \in Keys |-> Nobody]
    /\ Settle(Parked \cup calls, "cancelled")
    /\ UNCHANGED <<codexVars, sendVars, activeTurn, calls, item, request, keyOf, shown,
                   resolved, closing, caller, pumpEnded, killed, exits, over>>

\* watch looks at closing and takes the approvals under one lock.
WatchWakes ==
    /\ watch = "waiting"
    /\ stream = "done"
    /\ watch' = IF closing THEN "quiet" ELSE "exited"
    /\ pending' = [k \in Keys |-> Nobody]
    /\ Settle(Parked \cup calls, "cancelled")
    /\ UNCHANGED <<codexVars, sendVars, activeTurn, calls, item, request, keyOf, shown,
                   resolved, closing, caller, pumpEnded, killed, exits, over>>

WatchReports ==
    /\ watch = "exited"
    /\ watch' = "quiet"
    /\ exits' = IF pumpEnded THEN exits ELSE exits + 1
    /\ UNCHANGED <<codexVars, sendVars, activeTurn, requestVars, closing, caller,
                   killed, pumpEnded, over>>

\* A slip: watch waits for the session to be closed.
WatchEndsClosed ==
    /\ watch = "quiet" /\ closing
    /\ watch' = "finished"
    /\ pumpEnded' = TRUE
    /\ UNCHANGED <<codexVars, sendVars, activeTurn, requestVars, closing, caller, exits,
                   killed, over>>

WatchEnds ==
    /\ watch = "quiet"
    /\ watch' = "finished"
    /\ pumpEnded' = TRUE
    /\ UNCHANGED <<codexVars, sendVars, activeTurn, requestVars, closing, caller, killed, exits,
                   over>>

-------------------------------------------------------------------------------
Codex ==
    \/ StartsTurn \/ AnswersSteer \/ Refuses

ReadLoop ==
    \/ \E t \in Turns : ReadResponse(t) \/ ReadStarted(t) \/ ReadCompleted(t)
    \/ \E r \in Requests : ReadRequest(r) \/ ReadWithdrawn(r)
    \/ ReadRefusal

Sender == SendRefused \/ SendSteers \/ SendStarts \/ SendApplies \/ SendStops

Goroutine(r) ==
    \/ RefuseWhenClosing(r)
    \/ r \in Approvals /\ (Park(r) \/ Raise(r) \/ TakeAnswer(r) \/ GiveUp(r))
    \/ r \in Tools /\ (RunTool(r) \/ ToolCancelled(r))

Ending == KillWaits \/ Shutdown \/ Reaped \/ WatchWakes \/ WatchReports \/ WatchEnds

Next ==
    \/ Codex \/ CompletesTurn \/ CodexExits \/ StreamDone
    \/ \E r \in Requests :
          \/ \E t \in Turns \cup {Child} : Asks(r, t)
          \/ Withdraws(r)
          \/ Goroutine(r)
    \/ \E r \in Tools : ToolReturns(r)
    \/ \E k \in Keys : Resolve(k)
    \/ Prompt \/ Sender \/ ReadLoop
    \/ CallClose \/ CallKill \/ Ending

Spec == Init /\ [][Next]_vars

\* The session's goroutines run, a tool heeds its context, codex answers the
\* calls it is made, and exits when its stdin closes or a grace later.
\* Nothing makes a turn end, a person decide or the caller close.
FairSpec ==
    /\ Spec
    /\ WF_vars(Codex) /\ WF_vars(CodexStops) /\ WF_vars(StreamDone)
    /\ WF_vars(ReadLoop) /\ WF_vars(Sender) /\ WF_vars(Ending)
    /\ \A r \in Requests : WF_vars(Goroutine(r))

-------------------------------------------------------------------------------
(* Properties.                                                             *)

TypeOK ==
    /\ stream \in {"up", "ending", "done"} /\ wire \in Seq(Messages)
    /\ running \in Turns \cup {NoTurn} /\ ran \in 0..MaxTurns
    /\ asking \in {"nothing", "start", "steer"}
    /\ outstanding \subseteq Requests
    /\ turnOf \in [Requests -> Turns \cup {NoTurn, Child}]
    /\ accepted \in Nat /\ queued \in Nat
    /\ sender \in {"idle", "steering", "refused", "starting", "answered", "stopped"}
    /\ sending \in Turns \cup {NoTurn} /\ activeTurn \in Turns \cup {NoTurn}
    /\ pending \in [Keys -> Approvals \cup {Nobody}]
    /\ calls \subseteq Tools
    /\ item \in [Approvals -> Items] /\ keyOf \in [Approvals -> Keys]
    /\ request \in [Requests -> {"none", "spawned", "parked", "raised", "running", "replied"}]
    /\ answer \in [Requests -> {"none", "decided", "cancelled"}]
    /\ caller \in {"idle", "shutdown", "killing", "reaping"}
    /\ watch \in {"waiting", "exited", "quiet", "finished"}
    /\ closing \in BOOLEAN /\ killed \in BOOLEAN /\ pumpEnded \in BOOLEAN
    /\ exits \in Nat
    /\ shown \in [Approvals -> {"none", "required", "resolved"}]
    /\ resolved \in [Approvals -> Nat]
    /\ over \subseteq Turns
    /\ hasSteer \in BOOLEAN /\ died \in BOOLEAN /\ refusedIdle \in BOOLEAN

\* An approval is resolved once: by a person, by the end of its turn or by
\* codex's withdrawal, however these meet.
ResolvedOnce == \A r \in Approvals : resolved[r] <= 1

\* An approval somebody was asked for can be answered until it is settled,
\* although codex may use an item's id for several.
AskedIsReachable ==
    \A r \in Approvals :
        request[r] = "raised" /\ answer[r] = "none" /\ stream # "done" =>
            pending[keyOf[r]] = r

\* Nothing codex still waits for is cancelled while the session lives: the end
\* of one turn leaves the requests of another, and of sub-agents, alone.  A
\* request codex withdrew may well go on: see WithdrawnIsSettled.
OnlyDeadCancelled ==
    \A r \in Requests :
        answer[r] = "cancelled" => r \notin outstanding \/ closing \/ stream = "done"

\* A turn the read loop knows to run is the active one, whatever the send loop
\* made of its answer: Interrupt finds it.
RunningIsActive ==
    running # NoTurn /\ (\A i \in 1..Len(wire) : wire[i] # Started(running)) =>
        activeTurn = running

\* process_exited is told at most once, only of a codex that ended before the
\* session was closing, and of every one that Kill ended.
ExitToldTruly ==
    /\ exits <= 1 /\ (exits = 1 => died)
    /\ killed /\ watch = "finished" => exits = 1

\* A prompt of a codex without turn/steer is refused only while a turn runs,
\* as Prompt's comment has it: a new turn when none is running.
RefusedOnlyWhileRunning == ~refusedIdle

\* No approval stays on a screen for nothing: one whose turn's end the session
\* has taken, and whose goroutine has come to rest, is shown as resolved.  It does not
\* hold: see the README.
NoPromptLeftOpen ==
    \A r \in Approvals :
        turnOf[r] \in over /\ request[r] \in {"raised", "replied"} /\ ~pumpEnded /\ stream = "up" =>
            shown[r] = "resolved"

\* What codex withdrew is settled once the read loop has taken the withdrawal, as
\* runCallerTool's comment has it: its context ends when codex withdraws the
\* request.  It holds neither of a sub-agent's requests nor of one that registers
\* after the withdrawal was read: see the README.
WithdrawnIsSettled ==
    \A r \in Requests :
        /\ request[r] \in {"raised", "running"} /\ r \notin outstanding
        /\ running # NoTurn /\ turnOf[r] \in {running, Child}
        /\ \A i \in 1..Len(wire) : wire[i] # Withdrawn(r)
        => answer[r] # "none"

\* Every goroutine of a request ends once the session closes or codex is gone,
\* one that registered after the others were settled too.
NoRequestStranded ==
    \A r \in Requests :
        (request[r] # "none" /\ Ended) ~> (request[r] = "replied")

\* Every accepted prompt is sent, steered or refused, or the session ends.
EveryPromptTaken == queued > 0 ~> (queued = 0 \/ Ended)

\* Close and Kill return, and the pump then ends.
CallsReturn == (caller # "idle") ~> (caller = "idle" /\ pumpEnded)

\* No goroutine of the session hangs, and no accepted prompt is forgotten.
NothingHangs == NoRequestStranded /\ EveryPromptTaken /\ CallsReturn

\* What settles an approval or a tool call settles it once, and rightly.
SettledOnce == ResolvedOnce /\ OnlyDeadCancelled
===============================================================================
