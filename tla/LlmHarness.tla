------------------------------ MODULE LlmHarness ------------------------------
(***************************************************************************)
(* llm/harness.go: a harness used as a model.  A call of Generate takes    *)
(* the conversation kept on its key, or starts one, and returns when the   *)
(* agent's response is complete; the agent's tool calls are held at the    *)
(* tool server until a later Generate brings their results.  The agent     *)
(* reaches us twice, through its session's events and through the tool     *)
(* server's requests, and nothing orders the two.  One key, which every    *)
(* call has, and an idle time that is not negative: without either nothing *)
(* is kept.  What a message says is left out, so that whether a request    *)
(* continues the conversation is a choice.                                 *)
(***************************************************************************)
EXTENDS Naturals, FiniteSets

CONSTANTS Generates,   \* the goroutines that call Generate
          MaxConvs,    \* bound: conversations, each with an agent of its own
          MaxCalls,    \* bound: the agents' tool calls
          MaxWork      \* bound: conversations, tool calls and calls of Generate together

ASSUME BoundsAssumption == MaxConvs \in Nat /\ MaxCalls \in Nat /\ MaxWork \in Nat

Convs == 1..MaxConvs
Calls == 1..MaxCalls
None == 0

VARIABLES
    \* Harness.
    live,         \* the conversation kept on the key
    modelClosed,
    \* The calls of Generate: where each is, its conversation, how many yet.
    at, conv, made,
    \* harnessConv.
    closed,       \* closed[c]: close has begun
    torn,         \* torn[c]: close is over: the agent is killed, the server gone
    idle,         \* where the idle timer is
    pending,      \* the tool calls of the last response
    held, early,
    \* harnessTurn of the conversation.
    turn,         \* none, collecting, complete or failed
    content,      \* the tool calls it has collected
    settling,     \* its settle timer runs
    \* The agent, the event of its session that pump has not read, pump.
    agent, unread, pumpDone,
    \* The tool calls: whose, where toolCall is, whether its request has ended.
    owner, call, ended

harnessVars == <<live, modelClosed>>
generateVars == <<at, conv, made>>
closeVars == <<closed, torn, idle>>
turnVars == <<turn, content, settling>>
agentVars == <<agent, unread, pumpDone>>
callVars == <<owner, call, ended>>
vars == <<harnessVars, generateVars, closeVars, pending, held, early, turnVars, agentVars, callVars>>

Init ==
    /\ live = None /\ modelClosed = FALSE
    /\ at = [g \in Generates |-> "idle"] /\ conv = [g \in Generates |-> None] /\ made = 0
    /\ closed = [c \in Convs |-> FALSE] /\ torn = [c \in Convs |-> FALSE]
    /\ idle = [c \in Convs |-> "none"]
    /\ pending = [c \in Convs |-> {}] /\ held = [c \in Convs |-> {}] /\ early = [c \in Convs |-> {}]
    /\ turn = [c \in Convs |-> "none"] /\ content = [c \in Convs |-> {}]
    /\ settling = [c \in Convs |-> FALSE]
    /\ agent = [c \in Convs |-> "none"] /\ unread = [c \in Convs |-> "nothing"]
    /\ pumpDone = [c \in Convs |-> FALSE]
    /\ owner = [k \in Calls |-> None] /\ call = [k \in Calls |-> "new"] /\ ended = {}

\* The first that is not in use.
First(unused) == {x \in unused : \A y \in unused : x <= y}

MoreWork ==
    made + Cardinality({c \in Convs : agent[c] # "none"}) + Cardinality({k \in Calls : call[k] # "new"}) < MaxWork

Open(c) == {k \in Calls : owner[k] = c /\ call[k] \notin {"new", "returned"}}

-------------------------------------------------------------------------------
(* What the handlers share.                                                *)

Goes(g, from, to) == at[g] = from /\ at' = [at EXCEPT ![g] = to]

\* A slip: the timer is left to run.
FinishLeavesTimer(c, how) ==
    /\ turn' = [turn EXCEPT ![c] = IF turn[c] = "collecting" THEN how ELSE turn[c]]
    /\ UNCHANGED <<content, settling>>

\* harnessTurn.finish: the first to end the turn decides how it ended.
Finish(c, how) ==
    /\ turn' = [turn EXCEPT ![c] = IF turn[c] = "collecting" THEN how ELSE turn[c]]
    /\ settling' = [settling EXCEPT ![c] = settling[c] /\ turn[c] # "collecting"]
    /\ UNCHANGED content

\* close, up to the agent's end: calls still held are answered as cancelled.
\* Who finds it closed waits for Tear.
StartClose(cs) ==
    LET new == {c \in cs : ~closed[c]}
    IN /\ closed' = [c \in Convs |-> closed[c] \/ c \in new]
       /\ held' = [c \in Convs |-> IF c \in new THEN {} ELSE held[c]]
       /\ idle' = [c \in Convs |-> IF c \in new /\ idle[c] = "armed" THEN "stopped" ELSE idle[c]]
       /\ call' = [k \in Calls |-> IF k \in UNION {held[c] : c \in new} THEN "cancelled" ELSE call[k]]
       /\ UNCHANGED torn

\* The rest of close: the agent is killed and the tool server closed, which
\* ends the requests.
Tear(c) ==
    /\ closed[c] /\ ~torn[c]
    /\ torn' = [torn EXCEPT ![c] = TRUE]
    /\ agent' = [agent EXCEPT ![c] = "dead"]
    /\ ended' = ended \cup Open(c)
    /\ UNCHANGED <<harnessVars, generateVars, closed, idle, pending, held, early, turnVars, unread, pumpDone, owner, call>>

-------------------------------------------------------------------------------
(* Generate.                                                               *)

\* A slip: a timer that has fired is taken for one that was stopped.
TakeFired(g) ==
    /\ MoreWork /\ made' = made + 1
    /\ live' = None
    /\ LET c == live
       IN IF c = None
          THEN Goes(g, "idle", "starting") /\ UNCHANGED <<conv, idle>>
          ELSE /\ idle' = [idle EXCEPT ![c] = IF idle[c] = "armed" THEN "stopped" ELSE idle[c]]
               /\ IF closed[c]
                  THEN Goes(g, "idle", "starting") /\ UNCHANGED conv
                  ELSE Goes(g, "idle", "taken") /\ conv' = [conv EXCEPT ![g] = c]
    /\ UNCHANGED <<modelClosed, closed, torn, pending, held, early, turnVars, agentVars, callVars>>

\* One whose timer has fired is ending, though it may not know yet.
Take(g) ==
    /\ MoreWork /\ made' = made + 1
    /\ live' = None
    /\ LET c == live
       IN IF c = None
          THEN Goes(g, "idle", "starting") /\ UNCHANGED <<conv, idle>>
          ELSE /\ idle' = [idle EXCEPT ![c] = IF idle[c] = "armed" THEN "stopped" ELSE idle[c]]
               /\ IF idle[c] # "armed" \/ closed[c]
                  THEN Goes(g, "idle", "starting") /\ UNCHANGED conv
                  ELSE Goes(g, "idle", "taken") /\ conv' = [conv EXCEPT ![g] = c]
    /\ UNCHANGED <<modelClosed, closed, torn, pending, held, early, turnVars, agentVars, callVars>>

\* The request does not continue what the agent holds.
Differs(g) ==
    /\ Goes(g, "taken", "dropping")
    /\ StartClose({conv[g]})
    /\ UNCHANGED <<harnessVars, conv, made, pending, early, turnVars, agentVars, owner, ended>>

Dropped(g) ==
    /\ Goes(g, "dropping", "starting")
    /\ torn[conv[g]]
    /\ conv' = [conv EXCEPT ![g] = None]
    /\ UNCHANGED <<harnessVars, made, closeVars, pending, held, early, turnVars, agentVars, callVars>>

\* A conversation with an agent of its own, prompted; or a failure: one once
\* the session is open leaves it to be closed, an earlier one leaves nothing.
Start(g) ==
    \/ \E c \in First({x \in Convs : agent[x] = "none"}), to \in {"waiting", "failed"} :
          /\ MoreWork /\ Goes(g, "starting", to)
          /\ conv' = [conv EXCEPT ![g] = c]
          /\ turn' = [turn EXCEPT ![c] = "collecting"]
          /\ agent' = [agent EXCEPT ![c] = "working"]
          /\ UNCHANGED <<harnessVars, made, closeVars, pending, held, early, content, settling, unread, pumpDone, callVars>>
    \/ /\ Goes(g, "starting", "idle")
       /\ UNCHANGED <<harnessVars, conv, made, closeVars, pending, held, early, turnVars, agentVars, callVars>>

\* A slip: a call that came between two responses stays where it is.
BeginAfresh(g) ==
    LET c == conv[g]
    IN /\ Goes(g, "taken", "begun")
       /\ turn' = [turn EXCEPT ![c] = "collecting"]
       /\ content' = [content EXCEPT ![c] = {}]
       /\ UNCHANGED <<harnessVars, conv, made, closeVars, pending, held, early, settling, agentVars, callVars>>

\* begin: calls that came between two responses are the new one's.
Begin(g) ==
    LET c == conv[g]
    IN /\ Goes(g, "taken", "begun")
       /\ turn' = [turn EXCEPT ![c] = "collecting"]
       /\ content' = [content EXCEPT ![c] = early[c]]
       /\ settling' = [settling EXCEPT ![c] = early[c] # {}]
       /\ early' = [early EXCEPT ![c] = {}]
       /\ UNCHANGED <<harnessVars, conv, made, closeVars, pending, held, agentVars, callVars>>

\* next, after a response that ended the agent's turn.
Prompt(g) ==
    LET c == conv[g]
    IN /\ at[g] = "begun" /\ pending[c] = {}
       /\ \/ /\ agent[c] = "resting" /\ ~closed[c]
             /\ Goes(g, "begun", "waiting")
             /\ agent' = [agent EXCEPT ![c] = "working"]
          \/ agent[c] = "dead" /\ Goes(g, "begun", "failed") /\ UNCHANGED agent
       /\ UNCHANGED <<harnessVars, conv, made, closeVars, pending, held, early, turnVars, unread, pumpDone, callVars>>

\* next, after one with tool calls: each is taken, unless the agent has given
\* one up; then those taken before it are answered by nobody.
TakeHeld(g) ==
    LET c == conv[g]
    IN /\ at[g] = "begun" /\ pending[c] # {}
       /\ \/ /\ pending[c] \subseteq held[c]
             /\ Goes(g, "begun", "answering")
             /\ held' = [held EXCEPT ![c] = held[c] \ pending[c]]
          \/ /\ ~(pending[c] \subseteq held[c])
             /\ Goes(g, "begun", "failed")
             /\ \E before \in SUBSET (pending[c] \cap held[c]) : held' = [held EXCEPT ![c] = held[c] \ before]
       /\ UNCHANGED <<harnessVars, conv, made, closeVars, pending, early, turnVars, agentVars, callVars>>

AnswerHeld(g) ==
    /\ Goes(g, "answering", "waiting")
    /\ call' = [k \in Calls |-> IF k \in pending[conv[g]] /\ call[k] = "held" THEN "answered" ELSE call[k]]
    /\ UNCHANGED <<harnessVars, conv, made, closeVars, pending, held, early, turnVars, agentVars, owner, ended>>

\* wait: the response, its failure, the session's end, or the caller's own.
Wait(g) ==
    LET c == conv[g]
    IN /\ at[g] = "waiting"
       /\ \/ turn[c] = "complete" /\ Goes(g, "waiting", "answered")
          \/ turn[c] = "failed" /\ Goes(g, "waiting", "failed")
          \/ pumpDone[c] /\ turn[c] = "collecting" /\ Goes(g, "waiting", "failed")
       /\ UNCHANGED <<harnessVars, conv, made, closeVars, pending, held, early, turnVars, agentVars, callVars>>

CallerGivesUp(g) ==
    /\ Goes(g, "waiting", "failed")
    /\ UNCHANGED <<harnessVars, conv, made, closeVars, pending, held, early, turnVars, agentVars, callVars>>

\* settle: a failed conversation ends.
SettleFailed(g) ==
    /\ Goes(g, "failed", "closing")
    /\ StartClose({conv[g]})
    /\ UNCHANGED <<harnessVars, conv, made, pending, early, turnVars, agentVars, owner, ended>>

\* A slip: a model closed meanwhile keeps the conversation.
SettleAlways(g) ==
    LET c == conv[g]
    IN /\ Goes(g, "answered", "idle")
       /\ conv' = [conv EXCEPT ![g] = IF at'[g] = "idle" THEN None ELSE c]
       /\ pending' = [pending EXCEPT ![c] = content[c]]
       /\ live' = c
       /\ LET old == {live} \cap Convs
          IN /\ closed' = [d \in Convs |-> closed[d] \/ d \in old]
             /\ held' = [d \in Convs |-> IF d \in old THEN {} ELSE held[d]]
             /\ idle' = [d \in Convs |-> IF d = c THEN "armed" ELSE IF d \in old THEN "stopped" ELSE idle[d]]
             /\ call' = [k \in Calls |-> IF k \in UNION {held[d] : d \in old} THEN "cancelled" ELSE call[k]]
       /\ UNCHANGED <<modelClosed, made, torn, early, turnVars, agentVars, owner, ended>>

\* settle: the conversation is kept for the next call, in place of one that
\* another call kept meanwhile; none is kept once the model is closed.
Settle(g) ==
    LET c == conv[g]
        out == {d \in Convs : d = (IF modelClosed THEN c ELSE live) /\ ~closed[d]}
    IN /\ Goes(g, "answered", IF modelClosed THEN "closing" ELSE "idle")
       /\ conv' = [conv EXCEPT ![g] = IF at'[g] = "idle" THEN None ELSE c]
       /\ pending' = [pending EXCEPT ![c] = content[c]]
       /\ live' = IF modelClosed THEN live ELSE c
       /\ closed' = [d \in Convs |-> closed[d] \/ d \in out]
       /\ held' = [d \in Convs |-> IF d \in out THEN {} ELSE held[d]]
       /\ call' = [k \in Calls |-> IF k \in UNION {held[d] : d \in out} THEN "cancelled" ELSE call[k]]
       /\ idle' = [d \in Convs |-> IF d = c /\ ~modelClosed THEN "armed"
                                   ELSE IF d \in out /\ idle[d] = "armed" THEN "stopped" ELSE idle[d]]
       /\ UNCHANGED <<modelClosed, made, torn, early, turnVars, agentVars, owner, ended>>

Return(g) ==
    /\ Goes(g, "closing", "idle")
    /\ torn[conv[g]]
    /\ conv' = [conv EXCEPT ![g] = None]
    /\ UNCHANGED <<harnessVars, made, closeVars, pending, held, early, turnVars, agentVars, callVars>>

-------------------------------------------------------------------------------
(* The idle timer and Close.                                               *)

IdleFires(c) ==
    /\ idle[c] = "armed"
    /\ idle' = [idle EXCEPT ![c] = "fired"]
    /\ UNCHANGED <<harnessVars, generateVars, closed, torn, pending, held, early, turnVars, agentVars, callVars>>

IdleRuns(c) ==
    /\ idle[c] = "fired"
    /\ live' = IF live = c THEN None ELSE live
    /\ closed' = [closed EXCEPT ![c] = TRUE]
    /\ held' = [held EXCEPT ![c] = IF closed[c] THEN held[c] ELSE {}]
    /\ call' = [k \in Calls |-> IF k \in held[c] /\ ~closed[c] THEN "cancelled" ELSE call[k]]
    /\ idle' = [idle EXCEPT ![c] = "done"]
    /\ UNCHANGED <<modelClosed, generateVars, torn, pending, early, turnVars, agentVars, owner, ended>>

Close ==
    /\ ~modelClosed
    /\ modelClosed' = TRUE
    /\ live' = None
    /\ StartClose({live} \cap Convs)
    /\ UNCHANGED <<generateVars, pending, early, turnVars, agentVars, owner, ended>>

-------------------------------------------------------------------------------
(* The agent.                                                              *)

agentLeaves == <<harnessVars, generateVars, closeVars, pending>>

\* A slip: a call that comes late is added to the response all the same.
ToolCallJoins(c, k) ==
    /\ MoreWork /\ agent[c] = "working" /\ k \in First({x \in Calls : call[x] = "new"})
    /\ owner' = [owner EXCEPT ![k] = c]
    /\ call' = [call EXCEPT ![k] = "held"]
    /\ held' = [held EXCEPT ![c] = held[c] \cup {k}]
    /\ content' = [content EXCEPT ![c] = content[c] \cup {k}]
    /\ settling' = [settling EXCEPT ![c] = settling[c] \/ turn[c] = "collecting"]
    /\ UNCHANGED <<agentLeaves, early, turn, agentVars, ended>>

\* toolCall, up to its wait: the call is the response's being collected, or
\* the next one's.
ToolCall(c, k) ==
    /\ MoreWork /\ agent[c] = "working" /\ k \in First({x \in Calls : call[x] = "new"})
    /\ owner' = [owner EXCEPT ![k] = c]
    /\ call' = [call EXCEPT ![k] = "held"]
    /\ held' = [held EXCEPT ![c] = held[c] \cup {k}]
    /\ IF turn[c] = "collecting"
       THEN /\ content' = [content EXCEPT ![c] = content[c] \cup {k}]
            /\ settling' = [settling EXCEPT ![c] = TRUE]
            /\ UNCHANGED early
       ELSE early' = [early EXCEPT ![c] = early[c] \cup {k}] /\ UNCHANGED <<content, settling>>
    /\ UNCHANGED <<agentLeaves, turn, agentVars, ended>>

\* It ends its turn when it waits for no call.
EndsTurn(c) ==
    /\ agent[c] = "working" /\ Open(c) \subseteq ended
    /\ agent' = [agent EXCEPT ![c] = "resting"]
    /\ \E event \in {"completed", "error"} : unread' = [unread EXCEPT ![c] = event]
    /\ UNCHANGED <<agentLeaves, held, early, turnVars, pumpDone, callVars>>

\* It stops waiting for a call, with its turn going on.
GivesUp(k) ==
    /\ call[k] \in {"held", "answered", "cancelled"} /\ k \notin ended
    /\ ended' = ended \cup {k}
    /\ UNCHANGED <<agentLeaves, held, early, turnVars, agentVars, owner, call>>

\* By itself; close kills it.
AgentDies(c) ==
    /\ agent[c] \in {"working", "resting"} /\ ~closed[c]
    /\ agent' = [agent EXCEPT ![c] = "dead"]
    /\ ended' = ended \cup Open(c)
    /\ UNCHANGED <<agentLeaves, held, early, turnVars, unread, pumpDone, owner, call>>

-------------------------------------------------------------------------------
(* The settle timer, toolCall after its wait, and pump.                    *)

SettleTimer(c) ==
    /\ settling[c]
    /\ Finish(c, "complete")
    /\ UNCHANGED <<agentLeaves, held, early, agentVars, callVars>>

GetsAnswer(k) ==
    /\ call[k] \in {"answered", "cancelled"}
    /\ call' = [call EXCEPT ![k] = "returned"]
    /\ UNCHANGED <<agentLeaves, held, early, turnVars, agentVars, owner, ended>>

\* The request has ended; an answer that is there too may lose to it.
RequestEnded(k) ==
    /\ k \in ended /\ call[k] \in {"held", "answered", "cancelled"}
    /\ call' = [call EXCEPT ![k] = "leaving"]
    /\ held' = [held EXCEPT ![owner[k]] = held[owner[k]] \ {k}]
    /\ UNCHANGED <<agentLeaves, early, turnVars, agentVars, owner, ended>>

Leave(k) ==
    LET c == owner[k]
    IN /\ call[k] = "leaving"
       /\ closed' = [closed EXCEPT ![c] = TRUE]
       /\ held' = [held EXCEPT ![c] = IF closed[c] THEN held[c] ELSE {}]
       /\ idle' = [idle EXCEPT ![c] = IF idle[c] = "armed" /\ ~closed[c] THEN "stopped" ELSE idle[c]]
       /\ call' = [j \in Calls |-> IF j = k THEN "closing"
                                   ELSE IF j \in held[c] /\ ~closed[c] THEN "cancelled" ELSE call[j]]
       /\ UNCHANGED <<harnessVars, generateVars, torn, pending, early, turnVars, agentVars, owner, ended>>

Left(k) ==
    /\ call[k] = "closing" /\ torn[owner[k]]
    /\ call' = [call EXCEPT ![k] = "returned"]
    /\ UNCHANGED <<agentLeaves, held, early, turnVars, agentVars, owner, ended>>

\* An event that comes between two responses is dropped.
PumpReads(c) ==
    /\ unread[c] # "nothing"
    /\ unread' = [unread EXCEPT ![c] = "nothing"]
    /\ IF unread[c] = "error" \/ content[c] = {}
       THEN Finish(c, IF unread[c] = "error" THEN "failed" ELSE "complete")
       ELSE UNCHANGED turnVars
    /\ UNCHANGED <<agentLeaves, held, early, agent, pumpDone, callVars>>

PumpEnds(c) ==
    /\ agent[c] = "dead" /\ unread[c] = "nothing" /\ ~pumpDone[c]
    /\ pumpDone' = [pumpDone EXCEPT ![c] = TRUE]
    /\ Finish(c, "failed")
    /\ UNCHANGED <<agentLeaves, held, early, agent, unread, callVars>>

-------------------------------------------------------------------------------
Generate(g) ==
    \/ Differs(g) \/ Dropped(g) \/ Start(g) \/ Begin(g) \/ Prompt(g) \/ TakeHeld(g)
    \/ AnswerHeld(g) \/ Wait(g) \/ SettleFailed(g) \/ Settle(g) \/ Return(g)

Agent(c) == EndsTurn(c) \/ AgentDies(c) \/ \E k \in Calls : ToolCall(c, k)

Conversation(c) == Tear(c) \/ IdleRuns(c) \/ SettleTimer(c) \/ PumpReads(c) \/ PumpEnds(c)

Handler(k) == GetsAnswer(k) \/ RequestEnded(k) \/ Leave(k) \/ Left(k)

Ours ==
    \/ \E g \in Generates : Generate(g)
    \/ \E c \in Convs : Conversation(c)
    \/ \E k \in Calls : Handler(k)

Next ==
    \/ Ours
    \/ \E g \in Generates : Take(g) \/ CallerGivesUp(g)
    \/ \E c \in Convs : Agent(c) \/ IdleFires(c)
    \/ \E k \in Calls : GivesUp(k)
    \/ Close

Spec == Init /\ [][Next]_vars

\* Our goroutines and timers run, in no promised order: with bounded work it is
\* enough that one of them does.  Nothing makes the agent go on, or a caller
\* come back.
FairSpec == Spec /\ WF_vars(Ours)

-------------------------------------------------------------------------------
(* Properties.                                                             *)

TypeOK ==
    /\ live \in Convs \cup {None} /\ modelClosed \in BOOLEAN
    /\ at \in [Generates -> {"idle", "taken", "dropping", "starting", "begun", "answering", "waiting",
                             "answered", "failed", "closing"}]
    /\ made \in Nat /\ conv \in [Generates -> Convs \cup {None}]
    /\ closed \in [Convs -> BOOLEAN] /\ torn \in [Convs -> BOOLEAN]
    /\ idle \in [Convs -> {"none", "armed", "stopped", "fired", "done"}]
    /\ pending \in [Convs -> SUBSET Calls] /\ held \in [Convs -> SUBSET Calls]
    /\ early \in [Convs -> SUBSET Calls] /\ content \in [Convs -> SUBSET Calls]
    /\ turn \in [Convs -> {"none", "collecting", "complete", "failed"}]
    /\ settling \in [Convs -> BOOLEAN]
    /\ \A c \in Convs : settling[c] => turn[c] = "collecting" /\ content[c] # {}
    /\ agent \in [Convs -> {"none", "working", "resting", "dead"}]
    /\ unread \in [Convs -> {"nothing", "completed", "error"}] /\ pumpDone \in [Convs -> BOOLEAN]
    /\ owner \in [Calls -> Convs \cup {None}] /\ ended \subseteq Calls
    /\ call \in [Calls -> {"new", "held", "answered", "cancelled", "leaving", "closing", "returned"}]

UseStates == {"taken", "begun", "answering", "waiting", "answered", "failed"}
Using(c) == {g \in Generates : conv[g] = c /\ at[g] \in UseStates}

\* An agent that runs has one owner: the one call of Generate that uses its
\* conversation, or, between calls, the key it is kept on, or an idle timer
\* that is about to close it.  However calls on the key, the timer and Close
\* meet, no process is left running and none is used by two.
OneOwner ==
    \A c \in Convs : agent[c] # "none" /\ ~closed[c] =>
        /\ \A g, h \in Using(c) : g = h
        /\ Using(c) = {} => idle[c] = "fired" \/ (live = c /\ idle[c] = "armed")
        /\ Using(c) # {} => live # c /\ idle[c] \in {"none", "stopped"}

\* Whatever the agent still waits for in a kept conversation the caller knows
\* of, or the next response will tell it: no tool call is held and forgotten.
HeldIsKnown ==
    \A c \in Convs : Using(c) = {} /\ ~closed[c] => held[c] \subseteq pending[c] \cup early[c]

\* A call of Generate and the agent never wait on each other: while it waits
\* something is under way that ends its response.  Conversations whose agent
\* has given up a call are to restart, and are not promised this.
NobodyWaitsOnTheOther ==
    \A g \in Generates :
        at[g] = "waiting" /\ turn[conv[g]] = "collecting" /\ (\A k \in ended : owner[k] # conv[g]) =>
            LET c == conv[g]
            IN \/ settling[c] \/ unread[c] # "nothing" \/ agent[c] = "dead"
               \/ agent[c] = "working" /\ \A k \in Open(c) : call[k] # "held"

\* The comment in toolCall: a call the agent gave up waiting for makes the next
\* call of Generate restart.  It does not hold: see the README.
GivenUpRestarts == \A k \in ended : call[k] = "returned" => closed[owner[k]]

\* The comment on Model: calls on the same key are served one at a time.  It
\* does not hold: see the README.
ServedOneAtATime == \A g, h \in Generates : at[g] \in UseStates /\ at[h] \in UseStates => g = h

\* Close ends every agent, one that a call of Generate still uses when that
\* call returns; and a tool server that closes leaves no request unanswered.
CloseEndsAll ==
    /\ \A c \in Convs : modelClosed /\ agent[c] # "none" ~> torn[c] \/ \E g \in Using(c) : at[g] = "waiting"
    /\ \A k \in Calls : owner[k] # None /\ closed[owner[k]] ~> call[k] = "returned"
===============================================================================
