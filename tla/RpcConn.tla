-------------------------------- MODULE RpcConn --------------------------------
(***************************************************************************)
(* internal/jsonrpc: Conn with its Pending registry.  Callers register,    *)
(* write and wait; one read loop hands replies over; the end of the stream *)
(* fails whatever still waits.  The registry's lock makes Add, Forget, the *)
(* removal in Deliver and the swap in Close single steps; what the code    *)
(* does outside the lock (the send on a reply channel, closing the         *)
(* channels one by one, closing done) is a step of its own.                *)
(***************************************************************************)
EXTENDS Naturals, Sequences

CONSTANTS Calls,        \* the calls made on the connection, one id each
          NoCall,       \* no call
          MaxInbound    \* bound: messages the peer has written, not yet read

ASSUME NoCallAssumption == NoCall \notin Calls
ASSUME MaxInboundAssumption == MaxInbound \in Nat

VARIABLES
    pc,          \* where each Call is
    outcome,     \* what each Call returns
    cancelled,   \* the calls whose ctx has ended
    sent,        \* the calls whose request reached the peer
    inbound,     \* what the peer has written and the read loop not read
    registered,  \* Pending.m: the ids waited on
    refusing,    \* Pending.closed
    reply,       \* each call's reply channel
    reader,      \* where the read loop is
    delivering,  \* the call Deliver has taken out and not yet handed its reply
    failing,     \* the calls Close has taken out and not yet failed
    readErr      \* Conn.err: how the stream ended

vars == <<pc, outcome, cancelled, sent, inbound, registered, refusing, reply,
          reader, delivering, failing, readErr>>

callerVars == <<pc, outcome, cancelled, sent>>
loopVars == <<reader, delivering, failing, readErr>>

CallStates == {"start", "write", "wait", "forget", "refused", "returned"}
Outcomes == {"none", "answered", "sendError", "ctxError", "closed", "closedReadError"}
ReaderStates == {"read", "deliver", "ended", "failing", "done"}

\* A reply names its call.  "other" is all the rest the loop runs a handler
\* for: notifications, requests, errors without an id, lines that are noise.
Messages == [kind : {"reply"}, call : Calls] \cup [kind : {"other"}]

Init ==
    /\ pc = [c \in Calls |-> "start"]
    /\ outcome = [c \in Calls |-> "none"]
    /\ cancelled = {}
    /\ sent = {}
    /\ inbound = <<>>
    /\ registered = {}
    /\ refusing = FALSE
    /\ reply = [c \in Calls |-> "none"]
    /\ reader = "read"
    /\ delivering = NoCall
    /\ failing = {}
    /\ readErr = "none"

Goto(c, from, to) ==
    /\ pc[c] = from
    /\ pc' = [pc EXCEPT ![c] = to]

Outcome(c, o) == outcome' = [outcome EXCEPT ![c] = o]

-------------------------------------------------------------------------------
(* The peer and the callers' contexts.                                     *)

\* A peer answers what it was asked, late, out of order or twice.
PeerWrites ==
    /\ reader \in {"read", "deliver"}
    /\ Len(inbound) < MaxInbound
    /\ \E m \in Messages :
          /\ m.kind = "reply" => m.call \in sent
          /\ inbound' = Append(inbound, m)
    /\ UNCHANGED <<callerVars, registered, refusing, reply, loopVars>>

Cancel(c) ==
    /\ c \notin cancelled
    /\ cancelled' = cancelled \cup {c}
    /\ UNCHANGED <<pc, outcome, sent, inbound, registered, refusing, reply, loopVars>>

-------------------------------------------------------------------------------
(* Call.                                                                   *)

Add(c) ==
    /\ \/ /\ ~refusing
          /\ Goto(c, "start", "write")
          /\ registered' = registered \cup {c}
          /\ reply' = [reply EXCEPT ![c] = "open"]
       \/ /\ refusing
          /\ Goto(c, "start", "refused")
          /\ UNCHANGED <<registered, reply>>
    /\ UNCHANGED <<outcome, cancelled, sent, inbound, refusing, loopVars>>

\* The request is written whole, or the write fails and the call is forgotten.
Write(c) ==
    /\ \/ /\ Goto(c, "write", "wait")
          /\ sent' = sent \cup {c}
          /\ UNCHANGED outcome
       \/ /\ Goto(c, "write", "forget")
          /\ Outcome(c, "sendError")
          /\ UNCHANGED sent
    /\ UNCHANGED <<cancelled, inbound, registered, refusing, reply, loopVars>>

\* The select: any case that is ready may be the one that runs.
Receive(c) ==
    /\ reply[c] = "full"
    /\ Goto(c, "wait", "returned")
    /\ Outcome(c, "answered")
    /\ UNCHANGED <<cancelled, sent, inbound, registered, refusing, reply, loopVars>>

\* A slip: the select watches done instead of the reply channel's closing.
ReceiveClosedOnDone(c) ==
    /\ reader = "done"
    /\ Goto(c, "wait", "refused")
    /\ UNCHANGED <<outcome, cancelled, sent, inbound, registered, refusing, reply, loopVars>>

ReceiveClosed(c) ==
    /\ reply[c] = "closed"
    /\ Goto(c, "wait", "refused")
    /\ UNCHANGED <<outcome, cancelled, sent, inbound, registered, refusing, reply, loopVars>>

\* Slips: the call returns ctx.Err() and stays in the registry; it leaves the
\* registry and goes on waiting.
ContextDoneKeeps(c) ==
    /\ c \in cancelled
    /\ Goto(c, "wait", "returned")
    /\ Outcome(c, "ctxError")
    /\ UNCHANGED <<cancelled, sent, inbound, registered, refusing, reply, loopVars>>

ContextDoneWaitsOn(c) ==
    /\ c \in cancelled
    /\ pc[c] = "wait"
    /\ registered' = registered \ {c}
    /\ UNCHANGED <<callerVars, inbound, refusing, reply, loopVars>>

ContextDone(c) ==
    /\ c \in cancelled
    /\ Goto(c, "wait", "forget")
    /\ Outcome(c, "ctxError")
    /\ UNCHANGED <<cancelled, sent, inbound, registered, refusing, reply, loopVars>>

Forget(c) ==
    /\ Goto(c, "forget", "returned")
    /\ registered' = registered \ {c}
    /\ UNCHANGED <<outcome, cancelled, sent, inbound, refusing, reply, loopVars>>

\* A slip: the read error is returned in place of ErrClosed.
ClosedErrBare(c) ==
    /\ Goto(c, "refused", "returned")
    /\ Outcome(c, IF reader = "done" THEN readErr ELSE "closed")
    /\ UNCHANGED <<cancelled, sent, inbound, registered, refusing, reply, loopVars>>

\* closedErr: the read error is visible only once done has closed.
ClosedErr(c) ==
    /\ Goto(c, "refused", "returned")
    /\ Outcome(c, IF reader = "done" /\ readErr = "error"
                  THEN "closedReadError" ELSE "closed")
    /\ UNCHANGED <<cancelled, sent, inbound, registered, refusing, reply, loopVars>>

-------------------------------------------------------------------------------
(* readLoop, dispatch, Deliver and Close.                                  *)

\* A slip: the call keeps its entry when its reply is handed over.
DeliverLockedKeeps ==
    /\ reader = "read"
    /\ inbound # <<>>
    /\ Head(inbound).kind = "reply"
    /\ inbound' = Tail(inbound)
    /\ IF Head(inbound).call \in registered
       THEN reader' = "deliver" /\ delivering' = Head(inbound).call
       ELSE UNCHANGED <<reader, delivering>>
    /\ UNCHANGED <<callerVars, refusing, registered, reply, failing, readErr>>

\* A reply nobody waits for is dropped.
DeliverLocked ==
    /\ reader = "read"
    /\ inbound # <<>>
    /\ Head(inbound).kind = "reply"
    /\ inbound' = Tail(inbound)
    /\ registered' = registered \ {Head(inbound).call}
    /\ IF Head(inbound).call \in registered
       THEN reader' = "deliver" /\ delivering' = Head(inbound).call
       ELSE UNCHANGED <<reader, delivering>>
    /\ UNCHANGED <<callerVars, refusing, reply, failing, readErr>>

\* The channel holds one value: the send does not wait for the caller.
DeliverSend ==
    /\ reader = "deliver"
    /\ reply[delivering] = "open"
    /\ reply' = [reply EXCEPT ![delivering] = "full"]
    /\ reader' = "read"
    /\ delivering' = NoCall
    /\ UNCHANGED <<callerVars, inbound, registered, refusing, failing, readErr>>

DispatchOther ==
    /\ reader = "read"
    /\ inbound # <<>>
    /\ Head(inbound).kind = "other"
    /\ inbound' = Tail(inbound)
    /\ UNCHANGED <<callerVars, registered, refusing, reply, loopVars>>

\* EOF comes after the last line; a read error or a line over MaxLine leaves
\* whatever follows it unread.
StreamEnds ==
    /\ reader = "read"
    /\ \/ inbound = <<>> /\ readErr' = "eof"
       \/ readErr' = "error"
    /\ reader' = "ended"
    /\ UNCHANGED <<callerVars, inbound, registered, refusing, reply, delivering, failing>>

\* Slips: Close does not refuse later calls; it leaves the calls in the map.
CloseLockedStaysOpen ==
    /\ reader = "ended"
    /\ failing' = registered
    /\ registered' = {}
    /\ reader' = "failing"
    /\ UNCHANGED <<callerVars, inbound, refusing, reply, delivering, readErr>>

CloseLockedForgetsWaiting ==
    /\ reader = "ended"
    /\ refusing' = TRUE
    /\ registered' = {}
    /\ reader' = "failing"
    /\ UNCHANGED <<callerVars, inbound, reply, delivering, failing, readErr>>

CloseLocked ==
    /\ reader = "ended"
    /\ refusing' = TRUE
    /\ failing' = registered
    /\ registered' = {}
    /\ reader' = "failing"
    /\ UNCHANGED <<callerVars, inbound, reply, delivering, readErr>>

CloseReply(c) ==
    /\ c \in failing
    /\ failing' = failing \ {c}
    /\ reply' = [reply EXCEPT ![c] = "closed"]
    /\ UNCHANGED <<callerVars, inbound, registered, refusing, reader, delivering, readErr>>

CloseDone ==
    /\ reader = "failing"
    /\ failing = {}
    /\ reader' = "done"
    /\ UNCHANGED <<callerVars, inbound, registered, refusing, reply, delivering, failing, readErr>>

-------------------------------------------------------------------------------
CallStep(c) ==
    \/ Add(c) \/ Write(c) \/ Receive(c) \/ ReceiveClosed(c)
    \/ ContextDone(c) \/ Forget(c) \/ ClosedErr(c)

LoopStep ==
    \/ DeliverLocked \/ DeliverSend \/ DispatchOther
    \/ CloseLocked \/ CloseDone
    \/ \E c \in Calls : CloseReply(c)

Next ==
    \/ PeerWrites
    \/ \E c \in Calls : Cancel(c) \/ CallStep(c)
    \/ LoopStep
    \/ StreamEnds

Spec == Init /\ [][Next]_vars

\* The callers' goroutines and the read loop are scheduled, and a write does
\* not block for ever: the peer reads its stdin or closes it.  Nothing makes
\* the peer answer, the stream end, a caller call or a ctx end.
FairSpec ==
    /\ Spec
    /\ \A c \in Calls :
          WF_vars(pc[c] # "start" /\ CallStep(c))
    /\ WF_vars(LoopStep)

-------------------------------------------------------------------------------
(* Properties.                                                             *)

TypeOK ==
    /\ pc \in [Calls -> CallStates]
    /\ outcome \in [Calls -> Outcomes]
    /\ cancelled \subseteq Calls
    /\ sent \subseteq Calls
    /\ inbound \in Seq(Messages)
    /\ registered \subseteq Calls
    /\ refusing \in BOOLEAN
    /\ reply \in [Calls -> {"none", "open", "full", "closed"}]
    /\ reader \in ReaderStates
    /\ delivering \in Calls \cup {NoCall}
    /\ failing \subseteq Calls
    /\ readErr \in {"none", "eof", "error"}

\* Deliver, Forget and Close never meet on one channel: a reply is sent only
\* on an empty open channel, so the read loop neither blocks nor panics, and
\* Close closes only open channels, each once.
ChannelsSafe ==
    /\ reader = "deliver" => delivering \in Calls /\ reply[delivering] = "open"
    /\ \A c \in failing : reply[c] = "open"

\* A call that returned has left the registry, whichever way it returned.
NoCallLeft == \A c \in registered : pc[c] # "returned"

\* Nothing waits in the registry once it refuses calls: a call is either in
\* time to be failed by Close or is refused.
NobodyStranded == reader = "done" =>
    \A c \in Calls : pc[c] = "wait" => reply[c] \in {"full", "closed"}

\* A reply the loop handed over is not turned into a connection error by the
\* stream ending before the caller is scheduled.
AnswerSurvivesClose ==
    \A c \in Calls : reply[c] = "full" => outcome[c] \notin {"closed", "closedReadError"}

\* Once the stream has ended every call made returns.
EveryCallReturns ==
    \A c \in Calls :
        (pc[c] # "start" /\ reader \in {"ended", "failing", "done"}) ~> pc[c] = "returned"

\* A call whose ctx ends returns, whatever the peer does.
CancelReturns ==
    \A c \in Calls : (pc[c] = "wait" /\ c \in cancelled) ~> pc[c] = "returned"

\* The registry is exact: a call in it is still out, and once it refuses calls
\* no call that is out is without an answer or a closed channel.
RegistryExact == NoCallLeft /\ NobodyStranded

\* Every call returns, by its own ctx or by the stream's end.
CallsReturn == EveryCallReturns /\ CancelReturns

\* Call's comment: "a stream that ends first as ErrClosed, wrapping the read
\* error if there was one".  It does not hold: see the README.
ReadErrorReported ==
    \A c \in Calls : outcome[c] = "closed" => readErr # "error"
===============================================================================
