-------------------------- MODULE CodexSession_proofs --------------------------
(***************************************************************************)
(* Proofs about CodexSession, for any number of approvals, tools, turns    *)
(* and messages on the wire: an approval is settled once and can be until  *)
(* then, the turn that runs is the active one, and an exit is told of      *)
(* truly.                                                                  *)
(***************************************************************************)
EXTENDS CodexSession, SequenceTheorems, TLAPS

-------------------------------------------------------------------------------
(* The parts of the inductive invariants.                                  *)

Wire == 1..Len(wire)

\* The send loop makes one call at a time, so at most one answer is on its way,
\* and none to a loop that has asked nothing.
IsAnswer(i) == wire[i].kind \in {"response", "refusal"}
OneAnswer ==
    /\ \A i, j \in Wire : IsAnswer(i) /\ IsAnswer(j) => i = j
    /\ asking # "nothing" => \A i \in Wire : ~IsAnswer(i)
    /\ sender \in {"idle", "refused", "answered"} =>
          asking = "nothing" /\ \A i \in Wire : ~IsAnswer(i)

\* Codex makes each request once, and says no more of it than that it made it
\* and withdrew it.
About(i, kind, r) == wire[i].kind = kind /\ wire[i].req = r
AskedOnce ==
    \A r \in Requests :
        /\ turnOf[r] = NoTurn =>
              /\ request[r] = "none" /\ r \notin outstanding
              /\ \A i \in Wire : ~About(i, "request", r) /\ ~About(i, "withdrawn", r)
        /\ request[r] # "none" => \A i \in Wire : ~About(i, "request", r)
        /\ \A i, j \in Wire : About(i, "request", r) /\ About(j, "request", r) => i = j

\* What codex has said to be over it waits on no more.
SaidOver ==
    /\ running <= ran
    /\ \A i \in Wire :
          /\ wire[i].kind = "completed" =>
                /\ wire[i].turn <= ran /\ wire[i].turn # running
                /\ \A r \in outstanding : turnOf[r] # wire[i].turn
          /\ wire[i].kind = "withdrawn" => wire[i].req \notin outstanding

\* The turn that runs is the last one to be said to have started.
StartedLast ==
    running # NoTurn =>
        \A i \in Wire : wire[i].kind = "started" =>
            \/ wire[i].turn = running
            \/ \E j \in Wire : j > i /\ wire[j].kind = "started" /\ wire[j].turn = running

\* An approval in the map is under its key and waits for an answer.
Unparked(r) == request[r] \in {"none", "spawned"}
InMap ==
    /\ \A k \in Keys, r \in Approvals :
          pending[k] = r =>
              /\ keyOf[r] = k /\ request[r] \in {"parked", "raised"}
              /\ resolved[r] = 0 /\ answer[r] = "none"
    /\ \A r \in Tools : r \in calls => request[r] = "running"
    /\ \A r \in Requests : Unparked(r) => answer[r] = "none"
    /\ \A r \in Approvals : Unparked(r) => resolved[r] = 0

\* A key that is not an item's alone names its approval.
OwnKey == \A r \in Approvals : keyOf[r] \in {<<item[r], Nobody>>, <<item[r], r>>}

ParkedIsReachable ==
    \A r \in Approvals :
        request[r] \in {"parked", "raised"} /\ answer[r] = "none" /\ stream # "done" =>
            pending[keyOf[r]] = r

\* The caller, watch and what they have done.
EndInv ==
    /\ watch \in {"waiting", "exited"} => exits = 0
    /\ watch \in {"quiet", "finished"} /\ ~closing => exits = 1
    /\ caller = "reaping" => closing
    /\ pumpEnded => closing \/ watch = "finished"
    /\ killed /\ watch # "finished" => caller = "killing" /\ ~closing
    /\ stream # "up" /\ ~closing => died
    /\ watch = "exited" => died
    /\ watch # "waiting" => stream = "done"
    /\ ExitToldTruly

RequestParts == InMap /\ OwnKey /\ ParkedIsReachable /\ ResolvedOnce

-------------------------------------------------------------------------------
(* The wire: what is written goes to its end, what is read comes off its   *)
(* front.                                                                  *)

LEMMA MessageFields ==
    /\ \A t : Response(t).kind = "response" /\ Response(t).turn = t
    /\ \A t : Started(t).kind = "started" /\ Started(t).turn = t
    /\ \A t : Completed(t).kind = "completed" /\ Completed(t).turn = t
    /\ \A r : Request(r).kind = "request" /\ Request(r).req = r
    /\ \A r : Withdrawn(r).kind = "withdrawn" /\ Withdrawn(r).req = r
    /\ Refusal.kind = "refusal"
BY DEF Response, Started, Completed, Request, Withdrawn, Refusal

LEMMA MessageTypes ==
    /\ \A t \in Turns : {Response(t), Started(t), Completed(t)} \subseteq Messages
    /\ \A r \in Requests : {Request(r), Withdrawn(r)} \subseteq Messages
    /\ Refusal \in Messages
BY DEF Messages

LEMMA SaysOne ==
    ASSUME wire \in Seq(Messages), NEW m \in Messages, Says(<<m>>)
    PROVE  /\ wire' \in Seq(Messages)
           /\ Wire' = Wire \cup {Len(wire) + 1} /\ Len(wire) + 1 \notin Wire
           /\ Len(wire) \in Nat /\ Wire \subseteq Nat
           /\ \A i \in Wire : wire'[i] = wire[i]
           /\ wire'[Len(wire) + 1] = m
<1>1. Len(wire) \in Nat /\ <<m>> \in Seq(Messages) /\ Len(<<m>>) = 1 /\ <<m>>[1] = m
    OBVIOUS
<1>2. wire' = wire \o <<m>>
    BY DEF Says
<1>3. /\ wire' \in Seq(Messages) /\ Len(wire') = Len(wire) + 1
      /\ \A i \in 1..(Len(wire) + 1) :
            wire'[i] = IF i <= Len(wire) THEN wire[i] ELSE <<m>>[i - Len(wire)]
    BY <1>1, <1>2, ConcatProperties
<1> QED BY <1>1, <1>3 DEF Wire

LEMMA SaysTwo ==
    ASSUME wire \in Seq(Messages), NEW m \in Messages, NEW n \in Messages, Says(<<m, n>>)
    PROVE  /\ wire' \in Seq(Messages)
           /\ Wire' = Wire \cup {Len(wire) + 1, Len(wire) + 2}
           /\ Len(wire) + 1 \notin Wire /\ Len(wire) + 2 \notin Wire
           /\ Len(wire) \in Nat /\ Wire \subseteq Nat
           /\ \A i \in Wire : wire'[i] = wire[i]
           /\ wire'[Len(wire) + 1] = m /\ wire'[Len(wire) + 2] = n
<1>1. /\ Len(wire) \in Nat /\ <<m, n>> \in Seq(Messages) /\ Len(<<m, n>>) = 2
      /\ <<m, n>>[1] = m /\ <<m, n>>[2] = n
    OBVIOUS
<1>2. wire' = wire \o <<m, n>>
    BY DEF Says
<1>3. /\ wire' \in Seq(Messages) /\ Len(wire') = Len(wire) + 2
      /\ \A i \in 1..(Len(wire) + 2) :
            wire'[i] = IF i <= Len(wire) THEN wire[i] ELSE <<m, n>>[i - Len(wire)]
    BY <1>1, <1>2, ConcatProperties
<1> QED BY <1>1, <1>3 DEF Wire

LEMMA ReadsOne ==
    ASSUME wire \in Seq(Messages), NEW m, Reads(m)
    PROVE  /\ wire' \in Seq(Messages)
           /\ 1 \in Wire /\ wire[1] = m
           /\ Wire \subseteq Nat /\ Wire' \subseteq Nat
           /\ \A i \in Wire' : i + 1 \in Wire /\ wire'[i] = wire[i + 1]
           /\ \A i \in Wire : i # 1 => i - 1 \in Wire' /\ wire[i] = wire'[i - 1]
<1>1. wire # <<>> /\ Head(wire) = m /\ wire' = Tail(wire)
    BY DEF Reads
<1>2. /\ Len(wire) \in Nat \ {0} /\ wire[1] = m /\ Len(wire') = Len(wire) - 1
      /\ wire' \in Seq(Messages)
    BY <1>1, EmptySeq, HeadTailProperties
<1>3. \A i \in 1..Len(wire') : wire'[i] = wire[i + 1]
    BY <1>1, <1>2, HeadTailProperties
<1> QED BY <1>2, <1>3 DEF Wire

-------------------------------------------------------------------------------
(* Types.  The send loop is answered only while it waits for an answer.    *)

LEMMA InitTypeOK == Init => TypeOK
<1> SUFFICES ASSUME Init PROVE TypeOK
    OBVIOUS
<1>1. ran \in 0..MaxTurns /\ accepted \in Nat /\ queued \in Nat /\ exits \in Nat
      /\ resolved \in [Approvals -> Nat] /\ wire \in Seq(Messages)
    BY BoundsAssumption, EmptySeq DEF Init
<1> QED BY <1>1, Zenon DEF Init, TypeOK

LEMMA CodexTypeOK ==
    TypeOK /\ (Codex \/ CompletesTurn \/ CodexExits \/ StreamDone) => TypeOK'
<1> SUFFICES ASSUME TypeOK, Codex \/ CompletesTurn \/ CodexExits \/ StreamDone PROVE TypeOK'
    OBVIOUS
<1> USE DEF TypeOK, sendVars, requestVars, endVars
<1>1. CASE StartsTurn
    <2>1. ran' \in Turns /\ ran' \in 0..MaxTurns
        BY <1>1, BoundsAssumption DEF StartsTurn, Turns
    <2>2. wire' \in Seq(Messages) /\ stream' \in {"up", "ending", "done"}
        BY <1>1, <2>1, MessageTypes, SaysTwo DEF StartsTurn
    <2> QED BY <1>1, <2>1, <2>2 DEF StartsTurn
<1>2. CASE AnswersSteer
    <2>1. running \in Turns
        BY <1>2 DEF AnswersSteer, SteerFits
    <2>2. wire' \in Seq(Messages)
        BY <1>2, <2>1, MessageTypes, SaysOne DEF AnswersSteer
    <2> QED BY <1>2, <2>2 DEF AnswersSteer
<1>3. CASE Refuses
    <2>1. wire' \in Seq(Messages)
        BY <1>3, MessageTypes, SaysOne DEF Refuses
    <2> QED BY <1>3, <2>1 DEF Refuses
<1>4. CASE CompletesTurn
    <2>1. wire' \in Seq(Messages)
        BY <1>4, MessageTypes, SaysOne DEF CompletesTurn
    <2> QED BY <1>4, <2>1 DEF CompletesTurn
<1>5. CASE CodexExits
    BY <1>5 DEF CodexExits
<1>6. CASE StreamDone
    BY <1>6 DEF StreamDone
<1> QED BY <1>1, <1>2, <1>3, <1>4, <1>5, <1>6 DEF Codex

LEMMA AsksTypeOK ==
    ASSUME TypeOK, NEW r \in Requests,
           (\E t \in Turns \cup {Child} : Asks(r, t)) \/ Withdraws(r)
    PROVE  TypeOK'
<1> USE DEF TypeOK, sendVars, requestVars, endVars
<1>1. ASSUME NEW t \in Turns \cup {Child}, Asks(r, t) PROVE TypeOK'
    <2>1. wire' \in Seq(Messages)
        BY <1>1, MessageTypes, SaysOne DEF Asks
    <2> QED BY <1>1, <2>1 DEF Asks
<1>2. CASE Withdraws(r)
    <2>1. wire' \in Seq(Messages)
        BY <1>2, MessageTypes, SaysOne DEF Withdraws
    <2> QED BY <1>2, <2>1 DEF Withdraws
<1> QED BY <1>1, <1>2

LEMMA SendTypeOK == TypeOK /\ (Prompt \/ Sender) => TypeOK'
<1> SUFFICES ASSUME TypeOK, Prompt \/ Sender PROVE TypeOK'
    OBVIOUS
<1> USE DEF TypeOK, codexVars, requestVars, endVars, Send
<1>1. CASE Prompt
    BY <1>1 DEF Prompt
<1>2. CASE SendRefused
    <2>1. queued' \in Nat BY <1>2 DEF SendRefused
    <2>2. refusedIdle' \in BOOLEAN BY <1>2, Zenon DEF SendRefused
    <2> QED BY <1>2, <2>1, <2>2 DEF SendRefused
<1>3. CASE SendSteers
    BY <1>3 DEF SendSteers
<1>4. CASE SendStarts
    <2>1. queued' \in Nat BY <1>4 DEF SendStarts
    <2> QED BY <1>4, <2>1 DEF SendStarts
<1>5. CASE SendApplies
    BY <1>5 DEF SendApplies
<1>6. CASE SendStops
    BY <1>6 DEF SendStops
<1> QED BY <1>1, <1>2, <1>3, <1>4, <1>5, <1>6 DEF Sender

\* What withdraw does keeps the types of what it touches.
LEMMA WithdrawTypes ==
    ASSUME TypeOK, NEW rs, Withdraw(rs)
    PROVE  /\ pending' \in [Keys -> Approvals \cup {Nobody}]
           /\ answer' \in [Requests -> {"none", "decided", "cancelled"}]
           /\ shown' \in [Approvals -> {"none", "required", "resolved"}]
           /\ resolved' \in [Approvals -> Nat]
<1>1. pending' \in [Keys -> Approvals \cup {Nobody}]
    BY DEF TypeOK, Withdraw, Remove
<1>2. answer' \in [Requests -> {"none", "decided", "cancelled"}]
    BY DEF TypeOK, Withdraw, Settle
<1>3. shown' \in [Approvals -> {"none", "required", "resolved"}]
    BY DEF TypeOK, Withdraw, Resolved, Show
<1>4. resolved' \in [Approvals -> Nat]
    BY DEF TypeOK, Withdraw, Resolved
<1> QED BY <1>1, <1>2, <1>3, <1>4

LEMMA ReadTypeOK == TypeOK /\ OneAnswer /\ ReadLoop => TypeOK'
<1> SUFFICES ASSUME TypeOK, OneAnswer, ReadLoop PROVE TypeOK'
    OBVIOUS
<1> USE DEF TypeOK, sendVars, requestVars, endVars
<1>1. ASSUME NEW m, Reads(m)
      PROVE  /\ wire' \in Seq(Messages)
             /\ UNCHANGED <<stream, running, ran, asking, outstanding, turnOf, died>>
    BY <1>1, ReadsOne DEF Reads
<1>2. ASSUME NEW m, Reads(m), m.kind \in {"response", "refusal"}
      PROVE  sender \in {"starting", "steering", "stopped"}
    BY <1>2, ReadsOne DEF OneAnswer, IsAnswer
<1>3. ASSUME NEW t \in Turns, ReadResponse(t) PROVE TypeOK'
    <2>1. sender \in {"starting", "steering", "stopped"} /\ wire' \in Seq(Messages)
        BY <1>1, <1>2, <1>3, MessageFields DEF ReadResponse
    <2>2. /\ sender' \in {"idle", "steering", "refused", "starting", "answered", "stopped"}
          /\ sending' \in Turns \cup {NoTurn}
        BY <1>3, <2>1 DEF ReadResponse
    <2> QED BY <1>3, <2>1, <2>2 DEF ReadResponse, Reads
<1>4. CASE ReadRefusal
    <2>1. sender \in {"starting", "steering", "stopped"} /\ wire' \in Seq(Messages)
        BY <1>1, <1>2, <1>4, MessageFields DEF ReadRefusal
    <2> QED BY <1>4, <2>1 DEF ReadRefusal, Reads
<1>5. ASSUME NEW t \in Turns, ReadStarted(t) PROVE TypeOK'
    <2>1. wire' \in Seq(Messages) BY <1>1, <1>5 DEF ReadStarted
    <2> QED BY <1>5, <2>1 DEF ReadStarted, Reads
<1>6. ASSUME NEW t \in Turns, ReadCompleted(t) PROVE TypeOK'
    <2>1. wire' \in Seq(Messages) BY <1>1, <1>6 DEF ReadCompleted
    <2> QED BY <1>6, <2>1, WithdrawTypes DEF ReadCompleted, Reads
<1>7. ASSUME NEW r \in Requests, ReadRequest(r) PROVE TypeOK'
    <2>1. wire' \in Seq(Messages) BY <1>1, <1>7 DEF ReadRequest
    <2> QED BY <1>7, <2>1 DEF ReadRequest, Reads
<1>8. ASSUME NEW r \in Requests, ReadWithdrawn(r) PROVE TypeOK'
    <2>1. wire' \in Seq(Messages) BY <1>1, <1>8 DEF ReadWithdrawn
    <2>2. CASE turnOf[r] # Child
        BY <1>8, <2>1, <2>2, WithdrawTypes DEF ReadWithdrawn, Reads
    <2>3. CASE turnOf[r] = Child
        BY <1>8, <2>1, <2>3 DEF ReadWithdrawn, Reads, TypeOK, sendVars, requestVars, endVars
    <2> QED BY <2>2, <2>3
<1> QED BY <1>3, <1>4, <1>5, <1>6, <1>7, <1>8 DEF ReadLoop

LEMMA GoroutineTypeOK ==
    ASSUME TypeOK, NEW r \in Requests, Goroutine(r) \/ (r \in Tools /\ ToolReturns(r))
    PROVE  TypeOK'
<1> USE DEF TypeOK, codexVars, sendVars, endVars, Goes
<1>1. CASE RefuseWhenClosing(r)
    BY <1>1 DEF RefuseWhenClosing
<1>2. CASE r \in Approvals /\ Park(r)
    <2>1. PICK k \in Keys : pending' = [pending EXCEPT ![k] = r] /\ keyOf' = [keyOf EXCEPT ![r] = k]
        BY <1>2 DEF Park, Keys
    <2>2. pending' \in [Keys -> Approvals \cup {Nobody}] /\ keyOf' \in [Approvals -> Keys]
        BY <1>2, <2>1
    <2>3. request' \in [Requests -> {"none", "spawned", "parked", "raised", "running", "replied"}]
        BY <1>2 DEF Park
    <2> QED BY <1>2, <2>2, <2>3 DEF Park
<1>3. CASE r \in Approvals /\ Raise(r)
    BY <1>3 DEF Raise, Show
<1>4. CASE r \in Approvals /\ TakeAnswer(r)
    BY <1>4 DEF TakeAnswer
<1>5. CASE r \in Approvals /\ GiveUp(r)
    BY <1>5 DEF GiveUp
<1>6. CASE r \in Tools /\ RunTool(r)
    BY <1>6 DEF RunTool
<1>7. CASE r \in Tools /\ (ToolCancelled(r) \/ ToolReturns(r))
    <2>1. ToolReturns(r)
        BY <1>7 DEF ToolCancelled
    <2> QED BY <1>7, <2>1 DEF ToolReturns
<1> QED BY <1>1, <1>2, <1>3, <1>4, <1>5, <1>6, <1>7 DEF Goroutine

LEMMA EndingTypeOK ==
    TypeOK /\ ((\E k \in Keys : Resolve(k)) \/ CallClose \/ CallKill \/ Ending) => TypeOK'
<1> SUFFICES ASSUME TypeOK, (\E k \in Keys : Resolve(k)) \/ CallClose \/ CallKill \/ Ending
             PROVE  TypeOK'
    OBVIOUS
<1> USE DEF TypeOK, codexVars, sendVars, requestVars, endVars
<1>1. ASSUME NEW k \in Keys, Resolve(k) PROVE TypeOK'
    <2> DEFINE rs == {pending[k]}
    <2>1. pending' \in [Keys -> Approvals \cup {Nobody}]
        BY <1>1 DEF Resolve, Remove
    <2>2. answer' \in [Requests -> {"none", "decided", "cancelled"}]
        BY <1>1 DEF Resolve, Settle
    <2>3. shown' \in [Approvals -> {"none", "required", "resolved"}]
        BY <1>1 DEF Resolve, Resolved, Show
    <2>4. resolved' \in [Approvals -> Nat]
        BY <1>1 DEF Resolve, Resolved
    <2> QED BY <1>1, <2>1, <2>2, <2>3, <2>4 DEF Resolve
<1>2. CASE CallClose BY <1>2 DEF CallClose
<1>3. CASE CallKill
    <2>1. died' \in BOOLEAN /\ killed' \in BOOLEAN
        BY <1>3, Zenon DEF CallKill
    <2> QED BY <1>3, <2>1 DEF CallKill
<1>4. CASE KillWaits BY <1>4 DEF KillWaits
<1>5. CASE Shutdown
    <2>1. answer' \in [Requests -> {"none", "decided", "cancelled"}]
        BY <1>5 DEF Shutdown, Settle
    <2> QED BY <1>5, <2>1 DEF Shutdown
<1>6. CASE Reaped BY <1>6 DEF Reaped
<1>7. CASE WatchWakes
    <2>1. answer' \in [Requests -> {"none", "decided", "cancelled"}]
        BY <1>7 DEF WatchWakes, Settle
    <2> QED BY <1>7, <2>1 DEF WatchWakes
<1>8. CASE WatchReports BY <1>8 DEF WatchReports
<1>9. CASE WatchEnds BY <1>9 DEF WatchEnds
<1> QED BY <1>1, <1>2, <1>3, <1>4, <1>5, <1>6, <1>7, <1>8, <1>9 DEF Ending

LEMMA NextTypeOK == TypeOK /\ OneAnswer /\ [Next]_vars => TypeOK'
<1> SUFFICES ASSUME TypeOK, OneAnswer, [Next]_vars PROVE TypeOK'
    OBVIOUS
<1>1. CASE UNCHANGED vars
    BY <1>1 DEF TypeOK, vars, codexVars, sendVars, requestVars, endVars
<1>2. \A r \in Tools : r \in Requests
    BY DEF Requests
<1> QED
    BY <1>1, <1>2, CodexTypeOK, AsksTypeOK, SendTypeOK, ReadTypeOK, GoroutineTypeOK, EndingTypeOK
       DEF Next

-------------------------------------------------------------------------------
(* What is on the wire.                                                    *)

\* Codex starts a turn: two messages, in either order.
StartsTurnAdds(k, l) ==
    /\ ran' \in Turns /\ Wire' = Wire \cup {k, l} /\ {k, l} \cup Wire \subseteq Nat
    /\ k \notin Wire /\ l \notin Wire
    /\ \A i \in Wire : i < k /\ i < l /\ wire'[i] = wire[i]
    /\ wire'[k] = Response(ran') /\ wire'[l] = Started(ran')

LEMMA StartsTurnWire ==
    TypeOK /\ StartsTurn => \E k, l \in Nat : StartsTurnAdds(k, l)
<1> SUFFICES ASSUME TypeOK, StartsTurn PROVE \E k, l \in Nat : StartsTurnAdds(k, l)
    OBVIOUS
<1>1. ran' \in Turns /\ Response(ran') \in Messages /\ Started(ran') \in Messages
    BY BoundsAssumption, MessageTypes DEF StartsTurn, Turns, TypeOK
<1>2. \A i \in Wire : i <= Len(wire)
    BY DEF Wire
<1>3. CASE Says(<<Response(ran'), Started(ran')>>)
    <2>1. StartsTurnAdds(Len(wire) + 1, Len(wire) + 2)
        BY <1>1, <1>2, <1>3, SaysTwo DEF TypeOK, StartsTurnAdds
    <2> QED BY <2>1, <1>1, <1>3, SaysTwo DEF TypeOK
<1>4. CASE Says(<<Started(ran'), Response(ran')>>)
    <2>1. StartsTurnAdds(Len(wire) + 2, Len(wire) + 1)
        BY <1>1, <1>2, <1>4, SaysTwo DEF TypeOK, StartsTurnAdds
    <2> QED BY <2>1, <1>1, <1>4, SaysTwo DEF TypeOK
<1> QED BY <1>3, <1>4 DEF StartsTurn

LEMMA InitOneAnswer == Init => OneAnswer
BY DEF Init, OneAnswer, Wire

\* A message codex adds keeps the answers single: it is none, or it is the one
\* that was asked for.
LEMMA SaysOneAnswer ==
    ASSUME TypeOK, OneAnswer, NEW m \in Messages, Says(<<m>>), UNCHANGED sender,
           \/ m.kind \notin {"response", "refusal"} /\ asking' = asking
           \/ asking # "nothing" /\ asking' = "nothing"
    PROVE  OneAnswer'
<1>0. PICK n \in Nat : n = Len(wire) + 1
    BY SaysOne DEF TypeOK
<1>1. /\ Wire' = Wire \cup {n} /\ n \notin Wire
      /\ \A i \in Wire : IsAnswer(i)' <=> IsAnswer(i)
      /\ IsAnswer(n)' <=> m.kind \in {"response", "refusal"}
    BY <1>0, SaysOne DEF TypeOK, IsAnswer
<1>2. CASE m.kind \notin {"response", "refusal"} /\ asking' = asking
    BY <1>1, <1>2 DEF OneAnswer
<1>3. CASE asking # "nothing" /\ asking' = "nothing"
    BY <1>1, <1>3 DEF OneAnswer
<1> QED BY <1>2, <1>3

LEMMA ReadsOneAnswer ==
    ASSUME TypeOK, OneAnswer, NEW m, Reads(m),
           sender' = sender \/ m.kind \in {"response", "refusal"}
    PROVE  OneAnswer'
<1>1. asking' = asking
    BY DEF Reads
<1>2. CASE m.kind \in {"response", "refusal"}
    <2>1. 1 \in Wire /\ IsAnswer(1)
        BY <1>2, ReadsOne DEF TypeOK, IsAnswer
    <2>2. \A i \in Wire' : i \in Nat /\ i + 1 \in Wire /\ (IsAnswer(i)' => IsAnswer(i + 1))
        BY ReadsOne DEF TypeOK, IsAnswer
    <2>3. \A i \in Wire' : ~IsAnswer(i)'
        <3> SUFFICES ASSUME NEW i \in Wire', IsAnswer(i)' PROVE FALSE
            OBVIOUS
        <3>1. i + 1 = 1 BY <2>1, <2>2 DEF OneAnswer
        <3>2. i = 0 /\ i \in Wire' BY <2>2, <3>1
        <3> QED BY <3>2 DEF Wire
    <2> QED BY <1>1, <2>1, <2>3 DEF OneAnswer
<1>3. CASE sender' = sender
    <2>1. \A i \in Wire' : i + 1 \in Wire /\ (IsAnswer(i)' => IsAnswer(i + 1))
        BY ReadsOne DEF TypeOK, IsAnswer
    <2>2. \A i, j \in Wire' : IsAnswer(i)' /\ IsAnswer(j)' => i = j
        <3> SUFFICES ASSUME NEW i \in Wire', NEW j \in Wire', IsAnswer(i)', IsAnswer(j)'
                     PROVE  i = j
            OBVIOUS
        <3>1. i + 1 = j + 1
            BY <2>1 DEF OneAnswer
        <3>2. i \in Nat /\ j \in Nat
            BY ReadsOne DEF TypeOK
        <3> QED BY <3>1, <3>2
    <2> QED BY <1>1, <1>3, <2>1, <2>2 DEF OneAnswer
<1> QED BY <1>2, <1>3

LEMMA NextOneAnswer == TypeOK /\ OneAnswer /\ [Next]_vars => OneAnswer'
<1> SUFFICES ASSUME TypeOK, OneAnswer, [Next]_vars PROVE OneAnswer'
    OBVIOUS
<1>1. CASE UNCHANGED <<wire, asking, sender>>
    BY <1>1 DEF OneAnswer, IsAnswer, Wire
<1>2. CASE StartsTurn
    <2>1. /\ sender \notin {"idle", "refused", "answered"} /\ UNCHANGED sender
          /\ asking' = "nothing" /\ \A i \in Wire : ~IsAnswer(i)
        BY <1>2 DEF StartsTurn, OneAnswer, sendVars
    <2>2. PICK k \in Nat, l \in Nat : StartsTurnAdds(k, l)
        BY <1>2, StartsTurnWire
    <2>3. ~IsAnswer(l)' /\ \A i \in Wire : ~IsAnswer(i)'
        BY <2>1, <2>2, MessageFields DEF StartsTurnAdds, IsAnswer
    <2> QED BY <2>1, <2>2, <2>3 DEF StartsTurnAdds, OneAnswer
<1>3. CASE AnswersSteer
    <2>1. running \in Turns
        BY <1>3 DEF AnswersSteer, SteerFits, TypeOK
    <2> QED
        BY <1>3, <2>1, SaysOneAnswer, MessageTypes DEF AnswersSteer, sendVars
<1>4. CASE Refuses
    BY <1>4, SaysOneAnswer, MessageTypes DEF Refuses, sendVars
<1>5. CASE CompletesTurn
    <2>1. running \in Turns
        BY <1>5 DEF CompletesTurn, TypeOK
    <2> QED
        BY <1>5, <2>1, SaysOneAnswer, MessageTypes, MessageFields DEF CompletesTurn, sendVars
<1>6. ASSUME NEW r \in Requests, NEW t, Asks(r, t) PROVE OneAnswer'
    BY <1>6, SaysOneAnswer, MessageTypes, MessageFields DEF Asks, sendVars
<1>7. ASSUME NEW r \in Requests, Withdraws(r) PROVE OneAnswer'
    BY <1>7, SaysOneAnswer, MessageTypes, MessageFields DEF Withdraws, sendVars
<1>8. CASE Sender
    BY <1>8 DEF Sender, SendRefused, SendSteers, SendStarts, SendApplies, SendStops, Send,
          codexVars, OneAnswer, IsAnswer, Wire, TypeOK
<1>9. CASE ReadLoop
    BY <1>9, ReadsOneAnswer, MessageFields DEF ReadLoop, ReadResponse, ReadStarted, ReadCompleted,
          ReadRequest, ReadWithdrawn, ReadRefusal, sendVars
<1>10. CASE CodexExits \/ StreamDone \/ Prompt \/ CallClose \/ CallKill \/ Ending
            \/ \E k \in Keys : Resolve(k)
    BY <1>1, <1>10 DEF CodexExits, StreamDone, Prompt, CallClose, CallKill, Ending, KillWaits,
          Shutdown, Reaped, WatchWakes, WatchReports, WatchEnds, Resolve, codexVars, sendVars
<1>11. CASE \E r \in Requests : Goroutine(r) \/ ToolReturns(r)
    BY <1>1, <1>11 DEF Goroutine, RefuseWhenClosing, Park, Raise, TakeAnswer, GiveUp, RunTool,
          ToolCancelled, ToolReturns, codexVars, sendVars
<1>12. CASE UNCHANGED vars
    BY <1>1, <1>12 DEF vars, codexVars, sendVars
<1> QED
    BY <1>2, <1>3, <1>4, <1>5, <1>6, <1>7, <1>8, <1>9, <1>10, <1>11, <1>12
       DEF Next, Codex, Requests

\* Every variable keeps its type: above all, no answer of codex reaches a send
\* loop that waits for none.
THEOREM TypeCorrect == Spec => []TypeOK
BY InitTypeOK, NextTypeOK, InitOneAnswer, NextOneAnswer, PTL DEF Spec

-------------------------------------------------------------------------------
(* Requests are made once, and what is over is waited on no more.          *)

LEMMA InitAskedOnce == Init => AskedOnce
BY DEF Init, AskedOnce, Wire

\* A step that writes no request, and asks for none.
LEMMA KeepsAskedOnce ==
    ASSUME AskedOnce, outstanding' \subseteq outstanding, UNCHANGED turnOf,
           \A r \in Requests : request[r] = "none" <=> request'[r] = "none",
           \A i \in Wire', r \in Requests : \A kind \in {"request", "withdrawn"} :
               About(i, kind, r)' => i \in Wire /\ About(i, kind, r)
    PROVE  AskedOnce'
BY DEF AskedOnce

LEMMA SaysKeepsAbout ==
    ASSUME TypeOK, NEW m \in Messages, Says(<<m>>), m.kind \notin {"request", "withdrawn"}
    PROVE  \A i \in Wire', r \in Requests : \A kind \in {"request", "withdrawn"} :
               About(i, kind, r)' => i \in Wire /\ About(i, kind, r)
BY SaysOne DEF TypeOK, About

LEMMA AsksAskedOnce ==
    ASSUME TypeOK, AskedOnce, NEW r \in Requests, NEW t \in Turns \cup {Child}, Asks(r, t)
    PROVE  AskedOnce'
<1>1. PICK k \in Nat : k = Len(wire) + 1
    BY DEF TypeOK
<1>2. /\ Wire' = Wire \cup {k} /\ k \notin Wire
      /\ \A i \in Wire, kind \in {"request", "withdrawn"}, q \in Requests :
            About(i, kind, q)' <=> About(i, kind, q)
      /\ \A q \in Requests : ~About(k, "withdrawn", q)' /\ (About(k, "request", q)' <=> q = r)
    BY <1>1, SaysOne, MessageTypes, MessageFields DEF Asks, TypeOK, About
<1>3. /\ t # NoTurn /\ turnOf[r] = NoTurn /\ turnOf' = [turnOf EXCEPT ![r] = t]
      /\ outstanding' = outstanding \cup {r} /\ request' = request
    BY BoundsAssumption DEF Asks, Turns, Child, NoTurn, requestVars
<1>4. request[r] = "none" /\ \A i \in Wire : ~About(i, "request", r)
    BY <1>3 DEF AskedOnce
<1> QED BY <1>2, <1>3, <1>4 DEF AskedOnce, TypeOK

LEMMA WithdrawsAskedOnce ==
    ASSUME TypeOK, AskedOnce, NEW r \in Requests, Withdraws(r)
    PROVE  AskedOnce'
<1>1. PICK k \in Nat : k = Len(wire) + 1
    BY DEF TypeOK
<1>2. /\ Wire' = Wire \cup {k} /\ k \notin Wire
      /\ \A i \in Wire, kind \in {"request", "withdrawn"}, q \in Requests :
            About(i, kind, q)' <=> About(i, kind, q)
      /\ \A q \in Requests : ~About(k, "request", q)' /\ (About(k, "withdrawn", q)' <=> q = r)
    BY <1>1, SaysOne, MessageTypes, MessageFields DEF Withdraws, TypeOK, About
<1>3. /\ turnOf[r] # NoTurn /\ outstanding' \subseteq outstanding
      /\ UNCHANGED <<turnOf, request>>
    BY DEF Withdraws, AskedOnce, requestVars
<1> QED BY <1>2, <1>3 DEF AskedOnce, TypeOK

LEMMA ReadAskedOnce == TypeOK /\ AskedOnce /\ ReadLoop => AskedOnce'
<1> SUFFICES ASSUME TypeOK, AskedOnce, ReadLoop PROVE AskedOnce'
    OBVIOUS
<1>1. PICK m : Reads(m)
    BY DEF ReadLoop, ReadResponse, ReadStarted, ReadCompleted, ReadRequest, ReadWithdrawn,
           ReadRefusal
<1>2. /\ \A i \in Wire' : i \in Nat /\ i # 0 /\ i + 1 \in Wire
      /\ \A i \in Wire', kind \in {"request", "withdrawn"}, r \in Requests :
            About(i, kind, r)' => About(i + 1, kind, r)
      /\ UNCHANGED <<turnOf, outstanding>>
    BY <1>1, ReadsOne DEF TypeOK, About, Reads, Wire
<1>3. ASSUME NEW r \in Requests
      PROVE  \A i, j \in Wire' : About(i, "request", r)' /\ About(j, "request", r)' => i = j
    <2> SUFFICES ASSUME NEW i \in Wire', NEW j \in Wire', About(i, "request", r)',
                        About(j, "request", r)'
                 PROVE  i = j
        OBVIOUS
    <2>1. i + 1 = j + 1
        BY <1>2 DEF AskedOnce
    <2> QED BY <1>2, <2>1
<1>4. CASE UNCHANGED request
    BY <1>2, <1>3, <1>4 DEF AskedOnce
<1>5. ASSUME NEW r \in Requests, ReadRequest(r) PROVE AskedOnce'
    <2>1. 1 \in Wire /\ About(1, "request", r)
        BY <1>5, ReadsOne, MessageFields DEF ReadRequest, TypeOK, About
    <2>2. \A i \in Wire' : ~About(i, "request", r)'
        <3> SUFFICES ASSUME NEW i \in Wire', About(i, "request", r)' PROVE FALSE
            OBVIOUS
        <3>1. i + 1 = 1
            BY <1>2, <2>1 DEF AskedOnce
        <3> QED BY <1>2, <3>1
    <2>3. turnOf[r] # NoTurn
        BY <2>1 DEF AskedOnce
    <2>4. request' = [request EXCEPT ![r] = "spawned"]
        BY <1>5 DEF ReadRequest
    <2> QED BY <1>2, <1>3, <2>2, <2>3, <2>4 DEF AskedOnce, TypeOK
<1> QED
    BY <1>4, <1>5 DEF ReadLoop, ReadResponse, ReadStarted, ReadCompleted, ReadWithdrawn,
          ReadRefusal, requestVars

LEMMA NextAskedOnce == TypeOK /\ AskedOnce /\ [Next]_vars => AskedOnce'
<1> SUFFICES ASSUME TypeOK, AskedOnce, [Next]_vars PROVE AskedOnce'
    OBVIOUS
<1>1. CASE UNCHANGED <<wire, outstanding, turnOf, request>>
    BY <1>1 DEF AskedOnce, About, Wire
<1>2. CASE StartsTurn
    <2>1. PICK k \in Nat, l \in Nat : StartsTurnAdds(k, l)
        BY <1>2, StartsTurnWire
    <2>2. \A i \in Wire', r \in Requests : \A kind \in {"request", "withdrawn"} :
              About(i, kind, r)' => i \in Wire /\ About(i, kind, r)
        BY <2>1, MessageFields DEF StartsTurnAdds, About
    <2> QED BY <1>2, <2>2, KeepsAskedOnce DEF StartsTurn, requestVars
<1>3. CASE AnswersSteer
    <2>1. running \in Turns
        BY <1>3 DEF AnswersSteer, SteerFits, TypeOK
    <2>2. Says(<<Response(running)>>) /\ Response(running) \in Messages
          /\ Response(running).kind = "response" /\ UNCHANGED <<outstanding, turnOf, request>>
        BY <1>3, <2>1, MessageTypes, MessageFields DEF AnswersSteer, requestVars
    <2> QED BY <2>2, SaysKeepsAbout, KeepsAskedOnce
<1>4. CASE Refuses
    <2>1. Says(<<Refusal>>) /\ Refusal \in Messages /\ Refusal.kind = "refusal"
          /\ UNCHANGED <<outstanding, turnOf, request>>
        BY <1>4, MessageTypes, MessageFields DEF Refuses, requestVars
    <2> QED BY <2>1, SaysKeepsAbout, KeepsAskedOnce
<1>5. CASE CompletesTurn
    <2>1. Says(<<Completed(running)>>) /\ Completed(running) \in Messages
          /\ Completed(running).kind = "completed" /\ outstanding' \subseteq outstanding
          /\ UNCHANGED <<turnOf, request>>
        BY <1>5, MessageTypes, MessageFields DEF CompletesTurn, requestVars, TypeOK
    <2> QED BY <2>1, SaysKeepsAbout, KeepsAskedOnce
<1>6. CASE CodexExits \/ StreamDone \/ Prompt \/ Sender \/ CallClose \/ CallKill \/ Ending
           \/ (\E k \in Keys : Resolve(k)) \/ UNCHANGED vars
    BY <1>1, <1>6 DEF CodexExits, StreamDone, Prompt, Sender, SendRefused, SendSteers, SendStarts,
          SendApplies, SendStops, CallClose, CallKill, Ending, KillWaits, Shutdown, Reaped,
          WatchWakes, WatchReports, WatchEnds, Resolve, vars, codexVars, sendVars, requestVars
<1>7. ASSUME NEW r \in Requests, Goroutine(r) \/ ToolReturns(r) PROVE AskedOnce'
    <2>1. /\ request[r] # "none" /\ \E to \in {"replied", "parked", "raised", "running"} :
                                      request' = [request EXCEPT ![r] = to]
          /\ outstanding' \subseteq outstanding /\ UNCHANGED <<wire, turnOf>>
        BY <1>7 DEF Goroutine, RefuseWhenClosing, Park, Raise, TakeAnswer, GiveUp, RunTool,
              ToolCancelled, ToolReturns, Goes, codexVars
    <2>2. \A q \in Requests : request[q] = "none" <=> request'[q] = "none"
        BY <2>1 DEF TypeOK
    <2> QED BY <2>1, <2>2, KeepsAskedOnce DEF About, Wire
<1> QED
    BY <1>2, <1>3, <1>4, <1>5, <1>6, <1>7, AsksAskedOnce, WithdrawsAskedOnce, ReadAskedOnce
       DEF Next, Codex, Requests

LEMMA TurnsOnWire ==
    /\ \A m \in Messages : m.kind \in {"started", "completed"} => m.turn \in Turns
    /\ \A m \in Messages : m.kind = "started" => m = Started(m.turn)
BY DEF Messages, Response, Started, Completed, Request, Withdrawn, Refusal

LEMMA InitSaidOver == Init => SaidOver
BY DEF Init, SaidOver, Wire, NoTurn

\* A step that neither starts a turn nor asks for anything, and adds nothing to
\* the wire that says what is over.
LEMMA KeepsSaidOver ==
    ASSUME SaidOver, UNCHANGED <<running, ran, turnOf>>, outstanding' \subseteq outstanding,
           \A i \in Wire' : \/ wire'[i].kind \notin {"completed", "withdrawn"}
                            \/ \E j \in Wire : wire'[i] = wire[j]
    PROVE  SaidOver'
BY DEF SaidOver

LEMMA SaysSaidOver ==
    ASSUME TypeOK, SaidOver, NEW m \in Messages, Says(<<m>>),
           m.kind \notin {"completed", "withdrawn"},
           UNCHANGED <<running, ran, turnOf, outstanding>>
    PROVE  SaidOver'
<1>1. \A i \in Wire' : \/ wire'[i].kind \notin {"completed", "withdrawn"}
                       \/ \E j \in Wire : wire'[i] = wire[j]
    BY SaysOne DEF TypeOK
<1> QED BY <1>1, KeepsSaidOver

LEMMA NextSaidOver == TypeOK /\ AskedOnce /\ SaidOver /\ [Next]_vars => SaidOver'
<1> SUFFICES ASSUME TypeOK, AskedOnce, SaidOver, [Next]_vars PROVE SaidOver'
    OBVIOUS
<1>1. CASE UNCHANGED <<wire, outstanding, turnOf, running, ran>>
    BY <1>1 DEF SaidOver, Wire
<1>2. CASE StartsTurn
    <2>1. PICK k \in Nat, l \in Nat : StartsTurnAdds(k, l)
        BY <1>2, StartsTurnWire
    <2>2. /\ ran' = ran + 1 /\ running' = ran' /\ ran \in Nat
          /\ UNCHANGED <<outstanding, turnOf>>
        BY <1>2 DEF StartsTurn, TypeOK
    <2>3. \A i \in Wire : wire[i].kind = "completed" => wire[i].turn \in Nat
        BY TurnsOnWire, ElementOfSeq DEF Wire, Turns, TypeOK
    <2>4. \A i \in Wire' : \/ i \in Wire /\ wire'[i] = wire[i]
                           \/ wire'[i].kind \in {"response", "started"}
        BY <2>1, MessageFields DEF StartsTurnAdds
    <2> QED BY <2>2, <2>3, <2>4 DEF SaidOver
<1>3. CASE AnswersSteer
    <2>1. running \in Turns
        BY <1>3 DEF AnswersSteer, SteerFits, TypeOK
    <2> QED BY <1>3, <2>1, SaysSaidOver, MessageTypes, MessageFields DEF AnswersSteer
<1>4. CASE Refuses
    BY <1>4, SaysSaidOver, MessageTypes, MessageFields DEF Refuses
<1>5. CASE CompletesTurn
    <2>1. PICK k \in Nat : k = Len(wire) + 1
        BY DEF TypeOK
    <2>2. /\ running \in Turns /\ running' = NoTurn /\ UNCHANGED <<ran, turnOf>>
          /\ outstanding' = {r \in outstanding : turnOf[r] # running}
        BY <1>5 DEF CompletesTurn, TypeOK
    <2>3. /\ Wire' = Wire \cup {k} /\ \A i \in Wire : wire'[i] = wire[i]
          /\ wire'[k].kind = "completed" /\ wire'[k].turn = running
        BY <1>5, <2>1, <2>2, SaysOne, MessageTypes, MessageFields DEF CompletesTurn, TypeOK
    <2>4. \A i \in Wire : wire[i].kind = "completed" => wire[i].turn # NoTurn
        BY TurnsOnWire, ElementOfSeq DEF Wire, Turns, TypeOK, NoTurn
    <2>5. running # NoTurn /\ NoTurn <= ran
        BY <2>2 DEF Turns, NoTurn, TypeOK
    <2> QED BY <2>2, <2>3, <2>4, <2>5 DEF SaidOver
<1>6. ASSUME NEW r \in Requests, NEW t \in Turns \cup {Child}, Asks(r, t) PROVE SaidOver'
    <2>1. PICK k \in Nat : k = Len(wire) + 1
        BY DEF TypeOK
    <2>2. /\ t \in {running, Child} /\ turnOf[r] = NoTurn
          /\ turnOf' = [turnOf EXCEPT ![r] = t] /\ outstanding' = outstanding \cup {r}
          /\ UNCHANGED <<running, ran>>
        BY <1>6 DEF Asks
    <2>3. /\ Wire' = Wire \cup {k} /\ \A i \in Wire : wire'[i] = wire[i]
          /\ wire'[k].kind = "request"
        BY <1>6, <2>1, SaysOne, MessageTypes, MessageFields DEF Asks, TypeOK
    <2>4. \A i \in Wire :
              /\ wire[i].kind = "completed" => wire[i].turn # t
              /\ wire[i].kind = "withdrawn" => wire[i].req # r
        <3>1. ASSUME NEW i \in Wire, wire[i].kind = "completed" PROVE wire[i].turn # t
            <4>1. wire[i].turn \in Nat /\ wire[i].turn <= ran /\ wire[i].turn # running
                BY <3>1, TurnsOnWire, ElementOfSeq DEF Wire, Turns, TypeOK, SaidOver
            <4>2. ran \in Nat /\ ran < Child
                BY BoundsAssumption DEF TypeOK, Child
            <4> QED BY <2>2, <4>1, <4>2
        <3>2. ASSUME NEW i \in Wire, wire[i].kind = "withdrawn" PROVE wire[i].req # r
            BY <2>2, <3>2 DEF AskedOnce, About
        <3> QED BY <3>1, <3>2
    <2>5. \A q \in outstanding' : turnOf'[q] = t \/ (q \in outstanding /\ turnOf'[q] = turnOf[q])
        BY <2>2 DEF TypeOK
    <2> QED BY <2>2, <2>3, <2>4, <2>5 DEF SaidOver
<1>7. ASSUME NEW r \in Requests, Withdraws(r) PROVE SaidOver'
    <2>1. PICK k \in Nat : k = Len(wire) + 1
        BY DEF TypeOK
    <2>2. /\ Wire' = Wire \cup {k} /\ \A i \in Wire : wire'[i] = wire[i]
          /\ wire'[k].kind = "withdrawn" /\ wire'[k].req = r
        BY <1>7, <2>1, SaysOne, MessageTypes, MessageFields DEF Withdraws, TypeOK
    <2>3. outstanding' = outstanding \ {r} /\ UNCHANGED <<running, ran, turnOf>>
        BY <1>7 DEF Withdraws
    <2> QED BY <2>2, <2>3 DEF SaidOver
<1>8. CASE ReadLoop
    <2>1. PICK m : Reads(m)
        BY <1>8 DEF ReadLoop, ReadResponse, ReadStarted, ReadCompleted, ReadRequest, ReadWithdrawn,
              ReadRefusal
    <2>2. \A i \in Wire' : \E j \in Wire : wire'[i] = wire[j]
        BY <2>1, ReadsOne DEF TypeOK
    <2> QED BY <2>1, <2>2, KeepsSaidOver DEF Reads
<1>9. CASE CodexExits \/ StreamDone \/ Prompt \/ Sender \/ CallClose \/ CallKill \/ Ending
           \/ (\E k \in Keys : Resolve(k)) \/ UNCHANGED vars
    BY <1>1, <1>9 DEF CodexExits, StreamDone, Prompt, Sender, SendRefused, SendSteers, SendStarts,
          SendApplies, SendStops, CallClose, CallKill, Ending, KillWaits, Shutdown, Reaped,
          WatchWakes, WatchReports, WatchEnds, Resolve, vars, codexVars, sendVars, requestVars
<1>10. ASSUME NEW r \in Requests, Goroutine(r) \/ ToolReturns(r) PROVE SaidOver'
    <2>1. outstanding' \subseteq outstanding /\ UNCHANGED <<wire, turnOf, running, ran>>
        BY <1>10 DEF Goroutine, RefuseWhenClosing, Park, Raise, TakeAnswer, GiveUp, RunTool,
              ToolCancelled, ToolReturns, Goes, codexVars
    <2> QED BY <2>1, KeepsSaidOver DEF Wire
<1> QED
    BY <1>2, <1>3, <1>4, <1>5, <1>6, <1>7, <1>8, <1>9, <1>10 DEF Next, Codex, Requests

-------------------------------------------------------------------------------
(* The turn that runs.                                                     *)

LEMMA InitStartedLast == Init => StartedLast
BY DEF Init, StartedLast

\* A message that starts nothing goes to the end of the wire.
LEMMA SaysStartedLast ==
    ASSUME TypeOK, StartedLast, NEW m \in Messages, Says(<<m>>), m.kind # "started",
           running' \in {running, NoTurn}
    PROVE  StartedLast'
<1>1. PICK k \in Nat : k = Len(wire) + 1
    BY DEF TypeOK
<1>2. /\ Wire' = Wire \cup {k} /\ \A i \in Wire : wire'[i] = wire[i]
      /\ wire'[k].kind # "started"
    BY <1>1, SaysOne DEF TypeOK
<1> QED BY <1>2 DEF StartedLast

LEMMA NextStartedLast == TypeOK /\ StartedLast /\ [Next]_vars => StartedLast'
<1> SUFFICES ASSUME TypeOK, StartedLast, [Next]_vars PROVE StartedLast'
    OBVIOUS
<1>1. CASE UNCHANGED <<wire, running>>
    BY <1>1 DEF StartedLast, Wire
<1>2. CASE StartsTurn
    <2>1. PICK k \in Nat, l \in Nat : StartsTurnAdds(k, l)
        BY <1>2, StartsTurnWire
    <2>2. running' = ran'
        BY <1>2 DEF StartsTurn
    <2> QED BY <2>1, <2>2, MessageFields DEF StartsTurnAdds, StartedLast
<1>3. CASE AnswersSteer
    <2>1. running \in Turns
        BY <1>3 DEF AnswersSteer, SteerFits, TypeOK
    <2> QED BY <1>3, <2>1, SaysStartedLast, MessageTypes, MessageFields DEF AnswersSteer
<1>4. CASE Refuses
    BY <1>4, SaysStartedLast, MessageTypes, MessageFields DEF Refuses
<1>5. CASE CompletesTurn
    <2>1. running \in Turns
        BY <1>5 DEF CompletesTurn, TypeOK
    <2> QED BY <1>5, <2>1, SaysStartedLast, MessageTypes, MessageFields DEF CompletesTurn
<1>6. ASSUME NEW r \in Requests, NEW t, Asks(r, t) \/ Withdraws(r) PROVE StartedLast'
    BY <1>6, SaysStartedLast, MessageTypes, MessageFields DEF Asks, Withdraws
<1>7. CASE ReadLoop
    <2>1. PICK m : Reads(m)
        BY <1>7 DEF ReadLoop, ReadResponse, ReadStarted, ReadCompleted, ReadRequest, ReadWithdrawn,
              ReadRefusal
    <2> SUFFICES ASSUME running # NoTurn, NEW i \in Wire', wire'[i].kind = "started",
                        wire'[i].turn # running
                 PROVE  \E j \in Wire' : j > i /\ wire'[j].kind = "started" /\ wire'[j].turn = running
        BY <2>1 DEF Reads, StartedLast
    <2>2. i \in Nat /\ i + 1 \in Wire /\ wire'[i] = wire[i + 1]
        BY <2>1, ReadsOne DEF TypeOK
    <2>3. PICK j \in Wire : j > i + 1 /\ wire[j].kind = "started" /\ wire[j].turn = running
        BY <2>2 DEF StartedLast
    <2>4. j \in Nat /\ j # 1 /\ j - 1 > i
        BY <2>1, <2>2, <2>3, ReadsOne DEF TypeOK
    <2>5. j - 1 \in Wire' /\ wire'[j - 1] = wire[j]
        BY <2>1, <2>4, ReadsOne DEF TypeOK
    <2> QED BY <2>3, <2>4, <2>5
<1>8. CASE CodexExits \/ StreamDone \/ Prompt \/ Sender \/ CallClose \/ CallKill \/ Ending
           \/ (\E k \in Keys : Resolve(k)) \/ UNCHANGED vars
           \/ \E r \in Requests : Goroutine(r) \/ ToolReturns(r)
    BY <1>1, <1>8 DEF CodexExits, StreamDone, Prompt, Sender, SendRefused, SendSteers, SendStarts,
          SendApplies, SendStops, CallClose, CallKill, Ending, KillWaits, Shutdown, Reaped,
          WatchWakes, WatchReports, WatchEnds, Resolve, vars, codexVars, sendVars, requestVars,
          Goroutine, RefuseWhenClosing, Park, Raise, TakeAnswer, GiveUp, RunTool, ToolCancelled,
          ToolReturns
<1> QED BY <1>2, <1>3, <1>4, <1>5, <1>6, <1>7, <1>8 DEF Next, Codex, Requests

\* The read loop has taken the start of the turn that runs.
StartRead == running # NoTurn /\ \A i \in Wire : wire[i] # Started(running)

\* A step on the stream that leaves the active turn alone, and takes no start
\* of the turn that runs off the wire.
LEMMA KeepsRunningIsActive ==
    ASSUME RunningIsActive, StartRead' => StartRead, UNCHANGED activeTurn,
           running' \in {running, NoTurn}
    PROVE  RunningIsActive'
BY DEF RunningIsActive, StartRead, Wire

LEMMA SaysRunningIsActive ==
    ASSUME TypeOK, RunningIsActive, NEW m \in Messages, Says(<<m>>), UNCHANGED activeTurn,
           running' \in {running, NoTurn}
    PROVE  RunningIsActive'
<1>1. Wire \subseteq Wire' /\ \A i \in Wire : wire'[i] = wire[i]
    BY SaysOne DEF TypeOK
<1>2. StartRead' => StartRead
    BY <1>1 DEF StartRead
<1> QED BY <1>2, KeepsRunningIsActive

LEMMA ReadRunningIsActive ==
    TypeOK /\ SaidOver /\ StartedLast /\ RunningIsActive /\ ReadLoop => RunningIsActive'
<1> SUFFICES ASSUME TypeOK, SaidOver, StartedLast, RunningIsActive, ReadLoop, StartRead'
             PROVE  activeTurn' = running'
    BY DEF RunningIsActive, StartRead, Wire
<1>1. PICK m : Reads(m)
    BY DEF ReadLoop, ReadResponse, ReadStarted, ReadCompleted, ReadRequest, ReadWithdrawn,
           ReadRefusal
<1>2. /\ running' = running /\ running # NoTurn /\ 1 \in Wire /\ wire[1] = m
      /\ \A i \in Wire : i # 1 => wire[i] # Started(running)
    <2>1. running' = running /\ running # NoTurn /\ 1 \in Wire /\ wire[1] = m
        BY <1>1, ReadsOne DEF Reads, StartRead, TypeOK
    <2>2. ASSUME NEW i \in Wire, i # 1 PROVE wire[i] # Started(running)
        BY <1>1, <2>1, <2>2, ReadsOne DEF StartRead, TypeOK
    <2> QED BY <2>1, <2>2
<1>3. CASE m = Started(running)
    <2>0. \A x : Reads(x) => x.kind = "started" /\ x.turn = running
        BY <1>1, <1>3, MessageFields DEF Reads
    <2>1. ASSUME NEW t PROVE ~ReadResponse(t) /\ ~ReadCompleted(t)
        BY <2>0, MessageFields DEF ReadResponse, ReadCompleted
    <2>2. ASSUME NEW r PROVE ~ReadRequest(r) /\ ~ReadWithdrawn(r)
        BY <2>0, MessageFields DEF ReadRequest, ReadWithdrawn
    <2>3. ~ReadRefusal
        BY <2>0, MessageFields DEF ReadRefusal
    <2>4. PICK t \in Turns : ReadStarted(t)
        BY <2>1, <2>2, <2>3 DEF ReadLoop
    <2>5. t = running
        BY <2>0, <2>4, MessageFields DEF ReadStarted
    <2> QED BY <1>2, <2>4, <2>5 DEF ReadStarted
<1>4. CASE m # Started(running)
    <2>1. activeTurn = running
        BY <1>2, <1>4 DEF RunningIsActive, Wire
    <2>2. ASSUME NEW t \in Turns, ReadStarted(t) PROVE FALSE
        <3>1. wire[1] = Started(t) /\ t # running
            BY <1>2, <1>4, <2>2 DEF ReadStarted, Reads
        <3>2. PICK j \in Wire : j > 1 /\ wire[j].kind = "started" /\ wire[j].turn = running
            BY <1>2, <3>1, MessageFields DEF StartedLast
        <3>3. wire[j] = Started(running) /\ j # 1
            BY <3>2, TurnsOnWire, ElementOfSeq DEF Wire, TypeOK
        <3> QED BY <1>2, <3>2, <3>3
    <2>3. ASSUME NEW t \in Turns, ReadCompleted(t) PROVE activeTurn' = activeTurn
        <3>1. wire[1] = Completed(t)
            BY <1>2, <2>3 DEF ReadCompleted, Reads
        <3>2. t # running
            BY <1>2, <3>1, MessageFields DEF SaidOver
        <3> QED BY <2>1, <2>3, <3>2 DEF ReadCompleted
    <2>4. activeTurn' = activeTurn
        BY <2>2, <2>3 DEF ReadLoop, ReadResponse, ReadRequest, ReadWithdrawn, ReadRefusal
    <2> QED BY <1>2, <2>1, <2>4
<1> QED BY <1>3, <1>4

LEMMA NextRunningIsActive ==
    TypeOK /\ SaidOver /\ StartedLast /\ RunningIsActive /\ [Next]_vars => RunningIsActive'
<1> SUFFICES ASSUME TypeOK, SaidOver, StartedLast, RunningIsActive, [Next]_vars
             PROVE  RunningIsActive'
    OBVIOUS
<1>1. CASE UNCHANGED <<wire, running, activeTurn>>
    BY <1>1 DEF RunningIsActive
<1>2. CASE StartsTurn
    <2>1. PICK k \in Nat, l \in Nat : StartsTurnAdds(k, l)
        BY <1>2, StartsTurnWire
    <2>2. ~StartRead'
        BY <1>2, <2>1 DEF StartsTurn, StartsTurnAdds, StartRead
    <2> QED BY <2>2 DEF RunningIsActive, StartRead, Wire
<1>3. CASE AnswersSteer
    <2>1. running \in Turns
        BY <1>3 DEF AnswersSteer, SteerFits, TypeOK
    <2> QED BY <1>3, <2>1, SaysRunningIsActive, MessageTypes DEF AnswersSteer
<1>4. CASE Refuses
    BY <1>4, SaysRunningIsActive, MessageTypes DEF Refuses
<1>5. CASE CompletesTurn
    <2>1. running \in Turns
        BY <1>5 DEF CompletesTurn, TypeOK
    <2> QED BY <1>5, <2>1, SaysRunningIsActive, MessageTypes DEF CompletesTurn
<1>6. ASSUME NEW r \in Requests, NEW t, Asks(r, t) \/ Withdraws(r) PROVE RunningIsActive'
    BY <1>6, SaysRunningIsActive, MessageTypes DEF Asks, Withdraws
<1>7. CASE SendApplies
    <2>1. UNCHANGED <<wire, running>> /\ (activeTurn # NoTurn => activeTurn' = activeTurn)
        BY <1>7 DEF SendApplies, codexVars
    <2> QED BY <2>1 DEF RunningIsActive
<1>8. CASE CodexExits \/ StreamDone \/ Prompt \/ CallClose \/ CallKill \/ Ending
           \/ SendRefused \/ SendSteers \/ SendStarts \/ SendStops
           \/ (\E k \in Keys : Resolve(k)) \/ UNCHANGED vars
           \/ \E r \in Requests : Goroutine(r) \/ ToolReturns(r)
    BY <1>1, <1>8 DEF CodexExits, StreamDone, Prompt, SendRefused, SendSteers, SendStarts,
          SendStops, CallClose, CallKill, Ending, KillWaits, Shutdown, Reaped,
          WatchWakes, WatchReports, WatchEnds, Resolve, vars, codexVars, sendVars, requestVars,
          Goroutine, RefuseWhenClosing, Park, Raise, TakeAnswer, GiveUp, RunTool, ToolCancelled,
          ToolReturns
<1> QED
    BY <1>2, <1>3, <1>4, <1>5, <1>6, <1>7, <1>8, ReadRunningIsActive
       DEF Next, Codex, Sender, Requests

\* A turn whose start the read loop has taken is the active one, whatever the
\* send loop made of its answer: Interrupt finds it.
THEOREM RunningTurnIsActive == Spec => []RunningIsActive
<1>1. Init => RunningIsActive
    BY DEF Init, RunningIsActive
<1> QED
    BY <1>1, TypeCorrect, InitAskedOnce, NextAskedOnce, InitSaidOver, NextSaidOver,
       InitStartedLast, NextStartedLast, NextRunningIsActive, PTL DEF Spec

-------------------------------------------------------------------------------
(* The end of the session.                                                 *)

LEMMA InitEndInv == Init => EndInv
BY DEF Init, EndInv, ExitToldTruly

LEMMA NextEndInv == TypeOK /\ EndInv /\ [Next]_vars => EndInv'
<1> SUFFICES ASSUME TypeOK, EndInv, [Next]_vars PROVE EndInv'
    OBVIOUS
<1> USE DEF EndInv, ExitToldTruly
<1>1. CASE UNCHANGED <<stream, died, endVars>>
    BY <1>1 DEF endVars
<1>2. CASE CodexExits
    <2>1. UNCHANGED endVars /\ stream = "up" /\ stream' = "ending" /\ (~closing => died')
        BY <1>2 DEF CodexExits
    <2> QED BY <2>1 DEF endVars
<1>3. CASE StreamDone
    BY <1>3 DEF StreamDone, endVars
<1>4. CASE CallClose
    BY <1>4 DEF CallClose, codexVars
<1>5. CASE CallKill
    <2>1. /\ UNCHANGED <<closing, watch, pumpEnded, exits>> /\ caller = "idle" /\ caller' = "killing"
        BY <1>5 DEF CallKill
    <2>2. CASE closing
        <3>1. killed' = killed
            <4>1. CASE killed
                BY <1>5, <2>2, <4>1 DEF CallKill, TypeOK
            <4>2. CASE ~killed
                BY <1>5, <2>2, <4>2 DEF CallKill, TypeOK
            <4> QED BY <4>1, <4>2
        <3>2. stream = "up" => watch = "waiting" /\ exits = 0
            BY DEF TypeOK
        <3>3. stream # "up" => UNCHANGED <<stream, died>>
            BY <1>5 DEF CallKill
        <3>4. watch = "exited" => died'
            BY <3>2, <3>3
        <3>5. (watch # "waiting" => stream' = "done") /\ (exits = 1 => died')
            BY <3>2, <3>3
        <3>6. (stream' # "up" /\ ~closing') => died'
            BY <2>1, <2>2
        <3>7. (killed' /\ watch' # "finished") => caller' = "killing" /\ ~closing'
            BY <2>1, <2>2, <3>1
        <3> QED BY <2>1, <2>2, <3>1, <3>4, <3>5, <3>6, <3>7
    <2>3. CASE ~closing
        <3>1. stream' # "up" /\ (stream # "up" => UNCHANGED <<stream, died>>) /\ died'
            BY <1>5, <2>1, <2>3 DEF CallKill
        <3> QED BY <2>1, <2>3, <3>1
    <2> QED BY <2>2, <2>3
<1>6. CASE KillWaits
    BY <1>6 DEF KillWaits, codexVars
<1>7. CASE Shutdown
    BY <1>7 DEF Shutdown, codexVars
<1>8. CASE Reaped
    BY <1>8 DEF Reaped, codexVars
<1>9. CASE WatchWakes
    BY <1>9 DEF WatchWakes, codexVars
<1>10. CASE WatchReports
    BY <1>10 DEF WatchReports, codexVars
<1>11. CASE WatchEnds
    BY <1>11 DEF WatchEnds, codexVars
<1>12. CASE Codex \/ CompletesTurn \/ Prompt \/ Sender \/ ReadLoop \/ UNCHANGED vars
            \/ (\E k \in Keys : Resolve(k))
            \/ (\E r \in Requests : Goroutine(r) \/ ToolReturns(r) \/ Withdraws(r))
            \/ \E r \in Requests, t \in Turns \cup {Child} : Asks(r, t)
    BY <1>1, <1>12 DEF Codex, StartsTurn, AnswersSteer, Refuses, Says, CompletesTurn, Prompt, Sender,
          SendRefused, SendSteers, SendStarts, SendApplies, SendStops, ReadLoop, ReadResponse,
          ReadStarted, ReadCompleted, ReadRequest, ReadWithdrawn, ReadRefusal, Reads, Resolve,
          Goroutine, RefuseWhenClosing, Park, Raise, TakeAnswer, GiveUp, RunTool, ToolCancelled,
          ToolReturns, Withdraws, Asks, vars, codexVars
<1> QED
    BY <1>2, <1>3, <1>4, <1>5, <1>6, <1>7, <1>8, <1>9, <1>10, <1>11, <1>12
       DEF Next, Ending, Requests

\* process_exited is told at most once, only of a codex that ended before the
\* session was closing, and of every one that Kill ended.
THEOREM ExitIsToldTruly == Spec => []ExitToldTruly
<1>1. EndInv => ExitToldTruly
    BY DEF EndInv
<1> QED BY <1>1, TypeCorrect, InitEndInv, NextEndInv, PTL DEF Spec

-------------------------------------------------------------------------------
(* The requests.  An approval leaves the map as it is settled, and whatever *)
(* takes it out settles it.                                                 *)

LEMMA InitRequestParts == Init => RequestParts
<1> SUFFICES ASSUME Init PROVE RequestParts
    OBVIOUS
<1>1. InMap
    BY RequestsAssumption DEF Init, InMap, Unparked, Requests
<1>2. OwnKey /\ ParkedIsReachable
    BY DEF Init, OwnKey, ParkedIsReachable, Requests
<1>3. ResolvedOnce
    BY DEF Init, ResolvedOnce
<1> QED BY <1>1, <1>2, <1>3 DEF RequestParts

LEMMA KeepsRequestParts ==
    ASSUME RequestParts, UNCHANGED <<pending, calls, item, request, keyOf, answer, resolved>>,
           stream = "done" => stream' = "done"
    PROVE  RequestParts'
BY DEF RequestParts, InMap, OwnKey, ParkedIsReachable, ResolvedOnce, Unparked

\* A step takes the requests of rs out of the map and settles them as what.
TakesOut(rs, what) ==
    /\ \A k \in Keys : pending'[k] = IF pending[k] \in rs THEN Nobody ELSE pending[k]
    /\ \A r \in Requests :
          answer'[r] = IF r \in rs /\ r \in Parked \cup calls /\ answer[r] = "none"
                       THEN what ELSE answer[r]
    /\ \A r \in Approvals :
          \/ resolved'[r] = resolved[r]
          \/ resolved'[r] = resolved[r] + 1 /\ r \in rs /\ r \in Parked
    /\ UNCHANGED <<calls, item, request, keyOf>>

LEMMA ParkedIsInMap ==
    ASSUME TypeOK, NEW r \in Approvals
    PROVE  r \in Parked <=> \E k \in Keys : pending[k] = r
BY RequestsAssumption DEF Parked

LEMMA TakesOutRequestParts ==
    ASSUME TypeOK, RequestParts, NEW rs, NEW what \in {"decided", "cancelled"},
           TakesOut(rs, what), stream = "done" => stream' = "done"
    PROVE  RequestParts'
<1> USE DEF TakesOut
<1>1. OwnKey'
    BY DEF RequestParts, OwnKey
<1>2. ASSUME NEW k \in Keys, NEW r \in Approvals, pending'[k] = r
      PROVE  /\ keyOf'[r] = k /\ request'[r] \in {"parked", "raised"}
             /\ resolved'[r] = 0 /\ answer'[r] = "none"
    <2>1. pending[k] = r /\ r \notin rs
        BY <1>2, RequestsAssumption
    <2>2. resolved'[r] = resolved[r] /\ answer'[r] = answer[r]
        BY <2>1 DEF Requests
    <2> QED BY <2>1, <2>2 DEF RequestParts, InMap
<1>3. ASSUME NEW r \in Requests, Unparked(r)'
      PROVE  answer'[r] = "none" /\ (r \in Approvals => resolved'[r] = 0)
    <2>1. Unparked(r) /\ answer[r] = "none" /\ (r \in Approvals => resolved[r] = 0)
        BY <1>3 DEF Unparked, RequestParts, InMap
    <2>2. r \notin Parked
        <3>1. Parked \subseteq Approvals
            BY DEF Parked, TypeOK
        <3>2. r \in Approvals => \A k \in Keys : pending[k] # r
            BY <2>1 DEF Unparked, RequestParts, InMap
        <3> QED BY <3>1, <3>2, ParkedIsInMap
    <2>3. r \notin calls
        BY <2>1 DEF Unparked, RequestParts, InMap, TypeOK
    <2> QED BY <2>1, <2>2, <2>3
<1>4. InMap'
    BY <1>2, <1>3 DEF InMap, RequestParts, Requests
<1>5. ASSUME NEW r \in Approvals, request'[r] \in {"parked", "raised"}, answer'[r] = "none",
             stream' # "done"
      PROVE  pending'[keyOf'[r]] = r
    <2>1. answer[r] = "none" /\ keyOf[r] \in Keys
        BY <1>5 DEF Requests, TypeOK
    <2>2. pending[keyOf[r]] = r
        BY <1>5, <2>1 DEF RequestParts, ParkedIsReachable
    <2>3. r \in Parked
        BY <2>1, <2>2, ParkedIsInMap
    <2>4. r \notin rs
        BY <1>5, <2>1, <2>3 DEF Requests
    <2> QED BY <2>1, <2>2, <2>4
<1>6. ParkedIsReachable'
    BY <1>5 DEF ParkedIsReachable
<1>7. ASSUME NEW r \in Approvals PROVE resolved'[r] <= 1
    <2>1. r \in Parked => resolved[r] = 0
        BY ParkedIsInMap DEF RequestParts, InMap
    <2>2. resolved[r] \in Nat /\ resolved[r] <= 1
        BY DEF RequestParts, ResolvedOnce, TypeOK
    <2> QED BY <2>1, <2>2
<1> QED BY <1>1, <1>4, <1>6, <1>7 DEF RequestParts, ResolvedOnce

LEMMA WithdrawTakesOut ==
    ASSUME TypeOK, NEW rs, Withdraw(rs), UNCHANGED <<calls, item, request, keyOf>>
    PROVE  TakesOut(rs, "cancelled")
<1>1. \A k \in Keys : pending'[k] = IF pending[k] \in rs THEN Nobody ELSE pending[k]
    BY DEF Withdraw, Remove
<1>2. \A r \in Requests :
          answer'[r] = IF r \in rs /\ r \in Parked \cup calls /\ answer[r] = "none"
                       THEN "cancelled" ELSE answer[r]
    BY DEF Withdraw, Settle
<1>3. \A r \in Approvals :
          resolved'[r] = IF r \in rs /\ r \in Parked /\ ~pumpEnded
                         THEN resolved[r] + 1 ELSE resolved[r]
    BY DEF Withdraw, Resolved
<1> QED BY <1>1, <1>2, <1>3 DEF TakesOut

\* Shutdown, and watch: the whole map goes, and no event is pushed.
LEMMA EmptiesTakesOut ==
    ASSUME TypeOK, pending' = [k \in Keys |-> Nobody], Settle(Parked \cup calls, "cancelled"),
           UNCHANGED <<calls, item, request, keyOf, resolved>>
    PROVE  TakesOut(Requests, "cancelled")
BY DEF TakesOut, Settle, Requests, TypeOK

LEMMA ResolveTakesOut ==
    ASSUME TypeOK, NEW k \in Keys, Resolve(k)
    PROVE  TakesOut({pending[k]}, "decided")
<1>1. pending[k] \in Parked
    BY DEF Resolve, Parked
<1>2. \A q \in Keys : pending'[q] = IF pending[q] \in {pending[k]} THEN Nobody ELSE pending[q]
    BY DEF Resolve, Remove
<1>3. \A r \in Requests :
          answer'[r] = IF r = pending[k] /\ answer[r] = "none" THEN "decided" ELSE answer[r]
    BY DEF Resolve, Settle
<1>4. \A r \in Approvals :
          resolved'[r] = IF r = pending[k] /\ ~pumpEnded THEN resolved[r] + 1 ELSE resolved[r]
    BY DEF Resolve, Resolved
<1>5. UNCHANGED <<calls, item, request, keyOf>>
    BY DEF Resolve
<1> QED BY <1>1, <1>2, <1>3, <1>4, <1>5 DEF TakesOut

\* A goroutine moves on, with its request's answer and place in the map.
LEMMA MovesInMap ==
    ASSUME TypeOK, InMap, NEW r \in Requests, UNCHANGED <<keyOf, resolved>>,
           \A q \in Requests : q # r => request'[q] = request[q] /\ answer'[q] = answer[q],
           \A k \in Keys, q \in Approvals :
              pending'[k] = q =>
                  /\ pending[k] = q
                  /\ q = r => request'[r] \in {"parked", "raised"} /\ answer'[r] = answer[r],
           \A q \in Tools : q \in calls' =>
               IF q = r THEN request'[r] = "running" ELSE q \in calls,
           Unparked(r)' => Unparked(r) /\ answer'[r] = answer[r]
    PROVE  InMap'
<1>1. ASSUME NEW k \in Keys, NEW q \in Approvals, pending'[k] = q
      PROVE  /\ keyOf'[q] = k /\ request'[q] \in {"parked", "raised"}
             /\ resolved'[q] = 0 /\ answer'[q] = "none"
    BY <1>1 DEF InMap, Requests
<1>2. ASSUME NEW q \in Tools, q \in calls' PROVE request'[q] = "running"
    BY <1>2 DEF InMap, Requests
<1>3. ASSUME NEW q \in Requests, Unparked(q)' PROVE answer'[q] = "none" /\ Unparked(q)
    BY <1>3 DEF InMap, Unparked
<1>4. ASSUME NEW q \in Approvals, Unparked(q)' PROVE resolved'[q] = 0
    BY <1>3, <1>4 DEF InMap, Requests
<1> QED BY <1>1, <1>2, <1>3, <1>4 DEF InMap

\* A request's goroutine starts, or goes on, and nothing is taken out.
LEMMA ReadRequestParts ==
    ASSUME TypeOK, AskedOnce, RequestParts, NEW r \in Requests, ReadRequest(r)
    PROVE  RequestParts'
<1>1. request[r] = "none"
    <2>1. 1 \in Wire /\ About(1, "request", r)
        BY ReadsOne, MessageFields DEF ReadRequest, TypeOK, About
    <2> QED BY <2>1 DEF AskedOnce
<1>2. /\ \A q \in Requests : q # r => request'[q] = request[q]
      /\ request'[r] = "spawned"
      /\ UNCHANGED <<pending, calls, item, keyOf, answer, resolved, stream>>
    BY DEF ReadRequest, Reads, TypeOK
<1>3. InMap'
    <2>1. \A k \in Keys, q \in Approvals : pending[k] = q => q # r
        BY <1>1 DEF RequestParts, InMap
    <2>2. \A q \in Tools : q \in calls => q # r
        BY <1>1 DEF RequestParts, InMap
    <2> QED BY <1>1, <1>2, <2>1, <2>2, MovesInMap DEF RequestParts, Unparked
<1>4. OwnKey' /\ ParkedIsReachable' /\ ResolvedOnce'
    BY <1>1, <1>2 DEF RequestParts, OwnKey, ParkedIsReachable, ResolvedOnce, Requests
<1> QED BY <1>3, <1>4 DEF RequestParts

LEMMA ParkRequestParts ==
    ASSUME TypeOK, RequestParts, NEW r \in Approvals, Park(r)
    PROVE  RequestParts'
<1>1. PICK k \in Keys :
          /\ k = <<item[r], IF pending[<<item[r], Nobody>>] = Nobody THEN Nobody ELSE r>>
    BY DEF Keys, TypeOK
<1>2. /\ request[r] = "spawned" /\ request' = [request EXCEPT ![r] = "parked"]
      /\ pending' = [pending EXCEPT ![k] = r] /\ keyOf' = [keyOf EXCEPT ![r] = k]
      /\ UNCHANGED <<stream, calls, item, answer, resolved>>
    BY <1>1 DEF Park, Goes, codexVars
<1>3. pending[k] = Nobody
    <2>1. CASE pending[<<item[r], Nobody>>] = Nobody
        BY <1>1, <2>1
    <2>2. CASE pending[<<item[r], Nobody>>] # Nobody
        <3>1. k = <<item[r], r>>
            BY <1>1, <2>2
        <3> SUFFICES ASSUME NEW q \in Approvals, pending[k] = q PROVE FALSE
            BY DEF TypeOK
        <3>2. keyOf[q] = k /\ request[q] \in {"parked", "raised"}
            BY DEF RequestParts, InMap
        <3>3. q = r
            BY <3>1, <3>2, RequestsAssumption DEF RequestParts, OwnKey
        <3> QED BY <1>2, <3>2, <3>3
    <2> QED BY <2>1, <2>2
<1>4. /\ \A q \in Requests : q # r => request'[q] = request[q]
      /\ \A q \in Approvals : q # r => keyOf'[q] = keyOf[q]
      /\ \A l \in Keys : l # k => pending'[l] = pending[l]
      /\ request'[r] = "parked" /\ keyOf'[r] = k /\ pending'[k] = r
    BY <1>2 DEF TypeOK, Requests
<1>5. Unparked(r) /\ answer[r] = "none" /\ resolved[r] = 0
    BY <1>2 DEF Unparked, RequestParts, InMap, Requests
<1>6. ASSUME NEW l \in Keys, NEW q \in Approvals, pending'[l] = q
      PROVE  /\ keyOf'[q] = l /\ request'[q] \in {"parked", "raised"}
             /\ resolved'[q] = 0 /\ answer'[q] = "none"
    <2>1. CASE l = k
        BY <1>2, <1>4, <1>5, <1>6, <2>1
    <2>2. CASE l # k
        <3>1. pending[l] = q
            BY <1>4, <1>6, <2>2
        <3>2. q # r
            BY <1>2, <3>1 DEF RequestParts, InMap
        <3> QED BY <1>2, <1>4, <3>1, <3>2 DEF RequestParts, InMap, Requests
    <2> QED BY <2>1, <2>2
<1>7. InMap'
    BY <1>2, <1>4, <1>5, <1>6 DEF InMap, RequestParts, Unparked, Requests, TypeOK
<1>8. ASSUME NEW q \in Approvals, request'[q] \in {"parked", "raised"}, answer'[q] = "none",
             stream' # "done"
      PROVE  pending'[keyOf'[q]] = q
    <2>1. CASE q = r
        BY <1>4, <2>1
    <2>2. CASE q # r
        <3>1. pending[keyOf[q]] = q /\ keyOf[q] \in Keys
            BY <1>2, <1>4, <1>8, <2>2 DEF RequestParts, ParkedIsReachable, Requests, TypeOK
        <3>2. keyOf[q] # k
            BY <1>3, <3>1, RequestsAssumption
        <3> QED BY <1>4, <2>2, <3>1, <3>2
    <2> QED BY <2>1, <2>2
<1>9. OwnKey'
    <2>1. k \in {<<item[r], Nobody>>, <<item[r], r>>}
        BY <1>1
    <2> QED BY <1>2, <1>4, <2>1 DEF RequestParts, OwnKey
<1>10. ParkedIsReachable'
    BY <1>8 DEF ParkedIsReachable
<1>11. ResolvedOnce'
    BY <1>2 DEF RequestParts, ResolvedOnce
<1> QED BY <1>7, <1>9, <1>10, <1>11 DEF RequestParts

LEMMA GoroutineRequestParts ==
    ASSUME TypeOK, RequestParts, NEW r \in Requests, Goroutine(r) \/ ToolReturns(r)
    PROVE  RequestParts'
<1> USE DEF Goes
<1>1. CASE RefuseWhenClosing(r)
    <2>1. /\ request[r] = "spawned" /\ request'[r] = "replied" /\ answer'[r] = "cancelled"
          /\ \A q \in Requests : q # r => request'[q] = request[q] /\ answer'[q] = answer[q]
          /\ UNCHANGED <<pending, calls, item, keyOf, resolved, stream>>
        BY <1>1 DEF RefuseWhenClosing, TypeOK, codexVars
    <2>2. InMap'
        <3>1. InMap /\ \A k \in Keys, q \in Approvals :
                  pending[k] = q => request[q] \in {"parked", "raised"} /\ answer[q] = "none"
            BY DEF RequestParts, InMap
        <3>2. \A q \in calls : q \in Tools /\ request[q] = "running"
            BY DEF RequestParts, InMap, TypeOK
        <3> QED BY <2>1, <3>1, <3>2, MovesInMap DEF Unparked
    <2>3. OwnKey' /\ ParkedIsReachable' /\ ResolvedOnce'
        BY <2>1 DEF RequestParts, OwnKey, ParkedIsReachable, ResolvedOnce, Requests
    <2> QED BY <2>2, <2>3 DEF RequestParts
<1>2. CASE r \in Approvals /\ Park(r)
    BY <1>2, ParkRequestParts
<1>3. CASE Raise(r)
    <2>1. /\ request[r] = "parked" /\ request'[r] = "raised"
          /\ \A q \in Requests : q # r => request'[q] = request[q]
          /\ UNCHANGED <<pending, calls, item, keyOf, answer, resolved, stream>>
        BY <1>3 DEF Raise, TypeOK, codexVars
    <2>2. InMap'
        <3>1. InMap /\ \A k \in Keys, q \in Approvals :
                  pending[k] = q => request[q] \in {"parked", "raised"} /\ answer[q] = "none"
            BY DEF RequestParts, InMap
        <3>2. \A q \in calls : q \in Tools /\ request[q] = "running"
            BY DEF RequestParts, InMap, TypeOK
        <3> QED BY <2>1, <3>1, <3>2, MovesInMap DEF Unparked
    <2>3. OwnKey' /\ ParkedIsReachable' /\ ResolvedOnce'
        BY <2>1 DEF RequestParts, OwnKey, ParkedIsReachable, ResolvedOnce, Requests
    <2> QED BY <2>2, <2>3 DEF RequestParts
<1>4. CASE TakeAnswer(r)
    <2>1. /\ request[r] = "raised" /\ request'[r] = "replied" /\ answer[r] # "none"
          /\ \A q \in Requests : q # r => request'[q] = request[q]
          /\ UNCHANGED <<pending, calls, item, keyOf, answer, resolved, stream>>
        BY <1>4 DEF TakeAnswer, TypeOK
    <2>2. InMap'
        <3>1. InMap /\ \A k \in Keys, q \in Approvals :
                  pending[k] = q => request[q] \in {"parked", "raised"} /\ answer[q] = "none"
            BY DEF RequestParts, InMap
        <3>2. \A q \in calls : q \in Tools /\ request[q] = "running"
            BY DEF RequestParts, InMap, TypeOK
        <3> QED BY <2>1, <3>1, <3>2, MovesInMap DEF Unparked
    <2>3. OwnKey' /\ ParkedIsReachable' /\ ResolvedOnce'
        BY <2>1 DEF RequestParts, OwnKey, ParkedIsReachable, ResolvedOnce, Requests
    <2> QED BY <2>2, <2>3 DEF RequestParts
<1>5. CASE r \in Approvals /\ GiveUp(r)
    <2>1. /\ request[r] = "raised" /\ request'[r] = "replied" /\ stream' = "done"
          /\ \A q \in Requests : q # r => request'[q] = request[q]
          /\ UNCHANGED <<calls, item, keyOf, answer, resolved>>
          /\ pending' = [pending EXCEPT ![keyOf[r]] = Nobody]
        BY <1>5 DEF GiveUp, TypeOK, codexVars
    <2>2. \A k \in Keys, q \in Approvals :
              pending'[k] = q => pending[k] = q /\ k # keyOf[r]
        BY <2>1, RequestsAssumption DEF TypeOK
    <2>3. \A k \in Keys, q \in Approvals : pending'[k] = q => pending[k] = q /\ q # r
        BY <1>5, <2>2 DEF RequestParts, InMap
    <2>4. InMap'
        <3>1. InMap /\ \A q \in calls : q \in Tools /\ request[q] = "running"
            BY DEF RequestParts, InMap, TypeOK
        <3> QED BY <2>1, <2>3, <3>1, MovesInMap DEF Unparked
    <2>5. OwnKey' /\ ParkedIsReachable' /\ ResolvedOnce'
        BY <2>1 DEF RequestParts, OwnKey, ParkedIsReachable, ResolvedOnce, Requests
    <2> QED BY <2>4, <2>5 DEF RequestParts
<1>6. CASE RunTool(r)
    <2>1. /\ request[r] = "spawned" /\ request'[r] = "running"
          /\ \A q \in Requests : q # r => request'[q] = request[q]
          /\ calls' = calls \cup {r}
          /\ UNCHANGED <<pending, item, keyOf, answer, resolved, stream>>
        BY <1>6 DEF RunTool, TypeOK, codexVars
    <2>2. InMap'
        <3>1. InMap /\ \A k \in Keys, q \in Approvals :
                  pending[k] = q => request[q] \in {"parked", "raised"} /\ answer[q] = "none"
            BY DEF RequestParts, InMap
        <3>2. \A q \in calls : q \in Tools /\ request[q] = "running"
            BY DEF RequestParts, InMap, TypeOK
        <3> QED BY <2>1, <3>1, <3>2, MovesInMap DEF Unparked
    <2>3. OwnKey' /\ ParkedIsReachable' /\ ResolvedOnce'
        BY <2>1 DEF RequestParts, OwnKey, ParkedIsReachable, ResolvedOnce, Requests
    <2> QED BY <2>2, <2>3 DEF RequestParts
<1>7. CASE ToolReturns(r)
    <2>1. /\ request[r] = "running" /\ request'[r] = "replied"
          /\ \A q \in Requests : q # r => request'[q] = request[q]
          /\ calls' = calls \ {r}
          /\ UNCHANGED <<pending, item, keyOf, answer, resolved, stream>>
        BY <1>7 DEF ToolReturns, TypeOK
    <2>2. InMap'
        <3>1. InMap /\ \A k \in Keys, q \in Approvals :
                  pending[k] = q => request[q] \in {"parked", "raised"} /\ answer[q] = "none"
            BY DEF RequestParts, InMap
        <3>2. \A q \in calls : q \in Tools /\ request[q] = "running"
            BY DEF RequestParts, InMap, TypeOK
        <3> QED BY <2>1, <3>1, <3>2, MovesInMap DEF Unparked
    <2>3. OwnKey' /\ ParkedIsReachable' /\ ResolvedOnce'
        BY <2>1 DEF RequestParts, OwnKey, ParkedIsReachable, ResolvedOnce, Requests
    <2> QED BY <2>2, <2>3 DEF RequestParts
<1> QED BY <1>1, <1>2, <1>3, <1>4, <1>5, <1>6, <1>7 DEF Goroutine, ToolCancelled

\* Nothing codex still waits for is cancelled, but by the end of the session.
LEMMA KeepsOnlyDead ==
    ASSUME OnlyDeadCancelled, outstanding' \subseteq outstanding, closing => closing',
           stream = "done" => stream' = "done",
           \A r \in Requests : answer'[r] = "cancelled" =>
               answer[r] = "cancelled" \/ r \notin outstanding' \/ closing' \/ stream' = "done"
    PROVE  OnlyDeadCancelled'
BY DEF OnlyDeadCancelled

\* What the read loop withdraws, codex has stopped waiting for.
LEMMA ReadsOnlyDead ==
    ASSUME TypeOK, SaidOver, OnlyDeadCancelled, ReadLoop PROVE OnlyDeadCancelled'
<1>1. UNCHANGED <<closing, stream, outstanding>>
    BY DEF ReadLoop, ReadResponse, ReadStarted, ReadCompleted, ReadRequest, ReadWithdrawn,
           ReadRefusal, Reads, endVars
<1>2. ASSUME UNCHANGED answer PROVE OnlyDeadCancelled'
    BY <1>1, <1>2 DEF OnlyDeadCancelled
<1>3. ASSUME NEW t \in Turns, ReadCompleted(t) PROVE OnlyDeadCancelled'
    <2>1. \A r \in outstanding : turnOf[r] # t
        <3>1. 1 \in Wire /\ wire[1].kind = "completed" /\ wire[1].turn = t
            BY <1>3, ReadsOne, MessageFields DEF ReadCompleted, TypeOK
        <3> QED BY <3>1 DEF SaidOver
    <2>2. TakesOut({r \in Requests : turnOf[r] = t}, "cancelled")
        BY <1>3, WithdrawTakesOut DEF ReadCompleted
    <2>3. \A r \in Requests : answer'[r] = "cancelled" => answer[r] = "cancelled" \/ turnOf[r] = t
        BY <2>2 DEF TakesOut
    <2> QED BY <1>1, <2>1, <2>3, KeepsOnlyDead
<1>4. ASSUME NEW r \in Requests, ReadWithdrawn(r) PROVE OnlyDeadCancelled'
    <2>1. r \notin outstanding
        <3>1. 1 \in Wire /\ wire[1].kind = "withdrawn" /\ wire[1].req = r
            BY <1>4, ReadsOne, MessageFields DEF ReadWithdrawn, TypeOK
        <3> QED BY <3>1 DEF SaidOver
    <2>2. ASSUME Withdraw({r}) PROVE TakesOut({r}, "cancelled")
        BY <1>4, <2>2, WithdrawTakesOut DEF ReadWithdrawn, requestVars
    <2>3. \A q \in Requests : answer'[q] = "cancelled" => answer[q] = "cancelled" \/ q = r
        BY <1>4, <2>2 DEF ReadWithdrawn, TakesOut, requestVars
    <2> QED BY <1>1, <2>1, <2>3, KeepsOnlyDead
<1> QED
    BY <1>2, <1>3, <1>4 DEF ReadLoop, ReadResponse, ReadStarted, ReadRequest, ReadRefusal,
       requestVars

LEMMA ReadLoopRequestParts ==
    ASSUME TypeOK, AskedOnce, RequestParts, ReadLoop PROVE RequestParts'
<1>1. UNCHANGED stream
    BY DEF ReadLoop, ReadResponse, ReadStarted, ReadCompleted, ReadRequest, ReadWithdrawn,
           ReadRefusal, Reads
<1>2. ASSUME UNCHANGED requestVars PROVE RequestParts'
    BY <1>1, <1>2, KeepsRequestParts DEF requestVars
<1>3. ASSUME NEW rs, Withdraw(rs), UNCHANGED <<calls, item, request, keyOf>> PROVE RequestParts'
    BY <1>1, <1>3, WithdrawTakesOut, TakesOutRequestParts
<1>4. ASSUME NEW t \in Turns, ReadCompleted(t) PROVE RequestParts'
    BY <1>3, <1>4 DEF ReadCompleted
<1>5. ASSUME NEW r \in Requests, ReadWithdrawn(r) PROVE RequestParts'
    BY <1>2, <1>3, <1>5 DEF ReadWithdrawn
<1>6. ASSUME NEW r \in Requests, ReadRequest(r) PROVE RequestParts'
    BY <1>6, ReadRequestParts
<1> QED
    BY <1>2, <1>4, <1>5, <1>6 DEF ReadLoop, ReadResponse, ReadStarted, ReadRefusal

SettleInv == RequestParts /\ OnlyDeadCancelled

LEMMA NextSettleInv ==
    TypeOK /\ AskedOnce /\ SaidOver /\ SettleInv /\ [Next]_vars => SettleInv'
<1> SUFFICES ASSUME TypeOK, AskedOnce, SaidOver, RequestParts, OnlyDeadCancelled, [Next]_vars
             PROVE  RequestParts' /\ OnlyDeadCancelled'
    BY DEF SettleInv
<1>1. ASSUME UNCHANGED <<requestVars, closing>>, outstanding' \subseteq outstanding,
             stream = "done" => stream' = "done"
      PROVE  RequestParts' /\ OnlyDeadCancelled'
    BY <1>1, KeepsRequestParts, KeepsOnlyDead DEF requestVars
<1>2. CASE Codex \/ CodexExits \/ StreamDone \/ Prompt \/ Sender \/ CallClose \/ CallKill
           \/ KillWaits \/ Reaped \/ WatchReports \/ WatchEnds \/ UNCHANGED vars
    BY <1>1, <1>2 DEF Codex, StartsTurn, AnswersSteer, Refuses, Says, CodexExits, StreamDone,
          Prompt, Sender, SendRefused, SendSteers, SendStarts, SendApplies, SendStops, CallClose,
          CallKill, KillWaits, Reaped, WatchReports, WatchEnds, vars, codexVars, endVars
<1>3. CASE CompletesTurn
    BY <1>1, <1>3 DEF CompletesTurn, Says, endVars
<1>4. ASSUME NEW r \in Requests, Withdraws(r) PROVE RequestParts' /\ OnlyDeadCancelled'
    BY <1>1, <1>4 DEF Withdraws, Says, endVars
<1>5. ASSUME NEW r \in Requests, NEW t, Asks(r, t) PROVE RequestParts' /\ OnlyDeadCancelled'
    <2>1. answer[r] = "none"
        BY <1>5 DEF Asks, AskedOnce, RequestParts, InMap, Unparked
    <2>2. UNCHANGED <<requestVars, closing, stream>> /\ outstanding' = outstanding \cup {r}
        BY <1>5 DEF Asks, endVars
    <2>3. RequestParts'
        BY <2>2, KeepsRequestParts DEF requestVars
    <2>4. OnlyDeadCancelled'
        BY <2>1, <2>2 DEF OnlyDeadCancelled, requestVars
    <2> QED BY <2>3, <2>4
<1>6. CASE ReadLoop
    BY <1>6, ReadLoopRequestParts, ReadsOnlyDead
<1>7. ASSUME NEW r \in Requests, Goroutine(r) \/ ToolReturns(r)
      PROVE  RequestParts' /\ OnlyDeadCancelled'
    <2>1. RequestParts'
        BY <1>7, GoroutineRequestParts
    <2>2. CASE RefuseWhenClosing(r)
        <3>1. UNCHANGED <<closing, stream, outstanding>> /\ closing
            BY <2>2 DEF RefuseWhenClosing, codexVars, endVars
        <3> QED BY <2>1, <3>1 DEF OnlyDeadCancelled
    <2>3. CASE ~RefuseWhenClosing(r)
        <3>1. UNCHANGED <<closing, stream, answer>> /\ outstanding' \subseteq outstanding
            BY <1>7, <2>3 DEF Goroutine, Park, Raise, TakeAnswer, GiveUp, RunTool, ToolCancelled,
                  ToolReturns, codexVars, endVars
        <3> QED BY <2>1, <3>1, KeepsOnlyDead
    <2> QED BY <2>1, <2>2, <2>3
<1>8. ASSUME NEW k \in Keys, Resolve(k) PROVE RequestParts' /\ OnlyDeadCancelled'
    <2>1. UNCHANGED <<closing, stream, outstanding>>
        BY <1>8 DEF Resolve, codexVars, endVars
    <2>2. TakesOut({pending[k]}, "decided")
        BY <1>8, ResolveTakesOut
    <2>3. RequestParts'
        BY <2>1, <2>2, TakesOutRequestParts
    <2>4. \A r \in Requests : answer'[r] = "cancelled" => answer[r] = "cancelled"
        BY <2>2 DEF TakesOut
    <2> QED BY <2>1, <2>3, <2>4, KeepsOnlyDead
<1>9. CASE Shutdown \/ WatchWakes
    <2>1. UNCHANGED <<stream, outstanding>> /\ (closing' \/ stream' = "done")
        BY <1>9 DEF Shutdown, WatchWakes, codexVars
    <2>2. TakesOut(Requests, "cancelled")
        BY <1>9, EmptiesTakesOut DEF Shutdown, WatchWakes
    <2>3. RequestParts'
        BY <2>1, <2>2, TakesOutRequestParts
    <2> QED BY <2>1, <2>3 DEF OnlyDeadCancelled
<1> QED
    BY <1>2, <1>3, <1>4, <1>5, <1>6, <1>7, <1>8, <1>9 DEF Next, Ending, Requests

\* What settles an approval or a tool call settles it once, and rightly: the
\* person, the end of its turn and its withdrawal never two of them, and no
\* end of a turn touches a request of another.
THEOREM RequestsAreSettledOnce == Spec => []SettledOnce
<1>1. Init => SettleInv
    BY InitRequestParts DEF SettleInv, Init, OnlyDeadCancelled
<1>2. SettleInv => SettledOnce
    BY DEF SettleInv, RequestParts, SettledOnce
<1> QED
    BY <1>1, <1>2, TypeCorrect, InitAskedOnce, NextAskedOnce, InitSaidOver, NextSaidOver,
       NextSettleInv, PTL DEF Spec

\* An approval somebody was asked for can be answered until it is settled,
\* although codex may use an item's id for several.
THEOREM AskedCanBeAnswered == Spec => []AskedIsReachable
<1>1. Init => SettleInv
    BY InitRequestParts DEF SettleInv, Init, OnlyDeadCancelled
<1>2. SettleInv => AskedIsReachable
    BY DEF SettleInv, RequestParts, ParkedIsReachable, AskedIsReachable
<1> QED
    BY <1>1, <1>2, TypeCorrect, InitAskedOnce, NextAskedOnce, InitSaidOver, NextSaidOver,
       NextSettleInv, PTL DEF Spec

===============================================================================
