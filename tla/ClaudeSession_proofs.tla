-------------------------- MODULE ClaudeSession_proofs --------------------------
(***************************************************************************)
(* Proofs about ClaudeSession, for any number of requests, tool_use ids,   *)
(* turns and messages on the wire: its events keep the contract of a       *)
(* session, step by step, and an approval somebody was asked for is in     *)
(* reach until it is taken off the screen.                                 *)
(***************************************************************************)
EXTENDS ClaudeSession, SequenceTheorems, TLAPS

-------------------------------------------------------------------------------
(* The parts of the inductive invariant.                                   *)

Wire == 1..Len(wire)

\* A session that is over has read all there was, and only then is it told of.
\* The turns told of as started and not as ended are the one that is open and
\* the one that watch has found and not told of yet.
TurnsBalance ==
    /\ stream = "done" => wire = <<>>
    /\ watch # "waiting" => stream = "done"
    /\ pumpEnded => stream = "done"
    /\ watch = "waiting" /\ ~pumpEnded => starts = IF turnActive THEN ends + 1 ELSE ends
    /\ watch = "reporting" /\ ~pumpEnded => starts = IF turnActive THEN ends + 2 ELSE ends + 1
    /\ watch = "ending" /\ ~pumpEnded => starts = IF turnActive THEN ends + 1 ELSE ends

\* An open turn has something to end it, and so has one that output still unread
\* will open.
TurnsHaveEnd ==
    /\ stream = "up" /\ caller # "closing" /\ turnActive =>
          running \/ inbox > 0 \/ opened > 0 \/ \E i \in Wire : wire[i].kind = "result"
    /\ \A i \in Wire : wire[i].kind = "output" =>
          running \/ \E j \in Wire : j > i /\ wire[j].kind = "result"

\* The CLI makes each request once.
AskedOnce ==
    \A i \in Wire : wire[i].kind = "request" =>
        /\ request[wire[i].req] = "none"
        /\ \A j \in Wire : wire[j] = wire[i] => j = i

\* The CLI waits on nothing when no turn runs, and what it still waits on when
\* a result is on the wire it asked for after that.
AskedAfterResults ==
    /\ running \/ outstanding = {}
    /\ \A i \in Wire : wire[i].kind = "result" =>
          \A r \in outstanding : \E j \in Wire : j > i /\ wire[j] = Request(r)

\* An approval in the map is under its key, undecided and not yet told of.
Unparked(r) == request[r] \in {"none", "spawned"}
InMap ==
    /\ \A k \in Keys, r \in Requests :
          pending[k] = r =>
              /\ keyOf[r] = k /\ request[r] \in {"parked", "raised"}
              /\ settled[r] = 0 /\ r \notin telling /\ r \notin answer
    /\ \A r \in Requests : Unparked(r) => settled[r] = 0 /\ r \notin telling /\ r \notin answer

\* Every approval is asked for once and told of as settled once.
ToldOnce ==
    \A r \in Requests :
        /\ request[r] \in {"none", "spawned", "parked"} => asked[r] = 0
        /\ asked[r] <= 1 /\ settled[r] <= 1
        /\ r \in telling => settled[r] = 0

\* A key is a tool_use id or names its approval, and the request's own id until
\* it is parked.
OwnKey ==
    \A r \in Requests :
        /\ keyOf[r] \in ToolIds \cup {r}
        /\ Unparked(r) => keyOf[r] = r

\* What is parked or has been asked for is in the map until it is told of.
Held ==
    \A r \in Requests :
        (request[r] = "parked" \/ asked[r] > 0) /\ settled[r] = 0 /\ ~pumpEnded =>
            pending[keyOf[r]] = r \/ r \in telling

\* What the CLI waits on is in the map, or another request under its id has
\* been withdrawn.
InReach ==
    \A r \in Requests :
        request[r] \in {"parked", "raised"} /\ r \in outstanding /\ stream = "up" /\ r \notin answer =>
            \/ pending[keyOf[r]] = r
            \/ \E q \in cancelled \ {r} : keyOf[q] = keyOf[r]

SessionInv ==
    /\ TypeOK /\ TurnsBalance /\ TurnsHaveEnd /\ AskedOnce /\ AskedAfterResults
    /\ InMap /\ ToldOnce /\ OwnKey /\ Held /\ InReach

-------------------------------------------------------------------------------
(* The wire: what is written goes to its end, what is read comes off its   *)
(* front.                                                                  *)

LEMMA MessageFields ==
    /\ Output.kind = "output"
    /\ \A n : Result(n).kind = "result"
    /\ \A r : Request(r).kind = "request" /\ Request(r).req = r
    /\ \A r : Withdrawn(r).kind = "withdrawn"
BY DEF Output, Result, Request, Withdrawn

LEMMA MessageTypes ==
    /\ Output \in Messages /\ Result(0) \in Messages /\ Result(1) \in Messages
    /\ \A r \in Requests : Request(r) \in Messages /\ Withdrawn(r) \in Messages
BY DEF Messages

LEMMA RequestsOnWire ==
    ASSUME NEW m \in Messages, m.kind = "request"
    PROVE  m.req \in Requests /\ m = Request(m.req)
BY MessageFields DEF Messages

LEMMA SaysOne ==
    ASSUME wire \in Seq(Messages), NEW m \in Messages, Says(m)
    PROVE  /\ wire' \in Seq(Messages)
           /\ Wire' = Wire \cup {Len(wire) + 1} /\ Len(wire) + 1 \notin Wire
           /\ Len(wire) \in Nat /\ Wire \subseteq Nat /\ \A i \in Wire : Len(wire) + 1 > i
           /\ \A i \in Wire : wire'[i] = wire[i]
           /\ wire'[Len(wire) + 1] = m
<1>1. wire' = Append(wire, m) /\ Len(wire) \in Nat
    BY DEF Says
<1>2. /\ wire' \in Seq(Messages) /\ Len(wire') = Len(wire) + 1
      /\ \A i \in 1..Len(wire) : wire'[i] = wire[i]
      /\ wire'[Len(wire) + 1] = m
    BY <1>1, AppendProperties
<1> QED BY <1>1, <1>2 DEF Wire

LEMMA ReadsOne ==
    ASSUME wire \in Seq(Messages), NEW m, Reads(m)
    PROVE  /\ wire' \in Seq(Messages)
           /\ 1 \in Wire /\ wire[1] = m
           /\ Wire \subseteq Nat /\ Wire' \subseteq Nat
           /\ \A i \in Wire' : i + 1 \in Wire /\ wire'[i] = wire[i + 1]
           /\ \A i \in Wire : i # 1 => i - 1 \in Wire' /\ wire[i] = wire'[i - 1]
<1>1. wire # <<>> /\ Head(wire) = m /\ wire' = Tail(wire)
    BY DEF Reads
<1>2. /\ Len(wire) \in Nat \ {0} /\ wire[1] = m /\ Len(wire') = Len(wire) - 1
      /\ wire' \in Seq(Messages)
    BY <1>1, EmptySeq, HeadTailProperties
<1>3. \A i \in 1..Len(wire') : wire'[i] = wire[i + 1]
    BY <1>1, <1>2, HeadTailProperties
<1> QED BY <1>2, <1>3 DEF Wire

-------------------------------------------------------------------------------
(* Types.                                                                  *)

LEMMA InitTypeOK == Init => TypeOK
<1> SUFFICES ASSUME Init PROVE TypeOK
    OBVIOUS
<1>1. /\ ran \in 0..MaxTurns /\ inbox \in Nat /\ prompts \in Nat /\ checked \in Nat
      /\ opened \in Nat /\ starts \in Nat /\ ends \in Nat
    BY BoundsAssumption DEF Init
<1>2. asked \in [Requests -> Nat] /\ settled \in [Requests -> Nat] /\ wire \in Seq(Messages)
    BY EmptySeq DEF Init
<1>3. keyOf \in [Requests -> Keys] /\ pending \in [Keys -> Requests \cup {Nobody}]
    BY DEF Init, Keys
<1> QED BY <1>1, <1>2, <1>3, Zenon DEF Init, TypeOK

LEMMA EachInNat ==
    ASSUME NEW event \in [Requests -> Nat], NEW rs
    PROVE  [r \in Requests |-> IF r \in rs /\ ~pumpEnded THEN event[r] + 1 ELSE event[r]]
              \in [Requests -> Nat]
OBVIOUS

LEMMA CliTypeOK == TypeOK /\ Cli => TypeOK'
<1> SUFFICES ASSUME TypeOK, Cli PROVE TypeOK'
    OBVIOUS
<1> USE DEF TypeOK, clientVars, approvalVars, turnVars, promptVars, endVars
<1>1. CASE TakesPrompt
    <2>1. inbox' \in Nat
        BY <1>1 DEF TakesPrompt
    <2>2. CASE running
        BY <1>1, <2>1, <2>2 DEF TakesPrompt
    <2>3. CASE ~running
        <3>1. ran' = ran + 1 /\ ran < MaxTurns /\ running' = TRUE
            BY <1>1, <2>3 DEF TakesPrompt
        <3>2. ran' \in 0..MaxTurns
            BY <3>1, BoundsAssumption
        <3> QED BY <1>1, <2>1, <3>1, <3>2 DEF TakesPrompt
    <2> QED BY <2>2, <2>3
<1>2. CASE Speaks
    <2>1. wire' \in Seq(Messages)
        BY <1>2, MessageTypes, SaysOne DEF Speaks
    <2> QED BY <1>2, <2>1 DEF Speaks
<1>3. CASE EndsTurn
    <2>1. wire' \in Seq(Messages)
        BY <1>3, MessageTypes, SaysOne DEF EndsTurn
    <2> QED BY <1>3, <2>1 DEF EndsTurn
<1>4. CASE Settles
    <2>1. wire' \in Seq(Messages)
        BY <1>4, MessageTypes, SaysOne DEF Settles
    <2> QED BY <1>4, <2>1 DEF Settles
<1>5. CASE CliExits
    BY <1>5 DEF CliExits
<1>6. ASSUME NEW r \in Requests, Asks(r) PROVE TypeOK'
    <2>1. wire' \in Seq(Messages)
        BY <1>6, MessageTypes, SaysOne DEF Asks
    <2> QED BY <1>6, <2>1 DEF Asks
<1>7. ASSUME NEW r \in Requests, Withdraws(r) PROVE TypeOK'
    <2>1. wire' \in Seq(Messages)
        BY <1>7, MessageTypes, SaysOne DEF Withdraws
    <2> QED BY <1>7, <2>1 DEF Withdraws
<1> QED BY <1>1, <1>2, <1>3, <1>4, <1>5, <1>6, <1>7 DEF Cli

LEMMA ReadTypeOK == TypeOK /\ ReadLoop => TypeOK'
<1> SUFFICES ASSUME TypeOK, ReadLoop PROVE TypeOK'
    OBVIOUS
<1> USE DEF TypeOK, clientVars, approvalVars, turnVars, promptVars, endVars
<1>1. ASSUME NEW m, Reads(m) PROVE wire' \in Seq(Messages)
    BY <1>1, ReadsOne
<1>2. CASE ReadOutput
    <2>1. starts' \in Nat /\ turnActive' \in BOOLEAN
        BY <1>2 DEF ReadOutput, openTurnLocked, Count
    <2>2. wire' \in Seq(Messages)
        BY <1>1, <1>2 DEF ReadOutput
    <2> QED BY <1>2, <2>1, <2>2 DEF ReadOutput, Reads
<1>3. CASE ReadResult
    <2>1. wire' \in Seq(Messages)
        BY <1>1, <1>3 DEF ReadResult
    <2>2. starts' \in Nat /\ ends' \in Nat
        BY <1>3 DEF ReadResult, Count
    <2>3. settled' \in [Requests -> Nat]
        <3>1. settled' = settled \/ CountEach(settled, Parked)
            BY <1>3 DEF ReadResult
        <3>2. settled \in [Requests -> Nat]
            OBVIOUS
        <3>3. ASSUME CountEach(settled, Parked) PROVE settled' \in [Requests -> Nat]
            BY ONLY <3>2, <3>3, EachInNat, Zenon DEF CountEach
        <3> QED BY <3>1, <3>2, <3>3
    <2>4. pending' \in [Keys -> Requests \cup {Nobody}] /\ turnActive' \in BOOLEAN
        BY <1>3 DEF ReadResult
    <2> QED BY <1>3, <2>1, <2>2, <2>3, <2>4 DEF ReadResult, Reads
<1>4. CASE StreamDone
    BY <1>4 DEF StreamDone
<1>5. ASSUME NEW r \in Requests, ReadRequest(r) PROVE TypeOK'
    <2>1. wire' \in Seq(Messages)
        BY <1>1, <1>5 DEF ReadRequest
    <2> QED BY <1>5, <2>1 DEF ReadRequest, Reads
<1>6. ASSUME NEW r \in Requests, ReadWithdrawn(r) PROVE TypeOK'
    <2>1. wire' \in Seq(Messages)
        BY <1>1, <1>6 DEF ReadWithdrawn
    <2> QED BY <1>6, <2>1 DEF ReadWithdrawn, Reads
<1> QED BY <1>2, <1>3, <1>4, <1>5, <1>6 DEF ReadLoop

LEMMA CallerTypeOK ==
    TypeOK /\ (PromptCheck \/ PromptOpen \/ PromptSend \/ CallClose \/ CallKill \/ Ending) => TypeOK'
<1> SUFFICES ASSUME TypeOK,
                    PromptCheck \/ PromptOpen \/ PromptSend \/ CallClose \/ CallKill \/ Ending
             PROVE  TypeOK'
    OBVIOUS
<1> USE DEF TypeOK, cliVars, clientVars, approvalVars, turnVars, promptVars, endVars
<1>1. CASE PromptCheck
    <2>1. prompts' \in Nat /\ checked' \in Nat
        BY <1>1 DEF PromptCheck
    <2> QED BY <1>1, <2>1 DEF PromptCheck
<1>2. CASE PromptOpen
    <2>1. checked' \in Nat /\ opened' \in Nat /\ starts' \in Nat /\ turnActive' \in BOOLEAN
        BY <1>2 DEF PromptOpen, Opens, openTurnLocked, Count
    <2> QED BY <1>2, <2>1 DEF PromptOpen, Opens
<1>3. CASE PromptSend
    <2>1. opened' \in Nat /\ inbox' \in Nat
        BY <1>3 DEF PromptSend
    <2> QED BY <1>3, <2>1 DEF PromptSend
<1>4. CASE CallClose
    BY <1>4 DEF CallClose
<1>5. CASE CallKill
    BY <1>5 DEF CallKill
<1>6. CASE CallReturns
    <2>1. pumpEnded' \in BOOLEAN
        BY <1>6, Zenon DEF CallReturns
    <2> QED BY <1>6, <2>1 DEF CallReturns
<1>7. CASE WatchLooks
    BY <1>7 DEF WatchLooks
<1>8. CASE WatchReports
    <2>1. ends' \in Nat
        BY <1>8 DEF WatchReports, Count
    <2> QED BY <1>8, <2>1 DEF WatchReports
<1>9. CASE WatchEnds
    BY <1>9 DEF WatchEnds
<1> QED BY <1>1, <1>2, <1>3, <1>4, <1>5, <1>6, <1>7, <1>8, <1>9 DEF Ending

LEMMA ApprovalTypeOK ==
    ASSUME TypeOK,
           \/ \E r \in Requests : Goroutine(r) \/ TellResolved(r)
           \/ \E k \in Keys : Resolve(k)
    PROVE  TypeOK'
<1> USE DEF TypeOK, cliVars, clientVars, approvalVars, turnVars, promptVars, endVars
<1>1. ASSUME NEW r \in Requests, Park(r) PROVE TypeOK'
    <2>1. PICK k \in Keys : pending' = [pending EXCEPT ![k] = r] /\ keyOf' = [keyOf EXCEPT ![r] = k]
        BY <1>1 DEF Park, Keys
    <2>2. /\ pending' \in [Keys -> Requests \cup {Nobody}] /\ keyOf' \in [Requests -> Keys]
        BY <2>1
    <2>3. request' \in [Requests -> {"none", "spawned", "parked", "raised", "replying", "gone"}]
        BY <1>1 DEF Park, Goes
    <2> QED BY <1>1, <2>2, <2>3 DEF Park
<1>2. ASSUME NEW r \in Requests, Raise(r) PROVE TypeOK'
    <2>1. asked' \in [Requests -> Nat]
        BY <1>2, EachInNat DEF Raise, CountEach
    <2> QED BY <1>2, <2>1 DEF Raise, Goes
<1>3. ASSUME NEW r \in Requests, TakeAnswer(r) \/ Serve(r) PROVE TypeOK'
    <2>1. CASE TakeAnswer(r)
        BY <2>1 DEF TakeAnswer, Goes
    <2>2. CASE Serve(r)
        BY <2>2 DEF Serve, Goes
    <2> QED BY <1>3, <2>1, <2>2
<1>4. ASSUME NEW r \in Requests, GiveUp(r) PROVE TypeOK'
    <2>1. telling' \subseteq Requests /\ pending' \in [Keys -> Requests \cup {Nobody}]
        BY <1>4 DEF GiveUp
    <2> QED BY <1>4, <2>1 DEF GiveUp, Goes
<1>5. ASSUME NEW r \in Requests, Reply(r) PROVE TypeOK'
    BY <1>5 DEF Reply, Goes
<1>6. ASSUME NEW r \in Requests, TellResolved(r) PROVE TypeOK'
    <2>1. settled' \in [Requests -> Nat]
        BY <1>6, EachInNat DEF TellResolved, CountEach
    <2> QED BY <1>6, <2>1 DEF TellResolved
<1>7. ASSUME NEW k \in Keys, Resolve(k) PROVE TypeOK'
    <2>1. pending[k] \in Requests
        BY <1>7 DEF Resolve
    <2> QED BY <1>7, <2>1 DEF Resolve
<1> QED BY <1>1, <1>2, <1>3, <1>4, <1>5, <1>6, <1>7 DEF Goroutine

LEMMA NextTypeOK == TypeOK /\ [Next]_vars => TypeOK'
<1>1. TypeOK /\ UNCHANGED vars => TypeOK'
    BY DEF TypeOK, vars, cliVars, clientVars, approvalVars, turnVars, promptVars, endVars
<1> QED
    BY <1>1, CliTypeOK, ReadTypeOK, CallerTypeOK, ApprovalTypeOK DEF Next

\* Every variable keeps its type.
THEOREM TypeCorrect == Spec => []TypeOK
BY InitTypeOK, NextTypeOK, PTL DEF Spec

-------------------------------------------------------------------------------
(* The turns.                                                              *)

LEMMA InitTurnsBalance == Init => TurnsBalance
BY DEF Init, TurnsBalance

LEMMA ReadsMeansLive ==
    ASSUME TypeOK, TurnsBalance, NEW m, Reads(m)
    PROVE  stream # "done" /\ watch = "waiting" /\ pumpEnded = FALSE /\ stream' # "done"
BY DEF Reads, TurnsBalance, TypeOK

LEMMA OpensTurn ==
    ASSUME TypeOK, openTurnLocked
    PROVE  /\ turnActive' = TRUE
           /\ starts' = IF ~turnActive /\ ~pumpEnded THEN starts + 1 ELSE starts
BY DEF openTurnLocked, Count, TypeOK

\* A result closes the turn, and opens it first if nobody had.
LEMMA ResultEndsTurn ==
    ASSUME TypeOK, TurnsBalance, ReadResult
    PROVE  \/ UNCHANGED <<turnVars, pending, settled>>
           \/ /\ turnActive' = FALSE
              /\ starts' = IF turnActive THEN starts ELSE starts + 1
              /\ ends' = ends + 1
              /\ pending' = [k \in Keys |-> Nobody]
              /\ settled' = [r \in Requests |-> IF r \in Parked THEN settled[r] + 1 ELSE settled[r]]
<1>1. pumpEnded = FALSE
    BY ReadsMeansLive DEF ReadResult
<1>2. UNCHANGED <<turnVars, pending, settled>>
      \/ /\ turnActive' = FALSE
         /\ Count(starts, IF turnActive THEN 0 ELSE 1)
         /\ Count(ends, 1)
         /\ pending' = [k \in Keys |-> Nobody]
         /\ CountEach(settled, Parked)
    BY DEF ReadResult
<1>3. Count(starts, IF turnActive THEN 0 ELSE 1) =>
          starts' = IF turnActive THEN starts ELSE starts + 1
    BY <1>1 DEF Count, TypeOK
<1>4. Count(ends, 1) => ends' = ends + 1
    BY <1>1 DEF Count
<1>5. CountEach(settled, Parked) =>
          settled' = [r \in Requests |-> IF r \in Parked THEN settled[r] + 1 ELSE settled[r]]
    BY <1>1 DEF CountEach
<1> QED BY <1>2, <1>3, <1>4, <1>5

LEMMA NextTurnsBalance == TypeOK /\ TurnsBalance /\ [Next]_vars => TurnsBalance'
<1> SUFFICES ASSUME TypeOK, TurnsBalance, [Next]_vars PROVE TurnsBalance'
    OBVIOUS
<1>1. ASSUME stream # "done", stream' # "done", UNCHANGED <<watch, pumpEnded, turnVars>> PROVE TurnsBalance'
    BY <1>1 DEF TurnsBalance, turnVars
<1>2. CASE UNCHANGED <<stream, wire, watch, pumpEnded, turnVars>>
    BY <1>2 DEF TurnsBalance, turnVars
<1>3. CASE Cli
    <2>1. CASE TakesPrompt
        BY <1>2, <2>1 DEF TakesPrompt, endVars
    <2>2. CASE ~TakesPrompt
        <3>1. stream # "done" /\ stream' # "done" /\ UNCHANGED <<watch, pumpEnded, turnVars>>
            BY <1>3, <2>2 DEF Cli, Speaks, EndsTurn, Settles, CliExits, Asks, Withdraws, Says,
                  endVars
        <3> QED BY <1>1, <3>1
    <2> QED BY <2>1, <2>2
<1>4. CASE ReadOutput
    <2>1. stream # "done" /\ stream' # "done" /\ watch = "waiting" /\ pumpEnded = FALSE
        BY <1>4, ReadsMeansLive DEF ReadOutput
    <2>2. UNCHANGED <<watch, pumpEnded, ends>>
        BY <1>4 DEF ReadOutput, endVars
    <2>3. starts' = ends' + 1
        <3>1. starts' = IF ~turnActive THEN starts + 1 ELSE starts
            BY <1>4, <2>1, OpensTurn DEF ReadOutput
        <3>2. starts = IF turnActive THEN ends + 1 ELSE ends
            BY <2>1 DEF TurnsBalance
        <3> QED BY <2>2, <3>1, <3>2
    <2>4. turnActive' = TRUE
        BY <1>4, OpensTurn DEF ReadOutput
    <2> QED BY <2>1, <2>2, <2>3, <2>4 DEF TurnsBalance
<1>5. CASE ReadResult
    <2>1. stream # "done" /\ stream' # "done" /\ watch = "waiting" /\ pumpEnded = FALSE
        BY <1>5, ReadsMeansLive DEF ReadResult
    <2>2. UNCHANGED <<watch, pumpEnded>>
        BY <1>5 DEF ReadResult, endVars
    <2>3. CASE UNCHANGED turnVars
        BY <1>1, <2>1, <2>2, <2>3
    <2>4. CASE ~UNCHANGED turnVars
        <3>1. /\ turnActive' = FALSE /\ starts' = (IF turnActive THEN starts ELSE starts + 1)
              /\ ends' = ends + 1
            BY <1>5, <2>4, ResultEndsTurn DEF turnVars
        <3>2. starts' = ends'
            BY <2>1, <3>1 DEF TurnsBalance, TypeOK
        <3>3. ends' \in Nat
            BY <3>1 DEF TypeOK
        <3> QED BY <2>1, <2>2, <3>1, <3>2, <3>3 DEF TurnsBalance
    <2> QED BY <2>3, <2>4
<1>6. ASSUME NEW r \in Requests, ReadRequest(r) \/ ReadWithdrawn(r) PROVE TurnsBalance'
    <2>1. stream # "done" /\ stream' # "done"
        BY <1>6, ReadsMeansLive DEF ReadRequest, ReadWithdrawn
    <2> QED BY <1>1, <1>6, <2>1 DEF ReadRequest, ReadWithdrawn, endVars
<1>7. CASE StreamDone
    <2>1. stream' = "done" /\ wire' = <<>> /\ UNCHANGED <<watch, pumpEnded, turnVars>>
        BY <1>7 DEF StreamDone, endVars
    <2> QED BY <2>1 DEF TurnsBalance, turnVars
<1>8. CASE PromptOpen
    <2>1. UNCHANGED <<stream, wire, watch, pumpEnded, ends>>
        BY <1>8 DEF PromptOpen, Opens, cliVars, endVars
    <2>2. turnActive' = TRUE
        BY <1>8, OpensTurn DEF PromptOpen
    <2>3. starts' = IF ~turnActive /\ ~pumpEnded THEN starts + 1 ELSE starts
        BY <1>8, OpensTurn DEF PromptOpen
    <2>4. watch = "waiting" /\ ~pumpEnded => starts' = ends + 1
        BY <2>3 DEF TurnsBalance, TypeOK
    <2>5. watch = "reporting" /\ ~pumpEnded => starts' = ends + 2
        BY <2>3 DEF TurnsBalance, TypeOK
    <2>6. watch = "ending" /\ ~pumpEnded => starts' = ends + 1
        BY <2>3 DEF TurnsBalance, TypeOK
    <2> QED BY <2>1, <2>2, <2>4, <2>5, <2>6 DEF TurnsBalance
<1>9. CASE CallKill
    BY <1>1, <1>9 DEF CallKill
<1>10. CASE CallReturns
    <2>1. stream = "done" /\ UNCHANGED <<stream, wire, watch, turnVars>> /\ (~pumpEnded' => ~pumpEnded)
        BY <1>10 DEF CallReturns, cliVars
    <2> QED BY <2>1 DEF TurnsBalance, turnVars
<1>11. CASE WatchLooks
    <2>1. /\ watch = "waiting" /\ stream = "done" /\ UNCHANGED <<stream, wire, pumpEnded, starts, ends>>
          /\ watch' = (IF turnActive THEN "reporting" ELSE "ending") /\ turnActive' = FALSE
        BY <1>11 DEF WatchLooks, cliVars
    <2>2. ~pumpEnded => starts = IF turnActive THEN ends + 1 ELSE ends
        BY <2>1 DEF TurnsBalance
    <2> QED BY <2>1, <2>2 DEF TurnsBalance
<1>12. CASE WatchReports
    <2>1. /\ watch = "reporting" /\ watch' = "ending"
          /\ UNCHANGED <<stream, wire, turnActive, starts, pumpEnded>>
          /\ ~pumpEnded => ends' = ends + 1
        BY <1>12 DEF WatchReports, Count, cliVars
    <2>2. ~pumpEnded => starts = IF turnActive THEN ends' + 1 ELSE ends'
        BY <2>1 DEF TurnsBalance, TypeOK
    <2> QED BY <2>1, <2>2 DEF TurnsBalance
<1>14. CASE WatchEnds
    <2>1. UNCHANGED <<stream, wire>> /\ watch' = "finished" /\ watch = "ending"
        BY <1>14 DEF WatchEnds, cliVars
    <2> QED BY <2>1 DEF TurnsBalance
<1>13. CASE PromptCheck \/ PromptSend \/ CallClose \/ UNCHANGED vars
            \/ (\E k \in Keys : Resolve(k)) \/ \E r \in Requests : Goroutine(r) \/ TellResolved(r)
    BY <1>2, <1>13 DEF PromptCheck, PromptSend, CallClose, Resolve, Goroutine, Park, Raise,
          TakeAnswer, GiveUp, Serve, Reply, TellResolved, vars, cliVars, endVars
<1> QED
    BY <1>3, <1>4, <1>5, <1>6, <1>7, <1>8, <1>9, <1>10, <1>11, <1>12, <1>13, <1>14
       DEF Next, ReadLoop, Ending

LEMMA InitTurnsHaveEnd == Init => TurnsHaveEnd
BY DEF Init, TurnsHaveEnd, Wire

\* A step that writes nothing, reads nothing and ends no turn.
LEMMA KeepsTurnsHaveEnd ==
    ASSUME TurnsHaveEnd, UNCHANGED <<wire, running, turnActive>>,
           stream' = "up" => stream = "up", stream' = "up" /\ caller = "closing" => caller' = "closing",
           inbox' >= inbox, opened' >= opened, inbox \in Nat, opened \in Nat,
           inbox' \in Nat, opened' \in Nat
    PROVE  TurnsHaveEnd'
BY DEF TurnsHaveEnd, Wire

\* What is written goes behind what is there, and only a result ends a turn.
LEMMA SaysTurnsHaveEnd ==
    ASSUME TypeOK, TurnsHaveEnd, NEW m \in Messages, Says(m), UNCHANGED <<stream, turnActive, inbox, opened, caller>>,
           running' = running \/ m.kind = "result", m.kind = "output" => running
    PROVE  TurnsHaveEnd'
<1> USE SaysOne DEF TypeOK
<1>1. m.kind = "result" => \E i \in Wire' : wire'[i].kind = "result"
    OBVIOUS
<1>2. (\E i \in Wire : wire[i].kind = "result") => \E i \in Wire' : wire'[i].kind = "result"
    OBVIOUS
<1>3. ASSUME NEW i \in Wire', wire'[i].kind = "output"
      PROVE  running' \/ \E j \in Wire' : j > i /\ wire'[j].kind = "result"
    <2>1. CASE i = Len(wire) + 1
        BY <1>3, <2>1
    <2>2. CASE i \in Wire
        <3>1. running \/ \E j \in Wire : j > i /\ wire[j].kind = "result"
            BY <1>3, <2>2 DEF TurnsHaveEnd
        <3>2. (\E j \in Wire : j > i /\ wire[j].kind = "result") =>
                  \E j \in Wire' : j > i /\ wire'[j].kind = "result"
            OBVIOUS
        <3>3. m.kind = "result" => \E j \in Wire' : j > i /\ wire'[j].kind = "result"
            BY <2>2
        <3> QED BY <3>1, <3>2, <3>3
    <2> QED BY <2>1, <2>2
<1> QED BY <1>1, <1>2, <1>3 DEF TurnsHaveEnd

\* What is read comes off the front: the result behind an output stays.
LEMMA ReadsTurnsHaveEnd ==
    ASSUME TypeOK, TurnsHaveEnd, NEW m, Reads(m), UNCHANGED <<opened, caller>>,
           m.kind = "result" => turnActive' = FALSE,
           m.kind # "result" /\ turnActive' => turnActive \/ m.kind = "output"
    PROVE  TurnsHaveEnd'
<1> USE ReadsOne DEF TypeOK
<1>1. UNCHANGED <<stream, running, inbox>>
    BY DEF Reads
<1>2. ASSUME m.kind # "result", NEW i \in Wire, wire[i].kind = "result"
      PROVE  \E j \in Wire' : wire'[j].kind = "result"
    BY <1>2
<1>3. m.kind = "output" => running \/ \E i \in Wire : wire[i].kind = "result"
    BY DEF TurnsHaveEnd
<1>4. stream' = "up" /\ caller' # "closing" /\ turnActive' =>
          running' \/ inbox' > 0 \/ opened' > 0 \/ \E i \in Wire' : wire'[i].kind = "result"
    BY <1>1, <1>2, <1>3 DEF TurnsHaveEnd
<1>5. ASSUME NEW i \in Wire', wire'[i].kind = "output"
      PROVE  running' \/ \E j \in Wire' : j > i /\ wire'[j].kind = "result"
    <2>1. i + 1 \in Wire /\ wire[i + 1].kind = "output"
        BY <1>5
    <2>2. CASE running
        BY <1>1, <2>2
    <2>3. CASE ~running
        <3>1. PICK j \in Wire : j > i + 1 /\ wire[j].kind = "result"
            BY <2>1, <2>3 DEF TurnsHaveEnd
        <3>2. j # 1 /\ j - 1 \in Wire' /\ wire'[j - 1] = wire[j] /\ j - 1 > i
            BY <3>1
        <3> QED BY <3>1, <3>2
    <2> QED BY <2>2, <2>3
<1> QED BY <1>4, <1>5 DEF TurnsHaveEnd

LEMMA NextTurnsHaveEnd ==
    TypeOK /\ TurnsBalance /\ TurnsHaveEnd /\ [Next]_vars => TurnsHaveEnd'
<1> SUFFICES ASSUME TypeOK, TurnsBalance, TurnsHaveEnd, [Next]_vars PROVE TurnsHaveEnd'
    OBVIOUS
<1>1. inbox \in Nat /\ opened \in Nat
    BY DEF TypeOK
<1>2. CASE TakesPrompt
    BY <1>2, <1>1 DEF TakesPrompt, TurnsHaveEnd, Wire, turnVars, promptVars, endVars, TypeOK
<1>3. CASE Speaks
    BY <1>3, SaysTurnsHaveEnd, MessageTypes, MessageFields
       DEF Speaks, turnVars, promptVars, endVars
<1>4. ASSUME NEW r \in Requests, Asks(r) \/ Withdraws(r) PROVE TurnsHaveEnd'
    BY <1>4, SaysTurnsHaveEnd, MessageTypes, MessageFields
       DEF Asks, Withdraws, turnVars, promptVars, endVars
<1>5. CASE EndsTurn
    BY <1>5, SaysTurnsHaveEnd, MessageTypes, MessageFields
       DEF EndsTurn, turnVars, promptVars, endVars
<1>6. CASE Settles
    BY <1>6, SaysTurnsHaveEnd, MessageTypes, MessageFields
       DEF Settles, turnVars, promptVars, endVars
<1>7. CASE ReadOutput
    BY <1>7, ReadsTurnsHaveEnd, MessageFields DEF ReadOutput, promptVars, endVars
<1>8. CASE ReadResult
    <2>1. PICK n \in {0, 1} : Reads(Result(n)) /\ turnActive' = FALSE
        BY <1>8 DEF ReadResult, turnVars, TypeOK
    <2>2. UNCHANGED <<opened, caller>>
        BY <1>8 DEF ReadResult, promptVars, endVars
    <2> QED BY <2>1, <2>2, ReadsTurnsHaveEnd, MessageFields
<1>9. ASSUME NEW r \in Requests, ReadRequest(r) \/ ReadWithdrawn(r) PROVE TurnsHaveEnd'
    <2>1. PICK m : Reads(m) /\ m.kind \notin {"result", "output"}
        BY <1>9, MessageFields DEF ReadRequest, ReadWithdrawn
    <2>2. UNCHANGED <<turnActive, opened, caller>>
        BY <1>9 DEF ReadRequest, ReadWithdrawn, turnVars, promptVars, endVars
    <2> QED BY <2>1, <2>2, ReadsTurnsHaveEnd
<1>10. CASE PromptOpen
    <2>1. opened' = opened + 1 /\ UNCHANGED <<wire, running>>
        BY <1>10 DEF PromptOpen, Opens, cliVars
    <2> QED BY <2>1, <1>1 DEF TurnsHaveEnd, Wire
<1>11. CASE PromptSend
    <2>1. UNCHANGED <<stream, wire, running, turnActive, caller>>
        BY <1>11 DEF PromptSend, turnVars, endVars
    <2>2. stream = "up" /\ caller # "closing" => inbox' = inbox + 1
        BY <1>11 DEF PromptSend
    <2> QED BY <2>1, <2>2, <1>1 DEF TurnsHaveEnd, Wire
<1>12. CASE StreamDone \/ CallReturns
    <2>1. stream' = "done" /\ UNCHANGED <<wire, running>>
        BY <1>12 DEF StreamDone, CallReturns, cliVars
    <2> QED BY <2>1 DEF TurnsHaveEnd, Wire
<1>13. CASE WatchLooks
    <2>1. turnActive' = FALSE /\ UNCHANGED <<wire, running>>
        BY <1>13 DEF WatchLooks, cliVars
    <2> QED BY <2>1 DEF TurnsHaveEnd, Wire
<1>14. CASE \/ CliExits \/ PromptCheck \/ CallClose \/ CallKill \/ WatchReports \/ WatchEnds
            \/ (\E k \in Keys : Resolve(k)) \/ (\E r \in Requests : Goroutine(r) \/ TellResolved(r))
            \/ UNCHANGED vars
    <2>1. /\ UNCHANGED <<wire, running, turnActive, inbox, opened>>
          /\ stream' = "up" => stream = "up"
          /\ caller = "closing" => caller' = "closing"
        BY <1>14 DEF CliExits, PromptCheck, CallClose, CallKill, WatchReports, WatchEnds, Resolve,
              Goroutine, Park, Raise, TakeAnswer, GiveUp, Serve, Reply, TellResolved, vars,
              cliVars, turnVars, promptVars, endVars
    <2> QED BY <1>1, <2>1, KeepsTurnsHaveEnd
<1> QED
    BY <1>2, <1>3, <1>4, <1>5, <1>6, <1>7, <1>8, <1>9, <1>10, <1>11, <1>12, <1>13, <1>14
       DEF Next, Cli, ReadLoop, Ending

-------------------------------------------------------------------------------
(* The requests on the wire.                                               *)

LEMMA InitAskedOnce == Init => AskedOnce /\ AskedAfterResults
<1> SUFFICES ASSUME Init PROVE AskedOnce /\ AskedAfterResults
    OBVIOUS
<1>1. Wire = {} /\ outstanding = {}
    BY DEF Init, Wire
<1> QED BY <1>1 DEF AskedOnce, AskedAfterResults

\* Steps that leave the stream, and what none is waiting to be read, alone.
LEMMA KeepsAskedOnce ==
    ASSUME AskedOnce, UNCHANGED wire,
           \A r \in Requests : request[r] = "none" => request'[r] = "none",
           TypeOK
    PROVE  AskedOnce'
<1> SUFFICES ASSUME NEW i \in Wire, wire[i].kind = "request"
             PROVE  request'[wire[i].req] = "none" /\ \A j \in Wire : wire[j] = wire[i] => j = i
    BY DEF AskedOnce, Wire
<1>1. wire[i].req \in Requests
    BY RequestsOnWire, ElementOfSeq DEF Wire, TypeOK
<1> QED BY <1>1 DEF AskedOnce

LEMMA SaysAskedOnce ==
    ASSUME TypeOK, AskedOnce, NEW m \in Messages, Says(m), UNCHANGED request,
           m.kind = "request" => m.req \notin Requested
    PROVE  AskedOnce'
<1>1. ASSUME m.kind = "request"
      PROVE  request[m.req] = "none" /\ \A i \in Wire : wire[i] # m
    <2>1. m.req \in Requests /\ m = Request(m.req)
        BY <1>1, RequestsOnWire
    <2> QED BY <1>1, <2>1 DEF Requested, Wire
<1>2. /\ Wire' = Wire \cup {Len(wire) + 1} /\ Len(wire) + 1 \notin Wire
      /\ wire'[Len(wire) + 1] = m /\ \A i \in Wire : wire'[i] = wire[i]
    BY SaysOne DEF TypeOK
<1> SUFFICES ASSUME NEW i \in Wire', wire'[i].kind = "request"
             PROVE  /\ request[wire'[i].req] = "none"
                    /\ \A j \in Wire' : wire'[j] = wire'[i] => j = i
    BY DEF AskedOnce
<1>3. CASE i = Len(wire) + 1
    BY <1>1, <1>2, <1>3
<1>4. CASE i # Len(wire) + 1
    <2>1. i \in Wire /\ wire'[i] = wire[i]
        BY <1>2, <1>4
    <2>2. wire[i] # m
        BY <1>1, <2>1
    <2> QED BY <1>2, <2>1, <2>2 DEF AskedOnce
<1> QED BY <1>3, <1>4

LEMMA ReadsAskedOnce ==
    ASSUME TypeOK, AskedOnce, NEW m, Reads(m),
           \A r \in Requests : request'[r] = request[r] \/ m = Request(r)
    PROVE  AskedOnce'
<1> SUFFICES ASSUME NEW i \in Wire', wire'[i].kind = "request"
             PROVE  /\ request'[wire'[i].req] = "none"
                    /\ \A j \in Wire' : wire'[j] = wire'[i] => j = i
    BY DEF AskedOnce
<1>1. /\ i \in Nat /\ i + 1 \in Wire /\ wire'[i] = wire[i + 1]
      /\ 1 \in Wire /\ wire[1] = m
    BY ReadsOne DEF TypeOK
<1>2. wire[i + 1].req \in Requests /\ wire[i + 1] = Request(wire[i + 1].req)
    BY <1>1, RequestsOnWire, ElementOfSeq DEF Wire, TypeOK
<1>3. m # wire[i + 1]
    <2>1. wire[1] = wire[i + 1] => 1 = i + 1
        BY <1>1 DEF AskedOnce
    <2>2. Wire' \subseteq Nat /\ \A j \in Wire' : j # 0
        BY ReadsOne DEF TypeOK, Wire
    <2> QED BY <1>1, <2>1, <2>2
<1>4. request'[wire'[i].req] = "none"
    BY <1>1, <1>2, <1>3 DEF AskedOnce
<1>5. ASSUME NEW j \in Wire', wire'[j] = wire'[i] PROVE j = i
    <2>1. j \in Nat /\ j + 1 \in Wire /\ wire[j + 1] = wire[i + 1]
        BY <1>1, <1>5, ReadsOne DEF TypeOK
    <2>2. j + 1 = i + 1
        BY <1>1, <2>1 DEF AskedOnce
    <2> QED BY <1>1, <2>1, <2>2
<1> QED BY <1>4, <1>5

LEMMA NextAskedOnce == TypeOK /\ AskedOnce /\ [Next]_vars => AskedOnce'
<1> SUFFICES ASSUME TypeOK, AskedOnce, [Next]_vars PROVE AskedOnce'
    OBVIOUS
<1>1. CASE UNCHANGED <<wire, request>>
    BY <1>1, KeepsAskedOnce
<1>2. CASE Speaks \/ EndsTurn \/ Settles
    <2>1. PICK m \in Messages : Says(m) /\ m.kind # "request"
        BY <1>2, MessageTypes, MessageFields DEF Speaks, EndsTurn, Settles
    <2> QED BY <1>2, <2>1, SaysAskedOnce DEF Speaks, EndsTurn, Settles
<1>3. ASSUME NEW r \in Requests, Asks(r) PROVE AskedOnce'
    BY <1>3, SaysAskedOnce, MessageTypes, MessageFields DEF Asks
<1>4. ASSUME NEW r \in Requests, Withdraws(r) PROVE AskedOnce'
    BY <1>4, SaysAskedOnce, MessageTypes, MessageFields DEF Withdraws
<1>5. CASE ReadOutput \/ ReadResult \/ \E r \in Requests : ReadWithdrawn(r)
    <2>1. PICK m : Reads(m) /\ UNCHANGED request
        BY <1>5 DEF ReadOutput, ReadResult, ReadWithdrawn
    <2> QED BY <2>1, ReadsAskedOnce
<1>6. ASSUME NEW r \in Requests, ReadRequest(r) PROVE AskedOnce'
    <2>1. Reads(Request(r)) /\ \A q \in Requests : q # r => request'[q] = request[q]
        BY <1>6 DEF ReadRequest, TypeOK
    <2> QED BY <2>1, ReadsAskedOnce
<1>7. ASSUME NEW r \in Requests, Goroutine(r) PROVE AskedOnce'
    <2>1. PICK from, to : Goes(r, from, to) /\ from # "none"
        BY <1>7 DEF Goroutine, Park, Raise, TakeAnswer, GiveUp, Serve, Reply
    <2>2. UNCHANGED wire
        BY <1>7 DEF Goroutine, Park, Raise, TakeAnswer, GiveUp, Serve, Reply, cliVars
    <2>3. \A q \in Requests : request[q] = "none" => request'[q] = "none"
        BY <2>1 DEF Goes, TypeOK
    <2> QED BY <2>2, <2>3, KeepsAskedOnce
<1>8. CASE TakesPrompt \/ CliExits \/ StreamDone \/ PromptCheck \/ PromptOpen \/ PromptSend
           \/ CallClose \/ CallKill \/ Ending \/ UNCHANGED vars
           \/ (\E k \in Keys : Resolve(k)) \/ \E r \in Requests : TellResolved(r)
    BY <1>1, <1>8 DEF TakesPrompt, CliExits, StreamDone, PromptCheck, PromptOpen, Opens, PromptSend,
          CallClose, CallKill, Ending, CallReturns, WatchLooks, WatchReports, WatchEnds, Resolve,
          TellResolved, vars, cliVars
<1> QED BY <1>2, <1>3, <1>4, <1>5, <1>6, <1>7, <1>8 DEF Next, Cli, ReadLoop

LEMMA KeepsAskedAfter ==
    ASSUME AskedAfterResults, UNCHANGED wire, outstanding' \subseteq outstanding,
           running => running'
    PROVE  AskedAfterResults'
BY DEF AskedAfterResults, Wire

LEMMA ReadsAskedAfter ==
    ASSUME TypeOK, AskedAfterResults, NEW m, Reads(m) PROVE AskedAfterResults'
<1>1. UNCHANGED <<running, outstanding>>
    BY DEF Reads
<1> SUFFICES ASSUME NEW i \in Wire', wire'[i].kind = "result", NEW r \in outstanding
             PROVE  \E j \in Wire' : j > i /\ wire'[j] = Request(r)
    BY <1>1 DEF AskedAfterResults
<1>2. i \in Nat /\ i + 1 \in Wire /\ wire'[i] = wire[i + 1]
    BY ReadsOne DEF TypeOK
<1>3. PICK j \in Wire : j > i + 1 /\ wire[j] = Request(r)
    BY <1>2 DEF AskedAfterResults
<1>4. j \in Nat /\ j # 1 /\ j - 1 > i
    BY <1>2, <1>3, ReadsOne DEF TypeOK
<1>5. j - 1 \in Wire' /\ wire'[j - 1] = wire[j]
    BY <1>4, ReadsOne DEF TypeOK
<1> QED BY <1>3, <1>4, <1>5

LEMMA NextAskedAfter == TypeOK /\ AskedAfterResults /\ [Next]_vars => AskedAfterResults'
<1> SUFFICES ASSUME TypeOK, AskedAfterResults, [Next]_vars PROVE AskedAfterResults'
    OBVIOUS
<1>1. CASE UNCHANGED <<wire, running, outstanding>>
    BY <1>1, KeepsAskedAfter
<1>2. CASE Speaks \/ \E r \in Requests : Withdraws(r)
    <2>1. PICK m \in Messages : Says(m) /\ m.kind # "result"
        BY <1>2, MessageTypes, MessageFields DEF Speaks, Withdraws
    <2>2. UNCHANGED running /\ outstanding' \subseteq outstanding
        BY <1>2 DEF Speaks, Withdraws
    <2> QED BY <2>1, <2>2, SaysOne DEF AskedAfterResults, TypeOK
<1>3. ASSUME NEW r \in Requests, Asks(r) PROVE AskedAfterResults'
    <2>1. Says(Request(r)) /\ running' /\ outstanding' = outstanding \cup {r}
        BY <1>3 DEF Asks
    <2> SUFFICES ASSUME NEW i \in Wire', wire'[i].kind = "result", NEW q \in outstanding'
                 PROVE  \E j \in Wire' : j > i /\ wire'[j] = Request(q)
        BY <2>1 DEF AskedAfterResults
    <2>2. i \in Wire /\ wire[i].kind = "result"
        BY <2>1, SaysOne, MessageTypes, MessageFields DEF TypeOK
    <2>3. CASE q = r
        BY <2>1, <2>2, <2>3, SaysOne, MessageTypes DEF TypeOK
    <2>4. CASE q # r
        <3>1. PICK j \in Wire : j > i /\ wire[j] = Request(q)
            BY <2>1, <2>2, <2>4 DEF AskedAfterResults
        <3> QED BY <2>1, <3>1, SaysOne, MessageTypes DEF TypeOK
    <2> QED BY <2>3, <2>4
<1>4. CASE EndsTurn \/ Settles
    <2>1. outstanding' = {}
        BY <1>4 DEF EndsTurn, Settles, AskedAfterResults
    <2> QED BY <2>1 DEF AskedAfterResults
<1>5. CASE ReadOutput \/ ReadResult \/ \E r \in Requests : ReadWithdrawn(r) \/ ReadRequest(r)
    <2>1. PICK m : Reads(m)
        BY <1>5 DEF ReadOutput, ReadResult, ReadWithdrawn, ReadRequest
    <2> QED BY <2>1, ReadsAskedAfter
<1>6. CASE TakesPrompt
    BY <1>6, KeepsAskedAfter DEF TakesPrompt
<1>7. ASSUME NEW r \in Requests, Reply(r) PROVE AskedAfterResults'
    <2>1. UNCHANGED <<wire, running>> /\ outstanding' \subseteq outstanding
        BY <1>7 DEF Reply
    <2> QED BY <2>1, KeepsAskedAfter
<1>8. CASE CliExits \/ StreamDone \/ PromptCheck \/ PromptOpen \/ PromptSend
           \/ CallClose \/ CallKill \/ Ending \/ UNCHANGED vars
           \/ (\E k \in Keys : Resolve(k))
           \/ \E r \in Requests : TellResolved(r) \/ Park(r) \/ Raise(r) \/ TakeAnswer(r) \/ GiveUp(r)
                                  \/ Serve(r)
    BY <1>1, <1>8 DEF CliExits, StreamDone, PromptCheck, PromptOpen, Opens, PromptSend,
          CallClose, CallKill, Ending, CallReturns, WatchLooks, WatchReports, WatchEnds, Resolve,
          TellResolved, Park, Raise, TakeAnswer, GiveUp, Serve, vars, cliVars
<1> QED BY <1>2, <1>3, <1>4, <1>5, <1>6, <1>7, <1>8 DEF Next, Cli, ReadLoop, Goroutine

-------------------------------------------------------------------------------
(* The approvals.  One leaves the map as it is taken to be told of.        *)

ApprovalInv == InMap /\ ToldOnce /\ OwnKey /\ Held /\ InReach

LEMMA InitApprovalInv == Init => ApprovalInv
<1> SUFFICES ASSUME Init PROVE ApprovalInv
    OBVIOUS
<1>1. InMap
    BY NamesAssumption DEF Init, InMap
<1>2. ToldOnce /\ OwnKey /\ InReach
    BY DEF Init, ToldOnce, OwnKey, InReach
<1>3. Held
    BY DEF Init, Held
<1> QED BY <1>1, <1>2, <1>3 DEF ApprovalInv

\* Steps that leave the approvals alone.
LEMMA KeepsApprovalInv ==
    ASSUME ApprovalInv, UNCHANGED <<approvalVars, request>>, cancelled \subseteq cancelled',
           pumpEnded => pumpEnded', stream' = "up" => stream = "up",
           \A r \in outstanding' : r \in outstanding \/ request[r] = "none"
    PROVE  ApprovalInv'
<1>1. UNCHANGED <<pending, keyOf, answer, telling, asked, settled, request>>
    BY DEF approvalVars
<1>2. InMap' /\ ToldOnce' /\ OwnKey'
    BY <1>1 DEF ApprovalInv, InMap, ToldOnce, OwnKey, Unparked
<1>3. Held'
    BY <1>1 DEF ApprovalInv, Held
<1>4. InReach'
    BY <1>1 DEF ApprovalInv, InReach
<1> QED BY <1>2, <1>3, <1>4 DEF ApprovalInv

LEMMA ReadRequestApprovalInv ==
    ASSUME TypeOK, AskedOnce, ApprovalInv, NEW r \in Requests, ReadRequest(r)
    PROVE  ApprovalInv'
<1>1. request[r] = "none"
    <2>1. 1 \in Wire /\ wire[1].kind = "request" /\ wire[1].req = r
        BY ReadsOne, MessageFields DEF ReadRequest, TypeOK
    <2> QED BY <2>1 DEF AskedOnce
<1>2. /\ request'[r] = "spawned" /\ \A q \in Requests : q # r => request'[q] = request[q]
      /\ UNCHANGED <<pending, keyOf, answer, telling, asked, settled, cancelled, pumpEnded,
                     stream, outstanding>>
    BY DEF ReadRequest, Reads, approvalVars, endVars, TypeOK
<1>3. InMap'
    BY <1>1, <1>2 DEF ApprovalInv, InMap, Unparked
<1>4. ToldOnce' /\ OwnKey'
    BY <1>1, <1>2 DEF ApprovalInv, ToldOnce, OwnKey, Unparked
<1>5. Held' /\ InReach'
    BY <1>1, <1>2 DEF ApprovalInv, Held, InReach
<1> QED BY <1>3, <1>4, <1>5 DEF ApprovalInv

LEMMA ParkedIsInMap ==
    ASSUME TypeOK
    PROVE  /\ Parked \subseteq Requests
           /\ \A r \in Requests : r \in Parked <=> \E k \in Keys : pending[k] = r
BY NamesAssumption DEF Parked, TypeOK

LEMMA ReadResultApprovalInv ==
    ASSUME TypeOK, TurnsBalance, AskedOnce, AskedAfterResults, ApprovalInv, ReadResult
    PROVE  ApprovalInv'
<1>1. UNCHANGED <<keyOf, answer, telling, asked, request, cancelled, pumpEnded, stream, outstanding>>
    BY DEF ReadResult, Reads, clientVars, endVars
<1>2. CASE UNCHANGED <<pending, settled>>
    BY <1>1, <1>2, KeepsApprovalInv DEF approvalVars
<1>3. CASE ~UNCHANGED <<pending, settled>>
    <2>1. /\ \A k \in Keys : pending'[k] = Nobody
          /\ \A r \in Requests : settled'[r] = IF r \in Parked THEN settled[r] + 1 ELSE settled[r]
        BY <1>3, ResultEndsTurn DEF turnVars
    <2>2. \A r \in Parked : ~Unparked(r) /\ settled[r] = 0 /\ r \notin telling
        BY ParkedIsInMap DEF ApprovalInv, InMap, Unparked
    <2>3. InMap'
        BY <1>1, <2>1, <2>2, NamesAssumption DEF ApprovalInv, InMap, Unparked
    <2>4. ToldOnce'
        BY <1>1, <2>1, <2>2 DEF ApprovalInv, ToldOnce, TypeOK
    <2>5. OwnKey'
        BY <1>1 DEF ApprovalInv, OwnKey, Unparked
    <2>6. Held'
        <3> SUFFICES ASSUME NEW r \in Requests, request[r] = "parked" \/ asked[r] > 0,
                            settled'[r] = 0, ~pumpEnded
                     PROVE  r \in telling
            BY <1>1 DEF Held
        <3>1. r \notin Parked /\ settled[r] = 0
            BY <2>1, <2>2
        <3>2. pending[keyOf[r]] # r
            BY <3>1, ParkedIsInMap DEF TypeOK
        <3> QED BY <3>1, <3>2 DEF ApprovalInv, Held
    <2>7. InReach'
        <3> SUFFICES ASSUME NEW r \in Requests, request[r] \in {"parked", "raised"}, r \in outstanding
                     PROVE  FALSE
            BY <1>1 DEF InReach
        <3>1. 1 \in Wire /\ wire[1].kind = "result"
            BY ReadsOne, MessageFields DEF ReadResult, TypeOK
        <3>2. PICK j \in Wire : wire[j] = Request(r)
            BY <3>1 DEF AskedAfterResults
        <3>3. request[r] = "none"
            BY <3>2, MessageFields DEF AskedOnce
        <3> QED BY <3>3
    <2> QED BY <2>3, <2>4, <2>5, <2>6, <2>7 DEF ApprovalInv
<1> QED BY <1>2, <1>3

LEMMA ParkApprovalInv ==
    ASSUME TypeOK, ApprovalInv, NEW r \in Requests, Park(r)
    PROVE  ApprovalInv'
<1>1. PICK k \in Keys :
          k = IF toolUse[r] = NoId THEN r
              ELSE IF pending[toolUse[r]] # Nobody THEN r ELSE toolUse[r]
    BY DEF Keys, TypeOK
<1>2. /\ request[r] = "spawned" /\ request' = [request EXCEPT ![r] = "parked"]
      /\ pending' = [pending EXCEPT ![k] = r] /\ keyOf' = [keyOf EXCEPT ![r] = k]
      /\ UNCHANGED <<stream, outstanding, cancelled, answer, telling, asked, settled, pumpEnded>>
    BY <1>1 DEF Park, Goes, cliVars, clientVars, endVars
<1>3. /\ \A q \in Requests : q # r => request'[q] = request[q] /\ keyOf'[q] = keyOf[q]
      /\ \A l \in Keys : l # k => pending'[l] = pending[l]
      /\ request'[r] = "parked" /\ keyOf'[r] = k /\ pending'[k] = r
    BY <1>2 DEF TypeOK
<1>4. pending[k] = Nobody
    <2>1. CASE k = r
        <3> SUFFICES ASSUME NEW q \in Requests, pending[k] = q PROVE FALSE
            BY DEF TypeOK
        <3>1. keyOf[q] = r /\ request[q] \in {"parked", "raised"}
            BY <2>1 DEF ApprovalInv, InMap
        <3>2. q = r
            BY <3>1, NamesAssumption DEF ApprovalInv, OwnKey
        <3> QED BY <1>2, <3>1, <3>2
    <2>2. CASE k # r
        BY <1>1, <2>2
    <2> QED BY <2>1, <2>2
<1>5. Unparked(r) /\ settled[r] = 0 /\ r \notin telling /\ r \notin answer /\ asked[r] = 0
    BY <1>2 DEF Unparked, ApprovalInv, InMap, ToldOnce
<1>6. ASSUME NEW l \in Keys, NEW q \in Requests, pending'[l] = q
      PROVE  /\ keyOf'[q] = l /\ request'[q] \in {"parked", "raised"}
             /\ settled'[q] = 0 /\ q \notin telling' /\ q \notin answer'
    <2>1. CASE l = k
        BY <1>2, <1>3, <1>5, <1>6, <2>1
    <2>2. CASE l # k
        <3>1. pending[l] = q
            BY <1>3, <1>6, <2>2
        <3>2. q # r
            BY <1>2, <3>1 DEF ApprovalInv, InMap
        <3> QED BY <1>2, <1>3, <3>1, <3>2 DEF ApprovalInv, InMap
    <2> QED BY <2>1, <2>2
<1>7. InMap'
    BY <1>2, <1>3, <1>5, <1>6 DEF InMap, ApprovalInv, Unparked
<1>8. ToldOnce'
    BY <1>2, <1>3, <1>5 DEF ApprovalInv, ToldOnce
<1>9. k \in ToolIds \cup {r}
    BY <1>1 DEF TypeOK
<1>10. OwnKey'
    BY <1>2, <1>3, <1>9 DEF ApprovalInv, OwnKey, Unparked
<1>11. ASSUME NEW q \in Requests, q # r, pending[keyOf[q]] = q PROVE pending'[keyOf'[q]] = q
    BY <1>3, <1>4, <1>11, NamesAssumption DEF TypeOK
<1>12. Held'
    BY <1>2, <1>3, <1>11 DEF ApprovalInv, Held
<1>13. ASSUME NEW q \in Requests, request'[q] \in {"parked", "raised"}, q \in outstanding',
              stream' = "up", q \notin answer', pending'[keyOf'[q]] # q
       PROVE  \E p \in cancelled' \ {q} : keyOf'[p] = keyOf'[q]
    <2>1. q # r /\ keyOf'[q] = keyOf[q]
        BY <1>3, <1>13
    <2>2. PICK p \in cancelled \ {q} : keyOf[p] = keyOf[q]
        BY <1>2, <1>3, <1>11, <1>13, <2>1 DEF ApprovalInv, InReach
    <2>3. p # r
        BY <1>5, <2>1, <2>2, NamesAssumption DEF ApprovalInv, OwnKey
    <2> QED BY <1>2, <1>3, <2>1, <2>2, <2>3 DEF TypeOK
<1>14. InReach'
    BY <1>13 DEF InReach
<1> QED BY <1>7, <1>8, <1>10, <1>12, <1>14 DEF ApprovalInv

\* A goroutine moves on past the map.
LEMMA MovesApprovalInv ==
    ASSUME TypeOK, ApprovalInv, NEW r \in Requests,
           Raise(r) \/ TakeAnswer(r) \/ Serve(r) \/ Reply(r)
    PROVE  ApprovalInv'
<1>1. /\ \A q \in Requests : q # r => request'[q] = request[q]
      /\ UNCHANGED <<pending, keyOf, answer, telling, settled, cancelled, pumpEnded, stream>>
      /\ outstanding' \subseteq outstanding
    BY DEF Raise, TakeAnswer, Serve, Reply, Goes, cliVars, clientVars, approvalVars, endVars, TypeOK
<1>2. \/ request[r] = "parked" /\ request'[r] = "raised"
      \/ request[r] = "raised" /\ request'[r] = "replying" /\ r \in answer
      \/ request[r] = "spawned" /\ request'[r] = "replying"
      \/ request[r] = "replying" /\ request'[r] = "gone"
    BY DEF Raise, TakeAnswer, Serve, Reply, Goes, TypeOK
<1>3. /\ \A q \in Requests : q # r => asked'[q] = asked[q]
      /\ \/ asked'[r] = asked[r]
         \/ request[r] = "parked" /\ asked'[r] = asked[r] + 1
    BY DEF Raise, CountEach, TakeAnswer, Serve, Reply, approvalVars, Goes, TypeOK
<1>4. InMap'
    <2>1. ASSUME NEW k \in Keys, NEW q \in Requests, pending'[k] = q
          PROVE  /\ keyOf'[q] = k /\ request'[q] \in {"parked", "raised"}
                 /\ settled'[q] = 0 /\ q \notin telling' /\ q \notin answer'
        BY <1>1, <1>2, <2>1 DEF ApprovalInv, InMap
    <2>2. \A q \in Requests : Unparked(q)' => Unparked(q)
        BY <1>1, <1>2 DEF Unparked
    <2> QED BY <1>1, <2>1, <2>2 DEF ApprovalInv, InMap
<1>5. ToldOnce'
    BY <1>1, <1>2, <1>3 DEF ApprovalInv, ToldOnce, TypeOK
<1>6. OwnKey'
    BY <1>1, <1>2 DEF ApprovalInv, OwnKey, Unparked
<1>7. Held'
    BY <1>1, <1>2, <1>3 DEF ApprovalInv, Held
<1>8. InReach'
    <2> SUFFICES ASSUME NEW q \in Requests, request'[q] \in {"parked", "raised"}, q \in outstanding',
                        stream = "up", q \notin answer
                 PROVE  \/ pending[keyOf[q]] = q
                        \/ \E p \in cancelled \ {q} : keyOf[p] = keyOf[q]
        BY <1>1 DEF InReach
    <2>1. request[q] \in {"parked", "raised"} /\ q \in outstanding
        BY <1>1, <1>2
    <2> QED BY <2>1 DEF ApprovalInv, InReach
<1> QED BY <1>4, <1>5, <1>6, <1>7, <1>8 DEF ApprovalInv

LEMMA GiveUpApprovalInv ==
    ASSUME TypeOK, ApprovalInv, NEW r \in Requests, GiveUp(r)
    PROVE  ApprovalInv'
<1>1. /\ request[r] = "raised" /\ request'[r] = "replying" /\ r \in cancelled /\ keyOf[r] \in Keys
      /\ \A q \in Requests : q # r => request'[q] = request[q]
      /\ UNCHANGED <<keyOf, answer, asked, settled, cancelled, pumpEnded, stream, outstanding>>
      /\ telling' = telling \cup ({pending[keyOf[r]]} \ {Nobody})
    BY DEF GiveUp, Goes, cliVars, clientVars, endVars, TypeOK
<1>2. /\ pending'[keyOf[r]] = Nobody
      /\ \A k \in Keys : k # keyOf[r] => pending'[k] = pending[k]
    BY DEF GiveUp, TypeOK
<1>3. \A q \in Requests : q \in telling' <=> q \in telling \/ pending[keyOf[r]] = q
    BY <1>1, NamesAssumption
<1>4. ASSUME NEW k \in Keys, NEW q \in Requests, pending'[k] = q
      PROVE  pending[k] = q /\ keyOf[q] = k /\ q # r /\ pending[keyOf[r]] # q
    <2>1. k # keyOf[r] /\ pending[k] = q
        BY <1>2, <1>4, NamesAssumption
    <2> QED BY <1>1, <2>1 DEF ApprovalInv, InMap
<1>5. InMap'
    <2>1. ASSUME NEW k \in Keys, NEW q \in Requests, pending'[k] = q
          PROVE  /\ keyOf'[q] = k /\ request'[q] \in {"parked", "raised"}
                 /\ settled'[q] = 0 /\ q \notin telling' /\ q \notin answer'
        BY <1>1, <1>3, <1>4, <2>1 DEF ApprovalInv, InMap
    <2>2. ASSUME NEW q \in Requests, Unparked(q)'
          PROVE  settled'[q] = 0 /\ q \notin telling' /\ q \notin answer'
        <3>1. Unparked(q)
            BY <1>1, <2>2 DEF Unparked
        <3>2. pending[keyOf[r]] # q
            BY <1>1, <3>1 DEF ApprovalInv, InMap, Unparked
        <3> QED BY <1>1, <1>3, <3>1, <3>2 DEF ApprovalInv, InMap
    <2> QED BY <2>1, <2>2 DEF InMap
<1>6. ToldOnce'
    <2>1. \A q \in Requests : pending[keyOf[r]] = q => settled[q] = 0
        BY <1>1 DEF ApprovalInv, InMap
    <2> QED BY <1>1, <1>3, <2>1 DEF ApprovalInv, ToldOnce
<1>7. OwnKey'
    BY <1>1 DEF ApprovalInv, OwnKey, Unparked
<1>8. Held'
    <2> SUFFICES ASSUME NEW q \in Requests, request'[q] = "parked" \/ asked[q] > 0,
                        settled[q] = 0, ~pumpEnded
                 PROVE  pending'[keyOf[q]] = q \/ q \in telling'
        BY <1>1 DEF Held
    <2>1. request[q] = "parked" \/ asked[q] > 0
        BY <1>1
    <2>2. pending[keyOf[q]] = q \/ q \in telling
        BY <2>1 DEF ApprovalInv, Held
    <2> QED BY <1>2, <1>3, <2>2 DEF TypeOK
<1>9. InReach'
    <2> SUFFICES ASSUME NEW q \in Requests, request'[q] \in {"parked", "raised"}, q \in outstanding,
                        stream = "up", q \notin answer
                 PROVE  \/ pending'[keyOf[q]] = q
                        \/ \E p \in cancelled \ {q} : keyOf[p] = keyOf[q]
        BY <1>1 DEF InReach
    <2>1. request[q] \in {"parked", "raised"} /\ q # r
        BY <1>1
    <2>2. \/ pending[keyOf[q]] = q
          \/ \E p \in cancelled \ {q} : keyOf[p] = keyOf[q]
        BY <2>1 DEF ApprovalInv, InReach
    <2>3. CASE keyOf[q] = keyOf[r]
        BY <1>1, <2>1, <2>3
    <2>4. CASE keyOf[q] # keyOf[r]
        BY <1>2, <2>2, <2>4 DEF TypeOK
    <2> QED BY <2>3, <2>4
<1> QED BY <1>5, <1>6, <1>7, <1>8, <1>9 DEF ApprovalInv

LEMMA ResolveApprovalInv ==
    ASSUME TypeOK, ApprovalInv, NEW k \in Keys, Resolve(k)
    PROVE  ApprovalInv'
<1>1. PICK r \in Requests : r = pending[k]
    BY DEF Resolve, TypeOK
<1>2. /\ pending' = [pending EXCEPT ![k] = Nobody]
      /\ answer' = answer \cup {r} /\ telling' = telling \cup {r}
      /\ UNCHANGED <<request, keyOf, asked, settled, cancelled, pumpEnded, stream, outstanding>>
    BY <1>1 DEF Resolve, cliVars, clientVars, endVars
<1>3. pending'[k] = Nobody /\ \A l \in Keys : l # k => pending'[l] = pending[l]
    BY <1>2 DEF TypeOK
<1>4. keyOf[r] = k /\ settled[r] = 0 /\ ~Unparked(r)
    BY <1>1 DEF ApprovalInv, InMap, Unparked
<1>5. ASSUME NEW l \in Keys, NEW q \in Requests, pending'[l] = q PROVE pending[l] = q /\ q # r
    <2>1. l # k /\ pending[l] = q
        BY <1>3, <1>5, NamesAssumption
    <2> QED BY <1>4, <2>1 DEF ApprovalInv, InMap
<1>6. InMap'
    BY <1>2, <1>4, <1>5 DEF ApprovalInv, InMap, Unparked
<1>7. ToldOnce' /\ OwnKey'
    BY <1>2, <1>4 DEF ApprovalInv, ToldOnce, OwnKey, Unparked
<1>8. \A q \in Requests : q # r /\ pending[keyOf[q]] = q => pending'[keyOf[q]] = q
    BY <1>1, <1>3 DEF TypeOK
<1>9. Held'
    BY <1>2, <1>8 DEF ApprovalInv, Held
<1>10. InReach'
    BY <1>2, <1>8 DEF ApprovalInv, InReach
<1> QED BY <1>6, <1>7, <1>9, <1>10 DEF ApprovalInv

LEMMA TellResolvedApprovalInv ==
    ASSUME TypeOK, ApprovalInv, NEW r \in Requests, TellResolved(r)
    PROVE  ApprovalInv'
<1>1. /\ r \in telling /\ telling' = telling \ {r}
      /\ UNCHANGED <<pending, request, keyOf, answer, asked, cancelled, pumpEnded, stream, outstanding>>
      /\ \A q \in Requests : q # r => settled'[q] = settled[q]
      /\ settled'[r] = IF pumpEnded THEN settled[r] ELSE settled[r] + 1
    BY DEF TellResolved, CountEach, cliVars, clientVars, endVars, TypeOK
<1>2. settled[r] = 0
    BY <1>1 DEF ApprovalInv, ToldOnce
<1>3. InMap'
    BY <1>1 DEF ApprovalInv, InMap, Unparked
<1>4. ToldOnce' /\ OwnKey'
    BY <1>1, <1>2 DEF ApprovalInv, ToldOnce, OwnKey, Unparked
<1>5. Held'
    BY <1>1, <1>2 DEF ApprovalInv, Held
<1>6. InReach'
    BY <1>1 DEF ApprovalInv, InReach
<1> QED BY <1>3, <1>4, <1>5, <1>6 DEF ApprovalInv

LEMMA NextApprovalInv ==
    TypeOK /\ TurnsBalance /\ AskedOnce /\ AskedAfterResults /\ ApprovalInv /\ [Next]_vars
        => ApprovalInv'
<1> SUFFICES ASSUME TypeOK, TurnsBalance, AskedOnce, AskedAfterResults, ApprovalInv, [Next]_vars
             PROVE  ApprovalInv'
    OBVIOUS
<1>1. CASE Cli
    <2>1. UNCHANGED <<approvalVars, request, cancelled, pumpEnded>> /\ (stream' = "up" => stream = "up")
        BY <1>1 DEF Cli, TakesPrompt, Speaks, EndsTurn, Settles, CliExits, Asks, Withdraws,
              clientVars, endVars
    <2>2. \A r \in outstanding' : r \in outstanding \/ request[r] = "none"
        BY <1>1 DEF Cli, TakesPrompt, Speaks, EndsTurn, Settles, CliExits, Asks, Withdraws, Requested
    <2> QED BY <2>1, <2>2, KeepsApprovalInv
<1>2. CASE ReadOutput \/ StreamDone \/ \E r \in Requests : ReadWithdrawn(r)
    <2>1. /\ UNCHANGED <<approvalVars, request, outstanding, pumpEnded>>
          /\ (stream' = "up" => stream = "up") /\ cancelled \subseteq cancelled'
        BY <1>2 DEF ReadOutput, StreamDone, ReadWithdrawn, Reads, clientVars, endVars
    <2> QED BY <2>1, KeepsApprovalInv
<1>3. CASE PromptCheck \/ PromptOpen \/ PromptSend \/ CallClose \/ CallKill \/ Ending \/ UNCHANGED vars
    <2>1. UNCHANGED <<approvalVars, request, outstanding, cancelled>> /\ (stream' = "up" => stream = "up")
        BY <1>3 DEF PromptCheck, PromptOpen, Opens, PromptSend, CallClose, CallKill, Ending,
              CallReturns, WatchLooks, WatchReports, WatchEnds, vars, cliVars, clientVars
    <2>2. pumpEnded => pumpEnded'
        <3> SUFFICES ASSUME pumpEnded PROVE pumpEnded'
            OBVIOUS
        <3>1. CASE CallReturns
            BY <3>1, Zenon DEF CallReturns
        <3>2. CASE ~CallReturns
            BY <1>3, <3>2 DEF PromptCheck, PromptOpen, Opens, PromptSend, CallClose, CallKill, Ending,
                  WatchLooks, WatchReports, WatchEnds, vars, endVars
        <3> QED BY <3>1, <3>2
    <2> QED BY <2>1, <2>2, KeepsApprovalInv
<1>4. ASSUME NEW r \in Requests, Goroutine(r) PROVE ApprovalInv'
    BY <1>4, ParkApprovalInv, MovesApprovalInv, GiveUpApprovalInv DEF Goroutine
<1> QED
    BY <1>1, <1>2, <1>3, <1>4, ReadRequestApprovalInv, ReadResultApprovalInv, ResolveApprovalInv,
       TellResolvedApprovalInv DEF Next, ReadLoop

\* Everything the runs check of the states of the session follows from it.
LEMMA SessionInvHolds == Spec => []SessionInv
<1>1. Init => SessionInv
    BY InitTypeOK, InitTurnsBalance, InitTurnsHaveEnd, InitAskedOnce, InitApprovalInv DEF SessionInv, ApprovalInv
<1>2. SessionInv /\ [Next]_vars => SessionInv'
    BY NextTypeOK, NextTurnsBalance, NextTurnsHaveEnd, NextAskedOnce, NextAskedAfter,
       NextApprovalInv
       DEF SessionInv, ApprovalInv
<1> QED BY <1>1, <1>2, PTL DEF Spec

\* An open turn has something to end it while claude lives, and is told to have
\* ended by the time watch is through.
THEOREM OpenTurnsAreEnded == Spec => []OpenTurnsEnd
<1>1. SessionInv => OpenTurnsEnd
    BY DEF SessionInv, TurnsBalance, TurnsHaveEnd, OpenTurnsEnd, Wire
<1> QED BY <1>1, SessionInvHolds, PTL

\* An approval that was asked for is in reach of whoever was asked, and taken
\* off the screen when it no longer is.
THEOREM AskedIsKeptInReach == Spec => []AskedIsKept
<1>1. SessionInv => AskedIsKept
    <2> SUFFICES ASSUME SessionInv PROVE AskedIsKept
        OBVIOUS
    <2>1. AskedIsReachable
        BY DEF SessionInv, InReach, AskedIsReachable
    <2>2. ASSUME NEW r \in Requests, asked[r] > settled[r], ~pumpEnded
          PROVE  pending[keyOf[r]] = r \/ r \in telling
        <3>1. asked[r] > 0 /\ settled[r] = 0
            BY <2>2 DEF SessionInv, ToldOnce, TypeOK
        <3> QED BY <2>2, <3>1 DEF SessionInv, Held
    <2> QED BY <2>1, <2>2 DEF AskedIsKept, NobodyLeftHolding
<1> QED BY <1>1, SessionInvHolds, PTL

-------------------------------------------------------------------------------
(* The contract.  A step of the session tells its reader one thing the     *)
(* contract allows, or nothing.                                            *)

View == [r \in Requests |-> Told(r)]

LEMMA ToldIs ==
    ASSUME TypeOK, ToldOnce, NEW r \in Requests
    PROVE  Told(r) = IF settled[r] = 1 THEN "settled"
                     ELSE IF asked[r] = 1 THEN "asked" ELSE "nothing"
<1>1. settled[r] \in {0, 1} /\ asked[r] \in {0, 1} /\ ~(settled[r] > 1)
    BY DEF ToldOnce, TypeOK
<1>2. CASE settled[r] = 1
    BY <1>1, <1>2 DEF Told
<1>3. CASE settled[r] = 0 /\ asked[r] = 1
    BY <1>1, <1>3 DEF Told
<1>4. CASE settled[r] = 0 /\ asked[r] = 0
    BY <1>1, <1>4 DEF Told
<1> QED BY <1>1, <1>2, <1>3, <1>4

LEMMA InitContract == Init => Contract!Init
<1> SUFFICES ASSUME Init PROVE Contract!Init
    OBVIOUS
<1>1. ASSUME NEW r \in Requests PROVE Told(r) = "nothing"
    BY ToldIs, InitTypeOK, InitApprovalInv DEF Init, ApprovalInv
<1>2. View = [r \in Requests |-> "nothing"]
    BY <1>1 DEF View
<1> QED BY <1>2 DEF Contract!Init, View, Init

LEMMA ToldUnchanged ==
    ASSUME UNCHANGED <<asked, settled>> PROVE View' = View
BY DEF View, Told

\* A step that tells of the turns only.
LEMMA TellsTurnNews ==
    ASSUME ~pumpEnded, UNCHANGED <<asked, settled, watch, pumpEnded>>, Contract!TurnNews
    PROVE  Contract!Next
<1>1. View' = [a \in Requests |-> IF a \in {} THEN "settled" ELSE View[a]]
    BY ToldUnchanged DEF View
<1>2. Contract!Settle({})
    BY <1>1 DEF Contract!Settle, View
<1>3. Contract!ApprovalNews
    BY <1>2 DEF Contract!ApprovalNews
<1> QED BY <1>3 DEF Contract!Next, Contract!Tell

\* A step that tells some approvals, not told of as such before, as settled.
LEMMA TellsSettled ==
    ASSUME TypeOK, ToldOnce, ToldOnce', TypeOK', NEW rs \in SUBSET Requests,
           \A r \in rs : settled[r] = 0 /\ settled'[r] = 1,
           \A r \in Requests : r \notin rs => settled'[r] = settled[r],
           UNCHANGED asked
    PROVE  Contract!Settle(rs)
<1>1. ASSUME NEW r \in Requests PROVE View'[r] = IF r \in rs THEN "settled" ELSE View[r]
    <2>1. View[r] = Told(r) /\ View'[r] = Told(r)'
        BY DEF View
    <2>2. Told(r)' = IF settled'[r] = 1 THEN "settled"
                     ELSE IF asked'[r] = 1 THEN "asked" ELSE "nothing"
        <3>1. settled'[r] \in {0, 1} /\ asked'[r] \in {0, 1} /\ ~(settled'[r] > 1)
            BY DEF ToldOnce, TypeOK
        <3>2. CASE settled'[r] = 1
            BY <3>1, <3>2 DEF Told
        <3>3. CASE settled'[r] = 0 /\ asked'[r] = 1
            BY <3>1, <3>3 DEF Told
        <3>4. CASE settled'[r] = 0 /\ asked'[r] = 0
            BY <3>1, <3>4 DEF Told
        <3> QED BY <3>1, <3>2, <3>3, <3>4
    <2> QED BY <2>1, <2>2, ToldIs
<1>2. View' = [r \in Requests |-> IF r \in rs THEN "settled" ELSE View[r]]
    BY <1>1 DEF View
<1>3. \A r \in rs : View[r] = "asked" \/ View[r] = "nothing"
    BY ToldIs DEF View
<1> QED BY <1>2, <1>3 DEF Contract!Settle, View

\* A step that tells the reader nothing.
LEMMA TellsNothing ==
    ASSUME UNCHANGED <<starts, ends, asked, settled, watch, pumpEnded>>
    PROVE  UNCHANGED Contract!vars
<1>1. View' = View
    BY ToldUnchanged
<1> QED BY <1>1 DEF Contract!vars, View

LEMMA OpensTurnContract ==
    ASSUME TypeOK, TurnsBalance, openTurnLocked, UNCHANGED <<ends, asked, settled, watch, pumpEnded>>
    PROVE  [Contract!Next]_(Contract!vars)
<1>1. CASE turnActive \/ pumpEnded
    <2>1. UNCHANGED starts
        BY <1>1, OpensTurn
    <2> QED BY <2>1, TellsNothing
<1>2. CASE ~turnActive /\ ~pumpEnded
    <2>1. starts' = starts + 1
        BY <1>2, OpensTurn
    <2>2. watch # "waiting" \/ starts = ends
        BY <1>2 DEF TurnsBalance
    <2>3. Contract!TurnNews
        BY <2>1, <2>2 DEF Contract!TurnNews, Contract!MayStart
    <2> QED BY <1>2, <2>3, TellsTurnNews
<1> QED BY <1>1, <1>2

LEMMA ReadResultContract ==
    ASSUME SessionInv, ToldOnce', TypeOK', ReadResult
    PROVE  [Contract!Next]_(Contract!vars)
<1> USE DEF SessionInv
<1>1. UNCHANGED <<asked, watch, pumpEnded>> /\ pumpEnded = FALSE
    BY ReadsMeansLive DEF ReadResult, endVars
<1>2. CASE UNCHANGED <<turnVars, pending, settled>>
    BY <1>1, <1>2, TellsNothing DEF turnVars
<1>3. CASE ~UNCHANGED <<turnVars, pending, settled>>
    <2>1. /\ starts' = IF turnActive THEN starts ELSE starts + 1
          /\ ends' = ends + 1
          /\ \A r \in Requests : settled'[r] = IF r \in Parked THEN settled[r] + 1 ELSE settled[r]
        BY <1>3, ResultEndsTurn DEF turnVars
    <2>2. Parked \subseteq Requests /\ \A r \in Parked : settled[r] = 0
        BY ParkedIsInMap DEF InMap
    <2>3. Contract!Settle(Parked)
        BY <1>1, <2>1, <2>2, TellsSettled
    <2>4. watch = "waiting" /\ starts = IF turnActive THEN ends + 1 ELSE ends
        BY <1>1, ReadsMeansLive DEF TurnsBalance, ReadResult
    <2>5. ASSUME turnActive PROVE Contract!TurnNews
        <3>1. UNCHANGED starts /\ starts = ends + 1 /\ ends' = ends + 1
            BY <2>1, <2>4, <2>5
        <3>2. ends < starts
            BY <3>1 DEF TypeOK
        <3> QED BY <3>1, <3>2 DEF Contract!TurnNews
    <2>6. ASSUME ~turnActive PROVE Contract!TurnNews
        <3>1. starts = ends /\ starts' = starts + 1 /\ ends' = ends + 1
            BY <2>1, <2>4, <2>6
        <3> QED BY <3>1 DEF Contract!TurnNews
    <2>7. Contract!TurnNews
        BY <2>5, <2>6
    <2>8. Contract!ApprovalNews
        BY <2>2, <2>3 DEF Contract!ApprovalNews
    <2> QED BY <1>1, <2>7, <2>8 DEF Contract!Next, Contract!Tell
<1> QED BY <1>2, <1>3

LEMMA RaiseContract ==
    ASSUME SessionInv, TypeOK', ToldOnce', NEW r \in Requests, Raise(r)
    PROVE  [Contract!Next]_(Contract!vars)
<1> USE DEF SessionInv
<1>1. UNCHANGED <<starts, ends, settled, watch, pumpEnded>>
    BY DEF Raise, turnVars, endVars
<1>2. CASE pumpEnded
    <2>1. asked' = [q \in Requests |-> asked[q]]
        BY <1>2 DEF Raise, CountEach
    <2>2. asked' = asked
        BY <2>1 DEF TypeOK
    <2> QED BY <1>1, <2>2, TellsNothing
<1>3. CASE ~pumpEnded
    <2>1. asked[r] = 0 /\ asked'[r] = 1 /\ \A q \in Requests : q # r => asked'[q] = asked[q]
        BY <1>3 DEF Raise, Goes, CountEach, ToldOnce
    <2>2. \A q \in Requests : q # r => View'[q] = View[q]
        BY <1>1, <2>1 DEF View, Told
    <2>3. View'[r] = Told(r)' /\ View[r] = Told(r)
        BY DEF View
    <2>4. CASE settled[r] = 1
        <3>1. Told(r)' = "settled" /\ Told(r) = "settled"
            BY <1>1, <2>4 DEF Told
        <3>2. View' = View
            BY <2>2, <2>3, <3>1 DEF View
        <3> QED BY <1>1, <3>2 DEF Contract!vars, View
    <2>5. CASE settled[r] # 1
        <3>1. settled[r] = 0
            <4>1. settled[r] \in Nat /\ settled[r] <= 1
                BY DEF ToldOnce, TypeOK
            <4> QED BY <2>5, <4>1
        <3>2. Told(r) = "nothing"
            BY <2>1, <3>1, ToldIs
        <3>3. Told(r)' = "asked"
            BY <1>1, <2>1, <3>1 DEF Told
        <3>4. View' = [View EXCEPT ![r] = "asked"]
            BY <2>2, <2>3, <3>3 DEF View
        <3>5. Contract!Ask(r)
            BY <2>3, <3>2, <3>4 DEF Contract!Ask, View
        <3>6. Contract!ApprovalNews /\ Contract!TurnNews
            BY <1>1, <3>5 DEF Contract!ApprovalNews, Contract!TurnNews
        <3> QED BY <1>1, <1>3, <3>6 DEF Contract!Next, Contract!Tell
    <2> QED BY <2>4, <2>5
<1> QED BY <1>2, <1>3

LEMMA TellResolvedContract ==
    ASSUME SessionInv, TypeOK', ToldOnce', NEW r \in Requests, TellResolved(r)
    PROVE  [Contract!Next]_(Contract!vars)
<1> USE DEF SessionInv
<1>1. UNCHANGED <<starts, ends, asked, watch, pumpEnded>> /\ r \in telling
    BY DEF TellResolved, turnVars, endVars
<1>2. CASE pumpEnded
    <2>1. settled' = [q \in Requests |-> settled[q]]
        BY <1>2 DEF TellResolved, CountEach
    <2>2. settled' = settled
        BY <2>1 DEF TypeOK
    <2> QED BY <1>1, <2>2, TellsNothing
<1>3. CASE ~pumpEnded
    <2>1. settled[r] = 0 /\ settled'[r] = 1 /\ \A q \in Requests : q # r => settled'[q] = settled[q]
        BY <1>1, <1>3 DEF TellResolved, CountEach, ToldOnce
    <2>2. Contract!Settle({r})
        BY <1>1, <2>1, TellsSettled
    <2>3. Contract!ApprovalNews /\ Contract!TurnNews
        BY <1>1, <2>2 DEF Contract!ApprovalNews, Contract!TurnNews
    <2> QED BY <1>1, <1>3, <2>3 DEF Contract!Next, Contract!Tell
<1> QED BY <1>2, <1>3

LEMMA EndingContract ==
    ASSUME SessionInv, Ending
    PROVE  [Contract!Next]_(Contract!vars)
<1> USE DEF SessionInv
<1>1. UNCHANGED <<asked, settled, starts>> /\ View' = View
    BY ToldUnchanged DEF Ending, CallReturns, WatchLooks, WatchReports, WatchEnds, approvalVars, turnVars
<1>2. CASE UNCHANGED <<ends, watch, pumpEnded>>
    BY <1>1, <1>2, TellsNothing
<1>3. CASE UNCHANGED <<ends, (watch # "waiting")>> /\ ~pumpEnded /\ pumpEnded' = TRUE
    BY <1>1, <1>3 DEF Contract!Next, Contract!CloseEvents, View
<1>4. CASE WatchLooks
    <2>1. watch = "waiting" /\ watch' # "waiting" /\ UNCHANGED <<ends, pumpEnded>>
        BY <1>4 DEF WatchLooks
    <2>2. Contract!AgentGone
        BY <1>1, <2>1 DEF Contract!AgentGone, View
    <2> QED BY <2>2 DEF Contract!Next
<1>5. CASE WatchReports
    <2>1. watch = "reporting" /\ watch' = "ending" /\ UNCHANGED pumpEnded
        BY <1>5 DEF WatchReports
    <2>2. CASE pumpEnded
        <3>1. UNCHANGED ends
            BY <1>5, <2>2 DEF WatchReports, Count
        <3>2. UNCHANGED (watch # "waiting")
            BY <2>1
        <3> QED BY <1>1, <2>1, <3>1, <3>2 DEF Contract!vars, View
    <2>3. CASE ~pumpEnded
        <3>1. ends' = ends + 1 /\ ends < starts
            BY <1>5, <2>1, <2>3 DEF WatchReports, Count, TurnsBalance, TypeOK
        <3>2. Contract!TurnNews
            BY <1>1, <3>1 DEF Contract!TurnNews
        <3>3. View' = [a \in Requests |-> IF a \in {} THEN "settled" ELSE View[a]]
            BY <1>1 DEF View
        <3>4. Contract!Settle({})
            BY <3>3 DEF Contract!Settle, View
        <3>5. Contract!ApprovalNews
            BY <3>4 DEF Contract!ApprovalNews
        <3> QED BY <2>1, <2>3, <3>2, <3>5 DEF Contract!Next, Contract!Tell
    <2> QED BY <2>2, <2>3
<1>6. CASE CallReturns
    <2>1. UNCHANGED <<ends, watch>>
        BY <1>6 DEF CallReturns, turnVars
    <2>2. CASE pumpEnded
        <3>1. pumpEnded' = TRUE /\ pumpEnded = TRUE
            BY <1>6, <2>2, Zenon DEF CallReturns, TypeOK
        <3> QED BY <1>2, <2>1, <3>1
    <2>3. CASE ~pumpEnded
        <3>1. pumpEnded' = (caller = "closing")
            BY <1>6, <2>3, Zenon DEF CallReturns
        <3>2. CASE caller = "closing"
            BY <1>3, <2>1, <2>3, <3>1, <3>2
        <3>3. CASE caller # "closing"
            <4>1. pumpEnded = FALSE /\ pumpEnded' = FALSE
                BY <2>3, <3>1, <3>3 DEF TypeOK
            <4> QED BY <1>2, <2>1, <4>1
        <3> QED BY <3>2, <3>3
    <2> QED BY <2>2, <2>3
<1>7. CASE WatchEnds
    <2>1. watch = "ending" /\ watch' = "finished" /\ UNCHANGED ends /\ pumpEnded' = TRUE
        BY <1>7 DEF WatchEnds, turnVars
    <2>2. CASE pumpEnded
        <3>1. UNCHANGED <<ends, (watch # "waiting"), pumpEnded>>
            BY <2>1, <2>2 DEF TypeOK
        <3> QED BY <1>1, <3>1 DEF Contract!vars, View
    <2>3. CASE ~pumpEnded
        BY <1>3, <2>1, <2>3
    <2> QED BY <2>2, <2>3
<1> QED BY <1>4, <1>5, <1>6, <1>7 DEF Ending

LEMMA NextContract ==
    SessionInv /\ SessionInv' /\ [Next]_vars => [Contract!Next]_(Contract!vars)
<1> SUFFICES ASSUME SessionInv, SessionInv', [Next]_vars
             PROVE  [Contract!Next]_(Contract!vars)
    OBVIOUS
<1> USE DEF SessionInv
<1>1. CASE UNCHANGED <<starts, ends, asked, settled, watch, pumpEnded>>
    BY <1>1, TellsNothing
<1>2. CASE ReadOutput \/ PromptOpen
    <2>1. openTurnLocked /\ UNCHANGED <<ends, asked, settled, watch, pumpEnded>>
        BY <1>2 DEF ReadOutput, PromptOpen, Opens, approvalVars, endVars
    <2> QED BY <2>1, OpensTurnContract
<1>3. CASE Cli \/ StreamDone \/ PromptCheck \/ PromptSend \/ CallClose \/ CallKill \/ UNCHANGED vars
           \/ (\E k \in Keys : Resolve(k))
           \/ \E r \in Requests : ReadRequest(r) \/ ReadWithdrawn(r) \/ Park(r) \/ TakeAnswer(r)
                                  \/ GiveUp(r) \/ Serve(r) \/ Reply(r)
    BY <1>1, <1>3 DEF Cli, TakesPrompt, Speaks, EndsTurn, Settles, CliExits, Asks, Withdraws, StreamDone,
          PromptCheck, PromptSend, CallClose, CallKill, Resolve, ReadRequest, ReadWithdrawn, Park,
          TakeAnswer, GiveUp, Serve, Reply, vars, approvalVars, turnVars, endVars
<1> QED
    BY <1>2, <1>3, ReadResultContract, RaiseContract, TellResolvedContract, EndingContract
       DEF Next, ReadLoop, Goroutine

\* The events keep the contract of a session, step by step: turns one at a time
\* while claude lives, an approval settled once however the person, claude's
\* withdrawal and the end of the turn meet, nothing told as the channel ends.
THEOREM EventsKeepContract == Spec => KeepsContract
BY InitContract, SessionInvHolds, NextContract, PTL DEF Spec, KeepsContract, Contract!Spec

===============================================================================
