--------------------------- MODULE AcpSession_proofs ---------------------------
(***************************************************************************)
(* Proofs about AcpSession, for any number of prompts, of requests and of  *)
(* ids: settle has one winner, turns counts the turns that are open, the   *)
(* end of the session reports those, and a request is resolved once and    *)
(* can be until then.                                                      *)
(***************************************************************************)
EXTENDS AcpSession, FiniteSetTheorems, TLAPS

-------------------------------------------------------------------------------
(* The parts of the inductive invariants.                                  *)

TurnClaims(p) == turn[p] \in {"settled", "uncounted"}
TimerClaims(p) == timer[p] \in {"claimed", "uncounted"}

\* settle has one winner, and nothing is told until it tells.
OneWinner ==
    \A p \in Prompts :
        /\ TurnClaims(p) \/ TimerClaims(p) => p \in settled
        /\ ~(TurnClaims(p) /\ TimerClaims(p))
        /\ (p \notin settled \/ TurnClaims(p) \/ TimerClaims(p)) =>
              \A k \in EndKinds : told[p][k] = 0

\* A prompt that has not started has no timer and no end.
NotStarted ==
    \A p \in Prompts :
        /\ turn[p] \in {"none", "checked", "counted"} =>
              timer[p] = "off" /\ p \notin settled
        /\ turn[p] \in {"none", "checked"} => p \notin waiting \cup worked

\* A timer that fires has found no sign of work, and there will be none.
Silent ==
    \A p \in Prompts :
        /\ p \in waiting => p \notin worked
        /\ timer[p] \in {"silent", "claimed", "uncounted"} \/ told[p]["no_response"] > 0 =>
              p \notin waiting \cup worked

TurnParts == OneWinner /\ NotStarted /\ Silent /\ ToldOnce

\* Once reportExit has looked, a prompt it could see is settled or told of.
Looking == ending \in {"open", "fail", "reap", "report"}

EndInv ==
    /\ Looking => seen = {}
    /\ Looking \/ ending = "exitEvent" => exits = 0
    /\ pumpEnded => ending = "finished"
    /\ ending \in {"endPump", "finished"} => \A p \in seen : p \in settled \/ exits = 1

\* Where a request is between Park and its answer.
Unparked(r) == asking[r] \in {"none", "arrived", "working"}

Parked ==
    \A i \in Ids, r \in Requests :
        pending[i] = r =>
            /\ key[r] = i /\ ~Unparked(r)
            /\ resolving # r /\ resolved[r] = 0 /\ answer[r] = "none"

Taken ==
    /\ caller \in {"resolving", "resolved"} <=> resolving # Nobody
    /\ \A r \in Requests :
          /\ resolving = r =>
                /\ resolved[r] = 0 /\ ~Unparked(r)
                /\ answer[r] = (IF caller = "resolved" THEN "resolved" ELSE "none")
          /\ Unparked(r) => resolved[r] = 0 /\ answer[r] = "none"
          /\ resolved[r] <= 1 /\ (resolved[r] = 1 => answer[r] = "resolved")

Dropped ==
    \A r \in Requests :
        /\ asking[r] = "dropping" => stream = "done"
        /\ reply[r] = "cancelled" => answer[r] = "cancelled" \/ stream = "done"

Waits(r) == asking[r] \in {"registered", "raised"} /\ answer[r] = "none"

ParkedIsReachable ==
    \A r \in Requests :
        Waits(r) /\ latest[key[r]] = r /\ stream # "done" => Reachable(r)

\* The one goroutine that calls the session's methods is in one of them.
Starts(p) == turn[p] \in {"checked", "counted"}
OneCall ==
    \A p \in Prompts : Starts(p) =>
        caller = "prompting" /\ \A q \in Prompts : Starts(q) => q = p

RequestParts == Parked /\ Taken /\ Dropped /\ ParkedIsReachable

-------------------------------------------------------------------------------
(* Types.                                                                  *)

\* A counter of a family counts on, and stays a number.
LEMMA CountsOnce ==
    ASSUME NEW S, NEW f \in [S -> Nat], NEW x
    PROVE  [f EXCEPT ![x] = @ + 1] \in [S -> Nat]
<1>1. CASE x \in S
    <2>1. f[x] + 1 \in Nat BY <1>1
    <2> QED BY <2>1
<1>2. CASE x \notin S BY <1>2
<1> QED BY <1>1, <1>2

LEMMA InitTypeOK == Init => TypeOK
<1> SUFFICES ASSUME Init PROVE TypeOK
    OBVIOUS
<1>1. told \in [Prompts -> [EndKinds -> Nat]]
    BY DEF Init
<1>2. resolved \in [Requests -> Nat] /\ turns \in Int /\ exits \in Nat
    BY DEF Init
<1> QED
    BY <1>1, <1>2, Zenon DEF Init, TypeOK, TurnStates, TimerStates, AskStates, EndStates, Closers

LEMMA AgentTypeOK ==
    TypeOK /\ (AgentExits \/ StreamDone \/ SignOfWork \/ BeginAgentTurn \/ EndAgentTurn
               \/ AgentDies) => TypeOK'
<1> SUFFICES ASSUME TypeOK,
                    AgentExits \/ StreamDone \/ SignOfWork \/ BeginAgentTurn
                      \/ EndAgentTurn \/ AgentDies
             PROVE  TypeOK'
    OBVIOUS
<1> USE DEF TypeOK, prompting, counting, parking, calling, closing, turnHistory,
        askHistory, exitHistory
<1>1. CASE AgentExits BY <1>1 DEF AgentExits
<1>2. CASE StreamDone BY <1>2 DEF StreamDone
<1>3. CASE SignOfWork BY <1>3 DEF SignOfWork, Alive
<1>4. CASE BeginAgentTurn BY <1>4 DEF BeginAgentTurn
<1>5. CASE EndAgentTurn
    <2>1. turns' \in Int BY <1>5 DEF EndAgentTurn
    <2>2. agentTurn' \in BOOLEAN BY <1>5, Zenon DEF EndAgentTurn
    <2> QED BY <1>5, <2>1, <2>2 DEF EndAgentTurn
<1>6. CASE AgentDies BY <1>1, <1>6 DEF AgentDies, AgentExits
<1> QED BY <1>1, <1>2, <1>3, <1>4, <1>5, <1>6

LEMMA PromptTypeOK ==
    ASSUME TypeOK, NEW p \in Prompts,
           \/ PromptCheck(p) \/ PromptCount(p) \/ PromptStart(p)
           \/ Answered(p) \/ Failed(p) \/ CutShort(p) \/ PromptGoroutine(p)
    PROVE  TypeOK'
<1> USE DEF TypeOK, TurnStates, TimerStates, prompting, counting, parking, calling, closing,
        turnHistory, askHistory, exitHistory, Turn
<1>1. CASE PromptCheck(p) BY <1>1 DEF PromptCheck
<1>2. CASE PromptCount(p) BY <1>2 DEF PromptCount
<1>3. CASE PromptStart(p) BY <1>3 DEF PromptStart, Accept
<1>4. CASE Answered(p) \/ Failed(p) \/ CutShort(p)
    <2>1. PICK how \in {"ok", "error", "cut"} : CallReturns(p, how)
        BY <1>4 DEF Answered, Failed, CutShort
    <2> QED BY <2>1 DEF CallReturns
<1>5. CASE Release(p) BY <1>5 DEF Release
<1>6. CASE LeaveOpen(p) BY <1>6 DEF LeaveOpen
<1>7. CASE Settle(p) BY <1>7 DEF Settle
<1>8. CASE Uncount(p) BY <1>8 DEF Uncount
<1>9. CASE Report(p)
    <2>1. told' \in [Prompts -> [EndKinds -> Nat]]
        BY <1>9 DEF Report, Tell, EndKinds
    <2> QED BY <1>9, <2>1 DEF Report
<1> QED BY <1>1, <1>2, <1>3, <1>4, <1>5, <1>6, <1>7, <1>8, <1>9 DEF PromptGoroutine

LEMMA TimerTypeOK ==
    ASSUME TypeOK, NEW p \in Prompts, TimerFires(p) \/ TimerGoroutine(p)
    PROVE  TypeOK'
<1> USE DEF TypeOK, TimerStates, prompting, counting, parking, calling, closing,
        turnHistory, askHistory, exitHistory, Timer
<1>1. CASE TimerFires(p) BY <1>1 DEF TimerFires
<1>2. CASE TimerLeaves(p) BY <1>2 DEF TimerLeaves
<1>3. CASE TimerSettles(p) BY <1>3 DEF TimerSettles
<1>4. CASE TimerUncounts(p) BY <1>4 DEF TimerUncounts
<1>5. CASE TimerReports(p)
    <2>1. told' \in [Prompts -> [EndKinds -> Nat]]
        BY <1>5 DEF TimerReports, Tell, EndKinds
    <2> QED BY <1>5, <2>1 DEF TimerReports
<1> QED BY <1>1, <1>2, <1>3, <1>4, <1>5 DEF TimerGoroutine

LEMMA RequestTypeOK ==
    ASSUME TypeOK, NEW r \in Requests, Arrive(r) \/ RequestGoroutine(r)
    PROVE  TypeOK'
<1> USE DEF TypeOK, AskStates, prompting, counting, parking, calling, closing,
        turnHistory, askHistory, exitHistory, Ask
<1>1. CASE Arrive(r) BY <1>1 DEF Arrive
<1>2. CASE RequestIsWork(r) BY <1>2 DEF RequestIsWork, Alive
<1>3. CASE AllowUnasked(r) BY <1>3 DEF AllowUnasked
<1>4. CASE Park(r) BY <1>4 DEF Park
<1>5. CASE Raise(r) BY <1>5 DEF Raise, Accept
<1>6. CASE TakeAnswer(r) BY <1>6 DEF TakeAnswer
<1>7. CASE GiveUp(r) BY <1>7 DEF GiveUp
<1>8. CASE DropPending(r) BY <1>8 DEF DropPending
<1> QED BY <1>1, <1>2, <1>3, <1>4, <1>5, <1>6, <1>7, <1>8 DEF RequestGoroutine

LEMMA CallerTypeOK ==
    TypeOK /\ ((\E i \in Ids : ResolveTakes(i)) \/ Resolving \/ CallClose \/ CallKill)
      => TypeOK'
<1> SUFFICES ASSUME TypeOK,
                    (\E i \in Ids : ResolveTakes(i)) \/ Resolving \/ CallClose \/ CallKill
             PROVE  TypeOK'
    OBVIOUS
<1> USE DEF TypeOK, prompting, counting, parking, calling, closing, turnHistory,
        askHistory, exitHistory
<1>1. CASE \E i \in Ids : ResolveTakes(i) BY <1>1 DEF ResolveTakes
<1>2. CASE ResolveSettles BY <1>2 DEF ResolveSettles
<1>3. CASE ResolveTells
    <2>1. CASE pumpEnded
        BY <1>3, <2>1 DEF ResolveTells
    <2>2. CASE ~pumpEnded
        <3>1. resolved' = [resolved EXCEPT ![resolving] = @ + 1]
            BY <1>3, <2>2 DEF ResolveTells
        <3>2. resolved' \in [Requests -> Nat]
            BY <3>1, CountsOnce
        <3> QED BY <1>3, <3>2 DEF ResolveTells
    <2> QED BY <2>1, <2>2
<1>4. CASE CallClose BY <1>4 DEF CallClose
<1>5. CASE CallKill BY <1>5 DEF CallKill
<1> QED BY <1>1, <1>2, <1>3, <1>4, <1>5 DEF Resolving

LEMMA EndingTypeOK == TypeOK /\ Ending => TypeOK'
<1> SUFFICES ASSUME TypeOK, Ending PROVE TypeOK'
    OBVIOUS
<1> USE DEF TypeOK, EndStates, Closers, prompting, counting, parking, calling, closing,
        turnHistory, askHistory, exitHistory, End
<1>1. CASE \E who \in Closers : Own(who) BY <1>1 DEF Own
<1>2. CASE FailPending BY <1>2 DEF FailPending
<1>3. CASE Reap BY <1>3 DEF Reap
<1>4. CASE LookForTurns BY <1>4 DEF LookForTurns
<1>5. CASE ExitEvent BY <1>5 DEF ExitEvent
<1>6. CASE EndPump BY <1>6 DEF EndPump
<1>7. CASE Return BY <1>7 DEF Return
<1> QED BY <1>1, <1>2, <1>3, <1>4, <1>5, <1>6, <1>7 DEF Ending

LEMMA NextTypeOK == TypeOK /\ [Next]_vars => TypeOK'
<1> SUFFICES ASSUME TypeOK, [Next]_vars PROVE TypeOK'
    OBVIOUS
<1>1. CASE UNCHANGED vars
    BY <1>1 DEF TypeOK, vars, prompting, counting, parking, calling, closing,
          turnHistory, askHistory, exitHistory
<1> QED
    BY <1>1, AgentTypeOK, PromptTypeOK, TimerTypeOK, RequestTypeOK, CallerTypeOK,
       EndingTypeOK DEF Next

\* Every variable keeps its type, whatever the agent and the caller do.
THEOREM TypeCorrect == Spec => []TypeOK
BY InitTypeOK, NextTypeOK, PTL DEF Spec

-------------------------------------------------------------------------------
(* What a prompt tells of its end.                                         *)

LEMMA InitTurnInv == Init => TurnParts
BY DEF Init, TurnParts, OneWinner, TurnClaims, TimerClaims, NotStarted, Silent, ToldOnce, EndKinds

\* A step of anything but the prompts, their timers and the signs of work.
LEMMA OtherTurnParts ==
    TurnParts /\ UNCHANGED <<turn, timer, settled, told, waiting, worked>> => TurnParts'
BY DEF TurnParts, OneWinner, TurnClaims, TimerClaims, NotStarted, Silent, ToldOnce

LEMMA AliveTurnParts ==
    TurnParts /\ Alive /\ UNCHANGED <<turn, timer, settled, told>> => TurnParts'
BY DEF TurnParts, OneWinner, TurnClaims, TimerClaims, NotStarted, Silent, ToldOnce, Alive

\* A prompt that has claimed its end tells it, if the pump still takes it.
LEMMA TellTurnParts ==
    ASSUME TypeOK, TurnParts, NEW p \in Prompts, NEW kind \in EndKinds, Tell(p, kind),
           TurnClaims(p) \/ TimerClaims(p), ~(TurnClaims(p) \/ TimerClaims(p))',
           \A q \in Prompts \ {p} : turn'[q] = turn[q] /\ timer'[q] = timer[q],
           turn'[p] \notin {"none", "checked", "counted"},
           timer'[p] \in {timer[p], "gone"},
           kind = "no_response" => p \notin waiting \cup worked,
           UNCHANGED <<settled, waiting, worked>>
    PROVE  TurnParts'
<1>1. p \in settled /\ \A k \in EndKinds : told[p][k] = 0
    BY DEF TurnParts, OneWinner
<1>2. \A q \in Prompts \ {p} : told'[q] = told[q]
    BY DEF Tell, TypeOK
<1>3. /\ \A k \in EndKinds \ {kind} : told'[p][k] = 0
      /\ told'[p][kind] \in {0, 1}
    BY <1>1 DEF Tell, TypeOK
<1>4. OneWinner'
    BY <1>2 DEF TurnParts, OneWinner, TurnClaims, TimerClaims
<1>5. NotStarted'
    BY DEF TurnParts, NotStarted
<1>6. Silent'
    BY <1>2, <1>3 DEF TurnParts, Silent, EndKinds
<1>7. ToldOnce'
    <2>1. ASSUME NEW q \in Prompts \ {p}
          PROVE  /\ \A k \in EndKinds : told'[q][k] <= 1
                 /\ \A k, l \in EndKinds : told'[q][k] > 0 /\ told'[q][l] > 0 => k = l
        BY <1>2 DEF TurnParts, ToldOnce
    <2>2. /\ \A k \in EndKinds : told'[p][k] <= 1
          /\ \A k, l \in EndKinds : told'[p][k] > 0 /\ told'[p][l] > 0 => k = l
        BY <1>3
    <2> QED BY <2>1, <2>2 DEF ToldOnce
<1> QED BY <1>4, <1>5, <1>6, <1>7 DEF TurnParts

LEMMA PromptTurnParts ==
    ASSUME TypeOK, TurnParts, NEW p \in Prompts,
           \/ PromptCheck(p) \/ PromptCount(p) \/ PromptStart(p)
           \/ Answered(p) \/ Failed(p) \/ CutShort(p) \/ PromptGoroutine(p)
    PROVE  TurnParts'
<1>1. CASE Report(p)
    <2>1. turn[p] = "uncounted" /\ turn' = [turn EXCEPT ![p] = "reported"]
          /\ UNCHANGED <<timer, settled, waiting, worked>>
        BY <1>1 DEF Report, Turn, counting
    <2>2. ~(TurnClaims(p) \/ TimerClaims(p))'
        BY <2>1 DEF TurnParts, OneWinner, TurnClaims, TimerClaims, TypeOK
    <2>3. PICK kind \in {"completed", "error"} : Tell(p, kind)
        BY <1>1 DEF Report
    <2> QED BY <2>1, <2>2, <2>3, TellTurnParts DEF TurnClaims, EndKinds, TypeOK
<1>2. CASE ~Report(p)
    <2> USE DEF TypeOK, prompting, counting, turnHistory, Turn, TurnParts
    <2>1. CASE PromptCheck(p)
        BY <2>1 DEF PromptCheck, OneWinner, TurnClaims, TimerClaims, NotStarted, Silent, ToldOnce
    <2>2. CASE PromptCount(p)
        BY <2>2 DEF PromptCount, OneWinner, TurnClaims, TimerClaims, NotStarted, Silent, ToldOnce,
              EndKinds
    <2>3. CASE PromptStart(p)
        BY <2>3 DEF PromptStart, OneWinner, TurnClaims, TimerClaims, NotStarted, Silent, ToldOnce
    <2>4. CASE Answered(p) \/ Failed(p) \/ CutShort(p)
        BY <2>4 DEF Answered, Failed, CutShort, CallReturns, OneWinner, TurnClaims,
              TimerClaims, NotStarted, Silent, ToldOnce
    <2>5. CASE Release(p)
        BY <2>5 DEF Release, OneWinner, TurnClaims, TimerClaims, NotStarted, Silent, ToldOnce
    <2>6. CASE LeaveOpen(p)
        BY <2>6 DEF LeaveOpen, OneWinner, TurnClaims, TimerClaims, NotStarted, Silent, ToldOnce
    <2>7. CASE Settle(p)
        BY <2>7 DEF Settle, OneWinner, TurnClaims, TimerClaims, NotStarted, Silent, ToldOnce
    <2>8. CASE Uncount(p)
        BY <2>8 DEF Uncount, OneWinner, TurnClaims, TimerClaims, NotStarted, Silent, ToldOnce
    <2> QED
        BY <1>2, <2>1, <2>2, <2>3, <2>4, <2>5, <2>6, <2>7, <2>8 DEF PromptGoroutine
<1> QED BY <1>1, <1>2

LEMMA TimerTurnParts ==
    ASSUME TypeOK, TurnParts, NEW p \in Prompts, TimerFires(p) \/ TimerGoroutine(p)
    PROVE  TurnParts'
<1>1. CASE TimerReports(p)
    <2>1. timer[p] = "uncounted" /\ timer' = [timer EXCEPT ![p] = "gone"]
          /\ Tell(p, "no_response") /\ UNCHANGED <<turn, settled, waiting, worked>>
        BY <1>1 DEF TimerReports, Timer, counting
    <2>2. /\ ~(TurnClaims(p) \/ TimerClaims(p))'
          /\ turn[p] \notin {"none", "checked", "counted"}
          /\ p \notin waiting \cup worked
        BY <2>1 DEF TurnParts, OneWinner, NotStarted, Silent, TurnClaims, TimerClaims, TypeOK
    <2> QED BY <2>1, <2>2, TellTurnParts DEF TimerClaims, EndKinds, TypeOK
<1>2. CASE ~TimerReports(p)
    <2> USE DEF TypeOK, prompting, counting, turnHistory, Timer, TurnParts
    <2>1. CASE TimerFires(p)
        BY <2>1 DEF TimerFires, OneWinner, TurnClaims, TimerClaims, NotStarted, Silent, ToldOnce
    <2>2. CASE TimerLeaves(p)
        BY <2>2 DEF TimerLeaves, OneWinner, TurnClaims, TimerClaims, NotStarted, Silent, ToldOnce
    <2>3. CASE TimerSettles(p)
        BY <2>3 DEF TimerSettles, OneWinner, TurnClaims, TimerClaims, NotStarted, Silent, ToldOnce
    <2>4. CASE TimerUncounts(p)
        BY <2>4 DEF TimerUncounts, OneWinner, TurnClaims, TimerClaims, NotStarted, Silent, ToldOnce
    <2> QED BY <1>2, <2>1, <2>2, <2>3, <2>4 DEF TimerGoroutine
<1> QED BY <1>1, <1>2

LEMMA NextTurnParts == TypeOK /\ TurnParts /\ [Next]_vars => TurnParts'
<1> SUFFICES ASSUME TypeOK, TurnParts, [Next]_vars PROVE TurnParts'
    OBVIOUS
<1>1. CASE AgentExits \/ StreamDone \/ BeginAgentTurn \/ EndAgentTurn \/ AgentDies \/ Resolving
           \/ CallClose \/ CallKill \/ UNCHANGED vars \/ \E i \in Ids : ResolveTakes(i)
    <2>1. UNCHANGED <<turn, timer, settled, told, waiting, worked>>
        BY <1>1 DEF AgentExits, StreamDone, BeginAgentTurn, EndAgentTurn, AgentDies, Resolving,
              ResolveSettles, ResolveTells, CallClose, CallKill, ResolveTakes, vars, prompting,
              counting, turnHistory
    <2> QED BY <2>1, OtherTurnParts
<1>2. CASE SignOfWork \/ \E r \in Requests : RequestIsWork(r)
    <2>1. Alive /\ UNCHANGED <<turn, timer, settled, told>>
        BY <1>2 DEF SignOfWork, RequestIsWork, prompting
    <2> QED BY <2>1, AliveTurnParts
<1>3. CASE \E r \in Requests : Arrive(r) \/ AllowUnasked(r) \/ Park(r) \/ Raise(r)
                                \/ TakeAnswer(r) \/ GiveUp(r) \/ DropPending(r)
    <2>1. UNCHANGED <<turn, timer, settled, told, waiting, worked>>
        BY <1>3 DEF Arrive, AllowUnasked, Park, Raise, TakeAnswer, GiveUp, DropPending, prompting,
              counting, turnHistory
    <2> QED BY <2>1, OtherTurnParts
<1>4. CASE Ending
    <2>1. UNCHANGED <<turn, timer, settled, told, waiting, worked>>
        BY <1>4 DEF Ending, Own, FailPending, Reap, LookForTurns, ExitEvent, EndPump, Return,
              prompting, counting, turnHistory
    <2> QED BY <2>1, OtherTurnParts
<1> QED
    BY <1>1, <1>2, <1>3, <1>4, PromptTurnParts, TimerTurnParts DEF Next, RequestGoroutine

\* A prompt reports its own end once, of the answer and the first-event
\* timeout that race to report it, and no_response only of a prompt that had
\* shown no sign of work.
THEOREM PromptsToldTruly == Spec => []ToldTruly
<1>1. TurnParts => ToldTruly
    BY DEF TurnParts, Silent, ToldTruly, NoResponseMeansSilent
<1> QED BY <1>1, InitTurnInv, NextTurnParts, TypeCorrect, PTL DEF Spec

-------------------------------------------------------------------------------
(* turns.                                                                  *)

CountedPrompts == {p \in Prompts : Counted(p)}
OwnTurn == IF agentTurn THEN 1 ELSE 0

LEMMA CountIsNat == IsFiniteSet(CountedPrompts) /\ Cardinality(CountedPrompts) \in Nat
BY PromptsAssumption, FS_Subset, FS_CardinalityType DEF CountedPrompts

LEMMA SameCount ==
    (\A q \in Prompts : Counted(q)' <=> Counted(q)) => CountedPrompts' = CountedPrompts
BY DEF CountedPrompts

LEMMA OneMore ==
    ASSUME NEW p \in Prompts, ~Counted(p), Counted(p)',
           \A q \in Prompts \ {p} : Counted(q)' <=> Counted(q)
    PROVE  Cardinality(CountedPrompts') = Cardinality(CountedPrompts) + 1
<1>1. CountedPrompts' = CountedPrompts \cup {p} /\ p \notin CountedPrompts
    BY DEF CountedPrompts
<1> QED BY <1>1, CountIsNat, FS_AddElement

LEMMA OneLess ==
    ASSUME NEW p \in Prompts, Counted(p), ~Counted(p)',
           \A q \in Prompts \ {p} : Counted(q)' <=> Counted(q)
    PROVE  Cardinality(CountedPrompts') = Cardinality(CountedPrompts) - 1
<1>1. CountedPrompts' = CountedPrompts \ {p} /\ p \in CountedPrompts
    BY DEF CountedPrompts
<1> QED BY <1>1, CountIsNat, FS_RemoveElement

\* How a step moves the count and the turns it stands for.
Balanced == turns = Cardinality(CountedPrompts) + OwnTurn

LEMMA InitBalanced == Init => Balanced
<1> SUFFICES ASSUME Init PROVE Balanced
    OBVIOUS
<1>1. CountedPrompts = {}
    BY DEF Init, CountedPrompts, Counted
<1> QED BY <1>1, FS_EmptySet DEF Init, Balanced, OwnTurn

LEMMA KeepsBalance ==
    ASSUME Balanced, UNCHANGED <<turns, agentTurn>>,
           \A q \in Prompts : Counted(q)' <=> Counted(q)
    PROVE  Balanced'
BY SameCount DEF Balanced, OwnTurn

LEMMA CountsUp ==
    ASSUME Balanced, NEW p \in Prompts, ~Counted(p), Counted(p)', turns' = turns + 1,
           UNCHANGED agentTurn, \A q \in Prompts \ {p} : Counted(q)' <=> Counted(q)
    PROVE  Balanced'
<1>1. Cardinality(CountedPrompts') = Cardinality(CountedPrompts) + 1
    BY OneMore
<1>2. OwnTurn' = OwnTurn /\ OwnTurn \in Nat
    BY DEF OwnTurn
<1> QED BY <1>1, <1>2, CountIsNat DEF Balanced

LEMMA CountsDown ==
    ASSUME Balanced, NEW p \in Prompts, Counted(p), ~Counted(p)', turns' = turns - 1,
           UNCHANGED agentTurn, \A q \in Prompts \ {p} : Counted(q)' <=> Counted(q)
    PROVE  Balanced'
<1>1. Cardinality(CountedPrompts') = Cardinality(CountedPrompts) - 1
    BY OneLess
<1>2. OwnTurn' = OwnTurn /\ OwnTurn \in Nat
    BY DEF OwnTurn
<1> QED BY <1>1, <1>2, CountIsNat DEF Balanced

LEMMA PromptBalanced ==
    ASSUME TypeOK, TurnParts, Balanced, NEW p \in Prompts,
           \/ PromptCheck(p) \/ PromptCount(p) \/ PromptStart(p)
           \/ Answered(p) \/ Failed(p) \/ CutShort(p) \/ PromptGoroutine(p)
    PROVE  Balanced'
<1> USE DEF TypeOK, prompting, counting, Turn, Counted
<1>1. CASE PromptCheck(p)
    BY <1>1, KeepsBalance DEF PromptCheck
<1>2. CASE PromptCount(p)
    <2>1. ~Counted(p) /\ Counted(p)'
        BY <1>2 DEF PromptCount, TurnParts, NotStarted
    <2> QED BY <1>2, <2>1, CountsUp DEF PromptCount
<1>3. CASE PromptStart(p)
    <2>1. Counted(p)' <=> Counted(p)
        BY <1>3 DEF PromptStart, TurnParts, NotStarted
    <2> QED BY <1>3, <2>1, KeepsBalance DEF PromptStart
<1>4. CASE Answered(p) \/ Failed(p) \/ CutShort(p)
    BY <1>4, KeepsBalance DEF Answered, Failed, CutShort, CallReturns
<1>5. CASE Release(p)
    BY <1>5, KeepsBalance DEF Release
<1>6. CASE LeaveOpen(p)
    BY <1>6, KeepsBalance DEF LeaveOpen
<1>7. CASE Settle(p)
    BY <1>7, KeepsBalance DEF Settle, TurnParts, OneWinner, TurnClaims, TimerClaims
<1>8. CASE Uncount(p)
    <2>1. Counted(p) /\ ~Counted(p)'
        BY <1>8 DEF Uncount, TurnParts, OneWinner, TurnClaims, TimerClaims
    <2> QED BY <1>8, <2>1, CountsDown DEF Uncount
<1>9. CASE Report(p)
    BY <1>9, KeepsBalance DEF Report
<1> QED BY <1>1, <1>2, <1>3, <1>4, <1>5, <1>6, <1>7, <1>8, <1>9 DEF PromptGoroutine

LEMMA TimerBalanced ==
    ASSUME TypeOK, TurnParts, Balanced, NEW p \in Prompts, TimerFires(p) \/ TimerGoroutine(p)
    PROVE  Balanced'
<1> USE DEF TypeOK, prompting, counting, Timer, Counted
<1>1. CASE TimerFires(p)
    BY <1>1, KeepsBalance DEF TimerFires
<1>2. CASE TimerLeaves(p)
    BY <1>2, KeepsBalance DEF TimerLeaves
<1>3. CASE TimerSettles(p)
    BY <1>3, KeepsBalance DEF TimerSettles, TurnParts, OneWinner, TurnClaims, TimerClaims, NotStarted
<1>4. CASE TimerUncounts(p)
    <2>1. Counted(p) /\ ~Counted(p)'
        BY <1>4 DEF TimerUncounts, TurnParts, OneWinner, TurnClaims, TimerClaims, NotStarted
    <2> QED BY <1>4, <2>1, CountsDown DEF TimerUncounts
<1>5. CASE TimerReports(p)
    BY <1>5, KeepsBalance DEF TimerReports
<1> QED BY <1>1, <1>2, <1>3, <1>4, <1>5 DEF TimerGoroutine

\* A turn the agent began on its own is counted as long as it lasts.
LEMMA AgentTurnBalanced ==
    TypeOK /\ Balanced /\ (BeginAgentTurn \/ EndAgentTurn) => Balanced'
<1> SUFFICES ASSUME TypeOK, Balanced, BeginAgentTurn \/ EndAgentTurn PROVE Balanced'
    OBVIOUS
<1>1. CountedPrompts' = CountedPrompts
    BY SameCount DEF BeginAgentTurn, EndAgentTurn, prompting, Counted
<1>2. CASE BeginAgentTurn
    <2>1. OwnTurn = 0 /\ OwnTurn' = 1
        BY <1>2 DEF BeginAgentTurn, OwnTurn
    <2>2. turns' = turns + 1
        BY <1>2 DEF BeginAgentTurn
    <2> QED BY <1>1, <2>1, <2>2, CountIsNat DEF Balanced
<1>3. CASE EndAgentTurn
    <2>1. OwnTurn = 1 /\ OwnTurn' = 0
        BY <1>3 DEF EndAgentTurn, OwnTurn
    <2>2. turns' = turns - 1
        BY <1>3 DEF EndAgentTurn
    <2> QED BY <1>1, <2>1, <2>2, CountIsNat DEF Balanced
<1> QED BY <1>2, <1>3

\* reportExit's reset is the only step that breaks the balance.
LEMMA NextBalanced ==
    TypeOK /\ TurnParts /\ Balanced /\ [Next]_vars /\ ~LookForTurns => Balanced'
<1> SUFFICES ASSUME TypeOK, TurnParts, Balanced, [Next]_vars, ~LookForTurns PROVE Balanced'
    OBVIOUS
<1>1. CASE AgentExits \/ StreamDone \/ AgentDies \/ Resolving
           \/ CallClose \/ CallKill \/ UNCHANGED vars \/ \E i \in Ids : ResolveTakes(i)
    BY <1>1, KeepsBalance DEF AgentExits, StreamDone, AgentDies, Resolving, ResolveSettles,
          ResolveTells, CallClose, CallKill, ResolveTakes, vars, prompting, counting, Counted
<1>2. CASE SignOfWork \/ \E r \in Requests : Arrive(r) \/ RequestGoroutine(r)
    BY <1>2, KeepsBalance DEF SignOfWork, Arrive, RequestGoroutine, RequestIsWork, AllowUnasked,
          Park, Raise, TakeAnswer, GiveUp, DropPending, prompting, counting, Counted
<1>3. CASE Ending
    BY <1>3, KeepsBalance DEF Ending, Own, FailPending, Reap, ExitEvent, EndPump, Return,
          prompting, counting, Counted
<1> QED
    BY <1>1, <1>2, <1>3, PromptBalanced, TimerBalanced, AgentTurnBalanced DEF Next

\* The end of the session goes one way, and changes nobody else's state.
LEMMA EndGoes ==
    ASSUME TypeOK, [Next]_vars
    PROVE  /\ Looking' => Looking /\ ~LookForTurns
           /\ ~Ending => UNCHANGED <<ending, exits, seen, pumpEnded>>
<1> USE DEF TypeOK, EndStates, Looking, closing, exitHistory
<1>1. CASE ~Ending
    <2>1. CASE AgentExits \/ StreamDone \/ AgentDies \/ Resolving \/ SignOfWork
               \/ BeginAgentTurn \/ EndAgentTurn
            \/ CallClose \/ CallKill \/ UNCHANGED vars \/ \E i \in Ids : ResolveTakes(i)
        BY <1>1, <2>1 DEF AgentExits, StreamDone, AgentDies, Resolving, ResolveSettles, SignOfWork,
              BeginAgentTurn, EndAgentTurn, ResolveTells, CallClose, CallKill, ResolveTakes, vars,
              LookForTurns, End
    <2>2. CASE \E r \in Requests : Arrive(r) \/ RequestGoroutine(r)
        BY <1>1, <2>2 DEF Arrive, RequestGoroutine, RequestIsWork, AllowUnasked, Park, Raise,
              TakeAnswer, GiveUp, DropPending, LookForTurns, End
    <2>3. CASE \E p \in Prompts :
                  \/ PromptCheck(p) \/ PromptCount(p) \/ PromptStart(p)
                  \/ Answered(p) \/ Failed(p) \/ CutShort(p)
                  \/ PromptGoroutine(p) \/ TimerFires(p) \/ TimerGoroutine(p)
        BY <1>1, <2>3 DEF PromptCheck, PromptCount, PromptStart, Answered, Failed, CutShort,
              CallReturns, PromptGoroutine, Release, LeaveOpen, Settle, Uncount, Report, TimerFires,
              TimerGoroutine, TimerLeaves, TimerSettles, TimerUncounts, TimerReports,
              LookForTurns, End
    <2> QED BY <1>1, <2>1, <2>2, <2>3 DEF Next
<1>2. CASE Ending
    BY <1>2 DEF Ending, Own, FailPending, Reap, LookForTurns, ExitEvent, EndPump, Return, End
<1> QED BY <1>1, <1>2

CountInv == Looking => Balanced

\* Until the session reports its exit, turns counts the turns nobody has
\* begun to report.
THEOREM TurnsAreCounted == Spec => []TurnsCounted
<1>1. TypeOK /\ TurnParts /\ CountInv /\ [Next]_vars => CountInv'
    BY NextBalanced, EndGoes DEF CountInv
<1>2. CountInv => TurnsCounted
    BY DEF CountInv, Looking, Balanced, TurnsCounted, CountedPrompts, OwnTurn
<1>3. Init => CountInv
    BY InitBalanced DEF CountInv
<1> QED BY <1>1, <1>2, <1>3, InitTurnInv, NextTurnParts, TypeCorrect, PTL DEF Spec

-------------------------------------------------------------------------------
(* The report of the session's end.                                        *)

LEMMA InitEndInv == Init => EndInv
BY DEF Init, EndInv, Looking

\* reportExit's look misses no turn that is open.
LEMMA LookSeesTurns ==
    ASSUME TypeOK, Balanced, turns <= 0, NEW p \in Prompts, turn[p] \notin {"none", "checked"}
    PROVE  p \in settled
<1>1. Cardinality(CountedPrompts) = 0
    BY CountIsNat DEF Balanced, OwnTurn
<1>2. CountedPrompts = {}
    BY <1>1, CountIsNat, FS_EmptySet
<1> QED BY <1>2 DEF CountedPrompts, Counted

LEMMA SettledStays == TypeOK /\ [Next]_vars => settled \subseteq settled'
<1> SUFFICES ASSUME TypeOK, [Next]_vars PROVE settled \subseteq settled'
    OBVIOUS
<1>1. CASE \E p \in Prompts :
              \/ PromptCheck(p) \/ PromptCount(p) \/ PromptStart(p)
              \/ Answered(p) \/ Failed(p) \/ CutShort(p)
              \/ PromptGoroutine(p) \/ TimerFires(p) \/ TimerGoroutine(p)
    BY <1>1 DEF PromptCheck, PromptCount, PromptStart, Answered, Failed, CutShort, CallReturns,
          PromptGoroutine, Release, LeaveOpen, Settle, Uncount, Report, TimerFires,
          TimerGoroutine, TimerLeaves, TimerSettles, TimerUncounts, TimerReports
<1>2. CASE \E r \in Requests : Arrive(r) \/ RequestGoroutine(r)
    BY <1>2 DEF Arrive, RequestGoroutine, RequestIsWork, AllowUnasked, Park, Raise, TakeAnswer,
          GiveUp, DropPending, prompting
<1>3. CASE Ending
    BY <1>3 DEF Ending, Own, FailPending, Reap, LookForTurns, ExitEvent, EndPump, Return, prompting
<1>4. CASE AgentExits \/ StreamDone \/ AgentDies \/ Resolving \/ SignOfWork
           \/ BeginAgentTurn \/ EndAgentTurn
           \/ CallClose \/ CallKill \/ UNCHANGED vars \/ \E i \in Ids : ResolveTakes(i)
    BY <1>4 DEF AgentExits, StreamDone, AgentDies, Resolving, ResolveSettles, SignOfWork,
          BeginAgentTurn, EndAgentTurn, ResolveTells, CallClose, CallKill, ResolveTakes, vars,
          prompting
<1> QED BY <1>1, <1>2, <1>3, <1>4 DEF Next

LEMMA NextEndInv == TypeOK /\ CountInv /\ EndInv /\ [Next]_vars => EndInv'
<1> SUFFICES ASSUME TypeOK, CountInv, EndInv, [Next]_vars PROVE EndInv'
    OBVIOUS
<1>1. CASE ~Ending
    BY <1>1, EndGoes, SettledStays DEF EndInv, Looking, TypeOK
<1> USE DEF EndInv, Looking, closing, exitHistory, prompting, End
<1>2. CASE \E who \in Closers : Own(who)
    BY <1>2 DEF Own
<1>3. CASE FailPending
    BY <1>3 DEF FailPending
<1>4. CASE Reap
    BY <1>4 DEF Reap
<1>5. CASE LookForTurns
    <2>1. ending = "report" /\ exits' = exits /\ exits = 0 /\ settled' = settled
          /\ pumpEnded' = pumpEnded /\ ~pumpEnded
        BY <1>5 DEF LookForTurns
    <2>2. CASE turns > 0
        BY <1>5, <2>1, <2>2 DEF LookForTurns
    <2>3. CASE ~(turns > 0)
        <3>1. \A p \in seen' : p \in settled
            BY <1>5, <2>1, <2>3, LookSeesTurns DEF LookForTurns, CountInv, TypeOK
        <3> QED BY <1>5, <2>1, <2>3, <3>1 DEF LookForTurns
    <2> QED BY <2>2, <2>3
<1>6. CASE ExitEvent
    BY <1>6 DEF ExitEvent
<1>7. CASE EndPump
    BY <1>7 DEF EndPump
<1>8. CASE Return
    BY <1>8 DEF Return
<1> QED BY <1>1, <1>2, <1>3, <1>4, <1>5, <1>6, <1>7, <1>8 DEF Ending

\* A turn its goroutine left to whoever ends the session is told of before
\* Events closes, if reportExit could see it.
THEOREM LeftTurnsAreReported == Spec => []LeftTurnsReported
<1>1. EndInv => LeftTurnsReported
    BY DEF EndInv, LeftTurnsReported
<1>2. TypeOK /\ TurnParts /\ CountInv /\ [Next]_vars => CountInv'
    BY NextBalanced, EndGoes DEF CountInv
<1>3. Init => CountInv
    BY InitBalanced DEF CountInv
<1> QED
    BY <1>1, <1>2, <1>3, InitEndInv, NextEndInv, InitTurnInv, NextTurnParts, TypeCorrect, PTL
       DEF Spec

-------------------------------------------------------------------------------
(* The agent's requests.                                                   *)

LEMMA InitRequestParts == Init => RequestParts
BY NobodyAssumption DEF Init, RequestParts, Parked, Taken, Dropped, ParkedIsReachable, Unparked,
   Waits, Reachable

\* A step of anything but the requests and the calls that answer them.
LEMMA OtherRequestParts ==
    ASSUME RequestParts, UNCHANGED <<pending, key, asking, answer, reply, resolving, resolved, latest>>,
           stream = "done" => stream' = "done",
           \/ caller' = caller
           \/ \A c \in {"resolving", "resolved"} : c # caller /\ c # caller'
    PROVE  RequestParts'
<1>1. Parked' BY DEF RequestParts, Parked, Unparked
<1>2. Taken' BY DEF RequestParts, Taken, Unparked
<1>3. Dropped' BY DEF RequestParts, Dropped
<1>4. ParkedIsReachable' BY DEF RequestParts, ParkedIsReachable, Waits, Reachable
<1> QED BY <1>1, <1>2, <1>3, <1>4 DEF RequestParts

LEMMA RequestRequestParts ==
    ASSUME TypeOK, RequestParts, NEW r \in Requests, Arrive(r) \/ RequestGoroutine(r)
    PROVE  RequestParts'
<1> USE NobodyAssumption DEF TypeOK, AskStates, parking, calling, askHistory, Ask, RequestParts,
        Unparked
<1>1. CASE Arrive(r)
    BY <1>1 DEF Arrive, Parked, Taken, Dropped, ParkedIsReachable, Waits, Reachable
<1>2. CASE RequestIsWork(r)
    BY <1>2 DEF RequestIsWork, Parked, Taken, Dropped, ParkedIsReachable, Waits, Reachable
<1>3. CASE AllowUnasked(r)
    BY <1>3 DEF AllowUnasked, Parked, Taken, Dropped, ParkedIsReachable, Waits, Reachable
<1>4. CASE Park(r)
    <2>1. Parked' BY <1>4 DEF Park, Parked, Taken
    <2>2. Taken' BY <1>4 DEF Park, Taken
    <2>3. Dropped' BY <1>4 DEF Park, Dropped
    <2>4. ParkedIsReachable' BY <1>4 DEF Park, ParkedIsReachable, Waits, Reachable
    <2> QED BY <2>1, <2>2, <2>3, <2>4
<1>5. CASE Raise(r)
    BY <1>5 DEF Raise, Parked, Taken, Dropped, ParkedIsReachable, Waits, Reachable
<1>6. CASE TakeAnswer(r)
    <2>1. Parked' BY <1>6 DEF TakeAnswer, Parked
    <2>2. Taken' BY <1>6 DEF TakeAnswer, Taken
    <2>3. Dropped' BY <1>6 DEF TakeAnswer, Dropped
    <2>4. ParkedIsReachable' BY <1>6 DEF TakeAnswer, ParkedIsReachable, Waits, Reachable
    <2> QED BY <2>1, <2>2, <2>3, <2>4
<1>7. CASE GiveUp(r)
    BY <1>7 DEF GiveUp, Parked, Taken, Dropped, ParkedIsReachable, Waits, Reachable
<1>8. CASE DropPending(r)
    <2>1. Parked' BY <1>8 DEF DropPending, Parked
    <2>2. Taken' BY <1>8 DEF DropPending, Taken
    <2>3. Dropped' BY <1>8 DEF DropPending, Dropped
    <2>4. ParkedIsReachable' BY <1>8 DEF DropPending, Dropped, ParkedIsReachable, Waits, Reachable
    <2> QED BY <2>1, <2>2, <2>3, <2>4
<1> QED BY <1>1, <1>2, <1>3, <1>4, <1>5, <1>6, <1>7, <1>8 DEF RequestGoroutine

LEMMA ResolveRequestParts ==
    TypeOK /\ RequestParts /\ ((\E i \in Ids : ResolveTakes(i)) \/ Resolving) => RequestParts'
<1> SUFFICES ASSUME TypeOK, RequestParts, (\E i \in Ids : ResolveTakes(i)) \/ Resolving
             PROVE  RequestParts'
    OBVIOUS
<1> USE NobodyAssumption DEF TypeOK, AskStates, parking, askHistory, RequestParts, Unparked
<1>1. ASSUME NEW i \in Ids, ResolveTakes(i) PROVE RequestParts'
    <2>1. /\ pending[i] \in Requests /\ resolving = Nobody
          /\ resolving' = pending[i] /\ pending' = [pending EXCEPT ![i] = Nobody]
        BY <1>1 DEF ResolveTakes, Taken
    <2>2. Parked' BY <1>1, <2>1 DEF ResolveTakes, Parked
    <2>3. Taken' BY <1>1, <2>1 DEF ResolveTakes, Taken, Parked
    <2>4. Dropped' BY <1>1 DEF ResolveTakes, Dropped
    <2>5. ParkedIsReachable' BY <1>1, <2>1 DEF ResolveTakes, ParkedIsReachable, Waits, Reachable
    <2> QED BY <2>2, <2>3, <2>4, <2>5
<1>2. CASE ResolveSettles
    <2>1. resolving \in Requests /\ answer[resolving] = "none"
        BY <1>2 DEF ResolveSettles, Taken
    <2>2. answer' = [answer EXCEPT ![resolving] = "resolved"]
        BY <1>2, <2>1 DEF ResolveSettles
    <2>3. Parked' BY <1>2, <2>1, <2>2 DEF ResolveSettles, Parked
    <2>4. Taken' BY <1>2, <2>1, <2>2 DEF ResolveSettles, Taken
    <2>5. Dropped' BY <1>2, <2>1, <2>2 DEF ResolveSettles, Dropped
    <2>6. ParkedIsReachable' BY <1>2, <2>1, <2>2 DEF ResolveSettles, ParkedIsReachable, Waits, Reachable
    <2> QED BY <2>3, <2>4, <2>5, <2>6
<1>3. CASE ResolveTells
    <2>1. resolving \in Requests /\ answer[resolving] = "resolved" /\ resolved[resolving] = 0
        BY <1>3 DEF ResolveTells, Taken
    <2>2. \A r \in Requests : resolved'[r] \in IF r = resolving THEN {0, 1} ELSE {resolved[r]}
        BY <1>3, <2>1 DEF ResolveTells
    <2>3. Parked' BY <1>3, <2>1, <2>2 DEF ResolveTells, Parked
    <2>4. Taken' BY <1>3, <2>1, <2>2 DEF ResolveTells, Taken
    <2>5. Dropped' BY <1>3 DEF ResolveTells, Dropped
    <2>6. ParkedIsReachable' BY <1>3, <2>1 DEF ResolveTells, ParkedIsReachable, Waits, Reachable
    <2> QED BY <2>3, <2>4, <2>5, <2>6
<1> QED BY <1>1, <1>2, <1>3 DEF Resolving

LEMMA EndingRequestParts == TypeOK /\ RequestParts /\ Ending => RequestParts'
<1> SUFFICES ASSUME TypeOK, RequestParts, Ending PROVE RequestParts'
    OBVIOUS
<1>1. CASE FailPending
    <2> USE NobodyAssumption DEF TypeOK, calling, askHistory, RequestParts, Unparked
    <2>1. Parked' BY <1>1 DEF FailPending, Parked
    <2>2. Taken' BY <1>1 DEF FailPending, Taken, Parked
    <2>3. Dropped' BY <1>1 DEF FailPending, Dropped
    <2>4. ParkedIsReachable' BY <1>1 DEF FailPending, ParkedIsReachable, Waits, Reachable
    <2> QED BY <2>1, <2>2, <2>3, <2>4
<1>2. CASE ~FailPending
    BY <1>2, OtherRequestParts DEF Ending, Own, Reap, LookForTurns, ExitEvent, EndPump, Return,
          parking, calling, askHistory
<1> QED BY <1>1, <1>2

\* Prompt, Resolve, Close and Kill are never under way together.
LEMMA InitOneCall == Init => OneCall
BY DEF Init, OneCall, Starts

LEMMA NextOneCall == TypeOK /\ OneCall /\ [Next]_vars => OneCall'
<1> SUFFICES ASSUME TypeOK, OneCall, [Next]_vars PROVE OneCall'
    OBVIOUS
<1> USE DEF OneCall, Starts
<1>1. CASE UNCHANGED <<turn, caller>>
    BY <1>1
<1>2. ASSUME NEW p \in Prompts, PromptCheck(p) \/ PromptCount(p) \/ PromptStart(p)
      PROVE  OneCall'
    BY <1>2 DEF PromptCheck, PromptCount, PromptStart, Turn, TypeOK, calling
<1>3. ASSUME NEW p \in Prompts,
             \/ Answered(p) \/ Failed(p) \/ CutShort(p)
             \/ PromptGoroutine(p) \/ TimerFires(p) \/ TimerGoroutine(p)
      PROVE  OneCall'
    BY <1>3 DEF Answered, Failed, CutShort, CallReturns, PromptGoroutine, Release, LeaveOpen,
          Settle, Uncount, Report, TimerFires, TimerGoroutine, TimerLeaves, TimerSettles,
          TimerUncounts, TimerReports, Turn, TypeOK, calling
<1>4. CASE AgentExits \/ StreamDone \/ AgentDies \/ SignOfWork \/ BeginAgentTurn \/ EndAgentTurn
           \/ \E r \in Requests : Arrive(r) \/ RequestGoroutine(r)
    BY <1>1, <1>4 DEF AgentExits, StreamDone, AgentDies, SignOfWork, BeginAgentTurn, EndAgentTurn,
          Arrive, RequestGoroutine, RequestIsWork, AllowUnasked, Park, Raise, TakeAnswer, GiveUp,
          DropPending, prompting, calling
<1>5. CASE Resolving \/ CallClose \/ CallKill \/ \E i \in Ids : ResolveTakes(i)
    BY <1>5 DEF Resolving, ResolveSettles, ResolveTells, CallClose, CallKill, ResolveTakes,
          prompting
<1>6. CASE Ending
    BY <1>6 DEF Ending, Own, FailPending, Reap, LookForTurns, ExitEvent, EndPump, Return,
          prompting, calling
<1>7. CASE UNCHANGED vars
    BY <1>7 DEF vars, prompting, calling
<1> QED BY <1>2, <1>3, <1>4, <1>5, <1>6, <1>7 DEF Next

LEMMA NextRequestParts == TypeOK /\ OneCall /\ RequestParts /\ [Next]_vars => RequestParts'
<1> SUFFICES ASSUME TypeOK, OneCall, RequestParts, [Next]_vars PROVE RequestParts'
    OBVIOUS
<1>1. ASSUME NEW p \in Prompts, PromptCheck(p) \/ PromptCount(p) \/ PromptStart(p)
      PROVE  RequestParts'
    <2>1. \A c \in {"resolving", "resolved"} : c # caller' /\ (c # caller \/ caller' = caller)
        BY <1>1 DEF PromptCheck, PromptCount, PromptStart, Turn, OneCall, Starts, calling
    <2> QED
        BY <1>1, <2>1, OtherRequestParts DEF PromptCheck, PromptCount, PromptStart, parking,
              calling, askHistory
<1>2. ASSUME NEW p \in Prompts,
             \/ Answered(p) \/ Failed(p) \/ CutShort(p)
             \/ PromptGoroutine(p) \/ TimerFires(p) \/ TimerGoroutine(p)
      PROVE  RequestParts'
    BY <1>2, OtherRequestParts DEF Answered, Failed, CutShort, CallReturns, PromptGoroutine,
          Release, LeaveOpen, Settle, Uncount, Report, TimerFires, TimerGoroutine, TimerLeaves,
          TimerSettles, TimerUncounts, TimerReports, parking, calling, askHistory
<1>3. CASE AgentExits \/ StreamDone \/ AgentDies \/ SignOfWork \/ BeginAgentTurn
           \/ EndAgentTurn \/ CallClose \/ CallKill \/ UNCHANGED vars
    BY <1>3, OtherRequestParts DEF AgentExits, StreamDone, AgentDies, SignOfWork,
          BeginAgentTurn, EndAgentTurn, CallClose, CallKill, vars, parking, calling, askHistory
<1> QED
    BY <1>1, <1>2, <1>3, RequestRequestParts, ResolveRequestParts, EndingRequestParts DEF Next

\* A request is resolved once, and while the agent lives what it was told is
\* what was resolved.
THEOREM RequestsResolvedOnce == Spec => []ResolvedOnce
<1>1. RequestParts => ResolvedOnce
    BY DEF RequestParts, Taken, Dropped, ResolvedOnce
<1> QED BY <1>1, InitRequestParts, NextRequestParts, InitOneCall, NextOneCall, TypeCorrect, PTL DEF Spec

\* The request last parked under an id can be answered by a person until it is,
\* or until the agent is gone, however many others share its id.
THEOREM AskedCanBeResolved == Spec => []AskedIsReachable
<1>1. RequestParts => AskedIsReachable
    BY DEF RequestParts, ParkedIsReachable, Waits, AskedIsReachable, Open
<1> QED BY <1>1, InitRequestParts, NextRequestParts, InitOneCall, NextOneCall, TypeCorrect, PTL DEF Spec

===============================================================================
