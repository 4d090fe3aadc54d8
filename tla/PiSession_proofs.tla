--------------------------- MODULE PiSession_proofs ---------------------------
(***************************************************************************)
(* Proofs about PiSession, for any number of prompts, dialogs and records  *)
(* on the wire: its events keep the contract of a session, step by step, a *)
(* dialog pi waits on is in reach, no turn is left open when pi runs       *)
(* nothing and has been heard out, and none is ended under a run of it.    *)
(***************************************************************************)
EXTENDS PiSession, SequenceTheorems, FiniteSetTheorems, TLAPS

-------------------------------------------------------------------------------
(* Sequences: what goes to the end, what comes off the front.              *)

Once(s, e) == \A i, j \in 1..Len(s) : s[i] = e /\ s[j] = e => i = j

LEMMA AppendHas ==
    ASSUME NEW S, NEW s \in Seq(S), NEW e \in S
    PROVE  /\ Append(s, e) \in Seq(S)
           /\ \A x : Contains(Append(s, e), x) <=> Contains(s, x) \/ x = e
           /\ \A x : Once(s, x) /\ (x = e => ~Contains(s, x)) => Once(Append(s, e), x)
<1>1. /\ Append(s, e) \in Seq(S) /\ Len(s) \in Nat /\ Len(Append(s, e)) = Len(s) + 1
      /\ \A i \in 1..Len(s) : Append(s, e)[i] = s[i]
      /\ Append(s, e)[Len(s) + 1] = e
    BY AppendProperties
<1>2. 1..Len(Append(s, e)) = 1..Len(s) \cup {Len(s) + 1}
    BY <1>1
<1> QED BY <1>1, <1>2 DEF Contains, Once

LEMMA TailHas ==
    ASSUME NEW S, NEW s \in Seq(S), s # <<>>
    PROVE  /\ Tail(s) \in Seq(S) /\ Head(s) \in S /\ Contains(s, Head(s))
           /\ \A x : Contains(s, x) <=> Contains(Tail(s), x) \/ x = Head(s)
           /\ \A x : Once(s, x) => Once(Tail(s), x)
           /\ Once(s, Head(s)) => ~Contains(Tail(s), Head(s))
<1>1. /\ Len(s) \in Nat \ {0} /\ Head(s) = s[1] /\ Head(s) \in S
      /\ Tail(s) \in Seq(S) /\ Len(Tail(s)) = Len(s) - 1
      /\ \A i \in 1..Len(Tail(s)) : Tail(s)[i] = s[i + 1]
    BY EmptySeq, HeadTailProperties
<1>2. /\ 1 \in 1..Len(s)
      /\ \A i \in 1..Len(Tail(s)) : i + 1 \in 1..Len(s) /\ i + 1 # 1
      /\ \A i \in 1..Len(s) : i # 1 => i - 1 \in 1..Len(Tail(s)) /\ Tail(s)[i - 1] = s[i]
    BY <1>1
<1>3. \A x : Once(s, x) => Once(Tail(s), x)
    <2> SUFFICES ASSUME NEW x, Once(s, x), NEW i \in 1..Len(Tail(s)), NEW j \in 1..Len(Tail(s)),
                        Tail(s)[i] = x, Tail(s)[j] = x
                 PROVE  i = j
        BY DEF Once
    <2>1. i + 1 = j + 1
        BY <1>1, <1>2 DEF Once
    <2> QED BY <1>1, <2>1
<1>4. Once(s, Head(s)) => ~Contains(Tail(s), Head(s))
    BY <1>1, <1>2 DEF Once, Contains
<1>5. \A x : Contains(s, x) <=> Contains(Tail(s), x) \/ x = Head(s)
    BY <1>1, <1>2 DEF Contains
<1> QED BY <1>1, <1>3, <1>4, <1>5

LEMMA ConcatHas ==
    ASSUME NEW S, NEW s \in Seq(S), NEW t \in Seq(S)
    PROVE  /\ s \o t \in Seq(S)
           /\ \A x : Contains(s \o t, x) <=> Contains(s, x) \/ Contains(t, x)
           /\ \A x : Once(s, x) /\ ~Contains(t, x) => Once(s \o t, x)
           /\ \A x : ~Contains(s, x) /\ Once(t, x) => Once(s \o t, x)
<1>1. /\ s \o t \in Seq(S) /\ Len(s) \in Nat /\ Len(t) \in Nat /\ Len(s \o t) = Len(s) + Len(t)
      /\ \A i \in 1..Len(s) + Len(t) : (s \o t)[i] = IF i <= Len(s) THEN s[i] ELSE t[i - Len(s)]
    BY ConcatProperties
<1>2. /\ \A i \in 1..Len(s) : i \in 1..Len(s \o t) /\ (s \o t)[i] = s[i]
      /\ \A i \in 1..Len(t) : Len(s) + i \in 1..Len(s \o t) /\ (s \o t)[Len(s) + i] = t[i]
    BY <1>1
<1>3. \A i \in 1..Len(s \o t) :
         \/ i \in 1..Len(s) /\ (s \o t)[i] = s[i]
         \/ i - Len(s) \in 1..Len(t) /\ (s \o t)[i] = t[i - Len(s)]
    BY <1>1
<1>4. \A x : Contains(s \o t, x) <=> Contains(s, x) \/ Contains(t, x)
    BY <1>2, <1>3 DEF Contains
<1>5. \A x : Once(s, x) /\ ~Contains(t, x) => Once(s \o t, x)
    BY <1>3 DEF Contains, Once
<1>6. \A x : ~Contains(s, x) /\ Once(t, x) => Once(s \o t, x)
    <2> SUFFICES ASSUME NEW x, ~Contains(s, x), Once(t, x), NEW i \in 1..Len(s \o t), NEW j \in 1..Len(s \o t),
                        (s \o t)[i] = x, (s \o t)[j] = x
                 PROVE  i = j
        BY DEF Once
    <2>1. i - Len(s) = j - Len(s)
        BY <1>3 DEF Contains, Once
    <2> QED BY <1>1, <2>1
<1> QED BY <1>1, <1>4, <1>5, <1>6

LEMMA OneHas ==
    ASSUME NEW S, NEW e \in S
    PROVE  /\ <<e>> \in Seq(S)
           /\ \A x : Contains(<<e>>, x) <=> x = e
           /\ \A x : Once(<<e>>, x)
BY DEF Contains, Once

LEMMA NoneHas == ~(\E x : Contains(<<>>, x)) /\ \A x : Once(<<>>, x)
BY DEF Contains, Once

\* The answers of withdrawn dialogs: one for each.
LEMMA AnswersOfEach ==
    ASSUME NEW ds \in SUBSET Dialogs, NEW order \in SetToSeqs(ds)
    PROVE  LET answers == [i \in 1..Len(order) |-> Answer(order[i])]
           IN  /\ answers \in Seq(Commands)
               /\ \A x : Contains(answers, x) => \E d \in ds : x = Answer(d)
               /\ \A d \in ds : Contains(answers, Answer(d))
<1> DEFINE n == Cardinality(ds)
           answers == [i \in 1..Len(order) |-> Answer(order[i])]
<1>1. IsFiniteSet(ds) /\ n \in Nat
    BY DialogsAssumption, FS_Subset, FS_CardinalityType
<1>2. order \in [1..n -> ds] /\ \A i, j \in 1..n : i # j => order[i] # order[j]
    BY DEF SetToSeqs
<1>3. order \in Seq(ds) /\ Len(order) = n
    BY <1>1, <1>2, SeqDef
<1>4. order \in Injection(1..n, ds)
    BY <1>2 DEF Injection, IsInjective
<1>5. IsFiniteSet(1..n) /\ Cardinality(1..n) = n
    BY <1>1, FS_Interval
<1>6. order \in Surjection(1..n, ds)
    BY <1>1, <1>4, <1>5, FS_Injection
<1>7. \A d \in ds : \E i \in 1..n : order[i] = d
    BY <1>6 DEF Surjection
<1>8. \A i \in 1..n : order[i] \in ds /\ Answer(order[i]) \in Commands
    BY <1>2 DEF Commands
<1>9. answers \in [1..n -> Commands] /\ Len(answers) = n /\ answers \in Seq(Commands)
    BY <1>1, <1>3, <1>8, SeqDef
<1> HIDE DEF n
<1>10. \A i \in 1..n : answers[i] = Answer(order[i])
    BY <1>3
<1> QED BY <1>7, <1>8, <1>9, <1>10 DEF Contains
-------------------------------------------------------------------------------
(* What goes over the streams.                                             *)

LEMMA RecordFields ==
    /\ AgentStart.type = "agent_start" /\ Output.type = "message_update" /\ Settled.type = "agent_settled"
    /\ \A d : Dialog(d).type = "extension_ui_request" /\ Dialog(d).id = d
    /\ \A p, a : Response(p, a).type = "response" /\ Response(p, a).id = p /\ Response(p, a).answer = a
    /\ \A p : Command(p).type = "command" /\ Command(p).id = p
    /\ \A p : GetState(p).type = "get_state" /\ GetState(p).id = p
    /\ \A d : Answer(d).type = "extension_ui_response" /\ Answer(d).id = d
BY DEF AgentStart, Output, Settled, Dialog, Response, Command, GetState, Answer

LEMMA RecordTypes ==
    /\ AgentStart \in Records /\ Output \in Records /\ Settled \in Records
    /\ \A d \in Dialogs : Dialog(d) \in Records /\ Answer(d) \in Commands
    /\ \A p \in Prompts, a \in Answers : Response(p, a) \in Records
    /\ \A p \in Prompts : Command(p) \in Commands /\ GetState(p) \in Commands
BY DEF Records, Commands

LEMMA RecordsDiffer ==
    /\ AgentStart # Output /\ AgentStart # Settled /\ Output # Settled
    /\ \A d : Dialog(d) \notin {AgentStart, Output, Settled}
    /\ \A p, a : Response(p, a) \notin {AgentStart, Output, Settled}
    /\ \A d, p, a : Dialog(d) # Response(p, a)
    /\ \A d, e : Dialog(d) = Dialog(e) => d = e
    /\ \A p, q, a, b : Response(p, a) = Response(q, b) => p = q /\ a = b
BY RecordFields

LEMMA CommandsDiffer ==
    /\ \A p, q : Command(p) # GetState(q)
    /\ \A p, d : Command(p) # Answer(d) /\ GetState(p) # Answer(d)
    /\ \A p, q : Command(p) = Command(q) => p = q
    /\ \A p, q : GetState(p) = GetState(q) => p = q
    /\ \A d, e : Answer(d) = Answer(e) => d = e
BY RecordFields

LEMMA WritesOne ==
    ASSUME wire \in Seq(Records), NEW r \in Records, Writes(r)
    PROVE  /\ stream = "up" /\ wire' \in Seq(Records)
           /\ \A x : Contains(wire', x) <=> Contains(wire, x) \/ x = r
           /\ \A x : Once(wire, x) /\ (x = r => ~Contains(wire, x)) => Once(wire', x)
BY AppendHas DEF Writes

LEMMA ReadsOne ==
    ASSUME wire \in Seq(Records), NEW r, Reads(r)
    PROVE  /\ wire # <<>> /\ wire' \in Seq(Records) /\ Contains(wire, r)
           /\ \A x : Contains(wire, x) <=> Contains(wire', x) \/ x = r
           /\ \A x : Once(wire, x) => Once(wire', x)
           /\ Once(wire, r) => ~Contains(wire', r)
BY TailHas DEF Reads

LEMMA TakesOne ==
    ASSUME stdin \in Seq(Commands), NEW c, Takes(c)
    PROVE  /\ stream = "up" /\ stdin' \in Seq(Commands) /\ Contains(stdin, c)
           /\ \A x : Contains(stdin, x) <=> Contains(stdin', x) \/ x = c
           /\ \A x : Once(stdin, x) => Once(stdin', x)
           /\ Once(stdin, c) => ~Contains(stdin', c)
BY TailHas DEF Takes

LEMMA SendsOne ==
    ASSUME stdin \in Seq(Commands), NEW c \in Commands, Send(<<c>>)
    PROVE  /\ stdin' \in Seq(Commands)
           /\ \A x : Contains(stdin', x) <=> Contains(stdin, x) \/ (CanSend /\ x = c)
           /\ \A x : Once(stdin, x) /\ (x = c => ~Contains(stdin, x)) => Once(stdin', x)
<1>1. <<c>> \in Seq(Commands) /\ (\A x : Contains(<<c>>, x) <=> x = c) /\ \A x : Once(<<c>>, x)
    BY OneHas
<1>2. CASE CanSend
    <2>1. stdin' = stdin \o <<c>>
        BY <1>2 DEF Send
    <2> QED BY <1>1, <1>2, <2>1, ConcatHas
<1>3. CASE ~CanSend
    BY <1>3 DEF Send
<1> QED BY <1>2, <1>3

\* Whatever is withdrawn is answered, as long as pi can be written to.
LEMMA WithdrawSends ==
    ASSUME stdin \in Seq(Commands), NEW ds \in SUBSET Dialogs, Withdraw(ds)
    PROVE  /\ stdin' \in Seq(Commands)
           /\ \A x : Contains(stdin', x) => Contains(stdin, x) \/ \E d \in ds : x = Answer(d)
           /\ \A x : Contains(stdin, x) => Contains(stdin', x)
           /\ CanSend => \A d \in ds : Contains(stdin', Answer(d))
           /\ \A p : Once(stdin, Command(p)) => Once(stdin', Command(p))
<1>1. PICK order \in SetToSeqs(ds) : Send([i \in 1..Len(order) |-> Answer(order[i])])
    BY DEF Withdraw
<1> DEFINE answers == [i \in 1..Len(order) |-> Answer(order[i])]
<1>2. /\ answers \in Seq(Commands)
      /\ \A x : Contains(answers, x) => \E d \in ds : x = Answer(d)
      /\ \A d \in ds : Contains(answers, Answer(d))
    BY AnswersOfEach
<1>3. stdin' = IF CanSend THEN stdin \o answers ELSE stdin
    BY <1>1 DEF Send
<1>4. \A p : ~Contains(answers, Command(p))
    BY <1>2, CommandsDiffer
<1> HIDE DEF answers
<1>5. CASE CanSend
    <2>1. stdin' = stdin \o answers
        BY <1>3, <1>5
    <2> QED BY <1>2, <1>4, <2>1, ConcatHas
<1>6. CASE ~CanSend
    BY <1>3, <1>6
<1> QED BY <1>5, <1>6

-------------------------------------------------------------------------------
(* Types, one group of variables at a time.                                *)

PiTypes ==
    /\ stream \in {"up", "ending", "done", "exited"}
    /\ wire \in Seq(Records) /\ stdin \in Seq(Commands)
    /\ preparing \subseteq Prompts /\ run \in {"none", "starting", "going"}
    /\ runner \in Prompts \cup {Nobody} /\ deferred \in Prompts \cup {Nobody}
    /\ compaction \in Prompts \cup {Nobody} /\ waits \subseteq Dialogs

TurnTypes ==
    /\ turnActive \in BOOLEAN /\ turnIndex \in Nat
    /\ runSeen \in BOOLEAN /\ compacting \in BOOLEAN
    /\ starts \in Nat /\ ends \in Nat

DialogTypes ==
    /\ dialogs \in [Dialogs -> Nat \cup {NotParked}]
    /\ timed \subseteq Dialogs /\ firing \subseteq timed
    /\ resolving \subseteq Dialogs /\ telling \subseteq Dialogs
    /\ asked \in [Dialogs -> Nat] /\ settled \in [Dialogs -> Nat]

CallTypes ==
    /\ call \in [Prompts -> {"new", "checked", "opened", "sent", "checking", "asking", "gone", "gave_up"}
                              \cup Answers]
    /\ kind \in [Prompts -> {"prompt", "steering_prompt", "steer", "compact"}]
    /\ turn \in [Prompts -> Nat]

EndTypes ==
    /\ caller \in {"idle", "closing", "killing"}
    /\ watch \in {"waiting", "ending", "finished"}
    /\ pumpEnded \in BOOLEAN

LEMMA TypesAre == TypeOK <=> PiTypes /\ TurnTypes /\ DialogTypes /\ CallTypes /\ EndTypes
BY DEF TypeOK, PiTypes, TurnTypes, DialogTypes, CallTypes, EndTypes

LEMMA InitTypeOK == Init => TypeOK
<1> SUFFICES ASSUME Init PROVE TypeOK
    OBVIOUS
<1>1. wire \in Seq(Records) /\ stdin \in Seq(Commands)
    BY EmptySeq DEF Init
<1>2. PiTypes
    BY <1>1 DEF Init, PiTypes
<1>3. TurnTypes /\ EndTypes
    BY DEF Init, TurnTypes, EndTypes
<1>4. DialogTypes
    BY DEF Init, DialogTypes
<1>5. CallTypes
    BY DEF Init, CallTypes
<1> QED BY <1>2, <1>3, <1>4, <1>5, TypesAre

LEMMA PiKeepsPiTypes == PiTypes /\ Pi => PiTypes'
<1> SUFFICES ASSUME PiTypes, Pi PROVE PiTypes'
    OBVIOUS
<1>0. /\ \A r \in Records : Writes(r) => wire' \in Seq(Records) /\ stream = "up"
      /\ \A c : Takes(c) => stdin' \in Seq(Commands)
    BY WritesOne, TakesOne DEF PiTypes
<1>1. ASSUME NEW p \in Prompts, TakesPrompt(p) PROVE PiTypes'
    <2>1. wire' \in Seq(Records)
        BY <1>0, <1>1, RecordTypes DEF TakesPrompt, PiTypes, Answers
    <2>2. stdin' \in Seq(Commands)
        BY <1>0, <1>1 DEF TakesPrompt
    <2>3. deferred' \in Prompts \cup {Nobody} /\ preparing' \subseteq Prompts
        BY <1>1 DEF TakesPrompt, PiTypes
    <2> QED BY <1>1, <2>1, <2>2, <2>3 DEF TakesPrompt, PiTypes
<1>2. ASSUME NEW p \in Prompts, TakesSteer(p) PROVE PiTypes'
    <2>1. wire' \in Seq(Records)
        BY <1>0, <1>2, RecordTypes DEF TakesSteer, Answers
    <2>2. stdin' \in Seq(Commands)
        BY <1>0, <1>2 DEF TakesSteer
    <2> QED BY <1>2, <2>1, <2>2 DEF TakesSteer, PiTypes
<1>3. ASSUME NEW p \in Prompts, TakesCompact(p) PROVE PiTypes'
    <2>1. wire' \in Seq(Records)
        BY <1>0, <1>3, RecordTypes DEF TakesCompact, Answers, PiTypes
    <2>2. stdin' \in Seq(Commands)
        BY <1>0, <1>3 DEF TakesCompact
    <2> QED BY <1>3, <2>1, <2>2 DEF TakesCompact, PiTypes
<1>4. ASSUME NEW p \in Prompts, Prepared(p) PROVE PiTypes'
    <2>1. wire' \in Seq(Records)
        BY <1>0, <1>4, RecordTypes DEF Prepared, Answers
    <2> QED BY <1>4, <2>1 DEF Prepared, PiTypes
<1>5. ASSUME NEW p \in Prompts, TakesGetState(p) PROVE PiTypes'
    <2>1. wire' \in Seq(Records)
        BY <1>0, <1>5, RecordTypes DEF TakesGetState, Answers, States
    <2>2. stdin' \in Seq(Commands)
        BY <1>0, <1>5 DEF TakesGetState
    <2> QED BY <1>5, <2>1, <2>2 DEF TakesGetState, PiTypes
<1>6. CASE RunStarts \/ Speaks
    <2>1. wire' \in Seq(Records)
        BY <1>0, <1>6, RecordTypes DEF RunStarts, Speaks
    <2> QED BY <1>6, <2>1 DEF RunStarts, Speaks, PiTypes
<1>7. CASE Settles
    <2>1. wire' \in Seq(Records)
        BY <1>0, <1>7, RecordTypes DEF Settles
    <2> QED BY <1>7, <2>1 DEF Settles, PiTypes
<1>8. CASE CompactionSettles
    <2>1. wire' \in Seq(Records)
        BY <1>0, <1>8, RecordTypes DEF CompactionSettles
    <2> QED BY <1>8, <2>1 DEF CompactionSettles, PiTypes
<1>9. CASE Compacted
    <2>1. compaction \in Prompts
        BY <1>9 DEF Compacted, PiTypes
    <2>2. wire' \in Seq(Records)
        BY <1>0, <1>9, <2>1, RecordTypes DEF Compacted, Answers
    <2> QED BY <1>9, <2>2 DEF Compacted, PiTypes
<1>10. CASE PiExits
    BY <1>10 DEF PiExits, PiTypes
<1>11. ASSUME NEW d \in Dialogs, Asks(d) PROVE PiTypes'
    <2>1. wire' \in Seq(Records)
        BY <1>0, <1>11, RecordTypes DEF Asks
    <2> QED BY <1>11, <2>1 DEF Asks, PiTypes
<1>12. ASSUME NEW d \in Dialogs, TakesAnswer(d) PROVE PiTypes'
    <2>1. stdin' \in Seq(Commands)
        BY <1>0, <1>12 DEF TakesAnswer
    <2> QED BY <1>12, <2>1 DEF TakesAnswer, PiTypes
<1>13. ASSUME NEW d \in Dialogs, Defaults(d) PROVE PiTypes'
    BY <1>13 DEF Defaults, PiTypes
<1> QED
    BY <1>1, <1>2, <1>3, <1>4, <1>5, <1>6, <1>7, <1>8, <1>9, <1>10, <1>11, <1>12, <1>13 DEF Pi

LEMMA ParkedAreDialogs == Parked \subseteq Dialogs
BY DEF Parked

\* The end of a run withdraws the dialogs of its turn, and ends that.
LEMMA SettledWithdraws ==
    ASSUME ReadSettled
    PROVE  \/ UNCHANGED <<stdin, turnVars, dialogVars>>
           \/ turnActive /\ ~compacting /\ endTurnLocked /\ \E ds \in SUBSET Parked : Withdraw(ds)
<1>1. CASE turnActive /\ ~compacting
    <2>1. Withdraw({d \in Parked : dialogs[d] = turnIndex}) /\ endTurnLocked
        BY <1>1 DEF ReadSettled
    <2>2. PICK its \in SUBSET Parked : its = {d \in Parked : dialogs[d] = turnIndex}
        OBVIOUS
    <2>3. Withdraw(its)
        BY <2>1, <2>2 DEF Withdraw, Drop, CountEach, Send
    <2> QED BY <1>1, <2>1, <2>3
<1>2. CASE ~(turnActive /\ ~compacting)
    BY <1>2 DEF ReadSettled
<1> QED BY <1>1, <1>2

LEMMA InterruptWithdraws ==
    ASSUME Interrupt PROVE \E ds \in SUBSET Parked : Withdraw(ds)
<1>1. PICK ds \in SUBSET Parked : ds = Parked
    OBVIOUS
<1>2. Withdraw(Parked)
    BY DEF Interrupt
<1>3. Withdraw(ds)
    BY <1>1, <1>2 DEF Withdraw, Drop, CountEach, Send
<1> QED BY <1>3

\* What withdraws, answers or asks writes to pi, and nothing else of its own.
LEMMA SessionKeepsPiTypes ==
    ASSUME PiTypes, Next, ~Pi
    PROVE  PiTypes'
<1> USE DEF PiTypes
<1>1. ASSUME NEW r, Reads(r) PROVE PiTypes' \/ stdin' \notin Seq(Commands)
    <2>1. wire' \in Seq(Records)
        BY <1>1, ReadsOne
    <2> QED BY <1>1, <2>1 DEF Reads
<1>2. CASE ReadLoop
    <2>1. CASE ReadSettled
        <3>1. stdin' \in Seq(Commands)
            BY <2>1, SettledWithdraws, ParkedAreDialogs, WithdrawSends
        <3> QED BY <1>1, <2>1, <3>1 DEF ReadSettled
    <2>2. CASE StreamDone
        BY <2>2 DEF StreamDone
    <2>3. CASE ReadStart \/ ReadOutput \/ (\E d \in Dialogs : ReadDialog(d)) \/ \E p \in Prompts : ReadResponse(p)
        <3>1. UNCHANGED stdin /\ \E r : Reads(r)
            BY <2>3 DEF ReadStart, ReadOutput, ReadDialog, ReadResponse
        <3> QED BY <1>1, <3>1
    <2> QED BY <1>2, <2>1, <2>2, <2>3 DEF ReadLoop
<1>3. CASE \E p \in Prompts : PromptCheck(p) \/ PromptOpen(p) \/ CompactOpen(p) \/ Goroutine(p)
    <2> PICK p \in Prompts : PromptCheck(p) \/ PromptOpen(p) \/ CompactOpen(p) \/ Goroutine(p)
        BY <1>3
    <2>1. CASE PromptSend(p)
        <3>1. stdin' \in Seq(Commands)
            BY <2>1, SendsOne, RecordTypes DEF PromptSend
        <3> QED BY <2>1, <3>1 DEF PromptSend, piButStdin
    <2>2. CASE AskState(p)
        <3>1. stdin' \in Seq(Commands)
            BY <2>2, SendsOne, RecordTypes DEF AskState
        <3> QED BY <2>2, <3>1 DEF AskState, piButStdin
    <2>3. CASE ~PromptSend(p) /\ ~AskState(p)
        <3>1. UNCHANGED piVars
            BY <2>3 DEF PromptCheck, PromptOpen, CompactOpen, Goroutine, Refused, Accepted, StateKnown, GiveUp,
                        CompactAnswered, AnswerLost
        <3> QED BY <3>1 DEF piVars
    <2> QED BY <2>1, <2>2, <2>3
<1>4. CASE \E d \in Dialogs : Resolve(d) \/ AnswerDialog(d) \/ TellResolved(d) \/ TimerFires(d) \/ TimerRuns(d)
    <2> PICK d \in Dialogs : Resolve(d) \/ AnswerDialog(d) \/ TellResolved(d) \/ TimerFires(d) \/ TimerRuns(d)
        BY <1>4
    <2>1. CASE AnswerDialog(d)
        <3>1. stdin' \in Seq(Commands)
            BY <2>1, SendsOne, RecordTypes DEF AnswerDialog
        <3> QED BY <2>1, <3>1 DEF AnswerDialog, piButStdin
    <2>2. CASE ~AnswerDialog(d)
        <3>1. UNCHANGED piVars
            BY <2>2 DEF Resolve, TellResolved, TimerFires, TimerRuns
        <3> QED BY <3>1 DEF piVars
    <2> QED BY <2>1, <2>2
<1>5. CASE Interrupt
    <2>1. stdin' \in Seq(Commands)
        BY <1>5, InterruptWithdraws, ParkedAreDialogs, WithdrawSends
    <2> QED BY <1>5, <2>1 DEF Interrupt, piButStdin
<1>6. CASE CallClose \/ CallKill \/ Ending
    BY <1>6 DEF CallClose, CallKill, Ending, CallReturns, Reaped, WatchReports, WatchEnds, piVars
<1> QED BY <1>2, <1>3, <1>4, <1>5, <1>6 DEF Next

LEMMA OpensTypes ==
    ASSUME TurnTypes, Opens
    PROVE  turnActive' \in BOOLEAN /\ turnIndex' \in Nat /\ starts' \in Nat /\ ends' \in Nat
<1>1. turnIndex' \in Nat
    BY DEF Opens, TurnTypes
<1>2. starts' \in Nat
    BY DEF Opens, Count, TurnTypes
<1> QED BY <1>1, <1>2 DEF Opens, TurnTypes

LEMMA EndsTypes ==
    ASSUME TurnTypes, endTurnLocked
    PROVE  turnActive' \in BOOLEAN /\ turnIndex' \in Nat /\ runSeen' \in BOOLEAN /\ starts' \in Nat /\ ends' \in Nat
<1>1. ends' \in Nat
    BY DEF endTurnLocked, Count, TurnTypes
<1> QED BY <1>1 DEF endTurnLocked, TurnTypes

\* What a step does to the turn: nothing, opens one, ends the one there is, or
\* takes note of the end of a compaction.
OpensATurn ==
    /\ ReadStart \/ ReadOutput \/ \E p \in Prompts : PromptOpen(p) \/ CompactOpen(p)
    /\ Opens /\ (runSeen' = TRUE \/ runSeen' = (turnActive /\ runSeen))
    /\ UNCHANGED compacting \/ compacting' = TRUE

EndsTheTurn == turnActive /\ endTurnLocked /\ (UNCHANGED compacting \/ compacting' = FALSE)

NotesCompaction ==
    /\ UNCHANGED turnVars
    /\ compacting' = FALSE \/ \E p \in Prompts : compacting' = (compacting /\ kind[p] # "compact")

LEMMA TurnSteps == [Next]_vars => UNCHANGED <<turnVars, compacting>> \/ OpensATurn \/ EndsTheTurn \/ NotesCompaction
<1> SUFFICES ASSUME [Next]_vars
             PROVE  UNCHANGED <<turnVars, compacting>> \/ OpensATurn \/ EndsTheTurn \/ NotesCompaction
    OBVIOUS
<1>1. CASE \/ Pi \/ StreamDone \/ (\E d \in Dialogs : ReadDialog(d)) \/ (\E p \in Prompts : ReadResponse(p))
           \/ \E p \in Prompts : PromptCheck(p) \/ Accepted(p) \/ AskState(p) \/ GiveUp(p)
           \/ \E d \in Dialogs : Resolve(d) \/ AnswerDialog(d) \/ TellResolved(d) \/ TimerFires(d) \/ TimerRuns(d)
           \/ Interrupt \/ CallClose \/ CallKill \/ CallReturns \/ Reaped \/ WatchEnds \/ UNCHANGED vars
    BY <1>1 DEF Pi, TakesPrompt, TakesSteer, TakesCompact, Prepared, TakesGetState, RunStarts, Speaks, Settles,
          CompactionSettles, Compacted, PiExits, Asks, TakesAnswer, Defaults, StreamDone, ReadDialog, ReadResponse,
          PromptCheck, Accepted, AskState, GiveUp, Resolve, AnswerDialog, TellResolved, TimerFires, TimerRuns,
          Interrupt, CallClose, CallKill, CallReturns, Reaped, WatchEnds, piLeaves, vars
<1>2. CASE ReadStart \/ ReadOutput
    BY <1>2 DEF ReadStart, ReadOutput, openTurnLocked, OpensATurn
<1>3. CASE ReadSettled
    BY <1>3, SettledWithdraws DEF ReadSettled, EndsTheTurn
<1>4. CASE WatchReports
    BY <1>4 DEF WatchReports, EndsTheTurn
<1>5. ASSUME NEW p \in Prompts, PromptOpen(p) \/ CompactOpen(p)
      PROVE  UNCHANGED <<turnVars, compacting>> \/ OpensATurn
    <2>1. CASE PromptOpen(p)
        BY <2>1 DEF PromptOpen, openTurnLocked, OpensATurn
    <2>2. CASE CompactOpen(p)
        BY <2>2 DEF CompactOpen, openTurnLocked, OpensATurn
    <2> QED BY <1>5, <2>1, <2>2
<1>6. ASSUME NEW p \in Prompts, Refused(p) \/ StateKnown(p)
      PROVE  UNCHANGED <<turnVars, compacting>> \/ EndsTheTurn
    BY <1>6 DEF Refused, StateKnown, StillIts, EndsTheTurn
<1>7. ASSUME NEW p \in Prompts, PromptSend(p) \/ CompactAnswered(p)
      PROVE  UNCHANGED <<turnVars, compacting>> \/ EndsTheTurn \/ NotesCompaction
    BY <1>7 DEF PromptSend, CompactAnswered, EndsTheTurn, NotesCompaction
<1>8. ASSUME NEW p \in Prompts, AnswerLost(p) PROVE NotesCompaction
    BY <1>8 DEF AnswerLost, NotesCompaction
<1> QED
    BY <1>1, <1>2, <1>3, <1>4, <1>5, <1>6, <1>7, <1>8 DEF Next, ReadLoop, Goroutine, Ending

LEMMA NextTurnTypes == TurnTypes /\ [Next]_vars => TurnTypes'
<1> SUFFICES ASSUME TurnTypes, [Next]_vars PROVE TurnTypes'
    OBVIOUS
<1>1. CASE UNCHANGED <<turnVars, compacting>>
    BY <1>1 DEF turnVars, TurnTypes
<1>2. CASE OpensATurn
    <2>1. runSeen' \in BOOLEAN /\ compacting' \in BOOLEAN
        BY <1>2, Zenon DEF OpensATurn, TurnTypes
    <2> QED BY <1>2, <2>1, OpensTypes DEF OpensATurn, TurnTypes
<1>3. CASE EndsTheTurn
    <2>1. compacting' \in BOOLEAN
        BY <1>3, Zenon DEF EndsTheTurn, TurnTypes
    <2> QED BY <1>3, <2>1, EndsTypes DEF EndsTheTurn, TurnTypes
<1>4. CASE NotesCompaction
    <2>1. compacting' \in BOOLEAN
        BY <1>4, Zenon DEF NotesCompaction, TurnTypes
    <2> QED BY <1>4, <2>1 DEF NotesCompaction, turnVars, TurnTypes
<1> QED BY <1>1, <1>2, <1>3, <1>4, TurnSteps

LEMMA EachInNat ==
    ASSUME NEW event \in [Dialogs -> Nat], NEW ds
    PROVE  [d \in Dialogs |-> IF d \in ds /\ ~pumpEnded THEN event[d] + 1 ELSE event[d]] \in [Dialogs -> Nat]
OBVIOUS

LEMMA EachDropped ==
    ASSUME DialogTypes, NEW ds
    PROVE  [d \in Dialogs |-> IF d \in ds THEN NotParked ELSE dialogs[d]] \in [Dialogs -> Nat \cup {NotParked}]
BY DEF DialogTypes

\* The steps that touch the dialogs; all others leave them alone.
LEMMA DialogSteps ==
    ASSUME [Next]_vars
    PROVE  \/ UNCHANGED dialogVars
           \/ \E ds \in SUBSET Parked : Withdraw(ds)
           \/ WatchReports
           \/ \E d \in Dialogs : ReadDialog(d) \/ Resolve(d) \/ AnswerDialog(d) \/ TellResolved(d)
                                 \/ TimerFires(d) \/ TimerRuns(d)
<1>1. CASE \/ Pi \/ StreamDone \/ ReadStart \/ ReadOutput
           \/ \E p \in Prompts : ReadResponse(p) \/ PromptCheck(p) \/ PromptOpen(p) \/ CompactOpen(p) \/ Goroutine(p)
           \/ CallClose \/ CallKill \/ CallReturns \/ Reaped \/ WatchEnds \/ UNCHANGED vars
    BY <1>1 DEF Pi, TakesPrompt, TakesSteer, TakesCompact, Prepared, TakesGetState, RunStarts, Speaks, Settles,
          CompactionSettles, Compacted, PiExits, Asks, TakesAnswer, Defaults, StreamDone, ReadStart, ReadOutput,
          ReadResponse, PromptCheck, PromptOpen, CompactOpen, Goroutine, PromptSend, Refused, Accepted, AskState,
          StateKnown, GiveUp, CompactAnswered, AnswerLost, CallClose, CallKill, CallReturns, Reaped, WatchEnds,
          piLeaves, vars
<1>2. CASE ReadSettled
    BY <1>2, SettledWithdraws
<1>3. CASE Interrupt
    BY <1>3, InterruptWithdraws
<1> QED BY <1>1, <1>2, <1>3 DEF Next, ReadLoop, Ending

LEMMA NextDialogTypes == DialogTypes /\ TurnTypes /\ [Next]_vars => DialogTypes'
<1> SUFFICES ASSUME DialogTypes, TurnTypes, [Next]_vars PROVE DialogTypes'
    OBVIOUS
<1> USE DEF DialogTypes
<1>1. CASE UNCHANGED dialogVars
    BY <1>1 DEF dialogVars
<1>2. ASSUME NEW ds \in SUBSET Parked, Withdraw(ds) PROVE DialogTypes'
    <2>1. dialogs' \in [Dialogs -> Nat \cup {NotParked}]
        BY <1>2, EachDropped DEF Withdraw, Drop
    <2>2. settled' \in [Dialogs -> Nat]
        BY <1>2, EachInNat DEF Withdraw, CountEach
    <2> QED BY <1>2, <2>1, <2>2 DEF Withdraw
<1>3. CASE WatchReports
    <2>1. dialogs' \in [Dialogs -> Nat \cup {NotParked}]
        BY <1>3, EachDropped DEF WatchReports, Drop
    <2>2. settled' \in [Dialogs -> Nat]
        BY <1>3, EachInNat DEF WatchReports, CountEach
    <2> QED BY <1>3, <2>1, <2>2 DEF WatchReports
<1>4. ASSUME NEW d \in Dialogs, ReadDialog(d) PROVE DialogTypes'
    <2>1. dialogs' \in [Dialogs -> Nat \cup {NotParked}]
        <3>1. PICK n \in Nat : n = IF turnActive THEN turnIndex ELSE 0
            BY DEF TurnTypes
        <3>2. dialogs' = [dialogs EXCEPT ![d] = n]
            BY <1>4, <3>1 DEF ReadDialog
        <3> QED BY <3>2
    <2>2. asked' \in [Dialogs -> Nat]
        BY <1>4, EachInNat DEF ReadDialog, CountEach
    <2>3. timed' \subseteq Dialogs /\ firing' \subseteq timed'
        BY <1>4 DEF ReadDialog
    <2> QED BY <1>4, <2>1, <2>2, <2>3 DEF ReadDialog
<1>5. ASSUME NEW d \in Dialogs, Resolve(d) PROVE DialogTypes'
    <2>1. dialogs' \in [Dialogs -> Nat \cup {NotParked}]
        BY <1>5, EachDropped DEF Resolve, Drop
    <2> QED BY <1>5, <2>1 DEF Resolve
<1>6. ASSUME NEW d \in Dialogs, AnswerDialog(d) PROVE DialogTypes'
    BY <1>6 DEF AnswerDialog
<1>7. ASSUME NEW d \in Dialogs, TellResolved(d) PROVE DialogTypes'
    <2>1. settled' \in [Dialogs -> Nat]
        BY <1>7, EachInNat DEF TellResolved, CountEach
    <2> QED BY <1>7, <2>1 DEF TellResolved
<1>8. ASSUME NEW d \in Dialogs, TimerFires(d) PROVE DialogTypes'
    BY <1>8 DEF TimerFires
<1>9. ASSUME NEW d \in Dialogs, TimerRuns(d) PROVE DialogTypes'
    <2>1. dialogs' \in [Dialogs -> Nat \cup {NotParked}]
        BY <1>9, EachDropped DEF TimerRuns, Drop
    <2>2. settled' \in [Dialogs -> Nat]
        BY <1>9, EachInNat DEF TimerRuns, CountEach
    <2> QED BY <1>9, <2>1, <2>2 DEF TimerRuns
<1> QED BY <1>1, <1>2, <1>3, <1>4, <1>5, <1>6, <1>7, <1>8, <1>9, DialogSteps

\* The steps that touch the calls of Prompt.
LEMMA CallSteps ==
    ASSUME [Next]_vars
    PROVE  \/ UNCHANGED callVars
           \/ \E p \in Prompts : ReadResponse(p) \/ PromptCheck(p) \/ PromptOpen(p) \/ CompactOpen(p) \/ Goroutine(p)
<1>1. CASE Interrupt
    BY <1>1 DEF Interrupt
<1>2. CASE Pi \/ UNCHANGED vars
    BY <1>2 DEF Pi, TakesPrompt, TakesSteer, TakesCompact, Prepared, TakesGetState, RunStarts, Speaks, Settles,
          CompactionSettles, Compacted, PiExits, Asks, TakesAnswer, Defaults, piLeaves, vars
<1>3. CASE \/ StreamDone \/ ReadStart \/ ReadOutput \/ ReadSettled
           \/ \E d \in Dialogs : ReadDialog(d) \/ Resolve(d) \/ AnswerDialog(d) \/ TellResolved(d)
                                 \/ TimerFires(d) \/ TimerRuns(d)
           \/ CallClose \/ CallKill \/ CallReturns \/ Reaped \/ WatchReports \/ WatchEnds
    BY <1>3 DEF StreamDone, ReadStart, ReadOutput, ReadSettled, ReadDialog, Resolve, AnswerDialog, TellResolved,
          TimerFires, TimerRuns, CallClose, CallKill, CallReturns, Reaped, WatchReports, WatchEnds, piLeaves
<1> QED BY <1>1, <1>2, <1>3 DEF Next, ReadLoop, Ending

Places == {"new", "checked", "opened", "sent", "checking", "asking", "gone", "gave_up"} \cup Answers

LEMMA GoesPlaces ==
    ASSUME CallTypes, NEW p \in Prompts, NEW from, NEW to \in Places, Goes(p, from, to)
    PROVE  /\ call' \in [Prompts -> Places] /\ call[p] \in from /\ call'[p] = to
           /\ \A q \in Prompts : q # p => call'[q] = call[q]
BY DEF Goes, CallTypes, Places

LEMMA NextCallTypes == CallTypes /\ TurnTypes /\ [Next]_vars => CallTypes'
<1> SUFFICES ASSUME CallTypes, TurnTypes, [Next]_vars PROVE CallTypes'
    OBVIOUS
<1>1. CASE UNCHANGED callVars
    BY <1>1 DEF callVars, CallTypes
<1>2. ASSUME NEW p \in Prompts, ReadResponse(p) PROVE CallTypes'
    <2>1. PICK answer \in Answers : call' = IF call[p] \in {"sent", "asking"} THEN [call EXCEPT ![p] = answer] ELSE call
        BY <1>2 DEF ReadResponse
    <2>2. UNCHANGED <<kind, turn>>
        BY <1>2 DEF ReadResponse
    <2> QED BY <2>1, <2>2 DEF CallTypes
<1>3. ASSUME NEW p \in Prompts, PromptCheck(p) PROVE CallTypes'
    <2>1. call' \in [Prompts -> Places]
        BY <1>3 DEF PromptCheck, Goes, CallTypes, Places
    <2>2. kind' \in [Prompts -> {"prompt", "steering_prompt", "steer", "compact"}] /\ UNCHANGED turn
        BY <1>3 DEF PromptCheck, CallTypes
    <2> QED BY <2>1, <2>2 DEF CallTypes, Places
<1>4. ASSUME NEW p \in Prompts, PromptOpen(p) PROVE CallTypes'
    <2>1. call' \in [Prompts -> Places]
        BY <1>4 DEF PromptOpen, Goes, CallTypes, Places
    <2>2. kind' \in [Prompts -> {"prompt", "steering_prompt", "steer", "compact"}]
        <3>1. PICK k \in {"prompt", "steering_prompt", "steer", "compact"} : kind' = [kind EXCEPT ![p] = k]
            BY <1>4 DEF PromptOpen
        <3> QED BY <3>1 DEF CallTypes
    <2>3. turnIndex' \in Nat
        BY <1>4, OpensTypes DEF PromptOpen, openTurnLocked
    <2>4. turn' \in [Prompts -> Nat]
        BY <1>4, <2>3 DEF PromptOpen, CallTypes
    <2> QED BY <2>1, <2>2, <2>4 DEF CallTypes, Places
<1>5. ASSUME NEW p \in Prompts, CompactOpen(p) PROVE CallTypes'
    <2>1. call' \in [Prompts -> Places] /\ UNCHANGED kind
        BY <1>5 DEF CompactOpen, Goes, CallTypes, Places
    <2>2. turn' \in [Prompts -> Nat]
        <3>1. CASE turnActive
            BY <1>5, <3>1 DEF CompactOpen, CallTypes
        <3>2. CASE ~turnActive
            <4>1. turnIndex' \in Nat /\ turn' = [turn EXCEPT ![p] = turnIndex']
                BY <1>5, <3>2, OpensTypes DEF CompactOpen, openTurnLocked
            <4> QED BY <4>1 DEF CallTypes
        <3> QED BY <3>1, <3>2
    <2> QED BY <2>1, <2>2 DEF CallTypes, Places
<1>6. ASSUME NEW p \in Prompts, Goroutine(p) PROVE CallTypes'
    <2>1. \E to \in Places : \E from : Goes(p, from, to)
        BY <1>6 DEF Goroutine, PromptSend, Refused, Accepted, AskState, StateKnown, GiveUp, CompactAnswered,
              AnswerLost, Places
    <2>2. call' \in [Prompts -> Places]
        BY <2>1, GoesPlaces
    <2>3. UNCHANGED <<kind, turn>>
        BY <1>6 DEF Goroutine, PromptSend, Refused, Accepted, AskState, StateKnown, GiveUp, CompactAnswered,
              AnswerLost, callVars
    <2> QED BY <2>2, <2>3 DEF CallTypes, Places
<1> QED BY <1>1, <1>2, <1>3, <1>4, <1>5, <1>6, CallSteps

LEMMA EndSteps ==
    ASSUME [Next]_vars
    PROVE  UNCHANGED endVars \/ CallClose \/ CallKill \/ CallReturns \/ WatchReports \/ WatchEnds
<1>1. CASE Interrupt
    BY <1>1 DEF Interrupt
<1>2. CASE Pi \/ UNCHANGED vars
    BY <1>2 DEF Pi, TakesPrompt, TakesSteer, TakesCompact, Prepared, TakesGetState, RunStarts, Speaks, Settles,
          CompactionSettles, Compacted, PiExits, Asks, TakesAnswer, Defaults, piLeaves, vars
<1>3. CASE \/ StreamDone \/ ReadStart \/ ReadOutput \/ ReadSettled \/ Reaped
           \/ \E d \in Dialogs : ReadDialog(d) \/ Resolve(d) \/ AnswerDialog(d) \/ TellResolved(d)
                                 \/ TimerFires(d) \/ TimerRuns(d)
           \/ \E p \in Prompts : ReadResponse(p) \/ PromptCheck(p) \/ PromptOpen(p) \/ CompactOpen(p) \/ Goroutine(p)
    BY <1>3 DEF StreamDone, ReadStart, ReadOutput, ReadSettled, ReadDialog, Resolve, AnswerDialog, TellResolved,
          TimerFires, TimerRuns, Reaped, ReadResponse, PromptCheck, PromptOpen, CompactOpen, Goroutine, PromptSend,
          Refused, Accepted, AskState, StateKnown, GiveUp, CompactAnswered, AnswerLost, piLeaves
<1> QED BY <1>1, <1>2, <1>3 DEF Next, ReadLoop, Ending

LEMMA NextEndTypes == EndTypes /\ [Next]_vars => EndTypes'
<1> SUFFICES ASSUME EndTypes, [Next]_vars PROVE EndTypes'
    OBVIOUS
<1>1. CASE CallReturns
    <2>1. pumpEnded' \in BOOLEAN
        BY <1>1, Zenon DEF CallReturns, EndTypes
    <2> QED BY <1>1, <2>1 DEF CallReturns, EndTypes
<1>2. CASE UNCHANGED endVars \/ CallClose \/ CallKill \/ WatchReports \/ WatchEnds
    BY <1>2 DEF endVars, CallClose, CallKill, WatchReports, WatchEnds, EndTypes
<1> QED BY <1>1, <1>2, EndSteps

LEMMA NextTypeOK == TypeOK /\ [Next]_vars => TypeOK'
<1> SUFFICES ASSUME TypeOK, [Next]_vars PROVE TypeOK'
    OBVIOUS
<1>1. PiTypes'
    <2>1. CASE UNCHANGED vars
        BY <2>1, TypesAre DEF PiTypes, vars, piVars
    <2> QED BY <2>1, TypesAre, PiKeepsPiTypes, SessionKeepsPiTypes
<1>2. TurnTypes' /\ DialogTypes' /\ CallTypes' /\ EndTypes'
    BY TypesAre, NextTurnTypes, NextDialogTypes, NextCallTypes, NextEndTypes
<1>3. (PiTypes /\ TurnTypes /\ DialogTypes /\ CallTypes /\ EndTypes)' => TypeOK'
    BY DEF TypeOK, PiTypes, TurnTypes, DialogTypes, CallTypes, EndTypes
<1> QED BY <1>1, <1>2, <1>3

\* Every variable keeps its type; a timer that has fired was one.
THEOREM TypeCorrect == Spec => []TypeOK
BY InitTypeOK, NextTypeOK, PTL DEF Spec

-------------------------------------------------------------------------------
(* The end of the stream and the count of turns.                           *)

\* A session that is over has read all there was, and only then is it told of.
EndInOrder ==
    /\ stream \in {"done", "exited"} => wire = <<>>
    /\ watch # "waiting" \/ pumpEnded => stream = "exited"

\* While the reader listens, the turns told of as started and not as ended are
\* the one that is open.
TurnsBalance == ~pumpEnded => starts = IF turnActive THEN ends + 1 ELSE ends

\* The steps of the stream and the wire.
LEMMA StreamSteps ==
    ASSUME [Next]_vars
    PROVE  \/ UNCHANGED <<stream, wire>>
           \/ UNCHANGED stream /\ stream = "up"
           \/ UNCHANGED stream /\ wire # <<>>
           \/ UNCHANGED wire /\ stream' = "ending" /\ stream = "up"
           \/ UNCHANGED wire /\ stream' = "done" /\ stream = "ending" /\ wire = <<>>
           \/ UNCHANGED wire /\ stream' = "exited" /\ stream = "done"
<1>1. CASE Pi
    <2>1. ASSUME NEW p \in Prompts, TakesPrompt(p) \/ TakesSteer(p) \/ TakesCompact(p) \/ Prepared(p) \/ TakesGetState(p)
          PROVE  UNCHANGED stream /\ stream = "up"
        BY <2>1 DEF TakesPrompt, TakesSteer, TakesCompact, Prepared, TakesGetState, Takes, Writes
    <2>2. CASE RunStarts \/ Speaks \/ Settles \/ CompactionSettles \/ Compacted
        BY <2>2 DEF RunStarts, Speaks, Settles, CompactionSettles, Compacted, Writes
    <2>3. CASE PiExits
        BY <2>3 DEF PiExits
    <2>4. ASSUME NEW d \in Dialogs, Asks(d) \/ TakesAnswer(d) PROVE UNCHANGED stream /\ stream = "up"
        BY <2>4 DEF Asks, TakesAnswer, Takes, Writes
    <2>5. ASSUME NEW d \in Dialogs, Defaults(d) PROVE UNCHANGED <<stream, wire>>
        BY <2>5 DEF Defaults
    <2> QED BY <1>1, <2>1, <2>2, <2>3, <2>4, <2>5 DEF Pi
<1>2. CASE ReadLoop
    <2>1. CASE StreamDone
        BY <2>1 DEF StreamDone
    <2>2. CASE ~StreamDone
        BY <1>2, <2>2 DEF ReadLoop, ReadStart, ReadOutput, ReadSettled, ReadDialog, ReadResponse, Reads
    <2> QED BY <2>1, <2>2
<1>3. CASE \E p \in Prompts : PromptCheck(p) \/ PromptOpen(p) \/ CompactOpen(p) \/ Goroutine(p)
    BY <1>3 DEF PromptCheck, PromptOpen, CompactOpen, Goroutine, PromptSend, Refused, Accepted, AskState, StateKnown,
          GiveUp, CompactAnswered, AnswerLost, piVars, piButStdin
<1>4. CASE \/ \E d \in Dialogs : Resolve(d) \/ AnswerDialog(d) \/ TellResolved(d) \/ TimerFires(d) \/ TimerRuns(d)
           \/ Interrupt \/ CallClose \/ CallReturns \/ WatchReports \/ WatchEnds \/ UNCHANGED vars
    BY <1>4 DEF Resolve, AnswerDialog, TellResolved, TimerFires, TimerRuns, Interrupt, CallClose, CallReturns,
          WatchReports, WatchEnds, vars, piVars, piButStdin
<1>5. CASE CallKill \/ Reaped
    BY <1>5 DEF CallKill, Reaped
<1> QED BY <1>1, <1>2, <1>3, <1>4, <1>5 DEF Next, Ending

LEMMA NextEndInOrder == TypeOK /\ EndInOrder /\ [Next]_vars => EndInOrder'
<1> SUFFICES ASSUME TypeOK, EndInOrder, [Next]_vars PROVE EndInOrder'
    OBVIOUS
<1>1. /\ stream' \in {"done", "exited"} => wire' = <<>>
      /\ stream = "exited" => stream' = "exited"
    BY StreamSteps DEF EndInOrder, TypeOK
<1>2. watch' # "waiting" \/ pumpEnded' => stream = "exited"
    <2>1. CASE UNCHANGED endVars \/ CallClose \/ CallKill
        BY <2>1 DEF EndInOrder, endVars, CallClose, CallKill
    <2>2. CASE CallReturns \/ WatchReports
        BY <2>2 DEF CallReturns, WatchReports
    <2>3. CASE WatchEnds
        BY <2>3 DEF WatchEnds, EndInOrder
    <2> QED BY <2>1, <2>2, <2>3, EndSteps
<1> QED BY <1>1, <1>2 DEF EndInOrder

LEMMA ReadsMeansLive ==
    ASSUME TypeOK, EndInOrder, NEW r, Reads(r)
    PROVE  stream \in {"up", "ending"} /\ watch = "waiting" /\ pumpEnded = FALSE /\ UNCHANGED stream
BY DEF Reads, EndInOrder, TypeOK

LEMMA PumpStaysEnded == TypeOK /\ [Next]_vars /\ pumpEnded => pumpEnded'
<1> SUFFICES ASSUME TypeOK, [Next]_vars, pumpEnded PROVE pumpEnded'
    OBVIOUS
<1>1. CASE CallReturns
    BY <1>1, Zenon DEF CallReturns
<1>2. CASE ~CallReturns
    BY <1>2, EndSteps DEF endVars, CallClose, CallKill, WatchReports, WatchEnds
<1> QED BY <1>1, <1>2

LEMMA OpensBalanced ==
    ASSUME TypeOK, TurnsBalance, Opens, ~pumpEnded
    PROVE  /\ turnActive' = TRUE
           /\ starts' = (IF turnActive THEN starts ELSE starts + 1) /\ ends' = ends
           /\ starts' = ends' + 1
<1>1. starts \in Nat
    BY DEF TypeOK
<1>2. CASE turnActive
    BY <1>1, <1>2 DEF Opens, Count, TurnsBalance
<1>3. CASE ~turnActive
    BY <1>1, <1>3 DEF Opens, Count, TurnsBalance
<1> QED BY <1>2, <1>3

LEMMA EndsBalanced ==
    ASSUME TypeOK, TurnsBalance, turnActive, endTurnLocked, ~pumpEnded
    PROVE  turnActive' = FALSE /\ starts' = starts /\ ends' = ends + 1 /\ starts = ends + 1
BY DEF endTurnLocked, Count, TurnsBalance

LEMMA NextTurnsBalance == TypeOK /\ TurnsBalance /\ [Next]_vars => TurnsBalance'
<1> SUFFICES ASSUME TypeOK, TurnsBalance, [Next]_vars PROVE TurnsBalance'
    OBVIOUS
<1>1. CASE pumpEnded
    BY <1>1, PumpStaysEnded DEF TurnsBalance
<1>2. CASE ~pumpEnded
    <2>1. CASE UNCHANGED turnVars
        BY <1>2, <2>1 DEF turnVars, TurnsBalance
    <2>2. CASE OpensATurn
        BY <1>2, <2>2, OpensBalanced DEF OpensATurn, TurnsBalance
    <2>3. CASE EndsTheTurn
        BY <1>2, <2>3, EndsBalanced DEF EndsTheTurn, TurnsBalance
    <2> QED BY <2>1, <2>2, <2>3, TurnSteps DEF NotesCompaction
<1> QED BY <1>1, <1>2

-------------------------------------------------------------------------------
(* The dialogs.                                                            *)

\* pi raises each dialog once, and nothing has touched one that is not read.
Untouched(d) ==
    /\ d \notin Parked \cup timed \cup resolving \cup telling /\ settled[d] = 0
    /\ ~Contains(stdin, Answer(d))
RaisedOnce ==
    \A d \in Dialogs :
        /\ Once(wire, Dialog(d))
        /\ Contains(wire, Dialog(d)) => asked[d] = 0 /\ d \in waits
        /\ asked[d] = 0 => Untouched(d)

\* A dialog is parked, on its way to being told of, or told of: one of these.
ToldOnce ==
    \A d \in Dialogs :
        /\ asked[d] <= 1 /\ settled[d] <= 1
        /\ d \in Parked \cup resolving \cup telling => settled[d] = 0
        /\ d \in Parked => d \notin resolving \cup telling
        /\ d \in resolving => d \notin telling

LEMMA StateWritten ==
    ASSUME NEW p, TakesGetState(p)
    PROVE  \/ Writes(Response(p, "idle")) /\ run = "none" /\ compaction = Nobody
           \/ Writes(Response(p, "busy")) /\ run # "none"
           \/ Writes(Response(p, "compacting")) /\ run = "none" /\ compaction # Nobody
<1>1. CASE run # "none"
    BY <1>1 DEF TakesGetState, Writes
<1>2. CASE run = "none" /\ compaction # Nobody
    BY <1>2 DEF TakesGetState, Writes
<1>3. CASE run = "none" /\ compaction = Nobody
    BY <1>3 DEF TakesGetState, Writes
<1> QED BY <1>1, <1>2, <1>3

LEMMA WireSteps ==
    ASSUME [Next]_vars, PiTypes
    PROVE  \/ UNCHANGED wire
           \/ \E r : Reads(r)
           \/ \E d \in Dialogs : Asks(d)
           \/ \E r \in Records : Writes(r) /\ \A d : r # Dialog(d)
<1> USE RecordTypes, RecordsDiffer
<1>1. ASSUME NEW p \in Prompts, TakesPrompt(p)
      PROVE  UNCHANGED wire \/ \E r \in Records : Writes(r) /\ \A d : r # Dialog(d)
    <2>1. UNCHANGED wire \/ Writes(Response(p, "accepted")) \/ Writes(Response(p, "refused"))
        BY <1>1 DEF TakesPrompt
    <2>2. ASSUME NEW a \in Answers, Writes(Response(p, a))
          PROVE  \E r \in Records : Writes(r) /\ \A d : r # Dialog(d)
        BY <2>2
    <2> QED BY <2>1, <2>2 DEF Answers
<1>2. ASSUME NEW p \in Prompts, TakesSteer(p)
      PROVE  \E r \in Records : Writes(r) /\ \A d : r # Dialog(d)
    BY <1>2 DEF TakesSteer, Answers
<1>3. ASSUME NEW p \in Prompts, TakesCompact(p)
      PROVE  UNCHANGED wire \/ \E r \in Records : Writes(r) /\ \A d : r # Dialog(d)
    BY <1>3 DEF TakesCompact, Answers
<1>4. ASSUME NEW p \in Prompts, Prepared(p)
      PROVE  \E r \in Records : Writes(r) /\ \A d : r # Dialog(d)
    BY <1>4 DEF Prepared, Answers
<1>5. ASSUME NEW p \in Prompts, TakesGetState(p)
      PROVE  \E r \in Records : Writes(r) /\ \A d : r # Dialog(d)
    <2>1. Writes(Response(p, "idle")) \/ Writes(Response(p, "busy")) \/ Writes(Response(p, "compacting"))
        BY <1>5, StateWritten
    <2>2. ASSUME NEW a \in Answers, Writes(Response(p, a))
          PROVE  \E r \in Records : Writes(r) /\ \A d : r # Dialog(d)
        BY <2>2
    <2> QED BY <2>1, <2>2 DEF Answers, States
<1>6. CASE RunStarts \/ Speaks \/ Settles \/ CompactionSettles
    BY <1>6 DEF RunStarts, Speaks, Settles, CompactionSettles
<1>7. CASE Compacted
    <2>1. compaction \in Prompts
        BY <1>7 DEF Compacted, PiTypes
    <2>2. PICK p \in Prompts : p = compaction
        BY <2>1
    <2>3. PICK a \in {"accepted", "refused"} : Writes(Response(compaction, a))
        BY <1>7 DEF Compacted
    <2>4. Writes(Response(p, a))
        BY <2>2, <2>3 DEF Writes
    <2> QED BY <2>4 DEF Answers
<1>8. CASE Pi
    <2>1. \/ \E p \in Prompts : TakesPrompt(p) \/ TakesSteer(p) \/ TakesCompact(p) \/ Prepared(p) \/ TakesGetState(p)
          \/ RunStarts \/ Speaks \/ Settles \/ CompactionSettles \/ Compacted
          \/ \E d \in Dialogs : Asks(d)
          \/ UNCHANGED wire
        BY <1>8 DEF Pi, PiExits, TakesAnswer, Defaults
    <2> QED BY <1>1, <1>2, <1>3, <1>4, <1>5, <1>6, <1>7, <2>1
<1>9. CASE ReadLoop
    BY <1>9 DEF ReadLoop, ReadStart, ReadOutput, ReadSettled, ReadDialog, ReadResponse, StreamDone
<1>10. CASE \E p \in Prompts : PromptCheck(p) \/ PromptOpen(p) \/ CompactOpen(p) \/ Goroutine(p)
    BY <1>10 DEF PromptCheck, PromptOpen, CompactOpen, Goroutine, PromptSend, Refused, Accepted, AskState, StateKnown,
          GiveUp, CompactAnswered, AnswerLost, piVars, piButStdin
<1>11. CASE \/ \E d \in Dialogs : Resolve(d) \/ AnswerDialog(d) \/ TellResolved(d) \/ TimerFires(d) \/ TimerRuns(d)
            \/ Interrupt \/ CallClose \/ CallKill \/ Ending \/ UNCHANGED vars
    BY <1>11 DEF Resolve, AnswerDialog, TellResolved, TimerFires, TimerRuns, Interrupt, CallClose, CallKill, Ending,
          CallReturns, Reaped, WatchReports, WatchEnds, vars, piVars, piButStdin
<1> QED BY <1>8, <1>9, <1>10, <1>11 DEF Next

LEMMA StdinSteps ==
    ASSUME [Next]_vars
    PROVE  \/ UNCHANGED stdin
           \/ \E ds \in SUBSET Parked : Withdraw(ds)
           \/ \E d \in Dialogs : AnswerDialog(d) \/ TakesAnswer(d)
           \/ \E p \in Prompts : PromptSend(p) \/ AskState(p) \/ Takes(Command(p)) \/ Takes(GetState(p))
<1>1. CASE Pi
    BY <1>1 DEF Pi, TakesPrompt, TakesSteer, TakesCompact, Prepared, TakesGetState, RunStarts, Speaks, Settles,
          CompactionSettles, Compacted, PiExits, Asks, Defaults
<1>2. CASE ReadLoop
    BY <1>2, SettledWithdraws DEF ReadLoop, ReadStart, ReadOutput, ReadDialog, ReadResponse, StreamDone
<1>3. CASE \E p \in Prompts : PromptCheck(p) \/ PromptOpen(p) \/ CompactOpen(p) \/ Goroutine(p)
    BY <1>3 DEF PromptCheck, PromptOpen, CompactOpen, Goroutine, Refused, Accepted, StateKnown,
          GiveUp, CompactAnswered, AnswerLost, piVars
<1>4. CASE \/ \E d \in Dialogs : Resolve(d) \/ AnswerDialog(d) \/ TellResolved(d) \/ TimerFires(d) \/ TimerRuns(d)
           \/ CallClose \/ CallKill \/ Ending \/ UNCHANGED vars
    BY <1>4 DEF Resolve, TellResolved, TimerFires, TimerRuns, CallClose, CallKill, Ending,
          CallReturns, Reaped, WatchReports, WatchEnds, vars, piVars
<1> QED BY <1>1, <1>2, <1>3, <1>4, InterruptWithdraws DEF Next

LEMMA WaitSteps ==
    ASSUME [Next]_vars, NEW d \in Dialogs
    PROVE  \/ d \in waits' <=> d \in waits
           \/ Asks(d)
           \/ (TakesAnswer(d) \/ Defaults(d)) /\ d \notin waits'
<1>1. CASE Pi
    BY <1>1 DEF Pi, TakesPrompt, TakesSteer, TakesCompact, Prepared, TakesGetState, RunStarts, Speaks, Settles,
          CompactionSettles, Compacted, PiExits, Asks, TakesAnswer, Defaults
<1>2. CASE ReadLoop
    BY <1>2 DEF ReadLoop, ReadStart, ReadOutput, ReadSettled, ReadDialog, ReadResponse, StreamDone, Reads
<1>3. CASE \E p \in Prompts : PromptCheck(p) \/ PromptOpen(p) \/ CompactOpen(p) \/ Goroutine(p)
    BY <1>3 DEF PromptCheck, PromptOpen, CompactOpen, Goroutine, PromptSend, Refused, Accepted, AskState, StateKnown,
          GiveUp, CompactAnswered, AnswerLost, piVars, piButStdin
<1>4. CASE \/ \E e \in Dialogs : Resolve(e) \/ AnswerDialog(e) \/ TellResolved(e) \/ TimerFires(e) \/ TimerRuns(e)
           \/ Interrupt \/ CallClose \/ CallKill \/ Ending \/ UNCHANGED vars
    BY <1>4 DEF Resolve, AnswerDialog, TellResolved, TimerFires, TimerRuns, Interrupt, CallClose, CallKill, Ending,
          CallReturns, Reaped, WatchReports, WatchEnds, vars, piVars, piButStdin
<1> QED BY <1>1, <1>2, <1>3, <1>4 DEF Next

LEMMA Drops ==
    ASSUME NEW ds, Drop(ds), NEW d \in Dialogs
    PROVE  /\ d \in Parked' <=> d \in Parked /\ d \notin ds
           /\ d \in Parked => dialogs[d] # NotParked
BY DEF Drop, Parked

LEMMA Settles1 ==
    ASSUME DialogTypes, NEW ds, CountEach(settled, ds), NEW d \in Dialogs
    PROVE  /\ settled[d] \in Nat
           /\ settled'[d] = IF d \in ds /\ ~pumpEnded THEN settled[d] + 1 ELSE settled[d]
BY DEF CountEach, DialogTypes

LEMMA TimerCounts ==
    ASSUME NEW e \in Dialogs, TimerRuns(e), NEW d \in Dialogs
    PROVE  settled'[d] = IF d = e /\ d \in Parked /\ ~pumpEnded THEN settled[d] + 1 ELSE settled[d]
<1>1. PICK ds \in SUBSET Dialogs : ds = {c \in Dialogs : c = e /\ c \in Parked}
    OBVIOUS
<1>2. {e} \cap Parked = ds
    BY <1>1, ParkedAreDialogs, Zenon
<1>3. settled' = [c \in Dialogs |-> IF c \in ds /\ ~pumpEnded THEN settled[c] + 1 ELSE settled[c]]
    BY <1>2, Zenon DEF TimerRuns, CountEach
<1> QED BY <1>1, <1>3

\* A dialog is asked for as it is read, and only then.
LEMMA AskedAsRead ==
    ASSUME TypeOK, EndInOrder, [Next]_vars, NEW d \in Dialogs
    PROVE  /\ ReadDialog(d) => asked'[d] = asked[d] + 1
           /\ ~ReadDialog(d) => asked'[d] = asked[d]
<1>1. CASE \E e \in Dialogs : ReadDialog(e)
    <2> PICK e \in Dialogs : ReadDialog(e)
        BY <1>1
    <2>1. asked' = [c \in Dialogs |-> IF c \in {e} THEN asked[c] + 1 ELSE asked[c]]
        <3>1. pumpEnded = FALSE
            BY ReadsMeansLive DEF ReadDialog
        <3> QED BY <3>1 DEF ReadDialog, CountEach
    <2>2. ReadDialog(d) => d = e
        BY RecordsDiffer DEF ReadDialog, Reads
    <2>3. CASE d = e
        BY <2>1, <2>3
    <2>4. CASE d # e
        BY <2>1, <2>2, <2>4
    <2> QED BY <2>3, <2>4
<1>2. CASE ~\E e \in Dialogs : ReadDialog(e)
    <2>1. ASSUME NEW ds, Withdraw(ds) PROVE UNCHANGED asked
        BY <2>1 DEF Withdraw
    <2>2. ASSUME NEW e, Resolve(e) \/ AnswerDialog(e) \/ TellResolved(e) \/ TimerFires(e) \/ TimerRuns(e)
          PROVE  UNCHANGED asked
        BY <2>2 DEF Resolve, AnswerDialog, TellResolved, TimerFires, TimerRuns
    <2>3. UNCHANGED dialogVars \/ WatchReports => UNCHANGED asked
        BY DEF dialogVars, WatchReports
    <2>4. UNCHANGED asked
        BY <1>2, <2>1, <2>2, <2>3, DialogSteps
    <2> QED BY <1>2, <2>4
<1> QED BY <1>1, <1>2

LEMMA KeepsUnread ==
    ASSUME TypeOK, EndInOrder, RaisedOnce, [Next]_vars, NEW d \in Dialogs
    PROVE  /\ Once(wire', Dialog(d))
           /\ Contains(wire', Dialog(d)) => asked'[d] = 0 /\ d \in waits'
<1>1. /\ Once(wire, Dialog(d)) /\ PiTypes
      /\ Contains(wire, Dialog(d)) => asked[d] = 0 /\ d \in waits
      /\ asked[d] = 0 => d \notin timed /\ ~Contains(stdin, Answer(d))
    BY TypesAre DEF RaisedOnce, Untouched
<1>2. CASE ReadDialog(d)
    BY <1>1, <1>2, ReadsOne DEF ReadDialog, PiTypes
<1>3. CASE Asks(d)
    <2>1. d \notin waits /\ asked[d] = 0
        <3>1. asked[d] \in Nat
            BY DEF TypeOK
        <3>2. d \notin waits /\ ~(asked[d] > 0)
            BY <1>3 DEF Asks, Raised
        <3> QED BY <3>1, <3>2
    <2>2. Writes(Dialog(d)) /\ d \in waits' /\ ~ReadDialog(d)
        <3>1. UNCHANGED asked
            BY <1>3 DEF Asks, piLeaves, dialogVars
        <3>2. asked[d] \in Nat
            BY DEF TypeOK
        <3>3. ~ReadDialog(d)
            BY <3>1, <3>2, AskedAsRead
        <3> QED BY <1>3, <3>3 DEF Asks
    <2> QED BY <1>1, <2>1, <2>2, AskedAsRead, WritesOne, RecordTypes DEF PiTypes
<1>4. CASE ~ReadDialog(d) /\ ~Asks(d)
    <2>1. Once(wire', Dialog(d)) /\ (Contains(wire', Dialog(d)) => Contains(wire, Dialog(d)))
        <3>1. ASSUME NEW r, Reads(r)
              PROVE  Once(wire', Dialog(d)) /\ (Contains(wire', Dialog(d)) => Contains(wire, Dialog(d)))
            BY <1>1, <3>1, ReadsOne DEF PiTypes
        <3>2. ASSUME NEW e \in Dialogs, Asks(e)
              PROVE  Once(wire', Dialog(d)) /\ (Contains(wire', Dialog(d)) => Contains(wire, Dialog(d)))
            <4>1. Writes(Dialog(e)) /\ Dialog(e) # Dialog(d)
                BY <1>4, <3>2, RecordsDiffer DEF Asks
            <4> QED BY <1>1, <4>1, WritesOne, RecordTypes DEF PiTypes
        <3>3. ASSUME NEW r \in Records, Writes(r), \A e : r # Dialog(e)
              PROVE  Once(wire', Dialog(d)) /\ (Contains(wire', Dialog(d)) => Contains(wire, Dialog(d)))
            BY <1>1, <3>3, WritesOne DEF PiTypes
        <3>4. ASSUME UNCHANGED wire
              PROVE  Once(wire', Dialog(d)) /\ (Contains(wire', Dialog(d)) => Contains(wire, Dialog(d)))
            BY <1>1, <3>4
        <3> QED BY <1>1, <3>1, <3>2, <3>3, <3>4, WireSteps
    <2>2. ASSUME Contains(wire', Dialog(d)) PROVE d \in waits'
        <3>1. ~TakesAnswer(d) /\ ~Defaults(d)
            BY <1>1, <2>1, <2>2, TakesOne DEF TakesAnswer, Defaults, PiTypes
        <3> QED BY <1>1, <1>4, <2>1, <2>2, <3>1, WaitSteps
    <2> QED BY <1>1, <1>4, <2>1, <2>2, AskedAsRead
<1> QED BY <1>2, <1>3, <1>4

\* pi is answered about dialogs that were parked, and about none of the others.
LEMMA AnswersSent ==
    ASSUME TypeOK, [Next]_vars, NEW d \in Dialogs, Contains(stdin', Answer(d))
    PROVE  Contains(stdin, Answer(d)) \/ d \in Parked \/ d \in resolving
<1>0. stdin \in Seq(Commands)
    BY DEF TypeOK
<1>1. ASSUME NEW ds \in SUBSET Parked, Withdraw(ds) PROVE Contains(stdin, Answer(d)) \/ d \in Parked
    <2>1. Contains(stdin, Answer(d)) \/ \E e \in ds : Answer(d) = Answer(e)
        BY <1>0, <1>1, WithdrawSends, ParkedAreDialogs
    <2> QED BY <2>1, CommandsDiffer
<1>2. ASSUME NEW e \in Dialogs, AnswerDialog(e) PROVE Contains(stdin, Answer(d)) \/ d \in resolving
    <2>1. Contains(stdin, Answer(d)) \/ Answer(d) = Answer(e)
        BY <1>0, <1>2, SendsOne, RecordTypes DEF AnswerDialog
    <2> QED BY <1>2, <2>1, CommandsDiffer DEF AnswerDialog
<1>3. ASSUME NEW c, Takes(c) PROVE Contains(stdin, Answer(d))
    BY <1>0, <1>3, TakesOne
<1>4. ASSUME NEW p \in Prompts, PromptSend(p) PROVE Contains(stdin, Answer(d))
    BY <1>0, <1>4, SendsOne, RecordTypes, CommandsDiffer DEF PromptSend
<1>5. ASSUME NEW p \in Prompts, AskState(p) PROVE Contains(stdin, Answer(d))
    BY <1>0, <1>5, SendsOne, RecordTypes, CommandsDiffer DEF AskState
<1> QED BY <1>1, <1>2, <1>3, <1>4, <1>5, StdinSteps DEF TakesAnswer

LEMMA KeepsUntouched ==
    ASSUME TypeOK, EndInOrder, RaisedOnce, [Next]_vars, NEW d \in Dialogs, asked'[d] = 0
    PROVE  Untouched(d)'
<1>1. ~ReadDialog(d) /\ asked[d] = 0 /\ DialogTypes
    <2>1. asked[d] \in Nat
        BY DEF TypeOK
    <2> QED BY <2>1, AskedAsRead, TypesAre
<1>2. Untouched(d)
    BY <1>1 DEF RaisedOnce
<1>3. ~Contains(stdin', Answer(d))
    BY <1>2, AnswersSent DEF Untouched
<1>4. d \notin Parked' /\ d \notin timed' /\ d \notin resolving' /\ d \notin telling' /\ settled'[d] = 0
    <2>1. CASE UNCHANGED dialogVars
        BY <1>2, <2>1 DEF dialogVars, Untouched, Parked
    <2>2. ASSUME NEW ds \in SUBSET Parked, Withdraw(ds)
          PROVE  d \notin Parked' /\ d \notin timed' /\ d \notin resolving' /\ d \notin telling' /\ settled'[d] = 0
        BY <1>1, <1>2, <2>2, Drops, Settles1 DEF Withdraw, Untouched
    <2>3. CASE WatchReports
        BY <1>2, <2>3 DEF WatchReports, Drop, CountEach, Untouched, Parked
    <2>4. ASSUME NEW e \in Dialogs, ReadDialog(e)
          PROVE  d \notin Parked' /\ d \notin timed' /\ d \notin resolving' /\ d \notin telling' /\ settled'[d] = 0
        <3>1. e # d
            BY <1>1, <2>4
        <3>2. dialogs'[d] = dialogs[d]
            BY <2>4, <3>1 DEF ReadDialog, TypeOK
        <3> QED BY <1>2, <2>4, <3>1, <3>2 DEF ReadDialog, Untouched, Parked
    <2>5. ASSUME NEW e \in Dialogs, Resolve(e)
          PROVE  d \notin Parked' /\ d \notin timed' /\ d \notin resolving' /\ d \notin telling' /\ settled'[d] = 0
        BY <1>2, <2>5, Drops DEF Resolve, Untouched
    <2>6. ASSUME NEW e \in Dialogs, AnswerDialog(e) \/ TimerFires(e)
          PROVE  d \notin Parked' /\ d \notin timed' /\ d \notin resolving' /\ d \notin telling' /\ settled'[d] = 0
        BY <1>2, <2>6 DEF AnswerDialog, TimerFires, Untouched, Parked
    <2>7. ASSUME NEW e \in Dialogs, TellResolved(e)
          PROVE  d \notin Parked' /\ d \notin timed' /\ d \notin resolving' /\ d \notin telling' /\ settled'[d] = 0
        BY <1>1, <1>2, <2>7, Settles1 DEF TellResolved, Untouched, Parked
    <2>8. ASSUME NEW e \in Dialogs, TimerRuns(e)
          PROVE  d \notin Parked' /\ d \notin timed' /\ d \notin resolving' /\ d \notin telling' /\ settled'[d] = 0
        BY <1>2, <2>8 DEF TimerRuns, Drop, CountEach, Untouched, Parked
    <2> QED BY <2>1, <2>2, <2>3, <2>4, <2>5, <2>6, <2>7, <2>8, DialogSteps
<1> QED BY <1>3, <1>4 DEF Untouched

LEMMA NextRaisedOnce == TypeOK /\ EndInOrder /\ RaisedOnce /\ [Next]_vars => RaisedOnce'
BY KeepsUnread, KeepsUntouched DEF RaisedOnce

LEMMA NextToldOnce == TypeOK /\ EndInOrder /\ RaisedOnce /\ ToldOnce /\ [Next]_vars => ToldOnce'
<1> SUFFICES ASSUME TypeOK, EndInOrder, RaisedOnce, ToldOnce, [Next]_vars, NEW d \in Dialogs
             PROVE  /\ asked'[d] <= 1 /\ settled'[d] <= 1
                    /\ d \in Parked' \/ d \in resolving' \/ d \in telling' => settled'[d] = 0
                    /\ d \in Parked' => d \notin resolving' /\ d \notin telling'
                    /\ d \in resolving' => d \notin telling'
    BY DEF ToldOnce
<1>1. /\ asked[d] \in Nat /\ settled[d] \in Nat /\ DialogTypes
      /\ asked[d] <= 1 /\ settled[d] <= 1
      /\ d \in Parked \/ d \in resolving \/ d \in telling => settled[d] = 0
      /\ d \in Parked => d \notin resolving /\ d \notin telling
      /\ d \in resolving => d \notin telling
      /\ asked[d] = 0 => d \notin Parked /\ d \notin resolving /\ d \notin telling /\ settled[d] = 0
    BY TypesAre DEF DialogTypes, ToldOnce, RaisedOnce, Untouched
<1>2. asked'[d] <= 1
    <2>1. ReadDialog(d) => asked[d] = 0
        BY ReadsOne DEF ReadDialog, RaisedOnce, TypeOK
    <2> QED BY <1>1, <2>1, AskedAsRead
<1> DEFINE Goal == /\ settled'[d] <= 1
                   /\ d \in Parked' \/ d \in resolving' \/ d \in telling' => settled'[d] = 0
                   /\ d \in Parked' => d \notin resolving' /\ d \notin telling'
                   /\ d \in resolving' => d \notin telling'
<1>3. CASE UNCHANGED dialogVars
    BY <1>1, <1>3 DEF dialogVars, Parked
<1>4. ASSUME NEW ds \in SUBSET Parked, Withdraw(ds) PROVE Goal
    BY <1>1, <1>4, Drops, Settles1 DEF Withdraw
<1>5. ASSUME WatchReports PROVE Goal
    <2>1. d \notin Parked'
        BY <1>5 DEF WatchReports, Drop, Parked
    <2>2. settled'[d] = IF d \in Parked /\ ~pumpEnded THEN settled[d] + 1 ELSE settled[d]
        BY <1>5 DEF WatchReports, CountEach
    <2>3. UNCHANGED <<resolving, telling>>
        BY <1>5 DEF WatchReports
    <2> QED BY <1>1, <2>1, <2>2, <2>3
<1>6. ASSUME NEW e \in Dialogs, ReadDialog(e) PROVE Goal
    <2>1. UNCHANGED <<resolving, telling, settled>>
        BY <1>6 DEF ReadDialog
    <2>2. CASE e = d
        <3>1. asked[d] = 0
            BY <1>6, <2>2, ReadsOne DEF ReadDialog, RaisedOnce, TypeOK
        <3> QED BY <1>1, <2>1, <3>1
    <2>3. CASE e # d
        <3>1. dialogs'[d] = dialogs[d]
            BY <1>6, <2>3 DEF ReadDialog, TypeOK
        <3>2. d \in Parked' <=> d \in Parked
            BY <3>1 DEF Parked
        <3> QED BY <1>1, <2>1, <3>2
    <2> QED BY <2>2, <2>3
<1>7. ASSUME NEW e \in Dialogs, Resolve(e) PROVE Goal
    BY <1>1, <1>7, Drops DEF Resolve
<1>8. ASSUME NEW e \in Dialogs, AnswerDialog(e) PROVE Goal
    BY <1>1, <1>8 DEF AnswerDialog, Parked
<1>9. ASSUME NEW e \in Dialogs, TellResolved(e) PROVE Goal
    BY <1>1, <1>9, Settles1 DEF TellResolved, Parked
<1>10. ASSUME NEW e \in Dialogs, TimerFires(e) PROVE Goal
    BY <1>1, <1>10 DEF TimerFires, Parked
<1>11. ASSUME NEW e \in Dialogs, TimerRuns(e) PROVE Goal
    <2>1. d \in Parked' <=> d \in Parked /\ d # e
        BY <1>11 DEF TimerRuns, Drop, Parked
    <2>2. settled'[d] = IF d = e /\ d \in Parked /\ ~pumpEnded THEN settled[d] + 1 ELSE settled[d]
        BY <1>11, TimerCounts
    <2>3. UNCHANGED <<resolving, telling>>
        BY <1>11 DEF TimerRuns
    <2> QED BY <1>1, <2>1, <2>2, <2>3
<1> QED BY <1>2, <1>3, <1>4, <1>5, <1>6, <1>7, <1>8, <1>9, <1>10, <1>11, DialogSteps

LEMMA SendsBefore == TypeOK /\ [Next]_vars /\ CanSend' => CanSend
<1> SUFFICES ASSUME TypeOK, [Next]_vars, CanSend' PROVE CanSend
    OBVIOUS
<1>1. stream = "up"
    BY StreamSteps DEF CanSend, TypeOK
<1>2. caller # "closing"
    BY <1>1, EndSteps DEF CanSend, endVars, CallClose, CallKill, CallReturns, WatchReports, WatchEnds
<1> QED BY <1>1, <1>2 DEF CanSend

\* What was on its way to pi stays there until pi takes it.
LEMMA AnswersStay ==
    ASSUME TypeOK, [Next]_vars, NEW d \in Dialogs, Contains(stdin, Answer(d)), ~TakesAnswer(d)
    PROVE  Contains(stdin', Answer(d))
<1>0. stdin \in Seq(Commands)
    BY DEF TypeOK
<1>1. ASSUME NEW ds \in SUBSET Parked, Withdraw(ds) PROVE Contains(stdin', Answer(d))
    BY <1>0, <1>1, WithdrawSends, ParkedAreDialogs
<1>2. ASSUME NEW e \in Dialogs, AnswerDialog(e) PROVE Contains(stdin', Answer(d))
    BY <1>0, <1>2, SendsOne, RecordTypes DEF AnswerDialog
<1>3. ASSUME NEW e \in Dialogs, TakesAnswer(e) PROVE Contains(stdin', Answer(d))
    <2>1. Takes(Answer(e)) /\ Answer(e) # Answer(d)
        BY <1>3, CommandsDiffer DEF TakesAnswer
    <2> QED BY <1>0, <2>1, TakesOne
<1>4. ASSUME NEW p \in Prompts, PromptSend(p) \/ AskState(p) PROVE Contains(stdin', Answer(d))
    BY <1>0, <1>4, SendsOne, RecordTypes DEF PromptSend, AskState
<1>5. ASSUME NEW p \in Prompts, Takes(Command(p)) \/ Takes(GetState(p)) PROVE Contains(stdin', Answer(d))
    BY <1>0, <1>5, TakesOne, CommandsDiffer
<1> QED BY <1>1, <1>2, <1>3, <1>4, <1>5, StdinSteps

LEMMA NextWaitedOnIsReachable ==
    TypeOK /\ EndInOrder /\ RaisedOnce /\ WaitedOnIsReachable /\ [Next]_vars => WaitedOnIsReachable'
<1> SUFFICES ASSUME TypeOK, EndInOrder, RaisedOnce, WaitedOnIsReachable, [Next]_vars,
                    NEW d \in waits', asked'[d] > 0, CanSend'
             PROVE  \/ d \in Parked' \/ d \in resolving' \/ d \in timed'
                    \/ Contains(stdin', Answer(d))
    BY DEF WaitedOnIsReachable
<1>0. d \in Dialogs /\ stream = "up" /\ CanSend
    BY NextTypeOK, SendsBefore DEF TypeOK, CanSend
<1>1. CASE ReadDialog(d)
    <2>1. dialogs'[d] \in Nat
        BY <1>0, <1>1 DEF ReadDialog, TypeOK
    <2> QED BY <1>0, <2>1 DEF Parked, NotParked
<1>2. CASE ~ReadDialog(d)
    <2>1. asked[d] > 0
        BY <1>0, <1>2, AskedAsRead
    <2>2. ~Asks(d) /\ ~TakesAnswer(d)
        <3>1. ~Asks(d)
            BY <1>0, <2>1 DEF Asks, Raised
        <3>2. ~TakesAnswer(d)
            BY DEF TakesAnswer
        <3> QED BY <3>1, <3>2
    <2>3. d \in waits
        BY <1>0, <2>2, WaitSteps
    <2>4. d \in Parked \/ d \in resolving \/ d \in timed \/ Contains(stdin, Answer(d))
        BY <1>0, <2>1, <2>3 DEF WaitedOnIsReachable
    <2>5. CASE Contains(stdin, Answer(d))
        BY <1>0, <2>2, <2>5, AnswersStay
    <2>6. CASE d \in timed
        <3>1. ASSUME NEW ds, Withdraw(ds) PROVE d \in timed'
            BY <2>6, <3>1 DEF Withdraw
        <3>2. UNCHANGED dialogVars \/ WatchReports => d \in timed'
            BY <2>6 DEF dialogVars, WatchReports
        <3>3. ASSUME NEW e \in Dialogs, ReadDialog(e) \/ Resolve(e) \/ AnswerDialog(e) \/ TellResolved(e)
                                        \/ TimerFires(e) \/ TimerRuns(e)
              PROVE  d \in timed'
            BY <2>6, <3>3 DEF ReadDialog, Resolve, AnswerDialog, TellResolved, TimerFires, TimerRuns
        <3> QED BY <3>1, <3>2, <3>3, DialogSteps
    <2>7. CASE d \in resolving
        <3>1. ASSUME NEW ds, Withdraw(ds) PROVE d \in resolving'
            BY <2>7, <3>1 DEF Withdraw
        <3>2. UNCHANGED dialogVars \/ WatchReports => d \in resolving'
            BY <2>7 DEF dialogVars, WatchReports
        <3>3. ASSUME NEW e \in Dialogs, ReadDialog(e) \/ Resolve(e) \/ TellResolved(e) \/ TimerFires(e) \/ TimerRuns(e)
              PROVE  d \in resolving'
            BY <2>7, <3>3 DEF ReadDialog, Resolve, TellResolved, TimerFires, TimerRuns
        <3>4. ASSUME NEW e \in Dialogs, AnswerDialog(e) PROVE d \in resolving' \/ Contains(stdin', Answer(d))
            <4>1. CASE e = d
                <5>1. Send(<<Answer(d)>>) /\ stdin \in Seq(Commands)
                    BY <3>4, <4>1 DEF AnswerDialog, TypeOK
                <5> QED BY <1>0, <5>1, SendsOne, RecordTypes
            <4>2. CASE e # d
                BY <2>7, <3>4, <4>2 DEF AnswerDialog
            <4> QED BY <4>1, <4>2
        <3> QED BY <3>1, <3>2, <3>3, <3>4, DialogSteps
    <2>8. CASE d \in Parked
        <3>1. ASSUME NEW ds \in SUBSET Parked, Withdraw(ds) PROVE d \in Parked' \/ Contains(stdin', Answer(d))
            <4>1. stdin \in Seq(Commands) /\ ds \in SUBSET Dialogs
                BY ParkedAreDialogs DEF TypeOK
            <4>2. d \in ds => Contains(stdin', Answer(d))
                BY <1>0, <3>1, <4>1, WithdrawSends
            <4>3. d \notin ds => d \in Parked'
                BY <1>0, <2>8, <3>1, Drops DEF Withdraw
            <4> QED BY <4>2, <4>3
        <3>2. CASE UNCHANGED dialogVars
            BY <2>8, <3>2 DEF dialogVars, Parked
        <3>3. ~WatchReports
            BY <1>0 DEF WatchReports
        <3>4. ASSUME NEW e \in Dialogs, ReadDialog(e) PROVE d \in Parked'
            <4>1. e # d
                BY <1>2, <3>4
            <4> QED BY <2>8, <3>4, <4>1 DEF ReadDialog, Parked, TypeOK
        <3>5. ASSUME NEW e \in Dialogs, Resolve(e) PROVE d \in Parked' \/ d \in resolving'
            BY <1>0, <2>8, <3>5, Drops DEF Resolve
        <3>6. ASSUME NEW e \in Dialogs, AnswerDialog(e) \/ TellResolved(e) \/ TimerFires(e) PROVE d \in Parked'
            BY <2>8, <3>6 DEF AnswerDialog, TellResolved, TimerFires, Parked
        <3>7. ASSUME NEW e \in Dialogs, TimerRuns(e) PROVE d \in Parked' \/ d \in timed'
            <4>1. e \in timed /\ UNCHANGED timed /\ Drop({e})
                BY <3>7 DEF TimerRuns, TypeOK
            <4> QED BY <1>0, <2>8, <4>1 DEF Drop, Parked
        <3> QED BY <3>1, <3>2, <3>3, <3>4, <3>5, <3>6, <3>7, DialogSteps
    <2> QED BY <2>4, <2>5, <2>6, <2>7, <2>8
<1> QED BY <1>1, <1>2

SessionInv == TypeOK /\ EndInOrder /\ TurnsBalance /\ RaisedOnce /\ ToldOnce /\ WaitedOnIsReachable

LEMMA InitSessionInv == Init => SessionInv
<1> SUFFICES ASSUME Init PROVE SessionInv
    OBVIOUS
<1>1. TypeOK
    BY InitTypeOK
<1>2. EndInOrder /\ TurnsBalance
    BY DEF Init, EndInOrder, TurnsBalance
<1>3. RaisedOnce /\ ToldOnce /\ WaitedOnIsReachable
    BY NoneHas DEF Init, RaisedOnce, Untouched, ToldOnce, WaitedOnIsReachable, Parked
<1> QED BY <1>1, <1>2, <1>3 DEF SessionInv

LEMMA NextSessionInv == SessionInv /\ [Next]_vars => SessionInv'
BY NextTypeOK, NextEndInOrder, NextTurnsBalance, NextRaisedOnce, NextToldOnce, NextWaitedOnIsReachable DEF SessionInv

\* The streams, the turns and the dialogs keep each other's invariants.
THEOREM SessionInvHolds == Spec => []SessionInv
BY InitSessionInv, NextSessionInv, PTL DEF Spec

\* A dialog an extension waits on and a person was shown can be decided, or has
\* an answer on its way, or pi's own timer.
THEOREM WaitedOnIsInReach == Spec => []WaitedOnIsReachable
<1>1. SessionInv => WaitedOnIsReachable
    BY DEF SessionInv
<1> QED BY <1>1, SessionInvHolds, PTL

-------------------------------------------------------------------------------
(* The contract: a step of the session tells its reader one thing the      *)
(* contract allows, or nothing.                                            *)

View == [d \in Dialogs |-> Told(d)]

LEMMA ToldIs ==
    ASSUME NEW d \in Dialogs, asked[d] \in Nat, settled[d] \in Nat, asked[d] <= 1, settled[d] <= 1
    PROVE  /\ settled[d] = 1 => Told(d) = "settled"
           /\ settled[d] = 0 /\ asked[d] = 1 => Told(d) = "asked"
           /\ settled[d] = 0 /\ asked[d] = 0 => Told(d) = "nothing"
<1>1. ~(settled[d] > 1)
    OBVIOUS
<1>2. CASE settled[d] = 1
    BY <1>1, <1>2 DEF Told
<1>3. CASE settled[d] = 0 /\ asked[d] = 1
    BY <1>1, <1>3 DEF Told
<1>4. CASE settled[d] = 0 /\ asked[d] = 0
    BY <1>1, <1>4 DEF Told
<1>5. (settled[d] = 0 \/ settled[d] = 1) /\ (asked[d] = 0 \/ asked[d] = 1)
    OBVIOUS
<1> QED BY <1>2, <1>3, <1>4, <1>5

LEMMA ViewIs ==
    ASSUME TypeOK, ToldOnce, NEW d \in Dialogs
    PROVE  /\ settled[d] = 1 => View[d] = "settled"
           /\ settled[d] = 0 /\ asked[d] = 1 => View[d] = "asked"
           /\ settled[d] = 0 /\ asked[d] = 0 => View[d] = "nothing"
           /\ (settled[d] = 0 \/ settled[d] = 1) /\ (asked[d] = 0 \/ asked[d] = 1)
<1>1. asked[d] \in Nat /\ settled[d] \in Nat /\ asked[d] <= 1 /\ settled[d] <= 1
    BY DEF TypeOK, ToldOnce
<1>2. View[d] = Told(d)
    BY DEF View
<1> QED BY <1>1, <1>2, ToldIs

LEMMA ViewWillBe ==
    ASSUME TypeOK', ToldOnce', NEW d \in Dialogs
    PROVE  /\ settled'[d] = 1 => View'[d] = "settled"
           /\ settled'[d] = 0 /\ asked'[d] = 1 => View'[d] = "asked"
           /\ settled'[d] = 0 /\ asked'[d] = 0 => View'[d] = "nothing"
<1>1. asked'[d] \in Nat /\ settled'[d] \in Nat /\ asked'[d] <= 1 /\ settled'[d] <= 1
    BY DEF TypeOK, ToldOnce
<1>2. View'[d] = Told(d)'
    BY DEF View
<1>3. ~(settled'[d] > 1)
    BY <1>1
<1>4. CASE settled'[d] = 1
    BY <1>2, <1>3, <1>4 DEF Told
<1>5. CASE settled'[d] = 0 /\ asked'[d] = 1
    BY <1>2, <1>3, <1>5 DEF Told
<1>6. CASE settled'[d] = 0 /\ asked'[d] = 0
    BY <1>2, <1>3, <1>6 DEF Told
<1>7. (settled'[d] = 0 \/ settled'[d] = 1) /\ (asked'[d] = 0 \/ asked'[d] = 1)
    BY <1>1
<1> QED BY <1>4, <1>5, <1>6, <1>7

LEMMA InitContract == Init => Contract!Init
<1> SUFFICES ASSUME Init PROVE Contract!Init
    OBVIOUS
<1>1. ASSUME NEW d \in Dialogs PROVE Told(d) = "nothing"
    <2>1. TypeOK /\ ToldOnce
        BY InitSessionInv DEF SessionInv
    <2> QED BY <2>1, ViewIs DEF Init, View
<1>2. View = [d \in Dialogs |-> "nothing"]
    BY <1>1 DEF View
<1> QED BY <1>2 DEF Contract!Init, View, Init

LEMMA ToldUnchanged == ASSUME UNCHANGED <<asked, settled>> PROVE View' = View
BY DEF View, Told

LEMMA NothingSettled == ASSUME UNCHANGED <<asked, settled>> PROVE Contract!Settle({})
<1>1. View' = [d \in Dialogs |-> IF d \in {} THEN "settled" ELSE View[d]]
    BY ToldUnchanged DEF View
<1> QED BY <1>1 DEF Contract!Settle, View

\* A step that tells some dialogs, asked for and parked or answered, as settled.
LEMMA TellsSettled ==
    ASSUME TypeOK, ToldOnce, RaisedOnce, TypeOK', ToldOnce', UNCHANGED asked, NEW ds \in SUBSET Dialogs,
           \A d \in ds : d \in Parked \/ d \in telling,
           \A d \in Dialogs : settled'[d] = IF d \in ds THEN settled[d] + 1 ELSE settled[d]
    PROVE  Contract!Settle(ds)
<1>1. ASSUME NEW d \in ds PROVE settled[d] = 0 /\ asked[d] = 1 /\ settled'[d] = 1
    <2>1. settled[d] = 0 /\ asked[d] # 0
        BY DEF ToldOnce, RaisedOnce, Untouched
    <2> QED BY <2>1, ViewIs
<1>2. ASSUME NEW d \in Dialogs PROVE View'[d] = IF d \in ds THEN "settled" ELSE View[d]
    <2>1. CASE d \in ds
        BY <1>1, <2>1, ViewWillBe
    <2>2. CASE d \notin ds
        <3>1. settled'[d] = settled[d] /\ asked'[d] = asked[d]
            BY <2>2
        <3> QED BY <2>2, <3>1 DEF View, Told
    <2> QED BY <2>1, <2>2
<1>3. View' = [d \in Dialogs |-> IF d \in ds THEN "settled" ELSE View[d]]
    BY <1>2 DEF View
<1>4. \A d \in ds : View[d] = "asked"
    BY <1>1, ViewIs
<1> QED BY <1>3, <1>4 DEF Contract!Settle, View

\* What a step tells of the turn.
LEMMA TurnNews ==
    ASSUME TypeOK, TurnsBalance, [Next]_vars, ~pumpEnded
    PROVE  Contract!TurnNews
<1>1. CASE UNCHANGED turnVars
    BY <1>1 DEF turnVars, Contract!TurnNews
<1>2. CASE OpensATurn
    <2>1. /\ starts' = (IF turnActive THEN starts ELSE starts + 1) /\ ends' = ends
          /\ ~turnActive => starts = ends
        BY <1>2, OpensBalanced DEF OpensATurn, TurnsBalance
    <2>2. CASE turnActive
        BY <2>1, <2>2 DEF Contract!TurnNews
    <2>3. CASE ~turnActive
        BY <2>1, <2>3 DEF Contract!TurnNews, Contract!MayStart
    <2> QED BY <2>2, <2>3
<1>3. CASE EndsTheTurn
    <2>1. starts' = starts /\ ends' = ends + 1 /\ starts = ends + 1
        BY <1>3, EndsBalanced DEF EndsTheTurn
    <2>2. ends \in Nat
        BY DEF TypeOK
    <2>3. ends < starts
        BY <2>1, <2>2
    <2> QED BY <2>1, <2>3 DEF Contract!TurnNews
<1> QED BY <1>1, <1>2, <1>3, TurnSteps DEF NotesCompaction

\* What a step tells of the dialogs.
LEMMA DialogNews ==
    ASSUME SessionInv, SessionInv', [Next]_vars, ~pumpEnded, ~WatchReports
    PROVE  Contract!ApprovalNews
<1> USE DEF SessionInv
<1>0. DialogTypes
    BY TypesAre
<1>1. CASE UNCHANGED <<asked, settled>>
    BY <1>1, NothingSettled DEF Contract!ApprovalNews
<1>2. ASSUME NEW ds \in SUBSET Parked, Withdraw(ds) PROVE Contract!ApprovalNews
    <2>1. ds \in SUBSET Dialogs /\ UNCHANGED asked
        BY <1>2, ParkedAreDialogs DEF Withdraw
    <2>2. \A d \in Dialogs : settled'[d] = IF d \in ds THEN settled[d] + 1 ELSE settled[d]
        BY <1>0, <1>2, Settles1 DEF Withdraw
    <2>3. Contract!Settle(ds)
        BY <2>1, <2>2, TellsSettled
    <2> QED BY <2>1, <2>3 DEF Contract!ApprovalNews
<1>3. ASSUME NEW d \in Dialogs, TellResolved(d) PROVE Contract!ApprovalNews
    <2>1. d \in telling /\ UNCHANGED asked
        BY <1>3 DEF TellResolved
    <2>2. \A c \in Dialogs : settled'[c] = IF c \in {d} THEN settled[c] + 1 ELSE settled[c]
        BY <1>0, <1>3, Settles1 DEF TellResolved
    <2>3. Contract!Settle({d})
        BY <2>1, <2>2, TellsSettled
    <2> QED BY <2>3 DEF Contract!ApprovalNews
<1>4. ASSUME NEW d \in Dialogs, TimerRuns(d) PROVE Contract!ApprovalNews
    <2>1. \A c \in Dialogs : settled'[c] = IF c = d /\ c \in Parked THEN settled[c] + 1 ELSE settled[c]
        BY <1>4, TimerCounts
    <2>2. UNCHANGED asked
        BY <1>4 DEF TimerRuns
    <2>3. PICK ds \in SUBSET Dialogs : ds = {c \in Dialogs : c = d /\ c \in Parked}
        OBVIOUS
    <2>4. Contract!Settle(ds)
        BY <2>1, <2>2, <2>3, TellsSettled
    <2> QED BY <2>4 DEF Contract!ApprovalNews
<1>5. ASSUME NEW d \in Dialogs, ReadDialog(d) PROVE Contract!ApprovalNews
    <2>1. asked[d] = 0
        BY <1>5, ReadsOne DEF ReadDialog, RaisedOnce, TypeOK
    <2>2. settled[d] = 0 /\ settled' = settled
        BY <1>5, <2>1 DEF RaisedOnce, Untouched, ReadDialog
    <2>3. asked'[d] = 1
        BY <1>5, <2>1, AskedAsRead
    <2>4. View[d] = "nothing"
        BY <2>1, <2>2, ViewIs
    <2>5. View'[d] = "asked"
        BY <2>2, <2>3, ViewWillBe
    <2>6. ASSUME NEW c \in Dialogs, c # d PROVE View'[c] = View[c]
        <3>1. ~ReadDialog(c)
            BY <1>5, <2>6, RecordsDiffer DEF ReadDialog, Reads
        <3>2. asked'[c] = asked[c] /\ settled'[c] = settled[c]
            BY <2>2, <3>1, AskedAsRead
        <3> QED BY <3>2 DEF View, Told
    <2>7. View' = [View EXCEPT ![d] = "asked"]
        BY <2>5, <2>6 DEF View
    <2>8. Contract!Ask(d)
        BY <2>4, <2>7 DEF Contract!Ask, View
    <2> QED BY <2>8 DEF Contract!ApprovalNews
<1>6. ASSUME NEW d \in Dialogs, Resolve(d) \/ AnswerDialog(d) \/ TimerFires(d) PROVE UNCHANGED <<asked, settled>>
    BY <1>6 DEF Resolve, AnswerDialog, TimerFires
<1>7. UNCHANGED dialogVars => UNCHANGED <<asked, settled>>
    BY DEF dialogVars
<1> QED BY <1>1, <1>2, <1>3, <1>4, <1>5, <1>6, <1>7, DialogSteps

\* Once the pump has ended nothing is told.
LEMMA NothingMore ==
    ASSUME SessionInv, [Next]_vars, pumpEnded
    PROVE  UNCHANGED <<starts, ends, asked, settled>>
<1> USE DEF SessionInv
<1>1. UNCHANGED <<starts, ends>>
    BY TurnSteps DEF turnVars, OpensATurn, EndsTheTurn, NotesCompaction, Opens, endTurnLocked, Count
<1>2. ASSUME NEW ds, CountEach(settled, ds) PROVE UNCHANGED settled
    BY <1>2 DEF CountEach, TypeOK
<1>3. ASSUME NEW d \in Dialogs PROVE settled'[d] = settled[d] /\ asked'[d] = asked[d]
    <2>1. ~\E e \in Dialogs : ReadDialog(e)
        BY ReadsMeansLive DEF ReadDialog
    <2>2. asked'[d] = asked[d]
        BY <2>1, AskedAsRead
    <2>3. settled'[d] = settled[d]
        <3>1. ASSUME NEW ds, Withdraw(ds) PROVE settled'[d] = settled[d]
            BY <3>1 DEF Withdraw, CountEach
        <3>2. WatchReports => settled'[d] = settled[d]
            BY DEF WatchReports, CountEach
        <3>3. ASSUME NEW e \in Dialogs, TimerRuns(e) PROVE settled'[d] = settled[d]
            BY <3>3, TimerCounts
        <3>4. ASSUME NEW e \in Dialogs, Resolve(e) \/ AnswerDialog(e) \/ TellResolved(e) \/ TimerFires(e)
              PROVE  settled'[d] = settled[d]
            BY <3>4 DEF Resolve, AnswerDialog, TellResolved, TimerFires, CountEach
        <3>5. UNCHANGED dialogVars => settled'[d] = settled[d]
            BY DEF dialogVars
        <3> QED BY <2>1, <3>1, <3>2, <3>3, <3>4, <3>5, DialogSteps
    <2> QED BY <2>2, <2>3
<1>4. UNCHANGED <<asked, settled>>
    <2>1. /\ asked \in [Dialogs -> Nat] /\ settled \in [Dialogs -> Nat]
          /\ asked' \in [Dialogs -> Nat] /\ settled' \in [Dialogs -> Nat]
        BY NextTypeOK DEF TypeOK
    <2> QED BY <1>3, <2>1
<1> QED BY <1>1, <1>4

LEMMA NextContract ==
    SessionInv /\ SessionInv' /\ [Next]_vars => [Contract!Next]_(Contract!vars)
<1> SUFFICES ASSUME SessionInv, SessionInv', [Next]_vars
             PROVE  [Contract!Next]_(Contract!vars)
    OBVIOUS
<1>0. TypeOK /\ TypeOK' /\ TurnsBalance /\ ToldOnce /\ ToldOnce' /\ RaisedOnce
    BY DEF SessionInv
<1>1. CASE WatchReports
    <2>1. watch = "waiting" /\ watch' = "ending" /\ UNCHANGED <<pumpEnded, asked, starts>>
        BY <1>1 DEF WatchReports, endTurnLocked, turnVars
    <2>2. CASE pumpEnded
        <3>1. View' = View /\ UNCHANGED <<starts, ends>>
            BY <2>2, NothingMore, ToldUnchanged
        <3>2. Contract!AgentGone
            BY <2>1, <3>1 DEF Contract!AgentGone, View
        <3> QED BY <3>2 DEF Contract!Next
    <2>3. CASE ~pumpEnded
        <3>1. ends' \in {ends, starts}
            <4>1. CASE turnActive
                <5>1. ends' = ends + 1 /\ starts = ends + 1
                    BY <1>0, <1>1, <2>3, <4>1, EndsBalanced DEF WatchReports
                <5> QED BY <5>1
            <4>2. CASE ~turnActive
                BY <1>1, <4>2 DEF WatchReports, turnVars
            <4> QED BY <4>1, <4>2
        <3>2. PICK ds \in SUBSET Dialogs : ds = Parked
            BY ParkedAreDialogs
        <3>3. \A d \in Dialogs : settled'[d] = IF d \in ds THEN settled[d] + 1 ELSE settled[d]
            BY <1>1, <2>3, <3>2 DEF WatchReports, CountEach
        <3>4. Contract!Settle(ds)
            BY <1>0, <2>1, <3>2, <3>3, TellsSettled
        <3>5. Contract!AgentGone
            BY <2>1, <2>3, <3>1, <3>4 DEF Contract!AgentGone
        <3> QED BY <3>5 DEF Contract!Next
    <2> QED BY <2>2, <2>3
<1>2. CASE CallReturns \/ WatchEnds
    <2>1. UNCHANGED <<starts, ends, asked, settled, (watch # "waiting")>>
        BY <1>2 DEF CallReturns, WatchEnds, turnVars, dialogVars
    <2>2. View' = View
        BY <2>1, ToldUnchanged
    <2>3. CASE pumpEnded' = pumpEnded
        BY <2>1, <2>2, <2>3 DEF Contract!vars, View
    <2>4. CASE pumpEnded' # pumpEnded
        <3>1. pumpEnded \in BOOLEAN /\ pumpEnded' \in BOOLEAN
            BY <1>0 DEF TypeOK
        <3>2. pumpEnded = FALSE /\ pumpEnded' = TRUE
            <4>1. pumpEnded => pumpEnded'
                BY <1>0, PumpStaysEnded
            <4>2. CASE pumpEnded
                BY <2>4, <4>1, <4>2
            <4>3. CASE ~pumpEnded
                BY <2>4, <3>1, <4>3
            <4> QED BY <4>2, <4>3
        <3>3. Contract!CloseEvents
            BY <2>1, <2>2, <3>2 DEF Contract!CloseEvents, View
        <3> QED BY <3>3 DEF Contract!Next
    <2> QED BY <2>3, <2>4
<1>3. CASE ~WatchReports /\ ~CallReturns /\ ~WatchEnds
    <2>1. UNCHANGED <<watch, pumpEnded>>
        BY <1>3, EndSteps DEF endVars, CallClose, CallKill
    <2>2. CASE pumpEnded
        <3>1. View' = View /\ UNCHANGED <<starts, ends>>
            BY <2>2, NothingMore, ToldUnchanged
        <3> QED BY <2>1, <3>1 DEF Contract!vars, View
    <2>3. CASE ~pumpEnded
        <3>1. Contract!TurnNews /\ Contract!ApprovalNews
            BY <1>0, <1>3, <2>3, TurnNews, DialogNews
        <3> QED BY <2>1, <2>3, <3>1 DEF Contract!Next, Contract!Tell
    <2> QED BY <2>2, <2>3
<1> QED BY <1>1, <1>2, <1>3

\* The events keep the contract of a session, step by step: turns one at a time
\* while pi lives, a dialog settled once however Resolve, its timer, the
\* interrupt and the end of the run meet, nothing told as the channel ends.
THEOREM EventsKeepContract == Spec => KeepsContract
BY InitContract, SessionInvHolds, NextContract, PTL DEF Spec, KeepsContract, Contract!Spec

-------------------------------------------------------------------------------
(* A turn that is open has a run, or a prompt on whose answer it ends.     *)

\* A run's records are followed by the end of the run.
Followed(s) ==
    \A i \in 1..Len(s) : s[i] \in {AgentStart, Output} => \E j \in 1..Len(s) : j > i /\ s[j] = Settled

LEMMA AppendFollowed ==
    ASSUME NEW S, NEW s \in Seq(S), NEW e \in S, e \notin {AgentStart, Output}, Followed(s) \/ e = Settled
    PROVE  Followed(Append(s, e))
<1>1. /\ Len(s) \in Nat /\ Len(Append(s, e)) = Len(s) + 1
      /\ \A i \in 1..Len(s) : Append(s, e)[i] = s[i]
      /\ Append(s, e)[Len(s) + 1] = e
    BY AppendProperties
<1>2. \A i \in 1..Len(Append(s, e)) : i \in 1..Len(s) \/ i = Len(s) + 1
    BY <1>1
<1> SUFFICES ASSUME NEW i \in 1..Len(Append(s, e)), Append(s, e)[i] \in {AgentStart, Output}
             PROVE  \E j \in 1..Len(Append(s, e)) : j > i /\ Append(s, e)[j] = Settled
    BY DEF Followed
<1>3. i \in 1..Len(s) /\ s[i] \in {AgentStart, Output}
    BY <1>1, <1>2
<1>4. CASE e = Settled
    BY <1>1, <1>3, <1>4
<1>5. CASE Followed(s)
    <2>1. PICK j \in 1..Len(s) : j > i /\ s[j] = Settled
        BY <1>3, <1>5 DEF Followed
    <2> QED BY <1>1, <2>1
<1> QED BY <1>4, <1>5

LEMMA TailFollowed ==
    ASSUME NEW S, NEW s \in Seq(S), s # <<>>, Followed(s)
    PROVE  Followed(Tail(s)) /\ (Head(s) \in {AgentStart, Output} => Contains(Tail(s), Settled))
<1>1. /\ Len(s) \in Nat \ {0} /\ Head(s) = s[1] /\ Len(Tail(s)) = Len(s) - 1
      /\ \A i \in 1..Len(Tail(s)) : Tail(s)[i] = s[i + 1]
    BY EmptySeq, HeadTailProperties
<1>2. \A i \in 1..Len(Tail(s)) : i + 1 \in 1..Len(s)
    BY <1>1
<1>3. \A j \in 1..Len(s) : j > 1 => j - 1 \in 1..Len(Tail(s)) /\ Tail(s)[j - 1] = s[j]
    BY <1>1
<1>4. Followed(Tail(s))
    <2> SUFFICES ASSUME NEW i \in 1..Len(Tail(s)), Tail(s)[i] \in {AgentStart, Output}
                 PROVE  \E j \in 1..Len(Tail(s)) : j > i /\ Tail(s)[j] = Settled
        BY DEF Followed
    <2>1. PICK j \in 1..Len(s) : j > i + 1 /\ s[j] = Settled
        BY <1>1, <1>2 DEF Followed
    <2> QED BY <1>3, <2>1
<1>5. Head(s) \in {AgentStart, Output} => Contains(Tail(s), Settled)
    <2> SUFFICES ASSUME Head(s) \in {AgentStart, Output} PROVE Contains(Tail(s), Settled)
        OBVIOUS
    <2>1. PICK j \in 1..Len(s) : j > 1 /\ s[j] = Settled
        BY <1>1 DEF Followed
    <2> QED BY <1>3, <2>1 DEF Contains
<1> QED BY <1>4, <1>5

\* Outside pi nothing of it changes but its streams.
LEMMA SessionLeavesPi ==
    ASSUME [Next]_vars, ~Pi
    PROVE  /\ UNCHANGED <<preparing, runner, run, deferred, compaction>>
           /\ UNCHANGED wire \/ \E r : Reads(r)
<1>1. CASE ReadLoop
    BY <1>1 DEF ReadLoop, ReadStart, ReadOutput, ReadSettled, ReadDialog, ReadResponse, StreamDone, Reads
<1>2. CASE \E p \in Prompts : PromptCheck(p) \/ PromptOpen(p) \/ CompactOpen(p) \/ Goroutine(p)
    BY <1>2 DEF PromptCheck, PromptOpen, CompactOpen, Goroutine, PromptSend, Refused, Accepted, AskState, StateKnown,
          GiveUp, CompactAnswered, AnswerLost, piVars, piButStdin
<1>3. CASE \/ \E d \in Dialogs : Resolve(d) \/ AnswerDialog(d) \/ TellResolved(d) \/ TimerFires(d) \/ TimerRuns(d)
           \/ Interrupt \/ CallClose \/ CallKill \/ Ending \/ UNCHANGED vars
    BY <1>3 DEF Resolve, AnswerDialog, TellResolved, TimerFires, TimerRuns, Interrupt, CallClose, CallKill, Ending,
          CallReturns, Reaped, WatchReports, WatchEnds, vars, piVars, piButStdin
<1> QED BY <1>1, <1>2, <1>3 DEF Next

\* The answers of pi: to a command it took or prepared, to a compaction, to a
\* question for its state.
LEMMA AnswersWritten ==
    ASSUME PiTypes, [Next]_vars, NEW p \in Prompts, NEW a \in Answers,
           Contains(wire', Response(p, a)), ~Contains(wire, Response(p, a))
    PROVE  \/ a \in {"accepted", "refused"} /\ (TakesPrompt(p) \/ TakesSteer(p) \/ TakesCompact(p) \/ Prepared(p))
           \/ a \in {"accepted", "refused"} /\ Compacted /\ p = compaction
           \/ a \in States /\ TakesGetState(p) /\ (a = "busy" => run # "none") /\ (a = "idle" => run = "none")
<1>0. ASSUME NEW r \in Records, Writes(r) PROVE r = Response(p, a)
    BY <1>0, WritesOne DEF PiTypes
<1>1. Pi
    <2>1. ASSUME NEW r, Reads(r) PROVE FALSE
        BY <2>1, ReadsOne DEF PiTypes
    <2> QED BY <2>1, SessionLeavesPi
<1>2. ~UNCHANGED wire
    OBVIOUS
<1>3. ASSUME NEW q \in Prompts, NEW b \in Answers, Writes(Response(q, b)) PROVE q = p /\ b = a
    <2>1. Response(q, b) = Response(p, a)
        BY <1>0, <1>3, RecordTypes
    <2> QED BY <2>1, RecordsDiffer
<1>4. ASSUME NEW q \in Prompts, TakesPrompt(q) PROVE q = p /\ a \in {"accepted", "refused"}
    <2>1. Writes(Response(q, "accepted")) \/ Writes(Response(q, "refused"))
        BY <1>2, <1>4 DEF TakesPrompt
    <2> QED BY <1>3, <2>1 DEF Answers
<1>5. ASSUME NEW q \in Prompts, TakesSteer(q) \/ TakesCompact(q) \/ Prepared(q)
      PROVE  q = p /\ a \in {"accepted", "refused"}
    <2>1. Writes(Response(q, "accepted")) \/ Writes(Response(q, "refused"))
        BY <1>2, <1>5 DEF TakesSteer, TakesCompact, Prepared
    <2> QED BY <1>3, <2>1 DEF Answers
<1>6. ASSUME NEW q \in Prompts, TakesGetState(q)
      PROVE  q = p /\ a \in States /\ (a = "busy" => run # "none") /\ (a = "idle" => run = "none")
    <2>1. CASE Writes(Response(q, "idle")) /\ run = "none"
        BY <1>3, <2>1 DEF Answers, States
    <2>2. CASE Writes(Response(q, "busy")) /\ run # "none"
        BY <1>3, <2>2 DEF Answers, States
    <2>3. CASE Writes(Response(q, "compacting"))
        BY <1>3, <2>3 DEF Answers, States
    <2> QED BY <1>6, <2>1, <2>2, <2>3, StateWritten
<1>7. CASE Compacted
    <2>1. compaction \in Prompts
        BY <1>7 DEF Compacted, PiTypes
    <2>2. PICK q \in Prompts : q = compaction
        BY <2>1
    <2>3. PICK b \in {"accepted", "refused"} : Writes(Response(compaction, b))
        BY <1>7 DEF Compacted
    <2>4. Writes(Response(q, b)) /\ b \in Answers
        BY <2>2, <2>3 DEF Writes, Answers
    <2> QED BY <1>3, <1>7, <2>2, <2>4
<1>8. ~(RunStarts \/ Speaks \/ Settles \/ CompactionSettles)
    BY <1>0, RecordTypes, RecordsDiffer DEF RunStarts, Speaks, Settles, CompactionSettles
<1>9. ~\E d \in Dialogs : Asks(d)
    BY <1>0, RecordTypes, RecordsDiffer DEF Asks
<1>10. ~(PiExits \/ \E d \in Dialogs : TakesAnswer(d) \/ Defaults(d))
    BY <1>2 DEF PiExits, TakesAnswer, Defaults
<1> QED BY <1>1, <1>4, <1>5, <1>6, <1>7, <1>8, <1>9, <1>10 DEF Pi

\* What is sent to pi on behalf of a prompt.
LEMMA CommandsSent ==
    ASSUME PiTypes, [Next]_vars, NEW p \in Prompts
    PROVE  /\ Contains(stdin', Command(p)) => Contains(stdin, Command(p)) \/ (PromptSend(p) /\ CanSend)
           /\ Contains(stdin', GetState(p)) => Contains(stdin, GetState(p)) \/ (AskState(p) /\ CanSend)
           /\ Once(stdin, Command(p)) /\ (PromptSend(p) => ~Contains(stdin, Command(p))) => Once(stdin', Command(p))
<1> DEFINE Goal ==
        /\ Contains(stdin', Command(p)) => Contains(stdin, Command(p)) \/ (PromptSend(p) /\ CanSend)
        /\ Contains(stdin', GetState(p)) => Contains(stdin, GetState(p)) \/ (AskState(p) /\ CanSend)
        /\ Once(stdin, Command(p)) /\ (PromptSend(p) => ~Contains(stdin, Command(p))) => Once(stdin', Command(p))
<1> USE CommandsDiffer, RecordTypes DEF PiTypes
<1>1. ASSUME NEW ds \in SUBSET Parked, Withdraw(ds) PROVE Goal
    <2>1. ds \in SUBSET Dialogs
        BY ParkedAreDialogs
    <2> QED BY <1>1, <2>1, WithdrawSends
<1>2. ASSUME NEW d \in Dialogs, AnswerDialog(d) PROVE Goal
    <2>1. Send(<<Answer(d)>>) /\ Answer(d) \in Commands
        BY <1>2 DEF AnswerDialog
    <2> QED BY <2>1, SendsOne
<1>3. ASSUME NEW c, Takes(c) PROVE Goal
    BY <1>3, TakesOne
<1>4. ASSUME NEW q \in Prompts, PromptSend(q) PROVE Goal
    <2>1. Send(<<Command(q)>>) /\ Command(q) \in Commands
        BY <1>4 DEF PromptSend
    <2> QED BY <1>4, <2>1, SendsOne
<1>5. ASSUME NEW q \in Prompts, AskState(q) PROVE Goal
    <2>1. Send(<<GetState(q)>>) /\ GetState(q) \in Commands
        BY <1>5 DEF AskState
    <2> QED BY <1>5, <2>1, SendsOne
<1>6. CASE UNCHANGED stdin
    BY <1>6
<1> QED BY <1>1, <1>2, <1>3, <1>4, <1>5, <1>6, StdinSteps DEF TakesAnswer

\* pi prepares, compacts for and runs what it took.
LEMMA PiTakes ==
    ASSUME [Next]_vars, NEW p \in Prompts
    PROVE  /\ p \in preparing' => p \in preparing \/ (TakesPrompt(p) /\ run = "none" /\ compaction = Nobody)
           /\ p = compaction' => p = compaction \/ TakesCompact(p) \/ p = Nobody
           /\ p = deferred' => p = deferred \/ (TakesPrompt(p) /\ kind[p] = "steering_prompt") \/ p = Nobody
           /\ p = runner' => p = runner \/ Prepared(p) \/ (Settles /\ p = deferred)
<1>1. CASE Pi
    BY <1>1 DEF Pi, TakesPrompt, TakesSteer, TakesCompact, Prepared, TakesGetState, RunStarts, Speaks, Settles,
          CompactionSettles, Compacted, PiExits, Asks, TakesAnswer, Defaults
<1> QED BY <1>1, SessionLeavesPi

\* How one call of Prompt goes on.
SameCommand(p) == kind'[p] = kind[p] /\ turn'[p] = turn[p]
Stays(p) == call'[p] = call[p] /\ SameCommand(p)
IsAnswered(p) ==
    \E a \in Answers : Contains(wire, Response(p, a)) /\ call[p] \in {"sent", "asking"} /\ call'[p] = a /\ SameCommand(p)
IsChecked(p) ==
    /\ call[p] = "new" /\ call'[p] \in {"checked", "gone"}
    /\ kind'[p] \in {"prompt", "compact"} /\ turn'[p] = turn[p]
IsOpened(p) ==
    /\ PromptOpen(p) /\ call[p] = "checked" /\ call'[p] = "opened" /\ kind[p] = "prompt"
    /\ kind'[p] \in {"prompt", "steering_prompt", "steer"} /\ (kind'[p] = "prompt" <=> ~turnActive)
    /\ turn'[p] = turnIndex'
IsOpenedToCompact(p) ==
    /\ CompactOpen(p)
    /\ call[p] = "checked" /\ kind[p] = "compact" /\ kind'[p] = "compact"
    /\ \/ turnActive /\ call'[p] = "gone" /\ turn'[p] = turn[p]
       \/ ~turnActive /\ call'[p] = "opened" /\ turn'[p] = turnIndex'
GoesOn(p) ==
    /\ SameCommand(p)
    /\ \/ PromptSend(p) /\ call[p] = "opened" /\ call'[p] = (IF CanSend THEN "sent" ELSE "gone")
       \/ Refused(p) /\ call[p] = "refused" /\ call'[p] = "gone" /\ kind[p] # "compact"
       \/ Accepted(p) /\ call[p] = "accepted" /\ kind[p] # "compact"
                      /\ call'[p] = (IF StillIts(p) /\ ~compacting THEN "checking" ELSE "gone")
       \/ AskState(p) /\ call[p] = "checking" /\ call'[p] = (IF CanSend THEN "asking" ELSE "gone")
       \/ StateKnown(p) /\ call[p] \in States
                        /\ call'[p] = (IF call[p] = "compacting" /\ StillIts(p) THEN "gave_up" ELSE "gone")
       \/ GiveUp(p) /\ call[p] = "asking" /\ call'[p] = "gave_up"
       \/ CompactAnswered(p) /\ call[p] \in {"accepted", "refused"} /\ call'[p] = "gone" /\ kind[p] = "compact"
       \/ AnswerLost(p) /\ call[p] \in {"sent", "asking"} /\ call'[p] = "gone" /\ stream \in {"done", "exited"}

LEMMA GoesTo ==
    ASSUME CallTypes, NEW p \in Prompts, NEW from, NEW to, Goes(p, from, to)
    PROVE  /\ call[p] \in from /\ call'[p] = to
           /\ \A q \in Prompts : q # p => call'[q] = call[q]
BY DEF Goes, CallTypes

LEMMA Moves ==
    ASSUME TypeOK, [Next]_vars, NEW p \in Prompts
    PROVE  \/ Stays(p) \/ IsAnswered(p) \/ IsChecked(p) \/ IsOpened(p) \/ IsOpenedToCompact(p) \/ GoesOn(p)
<1>0. CallTypes /\ PiTypes
    BY TypesAre
<1>1. CASE UNCHANGED callVars
    BY <1>1 DEF callVars, Stays, SameCommand
<1>2. ASSUME NEW q \in Prompts, ReadResponse(q) PROVE Stays(p) \/ IsAnswered(p)
    <2>1. PICK a \in Answers :
             /\ Reads(Response(q, a))
             /\ call' = IF call[q] \in {"sent", "asking"} THEN [call EXCEPT ![q] = a] ELSE call
        BY <1>2 DEF ReadResponse
    <2>2. SameCommand(p)
        BY <1>2 DEF ReadResponse, SameCommand
    <2>3. Contains(wire, Response(q, a))
        BY <1>0, <2>1, ReadsOne DEF PiTypes
    <2>4. CASE q = p /\ call[q] \in {"sent", "asking"}
        BY <1>0, <2>1, <2>2, <2>3, <2>4 DEF IsAnswered, CallTypes
    <2>5. CASE ~(q = p /\ call[q] \in {"sent", "asking"})
        <3>1. call'[p] = call[p]
            BY <1>0, <2>1, <2>5 DEF CallTypes
        <3> QED BY <2>2, <3>1 DEF Stays
    <2> QED BY <2>4, <2>5
<1>3. ASSUME NEW q \in Prompts, PromptCheck(q) PROVE Stays(p) \/ IsChecked(p)
    <2>1. PICK k \in {"prompt", "compact"} : kind' = [kind EXCEPT ![q] = k]
        BY <1>3 DEF PromptCheck
    <2>2. turn' = turn
        BY <1>3 DEF PromptCheck
    <2>3. CASE q = p
        BY <1>0, <1>3, <2>1, <2>2, <2>3 DEF PromptCheck, Goes, IsChecked, CallTypes
    <2>4. CASE q # p
        BY <1>0, <1>3, <2>1, <2>2, <2>4 DEF PromptCheck, Goes, Stays, SameCommand, CallTypes
    <2> QED BY <2>3, <2>4
<1>4. ASSUME NEW q \in Prompts, PromptOpen(q) PROVE Stays(p) \/ IsOpened(p)
    <2>1. CASE q = p
        BY <1>0, <1>4, <2>1 DEF PromptOpen, Goes, IsOpened, CallTypes
    <2>2. CASE q # p
        BY <1>0, <1>4, <2>2 DEF PromptOpen, Goes, Stays, SameCommand, CallTypes
    <2> QED BY <2>1, <2>2
<1>5. ASSUME NEW q \in Prompts, CompactOpen(q) PROVE Stays(p) \/ IsOpenedToCompact(p)
    <2>1. CASE q = p
        BY <1>0, <1>5, <2>1 DEF CompactOpen, Goes, IsOpenedToCompact, CallTypes
    <2>2. CASE q # p
        BY <1>0, <1>5, <2>2 DEF CompactOpen, Goes, Stays, SameCommand, CallTypes
    <2> QED BY <2>1, <2>2
<1>6. ASSUME NEW q \in Prompts, Goroutine(q) PROVE Stays(p) \/ GoesOn(p)
    <2>1. SameCommand(p)
        BY <1>6 DEF Goroutine, PromptSend, Refused, Accepted, AskState, StateKnown, GiveUp, CompactAnswered,
              AnswerLost, SameCommand
    <2>2. CASE q # p
        <3>1. call'[p] = call[p]
            BY <1>0, <1>6, <2>2 DEF Goroutine, PromptSend, Refused, Accepted, AskState, StateKnown, GiveUp,
                  CompactAnswered, AnswerLost, Goes, CallTypes
        <3> QED BY <2>1, <3>1 DEF Stays
    <2>3. CASE q = p
        <3> USE <1>0, <1>6, <2>1, <2>3 DEF GoesOn, Goes, CallTypes
        <3>1. CASE PromptSend(p)
            BY <3>1 DEF PromptSend
        <3>2. CASE Refused(p)
            BY <3>2 DEF Refused
        <3>3. CASE Accepted(p)
            BY <3>3 DEF Accepted
        <3>4. CASE AskState(p)
            BY <3>4 DEF AskState
        <3>5. CASE StateKnown(p)
            BY <3>5 DEF StateKnown
        <3>6. CASE GiveUp(p)
            BY <3>6 DEF GiveUp
        <3>7. CASE CompactAnswered(p)
            BY <3>7 DEF CompactAnswered
        <3>8. CASE AnswerLost(p)
            BY <3>8 DEF AnswerLost
        <3> QED BY <1>6, <2>3, <3>1, <3>2, <3>3, <3>4, <3>5, <3>6, <3>7, <3>8 DEF Goroutine
    <2> QED BY <2>2, <2>3
<1> QED BY <1>1, <1>2, <1>3, <1>4, <1>5, <1>6, CallSteps

\* pi holds something of a prompt, or has answered it: only of one that was sent.
Sent(p) == call[p] \notin {"new", "checked", "opened"}
AtPi(p) ==
    \/ Contains(stdin, Command(p)) \/ Contains(stdin, GetState(p))
    \/ p \in preparing \/ p = compaction
    \/ \E a \in Answers : Contains(wire, Response(p, a))
SentFirst == \A p \in Prompts : AtPi(p) => Sent(p)

\* Nobody asks for the state on behalf of /compact.
AsksState(p) ==
    \/ call[p] \in States \cup {"checking", "asking", "gave_up"}
    \/ Contains(stdin, GetState(p))
    \/ \E a \in States : Contains(wire, Response(p, a))
StateIsOfPrompts == \A p \in Prompts : AsksState(p) => kind[p] # "compact"

LEMMA MovesOn ==
    ASSUME TypeOK, [Next]_vars, NEW p \in Prompts
    PROVE  /\ Sent(p) => Sent(p)' /\ SameCommand(p)
           /\ Sent(p)' => Sent(p) \/ PromptSend(p) \/ call'[p] = "gone"
           /\ PromptSend(p) => ~Sent(p) /\ Sent(p)'
           /\ AskState(p) => Sent(p) /\ call[p] = "checking"
<1>1. CallTypes
    BY TypesAre
<1>2. Sent(p) => Sent(p)' /\ SameCommand(p)
    BY Moves DEF Sent, Stays, IsAnswered, IsChecked, IsOpened, IsOpenedToCompact, GoesOn, Answers, States
<1>3. Sent(p)' => Sent(p) \/ PromptSend(p) \/ call'[p] = "gone"
    BY Moves DEF Sent, Stays, IsAnswered, IsChecked, IsOpened, IsOpenedToCompact, GoesOn, Answers, States
<1>4. PromptSend(p) => ~Sent(p) /\ Sent(p)'
    BY <1>1 DEF PromptSend, Goes, Sent, CallTypes
<1>5. AskState(p) => Sent(p) /\ call[p] = "checking"
    BY DEF AskState, Goes, Sent
<1> QED BY <1>2, <1>3, <1>4, <1>5

\* What pi holds of a prompt it held before, or it is being sent.
LEMMA AtPiSteps ==
    ASSUME TypeOK, [Next]_vars, NEW p \in Prompts, AtPi(p)'
    PROVE  AtPi(p) \/ PromptSend(p) \/ AskState(p)
<1>0. PiTypes
    BY TypesAre
<1>1. ASSUME Contains(stdin', Command(p)) \/ Contains(stdin', GetState(p)) PROVE AtPi(p) \/ PromptSend(p) \/ AskState(p)
    BY <1>0, <1>1, CommandsSent DEF AtPi
<1>2. ASSUME NEW c, Takes(c), c \in {Command(p), GetState(p)} PROVE AtPi(p)
    BY <1>0, <1>2, TakesOne DEF PiTypes, AtPi
<1>3. ASSUME p \in preparing' \/ p = compaction' PROVE AtPi(p)
    BY <1>2, <1>3, PiTakes, NamesAssumption DEF AtPi, TakesPrompt, TakesCompact
<1>4. ASSUME NEW a \in Answers, Contains(wire', Response(p, a)) PROVE AtPi(p)
    BY <1>0, <1>2, <1>4, AnswersWritten DEF AtPi, TakesPrompt, TakesSteer, TakesCompact, Prepared, TakesGetState
<1> QED BY <1>1, <1>3, <1>4 DEF AtPi

LEMMA NextSentFirst == TypeOK /\ SentFirst /\ [Next]_vars => SentFirst'
<1> SUFFICES ASSUME TypeOK, SentFirst, [Next]_vars, NEW p \in Prompts, AtPi(p)' PROVE Sent(p)'
    BY DEF SentFirst
<1> QED BY AtPiSteps, MovesOn DEF SentFirst

LEMMA NextStateIsOfPrompts ==
    TypeOK /\ SentFirst /\ StateIsOfPrompts /\ [Next]_vars => StateIsOfPrompts'
<1> SUFFICES ASSUME TypeOK, SentFirst, StateIsOfPrompts, [Next]_vars, NEW p \in Prompts, AsksState(p)'
             PROVE  kind'[p] # "compact"
    BY DEF StateIsOfPrompts
<1>0. PiTypes
    BY TypesAre
<1>1. Sent(p)
    <2>1. CASE call'[p] \in States \cup {"checking", "asking", "gave_up"}
        BY <2>1, Moves DEF Sent, Stays, IsAnswered, IsChecked, IsOpened, IsOpenedToCompact, GoesOn, States
    <2>2. CASE Contains(stdin', GetState(p))
        BY <1>0, <2>2, CommandsSent, MovesOn DEF SentFirst, AtPi
    <2>3. ASSUME NEW a \in States, Contains(wire', Response(p, a)) PROVE Sent(p)
        <3>1. a \in Answers /\ a \notin {"accepted", "refused"}
            BY DEF Answers, States
        <3>2. CASE Contains(wire, Response(p, a))
            BY <3>1, <3>2 DEF SentFirst, AtPi
        <3>3. CASE ~Contains(wire, Response(p, a))
            <4>1. TakesGetState(p)
                BY <1>0, <2>3, <3>1, <3>3, AnswersWritten
            <4>2. Contains(stdin, GetState(p))
                BY <1>0, <4>1, TakesOne DEF TakesGetState, PiTypes
            <4> QED BY <4>2 DEF SentFirst, AtPi
        <3> QED BY <3>2, <3>3
    <2> QED BY <2>1, <2>2, <2>3 DEF AsksState
<1>2. kind'[p] = kind[p]
    BY <1>1, MovesOn DEF SameCommand
<1>3. AsksState(p) \/ kind[p] # "compact"
    <2>1. CASE call'[p] \in States \cup {"checking", "asking", "gave_up"}
        <3>1. Stays(p) \/ IsAnswered(p) \/ GoesOn(p)
            BY <1>1, Moves DEF Sent, IsChecked, IsOpened, IsOpenedToCompact
        <3>2. CASE Stays(p)
            BY <2>1, <3>2 DEF Stays, AsksState
        <3>3. CASE IsAnswered(p)
            BY <2>1, <3>3 DEF IsAnswered, AsksState, Answers, States
        <3>4. CASE GoesOn(p)
            BY <2>1, <3>4 DEF GoesOn, AsksState, States
        <3> QED BY <3>1, <3>2, <3>3, <3>4
    <2>2. CASE Contains(stdin', GetState(p))
        BY <1>0, <2>2, CommandsSent, MovesOn DEF AsksState
    <2>3. ASSUME NEW a \in States, Contains(wire', Response(p, a)) PROVE AsksState(p)
        <3>1. a \in Answers /\ a \notin {"accepted", "refused"}
            BY DEF Answers, States
        <3>2. CASE Contains(wire, Response(p, a))
            BY <3>2 DEF AsksState
        <3>3. CASE ~Contains(wire, Response(p, a))
            <4>1. TakesGetState(p)
                BY <1>0, <2>3, <3>1, <3>3, AnswersWritten
            <4>2. Contains(stdin, GetState(p))
                BY <1>0, <4>1, TakesOne DEF TakesGetState, PiTypes
            <4> QED BY <4>2 DEF AsksState
        <3> QED BY <3>2, <3>3
    <2> QED BY <2>1, <2>2, <2>3 DEF AsksState
<1> QED BY <1>2, <1>3 DEF StateIsOfPrompts

\* A run ends with agent_settled, also one of which nothing was read yet.
RunsAreFollowed == run = "going" \/ Followed(wire)
HasRun == run # "none" \/ Contains(wire, Settled)

LEMMA RunSteps ==
    ASSUME TypeOK, [Next]_vars
    PROVE  \/ UNCHANGED <<run, wire>>
           \/ UNCHANGED run /\ (ReadStart \/ ReadOutput \/ ReadSettled)
           \/ UNCHANGED run /\ \E r \in Records \ {AgentStart, Output, Settled} : Reads(r)
           \/ UNCHANGED run /\ \E r \in Records \ {AgentStart, Output} : Writes(r)
           \/ run = "none" /\ run' = "starting" /\ \E r \in Records \ {AgentStart, Output} : Writes(r)
           \/ run' = "going" /\ wire' \in Seq(Records) /\ \A x : Contains(wire, x) => Contains(wire', x)
           \/ Settles
<1>0. PiTypes
    BY TypesAre
<1> USE RecordTypes, RecordsDiffer
<1>1. ASSUME NEW p \in Prompts, NEW a \in Answers, Writes(Response(p, a))
      PROVE  \E r \in Records \ {AgentStart, Output} : Writes(r)
    BY <1>1
<1>2. ASSUME NEW p \in Prompts, TakesPrompt(p) \/ TakesSteer(p) \/ TakesCompact(p)
      PROVE  UNCHANGED run /\ (UNCHANGED wire \/ \E r \in Records \ {AgentStart, Output} : Writes(r))
    <2>1. UNCHANGED wire \/ Writes(Response(p, "accepted")) \/ Writes(Response(p, "refused"))
        BY <1>2 DEF TakesPrompt, TakesSteer, TakesCompact
    <2>2. UNCHANGED run
        BY <1>2 DEF TakesPrompt, TakesSteer, TakesCompact
    <2> QED BY <1>1, <2>1, <2>2 DEF Answers
<1>3. ASSUME NEW p \in Prompts, Prepared(p)
      PROVE  (UNCHANGED run \/ (run = "none" /\ run' = "starting")) /\ \E r \in Records \ {AgentStart, Output} : Writes(r)
    <2>1. Writes(Response(p, "accepted")) \/ Writes(Response(p, "refused"))
        BY <1>3 DEF Prepared
    <2>2. UNCHANGED run \/ (run = "none" /\ run' = "starting")
        BY <1>3 DEF Prepared
    <2> QED BY <1>1, <2>1, <2>2 DEF Answers
<1>4. ASSUME NEW p \in Prompts, TakesGetState(p)
      PROVE  UNCHANGED run /\ \E r \in Records \ {AgentStart, Output} : Writes(r)
    <2>1. Writes(Response(p, "idle")) \/ Writes(Response(p, "busy")) \/ Writes(Response(p, "compacting"))
        BY <1>4, StateWritten
    <2>2. UNCHANGED run
        BY <1>4 DEF TakesGetState
    <2> QED BY <1>1, <2>1, <2>2 DEF Answers, States
<1>5. CASE Compacted
    <2>1. compaction \in Prompts
        BY <1>0, <1>5 DEF Compacted, PiTypes
    <2>2. PICK p \in Prompts : p = compaction
        BY <2>1
    <2>3. PICK a \in {"accepted", "refused"} : Writes(Response(compaction, a))
        BY <1>5 DEF Compacted
    <2>4. Writes(Response(p, a)) /\ a \in Answers
        BY <2>2, <2>3 DEF Writes, Answers
    <2>5. UNCHANGED run
        BY <1>5 DEF Compacted
    <2> QED BY <1>1, <2>4, <2>5
<1>6. CASE CompactionSettles
    <2>1. Writes(Settled) /\ Settled \notin {AgentStart, Output} /\ UNCHANGED run
        BY <1>6 DEF CompactionSettles
    <2> QED BY <2>1
<1>7. ASSUME NEW d \in Dialogs, Asks(d)
      PROVE  UNCHANGED run /\ \E r \in Records \ {AgentStart, Output} : Writes(r)
    BY <1>7 DEF Asks
<1>8. CASE RunStarts \/ Speaks
    <2>1. run' = "going" /\ \E r \in Records : Writes(r)
        BY <1>8 DEF RunStarts, Speaks
    <2> QED BY <1>0, <2>1, WritesOne DEF PiTypes
<1>9. CASE PiExits \/ \E d \in Dialogs : TakesAnswer(d) \/ Defaults(d)
    BY <1>9 DEF PiExits, TakesAnswer, Defaults
<1>10. CASE Pi
    BY <1>2, <1>3, <1>4, <1>5, <1>6, <1>7, <1>8, <1>9, <1>10 DEF Pi
<1>11. CASE ~Pi
    <2>1. UNCHANGED run
        BY <1>11, SessionLeavesPi
    <2>2. CASE UNCHANGED wire
        BY <2>1, <2>2
    <2>3. CASE ~UNCHANGED wire
        <3>1. ReadLoop
            BY <1>11, <2>3 DEF Next, PromptCheck, PromptOpen, CompactOpen, Goroutine, PromptSend, Refused, Accepted,
                  AskState, StateKnown, GiveUp, CompactAnswered, AnswerLost, piVars, piButStdin, Resolve, AnswerDialog,
                  TellResolved, TimerFires, TimerRuns, Interrupt, CallClose, CallKill, Ending, CallReturns, Reaped,
                  WatchReports, WatchEnds, vars
        <3>2. ~StreamDone
            BY <2>3 DEF StreamDone
        <3>3. ASSUME NEW d \in Dialogs, ReadDialog(d)
              PROVE  \E r \in Records \ {AgentStart, Output, Settled} : Reads(r)
            BY <3>3 DEF ReadDialog
        <3>4. ASSUME NEW p \in Prompts, ReadResponse(p)
              PROVE  \E r \in Records \ {AgentStart, Output, Settled} : Reads(r)
            BY <3>4 DEF ReadResponse
        <3> QED BY <2>1, <3>1, <3>2, <3>3, <3>4 DEF ReadLoop
    <2> QED BY <2>2, <2>3
<1> QED BY <1>10, <1>11

LEMMA NextRunsAreFollowed == TypeOK /\ RunsAreFollowed /\ [Next]_vars => RunsAreFollowed'
<1> SUFFICES ASSUME TypeOK, RunsAreFollowed, [Next]_vars PROVE RunsAreFollowed'
    OBVIOUS
<1>0. wire \in Seq(Records)
    BY DEF TypeOK
<1>1. ASSUME NEW r, Reads(r), Followed(wire) PROVE Followed(wire')
    BY <1>0, <1>1, TailFollowed DEF Reads
<1>2. ASSUME NEW r \in Records, Writes(r), r \notin {AgentStart, Output}, Followed(wire) \/ r = Settled
      PROVE  Followed(wire')
    BY <1>0, <1>2, AppendFollowed DEF Writes
<1>3. CASE UNCHANGED <<run, wire>>
    BY <1>3 DEF RunsAreFollowed
<1>4. CASE UNCHANGED run /\ \E r : Reads(r)
    BY <1>1, <1>4 DEF RunsAreFollowed
<1>5. CASE UNCHANGED run /\ \E r \in Records \ {AgentStart, Output} : Writes(r)
    BY <1>2, <1>5 DEF RunsAreFollowed
<1>6. CASE run = "none" /\ \E r \in Records \ {AgentStart, Output} : Writes(r)
    BY <1>2, <1>6 DEF RunsAreFollowed
<1>7. CASE run' = "going"
    BY <1>7 DEF RunsAreFollowed
<1>8. CASE Settles
    BY <1>2, <1>8, RecordTypes, RecordsDiffer DEF Settles, RunsAreFollowed
<1>9. ReadStart \/ ReadOutput \/ ReadSettled => \E r : Reads(r)
    BY DEF ReadStart, ReadOutput, ReadSettled
<1> QED BY <1>3, <1>4, <1>5, <1>6, <1>7, <1>8, <1>9, RunSteps

LEMMA RunStays ==
    ASSUME TypeOK, [Next]_vars, HasRun, ~ReadSettled
    PROVE  HasRun'
<1>0. wire \in Seq(Records)
    BY DEF TypeOK
<1>1. CASE UNCHANGED <<run, wire>>
    BY <1>1 DEF HasRun
<1>2. ASSUME UNCHANGED run, NEW r, Reads(r), r # Settled PROVE HasRun'
    BY <1>0, <1>2, ReadsOne DEF HasRun
<1>3. ASSUME UNCHANGED run, NEW r \in Records, Writes(r) PROVE HasRun'
    BY <1>0, <1>3, WritesOne DEF HasRun
<1>4. CASE run' = "starting" \/ run' = "going"
    BY <1>4 DEF HasRun
<1>5. CASE Settles
    BY <1>0, <1>5, WritesOne, RecordTypes DEF HasRun, Settles
<1>6. UNCHANGED run /\ (ReadStart \/ ReadOutput) => HasRun'
    BY <1>2, RecordsDiffer DEF ReadStart, ReadOutput
<1> QED BY <1>1, <1>2, <1>3, <1>4, <1>5, <1>6, RunSteps

\* What a run said before its end has a run, or is followed by that end.
LEMMA RunOfRecord ==
    ASSUME TypeOK, RunsAreFollowed, ReadStart \/ ReadOutput
    PROVE  HasRun'
<1>1. UNCHANGED run /\ wire # <<>> /\ wire' = Tail(wire) /\ Head(wire) \in {AgentStart, Output}
    BY DEF ReadStart, ReadOutput, Reads
<1>2. wire \in Seq(Records)
    BY DEF TypeOK
<1>3. CASE run = "going"
    BY <1>1, <1>3 DEF HasRun
<1>4. CASE Followed(wire)
    BY <1>1, <1>2, <1>4, TailFollowed DEF HasRun
<1> QED BY <1>3, <1>4 DEF RunsAreFollowed

\* Who opens a turn or ends one, and who takes note of a compaction.
LEMMA CompactingSteps ==
    ASSUME [Next]_vars
    PROVE  \/ UNCHANGED compacting
           \/ \E p \in Prompts : CompactOpen(p) \/ PromptSend(p) \/ CompactAnswered(p) \/ AnswerLost(p)
<1>1. CASE Interrupt \/ ReadSettled
    BY <1>1 DEF Interrupt, ReadSettled
<1>2. CASE Pi \/ UNCHANGED vars
    BY <1>2 DEF Pi, TakesPrompt, TakesSteer, TakesCompact, Prepared, TakesGetState, RunStarts, Speaks, Settles,
          CompactionSettles, Compacted, PiExits, Asks, TakesAnswer, Defaults, piLeaves, vars
<1>3. CASE \/ StreamDone \/ ReadStart \/ ReadOutput
           \/ \E d \in Dialogs : ReadDialog(d) \/ Resolve(d) \/ AnswerDialog(d) \/ TellResolved(d)
                                 \/ TimerFires(d) \/ TimerRuns(d)
           \/ \E p \in Prompts : ReadResponse(p) \/ PromptCheck(p) \/ PromptOpen(p) \/ Refused(p) \/ Accepted(p)
                                 \/ AskState(p) \/ StateKnown(p) \/ GiveUp(p)
           \/ CallClose \/ CallKill \/ CallReturns \/ Reaped \/ WatchReports \/ WatchEnds
    BY <1>3 DEF StreamDone, ReadStart, ReadOutput, ReadDialog, Resolve, AnswerDialog, TellResolved,
          TimerFires, TimerRuns, ReadResponse, PromptCheck, PromptOpen, Refused, Accepted, AskState, StateKnown, GiveUp,
          CallClose, CallKill, CallReturns, Reaped, WatchReports, WatchEnds, piLeaves
<1> QED BY <1>1, <1>2, <1>3 DEF Next, ReadLoop, Goroutine, Ending

\* While pi can be written to, what is noted of a compaction goes with its turn.
LEMMA CompactionTakesItsTurn ==
    ASSUME TypeOK, [Next]_vars, CanSend', compacting, ~compacting'
    PROVE  ~turnActive'
<1>0. CanSend /\ stream = "up"
    BY SendsBefore DEF CanSend
<1>1. ASSUME NEW p \in Prompts, CompactOpen(p) PROVE FALSE
    BY <1>1 DEF CompactOpen
<1>2. ASSUME NEW p \in Prompts, PromptSend(p) PROVE FALSE
    BY <1>0, <1>2 DEF PromptSend
<1>3. ASSUME NEW p \in Prompts, CompactAnswered(p) PROVE ~turnActive'
    <2>1. CASE turnActive
        BY <1>3, <2>1 DEF CompactAnswered, endTurnLocked
    <2>2. CASE ~turnActive
        BY <1>3, <2>2 DEF CompactAnswered, turnVars
    <2> QED BY <2>1, <2>2
<1>4. ASSUME NEW p \in Prompts, AnswerLost(p) PROVE FALSE
    BY <1>0, <1>4 DEF AnswerLost
<1> QED BY <1>1, <1>2, <1>3, <1>4, CompactingSteps

\* A turn that is open after a step was open before it, or is a new one.
LEMMA OpenTurnSteps ==
    ASSUME TypeOK, [Next]_vars, turnActive'
    PROVE  \/ turnActive /\ UNCHANGED turnVars
           \/ turnActive /\ turnIndex' = turnIndex /\ OpensATurn
           \/ ~turnActive /\ turnIndex' = turnIndex + 1 /\ OpensATurn
<1>1. CASE UNCHANGED turnVars
    BY <1>1 DEF turnVars
<1>2. CASE OpensATurn
    BY <1>2 DEF OpensATurn, Opens
<1>3. CASE EndsTheTurn
    BY <1>3 DEF EndsTheTurn, endTurnLocked
<1> QED BY <1>1, <1>2, <1>3, TurnSteps DEF NotesCompaction

\* No call is ahead of the turn.
TurnsInOrder == \A p \in Prompts : turn[p] <= turnIndex

LEMMA NextTurnsInOrder == TypeOK /\ TurnsInOrder /\ [Next]_vars => TurnsInOrder'
<1> SUFFICES ASSUME TypeOK, TurnsInOrder, [Next]_vars, NEW p \in Prompts PROVE turn'[p] <= turnIndex'
    BY DEF TurnsInOrder
<1>1. turn[p] \in Nat /\ turnIndex \in Nat /\ turnIndex' \in Nat /\ turn[p] <= turnIndex
    BY NextTypeOK DEF TypeOK, TurnsInOrder
<1>2. turnIndex' = turnIndex \/ turnIndex' = turnIndex + 1
    BY TurnSteps DEF turnVars, OpensATurn, Opens, EndsTheTurn, endTurnLocked, NotesCompaction
<1>3. turn'[p] = turn[p] \/ turn'[p] = turnIndex'
    BY Moves DEF Stays, IsAnswered, IsChecked, IsOpened, IsOpenedToCompact, GoesOn, SameCommand
<1> QED BY <1>1, <1>2, <1>3

\* What is noted of a compaction is for its answer to clear.
CompactionIsAsked ==
    CanSend /\ compacting => \E p \in Prompts : kind[p] = "compact" /\ call[p] \notin {"new", "checked", "gone"}

LEMMA NextCompactionIsAsked ==
    TypeOK /\ StateIsOfPrompts /\ CompactionIsAsked /\ [Next]_vars => CompactionIsAsked'
<1> SUFFICES ASSUME TypeOK, StateIsOfPrompts, CompactionIsAsked, [Next]_vars, CanSend', compacting'
             PROVE  \E p \in Prompts : kind'[p] = "compact" /\ call'[p] \notin {"new", "checked", "gone"}
    BY DEF CompactionIsAsked
<1>0. CanSend /\ stream = "up"
    BY SendsBefore DEF CanSend
<1>1. CASE compacting
    <2>1. PICK p \in Prompts : kind[p] = "compact" /\ call[p] \notin {"new", "checked", "gone"}
        BY <1>0, <1>1 DEF CompactionIsAsked
    <2>2. ~CompactAnswered(p) /\ ~AsksState(p)
        BY <2>1 DEF CompactAnswered, StateIsOfPrompts
    <2>3. Stays(p) \/ IsAnswered(p) \/ GoesOn(p)
        BY <2>1, Moves DEF IsChecked, IsOpened, IsOpenedToCompact
    <2>4. CASE Stays(p) \/ IsAnswered(p)
        BY <2>1, <2>4 DEF Stays, IsAnswered, SameCommand, Answers, States
    <2>5. CASE GoesOn(p)
        BY <1>0, <2>1, <2>2, <2>5 DEF GoesOn, SameCommand, AsksState, States
    <2> QED BY <2>3, <2>4, <2>5
<1>2. CASE ~compacting
    <2>1. PICK p \in Prompts : CompactOpen(p) \/ PromptSend(p) \/ CompactAnswered(p) \/ AnswerLost(p)
        BY <1>2, CompactingSteps
    <2>2. CompactOpen(p) /\ ~turnActive
        BY <1>2, <2>1 DEF CompactOpen, PromptSend, CompactAnswered, AnswerLost
    <2>3. kind[p] = "compact" /\ kind' = kind /\ call'[p] = "opened"
        BY <2>2 DEF CompactOpen, Goes, TypeOK
    <2> QED BY <2>3
<1> QED BY <1>1, <1>2

\* pi was busy when it was asked on behalf of the turn that is open: its run is
\* that turn's, and the end of it is still to be read.
BusyHasRun ==
    \A p \in Prompts :
        /\ CanSend /\ turnActive /\ turn[p] = turnIndex /\ ~compacting
        /\ Sent(p)
        /\ call[p] = "busy" \/ Contains(wire, Response(p, "busy"))
        => HasRun

LEMMA NextBusyHasRun ==
    TypeOK /\ SentFirst /\ TurnsInOrder /\ BusyHasRun /\ [Next]_vars => BusyHasRun'
<1> SUFFICES ASSUME TypeOK, SentFirst, TurnsInOrder, BusyHasRun, [Next]_vars, NEW p \in Prompts,
                    CanSend', turnActive', turn'[p] = turnIndex', ~compacting', Sent(p)',
                    call'[p] = "busy" \/ Contains(wire', Response(p, "busy"))
             PROVE  HasRun'
    BY DEF BusyHasRun
<1>0. PiTypes /\ CanSend /\ "busy" \in Answers
    BY SendsBefore, TypesAre DEF Answers, States
<1>1. ~compacting
    BY CompactionTakesItsTurn
<1>2. ASSUME Contains(wire', Response(p, "busy"))
      PROVE  Contains(wire, Response(p, "busy")) \/ (TakesGetState(p) /\ run # "none")
    BY <1>0, <1>2, AnswersWritten
<1>3. TakesGetState(p) => AtPi(p)
    BY <1>0, TakesOne DEF TakesGetState, PiTypes, AtPi
<1>4. Contains(wire, Response(p, "busy")) => AtPi(p)
    BY <1>0 DEF AtPi
<1>5. Sent(p)
    <2>1. CASE Contains(wire', Response(p, "busy"))
        BY <1>2, <1>3, <1>4, <2>1 DEF SentFirst
    <2>2. CASE call'[p] = "busy"
        BY <2>2, Moves DEF Sent, Stays, IsAnswered, IsChecked, IsOpened, IsOpenedToCompact, GoesOn
    <2> QED BY <2>1, <2>2
<1>6. turn'[p] = turn[p]
    BY <1>5, MovesOn DEF SameCommand
<1>7. turnActive /\ turn[p] = turnIndex
    <2>1. turn[p] \in Nat /\ turnIndex \in Nat /\ turn[p] <= turnIndex
        BY DEF TypeOK, TurnsInOrder
    <2>2. turnIndex' # turnIndex + 1
        BY <1>6, <2>1
    <2> QED BY <1>6, <2>2, OpenTurnSteps DEF turnVars
<1>8. ~ReadSettled
    <2>1. ASSUME ReadSettled PROVE FALSE
        BY <1>1, <1>7, <2>1 DEF ReadSettled, endTurnLocked
    <2> QED BY <2>1
<1>9. CASE TakesGetState(p) /\ run # "none"
    BY <1>9 DEF TakesGetState, HasRun
<1>10. CASE call[p] = "busy" \/ Contains(wire, Response(p, "busy"))
    BY <1>0, <1>1, <1>5, <1>7, <1>8, <1>10, RunStays DEF BusyHasRun
<1>11. call'[p] = "busy" => call[p] = "busy" \/ Contains(wire, Response(p, "busy"))
    BY <1>5, Moves DEF Sent, Stays, IsAnswered, IsChecked, IsOpened, IsOpenedToCompact, GoesOn
<1> QED BY <1>2, <1>9, <1>10, <1>11

\* A turn that is open has a run whose end is still to be read, or the prompt
\* that opened it is still on its way; unless a compaction has it, or a prompt
\* was left without knowing.
Opener(p) ==
    kind[p] = "prompt" /\ turn[p] = turnIndex /\ ~runSeen /\ call[p] \notin {"new", "checked", "gone"}
TurnHasEnd ==
    CanSend /\ turnActive /\ ~compacting /\ (\A p \in Prompts : call[p] # "gave_up")
        => HasRun \/ \E p \in Prompts : Opener(p)

LEMMA NextTurnHasEnd ==
    TypeOK /\ RunsAreFollowed /\ BusyHasRun /\ TurnHasEnd /\ [Next]_vars => TurnHasEnd'
<1> SUFFICES ASSUME TypeOK, RunsAreFollowed, BusyHasRun, TurnHasEnd, [Next]_vars,
                    CanSend', turnActive', ~compacting', \A p \in Prompts : call'[p] # "gave_up"
             PROVE  HasRun' \/ \E p \in Prompts : Opener(p)'
    BY DEF TurnHasEnd
<1>0. CanSend /\ stream = "up" /\ ~compacting
    BY SendsBefore, CompactionTakesItsTurn DEF CanSend
<1>1. \A p \in Prompts : call[p] # "gave_up"
    <2> SUFFICES ASSUME NEW p \in Prompts, call[p] = "gave_up" PROVE FALSE
        OBVIOUS
    <2> QED BY Moves DEF Stays, IsAnswered, IsChecked, IsOpened, IsOpenedToCompact, GoesOn, States
<1>2. CASE ReadStart \/ ReadOutput
    BY <1>2, RunOfRecord
<1>3. ASSUME NEW p \in Prompts, PromptOpen(p), ~turnActive PROVE Opener(p)'
    <2>1. call'[p] = "opened" /\ kind'[p] = "prompt" /\ turn'[p] = turnIndex'
        BY <1>3 DEF PromptOpen, Goes, TypeOK
    <2>2. runSeen' = FALSE
        BY <1>3 DEF PromptOpen, openTurnLocked
    <2> QED BY <2>1, <2>2 DEF Opener
<1>4. ASSUME turnActive, turnIndex' = turnIndex, runSeen' = runSeen
      PROVE  HasRun' \/ \E p \in Prompts : Opener(p)'
    <2>1. ~ReadSettled
        <3>1. ASSUME ReadSettled PROVE FALSE
            BY <1>0, <1>4, <3>1 DEF ReadSettled, endTurnLocked
        <3> QED BY <3>1
    <2>2. HasRun => HasRun'
        BY <2>1, RunStays
    <2>3. ASSUME NEW p \in Prompts, Opener(p), ~HasRun PROVE Opener(p)'
        <3>1. StillIts(p) /\ SameCommand(p) /\ kind[p] = "prompt" /\ call[p] \notin {"new", "checked", "gone"}
            <4>1. SameCommand(p)
                BY <2>3, Moves DEF Opener, Stays, IsAnswered, IsChecked, IsOpened, IsOpenedToCompact, GoesOn
            <4> QED BY <1>4, <2>3, <4>1 DEF Opener, StillIts
        <3>2. call[p] # "busy"
            BY <1>0, <1>4, <2>3 DEF BusyHasRun, Opener, Sent
        <3>3. ~Refused(p)
            BY <3>1 DEF Refused, endTurnLocked
        <3>4. StateKnown(p) => call[p] # "idle"
            BY <1>0, <3>1 DEF StateKnown, endTurnLocked
        <3>5. Stays(p) \/ IsAnswered(p) \/ GoesOn(p)
            BY <3>1, Moves DEF IsChecked, IsOpened, IsOpenedToCompact
        <3>6. call'[p] \notin {"new", "checked", "gone"}
            <4>1. CASE Stays(p) \/ IsAnswered(p)
                BY <3>1, <4>1 DEF Stays, IsAnswered, Answers, States
            <4>2. CASE GoesOn(p)
                BY <1>0, <3>1, <3>2, <3>3, <3>4, <4>2 DEF GoesOn, States
            <4> QED BY <3>5, <4>1, <4>2
        <3> QED BY <1>4, <2>3, <3>1, <3>6 DEF Opener, SameCommand
    <2> QED BY <1>0, <1>1, <1>4, <2>2, <2>3 DEF TurnHasEnd
<1>5. ASSUME NEW p \in Prompts, PromptOpen(p), turnActive
      PROVE  turnIndex' = turnIndex /\ runSeen' = runSeen
    BY <1>5, Zenon DEF PromptOpen, openTurnLocked, Opens, TypeOK
<1>6. ASSUME NEW p \in Prompts, CompactOpen(p)
      PROVE  turnActive /\ UNCHANGED turnVars
    BY <1>6 DEF CompactOpen
<1>7. turnActive /\ UNCHANGED turnVars => turnActive /\ turnIndex' = turnIndex /\ runSeen' = runSeen
    BY DEF turnVars
<1> QED BY <1>2, <1>3, <1>4, <1>5, <1>6, <1>7, OpenTurnSteps DEF OpensATurn

TurnInv ==
    /\ SentFirst /\ StateIsOfPrompts /\ RunsAreFollowed /\ TurnsInOrder
    /\ CompactionIsAsked /\ BusyHasRun /\ TurnHasEnd

LEMMA InitTurnInv == Init => TurnInv
<1> SUFFICES ASSUME Init PROVE TurnInv
    OBVIOUS
<1>1. ~\E x : Contains(wire, x) \/ Contains(stdin, x)
    BY NoneHas DEF Init
<1>2. SentFirst
    BY <1>1, NamesAssumption DEF Init, SentFirst, AtPi
<1>3. StateIsOfPrompts
    BY <1>1 DEF Init, StateIsOfPrompts, AsksState, States
<1>4. RunsAreFollowed
    BY DEF Init, RunsAreFollowed, Followed
<1>5. TurnsInOrder /\ CompactionIsAsked /\ BusyHasRun /\ TurnHasEnd
    BY DEF Init, TurnsInOrder, CompactionIsAsked, BusyHasRun, TurnHasEnd
<1> QED BY <1>2, <1>3, <1>4, <1>5 DEF TurnInv

LEMMA NextTurnInv == TypeOK /\ TurnInv /\ [Next]_vars => TurnInv'
BY NextSentFirst, NextStateIsOfPrompts, NextRunsAreFollowed, NextTurnsInOrder, NextCompactionIsAsked, NextBusyHasRun,
   NextTurnHasEnd DEF TurnInv

\* When pi runs nothing and has been heard out, no turn is left open.
THEOREM RestHasNoTurn == Spec => []RestLeavesNoTurn
<1>1. TypeOK /\ TurnInv => RestLeavesNoTurn
    <2> SUFFICES ASSUME TypeOK, TurnInv,
                        stream = "up", caller = "idle", wire = <<>>, run = "none",
                        \A p \in Prompts : call[p] \in {"new", "checked", "gone"}
                 PROVE  ~turnActive
        BY DEF RestLeavesNoTurn
    <2>1. CanSend /\ ~HasRun
        BY NoneHas DEF CanSend, HasRun
    <2>2. ~compacting
        BY <2>1 DEF TurnInv, CompactionIsAsked
    <2>3. ~\E p \in Prompts : Opener(p)
        BY DEF Opener
    <2> QED BY <2>1, <2>2, <2>3 DEF TurnInv, TurnHasEnd
<1>2. TypeOK /\ TurnInv /\ [Next]_vars => (TypeOK /\ TurnInv)'
    BY NextTypeOK, NextTurnInv
<1> QED BY <1>1, <1>2, InitTypeOK, InitTurnInv, PTL DEF Spec

-------------------------------------------------------------------------------
(* A prompt found to have been handled is of no run.                       *)

\* A command is sent once, and what pi answers it has taken and prepared.
Answered(p) ==
    \/ call[p] \in Answers \cup {"checking", "asking", "gave_up"}
    \/ Contains(stdin, GetState(p))
    \/ \E a \in Answers : Contains(wire, Response(p, a))
Idle(p) == call[p] = "idle" \/ Contains(wire, Response(p, "idle"))
TakenOnce ==
    \A p \in Prompts :
        /\ Once(stdin, Command(p))
        /\ p \in preparing => ~Contains(stdin, Command(p)) /\ kind[p] # "compact"
        /\ p = compaction => kind[p] = "compact"
        /\ p = deferred => Sent(p) /\ kind[p] = "steering_prompt"
        /\ Answered(p) /\ kind[p] # "compact" => ~Contains(stdin, Command(p)) /\ p \notin preparing
        /\ Idle(p) /\ kind[p] = "prompt" => p # runner
RunHasRunner == run = "none" => runner = Nobody

LEMMA NextRunHasRunner == TypeOK /\ RunHasRunner /\ [Next]_vars => RunHasRunner'
<1> SUFFICES ASSUME TypeOK, RunHasRunner, [Next]_vars PROVE RunHasRunner'
    OBVIOUS
<1>1. CASE Pi
    BY <1>1 DEF RunHasRunner, Pi, TakesPrompt, TakesSteer, TakesCompact, Prepared, TakesGetState, RunStarts, Speaks,
          Settles, CompactionSettles, Compacted, PiExits, Asks, TakesAnswer, Defaults
<1>2. CASE ~Pi
    BY <1>2, SessionLeavesPi DEF RunHasRunner
<1> QED BY <1>1, <1>2

\* An answer to a command is written as it is taken or after it was prepared,
\* one about the state to what was asked.
LEMMA AnsweredSteps ==
    ASSUME TypeOK, [Next]_vars, NEW p \in Prompts, Answered(p)', kind[p] # "compact"
    PROVE  \/ Answered(p)
           \/ Takes(Command(p)) /\ preparing' = preparing
           \/ p \in preparing /\ preparing' = preparing \ {p} /\ UNCHANGED stdin
           \/ p = compaction
<1>0. PiTypes
    BY TypesAre
<1>1. ASSUME NEW a \in Answers, Contains(wire', Response(p, a)), ~Contains(wire, Response(p, a))
      PROVE  \/ Answered(p)
             \/ Takes(Command(p)) /\ preparing' = preparing
             \/ p \in preparing /\ preparing' = preparing \ {p} /\ UNCHANGED stdin
             \/ p = compaction
    <2>1. CASE TakesPrompt(p)
        <3>1. ~UNCHANGED wire
            BY <1>1
        <3> QED BY <2>1, <3>1 DEF TakesPrompt
    <2>2. CASE TakesSteer(p) \/ TakesCompact(p)
        BY <2>2 DEF TakesSteer, TakesCompact
    <2>3. CASE Prepared(p)
        BY <2>3 DEF Prepared
    <2>4. CASE TakesGetState(p)
        BY <1>0, <2>4, TakesOne DEF TakesGetState, PiTypes, Answered
    <2> QED BY <1>0, <1>1, <2>1, <2>2, <2>3, <2>4, AnswersWritten
<1>2. CASE Contains(stdin', GetState(p))
    BY <1>0, <1>2, CommandsSent, MovesOn DEF Answered
<1>3. CASE call'[p] \in Answers \cup {"checking", "asking", "gave_up"}
    <2>1. Stays(p) \/ IsAnswered(p) \/ GoesOn(p)
        BY <1>3, Moves DEF IsChecked, IsOpened, IsOpenedToCompact, Answers, States
    <2>2. CASE Stays(p)
        BY <1>3, <2>2 DEF Stays, Answered
    <2>3. CASE IsAnswered(p)
        BY <2>3 DEF IsAnswered, Answered
    <2>4. CASE GoesOn(p)
        BY <1>3, <2>4 DEF GoesOn, Answered, Answers, States
    <2> QED BY <2>1, <2>2, <2>3, <2>4
<1> QED BY <1>1, <1>2, <1>3 DEF Answered

LEMMA IdleSteps ==
    ASSUME TypeOK, [Next]_vars, NEW p \in Prompts, Idle(p)'
    PROVE  Idle(p) \/ (TakesGetState(p) /\ run = "none")
<1>0. PiTypes /\ "idle" \in Answers /\ "idle" \notin {"accepted", "refused"}
    BY TypesAre DEF Answers, States
<1>1. CASE Contains(wire', Response(p, "idle"))
    BY <1>0, <1>1, AnswersWritten DEF Idle
<1>2. CASE call'[p] = "idle"
    BY <1>2, Moves DEF Idle, Stays, IsAnswered, IsChecked, IsOpened, IsOpenedToCompact, GoesOn
<1> QED BY <1>1, <1>2 DEF Idle

LEMMA NextTakenOnce ==
    TypeOK /\ SentFirst /\ TakenOnce /\ RunHasRunner /\ [Next]_vars => TakenOnce'
<1> SUFFICES ASSUME TypeOK, SentFirst, TakenOnce, RunHasRunner, [Next]_vars, NEW p \in Prompts
             PROVE  /\ Once(stdin', Command(p))
                    /\ p \in preparing' => ~Contains(stdin', Command(p)) /\ kind'[p] # "compact"
                    /\ p = compaction' => kind'[p] = "compact"
                    /\ p = deferred' => Sent(p)' /\ kind'[p] = "steering_prompt"
                    /\ Answered(p)' /\ kind'[p] # "compact" => ~Contains(stdin', Command(p)) /\ p \notin preparing'
                    /\ Idle(p)' /\ kind'[p] = "prompt" => p # runner'
    BY DEF TakenOnce
<1>0. /\ PiTypes /\ p # Nobody
      /\ AtPi(p) => Sent(p)
      /\ Once(stdin, Command(p))
      /\ p \in preparing => ~Contains(stdin, Command(p)) /\ kind[p] # "compact"
      /\ p = compaction => kind[p] = "compact"
      /\ p = deferred => Sent(p) /\ kind[p] = "steering_prompt"
      /\ Answered(p) /\ kind[p] # "compact" => ~Contains(stdin, Command(p)) /\ p \notin preparing
      /\ Idle(p) /\ kind[p] = "prompt" => p # runner
    BY TypesAre, NamesAssumption DEF SentFirst, TakenOnce
<1>1. Contains(stdin, Command(p)) \/ p \in preparing \/ p = compaction => Sent(p)
    BY <1>0 DEF AtPi
<1>2. Sent(p) => Sent(p)' /\ kind'[p] = kind[p] /\ ~PromptSend(p)
    BY MovesOn DEF SameCommand
<1>3. Takes(Command(p)) => Contains(stdin, Command(p)) /\ ~Contains(stdin', Command(p))
    BY <1>0, TakesOne DEF PiTypes
<1>4. Once(stdin', Command(p))
    BY <1>0, <1>1, <1>2, CommandsSent
<1>5. Contains(stdin', Command(p)) => Contains(stdin, Command(p)) \/ PromptSend(p)
    BY <1>0, CommandsSent
<1>6. p \in preparing' => ~Contains(stdin', Command(p)) /\ kind'[p] # "compact"
    <2>1. CASE p \in preparing
        BY <1>0, <1>1, <1>2, <1>5, <2>1
    <2>2. CASE TakesPrompt(p)
        BY <1>1, <1>2, <1>3, <2>2 DEF TakesPrompt
    <2> QED BY <2>1, <2>2, PiTakes
<1>7. p = compaction' => kind'[p] = "compact"
    <2>1. CASE p = compaction
        BY <1>0, <1>1, <1>2, <2>1
    <2>2. CASE TakesCompact(p)
        BY <1>1, <1>2, <1>3, <2>2 DEF TakesCompact
    <2> QED BY <1>0, <2>1, <2>2, PiTakes
<1>8. p = deferred' => Sent(p)' /\ kind'[p] = "steering_prompt"
    <2>1. CASE p = deferred
        BY <1>0, <1>2, <2>1
    <2>2. CASE TakesPrompt(p) /\ kind[p] = "steering_prompt"
        BY <1>1, <1>2, <1>3, <2>2 DEF TakesPrompt
    <2> QED BY <1>0, <2>1, <2>2, PiTakes
<1>9. ASSUME Answered(p)', kind'[p] # "compact" PROVE ~Contains(stdin', Command(p)) /\ p \notin preparing'
    <2>1. Sent(p) /\ kind[p] # "compact"
        <3>1. Sent(p)
            <4>1. CASE AtPi(p)' /\ ~PromptSend(p) /\ ~AskState(p)
                BY <1>0, <4>1, AtPiSteps
            <4>2. CASE AskState(p)
                BY <4>2, MovesOn
            <4>3. CASE call'[p] \in Answers \cup {"checking", "asking", "gave_up"}
                BY <4>3, Moves DEF Sent, Stays, IsAnswered, IsChecked, IsOpened, IsOpenedToCompact, GoesOn, Answers,
                      States
            <4>4. CASE PromptSend(p)
                <5>1. ~Sent(p) /\ ~AskState(p) /\ ~AtPi(p)
                    BY <1>0, <4>4, MovesOn
                <5>2. call'[p] \in {"sent", "gone"}
                    BY <4>4 DEF PromptSend, Goes, TypeOK
                <5>3. ~Contains(stdin', GetState(p))
                    BY <1>0, <5>1, CommandsSent DEF AtPi
                <5>4. ASSUME NEW a \in Answers, Contains(wire', Response(p, a)) PROVE FALSE
                    <6>1. UNCHANGED wire
                        BY <4>4 DEF PromptSend, piButStdin
                    <6> QED BY <5>1, <5>4, <6>1 DEF AtPi
                <5> QED BY <1>9, <5>2, <5>3, <5>4 DEF Answered, Answers, States
            <4> QED BY <1>9, <4>1, <4>2, <4>3, <4>4 DEF Answered, AtPi
        <3> QED BY <1>2, <1>9, <3>1
    <2>2. ~PromptSend(p) /\ p # compaction
        BY <1>0, <1>2, <2>1
    <2>3. CASE Answered(p)
        <3>1. ~Contains(stdin, Command(p)) /\ p \notin preparing
            BY <1>0, <2>1, <2>3
        <3>2. ~Takes(Command(p))
            BY <1>3, <3>1
        <3> QED BY <1>5, <2>2, <3>1, <3>2, PiTakes DEF TakesPrompt
    <2>4. CASE Takes(Command(p)) /\ preparing' = preparing
        BY <1>0, <1>3, <2>4
    <2>5. CASE p \in preparing /\ preparing' = preparing \ {p} /\ UNCHANGED stdin
        BY <1>0, <2>5
    <2> QED BY <1>9, <2>1, <2>2, <2>3, <2>4, <2>5, AnsweredSteps
<1>10. ASSUME Idle(p)', kind'[p] = "prompt" PROVE p # runner'
    <2>1. Answered(p) /\ Sent(p)
        <3>1. CASE Idle(p)
            BY <1>0, <3>1 DEF Idle, Answered, Answers, States, AtPi, Sent
        <3>2. CASE TakesGetState(p)
            BY <1>0, <3>2, TakesOne DEF TakesGetState, PiTypes, Answered, AtPi
        <3> QED BY <1>10, <3>1, <3>2, IdleSteps
    <2>2. kind[p] = "prompt"
        BY <1>2, <1>10, <2>1
    <2>3. ~Prepared(p) /\ p # deferred
        BY <1>0, <2>1, <2>2 DEF Prepared
    <2>4. p = runner' => p = runner
        BY <2>3, PiTakes
    <2>5. CASE Idle(p)
        BY <1>0, <2>2, <2>4, <2>5
    <2>6. CASE run = "none"
        BY <1>0, <2>4, <2>6 DEF RunHasRunner
    <2> QED BY <1>10, <2>5, <2>6, IdleSteps
<1> QED BY <1>4, <1>6, <1>7, <1>8, <1>9, <1>10

\* No two prompts open the same turn, and the turns are counted from one.
OpensOnce ==
    /\ turnActive => turnIndex > 0
    /\ \A p \in Prompts : /\ call[p] \in {"new", "checked"} => turn[p] = 0
                          /\ call[p] \notin {"new", "checked", "gone"} => turn[p] > 0
    /\ \A p, q \in Prompts :
          kind[p] = "prompt" /\ kind[q] = "prompt" /\ turn[p] = turn[q] /\ turn[p] > 0 => p = q

LEMMA NextOpensOnce == TypeOK /\ TurnsInOrder /\ OpensOnce /\ [Next]_vars => OpensOnce'
<1> SUFFICES ASSUME TypeOK, TurnsInOrder, OpensOnce, [Next]_vars PROVE OpensOnce'
    OBVIOUS
<1>0. /\ turnIndex \in Nat /\ turnIndex' \in Nat
      /\ \A p \in Prompts : turn[p] \in Nat /\ turn'[p] \in Nat /\ turn[p] <= turnIndex
    BY NextTypeOK DEF TypeOK, TurnsInOrder
<1>1. turnActive' => turnIndex' > 0
    <2>1. turnActive' => (turnActive /\ turnIndex' = turnIndex) \/ turnIndex' = turnIndex + 1
        BY OpenTurnSteps DEF turnVars
    <2>2. turnActive => turnIndex > 0
        BY DEF OpensOnce
    <2>3. turnIndex' = turnIndex + 1 => turnIndex' > 0
        BY <1>0
    <2> QED BY <2>1, <2>2, <2>3
<1>2. ASSUME NEW p \in Prompts, PromptOpen(p)
      PROVE  turnActive' /\ (~turnActive => turnIndex' = turnIndex + 1)
    BY <1>2 DEF PromptOpen, openTurnLocked, Opens
<1>3. ASSUME NEW p \in Prompts
      PROVE  /\ call'[p] \in {"new", "checked"} => turn'[p] = 0
             /\ call'[p] \notin {"new", "checked", "gone"} => turn'[p] > 0
    <2>1. CASE IsOpened(p)
        BY <1>1, <1>2, <2>1 DEF IsOpened
    <2>2. CASE IsOpenedToCompact(p)
        <3>1. CASE turnActive
            BY <2>2, <3>1 DEF IsOpenedToCompact
        <3>2. CASE ~turnActive
            <4>1. turnIndex' = turnIndex + 1
                BY <2>2, <3>2 DEF IsOpenedToCompact, CompactOpen, openTurnLocked, Opens
            <4> QED BY <1>0, <2>2, <3>2, <4>1 DEF IsOpenedToCompact
        <3> QED BY <3>1, <3>2
    <2>3. CASE IsChecked(p)
        BY <2>3 DEF IsChecked, OpensOnce
    <2>4. CASE Stays(p) \/ IsAnswered(p)
        BY <2>4 DEF Stays, IsAnswered, SameCommand, OpensOnce, Answers, States
    <2>5. CASE GoesOn(p)
        BY <2>5 DEF GoesOn, SameCommand, OpensOnce, States
    <2> QED BY <2>1, <2>2, <2>3, <2>4, <2>5, Moves
<1>4. ASSUME NEW p \in Prompts, kind'[p] = "prompt", turn'[p] > 0, ~IsOpened(p)
      PROVE  kind[p] = "prompt" /\ turn'[p] = turn[p]
    <2>1. ~IsChecked(p)
        BY <1>4 DEF IsChecked, OpensOnce
    <2> QED BY <1>4, <2>1, Moves DEF Stays, IsAnswered, IsOpenedToCompact, GoesOn, SameCommand
<1>5. ASSUME NEW p \in Prompts, NEW q \in Prompts, IsOpened(p), kind'[p] = "prompt",
             turn'[p] = turn'[q], p # q
      PROVE  FALSE
    <2>1. turn'[p] = turnIndex + 1
        BY <1>2, <1>5 DEF IsOpened
    <2>2. turn'[q] = turn[q]
        BY <1>5 DEF IsOpened, PromptOpen, TypeOK
    <2>3. turn[q] \in Nat /\ turn[q] <= turnIndex /\ turn'[p] = turn[q]
        BY <1>0, <1>5, <2>2
    <2> QED BY <1>0, <2>1, <2>3
<1>6. ASSUME NEW p \in Prompts, NEW q \in Prompts,
             kind'[p] = "prompt", kind'[q] = "prompt", turn'[p] = turn'[q], turn'[p] > 0
      PROVE  p = q
    <2>1. CASE IsOpened(p) \/ IsOpened(q)
        BY <1>5, <1>6, <2>1
    <2>2. CASE ~IsOpened(p) /\ ~IsOpened(q)
        BY <1>4, <1>6, <2>2 DEF OpensOnce
    <2> QED BY <2>1, <2>2
<1> QED BY <1>1, <1>3, <1>6 DEF OpensOnce

HandledInv == TypeOK /\ SentFirst /\ TurnsInOrder /\ TakenOnce /\ RunHasRunner /\ OpensOnce

LEMMA InitHandledInv == Init => HandledInv
<1> SUFFICES ASSUME Init PROVE HandledInv
    OBVIOUS
<1>1. ~(\E x : Contains(wire, x) \/ Contains(stdin, x)) /\ \A x : Once(stdin, x)
    BY NoneHas DEF Init
<1>2. TakenOnce
    BY <1>1, NamesAssumption DEF Init, TakenOnce, Answered, Idle, Answers, States
<1>3. RunHasRunner /\ OpensOnce
    BY DEF Init, RunHasRunner, OpensOnce
<1> QED BY <1>2, <1>3, InitTypeOK, InitTurnInv DEF HandledInv, TurnInv

LEMMA NextHandledInv == HandledInv /\ [Next]_vars => HandledInv'
BY NextTypeOK, NextSentFirst, NextTurnsInOrder, NextTakenOnce, NextRunHasRunner, NextOpensOnce DEF HandledInv

LEMMA HandledStep ==
    ASSUME HandledInv, [Next]_vars, NEW p \in Prompts,
           kind[p] = "prompt", call[p] \in States, call'[p] = "gone", turnActive, ~turnActive',
           NEW q \in preparing \cup ({runner} \ {Nobody})
    PROVE  kind[q] # "prompt" \/ turn[q] # turnIndex
<1> USE DEF HandledInv
<1> SUFFICES ASSUME kind[q] = "prompt", turn[q] = turnIndex PROVE FALSE
    OBVIOUS
<1>1. StateKnown(p)
    BY Moves DEF Stays, IsAnswered, IsChecked, IsOpened, IsOpenedToCompact, GoesOn, States
<1>2. call[p] = "idle" /\ turnIndex = turn[p]
    BY <1>1 DEF StateKnown, StillIts, turnVars
<1>3. q = p
    <2>1. q \in Prompts /\ turn[p] > 0
        BY DEF TypeOK, OpensOnce, States
    <2> QED BY <1>2, <2>1 DEF OpensOnce
<1>4. p \notin preparing
    BY DEF TakenOnce, Answered, Answers
<1>5. p # runner
    BY <1>2 DEF TakenOnce, Idle
<1> QED BY <1>3, <1>4, <1>5

\* The answer to a prompt that opened a turn ends none whose prompt has a run,
\* going or about to start: awaitPrompt looks again under the lock.
THEOREM HandledPromptHasNoRun == Spec => HandledHasNoRun
<1>1. HandledInv /\ [Next]_vars =>
        [\A p \in Prompts :
            kind[p] = "prompt" /\ call[p] \in States /\ call'[p] = "gone" /\ turnActive /\ ~turnActive'
              => \A q \in preparing \cup ({runner} \ {Nobody}) : kind[q] # "prompt" \/ turn[q] # turnIndex]_vars
    BY HandledStep
<1> QED BY <1>1, InitHandledInv, NextHandledInv, PTL DEF Spec, HandledHasNoRun
===============================================================================
