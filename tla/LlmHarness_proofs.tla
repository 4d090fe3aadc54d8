--------------------------- MODULE LlmHarness_proofs ---------------------------
(***************************************************************************)
(* Proofs about LlmHarness, for any number of calls of Generate, of        *)
(* conversations and of tool calls: a running agent has one owner, and no  *)
(* tool call that is held is forgotten.                                    *)
(***************************************************************************)
EXTENDS LlmHarness, TLAPS

-------------------------------------------------------------------------------
(* Types.                                                                  *)

AtStates == {"idle", "taken", "dropping", "starting", "begun", "answering", "waiting",
             "answered", "failed", "closing"}

\* The types of what OneOwner is about.
OwnerTypes ==
    /\ live \in Convs \cup {None}
    /\ at \in [Generates -> AtStates] /\ conv \in [Generates -> Convs \cup {None}]
    /\ closed \in [Convs -> BOOLEAN]
    /\ idle \in [Convs -> {"none", "armed", "stopped", "fired", "done"}]
    /\ agent \in [Convs -> {"none", "working", "resting", "dead"}]

\* A call that uses a conversation has one, and what no agent runs in yet is
\* nobody's.
Placed == \A g \in Generates : at[g] \in UseStates => conv[g] \in Convs

Fresh ==
    \A c \in Convs : agent[c] = "none" =>
        live # c /\ idle[c] = "none" /\ \A g \in Generates : conv[g] # c

OwnInv == OwnerTypes /\ Placed /\ Fresh /\ OneOwner

LEMMA NoneIsNoConv == None \notin Convs
BY BoundsAssumption DEF None, Convs

LEMMA FirstIsOne == ASSUME NEW S, NEW c \in First(S) PROVE c \in S
BY DEF First

LEMMA InitOwnInv == Init => OwnInv
BY NoneIsNoConv DEF Init, OwnInv, OwnerTypes, AtStates, Placed, Fresh, OneOwner, Using, UseStates, None

\* What a step that touches none of the owners leaves as it is.
ownerVars == <<live, at, conv, closed, idle, agent>>

LEMMA UnchangedOwnInv == OwnInv /\ UNCHANGED ownerVars => OwnInv'
BY DEF ownerVars, OwnInv, OwnerTypes, Placed, Fresh, OneOwner, Using

\* A step that only moves one call of Generate within its use, or stays out.
LEMMA MoveOwnInv ==
    ASSUME OwnInv, NEW g \in Generates, NEW from, NEW to \in AtStates, Goes(g, from, to),
           UNCHANGED <<live, conv, closed, idle, agent>>,
           from \in UseStates <=> to \in UseStates
    PROVE  OwnInv'
BY DEF OwnInv, OwnerTypes, Placed, Fresh, OneOwner, Using, Goes, UseStates, AtStates

LEMMA TakeOwnInv == ASSUME OwnInv, NEW g \in Generates, Take(g) PROVE OwnInv'
<1> USE NoneIsNoConv DEF OwnInv, OwnerTypes, AtStates, Placed, Fresh, OneOwner, Using, UseStates, Take, Goes,
        turnVars, agentVars, callVars
<1>1. CASE live = None
    BY <1>1
<1>2. CASE live \in Convs /\ (idle[live] # "armed" \/ closed[live])
    BY <1>2
<1>3. CASE live \in Convs /\ idle[live] = "armed" /\ ~closed[live]
  <2>1. \A h \in Generates : ~(conv[h] = live /\ at[h] \in UseStates)
      BY <1>3
  <2> QED
      BY <1>3, <2>1
<1> QED
    BY <1>1, <1>2, <1>3

\* Closing conversations leaves the others' owners alone.
LEMMA CloseOwnInv ==
    ASSUME OwnInv, NEW cs \in SUBSET Convs, StartClose(cs), UNCHANGED <<agent, conv>>,
           live' = live \/ (live' = None /\ (live \in Convs => live \in cs \/ closed[live])),
           \/ UNCHANGED at
           \/ \E g \in Generates, from \in AtStates, to \in AtStates \ UseStates :
                  Goes(g, from, to) /\ (from \in UseStates => conv[g] \in cs),
           \A c \in cs : agent[c] # "none"
    PROVE  OwnInv'
<1> USE NoneIsNoConv DEF OwnInv, OwnerTypes, AtStates, Placed, Fresh, OneOwner, Using, UseStates, StartClose, Goes
<1>1. OwnerTypes' /\ Placed' /\ Fresh'
    OBVIOUS
<1>2. \A c \in Convs : ~closed'[c] => ~closed[c] /\ c \notin cs /\ idle'[c] = idle[c]
    OBVIOUS
<1>3. \A c \in Convs : ~closed'[c] => (live' = c <=> live = c)
    BY <1>2
<1>4. \A c \in Convs : ~closed'[c] => Using(c)' = Using(c)
    BY <1>2
<1> QED
    BY <1>1, <1>2, <1>3, <1>4

LEMMA StartOwnInv == ASSUME OwnInv, NEW g \in Generates, Start(g) PROVE OwnInv'
<1>1. ASSUME NEW c \in First({x \in Convs : agent[x] = "none"}), NEW to \in {"waiting", "failed"}, Goes(g, "starting", to),
             conv' = [conv EXCEPT ![g] = c], agent' = [agent EXCEPT ![c] = "working"],
             UNCHANGED <<live, closed, idle>>
      PROVE  OwnInv'
  <2>1. c \in Convs /\ agent[c] = "none"
      BY FirstIsOne
  <2>2. live # c /\ idle[c] = "none" /\ \A h \in Generates : conv[h] # c
      BY <2>1 DEF OwnInv, Fresh
  <2>3. OwnerTypes' /\ Placed' /\ Fresh'
      BY <1>1, <2>1, <2>2 DEF OwnInv, OwnerTypes, AtStates, Placed, Fresh, UseStates, Goes
  <2>4. Using(c)' = {g}
      BY <1>1, <2>2 DEF Using, UseStates, Goes, OwnInv, OwnerTypes
  <2>5. \A d \in Convs \ {c} : Using(d)' = Using(d)
      BY <1>1, <2>2 DEF Using, UseStates, Goes, OwnInv, OwnerTypes
  <2> QED
      BY <1>1, <2>1, <2>2, <2>3, <2>4, <2>5 DEF OwnInv, OneOwner, OwnerTypes
<1>2. CASE Goes(g, "starting", "idle") /\ UNCHANGED <<live, conv, closed, idle, agent>>
    BY <1>2, MoveOwnInv DEF AtStates, UseStates
<1> QED
    BY <1>1, <1>2 DEF Start, harnessVars, closeVars, agentVars

LEMMA SettleOwnInv == ASSUME OwnInv, NEW g \in Generates, Settle(g) PROVE OwnInv'
<1> PICK c \in Convs : c = conv[g]
    BY DEF OwnInv, Placed, UseStates, Settle, Goes
<1>1. c \in Convs /\ c = conv[g] /\ agent[c] # "none" /\ g \in Using(c) /\ at[g] = "answered"
    BY DEF OwnInv, Placed, Fresh, Using, UseStates, Settle, Goes
<1>2. CASE modelClosed
  <2>1. StartClose({c}) /\ Goes(g, "answered", "closing") /\ UNCHANGED <<live, conv, agent>>
      BY <1>1, <1>2 DEF Settle, StartClose, Goes, OwnInv, OwnerTypes, agentVars
  <2> QED
      BY <1>1, <2>1, CloseOwnInv DEF AtStates, UseStates, OwnInv
<1>3. CASE ~modelClosed
  <2> DEFINE out == {d \in Convs : d = live /\ ~closed[d]}
  <2>1. /\ live' = c /\ at' = [at EXCEPT ![g] = "idle"] /\ conv' = [conv EXCEPT ![g] = None]
        /\ closed' = [d \in Convs |-> closed[d] \/ d \in out]
        /\ idle' = [d \in Convs |-> IF d = c THEN "armed"
                                     ELSE IF d \in out /\ idle[d] = "armed" THEN "stopped" ELSE idle[d]]
        /\ UNCHANGED agent
      BY <1>3 DEF Settle, Goes, OwnInv, OwnerTypes, agentVars
  <2>2. OwnerTypes' /\ Placed' /\ Fresh'
      BY <1>1, <2>1, NoneIsNoConv DEF OwnInv, OwnerTypes, AtStates, Placed, Fresh, UseStates
  <2>3. Using(c)' = Using(c) \ {g} /\ \A d \in Convs \ {c} : Using(d)' = Using(d)
      BY <1>1, <2>1, NoneIsNoConv DEF Using, UseStates, OwnInv, OwnerTypes
  <2>4. ASSUME NEW d \in Convs, agent[d] # "none", ~closed'[d]
        PROVE  /\ \A h, k \in Using(d)' : h = k
               /\ Using(d)' = {} => idle'[d] = "fired" \/ (live' = d /\ idle'[d] = "armed")
               /\ Using(d)' # {} => live' # d /\ idle'[d] \in {"none", "stopped"}
    <3>1. ~closed[d] /\ live # d
        BY <2>1, <2>4 DEF OwnInv, OwnerTypes
    <3>2. CASE d = c
        BY <1>1, <2>1, <2>3, <2>4, <3>1, <3>2 DEF OwnInv, OneOwner
    <3>3. CASE d # c
        BY <1>1, <2>1, <2>3, <2>4, <3>1, <3>3 DEF OwnInv, OneOwner
    <3> QED
        BY <3>2, <3>3
  <2> QED
      BY <2>1, <2>2, <2>4 DEF OwnInv, OneOwner
<1> QED
    BY <1>2, <1>3

\* One conversation is closed by its idle timer or by a call the agent gave up.
LEMMA ShutOwnInv ==
    ASSUME OwnInv, NEW c, UNCHANGED <<agent, conv, at>>,
           closed' = [closed EXCEPT ![c] = TRUE],
           idle' \in [Convs -> {"none", "armed", "stopped", "fired", "done"}],
           \A d \in Convs : d # c \/ agent[d] = "none" => idle'[d] = idle[d],
           live' = live \/ (live' = None /\ live = c)
    PROVE  OwnInv'
<1> USE DEF OwnInv
<1>1. OwnerTypes' /\ Placed'
    BY NoneIsNoConv DEF OwnerTypes, Placed, AtStates, UseStates
<1>3. Fresh'
    BY NoneIsNoConv DEF OwnerTypes, Fresh
<1>2. ASSUME NEW d \in Convs, agent'[d] # "none", ~closed'[d]
      PROVE  d # c /\ ~closed[d] /\ (live' = d <=> live = d) /\ idle'[d] = idle[d] /\ Using(d)' = Using(d)
    BY <1>2, NoneIsNoConv DEF OwnerTypes, Using
<1> QED
    BY <1>1, <1>2, <1>3 DEF OneOwner, OwnerTypes

\* The agent's life changes no owner.
LEMMA AgentOwnInv ==
    ASSUME OwnInv, UNCHANGED <<live, conv, closed, idle>>,
           agent' \in [Convs -> {"none", "working", "resting", "dead"}],
           \A c \in Convs : (agent'[c] = "none" => agent[c] = "none")
                          /\ (agent[c] = "none" /\ ~closed[c] => agent'[c] = "none"),
           at' \in [Generates -> AtStates],
           \A g \in Generates : at'[g] \in UseStates <=> at[g] \in UseStates
    PROVE  OwnInv'
<1> USE DEF OwnInv
<1>1. OwnerTypes' /\ Placed' /\ Fresh'
    BY DEF OwnerTypes, Placed, Fresh
<1>2. \A c \in Convs : Using(c)' = Using(c)
    BY DEF Using
<1> QED
    BY <1>1, <1>2 DEF OneOwner

LEMMA GenerateOwnInv == ASSUME OwnInv, NEW g \in Generates, Generate(g) \/ CallerGivesUp(g) PROVE OwnInv'
<1> USE DEF agentVars, harnessVars, closeVars
<1>1. CASE Differs(g)
  <2>1. conv[g] \in Convs /\ agent[conv[g]] # "none"
      BY <1>1 DEF OwnInv, Placed, Fresh, UseStates, Differs, Goes
  <2> QED
      BY <1>1, <2>1, CloseOwnInv DEF Differs, AtStates, UseStates
<1>2. CASE SettleFailed(g)
  <2>1. conv[g] \in Convs /\ agent[conv[g]] # "none"
      BY <1>2 DEF OwnInv, Placed, Fresh, UseStates, SettleFailed, Goes
  <2> QED
      BY <1>2, <2>1, CloseOwnInv DEF SettleFailed, AtStates, UseStates
<1>3. CASE Dropped(g) \/ Return(g)
  <2>1. OwnerTypes' /\ Placed' /\ Fresh'
      BY <1>3, NoneIsNoConv DEF Dropped, Return, Goes, OwnInv, OwnerTypes, AtStates, Placed, Fresh, UseStates
  <2>2. \A c \in Convs : Using(c)' = Using(c)
      BY <1>3, NoneIsNoConv DEF Dropped, Return, Goes, OwnInv, OwnerTypes, Using, UseStates
  <2> QED
      BY <1>3, <2>1, <2>2 DEF Dropped, Return, OwnInv, OneOwner
<1>4. CASE Begin(g) \/ TakeHeld(g) \/ AnswerHeld(g) \/ Wait(g) \/ CallerGivesUp(g)
  <2>1. PICK from \in UseStates, to \in UseStates : Goes(g, from, to)
      BY <1>4 DEF Begin, TakeHeld, AnswerHeld, Wait, CallerGivesUp, UseStates
  <2>2. UNCHANGED <<live, conv, closed, idle, agent>>
      BY <1>4 DEF Begin, TakeHeld, AnswerHeld, Wait, CallerGivesUp
  <2> QED
      BY <2>1, <2>2, MoveOwnInv DEF UseStates, AtStates
<1>5. CASE Prompt(g)
  <2>1. UNCHANGED <<live, conv, closed, idle>>
      BY <1>5 DEF Prompt
  <2>2. at[g] = "begun" /\ (at' = [at EXCEPT ![g] = "waiting"] \/ at' = [at EXCEPT ![g] = "failed"])
      BY <1>5 DEF Prompt, Goes
  <2>3. agent' = agent \/ (agent[conv[g]] = "resting" /\ agent' = [agent EXCEPT ![conv[g]] = "working"])
      BY <1>5 DEF Prompt
  <2> QED
      BY <2>1, <2>2, <2>3, AgentOwnInv DEF OwnInv, OwnerTypes, AtStates, UseStates
<1> QED
    BY <1>1, <1>2, <1>3, <1>4, <1>5, StartOwnInv, SettleOwnInv DEF Generate

LEMMA NextOwnInv == OwnInv /\ [Next]_vars => OwnInv'
<1> SUFFICES ASSUME OwnInv, [Next]_vars PROVE OwnInv'
    OBVIOUS
<1> USE DEF agentVars, harnessVars, generateVars, closeVars, agentLeaves
<1>1. ASSUME NEW g \in Generates, Generate(g) \/ Take(g) \/ CallerGivesUp(g) PROVE OwnInv'
    BY <1>1, GenerateOwnInv, TakeOwnInv
<1>2. ASSUME NEW c \in Convs, Tear(c) \/ EndsTurn(c) \/ AgentDies(c) PROVE OwnInv'
    BY <1>2, AgentOwnInv DEF Tear, EndsTurn, AgentDies, OwnInv, OwnerTypes
<1>3. ASSUME NEW c \in Convs, IdleFires(c) PROVE OwnInv'
  <2>1. OwnerTypes' /\ Placed' /\ Fresh'
      BY <1>3 DEF IdleFires, OwnInv, OwnerTypes, Placed, Fresh
  <2>2. \A d \in Convs : Using(d)' = Using(d)
      BY <1>3 DEF IdleFires, Using
  <2> QED
      BY <1>3, <2>1, <2>2 DEF IdleFires, OwnInv, OneOwner, OwnerTypes
<1>4. ASSUME NEW c \in Convs, IdleRuns(c) PROVE OwnInv'
    BY <1>4, ShutOwnInv DEF IdleRuns, OwnInv, OwnerTypes, Fresh
<1>5. ASSUME NEW k \in Calls, Leave(k) PROVE OwnInv'
    BY <1>5, ShutOwnInv DEF Leave, OwnInv, OwnerTypes, Fresh
<1>6. CASE Close
  <2>1. {live} \cap Convs \in SUBSET Convs /\ \A c \in {live} \cap Convs : agent[c] # "none"
      BY DEF OwnInv, Fresh
  <2> QED
      BY <1>6, <2>1, CloseOwnInv DEF Close
<1>7. ASSUME NEW c \in Convs, SettleTimer(c) \/ PumpReads(c) \/ PumpEnds(c) PROVE OwnInv'
    BY <1>7, UnchangedOwnInv DEF SettleTimer, PumpReads, PumpEnds, ownerVars
<1>8. ASSUME NEW k \in Calls, GetsAnswer(k) \/ RequestEnded(k) \/ Left(k) \/ GivesUp(k) PROVE OwnInv'
    BY <1>8, UnchangedOwnInv DEF GetsAnswer, RequestEnded, Left, GivesUp, ownerVars
<1>9. ASSUME NEW c \in Convs, NEW k \in Calls, ToolCall(c, k) PROVE OwnInv'
    BY <1>9, UnchangedOwnInv DEF ToolCall, ownerVars
<1>10. CASE UNCHANGED vars
    BY <1>10, UnchangedOwnInv DEF vars, ownerVars
<1> QED
    BY <1>1, <1>2, <1>3, <1>4, <1>5, <1>6, <1>7, <1>8, <1>9, <1>10
    DEF Next, Ours, Agent, Conversation, Handler

LEMMA OwnInvHolds == Spec => []OwnInv
BY InitOwnInv, NextOwnInv, PTL DEF Spec

\* A running agent has one owner: the call of Generate that uses it, the key it
\* is kept on, or an idle timer about to close it; never two, never none.
THEOREM OwnerIsOne == Spec => []OneOwner
<1>1. OwnInv => OneOwner
    BY DEF OwnInv
<1> QED
    BY <1>1, OwnInvHolds, PTL

-------------------------------------------------------------------------------
(* No held call is forgotten.  What an open conversation holds depends on  *)
(* where the call of Generate that uses it is: before its response begins  *)
(* the last response told of it, or it came early; from begin on the new   *)
(* response collects it; in between it may be either.                      *)

HeldTypes ==
    /\ pending \in [Convs -> SUBSET Calls] /\ held \in [Convs -> SUBSET Calls]
    /\ early \in [Convs -> SUBSET Calls] /\ content \in [Convs -> SUBSET Calls]
    /\ turn \in [Convs -> {"none", "collecting", "complete", "failed"}]
    /\ owner \in [Calls -> Convs \cup {None}]

\* A conversation between two responses, and one in its response.
Told(c) == held[c] \subseteq pending[c] \cup early[c] /\ turn[c] # "collecting"
Collected(c) == held[c] \subseteq content[c] \cup early[c]

Known(c) ==
    /\ agent[c] = "none" => held[c] = {}
    /\ Using(c) = {} => Told(c)
    /\ \A g \in Using(c) :
         /\ at[g] = "taken" => Told(c)
         /\ at[g] = "begun" => held[c] \subseteq pending[c] \cup content[c] \cup early[c]
         /\ at[g] \in {"answering", "waiting", "answered"} => Collected(c)
         /\ at[g] = "answered" => turn[c] # "collecting"

KnownInv == HeldTypes /\ \A c \in Convs : ~closed[c] => Known(c)

LEMMA InitKnownInv == Init => KnownInv
BY NoneIsNoConv DEF Init, KnownInv, HeldTypes, Known, Told, Collected, Using, UseStates, None

\* What a step must leave of a conversation for it to stay known: it holds no
\* more, and is told no less.
Lessens(c) ==
    /\ held[c]' \subseteq held[c]
    /\ pending[c]' = pending[c] /\ early[c]' = early[c] /\ content[c]' = content[c]
    /\ turn[c]' = "collecting" => turn[c] = "collecting"
    /\ agent[c]' = "none" => agent[c] = "none"

LEMMA LessensKnown ==
    ASSUME NEW c, Known(c), Lessens(c), Using(c)' = Using(c),
           \A g \in Using(c) : at'[g] = at[g]
    PROVE  Known(c)'
BY DEF Known, Told, Collected, Lessens

\* A step that moves no call of Generate.
LEMMA LessensKnownInv ==
    ASSUME KnownInv, HeldTypes', UNCHANGED <<at, conv>>,
           \A c \in Convs : ~closed'[c] => ~closed[c] /\ Lessens(c)
    PROVE  KnownInv'
<1>1. ASSUME NEW c \in Convs, ~closed'[c] PROVE Known(c)'
    BY <1>1, LessensKnown DEF KnownInv, Using
<1> QED
    BY <1>1 DEF KnownInv

\* A step that moves one, from the use of c or into it.
LEMMA MoveKnownInv ==
    ASSUME KnownInv, HeldTypes', NEW g \in Generates, NEW c \in Convs,
           OwnerTypes, OwnerTypes',
           \A h \in Generates \ {g} : at'[h] = at[h] /\ conv'[h] = conv[h],
           conv[g] = c \/ at[g] \notin UseStates, conv'[g] = c \/ at'[g] \notin UseStates,
           \A d \in Convs \ {c} : ~closed'[d] => ~closed[d] /\ Lessens(d),
           ~closed'[c] => Known(c)'
    PROVE  KnownInv'
<1>1. ASSUME NEW d \in Convs \ {c}, ~closed'[d] PROVE Known(d)'
  <2>1. Using(d)' = Using(d) /\ \A h \in Using(d) : at'[h] = at[h]
      BY DEF Using
  <2> QED
      BY <1>1, <2>1, LessensKnown DEF KnownInv
<1> QED
    BY <1>1 DEF KnownInv

LEMMA TakeKnown == ASSUME OwnInv, OwnInv', KnownInv, NEW g \in Generates, Take(g) PROVE KnownInv'
<1> USE DEF agentVars, turnVars, callVars
<1>1. HeldTypes' /\ \A d \in Convs : (closed'[d] <=> closed[d]) /\ Lessens(d)
    BY DEF Take, KnownInv, HeldTypes, Lessens, OwnInv, OwnerTypes
<1>2. \A h \in Generates \ {g} : at'[h] = at[h] /\ conv'[h] = conv[h]
    BY DEF Take, Goes, OwnInv, OwnerTypes
<1>3. at[g] = "idle" /\ at[g] \notin UseStates
    BY DEF Take, Goes, UseStates
<1>4. CASE at'[g] = "taken"
  <2>1. /\ live \in Convs /\ conv'[g] = live /\ ~closed[live] /\ idle[live] = "armed"
        /\ at' = [at EXCEPT ![g] = "taken"]
      BY <1>4, NoneIsNoConv DEF Take, Goes, OwnInv, OwnerTypes, AtStates
  <2> PICK c \in Convs : c = live
      BY <2>1
  <2>2. Using(c) = {}
      BY <2>1 DEF OwnInv, Fresh, OneOwner
  <2>3. Using(c)' = {g}
      BY <1>2, <2>1, <2>2 DEF Using, UseStates, OwnInv, OwnerTypes
  <2>4. Known(c)
      BY <2>1 DEF KnownInv
  <2>5. Known(c)'
      BY <1>1, <1>4, <2>2, <2>3, <2>4 DEF Known, Told, Lessens
  <2> QED
      BY <1>1, <1>2, <1>3, <2>1, <2>5, MoveKnownInv DEF OwnInv
<1>5. CASE at'[g] # "taken"
  <2>1. at'[g] \notin UseStates
      BY <1>5 DEF Take, Goes, UseStates, OwnInv, OwnerTypes
  <2>2. \A d \in Convs : Using(d)' = Using(d) /\ \A h \in Using(d) : at'[h] = at[h]
      BY <1>2, <1>3, <2>1 DEF Using
  <2>3. ASSUME NEW d \in Convs, ~closed'[d] PROVE Known(d)'
      BY <1>1, <2>2, <2>3, LessensKnown DEF KnownInv
  <2> QED
      BY <1>1, <2>3 DEF KnownInv
<1> QED
    BY <1>4, <1>5

\* A conversation given up or returned closes, or was not in use.
LEMMA CloseKnown ==
    ASSUME OwnInv, OwnInv', KnownInv, HeldTypes', NEW g \in Generates, NEW c \in Convs, c = conv[g],
           \A h \in Generates \ {g} : at'[h] = at[h] /\ conv'[h] = conv[h],
           at'[g] \notin UseStates,
           \A d \in Convs \ {c} : ~closed'[d] => ~closed[d] /\ Lessens(d),
           closed'[c] \/ (at[g] \notin UseStates /\ ~closed[c] /\ Lessens(c))
    PROVE  KnownInv'
<1>1. CASE closed'[c]
    BY <1>1, MoveKnownInv DEF OwnInv
<1>2. CASE ~closed'[c]
  <2>1. Using(c)' = Using(c) /\ \A h \in Using(c) : at'[h] = at[h]
      BY <1>2 DEF Using
  <2>2. Known(c)'
      BY <1>2, <2>1, LessensKnown DEF KnownInv
  <2> QED
      BY <2>2, MoveKnownInv DEF OwnInv
<1> QED
    BY <1>1, <1>2

\* A call of Generate that goes on within its use of a conversation.
LEMMA GoOnKnown ==
    ASSUME OwnInv, OwnInv', KnownInv, HeldTypes', NEW g \in Generates, NEW c \in Convs, c = conv[g],
           NEW from \in UseStates, NEW to \in UseStates, Goes(g, from, to), UNCHANGED <<conv, closed>>,
           \A d \in Convs \ {c} : ~closed[d] => Lessens(d),
           ~closed[c] =>
               /\ agent[c]' = "none" => agent[c] = "none"
               /\ held[c]' \subseteq held[c]
               /\ to # "taken" /\ (to = "answered" => turn[c]' # "collecting")
               /\ to = "begun" => held[c]' \subseteq pending[c]' \cup content[c]' \cup early[c]'
               /\ to \in {"answering", "waiting", "answered"} => Collected(c)'
    PROVE  KnownInv'
<1>1. at' = [at EXCEPT ![g] = to] /\ at[g] = from
    BY DEF Goes
<1>2. ASSUME ~closed'[c] PROVE Known(c)'
  <2>1. Known(c) /\ ~closed[c]
      BY <1>2 DEF KnownInv
  <2>2. agent[c] # "none" /\ Using(c) = {g}
      BY <1>1, <1>2 DEF OwnInv, Fresh, OneOwner, Using
  <2>3. Using(c)' = {g} /\ at'[g] = to
      BY <1>1, <2>2 DEF Using, OwnInv, OwnerTypes
  <2> QED
      BY <1>2, <2>1, <2>2, <2>3 DEF Known, UseStates
<1> QED
    BY <1>1, <1>2, MoveKnownInv DEF OwnInv, OwnerTypes

LEMMA BeginKnown == ASSUME OwnInv, OwnInv', KnownInv, NEW g \in Generates, Begin(g) PROVE KnownInv'
<1> PICK c \in Convs : c = conv[g]
    BY DEF OwnInv, Placed, UseStates, Begin, Goes
<1>1. HeldTypes'
    BY DEF Begin, KnownInv, HeldTypes, agentVars, callVars
<1>2. \A d \in Convs \ {c} : Lessens(d)
    BY DEF Begin, KnownInv, HeldTypes, Lessens, agentVars
<1>3. ~closed[c] => held[c] \subseteq pending[c] \cup early[c]
    BY DEF Begin, KnownInv, Known, Told, Using, UseStates, Goes
<1>4. /\ held[c]' = held[c] /\ pending[c]' = pending[c] /\ content[c]' = early[c]
      /\ agent[c]' = agent[c] /\ UNCHANGED <<conv, closed>> /\ Goes(g, "taken", "begun")
    BY DEF Begin, KnownInv, HeldTypes, agentVars, closeVars
<1> QED
    BY <1>1, <1>2, <1>3, <1>4, GoOnKnown DEF UseStates

LEMMA PromptKnown == ASSUME OwnInv, OwnInv', KnownInv, NEW g \in Generates, Prompt(g) PROVE KnownInv'
<1> PICK c \in Convs : c = conv[g]
    BY DEF OwnInv, Placed, UseStates, Prompt, Goes
<1>1. HeldTypes' /\ \A d \in Convs : Lessens(d)
    BY DEF Prompt, KnownInv, HeldTypes, Lessens, turnVars, callVars, OwnInv, OwnerTypes
<1>2. ~closed[c] => held[c]' \subseteq content[c]' \cup early[c]'
    BY DEF Prompt, KnownInv, Known, Using, UseStates, Goes, turnVars
<1>3. UNCHANGED <<conv, closed>> /\ (Goes(g, "begun", "waiting") \/ Goes(g, "begun", "failed"))
    BY DEF Prompt, closeVars
<1> QED
    BY <1>1, <1>2, <1>3, GoOnKnown DEF UseStates, Collected, Lessens

LEMMA TakeHeldKnown == ASSUME OwnInv, OwnInv', KnownInv, NEW g \in Generates, TakeHeld(g) PROVE KnownInv'
<1> PICK c \in Convs : c = conv[g]
    BY DEF OwnInv, Placed, UseStates, TakeHeld, Goes
<1>1. HeldTypes' /\ \A d \in Convs : Lessens(d)
    BY DEF TakeHeld, KnownInv, HeldTypes, Lessens, turnVars, callVars, agentVars
<1>2. ~closed[c] => held[c] \subseteq pending[c] \cup content[c] \cup early[c]
    BY DEF TakeHeld, KnownInv, Known, Using, UseStates, Goes
<1>3. UNCHANGED <<conv, closed>>
    BY DEF TakeHeld, closeVars
<1>4. CASE Goes(g, "begun", "answering") /\ held' = [held EXCEPT ![c] = held[c] \ pending[c]]
  <2>1. ~closed[c] => Collected(c)'
      BY <1>2, <1>4 DEF Collected, TakeHeld, KnownInv, HeldTypes, turnVars
  <2> QED
      BY <1>1, <1>3, <1>4, <2>1, GoOnKnown DEF UseStates, Lessens
<1>5. CASE Goes(g, "begun", "failed")
    BY <1>1, <1>3, <1>5, GoOnKnown DEF UseStates, Lessens
<1> QED
    BY <1>4, <1>5 DEF TakeHeld

LEMMA StartKnown == ASSUME OwnInv, OwnInv', KnownInv, NEW g \in Generates, Start(g) PROVE KnownInv'
<1>1. HeldTypes'
  <2>1. /\ UNCHANGED <<pending, held, early, content, owner>>
        /\ turn' = turn \/ \E c \in First({x \in Convs : agent[x] = "none"}) : turn' = [turn EXCEPT ![c] = "collecting"]
      BY DEF Start, callVars, turnVars
  <2> QED
      BY <2>1 DEF KnownInv, HeldTypes
<1>2. ASSUME NEW c \in First({x \in Convs : agent[x] = "none"}), NEW to \in {"waiting", "failed"}, Goes(g, "starting", to),
             conv' = [conv EXCEPT ![g] = c], agent' = [agent EXCEPT ![c] = "working"],
             turn' = [turn EXCEPT ![c] = "collecting"],
             UNCHANGED <<closed, pending, held, early, content>>
      PROVE  KnownInv'
  <2>1. c \in Convs /\ agent[c] = "none"
      BY FirstIsOne
  <2>2. ~closed[c] => held[c] = {}
      BY <2>1 DEF KnownInv, Known
  <2>3. \A h \in Generates \ {g} : at'[h] = at[h] /\ conv'[h] = conv[h]
      BY <1>2 DEF Goes, OwnInv, OwnerTypes
  <2>4. at[g] \notin UseStates /\ conv'[g] = c /\ at'[g] = to /\ agent'[c] = "working"
      BY <1>2, <2>1 DEF Goes, UseStates, OwnInv, OwnerTypes
  <2>5. \A d \in Convs \ {c} : Lessens(d)
      BY <1>2, <2>1 DEF Lessens, OwnInv, OwnerTypes, KnownInv, HeldTypes
  <2>6. Using(c)' = {g}
      BY <2>1, <2>3, <2>4 DEF Using, UseStates, OwnInv, Fresh
  <2>7. ~closed'[c] => Known(c)'
      BY <1>2, <2>2, <2>4, <2>6 DEF Known, Collected
  <2> QED
      BY <1>1, <1>2, <2>1, <2>3, <2>4, <2>5, <2>7, MoveKnownInv DEF OwnInv
<1>3. CASE /\ Goes(g, "starting", "idle")
           /\ UNCHANGED <<harnessVars, conv, made, closeVars, pending, held, early, turnVars, agentVars, callVars>>
  <2>1. \A d \in Convs : Lessens(d) /\ closed'[d] = closed[d]
      BY <1>3 DEF Lessens, turnVars, agentVars, closeVars
  <2>2. \A d \in Convs : Using(d)' = Using(d) /\ \A h \in Using(d) : at'[h] = at[h]
      BY <1>3 DEF Using, UseStates, Goes, OwnInv, OwnerTypes
  <2>3. ASSUME NEW d \in Convs, ~closed'[d] PROVE Known(d)'
      BY <2>1, <2>2, <2>3, LessensKnown DEF KnownInv
  <2> QED
      BY <1>1, <2>3 DEF KnownInv
<1> QED
    BY <1>2, <1>3 DEF Start, closeVars

LEMMA SettleKnown == ASSUME OwnInv, OwnInv', KnownInv, NEW g \in Generates, Settle(g) PROVE KnownInv'
<1> PICK c \in Convs : c = conv[g]
    BY DEF OwnInv, Placed, UseStates, Settle, Goes
<1>1. g \in Using(c) /\ at[g] = "answered"
    BY DEF Using, UseStates, Settle, Goes
<1>2. HeldTypes'
    BY DEF Settle, KnownInv, HeldTypes, callVars, turnVars
<1>3. /\ \A h \in Generates \ {g} : at'[h] = at[h] /\ conv'[h] = conv[h]
      /\ at'[g] = IF modelClosed THEN "closing" ELSE "idle"
      /\ conv'[g] = IF modelClosed THEN c ELSE None
    BY DEF Settle, Goes, OwnInv, OwnerTypes
<1>4. \A d \in Convs \ {c} : ~closed'[d] => ~closed[d] /\ Lessens(d)
    BY DEF Settle, Lessens, KnownInv, HeldTypes, OwnInv, OwnerTypes, turnVars, agentVars
<1>5. ASSUME ~closed'[c] PROVE Known(c)'
  <2>1. ~closed[c] /\ ~modelClosed
      BY <1>5 DEF Settle, OwnInv, OwnerTypes
  <2>2. held[c] \subseteq content[c] \cup early[c] /\ turn[c] # "collecting" /\ agent[c] # "none"
      BY <1>1, <2>1 DEF KnownInv, Known, Collected, Using, OwnInv, Fresh
  <2>3. held[c]' \subseteq held[c] /\ pending[c]' = content[c] /\ early[c]' = early[c]
        /\ turn[c]' = turn[c] /\ agent[c]' = agent[c]
      BY DEF Settle, KnownInv, HeldTypes, turnVars, agentVars
  <2>4. Using(c)' = {}
      BY <1>1, <1>3, <2>1, NoneIsNoConv DEF OwnInv, Fresh, OneOwner, Using, UseStates
  <2> QED
      BY <2>2, <2>3, <2>4 DEF Known, Told
<1> QED
    BY <1>1, <1>2, <1>3, <1>4, <1>5, MoveKnownInv DEF OwnInv, UseStates

\* The steps of Generate that touch nothing of what a conversation holds.
LEMMA OnKnown ==
    ASSUME OwnInv, OwnInv', KnownInv, NEW g \in Generates, AnswerHeld(g) \/ Wait(g) \/ CallerGivesUp(g)
    PROVE  KnownInv'
<1> USE DEF closeVars, turnVars, agentVars, callVars
<1> PICK c \in Convs : c = conv[g]
    BY DEF OwnInv, Placed, UseStates, AnswerHeld, Wait, CallerGivesUp, Goes
<1>1. UNCHANGED <<conv, closed, pending, held, early, content, turn, agent>>
    BY DEF AnswerHeld, Wait, CallerGivesUp
<1>2. HeldTypes' /\ \A d \in Convs : Lessens(d)
    BY <1>1 DEF AnswerHeld, Wait, CallerGivesUp, KnownInv, HeldTypes, Lessens
<1>3. PICK from \in {"answering", "waiting"}, to \in {"waiting", "answered", "failed"} :
          Goes(g, from, to) /\ (to = "answered" => turn[c] = "complete")
    BY DEF AnswerHeld, Wait, CallerGivesUp
<1>4. ~closed[c] => Collected(c)'
    BY <1>1, <1>3 DEF KnownInv, Known, Collected, Using, UseStates, Goes
<1> QED
    BY <1>1, <1>2, <1>3, <1>4, GoOnKnown DEF UseStates, Lessens

LEMMA OutKnown ==
    ASSUME OwnInv, OwnInv', KnownInv, NEW g \in Generates,
           Differs(g) \/ Dropped(g) \/ SettleFailed(g) \/ Return(g)
    PROVE  KnownInv'
<1> USE DEF closeVars, turnVars, agentVars, callVars
<1>1. HeldTypes'
    BY DEF Differs, Dropped, SettleFailed, Return, StartClose, KnownInv, HeldTypes
<1>2. \A h \in Generates \ {g} : at'[h] = at[h] /\ conv'[h] = conv[h]
    BY DEF Differs, Dropped, SettleFailed, Return, Goes, OwnInv, OwnerTypes
<1>3. at'[g] \in {"dropping", "starting", "closing", "idle"}
    BY DEF Differs, Dropped, SettleFailed, Return, Goes, OwnInv, OwnerTypes
<1>4. CASE Differs(g) \/ SettleFailed(g)
  <2> PICK c \in Convs : c = conv[g]
      BY <1>4 DEF OwnInv, Placed, UseStates, Differs, SettleFailed, Goes
  <2>1. closed'[c] /\ \A d \in Convs \ {c} : ~closed'[d] => ~closed[d] /\ Lessens(d)
      BY <1>4 DEF Differs, SettleFailed, StartClose, Lessens, KnownInv, HeldTypes, OwnInv, OwnerTypes
  <2> QED
      BY <1>1, <1>2, <1>3, <2>1, CloseKnown DEF UseStates
<1>5. CASE Dropped(g) \/ Return(g)
  <2>1. \A d \in Convs : closed'[d] = closed[d] /\ Lessens(d)
      BY <1>5 DEF Dropped, Return, Lessens
  <2>2. at[g] \notin UseStates
      BY <1>5 DEF Dropped, Return, Goes, UseStates
  <2>3. \A d \in Convs : Using(d)' = Using(d) /\ \A h \in Using(d) : at'[h] = at[h]
      BY <1>2, <1>3, <2>2 DEF Using, UseStates
  <2>4. ASSUME NEW d \in Convs, ~closed'[d] PROVE Known(d)'
      BY <2>1, <2>3, <2>4, LessensKnown DEF KnownInv
  <2> QED
      BY <1>1, <2>4 DEF KnownInv
<1> QED
    BY <1>4, <1>5

\* A call that comes during a response is the response's, and else early.
LEMMA ToolCallKnown ==
    ASSUME OwnInv, KnownInv, NEW c \in Convs, NEW k \in Calls, ToolCall(c, k) PROVE KnownInv'
<1> USE DEF agentLeaves, generateVars, closeVars, agentVars
<1>1. HeldTypes'
    BY DEF ToolCall, KnownInv, HeldTypes
<1>2. UNCHANGED <<at, conv, closed, agent, turn, pending>> /\ agent[c] = "working"
    BY DEF ToolCall
<1>3. held[c]' = held[c] \cup {k}
      /\ IF turn[c] = "collecting" THEN content[c]' = content[c] \cup {k} /\ early[c]' = early[c]
                                   ELSE content[c]' = content[c] /\ early[c]' = early[c] \cup {k}
    BY DEF ToolCall, KnownInv, HeldTypes
<1>4. Using(c)' = Using(c)
    BY <1>2 DEF Using
<1>5. ~closed[c] => Known(c)'
    BY <1>2, <1>3, <1>4 DEF KnownInv, Known, Told, Collected
<1>6. ASSUME NEW d \in Convs \ {c}, ~closed'[d] PROVE Known(d)'
  <2>1. Lessens(d) /\ Using(d)' = Using(d)
      BY <1>2 DEF ToolCall, Lessens, KnownInv, HeldTypes, Using
  <2> QED
      BY <1>2, <1>6, <2>1, LessensKnown DEF KnownInv
<1> QED
    BY <1>1, <1>2, <1>5, <1>6 DEF KnownInv

LEMMA NextKnownInv == OwnInv /\ OwnInv' /\ KnownInv /\ [Next]_vars => KnownInv'
<1> SUFFICES ASSUME OwnInv, OwnInv', KnownInv, [Next]_vars PROVE KnownInv'
    OBVIOUS
<1> USE DEF harnessVars, agentLeaves, generateVars, closeVars, turnVars, agentVars, callVars
<1>1. ASSUME NEW g \in Generates, Generate(g) \/ Take(g) \/ CallerGivesUp(g) PROVE KnownInv'
    BY <1>1, TakeKnown, StartKnown, BeginKnown, PromptKnown, TakeHeldKnown, SettleKnown, OnKnown, OutKnown
    DEF Generate
<1>2. ASSUME NEW c \in Convs, Tear(c) \/ EndsTurn(c) \/ AgentDies(c) \/ IdleFires(c) PROVE KnownInv'
  <2>1. HeldTypes' /\ \A d \in Convs : closed'[d] = closed[d] /\ Lessens(d)
      BY <1>2 DEF Tear, EndsTurn, AgentDies, IdleFires, KnownInv, HeldTypes, Lessens, OwnInv, OwnerTypes
  <2>2. UNCHANGED <<at, conv>>
      BY <1>2 DEF Tear, EndsTurn, AgentDies, IdleFires
  <2> QED
      BY <2>1, <2>2, LessensKnownInv
<1>3. ASSUME NEW c \in Convs, SettleTimer(c) \/ PumpReads(c) \/ PumpEnds(c) PROVE KnownInv'
  <2>1. HeldTypes' /\ \A d \in Convs : closed'[d] = closed[d] /\ Lessens(d)
      BY <1>3 DEF SettleTimer, PumpReads, PumpEnds, Finish, KnownInv, HeldTypes, Lessens
  <2>2. UNCHANGED <<at, conv>>
      BY <1>3 DEF SettleTimer, PumpReads, PumpEnds
  <2> QED
      BY <2>1, <2>2, LessensKnownInv
<1>4. ASSUME NEW c \in Convs, IdleRuns(c) PROVE KnownInv'
  <2>1. HeldTypes' /\ \A d \in Convs : ~closed'[d] => ~closed[d] /\ Lessens(d)
      BY <1>4 DEF IdleRuns, KnownInv, HeldTypes, Lessens, OwnInv, OwnerTypes
  <2> QED
      BY <1>4, <2>1, LessensKnownInv DEF IdleRuns
<1>5. CASE Close
  <2>1. HeldTypes' /\ \A d \in Convs : ~closed'[d] => ~closed[d] /\ Lessens(d)
      BY <1>5 DEF Close, StartClose, KnownInv, HeldTypes, Lessens, OwnInv, OwnerTypes
  <2> QED
      BY <1>5, <2>1, LessensKnownInv DEF Close
<1>6. ASSUME NEW k \in Calls, GetsAnswer(k) \/ RequestEnded(k) \/ Left(k) \/ GivesUp(k) \/ Leave(k)
      PROVE  KnownInv'
  <2>1. HeldTypes' /\ \A d \in Convs : ~closed'[d] => ~closed[d] /\ Lessens(d)
      BY <1>6 DEF GetsAnswer, RequestEnded, Left, GivesUp, Leave, KnownInv, HeldTypes, Lessens, OwnInv, OwnerTypes
  <2>2. UNCHANGED <<at, conv>>
      BY <1>6 DEF GetsAnswer, RequestEnded, Left, GivesUp, Leave
  <2> QED
      BY <2>1, <2>2, LessensKnownInv
<1>7. ASSUME NEW c \in Convs, NEW k \in Calls, ToolCall(c, k) PROVE KnownInv'
    BY <1>7, ToolCallKnown
<1>8. CASE UNCHANGED vars
  <2>1. HeldTypes' /\ \A d \in Convs : closed'[d] = closed[d] /\ Lessens(d)
      BY <1>8 DEF vars, KnownInv, HeldTypes, Lessens
  <2> QED
      BY <1>8, <2>1, LessensKnownInv DEF vars
<1> QED
    BY <1>1, <1>2, <1>3, <1>4, <1>5, <1>6, <1>7, <1>8
    DEF Next, Ours, Agent, Conversation, Handler

\* Whatever is held in a kept conversation was told to the caller with the last
\* response, or will be with the next: toolCall, begin, next and settle hand a
\* held call on without dropping it, whoever closes the conversation meanwhile.
THEOREM HeldIsAlwaysKnown == Spec => []HeldIsKnown
<1>1. KnownInv => HeldIsKnown
    BY DEF KnownInv, Known, Told, HeldIsKnown
<1> QED
    BY <1>1, OwnInvHolds, InitKnownInv, NextKnownInv, PTL DEF Spec
-------------------------------------------------------------------------------
(* The tool calls.  Whose a call is stays as it is from its request on, so *)
(* that what one conversation does never reaches another's calls.          *)

CallTypes ==
    /\ modelClosed \in BOOLEAN /\ torn \in [Convs -> BOOLEAN] /\ made \in Nat
    /\ settling \in [Convs -> BOOLEAN]
    /\ unread \in [Convs -> {"nothing", "completed", "error"}] /\ pumpDone \in [Convs -> BOOLEAN]
    /\ ended \subseteq Calls
    /\ call \in [Calls -> {"new", "held", "answered", "cancelled", "leaving", "closing", "returned"}]

\* A call has an owner from its request on, which runs an agent; a conversation
\* lists none but its own; and only one whose agent was started is closed.
Owned ==
    /\ \A k \in Calls : call[k] = "new" <=> owner[k] = None
    /\ \A k \in Calls : owner[k] # None => agent[owner[k]] # "none"
    /\ \A c \in Convs : \A k \in pending[c] \cup content[c] \cup early[c] \cup held[c] : owner[k] = c
    /\ \A c \in Convs : agent[c] = "none" => ~closed[c]

\* A call that leaves was given up, and one that is held waits for its answer.
HeldWaits ==
    /\ \A k \in Calls : call[k] = "leaving" => k \in ended
    /\ \A c \in Convs : ~closed[c] => \A k \in held[c] : call[k] = "held"

\* The calls that next answers are held no more.
Taken == \A g \in Generates :
    at[g] = "answering" /\ ~closed[conv[g]] => \A k \in pending[conv[g]] : k \notin held[conv[g]]

\* The settle timer runs as long as a response collects and has a call.
Gathers(c) ==
    /\ settling[c] => turn[c] = "collecting" /\ content[c] # {}
    /\ turn[c] = "collecting" => early[c] = {} /\ (content[c] # {} => settling[c])

CallInv == CallTypes /\ Owned /\ HeldWaits /\ Taken /\ \A c \in Convs : Gathers(c)

LEMMA InitCallInv == Init => CallInv
<1> SUFFICES ASSUME Init PROVE CallInv
    OBVIOUS
<1>1. CallTypes /\ HeldWaits /\ Taken
    BY DEF Init, CallTypes, HeldWaits, Taken
<1>2. Owned
    BY DEF Init, Owned
<1>3. \A c \in Convs : Gathers(c)
    BY DEF Init, Gathers
<1> QED
    BY <1>1, <1>2, <1>3 DEF CallInv

\* The steps that change the tool calls, or whom they are listed by.
LEMMA NextCallTypes == OwnInv /\ KnownInv /\ CallInv /\ [Next]_vars => CallTypes'
<1> SUFFICES ASSUME OwnInv, KnownInv, CallInv, [Next]_vars PROVE CallTypes'
    OBVIOUS
<1> USE DEF CallInv, CallTypes, harnessVars, agentLeaves, generateVars, closeVars, turnVars, agentVars, callVars
<1>1. ASSUME NEW g \in Generates, Generate(g) \/ Take(g) \/ CallerGivesUp(g) PROVE CallTypes'
  <2>1. CASE Differs(g) \/ SettleFailed(g)
      BY <2>1 DEF Differs, SettleFailed, StartClose
  <2>2. CASE Settle(g) \/ AnswerHeld(g)
      BY <2>2 DEF Settle, AnswerHeld
  <2>3. CASE Begin(g)
      BY <2>3 DEF Begin
  <2>4. CASE Dropped(g) \/ Start(g) \/ Prompt(g) \/ TakeHeld(g) \/ Wait(g) \/ Return(g) \/ Take(g) \/ CallerGivesUp(g)
    <3>1. UNCHANGED <<modelClosed, torn, settling, unread, pumpDone, ended, call>> /\ made' \in {made, made + 1}
      <4>1. CASE Start(g)
          BY <4>1 DEF Start
      <4>2. CASE Dropped(g) \/ Prompt(g) \/ TakeHeld(g) \/ Wait(g) \/ Return(g) \/ Take(g) \/ CallerGivesUp(g)
          BY <4>2 DEF Dropped, Prompt, TakeHeld, Wait, Return, Take, CallerGivesUp
      <4> QED
          BY <2>4, <4>1, <4>2
    <3>2. made' \in Nat
        BY <3>1
    <3> QED
        BY <3>1, <3>2
  <2> QED
      BY <1>1, <2>1, <2>2, <2>3, <2>4 DEF Generate
<1>2. ASSUME NEW c \in Convs, Conversation(c) \/ Agent(c) \/ IdleFires(c) PROVE CallTypes'
  <2>1. CASE Tear(c) \/ AgentDies(c)
      BY <2>1 DEF Tear, AgentDies, Open
  <2>2. CASE SettleTimer(c) \/ PumpReads(c) \/ PumpEnds(c)
      BY <2>2 DEF SettleTimer, PumpReads, PumpEnds, Finish
  <2>3. CASE IdleRuns(c) \/ IdleFires(c) \/ EndsTurn(c)
      BY <2>3 DEF IdleRuns, IdleFires, EndsTurn
  <2>4. ASSUME NEW k \in Calls, ToolCall(c, k) PROVE CallTypes'
      BY <2>4 DEF ToolCall
  <2> QED
      BY <1>2, <2>1, <2>2, <2>3, <2>4 DEF Conversation, Agent
<1>3. ASSUME NEW k \in Calls, Handler(k) \/ GivesUp(k) PROVE CallTypes'
    BY <1>3 DEF Handler, GetsAnswer, RequestEnded, Leave, Left, GivesUp
<1>4. CASE Close
    BY <1>4 DEF Close, StartClose
<1>5. CASE UNCHANGED vars
    BY <1>5 DEF vars
<1> QED
    BY <1>1, <1>2, <1>3, <1>4, <1>5 DEF Next, Ours
\* A step that starts no call and no agent, and lists no more than before.
LEMMA LessOwned ==
    ASSUME Owned, UNCHANGED owner,
           \A k \in Calls : call'[k] = "new" <=> call[k] = "new",
           \A c \in Convs : agent'[c] = "none" => agent[c] = "none",
           \A c \in Convs : closed'[c] /\ agent'[c] = "none" => closed[c],
           \A c \in Convs : pending[c]' \cup content[c]' \cup early[c]' \cup held[c]'
                                \subseteq pending[c] \cup content[c] \cup early[c] \cup held[c],
           OwnerTypes, HeldTypes
    PROVE  Owned'
<1>1. \A k \in Calls : call'[k] = "new" <=> owner'[k] = None
    BY DEF Owned
<1>2. \A k \in Calls : owner'[k] # None => agent'[owner'[k]] # "none"
    BY DEF Owned, HeldTypes
<1>3. \A c \in Convs : \A k \in pending'[c] \cup content'[c] \cup early'[c] \cup held'[c] : owner'[k] = c
    BY DEF Owned
<1>4. \A c \in Convs : agent'[c] = "none" => ~closed'[c]
    BY DEF Owned
<1> QED
    BY <1>1, <1>2, <1>3, <1>4 DEF Owned

LEMMA NextOwned == OwnInv /\ KnownInv /\ CallInv /\ [Next]_vars => Owned'
<1> SUFFICES ASSUME OwnInv, KnownInv, CallInv, [Next]_vars PROVE Owned'
    OBVIOUS
<1> USE DEF harnessVars, agentLeaves, generateVars, closeVars, turnVars, agentVars, callVars
<1>0. /\ OwnerTypes /\ HeldTypes /\ CallTypes /\ Owned /\ HeldWaits
      /\ \A c \in Convs : agent[c] = "none" => live # c /\ idle[c] = "none" /\ \A g \in Generates : conv[g] # c
    BY DEF OwnInv, KnownInv, CallInv, Fresh
<1>a. \A c \in Convs : \A k \in held[c] : k \in Calls /\ call[k] # "new"
    BY <1>0, NoneIsNoConv DEF HeldTypes, Owned
<1>b. ASSUME NEW cs \in SUBSET Convs, StartClose(cs) PROVE \A k \in Calls : call'[k] = "new" <=> call[k] = "new"
  <2>1. \A k \in UNION {held[c] : c \in {c \in cs : ~closed[c]}} : k \in Calls => call[k] # "new"
      BY <1>a
  <2> QED
      BY <1>b, <2>1 DEF StartClose
<1>1. ASSUME NEW g \in Generates, Differs(g) \/ SettleFailed(g) PROVE Owned'
  <2>0. {conv[g]} \in SUBSET Convs
      BY <1>1 DEF OwnInv, Placed, UseStates, Differs, SettleFailed, Goes
  <2>1. \A k \in Calls : call'[k] = "new" <=> call[k] = "new"
      BY <1>1, <1>b, <2>0 DEF Differs, SettleFailed
  <2>2. \A c \in Convs : held'[c] \subseteq held[c] /\ (closed'[c] => closed[c] \/ c = conv[g])
      BY <1>0, <1>1 DEF Differs, SettleFailed, StartClose, OwnerTypes, HeldTypes
  <2> QED
      BY <1>0, <1>1, <2>1, <2>2, LessOwned DEF Differs, SettleFailed
<1>2. ASSUME NEW g \in Generates, Settle(g) PROVE Owned'
  <2> DEFINE out == {d \in Convs : d = (IF modelClosed THEN conv[g] ELSE live) /\ ~closed[d]}
  <2>0. call' = [k \in Calls |-> IF k \in UNION {held[d] : d \in out} THEN "cancelled" ELSE call[k]]
      BY <1>2 DEF Settle
  <2>1. \A k \in Calls : call'[k] = "new" <=> call[k] = "new"
    <3>1. \A k \in UNION {held[d] : d \in out} : k \in Calls => call[k] # "new"
        BY <1>a
    <3> HIDE DEF out
    <3> QED
        BY <2>0, <3>1
  <2>3. \A c \in Convs : held'[c] \subseteq held[c] /\ (closed'[c] => closed[c] \/ c = conv[g] \/ c = live)
      BY <1>0, <1>2 DEF Settle, OwnerTypes, HeldTypes
  <2>2. \A c \in Convs : pending'[c] \subseteq pending[c] \cup content[c]
      BY <1>0, <1>2 DEF Settle, HeldTypes
  <2> QED
      BY <1>0, <1>2, <2>1, <2>2, <2>3, LessOwned DEF Settle
<1>3. ASSUME NEW g \in Generates, Start(g) PROVE Owned'
  <2>0. agent' = agent \/ \E c \in First({x \in Convs : agent[x] = "none"}) : agent' = [agent EXCEPT ![c] = "working"]
      BY <1>3 DEF Start
  <2>1. \A c \in Convs : agent'[c] = "none" => agent[c] = "none"
      BY <1>0, <2>0, FirstIsOne DEF OwnerTypes
  <2>2. UNCHANGED <<owner, call, closed, pending, content, early, held>>
      BY <1>3 DEF Start
  <2> QED
      BY <1>0, <2>1, <2>2, LessOwned
<1>4. ASSUME NEW g \in Generates,
             Begin(g) \/ Prompt(g) \/ TakeHeld(g) \/ AnswerHeld(g)
      PROVE  Owned'
  <2>1. \A k \in Calls : call'[k] = "new" <=> call[k] = "new"
      BY <1>0, <1>4 DEF Begin, Prompt, TakeHeld, AnswerHeld, CallTypes
  <2>2. \A c \in Convs : agent'[c] = "none" => agent[c] = "none"
      BY <1>0, <1>4 DEF Begin, Prompt, TakeHeld, AnswerHeld, OwnerTypes
  <2>3. UNCHANGED <<owner, closed, pending>>
      BY <1>4 DEF Begin, Prompt, TakeHeld, AnswerHeld
  <2>4. \A c \in Convs : held'[c] \subseteq held[c] /\ content'[c] \subseteq content[c] \cup early[c]
                            /\ early'[c] \subseteq early[c]
      BY <1>0, <1>4 DEF Begin, Prompt, TakeHeld, AnswerHeld, HeldTypes
  <2> QED
      BY <1>0, <2>1, <2>2, <2>3, <2>4, LessOwned
<1>5. ASSUME NEW g \in Generates, Dropped(g) \/ Wait(g) \/ Return(g) \/ Take(g) \/ CallerGivesUp(g) PROVE Owned'
    BY <1>0, <1>5, LessOwned DEF Dropped, Wait, Return, Take, CallerGivesUp
<1>6. ASSUME NEW c \in Convs, Tear(c) \/ AgentDies(c) \/ EndsTurn(c) \/ IdleFires(c) PROVE Owned'
  <2>1. \A d \in Convs : agent'[d] = "none" => agent[d] = "none"
      BY <1>0, <1>6 DEF Tear, AgentDies, EndsTurn, IdleFires, OwnerTypes
  <2>2. UNCHANGED <<owner, call, closed, pending, content, early, held>>
      BY <1>6 DEF Tear, AgentDies, EndsTurn, IdleFires
  <2> QED
      BY <1>0, <2>1, <2>2, LessOwned
<1>7. ASSUME NEW c \in Convs, IdleRuns(c) PROVE Owned'
  <2>1. \A k \in Calls : call'[k] = "new" <=> call[k] = "new"
      BY <1>7, <1>a DEF IdleRuns
  <2>2. \A d \in Convs : held'[d] \subseteq held[d] /\ (closed'[d] => closed[d] \/ d = c) /\ agent[c] # "none"
      BY <1>0, <1>7 DEF IdleRuns, OwnerTypes, HeldTypes
  <2> QED
      BY <1>0, <1>7, <2>1, <2>2, LessOwned DEF IdleRuns
<1>8. ASSUME NEW c \in Convs, SettleTimer(c) \/ PumpReads(c) \/ PumpEnds(c) PROVE Owned'
    BY <1>0, <1>8, LessOwned DEF SettleTimer, PumpReads, PumpEnds, Finish
<1>9. ASSUME NEW k \in Calls, GetsAnswer(k) \/ RequestEnded(k) \/ Left(k) \/ GivesUp(k) PROVE Owned'
  <2>1. \A j \in Calls : call'[j] = "new" <=> call[j] = "new"
      BY <1>0, <1>9 DEF GetsAnswer, RequestEnded, Left, GivesUp, CallTypes
  <2>2. \A c \in Convs : held'[c] \subseteq held[c]
      BY <1>0, <1>9 DEF GetsAnswer, RequestEnded, Left, GivesUp, HeldTypes
  <2>3. UNCHANGED <<owner, agent, closed, pending, content, early>>
      BY <1>9 DEF GetsAnswer, RequestEnded, Left, GivesUp
  <2> QED
      BY <1>0, <2>1, <2>2, <2>3, LessOwned
<1>10. ASSUME NEW k \in Calls, Leave(k) PROVE Owned'
  <2> PICK c \in Convs : c = owner[k]
      BY <1>0, <1>10 DEF Leave, Owned, HeldTypes
  <2>1. \A j \in Calls : call'[j] = "new" <=> call[j] = "new"
      BY <1>0, <1>10 DEF Leave, CallTypes, Owned, HeldTypes
  <2>2. /\ \A d \in Convs : held'[d] \subseteq held[d] /\ (closed'[d] => closed[d] \/ d = c)
        /\ agent[c] # "none"
      BY <1>0, <1>10, NoneIsNoConv DEF Leave, OwnerTypes, HeldTypes, Owned
  <2> QED
      BY <1>0, <1>10, <2>1, <2>2, LessOwned DEF Leave
<1>11. CASE Close
  <2>1. \A k \in Calls : call'[k] = "new" <=> call[k] = "new"
      BY <1>11, <1>b DEF Close
  <2>2. \A c \in Convs : held'[c] \subseteq held[c] /\ (closed'[c] => closed[c] \/ c = live)
      BY <1>0, <1>11 DEF Close, StartClose, OwnerTypes, HeldTypes
  <2> QED
      BY <1>0, <1>11, <2>1, <2>2, LessOwned DEF Close
<1>12. ASSUME NEW c \in Convs, NEW k \in Calls, ToolCall(c, k) PROVE Owned'
  <2>1. /\ agent[c] = "working" /\ call[k] = "new" /\ owner[k] = None
        /\ UNCHANGED <<agent, closed, pending>>
        /\ owner' = [owner EXCEPT ![k] = c] /\ call' = [call EXCEPT ![k] = "held"]
      BY <1>0, <1>12, FirstIsOne DEF ToolCall, Owned
  <2>2. \A d \in Convs : /\ held'[d] \subseteq held[d] \cup {j \in {k} : d = c}
                            /\ content'[d] \subseteq content[d] \cup {j \in {k} : d = c}
                            /\ early'[d] \subseteq early[d] \cup {j \in {k} : d = c}
      BY <1>0, <1>12 DEF ToolCall, HeldTypes
  <2>3. \A j \in Calls : (call'[j] = "new" <=> owner'[j] = None) /\ (owner'[j] # None => agent'[owner'[j]] # "none")
      BY <1>0, <2>1, NoneIsNoConv DEF Owned, HeldTypes, CallTypes
  <2>4. ASSUME NEW d \in Convs, NEW j \in pending'[d] \cup content'[d] \cup early'[d] \cup held'[d]
        PROVE  owner'[j] = d
    <3>1. CASE j = k /\ d = c
        BY <2>1, <3>1 DEF HeldTypes, KnownInv
    <3>2. CASE j \in pending[d] \cup content[d] \cup early[d] \cup held[d]
        BY <1>0, <2>1, <3>2, NoneIsNoConv DEF Owned, HeldTypes
    <3> QED
        BY <2>1, <2>2, <2>4, <3>1, <3>2
  <2> QED
      BY <1>0, <2>1, <2>3, <2>4 DEF Owned
<1>13. CASE UNCHANGED vars
    BY <1>0, <1>13, LessOwned DEF vars
<1> QED
    BY <1>1, <1>2, <1>3, <1>4, <1>5, <1>6, <1>7, <1>8, <1>9, <1>10, <1>11, <1>12, <1>13
    DEF Next, Ours, Generate, Agent, Conversation, Handler
\* A step that gives no call up anew closes no conversation with a call that it
\* does not answer.
LEMMA NextHeldWaits == OwnInv /\ KnownInv /\ CallInv /\ [Next]_vars => HeldWaits'
<1> SUFFICES ASSUME OwnInv, KnownInv, CallInv, [Next]_vars PROVE HeldWaits'
    OBVIOUS
<1> USE DEF harnessVars, agentLeaves, generateVars, closeVars, turnVars, agentVars, callVars
<1>0. /\ OwnerTypes /\ HeldTypes /\ CallTypes /\ HeldWaits
      /\ \A c \in Convs : \A k \in pending[c] \cup held[c] : k \in Calls /\ owner[k] = c
    BY DEF OwnInv, KnownInv, CallInv, Owned, HeldTypes
<1>1. ASSUME NEW cs \in SUBSET Convs, StartClose(cs), UNCHANGED ended PROVE HeldWaits'
  <2>1. \A k \in Calls : call'[k] = "leaving" => call[k] = "leaving"
      BY <1>0, <1>1 DEF StartClose, CallTypes
  <2>2. ASSUME NEW c \in Convs, ~closed'[c], NEW k \in held'[c] PROVE call'[k] = "held"
    <3>1. c \notin cs /\ ~closed[c] /\ k \in held[c]
        BY <1>1, <2>2 DEF StartClose
    <3>2. k \notin UNION {held[d] : d \in {d \in cs : ~closed[d]}}
        BY <1>0, <3>1
    <3> QED
        BY <1>0, <1>1, <3>1, <3>2 DEF StartClose, HeldWaits
  <2> QED
      BY <1>0, <1>1, <2>1, <2>2 DEF HeldWaits
<1>2. ASSUME NEW g \in Generates, Differs(g) \/ SettleFailed(g) PROVE HeldWaits'
  <2>1. {conv[g]} \in SUBSET Convs
      BY <1>2 DEF OwnInv, Placed, UseStates, Differs, SettleFailed, Goes
  <2> QED
      BY <1>1, <1>2, <2>1 DEF Differs, SettleFailed
<1>3. ASSUME NEW g \in Generates, Settle(g) PROVE HeldWaits'
  <2> DEFINE out == {d \in Convs : d = (IF modelClosed THEN conv[g] ELSE live) /\ ~closed[d]}
  <2>1. /\ call' = [k \in Calls |-> IF k \in UNION {held[d] : d \in out} THEN "cancelled" ELSE call[k]]
        /\ held' = [d \in Convs |-> IF d \in out THEN {} ELSE held[d]]
        /\ \A d \in Convs : ~closed'[d] => ~closed[d] /\ d \notin out
        /\ UNCHANGED ended
      BY <1>0, <1>3 DEF Settle, OwnerTypes
  <2>2. out \subseteq Convs
      OBVIOUS
  <2> HIDE DEF out
  <2>3. \A k \in Calls : call'[k] = "leaving" => call[k] = "leaving"
      BY <1>0, <2>1 DEF CallTypes
  <2>4. ASSUME NEW c \in Convs, ~closed'[c], NEW k \in held'[c] PROVE call'[k] = "held"
    <3>1. c \notin out /\ ~closed[c] /\ k \in held[c]
        BY <2>1, <2>4
    <3>2. k \notin UNION {held[d] : d \in out}
        BY <1>0, <2>2, <3>1
    <3> QED
        BY <1>0, <2>1, <3>1, <3>2 DEF HeldWaits
  <2> QED
      BY <1>0, <2>1, <2>3, <2>4 DEF HeldWaits
<1>4. ASSUME NEW g \in Generates, TakeHeld(g) PROVE HeldWaits'
  <2>1. \A c \in Convs : held'[c] \subseteq held[c]
      BY <1>0, <1>4 DEF TakeHeld, HeldTypes
  <2> QED
      BY <1>0, <1>4, <2>1 DEF TakeHeld, HeldWaits
<1>6. ASSUME NEW g \in Generates,
             \/ Dropped(g) \/ Start(g) \/ Begin(g) \/ Prompt(g) \/ Wait(g) \/ Return(g)
             \/ Take(g) \/ CallerGivesUp(g)
      PROVE  HeldWaits'
  <2>1. UNCHANGED <<call, ended, closed, held>>
      BY <1>6 DEF Dropped, Start, Begin, Prompt, Wait, Return, Take, CallerGivesUp
  <2> QED
      BY <1>0, <2>1 DEF HeldWaits
<1>7. ASSUME NEW c \in Convs, IdleRuns(c) PROVE HeldWaits'
  <2>1. \A k \in Calls : call'[k] = "leaving" => call[k] = "leaving"
      BY <1>7 DEF IdleRuns
  <2>2. ASSUME NEW d \in Convs, ~closed'[d], NEW k \in held'[d] PROVE call'[k] = "held"
    <3>1. d # c /\ ~closed[d] /\ k \in held[d] /\ k \notin held[c]
        BY <1>0, <1>7, <2>2 DEF IdleRuns, OwnerTypes, HeldTypes
    <3> QED
        BY <1>0, <1>7, <3>1 DEF IdleRuns, HeldWaits
  <2> QED
      BY <1>0, <1>7, <2>1, <2>2 DEF IdleRuns, HeldWaits
<1>8. ASSUME NEW c \in Convs, Tear(c) \/ AgentDies(c) \/ EndsTurn(c) \/ IdleFires(c)
                               \/ SettleTimer(c) \/ PumpReads(c) \/ PumpEnds(c)
      PROVE  HeldWaits'
  <2>1. UNCHANGED <<call, closed, held>> /\ ended \subseteq ended'
      BY <1>8 DEF Tear, AgentDies, EndsTurn, IdleFires, SettleTimer, PumpReads, PumpEnds
  <2> QED
      BY <1>0, <2>1 DEF HeldWaits
<1>9. ASSUME NEW c \in Convs, NEW k \in Calls, ToolCall(c, k) PROVE HeldWaits'
  <2>1. /\ UNCHANGED <<closed, ended>> /\ call' = [call EXCEPT ![k] = "held"]
        /\ held' = [held EXCEPT ![c] = held[c] \cup {k}]
      BY <1>9 DEF ToolCall
  <2> QED
      BY <1>0, <2>1 DEF HeldWaits, CallTypes, HeldTypes
<1>10. ASSUME NEW k \in Calls, GivesUp(k) \/ GetsAnswer(k) \/ Left(k) PROVE HeldWaits'
  <2>1. UNCHANGED <<closed, held>> /\ ended \subseteq ended'
      BY <1>10 DEF GivesUp, GetsAnswer, Left
  <2>2. \A j \in Calls : (call'[j] = "leaving" => call[j] = "leaving") /\ (call[j] = "held" => call'[j] = "held")
      BY <1>0, <1>10 DEF GivesUp, GetsAnswer, Left, CallTypes
  <2> QED
      BY <1>0, <2>1, <2>2 DEF HeldWaits
<1>11. ASSUME NEW k \in Calls, RequestEnded(k) PROVE HeldWaits'
  <2>1. /\ k \in ended /\ UNCHANGED <<ended, closed>>
        /\ call' = [call EXCEPT ![k] = "leaving"]
        /\ held' = [held EXCEPT ![owner[k]] = held[owner[k]] \ {k}]
      BY <1>11 DEF RequestEnded
  <2>2. \A c \in Convs : held'[c] = held[c] \ {k}
      BY <1>0, <2>1 DEF HeldTypes
  <2> QED
      BY <1>0, <2>1, <2>2 DEF HeldWaits, CallTypes
<1>12. ASSUME NEW k \in Calls, Leave(k) PROVE HeldWaits'
  <2> PICK c \in Convs : c = owner[k]
      BY <1>0, <1>12 DEF Leave, CallInv, Owned, HeldTypes
  <2>1. \A j \in Calls : call'[j] = "leaving" => call[j] = "leaving"
      BY <1>12 DEF Leave
  <2>2. ASSUME NEW d \in Convs, ~closed'[d], NEW j \in held'[d] PROVE call'[j] = "held"
    <3>1. d # c /\ ~closed[d] /\ j \in held[d] /\ j \notin held[c] /\ j # k
        BY <1>0, <1>12, <2>2 DEF Leave, OwnerTypes, HeldTypes
    <3> QED
        BY <1>0, <1>12, <3>1 DEF Leave, HeldWaits
  <2> QED
      BY <1>0, <1>12, <2>1, <2>2 DEF Leave, HeldWaits
<1>13. ASSUME NEW g \in Generates, AnswerHeld(g) PROVE HeldWaits'
  <2> PICK c \in Convs : c = conv[g]
      BY <1>13 DEF OwnInv, Placed, UseStates, AnswerHeld, Goes
  <2>1. /\ UNCHANGED <<closed, held, ended>> /\ at[g] = "answering"
        /\ call' = [k \in Calls |-> IF k \in pending[c] /\ call[k] = "held" THEN "answered" ELSE call[k]]
      BY <1>13 DEF AnswerHeld, Goes
  <2>2. \A k \in Calls : call'[k] = "leaving" => call[k] = "leaving"
      BY <2>1
  <2>3. ASSUME NEW d \in Convs, ~closed[d], NEW k \in held[d] PROVE k \notin pending[c]
      BY <1>0, <2>1, <2>3 DEF CallInv, Taken
  <2> QED
      BY <1>0, <2>1, <2>2, <2>3 DEF HeldWaits
<1>14. CASE Close
  <2>1. {live} \cap Convs \in SUBSET Convs
      OBVIOUS
  <2> QED
      BY <1>1, <1>14, <2>1 DEF Close
<1>15. CASE UNCHANGED vars
    BY <1>0, <1>15 DEF vars, HeldWaits
<1> QED
    BY <1>2, <1>3, <1>4, <1>6, <1>7, <1>8, <1>9, <1>10, <1>11, <1>12, <1>13, <1>14, <1>15
    DEF Next, Ours, Generate, Agent, Conversation, Handler
LEMMA NextTaken == OwnInv /\ KnownInv /\ CallInv /\ [Next]_vars => Taken'
<1> SUFFICES ASSUME OwnInv, KnownInv, CallInv, [Next]_vars PROVE Taken'
    OBVIOUS
<1> USE DEF harnessVars, agentLeaves, generateVars, closeVars, turnVars, agentVars, callVars
<1>0. /\ OwnerTypes /\ HeldTypes /\ CallTypes /\ Taken
      /\ \A c \in Convs : \A k \in pending[c] : owner[k] = c
      /\ \A g \in Generates : at[g] = "answering" => conv[g] \in Convs /\ agent[conv[g]] # "none"
    BY DEF OwnInv, KnownInv, CallInv, Owned, Placed, UseStates, Fresh
\* Most steps leave the calls that are being answered alone.
<1>1. ASSUME \A g \in Generates : at'[g] = "answering" => at[g] = "answering" /\ conv'[g] = conv[g],
             \A c \in Convs : ~closed'[c] => ~closed[c] /\ held'[c] \subseteq held[c],
             \A g \in Generates : at[g] = "answering" /\ ~closed[conv[g]] => pending'[conv[g]] = pending[conv[g]]
      PROVE  Taken'
    BY <1>0, <1>1 DEF Taken
<1>2. ASSUME NEW g \in Generates, Differs(g) \/ SettleFailed(g) PROVE Taken'
  <2>1. \A c \in Convs : ~closed'[c] => ~closed[c] /\ held'[c] \subseteq held[c]
      BY <1>0, <1>2 DEF Differs, SettleFailed, StartClose, OwnerTypes, HeldTypes
  <2> QED
      BY <1>0, <1>1, <1>2, <2>1 DEF Differs, SettleFailed, Goes, OwnerTypes
<1>3. ASSUME NEW g \in Generates, Settle(g) PROVE Taken'
  <2>1. /\ at[g] = "answered" /\ conv[g] \in Convs
        /\ \A c \in Convs : ~closed'[c] => ~closed[c] /\ held'[c] \subseteq held[c]
        /\ pending' = [pending EXCEPT ![conv[g]] = content[conv[g]]]
      BY <1>0, <1>3 DEF Settle, Goes, OwnerTypes, HeldTypes, OwnInv, Placed, UseStates
  <2>2. ASSUME NEW h \in Generates, at[h] = "answering", ~closed[conv[h]] PROVE conv[h] # conv[g]
      BY <1>0, <2>1, <2>2 DEF OwnInv, OneOwner, Using, UseStates
  <2>3. \A h \in Generates : at'[h] = "answering" => at[h] = "answering" /\ conv'[h] = conv[h]
      BY <1>0, <1>3 DEF Settle, Goes, OwnerTypes
  <2> QED
      BY <1>0, <1>1, <2>1, <2>2, <2>3 DEF HeldTypes
<1>4. ASSUME NEW g \in Generates, TakeHeld(g) PROVE Taken'
  <2> PICK c \in Convs : c = conv[g]
      BY <1>4 DEF OwnInv, Placed, UseStates, TakeHeld
  <2>1. UNCHANGED <<closed, conv, pending>> /\ \A d \in Convs : held'[d] \subseteq held[d]
      BY <1>0, <1>4 DEF TakeHeld, HeldTypes
  <2>2. \A h \in Generates : h # g => at'[h] = at[h]
      BY <1>0, <1>4 DEF TakeHeld, Goes, OwnerTypes
  <2>3. at'[g] = "answering" => \A k \in pending[c] : k \notin held'[c]
      BY <1>0, <1>4 DEF TakeHeld, Goes, OwnerTypes, HeldTypes
  <2> QED
      BY <1>0, <2>1, <2>2, <2>3 DEF Taken
<1>5. ASSUME NEW g \in Generates,
             \/ Dropped(g) \/ Start(g) \/ Begin(g) \/ Prompt(g) \/ AnswerHeld(g)
             \/ Wait(g) \/ Return(g) \/ Take(g) \/ CallerGivesUp(g)
      PROVE  Taken'
  <2>1. UNCHANGED <<pending, closed, held>>
      BY <1>5 DEF Dropped, Start, Begin, Prompt, AnswerHeld, Wait, Return, Take, CallerGivesUp
  <2>2. \A h \in Generates : at'[h] = "answering" => at[h] = "answering" /\ conv'[h] = conv[h]
    <3>1. CASE Start(g)
        BY <1>0, <3>1 DEF Start, Goes, OwnerTypes
    <3>2. CASE Take(g)
        BY <1>0, <3>2 DEF Take, Goes, OwnerTypes
    <3>3. CASE Dropped(g) \/ Begin(g) \/ Prompt(g) \/ AnswerHeld(g) \/ Wait(g) \/ Return(g) \/ CallerGivesUp(g)
        BY <1>0, <3>3 DEF Dropped, Begin, Prompt, AnswerHeld, Wait, Return, CallerGivesUp, Goes, OwnerTypes
    <3> QED
        BY <1>5, <3>1, <3>2, <3>3
  <2> QED
      BY <1>1, <2>1, <2>2
<1>6. ASSUME NEW c \in Convs, Tear(c) \/ AgentDies(c) \/ EndsTurn(c) \/ IdleFires(c)
                               \/ SettleTimer(c) \/ PumpReads(c) \/ PumpEnds(c)
      PROVE  Taken'
  <2>1. UNCHANGED <<at, conv, closed, held, pending>>
      BY <1>6 DEF Tear, AgentDies, EndsTurn, IdleFires, SettleTimer, PumpReads, PumpEnds
  <2> QED
      BY <1>1, <2>1
<1>7. ASSUME NEW c \in Convs, IdleRuns(c) PROVE Taken'
  <2>1. \A d \in Convs : ~closed'[d] => ~closed[d] /\ held'[d] \subseteq held[d]
      BY <1>0, <1>7 DEF IdleRuns, OwnerTypes, HeldTypes
  <2> QED
      BY <1>1, <1>7, <2>1 DEF IdleRuns
<1>8. ASSUME NEW c \in Convs, NEW k \in Calls, ToolCall(c, k) PROVE Taken'
  <2>1. /\ UNCHANGED <<at, conv, closed, pending>> /\ owner[k] = None
        /\ held' = [held EXCEPT ![c] = held[c] \cup {k}]
      BY <1>8, FirstIsOne DEF ToolCall, CallInv, Owned
  <2> QED
      BY <1>0, <2>1, NoneIsNoConv DEF Taken, HeldTypes
<1>9. ASSUME NEW k \in Calls, GivesUp(k) \/ GetsAnswer(k) \/ Left(k) \/ RequestEnded(k) PROVE Taken'
  <2>1. UNCHANGED <<at, conv, closed, pending>> /\ \A c \in Convs : held'[c] \subseteq held[c]
      BY <1>0, <1>9 DEF GivesUp, GetsAnswer, Left, RequestEnded, HeldTypes
  <2> QED
      BY <1>1, <2>1
<1>10. ASSUME NEW k \in Calls, Leave(k) PROVE Taken'
  <2>1. \A d \in Convs : ~closed'[d] => ~closed[d] /\ held'[d] \subseteq held[d]
      BY <1>0, <1>10 DEF Leave, OwnerTypes, HeldTypes
  <2> QED
      BY <1>1, <1>10, <2>1 DEF Leave
<1>11. CASE Close
  <2>1. \A d \in Convs : ~closed'[d] => ~closed[d] /\ held'[d] \subseteq held[d]
      BY <1>0, <1>11 DEF Close, StartClose, OwnerTypes, HeldTypes
  <2> QED
      BY <1>1, <1>11, <2>1 DEF Close
<1>12. CASE UNCHANGED vars
    BY <1>1, <1>12 DEF vars
<1> QED
    BY <1>2, <1>3, <1>4, <1>5, <1>6, <1>7, <1>8, <1>9, <1>10, <1>11, <1>12
    DEF Next, Ours, Generate, Agent, Conversation, Handler

\* The settle timer of a response, whoever ends it.
LEMMA NextGathers == OwnInv /\ KnownInv /\ CallInv /\ [Next]_vars => \A d \in Convs : Gathers(d)'
<1> SUFFICES ASSUME OwnInv, KnownInv, CallInv, [Next]_vars, NEW d \in Convs PROVE Gathers(d)'
    OBVIOUS
<1> USE DEF harnessVars, agentLeaves, generateVars, closeVars, turnVars, agentVars, callVars
<1>0. OwnerTypes /\ HeldTypes /\ CallTypes /\ Gathers(d)
    BY DEF OwnInv, KnownInv, CallInv
<1>1. ASSUME UNCHANGED <<turn, content, settling, early>> PROVE Gathers(d)'
    BY <1>0, <1>1 DEF Gathers
<1>2. ASSUME NEW g \in Generates, Begin(g) PROVE Gathers(d)'
  <2>1. CASE conv[g] = d
      BY <1>0, <1>2, <2>1 DEF Begin, Gathers, HeldTypes, CallTypes
  <2>2. CASE conv[g] # d
      BY <1>0, <1>2, <2>2 DEF Begin, Gathers, HeldTypes, CallTypes
  <2> QED
      BY <2>1, <2>2
<1>3. ASSUME NEW g \in Generates, Start(g) PROVE Gathers(d)'
  <2>1. ASSUME NEW c \in First({x \in Convs : agent[x] = "none"}), turn' = [turn EXCEPT ![c] = "collecting"],
               UNCHANGED <<content, settling, early>>
        PROVE  Gathers(d)'
    <3>1. c \in Convs /\ agent[c] = "none"
        BY FirstIsOne
    <3>2. early[c] = {} /\ content[c] = {}
      <4>1. \A k \in Calls : owner[k] # c
          BY <3>1, NoneIsNoConv DEF CallInv, Owned
      <4> QED
          BY <1>0, <3>1, <4>1 DEF CallInv, Owned, HeldTypes
    <3> QED
        BY <1>0, <2>1, <3>2 DEF Gathers, HeldTypes
  <2> QED
      BY <1>1, <1>3, <2>1 DEF Start
<1>4. ASSUME NEW g \in Generates,
             \/ Differs(g) \/ SettleFailed(g) \/ Settle(g) \/ TakeHeld(g) \/ Dropped(g) \/ Prompt(g)
             \/ AnswerHeld(g) \/ Wait(g) \/ Return(g) \/ Take(g) \/ CallerGivesUp(g)
      PROVE  Gathers(d)'
  <2>1. UNCHANGED <<turn, content, settling, early>>
      BY <1>4 DEF Differs, SettleFailed, Settle, TakeHeld, Dropped, Prompt, AnswerHeld, Wait, Return, Take, CallerGivesUp
  <2> QED
      BY <1>1, <2>1
<1>5. ASSUME NEW c \in Convs, NEW how \in {"complete", "failed"}, Finish(c, how), UNCHANGED early PROVE Gathers(d)'
    BY <1>0, <1>5 DEF Finish, Gathers, HeldTypes, CallTypes
<1>6. ASSUME NEW c \in Convs, SettleTimer(c) \/ PumpReads(c) \/ PumpEnds(c) PROVE Gathers(d)'
  <2>1. UNCHANGED early /\ (UNCHANGED turnVars \/ \E how \in {"complete", "failed"} : Finish(c, how))
      BY <1>6 DEF SettleTimer, PumpReads, PumpEnds
  <2> QED
      BY <1>1, <1>5, <2>1
<1>7. ASSUME NEW c \in Convs, NEW k \in Calls, ToolCall(c, k) PROVE Gathers(d)'
  <2>1. CASE d # c
      BY <1>0, <1>1, <1>7, <2>1 DEF ToolCall, Gathers, HeldTypes, CallTypes
  <2>2. CASE d = c /\ turn[d] = "collecting"
    <3>1. settling'[d] = TRUE /\ content'[d] = content[d] \cup {k} /\ early' = early /\ turn' = turn
        BY <1>0, <1>7, <2>2 DEF ToolCall, HeldTypes, CallTypes
    <3> QED
        BY <1>0, <2>2, <3>1 DEF Gathers
  <2>3. CASE d = c /\ turn[d] # "collecting"
    <3>1. settling' = settling /\ content' = content /\ turn' = turn
        BY <1>7, <2>3 DEF ToolCall
    <3> QED
        BY <1>0, <2>3, <3>1 DEF Gathers
  <2> QED
      BY <2>1, <2>2, <2>3
<1>8. ASSUME NEW c \in Convs, Tear(c) \/ AgentDies(c) \/ EndsTurn(c) \/ IdleFires(c) \/ IdleRuns(c) PROVE Gathers(d)'
    BY <1>1, <1>8 DEF Tear, AgentDies, EndsTurn, IdleFires, IdleRuns
<1>9. ASSUME NEW k \in Calls, Handler(k) \/ GivesUp(k) PROVE Gathers(d)'
    BY <1>1, <1>9 DEF Handler, GetsAnswer, RequestEnded, Leave, Left, GivesUp
<1>10. CASE Close \/ UNCHANGED vars
    BY <1>1, <1>10 DEF Close, vars
<1> QED
    BY <1>2, <1>3, <1>4, <1>6, <1>7, <1>8, <1>9, <1>10 DEF Next, Ours, Generate, Agent, Conversation

\* Every variable keeps its type: above all, a settle timer runs only for a
\* response that collects and has a call.
THEOREM TypeCorrect == Spec => []TypeOK
<1>1. OwnInv /\ KnownInv /\ CallInv => TypeOK
    BY DEF OwnInv, KnownInv, CallInv, OwnerTypes, AtStates, HeldTypes, CallTypes, Gathers, TypeOK
<1>2. OwnInv /\ KnownInv /\ CallInv /\ [Next]_vars => CallInv'
    BY NextCallTypes, NextOwned, NextHeldWaits, NextTaken, NextGathers DEF CallInv
<1> QED
    BY <1>1, <1>2, OwnInvHolds, InitKnownInv, NextKnownInv, InitCallInv, PTL DEF Spec
-------------------------------------------------------------------------------
(* No call of Generate and agent wait on each other.  Of a conversation    *)
(* whose agent gave up no call, every call that is not answered is held,   *)
(* and what is held while a response collects belongs to that response,    *)
(* whose settle timer then runs.                                           *)

Clean(c) == \A k \in ended : owner[k] # c
Unanswered(c) == {k \in Calls : owner[k] = c /\ call[k] = "held"}

\* A conversation in use is open; an agent that rests waits for nothing; and the
\* calls are held, until next takes those it answers.
Waits(c) ==
    /\ Using(c) # {} => ~closed[c]
    /\ agent[c] = "resting" => Open(c) = {}
    /\ ~closed[c] /\ (\A g \in Using(c) : at[g] \notin {"answering", "failed"}) => Unanswered(c) \subseteq held[c]
    /\ \A g \in Using(c) :
         /\ at[g] = "answering" =>
                /\ pending[c] # {} /\ pending[c] \subseteq Unanswered(c)
                /\ Unanswered(c) \subseteq held[c] \cup pending[c]
         /\ at[g] = "waiting" /\ agent[c] = "resting" =>
                unread[c] # "nothing" \/ turn[c] # "collecting" \/ content[c] # {}

WaitInv == \A c \in Convs : Clean(c) => Waits(c)

LEMMA InitWaitInv == Init => WaitInv
BY NoneIsNoConv DEF Init, WaitInv, Waits, Using, UseStates, Unanswered, None

\* Nobody takes back that a call was given up.
LEMMA CleanWas ==
    ASSUME KnownInv, CallInv, [Next]_vars, NEW c \in Convs, Clean(c)'
    PROVE  Clean(c)
<1>1. ended \subseteq ended'
  <2>1. ASSUME NEW g \in Generates, Generate(g) \/ Take(g) \/ CallerGivesUp(g) PROVE ended' = ended
      BY <2>1 DEF Generate, Differs, Dropped, Start, Begin, Prompt, TakeHeld, AnswerHeld, Wait, SettleFailed,
                  Settle, Return, Take, CallerGivesUp, callVars
  <2>2. ASSUME NEW d \in Convs, Conversation(d) \/ Agent(d) \/ IdleFires(d) PROVE ended \subseteq ended'
      BY <2>2 DEF Conversation, Agent, Tear, IdleRuns, SettleTimer, PumpReads, PumpEnds, EndsTurn, AgentDies,
                  ToolCall, IdleFires, callVars
  <2>3. ASSUME NEW k \in Calls, Handler(k) \/ GivesUp(k) PROVE ended \subseteq ended'
      BY <2>3 DEF Handler, GetsAnswer, RequestEnded, Leave, Left, GivesUp
  <2>4. CASE Close \/ UNCHANGED vars
      BY <2>4 DEF Close, vars, callVars
  <2> QED
      BY <2>1, <2>2, <2>3, <2>4 DEF Next, Ours
<1>2. \A k \in Calls : owner[k] = c => owner'[k] = c
  <2>1. UNCHANGED owner \/ \E d \in Convs, k \in Calls : ToolCall(d, k)
    <3>1. ASSUME NEW g \in Generates, Generate(g) \/ Take(g) \/ CallerGivesUp(g) PROVE UNCHANGED owner
        BY <3>1 DEF Generate, Differs, Dropped, Start, Begin, Prompt, TakeHeld, AnswerHeld, Wait, SettleFailed,
                    Settle, Return, Take, CallerGivesUp, callVars
    <3>2. ASSUME NEW d \in Convs, Conversation(d) \/ EndsTurn(d) \/ AgentDies(d) \/ IdleFires(d) PROVE UNCHANGED owner
        BY <3>2 DEF Conversation, Tear, IdleRuns, SettleTimer, PumpReads, PumpEnds, EndsTurn, AgentDies,
                    IdleFires, callVars
    <3>3. ASSUME NEW k \in Calls, Handler(k) \/ GivesUp(k) PROVE UNCHANGED owner
        BY <3>3 DEF Handler, GetsAnswer, RequestEnded, Leave, Left, GivesUp
    <3>4. CASE Close \/ UNCHANGED vars
        BY <3>4 DEF Close, vars, callVars
    <3> QED
        BY <3>1, <3>2, <3>3, <3>4 DEF Next, Ours, Agent
  <2>2. ASSUME NEW d \in Convs, NEW k \in Calls, ToolCall(d, k) PROVE owner[k] = None /\ owner' = [owner EXCEPT ![k] = d]
      BY <2>2, FirstIsOne DEF ToolCall, CallInv, Owned
  <2> QED
      BY <2>1, <2>2, NoneIsNoConv DEF KnownInv, HeldTypes
<1> QED
    BY <1>1, <1>2 DEF Clean, CallInv, CallTypes
\* A step that leaves the use of a conversation alone, and its calls: those it
\* holds, and those nobody has answered; others may return.
LEMMA KeepsWaits ==
    ASSUME NEW c, Waits(c), Using(c)' = Using(c), \A g \in Using(c) : at'[g] = at[g],
           closed'[c] => closed[c] \/ Using(c) = {},
           ~closed'[c] => ~closed[c] /\ held'[c] = held[c] /\ Unanswered(c)' = Unanswered(c),
           pending'[c] = pending[c], Open(c)' \subseteq Open(c),
           agent'[c] = "resting" => agent[c] = "resting",
           unread[c] # "nothing" \/ turn[c] # "collecting" \/ content[c] # {} =>
               unread'[c] # "nothing" \/ turn'[c] # "collecting" \/ content'[c] # {}
    PROVE  Waits(c)'
<1>1. Using(c)' # {} => ~closed'[c]
    BY DEF Waits
<1>2. agent'[c] = "resting" => Open(c)' = {}
    BY DEF Waits
<1>3. ~closed'[c] /\ (\A g \in Using(c)' : at'[g] \notin {"answering", "failed"}) => Unanswered(c)' \subseteq held'[c]
    BY DEF Waits
<1>4. ASSUME NEW g \in Using(c)', at'[g] = "answering"
      PROVE  /\ pending'[c] # {} /\ pending'[c] \subseteq Unanswered(c)'
             /\ Unanswered(c)' \subseteq held'[c] \cup pending'[c]
    BY <1>1, <1>4 DEF Waits
<1>5. ASSUME NEW g \in Using(c)', at'[g] = "waiting", agent'[c] = "resting"
      PROVE  unread'[c] # "nothing" \/ turn'[c] # "collecting" \/ content'[c] # {}
    BY <1>5 DEF Waits
<1> QED
    BY <1>1, <1>2, <1>3, <1>4, <1>5 DEF Waits

\* Calls of other conversations are nothing to this one.
LEMMA SameCalls ==
    ASSUME NEW c, \A k \in Calls : (owner'[k] = c <=> owner[k] = c) /\ (owner[k] = c => call'[k] = call[k])
    PROVE  Unanswered(c)' = Unanswered(c) /\ Open(c)' = Open(c)
BY DEF Unanswered, Open

\* A conversation that nobody uses any more, and that was closed.
LEMMA LeftWaits ==
    ASSUME NEW c, Waits(c), Using(c)' = {}, closed'[c], Open(c)' \subseteq Open(c),
           agent'[c] = "resting" => agent[c] = "resting"
    PROVE  Waits(c)'
BY DEF Waits
\* The steps of the agent, of the idle timer, of the settle timer and of pump.
LEMMA ConversationWaits ==
    ASSUME OwnInv, KnownInv, CallInv, NEW d \in Convs, Clean(d), Waits(d), NEW c \in Convs,
           Conversation(c) \/ AgentDies(c) \/ EndsTurn(c) \/ IdleFires(c)
    PROVE  Waits(d)'
<1> USE DEF harnessVars, agentLeaves, generateVars, closeVars, turnVars, agentVars, callVars
<1>0. OwnerTypes /\ HeldTypes /\ CallTypes /\ \A k \in Calls : k \in held[c] => owner[k] = c
    BY DEF OwnInv, KnownInv, CallInv, Owned
<1>1. UNCHANGED <<at, conv, pending, owner>> /\ Using(d)' = Using(d)
    BY DEF Conversation, Tear, IdleRuns, SettleTimer, PumpReads, PumpEnds, AgentDies, EndsTurn, IdleFires, Using
<1>2. CASE IdleRuns(c)
  <2>1. UNCHANGED <<agent, unread, turn, content>> /\ c # None
      BY <1>2, NoneIsNoConv DEF IdleRuns
  <2>2. CASE c # d \/ closed[d]
    <3>1. closed'[d] = closed[d] /\ held'[d] = held[d]
        BY <1>0, <1>2, <2>2 DEF IdleRuns, OwnerTypes, HeldTypes
    <3>2. \A k \in Calls : owner[k] = d => call'[k] = call[k]
        BY <1>0, <1>2, <2>2 DEF IdleRuns
    <3> QED
        BY <1>1, <2>1, <3>1, <3>2, SameCalls, KeepsWaits
  <2>3. CASE c = d /\ ~closed[d]
    <3>1. closed'[d] /\ Using(d) = {}
        BY <1>0, <1>2, <2>3 DEF IdleRuns, OwnerTypes, OwnInv, Fresh, OneOwner
    <3>2. Open(d)' \subseteq Open(d)
      <4>1. \A k \in held[d] : call[k] = "held"
          BY <2>3 DEF CallInv, HeldWaits
      <4>2. \A k \in Calls : call'[k] \notin {"new", "returned"} => call[k] \notin {"new", "returned"}
          BY <1>0, <1>2, <2>3, <4>1 DEF IdleRuns
      <4> QED
          BY <1>1, <4>2 DEF Open
    <3> QED
        BY <1>1, <2>1, <3>1, <3>2, LeftWaits
  <2> QED
      BY <2>2, <2>3
<1>3. ASSUME UNCHANGED <<closed, held, call>>,
             agent'[d] = "resting" => agent[d] = "resting",
             unread[d] # "nothing" \/ turn[d] # "collecting" \/ content[d] # {} =>
                 unread'[d] # "nothing" \/ turn'[d] # "collecting" \/ content'[d] # {}
      PROVE  Waits(d)'
    BY <1>1, <1>3, SameCalls, KeepsWaits
<1>4. CASE Tear(c) \/ AgentDies(c) \/ IdleFires(c)
    BY <1>0, <1>3, <1>4 DEF Tear, AgentDies, IdleFires, OwnerTypes
<1>5. CASE SettleTimer(c) \/ PumpEnds(c)
  <2>1. UNCHANGED <<closed, held, call, agent, unread, content>>
      BY <1>5 DEF SettleTimer, PumpEnds, Finish
  <2>2. turn'[d] = "collecting" => turn[d] = "collecting"
      BY <1>0, <1>5 DEF SettleTimer, PumpEnds, Finish, HeldTypes
  <2> QED
      BY <1>3, <2>1, <2>2
<1>6. CASE PumpReads(c)
  <2>1. UNCHANGED <<closed, held, call, agent, content>>
      BY <1>6 DEF PumpReads, Finish
  <2>2. turn'[d] = "collecting" => turn[d] = "collecting"
      BY <1>0, <1>6 DEF PumpReads, Finish, HeldTypes
  <2>3. CASE c # d
    <3>1. unread'[d] = unread[d]
        BY <1>0, <1>6, <2>3 DEF PumpReads, CallTypes
    <3> QED
        BY <1>3, <2>1, <2>2, <3>1
  <2>4. CASE c = d /\ content[d] = {}
    <3>1. turn'[d] # "collecting"
        BY <1>0, <1>6, <2>4 DEF PumpReads, Finish, HeldTypes
    <3> QED
        BY <1>3, <2>1, <3>1
  <2>5. CASE content[d] # {}
      BY <1>3, <2>1, <2>5
  <2> QED
      BY <2>3, <2>4, <2>5
<1>7. CASE EndsTurn(c)
  <2>1. UNCHANGED <<closed, held, call, turn, content>>
      BY <1>7 DEF EndsTurn
  <2>2. CASE c # d
    <3>1. agent'[d] = agent[d] /\ unread'[d] = unread[d]
        BY <1>0, <1>7, <2>2 DEF EndsTurn, OwnerTypes, CallTypes
    <3> QED
        BY <1>3, <2>1, <3>1
  <2>3. CASE c = d
    <3>1. Open(d) = {}
        BY <1>7, <2>3 DEF EndsTurn, Clean, Open
    <3>2. unread'[d] # "nothing"
        BY <1>0, <1>7, <2>3 DEF EndsTurn, CallTypes
    <3>3. Open(d)' = Open(d) /\ Unanswered(d)' = Unanswered(d)
        BY <1>1, <2>1 DEF Open, Unanswered
    <3> QED
        BY <1>1, <2>1, <3>1, <3>2, <3>3 DEF Waits
  <2> QED
      BY <2>2, <2>3
<1> QED
    BY <1>2, <1>4, <1>5, <1>6, <1>7 DEF Conversation

\* A call that comes is held, whatever its response does.
LEMMA ToolCallWaits ==
    ASSUME OwnInv, KnownInv, CallInv, NEW d \in Convs, Waits(d), NEW c \in Convs, NEW k \in Calls, ToolCall(c, k)
    PROVE  Waits(d)'
<1> USE DEF agentLeaves, generateVars, closeVars, turnVars, agentVars
<1>1. /\ UNCHANGED <<at, conv, pending, closed, agent, unread, turn>> /\ Using(d)' = Using(d)
      /\ agent[c] = "working" /\ call[k] = "new" /\ owner[k] = None
      /\ owner' = [owner EXCEPT ![k] = c] /\ call' = [call EXCEPT ![k] = "held"]
      /\ held' = [held EXCEPT ![c] = held[c] \cup {k}]
    BY FirstIsOne DEF ToolCall, Using, CallInv, Owned
<1>2. CASE c # d
  <2>1. held'[d] = held[d] /\ content'[d] = content[d]
      BY <1>1, <1>2 DEF ToolCall, KnownInv, HeldTypes
  <2>2. \A j \in Calls : (owner'[j] = d <=> owner[j] = d) /\ (owner[j] = d => call'[j] = call[j])
      BY <1>1, <1>2, NoneIsNoConv DEF KnownInv, HeldTypes, CallInv, CallTypes
  <2> QED
      BY <1>1, <2>1, <2>2, SameCalls, KeepsWaits
<1>3. CASE c = d
  <2>1. held'[d] = held[d] \cup {k}
      BY <1>1, <1>3 DEF KnownInv, HeldTypes
  <2>2. Unanswered(d)' = Unanswered(d) \cup {k}
      BY <1>1, <1>3 DEF KnownInv, HeldTypes, CallInv, CallTypes, Unanswered
  <2>3. agent'[d] # "resting"
      BY <1>1, <1>3
  <2>4. ASSUME NEW g \in Using(d), at[g] = "answering"
        PROVE  /\ pending'[d] # {} /\ pending'[d] \subseteq Unanswered(d)'
               /\ Unanswered(d)' \subseteq held'[d] \cup pending'[d]
      BY <1>1, <2>1, <2>2, <2>4 DEF Waits
  <2>5. ~closed'[d] /\ (\A g \in Using(d)' : at'[g] \notin {"answering", "failed"}) => Unanswered(d)' \subseteq held'[d]
      BY <1>1, <2>1, <2>2 DEF Waits
  <2>6. Using(d)' # {} => ~closed'[d]
      BY <1>1 DEF Waits
  <2> QED
      BY <1>1, <2>3, <2>4, <2>5, <2>6 DEF Waits
<1> QED
    BY <1>2, <1>3

\* What becomes of a call takes nothing from a conversation that gave none up.
LEMMA HandlerWaits ==
    ASSUME OwnInv, KnownInv, CallInv, NEW d \in Convs, Clean(d), Waits(d), NEW k \in Calls, Handler(k) \/ GivesUp(k)
    PROVE  Waits(d)'
<1> USE DEF harnessVars, agentLeaves, generateVars, closeVars, turnVars, agentVars, callVars
<1>0. OwnerTypes /\ HeldTypes /\ CallTypes /\ HeldWaits
      /\ \A c \in Convs : \A j \in held[c] : owner[j] = c
    BY DEF OwnInv, KnownInv, CallInv, Owned
<1>1. UNCHANGED <<at, conv, pending, owner, agent, unread, turn, content>> /\ Using(d)' = Using(d)
    BY DEF Handler, GetsAnswer, RequestEnded, Leave, Left, GivesUp, Using
<1>2. CASE GetsAnswer(k) \/ Left(k) \/ GivesUp(k)
  <2>1. UNCHANGED <<closed, held>>
      BY <1>2 DEF GetsAnswer, Left, GivesUp
  <2>2. /\ \A j \in Calls : call[j] = "held" <=> call'[j] = "held"
        /\ \A j \in Calls : call'[j] \notin {"new", "returned"} => call[j] \notin {"new", "returned"}
      BY <1>0, <1>2 DEF GetsAnswer, Left, GivesUp, CallTypes
  <2>3. Unanswered(d)' = Unanswered(d) /\ Open(d)' \subseteq Open(d)
      BY <1>1, <2>2 DEF Unanswered, Open
  <2> QED
      BY <1>1, <2>1, <2>3, KeepsWaits
<1>3. CASE RequestEnded(k)
  <2>1. owner[k] # d
      BY <1>3 DEF RequestEnded, Clean
  <2>2. /\ UNCHANGED closed /\ call' = [call EXCEPT ![k] = "leaving"]
        /\ held' = [held EXCEPT ![owner[k]] = held[owner[k]] \ {k}]
      BY <1>3 DEF RequestEnded
  <2>3. held'[d] = held[d]
      BY <1>0, <2>1, <2>2 DEF HeldTypes
  <2>4. \A j \in Calls : j # k => call'[j] = call[j]
      BY <1>0, <2>2 DEF CallTypes
  <2>5. Unanswered(d)' = Unanswered(d) /\ Open(d)' = Open(d)
      BY <1>1, <2>1, <2>4, SameCalls
  <2> QED
      BY <1>1, <2>2, <2>3, <2>5, KeepsWaits
<1>4. CASE Leave(k)
  <2>1. owner[k] # d /\ owner[k] \in Convs
      BY <1>4 DEF Leave, CallInv, Owned, HeldWaits, Clean, KnownInv, HeldTypes
  <2>2. closed'[d] = closed[d] /\ held'[d] = held[d]
      BY <1>0, <1>4, <2>1 DEF Leave, OwnerTypes, HeldTypes
  <2>3. \A j \in Calls : owner[j] = d => call'[j] = call[j]
      BY <1>0, <1>4, <2>1 DEF Leave
  <2> QED
      BY <1>1, <2>2, <2>3, SameCalls, KeepsWaits
<1> QED
    BY <1>2, <1>3, <1>4 DEF Handler
\* Closing conversations leaves the calls of the others alone.
LEMMA CloseCalls ==
    ASSUME OwnInv, KnownInv, CallInv, NEW d \in Convs, NEW cs \in SUBSET Convs, StartClose(cs), UNCHANGED owner
    PROVE  /\ closed'[d] = (closed[d] \/ d \in cs)
           /\ Open(d)' \subseteq Open(d)
           /\ ~closed'[d] => held'[d] = held[d] /\ Unanswered(d)' = Unanswered(d)
<1>0. OwnerTypes /\ HeldTypes /\ CallTypes /\ HeldWaits
      /\ \A c \in Convs : \A k \in held[c] : owner[k] = c
    BY DEF OwnInv, KnownInv, CallInv, Owned
<1>1. closed'[d] = (closed[d] \/ d \in cs)
    BY <1>0 DEF StartClose, OwnerTypes
<1>2. \A k \in UNION {held[c] : c \in {c \in cs : ~closed[c]}} :
          \E c \in cs : ~closed[c] /\ owner[k] = c /\ call[k] = "held"
    BY <1>0 DEF HeldWaits
<1>3. \A k \in Calls : call'[k] \notin {"new", "returned"} => call[k] \notin {"new", "returned"}
    BY <1>0, <1>2 DEF StartClose
<1>4. ASSUME ~closed'[d] PROVE held'[d] = held[d] /\ Unanswered(d)' = Unanswered(d)
  <2>1. d \notin cs
      BY <1>0, <1>1, <1>4 DEF OwnerTypes
  <2>2. \A k \in Calls : owner[k] = d => call'[k] = call[k]
      BY <1>0, <1>2, <2>1 DEF StartClose
  <2>3. held'[d] = held[d]
      BY <1>0, <2>1 DEF StartClose
  <2> QED
      BY <2>2, <2>3, SameCalls
<1> QED
    BY <1>1, <1>3, <1>4 DEF Open

LEMMA CloseWaits ==
    ASSUME OwnInv, KnownInv, CallInv, NEW d \in Convs, Waits(d), Close
    PROVE  Waits(d)'
<1>1. {live} \cap Convs \in SUBSET Convs
    OBVIOUS
<1>2. /\ UNCHANGED <<at, conv, pending, owner, agent, unread, turn, content>>
      /\ StartClose({live} \cap Convs) /\ Using(d)' = Using(d)
    BY DEF Close, Using, generateVars, turnVars, agentVars
<1>3. Using(d) = {} \/ live # d
    BY DEF Waits, OwnInv, OneOwner, Fresh
<1>4. /\ closed'[d] = (closed[d] \/ d \in {live} \cap Convs) /\ Open(d)' \subseteq Open(d)
      /\ ~closed'[d] => held'[d] = held[d] /\ Unanswered(d)' = Unanswered(d)
    BY <1>1, <1>2, CloseCalls
<1>5. d \in {live} \cap Convs <=> d = live
    OBVIOUS
<1> QED
    BY <1>2, <1>3, <1>4, <1>5, KeepsWaits

\* A call of Generate on another conversation.
LEMMA OthersUse ==
    ASSUME NEW g \in Generates, NEW d,
           \A h \in Generates \ {g} : at'[h] = at[h] /\ conv'[h] = conv[h],
           conv[g] # d \/ at[g] \notin UseStates, conv'[g] # d \/ at'[g] \notin UseStates
    PROVE  Using(d)' = Using(d) /\ \A h \in Using(d) : at'[h] = at[h]
BY DEF Using
\* A call of Generate takes a conversation that nobody uses, or starts one whose
\* agent has asked for nothing yet.
LEMMA TakeWaits ==
    ASSUME OwnInv, KnownInv, CallInv, NEW d \in Convs, Waits(d), NEW g \in Generates, Take(g)
    PROVE  Waits(d)'
<1> USE DEF closeVars, turnVars, agentVars, callVars
<1>1. /\ UNCHANGED <<closed, pending, held, owner, call, agent, unread, turn, content>>
      /\ at[g] = "idle" /\ Unanswered(d)' = Unanswered(d) /\ Open(d)' = Open(d)
    BY DEF Take, Goes, Unanswered, Open
<1>2. \A h \in Generates \ {g} : at'[h] = at[h] /\ conv'[h] = conv[h]
    BY DEF Take, Goes, OwnInv, OwnerTypes
<1>3. CASE at'[g] = "taken" /\ conv'[g] = d
  <2>1. live = d /\ ~closed[d] /\ idle[d] = "armed"
      BY <1>3, NoneIsNoConv DEF Take, Goes, OwnInv, OwnerTypes, AtStates
  <2>2. Using(d) = {}
      BY <2>1 DEF OwnInv, Fresh, OneOwner
  <2>3. Using(d)' \subseteq {g}
      BY <1>2, <2>2 DEF Using
  <2> QED
      BY <1>1, <1>3, <2>1, <2>2, <2>3 DEF Waits
<1>4. CASE ~(at'[g] = "taken" /\ conv'[g] = d)
  <2>1. at'[g] \in {"starting", "taken"}
      BY DEF Take, Goes, OwnInv, OwnerTypes
  <2>2. Using(d)' = Using(d) /\ \A h \in Using(d) : at'[h] = at[h]
      BY <1>1, <1>2, <1>4, <2>1, OthersUse DEF UseStates
  <2> QED
      BY <1>1, <2>2, KeepsWaits
<1> QED
    BY <1>3, <1>4

LEMMA StartWaits ==
    ASSUME OwnInv, KnownInv, CallInv, NEW d \in Convs, Waits(d), NEW g \in Generates, Start(g)
    PROVE  Waits(d)'
<1> USE DEF harnessVars, closeVars, turnVars, agentVars, callVars
<1>1. /\ UNCHANGED <<closed, pending, held, owner, call, unread, content>>
      /\ at[g] = "starting" /\ Unanswered(d)' = Unanswered(d) /\ Open(d)' = Open(d)
    BY DEF Start, Goes, Unanswered, Open
<1>2. \A h \in Generates \ {g} : at'[h] = at[h] /\ conv'[h] = conv[h]
    BY DEF Start, Goes, OwnInv, OwnerTypes
<1>3. ASSUME NEW c \in First({x \in Convs : agent[x] = "none"}),
             NEW to \in {"waiting", "failed"}, Goes(g, "starting", to), conv' = [conv EXCEPT ![g] = c],
             turn' = [turn EXCEPT ![c] = "collecting"], agent' = [agent EXCEPT ![c] = "working"]
      PROVE  Waits(d)'
  <2>1. c \in Convs /\ agent[c] = "none"
      BY FirstIsOne
  <2>2. CASE c = d
    <3>1. Using(d) = {} /\ ~closed[d] /\ Unanswered(d) = {}
        BY <2>1, <2>2, NoneIsNoConv DEF OwnInv, Fresh, Using, CallInv, Owned, Unanswered
    <3>2. agent'[d] = "working"
        BY <1>3, <2>2 DEF OwnInv, OwnerTypes
    <3>3. Using(d)' \subseteq {g} /\ at'[g] = to
        BY <1>2, <1>3, <3>1 DEF Using, Goes, OwnInv, OwnerTypes
    <3> QED
        BY <1>1, <3>1, <3>2, <3>3 DEF Waits
  <2>3. CASE c # d
    <3>1. agent'[d] = agent[d] /\ turn'[d] = turn[d] /\ conv'[g] # d
        BY <1>3, <2>3 DEF OwnInv, OwnerTypes, KnownInv, HeldTypes
    <3>2. Using(d)' = Using(d) /\ \A h \in Using(d) : at'[h] = at[h]
        BY <1>1, <1>2, <3>1, OthersUse DEF UseStates
    <3> QED
        BY <1>1, <3>1, <3>2, KeepsWaits
  <2> QED
      BY <2>2, <2>3
<1>4. CASE Goes(g, "starting", "idle") /\ UNCHANGED <<conv, turn, agent>>
  <2>1. at'[g] = "idle"
      BY <1>4 DEF Goes, OwnInv, OwnerTypes
  <2>2. Using(d)' = Using(d) /\ \A h \in Using(d) : at'[h] = at[h]
      BY <1>1, <1>2, <2>1, OthersUse DEF UseStates
  <2> QED
      BY <1>1, <1>4, <2>2, KeepsWaits
<1> QED
    BY <1>3, <1>4 DEF Start

\* A call of Generate gives its conversation up, or is done with one it gave up.
LEMMA OutWaits ==
    ASSUME OwnInv, KnownInv, CallInv, NEW d \in Convs, Waits(d), NEW g \in Generates,
           Differs(g) \/ SettleFailed(g) \/ Dropped(g) \/ Return(g)
    PROVE  Waits(d)'
<1> USE DEF harnessVars, closeVars, turnVars, agentVars, callVars
<1>1. UNCHANGED <<pending, owner, agent, unread, turn, content>>
    BY DEF Differs, SettleFailed, Dropped, Return
<1>2. \A h \in Generates \ {g} : at'[h] = at[h] /\ conv'[h] = conv[h]
    BY DEF Differs, SettleFailed, Dropped, Return, Goes, OwnInv, OwnerTypes
<1>3. at'[g] \notin UseStates
    BY DEF Differs, SettleFailed, Dropped, Return, Goes, UseStates, OwnInv, OwnerTypes
<1>4. CASE Differs(g) \/ SettleFailed(g)
  <2>1. StartClose({conv[g]}) /\ conv[g] \in Convs /\ g \in Using(conv[g]) /\ UNCHANGED conv
      BY <1>4 DEF Differs, SettleFailed, Goes, OwnInv, Placed, Using, UseStates
  <2>2. /\ closed'[d] = (closed[d] \/ d \in {conv[g]}) /\ Open(d)' \subseteq Open(d)
        /\ ~closed'[d] => held'[d] = held[d] /\ Unanswered(d)' = Unanswered(d)
      BY <1>1, <2>1, CloseCalls
  <2>3. CASE conv[g] = d
    <3>1. Using(d) = {g}
        BY <2>1, <2>3 DEF Waits, OwnInv, OneOwner, Fresh
    <3>2. Using(d)' = {}
        BY <1>2, <1>3, <3>1 DEF Using
    <3> QED
        BY <1>1, <2>2, <2>3, <3>2, LeftWaits
  <2>4. CASE conv[g] # d
    <3>1. Using(d)' = Using(d) /\ \A h \in Using(d) : at'[h] = at[h]
        BY <1>2, <1>3, <2>4, OthersUse
    <3>2. closed'[d] = closed[d]
        BY <2>2, <2>4 DEF OwnInv, OwnerTypes
    <3> QED
        BY <1>1, <2>2, <3>1, <3>2, KeepsWaits
  <2> QED
      BY <2>3, <2>4
<1>5. CASE Dropped(g) \/ Return(g)
  <2>1. UNCHANGED <<closed, held, call>> /\ at[g] \notin UseStates
      BY <1>5 DEF Dropped, Return, Goes, UseStates
  <2>2. Using(d)' = Using(d) /\ \A h \in Using(d) : at'[h] = at[h]
      BY <1>2, <1>3, <2>1, OthersUse
  <2>3. Unanswered(d)' = Unanswered(d) /\ Open(d)' = Open(d)
      BY <1>1, <2>1, SameCalls
  <2> QED
      BY <1>1, <2>1, <2>2, <2>3, KeepsWaits
<1> QED
    BY <1>4, <1>5
\* A call of Generate is alone in the use of an open conversation.
LEMMA OnlyUser ==
    ASSUME OwnInv, NEW g \in Generates, NEW c \in Convs, c = conv[g], at[g] \in UseStates
    PROVE  g \in Using(c) /\ (~closed[c] => Using(c) = {g})
<1>1. g \in Using(c) /\ agent[c] # "none"
    BY DEF OwnInv, Fresh, Using
<1>2. ASSUME ~closed[c], NEW h \in Using(c) PROVE h = g
    BY <1>1, <1>2 DEF OwnInv, OneOwner, Using
<1> QED
    BY <1>1, <1>2

\* Settle keeps a conversation whose calls are all held, for the next call.
LEMMA SettleWaits ==
    ASSUME OwnInv, KnownInv, CallInv, NEW d \in Convs, Waits(d), NEW g \in Generates, Settle(g)
    PROVE  Waits(d)'
<1> USE DEF turnVars, agentVars
<1> PICK c \in Convs : c = conv[g]
    BY DEF OwnInv, Placed, UseStates, Settle, Goes
<1> DEFINE out == {e \in Convs : e = (IF modelClosed THEN c ELSE live) /\ ~closed[e]}
<1>0. OwnerTypes /\ HeldTypes /\ CallTypes /\ HeldWaits
      /\ \A e \in Convs : \A k \in held[e] : owner[k] = e
    BY DEF OwnInv, KnownInv, CallInv, Owned
<1>1. /\ UNCHANGED <<owner, agent, unread, turn, content>> /\ at[g] = "answered" /\ g \in Using(c)
      /\ closed' = [e \in Convs |-> closed[e] \/ e \in out]
      /\ held' = [e \in Convs |-> IF e \in out THEN {} ELSE held[e]]
      /\ call' = [k \in Calls |-> IF k \in UNION {held[e] : e \in out} THEN "cancelled" ELSE call[k]]
    BY DEF Settle, Goes, Using, UseStates
<1>2. /\ \A h \in Generates \ {g} : at'[h] = at[h] /\ conv'[h] = conv[h]
      /\ at'[g] \notin UseStates
    BY DEF Settle, Goes, OwnInv, OwnerTypes, UseStates
<1>3. \A e \in out : e \in Convs /\ ~closed[e]
    OBVIOUS
<1>4. d \in out <=> d = (IF modelClosed THEN c ELSE live) /\ ~closed[d]
    OBVIOUS
<1> HIDE DEF out
<1>5. \A k \in UNION {held[e] : e \in out} : call[k] = "held" /\ owner[k] \in out
    BY <1>0, <1>3 DEF HeldWaits
<1>6. Open(d)' \subseteq Open(d)
    BY <1>1, <1>5 DEF Open
<1>7. ASSUME d \notin out PROVE held'[d] = held[d] /\ (closed'[d] <=> closed[d]) /\ Unanswered(d)' = Unanswered(d)
  <2>1. \A k \in Calls : owner[k] = d => call'[k] = call[k]
      BY <1>1, <1>5, <1>7
  <2>2. held'[d] = held[d]
      BY <1>1, <1>7
  <2>3. closed'[d] <=> closed[d]
      BY <1>1, <1>7
  <2> QED
      BY <1>1, <2>1, <2>2, <2>3, SameCalls
<1>8. CASE c # d
  <2>1. Using(d)' = Using(d) /\ \A h \in Using(d) : at'[h] = at[h]
      BY <1>2, <1>8, OthersUse
  <2>2. pending'[d] = pending[d]
      BY <1>0, <1>8 DEF Settle, HeldTypes
  <2>3. CASE d \in out
    <3>1. d = live /\ ~closed[d] /\ closed'[d]
        BY <1>1, <1>4, <1>8, <2>3
    <3>2. Using(d) = {}
        BY <3>1 DEF OwnInv, Fresh, OneOwner
    <3> QED
        BY <1>1, <1>6, <2>1, <3>1, <3>2, LeftWaits
  <2>4. CASE d \notin out
      BY <1>1, <1>6, <1>7, <2>1, <2>2, <2>4, KeepsWaits
  <2> QED
      BY <2>3, <2>4
<1>9. CASE c = d
  <2>0. g \in Using(d) /\ (~closed[d] => Using(d) = {g})
      BY <1>1, <1>9, OnlyUser DEF UseStates
  <2>1. Using(d) = {g} /\ ~closed[d]
      BY <2>0 DEF Waits
  <2>2. Using(d)' = {}
      BY <1>2, <2>1 DEF Using
  <2>3. CASE d \in out
      BY <1>1, <1>6, <2>2, <2>3, LeftWaits
  <2>4. CASE d \notin out
    <3>1. Unanswered(d) \subseteq held[d]
        BY <1>1, <2>1 DEF Waits
    <3> QED
        BY <1>1, <1>6, <1>7, <2>2, <2>4, <3>1 DEF Waits
  <2> QED
      BY <2>3, <2>4
<1> QED
    BY <1>8, <1>9

\* A call of Generate goes on within its use of a conversation: what it leaves of
\* its own, and that it leaves the others'.
LEMMA GoOnWaits ==
    ASSUME OwnInv, NEW d \in Convs, Waits(d), NEW g \in Generates, NEW c \in Convs, c = conv[g],
           NEW from \in UseStates, NEW to \in UseStates, Goes(g, from, to),
           UNCHANGED <<conv, closed, pending, unread>>,
           c # d => /\ held'[d] = held[d] /\ agent'[d] = agent[d] /\ turn'[d] = turn[d] /\ content'[d] = content[d]
                    /\ Unanswered(d)' = Unanswered(d) /\ Open(d)' = Open(d),
           c = d /\ ~closed[d] =>
               /\ agent'[d] = "resting" => agent[d] = "resting" /\ to # "waiting"
               /\ Open(d)' \subseteq Open(d)
               /\ to \notin {"answering", "failed"} => Unanswered(d)' \subseteq held'[d]
               /\ to = "answering" => /\ pending'[d] # {} /\ pending'[d] \subseteq Unanswered(d)'
                                      /\ Unanswered(d)' \subseteq held'[d] \cup pending'[d]
    PROVE  Waits(d)'
<1>1. at' = [at EXCEPT ![g] = to] /\ at[g] = from
    BY DEF Goes
<1>2. \A h \in Generates \ {g} : at'[h] = at[h] /\ conv'[h] = conv[h]
    BY <1>1 DEF OwnInv, OwnerTypes
<1>3. CASE c # d
  <2>1. Using(d)' = Using(d) /\ \A h \in Using(d) : at'[h] = at[h]
      BY <1>2, <1>3, OthersUse
  <2> QED
      BY <1>3, <2>1, KeepsWaits
<1>4. CASE c = d
  <2>0. g \in Using(d) /\ (~closed[d] => Using(d) = {g})
      BY <1>1, <1>4, OnlyUser
  <2>1. Using(d) = {g} /\ ~closed[d]
      BY <2>0 DEF Waits
  <2>2. Using(d)' = {g} /\ at'[g] = to /\ ~closed'[d]
      BY <1>1, <2>1 DEF Using, OwnInv, OwnerTypes
  <2>3. agent'[d] = "resting" => Open(d)' = {} /\ to # "waiting"
      BY <1>4, <2>1 DEF Waits
  <2>4. to \notin {"answering", "failed"} => Unanswered(d)' \subseteq held'[d]
      BY <1>4, <2>1
  <2>5. to = "answering" => /\ pending'[d] # {} /\ pending'[d] \subseteq Unanswered(d)'
                            /\ Unanswered(d)' \subseteq held'[d] \cup pending'[d]
      BY <1>4, <2>1
  <2> QED
      BY <2>2, <2>3, <2>4, <2>5 DEF Waits
<1> QED
    BY <1>3, <1>4
LEMMA BeginWaits ==
    ASSUME OwnInv, KnownInv, CallInv, NEW d \in Convs, Waits(d), NEW g \in Generates, Begin(g)
    PROVE  Waits(d)'
<1> USE DEF closeVars, agentVars, callVars
<1> PICK c \in Convs : c = conv[g]
    BY DEF OwnInv, Placed, UseStates, Begin, Goes
<1>1. /\ UNCHANGED <<conv, closed, pending, held, owner, call, unread, agent>> /\ Goes(g, "taken", "begun")
      /\ Unanswered(d)' = Unanswered(d) /\ Open(d)' = Open(d)
    BY DEF Begin, Unanswered, Open
<1>2. c # d => turn'[d] = turn[d] /\ content'[d] = content[d]
    BY DEF Begin, KnownInv, HeldTypes
<1>3. c = d /\ ~closed[d] => Unanswered(d) \subseteq held[d]
  <2> SUFFICES ASSUME c = d, ~closed[d] PROVE Unanswered(d) \subseteq held[d]
      OBVIOUS
  <2>1. Using(d) = {g} /\ at[g] = "taken"
      BY <1>1, OnlyUser DEF Goes, UseStates
  <2> QED
      BY <2>1 DEF Waits
<1> QED
    BY <1>1, <1>2, <1>3, GoOnWaits DEF UseStates

LEMMA PromptWaits ==
    ASSUME OwnInv, KnownInv, CallInv, NEW d \in Convs, Waits(d), NEW g \in Generates, Prompt(g)
    PROVE  Waits(d)'
<1> USE DEF closeVars, turnVars, callVars
<1> PICK c \in Convs : c = conv[g]
    BY DEF OwnInv, Placed, UseStates, Prompt, Goes
<1>1. /\ UNCHANGED <<conv, closed, pending, held, owner, call, unread, turn, content>> /\ at[g] = "begun"
      /\ Unanswered(d)' = Unanswered(d) /\ Open(d)' = Open(d)
    BY DEF Prompt, Unanswered, Open
<1>2. c = d /\ ~closed[d] => Unanswered(d) \subseteq held[d]
  <2> SUFFICES ASSUME c = d, ~closed[d] PROVE Unanswered(d) \subseteq held[d]
      OBVIOUS
  <2>1. Using(d) = {g}
      BY <1>1, OnlyUser DEF UseStates
  <2> QED
      BY <1>1, <2>1 DEF Waits
<1>3. CASE Goes(g, "begun", "waiting") /\ agent' = [agent EXCEPT ![c] = "working"]
  <2>1. (c # d => agent'[d] = agent[d]) /\ (c = d => agent'[d] = "working")
      BY <1>3 DEF OwnInv, OwnerTypes
  <2> QED
      BY <1>1, <1>2, <1>3, <2>1, GoOnWaits DEF UseStates
<1>4. CASE Goes(g, "begun", "failed") /\ UNCHANGED agent
    BY <1>1, <1>2, <1>4, GoOnWaits DEF UseStates
<1> QED
    BY <1>3, <1>4 DEF Prompt

LEMMA TakeHeldWaits ==
    ASSUME OwnInv, KnownInv, CallInv, NEW d \in Convs, Waits(d), NEW g \in Generates, TakeHeld(g)
    PROVE  Waits(d)'
<1> USE DEF closeVars, turnVars, agentVars, callVars
<1> PICK c \in Convs : c = conv[g]
    BY DEF OwnInv, Placed, UseStates, TakeHeld, Goes
<1>1. /\ UNCHANGED <<conv, closed, pending, owner, call, unread, agent, turn, content>> /\ at[g] = "begun"
      /\ Unanswered(d)' = Unanswered(d) /\ Open(d)' = Open(d) /\ pending[c] # {}
    BY DEF TakeHeld, Unanswered, Open
<1>2. c # d => held'[d] = held[d]
    BY DEF TakeHeld, KnownInv, HeldTypes
<1>3. CASE Goes(g, "begun", "failed")
    BY <1>1, <1>2, <1>3, GoOnWaits DEF UseStates
<1>4. CASE Goes(g, "begun", "answering") /\ pending[c] \subseteq held[c] /\ held' = [held EXCEPT ![c] = held[c] \ pending[c]]
  <2>1. ASSUME c = d, ~closed[d]
        PROVE  pending[d] \subseteq Unanswered(d) /\ Unanswered(d) \subseteq held'[d] \cup pending[d]
    <3>1. Using(d) = {g}
        BY <1>1, <2>1, OnlyUser DEF UseStates
    <3>2. Unanswered(d) \subseteq held[d] /\ held[d] \subseteq Unanswered(d)
        BY <1>1, <2>1, <3>1 DEF Waits, Unanswered, CallInv, Owned, HeldWaits, KnownInv, HeldTypes
    <3>3. held'[d] = held[d] \ pending[d]
        BY <1>4, <2>1 DEF KnownInv, HeldTypes
    <3> QED
        BY <1>4, <2>1, <3>2, <3>3
  <2> QED
      BY <1>1, <1>2, <1>4, <2>1, GoOnWaits DEF UseStates
<1> QED
    BY <1>3, <1>4 DEF TakeHeld

\* The agent waits for the calls that are answered, and so it does not rest.
LEMMA AnswerHeldWaits ==
    ASSUME OwnInv, KnownInv, CallInv, NEW d \in Convs, Waits(d), NEW g \in Generates, AnswerHeld(g)
    PROVE  Waits(d)'
<1> USE DEF closeVars, turnVars, agentVars
<1> PICK c \in Convs : c = conv[g]
    BY DEF OwnInv, Placed, UseStates, AnswerHeld, Goes
<1>1. /\ UNCHANGED <<conv, closed, pending, held, owner, unread, agent, turn, content>> /\ at[g] = "answering"
      /\ Goes(g, "answering", "waiting")
      /\ call' = [k \in Calls |-> IF k \in pending[c] /\ call[k] = "held" THEN "answered" ELSE call[k]]
    BY DEF AnswerHeld, Goes
<1>2. c # d => Unanswered(d)' = Unanswered(d) /\ Open(d)' = Open(d)
  <2>1. c # d => \A k \in Calls : owner[k] = d => call'[k] = call[k]
      BY <1>1 DEF CallInv, Owned
  <2> QED
      BY <1>1, <2>1, SameCalls
<1>3. Open(d)' = Open(d)
    BY <1>1 DEF Open
<1>4. ASSUME c = d, ~closed[d] PROVE Unanswered(d)' \subseteq held[d] /\ agent[d] # "resting"
  <2>1. Using(d) = {g}
      BY <1>1, <1>4, OnlyUser DEF UseStates
  <2>2. pending[d] # {} /\ pending[d] \subseteq Unanswered(d) /\ Unanswered(d) \subseteq held[d] \cup pending[d]
      BY <1>1, <2>1 DEF Waits
  <2>3. \A k \in Unanswered(d) : k \in Open(d) /\ (k \in pending[d] => k \notin Unanswered(d)')
      BY <1>1, <1>4 DEF Unanswered, Open
  <2>4. Unanswered(d)' \subseteq Unanswered(d)
      BY <1>1 DEF Unanswered
  <2>5. Open(d) # {}
      BY <2>2, <2>3
  <2> QED
      BY <2>2, <2>3, <2>4, <2>5 DEF Waits
<1> QED
    BY <1>1, <1>2, <1>3, <1>4, GoOnWaits DEF UseStates

LEMMA OnWaits ==
    ASSUME OwnInv, KnownInv, CallInv, NEW d \in Convs, Waits(d), NEW g \in Generates, Wait(g) \/ CallerGivesUp(g)
    PROVE  Waits(d)'
<1> USE DEF closeVars, turnVars, agentVars, callVars
<1> PICK c \in Convs : c = conv[g]
    BY DEF OwnInv, Placed, UseStates, Wait, CallerGivesUp, Goes
<1>1. /\ UNCHANGED <<conv, closed, pending, held, owner, call, unread, agent, turn, content>> /\ at[g] = "waiting"
      /\ Unanswered(d)' = Unanswered(d) /\ Open(d)' = Open(d)
      /\ Goes(g, "waiting", "answered") \/ Goes(g, "waiting", "failed")
    BY DEF Wait, CallerGivesUp, Goes, Unanswered, Open
<1>2. c = d /\ ~closed[d] => Unanswered(d) \subseteq held[d]
  <2> SUFFICES ASSUME c = d, ~closed[d] PROVE Unanswered(d) \subseteq held[d]
      OBVIOUS
  <2>1. Using(d) = {g}
      BY <1>1, OnlyUser DEF UseStates
  <2> QED
      BY <1>1, <2>1 DEF Waits
<1> QED
    BY <1>1, <1>2, GoOnWaits DEF UseStates

LEMMA NextWaitInv == OwnInv /\ KnownInv /\ CallInv /\ WaitInv /\ [Next]_vars => WaitInv'
<1> SUFFICES ASSUME OwnInv, KnownInv, CallInv, WaitInv, [Next]_vars, NEW d \in Convs, Clean(d)' PROVE Waits(d)'
    BY DEF WaitInv
<1>1. Clean(d) /\ Waits(d)
    BY CleanWas DEF WaitInv
<1>2. ASSUME NEW g \in Generates, Generate(g) \/ Take(g) \/ CallerGivesUp(g) PROVE Waits(d)'
    BY <1>1, <1>2, TakeWaits, StartWaits, OutWaits, SettleWaits, BeginWaits, PromptWaits, TakeHeldWaits,
       AnswerHeldWaits, OnWaits DEF Generate
<1>3. ASSUME NEW c \in Convs, Conversation(c) \/ AgentDies(c) \/ EndsTurn(c) \/ IdleFires(c) PROVE Waits(d)'
    BY <1>1, <1>3, ConversationWaits
<1>4. ASSUME NEW c \in Convs, NEW k \in Calls, ToolCall(c, k) PROVE Waits(d)'
    BY <1>1, <1>4, ToolCallWaits
<1>5. ASSUME NEW k \in Calls, Handler(k) \/ GivesUp(k) PROVE Waits(d)'
    BY <1>1, <1>5, HandlerWaits
<1>6. CASE Close
    BY <1>1, <1>6, CloseWaits
<1>7. CASE UNCHANGED vars
  <2>1. Using(d)' = Using(d) /\ Unanswered(d)' = Unanswered(d) /\ Open(d)' = Open(d)
      BY <1>7 DEF vars, Using, Unanswered, Open, generateVars, callVars
  <2> QED
      BY <1>1, <1>7, <2>1, KeepsWaits DEF vars, generateVars, callVars, closeVars, turnVars, agentVars
<1> QED
    BY <1>2, <1>3, <1>4, <1>5, <1>6, <1>7 DEF Next, Ours, Agent

\* While a call of Generate waits for a response the agent does not wait for it:
\* the settle timer runs, an event is there to be read, the agent is gone, or it
\* works and every call it made is answered.
THEOREM GenerateAndAgentGoOn == Spec => []NobodyWaitsOnTheOther
<1>1. ASSUME OwnInv, KnownInv, CallInv, WaitInv, NEW g \in Generates, NEW c \in Convs, c = conv[g],
             at[g] = "waiting", turn[c] = "collecting", Clean(c), ~settling[c], unread[c] = "nothing",
             agent[c] # "dead"
      PROVE  agent[c] = "working" /\ \A k \in Open(c) : call[k] # "held"
  <2>1. Waits(c) /\ g \in Using(c)
      BY <1>1 DEF WaitInv, Using, UseStates
  <2>2. ~closed[c] /\ agent[c] # "none"
      BY <1>1, <2>1 DEF Waits, OwnInv, Fresh
  <2>3. early[c] = {} /\ content[c] = {}
      BY <1>1 DEF CallInv, Gathers
  <2>4. held[c] = {}
      BY <1>1, <2>1, <2>2, <2>3 DEF KnownInv, Known, Collected
  <2>5. Using(c) = {g}
      BY <2>1, <2>2, <1>1 DEF OwnInv, OneOwner
  <2>6. Unanswered(c) = {}
      BY <1>1, <2>1, <2>2, <2>4, <2>5 DEF Waits
  <2>7. agent[c] # "resting"
      BY <1>1, <2>1, <2>3 DEF Waits
  <2>8. agent[c] = "working"
      BY <1>1, <2>2, <2>7 DEF OwnInv, OwnerTypes
  <2> QED
      BY <2>6, <2>8 DEF Unanswered, Open
<1>2. OwnInv /\ KnownInv /\ CallInv /\ WaitInv => NobodyWaitsOnTheOther
    BY <1>1 DEF NobodyWaitsOnTheOther, Clean, OwnInv, Placed, UseStates
<1>3. OwnInv /\ KnownInv /\ CallInv /\ [Next]_vars => CallInv'
    BY NextCallTypes, NextOwned, NextHeldWaits, NextTaken, NextGathers DEF CallInv
<1> QED
    BY <1>2, <1>3, OwnInvHolds, InitKnownInv, NextKnownInv, InitCallInv, InitWaitInv, NextWaitInv, PTL DEF Spec
===============================================================================
