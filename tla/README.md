# Specifications of agentprotocol

TLA+ specifications of the concurrent core of this repository: how a Go program
drives a coding agent (an ACP agent, codex, claude, pi) as a child process,
talks JSON-RPC with it over its stdin and stdout, and turns what it says into one
ordered channel of events. TLC checks them on small instances. TLAPS proves, for
every instance, each safety property the runs check: those of the event pump, the
connection, the process, the four sessions and the models over a harness.

Run `tlc -config X.cfg MCX.tla` for a run of `PROJECT.json`, and
`tlapm X_proofs.tla` for the proofs.

## 1. The system

```
 caller ── Prompt, Resolve, Interrupt, Close, Kill ──►  driver.Session  ──► Events
                                                         │  driver/{acp,codex,claude,pi}.go
                                                         │  driver/events.go   (event pump)
                                                         ▼
                                       protocol/{acp,codexapp,claudecode,pirpc}
                                                         │  requests of the agent run on
                                                         │  goroutines of their own
                                                         ▼
                                       internal/jsonrpc  (Conn, Pending, LineWriter)
                                                         ▼
                                       internal/agentproc  (pipes, stderr copier, reaping)
                                                         ▼
                                                    child process
```

Above the drivers, `llm` uses a session as a language model, `internal/mcptools`
and `mcpbridge` let an agent call the caller's tools, and `harness`, `transcript`,
`report`, `model` and `a2a` are tables, parsers and data types.

### Inventory

| Component | State | Operations | What is hard | What makes it correct |
|---|---|---|---|---|
| Event pump, `driver/events.go` | queue, `ended`, a one-slot `wake` channel, `stop` | `push`, `end`, `stopNow`, goroutine `run` | a signal may be dropped or come late; swap of the queue against `end`; a reader that stops | what `push` accepted is delivered in order, once, before the close; the channel closes; no wake-up lost |
| JSON-RPC connection, `internal/jsonrpc` | pending calls, their reply channels, `done`, the read error | `Call` (write, reply, ctx, end of stream), read loop, `Pending.Add/Deliver/Forget/Close` | a reply against a cancel, a duplicate, the end of the stream | no send on a closed or full channel, no call registered for ever or waiting for nobody, the error that ended the stream is told |
| Child process, `internal/agentproc` | pipes, exit status, stderr copier and its waiters | `Reap`, `Close`, `Kill`, `FlushStderr` | a grandchild that holds the pipes, a read deadline used as a signal, a flush during a drain | a flush covers what was written before it; exited closes; no signal to a reaped group |
| ACP client, `protocol/acp` | session id, load state | `PromptBlocks`, `LoadSession`, requests, process | a prompt cut short by the exit; a replay with no end marker | every call returns; replay is told from progress |
| ACP session, `driver/acp.go`, `acp_ext.go` | `turns`, `waiting`, `agentTurn`, `pending`, `closeOnce` | `Prompt`, first-event timer, permission, `Resolve`, `Close`, `Kill`, `watch`, the agent's own turns | five kinds of goroutine, none ordered with the others | each turn is told to start and to end once; each request is answered; an exit is told once; Close and Kill return |
| Codex session, `driver/codex.go`, `protocol/codexapp` | prompt queue, `activeTurn`, `pending`, `byRPC`, `calls`, `closing` | `Prompt`, send loop, notifications, approvals, caller tools, `Resolve`, `Close`, `Kill`, `watch` | codex sends answers, notifications and requests on one stream, and three goroutines act on them | the active turn is the running one; approvals are reachable, settled and told once; prompts are not lost |
| Claude session, `driver/claude.go`, `protocol/claudecode` | `turnActive`, `pending`, requests in flight | `Prompt`, `onResult`, `onPermission`, `withdraw`, `watch` | a permission request that registers after its turn ended | as for codex |
| pi session, `driver/pi.go`, `protocol/pirpc` | `turnActive`, `runSeen`, `compacting`, dialogs | `Prompt`, steer, `/compact`, dialogs with timers, `watch` | three answers that may end one turn; a timer against Resolve | a turn ends once, by its own run; a dialog is resolved once |
| Models over a harness, `llm` | live conversations, held and early tool calls, idle timer | `Generate`, `toolCall`, `close` | a conversation is used, closed and timed out by different goroutines | one owner at a time; every held call is answered |
| MCP bridge and tool servers | requests in flight | forward, end of input | a call the server never finishes | every request with an id is answered |
| Registry, transcripts, reports, data model, A2A | none, or a file | pure functions, parsers | formats | equality with the formats, which tests compare |

`PROJECT.json` lists every component with its status and every hazard with its
line.

## 2. Modules

| Module | Models | Kind |
|---|---|---|
| `EventQueue` | what a session's `Events` channel promises its reader | abstract |
| `EventPump` | `driver/events.go`; implements `EventQueue` | detailed |
| `EventPump_proofs` | invariants and refinement, for every instance | proofs |
| `RpcConn` | `internal/jsonrpc/{conn,lines}.go` | detailed |
| `RpcConn_proofs` | invariants | proofs |
| `StderrCopier` | `internal/agentproc/stderr.go` | detailed |
| `AgentProc` | `internal/agentproc/agentproc.go`; extends `StderrCopier` | composition |
| `AgentProc_proofs` | the copier's invariants; the process implements `StderrCopier`; what `Exited` means | proofs |
| `AcpSession` | `driver/acp.go`, `acp_ext.go`, parts of `protocol/acp` | detailed |
| `AcpSession_proofs` | turns told and counted truly, requests resolved once and in reach | proofs |
| `CodexSession` | `driver/codex.go`, the order of `protocol/codexapp/client.go` | detailed |
| `CodexSession_proofs` | the active turn, the exit, approvals settled once and in reach | proofs |
| `SessionContract` | what a session tells of its turns and approvals | abstract |
| `ClaudeSession` | `driver/claude.go`, `protocol/claudecode/client.go`; implements `SessionContract` | detailed |
| `ClaudeSession_proofs` | approvals in reach; it implements `SessionContract` | proofs |
| `PiSession` | `driver/pi.go`, the order of `protocol/pirpc/client.go`; implements `SessionContract` | detailed |
| `PiSession_proofs` | dialogs in reach, no turn left open; it implements `SessionContract` | proofs |
| `LlmHarness` | `llm/harness.go` | detailed |
| `LlmHarness_proofs` | one owner of an agent, no held call forgotten, the two sides never wait on each other | proofs |
| `MC*` | symmetry sets and names for TLC | instances |

A step of a module is one section the code runs under a mutex, one channel
operation, or one wait; a goroutine is a variable that says where it is. Where the
code does several things without a lock and another goroutine could tell, they are
separate steps (`Settle`, `Uncount` and `Report` of an ACP prompt; `Park` and
`Raise` of an approval); where none could, they are one. Modules are composed by
contract, each taking the lower one's promise as an action of its environment:
the session modules keep a flag that the pump has ended and the set or count of
events it accepted, since `EventPump` shows that accepted events arrive in order;
`AcpSession` lets a call be answered, fail or be cut short, since `RpcConn` shows
that every call returns once the stream ends; the sessions take the process's exit
as one step after the end of its stream, since `AgentProc` shows that an exit is
always collected and comes after the last of the output. `AgentProc` is composed with
`StderrCopier` outright: it extends it, and `AgentProc_proofs` shows that the whole
is a `StderrCopier`. `LlmHarness` takes of a session what `SessionContract` promises:
an event that ends the turn, or the end of events.

Each module defines a few operators whose comment begins "A slip". They are
plausible bugs in the action that follows, used to see that a property notices
them, and are not part of the specification.

### EventPump

`push` is two steps, the locked append and the signal; `stopNow` is four; `run` is
`Take` (the locked swap and the look at `ended`), `Deliver`, `Wake` and `SeeStop`.
The refinement mapping takes `items` to `batch \o queue`, `closed` to the runner's
having closed the channel. The abstract reader sees a queue; the wake-ups, batches
and locks are hidden.

### RpcConn

A call goes through `Add`, `Write`, then waits for `Receive`, `ReceiveClosed` or
`ContextDone`, and leaves by `Forget` or `ClosedErr`. The read loop is
`DeliverLocked` then `DeliverSend` (the send is outside the lock), `DispatchOther`,
and at the end of the stream `CloseLocked`, `CloseReply` for each call and
`CloseDone`. The peer may answer any id, twice or never.

### StderrCopier

The pipe is two positions, what was written and what the copier has taken; a third
is what has reached the caller's writer. A flush sets the read deadline in the past
and waits; the copier wakes with a timeout, clears the deadline, counts the waiters
it is going to cover, drains what is there and releases them, setting the deadline
again if others came meanwhile.

### AgentProc

The child runs, exits, is reaped; `kin` is the set of pipes that processes it left
behind hold. `WritersGone` of the copier happens as the last of child and kin lets go
of stderr. Reap is `WaitReturns` (it arms `drain`, the one DrainTimeout), then
`OutputRead` or `CutOutput`, then `StderrRead` or `CutStderr`; a `drain` that has fired
for stdout is still fired for stderr. Close is `CallClose`, `GraceOver`, the kill and
`CloseReturns`; a kill is `KillLooks` and `Signal`, two steps, so that the child may be
reaped in between. stdout is one bit, read to the end or not: the lines on it are the
business of the modules above.

### AcpSession

Each `Prompt` has a goroutine (`PromptCheck` … `Report`) and perhaps an
`awaitFirstEvent` (`Timer…`); each permission request has one (`Arrive` … `GiveUp`,
`DropPending`); `watch`, `Close` and `Kill` compete to own `closeOnce`, and the owner
goes through `FailPending`, `Reap`, `LookForTurns`, `ExitEvent`, `EndPump`. Histories
record which events the pump accepted.

### CodexSession

Codex writes responses, notifications and requests on one `wire`. The read loop
takes them in order: it applies notifications itself, hands a request to a
goroutine (`Park`, `Raise`, `TakeAnswer`; `RunTool`, `ToolReturns`) and a response to
the send loop (`SendApplies`), which run later. `pending` is keyed as in the code, by
the item's id, with the request's own added when that is taken. `hasSteer` says
whether this codex knows `turn/steer`. Of the map `byRPC` nothing is kept, since it
is the inverse of `pending`. A sub-agent's requests (`turnOf[r] = Child`) are handled as
any other, but what codex notifies of its threads goes to `onChildNotification`, so a
withdrawal of one is read and changes nothing (`ReadWithdrawn`). Queued prompts are
counted without the bound of 64 that the code's channel has. Prompt, Resolve and codex itself may act at any time;
Close and Kill are called by one goroutine, one after another.

### SessionContract

The reader's view of a session: the number of turns told to start and to end, what was
told of each approval, whether the driver knows the agent to be gone, whether the
channel has closed. Turns start one at a time and end at most once; an approval is
asked for once and settled once; nothing is told after the close. Two liberties are
written into it because the drivers take them. A prompt that meets the agent's exit may
start a turn beside one that was left (`MayStart`, only when `gone`). An approval may be
told as settled just before it is asked for, because registering and emitting are two
steps (`MayCross`, which claude's driver needs and pi's does not).

### ClaudeSession

The CLI writes output, results, permission requests and withdrawals on one `wire`; the
read loop opens a turn at the first output and closes it at a result. A request has a
goroutine: `Park`, `Raise`, then `TakeAnswer` or `GiveUp`, then `Reply`. It may be
answered by Resolve, withdrawn by the CLI, or cut off by the end of the stream, and its
turn may end first. Requests share a tool_use id when `ToolIds` has fewer members; the
second is parked under its own id. `GiveUp` deletes and tells of whatever is under the
id by then, as the code does, which may be a later request's: `AskedIsReachable` exempts
the requests this can happen to. `OpenTurnsEnd` is about the turns `Prompt` opens before
it knows that its message went out. A resumed session owes an empty result (`settling`).

### PiSession

pi reads commands from `stdin` and writes records on `wire`. A prompt is in preflight
(`preparing`), then starts a run, steers one, is deferred until it settles, is handled
without one, or is refused; `/compact` runs between turns. In the driver a prompt's
goroutine (`call`) waits for its answer and may ask `get_state`, which pi answers with
idle, busy or compacting; `turnActive`,
`turnIndex`, `runSeen` and `compacting` are the code's. A dialog is parked with the turn
it was raised in, with or without a timer, and taken by Resolve, the timer, an
interrupt, the end of the run or the exit. `RestLeavesNoTurn` excepts the calls that
have `gave_up`: those whose `get_state` failed or met a compaction, after which the code
returns and knows nothing more of the turn. `HandledHasNoRun` speaks of prompts that
opened a turn, and of whatever turn is open when their answer is acted on. The answer to
a steer may come while the prompt that opened the turn is still in preflight, and ends
it: `HandledIsHandled`, which speaks of steers too, does not hold (section 5).

### LlmHarness

A call of Generate goes `taken` (or `starting`), `begun`, `answering`, `waiting`,
`answered`, and gives the conversation back in `Settle`, or closes it. `StartClose` is
the first half of `close` (held calls are cancelled, the timer stopped), `Tear` the
second (the agent is dead, its tool server gone); whoever finds `closed` set waits for
`Tear`. The idle timer is armed, fires, and runs, in three steps, so that `Take` may find
it fired and not yet run. A tool call is the response's while its turn is collecting
(`content`) and early otherwise; the settle timer ends a response. There is one key, as
keys share nothing but the map, and every call has it: a call without a key, or a harness
with a negative `Idle`, takes nothing and keeps nothing, and is not modelled. `Start` may
fail before the session is open, which leaves nothing, or after, when the conversation
is closed like one whose response failed; the failed call's agent is taken to have been
prompted, the more it can then do. Where the code drops a conversation under the model's
lock and closes it after the unlock (`Close`, the idle timer, one replaced in `settle`),
the two are one step: nobody else can reach it in between, and what its own agent and
handlers do then they might as well have done before. That a request continues the conversation, or differs
from it, is a choice.

## 3. Runs

| Run | Checks | Distinct states |
|---|---|---|
| `pump` | no event lost or reordered, the refinement of `EventQueue`, and that what is accepted is delivered and the channel closed (`ReaderServed`) | complete |
| `rpc` | reply channels; the registry holds exactly the calls that are out; answers survive the close; calls return | complete |
| `process` | a flush covers what came before it and returns; `Exited` means read; an exit is always collected, Close and Kill return | 0.41 million |
| `acp_turns` | what a prompt reports is one thing and true; turns counted; reported on exit | 0.86 million |
| `acp_requests` | requests resolved once, answered, the last one under an id reachable; a dead agent ends its session; calls return | 0.16 million |
| `acp_lost_turn_end` | **violation**: a turn's end told twice or not at all | |
| `codex` | approvals settled once and in reach, the active turn, the exit | 2.8 million |
| `codex_live` | no request stranded, no prompt left queued, calls return | 62 thousand |
| `codex_refused_idle` | **violation**: prompts refused though no turn runs | |
| `claude` | approvals in reach and never left on the screen, no turn left open for nothing, the session contract, the end of the session | 0.59 million |
| `pi` | dialogs in reach, no turn left open, none ended under a run about to start, the session contract, the end of the session | 0.18 million |
| `llm` | one owner of a running agent, no held call forgotten, the two sides never wait on each other, Close ends everything | 0.52 million |

### Bounds, and why they are enough

- `pump`: two producers, two events, three pushes. One producer's signal can then be
  late while the other pushes, ends or stops, and a batch of two can be cut by a stop.
- `rpc`: two calls, two messages of the peer. One call can be delivered to, cancelled
  and closed over while another is added; an answer can be late, doubled or for nobody.
- `process`: two flushes and one write, so that one flush is armed and one registers
  during its drain; a caller that closes or kills; kin that hold either pipe or both.
  The copier by itself has also been checked with three flushes and three writes.
- `acp_turns`: two prompts and no requests, interchangeable (symmetry is sound for
  the safety properties of that run). Prompts meet each other only through `turns`
  and `closeOnce`. `acp_requests`: two requests and all four ways to give them ids.
- `codex`: `MaxTurns` two turns; `MaxWork` three prompts and requests together, so two
  turns with one request that outlives the first, or one turn with two approvals of
  one item, or an approval and a tool; `MaxUnread` two messages on the wire, enough
  for a turn to start before its answer is applied, and for a request and the end of
  its turn to be unread together. Approvals are interchangeable. `codex_live` has
  two prompts and requests together, one of each kind.
- `claude`: two turns, two requests under one tool_use id, three prompts and requests
  together, one unread message. One request outlives its turn while the other is parked
  in the next; the goroutines, which run late, give back the reordering that a longer
  wire would add.
- `pi`: two prompts, one dialog, `MaxWork` two of them together, one unread record: a
  prompt with a steer, a `/compact` with a prompt, or a prompt with a dialog. With three
  prompts together (7.6 million states) the properties hold too, which takes longer
  than the run is given.
- `llm`: two calls of Generate, two conversations, two tool calls, `MaxWork` five of these
  together: two calls on one conversation and on two, the second with a held call and an
  early one. Checked once with six (7.8 million states).

`CHECK_DEADLOCK FALSE` is set where the system really stops: calls and prompts are
made once, the process exits, and then nothing is left to do.

### Fairness

Weak fairness, always of steps that the Go scheduler or the kernel must take.

- Pump: the runner and a producer that has begun `push` go on; the reader reads. It is
  not assumed that anybody pushes, ends or stops.
- Connection: a call that has begun goes on and the read loop goes on. A write is taken
  to finish: a peer that stops reading its stdin for ever is outside the model (see
  hazards). Nothing makes the peer answer, the stream end or a ctx be cancelled.
- Process: the copier, a released flush, Reap and the calls of Close and Kill go on, the
  timers fire, a reader sees the end of its pipe. The child and what it leaves behind
  need never exit; a signal ends the child. The number of writes is bounded, so a child
  that outruns the drain for ever is outside the model.
- ACP: the session's goroutines go on, a killed or closed process exits (Close kills
  after a grace) and its stream then ends. Nothing makes the agent answer or exit by
  itself, a person resolve, or a caller close.
- Codex: the same; and codex answers the calls it is made, which `EveryPromptTaken`
  needs because the send loop waits for one answer before the next prompt.
- Claude and pi: the session's goroutines, the read loop and watch go on, and an agent
  whose input has ended or that was killed exits, since Close kills after a grace.
- Models over a harness: our goroutines and timers taken together go on (`WF_vars(Ours)`).
  That is weaker than fairness to each, and enough because the work is bounded: whatever
  order they run in, one that can run runs in the end. Nothing makes an agent go on, end
  its turn or give up a call, nor a caller come back.

## 4. Proofs

| Theorem | States |
|---|---|
| `EventPump_proofs!TypeCorrect`, `NoEventLost`, `WakeupNeverLost`, `DrainedWhenClosed` | `TypeOK`, `NothingLost`, `NoLostWakeup`, `ClosedMeansDrained` |
| `EventPump_proofs!PumpIsQueue` | `ImplementsQueue`: every step of the pump is a step of the queue or a stutter |
| `RpcConn_proofs!TypeCorrect`, `ChannelsAlwaysSafe`, `RegistryForgets`, `NobodyWaitsForNobody`, `AnswersSurvive` | `TypeOK`, `ChannelsSafe`, `NoCallLeft`, `NobodyStranded`, `AnswerSurvivesClose` |
| `RpcConn_proofs!RegistryAlwaysExact` | `RegistryExact` |
| `AgentProc_proofs!TypeCorrect`, `FlushKeepsPromise`, `FlushNeverForgotten` | `TypeOK`, `FlushCovers`, `NoFlushForgotten` of `StderrCopier` |
| `AgentProc_proofs!ProcessHasCopier` | `ProcSpec => Spec`: the whole process implements its copier |
| `AgentProc_proofs!FlushKeepsPromiseInProcess`, `ProcTypeCorrect`, `ExitedIsRead` | `FlushCovers` and `NoFlushForgotten` in the process, `ProcTypeOK`, `ExitedMeansRead` |
| `AcpSession_proofs!TypeCorrect`, `PromptsToldTruly`, `TurnsAreCounted`, `LeftTurnsAreReported` | `TypeOK`, `ToldTruly`, `TurnsCounted`, `LeftTurnsReported` |
| `AcpSession_proofs!RequestsResolvedOnce`, `AskedCanBeResolved` | `ResolvedOnce`, `AskedIsReachable` |
| `CodexSession_proofs!TypeCorrect`, `RunningTurnIsActive`, `ExitIsToldTruly` | `TypeOK`, `RunningIsActive`, `ExitToldTruly` |
| `CodexSession_proofs!RequestsAreSettledOnce`, `AskedCanBeAnswered` | `SettledOnce`, `AskedIsReachable` |
| `ClaudeSession_proofs!TypeCorrect`, `AskedIsKeptInReach`, `OpenTurnsAreEnded` | `TypeOK` (of this module by the proof alone), `AskedIsKept`, `OpenTurnsEnd` |
| `ClaudeSession_proofs!EventsKeepContract`, `PiSession_proofs!EventsKeepContract` | `KeepsContract`: every step of the session is a step of `SessionContract` or a stutter |
| `PiSession_proofs!TypeCorrect`, `WaitedOnIsInReach`, `RestHasNoTurn` | `TypeOK`, `WaitedOnIsReachable`, `RestLeavesNoTurn` |
| `PiSession_proofs!HandledPromptHasNoRun` | `HandledHasNoRun`, an action property |
| `LlmHarness_proofs!TypeCorrect`, `OwnerIsOne`, `HeldIsAlwaysKnown`, `GenerateAndAgentGoOn` | `TypeOK`, `OneOwner`, `HeldIsKnown`, `NobodyWaitsOnTheOther` |

All assume only what the modules assume of their constants: names such as `NoEvent`,
`NoCall` and `Nobody` outside their sets, bounds that are numbers, the prompts of
`AcpSession` and the dialogs of `PiSession` finite (the first are counted, the second
put in an order), codex's approvals and tool calls apart. They hold for any number of
producers, calls, flushes, prompts, turns, requests and conversations, and any length of
a wire. Each follows one plan: an inductive
invariant `IInv`, `Init => IInv`, one lemma per conjunct that `[Next]_vars` keeps it,
with one step per action, and `IInv =>` the property.

- *Pump.* The properties are not inductive because they do not say where `run` is.
  `RunnerInv`: it takes or parks only with the batch used up, sends only with one in
  hand, and closes unasked only on an ended, empty pump. `StopInv`: `stopNow` ends the
  pump before it closes `stop`. `NothingLost` (accepted = delivered, then batch, then
  queue) needs four facts about concatenation, stated as lemmas. The refinement uses
  `IInv` to see that a close without stop finds the abstract queue empty.
- *Connection.* `ChannelInv`: a reply channel is open exactly while its call is
  registered, being delivered to, or waiting to be failed. `LoopInv`: where the read
  loop is, and that once it refuses calls none is registered. `RefusedInv`: a call that
  reports a closed connection was never handed a reply. `ChannelsSafe` is inductive
  only with these.
- *Stderr.* `PositionInv`: copied ≤ taken ≤ written, and the copier holds something
  only between two of its steps. `CalledInv`, `DrainInv`: what the armed waiters wait
  for has been copied when a drain ends. `StopInv`: a copier that stops by itself has
  read to the end. `ReleasedInv`: a released flush is covered.
- *Process.* Each of its steps is a step of the copier, or leaves the copier alone; so
  what is proved of the copier holds in it. `ExitedMeansRead` adds what Reap has seen when
  it is at each of its waits.
- *ACP session.* `ToldTruly` is inductive only with who has won `settle`: the prompt's
  goroutine and the first-event timer do not both claim it, and nothing is told until
  the winner tells (`OneWinner`); a prompt that has not begun has no timer (`NotStarted`);
  a timer that fires found no sign of work, and there will be none (`Silent`).
  `TurnsCounted` speaks of a cardinality, so a lemma says what each step does to the set
  of prompts counted: nothing, or one more, or one fewer. `EndInv` says what `reportExit`
  has looked at. For the requests: one in `pending` is under its key and untouched
  (`Parked`), one that Resolve took out is between its two steps (`Taken`), one the
  session dropped met the end of the stream (`Dropped`). The history `latest` says
which request was last parked under an id: that one only Resolve takes out while the
agent lives, since a request is dropped only once the stream has ended
(`ParkedIsReachable`).
- *Codex session.* `RunningIsActive` is about the order of the wire: at most one answer
  to the send loop is on it (`OneAnswer`), and the turn that runs is the last one said to
  have started (`StartedLast`), so that an answer applied late cannot be to an older
  turn while another runs. `ExitToldTruly` needs the order in which `watch`, the caller
  and the stream get on (`EndInv`). That nothing codex waits for is cancelled needs that
  codex waits no more on what it has said to be over (`SaidOver`) and makes a request
  once (`AskedOnce`). `InMap`, `OwnKey` and `ParkedIsReachable` say that an approval in
  the map is under a key that is its own, which the choice of key in `Park` is for.
- *Claude session.* One invariant, `SessionInv`, gives all three theorems. `AskedAfterResults`:
  what the CLI still waits on when a result is unread it asked for after that, so taking
  the result settles none of it. `Held`: what was parked and not told of is in the map
  or being told. `TurnsBalance`: the turns told of as started and
  not as ended are the one that is open and the one `watch` has found and not told of
  yet. `TurnsHaveEnd`: a turn that is open, or that unread output will open, is being
  worked on or has a prompt or a result still to come; with `TurnsBalance` that is
  `OpenTurnsEnd`. The refinement then goes by the kinds of step:
  those that tell nothing stutter, a result is a `TurnNews` with the settling of what
  was parked, `watch` is `AgentGone`.
- *pi session.* `SessionInv` gives the refinement and `WaitedOnIsReachable`: a dialog is
  raised once (`RaisedOnce`) and is parked, on its way to be told of, or told of
  (`ToldOnce`). The timer adds nothing to that, since it looks under the lock.
  `RestLeavesNoTurn` holds by a chain, `TurnInv`: a turn that is open and not a
  compaction's has a run whose end is still to be read, or the prompt that opened it is
  still on its way (`TurnHasEnd`); a prompt told that pi was busy has that run
  (`BusyHasRun`); every run is followed by a settlement on the wire (`RunsAreFollowed`);
  what is noted of a compaction is for its answer to clear (`CompactionIsAsked`).
  `HandledHasNoRun` rests on `HandledInv`: pi takes each command once and has answered it
  only when it is out of preflight (`TakenOnce`), and no two prompts open one turn
  (`OpensOnce`).
- *Models over a harness.* `OneOwner` is about a conversation; to be inductive it needs
  `Placed` (who uses one has one) and `Fresh` (one no agent runs in yet is nobody's). Lemmas
  treat the steps alike that do alike: those that move a call of Generate within its
  use, that close conversations, that concern the agent only. `HeldIsKnown` speaks of a
  conversation between two responses, and is carried through a response by `Known`: what
  is held was told of, or came early, before `begin`; is collected or early after the
  answers are taken; and may be any of these between. That a late call goes to `early`
  rests on no turn collecting between two responses, which `Known` says too.
  `NobodyWaitsOnTheOther` adds `CallInv` (a call has one owner from its request on, and the
  settle timer runs while a response has a call) and `WaitInv`: of a conversation
  whose agent gave up no call, each unanswered call is held, and an agent that rests
  waits for none.

Every invariant was checked with TLC on the module's instance before it was proved.

Only model-checked: liveness, which rests on fairness, and which this prover does not
reach: `ReaderServed`, `CallsReturn`, `CopierDelivers`, `ExitIsCollected`,
`DeathEndsSession`, `RequestsEnd`, `NothingHangs`, `GoneEndsSession` of claude and of pi,
and `CloseEndsAll`. So are the two findings, which are violations.

## 5. Findings

Two runs show the code breaking what it says of itself:

- `acp_lost_turn_end`: a prompt's goroutine lowers `turns` and emits the turn's end in
  two steps. An agent that answers and exits may be reported on in between: the end is
  told twice, or the pump ends first and it is never told.
- `codex_refused_idle`: the `turn/start` answer is applied by the send loop, perhaps
  after the read loop has taken that turn's start and end. The finished turn becomes
  active again and nothing clears it. A codex with `turn/steer` refuses the steer and
  the driver starts a new turn; one without it is sent no prompt any more.

More statements, most of them of the comments, are written as definitions that no run
checks, since they do not hold. Each is seen by adding the definition to the INVARIANTS
of its module's cfg (`HandledIsHandled` to the PROPERTIES):

- `RpcConn!ReadErrorReported`: the read loop fails the waiting calls before it closes
  `done`, and `closedErr` finds the error only through `done`. A call woken in between
  reports a closed connection without the reason.
- `CodexSession!NoPromptLeftOpen`: an approval's goroutine may register or show it after
  the end of its turn was taken; its prompt stays open.
- `CodexSession!WithdrawnIsSettled`: the comment on `runCallerTool` has a tool's context
  end when codex withdraws the request. codex tells so in a notification that names the
  thread; a sub-agent's goes to `onChildNotification`, which has no such case, and its
  tool runs on, and its approval stays on the screen, until they are answered or the
  session ends. Of the
  session's own requests, one that registers after the withdrawal was read is missed.
- `PiSession!CompactionHasItsTurn`: a prompt sent while `/compact` runs finds its turn and
  is sent as a steer; pi refuses it while it compacts, and the refusal fails the
  compaction's turn with `compacting` still set. The attempt to prove `RestLeavesNoTurn`
  without its exception showed what can follow, and TLC confirmed it with four calls: a
  second `/compact` opens the next turn; the first one's answer ends it and clears
  `compacting`; a prompt opens a third, which pi handles by itself; its `get_state` meets
  the second compaction, so `awaitPrompt` returns; and that compaction's answer finds
  `compacting` clear. Nothing ends the third turn until another run does.
- `PiSession!HandledIsHandled`: `awaitPrompt` says that `get_state` tells a prompt pi
  handled from a run about to start. A second prompt sent while the first is in preflight
  goes as a steer; its answer and its `get_state` come while pi is not streaming yet, and
  the turn is completed as handled although the first prompt's run is about to start.
- `LlmHarness!ServedOneAtATime`: `llm.go:39` says that calls on the same key are served one
  at a time. A call that finds the key's conversation taken starts another beside it;
  `settle` keeps the one that ends last and closes the other.
- `LlmHarness!GivenUpRestarts`: `toolCall` may find the caller's answer and the end of the
  request ready together and take the answer; the conversation is then kept though its
  agent has given the call up.

- `AcpSession!EachAskedIsReachable`: two open requests without a tool call id share the
  session's, and the first can no longer be answered, as the comment at
  `driver/acp.go:809` accepts. `AskedIsReachable` is therefore stated of the request
  last parked under an id.

## 6. What is not modelled

- Data: the wording and translation of events, usage figures, options of sessions and
  threads, file attachments. Starting processes and system calls.
- The generated codex types, the registry, the transcripts with their SQLite reader, the
  reports, the data model, the A2A mapping and the conformance suite. They are by far the
  most of the repository's lines, and have no state that outlives a call: a model of a
  parser or of a table would be the parser or the table again, and the tests compare
  them with the formats directly. For this reason the modules cover a small share of
  the lines and nearly all of the concurrency.
- `session/load` of ACP: its replay has no end marker, so that what a late message is
  depends on time alone.
- A bound of 64 on codex's queued prompts; in `llm/harness.go`, calls without a key and a
  negative `Idle`.
- `llm/claude.go`: its `take`, `settle` and timer are those of `llm/harness.go` over again.
- `mcpbridge/bridge.go` and the tool servers: one goroutine per request, which share a
  lock on the output and nothing else.

## 7. Plan

Done: the lower components and their proofs; the four sessions; the process as a
composition; the session contract, kept by claude's and pi's drivers; models over a
harness; a proof of every safety property the runs check. Next, the most important first:

1. `AcpSession` and `CodexSession` against `SessionContract`, weakened where section 5
   says they break it.
2. What holds of `NoPromptLeftOpen`, `WithdrawnIsSettled`, `HandledIsHandled` and
   `GivenUpRestarts` once the steps that break them are excluded, as invariants with proofs.
3. Calls without a key in `LlmHarness`, and the bound on codex's queued prompts.
4. The permissions `llm/claude.go` holds, as a variant of `LlmHarness`.
