# Beemo in TLA+

Beemo is a local voice and chat assistant. A Go orchestrator (gRPC) runs the
agents; a sandboxed daemon, `beemo-code`, runs the code tools; a SvelteKit UI,
a terminal client and a wakeword service are its clients; a lifecycle CLI
starts and stops everything. This directory models the parts of it that hold
state and can go wrong in orders nobody wrote a test for, checks them with TLC
on small instances, and proves the properties that matter most with TLAPS for
every value of the constants.

Paths below are relative to the repository; the orchestrator is
`src/orchestrator/`. `PROJECT.json` maps every definition to the lines it
stands for and lists the hazards with their lines.

## Inventory

| Component | State it keeps | Operations | What makes it correct |
|---|---|---|---|
| Code agent (`agent.go`) | loop counters, verification gate, evidence seen, session status | one model decision at a time: tool, final, invalid; daemon calls; approvals | a final answer covers every change; the run is bounded; the row tells how it ended |
| Approvals (`agent.go` 368-415, `db/agent_store.go`) | map of pending approvals, a channel of capacity one for each, a table | wait, approve, time out, cancel, restart | a gated call runs only on consent; table and gate agree; nothing blocks or leaks |
| Conversation agent (`conversation_agent.go`, `evidence_policy.go`, `direct_response.go`) | round, window of 12 observations, sources | search and other tools, final answers the evidence guard may refuse | evidence is never forgotten; a citation leads to its source; the run ends |
| Sessions and projects (`agent_control.go`, `project_session.go`, `db/agent_store.go`) | session rows (mode, workspace, status, internet), projects | RunAgent, `/normal`, `/code`, `/switch`, `/internet`, select, remove, activate, create, delete | rows stay consistent and keep the choices users made |
| Code tools daemon (`internal/codetools`) | table of background processes, one exit status each | start, poll, stop; file and shell tools | no status is lost or doubled; what was stopped ends |
| State stream (`state_stream.go`) | subscribers with queues of 64 | subscribe, publish, drop | clients learn how a run ended |
| Chat path (`chat.go`, `pending.go`, `transcript.go`) | pending question and transcript per session | chat, fill, cancel, merge | an answer goes to its question; no turn is lost |
| Core context cache (`core_context.go`) | one entry per user, one minute | get, refresh | the newest context known is used |
| Lifecycle (`internal/lifecycle`, `cmd/beemo`) | running services, session file | up, down, restart, rotate | dependencies come up first and go down last |
| Tools and planning (`tools/`, `chatctx/`) | none; arguments of a call, evidence of a thread | recognise, fill, ground, complete, validate, compute, report | what is computed is what was said |
| Routing (`routing/`) | cached catalog behind a mutex, two tables | retrieve, load, store, rank | a retrieval sees one version, and what is cached is stored |
| Terminal (`tui/main.go`) | session, request under way, times seen | ask, look up, subscribe, print | shows what others said once, and its own not again |
| Wakeword (`services/wakeword`) | recorder, event subscribers, session id | wake, capture, follow up, speak | it does not listen to itself; events follow the session |
| Web UI (`web/beemo`) | session, messages, run in progress | send, abort, approve, manage sessions, follow the state stream | shows each message of its session once |
| ASR, TTS, model client, prompts, rerankers, other clients | none that outlives a request | | |

How they interact: clients open a `RunAgent` stream; its context is cancelled
when they leave. The run resolves mode and workspace from the session row,
writes the row, and calls the code or the conversation agent, which call the
model over HTTP, the daemon over a unix socket, and publish every event to the
row, to the state stream and to the client. Gated tool calls wait for an
`Approve` call that a client makes beside the stream. Management calls change
rows and projects beside everything else. Nothing locks a session across two
statements; the maps of the orchestrator have a mutex each.

The hard behaviours are therefore: requests on one session interleaving
between SQL statements; answers racing timeouts, cancellation and restarts;
tool calls whose reply is lost; deferred writes on cancelled contexts;
counters that reset one another; bounded windows and channels; a poll and a
stop sharing one exit status.

## Modules

| Module | Models | Composes |
|---|---|---|
| `AgentRun` | abstract: what a run promises about its workspace | |
| `CodeAgent` | a code run, with the daemon beside it | implements `AgentRun` |
| `CodeAgentCost` | `CodeAgent` with counters of model calls and refusals | extends `CodeAgent` |
| `Consent` | abstract: what the approval of a call promises | |
| `Approval` | `waitForApproval` and `Approve`, statement by statement | implements `Consent` |
| `ConversationAgent` | a normal or research run | implements `AgentRun` |
| `ConversationSources` | the source list under an answer | extends `ConversationAgent` |
| `ProcessTable` | background processes of the daemon | |
| `SessionStore` | session rows and projects under concurrent requests | |
| `Chat` | `Chat` calls over the pending question and the transcript of a session | |
| `Lifecycle` | up, down and restart over containers, daemon unit and session file | |
| `SessionSync` | state stream, the runs that publish to it, and a console that follows it | |
| `Units`, `Calculator` | unit conversions; the calculator tool with its expression parser | each extends the one before |
| `Text`, `Planning` | what is read in a message; from a message to a call | extend `Calculator` |
| `Weather` | the weather tool: completion, places, choice of the report | extends `Planning` |
| `ChatContext` | the active thread, whose texts are the evidence for a call | extends `Text` |
| `Routing` | the route selector under concurrent callers and edits of the catalog | |
| `Turn` | the turns of a session, with the arguments of the calls | composes `Weather`, `ChatContext` and `Routing` |
| `ChannelProofs` | theorems about `ProcessTable` and `SessionSync` | |
| `TurnProofs` | theorems about `Turn` and about `Routing` | |
| other `*Proofs` | theorems about the module of that name | |
| `MC*` | instances for TLC: sets of model values, symmetry | |

**CodeAgent.** One action per outcome of a model decision in `runCodeAgent`.
The limits 64, 3 and 8 are the constants `MaxSteps`, `FailureLimit`,
`StallLimit`. A call is a member of `Calls` and stands for its tool with its
arguments. The daemon is a process of its own: the loop hands a call over, the
daemon performs it or fails, and the reply may be lost, or abandoned when the
client leaves, with the change made all the same. Three kinds of calls reach
the workspace: an edit changes it; a command of `code.exec` is a shell with the
workspace writable, so it may change it, whether it ends well, with an error or
at its timeout; and `code.process_start` leaves a process behind that may
change it at any later time, the run long over (`ProcessWorks`). Only edits are
reported, and the verification gate is about reported edits alone: `dirty` and
`unreported` follow the edits, while `effects` and `background` count the calls
of all three kinds. All four are history variables. `code.git_status` may
refresh git's index file, which is not counted as a change. The row's status
follows every write, including the deferred one of a cancelled run; with
`StoreReliable = FALSE` writes may fail, which the code only logs.

**Approval.** A waiter registers, records the row, asks, and then receives,
times out or is cancelled, and unregisters; an `Approve` call looks the entry
up, sends into the channel if it is empty, and updates the row. These are
separate actions, since the code holds no lock across them. A restart loses
goroutines, map and channels and keeps the tables.

**ConversationAgent.** An observation keeps only whether it is a search and
which sources it returned. The policy (whether the answer needs the internet)
is chosen initially: its wording tests are data. Everything the guard, the
fallback search, the repetition check and the window look at is kept.
`executeAgentTool` sends every call named `code.*` to the daemon in a
conversation too, so some of the calls are `Writers`, `Starts` or `Gated`
there: they ask for approval, change the workspace, leave processes behind or
are abandoned in the middle, as in a code run, and no verification follows.
`AgentRun` is what both kinds of runs promise: at most so many calls, one at a
time, a held one does nothing, and each that runs changes the workspace once,
counted at its end, or leaves one process that does so later. What processes of
other runs do is theirs. `ConversationSources` adds the two numberings of
sources.

**ProcessTable.** A poll takes the exit status out of the channel of capacity
one and puts it back (two actions); a stop takes it, or gives up after two
seconds and sends SIGKILL. A call keeps working on the process it looked up.

**SessionStore.** Each SQL statement is an action; `at` is the statement a
request is about to run. `Cancel` ends a request before any statement of it,
and leaves a run its deferred status update. The statements of a run may fail
by themselves, and the model does what the code does of each: a run that cannot
read its row (`Resolve`) or the projects (`Check`) goes on in normal mode,
which `Mark` then writes over the row; one that cannot write its row or its
status goes on without (`Mark`, `Finish`, `Settle`); in a command the failure
is the answer (`Errs`). `had`, `alone`, `choice`, `told`, `deleted` and
`unsettled` are history: what was registered, which requests nothing else
crossed on their session, what the user was last told, and which sessions have
a status their last run could not write. What is true of the code is about
choices that nothing crossed and, if they are of code mode, that no run misread
(`Mislay`); the history variables say exactly which these are.

**Chat.** A call reads the transcript when it begins, the pending question
when it looks it up, and writes the transcript when it replies; every step
between two model or tool calls is an action, so calls on one session may
cross anywhere. `at` is the point of `runChat` a call has reached, `chat` what
its local variables hold there. Whether a text parses, names a tool or fills
the open question is a choice. The question keeps its message (`origin`) as in
`originQuery`; `asker`, `crossed`, `log` and `last` are history: who asked, on
which sessions calls have overlapped, and what the others were answered.

**Lifecycle.** A command is the sequence of steps its options select
(`UpPlan`, `DownPlan`, `RestartPlan`), taken one at a time; `DoStart`,
`DoAwait` and the others are one step of `manager.go` each, which may fail and
then ends the command with whatever part of it was done. Containers get ready
or stop by themselves, and the user unit of the daemon leaves its socket file
behind when it is killed, is restarted by systemd or given up. `crashed` and
`before` are history.

**SessionSync.** A run writes a row and publishes an update for each of its
events, two actions, with the two times the code takes: the row that of the
database, the update one taken before it or, with a payload, after it. The
subscriber's queue drops what does not fit. The console is its prompt loop
(ask, reply, look up the latest time, release) and `watchSession` beside it,
which takes an update, compares it with what was seen and with
`ignoreThrough`, and looks at `requestActive` when it prints. `newest`,
`busyAt` and `closed` are history.

**Units, Calculator, Text, Planning, Weather, ChatContext.** Pure code, as
operators. A text is a sequence of tokens (a word, a number, a number with its
unit); the patterns and parse functions of `infer.go` look for the same tokens
the regular expressions look for, in the same order. A number is an exact
fraction. Arguments are a function from the fields given to their values.

**Routing.** `ensureLoaded` reads the file before it takes the mutex, so
callers come to it with different versions; it stores documents and embeddings
in two transactions, embeds the catalog and replaces the cache at the end.
Each of these is an action, and may fail. Which routes are nearest is a choice.

**Turn.** A message answers the pending question (by words, by the model, or
not at all), is recognised by its words, or goes to the model, with routes when
there is a selector. The model may leave out what the text says, remember what
was said before, and make up or mishear what is said of a person. The call is
held against the evidence, completed, asked back or executed, as in `runChat`.
`turn` has the local variables of `runChat`; its fields `texts`, `taken`,
`lost` and `asked` are history. Turns of a session do not overlap here: `Chat`
is about those that do.

## Runs

| Run | Instance | Shows |
|---|---|---|
| `code_agent` | one call of each kind, edit, exec and process start gated, limits 6/3/4 | verification gate, tool budget, row, `AgentRun`, termination unless finals are refused for ever |
| `code_agent_cost` | one edit, one exec, up to 2 refused finals | the bound on model calls |
| `approval` | one approval, three answers from two sessions | consent, agreement of the table, `Consent`, calls return |
| `conversation` | 5 rounds, window 6, two searches, one edit that is gated and one process start among the other calls | evidence kept, search before giving up, `AgentRun` with a workspace in reach, termination |
| `conversation_miscites` | (violation) two searches | a cited number leads to no source or another one |
| `process_table` | one process, three calls | a poll misses an exit only behind another call, stops end, calls return |
| `session_store` | one session, two projects, two requests | consistency of rows, status, projects and uncrossed choices, with reads and writes that fail |
| `session_undeleted` | (violation) | a run brings a deleted session back |
| `chat` | three calls on one session, two at a time, two tools, a transcript of two messages | a question keeps its message, is the last one asked and answered once; transcript; model calls |
| `lifecycle` | two commands, one crash, two models, one voice service, two profiles | ready means up, dependencies first, down leaves nothing, nothing starts under the old session |
| `session_sync` | two requests of a console, one run of another client, a queue of two, two milliseconds | no message is echoed, only old ones are skipped |
| `turn` | six settings, up to three turns, two callers of the selector, three versions of the catalog | see below |

`turn` has six settings, chosen initially: messages recognised by their words;
decided by the model, with what it leaves out, makes up and remembers; a
second caller of the selector beside edits of the catalog; decided with
routes; sums; and conversions, paces, speeds and percentages. In the first two
`StatedIsUsed`, `NothingInvented`, `QuestionKept`, `NotAskedAgain` and
`WeatherAsTold` follow what was said through questions and replies; in the
third `RetrievalWhole` and `StoredWhenCached` are at stake; in the last two
`NumbersRight` compares the answers with a reference: every tree of up to
three operators over a few numbers, printed with the parentheses it needs, and
a conversion that must turn back, and a trip that must take its time.

Why the bounds are enough. In `code_agent` each limit is reached before the
next larger one, and in every combination with the others; one call per kind
suffices because the loop compares a call with the last one only, and stale
evidence needs one output to be old. Five rounds are the smallest number where
the conversation's window is full while the evidence ages in every possible
way; the window is the smallest the theorem allows, so a window one shorter
fails. What a conversation does to the workspace depends on the call under way
and on whether it was approved or abandoned, and 5 rounds give four calls one
after the other, while the processes of earlier ones go on. For one approval,
three answers give an accepted one, one that falls into the emptied channel,
and one that finds it full; approvals share no state, and answers from the
wrong session are among the three. Three calls on one process give a holder, a
second poll and a stop; processes share nothing but the table. Sessions share
projects only, and the removal of a project by a request of another session is,
seen from this one, a removal that is cancelled before it looks at the session;
two requests give every crossing of two sequences of statements, and each
request may be followed by others. In `chat` two calls in flight cross every
pair of steps, and the third, before or after them, asks the question, answers
it or turns away from it; sessions share nothing, and a transcript of two
messages (18 in the code) is cut in every turn. In `lifecycle` the first
command leaves behind everything a second can meet, a partial start included,
and one crash falls into any step of either; build, memory and UI, which the
commands treat alike, are given together. In `session_sync` a queue of two (64
in the code) overflows while a run works; two milliseconds give events of the
same and of successive times, and the second request is the one that meets the
times of the first. In `turn` a question, a reply that leaves something open
and the answer take three turns; the evidence is cut at 4 messages, 2 turns and
4 tokens (16, 4 and 180 characters in the code), so that each of the cuts takes
something away; the selector takes two routes of one domain from catalogs of
three, one of them without a route.

The runs `code_agent`, `approval`, `conversation` and `process_table` check
safety and liveness together and use no symmetry; `approval` fixes the order
of its interchangeable requests by their arguments instead. `session_store`
and `chat` check invariants only and use symmetry. Deadlock is not checked: a
run that has returned, a process that ignores SIGTERM with nobody stopping it,
a machine with nothing to start and a session with nothing to say are at rest.

## Fairness

`CodeAgent` and `ConversationAgent` assume weak fairness of the handler (and
of the daemon): the model call, the daemon's commands and the approval wait
each have a timeout, so the goroutine always takes its next step. Nothing is
assumed about what the model decides or that anybody cancels. `Approval` has
weak fairness for the goroutines and the timer of each wait, none for users,
cancellation or restarts. `ProcessTable` assumes that calls go on, that a
process sent SIGKILL exits and that `cmd.Wait` returns for an exited one;
nothing about SIGTERM.

## Proofs

The theorems hold for every value of the constants that satisfies the named
assumptions of the modules (disjoint kinds of calls, limits that are counts, a
catalog that is a sequence of contents, runs of the console that are not those
of others). `ServicesDiffer` says that no two services of the lifecycle have
one name: they are keys of one compose file. Each component has an inductive
invariant, `IInv` or an extension of it, with one proof step per action; TLC
has checked each on the instance of its run first.

* `CodeAgentProofs`: `IInv` is the type invariant with `Limits` (in the loop
  no counter has reached its limit), `CallInv` (where a call may be under
  way), `GateInv` (an edit since the last successful command means a closed
  gate or a report still on its way; this is what makes `FinalIsVerified`
  inductive), `EffectInv` (each change and each process left behind is paid by
  a tool step of its own) and `RowInv`. It gives `FinalVerified`, `RowSettled`
  and `ImplementsAgentRun`: whatever an edit, a command or a process does to
  the workspace belongs to one of the budgeted calls. `ChangesBudgeted` is the
  bound this puts on every code run.
  For `CodeAgentCost` (`CostInv`) every model call is charged to the counter
  that lets the run go on; a tool step pays for the failures it forgets. It
  gives `CallsBounded`: (2F - 1) calls per tool step, F per refused final,
  plus F.
* `ApprovalProofs`: whatever carries a decision (channel, row, granted waiter)
  got it from an answer of the approval's own session that made it. It gives
  `Consented`, `RowAgrees`, `AnsweredSettled`, `ImplementsConsent`, for any
  number of approvals, sessions and answers, also with a store that fails.
* `ConversationProofs`: the newest evidence is at most `2r - 4` observations
  old at the head of round r, one less if a round was idle; so a window of
  `2 * MaxRounds - 4` never drops it. For the 8 rounds of research this is
  exactly the 12 of the code; a configuration with more rounds
  (`config_test.go:57` has 9) would lose it. Further `GivesUpAfterSearch`,
  `RowSettled`, and `ImplementsAgentRun` with the calls of `code.*` tools among
  the others: `DaemonInv` says that a call is counted before it can have an
  effect.
* `SessionStoreProofs`: a run reads, checks and writes a mode together with
  its workspace (`ReqInv`) and remembers every project registered until it
  marks the row (`HadInv`). It gives `WorkspaceOfMode`, `ActiveIsSettled`,
  `OnlyRegistered` for any number of sessions, projects and requests.
  That a choice stands is not inductive by itself: a run that read the row
  before the choice would write the old mode over it. `ChoiceInv` adds that a
  request which chooses and is alone has its session for itself (`AloneInv`),
  and that after a choice every request under way on the session carries what
  was chosen, or nothing, to its last statement (`ChosenInv`: `Follows` says
  what it may still do at each of them). A run that misreads the row or the
  projects would break it, and a choice of code ends there; one of normal mode
  does not, since normal is what such a run falls back to. It gives
  `ChoiceStands` and `InternetStands`.
* `ChatProofs`: `Fits` says what the record of a call holds at each point of
  `runChat`, with the budget of model calls left; a question found or pending
  was asked by the call of its own message (`HeldAsked`, `PendingAsked`), which
  is what lets `OriginAsked` survive overlapping calls: an answered call keeps
  what it asked. It gives `OriginOfQuestions`, `SixCalls` and `OnlineSearch`.
  `CallsInv` is about sessions whose calls have not overlapped: one call at
  most is under way there (`Alone`); a question that is pending, or held and
  not yet filled, was filled by nobody (`FilledInv`); while a call is under way
  the pending question is still the last one asked, or the one it has just
  asked itself (`QuestionInv`); and what it read is still the transcript
  (`TranscriptInv`). It gives `QuestionIsLastAsked`, `FilledByOne` and
  `TranscriptIsEnd`, for any calls, sessions, messages and any length kept of
  a transcript; the last rests on a lemma about trimming twice.
* `LifecycleProofs`: as long as the session file has the id it had before the
  command, or none, the plan either begins with the rotation or starts no
  container any more (`Rotated`). It gives `NewSession`, for any services and
  options. The plans are built by concatenation, so `IsPlan` keeps them
  sequences and lemmas say what a concatenation starts and rotates.
  `PlanInv` balances what was reached against the rest of the plan: a service
  up was asked for is ready and the rest never touches it, or the rest waits
  for it (`UpInv`); a service that runs during a full down is one the rest
  still stops (`DownInv`); and the rest awaits what the orchestrator calls only
  before it starts the orchestrator (`Ordered`). The lemmas `UpPlanBrings` and
  `DownPlanStops` show it of the whole plan, for every choice of options,
  `RestUp` and `RestDown` of what is left after a step. It gives
  `ReadyIsReady`, `DownStopsAll` and the action property `OrchestratorLast`,
  whatever fails or stops by itself.
* `ChannelProofs` is about `ProcessTable` and `SessionSync`, which share a
  buffered channel between goroutines each. The status of a process that was
  waited for is in its channel, in the hands of a poll, or was taken by a stop
  (`StatusSomewhere`). It gives `PollsSeeExits`, for any number of processes
  and calls. In the state stream, updates of a run exist only once it stored
  the message of its user, and those of a run that stored its end have times up
  to that of the rows (`RunsInv`). So when the console looks up the end of its
  run, what waits in the queue is old enough to be skipped, and what
  watchSession holds was taken during the request (`EchoInv`): `OwnNotPrinted`.
  What it lets pass is bounded by the newest time it was told of and the last
  moment of its own requests (`SkipInv`, with the clock in `BusyInv`):
  `NothingNewSkipped`. Both are action properties and hold for any runs, any
  capacity and any overflow.
* `TurnProofs`, about `Routing`: a caller holds the mutex exactly while it
  loads (`MutexHeld`), works on the version it began with (`KeepsVersion`), has
  stored the routes of that version by the time it embeds them (`LoadStored`),
  and proposes routes of it (`ProposesOwn`). The third is what lets
  `StoredWhenCached` survive the replacement of the cache: rows are never
  taken out. It gives `MutexWhileLoading`, `CachedIsStored` and `OneVersion`,
  for any callers, catalogs and bounds; `RoutingKeeps` shows that the turns of
  a session keep the same invariant, with the session idle in the selector
  except while its turn chooses a route (`SessionIdle`), so a turn has
  `TurnOneVersion`.
* `TurnProofs`, about `Turn`: `StatedValues`, `EverythingMentioned`,
  `AnswersTheQuestion`, `AskedOnce` and `TimeAsTold`, for any texts, settings,
  context limits and any number of turns. The five properties speak of the end
  of a turn and are not inductive: that an answer uses nothing unmentioned
  depends on what the question before it kept, and that on every turn since the
  request. `TurnFits` says it of the turn as it goes on:
  + a pending question (`PendingFits`) of the calculator names an operation,
    holds of the person only what the user mentioned or the model made up as an
    answer (`Grounded`), has its measures in base units (`Settled`), and holds
    all that was given since the request, so that it misses none of it
    (`Known`); one of the weather keeps the day and the hour of the request
    (`TimeKept`), unless they were lost;
  + a call that answers a question (`AnswerFits`) keeps its operation and what
    it did not miss;
  + a call made from scratch (`CallFits`) names an operation if it is of the
    calculator, and holds nothing of the weather but what the text says.

  One lemma per action (`BeginFits`, `FillFromReplyFits`, `RunCalculatorFits`,
  ...) shows that it keeps `TurnFits` and ends the turn right (`Right`, the
  five properties), if it ends it. They rest on what the pure code does:
  `ReadIsGiven` (the parsers read a field exactly where the text gives it),
  `ResolveIs` (what `ResolveCalculatorCall` makes of a call), `CanonicalStays`
  (base units are a fixed point, so a value survives any number of replies),
  `EvidenceHeard` (evidence is what a user said, cut), `CalculateIs` (the
  calculator never misses a known field), `ReportIs` (which day and hour a
  report is of). Nothing of it computes with fractions: a value is shown to be
  the total of what was said, whatever the total is.

  The assumptions are `SessionIsACaller` (the session is one of the callers of
  the selector), `TextsAreTokens` (a token has at most one number),
  `OperationsAreNamed` (the grammar the model answers in has an operation in
  every call of the calculator, `scripts/grammars/tool_list.gbnf`) and
  `ContextIsBounded` (the three limits of the context are positive, as in
  `types.go:113` and `chatctx.go:29`).

Only model-checked: all liveness (the prover has no fairness or ENABLED), the
citations (a fold over sequences), and `NumbersRight`: that the expression
parser computes what the expression means, that a conversion turns back and a
trip takes its time is arithmetic of reduced fractions, and an induction over
data.

## Findings

* `conversation_miscites`: sources are numbered per search for the model,
  counted over all searches by the guard, and printed without repetitions, so
  an accepted citation may point nowhere or elsewhere (`direct_response.go:59`).
* `session_undeleted`: "Permanently delete" does not survive a run under way on
  the session (`agent.go:55`, `conversation_agent.go:318`).

## Known limits of the code

What the properties leave out, because the code does not promise it:

* Code agent. A refused final answer costs no step, so a model that keeps
  answering `final` with an unverified change keeps the run alive
  (`agent.go:147`; `docs/AGENT_PROFILES.md:7` speaks of the "64-step limit").
  `EndsUnlessFinalsRejected` says that nothing else does. A change reported as
  an error, or not at all, needs no verification (`agent.go:198`):
  `FinalIsVerified` is about the edits the loop was told of. What a shell
  command or a background process writes is never reported, so a final answer
  may follow it unverified (`service.go:186`).
* Conversations. A model may name `code.*` tools its prompt does not offer, and
  they are executed (`agent.go:281`); without a daemon `codeTools` is nil there
  and the call panics (`agent.go:282`; only code mode looks, `agent.go:95`).
* Sessions. A run that fails to read the row or the projects goes on in normal
  mode and writes that over the row (`agent_control.go:48` and `:67`,
  `agent.go:55`), so one failed read takes a session out of its code mode for
  good, which `docs/AGENT_PROFILES.md:7` calls persistent; `QuietChoiceStands`
  excepts a choice that was misread so. A run whose last status write fails
  leaves its row active (`agent.go:510`); `ActiveHasRun` excepts exactly these
  rows.
* Process table. A poll that crosses another finds the channel empty and
  calls the ended process running; `ExitSeen` says exactly when.
* Lifecycle. `down` with another profile than `up` leaves the database, and a
  daemon that systemd is just restarting is not stopped. The help of `down`
  (`cmd/beemo/main.go:205`) speaks of the services "without stopping
  PostgreSQL", which is so for the profiles that do not run their own.
* Console. A message taken before the end of a request and printed after it is
  echoed; so is one whose end could not be looked up. What is published between
  resuming and subscribing (`tui/main.go:82`) is not shown, and `/clear`
  leaves the watcher on the old session (`tui/main.go:106`).
* Turns. A call resumed from a question is not grounded again, so what the
  model makes up as the answer to it stays (`taken`: the fields it was asked
  for); a call for weather whose
  place is not found is stored as it was before it was completed, so a day or
  hour the model left out is lost (`lost`). "5 ft 70 kg" is read as 5 ft
  70 in, "100 km/h" by the measure patterns as 100 km, midnight as no hour, and
  everything after "in" as the place. "age is 30" and some spellings of units
  parse but are no evidence. A conversion that is asked for keeps its old value
  beside a new measure.
* Routing. `NewSelector` is called by tests only, so the selector of the
  orchestrator is nil in this repository; `chat.go:234` handles one that is
  configured, and `Turn` has both. A stored route is never updated when the
  catalog changes it under the same id. A selector without a database or a model
  returns before it stores or embeds (`postgres.go:21`, `:173`); `Routing` has
  both.
* Calculator. `tools.go:996` joins two adjacent numbers of an expression
  ("1 2" is 12); `Evaluate` has them as two tokens and an error. The sums that
  are checked have none.

## Plan

Done: the code agent, approvals, the conversation agent, the process table,
sessions and projects, the chat path, the lifecycle, the state stream with a
console, the tools and the way from a message to a call, and the route
selector. Left, in this order:

1. The UI's following of the state stream, and the wake loop, which reads the
   session file the lifecycle rotates.
2. Names and events of sessions in `SessionStore`.
3. The daemon's read ranges and patches (`codetools/service.go`) against a
   reference definition.
4. Overlapping turns with arguments: `Chat` and `Turn` in one module, once the
   state space allows it.

## Not modelled

Texts: prompts, formatting, the wording tests of policies and commands, and the
matching of project names; of the messages of `Turn`, the spelling of words and
numbers. Stateless services: ASR, TTS, the rerankers and the model client
appear as calls that return, fail or never reply, and so do the web requests of
the search, memory and older sister tools. Routing and embedding scores are
floating-point data, and the rounding of the calculator's float64 is replaced
by exact fractions. The core context cache is a prompt text kept for a minute.
File and patch operations of the daemon are sequential code over the file
system; a call is atomic in its effect here, except that its reply may be lost.
Failures of the database are modelled where a property depends on them
(`StoreReliable`, the statements of `SessionStore`, the transactions of
`Routing`, the look-ups of `SessionSync`) and otherwise only as the
cancellation of a request. What each component leaves out is in `PROJECT.json`.
