# OREIA-SECA in TLA+

OREIA-SECA is an orchestrator of AI agents: messages arrive from Telegram, a
terminal, a REST API or a Forgejo forge; a planner model turns them into tasks
with phases; people approve some of them; a bounded queue executes the phases
in a working directory, and for a Forgejo issue the result is pushed and a pull
request opened. It is a concurrent Tokio program (every message and every
webhook event is handled by a task of its own) with a little state in memory,
a little on disk, and many awaits in between. This directory models that state
and those interleavings, checks them with TLC on small instances and proves the
central invariants with TLAPS for every instance. Paths below are relative to
`src/`.

## Inventory

| Component | State | Operations | Talks to | What makes it correct |
|---|---|---|---|---|
| Task queue, `oreia-core/src/queue.rs` | semaphore permits, counters `running`, `queued`, `completed`, `failed` | `spawn`, `status`, `is_idle`, `drain` | runs `Maker::execute` | permits bound the bodies and survive errors, timeouts and panics; counters mean what `/status` shows; nothing starves; the shutdown's `drain` waits |
| Human approval, `oreia-core/src/approval.rs` | table id → oneshot sender | `request`, `respond`, `is_pending`, `list_pending` | `start_task_inner`, `run_escalation`, `/approve`, `/reject` | an answer is given once, to the right call, never inverted; no call waits for ever |
| Maker, `oreia-seca/src/maker/{mod,forge,commands,exec}.rs` | `active_work` (claimed items), task in memory of each handler and execution | messages, webhook events, `/retry`, planning, enqueueing, executing, boot, shutdown | all of the others | one agent per Forgejo item; claims do not outlive the work; files tell the truth about executions; interrupted tasks are announced |
| Task store, `oreia-core/src/{store,task}.rs` | one JSON file per task | `save`, `load`, `list`, `list_by_status` | Maker | a save is all or nothing; no progress is overwritten |
| Phase execution and escalation ladder, `maker/exec.rs`, `executor/{mod,verify,log}.rs` | phase statuses, failure context, cost, checkpoints, `escalation.jsonl` | `run_phase_ladder`, `run_escalation`, `run_with_retries`, `verify` | approval, git, executors | a phase is Done only after a verified attempt; a rejected attempt is undone before the next step and an approved one never; every attempt is logged; the cost is capped; nobody is bypassed at `ask_before_step` |
| Delivery, `gitops.rs`, `maker/forge.rs` | working clone, branch, remote branch, pull request | `prepare`, `checkpoint`, `discard_attempt`, `squash_since`, `commit_and_push`, `publish`, `publish_review` | git, Forgejo | work of phases recorded as Done is what gets delivered, over retries and crashes |
| Model router, `oreia-llm/src/router.rs` | per model: online flag, cooldown; configuration of roles | `generate`, `check_health`, `candidates` | model servers | falls back in order; does not ask a model that is cooling down while another is available |
| Sessions and direct replies, `oreia-core/src/session.rs`, `maker/direct.rs` | history per session, `sessions.json` | `reply_direct`, `summarize_session`, `/clear`, `flush` | router, channels | no message of a conversation is lost or comes back |
| Button assistants, `maker/commands.rs` | pending step per session | `/issue`, `/assign`, `/prs`, `resolve_pending` | Forgejo, channels | a free-text answer reaches the step it answers |
| Telegram, `oreia-channels/src/telegram.rs` | update offset, message ids of questions | `run`, `handle_update`, `ask_approval`, `approval_resolved` | Bot API, main loop | updates handled once and in order |
| Forgejo client, webhooks, `oreia-forgejo/` | none | HTTP calls, parsing, `parse_agent_branch`, `branch_from_ref` | Maker | branch names parse back |
| HTTP API and main loop, `oreia-seca/src/{http,main}.rs` | channel of messages | `/webhooks/forgejo`, REST, boot, shutdown | Maker | boot announces what was interrupted before new chat messages are handled |
| Executors, `oreia-seca/src/executor/`, `oreia-core/src/actions/` | the conversation of a run, files of the clone, a directory of files for an external tool, processes | `run` of `BuiltinExecutor` and `ExternalExecutor`, actions, `run_with_retries` | router, shell, containers, git | the model sees its instruction and whole exchanges; a tool reads its own run's files; a phase ends and is judged by its own changes |
| Planner, setup, skills, terminal | none, or text | parsing, prompts, wizard | | no state of the protocol |

How they interact: a chat or REST message goes through the main loop's channel
to `Maker::handle`; a webhook goes straight to `Maker::handle_forgejo`. Both end
in `start_task` (Forgejo items after `claim_work`), which saves the task, asks
`ApprovalBroker::request` if the source is gated, and hands `Maker::execute` to
`TaskQueue::spawn`. `execute` saves after every phase and, at its end, releases
the claim.

Where it is hard: handlers of one item race for its claim and act on what they
looked up before an await; `/retry` takes a task over from a dead execution, or
from one that is not dead; the queue's timeout drops an execution at any await,
together with the code that was to run after it; answers race deadlines; saving
may fail; the process may die anywhere and remembers only the files. The full
list, by line, is under `hazards` in `PROJECT.json`.

## Modules

| Module | Models | Checked by | Proved in |
|---|---|---|---|
| `TaskQueue` | `queue.rs` | `MCTaskQueue` | `QueuesProofs` |
| `ApprovalBroker` | `approval.rs` and the way its two callers use it | `MCApprovalBroker` | `ApprovalProofs` |
| `WorkClaim` | what `active_work` promises, abstractly | through `Maker` | |
| `Maker` | `maker/` without the inside of a phase, with the task files, boot, crash and shutdown | `MCMaker` | `MakerProofs` |
| `Escalation` | the phases of one execution: `execute_inner`'s loop, `run_escalation`, `executor/`, the local git commands | `MCEscalation` | `EscalationProofs` |
| `Publication` | what delivering promises about a branch, abstractly | through `Delivery` | |
| `Delivery` | clone, branch, commit, push and pull request around the phases: `gitops.rs`, `publish`, `publish_review`, `/retry` | `MCDelivery` | `DeliveryProofs` |
| `Questions` | the messages with buttons of `telegram.rs` around `ApprovalBroker` | `MCApprovalBroker` | `ApprovalProofs` |
| `ModelRouter` | `oreia-llm`: `router.rs`, and what `lib.rs`, `openai.rs`, `anthropic.rs` make of a failure | `MCModelRouter` | `ModelRouterProofs` |
| `Sessions` | `session.rs`, `direct.rs` and the commands on sessions | `MCSessions` | `SessionsProofs` |
| `Polling` | how messages arrive: `run` and `handle_update` of `telegram.rs`, `api_message`, the queue of `main.rs` | through `Conversation` | `QueuesProofs` |
| `Assistant` | `pending` and the commands of `commands.rs` that use it | through `Conversation` | `QueuesProofs` |
| `Conversation` | `Polling` and `Assistant` together, with a crash | `MCConversation` | `QueuesProofs` |
| `Attempt` | what every run of an executor shares: clone, processes, outcome | through `Executors` | |
| `AgentLoop` | `executor/builtin.rs` and `actions/` | through `Executors` | |
| `ExternalTool` | `executor/external.rs` | through `Executors` | |
| `Executors` | `run_with_retries` and the ladder over `AgentLoop` and `ExternalTool` in one clone | `MCExecutors` | `ExecutorsProofs` |

How they fit together. `Conversation` delivers a message and runs the assistants;
what a message starts beyond them is `Maker`'s. `Maker` counts bodies where
`TaskQueue` has permits, and has one action for a phase where `Escalation` has
a ladder of attempts; `Escalation` has one action for an attempt where
`Executors` has the runs of it; `AgentLoop` has one action for a model's answer
where `ModelRouter` has the calls. `Delivery` surrounds the phases with git and
the forge. Each is the outside of the next, checked separately: their product
is far beyond TLC.

### TaskQueue

`pc[j]` is how far the future `j` has come through the wrapper of `spawn`; the
four counters are the four atomics, `waiters` and `permits` are Tokio's
semaphore. Each `fetch_add`, `fetch_sub` and load is one action: `Spawn`
(queue.rs:68), `Enqueue` and `Grant` (72), `Dequeue` (73), `Start` (74),
`Return`, `Timeout`, `Panic` (77-83), `Settle` (85), `Count` (86-92), `Release`
(94). `drain` polls: `LoadRunning` and `LoadQueued` are the two loads of
`is_idle`, so what is found in the first may be stale at the second. A panic
skips `Settle` and `Count`: the permit comes back by its destructor and the
`running` counter stays one too high for ever, which `CountersExact` says.

### ApprovalBroker

A call is one question: `Ask` shows it on the channels, `Register` is the
insertion in `request()`, `RespondTaken` and `RespondRefused` are `respond()`,
`Take` and `Deadline` the end of the wait, `Forget` the removal after it (by
id, whoever registered it last), `Abandon` the call dropped with its execution
by the queue's timeout. The order of the first two is the callers' (mod.rs:207
and 214, exec.rs:293 and 299), not the one approval.rs:4-6 describes. Calls
may share an id: escalation ids are built from task, phase and step, so a task
that is retried asks under an id that may still be registered. A sender that
is overwritten or removed closes its channel, which `request()` reads as a
rejection.

### Questions

Extends `ApprovalBroker` with what people see. `stage[c]` is where the call's
channel work is: `StartAsk`, one `SendTo` per chat (three attempts of
`call_with_retries` are one step whose message may be there once, twice or not
at all, with or without a known id), `Record` the insertion into `approval_msgs`
(telegram.rs:315), `Request` the registration that comes only then, `Resolve`
the removal (337), `Edit` one `editMessageReplyMarkup`, `Cut` the future dropped
by the queue's timeout. The broker's actions are used as they are, so every
behaviour of `QuestionsSpec` is one of `ApprovalBroker!Spec` (`ShowingRefines`).
The terminal prints a question and keeps nothing of it.

### Maker and WorkClaim

An actor is a message with everything it sets off: its handler first, then the
execution the handler enqueued. `stage[a]` is where it stands between two
awaits; `copy[a]` is the task it owns in memory, `disk[t]` the file, `active`
the set `active_work`. Triggers are messages (plain ones, requests such as
mentions and `/changes`, and events, which look the item up first); retries are
`/retry` commands and act on the task of some trigger. Stages and code:

| stage | the code between |
|---|---|
| `checking` | forge.rs:277 (`is_active`) and 283 (`already_delivered`) |
| `announcing` | the look-ups and `claim_work`, forge.rs:232: the broadcast is sent |
| `planning` | the claim and the first save, mod.rs:190 |
| `planned` | the first save and the question, or the queue |
| `awaiting` | mod.rs:206 and the answer |
| `loaded` | commands.rs:180 and the claim of `/retry` |
| `resuming` | the claim of `/retry` and its save, commands.rs:194 |
| `queued` | `enqueue` and the body |
| `preparing` | the body's start and exec.rs:84 (clone or directory) |
| `working` | exec.rs:84 and the last save, 154, one action per phase |
| `closing` | exec.rs:154 and `release_work`, 36 |

`Claim`, `RetryClaim`, `End` are the only ways a claim is taken or released;
`LeaveClaim` is the end of an actor that skips the release, and notes the item in
`leaked`: `DropBody` and `ResumeFails` (the save of `/retry` fails). `BreakOff` is
a `?` after a failed save; `DropBody` is the queue's timeout, or a panic, dropping
the body; `Crash` is the end of the process, by a kill or by a shutdown whose
drain expired, and loses everything but `disk`; `Recover` is
`recover_interrupted`. Before `Recover` webhooks are already handled, because
main.rs spawns the HTTP server first; chat messages and `/retry` are not.

`WorkClaim` knows for each item only who is at work on it: somebody may begin
only when nobody is, and any of them may end or be stopped. `Maker` is shown to
implement it under the mapping `workersOf`: the claimed set, leaks, stale
look-ups and restarts never let a second agent in.

Abstractions: a plan has `PhaseCount` phases whose results are chosen freely;
texts, replies and broadcasts are left out, but the awaits they stand for are
not; `Dequeue` counts bodies against `Concurrency` (that the queue does so is
`TaskQueue`'s `ConcurrencyBound`); approval is `Approve` or `Deny` (that the
answer is genuine is `ApprovalBroker`'s `Consent`). A save is one step: it
writes a temporary file and renames it.

### Escalation

One execution of one task, from the loop over its phases down. `pc` is where
`run_escalation` stands:

| `pc` | the code |
|---|---|
| `loop` | exec.rs:93, between two phases |
| `climbing` | 264, at the top of the loop over the steps |
| `asking` | 299, in `request()` |
| `running` | 341, in `run_with_retries` |
| `judging` | 345, in `verify` |
| `passed` | 378, at the checkpoint |
| `recording` | 383, at the log |
| `over`, `dropped` | after the loop; dropped with its future, or by a failing save |

`StartPhase` is `run_phase_ladder`: a role without an `[escalation]` entry makes
one unverified attempt, step 0 (`RunUnverified`), any other climbs. `Climb` is one
turn up to the executor, with `discard_attempt` in it; `Stop` its two early ends;
`Grant` and `Refuse` the answer before the step. `RunFails` is a retry of
`run_with_retries`, `RunReturns` its result with the changed files as `git status`
lists them at that moment, `Pass` and `Fail` are `verify`, with `Test` for its
`test_cmd`, together with the accounting of exec.rs:350-374, `Checkpoint` is `git
add` and `git commit`, `Record` the log and the resolution.

The working copy is abstracted to who wrote what is in it: `<<p, s>>` stands for
everything the attempt of phase `p` at step `s` wrote, and is in `head`, in the
`index` or in the `tree`. This tells apart what the commands do - `git checkout
-- .` restores from the index, not from HEAD; `add -A` moves the tree into the
index; a commit moves the index into HEAD - and nothing else. A shell, an
executor's or `test_cmd`'s, writes into the same directory (`Touch`): it may also
`git add` what is there (`staged`), which the prompts do not forbid, and leave a
process behind (`Leak`, `leaky`) that writes later, whoever's turn it is
(`LateWrite`). An attempt that undoes another's edits is left out, files git
ignores are, and so is an executor that commits by itself (prompts.rs:37 and
external.rs:195 tell it not to). A failing command is in
`Faults` and leaves a warning in `faults`, as in the code, which goes on.
Failure texts are reduced to the step they tell of, cost to whole units of at
most `MaxCost` an attempt. `executor_for` and `selector_for_step` cannot fail
here: config.rs:426-443 checks every step at boot. That the phases run while the
task is claimed, saves between them and `/retry` are `Maker`'s; `Maker`'s
`RunPhase` is this module seen from outside.

### Delivery and Publication

All tasks of `Delivery` are about one branch, `agent/<name>/issue-<n>`. Authors
(`Coders`) are claimed under the issue's number, reviewers under the pull
request's, so `Claimed` keeps two authors apart but lets an author and a
reviewer work at once. `stage[t]` is how far an execution is:

| stage | the code |
|---|---|
| `preparing` | from the claim (forge.rs:232, commands.rs:185) to the end of `prepare_repo`, exec.rs:53 |
| `working` | exec.rs:64-120, the phases, up to `squash_since` |
| `committing`, `pushing` | in `commit_and_push`, gitops.rs:80-87 |
| `opening` | forge.rs:129-190, `create_pull` or the look-up of the open one |
| `commenting` | forge.rs:207-215, a review's comment |
| `saving`, `recording` | exec.rs:154, without and with a URL in `task.pull_request` |
| `over`, `cut` | the claim released; cut off by a crash, a timeout or a failing save |

A history is a sequence of commits after the base and a commit the set of works in
it, `<<t, p, n>>` being what phase `p` of task `t` wrote in its `n`-th execution;
`open` is what is not committed. So `git reset --soft` moves the works of the
commits since `start_sha` back to `open`, a push replaces the branch by the
clone's history if it extends it, and two executions of one phase are told apart.
A failing call either does not happen (`PublishFails`, `CloneFails`) or happens
without its answer coming back (`PushUnanswered`, `PullUnanswered`); a failing
`ls-remote` reads as a missing branch. `Load` and `Retry` are the two halves of
`/retry`, before and after the claim; `Save` writes the status exec.rs:128 chose
before publishing was tried. A phase that passes leaves its work uncommitted, as
without a ladder or when the commit fails, commits it with what lay there, or
fails to `git add` it, which is only warned about: then it is `exposed`.
`FailPhase` leaves something or not, and `Discard` is the discard before a later
step of the ladder of the next phase: it takes what is not in the index, or a part
of it, and with it approved work that is exposed (`lost`). After a dropped
execution the claim stays in memory (`maker_leak`); here it is free again, as
after a restart. People who push to the branch, merge or close the pull request
are left out.

`Publication` knows a branch, what the latest execution of each task approved,
and whether there is a pull request. `Delivery` is shown to implement it with
`branch` mapped to the union of the remote commits and `made` to the approved
works of the latest execution that were not lost: whatever fails or is cut off,
a delivery carries all of it, nothing leaves the branch, and no pull request is
opened over an empty one. `Lose` is the one step that takes something from `made`,
and only before it was published. Only the *latest* execution, which is why
`delivery_retry` is no contradiction: the promise is kept by every execution and
broken by the task.

### ModelRouter

`slot[k]` is what `from_config` made of a key (absent from `[models]`, registered
without a client, configured), for every set of environment variables (`Init`).
`cooling[k]` is what is left of `offline_until`; `Tick` is the clock. A call goes
through `Begin` (`candidates()`, or the one model a step names), `Ask`, `Reply`
or `TimeLimit`, and `Return` or `FallBack`; the answer is formed in one step and
marked in another, so calls and the health check (`Probe`, `ProbeAnswer`,
`ProbeMark`) mark a model by answers that may be old. `ResultOf` is the table
from what the wire brings - a refused connection, a status, a body that breaks
off or holds no text - through `LlmError` to `should_fallback`. A body that
breaks off is `Decode` in both providers and so worth no fallback, although
lib.rs:12-14 counts a broken connection among the reasons for one.

### Sessions

A job is a message or a command; `at[j]` is the await it stands at, and only
`Workers` of them are on a thread at once. The operations of `SessionStore` are
one step each under its lock. `flush()` is four: `Serialize` under the lock,
`Open`, `Write`, `Rename` after it. Files are inodes, because a rename moves one
that another flush may have open; a write that is shorter than what is there
leaves its tail behind (`Overwrite`). `DiskFails` is any of them failing, `Crash`
the end of the process between two. `Boot` is `open()`: a file that is missing or
empty is an empty store, one that is no JSON stops the boot, and one that cannot
be read, or is no text, is an empty store without a word (session.rs:24-27), which
`unread` remembers: the next flush of that process writes over it. `memVer`
numbers the states of memory, so that "an older snapshot" has a meaning.

### Polling, Assistant and Conversation

`Polling` has Telegram's side (`sent`, `confirmed`) and the program's (`offset`,
`batch`, `inbox`). `Poll` confirms what is below the offset and fetches the rest;
`TakeUpdate` is one turn of the loop over a batch: the offset moves, and a message
that passes the filter waits for room in the queue. `Assistant` has one handler a
message, `at[m]` the await it stands at: the command or text takes the session's
entry under the lock (`HandleCommand`, `HandleText`), the channels or Forgejo are
asked, the next entry is put in (`Store`). `Conversation` joins them with
`Deliver` (the main loop's spawn, `SpawnHandler`) and `Crash`, which forgets all
but what Telegram and Forgejo know. What a person sends is a script chosen in
`Init`; commands are reduced to what they do to an entry.

### Attempt, AgentLoop, ExternalTool and Executors

`run` numbers the runs of executors in one directory, a clone or a plain one
(`isGit`); `changed[p]` is the run that wrote file `p` since HEAD, `index[p]` the
same of git's index. `AgentLoop` is the loop of `BuiltinExecutor::run`:
`ModelReplies` gives a sequence of blocks, each refused (`RefuseAction`) or run
(`FileAction`, `ShellAction`), `Collect` appends the exchange and trims
(`Trim`, the `while` of builtin.rs:105), `Report` returns. A block is what
`parse_actions` tells apart: where its parameters are given, for lines count only
when there are neither attributes nor tags (parser.rs:129-131; the header of that
file says they fill in what is missing). `ExternalTool` is `ExternalExecutor::run`:
the files of its directory one by one, each with the run that wrote it, the two
ways to start the tool, its end, its timeout, and the cleaning up that an early
return skips. A command may write, `git add` (`Touch`) and leave a process behind,
whether it ends in time or is killed (`KillShell`), and that process writes later
(`SurvivorWrites`). `Executors` puts both on the ladder: `RunAgain`
(`run_with_retries`), `Accept` and `TestFails` (`verify`, whose `test_cmd` is a
command like any other, `Test`), `NextRung` with `discard_attempt` in it, `CutOff`
(the queue's timeout), `Retry`. `DiscardAttempt` restores from the index, may fail
halfway (`kept`), and does nothing to a plain directory, which also outlives a
`/retry`.

## Runs

| Run | Bounds | Shows |
|---|---|---|
| `taskqueue` | 3 futures, 2 permits, timeout | permits and counters exact over every return, timeout, panic and drain; no starvation |
| `approval` | 2 calls, 2 ids, 2 chats, 2 messages gone wrong | no wait is stranded, no answer invented or inverted; buttons are there as long as a question is open and gone when it is resolved |
| `maker` | 2 messages, 1 `/retry`, 1 item, 1 phase, 2 permits, timeout, failing saves, 1 crash | files current, interruptions announced, `WorkClaim` (one agent per item) implemented, claims left behind by the timeout and a failed `/retry` only, every request over in the end |
| `maker_leak` (violation) | 2 messages, 1 `/retry`, 1 permit, timeout, nothing else fails | a dropped execution leaves its item claimed with nobody at work |
| `escalation` | 2 phases, 2 steps, 1 retry, consent from step 2, cap 0, attempts costing 0 or 1, any git command or the log fails once, 1 work staged or process left behind | consent before work, rejected work out (but for the index and late writes) and approved work in, changes accounted for, attempts logged, the loop ends |
| `escalation_cost` (violation) | the same ladder, nothing fails and nobody asks | two phases cost more than the cap and one attempt, which is given per task |
| `delivery` | 1 author, 1 reviewer, 2 phases, 2 executions in all, an earlier delivery or none, any two calls failing, discards between phases | what is approved is delivered, recorded and commented unless something failed or somebody else pushed; pushes lose only to another's; what a recorded pull request stands for is on the branch, but for what a failed checkpoint let a discard take; `Publication` implemented |
| `delivery_retry` (violation) | 1 author, nothing fails | an interrupted task, resumed with `/retry`, ends as Done without the work of the phases it had approved before |
| `router` | 2 calls, 3 keys (a local model, one that needs a key, one in no `[models]`), 2 roles with opposite orders, cooldown 2, any environment | a model is away exactly for the cooldown since its last failure; the end of a call is accounted for by its chain; calls end |
| `sessions` | 3 jobs, 2 sessions, 2 threads, histories of 3, failing disk, 1 crash | what one flush saved only an overlapping one may lose, or the first of a process that could not read the file; a summary forgets only what was said while it was made |
| `conversation` | 6 scripts of at most 5 messages, an API message, queue of 1, 1 crash | an update is handled once a boot; one assistant makes one issue; nothing unconfirmed is lost |
| `executors` | the built-in, then an external executor, 1 retry each, 1 `/retry`, 3 replies a run, a budget of 4, 1 file, which is indexed or 1 process is left behind, 3 ways to set the tool up, a clone or a plain directory | prompts are whole, tools read their own files, counted changes are the step's own, from the index or a survivor's, the phase ends |

Why the bounds are enough. Three futures on two permits is the least in which one
waits while another times out. Two calls over two ids displace each other or do
not; that a third changes nothing is proved (`NotStranded`, `Consent`), and two
chats let a question be on show in one and not in the other. In `Maker` two
messages and one retry are the three kinds of actor that can meet on one item; the
item of each message is chosen in `Init`, so the cases "same item", "one without"
and "both without" are all there; a second item would only add independent copies.
One phase is enough there: a task can be cut off before and after it, and what is
left of several phases in a clone is `Escalation`'s and `Delivery`'s, which have
two (the proofs of `Maker` are for any number). One crash leaves files of every
status behind, and what is remembered about it (`cut`) is of the last crash only.
Two phases and two steps let the last attempt of one phase meet the first and the
second of another, and one retry lets an attempt run over its own remains; with a
cap of 0 and costs of 0 and 1 both sides of the strict comparison occur at every
step. `MaxSlips` bounds the works in the index and the attempts with a process left
behind, in `Escalation` and `Executors`: one of either is what the exceptions of
`AttemptIsolation`, `ChangeAccounted` and `Attributed` are about, and the proofs
have any number. `MaxFaults` is the number of operations that may fail, each any
number of times: two in `delivery`, so that a property has to hold after a failure
of one step and another of a later one, one in `escalation`, and none in
`delivery_retry` and `escalation_cost`, whose findings need no failure; the
properties about failures say which. `ExpectsChange` is TRUE in `executors`,
because a phase that asks for no change may also pass without one. In `delivery`
two executions are those of an author and a reviewer at once, or of a task and its
`/retry`; the branch of an earlier delivery that `Init` offers lets the first
execution already meet a branch and a pull request, for which three would be needed
otherwise. Two phases give two checkpoints to squash. In `router` two calls and the
health check are three markers of one model, the least in which a mark is overtaken
by a newer and an older one; a cooldown of 2 can be renewed when half of it is
over. Three jobs of `sessions` are a summary, somebody who speaks while it is made,
and a flush of the state before. The scripts of `conversation` each hold one race:
an issue asked for step by step with a queue of one, a command in the middle of it,
an assistant over another. Two rungs and two runs each let an attempt meet the
remains of its own step and of the step before, and three replies are two prompts
after the first: one exchange that does not fit and stays all the same, and two of
which one goes. Symmetry is used in safety runs only, and so are the views of
`delivery` and `sessions`, which identify states that differ only in what no step
and no property of the run looks at again: the clone of a task that is not under
way, the session of a job that is over, a file that nothing refers to (the comments
of `MCDelivery` and `MCSessions` list it all). `ImplementsWorkClaim` and
`ImplementsPublication` are safety properties: the abstract specifications have no
fairness, and `Delivery` states none. `CHECK_DEADLOCK FALSE` in every
configuration: the bounded models stop when every message has been dealt with, as
the program then waits for the next one.

Fairness. `TaskQueue`: the runtime polls what is ready and its timers fire (WF on
each step; SF on the drain's deadline, whose moment comes again at every sleep);
that a body returns is *not* assumed, and `NoStarvation` rests on the timeout.
`ApprovalBroker`: WF on the caller's steps and its deadline; no answer is assumed.
`Maker`: WF on each handler (replies, the planner and approvals have limits of
their own, and the one call of Forgejo a handler makes, forge.rs:328, comes before
it is in any of the stages `RequestEnds` speaks of), WF on the queue's timeout,
and SF on `Dequeue`, because Tokio's semaphore is first come, first served. That a
body returns is *not* assumed: it calls Forgejo, whose client has no time limit
(oreia-forgejo/src/lib.rs:132), so `RequestEnds` rests on the queue's timeout, and
with `timeout_secs = 0` a silent forge may hold a permit for ever. No message has
to arrive. `Escalation`: WF on the ladder's progress as a whole, because executors
(`step_timeout`, `shell_timeout`), tests and questions all have limits, and none
calls Forgejo; being dropped is not assumed. `ModelRouter`: WF on what a call does
itself, its time limit included; a server owes no answer, so `CallEnds` rests on
the limits. `Conversation`: WF on polling, on taking updates, on the main loop and
on each handler; nobody has to send anything, and a poll may be lost any number of
times but not for ever. That handlers go on assumes that the channels and Forgejo
answer or fail: the channels have a limit (telegram.rs:132-154), the client of
Forgejo has none. `Executors`: WF on the loop and on the tool's timeout; a tool
that runs need not end by itself.

`violation` runs are disagreements between the code and its documentation; they
are described under `findings`. Further disagreements are stated as properties
next to the checked ones, with the step at which the code departs from them,
and have no run of their own:

| Statement | Said by | The code |
|---|---|---|
| `TaskQueue!DrainWaits` | queue.rs:112, the shutdown waits for tasks under way | between queue.rs:73 and 74 a task is in neither counter, and `is_idle` says idle |
| `ApprovalBroker!NoAnswerMissed` | approval.rs:4-6, request, then answer | the callers show the question first (mod.rs:207, exec.rs:293); an early answer is refused |
| `Maker!ApprovedBeforeRun` | config.rs:101, gated sources wait for `/approve` | `/retry` looks at no status (commands.rs:193) |
| `Escalation!ChangeIsItsOwn` | verify.rs:4-5, docs/executores.md:174-175 | the last rejected attempt of a failed phase stays, and the next phase passes on it |
| `AttemptIsolation`, without its exceptions | docs/executores.md:174-175, a failed attempt is undone | what a shell put in the index survives `git checkout -- .` (gitops.rs:115-119), and a process that outlived its command writes after it |
| `Sessions!FileReadable` | session.rs, `flush` is atomic | two flushes share the temporary file: one renames what the other is writing |
| `Assistant`, `AbandonedIsOver` in `Conversation` | mod.rs:147-148, a command abandons an open assistant | the handler that opened it may store its entry only afterwards |
| `Executors!NothingLeft` | external.rs:322-323, docs/executores.md:132 | without `OREIA_SECA_HOST_DIR` the run ends after `cmd.sh` is written; a timeout kills docker's client only |

## Theorems

The proofs hold for every value of the constants: any futures and permits, any
calls, ids and chats, any messages, retries, items, phases and crashes, any
ladder and plan, any jobs and sessions. The assumptions are those the modules
name: `QueueAssumption` (a finite set of futures), `BrokerAssumption` and
`MakerAssumption` (the null values are not members, a retry is not a message,
bounds are numbers), `EscalationAssumption` and the like for `Executors` (what
config.rs:426-443 ensures of a ladder, and numbers), `RouterAssumption`,
`QuestionsAssumption` and `DeliveryAssumption` (their constants have the shape
the modules say), `PollingAssumption`, `AssistantAssumption` and
`ConversationAssumption` (scripts are sequences of texts and there are as many
messages as the longest can need; the null value is not an entry; bounds are
numbers), `SessionsAssumption` (finitely many jobs and sessions,
max_messages and workers not zero). A theorem of the form `Spec => []P` rests on
one inductive invariant per module, the conjunction of the parts named below;
every invariant was checked by TLC on the run's instance before it was proved.

* `QueuesProofs`, of the task queue: `TypeCorrect`, `Concurrent`,
  `CountersCorrect`, `IdleCorrect`. The bounds are counts of futures by stage, so
  the proof is one lemma on how the cardinality of "the futures in stages S"
  changes when one future moves, applied to each action. `ConcurrencyBound` is
  inductive with the type invariant. `CountersExact` needs to know that `result`
  is decided exactly when the body has ended; a decrement never wraps because the
  future it stands for is still in the counted stage. `IdleCorrect` then is
  arithmetic: with `queued` zero nobody waits, and who is left holds a permit.
* `QueuesProofs`, of the messages: `TalkTypeCorrect`, `EachUpdateOnce`,
  `OneIssueEach`. `PollInv` puts the poll loop between what Telegram has forgotten
  and what was sent: a batch is what follows `NextUpdate` without a gap, so no poll
  can confirm what was not taken. `AccountedOnce` is carried with the converse for
  what is not sent yet (`SeenInv`), by lemmas on how often an element occurs in a
  sequence that is appended to or cut. For `OneIssue`, every entry - in `pending`,
  in a handler's hand or in an issue - is made of messages of its session that a
  handler has looked at, no two alike (`MadeInv`), and no two entries of one life
  have a message in common (`ApartInv`); a step only moves an entry, or adds to it
  the message being looked at, which is in no entry yet. What an assistant has
  answered tells at which question it stands (`HandInv`).
* `ApprovalProofs`, of the broker: `TypeCorrect`, `NobodyStranded`, `ConsentKept`,
  `AnswerOnce`. `Consent` speaks of the end of a call; the invariant follows the
  answer through the places where it can be: what is in the table is unanswered
  (`TableInv`), what is in the channel is what was accepted, and a closed one
  was displaced, unanswered, by a call of the same id (`ChannelInv`).
* `ApprovalProofs`, of the screen: `ShowingRefines`, `ConsentShown`,
  `ButtonsKept`. Every step of the channels is a step of the broker or leaves it
  alone, so what is proved of the broker holds of calls that are shown, lost,
  edited and cut off. `ButtonsMatch` says that buttons which can still be pressed
  belong to a call that waits, or to one of the exceptions it names; the
  invariant relates them to `approval_msgs`: a message is in it from `Record` to
  `Resolve` (`StageInv`), under the id of a call that still is its owner unless a
  call of the same id overlapped (`OverlapInv`, `OwnerInv`), and buttons nobody
  will edit are of messages without a known id (`ButtonInv`).
* `ModelRouterProofs`: `CooldownKept`, `ChainAccounts`. For each mark, what is
  left of the cooldown and the time since the failure add up to `Cooldown`. For
  each call, `CallInv` says that what has failed it, what is being asked and what
  is still to ask make up what it set out with, and that all before the model
  asked have failed it; at the end that is `AccountedFor`.
* `MakerProofs`: `TypeCorrect`, `Exclusion`, `FilesCurrent`, `Announced`,
  `ClaimsHeld`, `Refinement`. `ExclusiveWork` is not inductive: `Claim` tests the
  set `active`, not the other actors. The strengthening says that whoever holds an
  item has its key in `active`. From exclusion follows that no other actor writes
  the file of a Forgejo task while its phases run, so the file equals the
  execution's copy (`FileIsCurrent`), its status is Running at every crash, and
  `Recover` lists it. The refinement maps each action to a step of `WorkClaim` or
  a stutter; `Exclusion` discharges the guard of `Begin`. `ClaimsHeld` follows
  claims through every way an actor can end: `End` releases, `LeaveClaim` notes
  the item as leaked, and nothing else takes a holder away but a crash, which
  empties `active`. That the exception is needed the run `maker_leak` shows.
* `EscalationProofs`: `TypeCorrect`, `Asked`, `Climbs`, `Isolated`, `Kept`,
  `CostBounded`, `Accountable`, `Logged`. All rest on `ControlInv` and
  `HistoryInv`: the phase under way is pending, and what was tried and written
  belongs to phases reached and steps already climbed, so the attempt about to
  start is in no history yet. `AskedFirst` is then carried by "the attempt under
  way is granted". `AttemptIsolation` needs that what is *committed* comes only
  from resolved or failed phases until the checkpoint (`IsolationInv`): a discard
  takes the rest, but for what shells put in the index and what processes left
  behind write, which the invariant carries as `staged` and `leaky`.
  `ApprovedWorkKept` is the converse: what a resolved phase wrote is in HEAD or
  the index, out of a discard's reach, and the current attempt's work is still in
  the tree when `git add` comes (`KeptInv`). `CostBound`, what the code keeps of a
  cap meant per task, is arithmetic on what earlier phases spent (`CostInv`).
  `ChangeAccounted` needs to know whose work is in the tree at each place of an
  attempt (`TreeInv`) and what an earlier phase may have left there (`ChangeInv`);
  `EveryAttemptLogged`, that between two writes the log lags behind by exactly the
  attempt just judged (`LogInv`).
* `DeliveryProofs`: `TypeCorrect`, `RunsAreComplete`, `RecordsArePublished`,
  `PushesAreFastForward`, `DeliveryPublishes`. Commits are sets of work here, so
  the invariant is about inclusion: a clone holds what its branch held when it was
  cloned, start_sha is in its history, and what it has beyond start_sha is its own
  run's work, made of what the loaded task file says is done. Approved work is in
  the clone or lost, and a discard reaches only what is exposed, which nothing is
  unless an `add` failed. From that follow what a push adds, and that it is behind
  nothing but what somebody else pushed. The refinement maps clones, commits and a
  push to one step of `Publication`, and a discard to `Lose` or a stutter.
* `SessionsProofs`: `TypeCorrect`, `SavedKept`, `OnlyOverlapsForgotten`. A flush
  that is alone has the temporary file to itself, and what it has serialized is no
  older than anything saved before (`AloneInv`); with `SavedIsKept` itself this is
  inductive, over failures and crashes at each file operation; a process that
  could not read the file is known by `unread` until its first flush, which takes
  back what others were told. That `open` finds a fresh inode is by counting: more
  inodes than jobs (`UnusedThere`). For summaries, `SaidInv` says that histories,
  transcripts, snapshots and files hold only what was said in their session, so
  that a summary, `/limpar` and a restart touch only their own; `KeptInv`, that
  what is to be kept is in the history *and* in the transcript of whoever sums the
  session up, so that a summary stands for it.
* `ExecutorsProofs`: `TypeCorrect`, `ReadsItsOwn`, `ChangesAttributed`,
  `PromptWhole`. `CountInv` bounds the runs by the ladder climbed so far
  (nonlinear in executions, rungs and retries); `OwnInv` has the runs of a step
  begin with `own` and everything older in the clone be in the index or of a
  process that outlived its run, as long as discards work; `ScratchInv` follows the
  files of a tool from where they are written to where it reads them. `PromptIsWhole` is about the trimming.
  The conversation always is the instruction and the longest run of latest
  exchanges that fits (`PromptInv`), which an answer makes one longer and `Trim`
  cuts again. That nothing is lost by cutting an earlier conversation and not the
  whole one rests on `SizeGrows`: what fits with one exchange more fits without
  it. The number of cuts is the least at which `Trim` stops, and there is one,
  because the naturals are well-founded. `EstimateTokens` is stated as the
  cardinality of a set of (message, unit) pairs rather than as a fold, so that
  this is about inclusion and needs no induction over the sequence.

Only model-checked: the liveness properties (`NoStarvation`, `RequestEnds`,
`LadderEnds`, `CallEnds`, `EventuallyHandled`, `PhaseEnds`), which the prover
cannot reach. Every safety property a passing run checks is also a theorem.
Five results are proved and not run: `AnsweredOnce`, `ExclusiveWork` (a
run has `ImplementsWorkClaim`), `LadderOrder`, `IdleLeavesOnlyHolders`, whose runs
have the stronger or composed statement, and `CostBound`, beside which a run has
the cap as it is documented (`TaskCostBound`).

## Not modelled, and the plan

Not modelled: the planner (two attempts at parsing an answer, no state); the
Forgejo client and webhook parsing (I/O and JSON; the events are `Maker`'s
messages, the calls' failures `Delivery`'s); configuration, setup and its web
page, prompts, skills' files (text and I/O at boot; values are constants of the
models); the terminal (prints); typing, menus and the cutting of long texts in
Telegram (layout; `ask_pick` cuts a command at 64 characters where its comment,
telegram.rs:321, says bytes); `/status`, `/stats`, `/queue`, `/pending` and the
like, which only read. In the task store, two executions of one *plain* task write
one file at once; the code rules it out for Forgejo tasks only, and so do
`FileIsCurrent` and `InterruptedAnnounced`.

Next, proofs: what the modules assume of each other. `Escalation` takes an attempt
for one step that edits files and reports an outcome; that `Executors` is such an
attempt is argued above and not yet a refinement.
