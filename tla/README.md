# Floret: a verification project

Floret is a Go library that runs interactive AI agents: a host gives it a
thread and a message, and floret executes a *turn*, a loop of provider requests
and tool calls, and keeps everything the turn did in a durable journal, so that
a turn can be stopped, asked a question, given instructions while it runs, and
taken up again after the process was lost. Around that it lets itself be observed: a
host, or the parent of a subagent, follows a thread while it works. And it
manages the threads: they are created by hosts and by tools, deleted with everything
below them, and closed with the host.

This directory models these promises in TLA+. TLC checks the models on small
instances. TLAPS proves for every value of the constants what matters most: the journal's
promises and its refinement of a contract, that the goal, the title, the tool dispatch, the
recovery, the queue and the host's works keep those promises, and the safety of each of them, of
the engine's loop, of provider retries, of the host's lifecycle, of the updates a reader follows and
of what a parent is told of its subagents.

| Module | What it is |
|---|---|
| `TurnContract` | what a journal promises about turns and effects, with no run identities or entries |
| `TurnJournal` | every storage transaction of a thread's turns, callers free |
| `ThreadGoals` | the thread's goal beside its turns: edits, reviews, suppression, the guard of a completion, over the journal |
| `ThreadTitles` | the thread's title: fallback, background worker, host, recovery, over `ThreadGoals` |
| `EffectDispatch` | one execution with concurrent tool calls over the journal |
| `TurnRecovery` | the thread actor, continuations, stops and recovery passes around one turn, over the journal |
| `ThreadQueue` | admission of requests on one thread: sends, queue, promotions, stops, over the journal |
| `HostWork` | asynchronous work of the host and the turns it wakes an idle thread for, over `ThreadQueue` |
| `ProviderRetry` | one logical model request: retries, recovery window, the clock of each attempt |
| `EngineLoop` | the loop of a run against any sequence of answers, instructions and a stop |
| `UpdateFeed` | publication of a thread's versions, subscriptions, windows, and a reader |
| `ParentEvents` | what a subagent's thread tells its parent, and what the parent's requests carry |
| `ThreadWait` | the parent's `WaitThreads` over `ParentEvents` and the views of the children's actors |
| `HostLifecycle` | creation of threads, deletion of a subtree, shutdown, and the turns and stops they meet |
| `TurnJournalProofs` | theorems about `TurnJournal` and its refinement of `TurnContract`, with their proofs |
| `ThreadGoalsProofs` | theorems about `ThreadGoals` and `ThreadTitles` |
| `EffectDispatchProofs` | theorems about `EffectDispatch` |
| `TurnRecoveryProofs` | theorems about `TurnRecovery` |
| `ThreadQueueProofs` | theorems about `ThreadQueue` and `HostWork` |
| `EngineProofs` | theorems about `EngineLoop` and `ProviderRetry` |
| `HostLifecycleProofs` | theorems about `HostLifecycle` |
| `ObserverProofs` | theorems about `UpdateFeed`, `ParentEvents` and `ThreadWait` |
| `MC*.tla`, `*.cfg` | instances for TLC; the file name says which question |

## 1. The system

The layers, from the outside in:

    host program
      runtime.Host        storage, threads, shutdown
      runtime.Agent       one actor per thread: Send, Stop, Respond, Steer, queue, recovery
      agentharness        durable life of a turn: admission, execution, effects, terminal
      engine              the loop: provider request, tool batch, compaction, end
      provider.Gateway    requests, retries, attempts
    internal/sessiontree  the journal: transactions over storage.Store (memory, SQLite)

### Components

| Component | State it keeps | Operations | What makes it correct |
|---|---|---|---|
| **Turn journal** (`internal/sessiontree`) | entries of a thread; records derived from them: latest marker of a turn, active-turn index, cancel request, effect attempts, interactions, steering, compaction lifecycle, provider state | `AcceptTurn`, `AppendEntries`, `CommitProviderContext`, `PrepareEffect`, `BeginEffectDispatch`, `FinishEffectDispatch`, `FinishTurn`, `CancelTurn`, `FailUnknownEffectTurn`, `RequestSteering`, `ApplySteering`, `InstallCompaction` | one active turn; a finished turn is settled and frozen; an effect whose outcome is unknown is reported as such and nothing else is |
| **Effect dispatch** (`agentharness/effect_*.go`, `approval_dispatch.go`) | an attempt's journal state, a goroutine and an approval waiter per call | authorize, ask, dispatch, invoke, finalize, reject | no handler without consent, at most one invocation, none behind the end of the turn; the turn is always left to someone |
| **Thread actor** (`runtime/thread_actor.go`, `thread_runtime.go`, `thread_steering.go`, `thread_graceful_cancellation.go`) | activity, current run, cancellation seen, sealed, instructions, waiters, execution context; all in memory | begin run, Respond, Steer, stop (graceful or immediate), continuation, hydration, recovery pass, redispatch | one execution of a turn; memory agrees with the journal; nothing accepted is forgotten |
| **Harness** (`agentharness/harness.go`, `turn_failure.go`) | the execution of an accepted turn | `ExecuteAccepted`, `runAccepted`, `finalizeFailedTurn` | every execution ends in a terminal, a pause or a stop's hand-over |
| **Queue and admission** (`thread_runtime.go`, `thread_queue_*.go`, `thread_host_work.go`) | queued inputs, their order and text, request keys, host works | Send, edit, reorder, promote, send now, host work notices | a request is admitted once, with the text last shown; completed host work is noticed |
| **Engine loop** (`internal/engine`) | iteration, repetition counts, context pressure, output continuation | provider request, tool batch, compaction, retry on overflow | terminates; tool calls and results pair up |
| **Provider retry, attempt clock** (`internal/providerretry`, `providerattempt`) | counters, windows, timers | run, observe, expire | bounded retries; a late event never renews an expired attempt |
| **Update subscriptions** (`runtime/thread_updates.go`, `thread_window_*.go`) | bounded queue per subscriber, base and view versions, coalescing timer, window and detail being read | publish, coalesce, deliver, invalidate, set and clear a window, `Next` | every version is reached in order or the reader is told; a cleared window stays cleared |
| **Compaction** (`engine/compaction`, journal) | lifecycle records, installed summary | start, install, end | a lifecycle is closed with its turn |
| **Subagents, parent events** (`sessiontree/*parent_event*.go`, `runtime/thread_wait.go`) | receipts, coverage records and admissions in the journals; the summary each actor shows; a waiting call | publish with a source, recover, report, admit, wait | a source reaches the parent once and in order; a wait never sleeps over something to say |
| **Goals** (`sessiontree/*goal*.go`, `agentharness/goal*.go`, `runtime/thread_goal*.go`) | text, status and version of the goal, the user message a deletion suppresses it for, reviews with the work they saw | set, submit, delete, review, continue | a completion marks the goal only with a review of its present text and work; a deleted goal stays deleted until the user says otherwise |
| **Titles** (`sessiontree/title_authority.go`, `agentharness/automatic_title.go`) | status, source, generation, token and request key in the thread's metadata; worker goroutines; `titleRecoveryDone` | install fallback, begin, complete, fail, set, recover | a late result never overwrites a later title; a pending title has somebody to decide it |
| **Host lifecycle** (`host_v2.go`, `sessionlifecycle`) | open threads, running operations, locks | open, fork, delete, shutdown | shutdown ends; deletion is all or nothing |
| **Storage** (`storage`, `storagebridge`) | key-value pages, SQLite files | `View`, `Update` | serializable, atomic (assumed below) |

Formats and migrations of the session tree, the read side (items, windows,
queries), providers and transports, tools and their rendering, observation,
token estimation, configuration and the test kit complete the list in
`PROJECT.json`; none of them decides what happens to a turn.

### How they interact

* *Calls.* A host call reaches the actor, which takes its lock, decides from
  memory and usually commits one journal transaction under the lock. The
  execution goroutine works without that lock; it meets the actor at
  the boundaries of the steering control (`Begin`, `Boundary`, `Finish`), in the
  interaction waiters and in `finishSend`.
* *Shared state.* The journal is the only state that survives the process. Every
  transaction checks the run that writes it against the journal's own authority
  (latest marker, active-turn index), because its caller may be stale.
* *Callbacks.* Tool handlers and provider requests run under the execution's
  context; stops cancel it, a graceful stop after a settlement window.
* *Recovery.* The first read of a thread after a start rebuilds the actor from
  the journal and starts a recovery pass, which ends, continues, executes again
  or leaves the turn.

### What is hard

Stale decisions (a goroutine decides, waits, and acts on what is no longer so);
effects that cross the dispatch boundary and never report; stops that race the
end, an approval or a handler's return; instructions that interrupt a call
waiting for a user; a process lost between any two transactions; recovery passes
that start beside continuations; timers that race the event they wait for; a
reader whose detail is read while its window changes; a waiter that reads
receipts and views at different moments. `PROJECT.json` lists these hazards with the
lines where they bite and the properties that cover each of them.

## 2. Modules and how they correspond to the code

### TurnJournal

One action is one storage transaction (`canonicalJournalUpdate`): it commits
all its entries or none, so a process can be lost only between actions. The
variables are the records the transactions read, not the entries: `marker`,
`identity` and `runs` are the turn marker index and the authority record,
`attempt` the effect authority, `cursor` the provider state's creator. An action
has the same name as the repository function; `WriteMarker`, `SettleSteers`,
`SettleAsks`, `CloseCalls`, `WithdrawPrepared` and `SettleCompaction` are the
shared parts of the functions that end a turn.

*Callers are free.* Any run may call any transaction at any time, and only the
journal's own guards refuse it. So everything shown here holds whatever the
runtime above does, and the three modules above it use these actions unchanged. A
refused call, and one that is answered by replaying an earlier commit, is a
stuttering step. Two guards are the callers' and not the storage's, because the
code can make the call in no other state: `PrepareEffect` is called for a call
that is on record and unanswered, and `ContinueRun` without an open question.

### TurnContract

The contract forgets runs, markers, calls and interactions. What is left is what
a host may rely on: one turn open at a time, an effect starts at most once and never
after a stop request, and closing a turn decides all of its effects in the same
step. `TurnJournal!Contract` is the refinement mapping.

### ThreadGoals and ThreadTitles

`ThreadGoals` writes the goal beside the journal's own steps: the actions of `TurnJournal` are used
unchanged, and each is grouped by what the goal sees of it. `goal`, `version` and `suppressed` are
`session.GoalState`; `input`, `unknownSinceInput`, `review` and `issued` are what
`readCanonicalGoalContext` gathers from the path (the last user message, whether an effect became
unknown after it, the latest review, the calls of a run). The code compares the entry that a review
names as its work boundary with the latest one; here `review.bound` says whether an entry of those kinds has been
written since. `review.work` is history: what the work was then, independent of the boundary, so
that `GoalEarned` can say what the boundary is for. `declined` is history too.

The agent has goals enabled. Without that only the turns of a goal's continuation carry the guard. Calls
are those of work tools; the goal tool's own call and result are not a boundary and are left out, and so are
the goal facts told to the model, the prompts of the stop hook, the delegated mission that
starts a child with no goal, and a fork's copy.

`ThreadTitles` adds the metadata record `title`, the worker goroutines, and the recovery of a process
in its two steps, list and fail (`found`), between which the host may name the thread. `lost` is history:
outcomes that storage refused twice. Claims are generation and token, and the token is the turn's,
as the code derives it.

### EffectDispatch

`dispatchAuthorizedEffect` starts a goroutine per call and waits for it beside
the contexts of the engine and of the turn. `main[c]` is the waiting side,
`gate[c]` the goroutine (approval, durable boundary, handler, finalization), `exec`
the execution goroutine around them, `owner` the stop, `recover` the pass
of the reopened thread. `ctx`, `late` and `overdue` are the three clocks the waits
select on: the execution context, the engine's wall time and the settlement
window. Each action is one `select` branch or one transaction together with what the
code does before it next waits. `ran` and `approved` are history.

### TurnRecovery

One turn and every execution of it. `holder`, `active`, `stopSeen`, `owned`,
`sealed` and `instructions` are the actor's fields; `worker[r]` is the execution
goroutine of run `r`; `tasks` are the goroutines of `continueCanonicalInput`;
`due` and `starting` are recovery passes before and after their decision, and
`crowded` remembers (it is history) that there were two of them at once. A
crash empties all of them and `Restart` rebuilds them as hydration does.

What the module simplifies: a run makes one tool call at a time and its user
says yes (concurrent calls, refusals and lost outcomes are in EffectDispatch);
a recovery pass reads and decides in one step (the journal reads of
one pass are not interleaved with others), while the redispatch it decides on is a step of
its own; `ResolveForClaim` and `Claim` are two actions although the code holds the
actor lock over both, which adds behaviours; the deadline of a graceful
stop may come at any time.

### ThreadQueue

Several turns of one thread and the requests that start them. `active`,
`current` and `stopSeen` are the actor's view, `queue` and `text` the queued
inputs, `prompt[t]` what turn `t` was admitted with. Every handler of the queue
appends its fact and updates the view in one hold of the actor lock, so one
variable stands for both. What the code reads in one hold and uses in a
later one is state: `sends` (`Send` reads the activity, then queues or admits),
`autos` (`startNextQueued` captures the head, a goroutine admits it), `failing` (its
error handler), `handovers` (`SendQueuedNow` checks, stops, waits, promotes),
`stops` (window of a graceful stop, and the time between a stop's terminal and
`finishSend`). `worker[t]` and `before[t]` are the execution goroutine and the
execution it waits for. `ApplySteering`, `FinishTurn`, `RequestCancel` and
`CancelTurn` are the journal's own.

What it simplifies: a turn has one run, no tools and no questions; a client that
edits or steers names the current text (a stale one is refused); a request key is
never reused for another input; a recovered turn runs again or has its stop
settled (`TurnRecovery` has the rest); the failure of a turn that completed without
a visible response, and the outcome that the view shows, are left out. Direct
instructions, compaction and goal turns, retries and `ImportPendingInputs` are not in it.

### HostWork

`ThreadQueue` with the works that handlers of its turns have bound. `works`, `fact`, `origin` and
`admitted` are what `hostWorksFromPath` makes of the journal, `suppressed` the turns
with a cancel request written by `StopHostWork`, `continues[t]` the work whose
key admitted turn `t`, `owned` the works of the present `executorID`. A wake is a goroutine
`continueHostWork`, asked by a completion, by the end of a turn or by a recovery
pass; the code reads the key first (`ReadWake`) and admits later, under the actor lock
and in the transaction that reads the key again (`Continue`, or `DropWake`). `prepared` tells
which execution has asked the provider at least once, which is where notices are
admitted. The steps of `ThreadQueue` that works hang on are extended (`SealPrepared`, `EndShown`,
`StopShown`, `PromotionFails`, `GoesOn`, `LoseProcess`, `RestartThread`), and the others leave
the works alone. `natural` is history.

Not in it: outputs, results and activity of works, works inherited by a fork, deletion, a
continuation refused for an unresolved interaction (a turn asks nothing here), a stop of a
thread that finding 3 shows idle, and wakes asked before there is any work.

### ProviderRetry

`providerretry.Run` and what it calls. `pc` is the stage of the loop; `attempt`
is `providerattempt.Attempt` with its timer, which is an action of its own (`Expire`), as
are the end of the recovery window and that of the execution's context. `taken` is
an event that was read from the stream and not observed yet, `raw` what
consuming the stream returned before it is attributed to the timer, the window or the
stop. Time is a number; a timer or a step may be late by `MaxLag`. The back-off is
the code's (doubling, cap, jitter as a set of delays), the server's wait is
any of `ServerWaits`.

It leaves out what an event says, the tokens it costs, and the host's way to a
policy. Transient, rate-limited and interrupted failures are one category,
because the loop treats them alike.

### EngineLoop

`run` of `engine.go` with one action per stage that can meet a cancelled
fragment: `Begin`, `Surface`, `Admit`, `Prepare`, `Send`, then one action for each
way an answer is used, `Hook`, `Finish` and `End`. `root` and `fragment` are the contexts of the
execution and of the step, `count` the loop's counters, `guard` the
`toolRepeatGuard`, `open` the saved calls without a result, `broken` a write that
was refused because its context was cancelled. An answer is any member of
`Replies`, so a property over all behaviours is one over all models. `kind` and `streak` are history.

Tools are one step per batch (their goroutines are `EffectDispatch`), storage refuses a
write only under a cancelled context; a surface, a request or a stop hook that is found invalid ends the
run at once (cause `contract`), whatever arrived with it, and budgets (tokens, cost, wall time) are one
way of ending that is always possible. Compaction repeats a request or ends the
turn; what it selects is data.

### UpdateFeed

`version` is the actor's `ViewVersion`. The content of an item is the version that
last changed it, so `log` tells the content of every item at every version, and an update is the
interval of versions it covers. `pending` is coalesced growth before its timer; `hub`
the subscriptions with their queue, the update `Next` has taken (`inflight`), the
read of a new window (`reading`) and the accepted window; `readers` what a reader that follows the
documented protocol has made of what it got. `Take`/`ReturnUpdate` and
`BeginSetWindow`/`SetWindow` are apart because the code reads detail
outside the locks between them.

One subscription and the one that replaces it are enough: subscriptions do not
see each other, except that publication is skipped when nobody observes, which is a choice
(`others`). Byte budgets, encoding failures and failed reads of text are a choice
of the subscriptions an update is lost for. Retirement of queued detail only
saves memory in the code, because `Next` checks the interest again; the model has both.

### ParentEvents and ThreadWait

A child's journal is reduced to what makes a receipt: its live turn and run, open questions,
results held for input, the call being dispatched. `Commits` is one transaction: entries,
receipts and coverage together. `covered` is the equality of the coverage record's count and
the journal's, the only thing that is read of it. `Scan`, `RecoverReceipts` and
`RecordCoverage` are the pass of a started process; a pass that finds its source or the parent
changed starts again (`Disturbs`). `enabled` is the process's option, chosen anew by
every `Restart`, so journals written without parent events are reached. `parent`
keeps what the retry of a turn needs to know of the admissions in its context.

`ThreadWait` adds the summaries the children's actors show, each later than the
transaction it reports, the observer that refreshes the parent, and the call:
subscribe, list, read a page, list again, return or sleep. The flag
`wait.woken` is the channel of capacity one. An input queued at a child counts as work
(`thread_wait.go:183`), so a summary holds the number of them: `QueueInput` and `UnqueueInput`
commit the fact and change what is shown in one hold of the actor's lock, and `Begins` takes one where
it is a promotion. An input may be left in the queue of an idle child (below); the wait then has nothing to
say and sleeps until the input is promoted or deleted, or its timer fires, and `Due` says so.
`ImportPendingInputs` is the one writer that shows its inputs in a later hold of the lock; `QueueInput` takes
both at once.

Not in it: that second hold, edits and order of queued inputs (`ThreadQueue` has them), forks, archived and deleted children, the report's text and page budgets,
retries of a turn other than the latest and the retry of a call with an uncertain result.

### HostLifecycle

`stored` and `journal` are what storage holds of threads and turns; `busy`, `current` and
`fence` the fields of an actor that decide what it accepts (`Activity`, the turn, and
`deleting`, `deleted`, `closed`); `worker[t][n]` the execution goroutine of turn `n`, from
`startAcceptedResult` over `prepareExecution`, `executePreparedSend` and
`executeAcceptedSend` to `finishSend` or one of its fallbacks. `lock` is
`Host.mutationMu`, which creation, deletion and shutdown take. `waits[op]` are the
channels a deletion or the shutdown has read from the actors and waits for: the `executionDone` of
a turn, `<<t, n>>`, and the `effectsDone` of an actor, `<<t, 0>>`. A channel leaves the
set when it is closed, and one that is opened later is not in it, as in the code.

The points at which the code asks the host or the fence and later acts are apart:
`Ask` (`requireExecution`) and `Begin`, `Prepare` and `Execute`, a stop's transaction
(`StopNow`) and its effect on the actor (`FinishStop`), `Visit` and `SettleTurn` of the
shutdown, `Fence` and `CommitDelete` of a deletion. `CallCreate` and `Create` are apart
because a tool handler waits for the lock in between.

Simplified: a turn has one run, does not pause, and runs one handler; every stop is
immediate. Forks, the preparation of history for several readers, maintenance and
activation of a host are not in it.

## 3. What the runs check

| Run | Question | Bounds | Distinct states |
|---|---|---|---|
| `journal` | Can any order of calls, by current and stale runs, break a turn's end? Does the journal implement `TurnContract`? Is a goal completed only by reviewed work, and does a late title lose? | 2 turns, 2 runs, 1 call, 1 interaction, 1 instruction; the last two in the first turn only; 3 goal changes, 2 title keys, 4 title changes; combinations as in `Bounded` | 211,362 |
| `dispatch` | Does every effect keep consent, count and report, and the turn an owner, through stops, a wall time and a process loss? | 1 call that asks, 1 automatic, 1 crash | 162,373 |
| `dispatch_walltime` | *finding* | the same, no crash | |
| `recovery` | Do answers, instructions and stops keep one execution and lose nothing, and does a recovered turn go on to its end or to its user? | 4 runs, 2 approvals, 1 question, 2 instructions, 2 crashes, 2 passes; after a loss one approval and one instruction | 153,457 |
| `recovery_two_executions` | *finding* | 2 runs, 1 instruction, 1 crash | |
| `queue_safety` | Is every accepted request in one place and run as last shown, whatever races, and is a completed work of the host not forgotten? | 3 turns, 3 requests, 1 edit, 2 calls under way, 1 work, 1 crash; an edit, a work or a crash with less of the others | 1,175,815 |
| `queue_activity` | *finding* | 2 turns, 3 requests | |
| `retry_request` | Is a request repeated only as its policy and its failure permit, does the clock decide the right way, and does every request end? | 3 attempts of at most 3 ticks, window of 4, lag of 1, 1 call, 1 hosted call | 1,413,030 |
| `engine_loop` | Are calls answered, repetitions handled, instructions kept, and does a model that makes no progress end? | 18 answers, the code's default limits, 2 instructions pending | 678,559 |
| `update_feed` | Does a reader get every version in order or learn that it must start again, with the window it asked for? | 1 subscription and its successor, 2 items, 3 versions, queue of 3, 2 window calls each | 501,632 |
| `child_events` | Does each source reach the parent once and in order, and does a wait return with it? | 1 child with 2 turns or runs, 2 processes, 1 queued input, or 2 children with a turn each; 2 requests of the parent, combinations as in `OneOrTwo` | 773,715 |
| `host_lifecycle` | Do deletion and shutdown come to an end, without a handler at work behind them, and does every turn stay with somebody? | a root with 2 turns, a child with 1, 1 deletion, 1 shutdown, any number of stops | 367,367 |

Why these bounds are enough to be worth something. Two runs are the least with a stale
and a current one, and a third adds no new relation between them: the journal
compares a caller's run with one authority only. One call under two runs has
an attempt of each; effects of one turn interact only through "some attempt
is uncertain". Two turns are the least for admission and for provider state that outlives its
turn. Three goal changes are the least for a deletion by the user, one by the model and a
set. `Bounded` keeps apart what no transaction reads together: a turn alone in its thread meets everything, but not a compaction
beside both a question and an instruction; once there are two turns one of them makes calls, and
none with a compaction running. A thread with a goal meets one kind of work at a time, because one entry is enough to move the boundary, and
a thread whose title is more than the fallback has turns only, because no title transaction reads anything else. Two
generations and two turns give a claim that is late for each of its reasons. Two concurrent calls are the least for a batch in which one is waiting,
finished or lost while the other is somewhere else, and with one that asks and
one that does not, every pair of gate states occurs. In
`recovery` four runs give each continuation its own: one for the question
and one for each instruction. In `queue_safety` three requests are the least for a
turn, a promotion that was captured for a second one and a third that comes in
between, and the third turn is the one that would be admitted beside a turn
the actor forgot; two calls under way at once race each other and the promotion.
The requests are symmetric: no definition tells them apart. One work is enough for a
wake that meets the end of a turn, a request, a stop or another wake of the same key;
`OneOrOther` gives a thread with work two requests, two wakes and one call at a time, a thread with an edited input
two requests and one call, and one call at a time to a thread whose turns have all begun or whose process was lost. `CoreAfterLoss` keeps
`recovery` small: a turn whose process was lost has met one approval and one instruction
besides the question; the second ones are there for the unbroken process, where they race each other. A second
call and the question exclude each other, a second loss meets an approval or an instruction, and
two recovery passes at once meet one loss and no instruction. In `retry_request` the
policy's numbers are small, but in the order that lets each limit be the one that strikes first:
the total limit of an attempt, the idle limits, the count of timeouts, the count of
attempts, the window, the server's wait and a deadline of the execution. In `engine_loop`
the answers hold one of each kind the loop tells apart, alone and in the combinations
whose treatment differs; a count needs its limit and one more. A queue of three is the
least that holds a baseline, growth and a mutation; two items are the least with one
inside and one outside a window. `child_events` explores pairs (two turns, two runs, two
processes, two children, a retry) and not all of them at once: `OneOrTwo` names
the combinations; a second process meets one request of the parent and no retry. In `host_lifecycle` a second turn of the root is the least for an execution
that waits for the one before it, and a child for a deletion that reaches a thread
created by the handler it waits for; `Focus` leaves out the behaviours in which the child
executes after the root's second turn began. The safety of the full instance with two deletions, which
contend for the lock and for the fence, was explored once outside the runs: 17,464,045 states and no
error. Crashes are counted, because two are the
least for a loss during recovery. Every bound is a constant of the module
(`MaxCrashes`, `MaxPasses`, `MaxEdits`, `MaxOpen`, `MaxLag`, `MaxSteers`, `MaxVersion`, `MaxWindows`,
`MaxSubscribes`, `MaxGeneration`, `MaxTurns`, `MaxIds`, `MaxRuns`, `MaxStarts`, `MaxRequests`), the size of a set, or
a constraint of the MC module (`Bounded`, `Watched`, `OneOrTwo`, `CoreAfterLoss`, `Focus`,
`OneOrOther`).

`CHECK_DEADLOCK FALSE` is in every configuration: a thread whose turns have
ended, or whose user does not answer, really stops. What must not stop is stated as
`NoStrandedTurn` (somebody is still there to finish an unfinished turn) and as
liveness.

### Fairness

* `EffectDispatch`: weak fairness of the engine's steps (a provider attempt has
  a total limit, `providerattempt/attempt.go:21-31`, and retries are counted), of
  each batch and gate goroutine, of the stop's owner and of the restart with its recovery.
  None for handlers, users or losses: a handler may never return, and
  `StopEndsTurn` holds all the same.
* `TurnRecovery`: weak fairness of each run's work (here handlers do end), of the
  continuations, of a stop's settlement and of restart and recovery. None for
  users, instructions, stops or crashes.
* `ProviderRetry`: weak fairness of the loop, of a consumer whose stream was cancelled,
  of the clock and of the three timers. None for the provider, which may stay silent for ever,
  nor for a stop other than the execution's own deadline.
* `EngineLoop`: weak fairness of the loop's stages: a request ends (that is
  `RequestEnds` of `ProviderRetry`), tools and the stop hook return. None for the user.
* `UpdateFeed`: the timer fires, a reader calls `Next` again and again, and a deletion or a
  shutdown that has begun gets to every subscription.
* `ThreadWait`: actors publish what they committed, the observer of the parent runs, the waiter
  is scheduled. The call's own timer is not needed for `WaiterReturns`.
* `HostLifecycle`: weak fairness of each execution goroutine with its handler and of the settling of a stop,
  of requests that were accepted, of each deletion and of the shutdown, which
  includes that whoever waits for the lock gets it (a Go mutex does not starve a
  waiter). None for users or for a deletion's refusal.

Liveness counts on weak fairness alone: an enabled goroutine of the Go scheduler
runs, a timer that is set fires.

### Findings

Each is a run that TLC ends with a counterexample, and quotes the line it contradicts in `PROJECT.json`.

1. **The wall time leaves a turn behind** (`dispatch_walltime`). The engine's wall
   time expires while an approval is open; the finalization that is meant
   to outlive it is refused, because the journal does not end a turn whose
   interaction is pending, and so is the fallback. The turn stays active,
   nobody executes it, and the waiter that was left behind takes the user's later answer.
   Only a stop ends the turn.
2. **Two executions of a turn** (`recovery_two_executions`). A recovery pass that decided to
   execute a turn again does not compare the actor before it begins its run; a continuation
   for an instruction claims the turn in between and is executed beside it. There is a second way, in
   `recovery`: an approval that is answered after a loss, and before the pass of the hydration has decided,
   starts a pass of its own, and both execute the turn again
   (`thread_runtime.go:2042`, `2296`, `3846`; `crowded`).
3. **An idle thread that executes a turn** (`queue_activity`). The automatic promotion
   after a completed turn is captured under the actor lock and started later. When it comes
   too late, because the user promoted the input or sent another one first, its handler marks the
   thread idle and failed, although another turn is being executed. A stop then finds nothing to
   stop, and that turn's end is not published and starts no queue.

Where these occur, the passing runs do not look away. `dispatch` has the wall time, and
`OnlyWallTimeStrands` says that nothing else leaves a turn behind; `recovery` has the
overlap, and `OnlyRecoveryOverlaps` says that it needs a lost process and then an instruction or that second pass; `RecoveryGap` names the
three situations in which a recovered turn may stay with nobody (the overlap and the two
losses described below), and `RecoveryCompletes` shows that there is no fourth. `host_lifecycle`
keeps apart what it found in the same way: `missed` and `slipped` are the turns that a fence or
the shutdown leaves with nobody, `NoTurnAbandoned` says that there are no others, and `Entangled`
is the one way for a deletion or a shutdown not to end.

### Observed while modelling

The modules follow the code in these points and no run reports them:

* A crash with a Prepared attempt, and then an instruction, gives a continued run that holds
  the authority and can never end: `FinishTurn` withdraws the attempts of its
  own run only, and the other attempt's settlement would name the wrong run
  (`backend_turn_finish.go:103-125`; `SettlesOwnAttempts`). A stop ends the turn.
* A continued run can never install a compaction, which requires the run
  that started the turn (`backend_compaction.go:22-25`; `InstallAdmitted`).
* When one of two calls has an unknown outcome the turn ends in the journal,
  but the sibling's approval waiter in memory is not released before the
  execution's context ends (`effect_authorization.go:201`).
* After finding 2 a graceful stop cancels only the execution the actor knows,
  acts for the run that lost the journal, and may not end the turn.
* The process is lost after a continuation claimed a turn whose question was answered. The
  recovery pass continues for the run that *asked* the first question; the current run is
  another one, the claim is dropped, and the turn stays active with nobody
  attending (`thread_runtime.go:2151`; `RecoveryGap`).
* The process is lost with a prepared effect of one run, and an instruction continues the
  turn as another one: every end but a stop is refused (`RecoveryGap`; compare
  `okf/workflows/recover-interrupted-turn.md:12`).
* `Send` reads the activity in one hold of the lock and queues in another
  (`thread_runtime.go:2427-2436`). When the turn ends in between with an empty queue,
  the request waits behind no turn and nothing starts it; the same holds after a process loss
  between a completion and its promotion. Promotion by hand or the completion of a
  later turn serves it.
* A captured head that is deleted before its promotion makes the late start
  fail: a thread whose turn completed shows a failure, and the inputs behind it wait.
* An execution waits for the one before it, but one that is stopped while it
  waits reports itself done at once (`thread_runtime.go:2756-2764`), so a third
  turn may be executed beside the handler of the first. TLC finds it in `ThreadQueue`.
* A storage failure at the steering boundary, with a question open, ends in
  a refused terminal; `Fail` leaves this case out.
* `EngineLoop`: a batch with an invalid call is not counted by the repetition
  guard and restarts its count (`okf/api/tools.md` describes the guard without this case). Text with a
  finish reason of calls but no calls goes round without a limit, and so does a model that
  alternates kinds of answers. Answers with calls do not reset the count of silent ones.
* An interrupted attempt's draft stays in the pending output and may be committed as partial
  output when the turn ends before the next response (`agentharness/steering.go:5-7` calls it discarded).
* A goal's continuation that turns out to be unneeded completes without sealing the
  run, so an instruction accepted at that moment is left behind (the exception in `SuccessLeavesNothingPending`).
* An instruction that arrives while the admission of a request, a batch's calls or its feedback
  are being saved cancels the context of that write; storage refuses it and the turn ends as
  failed (`engine.go:996-1035`, `1156`, `1396`, `1418`, `1443`; `LoseWrite`), where `src/README.md:1621` says that `Steer`
  preserves the same task.
* The breaker for repeated compaction failures is not reached: a failed compaction ends the request first.
* `ProviderRetry`: when the recovery window closes while a retry is being prepared or recorded, the
  error of that step replaces the provider's failure (`retry.go:226`; compare
  `okf/decisions/provider-retry.md:54`, `:60`; `Kept` keeps both only for a window that ends an attempt).
* `UpdateFeed`: `ClearWindow` does not ask whether the subscription has windows: a full
  subscription that called it would lose queued mutations without being told. A
  subscription that ended by an overflow of `SetWindow` or a failed read of detail stays registered until it is
  closed.
* `ParentEvents`: a retry of a retry that had no save point goes back to the first source and
  keeps only what was admitted in the source's turn (`steering.go:157-205`,
  `sessiontree.go:2309`, `thread_runtime.go:4171-4212`): receipts the retried retry admitted stay admitted
  and are never shown to the model. A retry that is executed again after a process loss
  rebuilds its history from the source as well, without its own progress
  (`harness.go:672-677`, `787-798`). `ToldOnce` has both as its only exception.
* `ThreadWait`: the actor of a parent that is not hydrated is not refreshed by a receipt, so
  a host's own waiter on it wakes with the child's next view and not with the receipt.
  `WaitThreads` treats an input left in the queue of an idle child (see `Send` above) as work in progress:
  without a receipt to read it sleeps until its timer.
* `ImportPendingInputs` reads the queue from storage outside the actor's lock and installs it in a later hold
  (`thread_runtime.go:1751-1764`): what was queued in between is missing from the view, and what was promoted or
  deleted in between is shown again, until the view is read anew. No module has it.
* `TurnRecovery`: the run that a recovery pass begins clears the actor's instructions
  (`thread_runtime.go:2297`, `thread_actor.go:136`). One that was accepted while the pass built the agent is
  forgotten, and cancelled by a turn that then succeeds; therefore `ActorTracksJournal` and
  `SuccessAppliesInstructions` are about a process that was never lost.
* `HostLifecycle`: an execution that ends behind the fence of a deletion which is then refused (the
  caller's deadline, a storage error) never reaches its actor: `finishSend` ignores
  the refusal (`thread_runtime.go:2802`). The thread shows an active turn that is over in the
  journal; sends are queued, stops are refused or find nothing, and only a new process repairs it, where
  `okf/api/runtime.md:375` says that a failed deletion retains a recoverable presentation. A
  turn that was still being prepared stays active with nobody to execute it until it is stopped.
* `HostLifecycle`: a tool handler that creates a thread while a deletion or the shutdown holds the
  lock and waits for that handler (`thread_runtime.go:776`, `host_v2.go:651`): the deletion waits until its
  caller gives up, the shutdown for ever.
* `HostLifecycle`: a request that passed `requireExecution` (`thread_runtime.go:4294`) may begin its turn
  after the shutdown has noted what it joins (`thread_runtime.go:1842-1872`). The fallback
  that settles such a turn is not joined before the store is closed, and the turn stays active in the
  journal until recovery takes it up; compare `okf/api/runtime.md:378`.
* `HostLifecycle`: an execution that is stopped while it waits for the one before it is done at once,
  so a deletion may commit while that other execution, with its handler returned, still unwinds; `thread_actor.go:82`
  says that execution and effects have joined. `Delete` does not fence at all when its
  first read of the thread fails (`thread_runtime.go:951-954`).
* `HostWork`: a continuation is refused while an input is queued, and nothing asks again when that input is
  deleted: the completed work waits for a turn that somebody else starts. `WorkWakesThread` has
  this as its only exception.
* `HostWork`: a recovery pass is started for an active thread only (`thread_runtime.go:2035`), so
  its continuation of an idle thread (`thread_runtime.go:2115`) serves only a thread whose
  turn was ended in between. A wake that was lost with the process is not repeated before a turn completes.
* `HostWork`: a stop of an active turn suppresses the works of that turn only. A work of an earlier turn
  may still wake the stopped thread; `okf/architecture/host-work.md` says that an explicit
  stop suppresses autonomous continuation.
* `HostWork`: a continuation that is stopped before its first request leaves its work first in line
  with a used key, so no other work wakes the thread until a turn has admitted that one.
* `HostWork`: a result that observes a work which is still bound suppresses the notice of its
  completion (`host_work.go:132-139`).
* `ThreadGoals`: a user who deletes the goal of a thread that has no user message yet leaves
  `before-first-input` as the suppression, which no message's identity equals. During a goal's continuation
  (a thread that only `SetGoal` was called on) the model may then set it again with `new_task`
  (`backend_goal.go:164-177`), where `okf/decisions/thread-goals.md` says that only a genuinely new user task
  justifies it. `DeletionRespected` is therefore about a thread with a user message.
* `ThreadGoals`: a review is refused while a call of the *same run* is open; an open call of an earlier
  run of the turn does not hinder it (`backend_goal.go:41-55`). `SubmitGoal` reads the view under the caller's context after its
  commit: if that read fails, the accepted turn has no execution, and the repeated call does not
  start it (`thread_goal_submit.go:87-90`).
* `ThreadTitles`: the recovery of pending titles returns the error of a claim that the host overtook
  (`automatic_title.go:38-40`), where the worker treats it as ended; the turn that was being prepared fails and
  the next one repeats the recovery. A title whose completion and failure storage both refuses stays pending
  until the next process, and no other generation begins meanwhile. `SetTitle` remembers one request key: a retry of an older key is
  applied again.

## 4. What is proved

Every theorem holds for every value of the constants its module's assumption admits. No proof
uses fairness. The journal's module needs only that `NoRun` is not a run (`RunAssumption`).

### The journal

`TurnJournalProofs`, for every set of turns, runs, calls, interactions and instructions:

| Theorem | Statement |
|---|---|
| `JournalTypeOK` | `Spec => []TypeOK` |
| `JournalOneActiveTurn` | at most one turn is unfinished |
| `JournalTerminalFrozen` | no transaction changes anything of a finished turn |
| `JournalTerminalSettled` | a finished turn has nothing that could still be acted on |
| `JournalUncertaintyReported` | a turn ends as unknown exactly when an outcome is unknown, and an outcome is on record only with its result |
| `JournalStopHonoured` | a stop on record never meets a completion |
| `JournalOutcomeHasResult` | the second half of `JournalUncertaintyReported`, by itself |
| `JournalSideRecordsAgree` | the provider state comes from a turn whose outcome is known, and a compaction is closed with a turn that failed or was stopped |
| `JournalImplementsContract` | `Spec => Contract!Spec`: every transaction is one step of `TurnContract` or invisible to it |

The argument. *Types*: `TypeOK` is not inductive, because a save point and a
compaction lifecycle are written under `identity[t]`, which is `NoRun` before admission;
`TypeInv` adds `AdmittedTurnHasRun`. One lemma per group of `Next` (`RunTurnType`,
`InteractType`, `EffectType`, `FailUnknownType`, `EndTurnType`) gives `StepType`. *One active
turn* is inductive with the types: only admission makes a turn active, and it
requires that no other one is *the* active turn; with two active turns already there
the index names none and admission would be granted, so the invariant
itself is what makes the guard sufficient. *Frozen*: `TerminalRefuses` (every transaction's
guard fails on its own finished turn) and `OtherTurnsKept` (a
transaction on one turn leaves the others alone). *Safety*: `JournalSafe` is the conjunction over turns of
`TurnSafe(t)`, which couples settlement, uncertainty, stops, answers and
outcomes, because each end needs several of them: an end that is not "unknown"
needs that no attempt is uncertain and that no attempt is *already*
recorded unknown, which holds because only an end records that. `LiveStepSafe` covers the
steps that end nothing, `QuietEndSafe` and `UnknownEndSafe` the two kinds of ends. *Side
records*: `SideInv` adds `AuthorityIsARun`, since neither record names its turn and what ties it
there is that the turn's authority is one of its runs. *Refinement*: `MappedTurn` and
`MappedEffect` say what the mapped variables are in the states a transaction can meet,
`OthersMapped` that it moves no other turn, and one lemma per kind of transaction names the
contract's step (`Move`, `Close`, an opening, a stop) or shows a stutter.

### What is written over the journal

Each of these modules uses the journal's actions, and the first theorem about each says that its
specification implies `Spec`. The theorems above therefore hold of a thread with a goal, a title,
concurrent tool calls, recovery, a queue and works of the host, and the proofs below cite them.

| Theorem | Statement |
|---|---|
| `GoalsKeepTheJournal`, `TitlesKeepTheGoal` | `GoalSpec => Spec`, `TitleSpec => GoalSpec` |
| `GoalsTyped` | the goal's records are well formed |
| `GoalsAreHonoured` | a completion is earned by a review of the present text and work, and a deletion is respected |
| `TitledJournal` | the journal's and the goal's promises in a thread with a title |
| `TitlesNeverGoBack` | a late result or a repeated claim never overwrites a later title |
| `DispatchKeepsTheJournal` | `DispatchSpec => Spec` |
| `DispatchOnce`, `DispatchWithConsent`, `DispatchBehindEnd` | a handler runs at most once and what it did is never recorded as withdrawn or rejected; never without consent; never behind an end that does not say so |
| `DispatchStrandsNoTurn` | an unfinished turn is always somebody's, except after the engine's wall time |
| `RecoveryKeepsTheJournal` | `RecoverySpec => Spec` |
| `RecoveryOverlap` | two executions of a turn meet only after a process loss and then an instruction or a second pass |
| `RecoveryTracksJournal`, `RecoveryAppliesInstructions` | in a process that was never lost the actor agrees with the journal, and a completed turn has cancelled no instruction |
| `QueueKeepsTheJournal`, `WorksKeepTheJournal` | `QueueSpec => Spec`, `HostWorkSpec => Spec` |
| `QueueAccounts`, `QueuePromotesAsEdited` | an accepted request is in exactly one place and runs once, with the text last shown |
| `QueueEndsRelease` | a turn that has ended releases its thread or somebody is about to |
| `WorksKeepTheQueue` | the same three in a thread that works of the host wake |
| `WorksWakeTheThread` | a thread that came to rest by itself does not keep a completed work waiting |

*Goals* (`GoalAssumption`: the names for "no turn" and "before the first input" are not turns).
`GoalInv` is the types, `SideInv`, `DeletionInv` and `ReviewInv`. `GoalEarned` is not inductive: what
makes a completion right is that the review was about the work *as it still is*. `Covered` says so
of every bound review, and `WorkKept` divides the transactions into those that add to the work and
move the boundary and those that do neither. For titles, `TitleInv` orders the claims by
generation, and a worker's claim that is not the record's is an older one.

*Effect dispatch* (`DispatchAssumption`: one turn; any number of calls, of those that
need no consent, and of process losses). `DispatchInv` couples, per call, the goroutine, the count of
invocations and the attempt's state: at work means behind the boundary, and behind it there is no
way back to `Prepared`. `StrandInv` is for `OnlyWallTimeStrands`: `Down` and `Batched` tie the goroutines
of one process to each other, and the conjuncts of `Course` tie them to the journal: who asked and who
waits (`Waits`), what a stop has committed to (`Stops`), what a recovery pass may find
(`Recovers`), which effect in flight somebody still settles (`Converges`), and why a turn
without an execution will be taken up again (`Awake`). The last two need each other: the pass that
takes up a turn must find no effect whose goroutine is still out.

*Recovery* (`RecoveryAssumption`: one turn; any number of runs, approvals, questions, instructions,
losses and passes). `RecoveryInv` has a part that always holds, one for a turn that is `Unmixed`
(`Single`: the only worker is the actor's, who continues it waits for it, and there is one
pass *or* one execution started by it) and one for a process that was never lost (`Unbroken`:
the actor's memory is the journal's state). `Unmixed` is never regained once lost, so each
part is an invariant of its own condition. `Single` is what excludes the overlap, and it needs
`ApprovalsHeard`: an approval with neither a waiter nor a loss would let a continuation start
beside its execution.

*Queue and works* (`QueueAssumption`, `WorkAssumption`: requests are the instructions a turn may
get, and names do not collide). `ReleaseInv`: only `current` can be unfinished, and a thread
that is active with an ended turn has a worker or a stop that is about to release it.
`PlacedInv`: the queue is a sequence without repetition and every request is in one of queue,
removed, turns and instructions (`OnePlace`), which makes each admission of a captured head a fresh
one. A thread with works makes steps of its queue, and one more, `Woken`: the admission of a turn that no
request asked for; both invariants survive it. `WakeInv` says which wake is still of use while the thread rests and
a work waits (`Useful`): one that has still to look, or one whose work is still the first. `WorkWakesThread` is not
inductive by itself, because a wake whose key was used is dropped. That this loses nothing needs
`SpentAdmitted`: by the time a turn has completed, each work whose key started one was shown to
the model, and that in turn needs that a completed turn had prepared a request (`ExecutionsInv`).

### The loop, the retries, the host

| Theorem | Statement |
|---|---|
| `EngineAnswersCalls` | no request goes out over an unanswered call and no turn ends over one, except one that waits for its user |
| `EngineKeepsInstructions` | no instruction is left behind by a turn that succeeds |
| `RetryTyped` | the request's state is well formed |
| `RetriesArePermitted` | a request goes out again only with the policy's, the counts' and the server's consent |
| `LastEventDecides` | a response has its last event, and an attempt that got it in time did not time out |
| `LifecycleTyped` | the host's state is well formed, and a busy actor has a turn |
| `NoTurnIsAbandoned` | a live thread's turn has an execution or a stop that will end it, but for `missed` and `slipped` |
| `HandlersEndFirst` | no handler works for a deleted thread or behind a closed store |

*Engine loop.* The proofs use nothing of the limits (`LimitAssumption`): any limits and any set of
answers will do. `EngineInv` says that what interrupts a step
is an instruction that still waits or a stop, that calls are open only where their answers are being
saved, executed or fed back, and what the loop has decided at each of its ends. The
lemmas `GivesUp`, `GoesOn`, `Yields` and `Decides` give the shapes a step can have.

*Retries* (`PolicyAssumption`: what the configuration's validation and the clocks guarantee).
`LoopInv` relates the history of failures to the loop's counts (`Counted`) and gives every attempt but
the first a reason (`Founded`): a failure that can be mended, and a time not before the
server's. `ClockInv` says that an attempt never both has its last event and is timed out, wherever the
timers stand.

*Host lifecycle* (`LifecycleAssumption`: any forest of threads, any number of turns of each and of
deletions; names do not collide). `HostInv` first: the holder of the lock is the deletion that
drains or the shutdown that settles, a fence that is up belongs to it, and fences are closed
exactly when the host is. `TurnInv` then has for every turn its record, its worker and its actor:
a turn on record as active is the one its actor has (`Recorded`); while it is, or while the actor does not know of its end,
somebody goes on with it (`Attended`); and behind the shutdown's visit only turns that slipped in are
active (`Shut`), which is why a fallback that finds its fence closed may leave its turn.
Most steps leave a turn as it is (`Beside`), so that each proof is about the one turn that is worked on.
`DrainInv` is for `QuietEnd`: in a tree that is being deleted, and in a thread the shutdown has visited, whoever has
a handler at work keeps a channel in the set that is waited for (`Swept`, `Visited`). A
visited thread is not fenced, and a turn that was ready before the visit may still call a handler; it is waited
for by its own channel, and no turn gets ready after it, because the preparation asks the host.
That a tree is the same at the fence and at the deletion follows from the lock: every creation
needs it free.

### The observers

`ObserverProofs`, for every set of items, windows, subscriptions and children:

| Theorem | Statement |
|---|---|
| `FeedIsUnbroken` | every update a reader accepts continues the version it is at, and the last one on its way leads to what was published |
| `ReaderDetailApplies` | what a reader holds is the content of its version, and growth extends the text it continues |
| `ClearedWindowStaysCleared` | a window that was cleared never comes back |
| `WaitKeepsReceipts` | `WaitSpec => Spec` of `ParentEvents` |
| `ReceiptsAreFaithful` | every open question has its receipt where nobody looks again, no source has two, nothing follows a terminal |
| `RequestsCarryReceiptsOnce` | the parent's requests carry what was admitted, once and in order, with the exception `ToldOnce` names |
| `WaitSaysWhatIs` | "completed" hides no receipt, and "events" shows no ended execution as running |

*Readers* (`FeedAssumption`: a queue of at least one update, windows that select something; the
bounds of the instances are any numbers). `UnbrokenFeed` is about what a reader *will* accept, so
the invariant is about a subscription's path, the update in flight and the queue behind it.
`FeedInv` keeps every open subscription to its path (`Follows`): the versions on it are a chain from
where the reader is to the version the queues have been told of (`Chained`), where an explicit baseline may
begin a new chain; the detail on it, applied in order to what the reader holds, is accurate at
its end (`Detailed`); and a window's detail is of a call that was not cleared since (`Dated`). Publication extends a
path at its end, `ReturnUpdate` takes away its beginning, stripping and clearing change detail
but no version, and an overflow drops a path with its subscription. `Strict` limits the end of
the chain to a host and an actor that publish. `PendingInv` is the same for growth that waits for its timer, which no
queue has been told of (`Told`).

*Receipts*. The proofs use nothing of the bounds. `SourcesReported` and `NothingAfterEnd` need to know what
a receipt is of: `ReceiptsFit` says that its turn is the child's or an earlier one, and that a
terminal of the child's turn means that this turn is over, by the run it names; `ChildrenSound`
that a turn which is over has nothing open. `NothingMissed` holds whatever the option is: a coverage record that is
current, and a pass that is done, leave nothing missing, because a transaction without the option
takes the record back. `OrderedJoin` says what the order of one transaction's receipts gives, and
`CommitsKeep` is the step of a transaction, for any entries and receipts. *Admission*: `ToldInv` has the
admitted ranges as consecutive, what is told as rising ranges, and where in it a retry may go back to
(`Places`). *The wait*: `ViewSound` ties a view to its child's turn and run, an end being
shown no earlier than it is; `NotOlder` orders what the call has read and what is shown now, and
is kept because only a new turn makes a child active again; `PageRead` says that a summary
read behind a terminal receipt is of that run or of a later turn, which is why the page is read before the
summaries.

### What is only model-checked

* Liveness, all of it: it is under fairness, which is beyond the prover.
* `RepetitionHandled`: the repetition guard counts over the calls of an answer with a fold, and
  what a fold computes for every sequence needs induction over data.
* What the three finding runs show: they exhibit behaviours, one instance of which is enough.

## 5. Assumptions and limits

* Storage is what its interface promises: `Update` is serializable and commits
  entirely or not at all. A commit with an unknown answer is not modelled;
  transactions are keyed, and a repeated one is a replay.
* New identities are unused ones.
* `TurnJournal` leaves out the cancel requests that `StopHostWork` appends to turns
  that have already finished (`thread_runtime.go:3443-3452`; `suppressed` in `HostWork`), so
  `cancelled` is the turn's own request. It leaves out the queue facts an admission consumes.
* Text, bodies, usage and activity are not modelled: no decision modelled
  here reads them.
* `EngineLoop` has token, cost and time budgets as one end that is always possible, and storage
  that fails only by refusing a write of a cancelled context; two calls of one answer have different
  identities.
* `HostLifecycle` and `TurnRecovery` look at one lifetime of a host and at one turn:
  what the next process does with a turn that a shutdown left is `TurnRecovery`'s crash.

### Not modelled

Forks, activation,
restore and maintenance of threads. Storage backends and the storage interface, which are
assumed to be what they promise; formats, migrations and indexes, which rewrite data
sequentially. The read side (items, windows, queries, bodies), prompt cache records,
observation, estimation and usage: projections of the journal and arithmetic over text that no
decision about a turn reads. Providers and transports, tools, MCP and skills: the environment of
the loop, which the models give any answer. Configuration, small helpers, the test kit and
commands.

## 6. Plan

Done, each with its runs: `TurnJournal` and `TurnContract`, `ThreadGoals`, `ThreadTitles`, `EffectDispatch`, `TurnRecovery`,
`ThreadQueue`, `HostWork`, `ProviderRetry`, `EngineLoop`, `UpdateFeed`, `ParentEvents`, `ThreadWait`,
`HostLifecycle`; the proofs of section 4.

Next, in this order:

1. Retries of turns and the other kinds of turns in `ThreadQueue`, forks of a thread with its
   works.
2. What the new modules promise, proved as the others are. Every invariant and action property
   of the present runs is proved but `RepetitionHandled`, and liveness stays with TLC.

## 7. Running it

    tlc -config Journal.cfg MCTurnJournal
    tlapm TurnJournalProofs.tla

Each run of `PROJECT.json` names its module and its configuration; `*Proofs.tla` are the modules for `tlapm`. A
proof module that extends another one uses its theorems and does not prove them again.
