---------------------------- MODULE TurnRecovery ----------------------------
(***************************************************************************)
(* The runtime thread around one turn: the actor that decides which run    *)
(* executes, the executions it starts, the continuations that answers and  *)
(* instructions ask for, stops, and the recovery passes of a reopened      *)
(* thread (runtime/thread_actor.go, thread_steering.go, thread_runtime.go).*)
(*                                                                         *)
(*   actor       state under the actor lock; lost with the process         *)
(*   worker[r]   the execution goroutine of run r                          *)
(*   tasks       goroutines of continueCanonicalInput                      *)
(*   due         passes of recoverHydratedThread that have not decided     *)
(*   starting    passes that decided to execute their run again            *)
(*   owner       the stop in progress                                      *)
(*                                                                         *)
(* A run makes one tool call at a time and its user says yes: parallel     *)
(* calls, refusals and lost outcomes are the subject of EffectDispatch.    *)
(* Save points of the executing run change nothing that is read here.      *)
(***************************************************************************)
EXTENDS TurnJournal, Sequences, FiniteSets

CONSTANTS Turn,
          Approvals,   \* the tool calls, all of which ask for approval
          MaxCrashes,  \* bound on process losses
          MaxPasses    \* bound on recovery passes at work at once

Inputs == Asks \ Approvals

ASSUME RecoveryAssumption ==
  /\ Turns = {Turn} /\ Calls = Approvals /\ Approvals \subseteq Asks
  /\ MaxCrashes \in Nat /\ MaxPasses \in Nat

VARIABLES
  up, crashes,
  active, holder,   \* Activity and the run the actor believes current
  stopSeen,         \* view.Cancellation
  owned,            \* actor.cancel is set
  sealed,           \* executionSealed
  instructions,     \* actor.steering
  local,            \* approvals with a waiter in pendingInteractions
  worker, tool,     \* stage of a run and the call it is at
  dead,             \* runs whose execution context is cancelled
  questions,        \* the input interactions, in order, with their run
  tasks, due, starting, owner,
  overlap,          \* history: a run began while another worked, or on a lost turn
  crowded           \* history: a recovery pass was started beside another one

process == <<up, crashes>>
decision == <<active, holder, stopSeen, owned, sealed, instructions>>
execution == <<worker, tool, dead>>
passes == <<tasks, due, starting>>
history == <<overlap, crowded>>
recoveryVars == <<vars, process, decision, local, execution, questions, passes,
                  owner, history>>

Stages == {"none", "reading", "boundary", "model", "called", "prepared", "asked",
           "cleared", "running", "pausing", "concluding", "paused", "concluded",
           "failing", "suspended", "ended"}

\* What asked for the continuation (NoRun: a recovery pass), the run that
\* waits, and the execution to be drained first.
Tasks == [cause : Asks \cup Steers \cup {NoRun}, run : Runs \cup {NoRun},
          after : Runs \cup {NoRun}, steering : BOOLEAN]

RecoveryTypeOK ==
  /\ TypeOK
  /\ up \in BOOLEAN /\ crashes \in 0..MaxCrashes
  /\ active \in BOOLEAN /\ stopSeen \in BOOLEAN /\ owned \in BOOLEAN
  /\ sealed \in BOOLEAN /\ holder \in Runs \cup {NoRun}
  /\ instructions \subseteq Steers /\ local \subseteq Approvals
  /\ worker \in [Runs -> Stages] /\ tool \in [Runs -> Calls \cup {NoRun}]
  /\ dead \subseteq Runs
  /\ questions \in Seq(Inputs \X Runs)
  /\ tasks \subseteq Tasks
  /\ due \in 0..MaxPasses /\ starting \in [Runs -> 0..MaxPasses]
  /\ owner \in {"none", "window", "sealing"}
  /\ overlap \in BOOLEAN /\ crowded \in BOOLEAN

NoWork == [r \in Runs |-> "none"]
NoTool == [r \in Runs |-> NoRun]
NoStart == [r \in Runs |-> 0]

RecoveryInit ==
  /\ Init
  /\ up = TRUE /\ crashes = 0 /\ questions = << >> /\ overlap = FALSE /\ crowded = FALSE
  /\ active = FALSE /\ holder = NoRun /\ stopSeen = FALSE /\ owned = FALSE
  /\ sealed = FALSE /\ instructions = {} /\ local = {}
  /\ worker = NoWork /\ tool = NoTool /\ dead = {}
  /\ tasks = {} /\ due = 0 /\ starting = NoStart /\ owner = "none"
-----------------------------------------------------------------------------
(* Conditions and updates shared by the handlers.                          *)

\* NewRunID: which unused identity it mints is immaterial.
NewRun == CHOOSE r \in Runs : FreshRun(r)
CanMint == \E r \in Runs : FreshRun(r)

Pending(asks) == {a \in asks : ask[<<Turn, a>>] = "pending"}
OpenCalls == {c \in Calls : call[<<Turn, c>>] = "open"}
Working == {r \in Runs : worker[r] # "none"}

\* executionDone: the execution that a continuation waits for.
Undrained == IF holder \in Working THEN holder ELSE NoRun

Task(cause, r, steering) ==
  [cause |-> cause, run |-> r, after |-> Undrained, steering |-> steering]

Stage(r, stage) == worker' = [worker EXCEPT ![r] = stage]
Step(r, from, to) == worker[r] = from /\ Stage(r, to) /\ UNCHANGED <<tool, dead>>

\* The execution is still the actor's run and no stop was accepted.
Valid(r) == holder = r /\ active /\ ~stopSeen

\* beginRun installs r whatever the actor did before.
BeginRun(r, stage) ==
  /\ holder' = r /\ active' = TRUE /\ owned' = TRUE /\ sealed' = FALSE
  /\ Stage(r, stage) /\ dead' = dead \ {r} /\ UNCHANGED tool
  /\ overlap' = (overlap \/ Working # {} \/ identity'[Turn] # r)
  /\ UNCHANGED crowded

\* The actor goes idle.
Settle ==
  /\ active' = FALSE /\ owned' = FALSE /\ sealed' = FALSE /\ instructions' = {}
  /\ UNCHANGED <<holder, stopSeen>>

\* finishSend: a run that is no longer the actor's changes nothing.
FinishSend(r) ==
  IF holder = r /\ active THEN Settle ELSE UNCHANGED decision

quietly == <<process, local, questions, passes, owner, history>>
-----------------------------------------------------------------------------
(* An execution.                                                           *)

Admit ==
  /\ up /\ Working = {} /\ CanMint
  /\ AcceptTurn(Turn, NewRun, "ordinary")
  /\ BeginRun(NewRun, "reading")
  /\ instructions' = {} /\ stopSeen' = FALSE
  /\ UNCHANGED <<process, local, questions, passes, owner>>

\* ExecuteAccepted reads the admission: a finished turn is only replayed.
ReadAccepted(r) ==
  /\ Step(r, "reading", IF Terminal(Turn) THEN "ended" ELSE "boundary")
  /\ UNCHANGED <<vars, decision, quietly>>

\* Begin of the steering control: the next fragment starts when no
\* instruction is left; a retired or stopped execution is refused.
BeginFragment(r) ==
  /\ instructions = {} \/ ~Valid(r)
  /\ Step(r, "boundary", IF Valid(r) THEN "model" ELSE "failing")
  /\ UNCHANGED <<vars, decision, quietly>>

\* Instructions: the interrupted calls are answered, then the open questions
\* are cancelled, then the instructions are applied.
CloseAtBoundary(r, c) ==
  /\ worker[r] = "boundary" /\ Valid(r) /\ instructions # {}
  /\ AppendToolResult(Turn, c)
  /\ UNCHANGED <<decision, execution, quietly>>

ResolveAtBoundary(r) ==
  /\ worker[r] = "boundary" /\ Valid(r) /\ instructions # {} /\ OpenCalls = {}
  /\ ResolveInteractions(Turn, Pending(Asks))
  /\ local' = local \ Pending(Asks)
  /\ UNCHANGED <<process, decision, execution, questions, passes, owner, history>>

ApplyAtBoundary(r) ==
  /\ Valid(r) /\ instructions # {} /\ OpenCalls = {} /\ Pending(Asks) = {}
  /\ Step(r, "boundary", "model")
  /\ ApplySteering(Turn, r)
  /\ instructions' = {}
  /\ UNCHANGED <<active, holder, stopSeen, owned, sealed, quietly>>

\* Mutant: a call that waits for its approval is not interrupted, although
\* the instruction refuses every answer.
InterruptDeaf(r) ==
  /\ worker[r] \in {"model", "called", "prepared", "cleared"}
  /\ instructions # {}
  /\ Stage(r, "boundary")
  /\ UNCHANGED <<vars, tool, dead, decision, quietly>>

\* A new instruction cancels the fragment; a handler at work is waited for.
Interrupt(r) ==
  /\ worker[r] \in {"model", "called", "prepared", "asked", "cleared"}
  /\ instructions # {}
  /\ Stage(r, "boundary")
  /\ UNCHANGED <<vars, tool, dead, decision, quietly>>

Respond(r, c) ==
  /\ worker[r] = "model" /\ r \notin dead
  /\ CommitProviderContext(Turn, r, {c}, "keep")
  /\ Stage(r, "called") /\ tool' = [tool EXCEPT ![r] = c]
  /\ UNCHANGED <<dead, decision, quietly>>

Prepare(r) ==
  /\ Step(r, "called", "prepared")
  /\ PrepareEffect(Turn, r, tool[r])
  /\ UNCHANGED <<decision, quietly>>

AskApproval(r) ==
  /\ r \notin dead
  /\ Step(r, "prepared", "asked")
  /\ AskInteraction(Turn, tool[r])
  /\ local' = local \cup {tool[r]}
  /\ UNCHANGED <<process, decision, questions, passes, owner, history>>

Dispatch(r) ==
  /\ r \notin dead
  /\ Step(r, "cleared", "running")
  /\ BeginDispatch(Turn, r, tool[r])
  /\ UNCHANGED <<decision, quietly>>

Return(r) ==
  /\ Step(r, "running", "boundary")
  /\ FinishDispatch(Turn, r, tool[r], "completed")
  /\ UNCHANGED <<decision, quietly>>

\* A control tool puts a question on record; the run intends to pause.
AskInput(r, q) ==
  /\ r \notin dead
  /\ Step(r, "model", "pausing")
  /\ AskInteraction(Turn, q)
  /\ questions' = Append(questions, <<q, r>>)
  /\ UNCHANGED <<process, decision, local, passes, owner, history>>

Conclude(r) ==
  /\ r \notin dead
  /\ Step(r, "model", "concluding")
  /\ UNCHANGED <<vars, decision, quietly>>

\* The agent cannot be built or the provider fails.
Fail(r) ==
  /\ r \notin dead /\ ~PendingAsk(Turn)
  /\ worker[r] \in {"boundary", "model", "called", "prepared", "cleared"}
  /\ Stage(r, "failing")
  /\ UNCHANGED <<vars, tool, dead, decision, quietly>>

\* Mutant: the loop ends although an instruction was accepted meanwhile.
SealDeaf(r) ==
  /\ worker[r] \in {"pausing", "concluding"}
  /\ sealed' = (sealed \/ (holder = r /\ ~stopSeen))
  /\ Stage(r, CASE holder = r /\ stopSeen -> "failing"
                [] worker[r] = "pausing" -> "paused"
                [] OTHER -> "concluded")
  /\ UNCHANGED <<vars, tool, dead, active, holder, stopSeen, owned, instructions, quietly>>

\* Finish of the steering control: go on with the instructions or seal; a
\* stop refuses it and a retired execution ends on its own.
Seal(r) ==
  /\ worker[r] \in {"pausing", "concluding"}
  /\ sealed' = (sealed \/ (holder = r /\ ~stopSeen /\ instructions = {}))
  /\ Stage(r, CASE holder = r /\ stopSeen -> "failing"
                [] holder = r /\ instructions # {} -> "boundary"
                [] worker[r] = "pausing" -> "paused"
                [] OTHER -> "concluded")
  /\ UNCHANGED <<vars, tool, dead, active, holder, stopSeen, owned, instructions, quietly>>

\* The end of the loop on record; a refused end is retried as a failure.
End(r, stage, status, next) ==
  /\ \/ FinishTurn(Turn, r, status, "run", TRUE) /\ Step(r, stage, next)
     \/ /\ ~FinishAdmitted(Turn, r, status, "run")
        /\ Step(r, stage, "failing") /\ UNCHANGED vars
  /\ UNCHANGED <<decision, quietly>>

EndPaused(r) == End(r, "paused", "waiting", "suspended")
EndConcluded(r) == End(r, "concluded", "completed", "ended")

\* finalizeFailedTurn, then finishUnloadedTerminal: open calls are answered,
\* the failure is recorded under one of two identities, and a turn whose
\* failure is refused twice is left as it is.
EndFailing(r) ==
  /\ worker[r] = "failing"
  /\ \/ \E c \in OpenCalls : AppendToolResult(Turn, c) /\ UNCHANGED execution
     \/ /\ OpenCalls = {} /\ FinishTurn(Turn, r, "failed", "run", TRUE)
        /\ Step(r, "failing", "ended")
     \/ /\ OpenCalls = {} /\ ~FinishAdmitted(Turn, r, "failed", "run")
        /\ FinishTurn(Turn, r, "failed", "preparation", FALSE)
        /\ Step(r, "failing", "ended")
     \/ /\ OpenCalls = {} /\ Writable(Turn)
        /\ ~FinishAdmitted(Turn, r, "failed", "run")
        /\ ~FinishAdmitted(Turn, r, "failed", "preparation")
        /\ Step(r, "failing", "none") /\ UNCHANGED vars
     \/ Terminal(Turn) /\ Step(r, "failing", "ended") /\ UNCHANGED vars
  /\ UNCHANGED <<decision, quietly>>

\* A cancelled execution leaves the turn to the owner of the stop.
Leave(r) ==
  /\ r \in dead
  /\ worker[r] \notin {"none", "paused", "concluded", "failing", "suspended", "ended"}
  /\ Stage(r, "none")
  /\ UNCHANGED <<vars, tool, dead, decision, quietly>>

\* finishSend after a waiting end: the turn stays active without an owner.
Suspend(r) ==
  /\ Step(r, "suspended", "none")
  /\ IF holder = r /\ active
     THEN owned' = FALSE /\ sealed' = FALSE
     ELSE UNCHANGED <<owned, sealed>>
  /\ UNCHANGED <<vars, active, holder, stopSeen, instructions, quietly>>

Retire(r) ==
  /\ Step(r, "ended", "none")
  /\ FinishSend(r)
  /\ UNCHANGED <<vars, quietly>>
-----------------------------------------------------------------------------
(* Answers, instructions and the continuations they start.                 *)

Heard == up /\ holder # NoRun /\ ~stopSeen

\* Respond: the answer is on record before its continuation starts.
AnswerInput(q) ==
  /\ Heard /\ instructions = {} /\ q \in Inputs
  /\ ResolveInteractions(Turn, {q})
  /\ \E i \in 1..Len(questions) :
       /\ questions[i][1] = q
       /\ tasks' = tasks \cup {Task(q, questions[i][2], FALSE)}
  /\ UNCHANGED <<process, decision, local, execution, questions, due, starting,
                 owner, history>>

\* An approval without a waiter starts a recovery pass instead.
AnswerApproval(c) ==
  /\ Heard /\ instructions = {} /\ c \in Approvals
  /\ ResolveInteractions(Turn, {c})
  /\ IF c \in local
     THEN /\ worker' = [r \in Runs |->
                IF worker[r] = "asked" /\ tool[r] = c THEN "cleared" ELSE worker[r]]
          /\ UNCHANGED <<due, crowded>>
     ELSE /\ due < MaxPasses /\ \A r \in Runs : due + starting[r] < MaxPasses
          /\ due' = due + 1
          /\ crowded' = (crowded \/ due > 0 \/ starting # NoStart)
          /\ UNCHANGED worker
  /\ local' = local \ {c}
  /\ UNCHANGED <<process, decision, tool, dead, questions, tasks, starting,
                 owner, overlap>>

Steer(s) ==
  /\ Heard /\ active /\ ~sealed
  /\ RequestSteering(Turn, holder, s)
  /\ instructions' = instructions \cup {s}
  /\ tasks' = IF owned THEN tasks ELSE tasks \cup {Task(s, holder, TRUE)}
  /\ UNCHANGED <<active, holder, stopSeen, owned, sealed, process, local, execution,
                 questions, due, starting, owner, history>>

\* What the claim of a continuation requires under the actor lock.
Claimable(task) ==
  /\ holder = task.run /\ active /\ ~stopSeen
  /\ task.steering \/ Pending(Inputs) = {}

Drained(task) == task.after \notin Working

\* An instruction first cancels what the suspended turn still asks.
ResolveForClaim(task) ==
  /\ Drained(task) /\ Claimable(task) /\ task.steering
  /\ ResolveInteractions(Turn, Pending(Asks))
  /\ local' = local \ Pending(Asks)
  /\ UNCHANGED <<process, decision, execution, questions, passes, owner, history>>

\* Mutants of Claim: the predecessor is not waited for; the instructions
\* that the new run must apply are forgotten.
ClaimEarly(task) ==
  /\ Claimable(task) /\ CanMint
  /\ ContinueRun(Turn, NewRun)
  /\ BeginRun(NewRun, "boundary")
  /\ tasks' = tasks \ {task}
  /\ UNCHANGED <<instructions, stopSeen, process, local, questions, due, starting,
                 owner>>

ClaimForgetful(task) ==
  /\ Drained(task) /\ Claimable(task) /\ CanMint
  /\ ContinueRun(Turn, NewRun)
  /\ BeginRun(NewRun, "boundary")
  /\ instructions' = {}
  /\ tasks' = tasks \ {task}
  /\ UNCHANGED <<stopSeen, process, local, questions, due, starting, owner>>

Claim(task) ==
  /\ Drained(task) /\ Claimable(task) /\ CanMint
  /\ ContinueRun(Turn, NewRun)
  /\ BeginRun(NewRun, "boundary")
  /\ tasks' = tasks \ {task}
  /\ UNCHANGED <<instructions, stopSeen, process, local, questions, due, starting,
                 owner>>

\* A continuation that lost its turn ends without a trace.
Drop(task) ==
  /\ Drained(task) /\ ~Claimable(task)
  /\ tasks' = tasks \ {task}
  /\ UNCHANGED <<vars, process, decision, local, execution, questions, due, starting,
                 owner, history>>
-----------------------------------------------------------------------------
(* Stops.                                                                  *)

\* The graceful stop records its request and cancels the execution.
RequestStop ==
  /\ up /\ active /\ ~stopSeen /\ ~sealed /\ owner = "none"
  /\ RequestCancel(Turn, holder)
  /\ stopSeen' = TRUE /\ owner' = "window"
  /\ dead' = IF owned THEN dead \cup {holder} ELSE dead
  /\ UNCHANGED <<active, holder, owned, sealed, instructions, process, local, worker,
                 tool, questions, passes, history>>

\* CancelTurn under the actor lock, for the owner of a graceful stop (after
\* the drain or at its deadline) and for an immediate stop.
CancelNow ==
  /\ up /\ active /\ owner # "sealing"
  /\ CancelTurn(Turn, holder)
  /\ stopSeen' = TRUE /\ owner' = "sealing" /\ local' = {}
  /\ UNCHANGED <<active, holder, owned, sealed, instructions, process, execution,
                 questions, tasks, starting, history>>

OwnerSettles == owner = "window" /\ CancelNow /\ UNCHANGED due
StopNow == owner = "none" /\ CancelNow /\ UNCHANGED due

\* The turn ended by itself before the owner came to it.
OwnerLate ==
  /\ owner = "window" /\ (~active \/ Terminal(Turn))
  /\ owner' = "none"
  /\ IF marker[Turn] = "unknown" THEN FinishSend(holder) ELSE UNCHANGED decision
  /\ UNCHANGED <<vars, process, local, execution, questions, passes, history>>

\* Once the lock is released the execution is cancelled and the actor idles.
FinishStop ==
  /\ owner = "sealing"
  /\ dead' = IF owned THEN dead \cup {holder} ELSE dead
  /\ FinishSend(holder)
  /\ owner' = "none"
  /\ UNCHANGED <<vars, process, local, worker, tool, questions, passes, history>>
-----------------------------------------------------------------------------
(* Loss of the process, reopening and recovery.                            *)

Crash ==
  /\ up /\ crashes < MaxCrashes /\ marker[Turn] # "none"
  /\ up' = FALSE /\ crashes' = crashes + 1
  /\ active' = FALSE /\ holder' = NoRun /\ stopSeen' = FALSE /\ owned' = FALSE
  /\ sealed' = FALSE /\ instructions' = {} /\ local' = {}
  /\ worker' = NoWork /\ tool' = NoTool /\ dead' = {}
  /\ tasks' = {} /\ due' = 0 /\ starting' = NoStart /\ owner' = "none"
  /\ UNCHANGED <<vars, questions, history>>

\* The first read of the thread rebuilds the actor from the journal and, for
\* an unfinished turn, starts a recovery pass.
Restart ==
  /\ ~up /\ up' = TRUE
  /\ active' = Writable(Turn) /\ holder' = identity[Turn]
  /\ stopSeen' = cancelled[Turn] /\ instructions' = PendingSteer(Turn)
  /\ due' = IF Writable(Turn) /\ MaxPasses > 0 THEN 1 ELSE 0
  /\ UNCHANGED <<vars, crashes, owned, sealed, local, execution, questions, tasks,
                 starting, owner, history>>

PassEnds == due > 0 /\ due' = due - 1

RecoverFinished ==
  /\ PassEnds /\ ~Writable(Turn)
  /\ UNCHANGED <<vars, process, decision, local, execution, questions, tasks,
                 starting, owner, history>>

\* Mutant: a stop on record is left to whoever asked for it.
RecoverStopNothing ==
  /\ PassEnds /\ cancelled[Turn]
  /\ UNCHANGED <<vars, process, decision, local, execution, questions, tasks,
                 starting, owner, history>>

RecoverStop ==
  /\ PassEnds /\ cancelled[Turn] /\ CancelNow

RecoverUnknown ==
  /\ PassEnds /\ ~cancelled[Turn] /\ Writable(Turn) /\ Uncertain(Turn)
  /\ FailUnknownEffectTurn(Turn, identity[Turn])
  /\ FinishSend(identity[Turn])
  /\ UNCHANGED <<process, local, execution, questions, tasks, starting, owner, history>>

\* The turn has no stop and no effect in doubt: a pass goes by what it finds.
Recoverable == Writable(Turn) /\ ~cancelled[Turn] /\ ~Uncertain(Turn)

RecoverSteering ==
  /\ PassEnds /\ Recoverable /\ instructions # {}
  /\ tasks' = tasks \cup {Task(NoRun, identity[Turn], TRUE)}
  /\ UNCHANGED <<vars, process, decision, local, execution, questions, starting,
                 owner, history>>

\* The first question decides: answered, it is continued for the run that
\* asked it; open, the pass leaves the turn to its answer.
RecoverQuestion ==
  /\ PassEnds /\ Recoverable /\ instructions = {} /\ questions # << >>
  /\ LET first == Head(questions)
     IN tasks' = IF first[1] \in Pending(Inputs) THEN tasks
                 ELSE tasks \cup {Task(NoRun, first[2], FALSE)}
  /\ UNCHANGED <<vars, process, decision, local, execution, questions, starting,
                 owner, history>>

RecoverExecution ==
  /\ PassEnds /\ Recoverable /\ instructions = {} /\ questions = << >>
  /\ starting' = IF PendingAsk(Turn) THEN starting
                 ELSE [starting EXCEPT ![identity[Turn]] = @ + 1]
  /\ UNCHANGED <<vars, process, decision, local, execution, questions, tasks, owner,
                 history>>

\* redispatchAcceptedTurn after its reads: the run executes again, whatever
\* the actor did meanwhile.
StartEnds(r) == starting[r] > 0 /\ starting' = [starting EXCEPT ![r] = @ - 1]

Redispatch(r) ==
  /\ StartEnds(r) /\ started[Turn] = r /\ UNCHANGED vars
  /\ IF Terminal(Turn) THEN UNCHANGED <<decision, execution, history>>
     ELSE /\ BeginRun(r, "reading")
          /\ instructions' = {}
          /\ UNCHANGED stopSeen
  /\ UNCHANGED <<process, local, questions, tasks, due, owner>>

\* The admission cannot be read for this run, or the agent cannot be built.
RedispatchFails(r) ==
  /\ StartEnds(r)
  /\ IF FinishAdmitted(Turn, r, "failed", "preparation")
     THEN FinishTurn(Turn, r, "failed", "preparation", FALSE) /\ FinishSend(r)
     ELSE UNCHANGED <<vars, decision>>
  /\ UNCHANGED <<process, local, execution, questions, tasks, due, owner, history>>
-----------------------------------------------------------------------------
Work(r) ==
  \/ ReadAccepted(r) \/ BeginFragment(r)
  \/ \E c \in Calls : CloseAtBoundary(r, c)
  \/ ResolveAtBoundary(r) \/ ApplyAtBoundary(r)
  \/ Interrupt(r)
  \/ \E c \in Calls : Respond(r, c)
  \/ Prepare(r) \/ AskApproval(r) \/ Dispatch(r) \/ Return(r)
  \/ \E q \in Inputs : AskInput(r, q)
  \/ Conclude(r) \/ Fail(r) \/ Seal(r)
  \/ EndPaused(r) \/ EndConcluded(r) \/ EndFailing(r)
  \/ Leave(r) \/ Suspend(r) \/ Retire(r)

Continue == \E task \in tasks : ResolveForClaim(task) \/ Claim(task) \/ Drop(task)

Settlement == OwnerSettles \/ OwnerLate \/ FinishStop

Recovery ==
  \/ Restart
  \/ RecoverFinished \/ RecoverStop \/ RecoverUnknown
  \/ RecoverSteering \/ RecoverQuestion \/ RecoverExecution
  \/ \E r \in Runs : Redispatch(r) \/ RedispatchFails(r)

\* What users and the machine do, with no promise that they do it.
Outside ==
  \/ Admit
  \/ \E a \in Asks : AnswerInput(a) \/ AnswerApproval(a)
  \/ \E s \in Steers : Steer(s)
  \/ RequestStop \/ StopNow \/ Crash

RecoveryNext ==
  \/ \E r \in Runs : Work(r)
  \/ Continue \/ Settlement \/ Recovery \/ Outside

\* Goroutines run, provider attempts and tool handlers end, deadlines pass,
\* and a lost process is started and its thread read again.
RecoveryFairness ==
  /\ \A r \in Runs : WF_recoveryVars(Work(r))
  /\ WF_recoveryVars(Continue)
  /\ WF_recoveryVars(Settlement)
  /\ WF_recoveryVars(Recovery)

RecoverySpec == RecoveryInit /\ [][RecoveryNext]_recoveryVars
FairRecovery == RecoverySpec /\ RecoveryFairness
-----------------------------------------------------------------------------
(* Properties.                                                             *)

\* A turn is never executed by two goroutines at once, nor by one whose run has
\* lost the journal (agentharness/doc.go: at most one active turn at a time).
OneExecution == ~overlap

\* Two executions of a turn take a recovery pass, and an instruction that takes
\* the turn from it or a second pass, which an approval without a waiter started
\* before the first had decided: questions and stops never meet a pass like that,
\* and without a process loss a continuation always waits until the execution
\* before it is drained, however all of them interleave with the pause.
OnlyRecoveryOverlaps ==
  overlap => crashes > 0 /\ (crowded \/ \E s \in Steers : steer[<<Turn, s>>] # "none")

\* What the actor of an unbroken process decides from memory is what the journal
\* holds: the run it believes current, the stop and the instructions that wait.
\* (A pass that executes the accepted run again forgets the instructions
\* accepted while it built the agent.)
ActorTracksJournal ==
  up /\ active /\ Writable(Turn) /\ crashes = 0 =>
    /\ holder = identity[Turn]
    /\ stopSeen = cancelled[Turn]
    /\ instructions = PendingSteer(Turn)

\* A turn never succeeds while an instruction the user got accepted was dropped:
\* it is applied before the loop may end.  A recovery pass that forgot one is
\* the exception.
SuccessAppliesInstructions ==
  marker[Turn] = "completed" /\ crashes = 0 =>
    \A s \in Steers : steer[<<Turn, s>>] # "cancelled"

\* An earlier run of the turn prepared an effect that was never decided.
LeftBehind ==
  \E a \in AttemptsOf(Turn) : attempt[a] = "prepared" /\ a[2] # identity[Turn]

\* The ways in which recovery loses sight of a turn: two executions of it, an
\* effect left prepared by a run that the turn went on without, and an answered
\* question whose continuation is lost.
RecoveryGap ==
  overlap \/ LeftBehind \/ \E q \in Inputs : ask[<<Turn, q>>] = "resolved"

\* An accepted instruction is applied or ends with its turn, in a process that
\* is not lost.
InstructionSettled ==
  \A s \in Steers :
    steer[<<Turn, s>>] = "pending" ~> steer[<<Turn, s>>] # "pending" \/ crashes > 0

\* A stop on record ends its turn, also across a loss of the process.  Two
\* executions of the turn void the promise: the stop acts for the actor's run,
\* which may be the one that lost the journal.
StopEndsTurn == cancelled[Turn] ~> Terminal(Turn) \/ overlap

\* A turn that nobody asks anything comes to its end or to a question, across
\* losses of the process, but for the gaps of the recovery.
TurnProceeds ==
  marker[Turn] = "started" ~>
    Terminal(Turn) \/ PendingAsk(Turn) \/ marker[Turn] = "waiting" \/ RecoveryGap

\* What is begun is brought to an end: a stop ends its turn, any other turn
\* comes to its own end or to a question.
RecoveryCompletes == StopEndsTurn /\ TurnProceeds
=============================================================================
