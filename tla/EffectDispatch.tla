--------------------------- MODULE EffectDispatch ---------------------------
(***************************************************************************)
(* One execution of a turn and the goroutines it starts for its tool       *)
(* effects, over the durable journal of TurnJournal:                       *)
(*                                                                         *)
(*   exec      the execution goroutine: provider requests, tool batches    *)
(*             and the end of the run (engine.RunTurn inside runAccepted)  *)
(*   main[c]   the batch's dispatch of call c (dispatchAuthorizedEffect)   *)
(*   gate[c]   the goroutine it starts for c: approval, durable dispatch   *)
(*             boundary, handler and finalization                          *)
(*   owner     the stop in progress                                        *)
(*   recover   the recovery pass of a reopened thread                      *)
(*                                                                         *)
(* Every action is one journal transaction of TurnJournal or none, so the  *)
(* process may be lost between any two transactions; a restart keeps the   *)
(* journal and loses everything else.  Tools that ask for permission put   *)
(* the interaction "approval:<attempt>" in the journal, so Asks is Calls.  *)
(***************************************************************************)
EXTENDS TurnJournal

CONSTANTS Turn, Run,   \* the turn and the run that executes it
          Automatic,   \* calls whose tool needs no approval
          WallTime,    \* the host configured a time limit of the engine
          MaxCrashes   \* bound on process losses

ASSUME DispatchAssumption ==
  /\ Turns = {Turn} /\ Run \in Runs
  /\ Asks = Calls /\ Steers = {}
  /\ Automatic \subseteq Calls
  /\ WallTime \in BOOLEAN /\ MaxCrashes \in Nat

VARIABLES
  up, crashes,
  exec,      \* phase of the execution goroutine
  result,    \* status the engine reports to runAccepted
  ctx,       \* the execution context and how it was cancelled
  late,      \* the engine's wall time expired
  overdue,   \* the settlement window of a graceful stop is over
  owner,     \* the stop that still has something to do
  main, gate,
  waiters,   \* calls with an interaction waiter in the thread actor
  recover,   \* the recovery pass of a hydrated thread
  ran,       \* history: how often the handler of c was invoked
  approved   \* history: calls the user approved

process == <<up, crashes>>
engine == <<exec, result>>
stopping == <<ctx, late, overdue, owner>>
dispatch == <<main, gate, waiters>>
history == <<ran, approved>>
dispatchVars == <<vars, process, engine, stopping, dispatch, recover, history>>

ExecPhases == {"none", "model", "batch", "ending", "saved", "failing", "fallback"}
Results == {"none", "completed", "failed", "cancelled", "unknown"}
MainStates == {"idle", "entering", "waiting", "ready", "declined", "settled",
               "failed", "cancelled", "unknown"}

\* A gate goroutine is gone in the states of GateDone; "drained" gave up
\* waiting for the finalization of a result its handler had returned.
GateDone == {"none", "denied", "broken", "aborted", "lost", "drained", "over"}
GateStates == GateDone \cup {"asking", "pending", "cleared", "entering", "begun",
                             "running", "returned"}

DispatchTypeOK ==
  /\ TypeOK
  /\ up \in BOOLEAN /\ crashes \in 0..MaxCrashes
  /\ exec \in ExecPhases /\ result \in Results
  /\ ctx \in {"live", "graceful", "cancelled"}
  /\ late \in BOOLEAN /\ overdue \in BOOLEAN
  /\ owner \in {"none", "graceful", "cancelling"}
  /\ main \in [Calls -> MainStates] /\ gate \in [Calls -> GateStates]
  /\ waiters \subseteq {c \in Calls : ask[<<Turn, c>>] # "none"}
  /\ recover \in {"none", "due", "redispatch"}
  /\ ran \in [Calls -> 0..2] /\ approved \subseteq Calls

DispatchInit ==
  /\ Init
  /\ up = TRUE /\ crashes = 0
  /\ exec = "none" /\ result = "none"
  /\ ctx = "live" /\ late = FALSE /\ overdue = FALSE /\ owner = "none"
  /\ main = [c \in Calls |-> "idle"] /\ gate = [c \in Calls |-> "none"]
  /\ waiters = {} /\ recover = "none"
  /\ ran = [c \in Calls |-> 0] /\ approved = {}
-----------------------------------------------------------------------------
(* Conditions of the code.                                                 *)

Cancelled == cancelled[Turn]
Owned == HasAuthority(Turn, Run)
AttemptOf(c) == attempt[<<Turn, Run, c>>]

\* The context of the engine and of its tools.
Dead == late \/ ctx # "live"
GracefulDead == ctx = "graceful" /\ ~late

\* A dead context stops waiting at once, a graceful one after its window.
GiveUp == Dead /\ (GracefulDead => overdue)

\* dispatchStarted is closed after the durable boundary was crossed.
Started(c) == gate[c] \in {"running", "returned", "lost", "drained"}

\* FailUnknownEffectTurn, whose stale-authority answer is ignored.
SettleUnknown ==
  IF FailUnknownAdmitted(Turn, Run) THEN FailUnknownEffectTurn(Turn, Run)
  ELSE UNCHANGED vars

\* convergeDispatchedEffect: a graceful stop leaves the turn to its owner.
Converge(graceful) ==
  IF graceful THEN UNCHANGED vars ELSE SettleUnknown

\* RejectEffectAttempt, refused once the turn or the attempt is settled.
RejectPrepared(c) ==
  IF Writable(Turn) /\ AttemptOf(c) = "prepared"
  THEN RejectEffect(Turn, Run, c) ELSE UNCHANGED vars

SetMain(c, state) == main' = [main EXCEPT ![c] = state]
SetGate(c, state) == gate' = [gate EXCEPT ![c] = state]
-----------------------------------------------------------------------------
(* The execution goroutine up to the end of a tool batch.                  *)

\* The admitted turn starts its execution.
Admit ==
  /\ up /\ exec = "none"
  /\ AcceptTurn(Turn, Run, "ordinary")
  /\ exec' = "model"
  /\ UNCHANGED <<result, process, stopping, dispatch, recover, history>>

\* A response with tool calls commits before any of them is dispatched.
Respond(calls) ==
  /\ exec = "model" /\ calls # {}
  /\ CommitProviderContext(Turn, Run, calls, "keep")
  /\ exec' = "batch"
  /\ main' = [c \in Calls |-> IF c \in calls THEN "entering" ELSE "idle"]
  /\ gate' = [c \in Calls |-> IF c \in calls THEN "none" ELSE gate[c]]
  /\ UNCHANGED <<result, process, stopping, waiters, recover, history>>

\* A final answer: the actor seals the execution unless a stop was accepted.
Conclude ==
  /\ exec = "model" /\ ~Dead /\ ~Cancelled
  /\ exec' = "ending" /\ result' = "completed"
  /\ UNCHANGED <<vars, process, stopping, dispatch, recover, history>>

\* A provider or commit failure; with a dead context it is a cancellation.
ProviderFails ==
  /\ exec = "model"
  /\ exec' = "ending"
  /\ result' = IF Dead THEN "cancelled" ELSE "failed"
  /\ UNCHANGED <<vars, process, stopping, dispatch, recover, history>>

\* The batch waits for every call; the worst error decides the result.
BatchEnds ==
  /\ exec = "batch"
  /\ \A c \in Calls : main[c] \notin {"entering", "waiting", "ready", "declined"}
  /\ LET ends == {main[c] : c \in Calls} IN
     IF ends \subseteq {"idle", "settled"}
     THEN exec' = "model" /\ UNCHANGED result
     ELSE /\ exec' = "ending"
          /\ result' = CASE "unknown" \in ends -> "unknown"
                         [] "cancelled" \in ends -> "cancelled"
                         [] OTHER -> "failed"
  /\ main' = [c \in Calls |-> "idle"]
  /\ UNCHANGED <<vars, process, stopping, gate, waiters, recover, history>>
-----------------------------------------------------------------------------
(* Dispatch of one call: the batch side.                                   *)

Prepare(c) ==
  /\ main[c] = "entering"
  /\ PrepareEffect(Turn, Run, c)
  /\ SetMain(c, "waiting")
  /\ SetGate(c, IF c \in Automatic THEN "cleared" ELSE "asking")
  /\ UNCHANGED <<engine, process, stopping, waiters, recover, history>>

\* The journal refuses it (stopped or ended turn) or the context is dead.
PrepareFails(c) ==
  /\ main[c] = "entering"
  /\ Dead \/ Cancelled \/ ~Owned
  /\ SetMain(c, IF Dead THEN "cancelled" ELSE "failed")
  /\ UNCHANGED <<vars, engine, process, stopping, gate, waiters, recover, history>>

\* The handler returned; its result is not on record yet.
TakeResult(c) ==
  /\ main[c] = "waiting" /\ gate[c] \in {"returned", "drained"}
  /\ SetMain(c, "ready")
  /\ UNCHANGED <<vars, engine, process, stopping, gate, waiters, recover, history>>

\* The gate ended without a result: declined, refused, cancelled or lost.
TakeDenial(c) ==
  /\ main[c] = "waiting" /\ gate[c] \in {"denied", "broken"}
  /\ RejectPrepared(c)
  /\ SetMain(c, IF gate[c] = "denied" THEN "declined" ELSE "failed")
  /\ UNCHANGED <<engine, process, stopping, gate, waiters, recover, history>>

TakeFailure(c) ==
  /\ main[c] = "waiting" /\ gate[c] \in {"aborted", "lost"}
  /\ SetMain(c, IF gate[c] = "lost" THEN "unknown" ELSE "cancelled")
  /\ UNCHANGED <<vars, engine, process, stopping, gate, waiters, recover, history>>

\* Cancellation: an effect known to have started makes the turn uncertain,
\* one that did not stays Prepared for whoever settles the turn.
AbandonCall(c) ==
  /\ main[c] = "waiting" /\ GiveUp
  /\ IF Started(c) THEN SettleUnknown ELSE UNCHANGED vars
  /\ SetMain(c, IF Started(c) THEN "unknown" ELSE "cancelled")
  /\ UNCHANGED <<engine, process, stopping, gate, waiters, recover, history>>

\* Results are finalized when the whole batch returned, or at once after a
\* cancellation.
Flushing == Dead \/ \A c \in Calls : main[c] \notin {"entering", "waiting"}

Finalize(c, outcome) ==
  /\ exec = "batch" /\ Flushing
  /\ main[c] = "ready" /\ gate[c] = "returned"
  /\ FinishDispatch(Turn, Run, c, outcome)
  /\ SetMain(c, "settled") /\ SetGate(c, "over")
  /\ UNCHANGED <<engine, process, stopping, waiters, recover, history>>

\* The outcome could not be committed.
FinalizeFails(c) ==
  /\ exec = "batch" /\ Flushing
  /\ main[c] = "ready" /\ gate[c] = "returned"
  /\ Converge(GracefulDead)
  /\ SetMain(c, "unknown") /\ SetGate(c, "over")
  /\ UNCHANGED <<engine, process, stopping, waiters, recover, history>>

\* The gate had given up on this result before it was finalized.
FinalizeDrained(c) ==
  /\ exec = "batch" /\ Flushing
  /\ main[c] = "ready" /\ gate[c] = "drained"
  /\ SetMain(c, "cancelled")
  /\ UNCHANGED <<vars, engine, process, stopping, gate, waiters, recover, history>>

\* The declined result of an unauthorized call is an ordinary tool result.
RecordDecline(c) ==
  /\ exec = "batch" /\ Flushing
  /\ main[c] = "declined"
  /\ \/ AppendToolResult(Turn, c) /\ SetMain(c, "settled")
     \/ /\ Dead \/ ~Writable(Turn)
        /\ UNCHANGED vars
        /\ SetMain(c, IF Dead THEN "cancelled" ELSE "failed")
  /\ UNCHANGED <<engine, process, stopping, gate, waiters, recover, history>>
-----------------------------------------------------------------------------
(* Dispatch of one call: the gate goroutine.                               *)

\* requestInteraction reserves the waiter and commits the question.
Ask(c) ==
  /\ gate[c] = "asking" /\ ~Dead
  /\ AskInteraction(Turn, c)
  /\ waiters' = waiters \cup {c}
  /\ SetGate(c, "pending")
  /\ UNCHANGED <<main, engine, process, stopping, recover, history>>

AskFails(c) ==
  /\ gate[c] = "asking" /\ (Dead \/ ~Writable(Turn))
  /\ SetGate(c, IF Dead THEN "aborted" ELSE "broken")
  /\ UNCHANGED <<vars, main, waiters, engine, process, stopping, recover, history>>

\* A dead context ends the wait; the question and its waiter stay behind.
AbortWait(c) ==
  /\ gate[c] = "pending" /\ Dead
  /\ SetGate(c, "aborted")
  /\ UNCHANGED <<vars, main, waiters, engine, process, stopping, recover, history>>

\* The context is checked, then the boundary is crossed: two steps.
Enter(c) ==
  /\ gate[c] = "cleared"
  /\ SetGate(c, IF Dead THEN "aborted" ELSE "entering")
  /\ UNCHANGED <<vars, main, waiters, engine, process, stopping, recover, history>>

Begin(c) ==
  /\ gate[c] = "entering"
  /\ BeginDispatch(Turn, Run, c)
  /\ SetGate(c, "begun")
  /\ UNCHANGED <<main, waiters, engine, process, stopping, recover, history>>

BeginFails(c) ==
  /\ gate[c] = "entering" /\ (Dead \/ Cancelled \/ ~Owned)
  /\ SetGate(c, IF Dead THEN "aborted" ELSE "broken")
  /\ UNCHANGED <<vars, main, waiters, engine, process, stopping, recover, history>>

\* The boundary committed: announce it and invoke the handler.
Invoke(c) ==
  /\ gate[c] = "begun"
  /\ SetGate(c, "running")
  /\ ran' = [ran EXCEPT ![c] = @ + 1]
  /\ UNCHANGED <<vars, main, waiters, engine, process, stopping, recover, approved>>

HandlerReturns(c) ==
  /\ gate[c] = "running"
  /\ SetGate(c, "returned")
  /\ UNCHANGED <<vars, main, waiters, engine, process, stopping, recover, history>>

\* A panic, an invalid outcome or a context error leaves no outcome.
HandlerFails(c) ==
  /\ gate[c] = "running"
  /\ Converge(GracefulDead)
  /\ SetGate(c, "lost")
  /\ UNCHANGED <<main, waiters, engine, process, stopping, recover, history>>

\* Nobody will finalize a returned result after the context died.
Drain(c) ==
  /\ gate[c] = "returned" /\ GiveUp
  /\ Converge(GracefulDead)
  /\ SetGate(c, "drained")
  /\ UNCHANGED <<main, waiters, engine, process, stopping, recover, history>>
-----------------------------------------------------------------------------
(* The end of the run: runAccepted after the engine returned.              *)

OpenCalls == {c \in Calls : call[<<Turn, c>>] = "open"}

\* The terminal the run asks for.
EndStatus ==
  CASE result = "completed" -> "completed"
    [] result = "cancelled" -> "aborted"
    [] OTHER -> "failed"

\* An unknown effect ends the turn as such; everything else is refused while
\* it is uncertain and falls back to the runtime.
EndUnknown ==
  /\ exec = "ending" /\ result = "unknown"
  /\ SettleUnknown
  /\ exec' = IF Writable(Turn) /\ ~FailUnknownAdmitted(Turn, Run)
             THEN "fallback" ELSE "none"
  /\ UNCHANGED <<result, process, stopping, dispatch, recover, history>>

\* After a graceful stop the cancelled run leaves the terminal to the owner.
LeaveToOwner ==
  /\ exec = "ending" /\ result = "cancelled" /\ ctx = "graceful"
  /\ exec' = "none"
  /\ UNCHANGED <<vars, result, process, stopping, dispatch, recover, history>>

MustFlush == result \in {"cancelled", "failed"} /\ OpenCalls # {}

\* Interrupted calls are answered one by one before the run is ended.
CloseCall(c) ==
  /\ \/ exec = "ending" /\ result \in {"cancelled", "failed"}
     \/ exec = "failing"
  /\ AppendToolResult(Turn, c)
  /\ UNCHANGED <<engine, process, stopping, dispatch, recover, history>>

SaveResult ==
  /\ exec = "ending" /\ result # "unknown" /\ ~MustFlush
  /\ ~(result = "cancelled" /\ ctx = "graceful")
  /\ SavePoint(Turn)
  /\ exec' = "saved"
  /\ UNCHANGED <<result, process, stopping, dispatch, recover, history>>

EndRun ==
  /\ exec = "saved"
  /\ FinishTurn(Turn, Run, EndStatus, "run", TRUE)
  /\ exec' = "none"
  /\ UNCHANGED <<result, process, stopping, dispatch, recover, history>>

\* Another owner ended the turn: its terminal is replayed.
EndReplayed ==
  /\ exec \in {"ending", "saved", "failing", "fallback"}
  /\ result # "unknown" \/ exec # "ending"
  /\ Terminal(Turn)
  /\ exec' = "none"
  /\ UNCHANGED <<vars, result, process, stopping, dispatch, recover, history>>

\* A refused terminal is retried as a failure, then left to the runtime's
\* preparation terminal, whose refusal is only reported.
EndRefused ==
  /\ exec = "saved" /\ Writable(Turn)
  /\ ~FinishAdmitted(Turn, Run, EndStatus, "run")
  /\ exec' = "failing"
  /\ UNCHANGED <<vars, result, process, stopping, dispatch, recover, history>>

EndFailed ==
  /\ exec = "failing" /\ OpenCalls = {} /\ Writable(Turn)
  /\ \/ FinishTurn(Turn, Run, "failed", "run", TRUE) /\ exec' = "none"
     \/ /\ ~FinishAdmitted(Turn, Run, "failed", "run")
        /\ UNCHANGED vars /\ exec' = "fallback"
  /\ UNCHANGED <<result, process, stopping, dispatch, recover, history>>

EndFallback ==
  /\ exec = "fallback" /\ Writable(Turn)
  /\ \/ FinishTurn(Turn, Run, "failed", "preparation", FALSE)
     \/ ~FinishAdmitted(Turn, Run, "failed", "preparation") /\ UNCHANGED vars
  /\ exec' = "none"
  /\ UNCHANGED <<result, process, stopping, dispatch, recover, history>>
-----------------------------------------------------------------------------
(* The user, the clock, the process.                                       *)

\* Mutant: any answer releases the waiting gate into its dispatch.
AnswerAnyway(c, yes) ==
  /\ up /\ ~Cancelled
  /\ ResolveInteractions(Turn, {c})
  /\ approved' = IF yes THEN approved \cup {c} ELSE approved
  /\ IF c \in waiters
     THEN /\ waiters' = waiters \ {c}
          /\ gate' = [gate EXCEPT ![c] = IF @ # "pending" THEN @ ELSE "cleared"]
          /\ UNCHANGED recover
     ELSE recover' = "due" /\ UNCHANGED <<waiters, gate>>
  /\ UNCHANGED <<main, engine, process, stopping, ran>>

\* Mutant: an answer nobody waits for is recorded and not acted upon.
AnswerOnRecord(c, yes) ==
  /\ up /\ ~Cancelled
  /\ ResolveInteractions(Turn, {c})
  /\ approved' = IF yes THEN approved \cup {c} ELSE approved
  /\ waiters' = waiters \ {c}
  /\ gate' = [gate EXCEPT ![c] = IF @ # "pending" THEN @
                                 ELSE IF yes THEN "cleared" ELSE "denied"]
  /\ UNCHANGED <<main, recover, engine, process, stopping, ran>>

\* A live question is answered through its waiter; one nobody waits for, in
\* a reopened thread, starts the recovery pass.
Answer(c, yes) ==
  /\ up /\ ~Cancelled
  /\ ResolveInteractions(Turn, {c})
  /\ approved' = IF yes THEN approved \cup {c} ELSE approved
  /\ IF c \in waiters
     THEN /\ waiters' = waiters \ {c}
          /\ gate' = [gate EXCEPT ![c] = IF @ # "pending" THEN @
                                         ELSE IF yes THEN "cleared" ELSE "denied"]
          /\ UNCHANGED recover
     ELSE recover' = "due" /\ UNCHANGED <<waiters, gate>>
  /\ UNCHANGED <<main, engine, process, stopping, ran>>

\* An immediate stop, or the settlement of a graceful one: the transaction
\* under the actor lock; a turn that ended as unknown is replayed.
CommitStop ==
  IF Owned THEN CancelTurn(Turn, Run) ELSE UNCHANGED vars

StopNow ==
  /\ up /\ owner # "cancelling"
  /\ Writable(Turn) \/ (marker[Turn] = "unknown" /\ exec # "none")
  /\ CommitStop
  /\ owner' = "cancelling"
  /\ UNCHANGED <<ctx, late, overdue, engine, process, dispatch, recover, history>>

\* After the commit the execution is cancelled and the waiters released.
CancelExecution ==
  /\ owner = "cancelling"
  /\ ctx' = IF ctx = "live" THEN "cancelled" ELSE ctx
  /\ waiters' = {}
  /\ owner' = "none"
  /\ UNCHANGED <<vars, late, overdue, main, gate, engine, process, recover, history>>

\* A graceful stop waits for a sealed execution, otherwise it commits the
\* request and cancels the execution under the actor lock; without an
\* execution there is no window.
RequestStop ==
  /\ up /\ owner = "none"
  /\ ~(exec \in {"ending", "saved"} /\ result = "completed")
  /\ RequestCancel(Turn, Run)
  /\ ctx' = IF ctx = "live" /\ exec # "none" THEN "graceful" ELSE ctx
  /\ owner' = "graceful"
  /\ overdue' = (exec = "none")
  /\ UNCHANGED <<late, engine, process, dispatch, recover, history>>

WindowEnds ==
  /\ ctx = "graceful" \/ owner = "graceful"
  /\ ~overdue
  /\ overdue' = TRUE
  /\ UNCHANGED <<vars, ctx, late, owner, engine, process, dispatch, recover, history>>

\* Mutant: at the end of its window the owner returns without the terminal.
OwnerGivesUp ==
  /\ owner = "graceful" /\ (exec = "none" \/ overdue)
  /\ IF exec = "none" THEN CommitStop ELSE UNCHANGED vars
  /\ owner' = "cancelling"
  /\ UNCHANGED <<ctx, late, overdue, engine, process, dispatch, recover, history>>

\* The stop owner seals the turn when the execution drained or its window
\* is over.
OwnerSettles ==
  /\ owner = "graceful" /\ (exec = "none" \/ overdue)
  /\ CommitStop
  /\ owner' = "cancelling"
  /\ UNCHANGED <<ctx, late, overdue, engine, process, dispatch, recover, history>>

Expire ==
  /\ WallTime /\ ctx = "live" /\ ~late /\ exec \in {"model", "batch"}
  /\ late' = TRUE
  /\ UNCHANGED <<vars, ctx, overdue, owner, engine, process, dispatch, recover, history>>

\* The process is lost: only the journal and the facts of the world remain.
Crash ==
  /\ up /\ crashes < MaxCrashes
  /\ up' = FALSE /\ crashes' = crashes + 1
  /\ exec' = "none" /\ result' = "none"
  /\ ctx' = "live" /\ late' = FALSE /\ overdue' = FALSE /\ owner' = "none"
  /\ main' = [c \in Calls |-> "idle"] /\ gate' = [c \in Calls |-> "none"]
  /\ waiters' = {} /\ recover' = "none"
  /\ UNCHANGED <<vars, history>>

Restart ==
  /\ ~up
  /\ up' = TRUE
  /\ recover' = IF Writable(Turn) THEN "due" ELSE "none"
  /\ UNCHANGED <<vars, crashes, engine, stopping, dispatch, history>>

\* Mutant: recovery trusts the redispatch to settle an effect in flight.
RecoverUncertain ==
  /\ recover = "due"
  /\ IF Writable(Turn) /\ Cancelled THEN CommitStop ELSE UNCHANGED vars
  /\ recover' = IF ~Writable(Turn) \/ Cancelled \/ PendingAsk(Turn)
                THEN "none" ELSE "redispatch"
  /\ UNCHANGED <<process, engine, stopping, dispatch, history>>

\* recoverHydratedThread: a requested stop, then an uncertain effect, then an
\* open question decide; otherwise the accepted turn is dispatched again.
Recover ==
  /\ recover = "due"
  /\ CASE ~Writable(Turn) -> UNCHANGED vars
       [] Writable(Turn) /\ Cancelled -> CommitStop
       [] Writable(Turn) /\ ~Cancelled /\ Uncertain(Turn) -> SettleUnknown
       [] OTHER -> UNCHANGED vars
  /\ recover' = IF ~Writable(Turn) \/ Cancelled \/ Uncertain(Turn) \/ PendingAsk(Turn)
                THEN "none" ELSE "redispatch"
  /\ UNCHANGED <<process, engine, stopping, dispatch, history>>

\* The accepted turn runs again under its own run; a provider that refuses
\* the unanswered tool calls in its history makes that run fail.
Redispatch ==
  /\ recover = "redispatch"
  /\ recover' = "none"
  /\ exec' = IF Terminal(Turn) THEN exec ELSE "model"
  /\ UNCHANGED <<vars, result, process, stopping, dispatch, history>>
-----------------------------------------------------------------------------
Batch(c) ==
  \/ Prepare(c) \/ PrepareFails(c) \/ TakeResult(c) \/ TakeDenial(c)
  \/ TakeFailure(c) \/ AbandonCall(c)
  \/ \E outcome \in Outcomes : Finalize(c, outcome)
  \/ FinalizeFails(c) \/ FinalizeDrained(c) \/ RecordDecline(c)

Gate(c) ==
  \/ Ask(c) \/ AskFails(c) \/ AbortWait(c) \/ Enter(c) \/ Begin(c) \/ BeginFails(c)
  \/ Invoke(c) \/ Drain(c)

Handler(c) == HandlerReturns(c) \/ HandlerFails(c)

Engine == (\E calls \in SUBSET Calls : Respond(calls)) \/ Conclude \/ ProviderFails

EndOfRun ==
  \/ EndUnknown \/ LeaveToOwner \/ (\E c \in Calls : CloseCall(c)) \/ SaveResult
  \/ EndRun \/ EndReplayed \/ EndRefused \/ EndFailed \/ EndFallback

Stop == StopNow \/ RequestStop
Owner == CancelExecution \/ WindowEnds \/ OwnerSettles
Restarting == Restart \/ Recover \/ Redispatch

DispatchNext ==
  \/ Admit \/ Engine \/ BatchEnds \/ EndOfRun
  \/ \E c \in Calls : Batch(c) \/ Gate(c) \/ Handler(c)
  \/ \E c \in Calls, yes \in BOOLEAN : Answer(c, yes)
  \/ Stop \/ Owner \/ Expire \/ Crash \/ Restarting

(***************************************************************************)
(* Goroutines that can run do run, timers fire, a host reopens its store;  *)
(* a provider request ends, because every attempt has a total time limit   *)
(* and retries are counted.  Nothing is assumed of the user or of a tool   *)
(* handler.                                                                *)
(***************************************************************************)
Fairness ==
  /\ WF_dispatchVars(Engine)
  /\ WF_dispatchVars(BatchEnds) /\ WF_dispatchVars(EndOfRun)
  /\ \A c \in Calls : WF_dispatchVars(Batch(c)) /\ WF_dispatchVars(Gate(c))
  /\ WF_dispatchVars(CancelExecution) /\ WF_dispatchVars(WindowEnds)
  /\ WF_dispatchVars(OwnerSettles) /\ WF_dispatchVars(Restarting)

DispatchSpec == DispatchInit /\ [][DispatchNext]_dispatchVars
FairDispatchSpec == DispatchSpec /\ Fairness
-----------------------------------------------------------------------------
(* Properties.                                                             *)

\* A handler runs at most once for its attempt, whatever is lost, stopped or
\* recovered, and what it did is never recorded as withdrawn or rejected.
EffectsAccounted ==
  \A c \in Calls : ran[c] > 0 =>
    /\ ran[c] = 1
    /\ AttemptOf(c) \in {"dispatching", "unknown"} \cup Outcomes

\* A tool that asks runs only after the user said yes, in any process.
ConsentRequired ==
  \A c \in Calls \ Automatic : ran[c] > 0 => c \in approved

\* While a handler is at work its turn is unfinished or ended as uncertain:
\* no other end of a turn leaves an effect running behind it.
NoHandlerBehindEnd ==
  \A c \in Calls : gate[c] \in {"begun", "running", "returned"} =>
    Writable(Turn) \/ marker[Turn] = "unknown"

Quiescent ==
  /\ up /\ exec = "none" /\ owner = "none" /\ recover = "none"
  /\ \A c \in Calls : gate[c] \in GateDone

\* An unfinished turn on which nobody works any more waits for an answer
\* that would resume it: no turn is left active with nothing to wake it.
NoStrandedTurn ==
  Quiescent /\ Writable(Turn) =>
    \E c \in Calls : ask[<<Turn, c>>] = "pending" /\ c \notin waiters

\* Only the wall time strands a turn, and only one that asked for an approval:
\* a stop, a failing handler, a refused end or a lost process never does.
OnlyWallTimeStrands ==
  \/ NoStrandedTurn
  \/ late /\ \E c \in Calls : ask[<<Turn, c>>] # "none"

\* An accepted stop request ends the turn, even if a handler never returns
\* and the process is lost on the way.
StopEndsTurn == Cancelled ~> Terminal(Turn)

\* An approved call is dispatched, or its turn ends, or the turn goes on to
\* another tool, or its wall time expires: an approval is not lost otherwise,
\* not even by the process that received it.
ApprovalProceeds ==
  \A c \in Calls :
    c \in approved ~> \/ AttemptOf(c) # "prepared" \/ Terminal(Turn) \/ late
                     \/ \E d \in Calls \ {c} : gate[d] \in {"pending", "running"}
=============================================================================
