---------------------------- MODULE EngineProofs ----------------------------
(***************************************************************************)
(* Proofs about the engine's loop (EngineLoop), for every set of answers   *)
(* and every limit: which calls are open where, and what an accepted       *)
(* instruction waits for; and about the request it makes at each step      *)
(* (ProviderRetry), for every policy, clock and provider: what a repeated  *)
(* request has behind it, and on which side of its deadline an answer was. *)
(***************************************************************************)
EXTENDS EngineLoop, ProviderRetry, TLAPS

-----------------------------------------------------------------------------
(* The loop of requests and tool calls.                                     *)

\* From the beginning of a step to the verdict on its answer, and at the hook.
Requesting == {"surface", "admit", "prepare", "send", "weigh", "hook"}
Succeeding == {"completed", "waiting"}
Failing == {"failed", "cancelled"}

\* What an instruction interrupts is known by the instruction that waits, and
\* none waits behind the seal.
Interruption ==
  /\ root = "live" /\ fragment = "cut" => pending > 0
  /\ sealed => pending = 0

\* An interrupted step leaves its calls open for the next boundary, and there
\* only.
NothingOpen ==
  /\ pc \in Requesting => open = {}
  /\ pc = "begin" /\ open # {} => pending > 0 \/ root = "stopped"

\* What the loop has decided, by the place it is at.
Concluded ==
  /\ pc = "finish" => result.status \in Succeeding
  /\ pc \in {"ending", "done"} => result.status \in Succeeding \cup Failing
  /\ pc \in {"finish", "ending", "done"} /\ result.status = "completed" => open = {}
  /\ pc = "done" /\ result.status \in Failing => open = {}
  /\ pc \in {"ending", "done"} /\ result.status \in Succeeding =>
       (sealed /\ pending = 0) \/ result.cause = "unneeded"

EngineInv == pending \in Nat /\ Interruption /\ NothingOpen /\ Concluded

LEMMA InitEngine == Init => EngineInv
  BY DEF Init, EngineInv, Interruption, NothingOpen, Concluded, Requesting

LEMMA EngineParts == EngineInv => CallsAnswered /\ SuccessLeavesNothingPending
  BY DEF EngineInv, NothingOpen, Concluded, Requesting, Succeeding, Failing,
     CallsAnswered, SuccessLeavesNothingPending

-----------------------------------------------------------------------------
(* The shapes of a step that leaves the actor alone.                      *)

GaveUp == pc' = "ending" /\ result'.status \in Failing

\* The run fails or is cancelled, whatever is open.
LEMMA GivesUp ==
  ASSUME EngineInv, UNCHANGED actor, GaveUp
  PROVE  EngineInv'
  BY DEF EngineInv, Interruption, NothingOpen, Concluded, Requesting, Succeeding,
     Failing, actor, GaveUp

\* A stage where nothing is open leads to another one.
LEMMA GoesOn ==
  ASSUME EngineInv, UNCHANGED actor, open' = {}, pc' \in Stages \ {"finish", "ending", "done"}
  PROVE  EngineInv'
  BY DEF EngineInv, Interruption, NothingOpen, Concluded, Requesting, actor, Stages

\* An interrupted stage: the next step or the end of the run.
LEMMA Yields ==
  ASSUME EngineInv, UNCHANGED actor, Cut, Yield
  PROVE  EngineInv'
  BY DEF EngineInv, Interruption, NothingOpen, Concluded, Requesting, Succeeding,
     Failing, actor, Cut, Yield, Conclude

\* A question or the hook's consent leads to the seal.
LEMMA Decides ==
  ASSUME EngineInv, UNCHANGED actor, pc' = "finish",
         result'.status = "waiting" \/ (result'.status = "completed" /\ open' = {})
  PROVE  EngineInv'
  BY DEF EngineInv, Interruption, NothingOpen, Concluded, Requesting, Succeeding, actor

LEMMA ConcludedFailing == \A status, cause :
  status \in Failing /\ Conclude(status, cause) => GaveUp
  BY DEF Conclude, GaveUp

LEMMA RequestingClean == EngineInv /\ pc \in Requesting => open = {}
  BY DEF EngineInv, NothingOpen

-----------------------------------------------------------------------------
(* The user, and the boundary between two steps.                            *)

LEMMA UserInv == EngineInv /\ (Steer \/ Stop) => EngineInv'
<1>1. ASSUME EngineInv, Steer PROVE EngineInv'
  BY <1>1 DEF Steer, EngineInv, Interruption, NothingOpen, Concluded, Requesting, Succeeding
<1>2. ASSUME EngineInv, Stop PROVE EngineInv'
  BY <1>2 DEF Stop, EngineInv, Interruption, NothingOpen, Concluded, Requesting, Succeeding
<1>3. QED
  BY <1>1, <1>2

\* With a pending instruction the boundary closes what is open; without one,
\* and without a stop, nothing is.
LEMMA BoundaryInv == EngineInv /\ (BeginInstructed \/ Begin) => EngineInv'
<1>1. ASSUME EngineInv, BeginInstructed PROVE EngineInv'
  <2>1. CASE broken
    BY <1>1, <2>1, GivesUp, ConcludedFailing DEF BeginInstructed, actor, Failing
  <2>2. CASE ~broken
    BY <1>1, <2>2 DEF BeginInstructed, EngineInv, Interruption, NothingOpen, Concluded,
       Requesting
  <2>3. QED
    BY <2>1, <2>2
<1>2. ASSUME EngineInv, Begin PROVE EngineInv'
  <2>1. CASE root = "stopped"
    BY <1>2, <2>1, GivesUp, ConcludedFailing DEF Begin, actor, Failing, Conclude
  <2>2. CASE root # "stopped"
    BY <1>2, <2>2 DEF Begin, EngineInv, Interruption, NothingOpen, Concluded, Requesting
  <2>3. QED
    BY <2>1, <2>2
<1>3. QED
  BY <1>1, <1>2

-----------------------------------------------------------------------------
(* The stages of a step up to its answer.                                   *)

LEMMA AdmitInv == EngineInv /\ Admit => EngineInv'
<1> SUFFICES ASSUME EngineInv, Admit PROVE EngineInv'
  OBVIOUS
<1>1. pc = "admit" /\ UNCHANGED actor /\ UNCHANGED open /\ open = {}
  BY RequestingClean DEF Admit, Requesting
<1>2. CASE Conclude("failed", "interrupted")
  BY <1>1, <1>2, GivesUp, ConcludedFailing DEF Failing
\* The goal needs no continuation: nothing was asked, so nothing is open.
<1>3. CASE Conclude("completed", "unneeded")
  BY <1>1, <1>3 DEF Conclude, EngineInv, Interruption, NothingOpen, Concluded,
     Requesting, Succeeding, actor
<1>4. CASE pc' = "prepare"
  BY <1>1, <1>4, GoesOn DEF Stages
<1>5. QED
  BY <1>2, <1>3, <1>4 DEF Admit

LEMMA RequestInv == EngineInv /\ (Surface \/ Prepare \/ Send) => EngineInv'
<1> SUFFICES ASSUME EngineInv, Surface \/ Prepare \/ Send PROVE EngineInv'
  OBVIOUS
<1>1. UNCHANGED actor /\ open' = {}
  BY RequestingClean DEF Surface, Prepare, Send, Requesting
<1>2. \/ pc' \in {"admit", "send", "weigh"}
      \/ Cut /\ Yield
      \/ GaveUp
  BY ConcludedFailing DEF Surface, Prepare, Send, Failing
<1>3. CASE pc' \in {"admit", "send", "weigh"}
  BY <1>1, <1>3, GoesOn DEF Stages
<1>4. CASE Cut /\ Yield
  BY <1>1, <1>4, Yields
<1>5. CASE GaveUp
  BY <1>1, <1>5, GivesUp
<1>6. QED
  BY <1>2, <1>3, <1>4, <1>5

\* An answer that is refused, has no calls, or whose calls are not saved.
LEMMA UnsavedInv ==
  EngineInv /\ (Refuse \/ Answer \/ DropCalls \/ CallsUnresolved \/ CallsUnsaved) => EngineInv'
<1> SUFFICES ASSUME EngineInv, Refuse \/ Answer \/ DropCalls \/ CallsUnresolved \/ CallsUnsaved
             PROVE  EngineInv'
  OBVIOUS
<1>1. UNCHANGED actor /\ open' = {}
  BY RequestingClean
     DEF Refuse, Answer, DropCalls, CallsUnresolved, CallsUnsaved, Usable, Requesting
<1>2. ASSUME Answer
      PROVE  pc' \in {"begin", "hook"} \/ GaveUp
  <2>1. ASSUME NEW limit, NEW counted, NEW cause, Or(limit, counted, cause)
        PROVE  pc' = "begin" \/ GaveUp
    BY <2>1, ConcludedFailing DEF Or, Failing
  <2>2. ASSUME ContinueAnswer(Said)
        PROVE  pc' \in {"begin", "hook"} \/ GaveUp
    BY <2>1, <2>2, ConcludedFailing DEF ContinueAnswer, Failing
  <2>3. QED
    BY <1>2, <2>2, ConcludedFailing DEF Answer, Failing
<1>3. ASSUME Refuse \/ DropCalls \/ CallsUnsaved
      PROVE  pc' = "begin" \/ GaveUp
  BY <1>3, ConcludedFailing DEF Refuse, DropCalls, CallsUnsaved, Or, LoseWrite, Failing
<1>4. ASSUME CallsUnresolved
      PROVE  (Cut /\ Yield) \/ GaveUp
  BY <1>4, ConcludedFailing DEF CallsUnresolved, Failing
<1>5. CASE Cut /\ Yield
  BY <1>1, <1>5, Yields
<1>6. CASE pc' \in {"begin", "hook"}
  BY <1>1, <1>6, GoesOn DEF Stages
<1>7. CASE GaveUp
  BY <1>1, <1>7, GivesUp
<1>8. QED
  BY <1>2, <1>3, <1>4, <1>5, <1>6, <1>7

-----------------------------------------------------------------------------
(* The stages with saved calls.                                             *)

LEMMA SaveCallsInv == EngineInv /\ SaveCalls => EngineInv'
<1> SUFFICES ASSUME EngineInv, SaveCalls PROVE EngineInv'
  OBVIOUS
<1> DEFINE signal == ~Ordinary /\ Verdict.invalid \cup Verdict.rejected = {}
           waits == Indices(reply, Questions) # {}
<1>1. UNCHANGED actor /\ open' = IF signal /\ ~waits THEN {} ELSE Indices(reply, Calls)
  BY DEF SaveCalls
<1>2. \/ Conclude("failed", "control")
      \/ signal /\ waits /\ pc' = "finish" /\ result'.status = "waiting"
      \/ signal /\ ~waits /\ pc' = "begin"
      \/ pc' \in {"tools", "feedback"}
  BY DEF SaveCalls
<1>3. CASE Conclude("failed", "control")
  BY <1>1, <1>3, GivesUp, ConcludedFailing DEF Failing
<1>4. CASE pc' = "finish" /\ result'.status = "waiting"
  BY <1>1, <1>4, Decides
<1>5. CASE signal /\ ~waits /\ pc' = "begin"
  BY <1>1, <1>5, GoesOn DEF Stages
\* Open calls are about to be executed or answered.
<1>6. CASE pc' \in {"tools", "feedback"}
  BY <1>1, <1>6 DEF EngineInv, Interruption, NothingOpen, Concluded, Requesting, actor
<1>7. QED
  BY <1>2, <1>3, <1>4, <1>5, <1>6

LEMMA FeedbackInv == EngineInv /\ Feedback => EngineInv'
<1> SUFFICES ASSUME EngineInv, Feedback PROVE EngineInv'
  OBVIOUS
<1>1. UNCHANGED actor
  BY DEF Feedback
<1>2. \/ GaveUp
      \/ open' = {} /\ pc' = "begin"
  BY ConcludedFailing DEF Feedback, LoseWrite, Failing
<1>3. QED
  BY <1>1, <1>2, GivesUp, GoesOn DEF Stages

LEMMA BatchInv == EngineInv /\ (FinishBatch \/ InterruptBatch \/ FailBatch) => EngineInv'
<1>1. ASSUME EngineInv, FinishBatch PROVE EngineInv'
  <2>1. /\ UNCHANGED actor /\ open' = {}
        /\ \/ GaveUp
           \/ pc' = "finish" /\ result'.status = "waiting"
           \/ pc' = "begin"
    BY <1>1, ConcludedFailing DEF FinishBatch, Failing
  <2>2. QED
    BY <1>1, <2>1, GivesUp, Decides, GoesOn DEF Stages
<1>2. ASSUME EngineInv, InterruptBatch PROVE EngineInv'
  <2>1. /\ UNCHANGED actor
        /\ (Cut /\ Yield) \/ GaveUp
    BY <1>2, ConcludedFailing DEF InterruptBatch, Failing
  <2>2. QED
    BY <1>2, <2>1, GivesUp, Yields
<1>3. ASSUME EngineInv, FailBatch PROVE EngineInv'
  BY <1>3, GivesUp, ConcludedFailing DEF FailBatch, Failing
<1>4. QED
  BY <1>1, <1>2, <1>3

-----------------------------------------------------------------------------
(* The end of the run.                                                      *)

LEMMA HookInv == EngineInv /\ Hook => EngineInv'
<1> SUFFICES ASSUME EngineInv, Hook PROVE EngineInv'
  OBVIOUS
<1>1. UNCHANGED actor /\ open' = {}
  BY RequestingClean DEF Hook, Requesting
<1>2. \/ pc' = "finish" /\ result'.status = "completed"
      \/ GaveUp
      \/ Cut /\ Yield
      \/ pc' = "begin"
  BY ConcludedFailing DEF Hook, LoseWrite, Failing
<1>3. QED
  BY <1>1, <1>2, Decides, GivesUp, Yields, GoesOn DEF Stages

\* The seal: not over a pending instruction.
LEMMA FinishInv == EngineInv /\ Finish => EngineInv'
<1> SUFFICES ASSUME EngineInv, Finish PROVE EngineInv'
  OBVIOUS
<1>1. CASE root = "stopped"
  BY <1>1, GivesUp, ConcludedFailing DEF Finish, actor, Failing
<1>2. CASE root # "stopped" /\ pending > 0
  BY <1>2 DEF Finish, EngineInv, Interruption, NothingOpen, Concluded, Requesting, NoResult
<1>3. CASE root # "stopped" /\ ~(pending > 0)
  BY <1>3 DEF Finish, EngineInv, Interruption, NothingOpen, Concluded, Requesting, Succeeding
<1>4. QED
  BY <1>1, <1>2, <1>3

\* The harness keeps the verdict of the loop or makes it worse, and closes the
\* calls of a turn that did not succeed.
LEMMA EndInv == EngineInv /\ End => EngineInv'
<1> SUFFICES ASSUME EngineInv, End PROVE EngineInv'
  OBVIOUS
<1>1. /\ pc = "ending" /\ pc' = "done" /\ UNCHANGED actor
      /\ open' = IF result'.status \in Failing THEN {} ELSE open
  BY DEF End, Failing
<1>2. result' = result \/ result'.status \in Failing
  BY DEF End, Failing
<1>3. CASE result' = result
  BY <1>1, <1>3 DEF EngineInv, Interruption, NothingOpen, Concluded, Requesting, Succeeding,
     Failing, actor
<1>4. CASE result'.status \in Failing
  BY <1>1, <1>4 DEF EngineInv, Interruption, NothingOpen, Concluded, Requesting, Succeeding,
     Failing, actor
<1>5. QED
  BY <1>2, <1>3, <1>4

LEMMA StepEngine == EngineInv /\ [Next]_vars => EngineInv'
<1>1. EngineInv /\ UNCHANGED vars => EngineInv'
  BY DEF vars, actor, EngineInv, Interruption, NothingOpen, Concluded, Requesting, Succeeding
<1>2. QED
  BY <1>1, UserInv, BoundaryInv, AdmitInv, RequestInv, UnsavedInv, SaveCallsInv, FeedbackInv,
     BatchInv, HookInv, FinishInv, EndInv DEF Next, Loop

LEMMA EngineHolds == EngineSpec => []EngineInv
  BY InitEngine, StepEngine, PTL DEF EngineSpec

\* Whatever the model answers and whenever an instruction or a stop arrives, no
\* request goes out over an unanswered call and no turn ends over one, except a
\* turn that waits for its user.
THEOREM EngineAnswersCalls == EngineSpec => []CallsAnswered
  BY EngineHolds, EngineParts, PTL

\* No instruction accepted by the actor is lost by a turn that succeeds.
THEOREM EngineKeepsInstructions == EngineSpec => []SuccessLeavesNothingPending
  BY EngineHolds, EngineParts, PTL

-----------------------------------------------------------------------------
(* One logical request: the policy.                                         *)

LEMMA PolicyNumbers ==
  /\ MaxRetries \in Nat /\ MaxTimeoutRetries \in Nat
  /\ Never \in Nat /\ RecoveryWindow \in Nat /\ Disabled \in BOOLEAN
  /\ ServerWaits \subseteq Nat /\ ParentDeadlines \subseteq 1..Never
  BY PolicyAssumption

-----------------------------------------------------------------------------
(* Failures.                                                                *)

LEMMA FailureFields ==
  \A f \in Failure : /\ f # Ok /\ f # NoError /\ f.cause # "ok"
                     /\ f.category \in Categories /\ f.notBefore \in Nat
  BY DEF Failure, Ok, NoError, Categories

LEMMA FailsTyped ==
  \A cause \in {"timeout", "context", "storage", "contract", "provider"},
     category \in Categories, context \in BOOLEAN :
    /\ Fails(cause, category, context) \in Failure
    /\ Fails(cause, category, context).cause = cause
  BY DEF Fails, Failure

LEMMA AdvisedTyped ==
  \A category \in Categories, forbidden \in BOOLEAN, t \in Nat :
    /\ Advised(category, forbidden, t) \in Failure
    /\ Advised(category, forbidden, t).cause = "provider"
  BY DEF Advised, Failure

LEMMA ProviderFailuresTyped ==
  ASSUME now \in Nat
  PROVE  \A f \in ProviderFailures : f \in Failure /\ f.cause = "provider"
<1>1. \A w \in ServerWaits : now + w \in Nat
  BY PolicyNumbers
<1> DEFINE Times == {0} \cup {now + w : w \in ServerWaits}
<1>2. Times \subseteq Nat
  BY <1>1
<1>3. {"permanent", "retryable", "timeout"} \subseteq Categories
  BY DEF Categories
<1> HIDE DEF Times
<1>4. \A category \in {"retryable", "timeout"}, t \in Times :
        /\ Advised(category, FALSE, t) \in Failure
        /\ Advised(category, FALSE, t).cause = "provider"
  BY <1>2, <1>3, AdvisedTyped
<1>5. \A f \in {Advised("permanent", FALSE, 0), Advised("retryable", TRUE, 0)} :
        f \in Failure /\ f.cause = "provider"
  BY <1>3, AdvisedTyped
<1>6. ProviderFailures =
        {Advised("permanent", FALSE, 0), Advised("retryable", TRUE, 0)}
          \cup {Advised("retryable", FALSE, t) : t \in Times}
          \cup {Advised("timeout", FALSE, t) : t \in Times}
  BY DEF ProviderFailures, Times
<1>7. QED
  BY <1>4, <1>5, <1>6

-----------------------------------------------------------------------------
(* The loop: what it counts and what it has behind it.                      *)

TimedOutFailure(f) == f \in Failure /\ f.category = "timeout"

\* Failures after which the policy goes on.
Mendable(f) == f \in Failure /\ ~Disabled /\ f.category # "permanent" /\ ~f.forbidden

Between == stage = "check" \/ Attempting

LoopTyped ==
  /\ now \in Nat /\ n \in 0..MaxRetries /\ timeoutRetries \in 0..MaxTimeoutRetries
  /\ window \in Nat /\ resumeAt \in Nat /\ parentDeadline \in ParentDeadlines

\* The history of failures against the counts of the loop.
Counted ==
  /\ Between \/ stage = "waiting" => timedOut = timeoutRetries
  /\ stage = "waiting" => n < MaxRetries
  /\ stage = "decide" =>
       timedOut = IF TimedOutFailure(last) THEN timeoutRetries + 1 ELSE timeoutRetries
  /\ timedOut \in timeoutRetries..timeoutRetries + 1

\* Every attempt but the first follows a failure that can be mended, after the
\* time the server asked for.
Founded ==
  /\ Between /\ n > 0 => Mendable(last) /\ now >= last.notBefore
  /\ Between /\ n = 0 => last = NoError
  /\ stage = "check" /\ n = 0 => now = 0 /\ window = Never
  /\ stage = "waiting" => Mendable(last) /\ resumeAt >= last.notBefore
  /\ stage = "decide" => last \in Failure \cup {Ok}
  /\ last \in Failure \cup {NoError, Ok}
  /\ previous \in Failure \cup {NoError}

LoopInv == LoopTyped /\ Counted /\ Founded

LEMMA InitLoop == RetryInit => LoopInv
  BY PolicyNumbers DEF RetryInit, LoopInv, LoopTyped, Counted, Founded, Between, Attempting

LEMMA LoopParts == LoopInv => ReplayPermitted
<1> SUFFICES ASSUME LoopInv, Attempting, n > 0
             PROVE  /\ ~Disabled /\ n <= MaxRetries
                    /\ last \in Failure /\ last.category # "permanent" /\ ~last.forbidden
                    /\ timedOut <= MaxTimeoutRetries
                    /\ now >= last.notBefore
  BY DEF ReplayPermitted
<1>1. timedOut <= MaxTimeoutRetries /\ n <= MaxRetries
  BY PolicyNumbers DEF LoopInv, LoopTyped, Counted, Between
<1>2. Mendable(last) /\ now >= last.notBefore
  BY DEF LoopInv, Founded, Between
<1>3. QED
  BY <1>1, <1>2 DEF Mendable

\* A step within an attempt, or of the clock: the counts and errors stay.
Carries ==
  /\ UNCHANGED <<loop, parentDeadline, errors>>
  /\ now' \in Nat /\ now' >= now
  /\ \/ stage' = stage /\ (stage = "check" => now' = now)
     \/ Between /\ stage' \in {"prepare", "record", "stream", "observe", "closing", "returned"}

LEMMA CarriesInv == LoopInv /\ Carries => LoopInv'
<1> SUFFICES ASSUME LoopInv, Carries PROVE LoopInv'
  OBVIOUS
<1>1. LoopTyped' /\ UNCHANGED <<n, timeoutRetries, window, resumeAt, last, previous, timedOut>>
  BY DEF LoopInv, LoopTyped, Carries, loop, errors
<1>2. Between' => Between
  BY DEF Carries, Between, Attempting
<1>3. /\ stage' = "check" => stage = "check" /\ now' = now
      /\ stage' = "waiting" => stage = "waiting"
      /\ stage' = "decide" => stage = "decide"
      /\ stage' = "done" <=> stage = "done"
  BY DEF Carries, Between, Attempting
<1>4. Counted'
  BY <1>1, <1>2, <1>3 DEF LoopInv, Counted, TimedOutFailure
<1>5. ASSUME Mendable(last)
      PROVE  /\ Mendable(last)'
             /\ now >= last.notBefore => (now >= last.notBefore)'
  <2>1. last.notBefore \in Nat /\ now \in Nat /\ now' \in Nat /\ now' >= now
    BY <1>5, FailureFields DEF LoopInv, LoopTyped, Carries, Mendable
  <2>2. QED
    BY <1>1, <1>5, <2>1 DEF Mendable
<1>6. Founded'
  BY <1>1, <1>2, <1>3, <1>5 DEF LoopInv, Founded
<1>7. QED
  BY <1>1, <1>4, <1>6 DEF LoopInv

\* An attempt comes back with an error or a response.
Answered(answer) == Attempting /\ answer \in Failure \cup {Ok} /\ Returns(answer)
                    /\ UNCHANGED <<now, loop, parentDeadline>>

LEMMA AnsweredInv == ASSUME LoopInv, NEW answer, Answered(answer) PROVE LoopInv'
<1>1. /\ stage' = "decide" /\ last' = answer /\ previous' = last
      /\ timedOut' = IF answer # Ok /\ answer.category = "timeout" THEN timedOut + 1
                     ELSE timedOut
      /\ UNCHANGED <<now, n, timeoutRetries, window, resumeAt, parentDeadline>>
  BY DEF Answered, Returns, Goto, loop
<1>2. Between /\ ~Between' /\ answer \in Failure \cup {Ok}
  BY <1>1 DEF Answered, Between, Attempting
<1>3. LoopTyped'
  BY <1>1 DEF LoopInv, LoopTyped
<1>4. TimedOutFailure(answer) <=> answer # Ok /\ answer.category = "timeout"
  BY <1>2, FailureFields DEF TimedOutFailure
<1>5. timedOut = timeoutRetries /\ timeoutRetries \in Nat
  BY <1>2 DEF LoopInv, Counted, LoopTyped
<1>6. Counted'
  BY <1>1, <1>2, <1>4, <1>5 DEF Counted, TimedOutFailure
<1>7. last \in Failure \cup {NoError}
  BY <1>2 DEF LoopInv, Founded, LoopTyped, Mendable
<1>8. Founded'
  BY <1>1, <1>2, <1>7 DEF Founded
<1>9. QED
  BY <1>3, <1>6, <1>8 DEF LoopInv

\* The loop is over.
LEMMA EndedInv ==
  ASSUME LoopInv, stage' = "done",
         UNCHANGED <<now, n, timeoutRetries, window, resumeAt, parentDeadline, errors>>
  PROVE  LoopInv'
  BY DEF LoopInv, LoopTyped, Counted, Founded, Between, Attempting, errors

-----------------------------------------------------------------------------
(* The clock: who decided the end of a stream.                              *)

Clock == [started : Nat, progress : Nat, seen : SUBSET (Keys \cup HostedCalls),
          hosted : SUBSET HostedCalls, terminal : BOOLEAN, timedOut : BOOLEAN]

\* An attempt never both has its last event and is timed out, and a stream is
\* given up only for its last event or a context that is done.
Clocked ==
  /\ ~(attempt.terminal /\ attempt.timedOut)
  /\ stage = "closing" => attempt.terminal \/ AttemptDone
  /\ stage = "returned" => \/ raw = Ok /\ (attempt.terminal \/ AttemptDone)
                           \/ raw = ByContext /\ AttemptDone
  /\ stage = "observe" => taken \in Events

ClockInv ==
  /\ attempt \in Clock /\ ended \subseteq {"parent", "window"}
  /\ Clocked /\ TerminalDecides

LEMMA InitClock == RetryInit => ClockInv
  BY PolicyNumbers DEF RetryInit, ClockInv, Clock, Clocked, TerminalDecides, Started

\* The context of an attempt that is done stays done, and what the timer may
\* still do is bounded by the last event.
LEMMA EventFields ==
  \A ev \in Events :
    /\ ev[1] \in {"call", "hosted"} => ev[2] \in Keys \cup HostedCalls
    /\ ev[1] \in {"hosted", "result"} => ev[2] \in HostedCalls
  BY DEF Events

LEMMA ObservedTyped ==
  ASSUME LoopTyped, attempt \in Clock, NEW ev \in Events
  PROVE  /\ Observed(ev) \in Clock
         /\ Observed(ev).terminal = (ev[1] \in {"done", "error"})
         /\ Observed(ev).timedOut = attempt.timedOut
<1>1. now \in Nat
  BY DEF LoopTyped
<1>2. /\ ev[1] \in {"call", "hosted"} => ev[2] \in Keys \cup HostedCalls
      /\ ev[1] \in {"hosted", "result"} => ev[2] \in HostedCalls
  BY EventFields
<1> DEFINE seen == IF ev[1] \in {"call", "hosted"} THEN attempt.seen \cup {ev[2]}
                   ELSE attempt.seen
           hosted == IF ev[1] = "hosted" /\ ev[2] \notin attempt.seen
                     THEN attempt.hosted \cup {ev[2]}
                     ELSE IF ev[1] = "result" THEN attempt.hosted \ {ev[2]}
                     ELSE attempt.hosted
           progress == IF Meaningful(ev) THEN now ELSE attempt.progress
           terminal == ev[1] \in {"done", "error"}
<1>3. seen \in SUBSET (Keys \cup HostedCalls) /\ hosted \in SUBSET HostedCalls
  BY <1>2 DEF Clock
<1>4. progress \in Nat /\ terminal \in BOOLEAN
  BY <1>1 DEF Clock
<1>5. Observed(ev) = [attempt EXCEPT !.terminal = terminal, !.progress = progress,
                                     !.seen = seen, !.hosted = hosted]
  BY DEF Observed
<1> HIDE DEF seen, hosted, progress, terminal
<1>6. /\ Observed(ev) \in Clock
      /\ Observed(ev).terminal = terminal
      /\ Observed(ev).timedOut = attempt.timedOut
  BY <1>3, <1>4, <1>5 DEF Clock
<1>7. QED
  BY <1>6 DEF terminal

RetryInv == LoopInv /\ ClockInv

\* Away from the end of a stream the clock's invariant asks little.
LEMMA QuietClock ==
  ASSUME ClockInv, stage' \notin {"closing", "returned", "observe", "decide"},
         attempt' \in Clock, ~(attempt'.terminal /\ attempt'.timedOut),
         ended' \subseteq {"parent", "window"}
  PROVE  ClockInv'
  BY DEF ClockInv, Clocked, TerminalDecides

\* A failure that the clock has no part in.
LEMMA FailedClock ==
  ASSUME ClockInv, stage' = "decide", UNCHANGED <<attempt, ended>>,
         last' # Ok, last'.cause # "timeout"
  PROVE  ClockInv'
  BY DEF ClockInv, Clocked, TerminalDecides

LEMMA StartedClock ==
  ASSUME NEW t \in Nat
  PROVE  Started(t) \in Clock /\ ~Started(t).terminal /\ ~Started(t).timedOut
  BY PolicyNumbers DEF Started, Clock

\* A failure of storage, of the contract or of the provider.
Plain(answer) ==
  answer \in Failure /\ answer.cause \in {"storage", "contract", "provider"}

LEMMA PlainFails ==
  /\ Plain(Fails("contract", "permanent", TRUE)) /\ Plain(Fails("contract", "permanent", FALSE))
  /\ Plain(Fails("storage", "permanent", TRUE)) /\ Plain(Fails("storage", "permanent", FALSE))
  /\ Plain(Fails("provider", "permanent", FALSE))
  /\ now \in Nat => \A f \in ProviderFailures : Plain(f)
  BY FailsTyped, ProviderFailuresTyped DEF Plain, Categories

LEMMA PlainInv ==
  ASSUME RetryInv, Attempting, NEW answer, Plain(answer), Returns(answer),
         UNCHANGED <<now, loop, parentDeadline, attempt, ended>>
  PROVE  RetryInv'
<1>1. LoopInv'
  BY AnsweredInv DEF RetryInv, Answered, Plain
<1>2. stage' = "decide" /\ last' = answer
  BY DEF Returns, Goto
<1>3. ClockInv'
  BY <1>2, FailedClock, FailureFields DEF RetryInv, Plain
<1>4. QED
  BY <1>1, <1>3 DEF RetryInv

-----------------------------------------------------------------------------
(* The loop up to the request.                                              *)

LEMMA CheckInv == RetryInv /\ Check => RetryInv'
<1> SUFFICES ASSUME RetryInv, Check PROVE RetryInv'
  OBVIOUS
<1>1. stage = "check" /\ stage' \in {"done", "record", "prepare"}
      /\ UNCHANGED <<now, loop, parentDeadline, ended, attempt, errors>>
  BY DEF Check, EndRequest, Goto, contexts
<1>2. CASE stage' = "done"
  <2>1. LoopInv'
    BY <1>1, <1>2, EndedInv DEF RetryInv, loop
  <2>2. ClockInv'
    BY <1>1, <1>2, QuietClock DEF RetryInv, ClockInv, Clocked
  <2>3. QED
    BY <2>1, <2>2 DEF RetryInv
<1>3. CASE stage' \in {"record", "prepare"}
  <2>1. LoopInv'
    BY <1>1, <1>3, CarriesInv DEF RetryInv, Carries, Between, LoopInv, LoopTyped
  <2>2. ClockInv'
    BY <1>1, <1>3, QuietClock DEF RetryInv, ClockInv, Clocked
  <2>3. QED
    BY <2>1, <2>2 DEF RetryInv
<1>4. QED
  BY <1>1, <1>2, <1>3

LEMMA PrepareInv == RetryInv /\ PrepareAttempt => RetryInv'
<1> SUFFICES ASSUME RetryInv, PrepareAttempt PROVE RetryInv'
  OBVIOUS
<1>1. Attempting /\ UNCHANGED <<now, loop, parentDeadline, ended, attempt>>
  BY DEF PrepareAttempt, Attempting, contexts
<1>2. CASE stage' = "record" /\ UNCHANGED errors
  <2>1. LoopInv'
    BY <1>1, <1>2, CarriesInv DEF RetryInv, Carries, Between, LoopInv, LoopTyped
  <2>2. ClockInv'
    BY <1>1, <1>2, QuietClock DEF RetryInv, ClockInv, Clocked
  <2>3. QED
    BY <2>1, <2>2 DEF RetryInv
<1>3. CASE \E context \in BOOLEAN : Returns(Fails("contract", "permanent", context))
  BY <1>1, <1>3, PlainFails, PlainInv
<1>4. QED
  BY <1>2, <1>3 DEF PrepareAttempt, Goto

LEMMA RecordInv == RetryInv /\ Record => RetryInv'
<1> SUFFICES ASSUME RetryInv, Record PROVE RetryInv'
  OBVIOUS
<1>1. Attempting /\ UNCHANGED <<now, loop, parentDeadline, ended>>
  BY DEF Record, Attempting, contexts
<1>2. CASE stage' = "stream" /\ UNCHANGED errors /\ attempt' = Started(now)
  <2>1. LoopInv'
    BY <1>1, <1>2, CarriesInv DEF RetryInv, Carries, Between, LoopInv, LoopTyped
  <2>2. ClockInv'
    BY <1>1, <1>2, QuietClock, StartedClock DEF RetryInv, ClockInv, Clocked, LoopInv, LoopTyped
  <2>3. QED
    BY <2>1, <2>2 DEF RetryInv
<1>3. CASE UNCHANGED attempt /\ \E context \in BOOLEAN : Returns(Fails("storage", "permanent", context))
  BY <1>1, <1>3, PlainFails, PlainInv
<1>4. QED
  BY <1>2, <1>3 DEF Record, Goto

-----------------------------------------------------------------------------
(* The stream.                                                              *)

LEMMA TransportFailsInv == RetryInv /\ TransportFails => RetryInv'
<1> SUFFICES ASSUME RetryInv, TransportFails PROVE RetryInv'
  OBVIOUS
<1>1. Attempting /\ UNCHANGED <<now, loop, parentDeadline, ended, attempt>> /\ now \in Nat
  BY DEF TransportFails, Attempting, contexts, RetryInv, LoopInv, LoopTyped
<1>2. PICK f \in ProviderFailures : Fail(f)
  BY DEF TransportFails
<1>3. QED
  BY <1>1, <1>2, PlainFails, PlainInv DEF Fail

\* An event is taken, or the consumer gives up because the context is done.
LEMMA ConsumerInv == RetryInv /\ (StreamCancelled \/ TakeEvent) => RetryInv'
<1> SUFFICES ASSUME RetryInv, StreamCancelled \/ TakeEvent PROVE RetryInv'
  OBVIOUS
<1>1. /\ Attempting /\ UNCHANGED <<now, loop, parentDeadline, ended, attempt, errors>>
      /\ \/ stage' = "returned" /\ raw' = ByContext /\ AttemptDone
         \/ stage' = "observe" /\ taken' \in Events
  BY DEF StreamCancelled, TakeEvent, Consumed, Goto, Attempting, contexts
<1>2. LoopInv'
  BY <1>1, CarriesInv DEF RetryInv, Carries, Between, LoopInv, LoopTyped
<1>3. ClockInv'
  BY <1>1 DEF RetryInv, ClockInv, Clocked, TerminalDecides, AttemptDone, LoopDone
<1>4. QED
  BY <1>2, <1>3 DEF RetryInv

LEMMA ObserveInv == RetryInv /\ Observe => RetryInv'
<1> SUFFICES ASSUME RetryInv, Observe PROVE RetryInv'
  OBVIOUS
<1>1. /\ Attempting /\ UNCHANGED <<now, loop, parentDeadline, ended>> /\ taken \in Events
      /\ LoopTyped /\ now \in Nat /\ attempt \in Clock
  BY DEF Observe, Attempting, contexts, RetryInv, LoopInv, LoopTyped, ClockInv, Clocked
<1> DEFINE expired == [attempt EXCEPT !.timedOut = TRUE]
<1>2. expired \in Clock /\ expired.timedOut /\ expired.terminal = attempt.terminal
  BY <1>1 DEF Clock
<1>3. \/ Accepts /\ attempt' = Observed(taken)
      \/ ~attempt.terminal /\ attempt' = expired
      \/ (attempt.terminal \/ AttemptDone) /\ attempt' = attempt
  BY DEF Observe
<1> HIDE DEF expired
\* Whatever the clock says: an accepted last event is final, and any other event
\* that closes the stream meets a context that is done.
<1>4. /\ attempt' \in Clock /\ ~(attempt'.terminal /\ attempt'.timedOut)
      /\ taken[1] = "done" => attempt'.terminal \/ attempt'.timedOut \/ LoopDone
  BY <1>1, <1>2, <1>3, ObservedTyped DEF Accepts, AttemptDone, RetryInv, ClockInv, Clocked
<1>5. CASE taken[1] = "error"
  <2>1. PICK f \in ProviderFailures : Fail(f)
    BY <1>5 DEF Observe
  <2>2. \E answer : Plain(answer) /\ Returns(answer)
    BY <1>1, <2>1, PlainFails DEF Fail
  <2>3. PICK answer : Plain(answer) /\ Returns(answer)
    BY <2>2
  <2>4. LoopInv'
    BY <1>1, <2>3, AnsweredInv DEF RetryInv, Answered, Plain
  <2>5. stage' = "decide" /\ last' # Ok /\ last'.cause # "timeout"
    BY <2>3, FailureFields DEF Returns, Goto, Plain
  <2>6. ClockInv'
    BY <1>1, <1>4, <2>5 DEF RetryInv, ClockInv, Clocked, TerminalDecides
  <2>7. QED
    BY <2>4, <2>6 DEF RetryInv
<1>6. CASE taken[1] # "error"
  <2>1. /\ UNCHANGED errors
        /\ stage' = IF taken[1] = "done" THEN "closing" ELSE "stream"
    BY <1>6 DEF Observe, Goto
  <2>2. LoopInv'
    BY <1>1, <2>1, CarriesInv DEF RetryInv, Carries, Between, LoopInv
  <2>3. ClockInv'
    BY <1>1, <1>4, <2>1 DEF RetryInv, ClockInv, Clocked, TerminalDecides, AttemptDone, LoopDone
  <2>4. QED
    BY <2>2, <2>3 DEF RetryInv
<1>7. QED
  BY <1>5, <1>6

LEMMA CloseStreamInv == RetryInv /\ CloseStream => RetryInv'
<1> SUFFICES ASSUME RetryInv, CloseStream PROVE RetryInv'
  OBVIOUS
<1>1. stage = "closing" /\ Attempting /\ UNCHANGED <<now, loop, parentDeadline, ended, attempt>>
  BY DEF CloseStream, Attempting, contexts
<1>2. CASE Fail(Fails("provider", "permanent", FALSE))
  BY <1>1, <1>2, PlainFails, PlainInv DEF Fail
<1>3. CASE /\ stage' = "returned" /\ UNCHANGED errors
           /\ raw' = Ok \/ (raw' = ByContext /\ AttemptDone)
  <2>1. LoopInv'
    BY <1>1, <1>3, CarriesInv DEF RetryInv, Carries, Between, LoopInv, LoopTyped
  <2>2. ClockInv'
    BY <1>1, <1>3 DEF RetryInv, ClockInv, Clocked, TerminalDecides, AttemptDone, LoopDone
  <2>3. QED
    BY <2>1, <2>2 DEF RetryInv
<1>4. QED
  BY <1>2, <1>3 DEF CloseStream, Consumed, Goto

\* The attempt's error tells the cancellations apart: a response is one only
\* when no context is done, a timeout only without the last event.
LEMMA AttributedCases ==
  ASSUME RetryInv, stage = "returned"
  PROVE  \/ Attributed = Ok /\ attempt.terminal
         \/ Attributed \in Failure /\ Attributed.cause = "context"
         \/ Attributed \in Failure /\ Attributed.cause = "timeout" /\ ~attempt.terminal
<1>1. CASE LoopDone
  BY <1>1, FailsTyped DEF Attributed, Categories
<1>2. CASE ~LoopDone /\ attempt.timedOut
  BY <1>2, FailsTyped DEF Attributed, Categories, RetryInv, ClockInv, Clocked
<1>3. CASE ~LoopDone /\ ~attempt.timedOut
  BY <1>3 DEF Attributed, AttemptDone, RetryInv, ClockInv, Clocked
<1>4. QED
  BY <1>1, <1>2, <1>3

LEMMA ReturnInv == RetryInv /\ Return => RetryInv'
<1> SUFFICES ASSUME RetryInv, Return PROVE RetryInv'
  OBVIOUS
<1>1. stage = "returned" /\ Attempting /\ UNCHANGED <<now, loop, parentDeadline, ended, attempt>>
  BY DEF Return, Attempting, contexts
<1>2. CASE Returns(Fails("storage", "permanent", FALSE))
  BY <1>1, <1>2, PlainFails, PlainInv
<1>3. CASE Returns(Attributed)
  <2>1. Attributed \in Failure \cup {Ok}
    BY <1>1, AttributedCases
  <2>2. LoopInv'
    BY <1>1, <1>3, <2>1, AnsweredInv DEF RetryInv, Answered
  <2>3. stage' = "decide" /\ last' = Attributed
    BY <1>3 DEF Returns, Goto
  <2>4. Ok.cause # "timeout"
    BY DEF Ok
  <2>5. /\ Attributed = Ok => attempt.terminal
        /\ Attributed.cause = "timeout" => ~attempt.terminal
    BY <1>1, <2>4, AttributedCases, FailureFields
  <2>6. ClockInv'
    BY <1>1, <2>3, <2>5 DEF RetryInv, ClockInv, Clocked, TerminalDecides
  <2>7. QED
    BY <2>2, <2>6 DEF RetryInv
<1>4. QED
  BY <1>2, <1>3 DEF Return, Fail

-----------------------------------------------------------------------------
(* The decision to try again, and the wait.                                 *)

\* What is left when the policy does not give up: a failure that can be mended,
\* and room in both counts.
LEMMA NotGiven ==
  ASSUME RetryInv, stage = "decide", ~Succeeds, ~Gives(last)
  PROVE  /\ Mendable(last) /\ n < MaxRetries
         /\ TimedOutFailure(last) <=> last.category = "timeout"
         /\ TimedOutFailure(last) => timeoutRetries < MaxTimeoutRetries
<1>1. last \in Failure
  BY DEF RetryInv, LoopInv, Founded, Succeeds
<1>2. /\ ~Disabled /\ ~last.forbidden /\ last.category # "permanent"
      /\ ~(n >= MaxRetries)
      /\ last.category = "timeout" => ~(timeoutRetries >= MaxTimeoutRetries)
  BY DEF Gives
<1>3. n \in Nat /\ timeoutRetries \in Nat
  BY PolicyNumbers DEF RetryInv, LoopInv, LoopTyped
<1>4. QED
  BY <1>1, <1>2, <1>3, PolicyNumbers DEF Mendable, TimedOutFailure

\* The next attempt is not planned before the server's deadline.
LEMMA ScheduleWaits ==
  ASSUME RetryInv, last \in Failure, NEW d \in Jittered, Schedule(d)
  PROVE  /\ resumeAt' \in Nat
         /\ \/ stage' = "done"
            \/ stage' = "waiting" /\ resumeAt' >= last.notBefore
<1>1. now \in Nat /\ resumeAt \in Nat /\ last.notBefore \in Nat
  BY FailureFields DEF RetryInv, LoopInv, LoopTyped
<1>2. d \in Nat
  BY DEF Jittered
<1> DEFINE next == IF last.notBefore > now + d THEN last.notBefore ELSE now + d
<1>3. next \in Nat /\ next >= last.notBefore
  BY <1>1, <1>2
<1>4. \/ stage' = "done" /\ UNCHANGED resumeAt
      \/ stage' = "waiting" /\ resumeAt' = next
  BY DEF Schedule, EndRequest, Goto
<1>5. QED
  BY <1>1, <1>3, <1>4

LEMMA DecideInv == RetryInv /\ Decide => RetryInv'
<1> SUFFICES ASSUME RetryInv, Decide PROVE RetryInv'
  OBVIOUS
<1>1. /\ stage = "decide" /\ UNCHANGED <<now, parentDeadline, ended, errors>>
      /\ attempt' = Started(0)
  BY DEF Decide, contexts
<1>2. ASSUME stage' \in {"done", "waiting"} PROVE ClockInv'
  BY <1>1, <1>2, QuietClock, StartedClock DEF RetryInv, ClockInv
<1>3. CASE Succeeds \/ LoopDone \/ Gives(last)
  <2>1. stage' = "done" /\ UNCHANGED loop
    BY <1>3 DEF Decide, EndRequest, Goto
  <2>2. LoopInv'
    BY <1>1, <2>1, EndedInv DEF RetryInv, loop
  <2>3. QED
    BY <1>2, <2>1, <2>2 DEF RetryInv
<1>4. CASE ~Succeeds /\ ~LoopDone /\ ~Gives(last)
  <2>1. PICK d \in Jittered : Schedule(d)
    BY <1>4 DEF Decide
  <2>2. /\ timeoutRetries' = IF last.category = "timeout" THEN timeoutRetries + 1
                             ELSE timeoutRetries
        /\ window' = Window /\ n' = n
    BY <1>4 DEF Decide
  <2>3. Mendable(last) /\ last \in Failure /\ n < MaxRetries
    BY <1>1, <1>4, NotGiven DEF Mendable
  <2>4. timeoutRetries' \in 0..MaxTimeoutRetries /\ timedOut = timeoutRetries'
    BY <1>1, <1>4, <2>2, NotGiven, PolicyNumbers DEF RetryInv, LoopInv, LoopTyped, Counted
  <2>5. window' \in Nat
    BY <2>2, PolicyNumbers DEF Window, RetryInv, LoopInv, LoopTyped
  <2>6. resumeAt' \in Nat /\ (stage' = "done" \/ (stage' = "waiting" /\ resumeAt' >= last.notBefore))
    BY <2>1, <2>3, ScheduleWaits
  <2>7. LoopTyped'
    BY <1>1, <2>2, <2>4, <2>5, <2>6 DEF RetryInv, LoopInv, LoopTyped
  <2>8. Counted'
    BY <1>1, <2>2, <2>3, <2>4, <2>6, PolicyNumbers DEF Counted, Between, Attempting, errors
  <2>9. Founded'
    BY <1>1, <2>3, <2>6 DEF RetryInv, LoopInv, Founded, Between, Attempting, errors, Mendable
  <2>10. QED
    BY <1>2, <2>6, <2>7, <2>8, <2>9 DEF RetryInv, LoopInv
<1>5. QED
  BY <1>3, <1>4

LEMMA WakeInv == RetryInv /\ Wake => RetryInv'
<1> SUFFICES ASSUME RetryInv, Wake PROVE RetryInv'
  OBVIOUS
<1>1. /\ stage = "waiting"
      /\ UNCHANGED <<now, timeoutRetries, window, resumeAt, parentDeadline, ended, attempt, errors>>
  BY DEF Wake, contexts
<1>2. ASSUME stage' \in {"done", "check"} PROVE ClockInv'
  BY <1>1, <1>2, QuietClock DEF RetryInv, ClockInv, Clocked
<1>3. CASE stage' = "done" /\ UNCHANGED n
  BY <1>1, <1>2, <1>3, EndedInv DEF RetryInv
<1>4. CASE now >= resumeAt /\ n' = n + 1 /\ stage' = "check"
  <2>1. /\ Mendable(last) /\ last.notBefore \in Nat /\ resumeAt >= last.notBefore
        /\ n < MaxRetries /\ timedOut = timeoutRetries
    BY <1>1, FailureFields DEF RetryInv, LoopInv, Founded, Counted, Mendable
  <2>2. now \in Nat /\ resumeAt \in Nat /\ n \in Nat /\ timeoutRetries \in Nat
    BY PolicyNumbers DEF RetryInv, LoopInv, LoopTyped
  <2>3. now >= last.notBefore /\ n' > 0 /\ n' \in 0..MaxRetries
    BY <1>4, <2>1, <2>2, PolicyNumbers
  <2>4. LoopTyped'
    BY <1>1, <2>3 DEF RetryInv, LoopInv, LoopTyped
  <2>5. Counted'
    BY <1>1, <1>4, <2>1, <2>2 DEF Counted, errors
  <2>6. Founded'
    BY <1>1, <1>4, <2>1, <2>2, <2>3 DEF RetryInv, LoopInv, Founded, errors, Mendable
  <2>7. QED
    BY <1>2, <1>4, <2>4, <2>5, <2>6 DEF RetryInv, LoopInv
<1>5. QED
  BY <1>3, <1>4 DEF Wake, EndRequest, Goto

-----------------------------------------------------------------------------
(* Timers and whoever stops the execution.                                  *)

LEMMA TimersInv == RetryInv /\ (Timers \/ ParentEnds) => RetryInv'
<1> SUFFICES ASSUME RetryInv, Timers \/ ParentEnds PROVE RetryInv'
  OBVIOUS
<1>1. UNCHANGED <<stage, loop, parentDeadline, errors, raw, taken>>
  BY DEF Timers, Tick, WindowEnds, Expire, ParentEnds, contexts
<1>2. now' \in Nat /\ now' >= now /\ (stage = "check" => now' = now)
  BY DEF Timers, Tick, WindowEnds, Expire, ParentEnds, OwnStages, RetryInv, LoopInv, LoopTyped
<1>3. LoopInv'
  BY <1>1, <1>2, CarriesInv DEF RetryInv, Carries
<1>4. CASE Expire
  <2>1. ~attempt.terminal /\ stage # "decide" /\ UNCHANGED ended
    BY <1>4 DEF Expire, Streaming, contexts
  <2>2. attempt' \in Clock /\ ~attempt'.terminal /\ attempt'.timedOut
    BY <1>4, <2>1 DEF Expire, RetryInv, ClockInv, Clock
  <2>3. ClockInv'
    BY <1>1, <2>1, <2>2 DEF RetryInv, ClockInv, Clocked, TerminalDecides, AttemptDone
  <2>4. QED
    BY <1>3, <2>3 DEF RetryInv
<1>5. CASE Tick \/ WindowEnds \/ ParentEnds
  <2>1. UNCHANGED attempt /\ ended' \subseteq {"parent", "window"} /\ ended \subseteq ended'
    BY <1>5 DEF Tick, WindowEnds, ParentEnds, contexts, RetryInv, ClockInv
  <2>2. AttemptDone => AttemptDone'
    BY <2>1 DEF AttemptDone, LoopDone
  <2>3. UNCHANGED last
    BY <1>1 DEF errors
  <2>4. ClockInv'
    BY <1>1, <2>1, <2>2, <2>3 DEF RetryInv, ClockInv, Clocked, TerminalDecides
  <2>5. QED
    BY <1>3, <2>4 DEF RetryInv
<1>6. QED
  BY <1>4, <1>5 DEF Timers

LEMMA StepRetry == RetryInv /\ [RetryNext]_retryVars => RetryInv'
<1>1. ASSUME RetryInv, UNCHANGED retryVars PROVE RetryInv'
  <2>1. UNCHANGED <<stage, now, loop, parentDeadline, ended, attempt, errors, raw, taken>>
    BY <1>1 DEF retryVars, contexts
  <2>2. LoopInv'
    BY <1>1, <2>1, CarriesInv DEF RetryInv, Carries, LoopInv, LoopTyped
  <2>3. ClockInv'
    BY <1>1, <2>1 DEF RetryInv, ClockInv, Clocked, TerminalDecides, AttemptDone, LoopDone, errors
  <2>4. QED
    BY <2>2, <2>3 DEF RetryInv
<1>2. QED
  BY <1>1, CheckInv, PrepareInv, RecordInv, TransportFailsInv, ConsumerInv, ObserveInv,
     CloseStreamInv, ReturnInv, DecideInv, WakeInv, TimersInv DEF RetryNext, RetryLoop, Consume

LEMMA RetryHolds == RetrySpec => []RetryInv
<1>1. RetryInit => RetryInv
  BY InitLoop, InitClock DEF RetryInv
<1>2. QED
  BY <1>1, StepRetry, PTL DEF RetrySpec

-----------------------------------------------------------------------------
(* Types: a request that ends tells nothing but failures it met.            *)

Positions == OwnStages \cup SlowStages \cup {"stream", "observe", "waiting", "done"}

OutcomeTyped ==
  /\ outcome.status \in {"none", "success", "cancelled", "failed"}
  /\ outcome.errors \subseteq Failure

RestTyped ==
  /\ entered \in Nat /\ stage \in Positions
  /\ taken \in Events \cup {NoEvent} /\ raw \in {NoError, Ok, ByContext}
  /\ OutcomeTyped

\* What the loop has in hand where it can fail.
LEMMA KnownFailure ==
  ASSUME RetryInv
  PROVE  /\ Check /\ (now >= window \/ last # NoError) => last \in Failure
         /\ Decide /\ ~Succeeds => last \in Failure /\ Kept \subseteq Failure
         /\ Wake => last \in Failure
<1>1. /\ now \in Nat /\ n \in Nat /\ window \in Nat /\ parentDeadline \in ParentDeadlines
  BY PolicyNumbers DEF RetryInv, LoopInv, LoopTyped
<1>2. Never \in Nat /\ Never > 0
  BY <1>1, PolicyNumbers
<1>3. ASSUME Check, now >= window \/ last # NoError PROVE last \in Failure
  <2>1. stage = "check"
    BY <1>3 DEF Check
  <2>2. CASE n = 0
    BY <1>2, <1>3, <2>1, <2>2 DEF RetryInv, LoopInv, Founded, Between
  <2>3. CASE n > 0
    BY <2>1, <2>3 DEF RetryInv, LoopInv, Founded, Between, Mendable
  <2>4. QED
    BY <1>1, <2>2, <2>3
<1>4. ASSUME Decide, ~Succeeds PROVE last \in Failure /\ Kept \subseteq Failure
  BY <1>4 DEF Decide, RetryInv, LoopInv, Founded, Succeeds, Kept
<1>5. ASSUME Wake PROVE last \in Failure
  BY <1>5 DEF Wake, RetryInv, LoopInv, Founded, Mendable
<1>6. QED
  BY <1>3, <1>4, <1>5

LEMMA EndTyped ==
  ASSUME NEW status \in {"success", "cancelled", "failed"}, NEW errs \in SUBSET Failure,
         EndRequest(status, errs)
  PROVE  OutcomeTyped'
  BY DEF EndRequest, OutcomeTyped

LEMMA OutcomeStep ==
  ASSUME RetryInv, RestTyped, Check \/ Decide \/ Wake
  PROVE  OutcomeTyped'
<1>1. UNCHANGED outcome => OutcomeTyped'
  BY DEF RestTyped, OutcomeTyped
<1>2. ASSUME EndRequest("cancelled", {}) \/ EndRequest("success", {}) PROVE OutcomeTyped'
  BY <1>2, EndTyped
<1>3. ASSUME last \in Failure, EndRequest("failed", {last}) PROVE OutcomeTyped'
  BY <1>3, EndTyped
<1>4. ASSUME Kept \subseteq Failure, EndRequest("failed", Kept) PROVE OutcomeTyped'
  BY <1>4, EndTyped
<1>5. CASE Check
  BY <1>1, <1>2, <1>3, <1>5, KnownFailure DEF Check
<1>6. CASE Decide
  <2>1. CASE Succeeds \/ LoopDone \/ Gives(last)
    BY <1>2, <1>3, <1>4, <1>6, <2>1, KnownFailure DEF Decide
  <2>2. CASE ~(Succeeds \/ LoopDone \/ Gives(last))
    <3>1. PICK d \in Jittered : Schedule(d)
      BY <1>6, <2>2 DEF Decide
    <3>2. QED
      BY <1>1, <1>3, <1>6, <2>2, <3>1, KnownFailure DEF Schedule
  <2>3. QED
    BY <2>1, <2>2
<1>7. CASE Wake
  BY <1>1, <1>2, <1>3, <1>7, KnownFailure DEF Wake
<1>8. QED
  BY <1>5, <1>6, <1>7

LEMMA StepRest == RetryInv /\ RestTyped /\ [RetryNext]_retryVars => RestTyped'
<1> SUFFICES ASSUME RetryInv, RestTyped, [RetryNext]_retryVars PROVE RestTyped'
  OBVIOUS
<1>1. now \in Nat
  BY DEF RetryInv, LoopInv, LoopTyped
<1>2. \A next \in Positions : Goto(next) => stage' \in Positions /\ entered' \in Nat
  BY <1>1 DEF Goto
<1>3. CASE Check \/ Decide \/ Wake
  <2>1. UNCHANGED <<taken, raw>>
    BY <1>3 DEF Check, Decide, Wake
  <2>2. \A status, errs : EndRequest(status, errs) => stage' \in Positions /\ entered' \in Nat
    BY <1>2 DEF EndRequest, Positions
  <2>3. \A next \in {"check", "record", "prepare", "waiting"} :
          Goto(next) => stage' \in Positions /\ entered' \in Nat
    BY <1>2 DEF Positions, OwnStages, SlowStages
  <2>4. stage' \in Positions /\ entered' \in Nat
    BY <1>3, <2>2, <2>3 DEF Check, Decide, Wake, Schedule
  <2>5. QED
    BY <1>3, <2>1, <2>4, OutcomeStep DEF RestTyped
<1>4. CASE PrepareAttempt \/ Record \/ Return \/ Consume
  <2>1. UNCHANGED outcome
    BY <1>4 DEF PrepareAttempt, Record, Return, Consume, TransportFails, StreamCancelled,
       TakeEvent, Observe, CloseStream
  <2>2. taken' \in Events \cup {NoEvent} /\ raw' \in {NoError, Ok, ByContext}
    BY <1>4 DEF PrepareAttempt, Record, Return, Consume, TransportFails, StreamCancelled,
       TakeEvent, Observe, CloseStream, Consumed, RestTyped
  <2>3. \A next \in {"record", "stream", "closing", "returned", "decide"} :
          Goto(next) => stage' \in Positions /\ entered' \in Nat
    BY <1>2 DEF Positions, OwnStages, SlowStages
  <2>4. ASSUME PrepareAttempt \/ Record
      PROVE  stage' \in Positions /\ entered' \in Nat
    BY <2>3, <2>4 DEF PrepareAttempt, Record, Returns
  <2>5. ASSUME TransportFails \/ StreamCancelled \/ CloseStream \/ Return
      PROVE  stage' \in Positions /\ entered' \in Nat
    BY <2>3, <2>5 DEF TransportFails, StreamCancelled, CloseStream, Return, Fail,
       Consumed, Returns
  <2>6. ASSUME TakeEvent
      PROVE  stage' \in Positions /\ entered' \in Nat
    BY <2>6 DEF TakeEvent, RestTyped, Positions
  <2>7. ASSUME Observe
      PROVE  stage' \in Positions /\ entered' \in Nat
    BY <2>3, <2>7 DEF Observe, Fail, Returns
  <2>8. stage' \in Positions /\ entered' \in Nat
    BY <1>4, <2>4, <2>5, <2>6, <2>7 DEF Consume, RestTyped
  <2>9. QED
    BY <2>1, <2>2, <2>8 DEF RestTyped, OutcomeTyped
<1>5. CASE Timers \/ ParentEnds \/ UNCHANGED retryVars
  BY <1>5 DEF Timers, Tick, WindowEnds, Expire, ParentEnds, retryVars, RestTyped, OutcomeTyped
<1>6. QED
  BY <1>3, <1>4, <1>5 DEF RetryNext, RetryLoop

\* Counts within the policy, an attempt's clock well formed, and a request that
\* fails tells nothing but failures it met.
THEOREM RetryTyped == RetrySpec => []RetryTypeOK
<1>1. RetryInit => RestTyped
  BY DEF RetryInit, RestTyped, Positions, OwnStages, OutcomeTyped
<1>2. RetryInv /\ RestTyped => RetryTypeOK
  <2> SUFFICES ASSUME RetryInv, RestTyped PROVE RetryTypeOK
    OBVIOUS
  <2>1. timedOut \in 0..MaxTimeoutRetries + 1
    BY PolicyNumbers DEF RetryInv, LoopInv, LoopTyped, Counted
  <2>2. previous \in Failure \cup {NoError}
    BY DEF RetryInv, LoopInv, Founded
  <2>3. QED
    BY <2>1, <2>2 DEF RetryInv, LoopInv, LoopTyped, Founded, ClockInv, Clock, RestTyped,
       Positions, OutcomeTyped, RetryTypeOK
<1>3. QED
  BY <1>1, <1>2, StepRest, RetryHolds, PTL DEF RetrySpec

\* Whatever the provider does and however late the timers are, a request goes
\* out again only with the policy's, the counts' and the server's consent.
THEOREM RetriesArePermitted == RetrySpec => []ReplayPermitted
<1>1. RetryInv => ReplayPermitted
  BY LoopParts DEF RetryInv
<1>2. QED
  BY <1>1, RetryHolds, PTL

\* The last event of a stream and the attempt's deadline never both win.
THEOREM LastEventDecides == RetrySpec => []TerminalDecides
<1>1. RetryInv => TerminalDecides
  BY DEF RetryInv, ClockInv
<1>2. QED
  BY <1>1, RetryHolds, PTL
=============================================================================
