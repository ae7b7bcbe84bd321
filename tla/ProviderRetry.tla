---------------------------- MODULE ProviderRetry ----------------------------
(***************************************************************************)
(* One logical model request: the retry loop (providerretry/retry.go), the *)
(* physical attempts it makes (engine/provider_retry.go, engine.go) and    *)
(* the clock of each attempt (providerattempt/attempt.go).  The loop, the  *)
(* attempt's timer, the transport, the timer of the recovery window and    *)
(* whoever stops the execution run concurrently; what is read in one step  *)
(* is used in a later one.                                                 *)
(*                                                                         *)
(* Time is the variable now.  A timer or a step of the loop may be late,   *)
(* by at most MaxLag, so every clock value met is bounded by the policies. *)
(* Transient, rate-limited and interrupted requests are treated alike by   *)
(* the loop and are one category here, "retryable".                        *)
(***************************************************************************)
EXTENDS Integers, FiniteSets

CONSTANTS
  Disabled, MaxRetries, MaxTimeoutRetries,   \* providerretry.Policy
  BaseDelay, MaxDelay, JitterPercent, RecoveryWindow, MaxServerWait,
  FirstOutput, OutputIdle, HostedTool, MaxAttempt,   \* RequestTimeoutPolicy
  ServerWaits,       \* waits a server may ask for, from the failure on
  ParentDeadlines,   \* possible deadlines of the execution
  Keys, HostedCalls, \* tool calls and hosted calls of one response
  MaxLag,            \* bound on the lateness of a timer or a step
  Never              \* a time beyond every run

\* Policy.Validate, which asks less of a disabled policy, and a clock on which
\* Never is out of reach.
ASSUME PolicyAssumption ==
  /\ Disabled \in BOOLEAN
  /\ {MaxRetries, MaxTimeoutRetries, MaxLag, Never} \subseteq Nat
  /\ {BaseDelay, MaxDelay, RecoveryWindow, MaxServerWait} \subseteq Nat
  /\ ~Disabled => /\ 0 \notin {BaseDelay, RecoveryWindow, MaxServerWait}
                  /\ BaseDelay <= MaxDelay /\ MaxTimeoutRetries <= MaxRetries
  /\ {FirstOutput, OutputIdle, HostedTool, MaxAttempt} \subseteq Nat \ {0}
  /\ JitterPercent \in 0..100
  /\ ServerWaits \subseteq Nat /\ ParentDeadlines \subseteq 1..Never

VARIABLES
  now,
  stage, entered,   \* where the loop is, and when it got to a slow stage
  n, timeoutRetries,
  window,           \* end of the recovery window, Never before a failure
  resumeAt,         \* when the wait in progress is over
  parentDeadline,
  ended,            \* contexts that are done: the parent's, the window's
  attempt,          \* the physical attempt and its clock
  taken,            \* event read from the stream, not yet observed
  raw,              \* what consuming the stream returned
  previous, last,   \* errors of the previous and of the latest attempt
  timedOut,         \* attempts so far that failed with a timeout (history)
  outcome

loop == <<n, timeoutRetries, window, resumeAt>>
contexts == <<parentDeadline, ended>>
errors == <<previous, last, timedOut>>
retryVars == <<now, stage, entered, loop, contexts, attempt, taken, raw, errors, outcome>>

\* Stages that take no time, and those that wait for storage or an adapter.
OwnStages == {"check", "closing", "returned", "decide"}
SlowStages == {"prepare", "record"}
Categories == {"retryable", "timeout", "permanent"}
\* context: the error is that of a context that is done.
Failure == [cause : {"provider", "timeout", "context", "storage", "contract"},
            category : Categories, forbidden : BOOLEAN, notBefore : Nat,
            context : BOOLEAN]
NoError == [cause |-> "none"]
Ok == [cause |-> "ok"]
ByContext == [cause |-> "cancelled"]

Events ==
  {<<"delta">>, <<"usage">>, <<"done">>, <<"error">>}
    \cup {<<"call", k>> : k \in Keys}
    \cup {<<kind, h>> : kind \in {"hosted", "result"}, h \in HostedCalls}
NoEvent == <<>>

RetryTypeOK ==
  /\ now \in Nat /\ entered \in Nat /\ n \in 0..MaxRetries
  /\ stage \in OwnStages \cup SlowStages \cup {"stream", "observe", "waiting", "done"}
  /\ timeoutRetries \in 0..MaxTimeoutRetries /\ window \in Nat /\ resumeAt \in Nat
  /\ parentDeadline \in ParentDeadlines /\ ended \subseteq {"parent", "window"}
  /\ attempt \in [started : Nat, progress : Nat, seen : SUBSET (Keys \cup HostedCalls),
                  hosted : SUBSET HostedCalls, terminal : BOOLEAN, timedOut : BOOLEAN]
  /\ taken \in Events \cup {NoEvent}
  /\ raw \in {NoError, Ok, ByContext}
  /\ previous \in Failure \cup {NoError} /\ last \in Failure \cup {NoError, Ok}
  /\ timedOut \in 0..MaxTimeoutRetries + 1
  /\ outcome.status \in {"none", "success", "cancelled", "failed"}
  /\ outcome.errors \subseteq Failure

Started(t) == [started |-> t, progress |-> Never, seen |-> {}, hosted |-> {},
               terminal |-> FALSE, timedOut |-> FALSE]

RetryInit ==
  /\ now = 0 /\ stage = "check" /\ entered = 0
  /\ n = 0 /\ timeoutRetries = 0 /\ window = Never /\ resumeAt = 0
  /\ parentDeadline \in ParentDeadlines /\ ended = {}
  /\ attempt = Started(0) /\ taken = NoEvent /\ raw = NoError
  /\ previous = NoError /\ last = NoError /\ timedOut = 0
  /\ outcome = [status |-> "none", errors |-> {}]
-----------------------------------------------------------------------------
(* The clock of an attempt, and the contexts.                              *)

Least(a, b) == IF a < b THEN a ELSE b

\* Attempt.deadline.
Deadline(a) ==
  LET idle == IF a.progress = Never THEN a.started + FirstOutput
              ELSE a.progress + (IF a.hosted # {} THEN HostedTool ELSE OutputIdle)
  IN  Least(idle, a.started + MaxAttempt)

\* The context of the loop, and that of the attempt below it.
LoopDone == ended # {}
AttemptDone == LoopDone \/ attempt.timedOut
Streaming == stage \in {"stream", "observe"}

Goto(next) == stage' = next /\ entered' = IF next \in SlowStages THEN now ELSE 0

\* Times at which something is due: the clock passes them by at most MaxLag.
Due ==
  {window, parentDeadline}
    \cup (IF stage \in SlowStages THEN {entered} ELSE {})
    \cup (IF Streaming THEN {Deadline(attempt)} ELSE {})
    \cup (IF stage = "waiting" THEN {resumeAt} ELSE {})

Tick ==
  /\ stage \notin OwnStages \cup {"done"} /\ \A d \in Due : now < d + MaxLag
  /\ now' = now + 1
  /\ UNCHANGED <<stage, entered, loop, contexts, attempt, taken, raw, errors, outcome>>

\* A stop, an interruption by an instruction, or the execution's deadline.
ParentEnds ==
  /\ stage # "done" /\ "parent" \notin ended
  /\ ended' = ended \cup {"parent"}
  /\ UNCHANGED <<now, stage, entered, loop, parentDeadline, attempt, taken, raw, errors, outcome>>

WindowEnds ==
  /\ stage # "done" /\ now >= window /\ "window" \notin ended
  /\ ended' = ended \cup {"window"}
  /\ UNCHANGED <<now, stage, entered, loop, parentDeadline, attempt, taken, raw, errors, outcome>>

\* Mutant: the timer is stopped while a hosted tool runs.
ExpireIdle ==
  /\ Streaming \/ stage = "closing"
  /\ ~AttemptDone /\ ~attempt.terminal /\ attempt.hosted = {}
  /\ now >= Deadline(attempt)
  /\ attempt' = [attempt EXCEPT !.timedOut = TRUE]
  /\ UNCHANGED <<now, stage, entered, loop, contexts, taken, raw, errors, outcome>>

\* Attempt.expire, in the timer's goroutine.
Expire ==
  /\ Streaming \/ stage = "closing"
  /\ ~AttemptDone /\ ~attempt.terminal
  /\ now >= Deadline(attempt)
  /\ attempt' = [attempt EXCEPT !.timedOut = TRUE]
  /\ UNCHANGED <<now, stage, entered, loop, contexts, taken, raw, errors, outcome>>
-----------------------------------------------------------------------------
(* The loop up to the request.                                             *)

EndRequest(status, errs) ==
  /\ outcome' = [status |-> status, errors |-> errs]
  /\ Goto("done")

Fails(cause, category, context) ==
  [cause |-> cause, category |-> category, forbidden |-> FALSE,
   notBefore |-> 0, context |-> context]

\* The top of the loop: nothing starts after the window or under a done context.
Check ==
  /\ stage = "check"
  /\ IF now >= window \/ (LoopDone /\ "parent" \notin ended /\ last # NoError)
     THEN EndRequest("failed", {last})
     ELSE IF LoopDone THEN EndRequest("cancelled", {})
     ELSE Goto(IF n = 0 THEN "record" ELSE "prepare") /\ UNCHANGED outcome
  /\ UNCHANGED <<now, loop, contexts, attempt, taken, raw, errors>>

\* The callback returned: its error becomes the latest one.
Returns(result) ==
  /\ previous' = last /\ last' = result
  /\ timedOut' = IF result # Ok /\ result.category = "timeout" THEN timedOut + 1
                 ELSE timedOut
  /\ Goto("decide")

\* PrepareRetry of a new physical attempt, refused under a done context.
PrepareAttempt ==
  /\ stage = "prepare"
  /\ \/ ~LoopDone /\ Goto("record") /\ UNCHANGED errors
     \/ LoopDone /\ Returns(Fails("contract", "permanent", TRUE))
     \/ ~LoopDone /\ Returns(Fails("contract", "permanent", FALSE))
  /\ UNCHANGED <<now, loop, contexts, attempt, taken, raw, outcome>>

\* The request is on record before it is sent; then the attempt's clock starts.
Record ==
  /\ stage = "record"
  /\ \/ /\ ~LoopDone /\ Goto("stream")
        /\ attempt' = Started(now) /\ UNCHANGED errors
     \/ LoopDone /\ Returns(Fails("storage", "permanent", TRUE)) /\ UNCHANGED attempt
     \/ ~LoopDone /\ Returns(Fails("storage", "permanent", FALSE)) /\ UNCHANGED attempt
  /\ UNCHANGED <<now, loop, contexts, taken, raw, outcome>>
-----------------------------------------------------------------------------
(* Consuming the stream of an attempt.                                     *)

Advised(category, forbidden, notBefore) ==
  [cause |-> "provider", category |-> category, forbidden |-> forbidden,
   notBefore |-> notBefore, context |-> FALSE]

ProviderFailures ==
  LET times == {0} \cup {now + w : w \in ServerWaits}
  IN {Advised("permanent", FALSE, 0), Advised("retryable", TRUE, 0)}
       \cup {Advised("retryable", FALSE, t) : t \in times}
       \cup {Advised("timeout", FALSE, t) : t \in times}

Consumed(result) == raw' = result /\ Goto("returned")

\* Of a failed attempt the usage is recorded, unless storage refuses it.
Fail(f) == Returns(f) \/ Returns(Fails("storage", "permanent", FALSE))

\* The transport fails: a refused opening, a broken or a malformed stream.
TransportFails ==
  /\ stage = "stream"
  /\ \E f \in ProviderFailures : Fail(f)
  /\ UNCHANGED <<now, loop, contexts, attempt, taken, raw, outcome>>

\* The consumer, or the opening, sees that the attempt's context is done.
StreamCancelled ==
  /\ stage = "stream" /\ AttemptDone
  /\ Consumed(ByContext)
  /\ UNCHANGED <<now, loop, contexts, attempt, taken, errors, outcome>>

\* consume reads an event and checks the context once more.
TakeEvent ==
  /\ stage = "stream" /\ ~AttemptDone
  /\ taken' \in Events
  /\ stage' = "observe"
  /\ UNCHANGED <<now, entered, loop, contexts, attempt, raw, errors, outcome>>

Accepts == ~attempt.terminal /\ ~AttemptDone /\ now < Deadline(attempt)

\* Semantic progress: text, a new call or hosted call, the result of one running.
Meaningful(ev) ==
  \/ ev[1] = "delta"
  \/ ev[1] \in {"call", "hosted"} /\ ev[2] \notin attempt.seen
  \/ ev[1] = "result" /\ ev[2] \in attempt.hosted

\* Attempt.Observe of an accepted event.
Observed(ev) ==
  [attempt EXCEPT
     !.terminal = ev[1] \in {"done", "error"},
     !.progress = IF Meaningful(ev) THEN now ELSE @,
     !.seen = IF ev[1] \in {"call", "hosted"} THEN @ \cup {ev[2]} ELSE @,
     !.hosted = IF ev[1] = "hosted" /\ ev[2] \notin attempt.seen THEN @ \cup {ev[2]}
                ELSE IF ev[1] = "result" THEN @ \ {ev[2]} ELSE @]

\* Observe, then consume's own treatment of the event, accepted or not.
Observe ==
  /\ stage = "observe"
  /\ attempt' = IF Accepts THEN Observed(taken)
                ELSE IF ~attempt.terminal /\ ~AttemptDone
                THEN [attempt EXCEPT !.timedOut = TRUE] ELSE attempt
  /\ taken' = NoEvent
  /\ IF taken[1] = "error"
     THEN \E f \in ProviderFailures : Fail(f)
     ELSE Goto(IF taken[1] = "done" THEN "closing" ELSE "stream") /\ UNCHANGED errors
  /\ UNCHANGED <<now, loop, contexts, raw, outcome>>

\* validateNoEventAfterTerminal: the stream closes, does not, or the context ends.
CloseStream ==
  /\ stage = "closing"
  /\ \/ Consumed(Ok) /\ UNCHANGED errors
     \/ Fail(Fails("provider", "permanent", FALSE)) /\ UNCHANGED raw
     \/ AttemptDone /\ Consumed(ByContext) /\ UNCHANGED errors
  /\ UNCHANGED <<now, loop, contexts, attempt, taken, outcome>>

\* Mutant: a complete stream is a success even when the clock had expired.
AttributedToStream ==
  IF LoopDone
  THEN Fails("context", IF "parent" \in ended THEN "permanent" ELSE "timeout", TRUE)
  ELSE IF raw = ByContext THEN Fails("timeout", "timeout", TRUE)
  ELSE raw

\* Attempt.Error: whose cancellation it was.
Attributed ==
  IF LoopDone
  THEN Fails("context", IF "parent" \in ended THEN "permanent" ELSE "timeout", TRUE)
  ELSE IF attempt.timedOut THEN Fails("timeout", "timeout", TRUE)
  ELSE raw

\* The attempt is closed and its outcome handed to the loop.
Return ==
  /\ stage = "returned"
  /\ IF Attributed = Ok THEN Returns(Ok) ELSE Fail(Attributed)
  /\ raw' = NoError
  /\ UNCHANGED <<now, loop, contexts, attempt, taken, outcome>>
-----------------------------------------------------------------------------
(* The decision to try again.                                              *)

Succeeds == last = Ok

\* A failure that is the recovery window's own end keeps the one before it.
Kept ==
  IF previous # NoError /\ last.context /\ last.category # "permanent"
  THEN {previous, last} ELSE {last}

\* What ends the recovery: the policy, the server, the counts, the category.
Gives(err) ==
  \/ Disabled \/ err.forbidden \/ n >= MaxRetries
  \/ err.category = "permanent"
  \/ err.category = "timeout" /\ timeoutRetries >= MaxTimeoutRetries

\* delay << n, capped; the fold of the code's loop.
Backoff == Least(BaseDelay * 2^n, MaxDelay)

Jittered ==
  {d \in 0..2 * Backoff :
     /\ 100 * d >= Backoff * (100 - JitterPercent)
     /\ 100 * d <= Backoff * (100 + JitterPercent)}

\* The window opens at the first retryable failure.
Window == IF window = Never THEN now + RecoveryWindow ELSE window

\* The next attempt waits for the delay and for the server, or is not worth it.
Schedule(d) ==
  LET next == IF last.notBefore > now + d THEN last.notBefore ELSE now + d
  IN IF last.notBefore - now > MaxServerWait \/ next >= Window \/ next >= parentDeadline
     THEN EndRequest("failed", {last}) /\ UNCHANGED resumeAt
     ELSE resumeAt' = next /\ Goto("waiting") /\ UNCHANGED outcome

\* Mutant: timeouts are not counted apart from other failures.
DecideUncounted ==
  /\ stage = "decide"
  /\ IF Succeeds
     THEN EndRequest("success", {}) /\ UNCHANGED loop
     ELSE IF LoopDone
     THEN /\ IF "parent" \in ended THEN EndRequest("cancelled", {}) ELSE EndRequest("failed", Kept)
          /\ UNCHANGED loop
     ELSE IF Gives(last)
     THEN EndRequest("failed", {last}) /\ UNCHANGED loop
     ELSE /\ window' = Window
          /\ \E d \in Jittered : Schedule(d)
          /\ UNCHANGED <<n, timeoutRetries>>
  /\ attempt' = Started(0)
  /\ UNCHANGED <<now, contexts, taken, raw, errors>>

Decide ==
  /\ stage = "decide"
  /\ IF Succeeds
     THEN EndRequest("success", {}) /\ UNCHANGED loop
     ELSE IF LoopDone
     THEN /\ IF "parent" \in ended THEN EndRequest("cancelled", {}) ELSE EndRequest("failed", Kept)
          /\ UNCHANGED loop
     ELSE IF Gives(last)
     THEN EndRequest("failed", {last}) /\ UNCHANGED loop
     ELSE /\ timeoutRetries' = IF last.category = "timeout" THEN timeoutRetries + 1
                               ELSE timeoutRetries
          /\ window' = Window
          /\ \E d \in Jittered : Schedule(d)
          /\ UNCHANGED n
  /\ attempt' = Started(0)
  /\ UNCHANGED <<now, contexts, taken, raw, errors>>

\* The wait is over, or was interrupted.
Wake ==
  /\ stage = "waiting"
  /\ \/ now >= resumeAt /\ n' = n + 1 /\ Goto("check") /\ UNCHANGED outcome
     \/ LoopDone /\ UNCHANGED n
        /\ IF "parent" \in ended THEN EndRequest("cancelled", {}) ELSE EndRequest("failed", {last})
  /\ UNCHANGED <<now, timeoutRetries, window, resumeAt, contexts, attempt, taken, raw, errors>>
-----------------------------------------------------------------------------
RetryLoop == Check \/ PrepareAttempt \/ Record \/ Return \/ Decide \/ Wake
Consume == TransportFails \/ StreamCancelled \/ TakeEvent \/ Observe \/ CloseStream
Timers == Tick \/ WindowEnds \/ Expire

RetryNext == RetryLoop \/ Consume \/ Timers \/ ParentEnds

\* The goroutines of the loop run, timers fire, and a stream that was cancelled
\* returns; the provider may stay silent for ever, nobody has to stop anything.
Fairness ==
  /\ WF_retryVars(RetryLoop) /\ WF_retryVars(StreamCancelled \/ Observe \/ CloseStream)
  /\ WF_retryVars(Tick) /\ WF_retryVars(WindowEnds) /\ WF_retryVars(Expire)
  /\ WF_retryVars(ParentEnds /\ now >= parentDeadline)

RetrySpec == RetryInit /\ [][RetryNext]_retryVars /\ Fairness
-----------------------------------------------------------------------------
Attempting == stage \in {"prepare", "record", "stream", "observe", "closing", "returned"}

\* A request is sent again only after a failure that a repetition can mend: not
\* a permanent one, none the server forbade to repeat, never more timeouts or
\* more attempts than the policy grants, and never before the server's deadline,
\* whatever the back-off, its jitter and the recovery window make of it.  Replays
\* cost money and may repeat hosted effects.
ReplayPermitted ==
  Attempting /\ n > 0 =>
    /\ ~Disabled /\ n <= MaxRetries
    /\ last \in Failure /\ last.category # "permanent" /\ ~last.forbidden
    /\ timedOut <= MaxTimeoutRetries
    /\ now >= last.notBefore

\* Timer, consumer and a stop race at the end of a stream.  A response is
\* returned only if its last event arrived before the attempt's deadline, and an
\* attempt whose last event arrived in time is never reported as a timeout.
TerminalDecides ==
  stage = "decide" =>
    /\ last = Ok => attempt.terminal
    /\ last.cause = "timeout" => ~attempt.terminal

\* Every request ends, however silent the provider is and although nobody stops
\* it: attempts are limited by their clock, the loop by its window and counts.
RequestEnds == <>(stage = "done")
=============================================================================
