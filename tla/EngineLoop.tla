------------------------------ MODULE EngineLoop ------------------------------
(***************************************************************************)
(* The loop of a run (engine.go, run): begin a step, prepare and send a    *)
(* request, save the answer, execute its calls or ask the stop hook, and   *)
(* decide whether another step follows.  An instruction (runtime's Steer)  *)
(* or a stop may arrive between any two of these stages: both cancel the   *)
(* fragment, the context of the step, and each stage of the code meets a   *)
(* cancelled fragment in its own way.                                      *)
(*                                                                         *)
(* What the model answers is any member of Replies, so a property over all *)
(* behaviours is one over all models.  Storage itself does not fail here:  *)
(* it refuses a write only because the context of the write is cancelled.  *)
(***************************************************************************)
EXTENDS Naturals, SequencesExt

CONSTANTS
  Replies,      \* the answers of the model
  Local,        \* ordinary calls, each with its complete arguments
  Control,      \* control calls
  Hosted,       \* a call the provider executes itself
  Refused,      \* calls whose arguments fail validation
  Unavailable,  \* calls of a tool that is not there
  Questions,    \* calls whose result makes the turn wait for the user
  Moving,       \* calls whose result can show progress
  Continuation, \* the turn continues a goal
  EmptyLimit, SilenceLimit, LengthLimit, HookLimit, RepeatLimit, CorrectionLimit,
  MaxSteers     \* bound on the instructions pending at a time

Calls == Local \cup Control
Nothing == "nothing"   \* no call
NoReply == [text |-> "none", finish |-> "none", order |-> <<>>]
Texts == {"none", "thought", "said"}
Finishes == {"natural", "calls", "cut", "empty", "refused", "cancelled"}

ASSUME ReplyAssumption ==
  /\ \A r \in Replies : /\ r.text \in Texts /\ r.finish \in Finishes
                        /\ r.order \in Seq(Calls \cup {Hosted})
  /\ Nothing \notin Calls \cup {Hosted} /\ Hosted \notin Calls
ASSUME LimitAssumption ==
  {EmptyLimit, SilenceLimit, LengthLimit, HookLimit, RepeatLimit,
   CorrectionLimit, MaxSteers} \subseteq Nat \ {0}

VARIABLES
  pc,
  root, fragment,  \* contexts of the execution and of the step
  pending,         \* accepted instructions not yet applied
  sealed,          \* the actor takes no further instruction
  started,         \* the goal's first request was admitted
  count,           \* the counters of the loop
  guard,           \* toolRepeatGuard
  reply, batch,    \* the answer in hand and the verdict on its calls
  open,            \* saved calls without a result, by their place in the reply
  broken,          \* a refused write stays in the projection as its error
  result,
  kind, streak     \* history: the latest answer; identical calls in a row

actor == <<root, fragment, pending, sealed>>
model == <<reply, batch, kind>>
vars == <<pc, actor, started, count, guard, model, open, broken, result, streak>>

Stages == {"begin", "surface", "admit", "prepare", "send", "weigh", "feedback",
           "tools", "hook", "finish", "ending", "done"}
Kinds == {"news", "idle", "cut", "final", "invalid", "repeat", "other"}
Causes == {"none", "unneeded", "interrupted", "provider", "contract", "budget", "empty",
           "no progress", "hook", "control", "correction", "repetition", "unknown effect"}
NoGuard == [sig |-> Nothing, duplicates |-> 0, told |-> FALSE, result |-> "none"]
NoStreak == [sig |-> Nothing, ran |-> 0, told |-> 0, moved |-> FALSE]
NoBatch == [guard |-> NoGuard, rejected |-> {}, exhausted |-> FALSE, invalid |-> {}]
NoResult == [status |-> "none", cause |-> "none"]

\* The places of some calls in an answer.
Indices(r, set) == {i \in DOMAIN r.order : r.order[i] \in set}

EngineTypeOK ==
  /\ pc \in Stages /\ root \in {"live", "stopped"} /\ fragment \in {"live", "cut"}
  /\ pending \in 0..MaxSteers /\ {sealed, broken, started} \subseteq BOOLEAN
  /\ count \in [empty : 0..EmptyLimit + 1, silent : 0..SilenceLimit,
                lengths : 0..LengthLimit + 1, hooks : 0..HookLimit + 1,
                invalid : 0..CorrectionLimit + 1]
  /\ guard.sig \in Calls \cup {Nothing} /\ guard.duplicates \in Nat
  /\ guard.told \in BOOLEAN /\ guard.result \in {"none", "plain", "moved"}
  /\ reply \in Replies \cup {NoReply} /\ kind \in Kinds
  /\ open \subseteq Indices(reply, Calls)
  /\ result.status \in {"none", "completed", "waiting", "failed", "cancelled"}
  /\ result.cause \in Causes
  /\ streak.ran \in Nat /\ streak.told \in Nat

Init ==
  /\ pc = "begin" /\ root = "live" /\ fragment = "live" /\ pending = 0
  /\ sealed = FALSE /\ started = FALSE /\ broken = FALSE /\ open = {}
  /\ count = [empty |-> 0, silent |-> 0, lengths |-> 0, hooks |-> 0, invalid |-> 0]
  /\ guard = NoGuard /\ reply = NoReply /\ batch = NoBatch /\ result = NoResult
  /\ kind = "news" /\ streak = NoStreak

Cut == fragment = "cut"
Conclude(status, cause) ==
  /\ pc' = "ending" /\ result' = [status |-> status, cause |-> cause]
\* The step was cut short: an instruction begins the next one, a stop ends.
Yield ==
  IF root = "live" THEN pc' = "begin" /\ UNCHANGED result
                   ELSE Conclude("cancelled", "interrupted")
\* A write refused because its context is cancelled, where the loop gives up.
LoseWrite == Conclude("failed", "interrupted") /\ broken' = TRUE
\* What the loop counts against the model starts afresh.
Renew == guard' = NoGuard /\ streak' = NoStreak /\ kind' = "news"
Keep == UNCHANGED <<guard, streak, kind>>
-----------------------------------------------------------------------------
\* The user.  An accepted instruction cuts the step short.
Steer ==
  /\ ~sealed /\ root = "live" /\ pc # "done" /\ pending < MaxSteers
  /\ pending' = pending + 1 /\ fragment' = "cut"
  /\ UNCHANGED <<pc, root, sealed, started, count, guard, model, open, broken,
                 result, streak>>

Stop ==
  /\ ~sealed /\ root = "live" /\ pc # "done"
  /\ root' = "stopped" /\ fragment' = "cut"
  /\ UNCHANGED <<pc, pending, sealed, started, count, guard, model, open, broken,
                 result, streak>>

\* Mutant: the boundary leaves the calls of the interrupted step open.
BeginKeepsCalls ==
  /\ pc = "begin" /\ root = "live" /\ pending > 0 /\ ~broken
  /\ pc' = "surface" /\ pending' = 0 /\ fragment' = "live"
  /\ count' = [count EXCEPT !.empty = 0, !.silent = 0] /\ Renew
  /\ UNCHANGED <<root, sealed, started, reply, batch, open, broken, result>>

\* Pending instructions are applied once the calls of the interrupted step are
\* closed; a projection whose write was refused ends the run instead.
BeginInstructed ==
  /\ pc = "begin" /\ root = "live" /\ pending > 0
  /\ IF broken
     THEN /\ Conclude("failed", "interrupted") /\ Keep
          /\ UNCHANGED <<pending, fragment, count, reply, batch, open>>
     ELSE /\ pc' = "surface" /\ pending' = 0 /\ fragment' = "live"
          /\ open' = {} /\ reply' = NoReply /\ batch' = NoBatch
          /\ count' = [count EXCEPT !.empty = 0, !.silent = 0] /\ Renew
          /\ UNCHANGED result
  /\ UNCHANGED <<root, sealed, started, broken>>

Begin ==
  /\ pc = "begin" /\ (pending = 0 \/ root = "stopped")
  /\ IF root = "stopped"
     THEN Conclude("failed", "interrupted") /\ UNCHANGED <<fragment, reply, batch>>
     ELSE /\ pc' = "surface" /\ fragment' = "live" /\ UNCHANGED result
          /\ reply' = NoReply /\ batch' = NoBatch
  /\ UNCHANGED <<root, pending, sealed, started, count, guard, kind, open,
                 broken, streak>>

Surface ==
  /\ pc = "surface"
  /\ \/ pc' = "admit" /\ UNCHANGED result
     \/ Cut /\ Yield
     \/ Conclude("failed", "contract")
  /\ UNCHANGED <<actor, started, count, guard, model, open, broken, streak>>

\* Goal, parent events, host work and model context become part of the
\* history; news restart the count of repetitions.  A goal that needs no
\* continuation ends the turn here.
Admit ==
  /\ pc = "admit"
  /\ \/ Cut /\ Conclude("failed", "interrupted") /\ Keep /\ UNCHANGED started
     \/ /\ ~Cut /\ Continuation /\ ~started
        /\ Conclude("completed", "unneeded") /\ Keep /\ UNCHANGED started
     \/ /\ ~Cut /\ pc' = "prepare" /\ started' = TRUE
        /\ (Keep \/ Renew) /\ UNCHANGED result
  /\ UNCHANGED <<actor, count, reply, batch, open, broken>>

\* The request is built, its context compacted when it is too large; the provider
\* may fail the compaction, and what is built may be found invalid.
Prepare ==
  /\ pc = "prepare"
  /\ \/ /\ ~Cut /\ pc' = "send" /\ UNCHANGED result
        /\ \/ Keep /\ UNCHANGED count
           \/ Renew /\ count' = [count EXCEPT !.silent = 0]
     \/ /\ (Cut /\ Yield) \/ Conclude("failed", "contract") \/ Conclude("failed", "provider")
        /\ Keep /\ UNCHANGED count
  /\ UNCHANGED <<actor, started, reply, batch, open, broken>>

\* The model answers, after a compaction when the provider asked for one, or
\* the request fails.  An answer that comes with a cancelled fragment is dropped.
Send ==
  /\ pc = "send"
  /\ \/ /\ ~Cut /\ pc' = "weigh" /\ reply' \in Replies /\ UNCHANGED result
        /\ \/ Keep /\ UNCHANGED count
           \/ Renew /\ count' = [count EXCEPT !.silent = 0]
     \/ /\ (Cut /\ Yield) \/ Conclude("failed", "provider")
        /\ Keep /\ UNCHANGED <<reply, count>>
  /\ UNCHANGED <<actor, started, batch, open, broken>>
-----------------------------------------------------------------------------
Invalid(r) ==
  Indices(r, Refused) \cup
    (IF Indices(r, Local) # {} \/ Cardinality(Indices(r, Control)) > 1
     THEN Indices(r, Control) ELSE {})

\* Mutant: a repetition counts as answered with feedback once it is rejected.
PrepareToldAtOnce(acc, i) ==
  LET c == reply.order[i]
      g == acc.guard
      moved == g.result = "moved"
      duplicates == IF moved THEN 0 ELSE g.duplicates + 1
      over == duplicates >= RepeatLimit
  IN IF c = Hosted THEN [acc EXCEPT !.guard = NoGuard]
     ELSE IF c # g.sig THEN [acc EXCEPT !.guard = [NoGuard EXCEPT !.sig = c]]
     ELSE [acc EXCEPT
             !.guard = [sig |-> c, duplicates |-> duplicates, told |-> over,
                        result |-> "none"],
             !.rejected = IF over THEN @ \cup {i} ELSE @,
             !.exhausted = @ \/ (over /\ g.told /\ ~moved)]

\* One call against the guard: identical calls in a row are counted, progress
\* starts the count again, and at the limit the call is rejected.
PrepareCall(acc, i) ==
  LET c == reply.order[i]
      g == acc.guard
      moved == g.result = "moved"
      duplicates == IF moved THEN 0 ELSE g.duplicates + 1
      told == g.told /\ ~moved
      over == duplicates >= RepeatLimit
  IN IF c = Hosted THEN [acc EXCEPT !.guard = NoGuard]
     ELSE IF c # g.sig THEN [acc EXCEPT !.guard = [NoGuard EXCEPT !.sig = c]]
     ELSE [acc EXCEPT
             !.guard = [sig |-> c, duplicates |-> duplicates, told |-> told,
                        result |-> "none"],
             !.rejected = IF over THEN @ \cup {i} ELSE @,
             !.exhausted = @ \/ (over /\ told)]

\* A batch with an invalid call is not counted and restarts the count.
Verdict ==
  IF Invalid(reply) # {} THEN [NoBatch EXCEPT !.invalid = Invalid(reply)]
  ELSE FoldLeftDomain(PrepareCall, [NoBatch EXCEPT !.guard = guard], reply.order)

\* The guard keeps the result of the latest call of its sequence.
SettleGuard(moved) ==
  LET last == Len(reply.order)
  IN IF reply.order[last] # guard.sig THEN guard
     ELSE IF last \in batch.rejected THEN [guard EXCEPT !.told = TRUE, !.result = "none"]
     ELSE [guard EXCEPT !.result = IF last \in moved THEN "moved" ELSE "plain"]

\* History: which calls in a row were executed, and how many answers of this
\* sequence ended with a call that was rejected.
Follow(executed, rejected, moved) ==
  LET Meet(s, i) ==
        LET c == reply.order[i]
        IN IF c = Hosted THEN NoStreak
           ELSE IF i \notin executed
                THEN IF c = s.sig THEN s ELSE [NoStreak EXCEPT !.sig = c]
           ELSE IF c = s.sig /\ ~s.moved THEN [s EXCEPT !.ran = @ + 1, !.moved = i \in moved]
           ELSE [sig |-> c, ran |-> 1, told |-> 0, moved |-> i \in moved]
      s == FoldLeftDomain(Meet, streak, reply.order)
  IN IF Len(reply.order) \in rejected THEN [s EXCEPT !.told = @ + 1] ELSE s

KindOf(r) ==
  LET calls == Indices(r, Calls)
  IN IF r.text # "said" /\ calls = {} THEN "idle"
     ELSE IF r.finish = "cut" THEN "cut"
     ELSE IF calls = {} THEN IF r.finish = "natural" THEN "final" ELSE "other"
     ELSE IF Invalid(r) # {} THEN "invalid"
     ELSE IF Len(r.order) = 1 /\ r.order[1] = streak.sig /\ calls \cap Indices(r, Moving) = {}
     THEN "repeat" ELSE "other"
-----------------------------------------------------------------------------
\* An answer the loop does not use.
Refuse ==
  /\ pc = "weigh"
  /\ \/ Conclude("failed", "budget")
     \/ reply.finish = "refused" /\ Conclude("failed", "provider")
     \/ reply.finish = "cancelled" /\ Conclude("cancelled", "provider")
  /\ kind' = KindOf(reply)
  /\ UNCHANGED <<actor, started, count, guard, reply, batch, open, broken, streak>>

Usable == pc = "weigh" /\ reply.finish \notin {"refused", "cancelled"}
HasCalls == Indices(reply, Calls) # {}
\* Text counts as progress.
Said == IF reply.text = "said" THEN [count EXCEPT !.silent = 0] ELSE count
Or(limit, n, cause) ==
  IF n > limit THEN Conclude("failed", cause) ELSE pc' = "begin" /\ UNCHANGED result

\* What follows an answer without calls that is saved.
ContinueAnswer(said) ==
  LET c == [said EXCEPT !.empty = 0, !.lengths = 0,
                        !.silent = IF reply.text = "said" THEN @ ELSE @ + 1]
  IN CASE reply.finish = "cut" ->
            /\ count' = [said EXCEPT !.lengths = @ + 1]
            /\ Or(LengthLimit, said.lengths + 1, "provider")
       [] reply.finish = "empty" ->
            /\ count' = [said EXCEPT !.empty = @ + 1]
            /\ Or(EmptyLimit, said.empty + 1, "empty")
       [] OTHER ->
            /\ count' = c
            /\ IF c.silent >= SilenceLimit THEN Conclude("failed", "no progress")
               ELSE /\ pc' = IF reply.text # "none" /\ reply.finish = "natural"
                             THEN "hook" ELSE "begin"
                    /\ UNCHANGED result

\* An answer without calls.  A hosted call in it ends a sequence of calls.  A
\* refused write is not reported here: the next step finds it.
Answer ==
  /\ Usable /\ ~HasCalls
  /\ guard' = IF reply.order = <<>> THEN guard ELSE NoGuard
  /\ streak' = IF reply.order = <<>> THEN streak ELSE NoStreak
  /\ kind' = KindOf(reply)
  /\ IF Cut
     THEN /\ broken' = TRUE /\ count' = Said
          /\ IF root = "live" THEN pc' = "begin" /\ UNCHANGED result
                              ELSE Conclude("failed", "interrupted")
     ELSE ContinueAnswer(Said) /\ UNCHANGED broken
  /\ UNCHANGED <<actor, started, reply, batch, open>>

\* An answer cut off in its calls: nothing of it is saved.
DropCalls ==
  /\ Usable /\ HasCalls /\ reply.finish = "cut"
  /\ count' = [Said EXCEPT !.lengths = @ + 1]
  /\ Or(LengthLimit, count.lengths + 1, "provider")
  /\ kind' = KindOf(reply)
  /\ UNCHANGED <<actor, started, guard, reply, batch, open, broken, streak>>

Cleared == [Said EXCEPT !.empty = 0, !.lengths = 0]
Ordinary == Indices(reply, Local) # {}

\* The tools of the moment are read again before calls are saved.
CallsUnresolved ==
  /\ Usable /\ HasCalls /\ reply.finish # "cut" /\ Ordinary
  /\ (Cut /\ Yield) \/ Conclude("failed", "contract")
  /\ count' = Cleared /\ kind' = KindOf(reply)
  /\ UNCHANGED <<actor, started, guard, reply, batch, open, broken, streak>>

CallsUnsaved ==
  /\ Usable /\ HasCalls /\ reply.finish # "cut" /\ Cut /\ LoseWrite
  /\ count' = Cleared /\ kind' = KindOf(reply)
  /\ UNCHANGED <<actor, started, guard, reply, batch, open, streak>>

\* The calls are saved together, with the answer they belong to.  A control
\* call acts by being saved: it makes the turn wait, or has its result already.
SaveCalls ==
  /\ Usable /\ HasCalls /\ reply.finish # "cut" /\ ~Cut
  /\ batch' = [Verdict EXCEPT !.guard = NoGuard] /\ guard' = Verdict.guard
  /\ kind' = KindOf(reply)
  /\ LET calls == Indices(reply, Calls)
         signal == ~Ordinary /\ Verdict.invalid \cup Verdict.rejected = {}
         waits == Indices(reply, Questions) # {}
     IN /\ open' = IF signal /\ ~waits THEN {} ELSE calls
        /\ streak' = IF signal THEN Follow(calls, {}, {}) ELSE streak
        /\ \/ /\ signal
              /\ Conclude("failed", "control") /\ count' = Cleared
           \/ /\ signal
              /\ count' = [Cleared EXCEPT !.invalid = 0]
              /\ IF waits
                 THEN pc' = "finish" /\ result' = [status |-> "waiting", cause |-> "none"]
                 ELSE pc' = "begin" /\ UNCHANGED result
           \/ /\ ~signal
              /\ count' = [Cleared EXCEPT
                             !.invalid = IF Verdict.invalid = {} THEN @ ELSE @ + 1]
              /\ pc' = IF Ordinary THEN "tools" ELSE "feedback"
              /\ UNCHANGED result
  /\ UNCHANGED <<actor, started, reply, broken>>

\* Rejected control calls are answered one by one.
Feedback ==
  /\ pc = "feedback"
  /\ IF Cut THEN LoseWrite /\ UNCHANGED <<guard, open, streak>>
     ELSE /\ open' = {} /\ UNCHANGED broken
          /\ guard' = IF batch.invalid = {} THEN SettleGuard({}) ELSE guard
          /\ streak' = Follow({}, batch.rejected, {})
          /\ IF count.invalid > CorrectionLimit THEN Conclude("failed", "correction")
             ELSE IF batch.exhausted THEN Conclude("failed", "repetition")
             ELSE pc' = "begin" /\ UNCHANGED result
  /\ UNCHANGED <<actor, started, count, model>>
-----------------------------------------------------------------------------
\* A batch with ordinary calls: some are executed, the others only get an error.
Unexecuted == batch.invalid \cup batch.rejected \cup Indices(reply, Unavailable)
Executed == Indices(reply, Calls) \ Unexecuted

\* Mutant: a valid sibling ends the episode of corrections.
FinishBatchForgiving ==
  \E moved \in SUBSET (Executed \cap Indices(reply, Moving)) :
    /\ pc = "tools" /\ (~Cut \/ Unexecuted = {})
    /\ open' = {} /\ streak' = Follow(Executed, batch.rejected, moved)
    /\ count' = [count EXCEPT !.invalid = 0]
    /\ IF Executed \cap Indices(reply, Questions) # {}
       THEN /\ pc' = "finish" /\ result' = [status |-> "waiting", cause |-> "none"]
            /\ UNCHANGED guard
       ELSE /\ guard' = SettleGuard(moved)
            /\ IF batch.exhausted THEN Conclude("failed", "repetition")
               ELSE pc' = "begin" /\ UNCHANGED result
    /\ UNCHANGED <<actor, started, model, broken>>

\* Every call has its result.  An error needs a live fragment to be saved; the
\* results of executed calls are settled by their own finalizer.
FinishBatch ==
  \E moved \in SUBSET (Executed \cap Indices(reply, Moving)) :
    /\ pc = "tools" /\ (~Cut \/ Unexecuted = {})
    /\ open' = {} /\ streak' = Follow(Executed, batch.rejected, moved)
    /\ count' = IF batch.invalid = {} THEN [count EXCEPT !.invalid = 0] ELSE count
    /\ IF count.invalid > CorrectionLimit
       THEN Conclude("failed", "correction") /\ UNCHANGED guard
       ELSE IF Executed \cap Indices(reply, Questions) # {}
       THEN /\ pc' = "finish" /\ result' = [status |-> "waiting", cause |-> "none"]
            /\ UNCHANGED guard
       ELSE /\ guard' = SettleGuard(moved)
            /\ IF batch.exhausted THEN Conclude("failed", "repetition")
               ELSE pc' = "begin" /\ UNCHANGED result
    /\ UNCHANGED <<actor, started, model, broken>>

\* The batch is interrupted: some calls stay open.  The errors are written one by
\* one, once all calls have returned or the fragment is cut: a write is refused.
InterruptBatch ==
  /\ pc = "tools" /\ Cut
  /\ open' \in SUBSET Indices(reply, Calls)
  /\ Unexecuted # {} => Unexecuted \cap open' # {}
  /\ broken' = (Unexecuted # {})
  /\ \/ Yield
     \/ Executed # {} /\ Conclude("cancelled", "unknown effect")
  /\ UNCHANGED <<actor, started, count, guard, model, streak>>

\* A call that may have taken effect without an answer ends the turn.
FailBatch ==
  /\ pc = "tools"
  /\ Conclude("failed", IF Executed = {} THEN "budget" ELSE "unknown effect")
  /\ UNCHANGED <<actor, started, count, guard, model, open, broken, streak>>

\* The stop hook asks for more, or lets the turn end.
Hook ==
  /\ pc = "hook"
  /\ \/ /\ pc' = "finish" /\ result' = [status |-> "completed", cause |-> "none"]
        /\ UNCHANGED <<count, broken>>
     \/ /\ count' = [count EXCEPT !.hooks = @ + 1]
        /\ IF count.hooks + 1 > HookLimit
           THEN Conclude("failed", "hook") /\ UNCHANGED broken
           ELSE IF Cut THEN LoseWrite
           ELSE pc' = "begin" /\ UNCHANGED <<result, broken>>
     \/ /\ (Cut /\ Yield) \/ Conclude("failed", "contract")
        /\ UNCHANGED <<count, broken>>
  /\ UNCHANGED <<actor, started, guard, model, open, streak>>

\* Mutant: the run is sealed over pending instructions.
FinishHasty ==
  /\ pc = "finish"
  /\ IF root = "stopped" THEN Conclude("failed", "interrupted") /\ UNCHANGED sealed
     ELSE sealed' = TRUE /\ pc' = "ending" /\ UNCHANGED result
  /\ UNCHANGED <<root, fragment, pending, started, count, guard, model, open,
                 broken, streak>>

\* The actor seals the run unless an instruction is pending.
Finish ==
  /\ pc = "finish"
  /\ IF root = "stopped" THEN Conclude("failed", "interrupted") /\ UNCHANGED sealed
     ELSE IF pending > 0
     THEN pc' = "begin" /\ result' = NoResult /\ UNCHANGED sealed
     ELSE sealed' = TRUE /\ pc' = "ending" /\ UNCHANGED result
  /\ UNCHANGED <<root, fragment, pending, started, count, guard, model, open,
                 broken, streak>>

\* The harness: a stop turns what it interrupted into a cancelled turn, a
\* refused write into a failed one; open calls of both are closed.
End ==
  /\ pc = "ending"
  /\ LET stopped == root = "stopped" /\ result.cause \in {"none", "unneeded", "interrupted",
                                                       "provider"}
     IN result' = IF stopped THEN [status |-> "cancelled", cause |-> "none"]
                  ELSE IF result.cause = "unknown effect"
                  THEN [status |-> "failed", cause |-> "unknown effect"]
                  ELSE IF broken THEN [status |-> "failed", cause |-> "interrupted"]
                  ELSE result
  /\ open' = IF result'.status \in {"failed", "cancelled"} THEN {} ELSE open
  /\ pc' = "done"
  /\ UNCHANGED <<actor, started, count, guard, model, broken, streak>>

Loop ==
  \/ BeginInstructed \/ Begin \/ Surface \/ Admit \/ Prepare \/ Send
  \/ Refuse \/ Answer \/ DropCalls \/ CallsUnresolved \/ CallsUnsaved \/ SaveCalls
  \/ Feedback \/ FinishBatch \/ InterruptBatch \/ FailBatch \/ Hook \/ Finish \/ End
Next == Steer \/ Stop \/ Loop
EngineSpec == Init /\ [][Next]_vars
\* The loop runs on: the provider answers or fails within its time, tools and
\* the stop hook return.
FairEngine == EngineSpec /\ WF_vars(Loop)
-----------------------------------------------------------------------------
\* The model is never asked to go on while a call it made is unanswered, and no
\* turn that is over has such a call unless the call is a question.
CallsAnswered ==
  /\ pc = "send" => open = {}
  /\ pc = "done" /\ result.status # "waiting" => open = {}

\* No call is executed more than RepeatLimit times in a row without progress,
\* and the turn fails for repetition only when an earlier answer of the same
\* sequence was already rejected, and the model told so.
RepetitionHandled ==
  [][/\ streak'.ran <= RepeatLimit
     /\ result'.cause = "repetition" /\ result.cause = "none" => streak.told > 0]_vars

\* A turn that succeeds leaves no accepted instruction behind: an instruction is
\* applied before the run is sealed, or refused.  Only the continuation of a goal
\* that needs none ends unsealed.
SuccessLeavesNothingPending ==
  pc = "done" /\ result.status \in {"completed", "waiting"} =>
    \/ sealed /\ pending = 0
    \/ result.cause = "unneeded"

\* A model that only stays silent, is cut off, repeats a call, sends invalid
\* calls or never satisfies the stop hook does not keep the turn going.
StalledModelEnds ==
  \A k \in {"idle", "cut", "final", "invalid", "repeat"} :
    <>[](kind = k) => <>(pc = "done")
=============================================================================
