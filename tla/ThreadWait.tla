------------------------------ MODULE ThreadWait ------------------------------
(***************************************************************************)
(* WaitThreads (runtime/thread_wait.go): a tool of the parent waits for its  *)
(* children and for what they tell it.  It composes the receipts of          *)
(* ParentEvents with the views the children's actors publish, each later     *)
(* than the transaction it shows, and with the subscription that wakes the   *)
(* waiter.  An input queued at a child counts as work: its fact is committed *)
(* and the view's queue changed in one hold of the actor's lock, so that     *)
(* view[c].queue is the number of pending inputs in both.                    *)
(***************************************************************************)
EXTENDS ParentEvents

CONSTANT MaxQueued   \* bound: inputs queued at a child
ASSUME QueuedAssumption == MaxQueued \in Nat

VARIABLES
  view,       \* the summary each child's actor shows
  observer,   \* observeParentEvents is to run for the parent
  wait        \* the call of WaitThreads

waitVars == <<view, observer, wait>>
allVars == <<vars, waitVars>>

Summary == [turn : Nat, run : Nat, active : BOOLEAN, attention : BOOLEAN, queue : Nat]
NoSummary == [turn |-> 0, run |-> 0, active |-> FALSE, attention |-> FALSE, queue |-> 0]
Canonical(t, queue) == [turn |-> t.turn, run |-> t.run, active |-> t.live,
                        attention |-> t.open # {}, queue |-> queue]
ShowsCommitted(c) == view[c] = Canonical(child[c], view[c].queue)

\* todo: children List has still to read.  page: pending receipts, by position.
NoWait == [at |-> "none", woken |-> FALSE, todo |-> {}, page |-> {}, reason |-> "",
           seen |-> [c \in Children |-> NoSummary]]

WaitTypeOK ==
  /\ view \in [Children -> Summary] /\ observer \in BOOLEAN
  /\ wait.at \in {"none", "list", "page", "relist", "asleep", "returned"}
  /\ wait.woken \in BOOLEAN /\ wait.todo \subseteq Children
  /\ wait.page \subseteq Nat /\ wait.seen \in [Children -> Summary]
  /\ wait.reason \in {"", "attention", "completed", "events", "timed_out"}

WaitInit ==
  /\ Init
  /\ view = [c \in Children |-> NoSummary]
  /\ observer = FALSE /\ wait = NoWait

-----------------------------------------------------------------------------
\* The children's actors and the subscription

Subscribed == wait.at \notin {"none", "returned"}
\* Mutant: the channel of the subscription holds no wake-up, only a sleeping
\* waiter receives it.
WokenAsleep == [wait EXCEPT !.woken = wait.at = "asleep"]
Woken == [wait EXCEPT !.woken = Subscribed]

\* beginRun installs the run in the actor, and publishes it, before it executes;
\* what the run commits is shown later.  finishSend frees the actor for a turn.  A
\* promotion takes one queued input; a compaction is refused while there are any.
Begins(c) ==
  /\ ShowsCommitted(c)
  /\ \E taken \in 0..1 :
       /\ taken <= view[c].queue
       /\ \/ Start(c, "ordinary")
          \/ taken = 0 /\ view[c].queue = 0 /\ Start(c, "compaction")
          \/ taken = 0 /\ Continue(c)
       /\ view' = [view EXCEPT ![c] = Canonical(child'[c], view[c].queue - taken)]
  /\ wait' = Woken /\ UNCHANGED observer

\* A Send that found the child active, whose turn may have ended since, or an
\* import, which does not ask: an input may stay in the queue of an idle child.
QueueInput(c) ==
  /\ view[c].queue < MaxQueued /\ Write(c)
  /\ view' = [view EXCEPT ![c].queue = @ + 1]
  /\ wait' = Woken /\ UNCHANGED observer

\* A queued input is deleted, or becomes an instruction of the running turn.
UnqueueInput(c) ==
  /\ view[c].queue > 0 /\ Write(c)
  /\ view' = [view EXCEPT ![c].queue = @ - 1]
  /\ wait' = Woken /\ UNCHANGED observer

\* Receipts and resolved interactions have the parent's view refreshed.
Runs(c) ==
  /\ \/ Write(c) \/ Ask(c) \/ Answer(c) \/ Dispatch(c) \/ Report(c) \/ Wait(c)
     \/ \E input \in BOOLEAN : Return(c, input)
     \/ \E outcome \in {"completed", "stopped"} : End(c, outcome)
  /\ observer' = (observer \/ receipts' # receipts
                    \/ Cardinality(child'[c].open) < Cardinality(child[c].open))
  /\ UNCHANGED <<view, wait>>

Prepares(c) ==
  /\ PassStep(c)
  /\ observer' = (observer \/ receipts' # receipts)
  /\ UNCHANGED <<view, wait>>

PublishView(c) ==
  /\ ~ShowsCommitted(c)
  /\ view' = [view EXCEPT ![c] = Canonical(child[c], view[c].queue)]
  /\ wait' = Woken
  /\ UNCHANGED <<vars, observer>>

ObserveParentEvents ==
  /\ observer /\ observer' = FALSE
  /\ wait' = Woken
  /\ UNCHANGED <<vars, view>>

ParentRuns ==
  /\ ParentStart \/ ParentResumes \/ ParentRetry \/ Admit \/ Respond
  /\ observer' = (observer \/ admitted' # admitted)
  /\ UNCHANGED <<view, wait>>

-----------------------------------------------------------------------------
\* The call

\* subscribe, then the first read.
CallWait ==
  /\ parent.phase = "tool" /\ wait.at = "none" /\ enabled
  /\ wait' = [NoWait EXCEPT !.at = "list", !.todo = Children]
  /\ UNCHANGED <<vars, view, observer>>

\* List reads one actor after the other.
List(c) ==
  /\ wait.at \in {"list", "relist"} /\ c \in wait.todo
  /\ wait' = [wait EXCEPT !.seen[c] = view[c], !.todo = @ \ {c}]
  /\ UNCHANGED <<vars, view, observer>>

\* selectWaitThreads.
Attention == \E c \in Children : wait.seen[c].attention
Active == \E c \in Children : wait.seen[c].active \/ wait.seen[c].queue > 0
Selected == IF Attention THEN "attention" ELSE IF ~Active THEN "completed" ELSE ""

\* Canonical receipts not admitted yet.
PendingReceipts == FirstPending..Len(receipts)

\* Mutant: a receipt is reported as soon as it is read, whatever its source shows.
SettledAlways == TRUE
\* parentEventsSettled: no terminal receipt of an execution still shown active.
Settled ==
  \A i \in wait.page : receipts[i].kind = "terminal" =>
    LET s == wait.seen[receipts[i].child] IN
      ~(s.active /\ s.turn = receipts[i].turn /\ s.run = receipts[i].run)

Returns(reason) == wait' = [wait EXCEPT !.at = "returned", !.reason = reason]
Outcome(reason) == IF reason = "" THEN wait' = [NoWait EXCEPT !.at = "asleep", !.woken = wait.woken] ELSE Returns(reason)

Select ==
  /\ wait.at = "list" /\ wait.todo = {}
  /\ IF Attention THEN Returns("attention") ELSE wait' = [wait EXCEPT !.at = "page"]
  /\ UNCHANGED <<vars, view, observer>>

\* ListParentEvents; a page with receipts has the summaries read again.
ReadPage ==
  /\ wait.at = "page"
  /\ IF PendingReceipts = {} THEN Outcome(Selected)
     ELSE wait' = [wait EXCEPT !.at = "relist", !.todo = Children, !.page = PendingReceipts]
  /\ UNCHANGED <<vars, view, observer>>

SelectAgain ==
  /\ wait.at = "relist" /\ wait.todo = {}
  /\ Outcome(IF Attention \/ ~Settled THEN Selected ELSE "events")
  /\ UNCHANGED <<vars, view, observer>>

\* The flag of the subscription holds one wake-up.
Wake ==
  /\ wait.at = "asleep" /\ wait.woken
  /\ wait' = [wait EXCEPT !.at = "list", !.woken = FALSE, !.todo = Children]
  /\ UNCHANGED <<vars, view, observer>>

TimesOut ==
  /\ wait.at = "asleep" /\ Returns("timed_out")
  /\ UNCHANGED <<vars, view, observer>>

\* The tool's result is saved, or the turn is stopped and the call with it.
WaitEnds ==
  /\ \/ ToolReturns /\ wait.at \in {"none", "returned"}
     \/ ParentStops
  /\ wait' = NoWait /\ UNCHANGED <<view, observer>>

\* The actors of the next process show what the journal says, the queue with it.
Restarts ==
  /\ Restart
  /\ view' = [c \in Children |-> Canonical(child[c], view[c].queue)]
  /\ observer' = FALSE /\ wait' = NoWait

WaitNext ==
  \/ \E c \in Children :
       \/ Begins(c) \/ QueueInput(c) \/ UnqueueInput(c)
       \/ Runs(c) \/ Prepares(c) \/ PublishView(c) \/ List(c)
  \/ ObserveParentEvents \/ ParentRuns \/ CallWait \/ Select \/ ReadPage
  \/ SelectAgain \/ Wake \/ TimesOut \/ WaitEnds \/ Restarts

\* Actors publish, the observer runs and the waiter is scheduled; the timer of
\* the call is not needed for it to return.
WaitFairness ==
  /\ \A c \in Children : WF_allVars(PublishView(c)) /\ WF_allVars(List(c))
  /\ WF_allVars(ObserveParentEvents)
  /\ WF_allVars(Select \/ ReadPage \/ SelectAgain \/ Wake)

WaitSpec == WaitInit /\ [][WaitNext]_allVars /\ WaitFairness

-----------------------------------------------------------------------------
\* Properties

\* A wait that says completed hides nothing: no receipt of what it shows as over
\* is left to read.  One that says events shows none of the ended executions as
\* still running: a receipt alone does not certify that a result can be read.
WaitReliable ==
  /\ wait.reason = "completed" =>
       \A i \in PendingReceipts : receipts[i].turn > wait.seen[receipts[i].child].turn
  /\ wait.reason = "events" =>
       \A i \in wait.page : receipts[i].kind = "terminal" =>
         LET v == view[receipts[i].child] IN
           v.turn > receipts[i].turn \/ (v.turn = receipts[i].turn /\ ~v.active)

\* A wait with something to say returns without its timer: no commit, receipt,
\* queued input taken away or published view falls between its reads and its sleep.
\* It has nothing to say while an input is left in the queue of an idle child.
Due ==
  \/ \E c \in Children : child[c].open # {}
  \/ \A c \in Children : ~child[c].live /\ view[c].queue = 0
  \/ PendingReceipts # {}
WaiterReturns == (Subscribed /\ Due) ~> (~Subscribed \/ ~Due)
=============================================================================
