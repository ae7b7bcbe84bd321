----------------------------- MODULE ParentEvents -----------------------------
(***************************************************************************)
(* What the thread of a subagent tells its parent's thread                  *)
(* (internal/sessiontree/parent_events.go, backend_parent_event*.go): the   *)
(* receipts committed in the transaction of their source, the pass that     *)
(* publishes those a process without parent events left out, the reports of *)
(* a running tool, and their admission to the parent's provider requests.   *)
(*                                                                         *)
(* A child's journal is reduced to what makes a receipt: its live turn and  *)
(* run, the questions it has open, the tool call being dispatched.  The     *)
(* coverage record counts the entries the pass has checked; only whether it *)
(* equals the journal's count is read, so covered is that equality.         *)
(***************************************************************************)
EXTENDS Integers, Sequences, FiniteSets

CONSTANTS
  Children,
  MaxTurns, MaxIds, MaxRuns,     \* bounds, per child
  MaxStarts, MaxRequests         \* bounds: processes, requests of the parent

ASSUME BoundsAssumption == {MaxTurns, MaxIds, MaxRuns, MaxStarts, MaxRequests} \subseteq Nat

VARIABLES
  child,      \* the journal of each child's turns
  covered,    \* the coverage record of a child equals its journal's count
  receipts,   \* EntryParentEvent on the parent's path, in order
  admitted,   \* EntryParentEventsAdmitted: the ranges of receipts given to requests
  enabled,    \* Options.EnableParentEvents of this process
  pass,       \* the preparation of each child in this process
  parent,     \* the execution of the parent
  starts      \* processes so far

vars == <<child, covered, receipts, admitted, enabled, pass, parent, starts>>

Receipt == [child : Children, turn : Nat, run : Nat,
            kind : {"terminal", "interaction", "report"}, id : Nat]

\* open: interactions asked and not resolved.  held: tool results that ask for
\* input before the waiting marker of their run.  call: the dispatched tool call.
NoTurn == [turn |-> 0, run |-> 0, kind |-> "ordinary", live |-> FALSE, exec |-> FALSE,
           open |-> {}, held |-> {}, call |-> 0, ids |-> 0]

\* told: the admissions in the context that the journal projects for the model.
\* The first source of them lie before the entry a retry of the latest turn goes
\* back to, own behind it are of that entry's turn.  saved: those before its
\* save point.  again: some retry was itself retried from where it had started.
\* skip: the execution began again with what is retained, and lacks the
\* admissions behind it up to there.
NoParentTurn == [phase |-> "new", told |-> <<>>, source |-> 0, own |-> 0, saved |-> {},
                 retry |-> FALSE, again |-> FALSE, skip |-> 0, requests |-> 0]

EventsTypeOK ==
  /\ child \in [Children -> [turn : Nat, run : Nat, kind : {"ordinary", "compaction"},
                             live : BOOLEAN, exec : BOOLEAN,
                             open : SUBSET Nat,
                             held : SUBSET Nat, call : Nat, ids : Nat]]
  /\ covered \in [Children -> BOOLEAN]
  /\ receipts \in Seq(Receipt)
  /\ admitted \in Seq(Nat \X Nat)
  /\ enabled \in BOOLEAN /\ starts \in Nat
  /\ pass \in [Children -> {"todo", "scanned", "done"}]
  /\ parent \in [phase : {"new", "idle", "paused", "boundary", "request", "tool"},
                 told : Seq(Nat \X Nat), source : Nat, own : Nat, saved : SUBSET Nat,
                 retry : BOOLEAN, again : BOOLEAN, skip : Nat, requests : Nat]

Init ==
  /\ child = [c \in Children |-> NoTurn]
  /\ covered = [c \in Children |-> FALSE]
  /\ receipts = <<>> /\ admitted = <<>>
  /\ enabled \in BOOLEAN /\ starts = 1
  /\ pass = [c \in Children |-> "todo"]
  /\ parent = NoParentTurn

-----------------------------------------------------------------------------
\* Receipts

\* A receipt is identified by its source: parentEventID, and for a report its
\* invocation.
SameSource(e, f) == e.child = f.child /\ e.kind = f.kind /\ e.id = f.id
Known(e) == \E i \in 1..Len(receipts) : SameSource(receipts[i], e)
Of(c, kind, id) == [child |-> c, turn |-> child[c].turn, run |-> child[c].run,
                    kind |-> kind, id |-> id]

\* The interactions of a child that are unresolved and have no receipt.
Missing(c) ==
  IF child[c].kind = "compaction" THEN {}
  ELSE {i \in child[c].open : ~Known(Of(c, "interaction", i))}

\* The receipts of one transaction in the order their sources were appended.
InOrder(events) ==
  CHOOSE s \in [1..Cardinality(events) -> events] :
    \A i, j \in 1..Cardinality(events) : i < j => s[i].id < s[j].id
Interactions(c, ids) == {Of(c, "interaction", i) : i \in ids}

\* A pass that has read a journal another transaction writes finds it changed when
\* it is about to write, and starts again.
Disturbs(threads) ==
  pass' = [c \in Children |-> IF c \in threads /\ pass[c] = "scanned" THEN "todo" ELSE pass[c]]

\* Mutant: the coverage record advances without the check of what it covered before.
CoverageUnchecked(c) == enabled
Coverage(c) == enabled /\ covered[c]

Published(c, events) ==
  IF ~enabled \/ child[c].kind = "compaction" THEN receipts
  ELSE receipts \o InOrder({e \in events : ~Known(e)})

\* One transaction of child c: its entries, their receipts, its coverage.
\* Receipts move the parent's leaf, and so disturb the passes of all children.
Commits(c, after, events) ==
  /\ child' = [child EXCEPT ![c] = after]
  /\ receipts' = Published(c, events)
  /\ covered' = [covered EXCEPT ![c] = Coverage(c)]
  /\ Disturbs(IF receipts' # receipts THEN Children ELSE {c})
  /\ UNCHANGED <<admitted, enabled, parent, starts>>

-----------------------------------------------------------------------------
\* A child's turn, as far as its parent is told of it

Start(c, kind) ==
  /\ ~child[c].live /\ child[c].turn < MaxTurns
  /\ Commits(c, [child[c] EXCEPT !.turn = @ + 1, !.run = 1, !.kind = kind,
                                 !.live = TRUE, !.exec = TRUE], {})

\* Entries that tell the parent nothing: a queued input, a response of the model.
Write(c) == Commits(c, child[c], {})

Working(c) == child[c].exec /\ child[c].kind = "ordinary"
NextId(c) == child[c].ids + 1
MayAsk(c) == Working(c) /\ child[c].ids < MaxIds

\* An approval, or a question of the control signal.
Ask(c) ==
  /\ MayAsk(c) /\ child[c].call = 0
  /\ Commits(c, [child[c] EXCEPT !.open = @ \cup {NextId(c)}, !.ids = @ + 1],
             Interactions(c, {NextId(c)}))

Answer(c) == \E i \in child[c].open :
  Commits(c, [child[c] EXCEPT !.open = @ \ {i}], {})

Dispatch(c) ==
  /\ MayAsk(c) /\ child[c].open = {} /\ child[c].call = 0
  /\ Commits(c, [child[c] EXCEPT !.call = NextId(c), !.ids = @ + 1], {})

\* The result of the call; one that requires input is held until its run waits.
Return(c, input) ==
  /\ Working(c) /\ child[c].call # 0
  /\ Commits(c, [child[c] EXCEPT !.call = 0,
                   !.held = IF input THEN @ \cup {child[c].call} ELSE @], {})

\* The waiting marker publishes the inputs its run held back.
Wait(c) ==
  /\ Working(c) /\ child[c].call = 0 /\ child[c].open \cup child[c].held # {}
  /\ Commits(c, [child[c] EXCEPT !.open = @ \cup child[c].held, !.held = {}, !.exec = FALSE],
             Interactions(c, child[c].held))

\* A continuation of the turn by another run, whose waiting marker publishes
\* nothing that an earlier run held back.
Continue(c) ==
  /\ child[c].live /\ ~child[c].exec
  /\ child[c].open = {} /\ child[c].call = 0 /\ child[c].run < MaxRuns
  /\ Commits(c, [child[c] EXCEPT !.run = @ + 1, !.exec = TRUE, !.held = {}], {})

\* Completion, failure, stop or interruption; what is open is closed with it.
\* A requested stop, which refuses reports, is taken with its terminal.
End(c, outcome) ==
  /\ child[c].live
  /\ outcome = "completed" =>
       child[c].exec /\ child[c].call = 0 /\ child[c].open \cup child[c].held = {}
  /\ Commits(c, [child[c] EXCEPT !.live = FALSE, !.exec = FALSE, !.open = {},
                                 !.held = {}, !.call = 0],
             {Of(c, "terminal", child[c].turn)})

\* The tool call being dispatched reports to the parent.  A call that reported
\* before is answered with its receipt, or refused, and changes nothing.
Report(c) ==
  /\ enabled /\ child[c].live /\ child[c].call # 0
  /\ ~Known(Of(c, "report", child[c].call))
  /\ receipts' = Append(receipts, Of(c, "report", child[c].call))
  /\ Disturbs(Children)
  /\ UNCHANGED <<child, covered, admitted, enabled, parent, starts>>

-----------------------------------------------------------------------------
\* prepareParentEvents, for each thread once a process has started

Scan(c) ==
  /\ enabled /\ pass[c] = "todo"
  /\ pass' = [pass EXCEPT ![c] = IF covered[c] THEN "done" ELSE "scanned"]
  /\ UNCHANGED <<child, covered, receipts, admitted, enabled, parent, starts>>

RecoverReceipts(c) ==
  /\ pass[c] = "scanned" /\ Missing(c) # {}
  /\ receipts' = receipts \o InOrder(Interactions(c, Missing(c)))
  /\ Disturbs(Children)
  /\ UNCHANGED <<child, covered, admitted, enabled, parent, starts>>

RecordCoverage(c) ==
  /\ pass[c] = "scanned" /\ Missing(c) = {}
  /\ pass' = [pass EXCEPT ![c] = "done"]
  /\ covered' = [covered EXCEPT ![c] = TRUE]
  /\ UNCHANGED <<child, receipts, admitted, enabled, parent, starts>>

-----------------------------------------------------------------------------
\* The parent's requests

\* Its own entries: markers, responses, calls and results.
ParentWrites ==
  Disturbs(Children) /\ UNCHANGED <<child, covered, receipts, admitted, enabled, starts>>

ParentAt(phase) == parent' = [parent EXCEPT !.phase = phase]

\* retryContinuationEntryID: a failed turn is retried from its save point, any
\* other one from its input, and a retry without a save point from the entry
\* that it had started from itself, which is of another turn.
ParentEnds(failed, told) ==
  LET ended == [parent EXCEPT !.phase = "idle", !.told = told, !.saved = {}, !.skip = 0] IN
  parent' = IF failed /\ parent.saved # {}
            THEN LET at == CHOOSE n \in parent.saved : TRUE
                 IN [ended EXCEPT !.source = at, !.own = Len(told) - at, !.retry = FALSE]
            ELSE [ended EXCEPT !.own = IF parent.retry THEN @ ELSE Len(told) - parent.source]

\* A new turn.
ParentStart ==
  /\ parent.phase \in {"new", "idle"}
  /\ parent' = [parent EXCEPT !.phase = "boundary", !.source = Len(parent.told), !.own = 0,
                              !.retry = FALSE]
  /\ ParentWrites

\* A retry, for which the admissions behind its source are kept if they are of
\* the source's turn.
Retained == SubSeq(parent.told, 1, parent.source + parent.own)
ParentRetry ==
  /\ parent.phase = "idle"
  /\ parent' = [parent EXCEPT !.phase = "boundary", !.told = Retained, !.retry = TRUE,
                              !.again = @ \/ parent.retry]
  /\ ParentWrites

\* A turn whose process was lost: its answered question continues it from the
\* journal, or its run executes again as it began, a retry from its source.
ParentResumes ==
  /\ parent.phase = "paused"
  /\ \/ parent' = [parent EXCEPT !.phase = "boundary", !.skip = 0]
     \/ /\ parent.retry
        /\ parent' = [parent EXCEPT !.phase = "boundary", !.skip = Len(parent.told)]
  /\ ParentWrites

\* What the execution tells the model.
Context ==
  IF parent.skip = 0 THEN parent.told
  ELSE Retained \o SubSeq(parent.told, parent.skip + 1, Len(parent.told))

FirstPending == IF admitted = <<>> THEN 1 ELSE admitted[Len(admitted)][2] + 1
HasPending == FirstPending <= Len(receipts)

\* Mutant: the receipts already admitted are not filtered out.
PendingUnfiltered == <<1, Len(receipts)>>
Pending == <<FirstPending, Len(receipts)>>

\* At the boundary of a logical request; the message joins the history the
\* request is made from.  The local append may fail, and with it the turn; a stop
\* requested before the boundary refuses the admission (ParentStops).
Admit ==
  /\ parent.phase = "boundary" /\ parent.requests < MaxRequests
  /\ IF enabled /\ HasPending
       THEN /\ admitted' = Append(admitted, Pending)
            /\ \/ parent' = [parent EXCEPT !.phase = "request", !.requests = @ + 1,
                                           !.told = Append(@, Pending)]
               \/ ParentEnds(TRUE, Append(parent.told, Pending))
            /\ Disturbs(Children)
       ELSE /\ parent' = [parent EXCEPT !.phase = "request", !.requests = @ + 1]
            /\ UNCHANGED <<admitted, pass>>
  /\ UNCHANGED <<child, covered, receipts, enabled, starts>>

\* The response calls a tool, or ends the turn with whatever is pending.
Respond ==
  /\ parent.phase = "request"
  /\ \/ ParentAt("tool")
     \/ \E failed \in BOOLEAN : ParentEnds(failed, parent.told)
  /\ ParentWrites

\* The results, and the save point behind them.
ToolReturns ==
  /\ parent.phase = "tool"
  /\ parent' = [parent EXCEPT !.phase = "boundary", !.saved = {Len(parent.told)}]
  /\ ParentWrites

ParentStops ==
  /\ parent.phase \in {"paused", "boundary", "tool"}
  /\ ParentEnds(FALSE, parent.told) /\ ParentWrites

-----------------------------------------------------------------------------
\* The process is lost; the next one may have the option set differently.
Restart ==
  /\ starts < MaxStarts /\ starts' = starts + 1
  /\ enabled' \in BOOLEAN
  /\ pass' = [c \in Children |-> "todo"]
  /\ child' = [c \in Children |-> [child[c] EXCEPT !.exec = FALSE]]
  /\ parent' = [parent EXCEPT !.phase = IF @ \in {"new", "idle"} THEN @ ELSE "paused"]
  /\ UNCHANGED <<covered, receipts, admitted>>

ChildStep(c) ==
  \/ \E kind \in {"ordinary", "compaction"} : Start(c, kind)
  \/ Write(c) \/ Ask(c) \/ Answer(c) \/ Dispatch(c) \/ Report(c)
  \/ \E input \in BOOLEAN : Return(c, input)
  \/ Wait(c) \/ Continue(c)
  \/ \E outcome \in {"completed", "stopped"} : End(c, outcome)
PassStep(c) == Scan(c) \/ RecoverReceipts(c) \/ RecordCoverage(c)
ParentStep ==
  \/ ParentStart \/ ParentResumes \/ ParentRetry
  \/ Admit \/ Respond \/ ToolReturns \/ ParentStops

Next ==
  \/ \E c \in Children : ChildStep(c) \/ PassStep(c)
  \/ ParentStep \/ Restart

Spec == Init /\ [][Next]_vars

-----------------------------------------------------------------------------
\* Properties

\* With parent events enabled, an unresolved interaction of a child has its
\* receipt wherever the pass will not look again: because this process has
\* prepared the child, or because its coverage record is current, whatever
\* processes without parent events wrote before.  No source has two receipts.
SourcesReported ==
  /\ \A c \in Children :
       enabled /\ (covered[c] \/ pass[c] = "done") => Missing(c) = {}
  /\ \A i, j \in 1..Len(receipts) : SameSource(receipts[i], receipts[j]) => i = j

\* The end of a child's turn is the last the parent hears of that turn: no late
\* report, and no question recovered after the turn that asked it is over.
NothingAfterEnd ==
  \A i, j \in 1..Len(receipts) :
    /\ receipts[i].kind = "terminal" /\ receipts[i].child = receipts[j].child
    /\ i < j
    => receipts[j].turn > receipts[i].turn

\* What the parent is told is what happened: every open question once, wherever
\* nobody looks for it again, and nothing of a turn behind its end.
ReceiptsFaithful == SourcesReported /\ NothingAfterEnd

\* A provider request of the parent carries every receipt admitted until then
\* exactly once and in order, across failed appends, restarts, continuations and
\* retries.  It may lack some only because of a retry that was itself retried, or
\* executed again: what such a retry admits is of neither the source's turn nor
\* the new one.
ToldOnce ==
  parent.phase = "request" =>
    /\ \/ Context = admitted
       \/ /\ parent.again \/ parent.skip > 0
          /\ \A i, j \in 1..Len(Context) : i < j => Context[i][2] < Context[j][1]
    /\ \A i \in 1..Len(admitted) :
         /\ admitted[i][1] = (IF i = 1 THEN 1 ELSE admitted[i-1][2] + 1)
         /\ admitted[i][2] \in admitted[i][1]..Len(receipts)
=============================================================================
