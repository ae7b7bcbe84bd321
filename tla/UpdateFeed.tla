------------------------------ MODULE UpdateFeed ------------------------------
(***************************************************************************)
(* The observation of one thread: the actor's versions and the publication *)
(* of their differences (thread_actor.go, thread_updates.go), the windows  *)
(* of a subscription (thread_window_*.go), and a reader that follows the   *)
(* published protocol: subscribe, take a baseline, apply what Next returns.*)
(*                                                                         *)
(* The content of an item is the version that last changed it, so log, the *)
(* items each version changed, tells the content of every item at every    *)
(* version.  An update is the interval of versions it covers.  Byte        *)
(* budgets, encoding failures and failed reads of stored text are a choice *)
(* of the subscriptions an update is lost for.                             *)
(***************************************************************************)
EXTENDS Integers, Sequences, FiniteSets

CONSTANTS
  Subs,
  Items,
  Changes,          \* sets of items one mutation may change
  Windows,          \* selections a reader may ask for
  Capacity,         \* threadUpdateQueueCount
  MaxVersion, MaxWindows, MaxSubscribes    \* bounds of the instances

ASSUME FeedAssumption ==
  /\ Changes \subseteq SUBSET Items /\ Windows \subseteq (SUBSET Items) \ {{}}
  /\ Capacity \in Nat \ {0}
  /\ {MaxVersion, MaxWindows, MaxSubscribes} \subseteq Nat

VARIABLES
  version, log,     \* the actor's ViewVersion, and the items each version changed
  actor,            \* "broken" while contextErr is set
  pending,          \* coalesced growth, waiting for its timer
  host,             \* "closed" once subscriptionsClosed is set
  hub,              \* the last version published, and the subscriptions
  readers,          \* what each subscriber has accepted
  subscribes        \* subscriptions opened so far

feedVars == <<version, log, actor, pending, host, hub, readers, subscribes>>

Kinds == {"full", "facts", "window"}
NoUpdate == [kind |-> "none"]
NoWindow == [epoch |-> 0, items |-> {}, version |-> 0]

\* kind: only facts, mutations of items, or a replacement of the window.
\* owned: the detail belongs to the interest installed by window call epoch.
Update == [kind : {"facts", "delta", "window"}, base : Nat, view : Nat,
           items : SUBSET Items, growth : BOOLEAN, epoch : Nat, owned : BOOLEAN]

Fresh(kind) ==
  [status |-> "open", kind |-> kind, registered |-> TRUE, queue |-> <<>>,
   inflight |-> NoUpdate, released |-> FALSE, reading |-> {},
   window |-> NoWindow, epochs |-> 0, cleared |-> 0]
\* version 0: no baseline yet.  epoch: the window call whose items are held.
NoReader == [version |-> 0, epoch |-> 0, items |-> {},
             held |-> [i \in Items |-> 0], misapplied |-> FALSE]

FeedTypeOK ==
  /\ version \in Nat /\ log \in Seq(SUBSET Items) /\ Len(log) = version
  /\ actor \in {"live", "broken", "removed", "deleted"} /\ host \in {"open", "closed"}
  /\ pending \in Update \cup {NoUpdate}
  /\ hub.published \in Nat /\ subscribes \in Nat
  /\ hub.subs \in [Subs ->
       [status : {"none", "open", "lost", "closed"}, kind : Kinds,
        registered : BOOLEAN, queue : Seq(Update), inflight : Update \cup {NoUpdate},
        released : BOOLEAN, reading : Windows \cup {{}},
        window : [epoch : Nat, items : SUBSET Items, version : Nat],
        epochs : Nat, cleared : Nat]]
  /\ readers \in [Subs -> [version : Nat, epoch : Nat, items : SUBSET Items,
                           held : [Items -> Nat], misapplied : BOOLEAN]]

FeedInit ==
  /\ version = 1 /\ log = <<Items>> /\ actor = "live"
  /\ pending = NoUpdate /\ host = "open" /\ subscribes = 0
  /\ hub = [published |-> 0,
            subs |-> [s \in Subs |-> [Fresh("full") EXCEPT !.status = "none", !.registered = FALSE]]]
  /\ readers = [s \in Subs |-> NoReader]

sub(s) == hub.subs[s]
Open(s) == sub(s).status = "open"
SubsOpen == {s \in Subs : Open(s)}
Registered == {s \in Subs : sub(s).registered}

\* The content of item i at version v.
Content(i, v) ==
  LET changes == {u \in 1..v : i \in log[u]}
  IN  IF changes = {} THEN 0 ELSE CHOOSE u \in changes : \A w \in changes : w <= u
-----------------------------------------------------------------------------
(* Publication: called with the actor's lock held.                         *)

\* finishLocked: nothing of the subscription survives, and window reads end.
Finish(q, status) == [Fresh(q.kind) EXCEPT !.status = status, !.registered = q.registered]

\* withoutWindowDetail.
Stripped(u) == [u EXCEPT !.kind = "facts", !.items = {}]

Full(q) == Len(q.queue) + (IF q.inflight # NoUpdate THEN 1 ELSE 0) >= Capacity

\* Mutant: a full queue drops the update.
EnqueueDropping(q, u, fits) ==
  IF ~fits THEN Finish(q, "lost")
  ELSE IF Full(q) THEN q ELSE [q EXCEPT !.queue = Append(@, u)]

\* enqueuePreparedLocked.
Enqueue(q, u, fits) ==
  IF fits /\ ~Full(q) THEN [q EXCEPT !.queue = Append(@, u)] ELSE Finish(q, "lost")

\* projectWindowUpdate and replaceWindow: the mutations of the accepted
\* selection, or its content now when items have moved.
Projected(q, u, moved, now) ==
  LET own == [u EXCEPT !.epoch = q.window.epoch, !.owned = TRUE]
  IN  IF q.window = NoWindow THEN Stripped(u)
      ELSE IF moved THEN [own EXCEPT !.kind = "window", !.view = now, !.items = q.window.items]
      ELSE [own EXCEPT !.items = @ \cap q.window.items]

Receive(q, u, moved, now, fits) ==
  LET seen == q.kind = "window" /\ q.window # NoWindow /\ u.view <= q.window.version
      mine == IF q.kind = "full" THEN u
              ELSE IF q.kind = "facts" THEN Stripped(u)
              ELSE Projected(q, u, moved, now)
      after == Enqueue(q, mine, fits)
  IN  IF q.status # "open" \/ seen THEN q
      ELSE IF after.status = "lost" THEN [after EXCEPT !.registered = FALSE]
      ELSE IF q.kind = "window" /\ q.window # NoWindow
           THEN [after EXCEPT !.window.version = mine.view]
           ELSE after

\* deliverUpdateLocked: every registered subscription gets the update once,
\* except those it is lost for.
Deliver(h, u, moved, now, lost) ==
  IF u = NoUpdate \/ host = "closed" \/ u.view <= h.published THEN h
  ELSE [published |-> u.view,
        subs |-> [s \in Subs |->
          IF h.subs[s].registered THEN Receive(h.subs[s], u, moved, now, s \notin lost)
          ELSE h.subs[s]]]

\* flushUpdateLocked; the caller clears pending.
Flushed(now, lost) == Deliver(hub, pending, FALSE, now, lost)

\* invalidateUpdates.
Invalidated(h) ==
  [h EXCEPT !.subs = [s \in Subs |->
     IF ~h.subs[s].registered THEN h.subs[s]
     ELSE [IF h.subs[s].status = "open" THEN Finish(h.subs[s], "lost") ELSE h.subs[s]
             EXCEPT !.registered = FALSE]]]

Versions(items) ==
  /\ version < MaxVersion
  /\ version' = version + 1 /\ log' = Append(log, items)

Mutation(items, grows) ==
  [kind |-> "delta", base |-> version, view |-> version + 1, items |-> items,
   growth |-> grows, epoch |-> 0, owned |-> FALSE]

\* The differences are only recorded for observers, those of the published
\* Subscribe interface included.
Observed(others) == host = "open" /\ (others \/ Registered # {})
-----------------------------------------------------------------------------
(* The actor.                                                              *)

\* Text appended to one item: it joins pending growth of the same item, or
\* flushes it and waits for the timer.
Grow(i) ==
  \E others \in BOOLEAN, lost \in SUBSET SubsOpen :
    /\ actor = "live" /\ Versions({i})
    /\ IF ~Observed(others)
       THEN pending' = NoUpdate /\ UNCHANGED hub
       ELSE IF pending # NoUpdate /\ pending.view = version /\ pending.items = {i}
       THEN pending' = [pending EXCEPT !.view = version + 1] /\ UNCHANGED hub
       ELSE pending' = Mutation({i}, TRUE) /\ hub' = Flushed(version + 1, lost)
    /\ UNCHANGED <<actor, host, readers, subscribes>>

\* Mutant: the timer only knows the update it was started for by its version.
FlushGrowthByVersion ==
  \E lost \in SUBSET SubsOpen :
    /\ pending # NoUpdate /\ pending.view = pending.base + 1
    /\ pending' = NoUpdate /\ hub' = Flushed(version, lost)
    /\ UNCHANGED <<version, log, actor, host, readers, subscribes>>

\* The size of growth reached its limit, or its timer fired.
FlushGrowth ==
  \E lost \in SUBSET SubsOpen :
    /\ pending # NoUpdate
    /\ pending' = NoUpdate /\ hub' = Flushed(version, lost)
    /\ UNCHANGED <<version, log, actor, host, readers, subscribes>>

\* Any other mutation is delivered at once, after the growth before it.
Change(items, moved) ==
  \E others \in BOOLEAN, lost \in SUBSET SubsOpen :
    /\ actor = "live" /\ Versions(items)
    /\ pending' = NoUpdate
    /\ IF Observed(others)
       THEN hub' = Deliver(Flushed(version + 1, lost), Mutation(items, FALSE), moved, version + 1, lost)
       ELSE UNCHANGED hub
    /\ UNCHANGED <<actor, host, readers, subscribes>>

\* A refresh from the journal failed, or a mutation met an actor whose refresh
\* had failed: every subscription ends, whatever it had queued.
Break ==
  /\ actor \in {"live", "broken"}
  /\ actor' = "broken" /\ pending' = NoUpdate /\ hub' = Invalidated(hub)
  /\ \/ UNCHANGED <<version, log>>
     \/ \E items \in Changes : Versions(items)
  /\ UNCHANGED <<host, readers, subscribes>>

\* A full read repairs a broken actor: it installs the journal's view as one
\* more version.
Repair ==
  \E others \in BOOLEAN, lost \in SUBSET SubsOpen, moved \in BOOLEAN :
    /\ host = "open" /\ actor = "broken" /\ Versions(Items) /\ actor' = "live"
    /\ hub' = IF Observed(others)
              THEN Deliver(hub, Mutation(Items, FALSE), moved, version + 1, lost) ELSE hub
    /\ UNCHANGED <<pending, host, readers, subscribes>>

\* What a reader holds after a view; only a full subscription goes on to
\* receive every item of it.
Viewed(q) ==
  IF q.kind # "full" THEN [NoReader EXCEPT !.version = version]
  ELSE [NoReader EXCEPT !.version = version, !.items = Items,
          !.held = [i \in Items |-> Content(i, version)]]

\* Mutant: the snapshot is taken while growth is still pending.
ViewUnflushed(s) ==
  /\ Open(s) /\ readers[s].version = 0 /\ host = "open" /\ actor = "live"
  /\ readers' = [readers EXCEPT ![s] = Viewed(sub(s))]
  /\ UNCHANGED <<version, log, actor, pending, host, hub, subscribes>>

\* View, by a reader without a baseline: growth is flushed before the snapshot.
View(s) ==
  \E lost \in SUBSET SubsOpen :
    /\ Open(s) /\ readers[s].version = 0 /\ host = "open" /\ actor = "live"
    /\ pending' = NoUpdate /\ hub' = Flushed(version, lost)
    /\ readers' = [readers EXCEPT ![s] = Viewed(sub(s))]
    /\ UNCHANGED <<version, log, actor, host, subscribes>>

\* The thread is deleted; its observers are told in a later step.
Delete ==
  /\ actor \in {"live", "broken"}
  /\ actor' = "removed" /\ pending' = NoUpdate
  /\ UNCHANGED <<version, log, host, hub, readers, subscribes>>

InvalidateDeleted ==
  /\ actor = "removed"
  /\ actor' = "deleted" /\ hub' = [Invalidated(hub) EXCEPT !.published = 0]
  /\ UNCHANGED <<version, log, pending, host, readers, subscribes>>

\* close: no more publication, then one subscription after the other ends.
HostCloses ==
  /\ host = "open" /\ host' = "closed"
  /\ hub' = [hub EXCEPT !.subs = [s \in Subs |-> [@[s] EXCEPT !.registered = FALSE]]]
  /\ UNCHANGED <<version, log, actor, pending, readers, subscribes>>
-----------------------------------------------------------------------------
(* Subscriptions and their windows.                                        *)

Becomes(s, q) == hub' = [hub EXCEPT !.subs[s] = q]

\* A new subscription takes the place of one that has ended.
Subscribe(s, kind) ==
  /\ ~Open(s) /\ host = "open" /\ subscribes < MaxSubscribes
  /\ Becomes(s, Fresh(kind)) /\ subscribes' = subscribes + 1
  /\ readers' = [readers EXCEPT ![s] = NoReader]
  /\ UNCHANGED <<version, log, actor, pending, host>>

\* Close, the end of the subscriber's context, or the host closing.
Close(s) ==
  /\ Open(s)
  /\ Becomes(s, [Finish(sub(s), "closed") EXCEPT !.registered = FALSE])
  /\ UNCHANGED <<version, log, actor, pending, host, readers, subscribes>>

\* withWindowRead: the sources are read outside every lock; a later request
\* takes the place of an earlier one.
BeginSetWindow(s, items) ==
  /\ Open(s) /\ sub(s).kind = "window" /\ sub(s).epochs < MaxWindows
  /\ Becomes(s, [sub(s) EXCEPT !.reading = items])
  /\ UNCHANGED <<version, log, actor, pending, host, readers, subscribes>>

\* A failed or cancelled read retains the accepted interest.
FailSetWindow(s) ==
  /\ Open(s) /\ sub(s).reading # {}
  /\ Becomes(s, [sub(s) EXCEPT !.reading = {}])
  /\ UNCHANGED <<version, log, actor, pending, host, readers, subscribes>>

\* retireWindowLocked: queued detail of interest e is withdrawn.
Retired(q, e) ==
  [q EXCEPT !.queue = [k \in DOMAIN @ |->
     IF @[k].owned /\ @[k].epoch = e THEN Stripped(@[k]) ELSE @[k]]]

\* The baseline SetWindow queues.
WindowBaseline(q, items) ==
  [kind |-> "window", base |-> version, view |-> version, items |-> items,
   growth |-> FALSE, epoch |-> q.epochs + 1, owned |-> FALSE]

Installed(q) ==
  LET after == Enqueue(q, WindowBaseline(q, q.reading), TRUE)
  IN  IF after.status # "open" THEN after
      ELSE [Retired(after, q.window.epoch) EXCEPT
              !.reading = {}, !.epochs = @ + 1,
              !.window = [epoch |-> q.epochs + 1, items |-> q.reading, version |-> version]]

\* The commit of SetWindow, one step under the locks of actor and subscription:
\* earlier growth is flushed, the baseline queued, the interest installed.
SetWindow(s) ==
  \E lost \in SUBSET SubsOpen :
    LET h == Flushed(version, lost)
    IN  /\ actor = "live" /\ Open(s) /\ sub(s).reading # {}
        /\ pending' = NoUpdate
        /\ hub' = IF h.subs[s].status # "open" THEN h
                  ELSE [h EXCEPT !.subs[s] = Installed(h.subs[s])]
        /\ UNCHANGED <<version, log, actor, host, readers, subscribes>>

\* Mutant: an update already taken by Next keeps its detail.
ClearedQueue(q) ==
  [q EXCEPT !.window = NoWindow, !.reading = {}, !.cleared = q.epochs,
            !.queue = [k \in DOMAIN @ |-> Stripped(@[k])]]

Cleared(q) ==
  [q EXCEPT !.window = NoWindow, !.reading = {}, !.cleared = q.epochs,
            !.released = q.inflight # NoUpdate,
            !.queue = [k \in DOMAIN @ |-> Stripped(@[k])]]

\* ClearWindow, and the reader drops the items it showed.
ClearWindow(s) ==
  /\ Open(s) /\ (sub(s).window # NoWindow \/ sub(s).reading # {})
  /\ Becomes(s, Cleared(sub(s)))
  /\ readers' = [readers EXCEPT ![s].epoch = 0, ![s].items = {}]
  /\ UNCHANGED <<version, log, actor, pending, host, subscribes>>
-----------------------------------------------------------------------------
(* Next, in two steps: an update is taken, its detail is read outside the  *)
(* locks, and it is returned unless its window was given up meanwhile.     *)

Take(s) ==
  /\ Open(s) /\ sub(s).inflight = NoUpdate /\ sub(s).queue # <<>>
  /\ Becomes(s, [sub(s) EXCEPT !.inflight = Head(sub(s).queue), !.queue = Tail(@)])
  /\ UNCHANGED <<version, log, actor, pending, host, readers, subscribes>>

Withdrawn(q) ==
  q.released \/ (q.inflight.owned /\ q.inflight.epoch # q.window.epoch)

\* What a reader makes of update u: see the contract of ThreadUpdateSource.
\* Growth extends the text the reader holds, it does not carry the item.
Applied(r, kind, u) ==
  LET known == u.view <= r.version
      fits == /\ u.growth => \A i \in u.items : r.held[i] = Content(i, u.base)
              /\ (u.items # {} /\ kind = "window") => u.epoch = r.epoch
  IN  IF u.kind = "window"
      THEN [r EXCEPT !.version = u.view, !.epoch = u.epoch, !.items = u.items,
              !.held = [i \in Items |-> IF i \in u.items THEN Content(i, u.view) ELSE @[i]]]
      ELSE IF r.version = 0 \/ known THEN r
      ELSE [r EXCEPT !.version = u.view, !.misapplied = @ \/ ~fits,
              !.held = [i \in Items |-> IF i \in u.items THEN Content(i, u.view) ELSE @[i]]]

ReturnUpdate(s) ==
  LET q == sub(s)
      u == IF Withdrawn(q) THEN Stripped(q.inflight) ELSE q.inflight
  IN  /\ Open(s) /\ q.inflight # NoUpdate
      /\ readers' = [readers EXCEPT ![s] = Applied(@, q.kind, u)]
      /\ Becomes(s, [q EXCEPT !.inflight = NoUpdate, !.released = FALSE])
      /\ UNCHANGED <<version, log, actor, pending, host, subscribes>>

\* The detail of an accepted interest cannot be read.
HydrationFails(s) ==
  LET q == sub(s)
  IN  /\ Open(s) /\ q.inflight # NoUpdate /\ q.inflight.owned
      /\ q.inflight.items # {} /\ ~Withdrawn(q)
      /\ Becomes(s, Finish(q, "lost"))
      /\ UNCHANGED <<version, log, actor, pending, host, readers, subscribes>>
-----------------------------------------------------------------------------
FeedNext ==
  \/ \E i \in Items : Grow(i)
  \/ \E items \in Changes, moved \in BOOLEAN : Change(items, moved)
  \/ FlushGrowth \/ Break \/ Repair \/ Delete \/ InvalidateDeleted \/ HostCloses
  \/ \E s \in Subs :
       \/ View(s) \/ Close(s)
       \/ \E kind \in Kinds : Subscribe(s, kind)
       \/ \E items \in Windows : BeginSetWindow(s, items)
       \/ FailSetWindow(s) \/ SetWindow(s) \/ ClearWindow(s)
       \/ Take(s) \/ ReturnUpdate(s) \/ HydrationFails(s)

\* The timer fires, a reader keeps calling Next, and a deletion or a shutdown
\* that has begun gets to every subscription.
Fairness ==
  /\ WF_feedVars(FlushGrowth) /\ WF_feedVars(InvalidateDeleted)
  /\ \A s \in Subs : /\ WF_feedVars(Take(s)) /\ WF_feedVars(ReturnUpdate(s))
                     /\ WF_feedVars(host = "closed" /\ Close(s))

FeedSpec == FeedInit /\ [][FeedNext]_feedVars /\ Fairness
-----------------------------------------------------------------------------
(* What a subscription promises.                                           *)

\* What the reader has still to take, in order.
Path(s) ==
  (IF sub(s).inflight = NoUpdate THEN <<>> ELSE <<sub(s).inflight>>) \o sub(s).queue

Explicit(u) == u.kind = "window" /\ ~u.owned

\* The version the reader is at before it takes the k-th update of its path,
\* 0 while it has no baseline.
Reached(s, k) ==
  LET accepted == {readers[s].version} \cup
        {Path(s)[j].view : j \in {j \in 1..k - 1 :
            \/ readers[s].version > 0
            \/ \E m \in 1..j : Explicit(Path(s)[m])}}
  IN  CHOOSE v \in accepted : \A w \in accepted : w <= v

\* Along what is in flight, queued and pending, every update a reader accepts
\* continues exactly the version it is at, and the last one brings it to the
\* actor's version: no version is skipped, none straddles a baseline, and a
\* slow reader is told (thread-updates.md: "Overflow closes it explicitly and
\* never blocks the provider or overwrites a semantic mutation").
UnbrokenFeed ==
  host = "open" /\ actor \in {"live", "broken"} =>
    \A s \in SubsOpen :
      LET n == Len(Path(s))
      IN  /\ \A k \in 1..n : Reached(s, k) > 0 =>
               \/ Path(s)[k].view <= Reached(s, k)
               \/ Path(s)[k].base = Reached(s, k)
          /\ Reached(s, n + 1) > 0 =>
               Reached(s, n + 1) = IF pending = NoUpdate THEN version ELSE pending.base

\* What a reader holds of its items is their content at the version it is at,
\* unless the baseline of its next window is on the way, and growth is only
\* ever appended to the text it continues.
DetailApplies ==
  \A s \in SubsOpen :
    /\ ~readers[s].misapplied
    /\ \/ \A i \in readers[s].items : readers[s].held[i] = Content(i, readers[s].version)
       \/ \E k \in DOMAIN Path(s) : Explicit(Path(s)[k])

\* A window that was cleared never comes back, not even when a read of its
\* detail was in progress (Next: "never resurrect its obsolete detail").
ClearedStaysCleared ==
  \A s \in SubsOpen : readers[s].epoch # 0 => readers[s].epoch > sub(s).cleared

\* A reader that keeps reading gets to every version of the actor, or learns
\* that it needs a new baseline.
ReaderCatchesUp ==
  \A s \in Subs, v \in 1..MaxVersion :
    (Open(s) /\ readers[s].version > 0 /\ version = v)
      ~> (readers[s].version >= v \/ ~Open(s))
=============================================================================
