---------------------------- MODULE ObserverProofs ----------------------------
(***************************************************************************)
(* Proofs about those who observe a thread from outside: the readers of    *)
(* its updates (UpdateFeed) and the thread that its subagents report to,   *)
(* which may wait for them (ParentEvents, ThreadWait); for every set of    *)
(* items, subscriptions, windows and children and every bound.             *)
(*                                                                         *)
(* A reader: the updates it accepts continue the version it is at and lead *)
(* it to the one the actor has told of, what it applies is the content of  *)
(* that version, and a window it has cleared stays cleared.  The argument  *)
(* is about the path of a subscription: the update in flight and the queue *)
(* behind it.  Their versions are a chain that begins where the reader is  *)
(* and ends where the actor is (Chained); and the path's detail, folded in *)
(* order over what the reader holds, is accurate at its end (Detailed).    *)
(* Publication extends a path at its end, ReturnUpdate takes its beginning *)
(* away, and a full queue drops all of it at once.                         *)
(*                                                                         *)
(* A parent: its receipts are of what its children did, no source twice    *)
(* and nothing of a turn behind its end (ReceiptsInv); its requests carry  *)
(* the receipts in the order of their admission (ToldInv); and what a wait *)
(* returns is what the views it read show (WaitInv).                       *)
(***************************************************************************)
EXTENDS UpdateFeed, ThreadWait, FiniteSetTheorems, TLAPS

-----------------------------------------------------------------------------
(* What is in flight and queued, and the chain its versions form.           *)

Subscription ==
  [status : {"none", "open", "lost", "closed"}, kind : Kinds, registered : BOOLEAN,
   queue : Seq(Update), inflight : Update \cup {NoUpdate}, released : BOOLEAN,
   reading : SUBSET Items, window : [epoch : Nat, items : SUBSET Items, version : Nat],
   epochs : Nat, cleared : Nat]

Baseline(u) == u.base = u.view

PathOf(q) == (IF q.inflight = NoUpdate THEN <<>> ELSE <<q.inflight>>) \o q.queue

\* p: a path, v: the version its reader is at.
Linked(p, strict) ==
  \A k \in 1..Len(p) :
    /\ 0 < p[k].base /\ p[k].base <= p[k].view
    /\ \A j \in 1..(k - 1) : p[j].view <= p[k].base
    /\ k > 1 => p[k].base = p[k - 1].view \/ (~strict /\ Baseline(p[k]))

At(p, v, strict) ==
  \/ v = 0 \/ Len(p) = 0
  \/ Len(p) > 0 /\ v = p[1].base
  \/ \E k \in 1..Len(p) : v = p[k].view
  \/ Len(p) > 0 /\ ~strict /\ Baseline(p[1]) /\ v <= p[1].base

EndsAt(p, v, told) ==
  IF Len(p) = 0 THEN v \in {0, told} ELSE p[Len(p)].view = told

\* now: no version of the path or of the reader is ahead of it.
Chained(p, v, strict, told, now) ==
  /\ v <= now /\ \A k \in 1..Len(p) : p[k].view <= now
  /\ Linked(p, strict) /\ At(p, v, strict)
  /\ strict => EndsAt(p, v, told)

LEMMA UpdateIsRecord ==
  ASSUME NEW u \in Update
  PROVE  /\ u.base \in Nat /\ u.view \in Nat /\ u.items \in SUBSET Items /\ u.epoch \in Nat
         /\ u.growth \in BOOLEAN /\ u.owned \in BOOLEAN
         /\ u.kind \in {"facts", "delta", "window"} /\ u # NoUpdate
  BY DEF Update, NoUpdate

LEMMA PathTyped ==
  ASSUME NEW q \in Subscription
  PROVE  /\ PathOf(q) \in Seq(Update)
         /\ q.inflight = NoUpdate => PathOf(q) = q.queue
         /\ q.inflight # NoUpdate =>
              /\ q.inflight \in Update
              /\ Len(PathOf(q)) = Len(q.queue) + 1 /\ PathOf(q)[1] = q.inflight
              /\ \A k \in 1..Len(q.queue) : PathOf(q)[k + 1] = q.queue[k]
<1>1. q.queue \in Seq(Update) /\ q.inflight \in Update \cup {NoUpdate}
  BY DEF Subscription
<1>2. CASE q.inflight = NoUpdate
  <2>1. PathOf(q) = <<>> \o q.queue
    BY <1>2 DEF PathOf
  <2>2. <<>> \o q.queue = q.queue
    BY <1>1
  <2>3. QED
    BY <1>1, <1>2, <2>1, <2>2
<1>3. CASE q.inflight # NoUpdate
  <2>1. PathOf(q) = <<q.inflight>> \o q.queue /\ q.inflight \in Update
    BY <1>1, <1>3 DEF PathOf
  <2>2. <<q.inflight>> \in Seq(Update)
    BY <2>1
  <2>3. QED
    BY <1>1, <1>3, <2>1, <2>2
<1>4. QED
  BY <1>2, <1>3

LEMMA PathGrows ==
  ASSUME NEW q \in Subscription, NEW q2 \in Subscription, NEW m \in Update,
         q2.inflight = q.inflight, q2.queue = Append(q.queue, m)
  PROVE  PathOf(q2) = Append(PathOf(q), m)
<1>1. q.queue \in Seq(Update)
  BY DEF Subscription
<1>2. CASE q.inflight = NoUpdate
  BY <1>1, <1>2, PathTyped
<1>3. CASE q.inflight # NoUpdate
  <2>1. q.inflight \in Update /\ <<q.inflight>> \in Seq(Update)
    BY <1>3, PathTyped
  <2>2. <<q.inflight>> \o Append(q.queue, m) = Append(<<q.inflight>> \o q.queue, m)
    BY <1>1, <2>1
  <2>3. QED
    BY <1>3, <2>2 DEF PathOf
<1>4. QED
  BY <1>2, <1>3

LEMMA PathTaken ==
  ASSUME NEW q \in Subscription, NEW q2 \in Subscription,
         q.inflight = NoUpdate, q.queue # <<>>,
         q2.inflight = Head(q.queue), q2.queue = Tail(q.queue)
  PROVE  PathOf(q2) = PathOf(q)
<1>1. q.queue \in Seq(Update) /\ Head(q.queue) \in Update
  BY DEF Subscription
<1>2. Head(q.queue) # NoUpdate
  BY <1>1, UpdateIsRecord
<1>3. <<Head(q.queue)>> \o Tail(q.queue) = q.queue
  BY <1>1
<1>4. QED
  BY <1>2, <1>3, PathTyped DEF PathOf

LEMMA PathReturned ==
  ASSUME NEW q \in Subscription, NEW q2 \in Subscription,
         q.inflight # NoUpdate, q2.inflight = NoUpdate, q2.queue = q.queue
  PROVE  PathOf(q2) = Tail(PathOf(q)) /\ PathOf(q) # <<>>
<1>1. q.queue \in Seq(Update) /\ q.inflight \in Update
  BY PathTyped DEF Subscription
<1>2. Tail(<<q.inflight>> \o q.queue) = q.queue /\ <<q.inflight>> \o q.queue # <<>>
  BY <1>1
<1>3. QED
  BY <1>2, PathTyped DEF PathOf
-----------------------------------------------------------------------------
-----------------------------------------------------------------------------
LEMMA UpdateAt ==
  ASSUME NEW p \in Seq(Update), NEW k \in 1..Len(p)
  PROVE  p[k] \in Update /\ p[k].base \in Nat /\ p[k].view \in Nat
<1>1. p[k] \in Update
  OBVIOUS
<1>2. QED
  BY <1>1, UpdateIsRecord

LEMMA ChainGrows ==
  ASSUME NEW p \in Seq(Update), NEW v \in Nat, NEW now \in Nat, NEW m \in Update,
         NEW strict \in BOOLEAN, Chained(p, v, strict, m.base, now),
         0 < m.base, m.base <= m.view, m.view <= now,
         strict \/ (Baseline(m) /\ m.base = now)
  PROVE  Chained(Append(p, m), v, strict, m.view, now)
<1> DEFINE p2 == Append(p, m)
<1>1. /\ Len(p) \in Nat /\ Len(p2) = Len(p) + 1 /\ p2[Len(p2)] = m
      /\ \A k \in 1..Len(p) : p2[k] = p[k]
  OBVIOUS
<1> HIDE DEF p2
<1>2. \A k \in 1..Len(p) : p[k].view \in Nat /\ p[k].base \in Nat
  BY UpdateAt
<1>3. m.base \in Nat /\ m.view \in Nat
  BY UpdateIsRecord
<1>4. \A k \in 1..Len(p) : p[k].view <= m.base
  <2>1. CASE strict
    <3>1. ASSUME Len(p) > 0
          PROVE  p[Len(p)].view = m.base /\ \A j \in 1..(Len(p) - 1) : p[j].view <= p[Len(p)].base
      BY <1>1, <2>1, <3>1 DEF Chained, EndsAt, Linked
    <3>2. ASSUME Len(p) > 0
          PROVE  p[Len(p)].base <= p[Len(p)].view
      BY <1>1, <3>2 DEF Chained, Linked
    <3>3. QED
      BY <1>1, <1>2, <1>3, <3>1, <3>2
  <2>2. CASE ~strict
    BY <2>2 DEF Chained
  <2>3. QED
    BY <2>1, <2>2
<1>5. Linked(p2, strict)
  <2>1. ASSUME NEW k \in 1..Len(p)
        PROVE  /\ 0 < p2[k].base /\ p2[k].base <= p2[k].view
               /\ \A j \in 1..(k - 1) : p2[j].view <= p2[k].base
               /\ k > 1 => p2[k].base = p2[k - 1].view \/ (~strict /\ Baseline(p2[k]))
    <3>1. \A j \in 1..k : p2[j] = p[j]
      BY <1>1
    <3>2. QED
      BY <3>1 DEF Chained, Linked
  <2>2. /\ 0 < p2[Len(p2)].base /\ p2[Len(p2)].base <= p2[Len(p2)].view
        /\ \A j \in 1..(Len(p2) - 1) : p2[j].view <= p2[Len(p2)].base
    BY <1>1, <1>4
  <2>3. Len(p2) > 1 => p2[Len(p2)].base = p2[Len(p2) - 1].view \/ (~strict /\ Baseline(p2[Len(p2)]))
    <3>1. CASE strict
      BY <1>1, <3>1 DEF Chained, EndsAt
    <3>2. CASE ~strict
      BY <1>1, <3>2
    <3>3. QED
      BY <3>1, <3>2
  <2>4. QED
    BY <1>1, <2>1, <2>2, <2>3 DEF Linked
<1>6. At(p2, v, strict)
  <2>1. CASE Len(p) = 0
    <3>1. Len(p2) = 1 /\ p2[1] = m
      BY <1>1, <2>1
    <3>2. CASE strict
      BY <2>1, <3>1, <3>2 DEF Chained, EndsAt, At
    <3>3. CASE ~strict
      BY <3>1, <3>3 DEF Chained, At
    <3>4. QED
      BY <3>2, <3>3
  <2>2. CASE Len(p) > 0
    BY <1>1, <2>2 DEF Chained, At
  <2>3. QED
    BY <1>1, <2>1, <2>2
<1>7. EndsAt(p2, v, m.view)
  BY <1>1 DEF EndsAt
<1>8. \A k \in 1..Len(p2) : p2[k].view <= now
  BY <1>1 DEF Chained
<1>9. QED
  BY <1>5, <1>6, <1>7, <1>8 DEF Chained, p2

LEMMA ChainLoosens ==
  ASSUME NEW p \in Seq(Update), NEW v \in Nat, NEW now \in Nat, NEW now2 \in Nat,
         NEW strict \in BOOLEAN, NEW strict2 \in BOOLEAN, NEW told, NEW told2,
         Chained(p, v, strict, told, now), now <= now2, strict2 => strict /\ told2 = told
  PROVE  Chained(p, v, strict2, told2, now2)
<1>1. \A k \in 1..Len(p) : p[k].view \in Nat /\ p[k].view <= now2
  BY UpdateAt DEF Chained
<1>2. Linked(p, strict2) /\ At(p, v, strict2)
  BY DEF Chained, Linked, At
<1>3. QED
  BY <1>1, <1>2 DEF Chained

LEMMA ChainEmpty ==
  ASSUME NEW now \in Nat, NEW strict, NEW told
  PROVE  Chained(<<>>, 0, strict, told, now)
  BY DEF Chained, Linked, At, EndsAt

LEMMA LinkedSame ==
  ASSUME NEW p \in Seq(Update), NEW p2 \in Seq(Update), NEW strict,
         Linked(p, strict), Len(p2) = Len(p),
         \A k \in 1..Len(p) : p2[k].base = p[k].base /\ p2[k].view = p[k].view
  PROVE  Linked(p2, strict)
<1>1. ASSUME NEW k \in 1..Len(p), k > 1
      PROVE  k - 1 \in 1..Len(p)
  BY <1>1
<1>2. ASSUME NEW k \in 1..Len(p), NEW j \in 1..(k - 1)
      PROVE  j \in 1..Len(p)
  BY <1>2
<1>3. QED
  BY <1>1, <1>2 DEF Linked, Baseline

LEMMA AtSame ==
  ASSUME NEW p \in Seq(Update), NEW p2 \in Seq(Update), NEW v, NEW strict,
         At(p, v, strict), Len(p2) = Len(p),
         \A k \in 1..Len(p) : p2[k].base = p[k].base /\ p2[k].view = p[k].view
  PROVE  At(p2, v, strict)
<1>1. Len(p) > 0 => 1 \in 1..Len(p)
  OBVIOUS
<1>2. QED
  BY <1>1 DEF At, Baseline

LEMMA ChainSame ==
  ASSUME NEW p \in Seq(Update), NEW p2 \in Seq(Update), NEW v, NEW now, NEW strict, NEW told,
         Chained(p, v, strict, told, now), Len(p2) = Len(p),
         \A k \in 1..Len(p) : p2[k].base = p[k].base /\ p2[k].view = p[k].view
  PROVE  Chained(p2, v, strict, told, now)
<1>1. Linked(p2, strict) /\ At(p2, v, strict)
  BY LinkedSame, AtSame DEF Chained
<1>2. strict => EndsAt(p2, v, told)
  <2>1. Len(p) # 0 => Len(p) \in 1..Len(p)
    OBVIOUS
  <2>2. QED
    BY <2>1 DEF Chained, EndsAt
<1>3. QED
  BY <1>1, <1>2 DEF Chained

LEMMA ChainViewed ==
  ASSUME NEW p \in Seq(Update), NEW now \in Nat, NEW v, Chained(p, v, TRUE, now, now)
  PROVE  Chained(p, now, TRUE, now, now)
<1>1. At(p, now, TRUE)
  <2>1. Len(p) \in Nat
    OBVIOUS
  <2>2. QED
    BY <2>1 DEF Chained, EndsAt, At
<1>2. EndsAt(p, now, now)
  BY DEF Chained, EndsAt
<1>3. Linked(p, TRUE) /\ \A k \in 1..Len(p) : p[k].view <= now
  BY DEF Chained
<1>4. now <= now
  OBVIOUS
<1> QED
  BY ONLY <1>1, <1>2, <1>3, <1>4 DEF Chained

LEMMA ChainReturned ==
  ASSUME NEW p \in Seq(Update), p # <<>>, NEW v \in Nat, NEW v2 \in Nat, NEW now \in Nat,
         NEW strict \in BOOLEAN, NEW told \in Nat, Chained(p, v, strict, told, now),
         v2 = p[1].view \/ (v2 = v /\ (v = 0 \/ p[1].view <= v))
  PROVE  Chained(Tail(p), v2, strict, told, now)
<1> DEFINE p2 == Tail(p)
<1>1. /\ Len(p) \in Nat /\ Len(p) > 0 /\ Len(p2) = Len(p) - 1
      /\ \A k \in 1..Len(p2) : p2[k] = p[k + 1]
  OBVIOUS
<1> HIDE DEF p2
<1>2. \A k \in 1..Len(p) : p[k].view \in Nat /\ p[k].base \in Nat
  BY UpdateAt
<1>3. Linked(p2, strict)
  <2>1. ASSUME NEW k \in 1..Len(p2)
        PROVE  /\ 0 < p2[k].base /\ p2[k].base <= p2[k].view
               /\ \A j \in 1..(k - 1) : p2[j].view <= p2[k].base
               /\ k > 1 => p2[k].base = p2[k - 1].view \/ (~strict /\ Baseline(p2[k]))
    <3>1. k + 1 \in 1..Len(p) /\ p2[k] = p[k + 1]
      BY <1>1
    <3>2. \A j \in 1..(k - 1) : p2[j] = p[j + 1] /\ j + 1 \in 1..((k + 1) - 1)
      BY <1>1
    <3>3. k > 1 => p2[k - 1] = p[(k + 1) - 1]
      BY <1>1
    <3>4. /\ 0 < p[k + 1].base /\ p[k + 1].base <= p[k + 1].view
          /\ \A j \in 1..((k + 1) - 1) : p[j].view <= p[k + 1].base
          /\ p[k + 1].base = p[(k + 1) - 1].view \/ (~strict /\ Baseline(p[k + 1]))
      BY <3>1 DEF Chained, Linked
    <3>5. \A j \in 1..(k - 1) : p2[j].view <= p2[k].base
      BY <3>1, <3>2, <3>4
    <3>6. QED
      BY <3>1, <3>3, <3>4, <3>5
  <2>2. QED
    BY <2>1 DEF Linked
<1>4. v = 0 \/ v <= p[1].view \/ \E k \in 2..Len(p) : v = p[k].view
  BY <1>1, <1>2 DEF Chained, At, Baseline, Linked
<1>5. v2 = 0 \/ v2 = p[1].view \/ \E k \in 1..Len(p2) : v2 = p2[k].view
  <2>1. ASSUME NEW k \in 2..Len(p)
        PROVE  k - 1 \in 1..Len(p2) /\ p2[k - 1] = p[k]
    BY <1>1
  <2>2. CASE v2 = p[1].view
    BY <2>2
  <2>3. CASE v2 # p[1].view /\ v2 # 0
    <3>1. v2 = v /\ \E k \in 2..Len(p) : v = p[k].view
      BY <1>1, <1>2, <1>4, <2>3
    <3>2. PICK k \in 2..Len(p) : v2 = p[k].view
      BY <3>1
    <3>3. QED
      BY <2>1, <3>2
  <2>4. QED
    BY <2>2, <2>3
<1>6. At(p2, v2, strict)
  <2>1. CASE Len(p2) = 0
    BY <2>1 DEF At
  <2>2. CASE v2 = p[1].view /\ Len(p2) > 0
    <3>1. 2 \in 1..Len(p) /\ p2[1] = p[2]
      BY <1>1, <2>2
    <3>2. p[1].view <= p[2].base /\ (p[2].base = p[1].view \/ (~strict /\ Baseline(p[2])))
      BY <3>1 DEF Chained, Linked
    <3>3. QED
      BY <2>2, <3>1, <3>2 DEF At
  <2>3. QED
    BY <1>1, <1>5, <2>1, <2>2 DEF At
<1>7. ASSUME strict
      PROVE  EndsAt(p2, v2, told)
  <2>1. p[Len(p)].view = told
    BY <1>1, <1>7 DEF Chained, EndsAt
  <2>2. CASE Len(p2) = 0
    <3>1. Len(p) = 1
      BY <1>1, <2>2
    <3>2. p[1].view = told
      BY <2>1, <3>1
    <3>3. v2 \in {0, told}
      BY <1>5, <2>2, <3>2
    <3>4. QED
      BY <2>2, <3>3 DEF EndsAt
  <2>3. CASE Len(p2) > 0
    <3>1. p2[Len(p2)] = p[Len(p)]
      <4>1. Len(p2) \in 1..Len(p2) /\ Len(p2) + 1 = Len(p)
        BY <1>1, <2>3
      <4>2. QED
        BY <1>1, <4>1
    <3>2. QED
      BY ONLY <2>1, <2>3, <3>1 DEF EndsAt
  <2>4. Len(p2) = 0 \/ Len(p2) > 0
    BY <1>1
  <2>5. QED
    BY <2>2, <2>3, <2>4
<1>8. \A k \in 1..Len(p2) : p2[k].view <= now
  BY <1>1 DEF Chained
<1>9. v2 <= now
  BY <1>1 DEF Chained
<1>10. QED
  BY <1>3, <1>6, <1>7, <1>8, <1>9 DEF Chained, p2

-----------------------------------------------------------------------------
(* What an update says of the content of items.                            *)

Latest(changes) ==
  IF changes = {} THEN 0 ELSE CHOOSE u \in changes : \A w \in changes : w <= u

ContentOf(lg, i, v) == Latest({u \in 1..v : i \in lg[u]})

\* Beside its items, an update covers no change of the items given.
Tells(lg, u, items) ==
  \A i \in items \ u.items : ContentOf(lg, i, u.view) = ContentOf(lg, i, u.base)

Accurate(lg, r) == \A i \in r.items : r.held[i] = ContentOf(lg, i, r.version)

LEMMA ContentLogged == ASSUME NEW i, NEW v PROVE Content(i, v) = ContentOf(log, i, v)
  BY DEF Content, ContentOf, Latest

LEMMA ContentKept ==
  ASSUME NEW lg, NEW lg2, NEW i, NEW v, \A u \in 1..v : lg2[u] = lg[u]
  PROVE  ContentOf(lg2, i, v) = ContentOf(lg, i, v)
<1>1. {u \in 1..v : i \in lg2[u]} = {u \in 1..v : i \in lg[u]}
  OBVIOUS
<1>2. QED
  BY <1>1 DEF ContentOf

LEMMA ContentStays ==
  ASSUME NEW lg, NEW i, NEW v \in Nat, NEW w \in Nat, v <= w,
         \A u \in (v + 1)..w : i \notin lg[u]
  PROVE  ContentOf(lg, i, w) = ContentOf(lg, i, v)
<1>1. {u \in 1..w : i \in lg[u]} = {u \in 1..v : i \in lg[u]}
  OBVIOUS
<1>2. QED
  BY <1>1 DEF ContentOf
-----------------------------------------------------------------------------
(* The detail on its way: what a reader will apply.                        *)

\* The update that is being read, as it would be returned now.
Shown(q) ==
  [q EXCEPT !.inflight = IF q.inflight # NoUpdate /\ Withdrawn(q) THEN Stripped(@) ELSE @]

Effective(q) == PathOf(Shown(q))

Plain(u) == u.kind = "facts" /\ u.items = {}

\* An update of the items that window w selects.
OwnDetail(lg, u, w) ==
  /\ w # NoWindow /\ u.owned /\ u.epoch = w.epoch /\ u.base < u.view
  /\ \/ u.kind = "window" /\ u.items = w.items
     \/ u.kind = "delta" /\ u.items \subseteq w.items /\ Tells(lg, u, w.items)

\* Along p only the baselines and what follows the last of them has detail, and
\* a reader past the last baseline shows what the window selects.
WindowDetail(lg, p, w, r) ==
  /\ \A k \in 1..Len(p) :
       \/ Explicit(p[k])
       \/ Plain(p[k]) /\ (w = NoWindow \/ \E j \in (k + 1)..Len(p) : Explicit(p[j]))
       \/ OwnDetail(lg, p[k], w) /\ \A j \in (k + 1)..Len(p) : ~Explicit(p[j])
  /\ \A k \in 1..Len(p) : Explicit(p[k]) /\ (\A j \in (k + 1)..Len(p) : ~Explicit(p[j])) =>
       w # NoWindow /\ p[k].epoch = w.epoch /\ p[k].items = w.items
  /\ (\A k \in 1..Len(p) : ~Explicit(p[k])) =>
       r.epoch = w.epoch /\ r.items = w.items /\ Accurate(lg, r)
  /\ r.version = 0 => r.items = {} /\ r.epoch = 0

FullDetail(lg, p, r) ==
  /\ \A k \in 1..Len(p) : /\ p[k].kind = "delta" /\ ~p[k].owned /\ p[k].base < p[k].view
                          /\ Tells(lg, p[k], Items)
  /\ r.items = IF r.version = 0 THEN {} ELSE Items
  /\ Accurate(lg, r)

FactsDetail(p, r) ==
  /\ \A k \in 1..Len(p) : Plain(p[k])
  /\ r.items = {}

Detailed(lg, q, r) ==
  /\ ~r.misapplied
  /\ q.released => q.inflight # NoUpdate
  /\ q.kind # "window" => ~q.released /\ q.window = NoWindow /\ q.reading = {}
  /\ q.kind = "full" => FullDetail(lg, Effective(q), r)
  /\ q.kind = "facts" => FactsDetail(Effective(q), r)
  /\ q.kind = "window" => WindowDetail(lg, Effective(q), q.window, r)

LEMMA StrippedUpdate ==
  ASSUME NEW u \in Update
  PROVE  /\ Stripped(u) \in Update /\ Plain(Stripped(u))
         /\ Stripped(u).base = u.base /\ Stripped(u).view = u.view
         /\ Stripped(u).growth = u.growth /\ Stripped(u).owned = u.owned
         /\ Stripped(u).epoch = u.epoch
         /\ Plain(u) => Stripped(u) = u
  BY DEF Update, Stripped, Plain

LEMMA ShownTyped ==
  ASSUME NEW q \in Subscription
  PROVE  /\ Shown(q) \in Subscription /\ Shown(q).queue = q.queue
         /\ q.inflight = NoUpdate <=> Shown(q).inflight = NoUpdate
         /\ q.inflight = NoUpdate => Shown(q) = q
         /\ Shown(q).inflight =
              IF q.inflight # NoUpdate /\ Withdrawn(q) THEN Stripped(q.inflight) ELSE q.inflight
<1>1. q.inflight # NoUpdate => q.inflight \in Update
  BY DEF Subscription
<1>2. DEFINE f == IF q.inflight # NoUpdate /\ Withdrawn(q) THEN Stripped(q.inflight) ELSE q.inflight
<1>3. f \in Update \cup {NoUpdate} /\ (q.inflight = NoUpdate <=> f = NoUpdate)
  BY <1>1, StrippedUpdate, UpdateIsRecord
<1>4. Shown(q) = [q EXCEPT !.inflight = f]
  BY DEF Shown
<1> HIDE DEF f
<1>5. Shown(q) \in Subscription /\ Shown(q).queue = q.queue /\ Shown(q).inflight = f
  BY <1>3, <1>4 DEF Subscription
<1>6. q.inflight = NoUpdate => Shown(q) = q
  BY <1>3, <1>4 DEF Subscription
<1>7. QED
  BY <1>3, <1>5, <1>6 DEF f

LEMMA EffectiveTyped ==
  ASSUME NEW q \in Subscription
  PROVE  /\ Effective(q) \in Seq(Update) /\ Len(Effective(q)) = Len(PathOf(q))
         /\ \A k \in 1..Len(PathOf(q)) : /\ Effective(q)[k].base = PathOf(q)[k].base
                                         /\ Effective(q)[k].view = PathOf(q)[k].view
                                         /\ Effective(q)[k] \in {PathOf(q)[k], Stripped(PathOf(q)[k])}
<1>1. CASE q.inflight = NoUpdate
  BY <1>1, ShownTyped, PathTyped DEF Effective
<1>2. CASE q.inflight # NoUpdate
  <2>1. q.queue \in Seq(Update) /\ q.inflight \in Update
    BY <1>2 DEF Subscription
  <2>2. /\ Len(PathOf(q)) = Len(q.queue) + 1 /\ PathOf(q)[1] = q.inflight
        /\ \A k \in 1..Len(q.queue) : PathOf(q)[k + 1] = q.queue[k]
    BY <1>2, PathTyped
  <2>3. /\ Len(Effective(q)) = Len(q.queue) + 1 /\ Effective(q)[1] = Shown(q).inflight
        /\ \A k \in 1..Len(q.queue) : Effective(q)[k + 1] = q.queue[k]
        /\ Effective(q) \in Seq(Update)
    BY <1>2, ShownTyped, PathTyped DEF Effective
  <2>4. Shown(q).inflight \in {q.inflight, Stripped(q.inflight)}
    BY ShownTyped
  <2>5. ASSUME NEW k \in 1..Len(PathOf(q)), k # 1
        PROVE  Effective(q)[k] = PathOf(q)[k]
    <3>1. k - 1 \in 1..Len(q.queue) /\ k = (k - 1) + 1
      BY <2>1, <2>2, <2>5
    <3>2. QED
      BY <2>2, <2>3, <3>1
  <2>6. Effective(q)[1] \in {PathOf(q)[1], Stripped(PathOf(q)[1])}
    BY <2>2, <2>3, <2>4
  <2>7. Effective(q)[1].base = PathOf(q)[1].base /\ Effective(q)[1].view = PathOf(q)[1].view
    BY <2>1, <2>2, <2>6, StrippedUpdate
  <2>8. QED
    BY <2>2, <2>3, <2>5, <2>6, <2>7
<1>3. QED
  BY <1>1, <1>2
-----------------------------------------------------------------------------
(* Detail along the moves of a subscription.                               *)

\* What an update u is queued as.
Mine(lg, q, u, m) ==
  /\ m \in Update /\ m.base = u.base /\ m.view = u.view
  /\ q.kind = "full" => m = u
  /\ q.kind = "facts" => Plain(m)
  /\ q.kind = "window" => IF q.window = NoWindow THEN Plain(m) ELSE OwnDetail(lg, m, q.window)

Got(q, q2, m) ==
  /\ q2 \in Subscription /\ q2.queue = Append(q.queue, m)
  /\ q2.kind = q.kind /\ q2.inflight = q.inflight /\ q2.released = q.released
  /\ q2.reading = q.reading /\ q2.epochs = q.epochs /\ q2.cleared = q.cleared
  /\ q2.window.epoch = q.window.epoch /\ q2.window.items = q.window.items
  /\ q2.window = NoWindow <=> q.window = NoWindow

LEMMA GotEffective ==
  ASSUME NEW q \in Subscription, NEW q2, NEW m \in Update, Got(q, q2, m)
  PROVE  Effective(q2) = Append(Effective(q), m)
<1>1. Withdrawn(q2) = Withdrawn(q)
  BY DEF Withdrawn, Got
<1>2. Shown(q2).inflight = Shown(q).inflight /\ Shown(q2).queue = Append(Shown(q).queue, m)
  BY <1>1, ShownTyped DEF Got
<1>3. Shown(q) \in Subscription /\ Shown(q2) \in Subscription
  BY ShownTyped DEF Got
<1>4. QED
  BY <1>2, <1>3, PathGrows DEF Effective

LEMMA WindowDetailGrows ==
  ASSUME NEW lg, NEW p \in Seq(Update), NEW m \in Update, NEW w, NEW w2, NEW r,
         WindowDetail(lg, p, w, r), IF w = NoWindow THEN Plain(m) ELSE OwnDetail(lg, m, w),
         w2 = NoWindow <=> w = NoWindow, w2.epoch = w.epoch, w2.items = w.items
  PROVE  WindowDetail(lg, Append(p, m), w2, r)
<1> DEFINE p2 == Append(p, m)
<1>1. /\ Len(p) \in Nat /\ Len(p2) = Len(p) + 1 /\ p2[Len(p2)] = m
      /\ \A k \in 1..Len(p) : p2[k] = p[k]
  OBVIOUS
<1> HIDE DEF p2
<1>2. ~Explicit(m)
  BY DEF OwnDetail, Plain, Explicit
<1>3. \A k \in 1..Len(p2) : k \in 1..Len(p) \/ k = Len(p2)
  BY <1>1
<1>4. \A k \in 1..Len(p2) : Explicit(p2[k]) => k \in 1..Len(p)
  BY <1>1, <1>2, <1>3
<1>5. \A u : OwnDetail(lg, u, w) => OwnDetail(lg, u, w2)
  BY DEF OwnDetail
<1>6. ASSUME NEW k \in 1..Len(p)
      PROVE  (\E j \in (k + 1)..Len(p2) : Explicit(p2[j])) <=> \E j \in (k + 1)..Len(p) : Explicit(p[j])
  <2>1. \A j \in (k + 1)..Len(p2) : Explicit(p2[j]) => j \in (k + 1)..Len(p) /\ Explicit(p[j])
    BY <1>1, <1>4
  <2>2. \A j \in (k + 1)..Len(p) : j \in (k + 1)..Len(p2) /\ p2[j] = p[j]
    BY <1>1
  <2>3. QED
    BY <2>1, <2>2
<1>7. ASSUME NEW k \in 1..Len(p2)
      PROVE  \/ Explicit(p2[k])
             \/ Plain(p2[k]) /\ (w2 = NoWindow \/ \E j \in (k + 1)..Len(p2) : Explicit(p2[j]))
             \/ OwnDetail(lg, p2[k], w2) /\ \A j \in (k + 1)..Len(p2) : ~Explicit(p2[j])
  <2>1. CASE k \in 1..Len(p)
    BY <1>1, <1>5, <1>6, <2>1 DEF WindowDetail
  <2>2. CASE k = Len(p2)
    <3>1. (k + 1)..Len(p2) = {}
      BY <1>1, <2>2
    <3>2. QED
      BY <1>1, <1>5, <2>2, <3>1
  <2>3. QED
    BY <1>3, <2>1, <2>2
<1>8. ASSUME NEW k \in 1..Len(p2), Explicit(p2[k]), \A j \in (k + 1)..Len(p2) : ~Explicit(p2[j])
      PROVE  w2 # NoWindow /\ p2[k].epoch = w2.epoch /\ p2[k].items = w2.items
  <2>1. k \in 1..Len(p) /\ p2[k] = p[k]
    BY <1>1, <1>4, <1>8
  <2>2. Explicit(p[k]) /\ \A j \in (k + 1)..Len(p) : ~Explicit(p[j])
    BY <1>6, <1>8, <2>1
  <2>3. w # NoWindow /\ p[k].epoch = w.epoch /\ p[k].items = w.items
    BY <2>1, <2>2 DEF WindowDetail
  <2>4. QED
    BY <2>1, <2>3
<1>9. ASSUME \A k \in 1..Len(p2) : ~Explicit(p2[k])
      PROVE  r.epoch = w2.epoch /\ r.items = w2.items /\ Accurate(lg, r)
  <2>1. \A k \in 1..Len(p) : k \in 1..Len(p2) /\ p2[k] = p[k]
    BY <1>1
  <2>2. QED
    BY <1>9, <2>1 DEF WindowDetail
<1>10. r.version = 0 => r.items = {} /\ r.epoch = 0
  BY DEF WindowDetail
<1>11. QED
  BY <1>7, <1>8, <1>9, <1>10 DEF WindowDetail, p2

LEMMA GotDetailed ==
  ASSUME NEW lg, NEW q \in Subscription, NEW q2, NEW r, NEW u, NEW m, Detailed(lg, q, r),
         Mine(lg, q, u, m), Got(q, q2, m),
         u.kind = "delta", ~u.owned, u.base < u.view, Tells(lg, u, Items)
  PROVE  Detailed(lg, q2, r)
<1> DEFINE p == Effective(q)
<1>1. m \in Update /\ p \in Seq(Update) /\ Effective(q2) = Append(p, m)
  BY GotEffective, EffectiveTyped DEF Mine
<1> HIDE DEF p
<1>2. /\ Len(p) \in Nat /\ Len(Append(p, m)) = Len(p) + 1 /\ Append(p, m)[Len(p) + 1] = m
      /\ \A k \in 1..Len(p) : Append(p, m)[k] = p[k]
      /\ \A k \in 1..Len(Append(p, m)) : k \in 1..Len(p) \/ k = Len(p) + 1
  BY <1>1
<1>3. CASE q.kind = "full"
  <2>1. FullDetail(lg, p, r) /\ m = u
    BY <1>3 DEF Detailed, Mine, p
  <2>2. FullDetail(lg, Append(p, m), r)
    BY <1>2, <2>1 DEF FullDetail
  <2>3. QED
    BY <1>1, <1>3, <2>2 DEF Detailed, Got
<1>4. CASE q.kind = "facts"
  <2>1. FactsDetail(p, r) /\ Plain(m)
    BY <1>4 DEF Detailed, Mine, p
  <2>2. FactsDetail(Append(p, m), r)
    BY <1>2, <2>1 DEF FactsDetail
  <2>3. QED
    BY <1>1, <1>4, <2>2 DEF Detailed, Got
<1>5. CASE q.kind = "window"
  <2>1. WindowDetail(lg, p, q.window, r)
    BY <1>5 DEF Detailed, p
  <2>2. WindowDetail(lg, Append(p, m), q2.window, r)
    BY <1>1, <1>5, <2>1, WindowDetailGrows DEF Mine, Got
  <2>3. QED
    BY <1>1, <1>5, <2>2 DEF Detailed, Got
<1>6. QED
  BY <1>3, <1>4, <1>5 DEF Subscription, Kinds

-----------------------------------------------------------------------------
(* Taking, clearing and replacing the detail on its way.                    *)

\* Take.
Took(q, q2) ==
  /\ q2 \in Subscription /\ q.inflight = NoUpdate /\ q.queue # <<>>
  /\ q2.inflight = Head(q.queue) /\ q2.queue = Tail(q.queue)
  /\ q2.kind = q.kind /\ q2.released = q.released /\ q2.reading = q.reading
  /\ q2.window = q.window /\ q2.epochs = q.epochs /\ q2.cleared = q.cleared

LEMMA TookDetailed ==
  ASSUME NEW lg, NEW q \in Subscription, NEW q2, NEW r, Detailed(lg, q, r), Took(q, q2)
  PROVE  Detailed(lg, q2, r)
<1> DEFINE h == Head(q.queue)
<1>1. /\ q.queue \in Seq(Update) /\ h \in Update /\ Len(q.queue) > 0 /\ h = q.queue[1]
      /\ q2.inflight = h /\ h # NoUpdate
  BY UpdateIsRecord DEF Subscription, Took
<1> HIDE DEF h
<1>2. ~q.released /\ ~q2.released
  BY DEF Detailed, Took
<1>3. Shown(q) = q /\ Effective(q) = q.queue
  BY ShownTyped, PathTyped DEF Took, Effective
<1>4. Withdrawn(q2) => Plain(h)
  <2>1. CASE q.kind = "window"
    <3>1. WindowDetail(lg, q.queue, q.window, r)
      BY <1>3, <2>1 DEF Detailed
    <3>2. Explicit(h) \/ Plain(h) \/ OwnDetail(lg, h, q.window)
      BY <1>1, <3>1 DEF WindowDetail
    <3>3. QED
      BY <1>1, <1>2, <3>2 DEF Withdrawn, Explicit, OwnDetail, Took
  <2>2. CASE q.kind = "full"
    <3>1. FullDetail(lg, q.queue, r)
      BY <1>3, <2>2 DEF Detailed
    <3>2. ~h.owned
      BY <1>1, <3>1 DEF FullDetail
    <3>3. QED
      BY <1>1, <1>2, <3>2 DEF Withdrawn
  <2>3. CASE q.kind = "facts"
    <3>1. FactsDetail(q.queue, r)
      BY <1>3, <2>3 DEF Detailed
    <3>2. QED
      BY <1>1, <3>1 DEF FactsDetail
  <2>4. QED
    BY <2>1, <2>2, <2>3 DEF Subscription, Kinds
<1>5. Shown(q2).inflight = h /\ Shown(q2).queue = Tail(q.queue) /\ Shown(q2) \in Subscription
  BY <1>1, <1>4, ShownTyped, StrippedUpdate DEF Took
<1>6. Effective(q2) = Effective(q)
  BY <1>3, <1>5, PathTaken DEF Effective, Took, h
<1>7. QED
  BY <1>1, <1>2, <1>6 DEF Detailed, Took

\* ClearWindow, for the subscription and its reader.
ClearedReader(r) == [r EXCEPT !.epoch = 0, !.items = {}]

LEMMA ClearedTyped ==
  ASSUME NEW q \in Subscription
  PROVE  /\ Cleared(q) \in Subscription /\ Cleared(q).kind = q.kind
         /\ Cleared(q).inflight = q.inflight /\ Cleared(q).window = NoWindow
         /\ Cleared(q).released = (q.inflight # NoUpdate) /\ Cleared(q).reading = {}
         /\ Cleared(q).cleared = q.epochs /\ Cleared(q).epochs = q.epochs
         /\ Cleared(q).status = q.status /\ Cleared(q).registered = q.registered
         /\ Len(Cleared(q).queue) = Len(q.queue)
         /\ \A k \in 1..Len(q.queue) : Cleared(q).queue[k] = Stripped(q.queue[k])
<1> DEFINE s == [k \in DOMAIN q.queue |-> Stripped(q.queue[k])]
<1>1. q.queue \in Seq(Update) /\ DOMAIN q.queue = 1..Len(q.queue)
  BY DEF Subscription
<1>2. \A k \in 1..Len(q.queue) : q.queue[k] \in Update
  BY <1>1
<1>3. \A k \in 1..Len(q.queue) : Stripped(q.queue[k]) \in Update
  BY <1>2, StrippedUpdate
<1>4. s \in Seq(Update) /\ Len(s) = Len(q.queue) /\ \A k \in 1..Len(q.queue) : s[k] = Stripped(q.queue[k])
  <2>1. s = [k \in 1..Len(q.queue) |-> Stripped(q.queue[k])]
    BY <1>1
  <2>2. Len(q.queue) \in Nat
    BY <1>1
  <2> HIDE DEF s
  <2>3. QED
    BY <1>3, <2>1, <2>2
<1> HIDE DEF s
<1>5. NoWindow \in [epoch : Nat, items : SUBSET Items, version : Nat]
  BY DEF NoWindow
<1>6. Cleared(q) = [q EXCEPT !.window = NoWindow, !.reading = {}, !.cleared = q.epochs,
                             !.released = (q.inflight # NoUpdate), !.queue = s]
  BY DEF Cleared, s
<1>7. (q.inflight # NoUpdate) \in BOOLEAN
  OBVIOUS
<1>8. PICK t \in Seq(Update), w \in [epoch : Nat, items : SUBSET Items, version : Nat],
           b \in BOOLEAN, c \in Nat :
             t = s /\ w = NoWindow /\ b = (q.inflight # NoUpdate) /\ c = q.epochs
  <2>1. q.epochs \in Nat
    BY DEF Subscription
  <2>2. QED
    BY <1>4, <1>5, <1>7, <2>1
<1>9. Cleared(q) = [q EXCEPT !.window = w, !.reading = {}, !.cleared = c, !.released = b,
                             !.queue = t]
  BY <1>6, <1>8
<1>10. Cleared(q) \in Subscription
  <2>1. [q EXCEPT !.window = w, !.reading = {}, !.cleared = c, !.released = b, !.queue = t]
          \in Subscription
    BY ONLY q \in Subscription, t \in Seq(Update), b \in BOOLEAN, c \in Nat,
            w \in [epoch : Nat, items : SUBSET Items, version : Nat] DEF Subscription
  <2>2. QED
    BY ONLY <1>9, <2>1
<1>11. /\ Cleared(q).kind = q.kind /\ Cleared(q).inflight = q.inflight
       /\ Cleared(q).window = NoWindow /\ Cleared(q).reading = {}
       /\ Cleared(q).cleared = q.epochs /\ Cleared(q).epochs = q.epochs
       /\ Cleared(q).status = q.status /\ Cleared(q).registered = q.registered
  BY <1>6 DEF Subscription
<1>12. Cleared(q).released = (q.inflight # NoUpdate) /\ Cleared(q).queue = s
  BY <1>6 DEF Subscription
<1>13. QED
  BY ONLY <1>4, <1>10, <1>11, <1>12

LEMMA ClearedDetailed ==
  ASSUME NEW lg, NEW q \in Subscription, NEW r, NEW r2, Detailed(lg, q, r),
         q.window # NoWindow \/ q.reading # {},
         r2.epoch = 0, r2.items = {}, r2.misapplied = r.misapplied
  PROVE  Detailed(lg, Cleared(q), r2)
<1>1. q.kind = "window"
  BY DEF Detailed
<1>2. Cleared(q) \in Subscription
  BY ClearedTyped
<1> DEFINE p == Effective(Cleared(q))
<1>3. \A k \in 1..Len(q.queue) : Plain(Cleared(q).queue[k])
  <2>1. \A k \in 1..Len(q.queue) : q.queue[k] \in Update
    BY DEF Subscription
  <2>2. QED
    BY <2>1, ClearedTyped, StrippedUpdate
<1>4. Shown(Cleared(q)).inflight # NoUpdate => Plain(Shown(Cleared(q)).inflight)
  <2>1. ASSUME q.inflight # NoUpdate
        PROVE  Plain(Stripped(q.inflight)) /\ Withdrawn(Cleared(q))
    BY <2>1, PathTyped, StrippedUpdate, ClearedTyped DEF Withdrawn
  <2>2. QED
    BY <1>2, <2>1, ShownTyped, ClearedTyped
<1>5. p \in Seq(Update) /\ \A k \in 1..Len(p) : Plain(p[k])
  <2>1. /\ Shown(Cleared(q)) \in Subscription /\ Shown(Cleared(q)).queue = Cleared(q).queue
        /\ Len(Cleared(q).queue) = Len(q.queue)
    BY <1>2, ShownTyped, ClearedTyped
  <2>2. CASE Shown(Cleared(q)).inflight = NoUpdate
    BY <1>3, <2>1, <2>2, PathTyped DEF Effective
  <2>3. CASE Shown(Cleared(q)).inflight # NoUpdate
    <3>1. /\ p \in Seq(Update) /\ Len(p) = Len(q.queue) + 1 /\ p[1] = Shown(Cleared(q)).inflight
          /\ \A k \in 1..Len(q.queue) : p[k + 1] = Cleared(q).queue[k]
      BY <2>1, <2>3, PathTyped DEF Effective
    <3>2. Len(q.queue) \in Nat
      BY DEF Subscription
    <3> HIDE DEF p
    <3>3. ASSUME NEW k \in 1..Len(p), k # 1
          PROVE  Plain(p[k])
      <4>1. k - 1 \in 1..Len(q.queue) /\ k = (k - 1) + 1
        BY <3>1, <3>2, <3>3
      <4>2. QED
        BY <1>3, <3>1, <4>1
    <3>4. QED
      BY <1>4, <2>3, <3>1, <3>3
  <2>4. QED
    BY <2>2, <2>3
<1> HIDE DEF p
<1>6. \A k \in 1..Len(p) : Plain(p[k]) /\ ~Explicit(p[k])
  BY <1>5 DEF Plain, Explicit
<1>7. WindowDetail(lg, p, NoWindow, r2)
  BY <1>6 DEF WindowDetail, NoWindow, Accurate
<1>8. QED
  BY <1>1, <1>7, ClearedTyped DEF Detailed, p

\* SetWindow: q2 has the baseline m behind its queue, and old detail is withdrawn.
Replaced(q, q2, m) ==
  /\ q2 \in Subscription /\ Len(q2.queue) = Len(q.queue) + 1
  /\ q2.queue[Len(q.queue) + 1] = m
  /\ \A k \in 1..Len(q.queue) :
       q2.queue[k] = IF q.queue[k].owned /\ q.queue[k].epoch = q.window.epoch
                     THEN Stripped(q.queue[k]) ELSE q.queue[k]
  /\ q2.kind = q.kind /\ q2.inflight = q.inflight /\ q2.released = q.released
  /\ q2.reading = {} /\ q2.epochs = q.epochs + 1 /\ q2.cleared = q.cleared
  /\ q2.window.epoch = q.epochs + 1 /\ q2.window.items = m.items
  /\ m \in Update /\ Explicit(m) /\ Baseline(m) /\ m.epoch = q.epochs + 1

LEMMA ReplacedDetailed ==
  ASSUME NEW lg, NEW q \in Subscription, NEW q2, NEW r, NEW m, Detailed(lg, q, r),
         q.kind = "window", Replaced(q, q2, m), q.window.epoch <= q.epochs,
         q.inflight # NoUpdate => q.inflight.epoch <= q.epochs
  PROVE  Detailed(lg, q2, r)
<1> DEFINE p == Effective(q)
           p2 == Effective(q2)
           n == Len(p)
<1>1. WindowDetail(lg, p, q.window, r)
  BY DEF Detailed
<1>2. /\ q.queue \in Seq(Update) /\ q2.queue \in Seq(Update) /\ q.window.epoch \in Nat
      /\ q.epochs \in Nat /\ q2 \in Subscription /\ Len(q.queue) \in Nat
      /\ q.inflight # NoUpdate => q.inflight \in Update /\ q.inflight.epoch \in Nat
  BY UpdateIsRecord DEF Subscription, Replaced
<1>3. /\ Withdrawn(q) /\ q.inflight # NoUpdate => Withdrawn(q2)
      /\ Withdrawn(q2) => Withdrawn(q) \/ q.inflight.owned
  BY <1>2 DEF Withdrawn, Replaced
<1>4. /\ p \in Seq(Update) /\ n \in Nat /\ p2 \in Seq(Update) /\ Len(p2) = n + 1 /\ p2[n + 1] = m
      /\ q.inflight = NoUpdate =>
           /\ n = Len(q.queue)
           /\ \A k \in 1..Len(q.queue) : p[k] = q.queue[k] /\ p2[k] = q2.queue[k]
      /\ q.inflight # NoUpdate =>
           /\ n = Len(q.queue) + 1
           /\ \A k \in 1..Len(q.queue) : p[k + 1] = q.queue[k] /\ p2[k + 1] = q2.queue[k]
           /\ p[1] = Shown(q).inflight /\ p2[1] = Shown(q2).inflight
  <2>1. /\ Shown(q) \in Subscription /\ Shown(q).queue = q.queue
        /\ q.inflight = NoUpdate <=> Shown(q).inflight = NoUpdate
        /\ Shown(q2) \in Subscription /\ Shown(q2).queue = q2.queue
        /\ q.inflight = NoUpdate <=> Shown(q2).inflight = NoUpdate
    BY <1>2, ShownTyped DEF Replaced
  <2>2. p \in Seq(Update) /\ p2 \in Seq(Update) /\ n \in Nat
    BY <1>2, EffectiveTyped
  <2>3. CASE q.inflight = NoUpdate
    <3>1. p = q.queue /\ p2 = q2.queue
      BY <2>1, <2>3, PathTyped DEF Effective
    <3>2. QED
      BY <1>2, <2>2, <2>3, <3>1 DEF Replaced
  <2>4. CASE q.inflight # NoUpdate
    <3>1. /\ Len(p) = Len(q.queue) + 1 /\ p[1] = Shown(q).inflight
          /\ \A k \in 1..Len(q.queue) : p[k + 1] = q.queue[k]
      BY <2>1, <2>4, PathTyped DEF Effective
    <3>2. /\ Len(p2) = Len(q2.queue) + 1 /\ p2[1] = Shown(q2).inflight
          /\ \A k \in 1..Len(q2.queue) : p2[k + 1] = q2.queue[k]
      BY <2>1, <2>4, PathTyped DEF Effective
    <3>3. Len(q2.queue) = Len(q.queue) + 1 /\ q2.queue[Len(q.queue) + 1] = m
      BY DEF Replaced
    <3> HIDE DEF p, p2
    <3>4. QED
      BY <1>2, <2>2, <2>4, <3>1, <3>2, <3>3
  <2>5. QED
    BY <2>3, <2>4
<1> HIDE DEF p, p2, n
<1>5. ASSUME NEW k \in 1..n
      PROVE  Explicit(p[k]) \/ Plain(p[k]) \/ OwnDetail(lg, p[k], q.window)
  BY <1>1, <1>5 DEF WindowDetail, n
<1>6. ASSUME NEW k \in 1..Len(q.queue), NEW i \in 1..n, p[i] = q.queue[k], p2[i] = q2.queue[k]
      PROVE  Explicit(p2[i]) \/ Plain(p2[i])
  <2>1. q.queue[k] \in Update
    BY <1>2
  <2>2. q2.queue[k] = IF q.queue[k].owned /\ q.queue[k].epoch = q.window.epoch
                      THEN Stripped(q.queue[k]) ELSE q.queue[k]
    BY DEF Replaced
  <2>3. CASE Explicit(p[i]) \/ Plain(p[i])
    BY <1>6, <2>1, <2>2, <2>3, StrippedUpdate DEF Explicit
  <2>4. CASE OwnDetail(lg, p[i], q.window)
    BY <1>6, <2>1, <2>2, <2>4, StrippedUpdate DEF OwnDetail
  <2>5. QED
    BY <1>5, <2>3, <2>4
<1>7. ASSUME q.inflight # NoUpdate
      PROVE  Explicit(p2[1]) \/ Plain(p2[1])
  <2>1. /\ Shown(q).inflight = IF Withdrawn(q) THEN Stripped(q.inflight) ELSE q.inflight
        /\ Shown(q2).inflight = IF Withdrawn(q2) THEN Stripped(q.inflight) ELSE q.inflight
    BY <1>2, <1>7, ShownTyped DEF Replaced
  <2>2. q.inflight \in Update /\ Plain(Stripped(q.inflight))
    BY <1>2, <1>7, StrippedUpdate
  <2>3. CASE Withdrawn(q2)
    BY <1>4, <1>7, <2>1, <2>2, <2>3
  <2>4. CASE ~Withdrawn(q2)
    <3>1. ~Withdrawn(q) /\ p[1] = q.inflight /\ p2[1] = q.inflight
      BY <1>3, <1>4, <1>7, <2>1, <2>4
    <3>2. 1 \in 1..n
      BY <1>2, <1>4, <1>7
    <3>3. ~OwnDetail(lg, q.inflight, q.window)
      BY <1>2, <1>7, <2>4 DEF OwnDetail, Withdrawn, Replaced
    <3>4. QED
      BY <1>5, <3>1, <3>2, <3>3
  <2>5. QED
    BY <2>3, <2>4
<1>8. ASSUME NEW k \in 1..n
      PROVE  Explicit(p2[k]) \/ Plain(p2[k])
  <2>1. CASE q.inflight = NoUpdate
    BY <1>4, <1>6, <2>1
  <2>2. CASE q.inflight # NoUpdate /\ k = 1
    BY <1>7, <2>2
  <2>3. CASE q.inflight # NoUpdate /\ k # 1
    <3>1. k - 1 \in 1..Len(q.queue) /\ k = (k - 1) + 1
      BY <1>2, <1>4, <2>3
    <3>2. p[k] = q.queue[k - 1] /\ p2[k] = q2.queue[k - 1]
      BY <1>4, <2>3, <3>1
    <3>3. QED
      BY <1>6, <3>1, <3>2
  <2>4. QED
    BY <2>1, <2>2, <2>3
<1>9. WindowDetail(lg, p2, q2.window, r)
  <2>1. n + 1 \in 1..Len(p2) /\ Explicit(p2[n + 1]) /\ p2[n + 1] = m
    BY <1>4 DEF Replaced
  <2>2. \A k \in 1..Len(p2) : k = n + 1 \/ (k \in 1..n /\ n + 1 \in (k + 1)..Len(p2))
    BY <1>4
  <2>3. q2.window # NoWindow /\ q2.window.epoch = m.epoch /\ q2.window.items = m.items
    BY <1>2 DEF Replaced, NoWindow
  <2>4. \A k \in 1..Len(p2) :
          Explicit(p2[k]) \/ (Plain(p2[k]) /\ \E j \in (k + 1)..Len(p2) : Explicit(p2[j]))
    BY <1>8, <2>1, <2>2
  <2>5. \A k \in 1..Len(p2) : (\A j \in (k + 1)..Len(p2) : ~Explicit(p2[j])) => p2[k] = m
    BY <2>1, <2>2
  <2>6. r.version = 0 => r.items = {} /\ r.epoch = 0
    BY <1>1 DEF WindowDetail
  <2>7. QED
    BY <2>1, <2>3, <2>4, <2>5, <2>6 DEF WindowDetail
<1>10. q2.released => q2.inflight # NoUpdate
  BY DEF Detailed, Replaced
<1>11. QED
  BY <1>9, <1>10 DEF Detailed, Replaced, p2

-----------------------------------------------------------------------------
(* What a reader makes of an update.                                        *)

\* A reader's record, whatever its items hold.
IsReader(r) ==
  /\ r = [version |-> r.version, epoch |-> r.epoch, items |-> r.items,
          held |-> [i \in Items |-> r.held[i]], misapplied |-> r.misapplied]
  /\ r.version \in Nat

\* r2 is what a reader r becomes by u.
Takes(r, u, r2) ==
  /\ IsReader(r2) /\ r2.version = u.view /\ ~r2.misapplied
  /\ \A i \in Items : r2.held[i] = IF i \in u.items THEN Content(i, u.view) ELSE r.held[i]

LEMMA ReplacingApplied ==
  ASSUME NEW r, IsReader(r), ~r.misapplied, NEW kind, NEW u \in Update, u.kind = "window"
  PROVE  /\ Takes(r, u, Applied(r, kind, u))
         /\ Applied(r, kind, u).epoch = u.epoch /\ Applied(r, kind, u).items = u.items
<1> DEFINE h == [i \in Items |-> IF i \in u.items THEN Content(i, u.view) ELSE r.held[i]]
<1>1. u.view \in Nat
  BY UpdateIsRecord
<1>2. DOMAIN r.held = Items
  BY DEF IsReader
<1>3. Applied(r, kind, u) = [version |-> u.view, epoch |-> u.epoch, items |-> u.items,
                             held |-> h, misapplied |-> r.misapplied]
  BY <1>2 DEF Applied, IsReader
<1>4. h = [i \in Items |-> h[i]]
  OBVIOUS
<1>5. \A i \in Items : h[i] = IF i \in u.items THEN Content(i, u.view) ELSE r.held[i]
  OBVIOUS
<1> HIDE DEF h
<1>6. QED
  BY <1>1, <1>3, <1>4, <1>5 DEF Takes, IsReader

\* The conditions under which an update continues what the reader holds.
Fits(r, kind, u) ==
  /\ u.growth => \A i \in u.items : r.held[i] = Content(i, u.base)
  /\ (u.items # {} /\ kind = "window") => u.epoch = r.epoch

LEMMA ContinuingApplied ==
  ASSUME NEW r, IsReader(r), ~r.misapplied, NEW kind, NEW u \in Update,
         u.kind # "window",
         r.version # 0, r.version < u.view, Fits(r, kind, u)
  PROVE  /\ Takes(r, u, Applied(r, kind, u))
         /\ Applied(r, kind, u).epoch = r.epoch /\ Applied(r, kind, u).items = r.items
<1> DEFINE h == [i \in Items |-> IF i \in u.items THEN Content(i, u.view) ELSE r.held[i]]
<1>1. u.view \in Nat /\ r.version \in Nat
  BY UpdateIsRecord DEF IsReader
<1>2. DOMAIN r.held = Items
  BY DEF IsReader
<1>3. PICK f : f = (r.misapplied \/ ~Fits(r, kind, u))
  OBVIOUS
<1>4. Applied(r, kind, u) = [r EXCEPT !.version = u.view, !.misapplied = f,
        !.held = [i \in Items |-> IF i \in u.items THEN Content(i, u.view) ELSE @[i]]]
  BY <1>1, <1>3 DEF Applied, Fits
<1>5. Applied(r, kind, u) = [version |-> u.view, epoch |-> r.epoch, items |-> r.items,
                             held |-> h, misapplied |-> f]
  BY <1>2, <1>4 DEF IsReader
<1>6. h = [i \in Items |-> h[i]]
  OBVIOUS
<1>7. \A i \in Items : h[i] = IF i \in u.items THEN Content(i, u.view) ELSE r.held[i]
  OBVIOUS
<1> HIDE DEF h
<1>8. ~f
  BY <1>3
<1>9. QED
  BY <1>1, <1>5, <1>6, <1>7, <1>8 DEF Takes, IsReader

LEMMA KnownApplied ==
  ASSUME NEW r, NEW kind, NEW u, u.kind # "window", r.version = 0 \/ u.view <= r.version
  PROVE  Applied(r, kind, u) = r
  BY DEF Applied

\* A reader that an update is new to is at the version it continues.
LEMMA AtBase ==
  ASSUME NEW p \in Seq(Update), NEW v \in Nat, NEW strict, Linked(p, strict), At(p, v, strict),
         Len(p) > 0, 0 < v, v < p[1].view, p[1].base < p[1].view
  PROVE  v = p[1].base
<1>1. 1 \in 1..Len(p) /\ p[1].base \in Nat /\ p[1].view \in Nat
  BY UpdateAt
<1>2. ASSUME NEW k \in 1..Len(p), k # 1
      PROVE  p[1].view <= p[k].view
  <2>1. 1 \in 1..(k - 1)
    BY <1>2
  <2>2. p[1].view <= p[k].base /\ p[k].base <= p[k].view
    BY <2>1 DEF Linked
  <2>3. p[k].base \in Nat /\ p[k].view \in Nat
    BY UpdateAt
  <2>4. QED
    BY <1>1, <2>2, <2>3
<1>3. ASSUME NEW k \in 1..Len(p), v = p[k].view
      PROVE  FALSE
  <2>1. CASE k = 1
    BY <1>1, <1>3, <2>1
  <2>2. CASE k # 1
    BY <1>1, <1>2, <1>3, <2>2, UpdateAt
  <2>3. QED
    BY <2>1, <2>2
<1>4. ~Baseline(p[1])
  BY <1>1 DEF Baseline
<1>5. QED
  BY <1>3, <1>4 DEF At

\* What a reader holds stays accurate when it takes an update.
LEMMA TakesAccurate ==
  ASSUME NEW r, NEW u, NEW r2, Takes(r, u, r2), NEW items \in SUBSET Items, Tells(log, u, items),
         r2.items = items, r.items = items, Accurate(log, r), r.version = u.base
  PROVE  Accurate(log, r2)
<1>1. SUFFICES ASSUME NEW i \in items PROVE r2.held[i] = ContentOf(log, i, u.view)
  BY DEF Accurate, Takes
<1>2. CASE i \in u.items
  BY <1>2, ContentLogged DEF Takes
<1>3. CASE i \notin u.items
  <2>1. r2.held[i] = r.held[i]
    BY <1>3 DEF Takes
  <2>2. r.held[i] = ContentOf(log, i, u.base)
    BY DEF Accurate
  <2>3. ContentOf(log, i, u.view) = ContentOf(log, i, u.base)
    BY <1>3 DEF Tells
  <2>4. QED
    BY <2>1, <2>2, <2>3
<1>4. QED
  BY <1>2, <1>3

LEMMA ReplacedAccurate ==
  ASSUME NEW r, NEW u \in Update, NEW r2, Takes(r, u, r2), r2.items = u.items
  PROVE  Accurate(log, r2)
<1>1. u.items \in SUBSET Items
  BY UpdateIsRecord
<1>2. QED
  BY <1>1, ContentLogged DEF Accurate, Takes

LEMMA PlainApplied ==
  ASSUME NEW r, IsReader(r), ~r.misapplied, NEW kind, NEW u \in Update, Plain(u), 0 < u.view
  PROVE  LET r2 == Applied(r, kind, u)
         IN  /\ IsReader(r2) /\ ~r2.misapplied /\ r2.items = r.items /\ r2.epoch = r.epoch
             /\ r2 = r \/ (Takes(r, u, r2) /\ r2.version > 0)
<1>1. u.kind # "window" /\ Fits(r, kind, u)
  BY DEF Plain, Fits
<1>2. u.view \in Nat /\ r.version \in Nat
  BY UpdateIsRecord DEF IsReader
<1>3. CASE r.version = 0 \/ u.view <= r.version
  BY <1>1, <1>3, KnownApplied
<1>4. CASE r.version # 0 /\ r.version < u.view
  <2>1. /\ Takes(r, u, Applied(r, kind, u))
        /\ Applied(r, kind, u).epoch = r.epoch /\ Applied(r, kind, u).items = r.items
    BY <1>1, <1>4, ContinuingApplied
  <2>2. QED
    BY <1>2, <2>1 DEF Takes
<1>5. QED
  BY <1>2, <1>3, <1>4

-----------------------------------------------------------------------------
(* Return.                                                                  *)

\* Return, for the subscription and its reader.
Returned(q) == [q EXCEPT !.inflight = NoUpdate, !.released = FALSE]

\* p: the path before, t: the path after its first update was returned.
LEMMA WindowReturned ==
  ASSUME NEW p \in Seq(Update), NEW t \in Seq(Update), Len(p) = Len(t) + 1,
         \A k \in 1..Len(t) : p[k + 1] = t[k],
         NEW w, w = NoWindow => w.items = {}, w.items \in SUBSET Items,
         NEW r, IsReader(r), ~r.misapplied, NEW strict,
         WindowDetail(log, p, w, r), Linked(p, strict), At(p, r.version, strict)
  PROVE  LET r2 == Applied(r, "window", p[1])
         IN  WindowDetail(log, t, w, r2) /\ IsReader(r2) /\ ~r2.misapplied
<1> DEFINE u == p[1]
           r2 == Applied(r, "window", u)
<1>1. /\ u \in Update /\ 1 \in 1..Len(p) /\ Len(t) \in Nat
      /\ u.base \in Nat /\ u.view \in Nat /\ 0 < u.view
      /\ u.items \in SUBSET Items
  <2>1. u \in Update /\ 1 \in 1..Len(p) /\ Len(t) \in Nat
    OBVIOUS
  <2>2. u.base \in Nat /\ u.view \in Nat /\ u.items \in SUBSET Items
    BY <2>1, UpdateIsRecord
  <2>3. 0 < u.base /\ u.base <= u.view
    BY <2>1 DEF Linked
  <2>4. QED
    BY <2>1, <2>2, <2>3
<1>2. \A k \in 1..Len(t) : k + 1 \in 1..Len(p) /\ p[k + 1] = t[k]
  BY <1>1
<1>3. ASSUME NEW k \in 1..Len(t)
      PROVE  (\E j \in (k + 1)..Len(t) : Explicit(t[j])) <=>
               \E j \in ((k + 1) + 1)..Len(p) : Explicit(p[j])
  <2>1. \A j \in (k + 1)..Len(t) : j + 1 \in ((k + 1) + 1)..Len(p) /\ p[j + 1] = t[j]
    BY <1>1, <1>2
  <2>2. \A j \in ((k + 1) + 1)..Len(p) : j - 1 \in (k + 1)..Len(t) /\ p[j] = t[j - 1]
    <3>1. ASSUME NEW j \in ((k + 1) + 1)..Len(p)
          PROVE  j - 1 \in (k + 1)..Len(t) /\ j - 1 \in 1..Len(t) /\ (j - 1) + 1 = j
      BY <1>1
    <3>2. QED
      BY <1>2, <3>1
  <2>3. QED
    BY <2>1, <2>2
<1>4. (\A k \in 1..Len(t) : ~Explicit(t[k])) <=> \A j \in 2..Len(p) : ~Explicit(p[j])
  <2>1. \A k \in 1..Len(t) : k + 1 \in 2..Len(p) /\ p[k + 1] = t[k]
    BY <1>1, <1>2
  <2>2. \A j \in 2..Len(p) : j - 1 \in 1..Len(t) /\ p[j] = t[j - 1]
    <3>1. ASSUME NEW j \in 2..Len(p)
          PROVE  j - 1 \in 1..Len(t) /\ (j - 1) + 1 = j
      BY <1>1
    <3>2. QED
      BY <1>2, <3>1
  <2>3. QED
    BY <2>1, <2>2
<1> HIDE DEF u, r2
<1>5. \A k \in 1..Len(t) :
        \/ Explicit(t[k])
        \/ Plain(t[k]) /\ (w = NoWindow \/ \E j \in (k + 1)..Len(t) : Explicit(t[j]))
        \/ OwnDetail(log, t[k], w) /\ \A j \in (k + 1)..Len(t) : ~Explicit(t[j])
  BY <1>2, <1>3 DEF WindowDetail
<1>6. ASSUME NEW k \in 1..Len(t), Explicit(t[k]), \A j \in (k + 1)..Len(t) : ~Explicit(t[j])
      PROVE  w # NoWindow /\ t[k].epoch = w.epoch /\ t[k].items = w.items
  <2>1. PICK l \in 1..Len(p) : l = k + 1 /\ p[l] = t[k]
    BY <1>2
  <2>2. \A j \in (l + 1)..Len(p) : ~Explicit(p[j])
    BY <1>3, <1>6, <2>1
  <2>3. QED
    BY <1>6, <2>1, <2>2 DEF WindowDetail
<1>7. \A k \in 1..Len(p) : k = 1 \/ k \in 2..Len(p)
  BY <1>1
<1>8. CASE Explicit(u)
  <2>1. Takes(r, u, r2) /\ r2.epoch = u.epoch /\ r2.items = u.items
    BY <1>1, <1>8, ReplacingApplied DEF Explicit, r2
  <2>2. IsReader(r2) /\ ~r2.misapplied /\ r2.version # 0 /\ Accurate(log, r2)
    <3>1. Accurate(log, r2)
      BY <1>1, <2>1, ReplacedAccurate
    <3>2. QED
      BY <1>1, <2>1, <3>1 DEF Takes
  <2>3. ASSUME \A k \in 1..Len(t) : ~Explicit(t[k])
        PROVE  u.epoch = w.epoch /\ u.items = w.items
    <3>1. \A j \in (1 + 1)..Len(p) : ~Explicit(p[j])
      BY <1>4, <2>3
    <3>2. QED
      BY <1>1, <1>8, <3>1 DEF WindowDetail, u
  <2>4. WindowDetail(log, t, w, r2)
    BY <1>5, <1>6, <2>1, <2>2, <2>3 DEF WindowDetail
  <2>5. QED
    BY <2>2, <2>4 DEF r2, u
<1>9. CASE Plain(u) /\ (w = NoWindow \/ \E j \in (1 + 1)..Len(p) : Explicit(p[j]))
  <2>1. /\ IsReader(r2) /\ ~r2.misapplied /\ r2.items = r.items /\ r2.epoch = r.epoch
        /\ r2 = r \/ (Takes(r, u, r2) /\ r2.version > 0)
    BY <1>1, <1>9, PlainApplied DEF r2
  <2>2. ASSUME \A k \in 1..Len(t) : ~Explicit(t[k])
        PROVE  r2.epoch = w.epoch /\ r2.items = w.items /\ Accurate(log, r2)
    <3>1. w = NoWindow /\ \A k \in 1..Len(p) : ~Explicit(p[k])
      BY <1>4, <1>7, <1>9, <2>2 DEF Plain, Explicit, u
    <3>2. r.epoch = w.epoch /\ r.items = w.items /\ r.items = {}
      BY <3>1 DEF WindowDetail
    <3>3. QED
      BY <2>1, <3>2 DEF Accurate
  <2>3. r2.version = 0 => r2.items = {} /\ r2.epoch = 0
    BY <2>1 DEF WindowDetail
  <2>4. WindowDetail(log, t, w, r2)
    BY <1>5, <1>6, <2>2, <2>3 DEF WindowDetail
  <2>5. QED
    BY <2>1, <2>4 DEF r2, u
<1>10. CASE OwnDetail(log, u, w) /\ \A j \in (1 + 1)..Len(p) : ~Explicit(p[j])
  <2>1. \A k \in 1..Len(p) : ~Explicit(p[k])
    BY <1>7, <1>10 DEF OwnDetail, Explicit, u
  <2>2. /\ r.epoch = w.epoch /\ r.items = w.items /\ Accurate(log, r)
        /\ r.version = 0 => r.items = {} /\ r.epoch = 0
    BY <2>1 DEF WindowDetail
  <2>3. CASE u.kind = "window"
    <3>1. Takes(r, u, r2) /\ r2.epoch = u.epoch /\ r2.items = u.items
      BY <1>1, <2>3, ReplacingApplied DEF r2
    <3>2. IsReader(r2) /\ ~r2.misapplied /\ r2.version # 0 /\ Accurate(log, r2)
      <4>1. Accurate(log, r2)
        BY <1>1, <3>1, ReplacedAccurate
      <4>2. QED
        BY <1>1, <3>1, <4>1 DEF Takes
    <3>3. r2.epoch = w.epoch /\ r2.items = w.items
      BY <1>10, <2>3, <3>1 DEF OwnDetail
    <3>4. WindowDetail(log, t, w, r2)
      BY <1>5, <1>6, <3>2, <3>3 DEF WindowDetail
    <3>5. QED
      BY <3>2, <3>4 DEF r2, u
  <2>4. CASE u.kind = "delta" /\ (r.version = 0 \/ u.view <= r.version)
    <3>1. r2 = r
      BY <2>4, KnownApplied DEF r2
    <3>2. WindowDetail(log, t, w, r2)
      BY <1>5, <1>6, <2>2, <3>1 DEF WindowDetail
    <3>3. QED
      BY <3>1, <3>2 DEF r2, u
  <2>5. CASE u.kind = "delta" /\ r.version # 0 /\ r.version < u.view
    <3>1. r.version = u.base
      <4>1. r.version \in Nat /\ 0 < r.version
        BY <2>5 DEF IsReader
      <4>2. u.base < u.view
        BY <1>10 DEF OwnDetail
      <4>3. Len(p) > 0
        BY <1>1
      <4>4. QED
        BY <2>5, <4>1, <4>2, <4>3, AtBase DEF u
    <3>2. u.items \subseteq w.items /\ Tells(log, u, w.items) /\ u.epoch = w.epoch
      BY <1>10, <2>5 DEF OwnDetail
    <3>3. Fits(r, "window", u)
      BY <2>2, <3>1, <3>2, ContentLogged DEF Fits, Accurate
    <3>4. Takes(r, u, r2) /\ r2.epoch = r.epoch /\ r2.items = r.items
      BY <1>1, <2>5, <3>3, ContinuingApplied DEF r2
    <3>5. Accurate(log, r2)
      BY <2>2, <3>1, <3>2, <3>4, TakesAccurate
    <3>6. IsReader(r2) /\ ~r2.misapplied /\ r2.version # 0
      BY <1>1, <3>4 DEF Takes
    <3>7. WindowDetail(log, t, w, r2)
      BY <1>5, <1>6, <2>2, <3>4, <3>5, <3>6 DEF WindowDetail
    <3>8. QED
      BY <3>6, <3>7 DEF r2, u
  <2>6. u.kind \in {"window", "delta"}
    BY <1>10 DEF OwnDetail
  <2>7. QED
    <3>1. r.version \in Nat
      BY DEF IsReader
    <3>2. QED
      BY <1>1, <2>3, <2>4, <2>5, <2>6, <3>1
<1>11. QED
  BY <1>1, <1>8, <1>9, <1>10 DEF WindowDetail, u

LEMMA FullReturned ==
  ASSUME NEW p \in Seq(Update), NEW t \in Seq(Update), Len(p) = Len(t) + 1,
         \A k \in 1..Len(t) : p[k + 1] = t[k],
         NEW r, IsReader(r), ~r.misapplied, NEW strict,
         FullDetail(log, p, r), Linked(p, strict), At(p, r.version, strict)
  PROVE  LET r2 == Applied(r, "full", p[1])
         IN  FullDetail(log, t, r2) /\ IsReader(r2) /\ ~r2.misapplied
<1> DEFINE u == p[1]
           r2 == Applied(r, "full", u)
<1>1. u \in Update /\ 1 \in 1..Len(p) /\ Len(t) \in Nat /\ Len(p) > 0
  OBVIOUS
<1>2. u.base \in Nat /\ u.view \in Nat /\ u.items \in SUBSET Items
  BY <1>1, UpdateIsRecord
<1>3. \A k \in 1..Len(t) : k + 1 \in 1..Len(p) /\ p[k + 1] = t[k]
  BY <1>1
<1> HIDE DEF u, r2
<1>4. \A k \in 1..Len(t) : /\ t[k].kind = "delta" /\ ~t[k].owned /\ t[k].base < t[k].view
                           /\ Tells(log, t[k], Items)
  BY <1>3 DEF FullDetail
<1>5. u.kind = "delta" /\ u.base < u.view /\ Tells(log, u, Items)
  BY <1>1 DEF FullDetail, u
<1>6. CASE r.version = 0 \/ u.view <= r.version
  <2>1. r2 = r
    BY <1>5, <1>6, KnownApplied DEF r2
  <2>2. QED
    BY <1>4, <2>1 DEF FullDetail, r2, u
<1>7. CASE r.version # 0 /\ r.version < u.view
  <2>1. r.version \in Nat /\ 0 < r.version
    BY <1>7 DEF IsReader
  <2>2. r.version = u.base
    BY <1>1, <1>5, <1>7, <2>1, AtBase DEF u
  <2>3. r.items = Items /\ Accurate(log, r)
    BY <1>7 DEF FullDetail
  <2>4. Fits(r, "full", u)
    BY <1>2, <2>2, <2>3, ContentLogged DEF Fits, Accurate
  <2>5. Takes(r, u, r2) /\ r2.epoch = r.epoch /\ r2.items = r.items
    BY <1>1, <1>5, <1>7, <2>4, ContinuingApplied DEF r2
  <2>6. Accurate(log, r2)
    BY <1>5, <2>2, <2>3, <2>5, TakesAccurate
  <2>7. IsReader(r2) /\ ~r2.misapplied /\ r2.version # 0
    BY <1>2, <1>7, <2>1, <2>5 DEF Takes
  <2>8. QED
    BY <1>4, <2>3, <2>5, <2>6, <2>7 DEF FullDetail, r2, u
<1>8. QED
  <2>1. r.version \in Nat
    BY DEF IsReader
  <2>2. QED
    BY <1>2, <1>6, <1>7, <2>1

LEMMA ReturnedDetailed ==
  ASSUME NEW q \in Subscription, q.inflight # NoUpdate, NEW r, IsReader(r), Detailed(log, q, r),
         NEW strict, Linked(PathOf(q), strict), At(PathOf(q), r.version, strict)
  PROVE  LET u  == IF Withdrawn(q) THEN Stripped(q.inflight) ELSE q.inflight
             r2 == Applied(r, q.kind, u)
         IN  /\ u \in Update /\ Detailed(log, Returned(q), r2) /\ IsReader(r2)
             /\ u.view = q.inflight.view /\ u.epoch = q.inflight.epoch
<1> DEFINE u == IF Withdrawn(q) THEN Stripped(q.inflight) ELSE q.inflight
           r2 == Applied(r, q.kind, u)
           p == Effective(q)
           t == q.queue
<1>1. /\ q.inflight \in Update /\ t \in Seq(Update)
      /\ u \in Update /\ u.view = q.inflight.view /\ u.epoch = q.inflight.epoch
  BY StrippedUpdate DEF Subscription
<1>2. p \in Seq(Update) /\ p[1] = u /\ Len(p) = Len(t) + 1 /\ \A k \in 1..Len(t) : p[k + 1] = t[k]
  BY ShownTyped, PathTyped, EffectiveTyped DEF Effective
<1>3. /\ Returned(q) \in Subscription /\ Returned(q).inflight = NoUpdate /\ ~Returned(q).released
      /\ Returned(q).queue = t /\ Returned(q).kind = q.kind /\ Returned(q).window = q.window
      /\ Returned(q).reading = q.reading
  BY DEF Returned, Subscription
<1>4. Effective(Returned(q)) = t
  BY <1>3, ShownTyped, PathTyped DEF Effective
<1>5. Linked(p, strict) /\ At(p, r.version, strict)
  <2>1. PathOf(q) \in Seq(Update)
    BY PathTyped
  <2>2. /\ Len(p) = Len(PathOf(q))
        /\ \A k \in 1..Len(p) : p[k].base = PathOf(q)[k].base /\ p[k].view = PathOf(q)[k].view
    BY EffectiveTyped
  <2> HIDE DEF p
  <2>3. QED
    BY <1>2, <2>1, <2>2, LinkedSame, AtSame
<1>6. q.window = NoWindow => q.window.items = {}
  BY DEF NoWindow
<1>7. q.window.items \in SUBSET Items
  BY DEF Subscription
<1> HIDE DEF p, t, u, r2
<1>8. CASE q.kind = "window"
  <2>1. WindowDetail(log, p, q.window, r) /\ ~r.misapplied
    BY <1>8 DEF Detailed, p
  <2>2. WindowDetail(log, t, q.window, r2) /\ IsReader(r2) /\ ~r2.misapplied
    BY <1>1, <1>2, <1>5, <1>6, <1>7, <1>8, <2>1, WindowReturned DEF r2
  <2>3. QED
    BY <1>1, <1>3, <1>4, <1>8, <2>2 DEF Detailed, u, r2
<1>9. CASE q.kind = "full"
  <2>1. FullDetail(log, p, r) /\ ~r.misapplied
    BY <1>9 DEF Detailed, p
  <2>2. FullDetail(log, t, r2) /\ IsReader(r2) /\ ~r2.misapplied
    BY <1>1, <1>2, <1>5, <1>9, <2>1, FullReturned DEF r2
  <2>3. QED
    BY <1>1, <1>3, <1>4, <1>9, <2>2 DEF Detailed, u, r2
<1>10. CASE q.kind = "facts"
  <2>1. (\A k \in 1..Len(p) : Plain(p[k])) /\ r.items = {} /\ ~r.misapplied
    BY <1>10 DEF Detailed, FactsDetail, p
  <2>2. Plain(u) /\ 0 < u.view
    <3>1. 1 \in 1..Len(p) /\ u.base \in Nat /\ u.view \in Nat
      BY <1>1, <1>2, UpdateIsRecord
    <3>2. 0 < u.base /\ u.base <= u.view
      BY <1>2, <1>5, <3>1 DEF Linked
    <3>3. QED
      BY <1>2, <2>1, <3>1, <3>2
  <2>3. IsReader(r2) /\ ~r2.misapplied /\ r2.items = {}
    BY <1>1, <2>1, <2>2, PlainApplied DEF r2
  <2>4. \A k \in 1..Len(t) : k + 1 \in 1..Len(p) /\ p[k + 1] = t[k]
    BY <1>1, <1>2
  <2>5. FactsDetail(t, r2)
    BY <2>1, <2>3, <2>4 DEF FactsDetail
  <2>6. QED
    BY <1>1, <1>3, <1>4, <1>10, <2>3, <2>5 DEF Detailed, u, r2
<1>11. QED
  BY <1>8, <1>9, <1>10 DEF Subscription, Kinds

\* A view, for the subscription's kind.
LEMMA ViewedDetailed ==
  ASSUME NEW q \in Subscription, NEW q2 \in Subscription, q2.kind = q.kind, NEW r,
         r.version = 0, Detailed(log, q2, r), version \in Nat, version # 0
  PROVE  /\ Detailed(log, q2, Viewed(q)) /\ IsReader(Viewed(q))
         /\ Viewed(q).version = version /\ Viewed(q).epoch = 0
<1> DEFINE h == [i \in Items |-> Content(i, version)]
           n == [i \in Items |-> 0]
<1>1. /\ q.kind = "full" => Viewed(q) = [version |-> version, epoch |-> 0, items |-> Items,
                                         held |-> h, misapplied |-> FALSE]
      /\ q.kind # "full" => Viewed(q) = [version |-> version, epoch |-> 0, items |-> {},
                                         held |-> n, misapplied |-> FALSE]
  BY DEF Viewed, NoReader
<1>2. h = [i \in Items |-> h[i]] /\ n = [i \in Items |-> n[i]]
  OBVIOUS
<1>3. \A i \in Items : h[i] = ContentOf(log, i, version)
  BY ContentLogged
<1> HIDE DEF h, n
<1>4. IsReader(Viewed(q)) /\ Viewed(q).version = version /\ Viewed(q).epoch = 0
  BY <1>1, <1>2 DEF IsReader
<1>5. CASE q.kind = "full"
  <2>1. Viewed(q).items = Items /\ Accurate(log, Viewed(q)) /\ ~Viewed(q).misapplied
    BY <1>1, <1>3, <1>5 DEF Accurate
  <2>2. FullDetail(log, Effective(q2), Viewed(q))
    BY <1>4, <1>5, <2>1 DEF Detailed, FullDetail
  <2>3. QED
    BY <1>4, <1>5, <2>1, <2>2 DEF Detailed
<1>6. CASE q.kind = "facts"
  <2>1. Viewed(q).items = {} /\ ~Viewed(q).misapplied
    BY <1>1, <1>6
  <2>2. FactsDetail(Effective(q2), Viewed(q))
    BY <1>6, <2>1 DEF Detailed, FactsDetail
  <2>3. QED
    BY <1>4, <1>6, <2>1, <2>2 DEF Detailed
<1>7. CASE q.kind = "window"
  <2>1. Viewed(q).items = {} /\ Accurate(log, Viewed(q)) /\ ~Viewed(q).misapplied
    BY <1>1, <1>7 DEF Accurate
  <2>2. r.items = {} /\ r.epoch = 0 /\ WindowDetail(log, Effective(q2), q2.window, r)
    BY <1>7 DEF Detailed, WindowDetail
  <2>3. WindowDetail(log, Effective(q2), q2.window, Viewed(q))
    BY <1>4, <2>1, <2>2 DEF WindowDetail
  <2>4. QED
    BY <1>4, <1>7, <2>1, <2>3 DEF Detailed
<1>8. QED
  BY <1>4, <1>5, <1>6, <1>7 DEF Subscription, Kinds

\* What was said of the versions before stays true as the log grows.
LEMMA TellsKept ==
  ASSUME NEW lg, NEW lg2, NEW now \in Nat, \A v \in 1..now : lg2[v] = lg[v],
         NEW u \in Update, u.base <= u.view, u.view <= now, NEW items
  PROVE  Tells(lg2, u, items) <=> Tells(lg, u, items)
<1>1. u.base \in Nat /\ u.view \in Nat
  BY UpdateIsRecord
<1>2. (\A v \in 1..u.base : lg2[v] = lg[v]) /\ (\A v \in 1..u.view : lg2[v] = lg[v])
  BY <1>1
<1>3. \A i : /\ ContentOf(lg2, i, u.base) = ContentOf(lg, i, u.base)
             /\ ContentOf(lg2, i, u.view) = ContentOf(lg, i, u.view)
  BY <1>2, ContentKept
<1>4. QED
  BY <1>3 DEF Tells

LEMMA DetailedKept ==
  ASSUME NEW lg, NEW lg2, NEW now \in Nat, \A v \in 1..now : lg2[v] = lg[v],
         NEW q \in Subscription, NEW r, Detailed(lg, q, r), r.version \in Nat, r.version <= now,
         \A k \in 1..Len(PathOf(q)) :
           PathOf(q)[k].base <= PathOf(q)[k].view /\ PathOf(q)[k].view <= now
  PROVE  Detailed(lg2, q, r)
<1> DEFINE p == Effective(q)
<1>1. /\ p \in Seq(Update)
      /\ \A k \in 1..Len(p) : p[k] \in Update /\ p[k].base <= p[k].view /\ p[k].view <= now
  BY EffectiveTyped
<1> HIDE DEF p
<1>2. \A k \in 1..Len(p) : \A items : Tells(lg2, p[k], items) <=> Tells(lg, p[k], items)
  BY <1>1, TellsKept
<1>3. Accurate(lg2, r) <=> Accurate(lg, r)
  <2>1. \A v \in 1..r.version : lg2[v] = lg[v]
    OBVIOUS
  <2>2. \A i : ContentOf(lg2, i, r.version) = ContentOf(lg, i, r.version)
    BY <2>1, ContentKept
  <2>3. QED
    BY <2>2 DEF Accurate
<1>4. FullDetail(lg, p, r) => FullDetail(lg2, p, r)
  BY <1>2, <1>3 DEF FullDetail
<1>5. WindowDetail(lg, p, q.window, r) => WindowDetail(lg2, p, q.window, r)
  <2>1. \A k \in 1..Len(p) : OwnDetail(lg2, p[k], q.window) <=> OwnDetail(lg, p[k], q.window)
    BY <1>2 DEF OwnDetail
  <2>2. QED
    BY <1>3, <2>1 DEF WindowDetail
<1>6. QED
  BY <1>4, <1>5 DEF Detailed, p
-----------------------------------------------------------------------------
(* The window calls a subscription has seen.                               *)

Queued(q, u) == u.epoch <= q.epochs /\ (u.kind = "window" => q.cleared < u.epoch)

Dated(q, r) ==
  /\ q.cleared <= q.epochs /\ q.window.epoch <= q.epochs
  /\ q.window # NoWindow => q.cleared < q.window.epoch
  /\ \A k \in 1..Len(q.queue) : Queued(q, q.queue[k])
  /\ q.inflight # NoUpdate => /\ q.inflight.epoch <= q.epochs
                              /\ ~q.released => Queued(q, q.inflight)
  /\ r.epoch # 0 => q.cleared < r.epoch

LEMMA GotDated ==
  ASSUME NEW q \in Subscription, NEW q2, NEW r, NEW m \in Update,
         Dated(q, r), Got(q, q2, m), Queued(q, m)
  PROVE  Dated(q2, r)
<1>1. \A k \in 1..Len(q2.queue) : Queued(q2, q2.queue[k])
  <2>1. \A u : Queued(q2, u) <=> Queued(q, u)
    BY DEF Got, Queued
  <2>2. q.queue \in Seq(Update)
    BY DEF Subscription
  <2>3. \A k \in 1..Len(q2.queue) : q2.queue[k] = m \/ (k \in 1..Len(q.queue) /\ q2.queue[k] = q.queue[k])
    BY <2>2 DEF Got
  <2>4. QED
    BY <2>1, <2>3 DEF Dated
<1>2. QED
  BY <1>1 DEF Dated, Got, Queued

LEMMA TookDated ==
  ASSUME NEW q \in Subscription, NEW q2, NEW r, Dated(q, r), Took(q, q2)
  PROVE  Dated(q2, r)
<1>1. /\ q.queue \in Seq(Update) /\ Head(q.queue) = q.queue[1] /\ 1 \in 1..Len(q.queue)
      /\ \A k \in 1..Len(Tail(q.queue)) : k + 1 \in 1..Len(q.queue) /\ Tail(q.queue)[k] = q.queue[k + 1]
  BY DEF Subscription, Took
<1>2. \A u : Queued(q2, u) <=> Queued(q, u)
  BY DEF Took, Queued
<1>3. \A k \in 1..Len(q2.queue) : Queued(q2, q2.queue[k])
  BY <1>1, <1>2 DEF Dated, Took
<1>4. Queued(q2, q2.inflight)
  BY <1>1, <1>2 DEF Dated, Took
<1>5. QED
  BY <1>3, <1>4 DEF Dated, Took, Queued

LEMMA ClearedDated ==
  ASSUME NEW q \in Subscription, NEW r, NEW r2, Dated(q, r), r2.epoch = 0
  PROVE  Dated(Cleared(q), r2)
<1>1. \A k \in 1..Len(q.queue) : q.queue[k] \in Update /\ Queued(Cleared(q), Stripped(q.queue[k]))
  <2>1. ASSUME NEW k \in 1..Len(q.queue)
        PROVE  q.queue[k] \in Update /\ q.queue[k].epoch <= q.epochs
    BY DEF Dated, Queued, Subscription
  <2>2. QED
    BY <2>1, ClearedTyped, StrippedUpdate DEF Queued, Plain
<1>2. q.epochs \in Nat /\ NoWindow.epoch = 0
  BY DEF Subscription, NoWindow
<1>3. \A k \in 1..Len(Cleared(q).queue) : Queued(Cleared(q), Cleared(q).queue[k])
  BY <1>1, ClearedTyped
<1>4. Cleared(q).inflight # NoUpdate =>
        Cleared(q).inflight.epoch <= Cleared(q).epochs /\ Cleared(q).released
  BY ClearedTyped DEF Dated
<1>5. Cleared(q).cleared <= Cleared(q).epochs /\ Cleared(q).window.epoch <= Cleared(q).epochs
  BY <1>2, ClearedTyped
<1>6. QED
  BY <1>3, <1>4, <1>5, ClearedTyped DEF Dated

LEMMA ReplacedDated ==
  ASSUME NEW q \in Subscription, NEW q2, NEW r, NEW m, Dated(q, r), Replaced(q, q2, m)
  PROVE  Dated(q2, r)
<1>1. /\ q.queue \in Seq(Update) /\ q.epochs \in Nat /\ q.cleared \in Nat
      /\ q2.epochs = q.epochs + 1 /\ q2.cleared = q.cleared
      /\ q.cleared <= q.epochs
  BY DEF Subscription, Replaced, Dated
<1>2. \A u \in Update : Queued(q, u) => Queued(q2, u) /\ Queued(q2, Stripped(u))
  BY <1>1, StrippedUpdate, UpdateIsRecord DEF Queued, Plain
<1>3. Queued(q2, m)
  BY <1>1 DEF Queued, Replaced
<1>4. ASSUME NEW k \in 1..Len(q.queue)
      PROVE  Queued(q2, q2.queue[k])
  <2>1. q.queue[k] \in Update /\ Queued(q, q.queue[k])
    BY <1>1 DEF Dated
  <2>2. q2.queue[k] \in {q.queue[k], Stripped(q.queue[k])}
    BY DEF Replaced
  <2>3. QED
    BY <1>2, <2>1, <2>2
<1>5. \A k \in 1..Len(q2.queue) : k \in 1..Len(q.queue) \/ k = Len(q.queue) + 1
  BY <1>1 DEF Replaced
<1>6. \A k \in 1..Len(q2.queue) : Queued(q2, q2.queue[k])
  BY <1>3, <1>4, <1>5 DEF Replaced
<1>7. q2.inflight # NoUpdate => /\ q2.inflight.epoch <= q2.epochs
                                /\ ~q2.released => Queued(q2, q2.inflight)
  <2>1. q.inflight # NoUpdate => q.inflight \in Update /\ q.inflight.epoch \in Nat
    BY UpdateIsRecord DEF Subscription
  <2>2. QED
    BY <1>1, <1>2, <2>1 DEF Dated, Replaced
<1>8. QED
  BY <1>1, <1>6, <1>7 DEF Dated, Replaced

LEMMA AppliedEpoch ==
  ASSUME NEW r, IsReader(r), NEW kind, NEW u \in Update
  PROVE  Applied(r, kind, u).epoch = IF u.kind = "window" THEN u.epoch ELSE r.epoch
<1>1. CASE u.kind = "window"
  BY <1>1 DEF Applied, IsReader
<1>2. CASE u.kind # "window" /\ (r.version = 0 \/ u.view <= r.version)
  BY <1>2, KnownApplied
<1>3. CASE u.kind # "window" /\ ~(r.version = 0 \/ u.view <= r.version)
  <2>1. PICK f : f = (r.misapplied \/ ~Fits(r, kind, u))
    OBVIOUS
  <2>2. Applied(r, kind, u) = [r EXCEPT !.version = u.view, !.misapplied = f,
          !.held = [i \in Items |-> IF i \in u.items THEN Content(i, u.view) ELSE @[i]]]
    BY <1>3, <2>1 DEF Applied, Fits
  <2>3. QED
    BY <1>3, <2>2 DEF IsReader
<1>4. QED
  BY <1>1, <1>2, <1>3

LEMMA ReturnedDated ==
  ASSUME NEW q \in Subscription, q.inflight # NoUpdate, NEW r, IsReader(r), Dated(q, r)
  PROVE  LET u == IF Withdrawn(q) THEN Stripped(q.inflight) ELSE q.inflight
         IN  Dated(Returned(q), Applied(r, q.kind, u))
<1> DEFINE u == IF Withdrawn(q) THEN Stripped(q.inflight) ELSE q.inflight
           r2 == Applied(r, q.kind, u)
<1>1. q.inflight \in Update /\ u \in Update
  BY StrippedUpdate DEF Subscription
<1>2. r2.epoch = IF u.kind = "window" THEN u.epoch ELSE r.epoch
  BY <1>1, AppliedEpoch
<1>3. u.kind = "window" => q.cleared < u.epoch
  <2>1. CASE Withdrawn(q)
    BY <1>1, <2>1, StrippedUpdate DEF Plain
  <2>2. CASE ~Withdrawn(q)
    BY <2>2 DEF Withdrawn, Dated, Queued
  <2>3. QED
    BY <2>1, <2>2
<1> HIDE DEF u, r2
<1>4. /\ Returned(q).inflight = NoUpdate /\ Returned(q).queue = q.queue
      /\ Returned(q).window = q.window /\ Returned(q).epochs = q.epochs
      /\ Returned(q).cleared = q.cleared
  BY DEF Returned, Subscription
<1>5. r2.epoch # 0 => q.cleared < r2.epoch
  BY <1>2, <1>3 DEF Dated
<1>6. Dated(Returned(q), r2)
  BY <1>4, <1>5 DEF Dated, Queued
<1>7. QED
  BY <1>6 DEF r2, u

-----------------------------------------------------------------------------
(* What every open subscription is kept to, and an update it receives.      *)

\* What holds of an open subscription q and its reader r: told is the last
\* version the queues have been told of, now the actor's.
Follows(q, r, lg, strict, told, now) ==
  /\ q.window.version <= told
  /\ Chained(PathOf(q), r.version, strict, told, now)
  /\ Detailed(lg, q, r) /\ Dated(q, r)

\* A mutation as the actor hands it on.
Plainly(u) ==
  /\ u \in Update /\ u.kind = "delta" /\ ~u.owned /\ u.epoch = 0
  /\ 0 < u.base /\ u.base < u.view

LEMMA ProjectedMine ==
  ASSUME NEW q \in Subscription, q.kind = "window", NEW u, Plainly(u),
         NEW lg, Tells(lg, u, Items), NEW moved, NEW now \in Nat, moved => now = u.view
  PROVE  LET m == Projected(q, u, moved, now)
         IN  /\ Mine(lg, q, u, m)
             /\ m.epoch \in {0, q.window.epoch}
             /\ m.kind = "window" => q.window # NoWindow /\ m.epoch = q.window.epoch
<1> DEFINE m == Projected(q, u, moved, now)
<1>1. u \in Update /\ u.view \in Nat /\ u.base \in Nat /\ u.items \in SUBSET Items
  BY UpdateIsRecord DEF Plainly
<1>2. q.window \in [epoch : Nat, items : SUBSET Items, version : Nat]
  BY DEF Subscription
<1>3. CASE q.window = NoWindow
  <2>1. m = Stripped(u)
    BY <1>3 DEF Projected
  <2> HIDE DEF m
  <2>2. m \in Update /\ m.base = u.base /\ m.view = u.view /\ Plain(m) /\ m.epoch = 0
    BY <1>1, <2>1, StrippedUpdate DEF Plainly
  <2>3. QED
    BY <1>3, <2>2 DEF Mine, Plain, m
<1>4. CASE q.window # NoWindow /\ moved
  <2>1. m = [u EXCEPT !.epoch = q.window.epoch, !.owned = TRUE, !.kind = "window",
                      !.view = now, !.items = q.window.items]
    BY <1>4 DEF Projected
  <2> HIDE DEF m
  <2>2. /\ m \in Update /\ m.base = u.base /\ m.view = u.view /\ m.kind = "window"
        /\ m.epoch = q.window.epoch /\ m.items = q.window.items /\ m.owned
    BY <1>1, <1>2, <1>4, <2>1 DEF Update
  <2>3. OwnDetail(lg, m, q.window)
    BY <1>4, <2>2 DEF OwnDetail, Plainly
  <2>4. QED
    BY <1>4, <2>2, <2>3 DEF Mine, m
<1>5. CASE q.window # NoWindow /\ ~moved
  <2>1. m = [u EXCEPT !.epoch = q.window.epoch, !.owned = TRUE,
                      !.items = u.items \cap q.window.items]
    BY <1>1, <1>5 DEF Projected, Update
  <2> HIDE DEF m
  <2>2. /\ m \in Update /\ m.base = u.base /\ m.view = u.view /\ m.kind = "delta"
        /\ m.epoch = q.window.epoch /\ m.items = u.items \cap q.window.items /\ m.owned
    BY <1>1, <1>2, <1>5, <2>1 DEF Update, Plainly
  <2>3. Tells(lg, m, q.window.items)
    BY <1>2, <2>2 DEF Tells
  <2>4. OwnDetail(lg, m, q.window)
    BY <1>5, <2>2, <2>3 DEF OwnDetail, Plainly
  <2>5. QED
    BY <1>5, <2>2, <2>4 DEF Mine, m
<1>6. QED
  BY <1>3, <1>4, <1>5

LEMMA FinishTyped ==
  ASSUME NEW q \in Subscription, NEW status \in {"none", "open", "lost", "closed"}
  PROVE  Finish(q, status) \in Subscription /\ Finish(q, status).status = status
<1>1. <<>> \in Seq(Update) /\ NoWindow \in [epoch : Nat, items : SUBSET Items, version : Nat]
  BY DEF NoWindow
<1>2. QED
  BY <1>1 DEF Finish, Fresh, Subscription

LEMMA EnqueueTyped ==
  ASSUME NEW q \in Subscription, NEW m \in Update, NEW fits
  PROVE  LET q2 == Enqueue(q, m, fits)
         IN  q2 \in Subscription /\ (q2.status = "lost" \/ q2 = [q EXCEPT !.queue = Append(@, m)])
<1>1. Append(q.queue, m) \in Seq(Update)
  BY DEF Subscription
<1>2. QED
  BY <1>1, FinishTyped DEF Enqueue, Subscription

\* A delivered mutation is queued in its subscription's form, or the
\* subscription ends.
LEMMA ReceiveGot ==
  ASSUME NEW q \in Subscription, q.status = "open", NEW u, Plainly(u), q.window.version < u.view,
         NEW lg, Tells(lg, u, Items), NEW moved, NEW now \in Nat, moved => now = u.view,
         NEW fits
  PROVE  LET q2 == Receive(q, u, moved, now, fits)
         IN  /\ q2 \in Subscription
             /\ q2.status = "open" =>
                  /\ q2.registered = q.registered
                  /\ q2.window.version \in {q.window.version, u.view}
                  /\ \E m \in Update : /\ Mine(lg, q, u, m) /\ Got(q, q2, m)
                                       /\ m.epoch \in {0, q.window.epoch}
                                       /\ m.kind = "window" =>
                                            q.window # NoWindow /\ m.epoch = q.window.epoch
<1> DEFINE m == IF q.kind = "full" THEN u
                ELSE IF q.kind = "facts" THEN Stripped(u) ELSE Projected(q, u, moved, now)
           a  == Enqueue(q, m, fits)
           q2 == Receive(q, u, moved, now, fits)
<1>1. /\ u \in Update /\ u.view \in Nat /\ u.base \in Nat /\ 0 < u.view
      /\ q.window \in [epoch : Nat, items : SUBSET Items, version : Nat]
      /\ q.kind \in {"full", "facts", "window"}
  BY UpdateIsRecord DEF Plainly, Subscription, Kinds
<1>2. /\ Mine(lg, q, u, m) /\ m.epoch \in {0, q.window.epoch}
      /\ m.kind = "window" => q.window # NoWindow /\ m.epoch = q.window.epoch
  <2>1. CASE q.kind = "full"
    BY <1>1, <2>1 DEF Mine, Plainly
  <2>2. CASE q.kind = "facts"
    <3>1. Stripped(u).epoch = 0 /\ Plain(Stripped(u)) /\ Stripped(u) \in Update
      BY <1>1, StrippedUpdate DEF Plainly
    <3>2. QED
      BY <1>1, <2>2, <3>1, StrippedUpdate DEF Mine, Plain
  <2>3. CASE q.kind = "window"
    <3>1. m = Projected(q, u, moved, now)
      BY <2>3
    <3> HIDE DEF m
    <3>2. QED
      BY <2>3, <3>1, ProjectedMine
  <2>4. QED
    BY <1>1, <2>1, <2>2, <2>3
<1>3. ~(u.view <= q.window.version)
  BY <1>1
<1>4. q2 = IF a.status = "lost" THEN [a EXCEPT !.registered = FALSE]
           ELSE IF q.kind = "window" /\ q.window # NoWindow THEN [a EXCEPT !.window.version = m.view]
           ELSE a
  BY <1>3 DEF Receive
<1> HIDE DEF m, q2
<1>5. m \in Update /\ m.view = u.view
  BY <1>2 DEF Mine
<1>6. a \in Subscription /\ (a.status = "lost" \/ a = [q EXCEPT !.queue = Append(@, m)])
  BY <1>5, EnqueueTyped
<1> HIDE DEF a
<1>7. CASE a.status = "lost"
  <2>1. q2 = [a EXCEPT !.registered = FALSE]
    BY <1>4, <1>7
  <2>2. q2 \in Subscription /\ q2.status = "lost"
    BY <1>6, <1>7, <2>1 DEF Subscription
  <2>3. QED
    BY <2>2 DEF q2
<1>8. CASE a.status # "lost"
  <2>1. /\ a.queue = Append(q.queue, m) /\ a.registered = q.registered
        /\ a.kind = q.kind /\ a.inflight = q.inflight /\ a.released = q.released
        /\ a.reading = q.reading /\ a.epochs = q.epochs /\ a.cleared = q.cleared
        /\ a.window = q.window
    BY <1>6, <1>8 DEF Subscription
  <2>2. CASE q.kind = "window" /\ q.window # NoWindow
    <3>1. q2 = [a EXCEPT !.window.version = u.view]
      BY <1>4, <1>5, <1>8, <2>2
    <3>2. PICK w : w = [a.window EXCEPT !.version = u.view]
      OBVIOUS
    <3>3. /\ w \in [epoch : Nat, items : SUBSET Items, version : Nat]
          /\ w.epoch = q.window.epoch /\ w.items = q.window.items /\ w.version = u.view
          /\ w # NoWindow
      BY <1>1, <2>1, <3>2 DEF NoWindow
    <3>4. q2 = [a EXCEPT !.window = w]
      BY <1>6, <3>1, <3>2 DEF Subscription
    <3>5. q2 \in Subscription /\ q2.window = w
      BY <1>6, <3>3, <3>4 DEF Subscription
    <3>6. /\ q2.queue = Append(q.queue, m) /\ q2.registered = q.registered
          /\ q2.kind = q.kind /\ q2.inflight = q.inflight /\ q2.released = q.released
          /\ q2.reading = q.reading /\ q2.epochs = q.epochs /\ q2.cleared = q.cleared
      BY <1>6, <2>1, <3>4 DEF Subscription
    <3>7. Got(q, q2, m)
      BY <2>2, <3>3, <3>5, <3>6 DEF Got
    <3>8. QED
      BY <1>2, <1>5, <3>3, <3>5, <3>6, <3>7 DEF q2
  <2>3. CASE ~(q.kind = "window" /\ q.window # NoWindow)
    <3>1. q2 = a
      BY <1>4, <1>8, <2>3
    <3>2. Got(q, q2, m)
      BY <1>6, <2>1, <3>1 DEF Got
    <3>3. QED
      BY <1>2, <1>5, <1>6, <2>1, <3>1, <3>2 DEF q2
  <2>4. QED
    BY <2>2, <2>3
<1>9. QED
  BY <1>7, <1>8

\* What a delivery leaves of a subscription that stays open.
Kept(q, q2) == q2.registered = q.registered /\ q2.kind = q.kind /\ q2.reading = q.reading

LEMMA FollowsReceived ==
  ASSUME NEW q \in Subscription, q.status = "open", NEW u, Plainly(u),
         NEW lg, Tells(lg, u, Items), NEW moved, NEW now \in Nat, moved => now = u.view,
         NEW fits, NEW r, r.version \in Nat, u.view <= now,
         Follows(q, r, lg, TRUE, u.base, now)
  PROVE  LET q2 == Receive(q, u, moved, now, fits)
         IN  /\ q2 \in Subscription
             /\ q2.status = "open" =>
                  Kept(q, q2) /\ Follows(q2, r, lg, TRUE, u.view, now)
<1> DEFINE q2 == Receive(q, u, moved, now, fits)
<1>1. u \in Update /\ u.base \in Nat /\ u.view \in Nat /\ 0 < u.base /\ u.base < u.view
  BY UpdateIsRecord DEF Plainly
<1>2. q.window.version \in Nat /\ q.window.version < u.view
  <2>1. q.window.version \in Nat /\ q.window.version <= u.base
    BY DEF Subscription, Follows
  <2>2. QED
    BY <1>1, <2>1
<1>3. /\ q2 \in Subscription
      /\ q2.status = "open" =>
           /\ q2.registered = q.registered
           /\ q2.window.version \in {q.window.version, u.view}
           /\ \E m \in Update : /\ Mine(lg, q, u, m) /\ Got(q, q2, m)
                                /\ m.epoch \in {0, q.window.epoch}
                                /\ m.kind = "window" =>
                                     q.window # NoWindow /\ m.epoch = q.window.epoch
  BY <1>2, ReceiveGot
<1> HIDE DEF q2
<1>4. SUFFICES ASSUME q2.status = "open"
               PROVE  Kept(q, q2) /\ Follows(q2, r, lg, TRUE, u.view, now)
  BY <1>3 DEF q2
<1>5. PICK m \in Update : /\ Mine(lg, q, u, m) /\ Got(q, q2, m)
                          /\ m.epoch \in {0, q.window.epoch}
                          /\ m.kind = "window" => q.window # NoWindow /\ m.epoch = q.window.epoch
  BY <1>3, <1>4
<1>6. Detailed(lg, q2, r)
  BY <1>1, <1>5, GotDetailed DEF Plainly, Follows
<1>7. Dated(q2, r)
  <2>1. Queued(q, m)
    <3>1. q.epochs \in Nat
      BY DEF Subscription
    <3>2. QED
      BY <1>5, <3>1 DEF Queued, Follows, Dated
  <2>2. QED
    BY <1>5, <2>1, GotDated DEF Follows
<1>8. Chained(PathOf(q2), r.version, TRUE, u.view, now)
  <2>1. PathOf(q2) = Append(PathOf(q), m) /\ PathOf(q) \in Seq(Update)
    BY <1>3, <1>5, PathGrows, PathTyped DEF Got
  <2>2. m.base = u.base /\ m.view = u.view
    BY <1>5 DEF Mine
  <2>3. Chained(PathOf(q), r.version, TRUE, m.base, now)
    BY <2>2 DEF Follows
  <2>4. 0 < m.base /\ m.base <= m.view /\ m.view <= now
    BY <1>1, <2>2
  <2>5. Chained(Append(PathOf(q), m), r.version, TRUE, m.view, now)
    BY <2>1, <2>3, <2>4, ChainGrows
  <2>6. QED
    BY <2>1, <2>2, <2>5
<1>9. q2.window.version <= u.view
  BY <1>1, <1>2, <1>3, <1>4
<1>10. Kept(q, q2)
  BY <1>3, <1>4, <1>5 DEF Got, Kept
<1>11. QED
  BY <1>6, <1>7, <1>8, <1>9, <1>10 DEF Follows

-----------------------------------------------------------------------------
(* The steps of one subscription.                                           *)

LEMMA FollowsLoosened ==
  ASSUME NEW q \in Subscription, NEW r, r.version \in Nat, NEW lg, NEW strict \in BOOLEAN,
         NEW strict2 \in BOOLEAN, NEW told \in Nat, NEW told2 \in Nat, NEW now \in Nat,
         NEW now2 \in Nat, Follows(q, r, lg, strict, told, now),
         now <= now2, told <= told2, strict2 => strict /\ told2 = told,
         NEW lg2, \A v \in 1..now : lg2[v] = lg[v]
  PROVE  Follows(q, r, lg2, strict2, told2, now2)
<1>1. PathOf(q) \in Seq(Update)
  BY PathTyped
<1>2. Chained(PathOf(q), r.version, strict2, told2, now2)
  BY <1>1, ChainLoosens DEF Follows
<1>3. q.window.version \in Nat
  BY DEF Subscription
<1>4. \A k \in 1..Len(PathOf(q)) :
        PathOf(q)[k].base <= PathOf(q)[k].view /\ PathOf(q)[k].view <= now
  BY DEF Follows, Chained, Linked
<1>5. r.version <= now
  BY DEF Follows, Chained
<1>6. Detailed(lg2, q, r)
  BY <1>4, <1>5, DetailedKept DEF Follows
<1>7. QED
  BY <1>2, <1>3, <1>6 DEF Follows

\* Registration and the reads of a window's sources.
LEMMA FollowsSame ==
  ASSUME NEW q \in Subscription, NEW q2 \in Subscription, NEW r, NEW lg, NEW strict, NEW told,
         NEW now, Follows(q, r, lg, strict, told, now),
         q2.queue = q.queue, q2.inflight = q.inflight, q2.released = q.released,
         q2.kind = q.kind, q2.window = q.window, q2.epochs = q.epochs, q2.cleared = q.cleared,
         q.kind = "window" \/ q2.reading = q.reading
  PROVE  Follows(q2, r, lg, strict, told, now)
<1>1. PathOf(q2) = PathOf(q)
  BY DEF PathOf
<1>2. Effective(q2) = Effective(q)
  <2>1. Withdrawn(q2) = Withdrawn(q)
    BY DEF Withdrawn
  <2>2. Shown(q2).inflight = Shown(q).inflight /\ Shown(q2).queue = Shown(q).queue
    BY <2>1, ShownTyped
  <2>3. QED
    BY <2>2 DEF Effective, PathOf
<1>3. Detailed(lg, q2, r)
  BY <1>2 DEF Detailed, Follows
<1>4. Dated(q2, r)
  BY DEF Dated, Queued, Follows
<1>5. QED
  BY <1>1, <1>3, <1>4 DEF Follows

LEMMA FollowsTaken ==
  ASSUME NEW q \in Subscription, NEW q2, NEW r, NEW lg, NEW strict, NEW told, NEW now,
         Follows(q, r, lg, strict, told, now), Took(q, q2)
  PROVE  Follows(q2, r, lg, strict, told, now)
<1>1. PathOf(q2) = PathOf(q)
  BY PathTaken DEF Took
<1>2. Detailed(lg, q2, r) /\ Dated(q2, r)
  BY TookDetailed, TookDated DEF Follows
<1>3. QED
  BY <1>1, <1>2 DEF Follows, Took

\* A chain only depends on the versions that its updates span.
LEMMA SpansFollow ==
  ASSUME NEW q \in Subscription, NEW q2 \in Subscription, NEW v, NEW strict, NEW told, NEW now,
         Chained(PathOf(q), v, strict, told, now), q2.inflight = q.inflight,
         Len(q2.queue) = Len(q.queue),
         \A k \in 1..Len(q.queue) :
           q2.queue[k].base = q.queue[k].base /\ q2.queue[k].view = q.queue[k].view
  PROVE  Chained(PathOf(q2), v, strict, told, now)
<1> DEFINE p == PathOf(q)
           p2 == PathOf(q2)
<1>1. p \in Seq(Update) /\ p2 \in Seq(Update)
  BY PathTyped
<1>2. Len(p2) = Len(p) /\ \A k \in 1..Len(p) : p2[k].base = p[k].base /\ p2[k].view = p[k].view
  <2>1. CASE q.inflight = NoUpdate
    BY <2>1, PathTyped
  <2>2. CASE q.inflight # NoUpdate
    <3>1. /\ Len(p) = Len(q.queue) + 1 /\ p[1] = q.inflight
          /\ \A k \in 1..Len(q.queue) : p[k + 1] = q.queue[k]
      BY <2>2, PathTyped
    <3>2. /\ Len(p2) = Len(q.queue) + 1 /\ p2[1] = q.inflight
          /\ \A k \in 1..Len(q.queue) : p2[k + 1] = q2.queue[k]
      BY <2>2, PathTyped
    <3>3. Len(q.queue) \in Nat
      BY DEF Subscription
    <3> HIDE DEF p, p2
    <3>4. ASSUME NEW k \in 1..Len(p), k # 1
          PROVE  k - 1 \in 1..Len(q.queue) /\ k = (k - 1) + 1
      BY <3>1, <3>3, <3>4
    <3>5. QED
      BY <3>1, <3>2, <3>4
  <2>3. QED
    BY <2>1, <2>2
<1> HIDE DEF p, p2
<1>3. Chained(p2, v, strict, told, now)
  BY <1>1, <1>2, ChainSame DEF p
<1>4. QED
  BY <1>3 DEF p2

LEMMA FollowsCleared ==
  ASSUME NEW q \in Subscription, NEW r, NEW lg, NEW strict, NEW told \in Nat, NEW now,
         Follows(q, r, lg, strict, told, now), q.window # NoWindow \/ q.reading # {},
         NEW r2, r2.epoch = 0, r2.items = {}, r2.misapplied = r.misapplied, r2.version = r.version
  PROVE  Follows(Cleared(q), r2, lg, strict, told, now)
<1> DEFINE q2 == Cleared(q)
<1>1. /\ q2 \in Subscription /\ q2.inflight = q.inflight /\ q2.window = NoWindow
      /\ Len(q2.queue) = Len(q.queue)
      /\ \A k \in 1..Len(q.queue) : q2.queue[k] = Stripped(q.queue[k])
  BY ClearedTyped
<1> HIDE DEF q2
<1>2. \A k \in 1..Len(q.queue) :
        q2.queue[k].base = q.queue[k].base /\ q2.queue[k].view = q.queue[k].view
  <2>1. \A k \in 1..Len(q.queue) : q.queue[k] \in Update
    BY DEF Subscription
  <2>2. QED
    BY <1>1, <2>1, StrippedUpdate
<1>3. Chained(PathOf(q2), r2.version, strict, told, now)
  BY <1>1, <1>2, SpansFollow DEF Follows
<1>4. Detailed(lg, q2, r2) /\ Dated(q2, r2)
  BY ClearedDetailed, ClearedDated DEF q2, Follows
<1>5. q2.window.version <= told
  BY <1>1 DEF NoWindow
<1>6. QED
  BY <1>3, <1>4, <1>5 DEF Follows, q2

LEMMA FollowsReplaced ==
  ASSUME NEW q \in Subscription, NEW q2, NEW r, r.version \in Nat, NEW lg, NEW strict \in BOOLEAN,
         NEW now \in Nat, now # 0, NEW m, Follows(q, r, lg, strict, now, now), q.kind = "window",
         Replaced(q, q2, m), m.base = now, q2.window.version = now
  PROVE  Follows(q2, r, lg, strict, now, now)
<1>1. m \in Update /\ m.view = now
  BY DEF Replaced, Baseline
<1>2. q.queue \in Seq(Update) /\ q2 \in Subscription /\ PathOf(q) \in Seq(Update)
  BY PathTyped DEF Subscription, Replaced
<1>3. PICK qa : qa = [q EXCEPT !.queue = Append(q.queue, m)]
  OBVIOUS
<1>4. qa \in Subscription /\ qa.queue = Append(q.queue, m) /\ qa.inflight = q.inflight
  <2>1. Append(q.queue, m) \in Seq(Update)
    BY <1>1, <1>2
  <2>2. PICK s \in Seq(Update) : s = Append(q.queue, m)
    BY ONLY <2>1
  <2>3. [q EXCEPT !.queue = s] \in Subscription
    BY ONLY q \in Subscription, s \in Seq(Update) DEF Subscription
  <2>4. [q EXCEPT !.queue = s].queue = s /\ [q EXCEPT !.queue = s].inflight = q.inflight
    BY ONLY q \in Subscription, s \in Seq(Update) DEF Subscription
  <2>5. QED
    BY ONLY <1>3, <2>2, <2>3, <2>4
<1>5. PathOf(qa) = Append(PathOf(q), m)
  BY <1>1, <1>4, PathGrows
<1>6. Chained(PathOf(qa), r.version, strict, now, now)
  <2>1. PICK p \in Seq(Update) : p = PathOf(q)
    BY <1>2
  <2>2. Chained(p, r.version, strict, m.base, now)
    BY <2>1 DEF Follows
  <2>3. Baseline(m) /\ 0 < m.base /\ m.base <= m.view /\ m.view <= now
    BY <1>1 DEF Baseline
  <2>4. Chained(Append(p, m), r.version, strict, m.view, now)
    BY ONLY <1>1, <2>2, <2>3, ChainGrows, p \in Seq(Update), r.version \in Nat, now \in Nat,
       strict \in BOOLEAN, m.base = now
  <2>5. QED
    BY ONLY <1>1, <1>5, <2>1, <2>4
<1>7. Chained(PathOf(q2), r.version, strict, now, now)
  <2>1. /\ Len(q2.queue) = Len(qa.queue) /\ q2.inflight = qa.inflight
        /\ \A k \in 1..Len(qa.queue) : k \in 1..Len(q.queue) \/ k = Len(q.queue) + 1
        /\ qa.queue[Len(q.queue) + 1] = m
        /\ \A k \in 1..Len(q.queue) : qa.queue[k] = q.queue[k] /\ q.queue[k] \in Update
    <3>1. Len(q.queue) \in Nat /\ \A k \in 1..Len(q.queue) : q.queue[k] \in Update
      BY <1>2
    <3>2. /\ Len(qa.queue) = Len(q.queue) + 1 /\ qa.queue[Len(q.queue) + 1] = m
          /\ \A k \in 1..Len(q.queue) : qa.queue[k] = q.queue[k]
      BY <1>1, <1>2, <1>4
    <3>3. Len(q2.queue) = Len(q.queue) + 1 /\ q2.inflight = qa.inflight
      BY <1>4 DEF Replaced
    <3>4. QED
      BY ONLY <3>1, <3>2, <3>3
  <2>2. \A k \in 1..Len(q.queue) : q2.queue[k] \in {q.queue[k], Stripped(q.queue[k])}
    BY DEF Replaced
  <2>3. \A k \in 1..Len(qa.queue) :
          q2.queue[k].base = qa.queue[k].base /\ q2.queue[k].view = qa.queue[k].view
    <3>1. \A k \in 1..Len(q.queue) : Stripped(q.queue[k]).base = q.queue[k].base
                                   /\ Stripped(q.queue[k]).view = q.queue[k].view
      BY <2>1, StrippedUpdate
    <3>2. \A k \in 1..Len(q.queue) : q2.queue[k].base = qa.queue[k].base
                                   /\ q2.queue[k].view = qa.queue[k].view
      BY ONLY <2>1, <2>2, <3>1
    <3>3. q2.queue[Len(q.queue) + 1] = m
      BY DEF Replaced
    <3>4. QED
      BY ONLY <2>1, <3>2, <3>3
  <2>4. QED
    BY <1>2, <1>4, <1>6, <2>1, <2>3, SpansFollow
<1>8. Detailed(lg, q2, r) /\ Dated(q2, r)
  BY ReplacedDetailed, ReplacedDated DEF Follows, Dated
<1>9. QED
  BY <1>7, <1>8 DEF Follows

LEMMA AppliedVersion ==
  ASSUME NEW r, IsReader(r), NEW kind, NEW u \in Update
  PROVE  LET v == Applied(r, kind, u).version
         IN  /\ v = u.view \/ (v = r.version /\ (r.version = 0 \/ u.view <= r.version))
<1>1. CASE u.kind = "window"
  BY <1>1 DEF Applied, IsReader
<1>2. CASE u.kind # "window" /\ (r.version = 0 \/ u.view <= r.version)
  BY <1>2, KnownApplied
<1>3. CASE u.kind # "window" /\ ~(r.version = 0 \/ u.view <= r.version)
  <2>1. PICK f : f = (r.misapplied \/ ~Fits(r, kind, u))
    OBVIOUS
  <2>2. Applied(r, kind, u) = [r EXCEPT !.version = u.view, !.misapplied = f,
          !.held = [i \in Items |-> IF i \in u.items THEN Content(i, u.view) ELSE @[i]]]
    BY <1>3, <2>1 DEF Applied, Fits
  <2>3. QED
    BY <1>3, <2>2 DEF IsReader
<1>4. QED
  BY <1>1, <1>2, <1>3

LEMMA FollowsReturned ==
  ASSUME NEW q \in Subscription, q.inflight # NoUpdate, NEW r, IsReader(r),
         NEW strict \in BOOLEAN, NEW told \in Nat, NEW now \in Nat,
         Follows(q, r, log, strict, told, now)
  PROVE  LET u  == IF Withdrawn(q) THEN Stripped(q.inflight) ELSE q.inflight
             r2 == Applied(r, q.kind, u)
         IN  Follows(Returned(q), r2, log, strict, told, now) /\ IsReader(r2)
<1> DEFINE u == IF Withdrawn(q) THEN Stripped(q.inflight) ELSE q.inflight
           r2 == Applied(r, q.kind, u)
           p == PathOf(q)
<1>1. Linked(p, strict) /\ At(p, r.version, strict)
  BY DEF Follows, Chained
<1>2. u \in Update /\ Detailed(log, Returned(q), r2) /\ IsReader(r2) /\ u.view = q.inflight.view
  BY <1>1, ReturnedDetailed DEF Follows
<1>3. Dated(Returned(q), r2)
  BY ReturnedDated DEF Follows
<1>4. p \in Seq(Update) /\ p[1] = q.inflight /\ p # <<>>
  BY PathTyped, PathReturned
<1>5. /\ Returned(q) \in Subscription /\ Returned(q).inflight = NoUpdate
      /\ Returned(q).queue = q.queue /\ Returned(q).window = q.window
  BY DEF Returned, Subscription
<1>6. p # <<>> /\ PathOf(Returned(q)) = Tail(p)
  <2>1. q.queue \in Seq(Update)
    BY DEF Subscription
  <2>2. QED
    BY <1>4, <1>5, PathReturned
<1>7. r2.version = u.view \/ (r2.version = r.version /\ (r.version = 0 \/ u.view <= r.version))
  BY <1>2, AppliedVersion
<1> HIDE DEF u, r2, p
<1>8. r2.version \in Nat /\ r.version \in Nat
  BY <1>2 DEF IsReader
<1>9. Chained(p, r.version, strict, told, now)
  BY DEF Follows, p
<1>10. Chained(Tail(p), r2.version, strict, told, now)
  BY <1>2, <1>4, <1>7, <1>8, <1>9, ChainReturned
<1>11. Follows(Returned(q), r2, log, strict, told, now)
  BY <1>2, <1>3, <1>5, <1>6, <1>10 DEF Follows
<1>12. QED
  BY <1>2, <1>11 DEF r2, u

LEMMA FollowsViewed ==
  ASSUME NEW q0 \in Subscription, NEW q \in Subscription, NEW r, r.version = 0, q.kind = q0.kind,
         version \in Nat, version # 0, Follows(q, r, log, TRUE, version, version)
  PROVE  Follows(q, Viewed(q0), log, TRUE, version, version) /\ IsReader(Viewed(q0))
<1>1. /\ Detailed(log, q, Viewed(q0)) /\ IsReader(Viewed(q0))
      /\ Viewed(q0).version = version /\ Viewed(q0).epoch = 0
  BY ViewedDetailed DEF Follows
<1>2. PathOf(q) \in Seq(Update)
  BY PathTyped
<1>3. Chained(PathOf(q), version, TRUE, version, version)
  BY <1>2, ChainViewed DEF Follows
<1>4. QED
  BY <1>1, <1>3 DEF Follows, Dated

LEMMA FollowsFresh ==
  ASSUME NEW kind \in Kinds, NEW lg, NEW strict, NEW told \in Nat, NEW now \in Nat
  PROVE  /\ Fresh(kind) \in Subscription /\ Fresh(kind).registered
         /\ Follows(Fresh(kind), NoReader, lg, strict, told, now) /\ IsReader(NoReader)
<1> DEFINE q == Fresh(kind)
<1>1. <<>> \in Seq(Update) /\ NoWindow \in [epoch : Nat, items : SUBSET Items, version : Nat]
  BY DEF NoWindow
<1>2. /\ q \in Subscription /\ q.registered /\ q.queue = <<>> /\ q.inflight = NoUpdate
      /\ ~q.released /\ q.window = NoWindow /\ q.reading = {} /\ q.epochs = 0 /\ q.cleared = 0
      /\ q.kind = kind
  BY <1>1 DEF Fresh, Subscription
<1> HIDE DEF q
<1>3. PathOf(q) = <<>> /\ Effective(q) = <<>>
  BY <1>2, PathTyped, ShownTyped DEF Effective
<1>4. NoReader.version = 0 /\ NoReader.epoch = 0 /\ NoReader.items = {} /\ ~NoReader.misapplied
  BY DEF NoReader
<1>5. IsReader(NoReader)
  <2> DEFINE h == [i \in Items |-> 0]
  <2>1. h = [i \in Items |-> h[i]] /\ NoReader.held = h
    BY DEF NoReader
  <2>2. NoReader = [version |-> 0, epoch |-> 0, items |-> {}, held |-> h, misapplied |-> FALSE]
    BY DEF NoReader
  <2> HIDE DEF h
  <2>3. NoReader = [version |-> NoReader.version, epoch |-> NoReader.epoch,
                    items |-> NoReader.items, held |-> h, misapplied |-> NoReader.misapplied]
    BY <2>2
  <2>4. h = [i \in Items |-> NoReader.held[i]]
    BY <2>1
  <2>5. QED
    BY <1>4, <2>3, <2>4 DEF IsReader
<1>6. Chained(PathOf(q), 0, strict, told, now)
  BY <1>3, ChainEmpty
<1>7. Detailed(lg, q, NoReader)
  BY <1>2, <1>3, <1>4 DEF Detailed, FullDetail, FactsDetail, WindowDetail, Accurate, NoWindow
<1>8. Dated(q, NoReader)
  BY <1>2, <1>4 DEF Dated, NoWindow
<1>9. QED
  BY <1>2, <1>4, <1>5, <1>6, <1>7, <1>8 DEF Follows, NoWindow, q

HubType == [published : Nat, subs : [Subs -> Subscription]]

\* While mutations are published, every open subscription is registered.
AllFollow(h, rs, lg, strict, told, now) ==
  \A s \in Subs : h.subs[s].status = "open" =>
    (strict => h.subs[s].registered) /\ Follows(h.subs[s], rs[s], lg, strict, told, now)

Reading(rs) == \A s \in Subs : rs[s].version \in Nat

LEMMA AllLoosened ==
  ASSUME NEW h \in HubType, NEW rs, Reading(rs), NEW lg, NEW strict \in BOOLEAN,
         NEW strict2 \in BOOLEAN, NEW told \in Nat, NEW told2 \in Nat, NEW now \in Nat,
         NEW now2 \in Nat, AllFollow(h, rs, lg, strict, told, now),
         now <= now2, told <= told2, strict2 => strict /\ told2 = told,
         NEW lg2, \A v \in 1..now : lg2[v] = lg[v]
  PROVE  AllFollow(h, rs, lg2, strict2, told2, now2)
<1>1. SUFFICES ASSUME NEW s \in Subs, h.subs[s].status = "open"
               PROVE  /\ strict2 => h.subs[s].registered
                      /\ Follows(h.subs[s], rs[s], lg2, strict2, told2, now2)
  BY DEF AllFollow
<1>2. h.subs[s] \in Subscription /\ rs[s].version \in Nat
  BY DEF HubType, Reading
<1>3. Follows(h.subs[s], rs[s], lg, strict, told, now) /\ (strict => h.subs[s].registered)
  BY <1>1 DEF AllFollow
<1>4. PICK q, r : q = h.subs[s] /\ r = rs[s]
  OBVIOUS
<1>5. q \in Subscription /\ r.version \in Nat /\ Follows(q, r, lg, strict, told, now)
  BY <1>2, <1>3, <1>4
<1>6. Follows(q, r, lg2, strict2, told2, now2)
  BY ONLY <1>5, FollowsLoosened, strict \in BOOLEAN, strict2 \in BOOLEAN, told \in Nat,
     told2 \in Nat, now \in Nat, now2 \in Nat, now <= now2, told <= told2,
     strict2 => strict /\ told2 = told, \A v \in 1..now : lg2[v] = lg[v], SMTT(60)
<1>7. QED
  BY <1>3, <1>4, <1>6

LEMMA AllDelivered ==
  ASSUME NEW h \in HubType, NEW rs, Reading(rs), NEW lg, NEW now \in Nat, NEW u, Plainly(u),
         Tells(lg, u, Items), AllFollow(h, rs, lg, TRUE, u.base, now), u.view <= now,
         h.published <= u.base, host = "open",
         NEW moved, moved => now = u.view, NEW lost
  PROVE  LET h2 == Deliver(h, u, moved, now, lost)
         IN  /\ h2 \in HubType /\ h2.published = u.view
             /\ AllFollow(h2, rs, lg, TRUE, u.view, now)
             /\ \A s \in Subs : h2.subs[s].status = "open" =>
                  Kept(h.subs[s], h2.subs[s])
<1> DEFINE g(s) == IF h.subs[s].registered
                   THEN Receive(h.subs[s], u, moved, now, s \notin lost) ELSE h.subs[s]
           h2 == Deliver(h, u, moved, now, lost)
<1>1. u # NoUpdate /\ u.base \in Nat /\ u.view \in Nat /\ u.base < u.view /\ h.published \in Nat
  BY UpdateIsRecord DEF Plainly, HubType
<1>2. ~(u.view <= h.published)
  BY <1>1
<1>3. h2 = [published |-> u.view, subs |-> [s \in Subs |-> g(s)]]
  BY <1>1, <1>2 DEF Deliver
<1>4. ASSUME NEW s \in Subs
      PROVE  /\ g(s) \in Subscription
             /\ g(s).status = "open" => /\ g(s).registered
                                        /\ Follows(g(s), rs[s], lg, TRUE, u.view, now)
                                        /\ Kept(h.subs[s], g(s))
  <2>1. h.subs[s] \in Subscription /\ rs[s].version \in Nat
    BY DEF HubType, Reading
  <2>2. CASE h.subs[s].status = "open"
    <3>1. h.subs[s].registered /\ Follows(h.subs[s], rs[s], lg, TRUE, u.base, now)
      BY <2>2 DEF AllFollow
    <3>2. PICK fits : fits = (s \notin lost)
      OBVIOUS
    <3>3. g(s) = Receive(h.subs[s], u, moved, now, fits)
      BY <3>1, <3>2
    <3> HIDE DEF g
    <3>4. PICK q, r : q = h.subs[s] /\ r = rs[s]
      OBVIOUS
    <3>5. /\ q \in Subscription /\ q.status = "open" /\ r.version \in Nat /\ q.registered
          /\ Follows(q, r, lg, TRUE, u.base, now) /\ g(s) = Receive(q, u, moved, now, fits)
      BY <2>1, <2>2, <3>1, <3>3, <3>4
    <3>6. /\ g(s) \in Subscription
          /\ g(s).status = "open" => Kept(q, g(s)) /\ Follows(g(s), r, lg, TRUE, u.view, now)
      BY ONLY <3>5, FollowsReceived, Plainly(u), Tells(lg, u, Items), now \in Nat,
           moved => now = u.view, u.view <= now
    <3>7. QED
      BY <3>4, <3>5, <3>6 DEF Kept
  <2>3. CASE h.subs[s].status # "open"
    <3>1. g(s) = h.subs[s]
      BY <2>3 DEF Receive
    <3> HIDE DEF g
    <3>2. QED
      BY <2>1, <2>3, <3>1
  <2>4. QED
    BY <2>2, <2>3
<1> HIDE DEF g, h2
<1>5. h2 \in HubType /\ h2.published = u.view /\ \A s \in Subs : h2.subs[s] = g(s)
  BY <1>1, <1>3, <1>4 DEF HubType
<1>6. AllFollow(h2, rs, lg, TRUE, u.view, now)
  BY <1>4, <1>5 DEF AllFollow
<1>7. QED
  BY <1>4, <1>5, <1>6 DEF h2
-----------------------------------------------------------------------------
(* The inductive invariant.                                                *)

\* Publication is possible: no subscription is spared the next version.
Strict == host = "open" /\ actor \in {"live", "broken"}

\* The version the queues have been told of.
Told == IF pending = NoUpdate THEN version ELSE pending.base

PendingInv ==
  pending # NoUpdate =>
    Plainly(pending) /\ pending.view = version /\ Tells(log, pending, Items) /\ actor = "live"

FeedInv ==
  /\ version \in Nat /\ version # 0 /\ log \in Seq(SUBSET Items) /\ Len(log) = version
  /\ actor \in {"live", "broken", "removed", "deleted"} /\ host \in {"open", "closed"}
  /\ PendingInv
  /\ hub \in HubType /\ hub.published <= Told
  /\ readers = [s \in Subs |-> readers[s]] /\ \A s \in Subs : IsReader(readers[s])
  /\ AllFollow(hub, readers, log, Strict, Told, version)

LEMMA ToldTyped ==
  ASSUME FeedInv
  PROVE  /\ Told \in Nat /\ Told <= version /\ Strict \in BOOLEAN /\ Reading(readers)
         /\ hub.published \in Nat /\ \A s \in Subs : sub(s) \in Subscription
<1>1. Told \in Nat /\ Told <= version
  <2>1. CASE pending = NoUpdate
    BY <2>1 DEF FeedInv, Told
  <2>2. CASE pending # NoUpdate
    <3>1. pending.base \in Nat /\ pending.view \in Nat /\ pending.base < pending.view
      BY <2>2, UpdateIsRecord DEF FeedInv, PendingInv, Plainly
    <3>2. pending.view = version
      BY <2>2 DEF FeedInv, PendingInv
    <3>3. QED
      BY <2>2, <3>1, <3>2 DEF Told
  <2>3. QED
    BY <2>1, <2>2
<1>2. Strict \in BOOLEAN
  BY DEF Strict
<1>3. Reading(readers)
  BY DEF FeedInv, Reading, IsReader
<1>4. hub.published \in Nat /\ \A s \in Subs : sub(s) \in Subscription
  BY DEF FeedInv, HubType, sub
<1>5. QED
  BY <1>1, <1>2, <1>3, <1>4

\* flushUpdateLocked, before or after the log has grown.
LEMMA AllFlushed ==
  ASSUME FeedInv, NEW lg, \A v \in 1..version : lg[v] = log[v], NEW now \in Nat,
         version <= now, NEW lost
  PROVE  LET h2 == Flushed(now, lost)
         IN  /\ h2 \in HubType /\ h2.published <= version
             /\ AllFollow(h2, readers, lg, Strict, version, now)
             /\ \A s \in Subs : h2.subs[s].status = "open" =>
                  Kept(sub(s), h2.subs[s])
<1>1. /\ Told \in Nat /\ Told <= version /\ Strict \in BOOLEAN /\ Reading(readers)
      /\ version \in Nat /\ hub \in HubType /\ hub.published \in Nat /\ hub.published <= Told
      /\ AllFollow(hub, readers, log, Strict, Told, version)
  BY ToldTyped DEF FeedInv
<1>2. ASSUME pending = NoUpdate \/ host = "closed"
      PROVE  Flushed(now, lost) = hub
  BY <1>2 DEF Flushed, Deliver
<1>3. CASE pending = NoUpdate
  <2>1. Told = version
    BY <1>3 DEF Told
  <2>2. AllFollow(hub, readers, lg, Strict, version, now)
    BY <1>1, <2>1, AllLoosened
  <2>3. QED
    BY <1>1, <1>2, <1>3, <2>1, <2>2 DEF sub, Kept
<1>4. CASE pending # NoUpdate /\ host = "closed"
  <2>1. ~Strict
    BY <1>4 DEF Strict
  <2>2. AllFollow(hub, readers, lg, Strict, version, now)
    BY <1>1, <2>1, AllLoosened
  <2>3. QED
    BY <1>1, <1>2, <1>4, <2>2 DEF sub, Kept
<1>5. CASE pending # NoUpdate /\ host # "closed"
  <2>1. /\ Plainly(pending) /\ pending.view = version /\ Tells(log, pending, Items)
        /\ actor = "live" /\ host = "open" /\ Strict = TRUE /\ Told = pending.base
    BY <1>5 DEF FeedInv, PendingInv, Strict, Told
  <2>2. AllFollow(hub, readers, lg, TRUE, pending.base, now)
    <3>1. AllFollow(hub, readers, lg, Strict, Told, now)
      BY <1>1, AllLoosened
    <3>2. QED
      BY <2>1, <3>1
  <2>3. Tells(lg, pending, Items)
    <3>1. pending \in Update /\ pending.base <= pending.view
      BY <2>1, UpdateIsRecord DEF Plainly
    <3>2. QED
      BY <1>1, <2>1, <3>1, TellsKept
  <2>4. /\ Flushed(now, lost) \in HubType /\ Flushed(now, lost).published = pending.view
        /\ AllFollow(Flushed(now, lost), readers, lg, TRUE, pending.view, now)
        /\ \A s \in Subs : Flushed(now, lost).subs[s].status = "open" =>
             Kept(hub.subs[s], Flushed(now, lost).subs[s])
    <3>1. PICK u : u = pending
      OBVIOUS
    <3>2. Plainly(u) /\ u.view <= now /\ hub.published <= u.base /\ Tells(lg, u, Items)
      BY <1>1, <2>1, <2>3, <3>1
    <3>3. AllFollow(hub, readers, lg, TRUE, u.base, now)
      BY <2>2, <3>1
    <3>4. Flushed(now, lost) = Deliver(hub, u, FALSE, now, lost)
      BY <3>1 DEF Flushed
    <3>5. FALSE => now = u.view
      OBVIOUS
    <3>6. LET h2 == Deliver(hub, u, FALSE, now, lost)
          IN  /\ h2 \in HubType /\ h2.published = u.view
              /\ AllFollow(h2, readers, lg, TRUE, u.view, now)
              /\ \A s \in Subs : h2.subs[s].status = "open" =>
                   Kept(hub.subs[s], h2.subs[s])
      BY ONLY <1>1, <2>1, <3>2, <3>3, <3>5, AllDelivered, now \in Nat
    <3>7. QED
      BY <3>1, <3>4, <3>6
  <2>5. QED
    <3>1. PICK h2 : h2 = Flushed(now, lost)
      OBVIOUS
    <3>2. /\ h2 \in HubType /\ h2.published <= version
          /\ AllFollow(h2, readers, lg, Strict, version, now)
          /\ \A s \in Subs : h2.subs[s].status = "open" =>
               Kept(sub(s), h2.subs[s])
      <4>1. /\ h2 \in HubType /\ h2.published = version
            /\ AllFollow(h2, readers, lg, TRUE, version, now)
        BY ONLY <2>1, <2>4, <3>1
      <4>2. AllFollow(h2, readers, lg, Strict, version, now)
        BY ONLY <2>1, <4>1
      <4>3. \A s \in Subs : h2.subs[s].status = "open" => Kept(sub(s), h2.subs[s])
        BY ONLY <2>4, <3>1 DEF sub
      <4>4. QED
        BY <1>1, <4>1, <4>2, <4>3
    <3>3. QED
      BY <3>1, <3>2
<1>6. QED
  BY <1>3, <1>4, <1>5

LEMMA FeedBegins ==
  ASSUME FeedAssumption, FeedInit
  PROVE  FeedInv
<1> DEFINE q == [Fresh("full") EXCEPT !.status = "none", !.registered = FALSE]
<1>1. q \in Subscription /\ q.status = "none"
  <2>1. Fresh("full") \in Subscription
    BY FollowsFresh DEF Kinds
  <2>2. QED
    BY <2>1 DEF Subscription
<1>2. hub = [published |-> 0, subs |-> [s \in Subs |-> q]]
  BY DEF FeedInit
<1> HIDE DEF q
<1>3. hub \in HubType /\ hub.published = 0 /\ \A s \in Subs : hub.subs[s].status = "none"
  BY <1>1, <1>2 DEF HubType
<1>4. \A s \in Subs : readers[s] = NoReader /\ IsReader(NoReader)
  BY FollowsFresh DEF FeedInit, Kinds
<1>5. readers = [s \in Subs |-> readers[s]]
  BY DEF FeedInit
<1>6. log \in Seq(SUBSET Items) /\ Len(log) = 1 /\ version = 1 /\ pending = NoUpdate
  BY DEF FeedInit
<1>7. AllFollow(hub, readers, log, Strict, Told, version)
  BY <1>3 DEF AllFollow
<1>8. QED
  BY <1>3, <1>4, <1>5, <1>6, <1>7 DEF FeedInv, PendingInv, FeedInit, Told

-----------------------------------------------------------------------------
(* Steps of one subscription, in the whole.                                 *)

\* A step of one subscription and its reader.
LEMMA OneChanges ==
  ASSUME FeedInv, NEW s \in Subs, NEW q \in Subscription, NEW r, IsReader(r),
         hub' = [hub EXCEPT !.subs[s] = q], readers' = [readers EXCEPT ![s] = r],
         UNCHANGED <<version, log, actor, pending, host>>,
         q.status = "open" => (Strict => q.registered) /\ Follows(q, r, log, Strict, Told, version)
  PROVE  FeedInv'
<1>1. hub' \in HubType /\ hub'.published = hub.published
      /\ \A t \in Subs : hub'.subs[t] = IF t = s THEN q ELSE hub.subs[t]
  BY DEF FeedInv, HubType
<1>2. /\ readers' = [t \in Subs |-> readers'[t]]
      /\ \A t \in Subs : readers'[t] = IF t = s THEN r ELSE readers[t]
  BY DEF FeedInv
<1>3. Strict' = Strict /\ Told' = Told /\ PendingInv'
  BY DEF FeedInv, Strict, Told, PendingInv
<1>4. AllFollow(hub', readers', log, Strict, Told, version)
  BY <1>1, <1>2 DEF FeedInv, AllFollow
<1>5. AllFollow(hub', readers', log', Strict', Told', version')
  BY ONLY <1>3, <1>4, UNCHANGED <<version, log, actor, pending, host>>
<1>6. \A t \in Subs : IsReader(readers'[t])
  BY <1>2 DEF FeedInv
<1>7. QED
  BY <1>1, <1>2, <1>3, <1>5, <1>6 DEF FeedInv

LEMMA OneFollows ==
  ASSUME FeedInv, NEW s \in Subs, Open(s)
  PROVE  /\ sub(s) \in Subscription /\ IsReader(readers[s]) /\ sub(s).status = "open"
         /\ Follows(sub(s), readers[s], log, Strict, Told, version)
         /\ Strict => sub(s).registered
         /\ readers = [readers EXCEPT ![s] = readers[s]]
         /\ Told \in Nat /\ version \in Nat /\ Strict \in BOOLEAN
         /\ readers[s].version \in Nat
<1>1. sub(s) \in Subscription /\ sub(s) = hub.subs[s] /\ Told \in Nat /\ Strict \in BOOLEAN
  BY ToldTyped DEF sub
<1>2. IsReader(readers[s]) /\ readers = [t \in Subs |-> readers[t]] /\ version \in Nat
  BY DEF FeedInv
<1>3. AllFollow(hub, readers, log, Strict, Told, version) /\ hub.subs[s].status = "open"
  BY DEF FeedInv, Open, sub
<1>4. /\ Follows(hub.subs[s], readers[s], log, Strict, Told, version)
      /\ Strict => hub.subs[s].registered
  BY <1>3 DEF AllFollow
<1>5. readers = [readers EXCEPT ![s] = readers[s]] /\ readers[s].version \in Nat
  BY <1>2 DEF IsReader
<1>6. QED
  BY <1>1, <1>2, <1>3, <1>4, <1>5 DEF sub

LEMMA SubscribeFollows ==
  ASSUME FeedInv, NEW s \in Subs, NEW kind \in Kinds, Subscribe(s, kind)
  PROVE  FeedInv'
<1>1. Told \in Nat /\ version \in Nat
  BY ToldTyped DEF FeedInv
<1>2. /\ Fresh(kind) \in Subscription /\ Fresh(kind).registered
      /\ Follows(Fresh(kind), NoReader, log, Strict, Told, version) /\ IsReader(NoReader)
  BY <1>1, FollowsFresh
<1>3. /\ hub' = [hub EXCEPT !.subs[s] = Fresh(kind)] /\ readers' = [readers EXCEPT ![s] = NoReader]
      /\ UNCHANGED <<version, log, actor, pending, host>>
  BY DEF Subscribe, Becomes
<1>4. QED
  BY <1>2, <1>3, OneChanges

LEMMA CloseFollows ==
  ASSUME FeedInv, NEW s \in Subs, Close(s)
  PROVE  FeedInv'
<1>1. /\ sub(s) \in Subscription /\ IsReader(readers[s])
      /\ readers = [readers EXCEPT ![s] = readers[s]]
  BY OneFollows DEF Close
<1>2. PICK q : q = [Finish(sub(s), "closed") EXCEPT !.registered = FALSE]
  OBVIOUS
<1>3. q \in Subscription /\ q.status = "closed"
  <2>1. Finish(sub(s), "closed") \in Subscription /\ Finish(sub(s), "closed").status = "closed"
    BY <1>1, FinishTyped
  <2>2. QED
    BY <1>2, <2>1 DEF Subscription
<1>4. /\ hub' = [hub EXCEPT !.subs[s] = q] /\ readers' = [readers EXCEPT ![s] = readers[s]]
      /\ UNCHANGED <<version, log, actor, pending, host>>
  BY <1>1, <1>2 DEF Close, Becomes
<1>5. QED
  BY <1>1, <1>3, <1>4, OneChanges

LEMMA HydrationFollows ==
  ASSUME FeedInv, NEW s \in Subs, HydrationFails(s)
  PROVE  FeedInv'
<1>1. /\ sub(s) \in Subscription /\ IsReader(readers[s])
      /\ readers = [readers EXCEPT ![s] = readers[s]]
  BY OneFollows DEF HydrationFails
<1>2. Finish(sub(s), "lost") \in Subscription /\ Finish(sub(s), "lost").status = "lost"
  BY <1>1, FinishTyped
<1>3. /\ hub' = [hub EXCEPT !.subs[s] = Finish(sub(s), "lost")]
      /\ readers' = [readers EXCEPT ![s] = readers[s]]
      /\ UNCHANGED <<version, log, actor, pending, host>>
  BY <1>1 DEF HydrationFails, Becomes
<1>4. QED
  BY <1>1, <1>2, <1>3, OneChanges

LEMMA WindowReadFollows ==
  ASSUME FeedAssumption, FeedInv, NEW s \in Subs,
         FailSetWindow(s) \/ \E items \in Windows : BeginSetWindow(s, items)
  PROVE  FeedInv'
<1>1. PICK items \in SUBSET Items :
        /\ Open(s) /\ hub' = [hub EXCEPT !.subs[s] = [sub(s) EXCEPT !.reading = items]]
        /\ sub(s).kind = "window" \/ sub(s).reading # {}
        /\ UNCHANGED <<version, log, actor, pending, host, readers, subscribes>>
  <2>1. CASE FailSetWindow(s)
    BY <2>1 DEF FailSetWindow, Becomes
  <2>2. CASE \E items \in Windows : BeginSetWindow(s, items)
    BY <2>2 DEF BeginSetWindow, Becomes, FeedAssumption
  <2>3. QED
    BY <2>1, <2>2
<1>2. /\ sub(s) \in Subscription /\ IsReader(readers[s]) /\ sub(s).status = "open"
      /\ Follows(sub(s), readers[s], log, Strict, Told, version)
      /\ Strict => sub(s).registered
      /\ readers = [readers EXCEPT ![s] = readers[s]]
  BY <1>1, OneFollows
<1>3. sub(s).kind = "window"
  BY <1>1, <1>2 DEF Follows, Detailed
<1>4. PICK q : q = [sub(s) EXCEPT !.reading = items]
  OBVIOUS
<1>5. /\ q \in Subscription /\ q.registered = sub(s).registered
      /\ q.queue = sub(s).queue /\ q.inflight = sub(s).inflight /\ q.released = sub(s).released
      /\ q.kind = sub(s).kind /\ q.window = sub(s).window /\ q.epochs = sub(s).epochs
      /\ q.cleared = sub(s).cleared
  BY <1>2, <1>4 DEF Subscription
<1>6. Follows(q, readers[s], log, Strict, Told, version)
  BY <1>2, <1>3, <1>5, FollowsSame
<1>7. QED
  BY <1>1, <1>2, <1>4, <1>5, <1>6, OneChanges

LEMMA TakeFollows ==
  ASSUME FeedInv, NEW s \in Subs, Take(s)
  PROVE  FeedInv'
<1>1. /\ sub(s) \in Subscription /\ IsReader(readers[s]) /\ sub(s).status = "open"
      /\ Follows(sub(s), readers[s], log, Strict, Told, version)
      /\ Strict => sub(s).registered
      /\ readers = [readers EXCEPT ![s] = readers[s]]
  BY OneFollows DEF Take
<1>2. PICK q : q = [sub(s) EXCEPT !.inflight = Head(sub(s).queue), !.queue = Tail(@)]
  OBVIOUS
<1>3. /\ sub(s).inflight = NoUpdate /\ sub(s).queue # <<>>
      /\ sub(s).queue \in Seq(Update)
      /\ Head(sub(s).queue) \in Update /\ Tail(sub(s).queue) \in Seq(Update)
  BY <1>1 DEF Take, Subscription
<1>4. Took(sub(s), q) /\ q.registered = sub(s).registered
  BY <1>1, <1>2, <1>3 DEF Took, Subscription
<1>5. Follows(q, readers[s], log, Strict, Told, version)
  BY <1>1, <1>4, FollowsTaken
<1>6. /\ hub' = [hub EXCEPT !.subs[s] = q] /\ readers' = [readers EXCEPT ![s] = readers[s]]
      /\ UNCHANGED <<version, log, actor, pending, host>>
  BY <1>1, <1>2 DEF Take, Becomes
<1>7. q \in Subscription
  BY <1>4 DEF Took
<1>8. QED
  BY <1>1, <1>4, <1>5, <1>6, <1>7, OneChanges

LEMMA ReturnFollows ==
  ASSUME FeedInv, NEW s \in Subs, ReturnUpdate(s)
  PROVE  FeedInv'
<1>1. /\ sub(s) \in Subscription /\ IsReader(readers[s]) /\ sub(s).status = "open"
      /\ Follows(sub(s), readers[s], log, Strict, Told, version)
      /\ Strict => sub(s).registered
      /\ Told \in Nat /\ version \in Nat /\ Strict \in BOOLEAN
  BY OneFollows DEF ReturnUpdate
<1>2. readers = [t \in Subs |-> readers[t]]
  BY DEF FeedInv
<1>3. PICK q, r, u, r2 :
        /\ q = sub(s) /\ r = readers[s]
        /\ u = (IF Withdrawn(q) THEN Stripped(q.inflight) ELSE q.inflight)
        /\ r2 = Applied(r, q.kind, u)
  OBVIOUS
<1>4. q.inflight # NoUpdate
  BY <1>3 DEF ReturnUpdate
<1>5. Follows(Returned(q), r2, log, Strict, Told, version) /\ IsReader(r2)
  BY <1>1, <1>3, <1>4, FollowsReturned
<1>6. readers' = [readers EXCEPT ![s] = r2]
  BY <1>2, <1>3 DEF ReturnUpdate
<1>7. hub' = [hub EXCEPT !.subs[s] = Returned(q)] /\ UNCHANGED <<version, log, actor, pending, host>>
  BY <1>3 DEF ReturnUpdate, Becomes, Returned
<1>8. Returned(q) \in Subscription /\ Returned(q).registered = q.registered
  BY <1>1, <1>3 DEF Returned, Subscription
<1>9. QED
  BY <1>1, <1>3, <1>5, <1>6, <1>7, <1>8, OneChanges

LEMMA ClearFollows ==
  ASSUME FeedInv, NEW s \in Subs, ClearWindow(s)
  PROVE  FeedInv'
<1>1. /\ sub(s) \in Subscription /\ IsReader(readers[s]) /\ sub(s).status = "open"
      /\ Follows(sub(s), readers[s], log, Strict, Told, version)
      /\ Strict => sub(s).registered
      /\ Told \in Nat
  BY OneFollows DEF ClearWindow
<1>2. readers = [t \in Subs |-> readers[t]]
  BY DEF FeedInv
<1>3. PICK r2 : r2 = ClearedReader(readers[s])
  OBVIOUS
<1>4. /\ r2.epoch = 0 /\ r2.items = {} /\ r2.misapplied = readers[s].misapplied
      /\ r2.version = readers[s].version /\ IsReader(r2)
  <2>1. PICK r : r = readers[s]
    OBVIOUS
  <2>2. PICK h : h = [i \in Items |-> r.held[i]]
    OBVIOUS
  <2>3. /\ r = [version |-> r.version, epoch |-> r.epoch, items |-> r.items, held |-> h,
                misapplied |-> r.misapplied]
        /\ r.version \in Nat /\ h = [i \in Items |-> h[i]]
    BY <1>1, <2>1, <2>2 DEF IsReader
  <2>4. r2 = [version |-> r.version, epoch |-> 0, items |-> {}, held |-> h,
              misapplied |-> r.misapplied]
    <3>1. PICK v, e, i, f : v = r.version /\ e = r.epoch /\ i = r.items /\ f = r.misapplied
      OBVIOUS
    <3>2. r = [version |-> v, epoch |-> e, items |-> i, held |-> h, misapplied |-> f]
      BY <2>3, <3>1
    <3>3. r2 = [r EXCEPT !.epoch = 0, !.items = {}]
      BY <1>3, <2>1 DEF ClearedReader
    <3>4. r2 = [version |-> v, epoch |-> 0, items |-> {}, held |-> h, misapplied |-> f]
      BY ONLY <3>2, <3>3
    <3>5. QED
      BY <3>1, <3>4
  <2>5. QED
    BY <2>1, <2>3, <2>4 DEF IsReader
<1>5. sub(s).window # NoWindow \/ sub(s).reading # {}
  BY DEF ClearWindow
<1>6. Follows(Cleared(sub(s)), r2, log, Strict, Told, version)
  BY <1>1, <1>4, <1>5, FollowsCleared
<1>7. Cleared(sub(s)) \in Subscription /\ Cleared(sub(s)).registered = sub(s).registered
  BY <1>1, ClearedTyped
<1>8. readers' = [readers EXCEPT ![s] = r2]
  BY <1>2, <1>3 DEF ClearWindow, ClearedReader
<1>9. hub' = [hub EXCEPT !.subs[s] = Cleared(sub(s))] /\ UNCHANGED <<version, log, actor, pending, host>>
  BY DEF ClearWindow, Becomes
<1>10. QED
  BY <1>1, <1>4, <1>6, <1>7, <1>8, <1>9, OneChanges

-----------------------------------------------------------------------------
(* Versions nobody is told of yet.                                          *)

\* A step that leaves the readers alone.
LEMMA HubChanges ==
  ASSUME FeedInv, UNCHANGED readers,
         version' \in Nat, version' # 0, log' \in Seq(SUBSET Items), Len(log') = version',
         actor' \in {"live", "broken", "removed", "deleted"}, host' \in {"open", "closed"},
         PendingInv', hub' \in HubType, hub'.published <= Told',
         AllFollow(hub', readers, log', Strict', Told', version')
  PROVE  FeedInv'
BY DEF FeedInv

\* The log grows by one version.
LEMMA LogGrows ==
  ASSUME FeedAssumption, FeedInv, NEW items \in SUBSET Items, Versions(items)
  PROVE  /\ version' \in Nat /\ version' = version + 1 /\ version' # 0 /\ version <= version'
         /\ log' \in Seq(SUBSET Items) /\ Len(log') = version' /\ log'[version'] = items
         /\ \A v \in 1..version : log'[v] = log[v]
BY DEF FeedInv, Versions

\* A mutation says nothing of the items it does not change.
LEMMA MutationTells ==
  ASSUME FeedAssumption, FeedInv, NEW items \in SUBSET Items, NEW grows \in BOOLEAN,
         Versions(items)
  PROVE  LET u == Mutation(items, grows)
         IN  Plainly(u) /\ u.base = version /\ u.view = version' /\ Tells(log', u, Items)
<1>1. /\ version \in Nat /\ version # 0 /\ version' = version + 1 /\ log'[version'] = items
  BY LogGrows DEF FeedInv
<1>2. PICK u : u = Mutation(items, grows)
  OBVIOUS
<1>3. /\ u \in Update /\ u.base = version /\ u.view = version' /\ u.items = items
      /\ u.kind = "delta" /\ ~u.owned /\ u.epoch = 0
  BY <1>1, <1>2 DEF Mutation, Update
<1>4. ASSUME NEW i \in Items \ items
      PROVE  ContentOf(log', i, version + 1) = ContentOf(log', i, version)
  <2>1. \A v \in (version + 1)..(version + 1) : i \notin log'[v]
    BY <1>1, <1>4
  <2>2. QED
    BY <1>1, <2>1, ContentStays
<1>5. Tells(log', u, Items)
  BY <1>1, <1>3, <1>4 DEF Tells
<1>6. QED
  BY <1>1, <1>2, <1>3, <1>5 DEF Plainly

\* Without observers no open subscription is owed anything.
LEMMA Unobserved ==
  ASSUME FeedInv, NEW others, ~Observed(others), NEW lg, NEW strict \in BOOLEAN, strict => Strict,
         NEW told \in Nat, NEW now \in Nat, Told <= told, version <= now,
         \A v \in 1..version : lg[v] = log[v]
  PROVE  AllFollow(hub, readers, lg, strict, told, now)
<1>1. /\ Told \in Nat /\ Strict \in BOOLEAN /\ Reading(readers) /\ version \in Nat
      /\ hub \in HubType /\ AllFollow(hub, readers, log, Strict, Told, version)
  BY ToldTyped DEF FeedInv
<1>2. CASE strict
  <2>1. \A s \in Subs : hub.subs[s].status = "open" => hub.subs[s].registered
    BY <1>1, <1>2 DEF AllFollow
  <2>2. \A s \in Subs : ~hub.subs[s].registered
    BY <1>2 DEF Strict, Observed, Registered, sub
  <2>3. QED
    BY <2>1, <2>2 DEF AllFollow
<1>3. CASE ~strict
  BY <1>1, <1>3, AllLoosened
<1>4. QED
  BY <1>2, <1>3

LEMMA GrowFollows ==
  ASSUME FeedAssumption, FeedInv, NEW i \in Items, Grow(i)
  PROVE  FeedInv'
<1>1. PICK others \in BOOLEAN, lost \in SUBSET SubsOpen :
        /\ actor = "live" /\ Versions({i})
        /\ IF ~Observed(others)
           THEN pending' = NoUpdate /\ UNCHANGED hub
           ELSE IF pending # NoUpdate /\ pending.view = version /\ pending.items = {i}
           THEN pending' = [pending EXCEPT !.view = version + 1] /\ UNCHANGED hub
           ELSE pending' = Mutation({i}, TRUE) /\ hub' = Flushed(version + 1, lost)
        /\ UNCHANGED <<actor, host, readers, subscribes>>
  BY DEF Grow
<1>2. {i} \in SUBSET Items
  OBVIOUS
<1>3. /\ version \in Nat /\ version # 0 /\ version' \in Nat /\ version' = version + 1
      /\ version' # 0 /\ version <= version'
      /\ log' \in Seq(SUBSET Items) /\ Len(log') = version' /\ log'[version'] = {i}
      /\ \A v \in 1..version : log'[v] = log[v]
  BY <1>1, <1>2, LogGrows DEF FeedInv
<1>4. /\ Strict' = Strict /\ Strict \in BOOLEAN /\ Told \in Nat /\ Told <= version
      /\ hub \in HubType /\ hub.published \in Nat /\ hub.published <= Told
      /\ Reading(readers) /\ AllFollow(hub, readers, log, Strict, Told, version)
      /\ actor' \in {"live", "broken", "removed", "deleted"} /\ host' \in {"open", "closed"}
      /\ UNCHANGED readers
  BY <1>1, ToldTyped DEF Strict, FeedInv
<1>5. CASE ~Observed(others)
  <2>1. pending' = NoUpdate /\ hub' = hub
    BY <1>1, <1>5
  <2>2. Told' = version' /\ PendingInv'
    BY <2>1 DEF Told, PendingInv
  <2>3. AllFollow(hub, readers, log', Strict, version', version')
    <3>1. PICK lg, st, now : lg = log' /\ st = Strict /\ now = version'
      OBVIOUS
    <3>2. /\ st \in BOOLEAN /\ (st => Strict) /\ now \in Nat
          /\ Told <= now /\ version <= now
      BY <1>3, <1>4, <3>1
    <3>3. \A v \in 1..version : lg[v] = log[v]
      BY ONLY <1>3, <3>1
    <3>4. AllFollow(hub, readers, lg, st, now, now)
      BY <1>5, <3>2, <3>3, Unobserved
    <3>5. QED
      BY ONLY <3>1, <3>4
  <2>4. AllFollow(hub', readers, log', Strict', Told', version')
    BY ONLY <1>4, <2>1, <2>2, <2>3
  <2>5. /\ hub'.published <= Told' /\ hub' \in HubType
        /\ actor' \in {"live", "broken", "removed", "deleted"} /\ host' \in {"open", "closed"}
        /\ UNCHANGED readers
    <3>1. hub.published \in Nat /\ hub.published <= version'
      BY ONLY <1>3, <1>4
    <3>2. hub'.published = hub.published /\ Told' = version'
      BY ONLY <2>1, <2>2
    <3>3. QED
      BY ONLY <1>4, <2>1, <3>1, <3>2
  <2>6. /\ version' \in Nat /\ version' # 0
        /\ log' \in Seq(SUBSET Items) /\ Len(log') = version'
    BY ONLY <1>3
  <2>7. QED
    BY <2>2, <2>4, <2>5, <2>6, HubChanges
<1>6. CASE Observed(others) /\ pending # NoUpdate /\ pending.view = version /\ pending.items = {i}
  <2>1. pending' = [pending EXCEPT !.view = version + 1] /\ hub' = hub
    BY <1>1, <1>6
  <2>2. pending \in Update /\ Plainly(pending) /\ Tells(log, pending, Items) /\ Told = pending.base
    BY <1>6 DEF FeedInv, PendingInv, Plainly, Told
  <2>3. PICK u : u = pending'
    OBVIOUS
  <2>4. /\ u \in Update /\ u.base = pending.base /\ u.view = version' /\ u.items = {i}
        /\ u.kind = pending.kind /\ u.owned = pending.owned /\ u.epoch = pending.epoch
        /\ u # NoUpdate /\ u.base \in Nat
    <3>1. u = [pending EXCEPT !.view = version']
      BY <1>3, <2>1, <2>3
    <3>2. u \in Update
      BY <1>3, <2>2, <3>1 DEF Update
    <3>3. QED
      BY <1>6, <2>2, <3>1, <3>2, UpdateIsRecord DEF Update
  <2>5. Plainly(u)
    BY <1>3, <1>6, <2>2, <2>4 DEF Plainly
  <2>6. Tells(log', u, Items)
    <3>1. ASSUME NEW j \in Items \ {i}
          PROVE  ContentOf(log', j, version') = ContentOf(log', j, u.base)
      <4>1. ContentOf(log, j, version) = ContentOf(log, j, u.base)
        BY <1>6, <2>2, <2>4, <3>1 DEF Tells
      <4>2. u.base <= version
        BY <1>6, <2>2, <2>4, UpdateIsRecord DEF Plainly
      <4>3. /\ ContentOf(log', j, version) = ContentOf(log, j, version)
            /\ ContentOf(log', j, u.base) = ContentOf(log, j, u.base)
        BY <1>3, <2>4, <4>2, ContentKept
      <4>4. \A v \in (version + 1)..version' : j \notin log'[v]
        BY <1>3, <3>1
      <4>5. ContentOf(log', j, version') = ContentOf(log', j, version)
        BY <1>3, <4>4, ContentStays
      <4>6. QED
        BY <4>1, <4>3, <4>5
    <3>2. QED
      BY <2>4, <3>1 DEF Tells
  <2>7. PendingInv' /\ Told' = Told
    BY <1>1, <2>2, <2>3, <2>4, <2>5, <2>6 DEF PendingInv, Told
  <2>8. AllFollow(hub, readers, log', Strict, Told, version')
    <3>1. PICK lg, st, told : lg = log' /\ st = Strict /\ told = Told
      OBVIOUS
    <3>2. /\ st \in BOOLEAN /\ told \in Nat /\ told <= told /\ AllFollow(hub, readers, log, st, told, version)
          /\ \A v \in 1..version : lg[v] = log[v]
      BY <1>3, <1>4, <3>1
    <3>3. AllFollow(hub, readers, lg, st, told, version')
      BY ONLY <1>3, <1>4, <3>2, AllLoosened
    <3>4. QED
      BY <3>1, <3>3
  <2>9. AllFollow(hub', readers, log', Strict', Told', version')
    BY ONLY <1>4, <2>1, <2>7, <2>8
  <2>10. QED
    BY <1>3, <1>4, <2>1, <2>7, <2>9, HubChanges
<1>7. CASE Observed(others) /\ ~(pending # NoUpdate /\ pending.view = version /\ pending.items = {i})
  <2>1. pending' = Mutation({i}, TRUE) /\ hub' = Flushed(version + 1, lost)
    BY <1>1, <1>7
  <2>2. PICK u : u = Mutation({i}, TRUE)
    OBVIOUS
  <2>3. Plainly(u) /\ u.base = version /\ u.view = version' /\ Tells(log', u, Items)
    BY <1>1, <1>2, <2>2, MutationTells
  <2>4. pending' = u /\ u # NoUpdate
    BY <2>1, <2>2, <2>3, UpdateIsRecord DEF Plainly
  <2>5. PendingInv' /\ Told' = version
    BY <1>1, <2>3, <2>4 DEF PendingInv, Told
  <2>6. PICK h2 : h2 = Flushed(version', lost)
    OBVIOUS
  <2>7. /\ h2 \in HubType /\ h2.published <= version
        /\ AllFollow(h2, readers, log', Strict, version, version')
    BY <1>3, <2>6, AllFlushed
  <2>8. hub' = h2
    BY <1>3, <2>1, <2>6
  <2>9. AllFollow(hub', readers, log', Strict', Told', version')
    BY ONLY <1>4, <2>5, <2>7, <2>8
  <2>10. QED
    BY <1>3, <1>4, <2>5, <2>7, <2>8, <2>9, HubChanges
<1>8. QED
  BY <1>5, <1>6, <1>7

-----------------------------------------------------------------------------
(* Publication.                                                             *)

\* An update delivered at once, to observers that have been told of all before.
LEMMA DeliveredNow ==
  ASSUME FeedAssumption, FeedInv, NEW items \in SUBSET Items, Versions(items), Strict,
         NEW h \in HubType, h.published <= version,
         AllFollow(h, readers, log', TRUE, version, version'), NEW moved, NEW lost
  PROVE  LET h2 == Deliver(h, Mutation(items, FALSE), moved, version', lost)
         IN  /\ h2 \in HubType /\ h2.published <= version'
             /\ AllFollow(h2, readers, log', TRUE, version', version')
<1>1. version \in Nat /\ version' \in Nat /\ Reading(readers) /\ host = "open"
  <2>1. version \in Nat /\ version' \in Nat
    BY LogGrows DEF FeedInv
  <2>2. Reading(readers) /\ host = "open"
    BY ToldTyped DEF Strict
  <2>3. QED
    BY <2>1, <2>2
<1>2. PICK u : u = Mutation(items, FALSE)
  OBVIOUS
<1>3. Plainly(u) /\ u.base = version /\ u.view = version' /\ Tells(log', u, Items)
  BY <1>2, MutationTells
<1>4. PICK h2, lg, now : h2 = Deliver(h, u, moved, now, lost) /\ lg = log' /\ now = version'
  OBVIOUS
<1>5. AllFollow(h, readers, lg, TRUE, u.base, now) /\ Tells(lg, u, Items)
  BY <1>3, <1>4
<1>6. u.view <= now /\ now \in Nat /\ h.published <= u.base
  BY <1>1, <1>3, <1>4
<1>7. moved => now = u.view
  BY <1>3, <1>4
<1>8. LET d == Deliver(h, u, moved, now, lost)
      IN  /\ d \in HubType /\ d.published = u.view
          /\ AllFollow(d, readers, lg, TRUE, u.view, now)
          /\ \A s \in Subs : d.subs[s].status = "open" => Kept(h.subs[s], d.subs[s])
  BY ONLY <1>1, <1>3, <1>5, <1>6, <1>7, AllDelivered, h \in HubType
<1>9. Deliver(h, Mutation(items, FALSE), moved, version', lost) = h2
  BY ONLY <1>2, <1>4
<1>10. h2 \in HubType /\ h2.published = u.view /\ AllFollow(h2, readers, lg, TRUE, u.view, now)
  BY ONLY <1>4, <1>8
<1>11. AllFollow(h2, readers, log', TRUE, version', version')
  BY ONLY <1>3, <1>4, <1>10
<1>12. h2.published <= version'
  BY <1>1, <1>3, <1>10
<1>13. QED
  BY ONLY <1>9, <1>10, <1>11, <1>12

LEMMA ChangeFollows ==
  ASSUME FeedAssumption, FeedInv, NEW items \in SUBSET Items, NEW moved, Change(items, moved)
  PROVE  FeedInv'
<1>1. PICK others \in BOOLEAN, lost \in SUBSET SubsOpen :
        /\ actor = "live" /\ Versions(items) /\ pending' = NoUpdate
        /\ IF Observed(others)
           THEN hub' = Deliver(Flushed(version + 1, lost), Mutation(items, FALSE), moved,
                               version + 1, lost)
           ELSE UNCHANGED hub
        /\ UNCHANGED <<actor, host, readers, subscribes>>
  BY DEF Change
<1>2. /\ version \in Nat /\ version' \in Nat /\ version' = version + 1
      /\ version' # 0 /\ version <= version'
      /\ log' \in Seq(SUBSET Items) /\ Len(log') = version'
      /\ \A v \in 1..version : log'[v] = log[v]
  BY <1>1, LogGrows DEF FeedInv
<1>3. /\ Strict' = Strict /\ Strict \in BOOLEAN /\ Told \in Nat /\ Told <= version
      /\ hub \in HubType /\ hub.published \in Nat /\ hub.published <= Told
      /\ actor' \in {"live", "broken", "removed", "deleted"} /\ host' \in {"open", "closed"}
      /\ UNCHANGED readers
  BY <1>1, ToldTyped DEF Strict, FeedInv
<1>4. Told' = version' /\ PendingInv'
  BY <1>1 DEF Told, PendingInv
<1>5. CASE ~Observed(others)
  <2>1. hub' = hub
    BY <1>1, <1>5
  <2>2. AllFollow(hub, readers, log', Strict, version', version')
    BY <1>2, <1>3, <1>5, Unobserved
  <2>3. AllFollow(hub', readers, log', Strict', Told', version')
    BY ONLY <1>3, <1>4, <2>1, <2>2
  <2>4. QED
    BY <1>2, <1>3, <1>4, <2>1, <2>3, HubChanges
<1>6. CASE Observed(others)
  <2>1. Strict
    BY <1>1, <1>6 DEF Observed, Strict
  <2>2. PICK h : h = Flushed(version', lost)
    OBVIOUS
  <2>3. h \in HubType /\ h.published <= version /\ AllFollow(h, readers, log', Strict, version, version')
    BY <1>2, <2>2, AllFlushed
  <2>4. AllFollow(h, readers, log', TRUE, version, version')
    BY <1>3, <2>1, <2>3
  <2>5. PICK h2 : h2 = Deliver(h, Mutation(items, FALSE), moved, version', lost)
    OBVIOUS
  <2>6. /\ h2 \in HubType /\ h2.published <= version'
        /\ AllFollow(h2, readers, log', TRUE, version', version')
    BY <1>1, <2>1, <2>3, <2>4, <2>5, DeliveredNow
  <2>7. hub' = h2
    BY <1>1, <1>2, <1>6, <2>2, <2>5
  <2>8. Strict' = TRUE
    BY <1>3, <2>1
  <2>9. AllFollow(hub', readers, log', Strict', Told', version')
    BY ONLY <1>4, <2>6, <2>7, <2>8
  <2>10. QED
    BY <1>2, <1>3, <1>4, <2>6, <2>7, <2>9, HubChanges
<1>7. QED
  BY <1>5, <1>6

LEMMA RepairFollows ==
  ASSUME FeedAssumption, FeedInv, Repair
  PROVE  FeedInv'
<1>1. PICK others \in BOOLEAN, lost \in SUBSET SubsOpen, moved \in BOOLEAN :
        /\ host = "open" /\ actor = "broken" /\ Versions(Items) /\ actor' = "live"
        /\ hub' = IF Observed(others)
                  THEN Deliver(hub, Mutation(Items, FALSE), moved, version + 1, lost) ELSE hub
        /\ UNCHANGED <<pending, host, readers, subscribes>>
  BY DEF Repair
<1>2. /\ version \in Nat /\ version' \in Nat /\ version' = version + 1
      /\ version' # 0 /\ version <= version'
      /\ log' \in Seq(SUBSET Items) /\ Len(log') = version'
      /\ \A v \in 1..version : log'[v] = log[v]
  BY <1>1, LogGrows DEF FeedInv
<1>3. pending = NoUpdate /\ pending' = NoUpdate
  BY <1>1 DEF FeedInv, PendingInv
<1>4. Strict = TRUE /\ Strict' = TRUE /\ Told = version /\ Told' = version' /\ PendingInv'
  BY <1>1, <1>3 DEF Strict, Told, PendingInv
<1>5. /\ hub \in HubType /\ hub.published \in Nat /\ hub.published <= version
      /\ actor' \in {"live", "broken", "removed", "deleted"} /\ host' \in {"open", "closed"}
      /\ UNCHANGED readers /\ Reading(readers)
      /\ AllFollow(hub, readers, log, TRUE, version, version)
  BY <1>1, <1>4, ToldTyped DEF FeedInv
<1>6. CASE ~Observed(others)
  <2>1. hub' = hub
    BY <1>1, <1>6
  <2>2. AllFollow(hub, readers, log', TRUE, version', version')
    BY <1>2, <1>4, <1>6, Unobserved
  <2>3. AllFollow(hub', readers, log', Strict', Told', version')
    BY ONLY <1>4, <2>1, <2>2
  <2>4. QED
    BY <1>2, <1>4, <1>5, <2>1, <2>3, HubChanges
<1>7. CASE Observed(others)
  <2>1. AllFollow(hub, readers, log', TRUE, version, version')
    <3>1. PICK lg, st : lg = log' /\ st = TRUE
      OBVIOUS
    <3>2. st \in BOOLEAN /\ AllFollow(hub, readers, log, st, version, version)
      BY ONLY <1>5, <3>1
    <3>3. /\ version \in Nat /\ version' \in Nat
          /\ version <= version /\ version <= version'
      BY <1>2
    <3>4. \A v \in 1..version : lg[v] = log[v]
      BY ONLY <1>2, <3>1
    <3>5. hub \in HubType /\ Reading(readers)
      BY ONLY <1>5
    <3>6. AllFollow(hub, readers, lg, st, version, version')
      BY ONLY <3>2, <3>3, <3>4, <3>5, AllLoosened
    <3>7. QED
      BY ONLY <3>1, <3>6
  <2>2. PICK h2 : h2 = Deliver(hub, Mutation(Items, FALSE), moved, version', lost)
    OBVIOUS
  <2>3. /\ h2 \in HubType /\ h2.published <= version'
        /\ AllFollow(h2, readers, log', TRUE, version', version')
    BY <1>1, <1>4, <1>5, <2>1, <2>2, DeliveredNow
  <2>4. hub' = h2
    BY <1>1, <1>2, <1>7, <2>2
  <2>5. AllFollow(hub', readers, log', Strict', Told', version')
    BY ONLY <1>4, <2>3, <2>4
  <2>6. QED
    BY <1>2, <1>4, <1>5, <2>3, <2>4, <2>5, HubChanges
<1>8. QED
  BY <1>6, <1>7

LEMMA FlushFollows ==
  ASSUME FeedInv, FlushGrowth
  PROVE  FeedInv'
<1>1. PICK lost \in SUBSET SubsOpen :
        /\ pending' = NoUpdate /\ hub' = Flushed(version, lost)
        /\ UNCHANGED <<version, log, actor, host, readers, subscribes>>
  BY DEF FlushGrowth
<1>2. version \in Nat
  BY DEF FeedInv
<1>3. Told' = version /\ Strict' = Strict /\ PendingInv'
  BY <1>1 DEF Told, Strict, PendingInv
<1>4. PICK h2 : h2 = Flushed(version, lost)
  OBVIOUS
<1>5. h2 \in HubType /\ h2.published <= version /\ AllFollow(h2, readers, log, Strict, version, version)
  BY <1>2, <1>4, AllFlushed
<1>6. AllFollow(hub', readers, log', Strict', Told', version')
  BY ONLY <1>1, <1>3, <1>4, <1>5
<1>7. QED
  BY <1>1, <1>3, <1>4, <1>5, <1>6, HubChanges DEF FeedInv

LEMMA InvalidatedTyped ==
  ASSUME NEW h \in HubType
  PROVE  /\ Invalidated(h) \in HubType /\ Invalidated(h).published = h.published
         /\ \A s \in Subs : Invalidated(h).subs[s].status = "open" =>
              ~h.subs[s].registered /\ Invalidated(h).subs[s] = h.subs[s]
<1> DEFINE g(s) == IF ~h.subs[s].registered THEN h.subs[s]
                   ELSE [IF h.subs[s].status = "open" THEN Finish(h.subs[s], "lost") ELSE h.subs[s]
                           EXCEPT !.registered = FALSE]
<1>1. Invalidated(h) = [h EXCEPT !.subs = [s \in Subs |-> g(s)]]
  BY DEF Invalidated
<1>2. ASSUME NEW s \in Subs
      PROVE  /\ g(s) \in Subscription
             /\ g(s).status = "open" => ~h.subs[s].registered /\ g(s) = h.subs[s]
  <2>1. h.subs[s] \in Subscription
    BY DEF HubType
  <2>2. Finish(h.subs[s], "lost") \in Subscription /\ Finish(h.subs[s], "lost").status = "lost"
    BY <2>1, FinishTyped
  <2>3. CASE ~h.subs[s].registered
    BY <2>1, <2>3
  <2>4. CASE h.subs[s].registered
    <3>1. PICK q \in Subscription :
            q.status # "open" /\ g(s) = [q EXCEPT !.registered = FALSE]
      BY <2>1, <2>2, <2>4
    <3>2. g(s) \in Subscription /\ g(s).status # "open"
      BY <3>1 DEF Subscription
    <3>3. QED
      BY <3>2
  <2>5. QED
    BY <2>3, <2>4
<1> HIDE DEF g
<1>3. QED
  BY <1>1, <1>2 DEF HubType

LEMMA BreakFollows ==
  ASSUME FeedAssumption, FeedInv, Break
  PROVE  FeedInv'
<1>1. /\ actor \in {"live", "broken"} /\ actor' = "broken" /\ pending' = NoUpdate
      /\ hub' = Invalidated(hub) /\ UNCHANGED <<host, readers, subscribes>>
  BY DEF Break
<1>2. /\ version \in Nat /\ version' \in Nat /\ version' # 0 /\ version <= version'
      /\ log' \in Seq(SUBSET Items) /\ Len(log') = version'
      /\ \A v \in 1..version : log'[v] = log[v]
  <2>1. CASE UNCHANGED <<version, log>>
    BY <2>1 DEF FeedInv
  <2>2. CASE \E items \in Changes : Versions(items)
    BY <2>2, LogGrows DEF FeedAssumption, FeedInv
  <2>3. QED
    BY <2>1, <2>2 DEF Break
<1>3. /\ Strict' = Strict /\ Strict \in BOOLEAN /\ Told \in Nat /\ Told <= version
      /\ hub \in HubType /\ hub.published \in Nat /\ hub.published <= Told
      /\ host' \in {"open", "closed"} /\ Reading(readers)
      /\ AllFollow(hub, readers, log, Strict, Told, version)
  BY <1>1, ToldTyped DEF Strict, FeedInv
<1>4. Told' = version' /\ PendingInv'
  BY <1>1 DEF Told, PendingInv
<1>5. PICK h2 : h2 = Invalidated(hub)
  OBVIOUS
<1>6. /\ h2 \in HubType /\ h2.published = hub.published
      /\ \A s \in Subs : h2.subs[s].status = "open" =>
           ~hub.subs[s].registered /\ h2.subs[s] = hub.subs[s]
  BY <1>3, <1>5, InvalidatedTyped
<1>7. CASE Strict
  <2>1. \A s \in Subs : h2.subs[s].status # "open"
    BY <1>3, <1>6, <1>7 DEF AllFollow
  <2>2. AllFollow(hub', readers, log', Strict', Told', version')
    BY <1>1, <1>5, <2>1 DEF AllFollow
  <2>3. QED
    BY <1>1, <1>2, <1>3, <1>4, <1>5, <1>6, <2>2, HubChanges
<1>8. CASE ~Strict
  <2>1. AllFollow(h2, readers, log, Strict, Told, version)
    BY <1>3, <1>6, <1>8 DEF AllFollow
  <2>2. PICK lg : lg = log'
    OBVIOUS
  <2>3. AllFollow(h2, readers, lg, Strict, version', version')
    <3>1. PICK st, told, told2, rs, old :
            st = Strict /\ told = Told /\ told2 = version' /\ rs = readers /\ old = log
      OBVIOUS
    <3>2. st \in BOOLEAN /\ ~st /\ AllFollow(h2, rs, old, st, told, version) /\ Reading(rs)
      BY <1>3, <1>8, <2>1, <3>1
    <3>3. told \in Nat /\ told2 \in Nat /\ told <= told2
      BY <1>2, <1>3, <3>1
    <3>4. \A v \in 1..version : lg[v] = old[v]
      BY ONLY <1>2, <2>2, <3>1
    <3>5. AllFollow(h2, rs, lg, st, told2, version')
      <4>1. h2 \in HubType /\ version \in Nat /\ version' \in Nat /\ version <= version'
        BY <1>2, <1>6
      <4>2. st => st /\ told2 = told
        BY <3>2
      <4>3. QED
        BY ONLY <3>2, <3>3, <3>4, <4>1, <4>2, AllLoosened
    <3>6. QED
      BY ONLY <3>1, <3>5
  <2>4. AllFollow(hub', readers, log', Strict', Told', version')
    BY ONLY <1>1, <1>3, <1>4, <1>5, <2>2, <2>3
  <2>5. QED
    BY <1>1, <1>2, <1>3, <1>4, <1>5, <1>6, <2>4, HubChanges
<1>9. QED
  BY <1>7, <1>8

-----------------------------------------------------------------------------
(* The ends of publication, and the view and window calls.                  *)

\* Publication ends for good: what was promised of further versions is no
\* longer owed.
LEMMA LoosenedHere ==
  ASSUME FeedInv, NEW h \in HubType, AllFollow(h, readers, log, FALSE, Told, version)
  PROVE  AllFollow(h, readers, log, FALSE, version, version)
<1>1. PICK st, told, now, lg, rs :
        st = FALSE /\ told = Told /\ now = version /\ lg = log /\ rs = readers
  OBVIOUS
<1>2. /\ told \in Nat /\ now \in Nat /\ told <= now /\ now <= now /\ Reading(rs)
  BY <1>1, ToldTyped DEF FeedInv
<1>3. st \in BOOLEAN /\ (st => st /\ now = told)
  BY <1>1
<1>4. \A v \in 1..now : lg[v] = lg[v]
  OBVIOUS
<1>5. AllFollow(h, rs, lg, st, told, now)
  BY ONLY <1>1, AllFollow(h, readers, log, FALSE, Told, version)
<1>6. AllFollow(h, rs, lg, st, now, now)
  BY ONLY <1>2, <1>3, <1>4, <1>5, AllLoosened, h \in HubType
<1>7. QED
  BY ONLY <1>1, <1>6

LEMMA Unstrict ==
  ASSUME FeedInv
  PROVE  AllFollow(hub, readers, log, FALSE, Told, version)
<1>1. PICK st, st2, told, now, lg, rs :
        st = Strict /\ st2 = FALSE /\ told = Told /\ now = version /\ lg = log /\ rs = readers
  OBVIOUS
<1>2. /\ told \in Nat /\ now \in Nat /\ told <= told /\ now <= now /\ Reading(rs)
  BY <1>1, ToldTyped DEF FeedInv
<1>3. st \in BOOLEAN /\ st2 \in BOOLEAN /\ (st2 => st /\ told = told)
  BY <1>1, ToldTyped
<1>4. \A v \in 1..now : lg[v] = lg[v]
  OBVIOUS
<1>5. hub \in HubType /\ AllFollow(hub, readers, log, Strict, Told, version)
  BY DEF FeedInv
<1>6. AllFollow(hub, rs, lg, st, told, now)
  BY ONLY <1>1, <1>5
<1>7. AllFollow(hub, rs, lg, st2, told, now)
  BY ONLY <1>2, <1>3, <1>4, <1>5, <1>6, AllLoosened
<1>8. QED
  BY ONLY <1>1, <1>7

LEMMA DeleteFollows ==
  ASSUME FeedInv, Delete
  PROVE  FeedInv'
<1>1. /\ actor' = "removed" /\ pending' = NoUpdate
      /\ UNCHANGED <<version, log, host, hub, readers, subscribes>>
  BY DEF Delete
<1>2. Strict' = FALSE /\ Told' = version /\ PendingInv'
  BY <1>1 DEF Strict, Told, PendingInv
<1>3. /\ Told \in Nat /\ Told <= version /\ version \in Nat
      /\ hub \in HubType /\ hub.published \in Nat /\ hub.published <= Told
  BY ToldTyped DEF FeedInv
<1>4. AllFollow(hub, readers, log, FALSE, version, version)
  BY <1>3, Unstrict, LoosenedHere
<1>5. AllFollow(hub', readers, log', Strict', Told', version')
  BY ONLY <1>1, <1>2, <1>4
<1>6. QED
  BY <1>1, <1>2, <1>3, <1>5, HubChanges DEF FeedInv

LEMMA InvalidateFollows ==
  ASSUME FeedInv, InvalidateDeleted
  PROVE  FeedInv'
<1>1. /\ actor = "removed" /\ actor' = "deleted" /\ hub' = [Invalidated(hub) EXCEPT !.published = 0]
      /\ UNCHANGED <<version, log, pending, host, readers, subscribes>>
  BY DEF InvalidateDeleted
<1>2. Strict' = FALSE /\ Strict = FALSE /\ pending = NoUpdate /\ Told = version /\ Told' = version
      /\ PendingInv'
  BY <1>1 DEF FeedInv, Strict, Told, PendingInv
<1>3. PICK h2 : h2 = [Invalidated(hub) EXCEPT !.published = 0]
  OBVIOUS
<1>4. hub \in HubType /\ version \in Nat
  BY DEF FeedInv
<1>5. /\ h2 \in HubType /\ h2.published = 0
      /\ \A s \in Subs : h2.subs[s].status = "open" => h2.subs[s] = hub.subs[s]
  BY <1>3, <1>4, InvalidatedTyped DEF HubType
<1>6. AllFollow(hub, readers, log, FALSE, version, version)
  BY <1>4, Unstrict, LoosenedHere
<1>7. AllFollow(h2, readers, log, FALSE, version, version)
  BY <1>5, <1>6 DEF AllFollow
<1>8. AllFollow(hub', readers, log', Strict', Told', version')
  BY ONLY <1>1, <1>2, <1>3, <1>7
<1>9. QED
  BY <1>1, <1>2, <1>3, <1>4, <1>5, <1>8, HubChanges DEF FeedInv

LEMMA HostClosesFollows ==
  ASSUME FeedInv, HostCloses
  PROVE  FeedInv'
<1> DEFINE g(s) == [hub.subs[s] EXCEPT !.registered = FALSE]
<1>1. /\ host' = "closed" /\ UNCHANGED <<version, log, actor, pending, readers, subscribes>>
      /\ hub' = [hub EXCEPT !.subs = [s \in Subs |-> g(s)]]
  BY DEF HostCloses
<1>2. Strict' = FALSE /\ Told' = Told /\ PendingInv'
  BY <1>1 DEF FeedInv, Strict, Told, PendingInv
<1>3. hub \in HubType /\ \A s \in Subs : hub.subs[s] \in Subscription
  BY DEF FeedInv, HubType
<1>4. ASSUME NEW s \in Subs
      PROVE  /\ g(s) \in Subscription /\ g(s).status = hub.subs[s].status
             /\ Follows(hub.subs[s], readers[s], log, FALSE, Told, version) =>
                  Follows(g(s), readers[s], log, FALSE, Told, version)
  <2>1. PICK q, q2 : q = hub.subs[s] /\ q2 = g(s)
    OBVIOUS
  <2>2. /\ q \in Subscription /\ q2 \in Subscription /\ q2.status = q.status
        /\ q2.queue = q.queue /\ q2.inflight = q.inflight /\ q2.released = q.released
        /\ q2.kind = q.kind /\ q2.window = q.window /\ q2.epochs = q.epochs
        /\ q2.cleared = q.cleared /\ q2.reading = q.reading
    BY <1>3, <2>1 DEF Subscription
  <2>3. Follows(q, readers[s], log, FALSE, Told, version) =>
          Follows(q2, readers[s], log, FALSE, Told, version)
    BY <2>2, FollowsSame
  <2>4. QED
    BY <2>1, <2>2, <2>3
<1> HIDE DEF g
<1>5. hub' \in HubType /\ hub'.published = hub.published /\ \A s \in Subs : hub'.subs[s] = g(s)
  BY <1>1, <1>3, <1>4 DEF HubType
<1>6. AllFollow(hub, readers, log, FALSE, Told, version)
  BY Unstrict
<1>7. AllFollow(hub', readers, log, FALSE, Told, version)
  BY <1>4, <1>5, <1>6 DEF AllFollow
<1>8. AllFollow(hub', readers, log', Strict', Told', version')
  BY ONLY <1>1, <1>2, <1>7
<1>9. QED
  BY <1>1, <1>2, <1>5, <1>8, HubChanges DEF FeedInv

LEMMA ViewedReader ==
  ASSUME version \in Nat, NEW q
  PROVE  IsReader(Viewed(q))
<1> DEFINE h == [i \in Items |-> Content(i, version)]
           n == [i \in Items |-> 0]
<1>1. /\ q.kind = "full" => Viewed(q) = [version |-> version, epoch |-> 0, items |-> Items,
                                         held |-> h, misapplied |-> FALSE]
      /\ q.kind # "full" => Viewed(q) = [version |-> version, epoch |-> 0, items |-> {},
                                         held |-> n, misapplied |-> FALSE]
  BY DEF Viewed, NoReader
<1>2. h = [i \in Items |-> h[i]] /\ n = [i \in Items |-> n[i]]
  OBVIOUS
<1> HIDE DEF h, n
<1>3. QED
  BY <1>1, <1>2 DEF IsReader

LEMMA ViewFollows ==
  ASSUME FeedInv, NEW s \in Subs, View(s)
  PROVE  FeedInv'
<1>1. PICK lost \in SUBSET SubsOpen :
        /\ Open(s) /\ readers[s].version = 0 /\ host = "open" /\ actor = "live"
        /\ pending' = NoUpdate /\ hub' = Flushed(version, lost)
        /\ readers' = [readers EXCEPT ![s] = Viewed(sub(s))]
        /\ UNCHANGED <<version, log, actor, host, subscribes>>
  BY DEF View
<1>2. PICK h2 : h2 = Flushed(version, lost)
  OBVIOUS
<1>3. /\ Strict = TRUE /\ Strict' = TRUE /\ Told' = version /\ PendingInv'
      /\ version \in Nat /\ version # 0 /\ readers = [t \in Subs |-> readers[t]]
  BY <1>1 DEF Strict, Told, PendingInv, FeedInv
<1>4. /\ h2 \in HubType /\ h2.published <= version
      /\ AllFollow(h2, readers, log, Strict, version, version)
      /\ \A t \in Subs : h2.subs[t].status = "open" => Kept(sub(t), h2.subs[t])
  <2>1. version <= version /\ \A v \in 1..version : log[v] = log[v]
    BY <1>3
  <2>2. QED
    BY ONLY <1>2, <1>3, <2>1, AllFlushed, FeedInv
<1>5. AllFollow(h2, readers, log, TRUE, version, version)
  BY ONLY <1>3, <1>4
<1>6. sub(s) \in Subscription /\ h2.subs[s] \in Subscription
  BY <1>4, ToldTyped DEF HubType
<1>7. IsReader(Viewed(sub(s)))
  BY <1>3, ViewedReader
<1>8. h2.subs[s].status = "open" =>
        Follows(h2.subs[s], Viewed(sub(s)), log, TRUE, version, version)
  <2>1. PICK q, q0, r : q = h2.subs[s] /\ q0 = sub(s) /\ r = readers[s]
    OBVIOUS
  <2>2. q.status = "open" => Follows(q, r, log, TRUE, version, version) /\ q.kind = q0.kind
    BY <1>4, <1>5, <2>1 DEF AllFollow, Kept
  <2>3. q \in Subscription /\ q0 \in Subscription /\ r.version = 0
    BY <1>1, <1>6, <2>1
  <2>4. q.status = "open" => Follows(q, Viewed(q0), log, TRUE, version, version)
    BY <1>3, <2>2, <2>3, FollowsViewed
  <2>5. QED
    BY <2>1, <2>4
<1>9. /\ readers' = [t \in Subs |-> readers'[t]]
      /\ \A t \in Subs : readers'[t] = IF t = s THEN Viewed(sub(s)) ELSE readers[t]
  BY <1>1, <1>3
<1>10. AllFollow(h2, readers', log, TRUE, version, version)
  BY <1>5, <1>8, <1>9 DEF AllFollow
<1>11. AllFollow(hub', readers', log', Strict', Told', version')
  BY ONLY <1>1, <1>2, <1>3, <1>10
<1>12. \A t \in Subs : IsReader(readers'[t])
  BY <1>7, <1>9 DEF FeedInv
<1>13. hub' \in HubType /\ hub'.published <= Told'
  BY <1>1, <1>2, <1>3, <1>4
<1>14. QED
  BY <1>1, <1>3, <1>9, <1>11, <1>12, <1>13 DEF FeedInv

\* The commit of SetWindow for one subscription.
LEMMA InstalledFollows ==
  ASSUME NEW q \in Subscription, q.status = "open", q.kind = "window", NEW r, r.version \in Nat,
         NEW strict \in BOOLEAN, version \in Nat, version # 0,
         Follows(q, r, log, strict, version, version)
  PROVE  LET q2 == Installed(q)
         IN  /\ q2 \in Subscription
             /\ q2.status = "open" =>
                  q2.registered = q.registered /\ Follows(q2, r, log, strict, version, version)
<1> DEFINE m == WindowBaseline(q, q.reading)
           a == Enqueue(q, m, TRUE)
           e == q.window.epoch
           s == [k \in DOMAIN a.queue |->
                   IF a.queue[k].owned /\ a.queue[k].epoch = e THEN Stripped(a.queue[k]) ELSE a.queue[k]]
           w == [epoch |-> q.epochs + 1, items |-> q.reading, version |-> version]
<1>1. /\ q.epochs \in Nat /\ q.reading \in SUBSET Items /\ q.queue \in Seq(Update)
      /\ e \in Nat
  BY DEF Subscription
<1>2. /\ m \in Update /\ m.base = version /\ m.view = version /\ m.epoch = q.epochs + 1
      /\ m.items = q.reading /\ m.kind = "window" /\ ~m.owned
  BY <1>1 DEF WindowBaseline, Update
<1>3. w \in [epoch : Nat, items : SUBSET Items, version : Nat]
  BY <1>1
<1> HIDE DEF m
<1>4. a \in Subscription /\ (a.status = "lost" \/ a = [q EXCEPT !.queue = Append(@, m)])
  BY <1>2, EnqueueTyped
<1>5. CASE a.status # "open"
  <2>1. Installed(q) = a
    BY <1>5 DEF Installed, m
  <2>2. QED
    BY <1>4, <1>5, <2>1
<1>6. CASE a.status = "open"
  <2>1. PICK qa : qa = a
    OBVIOUS
  <2>2. qa = [q EXCEPT !.queue = Append(q.queue, m)]
    BY <1>4, <1>6, <2>1
  <2>3. Append(q.queue, m) \in Seq(Update)
    BY <1>1, <1>2
  <2>4. /\ qa.queue = Append(q.queue, m) /\ qa.registered = q.registered /\ qa.status = "open"
        /\ qa.kind = q.kind /\ qa.inflight = q.inflight /\ qa.released = q.released
        /\ qa.epochs = q.epochs /\ qa.cleared = q.cleared /\ qa \in Subscription
    BY <2>2, <2>3 DEF Subscription
  <2>5. /\ Len(qa.queue) = Len(q.queue) + 1 /\ Len(q.queue) \in Nat
        /\ qa.queue[Len(q.queue) + 1] = m
        /\ \A k \in 1..Len(q.queue) : qa.queue[k] = q.queue[k]
        /\ \A k \in 1..Len(qa.queue) : qa.queue[k] \in Update
        /\ DOMAIN qa.queue = 1..Len(qa.queue)
    BY <1>1, <1>2, <2>4
  <2>6. PICK d : d = s
    OBVIOUS
  <2>7. d = [k \in 1..Len(qa.queue) |->
               IF qa.queue[k].owned /\ qa.queue[k].epoch = e THEN Stripped(qa.queue[k])
               ELSE qa.queue[k]]
    BY <2>1, <2>5, <2>6
  <2>8. \A k \in 1..Len(qa.queue) : d[k] \in Update
    BY <2>5, <2>7, StrippedUpdate
  <2>9. d \in Seq(Update) /\ Len(d) = Len(qa.queue)
    <3>1. PICK n \in Nat : n = Len(qa.queue)
      BY <2>5
    <3>2. DOMAIN d = 1..n /\ d = [k \in 1..n |-> d[k]]
      BY ONLY <2>7, <3>1
    <3>3. \A k \in 1..n : d[k] \in Update
      BY ONLY <2>8, <3>1
    <3>4. d \in [1..n -> Update]
      BY ONLY <3>2, <3>3
    <3>5. QED
      BY ONLY <3>1, <3>2, <3>4
  <2>10. PICK n : n = w
    OBVIOUS
  <2>11. PICK q2 : q2 = Installed(q)
    OBVIOUS
  <2>12. q2 = [qa EXCEPT !.queue = d, !.reading = {}, !.epochs = q.epochs + 1, !.window = n]
    <3>1. Installed(q) = [Retired(qa, e) EXCEPT !.reading = {}, !.epochs = @ + 1, !.window = n]
      BY <1>6, <2>1, <2>10 DEF Installed, m
    <3>2. Retired(qa, e) = [qa EXCEPT !.queue = d]
      BY <2>1, <2>6 DEF Retired
    <3>3. QED
      BY <2>4, <2>11, <3>1, <3>2 DEF Subscription
  <2>13. n \in [epoch : Nat, items : SUBSET Items, version : Nat] /\ n.epoch = q.epochs + 1
         /\ n.items = q.reading /\ n.version = version
    BY <1>3, <2>10
  <2>14. q.epochs + 1 \in Nat
    BY <1>1
  <2>15. /\ q2 \in Subscription /\ q2.queue = d /\ q2.reading = {} /\ q2.epochs = q.epochs + 1
         /\ q2.window = n /\ q2.registered = q.registered
         /\ q2.kind = q.kind /\ q2.inflight = q.inflight /\ q2.released = q.released
         /\ q2.cleared = q.cleared
    BY <2>4, <2>9, <2>12, <2>13, <2>14 DEF Subscription
  <2>16. d[Len(q.queue) + 1] = m
    BY <1>2, <2>5, <2>7
  <2>17. \A k \in 1..Len(q.queue) :
           d[k] = IF q.queue[k].owned /\ q.queue[k].epoch = q.window.epoch
                  THEN Stripped(q.queue[k]) ELSE q.queue[k]
    BY <2>5, <2>7
  <2>18. Replaced(q, q2, m)
    BY <1>2, <2>5, <2>9, <2>13, <2>15, <2>16, <2>17 DEF Replaced, Explicit, Baseline
  <2>19. Follows(q2, r, log, strict, version, version)
    BY <1>2, <2>13, <2>15, <2>18, FollowsReplaced
  <2>20. QED
    BY <2>11, <2>15, <2>19
<1>7. QED
  BY <1>5, <1>6

LEMMA SetWindowFollows ==
  ASSUME FeedInv, NEW s \in Subs, SetWindow(s)
  PROVE  FeedInv'
<1>1. PICK lost \in SUBSET SubsOpen :
        LET h == Flushed(version, lost)
        IN  /\ actor = "live" /\ Open(s) /\ sub(s).reading # {}
            /\ pending' = NoUpdate
            /\ hub' = IF h.subs[s].status # "open" THEN h
                      ELSE [h EXCEPT !.subs[s] = Installed(h.subs[s])]
            /\ UNCHANGED <<version, log, actor, host, readers, subscribes>>
  BY DEF SetWindow
<1>2. PICK h : h = Flushed(version, lost)
  OBVIOUS
<1>3. /\ Strict' = Strict /\ Strict \in BOOLEAN /\ Told' = version /\ PendingInv'
      /\ version \in Nat /\ version # 0
  BY <1>1, ToldTyped DEF Strict, Told, PendingInv, FeedInv
<1>4. /\ h \in HubType /\ h.published <= version
      /\ AllFollow(h, readers, log, Strict, version, version)
      /\ \A t \in Subs : h.subs[t].status = "open" => Kept(sub(t), h.subs[t])
  <2>1. version <= version /\ \A v \in 1..version : log[v] = log[v]
    BY <1>3
  <2>2. QED
    BY ONLY <1>2, <1>3, <2>1, AllFlushed, FeedInv
<1>5. CASE h.subs[s].status # "open"
  <2>1. hub' = h
    BY <1>1, <1>2, <1>5
  <2>2. AllFollow(hub', readers, log', Strict', Told', version')
    BY ONLY <1>1, <1>3, <1>4, <2>1
  <2>3. QED
    BY <1>1, <1>3, <1>4, <2>1, <2>2, HubChanges DEF FeedInv
<1>6. CASE h.subs[s].status = "open"
  <2>1. PICK q, r : q = h.subs[s] /\ r = readers[s]
    OBVIOUS
  <2>2. /\ q \in Subscription /\ q.status = "open" /\ r.version \in Nat
        /\ Follows(q, r, log, Strict, version, version) /\ (Strict => q.registered)
        /\ q.reading # {}
    BY <1>1, <1>4, <1>6, <2>1, ToldTyped DEF HubType, AllFollow, Kept, Reading
  <2>3. q.kind = "window"
    BY <2>2 DEF Follows, Detailed
  <2>4. PICK q2 : q2 = Installed(q)
    OBVIOUS
  <2>5. /\ q2 \in Subscription
        /\ q2.status = "open" =>
             q2.registered = q.registered /\ Follows(q2, r, log, Strict, version, version)
    BY <1>3, <2>2, <2>3, <2>4, InstalledFollows
  <2>6. hub' = [h EXCEPT !.subs[s] = q2]
    BY <1>1, <1>2, <1>6, <2>1, <2>4
  <2>7. /\ hub' \in HubType /\ hub'.published = h.published
        /\ \A t \in Subs : hub'.subs[t] = IF t = s THEN q2 ELSE h.subs[t]
    BY <1>4, <2>5, <2>6 DEF HubType
  <2>8. AllFollow(hub', readers, log, Strict, version, version)
    BY <1>4, <2>1, <2>2, <2>5, <2>7 DEF AllFollow
  <2>9. AllFollow(hub', readers, log', Strict', Told', version')
    BY ONLY <1>1, <1>3, <2>8
  <2>10. QED
    BY <1>1, <1>3, <1>4, <2>7, <2>9, HubChanges DEF FeedInv
<1>7. QED
  BY <1>5, <1>6

LEMMA FeedStep ==
  ASSUME FeedAssumption, FeedInv, [FeedNext]_feedVars
  PROVE  FeedInv'
<1>1. CASE \E i \in Items : Grow(i)
  BY <1>1, GrowFollows
<1>2. CASE \E items \in Changes, moved \in BOOLEAN : Change(items, moved)
  <2>1. PICK items \in Changes, moved \in BOOLEAN : Change(items, moved)
    BY <1>2
  <2>2. items \in SUBSET Items
    BY DEF FeedAssumption
  <2>3. QED
    BY <2>1, <2>2, ChangeFollows
<1>3. CASE FlushGrowth
  BY <1>3, FlushFollows
<1>4. CASE Break
  BY <1>4, BreakFollows
<1>5. CASE Repair
  BY <1>5, RepairFollows
<1>6. CASE Delete
  BY <1>6, DeleteFollows
<1>7. CASE InvalidateDeleted
  BY <1>7, InvalidateFollows
<1>8. CASE HostCloses
  BY <1>8, HostClosesFollows
<1>9. ASSUME NEW s \in Subs,
             \/ View(s) \/ Close(s)
             \/ \E kind \in Kinds : Subscribe(s, kind)
             \/ \E items \in Windows : BeginSetWindow(s, items)
             \/ FailSetWindow(s) \/ SetWindow(s) \/ ClearWindow(s)
             \/ Take(s) \/ ReturnUpdate(s) \/ HydrationFails(s)
      PROVE  FeedInv'
  <2>1. CASE View(s)
    BY <2>1, ViewFollows
  <2>2. CASE Close(s)
    BY <2>2, CloseFollows
  <2>3. CASE \E kind \in Kinds : Subscribe(s, kind)
    BY <2>3, SubscribeFollows
  <2>4. CASE FailSetWindow(s) \/ \E items \in Windows : BeginSetWindow(s, items)
    BY <2>4, WindowReadFollows
  <2>5. CASE SetWindow(s)
    BY <2>5, SetWindowFollows
  <2>6. CASE ClearWindow(s)
    BY <2>6, ClearFollows
  <2>7. CASE Take(s)
    BY <2>7, TakeFollows
  <2>8. CASE ReturnUpdate(s)
    BY <2>8, ReturnFollows
  <2>9. CASE HydrationFails(s)
    BY <2>9, HydrationFollows
  <2>10. QED
    BY ONLY <1>9, <2>1, <2>2, <2>3, <2>4, <2>5, <2>6, <2>7, <2>8, <2>9
<1>10. CASE UNCHANGED feedVars
  <2>1. /\ UNCHANGED readers /\ UNCHANGED <<version, log, actor, pending, host, hub>>
    BY <1>10 DEF feedVars
  <2>2. Strict' = Strict /\ Told' = Told /\ PendingInv'
    BY <2>1 DEF FeedInv, Strict, Told, PendingInv
  <2>3. AllFollow(hub, readers, log, Strict, Told, version)
    BY DEF FeedInv
  <2>4. AllFollow(hub', readers, log', Strict', Told', version')
    BY ONLY <2>1, <2>2, <2>3
  <2>5. QED
    BY <2>1, <2>2, <2>4, HubChanges DEF FeedInv
<1>11. QED
  BY ONLY <1>1, <1>2, <1>3, <1>4, <1>5, <1>6, <1>7, <1>8, <1>9, <1>10, [FeedNext]_feedVars DEF FeedNext

LEMMA FeedInvariant == FeedSpec => []FeedInv
<1>1. FeedInit => FeedInv
  BY FeedAssumption, FeedBegins
<1>2. FeedInv /\ [FeedNext]_feedVars => FeedInv'
  BY FeedAssumption, FeedStep
<1>3. QED
  BY <1>1, <1>2, PTL DEF FeedSpec
-----------------------------------------------------------------------------
(* What a reader may rely on.                                              *)

\* A cleared window never comes back, not even when a read of its detail was
\* in progress: an update of its window call is stripped when it is returned.
THEOREM ClearedWindowStaysCleared == FeedSpec => []ClearedStaysCleared
<1>1. FeedInv => ClearedStaysCleared
  <2>1. SUFFICES ASSUME FeedInv, NEW s \in Subs, Open(s)
                 PROVE  readers[s].epoch # 0 => readers[s].epoch > sub(s).cleared
    BY DEF ClearedStaysCleared, SubsOpen
  <2>2. Dated(sub(s), readers[s])
    BY <2>1, OneFollows DEF Follows
  <2>3. readers[s].epoch # 0 => sub(s).cleared < readers[s].epoch
    BY <2>2 DEF Dated
  <2>4. QED
    BY <2>3
<1>2. QED
  BY <1>1, FeedInvariant, PTL

\* What a reader holds is the content at the version it is at, or the baseline
\* of its window is on the way, and growth only ever extends the text it
\* continues.
THEOREM ReaderDetailApplies == FeedSpec => []DetailApplies
<1>1. FeedInv => DetailApplies
  <2>1. SUFFICES ASSUME FeedInv, NEW s \in Subs, Open(s)
                 PROVE  /\ ~readers[s].misapplied
                        /\ \/ \A i \in readers[s].items :
                                readers[s].held[i] = Content(i, readers[s].version)
                           \/ \E k \in DOMAIN Path(s) : Explicit(Path(s)[k])
    BY DEF DetailApplies, SubsOpen
  <2>2. PICK q, r : q = sub(s) /\ r = readers[s]
    OBVIOUS
  <2>3. q \in Subscription /\ Detailed(log, q, r)
    BY <2>1, <2>2, OneFollows DEF Follows
  <2>4. ~r.misapplied
    BY <2>3 DEF Detailed
  <2>5. Path(s) = PathOf(q)
    BY <2>2 DEF Path, PathOf
  <2>6. Accurate(log, r) \/ \E k \in DOMAIN PathOf(q) : Explicit(PathOf(q)[k])
    <3>1. CASE q.kind = "full"
      BY <2>3, <3>1 DEF Detailed, FullDetail
    <3>2. CASE q.kind = "facts"
      BY <2>3, <3>2 DEF Detailed, FactsDetail, Accurate
    <3>3. CASE q.kind = "window"
      <4>1. WindowDetail(log, Effective(q), q.window, r)
        BY <2>3, <3>3 DEF Detailed
      <4>2. Accurate(log, r) \/ \E k \in 1..Len(Effective(q)) : Explicit(Effective(q)[k])
        BY <4>1 DEF WindowDetail
      <4>3. \A k \in 1..Len(Effective(q)) :
              Explicit(Effective(q)[k]) => k \in DOMAIN PathOf(q) /\ Explicit(PathOf(q)[k])
        <5>1. PathOf(q) \in Seq(Update) /\ DOMAIN PathOf(q) = 1..Len(PathOf(q))
          BY <2>3, PathTyped
        <5>2. \A u \in Update : ~Explicit(Stripped(u))
          BY StrippedUpdate DEF Plain, Explicit
        <5>3. \A k \in 1..Len(PathOf(q)) : PathOf(q)[k] \in Update
          BY <5>1
        <5>4. QED
          BY <2>3, <5>1, <5>2, <5>3, EffectiveTyped
      <4>4. QED
        BY <4>2, <4>3
    <3>4. QED
      BY <2>3, <3>1, <3>2, <3>3 DEF Subscription, Kinds
  <2>7. Accurate(log, r) => \A i \in r.items : r.held[i] = Content(i, r.version)
    BY ContentLogged DEF Accurate
  <2>8. QED
    BY <2>2, <2>4, <2>5, <2>6, <2>7
<1>2. QED
  BY <1>1, FeedInvariant, PTL

LEMMA ViewsRise ==
  ASSUME NEW p \in Seq(Update), NEW strict, Linked(p, strict)
  PROVE  \A j, k \in 1..Len(p) : j <= k => p[j].view <= p[k].view /\ p[j].base <= p[k].view
<1>1. SUFFICES ASSUME NEW j \in 1..Len(p), NEW k \in 1..Len(p), j <= k
               PROVE  p[j].view <= p[k].view /\ p[j].base <= p[k].view
  OBVIOUS
<1>2. /\ p[j].base \in Nat /\ p[j].view \in Nat /\ p[k].base \in Nat /\ p[k].view \in Nat
      /\ p[j].base <= p[j].view /\ p[k].base <= p[k].view
  BY UpdateAt DEF Linked
<1>3. CASE j = k
  BY <1>2, <1>3
<1>4. CASE j # k
  <2>1. j \in 1..(k - 1)
    BY <1>1, <1>4
  <2>2. p[j].view <= p[k].base
    BY <2>1 DEF Linked
  <2>3. QED
    BY <1>2, <2>2
<1>5. QED
  BY <1>3, <1>4

\* The versions a reader at v has accepted before update k of p.
Accepted(p, v, k) ==
  {v} \cup {p[j].view : j \in {i \in 1..k - 1 : v > 0 \/ \E m \in 1..i : Explicit(p[m])}}

Greatest(S) == CHOOSE v \in S : \A w \in S : w <= v

LEMMA GreatestIs ==
  ASSUME NEW S \in SUBSET Nat, NEW x \in S, \A w \in S : w <= x
  PROVE  Greatest(S) = x
<1>1. PICK g : g = Greatest(S)
  OBVIOUS
<1>2. g \in S /\ \A w \in S : w <= g
  BY <1>1 DEF Greatest
<1>3. g \in Nat /\ x \in Nat /\ g <= x /\ x <= g
  BY <1>2
<1>4. QED
  BY <1>1, <1>3

LEMMA AcceptedIs ==
  ASSUME NEW p \in Seq(Update), NEW v \in Nat, NEW k \in 1..(Len(p) + 1), Linked(p, TRUE)
  PROVE  /\ k = 1 => Greatest(Accepted(p, v, k)) = v
         /\ k > 1 => /\ k - 1 \in 1..Len(p)
                     /\ Greatest(Accepted(p, v, k)) \in {v, p[k - 1].view}
                     /\ v > 0 => /\ v <= Greatest(Accepted(p, v, k))
                                 /\ p[k - 1].view <= Greatest(Accepted(p, v, k))
<1>1. Len(p) \in Nat /\ \A j \in 1..Len(p) : p[j].view \in Nat
  BY UpdateAt
<1>2. /\ v \in Accepted(p, v, k) /\ Accepted(p, v, k) \in SUBSET Nat
      /\ \A w \in Accepted(p, v, k) : w = v \/ \E j \in 1..(k - 1) :
           w = p[j].view /\ (v > 0 \/ \E m \in 1..j : Explicit(p[m]))
      /\ \A j \in 1..(k - 1) :
           v > 0 \/ (\E m \in 1..j : Explicit(p[m])) => p[j].view \in Accepted(p, v, k)
  <2>1. PICK J : J = {i \in 1..k - 1 : v > 0 \/ \E m \in 1..i : Explicit(p[m])}
    OBVIOUS
  <2>2. \A i : i \in J <=> i \in 1..(k - 1) /\ (v > 0 \/ \E m \in 1..i : Explicit(p[m]))
    BY <2>1
  <2>3. Accepted(p, v, k) = {v} \cup {p[j].view : j \in J}
    BY <2>1 DEF Accepted
  <2>4. \A w : w \in Accepted(p, v, k) <=> w = v \/ \E j \in J : w = p[j].view
    BY <2>3
  <2>5. \A j \in J : p[j].view \in Nat
    BY <1>1, <2>2
  <2>6. Accepted(p, v, k) \in SUBSET Nat
    BY <2>4, <2>5
  <2>7. QED
    BY <2>2, <2>4, <2>6
<1>3. \A j, l \in 1..Len(p) : j <= l => p[j].view <= p[l].view /\ p[j].base <= p[l].view
  <2>1. PICK strict : Linked(p, strict)
    OBVIOUS
  <2>2. QED
    BY <2>1, ViewsRise
<1>4. PICK S : S = Accepted(p, v, k)
  OBVIOUS
<1>5. CASE k = 1
  <2>1. \A w \in S : w = v
    BY <1>2, <1>4, <1>5
  <2>2. Greatest(S) = v
    BY <1>2, <1>4, <2>1, GreatestIs
  <2>3. QED
    BY <1>4, <1>5, <2>2
<1>6. CASE k > 1
  <2>1. k - 1 \in 1..Len(p) /\ k - 1 \in 1..(k - 1)
    BY <1>1, <1>6
  <2>2. PICK l : l = k - 1
    OBVIOUS
  <2>3. \A j \in 1..(k - 1) : p[j].view <= p[l].view
    BY <1>1, <2>1, <2>2, <1>3
  <2>4. CASE p[l].view \in S /\ v <= p[l].view
    <3>1. \A w \in S : w <= p[l].view
      BY <1>2, <1>4, <2>3, <2>4
    <3>2. Greatest(S) = p[l].view
      BY <1>2, <1>4, <2>4, <3>1, GreatestIs
    <3>3. QED
      BY <1>1, <1>4, <1>6, <2>1, <2>2, <2>4, <3>2
  <2>5. CASE p[l].view \in S /\ ~(v <= p[l].view)
    <3>1. \A w \in S : w <= v
      <4>1. p[l].view \in Nat
        BY <1>1, <2>1, <2>2
      <4>2. ASSUME NEW j \in 1..(k - 1)
            PROVE  p[j].view <= v
        <5>1. j \in 1..Len(p)
          BY <1>1, <4>2
        <5>2. p[j].view \in Nat /\ p[j].view <= p[l].view
          BY <1>1, <2>3, <5>1
        <5>3. QED
          BY <2>5, <4>1, <5>2
      <4>3. QED
        BY <1>2, <1>4, <4>2
    <3>2. Greatest(S) = v
      BY <1>2, <1>4, <3>1, GreatestIs
    <3>3. p[l].view <= v
      BY <1>1, <2>1, <2>2, <2>5
    <3>4. QED
      BY <1>4, <1>6, <2>1, <2>2, <3>2, <3>3
  <2>6. CASE p[l].view \notin S
    <3>1. ~(v > 0) /\ ~\E m \in 1..l : Explicit(p[m])
      BY <1>2, <1>4, <2>1, <2>2, <2>6
    <3>2. \A j \in 1..(k - 1) : ~\E m \in 1..j : Explicit(p[m])
      <4>1. \A j \in 1..(k - 1) : 1..j \subseteq 1..l
        BY <2>2
      <4>2. QED
        BY <3>1, <4>1
    <3>3. \A w \in S : w = v
      BY <1>2, <1>4, <3>1, <3>2
    <3>4. Greatest(S) = v
      BY <1>2, <1>4, <3>3, GreatestIs
    <3>5. QED
      BY <1>4, <1>6, <2>1, <3>1, <3>4
  <2>7. QED
    BY <2>4, <2>5, <2>6
<1>7. QED
  BY <1>5, <1>6

LEMMA ChainUnbroken ==
  ASSUME NEW p \in Seq(Update), NEW v \in Nat, NEW told \in Nat, NEW now,
         Chained(p, v, TRUE, told, now)
  PROVE  /\ \A k \in 1..Len(p) : Greatest(Accepted(p, v, k)) > 0 =>
              \/ p[k].view <= Greatest(Accepted(p, v, k))
              \/ p[k].base = Greatest(Accepted(p, v, k))
         /\ Greatest(Accepted(p, v, Len(p) + 1)) > 0 =>
              Greatest(Accepted(p, v, Len(p) + 1)) = told
<1>1. /\ Len(p) \in Nat /\ Linked(p, TRUE) /\ At(p, v, TRUE) /\ EndsAt(p, v, told)
      /\ \A k \in 1..Len(p) : p[k].view \in Nat /\ p[k].base \in Nat
  <2>1. Linked(p, TRUE) /\ At(p, v, TRUE) /\ EndsAt(p, v, told)
    BY DEF Chained
  <2>2. \A k \in 1..Len(p) : p[k].view \in Nat /\ p[k].base \in Nat
    BY UpdateAt
  <2>3. Len(p) \in Nat
    OBVIOUS
  <2>4. QED
    BY ONLY <2>1, <2>2, <2>3
<1>2. \A j, k \in 1..Len(p) : j <= k => p[j].view <= p[k].view /\ p[j].base <= p[k].view
  <2>1. PICK strict : Linked(p, strict)
    BY <1>1
  <2>2. QED
    BY <2>1, ViewsRise
<1>3. \A k \in 1..(Len(p) + 1) :
        /\ k = 1 => Greatest(Accepted(p, v, k)) = v
        /\ k > 1 => /\ k - 1 \in 1..Len(p)
                    /\ Greatest(Accepted(p, v, k)) \in {v, p[k - 1].view}
                    /\ v > 0 => /\ v <= Greatest(Accepted(p, v, k))
                                /\ p[k - 1].view <= Greatest(Accepted(p, v, k))
  BY <1>1, AcceptedIs
<1>4. v = 0 \/ Len(p) = 0 \/ v = p[1].base \/ \E j \in 1..Len(p) : v = p[j].view
  BY <1>1 DEF At
<1>5. ASSUME NEW k \in 1..Len(p), NEW g, g = Greatest(Accepted(p, v, k)), g > 0
      PROVE  p[k].view <= g \/ p[k].base = g
  <2>1. k \in 1..(Len(p) + 1) /\ 1 \in 1..Len(p)
    BY <1>1, <1>5
  <2>2. CASE k = 1
    <3>1. g = v
      BY <1>1, <1>5, <2>1, <2>2, <1>3
    <3>2. ASSUME NEW j \in 1..Len(p), v = p[j].view
          PROVE  p[1].view <= v
      BY <1>1, <2>1, <3>2, <1>2
    <3>3. Len(p) # 0 /\ v # 0
      BY <1>1, <1>5, <3>1
    <3>4. QED
      BY <1>4, <2>2, <3>1, <3>2, <3>3
  <2>3. CASE k > 1
    <3>1. /\ k - 1 \in 1..Len(p) /\ g \in {v, p[k - 1].view}
          /\ v > 0 => v <= g /\ p[k - 1].view <= g
      BY <1>1, <1>5, <2>1, <2>3, <1>3
    <3>2. p[k].base = p[k - 1].view
      BY <1>1, <1>5, <2>3 DEF Linked
    <3>3. CASE g = p[k - 1].view
      BY <3>2, <3>3
    <3>4. CASE g = v /\ g # p[k - 1].view
      <4>1. p[k - 1].view < v
        BY <1>1, <1>5, <3>1, <3>4
      <4>2. v # p[1].base
        <5>1. p[1].base <= p[k - 1].view
          BY <1>1, <2>1, <3>1, <1>2
        <5>2. QED
          BY <1>1, <2>1, <3>1, <4>1, <5>1
      <4>3. PICK j \in 1..Len(p) : v = p[j].view
        BY <1>1, <1>4, <1>5, <3>4, <4>2
      <4>4. ~(j <= k - 1)
        BY <1>1, <3>1, <4>1, <4>3, <1>2
      <4>5. k <= j
        BY <1>1, <4>4
      <4>6. QED
        BY <1>1, <3>4, <4>3, <4>5, <1>2
    <3>5. QED
      BY <3>1, <3>3, <3>4
  <2>4. QED
    BY <1>1, <1>5, <2>2, <2>3
<1>6. ASSUME NEW g, g = Greatest(Accepted(p, v, Len(p) + 1)), g > 0
      PROVE  g = told
  <2>1. Len(p) + 1 \in 1..(Len(p) + 1)
    BY <1>1
  <2>2. CASE Len(p) = 0
    <3>1. g = v
      BY <1>6, <2>1, <2>2, <1>1, <1>3
    <3>2. v \in {0, told}
      BY <1>1, <2>2 DEF EndsAt
    <3>3. QED
      BY <1>6, <3>1, <3>2
  <2>3. CASE Len(p) # 0
    <3>1. PICK n \in 1..Len(p) : n = Len(p) /\ 1 \in 1..Len(p)
      BY <1>1, <2>3
    <3>2. Len(p) + 1 > 1 /\ (Len(p) + 1) - 1 = n
      BY <1>1, <3>1
    <3>3. g \in {v, p[n].view} /\ (v > 0 => v <= g /\ p[n].view <= g)
      BY <1>1, <1>6, <2>1, <3>2, <1>3
    <3>4. p[n].view = told
      BY <1>1, <2>3, <3>1 DEF EndsAt
    <3>5. CASE g = v
      <4>1. p[1].base <= p[n].view /\ \A j \in 1..Len(p) : p[j].view <= p[n].view
        BY <1>1, <3>1, <1>2
      <4>2. v <= p[n].view
        BY <1>4, <1>6, <2>3, <3>5, <4>1
      <4>3. p[n].view <= v
        BY <1>6, <3>3, <3>5
      <4>4. QED
        BY <1>1, <3>1, <3>4, <3>5, <4>2, <4>3
    <3>6. QED
      BY <3>3, <3>4, <3>5
  <2>4. QED
    BY <2>2, <2>3
<1>7. QED
  BY <1>5, <1>6

\* Along what is in flight, queued and pending, every update a reader accepts
\* continues the version it is at, and the last one brings it to the version
\* the actor has published or is about to.
THEOREM FeedIsUnbroken == FeedSpec => []UnbrokenFeed
<1>1. FeedInv => UnbrokenFeed
  <2>1. SUFFICES ASSUME FeedInv, host = "open", actor \in {"live", "broken"},
                        NEW s \in Subs, Open(s)
                 PROVE  LET n == Len(Path(s))
                        IN  /\ \A k \in 1..n : Reached(s, k) > 0 =>
                                 \/ Path(s)[k].view <= Reached(s, k)
                                 \/ Path(s)[k].base = Reached(s, k)
                            /\ Reached(s, n + 1) > 0 =>
                                 Reached(s, n + 1) = IF pending = NoUpdate THEN version ELSE pending.base
    BY DEF UnbrokenFeed, SubsOpen
  <2>2. PICK p, v : p = Path(s) /\ v = readers[s].version
    OBVIOUS
  <2>3. Path(s) = PathOf(sub(s))
    BY DEF Path, PathOf
  <2>4. p \in Seq(Update) /\ v \in Nat /\ Told \in Nat /\ Chained(p, v, TRUE, Told, version)
    <3>1. /\ sub(s) \in Subscription /\ readers[s].version \in Nat /\ Told \in Nat
          /\ Follows(sub(s), readers[s], log, Strict, Told, version)
      BY <2>1, OneFollows
    <3>2. Strict = TRUE
      BY <2>1 DEF Strict
    <3>3. Chained(PathOf(sub(s)), readers[s].version, Strict, Told, version)
      BY <3>1 DEF Follows
    <3>4. PathOf(sub(s)) \in Seq(Update)
      BY <3>1, PathTyped
    <3>5. QED
      BY ONLY <2>2, <2>3, <3>1, <3>2, <3>3, <3>4
  <2>5. \A k : Reached(s, k) = Greatest(Accepted(p, v, k))
    BY <2>2 DEF Reached, Greatest, Accepted
  <2>6. PICK told : told = Told
    OBVIOUS
  <2>7. /\ \A k \in 1..Len(p) : Greatest(Accepted(p, v, k)) > 0 =>
             \/ p[k].view <= Greatest(Accepted(p, v, k))
             \/ p[k].base = Greatest(Accepted(p, v, k))
        /\ Greatest(Accepted(p, v, Len(p) + 1)) > 0 =>
             Greatest(Accepted(p, v, Len(p) + 1)) = told
    BY ONLY <2>4, <2>6, ChainUnbroken
  <2>8. told = IF pending = NoUpdate THEN version ELSE pending.base
    BY <2>6 DEF Told
  <2>9. QED
    BY ONLY <2>2, <2>5, <2>7, <2>8
<1>2. QED
  BY <1>1, FeedInvariant, PTL

-----------------------------------------------------------------------------
(* The receipts of one transaction, in order.                               *)

\* A sequence of the events by rising id exists, their ranks tell each place,
\* and any such sequence has all of them.
LEMMA EventsOrdered ==
  ASSUME NEW S, IsFiniteSet(S), \A e \in S : e.id \in Nat,
         \A e, f \in S : e.id = f.id => e = f
  PROVE  /\ Cardinality(S) \in Nat /\ InOrder(S) \in [1..Cardinality(S) -> S]
         /\ \A i, j \in 1..Cardinality(S) : i < j => InOrder(S)[i].id < InOrder(S)[j].id
         /\ \A e \in S : \E i \in 1..Cardinality(S) : InOrder(S)[i] = e
<1> DEFINE n == Cardinality(S)
           Upto(e) == {f \in S : f.id <= e.id}
           R == [e \in S |-> Cardinality(Upto(e))]
<1>1. n \in Nat
  BY FS_CardinalityType
<1>2. ASSUME NEW e \in S
      PROVE  /\ R[e] \in 1..n /\ Upto(e) \in SUBSET S /\ IsFiniteSet(Upto(e))
             /\ R[e] = Cardinality(Upto(e)) /\ e \in Upto(e)
  <2>1. Upto(e) \in SUBSET S /\ e \in Upto(e)
    OBVIOUS
  <2>2. IsFiniteSet(Upto(e)) /\ Cardinality(Upto(e)) <= n
    BY <2>1, FS_Subset
  <2>3. Cardinality(Upto(e)) \in Nat /\ Cardinality(Upto(e)) # 0
    BY <2>1, <2>2, FS_CardinalityType, FS_EmptySet
  <2> HIDE DEF n, Upto
  <2>4. QED
    BY <1>1, <2>1, <2>2, <2>3
<1>3. ASSUME NEW e \in S, NEW f \in S, e.id < f.id
      PROVE  R[e] < R[f]
  <2>1. Upto(e) \in SUBSET Upto(f) /\ f \notin Upto(e)
    BY <1>3
  <2>2. Upto(f) # Upto(e)
    BY <1>2, <2>1
  <2>3. Cardinality(Upto(e)) <= Cardinality(Upto(f)) /\ Cardinality(Upto(e)) # Cardinality(Upto(f))
    BY <1>2, <2>1, <2>2, FS_Subset
  <2> HIDE DEF n, Upto, R
  <2>4. QED
    BY <1>1, <1>2, <2>3
<1>4. \A e, f \in S : R[e] = R[f] => e = f
  <2>1. SUFFICES ASSUME NEW e \in S, NEW f \in S, R[e] = R[f]
                 PROVE  e = f
    OBVIOUS
  <2>2. R[e] \in 1..n /\ R[f] \in 1..n
    BY <1>2
  <2> HIDE DEF n, R
  <2>3. ~(e.id < f.id) /\ ~(f.id < e.id)
    BY <1>1, <1>3, <2>1, <2>2
  <2>4. QED
    BY <2>3
<1>5. IsFiniteSet(1..n) /\ Cardinality(1..n) = n
  BY <1>1, FS_Interval
<1>6. \A k \in 1..n : \E e \in S : R[e] = k
  <2>1. R \in Injection(S, 1..n)
    BY <1>2, <1>4 DEF Injection, IsInjective
  <2>2. R \in Surjection(S, 1..n)
    BY <1>5, <2>1, FS_Injection
  <2>3. QED
    BY <2>2 DEF Surjection
<1> HIDE DEF n, R
<1>7. \E s \in [1..n -> S] : \A i, j \in 1..n : i < j => s[i].id < s[j].id
  <2> DEFINE s == [k \in 1..n |-> CHOOSE e \in S : R[e] = k]
  <2>1. \A k \in 1..n : s[k] \in S /\ R[s[k]] = k
    BY <1>6
  <2>2. s \in [1..n -> S]
    BY <2>1
  <2> HIDE DEF s
  <2>3. ASSUME NEW i \in 1..n, NEW j \in 1..n, i < j
        PROVE  s[i].id < s[j].id
    <3>1. s[i] # s[j]
      BY <2>1, <2>3
    <3>2. ~(s[j].id < s[i].id)
      BY <1>1, <1>3, <2>1, <2>3
    <3>3. s[i].id # s[j].id /\ s[i].id \in Nat /\ s[j].id \in Nat
      BY <2>1, <3>1
    <3>4. QED
      BY <3>2, <3>3
  <2>4. QED
    BY <2>2, <2>3
<1>8. /\ InOrder(S) \in [1..n -> S]
      /\ \A i, j \in 1..n : i < j => InOrder(S)[i].id < InOrder(S)[j].id
  BY <1>7 DEF InOrder, n
<1>9. \A e \in S : \E i \in 1..n : InOrder(S)[i] = e
  <2>1. PICK s : s = InOrder(S)
    OBVIOUS
  <2>2. \A i, j \in 1..n : s[i] = s[j] => i = j
    <3>1. SUFFICES ASSUME NEW i \in 1..n, NEW j \in 1..n, s[i] = s[j]
                   PROVE  i = j
      OBVIOUS
    <3>2. s[i].id = s[j].id /\ s[i].id \in Nat
      BY <1>8, <2>1, <3>1
    <3>3. ~(i < j) /\ ~(j < i)
      BY <1>8, <2>1, <3>2
    <3>4. QED
      BY <1>1, <3>3
  <2>3. s \in Injection(1..n, S)
    BY <1>8, <2>1, <2>2 DEF Injection, IsInjective
  <2>4. s \in Surjection(1..n, S)
    BY <1>5, <2>3, FS_Injection DEF n
  <2>5. QED
    BY <2>1, <2>4 DEF Surjection
<1>10. QED
  BY <1>1, <1>8, <1>9 DEF n

-----------------------------------------------------------------------------
(* The turns of a child and the receipts of them.                           *)

Turn == [turn : Nat, run : Nat, kind : {"ordinary", "compaction"}, live : BOOLEAN,
         exec : BOOLEAN, open : SUBSET Nat, held : SUBSET Nat, call : Nat, ids : Nat]

\* What is asked, held or called has an id of the child's, and only while the
\* turn is live.
Sound(t) ==
  /\ t \in Turn
  /\ t.open \cup t.held \subseteq 1..t.ids /\ t.call <= t.ids
  /\ t.exec => t.live
  /\ t.live => t.turn > 0
  /\ ~t.live => t.open = {} /\ t.held = {} /\ t.call = 0

\* e is a receipt of a turn of which t is the latest state; the terminal of a
\* turn is of its last run, and the turn has ended.
ReceiptOf(e, t) ==
  /\ e.turn <= t.turn
  /\ e.kind = "terminal" => /\ e.id = e.turn
                            /\ e.turn = t.turn => ~t.live /\ e.run = t.run

ReceiptsTyped == receipts \in Seq(Receipt)
ChildrenSound == child \in [Children -> Turn] /\ \A c \in Children : Sound(child[c])
ReceiptsFit == \A i \in 1..Len(receipts) : ReceiptOf(receipts[i], child[receipts[i].child])
Distinct == \A i, j \in 1..Len(receipts) : SameSource(receipts[i], receipts[j]) => i = j

\* Where nobody looks again, nothing is missing, whatever this process publishes.
NothingMissed ==
  /\ covered \in [Children -> BOOLEAN] /\ enabled \in BOOLEAN
  /\ pass \in [Children -> {"todo", "scanned", "done"}]
  /\ \A c \in Children :
       /\ covered[c] => Missing(c) = {}
       /\ pass[c] # "todo" => enabled
       /\ pass[c] = "done" => Missing(c) = {}

ReceiptsInv ==
  ReceiptsTyped /\ ChildrenSound /\ ReceiptsFit /\ Distinct /\ NothingAfterEnd /\ NothingMissed

\* The receipts E, which nobody has published, join those there are.
Joins(E) ==
  /\ receipts' \in Seq(Receipt) /\ Len(receipts) <= Len(receipts')
  /\ \A k \in 1..Len(receipts) : receipts'[k] = receipts[k]
  /\ \A k \in (Len(receipts) + 1)..Len(receipts') : receipts'[k] \in E
  /\ \A j, k \in (Len(receipts) + 1)..Len(receipts') : j < k => receipts'[j].id < receipts'[k].id
  /\ \A e \in E : \E k \in (Len(receipts) + 1)..Len(receipts') : receipts'[k] = e

\* Receipts of a child's turn, none of them published.
Untold(c, E) ==
  /\ E \subseteq Receipt
  /\ \A e \in E : e.child = c /\ e.turn = child[c].turn /\ e.run = child[c].run /\ ~Known(e)
  /\ \A e, f \in E : e.kind = f.kind /\ (e.id = f.id => e = f)
  /\ \A e \in E : e.kind = "terminal" => e.id = e.turn /\ \A f \in E : f = e

LEMMA OrderedJoin ==
  ASSUME ReceiptsTyped, NEW E, IsFiniteSet(E), E \subseteq Receipt,
         \A e, f \in E : e.id = f.id => e = f, receipts' = receipts \o InOrder(E)
  PROVE  Joins(E)
<1> DEFINE n == Cardinality(E)
           s == InOrder(E)
<1>1. \A e \in E : e.id \in Nat
  BY DEF Receipt
<1>2. /\ n \in Nat /\ s \in [1..n -> E]
      /\ \A i, j \in 1..n : i < j => s[i].id < s[j].id
      /\ \A e \in E : \E i \in 1..n : s[i] = e
  BY <1>1, EventsOrdered
<1>3. receipts' = receipts \o s
  OBVIOUS
<1> HIDE DEF n, s
<1>4. PICK m \in Nat : m = Len(receipts)
  BY DEF ReceiptsTyped
<1>5. /\ receipts' \in Seq(Receipt) /\ Len(receipts') = m + n
      /\ \A k \in 1..m : receipts'[k] = receipts[k]
      /\ \A k \in 1..n : receipts'[m + k] = s[k]
  <2>1. receipts \in Seq(Receipt)
    BY DEF ReceiptsTyped
  <2>2. s \in Seq(Receipt) /\ Len(s) = n
    BY <1>2
  <2>3. /\ receipts \o s \in Seq(Receipt) /\ Len(receipts \o s) = Len(receipts) + Len(s)
        /\ \A k \in 1..Len(receipts) : (receipts \o s)[k] = receipts[k]
        /\ \A k \in 1..Len(s) : (receipts \o s)[Len(receipts) + k] = s[k]
    BY ONLY <2>1, <2>2
  <2>4. QED
    BY ONLY <1>3, <1>4, <2>2, <2>3
<1>6. \A k \in (m + 1)..(m + n) : k - m \in 1..n /\ receipts'[k] = s[k - m]
  <2>1. ASSUME NEW k \in (m + 1)..(m + n)
        PROVE  k - m \in 1..n /\ m + (k - m) = k
    BY <1>2, <1>4
  <2>2. QED
    BY <1>5, <2>1
<1>7. \A k \in (m + 1)..(m + n) : receipts'[k] \in E
  BY <1>2, <1>6
<1>8. \A j, k \in (m + 1)..(m + n) : j < k => receipts'[j].id < receipts'[k].id
  <2>1. ASSUME NEW j \in (m + 1)..(m + n), NEW k \in (m + 1)..(m + n), j < k
        PROVE  j - m < k - m
    BY <1>4, <2>1
  <2>2. QED
    BY <1>2, <1>6, <2>1
<1>9. ASSUME NEW e \in E
      PROVE  \E k \in (m + 1)..(m + n) : receipts'[k] = e
  <2>1. PICK i \in 1..n : s[i] = e
    BY <1>2
  <2>2. m + i \in (m + 1)..(m + n)
    BY <1>2, <1>4
  <2>3. QED
    BY <1>5, <2>1, <2>2
<1>10. m <= m + n
  BY <1>2, <1>4
<1>11. QED
  BY ONLY <1>4, <1>5, <1>7, <1>8, <1>9, <1>10 DEF Joins

LEMMA NothingJoins ==
  ASSUME ReceiptsTyped, UNCHANGED receipts
  PROVE  Joins({})
<1>1. Len(receipts) \in Nat
  BY DEF ReceiptsTyped
<1>2. (Len(receipts) + 1)..Len(receipts) = {}
  BY <1>1
<1>3. QED
  BY <1>1, <1>2 DEF Joins, ReceiptsTyped

LEMMA OneJoins ==
  ASSUME ReceiptsTyped, NEW e \in Receipt, receipts' = Append(receipts, e)
  PROVE  Joins({e})
<1>1. PICK m \in Nat : m = Len(receipts)
  BY DEF ReceiptsTyped
<1>2. /\ receipts' \in Seq(Receipt) /\ Len(receipts') = m + 1 /\ receipts'[m + 1] = e
      /\ \A k \in 1..m : receipts'[k] = receipts[k]
  BY <1>1 DEF ReceiptsTyped
<1>3. \A k \in (m + 1)..(m + 1) : k = m + 1
  BY <1>1
<1>4. m + 1 \in (m + 1)..(m + 1) /\ m <= m + 1 /\ ~(m + 1 < m + 1)
  BY <1>1
<1>5. QED
  BY ONLY <1>1, <1>2, <1>3, <1>4 DEF Joins

\* The receipts of one child that join keep what holds of all.
LEMMA JoinDistinct ==
  ASSUME ReceiptsInv, NEW c \in Children, NEW E, Untold(c, E), Joins(E),
         E # {} => child[c].live
  PROVE  Distinct' /\ NothingAfterEnd'
<1>1. PICK m, n \in Nat : m = Len(receipts) /\ n = Len(receipts')
  BY DEF Joins, ReceiptsInv, ReceiptsTyped
<1>2. /\ \A k \in 1..m : receipts'[k] = receipts[k] /\ receipts[k] \in Receipt
      /\ \A k \in (m + 1)..n : receipts'[k] \in E
      /\ \A k \in 1..n : k \in 1..m \/ k \in (m + 1)..n
  BY <1>1 DEF Joins, ReceiptsInv, ReceiptsTyped
<1>3. \A j, k \in (m + 1)..n : receipts'[j].id = receipts'[k].id => j = k
  <2>1. SUFFICES ASSUME NEW j \in (m + 1)..n, NEW k \in (m + 1)..n,
                        receipts'[j].id = receipts'[k].id
                 PROVE  j = k
    OBVIOUS
  <2>2. receipts'[j].id \in Nat
    BY <1>2 DEF Untold, Receipt
  <2>3. ~(j < k) /\ ~(k < j)
    BY <1>1, <2>1, <2>2 DEF Joins
  <2>4. QED
    BY <1>1, <2>3
<1>4. Distinct'
  <2>1. SUFFICES ASSUME NEW i \in 1..n, NEW j \in 1..n, SameSource(receipts'[i], receipts'[j])
                 PROVE  i = j
    BY <1>1 DEF Distinct, SameSource
  <2>2. CASE i \in 1..m /\ j \in 1..m
    BY <1>1, <1>2, <2>1, <2>2 DEF ReceiptsInv, Distinct
  <2>3. CASE i \in (m + 1)..n /\ j \in (m + 1)..n
    BY <1>3, <2>1, <2>3 DEF SameSource
  <2>4. \A a \in 1..m, b \in (m + 1)..n : ~SameSource(receipts'[a], receipts'[b])
    BY <1>1, <1>2 DEF Untold, Known
  <2>5. CASE i \in 1..m /\ j \in (m + 1)..n
    BY <2>1, <2>4, <2>5
  <2>6. CASE i \in (m + 1)..n /\ j \in 1..m
    BY <2>1, <2>4, <2>6 DEF SameSource
  <2>7. QED
    BY <1>2, <2>2, <2>3, <2>5, <2>6
<1>5. NothingAfterEnd'
  <2>1. SUFFICES ASSUME NEW i \in 1..n, NEW j \in 1..n, receipts'[i].kind = "terminal",
                        receipts'[i].child = receipts'[j].child, i < j
                 PROVE  receipts'[j].turn > receipts'[i].turn
    BY <1>1 DEF NothingAfterEnd
  <2>2. CASE i \in 1..m /\ j \in 1..m
    BY <1>1, <1>2, <2>1, <2>2 DEF ReceiptsInv, NothingAfterEnd
  <2>3. CASE i \in 1..m /\ j \in (m + 1)..n
    <3>1. /\ receipts'[j] \in E /\ receipts'[i] = receipts[i] /\ receipts[i].child = c
          /\ child[c].live /\ receipts'[j].turn = child[c].turn
      BY <1>2, <2>1, <2>3 DEF Untold
    <3>2. ReceiptOf(receipts[i], child[c])
      BY <1>1, <2>3, <3>1 DEF ReceiptsInv, ReceiptsFit
    <3>3. receipts[i].turn <= child[c].turn /\ receipts[i].turn # child[c].turn
      BY <2>1, <3>1, <3>2 DEF ReceiptOf
    <3>4. receipts[i].turn \in Nat /\ child[c].turn \in Nat
      BY <1>2, <2>3 DEF Receipt, ReceiptsInv, ChildrenSound, Turn
    <3>5. QED
      BY <3>1, <3>3, <3>4
  <2>4. CASE i \in (m + 1)..n /\ j \in (m + 1)..n
    <3>1. receipts'[i] = receipts'[j]
      BY <1>2, <2>1, <2>4 DEF Untold
    <3>2. i = j
      BY <1>3, <2>4, <3>1
    <3>3. QED
      BY <1>1, <2>1, <3>2
  <2>5. ~(i \in (m + 1)..n /\ j \in 1..m)
    BY <1>1, <2>1
  <2>6. QED
    BY <1>2, <2>2, <2>3, <2>4, <2>5
<1>6. QED
  BY <1>4, <1>5

\* The journal of a child goes on from t to t2 without another end of a turn.
GoesOnFrom(t, t2) ==
  \/ t.turn < t2.turn
  \/ t.turn = t2.turn /\ (t.live \/ (~t2.live /\ t2.run = t.run))

CoreInv == ReceiptsTyped /\ ChildrenSound /\ ReceiptsFit /\ Distinct /\ NothingAfterEnd

LEMMA CoreKept ==
  ASSUME ReceiptsInv, NEW c \in Children, NEW t2, NEW E, Untold(c, E), Joins(E),
         E # {} => child[c].live, child' = [child EXCEPT ![c] = t2], Sound(t2),
         GoesOnFrom(child[c], t2), \A e \in E : ReceiptOf(e, t2)
  PROVE  CoreInv'
<1>1. Distinct' /\ NothingAfterEnd'
  BY JoinDistinct
<1>2. ReceiptsTyped'
  BY DEF Joins, ReceiptsTyped
<1>3. child \in [Children -> Turn] /\ \A d \in Children : Sound(child[d])
  BY DEF ReceiptsInv, ChildrenSound
<1>4. ChildrenSound'
  <2>1. t2 \in Turn
    BY DEF Sound
  <2>2. child' \in [Children -> Turn] /\ \A d \in Children : child'[d] \in {child[d], t2}
    BY ONLY <1>3, <2>1, child' = [child EXCEPT ![c] = t2]
  <2>3. \A d \in Children : Sound(child'[d])
    BY <1>3, <2>2
  <2>4. QED
    BY <2>2, <2>3 DEF ChildrenSound, Sound
<1>5. child'[c] = t2 /\ \A d \in Children \ {c} : child'[d] = child[d]
  BY <1>3
<1>6. ASSUME NEW e \in Receipt, ReceiptOf(e, child[c])
      PROVE  ReceiptOf(e, t2)
  <2>1. e.turn \in Nat /\ child[c].turn \in Nat /\ t2.turn \in Nat
    BY <1>3 DEF Receipt, Turn, Sound
  <2>2. QED
    BY <1>6, <2>1 DEF ReceiptOf, GoesOnFrom
<1>7. PICK m, n \in Nat : m = Len(receipts) /\ n = Len(receipts')
  BY <1>2 DEF ReceiptsInv, ReceiptsTyped
<1>8. ASSUME NEW k \in 1..n
      PROVE  ReceiptOf(receipts'[k], child'[receipts'[k].child])
  <2>1. k \in 1..m \/ k \in (m + 1)..n
    BY <1>7
  <2>2. CASE k \in 1..m
    <3>1. /\ receipts'[k] = receipts[k] /\ receipts[k] \in Receipt
          /\ ReceiptOf(receipts[k], child[receipts[k].child])
      BY <1>7, <2>2 DEF Joins, ReceiptsInv, ReceiptsFit, ReceiptsTyped
    <3>2. PICK e \in Receipt : e = receipts[k]
      BY <3>1
    <3>3. e.child \in Children /\ ReceiptOf(e, child[e.child])
      BY <3>1, <3>2 DEF Receipt
    <3>4. CASE e.child = c
      BY <1>5, <1>6, <3>1, <3>2, <3>3, <3>4
    <3>5. CASE e.child # c
      BY <1>5, <3>1, <3>2, <3>3, <3>5
    <3>6. QED
      BY <3>4, <3>5
  <2>3. CASE k \in (m + 1)..n
    <3>1. receipts'[k] \in E /\ receipts'[k].child = c
      BY <1>7, <2>3 DEF Joins, Untold
    <3>2. QED
      BY <1>5, <3>1
  <2>4. QED
    BY <2>1, <2>2, <2>3
<1>9. ReceiptsFit'
  BY <1>7, <1>8 DEF ReceiptsFit, ReceiptOf
<1>10. QED
  BY <1>1, <1>2, <1>4, <1>9 DEF CoreInv

\* The parent has been told of question i of child c.
Heard(c, i) ==
  \E k \in 1..Len(receipts) :
    receipts[k].child = c /\ receipts[k].kind = "interaction" /\ receipts[k].id = i

LEMMA MissingUnheard ==
  ASSUME NEW c
  PROVE  Missing(c) = IF child[c].kind = "compaction" THEN {}
                      ELSE {i \in child[c].open : ~Heard(c, i)}
<1>1. \A i : Known(Of(c, "interaction", i)) <=> Heard(c, i)
  BY DEF Known, SameSource, Of, Heard
<1>2. QED
  BY <1>1 DEF Missing

LEMMA MissingLater ==
  ASSUME NEW c
  PROVE  Missing(c)' = IF child'[c].kind = "compaction" THEN {}
                       ELSE {i \in child'[c].open : ~Heard(c, i)'}
<1>1. \A i : Known(Of(c, "interaction", i))' <=> Heard(c, i)'
  BY DEF Known, SameSource, Of, Heard
<1>2. QED
  BY <1>1 DEF Missing

LEMMA HeardStays ==
  ASSUME ReceiptsTyped, NEW E, Joins(E), NEW c, NEW i, Heard(c, i)
  PROVE  Heard(c, i)'
<1>1. Len(receipts) \in Nat /\ Len(receipts') \in Nat /\ Len(receipts) <= Len(receipts')
  BY DEF Joins, ReceiptsTyped
<1>2. \A k \in 1..Len(receipts) : k \in 1..Len(receipts') /\ receipts'[k] = receipts[k]
  BY <1>1 DEF Joins
<1>3. QED
  BY <1>2 DEF Heard

LEMMA HeardNow ==
  ASSUME ReceiptsTyped, NEW E, Joins(E), NEW e \in E, e.kind = "interaction"
  PROVE  Heard(e.child, e.id)'
<1>1. Len(receipts) \in Nat /\ Len(receipts') \in Nat
  BY DEF Joins, ReceiptsTyped
<1>2. PICK k \in (Len(receipts) + 1)..Len(receipts') : receipts'[k] = e
  BY DEF Joins
<1>3. k \in 1..Len(receipts')
  BY <1>1
<1>4. QED
  BY <1>2, <1>3 DEF Heard

\* A process that publishes tells of the questions that are new.
LEMMA NothingMissedKept ==
  ASSUME ReceiptsInv, NEW c \in Children, NEW t2, NEW E, Joins(E), NEW b \in BOOLEAN,
         child' = [child EXCEPT ![c] = t2], t2.kind = child[c].kind \/ t2.open = {},
         enabled /\ t2.kind # "compaction" =>
           \A i \in t2.open : i \in child[c].open \/ Heard(c, i)',
         covered' = [covered EXCEPT ![c] = b], b => enabled /\ covered[c],
         enabled' = enabled, pass' \in [Children -> {"todo", "scanned", "done"}],
         \A d \in Children : /\ pass'[d] # "todo" => pass[d] # "todo"
                             /\ pass'[d] = "done" => pass[d] = "done"
  PROVE  NothingMissed'
<1>1. child \in [Children -> Turn] /\ NothingMissed
  BY DEF ReceiptsInv, ChildrenSound
<1>2. child'[c] = t2 /\ \A d \in Children \ {c} : child'[d] = child[d]
  BY <1>1
<1>3. covered'[c] = b /\ \A d \in Children \ {c} : covered'[d] = covered[d]
  BY <1>1 DEF NothingMissed
<1>4. \A d, i : Heard(d, i) => Heard(d, i)'
  BY HeardStays DEF ReceiptsInv
<1>5. ASSUME NEW d \in Children \ {c}, Missing(d) = {}
      PROVE  Missing(d)' = {}
  BY <1>2, <1>4, <1>5, MissingUnheard, MissingLater
<1>6. ASSUME enabled, Missing(c) = {}
      PROVE  Missing(c)' = {}
  <2>1. CASE t2.kind = "compaction" \/ t2.open = {}
    BY <1>2, <2>1, MissingLater
  <2>2. CASE t2.kind # "compaction" /\ t2.open # {}
    <3>1. child[c].kind # "compaction"
      BY <2>2
    <3>2. \A i \in child[c].open : Heard(c, i)
      BY <1>6, <3>1, MissingUnheard
    <3>3. \A i \in t2.open : Heard(c, i)'
      BY <1>4, <1>6, <2>2, <3>2
    <3>4. QED
      BY <1>2, <3>3, MissingLater
  <2>3. QED
    BY <2>1, <2>2
<1>7. covered' \in [Children -> BOOLEAN] /\ enabled' \in BOOLEAN
  BY <1>1 DEF NothingMissed
<1>8. ASSUME NEW d \in Children
      PROVE  /\ covered'[d] => Missing(d)' = {}
             /\ pass'[d] # "todo" => enabled'
             /\ pass'[d] = "done" => Missing(d)' = {}
  <2>1. CASE d = c
    BY <1>1, <1>3, <1>6, <2>1 DEF NothingMissed
  <2>2. CASE d # c
    BY <1>1, <1>3, <1>5, <2>2 DEF NothingMissed
  <2>3. QED
    BY <2>1, <2>2
<1>9. QED
  BY <1>7, <1>8 DEF NothingMissed, Missing, Known, SameSource, Of

\* The events of one transaction of child c.
Events(c, E) ==
  /\ E \subseteq Receipt /\ IsFiniteSet(E)
  /\ \A e \in E : e.child = c /\ e.turn = child[c].turn /\ e.run = child[c].run
  /\ \A e, f \in E : e.kind = f.kind /\ (e.id = f.id => e = f)
  /\ \A e \in E : e.kind = "terminal" => e.id = e.turn /\ \A f \in E : f = e

\* A step publishes nothing but receipts of child c, while its turn is live.
TellsOf(c) == \E F : Untold(c, F) /\ Joins(F) /\ (F # {} => child[c].live)

LEMMA DisturbsOnly ==
  ASSUME NothingMissed, NEW threads, Disturbs(threads)
  PROVE  /\ pass' \in [Children -> {"todo", "scanned", "done"}]
         /\ \A d \in Children : /\ pass'[d] # "todo" => pass[d] # "todo"
                                /\ pass'[d] = "done" => pass[d] = "done"
  BY DEF NothingMissed, Disturbs

LEMMA FreshJoin ==
  ASSUME ReceiptsInv, NEW c \in Children, NEW E, Events(c, E),
         receipts' = receipts \o InOrder({e \in E : ~Known(e)})
  PROVE  Untold(c, {e \in E : ~Known(e)}) /\ Joins({e \in E : ~Known(e)})
<1> DEFINE F == {e \in E : ~Known(e)}
<1>1. F \in SUBSET E /\ \A e \in F : ~Known(e)
  OBVIOUS
<1>2. receipts' = receipts \o InOrder(F)
  OBVIOUS
<1> HIDE DEF F
<1>3. IsFiniteSet(F)
  BY <1>1, FS_Subset DEF Events
<1>4. Untold(c, F)
  BY <1>1 DEF Untold, Events
<1>5. Joins(F)
  BY <1>2, <1>3, <1>4, OrderedJoin DEF Untold, ReceiptsInv
<1>6. QED
  BY <1>4, <1>5 DEF F

LEMMA CommitsKeep ==
  ASSUME ReceiptsInv, NEW c \in Children, NEW t2, NEW E, Events(c, E), Commits(c, t2, E),
         E # {} => child[c].live, Sound(t2), GoesOnFrom(child[c], t2),
         \A e \in E : ReceiptOf(e, t2), t2.kind = child[c].kind \/ t2.open = {},
         \A i \in t2.open : \/ i \in child[c].open
                            \/ \E e \in E : e.kind = "interaction" /\ e.id = i
  PROVE  ReceiptsInv' /\ TellsOf(c)
<1>1. ReceiptsTyped /\ NothingMissed
  BY DEF ReceiptsInv
<1>2. PICK F : /\ Untold(c, F) /\ Joins(F) /\ F \subseteq E
               /\ enabled /\ child[c].kind # "compaction" =>
                    \A e \in E : e \in F \/ Known(e)
  <2>1. CASE ~enabled \/ child[c].kind = "compaction"
    <3>1. UNCHANGED receipts
      BY <2>1 DEF Commits, Published
    <3>2. Joins({}) /\ Untold(c, {})
      BY <1>1, <3>1, NothingJoins DEF Untold
    <3>3. QED
      BY <2>1, <3>2
  <2>2. CASE enabled /\ child[c].kind # "compaction"
    <3>1. receipts' = receipts \o InOrder({e \in E : ~Known(e)})
      BY <2>2 DEF Commits, Published
    <3>2. PICK F : F = {e \in E : ~Known(e)}
      OBVIOUS
    <3>3. Untold(c, F) /\ Joins(F)
      BY <3>1, <3>2, FreshJoin
    <3>4. QED
      BY <3>2, <3>3
  <2>3. QED
    BY <1>1, <2>1, <2>2 DEF NothingMissed
<1>3. child' = [child EXCEPT ![c] = t2] /\ enabled' = enabled
  BY DEF Commits
<1>4. CoreInv'
  BY <1>2, <1>3, CoreKept
<1>5. PICK b \in BOOLEAN : b = Coverage(c)
  BY <1>1 DEF NothingMissed, Coverage
<1>6. covered' = [covered EXCEPT ![c] = b] /\ (b => enabled /\ covered[c])
  BY <1>5 DEF Commits, Coverage
<1>7. ASSUME enabled, t2.kind # "compaction", NEW i \in t2.open, i \notin child[c].open
      PROVE  Heard(c, i)'
  <2>1. PICK e \in E : e.kind = "interaction" /\ e.id = i
    BY <1>7
  <2>2. e.child = c /\ child[c].kind # "compaction"
    BY <1>7, <2>1 DEF Events
  <2>3. CASE e \in F
    BY <1>1, <1>2, <2>1, <2>2, <2>3, HeardNow
  <2>4. CASE Known(e)
    <3>1. Heard(c, i)
      BY <2>1, <2>2, <2>4 DEF Known, SameSource, Heard
    <3>2. QED
      BY <1>1, <1>2, <3>1, HeardStays
  <2>5. QED
    BY <1>2, <1>7, <2>2, <2>3, <2>4
<1>8. NothingMissed'
  <2>1. \E threads : Disturbs(threads)
    BY DEF Commits
  <2>2. /\ pass' \in [Children -> {"todo", "scanned", "done"}]
        /\ \A d \in Children : /\ pass'[d] # "todo" => pass[d] # "todo"
                               /\ pass'[d] = "done" => pass[d] = "done"
    BY <1>1, <2>1, DisturbsOnly
  <2>3. QED
    BY <1>2, <1>3, <1>6, <1>7, <2>2, NothingMissedKept
<1>9. QED
  BY <1>2, <1>4, <1>8 DEF ReceiptsInv, CoreInv, TellsOf

LEMMA NoEvents ==
  ASSUME NEW c
  PROVE  Events(c, {})
  BY FS_EmptySet DEF Events

\* A transaction that tells nothing.
LEMMA QuietCommit ==
  ASSUME ReceiptsInv, NEW c \in Children, NEW t2, Commits(c, t2, {}), Sound(t2),
         GoesOnFrom(child[c], t2), t2.kind = child[c].kind \/ t2.open = {},
         t2.open \subseteq child[c].open
  PROVE  ReceiptsInv' /\ TellsOf(c)
<1>1. Events(c, {})
  BY NoEvents
<1>2. \A i \in t2.open : i \in child[c].open
  OBVIOUS
<1>3. QED
  BY <1>1, <1>2, CommitsKeep

\* What c's journal has, as a receipt.
LEMMA EventIs ==
  ASSUME ReceiptsInv, NEW c \in Children, NEW kind \in {"terminal", "interaction", "report"},
         NEW id \in Nat
  PROVE  /\ Of(c, kind, id) \in Receipt /\ Of(c, kind, id).child = c
         /\ Of(c, kind, id).turn = child[c].turn /\ Of(c, kind, id).run = child[c].run
         /\ Of(c, kind, id).kind = kind /\ Of(c, kind, id).id = id
<1>1. child[c].turn \in Nat /\ child[c].run \in Nat
  BY DEF ReceiptsInv, ChildrenSound, Turn
<1>2. QED
  BY <1>1 DEF Of, Receipt

LEMMA QuestionEvents ==
  ASSUME ReceiptsInv, NEW c \in Children, NEW ids, NEW n \in Nat, ids \subseteq 1..n
  PROVE  /\ Events(c, Interactions(c, ids))
         /\ \A e \in Interactions(c, ids) : e.kind = "interaction" /\ e.id \in ids
         /\ \A i \in ids : \E e \in Interactions(c, ids) : e.kind = "interaction" /\ e.id = i
<1>1. \A i \in ids : i \in Nat
  OBVIOUS
<1>2. \A i \in ids : /\ Of(c, "interaction", i) \in Receipt
                     /\ Of(c, "interaction", i).child = c
                     /\ Of(c, "interaction", i).turn = child[c].turn
                     /\ Of(c, "interaction", i).run = child[c].run
                     /\ Of(c, "interaction", i).kind = "interaction"
                     /\ Of(c, "interaction", i).id = i
  <2>1. ASSUME NEW i \in Nat
        PROVE  /\ Of(c, "interaction", i) \in Receipt
               /\ Of(c, "interaction", i).child = c
               /\ Of(c, "interaction", i).turn = child[c].turn
               /\ Of(c, "interaction", i).run = child[c].run
               /\ Of(c, "interaction", i).kind = "interaction"
               /\ Of(c, "interaction", i).id = i
    BY EventIs
  <2>2. QED
    BY ONLY <1>1, <2>1
<1>3. IsFiniteSet(Interactions(c, ids))
  <2>1. IsFiniteSet(ids)
    <3>1. IsFiniteSet(1..n)
      BY FS_Interval
    <3>2. QED
      BY <3>1, FS_Subset
  <2> DEFINE f == [i \in ids |-> Of(c, "interaction", i)]
  <2>2. f \in Surjection(ids, Interactions(c, ids))
    BY DEF Surjection, Interactions
  <2>3. QED
    BY <2>1, <2>2, FS_Surjection
<1>4. \A e \in Interactions(c, ids) : \E i \in ids : e = Of(c, "interaction", i)
  BY DEF Interactions
<1>5. \A i \in ids : Of(c, "interaction", i) \in Interactions(c, ids)
  BY DEF Interactions
<1>6. QED
  BY <1>2, <1>3, <1>4, <1>5 DEF Events

-----------------------------------------------------------------------------
(* The steps of a child's turn.                                             *)

LEMMA TurnSound ==
  ASSUME ReceiptsInv, NEW c \in Children
  PROVE  Sound(child[c]) /\ child[c] \in Turn
  BY DEF ReceiptsInv, ChildrenSound

LEMMA StartKeeps ==
  ASSUME ReceiptsInv, NEW c \in Children, NEW kind \in {"ordinary", "compaction"}, Start(c, kind)
  PROVE  ReceiptsInv' /\ TellsOf(c)
<1>1. PICK t : t = child[c]
  OBVIOUS
<1>2. PICK t2 : t2 = [t EXCEPT !.turn = @ + 1, !.run = 1, !.kind = kind, !.live = TRUE, !.exec = TRUE]
  OBVIOUS
<1>3. Sound(t) /\ t \in Turn /\ ~t.live
  BY <1>1, TurnSound DEF Start
<1>4. Sound(t2) /\ t2.open = {}
  <2>1. /\ t2 \in Turn /\ t2.open = t.open /\ t2.held = t.held /\ t2.call = t.call
        /\ t2.ids = t.ids /\ t2.turn = t.turn + 1 /\ t2.live /\ t.turn \in Nat
    <3>1. PICK n \in Nat : n = t.turn + 1 /\ t.turn \in Nat
      BY <1>3 DEF Turn
    <3>2. t2 = [t EXCEPT !.turn = n, !.run = 1, !.kind = kind, !.live = TRUE, !.exec = TRUE]
      BY <1>2, <3>1
    <3>3. t2 \in Turn
      <4>1. [t EXCEPT !.turn = n, !.run = 1, !.kind = kind, !.live = TRUE, !.exec = TRUE] \in Turn
        BY ONLY <1>3, n \in Nat, kind \in {"ordinary", "compaction"} DEF Turn
      <4>2. QED
        BY ONLY <3>2, <4>1
    <3>4. /\ t2.open = t.open /\ t2.held = t.held /\ t2.call = t.call
          /\ t2.ids = t.ids /\ t2.turn = n /\ t2.live = TRUE
      BY ONLY <1>3, <3>2 DEF Turn
    <3>5. QED
      BY ONLY <3>1, <3>3, <3>4
  <2>2. t.open = {} /\ t.open \cup t.held \subseteq 1..t.ids /\ t.call <= t.ids
    BY <1>3 DEF Sound
  <2>3. t2.turn > 0
    BY <2>1
  <2>4. QED
    BY ONLY <2>1, <2>2, <2>3 DEF Sound
<1>5. GoesOnFrom(t, t2)
  BY <1>2, <1>3 DEF GoesOnFrom, Turn
<1>6. Commits(c, t2, {})
  BY <1>1, <1>2 DEF Start
<1>7. QED
  BY <1>1, <1>4, <1>5, <1>6, QuietCommit

LEMMA WriteKeeps ==
  ASSUME ReceiptsInv, NEW c \in Children, Write(c)
  PROVE  ReceiptsInv' /\ TellsOf(c)
<1>1. Sound(child[c]) /\ GoesOnFrom(child[c], child[c])
  BY TurnSound DEF GoesOnFrom
<1>2. QED
  BY <1>1, QuietCommit DEF Write

\* A question, under a new id.
LEMMA AskKeeps ==
  ASSUME ReceiptsInv, NEW c \in Children, Ask(c)
  PROVE  ReceiptsInv' /\ TellsOf(c)
<1>1. PICK t : t = child[c]
  OBVIOUS
<1>2. PICK t2 : t2 = [t EXCEPT !.open = @ \cup {NextId(c)}, !.ids = @ + 1]
  OBVIOUS
<1>3. Sound(t) /\ t \in Turn /\ t.exec /\ t.live
  BY <1>1, TurnSound DEF Ask, MayAsk, Working, Sound
<1>4. PICK i \in Nat : i = t.ids + 1 /\ NextId(c) = i
  BY <1>1, <1>3 DEF NextId, Turn
<1>5. /\ Sound(t2) /\ t2.open = t.open \cup {i} /\ t2.turn = t.turn /\ t2.live = t.live
      /\ t2.kind = t.kind
  <2>1. /\ t2 \in Turn /\ t2.open = t.open \cup {i} /\ t2.ids = i /\ t2.turn = t.turn
        /\ t2.live = t.live /\ t2.exec = t.exec /\ t2.held = t.held /\ t2.kind = t.kind
        /\ t2.call = t.call
    BY <1>2, <1>3, <1>4 DEF Turn
  <2>2. /\ t.open \cup t.held \subseteq 1..t.ids /\ t.ids \in Nat
        /\ t.call <= t.ids /\ t.call \in Nat
    BY <1>3 DEF Sound, Turn
  <2>3. (t.open \cup {i}) \cup t.held \subseteq 1..i /\ t.call <= i
    BY <1>4, <2>2
  <2>4. t.live => t.turn > 0
    BY <1>3 DEF Sound
  <2>5. QED
    BY ONLY <1>3, <2>1, <2>3, <2>4 DEF Sound
<1>6. Commits(c, t2, Interactions(c, {i})) /\ {i} \subseteq 1..i
  <2>1. Commits(c, t2, Interactions(c, {i}))
    BY <1>1, <1>2, <1>4 DEF Ask
  <2>2. i \in 1..i
    BY <1>3, <1>4 DEF Turn
  <2>3. QED
    BY <2>1, <2>2
<1>7. /\ Events(c, Interactions(c, {i}))
      /\ \A e \in Interactions(c, {i}) : e.kind = "interaction" /\ e.id \in {i}
      /\ \A j \in {i} : \E e \in Interactions(c, {i}) : e.kind = "interaction" /\ e.id = j
  BY <1>6, QuestionEvents
<1>8. \A e \in Interactions(c, {i}) : ReceiptOf(e, t2)
  <2>1. \A e \in Interactions(c, {i}) : e.turn = t2.turn /\ e.kind = "interaction"
    BY <1>1, <1>5, <1>7 DEF Events
  <2>2. t2.turn \in Nat
    BY <1>3, <1>5 DEF Turn
  <2>3. QED
    BY <2>1, <2>2 DEF ReceiptOf
<1>9. GoesOnFrom(t, t2)
  BY <1>3, <1>5 DEF GoesOnFrom
<1>10. \A j \in t2.open : \/ j \in child[c].open
                          \/ \E e \in Interactions(c, {i}) : e.kind = "interaction" /\ e.id = j
  BY <1>1, <1>5, <1>7
<1>11. QED
  BY <1>1, <1>3, <1>5, <1>6, <1>7, <1>8, <1>9, <1>10, CommitsKeep

LEMMA AnswerKeeps ==
  ASSUME ReceiptsInv, NEW c \in Children, Answer(c)
  PROVE  ReceiptsInv' /\ TellsOf(c)
<1>1. PICK t : t = child[c]
  OBVIOUS
<1>2. PICK i \in t.open : Commits(c, [t EXCEPT !.open = @ \ {i}], {})
  BY <1>1 DEF Answer
<1>3. PICK t2 : t2 = [t EXCEPT !.open = @ \ {i}]
  OBVIOUS
<1>4. Sound(t) /\ t \in Turn
  BY <1>1, TurnSound
<1>5. /\ Sound(t2) /\ t2.open = t.open \ {i} /\ t2.turn = t.turn /\ t2.live = t.live
      /\ t2.kind = t.kind /\ t2.run = t.run
  BY <1>3, <1>4 DEF Sound, Turn
<1>6. GoesOnFrom(t, t2)
  BY <1>5 DEF GoesOnFrom
<1>7. QED
  BY <1>1, <1>2, <1>3, <1>5, <1>6, QuietCommit

LEMMA DispatchKeeps ==
  ASSUME ReceiptsInv, NEW c \in Children, Dispatch(c)
  PROVE  ReceiptsInv' /\ TellsOf(c)
<1>1. PICK t : t = child[c]
  OBVIOUS
<1>2. PICK t2 : t2 = [t EXCEPT !.call = NextId(c), !.ids = @ + 1]
  OBVIOUS
<1>3. Sound(t) /\ t \in Turn /\ t.live
  BY <1>1, TurnSound DEF Dispatch, MayAsk, Working, Sound
<1>4. PICK i \in Nat : i = t.ids + 1 /\ NextId(c) = i
  BY <1>1, <1>3 DEF NextId, Turn
<1>5. /\ t2 \in Turn /\ t2.open = t.open /\ t2.ids = i /\ t2.turn = t.turn /\ t2.run = t.run
      /\ t2.live = t.live /\ t2.exec = t.exec /\ t2.held = t.held /\ t2.kind = t.kind
  BY <1>2, <1>3, <1>4 DEF Turn
<1>6. Sound(t2)
  <2>1. t.open \cup t.held \subseteq 1..t.ids /\ t.ids \in Nat
    BY <1>3 DEF Sound, Turn
  <2>2. t.open \cup t.held \subseteq 1..i /\ t2.call <= i
    BY <1>2, <1>3, <1>4, <2>1 DEF Turn
  <2>3. (t.live => t.turn > 0) /\ (t.exec => t.live)
    BY <1>3 DEF Sound
  <2>4. QED
    BY ONLY <1>3, <1>5, <2>2, <2>3 DEF Sound
<1>7. Commits(c, t2, {}) /\ GoesOnFrom(t, t2)
  BY <1>1, <1>2, <1>5 DEF Dispatch, GoesOnFrom
<1>8. QED
  BY <1>1, <1>5, <1>6, <1>7, QuietCommit

LEMMA ReturnKeeps ==
  ASSUME ReceiptsInv, NEW c \in Children, NEW input \in BOOLEAN, Return(c, input)
  PROVE  ReceiptsInv' /\ TellsOf(c)
<1>1. PICK t : t = child[c]
  OBVIOUS
<1>2. Sound(t) /\ t \in Turn /\ t.live /\ t.call # 0
  BY <1>1, TurnSound DEF Return, Working, Sound
<1>3. PICK h : h = IF input THEN t.held \cup {t.call} ELSE t.held
  OBVIOUS
<1>4. PICK t2 : t2 = [t EXCEPT !.call = 0, !.held = h]
  OBVIOUS
<1>5. Commits(c, t2, {})
  BY <1>1, <1>3, <1>4 DEF Return
<1>6. h \subseteq 1..t.ids /\ h \in SUBSET Nat
  <2>1. t.held \subseteq 1..t.ids /\ t.call \in 1..t.ids
    BY <1>2 DEF Sound, Turn
  <2>2. QED
    BY <1>3, <2>1
<1>7. /\ t2 \in Turn /\ t2.open = t.open /\ t2.ids = t.ids /\ t2.turn = t.turn /\ t2.run = t.run
      /\ t2.live = t.live /\ t2.exec = t.exec /\ t2.held = h /\ t2.kind = t.kind
  BY <1>2, <1>4, <1>6 DEF Turn
<1>8. Sound(t2) /\ GoesOnFrom(t, t2)
  <2>1. t.open \subseteq 1..t.ids /\ t.turn > 0 /\ 0 <= t.ids
    BY <1>2 DEF Sound, Turn
  <2>2. t2.call = 0
    BY <1>2, <1>4 DEF Turn
  <2>3. t.open \cup h \subseteq 1..t.ids
    BY <1>6, <2>1
  <2>4. Sound(t2)
    BY ONLY <1>2, <1>7, <2>1, <2>2, <2>3 DEF Sound
  <2>5. QED
    BY <1>2, <1>7, <2>4 DEF GoesOnFrom
<1>9. QED
  BY <1>1, <1>5, <1>7, <1>8, QuietCommit

\* The waiting marker publishes what its run held back.
LEMMA WaitKeeps ==
  ASSUME ReceiptsInv, NEW c \in Children, Wait(c)
  PROVE  ReceiptsInv' /\ TellsOf(c)
<1>1. PICK t : t = child[c]
  OBVIOUS
<1>2. Sound(t) /\ t \in Turn /\ t.live /\ t.call = 0
  BY <1>1, TurnSound DEF Wait, Working, Sound
<1>3. PICK n \in Nat : n = t.ids /\ t.open \cup t.held \subseteq 1..n
  BY <1>2 DEF Sound, Turn
<1>4. PICK t2 : t2 = [t EXCEPT !.open = @ \cup t.held, !.held = {}, !.exec = FALSE]
  OBVIOUS
<1>5. Commits(c, t2, Interactions(c, t.held))
  BY <1>1, <1>4 DEF Wait
<1>6. /\ t2 \in Turn /\ t2.open = t.open \cup t.held /\ t2.held = {} /\ ~t2.exec
      /\ t2.ids = t.ids /\ t2.turn = t.turn /\ t2.run = t.run /\ t2.live = t.live
      /\ t2.kind = t.kind /\ t2.call = t.call
  BY <1>2, <1>4 DEF Turn
<1>7. Sound(t2) /\ GoesOnFrom(t, t2)
  <2>1. t.call <= t.ids /\ t.turn > 0
    BY <1>2 DEF Sound
  <2>2. t2.open \cup t2.held \subseteq 1..t2.ids
    BY <1>3, <1>6
  <2>3. Sound(t2)
    BY ONLY <1>2, <1>6, <2>1, <2>2 DEF Sound
  <2>4. QED
    BY <1>2, <1>6, <2>3 DEF GoesOnFrom
<1>8. /\ Events(c, Interactions(c, t.held))
      /\ \A e \in Interactions(c, t.held) : e.kind = "interaction" /\ e.id \in t.held
      /\ \A j \in t.held :
           \E e \in Interactions(c, t.held) : e.kind = "interaction" /\ e.id = j
  <2>1. t.held \subseteq 1..n
    BY <1>3
  <2>2. QED
    BY <2>1, QuestionEvents
<1>9. \A e \in Interactions(c, t.held) : ReceiptOf(e, t2)
  <2>1. \A e \in Interactions(c, t.held) : e.turn = t2.turn /\ e.kind = "interaction"
    BY <1>1, <1>6, <1>8 DEF Events
  <2>2. t2.turn \in Nat
    BY <1>6 DEF Turn
  <2>3. QED
    BY <2>1, <2>2 DEF ReceiptOf
<1>10. \A j \in t2.open :
         \/ j \in child[c].open
         \/ \E e \in Interactions(c, t.held) : e.kind = "interaction" /\ e.id = j
  BY <1>1, <1>6, <1>8
<1>11. QED
  BY <1>1, <1>2, <1>5, <1>6, <1>7, <1>8, <1>9, <1>10, CommitsKeep

LEMMA ContinueKeeps ==
  ASSUME ReceiptsInv, NEW c \in Children, Continue(c)
  PROVE  ReceiptsInv' /\ TellsOf(c)
<1>1. PICK t : t = child[c]
  OBVIOUS
<1>2. Sound(t) /\ t \in Turn /\ t.live
  BY <1>1, TurnSound DEF Continue
<1>3. PICK n \in Nat : n = t.run + 1
  BY <1>2 DEF Turn
<1>4. PICK t2 : t2 = [t EXCEPT !.run = n, !.exec = TRUE, !.held = {}]
  OBVIOUS
<1>5. Commits(c, t2, {})
  BY <1>1, <1>3, <1>4 DEF Continue
<1>6. /\ t2 \in Turn /\ t2.open = t.open /\ t2.held = {} /\ t2.ids = t.ids /\ t2.turn = t.turn
      /\ t2.live = t.live /\ t2.kind = t.kind /\ t2.call = t.call
  BY <1>2, <1>4 DEF Turn
<1>7. Sound(t2) /\ GoesOnFrom(t, t2)
  <2>1. t.call <= t.ids /\ t.turn > 0 /\ t.open \subseteq 1..t.ids
    BY <1>2 DEF Sound
  <2>2. t2.open \cup t2.held \subseteq 1..t2.ids
    BY <1>6, <2>1
  <2>3. Sound(t2)
    BY ONLY <1>2, <1>6, <2>1, <2>2 DEF Sound
  <2>4. QED
    BY <1>2, <1>6, <2>3 DEF GoesOnFrom
<1>8. QED
  BY <1>1, <1>5, <1>6, <1>7, QuietCommit

LEMMA EndKeeps ==
  ASSUME ReceiptsInv, NEW c \in Children, NEW outcome, End(c, outcome)
  PROVE  ReceiptsInv' /\ TellsOf(c)
<1>1. PICK t : t = child[c]
  OBVIOUS
<1>2. Sound(t) /\ t \in Turn /\ t.live
  BY <1>1, TurnSound DEF End
<1>3. PICK t2 : t2 = [t EXCEPT !.live = FALSE, !.exec = FALSE, !.open = {}, !.held = {}, !.call = 0]
  OBVIOUS
<1>4. PICK e : e = Of(c, "terminal", t.turn)
  OBVIOUS
<1>5. Commits(c, t2, {e})
  BY <1>1, <1>3, <1>4 DEF End
<1>6. /\ t2 \in Turn /\ t2.open = {} /\ t2.held = {} /\ ~t2.exec /\ ~t2.live /\ t2.call = 0
      /\ t2.ids = t.ids /\ t2.turn = t.turn /\ t2.run = t.run
  BY <1>2, <1>3 DEF Turn
<1>7. Sound(t2) /\ GoesOnFrom(t, t2)
  <2>1. 0 <= t2.ids /\ t2.open \cup t2.held \subseteq 1..t2.ids
    BY <1>6 DEF Turn
  <2>2. QED
    BY <1>2, <1>6, <2>1 DEF Sound, GoesOnFrom
<1>8. /\ e \in Receipt /\ e.child = c /\ e.turn = t.turn /\ e.run = t.run
      /\ e.kind = "terminal" /\ e.id = t.turn
  <2>1. t.turn \in Nat
    BY <1>2 DEF Turn
  <2>2. QED
    BY <1>1, <1>4, <2>1, EventIs
<1>9. Events(c, {e})
  BY <1>1, <1>8, FS_Singleton DEF Events
<1>10. ReceiptOf(e, t2)
  <2>1. t.turn \in Nat
    BY <1>2 DEF Turn
  <2>2. QED
    BY <1>6, <1>8, <2>1 DEF ReceiptOf
<1>11. t2.open = {} /\ \A j \in t2.open : j \in child[c].open
  BY <1>6
<1>12. QED
  BY <1>1, <1>2, <1>5, <1>7, <1>9, <1>10, <1>11, CommitsKeep

-----------------------------------------------------------------------------
(* Receipts outside the transactions of a turn.                             *)

LEMMA SameChild ==
  ASSUME ReceiptsInv, NEW c \in Children, UNCHANGED child
  PROVE  child' = [child EXCEPT ![c] = child[c]] /\ GoesOnFrom(child[c], child[c])
  BY DEF ReceiptsInv, ChildrenSound, GoesOnFrom

\* Receipts of a live turn that tell of no end.
LEMMA JoiningKeeps ==
  ASSUME ReceiptsInv, NEW c \in Children, NEW E, Untold(c, E), Joins(E), child[c].live,
         \A e \in E : e.kind # "terminal", UNCHANGED <<child, covered, enabled>>,
         Disturbs(Children)
  PROVE  ReceiptsInv' /\ TellsOf(c)
<1>1. child' = [child EXCEPT ![c] = child[c]] /\ GoesOnFrom(child[c], child[c])
  BY SameChild
<1>2. Sound(child[c]) /\ child[c] \in Turn
  BY TurnSound
<1>3. \A e \in E : ReceiptOf(e, child[c])
  <2>1. child[c].turn \in Nat
    BY <1>2 DEF Turn
  <2>2. QED
    BY <2>1 DEF Untold, ReceiptOf
<1>4. CoreInv'
  BY <1>1, <1>2, <1>3, CoreKept
<1>5. /\ pass' \in [Children -> {"todo", "scanned", "done"}]
      /\ \A d \in Children : /\ pass'[d] # "todo" => pass[d] # "todo"
                             /\ pass'[d] = "done" => pass[d] = "done"
  BY DisturbsOnly DEF ReceiptsInv
<1>6. NothingMissed /\ NothingMissed'
  <2>1. NothingMissed
    BY DEF ReceiptsInv
  <2>2. \A d, i : Heard(d, i) => Heard(d, i)'
    BY HeardStays DEF ReceiptsInv
  <2>3. \A d \in Children : Missing(d) = {} => Missing(d)' = {}
    BY <2>2, MissingUnheard, MissingLater
  <2>4. QED
    BY <1>5, <2>1, <2>3 DEF NothingMissed, Missing, Known, SameSource, Of
<1>7. QED
  BY <1>4, <1>6 DEF ReceiptsInv, CoreInv, TellsOf

LEMMA ReportKeeps ==
  ASSUME ReceiptsInv, NEW c \in Children, Report(c)
  PROVE  ReceiptsInv' /\ TellsOf(c)
<1>1. child[c].call \in Nat
  BY TurnSound DEF Turn
<1>2. PICK e : e = Of(c, "report", child[c].call)
  OBVIOUS
<1>3. /\ e \in Receipt /\ e.child = c /\ e.turn = child[c].turn /\ e.run = child[c].run
      /\ e.kind = "report"
  BY <1>1, <1>2, EventIs
<1>4. ~Known(e) /\ receipts' = Append(receipts, e)
  BY <1>2 DEF Report
<1>5. Untold(c, {e})
  BY <1>3, <1>4 DEF Untold
<1>6. Joins({e})
  BY <1>3, <1>4, OneJoins DEF ReceiptsInv
<1>7. child[c].live /\ \A f \in {e} : f.kind # "terminal"
  BY <1>3 DEF Report
<1>8. UNCHANGED <<child, covered, enabled>> /\ Disturbs(Children)
  BY DEF Report
<1>9. QED
  BY <1>5, <1>6, <1>7, <1>8, JoiningKeeps

\* What the pass publishes is of a turn that is not over.
LEMMA RecoverKeeps ==
  ASSUME ReceiptsInv, NEW c \in Children, RecoverReceipts(c)
  PROVE  ReceiptsInv' /\ TellsOf(c)
<1>1. Sound(child[c]) /\ child[c] \in Turn
  BY TurnSound
<1>2. PICK ids : ids = Missing(c)
  OBVIOUS
<1>3. PICK n \in Nat : n = child[c].ids
  BY <1>1 DEF Turn
<1>4. ids \subseteq child[c].open /\ ids \subseteq 1..n /\ ids # {}
  BY <1>1, <1>2, <1>3 DEF Missing, Sound, RecoverReceipts
<1>5. /\ Events(c, Interactions(c, ids))
      /\ \A e \in Interactions(c, ids) : e.kind = "interaction" /\ e.id \in ids
  BY <1>4, QuestionEvents
<1>6. \A e \in Interactions(c, ids) : ~Known(e)
  <2>1. \A i \in ids : ~Known(Of(c, "interaction", i))
    BY <1>2 DEF Missing
  <2>2. QED
    BY <2>1 DEF Interactions
<1>7. Untold(c, Interactions(c, ids))
  BY <1>5, <1>6 DEF Untold, Events
<1>8. Joins(Interactions(c, ids))
  <2>1. receipts' = receipts \o InOrder(Interactions(c, ids))
    BY <1>2 DEF RecoverReceipts
  <2>2. QED
    BY <1>5, <2>1, OrderedJoin DEF Events, ReceiptsInv
<1>9. child[c].live
  BY <1>1, <1>4 DEF Sound
<1>10. UNCHANGED <<child, covered, enabled>> /\ Disturbs(Children)
  BY DEF RecoverReceipts
<1>11. QED
  BY <1>5, <1>7, <1>8, <1>9, <1>10, JoiningKeeps

\* Neither a turn nor a receipt.
LEMMA StillKeeps ==
  ASSUME ReceiptsInv, UNCHANGED <<child, receipts>>, NothingMissed'
  PROVE  ReceiptsInv'
<1>1. ReceiptsTyped' /\ ChildrenSound'
  BY DEF ReceiptsInv, ReceiptsTyped, ChildrenSound
<1>2. ReceiptsFit' /\ Distinct' /\ NothingAfterEnd'
  BY DEF ReceiptsInv, ReceiptsFit, ReceiptOf, Distinct, SameSource, NothingAfterEnd
<1>3. QED
  BY <1>1, <1>2 DEF ReceiptsInv

LEMMA StillMissing ==
  ASSUME UNCHANGED <<child, receipts>>, NEW c
  PROVE  Missing(c)' = Missing(c)
  BY DEF Missing, Known, SameSource, Of

LEMMA PassKeeps ==
  ASSUME ReceiptsInv, NEW c \in Children, Scan(c) \/ RecordCoverage(c)
  PROVE  ReceiptsInv' /\ UNCHANGED receipts
<1>1. UNCHANGED <<child, receipts, enabled>>
  BY DEF Scan, RecordCoverage
<1>2. NothingMissed
  BY DEF ReceiptsInv
<1>3. \A d \in Children : Missing(d)' = Missing(d)
  BY <1>1, StillMissing
<1>4. CASE Scan(c)
  <2>1. /\ covered' = covered /\ enabled
        /\ pass' = [pass EXCEPT ![c] = IF covered[c] THEN "done" ELSE "scanned"]
    BY <1>4 DEF Scan
  <2>2. NothingMissed'
    BY <1>1, <1>2, <1>3, <2>1 DEF NothingMissed
  <2>3. QED
    BY <1>1, <2>2, StillKeeps
<1>5. CASE RecordCoverage(c)
  <2>1. /\ pass[c] = "scanned" /\ Missing(c) = {}
        /\ covered' = [covered EXCEPT ![c] = TRUE] /\ pass' = [pass EXCEPT ![c] = "done"]
    BY <1>5 DEF RecordCoverage
  <2>2. NothingMissed'
    BY <1>1, <1>2, <1>3, <2>1 DEF NothingMissed
  <2>3. QED
    BY <1>1, <2>2, StillKeeps
<1>6. QED
  BY <1>4, <1>5

LEMMA ParentKeeps ==
  ASSUME ReceiptsInv, ParentStep
  PROVE  ReceiptsInv' /\ UNCHANGED <<child, receipts>>
<1>1. UNCHANGED <<child, covered, receipts, enabled>> /\ (Disturbs(Children) \/ UNCHANGED pass)
  BY DEF ParentStep, ParentStart, ParentResumes, ParentRetry, Admit, Respond, ToolReturns,
     ParentStops, ParentWrites
<1>2. NothingMissed
  BY DEF ReceiptsInv
<1>3. /\ pass' \in [Children -> {"todo", "scanned", "done"}]
      /\ \A d \in Children : /\ pass'[d] # "todo" => pass[d] # "todo"
                             /\ pass'[d] = "done" => pass[d] = "done"
  <2>1. CASE Disturbs(Children)
    BY <1>2, <2>1, DisturbsOnly
  <2>2. CASE UNCHANGED pass
    BY <1>2, <2>2 DEF NothingMissed
  <2>3. QED
    BY <1>1, <2>1, <2>2
<1>4. \A d \in Children : Missing(d)' = Missing(d)
  BY <1>1, StillMissing
<1>5. NothingMissed'
  BY <1>1, <1>2, <1>3, <1>4 DEF NothingMissed
<1>6. QED
  BY <1>1, <1>5, StillKeeps

\* The next process prepares every child again.
LEMMA RestartKeeps ==
  ASSUME ReceiptsInv, Restart
  PROVE  /\ ReceiptsInv' /\ UNCHANGED receipts
         /\ \A c \in Children : /\ child'[c].turn = child[c].turn /\ child'[c].run = child[c].run
                                /\ child'[c].live = child[c].live
<1>1. child \in [Children -> Turn] /\ \A c \in Children : Sound(child[c])
  BY DEF ReceiptsInv, ChildrenSound
<1>2. /\ receipts' = receipts /\ covered' = covered /\ enabled' \in BOOLEAN
      /\ pass' = [c \in Children |-> "todo"]
      /\ child' = [c \in Children |-> [child[c] EXCEPT !.exec = FALSE]]
  BY DEF Restart
<1>3. ASSUME NEW c \in Children
      PROVE  /\ child'[c] \in Turn /\ ~child'[c].exec /\ child'[c].open = child[c].open
             /\ child'[c].held = child[c].held /\ child'[c].ids = child[c].ids
             /\ child'[c].turn = child[c].turn /\ child'[c].run = child[c].run
             /\ child'[c].live = child[c].live /\ child'[c].call = child[c].call
             /\ child'[c].kind = child[c].kind
  <2>1. PICK t \in Turn : t = child[c]
    BY <1>1
  <2>2. child'[c] = [t EXCEPT !.exec = FALSE]
    BY <1>2, <2>1
  <2>3. [t EXCEPT !.exec = FALSE] \in Turn
    BY ONLY t \in Turn DEF Turn
  <2>4. /\ ~[t EXCEPT !.exec = FALSE].exec /\ [t EXCEPT !.exec = FALSE].open = t.open
        /\ [t EXCEPT !.exec = FALSE].held = t.held /\ [t EXCEPT !.exec = FALSE].ids = t.ids
        /\ [t EXCEPT !.exec = FALSE].turn = t.turn /\ [t EXCEPT !.exec = FALSE].run = t.run
        /\ [t EXCEPT !.exec = FALSE].live = t.live /\ [t EXCEPT !.exec = FALSE].call = t.call
        /\ [t EXCEPT !.exec = FALSE].kind = t.kind
    BY ONLY t \in Turn DEF Turn
  <2>5. QED
    BY ONLY <2>1, <2>2, <2>3, <2>4
<1>4. ChildrenSound'
  <2>1. child' \in [Children -> Turn]
    BY <1>2, <1>3
  <2>2. \A c \in Children : Sound(child'[c])
    <3>1. SUFFICES ASSUME NEW c \in Children
                   PROVE  Sound(child'[c])
      OBVIOUS
    <3>2. PICK t : t = child[c] /\ Sound(t)
      BY <1>1
    <3>3. QED
      BY ONLY <1>3, <3>1, <3>2 DEF Sound
  <2>3. QED
    BY <2>1, <2>2 DEF ChildrenSound, Sound
<1>5. ReceiptsTyped' /\ Distinct' /\ NothingAfterEnd'
  BY <1>2 DEF ReceiptsInv, ReceiptsTyped, Distinct, SameSource, NothingAfterEnd
<1>6. ReceiptsFit'
  <2>1. ASSUME NEW k \in 1..Len(receipts)
        PROVE  ReceiptOf(receipts[k], child'[receipts[k].child])
    <3>1. receipts[k] \in Receipt
      BY DEF ReceiptsInv, ReceiptsTyped
    <3>2. receipts[k].child \in Children
      BY ONLY <3>1 DEF Receipt
    <3>3. ReceiptOf(receipts[k], child[receipts[k].child])
      BY DEF ReceiptsInv, ReceiptsFit
    <3>4. QED
      BY ONLY <1>3, <3>2, <3>3 DEF ReceiptOf
  <2>2. QED
    BY <1>2, <2>1 DEF ReceiptsFit, ReceiptOf
<1>7. NothingMissed'
  <2>1. \A d, i : Heard(d, i)' <=> Heard(d, i)
    BY <1>2 DEF Heard
  <2>2. \A d \in Children : Missing(d)' = Missing(d)
    BY <1>3, <2>1, MissingUnheard, MissingLater
  <2>3. QED
    BY <1>2, <2>2 DEF ReceiptsInv, NothingMissed
<1>8. QED
  BY <1>2, <1>3, <1>4, <1>5, <1>6, <1>7 DEF ReceiptsInv

LEMMA InitReceipts == Init => ReceiptsInv
<1> SUFFICES ASSUME Init PROVE ReceiptsInv
  OBVIOUS
<1>1. NoTurn \in Turn /\ Sound(NoTurn)
  BY DEF NoTurn, Turn, Sound
<1>2. ChildrenSound
  BY <1>1 DEF Init, ChildrenSound
<1>3. Len(receipts) = 0 /\ receipts \in Seq(Receipt)
  BY DEF Init
<1>4. ReceiptsFit /\ Distinct /\ NothingAfterEnd
  BY <1>3 DEF ReceiptsFit, Distinct, NothingAfterEnd
<1>5. \A c \in Children : Missing(c) = {}
  BY DEF Init, Missing, NoTurn
<1>6. NothingMissed
  BY <1>5 DEF Init, NothingMissed
<1>7. QED
  BY <1>2, <1>3, <1>4, <1>6 DEF ReceiptsInv, ReceiptsTyped

LEMMA ChildStepKeeps ==
  ASSUME ReceiptsInv, NEW c \in Children, ChildStep(c)
  PROVE  ReceiptsInv' /\ TellsOf(c)
  BY StartKeeps, WriteKeeps, AskKeeps, AnswerKeeps, DispatchKeeps, ReturnKeeps, WaitKeeps,
     ContinueKeeps, EndKeeps, ReportKeeps DEF ChildStep

LEMMA PassStepKeeps ==
  ASSUME ReceiptsInv, NEW c \in Children, PassStep(c)
  PROVE  ReceiptsInv' /\ (UNCHANGED receipts \/ TellsOf(c))
  BY RecoverKeeps, PassKeeps DEF PassStep

LEMMA ReceiptsStep ==
  ASSUME ReceiptsInv, [Next]_vars
  PROVE  ReceiptsInv'
<1>1. CASE UNCHANGED vars
  <2>1. UNCHANGED <<child, receipts, covered, enabled, pass>>
    BY <1>1 DEF vars
  <2>2. \A c \in Children : Missing(c)' = Missing(c)
    BY <2>1, StillMissing
  <2>3. NothingMissed'
    BY <2>1, <2>2 DEF ReceiptsInv, NothingMissed
  <2>4. QED
    BY <2>1, <2>3, StillKeeps
<1>2. CASE \E c \in Children : ChildStep(c) \/ PassStep(c)
  BY <1>2, ChildStepKeeps, PassStepKeeps
<1>3. CASE ParentStep \/ Restart
  BY <1>3, ParentKeeps, RestartKeeps
<1>4. QED
  BY <1>1, <1>2, <1>3 DEF Next

LEMMA Faithful == ReceiptsInv => ReceiptsFaithful
<1> SUFFICES ASSUME ReceiptsInv PROVE ReceiptsFaithful
  OBVIOUS
<1>1. \A c \in Children : enabled /\ (covered[c] \/ pass[c] = "done") => Missing(c) = {}
  BY DEF ReceiptsInv, NothingMissed
<1>2. QED
  BY <1>1 DEF ReceiptsFaithful, SourcesReported, ReceiptsInv, Distinct

-----------------------------------------------------------------------------
(* What the parent's requests carry.                                        *)

Execution ==
  [phase : {"new", "idle", "paused", "boundary", "request", "tool"},
   told : Seq(Nat \X Nat), source : Nat, own : Nat, saved : SUBSET Nat,
   retry : BOOLEAN, again : BOOLEAN, skip : Nat, requests : Nat]

\* Ranges of receipts, one behind the other and all before the position first.
Rising(s, first) ==
  /\ s \in Seq(Nat \X Nat)
  /\ \A i \in 1..Len(s) : s[i][1] <= s[i][2] /\ s[i][2] < first
  /\ \A i, j \in 1..Len(s) : i < j => s[i][2] < s[j][1]

AdmittedInOrder ==
  /\ admitted \in Seq(Nat \X Nat) /\ Len(receipts) \in Nat
  /\ \A i \in 1..Len(admitted) :
       /\ admitted[i][1] = (IF i = 1 THEN 1 ELSE admitted[i-1][2] + 1)
       /\ admitted[i][2] \in admitted[i][1]..Len(receipts)

\* A retry goes back into what has been told, and only one that was itself
\* retried leaves out a part of it.
Places(p) ==
  /\ p.source + p.own <= Len(p.told)
  /\ p.saved \subseteq 0..Len(p.told)
  /\ p.phase \in {"new", "idle"} => p.skip = 0 /\ p.saved = {}
  /\ p.phase = "idle" /\ ~p.retry => p.source + p.own = Len(p.told)
  /\ p.skip > 0 => p.source + p.own <= p.skip /\ p.skip <= Len(p.told)

ToldInv ==
  /\ parent \in Execution /\ AdmittedInOrder
  /\ Rising(parent.told, FirstPending) /\ Places(parent)
  /\ ~parent.again => parent.told = admitted

LEMMA PendingBounds ==
  ASSUME AdmittedInOrder
  PROVE  FirstPending \in Nat /\ 1 <= FirstPending /\ FirstPending <= Len(receipts) + 1
<1>1. CASE admitted = <<>>
  BY <1>1 DEF FirstPending, AdmittedInOrder
<1>2. CASE admitted # <<>>
  <2>1. PICK n : n = Len(admitted)
    OBVIOUS
  <2>2. n \in 1..Len(admitted)
    BY <1>2, <2>1 DEF AdmittedInOrder
  <2>3. admitted[n] \in Nat \X Nat
    BY <2>2 DEF AdmittedInOrder
  <2>4. admitted[n][1] \in Nat /\ admitted[n][2] \in Nat
    BY ONLY <2>3
  <2>5. admitted[n][2] \in admitted[n][1]..Len(receipts)
    BY <2>2 DEF AdmittedInOrder
  <2>6. FirstPending = admitted[n][2] + 1
    BY <1>2, <2>1 DEF FirstPending
  <2>7. Len(receipts) \in Nat
    BY DEF AdmittedInOrder
  <2>8. QED
    BY ONLY <2>4, <2>5, <2>6, <2>7
<1>3. QED
  BY <1>1, <1>2

\* What is pending comes behind everything told.
LEMMA RisingOn ==
  ASSUME NEW s, NEW first \in Nat, NEW last \in Nat, first <= last, Rising(s, first)
  PROVE  Rising(Append(s, <<first, last>>), last + 1)
<1>1. PICK n \in Nat : n = Len(s)
  BY DEF Rising
<1>2. PICK t : t = Append(s, <<first, last>>)
  OBVIOUS
<1>3. /\ t \in Seq(Nat \X Nat) /\ Len(t) = n + 1
      /\ \A i \in 1..n : t[i] = s[i] /\ s[i] \in Nat \X Nat
      /\ t[n + 1] = <<first, last>>
  BY <1>1, <1>2 DEF Rising
<1>4. \A i \in 1..n : /\ t[i][1] \in Nat /\ t[i][2] \in Nat
                      /\ t[i][1] <= t[i][2] /\ t[i][2] < first
  BY <1>1, <1>3 DEF Rising
<1>5. \A i, j \in 1..n : i < j => t[i][2] < t[j][1]
  BY <1>1, <1>3 DEF Rising
<1>6. t[n + 1][1] = first /\ t[n + 1][2] = last
  BY <1>3
<1>7. \A i \in 1..(n + 1) : t[i][1] <= t[i][2] /\ t[i][2] < last + 1
  BY ONLY <1>4, <1>6, n \in Nat, first \in Nat, last \in Nat, first <= last
<1>8. \A i, j \in 1..(n + 1) : i < j => t[i][2] < t[j][1]
  BY ONLY <1>4, <1>5, <1>6, n \in Nat, first \in Nat, last \in Nat
<1>9. Rising(t, last + 1)
  BY ONLY <1>3, <1>7, <1>8 DEF Rising
<1>10. QED
  BY <1>2, <1>9

LEMMA RisingPrefix ==
  ASSUME NEW s, NEW first, Rising(s, first), NEW n \in 0..Len(s)
  PROVE  Rising(SubSeq(s, 1, n), first) /\ Len(SubSeq(s, 1, n)) = n
<1>1. PICK m \in Nat : m = Len(s)
  BY DEF Rising
<1>2. PICK t : t = SubSeq(s, 1, n)
  OBVIOUS
<1>3. /\ t \in Seq(Nat \X Nat) /\ Len(t) = n /\ n \in Nat /\ n <= m
      /\ \A i \in 1..n : t[i] = s[i]
  BY <1>1, <1>2 DEF Rising
<1>4. \A i \in 1..n : s[i][1] <= s[i][2] /\ s[i][2] < first
  BY <1>1, <1>3 DEF Rising
<1>5. \A i, j \in 1..n : i < j => s[i][2] < s[j][1]
  <2>1. \A i \in 1..n : i \in 1..m
    BY ONLY <1>3, m \in Nat
  <2>2. \A i, j \in 1..m : i < j => s[i][2] < s[j][1]
    BY <1>1 DEF Rising
  <2>3. QED
    BY ONLY <2>1, <2>2
<1>6. Rising(t, first)
  BY ONLY <1>3, <1>4, <1>5 DEF Rising
<1>7. QED
  BY <1>2, <1>3, <1>6

\* An execution that began again lacks a part of what was told, and nothing of
\* the rest changes its order.
LEMMA ContextRises ==
  ASSUME ToldInv
  PROVE  \A i, j \in 1..Len(Context) : i < j => Context[i][2] < Context[j][1]
<1>1. PICK t : t = parent.told
  OBVIOUS
<1>2. PICK m \in Nat : m = Len(t)
  BY <1>1 DEF ToldInv, Rising
<1>3. /\ t \in Seq(Nat \X Nat)
      /\ \A i, j \in 1..m : i < j => t[i][2] < t[j][1]
  BY <1>1, <1>2 DEF ToldInv, Rising
<1>4. CASE parent.skip = 0
  <2>1. Context = t
    BY <1>1, <1>4 DEF Context
  <2>2. QED
    BY <1>2, <1>3, <2>1
<1>5. CASE parent.skip # 0
  <2>1. parent.skip \in Nat /\ parent.source \in Nat /\ parent.own \in Nat
    BY DEF ToldInv, Execution
  <2>2. PICK a, b : a = parent.source + parent.own /\ b = parent.skip
    OBVIOUS
  <2>3. a \in Nat /\ b \in Nat /\ a <= b /\ b <= m
    BY <1>1, <1>2, <1>5, <2>1, <2>2 DEF ToldInv, Places
  <2>4. PICK u, v : u = SubSeq(t, 1, a) /\ v = SubSeq(t, b + 1, m)
    OBVIOUS
  <2>5. /\ u \in Seq(Nat \X Nat) /\ Len(u) = a
        /\ \A i \in 1..a : u[i] = t[i]
    BY <1>2, <1>3, <2>3, <2>4
  <2>6. /\ v \in Seq(Nat \X Nat) /\ Len(v) = m - b
        /\ \A i \in 1..(m - b) : v[i] = t[b + i]
    BY <1>2, <1>3, <2>3, <2>4
  <2>7. Context = u \o v
    BY <1>1, <1>2, <1>5, <2>2, <2>4 DEF Context, Retained
  <2>8. PICK w : w = u \o v
    OBVIOUS
  <2>9. /\ Len(w) = a + (m - b)
        /\ \A i \in 1..Len(w) : w[i] = IF i <= a THEN t[i] ELSE t[b + (i - a)]
    <3>0. u \in Seq(Nat \X Nat) /\ v \in Seq(Nat \X Nat)
      BY ONLY <2>5, <2>6
    <3>1. /\ Len(w) = Len(u) + Len(v)
          /\ \A i \in 1..Len(w) : w[i] = IF i <= Len(u) THEN u[i] ELSE v[i - Len(u)]
      BY ONLY <2>8, <3>0
    <3>2. \A i \in 1..(a + (m - b)) : i <= a => i \in 1..a
      BY ONLY <2>3, m \in Nat
    <3>3. \A i \in 1..(a + (m - b)) : ~(i <= a) => i - a \in 1..(m - b)
      BY ONLY <2>3, m \in Nat
    <3>4. QED
      BY ONLY <2>5, <2>6, <3>1, <3>2, <3>3
  <2>10. ASSUME NEW i \in 1..Len(w), NEW j \in 1..Len(w), i < j
         PROVE  w[i][2] < w[j][1]
    <3>1. PICK x, y : /\ x = (IF i <= a THEN i ELSE b + (i - a))
                      /\ y = (IF j <= a THEN j ELSE b + (j - a))
      OBVIOUS
    <3>2. x \in 1..m /\ y \in 1..m /\ x < y
      BY ONLY <2>3, <2>9, <2>10, <3>1, m \in Nat
    <3>3. w[i] = t[x] /\ w[j] = t[y]
      BY <2>9, <3>1
    <3>4. QED
      BY <1>3, <3>2, <3>3
  <2>11. QED
    BY <2>7, <2>8, <2>10
<1>6. QED
  BY <1>4, <1>5

\* The promise follows.
LEMMA ToldHolds == ToldInv => ToldOnce
<1> SUFFICES ASSUME ToldInv, parent.phase = "request"
             PROVE  \/ Context = admitted
                    \/ /\ parent.again \/ parent.skip > 0
                       /\ \A i, j \in 1..Len(Context) : i < j => Context[i][2] < Context[j][1]
  BY DEF ToldOnce, ToldInv, AdmittedInOrder
<1>1. parent.skip \in Nat
  BY DEF ToldInv, Execution
<1>2. CASE parent.again \/ parent.skip > 0
  BY <1>2, ContextRises
<1>3. CASE ~parent.again /\ parent.skip = 0
  BY <1>3 DEF ToldInv, Context
<1>4. QED
  BY <1>1, <1>2, <1>3

\* A turn of the parent ends with no less told than it began with.
LEMMA EndsInPlace ==
  ASSUME parent \in Execution, Places(parent), NEW failed \in BOOLEAN,
         NEW told \in Seq(Nat \X Nat), Len(parent.told) <= Len(told), ParentEnds(failed, told)
  PROVE  /\ parent' \in Execution /\ Places(parent')
         /\ parent'.told = told /\ parent'.again = parent.again
<1>1. PICK ended : ended = [parent EXCEPT !.phase = "idle", !.told = told, !.saved = {}, !.skip = 0]
  OBVIOUS
<1>2. /\ ended \in Execution
      /\ ended.phase = "idle" /\ ended.told = told /\ ended.saved = {} /\ ended.skip = 0
      /\ ended.source = parent.source /\ ended.own = parent.own
      /\ ended.retry = parent.retry /\ ended.again = parent.again
  <2>1. [parent EXCEPT !.phase = "idle", !.told = told, !.saved = {}, !.skip = 0] \in Execution
    BY ONLY parent \in Execution, told \in Seq(Nat \X Nat) DEF Execution
  <2>2. QED
    BY <1>1, <2>1 DEF Execution
<1>3. PICK m, n \in Nat : m = Len(parent.told) /\ n = Len(told) /\ m <= n
  BY DEF Execution
<1>4. /\ parent.source \in Nat /\ parent.own \in Nat
      /\ parent.source + parent.own <= m /\ parent.saved \subseteq 0..m
  BY <1>3 DEF Execution, Places
<1>5. CASE failed /\ parent.saved # {}
  <2>1. PICK at : at = (CHOOSE k \in parent.saved : TRUE)
    OBVIOUS
  <2>2. at \in 0..m
    <3>1. at \in parent.saved
      BY <1>5, <2>1
    <3>2. QED
      BY <1>4, <3>1
  <2>3. parent' = [ended EXCEPT !.source = at, !.own = n - at, !.retry = FALSE]
    BY <1>1, <1>3, <1>5, <2>1 DEF ParentEnds
  <2>4. PICK own : own = n - at /\ own \in Nat /\ at + own = n /\ at \in Nat
    BY <1>3, <2>2
  <2>5. [ended EXCEPT !.source = at, !.own = own, !.retry = FALSE] \in Execution
    BY ONLY <1>2, <2>4 DEF Execution
  <2>6. /\ parent' \in Execution
        /\ parent'.phase = "idle" /\ parent'.told = told /\ parent'.saved = {}
        /\ parent'.skip = 0 /\ parent'.source = at /\ parent'.own = own
        /\ parent'.retry = FALSE /\ parent'.again = parent.again
    BY <1>2, <2>3, <2>4, <2>5 DEF Execution
  <2>7. Places(parent')
    BY ONLY <1>3, <2>4, <2>6 DEF Places
  <2>8. QED
    BY <2>6, <2>7
<1>6. CASE ~(failed /\ parent.saved # {})
  <2>1. PICK own : own = (IF parent.retry THEN parent.own ELSE n - parent.source)
    OBVIOUS
  <2>2. /\ own \in Nat /\ parent.source + own <= n
        /\ ~parent.retry => parent.source + own = n
    BY <1>3, <1>4, <2>1
  <2>3. parent' = [ended EXCEPT !.own = own]
    BY <1>1, <1>2, <1>3, <1>6, <2>1 DEF ParentEnds
  <2>4. [ended EXCEPT !.own = own] \in Execution
    BY ONLY <1>2, <2>2 DEF Execution
  <2>5. /\ parent' \in Execution
        /\ parent'.phase = "idle" /\ parent'.told = told /\ parent'.saved = {}
        /\ parent'.skip = 0 /\ parent'.source = parent.source /\ parent'.own = own
        /\ parent'.retry = parent.retry /\ parent'.again = parent.again
    BY <1>2, <2>3, <2>4 DEF Execution
  <2>6. Places(parent')
    BY ONLY <1>3, <1>4, <2>2, <2>5 DEF Places
  <2>7. QED
    BY <2>5, <2>6
<1>7. QED
  BY <1>5, <1>6

\* Receipts are only added; what has been admitted of them stays admitted.
LEMMA StillTold ==
  ASSUME ToldInv, UNCHANGED <<admitted, parent>>,
         Len(receipts') \in Nat, Len(receipts) <= Len(receipts')
  PROVE  ToldInv'
<1>1. FirstPending' = FirstPending
  BY DEF FirstPending
<1>2. AdmittedInOrder'
  <2>1. \A i \in 1..Len(admitted) :
          /\ admitted[i][1] = (IF i = 1 THEN 1 ELSE admitted[i-1][2] + 1)
          /\ admitted[i][2] \in admitted[i][1]..Len(receipts)
          /\ admitted[i] \in Nat \X Nat
    BY DEF ToldInv, AdmittedInOrder
  <2>2. Len(receipts) \in Nat
    BY DEF ToldInv, AdmittedInOrder
  <2>3. \A i \in 1..Len(admitted) : admitted[i][2] \in admitted[i][1]..Len(receipts')
    BY <2>1, <2>2
  <2>4. QED
    BY <2>1, <2>3 DEF ToldInv, AdmittedInOrder
<1>3. QED
  BY <1>1, <1>2 DEF ToldInv, Rising, Places

\* A step of the parent that admits nothing.
LEMMA ToldInPlace ==
  ASSUME ToldInv, UNCHANGED <<admitted, receipts>>, parent' \in Execution, Places(parent'),
         Rising(parent'.told, FirstPending), ~parent'.again => parent'.told = admitted
  PROVE  ToldInv'
<1>1. FirstPending' = FirstPending
  BY DEF FirstPending
<1>2. AdmittedInOrder'
  BY DEF ToldInv, AdmittedInOrder
<1>3. QED
  BY <1>1, <1>2 DEF ToldInv, Rising, Places

\* What is admitted comes behind what has been.
LEMMA AdmittedOn ==
  ASSUME AdmittedInOrder, HasPending, UNCHANGED receipts, admitted' = Append(admitted, Pending)
  PROVE  AdmittedInOrder' /\ FirstPending' = Len(receipts) + 1
<1>1. PICK n, m \in Nat : n = Len(admitted) /\ m = Len(receipts)
  BY DEF AdmittedInOrder
<1>2. PICK f \in Nat : f = FirstPending /\ 1 <= f /\ f <= m
  BY <1>1, PendingBounds DEF HasPending
<1>3. /\ admitted' \in Seq(Nat \X Nat) /\ Len(admitted') = n + 1
      /\ \A i \in 1..n : admitted'[i] = admitted[i]
      /\ admitted'[n + 1] = <<f, m>>
  BY <1>1, <1>2 DEF AdmittedInOrder, Pending
<1>4. f = IF n = 0 THEN 1 ELSE admitted[n][2] + 1
  BY <1>1, <1>2 DEF FirstPending, AdmittedInOrder
<1>5. \A i \in 1..n : /\ admitted[i][1] = (IF i = 1 THEN 1 ELSE admitted[i-1][2] + 1)
                      /\ admitted[i][2] \in admitted[i][1]..m
  BY <1>1 DEF AdmittedInOrder
<1>6. ASSUME NEW i \in 1..(n + 1)
      PROVE  /\ admitted'[i][1] = (IF i = 1 THEN 1 ELSE admitted'[i-1][2] + 1)
             /\ admitted'[i][2] \in admitted'[i][1]..m
  <2>1. CASE i = n + 1
    <3>1. admitted'[i][1] = f /\ admitted'[i][2] = m
      BY <1>3, <2>1
    <3>2. admitted'[i][2] \in admitted'[i][1]..m
      BY <1>2, <3>1
    <3>3. CASE n = 0
      BY <1>4, <2>1, <3>1, <3>2, <3>3
    <3>4. CASE n # 0
      <4>1. i # 1 /\ i - 1 = n /\ n \in 1..n
        BY <2>1, <3>4
      <4>2. admitted'[i - 1] = admitted[n]
        BY ONLY <1>3, <4>1
      <4>3. QED
        BY <1>4, <3>1, <3>2, <3>4, <4>1, <4>2
    <3>5. QED
      BY <3>3, <3>4
  <2>2. CASE i # n + 1
    <3>1. i \in 1..n /\ (i # 1 => i - 1 \in 1..n)
      BY <1>6, <2>2
    <3>2. QED
      BY <1>3, <1>5, <3>1
  <2>3. QED
    BY <2>1, <2>2
<1>7. AdmittedInOrder'
  BY <1>1, <1>3, <1>6 DEF AdmittedInOrder
<1>8. admitted' # <<>> /\ FirstPending' = m + 1
  BY <1>3 DEF FirstPending
<1>9. QED
  BY <1>1, <1>7, <1>8

LEMMA StartTold ==
  ASSUME ToldInv, ParentStart
  PROVE  ToldInv'
<1>1. PICK n \in Nat : n = Len(parent.told)
  BY DEF ToldInv, Execution
<1>2. parent' = [parent EXCEPT !.phase = "boundary", !.source = n, !.own = 0, !.retry = FALSE]
  BY <1>1 DEF ParentStart
<1>3. parent \in Execution
  BY DEF ToldInv
<1>4. [parent EXCEPT !.phase = "boundary", !.source = n, !.own = 0, !.retry = FALSE] \in Execution
  BY ONLY <1>3, n \in Nat DEF Execution
<1>5. /\ parent' \in Execution /\ parent'.phase = "boundary"
      /\ parent'.source = n /\ parent'.own = 0 /\ parent'.skip = parent.skip
      /\ parent'.saved = parent.saved /\ parent'.told = parent.told
      /\ parent'.again = parent.again
  BY ONLY <1>2, <1>3, <1>4 DEF Execution
<1>6. parent.skip = 0 /\ parent.saved = {}
  BY DEF ToldInv, Places, ParentStart
<1>7. Places(parent')
  BY ONLY <1>1, <1>5, <1>6 DEF Places
<1>8. UNCHANGED <<admitted, receipts>>
  BY DEF ParentStart, ParentWrites
<1>9. QED
  BY <1>5, <1>7, <1>8, ToldInPlace DEF ToldInv

LEMMA RetryTold ==
  ASSUME ToldInv, ParentRetry
  PROVE  ToldInv'
<1>1. PICK n \in Nat : n = parent.source + parent.own /\ n <= Len(parent.told)
  BY DEF ToldInv, Execution, Places
<1>2. Rising(parent.told, FirstPending)
  BY DEF ToldInv
<1>3. PICK kept : kept = SubSeq(parent.told, 1, n)
  OBVIOUS
<1>4. Rising(kept, FirstPending) /\ Len(kept) = n
  <2>1. n \in 0..Len(parent.told)
    BY <1>1, <1>2 DEF Rising
  <2>2. QED
    BY <1>2, <1>3, <2>1, RisingPrefix
<1>5. PICK again \in BOOLEAN : again = (parent.again \/ parent.retry)
  BY DEF ToldInv, Execution
<1>6. parent' = [parent EXCEPT !.phase = "boundary", !.told = kept, !.retry = TRUE,
                               !.again = again]
  BY <1>1, <1>3, <1>5 DEF ParentRetry, Retained
<1>7. parent \in Execution /\ kept \in Seq(Nat \X Nat)
  BY <1>4 DEF ToldInv, Rising
<1>8. [parent EXCEPT !.phase = "boundary", !.told = kept, !.retry = TRUE, !.again = again]
        \in Execution
  BY ONLY <1>5, <1>7 DEF Execution
<1>9. /\ parent' \in Execution /\ parent'.phase = "boundary"
      /\ parent'.source = parent.source /\ parent'.own = parent.own
      /\ parent'.skip = parent.skip /\ parent'.saved = parent.saved
      /\ parent'.told = kept /\ parent'.again = again
  BY ONLY <1>6, <1>7, <1>8 DEF Execution
<1>10. parent.skip = 0 /\ parent.saved = {} /\ (~parent.retry => n = Len(parent.told))
  BY <1>1 DEF ToldInv, Places, ParentRetry
<1>11. Places(parent')
  BY ONLY <1>1, <1>4, <1>9, <1>10 DEF Places
<1>12. ~again => kept = admitted
  <2>1. SUFFICES ASSUME ~again PROVE kept = admitted
    OBVIOUS
  <2>2. n = Len(parent.told) /\ parent.told = admitted
    BY <1>5, <1>10, <2>1 DEF ToldInv
  <2>3. QED
    BY <1>3, <1>2, <2>2 DEF Rising
<1>13. UNCHANGED <<admitted, receipts>>
  BY DEF ParentRetry, ParentWrites
<1>14. QED
  BY <1>4, <1>9, <1>11, <1>12, <1>13, ToldInPlace

LEMMA ResumeTold ==
  ASSUME ToldInv, ParentResumes
  PROVE  ToldInv'
<1>1. PICK n \in Nat : n = Len(parent.told) /\ parent.source + parent.own <= n
  BY DEF ToldInv, Execution, Places
<1>2. PICK skip \in {0, n} : parent' = [parent EXCEPT !.phase = "boundary", !.skip = skip]
  BY <1>1 DEF ParentResumes
<1>3. parent \in Execution
  BY DEF ToldInv
<1>4. [parent EXCEPT !.phase = "boundary", !.skip = skip] \in Execution
  <2>1. skip \in Nat
    BY <1>2
  <2>2. QED
    BY ONLY <1>3, <2>1 DEF Execution
<1>5. /\ parent' \in Execution /\ parent'.phase = "boundary" /\ parent'.skip = skip
      /\ parent'.source = parent.source /\ parent'.own = parent.own
      /\ parent'.saved = parent.saved /\ parent'.told = parent.told
      /\ parent'.again = parent.again
  BY ONLY <1>2, <1>3, <1>4 DEF Execution
<1>6. parent.saved \subseteq 0..n
  BY <1>1 DEF ToldInv, Places
<1>7. Places(parent')
  BY ONLY <1>1, skip \in {0, n}, n \in Nat, <1>5, <1>6 DEF Places
<1>8. UNCHANGED <<admitted, receipts>>
  BY DEF ParentResumes, ParentWrites
<1>9. QED
  BY <1>5, <1>7, <1>8, ToldInPlace DEF ToldInv

\* The parent is at another place of its turn, and nothing else has changed.
LEMMA MovesTold ==
  ASSUME ToldInv, NEW phase \in {"paused", "boundary", "request", "tool"},
         NEW n \in Nat, NEW saved, saved \in {parent.saved, {Len(parent.told)}},
         parent' = [parent EXCEPT !.phase = phase, !.saved = saved, !.requests = n],
         UNCHANGED <<admitted, receipts>>
  PROVE  ToldInv'
<1>1. PICK m \in Nat : m = Len(parent.told) /\ parent.saved \subseteq 0..m
  <2>1. Len(parent.told) \in Nat
    BY DEF ToldInv, Rising
  <2>2. parent.saved \subseteq 0..Len(parent.told)
    BY DEF ToldInv, Places
  <2>3. QED
    BY ONLY <2>1, <2>2
<1>2. saved \subseteq 0..m /\ saved \in SUBSET Nat
  BY <1>1
<1>3. parent \in Execution
  BY DEF ToldInv
<1>4. [parent EXCEPT !.phase = phase, !.saved = saved, !.requests = n] \in Execution
  BY ONLY <1>2, <1>3, n \in Nat, phase \in {"paused", "boundary", "request", "tool"} DEF Execution
<1>5. /\ parent' \in Execution /\ parent'.phase = phase /\ parent'.skip = parent.skip
      /\ parent'.source = parent.source /\ parent'.own = parent.own
      /\ parent'.saved = saved /\ parent'.told = parent.told
      /\ parent'.again = parent.again
  BY ONLY <1>3, <1>4, parent' = [parent EXCEPT !.phase = phase, !.saved = saved, !.requests = n]
  DEF Execution
<1>6. Places(parent)
  BY DEF ToldInv
<1>7. Places(parent')
  BY ONLY <1>1, <1>2, <1>5, <1>6, phase \in {"paused", "boundary", "request", "tool"} DEF Places
<1>8. QED
  BY <1>5, <1>7, ToldInPlace DEF ToldInv

\* A turn that ends where nothing is admitted.
LEMMA EndTold ==
  ASSUME ToldInv, NEW failed \in BOOLEAN, ParentEnds(failed, parent.told),
         UNCHANGED <<admitted, receipts>>
  PROVE  ToldInv'
<1>1. /\ parent \in Execution /\ Places(parent)
      /\ parent.told \in Seq(Nat \X Nat) /\ Len(parent.told) <= Len(parent.told)
  BY DEF ToldInv, Execution
<1>2. /\ parent' \in Execution /\ Places(parent')
      /\ parent'.told = parent.told /\ parent'.again = parent.again
  BY <1>1, EndsInPlace
<1>3. QED
  BY <1>2, ToldInPlace DEF ToldInv

LEMMA AdmitTold ==
  ASSUME ToldInv, Admit
  PROVE  ToldInv'
<1>1. UNCHANGED receipts /\ AdmittedInOrder /\ parent \in Execution /\ Places(parent)
  BY DEF Admit, ToldInv
<1>2. CASE ~(enabled /\ HasPending)
  <2>1. PICK n \in Nat : n = parent.requests + 1
    BY <1>1 DEF Execution
  <2>2. parent' = [parent EXCEPT !.phase = "request", !.saved = parent.saved, !.requests = n]
    BY <1>1, <1>2, <2>1 DEF Admit, Execution
  <2>3. UNCHANGED admitted
    BY <1>2 DEF Admit
  <2>4. QED
    BY <1>1, <2>2, <2>3, MovesTold
<1>3. CASE enabled /\ HasPending
  <2>1. admitted' = Append(admitted, Pending)
    BY <1>3 DEF Admit
  <2>2. AdmittedInOrder' /\ FirstPending' = Len(receipts) + 1
    BY <1>1, <1>3, <2>1, AdmittedOn
  <2>3. PICK told : told = Append(parent.told, Pending)
    OBVIOUS
  <2>4. FirstPending \in Nat /\ Len(receipts) \in Nat /\ FirstPending <= Len(receipts)
    BY <1>1, <1>3, PendingBounds DEF HasPending, AdmittedInOrder
  <2>5. Rising(told, FirstPending')
    BY <2>2, <2>3, <2>4, RisingOn DEF Pending, ToldInv
  <2>6. told \in Seq(Nat \X Nat)
    BY <2>5 DEF Rising
  <2>7. PICK m \in Nat : m = Len(parent.told) /\ Len(told) = m + 1
    BY <1>1, <2>3 DEF Execution
  <2>8. /\ parent' \in Execution /\ Places(parent')
        /\ parent'.told = told /\ parent'.again = parent.again
    <3>1. CASE ParentEnds(TRUE, Append(parent.told, Pending))
      <4>1. ParentEnds(TRUE, told)
        BY ONLY <2>3, <3>1
      <4>2. Len(parent.told) <= Len(told)
        BY ONLY <2>7, m \in Nat
      <4>3. QED
        BY <1>1, <2>6, <4>1, <4>2, EndsInPlace
    <3>2. CASE ~ParentEnds(TRUE, Append(parent.told, Pending))
      <4>1. PICK n \in Nat : n = parent.requests + 1
        BY <1>1 DEF Execution
      <4>2. parent' = [parent EXCEPT !.phase = "request", !.requests = n, !.told = told]
        BY <1>1, <1>3, <2>3, <3>2, <4>1 DEF Admit, Execution
      <4>3. [parent EXCEPT !.phase = "request", !.requests = n, !.told = told] \in Execution
        BY ONLY <1>1, <2>6, n \in Nat DEF Execution
      <4>4. /\ parent' \in Execution /\ parent'.phase = "request" /\ parent'.skip = parent.skip
            /\ parent'.source = parent.source /\ parent'.own = parent.own
            /\ parent'.saved = parent.saved /\ parent'.told = told
            /\ parent'.again = parent.again
        BY ONLY <1>1, <4>2, <4>3 DEF Execution
      <4>5. parent.source \in Nat /\ parent.own \in Nat /\ parent.skip \in Nat
        BY <1>1 DEF Execution
      <4>6. Places(parent')
        BY ONLY <1>1, <2>7, <4>4, <4>5 DEF Places
      <4>7. QED
        BY <4>4, <4>6
    <3>3. QED
      BY <3>1, <3>2
  <2>9. ~parent'.again => parent'.told = admitted'
    BY <2>1, <2>3, <2>8 DEF ToldInv
  <2>10. QED
    BY <2>2, <2>5, <2>8, <2>9 DEF ToldInv, Rising, Places
<1>4. QED
  BY <1>2, <1>3

LEMMA ParentTold ==
  ASSUME ToldInv, ParentStep
  PROVE  ToldInv'
<1>1. parent \in Execution
  BY DEF ToldInv
<1>2. PICK n \in Nat : n = parent.requests
  BY <1>1 DEF Execution
<1>3. CASE Respond
  <2>1. UNCHANGED <<admitted, receipts>>
    BY <1>3 DEF Respond, ParentWrites
  <2>2. CASE ParentAt("tool")
    <3>1. parent' = [parent EXCEPT !.phase = "tool", !.saved = parent.saved, !.requests = n]
      BY <1>1, <1>2, <2>2 DEF ParentAt, Execution
    <3>2. QED
      BY <1>2, <2>1, <3>1, MovesTold
  <2>3. CASE \E failed \in BOOLEAN : ParentEnds(failed, parent.told)
    BY <2>1, <2>3, EndTold
  <2>4. QED
    BY <1>3, <2>2, <2>3 DEF Respond
<1>4. CASE ToolReturns
  <2>1. UNCHANGED <<admitted, receipts>>
    BY <1>4 DEF ToolReturns, ParentWrites
  <2>2. PICK saved : saved = {Len(parent.told)}
    OBVIOUS
  <2>3. parent' = [parent EXCEPT !.phase = "boundary", !.saved = saved, !.requests = n]
    BY <1>1, <1>2, <1>4, <2>2 DEF ToolReturns, Execution
  <2>4. QED
    BY <1>2, <2>1, <2>2, <2>3, MovesTold
<1>5. CASE ParentStops
  BY <1>5, EndTold DEF ParentStops, ParentWrites
<1>6. QED
  BY <1>3, <1>4, <1>5, StartTold, ResumeTold, RetryTold, AdmitTold DEF ParentStep

LEMMA RestartTold ==
  ASSUME ToldInv, Restart
  PROVE  ToldInv'
<1>1. parent \in Execution
  BY DEF ToldInv
<1>2. PICK phase : phase = (IF parent.phase \in {"new", "idle"} THEN parent.phase ELSE "paused")
  OBVIOUS
<1>3. /\ phase \in {"new", "idle", "paused"}
      /\ phase \in {"new", "idle"} => parent.phase = phase
  BY <1>2
<1>4. parent' = [parent EXCEPT !.phase = phase]
  BY <1>2 DEF Restart
<1>5. [parent EXCEPT !.phase = phase] \in Execution
  BY ONLY <1>1, <1>3 DEF Execution
<1>6. /\ parent' \in Execution /\ parent'.phase = phase /\ parent'.skip = parent.skip
      /\ parent'.source = parent.source /\ parent'.own = parent.own
      /\ parent'.saved = parent.saved /\ parent'.told = parent.told
      /\ parent'.again = parent.again /\ parent'.retry = parent.retry
  BY ONLY <1>1, <1>4, <1>5 DEF Execution
<1>7. Places(parent)
  BY DEF ToldInv
<1>8. Places(parent')
  BY ONLY <1>3, <1>6, <1>7 DEF Places
<1>9. UNCHANGED <<admitted, receipts>>
  BY DEF Restart
<1>10. QED
  BY <1>6, <1>8, <1>9, ToldInPlace DEF ToldInv

LEMMA InitTold == Init => ToldInv
<1> SUFFICES ASSUME Init PROVE ToldInv
  OBVIOUS
<1>1. parent = NoParentTurn /\ admitted = <<>> /\ receipts = <<>>
  BY DEF Init
<1>2. NoParentTurn \in Execution
  BY DEF NoParentTurn, Execution
<1>3. Places(NoParentTurn) /\ NoParentTurn.told = <<>>
  BY DEF NoParentTurn, Places
<1>4. Rising(<<>>, FirstPending)
  BY DEF Rising
<1>5. AdmittedInOrder
  BY <1>1 DEF AdmittedInOrder
<1>6. QED
  BY <1>1, <1>2, <1>3, <1>4, <1>5 DEF ToldInv

LEMMA ToldStep ==
  ASSUME ReceiptsInv, ToldInv, [Next]_vars
  PROVE  ToldInv'
<1>1. Len(receipts) \in Nat
  BY DEF ToldInv, AdmittedInOrder
<1>2. CASE UNCHANGED vars
  BY <1>1, <1>2, StillTold DEF vars
<1>3. ASSUME NEW c \in Children, ChildStep(c) \/ PassStep(c)
      PROVE  ToldInv'
  <2>1. UNCHANGED <<admitted, parent>>
    BY <1>3 DEF ChildStep, PassStep, Start, Write, Ask, Answer, Dispatch, Return, Wait, Continue,
       End, Report, Commits, Scan, RecoverReceipts, RecordCoverage
  <2>2. UNCHANGED receipts \/ TellsOf(c)
    BY <1>3, ChildStepKeeps, PassStepKeeps
  <2>3. Len(receipts') \in Nat /\ Len(receipts) <= Len(receipts')
    BY <1>1, <2>2 DEF TellsOf, Joins
  <2>4. QED
    BY <2>1, <2>3, StillTold
<1>4. CASE ParentStep \/ Restart
  BY <1>4, ParentTold, RestartTold
<1>5. QED
  BY <1>2, <1>3, <1>4 DEF Next

-----------------------------------------------------------------------------
(* The wait implements what it composes.                                    *)

LEMMA WaitStepIs ==
  ASSUME [WaitNext]_allVars
  PROVE  [Next]_vars
<1>1. CASE UNCHANGED allVars
  BY <1>1 DEF allVars
<1>2. ASSUME NEW c \in Children,
             Begins(c) \/ QueueInput(c) \/ UnqueueInput(c) \/ Runs(c) \/ Prepares(c)
               \/ PublishView(c) \/ List(c)
      PROVE  [Next]_vars
  BY <1>2 DEF Begins, QueueInput, UnqueueInput, Runs, Prepares, PublishView, List, Next, ChildStep
<1>3. CASE ParentRuns \/ WaitEnds \/ Restarts
  BY <1>3 DEF ParentRuns, WaitEnds, Restarts, Next, ParentStep
<1>4. CASE ObserveParentEvents \/ CallWait \/ Select \/ ReadPage \/ SelectAgain \/ Wake \/ TimesOut
  BY <1>4 DEF ObserveParentEvents, CallWait, Select, ReadPage, SelectAgain, Wake, TimesOut
<1>5. QED
  BY <1>1, <1>2, <1>3, <1>4 DEF WaitNext

\* Publishing views, waking a waiter and everything WaitThreads does leave the
\* receipts and their admission as they are, or do to them what the children, the
\* pass and the parent's turn may do by themselves.
THEOREM WaitKeepsReceipts == WaitSpec => Spec
<1>1. WaitInit => Init
  BY DEF WaitInit
<1>2. [WaitNext]_allVars => [Next]_vars
  BY WaitStepIs
<1>3. QED
  BY <1>1, <1>2, PTL DEF WaitSpec, Spec

LEMMA InitHolds == WaitInit => ReceiptsInv /\ ToldInv
  BY InitReceipts, InitTold DEF WaitInit

\* Where nobody looks again every open question has its receipt, no source has
\* two, and the terminal is the last the parent hears of a turn, whatever passes,
\* reports, process losses and changes of the option come between.
THEOREM ReceiptsAreFaithful == WaitSpec => []ReceiptsFaithful
<1>1. ReceiptsInv /\ [WaitNext]_allVars => ReceiptsInv'
  BY WaitStepIs, ReceiptsStep
<1>2. QED
  BY <1>1, InitHolds, Faithful, PTL DEF WaitSpec

\* A provider request of the parent carries what has been admitted, each receipt
\* once and in order; it lacks some only after a retry that was itself retried or
\* executed again.
THEOREM RequestsCarryReceiptsOnce == WaitSpec => []ToldOnce
<1>1. ReceiptsInv /\ ToldInv /\ [WaitNext]_allVars => (ReceiptsInv /\ ToldInv)'
  BY WaitStepIs, ReceiptsStep, ToldStep
<1>2. QED
  BY <1>1, InitHolds, ToldHolds, PTL DEF WaitSpec

-----------------------------------------------------------------------------
(* What the wait has read, and what it says.                                *)

WaitCall ==
  [at : {"none", "list", "page", "relist", "asleep", "returned"}, woken : BOOLEAN,
   todo : SUBSET Children, page : SUBSET Nat,
   reason : {"", "attention", "completed", "events", "timed_out"}, seen : [Children -> Summary]]

\* A view shows the turn and run its child is in, and an end no earlier than it is.
ViewSound ==
  /\ view \in [Children -> Summary]
  /\ \A c \in Children :
       /\ view[c].turn = child[c].turn /\ view[c].run = child[c].run
       /\ ~view[c].active => ~child[c].live
       /\ view[c].active => view[c].turn > 0

\* v is not older than s: what has ended stays so until the next turn begins.
NotOlder(v, s) ==
  \/ s.turn < v.turn
  \/ s.turn = v.turn /\ (s.active \/ ~v.active)

SeenBefore ==
  /\ wait \in WaitCall
  /\ \A c \in Children : NotOlder(view[c], wait.seen[c])

\* A summary read after the terminal receipt e is of a later turn or of e's run.
ReadAfter(s, e) == e.turn <= s.turn /\ (e.turn = s.turn => s.run = e.run)

PageRead ==
  /\ wait.page \subseteq 1..Len(receipts)
  /\ wait.at = "relist" =>
       \A i \in wait.page :
         receipts[i].kind = "terminal" /\ receipts[i].child \notin wait.todo =>
           ReadAfter(wait.seen[receipts[i].child], receipts[i])

Reasoned ==
  /\ wait.reason # "" => wait.at = "returned"
  /\ wait.reason = "completed" => \A c \in Children : ~wait.seen[c].active

WaitInv == ViewSound /\ SeenBefore /\ PageRead /\ Reasoned /\ WaitReliable

\* The receipts of a step follow those there were, and are of live turns.
Grows ==
  /\ receipts' \in Seq(Receipt) /\ Len(receipts') \in Nat /\ Len(receipts) <= Len(receipts')
  /\ \A k \in 1..Len(receipts) : receipts'[k] = receipts[k]
  /\ \A k \in (Len(receipts) + 1)..Len(receipts') :
       /\ receipts'[k].turn = child[receipts'[k].child].turn
       /\ child[receipts'[k].child].live

LEMMA NotOlderAgain ==
  ASSUME NEW u \in Summary, NEW v \in Summary, NEW s \in Summary, NotOlder(v, s), NotOlder(u, v)
  PROVE  NotOlder(u, s)
  BY DEF NotOlder, Summary

LEMMA GrowsOrNot ==
  ASSUME ReceiptsInv, NEW c \in Children, UNCHANGED receipts \/ TellsOf(c)
  PROVE  Grows
<1>1. receipts \in Seq(Receipt) /\ Len(receipts) \in Nat
  BY DEF ReceiptsInv, ReceiptsTyped
<1>2. CASE UNCHANGED receipts
  BY <1>1, <1>2 DEF Grows
<1>3. CASE TellsOf(c)
  <2>1. PICK F : Untold(c, F) /\ Joins(F) /\ (F # {} => child[c].live)
    BY <1>3 DEF TellsOf
  <2>2. /\ receipts' \in Seq(Receipt) /\ Len(receipts) <= Len(receipts')
        /\ \A k \in 1..Len(receipts) : receipts'[k] = receipts[k]
        /\ \A k \in (Len(receipts) + 1)..Len(receipts') : receipts'[k] \in F
    BY <2>1 DEF Joins
  <2>3. \A e \in F : e.child = c /\ e.turn = child[c].turn /\ child[c].live
    BY <2>1 DEF Untold
  <2>4. Len(receipts') \in Nat
    BY <2>2
  <2>5. QED
    BY ONLY <2>2, <2>3, <2>4 DEF Grows
<1>4. QED
  BY <1>2, <1>3

\* A step that leaves what the call has read alone.
LEMMA WaitGoesOn ==
  ASSUME ReceiptsInv, WaitInv, Grows, ViewSound',
         FirstPending \in Nat, 1 <= FirstPending,
         FirstPending' \in Nat, FirstPending <= FirstPending',
         \A c \in Children : NotOlder(view'[c], view[c]),
         wait' \in WaitCall, wait'.at = wait.at, wait'.todo = wait.todo, wait'.page = wait.page,
         wait'.reason = wait.reason, wait'.seen = wait.seen
  PROVE  WaitInv'
<1>1. PICK m, n \in Nat : m = Len(receipts) /\ n = Len(receipts') /\ m <= n
  BY DEF Grows, ReceiptsInv, ReceiptsTyped
<1>2. \A k \in 1..m : receipts'[k] = receipts[k] /\ receipts[k] \in Receipt
  BY <1>1 DEF Grows, ReceiptsInv, ReceiptsTyped
<1>3. /\ view \in [Children -> Summary] /\ view' \in [Children -> Summary]
      /\ wait.seen \in [Children -> Summary]
  BY DEF WaitInv, ViewSound, SeenBefore, WaitCall
<1>4. SeenBefore'
  <2>1. ASSUME NEW c \in Children
        PROVE  NotOlder(view'[c], wait.seen[c])
    <3>1. NotOlder(view[c], wait.seen[c]) /\ NotOlder(view'[c], view[c])
      BY DEF WaitInv, SeenBefore
    <3>2. view[c] \in Summary /\ view'[c] \in Summary /\ wait.seen[c] \in Summary
      BY <1>3
    <3>3. QED
      BY <3>1, <3>2, NotOlderAgain
  <2>2. QED
    BY <2>1 DEF SeenBefore, NotOlder
<1>5. wait.page \subseteq 1..m
  BY <1>1 DEF WaitInv, PageRead
<1>6. PageRead'
  <2>1. wait.page \subseteq 1..n
    BY <1>1, <1>5
  <2>2. \A i \in wait.page : receipts'[i] = receipts[i]
    BY <1>2, <1>5
  <2>3. QED
    BY <1>1, <2>1, <2>2 DEF WaitInv, PageRead, ReadAfter
<1>7. Reasoned'
  BY DEF WaitInv, Reasoned
<1>8. wait.reason = "completed" =>
        \A i \in PendingReceipts' : receipts'[i].turn > wait.seen[receipts'[i].child].turn
  <2>1. SUFFICES ASSUME wait.reason = "completed", NEW i \in PendingReceipts'
                 PROVE  receipts'[i].turn > wait.seen[receipts'[i].child].turn
    OBVIOUS
  <2>2. i \in FirstPending'..n /\ FirstPending <= i
    BY <1>1, <2>1 DEF PendingReceipts
  <2>3. CASE i <= m
    <3>1. PICK k : k \in PendingReceipts /\ k = i
      BY <1>1, <2>2, <2>3 DEF PendingReceipts
    <3>2. receipts[i].turn > wait.seen[receipts[i].child].turn
      BY <2>1, <3>1 DEF WaitInv, WaitReliable
    <3>3. CASE i \in 1..m
      BY <1>2, <3>2, <3>3
    <3>4. CASE i = 0
      BY <2>2, <3>4
    <3>5. QED
      BY <2>2, <2>3, <3>3, <3>4
  <2>4. CASE i > m
    <3>1. i \in (m + 1)..n /\ i \in 1..n
      BY <1>1, <2>2, <2>4
    <3>2. PICK e : e = receipts'[i]
      OBVIOUS
    <3>3. e.turn = child[e.child].turn /\ child[e.child].live
      BY <1>1, <3>1, <3>2 DEF Grows
    <3>4. e \in Receipt
      BY <1>1, <3>1, <3>2 DEF Grows
    <3>5. PICK c \in Children : c = e.child
      BY <3>4 DEF Receipt
    <3>6. view[c].turn = child[c].turn /\ (~view[c].active => ~child[c].live)
      BY DEF WaitInv, ViewSound
    <3>7. ~wait.seen[c].active /\ NotOlder(view[c], wait.seen[c])
      BY <2>1 DEF WaitInv, Reasoned, SeenBefore
    <3>8. view[c].turn \in Nat /\ wait.seen[c].turn \in Nat
      BY <1>3 DEF Summary
    <3>9. wait.seen[c].turn < view[c].turn
      BY ONLY <3>3, <3>5, <3>6, <3>7, <3>8 DEF NotOlder
    <3>10. e.turn > wait.seen[e.child].turn
      BY ONLY <3>3, <3>5, <3>6, <3>8, <3>9
    <3>11. QED
      BY <3>2, <3>10
  <2>5. QED
    BY <1>1, <2>2, <2>3, <2>4
<1>9. wait.reason = "events" =>
        \A i \in wait.page : receipts'[i].kind = "terminal" =>
          LET v == view'[receipts'[i].child] IN
            v.turn > receipts'[i].turn \/ (v.turn = receipts'[i].turn /\ ~v.active)
  <2>1. SUFFICES ASSUME wait.reason = "events", NEW i \in wait.page,
                        receipts'[i].kind = "terminal"
                 PROVE  \/ view'[receipts'[i].child].turn > receipts'[i].turn
                        \/ /\ view'[receipts'[i].child].turn = receipts'[i].turn
                           /\ ~view'[receipts'[i].child].active
    OBVIOUS
  <2>2. PICK e : e = receipts[i] /\ e = receipts'[i] /\ e \in Receipt
    BY <1>2, <1>5
  <2>3. PICK c \in Children : c = e.child
    BY <2>2 DEF Receipt
  <2>4. e.turn \in Nat
    BY <2>2 DEF Receipt
  <2>5. view[c].turn > e.turn \/ (view[c].turn = e.turn /\ ~view[c].active)
    BY <2>1, <2>2, <2>3 DEF WaitInv, WaitReliable
  <2>6. NotOlder(view'[c], view[c])
    OBVIOUS
  <2>7. view[c].turn \in Nat /\ view'[c].turn \in Nat
    BY <1>3 DEF Summary
  <2>8. view'[c].turn > e.turn \/ (view'[c].turn = e.turn /\ ~view'[c].active)
    BY ONLY <2>4, <2>5, <2>6, <2>7 DEF NotOlder
  <2>9. QED
    BY <2>2, <2>3, <2>8
<1>10. WaitReliable'
  BY <1>8, <1>9 DEF WaitReliable, PendingReceipts
<1>11. QED
  BY <1>4, <1>6, <1>7, <1>10 DEF WaitInv

\* Requests take what is pending, and nothing else moves where that begins.
LEMMA PendingMoves ==
  ASSUME ReceiptsInv, ToldInv, [Next]_vars
  PROVE  /\ FirstPending \in Nat /\ 1 <= FirstPending
         /\ FirstPending' \in Nat /\ FirstPending <= FirstPending'
<1>1. AdmittedInOrder /\ FirstPending \in Nat /\ 1 <= FirstPending
  BY PendingBounds DEF ToldInv
<1>2. CASE UNCHANGED admitted
  <2>1. FirstPending' = FirstPending
    BY <1>2 DEF FirstPending
  <2>2. QED
    BY <1>1, <2>1
<1>3. CASE Admit /\ enabled /\ HasPending
  <2>1. admitted' = Append(admitted, Pending) /\ UNCHANGED receipts
    BY <1>3 DEF Admit
  <2>2. FirstPending' = Len(receipts) + 1
    BY <1>1, <1>3, <2>1, AdmittedOn
  <2>3. FirstPending <= Len(receipts) /\ Len(receipts) \in Nat
    BY <1>3, <1>1 DEF HasPending, AdmittedInOrder
  <2>4. QED
    BY <1>1, <2>2, <2>3
<1>4. UNCHANGED admitted \/ (Admit /\ enabled /\ HasPending)
  <2>1. CASE UNCHANGED vars
    BY <2>1 DEF vars
  <2>2. CASE \E c \in Children : ChildStep(c) \/ PassStep(c)
    BY <2>2 DEF ChildStep, PassStep, Start, Write, Ask, Answer, Dispatch, Return, Wait, Continue,
       End, Report, Commits, Scan, RecoverReceipts, RecordCoverage
  <2>3. CASE ParentStep \/ Restart
    BY <2>3 DEF ParentStep, ParentStart, ParentResumes, ParentRetry, Admit, Respond, ToolReturns,
       ParentStops, ParentWrites, Restart
  <2>4. QED
    BY <2>1, <2>2, <2>3 DEF Next
<1>5. QED
  BY <1>2, <1>3, <1>4

\* What an actor shows of its journal.
LEMMA CanonicalIs ==
  ASSUME NEW t, Sound(t), NEW q \in Nat, NEW v, v = Canonical(t, q)
  PROVE  /\ v \in Summary /\ v.turn = t.turn /\ v.run = t.run
         /\ v.active = t.live /\ (v.active => v.turn > 0)
  BY DEF Canonical, Summary, Sound, Turn

\* A wake-up leaves what the call has read alone.
LEMMA WokenIs ==
  ASSUME wait \in WaitCall, wait' \in {wait, Woken}
  PROVE  /\ wait' \in WaitCall /\ wait'.at = wait.at /\ wait'.todo = wait.todo
         /\ wait'.page = wait.page /\ wait'.reason = wait.reason /\ wait'.seen = wait.seen
<1>1. CASE wait' = wait
  BY <1>1
<1>2. CASE wait' = Woken
  <2>1. PICK b \in BOOLEAN : b = Subscribed
    BY DEF Subscribed
  <2>2. wait' = [wait EXCEPT !.woken = b]
    BY <1>2, <2>1 DEF Woken
  <2>3. [wait EXCEPT !.woken = b] \in WaitCall
    BY ONLY wait \in WaitCall, b \in BOOLEAN DEF WaitCall
  <2>4. QED
    BY <2>2, <2>3 DEF WaitCall
<1>3. QED
  BY <1>1, <1>2

\* The children's actors and the subscription: views that show later turns.
LEMMA ViewsGoOn ==
  ASSUME ReceiptsInv, ReceiptsInv', ToldInv, WaitInv, [Next]_vars, Grows,
         wait' \in {wait, Woken}, NEW c \in Children,
         \A d \in Children \ {c} : view'[d] = view[d] /\ child'[d] = child[d],
         view' \in [Children -> Summary],
         view'[c].turn = child'[c].turn, view'[c].run = child'[c].run,
         ~view'[c].active => ~child'[c].live, view'[c].active => view'[c].turn > 0,
         NotOlder(view'[c], view[c])
  PROVE  WaitInv'
<1>1. /\ FirstPending \in Nat /\ 1 <= FirstPending
      /\ FirstPending' \in Nat /\ FirstPending <= FirstPending'
  BY PendingMoves
<1>2. wait \in WaitCall
  BY DEF WaitInv, SeenBefore
<1>3. /\ wait' \in WaitCall /\ wait'.at = wait.at /\ wait'.todo = wait.todo
      /\ wait'.page = wait.page /\ wait'.reason = wait.reason /\ wait'.seen = wait.seen
  BY <1>2, WokenIs
<1>4. ViewSound'
  <2>1. ASSUME NEW d \in Children
        PROVE  /\ view'[d].turn = child'[d].turn /\ view'[d].run = child'[d].run
               /\ ~view'[d].active => ~child'[d].live
               /\ view'[d].active => view'[d].turn > 0
    <3>1. CASE d = c
      BY <3>1
    <3>2. CASE d # c
      BY <3>2 DEF WaitInv, ViewSound
    <3>3. QED
      BY <3>1, <3>2
  <2>2. QED
    BY <2>1 DEF ViewSound
<1>5. \A d \in Children : NotOlder(view'[d], view[d])
  BY DEF NotOlder
<1>6. QED
  BY <1>1, <1>3, <1>4, <1>5, WaitGoesOn

LEMMA CommitsOne ==
  ASSUME ChildrenSound, NEW c \in Children, NEW t, NEW E, Commits(c, t, E)
  PROVE  child'[c] = t /\ \A d \in Children \ {c} : child'[d] = child[d]
  BY DEF Commits, ChildrenSound

\* What a run commits is of its turn, which may end.
LEMMA RunStays ==
  ASSUME ReceiptsInv, NEW c \in Children, Runs(c)
  PROVE  /\ \A d \in Children \ {c} : child'[d] = child[d]
         /\ child'[c].turn = child[c].turn /\ child'[c].run = child[c].run
         /\ child'[c].live => child[c].live
<1>1. PICK t : t = child[c] /\ t \in Turn
  BY DEF ReceiptsInv, ChildrenSound
<1>2. ChildrenSound
  BY DEF ReceiptsInv
<1>3. CASE Write(c)
  BY <1>2, <1>3, CommitsOne DEF Write
<1>4. CASE Ask(c)
  <2>1. PICK t2 : /\ t2 = [t EXCEPT !.open = @ \cup {NextId(c)}, !.ids = @ + 1]
                  /\ child'[c] = t2 /\ \A d \in Children \ {c} : child'[d] = child[d]
    BY <1>1, <1>2, <1>4, CommitsOne DEF Ask
  <2>2. t2.turn = t.turn /\ t2.run = t.run /\ t2.live = t.live
    BY ONLY <1>1, <2>1 DEF Turn
  <2>3. QED
    BY <1>1, <2>1, <2>2
<1>5. CASE Answer(c)
  <2>1. PICK i \in child[c].open : Commits(c, [child[c] EXCEPT !.open = @ \ {i}], {})
    BY <1>5 DEF Answer
  <2>2. PICK t2 : /\ t2 = [t EXCEPT !.open = @ \ {i}]
                  /\ child'[c] = t2 /\ \A d \in Children \ {c} : child'[d] = child[d]
    BY <1>1, <1>2, <2>1, CommitsOne
  <2>3. t2.turn = t.turn /\ t2.run = t.run /\ t2.live = t.live
    BY ONLY <1>1, <2>2 DEF Turn
  <2>4. QED
    BY <1>1, <2>2, <2>3
<1>6. CASE Dispatch(c)
  <2>1. PICK t2 : /\ t2 = [t EXCEPT !.call = NextId(c), !.ids = @ + 1]
                  /\ child'[c] = t2 /\ \A d \in Children \ {c} : child'[d] = child[d]
    BY <1>1, <1>2, <1>6, CommitsOne DEF Dispatch
  <2>2. t2.turn = t.turn /\ t2.run = t.run /\ t2.live = t.live
    BY ONLY <1>1, <2>1 DEF Turn
  <2>3. QED
    BY <1>1, <2>1, <2>2
<1>7. CASE \E input \in BOOLEAN : Return(c, input)
  <2>1. PICK input \in BOOLEAN : Return(c, input)
    BY <1>7
  <2>2. PICK held : held = (IF input THEN t.held \cup {t.call} ELSE t.held)
    OBVIOUS
  <2>3. PICK t2 : /\ t2 = [t EXCEPT !.call = 0, !.held = held]
                  /\ child'[c] = t2 /\ \A d \in Children \ {c} : child'[d] = child[d]
    <3>1. [t EXCEPT !.call = 0, !.held = held]
            = [t EXCEPT !.call = 0, !.held = IF input THEN @ \cup {t.call} ELSE @]
      BY ONLY <1>1, <2>2 DEF Turn
    <3>2. Commits(c, [t EXCEPT !.call = 0, !.held = IF input THEN @ \cup {t.call} ELSE @], {})
      BY <1>1, <2>1 DEF Return
    <3>3. QED
      BY <1>2, <3>1, <3>2, CommitsOne
  <2>4. t2.turn = t.turn /\ t2.run = t.run /\ t2.live = t.live
    BY ONLY <1>1, <2>3 DEF Turn
  <2>5. QED
    BY <1>1, <2>3, <2>4
<1>8. CASE Wait(c)
  <2>1. PICK t2 : /\ t2 = [t EXCEPT !.open = @ \cup t.held, !.held = {}, !.exec = FALSE]
                  /\ child'[c] = t2 /\ \A d \in Children \ {c} : child'[d] = child[d]
    BY <1>1, <1>2, <1>8, CommitsOne DEF Wait
  <2>2. t2.turn = t.turn /\ t2.run = t.run /\ t2.live = t.live
    BY ONLY <1>1, <2>1 DEF Turn
  <2>3. QED
    BY <1>1, <2>1, <2>2
<1>9. CASE \E outcome \in {"completed", "stopped"} : End(c, outcome)
  <2>1. PICK t2 : /\ t2 = [t EXCEPT !.live = FALSE, !.exec = FALSE, !.open = {},
                                    !.held = {}, !.call = 0]
                  /\ child'[c] = t2 /\ \A d \in Children \ {c} : child'[d] = child[d]
    BY <1>1, <1>2, <1>9, CommitsOne DEF End
  <2>2. t2.turn = t.turn /\ t2.run = t.run /\ ~t2.live
    BY ONLY <1>1, <2>1 DEF Turn
  <2>3. QED
    BY <1>1, <2>1, <2>2
<1>10. CASE Report(c)
  BY <1>10 DEF Report
<1>11. QED
  BY <1>3, <1>4, <1>5, <1>6, <1>7, <1>8, <1>9, <1>10 DEF Runs

\* A run begins a turn, or continues the live one.
LEMMA RunBegins ==
  ASSUME ReceiptsInv, NEW c \in Children,
         (\E kind \in {"ordinary", "compaction"} : Start(c, kind)) \/ Continue(c)
  PROVE  /\ \A d \in Children \ {c} : child'[d] = child[d]
         /\ child'[c].live
         /\ \/ child'[c].turn = child[c].turn + 1
            \/ child'[c].turn = child[c].turn /\ child[c].live
<1>1. PICK t : t = child[c] /\ t \in Turn
  BY DEF ReceiptsInv, ChildrenSound
<1>2. ChildrenSound
  BY DEF ReceiptsInv
<1>3. CASE \E kind \in {"ordinary", "compaction"} : Start(c, kind)
  <2>1. PICK kind \in {"ordinary", "compaction"} : Start(c, kind)
    BY <1>3
  <2>2. PICK t2 : /\ t2 = [t EXCEPT !.turn = @ + 1, !.run = 1, !.kind = kind,
                                    !.live = TRUE, !.exec = TRUE]
                  /\ child'[c] = t2 /\ \A d \in Children \ {c} : child'[d] = child[d]
    BY <1>1, <1>2, <2>1, CommitsOne DEF Start
  <2>3. t2.turn = t.turn + 1 /\ t2.live
    BY ONLY <1>1, <2>2 DEF Turn
  <2>4. QED
    BY <1>1, <2>2, <2>3
<1>4. CASE Continue(c)
  <2>1. PICK t2 : /\ t2 = [t EXCEPT !.run = @ + 1, !.exec = TRUE, !.held = {}]
                  /\ child'[c] = t2 /\ \A d \in Children \ {c} : child'[d] = child[d]
    BY <1>1, <1>2, <1>4, CommitsOne DEF Continue
  <2>2. t2.turn = t.turn /\ t2.live = t.live
    BY ONLY <1>1, <2>1 DEF Turn
  <2>3. t.live
    BY <1>1, <1>4 DEF Continue
  <2>4. QED
    BY <1>1, <2>1, <2>2, <2>3
<1>5. QED
  BY <1>3, <1>4

LEMMA BeginsKeeps ==
  ASSUME ReceiptsInv, ReceiptsInv', ToldInv, WaitInv, [Next]_vars, NEW c \in Children, Begins(c)
  PROVE  WaitInv'
<1>1. PICK taken \in 0..1 :
        /\ taken <= view[c].queue
        /\ (\E kind \in {"ordinary", "compaction"} : Start(c, kind)) \/ Continue(c)
        /\ view' = [view EXCEPT ![c] = Canonical(child'[c], view[c].queue - taken)]
  BY DEF Begins
<1>2. /\ \A d \in Children \ {c} : child'[d] = child[d]
      /\ child'[c].live
      /\ \/ child'[c].turn = child[c].turn + 1
         \/ child'[c].turn = child[c].turn /\ child[c].live
  BY <1>1, RunBegins
<1>3. PICK q, t, v : q = view[c].queue - taken /\ t = child'[c] /\ v = Canonical(t, q)
  OBVIOUS
<1>4. Sound(t)
  BY <1>3 DEF ReceiptsInv, ChildrenSound, Sound
<1>5. view \in [Children -> Summary] /\ view' = [view EXCEPT ![c] = v]
  BY <1>1, <1>3 DEF WaitInv, ViewSound
<1>6. /\ v \in Summary /\ v.turn = t.turn /\ v.run = t.run /\ v.active = t.live
      /\ v.active => v.turn > 0
  <2>1. view[c].queue \in Nat
    BY <1>5 DEF Summary
  <2>2. q \in Nat
    BY <1>1, <1>3, <2>1
  <2>3. QED
    BY <1>3, <1>4, <2>2, CanonicalIs
<1>7. /\ view' \in [Children -> Summary] /\ view'[c] = v
      /\ \A d \in Children \ {c} : view'[d] = view[d]
  BY ONLY <1>5, <1>6, c \in Children
<1>8. view[c].turn = child[c].turn /\ (~view[c].active => ~child[c].live)
  BY DEF WaitInv, ViewSound
<1>9. child[c].turn \in Nat /\ view[c].turn \in Nat
  BY <1>5 DEF ReceiptsInv, ChildrenSound, Turn, Summary
<1>10. NotOlder(v, view[c])
  BY <1>2, <1>3, <1>6, <1>8, <1>9 DEF NotOlder
<1>11. Grows
  BY GrowsOrNot, ChildStepKeeps DEF Begins, ChildStep
<1>12. QED
  BY <1>2, <1>3, <1>6, <1>7, <1>10, <1>11, ViewsGoOn DEF Begins

\* An input is queued, or taken out of the queue, and nothing else is shown.
LEMMA QueueKeeps ==
  ASSUME ReceiptsInv, ReceiptsInv', ToldInv, WaitInv, [Next]_vars,
         NEW c \in Children, QueueInput(c) \/ UnqueueInput(c)
  PROVE  WaitInv'
<1>1. Write(c) /\ wait' = Woken
  BY DEF QueueInput, UnqueueInput
<1>2. /\ \A d \in Children \ {c} : child'[d] = child[d]
      /\ child'[c] = child[c]
  BY <1>1, CommitsOne DEF Write, ReceiptsInv
<1>3. view \in [Children -> Summary]
  BY DEF WaitInv, ViewSound
<1>4. PICK q \in Nat : view' = [view EXCEPT ![c].queue = q]
  <2>1. view[c].queue \in Nat
    BY <1>3 DEF Summary
  <2>2. CASE QueueInput(c)
    <3>1. view[c].queue + 1 \in Nat
      BY <2>1
    <3>2. QED
      BY <2>2, <3>1 DEF QueueInput
  <2>3. CASE UnqueueInput(c)
    <3>1. view[c].queue - 1 \in Nat
      BY <2>1, <2>3 DEF UnqueueInput
    <3>2. QED
      BY <2>3, <3>1 DEF UnqueueInput
  <2>4. QED
    BY <2>2, <2>3
<1>5. /\ view' \in [Children -> Summary]
      /\ view'[c].turn = view[c].turn /\ view'[c].run = view[c].run
      /\ view'[c].active = view[c].active
      /\ \A d \in Children \ {c} : view'[d] = view[d]
  BY ONLY <1>3, <1>4, c \in Children DEF Summary
<1>6. /\ view[c].turn = child[c].turn /\ view[c].run = child[c].run
      /\ ~view[c].active => ~child[c].live
      /\ view[c].active => view[c].turn > 0
  BY DEF WaitInv, ViewSound
<1>7. NotOlder(view'[c], view[c])
  BY <1>5 DEF NotOlder
<1>8. Grows
  BY <1>1, GrowsOrNot, ChildStepKeeps DEF ChildStep
<1>9. QED
  BY <1>1, <1>2, <1>5, <1>6, <1>7, <1>8, ViewsGoOn

LEMMA RunsKeeps ==
  ASSUME ReceiptsInv, ReceiptsInv', ToldInv, WaitInv, [Next]_vars, NEW c \in Children, Runs(c)
  PROVE  WaitInv'
<1>1. /\ \A d \in Children \ {c} : child'[d] = child[d]
      /\ child'[c].turn = child[c].turn /\ child'[c].run = child[c].run
      /\ child'[c].live => child[c].live
  BY RunStays
<1>2. UNCHANGED <<view, wait>>
  BY DEF Runs
<1>3. /\ view \in [Children -> Summary]
      /\ view[c].turn = child[c].turn /\ view[c].run = child[c].run
      /\ ~view[c].active => ~child[c].live
      /\ view[c].active => view[c].turn > 0
  BY DEF WaitInv, ViewSound
<1>4. NotOlder(view[c], view[c])
  BY DEF NotOlder
<1>5. Grows
  BY GrowsOrNot, ChildStepKeeps DEF Runs, ChildStep
<1>6. QED
  BY <1>1, <1>2, <1>3, <1>4, <1>5, ViewsGoOn

LEMMA PreparesKeeps ==
  ASSUME ReceiptsInv, ReceiptsInv', ToldInv, WaitInv, [Next]_vars, NEW c \in Children, Prepares(c)
  PROVE  WaitInv'
<1>1. UNCHANGED <<view, wait, child>>
  BY DEF Prepares, PassStep, Scan, RecoverReceipts, RecordCoverage
<1>2. /\ view \in [Children -> Summary]
      /\ view[c].turn = child[c].turn /\ view[c].run = child[c].run
      /\ ~view[c].active => ~child[c].live
      /\ view[c].active => view[c].turn > 0
  BY DEF WaitInv, ViewSound
<1>3. NotOlder(view[c], view[c])
  BY DEF NotOlder
<1>4. Grows
  BY GrowsOrNot, PassStepKeeps DEF Prepares
<1>5. QED
  BY <1>1, <1>2, <1>3, <1>4, ViewsGoOn

LEMMA PublishKeeps ==
  ASSUME ReceiptsInv, ReceiptsInv', ToldInv, WaitInv, [Next]_vars,
         NEW c \in Children, PublishView(c)
  PROVE  WaitInv'
<1>1. PICK q, t, v : q = view[c].queue /\ t = child[c] /\ v = Canonical(t, q)
  OBVIOUS
<1>2. Sound(t) /\ q \in Nat
  BY <1>1 DEF ReceiptsInv, ChildrenSound, WaitInv, ViewSound, Summary
<1>3. /\ v \in Summary /\ v.turn = t.turn /\ v.run = t.run /\ v.active = t.live
      /\ v.active => v.turn > 0
  BY <1>1, <1>2, CanonicalIs
<1>4. view \in [Children -> Summary] /\ view' = [view EXCEPT ![c] = v] /\ UNCHANGED child
  BY <1>1 DEF PublishView, WaitInv, ViewSound, vars
<1>5. /\ view' \in [Children -> Summary] /\ view'[c] = v
      /\ \A d \in Children \ {c} : view'[d] = view[d]
  BY ONLY <1>3, <1>4, c \in Children
<1>6. view[c].turn = child[c].turn /\ (~view[c].active => ~child[c].live)
  BY DEF WaitInv, ViewSound
<1>7. NotOlder(v, view[c])
  BY <1>1, <1>3, <1>6 DEF NotOlder
<1>8. Grows
  BY GrowsOrNot DEF PublishView, vars
<1>9. QED
  BY <1>1, <1>3, <1>4, <1>5, <1>7, <1>8, ViewsGoOn DEF PublishView

\* Nothing the views show has changed.
LEMMA ViewsStay ==
  ASSUME ReceiptsInv, ToldInv, WaitInv, [Next]_vars,
         UNCHANGED <<view, child, receipts>>, wait' \in {wait, Woken}
  PROVE  WaitInv'
<1>1. /\ FirstPending \in Nat /\ 1 <= FirstPending
      /\ FirstPending' \in Nat /\ FirstPending <= FirstPending'
  BY PendingMoves
<1>2. wait \in WaitCall
  BY DEF WaitInv, SeenBefore
<1>3. /\ wait' \in WaitCall /\ wait'.at = wait.at /\ wait'.todo = wait.todo
      /\ wait'.page = wait.page /\ wait'.reason = wait.reason /\ wait'.seen = wait.seen
  BY <1>2, WokenIs
<1>4. ViewSound'
  BY DEF WaitInv, ViewSound
<1>5. \A d \in Children : NotOlder(view'[d], view[d])
  BY DEF NotOlder
<1>6. Grows
  BY DEF Grows, ReceiptsInv, ReceiptsTyped
<1>7. QED
  BY <1>1, <1>3, <1>4, <1>5, <1>6, WaitGoesOn

\* A call that has read nothing.
LEMMA ReadsNothing ==
  ASSUME ViewSound', wait' \in WaitCall, wait'.page = {}, wait'.reason = "",
         wait'.seen = [c \in Children |-> NoSummary]
  PROVE  WaitInv'
<1>1. SeenBefore'
  <2>1. ASSUME NEW c \in Children
        PROVE  NotOlder(view'[c], wait'.seen[c])
    <3>1. PICK v, s : v = view'[c] /\ s = wait'.seen[c]
      OBVIOUS
    <3>2. v \in Summary /\ (v.active => v.turn > 0)
      BY <3>1 DEF ViewSound
    <3>3. s = NoSummary
      BY <3>1
    <3>4. s.turn = 0
      BY ONLY <3>3 DEF NoSummary
    <3>5. v.turn \in Nat
      BY <3>2 DEF Summary
    <3>6. NotOlder(v, s)
      BY ONLY <3>2, <3>4, <3>5 DEF NotOlder
    <3>7. QED
      BY <3>1, <3>6
  <2>2. QED
    BY <2>1 DEF SeenBefore, NotOlder
<1>2. PageRead' /\ Reasoned' /\ WaitReliable'
  BY DEF PageRead, Reasoned, WaitReliable
<1>3. QED
  BY <1>1, <1>2 DEF WaitInv

LEMMA NoWaitFits == NoWait \in WaitCall
  BY DEF NoWait, WaitCall, NoSummary, Summary

LEMMA AsleepKeeps ==
  ASSUME ViewSound', NEW woken \in BOOLEAN,
         wait' = [NoWait EXCEPT !.at = "asleep", !.woken = woken]
  PROVE  WaitInv'
<1>1. [NoWait EXCEPT !.at = "asleep", !.woken = woken] \in WaitCall
  BY ONLY NoWaitFits, woken \in BOOLEAN DEF WaitCall
<1>2. wait'.page = {} /\ wait'.reason = "" /\ wait'.seen = [c \in Children |-> NoSummary]
  BY DEF NoWait
<1>3. QED
  BY <1>1, <1>2, ReadsNothing

LEMMA NoWaitKeeps ==
  ASSUME ViewSound', wait' = NoWait
  PROVE  WaitInv'
<1>1. wait' \in WaitCall
  BY NoWaitFits
<1>2. wait'.page = {} /\ wait'.reason = "" /\ wait'.seen = [c \in Children |-> NoSummary]
  BY DEF NoWait
<1>3. QED
  BY <1>1, <1>2, ReadsNothing

\* List reads a view.
LEMMA ListKeeps ==
  ASSUME ReceiptsInv, WaitInv, NEW c \in Children, List(c)
  PROVE  WaitInv'
<1>1. PICK seen, todo : seen = [wait.seen EXCEPT ![c] = view[c]] /\ todo = wait.todo \ {c}
  OBVIOUS
<1>2. /\ wait \in WaitCall /\ view \in [Children -> Summary]
      /\ wait.seen \in [Children -> Summary] /\ wait.todo \subseteq Children
  BY DEF WaitInv, SeenBefore, ViewSound, WaitCall
<1>3. seen \in [Children -> Summary] /\ todo \in SUBSET Children
  BY ONLY <1>1, <1>2, c \in Children
<1>4. wait' = [wait EXCEPT !.seen = seen, !.todo = todo]
  BY <1>1, <1>2 DEF List, WaitCall
<1>5. [wait EXCEPT !.seen = seen, !.todo = todo] \in WaitCall
  BY ONLY <1>2, <1>3 DEF WaitCall
<1>6. /\ wait' \in WaitCall /\ wait'.at = wait.at /\ wait'.todo = todo /\ wait'.page = wait.page
      /\ wait'.reason = wait.reason /\ wait'.seen = seen
  BY ONLY <1>2, <1>4, <1>5 DEF WaitCall
<1>7. UNCHANGED <<receipts, view, child>>
  BY DEF List, vars
<1>8. seen[c] = view[c] /\ \A d \in Children \ {c} : seen[d] = wait.seen[d]
  BY ONLY <1>1, <1>2, c \in Children
<1>9. SeenBefore'
  <2>1. \A d \in Children : NotOlder(view[d], seen[d])
    BY <1>8 DEF WaitInv, SeenBefore, NotOlder
  <2>2. QED
    BY <1>6, <1>7, <2>1 DEF SeenBefore, NotOlder
<1>10. PageRead'
  <2>1. SUFFICES ASSUME wait.at = "relist", NEW i \in wait.page, receipts[i].kind = "terminal",
                        receipts[i].child \notin todo
                 PROVE  ReadAfter(seen[receipts[i].child], receipts[i])
    BY <1>6, <1>7 DEF WaitInv, PageRead, ReadAfter
  <2>2. i \in 1..Len(receipts) /\ receipts[i] \in Receipt
    BY DEF WaitInv, PageRead, ReceiptsInv, ReceiptsTyped
  <2>3. PICK e : e = receipts[i]
    OBVIOUS
  <2>4. e.child \in Children /\ e.turn \in Nat
    BY <2>2, <2>3 DEF Receipt
  <2>5. CASE e.child = c
    <3>1. ReceiptOf(e, child[c])
      BY <2>2, <2>3, <2>5 DEF ReceiptsInv, ReceiptsFit
    <3>2. view[c].turn = child[c].turn /\ view[c].run = child[c].run
      BY DEF WaitInv, ViewSound
    <3>3. QED
      BY <1>8, <2>1, <2>3, <2>5, <3>1, <3>2 DEF ReceiptOf, ReadAfter
  <2>6. CASE e.child # c
    <3>1. e.child \notin wait.todo
      BY <1>1, <2>1, <2>3, <2>6
    <3>2. ReadAfter(wait.seen[e.child], e)
      BY <2>1, <2>3, <3>1 DEF WaitInv, PageRead
    <3>3. QED
      BY <1>8, <2>3, <2>4, <2>6, <3>2
  <2>7. QED
    BY <2>5, <2>6
<1>11. wait.reason = ""
  BY DEF List, WaitInv, Reasoned
<1>12. Reasoned' /\ WaitReliable'
  BY <1>6, <1>11 DEF Reasoned, WaitReliable
<1>13. QED
  BY <1>7, <1>9, <1>10, <1>12 DEF WaitInv, ViewSound

LEMMA ReturnsIs ==
  ASSUME wait \in WaitCall, NEW reason \in {"attention", "completed", "events", "timed_out"},
         Returns(reason)
  PROVE  /\ wait' \in WaitCall /\ wait'.at = "returned" /\ wait'.reason = reason
         /\ wait'.page = wait.page /\ wait'.seen = wait.seen
<1>1. wait' = [wait EXCEPT !.at = "returned", !.reason = reason]
  BY DEF Returns
<1>2. [wait EXCEPT !.at = "returned", !.reason = reason] \in WaitCall
  BY ONLY wait \in WaitCall, reason \in {"attention", "completed", "events", "timed_out"}
  DEF WaitCall
<1>3. QED
  BY ONLY <1>1, <1>2, wait \in WaitCall DEF WaitCall

\* A page that is settled shows the ends of what it reports.
LEMMA SettledShows ==
  ASSUME ReceiptsInv, WaitInv, wait.at = "relist", wait.todo = {}, Settled,
         NEW i \in wait.page, receipts[i].kind = "terminal"
  PROVE  \/ view[receipts[i].child].turn > receipts[i].turn
         \/ view[receipts[i].child].turn = receipts[i].turn /\ ~view[receipts[i].child].active
<1>1. PICK e : e = receipts[i] /\ e \in Receipt
  BY DEF WaitInv, PageRead, ReceiptsInv, ReceiptsTyped
<1>2. PICK c \in Children : c = e.child
  BY <1>1 DEF Receipt
<1>3. PICK s, v \in Summary : s = wait.seen[c] /\ v = view[c]
  BY DEF WaitInv, SeenBefore, ViewSound, WaitCall
<1>4. ReadAfter(s, e)
  BY <1>1, <1>2, <1>3 DEF WaitInv, PageRead
<1>5. ~(s.active /\ s.turn = e.turn /\ s.run = e.run)
  BY <1>1, <1>2, <1>3 DEF Settled
<1>6. NotOlder(v, s)
  BY <1>3 DEF WaitInv, SeenBefore
<1>7. e.turn \in Nat /\ s.turn \in Nat /\ v.turn \in Nat
  BY <1>1, <1>3 DEF Receipt, Summary
<1>8. v.turn > e.turn \/ (v.turn = e.turn /\ ~v.active)
  BY ONLY <1>4, <1>5, <1>6, <1>7 DEF ReadAfter, NotOlder
<1>9. QED
  BY <1>1, <1>2, <1>3, <1>8

LEMMA ReturnsKeep ==
  ASSUME ReceiptsInv, WaitInv, UNCHANGED <<vars, view>>,
         NEW reason \in {"attention", "completed", "events", "timed_out"}, Returns(reason),
         reason = "completed" => ~Active /\ PendingReceipts = {},
         reason = "events" => wait.at = "relist" /\ wait.todo = {} /\ Settled
  PROVE  WaitInv'
<1>1. /\ wait' \in WaitCall /\ wait'.at = "returned" /\ wait'.reason = reason
      /\ wait'.page = wait.page /\ wait'.seen = wait.seen
  BY ReturnsIs DEF WaitInv, SeenBefore
<1>2. UNCHANGED <<receipts, view, child, admitted>>
  BY DEF vars
<1>3. ViewSound' /\ SeenBefore'
  BY <1>1, <1>2 DEF WaitInv, ViewSound, SeenBefore, NotOlder
<1>4. PageRead' /\ Reasoned'
  BY <1>1, <1>2 DEF WaitInv, PageRead, Reasoned, Active
<1>5. PendingReceipts' = PendingReceipts
  BY <1>2 DEF PendingReceipts, FirstPending
<1>6. WaitReliable'
  <2>1. reason = "completed" => PendingReceipts' = {}
    BY <1>5
  <2>2. reason = "events" =>
          \A i \in wait.page : receipts[i].kind = "terminal" =>
            LET v == view[receipts[i].child] IN
              v.turn > receipts[i].turn \/ (v.turn = receipts[i].turn /\ ~v.active)
    BY SettledShows
  <2>3. QED
    BY <1>1, <1>2, <2>1, <2>2 DEF WaitReliable
<1>7. QED
  BY <1>3, <1>4, <1>6 DEF WaitInv

LEMMA OutcomeKeeps ==
  ASSUME ReceiptsInv, WaitInv, UNCHANGED <<vars, view>>,
         NEW reason \in {"", "attention", "completed", "events"}, Outcome(reason),
         reason = "completed" => ~Active /\ PendingReceipts = {},
         reason = "events" => wait.at = "relist" /\ wait.todo = {} /\ Settled
  PROVE  WaitInv'
<1>1. CASE reason = ""
  <2>1. PICK woken \in BOOLEAN : woken = wait.woken
    BY DEF WaitInv, SeenBefore, WaitCall
  <2>2. wait' = [NoWait EXCEPT !.at = "asleep", !.woken = woken]
    BY <1>1, <2>1 DEF Outcome
  <2>3. ViewSound'
    BY DEF WaitInv, ViewSound, vars
  <2>4. QED
    BY <2>2, <2>3, AsleepKeeps
<1>2. CASE reason # ""
  BY <1>2, ReturnsKeep DEF Outcome
<1>3. QED
  BY <1>1, <1>2

\* The call is at another place, its page and what it has seen as they were.
LEMMA PlaceKeeps ==
  ASSUME ReceiptsInv, WaitInv, UNCHANGED <<vars, view>>, wait.reason = "",
         NEW at \in {"list", "page", "relist"}, NEW page \in SUBSET (1..Len(receipts)),
         at = "relist" => wait'.todo = Children,
         wait' \in WaitCall, wait'.at = at, wait'.page = page, wait'.reason = "",
         wait'.seen = wait.seen
  PROVE  WaitInv'
<1>1. UNCHANGED <<receipts, view, child, admitted>>
  BY DEF vars
<1>2. ViewSound' /\ SeenBefore'
  BY <1>1 DEF WaitInv, ViewSound, SeenBefore, NotOlder
<1>3. \A i \in page : receipts[i].child \in Children
  <2>1. \A i \in page : receipts[i] \in Receipt
    <3>1. receipts \in Seq(Receipt)
      BY DEF ReceiptsInv, ReceiptsTyped
    <3>2. \A i \in 1..Len(receipts) : receipts[i] \in Receipt
      BY ONLY <3>1
    <3>3. QED
      BY <3>2
  <2>2. QED
    BY ONLY <2>1 DEF Receipt
<1>4. PageRead' /\ Reasoned' /\ WaitReliable'
  BY <1>1, <1>3 DEF PageRead, Reasoned, WaitReliable
<1>5. QED
  BY <1>2, <1>4 DEF WaitInv

LEMMA SelectKeeps ==
  ASSUME ReceiptsInv, WaitInv, Select
  PROVE  WaitInv'
<1>1. wait \in WaitCall /\ UNCHANGED <<vars, view>> /\ wait.reason = ""
  BY DEF Select, WaitInv, SeenBefore, Reasoned
<1>2. CASE Attention
  BY <1>1, <1>2, ReturnsKeep DEF Select
<1>3. CASE ~Attention
  <2>1. wait' = [wait EXCEPT !.at = "page"]
    BY <1>3 DEF Select
  <2>2. [wait EXCEPT !.at = "page"] \in WaitCall
    BY ONLY <1>1 DEF WaitCall
  <2>3. /\ wait' \in WaitCall /\ wait'.at = "page" /\ wait'.page = wait.page
        /\ wait'.reason = "" /\ wait'.seen = wait.seen
    BY ONLY <1>1, <2>1, <2>2 DEF WaitCall
  <2>4. wait.page \in SUBSET (1..Len(receipts))
    BY DEF WaitInv, PageRead
  <2>5. QED
    BY <1>1, <2>3, <2>4, PlaceKeeps
<1>4. QED
  BY <1>2, <1>3

LEMMA ReadPageKeeps ==
  ASSUME ReceiptsInv, ToldInv, WaitInv, ReadPage
  PROVE  WaitInv'
<1>1. wait \in WaitCall /\ UNCHANGED <<vars, view>> /\ wait.reason = ""
  BY DEF ReadPage, WaitInv, SeenBefore, Reasoned
<1>2. CASE PendingReceipts = {}
  <2>1. Selected \in {"", "attention", "completed"} /\ (Selected = "completed" => ~Active)
    BY DEF Selected
  <2>2. Outcome(Selected)
    BY <1>2 DEF ReadPage
  <2>3. QED
    BY <1>1, <1>2, <2>1, <2>2, OutcomeKeeps
<1>3. CASE PendingReceipts # {}
  <2>1. PICK page : page = PendingReceipts
    OBVIOUS
  <2>2. wait' = [wait EXCEPT !.at = "relist", !.todo = Children, !.page = page]
    BY <1>3, <2>1 DEF ReadPage
  <2>3. FirstPending \in Nat /\ 1 <= FirstPending /\ Len(receipts) \in Nat
    BY PendingBounds DEF ToldInv, AdmittedInOrder
  <2>4. page \in SUBSET (1..Len(receipts)) /\ page \in SUBSET Nat
    BY <2>1, <2>3 DEF PendingReceipts
  <2>5. [wait EXCEPT !.at = "relist", !.todo = Children, !.page = page] \in WaitCall
    BY ONLY <1>1, <2>4 DEF WaitCall
  <2>6. /\ wait' \in WaitCall /\ wait'.at = "relist" /\ wait'.page = page
        /\ wait'.todo = Children /\ wait'.reason = "" /\ wait'.seen = wait.seen
    BY ONLY <1>1, <2>2, <2>5 DEF WaitCall
  <2>7. QED
    BY <1>1, <2>4, <2>6, PlaceKeeps
<1>4. QED
  BY <1>2, <1>3

LEMMA SelectAgainKeeps ==
  ASSUME ReceiptsInv, WaitInv, SelectAgain
  PROVE  WaitInv'
<1>1. wait \in WaitCall /\ UNCHANGED <<vars, view>>
  BY DEF SelectAgain, WaitInv, SeenBefore
<1>2. CASE Attention \/ ~Settled
  <2>1. Outcome(Selected)
    BY <1>2 DEF SelectAgain
  <2>2. ~Settled => Active
    <3>1. SUFFICES ASSUME NEW i \in wait.page, wait.seen[receipts[i].child].active
                   PROVE  Active
      BY DEF Settled
    <3>2. receipts[i] \in Receipt
      BY DEF WaitInv, PageRead, ReceiptsInv, ReceiptsTyped
    <3>3. receipts[i].child \in Children
      BY ONLY <3>2 DEF Receipt
    <3>4. QED
      BY <3>1, <3>3 DEF Active
  <2>3. Selected \in {"", "attention"}
    BY <1>2, <2>2 DEF Selected
  <2>4. QED
    BY <1>1, <2>1, <2>3, OutcomeKeeps
<1>3. CASE ~(Attention \/ ~Settled)
  <2>1. Outcome("events") /\ Settled /\ wait.at = "relist" /\ wait.todo = {}
    BY <1>3 DEF SelectAgain
  <2>2. QED
    BY <1>1, <2>1, OutcomeKeeps
<1>4. QED
  BY <1>2, <1>3

LEMMA WakeKeeps ==
  ASSUME ReceiptsInv, WaitInv, Wake
  PROVE  WaitInv'
<1>1. wait \in WaitCall /\ UNCHANGED <<vars, view>> /\ wait.reason = ""
  BY DEF Wake, WaitInv, SeenBefore, Reasoned
<1>2. wait' = [wait EXCEPT !.at = "list", !.woken = FALSE, !.todo = Children]
  BY DEF Wake
<1>3. [wait EXCEPT !.at = "list", !.woken = FALSE, !.todo = Children] \in WaitCall
  BY ONLY <1>1 DEF WaitCall
<1>4. /\ wait' \in WaitCall /\ wait'.at = "list" /\ wait'.page = wait.page
      /\ wait'.reason = "" /\ wait'.seen = wait.seen
  BY ONLY <1>1, <1>2, <1>3 DEF WaitCall
<1>5. wait.page \in SUBSET (1..Len(receipts))
  BY DEF WaitInv, PageRead
<1>6. QED
  BY <1>1, <1>4, <1>5, PlaceKeeps

LEMMA CallKeeps ==
  ASSUME WaitInv, CallWait
  PROVE  WaitInv'
<1>1. wait' = [NoWait EXCEPT !.at = "list", !.todo = Children]
  BY DEF CallWait
<1>2. [NoWait EXCEPT !.at = "list", !.todo = Children] \in WaitCall
  BY ONLY NoWaitFits DEF WaitCall
<1>3. wait'.page = {} /\ wait'.reason = "" /\ wait'.seen = [c \in Children |-> NoSummary]
  BY <1>1 DEF NoWait
<1>4. ViewSound'
  BY DEF CallWait, WaitInv, ViewSound, vars
<1>5. QED
  BY <1>1, <1>2, <1>3, <1>4, ReadsNothing

LEMMA EndsKeep ==
  ASSUME WaitInv, WaitEnds
  PROVE  WaitInv'
<1>1. wait' = NoWait
  BY DEF WaitEnds
<1>2. UNCHANGED <<child, view>>
  BY DEF WaitEnds, ToolReturns, ParentStops, ParentWrites
<1>3. ViewSound'
  BY <1>2 DEF WaitInv, ViewSound
<1>4. QED
  BY <1>1, <1>3, NoWaitKeeps

LEMMA RestartsKeep ==
  ASSUME ReceiptsInv, WaitInv, Restarts
  PROVE  WaitInv'
<1>1. wait' = NoWait
  BY DEF Restarts
<1>2. /\ child' = [c \in Children |-> [child[c] EXCEPT !.exec = FALSE]]
      /\ view' = [c \in Children |-> Canonical(child[c], view[c].queue)]
  BY DEF Restarts, Restart
<1>3. \A c \in Children : child[c] \in Turn /\ Sound(child[c])
  BY DEF ReceiptsInv, ChildrenSound
<1>4. ASSUME NEW c \in Children
      PROVE  /\ view'[c] \in Summary
             /\ view'[c].turn = child'[c].turn /\ view'[c].run = child'[c].run
             /\ ~view'[c].active => ~child'[c].live
             /\ view'[c].active => view'[c].turn > 0
  <2>1. PICK q, t, v : /\ q = view[c].queue /\ t = child[c] /\ v = Canonical(t, q)
                       /\ q \in Nat /\ t \in Turn /\ Sound(t)
    BY <1>3 DEF WaitInv, ViewSound, Summary
  <2>2. /\ v \in Summary /\ v.turn = t.turn /\ v.run = t.run /\ v.active = t.live
        /\ v.active => v.turn > 0
    BY <2>1, CanonicalIs
  <2>3. child'[c] = [t EXCEPT !.exec = FALSE] /\ view'[c] = v
    BY <1>2, <2>1
  <2>4. child'[c].turn = t.turn /\ child'[c].run = t.run /\ child'[c].live = t.live
    BY ONLY <2>1, <2>3 DEF Turn
  <2>5. QED
    BY ONLY <2>2, <2>3, <2>4
<1>5. ViewSound'
  BY <1>2, <1>4 DEF ViewSound
<1>6. QED
  BY <1>1, <1>5, NoWaitKeeps

LEMMA WaitStep ==
  ASSUME ReceiptsInv, ReceiptsInv', ToldInv, WaitInv, [WaitNext]_allVars
  PROVE  WaitInv'
<1>1. [Next]_vars
  BY WaitStepIs
<1>2. CASE UNCHANGED allVars
  <2>1. UNCHANGED <<view, child, receipts, wait>>
    BY <1>2 DEF allVars, waitVars, vars
  <2>2. QED
    BY <1>1, <2>1, ViewsStay
<1>3. CASE \E c \in Children :
             \/ Begins(c) \/ QueueInput(c) \/ UnqueueInput(c)
             \/ Runs(c) \/ Prepares(c) \/ PublishView(c) \/ List(c)
  BY <1>1, <1>3, BeginsKeeps, QueueKeeps, RunsKeeps, PreparesKeeps, PublishKeeps, ListKeeps
<1>4. CASE ObserveParentEvents
  <2>1. UNCHANGED <<view, child, receipts>> /\ wait' = Woken
    BY <1>4 DEF ObserveParentEvents, vars
  <2>2. QED
    BY <1>1, <2>1, ViewsStay
<1>5. CASE ParentRuns
  <2>1. UNCHANGED <<view, child, receipts, wait>>
    BY <1>5 DEF ParentRuns, ParentStart, ParentResumes, ParentRetry, Admit, Respond, ParentWrites
  <2>2. QED
    BY <1>1, <2>1, ViewsStay
<1>6. CASE TimesOut
  BY <1>6, ReturnsKeep DEF TimesOut
<1>7. CASE CallWait \/ Select \/ ReadPage \/ SelectAgain \/ Wake \/ WaitEnds \/ Restarts
  BY <1>7, CallKeeps, SelectKeeps, ReadPageKeeps, SelectAgainKeeps, WakeKeeps, EndsKeep,
     RestartsKeep
<1>8. QED
  BY <1>2, <1>3, <1>4, <1>5, <1>6, <1>7 DEF WaitNext

LEMMA InitWait == WaitInit => WaitInv
<1> SUFFICES ASSUME WaitInit PROVE WaitInv
  OBVIOUS
<1>1. /\ child = [c \in Children |-> NoTurn] /\ view = [c \in Children |-> NoSummary]
      /\ wait = NoWait
  BY DEF WaitInit, Init
<1>2. ViewSound
  BY <1>1 DEF ViewSound, NoTurn, NoSummary, Summary
<1>3. wait \in WaitCall
  BY <1>1, NoWaitFits
<1>4. wait.page = {} /\ wait.reason = "" /\ wait.seen = [c \in Children |-> NoSummary]
  BY <1>1 DEF NoWait
<1>5. SeenBefore
  BY <1>1, <1>3, <1>4 DEF SeenBefore, NotOlder, NoSummary
<1>6. PageRead /\ Reasoned /\ WaitReliable
  BY <1>4 DEF PageRead, Reasoned, WaitReliable
<1>7. QED
  BY <1>2, <1>5, <1>6 DEF WaitInv

\* A wait that returns "completed" has no receipt left to read of what it shows
\* as over, and one that returns "events" shows the ends it reports.
THEOREM WaitSaysWhatIs == WaitSpec => []WaitReliable
<1>1. ReceiptsInv /\ ToldInv /\ WaitInv /\ [WaitNext]_allVars
        => (ReceiptsInv /\ ToldInv /\ WaitInv)'
  BY WaitStepIs, ReceiptsStep, ToldStep, WaitStep
<1>2. WaitInv => WaitReliable
  BY DEF WaitInv
<1>3. QED
  BY <1>1, <1>2, InitHolds, InitWait, PTL DEF WaitSpec
=============================================================================
