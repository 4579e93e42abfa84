---------------------------- MODULE TurnsProofs ----------------------------
(***************************************************************************)
(* Proofs about Turns.                                                     *)
(*                                                                         *)
(* An operation rewrites the store several times before it commits, so the *)
(* inductive invariant is a predicate of a store, Good, and each operator  *)
(* of Turns that gives a store has a lemma: from a good store it gives a   *)
(* good one, and what it did to each turn: none but the turn that the tick *)
(* launches comes to run.  The steps of Next then follow from the lemma of *)
(* the operator each commits.                                              *)
(***************************************************************************)
EXTENDS Turns, FiniteSetTheorems, WellFoundedInduction, TLAPS

StoreType == [runs : [Ids -> RunRow \cup {NoRun}], wakes : [Ids -> WakeRow \cup {NoWake}],
              task : [Tasks -> TaskRow], stopped : BOOLEAN]

\* The parts of a good store: a task has one live turn; the kill switch leaves none; turns and
\* wakes name each other; retries are bounded.
OneTurnIn(d) == \A r, q \in Ids : /\ d.runs[r].status \in Live /\ d.runs[q].status \in Live
                                  /\ d.runs[r].task = d.runs[q].task /\ d.runs[r].task # NoTask
                                  => r = q
QuietIn(d)   == d.stopped => \A r \in Ids : d.runs[r].status \notin Live

Answers(run) == IF run.status = "Running" THEN {"Started"} ELSE {"Queued", "Started"}

LinkedIn(d) ==
  /\ \A r \in Ids : d.runs[r] \in RunRow => d.wakes[d.runs[r].wake].run = r
  /\ \A r \in Ids : d.runs[r].status \in Live =>
       d.wakes[d.runs[r].wake].receipt \in Answers(d.runs[r])
  /\ \A w \in Ids : d.wakes[w].receipt \in {"Queued", "Started"} =>
       /\ d.wakes[w].run \in Ids /\ d.runs[d.wakes[w].run].status \in Live
       /\ d.runs[d.wakes[w].run].wake = w
  /\ \A w \in Ids : d.wakes[w].receipt = "Held" => d.wakes[w].run = 0

Bounded(run) ==
  /\ run.attempts <= MostRetries + MostQuiet + 1
  /\ run.status \in Live \ {"Running"} => OwnAttempts(run.attempts, run.interrupted) <= MostRetries

BoundedIn(d) == \A r \in Ids : Bounded(d.runs[r])

Sound(d) == /\ d \in StoreType
            /\ OneTurnIn(d) /\ QuietIn(d) /\ LinkedIn(d) /\ BoundedIn(d)

\* Two held wakes of one member for one task are one.  It stands apart: a wake that is to queue
\* its turn at once is first given a row as if it were held.
SameHeld(d, v, w) == /\ d.wakes[v].receipt = "Held" /\ d.wakes[w].receipt = "Held"
                     /\ d.wakes[v].task = d.wakes[w].task /\ d.wakes[v].member = d.wakes[w].member
HeldOnceIn(d)     == \A v, w \in Ids : SameHeld(d, v, w) => v = w
HeldOnceBut(d, u) == \A v, w \in Ids \ {u} : SameHeld(d, v, w) => v = w

Good(d) == Sound(d) /\ HeldOnceIn(d)

\* What raising work does to a turn: nothing to one that is over, queued or running; one that
\* waits to be tried again may be brought forward; a new one is queued.
Kept(x, y) ==
  /\ x.status \in Ended \cup {"Queued", "Running"} => y = x
  /\ x.status = "RetryWaiting" =>
       /\ y \in RunRow /\ y.status \in {"RetryWaiting", "Queued"}
       /\ y.member = x.member /\ y.task = x.task /\ y.wake = x.wake
  /\ x.status = "None" => y.status \in {"None", "RetryWaiting", "Queued"}

Raises(d, e) == /\ Good(e) /\ e.stopped = d.stopped
                /\ \A r \in Ids : Kept(d.runs[r], e.runs[r])

---------------------------------------------------------------------------
(* Ids and rows.                                                           *)

\* Every set of numbers has a least.
LEMMA LeastOf ==
  ASSUME NEW S \in SUBSET Nat, S # {}
  PROVE  \E i \in S : \A j \in S : i <= j
  <1> DEFINE R == {p \in Nat \X Nat : p[1] < p[2]}
  <1>1. IsWellFoundedOn(R, Nat)
    BY NatLessThanWellFounded DEF OpToRel
  <1>2. \E i \in S : \A j \in S : <<j, i>> \notin R
    <2> HIDE DEF R
    <2> QED  BY <1>1, WFMin
  <1>3. ASSUME NEW i \in Nat, NEW j \in Nat, <<j, i>> \notin R
        PROVE  i <= j
    <2>1. ~(<<j, i>>[1] < <<j, i>>[2])
      BY <1>3
    <2> QED  BY <2>1
  <1> HIDE DEF R
  <1>4. PICK i \in S : \A j \in S : <<j, i>> \notin R
    BY <1>2
  <1> QED  BY <1>3, <1>4

\* Oldest picks the least of a set of ids: the code's `order by id limit 1`.
LEMMA OldestOf ==
  ASSUME NEW S \in SUBSET Ids, S # {}
  PROVE  Oldest(S) \in S /\ \A j \in S : Oldest(S) <= j
  <1>1. S \subseteq Nat
    BY TurnsAssumption DEF Ids
  <1>2. PICK i \in S : \A j \in S : i <= j
    BY <1>1, LeastOf
  <1> QED  BY <1>2 DEF Oldest

\* And the latest of them is the greatest.
LEMMA LatestOf ==
  ASSUME NEW S \in SUBSET Ids, S # {}
  PROVE  (CHOOSE i \in S : \A j \in S : j <= i) \in S
  <1> DEFINE T == {MaxIds - i : i \in S}
  <1>1. MaxIds \in Nat /\ \A i \in S : i \in Nat /\ MaxIds - i \in Nat
    BY TurnsAssumption DEF Ids
  <1>2. T \in SUBSET Nat /\ T # {}
    BY <1>1
  <1>3. PICK i \in T : \A j \in T : i <= j
    <2> HIDE DEF T
    <2> QED  BY <1>2, LeastOf
  <1>4. PICK k \in S : i = MaxIds - k
    OBVIOUS
  <1>5. ASSUME NEW j \in S
        PROVE  j <= k
    <2>1. i <= MaxIds - j
      BY <1>3
    <2> QED  BY <1>1, <1>4, <2>1
  <1> QED  BY <1>5

\* The rows of ids not yet given out.
LEMMA EmptyRows ==
  /\ NoRun.status = "None" /\ NoRun \notin RunRow /\ NoRun.attempts = 0
  /\ NoWake.receipt = "None" /\ NoWake \notin WakeRow /\ NoWake.run = 0
  /\ 0 \notin Ids
  BY TurnsAssumption DEF NoRun, RunRow, NoWake, WakeRow, Live, Ended, Ids

\* A row of a good store's runs table is a turn or an id not yet given out.
LEMMA RunRows ==
  ASSUME NEW d \in StoreType, NEW r \in Ids
  PROVE  /\ d.runs[r] \in RunRow <=> d.runs[r].status # "None"
         /\ d.runs[r].status = "None" <=> d.runs[r] = NoRun
         /\ d.runs[r].status \in Live \cup Ended \cup {"None"}
  BY EmptyRows DEF StoreType, RunRow, NoRun, Live, Ended

\* Likewise of its wakes table.
LEMMA WakeRows ==
  ASSUME NEW d \in StoreType, NEW w \in Ids
  PROVE  /\ d.wakes[w] \in WakeRow <=> d.wakes[w].receipt # "None"
         /\ d.wakes[w].receipt = "None" <=> d.wakes[w] = NoWake
  BY EmptyRows DEF StoreType, WakeRow, NoWake, Receipts

\* A wake that names a turn, or is held, has a row of its own.
LEMMA WakeOfRow ==
  ASSUME NEW d, Sound(d), NEW r \in Ids, d.runs[r] \in RunRow
  PROVE  /\ d.runs[r].wake \in Ids /\ d.wakes[d.runs[r].wake] \in WakeRow
         /\ d.wakes[d.runs[r].wake].run = r
         /\ d.wakes[d.runs[r].wake].receipt # "Held"
  <1>1. d.runs[r].wake \in Ids
    BY DEF RunRow
  <1>2. d.wakes[d.runs[r].wake].run = r
    BY DEF Sound, LinkedIn
  <1> QED  BY <1>1, <1>2, EmptyRows DEF Sound, StoreType, LinkedIn

LEMMA WakeOfTurn ==
  ASSUME NEW d, Good(d), NEW r \in Ids, d.runs[r] \in RunRow
  PROVE  /\ d.runs[r].wake \in Ids /\ d.wakes[d.runs[r].wake] \in WakeRow
         /\ d.wakes[d.runs[r].wake].run = r
         /\ d.wakes[d.runs[r].wake].receipt # "Held"
  BY WakeOfRow DEF Good

\* An id for a new turn is found whenever one is free.
LEMMA FreshRunIsFree ==
  ASSUME NEW d \in StoreType, \E r \in Ids : d.runs[r].status = "None"
  PROVE  FreshRun(d) \in Ids /\ d.runs[FreshRun(d)].status = "None"
  <1> DEFINE S == {r \in Ids : d.runs[r].status = "None"}
  <1>1. S \in SUBSET Ids /\ S # {}  OBVIOUS
  <1>2. Oldest(S) \in S  BY <1>1, OldestOf
  <1> QED  BY <1>2 DEF FreshRun

\* And an id for a new wake.
LEMMA FreshWakeIsFree ==
  ASSUME NEW d \in StoreType, \E w \in Ids : d.wakes[w].receipt = "None"
  PROVE  FreshWake(d) \in Ids /\ d.wakes[FreshWake(d)] = NoWake
  <1> DEFINE S == {w \in Ids : d.wakes[w].receipt = "None"}
  <1>1. S \in SUBSET Ids /\ S # {}  OBVIOUS
  <1>2. Oldest(S) \in S  BY <1>1, OldestOf
  <1> QED  BY <1>2, WakeRows DEF FreshWake

\* Raising twice is raising.
LEMMA RaisesTwice ==
  ASSUME NEW d, NEW e, NEW f, d \in StoreType, Raises(d, e), Raises(e, f)
  PROVE  Raises(d, f)
  <1>1. ASSUME NEW r \in Ids
        PROVE  Kept(d.runs[r], f.runs[r])
    <2>1. Kept(d.runs[r], e.runs[r]) /\ Kept(e.runs[r], f.runs[r])
      BY DEF Raises
    <2>2. e.runs[r].status = "None" \/ e.runs[r] \in RunRow
      BY RunRows DEF Raises, Good, Sound
    <2> QED  BY <2>1, <2>2 DEF Kept, Ended
  <1> QED  BY <1>1 DEF Raises

\* Changing nothing, or only tasks, raises nothing and spoils nothing.
LEMMA RaisesNothing ==
  ASSUME NEW d, NEW e, Good(d), e \in StoreType,
         e.runs = d.runs, e.wakes = d.wakes, e.stopped = d.stopped
  PROVE  Raises(d, e)
  <1>1. \A r \in Ids : Kept(d.runs[r], d.runs[r])
    BY RunRows DEF Good, Sound, Kept, StoreType
  <1>2. Good(e)
    BY DEF Good, Sound, OneTurnIn, QuietIn, LinkedIn, BoundedIn, HeldOnceIn, SameHeld
  <1> QED  BY <1>1, <1>2 DEF Raises

\* Where no wake is held but those that were, as they were, a member still has one for a task.
LEMMA HeldFewer ==
  ASSUME NEW d, NEW e, HeldOnceIn(d),
         \A v \in Ids : e.wakes[v].receipt = "Held" => e.wakes[v] = d.wakes[v]
  PROVE  HeldOnceIn(e)
  BY DEF HeldOnceIn, SameHeld

---------------------------------------------------------------------------
(* Waking.                                                                 *)

\* A held wake, on a task that no live turn is on, queues its turn.
LEMMA QueueTurnRaises ==
  ASSUME NEW d, NEW w \in Ids, NEW c, Sound(d), HeldOnceBut(d, w), ~d.stopped,
         d.wakes[w].receipt = "Held",
         \E r \in Ids : d.runs[r].status = "None",
         d.wakes[w].task # NoTask =>
           \A r \in Ids : ~(d.runs[r].status \in Live /\ d.runs[r].task = d.wakes[w].task)
  PROVE  Raises(d, QueueTurn(d, w, c))
  <1> DEFINE r   == FreshRun(d)
             row == d.wakes[w]
             e   == QueueTurn(d, w, c)
  <1>1. d \in StoreType /\ r \in Ids /\ d.runs[r].status = "None"
    BY FreshRunIsFree DEF Good, Sound
  <1>2. row \in WakeRow /\ row.run = 0
    BY <1>1, WakeRows DEF Good, Sound, LinkedIn
  <1>3. PICK s \in {"RetryWaiting", "Queued"} :
          e = [d EXCEPT !.runs[r] = [NoRun EXCEPT !.status = s, !.member = row.member, !.task = row.task, !.wake = w],
                        !.wakes[w] = [row EXCEPT !.receipt = "Queued", !.run = r]]
    BY DEF QueueTurn
  <1> DEFINE new  == [NoRun EXCEPT !.status = s, !.member = row.member, !.task = row.task, !.wake = w]
             told == [row EXCEPT !.receipt = "Queued", !.run = r]
  <1>4. /\ e.runs = [d.runs EXCEPT ![r] = new]
        /\ e.wakes = [d.wakes EXCEPT ![w] = told]
        /\ e.task = d.task /\ e.stopped = d.stopped
        /\ e = [runs |-> e.runs, wakes |-> e.wakes, task |-> e.task, stopped |-> e.stopped]
    BY <1>1, <1>3 DEF StoreType
  <1>5. /\ new \in RunRow /\ new.status = s /\ new.task = row.task /\ new.wake = w
        /\ new.attempts = 0 /\ new.interrupted = 0
    BY <1>2 DEF NoRun, RunRow, WakeRow, Live, Ended
  <1>6. told \in WakeRow /\ told.receipt = "Queued" /\ told.run = r
    BY <1>1, <1>2 DEF WakeRow, Receipts
  <1> HIDE DEF new, told, e
  <1>7. e \in StoreType
    BY <1>1, <1>4, <1>5, <1>6 DEF StoreType
  <1>8. /\ e.runs[r] = new /\ \A q \in Ids \ {r} : e.runs[q] = d.runs[q]
        /\ e.wakes[w] = told /\ \A v \in Ids \ {w} : e.wakes[v] = d.wakes[v]
    BY <1>1, <1>4 DEF StoreType
  <1>9. OneTurnIn(e)
    BY <1>5, <1>8 DEF OneTurnIn, Good, Sound
  <1>10. QuietIn(e)
    BY <1>4 DEF QuietIn
  <1>11. LinkedIn(e)
    <2>1. ASSUME NEW q \in Ids, e.runs[q] \in RunRow
          PROVE  e.wakes[e.runs[q].wake].run = q
      <3>1. CASE q = r  BY <3>1, <1>5, <1>6, <1>8
      <3>2. CASE q # r
        <4>1. e.runs[q] = d.runs[q] /\ d.runs[q].wake \in Ids /\ d.runs[q].wake # w
          BY <2>1, <3>2, <1>8, WakeOfRow
        <4> QED  BY <2>1, <4>1, <1>8 DEF Good, Sound, LinkedIn
      <3> QED  BY <3>1, <3>2
    <2>2. ASSUME NEW q \in Ids, e.runs[q].status \in Live
          PROVE  e.wakes[e.runs[q].wake].receipt \in Answers(e.runs[q])
      <3>1. CASE q = r  BY <3>1, <1>5, <1>6, <1>8 DEF Answers
      <3>2. CASE q # r
        <4>1. e.runs[q] = d.runs[q] /\ d.runs[q] \in RunRow
          BY <1>1, <2>2, <3>2, <1>8, RunRows DEF Live
        <4>2. d.runs[q].wake \in Ids /\ d.runs[q].wake # w
          BY <4>1, WakeOfRow
        <4> QED  BY <2>2, <4>1, <4>2, <1>8 DEF Good, Sound, LinkedIn
      <3> QED  BY <3>1, <3>2
    <2>3. ASSUME NEW v \in Ids, e.wakes[v].receipt \in {"Queued", "Started"}
          PROVE  /\ e.wakes[v].run \in Ids /\ e.runs[e.wakes[v].run].status \in Live
                 /\ e.runs[e.wakes[v].run].wake = v
      <3>1. CASE v = w  BY <3>1, <1>1, <1>5, <1>6, <1>8 DEF Live
      <3>2. CASE v # w
        <4>1. /\ d.wakes[v].run \in Ids /\ d.runs[d.wakes[v].run].status \in Live
              /\ d.runs[d.wakes[v].run].wake = v
          BY <2>3, <3>2, <1>8 DEF Good, Sound, LinkedIn
        <4>2. d.wakes[v].run # r
          BY <4>1, <1>1 DEF Live
        <4> QED  BY <3>2, <4>1, <4>2, <1>8
      <3> QED  BY <3>1, <3>2
    <2>4. ASSUME NEW v \in Ids, e.wakes[v].receipt = "Held"
          PROVE  e.wakes[v].run = 0
      BY <2>4, <1>6, <1>8 DEF Good, Sound, LinkedIn
    <2> QED  BY <2>1, <2>2, <2>3, <2>4 DEF LinkedIn
  <1>12. BoundedIn(e)
    <2>1. Bounded(new)
      BY <1>5 DEF Bounded, OwnAttempts, MostRetries, MostQuiet
    <2> QED  BY <2>1, <1>8 DEF BoundedIn, Good, Sound
  <1>13. \A q \in Ids : Kept(d.runs[q], e.runs[q])
    <2>1. \A q \in Ids \ {r} : Kept(d.runs[q], e.runs[q])
      BY <1>1, <1>8, RunRows DEF Kept
    <2>2. Kept(d.runs[r], e.runs[r])
      BY <1>1, <1>5, <1>8 DEF Kept, Ended
    <2> QED BY <2>1, <2>2
  <1>14. HeldOnceIn(e)
    BY <1>6, <1>8 DEF HeldOnceBut, HeldOnceIn, SameHeld
  <1>15. Raises(d, e)
    BY <1>4, <1>7, <1>9, <1>10, <1>11, <1>12, <1>13, <1>14 DEF Raises, Good, Sound
  <1> QED  BY <1>15 DEF e

\* Giving a wake a row of its own, held, raises no turn.
LEMMA HoldingRaises ==
  ASSUME NEW d, Good(d), \E w \in Ids : d.wakes[w].receipt = "None",
         NEW m \in Members, NEW t \in Abouts, NEW why \in Reasons
  PROVE  LET w == FreshWake(d)
             f == [d EXCEPT !.wakes[w] = [receipt |-> "Held", member |-> m, task |-> t,
                                          reason |-> why, run |-> 0]]
             its == {v \in Ids : /\ d.wakes[v].receipt = "Held"
                                 /\ d.wakes[v].task = t /\ d.wakes[v].member = m}
         IN  /\ Sound(f) /\ HeldOnceBut(f, w) /\ w \in Ids
             /\ its = {} => Raises(d, f)
             /\ f.runs = d.runs /\ f.stopped = d.stopped
             /\ f.wakes[w].receipt = "Held" /\ f.wakes[w].task = t
  <1> DEFINE w   == FreshWake(d)
             row == [receipt |-> "Held", member |-> m, task |-> t, reason |-> why, run |-> 0]
             f   == [d EXCEPT !.wakes[w] = row]
             its == {v \in Ids : /\ d.wakes[v].receipt = "Held"
                                 /\ d.wakes[v].task = t /\ d.wakes[v].member = m}
  <1>1. d \in StoreType /\ w \in Ids /\ d.wakes[w] = NoWake
    BY FreshWakeIsFree DEF Good, Sound
  <1>2. row \in WakeRow /\ row.receipt = "Held" /\ row.run = 0
        /\ row.task = t /\ row.member = m
    BY DEF WakeRow, Receipts
  <1>3. /\ f.wakes = [d.wakes EXCEPT ![w] = row]
        /\ f.runs = d.runs /\ f.task = d.task /\ f.stopped = d.stopped
        /\ f = [runs |-> f.runs, wakes |-> f.wakes, task |-> f.task, stopped |-> f.stopped]
    BY <1>1 DEF StoreType
  <1> HIDE DEF row, f
  <1>4. f \in StoreType
    BY <1>1, <1>2, <1>3 DEF StoreType
  <1>5. f.wakes[w] = row /\ \A v \in Ids \ {w} : f.wakes[v] = d.wakes[v]
    BY <1>1, <1>3 DEF StoreType
  <1>6. \A r \in Ids : d.runs[r] \in RunRow => d.runs[r].wake \in Ids \ {w}
    BY <1>1, WakeOfTurn, EmptyRows
  <1>7. \A r \in Ids : d.runs[r].status \in Live => d.runs[r] \in RunRow
    BY <1>1, RunRows DEF Live
  <1>8. LinkedIn(f)
    <2>1. \A r \in Ids : f.runs[r] \in RunRow =>
            f.wakes[f.runs[r].wake] = d.wakes[d.runs[r].wake]
      BY <1>3, <1>5, <1>6
    <2>2. \A r \in Ids : f.runs[r] \in RunRow => f.wakes[f.runs[r].wake].run = r
      BY <2>1, <1>3 DEF LinkedIn, Good, Sound
    <2>3. \A r \in Ids : f.runs[r].status \in Live =>
            f.wakes[f.runs[r].wake].receipt \in Answers(f.runs[r])
      BY <2>1, <1>3, <1>7 DEF LinkedIn, Good, Sound
    <2>4. \A v \in Ids : f.wakes[v].receipt \in {"Queued", "Started"} =>
            /\ f.wakes[v].run \in Ids /\ f.runs[f.wakes[v].run].status \in Live
            /\ f.runs[f.wakes[v].run].wake = v
      BY <1>2, <1>3, <1>5 DEF LinkedIn, Good, Sound
    <2>5. \A v \in Ids : f.wakes[v].receipt = "Held" => f.wakes[v].run = 0
      BY <1>2, <1>5 DEF LinkedIn, Good, Sound
    <2> QED  BY <2>2, <2>3, <2>4, <2>5 DEF LinkedIn
  <1>9. Sound(f) /\ HeldOnceBut(f, w)
    <2>1. Sound(f)
      BY <1>3, <1>4, <1>8 DEF Good, Sound, OneTurnIn, QuietIn, BoundedIn
    <2>2. HeldOnceBut(f, w)
      BY <1>5 DEF Good, HeldOnceIn, HeldOnceBut, SameHeld
    <2> QED  BY <2>1, <2>2
  <1>10. \A r \in Ids : Kept(d.runs[r], f.runs[r])
    BY <1>1, <1>3, RunRows DEF Kept
  <1>11. its = {} => Raises(d, f)
    <2>1. ASSUME its = {}
          PROVE  HeldOnceIn(f)
      BY <2>1, <1>2, <1>5 DEF Good, HeldOnceIn, SameHeld
    <2> QED  BY <2>1, <1>3, <1>9, <1>10 DEF Raises, Good
  <1> QED  BY <1>1, <1>2, <1>3, <1>5, <1>9, <1>11 DEF f, row

Brought(x)     == [x EXCEPT !.status = "Queued", !.late = FALSE]
Requeued(d, S) ==
  [d EXCEPT !.runs = [r \in Ids |-> IF r \in S /\ d.runs[r].status = "RetryWaiting"
                                    THEN Brought(d.runs[r]) ELSE d.runs[r]]]

\* Turns that wait to be tried again, brought back to the queue: nothing else changes.
LEMMA RequeuedRaises ==
  ASSUME NEW d, Good(d), NEW S \in SUBSET Ids
  PROVE  Raises(d, Requeued(d, S)) /\ Requeued(d, S).wakes = d.wakes
  <1> DEFINE e == Requeued(d, S)
             brought == [r \in Ids |-> IF r \in S /\ d.runs[r].status = "RetryWaiting"
                                       THEN Brought(d.runs[r]) ELSE d.runs[r]]
  <1>1. d \in StoreType  BY DEF Good, Sound
  <1>2. /\ e.runs = brought
        /\ e.wakes = d.wakes /\ e.task = d.task /\ e.stopped = d.stopped
        /\ e = [runs |-> e.runs, wakes |-> e.wakes, task |-> e.task, stopped |-> e.stopped]
    <2>1. e = [d EXCEPT !.runs = brought]
      BY DEF Requeued
    <2> HIDE DEF brought, e
    <2> QED  BY <1>1, <2>1 DEF StoreType
  <1> HIDE DEF e
  <1>3. ASSUME NEW r \in Ids
        PROVE  /\ e.runs[r] \in RunRow \cup {NoRun}
               /\ e.runs[r].status \in Live <=> d.runs[r].status \in Live
               /\ e.runs[r].status = "Running" <=> d.runs[r].status = "Running"
               /\ e.runs[r].task = d.runs[r].task /\ e.runs[r].wake = d.runs[r].wake
               /\ e.runs[r] \in RunRow <=> d.runs[r] \in RunRow
               /\ Kept(d.runs[r], e.runs[r])
               /\ Bounded(e.runs[r])
    <2>1. CASE r \in S /\ d.runs[r].status = "RetryWaiting"
      <3>1. d.runs[r] \in RunRow  BY <1>1, <2>1, RunRows
      <3>2. e.runs[r] = Brought(d.runs[r])
        BY <1>2, <2>1
      <3>3. Bounded(d.runs[r])  BY DEF Good, Sound, BoundedIn
      <3> QED  BY <2>1, <3>1, <3>2, <3>3 DEF Brought, RunRow, Live, Ended, Kept, Bounded
    <2>2. CASE ~(r \in S /\ d.runs[r].status = "RetryWaiting")
      <3>1. e.runs[r] = d.runs[r]  BY <1>2, <2>2
      <3> QED  BY <1>1, <3>1, RunRows DEF Kept, Good, Sound, BoundedIn, StoreType
    <2> QED  BY <2>1, <2>2
  <1>4. e \in StoreType
    <2>1. e.runs \in [Ids -> RunRow \cup {NoRun}]  BY <1>2, <1>3
    <2> QED  BY <1>2, <1>1, <2>1 DEF StoreType
  <1>5. OneTurnIn(e) /\ QuietIn(e) /\ BoundedIn(e)
    BY <1>2, <1>3 DEF OneTurnIn, QuietIn, BoundedIn, Good, Sound
  <1>6. LinkedIn(e)
    <2>1. e.wakes = d.wakes /\ LinkedIn(d)
      BY <1>2 DEF Good, Sound
    <2>2. \A r \in Ids : e.runs[r] \in RunRow => e.wakes[e.runs[r].wake].run = r
      BY <1>3, <2>1 DEF LinkedIn
    <2>3. \A r \in Ids : e.runs[r].status \in Live =>
            e.wakes[e.runs[r].wake].receipt \in Answers(e.runs[r])
      <3>1. \A r \in Ids : Answers(e.runs[r]) = Answers(d.runs[r])
        BY <1>3 DEF Answers
      <3> QED  BY <1>3, <2>1, <3>1 DEF LinkedIn
    <2>4. ASSUME NEW w \in Ids, e.wakes[w].receipt \in {"Queued", "Started"}
          PROVE  /\ e.wakes[w].run \in Ids /\ e.runs[e.wakes[w].run].status \in Live
                 /\ e.runs[e.wakes[w].run].wake = w
      <3>1. /\ d.wakes[w].run \in Ids /\ d.runs[d.wakes[w].run].status \in Live
            /\ d.runs[d.wakes[w].run].wake = w
        BY <2>1, <2>4 DEF LinkedIn
      <3> QED  BY <1>3, <2>1, <3>1
    <2>5. \A w \in Ids : e.wakes[w].receipt = "Held" => e.wakes[w].run = 0
      BY <2>1 DEF LinkedIn
    <2> QED  BY <2>2, <2>3, <2>4, <2>5 DEF LinkedIn
  <1>7. HeldOnceIn(e)
    BY <1>2 DEF Good, HeldOnceIn, SameHeld
  <1>8. Raises(d, e)
    BY <1>2, <1>3, <1>4, <1>5, <1>6, <1>7 DEF Raises, Good, Sound
  <1> QED  BY <1>2, <1>8 DEF e

\* News on a task brings its turn forward, if that one waits to be tried again.
LEMMA BringForwardRaises ==
  ASSUME NEW d, Good(d), NEW t \in Tasks
  PROVE  Raises(d, BringForward(d, t)) /\ BringForward(d, t).wakes = d.wakes
  <1> DEFINE S == {r \in Ids : d.runs[r].task = t}
  <1>1. BringForward(d, t) = Requeued(d, S)
    BY DEF BringForward, Requeued, Brought
  <1>2. S \in SUBSET Ids
    OBVIOUS
  <1> HIDE DEF S
  <1> QED  BY <1>1, <1>2, RequeuedRaises

\* A wake is told to queue a turn only while the team is not stopped and, on a task, only when
\* no live turn is on it: what holds each task to one turn.
LEMMA QueueDecided ==
  ASSUME NEW d, NEW m, NEW t \in Abouts, NEW why, NEW c,
         Decide(m, Situation(d, m, t, why, c)) = "Queue"
  PROVE  /\ ~d.stopped
         /\ t # NoTask => \A r \in Ids : ~(d.runs[r].status \in Live /\ d.runs[r].task = t)
  <1> DEFINE s == Situation(d, m, t, why, c)
  <1>1. s.stopped = d.stopped /\ s.aboutATask = (t # NoTask) /\ s.live = Meets(d, m, t)
    BY DEF Situation
  <1> HIDE DEF s
  <1>2. ~TurnedAway(s)
    BY DEF Decide, s
  <1>3. ~d.stopped
    BY <1>1, <1>2 DEF TurnedAway
  <1>4. s.aboutATask => s.live = {}
    BY <1>2 DEF Decide, s
  <1>5. ASSUME t # NoTask, NEW r \in Ids, d.runs[r].status \in Live, d.runs[r].task = t
        PROVE  FALSE
    <2>1. r \in LiveOn(d, t)
      BY <1>5 DEF LiveOn, LiveRuns
    <2>2. Meets(d, m, t) # {}
      BY <1>5, <2>1 DEF Meets
    <2> QED  BY <1>1, <1>4, <1>5, <2>2
  <1> QED  BY <1>3, <1>5

\* And to be held only where its member has none held for the task.
LEMMA HoldDecided ==
  ASSUME NEW d, NEW m, NEW t, NEW why, NEW c,
         Decide(m, Situation(d, m, t, why, c)) = "Hold"
  PROVE  {v \in Ids : /\ d.wakes[v].receipt = "Held"
                      /\ d.wakes[v].task = t /\ d.wakes[v].member = m} = {}
  <1> DEFINE s == Situation(d, m, t, why, c)
  <1>1. /\ s.aboutATask = (t # NoTask) /\ s.live = Meets(d, m, t)
        /\ s.alreadyHeld = (t # NoTask /\ \E w \in HeldOn(d, t) : d.wakes[w].member = m)
    BY DEF Situation
  <1>2. t = NoTask => \A x \in Meets(d, m, t) : x.member = m
    BY DEF Meets
  <1> HIDE DEF s
  <1>3. /\ ~s.alreadyHeld
        /\ s.aboutATask \/ \E x \in s.live : x.member # m
    BY DEF Decide, s
  <1> QED  BY <1>1, <1>2, <1>3 DEF HeldOn

\* Raising a wake, whatever is decided about it.
LEMMA WakeUpRaises ==
  ASSUME NEW d, Good(d), HasRoom(d),
         NEW m \in Members, NEW t \in Abouts, NEW why \in Reasons, NEW c
  PROVE  Raises(d, WakeUp(d, m, t, why, c))
  <1> DEFINE e == IF t # NoTask /\ why \in BringsNews THEN BringForward(d, t) ELSE d
             w == FreshWake(e)
             f == [e EXCEPT !.wakes[w] = [receipt |-> "Held", member |-> m, task |-> t,
                                          reason |-> why, run |-> 0]]
             out == Decide(m, Situation(e, m, t, why, c))
  <1>1. Raises(d, e) /\ e.wakes = d.wakes
    <2>1. CASE t # NoTask /\ why \in BringsNews
      BY <2>1, BringForwardRaises DEF Abouts
    <2>2. CASE ~(t # NoTask /\ why \in BringsNews)
      BY <2>2, RaisesNothing DEF Good, Sound
    <2> QED  BY <2>1, <2>2
  <1>2. Good(e) /\ d \in StoreType
    BY <1>1 DEF Raises, Good, Sound
  <1>3. \E r \in Ids : e.runs[r].status = "None"
    <2>1. PICK r \in Ids : d.runs[r].status = "None"
      BY DEF HasRoom
    <2>2. d.runs[r] = NoRun
      BY <1>2, <2>1, RunRows
    <2>3. e.runs[r] = d.runs[r]
      BY <2>1, <2>2 DEF BringForward
    <2> QED  BY <2>1, <2>3
  <1>4. \E v \in Ids : e.wakes[v].receipt = "None"
    BY <1>1 DEF HasRoom
  <1> DEFINE its == {v \in Ids : /\ e.wakes[v].receipt = "Held"
                                 /\ e.wakes[v].task = t /\ e.wakes[v].member = m}
  <1>5. /\ Sound(f) /\ HeldOnceBut(f, w) /\ w \in Ids
        /\ its = {} => Raises(e, f)
        /\ f.runs = e.runs /\ f.stopped = e.stopped
        /\ f.wakes[w].receipt = "Held" /\ f.wakes[w].task = t
    BY <1>2, <1>4, HoldingRaises
  <1>6. WakeUp(d, m, t, why, c) = CASE out = "Queue" -> QueueTurn(f, w, c)
                                    [] out = "Hold" -> f
                                    [] OTHER -> e
    BY DEF WakeUp
  <1>0. out = "Hold" => its = {}
    BY HoldDecided
  <1> HIDE DEF e, w, f
  <1>7. CASE out = "Queue"
    <2>1. /\ ~e.stopped
          /\ t # NoTask => \A r \in Ids : ~(e.runs[r].status \in Live /\ e.runs[r].task = t)
      BY <1>7, QueueDecided
    <2>2. Raises(f, QueueTurn(f, w, c))
      BY <1>3, <1>5, <2>1, QueueTurnRaises
    <2>3. Raises(e, QueueTurn(f, w, c))
      BY <1>5, <2>2 DEF Raises
    <2> QED  BY <1>1, <1>2, <1>6, <1>7, <2>3, RaisesTwice
  <1>8. CASE out = "Hold"
    BY <1>0, <1>1, <1>2, <1>5, <1>6, <1>8, RaisesTwice
  <1>9. CASE out \notin {"Queue", "Hold"}
    BY <1>1, <1>6, <1>9
  <1> QED  BY <1>7, <1>8, <1>9

\* Room to queue a turn for a held wake.
Room(d) == (\E w \in Ids : d.wakes[w].receipt = "Held") => \E r \in Ids : d.runs[r].status = "None"

\* Releasing the oldest wake held for a task that no live turn is on.
LEMMA ReleaseHeldRaises ==
  ASSUME NEW d, Good(d), NEW t \in Tasks, NEW c, Room(d),
         \A r \in Ids : ~(d.runs[r].status \in Live /\ d.runs[r].task = t)
  PROVE  Raises(d, ReleaseHeld(d, t, c))
  <1> DEFINE w   == Oldest(HeldOn(d, t))
             row == d.wakes[w]
             s   == Situation(d, row.member, t, row.reason, c)
             out == Decide(row.member, s)
  <1>1. CASE HeldOn(d, t) = {}
    BY <1>1, RaisesNothing DEF ReleaseHeld, Good, Sound
  <1>2. CASE HeldOn(d, t) # {}
    <2>1. w \in HeldOn(d, t)
      BY <1>2, OldestOf DEF HeldOn
    <2>2. w \in Ids /\ row.receipt = "Held" /\ row.task = t
      BY <2>1 DEF HeldOn
    <2>3. d \in StoreType /\ row \in WakeRow /\ row.run = 0
      BY <2>2, WakeRows DEF Good, Sound, LinkedIn
    <2>4. s.live = {}
      BY TurnsAssumption DEF Situation, Meets, LiveOn, LiveRuns
    <2>5. out \in {"Queue", "Refuse"}
      <3> HIDE DEF s
      <3> QED  BY <2>4 DEF Decide
    <2>6. CASE out = "Queue"
      <3>1. ~d.stopped
        BY <2>6, QueueDecided DEF Abouts
      <3>2. Raises(d, QueueTurn(d, w, c))
        BY <2>2, <3>1, QueueTurnRaises DEF Room, Good, HeldOnceIn, HeldOnceBut
      <3> QED  BY <1>2, <2>6, <3>2 DEF ReleaseHeld
    <2>7. CASE out = "Refuse"
      <3> DEFINE e == [d EXCEPT !.wakes[w].receipt = "Refused"]
      <3>1. ReleaseHeld(d, t, c) = e
        BY <1>2, <2>7 DEF ReleaseHeld
      <3>2. /\ e.wakes = [d.wakes EXCEPT ![w].receipt = "Refused"]
            /\ e.runs = d.runs /\ e.task = d.task /\ e.stopped = d.stopped
            /\ e = [runs |-> e.runs, wakes |-> e.wakes, task |-> e.task, stopped |-> e.stopped]
        BY <2>3 DEF StoreType
      <3> HIDE DEF e
      <3>3. /\ e.wakes[w] = [row EXCEPT !.receipt = "Refused"]
            /\ \A v \in Ids \ {w} : e.wakes[v] = d.wakes[v]
        BY <2>2, <2>3, <3>2 DEF StoreType
      <3>4. e.wakes[w] \in WakeRow /\ e.wakes[w].receipt = "Refused"
        BY <2>3, <3>3 DEF WakeRow, Receipts
      <3>5. e \in StoreType
        BY <2>2, <2>3, <3>2, <3>3, <3>4 DEF StoreType
      <3>6. \A r \in Ids : d.runs[r] \in RunRow => d.runs[r].wake \in Ids \ {w}
        BY <2>2, WakeOfTurn
      <3>7. \A r \in Ids : d.runs[r].status \in Live => d.runs[r] \in RunRow
        BY <2>3, RunRows DEF Live
      <3>8. LinkedIn(e)
        <4>1. \A r \in Ids : e.runs[r] \in RunRow =>
                e.wakes[e.runs[r].wake] = d.wakes[d.runs[r].wake]
          BY <3>2, <3>3, <3>6
        <4>2. \A r \in Ids : e.runs[r] \in RunRow => e.wakes[e.runs[r].wake].run = r
          BY <4>1, <3>2 DEF LinkedIn, Good, Sound
        <4>3. \A r \in Ids : e.runs[r].status \in Live =>
                e.wakes[e.runs[r].wake].receipt \in Answers(e.runs[r])
          BY <4>1, <3>2, <3>7 DEF LinkedIn, Good, Sound
        <4>4. \A v \in Ids : e.wakes[v].receipt \in {"Queued", "Started"} =>
                /\ e.wakes[v].run \in Ids /\ e.runs[e.wakes[v].run].status \in Live
                /\ e.runs[e.wakes[v].run].wake = v
          BY <3>2, <3>3, <3>4 DEF LinkedIn, Good, Sound
        <4>5. \A v \in Ids : e.wakes[v].receipt = "Held" => e.wakes[v].run = 0
          BY <3>3, <3>4 DEF LinkedIn, Good, Sound
        <4> QED  BY <4>2, <4>3, <4>4, <4>5 DEF LinkedIn
      <3>9. Good(e)
        <4>1. HeldOnceIn(e)
          BY <3>3, <3>4, HeldFewer DEF Good
        <4> QED  BY <4>1, <3>2, <3>5, <3>8 DEF Good, Sound, OneTurnIn, QuietIn, BoundedIn
      <3>10. \A r \in Ids : Kept(d.runs[r], e.runs[r])
        BY <2>3, <3>2, RunRows DEF Kept
      <3> QED  BY <3>1, <3>2, <3>9, <3>10 DEF Raises
    <2> QED  BY <2>5, <2>6, <2>7
  <1> QED  BY <1>1, <1>2

---------------------------------------------------------------------------
(* Ending and failing a turn.                                              *)

\* A store that differs from a good one in the row of one live turn (its counters, its marks),
\* and perhaps in tasks: what an operation that settles or starts a turn hands on.
Near(g, d, r) ==
  /\ Good(g) /\ g.runs[r].status \in Live
  /\ d \in StoreType /\ d.wakes = g.wakes /\ d.stopped = g.stopped
  /\ \A q \in Ids \ {r} : d.runs[q] = g.runs[q]
  /\ d.runs[r] \in RunRow
  /\ d.runs[r].member = g.runs[r].member /\ d.runs[r].task = g.runs[r].task
  /\ d.runs[r].wake = g.runs[r].wake

\* The one turn a step may start: the next of the queue, when the tick may start it.
Launches(r) == MayStart /\ r = NextQueued

\* What settling turn `r` does: it is live or over, its member's, on the same task, and runs only
\* if it did or is launched; of the others, what raising work does.
Settles(g, e, r) ==
  /\ Good(e) /\ e.stopped = g.stopped
  /\ e.runs[r] \in RunRow /\ e.runs[r].task = g.runs[r].task /\ e.runs[r].member = g.runs[r].member
  /\ e.runs[r].status = "Running" => g.runs[r].status = "Running" \/ Launches(r)
  /\ \A q \in Ids \ {r} : Kept(g.runs[q], e.runs[q])

\* Settling a turn and then raising work is settling it.
LEMMA SettlesThenRaises ==
  ASSUME NEW g, NEW d, NEW e, NEW r \in Ids, g \in StoreType, Settles(g, d, r), Raises(d, e)
  PROVE  Settles(g, e, r)
  <1>1. ASSUME NEW q \in Ids \ {r}
        PROVE  Kept(g.runs[q], e.runs[q])
    <2>1. Kept(g.runs[q], d.runs[q]) /\ Kept(d.runs[q], e.runs[q])
      BY DEF Raises, Settles
    <2>2. d.runs[q].status = "None" \/ d.runs[q] \in RunRow
      BY RunRows DEF Settles, Good, Sound
    <2> QED  BY <2>1, <2>2 DEF Kept, Ended
  <1>2. /\ e.runs[r] \in RunRow /\ e.runs[r].task = d.runs[r].task
        /\ e.runs[r].member = d.runs[r].member
        /\ e.runs[r].status = "Running" => d.runs[r].status = "Running"
    <2>1. d.runs[r] \in RunRow /\ Kept(d.runs[r], e.runs[r])
      BY DEF Raises, Settles
    <2>2. d.runs[r].status \in Live \cup Ended
      BY <2>1 DEF RunRow
    <2> QED  BY <2>1, <2>2 DEF Kept, Live
  <1> QED  BY <1>1, <1>2 DEF Settles, Raises

\* A turn that ends: its wake is closed, nothing live is left on its task, and the oldest wake
\* held for the task is released.
LEMMA EndSettles ==
  ASSUME NEW g, NEW d, NEW r \in Ids, Near(g, d, r), Room(g), NEW how \in Ended, NEW c
  PROVE  Settles(g, End(d, r, how, c), r) /\ End(d, r, how, c).runs[r].status = how
  <1> DEFINE run  == d.runs[r]
             w    == run.wake
             over == Over(run, how)
             e    == [d EXCEPT !.runs[r] = over, !.wakes[w].receipt = "Finished"]
             t    == run.task
             f    == IF run.started /\ c.shown THEN [e EXCEPT !.task[t].nudged = FALSE] ELSE e
  <1>1. d \in StoreType /\ run \in RunRow /\ g \in StoreType /\ g.runs[r] \in RunRow
    BY RunRows DEF Near, Good, Sound, Live
  <1>2. /\ w \in Ids /\ w = g.runs[r].wake
        /\ d.wakes[w] \in WakeRow /\ d.wakes[w].run = r /\ d.wakes[w].receipt # "Held"
    BY <1>1, WakeOfTurn DEF Near
  <1>3. /\ over \in RunRow /\ over.status = how /\ over.task = t /\ over.wake = w
        /\ over.attempts = 0 /\ over.member = run.member
    BY <1>1 DEF Over, RunRow
  <1> HIDE DEF over
  <1> DEFINE closed == [d.wakes EXCEPT ![w].receipt = "Finished"]
             ended  == [d.runs EXCEPT ![r] = over]
  <1>4. /\ e.runs = ended /\ e.wakes = closed
        /\ e.task = d.task /\ e.stopped = d.stopped
        /\ e = [runs |-> e.runs, wakes |-> e.wakes, task |-> e.task, stopped |-> e.stopped]
    <2>1. e = [[d EXCEPT !.runs = ended] EXCEPT !.wakes = closed]
      BY <1>1 DEF StoreType
    <2> HIDE DEF closed, ended, e
    <2> QED  BY <1>1, <2>1 DEF StoreType
  <1> HIDE DEF e
  <1>5. /\ e.runs[r] = over /\ \A q \in Ids \ {r} : e.runs[q] = g.runs[q]
        /\ e.wakes[w] = [d.wakes[w] EXCEPT !.receipt = "Finished"]
        /\ \A v \in Ids \ {w} : e.wakes[v] = g.wakes[v]
    BY <1>1, <1>2, <1>4 DEF StoreType, Near
  <1>6. e.wakes[w] \in WakeRow /\ e.wakes[w].receipt = "Finished" /\ e.wakes[w].run = r
    BY <1>2, <1>5 DEF WakeRow, Receipts
  <1>7. e \in StoreType
    BY <1>1, <1>2, <1>3, <1>4, <1>5, <1>6 DEF StoreType
  <1>8. how \notin Live /\ e.runs[r].status \notin Live
    BY <1>3, <1>5 DEF Live, Ended
  <1>9. OneTurnIn(e) /\ QuietIn(e)
    BY <1>4, <1>5, <1>8 DEF Near, Good, Sound, OneTurnIn, QuietIn
  <1>10. LinkedIn(e)
    <2>1. ASSUME NEW q \in Ids, e.runs[q] \in RunRow
          PROVE  e.wakes[e.runs[q].wake].run = q
      <3>1. CASE q = r  BY <3>1, <1>3, <1>5, <1>6
      <3>2. CASE q # r
        <4>1. e.runs[q] = g.runs[q] /\ g.runs[q].wake \in Ids /\ g.wakes[g.runs[q].wake].run = q
          BY <2>1, <3>2, <1>5, WakeOfTurn DEF Near
        <4>2. g.runs[q].wake # w
          BY <4>1, <3>2, <1>2 DEF Near
        <4> QED  BY <4>1, <4>2, <1>5
      <3> QED  BY <3>1, <3>2
    <2>2. ASSUME NEW q \in Ids, e.runs[q].status \in Live
          PROVE  e.wakes[e.runs[q].wake].receipt \in Answers(e.runs[q])
      <3>1. q # r /\ e.runs[q] = g.runs[q] /\ g.runs[q] \in RunRow
        BY <2>2, <1>1, <1>5, <1>8, RunRows DEF Live
      <3>2. g.runs[q].wake \in Ids /\ g.wakes[g.runs[q].wake].run = q
        BY <3>1, WakeOfTurn DEF Near
      <3>3. g.runs[q].wake # w
        BY <3>1, <3>2, <1>2 DEF Near
      <3> QED  BY <2>2, <3>1, <3>2, <3>3, <1>5 DEF Near, Good, Sound, LinkedIn
    <2>3. ASSUME NEW v \in Ids, e.wakes[v].receipt \in {"Queued", "Started"}
          PROVE  /\ e.wakes[v].run \in Ids /\ e.runs[e.wakes[v].run].status \in Live
                 /\ e.runs[e.wakes[v].run].wake = v
      <3>1. v # w /\ e.wakes[v] = g.wakes[v]
        BY <2>3, <1>5, <1>6
      <3>2. /\ g.wakes[v].run \in Ids /\ g.runs[g.wakes[v].run].status \in Live
            /\ g.runs[g.wakes[v].run].wake = v
        BY <2>3, <3>1 DEF Near, Good, Sound, LinkedIn
      <3>3. g.wakes[v].run # r
        BY <3>1, <3>2, <1>2
      <3> QED  BY <3>1, <3>2, <3>3, <1>5
    <2>4. ASSUME NEW v \in Ids, e.wakes[v].receipt = "Held"
          PROVE  e.wakes[v].run = 0
      BY <2>4, <1>5, <1>6 DEF Near, Good, Sound, LinkedIn
    <2> QED  BY <2>1, <2>2, <2>3, <2>4 DEF LinkedIn
  <1>11. BoundedIn(e)
    <2>1. Bounded(over)
      BY <1>3, <1>8 DEF Bounded, MostRetries, MostQuiet
    <2> QED  BY <2>1, <1>5 DEF BoundedIn, Near, Good, Sound
  <1>12. \A q \in Ids \ {r} : Kept(g.runs[q], e.runs[q])
    BY <1>1, <1>5, RunRows DEF Kept
  <1>13. Settles(g, e, r)
    <2>1. HeldOnceIn(e)
      BY <1>5, <1>6, HeldFewer DEF Near, Good
    <2>2. e.runs[r].status # "Running"
      BY <1>8 DEF Live
    <2> QED  BY <2>1, <2>2, <1>3, <1>4, <1>5, <1>7, <1>9, <1>10, <1>11, <1>12
             DEF Settles, Good, Sound, Near
  <1>14. CASE t = NoTask
    BY <1>3, <1>5, <1>13, <1>14 DEF End, e, over
  <1>15. CASE t # NoTask
    <2>1. t \in Tasks
      BY <1>1, <1>15 DEF RunRow, Abouts
    <2>2. /\ f \in StoreType /\ f.runs = e.runs /\ f.wakes = e.wakes /\ f.stopped = e.stopped
      <3>1. CASE ~(run.started /\ c.shown)
        BY <3>1, <1>7
      <3>2. CASE run.started /\ c.shown
        <4>1. f = [e EXCEPT !.task[t].nudged = FALSE]
          BY <3>2
        <4>2. [e.task[t] EXCEPT !.nudged = FALSE] \in TaskRow
          BY <1>7, <2>1 DEF StoreType, TaskRow
        <4> QED  BY <4>1, <4>2, <1>7, <2>1 DEF StoreType
      <3> QED  BY <3>1, <3>2
    <2>3. End(d, r, how, c) = ReleaseHeld(f, t, c)
      BY <1>15 DEF End, e, over
    <2> HIDE DEF f
    <2>4. Raises(e, f) /\ Good(f)
      BY <1>13, <2>2, RaisesNothing DEF Settles, Raises
    <2>5. \A q \in Ids : ~(f.runs[q].status \in Live /\ f.runs[q].task = t)
      BY <1>5, <1>8, <1>15, <2>2 DEF Near, Good, Sound, OneTurnIn
    <2>6. Room(f)
      <3>1. ASSUME NEW v \in Ids, f.wakes[v].receipt = "Held"
            PROVE  \E q \in Ids : f.runs[q].status = "None"
        <4>0. e.wakes[v].receipt = "Held"
          BY <3>1, <2>2
        <4>1. g.wakes[v].receipt = "Held"
          BY <4>0, <1>5, <1>6
        <4>2. PICK q \in Ids : g.runs[q].status = "None"
          BY <4>1 DEF Room
        <4>3. q # r
          BY <4>2 DEF Near, Live
        <4> QED  BY <4>2, <4>3, <2>2, <1>5
      <3> QED  BY <3>1 DEF Room
    <2>7. Raises(f, ReleaseHeld(f, t, c))
      BY <2>1, <2>4, <2>5, <2>6, ReleaseHeldRaises
    <2>8. Raises(e, ReleaseHeld(f, t, c))
      BY <1>7, <2>4, <2>7, RaisesTwice
    <2>9. Settles(g, ReleaseHeld(f, t, c), r)
      BY <1>1, <1>13, <2>8, SettlesThenRaises
    <2>10. ReleaseHeld(f, t, c).runs[r].status = how
      BY <2>8, <1>3, <1>5 DEF Raises, Kept
    <2> QED  BY <2>3, <2>9, <2>10
  <1> QED  BY <1>14, <1>15

\* A live turn whose row changes and stays live.
LEMMA StillLive ==
  ASSUME NEW g, NEW d, NEW r \in Ids, Near(g, d, r), Bounded(d.runs[r]), d.runs[r].status \in Live,
         d.runs[r].status = "Running" => g.runs[r].status = "Running"
  PROVE  Settles(g, d, r)
  <1>1. d \in StoreType /\ g \in StoreType /\ g.runs[r] \in RunRow
    BY RunRows DEF Near, Good, Sound, Live
  <1>2. ~g.stopped
    BY DEF Near, Good, Sound, QuietIn
  <1>3. OneTurnIn(d) /\ QuietIn(d) /\ BoundedIn(d)
    BY <1>2 DEF Near, Good, Sound, OneTurnIn, QuietIn, BoundedIn
  <1>4. LinkedIn(d)
    <2>1. \A q \in Ids : /\ d.runs[q] \in RunRow <=> g.runs[q] \in RunRow
                         /\ d.runs[q].status \in Live <=> g.runs[q].status \in Live
                         /\ d.runs[q].wake = g.runs[q].wake
      BY <1>1 DEF Near
    <2>2. \A q \in Ids : d.runs[q] \in RunRow => d.wakes[d.runs[q].wake].run = q
      BY <2>1 DEF Near, Good, Sound, LinkedIn
    <2>3. ASSUME NEW q \in Ids, d.runs[q].status \in Live
          PROVE  d.wakes[d.runs[q].wake].receipt \in Answers(d.runs[q])
      <3>1. g.wakes[g.runs[q].wake].receipt \in Answers(g.runs[q])
        BY <2>1, <2>3 DEF Near, Good, Sound, LinkedIn
      <3>2. CASE q = r  BY <2>1, <3>1, <3>2 DEF Answers, Near
      <3>3. CASE q # r  BY <2>1, <3>1, <3>3 DEF Near
      <3> QED  BY <3>2, <3>3
    <2>4. \A w \in Ids : d.wakes[w].receipt \in {"Queued", "Started"} =>
            /\ d.wakes[w].run \in Ids /\ d.runs[d.wakes[w].run].status \in Live
            /\ d.runs[d.wakes[w].run].wake = w
      BY <2>1 DEF Near, Good, Sound, LinkedIn
    <2>5. \A w \in Ids : d.wakes[w].receipt = "Held" => d.wakes[w].run = 0
      BY DEF Near, Good, Sound, LinkedIn
    <2> QED  BY <2>2, <2>3, <2>4, <2>5 DEF LinkedIn
  <1>5. \A q \in Ids \ {r} : Kept(g.runs[q], d.runs[q])
    BY <1>1, RunRows DEF Kept, Near
  <1>6. HeldOnceIn(d)
    BY DEF Near, Good, HeldOnceIn, SameHeld
  <1> QED  BY <1>3, <1>4, <1>5, <1>6 DEF Settles, Near, Good, Sound

\* A turn that fails waits to be tried again, while its retries last, and then is over.
LEMMA FailSettles ==
  ASSUME NEW g, NEW d, NEW r \in Ids, Near(g, d, r), Room(g), NEW fault, NEW c
  PROVE  Settles(g, Fail(d, r, fault, c), r)
  <1> DEFINE run == d.runs[r]
             cut == run.interrupted + (IF fault = "Platform" THEN 1 ELSE 0)
             e   == [d EXCEPT !.runs[r].interrupted = cut]
             f   == [e EXCEPT !.runs[r].status = "RetryWaiting", !.runs[r].late = FALSE]
  <1>1. d \in StoreType /\ run \in RunRow
    BY DEF Near
  <1>2. cut \in Nat
    BY <1>1 DEF RunRow
  <1> HIDE DEF cut
  <1>3. /\ e \in StoreType /\ e.wakes = d.wakes /\ e.stopped = d.stopped
        /\ \A q \in Ids \ {r} : e.runs[q] = d.runs[q]
        /\ e.runs[r] = [run EXCEPT !.interrupted = cut]
    <2>1. [run EXCEPT !.interrupted = cut] \in RunRow
      BY <1>1, <1>2 DEF RunRow
    <2> QED  BY <1>1, <2>1 DEF StoreType
  <1>4. Near(g, e, r)
    BY <1>1, <1>2, <1>3 DEF Near, RunRow
  <1>5. CASE TriedAgain(OwnAttempts(run.attempts, cut))
    <2>1. Fail(d, r, fault, c) = f
      BY <1>5 DEF Fail, cut
    <2> DEFINE row == [run EXCEPT !.interrupted = cut, !.status = "RetryWaiting", !.late = FALSE]
    <2>2. row \in RunRow /\ row.status = "RetryWaiting"
          /\ row.member = run.member /\ row.task = run.task /\ row.wake = run.wake
          /\ row.attempts = run.attempts /\ row.interrupted = cut
      BY <1>1, <1>2 DEF RunRow, Live
    <2>3. /\ f \in StoreType /\ f.wakes = d.wakes /\ f.stopped = d.stopped
          /\ \A q \in Ids \ {r} : f.runs[q] = d.runs[q]
          /\ f.runs[r] = row
      BY <1>1, <2>2 DEF StoreType
    <2> HIDE DEF row, f
    <2>4. Near(g, f, r)
      BY <2>2, <2>3 DEF Near
    <2>5. Bounded(row)
      BY <1>1, <1>2, <1>5, <2>2 DEF Bounded, TriedAgain, OwnAttempts, MostRetries, MostQuiet, RunRow
    <2> QED  BY <2>1, <2>2, <2>3, <2>4, <2>5, StillLive DEF Live
  <1>6. CASE ~TriedAgain(OwnAttempts(run.attempts, cut))
    <2>1. Fail(d, r, fault, c) = End(e, r, "Failed", c)
      BY <1>6 DEF Fail, cut
    <2> QED  BY <1>4, <2>1, EndSettles DEF Ended
  <1> QED  BY <1>5, <1>6

---------------------------------------------------------------------------
(* What follows a turn, and what recovery does.                            *)

\* Moving a task, or its mark, raises nothing and leaves room as it was.
LEMMA TaskMoved ==
  ASSUME NEW d, Good(d), NEW t \in Tasks, NEW row \in TaskRow
  PROVE  LET e == [d EXCEPT !.task[t] = row]
         IN  Raises(d, e) /\ (HasRoom(d) => HasRoom(e))
  <1> DEFINE e == [d EXCEPT !.task[t] = row]
  <1>1. e \in StoreType /\ e.runs = d.runs /\ e.wakes = d.wakes /\ e.stopped = d.stopped
    BY DEF Good, Sound, StoreType
  <1> HIDE DEF e
  <1>2. Raises(d, e)
    BY <1>1, RaisesNothing
  <1> QED  BY <1>1, <1>2 DEF HasRoom, e

\* A task that changes hands and standing.
LEMMA HandedTo ==
  ASSUME NEW d, Good(d), NEW t \in Tasks, NEW m \in Members \cup {Nobody}, NEW to \in Statuses
  PROVE  LET e == [d EXCEPT !.task[t].holder = m, !.task[t].status = to]
         IN  Raises(d, e) /\ (HasRoom(d) => HasRoom(e))
  <1> DEFINE row == [d.task[t] EXCEPT !.holder = m, !.status = to]
  <1>1. d \in StoreType /\ row \in TaskRow
    BY DEF Good, Sound, StoreType, TaskRow
  <1>2. [d EXCEPT !.task[t].holder = m, !.task[t].status = to] = [d EXCEPT !.task[t] = row]
    BY <1>1 DEF StoreType
  <1> HIDE DEF row
  <1> QED  BY <1>1, <1>2, TaskMoved

\* A task that is moved and then has a wake raised about it.
LEMMA MovedThenWoken ==
  ASSUME NEW d, Good(d), HasRoom(d), NEW e, Raises(d, e), HasRoom(e),
         NEW m \in Members, NEW t \in Tasks, NEW why \in Reasons, NEW c
  PROVE  Raises(d, WakeUp(e, m, t, why, c))
  <1>1. Raises(e, WakeUp(e, m, t, why, c))
    BY WakeUpRaises DEF Raises, Abouts
  <1> QED  BY <1>1, RaisesTwice DEF Good, Sound

\* One of an item's failures.
LEMMA LoopFailedRaises ==
  ASSUME NEW d, Good(d), HasRoom(d), NEW t \in Tasks, NEW c, NEW e \in LoopFailed(d, t, c)
  PROVE  Raises(d, e)
  <1> DEFINE gone(m, to) == [d EXCEPT !.task[t].holder = m, !.task[t].status = to]
  <1>1. d.task[t].holder \in Members \cup {Nobody} /\ {"Todo", "Blocked"} \subseteq Statuses
    BY DEF Good, Sound, StoreType, TaskRow, Statuses
  <1>2. \A m \in Members \cup {Nobody}, to \in Statuses :
          Raises(d, gone(m, to)) /\ HasRoom(gone(m, to))
    BY HandedTo
  <1>3. \/ e = d \/ e = gone(d.task[t].holder, "Todo") \/ e = gone(Nobody, "Blocked")
        \/ \E up \in Members : e = WakeUp(gone(up, "Todo"), up, t, "Assigned", c)
    BY DEF LoopFailed
  <1> HIDE DEF gone
  <1>4. CASE e = d
    BY <1>4, RaisesNothing DEF Good, Sound
  <1>5. CASE e = gone(d.task[t].holder, "Todo") \/ e = gone(Nobody, "Blocked")
    BY <1>1, <1>2, <1>5
  <1>6. CASE \E up \in Members : e = WakeUp(gone(up, "Todo"), up, t, "Assigned", c)
    <2>1. PICK up \in Members : e = WakeUp(gone(up, "Todo"), up, t, "Assigned", c)
      BY <1>6
    <2>2. "Assigned" \in Reasons
      BY DEF Reasons
    <2>3. Raises(d, gone(up, "Todo")) /\ HasRoom(gone(up, "Todo"))
      BY <1>1, <1>2
    <2> QED  BY <2>1, <2>2, <2>3, MovedThenWoken
  <1> QED  BY <1>3, <1>4, <1>5, <1>6

\* What follows a turn on the loops' work.
LEMMA FollowUpsRaise ==
  ASSUME NEW d, Good(d), NEW r \in Ids, d.runs[r] \in RunRow, NEW c, NEW e \in FollowUps(d, r, c)
  PROVE  Raises(d, e)
  <1>1. CASE e = d
    BY <1>1, RaisesNothing DEF Good, Sound
  <1>2. CASE e # d
    <2> DEFINE t == d.runs[r].task
               m == d.runs[r].member
    <2>1. t \in ProjectTasks /\ HasRoom(d)
      BY <1>2 DEF FollowUps
    <2>2. t \in Tasks /\ t \in Abouts /\ m \in Members
      BY <2>1, TurnsAssumption DEF RunRow, Abouts
    <2>3. \/ e \in LoopFailed(d, t, c)
          \/ \E n \in Members, why \in {"Continued", "ReviewRequested"} : e = WakeUp(d, n, t, why, c)
      BY <1>2, <2>2 DEF FollowUps
    <2>4. {"Continued", "ReviewRequested"} \subseteq Reasons
      BY DEF Reasons
    <2> QED  BY <2>1, <2>2, <2>3, <2>4, LoopFailedRaises, WakeUpRaises
  <1> QED  BY <1>1, <1>2

\* A task that sat with no turn on it.
LEMMA StallsRaise ==
  ASSUME NEW d, Good(d), NEW t \in Tasks, NEW c, NEW e \in Stalls(d, t, c)
  PROVE  Raises(d, e)
  <1> DEFINE tk     == d.task[t]
             marked == [d EXCEPT !.task[t].nudged = TRUE]
  <1>1. /\ tk \in TaskRow /\ d \in StoreType
        /\ {"Recovery", "AssignmentRecovery", "ReviewRequested"} \subseteq Reasons
    BY DEF Good, Sound, StoreType, Reasons
  <1>2. Raises(d, marked) /\ (HasRoom(d) => HasRoom(marked))
    <2> DEFINE row == [tk EXCEPT !.nudged = TRUE]
    <2>1. row \in TaskRow
      BY <1>1 DEF TaskRow
    <2>2. marked = [d EXCEPT !.task[t] = row]
      BY <1>1 DEF StoreType
    <2> HIDE DEF row, marked
    <2> QED  BY <2>1, <2>2, TaskMoved
  <1>3. CASE e = d
    BY <1>3, RaisesNothing DEF Good, Sound
  <1>4. CASE e # d
    <2>1. HasRoom(d) /\ tk.holder # Nobody
      BY <1>4 DEF Stalls
    <2>2. tk.holder \in Members
      BY <1>1, <2>1 DEF TaskRow
    <2>3. \A m \in Members, why \in Reasons : /\ Raises(d, WakeUp(d, m, t, why, c))
                                              /\ Raises(d, WakeUp(marked, m, t, why, c))
      <3> HIDE DEF marked
      <3> QED  BY <1>2, <2>1, WakeUpRaises, MovedThenWoken DEF Abouts
    <2>4. ASSUME e \in SatTooLong(d, t, c)
          PROVE  Raises(d, e)
      <3>1. CASE t \in ProjectTasks
        <4>1. \/ e \in LoopFailed(d, t, c)
              \/ \E m \in Members, why \in Reasons : e = WakeUp(d, m, t, why, c)
          BY <1>1, <1>4, <2>2, <2>4, <3>1 DEF SatTooLong, LoopStalled
        <4> QED  BY <4>1, <2>1, <2>3, LoopFailedRaises
      <3>2. CASE t \notin ProjectTasks
        <4> DEFINE row == [tk EXCEPT !.status = "Blocked"]
        <4>1. e = [d EXCEPT !.task[t].status = "Blocked"]
          BY <1>4, <2>4, <3>2 DEF SatTooLong
        <4>2. row \in TaskRow
          BY <1>1 DEF TaskRow, Statuses
        <4>3. e = [d EXCEPT !.task[t] = row]
          BY <1>1, <4>1 DEF StoreType
        <4> HIDE DEF row
        <4> QED  BY <4>2, <4>3, TaskMoved
      <3> QED  BY <3>1, <3>2
    <2>5. \/ e \in SatTooLong(d, t, c) \/ e = marked
          \/ \E m \in Members, why \in Reasons : e = WakeUp(marked, m, t, why, c)
      <3>1. e \in StalledOne(d, t, c) \cup Stranded(d, t, c)
        BY <1>4 DEF Stalls
      <3> QED  BY <1>1, <1>4, <2>2, <3>1 DEF StalledOne, Stranded
    <2> HIDE DEF marked
    <2> QED  BY <1>2, <2>3, <2>4, <2>5
  <1> QED  BY <1>3, <1>4

\* Open work whose last turn never started.
LEMMA FailedStartRaises ==
  ASSUME NEW d, Good(d), NEW t \in Tasks, NEW tk, NEW c, NEW e \in FailedStart(d, t, tk, c)
  PROVE  Raises(d, e)
  <1> DEFINE over == {r \in Ids : d.runs[r].task = t /\ d.runs[r].status \in Ended}
             last == CHOOSE r \in over : \A q \in over : q <= r
             m    == d.runs[last].member
  <1>1. CASE e = d
    BY <1>1, RaisesNothing DEF Good, Sound
  <1>2. CASE e # d
    <2>1. /\ over # {} /\ HasRoom(d) /\ d.runs[last].status = "Failed" /\ AtWork(m)
          /\ e = WakeUp(d, m, t, d.wakes[d.runs[last].wake].reason, c)
      BY <1>2 DEF FailedStart
    <2>2. last \in over
      BY <2>1, LatestOf
    <2> HIDE DEF last
    <2>3. d.runs[last] \in RunRow /\ last \in Ids
      BY <2>2, RunRows DEF Good, Sound, Ended
    <2>4. m \in Members /\ d.wakes[d.runs[last].wake].reason \in Reasons
      BY <2>3, WakeOfTurn DEF RunRow, WakeRow
    <2> QED  BY <2>1, <2>4, WakeUpRaises DEF Abouts
  <1> QED  BY <1>1, <1>2

---------------------------------------------------------------------------
(* The kill switch, starting a turn, and handing an item up.               *)

\* What any step does to a turn: one that is over stays as it is; a live one is live or over, its
\* member's, on the same task; a new one is live.
RowStep(x, y) ==
  /\ x.status \in Ended => y = x
  /\ x.status \in Live => y \in RunRow /\ y.task = x.task /\ y.member = x.member
  /\ x.status = "None" => y.status \in Live \cup {"None"}

\* And it starts no turn but the one it launches.
Steps(d, e) ==
  /\ Good(e)
  /\ \A r \in Ids : RowStep(d.runs[r], e.runs[r])
  /\ \A r \in Ids : e.runs[r].status = "Running" => d.runs[r].status = "Running" \/ Launches(r)

\* Raising work is such a step.
LEMMA RaisesSteps ==
  ASSUME NEW d, NEW e, d \in StoreType, Raises(d, e)
  PROVE  Steps(d, e)
  <1>1. ASSUME NEW r \in Ids
        PROVE  /\ RowStep(d.runs[r], e.runs[r])
               /\ e.runs[r].status = "Running" => d.runs[r].status = "Running"
    <2>1. /\ d.runs[r] \in RunRow \/ d.runs[r].status = "None"
          /\ Kept(d.runs[r], e.runs[r])
      BY RunRows DEF Raises
    <2> QED  BY <2>1 DEF Kept, RowStep, Live, Ended, RunRow
  <1> QED  BY <1>1 DEF Steps, Raises

\* And so is settling a live turn.
LEMMA SettlesSteps ==
  ASSUME NEW d, NEW e, NEW r \in Ids, d \in StoreType, d.runs[r].status \in Live, Settles(d, e, r)
  PROVE  Steps(d, e)
  <1>1. ASSUME NEW q \in Ids \ {r}
        PROVE  /\ RowStep(d.runs[q], e.runs[q])
               /\ e.runs[q].status = "Running" => d.runs[q].status = "Running"
    <2>1. /\ d.runs[q] \in RunRow \/ d.runs[q].status = "None"
          /\ Kept(d.runs[q], e.runs[q])
      BY RunRows DEF Settles
    <2> QED  BY <2>1 DEF Kept, RowStep, Live, Ended, RunRow
  <1>2. RowStep(d.runs[r], e.runs[r])
    BY DEF Settles, RowStep, Live, Ended
  <1> QED  BY <1>1, <1>2 DEF Steps, Settles

\* The kill switch leaves no live turn and no wake waiting for one that is over.
LEMMA StopEverySteps ==
  ASSUME NEW d, Good(d)
  PROVE  Steps(d, StopEvery(d))
  <1> DEFINE over  == LiveRuns(d)
             mine  == {d.runs[r].wake : r \in over}
             away  == {w \in Ids : \E t \in {d.runs[r].task : r \in over} \ {NoTask} :
                                      HeldOn(d, t) # {} /\ w = Oldest(HeldOn(d, t))}
             e     == StopEvery(d)
             ended == [r \in Ids |-> IF r \in over THEN Over(d.runs[r], "Stopped") ELSE d.runs[r]]
             told  == [w \in Ids |-> IF w \in mine THEN [d.wakes[w] EXCEPT !.receipt = "Finished"]
                                     ELSE IF w \in away THEN [d.wakes[w] EXCEPT !.receipt = "Refused"]
                                     ELSE d.wakes[w]]
  <1>1. d \in StoreType
    BY DEF Good, Sound
  <1>2. e = [d EXCEPT !.stopped = TRUE, !.runs = ended, !.wakes = told]
    BY DEF StopEvery
  <1> HIDE DEF ended, told, e
  <1>3. /\ e.runs = ended /\ e.wakes = told /\ e.task = d.task /\ e.stopped = TRUE
        /\ e = [runs |-> e.runs, wakes |-> e.wakes, task |-> e.task, stopped |-> e.stopped]
    BY <1>1, <1>2 DEF StoreType
  <1>4. ASSUME NEW r \in over
        PROVE  /\ d.runs[r] \in RunRow
               /\ e.runs[r] = Over(d.runs[r], "Stopped")
               /\ e.runs[r] \in RunRow /\ e.runs[r].status = "Stopped"
               /\ e.runs[r].task = d.runs[r].task /\ e.runs[r].wake = d.runs[r].wake
               /\ e.runs[r].member = d.runs[r].member
               /\ e.runs[r].attempts = 0
    <2>1. r \in Ids /\ d.runs[r].status \in Live /\ e.runs[r] = Over(d.runs[r], "Stopped")
      BY <1>3 DEF LiveRuns, ended
    <2>2. d.runs[r] \in RunRow
      BY <1>1, <2>1, RunRows DEF Live
    <2> DEFINE x == d.runs[r]
               y == Over(x, "Stopped")
    <2>3. /\ y \in RunRow /\ y.status = "Stopped" /\ y.task = x.task /\ y.wake = x.wake
          /\ y.attempts = 0 /\ y.member = x.member
      BY <2>2 DEF Over, RunRow, Ended
    <2> HIDE DEF y
    <2> QED  BY <2>1, <2>2, <2>3 DEF y
  <1>5. \A r \in Ids \ over : e.runs[r] = d.runs[r] /\ e.runs[r].status \notin Live
    BY <1>3 DEF ended, LiveRuns
  <1>6. \A r \in Ids : e.runs[r].status \notin Live
    BY <1>4, <1>5 DEF Live
  <1>7. \A r \in Ids : e.runs[r] \in RunRow <=> d.runs[r] \in RunRow
    BY <1>4, <1>5
  <1>8. \A r \in Ids : e.runs[r].wake = d.runs[r].wake
    BY <1>4, <1>5
  <1>9. ASSUME NEW w \in Ids
        PROVE  /\ e.wakes[w] \in WakeRow \cup {NoWake}
               /\ e.wakes[w].run = d.wakes[w].run
               /\ e.wakes[w].receipt \notin {"Queued", "Started"}
               /\ e.wakes[w].receipt = "Held" => e.wakes[w] = d.wakes[w]
    <2>1. CASE w \in mine
      <3>1. d.wakes[w] \in WakeRow
        BY <1>4, <2>1, WakeOfTurn DEF LiveRuns
      <3>2. e.wakes[w] = [d.wakes[w] EXCEPT !.receipt = "Finished"]
        BY <1>3, <2>1 DEF told
      <3> QED  BY <3>1, <3>2 DEF WakeRow, Receipts
    <2>2. CASE w \notin mine /\ w \in away
      <3>1. d.wakes[w].receipt = "Held"
        BY <2>2, OldestOf DEF HeldOn
      <3>2. d.wakes[w] \in WakeRow
        BY <1>1, <3>1, WakeRows
      <3>3. e.wakes[w] = [d.wakes[w] EXCEPT !.receipt = "Refused"]
        BY <1>3, <2>2 DEF told
      <3> QED  BY <3>2, <3>3 DEF WakeRow, Receipts
    <2>3. CASE w \notin mine /\ w \notin away
      <3>1. e.wakes[w] = d.wakes[w]
        BY <1>3, <2>3 DEF told
      <3>2. d.wakes[w].receipt \notin {"Queued", "Started"}
        BY <2>3 DEF Good, Sound, LinkedIn, LiveRuns
      <3> QED  BY <1>1, <3>1, <3>2 DEF StoreType
    <2> QED  BY <2>1, <2>2, <2>3
  <1>10. e \in StoreType
    <2>1. e.runs \in [Ids -> RunRow \cup {NoRun}]
      <3>1. \A r \in Ids : e.runs[r] \in RunRow \cup {NoRun}
        BY <1>1, <1>4, <1>5 DEF StoreType
      <3> QED  BY <1>3, <3>1 DEF ended
    <2>2. e.wakes \in [Ids -> WakeRow \cup {NoWake}]
      BY <1>3, <1>9 DEF told
    <2> QED  BY <1>1, <1>3, <2>1, <2>2 DEF StoreType
  <1>11. OneTurnIn(e) /\ QuietIn(e)
    BY <1>6 DEF OneTurnIn, QuietIn
  <1>12. LinkedIn(e)
    <2>1. ASSUME NEW r \in Ids, e.runs[r] \in RunRow
          PROVE  e.wakes[e.runs[r].wake].run = r
      <3>1. d.runs[r].wake \in Ids /\ d.wakes[d.runs[r].wake].run = r
        BY <1>7, <2>1, WakeOfTurn
      <3> QED  BY <1>8, <1>9, <3>1
    <2>2. \A w \in Ids : e.wakes[w].receipt = "Held" => e.wakes[w].run = 0
      BY <1>9 DEF LinkedIn, Good, Sound
    <2> QED  BY <1>6, <1>9, <2>1, <2>2 DEF LinkedIn
  <1>13. BoundedIn(e)
    <2>1. \A r \in over : Bounded(e.runs[r])
      BY <1>4 DEF Bounded, Live, MostRetries, MostQuiet
    <2> QED  BY <1>5, <2>1 DEF BoundedIn, Good, Sound
  <1>14. \A r \in Ids : RowStep(d.runs[r], e.runs[r])
    <2>1. \A r \in over : RowStep(d.runs[r], e.runs[r])
      BY <1>4 DEF RowStep, LiveRuns, Live, Ended
    <2>2. \A r \in Ids \ over : RowStep(d.runs[r], e.runs[r])
      BY <1>5 DEF RowStep, LiveRuns
    <2> QED  BY <2>1, <2>2
  <1>15. HeldOnceIn(e)
    BY <1>9, HeldFewer DEF Good
  <1>16. \A r \in Ids : e.runs[r].status # "Running"
    BY <1>6 DEF Live
  <1> HIDE DEF over
  <1> QED  BY <1>10, <1>11, <1>12, <1>13, <1>14, <1>15, <1>16 DEF Steps, Good, Sound, e

\* A queued turn that starts: its wake says so.
LEMMA LaunchSettles ==
  ASSUME NEW g, NEW d, NEW r \in Ids, Near(g, d, r), g.runs[r].status = "Queued",
         d.runs[r].status = "Running", d.runs[r].attempts = g.runs[r].attempts + 1, Launches(r)
  PROVE  Settles(g, [d EXCEPT !.wakes[d.runs[r].wake].receipt = "Started"], r)
  <1> DEFINE w    == d.runs[r].wake
             told == [d.wakes EXCEPT ![w].receipt = "Started"]
             e    == [d EXCEPT !.wakes[w].receipt = "Started"]
  <1>1. /\ d \in StoreType /\ g \in StoreType
        /\ g.runs[r] \in RunRow /\ d.runs[r] \in RunRow
    BY RunRows DEF Near, Good, Sound, Live
  <1>2. /\ w \in Ids /\ w = g.runs[r].wake
        /\ d.wakes[w] \in WakeRow /\ d.wakes[w].run = r
    BY <1>1, WakeOfTurn DEF Near
  <1>3. /\ e.runs = d.runs /\ e.wakes = told
        /\ e.task = d.task /\ e.stopped = d.stopped
        /\ e = [runs |-> e.runs, wakes |-> e.wakes, task |-> e.task, stopped |-> e.stopped]
    <2>1. e = [d EXCEPT !.wakes = told]
      BY <1>1 DEF StoreType
    <2> HIDE DEF told, e
    <2> QED  BY <1>1, <2>1 DEF StoreType
  <1> HIDE DEF e
  <1>4. /\ e.wakes[w] = [d.wakes[w] EXCEPT !.receipt = "Started"]
        /\ \A v \in Ids \ {w} : e.wakes[v] = g.wakes[v]
    BY <1>1, <1>2, <1>3 DEF StoreType, Near
  <1>5. e.wakes[w] \in WakeRow /\ e.wakes[w].receipt = "Started" /\ e.wakes[w].run = r
    BY <1>2, <1>4 DEF WakeRow, Receipts
  <1>6. e \in StoreType
    BY <1>1, <1>2, <1>3, <1>4, <1>5 DEF StoreType
  <1>7. ~g.stopped
    BY DEF Near, Good, Sound, QuietIn
  <1>8. OneTurnIn(e) /\ QuietIn(e)
    BY <1>3, <1>7 DEF Near, Good, Sound, OneTurnIn, QuietIn
  <1>9. BoundedIn(e)
    <2>1. Bounded(d.runs[r])
      <3>1. Bounded(g.runs[r])
        BY DEF Near, Good, Sound, BoundedIn
      <3> QED  BY <1>1, <3>1 DEF Bounded, RunRow, Live, OwnAttempts, MostRetries, MostQuiet
    <2> QED  BY <1>3, <2>1 DEF BoundedIn, Near, Good, Sound
  <1>10. LinkedIn(e)
    <2>1. ASSUME NEW q \in Ids \ {r}, e.runs[q] \in RunRow
          PROVE  /\ e.runs[q] = g.runs[q] /\ g.wakes[e.runs[q].wake].run = q
                 /\ e.wakes[e.runs[q].wake] = g.wakes[g.runs[q].wake]
      <3>1. e.runs[q] = g.runs[q] /\ g.runs[q].wake \in Ids /\ g.wakes[g.runs[q].wake].run = q
        BY <2>1, <1>3, WakeOfTurn DEF Near
      <3>2. g.runs[q].wake # w
        BY <3>1, <1>2 DEF Near
      <3> QED  BY <3>1, <3>2, <1>4
    <2>2. ASSUME NEW q \in Ids, e.runs[q] \in RunRow
          PROVE  e.wakes[e.runs[q].wake].run = q
      <3>1. CASE q = r  BY <3>1, <1>3, <1>5
      <3>2. CASE q # r  BY <3>2, <2>1, <2>2
      <3> QED  BY <3>1, <3>2
    <2>3. ASSUME NEW q \in Ids, e.runs[q].status \in Live
          PROVE  e.wakes[e.runs[q].wake].receipt \in Answers(e.runs[q])
      <3>1. CASE q = r  BY <3>1, <1>3, <1>5 DEF Answers
      <3>2. CASE q # r
        <4>1. e.runs[q] \in RunRow
          BY <1>6, <2>3, RunRows DEF Live
        <4>2. e.runs[q] = g.runs[q] /\ e.wakes[e.runs[q].wake] = g.wakes[g.runs[q].wake]
          BY <2>1, <3>2, <4>1
        <4> QED  BY <2>3, <4>2 DEF Near, Good, Sound, LinkedIn
      <3> QED  BY <3>1, <3>2
    <2>4. ASSUME NEW v \in Ids, e.wakes[v].receipt \in {"Queued", "Started"}
          PROVE  /\ e.wakes[v].run \in Ids /\ e.runs[e.wakes[v].run].status \in Live
                 /\ e.runs[e.wakes[v].run].wake = v
      <3>1. CASE v = w
        BY <3>1, <1>3, <1>5 DEF Live
      <3>2. CASE v # w
        <4>1. /\ g.wakes[v].run \in Ids /\ g.runs[g.wakes[v].run].status \in Live
              /\ g.runs[g.wakes[v].run].wake = v /\ e.wakes[v] = g.wakes[v]
          BY <2>4, <3>2, <1>4 DEF Near, Good, Sound, LinkedIn
        <4>2. g.wakes[v].run # r
          BY <3>2, <4>1, <1>2
        <4> QED  BY <4>1, <4>2, <1>3 DEF Near
      <3> QED  BY <3>1, <3>2
    <2>5. \A v \in Ids : e.wakes[v].receipt = "Held" => e.wakes[v].run = 0
      BY <1>4, <1>5 DEF Near, Good, Sound, LinkedIn
    <2> QED  BY <2>2, <2>3, <2>4, <2>5 DEF LinkedIn
  <1>11. \A q \in Ids \ {r} : Kept(g.runs[q], e.runs[q])
    BY <1>1, <1>3, RunRows DEF Kept, Near
  <1>12. HeldOnceIn(e)
    BY <1>4, <1>5, HeldFewer DEF Near, Good
  <1>13. Settles(g, e, r)
    BY <1>1, <1>3, <1>6, <1>8, <1>9, <1>10, <1>11, <1>12 DEF Settles, Good, Sound, Near
  <1> QED  BY <1>13 DEF e

\* A wake leaves the ids of turns as they were, or queues one turn: its member's, on its task.
LEMMA WakeUpQueuesOne ==
  ASSUME NEW d, Good(d), HasRoom(d), NEW m \in Members, NEW t \in Abouts, NEW why \in Reasons, NEW c
  PROVE  LET e == WakeUp(d, m, t, why, c)
         IN  \/ \A r \in Ids : d.runs[r].status = "None" => e.runs[r].status = "None"
             \/ \E r \in Ids : /\ e.runs[r].status \in Live
                               /\ e.runs[r].member = m /\ e.runs[r].task = t
  <1> DEFINE b == IF t # NoTask /\ why \in BringsNews THEN BringForward(d, t) ELSE d
             w == FreshWake(b)
             f == [b EXCEPT !.wakes[w] = [receipt |-> "Held", member |-> m, task |-> t,
                                          reason |-> why, run |-> 0]]
             out == Decide(m, Situation(b, m, t, why, c))
             e == WakeUp(d, m, t, why, c)
             u == FreshRun(f)
  <1>1. d \in StoreType
    BY DEF Good, Sound
  <1>2. Good(b) /\ b.wakes = d.wakes
    <2>1. CASE t # NoTask /\ why \in BringsNews
      BY <2>1, BringForwardRaises DEF Abouts, Raises
    <2>2. CASE ~(t # NoTask /\ why \in BringsNews)
      BY <2>2
    <2> QED  BY <2>1, <2>2
  <1>3. \A r \in Ids : d.runs[r].status = "None" => b.runs[r].status = "None"
    BY <1>1 DEF BringForward, StoreType
  <1>4. \E v \in Ids : b.wakes[v].receipt = "None"
    BY <1>2 DEF HasRoom
  <1>5. b \in StoreType /\ w \in Ids /\ f.runs = b.runs /\ f \in StoreType
    BY <1>2, <1>4, HoldingRaises, FreshWakeIsFree DEF Good, Sound
  <1>6. f.wakes[w].member = m /\ f.wakes[w].task = t
    BY <1>5 DEF StoreType
  <1>7. e = CASE out = "Queue" -> QueueTurn(f, w, c) [] out = "Hold" -> f [] OTHER -> b
    BY DEF WakeUp
  <1> HIDE DEF b, w, f, e, out
  <1>8. CASE out # "Queue"
    <2>1. e.runs = b.runs
      BY <1>5, <1>7, <1>8
    <2> QED  BY <1>3, <2>1 DEF e
  <1>9. CASE out = "Queue"
    <2>1. PICK q \in Ids : d.runs[q].status = "None"
      BY DEF HasRoom
    <2>2. u \in Ids
      BY <1>3, <1>5, <2>1, FreshRunIsFree
    <2>3. PICK s \in {"RetryWaiting", "Queued"} :
            e.runs[u] = [NoRun EXCEPT !.status = s, !.member = m, !.task = t, !.wake = w]
      BY <1>5, <1>6, <1>7, <1>9, <2>2 DEF QueueTurn, StoreType
    <2>4. e.runs[u].status \in Live /\ e.runs[u].member = m /\ e.runs[u].task = t
      BY <2>3 DEF NoRun, Live
    <2> QED  BY <2>2, <2>4 DEF e
  <1> QED  BY <1>8, <1>9

\* An item handed up: the member above is woken, and what the old holder had waiting on it ends.
LEMMA HandUpSteps ==
  ASSUME NEW t \in Tasks, NEW up \in Members, NEW c, Good(Store), HasRoom(Store),
         task[t].holder # up
  PROVE  Steps(Store, HandUp(t, up, c))
  <1> DEFINE was == task[t].holder
             d   == [Store EXCEPT !.task[t].holder = up, !.task[t].status = "Todo"]
             e   == WakeUp(d, up, t, "Assigned", c)
             old == {r \in LiveOn(e, t) : e.runs[r].member = was /\ e.runs[r].status # "Running"}
  <1>1. Raises(Store, d) /\ HasRoom(d) /\ d.runs = Store.runs
    BY HandedTo DEF Statuses, Store
  <1>2. Good(d) /\ Store \in StoreType /\ "Assigned" \in Reasons /\ t \in Abouts /\ t # NoTask
    BY <1>1, TurnsAssumption DEF Raises, Good, Sound, Reasons, Abouts
  <1>3. HandUp(t, up, c) = IF old = {} THEN e ELSE End(e, Oldest(old), "Stopped", c)
    BY DEF HandUp
  <1> HIDE DEF d
  <1>4. Raises(Store, e)
    <2>1. Raises(d, e)
      BY <1>1, <1>2, WakeUpRaises
    <2> QED  BY <1>1, <1>2, <2>1, RaisesTwice
  <1>5. \/ \A r \in Ids : d.runs[r].status = "None" => e.runs[r].status = "None"
        \/ \E r \in Ids : e.runs[r].status \in Live /\ e.runs[r].member = up /\ e.runs[r].task = t
    BY <1>1, <1>2, WakeUpQueuesOne
  <1> HIDE DEF e
  <1>6. CASE old = {}
    BY <1>2, <1>3, <1>4, <1>6, RaisesSteps
  <1>7. CASE old # {}
    <2> DEFINE r == Oldest(old)
    <2>1. old \in SUBSET Ids
      BY DEF LiveOn, LiveRuns
    <2>2. r \in Ids /\ e.runs[r].status \in Live /\ e.runs[r].task = t /\ e.runs[r].member = was
          /\ e.runs[r].status # "Running"
      BY <1>7, <2>1, OldestOf DEF LiveOn, LiveRuns
    <2> HIDE DEF r
    <2>3. Good(e)
      BY <1>4 DEF Raises
    <2>4. \A q \in Ids : d.runs[q].status = "None" => e.runs[q].status = "None"
      BY <1>2, <1>5, <2>2, <2>3 DEF Good, Sound, OneTurnIn
    <2>5. Room(e)
      BY <1>1, <2>4 DEF Room, HasRoom
    <2>6. Near(e, e, r)
      BY <2>2, <2>3, RunRows DEF Near, Good, Sound, Live
    <2>7. Settles(e, End(e, r, "Stopped", c), r)
      BY <2>2, <2>5, <2>6, EndSettles DEF Ended
    <2> DEFINE x == End(e, r, "Stopped", c)
    <2> HIDE DEF x
    <2>8. ASSUME NEW q \in Ids
          PROVE  /\ RowStep(Store.runs[q], x.runs[q])
                 /\ x.runs[q].status = "Running" => Store.runs[q].status = "Running" \/ Launches(q)
      <3>1. /\ Store.runs[q] \in RunRow \/ Store.runs[q].status = "None"
            /\ Kept(Store.runs[q], e.runs[q])
            /\ e.runs[q] \in RunRow \/ e.runs[q].status = "None"
        BY <1>2, <1>4, <2>3, RunRows DEF Raises, Good, Sound
      <3>2. CASE q = r
        <4>1. /\ x.runs[q] \in RunRow /\ x.runs[q].task = e.runs[q].task
              /\ x.runs[q].member = e.runs[q].member
              /\ x.runs[q].status = "Running" => Launches(q)
          BY <2>2, <2>7, <3>2 DEF Settles, x
        <4>2. /\ Store.runs[q].status \in Live /\ e.runs[q].task = Store.runs[q].task
              /\ e.runs[q].member = Store.runs[q].member
          <5>1. Store.runs[q].status # "None"
            BY <1>1, <2>2, <2>4, <3>2 DEF Live
          <5>2. Store.runs[q].status \notin Ended
            BY <2>2, <3>1, <3>2 DEF Kept, Live, Ended
          <5>3. Store.runs[q].status \in {"Queued", "Running", "RetryWaiting"}
            BY <3>1, <5>1, <5>2 DEF RunRow, Live
          <5> QED  BY <3>1, <5>3 DEF Kept, Live
        <4> QED  BY <4>1, <4>2 DEF RowStep, Live, Ended
      <3>3. CASE q # r
        <4>1. Kept(e.runs[q], x.runs[q])
          BY <2>7, <3>3 DEF Settles, x
        <4> QED  BY <3>1, <4>1 DEF Kept, RowStep, Live, Ended, RunRow
      <3> QED  BY <3>2, <3>3
    <2> QED  BY <1>3, <1>7, <2>7, <2>8 DEF Steps, Settles, r, x
  <1> QED  BY <1>6, <1>7

---------------------------------------------------------------------------
(* The steps of Next.                                                      *)

\* The rest of the state has its type, and a pass has only such turns left to look at as it may
\* settle or start: what it read is still so when it comes to act on it.
Others ==
  /\ member \in [Members -> [at : {"AtWork", "Paused", "Furloughed"}, brain : {"house", "cloud"}]]
  /\ drain \in BOOLEAN /\ looked \in BOOLEAN /\ onHold \in BOOLEAN /\ broke \in BOOLEAN
  /\ runner \in [Ids -> Liveness]
  /\ at \in Phases /\ left \subseteq Ids /\ look \subseteq Tasks
  /\ restarts \in 0..MaxRestarts

LeftIn == /\ at = "settle" => \A r \in left : runs[r].status = "Running"
          /\ at = "start" => \A r \in left : runs[r].status = "Queued"

Inv == Good(Store) /\ Others /\ LeftIn

Keeps == Steps(Store, Store') /\ Others' /\ LeftIn'

\* What an operation commits is the next store.
LEMMA Committed ==
  ASSUME NEW d, d \in StoreType, Commit(d)
  PROVE  Store' = d
  BY DEF Commit, Store, StoreType

\* A step that leaves the store alone.
LEMMA SameStore ==
  ASSUME Good(Store), UNCHANGED <<runs, wakes, task, stopped>>
  PROVE  Steps(Store, Store')
  <1>1. Store' = Store
    BY DEF Store
  <1>2. Raises(Store, Store) /\ Store \in StoreType
    BY RaisesNothing DEF Good, Sound
  <1> QED  BY <1>1, <1>2, RaisesSteps

\* A step that raises work.
LEMMA CommitRaised ==
  ASSUME Good(Store), NEW d, Raises(Store, d), Commit(d)
  PROVE  Steps(Store, Store')
  <1>1. d \in StoreType /\ Store \in StoreType
    BY DEF Raises, Good, Sound
  <1> QED  BY <1>1, Committed, RaisesSteps

\* A step that settles a live turn.
LEMMA CommitSettled ==
  ASSUME Good(Store), NEW r \in Ids, runs[r].status \in Live, NEW d, Settles(Store, d, r), Commit(d)
  PROVE  Steps(Store, Store')
  <1>1. d \in StoreType /\ Store \in StoreType /\ Store.runs[r].status \in Live
    BY DEF Settles, Good, Sound, Store
  <1> QED  BY <1>1, Committed, SettlesSteps

\* A live turn's row, as it stands.
LEMMA NearItself ==
  ASSUME Good(Store), NEW r \in Ids, runs[r].status \in Live
  PROVE  Near(Store, Store, r)
  <1>1. Store \in StoreType /\ Store.runs = runs
    BY DEF Good, Sound, Store
  <1> QED  BY <1>1, RunRows DEF Near, Live

\* The bound in the guards is the room the lemmas ask for.
LEMMA RoomIs ==
  RoomToRelease(Store) => Room(Store)
  BY DEF RoomToRelease, Room

\* A turn that ends, and what follows it.
LEMMA EndThenFollow ==
  ASSUME Good(Store), NEW r \in Ids, runs[r].status \in Live, RoomToRelease(Store), NEW c,
         NEW how \in Ended, NEW e \in FollowUps(End(Store, r, how, c), r, c)
  PROVE  Settles(Store, e, r)
  <1> DEFINE d == End(Store, r, how, c)
  <1>1. Settles(Store, d, r)
    BY NearItself, RoomIs, EndSettles
  <1> HIDE DEF d
  <1>2. Raises(d, e)
    BY <1>1, FollowUpsRaise DEF Settles, d
  <1> QED  BY <1>1, <1>2, SettlesThenRaises DEF Good, Sound

\* The operations.
LEMMA OperationKeeps ==
  ASSUME Inv, Operation
  PROVE  Keeps
  <1> USE DEF Inv
  <1>1. ASSUME NEW k \in Raised, Wake(k[1], k[2], k[3])
        PROVE  Keeps
    <2>1. PICK c \in Circumstances : Commit(WakeUp(Store, k[1], k[2], k[3], c))
      BY <1>1 DEF Wake
    <2>2. k[1] \in Members /\ k[2] \in Abouts /\ k[3] \in Reasons
      BY TurnsAssumption
    <2>3. Steps(Store, Store')
      BY <1>1, <2>1, <2>2, WakeUpRaises, CommitRaised DEF Wake
    <2> QED  BY <1>1, <2>3 DEF Wake, Keeps, Others, LeftIn, owned, memory, pass, Work, Free
  <1>2. ASSUME NEW t \in Tasks, NEW status \in Statuses, MoveTask(t, status)
        PROVE  Keeps
    <2> DEFINE row == [task[t] EXCEPT !.status = status]
    <2>1. row \in TaskRow
      BY DEF Good, Sound, StoreType, Store, TaskRow
    <2>2. Commit([Store EXCEPT !.task[t] = row])
      BY <1>2 DEF MoveTask, Commit, Store
    <2> HIDE DEF row
    <2>3. Steps(Store, Store')
      BY <2>1, <2>2, TaskMoved, CommitRaised
    <2> QED  BY <1>2, <2>3 DEF MoveTask, Keeps, Others, LeftIn, owned, memory, pass, Work, Free
  <1>3. ASSUME NEW t \in Tasks, NEW m \in Members \cup {Nobody}, Hold(t, m)
        PROVE  Keeps
    <2> DEFINE row == [task[t] EXCEPT !.holder = m]
    <2>1. row \in TaskRow
      BY DEF Good, Sound, StoreType, Store, TaskRow
    <2>2. Commit([Store EXCEPT !.task[t] = row])
      BY <1>3 DEF Hold, Commit, Store
    <2> HIDE DEF row
    <2>3. Steps(Store, Store')
      BY <2>1, <2>2, TaskMoved, CommitRaised
    <2> QED  BY <1>3, <2>3 DEF Hold, Keeps, Others, LeftIn, owned, memory, pass, Work, Free
  <1>4. ASSUME NEW r \in Ids, Ask(r)
        PROVE  Keeps
    <2>1. PICK c \in Circumstances : \E d \in FollowUps(End(Store, r, "Succeeded", c), r, c) : Commit(d)
      BY <1>4 DEF Ask
    <2>2. runs[r].status \in Live /\ RoomToRelease(Store) /\ "Succeeded" \in Ended
      BY <1>4 DEF Ask, Live, Ended
    <2>3. Steps(Store, Store')
      BY <2>1, <2>2, EndThenFollow, CommitSettled
    <2> QED  BY <1>4, <2>3 DEF Ask, Keeps, Others, LeftIn, owned, pass, Free, Gone, Liveness
  <1>5. ASSUME NEW r \in Ids, SpendOut(r)
        PROVE  Keeps
    <2>1. PICK c \in Circumstances : Commit(End(Store, r, "Stopped", c))
      BY <1>5 DEF SpendOut
    <2>2. runs[r].status \in Live /\ RoomToRelease(Store) /\ "Stopped" \in Ended
      BY <1>5 DEF SpendOut, Live, Ended
    <2>3. Settles(Store, End(Store, r, "Stopped", c), r)
      BY <2>2, NearItself, RoomIs, EndSettles
    <2>4. Steps(Store, Store')
      BY <2>1, <2>2, <2>3, CommitSettled
    <2> QED  BY <1>5, <2>4 DEF SpendOut, Keeps, Others, LeftIn, owned, pass, Free, Gone, Liveness
  <1>6. ASSUME NEW r \in Ids, WrapUp(r)
        PROVE  Keeps
    <2> DEFINE n == IF runs[r].attempts = 0 THEN 0 ELSE runs[r].attempts - 1
               d == [Store EXCEPT !.runs[r].attempts = n]
    <2>1. PICK c \in Circumstances : Commit(Fail(d, r, "Worker", c))
      BY <1>6 DEF WrapUp
    <2>2. runs[r].status \in Live /\ RoomToRelease(Store)
      BY <1>6 DEF WrapUp, Live
    <2>3. Near(Store, d, r)
      <3>1. Store \in StoreType /\ Store.runs = runs /\ runs[r] \in RunRow
        BY <2>2, RunRows DEF Good, Sound, Store, Live
      <3>2. n \in Nat
        BY <3>1 DEF RunRow
      <3>3. [runs[r] EXCEPT !.attempts = n] \in RunRow
        BY <3>1, <3>2 DEF RunRow
      <3> HIDE DEF n
      <3>4. /\ d \in StoreType /\ d.wakes = Store.wakes /\ d.stopped = Store.stopped
            /\ d.runs[r] = [runs[r] EXCEPT !.attempts = n]
            /\ \A q \in Ids \ {r} : d.runs[q] = Store.runs[q]
        BY <3>1, <3>3 DEF StoreType
      <3> HIDE DEF d
      <3> QED  BY <2>2, <3>1, <3>3, <3>4 DEF Near, RunRow
    <2> HIDE DEF d
    <2>4. Steps(Store, Store')
      BY <2>1, <2>2, <2>3, RoomIs, FailSettles, CommitSettled
    <2> QED  BY <1>6, <2>4 DEF WrapUp, Keeps, Others, LeftIn, owned, pass, Free, Gone, Liveness
  <1>7. ASSUME NEW t \in Tasks, Retire(t)
        PROVE  Keeps
    <2> DEFINE d == [Store EXCEPT !.task[t].status = "Finished"]
    <2>1. Raises(Store, d) /\ d.runs = Store.runs /\ d.wakes = Store.wakes /\ d.stopped = Store.stopped
      <3> DEFINE row == [task[t] EXCEPT !.status = "Finished"]
      <3>1. row \in TaskRow /\ Store \in StoreType
        BY DEF Good, Sound, StoreType, Store, TaskRow, Statuses
      <3>2. d = [Store EXCEPT !.task[t] = row]
        BY DEF Store
      <3> HIDE DEF row
      <3> QED  BY <3>1, <3>2, TaskMoved DEF StoreType
    <2>2. \/ Commit(d)
          \/ LiveOn(d, t) # {} /\ \E c \in Circumstances : Commit(End(d, Oldest(LiveOn(d, t)), "Stopped", c))
      BY <1>7 DEF Retire
    <2> HIDE DEF d
    <2>3. Steps(Store, Store')
      <3>1. CASE Commit(d)
        BY <2>1, <3>1, CommitRaised
      <3>2. CASE LiveOn(d, t) # {} /\ \E c \in Circumstances : Commit(End(d, Oldest(LiveOn(d, t)), "Stopped", c))
        <4> DEFINE r == Oldest(LiveOn(d, t))
        <4>1. LiveOn(d, t) \in SUBSET Ids
          BY DEF LiveOn, LiveRuns
        <4>2. r \in LiveOn(d, t)
          BY <3>2, <4>1, OldestOf
        <4> HIDE DEF r
        <4>3. r \in Ids /\ runs[r].status \in Live
          BY <2>1, <4>2 DEF LiveOn, LiveRuns, Store
        <4>4. Near(Store, d, r)
          BY <2>1, <4>3, RunRows DEF Near, Raises, Good, Sound, Store, Live
        <4>5. PICK c \in Circumstances : Commit(End(d, r, "Stopped", c))
          BY <3>2 DEF r
        <4>6. Settles(Store, End(d, r, "Stopped", c), r)
          BY <1>7, <4>3, <4>4, RoomIs, EndSettles DEF Retire, Ended
        <4> QED  BY <4>3, <4>5, <4>6, CommitSettled
      <3> QED  BY <2>2, <3>1, <3>2
    <2> QED  BY <1>7, <2>3 DEF Retire, Keeps, Others, LeftIn, owned, pass, Free, Gone, Liveness
  <1>8. CASE StopAll
    <2>1. Steps(Store, StopEvery(Store))
      BY StopEverySteps
    <2>2. Steps(Store, Store')
      BY <1>8, <2>1, Committed DEF StopAll, Steps, Good, Sound
    <2> QED  BY <1>8, <2>2 DEF StopAll, Keeps, Others, LeftIn, owned, pass, Free, Gone, Liveness
  <1>9. CASE Resume
    <2>1. /\ Store' = [runs |-> Store.runs, wakes |-> Store.wakes, task |-> Store.task,
                       stopped |-> FALSE]
          /\ Store \in StoreType
      BY <1>9 DEF Resume, Store, Good, Sound
    <2>2. Good(Store') /\ Store'.runs = Store.runs
      BY <2>1 DEF Good, Sound, StoreType, OneTurnIn, QuietIn, LinkedIn, BoundedIn, HeldOnceIn, SameHeld
    <2>3. \A r \in Ids : RowStep(Store.runs[r], Store'.runs[r])
      BY <2>2, RunRows DEF RowStep, Good, Sound, Live, Ended
    <2> QED  BY <1>9, <2>2, <2>3
              DEF Resume, Keeps, Steps, Others, LeftIn, owned, memory, pass, Free
  <1>10. CASE BeginDrain \/ EndDrain \/ Owner
    <2>1. Steps(Store, Store')
      BY <1>10, SameStore DEF BeginDrain, EndDrain, Owner
    <2>2. at = "idle" /\ UNCHANGED <<pass, runner, restarts>>
      BY <1>10 DEF BeginDrain, EndDrain, Owner, Free, memory, owned
    <2>3. CASE BeginDrain \/ EndDrain
      BY <2>1, <2>2, <2>3 DEF BeginDrain, EndDrain, Keeps, Others, LeftIn, owned, pass
    <2>4. CASE Owner
      <3> DEFINE MemberRow == [at : {"AtWork", "Paused", "Furloughed"}, brain : {"house", "cloud"}]
      <3>1. /\ member' \in [Members -> MemberRow]
            /\ onHold' \in BOOLEAN /\ broke' \in BOOLEAN /\ drain' = drain /\ looked' = looked
        <4>1. /\ member \in [Members -> MemberRow] /\ onHold \in BOOLEAN /\ broke \in BOOLEAN
              /\ drain' = drain /\ looked' = looked
          BY <2>4 DEF Owner, Others, memory
        <4>2. ASSUME NEW m \in Members, NEW a \in {"AtWork", "Paused", "Furloughed"},
                     member' = [member EXCEPT ![m].at = a]
              PROVE  member' \in [Members -> MemberRow]
          BY <4>1, <4>2
        <4>3. ASSUME NEW m \in Members,
                     member' = [member EXCEPT ![m].brain = IF @ = "house" THEN "cloud" ELSE "house"]
              PROVE  member' \in [Members -> MemberRow]
          BY <4>1, <4>3
        <4>4. CASE \E m \in Members, a \in {"AtWork", "Paused", "Furloughed"} :
                     member' = [member EXCEPT ![m].at = a] /\ UNCHANGED <<onHold, broke>>
          BY <4>1, <4>2, <4>4
        <4>5. CASE \E m \in Members :
                     /\ member' = [member EXCEPT ![m].brain = IF @ = "house" THEN "cloud" ELSE "house"]
                     /\ UNCHANGED <<onHold, broke>>
          BY <4>1, <4>3, <4>5
        <4>6. CASE \/ onHold' = ~onHold /\ UNCHANGED <<member, broke>>
                   \/ broke' = ~broke /\ UNCHANGED <<member, onHold>>
          <5>1. (~onHold) \in BOOLEAN /\ (~broke) \in BOOLEAN
            OBVIOUS
          <5>2. onHold' \in BOOLEAN
            BY <4>1, <4>6, <5>1, Zenon
          <5>3. broke' \in BOOLEAN
            BY <4>1, <4>6, <5>1, Zenon
          <5>4. member' = member
            BY <4>6
          <5> QED  BY <4>1, <5>2, <5>3, <5>4
        <4>7. \/ \E m \in Members, a \in {"AtWork", "Paused", "Furloughed"} :
                   member' = [member EXCEPT ![m].at = a] /\ UNCHANGED <<onHold, broke>>
              \/ \E m \in Members :
                   /\ member' = [member EXCEPT ![m].brain = IF @ = "house" THEN "cloud" ELSE "house"]
                   /\ UNCHANGED <<onHold, broke>>
              \/ onHold' = ~onHold /\ UNCHANGED <<member, broke>>
              \/ broke' = ~broke /\ UNCHANGED <<member, onHold>>
          BY <2>4 DEF Owner
        <4> HIDE DEF MemberRow
        <4> QED  BY <4>1, <4>4, <4>5, <4>6, <4>7
      <3> QED  BY <2>1, <2>2, <3>1 DEF Keeps, Others, LeftIn, pass
    <2> QED  BY <1>10, <2>3, <2>4
  <1> QED  BY <1>1, <1>2, <1>3, <1>4, <1>5, <1>6, <1>7, <1>8, <1>9, <1>10 DEF Operation

\* The turn a pass looks at next is one of those it has left.
LEMMA NextQueuedOf ==
  ASSUME left \in SUBSET Ids, left # {}, \A r \in left : runs[r].task \in Abouts
  PROVE  NextQueued \in left
  <1> DEFINE ranks == {Urgency[runs[r].task] : r \in left}
  <1>1. ranks \in SUBSET Nat /\ ranks # {}
    BY TurnsAssumption
  <1>2. PICK k \in ranks : \A j \in ranks : k <= j
    <2> HIDE DEF ranks
    <2> QED  BY <1>1, LeastOf
  <1> DEFINE first == {r \in left : Urgency[runs[r].task] = k}
  <1>3. first \in SUBSET Ids /\ first # {}
    OBVIOUS
  <1>4. PICK n \in first : \A j \in first : n <= j
    <2> HIDE DEF first
    <2> QED  BY <1>3, OldestOf
  <1>5. ASSUME NEW q \in left
        PROVE  \/ Urgency[runs[n].task] < Urgency[runs[q].task]
               \/ Urgency[runs[n].task] = Urgency[runs[q].task] /\ n <= q
    <2>1. Urgency[runs[n].task] = k /\ k <= Urgency[runs[q].task]
          /\ k \in Nat /\ Urgency[runs[q].task] \in Nat
      BY <1>1, <1>2
    <2>2. CASE Urgency[runs[q].task] = k
      BY <1>4, <2>1, <2>2
    <2>3. CASE Urgency[runs[q].task] # k
      BY <2>1, <2>3
    <2> QED  BY <2>2, <2>3
  <1> HIDE DEF first
  <1>6. n \in left
    BY <1>4 DEF first
  <1> QED  BY <1>5, <1>6 DEF NextQueued

\* A store with one live turn's row replaced.
LEMMA RowNear ==
  ASSUME Good(Store), NEW r \in Ids, runs[r].status \in Live, NEW y \in RunRow,
         y.member = runs[r].member, y.task = runs[r].task, y.wake = runs[r].wake
  PROVE  LET d == [Store EXCEPT !.runs = [runs EXCEPT ![r] = y]]
         IN  Near(Store, d, r) /\ d.runs[r] = y
  <1> DEFINE d == [Store EXCEPT !.runs = [runs EXCEPT ![r] = y]]
  <1>1. Store \in StoreType /\ Store.runs = runs
    BY DEF Good, Sound, Store
  <1>2. /\ d \in StoreType /\ d.wakes = Store.wakes /\ d.stopped = Store.stopped
        /\ d.runs[r] = y /\ \A q \in Ids \ {r} : d.runs[q] = Store.runs[q]
    BY <1>1 DEF StoreType
  <1> HIDE DEF d
  <1>3. Near(Store, d, r)
    BY <1>1, <1>2 DEF Near
  <1> QED  BY <1>2, <1>3 DEF d

\* What the start of a turn hands on: its row, counted and marked.
LEMMA StartedNear ==
  ASSUME Good(Store), NEW r \in Ids, runs[r].status = "Queued"
  PROVE  /\ Near(Store, Started(r), r) /\ Started(r).runs[r].status = "Running"
         /\ Started(r).runs[r].attempts = runs[r].attempts + 1
         /\ Near(Store, [Started(r) EXCEPT !.runs[r].neverStarted = TRUE], r)
  <1> DEFINE x == runs[r]
             h == (member[x.member].brain = "house")
             z == AsStarted(x)
             y == [z EXCEPT !.neverStarted = TRUE]
             d == [Started(r) EXCEPT !.runs[r].neverStarted = TRUE]
             e == Started(r)
  <1>1. Store \in StoreType /\ Store.runs = runs /\ x \in RunRow /\ runs[r].status \in Live
    BY RunRows DEF Good, Sound, Store, Live
  <1>2. PICK n \in Nat : n = x.attempts + 1
    BY <1>1 DEF RunRow
  <1>3. /\ y \in RunRow /\ y.member = x.member /\ y.task = x.task /\ y.wake = x.wake
        /\ z \in RunRow /\ z.member = x.member /\ z.task = x.task /\ z.wake = x.wake
        /\ z.status = "Running" /\ z.attempts = x.attempts + 1
    <2>1. h \in BOOLEAN
      OBVIOUS
    <2>2. z = [x EXCEPT !.status = "Running", !.started = TRUE, !.attempts = n,
                        !.neverStarted = FALSE, !.house = h]
      BY <1>2 DEF AsStarted
    <2> HIDE DEF h, z
    <2>3. /\ z \in RunRow /\ z.status = "Running" /\ z.attempts = n
          /\ z.member = x.member /\ z.task = x.task /\ z.wake = x.wake
      BY <1>1, <2>1, <2>2 DEF RunRow, Live
    <2>4. y \in RunRow /\ y.member = z.member /\ y.task = z.task /\ y.wake = z.wake
      BY <2>3 DEF RunRow
    <2> QED  BY <1>2, <2>3, <2>4
  <1> HIDE DEF z
  <1>4. e = [Store EXCEPT !.runs = [runs EXCEPT ![r] = z]]
    BY <1>1 DEF Started, z
  <1>5. d = [Store EXCEPT !.runs = [runs EXCEPT ![r] = y]]
    <2>1. e \in [runs : {[runs EXCEPT ![r] = z]}, wakes : {wakes}, task : {task}, stopped : {stopped}]
      BY <1>4 DEF Store
    <2>2. e.runs[r] = z
      BY <1>1, <2>1 DEF StoreType
    <2> HIDE DEF e
    <2>3. [e EXCEPT !.runs[r].neverStarted = TRUE]
            = [e EXCEPT !.runs = [e.runs EXCEPT ![r] = [z EXCEPT !.neverStarted = TRUE]]]
      BY <2>2
    <2>4. [e.runs EXCEPT ![r] = y] = [runs EXCEPT ![r] = y]
      BY <1>1, <2>1 DEF StoreType
    <2> HIDE DEF y
    <2>5. d = [e EXCEPT !.runs = [runs EXCEPT ![r] = y]]
      BY <2>3, <2>4 DEF e, y
    <2> HIDE DEF d
    <2> QED  BY <1>1, <2>1, <2>5 DEF Store
  <1> HIDE DEF y, d, e
  <1>6. Near(Store, e, r) /\ e.runs[r] = z
    BY <1>1, <1>3, <1>4, RowNear
  <1>7. Near(Store, d, r)
    BY <1>1, <1>3, <1>5, RowNear
  <1> QED  BY <1>3, <1>6, <1>7 DEF d, e

\* A pass settles or starts one of the turns it has left: the others are as the pass read them.
LEMMA SettlesNext ==
  ASSUME Inv, at \in {"settle", "start"}, NEW r \in left, NEW d, Settles(Store, d, r), Commit(d),
         at' = at, left' = left \ {r}, Others'
  PROVE  Keeps
  <1>1. r \in Ids /\ runs[r].status \in Live
    BY DEF Inv, Others, LeftIn, Live
  <1>2. Steps(Store, Store')
    BY <1>1, CommitSettled DEF Inv
  <1>3. Store' = d
    BY Committed DEF Settles, Good, Sound
  <1>4. ASSUME NEW q \in left', runs[q].status \in {"Queued", "Running"}
        PROVE  runs'[q] = runs[q]
    <2>1. Kept(Store.runs[q], d.runs[q])
      BY DEF Settles, Inv, Others
    <2>2. Store.runs = runs /\ d.runs = runs'
      BY <1>3 DEF Store
    <2> QED  BY <1>4, <2>1, <2>2 DEF Kept
  <1>5. LeftIn'
    BY <1>4 DEF Inv, LeftIn
  <1> QED  BY <1>2, <1>5 DEF Keeps

\* The steps of a tick.
LEMMA TickKeeps ==
  ASSUME Inv, TickStep
  PROVE  Keeps
  <1> USE DEF Inv
  <1>1. ASSUME NEW f \in Whether("drain"), TickBegin(f)
        PROVE  Keeps
    <2>1. Steps(Store, Store')
      BY <1>1, SameStore DEF TickBegin
    <2>2. drain' \in BOOLEAN
      BY <1>1 DEF TickBegin
    <2>3. /\ at' \in Phases /\ left' \subseteq Ids /\ look' \subseteq Tasks
          /\ at' = "settle" => left' = RunningRuns(Store)
          /\ at' # "start"
      BY <1>1 DEF TickBegin, Others, pass, Phases, RunningRuns, Free
    <2>4. LeftIn'
      BY <1>1, <2>3 DEF LeftIn, RunningRuns, Store, TickBegin
    <2> QED  BY <1>1, <2>1, <2>2, <2>3, <2>4 DEF TickBegin, Keeps, Others, owned
  <1>2. CASE SettleOne
    <2> DEFINE r == Oldest(left)
    <2>1. r \in left /\ r \in Ids /\ runs[r].status = "Running" /\ at = "settle"
      BY <1>2, OldestOf DEF SettleOne, Others, LeftIn
    <2>2. /\ left' = left \ {r} /\ at' = at /\ RoomToRelease(Store) /\ runs[r].status \in Live
          /\ UNCHANGED <<looked, owned, look, drain, restarts>>
          /\ runner' = runner \/ runner' = Gone({r})
      BY <1>2, <2>1 DEF SettleOne, Live
    <2>3. Others'
      BY <2>2 DEF Others, owned, Gone, Liveness
    <2>4. \/ UNCHANGED <<runs, wakes, task, stopped>>
          \/ \E x \in Circumstances : Commit(End(Store, r, "TimedOut", x))
          \/ \E x \in Circumstances : \E d \in FollowUps(End(Store, r, "Succeeded", x), r, x) : Commit(d)
          \/ \E x \in Circumstances, never \in BOOLEAN, fault \in {"Platform", "Worker"} :
               Commit(Fail([Store EXCEPT !.runs[r].neverStarted = never], r, fault, x))
      BY <1>2 DEF SettleOne, FaultOf
    <2> HIDE DEF r
    <2>5. CASE UNCHANGED <<runs, wakes, task, stopped>>
      BY <2>1, <2>2, <2>3, <2>5, SameStore DEF Keeps, LeftIn
    <2>6. ASSUME NEW x \in Circumstances, Commit(End(Store, r, "TimedOut", x))
          PROVE  Keeps
      <3>1. Settles(Store, End(Store, r, "TimedOut", x), r)
        BY <2>1, <2>2, NearItself, RoomIs, EndSettles DEF Ended
      <3> QED  BY <2>1, <2>2, <2>3, <2>6, <3>1, SettlesNext
    <2>7. ASSUME NEW x \in Circumstances, NEW d \in FollowUps(End(Store, r, "Succeeded", x), r, x),
                 Commit(d)
          PROVE  Keeps
      <3>1. Settles(Store, d, r)
        BY <2>1, <2>2, EndThenFollow DEF Ended
      <3> QED  BY <2>1, <2>2, <2>3, <2>7, <3>1, SettlesNext
    <2>8. ASSUME NEW x \in Circumstances, NEW never \in BOOLEAN, NEW fault,
                 Commit(Fail([Store EXCEPT !.runs[r].neverStarted = never], r, fault, x))
          PROVE  Keeps
      <3> DEFINE d == [Store EXCEPT !.runs[r].neverStarted = never]
                 y == [runs[r] EXCEPT !.neverStarted = never]
      <3>1. Store \in StoreType /\ Store.runs = runs /\ runs[r] \in RunRow
        BY <2>1, <2>2, RunRows DEF Good, Sound, Store, Live
      <3>2. /\ y \in RunRow /\ y.member = runs[r].member /\ y.task = runs[r].task
            /\ y.wake = runs[r].wake
        BY <3>1 DEF RunRow
      <3>3. d = [Store EXCEPT !.runs = [runs EXCEPT ![r] = y]]
        BY <3>1
      <3> HIDE DEF y, d
      <3>4. Near(Store, d, r)
        BY <2>1, <2>2, <3>2, <3>3, RowNear
      <3>5. Settles(Store, Fail(d, r, fault, x), r)
        BY <2>1, <2>2, <3>4, RoomIs, FailSettles
      <3> QED  BY <2>1, <2>2, <2>3, <2>8, <3>5, SettlesNext DEF d
    <2> QED  BY <2>4, <2>5, <2>6, <2>7, <2>8
  <1>3. CASE SettleEnd \/ TickEnd
    <2>1. Steps(Store, Store')
      BY <1>3, SameStore DEF SettleEnd, TickEnd
    <2> QED  BY <1>3, <2>1 DEF SettleEnd, TickEnd, Keeps, Others, LeftIn, owned, memory, Phases
  <1>4. ASSUME NEW t \in Tasks, NEW up \in Members, PausedLetGo(t, up)
        PROVE  Keeps
    <2>1. PICK c \in Circumstances : Commit(HandUp(t, up, c))
      BY <1>4 DEF PausedLetGo
    <2>2. Steps(Store, HandUp(t, up, c))
      BY <1>4, HandUpSteps DEF PausedLetGo
    <2>3. Steps(Store, Store')
      BY <2>1, <2>2, Committed DEF Steps, Good, Sound
    <2> QED  BY <1>4, <2>3 DEF PausedLetGo, Keeps, Others, LeftIn, owned, memory, pass
  <1>5. CASE RequeueRetries
    <2> DEFINE S == {r \in Ids : runs[r].late}
    <2>1. Commit(Requeued(Store, S))
      BY <1>5 DEF RequeueRetries, Requeued, Brought, Commit, Store
    <2>2. S \in SUBSET Ids
      OBVIOUS
    <2> HIDE DEF S
    <2>3. Steps(Store, Store')
      BY <2>1, <2>2, RequeuedRaises, CommitRaised
    <2>4. left' \subseteq Ids /\ at' = "start" /\ \A r \in left' : runs'[r].status = "Queued"
      BY <1>5 DEF RequeueRetries
    <2> QED  BY <1>5, <2>3, <2>4 DEF RequeueRetries, Keeps, Others, LeftIn, owned, memory, Phases
  <1>6. ASSUME Starting
        PROVE  /\ NextQueued \in left /\ NextQueued \in Ids /\ at = "start"
               /\ runs[NextQueued].status = "Queued" /\ RoomToRelease(Store)
    <2>1. /\ at = "start" /\ left # {} /\ left \in SUBSET Ids /\ RoomToRelease(Store)
          /\ \A r \in left : runs[r].status = "Queued"
      BY <1>6 DEF Starting, Others, LeftIn
    <2>2. \A r \in left : runs[r].task \in Abouts
      BY <2>1, RunRows DEF Good, Sound, Store, RunRow
    <2> QED  BY <2>1, <2>2, NextQueuedOf
  <1>7. CASE DropQueued
    <2> DEFINE r == NextQueued
    <2>1. PICK c \in Circumstances : Commit(End(Store, r, "Stopped", c))
      BY <1>7 DEF DropQueued
    <2>2. r \in left /\ r \in Ids /\ at = "start" /\ runs[r].status \in Live /\ RoomToRelease(Store)
      BY <1>6, <1>7 DEF DropQueued, Live
    <2>3. left' = left \ {r} /\ at' = at /\ Others'
      BY <1>7 DEF DropQueued, Others, owned, memory
    <2> HIDE DEF r
    <2>4. Settles(Store, End(Store, r, "Stopped", c), r)
      BY <2>2, NearItself, RoomIs, EndSettles DEF Ended
    <2> QED  BY <2>1, <2>2, <2>3, <2>4, SettlesNext
  <1>8. CASE RunnerFull \/ LeaveQueued
    <2>1. Steps(Store, Store')
      BY <1>8, SameStore DEF RunnerFull, LeaveQueued
    <2>2. left' \subseteq left /\ at' = at /\ runs' = runs
      BY <1>8 DEF RunnerFull, LeaveQueued
    <2> QED  BY <1>8, <2>1, <2>2 DEF RunnerFull, LeaveQueued, Keeps, Others, LeftIn, owned, memory
  <1>9. CASE Launch
    <2> DEFINE r == NextQueued
               d == Started(r)
    <2>1. /\ r \in left /\ r \in Ids /\ at = "start" /\ runs[r].status = "Queued"
      BY <1>6, <1>9 DEF Launch, MayStart
    <2>2. Commit([d EXCEPT !.wakes[runs[r].wake].receipt = "Started"])
      BY <1>9 DEF Launch
    <2>3. left' = left \ {r} /\ at' = at /\ Others'
      BY <1>9, <2>1 DEF Launch, Others, owned, Liveness
    <2>7. Launches(r)
      BY <1>9 DEF Launch, Launches
    <2> HIDE DEF r
    <2>4. /\ Near(Store, d, r) /\ d.runs[r].status = "Running"
          /\ d.runs[r].attempts = runs[r].attempts + 1
      BY <2>1, StartedNear
    <2> HIDE DEF d
    <2>5. d.runs[r].wake = runs[r].wake /\ Store.runs = runs
      BY <2>4 DEF Near, Store
    <2>6. Settles(Store, [d EXCEPT !.wakes[d.runs[r].wake].receipt = "Started"], r)
      BY <2>1, <2>4, <2>5, <2>7, LaunchSettles
    <2> QED  BY <2>1, <2>2, <2>3, <2>5, <2>6, SettlesNext
  <1>10. CASE LaunchFails
    <2> DEFINE r == NextQueued
               d == [Started(r) EXCEPT !.runs[r].neverStarted = TRUE]
    <2>1. r \in left /\ r \in Ids /\ at = "start" /\ runs[r].status = "Queued" /\ RoomToRelease(Store)
      BY <1>6, <1>10 DEF LaunchFails, MayStart
    <2>2. PICK c \in Circumstances : Commit(Fail(d, r, "Worker", c))
      BY <1>10 DEF LaunchFails
    <2>3. left' = left \ {r} /\ at' = at /\ Others'
      BY <1>10 DEF LaunchFails, Others, owned, memory
    <2> HIDE DEF r
    <2>4. Near(Store, d, r)
      BY <2>1, StartedNear
    <2> HIDE DEF d
    <2>5. Settles(Store, Fail(d, r, "Worker", c), r)
      BY <2>1, <2>4, RoomIs, FailSettles
    <2> QED  BY <2>1, <2>2, <2>3, <2>5, SettlesNext
  <1>11. CASE Trip
    <2>1. Steps(Store, StopEvery(Store))
      BY StopEverySteps
    <2>2. Steps(Store, Store')
      BY <1>11, <2>1, Committed DEF Trip, Steps, Good, Sound
    <2> QED  BY <1>11, <2>2 DEF Trip, Keeps, Others, LeftIn, owned, Gone, Liveness, Phases
  <1>12. CASE StartEnd
    <2>1. Steps(Store, Store')
      BY <1>12, SameStore DEF StartEnd
    <2> QED  BY <1>12, <2>1 DEF StartEnd, Keeps, Others, LeftIn, owned, memory, Phases
  <1>13. CASE RecoverOne
    <2>1. PICK t \in look, c \in Circumstances :
            /\ look' = look \ {t}
            /\ \E d \in Stalls(Store, t, c) : \E e \in FailedStart(d, t, task[t], c) : Commit(e)
      BY <1>13 DEF RecoverOne
    <2>2. PICK d \in Stalls(Store, t, c) : \E e \in FailedStart(d, t, task[t], c) : Commit(e)
      BY <2>1
    <2>3. PICK e \in FailedStart(d, t, task[t], c) : Commit(e)
      BY <2>2
    <2>4. t \in Tasks
      BY DEF Others
    <2>5. Raises(Store, d)
      BY <2>4, StallsRaise
    <2>6. Raises(d, e)
      BY <2>4, <2>5, FailedStartRaises DEF Raises
    <2>7. Raises(Store, e)
      BY <2>5, <2>6, RaisesTwice DEF Good, Sound
    <2>8. Steps(Store, Store')
      BY <2>3, <2>7, CommitRaised
    <2> QED  BY <1>13, <2>1, <2>8 DEF RecoverOne, Keeps, Others, LeftIn, owned, memory
  <1> QED  BY <1>1, <1>2, <1>3, <1>4, <1>5, <1>7, <1>8, <1>9, <1>10, <1>11, <1>12, <1>13
            DEF TickStep

\* What needs no lock: a worker ends, the clock goes on, HQ restarts, a pass breaks off.
LEMMA OutsideKeeps ==
  ASSUME Inv, Outside
  PROVE  Keeps
  <1> USE DEF Inv
  <1>1. ASSUME NEW r \in Ids, NEW how \in Outcomes, WorkerEnds(r, how)
        PROVE  Keeps
    <2>1. Steps(Store, Store')
      BY <1>1, SameStore DEF WorkerEnds
    <2>2. runner' \in [Ids -> Liveness]
      BY <1>1, TurnsAssumption DEF WorkerEnds, Others, Liveness
    <2> QED  BY <1>1, <2>1, <2>2 DEF WorkerEnds, Keeps, Others, LeftIn, owned, pass
  <1>2. ASSUME NEW r \in Ids, TimePasses(r)
        PROVE  Keeps
    <2> DEFINE y == [runs[r] EXCEPT !.late = TRUE]
               d == [Store EXCEPT !.runs = [runs EXCEPT ![r] = y]]
    <2>1. Store \in StoreType /\ Store.runs = runs /\ runs[r] \in RunRow /\ runs[r].status \in Live
      BY <1>2, RunRows DEF TimePasses, Good, Sound, Store, Live
    <2>2. /\ y \in RunRow /\ y.member = runs[r].member /\ y.task = runs[r].task
          /\ y.wake = runs[r].wake /\ y.status = runs[r].status
          /\ y.attempts = runs[r].attempts /\ y.interrupted = runs[r].interrupted
      BY <2>1 DEF RunRow
    <2>3. Commit(d)
      BY <1>2 DEF TimePasses, Commit, Store
    <2> HIDE DEF y, d
    <2>4. Near(Store, d, r) /\ d.runs[r] = y
      BY <2>1, <2>2, RowNear DEF d
    <2>5. Bounded(y)
      BY <2>1, <2>2 DEF Bounded, Good, Sound, BoundedIn
    <2>6. Settles(Store, d, r)
      BY <2>1, <2>2, <2>4, <2>5, StillLive
    <2>7. Steps(Store, Store')
      BY <2>1, <2>3, <2>6, CommitSettled
    <2> QED  BY <1>2, <2>7 DEF TimePasses, Keeps, Others, LeftIn, owned, memory, pass, Free
  <1>3. CASE TickFails
    <2>1. Steps(Store, Store')
      BY <1>3, SameStore DEF TickFails
    <2> QED  BY <1>3, <2>1 DEF TickFails, Keeps, Others, LeftIn, owned, memory, Phases
  <1>4. CASE Restart
    <2>1. Steps(Store, Store')
      BY <1>4, SameStore DEF Restart
    <2>2. restarts' \in 0..MaxRestarts
      BY <1>4, TurnsAssumption DEF Restart, Others
    <2>3. looked' \in BOOLEAN /\ runner' \in [Ids -> Liveness]
      BY <1>4 DEF Restart, Liveness
    <2> QED  BY <1>4, <2>1, <2>2, <2>3 DEF Restart, Keeps, Others, LeftIn, owned, Phases
  <1> QED  BY <1>1, <1>2, <1>3, <1>4 DEF Outside

\* A step that changes nothing.
LEMMA StutterKeeps ==
  ASSUME Inv, UNCHANGED vars
  PROVE  Keeps
  <1>1. Steps(Store, Store')
    BY SameStore DEF Inv, vars
  <1> QED  BY <1>1 DEF Inv, Keeps, Others, LeftIn, vars

---------------------------------------------------------------------------
(* The theorems.                                                           *)

\* HQ starts with nothing queued, and every store it starts from is good.
LEMMA InitGood == Init => Inv
  <1> SUFFICES ASSUME Init PROVE Inv
    OBVIOUS
  <1> USE DEF Init
  <1>1. \A r \in Ids : Store.runs[r] = NoRun /\ Store.wakes[r] = NoWake
    BY DEF Store
  <1>2. Store \in StoreType
    <2>1. task \in [Tasks -> TaskRow]
      BY TurnsAssumption DEF TaskRow, Statuses
    <2>2. /\ runs \in [Ids -> RunRow \cup {NoRun}] /\ wakes \in [Ids -> WakeRow \cup {NoWake}]
          /\ stopped \in BOOLEAN
      OBVIOUS
    <2> HIDE DEF Init
    <2> QED  BY <2>1, <2>2 DEF Store, StoreType
  <1>3. OneTurnIn(Store) /\ QuietIn(Store)
    BY <1>1, EmptyRows DEF OneTurnIn, QuietIn, Live
  <1>4. LinkedIn(Store)
    BY <1>1, EmptyRows DEF LinkedIn, Live
  <1>5. BoundedIn(Store)
    BY <1>1, EmptyRows DEF BoundedIn, Bounded, Live, MostRetries, MostQuiet
  <1>6. Others /\ LeftIn
    <2>1. member \in [Members -> [at : {"AtWork", "Paused", "Furloughed"}, brain : {"house", "cloud"}]]
      BY TurnsAssumption
    <2>2. restarts \in 0..MaxRestarts
      BY TurnsAssumption
    <2>3. /\ runner \in [Ids -> Liveness] /\ at \in Phases /\ left = {} /\ look = {}
          /\ at = "idle"
      BY DEF Phases, Liveness
    <2>4. drain \in BOOLEAN /\ looked \in BOOLEAN /\ onHold \in BOOLEAN /\ broke \in BOOLEAN
      OBVIOUS
    <2> HIDE DEF Init
    <2> QED  BY <2>1, <2>2, <2>3, <2>4 DEF Others, LeftIn
  <1>7. HeldOnceIn(Store)
    BY <1>1, EmptyRows DEF HeldOnceIn, SameHeld
  <1> QED  BY <1>2, <1>3, <1>4, <1>5, <1>6, <1>7 DEF Inv, Good, Sound

\* Every step keeps the invariant and moves each turn as a turn may move.
LEMMA StepKeeps == Inv /\ [Next]_vars => Keeps
  BY OperationKeeps, TickKeeps, OutsideKeeps, StutterKeeps DEF Next

\* So the invariant holds in every reachable state.
LEMMA Inductive == Spec => []Inv
  <1>1. Inv /\ [Next]_vars => Inv'
    BY StepKeeps DEF Keeps, Steps, Inv
  <1> QED  BY <1>1, InitGood, PTL DEF Spec

\* The state has its types: no operation makes a row the tables could not hold.
THEOREM TypesKept == Spec => []TypeOK
  <1>1. Inv => TypeOK
    BY DEF Inv, Good, Sound, StoreType, Store, Others, TypeOK
  <1> QED  BY <1>1, Inductive, PTL

\* One turn at a time on a task, in every reachable state of every instance.
THEOREM OneTurnAtATime == Spec => []OneLiveTurn
  <1>1. Inv => OneLiveTurn
    BY TurnsAssumption DEF Inv, Good, Sound, OneTurnIn, OneLiveTurn, LiveOn, LiveRuns
  <1> QED  BY <1>1, Inductive, PTL

\* While the kill switch is on no turn is live.
THEOREM KillSwitchQuiets == Spec => []StoppedIsQuiet
  <1>1. Inv => StoppedIsQuiet
    BY DEF Inv, Good, Sound, QuietIn, StoppedIsQuiet, LiveRuns, Store
  <1> QED  BY <1>1, Inductive, PTL

\* Wakes and turns name each other, and no wake waits for a turn that is over.
THEOREM Agreement == Spec => []WakesAndTurnsAgree
  <1>1. Inv => WakesAndTurnsAgree
    <2> SUFFICES ASSUME Inv PROVE WakesAndTurnsAgree
      OBVIOUS
    <2>1. Good(Store) /\ Store \in StoreType /\ Store.runs = runs /\ Store.wakes = wakes
      BY DEF Inv, Good, Sound, Store
    <2>2. \A r \in Ids : runs[r].status # "None" =>
            runs[r].wake \in Ids /\ wakes[runs[r].wake].run = r
      BY <2>1, RunRows, WakeOfTurn
    <2>3. \A r \in LiveRuns(Store) : wakes[runs[r].wake].receipt \in Answers(runs[r])
      BY <2>1 DEF Good, Sound, LinkedIn, LiveRuns
    <2>4. \A w \in Ids : wakes[w].receipt \in {"Queued", "Started"} =>
            wakes[w].run \in LiveRuns(Store)
      BY <2>1 DEF Good, Sound, LinkedIn, LiveRuns
    <2> QED  BY <2>2, <2>3, <2>4 DEF WakesAndTurnsAgree, Answers
  <1> QED  BY <1>1, Inductive, PTL

\* No turn is started more than four times, nor waits with its retries spent.
THEOREM RetriesStayBounded == Spec => []RetriesBounded
  <1>1. Inv => RetriesBounded
    BY DEF Inv, Good, Sound, BoundedIn, Bounded, RetriesBounded, Store
  <1> QED  BY <1>1, Inductive, PTL

\* A member has at most one wake held for a task, whatever was raised, released or turned away
\* meanwhile: who is woken while another works the task waits behind it once.
THEOREM HeldAtMostOnce == Spec => []HeldOnce
  <1>1. Inv => HeldOnce
    BY DEF Inv, Good, HeldOnceIn, SameHeld, HeldOnce, Store
  <1> QED  BY <1>1, Inductive, PTL

\* Finitely many ids, so finitely many turns run.
LEMMA RunningFinite ==
  ASSUME NEW S \in SUBSET Ids
  PROVE  IsFiniteSet(S) /\ Cardinality(S) \in Nat
  <1>1. IsFiniteSet(Ids)
    <2>1. MaxIds \in Int /\ 1 \in Int
      BY TurnsAssumption
    <2> QED  BY <2>1, FS_Interval DEF Ids
  <1>2. IsFiniteSet(S)
    BY <1>1, FS_Subset
  <1> QED  BY <1>2, FS_CardinalityType

\* One more, where there was room for one more.
LEMMA OneMore ==
  ASSUME NEW S \in SUBSET Ids, NEW T \in SUBSET Ids, NEW n \in Ids, NEW most \in Nat,
         T \subseteq S \/ (T \subseteq S \cup {n} /\ ~(Cardinality(S) >= most)),
         Cardinality(S) <= most
  PROVE  Cardinality(T) <= most
  <1>1. /\ IsFiniteSet(S) /\ Cardinality(S) \in Nat /\ Cardinality(T) \in Nat
        /\ S \cup {n} \in SUBSET Ids
    BY RunningFinite
  <1>2. IsFiniteSet(S \cup {n}) /\ Cardinality(S \cup {n}) \in Nat
    BY <1>1, RunningFinite
  <1>3. CASE T \subseteq S
    <2>1. Cardinality(T) <= Cardinality(S)
      BY <1>1, <1>3, FS_Subset
    <2> QED  BY <1>1, <2>1
  <1>4. CASE T \subseteq S \cup {n} /\ ~(Cardinality(S) >= most)
    <2>1. Cardinality(T) <= Cardinality(S \cup {n})
      BY <1>2, <1>4, FS_Subset
    <2>2. Cardinality(S \cup {n}) = IF n \in S THEN Cardinality(S) ELSE Cardinality(S) + 1
      BY <1>1, FS_AddElement
    <2> QED  BY <1>1, <1>2, <1>4, <2>1, <2>2
  <1> QED  BY <1>3, <1>4

\* The runner is never given more turns than it has room for, nor a member more than its slots:
\* the one a step may launch is counted first, and no other path brings a turn to run.
THEOREM WithinTheRoom == Spec => []RoomKept
  <1>1. Init => RoomKept
    <2> SUFFICES ASSUME Init PROVE RoomKept
      OBVIOUS
    <2>1. RunningRuns(Store) = {}
      BY EmptyRows DEF Init, RunningRuns, Store
    <2>2. \A m \in Members : {r \in RunningRuns(Store) : runs[r].member = m} = {}
      BY <2>1
    <2>3. Cardinality({}) = 0
      BY FS_EmptySet
    <2> QED  BY <2>1, <2>2, <2>3, TurnsAssumption DEF RoomKept
  <1>2. Inv /\ RoomKept /\ [Next]_vars => RoomKept'
    <2> SUFFICES ASSUME Inv, RoomKept, [Next]_vars PROVE RoomKept'
      OBVIOUS
    <2> DEFINE S == RunningRuns(Store)
               T == RunningRuns(Store)'
               Of(m)  == {r \in S : runs[r].member = m}
               Now(m) == {r \in T : runs'[r].member = m}
    <2>1. /\ S \in SUBSET Ids /\ T \in SUBSET Ids
          /\ \A r \in S : runs[r].status = "Running"
          /\ \A r \in T : runs'[r].status = "Running"
          /\ \A r \in Ids : runs[r].status = "Running" => r \in S
      BY DEF RunningRuns, Store
    <2>2. /\ \A r \in Ids : RowStep(runs[r], runs'[r])
          /\ \A r \in T : r \in S \/ Launches(r)
      BY <2>1, StepKeeps DEF Keeps, Steps, Store
    <2>3. ASSUME NEW r \in T, Launches(r)
          PROVE  runs'[r].member = runs[r].member
      <3>1. r \in left /\ runs[r].status = "Queued"
        <4>1. /\ at = "start" /\ left # {} /\ left \in SUBSET Ids
              /\ \A q \in left : runs[q].status = "Queued"
          BY <2>3 DEF Launches, MayStart, Starting, Inv, Others, LeftIn
        <4>2. \A q \in left : runs[q].task \in Abouts
          BY <4>1, RunRows DEF Inv, Good, Sound, Store, RunRow
        <4>3. NextQueued \in left
          BY <4>1, <4>2, NextQueuedOf
        <4> QED  BY <2>3, <4>1, <4>3 DEF Launches
      <3> QED  BY <2>1, <2>2, <3>1 DEF RowStep, Live
    <2>4. \A r \in T : runs'[r].member = runs[r].member
      <3>1. \A r \in T \cap S : runs'[r].member = runs[r].member
        BY <2>1, <2>2 DEF RowStep, Live
      <3> QED  BY <2>2, <2>3, <3>1
    <2> HIDE DEF S, T
    <2>5. CASE T \subseteq S
      <3>1. Cardinality(T) <= Capacity
        <4>1. Cardinality(S) <= Capacity BY DEF RoomKept, S
        <4> QED  BY <2>1, <2>5, <4>1, RunningFinite, FS_Subset, TurnsAssumption
      <3>2. ASSUME NEW m \in Members
            PROVE  Cardinality(Now(m)) <= Slots[m]
        <4>1. Now(m) \subseteq Of(m) /\ Of(m) \in SUBSET Ids /\ Now(m) \in SUBSET Ids
          BY <2>1, <2>4, <2>5
        <4>2. Cardinality(Of(m)) <= Slots[m] BY DEF RoomKept, S
        <4>3. Slots[m] \in Nat BY TurnsAssumption
        <4> HIDE DEF Now, Of
        <4>4. Cardinality(Now(m)) <= Cardinality(Of(m)) /\ Cardinality(Now(m)) \in Nat
              /\ Cardinality(Of(m)) \in Nat
          BY <4>1, RunningFinite, FS_Subset
        <4> QED  BY <4>2, <4>3, <4>4
      <3> QED  BY <3>1, <3>2 DEF RoomKept, T
    <2>6. CASE ~(T \subseteq S)
      <3> DEFINE n == NextQueued
      <3>1. PICK r \in T : Launches(r)
        BY <2>2, <2>6
      <3>2. r = n /\ n \in Ids /\ T \subseteq S \cup {n}
        BY <2>1, <2>2, <3>1 DEF Launches
      <3>3. ~(Cardinality(S) >= Capacity) /\ ~(Cardinality(Of(runs[n].member)) >= Slots[runs[n].member])
        BY <3>1 DEF Launches, MayStart, Full, MustWait, Busy, S
      <3> HIDE DEF n
      <3>4. Cardinality(T) <= Capacity
        <4>1. Cardinality(S) <= Capacity BY DEF RoomKept, S
        <4> QED  BY <2>1, <3>2, <3>3, <4>1, OneMore, TurnsAssumption
      <3>5. ASSUME NEW m \in Members
            PROVE  Cardinality(Now(m)) <= Slots[m]
        <4>1. Of(m) \in SUBSET Ids /\ Now(m) \in SUBSET Ids
          BY <2>1
        <4>2. Cardinality(Of(m)) <= Slots[m] BY DEF RoomKept, S
        <4>3. Slots[m] \in Nat BY TurnsAssumption
        <4>4. \/ Now(m) \subseteq Of(m)
              \/ Now(m) \subseteq Of(m) \cup {n} /\ ~(Cardinality(Of(m)) >= Slots[m])
          <5>1. CASE runs[n].member = m BY <2>4, <3>2, <3>3, <5>1
          <5>2. CASE runs[n].member # m BY <2>4, <3>2, <5>2
          <5> QED  BY <5>1, <5>2
        <4> HIDE DEF Now, Of
        <4> QED  BY <3>2, <4>1, <4>2, <4>3, <4>4, OneMore
      <3> QED  BY <3>4, <3>5 DEF RoomKept, T
    <2> QED  BY <2>5, <2>6
  <1> QED  BY <1>1, <1>2, Inductive, PTL DEF Spec

\* A turn that is over stays as it ended.
THEOREM OverForGood == Spec => EndedStaysEnded
  <1>1. Inv /\ [Next]_vars => [\A r \in Ids : runs[r].status \in Ended => runs'[r] = runs[r]]_vars
    BY StepKeeps DEF Keeps, Steps, RowStep, Store
  <1> QED  BY <1>1, Inductive, PTL DEF Spec, EndedStaysEnded

\* The scheduler implements the lock of TaskLock: the turns on a task are its holders, the ended
\* ones those that had it and never will again.
THEOREM ImplementsTheLock == Spec => ATaskIsALock
  <1> DEFINE holds == [t \in Tasks |-> LiveOn(Store, t)]
             over  == {r \in Ids : runs[r].status \in Ended /\ runs[r].task \in Tasks}
  <1>1. Init => TurnsAsLock!LockInit
    <2> SUFFICES ASSUME Init PROVE TurnsAsLock!LockInit
      OBVIOUS
    <2>1. \A r \in Ids : runs[r].status = "None"
      BY EmptyRows DEF Init
    <2> QED  BY <2>1 DEF TurnsAsLock!LockInit, LiveOn, LiveRuns, Store, Live, Ended
  <1>2. Inv /\ Inv' /\ [Next]_vars => [TurnsAsLock!LockNext]_(TurnsAsLock!lockVars)
    <2> SUFFICES ASSUME Inv, Inv', [Next]_vars
                 PROVE  TurnsAsLock!LockNext
      BY DEF TurnsAsLock!lockVars
    <2>1. \A r \in Ids : RowStep(runs[r], runs'[r])
      BY StepKeeps DEF Keeps, Steps, Store
    <2>2. /\ \A r \in Ids : runs[r].status \in Live \cup Ended \cup {"None"}
          /\ \A r \in Ids : runs'[r] \in RunRow => runs'[r].status \in Live \cup Ended
      BY RunRows DEF Inv, Good, Sound, Store, RunRow
    <2>3. ASSUME NEW t \in Tasks
          PROVE  holds'[t] \in {{}} \cup {{r} : r \in Ids}
      <3>1. \A r, q \in holds'[t] : r = q
        BY <2>3, TurnsAssumption DEF Inv, Good, Sound, OneTurnIn, LiveOn, LiveRuns
      <3>2. holds'[t] \subseteq Ids
        BY DEF LiveOn, LiveRuns
      <3> QED  BY <3>1, <3>2
    <2>4. holds' \in [Tasks -> {{}} \cup {{r} : r \in Ids}]
      BY <2>3
    <2>5. over' = over \cup UNION {holds[t] \ holds'[t] : t \in Tasks}
      <3>1. ASSUME NEW r \in over'
            PROVE  r \in over \/ \E t \in Tasks : r \in holds[t] \ holds'[t]
        <4>1. r \in Ids /\ runs'[r].status \in Ended /\ runs'[r].task \in Tasks
          OBVIOUS
        <4>2. runs[r].status # "None"
          BY <2>1, <4>1 DEF RowStep, Live, Ended
        <4>3. CASE runs[r].status \in Ended
          BY <2>1, <4>1, <4>3 DEF RowStep
        <4>4. CASE runs[r].status \in Live
          BY <2>1, <4>1, <4>4 DEF RowStep, LiveOn, LiveRuns, Store, Live, Ended
        <4> QED  BY <2>2, <4>1, <4>2, <4>3, <4>4
      <3>2. ASSUME NEW r \in over
            PROVE  r \in over'
        BY <2>1 DEF RowStep
      <3>3. ASSUME NEW t \in Tasks, NEW r \in holds[t] \ holds'[t]
            PROVE  r \in over'
        <4>1. r \in Ids /\ runs[r].status \in Live /\ runs[r].task = t
          BY DEF LiveOn, LiveRuns, Store
        <4>2. runs'[r] \in RunRow /\ runs'[r].task = t
          BY <2>1, <4>1 DEF RowStep
        <4>3. runs'[r].status \notin Live
          BY <3>3, <4>1, <4>2 DEF LiveOn, LiveRuns, Store
        <4> QED  BY <2>2, <3>3, <4>1, <4>2, <4>3
      <3> HIDE DEF over, holds
      <3> QED  BY <3>1, <3>2, <3>3
    <2>6. ASSUME NEW t \in Tasks, NEW r \in (holds'[t] \ holds[t]) \cap over'
          PROVE  FALSE
      BY <2>6 DEF LiveOn, LiveRuns, Store, Live, Ended
    <2> QED  BY <2>4, <2>5, <2>6 DEF TurnsAsLock!LockNext
  <1> QED  BY <1>1, <1>2, Inductive, PTL DEF Spec, ATaskIsALock, TurnsAsLock!LockSpec
=============================================================================
