------------------------------- MODULE Turns -------------------------------
(***************************************************************************)
(* HQ's engine: wakes become turns, and the tick settles, retries, starts  *)
(* and recovers them (domains/team/src/application/engine.rs and           *)
(* engine/waking.rs, running.rs, drain.rs, loops.rs).                      *)
(*                                                                         *)
(* Every public operation of the engine holds one lock, so each is one     *)
(* action here.  The tick holds the lock for its whole pass; it is split   *)
(* into steps by `at`, and an operation runs only when `at` is "idle".     *)
(* What needs no lock interleaves with the steps of a tick: the runner's   *)
(* worker ending, the clock, and HQ restarting in the middle of a pass.    *)
(***************************************************************************)
EXTENDS Wakes, FiniteSets

CONSTANTS
  Members, Tasks,
  NoTask,        \* what a turn about no task is about
  Nobody,        \* the holder of a task nobody holds
  Slots,         \* [Members -> Nat]: turns a member may run at once
  Capacity,      \* turns the runner takes at once
  Brain,         \* [Members -> {"house", "cloud"}]: what each thinks with at first
  Holder,        \* [Tasks -> Members \cup {Nobody}]: who has each task at first
  Urgency,       \* [Tasks \cup {NoTask} -> Nat]: a task's priority, 0 the most urgent
  ProjectTasks,  \* the tasks in a project, worked in the loops
  MaxIds,        \* bound: wakes kept, and so turns
  MaxRestarts,   \* bound: restarts of HQ
  Raised,        \* the wakes the rest of HQ raises in this instance: <<member, about, reason>>
  Outcomes,      \* how a worker's turn may end in this instance
  Acts           \* what the world around the scheduler does in this instance

Ids     == 1..MaxIds
Abouts  == Tasks \cup {NoTask}
AllActs == {"pause", "furlough", "stop", "trip", "drain", "project", "money", "rebrain",
            "board", "handup", "ask", "spend", "retire", "restart", "startfails", "followup",
            "nothing", "backoff", "owner", "recover", "abort"}

ASSUME TurnsAssumption ==
  /\ MaxIds \in Nat \ {0}
  /\ MaxRestarts \in Nat
  /\ Capacity \in Nat
  /\ Slots \in [Members -> Nat]
  /\ Brain \in [Members -> {"house", "cloud"}]
  /\ Holder \in [Tasks -> Members \cup {Nobody}]
  /\ Urgency \in [Abouts -> Nat]
  /\ NoTask \notin Tasks
  /\ Nobody \notin Members
  /\ ProjectTasks \subseteq Tasks
  /\ Raised \subseteq Members \X Abouts \X Reasons
  /\ Outcomes \subseteq {"Succeeded", "Failed", "NeverStarted", "Vanished"}
  /\ Acts \subseteq AllActs

VARIABLES
  runs,      \* the runs table: each turn, from queued to how it ended
  wakes,     \* the wakes table: a row for each wake that queued a turn or was held
  task,      \* of each task, what the scheduler reads: status, holder, nudged
  member,    \* of each member: at work, paused or on furlough; and the kind of its model
  stopped,   \* the kill switch
  drain,     \* whether a drain is kept
  looked,    \* whether this HQ has looked at the drain it found (in memory only)
  onHold,    \* whether the owner paused the project
  broke,     \* whether a turn that costs money can not be paid for now
  runner,    \* what the runner says of each running turn (in memory only); "Gone" of the rest,
             \* of which nobody asks
  at,        \* where the tick is, "idle" when the lock is free
  left,      \* the turns this pass has still to look at
  look,      \* the tasks this pass has still to look at
  restarts   \* how often HQ restarted

vars == <<runs, wakes, task, member, stopped, drain, looked, onHold, broke, runner, at,
          left, look, restarts>>

Statuses  == {"Todo", "Doing", "Blocked", "InReview", "Finished"}
Liveness  == {"Gone", "Running", "Succeeded", "Failed", "NeverStarted", "Vanished"}
Phases    == {"idle", "settle", "retry", "start", "recover"}

RunRow  == [status : Live \cup Ended, member : Members, task : Abouts, wake : Ids,
            attempts : Nat, interrupted : Nat, started : BOOLEAN, house : BOOLEAN,
            late : BOOLEAN, neverStarted : BOOLEAN]
WakeRow == [receipt : Receipts \ {"None"}, member : Members, task : Abouts,
            reason : Reasons, run : Ids \cup {0}]
TaskRow == [status : Statuses, holder : Members \cup {Nobody}, nudged : BOOLEAN]

NoRun  == [status |-> "None", member |-> Nobody, task |-> NoTask, wake |-> 0,
           attempts |-> 0, interrupted |-> 0, started |-> FALSE, house |-> FALSE,
           late |-> FALSE, neverStarted |-> FALSE]
NoWake == [receipt |-> "None", member |-> Nobody, task |-> NoTask, reason |-> "Retry",
           run |-> 0]

(***************************************************************************)
(* The store an operation works on, read and written several times before  *)
(* the operation is over.  The operators below take one and give the next. *)
(***************************************************************************)
Store     == [runs |-> runs, wakes |-> wakes, task |-> task, stopped |-> stopped]
Commit(d) == runs' = d.runs /\ wakes' = d.wakes /\ task' = d.task /\ stopped' = d.stopped

(***************************************************************************)
(* What a decision reads that the scheduler does not keep: whether a stale *)
(* continuation backs off (how long ago, and after how many empty turns),  *)
(* whether the member's last turns on the task showed nothing, whether the *)
(* operation is the owner's asking, and whether a turn showed something.   *)
(***************************************************************************)
Whether(act)  == IF act \in Acts THEN BOOLEAN ELSE {FALSE}
Circumstances == [backsOff : Whether("backoff"), nothing : Whether("nothing"),
                  asked : Whether("owner"), shown : Whether("recover")]

LiveRuns(d)      == {r \in Ids : d.runs[r].status \in Live}
RunningRuns(d)   == {r \in Ids : d.runs[r].status = "Running"}
LiveOn(d, t)     == {r \in LiveRuns(d) : d.runs[r].task = t}
HeldOn(d, t)     == {w \in Ids : d.wakes[w].receipt = "Held" /\ d.wakes[w].task = t}
Oldest(S)        == CHOOSE i \in S : \A j \in S : i <= j
FreshRun(d)      == Oldest({r \in Ids : d.runs[r].status = "None"})
FreshWake(d)     == Oldest({w \in Ids : d.wakes[w].receipt = "None"})
HasRoom(d)       == /\ \E r \in Ids : d.runs[r].status = "None"
                    /\ \E w \in Ids : d.wakes[w].receipt = "None"
\* Bound: a held wake is released only while an id is free; one always is, as
\* each turn has a wake of its own.
RoomToRelease(d) == (\E w \in Ids : d.wakes[w].receipt = "Held")
                       => \E r \in Ids : d.runs[r].status = "None"

AtWork(m) == member[m].at = "AtWork"

---------------------------------------------------------------------------
(* Waking.                                                                 *)

\* The live turns a wake about `t` meets: those on the task, or the member's own about none.
Meets(d, m, t) ==
  {[run |-> r, member |-> d.runs[r].member,
    foldable |-> ~(member[m].brain = "cloud" /\ d.runs[r].status = "Running" /\ d.runs[r].house)] :
     r \in {q \in LiveOn(d, t) : t = NoTask => d.runs[q].member = m}}

HasOpenTask(d, m) == \E t \in Tasks : d.task[t].holder = m /\ d.task[t].status # "Finished"

BlockedInTheLoops(d, t) == t \in ProjectTasks /\ d.task[t].status = "Blocked"

Situation(d, m, t, why, c) ==
  [stopped           |-> d.stopped,
   paused            |-> member[m].at = "Paused",
   furloughed        |-> member[m].at = "Furloughed",
   aboutATask        |-> t # NoTask,
   live              |-> Meets(d, m, t),
   alreadyHeld       |-> t # NoTask /\ \E w \in HeldOn(d, t) : d.wakes[w].member = m,
   nothingToDo       |-> t = NoTask /\ why \in OnAClock /\ ~HasOpenTask(d, m),
   waitsForReview    |-> /\ t # NoTask /\ why \notin ReachesReview
                         /\ d.task[t].status = "InReview" /\ d.task[t].holder = m,
   projectPaused     |-> onHold /\ t \in ProjectTasks,
   wokenForNothing   |-> t # NoTask /\ why \notin BringsNews /\ c.nothing,
   blockedForTheOwner |-> /\ t # NoTask /\ ~c.asked /\ why \notin ReachesBlockedItem
                          /\ BlockedInTheLoops(d, t)]

\* (Mutant: whatever became of the turn.)
BringForwardAny(d, t) ==
  [d EXCEPT !.runs = [r \in Ids |->
     IF d.runs[r].task = t /\ d.runs[r].status # "Running"
     THEN [d.runs[r] EXCEPT !.status = "Queued", !.late = FALSE] ELSE d.runs[r]]]

BringForward(d, t) ==
  [d EXCEPT !.runs = [r \in Ids |->
     IF d.runs[r].task = t /\ d.runs[r].status = "RetryWaiting"
     THEN [d.runs[r] EXCEPT !.status = "Queued", !.late = FALSE] ELSE d.runs[r]]]

\* Queues a turn for wake `w`: at once, or waiting out its back-off.
\* (Mutant: the turn is not told which wake queued it.)
QueueTurnUnnamed(d, w, c) ==
  [d EXCEPT !.runs[FreshRun(d)] = [NoRun EXCEPT !.status = "Queued", !.task = d.wakes[w].task,
                                                !.member = d.wakes[w].member],
            !.wakes[w].receipt = "Queued", !.wakes[w].run = FreshRun(d)]

QueueTurn(d, w, c) ==
  LET r    == FreshRun(d)
      row  == d.wakes[w]
      wait == row.task # NoTask /\ row.reason \notin BringsNews /\ c.backsOff
  IN  [d EXCEPT
        !.runs[r]  = [NoRun EXCEPT !.status = IF wait THEN "RetryWaiting" ELSE "Queued",
                                   !.member = row.member, !.task = row.task, !.wake = w],
        !.wakes[w] = [row EXCEPT !.receipt = "Queued", !.run = r]]

\* Raises a wake.  A wake folded into a live turn or turned away leaves a receipt that
\* nothing reads again, so it takes no row here.
WakeUp(d, m, t, why, c) ==
  LET e   == IF t # NoTask /\ why \in BringsNews THEN BringForward(d, t) ELSE d
      w   == FreshWake(e)
      out == Decide(m, Situation(e, m, t, why, c))
      f   == [e EXCEPT !.wakes[w] = [receipt |-> "Held", member |-> m, task |-> t,
                                     reason |-> why, run |-> 0]]
  IN  CASE out = "Queue" -> QueueTurn(f, w, c)
        [] out = "Hold"  -> f
        [] OTHER         -> e

\* Releases the oldest wake held for a task, now that its turn has ended.
ReleaseHeld(d, t, c) ==
  LET w   == Oldest(HeldOn(d, t))
      row == d.wakes[w]
      s   == Situation(d, row.member, t, row.reason, c)
      out == Decide(row.member, s)
  IN  IF HeldOn(d, t) = {} THEN d
      ELSE CASE out = "Queue"  -> QueueTurn(d, w, c)
             [] out = "Fold"   -> [d EXCEPT !.wakes[w].receipt = "Folded",
                                            !.wakes[w].run = FirstOwn(row.member, s).run]
             [] out = "Refuse" -> [d EXCEPT !.wakes[w].receipt = "Refused"]
             [] OTHER          -> d

---------------------------------------------------------------------------
(* Turns.                                                                  *)

\* A turn that is over keeps what is read of it again: how it ended and what it was about.
Over(run, status) == [run EXCEPT !.status = status, !.late = FALSE, !.house = FALSE,
                                 !.attempts = 0, !.interrupted = 0]

\* Ends a turn: closes its wake, and lets the next held wake on its task go.
\* (Mutant: the wake is left open.)
EndLeavesWake(d, r, status, c) ==
  LET e == [d EXCEPT !.runs[r] = Over(d.runs[r], status)]
  IN  IF d.runs[r].task = NoTask THEN e ELSE ReleaseHeld(e, d.runs[r].task, c)

End(d, r, status, c) ==
  LET run == d.runs[r]
      e   == [d EXCEPT !.runs[r] = Over(run, status), !.wakes[run.wake].receipt = "Finished"]
  IN  IF run.task = NoTask THEN e
      ELSE LET f == IF run.started /\ c.shown THEN [e EXCEPT !.task[run.task].nudged = FALSE]
                    ELSE e
           IN  ReleaseHeld(f, run.task, c)

\* A failed turn waits to be tried again, at most twice, and then has failed for good.
Fail(d, r, fault, c) ==
  LET run == d.runs[r]
      cut == run.interrupted + (IF fault = "Platform" THEN 1 ELSE 0)
      e   == [d EXCEPT !.runs[r].interrupted = cut]
  IN  IF TriedAgain(OwnAttempts(run.attempts, cut))
      THEN [e EXCEPT !.runs[r].status = "RetryWaiting", !.runs[r].late = FALSE]
      ELSE End(e, r, "Failed", c)

\* One of an item's failures in the loops: it stays, counted; it is let go to wait for a
\* member above who is away; it climbs to another; or it failed at every rank and is blocked.
LoopFailed(d, t, c) ==
  LET gone(m, to) == [d EXCEPT !.task[t].holder = m, !.task[t].status = to]
  IN  {d, gone(d.task[t].holder, "Todo"), gone(Nobody, "Blocked")} \cup
      {WakeUp(gone(up, "Todo"), up, t, "Assigned", c) : up \in Members \ {d.task[t].holder}}

\* What may follow a turn on the loops' work that ended well.  Its member showed nothing, again,
\* or kept running out of room: one of the item's failures.  It ran out of room and goes on
\* afresh.  Its review ended with no verdict, and the next reviewer is asked.
FollowUps(d, r, c) ==
  LET run     == d.runs[r]
      t       == run.task
      tk      == d.task[t]
      its     == tk.holder = run.member /\ tk.status \notin {"Finished", "InReview"}
      review  == tk.holder # Nobody /\ tk.status = "InReview"
      asked   == d.wakes[run.wake].reason = "ReviewRequested"
  IN  IF ~("followup" \in Acts /\ t \in ProjectTasks /\ HasRoom(d)) THEN {d}
      ELSE {d} \cup
        (IF its THEN LoopFailed(d, t, c) \cup {WakeUp(d, run.member, t, "Continued", c)} ELSE {})
        \cup {WakeUp(d, m, t, "ReviewRequested", c) :
                m \in {n \in Members \ {tk.holder} : review /\ (n = run.member \/ asked)}}

\* Every live turn is stopped, and the oldest wake held behind each is turned away, since the
\* kill switch is already on.  (Mutant: the turns still queued are missed.)
StopMost(d) ==
  LET over == {r \in Ids : d.runs[r].status \in {"Running", "RetryWaiting"}}
  IN  [d EXCEPT
        !.stopped = TRUE,
        !.runs  = [r \in Ids |-> IF r \in over
                                 THEN Over(d.runs[r], "Stopped") ELSE d.runs[r]],
        !.wakes = [w \in Ids |-> IF w \in {d.runs[r].wake : r \in over}
                                 THEN [d.wakes[w] EXCEPT !.receipt = "Finished"]
                                 ELSE d.wakes[w]]]

StopEvery(d) ==
  LET over  == LiveRuns(d)
      freed == {d.runs[r].task : r \in over} \ {NoTask}
      away  == {w \in Ids : \E t \in freed : HeldOn(d, t) # {} /\ w = Oldest(HeldOn(d, t))}
  IN  [d EXCEPT
        !.stopped = TRUE,
        !.runs  = [r \in Ids |-> IF r \in over
                                 THEN Over(d.runs[r], "Stopped") ELSE d.runs[r]],
        !.wakes = [w \in Ids |->
                     IF w \in {d.runs[r].wake : r \in over}
                     THEN [d.wakes[w] EXCEPT !.receipt = "Finished"]
                     ELSE IF w \in away THEN [d.wakes[w] EXCEPT !.receipt = "Refused"]
                     ELSE d.wakes[w]]]

---------------------------------------------------------------------------
Init ==
  /\ runs = [r \in Ids |-> NoRun]
  /\ wakes = [w \in Ids |-> NoWake]
  /\ task = [t \in Tasks |-> [status |-> "Todo", holder |-> Holder[t], nudged |-> FALSE]]
  /\ member = [m \in Members |-> [at |-> "AtWork", brain |-> Brain[m]]]
  /\ stopped = FALSE /\ drain = FALSE /\ looked = FALSE
  /\ onHold = FALSE /\ broke = FALSE
  /\ runner = [r \in Ids |-> "Gone"]
  /\ at = "idle" /\ left = {} /\ look = {}
  /\ restarts = 0

owned  == <<member, onHold, broke>>            \* the owner's and the ledger's
memory == <<runner, looked>>                   \* what HQ keeps in memory
pass   == <<at, left, look>>                   \* where the tick is
Free   == at = "idle"                          \* the engine's lock is free
Work   == Free \/ at = "retry"                 \* work is raised, by an operation or the tick's own
Gone(S) == [r \in Ids |-> IF r \in S THEN "Gone" ELSE runner[r]]

---------------------------------------------------------------------------
(* Operations, under the lock.                                             *)

\* A wake from anywhere else: the owner, a thread, a routine, a check-back, a gate; or, between
\* settling and starting, the tick handing out the loops' next items and downtime.
Wake(m, t, why) ==
  /\ Work /\ HasRoom(Store)
  /\ \E c \in Circumstances : Commit(WakeUp(Store, m, t, why, c))
  /\ UNCHANGED <<owned, memory, pass, drain, restarts>>

\* The board moves a task: a member in its turn, the gate, a reviewer, the owner.
MoveTask(t, status) ==
  /\ Work /\ "board" \in Acts
  /\ task[t].status \notin {status, "Finished"}
  /\ task' = [task EXCEPT ![t].status = status]
  /\ UNCHANGED <<runs, wakes, stopped, owned, memory, pass, drain, restarts>>

\* The board gives a task to a member or lets it go.
Hold(t, m) ==
  /\ Work /\ "board" \in Acts
  /\ task[t].status # "Finished" /\ task[t].holder # m
  /\ task' = [task EXCEPT ![t].holder = m]
  /\ UNCHANGED <<runs, wakes, stopped, owned, memory, pass, drain, restarts>>

\* A member asks the owner, or for an approval: its turn ends well, then its worker is stopped.
Ask(r) ==
  /\ Free /\ "ask" \in Acts
  /\ runs[r].status = "Running" /\ runs[r].task # NoTask /\ RoomToRelease(Store)
  /\ \E c \in Circumstances : \E d \in FollowUps(End(Store, r, "Succeeded", c), r, c) : Commit(d)
  /\ runner' = Gone({r})
  /\ UNCHANGED <<looked, owned, pass, drain, restarts>>

\* A usage report takes a turn past what it may spend.
SpendOut(r) ==
  /\ Free /\ "spend" \in Acts
  /\ runs[r].status = "Running" /\ RoomToRelease(Store)
  /\ \E c \in Circumstances : Commit(End(Store, r, "Stopped", c))
  /\ runner' = Gone({r})
  /\ UNCHANGED <<looked, owned, pass, drain, restarts>>

\* A member ends its turn with a handover note while a drain lasts: this start is not counted.
WrapUp(r) ==
  /\ Free /\ drain /\ runs[r].status = "Running" /\ runs[r].task # NoTask
  /\ RoomToRelease(Store)
  /\ \E c \in Circumstances :
       LET d == [Store EXCEPT !.runs[r].attempts =
                   IF runs[r].attempts = 0 THEN 0 ELSE runs[r].attempts - 1]
       IN  Commit(Fail(d, r, "Worker", c))
  /\ runner' = Gone({r})
  /\ UNCHANGED <<looked, owned, pass, drain, restarts>>

\* The owner retires what a task is under: the task is over, and so is any turn on it.
Retire(t) ==
  /\ Free /\ "retire" \in Acts /\ task[t].status # "Finished" /\ RoomToRelease(Store)
  /\ \E c \in Circumstances :
       LET d == [Store EXCEPT !.task[t].status = "Finished"]
       IN  IF LiveOn(d, t) = {} THEN Commit(d)
           ELSE Commit(End(d, Oldest(LiveOn(d, t)), "Stopped", c))
  /\ runner' = Gone({r \in LiveOn(Store, t) : runs[r].status = "Running"})
  /\ UNCHANGED <<looked, owned, pass, drain, restarts>>

\* The kill switch, by the owner.
StopAll ==
  /\ Free /\ "stop" \in Acts /\ ~stopped
  /\ Commit(StopEvery(Store))
  /\ runner' = Gone(RunningRuns(Store))
  /\ UNCHANGED <<looked, owned, pass, drain, restarts>>

Resume ==
  /\ Free /\ stopped
  /\ stopped' = FALSE
  /\ UNCHANGED <<runs, wakes, task, owned, memory, pass, drain, restarts>>

\* A drain is announced; one left by an earlier HQ is lifted first.
BeginDrain ==
  /\ Free /\ "drain" \in Acts /\ ~(drain /\ looked)
  /\ drain' = TRUE /\ looked' = TRUE
  /\ UNCHANGED <<runs, wakes, task, stopped, owned, runner, pass, restarts>>

EndDrain ==
  /\ Free /\ drain
  /\ drain' = FALSE /\ looked' = TRUE
  /\ UNCHANGED <<runs, wakes, task, stopped, owned, runner, pass, restarts>>

\* What the owner and the ledger change under the scheduler.
Owner ==
  /\ Free
  /\ \/ /\ \E m \in Members, a \in {"AtWork"} \cup (IF "pause" \in Acts THEN {"Paused"} ELSE {})
                                   \cup (IF "furlough" \in Acts THEN {"Furloughed"} ELSE {}) :
             member[m].at # a /\ member' = [member EXCEPT ![m].at = a]
        /\ UNCHANGED <<onHold, broke>>
     \/ /\ "rebrain" \in Acts
        /\ \E m \in Members :
             member' = [member EXCEPT ![m].brain = IF @ = "house" THEN "cloud" ELSE "house"]
        /\ UNCHANGED <<onHold, broke>>
     \/ "project" \in Acts /\ onHold' = ~onHold /\ UNCHANGED <<member, broke>>
     \/ "money" \in Acts /\ broke' = ~broke /\ UNCHANGED <<member, onHold>>
  /\ UNCHANGED <<runs, wakes, task, stopped, memory, pass, drain, restarts>>

---------------------------------------------------------------------------
(* The tick, under the lock, step by step.                                 *)

\* A drain the last HQ kept, or one past its age, is lifted; while the team is stopped nothing
\* else is done.
TickBegin(forgotten) ==
  /\ Free
  /\ looked' = TRUE
  /\ drain' = (drain /\ looked /\ ~forgotten)
  /\ IF stopped THEN UNCHANGED pass
     ELSE at' = "settle" /\ left' = RunningRuns(Store) /\ look' = {}
  /\ UNCHANGED <<runs, wakes, task, stopped, owned, runner, restarts>>

\* One running turn is settled: too long, ended, failed, vanished, or still going.
SettleOne ==
  /\ at = "settle" /\ left # {} /\ RoomToRelease(Store)
  /\ LET r == Oldest(left)
         c == Circumstances
     IN  /\ left' = left \ {r}
         /\ \/ /\ runs[r].late
               /\ \E x \in c : Commit(End(Store, r, "TimedOut", x))
               /\ runner' = Gone({r})
            \/ /\ ~runs[r].late /\ runner[r] = "Running"
               /\ UNCHANGED <<runs, wakes, task, stopped, runner>>
            \/ /\ ~runs[r].late /\ runner[r] = "Succeeded"
               /\ \E x \in c : \E d \in FollowUps(End(Store, r, "Succeeded", x), r, x) : Commit(d)
               /\ runner' = Gone({r})
            \/ /\ ~runs[r].late /\ runner[r] \in {"Gone", "Vanished", "Failed", "NeverStarted"}
               /\ \E x \in c :
                    LET d == [Store EXCEPT !.runs[r].neverStarted = (runner[r] = "NeverStarted")]
                    IN  Commit(Fail(d, r, FaultOf(runner[r]), x))
               /\ runner' = Gone({r})
  /\ UNCHANGED <<looked, owned, at, look, drain, restarts>>

SettleEnd ==
  /\ at = "settle" /\ left = {}
  /\ at' = "retry"
  /\ UNCHANGED <<runs, wakes, task, stopped, owned, memory, left, look, drain, restarts>>

\* A paused member's item goes to the member above: let go, handed over, that member woken,
\* and the old holder's turns on it that are not running ended.
HandUp(t, up, c) ==
  LET was == task[t].holder
      d   == [Store EXCEPT !.task[t].holder = up, !.task[t].status = "Todo"]
      e   == WakeUp(d, up, t, "Assigned", c)
      old == {r \in LiveOn(e, t) : e.runs[r].member = was /\ e.runs[r].status # "Running"}
  IN  IF old = {} THEN e ELSE End(e, Oldest(old), "Stopped", c)

PausedLetGo(t, up) ==
  /\ at = "retry" /\ "handup" \in Acts
  /\ t \in ProjectTasks /\ task[t].status \in {"Todo", "Doing"}
  /\ task[t].holder \in Members /\ member[task[t].holder].at = "Paused"
  /\ up # task[t].holder /\ AtWork(up)
  /\ ~\E r \in LiveOn(Store, t) : runs[r].status = "Running" /\ runs[r].member = task[t].holder
  /\ HasRoom(Store)
  /\ \E c \in Circumstances : Commit(HandUp(t, up, c))
  /\ UNCHANGED <<owned, memory, pass, drain, restarts>>

\* Retries whose time has come are queued again, and the queue is read once for this pass.  A
\* drain starts nothing.
RequeueRetries ==
  /\ at = "retry"
  /\ runs' = [r \in Ids |-> IF runs[r].status = "RetryWaiting" /\ runs[r].late
                             THEN [runs[r] EXCEPT !.status = "Queued", !.late = FALSE]
                             ELSE runs[r]]
  /\ at' = "start"
  /\ left' = IF drain THEN {} ELSE {r \in Ids : runs'[r].status = "Queued"}
  /\ UNCHANGED <<wakes, task, stopped, owned, memory, look, drain, restarts>>

\* Urgent work first, then the oldest.
NextQueued ==
  CHOOSE r \in left : \A q \in left :
    \/ Urgency[runs[r].task] < Urgency[runs[q].task]
    \/ Urgency[runs[r].task] = Urgency[runs[q].task] /\ r <= q

TaskOver(r)  == runs[r].task # NoTask /\ task[runs[r].task].status = "Finished"
\* (Mutants: one turn too many of a member's, or none while one of its own is queued.)
BusyAfterOneMore(m) ==
  Cardinality({q \in RunningRuns(Store) : runs[q].member = m}) > Slots[m]
BusyWhenQueued(m) ==
  Cardinality({q \in LiveRuns(Store) : runs[q].member = m}) >= Slots[m]

Full         == Cardinality(RunningRuns(Store)) >= Capacity
Away(r)      == \/ member[runs[r].member].at = "Furloughed"
                \/ member[runs[r].member].at = "Paused" /\ wakes[runs[r].wake].reason = "Downtime"
Busy(m)      == Cardinality({q \in RunningRuns(Store) : runs[q].member = m}) >= Slots[m]
MustWait(r)  == \/ Busy(runs[r].member)
                \/ member[runs[r].member].at = "Paused"
                \/ onHold /\ runs[r].task \in ProjectTasks
                \/ broke /\ member[runs[r].member].brain = "cloud"

Starting == at = "start" /\ left # {} /\ RoomToRelease(Store)

\* A queued turn whose task is over, or whose member went away since its wake, is ended, not
\* started.
DropQueued ==
  /\ Starting
  /\ LET r == NextQueued
     IN  /\ TaskOver(r) \/ (~Full /\ Away(r))
         /\ left' = left \ {r}
         /\ \E c \in Circumstances : Commit(End(Store, r, "Stopped", c))
  /\ UNCHANGED <<owned, memory, at, look, drain, restarts>>

\* The runner has no room: the rest of the queue waits.
RunnerFull ==
  /\ Starting /\ ~TaskOver(NextQueued) /\ Full
  /\ left' = {}
  /\ UNCHANGED <<runs, wakes, task, stopped, owned, memory, at, look, drain, restarts>>

LeaveQueued ==
  /\ Starting /\ ~TaskOver(NextQueued) /\ ~Full /\ ~Away(NextQueued)
  /\ MustWait(NextQueued)
  /\ left' = left \ {NextQueued}
  /\ UNCHANGED <<runs, wakes, task, stopped, owned, memory, at, look, drain, restarts>>

MayStart == Starting /\ ~TaskOver(NextQueued) /\ ~Full /\ ~Away(NextQueued)
                     /\ ~MustWait(NextQueued)

AsStarted(run) == [run EXCEPT !.status = "Running", !.started = TRUE, !.attempts = @ + 1,
                              !.neverStarted = FALSE,
                              !.house = (member[run.member].brain = "house")]
Started(r)     == [Store EXCEPT !.runs[r] = AsStarted(runs[r])]

\* A placed turn is given to the runner.
Launch ==
  /\ MayStart
  /\ LET r == NextQueued
     IN  /\ left' = left \ {r}
         /\ Commit([Started(r) EXCEPT !.wakes[runs[r].wake].receipt = "Started"])
         /\ runner' = [runner EXCEPT ![r] = "Running"]
  /\ UNCHANGED <<looked, owned, at, look, drain, restarts>>

\* The runner could not take it: a failed turn that never started.
LaunchFails ==
  /\ MayStart /\ "startfails" \in Acts
  /\ LET r == NextQueued
         d == [Started(r) EXCEPT !.runs[r].neverStarted = TRUE]
     IN  /\ left' = left \ {r}
         /\ \E c \in Circumstances : Commit(Fail(d, r, "Worker", c))
  /\ UNCHANGED <<owned, memory, at, look, drain, restarts>>

\* The runaway tripwire: this start would be one too many, so HQ stops the team itself.
Trip ==
  /\ MayStart /\ "trip" \in Acts
  /\ Commit(StopEvery(Store))
  /\ runner' = Gone(RunningRuns(Store))
  /\ at' = "idle" /\ left' = {} /\ look' = {}
  /\ UNCHANGED <<looked, owned, drain, restarts>>

\* The queue is done.  The tasks with no live turn are read once, for the recovery steps.
StartEnd ==
  /\ at = "start" /\ left = {}
  /\ at' = "recover"
  /\ look' = IF "recover" \in Acts THEN {t \in Tasks : LiveOn(Store, t) = {}} ELSE {}
  /\ UNCHANGED <<runs, wakes, task, stopped, owned, memory, left, drain, restarts>>

(* Recovery: a task with no live turn, which nothing is seen to bring back. *)

\* An item that sat after its one nudge: one of its failures, or its reviewer is asked again.
LoopStalled(d, t, c) ==
  LET tk == d.task[t]
  IN  IF tk.status = "InReview"
      THEN {d} \cup {WakeUp(d, m, t, "ReviewRequested", c) : m \in Members \ {tk.holder}}
      ELSE {WakeUp(d, tk.holder, t, "Recovery", c)} \cup LoopFailed(d, t, c)

\* Work that sat outside the loops is blocked; work in review never is.
SatTooLong(d, t, c) ==
  IF t \in ProjectTasks THEN LoopStalled(d, t, c)
  ELSE IF d.task[t].status = "InReview" THEN {d} ELSE {[d EXCEPT !.task[t].status = "Blocked"]}

\* Doing, with no turn on it: its holder is nudged once (never twice for the same state of it).
StalledOne(d, t, c) ==
  LET nudged == [d EXCEPT !.task[t].nudged = TRUE]
  IN  IF d.task[t].nudged THEN SatTooLong(d, t, c)
      ELSE {nudged, WakeUp(nudged, d.task[t].holder, t, "Recovery", c)}

\* Open and held by a member at work, with no turn and no wake to bring it back: nudged once.
Stranded(d, t, c) ==
  LET tk     == d.task[t]
      nudged == [d EXCEPT !.task[t].nudged = TRUE]
  IN  IF ~AtWork(tk.holder) \/ BlockedInTheLoops(d, t) THEN {d}
      ELSE IF tk.nudged THEN SatTooLong(d, t, c)
      ELSE IF tk.status = "InReview"
           THEN {nudged} \cup {WakeUp(nudged, m, t, "ReviewRequested", c) : m \in Members \ {tk.holder}}
      ELSE {nudged, WakeUp(nudged, tk.holder, t, "AssignmentRecovery", c)}

\* Whether a task sat long enough, and is told apart from work held on purpose, is left open.
Stalls(d, t, c) ==
  LET tk == d.task[t]
  IN  IF tk.holder = Nobody \/ tk.status = "Finished" \/ HeldOn(d, t) # {} \/ ~HasRoom(d) THEN {d}
      ELSE {d} \cup (IF tk.status = "Doing" THEN StalledOne(d, t, c) ELSE Stranded(d, t, c))

\* Open work whose last turn never started is woken again for the same member.  The task is
\* read as it stood when the step began (`tk`).
FailedStart(d, t, tk, c) ==
  LET over == {r \in Ids : d.runs[r].task = t /\ d.runs[r].status \in Ended}
      last == CHOOSE r \in over : \A q \in over : q <= r
      m    == d.runs[last].member
  IN  {d} \cup
      (IF /\ over # {} /\ HeldOn(d, t) = {} /\ HasRoom(d)
          /\ d.runs[last].status = "Failed" /\ d.runs[last].neverStarted
          /\ tk.status \in {"Todo", "Doing", "InReview"}
          /\ (tk.holder = m) = (tk.status # "InReview")
          /\ AtWork(m)
       THEN {WakeUp(d, m, t, d.wakes[d.runs[last].wake].reason, c)} ELSE {})

RecoverOne ==
  /\ at = "recover"
  /\ \E t \in look, c \in Circumstances :
       /\ look' = look \ {t}
       /\ \E d \in Stalls(Store, t, c) : \E e \in FailedStart(d, t, task[t], c) : Commit(e)
  /\ UNCHANGED <<owned, memory, at, left, drain, restarts>>

TickEnd ==
  /\ at = "recover" /\ look = {}
  /\ at' = "idle"
  /\ UNCHANGED <<runs, wakes, task, stopped, owned, memory, left, look, drain, restarts>>

\* A step of a pass fails (the store can not say): the rest of the pass is not done.
TickFails ==
  /\ "abort" \in Acts /\ ~Free
  /\ at' = "idle" /\ left' = {} /\ look' = {}
  /\ UNCHANGED <<runs, wakes, task, stopped, owned, memory, drain, restarts>>

---------------------------------------------------------------------------
(* What needs no lock.                                                     *)

\* A turn's worker ends, one way or another, and the runner's report reaches HQ.
WorkerEnds(r, how) ==
  /\ runner[r] = "Running"
  /\ runner' = [runner EXCEPT ![r] = how]
  /\ UNCHANGED <<runs, wakes, task, stopped, looked, owned, pass, drain, restarts>>

\* The clock reaches a turn's longest time, or the time it is to be tried again.  A tick reads
\* the clock once.
TimePasses(r) ==
  /\ Free
  /\ runs[r].status \in {"Running", "RetryWaiting"} /\ ~runs[r].late
  /\ runs' = [runs EXCEPT ![r].late = TRUE]
  /\ UNCHANGED <<wakes, task, stopped, owned, memory, pass, drain, restarts>>

\* HQ restarts, perhaps within a tick: what it kept in memory is lost.
Restart ==
  /\ restarts < MaxRestarts
  /\ restarts' = restarts + 1
  /\ runner' = [r \in Ids |-> "Gone"] /\ looked' = FALSE
  /\ at' = "idle" /\ left' = {} /\ look' = {}
  /\ UNCHANGED <<runs, wakes, task, stopped, owned, drain>>

---------------------------------------------------------------------------
TickStep == \/ \E f \in Whether("drain") : TickBegin(f)
            \/ SettleOne \/ SettleEnd
            \/ \E t \in Tasks, m \in Members : PausedLetGo(t, m)
            \/ RequeueRetries
            \/ DropQueued \/ RunnerFull \/ LeaveQueued \/ Launch \/ LaunchFails \/ Trip
            \/ StartEnd \/ RecoverOne \/ TickEnd

Operation ==
  \/ \E w \in Raised : Wake(w[1], w[2], w[3])
  \/ \E t \in Tasks, status \in Statuses : MoveTask(t, status)
  \/ \E t \in Tasks, m \in Members \cup {Nobody} : Hold(t, m)
  \/ \E r \in Ids : Ask(r) \/ SpendOut(r) \/ WrapUp(r)
  \/ \E t \in Tasks : Retire(t)
  \/ StopAll \/ Resume \/ BeginDrain \/ EndDrain \/ Owner

Outside ==
  \/ \E r \in Ids, how \in Outcomes : WorkerEnds(r, how)
  \/ \E r \in Ids : TimePasses(r)
  \/ TickFails \/ Restart

Next == Operation \/ TickStep \/ Outside

Spec == Init /\ [][Next]_vars

TypeOK ==
  /\ runs \in [Ids -> RunRow \cup {NoRun}]
  /\ wakes \in [Ids -> WakeRow \cup {NoWake}]
  /\ task \in [Tasks -> TaskRow]
  /\ member \in [Members -> [at : {"AtWork", "Paused", "Furloughed"}, brain : {"house", "cloud"}]]
  /\ {stopped, drain, looked, onHold, broke} \subseteq BOOLEAN
  /\ runner \in [Ids -> Liveness]
  /\ at \in Phases /\ left \subseteq Ids /\ look \subseteq Tasks
  /\ restarts \in 0..MaxRestarts

---------------------------------------------------------------------------
(* Safety.                                                                 *)

\* A task has at most one live turn (domain/wakes.rs, `decide`), whichever of the wakes, the
\* releases, the retries, the hand-ups and the recovery of a tick raised it.
OneLiveTurn == \A t \in Tasks : \A r, q \in LiveOn(Store, t) : r = q

\* While the kill switch is on no turn is live: nothing is queued, running or waiting to be
\* tried again, even for a turn that ended while the switch was being thrown.
StoppedIsQuiet == stopped => LiveRuns(Store) = {}

\* The wakes and the turns agree: a turn's wake names it; a live turn's wake is Queued or
\* Started, a running one's is Started; and no wake says Queued or Started for a turn that is
\* over (a wake nobody would ever answer).
WakesAndTurnsAgree ==
  /\ \A r \in Ids : runs[r].status # "None" =>
       runs[r].wake \in Ids /\ wakes[runs[r].wake].run = r
  /\ \A r \in LiveRuns(Store) : wakes[runs[r].wake].receipt \in
       (IF runs[r].status = "Running" THEN {"Started"} ELSE {"Queued", "Started"})
  /\ \A w \in Ids : wakes[w].receipt \in {"Queued", "Started"} =>
       wakes[w].run \in LiveRuns(Store)

\* A turn is started at most four times: two retries after its first failure, and one more for
\* an interruption by the platform; a handover before a restart gives its start back.
RetriesBounded ==
  \A r \in Ids :
    /\ runs[r].attempts <= MostRetries + MostQuiet + 1
    /\ runs[r].status \in Live \ {"Running"} =>
         OwnAttempts(runs[r].attempts, runs[r].interrupted) <= MostRetries

\* Never more turns run than the runner has room for, nor more of a member's than its slots.
RoomKept ==
  /\ Cardinality(RunningRuns(Store)) <= Capacity
  /\ \A m \in Members :
       Cardinality({r \in RunningRuns(Store) : runs[r].member = m}) <= Slots[m]

\* A member has at most one wake held for a task (Refused::Duplicate).
HeldOnce ==
  \A v, w \in Ids :
    /\ wakes[v].receipt = "Held" /\ wakes[w].receipt = "Held"
    /\ wakes[v].task = wakes[w].task /\ wakes[v].member = wakes[w].member
    => v = w

\* What Receipt::Held says: "Held: another member is working the task. Released, oldest first,
\* when that turn ends."  So no wake stays held on a task nobody works.
HeldBehindATurn ==
  Free => \A w \in Ids : wakes[w].receipt = "Held" => LiveOn(Store, wakes[w].task) # {}

---------------------------------------------------------------------------
(* What a step may never do.                                               *)

\* A turn that ended stays as it ended: no pass that read it while it was live, no retry and no
\* release brings it back.
EndedStaysEnded ==
  [][\A r \in Ids : runs[r].status \in Ended => runs'[r] = runs[r]]_vars

---------------------------------------------------------------------------
(* What the scheduler promises of a task.                                  *)

\* A live turn holds its task; an ended one never does again.
TurnsAsLock == INSTANCE TaskLock WITH
  Runs    <- Ids,
  holding <- [t \in Tasks |-> LiveOn(Store, t)],
  over    <- {r \in Ids : runs[r].status \in Ended /\ runs[r].task \in Tasks}

\* The scheduler implements the lock: every step of wakes, turns, releases, retries, stops and
\* restarts hands a task from one turn to a new one, or leaves it.
ATaskIsALock == TurnsAsLock!LockSpec

---------------------------------------------------------------------------
(* Liveness.                                                               *)

\* The tick goes round (ticker.rs), and the clock goes on however often the lock is taken.
Fairness == WF_vars(TickStep) /\ \A r \in Ids : SF_vars(TimePasses(r))
FairSpec == Spec /\ Fairness

\* A running turn does not run for ever, whatever its worker, the runner, HQ's restarts and the
\* owner do: it ends, fails, is found gone or is stopped at its longest.
NoTurnRunsForEver == \A r \in Ids : runs[r].status = "Running" ~> runs[r].status # "Running"

\* Once the owner, the budget and the drains leave the team to its work, every turn is over in
\* the end: none is retried for ever and none is left behind in the queue.  (The instance
\* raises finitely many wakes: urgent work without end would keep the rest waiting.)
LeftToWork == ~stopped /\ ~drain /\ ~onHold /\ ~broke /\ \A m \in Members : AtWork(m)
EveryTurnEnds ==
  <>[]LeftToWork => \A r \in Ids : runs[r].status \in Live ~> runs[r].status \in Ended

\* Neither runs nor waits for ever.
TurnsAreOver == NoTurnRunsForEver /\ EveryTurnEnds
=============================================================================
