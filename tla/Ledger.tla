------------------------------- MODULE Ledger -------------------------------
(***************************************************************************)
(* The money of paid turns (domains/team/src/domain/money.rs, the ledger   *)
(* of infrastructure/sqlite/runs.rs, and the engine's calls on it): a turn *)
(* reserves what it may spend before it starts, reports each model call as *)
(* it costs, is stopped when it has gone past its reservation, and is      *)
(* settled when it ends or is to be tried again.  A day's pool is shared   *)
(* by every turn.                                                          *)
(*                                                                         *)
(* The engine's lock is held throughout a handler, but its writes to the   *)
(* database are several: HQ may die between any two of them.               *)
(***************************************************************************)
EXTENDS Integers, FiniteSetsExt

CONSTANTS
  Runs,         \* paid turns
  LastDay,      \* bound: the days the books are kept for
  PoolDay,      \* the pool of a day
  Most,         \* the most one turn may reserve, and one report may say
  Least,        \* less than this left, and no turn starts
  MaxAttempts,  \* how often a turn may be started
  MaxReports,   \* bound: reports of one turn
  MaxCrashes    \* bound: times HQ dies within a handler

ASSUME LedgerAssumption ==
  /\ IsFiniteSet(Runs) /\ LastDay \in Nat \ {0}
  /\ PoolDay \in Nat /\ Most \in Nat /\ Least \in Nat \ {0}
  /\ MaxAttempts \in Nat /\ MaxReports \in Nat /\ MaxCrashes \in Nat

VARIABLES
  row,       \* of each turn, its row and the sums of its rows in the ledger
  today,
  crashes

vars == <<row, today, crashes>>

Days == 1..LastDay

NewRow ==
  [st |-> "Queued", started |-> FALSE, attempts |-> 0,
   cap |-> 0,                               \* what it reserved (`reserved`), 0 when it does not run
   spent |-> 0,                             \* what the row says it spent (`spent`)
   used |-> 0, charged |-> 0,               \* its 'use' and 'charge' rows
   held |-> 0, freed |-> 0,                 \* its 'reserve' and 'release' rows
   booked |-> 0,                            \* the day of its last 'reserve' row, 0 for none
   on |-> [d \in Days |-> 0],               \* what is committed on each day for it
   reports |-> 0,                           \* how many it made
   before |-> 0,                            \* history: what it had used when it last reserved
   past |-> [d \in Days |-> 0]]             \* history: what was used past a day's reservations

Init == row = [r \in Runs |-> NewRow] /\ today = 1 /\ crashes = 0

---------------------------------------------------------------------------
(* The books.                                                              *)

SumOver(f) == MapThenSumSet(LAMBDA r : f[r], Runs)

\* What is committed on a day: charges, and reservations not yet released.
Committed(d) == SumOver([r \in Runs |-> row[r].on[d]])
PastOn(d)    == SumOver([r \in Runs |-> row[r].past[d]])

\* (Mutant: what turns that run have reserved is not counted.)
PoolLeftUncommitted ==
  PoolDay - SumOver([r \in Runs |-> IF row[r].st = "Running" THEN 0 ELSE row[r].on[today]])

PoolLeft == PoolDay - Committed(today)

\* A turn on a paid model has its most reserved, or what is left of the pool's day, its member's
\* or its project's if that is less; none under the least.  One on the house's models reserves
\* nothing.  (Mutant: its most does not bind.)
AmountsOfPool == {0} \cup {a \in 1..PoolDay : Least <= a /\ a <= PoolLeft}
Amounts       == {0} \cup {a \in 1..Most : Least <= a /\ a <= PoolLeft}

DayOf(b) == IF b.booked = 0 THEN today ELSE b.booked

\* An amount more in the books of a day.
Book(days, d, amount) == [days EXCEPT ![d] = @ + amount]

\* The use not yet charged is charged and what is still held is released, on the day of the
\* reservation.  (Mutant: all of the use is charged.)
SettledAgain(b) ==
  [b EXCEPT !.on = Book(@, DayOf(b), b.used - (b.held - b.freed)),
            !.charged = b.charged + b.used, !.freed = b.held]

Settled(b) ==
  [b EXCEPT !.on = Book(@, DayOf(b), (b.used - b.charged) - (b.held - b.freed)),
            !.charged = b.used, !.freed = b.held]

Reserved(b, amount) ==
  [b EXCEPT !.held = @ + amount, !.booked = today, !.on = Book(@, today, amount),
            !.before = b.used]

\* A use is recorded; what of it is past the attempt's reservation is history's.
Used(b, amount) ==
  LET allowed == Max({0, b.before + b.cap - b.used})
  IN  [b EXCEPT !.used = @ + amount, !.reports = @ + 1,
                !.past = Book(@, DayOf(b), Max({0, amount - allowed}))]

Spent(b, amount) == [b EXCEPT !.spent = @ + amount]

\* A turn that ran is settled when it ends.  (Mutant: it is not.)
OverUnsettled(b) == [b EXCEPT !.st = "Over", !.cap = 0]
Over(b)          == [(IF b.started THEN Settled(b) ELSE b) EXCEPT !.st = "Over", !.cap = 0]

\* A handler leaves the row as `whole`; or HQ dies within it, and leaves it as one of `cuts`.
Becomes(r, whole, cuts) ==
  \/ row' = [row EXCEPT ![r] = whole] /\ UNCHANGED crashes
  \/ /\ crashes < MaxCrashes /\ crashes' = crashes + 1
     /\ \E cut \in cuts : row' = [row EXCEPT ![r] = cut]

---------------------------------------------------------------------------
(* The engine.                                                             *)

\* A queued turn that can be paid for starts (`launch`); one that can not waits.  A start that
\* fails is this and Fail.
Launch(r) ==
  /\ row[r].st = "Queued" /\ row[r].attempts < MaxAttempts
  /\ \E amount \in Amounts :
       LET b == Reserved(row[r], amount)
       IN  Becomes(r, [b EXCEPT !.st = "Running", !.started = TRUE, !.cap = amount,
                                !.attempts = @ + 1],
                   {b})
  /\ UNCHANGED today

\* A call is reported while the turn runs.  Past what it reserved, it is stopped now.
Crossed(b) == b.spent > b.cap

Report(r, amount) ==
  /\ row[r].st = "Running" /\ row[r].reports < MaxReports
  /\ LET used  == Used(row[r], amount)
         spent == Spent(used, amount)
     IN  IF Crossed(spent) THEN Becomes(r, Over(spent), {used, spent, Settled(spent)})
         ELSE Becomes(r, spent, {used})
  /\ UNCHANGED today

\* A call is reported after its turn stopped running: counted, and settled at once.
Late(r, amount) ==
  /\ row[r].st # "Running" /\ row[r].started /\ row[r].reports < MaxReports
  /\ LET used == Used(row[r], amount)
     IN  Becomes(r, Spent(Settled(used), amount), {used, Settled(used)})
  /\ UNCHANGED today

\* A turn ends, well or not, or is stopped, running or not (`end`).
End(r) ==
  /\ row[r].st # "Over"
  /\ Becomes(r, Over(row[r]), {IF row[r].started THEN Settled(row[r]) ELSE row[r]})
  /\ UNCHANGED today

\* A running turn fails and is to be tried again (`fail`).  (Mutant: it is not settled.)
FailUnsettled(r) ==
  /\ row[r].st = "Running" /\ row[r].attempts < MaxAttempts
  /\ Becomes(r, [row[r] EXCEPT !.st = "RetryWaiting", !.cap = 0], {})
  /\ UNCHANGED today

Fail(r) ==
  /\ row[r].st = "Running" /\ row[r].attempts < MaxAttempts
  /\ Becomes(r, [Settled(row[r]) EXCEPT !.st = "RetryWaiting", !.cap = 0], {Settled(row[r])})
  /\ UNCHANGED today

Requeue(r) ==
  /\ row[r].st = "RetryWaiting"
  /\ row' = [row EXCEPT ![r].st = "Queued"]
  /\ UNCHANGED <<today, crashes>>

Midnight == today + 1 \in Days /\ today' = today + 1 /\ UNCHANGED <<row, crashes>>

Next ==
  \/ \E r \in Runs : \/ Launch(r) \/ End(r) \/ Fail(r) \/ Requeue(r)
                     \/ \E amount \in 0..Most : Report(r, amount)
                     \/ \E amount \in 1..Most : Late(r, amount)
  \/ Midnight

Spec == Init /\ [][Next]_vars

Row == [st : {"Queued", "Running", "RetryWaiting", "Over"}, started : BOOLEAN,
        attempts : Nat, cap : 0..Most, spent : Nat, used : Nat, charged : Nat,
        held : Nat, freed : Nat, booked : Days \cup {0}, on : [Days -> Int], reports : Nat,
        before : Nat, past : [Days -> Nat]]

TypeOK == row \in [Runs -> Row] /\ today \in Days /\ crashes \in Nat

---------------------------------------------------------------------------
(* Safety.                                                                 *)

\* While HQ does not die, the books of a turn that does not run balance: all of its use is
\* charged, and nothing is held for it; of one that runs exactly its reservation is held.
BooksBalance ==
  crashes = 0 => \A r \in Runs :
    IF row[r].st = "Running" THEN row[r].held - row[r].freed = row[r].cap
    ELSE row[r].charged = row[r].used /\ row[r].freed = row[r].held

\* A day never commits more than its pool, but for what calls cost past their turns'
\* reservations: whatever runs at once, fails, is tried again or crosses midnight
\* (domain/money.rs, `reservation`; engine.rs, `affordable`: "The pool's day is the hard ceiling").
DayWithinThePool == crashes = 0 => \A d \in Days : Committed(d) <= PoolDay + PastOn(d)

\* A turn that goes on has not gone past what its attempt reserved: the call that does stops it
\* (engine.rs, `report_usage`: "Crossing what it reserved stops it now, not afterwards").
NeverPastReservation ==
  crashes = 0 => \A r \in Runs : row[r].st = "Running" => row[r].used - row[r].before <= row[r].cap

\* Nothing is charged that was not used and nothing released that was not held, though a handler
\* cut short is made again.
NothingTwice == \A r \in Runs : row[r].charged <= row[r].used /\ row[r].freed <= row[r].held

\* Once a turn that ran is over nothing stays held for it, wherever HQ died before.
FreedWhenOver == \A r \in Runs : row[r].st = "Over" /\ row[r].started => row[r].freed = row[r].held

\* Once a turn is over nothing is held for it (engine.rs, `charge_late`: "Its reservation is
\* already released").
NothingHeldWhenOver == \A r \in Runs : row[r].st = "Over" => row[r].freed = row[r].held

\* A report stops a turn only when the attempt has spent more than it reserved (domain/money.rs,
\* `crossed`: "past what it may spend: what it reserved").
StoppedPastReservation ==
  [][\A r \in Runs :
       row[r].st = "Running" /\ row'[r].st = "Over" /\ row'[r].used # row[r].used
         => row'[r].used - row[r].before > row[r].cap]_vars
=============================================================================
