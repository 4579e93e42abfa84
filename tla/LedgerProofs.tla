---------------------------- MODULE LedgerProofs ----------------------------
(***************************************************************************)
(* That the books of every turn are sound, for any turns, days, amounts    *)
(* and crashes.  The argument is row by row: a row is Sound wherever HQ    *)
(* died, and Exact as long as it did not.  Exact is stronger than what the *)
(* runs check: that a turn which goes on is within its reservation needs   *)
(* that its row says what the ledger says it used.                         *)
(*                                                                         *)
(* That a day's pool is enough for all of them is about sums, so what a    *)
(* sum over the turns is has lemmas of its own; then a step adds to what   *)
(* is committed on a day only what its turn used past its reservation, or  *)
(* a reservation the pool has room for.                                    *)
(***************************************************************************)
EXTENDS Ledger, FiniteSetTheorems, WellFoundedInduction, TLAPS

\* What no crash can undo.
Sound(b) ==
  /\ b \in Row
  /\ b.charged <= b.used /\ b.freed <= b.held
  /\ b.st = "Over" /\ b.started => b.freed = b.held
  /\ b.st = "Running" => b.started

\* What holds between handlers that ran to their end.
Exact(b) ==
  /\ b.spent = b.used
  /\ b.st = "Running" => b.held - b.freed = b.cap /\ b.used - b.before <= b.cap
  /\ b.st # "Running" => b.charged = b.used /\ b.freed = b.held

Inv ==
  /\ today \in Days /\ crashes \in Nat /\ row \in [Runs -> Row]
  /\ \A r \in Runs : Sound(row[r])
  /\ crashes = 0 => \A r \in Runs : Exact(row[r])

---------------------------------------------------------------------------
(* What each operation on a row does to it.                                *)

LEMMA MaxOfTwo ==
  ASSUME NEW a \in Int
  PROVE  Max({0, a}) \in Nat /\ Max({0, a}) = IF a >= 0 THEN a ELSE 0
<1>1. \E x \in {0, a} : \A y \in {0, a} : x >= y
  <2>1. CASE a >= 0 BY <2>1
  <2>2. CASE a < 0  BY <2>2
  <2> QED BY <2>1, <2>2
<1>2. PICK x \in {0, a} : x = Max({0, a}) /\ \A y \in {0, a} : x >= y
  BY <1>1 DEF Max
<1> QED BY <1>2

\* An amount more, in a book of amounts.
LEMMA Booking ==
  ASSUME NEW A, NEW days \in [Days -> A], NEW d \in Days, NEW amount,
         days[d] + amount \in A
  PROVE  Book(days, d, amount) \in [Days -> A]
  BY DEF Book

LEMMA ItsDay == ASSUME today \in Days, NEW b \in Row PROVE DayOf(b) \in Days
  BY DEF DayOf, Row

\* Settling charges what was used and releases what was held, once.
LEMMA Settling ==
  ASSUME today \in Days, NEW b \in Row
  PROVE  /\ Settled(b) \in Row
         /\ Settled(b).charged = b.used /\ Settled(b).used = b.used
         /\ Settled(b).freed = b.held /\ Settled(b).held = b.held
         /\ Settled(b).st = b.st /\ Settled(b).started = b.started
         /\ Settled(b).spent = b.spent /\ Settled(b).cap = b.cap
         /\ Settled(b).before = b.before
<1> DEFINE on == Book(b.on, DayOf(b), (b.used - b.charged) - (b.held - b.freed))
<1>1. on \in [Days -> Int] BY ItsDay, Booking DEF Row
<1>2. Settled(b) = [b EXCEPT !.on = on, !.charged = b.used, !.freed = b.held]
  BY DEF Settled
<1> HIDE DEF on
<1> QED BY <1>1, <1>2 DEF Row

\* A reservation is held, on today.
LEMMA Reserving ==
  ASSUME today \in Days, NEW b \in Row, NEW amount \in Nat
  PROVE  /\ Reserved(b, amount) \in Row
         /\ Reserved(b, amount).held = b.held + amount /\ Reserved(b, amount).freed = b.freed
         /\ Reserved(b, amount).used = b.used /\ Reserved(b, amount).charged = b.charged
         /\ Reserved(b, amount).st = b.st /\ Reserved(b, amount).started = b.started
         /\ Reserved(b, amount).spent = b.spent /\ Reserved(b, amount).before = b.used
         /\ Reserved(b, amount).attempts = b.attempts
<1> DEFINE on == Book(b.on, today, amount)
<1>1. on \in [Days -> Int] BY Booking DEF Row
<1>2. Reserved(b, amount) = [b EXCEPT !.held = b.held + amount, !.booked = today, !.on = on,
                                      !.before = b.used]
  BY DEF Reserved, Row
<1>3. b.held \in Nat /\ b.used \in Nat /\ b.held + amount \in Nat BY DEF Row
<1> HIDE DEF on
<1>4. Reserved(b, amount) \in Row BY <1>1, <1>2, <1>3 DEF Row
<1>5. /\ Reserved(b, amount).held = b.held + amount /\ Reserved(b, amount).freed = b.freed
      /\ Reserved(b, amount).used = b.used /\ Reserved(b, amount).charged = b.charged
      /\ Reserved(b, amount).st = b.st /\ Reserved(b, amount).started = b.started
  BY <1>2 DEF Row
<1>6. /\ Reserved(b, amount).spent = b.spent /\ Reserved(b, amount).before = b.used
      /\ Reserved(b, amount).attempts = b.attempts
  BY <1>2 DEF Row
<1> QED BY <1>4, <1>5, <1>6

\* A use is recorded and nothing is charged for it yet.
LEMMA Using ==
  ASSUME today \in Days, NEW b \in Row, NEW amount \in Nat
  PROVE  /\ Used(b, amount) \in Row
         /\ Used(b, amount).used = b.used + amount /\ Used(b, amount).charged = b.charged
         /\ Used(b, amount).held = b.held /\ Used(b, amount).freed = b.freed
         /\ Used(b, amount).st = b.st /\ Used(b, amount).started = b.started
         /\ Used(b, amount).spent = b.spent /\ Used(b, amount).cap = b.cap
         /\ Used(b, amount).before = b.before
<1> DEFINE allowed == Max({0, b.before + b.cap - b.used})
           over    == Max({0, amount - allowed})
           past    == Book(b.past, DayOf(b), over)
<1>1. b.before \in Int /\ b.cap \in Int /\ b.used \in Nat /\ b.past \in [Days -> Nat]
  BY DEF Row
<1>2. allowed \in Int BY <1>1, MaxOfTwo
<1>3. over \in Nat BY <1>2, MaxOfTwo
<1> HIDE DEF over
<1>4. past \in [Days -> Nat]
  <2>1. DayOf(b) \in Days BY ItsDay
  <2>2. b.past[DayOf(b)] + over \in Nat BY <1>1, <1>3, <2>1
  <2> QED BY <1>1, <2>1, <2>2, Booking
<1>5. Used(b, amount) = [b EXCEPT !.used = b.used + amount, !.reports = b.reports + 1,
                                  !.past = past]
  BY DEF Used, over, Row
<1> HIDE DEF past
<1>6. b.used + amount \in Nat /\ b.reports + 1 \in Nat BY DEF Row
<1>7. Used(b, amount) \in Row BY <1>4, <1>5, <1>6 DEF Row
<1>8. /\ Used(b, amount).used = b.used + amount /\ Used(b, amount).charged = b.charged
      /\ Used(b, amount).held = b.held /\ Used(b, amount).freed = b.freed
      /\ Used(b, amount).st = b.st /\ Used(b, amount).started = b.started
  BY <1>5 DEF Row
<1>9. /\ Used(b, amount).spent = b.spent /\ Used(b, amount).cap = b.cap
      /\ Used(b, amount).before = b.before
  BY <1>5 DEF Row
<1> QED BY <1>7, <1>8, <1>9

\* The row is told of it.
LEMMA Telling ==
  ASSUME NEW b \in Row, NEW amount \in Nat
  PROVE  /\ Spent(b, amount) \in Row
         /\ Spent(b, amount).spent = b.spent + amount
         /\ Spent(b, amount).used = b.used /\ Spent(b, amount).charged = b.charged
         /\ Spent(b, amount).held = b.held /\ Spent(b, amount).freed = b.freed
         /\ Spent(b, amount).st = b.st /\ Spent(b, amount).started = b.started
         /\ Spent(b, amount).cap = b.cap /\ Spent(b, amount).before = b.before
  BY DEF Spent, Row

\* Ending a turn leaves nothing held for it if it ran, and its books exact if they were.
LEMMA Ending ==
  ASSUME today \in Days, NEW b, Sound(b)
  PROVE  /\ Sound(Over(b)) /\ Sound(Settled(b))
         /\ b.spent = b.used /\ b.started => Exact(Over(b))
         /\ b.spent = b.used /\ b.charged = b.used /\ b.freed = b.held => Exact(Over(b))
<1>1. b \in Row /\ 0 \in 0..Most BY LedgerAssumption DEF Sound
<1>2. Settled(b) \in Row /\ Sound(Settled(b)) BY <1>1, Settling DEF Sound, Row
<1> DEFINE c == IF b.started THEN Settled(b) ELSE b
<1>3. c \in Row /\ Sound(c) BY <1>1, <1>2
<1>4. /\ c.spent = b.spent /\ c.used = b.used /\ c.started = b.started
      /\ b.started => c.charged = b.used /\ c.freed = c.held
      /\ ~b.started => c.charged = b.charged /\ c.freed = b.freed /\ c.held = b.held
  BY <1>1, Settling
<1>5. Over(b) = [c EXCEPT !.st = "Over", !.cap = 0] BY DEF Over
<1> HIDE DEF c
<1>6. Over(b) \in Row BY <1>1, <1>3, <1>5 DEF Row
<1>7. /\ Over(b).st = "Over" /\ Over(b).started = c.started /\ Over(b).spent = c.spent
      /\ Over(b).used = c.used /\ Over(b).charged = c.charged /\ Over(b).held = c.held
      /\ Over(b).freed = c.freed
  BY <1>3, <1>5 DEF Row
<1>8. Sound(Over(b)) BY <1>3, <1>4, <1>6, <1>7 DEF Sound
<1>9. b.spent = b.used /\ b.started => Exact(Over(b)) BY <1>4, <1>7 DEF Exact
<1>10. b.spent = b.used /\ b.charged = b.used /\ b.freed = b.held => Exact(Over(b))
  BY <1>4, <1>7 DEF Exact
<1> QED BY <1>2, <1>8, <1>9, <1>10

\* A handler that leaves one row sound, wherever it is cut, and exact if it is not, keeps the books.
LEMMA Handling ==
  ASSUME Inv, NEW r \in Runs, NEW whole, NEW cuts, Becomes(r, whole, cuts), UNCHANGED today,
         Sound(whole), \A cut \in cuts : Sound(cut), crashes = 0 => Exact(whole)
  PROVE  Inv'
<1>1. today' \in Days BY DEF Inv
<1>2. \A b : Sound(b) => b \in Row BY DEF Sound
<1>3. CASE row' = [row EXCEPT ![r] = whole] /\ UNCHANGED crashes
  BY <1>1, <1>2, <1>3 DEF Inv
<1>4. ASSUME NEW cut \in cuts, row' = [row EXCEPT ![r] = cut], crashes' = crashes + 1
      PROVE  Inv'
  <2>1. crashes' \in Nat /\ crashes' # 0 BY <1>4 DEF Inv
  <2> QED BY <1>1, <1>2, <1>4, <2>1 DEF Inv
<1> QED BY <1>3, <1>4 DEF Becomes

---------------------------------------------------------------------------
(* Each step of the engine keeps the books.                                *)

LEMMA LaunchKeeps == ASSUME Inv, NEW r \in Runs, Launch(r) PROVE Inv'
<1>1. PICK amount \in Amounts :
        LET a == Reserved(row[r], amount)
        IN  Becomes(r, [a EXCEPT !.st = "Running", !.started = TRUE, !.cap = amount,
                                 !.attempts = @ + 1], {a})
  BY DEF Launch
<1> DEFINE a == Reserved(row[r], amount)
           b == [a EXCEPT !.st = "Running", !.started = TRUE, !.cap = amount,
                          !.attempts = @ + 1]
<1>2. amount \in 0..Most /\ amount \in Nat BY LedgerAssumption DEF Amounts
<1>3. /\ today \in Days /\ row[r] \in Row /\ Sound(row[r]) /\ row[r].st = "Queued"
      /\ crashes = 0 => Exact(row[r])
  BY DEF Inv, Launch
<1>4. /\ a \in Row
      /\ a.held = row[r].held + amount /\ a.freed = row[r].freed
      /\ a.used = row[r].used /\ a.charged = row[r].charged
      /\ a.st = row[r].st /\ a.spent = row[r].spent
      /\ a.before = row[r].used /\ a.attempts = row[r].attempts
  BY <1>2, <1>3, Reserving
<1>5. /\ row[r].held \in Nat /\ row[r].freed \in Nat /\ row[r].used \in Nat
      /\ row[r].attempts + 1 \in Nat
  BY <1>3 DEF Row
<1>6. Sound(a) BY <1>2, <1>3, <1>4, <1>5 DEF Sound
<1>7. Becomes(r, b, {a}) /\ UNCHANGED today BY <1>1 DEF Launch
<1>8. b = [a EXCEPT !.st = "Running", !.started = TRUE, !.cap = amount,
                    !.attempts = row[r].attempts + 1]
  BY <1>4
<1> HIDE DEF a, b
<1>9. b \in Row BY <1>2, <1>4, <1>5, <1>8 DEF Row
<1>10. /\ b.st = "Running" /\ b.started = TRUE /\ b.cap = amount
       /\ b.held = a.held /\ b.freed = a.freed /\ b.used = a.used
       /\ b.charged = a.charged /\ b.spent = a.spent /\ b.before = a.before
  BY <1>4, <1>8 DEF Row
<1>11. Sound(b) BY <1>6, <1>9, <1>10 DEF Sound
<1>12. crashes = 0 => Exact(b) BY <1>2, <1>3, <1>4, <1>5, <1>10 DEF Exact
<1> QED BY <1>6, <1>7, <1>11, <1>12, Handling

LEMMA EndKeeps == ASSUME Inv, NEW r \in Runs, End(r) PROVE Inv'
<1> DEFINE b == row[r]
<1>1. /\ today \in Days /\ Sound(b) /\ b.st # "Over"
      /\ crashes = 0 => Exact(b)
      /\ Becomes(r, Over(b), {IF b.started THEN Settled(b) ELSE b}) /\ UNCHANGED today
  BY DEF Inv, End
<1> HIDE DEF b
<1>2. Sound(Over(b)) /\ Sound(Settled(b)) BY <1>1, Ending
<1>3. crashes = 0 => Exact(Over(b))
  <2>1. CASE b.st = "Running"
    <3>1. b.started BY <1>1, <2>1 DEF Sound
    <3>2. Exact(b) => b.spent = b.used BY DEF Exact
    <3>3. b.spent = b.used /\ b.started => Exact(Over(b)) BY <1>1, Ending
    <3> QED BY <1>1, <3>1, <3>2, <3>3
  <2>2. CASE b.st # "Running"
    <3>1. Exact(b) => b.spent = b.used /\ b.charged = b.used /\ b.freed = b.held
      BY <2>2 DEF Exact
    <3> QED BY <1>1, <3>1, Ending
  <2> QED BY <2>1, <2>2
<1> QED BY <1>1, <1>2, <1>3, Handling

LEMMA FailKeeps == ASSUME Inv, NEW r \in Runs, Fail(r) PROVE Inv'
<1> DEFINE b == row[r]
           s == Settled(b)
           w == [s EXCEPT !.st = "RetryWaiting", !.cap = 0]
<1>1. /\ today \in Days /\ Sound(b) /\ b \in Row /\ 0 \in 0..Most
      /\ crashes = 0 => Exact(b)
      /\ Becomes(r, w, {s}) /\ UNCHANGED today
  BY LedgerAssumption DEF Inv, Fail
<1> HIDE DEF b
<1>2. Sound(s) BY <1>1, Ending
<1>3. /\ s \in Row /\ s.charged = b.used /\ s.used = b.used /\ s.freed = b.held
      /\ s.held = b.held /\ s.spent = b.spent
  BY <1>1, Settling
<1> HIDE DEF s
<1>4. w \in Row BY <1>1, <1>3 DEF Row
<1>5. /\ w.st = "RetryWaiting" /\ w.charged = s.charged /\ w.used = s.used
      /\ w.freed = s.freed /\ w.held = s.held /\ w.spent = s.spent
  BY <1>3 DEF Row
<1> HIDE DEF w
<1>6. Sound(w) BY <1>2, <1>4, <1>5 DEF Sound
<1>7. crashes = 0 => Exact(w) BY <1>1, <1>3, <1>5 DEF Exact
<1> QED BY <1>1, <1>2, <1>6, <1>7, Handling

LEMMA RequeueKeeps == ASSUME Inv, NEW r \in Runs, Requeue(r) PROVE Inv'
<1> DEFINE b == row[r]
           q == [b EXCEPT !.st = "Queued"]
<1>1. /\ Sound(b) /\ b \in Row /\ b.st = "RetryWaiting"
      /\ crashes = 0 => Exact(b)
      /\ row' = [row EXCEPT ![r] = q] /\ UNCHANGED <<today, crashes>>
  BY DEF Inv, Requeue
<1> HIDE DEF b
<1>2. /\ q \in Row /\ q.st = "Queued" /\ q.charged = b.charged /\ q.used = b.used
      /\ q.freed = b.freed /\ q.held = b.held /\ q.spent = b.spent
  BY <1>1 DEF Row
<1> HIDE DEF q
<1>3. Sound(q) BY <1>1, <1>2 DEF Sound
<1>4. crashes = 0 => Exact(q) BY <1>1, <1>2 DEF Exact
<1>5. Becomes(r, q, {}) /\ UNCHANGED today BY <1>1 DEF Becomes
<1> QED BY <1>3, <1>4, <1>5, Handling

\* A report leaves the row as the ledger has it, and a row that goes on within its reservation.
LEMMA ReportKeeps ==
  ASSUME Inv, NEW r \in Runs, NEW amount \in 0..Most, Report(r, amount)
  PROVE  Inv'
<1> DEFINE b == row[r]
           u == Used(b, amount)
           s == Spent(u, amount)
<1>1. /\ today \in Days /\ Sound(b) /\ b \in Row /\ b.st = "Running" /\ amount \in Nat
      /\ crashes = 0 => Exact(b)
      /\ IF Crossed(s) THEN Becomes(r, Over(s), {u, s, Settled(s)}) ELSE Becomes(r, s, {u})
      /\ UNCHANGED today
  BY LedgerAssumption DEF Inv, Report
<1> HIDE DEF b
<1>2. /\ u \in Row /\ u.used = b.used + amount /\ u.charged = b.charged /\ u.held = b.held
      /\ u.freed = b.freed /\ u.st = b.st /\ u.started = b.started /\ u.spent = b.spent
      /\ u.cap = b.cap /\ u.before = b.before
  BY <1>1, Using
<1> HIDE DEF u
<1>3. /\ s \in Row /\ s.spent = u.spent + amount /\ s.used = u.used /\ s.charged = u.charged
      /\ s.held = u.held /\ s.freed = u.freed /\ s.st = u.st /\ s.started = u.started
      /\ s.cap = u.cap /\ s.before = u.before
  BY <1>1, <1>2, Telling
<1> HIDE DEF s
<1>4. /\ b.used \in Nat /\ b.charged \in Nat /\ b.before \in Nat /\ b.cap \in Int
      /\ b.spent \in Nat
  BY <1>1 DEF Row
<1>5. Sound(u) /\ Sound(s) BY <1>1, <1>2, <1>3, <1>4 DEF Sound
<1>6. crashes = 0 => s.spent = s.used BY <1>1, <1>2, <1>3, <1>4 DEF Exact
<1>7. CASE Crossed(s)
  <2>1. Sound(Over(s)) /\ Sound(Settled(s)) BY <1>1, <1>5, Ending
  <2>2. s.started BY <1>1, <1>2, <1>3 DEF Sound
  <2>3. crashes = 0 => Exact(Over(s))
    <3>1. s.spent = s.used /\ s.started => Exact(Over(s)) BY <1>1, <1>5, Ending
    <3> QED BY <1>6, <2>2, <3>1
  <2>4. Becomes(r, Over(s), {u, s, Settled(s)}) BY <1>1, <1>7
  <2> QED BY <1>1, <1>5, <2>1, <2>3, <2>4, Handling
<1>8. CASE ~Crossed(s)
  <2>1. s.spent <= s.cap BY <1>2, <1>3, <1>4, <1>8 DEF Crossed
  <2>2. crashes = 0 => Exact(s)
    <3>1. SUFFICES ASSUME crashes = 0 PROVE Exact(s) OBVIOUS
    <3>2. s.used - s.before <= s.cap BY <1>2, <1>3, <1>4, <1>6, <2>1, <3>1
    <3>3. s.held - s.freed = s.cap BY <1>1, <1>2, <1>3, <3>1 DEF Exact
    <3> QED BY <1>1, <1>2, <1>3, <1>6, <3>1, <3>2, <3>3 DEF Exact
  <2>3. Becomes(r, s, {u}) BY <1>1, <1>8
  <2> QED BY <1>1, <1>5, <2>2, <2>3, Handling
<1> QED BY <1>7, <1>8

\* A late report is charged at once, and releases nothing twice.
LEMMA LateKeeps ==
  ASSUME Inv, NEW r \in Runs, NEW amount \in 1..Most, Late(r, amount)
  PROVE  Inv'
<1> DEFINE b == row[r]
           u == Used(b, amount)
           t == Settled(u)
           s == Spent(t, amount)
<1>1. /\ today \in Days /\ Sound(b) /\ b \in Row /\ b.st # "Running" /\ amount \in Nat
      /\ crashes = 0 => Exact(b)
      /\ Becomes(r, s, {u, t}) /\ UNCHANGED today
  BY LedgerAssumption DEF Inv, Late
<1> HIDE DEF b
<1>2. /\ u \in Row /\ u.used = b.used + amount /\ u.charged = b.charged /\ u.held = b.held
      /\ u.freed = b.freed /\ u.st = b.st /\ u.started = b.started /\ u.spent = b.spent
  BY <1>1, Using
<1> HIDE DEF u
<1>3. b.used \in Nat /\ b.charged \in Nat /\ b.spent \in Nat BY <1>1 DEF Row
<1>4. Sound(u) BY <1>1, <1>2, <1>3 DEF Sound
<1>5. Sound(t) BY <1>1, <1>4, Ending
<1>6. /\ t \in Row /\ t.charged = u.used /\ t.used = u.used /\ t.freed = u.held
      /\ t.held = u.held /\ t.st = u.st /\ t.started = u.started /\ t.spent = u.spent
  BY <1>1, <1>2, Settling
<1> HIDE DEF t
<1>7. /\ s \in Row /\ s.spent = t.spent + amount /\ s.used = t.used /\ s.charged = t.charged
      /\ s.held = t.held /\ s.freed = t.freed /\ s.st = t.st /\ s.started = t.started
  BY <1>1, <1>6, Telling
<1> HIDE DEF s
<1>8. Sound(s) BY <1>5, <1>7 DEF Sound
<1>9. crashes = 0 => Exact(s) BY <1>1, <1>2, <1>3, <1>6, <1>7 DEF Exact
<1> QED BY <1>1, <1>4, <1>5, <1>8, <1>9, Handling

---------------------------------------------------------------------------
LEMMA InvInit == Init => Inv
<1> SUFFICES ASSUME Init PROVE Inv OBVIOUS
<1>1. 1 \in Days /\ 0 \in 0..Most BY LedgerAssumption DEF Days
<1>2. NewRow \in Row BY <1>1 DEF NewRow, Row
<1>3. Sound(NewRow) BY <1>2 DEF Sound, NewRow
<1>4. Exact(NewRow) BY DEF Exact, NewRow
<1> QED BY <1>1, <1>2, <1>3, <1>4 DEF Init, Inv

LEMMA InvNext == Inv /\ [Next]_vars => Inv'
<1> SUFFICES ASSUME Inv, [Next]_vars PROVE Inv' OBVIOUS
<1>1. ASSUME NEW r \in Runs, Launch(r) \/ End(r) \/ Fail(r) \/ Requeue(r) PROVE Inv'
  BY <1>1, LaunchKeeps, EndKeeps, FailKeeps, RequeueKeeps
<1>2. ASSUME NEW r \in Runs, NEW amount \in 0..Most, Report(r, amount) PROVE Inv'
  BY <1>2, ReportKeeps
<1>3. ASSUME NEW r \in Runs, NEW amount \in 1..Most, Late(r, amount) PROVE Inv'
  BY <1>3, LateKeeps
<1>4. CASE Midnight \/ UNCHANGED vars BY <1>4 DEF Midnight, vars, Inv
<1> QED BY <1>1, <1>2, <1>3, <1>4 DEF Next

LEMMA Always == Spec => []Inv
<1> QED BY InvInit, InvNext, PTL DEF Spec

---------------------------------------------------------------------------
(* Sums over the turns.                                                    *)

\* A sum over the turns takes one of them after another.
Pick(s) == CHOOSE r \in s : TRUE
Sums(f, g, D) == g = [s \in D |-> IF s = {} THEN 0 ELSE f[Pick(s)] + g[s \ {Pick(s)}]]
SumsOf(f) == CHOOSE g : Sums(f, g, SUBSET Runs)
SetsUpTo(n) == {s \in SUBSET Runs : Cardinality(s) <= n}

\* Every set of numbers has a least.
LEMMA LeastOf ==
  ASSUME NEW S \in SUBSET Nat, S # {}
  PROVE  \E i \in S : \A j \in S : i <= j
<1> DEFINE R == {p \in Nat \X Nat : p[1] < p[2]}
<1>1. IsWellFoundedOn(R, Nat) BY NatLessThanWellFounded DEF OpToRel
<1>2. \E i \in S : \A j \in S : <<j, i>> \notin R
  <2> HIDE DEF R
  <2> QED BY <1>1, WFMin
<1>3. ASSUME NEW i \in Nat, NEW j \in Nat, <<j, i>> \notin R PROVE i <= j
  <2>1. ~(<<j, i>>[1] < <<j, i>>[2]) BY <1>3
  <2> QED BY <2>1
<1> HIDE DEF R
<1>4. PICK i \in S : \A j \in S : <<j, i>> \notin R BY <1>2
<1> QED BY <1>3, <1>4

\* One turn fewer.
LEMMA OneFewer ==
  ASSUME NEW s \in SUBSET Runs
  PROVE  /\ Cardinality(s) \in Nat /\ Cardinality(s) <= Cardinality(Runs)
         /\ s # {} => /\ Pick(s) \in s /\ s \ {Pick(s)} \in SUBSET Runs
                      /\ Cardinality(s \ {Pick(s)}) = Cardinality(s) - 1
<1>1. IsFiniteSet(Runs) BY LedgerAssumption
<1>2. IsFiniteSet(s) /\ Cardinality(s) <= Cardinality(Runs) BY <1>1, FS_Subset
<1>3. Cardinality(s) \in Nat BY <1>2, FS_CardinalityType
<1>4. s # {} => Pick(s) \in s BY DEF Pick
<1>5. s # {} => Cardinality(s \ {Pick(s)}) = Cardinality(s) - 1
  BY <1>2, <1>4, FS_RemoveElement
<1> QED BY <1>2, <1>3, <1>4, <1>5

\* What holds of no turns, and of turns when it holds of one fewer, holds of any.
LEMMA Descent ==
  ASSUME NEW X \in SUBSET SUBSET Runs, {} \notin X,
         \A s \in X : s # {} => s \ {Pick(s)} \in X
  PROVE  X = {}
<1> SUFFICES ASSUME X # {} PROVE FALSE OBVIOUS
<1> DEFINE sizes == {Cardinality(s) : s \in X}
<1>1. sizes \in SUBSET Nat /\ sizes # {}
  <2>1. \A s \in X : Cardinality(s) \in Nat BY OneFewer
  <2> QED BY <2>1
<1>2. PICK i \in sizes : \A j \in sizes : i <= j
  <2> HIDE DEF sizes
  <2> QED BY <1>1, LeastOf
<1>3. PICK s \in X : i = Cardinality(s) OBVIOUS
<1>4. s # {} /\ s \in SUBSET Runs OBVIOUS
<1>5. s \ {Pick(s)} \in X BY <1>4
<1>6. Cardinality(s) <= Cardinality(s \ {Pick(s)}) BY <1>2, <1>3, <1>5
<1> QED BY <1>4, <1>6, OneFewer

\* There is a sum of what any turns have.
LEMMA SumsUpTo ==
  ASSUME NEW f, NEW n \in Nat
  PROVE  \E g : Sums(f, g, SetsUpTo(n))
<1> DEFINE Bad == {k \in Nat : ~ \E g : Sums(f, g, SetsUpTo(k))}
<1> SUFFICES ASSUME n \in Bad PROVE FALSE OBVIOUS
<1>1. PICK k \in Bad : \A j \in Bad : k <= j
  <2>1. Bad \in SUBSET Nat /\ Bad # {} OBVIOUS
  <2> HIDE DEF Bad
  <2> QED BY <2>1, LeastOf
<1>2. k # 0
  <2> SUFFICES ASSUME k = 0 PROVE FALSE OBVIOUS
  <2>1. \A s \in SetsUpTo(0) : s = {}
    <3> SUFFICES ASSUME NEW s \in SetsUpTo(0), s # {} PROVE FALSE OBVIOUS
    <3>1. s \in SUBSET Runs /\ Cardinality(s) <= 0 BY DEF SetsUpTo
    <3>2. Cardinality(s) \in Nat /\ Cardinality(s \ {Pick(s)}) = Cardinality(s) - 1
          /\ Cardinality(s \ {Pick(s)}) \in Nat
      BY <3>1, OneFewer
    <3> QED BY <3>1, <3>2
  <2>2. Sums(f, [s \in SetsUpTo(0) |-> 0], SetsUpTo(0)) BY <2>1 DEF Sums
  <2> QED BY <2>2
<1>3. k - 1 \in Nat /\ k - 1 \notin Bad BY <1>1, <1>2
<1>4. PICK g : Sums(f, g, SetsUpTo(k - 1)) BY <1>3
<1> HIDE DEF Bad
<1> DEFINE h == [s \in SetsUpTo(k) |-> IF s = {} THEN 0 ELSE f[Pick(s)] + g[s \ {Pick(s)}]]
<1>5. ASSUME NEW t \in SetsUpTo(k - 1) PROVE t \in SetsUpTo(k) /\ h[t] = g[t]
  <2>1. k \in Nat BY <1>1 DEF Bad
  <2>2. t \in SUBSET Runs /\ Cardinality(t) <= k - 1 /\ Cardinality(t) \in Nat
    BY OneFewer DEF SetsUpTo
  <2>3. t \in SetsUpTo(k) BY <2>1, <2>2 DEF SetsUpTo
  <2>4. g[t] = IF t = {} THEN 0 ELSE f[Pick(t)] + g[t \ {Pick(t)}] BY <1>4 DEF Sums
  <2> QED BY <2>3, <2>4
<1>6. ASSUME NEW s \in SetsUpTo(k), s # {} PROVE s \ {Pick(s)} \in SetsUpTo(k - 1)
  <2>1. k \in Nat BY <1>1 DEF Bad
  <2>2. s \in SUBSET Runs /\ Cardinality(s) <= k BY DEF SetsUpTo
  <2>3. /\ Cardinality(s) \in Nat /\ s \ {Pick(s)} \in SUBSET Runs
        /\ Cardinality(s \ {Pick(s)}) = Cardinality(s) - 1
    BY <1>6, <2>2, OneFewer
  <2> QED BY <2>1, <2>2, <2>3 DEF SetsUpTo
<1>7. Sums(f, h, SetsUpTo(k)) BY <1>5, <1>6 DEF Sums
<1> QED BY <1>1, <1>7 DEF Bad

LEMMA SumIs ==
  ASSUME NEW f
  PROVE  /\ SumOver(f) = SumsOf(f)[Runs]
         /\ SumsOf(f)[{}] = 0
         /\ \A s \in SUBSET Runs : s # {} => SumsOf(f)[s] = f[Pick(s)] + SumsOf(f)[s \ {Pick(s)}]
<1>1. SumOver(f) = SumsOf(f)[Runs]
  BY DEF SumOver, MapThenSumSet, MapThenFoldSet, SumsOf, Sums, Pick
<1>2. SetsUpTo(Cardinality(Runs)) = SUBSET Runs BY OneFewer DEF SetsUpTo
<1>3. Cardinality(Runs) \in Nat BY OneFewer
<1>4. \E g : Sums(f, g, SUBSET Runs)
  <2>1. \E g : Sums(f, g, SetsUpTo(Cardinality(Runs))) BY <1>3, SumsUpTo
  <2> QED BY <1>2, <2>1
<1>5. Sums(f, SumsOf(f), SUBSET Runs) BY <1>4 DEF SumsOf
<1> HIDE DEF SumsOf
<1>6. ASSUME NEW s \in SUBSET Runs
      PROVE  SumsOf(f)[s] = IF s = {} THEN 0 ELSE f[Pick(s)] + SumsOf(f)[s \ {Pick(s)}]
  BY <1>5 DEF Sums
<1> QED BY <1>1, <1>6

\* Sums of whole numbers are whole, of numbers that are not negative not negative.
LEMMA SumType ==
  ASSUME NEW f \in [Runs -> Int]
  PROVE  /\ SumOver(f) \in Int
         /\ f \in [Runs -> Nat] => SumOver(f) \in Nat
<1>1. SumOver(f) \in Int
  <2> DEFINE X == {s \in SUBSET Runs : SumsOf(f)[s] \notin Int}
  <2>1. {} \notin X BY SumIs
  <2>2. ASSUME NEW s \in X, s # {} PROVE s \ {Pick(s)} \in X
    <3>1. Pick(s) \in Runs /\ s \ {Pick(s)} \in SUBSET Runs BY <2>2, OneFewer
    <3>2. SumsOf(f)[s] = f[Pick(s)] + SumsOf(f)[s \ {Pick(s)}] BY <2>2, SumIs
    <3> QED BY <3>1, <3>2
  <2>3. X = {}
    <3>1. X \in SUBSET SUBSET Runs OBVIOUS
    <3> HIDE DEF X
    <3> QED BY <2>1, <2>2, <3>1, Descent
  <2>4. SumsOf(f)[Runs] \in Int BY <2>3
  <2> QED BY <2>4, SumIs
<1>2. ASSUME f \in [Runs -> Nat] PROVE SumOver(f) \in Nat
  <2> DEFINE X == {s \in SUBSET Runs : SumsOf(f)[s] \notin Nat}
  <2>1. {} \notin X BY SumIs
  <2>2. ASSUME NEW s \in X, s # {} PROVE s \ {Pick(s)} \in X
    <3>1. Pick(s) \in Runs /\ s \ {Pick(s)} \in SUBSET Runs BY <2>2, OneFewer
    <3>2. SumsOf(f)[s] = f[Pick(s)] + SumsOf(f)[s \ {Pick(s)}] BY <2>2, SumIs
    <3> QED BY <1>2, <3>1, <3>2
  <2>3. X = {}
    <3>1. X \in SUBSET SUBSET Runs OBVIOUS
    <3> HIDE DEF X
    <3> QED BY <2>1, <2>2, <3>1, Descent
  <2>4. SumsOf(f)[Runs] \in Nat BY <2>3
  <2> QED BY <2>4, SumIs
<1> QED BY <1>1, <1>2

\* A sum changes by what one turn of it changes.
LEMMA SumChange ==
  ASSUME NEW f \in [Runs -> Int], NEW g \in [Runs -> Int], NEW r \in Runs,
         \A q \in Runs \ {r} : g[q] = f[q]
  PROVE  SumOver(g) = SumOver(f) + (g[r] - f[r])
<1> DEFINE more(s) == IF r \in s THEN g[r] - f[r] ELSE 0
           ok(s) == /\ SumsOf(f)[s] \in Int
                    /\ SumsOf(g)[s] = SumsOf(f)[s] + more(s)
           X == {s \in SUBSET Runs : ~ok(s)}
<1>1. {} \notin X BY SumIs
<1>2. ASSUME NEW s \in X, s # {} PROVE s \ {Pick(s)} \in X
  <2> DEFINE t == s \ {Pick(s)}
  <2>1. Pick(s) \in Runs /\ Pick(s) \in s /\ t \in SUBSET Runs BY <1>2, OneFewer
  <2>2. SumsOf(f)[s] = f[Pick(s)] + SumsOf(f)[t] /\ SumsOf(g)[s] = g[Pick(s)] + SumsOf(g)[t]
    BY <1>2, SumIs
  <2>3. SUFFICES ASSUME ok(t) PROVE FALSE BY <2>1
  <2>4. f[Pick(s)] \in Int /\ g[Pick(s)] \in Int /\ f[r] \in Int /\ g[r] \in Int BY <2>1
  <2>5. CASE Pick(s) = r
    <3>1. more(t) = 0 /\ more(s) = g[r] - f[r] BY <2>1, <2>5
    <3> QED BY <2>2, <2>3, <2>4, <2>5, <3>1
  <2>6. CASE Pick(s) # r
    <3>1. more(t) = more(s) /\ more(t) \in Int BY <2>1, <2>4, <2>6
    <3>2. g[Pick(s)] = f[Pick(s)] BY <2>1, <2>6
    <3> HIDE DEF more
    <3> QED BY <2>2, <2>3, <2>4, <3>1, <3>2
  <2> QED BY <2>5, <2>6
<1>3. X = {}
  <2>1. X \in SUBSET SUBSET Runs OBVIOUS
  <2> HIDE DEF X
  <2> QED BY <1>1, <1>2, <2>1, Descent
<1>4. ok(Runs) BY <1>3
<1> QED BY <1>4, SumIs

---------------------------------------------------------------------------
(* A day's pool.                                                           *)

\* Beside what is Exact: what a turn had used when it last reserved was charged then, and one that
\* does not run has no reservation.
Current(b) ==
  /\ b.before <= b.used
  /\ b.st = "Running" => b.charged = b.before
  /\ b.st # "Running" => b.cap = 0

Pooled ==
  crashes = 0 => /\ \A r \in Runs : Current(row[r])
                 /\ \A d \in Days : Committed(d) <= PoolDay + PastOn(d)

\* What more is committed for a turn is what more it used past its reservations.
Covered(b, w) == \A d \in Days : w.on[d] - b.on[d] <= w.past[d] - b.past[d]

\* A book has an amount more on its day, and the same on the others.
LEMMA BookedOn ==
  ASSUME NEW days \in [Days -> Int], NEW d \in Days, NEW amount \in Int
  PROVE  \A e \in Days : Book(days, d, amount)[e] = days[e] + (IF e = d THEN amount ELSE 0)
  BY DEF Book

LEMMA SettledOn ==
  ASSUME today \in Days, NEW b \in Row
  PROVE  /\ Settled(b).past = b.past
         /\ \A d \in Days : Settled(b).on[d] =
              b.on[d] + (IF d = DayOf(b) THEN (b.used - b.charged) - (b.held - b.freed) ELSE 0)
<1> DEFINE more == (b.used - b.charged) - (b.held - b.freed)
           on == Book(b.on, DayOf(b), more)
<1>1. more \in Int /\ b.on \in [Days -> Int] /\ DayOf(b) \in Days BY ItsDay DEF Row
<1>2. \A d \in Days : on[d] = b.on[d] + (IF d = DayOf(b) THEN more ELSE 0)
  <2> HIDE DEF more
  <2> QED BY <1>1, BookedOn
<1>3. Settled(b) = [b EXCEPT !.on = on, !.charged = b.used, !.freed = b.held] BY DEF Settled
<1> HIDE DEF on
<1>4. Settled(b).on = on /\ Settled(b).past = b.past BY <1>3 DEF Row
<1> QED BY <1>2, <1>4

\* What is left of an attempt's reservation.
LeftOf(b) == IF b.before + b.cap - b.used >= 0 THEN b.before + b.cap - b.used ELSE 0

\* What is used past it is past it on the day of the reservation.
LEMMA UsedPast ==
  ASSUME today \in Days, NEW b \in Row, NEW amount \in Nat
  PROVE  /\ Used(b, amount).on = b.on /\ Used(b, amount).booked = b.booked
         /\ \A d \in Days : /\ Used(b, amount).past[d] >= b.past[d]
                            /\ d = DayOf(b) =>
                                 Used(b, amount).past[d] - b.past[d] >= amount - LeftOf(b)
<1> DEFINE over == Max({0, amount - LeftOf(b)})
           past == Book(b.past, DayOf(b), over)
<1>1. /\ b.before \in Nat /\ b.cap \in Int /\ b.used \in Nat /\ b.past \in [Days -> Nat]
      /\ DayOf(b) \in Days
  BY ItsDay DEF Row
<1>2. Max({0, b.before + b.cap - b.used}) = LeftOf(b) /\ LeftOf(b) \in Int
  BY <1>1, MaxOfTwo DEF LeftOf
<1>3. over \in Nat /\ over >= amount - LeftOf(b)
  <2>1. amount - LeftOf(b) \in Int BY <1>2
  <2> QED BY <2>1, MaxOfTwo
<1>4. Used(b, amount) = [b EXCEPT !.used = b.used + amount, !.reports = b.reports + 1,
                                  !.past = past]
  BY <1>2 DEF Used, Row
<1> HIDE DEF over
<1>5. \A d \in Days : past[d] = b.past[d] + (IF d = DayOf(b) THEN over ELSE 0)
  <2>1. b.past \in [Days -> Int] BY <1>1
  <2> QED BY <1>1, <1>3, <2>1, BookedOn
<1> HIDE DEF past
<1>6. Used(b, amount).on = b.on /\ Used(b, amount).booked = b.booked
      /\ Used(b, amount).past = past
  BY <1>4 DEF Row
<1> QED BY <1>1, <1>2, <1>3, <1>5, <1>6

\* A turn that is settled takes no more of a day than it had, if it was within its reservation.
LEMMA SettledWithin ==
  ASSUME today \in Days, NEW b \in Row, Exact(b), Current(b)
  PROVE  /\ Covered(b, Settled(b)) /\ Covered(b, Over(b))
         /\ Current(Over(b)) /\ Over(b).past = b.past
<1>1. /\ b.used \in Nat /\ b.charged \in Nat /\ b.held \in Nat /\ b.freed \in Nat /\ b.before \in Nat
      /\ b.cap \in Int /\ b.on \in [Days -> Int] /\ b.past \in [Days -> Nat]
  BY DEF Row
<1>2. (b.used - b.charged) - (b.held - b.freed) <= 0 BY <1>1 DEF Exact, Current
<1>3. Covered(b, Settled(b)) BY <1>1, <1>2, SettledOn DEF Covered
<1> DEFINE c == IF b.started THEN Settled(b) ELSE b
<1>4. c \in Row /\ Covered(b, c) /\ c.used = b.used /\ c.before = b.before /\ c.past = b.past
  <2>1. Covered(b, b) BY <1>1 DEF Covered
  <2> QED BY <1>3, <2>1, Settling, SettledOn
<1>5. Over(b) = [c EXCEPT !.st = "Over", !.cap = 0] BY DEF Over
<1> HIDE DEF c
<1>6. /\ Over(b).on = c.on /\ Over(b).past = c.past /\ Over(b).used = c.used
      /\ Over(b).before = c.before /\ Over(b).st = "Over" /\ Over(b).cap = 0
  BY <1>4, <1>5 DEF Row
<1>7. Covered(b, Over(b)) BY <1>4, <1>6 DEF Covered
<1>8. Current(Over(b)) BY <1>1, <1>4, <1>6 DEF Current, Exact
<1> QED BY <1>3, <1>4, <1>6, <1>7, <1>8

\* What a step of one turn does to the sums of a day.
LEMMA SumsOfADay ==
  ASSUME Inv, NEW r \in Runs, NEW w \in Row, row' = [row EXCEPT ![r] = w], NEW d \in Days
  PROVE  /\ Committed(d) \in Int /\ PastOn(d) \in Nat
         /\ Committed(d)' = Committed(d) + (w.on[d] - row[r].on[d])
         /\ PastOn(d)' = PastOn(d) + (w.past[d] - row[r].past[d])
<1> DEFINE on   == [q \in Runs |-> row[q].on[d]]
           past == [q \in Runs |-> row[q].past[d]]
           on2   == [q \in Runs |-> row'[q].on[d]]
           past2 == [q \in Runs |-> row'[q].past[d]]
<1>1. /\ row \in [Runs -> Row] /\ row' \in [Runs -> Row] /\ row'[r] = w
      /\ \A q \in Runs \ {r} : row'[q] = row[q]
  BY DEF Inv
<1>2. \A b \in Row : b.on[d] \in Int /\ b.past[d] \in Nat BY DEF Row
<1>3. /\ on \in [Runs -> Int] /\ on2 \in [Runs -> Int]
      /\ past \in [Runs -> Nat] /\ past \in [Runs -> Int] /\ past2 \in [Runs -> Int]
  BY <1>1, <1>2
<1>4. /\ on[r] = row[r].on[d] /\ on2[r] = w.on[d]
      /\ past[r] = row[r].past[d] /\ past2[r] = w.past[d]
      /\ \A q \in Runs \ {r} : on2[q] = on[q] /\ past2[q] = past[q]
  BY <1>1
<1>5. /\ Committed(d) = SumOver(on) /\ Committed(d)' = SumOver(on2)
      /\ PastOn(d) = SumOver(past) /\ PastOn(d)' = SumOver(past2)
  BY DEF Committed, PastOn
<1> HIDE DEF on, on2, past, past2
<1>6. SumOver(on) \in Int /\ SumOver(past) \in Nat BY <1>3, SumType
<1>7. SumOver(on2) = SumOver(on) + (on2[r] - on[r]) BY <1>3, <1>4, SumChange
<1>8. SumOver(past2) = SumOver(past) + (past2[r] - past[r]) BY <1>3, <1>4, SumChange
<1> QED BY <1>4, <1>5, <1>6, <1>7, <1>8

\* A handler that ran to its end, and committed no more than was covered, keeps within the pool.
LEMMA Pooling ==
  ASSUME Inv, Pooled, NEW r \in Runs, NEW whole \in Row, NEW cuts, Becomes(r, whole, cuts),
         crashes = 0 => Current(whole) /\ Covered(row[r], whole)
  PROVE  Pooled'
<1> SUFFICES ASSUME crashes' = 0
             PROVE  /\ \A q \in Runs : Current(row'[q])
                    /\ \A d \in Days : Committed(d)' <= PoolDay + PastOn(d)'
  BY DEF Pooled, Current
<1>1. crashes = 0 /\ row' = [row EXCEPT ![r] = whole] BY DEF Becomes, Inv
<1>2. \A q \in Runs : Current(row'[q]) BY <1>1 DEF Pooled, Inv
<1>3. ASSUME NEW d \in Days PROVE Committed(d)' <= PoolDay + PastOn(d)'
  <2>1. Committed(d) <= PoolDay + PastOn(d) BY <1>1 DEF Pooled
  <2>2. whole.on[d] - row[r].on[d] <= whole.past[d] - row[r].past[d] BY <1>1 DEF Covered
  <2>3. /\ whole.on[d] \in Int /\ row[r].on[d] \in Int /\ whole.past[d] \in Int
        /\ row[r].past[d] \in Int /\ PoolDay \in Int
    BY LedgerAssumption DEF Inv, Row
  <2>4. /\ Committed(d) \in Int /\ PastOn(d) \in Nat
        /\ Committed(d)' = Committed(d) + (whole.on[d] - row[r].on[d])
        /\ PastOn(d)' = PastOn(d) + (whole.past[d] - row[r].past[d])
    BY <1>1, SumsOfADay
  <2> QED BY <2>1, <2>2, <2>3, <2>4
<1> QED BY <1>2, <1>3

LEMMA LaunchPools == ASSUME Inv, Pooled, NEW r \in Runs, Launch(r) PROVE Pooled'
<1>1. PICK amount \in Amounts :
        LET a == Reserved(row[r], amount)
        IN  Becomes(r, [a EXCEPT !.st = "Running", !.started = TRUE, !.cap = amount,
                                 !.attempts = @ + 1], {a})
  BY DEF Launch
<1> DEFINE b == row[r]
           a == Reserved(b, amount)
           w == [a EXCEPT !.st = "Running", !.started = TRUE, !.cap = amount, !.attempts = @ + 1]
<1>2. amount \in 0..Most /\ amount \in Nat /\ (amount = 0 \/ amount <= PoolLeft)
  BY LedgerAssumption DEF Amounts
<1>3. /\ today \in Days /\ b \in Row /\ b.st = "Queued"
      /\ crashes = 0 => Exact(b)
  BY DEF Inv, Launch
<1>4. a \in Row /\ a.used = b.used /\ a.charged = b.charged /\ a.before = b.used
  BY <1>2, <1>3, Reserving
<1>5. a.past = b.past /\ a.on = Book(b.on, today, amount) BY <1>3 DEF Reserved, Row
<1>6. Becomes(r, w, {a}) BY <1>1
<1> HIDE DEF a
<1>7. w \in Row
  <2>1. a.attempts + 1 \in Nat BY <1>4 DEF Row
  <2> QED BY <1>2, <1>4, <2>1 DEF Row
<1>8. /\ w.st = "Running" /\ w.used = b.used /\ w.charged = b.charged /\ w.before = b.used
      /\ w.on = Book(b.on, today, amount) /\ w.past = b.past
  BY <1>4, <1>5 DEF Row
<1> HIDE DEF w
<1>9. /\ b.used \in Nat /\ b.on \in [Days -> Int] /\ b.past \in [Days -> Nat]
  BY <1>3 DEF Row
<1>10. \A d \in Days : w.on[d] = b.on[d] + (IF d = today THEN amount ELSE 0)
  <2>1. amount \in Int BY <1>2
  <2> QED BY <1>3, <1>8, <1>9, <2>1, BookedOn
<1>11. crashes = 0 => Current(w) BY <1>3, <1>8, <1>9 DEF Exact, Current
<1>12. CASE amount = 0
  <2>1. Covered(b, w) BY <1>8, <1>9, <1>10, <1>12 DEF Covered
  <2> QED BY <1>6, <1>7, <1>11, <2>1, Pooling
<1>13. CASE amount <= PoolLeft
  <2> SUFFICES ASSUME crashes' = 0
               PROVE  /\ \A q \in Runs : Current(row'[q])
                      /\ \A d \in Days : Committed(d)' <= PoolDay + PastOn(d)'
    BY DEF Pooled, Current
  <2>1. crashes = 0 /\ row' = [row EXCEPT ![r] = w] BY <1>6 DEF Becomes, Inv
  <2>2. \A q \in Runs : Current(row'[q]) BY <1>11, <2>1 DEF Pooled, Inv
  <2>3. ASSUME NEW d \in Days PROVE Committed(d)' <= PoolDay + PastOn(d)'
    <3>1. /\ Committed(d) \in Int /\ PastOn(d) \in Nat
          /\ Committed(d)' = Committed(d) + (w.on[d] - b.on[d])
          /\ PastOn(d)' = PastOn(d) + (w.past[d] - b.past[d])
      BY <1>7, <2>1, SumsOfADay
    <3>2. w.past[d] - b.past[d] = 0 /\ b.on[d] \in Int /\ b.past[d] \in Int BY <1>8, <1>9
    <3>3. Committed(d) <= PoolDay + PastOn(d) BY <2>1 DEF Pooled
    <3>4. PoolDay \in Nat BY LedgerAssumption
    <3>5. CASE d = today
      <4>1. amount <= PoolDay - Committed(d) BY <1>13, <3>5 DEF PoolLeft
      <4>2. w.on[d] - b.on[d] = amount BY <1>2, <1>10, <3>2, <3>5
      <4> QED BY <1>2, <3>1, <3>2, <3>4, <4>1, <4>2
    <3>6. CASE d # today
      <4>1. w.on[d] - b.on[d] = 0 BY <1>10, <3>2, <3>6
      <4> QED BY <3>1, <3>2, <3>3, <3>4, <4>1
    <3> QED BY <3>5, <3>6
  <2> QED BY <2>2, <2>3
<1> QED BY <1>2, <1>12, <1>13

LEMMA EndPools ==
  ASSUME Inv, Pooled, NEW r \in Runs, End(r) \/ Fail(r) \/ Requeue(r) PROVE Pooled'
<1> DEFINE b == row[r]
           s == Settled(b)
           w == [s EXCEPT !.st = "RetryWaiting", !.cap = 0]
           q == [b EXCEPT !.st = "Queued"]
<1>1. /\ today \in Days /\ b \in Row /\ Sound(b) /\ 0 \in 0..Most
      /\ crashes = 0 => Exact(b) /\ Current(b)
  BY LedgerAssumption DEF Inv, Pooled
<1>2. b.used \in Nat /\ b.on \in [Days -> Int] /\ b.past \in [Days -> Nat] BY <1>1 DEF Row
<1>3. CASE End(r)
  <2>1. Becomes(r, Over(b), {IF b.started THEN Settled(b) ELSE b}) BY <1>3 DEF End
  <2>2. Over(b) \in Row BY <1>1, Ending DEF Sound
  <2>3. crashes = 0 => Current(Over(b)) /\ Covered(b, Over(b)) BY <1>1, SettledWithin
  <2> QED BY <2>1, <2>2, <2>3, Pooling
<1>4. CASE Fail(r)
  <2>1. Becomes(r, w, {s}) BY <1>4 DEF Fail
  <2>2. /\ s \in Row /\ s.used = b.used /\ s.before = b.before
        /\ crashes = 0 => Covered(b, s)
    BY <1>1, Settling, SettledWithin
  <2> HIDE DEF s
  <2>3. /\ w \in Row /\ w.st = "RetryWaiting" /\ w.cap = 0 /\ w.used = s.used
        /\ w.before = s.before /\ w.on = s.on /\ w.past = s.past
    BY <1>1, <2>2 DEF Row
  <2> HIDE DEF w
  <2>4. crashes = 0 => Current(w) /\ Covered(b, w) BY <1>1, <2>2, <2>3 DEF Current, Covered
  <2> QED BY <2>1, <2>3, <2>4, Pooling
<1>5. CASE Requeue(r)
  <2>1. Becomes(r, q, {}) /\ b.st = "RetryWaiting" BY <1>5 DEF Requeue, Becomes
  <2>2. /\ q \in Row /\ q.st = "Queued" /\ q.cap = b.cap /\ q.used = b.used
        /\ q.before = b.before /\ q.on = b.on /\ q.past = b.past
    BY <1>1 DEF Row
  <2> HIDE DEF q
  <2>3. crashes = 0 => Current(q) /\ Covered(b, q)
    BY <1>1, <1>2, <2>1, <2>2 DEF Current, Covered
  <2> QED BY <2>1, <2>2, <2>3, Pooling
<1> QED BY <1>3, <1>4, <1>5

\* A report takes nothing of the day, unless it stops its turn: then what is charged beyond the
\* reservation was used past it.
LEMMA ReportPools ==
  ASSUME Inv, Pooled, NEW r \in Runs, NEW amount \in 0..Most, Report(r, amount)
  PROVE  Pooled'
<1> DEFINE b == row[r]
           u == Used(b, amount)
           s == Spent(u, amount)
<1>1. /\ today \in Days /\ b \in Row /\ Sound(b) /\ b.st = "Running" /\ amount \in Nat
      /\ crashes = 0 => Exact(b) /\ Current(b)
      /\ IF Crossed(s) THEN Becomes(r, Over(s), {u, s, Settled(s)}) ELSE Becomes(r, s, {u})
  BY LedgerAssumption DEF Inv, Pooled, Report
<1>2. /\ b.used \in Nat /\ b.charged \in Nat /\ b.held \in Nat /\ b.freed \in Nat /\ b.before \in Nat
      /\ b.cap \in Int /\ b.on \in [Days -> Int] /\ b.past \in [Days -> Nat] /\ DayOf(b) \in Days
  BY <1>1, ItsDay DEF Row
<1> HIDE DEF b
<1>3. /\ u \in Row /\ u.used = b.used + amount /\ u.charged = b.charged /\ u.held = b.held
      /\ u.freed = b.freed /\ u.st = b.st /\ u.started = b.started /\ u.before = b.before
  BY <1>1, Using
<1>4. /\ s \in Row /\ s.used = u.used /\ s.charged = u.charged /\ s.held = u.held
      /\ s.freed = u.freed /\ s.st = u.st /\ s.started = u.started /\ s.before = u.before
  BY <1>1, <1>3, Telling
<1>5. s.on = u.on /\ s.past = u.past /\ s.booked = u.booked BY <1>3 DEF Spent, Row
<1>6. /\ u.on = b.on /\ u.booked = b.booked
      /\ \A d \in Days : /\ u.past[d] >= b.past[d]
                         /\ d = DayOf(b) => u.past[d] - b.past[d] >= amount - LeftOf(b)
  BY <1>1, UsedPast
<1>7. u.past \in [Days -> Nat] BY <1>3 DEF Row
<1> HIDE DEF u, s
<1>8. CASE ~Crossed(s)
  <2>1. Becomes(r, s, {u}) BY <1>1, <1>8
  <2>2. ASSUME crashes = 0 PROVE Current(s) /\ Covered(b, s)
    <3>1. Current(s) BY <1>1, <1>2, <1>3, <1>4, <2>2 DEF Current
    <3>2. Covered(b, s) BY <1>2, <1>5, <1>6, <1>7, <2>2 DEF Covered
    <3> QED BY <3>1, <3>2
  <2> QED BY <1>4, <2>1, <2>2, Pooling DEF b
<1>9. CASE Crossed(s)
  <2>1. Becomes(r, Over(s), {u, s, Settled(s)}) BY <1>1, <1>9
  <2>2. s.started BY <1>1, <1>3, <1>4 DEF Sound
  <2> DEFINE c == Settled(s)
  <2>3. c \in Row /\ c.used = s.used /\ c.before = s.before BY <1>1, <1>4, Settling
  <2>4. /\ c.past = s.past
        /\ \A d \in Days : c.on[d] =
             s.on[d] + (IF d = DayOf(s) THEN (s.used - s.charged) - (s.held - s.freed) ELSE 0)
    BY <1>1, <1>4, SettledOn
  <2>5. Over(s) = [c EXCEPT !.st = "Over", !.cap = 0] BY <2>2 DEF Over
  <2> HIDE DEF c
  <2>6. /\ Over(s) \in Row /\ Over(s).on = c.on /\ Over(s).past = c.past
        /\ Over(s).used = c.used /\ Over(s).before = c.before /\ Over(s).st = "Over"
        /\ Over(s).cap = 0
    <3>1. 0 \in 0..Most BY LedgerAssumption
    <3> QED BY <2>3, <2>5, <3>1 DEF Row
  <2>7. ASSUME crashes = 0 PROVE Current(Over(s)) /\ Covered(b, Over(s))
    <3>1. Current(Over(s)) BY <1>1, <1>2, <1>3, <1>4, <2>3, <2>6, <2>7 DEF Current
    <3>2. (s.used - s.charged) - (s.held - s.freed) = b.used + amount - b.before - b.cap
      BY <1>1, <1>2, <1>3, <1>4, <2>7 DEF Exact, Current
    <3>3. DayOf(s) = DayOf(b) BY <1>5, <1>6, <2>7 DEF DayOf
    <3>4. ASSUME NEW d \in Days
          PROVE  Over(s).on[d] - b.on[d] <= Over(s).past[d] - b.past[d]
      <4>1. /\ Over(s).past[d] = u.past[d] /\ u.past[d] \in Nat /\ b.past[d] \in Nat
            /\ b.on[d] \in Int
        BY <1>2, <1>5, <1>7, <2>4, <2>6
      <4>2. Over(s).on[d] = b.on[d] + (IF d = DayOf(b) THEN b.used + amount - b.before - b.cap ELSE 0)
        BY <1>5, <1>6, <2>4, <2>6, <2>7, <3>2, <3>3
      <4>3. LeftOf(b) = b.before + b.cap - b.used BY <1>1, <1>2, <2>7 DEF Exact, LeftOf
      <4> QED BY <1>1, <1>2, <1>6, <4>1, <4>2, <4>3
    <3> QED BY <3>1, <3>4 DEF Covered
  <2> QED BY <2>1, <2>6, <2>7, Pooling DEF b
<1> QED BY <1>8, <1>9

\* A late report has no reservation: all of it is past it, and charged.
LEMMA LatePools ==
  ASSUME Inv, Pooled, NEW r \in Runs, NEW amount \in 1..Most, Late(r, amount)
  PROVE  Pooled'
<1> DEFINE b == row[r]
           u == Used(b, amount)
           t == Settled(u)
           s == Spent(t, amount)
<1>1. /\ today \in Days /\ b \in Row /\ b.st # "Running" /\ amount \in Nat
      /\ crashes = 0 => Exact(b) /\ Current(b)
      /\ Becomes(r, s, {u, t})
  BY LedgerAssumption DEF Inv, Pooled, Late
<1>2. /\ b.used \in Nat /\ b.charged \in Nat /\ b.held \in Nat /\ b.freed \in Nat /\ b.before \in Nat
      /\ b.cap \in Int /\ b.on \in [Days -> Int] /\ b.past \in [Days -> Nat]
  BY <1>1 DEF Row
<1> HIDE DEF b
<1>3. /\ u \in Row /\ u.used = b.used + amount /\ u.charged = b.charged /\ u.held = b.held
      /\ u.freed = b.freed /\ u.st = b.st /\ u.before = b.before /\ u.cap = b.cap
  BY <1>1, Using
<1>4. /\ u.on = b.on /\ u.booked = b.booked /\ u.past \in [Days -> Nat]
      /\ \A d \in Days : /\ u.past[d] >= b.past[d]
                         /\ d = DayOf(b) => u.past[d] - b.past[d] >= amount - LeftOf(b)
  BY <1>1, <1>3, UsedPast DEF Row
<1>5. /\ t \in Row /\ t.used = u.used /\ t.before = u.before /\ t.cap = u.cap /\ t.st = u.st
      /\ t.past = u.past
      /\ \A d \in Days : t.on[d] =
           u.on[d] + (IF d = DayOf(u) THEN (u.used - u.charged) - (u.held - u.freed) ELSE 0)
  BY <1>1, <1>3, Settling, SettledOn
<1>6. /\ s \in Row /\ s.used = t.used /\ s.before = t.before /\ s.cap = t.cap /\ s.st = t.st
      /\ s.on = t.on /\ s.past = t.past
  BY <1>1, <1>5, Telling DEF Spent, Row
<1> HIDE DEF u, t, s
<1>7. ASSUME crashes = 0 PROVE Current(s) /\ Covered(b, s)
  <2>1. Current(s) BY <1>1, <1>2, <1>3, <1>5, <1>6, <1>7 DEF Current
  <2>2. (u.used - u.charged) - (u.held - u.freed) = amount BY <1>1, <1>2, <1>3, <1>7 DEF Exact
  <2>3. DayOf(u) = DayOf(b) BY <1>4 DEF DayOf
  <2>4. LeftOf(b) = 0 BY <1>1, <1>2, <1>7 DEF Current, LeftOf
  <2>5. ASSUME NEW d \in Days PROVE s.on[d] - b.on[d] <= s.past[d] - b.past[d]
    <3>1. /\ s.past[d] = u.past[d] /\ u.past[d] \in Nat /\ b.past[d] \in Nat /\ b.on[d] \in Int
      BY <1>2, <1>4, <1>5, <1>6
    <3>2. s.on[d] = b.on[d] + (IF d = DayOf(b) THEN amount ELSE 0)
      BY <1>4, <1>5, <1>6, <2>2, <2>3
    <3> QED BY <1>1, <1>4, <2>4, <3>1, <3>2
  <2> QED BY <2>1, <2>5 DEF Covered
<1> QED BY <1>1, <1>6, <1>7, Pooling DEF b

LEMMA PooledInit == Init => Pooled
<1> SUFFICES ASSUME Init PROVE Pooled OBVIOUS
<1>1. /\ \A r \in Runs : row[r] = NewRow
      /\ NewRow.before = 0 /\ NewRow.used = 0 /\ NewRow.st = "Queued" /\ NewRow.cap = 0
      /\ \A d \in Days : NewRow.on[d] = 0 /\ NewRow.past[d] = 0
  BY DEF Init, NewRow
<1>2. \A r \in Runs : Current(row[r]) BY <1>1 DEF Current
<1>3. ASSUME NEW d \in Days PROVE Committed(d) <= PoolDay + PastOn(d)
  <2> DEFINE none == [r \in Runs |-> 0]
  <2>1. Committed(d) = SumOver(none) /\ PastOn(d) = SumOver(none)
    <3>1. [r \in Runs |-> row[r].on[d]] = none /\ [r \in Runs |-> row[r].past[d]] = none
      BY <1>1
    <3> QED BY <3>1 DEF Committed, PastOn
  <2>2. SumOver(none) \in Int
    <3>1. none \in [Runs -> Int] OBVIOUS
    <3> HIDE DEF none
    <3> QED BY <3>1, SumType
  <2>3. PoolDay \in Nat BY LedgerAssumption
  <2> QED BY <2>1, <2>2, <2>3
<1> QED BY <1>2, <1>3 DEF Pooled

LEMMA PooledNext == Inv /\ Pooled /\ [Next]_vars => Pooled'
<1> SUFFICES ASSUME Inv, Pooled, [Next]_vars PROVE Pooled' OBVIOUS
<1>1. ASSUME NEW r \in Runs, Launch(r) \/ End(r) \/ Fail(r) \/ Requeue(r) PROVE Pooled'
  BY <1>1, LaunchPools, EndPools
<1>2. ASSUME NEW r \in Runs, NEW amount \in 0..Most, Report(r, amount) PROVE Pooled'
  BY <1>2, ReportPools
<1>3. ASSUME NEW r \in Runs, NEW amount \in 1..Most, Late(r, amount) PROVE Pooled'
  BY <1>3, LatePools
<1>4. CASE Midnight \/ UNCHANGED vars
  <2>1. row' = row /\ crashes' = crashes BY <1>4 DEF Midnight, vars
  <2> QED BY <2>1 DEF Pooled, Current, Committed, PastOn
<1> QED BY <1>1, <1>2, <1>3, <1>4 DEF Next

LEMMA PooledAlways == Spec => [](Inv /\ Pooled)
<1> QED BY InvInit, InvNext, PooledInit, PooledNext, PTL DEF Spec

---------------------------------------------------------------------------
\* No handler, whole or cut short, makes a row the books could not hold.
THEOREM TypesKept == Spec => []TypeOK
<1>1. Inv => TypeOK BY DEF Inv, TypeOK
<1> QED BY <1>1, Always, PTL

\* Settling is idempotent where it matters: however often a turn is settled, and wherever HQ died
\* before, nothing is charged or released twice (infrastructure/sqlite/runs.rs, settle).
THEOREM NothingIsBookedTwice == Spec => []NothingTwice
<1>1. Inv => NothingTwice BY DEF Inv, Sound, NothingTwice
<1> QED BY <1>1, Always, PTL

\* A turn that ran and is over holds nothing of any pool, wherever HQ died on the way
\* (engine/running.rs, end).
THEOREM OverHoldsNothing == Spec => []FreedWhenOver
<1>1. Inv => FreedWhenOver BY DEF Inv, Sound, FreedWhenOver
<1> QED BY <1>1, Always, PTL

\* While HQ lives, what a turn used is charged exactly and its reservation held exactly while it
\* runs, through failures, retries, late calls and stops.
THEOREM TheBooksBalance == Spec => []BooksBalance
<1>1. Inv => BooksBalance
  <2> SUFFICES ASSUME Inv, crashes = 0, NEW r \in Runs
               PROVE  IF row[r].st = "Running" THEN row[r].held - row[r].freed = row[r].cap
                      ELSE row[r].charged = row[r].used /\ row[r].freed = row[r].held
    BY DEF BooksBalance
  <2> QED BY DEF Inv, Exact
<1> QED BY <1>1, Always, PTL

\* While HQ lives, a turn that goes on has spent no more in its attempt than the attempt
\* reserved (engine.rs, report_usage).
THEOREM WithinTheReservation == Spec => []NeverPastReservation
<1>1. Inv => NeverPastReservation BY DEF Inv, Exact, NeverPastReservation
<1> QED BY <1>1, Always, PTL
\* While HQ lives, a day never commits more than its pool, but for what calls cost past their turns'
\* reservations, however many turns reserve from it, fail, are tried again, report late or cross
\* midnight (domain/money.rs, reservation; engine.rs, affordable).
THEOREM TheDayIsWithinItsPool == Spec => []DayWithinThePool
<1>1. Inv /\ Pooled => DayWithinThePool BY DEF Pooled, DayWithinThePool
<1> QED BY <1>1, PooledAlways, PTL
=============================================================================
