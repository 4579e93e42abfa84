------------------------------- MODULE Loops -------------------------------
(***************************************************************************)
(* An item of a loop, from its hand-out to its end: handed to a member,    *)
(* worked, submitted and checked, reviewed by another, sent back, failed,  *)
(* climbing a rank at its third failure, held for a member who is away,    *)
(* let go by one who pauses, blocked for the owner, dropped                *)
(* (domains/team/src/application/engine/loops.rs, and what of engine.rs,   *)
(* wing.rs, evidence.rs, handover.rs, running.rs moves it).  Every handler *)
(* holds the engine's lock, so each is one action; how turns are queued,   *)
(* retried and paid for is the module Turns'.                              *)
(***************************************************************************)
EXTENDS Wakes, Sequences

CONSTANTS
  Members,    \* those of the loops
  Rank,       \* each one's rank, 1 the most able: a function on Members
  Macs,       \* those that think with the Mac
  StartRank,  \* the loop's starting rank
  FailuresARank,  \* how many failures at a rank hand it on
  MaxSpare,   \* how often somebody does what need not be done
  Nobody      \* no member

\* What the constants must be.
ConstantsFit ==
  /\ Nobody \notin Members /\ Macs \subseteq Members
  /\ \A m \in Members : Rank[m] \in Nat \ {0}
  /\ StartRank \in Nat /\ FailuresARank \in Nat \ {0} /\ MaxSpare \in Nat

VARIABLES
  it,     \* the item, its turn and its wakes
  away,   \* who is not here: "paused" by the owner, or "away" with the Mac
  spare   \* how often somebody did what need not be done

vars == <<it, away, spare>>

CappedAt == 3

NoTurn == [who |-> Nobody, why |-> "none", at |-> "none"]

NewItem ==
    [status   |-> "todo",
    owner    |-> Nobody,    \* the member working it
    assignee |-> Nobody,    \* the member it was handed to
    fails    |-> 0,         \* its failures at this rank
    heldFor  |-> Nobody,    \* its holder, when it waits for one above
    over     |-> {},        \* the reviewers passed over
    hands    |-> {},        \* who had a hand in it
    gate     |-> "none",    \* of its newest head
    head     |-> Nobody,    \* who submitted that head
    check    |-> Nobody,    \* who asked for the check of it that is to report
    turn     |-> NoTurn,    \* its one live turn
    waits    |-> <<>>,      \* the wakes held behind it
    older    |-> FALSE,     \* whether a check of an older head is to report
    passed   |-> FALSE,     \* whether this head's newest check passed
    failed   |-> FALSE,     \* whether its last turn failed for good
    nudged   |-> FALSE,
    asked    |-> "no",      \* the item's newest card on the owner's desk
    by       |-> Nobody]    \* who closed it

Init ==
  /\ it = NewItem
  /\ away = [m \in Members |-> "here"]
  /\ spare = 0

---------------------------------------------------------------------------
(* Who.                                                                    *)

Holder(i) == IF i.owner # Nobody THEN i.owner ELSE i.assignee
AtWork == {m \in Members : away[m] # "paused"}
Team == {m \in AtWork : away[m] # "away"}
LoopHolds(i) == Holder(i) \in AtWork
Finished(i) == i.status \in {"done", "dropped"}

\* Those of `ms` nearest above a rank, and nearest below it.
Above(ms, rank) == {m \in ms : Rank[m] < rank /\ \A o \in ms : Rank[o] < rank => Rank[o] <= Rank[m]}
Below(ms, rank) == {m \in ms : Rank[m] > rank /\ \A o \in ms : Rank[o] > rank => Rank[m] <= Rank[o]}
FirstOf(sets) ==
  LET some == {n \in DOMAIN sets : sets[n] # {}} IN
  IF some = {} THEN Nobody ELSE CHOOSE m \in sets[CHOOSE n \in some : \A k \in some : n <= k] : TRUE

\* Who reviews it: nobody who had a hand in it, nor one passed over; never above the cap while
\* there is another.  (Mutant: one who had a hand in it.)
ReviewerAmong(worker, ms) ==
  LET rank == Rank[worker]  others == ms \ {worker} IN
  IF rank > CappedAt
    THEN FirstOf(<<Above({m \in others : Rank[m] >= CappedAt}, rank), Below(others, rank),
                   Above(others, rank)>>)
    ELSE FirstOf(<<{m \in others : Rank[m] = CappedAt}, Below(others, CappedAt),
                   Above(others, CappedAt)>>)

ReviewerAnyHand(i) ==
  IF ~LoopHolds(i) THEN Nobody
  ELSE ReviewerAmong(Holder(i), {m \in AtWork : m = Holder(i) \/ m \notin i.over})

Reviewer(i) ==
  IF ~LoopHolds(i) THEN Nobody
  ELSE ReviewerAmong(Holder(i), {m \in AtWork : m = Holder(i) \/ m \notin i.over \cup i.hands})

---------------------------------------------------------------------------
(* A wake on the item, and the wakes held behind its turn.                 *)

Situation(i, m, why) ==
  [stopped |-> FALSE, furloughed |-> FALSE, nothingToDo |-> FALSE, projectPaused |-> FALSE,
   wokenForNothing |-> FALSE, aboutATask |-> TRUE,
   paused |-> away[m] = "paused",
   waitsForReview |-> why \notin ReachesReview /\ i.status = "in_review" /\ Holder(i) = m,
   blockedForTheOwner |-> i.status = "blocked" /\ why \notin ReachesBlockedItem,
   alreadyHeld |-> \E n \in DOMAIN i.waits : i.waits[n].who = m,
   live |-> IF i.turn = NoTurn THEN {}
            ELSE {[run |-> 1, member |-> i.turn.who, foldable |-> TRUE]}]

Queued(i, m, why) == [i EXCEPT !.turn = [who |-> m, why |-> why, at |-> "queued"]]

Wake(i, m, why) ==
  LET said == Decide(m, Situation(i, m, why)) IN
  CASE said = "Queue" -> Queued(i, m, why)
    [] said = "Hold"  -> [i EXCEPT !.waits = Append(@, [who |-> m, why |-> why])]
    [] OTHER -> i

\* (Mutant: it is queued as it was decided.)
ReleaseAsItWas(i) ==
  IF i.waits = <<>> THEN i
  ELSE Queued([i EXCEPT !.waits = Tail(@)], Head(i.waits).who, Head(i.waits).why)

\* The oldest held wake is decided again, as if it were not held itself.
ReleaseHeld(i) ==
  IF i.waits = <<>> THEN i
  ELSE LET w == Head(i.waits)  rest == [i EXCEPT !.waits = Tail(@)]
           said == Decide(w.who, [Situation(i, w.who, w.why) EXCEPT !.alreadyHeld = FALSE]) IN
       CASE said = "Queue" -> Queued(rest, w.who, w.why)
         [] said = "Hold"  -> i
         [] OTHER -> rest

\* The owner is asked about it, or to read it.
Ask(i) == [i EXCEPT !.asked = "waiting"]
ToRead(i) == [i EXCEPT !.asked = "to_read"]

---------------------------------------------------------------------------
(* A failure.                                                              *)

Climb(i, up) ==
  Wake([i EXCEPT !.owner = Nobody, !.assignee = up, !.status = "todo", !.by = Nobody], up, "Assigned")

HoldFor(i) == [i EXCEPT !.heldFor = Holder(i), !.owner = Nobody, !.status = "todo", !.by = Nobody]

BlockIt(i) == Ask([i EXCEPT !.owner = Nobody, !.assignee = Nobody, !.status = "blocked", !.by = Nobody])

\* One of the item's failures: the third at a rank hands it one rank up.  (Mutant: its failures
\* are not counted anew there.)
OneRankUp(ms, i) == FirstOf(<<Above(ms, Rank[Holder(i)])>>)

FailedKeepsCount(i) ==
  IF ~LoopHolds(i) \/ i.heldFor # Nobody THEN i
  ELSE LET f == [i EXCEPT !.fails = @ + 1] IN
       IF f.fails < FailuresARank THEN f
       ELSE IF OneRankUp(Team, i) # Nobody THEN Climb(f, OneRankUp(Team, i))
       ELSE IF OneRankUp(AtWork, i) # Nobody THEN HoldFor(f)
       ELSE BlockIt(f)

Failed(i) ==
  IF ~LoopHolds(i) \/ i.heldFor # Nobody THEN i
  ELSE IF i.fails + 1 < FailuresARank THEN [i EXCEPT !.fails = @ + 1]
  ELSE LET f == [i EXCEPT !.fails = 0] IN
       IF OneRankUp(Team, i) # Nobody THEN Climb(f, OneRankUp(Team, i))
       ELSE IF OneRankUp(AtWork, i) # Nobody THEN HoldFor(f)
       ELSE BlockIt(f)

---------------------------------------------------------------------------
(* A turn on the item.                                                     *)

\* Continued, Recovery and AssignmentRecovery are woken for as Assigned is, CheckDone as SentBack.
WorkReasons == {"Assigned", "SentBack"}
Me == it.turn.who
Runs == it.turn.at = "running"
Mine == Runs /\ it.owner = Me

Spares == spare < MaxSpare /\ spare' = spare + 1

\* Ends the turn, whatever the item became meanwhile.
Over(i) == ReleaseHeld([i EXCEPT !.turn = NoTurn])

Begin ==
  /\ it.turn.at = "queued"
  /\ IF Finished(it) THEN it' = Over(it)
     ELSE /\ away[Me] = "here"
          /\ it' = [it EXCEPT !.turn.at = "started",
                              !.hands = IF it.turn.why \in WorkReasons THEN @ \cup {Me} ELSE @]
  /\ UNCHANGED <<away, spare>>

\* The worker claims the item before anything else.
Claim ==
  /\ it.turn.at = "started"
  /\ it' = LET on == [it EXCEPT !.turn.at = "running"] IN
           IF Finished(it) \/ it.owner \notin {Nobody, Me} THEN on
           ELSE [on EXCEPT !.owner = Me, !.status = IF @ = "todo" THEN "doing" ELSE @]
  /\ UNCHANGED <<away, spare>>

\* A branch at a new head: the gate waits for its own check, and a review is void.
Submit ==
  /\ Runs
  /\ IF it.gate # "open" /\ it.check = Nobody /\ it.turn.why \in WorkReasons
     THEN UNCHANGED spare ELSE Spares
  /\ it' = [it EXCEPT !.gate = "shut", !.head = Me, !.check = Me, !.hands = @ \cup {Me},
                      !.older = @ \/ it.check # Nobody, !.passed = FALSE,
                      !.status = IF @ = "in_review" THEN "doing" ELSE @]
  /\ UNCHANGED away

Recheck ==
  /\ Runs /\ it.gate # "none" /\ it.check = Nobody
  /\ it' = [it EXCEPT !.check = Me]
  /\ Spares /\ UNCHANGED away

\* The review of it is asked for afresh.  A branch that touches what it must not goes back at
\* once.
AskReview(i, forbidden) ==
  LET anew == [i EXCEPT !.over = {}] IN
  IF forbidden THEN Failed(Wake([anew EXCEPT !.status = "doing"], Holder(i), "SentBack"))
  ELSE IF Reviewer(anew) # Nobody THEN Wake(anew, Reviewer(anew), "ReviewRequested")
  ELSE ToRead(anew)
Forbidden == IF it.gate = "none" THEN {FALSE} ELSE BOOLEAN

Ready ==
  /\ Mine /\ it.status = "doing"
  /\ \E forbidden \in Forbidden : it' = AskReview([it EXCEPT !.status = "in_review"], forbidden)
  /\ UNCHANGED <<away, spare>>

BlockOwn ==
  /\ Mine /\ it.status = "doing"
  /\ it' = Ask([it EXCEPT !.status = "blocked"])
  /\ UNCHANGED <<away, spare>>

HandBack ==
  /\ Mine /\ it.status = "doing"
  /\ it' = [it EXCEPT !.status = "todo", !.owner = Nobody]
  /\ Spares /\ UNCHANGED away

TakeUp ==
  /\ Mine /\ it.status \in {"todo", "blocked", "in_review"}
  /\ it' = [it EXCEPT !.status = "doing"]
  /\ (IF it.status = "todo" THEN UNCHANGED spare ELSE Spares) /\ UNCHANGED away

\* A verdict, by its reviewer alone.
Judges == Runs /\ it.status = "in_review" /\ Me = Reviewer(it) /\ Holder(it) # Me

Pass ==
  /\ Judges /\ it.gate # "shut" /\ it.owner # Me
  /\ it' = [it EXCEPT !.status = "done", !.by = Me]
  /\ UNCHANGED <<away, spare>>

\* Its worker is woken, and then it is a failure.
SendBack ==
  /\ Judges
  /\ it' = Failed(Wake([it EXCEPT !.status = "doing"], Holder(it), "SentBack"))
  /\ UNCHANGED <<away, spare>>

---------------------------------------------------------------------------
(* The end of a turn.                                                      *)

\* What a turn that showed nothing, again, costs the item: once a member, one of its failures.
NothingShown(i, m) ==
  IF Holder(i) = m /\ ~Finished(i) /\ i.status # "in_review" /\ LoopHolds(i)
    THEN {i, Failed(i)} ELSE {i}

\* A turn that ran out of room goes on in a fresh one, or that is a failure too; a review goes
\* on, or the owner is asked.
RanOut(i, m) ==
  IF i.status = "in_review" /\ Reviewer(i) = m THEN {Wake(i, m, "ReviewRequested"), Ask(i)}
  ELSE IF Holder(i) = m /\ ~Finished(i) /\ i.status # "in_review" /\ LoopHolds(i)
    THEN LET f == Failed(i) IN
         {Wake(i, m, "Assigned"),
          IF Holder(f) = m /\ f.heldFor = Nobody THEN Wake(f, m, "Assigned") ELSE f}
  ELSE {i}

\* A review that ended with neither verdict: its reviewer is passed over.  (Mutant: nobody is.)
AfterNoReview(i, m, why) == i

AfterReview(i, m, why) ==
  IF why = "ReviewRequested" /\ i.status = "in_review" /\ Reviewer(i) = m
    THEN LET o == [i EXCEPT !.over = @ \cup {m}] IN
         IF Reviewer(o) = Nobody THEN Ask(o) ELSE Wake(o, Reviewer(o), "ReviewRequested")
    ELSE i

\* It showed something, or nothing, or ran out of room, or failed for good.
End(how) ==
  /\ Runs \/ (it.turn.at = "started" /\ how = "failed")
  /\ IF how \in {"shown", "nothing"} /\ (it.turn.why = "ReviewRequested" \/ how = "nothing")
     THEN UNCHANGED spare ELSE IF how = "shown" /\ it.status # "doing" THEN UNCHANGED spare ELSE Spares
  /\ LET i == Over([it EXCEPT !.failed = how = "failed",
                              !.nudged = IF how = "shown" THEN FALSE ELSE @]) IN
     CASE how = "shown"   -> it' = AfterReview(i, Me, it.turn.why)
       [] how = "nothing" -> \E n \in NothingShown(i, Me) : it' = AfterReview(n, Me, it.turn.why)
       [] how = "room"    -> it' \in RanOut(i, Me)
       [] how = "failed"  -> it' = i
  /\ UNCHANGED away

\* HQ dies between two writes of a turn's end: the turn is saved as over, and what comes after is
\* not done, or only the held wake is let go.
EndCut ==
  /\ Runs
  /\ LET i == [it EXCEPT !.turn = NoTurn, !.failed = FALSE] IN it' \in {i, ReleaseHeld(i)}
  /\ Spares /\ UNCHANGED away

---------------------------------------------------------------------------
(* HQ: the check's report, the tick, the owner.                            *)

CheckReports(ok) ==
  /\ it.check # Nobody
  /\ LET f == IF ok THEN it ELSE Failed(it)
         r == [f EXCEPT !.gate = IF ok THEN "open" ELSE "shut", !.check = Nobody, !.passed = ok]
         told(i) == IF it.check # it.head /\ it.check \in AtWork
                      THEN Wake(i, it.check, "SentBack") ELSE i
     IN it' = IF ~ok /\ r.status = "in_review"
                THEN Wake([r EXCEPT !.status = "doing"], it.head, "SentBack")
              ELSE IF Finished(r) THEN r
              ELSE told(Wake(r, it.head, "SentBack"))
  /\ UNCHANGED <<away, spare>>

\* A check of an older head is kept, and sets nothing.  (Mutant: it sets the gate.)
OlderSets ==
  /\ it.older
  /\ \E ok \in BOOLEAN :
       it' = [it EXCEPT !.older = FALSE, !.gate = IF ok THEN "open" ELSE "shut"]
  /\ UNCHANGED <<away, spare>>

OlderReports ==
  /\ it.older /\ it' = [it EXCEPT !.older = FALSE]
  /\ UNCHANGED <<away, spare>>

\* A member's item who pauses, or is away, goes one rank up, or to the nearest below.
LetGo(i) ==
  LET h == Holder(i)
      up == IF h = Nobody THEN Nobody
            ELSE FirstOf(<<Above(Team, Rank[h]), Below(Team, Rank[h])>>)
      to == Wake([i EXCEPT !.owner = Nobody, !.assignee = up, !.status = "todo"], up, "Assigned")
  IN IF i.status \in {"todo", "doing"} /\ h # Nobody /\ h \notin Team /\ up # Nobody
        /\ ~(i.turn.who = h /\ i.turn.at \in {"started", "running"})
     THEN IF to.turn.who = h THEN Over(to) ELSE to
     ELSE i

\* An item held goes up once one above is here, and is let out when it is another's.
ClimbHeld(i) ==
  IF i.heldFor = Nobody THEN i
  ELSE IF Holder(i) # i.heldFor \/ i.status \notin {"todo", "doing"} THEN [i EXCEPT !.heldFor = Nobody]
  ELSE IF i.heldFor \notin Team \/ OneRankUp(Team, i) = Nobody THEN i
  ELSE Climb([i EXCEPT !.heldFor = Nobody], OneRankUp(Team, i))

\* An item nobody has goes to the member at the starting rank, or nearest above it.
HandOut(i) ==
  LET m == FirstOf(<<Above({o \in Team : Rank[o] <= StartRank}, StartRank + 1)>>) IN
  IF i.status = "todo" /\ Holder(i) = Nobody /\ m # Nobody
    THEN Wake([i EXCEPT !.assignee = m], m, "Assigned") ELSE i

Ticked == HandOut(ClimbHeld(LetGo(it)))
TickActs == Team # {} /\ Ticked # it

LoopsTick ==
  /\ TickActs /\ it' = Ticked
  /\ UNCHANGED <<away, spare>>

\* An item that sat: nudged once, then a failure; in review, its reviewer is asked again.
Sits ==
  /\ it.turn = NoTurn /\ it.waits = <<>> /\ LoopHolds(it)
  /\ it.status = "doing" \/ (it.status \in {"todo", "in_review"} /\ ~it.failed)

Nudge ==
  /\ Sits /\ ~it.nudged
  /\ LET n == [it EXCEPT !.nudged = TRUE] IN
     IF it.status = "in_review"
       THEN \E forbidden \in Forbidden : it' = AskReview(n, forbidden)
       ELSE it' \in {n, Wake(n, Holder(n), "Assigned")}
  /\ UNCHANGED <<away, spare>>

Stalled ==
  /\ Sits /\ it.nudged
  /\ LET f == Failed(it) IN
     IF it.status = "in_review"
       THEN Reviewer(it) # Nobody /\ it' = Wake(it, Reviewer(it), "ReviewRequested")
       ELSE it' = IF Holder(f) = Holder(it) /\ f.heldFor = Nobody
                    THEN Wake(f, Holder(f), "Assigned") ELSE f
  /\ UNCHANGED <<away, spare>>

Drop ==
  /\ ~Finished(it) /\ it' = [it EXCEPT !.status = "dropped"]
  /\ Spares /\ UNCHANGED away

\* The owner's answer, in words or none: a blocked item is woken by words alone, and one that
\* was read wakes nobody.
Answer(words) ==
  /\ it.asked \in {"waiting", "to_read"}
  /\ it' = LET a == [it EXCEPT !.asked = "decided"] IN
           IF Holder(a) = Nobody \/ it.asked = "to_read" \/ (a.status = "blocked" /\ ~words) THEN a
           ELSE Wake(a, Holder(a), "ProposalDecided")
  /\ UNCHANGED <<away, spare>>

\* Moved back to work by the owner.
MoveBack ==
  /\ it.status = "blocked" /\ Spares
  /\ it' = LET b == [it EXCEPT !.status = "todo"] IN
           IF Holder(b) = Nobody THEN b ELSE Wake(b, Holder(b), "Assigned")
  /\ UNCHANGED away

Leaves(m) ==
  /\ away[m] = "here" /\ Spares
  /\ \E how \in {"paused"} \cup (IF m \in Macs THEN {"away"} ELSE {}) : away' = [away EXCEPT ![m] = how]
  /\ UNCHANGED it

Returns(m) ==
  /\ away[m] # "here" /\ away' = [away EXCEPT ![m] = "here"]
  /\ UNCHANGED <<it, spare>>

Ends == {"shown", "nothing", "room", "failed"}
Next ==
  \/ Begin \/ Claim \/ Submit \/ Recheck \/ Ready \/ BlockOwn \/ HandBack \/ TakeUp
  \/ Pass \/ SendBack \/ \E how \in Ends : End(how) \/ EndCut
  \/ \E ok \in BOOLEAN : CheckReports(ok)
  \/ OlderReports \/ LoopsTick \/ Nudge \/ Stalled
  \/ Drop \/ MoveBack \/ \E words \in BOOLEAN : Answer(words)
  \/ \E m \in Members : Leaves(m) \/ Returns(m)

\* Turns start, claim and end, checks report, the tick looks: weak fairness of each, with what
\* enables it written out.
AgainNeeded == it.status # "in_review" \/ Reviewer(it) # Nobody
Fairness ==
  /\ []<>~(it.turn.at = "queued" /\ (Finished(it) \/ away[Me] = "here")) \/ []<><<Begin>>_vars
  /\ []<>~(it.turn.at = "started") \/ []<><<Claim>>_vars
  /\ []<>~Runs \/ []<><<it'.turn # it.turn>>_vars
  /\ []<>(it.check = Nobody) \/ []<><<it'.check = Nobody>>_vars
  /\ []<>~TickActs \/ []<><<LoopsTick>>_vars
  /\ []<>~(Sits /\ (it.nudged => AgainNeeded)) \/ []<><<Nudge \/ Stalled>>_vars

Spec == Init /\ [][Next]_vars /\ Fairness

TypeOK ==
  /\ it.status \in {"todo", "doing", "in_review", "blocked", "done", "dropped"}
  /\ \A m \in {it.owner, it.assignee, it.heldFor, it.head, it.check, it.by} : m \in Members \cup {Nobody}
  /\ it.fails \in 0 .. FailuresARank - 1
  /\ it.over \subseteq Members /\ it.hands \subseteq Members
  /\ it.gate \in {"none", "shut", "open"} /\ it.asked \in {"no", "waiting", "to_read", "decided"}
  /\ it.turn = NoTurn \/ (it.turn.who \in Members /\ it.turn.at \in {"queued", "started", "running"})
  /\ \A n \in DOMAIN it.waits : it.waits[n].who \in Members
  /\ it.older \in BOOLEAN /\ it.passed \in BOOLEAN /\ it.failed \in BOOLEAN /\ it.nudged \in BOOLEAN
  /\ away \in [Members -> {"here", "paused", "away"}] /\ spare \in 0 .. MaxSpare

---------------------------------------------------------------------------
\* No work is passed by one who had a hand in it, in whatever order turns, submissions, send-backs
\* and climbs came, whoever was asked to review it when (`loop_reviewer_of`: "Nobody reviews work
\* she had a hand in").
NoPassOfOnesOwn == [][it.status = "in_review" /\ it'.status = "done" => it'.by \notin it.hands]_vars

\* The gate is the newest head's: it is open only while the newest check of that head passed,
\* however many heads and checks are in flight (`gate_from`).
GateIsOfTheHead == it.gate = "open" <=> it.passed

\* Nobody is woken on an item that is blocked, but by the owner's words: no wake held from before,
\* no check that reports, no nudge becomes a turn of it (`blocked_in_the_loops`: "only their word,
\* or their move of it back to work, wakes anyone on it").
OnlyWordsWakeBlocked ==
  [][(it.status = "blocked" /\ it'.status = "blocked" /\ it'.turn.at = "queued" /\ it'.turn # it.turn)
        => it'.turn.why = "ProposalDecided"]_vars

AllHere == \A m \in Members : away[m] = "here"

\* A climb stands: who works the item is who it was handed to (`loop_failed`: "The third at a
\* rank hands it to the member one rank up").
WorkedByWhomItIsFor == it.owner # Nobody /\ it.assignee # Nobody => it.owner = it.assignee

\* No wake is held behind a turn that is no more.
HeldBehindATurn == it.waits # <<>> => it.turn # NoTurn

\* Work is not left lying, nor waits for ever for a member above: it gets to review, to its end,
\* or to the owner, wherever in a turn's end HQ died, if whoever is away comes back, no climb is
\* undone for ever and no wake was left held.  Not so of an item whose turn failed for good before
\* it was claimed, which nothing nudges.
WorkGoesOn ==
  <>[](AllHere /\ WorkedByWhomItIsFor /\ HeldBehindATurn)
    => /\ []<>(it.status \notin {"todo", "doing"} \/ (it.status = "todo" /\ it.failed))
       /\ []<>(it.heldFor = Nobody)

\* A review ends, or the owner has a card of it: a reviewer whose turn says nothing is passed
\* over, and one whose turn's end was cut short is asked again.  Not so of one whose turn failed
\* for good, nor where everybody had a hand in the item, or a wake was left held.
ReviewsEnd ==
  <>[](AllHere /\ HeldBehindATurn) => []<>(\/ it.status # "in_review" \/ it.asked # "no"
                      \/ it.failed \/ Reviewer(it) = Nobody)

\* Neither work nor a review is left lying.
NothingIsLeftLying == WorkGoesOn /\ ReviewsEnd

\* What is finished stays so.
StaysFinished == [][Finished(it) => it'.status = it.status]_vars
=============================================================================
