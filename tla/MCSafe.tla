------------------------------- MODULE MCSafe -------------------------------
(***************************************************************************)
(* Small instances, for TLC, of parts that share no state with each other  *)
(* and of which only what may never happen is asked: an exploration is of  *)
(* one part, chosen at its beginning, while the others stand at theirs.    *)
(***************************************************************************)
EXTENDS Ledger, TLC

CONSTANTS r1, r2, i1, noitem, norun, a1, a2, t1, t2, nobody, k1, k2

VARIABLES
  part,                                                          \* the part explored
  approval, added, asking, tap, desk, ran, yes, died, stores,    \* Approvals'
  turn, line, handed, ended, stops, lease, box, watching,        \* Leases'
  withItem, stopping, keepers, at, room, hand, restarts, breaks,
  time, wanted, ledger, journal, doing, late, done, took, deaths   \* Restarts'

books     == vars
approvals == <<approval, added, asking, tap, desk, ran, yes, died, stores>>
leases    == <<turn, line, handed, ended, stops, lease, box, watching, withItem, stopping,
               keepers, at, room, hand, restarts, breaks>>
restarted == <<time, wanted, ledger, journal, doing, late, done, took, deaths>>

\* Two asks that would run different things, and two decisions; or one, and a crash or a store
\* made anew.
A == INSTANCE Approvals WITH
       row <- approval, Asks <- {a1, a2}, Says <- [a \in {a1, a2} |-> IF a = a1 THEN "one" ELSE "other"],
       Taps <- {t1, t2}, MaxCrashes <- 1, MaxStores <- 1, Nobody <- nobody

\* Two turns on one item, two places, and a runner that Docker may not answer.
C == INSTANCE Leases WITH
       crashes <- breaks, Runs <- {r1, r2}, Items <- {i1}, NoItem <- noitem, NoRun <- norun,
       ItemOf <- [r \in {r1, r2} |-> i1], HqRoom <- 2, Room <- 2, Kept <- 2, ExitsAs <- {"Failed"},
       MaxLeases <- 2, MaxRestarts <- 0, MaxCrashes <- 1, MayNotList <- TRUE

\* Three calls for two containers, no more than two an hour, that stop short of the console; or
\* two, and a button or a crash; or one, and both.
R == INSTANCE Restarts WITH
       call <- wanted, Turns <- 1..3, Containers <- {k1, k2},
       Presses <- {[id |-> 9, action |-> "stop", target |-> k1]},
       Hour <- 2, Day <- 3, AnHour <- 2, Slow <- 1, LastTime <- 2, MaxCrashes <- 1

Beginning ==
  /\ part \in {"books", "approvals", "leases", "restarts"}
  /\ Init /\ A!Init /\ C!Init /\ R!Init
Going ==
  \/ part = "books"     /\ Next   /\ UNCHANGED <<part, approvals, leases, restarted>>
  \/ /\ part = "approvals" /\ A!Next /\ UNCHANGED <<part, books, leases, restarted>>
     /\ died' = <<>> \/ stores' = 0
     /\ (died' = <<>> /\ stores' = 0) \/ \E t \in {t1, t2} : tap'[t].at = "idle"
  \/ part = "leases"    /\ C!Next /\ UNCHANGED <<part, books, approvals, restarted>>
  \/ /\ part = "restarts" /\ R!Next /\ UNCHANGED <<part, books, approvals, leases>>
     /\ wanted'[2].at = "idle" \/ deaths' = 0 \/ journal'[9].of = R!NoRequest
     /\ wanted'[3].at = "idle" \/ (deaths' = 0 /\ \A i \in R!Ids : journal'[i].of = R!NoRequest)
Explored == Beginning /\ [][Going]_<<part, books, approvals, leases, restarted>>

\* Sound: the turns, and the decisions, are told apart by nothing.
Alike == Permutations({r1, r2}) \cup Permutations({t1, t2})

---------------------------------------------------------------------------
(* What is asked of each part, as its module states it.                    *)

Typed ==
  /\ TypeOK
  /\ A!TypeOK /\ A!ConstantsFit
  /\ C!TypeOK /\ C!ConstantsFit /\ C!KeepsThemAll
  /\ R!TypeOK /\ R!ConstantsFit

RunsOnTheOwnersYes == A!RunsOnTheOwnersYes
OutcomesAgree      == A!OutcomesAgree

OnePlaceOneSandbox == C!OnePlaceOneSandbox
EndsAndKills       == C!EndsAndKills

LimitsKept     == R!LimitsKept
DoneAsRecorded == R!DoneAsRecorded
=============================================================================
