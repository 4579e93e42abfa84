------------------------------ MODULE MCServed ------------------------------
(***************************************************************************)
(* Small instances, for TLC, of parts that share no state with each other  *)
(* and of which what must happen is asked too: an exploration is of one    *)
(* part, chosen at its beginning, while the others stand at theirs.        *)
(***************************************************************************)
EXTENDS Relay

CONSTANTS c1, c2, r1, i1, noitem, norun

VARIABLES
  part,                                                          \* the part explored
  turn, line, handed, ended, stops, lease, box, watching,        \* Leases'
  withItem, stopping, keepers, at, room, hand, restarts, breaks,
  kind, stage, heard, results, cut, gists, last, said, given,    \* Worker's
  already, later, read, round, free, replies, words, over

relay  == vars
leases == <<turn, line, handed, ended, stops, lease, box, watching, withItem, stopping,
             keepers, at, room, hand, restarts, breaks>>
worker == <<kind, stage, heard, results, cut, gists, last, said, given, already, later, read,
             round, free, replies, words, over>>

\* One turn, two attempts, HQ and the runner each restarting once.
C == INSTANCE Leases WITH
       crashes <- breaks, Runs <- {r1}, Items <- {i1}, NoItem <- noitem, NoRun <- norun,
       ItemOf <- [r \in {r1} |-> i1], HqRoom <- 1, Room <- 1, Kept <- 1,
       ExitsAs <- {"Succeeded", "Failed"}, MaxLeases <- 2, MaxRestarts <- 1, MaxCrashes <- 1,
       MayNotList <- FALSE

\* A turn of the house's on a task, of a server that gives all its calls one id, one of
\* DeepSeek's on none, and one of Claude's on a task; three rounds, and but the newest result
\* kept whole where any is cut.
Kind(house, sums, task, numbers) ==
  [house |-> house, sums |-> sums, task |-> task, numbers |-> numbers]
W == INSTANCE Worker WITH
       turn <- kind, at <- stage, asked <- heard,
       Kinds <- {Kind(TRUE, TRUE, TRUE, "one"), Kind(TRUE, FALSE, FALSE, "afresh"),
                 Kind(FALSE, FALSE, TRUE, "own")},
       Replies <- {<<"log">>, <<"look", "claim", "look">>, <<"set_status", "find_tools">>,
                   <<"shell", "ask_owner">>},
       Long <- {"log", "shell"}, Gisted <- {"log"}, OnTheNode <- {"log"}, Own <- {"shell"},
       Words <- {"x"}, MostRounds <- 3, FreeRounds <- 1, KeepsWhole <- 1, Budget <- 24,
       Weight <- 3

Beginning ==
  /\ part \in {"relay", "leases", "worker"}
  /\ Init /\ C!Init /\ W!Init
  /\ part = "relay" \/ brain = "house"
  /\ part = "worker" \/ ~kind.house
Going ==
  \/ part = "relay"    /\ Next   /\ UNCHANGED <<part, leases, worker>>
  \/ part = "leases"   /\ C!Next /\ UNCHANGED <<part, relay, worker>>
  \/ part = "worker"   /\ W!Next /\ UNCHANGED <<part, relay, leases>>

\* The runner's round, which never stands still, is asked for only where it is explored.
RunnerGoesRound ==
  /\ WF_leases(part = "leases" /\ C!Round)
  /\ \A l \in {1, 2} : /\ WF_leases(part = "leases" /\ C!GrowsLate(l))
                       /\ SF_leases(part = "leases" /\ C!Heard(l))
Explored ==
  /\ Beginning /\ [][Going]_<<part, relay, leases, worker>>
  /\ Fairness /\ RunnerGoesRound

---------------------------------------------------------------------------
(* What is asked of each part, as its module states it.                    *)

Typed == TypeOK /\ W!TypeOK /\ W!ConstantsFit /\ C!ConstantsFit /\ C!KeepsThemAll

EveryCallAnswered == W!EveryCallAnswered
HasWhatItIsTold   == W!HasWhatItIsTold
EndsOnce          == W!EndsOnce

RunnerAsSeen         == C!RunnerAsSeen
EveryContainerIsOver == C!EveryContainerIsOver
=============================================================================
