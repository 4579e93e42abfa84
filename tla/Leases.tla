------------------------------- MODULE Leases -------------------------------
(***************************************************************************)
(* A turn's way to its container and back: HQ's side of the runner         *)
(* (domains/team/src/infrastructure/remote.rs, behind app/hq/src/runner.rs)*)
(* and the runner's loop on another host (app/runner/src/runner.rs), which *)
(* asks HQ for work over HTTP and has Docker run it.                       *)
(*                                                                         *)
(* Three parties share nothing but calls.  HQ's memory is lost when HQ     *)
(* restarts, the runner's when it does; containers outlive both.  A call   *)
(* may not arrive, and an answer may be lost after the call was taken.     *)
(* HQ names each attempt of a turn by a lease, so that what is told of one *)
(* attempt is never taken for another.                                     *)
(***************************************************************************)
EXTENDS Integers, FiniteSets, Sequences

CONSTANTS
  Runs,         \* turns, by the id the engine gave them
  Items,        \* the items (tasks) whose sandboxes the runner keeps
  NoItem,       \* the item of a turn that has a sandbox of its own
  NoRun,        \* the run of a lease not yet given out
  ItemOf,       \* [Runs -> Items \cup {NoItem}]
  HqRoom,       \* turns HQ's engine runs at once (RemoteRunner's capacity)
  Room,         \* containers the runner holds at once
  Kept,         \* reported ends HQ keeps
  ExitsAs,      \* how a container may exit by itself: "Succeeded", "Failed", or both
  MaxLeases,    \* bound: attempts handed out, over all turns
  MaxRestarts,  \* bound: restarts of HQ
  MaxCrashes,   \* bound: restarts of the runner
  MayNotList    \* whether Docker may not answer a runner that comes up

\* What the constants must be: a container that exits by itself was not killed by the runner.
ConstantsFit ==
  /\ NoRun \notin Runs /\ NoItem \notin Items
  /\ ItemOf \in [Runs -> Items \cup {NoItem}]
  /\ HqRoom \in Nat /\ Room \in Nat /\ Kept \in Nat /\ ExitsAs \subseteq {"Succeeded", "Failed"}
  /\ MaxLeases \in Nat /\ MaxRestarts \in Nat /\ MaxCrashes \in Nat /\ MayNotList \in BOOLEAN

\* HQ keeps as many ends as there are turns to report (a thousand, in the code).
KeepsThemAll == IsFiniteSet(Runs) /\ Cardinality(Runs) <= Kept

Ids == 1..MaxLeases

VARIABLES
  turn,      \* of each turn, where the engine has it
  line,      \* HQ: the turns waiting to be handed out, the oldest first
  handed,    \* HQ: the lease each turn is handed out under, 0 of the rest
  ended,     \* HQ: the reported ends it keeps, the oldest first
  stops,     \* HQ: the turns the runner is to kill
  lease,     \* HQ: the next lease; seeded from the clock, so a restart never repeats one
  box,       \* Docker: of each lease, the turn and its container
  watching,  \* runner: the leases whose containers it watches
  withItem,  \* runner: those of them it knows to have their item's sandbox
  stopping,  \* runner: the turns it was told to kill and has not
  keepers,   \* the items whose sandbox a keeper holds
  at,        \* runner: where its round is
  room,      \* runner: how many more turns this round may ask for
  hand,      \* runner: the lease it was just given and has not started, or 0
  restarts, crashes

hq     == <<line, handed, ended, stops, lease>>
docker == <<box, keepers>>
known  == <<watching, withItem, stopping>>
round  == <<at, room, hand>>
bounds == <<restarts, crashes>>
vars   == <<turn, hq, docker, known, round, bounds>>

Stages == {"New", "Running", "Between", "Over"}
Phases == {"stops", "check", "fill"}
States == {"none", "held", "up", "exited", "gone"}
Ends   == {"Succeeded", "Failed", "NeverStarted", "Vanished", "Killed"}
NoBox  == [run |-> NoRun, state |-> "none", how |-> "None", late |-> FALSE, kept |-> FALSE]

First(S) == CHOOSE n \in S : \A m \in S : n <= m

RunningTurns == {r \in Runs : turn[r] = "Running"}
Up           == {l \in Ids : box[l].state = "up"}

Init ==
  /\ turn = [r \in Runs |-> "New"]
  /\ line = <<>> /\ handed = [r \in Runs |-> 0]
  /\ ended = <<>> /\ stops = {} /\ lease = 1
  /\ box = [l \in Ids |-> NoBox] /\ keepers = {}
  /\ watching = {} /\ withItem = {} /\ stopping = {}
  /\ at = "stops" /\ room = 0 /\ hand = 0
  /\ restarts = 0 /\ crashes = 0

---------------------------------------------------------------------------
(* HQ's side of the runner, each call under its lock.                      *)

InLine(r) == \E n \in 1..Len(line) : line[n] = r
Told(r)   == {n \in 1..Len(ended) : ended[n].run = r}

\* A list without its entries at some places, of which there is at most one (OnePlace).
Without(list, places) ==
  IF places = {} THEN list
  ELSE [n \in 1..(Len(list) - 1) |-> list[IF n < First(places) THEN n ELSE n + 1]]

NotInLine(r) == Without(line, {n \in 1..Len(line) : line[n] = r})
NotTold(r)   == Without(ended, Told(r))

\* What the engine is told of a turn.
Status(r) == IF Told(r) # {} THEN ended[First(Told(r))].how
             ELSE IF handed[r] # 0 \/ InLine(r) THEN "Running"
             ELSE "Gone"

\* A turn started, again or for the first time, waits behind the others, and what is known of
\* an earlier attempt is forgotten.
StartTurn(r) ==
  /\ line' = Append(NotInLine(r), r)
  /\ handed' = [handed EXCEPT ![r] = 0]
  /\ ended' = NotTold(r)
  /\ UNCHANGED <<stops, lease>>

\* A turn still waiting is dropped; any other is passed on for the runner to kill.
StopTurn(r) ==
  /\ line' = NotInLine(r)
  /\ IF InLine(r) THEN UNCHANGED <<handed, ended, stops>>
     ELSE /\ handed' = [handed EXCEPT ![r] = 0]
          /\ ended' = NotTold(r)
          /\ stops' = stops \cup {r}
  /\ UNCHANGED lease

\* The oldest waiting turn is handed out under a fresh lease.
HandOut ==
  /\ line' = Tail(line)
  /\ handed' = [handed EXCEPT ![Head(line)] = lease]
  /\ lease' = lease + 1
  /\ UNCHANGED <<ended, stops>>

\* Only the latest reports are kept.  (Mutant: one fewer than there is room for.)
KeepFewer(e)  == IF Len(e) > Kept - 1 THEN Tail(e) ELSE e
KeepLatest(e) == IF Len(e) > Kept THEN Tail(e) ELSE e

\* The runner reports how a turn ended, quoting its lease; a report under another lease than
\* the turn's current one changes nothing.  (Mutant: any report about a turn is taken.)
ReportAny(r, l, how) ==
  /\ handed' = [handed EXCEPT ![r] = 0]
  /\ ended' = KeepLatest(Append(ended, [run |-> r, how |-> how]))
  /\ UNCHANGED <<line, stops, lease>>

Report(r, l, how) ==
  /\ IF handed[r] # l THEN UNCHANGED <<handed, ended>>
     ELSE /\ handed' = [handed EXCEPT ![r] = 0]
          /\ ended' = KeepLatest(Append(ended, [run |-> r, how |-> how]))
  /\ UNCHANGED <<line, stops, lease>>

---------------------------------------------------------------------------
(* The engine, as Turns has it: what it asks of its runner.                *)

Launch(r) ==
  /\ turn[r] \in {"New", "Between"} /\ lease <= MaxLeases
  /\ Cardinality(RunningTurns) < HqRoom
  /\ turn' = [turn EXCEPT ![r] = "Running"]
  /\ StartTurn(r)
  /\ UNCHANGED <<docker, known, round, bounds>>

\* A tick finds the turn ended, well or not, or gone: over, or to be tried again.
Settle(r) ==
  /\ turn[r] = "Running" /\ Status(r) # "Running"
  /\ \E to \in IF Status(r) = "Succeeded" THEN {"Over"} ELSE {"Between", "Over"} :
       turn' = [turn EXCEPT ![r] = to]
  /\ UNCHANGED <<hq, docker, known, round, bounds>>

\* A turn is ended for good while it runs: too long, stopped, out of money, an ask.
EndTurn(r) ==
  /\ turn[r] = "Running"
  /\ turn' = [turn EXCEPT ![r] = "Over"]
  /\ StopTurn(r)
  /\ UNCHANGED <<docker, known, round, bounds>>

\* A handover in a drain: the turn is tried again later, and its container ends by itself.
WrapUp(r) ==
  /\ turn[r] = "Running"
  /\ turn' = [turn EXCEPT ![r] = "Between"]
  /\ UNCHANGED <<hq, docker, known, round, bounds>>

\* A turn waiting to be tried again is ended.
LetGo(r) ==
  /\ turn[r] = "Between"
  /\ turn' = [turn EXCEPT ![r] = "Over"]
  /\ UNCHANGED <<hq, docker, known, round, bounds>>

\* HQ restarts: the turns are in its database, the runner's side was in memory.
HqRestarts ==
  /\ restarts < MaxRestarts /\ restarts' = restarts + 1
  /\ line' = <<>> /\ handed' = [r \in Runs |-> 0]
  /\ ended' = <<>> /\ stops' = {}
  /\ UNCHANGED <<lease, turn, docker, known, round, crashes>>

---------------------------------------------------------------------------
(* Docker: what a container does by itself.                                *)

Stopped(l, state, how) ==
  [box[l] EXCEPT !.state = state, !.how = how, !.late = FALSE, !.kept = FALSE]

Exits(l, how) ==
  /\ box[l].state = "up"
  /\ box' = [box EXCEPT ![l] = Stopped(l, "exited", how)]
  /\ UNCHANGED <<keepers, turn, hq, known, round, bounds>>

\* Removed by someone else.
Vanishes(l) ==
  /\ box[l].state = "up"
  /\ box' = [box EXCEPT ![l] = Stopped(l, "gone", "Vanished")]
  /\ UNCHANGED <<keepers, turn, hq, known, round, bounds>>

\* Its longest time, thirty minutes, is up.
GrowsLate(l) ==
  /\ box[l].state = "up" /\ ~box[l].late
  /\ box' = [box EXCEPT ![l].late = TRUE]
  /\ UNCHANGED <<keepers, turn, hq, known, round, bounds>>

---------------------------------------------------------------------------
(* The runner's round: stops, endings, sandboxes, new turns.               *)

WatchedRuns == {box[l].run : l \in watching}
InUse(i)    == \E l \in withItem : ItemOf[box[l].run] = i
RoomLeft    == IF Cardinality(watching) < Room THEN Room - Cardinality(watching) ELSE 0

Killed(S) == [l \in Ids |-> IF l \in S /\ box[l].state = "up"
                             THEN Stopped(l, "exited", "Killed")
                             ELSE box[l]]

\* HQ tells each stop once: of what it tells, some may not be heard (the answer was lost, or
\* more stops waited than HQ keeps).  Each watched turn told of is killed, and all of them are
\* tried again while one kill fails.
HearStops ==
  /\ at = "stops"
  /\ \E heard \in SUBSET stops, reached \in BOOLEAN, failing \in SUBSET watching :
       LET told == (stopping \cup (IF reached THEN heard ELSE {})) \cap WatchedRuns
           mine == {l \in watching : box[l].run \in told}
       IN  /\ failing \subseteq mine
           /\ stops' = IF reached THEN {} ELSE stops
           /\ box' = Killed(mine \ failing)
           /\ stopping' = IF failing = {} THEN {} ELSE told
  /\ at' = "check"
  /\ UNCHANGED <<turn, line, handed, ended, lease, keepers, watching, withItem, room, hand,
                 bounds>>

\* A watched turn is found ended, or past its time and is killed: HQ is told, and when HQ answers,
\* whatever it answers, the container is removed (or Docker fails to) and watched no more.
Ending(l) ==
  /\ at = "check" /\ l \in watching
  /\ box[l].state # "up" \/ box[l].late
  /\ LET now == IF box[l].state = "up"
                THEN Stopped(l, "exited", "Failed") ELSE box[l]
         unheard  == UNCHANGED hq
         heard    == Report(box[l].run, l, now.how)
     IN  \/ /\ unheard \/ heard
            /\ box' = [box EXCEPT ![l] = now]
            /\ UNCHANGED <<watching, withItem>>
         \/ /\ heard
            /\ \E state \in {"gone", now.state} : box' = [box EXCEPT ![l] = [now EXCEPT !.state = state]]
            /\ watching' = watching \ {l} /\ withItem' = withItem \ {l}
  /\ UNCHANGED <<turn, keepers, stopping, at, room, hand, bounds>>

\* When all have been looked at, items HQ says are closed, or long idle, lose their keepers, never
\* one a turn it knows of has.  (Mutant: whoever has it.)
SweepAny ==
  /\ at = "check"
  /\ \E gone \in SUBSET (keepers) : keepers' = keepers \ gone
  /\ at' = "fill" /\ room' = RoomLeft
  /\ UNCHANGED <<turn, hq, box, known, hand, bounds>>

Sweep ==
  /\ at = "check"
  /\ \E gone \in SUBSET {i \in keepers : ~InUse(i)} : keepers' = keepers \ gone
  /\ at' = "fill" /\ room' = RoomLeft
  /\ UNCHANGED <<turn, hq, box, known, hand, bounds>>

\* A turn is asked for while there is room, and handed out; its answer may be lost on the way.
AskNext ==
  /\ at = "fill" /\ hand = 0 /\ room > 0 /\ line # <<>> /\ lease <= MaxLeases
  /\ HandOut
  /\ box' = [box EXCEPT ![lease].run = Head(line), ![lease].state = "held"]
  /\ \/ hand' = lease /\ room' = room - 1 /\ at' = at
     \/ hand' = 0 /\ room' = 0 /\ at' = "stops"
  /\ UNCHANGED <<turn, keepers, known, bounds>>

\* There is no turn to start, or no room, or HQ or Docker does not answer.
RoundDone ==
  /\ at = "fill" /\ hand = 0
  /\ at' = "stops" /\ room' = 0
  /\ UNCHANGED <<turn, hq, docker, known, hand, bounds>>

\* The item whose kept sandbox a turn is to have: none for a second turn on it, or when its
\* keeper can not be had.
SandboxFor(l) ==
  LET i == ItemOf[box[l].run]
  IN  IF i = NoItem \/ InUse(i) THEN {NoItem} ELSE {NoItem, i}

\* The turn in hand gets its container.
Begin ==
  /\ at = "fill" /\ hand # 0
  /\ \E i \in SandboxFor(hand) :
       /\ box' = [box EXCEPT ![hand].state = "up", ![hand].kept = (i # NoItem)]
       /\ keepers' = keepers \cup ({i} \ {NoItem})
       /\ withItem' = IF i # NoItem THEN withItem \cup {hand} ELSE withItem
  /\ watching' = watching \cup {hand}
  /\ hand' = 0
  /\ UNCHANGED <<turn, hq, stopping, at, room, bounds>>

\* It can not be made, or started: HQ is told once that it never ran, or does not hear it.  A
\* keeper made for it stays.
NeverRan ==
  /\ at = "fill" /\ hand # 0
  /\ \E i \in SandboxFor(hand) : keepers' = keepers \cup ({i} \ {NoItem})
  /\ box' = [box EXCEPT ![hand].state = "gone", ![hand].how = "NeverStarted"]
  /\ UNCHANGED hq \/ Report(box[hand].run, hand, "NeverStarted")
  /\ hand' = 0
  /\ UNCHANGED <<turn, known, at, room, bounds>>

\* The runner restarts, and takes back the containers an earlier one left: up, ended, or made for
\* the turn in hand and never started.  Which of them have their item's sandbox it does not know.
\* If Docker does not answer, it goes on with none of them.
\* (Mutant: it takes none back.)
CrashForgets ==
  /\ crashes < MaxCrashes /\ crashes' = crashes + 1
  /\ watching' = {} /\ withItem' = {} /\ stopping' = {}
  /\ at' = "stops" /\ room' = 0 /\ hand' = 0
  /\ UNCHANGED <<turn, hq, docker, restarts>>

Crash ==
  /\ crashes < MaxCrashes /\ crashes' = crashes + 1
  /\ \/ UNCHANGED docker
     \/ /\ hand # 0
        /\ box' = [box EXCEPT ![hand] = Stopped(hand, "exited", "NeverStarted")]
        /\ \E i \in SandboxFor(hand) : keepers' = keepers \cup ({i} \ {NoItem})
  /\ \/ watching' = {l \in Ids : box'[l].state \in {"up", "exited"}}
     \/ MayNotList /\ watching' = {}
  /\ withItem' = {} /\ stopping' = {}
  /\ at' = "stops" /\ room' = 0 /\ hand' = 0
  /\ UNCHANGED <<turn, hq, restarts>>

---------------------------------------------------------------------------
EngineStep ==
  \/ \E r \in Runs : Launch(r) \/ Settle(r) \/ EndTurn(r) \/ WrapUp(r) \/ LetGo(r)
  \/ HqRestarts

DockerStep == \E l \in Ids : Vanishes(l) \/ GrowsLate(l) \/ \E how \in ExitsAs : Exits(l, how)

Round ==
  \/ HearStops
  \/ \E l \in Ids : Ending(l)
  \/ Sweep \/ AskNext \/ RoundDone \/ Begin \/ NeverRan

Next == EngineStep \/ DockerStep \/ Round \/ Crash

Spec == Init /\ [][Next]_vars
TypeOK ==
  /\ turn \in [Runs -> Stages]
  /\ line \in Seq(Runs)
  /\ handed \in [Runs -> Ids \cup {0}]
  /\ ended \in Seq([run : Runs, how : Ends]) /\ Len(ended) <= Kept
  /\ stops \subseteq Runs /\ stopping \subseteq Runs
  /\ lease \in 1..(MaxLeases + 1)
  /\ box \in [Ids -> [run : Runs \cup {NoRun}, state : States, how : Ends \cup {"None"},
                     late : BOOLEAN, kept : BOOLEAN]]
  /\ watching \subseteq Ids /\ withItem \subseteq watching
  /\ keepers \subseteq Items
  /\ at \in Phases /\ room \in 0..Room /\ hand \in Ids \cup {0}
  /\ restarts \in 0..MaxRestarts /\ crashes \in 0..MaxCrashes

---------------------------------------------------------------------------
(* Safety.                                                                 *)

\* HQ's side keeps a turn in one place: waiting, handed out under a lease of its own, or
\* reported; and never a turn both to be killed and to be started.
OnePlace ==
  \A r \in Runs :
    /\ Cardinality({n \in 1..Len(line) : line[n] = r} ) + (IF handed[r] # 0 THEN 1 ELSE 0)
         + Cardinality(Told(r)) <= 1
    /\ r \in stops => ~InLine(r) /\ handed[r] = 0
    /\ handed[r] # 0 => box[handed[r]].run = r

\* Two running turns never share an item's sandbox (runner.rs, `sandbox_for`: "for a second
\* turn on an item while one runs (two never share one)").
OneSandboxEach ==
  \A l, k \in Up : l # k /\ box[l].kept /\ box[k].kept => ItemOf[box[l].run] # ItemOf[box[k].run]

\* They never do, nor is an item's sandbox let go while a running turn has it (`sweep`), while
\* the runner knows whose sandbox each container is in: until it restarts.
SandboxesWhileKnown ==
  crashes = 0 =>
    /\ OneSandboxEach
    /\ \A l \in Up : box[l].kept => ItemOf[box[l].run] \in keepers

\* A turn is in one place at HQ, and alone in its item's sandbox at the runner.
OnePlaceOneSandbox == OnePlace /\ SandboxesWhileKnown

---------------------------------------------------------------------------
(* What a step may never do.                                               *)

\* The runner kills, as asked, only containers of turns that are over: a stop that is late,
\* tried again, or heard after its turn's container was replaced never cuts another attempt.
OnlyTheOverAreKilled ==
  [][\A l \in Ids : box'[l].how = "Killed" /\ box[l].how # "Killed"
       => turn[box[l].run] = "Over"]_vars

\* A reported end is kept until the engine has settled the turn, however many reports come
\* before its next tick; only a restart of HQ loses it.
EndIsKept ==
  [][restarts' = restarts =>
       \A r \in Runs : Told(r) # {} /\ turn[r] = "Running" /\ turn'[r] = "Running"
         => Status(r)' = Status(r)]_vars

\* No attempt is cut for another's stop, and no end that was heard is lost.
EndsAndKills == OnlyTheOverAreKilled /\ EndIsKept

---------------------------------------------------------------------------
(* What the engine counts on: the runner it sees is the one Turns assumes. *)

Seen(r) == IF turn[r] # "Running" THEN "Gone"
           ELSE IF Status(r) = "Killed" THEN "Vanished" ELSE Status(r)

EngineView == INSTANCE RunnerView WITH view <- [r \in Runs |-> Seen(r)],
                                       Ends <- {"Succeeded", "Failed", "NeverStarted", "Vanished"}

\* HQ, the runner and Docker together implement RunnerView, which is what `runner` is in Turns.
RunnerAsSeen == EngineView!ViewSpec

---------------------------------------------------------------------------
(* Liveness.                                                               *)

\* The runner's loop goes round; time passes; HQ and Docker, asked again and again, answer in
\* the end.
Heard(l)  == Ending(l) /\ l \notin watching'
Fairness  == /\ WF_vars(Round) /\ \A l \in Ids : WF_vars(GrowsLate(l)) /\ SF_vars(Heard(l))
FairSpec  == Spec /\ Fairness

\* No container runs for ever: the runner, or the one after it, finds it past its time.  (A lease
\* is given out once, and its container starts once.)
NoContainerForEver == <>[](\A l \in Ids : box[l].state # "up")

\* How a turn ended reaches HQ, through lost calls, lost answers and the runner's restarts,
\* unless HQ itself has lost or replaced the attempt.
Unheard(l) == box[l].state = "exited" /\ handed[box[l].run] = l
EndIsHeard == <>[](\A l \in Ids : ~Unheard(l))

\* Every container ends, and HQ hears of it.
EveryContainerIsOver == NoContainerForEver /\ EndIsHeard
=============================================================================
