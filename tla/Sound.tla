------------------------------- MODULE Sound -------------------------------
(***************************************************************************)
(* The sound hub: the owner's changes of the patchbay                      *)
(* (domains/sound/src/domain/patchbay.rs, made through application/hub.rs),*)
(* the player's plan of running groups and senders (application/engine.rs, *)
(* app/sound/src/player.rs), and the thread that chooses each sender's     *)
(* speakers and watches them (app/sound/src/senders.rs).  The senders are  *)
(* processes of their own, that may not answer, and any speaker may be     *)
(* taken by another device at any time.                                    *)
(***************************************************************************)
EXTENDS Integers, FiniteSets, Sequences, FiniteSetsExt

CONSTANTS
  Senders,     \* the senders, by number from 1
  Levels,      \* the levels of a wire
  Devices,     \* the owner's own devices
  None,        \* of no device
  Stored,      \* the patchbays the hub may find in its store when it starts
  MaxIds,      \* how many ids are handed out
  MaxEvents    \* how many changes the owner makes and how much goes wrong, in all

VARIABLES
  bay,       \* the patchbay, which is what the store holds too
  moved,     \* its revision is not the one the player planned for
  running,   \* the running groups, oldest first
  told,      \* the engine's changes, on their way to the control thread
  watched,   \* the senders the control thread wants something of
  chosen,    \* the speakers each sender was told to select
  seen,      \* those of them found selected since
  looking,   \* the senders still to be looked at this time round
  leaving,   \* the dropped-out speakers of the sender looked at
  selected,  \* what each sender has really selected
  taken,     \* the speakers another device plays to
  heard,     \* the senders that did what they were told last
  changes, mishaps

hub    == <<bay, moved>>
engine == <<running, told>>
control == <<watched, chosen, seen, looking, leaving, heard>>
counts == <<changes, mishaps>>
vars == <<hub, engine, control, selected, taken, counts>>

NoSender == 0
Kinds == {"airplay", "stream"}

---------------------------------------------------------------------------
(* The patchbay: [sources, speakers, wires, setup, last].                  *)

Mix(b, s) == {<<w.source, w.level>> : w \in {x \in b.wires : x.speaker = s}}
Heard(b) == {s \in DOMAIN b.speakers : ~b.speakers[s].borrowed /\ Mix(b, s) # {}}
Groups(b) == {{t \in Heard(b) : Mix(b, t) = Mix(b, s)} : s \in Heard(b)}
AirPlay(b, g) == {s \in g \cap DOMAIN b.speakers : b.speakers[s].kind = "airplay"}
NeedSender(b) == {g \in Groups(b) : AirPlay(b, g) # {}}
WithinSenders(b) == Cardinality(NeedSender(b)) <= Cardinality(Senders)

OwnSpeaker(b, w) ==
  /\ b.sources[w.source].device # None
  /\ b.sources[w.source].device = b.speakers[w.speaker].device
Joins(b, w) == w.source \in DOMAIN b.sources /\ w.speaker \in DOMAIN b.speakers

Without(b, x) == {w \in b.wires : x \notin {w.source, w.speaker}}
With(b, w) ==
  {x \in b.wires : <<x.source, x.speaker>> # <<w.source, w.speaker>>} \cup {w}
And(things, i, thing) == [j \in DOMAIN things \cup {i} |-> IF j = i THEN thing ELSE things[j]]
AddedSource(b, kind, device) ==
  [b EXCEPT !.last = @ + 1,
            !.sources = And(@, b.last + 1, [kind |-> kind, device |-> device])]
AddedSpeaker(b, kind, device) ==
  [b EXCEPT !.last = @ + 1,
            !.speakers = And(@, b.last + 1,
                             [kind |-> kind, device |-> device, borrowed |-> FALSE])]

\* At start: the old doors of devices move into the general one, which is made if need be.
Doors(b)   == {i \in DOMAIN b.sources : b.sources[i].kind = "airplay"}
General(b) == {i \in Doors(b) : b.sources[i].device = None}
MovedTo(door, old, wires) ==
  LET there == {w \in wires : w.source \in old \cup {door}} IN
  (wires \ there) \cup
  {[source |-> door, speaker |-> s,
    level |-> Max({w.level : w \in {x \in there : x.speaker = s}})]
     : s \in {w.speaker : w \in there}}
SettledDoors(b) ==
  LET made == IF General(b) = {} THEN AddedSource(b, "airplay", None) ELSE b
      door == Min(General(made))
      old  == Doors(made) \ General(made) IN
  [made EXCEPT
     !.sources = [i \in DOMAIN @ \ old |-> @[i]],
     !.wires = MovedTo(door, old, @),
     !.setup = IF @ = None THEN None ELSE MovedTo(door, old, @)]

\* A patchbay as the hub makes them: each wire's two ends are there, or were when it was saved.
IsWire(w) == w = [source |-> w.source, speaker |-> w.speaker, level |-> w.level]
Drawn(wires, top) == \A w \in wires :
  /\ IsWire(w) /\ {w.source, w.speaker} \subseteq 1..top
  /\ \A x \in wires : x.source = w.source /\ x.speaker = w.speaker => x = w
IsBay(b) ==
  /\ b = [sources |-> b.sources, speakers |-> b.speakers, wires |-> b.wires,
          setup |-> b.setup, last |-> b.last]
  /\ b.sources = [i \in DOMAIN b.sources |->
                    [kind |-> b.sources[i].kind, device |-> b.sources[i].device]]
  /\ b.speakers = [s \in DOMAIN b.speakers |->
                     [kind |-> b.speakers[s].kind, device |-> b.speakers[s].device,
                      borrowed |-> b.speakers[s].borrowed]]
  /\ b.last \in Nat /\ DOMAIN b.sources \cap DOMAIN b.speakers = {}
  /\ DOMAIN b.sources \cup DOMAIN b.speakers \subseteq 1..b.last
  /\ Drawn(b.wires, b.last) /\ \A w \in b.wires : Joins(b, w) /\ ~OwnSpeaker(b, w)
  /\ b.setup # None => Drawn(b.setup, b.last)

\* The senders are numbered from 1, and the store holds what the hub put there.
ConstantsFit ==
  /\ IsFiniteSet(Senders) /\ Senders \subseteq Nat \ {NoSender}
  /\ \A b \in Stored : IsBay(b)
ASSUME SoundAssumption == ConstantsFit

---------------------------------------------------------------------------
(* The hub: a change is made on a copy, kept, and only then live; what is  *)
(* refused or not kept changes nothing.                                    *)

Live(b) == bay' = b /\ moved' = TRUE
Change(b) ==
  /\ changes + mishaps < MaxEvents /\ changes' = changes + 1
  /\ Live(b)
  /\ UNCHANGED <<engine, control, selected, taken, mishaps>>
Checked(b) == WithinSenders(b) /\ Change(b)

AddSource == \E kind \in {"airplay", "radio"}, device \in Devices \cup {None} :
  bay.last < MaxIds /\ Change(AddedSource(bay, kind, device))
AddSpeaker == \E kind \in Kinds, device \in Devices \cup {None} :
  bay.last < MaxIds /\ Change(AddedSpeaker(bay, kind, device))
RemoveSource == \E i \in DOMAIN bay.sources :
  Change([bay EXCEPT !.sources = [j \in DOMAIN @ \ {i} |-> @[j]],
                     !.wires = Without(bay, i)])
RemoveSpeaker == \E s \in DOMAIN bay.speakers :
  Change([bay EXCEPT !.speakers = [j \in DOMAIN @ \ {s} |-> @[j]],
                     !.wires = Without(bay, s)])
Wire == \E i \in DOMAIN bay.sources, s \in DOMAIN bay.speakers, l \in Levels :
  LET w == [source |-> i, speaker |-> s, level |-> l] IN
  /\ ~OwnSpeaker(bay, w)
  /\ Checked([bay EXCEPT !.wires = With(bay, w)])
Unwire == \E w \in bay.wires : Change([bay EXCEPT !.wires = @ \ {w}])
SetAll == \E i \in DOMAIN bay.sources, l \in Levels :
  Checked([bay EXCEPT !.wires = {IF w.source = i THEN [w EXCEPT !.level = l] ELSE w : w \in @}])
Tune == DOMAIN bay.speakers # {} /\ Change(bay)      \* a volume or a lip-sync
Borrowed(s, yes) == [bay EXCEPT !.speakers[s].borrowed = yes]
Free == \E s \in DOMAIN bay.speakers : Checked(Borrowed(s, FALSE))
SaveSetup == Change([bay EXCEPT !.setup = bay.wires])
\* What has gone since is skipped.  (Mutant: a setup's wires are put back as they were.)
ApplySetupAsSaved == bay.setup # None /\ Checked([bay EXCEPT !.wires = bay.setup])
ApplySetup ==
  /\ bay.setup # None
  /\ Checked([bay EXCEPT !.wires = {w \in bay.setup : Joins(bay, w) /\ ~OwnSpeaker(bay, w)}])
RemoveSetup == bay.setup # None /\ Change([bay EXCEPT !.setup = None])
Owner ==
  \/ AddSource \/ AddSpeaker \/ RemoveSource \/ RemoveSpeaker
  \/ Wire \/ Unwire \/ SetAll \/ Tune \/ Free
  \/ SaveSetup \/ ApplySetup \/ RemoveSetup

---------------------------------------------------------------------------
(* The player: running groups brought in line with the patchbay.           *)

\* A set by what its elements are numbered, no two alike.
Under(S, number, x) == {y \in S : number[y] < number[x]}
InOrder(S, number) ==
  [n \in 1..Cardinality(S) |-> CHOOSE x \in S : Cardinality(Under(S, number, x)) = n - 1]

\* Which running one each new group is: most speakers in common first, then oldest, then first.
Shared(p) == Cardinality(running[p[1]].speakers \cap p[2])
Earlier(p, q) ==
  \/ Shared(p) > Shared(q)
  \/ /\ Shared(p) = Shared(q)
     /\ p[1] < q[1] \/ (p[1] = q[1] /\ Min(p[2]) < Min(q[2]))
FirstOf(pairs) == CHOOSE p \in pairs : \A q \in pairs \ {p} : Earlier(p, q)
Besides(pairs, p) == {q \in pairs : q[1] # p[1] /\ q[2] # p[2]}
Kept(pairs) ==
  LET kept[left \in SUBSET pairs] ==
        IF left = {} THEN {}
        ELSE {FirstOf(left)} \cup kept[Besides(left, FirstOf(left))] IN
  kept[pairs]
Pairs(groups) == Kept({p \in (DOMAIN running) \X groups : Shared(p) > 0})

\* (Mutant: it is given a sender anew.)
GroupAnew(g, sender) ==
  [speakers |-> g, airplay |-> AirPlay(bay, g), sender |-> NoSender]
Group(g, sender) ==
  [speakers |-> g, airplay |-> AirPlay(bay, g),
   sender |-> IF AirPlay(bay, g) = {} THEN NoSender ELSE sender]

InUse(rs) == {rs[i].sender : i \in DOMAIN rs} \ {NoSender}

\* The groups that stay, as they are now; then the new ones.
Regrouped ==
  LET groups == Groups(bay)
      same == Pairs(groups)
      old  == InOrder(same, [p \in same |-> p[1]])
      new  == InOrder(groups \ {p[2] : p \in same}, [g \in groups |-> Min(g)]) IN
  [n \in DOMAIN old |-> Group(old[n][2], running[old[n][1]].sender)]
  \o [n \in DOMAIN new |-> Group(new[n], NoSender)]

\* Who needs a sender and has none takes the lowest free one, if there is one.
WithFreeSenders(rs) ==
  LET free  == InOrder(Senders \ InUse(rs), [s \in Senders |-> s])
      needy == {i \in DOMAIN rs : rs[i].sender = NoSender /\ rs[i].airplay # {}}
      rank(i) == Cardinality({j \in needy : j <= i}) IN
  [i \in DOMAIN rs |->
     IF i \in needy /\ rank(i) <= Len(free)
       THEN [rs[i] EXCEPT !.sender = free[rank(i)]] ELSE rs[i]]

PlayedBy(rs, s) == UNION {rs[i].airplay : i \in {j \in DOMAIN rs : rs[j].sender = s}}
Told(asks) == InOrder(asks, [c \in asks |-> c.sender])

\* First every sender lets go of what it plays no longer, then any takes on more.  (Mutants:
\* the other way round; a sender that plays already takes on nothing more.)
LetsGo(old, new) ==
  Told({[sender   |-> s,
         speakers |-> PlayedBy(old, s) \cap PlayedBy(new, s),
         released |-> s \notin InUse(new)]
          : s \in {t \in InUse(old) : ~PlayedBy(old, t) \subseteq PlayedBy(new, t)}})
\* They play all that is theirs now.
Full(new, senders) ==
  Told({[sender |-> s, speakers |-> PlayedBy(new, s), released |-> FALSE] : s \in senders})
TakesOnFirst(old, new) == Full(new, InUse(new) \ InUse(old))
TakesOn(old, new) ==
  Full(new, {s \in InUse(new) : ~PlayedBy(new, s) \subseteq PlayedBy(old, s)})
TakenFirst(old, new) == TakesOn(old, new) \o LetsGo(old, new)
Changes(old, new) == LetsGo(old, new) \o TakesOn(old, new)

Plan ==
  /\ moved /\ moved' = FALSE
  /\ LET new == WithFreeSenders(Regrouped) IN
     running' = new /\ told' = told \o Changes(running, new)
  /\ UNCHANGED <<bay, control, selected, taken, counts>>

---------------------------------------------------------------------------
(* The control thread, and the senders it asks.                            *)

\* A device takes a speaker, a sender does not do what it is asked, or the hub dies.
Mishap == changes + mishaps < MaxEvents /\ mishaps' = mishaps + 1
AtRest == looking = {} /\ leaving = {}

\* A sender asked to select speakers takes them, or those no other device has, or fails.
Selects(s, speakers) ==
  \/ /\ selected' = [selected EXCEPT ![s] = speakers]
     /\ taken' = taken \ speakers
  \/ /\ speakers \cap taken # {}
     /\ selected' = [selected EXCEPT ![s] = speakers \ taken]
     /\ UNCHANGED taken

\* `choose`: the speakers there are and the sender can see; nothing is tried again.
Choose ==
  /\ AtRest /\ told # <<>> /\ told' = Tail(told)
  /\ LET c == Head(told)  named == AirPlay(bay, c.speakers) IN
     /\ watched' = IF c.released THEN watched \ {c.sender} ELSE watched \cup {c.sender}
     /\ \/ /\ Mishap                                           \* no answer
           /\ heard' = heard \ {c.sender}
           /\ UNCHANGED <<chosen, seen, selected, taken>>
        \/ \E visible \in SUBSET named :
             /\ chosen' = [chosen EXCEPT ![c.sender] = visible]
             /\ seen' = [seen EXCEPT ![c.sender] = {}]
             /\ \/ /\ IF visible = named THEN UNCHANGED mishaps ELSE Mishap
                   /\ Selects(c.sender, visible)
                   /\ heard' = heard \cup {c.sender}
                \/ /\ Mishap                                   \* it would not take them
                   /\ heard' = heard \ {c.sender}
                   /\ UNCHANGED <<selected, taken>>
  /\ UNCHANGED <<hub, running, looking, leaving, changes>>

\* Nothing told for a while: each sender is looked at in turn.
LookRound ==
  /\ AtRest /\ told = <<>>
  /\ looking' = watched
  /\ UNCHANGED <<hub, engine, watched, chosen, seen, leaving, heard, selected, taken, counts>>
Look ==
  /\ looking # {} /\ leaving = {}
  /\ LET s == Min(looking)  plays == chosen[s] \cap selected[s] IN
     /\ looking' = looking \ {s}
     /\ \/ Mishap /\ UNCHANGED <<seen, leaving>>               \* no answer
        \/ /\ seen' = [seen EXCEPT ![s] = @ \cup plays]
           /\ leaving' = {<<s, p>> : p \in seen[s] \ plays}
           /\ UNCHANGED mishaps
  /\ UNCHANGED <<hub, engine, watched, chosen, heard, selected, taken, changes>>

\* A speaker that played and has dropped out is let go, and marked borrowed if that is taken.
LetGo == \E gone \in leaving :
  LET s == gone[1]  p == gone[2]  rest == chosen[s] \ {p} IN
  /\ \A other \in leaving : p <= other[2]
  /\ leaving' = leaving \ {gone}
  /\ chosen' = [chosen EXCEPT ![s] = rest]
  /\ seen' = [seen EXCEPT ![s] = @ \ {p}]
  /\ \/ Selects(s, rest) /\ UNCHANGED mishaps
     \/ Mishap /\ UNCHANGED <<selected, taken>>
  /\ IF p \in DOMAIN bay.speakers /\ WithinSenders(Borrowed(p, TRUE))
       THEN Live(Borrowed(p, TRUE)) ELSE UNCHANGED hub
  /\ UNCHANGED <<engine, watched, looking, heard, changes>>

---------------------------------------------------------------------------
(* What the hub does not do: other devices, and its own end.               *)

Take(p) ==
  /\ Mishap
  /\ p \notin taken /\ taken' = taken \cup {p}
  /\ selected' = [s \in Senders |-> selected[s] \ {p}]
  /\ UNCHANGED <<hub, engine, control, changes>>
GiveUp(p) ==
  /\ p \in taken /\ taken' = taken \ {p}
  /\ UNCHANGED <<hub, engine, control, selected, counts>>

Nothing == [s \in Senders |-> {}]
\* The store's patchbay, its doors settled unless something else has the general one's name.
Restart ==
  /\ Mishap
  /\ \/ bay' = SettledDoors(bay)
     \/ General(bay) = {} /\ bay' = bay
  /\ moved' = TRUE /\ running' = <<>> /\ told' = <<>>
  /\ watched' = {} /\ looking' = {} /\ leaving' = {} /\ heard' = {}
  /\ chosen' = Nothing /\ seen' = Nothing
  /\ UNCHANGED <<selected, taken, changes>>

Init ==
  /\ \E b \in Stored : bay = SettledDoors(b)
  /\ moved = TRUE /\ running = <<>> /\ told = <<>>
  /\ watched = {} /\ looking = {} /\ leaving = {} /\ heard = {}
  /\ chosen = Nothing /\ seen = Nothing /\ selected = Nothing /\ taken = {}
  /\ changes = 0 /\ mishaps = 0
Others == \E p \in DOMAIN bay.speakers : Take(p) \/ GiveUp(p)
Next ==
  \/ Owner \/ Plan
  \/ Choose \/ LookRound \/ Look \/ LetGo
  \/ Others \/ Restart

Spec == Init /\ [][Next]_vars

---------------------------------------------------------------------------
(* Properties.                                                             *)

\* Every wire joins a source and a speaker there are, once, and never a device to itself, and
\* nothing has an id that was not handed out: through every removal, setup brought back and
\* door merged, in any order.
BayWhole ==
  /\ \A w \in bay.wires :
       /\ Joins(bay, w) /\ ~OwnSpeaker(bay, w)
       /\ \A x \in bay.wires : x.source = w.source /\ x.speaker = w.speaker => x = w
  /\ DOMAIN bay.sources \cap DOMAIN bay.speakers = {}
  /\ DOMAIN bay.sources \cup DOMAIN bay.speakers \subseteq 1..bay.last
  /\ bay.setup # None =>
       \A w \in bay.setup : {w.source, w.speaker} \subseteq 1..bay.last

\* No speaker is selected by two senders that did what they were last told: each lets go of a
\* speaker before another takes it, whatever changed in between.
OneSenderEach == \A s, t \in heard : s # t => selected[s] \cap selected[t] = {}

\* What plays goes on playing from the same sender when its speakers stay together, whoever
\* joins them and whatever else is planned.
PlayingGoesOn == [][
  running' # <<>> => \A i \in DOMAIN running :
    LET r == running[i]
        alone(g) == \A j \in DOMAIN running \ {i} : running[j].speakers \cap g = {} IN
    r.sender # NoSender =>
      \A k \in DOMAIN running' :
        r.speakers \subseteq running'[k].speakers /\ alone(running'[k].speakers)
          => running'[k].sender = r.sender ]_vars

\* When the player and the control thread have caught up, a sender that did what it was told
\* plays nothing but its own group's speakers, and where nothing went wrong every sender plays
\* all of them: what was told in between, in whatever batches, adds up to what is planned.
PlannedIsPlayed ==
  ~moved /\ told = <<>> =>
    /\ \A s \in heard : selected[s] \subseteq PlayedBy(running, s)
    /\ mishaps = 0 => \A s \in Senders : selected[s] = PlayedBy(running, s)

\* Every group with an AirPlay speaker has a sender to play it: "no more than this many groups
\* can include an AirPlay speaker".
SendersSuffice ==
  ~moved => \A i \in DOMAIN running : running[i].airplay # {} => running[i].sender # NoSender
=============================================================================
