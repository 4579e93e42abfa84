---------------------------- MODULE LoopsProofs ----------------------------
(***************************************************************************)
(* Proofs about Loops, and at the end about the Ticker whose passes look   *)
(* at the items.                                                           *)
(*                                                                         *)
(* Each operator on an item takes an item to an item and leaves its heads, *)
(* checks and hands alone (Keeps); one that wakes somebody leaves a        *)
(* blocked item's turn alone, but for the owner's words (Quiet).  The      *)
(* invariant adds to the types and GateIsOfTheHead that a head, or a check *)
(* under way, is somebody's (HeadIsKnown): else a report could wake nobody *)
(* there is.                                                               *)
(***************************************************************************)
EXTENDS Loops, SequenceTheorems, TLAPS

Someone == Members \cup {Nobody}
Whys    == {"Assigned", "SentBack", "ReviewRequested", "ProposalDecided"}
TurnSet == {NoTurn} \cup [who : Members, why : Whys, at : {"queued", "started", "running"}]
WaitSet == [who : Members, why : Whys]
ItemSet ==
  [status : {"todo", "doing", "in_review", "blocked", "done", "dropped"},
   owner : Someone, assignee : Someone, fails : 0 .. FailuresARank - 1, heldFor : Someone,
   over : SUBSET Members, hands : SUBSET Members, gate : {"none", "shut", "open"},
   head : Someone, check : Someone, turn : TurnSet, waits : Seq(WaitSet),
   older : BOOLEAN, passed : BOOLEAN, failed : BOOLEAN, nudged : BOOLEAN,
   asked : {"no", "waiting", "to_read", "decided"}, by : Someone]

Away   == away \in [Members -> {"here", "paused", "away"}]
Shapes == it \in ItemSet /\ Away /\ spare \in 0 .. MaxSpare

\* A head, and a check under way, is somebody's; and who submitted the head had a hand in the item.
HeadIsKnown == /\ it.head # Nobody => it.head \in it.hands
               /\ it.gate # "none" => it.head \in Members
               /\ it.check # Nobody => it.gate # "none"

Inv == Shapes /\ GateIsOfTheHead /\ HeadIsKnown

\* What nothing changes but submissions, checks and verdicts.
Keeps(i, j) ==
  /\ j \in ItemSet
  /\ j.gate = i.gate /\ j.passed = i.passed /\ j.head = i.head /\ j.check = i.check
  /\ i.hands \subseteq j.hands
  /\ j.status = "done" => i.status = "done"

\* An item that stays blocked has its turn as it was, none that is queued, or the owner's words'.
Quiet(i, j) == i.status = "blocked" /\ j.status = "blocked" =>
  j.turn = i.turn \/ j.turn.at # "queued" \/ j.turn.why = "ProposalDecided"

---------------------------------------------------------------------------
(* Who.                                                                    *)

LEMMA FirstOfSome ==
  ASSUME NEW A, NEW B, NEW C
  PROVE  /\ FirstOf(<<A>>) = Nobody \/ FirstOf(<<A>>) \in A
         /\ FirstOf(<<A, B>>) = Nobody \/ FirstOf(<<A, B>>) \in A \cup B
         /\ FirstOf(<<A, B, C>>) = Nobody \/ FirstOf(<<A, B, C>>) \in A \cup B \cup C
  <1>1. ASSUME NEW sets, NEW k \in {1, 2, 3}, DOMAIN sets = 1..k
        PROVE  FirstOf(sets) = Nobody \/ \E n \in 1..k : FirstOf(sets) \in sets[n]
    <2>1. PICK some : some = {n \in DOMAIN sets : sets[n] # {}} OBVIOUS
    <2>2. CASE some = {} BY <2>1, <2>2 DEF FirstOf
    <2>3. CASE some # {}
      <3>1. some \subseteq {1, 2, 3} BY <1>1, <2>1
      <3>2. \E n \in some : \A j \in some : n <= j
        <4>1. CASE 1 \in some BY <3>1, <4>1
        <4>2. CASE 1 \notin some /\ 2 \in some BY <3>1, <4>2
        <4>3. CASE some = {3} BY <4>3
        <4> QED  BY <2>3, <3>1, <4>1, <4>2, <4>3
      <3>3. PICK n : n = CHOOSE p \in some : \A j \in some : p <= j OBVIOUS
      <3>4. n \in some BY <3>2, <3>3
      <3>5. FirstOf(sets) = CHOOSE m \in sets[n] : TRUE BY <2>1, <2>3, <3>3 DEF FirstOf
      <3>6. n \in 1..k /\ sets[n] # {} BY <1>1, <2>1, <3>4
      <3>7. (CHOOSE m \in sets[n] : TRUE) \in sets[n] BY <3>6
      <3> QED  BY <3>5, <3>6, <3>7
    <2> QED  BY <2>2, <2>3
  <1>2. FirstOf(<<A>>) = Nobody \/ FirstOf(<<A>>) \in A
    <2>1. PICK sets : sets = <<A>> OBVIOUS
    <2>2. DOMAIN sets = 1..1 /\ sets[1] = A BY <2>1
    <2>3. FirstOf(sets) = Nobody \/ \E n \in 1..1 : FirstOf(sets) \in sets[n] BY <1>1, <2>2
    <2> QED  BY <2>1, <2>2, <2>3
  <1>3. FirstOf(<<A, B>>) = Nobody \/ FirstOf(<<A, B>>) \in A \cup B
    <2>1. PICK sets : sets = <<A, B>> OBVIOUS
    <2>2. DOMAIN sets = 1..2 /\ sets[1] = A /\ sets[2] = B BY <2>1
    <2>3. FirstOf(sets) = Nobody \/ \E n \in 1..2 : FirstOf(sets) \in sets[n] BY <1>1, <2>2
    <2> QED  BY <2>1, <2>2, <2>3
  <1>4. FirstOf(<<A, B, C>>) = Nobody \/ FirstOf(<<A, B, C>>) \in A \cup B \cup C
    <2>1. PICK sets : sets = <<A, B, C>> OBVIOUS
    <2>2. DOMAIN sets = 1..3 /\ sets[1] = A /\ sets[2] = B /\ sets[3] = C BY <2>1
    <2>3. FirstOf(sets) = Nobody \/ \E n \in 1..3 : FirstOf(sets) \in sets[n] BY <1>1, <2>2
    <2> QED  BY <2>1, <2>2, <2>3
  <1> QED  BY <1>2, <1>3, <1>4

LEMMA InTheTeam ==
  AtWork \subseteq Members /\ Team \subseteq AtWork
  BY DEF AtWork, Team

LEMMA Uppers ==
  ASSUME NEW ms, NEW rank
  PROVE  Above(ms, rank) \subseteq ms /\ Below(ms, rank) \subseteq ms
  BY DEF Above, Below

\* A reviewer had no hand in the item, was not passed over, and is not who holds it.
LEMMA ReviewersAreOthers ==
  ASSUME NEW i, Reviewer(i) # Nobody
  PROVE  /\ Reviewer(i) \in Members /\ Reviewer(i) \notin i.hands \cup i.over
         /\ Reviewer(i) # Holder(i) /\ LoopHolds(i)
  <1>1. PICK ms : ms = {m \in AtWork : m = Holder(i) \/ m \notin i.over \cup i.hands} OBVIOUS
  <1>2. LoopHolds(i) /\ Reviewer(i) = ReviewerAmong(Holder(i), ms) BY <1>1 DEF Reviewer
  <1>3. PICK w, m : w = Holder(i) /\ m = Reviewer(i) OBVIOUS
  <1>4. m \in ms \ {w}
    <2>1. PICK others, rank : others = ms \ {w} /\ rank = Rank[w] OBVIOUS
    <2>2. \/ m = FirstOf(<<Above({o \in others : Rank[o] >= CappedAt}, rank), Below(others, rank),
                           Above(others, rank)>>)
          \/ m = FirstOf(<<{o \in others : Rank[o] = CappedAt}, Below(others, CappedAt),
                           Above(others, CappedAt)>>)
      BY <1>2, <1>3, <2>1 DEF ReviewerAmong
    <2>3. m # Nobody BY <1>3
    <2>4. CASE m = FirstOf(<<Above({o \in others : Rank[o] >= CappedAt}, rank), Below(others, rank),
                             Above(others, rank)>>)
      <3>1. m \in Above({o \in others : Rank[o] >= CappedAt}, rank) \cup Below(others, rank)
                    \cup Above(others, rank)
        BY <2>3, <2>4, FirstOfSome
      <3> QED  BY <2>1, <3>1 DEF Above, Below
    <2>5. CASE m = FirstOf(<<{o \in others : Rank[o] = CappedAt}, Below(others, CappedAt),
                             Above(others, CappedAt)>>)
      <3>1. m \in {o \in others : Rank[o] = CappedAt} \cup Below(others, CappedAt)
                    \cup Above(others, CappedAt)
        BY <2>3, <2>5, FirstOfSome
      <3> QED  BY <2>1, <3>1 DEF Above, Below
    <2> QED  BY <2>2, <2>4, <2>5
  <1> QED  BY <1>1, <1>2, <1>3, <1>4, InTheTeam

---------------------------------------------------------------------------
(* Waking.                                                                 *)

\* A wake queues a turn, is held, or does nothing; and one that may not reach a blocked item does
\* nothing there.
LEMMA WakeIs ==
  ASSUME NEW i, NEW m, NEW why
  PROVE  /\ \/ Wake(i, m, why) = Queued(i, m, why)
            \/ Wake(i, m, why) = [i EXCEPT !.waits = Append(@, [who |-> m, why |-> why])]
            \/ Wake(i, m, why) = i
         /\ i.status = "blocked" /\ why \notin ReachesBlockedItem => Wake(i, m, why) = i
  <1>1. PICK said : said = Decide(m, Situation(i, m, why)) OBVIOUS
  <1>2. Wake(i, m, why) = CASE said = "Queue" -> Queued(i, m, why)
                            [] said = "Hold" -> [i EXCEPT !.waits = Append(@, [who |-> m, why |-> why])]
                            [] OTHER -> i
    BY <1>1 DEF Wake
  <1>3. ASSUME i.status = "blocked", why \notin ReachesBlockedItem PROVE said = "Refuse"
    <2>1. TurnedAway(Situation(i, m, why)) BY <1>3 DEF TurnedAway, Situation
    <2> QED  BY <1>1, <2>1 DEF Decide
  <1> QED  BY <1>2, <1>3

\* What a letting go does: the oldest held wake stays, is dropped, or is its turn; and one that may
\* not reach a blocked item is dropped.
LEMMA ReleaseIs ==
  ASSUME NEW i, i.waits # <<>>, NEW w, w = Head(i.waits)
  PROVE  /\ \/ ReleaseHeld(i) = Queued([i EXCEPT !.waits = Tail(@)], w.who, w.why)
            \/ ReleaseHeld(i) = i
            \/ ReleaseHeld(i) = [i EXCEPT !.waits = Tail(@)]
         /\ i.status = "blocked" /\ w.why \notin ReachesBlockedItem
              => ReleaseHeld(i) = [i EXCEPT !.waits = Tail(@)]
  <1>1. PICK rest, said : /\ rest = [i EXCEPT !.waits = Tail(@)]
                          /\ said = Decide(w.who, [Situation(i, w.who, w.why) EXCEPT !.alreadyHeld = FALSE])
    OBVIOUS
  <1>2. ReleaseHeld(i) = CASE said = "Queue" -> Queued(rest, w.who, w.why)
                           [] said = "Hold" -> i
                           [] OTHER -> rest
    BY <1>1 DEF ReleaseHeld
  <1>3. ASSUME i.status = "blocked", w.why \notin ReachesBlockedItem PROVE said = "Refuse"
    <2>1. PICK s : s = [Situation(i, w.who, w.why) EXCEPT !.alreadyHeld = FALSE] OBVIOUS
    <2>2. s.blockedForTheOwner BY <1>3, <2>1 DEF Situation
    <2>3. TurnedAway(s) BY <2>2 DEF TurnedAway
    <2> QED  BY <1>1, <2>1, <2>3 DEF Decide
  <1> QED  BY <1>1, <1>2, <1>3

\* Of what items are woken for here, only the owner's words reach a blocked one.
LEMMA OnlyWordsReach == \A why \in Whys : why \in ReachesBlockedItem => why = "ProposalDecided"
  BY DEF Whys, ReachesBlockedItem

LEMMA QueuedKeeps ==
  ASSUME NEW i \in ItemSet, NEW m \in Members, NEW why \in Whys, NEW j, j = Queued(i, m, why)
  PROVE  /\ Keeps(i, j) /\ j.status = i.status /\ j.turn.why = why
         /\ j.owner = i.owner /\ j.assignee = i.assignee /\ j.heldFor = i.heldFor /\ j.hands = i.hands
  <1>1. [who |-> m, why |-> why, at |-> "queued"] \in TurnSet BY DEF TurnSet
  <1> QED  BY <1>1 DEF Queued, Keeps, ItemSet

\* What wakes do: nothing but to the turn and the held wakes.
OnlyWakes(i, j) ==
  /\ Keeps(i, j) /\ Quiet(i, j) /\ j.status = i.status
  /\ j.owner = i.owner /\ j.assignee = i.assignee /\ j.heldFor = i.heldFor /\ j.hands = i.hands

LEMMA WakeWakes ==
  ASSUME NEW i \in ItemSet, NEW m \in Members, NEW why \in Whys
  PROVE  OnlyWakes(i, Wake(i, m, why))
  <1>1. CASE Wake(i, m, why) = Queued(i, m, why)
    <2>0. PICK j : j = Queued(i, m, why) OBVIOUS
    <2>2. /\ Keeps(i, j) /\ j.status = i.status /\ j.turn.why = why
          /\ j.owner = i.owner /\ j.assignee = i.assignee /\ j.heldFor = i.heldFor /\ j.hands = i.hands
      BY <2>0, QueuedKeeps
    <2>1. Quiet(i, j)
      <3>1. CASE i.status # "blocked" BY <3>1 DEF Quiet
      <3>2. CASE i.status = "blocked" /\ why \in ReachesBlockedItem
        BY <2>2, <3>2, OnlyWordsReach DEF Quiet
      <3>3. CASE i.status = "blocked" /\ why \notin ReachesBlockedItem
        <4>1. j = i BY <1>1, <2>0, <3>3, WakeIs
        <4> QED  BY <4>1 DEF Quiet
      <3> QED  BY <3>1, <3>2, <3>3
    <2> QED  BY <1>1, <2>0, <2>1, <2>2 DEF OnlyWakes
  <1>2. CASE Wake(i, m, why) = [i EXCEPT !.waits = Append(@, [who |-> m, why |-> why])]
    <2>1. i.waits \in Seq(WaitSet) /\ [who |-> m, why |-> why] \in WaitSet BY DEF ItemSet, WaitSet
    <2>2. PICK all : all = Append(i.waits, [who |-> m, why |-> why]) OBVIOUS
    <2>3. all \in Seq(WaitSet) BY <2>1, <2>2, AppendProperties
    <2>4. Wake(i, m, why) = [i EXCEPT !.waits = all] BY <1>2, <2>2
    <2> QED  BY <2>3, <2>4 DEF OnlyWakes, Keeps, Quiet, ItemSet
  <1>3. CASE Wake(i, m, why) = i
    BY <1>3 DEF OnlyWakes, Keeps, Quiet
  <1> QED  BY <1>1, <1>2, <1>3, WakeIs

LEMMA ReleaseWakes ==
  ASSUME NEW i \in ItemSet
  PROVE  OnlyWakes(i, ReleaseHeld(i))
  <1>1. CASE i.waits = <<>>
    BY <1>1 DEF ReleaseHeld, OnlyWakes, Keeps, Quiet
  <1>2. CASE i.waits # <<>>
    <2>1. PICK w, rest : w = Head(i.waits) /\ rest = [i EXCEPT !.waits = Tail(@)] OBVIOUS
    <2>2. i.waits \in Seq(WaitSet) BY DEF ItemSet
    <2>3. w \in WaitSet /\ Tail(i.waits) \in Seq(WaitSet) BY <1>2, <2>1, <2>2, HeadTailProperties
    <2>4. PICK tail : tail = Tail(i.waits) OBVIOUS
    <2>5. rest = [i EXCEPT !.waits = tail] /\ tail \in Seq(WaitSet) BY <2>1, <2>3, <2>4
    <2>6. OnlyWakes(i, rest) /\ rest.turn = i.turn
      BY <2>5 DEF OnlyWakes, Keeps, Quiet, ItemSet
    <2>7. w.who \in Members /\ w.why \in Whys BY <2>3 DEF WaitSet
    <2>8. CASE ReleaseHeld(i) = Queued(rest, w.who, w.why)
      <3>1. PICK j : j = Queued(rest, w.who, w.why) OBVIOUS
      <3>2. rest \in ItemSet BY <2>6 DEF OnlyWakes, Keeps
      <3>3. /\ Keeps(rest, j) /\ j.status = rest.status /\ j.turn.why = w.why
            /\ j.owner = rest.owner /\ j.assignee = rest.assignee /\ j.heldFor = rest.heldFor
            /\ j.hands = rest.hands
        BY <2>7, <3>1, <3>2, QueuedKeeps
      <3>4. Quiet(i, j)
        <4>1. CASE i.status # "blocked" BY <4>1 DEF Quiet
        <4>2. CASE w.why \in ReachesBlockedItem BY <2>7, <3>3, <4>2, OnlyWordsReach DEF Quiet
        <4>3. CASE i.status = "blocked" /\ w.why \notin ReachesBlockedItem
          <5>1. j = rest BY <1>2, <2>1, <2>8, <3>1, <4>3, ReleaseIs
          <5> QED  BY <2>6, <5>1 DEF OnlyWakes
        <4> QED  BY <4>1, <4>2, <4>3
      <3> QED  BY <2>6, <2>8, <3>1, <3>3, <3>4 DEF OnlyWakes, Keeps
    <2>9. CASE ReleaseHeld(i) = i
      BY <2>9 DEF OnlyWakes, Keeps, Quiet
    <2> QED  BY <1>2, <2>1, <2>6, <2>8, <2>9, ReleaseIs
  <1> QED  BY <1>1, <1>2

LEMMA OverWakes ==
  ASSUME NEW i \in ItemSet
  PROVE  OnlyWakes(i, Over(i))
  <1>1. PICK j : j = [i EXCEPT !.turn = NoTurn] OBVIOUS
  <1>2. NoTurn \in TurnSet BY DEF TurnSet
  <1>3. OnlyWakes(i, j) /\ j.turn = NoTurn
    BY <1>1, <1>2 DEF OnlyWakes, Keeps, Quiet, ItemSet, NoTurn
  <1>4. PICK k : k = ReleaseHeld(j) OBVIOUS
  <1>5. OnlyWakes(j, k) BY <1>3, <1>4, ReleaseWakes DEF OnlyWakes, Keeps
  <1> QED  BY <1>1, <1>3, <1>4, <1>5 DEF Over, OnlyWakes, Keeps, Quiet, NoTurn
---------------------------------------------------------------------------
(* Failures, reviews, and what the tick does.                              *)

\* A climb: it is another's, and that one is woken.
LEMMA ClimbKeeps ==
  ASSUME NEW i \in ItemSet, NEW up \in Members
  PROVE  Keeps(i, Climb(i, up)) /\ Climb(i, up).status = "todo" /\ Climb(i, up).hands = i.hands
  <1>1. PICK j : j = [i EXCEPT !.owner = Nobody, !.assignee = up, !.status = "todo", !.by = Nobody]
    OBVIOUS
  <1>2. Keeps(i, j) /\ j.status = "todo" /\ j.hands = i.hands
    BY <1>1 DEF Keeps, ItemSet, Someone
  <1>3. OnlyWakes(j, Wake(j, up, "Assigned"))
    BY <1>2, WakeWakes DEF Keeps, Whys
  <1> QED  BY <1>1, <1>2, <1>3 DEF Climb, OnlyWakes, Keeps

\* The rank above's are members.
LEMMA RankUpIsAMember ==
  ASSUME NEW ms, NEW i
  PROVE  OneRankUp(ms, i) = Nobody \/ OneRankUp(ms, i) \in ms
  BY FirstOfSome, Uppers DEF OneRankUp

\* A failure moves the item on, or not; one that leaves it blocked leaves its turn.
LEMMA FailedKeeps ==
  ASSUME ConstantsFit, NEW i \in ItemSet
  PROVE  LET f == Failed(i) IN
         /\ Keeps(i, f) /\ f.status \in {i.status, "todo", "blocked"} /\ f.hands = i.hands
         /\ f.status = "blocked" => f.turn = i.turn
  <1>1. CASE ~LoopHolds(i) \/ i.heldFor # Nobody
    BY <1>1 DEF Failed, Keeps
  <1>2. CASE LoopHolds(i) /\ i.heldFor = Nobody /\ i.fails + 1 < FailuresARank
    <2>1. PICK n : n = i.fails + 1 OBVIOUS
    <2>2. n \in 0 .. FailuresARank - 1
      BY <1>2, <2>1 DEF ItemSet, ConstantsFit
    <2>3. Failed(i) = [i EXCEPT !.fails = n]
      BY <1>2, <2>1 DEF Failed
    <2> QED  BY <2>2, <2>3 DEF Keeps, ItemSet
  <1>3. CASE LoopHolds(i) /\ i.heldFor = Nobody /\ ~(i.fails + 1 < FailuresARank)
    <2>1. PICK f, g : f = [i EXCEPT !.fails = 0] /\ g = Failed(i) OBVIOUS
    <2>2. Keeps(i, f) /\ f.status = i.status /\ f.hands = i.hands /\ f.turn = i.turn
      BY <2>1 DEF Keeps, ItemSet, ConstantsFit
    <2>3. \/ OneRankUp(Team, i) # Nobody /\ g = Climb(f, OneRankUp(Team, i))
          \/ g = HoldFor(f)
          \/ OneRankUp(Team, i) = Nobody /\ OneRankUp(AtWork, i) # Nobody /\ g = HoldFor(f)
          \/ g = BlockIt(f)
      BY <1>3, <2>1 DEF Failed
    <2>4. CASE OneRankUp(Team, i) # Nobody /\ g = Climb(f, OneRankUp(Team, i))
      <3>1. PICK up : up = OneRankUp(Team, i) OBVIOUS
      <3>2. up \in Members BY <2>4, <3>1, RankUpIsAMember, InTheTeam
      <3>3. Keeps(f, g) /\ g.status = "todo" /\ g.hands = f.hands
        BY <2>2, <2>4, <3>1, <3>2, ClimbKeeps DEF Keeps
      <3> QED  BY <2>1, <2>2, <3>3 DEF Keeps
    <2>5. CASE g = HoldFor(f)
      <3>1. Holder(f) \in Someone BY <2>2 DEF Keeps, ItemSet, Holder
      <3>2. PICK h : h = Holder(f) OBVIOUS
      <3>3. g = [f EXCEPT !.heldFor = h, !.owner = Nobody, !.status = "todo", !.by = Nobody]
        BY <2>5, <3>2 DEF HoldFor
      <3>5. f \in ItemSet /\ h \in Someone /\ Nobody \in Someone
        BY <2>2, <3>1, <3>2 DEF Keeps, Someone
      <3>6. g \in ItemSet
        BY <3>3, <3>5 DEF ItemSet
      <3>4. Keeps(f, g) /\ g.status = "todo" /\ g.hands = f.hands
        BY <3>3, <3>5, <3>6 DEF Keeps, ItemSet
      <3> QED  BY <2>1, <2>2, <3>4 DEF Keeps
    <2>6. CASE g = BlockIt(f)
      <3>1. Keeps(f, g) /\ g.status = "blocked" /\ g.hands = f.hands /\ g.turn = f.turn
        BY <2>2, <2>6 DEF BlockIt, Ask, Keeps, ItemSet, Someone
      <3> QED  BY <2>1, <2>2, <3>1 DEF Keeps
    <2> QED  BY <2>3, <2>4, <2>5, <2>6
  <1> QED  BY <1>1, <1>2, <1>3

\* The owner is asked: nothing else of the item changes.
LEMMA AskKeeps ==
  ASSUME NEW i \in ItemSet
  PROVE  /\ OnlyWakes(i, Ask(i)) /\ OnlyWakes(i, ToRead(i))
  BY DEF Ask, ToRead, OnlyWakes, Keeps, Quiet, ItemSet

\* A review is asked for of an item somebody holds.
LEMMA AskReviewKeeps ==
  ASSUME ConstantsFit, NEW i \in ItemSet, Holder(i) \in Members, NEW forbidden \in BOOLEAN
  PROVE  Keeps(i, AskReview(i, forbidden))
  <1>1. PICK a, j : a = [i EXCEPT !.over = {}] /\ j = AskReview(i, forbidden) OBVIOUS
  <1>2. Keeps(i, a) /\ Holder(a) = Holder(i)
    BY <1>1 DEF Keeps, ItemSet, Holder
  <1>3. CASE forbidden
    <2>1. PICK d, w : d = [a EXCEPT !.status = "doing"] /\ w = Wake(d, Holder(i), "SentBack") OBVIOUS
    <2>2. Keeps(a, d) BY <1>2, <2>1 DEF Keeps, ItemSet
    <2>3. OnlyWakes(d, w) BY <2>1, <2>2, WakeWakes DEF Keeps, Whys
    <2>4. w \in ItemSet BY <2>3 DEF OnlyWakes, Keeps
    <2>5. Keeps(w, Failed(w)) BY <2>4, FailedKeeps
    <2>6. j = Failed(w) BY <1>1, <1>3, <2>1 DEF AskReview
    <2> QED  BY <1>1, <1>2, <2>2, <2>3, <2>5, <2>6 DEF OnlyWakes, Keeps
  <1>4. CASE ~forbidden /\ Reviewer(a) # Nobody
    <2>1. Reviewer(a) \in Members BY <1>4, ReviewersAreOthers
    <2>2. PICK m : m = Reviewer(a) OBVIOUS
    <2>3. OnlyWakes(a, Wake(a, m, "ReviewRequested")) BY <1>2, <2>1, <2>2, WakeWakes DEF Keeps, Whys
    <2>4. j = Wake(a, m, "ReviewRequested") BY <1>1, <1>4, <2>2 DEF AskReview
    <2> QED  BY <1>1, <1>2, <2>3, <2>4 DEF OnlyWakes, Keeps
  <1>5. CASE ~forbidden /\ Reviewer(a) = Nobody
    <2>1. j = ToRead(a) BY <1>1, <1>5 DEF AskReview
    <2>2. OnlyWakes(a, j) BY <1>2, <2>1, AskKeeps DEF Keeps
    <2> QED  BY <1>1, <1>2, <2>2 DEF OnlyWakes, Keeps
  <1> QED  BY <1>3, <1>4, <1>5

\* What the end of a turn costs, or goes on with.
LEMMA NothingShownKeeps ==
  ASSUME ConstantsFit, NEW i \in ItemSet, NEW m, NEW n \in NothingShown(i, m)
  PROVE  Keeps(i, n) /\ n.hands = i.hands
         /\ (n.status = "blocked" => n.turn = i.turn)
  <1>1. n = i \/ n = Failed(i) BY DEF NothingShown
  <1> QED  BY <1>1, FailedKeeps DEF Keeps

LEMMA AfterReviewKeeps ==
  ASSUME NEW i \in ItemSet, NEW m \in Members, NEW why
  PROVE  OnlyWakes(i, AfterReview(i, m, why))
  <1>1. CASE why = "ReviewRequested" /\ i.status = "in_review" /\ Reviewer(i) = m
    <2>2. PICK o : o = [i EXCEPT !.over = @ \cup {m}] OBVIOUS
    <2>3. OnlyWakes(i, o) /\ o \in ItemSet BY <2>2 DEF OnlyWakes, Keeps, Quiet, ItemSet
    <2>4. CASE Reviewer(o) = Nobody
      <3>1. AfterReview(i, m, why) = Ask(o) BY <1>1, <2>2, <2>4 DEF AfterReview
      <3> QED  BY <1>1, <2>3, <3>1, AskKeeps DEF OnlyWakes, Keeps, Quiet
    <2>5. CASE Reviewer(o) # Nobody
      <3>1. Reviewer(o) \in Members BY <2>5, ReviewersAreOthers
      <3>2. PICK r : r = Reviewer(o) OBVIOUS
      <3>3. AfterReview(i, m, why) = Wake(o, r, "ReviewRequested") BY <1>1, <2>2, <2>5, <3>2 DEF AfterReview
      <3>4. OnlyWakes(o, Wake(o, r, "ReviewRequested")) BY <2>3, <3>1, <3>2, WakeWakes DEF Whys
      <3> QED  BY <1>1, <2>3, <3>3, <3>4 DEF OnlyWakes, Keeps, Quiet
    <2> QED  BY <2>4, <2>5
  <1>2. CASE ~(why = "ReviewRequested" /\ i.status = "in_review" /\ Reviewer(i) = m)
    BY <1>2 DEF AfterReview, OnlyWakes, Keeps, Quiet
  <1> QED  BY <1>1, <1>2

LEMMA RanOutKeeps ==
  ASSUME ConstantsFit, NEW i \in ItemSet, NEW m \in Members, NEW n \in RanOut(i, m)
  PROVE  Keeps(i, n) /\ Quiet(i, n) /\ n.hands = i.hands
  <1>1. PICK f : f = Failed(i) OBVIOUS
  <1>2. Keeps(i, f) /\ f.hands = i.hands /\ (f.status = "blocked" => f.turn = i.turn)
        /\ f.status \in {i.status, "todo", "blocked"}
    BY <1>1, FailedKeeps
  <1>3. f \in ItemSet BY <1>2 DEF Keeps
  <1>4. \/ n = Wake(i, m, "ReviewRequested") \/ n = Ask(i) \/ n = Wake(i, m, "Assigned")
        \/ n = Wake(f, m, "Assigned") \/ n = f \/ n = i
    BY <1>1 DEF RanOut
  <1>5. CASE n = Wake(i, m, "ReviewRequested") \/ n = Ask(i) \/ n = Wake(i, m, "Assigned")
    <2>1. OnlyWakes(i, n) BY <1>5, WakeWakes, AskKeeps DEF Whys
    <2> QED  BY <2>1 DEF OnlyWakes
  <1>6. CASE n = Wake(f, m, "Assigned")
    <2>1. OnlyWakes(f, n) BY <1>3, <1>6, WakeWakes DEF Whys
    <2> QED  BY <1>2, <2>1 DEF OnlyWakes, Keeps, Quiet
  <1>7. CASE n = f \/ n = i
    BY <1>2, <1>7 DEF Keeps, Quiet
  <1> QED  BY <1>4, <1>5, <1>6, <1>7

\* The tick's three steps.
LEMMA LetGoKeeps ==
  ASSUME NEW i \in ItemSet
  PROVE  Keeps(i, LetGo(i)) /\ (i.status \notin {"todo", "doing"} => LetGo(i) = i)
  <1>1. PICK h, up : /\ h = Holder(i)
                     /\ up = IF h = Nobody THEN Nobody
                             ELSE FirstOf(<<Above(Team, Rank[h]), Below(Team, Rank[h])>>)
    OBVIOUS
  <1>2. PICK j, to : /\ j = [i EXCEPT !.owner = Nobody, !.assignee = up, !.status = "todo"]
                     /\ to = Wake(j, up, "Assigned")
    OBVIOUS
  <1>3. LetGo(i) = i \/ (up # Nobody /\ LetGo(i) \in {to, Over(to)})
    BY <1>1, <1>2 DEF LetGo
  <1>4. ASSUME up # Nobody PROVE Keeps(i, to) /\ Keeps(i, Over(to))
    <2>1. up \in Members
      <3>1. PICK A, B : A = Above(Team, Rank[h]) /\ B = Below(Team, Rank[h]) OBVIOUS
      <3>2. up = FirstOf(<<A, B>>) BY <1>1, <1>4, <3>1
      <3>3. up \in A \cup B BY <1>4, <3>2, FirstOfSome
      <3> QED  BY <3>1, <3>3, Uppers, InTheTeam
    <2>2. Keeps(i, j) BY <1>2, <2>1 DEF Keeps, ItemSet, Someone
    <2>3. OnlyWakes(j, to) BY <1>2, <2>1, <2>2, WakeWakes DEF Keeps, Whys
    <2>4. to \in ItemSet BY <2>3 DEF OnlyWakes, Keeps
    <2>5. OnlyWakes(to, Over(to)) BY <2>4, OverWakes
    <2> QED  BY <2>2, <2>3, <2>5 DEF OnlyWakes, Keeps
  <1>5. i.status \notin {"todo", "doing"} => LetGo(i) = i
    BY DEF LetGo
  <1> QED  BY <1>3, <1>4, <1>5 DEF Keeps

LEMMA ClimbHeldKeeps ==
  ASSUME NEW i \in ItemSet
  PROVE  Keeps(i, ClimbHeld(i)) /\ (i.status = "blocked" => ClimbHeld(i).status = "blocked"
                                                            /\ ClimbHeld(i).turn = i.turn)
  <1>1. PICK f, up : f = [i EXCEPT !.heldFor = Nobody] /\ up = OneRankUp(Team, i) OBVIOUS
  <1>2. Keeps(i, f) /\ f.status = i.status /\ f.turn = i.turn
    BY <1>1 DEF Keeps, ItemSet, Someone
  <1>3. \/ ClimbHeld(i) = i \/ ClimbHeld(i) = f
        \/ i.status \in {"todo", "doing"} /\ up # Nobody /\ ClimbHeld(i) = Climb(f, up)
    BY <1>1 DEF ClimbHeld
  <1>4. CASE ClimbHeld(i) = i \/ ClimbHeld(i) = f
    BY <1>2, <1>4 DEF Keeps
  <1>5. CASE i.status \in {"todo", "doing"} /\ up # Nobody /\ ClimbHeld(i) = Climb(f, up)
    <2>1. up \in Members BY <1>1, <1>5, RankUpIsAMember, InTheTeam
    <2>2. Keeps(f, Climb(f, up)) BY <1>2, <2>1, ClimbKeeps DEF Keeps
    <2> QED  BY <1>2, <1>5, <2>2 DEF Keeps
  <1> QED  BY <1>3, <1>4, <1>5

LEMMA HandOutKeeps ==
  ASSUME NEW i \in ItemSet
  PROVE  Keeps(i, HandOut(i)) /\ (i.status # "todo" => HandOut(i) = i)
  <1>1. PICK m : m = FirstOf(<<Above({o \in Team : Rank[o] <= StartRank}, StartRank + 1)>>) OBVIOUS
  <1>2. PICK j : j = [i EXCEPT !.assignee = m] OBVIOUS
  <1>3. HandOut(i) = i \/ (i.status = "todo" /\ m # Nobody /\ HandOut(i) = Wake(j, m, "Assigned"))
    BY <1>1, <1>2 DEF HandOut
  <1>4. CASE i.status = "todo" /\ m # Nobody /\ HandOut(i) = Wake(j, m, "Assigned")
    <2>1. PICK A, T : T = {o \in Team : Rank[o] <= StartRank} /\ A = Above(T, StartRank + 1) OBVIOUS
    <2>2. m \in A BY <1>1, <1>4, <2>1, FirstOfSome
    <2>3. m \in Members BY <2>1, <2>2, Uppers, InTheTeam
    <2>4. Keeps(i, j) BY <1>2, <2>3 DEF Keeps, ItemSet, Someone
    <2>5. OnlyWakes(j, Wake(j, m, "Assigned")) BY <2>3, <2>4, WakeWakes DEF Keeps, Whys
    <2> QED  BY <1>4, <2>4, <2>5 DEF OnlyWakes, Keeps
  <1> QED  BY <1>3, <1>4 DEF Keeps, HandOut

---------------------------------------------------------------------------
(* The steps.                                                              *)

\* Who passes an item had no hand in it.
PassedByAnother(i, j) == i.status = "in_review" /\ j.status = "done" => j.by \in Members \ i.hands

\* What each step does.
Good == Inv' /\ PassedByAnother(it, it') /\ Quiet(it, it')

LEMMA SpareKept ==
  ASSUME ConstantsFit, Shapes, Spares \/ UNCHANGED spare
  PROVE  spare' \in 0 .. MaxSpare
  BY DEF ConstantsFit, Shapes, Spares

\* A step that keeps what submissions, checks and verdicts set.
LEMMA KeptIsGood ==
  ASSUME Inv, Keeps(it, it'), Quiet(it, it'), Away', spare' \in 0 .. MaxSpare
  PROVE  Good
  BY DEF Good, Inv, Shapes, GateIsOfTheHead, HeadIsKnown, Keeps, PassedByAnother

\* Who has a turn is a member.
LEMMA InATurn ==
  ASSUME it \in ItemSet, it.turn.at # "none"
  PROVE  /\ Me \in Members /\ it.turn.why \in Whys
         /\ \A at \in {"queued", "started", "running"} : [it.turn EXCEPT !.at = at] \in TurnSet
  BY DEF ItemSet, TurnSet, NoTurn, Me

\* Who holds it by a loop is a member.
LEMMA HoldersAreMembers ==
  ASSUME NEW i, LoopHolds(i)
  PROVE  Holder(i) \in Members
  BY InTheTeam DEF LoopHolds

LEMMA BeginGood ==
  ASSUME ConstantsFit, Inv, Begin
  PROVE  Good
  <1>1. it \in ItemSet /\ it.turn.at = "queued" /\ Away' /\ spare' \in 0 .. MaxSpare
    BY DEF Begin, Inv, Shapes, Away
  <1>2. CASE Finished(it)
    <2>1. it' = Over(it) BY <1>2 DEF Begin
    <2> QED  BY <1>1, <2>1, OverWakes, KeptIsGood DEF OnlyWakes
  <1>3. CASE ~Finished(it)
    <2>1. PICK t, hands : /\ t = [it.turn EXCEPT !.at = "started"]
                          /\ hands = IF it.turn.why \in WorkReasons THEN it.hands \cup {Me} ELSE it.hands
      OBVIOUS
    <2>2. it' = [it EXCEPT !.turn = t, !.hands = hands]
      BY <1>1, <1>3, <2>1 DEF Begin, ItemSet
    <2>3. t \in TurnSet /\ t.at = "started" /\ hands \in SUBSET Members /\ it.hands \subseteq hands
      BY <1>1, <2>1, InATurn DEF ItemSet, TurnSet, NoTurn
    <2>4. Keeps(it, it') /\ Quiet(it, it')
      BY <1>1, <2>2, <2>3 DEF Keeps, Quiet, ItemSet
    <2> QED  BY <1>1, <2>4, KeptIsGood
  <1> QED  BY <1>2, <1>3

LEMMA ClaimGood ==
  ASSUME ConstantsFit, Inv, Claim
  PROVE  Good
  <1>1. it \in ItemSet /\ it.turn.at = "started" /\ Away' /\ spare' \in 0 .. MaxSpare
    BY DEF Claim, Inv, Shapes, Away
  <1>2. PICK t, on : t = [it.turn EXCEPT !.at = "running"] /\ on = [it EXCEPT !.turn = t] OBVIOUS
  <1>3. t \in TurnSet /\ t.at = "running" /\ Me \in Someone
    BY <1>1, <1>2, InATurn DEF ItemSet, TurnSet, NoTurn, Someone
  <1>4. \/ it' = on
        \/ it' = [on EXCEPT !.owner = Me, !.status = IF @ = "todo" THEN "doing" ELSE @]
    BY <1>1, <1>2 DEF Claim, ItemSet
  <1>5. on \in ItemSet /\ Keeps(it, on) /\ on.turn = t
    BY <1>1, <1>2, <1>3 DEF Keeps, ItemSet
  <1>6. Keeps(on, it') /\ it'.turn = t
    BY <1>3, <1>4, <1>5 DEF Keeps, ItemSet
  <1>7. Keeps(it, it') /\ Quiet(it, it')
    BY <1>3, <1>5, <1>6 DEF Keeps, Quiet
  <1> QED  BY <1>1, <1>7, KeptIsGood

\* A new head shuts the gate.
LEMMA SubmitGood ==
  ASSUME ConstantsFit, Inv, Submit
  PROVE  Good
  <1>1. it \in ItemSet /\ Away' /\ Runs /\ spare' \in 0 .. MaxSpare
    BY SpareKept DEF Submit, Inv, Shapes, Away
  <1>2. Me \in Members
    BY <1>1, InATurn DEF Runs
  <1>3. PICK me, older, hands, status :
          /\ me = Me /\ older = (it.older \/ it.check # Nobody) /\ hands = it.hands \cup {me}
          /\ status = IF it.status = "in_review" THEN "doing" ELSE it.status
    OBVIOUS
  <1>4. /\ it' = [it EXCEPT !.gate = "shut", !.head = me, !.check = me, !.hands = hands,
                            !.older = older, !.passed = FALSE, !.status = status]
        /\ me \in Someone /\ hands \in SUBSET Members /\ older \in BOOLEAN
        /\ status \in {"todo", "doing", "in_review", "blocked", "done", "dropped"}
    BY <1>1, <1>2, <1>3 DEF Submit, ItemSet, Someone
  <1>5. it' \in ItemSet
    BY <1>1, <1>4 DEF ItemSet
  <1>6. /\ it'.gate = "shut" /\ it'.passed = FALSE /\ it'.head = me /\ it'.turn = it.turn
        /\ it'.status = status /\ it'.hands = hands
    BY <1>1, <1>4 DEF ItemSet
  <1> QED  BY <1>1, <1>2, <1>3, <1>5, <1>6
           DEF Good, Inv, Shapes, GateIsOfTheHead, HeadIsKnown, PassedByAnother, Quiet

LEMMA RecheckGood ==
  ASSUME ConstantsFit, Inv, Recheck
  PROVE  Good
  <1>1. it \in ItemSet /\ Away' /\ Runs /\ spare' \in 0 .. MaxSpare /\ it.gate # "none"
    BY SpareKept DEF Recheck, Inv, Shapes, Away
  <1>2. PICK me : me = Me OBVIOUS
  <1>3. me \in Someone /\ it' = [it EXCEPT !.check = me]
    BY <1>1, <1>2, InATurn DEF Runs, Recheck, Someone
  <1>4. it' \in ItemSet /\ it'.gate = it.gate /\ it'.passed = it.passed /\ it'.head = it.head
        /\ it'.turn = it.turn /\ it'.status = it.status /\ it'.hands = it.hands
    BY <1>1, <1>3 DEF ItemSet
  <1> QED  BY <1>1, <1>4
           DEF Good, Inv, Shapes, GateIsOfTheHead, HeadIsKnown, PassedByAnother, Quiet

LEMMA ReadyGood ==
  ASSUME ConstantsFit, Inv, Ready
  PROVE  Good
  <1>1. it \in ItemSet /\ Away' /\ Mine /\ it.status = "doing" /\ spare' \in 0 .. MaxSpare
    BY DEF Ready, Inv, Shapes, Away
  <1>2. PICK forbidden \in BOOLEAN : it' = AskReview([it EXCEPT !.status = "in_review"], forbidden)
    BY DEF Ready, Forbidden
  <1>3. PICK r : r = [it EXCEPT !.status = "in_review"] OBVIOUS
  <1>4. Keeps(it, r) BY <1>1, <1>3 DEF Keeps, ItemSet
  <1>5. Holder(r) \in Members
    <2>1. Me \in Members /\ it.owner = Me BY <1>1, InATurn DEF Mine, Runs
    <2>2. r.owner = it.owner BY <1>1, <1>3 DEF ItemSet
    <2> QED  BY <2>1, <2>2 DEF Holder, ConstantsFit
  <1>6. Keeps(r, it') BY <1>2, <1>3, <1>4, <1>5, AskReviewKeeps DEF Keeps
  <1>7. Keeps(it, it') /\ Quiet(it, it')
    BY <1>1, <1>3, <1>4, <1>6 DEF Keeps, Quiet
  <1> QED  BY <1>1, <1>7, KeptIsGood

\* What a worker does to the item's status.
LEMMA OwnGood ==
  ASSUME ConstantsFit, Inv, BlockOwn \/ HandBack \/ TakeUp
  PROVE  Good
  <1>1. it \in ItemSet /\ Away' /\ spare' \in 0 .. MaxSpare
    BY SpareKept DEF BlockOwn, HandBack, TakeUp, Inv, Shapes, Away
  <1>2. Keeps(it, it') /\ it'.turn = it.turn
    <2>1. CASE BlockOwn BY <1>1, <2>1 DEF BlockOwn, Ask, Keeps, ItemSet
    <2>2. CASE HandBack BY <1>1, <2>2 DEF HandBack, Keeps, ItemSet, Someone
    <2>3. CASE TakeUp BY <1>1, <2>3 DEF TakeUp, Keeps, ItemSet
    <2> QED  BY <2>1, <2>2, <2>3
  <1> QED  BY <1>1, <1>2, KeptIsGood DEF Quiet

\* A verdict is its reviewer's, who had no hand in the item.
LEMMA PassGood ==
  ASSUME ConstantsFit, Inv, Pass
  PROVE  Good
  <1>1. it \in ItemSet /\ Away' /\ Runs /\ Me = Reviewer(it) /\ spare' \in 0 .. MaxSpare
    BY DEF Pass, Judges, Inv, Shapes, Away
  <1>2. PICK me : me = Me OBVIOUS
  <1>3. me \in Members
    BY <1>1, <1>2, InATurn DEF Runs
  <1>4. me \notin it.hands
    BY <1>1, <1>2, <1>3, ReviewersAreOthers DEF ConstantsFit
  <1>5. it' = [it EXCEPT !.status = "done", !.by = me] /\ it.status = "in_review"
    BY <1>2 DEF Pass, Judges
  <1>6. it' \in ItemSet /\ it'.gate = it.gate /\ it'.passed = it.passed /\ it'.head = it.head
        /\ it'.check = it.check /\ it'.by = me /\ it'.hands = it.hands
    BY <1>1, <1>3, <1>5 DEF ItemSet, Someone
  <1> QED  BY <1>1, <1>3, <1>4, <1>5, <1>6
           DEF Good, Inv, Shapes, GateIsOfTheHead, HeadIsKnown, PassedByAnother, Quiet

LEMMA SendBackGood ==
  ASSUME ConstantsFit, Inv, SendBack
  PROVE  Good
  <1>1. it \in ItemSet /\ Away' /\ Runs /\ Me = Reviewer(it) /\ spare' \in 0 .. MaxSpare
        /\ it.status = "in_review"
    BY DEF SendBack, Judges, Inv, Shapes, Away
  <1>2. Me \in Members
    BY <1>1, InATurn DEF Runs
  <1>3. Holder(it) \in Members
    BY <1>1, <1>2, ReviewersAreOthers, HoldersAreMembers DEF ConstantsFit
  <1>4. PICK d, h, w : /\ d = [it EXCEPT !.status = "doing"] /\ h = Holder(it)
                       /\ w = Wake(d, h, "SentBack")
    OBVIOUS
  <1>5. Keeps(it, d) /\ d \in ItemSet BY <1>1, <1>4 DEF Keeps, ItemSet
  <1>6. OnlyWakes(d, w) BY <1>3, <1>4, <1>5, WakeWakes DEF Whys
  <1>7. w \in ItemSet BY <1>6 DEF OnlyWakes, Keeps
  <1>8. Keeps(w, Failed(w)) BY <1>7, FailedKeeps
  <1>9. it' = Failed(w) BY <1>4 DEF SendBack
  <1>10. Keeps(it, it') /\ Quiet(it, it')
    BY <1>1, <1>5, <1>6, <1>8, <1>9 DEF OnlyWakes, Keeps, Quiet
  <1> QED  BY <1>1, <1>10, KeptIsGood

LEMMA EndGood ==
  ASSUME ConstantsFit, Inv, NEW how \in Ends, End(how)
  PROVE  Good
  <1>1. it \in ItemSet /\ Away' /\ spare' \in 0 .. MaxSpare
        /\ it.turn.at \in {"started", "running"}
    BY SpareKept DEF End, Runs, Inv, Shapes, Away
  <1>2. PICK me, why : me = Me /\ why = it.turn.why OBVIOUS
  <1>3. me \in Members BY <1>1, <1>2, InATurn
  <1>4. PICK e, i : /\ e = [it EXCEPT !.failed = how = "failed",
                                      !.nudged = IF how = "shown" THEN FALSE ELSE @]
                    /\ i = Over(e)
    OBVIOUS
  <1>5. Keeps(it, e) /\ e \in ItemSet /\ e.status = it.status /\ e.turn = it.turn
    <2>1. PICK failed, nudged : /\ failed = (how = "failed")
                                /\ nudged = IF how = "shown" THEN FALSE ELSE it.nudged
      OBVIOUS
    <2>2. e = [it EXCEPT !.failed = failed, !.nudged = nudged]
          /\ failed \in BOOLEAN /\ nudged \in BOOLEAN
      BY <1>1, <1>4, <2>1 DEF ItemSet
    <2> QED  BY <1>1, <2>2 DEF Keeps, ItemSet
  <1>6. OnlyWakes(e, i) /\ i \in ItemSet
    BY <1>4, <1>5, OverWakes DEF OnlyWakes, Keeps
  <1>7. Keeps(it, i) /\ Quiet(it, i) /\ i.status = it.status
    BY <1>5, <1>6 DEF OnlyWakes, Keeps, Quiet
  <1>8. \/ it' = AfterReview(i, me, why)
        \/ \E n \in NothingShown(i, me) : it' = AfterReview(n, me, why)
        \/ it' \in RanOut(i, me)
        \/ it' = i
    BY <1>2, <1>4 DEF End, Ends
  <1>9. Keeps(it, it') /\ Quiet(it, it')
    <2>1. CASE it' = AfterReview(i, me, why)
      <3>1. OnlyWakes(i, it') BY <1>3, <1>6, <2>1, AfterReviewKeeps
      <3> QED  BY <1>7, <3>1 DEF OnlyWakes, Keeps, Quiet
    <2>2. CASE \E n \in NothingShown(i, me) : it' = AfterReview(n, me, why)
      <3>1. PICK n \in NothingShown(i, me) : it' = AfterReview(n, me, why) BY <2>2
      <3>2. Keeps(i, n) /\ (n.status = "blocked" => n.turn = i.turn)
        BY <1>6, NothingShownKeeps
      <3>3. n \in ItemSet BY <3>2 DEF Keeps
      <3>4. OnlyWakes(n, it') BY <1>3, <3>1, <3>3, AfterReviewKeeps
      <3> QED  BY <1>7, <3>2, <3>4 DEF OnlyWakes, Keeps, Quiet
    <2>3. CASE it' \in RanOut(i, me)
      <3>1. Keeps(i, it') /\ Quiet(i, it') BY <1>3, <1>6, <2>3, RanOutKeeps
      <3> QED  BY <1>7, <3>1 DEF Keeps, Quiet
    <2>4. CASE it' = i BY <1>7, <2>4
    <2> QED  BY <1>8, <2>1, <2>2, <2>3, <2>4
  <1> QED  BY <1>1, <1>9, KeptIsGood

LEMMA EndCutGood ==
  ASSUME ConstantsFit, Inv, EndCut
  PROVE  Good
  <1>1. it \in ItemSet /\ Away' /\ spare' \in 0 .. MaxSpare
    BY SpareKept DEF EndCut, Inv, Shapes, Away
  <1>2. PICK i : i = [it EXCEPT !.turn = NoTurn, !.failed = FALSE] OBVIOUS
  <1>3. NoTurn \in TurnSet BY DEF TurnSet
  <1>4. Keeps(it, i) /\ i \in ItemSet /\ i.status = it.status /\ i.turn = NoTurn
    BY <1>1, <1>2, <1>3 DEF Keeps, ItemSet
  <1>5. it' \in {i, ReleaseHeld(i)} BY <1>2 DEF EndCut
  <1>6. OnlyWakes(i, ReleaseHeld(i)) BY <1>4, ReleaseWakes
  <1>7. Keeps(it, it') /\ Quiet(it, it')
    BY <1>4, <1>5, <1>6 DEF OnlyWakes, Keeps, Quiet, NoTurn
  <1> QED  BY <1>1, <1>7, KeptIsGood

\* A report of the newest head's check sets the gate as it says.
LEMMA CheckReportsGood ==
  ASSUME ConstantsFit, Inv, NEW ok \in BOOLEAN, CheckReports(ok)
  PROVE  Good
  <1>1. it \in ItemSet /\ Away' /\ spare' \in 0 .. MaxSpare /\ it.check # Nobody
    BY DEF CheckReports, Inv, Shapes, Away
  <1>2. it.head \in Members
    BY <1>1 DEF Inv, HeadIsKnown
  <1>3. PICK f, r, head, check :
          /\ f = IF ok THEN it ELSE Failed(it)
          /\ r = [f EXCEPT !.gate = IF ok THEN "open" ELSE "shut", !.check = Nobody, !.passed = ok]
          /\ head = it.head /\ check = it.check
    OBVIOUS
  <1>4. Keeps(it, f) /\ f.status \in {it.status, "todo", "blocked"}
        /\ (f.status = "blocked" => f.turn = it.turn)
    <2>1. CASE ok BY <1>1, <1>3, <2>1 DEF Keeps
    <2>2. CASE ~ok BY <1>1, <1>3, <2>2, FailedKeeps
    <2> QED  BY <2>1, <2>2
  <1>5. /\ r \in ItemSet /\ r.gate = (IF ok THEN "open" ELSE "shut") /\ r.passed = ok /\ r.check = Nobody
        /\ r.head = it.head /\ r.status = f.status /\ r.turn = f.turn /\ r.hands = f.hands
    <2>1. PICK gate : gate = IF ok THEN "open" ELSE "shut" OBVIOUS
    <2>2. r = [f EXCEPT !.gate = gate, !.check = Nobody, !.passed = ok] BY <1>3, <2>1
    <2>3. f \in ItemSet /\ f.head = it.head BY <1>4 DEF Keeps
    <2>4. Nobody \in Someone /\ gate \in {"shut", "open"} BY <2>1 DEF Someone
    <2>5. r \in ItemSet BY <2>2, <2>3, <2>4 DEF ItemSet
    <2>6. /\ r.gate = gate /\ r.passed = ok /\ r.check = Nobody
          /\ r.head = f.head /\ r.status = f.status /\ r.turn = f.turn /\ r.hands = f.hands
      BY <2>2, <2>3 DEF ItemSet
    <2> QED  BY <2>1, <2>3, <2>5, <2>6
  <1>6. PICK w : w = Wake(r, head, "SentBack") OBVIOUS
  <1>7. OnlyWakes(r, w) /\ w \in ItemSet
    <2>1. OnlyWakes(r, w) BY <1>2, <1>3, <1>5, <1>6, WakeWakes DEF Whys
    <2> QED  BY <2>1 DEF OnlyWakes, Keeps
  <1>8. \/ r.status = "in_review" /\ it' = Wake([r EXCEPT !.status = "doing"], head, "SentBack")
        \/ it' = r \/ it' = w
        \/ check \in AtWork /\ it' = Wake(w, check, "SentBack")
    BY <1>3, <1>6 DEF CheckReports
  <1>9. Keeps(r, it') /\ Quiet(r, it') /\ (it'.status = "blocked" => r.status = "blocked")
    <2>1. CASE r.status = "in_review" /\ it' = Wake([r EXCEPT !.status = "doing"], head, "SentBack")
      <3>1. PICK d : d = [r EXCEPT !.status = "doing"] OBVIOUS
      <3>2. Keeps(r, d) /\ d \in ItemSet BY <1>5, <3>1 DEF Keeps, ItemSet
      <3>3. OnlyWakes(d, it') BY <1>2, <1>3, <2>1, <3>1, <3>2, WakeWakes DEF Whys
      <3>4. r.status # "blocked" /\ it'.status = "doing" BY <1>5, <2>1, <3>1, <3>3 DEF OnlyWakes, ItemSet
      <3> QED  BY <3>2, <3>3, <3>4 DEF OnlyWakes, Keeps, Quiet
    <2>2. CASE it' = r BY <1>5, <2>2 DEF Keeps, Quiet
    <2>3. CASE it' = w BY <1>7, <2>3 DEF OnlyWakes
    <2>4. CASE check \in AtWork /\ it' = Wake(w, check, "SentBack")
      <3>1. OnlyWakes(w, it') BY <1>7, <2>4, WakeWakes, InTheTeam DEF Whys
      <3> QED  BY <1>7, <3>1 DEF OnlyWakes, Keeps, Quiet
    <2> QED  BY <1>8, <2>1, <2>2, <2>3, <2>4
  <1>10. Inv'
    <2>1. it'.gate = "open" <=> it'.passed BY <1>5, <1>9 DEF Keeps
    <2>2. it'.head = it.head /\ it'.check = Nobody /\ it' \in ItemSet BY <1>5, <1>9 DEF Keeps
    <2>3. it.head \in it.hands /\ it.hands \subseteq it'.hands
      BY <1>2, <1>4, <1>5, <1>9 DEF Keeps, Inv, HeadIsKnown, ConstantsFit
    <2> QED  BY <1>1, <1>2, <2>1, <2>2, <2>3 DEF Inv, Shapes, GateIsOfTheHead, HeadIsKnown
  <1>11. PassedByAnother(it, it')
    BY <1>4, <1>5, <1>9 DEF Keeps, PassedByAnother
  <1>12. Quiet(it, it')
    BY <1>4, <1>5, <1>9 DEF Quiet
  <1> QED  BY <1>10, <1>11, <1>12 DEF Good

\* A check of an older head, an item dropped: nothing is woken.
LEMMA OlderOrDropGood ==
  ASSUME ConstantsFit, Inv, OlderReports \/ Drop
  PROVE  Good
  <1>1. it \in ItemSet /\ Away' /\ spare' \in 0 .. MaxSpare
    BY SpareKept DEF OlderReports, Drop, Inv, Shapes, Away
  <1>2. it' = [it EXCEPT !.older = FALSE] \/ it' = [it EXCEPT !.status = "dropped"]
    BY DEF OlderReports, Drop
  <1>3. Keeps(it, it') /\ it'.turn = it.turn
    BY <1>1, <1>2 DEF Keeps, ItemSet
  <1> QED  BY <1>1, <1>3, KeptIsGood DEF Quiet

LEMMA LoopsTickGood ==
  ASSUME ConstantsFit, Inv, LoopsTick
  PROVE  Good
  <1>1. it \in ItemSet /\ Away' /\ spare' \in 0 .. MaxSpare
    BY DEF LoopsTick, Inv, Shapes, Away
  <1>2. PICK l, c : l = LetGo(it) /\ c = ClimbHeld(l) OBVIOUS
  <1>3. Keeps(it, l) /\ (it.status \notin {"todo", "doing"} => l = it)
    BY <1>1, <1>2, LetGoKeeps
  <1>4. Keeps(l, c) /\ (l.status = "blocked" => c.status = "blocked" /\ c.turn = l.turn)
    BY <1>2, <1>3, ClimbHeldKeeps DEF Keeps
  <1>5. Keeps(c, it') /\ (c.status # "todo" => it' = c)
    <2>1. it' = HandOut(c) BY <1>2 DEF LoopsTick, Ticked
    <2> QED  BY <1>4, <2>1, HandOutKeeps DEF Keeps
  <1>6. Keeps(it, it') /\ Quiet(it, it')
    BY <1>3, <1>4, <1>5 DEF Keeps, Quiet
  <1> QED  BY <1>1, <1>6, KeptIsGood

LEMMA NudgeGood ==
  ASSUME ConstantsFit, Inv, Nudge
  PROVE  Good
  <1>1. it \in ItemSet /\ Away' /\ spare' \in 0 .. MaxSpare /\ it.status # "blocked"
        /\ Holder(it) \in Members
    BY HoldersAreMembers DEF Nudge, Sits, Inv, Shapes, Away
  <1>2. PICK n, h : n = [it EXCEPT !.nudged = TRUE] /\ h = Holder(n) OBVIOUS
  <1>3. Keeps(it, n) /\ h = Holder(it)
    BY <1>1, <1>2 DEF Keeps, ItemSet, Holder
  <1>4. \/ \E forbidden \in BOOLEAN : it' = AskReview(n, forbidden)
        \/ it' = n \/ it' = Wake(n, h, "Assigned")
    BY <1>2 DEF Nudge, Forbidden
  <1>5. Keeps(n, it')
    <2>1. CASE \E forbidden \in BOOLEAN : it' = AskReview(n, forbidden)
      <3>1. PICK forbidden \in BOOLEAN : it' = AskReview(n, forbidden) BY <2>1
      <3>2. n \in ItemSet /\ Holder(n) \in Members BY <1>1, <1>2, <1>3 DEF Keeps
      <3> QED  BY <3>1, <3>2, AskReviewKeeps
    <2>2. CASE it' = n BY <1>3, <2>2 DEF Keeps
    <2>3. CASE it' = Wake(n, h, "Assigned")
      BY <1>1, <1>3, <2>3, WakeWakes DEF Keeps, OnlyWakes, Whys
    <2> QED  BY <1>4, <2>1, <2>2, <2>3
  <1>6. Keeps(it, it') /\ Quiet(it, it')
    BY <1>1, <1>3, <1>5 DEF Keeps, Quiet
  <1> QED  BY <1>1, <1>6, KeptIsGood

LEMMA StalledGood ==
  ASSUME ConstantsFit, Inv, Stalled
  PROVE  Good
  <1>1. it \in ItemSet /\ Away' /\ spare' \in 0 .. MaxSpare /\ it.status # "blocked"
        /\ Holder(it) \in Members
    BY HoldersAreMembers DEF Stalled, Sits, Inv, Shapes, Away
  <1>2. PICK f, h, r : f = Failed(it) /\ h = Holder(f) /\ r = Reviewer(it) OBVIOUS
  <1>3. Keeps(it, f) BY <1>1, <1>2, FailedKeeps
  <1>4. \/ r # Nobody /\ it' = Wake(it, r, "ReviewRequested")
        \/ h = Holder(it) /\ it' = Wake(f, h, "Assigned")
        \/ it' = f
    BY <1>2 DEF Stalled
  <1>5. Keeps(it, it')
    <2>1. CASE r # Nobody /\ it' = Wake(it, r, "ReviewRequested")
      <3>1. r \in Members BY <1>2, <2>1, ReviewersAreOthers
      <3> QED  BY <1>1, <2>1, <3>1, WakeWakes DEF OnlyWakes, Whys
    <2>2. CASE h = Holder(it) /\ it' = Wake(f, h, "Assigned")
      <3>1. OnlyWakes(f, it') BY <1>1, <1>3, <2>2, WakeWakes DEF Keeps, Whys
      <3> QED  BY <1>3, <3>1 DEF OnlyWakes, Keeps
    <2>3. CASE it' = f BY <1>3, <2>3
    <2> QED  BY <1>4, <2>1, <2>2, <2>3
  <1> QED  BY <1>1, <1>5, KeptIsGood DEF Quiet

\* The owner's words may wake a blocked item's holder; a move back wakes one that is blocked no more.
LEMMA OwnerGood ==
  ASSUME ConstantsFit, Inv, (\E words \in BOOLEAN : Answer(words)) \/ MoveBack
  PROVE  Good
  <1>1. it \in ItemSet /\ Away' /\ spare' \in 0 .. MaxSpare
    BY SpareKept DEF Answer, MoveBack, Inv, Shapes, Away
  <1>2. CASE \E words \in BOOLEAN : Answer(words)
    <2>1. PICK a, h : a = [it EXCEPT !.asked = "decided"] /\ h = Holder(a) OBVIOUS
    <2>2. Keeps(it, a) /\ a.turn = it.turn /\ a.status = it.status BY <1>1, <2>1 DEF Keeps, ItemSet
    <2>3. it' = a \/ (h # Nobody /\ it' = Wake(a, h, "ProposalDecided"))
      BY <1>2, <2>1 DEF Answer
    <2>4. h # Nobody => h \in Members
      BY <2>1, <2>2 DEF Keeps, ItemSet, Someone, Holder
    <2>5. it' = a \/ OnlyWakes(a, it')
      BY <2>2, <2>3, <2>4, WakeWakes DEF Keeps, Whys
    <2>6. Keeps(it, it') /\ Quiet(it, it')
      BY <2>2, <2>5 DEF OnlyWakes, Keeps, Quiet
    <2> QED  BY <1>1, <2>6, KeptIsGood
  <1>3. CASE MoveBack
    <2>1. PICK b, h : b = [it EXCEPT !.status = "todo"] /\ h = Holder(b) OBVIOUS
    <2>2. Keeps(it, b) /\ b.status = "todo" BY <1>1, <2>1 DEF Keeps, ItemSet
    <2>3. it' = b \/ (h # Nobody /\ it' = Wake(b, h, "Assigned"))
      BY <1>3, <2>1 DEF MoveBack
    <2>4. h # Nobody => h \in Members
      BY <2>1, <2>2 DEF Keeps, ItemSet, Someone, Holder
    <2>5. it' = b \/ OnlyWakes(b, it')
      BY <2>2, <2>3, <2>4, WakeWakes DEF Keeps, Whys
    <2>6. Keeps(it, it') /\ Quiet(it, it')
      BY <2>2, <2>5 DEF OnlyWakes, Keeps, Quiet
    <2> QED  BY <1>1, <2>6, KeptIsGood
  <1> QED  BY <1>2, <1>3

LEMMA AwayGood ==
  ASSUME ConstantsFit, Inv, NEW m \in Members, Leaves(m) \/ Returns(m)
  PROVE  Good
  <1>1. it' = it /\ spare' \in 0 .. MaxSpare /\ it \in ItemSet
    BY SpareKept DEF Leaves, Returns, Inv, Shapes
  <1>2. Away'
    BY DEF Leaves, Returns, Inv, Shapes, Away
  <1>3. Keeps(it, it') /\ Quiet(it, it')
    BY <1>1 DEF Keeps, Quiet
  <1> QED  BY <1>1, <1>2, <1>3, KeptIsGood

---------------------------------------------------------------------------
LEMMA Beginning ==
  ASSUME ConstantsFit, Init
  PROVE  Inv
  <1>1. /\ {} \in SUBSET Members /\ <<>> \in Seq(WaitSet) /\ NoTurn \in TurnSet /\ Nobody \in Someone
        /\ 0 \in 0 .. FailuresARank - 1
    BY EmptySeq DEF TurnSet, Someone, ConstantsFit
  <1>2. it \in ItemSet
    BY <1>1 DEF Init, NewItem, ItemSet
  <1>3. Away /\ spare \in 0 .. MaxSpare /\ it.gate = "none" /\ it.passed = FALSE /\ it.check = Nobody
        /\ it.head = Nobody
    BY DEF Init, NewItem, Away, ConstantsFit
  <1> QED  BY <1>2, <1>3 DEF Inv, Shapes, GateIsOfTheHead, HeadIsKnown

LEMMA EachStep ==
  ASSUME ConstantsFit, Inv, [Next]_vars
  PROVE  Good
  <1>1. CASE UNCHANGED vars
    <2>1. it \in ItemSet /\ it' = it /\ away' = away /\ spare' = spare
      BY <1>1 DEF vars, Inv, Shapes
    <2> QED  BY <2>1 DEF Good, Inv, Shapes, Away, GateIsOfTheHead, HeadIsKnown, PassedByAnother, Quiet
  <1>2. CASE Next
    BY <1>2, BeginGood, ClaimGood, SubmitGood, RecheckGood, ReadyGood, OwnGood, PassGood, SendBackGood,
       EndGood, EndCutGood, CheckReportsGood, OlderOrDropGood, LoopsTickGood, NudgeGood, StalledGood,
       OwnerGood, AwayGood
       DEF Next
  <1> QED  BY <1>1, <1>2

---------------------------------------------------------------------------
(* The theorems.                                                           *)

LEMMA Inductive == ASSUME ConstantsFit PROVE Spec => []Inv
  <1>1. Init => Inv BY Beginning
  <1>2. Inv /\ [Next]_vars => Inv' BY EachStep DEF Good
  <1> QED  BY <1>1, <1>2, PTL DEF Spec

\* Whoever hands, wakes, fails, climbs or passes an item in whatever order, it is an item, its turn is
\* of a member, and its failures at a rank are fewer than hand it on.
THEOREM TypesKept == ASSUME ConstantsFit PROVE Spec => []TypeOK
  <1>1. ASSUME Inv PROVE TypeOK
    <2>1. it \in ItemSet /\ Away /\ spare \in 0 .. MaxSpare BY <1>1 DEF Inv, Shapes
    <2>2. ASSUME NEW n \in DOMAIN it.waits PROVE it.waits[n].who \in Members
      <3>1. PICK waits : waits = it.waits OBVIOUS
      <3>2. waits \in Seq(WaitSet) /\ n \in DOMAIN waits BY <2>1, <3>1 DEF ItemSet
      <3>3. waits[n] \in WaitSet BY <3>2, ElementOfSeq, LenProperties
      <3> QED  BY <3>1, <3>3 DEF WaitSet
    <2>3. it.turn = NoTurn \/ (it.turn.who \in Members /\ it.turn.at \in {"queued", "started", "running"})
      BY <2>1 DEF ItemSet, TurnSet
    <2>4. \A m \in {it.owner, it.assignee, it.heldFor, it.head, it.check, it.by} : m \in Members \cup {Nobody}
      BY <2>1 DEF ItemSet, Someone
    <2> QED  BY <2>1, <2>2, <2>3, <2>4 DEF TypeOK, ItemSet, Away
  <1> QED  BY <1>1, Inductive, PTL

\* The gate is the newest head's, however many heads and checks of it are in flight (`gate_from`).
THEOREM TheGateIsTheNewestHeads == ASSUME ConstantsFit PROVE Spec => []GateIsOfTheHead
  <1>1. Inv => GateIsOfTheHead BY DEF Inv
  <1> QED  BY <1>1, Inductive, PTL

\* Among any number of members of any ranks, and in whatever order turns, submissions, send-backs,
\* climbs and absences come, nobody passes work they had a hand in (`loop_reviewer_of`).
THEOREM NobodyPassesTheirOwn == ASSUME ConstantsFit PROVE Spec => NoPassOfOnesOwn
  <1>1. Inv /\ [Next]_vars => [it.status = "in_review" /\ it'.status = "done" => it'.by \notin it.hands]_vars
    BY EachStep DEF Good, PassedByAnother
  <1> QED  BY <1>1, Inductive, PTL DEF NoPassOfOnesOwn, Spec

\* Nor is it passed by who submitted its newest head, for they had a hand in it.
THEOREM NobodyPassesTheirHead ==
  ASSUME ConstantsFit
  PROVE  Spec => [][it.status = "in_review" /\ it'.status = "done" => it'.by # it.head]_vars
  <1>1. Inv /\ [Next]_vars => [it.status = "in_review" /\ it'.status = "done" => it'.by # it.head]_vars
    <2>1. ASSUME Inv, PassedByAnother(it, it'), it.status = "in_review", it'.status = "done"
          PROVE  it'.by # it.head
      BY <2>1 DEF PassedByAnother, Inv, HeadIsKnown, ConstantsFit
    <2> QED  BY <2>1, EachStep DEF Good
  <1> QED  BY <1>1, Inductive, PTL DEF Spec

\* While an item is blocked only the owner's words queue a turn on it, though wakes are held from
\* before, checks report and turns end (`blocked_in_the_loops`).
THEOREM OnlyTheOwnerWakesIt == ASSUME ConstantsFit PROVE Spec => OnlyWordsWakeBlocked
  <1>1. Inv /\ [Next]_vars =>
          [(it.status = "blocked" /\ it'.status = "blocked" /\ it'.turn.at = "queued" /\ it'.turn # it.turn)
             => it'.turn.why = "ProposalDecided"]_vars
    BY EachStep DEF Good, Quiet
  <1> QED  BY <1>1, Inductive, PTL DEF OnlyWordsWakeBlocked, Spec

---------------------------------------------------------------------------
(* The ticker: no ask of it is lost and none is answered twice, for any    *)
(* number of threads that ask.  What the runs check is inductive as it     *)
(* stands, once the types are known.                                       *)

CONSTANT Askers
VARIABLES asked, wake, ticker, asking, unserved
T == INSTANCE Ticker

AskInv == T!TypeOK /\ T!AskIsServedOnce

\* What holds when HQ comes up: nobody has asked.
LEMMA AskInvInit == T!Init => AskInv
  BY DEF T!Init, AskInv, T!TypeOK, T!AskIsServedOnce

\* The asker's two steps: until it has woken the ticker it is itself on its way, and then the
\* wake is kept.
LEMMA AskersKeep ==
  ASSUME AskInv, NEW a \in Askers, T!Ask(a) \/ T!Notify(a)
  PROVE  AskInv'
<1>1. CASE T!Ask(a)    BY <1>1 DEF T!Ask, AskInv, T!TypeOK, T!AskIsServedOnce
<1>2. CASE T!Notify(a) BY <1>2 DEF T!Notify, AskInv, T!TypeOK, T!AskIsServedOnce
<1> QED BY <1>1, <1>2

\* The ticker's steps: taking the wake it looks at the flag, and clears it only as it begins.
LEMMA TickerKeeps ==
  ASSUME AskInv, T!ClockDue \/ T!Loop
  PROVE  AskInv'
<1>1. CASE T!ClockDue BY <1>1 DEF T!ClockDue, AskInv, T!TypeOK, T!AskIsServedOnce
<1>2. CASE T!Woken    BY <1>2 DEF T!Woken, AskInv, T!TypeOK, T!AskIsServedOnce
<1>3. CASE T!Look     BY <1>3 DEF T!Look, AskInv, T!TypeOK, T!AskIsServedOnce
<1>4. CASE T!Begin    BY <1>4 DEF T!Begin, AskInv, T!TypeOK, T!AskIsServedOnce
<1>5. CASE T!PassEnds BY <1>5 DEF T!PassEnds, AskInv, T!TypeOK, T!AskIsServedOnce
<1> QED BY <1>1, <1>2, <1>3, <1>4, <1>5 DEF T!Loop

LEMMA AskInvNext == AskInv /\ [T!Next]_(T!vars) => AskInv'
<1>1. ASSUME AskInv, UNCHANGED T!vars PROVE AskInv'
  BY <1>1 DEF T!vars, AskInv, T!TypeOK, T!AskIsServedOnce
<1> QED BY <1>1, AskersKeep, TickerKeeps DEF T!Next

\* Whatever the threads and the clock do, an ask that no pass has served yet is known by its
\* flag, and something is under way that makes the ticker look at it; and the flag is up only for
\* such asks: a pass answers them all, and a wake left over starts no second one
\* (app/hq/src/ticker.rs, PassAsked and run).
THEOREM EveryAskOnce == T!Spec => []T!AskIsServedOnce
<1>1. AskInv => T!AskIsServedOnce BY DEF AskInv
<1> QED BY <1>1, AskInvInit, AskInvNext, PTL DEF T!Spec
=============================================================================
