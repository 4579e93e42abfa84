---------------------------- MODULE SoundProofs ----------------------------
(***************************************************************************)
(* The sound hub, for any senders, speakers, changes and mishaps.  That    *)
(* each AirPlay sender ends up with the speakers planned for it, and that  *)
(* no two ever have one speaker, cannot be seen in what they now have      *)
(* alone: changes are told one after another and done one by one, and a    *)
(* sender may give a speaker up long after it is planned for another.  So  *)
(* the invariant is about what each sender is to have once it did the      *)
(* first n of the changes told: for every n these are apart (Apart), and   *)
(* in the end they are part of what is planned (Part), or, with no mishap, *)
(* all of it (Exact).  It rests on the plan being one: every speaker in    *)
(* one group, every group with one sender and every sender with one group  *)
(* (PlannedAre), which needs the pairing of old groups with new ones, a    *)
(* recursive function of the code's order, to pair each once (KeptApart).  *)
(***************************************************************************)
EXTENDS Sound, FiniteSetTheorems, SequenceTheorems, WellFoundedInduction, TLAPS

---------------------------------------------------------------------------
(* Sets of numbers.                                                        *)

\* Every set of numbers has a least.
LEMMA LeastOf ==
  ASSUME NEW S \in SUBSET Nat, S # {}
  PROVE  Min(S) \in S /\ \A j \in S : Min(S) <= j
<1> DEFINE R == {p \in Nat \X Nat : p[1] < p[2]}
<1>1. IsWellFoundedOn(R, Nat) BY NatLessThanWellFounded DEF OpToRel
<1>2. \E i \in S : \A j \in S : <<j, i>> \notin R
  <2> HIDE DEF R
  <2> QED BY <1>1, WFMin
<1>3. ASSUME NEW i \in Nat, NEW j \in Nat, <<j, i>> \notin R PROVE i <= j
  <2>1. ~(<<j, i>>[1] < <<j, i>>[2]) BY <1>3
  <2> QED BY <2>1
<1> HIDE DEF R
<1>4. \E i \in S : \A j \in S : i <= j BY <1>2, <1>3
<1> QED BY <1>4 DEF Min

---------------------------------------------------------------------------
(* The patchbay, by its parts.                                             *)

Bay(so, sp, wi, se, la) ==
  [sources |-> so, speakers |-> sp, wires |-> wi, setup |-> se, last |-> la]
Meets(so, sp, w) ==
  /\ w.source \in DOMAIN so /\ w.speaker \in DOMAIN sp
  /\ ~(so[w.source].device # None /\ so[w.source].device = sp[w.speaker].device)
IsSource(x)  == x = [kind |-> x.kind, device |-> x.device]
IsSpeaker(x) == x = [kind |-> x.kind, device |-> x.device, borrowed |-> x.borrowed]
Listed(so, sp, la) ==
  /\ la \in Nat /\ DOMAIN so \cap DOMAIN sp = {} /\ DOMAIN so \cup DOMAIN sp \subseteq 1..la
  /\ so = [i \in DOMAIN so |-> so[i]] /\ \A i \in DOMAIN so : IsSource(so[i])
  /\ sp = [s \in DOMAIN sp |-> sp[s]] /\ \A s \in DOMAIN sp : IsSpeaker(sp[s])
Fits(so, sp, wi, se, la) ==
  /\ Listed(so, sp, la)
  /\ Drawn(wi, la) /\ \A w \in wi : Meets(so, sp, w)
  /\ se # None => Drawn(se, la)

LEMMA BayParts ==
  ASSUME NEW so, NEW sp, NEW wi, NEW se, NEW la
  PROVE  /\ Bay(so, sp, wi, se, la).sources = so /\ Bay(so, sp, wi, se, la).speakers = sp
         /\ Bay(so, sp, wi, se, la).wires = wi /\ Bay(so, sp, wi, se, la).setup = se
         /\ Bay(so, sp, wi, se, la).last = la
BY DEF Bay

LEMMA FitsIs ==
  ASSUME NEW so, NEW sp, NEW wi, NEW se, NEW la
  PROVE  Fits(so, sp, wi, se, la) => IsBay(Bay(so, sp, wi, se, la))
<1> DEFINE b == Bay(so, sp, wi, se, la)
<1>1. b.sources = so /\ b.speakers = sp /\ b.wires = wi /\ b.setup = se /\ b.last = la
  BY BayParts
<1>2. b = [sources |-> b.sources, speakers |-> b.speakers, wires |-> b.wires,
           setup |-> b.setup, last |-> b.last]
  BY <1>1 DEF Bay
<1> HIDE DEF b
<1> SUFFICES ASSUME Fits(so, sp, wi, se, la) PROVE IsBay(b) BY DEF b
<1>3. b.sources = [i \in DOMAIN b.sources |->
                    [kind |-> b.sources[i].kind, device |-> b.sources[i].device]]
  BY <1>1 DEF Fits, Listed, IsSource
<1>4. b.speakers = [s \in DOMAIN b.speakers |->
                     [kind |-> b.speakers[s].kind, device |-> b.speakers[s].device,
                      borrowed |-> b.speakers[s].borrowed]]
  BY <1>1 DEF Fits, Listed, IsSpeaker
<1>5. /\ b.last \in Nat /\ DOMAIN b.sources \cap DOMAIN b.speakers = {}
      /\ DOMAIN b.sources \cup DOMAIN b.speakers \subseteq 1..b.last
  BY <1>1 DEF Fits, Listed
<1>6. /\ Drawn(b.wires, b.last) /\ \A w \in b.wires : Joins(b, w) /\ ~OwnSpeaker(b, w)
      /\ b.setup # None => Drawn(b.setup, b.last)
  BY <1>1 DEF Fits, Meets, Joins, OwnSpeaker
<1> QED BY <1>2, <1>3, <1>4, <1>5, <1>6 DEF IsBay

LEMMA BayIs ==
  ASSUME NEW b, IsBay(b)
  PROVE  /\ b = Bay(b.sources, b.speakers, b.wires, b.setup, b.last)
         /\ Fits(b.sources, b.speakers, b.wires, b.setup, b.last)
<1>1. b = Bay(b.sources, b.speakers, b.wires, b.setup, b.last) BY DEF IsBay, Bay
<1>2. /\ b.sources = [i \in DOMAIN b.sources |-> b.sources[i]]
      /\ \A i \in DOMAIN b.sources : IsSource(b.sources[i])
  BY DEF IsBay, IsSource
<1>3. /\ b.speakers = [s \in DOMAIN b.speakers |-> b.speakers[s]]
      /\ \A s \in DOMAIN b.speakers : IsSpeaker(b.speakers[s])
  BY DEF IsBay, IsSpeaker
<1>4. /\ Drawn(b.wires, b.last) /\ \A w \in b.wires : Meets(b.sources, b.speakers, w)
      /\ b.setup # None => Drawn(b.setup, b.last)
  BY DEF IsBay, Meets, Joins, OwnSpeaker
<1> QED BY <1>1, <1>2, <1>3, <1>4 DEF Fits, Listed, IsBay

\* What a patchbay is with some of its parts changed.
LEMMA Rewired ==
  ASSUME NEW b, IsBay(b), NEW x
  PROVE  [b EXCEPT !.wires = x] = Bay(b.sources, b.speakers, x, b.setup, b.last)
<1> DEFINE so == b.sources  sp == b.speakers  wi == b.wires  se == b.setup  la == b.last
<1>1. b = Bay(so, sp, wi, se, la) BY BayIs
<1> HIDE DEF so, sp, wi, se, la
<1>2. [b EXCEPT !.wires = x] = Bay(so, sp, x, se, la)
  <2>1. [b EXCEPT !.wires = x] = Bay(so, sp, x, se, la) BY <1>1 DEF Bay
  <2> QED BY <2>1, Zenon
<1> QED BY <1>2 DEF so, sp, wi, se, la

LEMMA SetUpAnew ==
  ASSUME NEW b, IsBay(b), NEW x
  PROVE  [b EXCEPT !.setup = x] = Bay(b.sources, b.speakers, b.wires, x, b.last)
<1> DEFINE so == b.sources  sp == b.speakers  wi == b.wires  se == b.setup  la == b.last
<1>1. b = Bay(so, sp, wi, se, la) BY BayIs
<1> HIDE DEF so, sp, wi, se, la
<1>2. [b EXCEPT !.setup = x] = Bay(so, sp, wi, x, la)
  <2>1. [b EXCEPT !.setup = x] = Bay(so, sp, wi, x, la) BY <1>1 DEF Bay
  <2> QED BY <2>1, Zenon
<1> QED BY <1>2 DEF so, sp, wi, se, la

LEMMA Relisted ==
  ASSUME NEW b, IsBay(b), NEW x
  PROVE  [b EXCEPT !.speakers = x] = Bay(b.sources, x, b.wires, b.setup, b.last)
<1> DEFINE so == b.sources  sp == b.speakers  wi == b.wires  se == b.setup  la == b.last
<1>1. b = Bay(so, sp, wi, se, la) BY BayIs
<1> HIDE DEF so, sp, wi, se, la
<1>2. [b EXCEPT !.speakers = x] = Bay(so, x, wi, se, la)
  <2>1. [b EXCEPT !.speakers = x] = Bay(so, x, wi, se, la) BY <1>1 DEF Bay
  <2> QED BY <2>1, Zenon
<1> QED BY <1>2 DEF so, sp, wi, se, la

LEMMA OneSourceMore ==
  ASSUME NEW b, IsBay(b), NEW x, NEW y
  PROVE  [b EXCEPT !.last = x, !.sources = y] = Bay(y, b.speakers, b.wires, b.setup, x)
<1> DEFINE so == b.sources  sp == b.speakers  wi == b.wires  se == b.setup  la == b.last
<1>1. b = Bay(so, sp, wi, se, la) BY BayIs
<1> HIDE DEF so, sp, wi, se, la
<1>2. [b EXCEPT !.last = x, !.sources = y] = Bay(y, sp, wi, se, x)
  <2>1. [b EXCEPT !.last = x] = Bay(so, sp, wi, se, x) BY <1>1 DEF Bay
  <2>2. [Bay(so, sp, wi, se, x) EXCEPT !.sources = y] = Bay(y, sp, wi, se, x) BY <1>1 DEF Bay
  <2> QED BY <2>1, <2>2, Zenon
<1> QED BY <1>2 DEF so, sp, wi, se, la

LEMMA OneSpeakerMore ==
  ASSUME NEW b, IsBay(b), NEW x, NEW y
  PROVE  [b EXCEPT !.last = x, !.speakers = y] = Bay(b.sources, y, b.wires, b.setup, x)
<1> DEFINE so == b.sources  sp == b.speakers  wi == b.wires  se == b.setup  la == b.last
<1>1. b = Bay(so, sp, wi, se, la) BY BayIs
<1> HIDE DEF so, sp, wi, se, la
<1>2. [b EXCEPT !.last = x, !.speakers = y] = Bay(so, y, wi, se, x)
  <2>1. [b EXCEPT !.last = x] = Bay(so, sp, wi, se, x) BY <1>1 DEF Bay
  <2>2. [Bay(so, sp, wi, se, x) EXCEPT !.speakers = y] = Bay(so, y, wi, se, x) BY <1>1 DEF Bay
  <2> QED BY <2>1, <2>2, Zenon
<1> QED BY <1>2 DEF so, sp, wi, se, la

LEMMA OneSourceLess ==
  ASSUME NEW b, IsBay(b), NEW x, NEW y
  PROVE  [b EXCEPT !.sources = x, !.wires = y] = Bay(x, b.speakers, y, b.setup, b.last)
<1> DEFINE so == b.sources  sp == b.speakers  wi == b.wires  se == b.setup  la == b.last
<1>1. b = Bay(so, sp, wi, se, la) BY BayIs
<1> HIDE DEF so, sp, wi, se, la
<1>2. [b EXCEPT !.sources = x, !.wires = y] = Bay(x, sp, y, se, la)
  <2>1. [b EXCEPT !.sources = x] = Bay(x, sp, wi, se, la) BY <1>1 DEF Bay
  <2>2. [Bay(x, sp, wi, se, la) EXCEPT !.wires = y] = Bay(x, sp, y, se, la) BY <1>1 DEF Bay
  <2> QED BY <2>1, <2>2, Zenon
<1> QED BY <1>2 DEF so, sp, wi, se, la

LEMMA OneSpeakerLess ==
  ASSUME NEW b, IsBay(b), NEW x, NEW y
  PROVE  [b EXCEPT !.speakers = x, !.wires = y] = Bay(b.sources, x, y, b.setup, b.last)
<1> DEFINE so == b.sources  sp == b.speakers  wi == b.wires  se == b.setup  la == b.last
<1>1. b = Bay(so, sp, wi, se, la) BY BayIs
<1> HIDE DEF so, sp, wi, se, la
<1>2. [b EXCEPT !.speakers = x, !.wires = y] = Bay(so, x, y, se, la)
  <2>1. [b EXCEPT !.speakers = x] = Bay(so, x, wi, se, la) BY <1>1 DEF Bay
  <2>2. [Bay(so, x, wi, se, la) EXCEPT !.wires = y] = Bay(so, x, y, se, la) BY <1>1 DEF Bay
  <2> QED BY <2>1, <2>2, Zenon
<1> QED BY <1>2 DEF so, sp, wi, se, la

LEMMA DoorsMerged ==
  ASSUME NEW b, IsBay(b), NEW x, NEW y, NEW z
  PROVE  [b EXCEPT !.sources = x, !.wires = y, !.setup = z] = Bay(x, b.speakers, y, z, b.last)
<1> DEFINE so == b.sources  sp == b.speakers  wi == b.wires  se == b.setup  la == b.last
<1>1. b = Bay(so, sp, wi, se, la) BY BayIs
<1> HIDE DEF so, sp, wi, se, la
<1>2. [b EXCEPT !.sources = x, !.wires = y, !.setup = z] = Bay(x, sp, y, z, la)
  <2>1. [b EXCEPT !.sources = x] = Bay(x, sp, wi, se, la) BY <1>1 DEF Bay
  <2>2. [Bay(x, sp, wi, se, la) EXCEPT !.wires = y] = Bay(x, sp, y, se, la) BY <1>1 DEF Bay
  <2>3. [Bay(x, sp, y, se, la) EXCEPT !.setup = z] = Bay(x, sp, y, z, la) BY <1>1 DEF Bay
  <2> QED BY <2>1, <2>2, <2>3, Zenon
<1> QED BY <1>2 DEF so, sp, wi, se, la

\* What was drawn with fewer ids is drawn with more, and so is a part of it.
LEMMA DrawnStill ==
  ASSUME NEW wires, NEW top \in Nat, Drawn(wires, top), NEW part \in SUBSET wires
  PROVE  Drawn(part, top) /\ Drawn(part, top + 1)
BY DEF Drawn

\* Ids are given out once, and a speaker's kind stays.
Grows(b, c) ==
  /\ b.last <= c.last
  /\ \A s \in DOMAIN c.speakers :
       \/ s \in DOMAIN b.speakers /\ c.speakers[s].kind = b.speakers[s].kind
       \/ s \in (b.last + 1)..c.last

LEMMA SourceAdded ==
  ASSUME NEW b, IsBay(b), NEW kind, NEW device
  PROVE  LET c == AddedSource(b, kind, device) IN
         /\ IsBay(c) /\ Grows(b, c)
         /\ c = Bay(And(b.sources, b.last + 1, [kind |-> kind, device |-> device]),
                    b.speakers, b.wires, b.setup, b.last + 1)
<1> DEFINE c == AddedSource(b, kind, device)
           it == [kind |-> kind, device |-> device]
           new == b.last + 1
           so == And(b.sources, new, it)
<1>1. Fits(b.sources, b.speakers, b.wires, b.setup, b.last) BY BayIs
<1>2. c = Bay(so, b.speakers, b.wires, b.setup, new)
  <2>1. c = [b EXCEPT !.last = new, !.sources = so] BY DEF AddedSource
  <2> HIDE DEF c, so, new
  <2> QED BY <2>1, OneSourceMore, Zenon
<1>3. new \notin DOMAIN b.sources /\ new \in Nat BY <1>1 DEF Fits, Listed
<1>4. IsSource(it) BY DEF IsSource
<1> HIDE DEF it
<1>5. /\ DOMAIN so = DOMAIN b.sources \cup {new}
      /\ so = [j \in DOMAIN so |-> so[j]]
      /\ so[new] = it
      /\ \A j \in DOMAIN b.sources : so[j] = b.sources[j]
  <2> HIDE DEF new
  <2> QED BY <1>3 DEF And
<1> HIDE DEF so, c
<1>6. Listed(so, b.speakers, new) BY <1>1, <1>3, <1>4, <1>5 DEF Fits, Listed
<1>7. \A w \in b.wires : Meets(so, b.speakers, w) BY <1>1, <1>5 DEF Fits, Meets
<1>8. Drawn(b.wires, new) /\ (b.setup # None => Drawn(b.setup, new))
  BY <1>1, DrawnStill DEF Fits, Listed
<1> HIDE DEF new
<1>9. IsBay(c) BY <1>2, <1>6, <1>7, <1>8, FitsIs DEF Fits
<1>10. c.last = new /\ c.speakers = b.speakers BY <1>2, BayParts
<1>11. Grows(b, c) BY <1>1, <1>10 DEF Grows, Fits, Listed, new
<1> QED BY <1>2, <1>9, <1>11 DEF so, c, it, new

LEMMA SpeakerAdded ==
  ASSUME NEW b, IsBay(b), NEW kind, NEW device
  PROVE  LET c == AddedSpeaker(b, kind, device) IN IsBay(c) /\ Grows(b, c)
<1> DEFINE c == AddedSpeaker(b, kind, device)
           it == [kind |-> kind, device |-> device, borrowed |-> FALSE]
           new == b.last + 1
           sp == And(b.speakers, new, it)
<1>1. Fits(b.sources, b.speakers, b.wires, b.setup, b.last) BY BayIs
<1>2. c = Bay(b.sources, sp, b.wires, b.setup, new)
  <2>1. c = [b EXCEPT !.last = new, !.speakers = sp] BY DEF AddedSpeaker
  <2> HIDE DEF c, sp, new
  <2> QED BY <2>1, OneSpeakerMore, Zenon
<1>3. new \notin DOMAIN b.speakers /\ new \in Nat BY <1>1 DEF Fits, Listed
<1>4. IsSpeaker(it) BY DEF IsSpeaker
<1> HIDE DEF it
<1>5. /\ DOMAIN sp = DOMAIN b.speakers \cup {new}
      /\ sp = [j \in DOMAIN sp |-> sp[j]]
      /\ sp[new] = it
      /\ \A j \in DOMAIN b.speakers : sp[j] = b.speakers[j]
  <2> HIDE DEF new
  <2> QED BY <1>3 DEF And
<1> HIDE DEF sp, c
<1>6. Listed(b.sources, sp, new) BY <1>1, <1>3, <1>4, <1>5 DEF Fits, Listed
<1>7. \A w \in b.wires : Meets(b.sources, sp, w) BY <1>1, <1>5 DEF Fits, Meets
<1>8. Drawn(b.wires, new) /\ (b.setup # None => Drawn(b.setup, new))
  BY <1>1, DrawnStill DEF Fits, Listed
<1>9. new \in (b.last + 1)..new /\ b.last <= new BY <1>1 DEF Fits, Listed
<1> HIDE DEF new
<1>10. IsBay(c) BY <1>2, <1>6, <1>7, <1>8, FitsIs DEF Fits
<1>11. c.last = new /\ c.speakers = sp BY <1>2, BayParts
<1>12. Grows(b, c) BY <1>5, <1>9, <1>11 DEF Grows
<1> QED BY <1>10, <1>12 DEF c

\* A removal takes its wires too.
LEMMA SourceRemoved ==
  ASSUME NEW b, IsBay(b), NEW i
  PROVE  LET c == [b EXCEPT !.sources = [j \in DOMAIN @ \ {i} |-> @[j]],
                            !.wires = Without(b, i)] IN
         IsBay(c) /\ Grows(b, c)
<1> DEFINE so == [j \in DOMAIN b.sources \ {i} |-> b.sources[j]]
           wi == Without(b, i)
           c == [b EXCEPT !.sources = so, !.wires = wi]
<1>1. Fits(b.sources, b.speakers, b.wires, b.setup, b.last) BY BayIs
<1>2. c = Bay(so, b.speakers, wi, b.setup, b.last)
  <2> HIDE DEF so, wi
  <2> QED BY OneSourceLess, Zenon
<1>3. Listed(so, b.speakers, b.last) BY <1>1 DEF Fits, Listed
<1>4. wi \in SUBSET b.wires /\ \A w \in wi : Meets(so, b.speakers, w)
  BY <1>1 DEF Fits, Meets, Without
<1>5. Drawn(wi, b.last) BY <1>1, <1>4, DrawnStill DEF Fits, Listed
<1> HIDE DEF so, wi, c
<1>6. IsBay(c) BY <1>1, <1>2, <1>3, <1>4, <1>5, FitsIs DEF Fits
<1>7. c.last = b.last /\ c.speakers = b.speakers BY <1>2, BayParts
<1>8. Grows(b, c) BY <1>1, <1>7 DEF Grows, Fits, Listed
<1> QED BY <1>6, <1>8 DEF so, wi, c

LEMMA SpeakerRemoved ==
  ASSUME NEW b, IsBay(b), NEW i
  PROVE  LET c == [b EXCEPT !.speakers = [j \in DOMAIN @ \ {i} |-> @[j]],
                            !.wires = Without(b, i)] IN
         IsBay(c) /\ Grows(b, c)
<1> DEFINE sp == [j \in DOMAIN b.speakers \ {i} |-> b.speakers[j]]
           wi == Without(b, i)
           c == [b EXCEPT !.speakers = sp, !.wires = wi]
<1>1. Fits(b.sources, b.speakers, b.wires, b.setup, b.last) BY BayIs
<1>2. c = Bay(b.sources, sp, wi, b.setup, b.last)
  <2> HIDE DEF sp, wi
  <2> QED BY OneSpeakerLess, Zenon
<1>3. Listed(b.sources, sp, b.last) BY <1>1 DEF Fits, Listed
<1>4. wi \in SUBSET b.wires /\ \A w \in wi : Meets(b.sources, sp, w)
  BY <1>1 DEF Fits, Meets, Without
<1>5. Drawn(wi, b.last) BY <1>1, <1>4, DrawnStill DEF Fits, Listed
<1>6. \A s \in DOMAIN sp : s \in DOMAIN b.speakers /\ sp[s] = b.speakers[s] OBVIOUS
<1> HIDE DEF sp, wi, c
<1>7. IsBay(c) BY <1>1, <1>2, <1>3, <1>4, <1>5, FitsIs DEF Fits
<1>8. c.last = b.last /\ c.speakers = sp BY <1>2, BayParts
<1>9. Grows(b, c) BY <1>1, <1>6, <1>8 DEF Grows, Fits, Listed
<1> QED BY <1>7, <1>9 DEF sp, wi, c

\* Wires that are drawn and meet what there is.
LEMMA Wired ==
  ASSUME NEW b, IsBay(b), NEW wi, Drawn(wi, b.last),
         \A w \in wi : Joins(b, w) /\ ~OwnSpeaker(b, w)
  PROVE  LET c == [b EXCEPT !.wires = wi] IN IsBay(c) /\ Grows(b, c)
<1> DEFINE c == [b EXCEPT !.wires = wi]
<1>1. Fits(b.sources, b.speakers, b.wires, b.setup, b.last) BY BayIs
<1>2. c = Bay(b.sources, b.speakers, wi, b.setup, b.last) BY Rewired, Zenon
<1>3. \A w \in wi : Meets(b.sources, b.speakers, w) BY DEF Meets, Joins, OwnSpeaker
<1> HIDE DEF c
<1>4. IsBay(c) BY <1>1, <1>2, <1>3, FitsIs DEF Fits
<1>5. c.last = b.last /\ c.speakers = b.speakers BY <1>2, BayParts
<1>6. Grows(b, c) BY <1>1, <1>5 DEF Grows, Fits, Listed
<1> QED BY <1>4, <1>6 DEF c

\* A setup saved, or none.
LEMMA SetUp ==
  ASSUME NEW b, IsBay(b), NEW se, se # None => Drawn(se, b.last)
  PROVE  LET c == [b EXCEPT !.setup = se] IN IsBay(c) /\ Grows(b, c)
<1> DEFINE c == [b EXCEPT !.setup = se]
<1>1. Fits(b.sources, b.speakers, b.wires, b.setup, b.last) BY BayIs
<1>2. c = Bay(b.sources, b.speakers, b.wires, se, b.last) BY SetUpAnew, Zenon
<1> HIDE DEF c
<1>4. IsBay(c) BY <1>1, <1>2, FitsIs DEF Fits
<1>5. c.last = b.last /\ c.speakers = b.speakers BY <1>2, BayParts
<1>6. Grows(b, c) BY <1>1, <1>5 DEF Grows, Fits, Listed
<1> QED BY <1>4, <1>6 DEF c

LEMMA Lent ==
  ASSUME NEW b, IsBay(b), NEW s \in DOMAIN b.speakers, NEW yes
  PROVE  LET c == [b EXCEPT !.speakers[s].borrowed = yes] IN IsBay(c) /\ Grows(b, c)
<1> DEFINE it == [b.speakers[s] EXCEPT !.borrowed = yes]
           sp == [b.speakers EXCEPT ![s] = it]
           c == [b EXCEPT !.speakers = sp]
<1>1. Fits(b.sources, b.speakers, b.wires, b.setup, b.last) BY BayIs
<1>2. c = Bay(b.sources, sp, b.wires, b.setup, b.last)
  <2> HIDE DEF sp
  <2> QED BY Relisted, Zenon
<1>3. IsSpeaker(it) /\ it.kind = b.speakers[s].kind /\ it.device = b.speakers[s].device
  <2>1. IsSpeaker(b.speakers[s]) BY <1>1 DEF Fits, Listed
  <2> DEFINE x == b.speakers[s]
  <2> HIDE DEF x
  <2>2. ASSUME IsSpeaker(x)
        PROVE  LET y == [x EXCEPT !.borrowed = yes] IN
               IsSpeaker(y) /\ y.kind = x.kind /\ y.device = x.device
    BY <2>2 DEF IsSpeaker
  <2> QED BY <2>1, <2>2 DEF x
<1> HIDE DEF it
<1>4. /\ DOMAIN sp = DOMAIN b.speakers /\ sp = [j \in DOMAIN sp |-> sp[j]]
      /\ \A j \in DOMAIN sp : /\ IsSpeaker(sp[j]) /\ sp[j].kind = b.speakers[j].kind
                             /\ sp[j].device = b.speakers[j].device
  BY <1>1, <1>3 DEF Fits, Listed
<1> HIDE DEF sp, c
<1>5. Listed(b.sources, sp, b.last) BY <1>1, <1>4 DEF Fits, Listed
<1>6. \A w \in b.wires : Meets(b.sources, sp, w) BY <1>1, <1>4 DEF Fits, Meets
<1>7. IsBay(c) BY <1>1, <1>2, <1>5, <1>6, FitsIs DEF Fits
<1>8. c.last = b.last /\ c.speakers = sp BY <1>2, BayParts
<1>9. Grows(b, c) BY <1>1, <1>4, <1>8 DEF Grows, Fits, Listed
<1>10. c = [b EXCEPT !.speakers[s].borrowed = yes] BY DEF c, sp, it
<1> QED BY <1>7, <1>9, <1>10

\* Wires moved to one door are drawn still, and end where they did.
LEMMA MovedIs ==
  ASSUME NEW wires, NEW top \in Nat, Drawn(wires, top), NEW door \in 1..top, NEW old
  PROVE  /\ Drawn(MovedTo(door, old, wires), top)
         /\ \A w \in MovedTo(door, old, wires) :
              \/ w \in wires /\ w.source \notin old \cup {door}
              \/ w.source = door /\ \E v \in wires : v.speaker = w.speaker
<1> DEFINE there == {w \in wires : w.source \in old \cup {door}}
           level(s) == Max({w.level : w \in {x \in there : x.speaker = s}})
           merged == {[source |-> door, speaker |-> s, level |-> level(s)]
                        : s \in {w.speaker : w \in there}}
<1>1. MovedTo(door, old, wires) = (wires \ there) \cup merged BY DEF MovedTo
<1> HIDE DEF level
<1>2. \A w \in merged : /\ IsWire(w) /\ w.source = door /\ w.speaker \in 1..top
                        /\ \E v \in wires : v.speaker = w.speaker
                        /\ \A x \in merged : x.speaker = w.speaker => x = w
  BY DEF IsWire, Drawn
<1>3. \A w \in wires \ there : w.source # door /\ w \in wires /\ w.source \notin old \cup {door}
  OBVIOUS
<1> HIDE DEF there, merged
<1>4. Drawn((wires \ there) \cup merged, top) BY <1>2, <1>3 DEF Drawn
<1> QED BY <1>1, <1>2, <1>3, <1>4

\* The general door is there, and the doors of devices are gone.
LEMMA Settled ==
  ASSUME NEW b, IsBay(b)
  PROVE  IsBay(SettledDoors(b)) /\ Grows(b, SettledDoors(b))
<1> DEFINE m == IF General(b) = {} THEN AddedSource(b, "airplay", None) ELSE b
           door == Min(General(m))
           old  == Doors(m) \ General(m)
           so == [i \in DOMAIN m.sources \ old |-> m.sources[i]]
           wi == MovedTo(door, old, m.wires)
           se == IF m.setup = None THEN None ELSE MovedTo(door, old, m.setup)
           c == [m EXCEPT !.sources = so, !.wires = wi, !.setup = se]
<1>1. IsBay(m) /\ Grows(b, m) /\ General(m) # {}
  <2>1. CASE General(b) # {}
    <3>1. Grows(b, b) BY DEF Grows, IsBay
    <3> QED BY <2>1, <3>1
  <2>2. CASE General(b) = {}
    <3> DEFINE new == b.last + 1
               it == [kind |-> "airplay", device |-> None]
    <3>1. m = AddedSource(b, "airplay", None) BY <2>2
    <3> HIDE DEF m
    <3>2. IsBay(m) /\ Grows(b, m) BY <3>1, SourceAdded
    <3>3. m.sources = And(b.sources, new, it) BY <3>1, SourceAdded, BayParts
    <3>4. new \in DOMAIN m.sources /\ m.sources[new] = it
      <4> HIDE DEF new, it
      <4> QED BY <3>3 DEF And
    <3>5. m.sources[new].kind = "airplay" /\ m.sources[new].device = None BY <3>4
    <3> HIDE DEF new
    <3>6. new \in General(m) BY <3>4, <3>5 DEF General, Doors
    <3> QED BY <3>2, <3>6
  <2> QED BY <2>1, <2>2
<1>2. SettledDoors(b) = c BY DEF SettledDoors
<1> HIDE DEF m
<1>3. Fits(m.sources, m.speakers, m.wires, m.setup, m.last) BY <1>1, BayIs
<1>4. /\ door \in DOMAIN m.sources \ old /\ door \in 1..m.last /\ m.sources[door].device = None
  <2>1. General(m) \subseteq DOMAIN m.sources /\ DOMAIN m.sources \subseteq 1..m.last /\ m.last \in Nat
    BY <1>3 DEF General, Doors, Fits, Listed
  <2>2. General(m) \in SUBSET Nat BY <2>1
  <2>3. door \in General(m) BY <1>1, <2>2, LeastOf
  <2> QED BY <2>1, <2>3 DEF General
<1>5. c = Bay(so, m.speakers, wi, se, m.last)
  <2> HIDE DEF so, wi, se
  <2> QED BY <1>1, DoorsMerged, Zenon
<1>6. Listed(so, m.speakers, m.last) BY <1>3 DEF Fits, Listed
<1>7. Drawn(wi, m.last) /\ (se # None => Drawn(se, m.last))
  <2> HIDE DEF door, old
  <2>1. m.last \in Nat BY <1>3 DEF Fits, Listed
  <2>2. Drawn(wi, m.last) BY <1>3, <1>4, <2>1, MovedIs DEF Fits
  <2>3. m.setup # None => Drawn(MovedTo(door, old, m.setup), m.last)
    BY <1>3, <1>4, <2>1, MovedIs DEF Fits
  <2> QED BY <2>2, <2>3
<1>8. ASSUME NEW w \in wi PROVE Meets(so, m.speakers, w)
  <2> HIDE DEF door, old
  <2>1. m.last \in Nat /\ Drawn(m.wires, m.last) BY <1>3 DEF Fits, Listed
  <2>2. \/ w \in m.wires /\ w.source \notin old \cup {door}
        \/ w.source = door /\ \E v \in m.wires : v.speaker = w.speaker
    BY <1>4, <2>1, MovedIs
  <2>3. \A v \in m.wires : Meets(m.sources, m.speakers, v) BY <1>3 DEF Fits
  <2>4. CASE w \in m.wires /\ w.source \notin old \cup {door} BY <2>3, <2>4 DEF Meets
  <2>5. CASE w.source = door /\ \E v \in m.wires : v.speaker = w.speaker
    BY <1>4, <2>3, <2>5 DEF Meets
  <2> QED BY <2>2, <2>4, <2>5
<1> HIDE DEF so, wi, se, c
<1>9. IsBay(c) BY <1>5, <1>6, <1>7, <1>8, FitsIs DEF Fits
<1>10. c.last = m.last /\ c.speakers = m.speakers BY <1>5, BayParts
<1>11. Grows(b, c) BY <1>1, <1>10 DEF Grows
<1> QED BY <1>2, <1>9, <1>11

\* Nothing the owner does makes another patchbay than one as the hub makes them.
LEMMA OwnersKeep ==
  ASSUME IsBay(bay), Owner
  PROVE  IsBay(bay') /\ Grows(bay, bay')
<1>0. /\ bay.last \in Nat /\ DOMAIN bay.sources \cup DOMAIN bay.speakers \subseteq 1..bay.last
      /\ Drawn(bay.wires, bay.last) /\ (bay.setup # None => Drawn(bay.setup, bay.last))
      /\ \A w \in bay.wires : Joins(bay, w) /\ ~OwnSpeaker(bay, w)
  BY DEF IsBay
<1>1. CASE AddSource
  <2>1. PICK kind, device : bay' = AddedSource(bay, kind, device)
    BY <1>1 DEF AddSource, Change, Live
  <2> QED BY <2>1, SourceAdded
<1>2. CASE AddSpeaker
  <2>1. PICK kind, device : bay' = AddedSpeaker(bay, kind, device)
    BY <1>2 DEF AddSpeaker, Change, Live
  <2> QED BY <2>1, SpeakerAdded
<1>3. CASE RemoveSource
  <2>1. PICK i \in DOMAIN bay.sources :
          bay' = [bay EXCEPT !.sources = [j \in DOMAIN @ \ {i} |-> @[j]],
                             !.wires = Without(bay, i)]
    BY <1>3 DEF RemoveSource, Change, Live
  <2> QED BY <2>1, SourceRemoved, Zenon
<1>4. CASE RemoveSpeaker
  <2>1. PICK s \in DOMAIN bay.speakers :
          bay' = [bay EXCEPT !.speakers = [j \in DOMAIN @ \ {s} |-> @[j]],
                             !.wires = Without(bay, s)]
    BY <1>4 DEF RemoveSpeaker, Change, Live
  <2> QED BY <2>1, SpeakerRemoved, Zenon
<1>5. CASE Wire
  <2>1. PICK i \in DOMAIN bay.sources, s \in DOMAIN bay.speakers, l \in Levels :
          LET w == [source |-> i, speaker |-> s, level |-> l] IN
          ~OwnSpeaker(bay, w) /\ bay' = [bay EXCEPT !.wires = With(bay, w)]
    BY <1>5 DEF Wire, Checked, Change, Live
  <2> DEFINE w == [source |-> i, speaker |-> s, level |-> l]
  <2>2. IsWire(w) /\ w.source \in 1..bay.last /\ w.speaker \in 1..bay.last /\ Joins(bay, w)
    BY <1>0 DEF IsWire, Joins
  <2>3. ~OwnSpeaker(bay, w) BY <2>1
  <2>4. bay' = [bay EXCEPT !.wires = With(bay, w)] BY <2>1
  <2> HIDE DEF w
  <2>5. \A x \in With(bay, w) : x = w \/ (x \in bay.wires /\ (x.source # w.source \/ x.speaker # w.speaker))
    BY DEF With
  <2>6. Drawn(With(bay, w), bay.last) BY <1>0, <2>2, <2>5 DEF Drawn
  <2>7. \A x \in With(bay, w) : Joins(bay, x) /\ ~OwnSpeaker(bay, x) BY <1>0, <2>2, <2>3, <2>5
  <2> QED BY <2>4, <2>6, <2>7, Wired
<1>6. CASE Unwire
  <2>1. PICK w \in bay.wires : bay' = [bay EXCEPT !.wires = bay.wires \ {w}]
    BY <1>6 DEF Unwire, Change, Live
  <2>2. Drawn(bay.wires \ {w}, bay.last) BY <1>0, DrawnStill
  <2> QED BY <1>0, <2>1, <2>2, Wired
<1>7. CASE SetAll
  <2>1. PICK i \in DOMAIN bay.sources, l \in Levels : bay' = [bay EXCEPT !.wires =
                      {IF w.source = i THEN [w EXCEPT !.level = l] ELSE w : w \in bay.wires}]
    BY <1>7 DEF SetAll, Checked, Change, Live
  <2> DEFINE set(w) == IF w.source = i THEN [w EXCEPT !.level = l] ELSE w
             all == {set(w) : w \in bay.wires}
  <2>2. ASSUME NEW w \in bay.wires
        PROVE  IsWire(set(w)) /\ set(w).source = w.source /\ set(w).speaker = w.speaker
    <3>1. IsWire(w) BY <1>0 DEF Drawn
    <3>2. LET x == [w EXCEPT !.level = l] IN
          IsWire(x) /\ x.source = w.source /\ x.speaker = w.speaker
      BY <3>1 DEF IsWire
    <3> QED BY <3>1, <3>2
  <2>3. bay' = [bay EXCEPT !.wires = all] BY <2>1
  <2> HIDE DEF set
  <2>4. \A x \in all : \E w \in bay.wires : x = set(w) OBVIOUS
  <2> HIDE DEF all
  <2>5. Drawn(all, bay.last)
    <3> SUFFICES ASSUME NEW x \in all
                 PROVE  /\ IsWire(x) /\ {x.source, x.speaker} \subseteq 1..bay.last
                        /\ \A y \in all : y.source = x.source /\ y.speaker = x.speaker => y = x
      BY DEF Drawn
    <3>1. PICK w \in bay.wires : x = set(w) BY <2>4
    <3>2. IsWire(x) /\ x.source = w.source /\ x.speaker = w.speaker BY <2>2, <3>1
    <3>3. ASSUME NEW y \in all, y.source = x.source, y.speaker = x.speaker PROVE y = x
      <4>1. PICK v \in bay.wires : y = set(v) BY <2>4
      <4>2. v.source = w.source /\ v.speaker = w.speaker BY <2>2, <3>2, <3>3, <4>1
      <4>3. v = w BY <1>0, <4>2 DEF Drawn
      <4> QED BY <3>1, <4>1, <4>3
    <3> QED BY <1>0, <3>2, <3>3 DEF Drawn
  <2>6. \A x \in all : Joins(bay, x) /\ ~OwnSpeaker(bay, x)
    BY <1>0, <2>2, <2>4 DEF Joins, OwnSpeaker
  <2> QED BY <2>3, <2>5, <2>6, Wired
<1>8. CASE Tune
  <2>1. bay' = bay BY <1>8 DEF Tune, Change, Live
  <2>2. Grows(bay, bay) BY <1>0 DEF Grows
  <2> QED BY <2>1, <2>2
<1>9. CASE Free BY <1>9, Lent DEF Free, Checked, Change, Live, Borrowed
<1>10. CASE SaveSetup BY <1>0, <1>10, SetUp DEF SaveSetup, Change, Live
<1>11. CASE ApplySetup
  <2> DEFINE back == {w \in bay.setup : Joins(bay, w) /\ ~OwnSpeaker(bay, w)}
  <2>1. bay.setup # None /\ bay' = [bay EXCEPT !.wires = back]
    BY <1>11 DEF ApplySetup, Checked, Change, Live
  <2>2. Drawn(back, bay.last) BY <1>0, <2>1, DrawnStill
  <2> QED BY <2>1, <2>2, Wired
<1>12. CASE RemoveSetup BY <1>12, SetUp DEF RemoveSetup, Change, Live
<1> QED BY <1>1, <1>2, <1>3, <1>4, <1>5, <1>6, <1>7, <1>8, <1>9, <1>10, <1>11, <1>12 DEF Owner

---------------------------------------------------------------------------
(* Sets in order, and pairs kept.                                          *)

\* A finite set whose elements are numbered, no two alike, is put in order: each once.
LEMMA Ordered ==
  ASSUME NEW S, IsFiniteSet(S), NEW number, \A x \in S : number[x] \in Nat,
         \A x, y \in S : number[x] = number[y] => x = y
  PROVE  /\ Cardinality(S) \in Nat
         /\ InOrder(S, number) \in [1..Cardinality(S) -> S]
         /\ InOrder(S, number) \in Seq(S) /\ Len(InOrder(S, number)) = Cardinality(S)
         /\ \A x \in S : \E n \in 1..Cardinality(S) : InOrder(S, number)[n] = x
         /\ \A m, n \in 1..Cardinality(S) : InOrder(S, number)[m] = InOrder(S, number)[n] => m = n
<1> DEFINE c == Cardinality(S)
           under(x) == Under(S, number, x)
           rank == [x \in S |-> Cardinality(under(x)) + 1]
           o == InOrder(S, number)
<1>1. c \in Nat BY FS_CardinalityType
<1>2. ASSUME NEW x \in S
      PROVE  /\ IsFiniteSet(under(x)) /\ Cardinality(under(x)) \in Nat
             /\ Cardinality(under(x)) + 1 <= c
  <2>1. under(x) \in SUBSET (S \ {x}) BY DEF Under
  <2>2. IsFiniteSet(S \ {x}) /\ Cardinality(S \ {x}) = c - 1 BY FS_RemoveElement
  <2>3. IsFiniteSet(under(x)) /\ Cardinality(under(x)) <= c - 1 BY <2>1, <2>2, FS_Subset
  <2>4. Cardinality(under(x)) \in Nat BY <2>3, FS_CardinalityType
  <2> QED BY <1>1, <2>3, <2>4
<1>3. ASSUME NEW x \in S, NEW y \in S, number[x] < number[y]
      PROVE  Cardinality(under(x)) + 1 <= Cardinality(under(y))
  <2>1. under(x) \cup {x} \in SUBSET under(y) /\ x \notin under(x) BY <1>3 DEF Under
  <2>2. Cardinality(under(x) \cup {x}) = Cardinality(under(x)) + 1 BY <1>2, <2>1, FS_AddElement
  <2> HIDE DEF under
  <2>3. Cardinality(under(x) \cup {x}) <= Cardinality(under(y)) BY <1>2, <2>1, FS_Subset
  <2> QED BY <2>2, <2>3
<1> HIDE DEF under, c
<1>4. rank \in [S -> 1..c]
  <2>1. \A x \in S : Cardinality(under(x)) + 1 \in 1..c BY <1>1, <1>2
  <2> QED BY <2>1
<1>5. \A x, y \in S : rank[x] = rank[y] => x = y
  <2> SUFFICES ASSUME NEW x \in S, NEW y \in S, rank[x] = rank[y], x # y PROVE FALSE OBVIOUS
  <2>1. Cardinality(under(x)) = Cardinality(under(y)) BY <1>2
  <2>2. number[x] < number[y] \/ number[y] < number[x] OBVIOUS
  <2> QED BY <1>2, <1>3, <2>1, <2>2
<1>6. rank \in Injection(S, 1..c) BY <1>4, <1>5 DEF Injection, IsInjective
<1>7. IsFiniteSet(1..c) /\ Cardinality(1..c) = c BY <1>1, FS_Interval
<1>8. rank \in Surjection(S, 1..c) BY <1>6, <1>7, FS_Injection DEF c
<1>9. ASSUME NEW n \in 1..c PROVE o[n] \in S /\ rank[o[n]] = n
  <2>1. \E x \in S : rank[x] = n BY <1>8 DEF Surjection
  <2>2. \E x \in S : Cardinality(under(x)) = n - 1
    <3>1. PICK x \in S : rank[x] = n BY <2>1
    <3>2. Cardinality(under(x)) + 1 = n BY <3>1
    <3> QED BY <1>2, <3>2
  <2>3. o[n] = CHOOSE x \in S : Cardinality(under(x)) = n - 1 BY DEF InOrder, under, c
  <2>4. o[n] \in S /\ Cardinality(under(o[n])) = n - 1 BY <2>2, <2>3
  <2> QED BY <1>2, <2>4
<1>10. o = [n \in 1..c |-> o[n]] BY DEF InOrder, c
<1> HIDE DEF o, rank
<1>11. o \in [1..c -> S] BY <1>9, <1>10
<1>12. o \in Seq(S) /\ Len(o) = c BY <1>1, <1>11, SeqDef, LenProperties
<1>13. \A x \in S : \E n \in 1..c : o[n] = x
  <2> SUFFICES ASSUME NEW x \in S PROVE \E n \in 1..c : o[n] = x OBVIOUS
  <2>1. rank[x] \in 1..c BY <1>4
  <2>2. o[rank[x]] \in S /\ rank[o[rank[x]]] = rank[x] BY <1>9, <2>1
  <2> QED BY <1>5, <2>1, <2>2
<1>14. \A m, n \in 1..c : o[m] = o[n] => m = n
  <2> SUFFICES ASSUME NEW m \in 1..c, NEW n \in 1..c, o[m] = o[n] PROVE m = n OBVIOUS
  <2> QED BY <1>9
<1> QED BY <1>1, <1>11, <1>12, <1>13, <1>14 DEF o, c

\* Pairs of which no two are as early: one is the first.
IsPairs(pairs, top) == \A p \in pairs :
  /\ p = <<p[1], p[2]>> /\ p[1] \in Nat /\ Min(p[2]) \in Nat
  /\ Shared(p) \in Nat /\ Shared(p) <= top
  /\ \A q \in pairs : Min(p[2]) = Min(q[2]) => p[2] = q[2]

LEMMA FirstIs ==
  ASSUME NEW pairs, pairs # {}, NEW top \in Nat, IsPairs(pairs, top)
  PROVE  FirstOf(pairs) \in pairs
<1>1. PICK a \in pairs : \A q \in pairs : Shared(q) <= Shared(a)
  <2> DEFINE less == {top - Shared(p) : p \in pairs}
  <2>1. less \in SUBSET Nat /\ less # {}
    <3>1. \A p \in pairs : top - Shared(p) \in Nat BY DEF IsPairs
    <3> QED BY <3>1
  <2>2. PICK m \in less : \A j \in less : m <= j
    <3> HIDE DEF less
    <3> QED BY <2>1, LeastOf
  <2>3. PICK a \in pairs : m = top - Shared(a) OBVIOUS
  <2>4. \A q \in pairs : top - Shared(a) <= top - Shared(q) BY <2>2, <2>3
  <2>5. \A q \in pairs : Shared(q) \in Nat BY DEF IsPairs
  <2> QED BY <2>4, <2>5
<1>2. PICK b \in pairs : /\ Shared(b) = Shared(a)
                         /\ \A q \in pairs : Shared(q) = Shared(a) => b[1] <= q[1]
  <2> DEFINE firsts == {p[1] : p \in {q \in pairs : Shared(q) = Shared(a)}}
  <2>1. firsts \in SUBSET Nat /\ firsts # {} BY DEF IsPairs
  <2>2. PICK m \in firsts : \A j \in firsts : m <= j
    <3> HIDE DEF firsts
    <3> QED BY <2>1, LeastOf
  <2> QED BY <2>2
<1>3. PICK c \in pairs :
        /\ Shared(c) = Shared(a) /\ c[1] = b[1]
        /\ \A q \in pairs : Shared(q) = Shared(a) /\ q[1] = b[1] => Min(c[2]) <= Min(q[2])
  <2> DEFINE leasts == {Min(p[2]) : p \in {q \in pairs : Shared(q) = Shared(a) /\ q[1] = b[1]}}
  <2>1. leasts \in SUBSET Nat /\ leasts # {} BY <1>2 DEF IsPairs
  <2>2. PICK m \in leasts : \A j \in leasts : m <= j
    <3> HIDE DEF leasts
    <3> QED BY <2>1, LeastOf
  <2> QED BY <2>2
<1>4. ASSUME NEW q \in pairs, q # c PROVE Earlier(c, q)
  <2>1. /\ Shared(q) \in Nat /\ Shared(c) \in Nat /\ q[1] \in Nat /\ c[1] \in Nat
        /\ Min(q[2]) \in Nat /\ Min(c[2]) \in Nat
        /\ q = <<q[1], q[2]>> /\ c = <<c[1], c[2]>>
        /\ Min(c[2]) = Min(q[2]) => c[2] = q[2]
    BY DEF IsPairs
  <2>2. Shared(q) <= Shared(c) BY <1>1, <1>3
  <2>3. CASE Shared(q) < Shared(c) BY <2>1, <2>3 DEF Earlier
  <2>4. CASE Shared(q) = Shared(c)
    <3>1. c[1] <= q[1] BY <1>2, <1>3, <2>4
    <3>2. CASE c[1] < q[1] BY <2>4, <3>2 DEF Earlier
    <3>3. CASE c[1] = q[1]
      <4>1. Min(c[2]) <= Min(q[2]) BY <1>3, <2>4, <3>3
      <4>2. Min(c[2]) # Min(q[2]) BY <1>4, <2>1, <3>3
      <4> QED BY <2>1, <2>4, <3>3, <4>1, <4>2 DEF Earlier
    <3> QED BY <2>1, <3>1, <3>2, <3>3
  <2> QED BY <2>1, <2>2, <2>3, <2>4
<1> QED BY <1>4 DEF FirstOf

\* What is kept of any of the pairs: a recursive function, which there is as each set of pairs
\* is reckoned from a smaller one.
Keeps(g, D) ==
  g = [left \in D |-> IF left = {} THEN {}
                      ELSE {FirstOf(left)} \cup g[Besides(left, FirstOf(left))]]
KeptOf(pairs) == CHOOSE g : Keeps(g, SUBSET pairs)
Few(pairs, n) == {s \in SUBSET pairs : Cardinality(s) <= n}
HasFirsts(pairs) ==
  IsFiniteSet(pairs) /\ \A left \in SUBSET pairs : left # {} => FirstOf(left) \in left

LEMMA FewerBesides ==
  ASSUME NEW pairs, HasFirsts(pairs), NEW s \in SUBSET pairs
  PROVE  /\ Cardinality(s) \in Nat /\ Cardinality(s) <= Cardinality(pairs)
         /\ Cardinality(pairs) \in Nat
         /\ s # {} => LET t == Besides(s, FirstOf(s)) IN
                      /\ t \in SUBSET pairs /\ t \subseteq s /\ Cardinality(t) \in Nat
                      /\ Cardinality(t) + 1 <= Cardinality(s)
<1>1. /\ IsFiniteSet(s) /\ Cardinality(s) \in Nat /\ Cardinality(s) <= Cardinality(pairs)
      /\ Cardinality(pairs) \in Nat
  BY FS_Subset, FS_CardinalityType DEF HasFirsts
<1>2. ASSUME s # {}
      PROVE  LET t == Besides(s, FirstOf(s)) IN
             /\ t \in SUBSET pairs /\ t \subseteq s /\ Cardinality(t) \in Nat
             /\ Cardinality(t) + 1 <= Cardinality(s)
  <2> DEFINE f == FirstOf(s)  t == Besides(s, f)
  <2>1. f \in s BY <1>2 DEF HasFirsts
  <2> HIDE DEF f
  <2>2. t \in SUBSET (s \ {f}) BY DEF Besides
  <2> HIDE DEF t
  <2>3. IsFiniteSet(s \ {f}) /\ Cardinality(s \ {f}) = Cardinality(s) - 1
    BY <1>1, <2>1, FS_RemoveElement
  <2>4. IsFiniteSet(t) /\ Cardinality(t) <= Cardinality(s) - 1 BY <2>2, <2>3, FS_Subset
  <2>5. Cardinality(t) \in Nat BY <2>4, FS_CardinalityType
  <2>6. Cardinality(t) + 1 <= Cardinality(s) BY <1>1, <2>4, <2>5
  <2> QED BY <2>2, <2>5, <2>6 DEF t, f
<1> QED BY <1>1, <1>2

\* What holds of no pairs, and of any pairs when it holds of those besides the first, holds.
LEMMA Besiding ==
  ASSUME NEW pairs, HasFirsts(pairs), NEW Bad \in SUBSET SUBSET pairs, {} \notin Bad,
         \A s \in Bad : s # {} => Besides(s, FirstOf(s)) \in Bad
  PROVE  Bad = {}
<1> SUFFICES ASSUME Bad # {} PROVE FALSE OBVIOUS
<1> DEFINE sizes == {Cardinality(s) : s \in Bad}
<1>1. sizes \in SUBSET Nat /\ sizes # {}
  <2>1. \A s \in Bad : Cardinality(s) \in Nat BY FewerBesides
  <2> QED BY <2>1
<1>2. PICK i \in sizes : \A j \in sizes : i <= j
  <2> HIDE DEF sizes
  <2> QED BY <1>1, LeastOf
<1>3. PICK s \in Bad : i = Cardinality(s) OBVIOUS
<1>4. s # {} /\ s \in SUBSET pairs OBVIOUS
<1>5. Besides(s, FirstOf(s)) \in Bad BY <1>4
<1>6. Cardinality(s) <= Cardinality(Besides(s, FirstOf(s))) BY <1>2, <1>3, <1>5
<1> QED BY <1>4, <1>6, FewerBesides

LEMMA KeepsSome ==
  ASSUME NEW pairs, HasFirsts(pairs), NEW n \in Nat
  PROVE  \E g : Keeps(g, Few(pairs, n))
<1> DEFINE Bad == {k \in Nat : ~ \E g : Keeps(g, Few(pairs, k))}
<1> SUFFICES ASSUME n \in Bad PROVE FALSE OBVIOUS
<1>1. PICK k \in Bad : \A j \in Bad : k <= j
  <2>1. Bad \in SUBSET Nat /\ Bad # {} OBVIOUS
  <2> HIDE DEF Bad
  <2> QED BY <2>1, LeastOf
<1>2. k # 0
  <2> SUFFICES ASSUME k = 0 PROVE FALSE OBVIOUS
  <2>1. \A s \in Few(pairs, 0) : s = {}
    <3> SUFFICES ASSUME NEW s \in Few(pairs, 0), s # {} PROVE FALSE OBVIOUS
    <3>1. s \in SUBSET pairs /\ Cardinality(s) <= 0 BY DEF Few
    <3>2. /\ Cardinality(s) \in Nat /\ Cardinality(Besides(s, FirstOf(s))) \in Nat
          /\ Cardinality(Besides(s, FirstOf(s))) + 1 <= Cardinality(s)
      BY <3>1, FewerBesides
    <3> QED BY <3>1, <3>2
  <2>2. Keeps([s \in Few(pairs, 0) |-> {}], Few(pairs, 0)) BY <2>1 DEF Keeps
  <2> QED BY <2>2
<1>3. k - 1 \in Nat /\ k - 1 \notin Bad BY <1>1, <1>2
<1>4. PICK g : Keeps(g, Few(pairs, k - 1)) BY <1>3
<1>5. k \in Nat BY <1>1
<1> HIDE DEF Bad
<1> DEFINE h == [s \in Few(pairs, k) |->
                   IF s = {} THEN {} ELSE {FirstOf(s)} \cup g[Besides(s, FirstOf(s))]]
<1>6. ASSUME NEW t \in Few(pairs, k - 1) PROVE t \in Few(pairs, k) /\ h[t] = g[t]
  <2>1. t \in SUBSET pairs /\ Cardinality(t) <= k - 1 BY DEF Few
  <2>2. Cardinality(t) \in Nat BY <2>1, FewerBesides
  <2>3. t \in Few(pairs, k) BY <1>5, <2>1, <2>2 DEF Few
  <2>4. g[t] = IF t = {} THEN {} ELSE {FirstOf(t)} \cup g[Besides(t, FirstOf(t))]
    BY <1>4 DEF Keeps
  <2> QED BY <2>3, <2>4
<1>7. ASSUME NEW s \in Few(pairs, k), s # {} PROVE Besides(s, FirstOf(s)) \in Few(pairs, k - 1)
  <2> DEFINE t == Besides(s, FirstOf(s))
  <2>1. s \in SUBSET pairs /\ Cardinality(s) <= k BY DEF Few
  <2>2. /\ Cardinality(s) \in Nat /\ t \in SUBSET pairs /\ Cardinality(t) \in Nat
        /\ Cardinality(t) + 1 <= Cardinality(s)
    BY <1>7, <2>1, FewerBesides
  <2> HIDE DEF t
  <2>3. t \in Few(pairs, k - 1) BY <1>5, <2>1, <2>2 DEF Few
  <2> QED BY <2>3 DEF t
<1>8. Keeps(h, Few(pairs, k)) BY <1>6, <1>7 DEF Keeps
<1> QED BY <1>1, <1>8 DEF Bad

LEMMA KeptIs ==
  ASSUME NEW pairs, HasFirsts(pairs)
  PROVE  /\ Kept(pairs) = KeptOf(pairs)[pairs]
         /\ KeptOf(pairs)[{}] = {}
         /\ \A s \in SUBSET pairs : s # {} =>
              KeptOf(pairs)[s] = {FirstOf(s)} \cup KeptOf(pairs)[Besides(s, FirstOf(s))]
<1>1. Kept(pairs) = KeptOf(pairs)[pairs] BY DEF Kept, KeptOf, Keeps
<1>2. Cardinality(pairs) \in Nat BY FewerBesides
<1>3. Few(pairs, Cardinality(pairs)) = SUBSET pairs BY FewerBesides DEF Few
<1>4. \E g : Keeps(g, SUBSET pairs)
  <2>1. \E g : Keeps(g, Few(pairs, Cardinality(pairs))) BY <1>2, KeepsSome
  <2> QED BY <1>3, <2>1
<1>5. Keeps(KeptOf(pairs), SUBSET pairs) BY <1>4 DEF KeptOf
<1> HIDE DEF KeptOf
<1>6. ASSUME NEW s \in SUBSET pairs
      PROVE  KeptOf(pairs)[s] = IF s = {} THEN {}
               ELSE {FirstOf(s)} \cup KeptOf(pairs)[Besides(s, FirstOf(s))]
  BY <1>5 DEF Keeps
<1> QED BY <1>1, <1>6

\* No two kept pairs have a running group or a new one in common, and a pair that has neither in
\* common with any other is kept.
LEMMA KeptApart ==
  ASSUME NEW pairs, HasFirsts(pairs)
  PROVE  /\ Kept(pairs) \subseteq pairs
         /\ \A p, q \in Kept(pairs) : p[1] = q[1] \/ p[2] = q[2] => p = q
         /\ \A p \in pairs : (\A q \in pairs : q[1] = p[1] \/ q[2] = p[2] => q = p)
                               => p \in Kept(pairs)
<1> DEFINE K == KeptOf(pairs)
           lone(p, s) == \A q \in s : q[1] = p[1] \/ q[2] = p[2] => q = p
           ok(s) == /\ K[s] \subseteq s
                    /\ \A p, q \in K[s] : p[1] = q[1] \/ p[2] = q[2] => p = q
                    /\ \A p \in s : lone(p, s) => p \in K[s]
           Bad == {s \in SUBSET pairs : ~ok(s)}
<1>1. {} \notin Bad BY KeptIs
<1>2. ASSUME NEW s \in Bad, s # {} PROVE Besides(s, FirstOf(s)) \in Bad
  <2> DEFINE f == FirstOf(s)  t == Besides(s, f)
  <2>1. f \in s /\ t \in SUBSET pairs /\ t \subseteq s BY <1>2, FewerBesides DEF HasFirsts
  <2>2. K[s] = {f} \cup K[t] BY <1>2, KeptIs
  <2>3. \A q \in s : q \in t <=> q[1] # f[1] /\ q[2] # f[2] BY DEF Besides
  <2> HIDE DEF f, t, K
  <2>4. SUFFICES ASSUME ok(t) PROVE ok(s) BY <2>1 DEF t, f
  <2>5. K[s] \subseteq s BY <2>1, <2>2, <2>4
  <2>6. \A p, q \in K[s] : p[1] = q[1] \/ p[2] = q[2] => p = q BY <2>1, <2>2, <2>3, <2>4
  <2>7. ASSUME NEW p \in s, lone(p, s) PROVE p \in K[s]
    <3>1. CASE p = f BY <2>2, <3>1
    <3>2. CASE p # f
      <4>1. p \in t BY <2>1, <2>3, <2>7, <3>2
      <4>2. lone(p, t) BY <2>1, <2>7
      <4> QED BY <2>2, <2>4, <4>1, <4>2
    <3> QED BY <3>1, <3>2
  <2> QED BY <2>5, <2>6, <2>7
<1>3. Bad = {}
  <2>1. Bad \in SUBSET SUBSET pairs OBVIOUS
  <2> HIDE DEF Bad
  <2> QED BY <1>1, <1>2, <2>1, Besiding
<1>4. ok(pairs) BY <1>3
<1> HIDE DEF K
<1> QED BY <1>4, KeptIs DEF K

---------------------------------------------------------------------------
(* The player's plan.                                                      *)

GroupRecs == [speakers : SUBSET Nat, airplay : SUBSET Nat, sender : Nat]

\* Running groups: none empty, no speaker in two, and a sender only where one is needed.
RunsAre(rs) ==
  /\ rs \in Seq(GroupRecs)
  /\ \A i \in DOMAIN rs :
       /\ rs[i].speakers # {} /\ rs[i].airplay \subseteq rs[i].speakers
       /\ rs[i].sender \in Senders \cup {NoSender}
       /\ rs[i].sender # NoSender => rs[i].airplay # {}
  /\ \A i, j \in DOMAIN rs : i # j => rs[i].speakers \cap rs[j].speakers = {}

LEMMA GroupsAre ==
  ASSUME NEW b, IsBay(b)
  PROVE  /\ IsFiniteSet(DOMAIN b.speakers) /\ IsFiniteSet(Groups(b))
         /\ \A g \in Groups(b) : /\ g \subseteq DOMAIN b.speakers /\ g \in SUBSET Nat
                                 /\ g # {} /\ IsFiniteSet(g) /\ Min(g) \in g
         /\ \A g, h \in Groups(b) : g \cap h # {} => g = h
<1>1. b.last \in Nat /\ DOMAIN b.speakers \subseteq 1..b.last BY DEF IsBay
<1>2. IsFiniteSet(DOMAIN b.speakers)
  <2>1. ASSUME NEW n \in Nat PROVE IsFiniteSet(1..n) BY FS_Interval
  <2>2. IsFiniteSet(1..b.last) BY <1>1, <2>1
  <2> QED BY <1>1, <2>2, FS_Subset
<1>3. \A g \in Groups(b) : g \subseteq DOMAIN b.speakers /\ g # {} BY DEF Groups, Heard
<1>4. IsFiniteSet(Groups(b))
  <2>1. IsFiniteSet(SUBSET DOMAIN b.speakers) BY <1>2, FS_SUBSET
  <2>2. Groups(b) \in SUBSET SUBSET DOMAIN b.speakers BY <1>3
  <2> QED BY <2>1, <2>2, FS_Subset
<1>5. ASSUME NEW g \in Groups(b) PROVE g \in SUBSET Nat /\ IsFiniteSet(g) /\ Min(g) \in g
  <2>1. g \in SUBSET Nat BY <1>1, <1>3
  <2> QED BY <1>2, <1>3, <2>1, FS_Subset, LeastOf
<1>6. \A g, h \in Groups(b) : g \cap h # {} => g = h BY DEF Groups
<1> QED BY <1>2, <1>3, <1>4, <1>5, <1>6

\* A running group and a new one have at most all speakers in common, and some if any.
LEMMA SharedIs ==
  ASSUME NEW i, NEW g, IsFiniteSet(g)
  PROVE  /\ Shared(<<i, g>>) \in Nat /\ Shared(<<i, g>>) <= Cardinality(g)
         /\ Shared(<<i, g>>) > 0 <=> running[i].speakers \cap g # {}
<1> DEFINE s == running[i].speakers \cap g
<1>1. Shared(<<i, g>>) = Cardinality(s) BY DEF Shared
<1>2. IsFiniteSet(s) /\ Cardinality(s) <= Cardinality(g) BY FS_Subset
<1>3. Cardinality(s) \in Nat /\ (Cardinality(s) = 0 <=> s = {})
  BY <1>2, FS_CardinalityType, FS_EmptySet
<1> HIDE DEF s
<1>4. Shared(<<i, g>>) > 0 <=> s # {} BY <1>1, <1>3
<1> QED BY <1>1, <1>2, <1>3, <1>4 DEF s

Candidates == {p \in (DOMAIN running) \X Groups(bay) : Shared(p) > 0}

LEMMA CandidatesAre ==
  ASSUME IsBay(bay), running \in Seq(GroupRecs)
  PROVE  HasFirsts(Candidates)
<1> DEFINE top == Cardinality(DOMAIN bay.speakers)
<1>1. IsFiniteSet(DOMAIN running) /\ DOMAIN running \subseteq Nat
  <2>1. DOMAIN running = 1..Len(running) /\ Len(running) \in Nat BY LenProperties
  <2> QED BY <2>1, FS_Interval
<1>2. IsFiniteSet(Candidates)
  <2>1. IsFiniteSet((DOMAIN running) \X Groups(bay)) BY <1>1, GroupsAre, FS_Product
  <2> QED BY <2>1, FS_Subset DEF Candidates
<1>3. top \in Nat BY GroupsAre, FS_CardinalityType
<1>4. \A g \in Groups(bay) : Cardinality(g) \in Nat /\ Cardinality(g) <= top
  BY GroupsAre, FS_Subset, FS_CardinalityType
<1> HIDE DEF top
<1>5. ASSUME NEW left \in SUBSET Candidates, left # {} PROVE FirstOf(left) \in left
  <2>1. ASSUME NEW p \in left
        PROVE  /\ p = <<p[1], p[2]>> /\ p[1] \in Nat /\ p[2] \in Groups(bay)
               /\ Shared(p) \in Nat /\ Shared(p) <= top
    <3>1. p = <<p[1], p[2]>> /\ p[1] \in Nat /\ p[2] \in Groups(bay) BY <1>1 DEF Candidates
    <3>2. Shared(<<p[1], p[2]>>) \in Nat /\ Shared(<<p[1], p[2]>>) <= Cardinality(p[2])
      BY <3>1, GroupsAre, SharedIs
    <3>3. Shared(p) = Shared(<<p[1], p[2]>>) BY <3>1
    <3> QED BY <1>3, <1>4, <3>1, <3>2, <3>3
  <2>2. ASSUME NEW p \in left, NEW q \in left, Min(p[2]) = Min(q[2]) PROVE p[2] = q[2]
    <3>1. p[2] \in Groups(bay) /\ q[2] \in Groups(bay) BY <2>1
    <3>2. Min(p[2]) \in p[2] /\ Min(q[2]) \in q[2] BY <3>1, GroupsAre
    <3>3. p[2] \cap q[2] # {} BY <2>2, <3>2
    <3> QED BY <3>1, <3>3, GroupsAre
  <2>3. \A p \in left : Min(p[2]) \in Nat BY <2>1, GroupsAre
  <2>4. IsPairs(left, top) BY <2>1, <2>2, <2>3 DEF IsPairs
  <2> QED BY <1>3, <1>5, <2>4, FirstIs
<1> QED BY <1>2, <1>5 DEF HasFirsts

\* A group that is planned is one of the patchbay's, has its AirPlay speakers, and no other is
\* the same; one that goes on from a running group has its sender.
LEMMA GroupIs ==
  ASSUME NEW g \in SUBSET Nat, NEW sender \in Nat
  PROVE  /\ Group(g, sender) \in GroupRecs
         /\ Group(g, sender).speakers = g /\ Group(g, sender).airplay = AirPlay(bay, g)
         /\ Group(g, sender).sender = IF AirPlay(bay, g) = {} THEN NoSender ELSE sender
<1>1. AirPlay(bay, g) \in SUBSET Nat BY DEF AirPlay
<1> QED BY <1>1 DEF Group, GroupRecs, NoSender

LEMMA RegroupedIs ==
  ASSUME IsBay(bay), RunsAre(running)
  PROVE  /\ Regrouped \in Seq(GroupRecs)
         /\ \A k \in DOMAIN Regrouped :
              LET r == Regrouped[k] IN
              /\ r.speakers \in Groups(bay) /\ r.airplay = AirPlay(bay, r.speakers)
              /\ \/ r.sender = NoSender
                 \/ r.airplay # {} /\ \E i \in DOMAIN running : r.sender = running[i].sender
              /\ \A i \in DOMAIN running :
                   <<i, r.speakers>> \in Kept(Candidates) /\ r.airplay # {}
                     => r.sender = running[i].sender
         /\ \A k, l \in DOMAIN Regrouped :
              Regrouped[k].speakers = Regrouped[l].speakers => k = l
<1> DEFINE groups == Groups(bay)
           same == Kept(Candidates)
           ofOld == [p \in same |-> p[1]]
           rest == groups \ {p[2] : p \in same}
           ofNew == [g \in groups |-> Min(g)]
           old == InOrder(same, ofOld)
           new == InOrder(rest, ofNew)
           stay == [n \in DOMAIN old |-> Group(old[n][2], running[old[n][1]].sender)]
           come == [n \in DOMAIN new |-> Group(new[n], NoSender)]
<1>1. Regrouped = stay \o come BY DEF Regrouped, Pairs, Candidates
<1>2. /\ HasFirsts(Candidates) /\ same \subseteq Candidates
      /\ \A p, q \in same : p[1] = q[1] \/ p[2] = q[2] => p = q
  BY CandidatesAre, KeptApart DEF RunsAre
<1>3. /\ running \in Seq(GroupRecs) /\ DOMAIN running \subseteq Nat
      /\ \A i \in DOMAIN running : running[i].sender \in Nat
  <2>1. running \in Seq(GroupRecs) BY DEF RunsAre
  <2>2. DOMAIN running = 1..Len(running) /\ Len(running) \in Nat BY <2>1, LenProperties
  <2>3. \A i \in DOMAIN running : running[i] \in GroupRecs BY <2>1, <2>2, ElementOfSeq
  <2> QED BY <2>1, <2>2, <2>3 DEF GroupRecs
<1>4. \A p \in same : p = <<p[1], p[2]>> /\ p[1] \in DOMAIN running /\ p[2] \in groups
  BY <1>2 DEF Candidates
<1>5. IsFiniteSet(same) /\ IsFiniteSet(rest)
  BY <1>2, GroupsAre, FS_Subset DEF HasFirsts
<1> HIDE DEF same, groups, rest
<1>6. /\ old \in Seq(same) /\ Len(old) \in Nat /\ DOMAIN old = 1..Len(old)
      /\ \A n \in DOMAIN old : old[n] \in same
      /\ \A m, n \in DOMAIN old : old[m] = old[n] => m = n
      /\ \A p \in same : \E n \in DOMAIN old : old[n] = p
  <2>1. \A p \in same : ofOld[p] \in Nat BY <1>3, <1>4
  <2>2. \A p, q \in same : ofOld[p] = ofOld[q] => p = q BY <1>2
  <2> HIDE DEF ofOld
  <2> DEFINE c == Cardinality(same)
  <2>3. /\ c \in Nat /\ old \in [1..c -> same] /\ old \in Seq(same) /\ Len(old) = c
        /\ \A p \in same : \E n \in 1..c : old[n] = p
        /\ \A m, n \in 1..c : old[m] = old[n] => m = n
    BY <1>5, <2>1, <2>2, Ordered
  <2> HIDE DEF c, old
  <2>4. DOMAIN old = 1..c BY <2>3
  <2> QED BY <2>3, <2>4
<1>7. /\ new \in Seq(rest) /\ Len(new) \in Nat /\ DOMAIN new = 1..Len(new)
      /\ \A n \in DOMAIN new : new[n] \in rest
      /\ \A m, n \in DOMAIN new : new[m] = new[n] => m = n
  <2>1. rest \subseteq groups BY DEF rest
  <2>2. \A g \in groups : Min(g) \in g /\ Min(g) \in Nat /\ g \in SUBSET Nat BY GroupsAre DEF groups
  <2>3. \A g \in rest : ofNew[g] \in Nat BY <2>1, <2>2
  <2>4. ASSUME NEW g \in rest, NEW h \in rest, ofNew[g] = ofNew[h] PROVE g = h
    <3>1. g \in groups /\ h \in groups /\ Min(g) = Min(h) BY <2>1, <2>4
    <3>2. g \cap h # {} BY <2>2, <3>1
    <3> QED BY <3>1, <3>2, GroupsAre DEF groups
  <2> HIDE DEF ofNew
  <2> QED BY <1>5, <2>3, <2>4, Ordered
<1> HIDE DEF old, new
<1>8. \A g \in groups : g \in SUBSET Nat BY GroupsAre DEF groups
<1>9. ASSUME NEW n \in DOMAIN old
      PROVE  /\ old[n][2] \in groups /\ stay[n] \in GroupRecs
             /\ stay[n].speakers = old[n][2] /\ stay[n].airplay = AirPlay(bay, old[n][2])
             /\ old[n][1] \in DOMAIN running
             /\ stay[n].sender = IF AirPlay(bay, old[n][2]) = {} THEN NoSender
                                 ELSE running[old[n][1]].sender
  <2>1. old[n] \in same BY <1>6
  <2>2. old[n][2] \in groups /\ old[n][1] \in DOMAIN running BY <1>4, <2>1
  <2>3. old[n][2] \in SUBSET Nat /\ running[old[n][1]].sender \in Nat BY <1>3, <1>8, <2>2
  <2>4. stay[n] = Group(old[n][2], running[old[n][1]].sender) OBVIOUS
  <2> HIDE DEF stay
  <2> QED BY <2>2, <2>3, <2>4, GroupIs
<1>10. ASSUME NEW n \in DOMAIN new
       PROVE  /\ new[n] \in rest /\ new[n] \in groups /\ come[n] \in GroupRecs
              /\ come[n].speakers = new[n] /\ come[n].airplay = AirPlay(bay, new[n])
              /\ come[n].sender = NoSender
  <2>1. new[n] \in rest /\ new[n] \in groups /\ NoSender \in Nat BY <1>7 DEF rest, NoSender
  <2>2. come[n] = Group(new[n], NoSender) OBVIOUS
  <2> HIDE DEF come
  <2> QED BY <1>8, <2>1, <2>2, GroupIs
<1>11. stay \in Seq(GroupRecs) /\ Len(stay) = Len(old)
  <2>1. stay \in [1..Len(old) -> GroupRecs] BY <1>6, <1>9
  <2> HIDE DEF stay
  <2> QED BY <1>6, <2>1, SeqDef, LenProperties
<1>12. come \in Seq(GroupRecs) /\ Len(come) = Len(new)
  <2>1. come \in [1..Len(new) -> GroupRecs] BY <1>7, <1>10
  <2> HIDE DEF come
  <2> QED BY <1>7, <2>1, SeqDef, LenProperties
<1> HIDE DEF stay, come
<1> DEFINE R == stay \o come
<1>13. /\ R \in Seq(GroupRecs) /\ DOMAIN R = 1..(Len(old) + Len(new))
       /\ \A n \in DOMAIN old : R[n] = stay[n]
       /\ \A n \in DOMAIN new : R[Len(old) + n] = come[n]
       /\ \A k \in DOMAIN R : k \in DOMAIN old \/ (k - Len(old) \in DOMAIN new /\ k = Len(old) + (k - Len(old)))
  <2>1. R \in Seq(GroupRecs) /\ Len(R) = Len(old) + Len(new)
    <3>1. R \in Seq(GroupRecs) /\ Len(R) = Len(stay) + Len(come)
      BY <1>11, <1>12, ConcatProperties
    <3> HIDE DEF R
    <3> QED BY <1>11, <1>12, <3>1
  <2>2. DOMAIN R = 1..(Len(old) + Len(new)) BY <2>1, LenProperties
  <2>3. \A n \in 1..Len(old) : R[n] = stay[n] BY <1>6, <1>7, <1>11, <1>12, ConcatProperties
  <2>4. \A n \in 1..Len(new) : R[Len(old) + n] = come[n]
    <3> SUFFICES ASSUME NEW n \in 1..Len(new) PROVE R[Len(old) + n] = come[n] OBVIOUS
    <3>1. Len(old) + n \in 1..(Len(stay) + Len(come)) /\ Len(old) + n > Len(stay)
          /\ (Len(old) + n) - Len(stay) = n
      BY <1>6, <1>7, <1>11, <1>12
    <3> QED BY <1>11, <1>12, <3>1, ConcatProperties
  <2>5. \A k \in 1..(Len(old) + Len(new)) :
          k \in 1..Len(old) \/ (k - Len(old) \in 1..Len(new) /\ k = Len(old) + (k - Len(old)))
    BY <1>6, <1>7
  <2> QED BY <1>6, <1>7, <2>1, <2>2, <2>3, <2>4, <2>5
<1> HIDE DEF R
<1>14. ASSUME NEW k \in DOMAIN R
       PROVE  /\ R[k].speakers \in groups /\ R[k].airplay = AirPlay(bay, R[k].speakers)
              /\ \/ R[k].sender = NoSender
                 \/ R[k].airplay # {} /\ \E i \in DOMAIN running : R[k].sender = running[i].sender
              /\ \A i \in DOMAIN running :
                   <<i, R[k].speakers>> \in same /\ R[k].airplay # {}
                     => R[k].sender = running[i].sender
  <2>1. CASE k \in DOMAIN old
    <3>1. R[k] = stay[k] BY <1>13, <2>1
    <3>2. ASSUME NEW i \in DOMAIN running, <<i, R[k].speakers>> \in same PROVE i = old[k][1]
      <4>1. <<i, R[k].speakers>>[2] = old[k][2] BY <1>9, <2>1, <3>1
      <4>2. <<i, R[k].speakers>> = old[k] BY <1>2, <1>6, <2>1, <3>2, <4>1
      <4> QED BY <4>2
    <3> QED BY <1>9, <2>1, <3>1, <3>2
  <2>2. CASE k \notin DOMAIN old
    <3> DEFINE n == k - Len(old)
    <3>1. n \in DOMAIN new /\ R[k] = come[n] BY <1>13, <2>2
    <3> HIDE DEF n
    <3>2. \A i \in DOMAIN running : <<i, R[k].speakers>> \notin same
      <4> SUFFICES ASSUME NEW i \in DOMAIN running, <<i, R[k].speakers>> \in same PROVE FALSE
        OBVIOUS
      <4>1. <<i, R[k].speakers>>[2] = new[n] BY <1>10, <3>1
      <4>2. new[n] \notin rest BY <4>1 DEF rest
      <4> QED BY <1>10, <3>1, <4>2
    <3> QED BY <1>10, <3>1, <3>2
  <2> QED BY <2>1, <2>2
<1>15. ASSUME NEW k \in DOMAIN R, NEW l \in DOMAIN R, R[k].speakers = R[l].speakers PROVE k = l
  <2>1. ASSUME NEW n \in DOMAIN old, NEW m \in DOMAIN new PROVE old[n][2] # new[m]
    <3>1. old[n] \in same BY <1>6
    <3> QED BY <1>10, <2>1, <3>1 DEF rest
  <2>2. CASE k \in DOMAIN old /\ l \in DOMAIN old
    <3>1. old[k][2] = old[l][2] /\ old[k] \in same /\ old[l] \in same
      BY <1>6, <1>9, <1>13, <1>15, <2>2
    <3> QED BY <1>2, <1>6, <2>2, <3>1
  <2>3. CASE k \in DOMAIN old /\ l \notin DOMAIN old
    <3> DEFINE m == l - Len(old)
    <3>1. m \in DOMAIN new /\ R[l] = come[m] BY <1>13, <2>3
    <3> HIDE DEF m
    <3> QED BY <1>9, <1>10, <1>13, <1>15, <2>1, <2>3, <3>1
  <2>4. CASE l \in DOMAIN old /\ k \notin DOMAIN old
    <3> DEFINE m == k - Len(old)
    <3>1. m \in DOMAIN new /\ R[k] = come[m] BY <1>13, <2>4
    <3> HIDE DEF m
    <3>2. R[l].speakers = old[l][2] /\ R[k].speakers = new[m] BY <1>9, <1>10, <1>13, <2>4, <3>1
    <3>3. old[l][2] # new[m] BY <2>1, <2>4, <3>1
    <3> QED BY <1>15, <3>2, <3>3
  <2>5. CASE k \notin DOMAIN old /\ l \notin DOMAIN old
    <3> DEFINE n == k - Len(old)  m == l - Len(old)
    <3>1. /\ n \in DOMAIN new /\ R[k] = come[n] /\ m \in DOMAIN new /\ R[l] = come[m]
          /\ k = Len(old) + n /\ l = Len(old) + m
      BY <1>13, <2>5
    <3> HIDE DEF n, m
    <3>2. n = m BY <1>7, <1>10, <1>15, <3>1
    <3> QED BY <3>1, <3>2
  <2> QED BY <2>2, <2>3, <2>4, <2>5
<1>16. Regrouped = R BY <1>1 DEF R
<1> QED BY <1>13, <1>14, <1>15, <1>16 DEF same, groups

\* Whoever needs a sender gets a free one, or none; nothing else of a group changes.
LEMMA FreeIs ==
  ASSUME ConstantsFit, NEW rs \in Seq(GroupRecs)
  PROVE  LET W == WithFreeSenders(rs) IN
         /\ W \in Seq(GroupRecs) /\ DOMAIN W = DOMAIN rs
         /\ \A i \in DOMAIN rs :
              /\ W[i].speakers = rs[i].speakers /\ W[i].airplay = rs[i].airplay
              /\ \/ W[i].sender = rs[i].sender
                 \/ rs[i].sender = NoSender /\ rs[i].airplay # {} /\ W[i].sender \in Senders
<1> DEFINE open == Senders \ InUse(rs)
           ofOpen == [s \in Senders |-> s]
           free == InOrder(open, ofOpen)
           needy == {i \in DOMAIN rs : rs[i].sender = NoSender /\ rs[i].airplay # {}}
           rank(i) == Cardinality({j \in needy : j <= i})
           new(i) == IF i \in needy /\ rank(i) <= Len(free)
                       THEN [rs[i] EXCEPT !.sender = free[rank(i)]] ELSE rs[i]
           W == [i \in DOMAIN rs |-> new(i)]
<1>1. WithFreeSenders(rs) = W BY DEF WithFreeSenders
<1>2. /\ DOMAIN rs = 1..Len(rs) /\ Len(rs) \in Nat
      /\ \A i \in DOMAIN rs : rs[i] \in GroupRecs
  BY LenProperties, ElementOfSeq
<1>3. IsFiniteSet(Senders) /\ Senders \subseteq Nat BY DEF ConstantsFit
<1>4. Len(free) \in Nat /\ \A n \in 1..Len(free) : free[n] \in Senders
  <2>1. IsFiniteSet(open) BY <1>3, FS_Difference
  <2>2. open \subseteq Senders OBVIOUS
  <2>3. \A s \in open : ofOpen[s] = s /\ s \in Nat BY <1>3
  <2> HIDE DEF open, ofOpen
  <2>4. Cardinality(open) \in Nat /\ free \in [1..Cardinality(open) -> open]
        /\ Len(free) = Cardinality(open)
    BY <2>1, <2>3, Ordered
  <2> QED BY <2>2, <2>4
<1> HIDE DEF open, free
<1>5. ASSUME NEW i \in needy PROVE rank(i) \in Nat \ {0}
  <2> DEFINE before == {j \in needy : j <= i}
  <2>1. i \in before BY <1>2
  <2>2. IsFiniteSet(DOMAIN rs) BY <1>2, FS_Interval
  <2>3. IsFiniteSet(before) BY <2>2, FS_Subset
  <2> HIDE DEF before
  <2>4. Cardinality(before) \in Nat /\ Cardinality(before) # 0
    BY <2>1, <2>3, FS_CardinalityType, FS_EmptySet
  <2> QED BY <2>4 DEF before
<1>6. ASSUME NEW i \in DOMAIN rs
      PROVE  /\ new(i) \in GroupRecs
             /\ new(i).speakers = rs[i].speakers /\ new(i).airplay = rs[i].airplay
             /\ \/ new(i).sender = rs[i].sender
                \/ rs[i].sender = NoSender /\ rs[i].airplay # {} /\ new(i).sender \in Senders
  <2>1. CASE i \in needy /\ rank(i) <= Len(free)
    <3> DEFINE s == free[rank(i)]
    <3>1. s \in Senders /\ s \in Nat
      <4>1. rank(i) \in Nat \ {0} BY <1>5, <2>1
      <4> HIDE DEF rank
      <4>2. rank(i) \in 1..Len(free) BY <1>4, <2>1, <4>1
      <4> QED BY <1>3, <1>4, <4>2
    <3>2. new(i) = [rs[i] EXCEPT !.sender = s] BY <2>1
    <3>3. rs[i].sender = NoSender /\ rs[i].airplay # {} BY <2>1
    <3> HIDE DEF new, s
    <3>4. /\ new(i) \in GroupRecs /\ new(i).speakers = rs[i].speakers
          /\ new(i).airplay = rs[i].airplay /\ new(i).sender = s
      BY <1>2, <3>1, <3>2 DEF GroupRecs
    <3> QED BY <3>1, <3>3, <3>4
  <2>2. CASE ~(i \in needy /\ rank(i) <= Len(free))
    <3>1. new(i) = rs[i] BY <2>2
    <3> HIDE DEF new
    <3> QED BY <1>2, <3>1
  <2> QED BY <2>1, <2>2
<1> HIDE DEF new
<1>7. W \in Seq(GroupRecs) /\ DOMAIN W = DOMAIN rs
  <2>1. W \in [1..Len(rs) -> GroupRecs] BY <1>2, <1>6
  <2> HIDE DEF W
  <2> QED BY <1>2, <2>1, SeqDef
<1>8. \A i \in DOMAIN rs : W[i] = new(i) OBVIOUS
<1> HIDE DEF W
<1> QED BY <1>1, <1>6, <1>7, <1>8

Planned == WithFreeSenders(Regrouped)

LEMMA PlannedAre ==
  ASSUME ConstantsFit, IsBay(bay), RunsAre(running)
  PROVE  /\ RunsAre(Planned)
         /\ \A k \in DOMAIN Planned : /\ Planned[k].speakers \in Groups(bay)
                                      /\ Planned[k].airplay = AirPlay(bay, Planned[k].speakers)
         /\ \A k \in DOMAIN Planned, i \in DOMAIN running :
              /\ running[i].sender # NoSender /\ Planned[k].airplay # {}
              /\ running[i].speakers \subseteq Planned[k].speakers
              /\ \A j \in DOMAIN running \ {i} : running[j].speakers \cap Planned[k].speakers = {}
              => Planned[k].sender = running[i].sender
<1> DEFINE R == Regrouped
<1>1. /\ R \in Seq(GroupRecs)
      /\ \A k \in DOMAIN R :
           /\ R[k].speakers \in Groups(bay) /\ R[k].airplay = AirPlay(bay, R[k].speakers)
           /\ \/ R[k].sender = NoSender
              \/ R[k].airplay # {} /\ \E i \in DOMAIN running : R[k].sender = running[i].sender
           /\ \A i \in DOMAIN running :
                <<i, R[k].speakers>> \in Kept(Candidates) /\ R[k].airplay # {}
                  => R[k].sender = running[i].sender
      /\ \A k, l \in DOMAIN R : R[k].speakers = R[l].speakers => k = l
  BY RegroupedIs
<1>2. /\ Planned \in Seq(GroupRecs) /\ DOMAIN Planned = DOMAIN R
      /\ \A k \in DOMAIN R :
           /\ Planned[k].speakers = R[k].speakers /\ Planned[k].airplay = R[k].airplay
           /\ \/ Planned[k].sender = R[k].sender
              \/ R[k].sender = NoSender /\ R[k].airplay # {} /\ Planned[k].sender \in Senders
  BY <1>1, FreeIs DEF Planned
<1> HIDE DEF R
<1>3. /\ \A g \in Groups(bay) : g # {} /\ IsFiniteSet(g)
      /\ \A g, h \in Groups(bay) : g \cap h # {} => g = h
  BY GroupsAre
<1>4. RunsAre(Planned)
  <2>1. ASSUME NEW k \in DOMAIN Planned
        PROVE  /\ Planned[k].speakers # {} /\ Planned[k].airplay \subseteq Planned[k].speakers
               /\ Planned[k].sender \in Senders \cup {NoSender}
               /\ Planned[k].sender # NoSender => Planned[k].airplay # {}
    <3>1. Planned[k].speakers # {} BY <1>1, <1>2, <1>3
    <3>2. Planned[k].airplay \subseteq Planned[k].speakers BY <1>1, <1>2 DEF AirPlay
    <3>3. \A i \in DOMAIN running : running[i].sender \in Senders \cup {NoSender} BY DEF RunsAre
    <3>4. R[k].sender \in Senders \cup {NoSender} /\ (R[k].sender # NoSender => R[k].airplay # {})
      BY <1>1, <1>2, <3>3
    <3> QED BY <1>2, <3>1, <3>2, <3>4
  <2>2. ASSUME NEW k \in DOMAIN Planned, NEW l \in DOMAIN Planned, k # l
        PROVE  Planned[k].speakers \cap Planned[l].speakers = {}
    BY <1>1, <1>2, <1>3, <2>2
  <2> QED BY <1>2, <2>1, <2>2 DEF RunsAre
<1>5. ASSUME NEW k \in DOMAIN Planned, NEW i \in DOMAIN running,
             running[i].sender # NoSender, Planned[k].airplay # {},
             running[i].speakers \subseteq Planned[k].speakers,
             \A j \in DOMAIN running \ {i} : running[j].speakers \cap Planned[k].speakers = {}
      PROVE  Planned[k].sender = running[i].sender
  <2> DEFINE g == Planned[k].speakers
  <2>1. g \in Groups(bay) /\ g = R[k].speakers /\ R[k].airplay # {} BY <1>1, <1>2, <1>5
  <2> HIDE DEF g
  <2>2. running[i].speakers # {} /\ running[i].speakers \subseteq g BY <1>5 DEF RunsAre, g
  <2>3. \A j \in DOMAIN running \ {i} : running[j].speakers \cap g = {} BY <1>5 DEF g
  <2>4. <<i, g>> \in Candidates
    <3>1. Shared(<<i, g>>) > 0 BY <1>3, <2>1, <2>2, SharedIs
    <3> QED BY <2>1, <3>1 DEF Candidates
  <2>5. ASSUME NEW q \in Candidates, q[1] = i \/ q[2] = g PROVE q = <<i, g>>
    <3>1. q = <<q[1], q[2]>> /\ q[1] \in DOMAIN running /\ q[2] \in Groups(bay) /\ Shared(q) > 0
      BY DEF Candidates
    <3>2. running[q[1]].speakers \cap q[2] # {}
      <4>1. Shared(<<q[1], q[2]>>) > 0 BY <3>1
      <4>2. IsFiniteSet(q[2]) BY <1>3, <3>1
      <4> QED BY <4>1, <4>2, SharedIs
    <3>3. CASE q[1] = i
      <4>1. q[2] \cap g # {} BY <2>2, <3>2, <3>3
      <4> QED BY <1>3, <2>1, <3>1, <3>3, <4>1
    <3>4. CASE q[2] = g BY <2>3, <3>1, <3>2, <3>4
    <3> QED BY <2>5, <3>3, <3>4
  <2>6. <<i, g>> \in Kept(Candidates)
    <3>1. running \in Seq(GroupRecs) BY DEF RunsAre
    <3>2. HasFirsts(Candidates) BY <3>1, CandidatesAre
    <3>3. \A q \in Candidates : q[1] = <<i, g>>[1] \/ q[2] = <<i, g>>[2] => q = <<i, g>> BY <2>5
    <3> QED BY <2>4, <3>2, <3>3, KeptApart
  <2>7. R[k].sender = running[i].sender BY <1>1, <1>2, <2>1, <2>6
  <2> QED BY <1>2, <1>5, <2>7
<1> QED BY <1>1, <1>2, <1>4, <1>5

\* No speaker is played by two senders, and a sender not in use plays none.
LEMMA PlayedApart ==
  ASSUME ConstantsFit, NEW rs, RunsAre(rs)
  PROVE  /\ InUse(rs) \subseteq Senders
         /\ \A s : PlayedBy(rs, s) \in SUBSET Nat
         /\ \A s \in Senders : PlayedBy(rs, s) # {} => s \in InUse(rs)
         /\ \A s, t \in Senders : s # t => PlayedBy(rs, s) \cap PlayedBy(rs, t) = {}
<1>1. /\ \A i \in DOMAIN rs : rs[i] \in GroupRecs
      /\ \A i \in DOMAIN rs : /\ rs[i].sender \in Senders \cup {NoSender}
                              /\ rs[i].airplay \subseteq rs[i].speakers
      /\ \A i, j \in DOMAIN rs : i # j => rs[i].speakers \cap rs[j].speakers = {}
  <2>1. rs \in Seq(GroupRecs) BY DEF RunsAre
  <2>2. \A i \in DOMAIN rs : rs[i] \in GroupRecs BY <2>1, ElementOfSeq, LenProperties
  <2> QED BY <2>2 DEF RunsAre
<1>2. \A s, p : p \in PlayedBy(rs, s) <=> \E i \in DOMAIN rs : rs[i].sender = s /\ p \in rs[i].airplay
  BY DEF PlayedBy
<1>3. \A s : PlayedBy(rs, s) \in SUBSET Nat BY <1>1, <1>2 DEF GroupRecs
<1>4. NoSender \notin Senders BY DEF ConstantsFit
<1>5. InUse(rs) \subseteq Senders BY <1>1 DEF InUse
<1>6. \A s \in Senders : PlayedBy(rs, s) # {} => s \in InUse(rs) BY <1>2, <1>4 DEF InUse
<1>7. ASSUME NEW s, NEW t, s # t PROVE PlayedBy(rs, s) \cap PlayedBy(rs, t) = {}
  <2> SUFFICES ASSUME NEW p, p \in PlayedBy(rs, s), p \in PlayedBy(rs, t) PROVE FALSE
    OBVIOUS
  <2>1. PICK i \in DOMAIN rs : rs[i].sender = s /\ p \in rs[i].airplay BY <1>2
  <2>2. PICK j \in DOMAIN rs : rs[j].sender = t /\ p \in rs[j].airplay BY <1>2
  <2>3. i # j BY <1>7, <2>1, <2>2
  <2> QED BY <1>1, <2>1, <2>2, <2>3
<1> QED BY <1>3, <1>5, <1>6, <1>7

\* What the control thread is told: of each sender once.
Commands == [sender : Senders, speakers : SUBSET Nat, released : BOOLEAN]

LEMMA ToldIs ==
  ASSUME ConstantsFit, NEW asks \in SUBSET Commands,
         \A p, q \in asks : p.sender = q.sender => p = q
  PROVE  /\ Told(asks) \in Seq(Commands)
         /\ \A n \in 1..Len(Told(asks)) : Told(asks)[n] \in asks
         /\ \A c \in asks : \E n \in 1..Len(Told(asks)) : Told(asks)[n] = c
<1> DEFINE of == [c \in asks |-> c.sender]
<1>1. IsFiniteSet(Senders) /\ Senders \subseteq Nat BY DEF ConstantsFit
<1>2. \A c \in asks : c.sender \in Senders BY DEF Commands
<1>3. of \in Injection(asks, Senders) BY <1>2 DEF Injection, IsInjective
<1>4. IsFiniteSet(asks) BY <1>1, <1>3, FS_Injection
<1>5. \A c \in asks : of[c] \in Nat BY <1>1, <1>2
<1>6. \A p, q \in asks : of[p] = of[q] => p = q OBVIOUS
<1>7. Told(asks) = InOrder(asks, of) BY DEF Told
<1> HIDE DEF of
<1> DEFINE c == Cardinality(asks)  o == InOrder(asks, of)
<1>8. /\ c \in Nat /\ o \in [1..c -> asks] /\ o \in Seq(asks) /\ Len(o) = c
      /\ \A x \in asks : \E n \in 1..c : o[n] = x
  BY <1>4, <1>5, <1>6, Ordered
<1> HIDE DEF c, o
<1>9. o \in [1..c -> Commands] BY <1>8
<1>10. o \in Seq(Commands) BY <1>8, <1>9, SeqDef
<1> QED BY <1>7, <1>8, <1>10 DEF o

LetGoTold(L, old, new) ==
  /\ L \in Seq(Commands)
  /\ \A n \in 1..Len(L) :
       L[n].speakers = PlayedBy(old, L[n].sender) \cap PlayedBy(new, L[n].sender)
  /\ \A s \in Senders : ~(PlayedBy(old, s) \subseteq PlayedBy(new, s))
                          => \E n \in 1..Len(L) : L[n].sender = s
TakenOnTold(T, old, new) ==
  /\ T \in Seq(Commands)
  /\ \A n \in 1..Len(T) : T[n].speakers = PlayedBy(new, T[n].sender)
  /\ \A s \in Senders : ~(PlayedBy(new, s) \subseteq PlayedBy(old, s))
                          => \E n \in 1..Len(T) : T[n].sender = s

\* First every sender lets go of what it plays no longer.
LEMMA LetsGoIs ==
  ASSUME ConstantsFit, NEW old, RunsAre(old), NEW new, RunsAre(new), NEW L, L = LetsGo(old, new)
  PROVE  LetGoTold(L, old, new)
<1> DEFINE who == {s \in InUse(old) : ~PlayedBy(old, s) \subseteq PlayedBy(new, s)}
           ask(s) == [sender |-> s, speakers |-> PlayedBy(old, s) \cap PlayedBy(new, s),
                      released |-> s \notin InUse(new)]
           asks == {ask(s) : s \in who}
<1>1. L = Told(asks) BY DEF LetsGo
<1>2. /\ who \subseteq Senders
      /\ \A s \in Senders : ~(PlayedBy(old, s) \subseteq PlayedBy(new, s)) => s \in who
  BY PlayedApart
<1>3. ASSUME NEW s \in who
      PROVE  /\ ask(s) \in Commands /\ ask(s).sender = s
             /\ ask(s).speakers = PlayedBy(old, s) \cap PlayedBy(new, s)
  <2>1. PlayedBy(old, s) \cap PlayedBy(new, s) \in SUBSET Nat BY PlayedApart
  <2> QED BY <1>2, <2>1 DEF Commands
<1> HIDE DEF who, ask
<1>4. asks \in SUBSET Commands BY <1>3
<1>5. \A p, q \in asks : p.sender = q.sender => p = q BY <1>3
<1>6. \A c \in asks : c.speakers = PlayedBy(old, c.sender) \cap PlayedBy(new, c.sender) BY <1>3
<1>7. \A s \in who : \E c \in asks : c.sender = s BY <1>3
<1> HIDE DEF asks
<1>8. /\ L \in Seq(Commands) /\ \A n \in 1..Len(L) : L[n] \in asks
      /\ \A c \in asks : \E n \in 1..Len(L) : L[n] = c
  BY <1>1, <1>4, <1>5, ToldIs
<1>9. \A s \in Senders : ~(PlayedBy(old, s) \subseteq PlayedBy(new, s))
                           => \E n \in 1..Len(L) : L[n].sender = s
  <2> SUFFICES ASSUME NEW s \in Senders, ~(PlayedBy(old, s) \subseteq PlayedBy(new, s))
               PROVE  \E n \in 1..Len(L) : L[n].sender = s
    OBVIOUS
  <2>1. PICK c \in asks : c.sender = s BY <1>2, <1>7
  <2>2. PICK n \in 1..Len(L) : L[n] = c BY <1>8
  <2> QED BY <2>1, <2>2
<1> QED BY <1>6, <1>8, <1>9 DEF LetGoTold

\* Then any takes on more.
LEMMA TakesOnIs ==
  ASSUME ConstantsFit, NEW old, RunsAre(old), NEW new, RunsAre(new), NEW T, T = TakesOn(old, new)
  PROVE  TakenOnTold(T, old, new)
<1> DEFINE who == {s \in InUse(new) : ~PlayedBy(new, s) \subseteq PlayedBy(old, s)}
           ask(s) == [sender |-> s, speakers |-> PlayedBy(new, s), released |-> FALSE]
           asks == {ask(s) : s \in who}
<1>1. T = Told(asks) BY DEF TakesOn, Full
<1>2. /\ who \subseteq Senders
      /\ \A s \in Senders : ~(PlayedBy(new, s) \subseteq PlayedBy(old, s)) => s \in who
  BY PlayedApart
<1>3. ASSUME NEW s \in who
      PROVE  ask(s) \in Commands /\ ask(s).sender = s /\ ask(s).speakers = PlayedBy(new, s)
  <2>1. PlayedBy(new, s) \in SUBSET Nat BY PlayedApart
  <2> QED BY <1>2, <2>1 DEF Commands
<1> HIDE DEF who, ask
<1>4. asks \in SUBSET Commands BY <1>3
<1>5. \A p, q \in asks : p.sender = q.sender => p = q BY <1>3
<1>6. \A c \in asks : c.speakers = PlayedBy(new, c.sender) BY <1>3
<1>7. \A s \in who : \E c \in asks : c.sender = s BY <1>3
<1> HIDE DEF asks
<1>8. /\ T \in Seq(Commands) /\ \A n \in 1..Len(T) : T[n] \in asks
      /\ \A c \in asks : \E n \in 1..Len(T) : T[n] = c
  BY <1>1, <1>4, <1>5, ToldIs
<1>9. \A s \in Senders : ~(PlayedBy(new, s) \subseteq PlayedBy(old, s))
                           => \E n \in 1..Len(T) : T[n].sender = s
  <2> SUFFICES ASSUME NEW s \in Senders, ~(PlayedBy(new, s) \subseteq PlayedBy(old, s))
               PROVE  \E n \in 1..Len(T) : T[n].sender = s
    OBVIOUS
  <2>1. PICK c \in asks : c.sender = s BY <1>2, <1>7
  <2>2. PICK n \in 1..Len(T) : T[n] = c BY <1>8
  <2> QED BY <2>1, <2>2
<1> QED BY <1>6, <1>8, <1>9 DEF TakenOnTold

---------------------------------------------------------------------------
(* What a sender is to have selected once it has done the first n changes  *)
(* told: the latest of them that is its own, or none and it is as it was.  *)

Latest(q, s, i, n) ==
  i \in 0..n /\ (i = 0 \/ q[i].sender = s) /\ \A k \in (i + 1)..n : q[k].sender # s
Asks(q, has, s, i) == IF i = 0 THEN has[s] ELSE q[i].speakers
ApartAt(q, has, n) == \A s, t \in Senders, i, j \in 0..n :
  s # t /\ Latest(q, s, i, n) /\ Latest(q, t, j, n) => Asks(q, has, s, i) \cap Asks(q, has, t, j) = {}
PartAt(q, has, n, rs) == \A s \in Senders, i \in 0..n :
  Latest(q, s, i, n) => Asks(q, has, s, i) \subseteq PlayedBy(rs, s)
ExactAt(q, has, n, rs, D) == \A s \in Senders, i \in 0..n :
  Latest(q, s, i, n) => Asks(q, has, s, i) \cap D = PlayedBy(rs, s) \cap D

\* Two sequences joined, by index.
LEMMA Joined ==
  ASSUME NEW S, NEW q \in Seq(S), NEW r \in Seq(S), NEW W, W = q \o r
  PROVE  /\ W \in Seq(S) /\ Len(W) = Len(q) + Len(r) /\ Len(q) \in Nat /\ Len(r) \in Nat
         /\ \A k \in 1..Len(q) : W[k] = q[k]
         /\ \A k \in 1..Len(r) : W[Len(q) + k] = r[k]
<1>1. Len(q) \in Nat /\ Len(r) \in Nat BY LenProperties
<1>2. q \o r \in Seq(S) /\ Len(q \o r) = Len(q) + Len(r) BY ConcatProperties
<1>3. \A k \in 1..Len(q) : (q \o r)[k] = q[k] BY <1>1, ConcatProperties
<1>4. ASSUME NEW k \in 1..Len(r) PROVE (q \o r)[Len(q) + k] = r[k]
  <2>1. /\ Len(q) + k \in 1..(Len(q) + Len(r)) /\ Len(q) + k > Len(q)
        /\ (Len(q) + k) - Len(q) = k
    BY <1>1
  <2> QED BY <2>1, ConcatProperties
<1> QED BY <1>1, <1>2, <1>3, <1>4

\* What is part of what is planned is apart.
LEMMA PartsAreApart ==
  ASSUME ConstantsFit, NEW rs, RunsAre(rs), NEW q, NEW has, NEW n \in Nat, PartAt(q, has, n, rs)
  PROVE  ApartAt(q, has, n)
<1> SUFFICES ASSUME NEW s \in Senders, NEW t \in Senders, NEW i \in 0..n, NEW j \in 0..n,
                    s # t, Latest(q, s, i, n), Latest(q, t, j, n)
             PROVE  Asks(q, has, s, i) \cap Asks(q, has, t, j) = {}
  BY DEF ApartAt
<1>1. /\ Asks(q, has, s, i) \subseteq PlayedBy(rs, s)
      /\ Asks(q, has, t, j) \subseteq PlayedBy(rs, t)
  BY DEF PartAt
<1>2. PlayedBy(rs, s) \cap PlayedBy(rs, t) = {} BY PlayedApart
<1> QED BY <1>1, <1>2

\* With fewer speakers selected, what was apart and part of what is planned is so still.
LEMMA Shrunk ==
  ASSUME NEW q, NEW has, NEW less, \A s \in Senders : less[s] \subseteq has[s], NEW n \in Nat, NEW rs
  PROVE  /\ ApartAt(q, has, n) => ApartAt(q, less, n)
         /\ PartAt(q, has, n, rs) => PartAt(q, less, n, rs)
<1>1. \A s \in Senders, i \in 0..n : Asks(q, less, s, i) \subseteq Asks(q, has, s, i) BY DEF Asks
<1> QED BY <1>1 DEF ApartAt, PartAt

\* The first change told is done: who it is of has no more than it names.
Follows(q, has, rest, then, s, i, n) ==
  \E j \in 0..(n + 1) : /\ Latest(q, s, j, n + 1)
                        /\ Asks(rest, then, s, i) \subseteq Asks(q, has, s, j)
                        /\ i # 0 => Asks(rest, then, s, i) = Asks(q, has, s, j)
                        /\ i = 0 => j = IF s = q[1].sender THEN 1 ELSE 0
FirstDone(q, has, then) ==
  \A s \in Senders : then[s] \subseteq IF s = q[1].sender THEN q[1].speakers ELSE has[s]

LEMMA Done ==
  ASSUME NEW q \in Seq(Commands), q # <<>>, NEW has, NEW then, FirstDone(q, has, then),
         NEW n \in 0..(Len(q) - 1), NEW s \in Senders, NEW i \in 0..n, Latest(Tail(q), s, i, n)
  PROVE  Follows(q, has, Tail(q), then, s, i, n)
<1>1. /\ Len(q) \in Nat /\ Len(q) # 0
      /\ \A k \in 1..(Len(q) - 1) : Tail(q)[k] = q[k + 1]
  BY EmptySeq, LenProperties, HeadTailProperties, Zenon
<1> DEFINE j == IF i = 0 THEN IF s = q[1].sender THEN 1 ELSE 0 ELSE i + 1
<1>2. j \in 0..(n + 1) BY <1>1
<1>3. ASSUME NEW k \in (j + 1)..(n + 1) PROVE q[k].sender # s
  <2>1. CASE k = 1
    <3>1. i = 0 /\ j = 0 BY <1>1, <2>1
    <3>2. s # q[1].sender BY <3>1
    <3> QED BY <2>1, <3>2
  <2>2. CASE k # 1
    <3>1. k - 1 \in (i + 1)..n /\ k - 1 \in 1..(Len(q) - 1) /\ (k - 1) + 1 = k BY <1>1, <2>2
    <3>2. Tail(q)[k - 1].sender # s BY <3>1 DEF Latest
    <3>3. Tail(q)[k - 1] = q[k] BY <1>1, <3>1
    <3> QED BY <3>2, <3>3
  <2> QED BY <2>1, <2>2
<1>4. i # 0 => Tail(q)[i] = q[j] /\ q[j].sender = s
  <2> SUFFICES ASSUME i # 0 PROVE Tail(q)[i] = q[j] /\ q[j].sender = s OBVIOUS
  <2>1. i \in 1..(Len(q) - 1) /\ j = i + 1 BY <1>1
  <2>2. Tail(q)[i] = q[j] BY <1>1, <2>1
  <2> QED BY <2>2 DEF Latest
<1>5. j = 0 \/ q[j].sender = s BY <1>4
<1>6. Latest(q, s, j, n + 1)
  <2> HIDE DEF j
  <2> QED BY <1>2, <1>3, <1>5 DEF Latest
<1>7. i # 0 => Asks(Tail(q), then, s, i) = Asks(q, has, s, j) BY <1>4 DEF Asks
<1>8. i = 0 => Asks(Tail(q), then, s, i) \subseteq Asks(q, has, s, j) BY DEF Asks, FirstDone
<1>9. i = 0 => j = IF s = q[1].sender THEN 1 ELSE 0 OBVIOUS
<1> HIDE DEF j
<1> QED BY <1>2, <1>6, <1>7, <1>8, <1>9 DEF Follows

\* What is told of a new plan is told so that the senders stay apart all through, and in the end
\* are to have what is planned.
LEMMA Replanned ==
  ASSUME ConstantsFit, NEW old, RunsAre(old), NEW new, RunsAre(new), NEW q \in Seq(Commands), NEW has,
         PartAt(q, has, Len(q), old), \A n \in 0..Len(q) : ApartAt(q, has, n)
  PROVE  LET W == q \o Changes(old, new) IN
         /\ W \in Seq(Commands)
         /\ \A k \in 1..Len(W) : \/ \E m \in 1..Len(q) : W[k] = q[m]
                                 \/ W[k].speakers \subseteq PlayedBy(new, W[k].sender)
         /\ \A n \in 0..Len(W) : ApartAt(W, has, n)
         /\ PartAt(W, has, Len(W), new)
         /\ \A D : ExactAt(q, has, Len(q), old, D) => ExactAt(W, has, Len(W), new, D)
<1> DEFINE L == LetsGo(old, new)  T == TakesOn(old, new)  C == L \o T  W == q \o C
           a == Len(q)  b == Len(q) + Len(L)
<1>0. L = LetsGo(old, new) /\ T = TakesOn(old, new) /\ C = L \o T /\ W = q \o C OBVIOUS
<1> HIDE DEF L, T, C, W
<1>1. /\ L \in Seq(Commands)
      /\ \A n \in 1..Len(L) :
           L[n].speakers = PlayedBy(old, L[n].sender) \cap PlayedBy(new, L[n].sender)
      /\ \A s \in Senders : ~(PlayedBy(old, s) \subseteq PlayedBy(new, s))
                              => \E n \in 1..Len(L) : L[n].sender = s
  <2>1. LetGoTold(L, old, new) BY <1>0, LetsGoIs
  <2> QED BY <2>1 DEF LetGoTold
<1>2. /\ T \in Seq(Commands)
      /\ \A n \in 1..Len(T) : T[n].speakers = PlayedBy(new, T[n].sender)
      /\ \A s \in Senders : ~(PlayedBy(new, s) \subseteq PlayedBy(old, s))
                              => \E n \in 1..Len(T) : T[n].sender = s
  <2>1. TakenOnTold(T, old, new) BY <1>0, TakesOnIs
  <2> QED BY <2>1 DEF TakenOnTold
<1>3. /\ C \in Seq(Commands) /\ Len(C) = Len(L) + Len(T) /\ Len(L) \in Nat /\ Len(T) \in Nat
      /\ \A k \in 1..Len(L) : C[k] = L[k]
      /\ \A k \in 1..Len(T) : C[Len(L) + k] = T[k]
  BY <1>0, <1>1, <1>2, Joined
<1>4. /\ W \in Seq(Commands) /\ Len(W) = Len(q) + Len(C) /\ Len(q) \in Nat
      /\ \A k \in 1..Len(q) : W[k] = q[k]
      /\ \A k \in 1..Len(C) : W[Len(q) + k] = C[k]
  BY <1>0, <1>3, Joined
<1>5. a \in Nat /\ b \in Nat /\ a <= b /\ b <= Len(W) /\ Len(W) \in Nat BY <1>3, <1>4
<1>6. \A k \in 1..Len(L) : a + k \in (a + 1)..b /\ W[a + k] = L[k]
  <2> SUFFICES ASSUME NEW k \in 1..Len(L) PROVE a + k \in (a + 1)..b /\ W[a + k] = L[k] OBVIOUS
  <2>1. k \in 1..Len(C) /\ a + k \in (a + 1)..b BY <1>3, <1>4
  <2> QED BY <1>3, <1>4, <2>1
<1>7. \A k \in 1..Len(T) : b + k \in (b + 1)..Len(W) /\ W[b + k] = T[k]
  <2> SUFFICES ASSUME NEW k \in 1..Len(T) PROVE b + k \in (b + 1)..Len(W) /\ W[b + k] = T[k] OBVIOUS
  <2>1. Len(L) + k \in 1..Len(C) /\ b + k \in (b + 1)..Len(W) /\ b + k = Len(q) + (Len(L) + k)
    BY <1>3, <1>4
  <2> QED BY <1>3, <1>4, <2>1
<1>8. \A k \in (a + 1)..b : k - a \in 1..Len(L) /\ W[k] = L[k - a]
  <2> SUFFICES ASSUME NEW k \in (a + 1)..b PROVE k - a \in 1..Len(L) /\ W[k] = L[k - a] OBVIOUS
  <2>1. k - a \in 1..Len(L) /\ a + (k - a) = k BY <1>3, <1>5
  <2> QED BY <1>6, <2>1
<1>9. \A k \in (b + 1)..Len(W) : k - b \in 1..Len(T) /\ W[k] = T[k - b]
  <2> SUFFICES ASSUME NEW k \in (b + 1)..Len(W) PROVE k - b \in 1..Len(T) /\ W[k] = T[k - b] OBVIOUS
  <2>1. k - b \in 1..Len(T) /\ b + (k - b) = k BY <1>3, <1>4, <1>5
  <2> QED BY <1>7, <2>1
<1>10. /\ \A k \in (a + 1)..b :
            W[k].speakers = PlayedBy(old, W[k].sender) \cap PlayedBy(new, W[k].sender)
       /\ \A k \in (b + 1)..Len(W) : W[k].speakers = PlayedBy(new, W[k].sender)
       /\ \A s \in Senders : ~(PlayedBy(old, s) \subseteq PlayedBy(new, s))
                               => \E k \in (a + 1)..b : W[k].sender = s
       /\ \A s \in Senders : ~(PlayedBy(new, s) \subseteq PlayedBy(old, s))
                               => \E k \in (b + 1)..Len(W) : W[k].sender = s
  <2>1. \A k \in (a + 1)..b :
            W[k].speakers = PlayedBy(old, W[k].sender) \cap PlayedBy(new, W[k].sender)
    BY <1>1, <1>8
  <2>2. \A k \in (b + 1)..Len(W) : W[k].speakers = PlayedBy(new, W[k].sender) BY <1>2, <1>9
  <2>3. \A s \in Senders : ~(PlayedBy(old, s) \subseteq PlayedBy(new, s))
                               => \E k \in (a + 1)..b : W[k].sender = s
    BY <1>1, <1>6
  <2>4. \A s \in Senders : ~(PlayedBy(new, s) \subseteq PlayedBy(old, s))
                               => \E k \in (b + 1)..Len(W) : W[k].sender = s
    <3> SUFFICES ASSUME NEW s \in Senders, ~(PlayedBy(new, s) \subseteq PlayedBy(old, s))
                 PROVE  \E k \in (b + 1)..Len(W) : W[k].sender = s
      OBVIOUS
    <3>1. PICK m \in 1..Len(T) : T[m].sender = s BY <1>2
    <3> QED BY <1>7, <3>1
  <2> QED BY <2>1, <2>2, <2>3, <2>4
<1> DEFINE e == Len(W)
<1>11. \A k \in 1..a : W[k] = q[k] BY <1>4
<1>12. a \in Nat /\ b \in Nat /\ e \in Nat /\ a <= b /\ b <= e BY <1>5
<1>13. PartAt(q, has, a, old) /\ \A n \in 0..a : ApartAt(q, has, n) OBVIOUS
<1> HIDE DEF a, b, e
\* Before the new changes.
<1>14. ASSUME NEW n \in 0..e, NEW s \in Senders, NEW i \in 0..n, Latest(W, s, i, n), i <= a
       PROVE  /\ Asks(W, has, s, i) = Asks(q, has, s, i)
              /\ n <= a => Latest(q, s, i, n)
              /\ n >= a => Latest(q, s, i, a)
  <2>1. i = 0 \/ i \in 1..a BY <1>12, <1>14
  <2>2. i = 0 \/ W[i] = q[i] BY <1>11, <2>1
  <2>3. ASSUME NEW m \in 0..a, m <= n, i <= m PROVE Latest(q, s, i, m)
    <3>1. \A k \in (i + 1)..m : k \in 1..a /\ k \in (i + 1)..n BY <1>12, <2>3
    <3>2. \A k \in (i + 1)..m : q[k].sender # s BY <1>11, <1>14, <3>1 DEF Latest
    <3>3. i \in 0..m BY <2>3
    <3>4. i = 0 \/ q[i].sender = s BY <1>14, <2>2 DEF Latest
    <3> QED BY <3>2, <3>3, <3>4 DEF Latest
  <2>4. n <= a => Latest(q, s, i, n)
    <3> SUFFICES ASSUME n <= a PROVE Latest(q, s, i, n) OBVIOUS
    <3>1. n \in 0..a /\ n <= n /\ i <= n BY <1>12
    <3> QED BY <2>3, <3>1
  <2>5. n >= a => Latest(q, s, i, a)
    <3> SUFFICES ASSUME n >= a PROVE Latest(q, s, i, a) OBVIOUS
    <3>1. a \in 0..a /\ a <= n /\ i <= a BY <1>12, <1>14
    <3> QED BY <2>3, <3>1
  <2>6. Asks(W, has, s, i) = Asks(q, has, s, i) BY <2>2 DEF Asks
  <2> QED BY <2>4, <2>5, <2>6
<1>15. ASSUME NEW n \in 0..a PROVE ApartAt(W, has, n)
  <2> SUFFICES ASSUME NEW s \in Senders, NEW t \in Senders, NEW i \in 0..n, NEW j \in 0..n,
                      s # t, Latest(W, s, i, n), Latest(W, t, j, n)
               PROVE  Asks(W, has, s, i) \cap Asks(W, has, t, j) = {}
    BY DEF ApartAt
  <2>1. n \in 0..e /\ n <= a /\ i <= a /\ j <= a BY <1>12
  <2>2. /\ Latest(q, s, i, n) /\ Asks(W, has, s, i) = Asks(q, has, s, i)
        /\ Latest(q, t, j, n) /\ Asks(W, has, t, j) = Asks(q, has, t, j)
    BY <1>14, <2>1
  <2> QED BY <1>13, <2>2 DEF ApartAt
\* While they let go.
<1>16. ASSUME NEW n \in a..b PROVE PartAt(W, has, n, old)
  <2> SUFFICES ASSUME NEW s \in Senders, NEW i \in 0..n, Latest(W, s, i, n)
               PROVE  Asks(W, has, s, i) \subseteq PlayedBy(old, s)
    BY DEF PartAt
  <2>1. n \in 0..e /\ n >= a BY <1>12
  <2>2. CASE i <= a
    <3>1. Asks(W, has, s, i) = Asks(q, has, s, i) /\ Latest(q, s, i, a) BY <1>14, <2>1, <2>2
    <3>2. i \in 0..a BY <1>12, <2>2
    <3> QED BY <1>13, <3>1, <3>2 DEF PartAt
  <2>3. CASE i > a
    <3>1. i \in (a + 1)..b /\ i # 0 BY <1>12, <2>3
    <3>2. W[i].sender = s BY <3>1 DEF Latest
    <3> QED BY <1>10, <3>1, <3>2 DEF Asks
  <2> QED BY <1>12, <2>2, <2>3
\* While they take on.
<1>17. ASSUME NEW n \in b..e PROVE PartAt(W, has, n, new)
  <2> SUFFICES ASSUME NEW s \in Senders, NEW i \in 0..n, Latest(W, s, i, n)
               PROVE  Asks(W, has, s, i) \subseteq PlayedBy(new, s)
    BY DEF PartAt
  <2>1. n \in 0..e /\ n >= a BY <1>12
  <2>2. CASE i <= a
    <3>1. Asks(W, has, s, i) = Asks(q, has, s, i) /\ Latest(q, s, i, a) BY <1>14, <2>1, <2>2
    <3>2. i \in 0..a BY <1>12, <2>2
    <3>3. Asks(W, has, s, i) \subseteq PlayedBy(old, s) BY <1>13, <3>1, <3>2 DEF PartAt
    <3>4. \A k \in (a + 1)..b : k \in (i + 1)..n BY <1>12, <2>2
    <3>5. \A k \in (a + 1)..b : W[k].sender # s BY <3>4 DEF Latest
    <3>6. PlayedBy(old, s) \subseteq PlayedBy(new, s) BY <1>10, <3>5
    <3> QED BY <3>3, <3>6
  <2>3. CASE i > a /\ i <= b
    <3>1. i \in (a + 1)..b /\ i # 0 BY <1>12, <2>3
    <3>2. W[i].sender = s BY <3>1 DEF Latest
    <3> QED BY <1>10, <3>1, <3>2 DEF Asks
  <2>4. CASE i > b
    <3>1. i \in (b + 1)..e /\ i # 0 BY <1>12, <2>4
    <3>2. W[i].sender = s BY <3>1 DEF Latest
    <3> QED BY <1>10, <3>1, <3>2 DEF Asks, e
  <2> QED BY <1>12, <2>2, <2>3, <2>4
<1>18. ASSUME NEW n \in 0..e PROVE ApartAt(W, has, n)
  <2>1. CASE n <= a
    <3>1. n \in 0..a BY <1>12, <2>1
    <3> QED BY <1>15, <3>1
  <2>2. CASE n >= a /\ n <= b
    <3>1. n \in a..b /\ n \in Nat BY <1>12, <2>2
    <3> QED BY <1>16, <3>1, PartsAreApart
  <2>3. CASE n >= b
    <3>1. n \in b..e /\ n \in Nat BY <1>12, <2>3
    <3> QED BY <1>17, <3>1, PartsAreApart
  <2> QED BY <1>12, <2>1, <2>2, <2>3
<1>19. PartAt(W, has, e, new)
  <2>1. e \in b..e BY <1>12
  <2> QED BY <1>17, <2>1
<1>20. ASSUME NEW D, ExactAt(q, has, a, old, D) PROVE ExactAt(W, has, e, new, D)
  <2> SUFFICES ASSUME NEW s \in Senders, NEW i \in 0..e, Latest(W, s, i, e)
               PROVE  Asks(W, has, s, i) \cap D = PlayedBy(new, s) \cap D
    BY DEF ExactAt
  <2>1. e \in 0..e /\ e >= a BY <1>12
  <2>2. i <= b => PlayedBy(new, s) \subseteq PlayedBy(old, s)
    <3> SUFFICES ASSUME i <= b PROVE PlayedBy(new, s) \subseteq PlayedBy(old, s) OBVIOUS
    <3>1. \A k \in (b + 1)..e : k \in (i + 1)..e BY <1>12
    <3>2. \A k \in (b + 1)..e : W[k].sender # s BY <3>1 DEF Latest
    <3> QED BY <1>10, <3>2 DEF e
  <2>3. CASE i <= a
    <3>1. Asks(W, has, s, i) = Asks(q, has, s, i) /\ Latest(q, s, i, a) BY <1>14, <2>1, <2>3
    <3>2. i \in 0..a /\ i <= b BY <1>12, <2>3
    <3>3. Asks(W, has, s, i) \cap D = PlayedBy(old, s) \cap D BY <1>20, <3>1, <3>2 DEF ExactAt
    <3>4. \A k \in (a + 1)..b : k \in (i + 1)..e BY <1>12, <2>3
    <3>5. \A k \in (a + 1)..b : W[k].sender # s BY <3>4 DEF Latest
    <3>6. PlayedBy(old, s) \subseteq PlayedBy(new, s) BY <1>10, <3>5
    <3>7. PlayedBy(old, s) = PlayedBy(new, s) BY <2>2, <3>2, <3>6
    <3> QED BY <3>3, <3>7
  <2>4. CASE i > a /\ i <= b
    <3>1. i \in (a + 1)..b /\ i # 0 BY <1>12, <2>4
    <3>2. W[i].sender = s BY <3>1 DEF Latest
    <3>3. Asks(W, has, s, i) = PlayedBy(old, s) \cap PlayedBy(new, s) BY <1>10, <3>1, <3>2 DEF Asks
    <3> QED BY <2>2, <2>4, <3>3
  <2>5. CASE i > b
    <3>1. i \in (b + 1)..e /\ i # 0 BY <1>12, <2>5
    <3>2. W[i].sender = s BY <3>1 DEF Latest
    <3>3. Asks(W, has, s, i) = PlayedBy(new, s) BY <1>10, <3>1, <3>2 DEF Asks, e
    <3> QED BY <3>3
  <2> QED BY <1>12, <2>3, <2>4, <2>5
<1>21. ASSUME NEW k \in 1..e
       PROVE  \/ \E m \in 1..a : W[k] = q[m]
              \/ W[k].speakers \subseteq PlayedBy(new, W[k].sender)
  <2>1. CASE k <= a
    <3>1. k \in 1..a BY <1>12, <2>1
    <3> QED BY <1>11, <3>1
  <2>2. CASE k > a /\ k <= b
    <3>1. k \in (a + 1)..b BY <1>12, <2>2
    <3> QED BY <1>10, <3>1
  <2>3. CASE k > b
    <3>1. k \in (b + 1)..e BY <1>12, <2>3
    <3> QED BY <1>10, <3>1 DEF e
  <2> QED BY <1>12, <2>1, <2>2, <2>3
<1>22. q \o Changes(old, new) = W BY DEF W, C, L, T, Changes
<1> QED BY <1>4, <1>18, <1>19, <1>20, <1>21, <1>22 DEF a, e

---------------------------------------------------------------------------
(* The inductive invariant.                                                *)

\* Speakers whose ids were handed out, none of which is a stream's.
Known(b, S) ==
  S \subseteq 1..b.last /\ \A p \in S \cap DOMAIN b.speakers : b.speakers[p].kind = "airplay"
KnownRuns(b, rs) == \A i \in DOMAIN rs : Known(b, rs[i].airplay)

LEMMA KnownStill ==
  ASSUME NEW b, IsBay(b), NEW c, IsBay(c), Grows(b, c), NEW S, Known(b, S)
  PROVE  Known(c, S) /\ S \cap DOMAIN c.speakers \subseteq DOMAIN b.speakers
<1>1. b.last \in Nat /\ c.last \in Nat /\ b.last <= c.last BY DEF IsBay, Grows
<1>2. S \subseteq 1..b.last BY DEF Known
<1>3. ASSUME NEW p \in S, p \in DOMAIN c.speakers
      PROVE  p \in DOMAIN b.speakers /\ c.speakers[p].kind = b.speakers[p].kind
  <2>1. p \in 1..b.last BY <1>2
  <2>2. p \notin (b.last + 1)..c.last BY <1>1, <2>1
  <2> QED BY <1>3, <2>2 DEF Grows
<1>4. \A p \in 1..b.last : p \in 1..c.last BY <1>1
<1> QED BY <1>2, <1>3, <1>4 DEF Known

LEMMA PlayedKnown ==
  ASSUME NEW b, NEW rs, KnownRuns(b, rs), NEW s
  PROVE  Known(b, PlayedBy(rs, s))
BY DEF KnownRuns, Known, PlayedBy

\* What each sender that did what it was told has, or is to take.
Has == [s \in Senders |-> IF mishaps = 0 \/ s \in heard THEN selected[s] \cup chosen[s] ELSE {}]

Types ==
  /\ IsBay(bay) /\ RunsAre(running) /\ told \in Seq(Commands) /\ mishaps \in Nat
  /\ selected \in [Senders -> SUBSET Nat] /\ chosen \in [Senders -> SUBSET Nat]
  /\ seen \in [Senders -> SUBSET Nat]
  /\ watched \subseteq Senders /\ looking \subseteq Senders /\ heard \subseteq Senders
\* What is planned and told is of AirPlay speakers, and of ones there are if nothing moved since.
AirPlayed ==
  /\ KnownRuns(bay, running) /\ \A k \in 1..Len(told) : Known(bay, told[k].speakers)
  /\ ~moved => \A i \in DOMAIN running : running[i].airplay \subseteq DOMAIN bay.speakers
\* Where nothing went wrong no speaker was taken or has dropped out, and each sender has what it
\* was told to select.
Calm == mishaps = 0 =>
  taken = {} /\ leaving = {} /\ \A s \in Senders : seen[s] \subseteq chosen[s] /\ chosen[s] = selected[s]
Apart == \A n \in 0..Len(told) : ApartAt(told, Has, n)
Part  == PartAt(told, Has, Len(told), running)
Exact == mishaps = 0 => ExactAt(told, Has, Len(told), running, DOMAIN bay.speakers)
Inv == Types /\ AirPlayed /\ Calm /\ Apart /\ Part /\ Exact

LEMMA HasIs ==
  /\ \A s \in Senders : Has[s] = IF mishaps = 0 \/ s \in heard THEN selected[s] \cup chosen[s] ELSE {}
  /\ \A s \in Senders : Has'[s] = IF mishaps' = 0 \/ s \in heard' THEN selected'[s] \cup chosen'[s] ELSE {}
BY DEF Has

\* Nobody has or is told anything.
LEMMA Emptied ==
  ASSUME NEW has, \A s \in Senders : has[s] = {}
  PROVE  /\ RunsAre(<<>>) /\ <<>> \in Seq(Commands) /\ \A b : KnownRuns(b, <<>>)
         /\ Len(<<>>) = 0 /\ DOMAIN <<>> = {}
         /\ \A n \in 0..Len(<<>>) : ApartAt(<<>>, has, n)
         /\ PartAt(<<>>, has, Len(<<>>), <<>>)
         /\ \A D : ExactAt(<<>>, has, Len(<<>>), <<>>, D)
<1>1. /\ <<>> \in Seq(Commands) /\ <<>> \in Seq(GroupRecs) /\ Len(<<>>) = 0 /\ DOMAIN <<>> = {}
  <2>1. <<>> \in Seq(Commands) /\ <<>> \in Seq(GroupRecs) /\ Len(<<>>) = 0 BY EmptySeq
  <2> QED BY <2>1
<1>2. RunsAre(<<>>) /\ \A b : KnownRuns(b, <<>>) BY <1>1 DEF RunsAre, KnownRuns
<1>3. \A s : PlayedBy(<<>>, s) = {} BY <1>1 DEF PlayedBy
<1>4. \A s \in Senders, i \in 0..0 : Asks(<<>>, has, s, i) = {} BY DEF Asks
<1>5. \A n \in 0..0 : ApartAt(<<>>, has, n)
  <2>1. ApartAt(<<>>, has, 0) BY <1>4 DEF ApartAt
  <2>2. \A n \in 0..0 : n = 0 OBVIOUS
  <2> QED BY <2>1, <2>2
<1>6. PartAt(<<>>, has, 0, <<>>) BY <1>4 DEF PartAt
<1>7. \A D : ExactAt(<<>>, has, 0, <<>>, D) BY <1>3, <1>4 DEF ExactAt
<1> QED BY <1>1, <1>2, <1>5, <1>6, <1>7

\* With the same told and planned, and nobody with more.
LEMMA Slackened ==
  ASSUME Inv, told' = told, running' = running, \A s \in Senders : Has'[s] \subseteq Has[s]
  PROVE  Apart' /\ Part'
<1>1. Len(told) \in Nat /\ \A n \in 0..Len(told) : n \in Nat
  <2>1. told \in Seq(Commands) BY DEF Inv, Types
  <2> QED BY <2>1, LenProperties
<1>2. \A n \in 0..Len(told) : ApartAt(told, Has', n) BY <1>1, Shrunk DEF Inv, Apart
<1>3. PartAt(told, Has', Len(told), running) BY <1>1, Shrunk DEF Inv, Part
<1> QED BY <1>2, <1>3 DEF Apart, Part

\* What the patchbay lost or got since changes nothing of what is planned for the speakers that stay.
LEMMA ExactStill ==
  ASSUME Inv, told' = told, running' = running, mishaps' = 0 => mishaps = 0 /\ Has' = Has,
         IsBay(bay'), Grows(bay, bay')
  PROVE  Exact'
<1> SUFFICES ASSUME mishaps' = 0 PROVE ExactAt(told, Has, Len(told), running, DOMAIN bay'.speakers)
  BY DEF Exact
<1>1. /\ PartAt(told, Has, Len(told), running)
      /\ ExactAt(told, Has, Len(told), running, DOMAIN bay.speakers)
  BY DEF Inv, Part, Exact
<1> SUFFICES ASSUME NEW s \in Senders, NEW i \in 0..Len(told), Latest(told, s, i, Len(told))
             PROVE  Asks(told, Has, s, i) \cap DOMAIN bay'.speakers
                      = PlayedBy(running, s) \cap DOMAIN bay'.speakers
  BY DEF ExactAt
<1>2. Asks(told, Has, s, i) \subseteq PlayedBy(running, s) BY <1>1 DEF PartAt
<1>3. Asks(told, Has, s, i) \cap DOMAIN bay.speakers = PlayedBy(running, s) \cap DOMAIN bay.speakers
  BY <1>1 DEF ExactAt
<1>4. PlayedBy(running, s) \cap DOMAIN bay'.speakers \subseteq DOMAIN bay.speakers
  BY PlayedKnown, KnownStill DEF Inv, AirPlayed, Types
<1> QED BY <1>2, <1>3, <1>4

LEMMA AirPlayedStill ==
  ASSUME Inv, told' = told, running' = running, IsBay(bay'), Grows(bay, bay'),
         moved' \/ (moved' = moved /\ bay' = bay)
  PROVE  AirPlayed'
<1>1. KnownRuns(bay', running)
  BY KnownStill DEF Inv, Types, AirPlayed, KnownRuns
<1>2. \A k \in 1..Len(told) : Known(bay', told[k].speakers) BY KnownStill DEF Inv, Types, AirPlayed
<1>3. ~moved' => \A i \in DOMAIN running : running[i].airplay \subseteq DOMAIN bay'.speakers
  BY DEF Inv, AirPlayed
<1> QED BY <1>1, <1>2, <1>3 DEF AirPlayed

LEMMA GrowsNot == ASSUME NEW b, IsBay(b) PROVE Grows(b, b)
BY DEF IsBay, Grows

LEMMA OwnerKeeps ==
  ASSUME Inv, Owner
  PROVE  Inv'
<1>1. /\ UNCHANGED <<running, told, watched, chosen, seen, looking, leaving, heard, selected, taken, mishaps>>
      /\ moved' = TRUE
  BY DEF Owner, AddSource, AddSpeaker, RemoveSource, RemoveSpeaker, Wire, Unwire, SetAll, Tune, Free,
         SaveSetup, ApplySetup, RemoveSetup, Checked, Change, Live, engine, control
<1>2. IsBay(bay') /\ Grows(bay, bay') BY OwnersKeep DEF Inv, Types
<1>3. Has' = Has BY <1>1 DEF Has
<1>4. Types' BY <1>1, <1>2 DEF Inv, Types
<1>5. AirPlayed' BY <1>1, <1>2, AirPlayedStill
<1>6. Calm' BY <1>1 DEF Inv, Calm
<1>7. Apart' /\ Part' BY <1>1, <1>3, Slackened
<1>8. Exact' BY <1>1, <1>2, <1>3, ExactStill
<1> QED BY <1>4, <1>5, <1>6, <1>7, <1>8 DEF Inv

LEMMA PlanKeeps ==
  ASSUME ConstantsFit, Inv, Plan
  PROVE  Inv'
<1>1. /\ running' = Planned /\ told' = told \o Changes(running, running')
      /\ UNCHANGED <<bay, watched, chosen, seen, looking, leaving, heard, selected, taken, mishaps>>
  BY DEF Plan, Planned, control, counts
<1>2. /\ RunsAre(running')
      /\ \A k \in DOMAIN running' : running'[k].airplay = AirPlay(bay, running'[k].speakers)
  BY <1>1, PlannedAre DEF Inv, Types
<1>3. Has' = Has BY <1>1 DEF Has
<1>4. /\ told' \in Seq(Commands)
      /\ \A k \in 1..Len(told') : \/ \E m \in 1..Len(told) : told'[k] = told[m]
                                  \/ told'[k].speakers \subseteq PlayedBy(running', told'[k].sender)
      /\ \A n \in 0..Len(told') : ApartAt(told', Has, n)
      /\ PartAt(told', Has, Len(told'), running')
      /\ \A D : ExactAt(told, Has, Len(told), running, D) => ExactAt(told', Has, Len(told'), running', D)
  <2>1. RunsAre(running) /\ told \in Seq(Commands) BY DEF Inv, Types
  <2>2. PartAt(told, Has, Len(told), running) /\ \A n \in 0..Len(told) : ApartAt(told, Has, n)
    BY DEF Inv, Part, Apart
  <2> QED BY <1>1, <1>2, <2>1, <2>2, Replanned, Zenon
<1>5. \A i \in DOMAIN running' : /\ Known(bay, running'[i].airplay)
                                 /\ running'[i].airplay \subseteq DOMAIN bay.speakers
  <2>1. DOMAIN bay.speakers \subseteq 1..bay.last BY DEF Inv, Types, IsBay
  <2> QED BY <1>2, <2>1 DEF AirPlay, Known
<1>6. Types' BY <1>1, <1>2, <1>4 DEF Inv, Types
<1>7. AirPlayed'
  <2>1. KnownRuns(bay, running') BY <1>5 DEF KnownRuns
  <2>2. ASSUME NEW k \in 1..Len(told') PROVE Known(bay, told'[k].speakers)
    <3>1. CASE \E m \in 1..Len(told) : told'[k] = told[m] BY <3>1 DEF Inv, AirPlayed
    <3>2. CASE told'[k].speakers \subseteq PlayedBy(running', told'[k].sender)
      <4>1. Known(bay, PlayedBy(running', told'[k].sender)) BY <2>1, PlayedKnown
      <4> QED BY <3>2, <4>1 DEF Known
    <3> QED BY <1>4, <3>1, <3>2
  <2> QED BY <1>1, <1>5, <2>1, <2>2 DEF AirPlayed
<1>8. Calm' BY <1>1 DEF Inv, Calm
<1>9. Apart' /\ Part' BY <1>3, <1>4 DEF Apart, Part
<1>10. Exact' BY <1>1, <1>3, <1>4 DEF Inv, Exact
<1> QED BY <1>6, <1>7, <1>8, <1>9, <1>10 DEF Inv

LEMMA RestartKeeps ==
  ASSUME Inv, Restart
  PROVE  Inv'
<1>1. /\ running' = <<>> /\ told' = <<>> /\ watched' = {} /\ looking' = {} /\ heard' = {}
      /\ chosen' = Nothing /\ seen' = Nothing /\ selected' = selected /\ mishaps' = mishaps + 1
      /\ moved' = TRUE
      /\ bay' = SettledDoors(bay) \/ bay' = bay
  BY DEF Restart, Mishap
<1>2. IsBay(bay') BY <1>1, Settled DEF Inv, Types
<1>3. mishaps' \in Nat /\ mishaps' # 0 BY <1>1 DEF Inv, Types
<1>4. \A s \in Senders : Has'[s] = {} BY <1>1, <1>3, HasIs
<1>5. /\ RunsAre(running') /\ told' \in Seq(Commands) /\ KnownRuns(bay', running')
      /\ Len(told') = 0 /\ DOMAIN running' = {}
      /\ \A n \in 0..Len(told') : ApartAt(told', Has', n)
      /\ PartAt(told', Has', Len(told'), running')
  BY <1>1, <1>4, Emptied
<1>6. Nothing \in [Senders -> SUBSET Nat] BY DEF Nothing
<1>7. Types' BY <1>1, <1>2, <1>3, <1>5, <1>6 DEF Inv, Types
<1>8. AirPlayed' BY <1>1, <1>5 DEF AirPlayed
<1>9. Calm' /\ Exact' BY <1>3 DEF Calm, Exact
<1>10. Apart' /\ Part' BY <1>5 DEF Apart, Part
<1> QED BY <1>7, <1>8, <1>9, <1>10 DEF Inv

LEMMA OthersKeep ==
  ASSUME Inv, Others
  PROVE  Inv'
<1>1. UNCHANGED <<bay, moved, running, told, watched, chosen, seen, looking, leaving, heard>>
  BY DEF Others, Take, GiveUp, hub, engine, control
<1>2. PICK p : \/ mishaps' = mishaps + 1 /\ selected' = [s \in Senders |-> selected[s] \ {p}]
               \/ p \in taken /\ selected' = selected /\ mishaps' = mishaps
  BY DEF Others, Take, GiveUp, Mishap, counts
<1>3. mishaps \in Nat /\ (mishaps = 0 => taken = {}) BY DEF Inv, Types, Calm
<1>4. mishaps' \in Nat /\ mishaps' # 0 BY <1>2, <1>3
<1>5. /\ selected' \in [Senders -> SUBSET Nat]
      /\ \A s \in Senders : selected'[s] \subseteq selected[s]
  BY <1>2 DEF Inv, Types
<1>6. \A s \in Senders : Has'[s] \subseteq Has[s] BY <1>1, <1>4, <1>5, HasIs
<1>7. Grows(bay, bay') /\ IsBay(bay') BY <1>1, GrowsNot DEF Inv, Types
<1>8. Types' BY <1>1, <1>4, <1>5 DEF Inv, Types
<1>9. AirPlayed' BY <1>1, <1>7, AirPlayedStill
<1>10. Calm' /\ Exact' BY <1>4 DEF Calm, Exact
<1>11. Apart' /\ Part' BY <1>1, <1>6, Slackened
<1> QED BY <1>8, <1>9, <1>10, <1>11 DEF Inv

LEMMA LookKeeps ==
  ASSUME ConstantsFit, Inv, LookRound \/ Look
  PROVE  Inv'
<1>1. UNCHANGED <<bay, moved, running, told, watched, chosen, heard, selected, taken>>
  BY DEF LookRound, Look, hub, engine
<1>2. /\ mishaps' \in Nat /\ (mishaps' = 0 => mishaps = 0)
      /\ looking' \subseteq Senders /\ seen' \in [Senders -> SUBSET Nat]
      /\ mishaps' = 0 => leaving' = {} /\ \A s \in Senders : seen'[s] \subseteq chosen[s]
  <2>0. mishaps \in Nat /\ looking \subseteq Senders /\ watched \subseteq Senders
    BY DEF Inv, Types
  <2>1. CASE LookRound
    <3>1. looking' = watched /\ UNCHANGED <<seen, leaving, mishaps>> BY <2>1 DEF LookRound, counts
    <3> QED BY <3>1 DEF Inv, Types, Calm
  <2>2. CASE Look
    <3> DEFINE s == Min(looking)  plays == chosen[s] \cap selected[s]
    <3>1. s \in looking /\ s \in Senders
      <4>1. looking \in SUBSET Nat /\ looking # {} BY <2>0, <2>2 DEF Look, ConstantsFit
      <4> QED BY <2>0, <4>1, LeastOf
    <3>2. looking' = looking \ {s} BY <2>2 DEF Look
    <3>3. \/ mishaps' = mishaps + 1 /\ seen' = seen /\ leaving' = leaving
          \/ /\ seen' = [seen EXCEPT ![s] = @ \cup plays]
             /\ leaving' = {<<s, p>> : p \in seen[s] \ plays} /\ mishaps' = mishaps
      BY <2>2 DEF Look, Mishap
    <3> HIDE DEF s
    <3>4. CASE mishaps' = mishaps + 1 /\ seen' = seen /\ leaving' = leaving
      BY <2>0, <3>2, <3>4 DEF Inv, Types
    <3>5. CASE /\ seen' = [seen EXCEPT ![s] = @ \cup plays]
               /\ leaving' = {<<s, p>> : p \in seen[s] \ plays} /\ mishaps' = mishaps
      <4>1. /\ seen \in [Senders -> SUBSET Nat] /\ chosen \in [Senders -> SUBSET Nat]
            /\ mishaps = 0 => \A t \in Senders : seen[t] \subseteq chosen[t] /\ chosen[t] = selected[t]
        BY DEF Inv, Types, Calm
      <4>2. plays \in SUBSET Nat /\ plays \subseteq chosen[s] BY <3>1, <4>1
      <4>3. mishaps = 0 => seen[s] \ plays = {} BY <3>1, <4>1
      <4> HIDE DEF plays
      <4>4. /\ seen' \in [Senders -> SUBSET Nat]
            /\ \A t \in Senders : seen'[t] = IF t = s THEN seen[t] \cup plays ELSE seen[t]
        BY <3>1, <3>5, <4>1, <4>2
      <4>5. mishaps' = 0 => leaving' = {} BY <3>5, <4>3
      <4> QED BY <2>0, <3>1, <3>2, <3>5, <4>1, <4>2, <4>4, <4>5
    <3> QED BY <3>3, <3>4, <3>5
  <2> QED BY <2>1, <2>2
<1>3. \A s \in Senders : Has'[s] \subseteq Has[s] BY <1>1, <1>2, HasIs
<1>4. mishaps' = 0 => Has' = Has BY <1>1, <1>2 DEF Has
<1>5. Grows(bay, bay') /\ IsBay(bay') BY <1>1, GrowsNot DEF Inv, Types
<1>6. Types' BY <1>1, <1>2 DEF Inv, Types
<1>7. AirPlayed' BY <1>1, <1>5, AirPlayedStill
<1>8. Calm' BY <1>1, <1>2 DEF Inv, Calm
<1>9. Apart' /\ Part' BY <1>1, <1>3, Slackened
<1>10. Exact' BY <1>1, <1>2, <1>4, <1>5, ExactStill
<1> QED BY <1>6, <1>7, <1>8, <1>9, <1>10 DEF Inv

LEMMA LetGoKeeps ==
  ASSUME Inv, LetGo
  PROVE  Inv'
<1>1. UNCHANGED <<running, told, watched, looking, heard>>
  BY DEF LetGo, engine
<1>2. PICK s, p :
        LET rest == chosen[s] \ {p} IN
        /\ leaving # {}
        /\ chosen' = [chosen EXCEPT ![s] = rest] /\ seen' = [seen EXCEPT ![s] = @ \ {p}]
        /\ \/ Selects(s, rest) /\ mishaps' = mishaps
           \/ Mishap /\ selected' = selected
        /\ \/ p \in DOMAIN bay.speakers /\ Live(Borrowed(p, TRUE))
           \/ UNCHANGED hub
  <2>1. PICK gone \in leaving :
        LET s == gone[1]  p == gone[2]  rest == chosen[s] \ {p} IN
        /\ chosen' = [chosen EXCEPT ![s] = rest] /\ seen' = [seen EXCEPT ![s] = @ \ {p}]
        /\ \/ Selects(s, rest) /\ UNCHANGED mishaps
           \/ Mishap /\ UNCHANGED <<selected, taken>>
        /\ IF p \in DOMAIN bay.speakers /\ WithinSenders(Borrowed(p, TRUE))
             THEN Live(Borrowed(p, TRUE)) ELSE UNCHANGED hub
    BY DEF LetGo
  <2> QED BY <2>1
<1> DEFINE rest == chosen[s] \ {p}
<1>3. /\ selected \in [Senders -> SUBSET Nat] /\ chosen \in [Senders -> SUBSET Nat]
      /\ seen \in [Senders -> SUBSET Nat] /\ mishaps \in Nat /\ (mishaps = 0 => leaving = {})
  BY DEF Inv, Types, Calm
<1>4. mishaps' \in Nat /\ mishaps' # 0 BY <1>2, <1>3 DEF Mishap
<1>5. /\ chosen' \in [Senders -> SUBSET Nat]
      /\ \A t \in Senders : chosen'[t] \subseteq chosen[t]
  BY <1>2, <1>3
<1>6. seen' \in [Senders -> SUBSET Nat] BY <1>2, <1>3
<1>7. /\ selected' \in [Senders -> SUBSET Nat]
      /\ \A t \in Senders : selected'[t] \subseteq selected[t] \cup chosen[t]
  <2>1. \/ selected' = [selected EXCEPT ![s] = rest]
        \/ selected' = [selected EXCEPT ![s] = rest \ taken]
        \/ selected' = selected
    BY <1>2 DEF Selects
  <2>2. s \in Senders => rest \in SUBSET Nat /\ rest \subseteq chosen[s] BY <1>3
  <2> HIDE DEF rest
  <2> QED BY <1>3, <2>1, <2>2
<1>8. \A t \in Senders : Has'[t] \subseteq Has[t] BY <1>1, <1>4, <1>5, <1>7, HasIs
<1>9. IsBay(bay') /\ Grows(bay, bay') /\ (moved' \/ (moved' = moved /\ bay' = bay))
  <2>1. IsBay(bay) BY DEF Inv, Types
  <2>2. CASE p \in DOMAIN bay.speakers /\ Live(Borrowed(p, TRUE))
    BY <2>1, <2>2, Lent DEF Live, Borrowed
  <2>3. CASE UNCHANGED hub BY <2>1, <2>3, GrowsNot DEF hub
  <2> QED BY <1>2, <2>2, <2>3
<1>10. Types' BY <1>1, <1>4, <1>5, <1>6, <1>7, <1>9 DEF Inv, Types
<1>11. AirPlayed' BY <1>1, <1>9, AirPlayedStill
<1>12. Calm' /\ Exact' BY <1>4 DEF Calm, Exact
<1>13. Apart' /\ Part' BY <1>1, <1>8, Slackened
<1> QED BY <1>10, <1>11, <1>12, <1>13 DEF Inv

\* What doing the first change told leaves a sender with.
LEMMA Chosen ==
  ASSUME Inv, Choose
  PROVE  /\ UNCHANGED <<bay, moved, running, looking, leaving>>
         /\ told # <<>> /\ told' = Tail(told) /\ told[1] \in Commands
         /\ watched' \subseteq Senders /\ heard' \subseteq Senders
         /\ mishaps' \in Nat /\ (mishaps' = 0 => mishaps = 0)
         /\ selected' \in [Senders -> SUBSET Nat] /\ chosen' \in [Senders -> SUBSET Nat]
         /\ seen' \in [Senders -> SUBSET Nat]
         /\ \A s \in Senders :
              Has'[s] \subseteq IF s = told[1].sender THEN told[1].speakers ELSE Has[s]
         /\ mishaps' = 0 =>
              /\ taken' = {}
              /\ \A s \in Senders :
                   /\ seen'[s] \subseteq chosen'[s] /\ chosen'[s] = selected'[s]
                   /\ Has'[s] = IF s = told[1].sender THEN told[1].speakers \cap DOMAIN bay.speakers
                                ELSE Has[s]
<1> DEFINE c == told[1]  named == AirPlay(bay, c.speakers)
<1>1. /\ told \in Seq(Commands) /\ mishaps \in Nat /\ watched \subseteq Senders /\ heard \subseteq Senders
      /\ selected \in [Senders -> SUBSET Nat] /\ chosen \in [Senders -> SUBSET Nat]
      /\ seen \in [Senders -> SUBSET Nat]
  BY DEF Inv, Types
<1>2. /\ UNCHANGED <<bay, moved, running, looking, leaving>>
      /\ told # <<>> /\ told' = Tail(told) /\ Head(told) = told[1]
  BY DEF Choose, hub
<1>3. /\ watched' = (IF c.released THEN watched \ {c.sender} ELSE watched \cup {c.sender})
      /\ \/ /\ Mishap
            /\ heard' = heard \ {c.sender} /\ UNCHANGED <<chosen, seen, selected, taken>>
         \/ \E visible \in SUBSET named :
              /\ chosen' = [chosen EXCEPT ![c.sender] = visible]
              /\ seen' = [seen EXCEPT ![c.sender] = {}]
              /\ \/ /\ IF visible = named THEN mishaps' = mishaps ELSE Mishap
                    /\ Selects(c.sender, visible)
                    /\ heard' = heard \cup {c.sender}
                 \/ /\ Mishap
                    /\ heard' = heard \ {c.sender}
                    /\ UNCHANGED <<selected, taken>>
  BY <1>2 DEF Choose
<1>4. c \in Commands /\ c.sender \in Senders /\ c.speakers \in SUBSET Nat /\ 1 \in 1..Len(told)
  <2>1. Len(told) \in Nat /\ Len(told) # 0 BY <1>1, <1>2, LenProperties, EmptySeq
  <2>2. 1 \in 1..Len(told) BY <2>1
  <2>3. c \in Commands BY <1>1, <2>2, ElementOfSeq
  <2> QED BY <2>2, <2>3 DEF Commands
<1>5. named = c.speakers \cap DOMAIN bay.speakers
  <2>1. Known(bay, c.speakers) BY <1>4 DEF Inv, AirPlayed
  <2> QED BY <2>1 DEF Known, AirPlay
<1>6. watched' \subseteq Senders /\ heard' \subseteq Senders
  <2>1. \/ heard' = heard \ {c.sender} \/ heard' = heard \cup {c.sender} BY <1>3
  <2> QED BY <1>1, <1>3, <1>4, <2>1
<1>7. mishaps = 0 =>
        taken = {} /\ \A s \in Senders : seen[s] \subseteq chosen[s] /\ chosen[s] = selected[s]
  BY DEF Inv, Calm
<1> DEFINE sender == c.sender
<1> HIDE DEF c, named
<1>8. CASE Mishap /\ heard' = heard \ {c.sender} /\ UNCHANGED <<chosen, seen, selected, taken>>
  <2>1. mishaps' \in Nat /\ mishaps' # 0 BY <1>1, <1>8 DEF Mishap
  <2>2. \A s \in Senders : Has'[s] \subseteq IF s = c.sender THEN c.speakers ELSE Has[s]
    BY <1>8, <2>1, HasIs
  <2> QED BY <1>1, <1>2, <1>4, <1>6, <1>8, <2>1, <2>2 DEF c
<1>9. ASSUME NEW visible \in SUBSET named,
             chosen' = [chosen EXCEPT ![c.sender] = visible],
             seen' = [seen EXCEPT ![c.sender] = {}],
             Mishap, heard' = heard \ {c.sender}, UNCHANGED <<selected, taken>>
      PROVE  /\ mishaps' \in Nat /\ mishaps' # 0
             /\ selected' \in [Senders -> SUBSET Nat] /\ chosen' \in [Senders -> SUBSET Nat]
             /\ seen' \in [Senders -> SUBSET Nat]
             /\ \A s \in Senders : Has'[s] \subseteq IF s = c.sender THEN c.speakers ELSE Has[s]
  <2>1. mishaps' \in Nat /\ mishaps' # 0 BY <1>1, <1>9 DEF Mishap
  <2>2. visible \in SUBSET Nat BY <1>4, <1>5
  <2>3. /\ chosen' \in [Senders -> SUBSET Nat] /\ seen' \in [Senders -> SUBSET Nat]
        /\ \A s \in Senders : s # c.sender => chosen'[s] = chosen[s]
    BY <1>1, <1>9, <2>2
  <2>4. \A s \in Senders : Has'[s] \subseteq IF s = c.sender THEN c.speakers ELSE Has[s]
    BY <1>9, <2>1, <2>3, HasIs
  <2> QED BY <1>1, <1>9, <2>1, <2>3, <2>4
<1>10. ASSUME NEW visible \in SUBSET named,
              chosen' = [chosen EXCEPT ![c.sender] = visible],
              seen' = [seen EXCEPT ![c.sender] = {}],
              IF visible = named THEN mishaps' = mishaps ELSE Mishap,
              Selects(c.sender, visible), heard' = heard \cup {c.sender}
       PROVE  /\ mishaps' \in Nat /\ (mishaps' = 0 => mishaps = 0 /\ visible = named)
              /\ selected' \in [Senders -> SUBSET Nat] /\ chosen' \in [Senders -> SUBSET Nat]
              /\ seen' \in [Senders -> SUBSET Nat]
              /\ \A s \in Senders : Has'[s] \subseteq IF s = c.sender THEN c.speakers ELSE Has[s]
              /\ mishaps' = 0 =>
                   /\ taken' = {}
                   /\ \A s \in Senders :
                        /\ seen'[s] \subseteq chosen'[s] /\ chosen'[s] = selected'[s]
                        /\ Has'[s] = IF s = c.sender THEN c.speakers \cap DOMAIN bay.speakers
                                     ELSE Has[s]
  <2>1. mishaps' \in Nat /\ (mishaps' = 0 => mishaps = 0 /\ visible = named)
    BY <1>1, <1>10 DEF Mishap
  <2>2. visible \in SUBSET Nat /\ visible \subseteq c.speakers BY <1>4, <1>5
  <2>3. /\ chosen' \in [Senders -> SUBSET Nat] /\ seen' \in [Senders -> SUBSET Nat]
        /\ \A s \in Senders : chosen'[s] = IF s = c.sender THEN visible ELSE chosen[s]
        /\ \A s \in Senders : seen'[s] = IF s = c.sender THEN {} ELSE seen[s]
    BY <1>1, <1>10, <2>2
  <2>4. \/ selected' = [selected EXCEPT ![c.sender] = visible] /\ taken' = taken \ visible
        \/ /\ selected' = [selected EXCEPT ![c.sender] = visible \ taken]
           /\ visible \cap taken # {}
    BY <1>10 DEF Selects
  <2>5. /\ selected' \in [Senders -> SUBSET Nat]
        /\ \A s \in Senders : s # c.sender => selected'[s] = selected[s]
        /\ selected'[c.sender] \subseteq visible
        /\ taken = {} => taken' = {} /\ selected'[c.sender] = visible
    BY <1>1, <1>4, <2>2, <2>4
  <2>6. \A s \in Senders : Has'[s] \subseteq IF s = c.sender THEN c.speakers ELSE Has[s]
    <3> SUFFICES ASSUME NEW s \in Senders
                 PROVE  Has'[s] \subseteq IF s = c.sender THEN c.speakers ELSE Has[s]
      OBVIOUS
    <3>1. CASE s = c.sender
      <4>1. Has'[s] \subseteq selected'[s] \cup chosen'[s] BY HasIs
      <4> QED BY <2>2, <2>3, <2>5, <3>1, <4>1
    <3>2. CASE s # c.sender
      <4>1. selected'[s] = selected[s] /\ chosen'[s] = chosen[s] BY <2>3, <2>5, <3>2
      <4>2. mishaps' = 0 \/ s \in heard' => mishaps = 0 \/ s \in heard BY <1>10, <2>1, <3>2
      <4> QED BY <3>2, <4>1, <4>2, HasIs
    <3> QED BY <3>1, <3>2
  <2>7. ASSUME mishaps' = 0
        PROVE  /\ taken' = {}
               /\ \A s \in Senders :
                    /\ seen'[s] \subseteq chosen'[s] /\ chosen'[s] = selected'[s]
                    /\ Has'[s] = IF s = c.sender THEN c.speakers \cap DOMAIN bay.speakers
                                 ELSE Has[s]
    <3>1. mishaps = 0 /\ taken = {} /\ visible = named BY <1>7, <2>1, <2>7
    <3>2. \A s \in Senders : selected'[s] = IF s = c.sender THEN visible ELSE selected[s]
      BY <2>5, <3>1
    <3>3. \A s \in Senders : seen'[s] \subseteq chosen'[s] /\ chosen'[s] = selected'[s]
      BY <1>7, <2>3, <3>1, <3>2
    <3>4. \A s \in Senders : Has'[s] = IF s = c.sender THEN visible ELSE Has[s]
      <4> SUFFICES ASSUME NEW s \in Senders
                   PROVE  Has'[s] = IF s = c.sender THEN visible ELSE Has[s]
        OBVIOUS
      <4>1. Has'[s] = selected'[s] \cup chosen'[s] /\ Has[s] = selected[s] \cup chosen[s]
        BY <2>7, <3>1, HasIs
      <4>2. CASE s = c.sender BY <2>3, <3>2, <4>1, <4>2
      <4>3. CASE s # c.sender BY <2>3, <3>2, <4>1, <4>3
      <4> QED BY <4>2, <4>3
    <3> QED BY <1>5, <2>5, <3>1, <3>3, <3>4
  <2> QED BY <2>1, <2>3, <2>5, <2>6, <2>7
<1>11. CASE \E visible \in SUBSET named :
              /\ chosen' = [chosen EXCEPT ![c.sender] = visible]
              /\ seen' = [seen EXCEPT ![c.sender] = {}]
              /\ Mishap
              /\ heard' = heard \ {c.sender}
              /\ UNCHANGED <<selected, taken>>
  BY <1>2, <1>4, <1>6, <1>9, <1>11 DEF c
<1>12. CASE \E visible \in SUBSET named :
              /\ chosen' = [chosen EXCEPT ![c.sender] = visible]
              /\ seen' = [seen EXCEPT ![c.sender] = {}]
              /\ IF visible = named THEN mishaps' = mishaps ELSE Mishap
              /\ Selects(c.sender, visible)
              /\ heard' = heard \cup {c.sender}
  <2>1. PICK visible \in SUBSET named :
              /\ chosen' = [chosen EXCEPT ![c.sender] = visible]
              /\ seen' = [seen EXCEPT ![c.sender] = {}]
              /\ IF visible = named THEN mishaps' = mishaps ELSE Mishap
              /\ Selects(c.sender, visible)
              /\ heard' = heard \cup {c.sender}
    BY <1>12
  <2> QED BY <1>2, <1>4, <1>6, <1>10, <2>1 DEF c
<1> QED BY <1>3, <1>8, <1>11, <1>12

LEMMA ChooseKeeps ==
  ASSUME Inv, Choose
  PROVE  Inv'
<1> DEFINE D == DOMAIN bay.speakers
<1>1. /\ UNCHANGED <<bay, moved, running, looking, leaving>>
      /\ told # <<>> /\ told' = Tail(told) /\ told[1] \in Commands
      /\ watched' \subseteq Senders /\ heard' \subseteq Senders
      /\ mishaps' \in Nat /\ (mishaps' = 0 => mishaps = 0)
      /\ selected' \in [Senders -> SUBSET Nat] /\ chosen' \in [Senders -> SUBSET Nat]
      /\ seen' \in [Senders -> SUBSET Nat]
      /\ \A s \in Senders :
           Has'[s] \subseteq IF s = told[1].sender THEN told[1].speakers ELSE Has[s]
      /\ mishaps' = 0 =>
           /\ taken' = {}
           /\ \A s \in Senders :
                /\ seen'[s] \subseteq chosen'[s] /\ chosen'[s] = selected'[s]
                /\ Has'[s] = IF s = told[1].sender THEN told[1].speakers \cap D ELSE Has[s]
  BY Chosen
<1>2. /\ told \in Seq(Commands) /\ told' \in Seq(Commands) /\ Len(told) \in Nat /\ Len(told) # 0
      /\ Len(told') = Len(told) - 1 /\ \A k \in 1..Len(told') : told'[k] = told[k + 1]
  <2>1. told \in Seq(Commands) BY DEF Inv, Types
  <2> QED BY <1>1, <2>1, EmptySeq, LenProperties, HeadTailProperties
<1>3. ASSUME NEW n \in 0..Len(told'), NEW s \in Senders, NEW i \in 0..n, Latest(told', s, i, n)
      PROVE  \E j \in 0..(n + 1) : /\ Latest(told, s, j, n + 1)
                                   /\ Asks(told', Has', s, i) \subseteq Asks(told, Has, s, j)
                                   /\ i # 0 => Asks(told', Has', s, i) = Asks(told, Has, s, j)
                                   /\ i = 0 => j = IF s = told[1].sender THEN 1 ELSE 0
  <2>1. n \in 0..(Len(told) - 1) BY <1>2
  <2>2. Latest(Tail(told), s, i, n) BY <1>1, <1>3
  <2>3. FirstDone(told, Has, Has') BY <1>1 DEF FirstDone
  <2>4. Follows(told, Has, Tail(told), Has', s, i, n) BY <1>1, <1>2, <2>1, <2>2, <2>3, Done
  <2> QED BY <1>1, <2>4 DEF Follows
<1>4. Types' BY <1>1, <1>2 DEF Inv, Types
<1>5. AirPlayed'
  <2>1. \A k \in 1..Len(told') : k + 1 \in 1..Len(told) BY <1>2
  <2>2. \A k \in 1..Len(told') : Known(bay, told'[k].speakers)
    BY <1>2, <2>1 DEF Inv, AirPlayed
  <2> QED BY <1>1, <2>2 DEF Inv, AirPlayed
<1>6. Calm' BY <1>1 DEF Inv, Calm
<1>7. Apart'
  <2> SUFFICES ASSUME NEW n \in 0..Len(told'), NEW s \in Senders, NEW t \in Senders,
                      NEW i \in 0..n, NEW j \in 0..n, s # t,
                      Latest(told', s, i, n), Latest(told', t, j, n)
               PROVE  Asks(told', Has', s, i) \cap Asks(told', Has', t, j) = {}
    BY DEF Apart, ApartAt
  <2>1. n + 1 \in 0..Len(told) BY <1>2
  <2>2. ApartAt(told, Has, n + 1) BY <2>1 DEF Inv, Apart
  <2>3. PICK x \in 0..(n + 1) : /\ Latest(told, s, x, n + 1)
                                /\ Asks(told', Has', s, i) \subseteq Asks(told, Has, s, x)
    BY <1>3
  <2>4. PICK y \in 0..(n + 1) : /\ Latest(told, t, y, n + 1)
                                /\ Asks(told', Has', t, j) \subseteq Asks(told, Has, t, y)
    BY <1>3
  <2>5. Asks(told, Has, s, x) \cap Asks(told, Has, t, y) = {} BY <2>2, <2>3, <2>4 DEF ApartAt
  <2> QED BY <2>3, <2>4, <2>5
<1>8. Len(told') \in 0..Len(told') /\ Len(told') + 1 = Len(told) BY <1>2
<1>9. Part'
  <2> SUFFICES ASSUME NEW s \in Senders, NEW i \in 0..Len(told'), Latest(told', s, i, Len(told'))
               PROVE  Asks(told', Has', s, i) \subseteq PlayedBy(running, s)
    BY <1>1 DEF Part, PartAt
  <2>1. PICK x \in 0..Len(told) : /\ Latest(told, s, x, Len(told))
                                  /\ Asks(told', Has', s, i) \subseteq Asks(told, Has, s, x)
    BY <1>3, <1>8
  <2>2. Asks(told, Has, s, x) \subseteq PlayedBy(running, s) BY <2>1 DEF Inv, Part, PartAt
  <2> QED BY <2>1, <2>2
<1>10. Exact'
  <2> SUFFICES ASSUME mishaps' = 0, NEW s \in Senders, NEW i \in 0..Len(told'),
                      Latest(told', s, i, Len(told'))
               PROVE  Asks(told', Has', s, i) \cap D = PlayedBy(running, s) \cap D
    BY <1>1 DEF Exact, ExactAt
  <2>1. PICK x \in 0..Len(told) :
          /\ Latest(told, s, x, Len(told))
          /\ i # 0 => Asks(told', Has', s, i) = Asks(told, Has, s, x)
          /\ i = 0 => x = IF s = told[1].sender THEN 1 ELSE 0
    BY <1>3, <1>8
  <2>2. Asks(told, Has, s, x) \cap D = PlayedBy(running, s) \cap D
    BY <1>1, <2>1 DEF Inv, Exact, ExactAt
  <2>3. Asks(told', Has', s, i) \cap D = Asks(told, Has, s, x) \cap D
    <3>1. CASE i # 0 BY <2>1, <3>1
    <3>2. CASE i = 0
      <4>1. Asks(told', Has', s, i) = Has'[s] BY <3>2 DEF Asks
      <4>2. CASE s = told[1].sender
        <5>1. x = 1 /\ Has'[s] = told[1].speakers \cap D BY <1>1, <2>1, <3>2, <4>2
        <5>2. Asks(told, Has, s, x) = told[1].speakers BY <5>1 DEF Asks
        <5> QED BY <4>1, <5>1, <5>2
      <4>3. CASE s # told[1].sender
        <5>1. x = 0 /\ Has'[s] = Has[s] BY <1>1, <2>1, <3>2, <4>3
        <5>2. Asks(told, Has, s, x) = Has[s] BY <5>1 DEF Asks
        <5> QED BY <4>1, <5>1, <5>2
      <4> QED BY <4>2, <4>3
    <3> QED BY <3>1, <3>2
  <2> QED BY <2>2, <2>3
<1> QED BY <1>4, <1>5, <1>6, <1>7, <1>9, <1>10 DEF Inv

LEMMA Starts == ConstantsFit /\ Init => Inv
<1> SUFFICES ASSUME ConstantsFit, Init PROVE Inv OBVIOUS
<1>1. PICK b \in Stored : bay = SettledDoors(b) BY DEF Init
<1>2. IsBay(bay) BY <1>1, Settled DEF ConstantsFit
<1>3. /\ running = <<>> /\ told = <<>> /\ watched = {} /\ looking = {} /\ leaving = {} /\ heard = {}
      /\ chosen = Nothing /\ seen = Nothing /\ selected = Nothing /\ taken = {} /\ mishaps = 0
      /\ moved = TRUE
  BY DEF Init
<1>4. Nothing \in [Senders -> SUBSET Nat] /\ \A s \in Senders : Nothing[s] = {} BY DEF Nothing
<1>5. \A s \in Senders : Has[s] = {} BY <1>3, <1>4, HasIs
<1>6. /\ RunsAre(running) /\ told \in Seq(Commands) /\ KnownRuns(bay, running)
      /\ Len(told) = 0 /\ DOMAIN running = {}
      /\ \A n \in 0..Len(told) : ApartAt(told, Has, n)
      /\ PartAt(told, Has, Len(told), running)
      /\ \A D : ExactAt(told, Has, Len(told), running, D)
  BY <1>3, <1>5, Emptied
<1>7. Types BY <1>2, <1>3, <1>4, <1>6 DEF Types
<1>8. AirPlayed BY <1>3, <1>6 DEF AirPlayed
<1>9. Calm BY <1>3, <1>4 DEF Calm
<1> QED BY <1>6, <1>7, <1>8, <1>9 DEF Inv, Apart, Part, Exact

LEMMA Steps == ConstantsFit /\ Inv /\ [Next]_vars => Inv'
<1> SUFFICES ASSUME ConstantsFit, Inv, [Next]_vars PROVE Inv' OBVIOUS
<1>1. CASE Owner BY <1>1, OwnerKeeps
<1>2. CASE Plan BY <1>2, PlanKeeps
<1>3. CASE Choose BY <1>3, ChooseKeeps
<1>4. CASE LookRound \/ Look BY <1>4, LookKeeps
<1>5. CASE LetGo BY <1>5, LetGoKeeps
<1>6. CASE Others BY <1>6, OthersKeep
<1>7. CASE Restart BY <1>7, RestartKeeps
<1>8. CASE UNCHANGED vars
  <2>1. /\ UNCHANGED <<bay, moved, running, told, watched, chosen, seen, looking, leaving>>
        /\ UNCHANGED <<heard, selected, taken, mishaps>>
    BY <1>8 DEF vars, hub, engine, control, counts
  <2>2. Has' = Has BY <2>1 DEF Has
  <2> QED BY <2>1, <2>2 DEF Inv, Types, AirPlayed, Calm, Apart, Part, Exact
<1> QED BY <1>1, <1>2, <1>3, <1>4, <1>5, <1>6, <1>7, <1>8 DEF Next

LEMMA Invariant == Spec => []Inv
<1>1. Init => Inv BY Starts, SoundAssumption
<1>2. Inv /\ [Next]_vars => Inv' BY Steps, SoundAssumption
<1> QED BY <1>1, <1>2, PTL DEF Spec

---------------------------------------------------------------------------
(* What holds of every behaviour.                                          *)

\* The patchbay is whole, whatever the owner does, a device takes or a restart settles, and
\* whatever patchbay the hub finds in its store (domains/sound/src/domain/patchbay.rs).
THEOREM BayIsWhole == Spec => []BayWhole
<1>1. Inv => BayWhole
  <2> SUFFICES ASSUME IsBay(bay) PROVE BayWhole BY DEF Inv, Types
  <2> QED BY DEF IsBay, Drawn, BayWhole
<1> QED BY <1>1, Invariant, PTL

\* No two senders that did what they were told have a speaker, with any number of senders and any
\* changes told one after another before any is done (domains/sound/src/application/engine.rs).
THEOREM OneEach == Spec => []OneSenderEach
<1>1. Inv => OneSenderEach
  <2> SUFFICES ASSUME Inv, NEW s \in heard, NEW t \in heard, s # t
               PROVE  selected[s] \cap selected[t] = {}
    BY DEF OneSenderEach
  <2>1. 0 \in 0..Len(told)
    <3>1. told \in Seq(Commands) BY DEF Inv, Types
    <3>2. Len(told) \in Nat BY <3>1, LenProperties
    <3> QED BY <3>2
  <2>2. ApartAt(told, Has, 0) BY <2>1 DEF Inv, Apart
  <2>3. s \in Senders /\ t \in Senders BY DEF Inv, Types
  <2>4. Latest(told, s, 0, 0) /\ Latest(told, t, 0, 0) BY DEF Latest
  <2>5. Asks(told, Has, s, 0) \cap Asks(told, Has, t, 0) = {} BY <2>2, <2>3, <2>4 DEF ApartAt
  <2>6. Asks(told, Has, s, 0) = Has[s] /\ Asks(told, Has, t, 0) = Has[t] BY DEF Asks
  <2>7. selected[s] \subseteq Has[s] /\ selected[t] \subseteq Has[t] BY <2>3, HasIs
  <2> QED BY <2>5, <2>6, <2>7
<1> QED BY <1>1, Invariant, PTL

\* What was told in between adds up to what is planned (app/sound/src/senders.rs).
THEOREM PlannedPlays == Spec => []PlannedIsPlayed
<1>1. Inv => PlannedIsPlayed
  <2> SUFFICES ASSUME Inv, ~moved, told = <<>>
               PROVE  /\ \A s \in heard : selected[s] \subseteq PlayedBy(running, s)
                      /\ mishaps = 0 => \A s \in Senders : selected[s] = PlayedBy(running, s)
    BY DEF PlannedIsPlayed
  <2>1. Len(told) = 0 BY EmptySeq
  <2>2. ASSUME NEW s \in Senders
        PROVE  /\ Has[s] \subseteq PlayedBy(running, s)
               /\ mishaps = 0 => Has[s] \cap DOMAIN bay.speakers
                                   = PlayedBy(running, s) \cap DOMAIN bay.speakers
    <3>1. Latest(told, s, 0, 0) BY DEF Latest
    <3>2. Asks(told, Has, s, 0) = Has[s] BY DEF Asks
    <3> QED BY <2>1, <3>1, <3>2 DEF Inv, Part, PartAt, Exact, ExactAt
  <2>3. ASSUME NEW s \in heard PROVE selected[s] \subseteq PlayedBy(running, s)
    <3>1. s \in Senders BY DEF Inv, Types
    <3>2. selected[s] \subseteq Has[s] BY <3>1, HasIs
    <3> QED BY <2>2, <3>1, <3>2
  <2>4. ASSUME mishaps = 0, NEW s \in Senders PROVE selected[s] = PlayedBy(running, s)
    <3>1. Has[s] = selected[s] BY <2>4, HasIs DEF Inv, Calm
    <3>2. PlayedBy(running, s) \subseteq DOMAIN bay.speakers BY DEF Inv, AirPlayed, PlayedBy
    <3> QED BY <2>2, <2>4, <3>1, <3>2
  <2> QED BY <2>3, <2>4
<1> QED BY <1>1, Invariant, PTL

\* A group whose speakers stay together keeps its sender (domains/sound/src/application/engine.rs).
THEOREM GoesOn == Spec => PlayingGoesOn
<1> DEFINE Stays ==
      running' # <<>> => \A i \in DOMAIN running :
        LET r == running[i]
            alone(g) == \A j \in DOMAIN running \ {i} : running[j].speakers \cap g = {} IN
        r.sender # NoSender =>
          \A k \in DOMAIN running' :
            r.speakers \subseteq running'[k].speakers /\ alone(running'[k].speakers)
              => running'[k].sender = r.sender
<1>1. Inv /\ [Next]_vars => [Stays]_vars
  <2> SUFFICES ASSUME Inv, Next PROVE Stays OBVIOUS
  <2>1. CASE Plan
    <3> SUFFICES ASSUME NEW i \in DOMAIN running, running[i].sender # NoSender,
                        NEW k \in DOMAIN running',
                        running[i].speakers \subseteq running'[k].speakers,
                        \A j \in DOMAIN running \ {i} :
                          running[j].speakers \cap running'[k].speakers = {}
                 PROVE  running'[k].sender = running[i].sender
      OBVIOUS
    <3>1. running' = Planned BY <2>1 DEF Plan, Planned
    <3>2. IsBay(bay) /\ RunsAre(running) BY DEF Inv, Types
    <3>3. /\ running'[k].speakers \in Groups(bay)
          /\ running'[k].airplay = AirPlay(bay, running'[k].speakers)
          /\ running'[k].airplay # {} => running'[k].sender = running[i].sender
      BY <3>1, <3>2, PlannedAre, SoundAssumption
    <3>4. running'[k].speakers \subseteq DOMAIN bay.speakers BY <3>2, <3>3, GroupsAre
    <3>5. /\ Known(bay, running[i].airplay) /\ running[i].airplay # {}
          /\ running[i].airplay \subseteq running[i].speakers
      BY <3>2 DEF Inv, AirPlayed, KnownRuns, RunsAre
    <3>6. running[i].airplay \subseteq running'[k].airplay BY <3>3, <3>4, <3>5 DEF Known, AirPlay
    <3> QED BY <3>3, <3>5, <3>6
  <2>2. CASE running' = <<>> BY <2>2
  <2>3. CASE running' = running
    <3> SUFFICES ASSUME NEW i \in DOMAIN running, NEW k \in DOMAIN running, k # i,
                        running[i].speakers \subseteq running[k].speakers,
                        \A j \in DOMAIN running \ {i} :
                          running[j].speakers \cap running[k].speakers = {}
                 PROVE  FALSE
      BY <2>3
    <3>1. running[k].speakers # {} BY DEF Inv, Types, RunsAre
    <3> QED BY <3>1
  <2>4. Plan \/ running' = <<>> \/ running' = running
    BY DEF Next, Owner, AddSource, AddSpeaker, RemoveSource, RemoveSpeaker, Wire, Unwire, SetAll, Tune,
           Free, SaveSetup, ApplySetup, RemoveSetup, Checked, Change, Live, engine, control,
           Choose, LookRound, Look, LetGo, Others, Take, GiveUp, Restart
  <2> QED BY <2>1, <2>2, <2>3, <2>4
<1>2. Spec => [][Stays]_vars BY <1>1, Invariant, PTL DEF Spec
<1> QED BY <1>2 DEF PlayingGoesOn
=============================================================================
