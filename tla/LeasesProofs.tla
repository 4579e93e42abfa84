---------------------------- MODULE LeasesProofs ----------------------------
(***************************************************************************)
(* Proofs about Leases.                                                    *)
(*                                                                         *)
(* The invariant is in parts: what each list at HQ holds (Lists), where a  *)
(* turn is at HQ and which container its lease names (Homes), what the     *)
(* leases' containers are (Boxes), and, while the runner has not           *)
(* restarted, whose sandbox each has (Sandboxes).                          *)
(***************************************************************************)
EXTENDS Leases, FiniteSetTheorems, SequenceTheorems, TLAPS

Reports == [run : Runs, how : Ends]

Lists ==
  /\ \A m, n \in 1..Len(line) : line[m] = line[n] => m = n
  /\ \A m, n \in 1..Len(ended) : ended[m].run = ended[n].run => m = n

\* A turn to be killed is over, and in no other place.
Homes ==
  \A r \in Runs :
    /\ InLine(r) => handed[r] = 0 /\ Told(r) = {}
    /\ handed[r] # 0 => Told(r) = {} /\ box[handed[r]].run = r
    /\ r \in stops => turn[r] = "Over" /\ ~InLine(r) /\ handed[r] = 0
    /\ r \in stopping => turn[r] = "Over"

Boxes ==
  /\ \A l \in Ids :
       /\ l >= lease => box[l] = NoBox
       /\ l < lease => box[l].run \in Runs
       /\ box[l].state \in {"exited", "gone"} => box[l].how \in Ends
       /\ l \in watching => box[l].state \in {"up", "exited", "gone"}
  /\ hand # 0 => box[hand].state = "held"

Sandboxes ==
  crashes = 0 =>
    /\ Up \subseteq watching
    /\ \A l \in Up : box[l].kept => l \in withItem /\ ItemOf[box[l].run] \in keepers
    /\ \A l, k \in withItem : ItemOf[box[l].run] = ItemOf[box[k].run] => l = k

Inv == TypeOK /\ Lists /\ Homes /\ Boxes /\ Sandboxes

---------------------------------------------------------------------------
(* Lists.                                                                  *)

\* What is left of a list when only the entries at some places stay: those, each in its place.
IsLeft(rest, list, others, S) ==
  /\ rest \in Seq(S) /\ Len(rest) <= Len(list)
  /\ \A n \in 1..Len(rest) : \E m \in others : rest[n] = list[m]
  /\ \A m \in others : \E n \in 1..Len(rest) : rest[n] = list[m]
  /\ \A m, n \in 1..Len(rest) : m # n =>
       \E i, j \in others : i # j /\ rest[m] = list[i] /\ rest[n] = list[j]

LEMMA WhatIsLeft ==
  ASSUME NEW S, NEW list \in Seq(S), NEW places \in SUBSET (1..Len(list)),
         \A m, n \in places : m = n
  PROVE  IsLeft(Without(list, places), list, 1..Len(list) \ places, S)
  <1> DEFINE rest == Without(list, places)
             others == 1..Len(list) \ places
  <1>1. Len(list) \in Nat
    BY LenProperties
  <1>2. CASE places = {}
    BY <1>1, <1>2 DEF Without, IsLeft
  <1>3. CASE places # {}
    <2>1. PICK p \in places : \A n \in places : n = p
      BY <1>3
    <2>2. p \in 1..Len(list) /\ Len(list) - 1 \in Nat /\ places = {p} /\ First(places) = p
      <3>1. p \in 1..Len(list) /\ places = {p} BY <2>1
      <3> QED  BY <1>1, <3>1 DEF First
    <2> DEFINE left == [n \in 1..(Len(list) - 1) |-> list[IF n < p THEN n ELSE n + 1]]
    <2>3. rest = left
      BY <2>2 DEF Without
    <2>4. left \in [1..(Len(list) - 1) -> S]
      <3> SUFFICES ASSUME NEW n \in 1..(Len(list) - 1)
                   PROVE  list[IF n < p THEN n ELSE n + 1] \in S
        OBVIOUS
      <3>1. (IF n < p THEN n ELSE n + 1) \in 1..Len(list)
        BY <2>2
      <3> QED  BY <3>1, ElementOfSeq
    <2>5. left \in Seq(S)
      BY <2>2, <2>4, SeqDef
    <2>6. Len(left) = Len(list) - 1
      BY <2>2, <2>5, LenProperties
    <2>7. /\ rest \in Seq(S) /\ Len(rest) = Len(list) - 1
          /\ \A n \in 1..(Len(list) - 1) : rest[n] = list[IF n < p THEN n ELSE n + 1]
      BY <2>3, <2>5, <2>6
    <2> HIDE DEF rest, left
    <2>8. \A n \in 1..Len(rest) : /\ (IF n < p THEN n ELSE n + 1) \in others
                                  /\ rest[n] = list[IF n < p THEN n ELSE n + 1]
      BY <1>1, <2>2, <2>7
    <2>9. \A m \in others : /\ (IF m < p THEN m ELSE m - 1) \in 1..Len(rest)
                            /\ rest[IF m < p THEN m ELSE m - 1] = list[m]
      BY <1>1, <2>2, <2>7
    <2>10. \A m, n \in 1..Len(rest) : m # n =>
             (IF m < p THEN m ELSE m + 1) # (IF n < p THEN n ELSE n + 1)
      BY <1>1, <2>2, <2>7
    <2>11. Len(rest) <= Len(list)
      BY <1>1, <2>7
    <2> HIDE DEF others
    <2>12. \A m, n \in 1..Len(rest) : m # n =>
             \E i, j \in others : i # j /\ rest[m] = list[i] /\ rest[n] = list[j]
      BY <2>8, <2>10
    <2>13. \A n \in 1..Len(rest) : \E m \in others : rest[n] = list[m]
      BY <2>8
    <2>14. \A m \in others : \E n \in 1..Len(rest) : rest[n] = list[m]
      BY <2>9
    <2>15. IsLeft(rest, list, others, S)
      BY <2>7, <2>11, <2>12, <2>13, <2>14 DEF IsLeft
    <2> QED  BY <2>15 DEF rest, others
  <1> QED  BY <1>2, <1>3

\* A turn that waits no more: the others wait as they did.
LEMMA OutOfLine ==
  ASSUME TypeOK, Lists, NEW r \in Runs
  PROVE  /\ NotInLine(r) \in Seq(Runs)
         /\ \A n \in 1..Len(NotInLine(r)) : NotInLine(r)[n] # r
         /\ \A q \in Runs \ {r} : (\E n \in 1..Len(NotInLine(r)) : NotInLine(r)[n] = q) <=> InLine(q)
         /\ \A m, n \in 1..Len(NotInLine(r)) : NotInLine(r)[m] = NotInLine(r)[n] => m = n
  <1> DEFINE places == {n \in 1..Len(line) : line[n] = r}
             rest == NotInLine(r)
             others == 1..Len(line) \ places
  <1>1. line \in Seq(Runs) /\ rest = Without(line, places) /\ places \in SUBSET (1..Len(line))
    BY DEF TypeOK, NotInLine
  <1>2. \A m, n \in places : m = n
    BY DEF Lists
  <1>3. /\ rest \in Seq(Runs)
        /\ \A n \in 1..Len(rest) : \E m \in others : rest[n] = line[m]
        /\ \A m \in others : \E n \in 1..Len(rest) : rest[n] = line[m]
        /\ \A m, n \in 1..Len(rest) : m # n =>
             \E i, j \in others : i # j /\ rest[m] = line[i] /\ rest[n] = line[j]
    <2>1. others = 1..Len(line) \ places
      OBVIOUS
    <2> HIDE DEF places, others, rest
    <2>2. IsLeft(Without(line, places), line, 1..Len(line) \ places, Runs)
      BY <1>1, <1>2, WhatIsLeft
    <2>3. IsLeft(rest, line, others, Runs)
      BY <1>1, <2>1, <2>2
    <2> QED  BY <2>3 DEF IsLeft
  <1>4. \A m \in others : m \in 1..Len(line) /\ line[m] # r
    OBVIOUS
  <1>5. \A m \in 1..Len(line) : line[m] # r => m \in others
    OBVIOUS
  <1> HIDE DEF places, others, rest
  <1>6. ASSUME NEW n \in 1..Len(rest)
        PROVE  rest[n] # r
    <2>1. PICK m \in others : rest[n] = line[m] BY <1>3
    <2> QED  BY <1>4, <2>1
  <1>7. ASSUME NEW q \in Runs \ {r}
        PROVE  (\E n \in 1..Len(rest) : rest[n] = q) <=> InLine(q)
    <2>1. ASSUME NEW n \in 1..Len(rest), rest[n] = q PROVE InLine(q)
      <3>1. PICK m \in others : rest[n] = line[m] BY <1>3
      <3> QED  BY <1>4, <2>1, <3>1 DEF InLine
    <2>2. ASSUME NEW m \in 1..Len(line), line[m] = q
          PROVE  \E n \in 1..Len(rest) : rest[n] = q
      <3>1. PICK n \in 1..Len(rest) : rest[n] = line[m] BY <1>3, <1>5, <2>2
      <3> QED  BY <2>2, <3>1
    <2> QED  BY <2>1, <2>2 DEF InLine
  <1>8. ASSUME NEW m \in 1..Len(rest), NEW n \in 1..Len(rest), rest[m] = rest[n]
        PROVE  m = n
    <2> SUFFICES ASSUME m # n PROVE FALSE
      OBVIOUS
    <2>1. PICK i \in others, j \in others : i # j /\ rest[m] = line[i] /\ rest[n] = line[j]
      BY <1>3
    <2>2. line[i] = line[j] /\ i \in 1..Len(line) /\ j \in 1..Len(line)
      BY <1>4, <1>8, <2>1
    <2> QED  BY <2>1, <2>2 DEF Lists
  <1> QED  BY <1>3, <1>6, <1>7, <1>8 DEF rest

\* A turn whose end is forgotten: the others' ends stay, each how it was.
LEMMA OutOfEnded ==
  ASSUME TypeOK, Lists, NEW r \in Runs
  PROVE  /\ NotTold(r) \in Seq(Reports) /\ Len(NotTold(r)) <= Len(ended)
         /\ \A n \in 1..Len(NotTold(r)) : NotTold(r)[n].run # r
         /\ \A n \in 1..Len(NotTold(r)) : \E m \in 1..Len(ended) : NotTold(r)[n] = ended[m]
         /\ \A m \in 1..Len(ended) : ended[m].run # r =>
              \E n \in 1..Len(NotTold(r)) : NotTold(r)[n] = ended[m]
         /\ \A m, n \in 1..Len(NotTold(r)) : NotTold(r)[m].run = NotTold(r)[n].run => m = n
  <1> DEFINE places == Told(r)
             rest == NotTold(r)
             others == 1..Len(ended) \ places
  <1>1. ended \in Seq(Reports) /\ rest = Without(ended, places) /\ places \in SUBSET (1..Len(ended))
    BY DEF TypeOK, NotTold, Told, Reports
  <1>2. \A m, n \in places : m = n
    BY DEF Lists, Told
  <1>3. /\ rest \in Seq(Reports) /\ Len(rest) <= Len(ended)
        /\ \A n \in 1..Len(rest) : \E m \in others : rest[n] = ended[m]
        /\ \A m \in others : \E n \in 1..Len(rest) : rest[n] = ended[m]
        /\ \A m, n \in 1..Len(rest) : m # n =>
             \E i, j \in others : i # j /\ rest[m] = ended[i] /\ rest[n] = ended[j]
    <2>1. others = 1..Len(ended) \ places
      OBVIOUS
    <2> HIDE DEF places, others, rest
    <2>2. IsLeft(Without(ended, places), ended, 1..Len(ended) \ places, Reports)
      BY <1>1, <1>2, WhatIsLeft
    <2>3. IsLeft(rest, ended, others, Reports)
      BY <1>1, <2>1, <2>2
    <2> QED  BY <2>3 DEF IsLeft
  <1>4. \A m \in others : m \in 1..Len(ended) /\ ended[m].run # r
    BY DEF Told
  <1>5. \A m \in 1..Len(ended) : ended[m].run # r => m \in others
    BY DEF Told
  <1> HIDE DEF places, others, rest
  <1>6. ASSUME NEW n \in 1..Len(rest)
        PROVE  rest[n].run # r
    <2>1. PICK m \in others : rest[n] = ended[m] BY <1>3
    <2> QED  BY <1>4, <2>1
  <1>7. ASSUME NEW m \in 1..Len(rest), NEW n \in 1..Len(rest), rest[m].run = rest[n].run
        PROVE  m = n
    <2> SUFFICES ASSUME m # n PROVE FALSE
      OBVIOUS
    <2>1. PICK i \in others, j \in others : i # j /\ rest[m] = ended[i] /\ rest[n] = ended[j]
      BY <1>3
    <2>2. ended[i].run = ended[j].run /\ i \in 1..Len(ended) /\ j \in 1..Len(ended)
      BY <1>4, <1>7, <2>1
    <2> QED  BY <2>1, <2>2 DEF Lists
  <1>8. \A n \in 1..Len(rest) : \E m \in 1..Len(ended) : rest[n] = ended[m]
    BY <1>3, <1>4
  <1>9. \A m \in 1..Len(ended) : ended[m].run # r => \E n \in 1..Len(rest) : rest[n] = ended[m]
    BY <1>3, <1>5
  <1> QED  BY <1>3, <1>6, <1>7, <1>8, <1>9 DEF rest

---------------------------------------------------------------------------
(* What the operations at HQ do to its lists.                              *)

BoxRow == [run : Runs \cup {NoRun}, state : States, how : Ends \cup {"None"},
           late : BOOLEAN, kept : BOOLEAN]

\* A report is taken, or changes nothing: no turn comes to be handed out, and none but the one
\* reported comes to have an end.
LEMMA Reported ==
  ASSUME ConstantsFit, TypeOK, Lists, Homes,
         NEW r \in Runs, NEW l \in Ids, NEW how \in Ends, Report(r, l, how)
  PROVE  /\ line' = line /\ stops' = stops /\ lease' = lease
         /\ handed' \in [Runs -> Ids \cup {0}]
         /\ ended' \in Seq(Reports) /\ Len(ended') <= Kept
         /\ Lists'
         /\ \A q \in Runs : handed'[q] \in {0, handed[q]}
         /\ \A q \in Runs : Told(q)' # {} =>
              Told(q) # {} \/ (q = r /\ handed[q] # 0 /\ handed'[q] = 0)
  <1> DEFINE e == [run |-> r, how |-> how]
             all == Append(ended, e)
  <1>1. CASE handed[r] # l
    BY <1>1 DEF Report, TypeOK, Lists, Told, Reports
  <1>2. CASE handed[r] = l
    <2>1. /\ line' = line /\ stops' = stops /\ lease' = lease
          /\ handed' = [handed EXCEPT ![r] = 0]
          /\ ended' = IF Len(all) > Kept THEN Tail(all) ELSE all
      BY <1>2 DEF Report, KeepLatest
    <2>2. /\ e \in Reports /\ ended \in Seq(Reports) /\ Len(ended) \in Nat /\ Len(ended) <= Kept
          /\ Kept \in Nat /\ handed \in [Runs -> Ids \cup {0}] /\ l # 0
      BY LenProperties DEF TypeOK, Reports, ConstantsFit, Ids
    <2>3. \A n \in 1..Len(ended) : ended[n].run # r
      BY <1>2, <2>2 DEF Homes, Told
    <2>4. /\ all \in Seq(Reports) /\ Len(all) = Len(ended) + 1 /\ all # <<>>
          /\ \A n \in 1..Len(ended) : all[n] = ended[n]
          /\ all[Len(ended) + 1] = e
      BY <2>2
    <2>5. \A m, n \in 1..Len(all) : all[m].run = all[n].run => m = n
      <3> SUFFICES ASSUME NEW m \in 1..Len(all), NEW n \in 1..Len(all), all[m].run = all[n].run
                   PROVE  m = n
        OBVIOUS
      <3>1. CASE m \in 1..Len(ended) /\ n \in 1..Len(ended)
        BY <2>4, <3>1 DEF Lists
      <3>2. CASE m = Len(ended) + 1 /\ n = Len(ended) + 1
        BY <3>2
      <3>3. CASE m = Len(ended) + 1 /\ n \in 1..Len(ended)
        BY <2>3, <2>4, <3>3
      <3>4. CASE n = Len(ended) + 1 /\ m \in 1..Len(ended)
        BY <2>3, <2>4, <3>4
      <3> QED  BY <2>2, <2>4, <3>1, <3>2, <3>3, <3>4
    <2>6. /\ Tail(all) \in Seq(Reports) /\ Len(Tail(all)) = Len(all) - 1
          /\ \A n \in 1..Len(Tail(all)) : Tail(all)[n] = all[n + 1]
      BY <2>4, HeadTailProperties
    <2> HIDE DEF all
    <2>7. /\ ended' \in Seq(Reports) /\ Len(ended') <= Kept
          /\ \A m, n \in 1..Len(ended') : ended'[m].run = ended'[n].run => m = n
          /\ \A n \in 1..Len(ended') : \E m \in 1..Len(all) : ended'[n] = all[m]
      <3>1. CASE Len(all) > Kept
        <4>1. ended' = Tail(all) BY <2>1, <3>1
        <4>2. \A n \in 1..Len(ended') : n + 1 \in 1..Len(all) /\ ended'[n] = all[n + 1]
          BY <2>2, <2>4, <2>6, <4>1
        <4>3. ASSUME NEW m \in 1..Len(ended'), NEW n \in 1..Len(ended'),
                     ended'[m].run = ended'[n].run
              PROVE  m = n
          <5>1. m + 1 = n + 1 BY <2>5, <4>2, <4>3
          <5>2. m \in Int /\ n \in Int OBVIOUS
          <5> QED  BY <5>1, <5>2
        <4> QED  BY <2>2, <2>4, <2>6, <4>1, <4>2, <4>3
      <3>2. CASE ~(Len(all) > Kept)
        <4>1. ended' = all BY <2>1, <3>2
        <4> QED  BY <2>2, <2>4, <2>5, <3>2, <4>1
      <3> QED  BY <3>1, <3>2
    <2>8. ASSUME NEW q \in Runs, Told(q)' # {}
          PROVE  Told(q) # {} \/ (q = r /\ handed[q] # 0 /\ handed'[q] = 0)
      <3>1. PICK n \in 1..Len(ended') : ended'[n].run = q
        BY <2>8 DEF Told
      <3>2. PICK m \in 1..Len(all) : ended'[n] = all[m]
        BY <2>7, <3>1
      <3>3. CASE m \in 1..Len(ended)
        BY <2>4, <3>1, <3>2, <3>3 DEF Told
      <3>4. CASE m = Len(ended) + 1
        BY <1>2, <2>1, <2>2, <2>4, <3>1, <3>2, <3>4
      <3> QED  BY <2>2, <2>4, <3>3, <3>4
    <2>9. Lists'
      BY <2>1, <2>7 DEF Lists
    <2>10. handed' \in [Runs -> Ids \cup {0}] /\ \A q \in Runs : handed'[q] \in {0, handed[q]}
      BY <2>1, <2>2
    <2> QED  BY <2>1, <2>7, <2>8, <2>9, <2>10
  <1> QED  BY <1>1, <1>2

\* A turn started waits behind the others; how they fared is known as it was.
LEMMA Started ==
  ASSUME ConstantsFit, TypeOK, Lists, NEW r \in Runs, StartTurn(r)
  PROVE  /\ stops' = stops /\ lease' = lease
         /\ line' \in Seq(Runs) /\ handed' \in [Runs -> Ids \cup {0}]
         /\ ended' \in Seq(Reports) /\ Len(ended') <= Kept
         /\ Lists'
         /\ InLine(r)' /\ handed'[r] = 0 /\ Told(r)' = {}
         /\ \A q \in Runs \ {r} : (InLine(q)' <=> InLine(q)) /\ handed'[q] = handed[q]
         /\ \A n \in 1..Len(ended') : \E m \in 1..Len(ended) : ended'[n] = ended[m]
         /\ \A m \in 1..Len(ended) : ended[m].run # r => \E n \in 1..Len(ended') : ended'[n] = ended[m]
  <1> DEFINE rest == NotInLine(r)
  <1>1. /\ line' = Append(rest, r) /\ handed' = [handed EXCEPT ![r] = 0]
        /\ ended' = NotTold(r) /\ stops' = stops /\ lease' = lease
    BY DEF StartTurn
  <1>2. /\ rest \in Seq(Runs)
        /\ \A n \in 1..Len(rest) : rest[n] # r
        /\ \A q \in Runs \ {r} : (\E n \in 1..Len(rest) : rest[n] = q) <=> InLine(q)
        /\ \A m, n \in 1..Len(rest) : rest[m] = rest[n] => m = n
    BY OutOfLine
  <1> HIDE DEF rest
  <1>3. /\ line' \in Seq(Runs) /\ Len(line') = Len(rest) + 1 /\ Len(rest) \in Nat
        /\ \A n \in 1..Len(rest) : line'[n] = rest[n]
        /\ line'[Len(rest) + 1] = r
    BY <1>1, <1>2
  <1>4. InLine(r)'
    BY <1>3 DEF InLine
  <1>5. ASSUME NEW q \in Runs \ {r}
        PROVE  InLine(q)' <=> InLine(q)
    <2>1. ASSUME NEW n \in 1..Len(line'), line'[n] = q
          PROVE  \E m \in 1..Len(rest) : rest[m] = q
      <3>1. n \in 1..Len(rest) BY <1>3, <2>1
      <3> QED  BY <1>3, <2>1, <3>1
    <2>2. ASSUME NEW m \in 1..Len(rest), rest[m] = q
          PROVE  m \in 1..Len(line') /\ line'[m] = q
      BY <1>3, <2>2
    <2> QED  BY <1>2, <2>1, <2>2 DEF InLine
  <1>6. ASSUME NEW m \in 1..Len(line'), NEW n \in 1..Len(line'), line'[m] = line'[n]
        PROVE  m = n
    <2>1. CASE m \in 1..Len(rest) /\ n \in 1..Len(rest)
      BY <1>2, <1>3, <1>6, <2>1
    <2>2. CASE m = Len(rest) + 1 /\ n \in 1..Len(rest)
      BY <1>2, <1>3, <1>6, <2>2
    <2>3. CASE n = Len(rest) + 1 /\ m \in 1..Len(rest)
      BY <1>2, <1>3, <1>6, <2>3
    <2> QED  BY <1>3, <2>1, <2>2, <2>3
  <1>7. /\ ended' \in Seq(Reports) /\ Len(ended') <= Len(ended)
        /\ \A n \in 1..Len(ended') : ended'[n].run # r
        /\ \A n \in 1..Len(ended') : \E m \in 1..Len(ended) : ended'[n] = ended[m]
        /\ \A m \in 1..Len(ended) : ended[m].run # r => \E n \in 1..Len(ended') : ended'[n] = ended[m]
        /\ \A m, n \in 1..Len(ended') : ended'[m].run = ended'[n].run => m = n
    <2>1. /\ NotTold(r) \in Seq(Reports) /\ Len(NotTold(r)) <= Len(ended)
          /\ \A n \in 1..Len(NotTold(r)) : NotTold(r)[n].run # r
          /\ \A n \in 1..Len(NotTold(r)) : \E m \in 1..Len(ended) : NotTold(r)[n] = ended[m]
          /\ \A m \in 1..Len(ended) : ended[m].run # r =>
               \E n \in 1..Len(NotTold(r)) : NotTold(r)[n] = ended[m]
          /\ \A m, n \in 1..Len(NotTold(r)) : NotTold(r)[m].run = NotTold(r)[n].run => m = n
      BY OutOfEnded
    <2> QED  BY <1>1, <2>1
  <1>8. Lists'
    BY <1>6, <1>7 DEF Lists
  <1>9. Told(r)' = {}
    BY <1>7 DEF Told
  <1>10. Len(ended') <= Kept
    <2>1. Len(ended') \in Nat /\ Len(ended) \in Nat /\ Kept \in Nat /\ Len(ended) <= Kept
      BY <1>7, LenProperties DEF TypeOK, ConstantsFit, Reports
    <2> QED  BY <1>7, <2>1
  <1>11. /\ handed' \in [Runs -> Ids \cup {0}] /\ handed'[r] = 0
         /\ \A q \in Runs \ {r} : handed'[q] = handed[q]
    BY <1>1 DEF TypeOK
  <1> QED  BY <1>1, <1>3, <1>4, <1>5, <1>7, <1>8, <1>9, <1>10, <1>11

\* A turn stopped waits no more, or is to be killed; nothing changes for the others.
LEMMA StoppedAtHq ==
  ASSUME ConstantsFit, TypeOK, Lists, Homes, NEW r \in Runs, StopTurn(r)
  PROVE  /\ lease' = lease
         /\ line' \in Seq(Runs) /\ handed' \in [Runs -> Ids \cup {0}]
         /\ ended' \in Seq(Reports) /\ Len(ended') <= Kept
         /\ Lists'
         /\ ~InLine(r)' /\ handed'[r] = 0 /\ Told(r)' = {}
         /\ \A q \in Runs \ {r} : (InLine(q)' <=> InLine(q)) /\ handed'[q] = handed[q]
         /\ stops' \subseteq stops \cup {r}
         /\ \A n \in 1..Len(ended') : \E m \in 1..Len(ended) : ended'[n] = ended[m]
         /\ \A m \in 1..Len(ended) : ended[m].run # r => \E n \in 1..Len(ended') : ended'[n] = ended[m]
  <1>1. /\ line' \in Seq(Runs)
        /\ \A n \in 1..Len(line') : line'[n] # r
        /\ \A q \in Runs \ {r} : (\E n \in 1..Len(line') : line'[n] = q) <=> InLine(q)
        /\ \A m, n \in 1..Len(line') : line'[m] = line'[n] => m = n
    <2>1. line' = NotInLine(r)
      BY DEF StopTurn
    <2>2. /\ NotInLine(r) \in Seq(Runs)
          /\ \A n \in 1..Len(NotInLine(r)) : NotInLine(r)[n] # r
          /\ \A q \in Runs \ {r} : (\E n \in 1..Len(NotInLine(r)) : NotInLine(r)[n] = q) <=> InLine(q)
          /\ \A m, n \in 1..Len(NotInLine(r)) : NotInLine(r)[m] = NotInLine(r)[n] => m = n
      BY OutOfLine
    <2> QED  BY <2>1, <2>2
  <1>2. ~InLine(r)' /\ \A q \in Runs \ {r} : InLine(q)' <=> InLine(q)
    BY <1>1 DEF InLine
  <1>3. /\ ended' \in Seq(Reports) /\ Len(ended') <= Kept
        /\ \A m, n \in 1..Len(ended') : ended'[m].run = ended'[n].run => m = n
        /\ \A n \in 1..Len(ended') : ended'[n].run # r
        /\ \A n \in 1..Len(ended') : \E m \in 1..Len(ended) : ended'[n] = ended[m]
        /\ \A m \in 1..Len(ended) : ended[m].run # r => \E n \in 1..Len(ended') : ended'[n] = ended[m]
    <2>1. CASE InLine(r)
      <3>1. ended' = ended BY <2>1 DEF StopTurn
      <3>2. \A n \in 1..Len(ended) : ended[n].run # r BY <2>1 DEF Homes, Told
      <3> QED  BY <3>1, <3>2 DEF TypeOK, Lists, Reports
    <2>2. CASE ~InLine(r)
      <3>1. ended' = NotTold(r) BY <2>2 DEF StopTurn
      <3>2. /\ NotTold(r) \in Seq(Reports) /\ Len(NotTold(r)) <= Len(ended)
            /\ \A n \in 1..Len(NotTold(r)) : NotTold(r)[n].run # r
            /\ \A n \in 1..Len(NotTold(r)) : \E m \in 1..Len(ended) : NotTold(r)[n] = ended[m]
            /\ \A m \in 1..Len(ended) : ended[m].run # r =>
                 \E n \in 1..Len(NotTold(r)) : NotTold(r)[n] = ended[m]
            /\ \A m, n \in 1..Len(NotTold(r)) : NotTold(r)[m].run = NotTold(r)[n].run => m = n
        BY OutOfEnded
      <3>3. Len(ended') \in Nat /\ Len(ended) \in Nat /\ Kept \in Nat /\ Len(ended) <= Kept
        BY <3>1, <3>2, LenProperties DEF TypeOK, ConstantsFit, Reports
      <3>4. Len(ended') <= Kept
        BY <3>1, <3>2, <3>3
      <3> QED  BY <3>1, <3>2, <3>4
    <2> QED  BY <2>1, <2>2
  <1>4. Lists'
    BY <1>1, <1>3 DEF Lists
  <1>5. Told(r)' = {}
    BY <1>3 DEF Told
  <1>6. /\ handed' \in [Runs -> Ids \cup {0}] /\ handed'[r] = 0
        /\ \A q \in Runs \ {r} : handed'[q] = handed[q]
    BY DEF StopTurn, TypeOK, Homes
  <1>7. lease' = lease /\ stops' \subseteq stops \cup {r}
    BY DEF StopTurn
  <1> QED  BY <1>1, <1>2, <1>3, <1>4, <1>5, <1>6, <1>7

\* The oldest turn in line is handed out; the others wait on.
LEMMA HandedOut ==
  ASSUME TypeOK, Lists, line # <<>>, lease \in Ids, HandOut, NEW h, h = Head(line)
  PROVE  /\ h \in Runs /\ InLine(h) /\ ~InLine(h)'
         /\ line' \in Seq(Runs) /\ handed' \in [Runs -> Ids \cup {0}]
         /\ lease' = lease + 1 /\ ended' = ended /\ stops' = stops
         /\ Lists'
         /\ handed'[h] = lease
         /\ \A q \in Runs \ {h} : (InLine(q)' <=> InLine(q)) /\ handed'[q] = handed[q]
  <1>1. /\ h \in Runs /\ Tail(line) \in Seq(Runs) /\ Len(Tail(line)) = Len(line) - 1
        /\ \A n \in 1..Len(Tail(line)) : Tail(line)[n] = line[n + 1]
        /\ Len(line) \in Nat \ {0} /\ h = line[1]
    BY HeadTailProperties, LenProperties, EmptySeq DEF TypeOK
  <1>2. /\ line' = Tail(line) /\ handed' = [handed EXCEPT ![h] = lease]
        /\ lease' = lease + 1 /\ ended' = ended /\ stops' = stops
    BY DEF HandOut
  <1>3. \A n \in 1..Len(line') : n + 1 \in 2..Len(line) /\ line'[n] = line[n + 1]
    BY <1>1, <1>2
  <1>4. \A n \in 2..Len(line) : n - 1 \in 1..Len(line') /\ line'[n - 1] = line[n]
    <2> TAKE n \in 2..Len(line)
    <2>1. n - 1 \in 1..Len(line') BY <1>1, <1>2
    <2>2. line'[n - 1] = line[(n - 1) + 1] BY <1>3, <2>1
    <2>3. (n - 1) + 1 = n BY <1>1
    <2> QED  BY <2>1, <2>2, <2>3
  <1>5. \A n \in 1..Len(line) : line[n] = h <=> n = 1
    <2>1. 1 \in 1..Len(line) BY <1>1
    <2> QED  BY <1>1, <2>1 DEF Lists
  <1>6. InLine(h)
    <2>1. 1 \in 1..Len(line) BY <1>1
    <2> QED  BY <1>1, <2>1 DEF InLine
  <1>7. ~InLine(h)'
    <2> SUFFICES ASSUME NEW n \in 1..Len(line'), line'[n] = h PROVE FALSE
      BY DEF InLine
    <2>1. n + 1 \in 1..Len(line) /\ line[n + 1] = h BY <1>1, <1>3
    <2>2. n + 1 = 1 BY <1>5, <2>1
    <2> QED  BY <2>2
  <1>8. ASSUME NEW q \in Runs \ {h}
        PROVE  InLine(q)' <=> InLine(q)
    <2>1. ASSUME NEW n \in 1..Len(line'), line'[n] = q
          PROVE  InLine(q)
      <3>1. n + 1 \in 1..Len(line) /\ line[n + 1] = q BY <1>1, <1>3, <2>1
      <3> QED  BY <3>1 DEF InLine
    <2>2. ASSUME NEW n \in 1..Len(line), line[n] = q
          PROVE  InLine(q)'
      <3>1. n \in 2..Len(line) BY <1>1, <1>5, <2>2
      <3>2. n - 1 \in 1..Len(line') /\ line'[n - 1] = q BY <1>4, <2>2, <3>1
      <3> QED  BY <3>2 DEF InLine
    <2> QED  BY <2>1, <2>2 DEF InLine
  <1>9. ASSUME NEW m \in 1..Len(line'), NEW n \in 1..Len(line'), line'[m] = line'[n]
        PROVE  m = n
    <2>1. /\ m + 1 \in 1..Len(line) /\ n + 1 \in 1..Len(line)
          /\ line[m + 1] = line[n + 1]
      BY <1>1, <1>3, <1>9
    <2>2. m + 1 = n + 1 BY <2>1 DEF Lists
    <2> QED  BY <2>2
  <1>10. Lists'
    BY <1>2, <1>9 DEF Lists
  <1>11. /\ handed' \in [Runs -> Ids \cup {0}] /\ handed'[h] = lease
         /\ \A q \in Runs \ {h} : handed'[q] = handed[q]
    BY <1>1, <1>2 DEF TypeOK
  <1> QED  BY <1>1, <1>2, <1>6, <1>7, <1>8, <1>10, <1>11

---------------------------------------------------------------------------
(* Every step keeps the invariant.                                         *)

LEMMA LaunchKeeps ==
  ASSUME ConstantsFit, Inv, NEW r \in Runs, Launch(r)
  PROVE  Inv'
  <1>1. /\ TypeOK /\ Lists /\ Homes /\ Boxes /\ Sandboxes /\ StartTurn(r)
        /\ turn[r] \in {"New", "Between"} /\ turn' = [turn EXCEPT ![r] = "Running"]
        /\ UNCHANGED <<docker, known, round, bounds>>
    BY DEF Inv, Launch
  <1>2. /\ stops' = stops /\ lease' = lease
        /\ line' \in Seq(Runs) /\ handed' \in [Runs -> Ids \cup {0}]
        /\ ended' \in Seq(Reports) /\ Len(ended') <= Kept
        /\ Lists'
        /\ InLine(r)' /\ handed'[r] = 0 /\ Told(r)' = {}
        /\ \A q \in Runs \ {r} : (InLine(q)' <=> InLine(q)) /\ handed'[q] = handed[q]
        /\ \A n \in 1..Len(ended') : \E m \in 1..Len(ended) : ended'[n] = ended[m]
    BY <1>1, Started
  <1>3. TypeOK'
    BY <1>1, <1>2 DEF TypeOK, Reports, Stages, docker, known, round, bounds
  <1>4. \A q \in Runs \ {r} : Told(q) = {} => Told(q)' = {}
    BY <1>2 DEF Told
  <1>5. /\ \A q \in Runs \ {r} : turn'[q] = turn[q]
        /\ box' = box /\ stopping' = stopping /\ r \notin stops /\ r \notin stopping
    BY <1>1 DEF TypeOK, Homes, docker, known
  <1>6. Homes'
    <2> SUFFICES ASSUME NEW q \in Runs
                 PROVE  /\ InLine(q)' => handed'[q] = 0 /\ Told(q)' = {}
                        /\ handed'[q] # 0 => Told(q)' = {} /\ box'[handed'[q]].run = q
                        /\ q \in stops' => turn'[q] = "Over" /\ ~InLine(q)' /\ handed'[q] = 0
                        /\ q \in stopping' => turn'[q] = "Over"
      BY DEF Homes
    <2>1. CASE q = r BY <1>2, <1>5, <2>1
    <2>2. CASE q # r BY <1>1, <1>2, <1>4, <1>5, <2>2 DEF Homes
    <2> QED  BY <2>1, <2>2
  <1>7. Boxes' /\ Sandboxes'
    BY <1>1, <1>2 DEF Boxes, Sandboxes, Up, docker, known, round, bounds
  <1> QED  BY <1>2, <1>3, <1>6, <1>7 DEF Inv

\* Only a turn's stage changes, of one that is not over.
LEMMA StageKeeps ==
  ASSUME ConstantsFit, Inv, NEW r \in Runs, turn[r] # "Over", NEW to \in Stages,
         turn' = [turn EXCEPT ![r] = to], UNCHANGED <<hq, docker, known, round, bounds>>
  PROVE  Inv'
  <1> USE DEF hq, docker, known, round, bounds
  <1>1. TypeOK' /\ Lists'
    BY DEF Inv, TypeOK, Lists
  <1>2. Homes'
    BY DEF Inv, TypeOK, Homes, InLine, Told
  <1>3. Boxes' /\ Sandboxes'
    BY DEF Inv, Boxes, Sandboxes, Up
  <1> QED  BY <1>1, <1>2, <1>3 DEF Inv

LEMMA EndTurnKeeps ==
  ASSUME ConstantsFit, Inv, NEW r \in Runs, EndTurn(r)
  PROVE  Inv'
  <1>1. /\ TypeOK /\ Lists /\ Homes /\ Boxes /\ Sandboxes /\ StopTurn(r)
        /\ turn' = [turn EXCEPT ![r] = "Over"]
        /\ UNCHANGED <<docker, known, round, bounds>>
    BY DEF Inv, EndTurn
  <1>2. /\ lease' = lease
        /\ line' \in Seq(Runs) /\ handed' \in [Runs -> Ids \cup {0}]
        /\ ended' \in Seq(Reports) /\ Len(ended') <= Kept
        /\ Lists'
        /\ ~InLine(r)' /\ handed'[r] = 0 /\ Told(r)' = {}
        /\ \A q \in Runs \ {r} : (InLine(q)' <=> InLine(q)) /\ handed'[q] = handed[q]
        /\ stops' \subseteq stops \cup {r}
        /\ \A n \in 1..Len(ended') : \E m \in 1..Len(ended) : ended'[n] = ended[m]
    BY <1>1, StoppedAtHq
  <1>3. TypeOK'
    BY <1>1, <1>2 DEF TypeOK, Reports, Stages, docker, known, round, bounds
  <1>4. \A q \in Runs \ {r} : Told(q) = {} => Told(q)' = {}
    BY <1>2 DEF Told
  <1>5. /\ turn'[r] = "Over" /\ \A q \in Runs \ {r} : turn'[q] = turn[q]
        /\ box' = box /\ stopping' = stopping
    BY <1>1 DEF TypeOK, docker, known
  <1>6. Homes'
    <2> SUFFICES ASSUME NEW q \in Runs
                 PROVE  /\ InLine(q)' => handed'[q] = 0 /\ Told(q)' = {}
                        /\ handed'[q] # 0 => Told(q)' = {} /\ box'[handed'[q]].run = q
                        /\ q \in stops' => turn'[q] = "Over" /\ ~InLine(q)' /\ handed'[q] = 0
                        /\ q \in stopping' => turn'[q] = "Over"
      BY DEF Homes
    <2>1. CASE q = r BY <1>2, <1>5, <2>1
    <2>2. CASE q # r BY <1>1, <1>2, <1>4, <1>5, <2>2 DEF Homes
    <2> QED  BY <2>1, <2>2
  <1>7. Boxes' /\ Sandboxes'
    BY <1>1, <1>2 DEF Boxes, Sandboxes, Up, docker, known, round, bounds
  <1> QED  BY <1>2, <1>3, <1>6, <1>7 DEF Inv

LEMMA HqRestartsKeeps ==
  ASSUME ConstantsFit, Inv, HqRestarts
  PROVE  Inv'
  <1> USE DEF hq, docker, known, round, bounds
  <1>1. /\ line' = <<>> /\ ended' = <<>> /\ Len(line') = 0 /\ Len(ended') = 0
        /\ handed' = [r \in Runs |-> 0] /\ stops' = {} /\ stopping' = stopping /\ turn' = turn
    BY DEF HqRestarts
  <1>2. TypeOK'
    BY <1>1 DEF Inv, TypeOK, HqRestarts, ConstantsFit
  <1>3. Lists'
    BY <1>1 DEF Lists
  <1>4. Homes'
    BY <1>1 DEF Inv, Homes, InLine, Told
  <1>5. Boxes' /\ Sandboxes'
    BY DEF Inv, Boxes, Sandboxes, Up, HqRestarts
  <1> QED  BY <1>2, <1>3, <1>4, <1>5 DEF Inv

---------------------------------------------------------------------------
(* What a container does by itself.                                        *)

\* A container that was up changes, and is of the turn it was.
LEMMA ContainerKeeps ==
  ASSUME ConstantsFit, Inv, NEW l \in Ids, box[l].state = "up", NEW b \in BoxRow,
         b.run = box[l].run, b.state \in {"up", "exited", "gone"},
         b.state # "up" => b.how \in Ends, b.kept => b.state = "up" /\ box[l].kept,
         box' = [box EXCEPT ![l] = b],
         UNCHANGED <<keepers, turn, hq, known, round, bounds>>
  PROVE  Inv'
  <1> USE DEF hq, known, round, bounds
  <1>1. TypeOK'
    BY DEF Inv, TypeOK, BoxRow
  <1>2. /\ box'[l] = b /\ \A k \in Ids \ {l} : box'[k] = box[k]
        /\ \A k \in Ids : box'[k].run = box[k].run
    BY DEF Inv, TypeOK
  <1>3. Lists'
    BY DEF Inv, Lists
  <1>4. Homes'
    BY <1>2 DEF Inv, TypeOK, Homes, InLine, Told
  <1>5. Boxes'
    <2>1. hand # 0 => hand \in Ids \ {l}
      BY DEF Inv, TypeOK, Boxes
    <2>2. ~(l >= lease)
      BY DEF Inv, Boxes, NoBox
    <2>3. ASSUME NEW k \in Ids
          PROVE  /\ k >= lease' => box'[k] = NoBox
                 /\ k < lease' => box'[k].run \in Runs
                 /\ box'[k].state \in {"exited", "gone"} => box'[k].how \in Ends
                 /\ k \in watching' => box'[k].state \in {"up", "exited", "gone"}
      <3>1. CASE k = l BY <1>2, <2>2, <3>1 DEF Inv, Boxes
      <3>2. CASE k # l BY <1>2, <3>2 DEF Inv, Boxes
      <3> QED  BY <3>1, <3>2
    <2> QED  BY <1>2, <2>1, <2>3 DEF Inv, Boxes
  <1>6. Sandboxes'
    <2>1. Up' \subseteq Up /\ \A k \in Up' : box'[k].kept => box[k].kept
      BY <1>2 DEF Up
    <2> QED  BY <1>2, <2>1 DEF Inv, TypeOK, Sandboxes, Up
  <1> QED  BY <1>1, <1>3, <1>4, <1>5, <1>6 DEF Inv

LEMMA DockerKeeps ==
  ASSUME ConstantsFit, Inv, DockerStep
  PROVE  Inv'
  <1> PICK l \in Ids : Vanishes(l) \/ GrowsLate(l) \/ \E how \in ExitsAs : Exits(l, how)
    BY DEF DockerStep
  <1>1. /\ box[l] \in BoxRow /\ box[l].state = "up"
        /\ \A state \in {"exited", "gone"}, how \in Ends : Stopped(l, state, how) \in BoxRow
        /\ \A state \in {"exited", "gone"}, how \in Ends :
             /\ Stopped(l, state, how).run = box[l].run /\ Stopped(l, state, how).state = state
             /\ Stopped(l, state, how).how = how /\ Stopped(l, state, how).kept = FALSE
    BY DEF Inv, TypeOK, BoxRow, Stopped, States, Vanishes, GrowsLate, Exits
  <1>2. CASE Vanishes(l)
    <2> DEFINE b == Stopped(l, "gone", "Vanished")
    <2>1. "Vanished" \in Ends BY DEF Ends
    <2>2. /\ b \in BoxRow /\ b.run = box[l].run /\ b.state = "gone" /\ b.how = "Vanished"
          /\ b.kept = FALSE
      BY <1>1, <2>1
    <2>3. box' = [box EXCEPT ![l] = b] /\ UNCHANGED <<keepers, turn, hq, known, round, bounds>>
      BY <1>2 DEF Vanishes
    <2> HIDE DEF b
    <2> QED  BY <1>1, <2>1, <2>2, <2>3, ContainerKeeps
  <1>3. CASE GrowsLate(l)
    <2> DEFINE b == [box[l] EXCEPT !.late = TRUE]
    <2>1. /\ b \in BoxRow /\ b.run = box[l].run /\ b.state = "up" /\ b.kept = box[l].kept
      BY <1>1 DEF BoxRow
    <2>2. box' = [box EXCEPT ![l] = b] /\ UNCHANGED <<keepers, turn, hq, known, round, bounds>>
      BY <1>3 DEF GrowsLate, Inv, TypeOK
    <2> HIDE DEF b
    <2> QED  BY <1>1, <2>1, <2>2, ContainerKeeps
  <1>4. ASSUME NEW how \in ExitsAs, Exits(l, how)
        PROVE  Inv'
    <2> DEFINE b == Stopped(l, "exited", how)
    <2>1. how \in Ends BY DEF Ends, ConstantsFit
    <2>2. /\ b \in BoxRow /\ b.run = box[l].run /\ b.state = "exited" /\ b.how = how
          /\ b.kept = FALSE
      BY <1>1, <2>1
    <2>3. box' = [box EXCEPT ![l] = b] /\ UNCHANGED <<keepers, turn, hq, known, round, bounds>>
      BY <1>4 DEF Exits
    <2> HIDE DEF b
    <2> QED  BY <1>1, <2>1, <2>2, <2>3, ContainerKeeps
  <1> QED  BY <1>2, <1>3, <1>4

---------------------------------------------------------------------------
(* The runner's round.                                                     *)

LEMMA HearStopsKeeps ==
  ASSUME ConstantsFit, Inv, HearStops
  PROVE  Inv'
  <1>1. PICK heard \in SUBSET stops, reached \in BOOLEAN, failing \in SUBSET watching :
          LET told == (stopping \cup (IF reached THEN heard ELSE {})) \cap WatchedRuns
              mine == {l \in watching : box[l].run \in told}
          IN  /\ failing \subseteq mine
              /\ stops' = IF reached THEN {} ELSE stops
              /\ box' = Killed(mine \ failing)
              /\ stopping' = IF failing = {} THEN {} ELSE told
    BY DEF HearStops
  <1>2. /\ at = "stops" /\ at' = "check"
        /\ UNCHANGED <<turn, line, handed, ended, lease, keepers, watching, withItem, room, hand,
                       bounds>>
    BY DEF HearStops
  <1>3. PICK S \in SUBSET Ids : box' = Killed(S)
    BY <1>1 DEF Inv, TypeOK
  <1>4. stops' \subseteq stops /\ stopping' \subseteq stopping \cup stops
    BY <1>1
  <1>5. /\ box' \in [Ids -> BoxRow]
        /\ \A l \in Ids : /\ box'[l].run = box[l].run
                          /\ \/ box'[l] = box[l]
                             \/ /\ box[l].state = "up" /\ box'[l].state = "exited"
                                /\ box'[l].how = "Killed"
    <2>1. ASSUME NEW l \in Ids
          PROVE  /\ box'[l] \in BoxRow /\ box'[l].run = box[l].run
                 /\ \/ box'[l] = box[l]
                    \/ /\ box[l].state = "up" /\ box'[l].state = "exited"
                       /\ box'[l].how = "Killed"
      <3>1. box[l] \in BoxRow BY DEF Inv, TypeOK, BoxRow
      <3>2. box'[l] = IF l \in S /\ box[l].state = "up"
                        THEN Stopped(l, "exited", "Killed") ELSE box[l]
        BY <1>3 DEF Killed
      <3>3. /\ Stopped(l, "exited", "Killed") \in BoxRow
            /\ Stopped(l, "exited", "Killed").run = box[l].run
            /\ Stopped(l, "exited", "Killed").state = "exited"
            /\ Stopped(l, "exited", "Killed").how = "Killed"
        BY <3>1 DEF Stopped, BoxRow, States, Ends
      <3> QED  BY <3>1, <3>2, <3>3
    <2>2. box' \in [Ids -> BoxRow]
      <3>1. box' = [l \in Ids |-> IF l \in S /\ box[l].state = "up"
                                    THEN Stopped(l, "exited", "Killed") ELSE box[l]]
        BY <1>3 DEF Killed
      <3>2. \A l \in Ids : (IF l \in S /\ box[l].state = "up"
                              THEN Stopped(l, "exited", "Killed") ELSE box[l]) \in BoxRow
        BY <2>1, <3>1
      <3> QED  BY <3>1, <3>2
    <2> QED  BY <2>1, <2>2
  <1>6. TypeOK'
    BY <1>2, <1>4, <1>5 DEF Inv, TypeOK, BoxRow, Phases, bounds
  <1>7. Lists'
    BY <1>2 DEF Inv, Lists
  <1>8. Homes'
    BY <1>2, <1>4, <1>5 DEF Inv, TypeOK, Homes, InLine, Told
  <1>9. Boxes'
    <2>1. \A l \in Ids : box[l].state = "up" => ~(l >= lease)
      BY DEF Inv, Boxes, NoBox
    <2>2. hand # 0 => hand \in Ids /\ box'[hand] = box[hand]
      BY <1>5 DEF Inv, TypeOK, Boxes
    <2>3. "Killed" \in Ends BY DEF Ends
    <2> QED  BY <1>2, <1>5, <2>1, <2>2, <2>3 DEF Inv, Boxes
  <1>10. Sandboxes'
    <2>1. Up' \subseteq Up /\ \A l \in Up' : box'[l] = box[l]
      BY <1>5 DEF Up
    <2> QED  BY <1>2, <1>5, <2>1 DEF Inv, TypeOK, Sandboxes, Up, bounds
  <1> QED  BY <1>6, <1>7, <1>8, <1>9, <1>10 DEF Inv

LEMMA EndingKeeps ==
  ASSUME ConstantsFit, Inv, NEW l \in Ids, Ending(l)
  PROVE  Inv'
  <1> DEFINE now == IF box[l].state = "up" THEN Stopped(l, "exited", "Failed") ELSE box[l]
             r   == box[l].run
  <1>1. /\ l \in watching /\ at = "check"
        /\ UNCHANGED <<turn, keepers, stopping, at, room, hand, bounds>>
        /\ \/ /\ UNCHANGED hq \/ Report(r, l, now.how)
              /\ box' = [box EXCEPT ![l] = now] /\ UNCHANGED <<watching, withItem>>
           \/ /\ Report(r, l, now.how)
              /\ \E state \in {"gone", now.state} :
                   box' = [box EXCEPT ![l] = [now EXCEPT !.state = state]]
              /\ watching' = watching \ {l} /\ withItem' = withItem \ {l}
    BY DEF Ending
  <1>2. /\ box[l] \in BoxRow /\ box[l].state \in {"up", "exited", "gone"}
        /\ l < lease /\ r \in Runs
    BY <1>1 DEF Inv, TypeOK, Boxes, NoBox, BoxRow, Ids
  <1>3. /\ now \in BoxRow /\ now.run = r /\ now.state \in {"exited", "gone"} /\ now.how \in Ends
    BY <1>2 DEF Inv, Boxes, BoxRow, Stopped, States, Ends
  <1> HIDE DEF now
  <1>4. PICK b \in BoxRow : /\ b.run = r /\ b.state \in {"exited", "gone"} /\ b.how \in Ends
                            /\ box' = [box EXCEPT ![l] = b]
    <2>1. \A state \in {"gone", now.state} :
            /\ [now EXCEPT !.state = state] \in BoxRow /\ [now EXCEPT !.state = state].run = r
            /\ [now EXCEPT !.state = state].state = state
            /\ [now EXCEPT !.state = state].how = now.how
      BY <1>3 DEF BoxRow, States
    <2>2. CASE box' = [box EXCEPT ![l] = now]
      BY <1>3, <2>2
    <2>3. ASSUME NEW state \in {"gone", now.state},
                 box' = [box EXCEPT ![l] = [now EXCEPT !.state = state]]
          PROVE  \E b \in BoxRow : /\ b.run = r /\ b.state \in {"exited", "gone"} /\ b.how \in Ends
                                   /\ box' = [box EXCEPT ![l] = b]
      BY <1>3, <2>1, <2>3
    <2> QED  BY <1>1, <2>2, <2>3
  <1>5. /\ line' = line /\ stops' = stops /\ lease' = lease
        /\ handed' \in [Runs -> Ids \cup {0}]
        /\ ended' \in Seq(Reports) /\ Len(ended') <= Kept
        /\ Lists'
        /\ \A q \in Runs : handed'[q] \in {0, handed[q]}
        /\ \A q \in Runs : Told(q)' # {} =>
             Told(q) # {} \/ (q = r /\ handed[q] # 0 /\ handed'[q] = 0)
    <2>1. CASE UNCHANGED hq
      BY <2>1 DEF hq, Inv, TypeOK, Lists, Told, Reports
    <2>2. CASE Report(r, l, now.how)
      <3> HIDE DEF r
      <3> QED  BY <1>2, <1>3, <2>2, Reported DEF Inv
    <2> QED  BY <1>1, <2>1, <2>2
  <1>6. /\ box' \in [Ids -> BoxRow] /\ box'[l] = b /\ \A k \in Ids \ {l} : box'[k] = box[k]
        /\ \A k \in Ids : box'[k].run = box[k].run
    BY <1>4 DEF Inv, TypeOK, BoxRow
  <1>7. /\ watching' \subseteq watching /\ withItem' \subseteq withItem /\ withItem' \subseteq watching'
        /\ \A k \in Ids \ {l} : /\ k \in watching => k \in watching'
                                /\ k \in withItem => k \in withItem'
    BY <1>1 DEF Inv, TypeOK
  <1>8. TypeOK'
    BY <1>1, <1>5, <1>6, <1>7 DEF Inv, TypeOK, BoxRow, Reports, bounds
  <1>9. Homes'
    <2> SUFFICES ASSUME NEW q \in Runs
                 PROVE  /\ InLine(q)' => handed'[q] = 0 /\ Told(q)' = {}
                        /\ handed'[q] # 0 => Told(q)' = {} /\ box'[handed'[q]].run = q
                        /\ q \in stops' => turn'[q] = "Over" /\ ~InLine(q)' /\ handed'[q] = 0
                        /\ q \in stopping' => turn'[q] = "Over"
      BY DEF Homes
    <2>1. InLine(q)' <=> InLine(q)
      BY <1>5 DEF InLine
    <2>2. handed'[q] # 0 => handed'[q] = handed[q] /\ box'[handed'[q]].run = box[handed[q]].run
      BY <1>5, <1>6
    <2> QED  BY <1>1, <1>5, <2>1, <2>2 DEF Inv, Homes
  <1>10. Boxes'
    <2>1. hand # 0 => hand \in Ids /\ hand # l
      BY <1>2 DEF Inv, TypeOK, Boxes
    <2>2. ASSUME NEW k \in Ids
          PROVE  /\ k >= lease' => box'[k] = NoBox
                 /\ k < lease' => box'[k].run \in Runs
                 /\ box'[k].state \in {"exited", "gone"} => box'[k].how \in Ends
                 /\ k \in watching' => box'[k].state \in {"up", "exited", "gone"}
      <3>1. CASE k = l
        <4>1. ~(l >= lease) BY <1>2 DEF Inv, TypeOK, Ids
        <4> QED  BY <1>2, <1>4, <1>5, <1>6, <3>1, <4>1
      <3>2. CASE k # l BY <1>5, <1>6, <1>7, <3>2 DEF Inv, Boxes
      <3> QED  BY <3>1, <3>2
    <2> QED  BY <1>1, <1>6, <2>1, <2>2 DEF Inv, Boxes
  <1>11. Sandboxes'
    <2>1. /\ Up' \subseteq Up \ {l} /\ \A k \in Up' : box'[k] = box[k]
      BY <1>4, <1>6 DEF Up
    <2>2. Up' \subseteq Ids /\ withItem \subseteq Ids
      BY DEF Up, Inv, TypeOK
    <2> QED  BY <1>1, <1>6, <1>7, <2>1, <2>2 DEF Inv, Sandboxes, bounds
  <1> QED  BY <1>5, <1>8, <1>9, <1>10, <1>11 DEF Inv

LEMMA SweepKeeps ==
  ASSUME ConstantsFit, Inv, Sweep
  PROVE  Inv'
  <1>1. PICK gone \in SUBSET {i \in keepers : ~InUse(i)} : keepers' = keepers \ gone
    BY DEF Sweep
  <1>2. /\ at' = "fill" /\ room' = RoomLeft
        /\ UNCHANGED <<turn, hq, box, known, hand, bounds>>
    BY DEF Sweep
  <1>3. RoomLeft \in 0..Room
    <2>1. IsFiniteSet(watching)
      <3>1. IsFiniteSet(Ids) BY FS_Interval DEF Ids, ConstantsFit
      <3> QED  BY <3>1, FS_Subset DEF Inv, TypeOK
    <2>2. Cardinality(watching) \in Nat
      BY <2>1, FS_CardinalityType
    <2> QED  BY <2>2 DEF RoomLeft, ConstantsFit
  <1> USE DEF hq, known, bounds
  <1>4. TypeOK'
    BY <1>1, <1>2, <1>3 DEF Inv, TypeOK, Phases
  <1>5. Lists' /\ Homes' /\ Boxes'
    BY <1>2 DEF Inv, Lists, Homes, Boxes, InLine, Told
  <1>6. Sandboxes'
    BY <1>1, <1>2 DEF Inv, Sandboxes, Up, InUse
  <1> QED  BY <1>4, <1>5, <1>6 DEF Inv

LEMMA AskNextKeeps ==
  ASSUME ConstantsFit, Inv, AskNext
  PROVE  Inv'
  <1>1. /\ at = "fill" /\ hand = 0 /\ room > 0 /\ line # <<>> /\ lease <= MaxLeases /\ HandOut
        /\ box' = [box EXCEPT ![lease].run = Head(line), ![lease].state = "held"]
        /\ \/ hand' = lease /\ room' = room - 1 /\ at' = at
           \/ hand' = 0 /\ room' = 0 /\ at' = "stops"
        /\ UNCHANGED <<turn, keepers, known, bounds>>
    BY DEF AskNext
  <1>2. lease \in Ids
    BY <1>1 DEF Inv, TypeOK, Ids, ConstantsFit
  <1>3. PICK q0 : q0 = Head(line)
    OBVIOUS
  <1>4. /\ q0 \in Runs /\ InLine(q0) /\ ~InLine(q0)'
        /\ line' \in Seq(Runs) /\ handed' \in [Runs -> Ids \cup {0}]
        /\ lease' = lease + 1 /\ ended' = ended /\ stops' = stops
        /\ Lists'
        /\ handed'[q0] = lease
        /\ \A q \in Runs \ {q0} : (InLine(q)' <=> InLine(q)) /\ handed'[q] = handed[q]
    BY <1>1, <1>2, <1>3, HandedOut DEF Inv
  <1>5. /\ box[lease] = NoBox /\ box \in [Ids -> BoxRow]
    <2>1. lease >= lease BY DEF Inv, TypeOK
    <2> QED  BY <1>2, <2>1 DEF Inv, TypeOK, Boxes, BoxRow
  <1>6. /\ box' \in [Ids -> BoxRow]
        /\ box'[lease].run = q0 /\ box'[lease].state = "held" /\ box'[lease].kept = FALSE
        /\ \A k \in Ids \ {lease} : box'[k] = box[k]
    BY <1>1, <1>2, <1>3, <1>4, <1>5 DEF BoxRow, NoBox, States
  <1>7. TypeOK'
    <2>1. lease' \in 1..(MaxLeases + 1) /\ hand' \in Ids \cup {0}
      BY <1>1, <1>2, <1>4 DEF Ids, ConstantsFit
    <2>2. room' \in 0..Room /\ at' \in Phases
      BY <1>1 DEF Inv, TypeOK, Phases, ConstantsFit
    <2>3. ended' \in Seq(Reports) /\ Len(ended') <= Kept /\ stops' \subseteq Runs
      BY <1>4 DEF Inv, TypeOK, Reports
    <2> QED  BY <1>1, <1>4, <1>6, <2>1, <2>2, <2>3 DEF Inv, TypeOK, BoxRow, Reports, known, bounds
  <1>8. Homes'
    <2> SUFFICES ASSUME NEW q \in Runs
                 PROVE  /\ InLine(q)' => handed'[q] = 0 /\ Told(q)' = {}
                        /\ handed'[q] # 0 => Told(q)' = {} /\ box'[handed'[q]].run = q
                        /\ q \in stops' => turn'[q] = "Over" /\ ~InLine(q)' /\ handed'[q] = 0
                        /\ q \in stopping' => turn'[q] = "Over"
      BY DEF Homes
    <2>1. Told(q)' = Told(q) /\ turn' = turn /\ stopping' = stopping
      BY <1>1, <1>4 DEF Told, known
    <2>2. CASE q = q0
      BY <1>4, <1>6, <2>1, <2>2 DEF Inv, Homes
    <2>3. CASE q # q0
      <3>1. handed[q] # 0 => handed[q] \in Ids \ {lease}
        <4>1. handed[q] # 0 => handed[q] \in Ids /\ box[handed[q]].run = q
          BY DEF Inv, TypeOK, Homes
        <4> QED  BY <1>5, <4>1 DEF NoBox, ConstantsFit
      <3> QED  BY <1>4, <1>6, <2>1, <2>3, <3>1 DEF Inv, Homes
    <2> QED  BY <2>2, <2>3
  <1>9. Boxes'
    <2>1. ASSUME NEW k \in Ids
          PROVE  /\ k >= lease' => box'[k] = NoBox
                 /\ k < lease' => box'[k].run \in Runs
                 /\ box'[k].state \in {"exited", "gone"} => box'[k].how \in Ends
                 /\ k \in watching' => box'[k].state \in {"up", "exited", "gone"}
      <3>0. watching' = watching /\ lease \in Nat /\ k \in Nat
        BY <1>1 DEF known, Inv, TypeOK, Ids
      <3>1. CASE k = lease
        <4>1. lease \notin watching BY <1>2, <1>5 DEF Inv, Boxes, NoBox
        <4> QED  BY <1>4, <1>6, <3>0, <3>1, <4>1
      <3>2. CASE k # lease
        BY <1>4, <1>6, <3>0, <3>2 DEF Inv, Boxes
      <3> QED  BY <3>1, <3>2
    <2>2. hand' # 0 => box'[hand'].state = "held"
      BY <1>1, <1>6
    <2> QED  BY <2>1, <2>2 DEF Boxes
  <1>10. Sandboxes'
    <2>1. /\ Up' = Up /\ \A k \in Up : box'[k] = box[k]
      BY <1>2, <1>5, <1>6 DEF Up, NoBox
    <2>2. \A k \in withItem : k \in Ids /\ box'[k] = box[k]
      <3>1. lease \notin watching BY <1>2, <1>5 DEF Inv, Boxes, NoBox
      <3> QED  BY <1>6, <3>1 DEF Inv, TypeOK
    <2>3. /\ watching' = watching /\ withItem' = withItem /\ keepers' = keepers /\ crashes' = crashes
      BY <1>1 DEF known, bounds
    <2>4. ASSUME crashes = 0
          PROVE  /\ Up' \subseteq watching'
                 /\ \A l \in Up' : box'[l].kept => l \in withItem' /\ ItemOf[box'[l].run] \in keepers'
                 /\ \A l, k \in withItem' : ItemOf[box'[l].run] = ItemOf[box'[k].run] => l = k
      BY <2>1, <2>2, <2>3, <2>4 DEF Inv, Sandboxes
    <2> QED  BY <2>3, <2>4 DEF Sandboxes
  <1> QED  BY <1>4, <1>7, <1>8, <1>9, <1>10 DEF Inv

LEMMA RoundDoneKeeps ==
  ASSUME ConstantsFit, Inv, RoundDone
  PROVE  Inv'
  <1> USE DEF RoundDone, hq, docker, known, bounds
  <1>1. TypeOK'
    BY DEF Inv, TypeOK, Phases, ConstantsFit
  <1>2. Lists' /\ Homes' /\ Boxes' /\ Sandboxes'
    BY DEF Inv, Lists, Homes, Boxes, Sandboxes, InLine, Told, Up
  <1> QED  BY <1>1, <1>2 DEF Inv

LEMMA BeginKeeps ==
  ASSUME ConstantsFit, Inv, Begin
  PROVE  Inv'
  <1>1. PICK i \in SandboxFor(hand) :
          /\ box' = [box EXCEPT ![hand].state = "up", ![hand].kept = (i # NoItem)]
          /\ keepers' = keepers \cup ({i} \ {NoItem})
          /\ withItem' = IF i # NoItem THEN withItem \cup {hand} ELSE withItem
    BY DEF Begin
  <1>2. /\ at = "fill" /\ hand # 0 /\ hand' = 0 /\ watching' = watching \cup {hand}
        /\ UNCHANGED <<turn, hq, stopping, at, room, bounds>>
    BY DEF Begin
  <1>3. /\ hand \in Ids /\ box[hand].state = "held" /\ hand < lease /\ box[hand].run \in Runs
        /\ hand \notin watching /\ box[hand] \in BoxRow /\ lease \in Nat
    BY <1>2 DEF Inv, TypeOK, Boxes, NoBox, BoxRow, Ids
  <1>4. /\ box' \in [Ids -> BoxRow]
        /\ box'[hand].run = box[hand].run /\ box'[hand].state = "up" /\ box'[hand].kept = (i # NoItem)
        /\ \A k \in Ids \ {hand} : box'[k] = box[k]
    BY <1>1, <1>3 DEF Inv, TypeOK, BoxRow, States
  <1>5. /\ i # NoItem => i = ItemOf[box[hand].run] /\ ~InUse(i) /\ i \in Items
    BY <1>1, <1>3 DEF SandboxFor, ConstantsFit
  <1> USE DEF hq, bounds
  <1>6. TypeOK'
    <2>1. keepers' \subseteq Items /\ withItem' \subseteq watching' /\ watching' \subseteq Ids
      BY <1>1, <1>2, <1>3, <1>5 DEF Inv, TypeOK
    <2> QED  BY <1>2, <1>4, <2>1 DEF Inv, TypeOK, BoxRow
  <1>7. Lists'
    BY <1>2 DEF Inv, Lists
  <1>8. \A k \in Ids : box'[k].run = box[k].run
    BY <1>4
  <1>9. Homes'
    BY <1>2, <1>8 DEF Inv, TypeOK, Homes, InLine, Told
  <1>10. Boxes'
    <2>1. ASSUME NEW k \in Ids
          PROVE  /\ k >= lease' => box'[k] = NoBox
                 /\ k < lease' => box'[k].run \in Runs
                 /\ box'[k].state \in {"exited", "gone"} => box'[k].how \in Ends
                 /\ k \in watching' => box'[k].state \in {"up", "exited", "gone"}
      <3>1. CASE k = hand
        <4>1. ~(hand >= lease) BY <1>3 DEF Ids
        <4> QED  BY <1>2, <1>3, <1>4, <3>1, <4>1
      <3>2. CASE k # hand BY <1>2, <1>4, <3>2 DEF Inv, Boxes
      <3> QED  BY <3>1, <3>2
    <2> QED  BY <1>2, <2>1 DEF Boxes
  <1>11. Sandboxes'
    <2> SUFFICES ASSUME crashes = 0
                 PROVE  /\ Up' \subseteq watching'
                        /\ \A l \in Up' : box'[l].kept =>
                             l \in withItem' /\ ItemOf[box'[l].run] \in keepers'
                        /\ \A l, k \in withItem' : ItemOf[box'[l].run] = ItemOf[box'[k].run] => l = k
      BY <1>2 DEF Sandboxes
    <2>1. /\ Up \subseteq watching /\ withItem \subseteq watching /\ watching \subseteq Ids
          /\ \A l \in Up : box[l].kept => l \in withItem /\ ItemOf[box[l].run] \in keepers
          /\ \A l, k \in withItem : ItemOf[box[l].run] = ItemOf[box[k].run] => l = k
      BY DEF Inv, TypeOK, Sandboxes
    <2>2. Up' = Up \cup {hand} /\ hand \notin Up
      BY <1>3, <1>4 DEF Up
    <2>3. Up' \subseteq watching'
      BY <1>2, <2>1, <2>2
    <2>4. ASSUME NEW l \in Up', box'[l].kept
          PROVE  l \in withItem' /\ ItemOf[box'[l].run] \in keepers'
      <3>1. CASE l = hand
        <4>1. i # NoItem BY <1>4, <2>4, <3>1
        <4> QED  BY <1>1, <1>4, <1>5, <3>1, <4>1
      <3>2. CASE l # hand
        <4>1. l \in Up /\ box'[l] = box[l] BY <1>4, <2>1, <2>2, <3>2
        <4>2. box[l].kept BY <2>4, <4>1
        <4>3. l \in withItem /\ ItemOf[box[l].run] \in keepers BY <2>1, <4>1, <4>2
        <4>4. withItem \subseteq withItem' /\ keepers \subseteq keepers' BY <1>1
        <4> QED  BY <4>1, <4>3, <4>4
      <3> QED  BY <3>1, <3>2
    <2>5. ASSUME NEW l \in withItem', NEW k \in withItem', ItemOf[box'[l].run] = ItemOf[box'[k].run]
          PROVE  l = k
      <3>1. l \in Ids /\ k \in Ids /\ ItemOf[box[l].run] = ItemOf[box[k].run]
        BY <1>1, <1>3, <1>8, <2>1, <2>5
      <3>2. CASE i = NoItem BY <1>1, <2>1, <3>1, <3>2
      <3>3. CASE i # NoItem
        <4>1. \A m \in withItem : ItemOf[box[m].run] # ItemOf[box[hand].run]
          BY <1>5, <3>3 DEF InUse
        <4>2. withItem' = withItem \cup {hand} BY <1>1, <3>3
        <4> QED  BY <2>1, <2>5, <3>1, <4>1, <4>2
      <3> QED  BY <3>2, <3>3
    <2> QED  BY <2>3, <2>4, <2>5
  <1> QED  BY <1>6, <1>7, <1>9, <1>10, <1>11 DEF Inv

LEMMA NeverRanKeeps ==
  ASSUME ConstantsFit, Inv, NeverRan
  PROVE  Inv'
  <1> DEFINE r == box[hand].run
  <1>1. /\ at = "fill" /\ hand # 0 /\ hand' = 0
        /\ \E i \in SandboxFor(hand) : keepers' = keepers \cup ({i} \ {NoItem})
        /\ box' = [box EXCEPT ![hand].state = "gone", ![hand].how = "NeverStarted"]
        /\ UNCHANGED hq \/ Report(r, hand, "NeverStarted")
        /\ UNCHANGED <<turn, known, at, room, bounds>>
    BY DEF NeverRan
  <1>2. /\ hand \in Ids /\ box[hand].state = "held" /\ hand < lease /\ r \in Runs
        /\ hand \notin watching /\ box[hand] \in BoxRow /\ lease \in Nat
    BY <1>1 DEF Inv, TypeOK, Boxes, NoBox, BoxRow, Ids
  <1>3. /\ box' \in [Ids -> BoxRow]
        /\ box'[hand].run = r /\ box'[hand].state = "gone" /\ box'[hand].how = "NeverStarted"
        /\ \A k \in Ids \ {hand} : box'[k] = box[k]
    BY <1>1, <1>2 DEF Inv, TypeOK, BoxRow, States, Ends
  <1>4. keepers \subseteq keepers' /\ keepers' \subseteq Items
    BY <1>1, <1>2 DEF SandboxFor, ConstantsFit, Inv, TypeOK
  <1>5. /\ line' = line /\ stops' = stops /\ lease' = lease
        /\ handed' \in [Runs -> Ids \cup {0}]
        /\ ended' \in Seq(Reports) /\ Len(ended') <= Kept
        /\ Lists'
        /\ \A q \in Runs : handed'[q] \in {0, handed[q]}
        /\ \A q \in Runs : Told(q)' # {} =>
             Told(q) # {} \/ (q = r /\ handed[q] # 0 /\ handed'[q] = 0)
    <2>1. CASE UNCHANGED hq
      BY <2>1 DEF hq, Inv, TypeOK, Lists, Told, Reports
    <2>2. CASE Report(r, hand, "NeverStarted")
      <3>1. "NeverStarted" \in Ends BY DEF Ends
      <3>2. PICK q0 : q0 = r OBVIOUS
      <3>3. PICK l0 : l0 = hand OBVIOUS
      <3>4. Report(q0, l0, "NeverStarted") /\ q0 \in Runs /\ l0 \in Ids
        BY <1>2, <2>2, <3>2, <3>3
      <3> HIDE DEF r
      <3> QED  BY <3>1, <3>2, <3>4, Reported DEF Inv
    <2> QED  BY <1>1, <2>1, <2>2
  <1>6. TypeOK'
    BY <1>1, <1>3, <1>4, <1>5 DEF Inv, TypeOK, BoxRow, Reports, known, bounds
  <1>7. \A k \in Ids : box'[k].run = box[k].run
    BY <1>2, <1>3
  <1>8. Homes'
    <2> SUFFICES ASSUME NEW q \in Runs
                 PROVE  /\ InLine(q)' => handed'[q] = 0 /\ Told(q)' = {}
                        /\ handed'[q] # 0 => Told(q)' = {} /\ box'[handed'[q]].run = q
                        /\ q \in stops' => turn'[q] = "Over" /\ ~InLine(q)' /\ handed'[q] = 0
                        /\ q \in stopping' => turn'[q] = "Over"
      BY DEF Homes
    <2>1. (InLine(q)' <=> InLine(q)) /\ stopping' = stopping /\ turn' = turn
      BY <1>1, <1>5 DEF InLine, known
    <2>2. handed'[q] # 0 => handed'[q] = handed[q] /\ box'[handed'[q]].run = box[handed[q]].run
      BY <1>5, <1>7
    <2> QED  BY <1>5, <2>1, <2>2 DEF Inv, Homes
  <1>9. Boxes'
    <2>1. ASSUME NEW k \in Ids
          PROVE  /\ k >= lease' => box'[k] = NoBox
                 /\ k < lease' => box'[k].run \in Runs
                 /\ box'[k].state \in {"exited", "gone"} => box'[k].how \in Ends
                 /\ k \in watching' => box'[k].state \in {"up", "exited", "gone"}
      <3>0. watching' = watching BY <1>1 DEF known
      <3>1. CASE k = hand
        <4>1. ~(hand >= lease) BY <1>2 DEF Ids
        <4> QED  BY <1>2, <1>3, <1>5, <3>0, <3>1, <4>1 DEF Ends
      <3>2. CASE k # hand BY <1>3, <1>5, <3>0, <3>2 DEF Inv, Boxes
      <3> QED  BY <3>1, <3>2
    <2> QED  BY <1>1, <2>1 DEF Boxes
  <1>10. Sandboxes'
    <2>1. Up' = Up /\ \A k \in Up : box'[k] = box[k]
      BY <1>2, <1>3 DEF Up
    <2>2. withItem' = withItem /\ watching' = watching /\ crashes' = crashes /\ withItem \subseteq Ids
      BY <1>1 DEF known, bounds, Inv, TypeOK
    <2>3. ASSUME crashes = 0
          PROVE  /\ Up' \subseteq watching'
                 /\ \A l \in Up' : box'[l].kept => l \in withItem' /\ ItemOf[box'[l].run] \in keepers'
                 /\ \A l, k \in withItem' : ItemOf[box'[l].run] = ItemOf[box'[k].run] => l = k
      BY <1>4, <1>7, <2>1, <2>2, <2>3 DEF Inv, Sandboxes
    <2> QED  BY <2>2, <2>3 DEF Sandboxes
  <1> QED  BY <1>5, <1>6, <1>8, <1>9, <1>10 DEF Inv

LEMMA CrashKeeps ==
  ASSUME ConstantsFit, Inv, Crash
  PROVE  Inv'
  <1>1. /\ crashes < MaxCrashes /\ crashes' = crashes + 1
        /\ \/ UNCHANGED docker
           \/ /\ hand # 0
              /\ box' = [box EXCEPT ![hand] = Stopped(hand, "exited", "NeverStarted")]
              /\ \E i \in SandboxFor(hand) : keepers' = keepers \cup ({i} \ {NoItem})
        /\ \/ watching' = {l \in Ids : box'[l].state \in {"up", "exited"}}
           \/ MayNotList /\ watching' = {}
        /\ withItem' = {} /\ stopping' = {}
        /\ at' = "stops" /\ room' = 0 /\ hand' = 0
        /\ UNCHANGED <<turn, hq, restarts>>
    BY DEF Crash
  <1>2. \A k \in Ids : box[k] \in BoxRow
    BY DEF Inv, TypeOK, BoxRow
  <1>3. /\ box' \in [Ids -> BoxRow] /\ keepers' \subseteq Items
        /\ \A k \in Ids : \/ box'[k] = box[k]
                          \/ /\ box[k].state = "held" /\ box'[k].run = box[k].run
                             /\ box'[k].state = "exited" /\ box'[k].how = "NeverStarted"
    <2>1. CASE UNCHANGED docker
      BY <2>1 DEF docker, Inv, TypeOK, BoxRow
    <2>2. CASE /\ hand # 0
               /\ box' = [box EXCEPT ![hand] = Stopped(hand, "exited", "NeverStarted")]
               /\ \E i \in SandboxFor(hand) : keepers' = keepers \cup ({i} \ {NoItem})
      <3>1. /\ hand \in Ids /\ box[hand].state = "held" /\ box[hand].run \in Runs
        BY <2>2 DEF Inv, TypeOK, Boxes, NoBox, Ids
      <3>2. /\ Stopped(hand, "exited", "NeverStarted") \in BoxRow
            /\ Stopped(hand, "exited", "NeverStarted").run = box[hand].run
            /\ Stopped(hand, "exited", "NeverStarted").state = "exited"
            /\ Stopped(hand, "exited", "NeverStarted").how = "NeverStarted"
        BY <1>2, <3>1 DEF Stopped, BoxRow, States, Ends
      <3>3. keepers' \subseteq Items
        BY <2>2, <3>1 DEF SandboxFor, ConstantsFit, Inv, TypeOK
      <3>4. /\ box' \in [Ids -> BoxRow] /\ box'[hand] = Stopped(hand, "exited", "NeverStarted")
            /\ \A k \in Ids \ {hand} : box'[k] = box[k]
        BY <2>2, <3>1, <3>2 DEF Inv, TypeOK, BoxRow
      <3> QED  BY <3>1, <3>2, <3>3, <3>4
    <2> QED  BY <1>1, <2>1, <2>2
  <1>4. \A k \in Ids : box'[k].run = box[k].run
    BY <1>3
  <1>5. watching' \subseteq {l \in Ids : box'[l].state \in {"up", "exited"}}
    BY <1>1
  <1> USE DEF hq
  <1>6. TypeOK'
    BY <1>1, <1>3, <1>5 DEF Inv, TypeOK, BoxRow, Phases, ConstantsFit
  <1>7. Lists'
    BY <1>1 DEF Inv, Lists
  <1>8. Homes'
    BY <1>1, <1>4 DEF Inv, TypeOK, Homes, InLine, Told
  <1>9. Boxes'
    <2>1. \A k \in Ids : k >= lease => box[k].state # "held"
      BY DEF Inv, Boxes, NoBox
    <2>2. "NeverStarted" \in Ends BY DEF Ends
    <2> QED  BY <1>1, <1>3, <1>4, <1>5, <2>1, <2>2 DEF Inv, Boxes
  <1>10. Sandboxes'
    BY <1>1 DEF Sandboxes, Inv, TypeOK
  <1> QED  BY <1>6, <1>7, <1>8, <1>9, <1>10 DEF Inv

LEMMA StepKeeps == ASSUME ConstantsFit PROVE Inv /\ [Next]_vars => Inv'
  <1> SUFFICES ASSUME Inv, [Next]_vars PROVE Inv'
    OBVIOUS
  <1>1. ASSUME NEW r \in Runs, Settle(r) \/ WrapUp(r) \/ LetGo(r)
        PROVE  Inv'
    <2>1. turn[r] # "Over" /\ UNCHANGED <<hq, docker, known, round, bounds>>
      BY <1>1 DEF Settle, WrapUp, LetGo
    <2>2. \E to \in Stages : turn' = [turn EXCEPT ![r] = to]
      BY <1>1 DEF Settle, WrapUp, LetGo, Stages
    <2> QED  BY <2>1, <2>2, StageKeeps
  <1>2. CASE EngineStep
    BY <1>1, <1>2, LaunchKeeps, EndTurnKeeps, HqRestartsKeeps DEF EngineStep
  <1>3. CASE DockerStep
    BY <1>3, DockerKeeps
  <1>4. CASE Round
    BY <1>4, HearStopsKeeps, EndingKeeps, SweepKeeps, AskNextKeeps, RoundDoneKeeps, BeginKeeps,
       NeverRanKeeps DEF Round
  <1>5. CASE Crash
    BY <1>5, CrashKeeps
  <1>6. CASE UNCHANGED vars
    <2> USE <1>6 DEF vars, hq, docker, known, round, bounds
    <2>1. TypeOK' /\ Lists'
      BY DEF Inv, TypeOK, Lists
    <2>2. Homes' /\ Boxes' /\ Sandboxes'
      BY DEF Inv, Homes, Boxes, Sandboxes, InLine, Told, Up
    <2> QED  BY <2>1, <2>2 DEF Inv
  <1> QED  BY <1>2, <1>3, <1>4, <1>5, <1>6 DEF Next

LEMMA Beginning == ASSUME ConstantsFit PROVE Init => Inv
  <1> SUFFICES ASSUME Init PROVE Inv
    OBVIOUS
  <1>1. Len(line) = 0 /\ Len(ended) = 0 /\ line \in Seq(Runs) /\ ended \in Seq(Reports)
    BY DEF Init
  <1>2. NoBox \in BoxRow
    BY DEF NoBox, BoxRow, States
  <1>3. TypeOK
    <2>1. box \in [Ids -> BoxRow] BY <1>2 DEF Init
    <2>2. lease \in 1..(MaxLeases + 1) /\ room \in 0..Room /\ restarts \in 0..MaxRestarts
          /\ crashes \in 0..MaxCrashes /\ Len(ended) <= Kept
      BY <1>1 DEF Init, ConstantsFit
    <2> QED  BY <1>1, <2>1, <2>2 DEF Init, TypeOK, BoxRow, Stages, Phases, Reports
  <1>4. Lists
    BY <1>1 DEF Lists
  <1>5. Homes
    BY <1>1 DEF Init, Homes, InLine, Told
  <1>6. Boxes /\ Sandboxes
    BY DEF Init, Boxes, Sandboxes, Up, NoBox, Ids, ConstantsFit
  <1> QED  BY <1>3, <1>4, <1>5, <1>6 DEF Inv

LEMMA Inductive == ASSUME ConstantsFit PROVE Spec => []Inv
  BY Beginning, StepKeeps, PTL DEF Spec

---------------------------------------------------------------------------
(* Safety.                                                                 *)

\* The types are kept: the runner is never asked for more than it has room for, and HQ keeps no
\* more ends than it may.
THEOREM TypesKept == ASSUME ConstantsFit PROVE Spec => []TypeOK
  <1>1. Inv => TypeOK
    BY DEF Inv
  <1> QED  BY <1>1, Inductive, PTL

\* At most one place of a list names a turn.
LEMMA AtMostOne ==
  ASSUME NEW m \in Nat, NEW S \in SUBSET (1..m), \A i, j \in S : i = j
  PROVE  Cardinality(S) \in {0, 1} /\ (S = {} => Cardinality(S) = 0)
  <1>1. CASE S = {}
    BY <1>1, FS_EmptySet
  <1>2. ASSUME NEW i \in S
        PROVE  Cardinality(S) = 1 /\ S # {}
    <2>1. S = {i} BY <1>2
    <2> QED  BY <2>1, FS_Singleton
  <1> QED  BY <1>1, <1>2

\* However calls are lost and whoever restarts, HQ has a turn in one place, and a lease names the
\* turn it was given for (remote.rs: `start`, `next`, `report`, `stop`); and until the runner
\* restarts, no two running turns share an item's sandbox, nor is it let go under one.
THEOREM OneOfEach == ASSUME ConstantsFit PROVE Spec => []OnePlaceOneSandbox
  <1>1. ASSUME Inv PROVE OnePlace
    <2> SUFFICES ASSUME NEW r \in Runs
                 PROVE  /\ Cardinality({n \in 1..Len(line) : line[n] = r} )
                             + (IF handed[r] # 0 THEN 1 ELSE 0) + Cardinality(Told(r)) <= 1
                        /\ r \in stops => ~InLine(r) /\ handed[r] = 0
                        /\ handed[r] # 0 => box[handed[r]].run = r
      BY DEF OnePlace
    <2> DEFINE here == {n \in 1..Len(line) : line[n] = r}
    <2>1. Len(line) \in Nat /\ Len(ended) \in Nat
      BY <1>1, LenProperties DEF Inv, TypeOK
    <2>2. here \in SUBSET (1..Len(line)) /\ Told(r) \in SUBSET (1..Len(ended))
          /\ (\A i, j \in here : i = j) /\ (\A i, j \in Told(r) : i = j)
      BY <1>1 DEF Inv, Lists, Told
    <2>3. here = {} <=> ~InLine(r)
      BY DEF InLine
    <2> HIDE DEF here
    <2>4. Cardinality(here) \in {0, 1} /\ (here = {} => Cardinality(here) = 0)
      BY <2>1, <2>2, AtMostOne
    <2>5. Cardinality(Told(r)) \in {0, 1} /\ (Told(r) = {} => Cardinality(Told(r)) = 0)
      BY <2>1, <2>2, AtMostOne
    <2>6. Cardinality(here) + (IF handed[r] # 0 THEN 1 ELSE 0) + Cardinality(Told(r)) <= 1
      <3>1. CASE InLine(r) BY <1>1, <2>4, <2>5, <3>1 DEF Inv, Homes
      <3>2. CASE ~InLine(r) /\ handed[r] # 0 BY <1>1, <2>3, <2>4, <2>5, <3>2 DEF Inv, Homes
      <3>3. CASE ~InLine(r) /\ handed[r] = 0 BY <2>3, <2>4, <2>5, <3>3
      <3> QED  BY <3>1, <3>2, <3>3
    <2> QED  BY <1>1, <2>6 DEF Inv, Homes, here
  <1>2. ASSUME Inv PROVE SandboxesWhileKnown
    BY <1>2 DEF Inv, Sandboxes, SandboxesWhileKnown, OneSandboxEach
  <1>3. Inv => OnePlaceOneSandbox
    BY <1>1, <1>2 DEF OnePlaceOneSandbox
  <1> QED  BY <1>3, Inductive, PTL

\* Nothing but the container of a turn that is over is killed as asked: not by a stop that is late
\* or tried again, after another attempt has begun (runner.rs, `stop_asked`).
THEOREM NoAttemptIsCut == ASSUME ConstantsFit PROVE Spec => OnlyTheOverAreKilled
  <1> DEFINE A == \A l \in Ids : box'[l].how = "Killed" /\ box[l].how # "Killed"
                    => turn[box[l].run] = "Over"
  <1>1. Inv /\ [Next]_vars => [A]_vars
    <2> SUFFICES ASSUME Inv, Next, NEW l \in Ids, box'[l].how = "Killed", box[l].how # "Killed"
                 PROVE  turn[box[l].run] = "Over"
      OBVIOUS
    <2> USE DEF hq, docker, known, round, bounds
    <2>1. box' # box
      OBVIOUS
    <2>2. box \in [Ids -> BoxRow] /\ hand \in Ids \cup {0}
      BY DEF Inv, TypeOK, BoxRow
    <2>3. CASE HearStops
      <3>1. PICK heard \in SUBSET stops, reached \in BOOLEAN, failing \in SUBSET watching :
              LET told == (stopping \cup (IF reached THEN heard ELSE {})) \cap WatchedRuns
                  mine == {k \in watching : box[k].run \in told}
              IN  box' = Killed(mine \ failing)
        BY <2>3 DEF HearStops
      <3>2. box[l].run \in stopping \cup stops
        BY <3>1 DEF Killed
      <3> QED  BY <3>2 DEF Inv, TypeOK, Homes
    <2>4. ASSUME NEW k \in Ids, NEW state, NEW how, how # "Killed",
                 box' = [box EXCEPT ![k] = Stopped(k, state, how)]
          PROVE  FALSE
      <3>1. Stopped(k, state, how).how = how
        BY <2>2 DEF Stopped, BoxRow
      <3> QED  BY <2>2, <2>4, <3>1
    <2>5. CASE DockerStep
      BY <2>2, <2>4, <2>5 DEF DockerStep, Vanishes, GrowsLate, Exits, ConstantsFit, BoxRow
    <2>6. CASE \E k \in Ids : Ending(k)
      <3> PICK k \in Ids : Ending(k) BY <2>6
      <3> DEFINE now == IF box[k].state = "up" THEN Stopped(k, "exited", "Failed") ELSE box[k]
      <3>1. \/ box' = [box EXCEPT ![k] = now]
            \/ \E state \in {"gone", now.state} : box' = [box EXCEPT ![k] = [now EXCEPT !.state = state]]
        BY DEF Ending
      <3>2. now.how \in {"Failed", box[k].how} /\ now \in [run : Runs \cup {NoRun}, state : States,
              how : Ends \cup {"None"}, late : BOOLEAN, kept : BOOLEAN]
        BY <2>2 DEF Stopped, BoxRow, States, Ends
      <3> HIDE DEF now
      <3>3. ASSUME NEW state, box' = [box EXCEPT ![k] = [now EXCEPT !.state = state]]
            PROVE  FALSE
        <4>1. [now EXCEPT !.state = state].how = now.how
          BY <3>2
        <4> QED  BY <2>2, <3>2, <3>3, <4>1
      <3>4. CASE box' = [box EXCEPT ![k] = now]
        BY <2>2, <3>2, <3>4
      <3> QED  BY <3>1, <3>3, <3>4
    <2>7. CASE AskNext \/ Begin \/ NeverRan
      BY <2>2, <2>7 DEF AskNext, Begin, NeverRan, BoxRow
    <2>8. CASE Crash
      BY <2>1, <2>2, <2>4, <2>8 DEF Crash
    <2> QED  BY <2>1, <2>3, <2>5, <2>6, <2>7, <2>8
             DEF Next, EngineStep, Round, Launch, Settle, EndTurn, WrapUp, LetGo, HqRestarts,
                 Sweep, RoundDone
  <1> QED  BY <1>1, Inductive, PTL DEF Spec, OnlyTheOverAreKilled

---------------------------------------------------------------------------
(* What HQ tells the engine of a turn.                                     *)

LEMMA TheOnlyOne ==
  ASSUME NEW S, NEW n \in S, n \in Int, \A m \in S : m = n
  PROVE  First(S) = n
  <1>1. S = {n} OBVIOUS
  <1> QED  BY <1>1 DEF First

\* A turn that has an end is told of as it ended.
LEMMA AsItEnded ==
  ASSUME Lists, ended \in Seq(Reports), NEW q \in Runs, NEW n \in 1..Len(ended), ended[n].run = q
  PROVE  Told(q) # {} /\ Status(q) = ended[n].how
  <1>1. n \in Told(q) /\ \A m \in Told(q) : m = n
    BY DEF Lists, Told
  <1>2. PICK told : told = Told(q)
    OBVIOUS
  <1>3. First(told) = n
    <2>1. Len(ended) \in Nat BY LenProperties
    <2>2. n \in Int BY <2>1
    <2>3. n \in told /\ \A m \in told : m = n BY <1>1, <1>2
    <2> HIDE DEF First
    <2> QED  BY <2>2, <2>3, TheOnlyOne
  <1> QED  BY <1>1, <1>2, <1>3 DEF Status

LEMMA AsItEndedNext ==
  ASSUME Lists', ended' \in Seq(Reports), NEW q \in Runs, NEW n \in 1..Len(ended'), ended'[n].run = q
  PROVE  Told(q)' # {} /\ Status(q)' = ended'[n].how
  <1>1. n \in Told(q)' /\ \A m \in Told(q)' : m = n
    BY DEF Lists, Told
  <1>2. PICK told : told = Told(q)'
    OBVIOUS
  <1>3. First(told) = n
    <2>1. Len(ended') \in Nat BY LenProperties
    <2>2. n \in Int BY <2>1
    <2>3. n \in told /\ \A m \in told : m = n BY <1>1, <1>2
    <2> HIDE DEF First
    <2> QED  BY <2>2, <2>3, TheOnlyOne
  <1>4. First(Told(q))' = n
    BY <1>2, <1>3 DEF First
  <1> QED  BY <1>1, <1>4 DEF Status

\* A turn whose entries at HQ are what they were is told of as it was.
LEMMA ToldAsBefore ==
  ASSUME Lists, Lists', ended \in Seq(Reports), ended' \in Seq(Reports), NEW q \in Runs,
         \A n \in 1..Len(ended') : ended'[n].run = q => \E m \in 1..Len(ended) : ended'[n] = ended[m],
         \A m \in 1..Len(ended) : ended[m].run = q => \E n \in 1..Len(ended') : ended'[n] = ended[m],
         (handed'[q] # 0 \/ InLine(q)') <=> (handed[q] # 0 \/ InLine(q))
  PROVE  Status(q)' = Status(q) /\ (Told(q)' = {} <=> Told(q) = {})
  <1>1. CASE Told(q) # {}
    <2>1. PICK m \in 1..Len(ended) : ended[m].run = q BY <1>1 DEF Told
    <2>2. PICK n \in 1..Len(ended') : ended'[n] = ended[m] BY <2>1
    <2>3. Status(q) = ended[m].how BY <2>1, AsItEnded
    <2>4. Told(q)' # {} /\ Status(q)' = ended'[n].how BY <2>1, <2>2, AsItEndedNext
    <2> QED  BY <1>1, <2>2, <2>3, <2>4
  <1>2. CASE Told(q) = {}
    <2>1. Told(q)' = {}
      <3>1. \A m \in 1..Len(ended) : ended[m].run # q BY <1>2 DEF Told
      <3>2. \A n \in 1..Len(ended') : ended'[n].run # q BY <3>1
      <3> QED  BY <3>2 DEF Told
    <2>2. Status(q) = IF handed[q] # 0 \/ InLine(q) THEN "Running" ELSE "Gone"
      BY <1>2 DEF Status
    <2>3. Status(q)' = IF handed'[q] # 0 \/ InLine(q)' THEN "Running" ELSE "Gone"
      BY <2>1 DEF Status
    <2> QED  BY <1>2, <2>1, <2>2, <2>3
  <1> QED  BY <1>1, <1>2

\* HQ keeps each end it is told: there is room for one of each turn, and there is none of this one.
LEMMA EndKept ==
  ASSUME ConstantsFit, KeepsThemAll, TypeOK, Lists, Homes,
         NEW r \in Runs, NEW l \in Ids, NEW how \in Ends, Report(r, l, how), handed[r] = l
  PROVE  ended' = Append(ended, [run |-> r, how |-> how]) /\ Told(r) = {}
  <1> DEFINE size == Len(ended)
             whose == [n \in 1..(size + 1) |-> IF n <= size THEN ended[n].run ELSE r]
  <1>1. size \in Nat /\ ended \in Seq(Reports) /\ Kept \in Nat /\ l # 0
    BY LenProperties DEF TypeOK, Reports, ConstantsFit, Ids
  <1>2. Told(r) = {}
    BY <1>1 DEF Homes
  <1>3. \A n \in 1..size : ended[n] \in Reports /\ ended[n].run \in Runs /\ ended[n].run # r
    <2> SUFFICES ASSUME NEW n \in 1..size
                 PROVE  ended[n] \in Reports /\ ended[n].run \in Runs /\ ended[n].run # r
      OBVIOUS
    <2>1. ended[n] \in Reports BY <1>1, ElementOfSeq
    <2>2. ended[n].run # r BY <1>2 DEF Told
    <2> QED  BY <2>1, <2>2 DEF Reports
  <1>4. whose \in [1..(size + 1) -> Runs]
    BY <1>1, <1>3
  <1>5. ASSUME NEW m \in 1..(size + 1), NEW n \in 1..(size + 1), whose[m] = whose[n]
        PROVE  m = n
    <2> \A k \in 1..(size + 1) : k \in 1..size \/ (k = size + 1 /\ ~(k <= size))
      BY <1>1
    <2> QED  BY <1>1, <1>3, <1>5 DEF Lists
  <1>6. size + 1 <= Cardinality(Runs)
    <2> HIDE DEF whose, size
    <2>1. whose \in Injection(1..(size + 1), Runs)
      BY <1>4, <1>5 DEF Injection, IsInjective
    <2>2. Cardinality(1..(size + 1)) <= Cardinality(Runs)
      BY <2>1, FS_Injection DEF KeepsThemAll
    <2>3. Cardinality(1..(size + 1)) = size + 1
      BY <1>1, FS_Interval
    <2> QED  BY <2>2, <2>3
  <1>7. Cardinality(Runs) \in Nat
    BY FS_CardinalityType DEF KeepsThemAll
  <1>8. Len(Append(ended, [run |-> r, how |-> how])) = size + 1
    BY <1>1 DEF Reports
  <1>9. ~(size + 1 > Kept)
    BY <1>1, <1>6, <1>7 DEF KeepsThemAll
  <1> QED  BY <1>2, <1>8, <1>9 DEF Report, KeepLatest

\* So a report that is taken becomes what is told of its turn, and nothing else is told otherwise.
LEMMA ReportTold ==
  ASSUME ConstantsFit, KeepsThemAll, TypeOK, Lists, Homes,
         NEW r \in Runs, NEW l \in Ids, NEW how \in Ends, Report(r, l, how)
  PROVE  \/ \A q \in Runs : Status(q)' = Status(q)
         \/ /\ Told(r) = {} /\ Status(r) = "Running" /\ Status(r)' = how
            /\ \A q \in Runs \ {r} : Status(q)' = Status(q)
  <1>1. CASE handed[r] # l
    <2>1. line' = line /\ handed' = handed /\ ended' = ended
      BY <1>1 DEF Report
    <2> QED  BY <2>1 DEF Status, Told, InLine
  <1>2. CASE handed[r] = l
    <2> DEFINE e == [run |-> r, how |-> how]
    <2>1. ended' = Append(ended, e) /\ Told(r) = {}
      BY <1>2, EndKept
    <2>2. line' = line /\ handed' = [handed EXCEPT ![r] = 0] /\ handed \in [Runs -> Ids \cup {0}]
          /\ l # 0 /\ ended \in Seq(Reports) /\ e \in Reports /\ Len(ended) \in Nat
      BY <1>2, LenProperties DEF Report, TypeOK, Reports, Ids
    <2>3. /\ ended' \in Seq(Reports) /\ Len(ended') = Len(ended) + 1
          /\ \A n \in 1..Len(ended) : ended'[n] = ended[n]
          /\ ended'[Len(ended) + 1] = e
      BY <2>1, <2>2
    <2>4. Lists'
      BY Reported
    <2>5. Status(r) = "Running"
      BY <1>2, <2>1, <2>2 DEF Status
    <2>6. Status(r)' = how
      <3>1. Len(ended) + 1 \in 1..Len(ended') /\ ended'[Len(ended) + 1].run = r
        BY <2>2, <2>3
      <3>2. Status(r)' = ended'[Len(ended) + 1].how
        BY <2>3, <2>4, <3>1, AsItEndedNext
      <3> QED  BY <2>3, <3>2
    <2>7. ASSUME NEW q \in Runs \ {r}
          PROVE  Status(q)' = Status(q)
      <3>1. ASSUME NEW n \in 1..Len(ended'), ended'[n].run = q
            PROVE  \E m \in 1..Len(ended) : ended'[n] = ended[m]
        <4>1. n # Len(ended) + 1 BY <2>3, <3>1
        <4>2. n \in 1..Len(ended) BY <2>2, <2>3, <4>1
        <4> QED  BY <2>3, <4>2
      <3>2. \A m \in 1..Len(ended) : m \in 1..Len(ended') /\ ended'[m] = ended[m]
        BY <2>2, <2>3
      <3>3. (handed'[q] # 0 \/ InLine(q)') <=> (handed[q] # 0 \/ InLine(q))
        BY <2>2 DEF InLine
      <3> QED  BY <2>2, <2>3, <2>4, <3>1, <3>2, <3>3, ToldAsBefore
    <2> QED  BY <2>1, <2>5, <2>6, <2>7
  <1> QED  BY <1>1, <1>2

\* A step of the runner's round that may report: what HQ tells of the turns, after it.
LEMMA RoundTold ==
  ASSUME ConstantsFit, KeepsThemAll, Inv, Inv', Round
  PROVE  /\ turn' = turn /\ restarts' = restarts
         /\ \/ \A q \in Runs : Status(q)' = Status(q)
            \/ \E r \in Runs : /\ Told(r) = {} /\ Status(r) = "Running" /\ Status(r)' \in Ends
                               /\ \A q \in Runs \ {r} : Status(q)' = Status(q)
  <1> USE DEF hq, docker, known, round, bounds
  <1>1. ASSUME NEW r \in Runs, NEW l \in Ids, NEW how \in Ends, Report(r, l, how)
        PROVE  \/ \A q \in Runs : Status(q)' = Status(q)
               \/ \E s \in Runs : /\ Told(s) = {} /\ Status(s) = "Running" /\ Status(s)' \in Ends
                                  /\ \A q \in Runs \ {s} : Status(q)' = Status(q)
    BY <1>1, ReportTold DEF Inv
  <1>2. ASSUME line' = line, handed' = handed, ended' = ended
        PROVE  \A q \in Runs : Status(q)' = Status(q)
    BY <1>2 DEF Status, Told, InLine
  <1>3. CASE \E l \in Ids : Ending(l)
    <2> PICK l \in Ids : Ending(l) BY <1>3
    <2> DEFINE now == IF box[l].state = "up" THEN Stopped(l, "exited", "Failed") ELSE box[l]
    <2>1. turn' = turn /\ restarts' = restarts /\ l \in watching
          /\ (UNCHANGED hq \/ Report(box[l].run, l, now.how))
      BY DEF Ending
    <2>2. box[l] \in BoxRow /\ box[l].state \in {"up", "exited", "gone"} /\ box[l].run \in Runs
      <3>1. box[l] \in BoxRow /\ box[l].state \in {"up", "exited", "gone"}
        BY <2>1 DEF Inv, TypeOK, Boxes, BoxRow
      <3>2. l < lease
        BY <3>1 DEF Inv, TypeOK, Boxes, NoBox, Ids
      <3> QED  BY <3>1, <3>2 DEF Inv, Boxes
    <2>3. now.how \in Ends
      BY <2>2 DEF Inv, Boxes, BoxRow, Stopped, States, Ends
    <2> HIDE DEF now
    <2>4. PICK r : r = box[l].run OBVIOUS
    <2> QED  BY <1>1, <1>2, <2>1, <2>2, <2>3, <2>4
  <1>4. CASE NeverRan
    <2>1. turn' = turn /\ restarts' = restarts /\ hand # 0
          /\ (UNCHANGED hq \/ Report(box[hand].run, hand, "NeverStarted"))
      BY <1>4 DEF NeverRan
    <2>2. hand \in Ids /\ box[hand].run \in Runs
      BY <2>1 DEF Inv, TypeOK, Boxes, NoBox, Ids
    <2>3. PICK r, l : r = box[hand].run /\ l = hand OBVIOUS
    <2>4. "NeverStarted" \in Ends BY DEF Ends
    <2> QED  BY <1>1, <1>2, <2>1, <2>2, <2>3, <2>4
  <1>5. CASE AskNext
    <2>1. PICK h : h = Head(line) OBVIOUS
    <2>2. /\ turn' = turn /\ restarts' = restarts /\ line # <<>> /\ lease <= MaxLeases /\ HandOut
      BY <1>5 DEF AskNext
    <2>3. lease \in Ids
      BY <2>2 DEF Inv, TypeOK, Ids, ConstantsFit
    <2>4. /\ h \in Runs /\ InLine(h) /\ ended' = ended /\ handed'[h] = lease
          /\ \A q \in Runs \ {h} : (InLine(q)' <=> InLine(q)) /\ handed'[q] = handed[q]
      BY <2>1, <2>2, <2>3, HandedOut DEF Inv
    <2>5. ASSUME NEW q \in Runs
          PROVE  Status(q)' = Status(q)
      <3>1. (handed'[q] # 0 \/ InLine(q)') <=> (handed[q] # 0 \/ InLine(q))
        BY <2>3, <2>4 DEF Ids
      <3> QED  BY <2>4, <3>1, ToldAsBefore DEF Inv, TypeOK, Reports
    <2> QED  BY <2>2, <2>5
  <1>6. CASE HearStops \/ Sweep \/ RoundDone \/ Begin
    BY <1>2, <1>6 DEF HearStops, Sweep, RoundDone, Begin
  <1> QED  BY <1>3, <1>4, <1>5, <1>6 DEF Round

\* Each step, as the engine sees it: nothing of what it is told of a running turn changes; or HQ
\* has restarted; or one turn is started, or no longer runs; or one turn's end is told.
LEMMA StepTold ==
  ASSUME ConstantsFit, KeepsThemAll, Inv, Inv', [Next]_vars
  PROVE  \/ turn' = turn /\ restarts' = restarts /\ \A q \in Runs : Status(q)' = Status(q)
         \/ turn' = turn /\ restarts' # restarts /\ \A q \in Runs : Status(q)' = "Gone"
         \/ \E r \in Runs :
              /\ restarts' = restarts
              /\ \A q \in Runs \ {r} : turn'[q] = turn[q] /\ Status(q)' = Status(q)
              /\ \/ turn[r] # "Running" /\ turn'[r] = "Running" /\ Status(r)' = "Running"
                 \/ turn'[r] # "Running"
                 \/ /\ turn'[r] = turn[r] /\ Told(r) = {}
                    /\ Status(r) = "Running" /\ Status(r)' \in Ends
  <1> USE DEF hq, docker, known, round, bounds
  <1>1. ASSUME line' = line, handed' = handed, ended' = ended
        PROVE  \A q \in Runs : Status(q)' = Status(q)
    BY <1>1 DEF Status, Told, InLine
  <1>2. TypeOK /\ Lists /\ Homes /\ TypeOK' /\ Lists' /\ turn \in [Runs -> Stages]
        /\ ended \in Seq(Reports) /\ ended' \in Seq(Reports)
    BY DEF Inv, TypeOK, Reports
  <1>3. ASSUME NEW r \in Runs, Launch(r)
        PROVE  /\ restarts' = restarts
               /\ \A q \in Runs \ {r} : turn'[q] = turn[q] /\ Status(q)' = Status(q)
               /\ turn[r] # "Running" /\ turn'[r] = "Running" /\ Status(r)' = "Running"
    <2>1. turn[r] # "Running" /\ turn' = [turn EXCEPT ![r] = "Running"] /\ StartTurn(r)
          /\ restarts' = restarts
      BY <1>3 DEF Launch
    <2>2. /\ InLine(r)' /\ handed'[r] = 0 /\ Told(r)' = {}
          /\ \A q \in Runs \ {r} : (InLine(q)' <=> InLine(q)) /\ handed'[q] = handed[q]
          /\ \A n \in 1..Len(ended') : \E m \in 1..Len(ended) : ended'[n] = ended[m]
          /\ \A m \in 1..Len(ended) : ended[m].run # r => \E n \in 1..Len(ended') : ended'[n] = ended[m]
      BY <1>2, <2>1, Started
    <2>3. Status(r)' = "Running"
      BY <2>2 DEF Status
    <2>4. ASSUME NEW q \in Runs \ {r}
          PROVE  Status(q)' = Status(q)
      BY <1>2, <2>2, ToldAsBefore
    <2> QED  BY <1>2, <2>1, <2>3, <2>4
  <1>4. ASSUME NEW r \in Runs, EndTurn(r)
        PROVE  /\ restarts' = restarts
               /\ \A q \in Runs \ {r} : turn'[q] = turn[q] /\ Status(q)' = Status(q)
               /\ turn'[r] # "Running"
    <2>1. turn' = [turn EXCEPT ![r] = "Over"] /\ StopTurn(r) /\ restarts' = restarts
      BY <1>4 DEF EndTurn
    <2>2. /\ \A q \in Runs \ {r} : (InLine(q)' <=> InLine(q)) /\ handed'[q] = handed[q]
          /\ \A n \in 1..Len(ended') : \E m \in 1..Len(ended) : ended'[n] = ended[m]
          /\ \A m \in 1..Len(ended) : ended[m].run # r => \E n \in 1..Len(ended') : ended'[n] = ended[m]
      BY <1>2, <2>1, StoppedAtHq
    <2>3. ASSUME NEW q \in Runs \ {r}
          PROVE  Status(q)' = Status(q)
      BY <1>2, <2>2, ToldAsBefore
    <2> QED  BY <1>2, <2>1, <2>3
  <1>5. ASSUME NEW r \in Runs, Settle(r) \/ WrapUp(r) \/ LetGo(r)
        PROVE  /\ restarts' = restarts
               /\ \A q \in Runs \ {r} : turn'[q] = turn[q] /\ Status(q)' = Status(q)
               /\ turn'[r] # "Running"
    <2>1. /\ \A q \in Runs : Status(q)' = Status(q)
          /\ restarts' = restarts
          /\ \E to \in {"Between", "Over"} : turn' = [turn EXCEPT ![r] = to]
      BY <1>1, <1>5 DEF Settle, WrapUp, LetGo
    <2> QED  BY <1>2, <2>1
  <1>6. CASE HqRestarts
    <2>1. Len(<<>>) = 0 OBVIOUS
    <2>2. turn' = turn /\ restarts' = restarts + 1 /\ line' = <<>> /\ ended' = <<>>
          /\ \A q \in Runs : handed'[q] = 0
      BY <1>6 DEF HqRestarts
    <2>3. restarts' # restarts
      BY <2>2 DEF Inv, TypeOK, ConstantsFit
    <2>4. \A q \in Runs : Status(q)' = "Gone"
      BY <2>1, <2>2 DEF Status, Told, InLine
    <2> QED  BY <2>2, <2>3, <2>4
  <1>7. CASE DockerStep \/ Crash \/ UNCHANGED vars
    BY <1>1, <1>7 DEF DockerStep, Crash, Vanishes, GrowsLate, Exits, vars
  <1>8. CASE Round
    BY <1>8, RoundTold
  <1> QED  BY <1>3, <1>4, <1>5, <1>6, <1>7, <1>8 DEF Next, EngineStep

\* While HQ keeps as many ends as there are turns, an end that was heard is kept until the engine
\* has settled its turn: no report of another turn, in whatever order, and no attempt handed out
\* or started meanwhile pushes it out or replaces it (remote.rs, `report`, `ENDED_KEPT`); only a
\* restart of HQ loses it.
THEOREM NoEndIsLost == ASSUME ConstantsFit, KeepsThemAll PROVE Spec => EndIsKept
  <1>1. ASSUME Inv, Inv', [Next]_vars
        PROVE  restarts' = restarts =>
                 \A r \in Runs : Told(r) # {} /\ turn[r] = "Running" /\ turn'[r] = "Running"
                   => Status(r)' = Status(r)
    BY <1>1, StepTold
  <1> QED  BY <1>1, Inductive, PTL DEF Spec, EndIsKept

\* HQ's side, the runner on its host and Docker together are the runner the engine counts on
\* (ports.rs, `WorkerAdapter`; the `runner` of Turns): a turn it started is running until it ends
\* one way or another or is forgotten, a turn nobody started never ends, and no end becomes
\* another, though calls and answers are lost and either side restarts.
THEOREM ImplementsTheView == ASSUME ConstantsFit, KeepsThemAll PROVE Spec => RunnerAsSeen
  <1> DEFINE view == [r \in Runs |-> Seen(r)]
  <1>1. Init => EngineView!ViewInit
    BY DEF Init, EngineView!ViewInit, Seen
  <1>2. ASSUME Inv, Inv', [Next]_vars
        PROVE  [EngineView!ViewNext]_view
    <2>1. CASE turn' = turn /\ restarts' = restarts /\ \A q \in Runs : Status(q)' = Status(q)
      <3>1. \A q \in Runs : Seen(q)' = Seen(q)
        BY <2>1 DEF Seen
      <3> QED  BY <3>1
    <2>2. CASE turn' = turn /\ restarts' # restarts /\ \A q \in Runs : Status(q)' = "Gone"
      <3>1. \A q \in Runs : Seen(q)' = "Gone"
        BY <2>2 DEF Seen
      <3>2. EngineView!Forgotten(Runs)
        BY <3>1 DEF EngineView!Forgotten
      <3> QED  BY <3>2 DEF EngineView!ViewNext
    <2>3. ASSUME NEW r \in Runs,
                 \A q \in Runs \ {r} : turn'[q] = turn[q] /\ Status(q)' = Status(q),
                 \/ turn[r] # "Running" /\ turn'[r] = "Running" /\ Status(r)' = "Running"
                 \/ turn'[r] # "Running"
                 \/ /\ turn'[r] = turn[r] /\ Told(r) = {}
                    /\ Status(r) = "Running" /\ Status(r)' \in Ends
          PROVE  [EngineView!ViewNext]_view
      <3>1. \A q \in Runs \ {r} : Seen(q)' = Seen(q)
        BY <2>3 DEF Seen
      <3>2. CASE turn[r] # "Running" /\ turn'[r] = "Running" /\ Status(r)' = "Running"
        <4>1. Seen(r) = "Gone" /\ Seen(r)' = "Running"
          BY <3>2 DEF Seen
        <4>2. EngineView!Begins(r)
          BY <3>1, <4>1 DEF EngineView!Begins
        <4> QED  BY <4>2 DEF EngineView!ViewNext
      <3>3. CASE turn'[r] # "Running"
        <4>1. Seen(r)' = "Gone"
          BY <3>3 DEF Seen
        <4>2. EngineView!Forgotten({r})
          BY <3>1, <4>1 DEF EngineView!Forgotten
        <4> QED  BY <4>2 DEF EngineView!ViewNext
      <3>4. CASE turn'[r] = turn[r] /\ turn[r] # "Running"
        BY <3>3, <3>4
      <3>5. CASE /\ turn'[r] = turn[r] /\ turn[r] = "Running"
                 /\ Status(r) = "Running" /\ Status(r)' \in Ends
        <4>1. Seen(r) = "Running" /\ Seen(r)' \in {"Succeeded", "Failed", "NeverStarted", "Vanished"}
          BY <3>5 DEF Seen, Ends
        <4>2. \E how \in {"Succeeded", "Failed", "NeverStarted", "Vanished"} : EngineView!Ended(r, how)
          BY <3>1, <4>1 DEF EngineView!Ended
        <4> QED  BY <4>2 DEF EngineView!ViewNext
      <3> QED  BY <2>3, <3>2, <3>3, <3>4, <3>5
    <2> QED  BY <1>2, <2>1, <2>2, <2>3, StepTold
  <1> QED  BY <1>1, <1>2, Inductive, PTL DEF Spec, RunnerAsSeen, EngineView!ViewSpec
=============================================================================
