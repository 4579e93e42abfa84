---------------------------- MODULE WorkerProofs ----------------------------
(***************************************************************************)
(* What a turn keeps, for any replies of the model, any tools and bounds:  *)
(* every call is answered and no two have one id, the model has what it is *)
(* told it has, and the turn ends once.  The invariant that carries them   *)
(* has three parts: how far the results are behind the calls, what the     *)
(* repeat guard knows beside what the model still reads whole, and that a  *)
(* turn still under way has sent nothing that ends it.                     *)
(***************************************************************************)
EXTENDS Worker, FiniteSetTheorems, SequenceTheorems, TLAPS

Bys     == Nat \X Nat
Ids     == Bys \X Nat
Asks    == [call : Tools, reply : Nat, by : Bys, id : Ids]
Givens  == [call : Tools, reply : Nat, by : Bys]
Texts   ==
  Words \cup Mute \cup {"found", "yours", "no such", "refused", "ended", "claimed"}
Comings == [id : Ids, call : Tools, text : Texts]

\* The kinds of everything, part by part.
Place ==
  /\ turn \in Kinds
  /\ at \in {"opening", "asking", "running", "answered", "out of room", "out of rounds",
             "asked", "moved on", "failed", "over"}
Talk ==
  /\ asked \in Seq(Asks) /\ results \in Seq(Comings)
  /\ cut \subseteq {results[n].id : n \in DOMAIN results}
  /\ gists \subseteq {asked[n].id : n \in DOMAIN asked}
Guards ==
  /\ said \in [DOMAIN said -> Texts] /\ DOMAIN said \subseteq Tools \ (Own \cup {"find_tools"})
  /\ last \in Tools \cup {NoCall} /\ given \subseteq {"claim"}
Counts ==
  /\ read \in Nat /\ round \in 0..MostRounds /\ free \in 0..FreeRounds
  /\ replies \in Nat /\ later \in Nat
  /\ at = "running" => round < MostRounds
LastWords == words \in Seq({"answer", "continues", "unfinished"})
Typed == Place /\ Talk /\ Guards /\ Counts /\ LastWords

\* The results are the beginning of the calls, all of them while the model is asked; and of the
\* reply that runs only its last call may end the turn.
Answered ==
  /\ Len(results) <= Len(asked)
  /\ at \in {"opening", "asking"} => Len(results) = Len(asked)
  /\ at = "running" =>
       /\ Len(results) < Len(asked)
       /\ \A n \in (Len(results) + 1)..(Len(asked) - 1) : ~EndsTheTurn(asked[n].call)
  /\ at \in {"asked", "moved on"} /\ EndsTheTurn(results[Len(results)].call) =>
       Len(results) = Len(asked)
  /\ \A n \in DOMAIN results : results[n].id = asked[n].id /\ results[n].call = asked[n].call

\* On a house turn a call's id is its server's and how many had that before it.
Before(calls, n) == {m \in 1..(n - 1) : calls[m].by = calls[n].by}
Numbered(calls) ==
  \A n \in DOMAIN calls : calls[n].id = <<calls[n].by, Cardinality(Before(calls, n))>>
NumberedAtHome == turn.house => Numbered(asked)

\* The result m is the latest that says what the call c came to, and is read whole.
Reads(rs, c, text, gone, m) ==
  /\ rs[m].call = c /\ rs[m].text = text /\ text \notin Mute /\ rs[m].id \notin gone
  /\ \A k \in (m + 1)..Len(rs) : rs[k].call = c => rs[k].text \in Mute
\* What the guard knows a call to have said last is what its latest result says.
Known ==
  /\ turn.house \/ cut = {}
  /\ \A n \in DOMAIN asked : asked[n].reply <= replies
  /\ \A c \in DOMAIN said : \E m \in DOMAIN results : Reads(results, c, said[c], cut, m)

\* A turn under way has had no last word, and no call that ends it was taken.
OneWord ==
  Len(words) <= 1 /\ (words = <<"continues">> => at \in {"out of room", "failed", "over"})
UnderWay == at \in {"opening", "asking", "running"}
NotEnding ==
  \A c \in DOMAIN said : said[c] # "ended" /\ (EndsTheTurn(c) => said[c] = "refused")
Once ==
  /\ UnderWay => ~over /\ words = <<>> /\ NotEnding
  /\ OneWord

Inv ==
  /\ Typed /\ Answered /\ NumberedAtHome
  /\ Known /\ HasWhatItIsTold /\ Once

---------------------------------------------------------------------------
(* Results and calls as sequences.                                         *)

LEMMA ReadsMore ==
  ASSUME NEW rs \in Seq(Comings), NEW r \in Comings, NEW c, NEW text, NEW gone,
         NEW m \in DOMAIN rs, Reads(rs, c, text, gone, m), r.call # c \/ r.text \in Mute
  PROVE  m \in DOMAIN Append(rs, r) /\ Reads(Append(rs, r), c, text, gone, m)
<1>1. /\ Append(rs, r) \in Seq(Comings) /\ Len(Append(rs, r)) = Len(rs) + 1
      /\ Append(rs, r)[Len(rs) + 1] = r
      /\ \A k \in 1..Len(rs) : Append(rs, r)[k] = rs[k]
  OBVIOUS
<1> QED BY <1>1 DEF Reads

LEMMA ReadsLast ==
  ASSUME NEW rs \in Seq(Comings), NEW r \in Comings, NEW gone, r.text \notin Mute, r.id \notin gone
  PROVE  /\ Len(rs) + 1 \in DOMAIN Append(rs, r)
         /\ Reads(Append(rs, r), r.call, r.text, gone, Len(rs) + 1)
<1>1. /\ Append(rs, r) \in Seq(Comings) /\ Len(Append(rs, r)) = Len(rs) + 1
      /\ Append(rs, r)[Len(rs) + 1] = r
  OBVIOUS
<1> QED BY <1>1 DEF Reads

\* A set of places before one in a sequence is finite, and one more place adds one.
LEMMA BeforeFinite ==
  ASSUME NEW calls, NEW n \in Nat
  PROVE  IsFiniteSet(Before(calls, n)) /\ Cardinality(Before(calls, n)) \in Nat
<1>1. n - 1 \in Int /\ IsFiniteSet(1..(n - 1)) BY FS_Interval
<1>2. Before(calls, n) \subseteq 1..(n - 1) BY DEF Before
<1>3. IsFiniteSet(Before(calls, n)) BY <1>1, <1>2, FS_Subset
<1> QED BY <1>3, FS_CardinalityType

LEMMA NumbersRise ==
  ASSUME NEW calls \in Seq(Asks), NEW m \in DOMAIN calls, NEW n \in DOMAIN calls, m < n,
         calls[m].by = calls[n].by
  PROVE  Cardinality(Before(calls, m)) < Cardinality(Before(calls, n))
<1>1. m \in Nat /\ n \in Nat /\ IsFiniteSet(Before(calls, m)) /\ IsFiniteSet(Before(calls, n))
      /\ Cardinality(Before(calls, m)) \in Nat
  BY BeforeFinite
<1>2. m \notin Before(calls, m) BY DEF Before
<1>3. Before(calls, m) \cup {m} \subseteq Before(calls, n) BY <1>1 DEF Before
<1>4. /\ IsFiniteSet(Before(calls, m) \cup {m})
      /\ Cardinality(Before(calls, m) \cup {m}) = Cardinality(Before(calls, m)) + 1
  BY <1>1, <1>2, FS_AddElement
<1>5. Cardinality(Before(calls, m) \cup {m}) <= Cardinality(Before(calls, n))
  BY <1>1, <1>3, <1>4, FS_Subset
<1>6. Cardinality(Before(calls, n)) \in Nat BY <1>1, FS_CardinalityType
<1> QED BY <1>1, <1>4, <1>5, <1>6

LEMMA NumberedApart ==
  ASSUME NEW calls \in Seq(Asks), Numbered(calls),
         NEW m \in DOMAIN calls, NEW n \in DOMAIN calls, calls[m].id = calls[n].id
  PROVE  m = n
<1>1. calls[m].id = <<calls[m].by, Cardinality(Before(calls, m))>>
      /\ calls[n].id = <<calls[n].by, Cardinality(Before(calls, n))>>
  BY DEF Numbered
<1>2. calls[m].by = calls[n].by /\ Cardinality(Before(calls, m)) = Cardinality(Before(calls, n))
  <2>1. <<calls[m].by, Cardinality(Before(calls, m))>>
        = <<calls[n].by, Cardinality(Before(calls, n))>>
    BY <1>1
  <2> QED BY <2>1
<1>3. m \in Nat /\ n \in Nat /\ Cardinality(Before(calls, m)) \in Nat
      /\ Cardinality(Before(calls, n)) \in Nat
  BY BeforeFinite
<1>4. ~(m < n) BY <1>2, <1>3, NumbersRise
<1>5. ~(n < m) BY <1>2, <1>3, NumbersRise
<1> QED BY <1>3, <1>4, <1>5

---------------------------------------------------------------------------
(* The calls of a reply, with ids of the turn's own.                       *)

LEMMA SequencesAre ==
  ASSUME Typed
  PROVE  /\ asked \in Seq(Asks) /\ Len(asked) \in Nat /\ DOMAIN asked = 1..Len(asked)
         /\ results \in Seq(Comings) /\ Len(results) \in Nat /\ DOMAIN results = 1..Len(results)
<1>1. asked \in Seq(Asks) /\ results \in Seq(Comings) BY Zenon DEF Typed, Talk
<1> QED BY <1>1

LEMMA RepliesAre ==
  ASSUME ConstantsFit, NEW calls \in Replies
  PROVE  calls \in Seq(Tools) /\ Len(calls) \in Nat \ {0} /\ DOMAIN calls = 1..Len(calls)
<1>1. calls \in Seq(Tools) /\ calls # <<>> BY Zenon DEF ConstantsFit
<1> QED BY <1>1

LEMMA TurnIs ==
  ASSUME ConstantsFit, Typed
  PROVE  turn.house \in BOOLEAN /\ turn.numbers \in {"own", "afresh", "one"} /\ replies \in Nat
<1>1. turn \in Kinds /\ replies \in Nat BY Zenon DEF Typed, Place, Counts
<1>2. Kinds \subseteq [house : BOOLEAN, sums : BOOLEAN, task : BOOLEAN,
                      numbers : {"own", "afresh", "one"}]
  BY Zenon DEF ConstantsFit
<1> QED BY <1>1, <1>2

LEMMA GivenAre ==
  ASSUME ConstantsFit, Typed, NEW calls \in Replies
  PROVE  /\ Given(calls) \in Seq(Givens)
         /\ Len(Given(calls)) = Len(calls)
         /\ \A n \in 1..Len(calls) : /\ Given(calls)[n].call = calls[n]
                                     /\ Given(calls)[n].reply = replies + 1
                                     /\ Given(calls)[n].by \in Bys
<1> DEFINE by(n) == CASE turn.numbers = "own" -> <<replies, n>>
                      [] turn.numbers = "afresh" -> <<0, n>>
                      [] turn.numbers = "one" -> <<0, 0>>
<1>1. calls \in Seq(Tools) /\ Len(calls) \in Nat /\ DOMAIN calls = 1..Len(calls)
  BY RepliesAre
<1>2. turn.numbers \in {"own", "afresh", "one"} /\ replies \in Nat BY TurnIs
<1>3. ASSUME NEW n \in 1..Len(calls) PROVE by(n) \in Bys
  <2>1. n \in Nat /\ 0 \in Nat BY <1>1
  <2>2. <<replies, n>> \in Bys /\ <<0, n>> \in Bys /\ <<0, 0>> \in Bys BY <1>2, <2>1 DEF Bys
  <2> QED BY <1>2, <2>2
<1>4. Given(calls) = [n \in 1..Len(calls) |-> [call |-> calls[n], reply |-> replies + 1, by |-> by(n)]]
  BY <1>1 DEF Given
<1> HIDE DEF by
<1>5. ASSUME NEW n \in 1..Len(calls)
      PROVE  /\ Given(calls)[n] \in Givens
             /\ Given(calls)[n].call = calls[n] /\ Given(calls)[n].reply = replies + 1
             /\ Given(calls)[n].by \in Bys
  <2>1. calls[n] \in Tools /\ replies + 1 \in Nat BY <1>1, <1>2
  <2>2. Given(calls)[n] = [call |-> calls[n], reply |-> replies + 1, by |-> by(n)] BY <1>4
  <2> QED BY <2>1, <2>2, <1>3 DEF Givens
<1>6. Given(calls) \in [1..Len(calls) -> Givens] BY <1>4, <1>5
<1>7. Len(calls) \in Nat BY <1>1
<1>8. Given(calls) \in Seq(Givens) /\ Len(Given(calls)) = Len(calls)
  BY <1>6, <1>7
<1> QED BY <1>5, <1>8

\* How many calls had an id of that server's before the reply's n-th.
Used(calls, n) ==
  Cardinality({m \in DOMAIN asked : asked[m].by = Given(calls)[n].by})
  + Cardinality({m \in 1..(n - 1) : Given(calls)[m].by = Given(calls)[n].by})

LEMMA UsedNat ==
  ASSUME Typed, NEW calls, NEW n \in Nat
  PROVE  /\ Used(calls, n) \in Nat
         /\ IsFiniteSet({m \in DOMAIN asked : asked[m].by = Given(calls)[n].by})
         /\ IsFiniteSet({m \in 1..(n - 1) : Given(calls)[m].by = Given(calls)[n].by})
<1> DEFINE A == {m \in DOMAIN asked : asked[m].by = Given(calls)[n].by}
           B == {m \in 1..(n - 1) : Given(calls)[m].by = Given(calls)[n].by}
<1>1. asked \in Seq(Asks) /\ Len(asked) \in Nat /\ DOMAIN asked = 1..Len(asked)
  BY SequencesAre
<1>2. IsFiniteSet(1..Len(asked)) /\ IsFiniteSet(1..(n - 1))
  <2>1. n - 1 \in Int OBVIOUS
  <2> QED BY <1>1, <2>1, FS_Interval
<1>3. A \subseteq 1..Len(asked) /\ B \subseteq 1..(n - 1) BY <1>1
<1>4. IsFiniteSet(A) /\ IsFiniteSet(B) BY <1>2, <1>3, FS_Subset
<1>5. Cardinality(A) \in Nat /\ Cardinality(B) \in Nat BY <1>4, FS_CardinalityType
<1> QED BY <1>4, <1>5 DEF Used

LEMMA OwnIdsAre ==
  ASSUME ConstantsFit, Typed, NEW calls \in Replies
  PROVE  /\ OwnIds(calls) \in Seq(Asks) /\ Len(OwnIds(calls)) = Len(calls)
         /\ \A n \in 1..Len(calls) :
              /\ OwnIds(calls)[n].call = calls[n] /\ OwnIds(calls)[n].reply = replies + 1
              /\ OwnIds(calls)[n].by = Given(calls)[n].by
              /\ turn.house => OwnIds(calls)[n].id = <<Given(calls)[n].by, Used(calls, n)>>
<1>1. /\ Given(calls) \in Seq(Givens) /\ Len(Given(calls)) = Len(calls)
      /\ \A n \in 1..Len(calls) : Given(calls)[n].call = calls[n]
                                  /\ Given(calls)[n].reply = replies + 1 /\ Given(calls)[n].by \in Bys
  BY GivenAre
<1>2. Len(calls) \in Nat /\ DOMAIN Given(calls) = 1..Len(calls) BY <1>1
<1>3. turn.house \in BOOLEAN /\ replies + 1 \in Nat BY TurnIs
<1>4. OwnIds(calls) = [n \in 1..Len(calls) |->
        [call |-> Given(calls)[n].call, reply |-> Given(calls)[n].reply, by |-> Given(calls)[n].by,
         id |-> <<Given(calls)[n].by, IF turn.house THEN Used(calls, n) ELSE 0>>]]
  BY <1>2 DEF OwnIds, Named, Used
<1>5. ASSUME NEW n \in 1..Len(calls)
      PROVE  /\ OwnIds(calls)[n] \in Asks
             /\ OwnIds(calls)[n].call = calls[n] /\ OwnIds(calls)[n].reply = replies + 1
             /\ OwnIds(calls)[n].by = Given(calls)[n].by
             /\ turn.house => OwnIds(calls)[n].id = <<Given(calls)[n].by, Used(calls, n)>>
  <2> DEFINE id == <<Given(calls)[n].by, IF turn.house THEN Used(calls, n) ELSE 0>>
  <2>1. Used(calls, n) \in Nat
    <3>1. n \in Nat BY <1>2
    <3> QED BY <3>1, UsedNat
  <2>2. Given(calls)[n].call \in Tools /\ Given(calls)[n].reply \in Nat /\ Given(calls)[n].by \in Bys
    <3>1. calls[n] \in Tools BY RepliesAre
    <3> QED BY <1>1, <1>3, <3>1
  <2>3. id \in Ids BY <2>1, <2>2, <1>3 DEF Ids
  <2>4. OwnIds(calls)[n] = [call |-> Given(calls)[n].call, reply |-> Given(calls)[n].reply,
                            by |-> Given(calls)[n].by, id |-> id]
    BY <1>4
  <2> HIDE DEF id
  <2>5. OwnIds(calls)[n] \in Asks BY <2>2, <2>3, <2>4 DEF Asks
  <2>6. OwnIds(calls)[n].id = id BY <2>4
  <2> QED BY <1>1, <2>4, <2>5, <2>6 DEF id
<1>6. OwnIds(calls) \in [1..Len(calls) -> Asks] BY <1>4, <1>5
<1> QED BY <1>2, <1>5, <1>6

\* The calls of a house turn are numbered as they come.
LEMMA OwnIdsNumbered ==
  ASSUME ConstantsFit, Typed, turn.house, Numbered(asked), NEW calls \in Replies
  PROVE  Numbered(asked \o OwnIds(calls))
<1> DEFINE all == asked \o OwnIds(calls)
<1>1. /\ asked \in Seq(Asks) /\ OwnIds(calls) \in Seq(Asks) /\ Len(OwnIds(calls)) = Len(calls)
      /\ Len(asked) \in Nat /\ Len(calls) \in Nat
  BY OwnIdsAre, RepliesAre, SequencesAre
<1>2. /\ all \in Seq(Asks) /\ Len(all) = Len(asked) + Len(calls)
      /\ \A n \in 1..Len(asked) : all[n] = asked[n]
      /\ \A n \in 1..Len(calls) : all[Len(asked) + n] = OwnIds(calls)[n]
      /\ \A n \in (Len(asked) + 1)..(Len(asked) + Len(calls)) : n - Len(asked) \in 1..Len(calls)
  BY <1>1
<1> HIDE DEF all
<1>3. ASSUME NEW n \in 1..Len(asked)
      PROVE  all[n].id = <<all[n].by, Cardinality(Before(all, n))>>
  <2>1. Before(all, n) = Before(asked, n)
    <3>1. \A m \in 1..(n - 1) : all[m] = asked[m] BY <1>1, <1>2
    <3> QED BY <3>1, <1>2 DEF Before
  <2>2. asked[n].id = <<asked[n].by, Cardinality(Before(asked, n))>> BY <1>1 DEF Numbered
  <2> QED BY <1>2, <2>1, <2>2
<1>4. ASSUME NEW n \in 1..Len(calls)
      PROVE  all[Len(asked) + n].id
             = <<all[Len(asked) + n].by, Cardinality(Before(all, Len(asked) + n))>>
  <2> DEFINE by == Given(calls)[n].by
             A == {m \in DOMAIN asked : asked[m].by = by}
             B == {m \in 1..(n - 1) : Given(calls)[m].by = by}
             C == {m \in (Len(asked) + 1)..(Len(asked) + n - 1) : all[m].by = by}
             up == [m \in B |-> Len(asked) + m]
  <2>0. \A m \in 1..Len(calls) :
          /\ all[Len(asked) + m].by = Given(calls)[m].by
          /\ all[Len(asked) + m].id = <<Given(calls)[m].by, Used(calls, m)>>
    <3> TAKE m \in 1..Len(calls)
    <3>1. all[Len(asked) + m] = OwnIds(calls)[m] BY <1>2
    <3>2. /\ OwnIds(calls)[m].by = Given(calls)[m].by
          /\ OwnIds(calls)[m].id = <<Given(calls)[m].by, Used(calls, m)>>
      BY OwnIdsAre
    <3> QED BY <3>1, <3>2
  <2>1. all[Len(asked) + n].by = by /\ all[Len(asked) + n].id = <<by, Used(calls, n)>>
    BY <2>0
  <2>2. \A m \in 1..(n - 1) : all[Len(asked) + m].by = Given(calls)[m].by
    <3>1. \A m \in 1..(n - 1) : m \in 1..Len(calls) BY <1>1
    <3> QED BY <3>1, <2>0
  <2>3. Before(all, Len(asked) + n) = A \cup C
    BY <1>1, <1>2, <2>1 DEF Before
  <2>4. A \cap C = {} BY <1>1
  <2>5. IsFiniteSet(A) /\ IsFiniteSet(B)
    <3>1. n \in Nat BY <1>1
    <3> QED BY <3>1, UsedNat
  <2>6. up \in Bijection(B, C)
    <3>1. up \in [B -> C] BY <1>1, <2>2
    <3>2. \A m, k \in B : up[m] = up[k] => m = k BY <1>1
    <3>3. \A m \in C : \E k \in B : up[k] = m
      <4> TAKE m \in C
      <4>1. m - Len(asked) \in 1..(n - 1) /\ m = Len(asked) + (m - Len(asked)) BY <1>1
      <4>2. m - Len(asked) \in B BY <4>1, <2>2
      <4> QED BY <4>1, <4>2
    <3> HIDE DEF up, B, C
    <3> QED BY <3>1, <3>2, <3>3 DEF Bijection, Injection, Surjection, IsInjective
  <2> HIDE DEF up, A, B, C
  <2>7. IsFiniteSet(C) /\ Cardinality(C) = Cardinality(B) 
    BY <2>5, <2>6, FS_Bijection DEF ExistsBijection
  <2>8. Cardinality(A \cup C) = Cardinality(A) + Cardinality(B)
    <3>1. Cardinality(A \cup C) = Cardinality(A) + Cardinality(C) - Cardinality(A \cap C)
      BY <2>5, <2>7, FS_Union
    <3>2. Cardinality({}) = 0 BY FS_EmptySet
    <3>3. Cardinality(A) \in Nat /\ Cardinality(C) \in Nat BY <2>5, <2>7, FS_CardinalityType
    <3>4. Cardinality(A \cap C) = 0 BY <3>2, <2>4
    <3> QED BY <3>1, <3>3, <3>4, <2>7
  <2>9. Used(calls, n) = Cardinality(A) + Cardinality(B) BY DEF Used, A, B
  <2> QED BY <2>1, <2>3, <2>8, <2>9
<1>5. ASSUME NEW n \in DOMAIN all
      PROVE  all[n].id = <<all[n].by, Cardinality(Before(all, n))>>
  <2>1. CASE n \in 1..Len(asked) BY <2>1, <1>3
  <2>2. CASE n \in (Len(asked) + 1)..(Len(asked) + Len(calls))
    <3>1. n - Len(asked) \in 1..Len(calls) /\ n = Len(asked) + (n - Len(asked)) BY <1>1, <1>2, <2>2
    <3> QED BY <3>1, <1>4
  <2>3. n \in 1..(Len(asked) + Len(calls)) BY <1>2
  <2> QED BY <1>1, <2>1, <2>2, <2>3
<1> QED BY <1>5 DEF Numbered, all

---------------------------------------------------------------------------
(* The model's reply: what is cut is forgotten, and nothing else.          *)

LEMMA ResultsAreFirst ==
  ASSUME Typed, Answered
  PROVE  \A n \in DOMAIN results :
           n \in DOMAIN asked /\ results[n].id = asked[n].id /\ results[n].call = asked[n].call
<1>1. /\ Len(results) <= Len(asked)
      /\ \A n \in DOMAIN results : results[n].id = asked[n].id /\ results[n].call = asked[n].call
  BY Zenon DEF Answered
<1>2. \A n \in 1..Len(results) : n \in 1..Len(asked) BY <1>1, SequencesAre
<1> QED BY <1>1, <1>2, SequencesAre

LEMMA ResultsApart ==
  ASSUME Typed, Answered, turn.house, Numbered(asked),
         NEW m \in DOMAIN results, NEW n \in DOMAIN results, results[m].id = results[n].id
  PROVE  m = n
<1>1. m \in DOMAIN asked /\ n \in DOMAIN asked /\ asked[m].id = asked[n].id
  BY ResultsAreFirst
<1>2. asked \in Seq(Asks) BY SequencesAre
<1> QED BY <1>1, <1>2, NumberedApart

LEMMA Forgets ==
  ASSUME ConstantsFit, Inv, NEW calls, Said(calls)
  PROVE  /\ replies' = replies + 1 /\ replies' \in Nat
         /\ cut' \subseteq {results[n].id : n \in DOMAIN results}
         /\ turn.house \/ cut' = {}
         /\ said' \in [DOMAIN said' -> Texts] /\ DOMAIN said' \subseteq DOMAIN said
         /\ last' \in Tools \cup {NoCall}
         /\ \A c \in DOMAIN said' :
              said'[c] = said[c] /\ \E m \in DOMAIN results : Reads(results, c, said[c], cut', m)
<1>1. Typed /\ Answered /\ Known /\ (turn.house => Numbered(asked)) BY DEF Inv, NumberedAtHome
<1>2. Newly \subseteq DOMAIN results /\ (turn.house \/ Newly = {}) BY DEF Newly
<1>3. /\ replies' = replies + 1
      /\ cut' = cut \cup {results[n].id : n \in Newly}
      /\ said' = [c \in DOMAIN said \ Forgotten(Newly) |-> said[c]]
      /\ last' = IF last \in Forgotten(Newly) THEN NoCall ELSE last
  BY DEF Said
<1>4. replies \in Nat /\ last \in Tools \cup {NoCall} /\ cut \subseteq {results[n].id : n \in DOMAIN results}
      /\ said \in [DOMAIN said -> Texts]
  BY <1>1 DEF Typed, Counts, Guards, Talk
<1>5. turn.house \/ cut = {} BY <1>1 DEF Known
<1>6. said' \in [DOMAIN said' -> Texts] /\ DOMAIN said' = DOMAIN said \ Forgotten(Newly)
      /\ \A c \in DOMAIN said' : said'[c] = said[c]
  BY <1>3, <1>4
<1>7. ASSUME NEW c \in DOMAIN said'
      PROVE  \E m \in DOMAIN results : Reads(results, c, said[c], cut', m)
  <2>1. PICK m \in DOMAIN results : Reads(results, c, said[c], cut, m)
    BY <1>1, <1>6 DEF Known
  <2>2. results[m].call = c /\ results[m].id \notin cut BY <2>1 DEF Reads
  <2>3. m \notin Newly BY <1>6, <2>2 DEF Forgotten
  <2>4. ASSUME NEW n \in Newly, results[n].id = results[m].id PROVE FALSE
    <3>1. turn.house /\ n \in DOMAIN results BY <1>2
    <3>2. n = m BY <3>1, <2>4, <1>1, ResultsApart
    <3> QED BY <3>2, <2>3
  <2>5. results[m].id \notin cut' BY <1>3, <2>2, <2>4
  <2> QED BY <2>1, <2>5 DEF Reads
<1>8. replies' = replies + 1 /\ replies' \in Nat BY <1>3, <1>4
<1>9. cut' \subseteq {results[n].id : n \in DOMAIN results} BY <1>2, <1>3, <1>4
<1>10. turn.house \/ cut' = {} BY <1>2, <1>3, <1>5
<1>11. last' \in Tools \cup {NoCall} BY <1>3, <1>4
<1>12. DOMAIN said' \subseteq DOMAIN said BY <1>6
<1> QED BY <1>6, <1>7, <1>8, <1>9, <1>10, <1>11, <1>12

\* One sequence is the beginning of another.
Grows(S, old, new) ==
  /\ old \in Seq(S) /\ new \in Seq(S) /\ Len(old) <= Len(new)
  /\ \A n \in 1..Len(old) : new[n] = old[n]

LEMMA GrownIs ==
  ASSUME NEW S, NEW old, NEW new, Grows(S, old, new)
  PROVE  /\ Len(old) \in Nat /\ DOMAIN old = 1..Len(old)
         /\ Len(new) \in Nat /\ DOMAIN new = 1..Len(new)
         /\ \A n \in DOMAIN old : n \in DOMAIN new /\ new[n] = old[n]
         /\ \A n \in DOMAIN new \ DOMAIN old : n \in (Len(old) + 1)..Len(new)
         /\ \A n \in DOMAIN new : new[n] \in S
         /\ \A n \in DOMAIN old : old[n] \in S
  BY DEF Grows

LEMMA ReadsKept ==
  ASSUME NEW rs, NEW more, Grows(Comings, rs, more), NEW c, NEW text, NEW gone,
         NEW m \in DOMAIN rs, Reads(rs, c, text, gone, m),
         \A k \in (Len(rs) + 1)..Len(more) : more[k].call = c => more[k].text \in Mute
  PROVE  m \in DOMAIN more /\ Reads(more, c, text, gone, m)
<1>1. m \in DOMAIN more /\ more[m] = rs[m] BY GrownIs
<1>2. ASSUME NEW k \in (m + 1)..Len(more), more[k].call = c
      PROVE  more[k].text \in Mute
  <2>1. m \in Nat /\ Len(rs) \in Nat /\ Len(more) \in Nat BY GrownIs
  <2>2. CASE k \in (Len(rs) + 1)..Len(more) BY <1>2, <2>2
  <2>3. CASE k \in (m + 1)..Len(rs)
    <3>1. k \in 1..Len(rs) BY <2>1, <2>3
    <3>2. more[k] = rs[k] BY <3>1 DEF Grows
    <3> QED BY <1>2, <2>3, <3>2 DEF Reads
  <2> QED BY <2>1, <2>2, <2>3
<1> QED BY <1>1, <1>2 DEF Reads

\* The calls of a reply, and what stands for the results of one that ran nothing; and results
\* that are of the calls.
NewCalls(old, new, n)  == \A k \in (Len(old) + 1)..Len(new) : new[k].reply = n
NothingRan(old, new)   == \A k \in (Len(old) + 1)..Len(new) : new[k].text = "nothing ran"
OfTheCalls(rs, calls)  == \A n \in DOMAIN rs : n \in DOMAIN calls /\ rs[n].id = calls[n].id

LEMMA ReplyKeeps ==
  ASSUME ConstantsFit, Inv, NEW calls, Said(calls), turn' = turn,
         NumberedAtHome', OfTheCalls(results', asked'),
         Grows(Asks, asked, asked'), NewCalls(asked, asked', replies + 1),
         Grows(Comings, results, results'), NothingRan(results, results')
  PROVE  Known' /\ HasWhatItIsTold'
<1>1. Typed /\ Answered /\ Known BY DEF Inv
<1>2. replies \in Nat /\ replies' = replies + 1
  <2>1. replies \in Nat BY <1>1 DEF Typed, Counts
  <2> QED BY <2>1, Forgets
<1>3. /\ cut' \subseteq {results[n].id : n \in DOMAIN results} /\ (turn.house \/ cut' = {})
      /\ \A c \in DOMAIN said' :
           said'[c] = said[c] /\ \E m \in DOMAIN results : Reads(results, c, said[c], cut', m)
  BY Forgets
<1>4. \A n \in DOMAIN asked : asked'[n] = asked[n] /\ asked[n].reply <= replies /\ asked[n].reply \in Nat
  <2>1. \A n \in DOMAIN asked : asked'[n] = asked[n] /\ asked[n] \in Asks BY GrownIs
  <2>2. \A n \in DOMAIN asked : asked[n].reply <= replies BY <1>1 DEF Known
  <2> QED BY <2>1, <2>2 DEF Asks
<1>5. ASSUME NEW n \in DOMAIN asked' PROVE asked'[n].reply <= replies'
  <2>1. CASE n \in DOMAIN asked BY <2>1, <1>2, <1>4
  <2>2. CASE n \notin DOMAIN asked
    <3>1. n \in (Len(asked) + 1)..Len(asked') BY <2>2, GrownIs
    <3>2. asked'[n].reply = replies + 1 BY <3>1 DEF NewCalls
    <3> QED BY <3>2, <1>2
  <2> QED BY <2>1, <2>2
<1>6. ASSUME NEW c \in DOMAIN said'
      PROVE  \E m \in DOMAIN results' : Reads(results', c, said'[c], cut', m)
  <2>1. PICK m \in DOMAIN results : Reads(results, c, said[c], cut', m) BY <1>3
  <2>2. \A k \in (Len(results) + 1)..Len(results') :
          results'[k].call = c => results'[k].text \in Mute
    BY DEF Mute, NothingRan
  <2>3. m \in DOMAIN results' /\ Reads(results', c, said[c], cut', m)
    BY <2>1, <2>2, ReadsKept
  <2> QED BY <2>3, <1>3
<1>7. Known' BY <1>3, <1>5, <1>6 DEF Known
<1>8. ASSUME NEW n \in DOMAIN results'
      PROVE  /\ ~(asked'[n].reply = replies' /\ results'[n].text = "already")
             /\ results'[n].id \in cut' => asked'[n].reply < replies'
  <2>1. CASE n \in DOMAIN results
    <3>1. n \in DOMAIN asked BY <2>1, <1>1, ResultsAreFirst
    <3>2. asked'[n].reply <= replies /\ asked'[n].reply \in Nat BY <3>1, <1>4
    <3> QED BY <3>2, <1>2
  <2>2. CASE n \notin DOMAIN results
    <3>1. n \in (Len(results) + 1)..Len(results') BY <2>2, GrownIs
    <3>2. results'[n].text = "nothing ran" BY <3>1 DEF NothingRan
    <3>3. ASSUME results'[n].id \in cut' PROVE FALSE
      <4>1. PICK m \in DOMAIN results : results'[n].id = results[m].id BY <1>3, <3>3
      <4>2. turn.house BY <1>3, <3>3
      <4>3. m \in DOMAIN results' /\ results'[m] = results[m] BY GrownIs
      <4>4. m \in DOMAIN asked' /\ n \in DOMAIN asked' /\ asked'[m].id = asked'[n].id
        BY <4>1, <4>3 DEF OfTheCalls
      <4>5. asked' \in Seq(Asks) BY DEF Grows
      <4>6. Numbered(asked') BY <4>2 DEF NumberedAtHome
      <4>7. m = n BY <4>4, <4>5, <4>6, NumberedApart
      <4> QED BY <4>7, <2>2
    <3> QED BY <3>2, <3>3
  <2> QED BY <2>1, <2>2
<1>9. HasWhatItIsTold' BY <1>8 DEF HasWhatItIsTold
<1> QED BY <1>7, <1>9

---------------------------------------------------------------------------
(* One more result.                                                        *)

LEMMA CallIs ==
  ASSUME Typed, Answered, at = "running"
  PROVE  /\ Len(results) + 1 \in DOMAIN asked /\ Call = asked[Len(results) + 1]
         /\ Call \in Asks /\ Call.id \in Ids /\ Call.call \in Tools
<1>1. Len(results) < Len(asked) BY Zenon DEF Answered
<1>2. Len(results) + 1 \in DOMAIN asked BY <1>1, SequencesAre
<1>3. asked[Len(results) + 1] \in Asks BY <1>2, SequencesAre
<1> QED BY <1>2, <1>3 DEF Call, Asks

LEMMA CallIsNotCut ==
  ASSUME Inv, at = "running"
  PROVE  Call.id \notin cut
<1>1. Typed /\ Answered /\ Known /\ NumberedAtHome BY DEF Inv
<1> SUFFICES ASSUME Call.id \in cut PROVE FALSE OBVIOUS
<1>2. PICK m \in DOMAIN results : results[m].id = Call.id BY <1>1 DEF Typed, Talk
<1>3. turn.house BY <1>1 DEF Known
<1>4. Len(results) + 1 \in DOMAIN asked /\ Call = asked[Len(results) + 1] BY <1>1, CallIs
<1>5. m \in DOMAIN asked /\ asked[m].id = results[m].id BY <1>1, ResultsAreFirst
<1>6. asked \in Seq(Asks) /\ Numbered(asked) BY <1>1, <1>3, SequencesAre DEF NumberedAtHome
<1>7. m = Len(results) + 1 BY <1>2, <1>4, <1>5, <1>6, NumberedApart
<1>8. m \in 1..Len(results) /\ Len(results) \in Nat BY <1>1, SequencesAre
<1> QED BY <1>7, <1>8

Coming(text) == [id |-> Call.id, call |-> Call.call, text |-> text]

LEMMA ComesIs ==
  ASSUME Typed, Answered, at = "running", NEW text \in Texts, Comes(text)
  PROVE  /\ results' = Append(results, Coming(text)) /\ Coming(text) \in Comings
         /\ Grows(Comings, results, results')
         /\ Len(results') = Len(results) + 1
         /\ results'[Len(results) + 1] = Coming(text)
<1>1. results' = Append(results, Coming(text)) BY DEF Comes, Coming
<1>2. Coming(text) \in Comings BY CallIs DEF Coming, Comings
<1>3. results \in Seq(Comings) BY SequencesAre
<1> HIDE DEF Coming
<1>4. Append(results, Coming(text)) \in Seq(Comings)
      /\ Len(Append(results, Coming(text))) = Len(results) + 1
      /\ Append(results, Coming(text))[Len(results) + 1] = Coming(text)
      /\ \A n \in 1..Len(results) : Append(results, Coming(text))[n] = results[n]
  BY <1>2, <1>3
<1>5. Len(results) \in Nat BY SequencesAre
<1> QED BY <1>1, <1>2, <1>3, <1>4, <1>5 DEF Grows

\* What the guard makes of a call that came to text: it knows that of it, or what it knew.
Learns(text) ==
  /\ text = "already" => Call.call \in DOMAIN said
  /\ \A d \in DOMAIN said' :
       \/ d \in DOMAIN said /\ said'[d] = said[d] /\ (d # Call.call \/ text \in Mute)
       \/ d = Call.call /\ said'[d] = text /\ text \notin Mute

LEMMA ComingKeeps ==
  ASSUME Inv, at = "running", NEW text \in Texts, Comes(text), Learns(text),
         turn' = turn, asked' = asked, cut' = cut, replies' = replies
  PROVE  Known' /\ HasWhatItIsTold' /\ NumberedAtHome'
<1>1. Typed /\ Answered /\ Known /\ HasWhatItIsTold /\ NumberedAtHome BY DEF Inv
<1>2. /\ results' = Append(results, Coming(text)) /\ Coming(text) \in Comings
      /\ Grows(Comings, results, results') /\ Len(results') = Len(results) + 1
      /\ results'[Len(results) + 1] = Coming(text)
  BY <1>1, ComesIs
<1>3. Coming(text).call = Call.call /\ Coming(text).text = text /\ Coming(text).id = Call.id
  BY DEF Coming
<1>4. results \in Seq(Comings) /\ Len(results) \in Nat BY <1>1, SequencesAre
<1>5. ASSUME NEW d \in DOMAIN said'
      PROVE  \E m \in DOMAIN results' : Reads(results', d, said'[d], cut', m)
  <2>1. CASE d \in DOMAIN said /\ said'[d] = said[d] /\ (d # Call.call \/ text \in Mute)
    <3>1. PICK m \in DOMAIN results : Reads(results, d, said[d], cut, m) BY <1>1, <2>1 DEF Known
    <3>2. m \in DOMAIN results' /\ Reads(results', d, said[d], cut, m)
      BY <3>1, <1>2, <1>3, <1>4, <2>1, ReadsMore
    <3> QED BY <3>2, <2>1
  <2>2. CASE d = Call.call /\ said'[d] = text /\ text \notin Mute
    <3>1. Call.id \notin cut BY CallIsNotCut
    <3>2. /\ Len(results) + 1 \in DOMAIN results'
          /\ Reads(results', Coming(text).call, Coming(text).text, cut, Len(results) + 1)
      BY <3>1, <1>2, <1>3, <1>4, <2>2, ReadsLast
    <3> QED BY <3>2, <1>3, <2>2
  <2> QED BY <2>1, <2>2 DEF Learns
<1>6. Known' BY <1>1, <1>5 DEF Known
<1>7. ASSUME NEW n \in DOMAIN results', n \in DOMAIN results
      PROVE  /\ asked[n].reply = replies /\ results'[n].text = "already" =>
                  \E m \in 1..(n - 1) : Latest(m, n)' /\ results'[m].id \notin cut
             /\ results'[n].id \in cut => asked[n].reply < replies
  <2>1. n \in 1..Len(results) /\ results'[n] = results[n] BY <1>4, <1>7, <1>2, GrownIs
  <2>2. \A k \in 1..n : results'[k] = results[k] BY <2>1, <1>2, <1>4 DEF Grows
  <2>3. ASSUME asked[n].reply = replies, results[n].text = "already"
        PROVE  \E m \in 1..(n - 1) : Latest(m, n)' /\ results'[m].id \notin cut
    <3>1. PICK m \in 1..(n - 1) : Latest(m, n) /\ results[m].id \notin cut
      BY <1>1, <1>7, <2>3 DEF HasWhatItIsTold
    <3>2. results'[m] = results[m] /\ \A k \in (m + 1)..(n - 1) : results'[k] = results[k]
      <4>1. m \in 1..n /\ \A k \in (m + 1)..(n - 1) : k \in 1..n BY <2>1
      <4> QED BY <4>1, <2>2
    <3>3. Latest(m, n)' BY <3>1, <3>2, <2>1 DEF Latest
    <3> QED BY <3>1, <3>2, <3>3
  <2>4. results[n].id \in cut => asked[n].reply < replies BY <1>1, <1>7 DEF HasWhatItIsTold
  <2> QED BY <2>1, <2>3, <2>4
<1>8. ASSUME text = "already", NEW n, n = Len(results) + 1
      PROVE  \E m \in 1..(n - 1) : Latest(m, n)' /\ results'[m].id \notin cut
  <2>1. PICK m \in DOMAIN results : Reads(results, Call.call, said[Call.call], cut, m)
    BY <1>1, <1>8 DEF Learns, Known
  <2>2. m \in 1..Len(results) /\ n - 1 = Len(results) BY <2>1, <1>4, <1>8
  <2>3. \A k \in 1..Len(results) : results'[k] = results[k] BY <1>2 DEF Grows
  <2>4. \A k \in (m + 1)..Len(results) : results'[k] = results[k] BY <2>2, <2>3, <1>4
  <2>5. /\ results[m].call = Call.call /\ results[m].text \notin Mute /\ results[m].id \notin cut
        /\ \A k \in (m + 1)..Len(results) : results[k].call = Call.call => results[k].text \in Mute
    BY <2>1 DEF Reads
  <2>6. results'[m] = results[m] /\ results'[n].call = Call.call BY <2>2, <2>3, <1>2, <1>3, <1>8
  <2>7. \A k \in (m + 1)..(n - 1) :
          results'[k].call = results'[n].call => results'[k].text \in Mute
    BY <2>2, <2>4, <2>5, <2>6
  <2>8. Latest(m, n)' BY <2>5, <2>6, <2>7 DEF Latest
  <2> QED BY <2>2, <2>5, <2>6, <2>8
<1>9. ASSUME NEW n \in DOMAIN results'
      PROVE  /\ asked'[n].reply = replies' /\ results'[n].text = "already" =>
                  \E m \in 1..(n - 1) : Latest(m, n)' /\ results'[m].id \notin cut'
             /\ results'[n].id \in cut' => asked'[n].reply < replies'
  <2>1. CASE n \in DOMAIN results BY <2>1, <1>7
  <2>2. CASE n \notin DOMAIN results
    <3>1. n = Len(results) + 1 /\ n - 1 = Len(results)
      <4>1. n \in 1..(Len(results) + 1) /\ DOMAIN results = 1..Len(results) BY <1>2, <1>4, GrownIs
      <4> QED BY <4>1, <2>2, <1>4
    <3>2. results'[n].text = text /\ results'[n].id = Call.id BY <3>1, <1>2, <1>3
    <3>3. results'[n].id \notin cut BY <3>2, CallIsNotCut
    <3>4. text = "already" => \E m \in 1..(n - 1) : Latest(m, n)' /\ results'[m].id \notin cut
      BY <3>1, <1>8
    <3> QED BY <3>2, <3>3, <3>4
  <2> QED BY <2>1, <2>2
<1>10. HasWhatItIsTold' BY <1>9 DEF HasWhatItIsTold
<1> QED BY <1>1, <1>6, <1>10 DEF NumberedAtHome

\* A result more is still of the calls.
LEMMA StillOfTheCalls ==
  ASSUME Inv, at = "running", NEW text \in Texts, Comes(text)
  PROVE  /\ Len(results) \in Nat /\ Len(asked) \in Nat
         /\ Len(results') = Len(results) + 1 /\ Len(results) + 1 <= Len(asked)
         /\ Call = asked[Len(results) + 1] /\ results'[Len(results)+1].call = Call.call
         /\ \A n \in DOMAIN results' :
              results'[n].id = asked[n].id /\ results'[n].call = asked[n].call
<1>1. Typed /\ Answered BY DEF Inv
<1>2. /\ Coming(text) \in Comings /\ Grows(Comings, results, results')
      /\ Len(results') = Len(results) + 1 /\ results'[Len(results) + 1] = Coming(text)
  BY <1>1, ComesIs
<1>3. Coming(text).call = Call.call /\ Coming(text).id = Call.id BY DEF Coming
<1>4. Len(results) + 1 \in DOMAIN asked /\ Call = asked[Len(results) + 1] BY <1>1, CallIs
<1>5. Len(results) \in Nat /\ Len(asked) \in Nat /\ DOMAIN asked = 1..Len(asked)
      /\ DOMAIN results = 1..Len(results)
  BY <1>1, SequencesAre
<1>6. ASSUME NEW n \in DOMAIN results'
      PROVE  results'[n].id = asked[n].id /\ results'[n].call = asked[n].call
  <2>1. CASE n \in DOMAIN results
    <3>1. results'[n] = results[n] BY <2>1, <1>2, GrownIs
    <3> QED BY <3>1, <2>1, <1>1, ResultsAreFirst
  <2>2. CASE n \notin DOMAIN results
    <3>1. n \in 1..(Len(results) + 1) BY <1>2, GrownIs
    <3>2. n = Len(results) + 1 BY <3>1, <2>2, <1>5
    <3> QED BY <3>2, <1>2, <1>3, <1>4
  <2> QED BY <2>1, <2>2
<1>7. Len(results) + 1 <= Len(asked) BY <1>4, <1>5
<1> QED BY <1>2, <1>3, <1>4, <1>5, <1>6, <1>7

\* Of the reply that runs, only the last call may end the turn.
LEMMA EndsLast ==
  ASSUME Inv, at = "running", Len(results) \in Nat, Len(asked) \in Nat
  PROVE  /\ \A n \in (Len(results) + 1)..(Len(asked) - 1) : ~EndsTheTurn(asked[n].call)
         /\ \A n \in (Len(results) + 2)..(Len(asked) - 1) : ~EndsTheTurn(asked[n].call)
<1>1. \A n \in (Len(results) + 1)..(Len(asked) - 1) : ~EndsTheTurn(asked[n].call)
  BY Zenon DEF Inv, Answered
<1>2. \A n \in (Len(results) + 2)..(Len(asked) - 1) : n \in (Len(results) + 1)..(Len(asked) - 1)
  OBVIOUS
<1> QED BY <1>1, <1>2

\* What goes on after a result keeps to the reply's calls and to the rounds.
LEMMA GoesOnKeeps ==
  ASSUME ConstantsFit, Inv, at = "running", NEW text \in Texts, Comes(text),
         turn' = turn, asked' = asked, NEW yours, GoesOn(yours)
  PROVE  /\ at' \in {"running", "asking"} /\ Answered'
         /\ round' \in 0..MostRounds /\ free' \in 0..FreeRounds
         /\ at' = "running" => round' < MostRounds
<1>1. /\ Len(results) \in Nat /\ Len(asked) \in Nat
      /\ Len(results') = Len(results) + 1 /\ Len(results) + 1 <= Len(asked)
      /\ \A n \in DOMAIN results' :
           results'[n].id = asked[n].id /\ results'[n].call = asked[n].call
  BY StillOfTheCalls
<1>2. round \in 0..MostRounds /\ free \in 0..FreeRounds /\ round < MostRounds
      /\ MostRounds \in Nat /\ FreeRounds \in Nat
  BY DEF Inv, Typed, Counts, ConstantsFit
<1>3. CASE More
  <2>1. at' = "running" /\ round' = round /\ free' = free BY <1>3 DEF GoesOn
  <2>2. Len(results') < Len(asked) BY <1>3, <1>1 DEF More
  <2>3. \A n \in (Len(results) + 2)..(Len(asked) - 1) : ~EndsTheTurn(asked[n].call)
    BY <1>1, EndsLast
  <2>4. \A n \in (Len(results') + 1)..(Len(asked') - 1) : ~EndsTheTurn(asked[n].call)'
    <3>1. Len(results') + 1 = Len(results) + 2 BY <1>1
    <3> QED BY <3>1, <2>3 DEF EndsTheTurn
  <2>5. Answered' BY <2>1, <2>2, <2>4, <1>1 DEF Answered
  <2> QED BY <2>1, <2>5, <1>2
<1>4. CASE ~More
  <2>1. at' = "asking" BY <1>4 DEF GoesOn
  <2>2. \/ free < FreeRounds /\ free' = free + 1 /\ round' = round
        \/ round' = round + 1 /\ free' = free
    BY <1>4 DEF GoesOn
  <2>3. Len(results') = Len(asked) BY <1>4, <1>1 DEF More
  <2>4. Answered' BY <2>1, <2>3, <1>1 DEF Answered
  <2> QED BY <2>1, <2>2, <2>4, <1>2
<1> QED BY <1>3, <1>4

LEMMA NoneAfter ==
  ASSUME NEW m \in Nat, NEW n \in Nat, m + 1 <= n, m + 1 \notin (m + 1)..(n - 1)
  PROVE  m + 1 = n
  OBVIOUS

\* A call that ends the turn by what it is was its reply's last.
LEMMA EndsThereKeeps ==
  ASSUME Inv, at = "running", NEW text \in Texts, Comes(text),
         turn' = turn, asked' = asked, at' \in {"asked", "moved on"}
  PROVE  Answered'
<1>1. /\ Len(results) \in Nat /\ Len(asked) \in Nat
      /\ Len(results') = Len(results) + 1 /\ Len(results) + 1 <= Len(asked)
      /\ Call = asked[Len(results) + 1] /\ results'[Len(results)+1].call = Call.call
      /\ \A n \in DOMAIN results' :
           results'[n].id = asked[n].id /\ results'[n].call = asked[n].call
  BY StillOfTheCalls
<1>2. ASSUME EndsTheTurn(Call.call) PROVE Len(results') = Len(asked)
  <2>1. \A n \in (Len(results) + 1)..(Len(asked) - 1) : ~EndsTheTurn(asked[n].call)
    BY <1>1, EndsLast
  <2>2. Len(results) + 1 \notin (Len(results) + 1)..(Len(asked) - 1) BY <1>1, <1>2, <2>1
  <2>3. Len(results) + 1 = Len(asked) BY <2>2, <1>1, NoneAfter
  <2> QED BY <2>3, <1>1
<1>3. results'[Len(results')].call = Call.call BY <1>1
<1>4. EndsTheTurn(results[Len(results)].call)' => EndsTheTurn(Call.call)
  BY <1>3 DEF EndsTheTurn
<1>5. Len(results') <= Len(asked) BY <1>1
<1> QED BY <1>1, <1>2, <1>4, <1>5 DEF Answered

---------------------------------------------------------------------------
(* Steps of a like kind.                                                   *)

\* One that says and does nothing more.
LEMMA RestKeeps ==
  ASSUME Inv, UNCHANGED <<turn, asked, results, cut, said, replies>>
  PROVE  Known' /\ HasWhatItIsTold' /\ NumberedAtHome'
<1>1. Known /\ HasWhatItIsTold /\ NumberedAtHome BY DEF Inv
<1>2. Known' BY <1>1 DEF Known, Reads
<1>3. HasWhatItIsTold' BY <1>1 DEF HasWhatItIsTold, Latest
<1>4. NumberedAtHome' BY <1>1 DEF NumberedAtHome, Numbered, Before
<1> QED BY <1>2, <1>3, <1>4

\* No last word, and one.
LEMMA NoWord ==
  Len(<<>>) <= 1 /\ <<>> # <<"continues">>
  /\ <<>> \in Seq({"answer", "continues", "unfinished"})
  OBVIOUS

LEMMA AWord ==
  ASSUME NEW what \in {"answer", "continues", "unfinished"}
  PROVE  /\ Append(<<>>, what) = <<what>> /\ Len(<<what>>) <= 1
         /\ <<what>> \in Seq({"answer", "continues", "unfinished"})
         /\ <<what>> = <<"continues">> => what = "continues"
  OBVIOUS

Over == at \in {"answered", "out of room", "out of rounds", "asked", "moved on", "failed", "over"}

\* One that ends the turn with the conversation as it was, or has it go on to be asked.
LEMMA EndKeeps ==
  ASSUME Inv, Over', at' \notin {"asked", "moved on"} \/ Len(results) = Len(asked),
         UNCHANGED <<turn, asked, results, cut, gists, said, replies>>,
         Guards', Counts', LastWords', OneWord'
  PROVE  Inv'
<1>1. Known' /\ HasWhatItIsTold' /\ NumberedAtHome' BY RestKeeps
<1>2. Typed /\ Answered BY DEF Inv
<1>3. Place' /\ Talk' BY <1>2 DEF Typed, Place, Talk, Over
<1>4. Typed' BY <1>3 DEF Typed
<1>5. Answered'
  <2>1. Len(results) <= Len(asked)
        /\ \A n \in DOMAIN results : results[n].id = asked[n].id /\ results[n].call = asked[n].call
    BY <1>2 DEF Answered
  <2> QED BY <2>1 DEF Answered, Over
<1>6. Once'
  <2>1. ~UnderWay' BY DEF UnderWay, Over
  <2> QED BY <2>1 DEF Once
<1> QED BY <1>1, <1>4, <1>5, <1>6 DEF Inv

\* Where a result more leaves the conversation.
LEMMA ComingTyped ==
  ASSUME Inv, at = "running", NEW text \in Texts, Comes(text),
         turn' = turn, asked' = asked, cut' = cut, gists' \subseteq gists \cup {Call.id}
  PROVE  Talk'
<1>1. Typed /\ Answered /\ Talk BY DEF Inv, Typed
<1>2. Grows(Comings, results, results') BY <1>1, ComesIs
<1>3. results' \in Seq(Comings) /\ asked' \in Seq(Asks) BY <1>1, <1>2 DEF Grows, Talk
<1>4. cut' \subseteq {results'[n].id : n \in DOMAIN results'}
  <2>1. \A n \in DOMAIN results : n \in DOMAIN results' /\ results'[n].id = results[n].id
    BY <1>2, GrownIs
  <2> QED BY <1>1, <2>1 DEF Talk
<1>5. gists' \subseteq {asked'[n].id : n \in DOMAIN asked'}
  <2>1. Len(results) + 1 \in DOMAIN asked /\ Call.id = asked[Len(results) + 1].id
    BY <1>1, CallIs
  <2> QED BY <1>1, <2>1 DEF Talk
<1> QED BY <1>3, <1>4, <1>5 DEF Talk

\* One that has a result, and goes on.
LEMMA GoesOnWell ==
  ASSUME ConstantsFit, Inv, at = "running",
         NEW text \in Texts, Comes(text), Learns(text), NEW yours, GoesOn(yours),
         UNCHANGED <<turn, asked, cut, replies, words>>, ~over',
         gists' \subseteq gists \cup {Call.id}, Guards', NotEnding', read' \in Nat, later' \in Nat
  PROVE  Inv'
<1>1. Known' /\ HasWhatItIsTold' /\ NumberedAtHome' BY ComingKeeps
<1>2. /\ at' \in {"running", "asking"} /\ Answered'
      /\ round' \in 0..MostRounds /\ free' \in 0..FreeRounds
      /\ at' = "running" => round' < MostRounds
  BY GoesOnKeeps
<1>3. Talk' BY ComingTyped
<1>4. Place /\ LastWords /\ replies \in Nat /\ words = <<>>
  BY DEF Inv, Typed, Counts, Once, UnderWay
<1>5. Place' BY <1>2, <1>4 DEF Place
<1>6. Counts' BY <1>2, <1>4 DEF Counts
<1>7. LastWords' BY <1>4 DEF LastWords
<1>8. Typed' BY <1>3, <1>5, <1>6, <1>7 DEF Typed
<1>9. OneWord'
  <2>1. words' = <<>> BY <1>4
  <2> QED BY <2>1, NoWord DEF OneWord
<1>10. Once' BY <1>4, <1>9 DEF Once
<1> QED BY <1>1, <1>2, <1>8, <1>10 DEF Inv

\* One that has a result, which ends the turn.
LEMMA EndsWell ==
  ASSUME ConstantsFit, Inv, at = "running",
         NEW text \in Texts, Comes(text), Learns(text), at' \in {"asked", "moved on"},
         UNCHANGED <<turn, asked, cut, gists, replies, words, read, round, free, later>>, Guards'
  PROVE  Inv'
<1>1. Known' /\ HasWhatItIsTold' /\ NumberedAtHome' BY ComingKeeps
<1>2. Answered' BY EndsThereKeeps
<1>3. Talk' BY ComingTyped
<1>4. Place /\ LastWords /\ Counts /\ words = <<>>
  BY DEF Inv, Typed, Once, UnderWay
<1>5. Place' BY <1>4 DEF Place
<1>6. Counts' BY <1>4 DEF Counts
<1>7. LastWords' BY <1>4 DEF LastWords
<1>8. Typed' BY <1>3, <1>5, <1>6, <1>7 DEF Typed
<1>9. OneWord'
  <2>1. words' = <<>> BY <1>4
  <2> QED BY <2>1, NoWord DEF OneWord
<1>10. Once' BY <1>9 DEF Once, UnderWay
<1> QED BY <1>1, <1>2, <1>8, <1>10 DEF Inv

---------------------------------------------------------------------------
(* Each step.                                                              *)

LEMMA InitGood == ConstantsFit /\ Init => Inv
<1> SUFFICES ASSUME ConstantsFit, Init PROVE Inv OBVIOUS
<1>1. /\ turn \in Kinds /\ at = "opening" /\ asked = <<>> /\ results = <<>> /\ cut = {} /\ gists = {}
      /\ last = NoCall /\ DOMAIN said = {} /\ said = [c \in {} |-> ""] /\ given = {}
      /\ later \in Nat /\ read = 0 /\ round = 0 /\ free = 0 /\ replies = 0
      /\ words = <<>> /\ over = FALSE
  BY DEF Init
<1>2. MostRounds \in Nat /\ FreeRounds \in Nat BY DEF ConstantsFit
<1>3. Talk BY <1>1 DEF Talk
<1>4. Guards BY <1>1 DEF Guards
<1>5. Counts BY <1>1, <1>2 DEF Counts
<1>6. Typed BY <1>1, <1>3, <1>4, <1>5 DEF Typed, Place, LastWords
<1>7. Answered BY <1>1 DEF Answered
<1>8. Known /\ HasWhatItIsTold /\ NumberedAtHome
  BY <1>1 DEF Known, HasWhatItIsTold, NumberedAtHome, Numbered
<1>9. OneWord BY <1>1, NoWord DEF OneWord
<1>10. Once BY <1>1, <1>9 DEF Once, NotEnding
<1> QED BY <1>6, <1>7, <1>8, <1>10 DEF Inv

\* What the kinds of the parts say of a turn under way.
LEMMA UnderWayIs ==
  ASSUME Inv
  PROVE  /\ Typed /\ Place /\ Talk /\ Guards /\ Counts /\ LastWords /\ Answered
         /\ UnderWay => ~over /\ words = <<>> /\ NotEnding
         /\ at = "asking" => Len(results) = Len(asked)
  BY DEF Inv, Typed, Once, Answered

LEMMA OpenGood == ASSUME ConstantsFit, Inv, Open PROVE Inv'
<1>1. /\ Typed /\ Place /\ Talk /\ Guards /\ Counts /\ LastWords /\ Answered
      /\ UnderWay => ~over /\ words = <<>> /\ NotEnding
  BY UnderWayIs
<1>2. /\ at = "opening"
      /\ UNCHANGED <<turn, asked, results, cut, gists, last, said, already, later>>
      /\ UNCHANGED <<read, round, free, replies>> /\ words' = words /\ over' = over
      /\ \/ at' \in {"failed", "over"} /\ given' = given
         \/ at' = "asking" /\ given' \subseteq {"claim"}
  BY DEF Open, count, Stops, Ends
<1>3. ~over /\ words = <<>> /\ NotEnding BY <1>1, <1>2 DEF UnderWay
<1>4. Guards' BY <1>1, <1>2 DEF Guards
<1>5. Counts' BY <1>1, <1>2 DEF Counts
<1>6. LastWords' BY <1>1, <1>2 DEF LastWords
<1>7. OneWord' BY <1>2, <1>3 DEF OneWord
<1>8. CASE at' \in {"failed", "over"}
  BY <1>2, <1>4, <1>5, <1>6, <1>7, <1>8, EndKeeps DEF Over
<1>9. CASE at' = "asking"
  <2>1. Known' /\ HasWhatItIsTold' /\ NumberedAtHome' BY <1>2, RestKeeps
  <2>2. Place' /\ Talk' BY <1>1, <1>2, <1>9 DEF Place, Talk
  <2>3. Typed' BY <2>2, <1>4, <1>5, <1>6 DEF Typed
  <2>4. Answered'
    <3>1. Len(results) = Len(asked) /\ Len(results) <= Len(asked)
          /\ \A n \in DOMAIN results : results[n].id = asked[n].id /\ results[n].call = asked[n].call
      BY <1>1, <1>2 DEF Answered
    <3> QED BY <3>1, <1>2, <1>9 DEF Answered
  <2>5. Once'
    <3>1. NotEnding' BY <1>2, <1>3 DEF NotEnding, EndsTheTurn
    <3> QED BY <3>1, <1>2, <1>3, <1>7 DEF Once
  <2> QED BY <2>1, <2>3, <2>4, <2>5 DEF Inv
<1> QED BY <1>2, <1>8, <1>9

\* The last word is one, and the turn is over with it.
LEMMA PostsOnce ==
  ASSUME words = <<>>, NEW what \in {"answer", "continues", "unfinished"},
         NEW how \in {"answered", "out of room", "out of rounds"}, Posts(what, how),
         what = "continues" => how = "out of room"
  PROVE  Over' /\ at' \notin {"asked", "moved on"} /\ LastWords' /\ OneWord'
<1>1. at' \in {how, "failed", "over"} BY DEF Posts, Ends, Stops
<1>2. words' = <<>> \/ words' = <<what>> BY AWord DEF Posts
<1>3. Over' /\ at' \notin {"asked", "moved on"} BY <1>1 DEF Over
<1>4. CASE words' = <<>> BY <1>3, <1>4, NoWord DEF LastWords, OneWord
<1>5. CASE words' = <<what>>
  <2>1. LastWords' /\ Len(words') <= 1 BY <1>5, AWord DEF LastWords
  <2>2. words' = <<"continues">> => at' \in {"out of room", "failed", "over"}
    BY <1>1, <1>5, AWord
  <2> QED BY <1>3, <2>1, <2>2 DEF OneWord
<1> QED BY <1>2, <1>4, <1>5

LEMMA OutGood ==
  ASSUME ConstantsFit, Inv, OutOfRoom \/ OutOfRounds
  PROVE  Inv'
<1>1. /\ Typed /\ Place /\ Talk /\ Guards /\ Counts /\ LastWords /\ Answered
      /\ UnderWay => ~over /\ words = <<>> /\ NotEnding
  BY UnderWayIs
<1>2. /\ at = "asking" /\ UNCHANGED <<turn, asked, results, cut, gists, last, said, given>>
      /\ UNCHANGED <<already, later, read, round, free, replies>>
      /\ Posts("continues", "out of room") \/ Posts("unfinished", "out of rounds")
  BY DEF OutOfRoom, OutOfRounds, count, guard
<1>3. words = <<>> BY <1>1, <1>2 DEF UnderWay
<1>4. Over' /\ at' \notin {"asked", "moved on"} /\ LastWords' /\ OneWord'
  BY <1>2, <1>3, PostsOnce
<1>5. Guards' BY <1>1, <1>2 DEF Guards
<1>6. Counts' BY <1>1, <1>2, <1>4 DEF Counts, Over
<1> QED BY <1>2, <1>4, <1>5, <1>6, EndKeeps

LEMMA BodyNat == ASSUME ConstantsFit, Typed PROVE Body \in Nat
<1> DEFINE long == {n \in DOMAIN results : IsLong(results[n]) /\ Whole(results[n])}
<1>1. Len(results) \in Nat /\ DOMAIN results = 1..Len(results) BY SequencesAre
<1>2. IsFiniteSet(1..Len(results)) BY <1>1, FS_Interval
<1>3. long \subseteq 1..Len(results) BY <1>1
<1>4. Cardinality(long) \in Nat BY <1>2, <1>3, FS_Subset, FS_CardinalityType
<1>5. Weight - 1 \in Nat /\ replies \in Nat
  <2>1. Weight \in Nat \ {0} BY Zenon DEF ConstantsFit
  <2>2. replies \in Nat BY DEF Typed, Counts
  <2> QED BY <2>1, <2>2
<1> HIDE DEF long
<1>6. \A a, b \in Nat : a * b \in Nat OBVIOUS
<1>7. (Weight - 1) * Cardinality(long) \in Nat BY <1>4, <1>5, <1>6
<1>8. Body = 1 + replies + Len(results) + (Weight - 1) * Cardinality(long) BY DEF Body, long
<1> QED BY <1>1, <1>5, <1>7, <1>8

LEMMA AskingIs ==
  ASSUME ConstantsFit, Inv, Asking
  PROVE  /\ at = "asking" /\ round < MostRounds /\ read' \in Nat
         /\ turn' = turn /\ gists' = gists /\ given' = given /\ later' = later /\ free' = free
         /\ words = <<>> /\ ~over /\ NotEnding
<1>1. Typed /\ Counts /\ (UnderWay => ~over /\ words = <<>> /\ NotEnding) BY UnderWayIs
<1>2. /\ at = "asking" /\ round < MostRounds /\ read' = read + Body
      /\ turn' = turn /\ gists' = gists /\ given' = given /\ later' = later /\ free' = free
  BY DEF Asking
<1>3. Body \in Nat /\ read \in Nat BY <1>1, BodyNat DEF Counts
<1>4. ~over /\ words = <<>> /\ NotEnding BY <1>1, <1>2 DEF UnderWay
<1> QED BY <1>2, <1>3, <1>4

LEMMA AskFailsGood == ASSUME ConstantsFit, Inv, AskFails PROVE Inv'
<1>1. Guards /\ Counts /\ LastWords BY UnderWayIs
<1>2. /\ at = "asking" /\ read' \in Nat /\ words = <<>>
      /\ turn' = turn /\ gists' = gists /\ given' = given /\ later' = later /\ free' = free
  BY AskingIs DEF AskFails
<1>3. /\ at' \in {"failed", "over"} /\ words' = words
      /\ UNCHANGED <<asked, results, cut, last, said, round, replies>>
  BY DEF AskFails, Stops, Ends
<1>4. Guards' BY <1>1, <1>2, <1>3 DEF Guards
<1>5. Counts' BY <1>1, <1>2, <1>3 DEF Counts
<1>6. LastWords' BY <1>1, <1>3 DEF LastWords
<1>7. OneWord'
  <2>1. words' = <<>> BY <1>2, <1>3
  <2> QED BY <2>1, NoWord DEF OneWord
<1> QED BY <1>2, <1>3, <1>4, <1>5, <1>6, <1>7, EndKeeps DEF Over

\* What is cut and forgotten at a reply keeps to its kinds.
LEMMA SaidTyped ==
  ASSUME ConstantsFit, Inv, Asking, NEW calls, Said(calls), round' \in 0..MostRounds,
         at' = "running" => round' < MostRounds
  PROVE  /\ Guards' /\ Counts' /\ NotEnding'
         /\ cut' \subseteq {results[n].id : n \in DOMAIN results}
<1>1. Guards /\ Counts BY UnderWayIs
<1>2. /\ round < MostRounds /\ read' \in Nat /\ NotEnding
      /\ turn' = turn /\ given' = given /\ later' = later /\ free' = free
  BY AskingIs
<1>3. /\ replies' \in Nat /\ cut' \subseteq {results[n].id : n \in DOMAIN results}
      /\ said' \in [DOMAIN said' -> Texts] /\ DOMAIN said' \subseteq DOMAIN said
      /\ last' \in Tools \cup {NoCall} /\ \A c \in DOMAIN said' : said'[c] = said[c]
  BY Forgets
<1>4. Guards' BY <1>1, <1>2, <1>3 DEF Guards
<1>5. NotEnding' BY <1>2, <1>3 DEF NotEnding, EndsTheTurn
<1>6. Counts' BY <1>1, <1>2, <1>3 DEF Counts
<1> QED BY <1>3, <1>4, <1>5, <1>6

LEMMA NoneNew ==
  ASSUME NEW S, NEW T, NEW old \in Seq(S), NEW rs \in Seq(T), NEW n
  PROVE  NewCalls(old, old, n) /\ NothingRan(rs, rs)
<1>1. \A k \in Nat : (k + 1)..k = {} OBVIOUS
<1>2. Len(old) \in Nat /\ Len(rs) \in Nat OBVIOUS
<1> QED BY <1>1, <1>2 DEF NewCalls, NothingRan

LEMMA AnswersGood == ASSUME ConstantsFit, Inv, Answers PROVE Inv'
<1>1. Place /\ Talk /\ Counts /\ LastWords /\ Answered BY UnderWayIs
<1>2. /\ Asking /\ Said(<<>>) /\ UNCHANGED <<asked, results, round>>
      /\ Posts("answer", "answered") \/ (at' = "answered" /\ words' = words)
  BY DEF Answers, Ends
<1>3. at = "asking" /\ turn' = turn /\ gists' = gists /\ words = <<>> BY <1>2, AskingIs
<1>4. Over' /\ at' \notin {"asked", "moved on"} /\ LastWords' /\ OneWord'
  <2>1. CASE Posts("answer", "answered") BY <1>3, <2>1, PostsOnce
  <2>2. CASE at' = "answered" /\ words' = words
    <3>1. words' = <<>> BY <1>3, <2>2
    <3> QED BY <2>2, <3>1, NoWord DEF Over, LastWords, OneWord
  <2> QED BY <1>2, <2>1, <2>2
<1>5. round' \in 0..MostRounds /\ at' # "running" BY <1>1, <1>2, <1>4 DEF Counts, Over
<1>6. Guards' /\ Counts' /\ cut' \subseteq {results[n].id : n \in DOMAIN results}
  BY <1>2, <1>5, SaidTyped
<1>7. Place' /\ Talk' BY <1>1, <1>2, <1>3, <1>4, <1>6 DEF Place, Talk, Over
<1>8. Typed' BY <1>4, <1>6, <1>7 DEF Typed
<1>9. NumberedAtHome' BY <1>2, <1>3 DEF Inv, NumberedAtHome, Numbered, Before
<1>10. Known' /\ HasWhatItIsTold'
  <2>1. asked \in Seq(Asks) /\ results \in Seq(Comings) BY <1>1 DEF Talk
  <2>2. Grows(Asks, asked, asked') /\ Grows(Comings, results, results')
    BY <1>2, <2>1 DEF Grows
  <2>3. /\ NewCalls(asked, asked, replies + 1) /\ NewCalls(asked, asked', replies + 1)
        /\ NothingRan(results, results) /\ NothingRan(results, results')
    BY <1>2, <2>1, NoneNew
  <2>4. OfTheCalls(results', asked') BY <1>2, ResultsAreFirst DEF OfTheCalls, Inv
  <2> QED BY <1>2, <1>3, <1>9, <2>2, <2>3, <2>4, ReplyKeeps
<1>11. Answered'
  <2>1. Len(results) <= Len(asked)
        /\ \A n \in DOMAIN results : results[n].id = asked[n].id /\ results[n].call = asked[n].call
    BY <1>1 DEF Answered
  <2> QED BY <2>1, <1>2, <1>4 DEF Answered, Over
<1>12. Once' BY <1>4 DEF Once, Over, UnderWay
<1> QED BY <1>8, <1>9, <1>10, <1>11, <1>12 DEF Inv

\* What comes after a sequence that another is added to.
LEMMA AddedTo ==
  ASSUME NEW S, NEW old \in Seq(S), NEW more \in Seq(S)
  PROVE  /\ Grows(S, old, old \o more) /\ Len(old \o more) = Len(old) + Len(more)
         /\ \A n \in 1..Len(more) : (old \o more)[Len(old) + n] = more[n]
         /\ \A k \in (Len(old) + 1)..Len(old \o more) :
              k - Len(old) \in 1..Len(more) /\ (old \o more)[k] = more[k - Len(old)]
<1>1. /\ Len(old) \in Nat /\ Len(more) \in Nat
      /\ old \o more \in Seq(S) /\ Len(old \o more) = Len(old) + Len(more)
      /\ \A n \in 1..Len(old) : (old \o more)[n] = old[n]
      /\ \A n \in 1..Len(more) : (old \o more)[Len(old) + n] = more[n]
  OBVIOUS
<1>2. \A a, b \in Nat : \A k \in (a + 1)..(a + b) : k - a \in 1..b /\ a + (k - a) = k
  OBVIOUS
<1>3. \A k \in (Len(old) + 1)..Len(old \o more) :
        k - Len(old) \in 1..Len(more) /\ Len(old) + (k - Len(old)) = k
  BY <1>1, <1>2
<1>4. Len(old) <= Len(old \o more) BY <1>1
<1> QED BY <1>1, <1>3, <1>4 DEF Grows

\* The calls of a reply, after those there are.
LEMMA AskedMore ==
  ASSUME ConstantsFit, Inv, NEW calls \in Replies, turn' = turn,
         asked' = asked \o OwnIds(calls)
  PROVE  /\ Grows(Asks, asked, asked') /\ NewCalls(asked, asked', replies + 1)
         /\ NumberedAtHome'
         /\ Len(asked) \in Nat /\ Len(calls) \in Nat \ {0} /\ Len(asked') = Len(asked) + Len(calls)
         /\ \A n \in 1..Len(calls) : /\ asked'[Len(asked) + n] = OwnIds(calls)[n]
                                     /\ OwnIds(calls)[n].call = calls[n]
                                     /\ OwnIds(calls)[n].id \in Ids
<1>1. Typed /\ NumberedAtHome BY DEF Inv
<1>2. /\ OwnIds(calls) \in Seq(Asks) /\ Len(OwnIds(calls)) = Len(calls)
      /\ \A n \in 1..Len(calls) : OwnIds(calls)[n].call = calls[n]
                                  /\ OwnIds(calls)[n].reply = replies + 1
  BY <1>1, OwnIdsAre
<1>3. asked \in Seq(Asks) /\ Len(asked) \in Nat /\ Len(calls) \in Nat \ {0}
  BY <1>1, SequencesAre, RepliesAre
<1>4. \A n \in 1..Len(calls) : OwnIds(calls)[n].id \in Ids
  <2>1. \A n \in 1..Len(OwnIds(calls)) : OwnIds(calls)[n] \in Asks BY <1>2
  <2> QED BY <2>1, <1>2 DEF Asks
<1>5. NumberedAtHome'
  <2>1. turn.house => Numbered(asked \o OwnIds(calls)) BY <1>1, OwnIdsNumbered DEF NumberedAtHome
  <2> QED BY <2>1 DEF NumberedAtHome
<1> DEFINE new == OwnIds(calls)
<1>a. asked' = asked \o new /\ new \in Seq(Asks) BY <1>2
<1> HIDE DEF new
<1>6. /\ Grows(Asks, asked, asked') /\ Len(asked') = Len(asked) + Len(new)
      /\ \A n \in 1..Len(new) : asked'[Len(asked) + n] = new[n]
      /\ \A k \in (Len(asked) + 1)..Len(asked') :
           k - Len(asked) \in 1..Len(new) /\ asked'[k] = new[k - Len(asked)]
  BY <1>a, <1>3, AddedTo
<1>7. NewCalls(asked, asked', replies + 1) BY <1>2, <1>6 DEF NewCalls, new
<1> QED BY <1>2, <1>3, <1>4, <1>5, <1>6, <1>7 DEF new

\* The reply that runs: of what it added to the calls, only the last may end the turn.
LEMMA RunsToTheEnd ==
  ASSUME ConstantsFit, Inv, at = "asking", NEW calls \in Replies, turn' = turn,
         asked' = asked \o OwnIds(calls), results' = results, at' = "running",
         ~TurnEndingNotLast(calls)
  PROVE  Answered'
<1>1. /\ Grows(Asks, asked, asked')
      /\ Len(asked) \in Nat /\ Len(calls) \in Nat \ {0} /\ Len(asked') = Len(asked) + Len(calls)
      /\ \A n \in 1..Len(calls) : /\ asked'[Len(asked) + n] = OwnIds(calls)[n]
                                  /\ OwnIds(calls)[n].call = calls[n]
  BY AskedMore
<1>2. /\ Typed /\ Answered /\ Len(results) = Len(asked) /\ DOMAIN results = 1..Len(asked)
  BY UnderWayIs, SequencesAre
<1>3. DOMAIN calls = 1..Len(calls) BY RepliesAre
<1>4. \A a, b \in Nat : \A k \in (a + 1)..(a + b - 1) :
        k - a \in 1..b /\ a + (k - a) = k /\ k - a < b
  OBVIOUS
<1>5. \A k \in (Len(asked) + 1)..(Len(asked) + Len(calls) - 1) :
        /\ k - Len(asked) \in 1..Len(calls) /\ Len(asked) + (k - Len(asked)) = k
        /\ k - Len(asked) < Len(calls)
  BY <1>1, <1>4
<1>6. ASSUME NEW k \in (Len(asked) + 1)..(Len(asked) + Len(calls) - 1)
      PROVE  ~EndsTheTurn(asked'[k].call)
  <2>1. asked'[k].call = calls[k - Len(asked)] BY <1>1, <1>5
  <2>2. ~EndsTheTurn(calls[k - Len(asked)]) BY <1>3, <1>5 DEF TurnEndingNotLast
  <2> QED BY <2>1, <2>2
<1>7. \A n \in (Len(results') + 1)..(Len(asked') - 1) : ~EndsTheTurn(asked[n].call)'
  <2>1. Len(results') = Len(asked) /\ Len(asked') = Len(asked) + Len(calls) BY <1>1, <1>2
  <2>2. \A n \in (Len(results') + 1)..(Len(asked') - 1) : ~EndsTheTurn(asked'[n].call)
    BY <2>1, <1>6
  <2> QED BY <2>2 DEF EndsTheTurn
<1>8. Len(results') <= Len(asked') /\ Len(results') < Len(asked') BY <1>1, <1>2
<1>9. \A n \in DOMAIN results' :
        results'[n].id = asked'[n].id /\ results'[n].call = asked'[n].call
  <2>1. \A n \in DOMAIN results : asked'[n] = asked[n] BY <1>1, <1>2 DEF Grows
  <2> QED BY <2>1, <1>2, ResultsAreFirst
<1> QED BY <1>7, <1>8, <1>9 DEF Answered

\* The reply that is not run: each of its calls is answered with that.
NoneOf(calls) ==
  [n \in DOMAIN calls |->
    [id |-> OwnIds(calls)[n].id, call |-> calls[n], text |-> "nothing ran"]]

LEMMA NoneOfIs ==
  ASSUME ConstantsFit, Typed, NEW calls \in Replies
  PROVE  /\ NoneOf(calls) \in Seq(Comings) /\ Len(NoneOf(calls)) = Len(calls)
         /\ \A n \in 1..Len(calls) : /\ NoneOf(calls)[n].id = OwnIds(calls)[n].id
                                     /\ NoneOf(calls)[n].call = calls[n]
                                     /\ NoneOf(calls)[n].text = "nothing ran"
<1>1. calls \in Seq(Tools) /\ Len(calls) \in Nat /\ DOMAIN calls = 1..Len(calls) BY RepliesAre
<1>2. OwnIds(calls) \in Seq(Asks) /\ Len(OwnIds(calls)) = Len(calls) BY OwnIdsAre
<1>3. ASSUME NEW n \in 1..Len(calls)
      PROVE  /\ NoneOf(calls)[n] \in Comings
             /\ NoneOf(calls)[n].id = OwnIds(calls)[n].id /\ NoneOf(calls)[n].call = calls[n]
             /\ NoneOf(calls)[n].text = "nothing ran"
  <2>1. calls[n] \in Tools BY <1>1
  <2>2. OwnIds(calls)[n] \in Asks BY <1>2
  <2>3. OwnIds(calls)[n].id \in Ids BY <2>2 DEF Asks
  <2>4. NoneOf(calls)[n]
        = [id |-> OwnIds(calls)[n].id, call |-> calls[n], text |-> "nothing ran"]
    BY <1>1 DEF NoneOf
  <2> DEFINE id == OwnIds(calls)[n].id
             text == "nothing ran"
  <2>t. text \in Texts BY DEF Texts, Mute
  <2> HIDE DEF id, text
  <2>5. NoneOf(calls)[n] = [id |-> id, call |-> calls[n], text |-> text] /\ id \in Ids
    BY <2>3, <2>4 DEF id, text
  <2>6. NoneOf(calls)[n] \in Comings BY <2>1, <2>t, <2>5 DEF Comings
  <2>7. /\ NoneOf(calls)[n].id = id /\ NoneOf(calls)[n].call = calls[n]
        /\ NoneOf(calls)[n].text = text
    BY <2>5
  <2> QED BY <2>6, <2>7 DEF id, text
<1>4. NoneOf(calls) \in [1..Len(calls) -> Comings]
  <2>1. NoneOf(calls) = [n \in 1..Len(calls) |-> NoneOf(calls)[n]] BY <1>1 DEF NoneOf
  <2> QED BY <2>1, <1>3
<1>5. NoneOf(calls) \in Seq(Comings) /\ Len(NoneOf(calls)) = Len(calls) BY <1>1, <1>4
<1> QED BY <1>3, <1>5

LEMMA NoneRuns ==
  ASSUME ConstantsFit, Inv, at = "asking", NEW calls \in Replies, turn' = turn,
         asked' = asked \o OwnIds(calls), at' = "asking", results' = results \o NoneOf(calls)
  PROVE  /\ Answered' /\ OfTheCalls(results', asked')
         /\ Grows(Comings, results, results') /\ NothingRan(results, results')
<1>1. /\ Grows(Asks, asked, asked')
      /\ Len(asked) \in Nat /\ Len(asked') = Len(asked) + Len(calls)
      /\ \A n \in 1..Len(calls) : /\ asked'[Len(asked) + n] = OwnIds(calls)[n]
                                  /\ OwnIds(calls)[n].call = calls[n]
  BY AskedMore
<1>2. /\ Typed /\ Answered /\ Len(results) = Len(asked) /\ results \in Seq(Comings)
  BY UnderWayIs, SequencesAre
<1>3. /\ NoneOf(calls) \in Seq(Comings) /\ Len(NoneOf(calls)) = Len(calls)
      /\ \A n \in 1..Len(calls) : /\ NoneOf(calls)[n].id = OwnIds(calls)[n].id
                                  /\ NoneOf(calls)[n].call = calls[n]
                                  /\ NoneOf(calls)[n].text = "nothing ran"
  BY <1>2, NoneOfIs
<1> DEFINE none == NoneOf(calls)
<1>a. results' = results \o none /\ none \in Seq(Comings) BY <1>3
<1> HIDE DEF none
<1>4. /\ Grows(Comings, results, results \o none)
      /\ Len(results \o none) = Len(results) + Len(none)
      /\ \A k \in (Len(results) + 1)..Len(results \o none) :
           k - Len(results) \in 1..Len(none) /\ (results \o none)[k] = none[k - Len(results)]
  BY <1>2, <1>a, AddedTo
<1>4a. /\ Grows(Comings, results, results') /\ Len(results') = Len(results) + Len(none)
      /\ \A k \in (Len(results) + 1)..Len(results') :
           k - Len(results) \in 1..Len(none) /\ results'[k] = none[k - Len(results)]
  BY <1>4, <1>a
<1>5. /\ Grows(Comings, results, results') /\ Len(results') = Len(asked) + Len(calls)
      /\ \A k \in (Len(results) + 1)..Len(results') :
           k - Len(results) \in 1..Len(calls) /\ results'[k] = NoneOf(calls)[k - Len(results)]
  BY <1>2, <1>3, <1>4a DEF none
<1>6. NothingRan(results, results') BY <1>3, <1>5 DEF NothingRan
<1>7. Len(results') = Len(asked') BY <1>1, <1>5
<1>8. ASSUME NEW n \in DOMAIN results'
      PROVE  results'[n].id = asked'[n].id /\ results'[n].call = asked'[n].call
  <2>1. CASE n \in DOMAIN results
    <3>1. results'[n] = results[n] BY <2>1, <1>5, GrownIs
    <3>2. asked'[n] = asked[n] BY <2>1, <1>1, <1>2, ResultsAreFirst, GrownIs
    <3> QED BY <3>1, <3>2, <2>1, <1>2, ResultsAreFirst
  <2>2. CASE n \notin DOMAIN results
    <3>1. n \in (Len(results) + 1)..Len(results') BY <2>2, <1>5, GrownIs
    <3>2. n - Len(results) \in 1..Len(calls) /\ results'[n] = NoneOf(calls)[n - Len(results)]
      BY <3>1, <1>5
    <3>3. asked'[Len(asked) + (n - Len(results))] = OwnIds(calls)[n - Len(results)]
      BY <3>2, <1>1
    <3>4. Len(asked) + (n - Len(results)) = n
      <4>1. Len(asked) \in Nat /\ Len(results) = Len(asked) BY <1>1, <1>2
      <4>2. \A a \in Nat : \A b : \A k \in (a + 1)..b : a + (k - a) = k OBVIOUS
      <4> QED BY <4>1, <4>2, <3>1
    <3> QED BY <3>2, <3>3, <3>4, <1>1, <1>3
  <2> QED BY <2>1, <2>2
<1>9. DOMAIN results' = 1..Len(results') /\ DOMAIN asked' = 1..Len(asked') /\ Len(asked') \in Nat
  BY <1>1, <1>5, GrownIs
<1>10. OfTheCalls(results', asked') BY <1>7, <1>8, <1>9 DEF OfTheCalls
<1>11. Answered'
  <2>1. Len(results') <= Len(asked') BY <1>7, <1>9
  <2> QED BY <2>1, <1>7, <1>8 DEF Answered
<1> QED BY <1>5, <1>6, <1>10, <1>11

LEMMA CallsToolsGood == ASSUME ConstantsFit, Inv, CallsTools PROVE Inv'
<1>1. Place /\ Talk /\ Counts /\ LastWords /\ Answered /\ Typed BY UnderWayIs
<1>2. Asking /\ words' = words /\ over' = over BY DEF CallsTools
<1>3. at = "asking" /\ turn' = turn /\ gists' = gists /\ words = <<>> /\ ~over /\ round < MostRounds
  BY <1>2, AskingIs
<1>4. PICK calls \in Replies :
        /\ Said(calls) /\ asked' = asked \o OwnIds(calls)
        /\ \/ /\ TurnEndingNotLast(calls) /\ results' = results \o NoneOf(calls)
              /\ round' = round + 1 /\ at' = at
           \/ /\ ~TurnEndingNotLast(calls) /\ at' = "running" /\ results' = results
              /\ round' = round
  BY DEF CallsTools, NoneOf
<1>5. /\ Grows(Asks, asked, asked') /\ NewCalls(asked, asked', replies + 1) /\ NumberedAtHome'
      /\ \A n \in DOMAIN asked : n \in DOMAIN asked' /\ asked'[n] = asked[n]
  BY <1>3, <1>4, AskedMore, GrownIs
<1>6. /\ Answered' /\ OfTheCalls(results', asked') /\ at' \in {"asking", "running"}
      /\ Grows(Comings, results, results') /\ NothingRan(results, results')
      /\ round' \in 0..MostRounds
      /\ at' = "running" => round' < MostRounds
  <2>0. round \in 0..MostRounds BY <1>1 DEF Counts
  <2>1. CASE /\ TurnEndingNotLast(calls) /\ results' = results \o NoneOf(calls)
             /\ round' = round + 1 /\ at' = at
    <3>1. at' = "asking" BY <1>3, <2>1
    <3>2. /\ Answered' /\ OfTheCalls(results', asked')
          /\ Grows(Comings, results, results') /\ NothingRan(results, results')
      BY <1>3, <1>4, <2>1, <3>1, NoneRuns
    <3>3. round' \in 0..MostRounds
      <4>1. MostRounds \in Nat BY DEF ConstantsFit
      <4> QED BY <4>1, <2>0, <2>1, <1>3
    <3> QED BY <3>1, <3>2, <3>3
  <2>2. CASE ~TurnEndingNotLast(calls) /\ at' = "running" /\ results' = results /\ round' = round
    <3>1. Answered' BY <1>3, <1>4, <2>2, RunsToTheEnd
    <3>2. results \in Seq(Comings) /\ asked \in Seq(Asks) BY <1>1, SequencesAre
    <3>3. NothingRan(results, results) BY <3>2, NoneNew
    <3>4. Grows(Comings, results, results) BY <3>2 DEF Grows
    <3>5. \A n \in DOMAIN results : n \in DOMAIN asked' /\ results[n].id = asked'[n].id
      BY <1>1, <1>5, ResultsAreFirst
    <3>6. OfTheCalls(results', asked') BY <2>2, <3>5 DEF OfTheCalls
    <3>7. round' \in 0..MostRounds /\ round' < MostRounds BY <2>0, <2>2, <1>3
    <3> QED BY <2>2, <3>1, <3>3, <3>4, <3>6, <3>7
  <2> QED BY <1>4, <2>1, <2>2
<1>7. Known' /\ HasWhatItIsTold' BY <1>3, <1>4, <1>5, <1>6, ReplyKeeps
<1>8. Guards' /\ Counts' /\ NotEnding' /\ cut' \subseteq {results[n].id : n \in DOMAIN results}
  <2>1. Said(calls) /\ (at' = "running" => round' < MostRounds) /\ round' \in 0..MostRounds
    BY <1>4, <1>6
  <2> QED BY <1>2, <2>1, SaidTyped
<1>9. Talk'
  <2>1. asked' \in Seq(Asks) /\ results' \in Seq(Comings) BY <1>5, <1>6 DEF Grows
  <2>2. \A n \in DOMAIN results : n \in DOMAIN results' /\ results'[n] = results[n]
    BY <1>6, GrownIs
  <2>3. cut' \subseteq {results'[n].id : n \in DOMAIN results'} BY <1>8, <2>2
  <2>4. gists \subseteq {asked[n].id : n \in DOMAIN asked} BY <1>1 DEF Talk
  <2>5. gists' \subseteq {asked'[n].id : n \in DOMAIN asked'} BY <2>4, <1>3, <1>5
  <2> QED BY <2>1, <2>3, <2>5 DEF Talk
<1>10. Place' BY <1>1, <1>3, <1>6 DEF Place
<1>11. LastWords' BY <1>1, <1>2 DEF LastWords
<1>12. Typed' BY <1>8, <1>9, <1>10, <1>11 DEF Typed
<1>13. OneWord'
  <2>1. words' = <<>> BY <1>2, <1>3
  <2> QED BY <2>1, NoWord DEF OneWord
<1>14. Once' BY <1>2, <1>3, <1>8, <1>13 DEF Once
<1> QED BY <1>5, <1>6, <1>7, <1>12, <1>14 DEF Inv

LEMMA RunningIs ==
  ASSUME Inv, NEW c, Running(c)
  PROVE  /\ at = "running" /\ Call.call = c /\ c \in Tools
         /\ Typed /\ Guards /\ Counts /\ LastWords /\ Answered
         /\ ~over /\ words = <<>> /\ NotEnding
<1>1. at = "running" /\ Call.call = c BY DEF Running
<1>2. /\ Typed /\ Guards /\ Counts /\ LastWords /\ Answered
      /\ UnderWay => ~over /\ words = <<>> /\ NotEnding
  BY UnderWayIs
<1>3. c \in Tools BY <1>1, <1>2, CallIs
<1>4. UnderWay BY <1>1 DEF UnderWay
<1> QED BY <1>1, <1>2, <1>3, <1>4

LEMMA TextsAre ==
  /\ {"already", "unreadable", "found", "yours", "no such", "refused", "ended", "claimed"}
       \subseteq Texts
  /\ Words \subseteq Texts
  /\ \A text \in {"found", "yours", "no such", "refused", "ended", "claimed"} : text \notin Mute
  /\ ConstantsFit => \A text \in Words : text \notin Mute
  BY DEF Texts, Mute, ConstantsFit

LEMMA GuardRests ==
  ASSUME Guards, NotEnding, UNCHANGED <<turn, last, said, given>>
  PROVE  Guards' /\ NotEnding'
  BY DEF Guards, NotEnding, EndsTheTurn

\* A call the guard does not know of, or that was not sent: it learns nothing of it.
LEMMA LearnsNothing ==
  ASSUME Guards, said' = said, NEW text,
         text \in Mute \/ Call.call \in Own \cup {"find_tools"},
         text # "already" \/ Call.call \in DOMAIN said
  PROVE  Learns(text)
  BY DEF Guards, Learns

\* A step that fails or finds the turn over where a call runs.
LEMMA EndsHereGood ==
  ASSUME ConstantsFit, Inv, NEW c, Running(c), at' \in {"failed", "over"},
         UNCHANGED <<turn, asked, results, cut, gists, last, said, given, later, words>>,
         UNCHANGED <<read, round, free, replies>>
  PROVE  Inv'
<1>1. Guards /\ Counts /\ LastWords /\ words = <<>> /\ NotEnding BY RunningIs
<1>2. Guards' BY <1>1, GuardRests
<1>3. Counts' BY <1>1 DEF Counts
<1>4. LastWords' BY <1>1 DEF LastWords
<1>5. OneWord'
  <2>1. words' = <<>> BY <1>1
  <2> QED BY <2>1, NoWord DEF OneWord
<1>6. Over' /\ at' \notin {"asked", "moved on"} BY DEF Over
<1> QED BY <1>2, <1>3, <1>4, <1>5, <1>6, EndKeeps

LEMMA FindToolsGood == ASSUME ConstantsFit, Inv, FindTools PROVE Inv'
<1>1. Running("find_tools") BY DEF FindTools
<1>2. /\ at = "running" /\ Call.call = "find_tools" /\ Guards /\ Counts
      /\ ~over /\ words = <<>> /\ NotEnding
  BY <1>1, RunningIs
<1>3. /\ UNCHANGED <<turn, asked, cut, replies, words>> /\ over' = over
      /\ UNCHANGED <<turn, last, said, given>> /\ gists' = gists /\ read' = read
  BY DEF FindTools, Still, guard
<1>4. read' \in Nat /\ later' \in Nat
  <2>1. later' = later \/ (later > 0 /\ later' = later - 1) BY DEF FindTools
  <2>2. read \in Nat /\ later \in Nat BY <1>2 DEF Counts
  <2>3. read' = read BY <1>3
  <2> QED BY <2>1, <2>2, <2>3
<1>5. PICK text \in {"found", "yours", "no such"}, yours \in BOOLEAN :
        Comes(text) /\ GoesOn(yours)
  BY DEF FindTools
<1>6. Guards' /\ NotEnding' BY <1>2, <1>3, GuardRests
<1>7. text \in Texts /\ text \notin Mute /\ text # "already" BY TextsAre DEF Mute
<1>8. Learns(text) BY <1>2, <1>3, <1>7, LearnsNothing
<1> QED BY <1>2, <1>3, <1>4, <1>5, <1>6, <1>7, <1>8, GoesOnWell

LEMMA InTheSandboxGood ==
  ASSUME ConstantsFit, Inv, NEW c, InTheSandbox(c) PROVE Inv'
<1>1. Running(c) /\ c \in Own BY DEF InTheSandbox
<1>2. /\ at = "running" /\ Call.call = c /\ Guards /\ Counts
      /\ ~over /\ words = <<>> /\ NotEnding
  BY <1>1, RunningIs
<1>3. /\ UNCHANGED <<turn, asked, cut, replies, words>> /\ over' = over
      /\ UNCHANGED <<turn, last, said, given>> /\ gists' = gists /\ read' = read /\ later' = later
  BY DEF InTheSandbox, Still, guard
<1>4. CASE \E text \in Words \cup {"refused"} : Comes(text) /\ GoesOn(FALSE)
  <2>1. PICK text \in Words \cup {"refused"} : Comes(text) /\ GoesOn(FALSE) BY <1>4
  <2>2. text \in Texts /\ text # "already" BY TextsAre DEF Mute
  <2>3. Learns(text) BY <1>1, <1>2, <1>3, <2>2, LearnsNothing
  <2>4. Guards' /\ NotEnding' BY <1>2, <1>3, GuardRests
  <2>5. read' \in Nat /\ later' \in Nat BY <1>2, <1>3 DEF Counts
  <2> QED BY <1>2, <1>3, <2>1, <2>2, <2>3, <2>4, <2>5, GoesOnWell
<1>5. CASE at' = "over" /\ UNCHANGED <<results, round, free>>
  BY <1>1, <1>3, <1>5, EndsHereGood
<1> QED BY <1>4, <1>5 DEF InTheSandbox, Ends

LEMMA UnreadableGood ==
  ASSUME ConstantsFit, Inv, NEW c, Unreadable(c) PROVE Inv'
<1>1. Running(c) /\ Comes("unreadable") /\ GoesOn(FALSE) BY DEF Unreadable, Guarded
<1>2. /\ at = "running" /\ Guards /\ Counts /\ ~over /\ words = <<>> /\ NotEnding
  BY <1>1, RunningIs
<1>3. /\ UNCHANGED <<turn, asked, cut, replies, words>> /\ over' = over
      /\ UNCHANGED <<turn, last, said, given>> /\ gists' = gists /\ read' = read /\ later' = later
  BY DEF Unreadable, Still, guard
<1>4. "unreadable" \in Texts /\ "unreadable" \in Mute BY TextsAre DEF Mute
<1>5. Learns("unreadable") BY <1>2, <1>3, <1>4, LearnsNothing
<1>6. Guards' /\ NotEnding' BY <1>2, <1>3, GuardRests
<1>7. read' \in Nat /\ later' \in Nat BY <1>2, <1>3 DEF Counts
<1> QED BY <1>1, <1>2, <1>3, <1>4, <1>5, <1>6, <1>7, GoesOnWell

LEMMA StraightAgainGood ==
  ASSUME ConstantsFit, Inv, NEW c, StraightAgain(c) PROVE Inv'
<1>1. Running(c) /\ c \in DOMAIN said /\ Comes("already") /\ GoesOn(FALSE)
  BY DEF StraightAgain, Guarded
<1>2. /\ at = "running" /\ Call.call = c
      /\ Guards /\ Counts /\ ~over /\ words = <<>> /\ NotEnding
  BY <1>1, RunningIs
<1>3. /\ UNCHANGED <<turn, asked, cut, replies, words>> /\ over' = over
      /\ UNCHANGED <<turn, last, said, given>> /\ gists' = gists /\ read' = read /\ later' = later
  BY DEF StraightAgain, Still, guard
<1>4. "already" \in Texts /\ "already" \in Mute BY TextsAre DEF Mute
<1>5. Learns("already") BY <1>1, <1>2, <1>3, <1>4, LearnsNothing
<1>6. Guards' /\ NotEnding' BY <1>2, <1>3, GuardRests
<1>7. read' \in Nat /\ later' \in Nat BY <1>2, <1>3 DEF Counts
<1> QED BY <1>1, <1>2, <1>3, <1>4, <1>5, <1>6, <1>7, GoesOnWell

\* What the guard knows once a call came to text.
SaidOf(c, text) == [d \in DOMAIN said \cup {c} |-> IF d = c THEN text ELSE said[d]]

LEMMA SaidOfIs ==
  ASSUME Guards, NEW c \in Tools \ (Own \cup {"find_tools"}), NEW text \in Texts,
         said' = SaidOf(c, text), last' = c, given' \subseteq given, turn' = turn
  PROVE  /\ Guards' /\ DOMAIN said' = DOMAIN said \cup {c} /\ said'[c] = text
         /\ \A d \in DOMAIN said \ {c} : said'[d] = said[d]
         /\ NotEnding /\ text # "ended" /\ (EndsTheTurn(c) => text = "refused") => NotEnding'
<1>1. /\ said \in [DOMAIN said -> Texts] /\ DOMAIN said \subseteq Tools \ (Own \cup {"find_tools"})
      /\ given \subseteq {"claim"}
  BY Zenon DEF Guards
<1>2. /\ DOMAIN said' = DOMAIN said \cup {c} /\ said'[c] = text
      /\ \A d \in DOMAIN said \ {c} : said'[d] = said[d]
  BY DEF SaidOf
<1>3. said' \in [DOMAIN said' -> Texts]
  <2>1. \A d \in DOMAIN said \cup {c} : (IF d = c THEN text ELSE said[d]) \in Texts BY <1>1
  <2> QED BY <2>1, <1>2 DEF SaidOf
<1>4. Guards' BY <1>1, <1>2, <1>3 DEF Guards
<1>5. ASSUME NotEnding, text # "ended", EndsTheTurn(c) => text = "refused" PROVE NotEnding'
  BY <1>2, <1>5 DEF NotEnding, EndsTheTurn
<1> QED BY <1>2, <1>4, <1>5

LEMMA FromGivenGood ==
  ASSUME ConstantsFit, Inv, NEW c, FromGiven(c) PROVE Inv'
<1>1. /\ Running(c) /\ c \notin Own \cup {"find_tools"} /\ c \in given
      /\ Comes("claimed") /\ GoesOn(FALSE)
  BY DEF FromGiven, Guarded
<1>2. /\ at = "running" /\ Call.call = c /\ c \in Tools
      /\ Guards /\ Counts /\ ~over /\ words = <<>> /\ NotEnding
  BY <1>1, RunningIs
<1>3. /\ UNCHANGED <<turn, asked, cut, replies, words>> /\ over' = over
      /\ gists' = gists /\ read' = read /\ later' = later
      /\ given' = given \ {c} /\ last' = c /\ said' = SaidOf(c, "claimed")
  BY DEF FromGiven, Still, SaidOf
<1>4. "claimed" \in Texts /\ "claimed" \notin Mute /\ "claimed" # "already" /\ "claimed" # "ended"
  BY TextsAre DEF Mute
<1>5. ~EndsTheTurn(c)
  <2>1. c = "claim" BY <1>1, <1>2 DEF Guards
  <2> QED BY <2>1 DEF EndsTheTurn
<1>6. /\ Guards' /\ DOMAIN said' = DOMAIN said \cup {c} /\ said'[c] = "claimed"
      /\ \A d \in DOMAIN said \ {c} : said'[d] = said[d]
      /\ NotEnding'
  BY <1>1, <1>2, <1>3, <1>4, <1>5, SaidOfIs
<1>7. Learns("claimed") BY <1>2, <1>4, <1>6 DEF Learns
<1>8. read' \in Nat /\ later' \in Nat BY <1>2, <1>3 DEF Counts
<1> QED BY <1>1, <1>2, <1>3, <1>4, <1>6, <1>7, <1>8, GoesOnWell

\* A gist read or not.
LEMMA GistIs ==
  ASSUME ConstantsFit, Typed, NEW c, NEW text, Gist(c, text)
  PROVE  read' \in Nat /\ gists' \subseteq gists \cup {Call.id}
<1>1. read \in Nat /\ Weight \in Nat
  <2>1. Weight \in Nat \ {0} BY Zenon DEF ConstantsFit
  <2>2. read \in Nat BY DEF Typed, Counts
  <2> QED BY <2>1, <2>2
<1>2. read + Weight + 1 \in Nat BY <1>1
<1> QED BY <1>1, <1>2 DEF Gist

\* A call that was sent came to text: it is told that it has that, or told it, and the turn
\* goes on or ends there.
CameTo(c, text, asks, moves) ==
  /\ said' = SaidOf(c, text) /\ last' = c /\ over' = (asks \/ moves)
  /\ \/ /\ c \in DOMAIN said /\ said[c] = text /\ ~asks
        /\ Comes("already") /\ GoesOn(FALSE) /\ UNCHANGED <<read, gists>>
     \/ /\ Comes(text)
        /\ \/ /\ asks \/ moves
              /\ EndsThere(IF asks THEN "asked" ELSE "moved on") /\ UNCHANGED <<read, gists>>
           \/ ~asks /\ ~moves /\ GoesOn(FALSE) /\ Gist(c, text)
AsksBy(c, text, approval) == text # "refused" /\ (c = "ask_owner" \/ approval)
MovesBy(c, text) == text = "ended" \/ (text # "refused" /\ EndsTheTurn(c))

LEMMA SentGood ==
  ASSUME ConstantsFit, Inv, NEW c, Sent(c) PROVE Inv'
<1>1. Running(c) /\ c \notin Own \cup {"find_tools"} BY DEF Sent, Guarded
<1>2. /\ at = "running" /\ Call.call = c /\ c \in Tools /\ Typed
      /\ Guards /\ Counts /\ ~over /\ words = <<>> /\ NotEnding
  BY <1>1, RunningIs
<1>3. /\ UNCHANGED <<turn, asked, cut, replies, words>> /\ given' = given /\ later' = later
  BY DEF Sent, Still
<1>4. ASSUME NEW text \in Words \cup {"refused", "ended"}, NEW asks \in BOOLEAN,
             NEW moves \in BOOLEAN, moves = MovesBy(c, text), CameTo(c, text, asks, moves)
      PROVE  Inv'
  <2>0. said' = SaidOf(c, text) /\ last' = c /\ over' = (asks \/ moves)
    BY <1>4 DEF CameTo
  <2>1. text \in Texts /\ text \notin Mute /\ text # "already" BY TextsAre DEF Mute
  <2>2. /\ Guards' /\ DOMAIN said' = DOMAIN said \cup {c} /\ said'[c] = text
        /\ \A d \in DOMAIN said \ {c} : said'[d] = said[d]
        /\ text # "ended" /\ (EndsTheTurn(c) => text = "refused") => NotEnding'
    BY <1>1, <1>2, <1>3, <2>0, <2>1, SaidOfIs
  <2>3. ~moves => NotEnding' BY <1>2, <1>4, <2>2 DEF MovesBy
  <2>4. read \in Nat /\ later' \in Nat BY <1>2, <1>3 DEF Counts
  <2>5. CASE /\ c \in DOMAIN said /\ said[c] = text /\ ~asks
             /\ Comes("already") /\ GoesOn(FALSE) /\ UNCHANGED <<read, gists>>
    <3>1. ~moves BY <1>2, <1>4, <2>5 DEF NotEnding, MovesBy
    <3>2. "already" \in Texts /\ "already" \in Mute BY TextsAre DEF Mute
    <3>3. Learns("already")
      <4>1. \A d \in DOMAIN said' : d \in DOMAIN said /\ said'[d] = said[d] BY <2>2, <2>5
      <4> QED BY <4>1, <3>2, <2>5, <1>2 DEF Learns
    <3>4. ~over' /\ gists' = gists /\ read' \in Nat BY <2>0, <2>4, <2>5, <3>1
    <3> QED BY <1>2, <1>3, <2>2, <2>3, <2>4, <2>5, <3>1, <3>2, <3>3, <3>4, GoesOnWell
  <2>6. Comes(text) => Learns(text) BY <2>1, <2>2, <1>2 DEF Learns
  <2>7. CASE /\ Comes(text) /\ (asks \/ moves)
             /\ EndsThere(IF asks THEN "asked" ELSE "moved on") /\ UNCHANGED <<read, gists>>
    <3>1. at' \in {"asked", "moved on"} /\ UNCHANGED <<round, free>>
      BY <2>7 DEF EndsThere, Ends
    <3> QED BY <1>2, <1>3, <2>1, <2>2, <2>6, <2>7, <3>1, EndsWell
  <2>8. CASE Comes(text) /\ ~asks /\ ~moves /\ GoesOn(FALSE) /\ Gist(c, text)
    <3>1. read' \in Nat /\ gists' \subseteq gists \cup {Call.id} BY <1>2, <2>8, GistIs
    <3>2. ~over' BY <2>0, <2>8
    <3> QED BY <1>2, <1>3, <2>1, <2>2, <2>3, <2>4, <2>6, <2>8, <3>1, <3>2, GoesOnWell
  <2> QED BY <1>4, <2>5, <2>7, <2>8 DEF CameTo
<1>5. CASE /\ at' \in {"failed", "over"}
           /\ UNCHANGED <<results, gists, last, said, already, read, round, free>>
  BY <1>1, <1>3, <1>5, EndsHereGood
<1>6. CASE \E text \in Words \cup {"refused", "ended"}, approval \in {FALSE, (c \in OnTheNode)} :
             CameTo(c, text, AsksBy(c, text, approval), MovesBy(c, text))
  <2>1. PICK text \in Words \cup {"refused", "ended"}, approval \in {FALSE, (c \in OnTheNode)} :
          CameTo(c, text, AsksBy(c, text, approval), MovesBy(c, text))
    BY <1>6
  <2>2. AsksBy(c, text, approval) \in BOOLEAN /\ MovesBy(c, text) \in BOOLEAN
    BY DEF AsksBy, MovesBy
  <2> QED BY <1>4, <2>1, <2>2
<1> QED BY <1>5, <1>6 DEF Sent, CameTo, AsksBy, MovesBy, SaidOf, Stops, Ends

---------------------------------------------------------------------------
(* The theorems.                                                           *)

LEMMA InvNext == ConstantsFit /\ Inv /\ [Next]_vars => Inv'
<1> SUFFICES ASSUME ConstantsFit, Inv, [Next]_vars PROVE Inv' OBVIOUS
<1>1. CASE UNCHANGED vars
  <2>1. /\ UNCHANGED <<turn, at, asked, results, cut, gists, said, last, given, later>>
        /\ UNCHANGED <<read, round, free, replies, words, over>>
    BY <1>1 DEF vars, guard, count
  <2>2. Known' /\ HasWhatItIsTold' /\ NumberedAtHome' BY <2>1, RestKeeps
  <2>3. Typed'
    BY <2>1 DEF Inv, Typed, Place, Talk, Guards, Counts, LastWords
  <2>4. Answered' BY <2>1 DEF Inv, Answered, EndsTheTurn
  <2>5. Once' BY <2>1 DEF Inv, Once, UnderWay, NotEnding, OneWord, EndsTheTurn
  <2> QED BY <2>2, <2>3, <2>4, <2>5 DEF Inv
<1>2. ASSUME NEW c \in Tools,
             InTheSandbox(c) \/ Unreadable(c) \/ FromGiven(c) \/ StraightAgain(c) \/ Sent(c)
      PROVE  Inv'
  BY <1>2, InTheSandboxGood, UnreadableGood, FromGivenGood, StraightAgainGood, SentGood
<1> QED
  BY <1>1, <1>2, OpenGood, OutGood, AskFailsGood, AnswersGood, CallsToolsGood, FindToolsGood
     DEF Next

LEMMA Always == ASSUME ConstantsFit PROVE Spec => []Inv
<1> QED BY InitGood, InvNext, PTL DEF Spec

\* Every step is of a turn under way: nothing follows its end.
LEMMA StepsAreUnderWay == ASSUME Next PROVE UnderWay
<1>1. CASE Open BY <1>1 DEF Open, UnderWay
<1>2. CASE OutOfRoom \/ OutOfRounds BY <1>2 DEF OutOfRoom, OutOfRounds, UnderWay
<1>3. CASE AskFails \/ Answers \/ CallsTools
  BY <1>3 DEF AskFails, Answers, CallsTools, Asking, UnderWay
<1>4. CASE FindTools BY <1>4 DEF FindTools, Running, UnderWay
<1>5. ASSUME NEW c \in Tools,
             InTheSandbox(c) \/ Unreadable(c) \/ FromGiven(c) \/ StraightAgain(c) \/ Sent(c)
      PROVE  UnderWay
  BY <1>5 DEF InTheSandbox, Unreadable, FromGiven, StraightAgain, Sent, Guarded, Running, UnderWay
<1> QED BY <1>1, <1>2, <1>3, <1>4, <1>5 DEF Next

\* Everything a turn keeps is of its kind, whatever the model replies.
THEOREM TypesKept == ASSUME ConstantsFit PROVE Spec => []TypeOK
<1>1. Inv => TypeOK
  <2> SUFFICES ASSUME Inv PROVE TypeOK OBVIOUS
  <2>1. Typed /\ Place /\ Talk /\ Guards /\ Counts /\ LastWords /\ Answered BY UnderWayIs
  <2>2. cut \cup gists \subseteq {asked[n].id : n \in DOMAIN asked}
    BY <2>1, ResultsAreFirst DEF Talk
  <2>3. DOMAIN said \subseteq Tools /\ last \in Tools \cup {NoCall} /\ given \subseteq {"claim"}
    BY <2>1 DEF Guards
  <2>4. /\ {read, round, free, replies, later} \subseteq Nat
        /\ round <= MostRounds /\ free <= FreeRounds
    <3>1. MostRounds \in Nat /\ FreeRounds \in Nat BY DEF ConstantsFit
    <3> QED BY <3>1, <2>1 DEF Counts
  <2>5. \A n \in DOMAIN words : words[n] \in {"answer", "continues", "unfinished"}
    BY <2>1 DEF LastWords
  <2> QED BY <2>1, <2>2, <2>3, <2>4, <2>5 DEF TypeOK, Place
<1> QED BY <1>1, Always, PTL

\* Whatever the model asks for and however HQ, the node and the sandbox answer it, a prompt never
\* holds a call without its result, nor on a house turn two calls under one id: the numbers the
\* worker gives set apart what a server numbers alike, even within a reply, and a reply that
\* would end the turn before its last call runs nothing and has each of its calls answered
\* (turn.rs, turn, own_ids and turn_ending_not_last).
THEOREM EveryCallIsAnswered == ASSUME ConstantsFit PROVE Spec => []EveryCallAnswered
<1>1. Inv => EveryCallAnswered
  <2> SUFFICES ASSUME Inv PROVE EveryCallAnswered OBVIOUS
  <2>1. Typed /\ Answered /\ NumberedAtHome BY DEF Inv
  <2>2. ASSUME turn.house, NEW m \in DOMAIN asked, NEW n \in DOMAIN asked, asked[m].id = asked[n].id
        PROVE  m = n
    <3>1. asked \in Seq(Asks) /\ Numbered(asked) BY <2>1, <2>2, SequencesAre DEF NumberedAtHome
    <3> QED BY <2>2, <3>1, NumberedApart
  <2>3. \/ at = "asking"
        \/ at \in {"asked", "moved on"} /\ EndsTheTurn(results[Len(results)].call)
        => Len(results) = Len(asked)
    BY <2>1 DEF Answered
  <2>4. \A n \in DOMAIN results :
          results[n].id = asked[n].id /\ results[n].call = asked[n].call
    BY <2>1 DEF Answered
  <2> QED BY <2>2, <2>3, <2>4 DEF EveryCallAnswered
<1> QED BY <1>1, Always, PTL

\* The repeat guard never tells the model it has what was cut from what it reads: what a reply
\* cuts is forgotten with it, and nothing else takes a result away (turn.rs, run and
\* `already` and `forget`).  The argument is that of Known: whatever the guard remembers of a
\* call is what its latest result says, and that one is read whole.
THEOREM HasIt == ASSUME ConstantsFit PROVE Spec => []HasWhatItIsTold
<1>1. Inv => HasWhatItIsTold BY DEF Inv
<1> QED BY <1>1, Always, PTL

\* A turn has at most one last word at HQ, and after a call that ends it was sent or came back as
\* such nothing more of it is asked, run or posted (turn.rs, turn and last_word).
THEOREM OneEnd == ASSUME ConstantsFit PROVE Spec => EndsOnce
<1>1. Inv /\ Inv' /\ [Next]_vars =>
        [/\ over => UNCHANGED <<asked, results, replies, words>>
         /\ Len(words') <= 1
         /\ words' = <<"continues">> => at' \in {"out of room", "failed", "over"} ]_vars
  <2> SUFFICES ASSUME Inv, Inv', Next
               PROVE  /\ over => UNCHANGED <<asked, results, replies, words>>
                      /\ Len(words') <= 1
                      /\ words' = <<"continues">> => at' \in {"out of room", "failed", "over"}
    OBVIOUS
  <2>1. ~over BY StepsAreUnderWay, UnderWayIs
  <2>2. OneWord' BY DEF Inv, Once
  <2> QED BY <2>1, <2>2 DEF OneWord
<1> QED BY <1>1, Always, PTL DEF Spec, EndsOnce
=============================================================================
