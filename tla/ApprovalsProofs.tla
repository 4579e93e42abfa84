-------------------------- MODULE ApprovalsProofs --------------------------
(***************************************************************************)
(* Proofs about Approvals.                                                 *)
(*                                                                         *)
(* The invariant is in parts: the types (Shapes); an ask before its number *)
(* is kept (Unasked); what a decision under way knows (TapIs); that no two *)
(* decisions run one ask (Once); that each run, and each decision on its   *)
(* way to one, has a yes of its own that HQ took (Paid); that a row says   *)
(* no other than its item (Follows); and what the member was told (Told).  *)
(***************************************************************************)
EXTENDS Approvals, FiniteSetTheorems, SequenceTheorems, WellFoundedInduction, TLAPS

RowSet  == [status : {"none", "waiting", "refused", "expired", "declined", "approved"},
            item : Nat, late : BOOLEAN]
AskSet  == [at : {"idle", "posting", "answered", "done"}, item : Nat]
TapSet  == [at : {"idle", "straight", "looking", "posting", "decided", "running", "telling", "done"},
            item : Nat, of : Asks \cup {Nobody},
            seen : {"none", "waiting", "refused", "expired", "declined", "approved"},
            says : {"none", "approve", "decline"}]
ItemSet == [of : Asks, status : {"waiting", "approve", "decline", "expired", "ran"},
            late : BOOLEAN, told : Seq({"unrun", "outcome"})]

Shapes ==
  /\ row \in [Asks -> RowSet] /\ added \in Seq(Asks) /\ asking \in [Asks -> AskSet]
  /\ tap \in [Taps -> TapSet] /\ desk \in Seq(ItemSet)
  /\ ran \in [Asks -> Nat] /\ yes \in [Words -> Nat] /\ died \in Seq({"node", "hq"})

\* Until its call is over, an ask has no number, and nothing was decided of it.
Unasked ==
  \A a \in Asks : asking[a].at # "done" =>
    row[a].item = 0 /\ row[a].status \in {"none", "waiting"}

\* Past its look, a decision and its item speak of the same words; past HQ's answer, its item is as
\* it says, and past the row's move, so is the row.
TapIs(t) ==
  /\ tap[t].at \notin {"idle", "straight", "done"} =>
       /\ tap[t].of \in Asks /\ tap[t].item > 0 /\ row[tap[t].of].item = tap[t].item
       /\ tap[t].says \in {"approve", "decline"}
  /\ tap[t].at = "straight" => tap[t].says \in {"approve", "decline"}
  /\ tap[t].at \in {"posting", "decided", "running", "telling"} =>
       tap[t].item \in Numbers /\ Says[desk[tap[t].item].of] = Says[tap[t].of]
  /\ tap[t].at = "decided" =>
       desk[tap[t].item].status \in IF tap[t].says = "approve" THEN {"approve", "ran"} ELSE {"decline"}
  /\ tap[t].at \in {"running", "telling"} =>
       /\ tap[t].says = "approve" /\ row[tap[t].of].status = "approved"
       /\ desk[tap[t].item].status \in {"approve", "ran"}
  /\ tap[t].at = "running" => ran[tap[t].of] = 0

Once ==
  /\ \A t, u \in Taps : tap[t].at = "running" /\ tap[u].at = "running" /\ tap[t].of = tap[u].of => t = u
  /\ \A a \in Asks : ran[a] <= 1 /\ (ran[a] > 0 => row[a].status = "approved")

\* The decisions that hold a yes to such words and have not used it.
Unspent(w) == {t \in Taps : /\ tap[t].at \in {"decided", "running"} /\ tap[t].says = "approve"
                            /\ tap[t].of \in Asks /\ Says[tap[t].of] = w}

Paid == \A w \in Words : Cardinality(RunsOf(w)) + Cardinality(Unspent(w)) <= yes[w]

Follows ==
  \A n \in Numbers :
    /\ row[desk[n].of].item = n =>
         /\ row[desk[n].of].status = "approved" => desk[n].status \in {"approve", "ran"}
         /\ row[desk[n].of].status = "declined" => desk[n].status = "decline"
    /\ desk[n].status = "ran" => \E b \in Rows(n) : row[b].status = "approved"

Word(status) == CASE status \in {"waiting", "approve"}  -> <<>>
                  [] status \in {"decline", "expired"}  -> <<"unrun">>
                  [] status = "ran"                     -> <<"outcome">>
Told == (\A i \in DOMAIN died : died[i] = "node") => \A n \in Numbers : desk[n].told = Word(desk[n].status)

Inv == Shapes /\ Unasked /\ (\A t \in Taps : TapIs(t)) /\ Once /\ Paid /\ Follows /\ Told

---------------------------------------------------------------------------
(* Sets and lists.                                                         *)

\* Every set of numbers has a least; so one of numbers up to some number has a greatest.
LEMMA GreatestOf ==
  ASSUME NEW top \in Nat, NEW S \in SUBSET (1..top), S # {}
  PROVE  \E i \in S : \A j \in S : j <= i
  <1> DEFINE R == {p \in Nat \X Nat : p[1] < p[2]}
             below == {top - i : i \in S}
  <1>1. IsWellFoundedOn(R, Nat)
    BY NatLessThanWellFounded DEF OpToRel
  <1>2. below \subseteq Nat /\ below # {}
    <2>1. \A i \in S : top - i \in Nat
      OBVIOUS
    <2> QED  BY <2>1
  <1>3. \E x \in below : \A y \in below : ~ (<<y, x>> \in R)
    <2> HIDE DEF R, below
    <2> QED  BY <1>1, <1>2, WFMin
  <1>4. PICK i \in S : \A j \in S : <<top - j, top - i>> \notin R
    BY <1>3
  <1>5. ASSUME NEW j \in S
        PROVE  j <= i
    <2>1. top - j \in Nat /\ top - i \in Nat /\ i \in 1..top /\ j \in 1..top
      OBVIOUS
    <2>2. ~(<<top - j, top - i>>[1] < <<top - j, top - i>>[2])
      BY <1>4, <2>1
    <2> QED  BY <2>1, <2>2
  <1> QED  BY <1>5

\* The newest row of a number has that number.
LEMMA ItsRow ==
  ASSUME added \in Seq(Asks), NEW n
  PROVE  Behind(n) = Nobody \/ (Behind(n) \in Asks /\ row[Behind(n)].item = n)
  <1> DEFINE at == {i \in DOMAIN added : row[added[i]].item = n}
  <1>1. DOMAIN added = 1..Len(added) /\ Len(added) \in Nat
    BY LenProperties
  <1>2. CASE at = {}
    BY <1>2 DEF Behind
  <1>3. CASE at # {}
    <2>1. at \in SUBSET (1..Len(added)) BY <1>1
    <2>2. \E i \in at : \A j \in at : j <= i
      <3> HIDE DEF at
      <3> QED  BY <1>1, <1>3, <2>1, GreatestOf
    <2>3. PICK i : i = CHOOSE k \in at : \A j \in at : j <= k
      OBVIOUS
    <2>4. i \in at
      BY <2>2, <2>3
    <2>5. Behind(n) = added[i]
      BY <1>3, <2>3 DEF Behind
    <2>6. i \in 1..Len(added) /\ row[added[i]].item = n
      BY <1>1, <2>4
    <2>7. added[i] \in Asks
      BY <2>6, ElementOfSeq
    <2> QED  BY <2>5, <2>6, <2>7
  <1> QED  BY <1>2, <1>3

---------------------------------------------------------------------------
(* What the writes do.                                                     *)

\* One item of the desk is written.
LEMMA Written ==
  ASSUME Shapes, NEW n \in Numbers, NEW status \in {"waiting", "approve", "decline", "expired", "ran"},
         NEW words \in Seq({"unrun", "outcome"}), Item(n, status, words)
  PROVE  /\ desk' \in Seq(ItemSet) /\ Numbers' = Numbers
         /\ \A m \in Numbers \ {n} : desk'[m] = desk[m]
         /\ desk'[n].of = desk[n].of /\ desk'[n].status = status
         /\ desk'[n].told = desk[n].told \o words
  <1>1. desk \in [1..Len(desk) -> ItemSet] /\ Len(desk) \in Nat /\ Numbers = 1..Len(desk)
    BY LenProperties DEF Shapes, Numbers
  <1>2. PICK i : i = [desk[n] EXCEPT !.status = status, !.told = @ \o words,
                                     !.late = @ /\ status = "waiting"]
    OBVIOUS
  <1>3. desk[n] \in ItemSet
    BY <1>1
  <1>4. desk[n].told \o words \in Seq({"unrun", "outcome"})
    BY <1>3 DEF ItemSet
  <1>5. i \in ItemSet /\ i.of = desk[n].of /\ i.status = status /\ i.told = desk[n].told \o words
    BY <1>2, <1>3, <1>4 DEF ItemSet
  <1>6. desk' = [desk EXCEPT ![n] = i]
    BY <1>1, <1>2 DEF Item
  <1>7. desk' \in [1..Len(desk) -> ItemSet]
    BY <1>1, <1>5, <1>6
  <1>8. desk' \in Seq(ItemSet) /\ Numbers' = Numbers
    BY <1>1, <1>7, SeqDef DEF Numbers
  <1> QED  BY <1>1, <1>5, <1>6, <1>8

\* An item is put on the desk, under the next number.
LEMMA PutOn ==
  ASSUME Shapes, NEW a \in Asks, Put(a)
  PROVE  /\ desk' \in Seq(ItemSet)
         /\ \A n \in Numbers : n \in Numbers' /\ desk'[n] = desk[n]
         /\ \A n \in Numbers' : n \in Numbers \/ (/\ n > 0 /\ desk'[n].of = a
                                                  /\ desk'[n].status = "waiting" /\ desk'[n].told = <<>>)
  <1>1. PICK i : i = [of |-> a, status |-> "waiting", late |-> FALSE, told |-> <<>>]
    OBVIOUS
  <1>2. i \in ItemSet /\ i.of = a /\ i.status = "waiting" /\ i.told = <<>>
    <2>1. <<>> \in Seq({"unrun", "outcome"}) OBVIOUS
    <2> QED  BY <1>1, <2>1 DEF ItemSet
  <1>3. desk' = Append(desk, i) /\ desk \in Seq(ItemSet) /\ Len(desk) \in Nat
    BY <1>1, LenProperties DEF Put, Shapes
  <1>4. /\ desk' \in Seq(ItemSet) /\ Len(desk') = Len(desk) + 1
        /\ \A n \in 1..Len(desk) : desk'[n] = desk[n]
        /\ desk'[Len(desk) + 1] = i
    BY <1>2, <1>3
  <1>5. Numbers = 1..Len(desk) /\ Numbers' = 1..Len(desk')
    BY <1>3, <1>4, LenProperties DEF Numbers
  <1> QED  BY <1>2, <1>3, <1>4, <1>5

\* A row is moved only from `waiting`.
LEMMA Moved ==
  ASSUME Shapes, NEW a \in Asks, NEW to \in {"refused", "expired", "declined", "approved"},
         Settled(a, to)
  PROVE  /\ row' \in [Asks -> RowSet] /\ \A b \in Asks \ {a} : row'[b] = row[b]
         /\ row'[a].item = row[a].item
         /\ row'[a].status = IF row[a].status = "waiting" THEN to ELSE row[a].status
  <1>1. row \in [Asks -> RowSet]
    BY DEF Shapes
  <1>2. PICK r : r = [row[a] EXCEPT !.status = to, !.late = FALSE]
    OBVIOUS
  <1>3. r \in RowSet /\ r.item = row[a].item /\ r.status = to
    BY <1>1, <1>2 DEF RowSet
  <1>4. row' = IF row[a].status = "waiting" THEN [row EXCEPT ![a] = r] ELSE row
    BY <1>1, <1>2 DEF Settled
  <1> QED  BY <1>1, <1>3, <1>4

---------------------------------------------------------------------------
(* What any step but the making of a new store leaves of rows and items.   *)

RowMoves ==
  \A a \in Asks :
    /\ row'[a].item = row[a].item \/ row[a].item = 0
    /\ row'[a].status = row[a].status \/ row[a].status \in {"none", "waiting"}

DeskMoves ==
  \A n \in Numbers :
    /\ n \in Numbers' /\ desk'[n].of = desk[n].of
    /\ \/ desk'[n].status = desk[n].status
       \/ desk[n].status = "waiting"
       \/ desk[n].status = "approve" /\ desk'[n].status = "ran"

\* Of a decision that did not move, what it knows stays true.
LEMMA TapKept ==
  ASSUME Shapes, Shapes', RowMoves, DeskMoves, NEW t \in Taps, TapIs(t), tap'[t] = tap[t],
         tap[t].at = "running" => ran'[tap[t].of] = ran[tap[t].of]
  PROVE  TapIs(t)'
  <1>1. tap'[t].at = tap[t].at /\ tap'[t].of = tap[t].of /\ tap'[t].item = tap[t].item
        /\ tap'[t].says = tap[t].says
    OBVIOUS
  <1>2. CASE tap[t].at \in {"idle", "straight", "done"}
    BY <1>1, <1>2 DEF TapIs
  <1>3. CASE tap[t].at = "looking"
    BY <1>1, <1>3 DEF TapIs, RowMoves, Shapes, TapSet
  <1>4. CASE tap[t].at \in {"posting", "decided", "running", "telling"}
    <2>1. /\ tap[t].of \in Asks /\ tap[t].item > 0 /\ row[tap[t].of].item = tap[t].item
          /\ tap[t].item \in Numbers /\ Says[desk[tap[t].item].of] = Says[tap[t].of]
      BY <1>4 DEF TapIs
    <2>2. tap[t].item \in Nat
      BY DEF Shapes, TapSet
    <2>3. /\ row'[tap[t].of].item = tap[t].item /\ tap[t].item \in Numbers'
          /\ desk'[tap[t].item].of = desk[tap[t].item].of
      BY <2>1, <2>2 DEF RowMoves, DeskMoves
    <2>4. /\ row[tap[t].of].status = "approved" => row'[tap[t].of].status = "approved"
          /\ desk[tap[t].item].status \in {"approve", "ran"} => desk'[tap[t].item].status \in {"approve", "ran"}
          /\ desk[tap[t].item].status = "decline" => desk'[tap[t].item].status = "decline"
      BY <2>1 DEF RowMoves, DeskMoves
    <2> QED  BY <1>1, <1>4, <2>1, <2>3, <2>4 DEF TapIs
  <1> QED  BY <1>2, <1>3, <1>4 DEF Shapes, TapSet

LEMMA TapOver ==
  ASSUME NEW t \in Taps, tap'[t].at \in {"idle", "done"}
  PROVE  TapIs(t)'
  BY DEF TapIs

\* A row still says no other than its item: where a row was moved, its item is as it says; where an
\* item ran, some row of it was approved; a new item has no row yet.
LEMMA FollowsKept ==
  ASSUME Shapes, Shapes', RowMoves, DeskMoves, Follows,
         \A n \in Numbers' : n \in Numbers \/ (desk'[n].status = "waiting" /\ row'[desk'[n].of].item # n),
         \A a \in Asks : row'[a].item # row[a].item => row'[a].status \notin {"approved", "declined"},
         \A a \in Asks, n \in Numbers : row'[a].status # row[a].status /\ row[a].item = n =>
           /\ row'[a].status = "approved" => desk'[n].status \in {"approve", "ran"}
           /\ row'[a].status = "declined" => desk'[n].status = "decline",
         \A n \in Numbers : desk'[n].status = "ran" =>
           desk[n].status = "ran" \/ \E b \in Rows(n) : row[b].status = "approved"
  PROVE  Follows'
  <1>1. SUFFICES ASSUME NEW n \in Numbers'
                 PROVE  /\ row'[desk'[n].of].item = n =>
                             /\ row'[desk'[n].of].status = "approved" => desk'[n].status \in {"approve", "ran"}
                             /\ row'[desk'[n].of].status = "declined" => desk'[n].status = "decline"
                        /\ desk'[n].status = "ran" => \E b \in Rows(n)' : row'[b].status = "approved"
    BY DEF Follows
  <1>2. CASE n \notin Numbers
    BY <1>1, <1>2
  <1>3. CASE n \in Numbers
    <2>1. PICK a : a = desk[n].of OBVIOUS
    <2>2. /\ a \in Asks /\ desk'[n].of = a /\ n # 0
      <3>1. desk[n] \in ItemSet /\ n # 0 BY <1>3, LenProperties DEF Shapes, Numbers
      <3> QED  BY <1>3, <2>1, <3>1 DEF ItemSet, DeskMoves
    <2>3. row'[a].item = n => /\ row'[a].status = "approved" => desk'[n].status \in {"approve", "ran"}
                              /\ row'[a].status = "declined" => desk'[n].status = "decline"
      <3> SUFFICES ASSUME row'[a].item = n, row'[a].status \in {"approved", "declined"}
                   PROVE  /\ row'[a].status = "approved" => desk'[n].status \in {"approve", "ran"}
                          /\ row'[a].status = "declined" => desk'[n].status = "decline"
        OBVIOUS
      <3>1. row[a].item = n BY <2>2
      <3>2. CASE row'[a].status # row[a].status
        BY <1>3, <2>2, <3>1, <3>2
      <3>3. CASE row'[a].status = row[a].status
        BY <1>3, <2>1, <2>2, <3>1, <3>3 DEF Follows, DeskMoves
      <3> QED  BY <3>2, <3>3
    <2>4. ASSUME desk'[n].status = "ran"
          PROVE  \E b \in Rows(n)' : row'[b].status = "approved"
      <3>1. PICK b \in Rows(n) : row[b].status = "approved"
        BY <1>3, <2>4 DEF Follows
      <3>2. b \in Asks /\ row[b].item = n /\ Says[b] = Says[a]
        BY <2>1, <3>1 DEF Rows
      <3>3. row'[b].item = n /\ row'[b].status = "approved"
        BY <2>2, <3>1, <3>2 DEF RowMoves
      <3>4. b \in Rows(n)'
        BY <2>2, <3>2, <3>3 DEF Rows
      <3> QED  BY <3>3, <3>4
    <2> QED  BY <2>2, <2>3, <2>4
  <1> QED  BY <1>2, <1>3

\* Where nothing runs and no decision comes to run, no ask is run twice.
LEMMA OnceKept ==
  ASSUME Once, Shapes, RowMoves, ran' = ran,
         \A t \in Taps : tap'[t].at = "running" => tap[t].at = "running" /\ tap'[t].of = tap[t].of
  PROVE  Once'
  BY DEF Once, RowMoves, Shapes

\* There are finitely many runs, and decisions.
LEMMA Counts ==
  ASSUME ConstantsFit, Shapes, Once, NEW w
  PROVE  /\ IsFiniteSet(RunsOf(w)) /\ IsFiniteSet(Unspent(w))
         /\ Cardinality(RunsOf(w)) \in Nat /\ Cardinality(Unspent(w)) \in Nat
  <1>1. IsFiniteSet(Unspent(w))
    <2>1. Unspent(w) \in SUBSET Taps BY DEF Unspent
    <2> QED  BY <2>1, FS_Subset DEF ConstantsFit
  <1>2. IsFiniteSet(RunsOf(w))
    <2>1. IsFiniteSet(Asks \X {1})
      BY FS_Singleton, FS_Product DEF ConstantsFit
    <2>2. RunsOf(w) \in SUBSET (Asks \X {1})
      <3> SUFFICES ASSUME NEW a \in Asks, NEW i \in 1..ran[a]
                   PROVE  i = 1
        BY DEF RunsOf
      <3> QED  BY DEF Once, Shapes
    <2> QED  BY <2>1, <2>2, FS_Subset
  <1> QED  BY <1>1, <1>2, FS_CardinalityType

\* Where nothing runs, no decision comes by a yes, and no yes is taken back, all is paid still.
LEMMA PaidKept ==
  ASSUME ConstantsFit, Shapes, Shapes', Once, Paid, ran' = ran,
         \A t \in Taps : tap'[t] = tap[t] \/ tap'[t].at \notin {"decided", "running"}
                           \/ tap'[t].says # "approve"
                           \/ (/\ tap[t].at \in {"decided", "running"} /\ tap'[t].says = tap[t].says
                               /\ tap'[t].of = tap[t].of),
         \A w \in Words : yes'[w] >= yes[w]
  PROVE  Paid'
  <1> SUFFICES ASSUME NEW w \in Words
               PROVE  Cardinality(RunsOf(w)') + Cardinality(Unspent(w)') <= yes'[w]
    BY DEF Paid, Words
  <1>1. RunsOf(w)' = RunsOf(w)
    BY DEF RunsOf
  <1>2. Unspent(w)' \in SUBSET Unspent(w)
    BY DEF Unspent
  <1>3. Cardinality(Unspent(w)') <= Cardinality(Unspent(w)) /\ Cardinality(Unspent(w)') \in Nat
    <2>1. IsFiniteSet(Unspent(w)) BY Counts
    <2>2. IsFiniteSet(Unspent(w)') /\ Cardinality(Unspent(w)') <= Cardinality(Unspent(w))
      BY <1>2, <2>1, FS_Subset
    <2> QED  BY <2>2, FS_CardinalityType
  <1>4. Cardinality(RunsOf(w)) \in Nat /\ Cardinality(Unspent(w)) \in Nat
    BY Counts
  <1>5. yes[w] \in Nat /\ yes'[w] \in Nat /\ yes'[w] >= yes[w]
    BY DEF Shapes, Words
  <1> QED  BY <1>1, <1>3, <1>4, <1>5 DEF Paid

---------------------------------------------------------------------------
(* Each operation.                                                         *)

\* A step that runs nothing, and by which no decision comes to hold what it did not.
LEMMA QuietKeeps ==
  ASSUME ConstantsFit, Inv, Shapes', Unasked', Told', RowMoves, DeskMoves, Follows', ran' = ran,
         \A w \in Words : yes'[w] >= yes[w],
         \A t \in Taps : tap'[t] = tap[t] \/ tap'[t].at \in {"idle", "done"}
  PROVE  Inv'
  <1>1. \A t \in Taps : TapIs(t)'
    <2> TAKE t \in Taps
    <2>1. CASE tap'[t] = tap[t]
      BY <2>1, TapKept DEF Inv
    <2>2. CASE tap'[t].at \in {"idle", "done"}
      BY <2>2, TapOver
    <2> QED  BY <2>1, <2>2
  <1>2. \A t \in Taps : tap'[t].at = "running" => tap[t].at = "running" /\ tap'[t].of = tap[t].of
    OBVIOUS
  <1>3. Once'
    BY <1>2, OnceKept DEF Inv
  <1>4. \A t \in Taps : tap'[t] = tap[t] \/ tap'[t].at \notin {"decided", "running"}
    OBVIOUS
  <1>5. Paid'
    BY <1>4, PaidKept DEF Inv
  <1> QED  BY <1>1, <1>3, <1>5 DEF Inv

\* The call that asks.  A row that is kept, refused or given its number is not yet decided.
LEMMA KeepKeeps ==
  ASSUME ConstantsFit, Inv, NEW a \in Asks, Keep(a)
  PROVE  Inv'
  <1>1. /\ asking[a].at = "idle" /\ UNCHANGED <<tap, desk, ran, yes, died, stores>>
        /\ row' = [row EXCEPT ![a].status = "waiting"] /\ added' = Append(added, a)
        /\ asking' = [asking EXCEPT ![a].at = "posting"]
    BY DEF Keep
  <1>2. Shapes /\ Unasked /\ Follows /\ Told
    BY DEF Inv
  <1>3. /\ row' \in [Asks -> RowSet] /\ asking' \in [Asks -> AskSet]
        /\ \A b \in Asks : row'[b].item = row[b].item /\ (b # a => row'[b] = row[b] /\ asking'[b] = asking[b])
        /\ row'[a].status = "waiting" /\ asking'[a].at = "posting"
    BY <1>1, <1>2 DEF Shapes, RowSet, AskSet
  <1>4. row[a].status \in {"none", "waiting"} /\ row[a].item = 0
    BY <1>1, <1>2 DEF Unasked
  <1>5. Shapes'
    BY <1>1, <1>2, <1>3 DEF Shapes
  <1>6. Unasked'
    BY <1>2, <1>3, <1>4 DEF Unasked
  <1>7. RowMoves /\ DeskMoves
    BY <1>1, <1>3, <1>4 DEF RowMoves, DeskMoves, Numbers
  <1>8. Told'
    BY <1>1, <1>2 DEF Told, Numbers
  <1>9. Follows'
    BY <1>1, <1>2, <1>3, <1>5, <1>7, FollowsKept DEF Numbers
  <1> QED  BY <1>1, <1>5, <1>6, <1>7, <1>8, <1>9, QuietKeeps DEF Shapes

LEMMA AskedKeeps ==
  ASSUME ConstantsFit, Inv, NEW a \in Asks, Asked(a)
  PROVE  Inv'
  <1>1. /\ asking[a].at = "posting" /\ UNCHANGED <<row, added, tap, ran, yes, died, stores>> /\ Put(a)
        /\ asking' = [asking EXCEPT ![a] = [at |-> "answered", item |-> Len(desk) + 1]]
    BY DEF Asked
  <1>2. Shapes /\ Unasked /\ Follows /\ Told
    BY DEF Inv
  <1>3. /\ desk' \in Seq(ItemSet)
        /\ \A n \in Numbers : n \in Numbers' /\ desk'[n] = desk[n]
        /\ \A n \in Numbers' : n \in Numbers \/ (/\ n > 0 /\ desk'[n].of = a
                                                 /\ desk'[n].status = "waiting" /\ desk'[n].told = <<>>)
    BY <1>1, <1>2, PutOn
  <1>4. /\ asking' \in [Asks -> AskSet]
        /\ \A b \in Asks : asking'[b].at # "done" => asking[b].at # "done"
    <2>1. Len(desk) + 1 \in Nat BY <1>2, LenProperties DEF Shapes
    <2> QED  BY <1>1, <1>2, <2>1 DEF Shapes, AskSet
  <1>5. row[a].item = 0
    BY <1>1, <1>2 DEF Unasked
  <1>6. Shapes'
    BY <1>1, <1>2, <1>3, <1>4 DEF Shapes
  <1>7. Unasked'
    BY <1>1, <1>2, <1>4 DEF Unasked
  <1>8. RowMoves /\ DeskMoves
    BY <1>1, <1>3 DEF RowMoves, DeskMoves
  <1>9. Told'
    BY <1>1, <1>2, <1>3 DEF Told, Word
  <1>10. Follows'
    <2>1. \A n \in Numbers' : n \in Numbers \/ (desk'[n].status = "waiting" /\ row'[desk'[n].of].item # n)
      BY <1>1, <1>3, <1>5
    <2>2. \A n \in Numbers : desk'[n].status = "ran" => desk[n].status = "ran"
      BY <1>3
    <2> QED  BY <1>1, <1>2, <1>6, <1>8, <2>1, <2>2, FollowsKept
  <1> QED  BY <1>1, <1>2, <1>6, <1>7, <1>8, <1>9, <1>10, QuietKeeps DEF Shapes

LEMMA NotAskedKeeps ==
  ASSUME ConstantsFit, Inv, NEW a \in Asks, NotAsked(a)
  PROVE  Inv'
  <1>1. /\ asking[a].at = "posting" /\ UNCHANGED <<added, tap, ran, yes, died, stores>>
        /\ Put(a) \/ UNCHANGED desk
        /\ Settled(a, "refused") /\ asking' = [asking EXCEPT ![a].at = "done"]
    BY DEF NotAsked
  <1>2. Shapes /\ Unasked /\ Follows /\ Told
    BY DEF Inv
  <1>3. /\ desk' \in Seq(ItemSet)
        /\ \A n \in Numbers : n \in Numbers' /\ desk'[n] = desk[n]
        /\ \A n \in Numbers' : n \in Numbers \/ (/\ n > 0 /\ desk'[n].of = a
                                                 /\ desk'[n].status = "waiting" /\ desk'[n].told = <<>>)
    <2>1. CASE Put(a)
      BY <1>2, <2>1, PutOn
    <2>2. CASE UNCHANGED desk
      BY <1>2, <2>2 DEF Shapes, Numbers
    <2> QED  BY <1>1, <2>1, <2>2
  <1>4. /\ row' \in [Asks -> RowSet] /\ \A b \in Asks \ {a} : row'[b] = row[b]
        /\ row'[a].item = row[a].item
        /\ row'[a].status = IF row[a].status = "waiting" THEN "refused" ELSE row[a].status
    BY <1>1, <1>2, Moved
  <1>5. /\ asking' \in [Asks -> AskSet]
        /\ \A b \in Asks : asking'[b].at # "done" => b # a /\ asking[b].at # "done"
    BY <1>1, <1>2 DEF Shapes, AskSet
  <1>6. row[a].item = 0
    BY <1>1, <1>2 DEF Unasked
  <1>7. Shapes'
    BY <1>1, <1>2, <1>3, <1>4, <1>5 DEF Shapes
  <1>8. Unasked'
    BY <1>2, <1>4, <1>5 DEF Unasked
  <1>9. RowMoves /\ DeskMoves
    BY <1>3, <1>4 DEF RowMoves, DeskMoves
  <1>10. Told'
    BY <1>1, <1>2, <1>3 DEF Told, Word
  <1>11. Follows'
    <2>1. \A n \in Numbers' : n \in Numbers \/ (desk'[n].status = "waiting" /\ row'[desk'[n].of].item # n)
      BY <1>3, <1>4, <1>6
    <2>2. \A n \in Numbers : desk'[n].status = "ran" => desk[n].status = "ran"
      BY <1>3
    <2>3. \A b \in Asks : row'[b].item = row[b].item /\ (row'[b].status # row[b].status => row'[b].status = "refused")
      BY <1>4
    <2> QED  BY <1>2, <1>7, <1>9, <2>1, <2>2, <2>3, FollowsKept
  <1> QED  BY <1>1, <1>2, <1>7, <1>8, <1>9, <1>10, <1>11, QuietKeeps DEF Shapes

LEMMA NumberedKeeps ==
  ASSUME ConstantsFit, Inv, NEW a \in Asks, Numbered(a)
  PROVE  Inv'
  <1>1. /\ asking[a].at = "answered" /\ UNCHANGED <<added, tap, desk, ran, yes, died, stores>>
        /\ row' = [row EXCEPT ![a].item = asking[a].item]
        /\ asking' = [asking EXCEPT ![a] = [at |-> "done", item |-> 0]]
    BY DEF Numbered
  <1>2. Shapes /\ Unasked /\ Follows /\ Told
    BY DEF Inv
  <1>3. row[a].item = 0 /\ row[a].status \in {"none", "waiting"}
    BY <1>1, <1>2 DEF Unasked
  <1>4. /\ row' \in [Asks -> RowSet] /\ asking' \in [Asks -> AskSet]
        /\ \A b \in Asks : row'[b].status = row[b].status /\ (b # a => row'[b] = row[b] /\ asking'[b] = asking[b])
        /\ asking'[a].at = "done"
    BY <1>1, <1>2 DEF Shapes, RowSet, AskSet
  <1>5. Shapes'
    BY <1>1, <1>2, <1>4 DEF Shapes
  <1>6. Unasked'
    BY <1>2, <1>4 DEF Unasked
  <1>7. RowMoves /\ DeskMoves
    BY <1>1, <1>3, <1>4 DEF RowMoves, DeskMoves, Numbers
  <1>8. Told'
    BY <1>1, <1>2 DEF Told, Numbers
  <1>9. Follows'
    <2>1. Numbers' = Numbers /\ desk' = desk
      BY <1>1 DEF Numbers
    <2>2. \A b \in Asks : row'[b].item # row[b].item => row'[b].status \notin {"approved", "declined"}
      BY <1>3, <1>4
    <2> QED  BY <1>2, <1>4, <1>5, <1>7, <2>1, <2>2, FollowsKept
  <1> QED  BY <1>1, <1>2, <1>5, <1>6, <1>7, <1>8, <1>9, QuietKeeps DEF Shapes

\* An item of the desk is written while the rows stand.
LEMMA ItemKeeps ==
  ASSUME Inv, NEW n \in Numbers, NEW status \in {"waiting", "approve", "decline", "expired", "ran"},
         NEW words \in Seq({"unrun", "outcome"}), Item(n, status, words), row' = row, Shapes',
         \/ desk[n].status = "waiting" /\ status # "ran"
         \/ /\ desk[n].status = "approve" /\ status = "ran"
            /\ \E t \in Taps : tap[t].at = "telling" /\ tap[t].item = n,
         died' = died => words = IF status \in {"waiting", "approve"} THEN <<>> ELSE Word(status),
         died' = died \/ died' = Append(died, "hq")
  PROVE  RowMoves /\ DeskMoves /\ Follows' /\ Told'
  <1>1. Shapes /\ Follows /\ Told /\ \A t \in Taps : TapIs(t)
    BY DEF Inv
  <1>2. /\ Numbers' = Numbers /\ \A m \in Numbers \ {n} : desk'[m] = desk[m]
        /\ desk'[n].of = desk[n].of /\ desk'[n].status = status
        /\ desk'[n].told = desk[n].told \o words
    BY <1>1, Written
  <1>3. RowMoves
    BY DEF RowMoves
  <1>4. DeskMoves
    <2> SUFFICES ASSUME NEW m \in Numbers
                 PROVE  /\ m \in Numbers' /\ desk'[m].of = desk[m].of
                        /\ \/ desk'[m].status = desk[m].status
                           \/ desk[m].status = "waiting"
                           \/ desk[m].status = "approve" /\ desk'[m].status = "ran"
      BY DEF DeskMoves
    <2>1. CASE m = n BY <1>2, <2>1
    <2>2. CASE m # n BY <1>2, <2>2
    <2> QED  BY <2>1, <2>2
  <1>5. \A m \in Numbers : desk'[m].status = "ran" =>
          desk[m].status = "ran" \/ \E b \in Rows(m) : row[b].status = "approved"
    <2> SUFFICES ASSUME status = "ran"
                 PROVE  \E b \in Rows(n) : row[b].status = "approved"
      BY <1>2
    <2>1. PICK t \in Taps : tap[t].at = "telling" /\ tap[t].item = n
      OBVIOUS
    <2>2. /\ tap[t].of \in Asks /\ row[tap[t].of].item = n /\ row[tap[t].of].status = "approved"
          /\ Says[desk[n].of] = Says[tap[t].of]
      BY <1>1, <2>1 DEF TapIs
    <2> QED  BY <2>2 DEF Rows
  <1>6. Follows'
    BY <1>1, <1>2, <1>3, <1>4, <1>5, FollowsKept
  <1>7. Told'
    <2>1. CASE died' = Append(died, "hq")
      <3>1. died \in Seq({"node", "hq"}) BY <1>1 DEF Shapes
      <3>2. Len(died) + 1 \in DOMAIN died' /\ died'[Len(died) + 1] = "hq"
        BY <2>1, <3>1, LenProperties
      <3> QED  BY <3>2 DEF Told
    <2>2. CASE died' = died
      <3> SUFFICES ASSUME \A i \in DOMAIN died : died[i] = "node", NEW m \in Numbers
                   PROVE  desk'[m].told = Word(desk'[m].status)
        BY <1>2, <2>2 DEF Told
      <3>1. desk[m].told = Word(desk[m].status)
        BY <1>1 DEF Told
      <3>2. CASE m # n
        BY <1>2, <3>1, <3>2
      <3>3. CASE m = n
        <4>1. desk[n].told = <<>> BY <3>1, <3>3 DEF Word
        <4>2. desk'[n].told = words BY <1>2, <4>1
        <4>3. words = Word(status) BY <2>2 DEF Word
        <4> QED  BY <1>2, <3>3, <4>2, <4>3
      <3> QED  BY <3>2, <3>3
    <2> QED  BY <2>1, <2>2
  <1> QED  BY <1>3, <1>4, <1>6, <1>7

\* HQ's desk, and the clocks.
LEMMA ExpireKeeps ==
  ASSUME ConstantsFit, Inv, NEW n \in Numbers, Expire(n)
  PROVE  Inv'
  <1>1. /\ desk[n].status = "waiting" /\ Item(n, "expired", <<"unrun">>)
        /\ UNCHANGED <<row, added, asking, tap, ran, yes, died, stores>>
    BY DEF Expire, Expirable
  <1>2. Shapes /\ Unasked /\ <<"unrun">> \in Seq({"unrun", "outcome"})
    BY DEF Inv
  <1>3. desk' \in Seq(ItemSet)
    BY <1>1, <1>2, Written
  <1>4. Shapes' /\ Unasked'
    BY <1>1, <1>2, <1>3 DEF Shapes, Unasked
  <1>5. RowMoves /\ DeskMoves /\ Follows' /\ Told'
    BY <1>1, <1>2, <1>4, ItemKeeps DEF Word
  <1> QED  BY <1>1, <1>2, <1>4, <1>5, QuietKeeps DEF Shapes

LEMMA HqDiesKeeps ==
  ASSUME ConstantsFit, Inv, HqDies
  PROVE  Inv'
  <1>1. /\ died' = Append(died, "hq") /\ UNCHANGED <<row, added, asking, tap, ran, yes, stores>>
    BY DEF HqDies
  <1>2. Shapes /\ Unasked /\ <<"unrun">> \in Seq({"unrun", "outcome"}) /\ <<>> \in Seq({"unrun", "outcome"})
    BY DEF Inv
  <1>3. died' # died /\ died' \in Seq({"node", "hq"})
    <2>1. died \in Seq({"node", "hq"}) BY <1>2 DEF Shapes
    <2>2. Len(died') = Len(died) + 1 /\ Len(died) \in Nat /\ died' \in Seq({"node", "hq"})
      BY <1>1, <2>1, LenProperties
    <2> QED  BY <2>2
  <1>4. ASSUME desk' \in Seq(ItemSet)
        PROVE  Shapes' /\ Unasked'
    BY <1>1, <1>2, <1>3, <1>4 DEF Shapes, Unasked
  <1>5. ASSUME NEW n \in Numbers,
               \/ desk[n].status = "waiting" /\ Item(n, "expired", <<>>)
               \/ desk[n].status = "waiting" /\ Item(n, "waiting", <<"unrun">>)
               \/ /\ desk[n].status = "approve" /\ Item(n, "ran", <<>>)
                  /\ \E t \in Taps : tap[t].at = "telling" /\ tap[t].item = n
        PROVE  Shapes' /\ Unasked' /\ RowMoves /\ DeskMoves /\ Follows' /\ Told'
    <2>1. CASE desk[n].status = "waiting" /\ Item(n, "expired", <<>>)
      <3>1. desk' \in Seq(ItemSet) BY <1>2, <2>1, Written
      <3>2. Shapes' /\ Unasked' BY <1>4, <3>1
      <3>3. RowMoves /\ DeskMoves /\ Follows' /\ Told'
        BY <1>1, <1>2, <1>3, <2>1, <3>2, ItemKeeps
      <3> QED  BY <3>2, <3>3
    <2>2. CASE desk[n].status = "waiting" /\ Item(n, "waiting", <<"unrun">>)
      <3>1. desk' \in Seq(ItemSet) BY <1>2, <2>2, Written
      <3>2. Shapes' /\ Unasked' BY <1>4, <3>1
      <3>3. RowMoves /\ DeskMoves /\ Follows' /\ Told'
        BY <1>1, <1>2, <1>3, <2>2, <3>2, ItemKeeps
      <3> QED  BY <3>2, <3>3
    <2>3. CASE /\ desk[n].status = "approve" /\ Item(n, "ran", <<>>)
               /\ \E t \in Taps : tap[t].at = "telling" /\ tap[t].item = n
      <3>1. desk' \in Seq(ItemSet) BY <1>2, <2>3, Written
      <3>2. Shapes' /\ Unasked' BY <1>4, <3>1
      <3>3. RowMoves /\ DeskMoves /\ Follows' /\ Told'
        BY <1>1, <1>2, <1>3, <2>3, <3>2, ItemKeeps
      <3> QED  BY <3>2, <3>3
    <2> QED  BY <1>5, <2>1, <2>2, <2>3
  <1>6. Shapes' /\ Unasked' /\ RowMoves /\ DeskMoves /\ Follows' /\ Told'
    BY <1>5 DEF HqDies, Expirable
  <1> QED  BY <1>1, <1>2, <1>6, QuietKeeps DEF Shapes

LEMMA NewStoreKeeps ==
  ASSUME ConstantsFit, Inv, NewStore
  PROVE  Inv'
  <1>1. /\ \A t \in Taps : tap[t].at \in {"idle", "done"}
        /\ desk' = <<>> /\ UNCHANGED <<row, added, asking, tap, ran, yes, died>>
    BY DEF NewStore
  <1>2. Numbers' = {} /\ desk' \in Seq(ItemSet)
    BY <1>1 DEF Numbers
  <1>3. Shapes' /\ Unasked' /\ Follows' /\ Told'
    BY <1>1, <1>2 DEF Inv, Shapes, Unasked, Follows, Told
  <1>4. Once'
    BY <1>1 DEF Inv, Once
  <1>5. Paid'
    BY <1>1 DEF Inv, Paid, RunsOf, Unspent, Words
  <1>6. \A t \in Taps : TapIs(t)'
    BY <1>1, TapOver
  <1> QED  BY <1>3, <1>4, <1>5, <1>6 DEF Inv

LEMMA NodeDiesKeeps ==
  ASSUME ConstantsFit, Inv, NodeDies
  PROVE  Inv'
  <1>1. /\ died' = Append(died, "node") /\ UNCHANGED <<row, added, desk, ran, yes, stores>>
        /\ tap' = [t \in Taps |-> IF tap[t].at = "idle" THEN tap[t] ELSE [Idle EXCEPT !.at = "done"]]
        /\ asking' = [a \in Asks |-> IF asking[a].at \in {"idle", "done"} THEN asking[a]
                                      ELSE [at |-> "done", item |-> 0]]
    BY DEF NodeDies
  <1>2. Shapes /\ Unasked /\ Follows /\ Told
    BY DEF Inv
  <1>3. [Idle EXCEPT !.at = "done"] \in TapSet /\ [Idle EXCEPT !.at = "done"].at = "done"
    BY DEF Idle, TapSet
  <1>4. died \in Seq({"node", "hq"}) /\ died' \in Seq({"node", "hq"}) /\ Len(died) \in Nat
        /\ Len(died') = Len(died) + 1 /\ \A i \in 1..Len(died) : died'[i] = died[i]
    BY <1>1, <1>2, LenProperties DEF Shapes
  <1>5. tap' \in [Taps -> TapSet] /\ \A t \in Taps : tap'[t] = tap[t] \/ tap'[t].at \in {"idle", "done"}
    BY <1>1, <1>2, <1>3 DEF Shapes
  <1>6. asking' \in [Asks -> AskSet] /\ \A a \in Asks : asking'[a].at # "done" => asking[a].at # "done"
    BY <1>1, <1>2 DEF Shapes, AskSet
  <1>7. Shapes'
    BY <1>1, <1>2, <1>4, <1>5, <1>6 DEF Shapes
  <1>8. Unasked'
    BY <1>1, <1>2, <1>6 DEF Unasked
  <1>9. RowMoves /\ DeskMoves /\ Follows'
    BY <1>1, <1>2 DEF RowMoves, DeskMoves, Follows, Numbers, Rows
  <1>10. Told'
    <2>1. DOMAIN died = 1..Len(died) /\ DOMAIN died' = 1..Len(died')
      BY <1>4, LenProperties
    <2>2. (\A i \in DOMAIN died' : died'[i] = "node") => (\A i \in DOMAIN died : died[i] = "node")
      BY <1>4, <2>1
    <2> QED  BY <1>1, <1>2, <2>2 DEF Told, Numbers
  <1>11. ran' = ran /\ \A w \in Words : yes'[w] >= yes[w]
    BY <1>1, <1>2 DEF Shapes
  <1> QED  BY <1>5, <1>7, <1>8, <1>9, <1>10, <1>11, QuietKeeps

LEMMA AgesKeeps ==
  ASSUME ConstantsFit, Inv, Ages
  PROVE  Inv'
  <1>1. /\ UNCHANGED <<added, asking, tap, ran, yes, died, stores>>
        /\ \/ \E a \in Asks : row' = [row EXCEPT ![a].late = TRUE] /\ UNCHANGED desk
           \/ \E n \in Numbers : desk' = [desk EXCEPT ![n].late = TRUE] /\ UNCHANGED row
    BY DEF Ages
  <1>2. Shapes /\ Unasked /\ Follows /\ Told
    BY DEF Inv
  <1>3. row' \in [Asks -> RowSet] /\ \A b \in Asks : row'[b].item = row[b].item /\ row'[b].status = row[b].status
    <2>1. row \in [Asks -> RowSet]
      BY <1>2 DEF Shapes
    <2>2. ASSUME NEW a \in Asks, row' = [row EXCEPT ![a].late = TRUE]
          PROVE  row' \in [Asks -> RowSet]
                 /\ \A b \in Asks : row'[b].item = row[b].item /\ row'[b].status = row[b].status
      BY <2>1, <2>2 DEF RowSet
    <2> QED  BY <1>1, <2>1, <2>2
  <1>4. /\ desk' \in Seq(ItemSet) /\ Numbers' = Numbers
        /\ \A n \in Numbers : /\ desk'[n].of = desk[n].of /\ desk'[n].status = desk[n].status
                              /\ desk'[n].told = desk[n].told
    <2>1. desk \in [1..Len(desk) -> ItemSet] /\ Len(desk) \in Nat /\ Numbers = 1..Len(desk)
      BY <1>2, LenProperties DEF Shapes, Numbers
    <2>2. CASE UNCHANGED desk
      BY <1>2, <2>2 DEF Shapes, Numbers
    <2>3. ASSUME NEW n \in Numbers, desk' = [desk EXCEPT ![n].late = TRUE]
          PROVE  /\ desk' \in Seq(ItemSet) /\ Numbers' = Numbers
                 /\ \A m \in Numbers : /\ desk'[m].of = desk[m].of /\ desk'[m].status = desk[m].status
                                       /\ desk'[m].told = desk[m].told
      <3>1. desk' \in [1..Len(desk) -> ItemSet]
        BY <2>1, <2>3 DEF ItemSet
      <3>2. desk' \in Seq(ItemSet) /\ Numbers' = Numbers
        BY <2>1, <3>1, SeqDef DEF Numbers
      <3>3. \A m \in Numbers : desk[m] \in ItemSet
        BY <2>1
      <3> QED  BY <2>1, <2>3, <3>2, <3>3 DEF ItemSet
    <2> QED  BY <1>1, <2>2, <2>3
  <1>5. Shapes' /\ Unasked'
    BY <1>1, <1>2, <1>3, <1>4 DEF Shapes, Unasked
  <1>6. RowMoves /\ DeskMoves
    BY <1>3, <1>4 DEF RowMoves, DeskMoves
  <1>7. Told'
    BY <1>1, <1>2, <1>4 DEF Told
  <1>8. Follows'
    BY <1>2, <1>3, <1>4, <1>5, <1>6, FollowsKept
  <1> QED  BY <1>1, <1>2, <1>5, <1>6, <1>7, <1>8, QuietKeeps DEF Shapes

---------------------------------------------------------------------------
(* A decision, at the node.                                                *)

\* A step of one decision that runs nothing and gives it no yes; it knows what it must.
LEMMA TapKeeps ==
  ASSUME ConstantsFit, Inv, NEW t \in Taps, NEW k \in TapSet, tap' = [tap EXCEPT ![t] = k],
         Shapes', Unasked', Told', RowMoves, DeskMoves, Follows', TapIs(t)', ran' = ran,
         k.at # "running",
         \/ k.at # "decided" \/ k.says # "approve",
         \A w \in Words : yes'[w] >= yes[w]
  PROVE  Inv'
  <1>1. tap \in [Taps -> TapSet]
    BY DEF Inv, Shapes
  <1>2. tap'[t] = k /\ \A u \in Taps \ {t} : tap'[u] = tap[u]
    BY <1>1
  <1>3. \A u \in Taps : TapIs(u)'
    <2> TAKE u \in Taps
    <2>1. CASE u # t
      BY <1>2, <2>1, TapKept DEF Inv
    <2> QED  BY <2>1
  <1>4. Once'
    <2>1. \A u \in Taps : tap'[u].at = "running" => tap[u].at = "running" /\ tap'[u].of = tap[u].of
      BY <1>2
    <2> QED  BY <2>1, OnceKept DEF Inv
  <1>5. Paid'
    <2>1. \A u \in Taps : tap'[u] = tap[u] \/ tap'[u].at \notin {"decided", "running"}
                            \/ tap'[u].says # "approve"
      BY <1>2
    <2> QED  BY <2>1, PaidKept DEF Inv
  <1> QED  BY <1>3, <1>4, <1>5 DEF Inv

\* A decision that is over knows nothing.
LEMMA EndsKeeps ==
  ASSUME Shapes, NEW t \in Taps, Ends(t)
  PROVE  \E k \in TapSet : tap' = [tap EXCEPT ![t] = k] /\ k.at = "done" /\ tap'[t] = k
                             /\ tap' \in [Taps -> TapSet]
                             /\ \A u \in Taps : tap'[u] = tap[u] \/ tap'[u].at \in {"idle", "done"}
  <1>1. PICK k : k = [Idle EXCEPT !.at = "done"] OBVIOUS
  <1>2. k \in TapSet /\ k.at = "done"
    BY <1>1 DEF Idle, TapSet
  <1> QED  BY <1>1, <1>2 DEF Ends, Shapes

\* A decision that goes on knows its item, ask and words as before.
LEMMA MovesKeeps ==
  ASSUME Shapes, NEW t \in Taps, NEW to \in {"posting", "decided", "running", "telling"}, Moves(t, to)
  PROVE  \E k \in TapSet : /\ tap' = [tap EXCEPT ![t] = k] /\ tap'[t] = k
                           /\ tap' \in [Taps -> TapSet]
                           /\ k.at = to /\ k.of = tap[t].of /\ k.item = tap[t].item /\ k.says = tap[t].says
  <1>1. tap \in [Taps -> TapSet]
    BY DEF Shapes
  <1>2. PICK k : k = [tap[t] EXCEPT !.at = to] OBVIOUS
  <1>3. k \in TapSet /\ k.at = to /\ k.of = tap[t].of /\ k.item = tap[t].item /\ k.says = tap[t].says
    BY <1>1, <1>2 DEF TapSet
  <1> QED  BY <1>1, <1>2, <1>3 DEF Moves

LEMMA TapTapKeeps ==
  ASSUME ConstantsFit, Inv, NEW t \in Taps, NEW n \in Numbers, NEW d \in {"approve", "decline"}, Tap(t, n, d)
  PROVE  Inv'
  <1>1. UNCHANGED <<row, added, asking, desk, ran, yes, died, stores>>
    BY DEF Tap
  <1>2. Shapes /\ Unasked /\ Follows /\ Told
    BY DEF Inv
  <1>3. PICK a : a = Behind(n) OBVIOUS
  <1>4. a = Nobody \/ (a \in Asks /\ row[a].item = n)
    BY <1>2, <1>3, ItsRow DEF Shapes
  <1>5. n \in Nat /\ n > 0
    BY <1>2, LenProperties DEF Shapes, Numbers
  <1>6. PICK k : k = [at |-> IF a = Nobody THEN "straight" ELSE "looking", item |-> n, of |-> a,
                      seen |-> IF a = Nobody THEN "none" ELSE row[a].status, says |-> d]
    OBVIOUS
  <1>7. k \in TapSet
    <2>1. a # Nobody => row[a].status \in {"none", "waiting", "refused", "expired", "declined", "approved"}
      BY <1>2, <1>4 DEF Shapes, RowSet
    <2> QED  BY <1>4, <1>5, <1>6, <2>1 DEF TapSet
  <1>8. tap' = [tap EXCEPT ![t] = k]
    BY <1>3, <1>6 DEF Tap
  <1>9. tap' \in [Taps -> TapSet] /\ tap'[t] = k
    BY <1>2, <1>7, <1>8 DEF Shapes
  <1>10. Shapes' /\ Unasked' /\ Told' /\ Follows'
    BY <1>1, <1>2, <1>9 DEF Shapes, Unasked, Told, Follows, Numbers, Rows
  <1>11. RowMoves /\ DeskMoves
    BY <1>1 DEF RowMoves, DeskMoves, Numbers
  <1>12. TapIs(t)'
    BY <1>1, <1>4, <1>5, <1>6, <1>9 DEF TapIs
  <1>13. k.at # "running" /\ k.at # "decided"
    BY <1>6
  <1>14. ran' = ran /\ \A w \in Words : yes'[w] >= yes[w]
    BY <1>1, <1>2 DEF Shapes
  <1> QED  BY <1>7, <1>8, <1>10, <1>11, <1>12, <1>13, <1>14, TapKeeps

\* A decision that HQ takes.
LEMMA Taken ==
  ASSUME ConstantsFit, Inv, NEW n \in Numbers, NEW d \in {"approve", "decline"}, Decide(n, d),
         tap' \in [Taps -> TapSet], UNCHANGED <<row, added, asking, ran, died, stores>>
  PROVE  /\ Shapes' /\ Unasked' /\ Told' /\ RowMoves /\ DeskMoves /\ Follows'
         /\ n \in Numbers' /\ desk'[n].of = desk[n].of /\ desk'[n].status = d
         /\ \A w \in Words : yes'[w] = yes[w] + IF d = "approve" /\ w = Says[desk[n].of] THEN 1 ELSE 0
  <1>1. PICK words : words = IF d = "decline" THEN <<"unrun">> ELSE <<>>
    OBVIOUS
  <1>2. /\ desk[n].status = "waiting" /\ Item(n, d, words)
        /\ yes' = IF d = "approve" THEN [yes EXCEPT ![Says[desk[n].of]] = @ + 1] ELSE yes
    BY <1>1 DEF Decide
  <1>3. Shapes /\ Unasked /\ words \in Seq({"unrun", "outcome"})
    <2>1. <<"unrun">> \in Seq({"unrun", "outcome"}) /\ <<>> \in Seq({"unrun", "outcome"})
      OBVIOUS
    <2> QED  BY <1>1, <2>1 DEF Inv
  <1>4. desk' \in Seq(ItemSet) /\ Numbers' = Numbers /\ desk'[n].of = desk[n].of /\ desk'[n].status = d
    BY <1>2, <1>3, Written
  <1>5. desk[n].of \in Asks
    <2>1. desk \in Seq(ItemSet) /\ Numbers = 1..Len(desk)
      BY <1>3, LenProperties DEF Shapes, Numbers
    <2>2. desk[n] \in ItemSet
      BY <2>1, ElementOfSeq
    <2> QED  BY <2>2 DEF ItemSet
  <1>6. /\ yes' \in [Words -> Nat]
        /\ \A w \in Words : yes'[w] = yes[w] + IF d = "approve" /\ w = Says[desk[n].of] THEN 1 ELSE 0
    <2>1. yes \in [Words -> Nat] /\ Says[desk[n].of] \in Words
      BY <1>3, <1>5 DEF Shapes, Words
    <2>2. PICK w : w = Says[desk[n].of] OBVIOUS
    <2>3. CASE d = "approve"
      <3>1. yes' = [yes EXCEPT ![w] = @ + 1] /\ w \in Words BY <1>2, <2>1, <2>2, <2>3
      <3> QED  BY <2>1, <2>2, <2>3, <3>1
    <2>4. CASE d # "approve"
      BY <1>2, <2>1, <2>4
    <2> QED  BY <2>3, <2>4
  <1>7. Shapes' /\ Unasked'
    BY <1>3, <1>4, <1>6 DEF Shapes, Unasked, Words
  <1>8. RowMoves /\ DeskMoves /\ Follows' /\ Told'
    BY <1>1, <1>2, <1>3, <1>7, ItemKeeps DEF Word
  <1> QED  BY <1>4, <1>6, <1>7, <1>8

LEMMA StraightKeeps ==
  ASSUME ConstantsFit, Inv, NEW t \in Taps, Straight(t)
  PROVE  Inv'
  <1>1. /\ tap[t].at = "straight" /\ Ends(t) /\ UNCHANGED <<row, added, asking, ran, died, stores>>
        /\ \/ tap[t].item \in Numbers /\ Decide(tap[t].item, tap[t].says)
           \/ UNCHANGED <<desk, yes>>
    BY DEF Straight
  <1>2. Shapes /\ Unasked /\ Follows /\ Told /\ TapIs(t)
    BY DEF Inv
  <1>3. tap' \in [Taps -> TapSet] /\ \A u \in Taps : tap'[u] = tap[u] \/ tap'[u].at \in {"idle", "done"}
    BY <1>1, <1>2, EndsKeeps
  <1>4. Shapes' /\ Unasked' /\ Told' /\ RowMoves /\ DeskMoves /\ Follows' /\ \A w \in Words : yes'[w] >= yes[w]
    <2>1. CASE UNCHANGED <<desk, yes>>
      <3>1. Shapes' /\ Unasked' /\ Told' /\ Follows'
        BY <1>1, <1>2, <1>3, <2>1 DEF Shapes, Unasked, Told, Follows, Numbers, Rows, Words
      <3>2. RowMoves /\ DeskMoves
        BY <1>1, <2>1 DEF RowMoves, DeskMoves, Numbers
      <3> QED  BY <1>2, <2>1, <3>1, <3>2 DEF Shapes
    <2>2. ASSUME tap[t].item \in Numbers, Decide(tap[t].item, tap[t].says)
          PROVE  Shapes' /\ Unasked' /\ Told' /\ RowMoves /\ DeskMoves /\ Follows' /\ \A w \in Words : yes'[w] >= yes[w]
      <3>1. PICK n, d : n = tap[t].item /\ d = tap[t].says OBVIOUS
      <3>2. n \in Numbers /\ d \in {"approve", "decline"} /\ Decide(n, d)
        BY <1>1, <1>2, <2>2, <3>1 DEF TapIs
      <3>3. /\ Shapes' /\ Unasked' /\ Told' /\ RowMoves /\ DeskMoves /\ Follows'
            /\ \A w \in Words : yes'[w] = yes[w] + IF d = "approve" /\ w = Says[desk[n].of] THEN 1 ELSE 0
        BY <1>1, <1>3, <3>2, Taken
      <3>4. yes \in [Words -> Nat] BY <1>2 DEF Shapes
      <3>5. \A w \in Words : yes'[w] >= yes[w] BY <3>3, <3>4
      <3> QED  BY <3>3, <3>5
    <2> QED  BY <1>1, <2>1, <2>2
  <1> QED  BY <1>1, <1>3, <1>4, QuietKeeps

\* No row, item, word or yes is other after the step.
LEMMA AsItWas ==
  ASSUME Inv, tap' \in [Taps -> TapSet], UNCHANGED <<row, added, asking, desk, yes, died>>,
         ran' \in [Asks -> Nat]
  PROVE  /\ Shapes' /\ Unasked' /\ Told' /\ RowMoves /\ DeskMoves /\ Follows'
         /\ \A w \in Words : yes'[w] >= yes[w]
  <1>1. Shapes' /\ Unasked' /\ Told' /\ Follows'
    BY DEF Inv, Shapes, Unasked, Told, Follows, Numbers, Rows, Words
  <1>2. RowMoves /\ DeskMoves
    BY DEF RowMoves, DeskMoves, Numbers
  <1> QED  BY <1>1, <1>2 DEF Inv, Shapes

\* A row is moved, and the desk stands: it agrees, if its items do.
LEMMA RowMoved ==
  ASSUME Inv, NEW a \in Asks, NEW to \in {"refused", "expired", "declined", "approved"},
         Settled(a, to), tap' \in [Taps -> TapSet], UNCHANGED <<added, asking, desk, ran, yes, died>>,
         asking[a].at = "done",
         \A n \in Numbers : row[a].item = n =>
           /\ to = "approved" => desk[n].status \in {"approve", "ran"}
           /\ to = "declined" => desk[n].status = "decline"
  PROVE  /\ Shapes' /\ Unasked' /\ Told' /\ RowMoves /\ DeskMoves /\ Follows'
         /\ \A w \in Words : yes'[w] >= yes[w]
  <1>1. Shapes /\ Unasked /\ Told /\ Follows
    BY DEF Inv
  <1>2. /\ row' \in [Asks -> RowSet] /\ \A b \in Asks \ {a} : row'[b] = row[b]
        /\ row'[a].item = row[a].item
        /\ row'[a].status = IF row[a].status = "waiting" THEN to ELSE row[a].status
    BY <1>1, Moved
  <1>3. Shapes'
    BY <1>1, <1>2 DEF Shapes, Words
  <1>4. Unasked' /\ Told'
    BY <1>1, <1>2 DEF Unasked, Told, Numbers
  <1>5. RowMoves /\ DeskMoves
    BY <1>2 DEF RowMoves, DeskMoves, Numbers
  <1>6. Follows'
    <2>1. Numbers' = Numbers BY DEF Numbers
    <2>2. \A b \in Asks : row'[b].item = row[b].item
      BY <1>2
    <2>3. \A b \in Asks, n \in Numbers : row'[b].status # row[b].status /\ row[b].item = n =>
            /\ row'[b].status = "approved" => desk'[n].status \in {"approve", "ran"}
            /\ row'[b].status = "declined" => desk'[n].status = "decline"
      BY <1>2
    <2> QED  BY <1>1, <1>3, <1>5, <2>1, <2>2, <2>3, FollowsKept
  <1> QED  BY <1>1, <1>3, <1>4, <1>5, <1>6 DEF Shapes

\* A row with a number is of a call that is over.
LEMMA HasItsNumber ==
  ASSUME Inv, NEW t \in Taps, tap[t].at \in {"looking", "posting", "decided", "running", "telling"}
  PROVE  tap[t].of \in Asks /\ asking[tap[t].of].at = "done"
  <1>1. tap[t].of \in Asks /\ tap[t].item > 0 /\ row[tap[t].of].item = tap[t].item
    BY DEF Inv, TapIs
  <1>2. row[tap[t].of].item # 0
    BY <1>1 DEF Inv, Shapes, TapSet
  <1> QED  BY <1>1, <1>2 DEF Inv, Unasked

LEMMA LookKeeps ==
  ASSUME ConstantsFit, Inv, NEW t \in Taps, Look(t)
  PROVE  Inv'
  <1>1. tap[t].at = "looking" /\ UNCHANGED <<added, asking, desk, ran, yes, died, stores>>
    BY DEF Look
  <1>2. Shapes /\ TapIs(t) /\ tap[t].of \in Asks /\ asking[tap[t].of].at = "done"
    BY <1>1, HasItsNumber DEF Inv
  <1>3. CASE Ends(t) /\ UNCHANGED row
    <2>1. tap' \in [Taps -> TapSet] /\ \A u \in Taps : tap'[u] = tap[u] \/ tap'[u].at \in {"idle", "done"}
      BY <1>2, <1>3, EndsKeeps
    <2>2. /\ Shapes' /\ Unasked' /\ Told' /\ RowMoves /\ DeskMoves /\ Follows'
          /\ \A w \in Words : yes'[w] >= yes[w]
      <3>1. ran' \in [Asks -> Nat] BY <1>1, <1>2 DEF Shapes
      <3> QED  BY <1>1, <1>3, <2>1, <3>1, AsItWas
    <2> QED  BY <1>1, <2>1, <2>2, QuietKeeps
  <1>4. ASSUME NEW to \in {"expired", "refused"}, Settled(tap[t].of, to), Ends(t)
        PROVE  Inv'
    <2>1. tap' \in [Taps -> TapSet] /\ \A u \in Taps : tap'[u] = tap[u] \/ tap'[u].at \in {"idle", "done"}
      BY <1>2, <1>4, EndsKeeps
    <2>2. PICK a : a = tap[t].of OBVIOUS
    <2>3. a \in Asks /\ Settled(a, to) /\ asking[a].at = "done"
      BY <1>2, <1>4, <2>2
    <2>4. /\ Shapes' /\ Unasked' /\ Told' /\ RowMoves /\ DeskMoves /\ Follows'
          /\ \A w \in Words : yes'[w] >= yes[w]
      BY <1>1, <2>1, <2>3, RowMoved
    <2> QED  BY <1>1, <2>1, <2>4, QuietKeeps
  <1>5. CASE Held(t) /\ Moves(t, "posting") /\ UNCHANGED row
    <2>1. PICK k \in TapSet : /\ tap' = [tap EXCEPT ![t] = k] /\ tap'[t] = k
                              /\ tap' \in [Taps -> TapSet] /\ k.at = "posting"
                              /\ k.of = tap[t].of /\ k.item = tap[t].item /\ k.says = tap[t].says
      BY <1>2, <1>5, MovesKeeps
    <2>2. /\ Shapes' /\ Unasked' /\ Told' /\ RowMoves /\ DeskMoves /\ Follows'
          /\ \A w \in Words : yes'[w] >= yes[w]
      <3>1. ran' \in [Asks -> Nat] BY <1>1, <1>2 DEF Shapes
      <3> QED  BY <1>1, <1>5, <2>1, <3>1, AsItWas
    <2>3. TapIs(t)'
      BY <1>1, <1>2, <1>5, <2>1 DEF TapIs, Held, Numbers
    <2> QED  BY <1>1, <2>1, <2>2, <2>3, TapKeeps
  <1> QED  BY <1>3, <1>4, <1>5 DEF Look

LEMMA PostKeeps ==
  ASSUME ConstantsFit, Inv, NEW t \in Taps, Post(t)
  PROVE  Inv'
  <1>1. tap[t].at = "posting" /\ UNCHANGED <<row, added, asking, ran, died, stores>>
    BY DEF Post
  <1>2. Shapes /\ Once /\ Paid /\ (\A u \in Taps : TapIs(u))
    BY DEF Inv
  <1>3. PICK n, d, a : n = tap[t].item /\ d = tap[t].says /\ a = tap[t].of OBVIOUS
  <1>4. /\ a \in Asks /\ n \in Nat /\ n > 0 /\ row[a].item = n /\ d \in {"approve", "decline"}
        /\ n \in Numbers /\ Says[desk[n].of] = Says[a]
    BY <1>1, <1>2, <1>3 DEF TapIs, Shapes, TapSet
  <1>5. CASE Ends(t) /\ UNCHANGED <<desk, yes>>
    <2>1. tap' \in [Taps -> TapSet] /\ \A u \in Taps : tap'[u] = tap[u] \/ tap'[u].at \in {"idle", "done"}
      BY <1>2, <1>5, EndsKeeps
    <2>2. /\ Shapes' /\ Unasked' /\ Told' /\ RowMoves /\ DeskMoves /\ Follows'
          /\ \A w \in Words : yes'[w] >= yes[w]
      <3>1. ran' \in [Asks -> Nat] BY <1>1, <1>2 DEF Shapes
      <3> QED  BY <1>1, <1>5, <2>1, <3>1, AsItWas
    <2> QED  BY <1>1, <2>1, <2>2, QuietKeeps
  <1>6. CASE Decide(n, d) /\ Ends(t)
    <2>1. tap' \in [Taps -> TapSet] /\ \A u \in Taps : tap'[u] = tap[u] \/ tap'[u].at \in {"idle", "done"}
      BY <1>2, <1>6, EndsKeeps
    <2>2. /\ Shapes' /\ Unasked' /\ Told' /\ RowMoves /\ DeskMoves /\ Follows'
          /\ \A w \in Words : yes'[w] = yes[w] + IF d = "approve" /\ w = Says[desk[n].of] THEN 1 ELSE 0
      BY <1>1, <1>4, <1>6, <2>1, Taken
    <2>3. \A w \in Words : yes'[w] >= yes[w]
      <3>1. yes \in [Words -> Nat] BY <1>2 DEF Shapes
      <3> QED  BY <2>2, <3>1
    <2> QED  BY <1>1, <2>1, <2>2, <2>3, QuietKeeps
  <1>7. CASE Decide(n, d) /\ Moves(t, "decided")
    <2>1. PICK k \in TapSet : /\ tap' = [tap EXCEPT ![t] = k] /\ tap'[t] = k
                              /\ tap' \in [Taps -> TapSet] /\ k.at = "decided"
                              /\ k.of = tap[t].of /\ k.item = tap[t].item /\ k.says = tap[t].says
      BY <1>2, <1>7, MovesKeeps
    <2>2. /\ Shapes' /\ Unasked' /\ Told' /\ RowMoves /\ DeskMoves /\ Follows'
          /\ n \in Numbers' /\ desk'[n].of = desk[n].of /\ desk'[n].status = d
          /\ \A w \in Words : yes'[w] = yes[w] + IF d = "approve" /\ w = Says[desk[n].of] THEN 1 ELSE 0
      BY <1>1, <1>4, <1>7, <2>1, Taken
    <2>3. yes \in [Words -> Nat] /\ yes' \in [Words -> Nat] /\ tap \in [Taps -> TapSet]
      BY <1>2, <2>2 DEF Shapes, Words
    <2>4. \A u \in Taps \ {t} : tap'[u] = tap[u]
      BY <2>1, <2>3
    <2>5. TapIs(t)'
      BY <1>1, <1>3, <1>4, <2>1, <2>2 DEF TapIs
    <2>6. CASE d = "decline"
      <3>1. \A w \in Words : yes'[w] >= yes[w] BY <2>2, <2>3
      <3>2. k.says # "approve" /\ k.at # "running" /\ ran' = ran BY <1>1, <1>3, <2>1, <2>6
      <3> QED  BY <2>1, <2>2, <2>5, <3>1, <3>2, TapKeeps
    <2>7. CASE d = "approve"
      <3>1. \A u \in Taps : TapIs(u)'
        <4> TAKE u \in Taps
        <4>1. CASE u # t
          BY <1>1, <1>2, <2>2, <2>4, <4>1, TapKept
        <4> QED  BY <2>5, <4>1
      <3>2. Once'
        <4>1. \A u \in Taps : tap'[u].at = "running" => tap[u].at = "running" /\ tap'[u].of = tap[u].of
          BY <2>1, <2>4
        <4> QED  BY <1>1, <1>2, <2>2, <4>1, OnceKept
      <3>3. Paid'
        <4> SUFFICES ASSUME NEW w \in Words
                     PROVE  Cardinality(RunsOf(w)') + Cardinality(Unspent(w)') <= yes'[w]
          BY DEF Paid, Words
        <4>1. RunsOf(w)' = RunsOf(w)
          BY <1>1 DEF RunsOf
        <4>2. IsFiniteSet(Unspent(w)) /\ Cardinality(RunsOf(w)) \in Nat /\ Cardinality(Unspent(w)) \in Nat
          BY <1>2, Counts
        <4>3. Cardinality(RunsOf(w)) + Cardinality(Unspent(w)) <= yes[w]
          BY <1>2 DEF Paid
        <4>4. CASE w = Says[a]
          <5>1. Unspent(w)' \in SUBSET (Unspent(w) \cup {t})
            BY <2>4 DEF Unspent
          <5>2. /\ IsFiniteSet(Unspent(w) \cup {t})
                /\ Cardinality(Unspent(w) \cup {t}) = IF t \in Unspent(w) THEN Cardinality(Unspent(w))
                                                      ELSE Cardinality(Unspent(w)) + 1
            BY <4>2, FS_AddElement
          <5>3. IsFiniteSet(Unspent(w)') /\ Cardinality(Unspent(w)') <= Cardinality(Unspent(w) \cup {t})
            BY <5>1, <5>2, FS_Subset
          <5>4. Cardinality(Unspent(w)') \in Nat
            BY <5>3, FS_CardinalityType
          <5>5. yes'[w] = yes[w] + 1 /\ yes[w] \in Nat
            BY <1>4, <2>2, <2>3, <2>7, <4>4
          <5> QED  BY <4>1, <4>2, <4>3, <5>2, <5>3, <5>4, <5>5
        <4>5. CASE w # Says[a]
          <5>1. Unspent(w)' \in SUBSET Unspent(w)
            BY <1>3, <2>1, <2>4, <4>5 DEF Unspent
          <5>2. IsFiniteSet(Unspent(w)') /\ Cardinality(Unspent(w)') <= Cardinality(Unspent(w))
            BY <4>2, <5>1, FS_Subset
          <5>3. Cardinality(Unspent(w)') \in Nat
            BY <5>2, FS_CardinalityType
          <5>4. yes'[w] = yes[w] /\ yes[w] \in Nat
            BY <1>4, <2>2, <2>3, <4>5
          <5> QED  BY <4>1, <4>2, <4>3, <5>2, <5>3, <5>4
        <4> QED  BY <4>4, <4>5
      <3> QED  BY <2>2, <3>1, <3>2, <3>3 DEF Inv
    <2> QED  BY <1>4, <2>6, <2>7
  <1> QED  BY <1>3, <1>5, <1>6, <1>7 DEF Post

LEMMA FollowKeeps ==
  ASSUME ConstantsFit, Inv, NEW t \in Taps, Follow(t)
  PROVE  Inv'
  <1>1. PICK a, to : a = tap[t].of /\ to = IF tap[t].says = "approve" THEN "approved" ELSE "declined"
    OBVIOUS
  <1>2. /\ tap[t].at = "decided" /\ Settled(a, to)
        /\ UNCHANGED <<added, asking, desk, ran, yes, died, stores>>
        /\ IF tap[t].says = "approve" /\ row[a].status = "waiting" THEN Moves(t, "running") ELSE Ends(t)
    BY <1>1 DEF Follow
  <1>3. Shapes /\ Once /\ Paid /\ TapIs(t) /\ a \in Asks /\ asking[a].at = "done"
    BY <1>1, <1>2, HasItsNumber DEF Inv
  <1>4. PICK n : n = tap[t].item OBVIOUS
  <1>5. /\ row[a].item = n /\ n \in Numbers
        /\ desk[n].status \in IF tap[t].says = "approve" THEN {"approve", "ran"} ELSE {"decline"}
        /\ Says[desk[n].of] = Says[a]
    BY <1>1, <1>2, <1>3, <1>4 DEF TapIs
  <1>6. ASSUME tap' \in [Taps -> TapSet]
        PROVE  /\ Shapes' /\ Unasked' /\ Told' /\ RowMoves /\ DeskMoves /\ Follows'
               /\ \A w \in Words : yes'[w] >= yes[w]
    <2>1. to \in {"approved", "declined"}
      BY <1>1
    <2>2. \A m \in Numbers : row[a].item = m =>
            /\ to = "approved" => desk[m].status \in {"approve", "ran"}
            /\ to = "declined" => desk[m].status = "decline"
      BY <1>1, <1>5
    <2> QED  BY <1>2, <1>3, <1>6, <2>1, <2>2, RowMoved
  <1>7. CASE Ends(t)
    <2>1. tap' \in [Taps -> TapSet] /\ \A u \in Taps : tap'[u] = tap[u] \/ tap'[u].at \in {"idle", "done"}
      BY <1>3, <1>7, EndsKeeps
    <2> QED  BY <1>2, <1>6, <2>1, QuietKeeps
  <1>8. CASE tap[t].says = "approve" /\ row[a].status = "waiting" /\ Moves(t, "running")
    <2>1. PICK k \in TapSet : /\ tap' = [tap EXCEPT ![t] = k] /\ tap'[t] = k
                              /\ tap' \in [Taps -> TapSet] /\ k.at = "running"
                              /\ k.of = tap[t].of /\ k.item = tap[t].item /\ k.says = tap[t].says
      BY <1>3, <1>8, MovesKeeps
    <2>2. /\ Shapes' /\ Unasked' /\ Told' /\ RowMoves /\ DeskMoves /\ Follows'
          /\ \A w \in Words : yes'[w] >= yes[w]
      BY <1>6, <2>1
    <2>3. tap \in [Taps -> TapSet] /\ \A u \in Taps \ {t} : tap'[u] = tap[u]
      BY <1>3, <2>1 DEF Shapes
    <2>4. row'[a].status = "approved" /\ row'[a].item = row[a].item
      BY <1>1, <1>2, <1>3, <1>8, Moved
    <2>5. ran' = ran /\ ran[a] = 0
      <3>1. ran' = ran BY <1>2
      <3>2. ran[a] \in Nat /\ a \in Asks BY <1>1, <1>2, <1>3 DEF Shapes
      <3>3. ~(ran[a] > 0) BY <1>3, <1>8, <3>2 DEF Once
      <3> QED  BY <3>1, <3>2, <3>3
    <2>6. \A u \in Taps \ {t} : ~(tap[u].at = "running" /\ tap[u].of = a)
      BY <1>8 DEF Inv, TapIs
    <2>7. TapIs(t)'
      <3>1. desk' = desk /\ Numbers' = Numbers BY <1>2 DEF Numbers
      <3> QED  BY <1>1, <1>3, <1>4, <1>5, <1>8, <2>1, <2>4, <2>5, <3>1, <1>2 DEF TapIs
    <2>8. \A u \in Taps : TapIs(u)'
      <3> TAKE u \in Taps
      <3>1. CASE u # t
        BY <1>3, <2>2, <2>3, <2>5, <3>1, TapKept DEF Inv
      <3> QED  BY <2>7, <3>1
    <2>9. Once'
      <3>1. ASSUME NEW u \in Taps, NEW v \in Taps,
                   tap'[u].at = "running", tap'[v].at = "running", tap'[u].of = tap'[v].of
            PROVE  u = v
        <4>1. CASE u # t /\ v # t
          BY <1>3, <2>3, <3>1, <4>1 DEF Once
        <4>2. CASE u = t \/ v = t
          BY <1>1, <2>1, <2>3, <2>6, <3>1, <4>2
        <4> QED  BY <4>1, <4>2
      <3>2. \A b \in Asks : ran'[b] <= 1 /\ (ran'[b] > 0 => row'[b].status = "approved")
        BY <1>3, <2>2, <2>5 DEF Once, RowMoves
      <3> QED  BY <3>1, <3>2 DEF Once
    <2>10. Paid'
      <3>1. \A u \in Taps : tap'[u] = tap[u] \/ tap'[u].at \notin {"decided", "running"}
                              \/ tap'[u].says # "approve"
                              \/ (/\ tap[u].at \in {"decided", "running"} /\ tap'[u].says = tap[u].says
                                  /\ tap'[u].of = tap[u].of)
        <4> TAKE u \in Taps
        <4>1. CASE u # t BY <2>3, <4>1
        <4>2. CASE u = t BY <1>2, <2>1, <4>2
        <4> QED  BY <4>1, <4>2
      <3> QED  BY <1>3, <2>2, <2>5, <3>1, PaidKept
    <2> QED  BY <2>2, <2>8, <2>9, <2>10 DEF Inv
  <1> QED  BY <1>2, <1>7, <1>8

\* What the node kept is run, or is switched off: either way the yes is used.
LEMMA RunKeeps ==
  ASSUME ConstantsFit, Inv, NEW t \in Taps, Run(t)
  PROVE  Inv'
  <1>1. PICK a : a = tap[t].of OBVIOUS
  <1>2. /\ tap[t].at = "running" /\ Moves(t, "telling")
        /\ ran' = [ran EXCEPT ![a] = @ + 1] \/ UNCHANGED ran
        /\ UNCHANGED <<row, added, asking, desk, yes, died, stores>>
    BY <1>1 DEF Run
  <1>3. Shapes /\ Once /\ Paid /\ TapIs(t)
    BY DEF Inv
  <1>4. a \in Asks /\ ran[a] = 0 /\ row[a].status = "approved" /\ tap[t].says = "approve"
    BY <1>1, <1>2, <1>3 DEF TapIs
  <1>5. PICK k \in TapSet : /\ tap' = [tap EXCEPT ![t] = k] /\ tap'[t] = k
                            /\ tap' \in [Taps -> TapSet] /\ k.at = "telling"
                            /\ k.of = tap[t].of /\ k.item = tap[t].item /\ k.says = tap[t].says
    BY <1>2, <1>3, MovesKeeps
  <1>6. tap \in [Taps -> TapSet] /\ ran \in [Asks -> Nat] /\ ran' \in [Asks -> Nat]
        /\ \A u \in Taps \ {t} : tap'[u] = tap[u]
    <2>1. tap \in [Taps -> TapSet] /\ ran \in [Asks -> Nat] BY <1>3 DEF Shapes
    <2>2. ran' \in [Asks -> Nat]
      <3>1. CASE ran' = ran BY <2>1, <3>1
      <3>2. CASE ran' = [ran EXCEPT ![a] = @ + 1] BY <1>4, <2>1, <3>2
      <3> QED  BY <1>2, <3>1, <3>2
    <2>3. \A u \in Taps \ {t} : tap'[u] = tap[u] BY <1>5, <2>1
    <2> QED  BY <2>1, <2>2, <2>3
  <1>7. \A b \in Asks : b # a => ran'[b] = ran[b]
    BY <1>2, <1>6
  <1>8. ran'[a] \in {0, 1}
    BY <1>2, <1>4, <1>6
  <1>9. /\ Shapes' /\ Unasked' /\ Told' /\ RowMoves /\ DeskMoves /\ Follows'
    BY <1>2, <1>5, <1>6, AsItWas
  <1>10. \A u \in Taps : TapIs(u)'
    <2> TAKE u \in Taps
    <2>1. CASE u = t
      BY <1>2, <1>3, <1>5, <2>1 DEF TapIs, Numbers
    <2>2. CASE u # t
      <3>1. tap[u].at = "running" => tap[u].of \in Asks /\ tap[u].of # a
        BY <1>1, <1>2, <1>3, <2>2 DEF Once, Inv, TapIs
      <3> QED  BY <1>3, <1>6, <1>7, <1>9, <2>2, <3>1, TapKept DEF Inv
    <2> QED  BY <2>1, <2>2
  <1>11. Once'
    <2>1. \A u, v \in Taps : tap'[u].at = "running" /\ tap'[v].at = "running"
                               /\ tap'[u].of = tap'[v].of => u = v
      BY <1>3, <1>5, <1>6 DEF Once
    <2>2. \A b \in Asks : ran'[b] <= 1 /\ (ran'[b] > 0 => row'[b].status = "approved")
      BY <1>2, <1>3, <1>4, <1>7, <1>8 DEF Once
    <2> QED  BY <2>1, <2>2 DEF Once
  <1>12. Paid'
    <2> SUFFICES ASSUME NEW w \in Words
                 PROVE  Cardinality(RunsOf(w)') + Cardinality(Unspent(w)') <= yes'[w]
      BY DEF Paid, Words
    <2>1. /\ IsFiniteSet(RunsOf(w)) /\ IsFiniteSet(Unspent(w))
          /\ Cardinality(RunsOf(w)) \in Nat /\ Cardinality(Unspent(w)) \in Nat
      BY <1>3, Counts
    <2>2. Cardinality(RunsOf(w)) + Cardinality(Unspent(w)) <= yes[w] /\ yes'[w] = yes[w] /\ yes[w] \in Nat
      BY <1>2, <1>3 DEF Paid, Shapes
    <2>3. Unspent(w)' = Unspent(w) \ {t}
      BY <1>5, <1>6 DEF Unspent
    <2>4. Cardinality(Unspent(w)') = IF t \in Unspent(w) THEN Cardinality(Unspent(w)) - 1
                                     ELSE Cardinality(Unspent(w))
      BY <2>1, <2>3, FS_RemoveElement
    <2>5. CASE w = Says[a]
      <3>1. t \in Unspent(w)
        BY <1>1, <1>2, <1>4, <2>5 DEF Unspent
      <3>2. RunsOf(w)' \in SUBSET (RunsOf(w) \cup {<<a, 1>>})
        <4> SUFFICES ASSUME NEW b \in Asks, Says[b] = w, NEW i \in 1..ran'[b]
                     PROVE  <<b, i>> \in RunsOf(w) \cup {<<a, 1>>}
          BY DEF RunsOf
        <4>1. CASE b = a
          <5>1. i = 1 BY <1>8, <4>1
          <5> QED  BY <4>1, <5>1
        <4>2. CASE b # a
          <5>1. i \in 1..ran[b] BY <1>7, <4>2
          <5> QED  BY <5>1 DEF RunsOf
        <4> QED  BY <4>1, <4>2
      <3>3. /\ IsFiniteSet(RunsOf(w) \cup {<<a, 1>>})
            /\ Cardinality(RunsOf(w) \cup {<<a, 1>>}) =
                 IF <<a, 1>> \in RunsOf(w) THEN Cardinality(RunsOf(w)) ELSE Cardinality(RunsOf(w)) + 1
        BY <2>1, FS_AddElement
      <3>4. IsFiniteSet(RunsOf(w)') /\ Cardinality(RunsOf(w)') <= Cardinality(RunsOf(w) \cup {<<a, 1>>})
        BY <3>2, <3>3, FS_Subset
      <3>5. Cardinality(RunsOf(w)') \in Nat
        BY <3>4, FS_CardinalityType
      <3> QED  BY <2>1, <2>2, <2>4, <3>1, <3>3, <3>4, <3>5
    <2>6. CASE w # Says[a]
      <3>1. RunsOf(w)' = RunsOf(w)
        <4>1. \A b \in Asks : Says[b] = w => ran'[b] = ran[b] BY <1>7, <2>6
        <4> QED  BY <4>1 DEF RunsOf
      <3> QED  BY <2>1, <2>2, <2>4, <3>1
    <2> QED  BY <2>5, <2>6
  <1> QED  BY <1>9, <1>10, <1>11, <1>12 DEF Inv

LEMMA TellKeeps ==
  ASSUME ConstantsFit, Inv, NEW t \in Taps, Tell(t)
  PROVE  Inv'
  <1>1. PICK n : n = tap[t].item OBVIOUS
  <1>2. /\ tap[t].at = "telling" /\ Ends(t) /\ UNCHANGED <<row, added, asking, ran, yes, died, stores>>
        /\ Outcome(n) \/ UNCHANGED desk
    BY <1>1 DEF Tell
  <1>3. Shapes /\ Unasked /\ n \in Numbers
    BY <1>1, <1>2 DEF Inv, TapIs
  <1>4. tap' \in [Taps -> TapSet] /\ \A u \in Taps : tap'[u] = tap[u] \/ tap'[u].at \in {"idle", "done"}
    BY <1>2, <1>3, EndsKeeps
  <1>5. Shapes' /\ Unasked' /\ Told' /\ RowMoves /\ DeskMoves /\ Follows'
    <2>1. CASE UNCHANGED desk
      <3>1. ran' \in [Asks -> Nat] BY <1>2, <1>3 DEF Shapes
      <3> QED  BY <1>2, <1>4, <2>1, <3>1, AsItWas
    <2>2. CASE Outcome(n)
      <3>1. desk[n].status = "approve" /\ Item(n, "ran", <<"outcome">>)
            /\ <<"outcome">> \in Seq({"unrun", "outcome"})
        BY <2>2 DEF Outcome
      <3>2. desk' \in Seq(ItemSet)
        BY <1>3, <3>1, Written
      <3>3. Shapes' /\ Unasked'
        BY <1>2, <1>3, <1>4, <3>2 DEF Shapes, Unasked, Words
      <3>4. <<"outcome">> = Word("ran")
        BY DEF Word
      <3> QED  BY <1>1, <1>2, <1>3, <3>1, <3>3, <3>4, ItemKeeps
    <2> QED  BY <1>2, <2>1, <2>2
  <1>6. ran' = ran /\ \A w \in Words : yes'[w] >= yes[w]
    BY <1>2, <1>3 DEF Shapes
  <1> QED  BY <1>4, <1>5, <1>6, QuietKeeps

---------------------------------------------------------------------------
(* The invariant.                                                          *)

LEMMA StepKeeps == ASSUME ConstantsFit PROVE Inv /\ [Next]_vars => Inv'
  <1> SUFFICES ASSUME Inv, [Next]_vars PROVE Inv'
    OBVIOUS
  <1>1. ASSUME NEW a \in Asks, Keep(a) \/ Asked(a) \/ NotAsked(a) \/ Numbered(a)
        PROVE  Inv'
    BY <1>1, KeepKeeps, AskedKeeps, NotAskedKeeps, NumberedKeeps
  <1>2. CASE HqDies \/ NewStore \/ NodeDies \/ Ages
    BY <1>2, HqDiesKeeps, NewStoreKeeps, NodeDiesKeeps, AgesKeeps
  <1>3. ASSUME NEW n \in Numbers, Expire(n)
        PROVE  Inv'
    BY <1>3, ExpireKeeps
  <1>4. ASSUME NEW t \in Taps, NEW n \in Numbers, NEW d \in {"approve", "decline"}, Tap(t, n, d)
        PROVE  Inv'
    BY <1>4, TapTapKeeps
  <1>5. ASSUME NEW t \in Taps, Straight(t) \/ Look(t) \/ Post(t) \/ Follow(t) \/ Run(t) \/ Tell(t)
        PROVE  Inv'
    BY <1>5, StraightKeeps, LookKeeps, PostKeeps, FollowKeeps, RunKeeps, TellKeeps
  <1>6. CASE UNCHANGED vars
    <2> USE <1>6 DEF vars
    <2>1. Shapes' /\ Unasked' /\ Once'
      BY DEF Inv, Shapes, Unasked, Once, Words
    <2>2. Paid'
      BY DEF Inv, Paid, RunsOf, Unspent, Words
    <2>3. Follows' /\ Told'
      BY DEF Inv, Follows, Told, Numbers, Rows
    <2>4. \A t \in Taps : TapIs(t)'
      BY DEF Inv, TapIs, Numbers
    <2> QED  BY <2>1, <2>2, <2>3, <2>4 DEF Inv
  <1> QED  BY <1>1, <1>2, <1>3, <1>4, <1>5, <1>6 DEF Next

LEMMA Beginning == ASSUME ConstantsFit PROVE Init => Inv
  <1> SUFFICES ASSUME Init PROVE Inv
    OBVIOUS
  <1>1. Shapes
    BY DEF Init, Shapes, RowSet, AskSet, TapSet, Idle, Words
  <1>2. Unasked /\ Once
    BY DEF Init, Unasked, Once, Idle
  <1>3. \A t \in Taps : TapIs(t)
    BY DEF Init, TapIs, Idle
  <1>4. Paid
    <2> SUFFICES ASSUME NEW w \in Words
                 PROVE  Cardinality(RunsOf(w)) + Cardinality(Unspent(w)) <= yes[w]
      BY DEF Paid
    <2>1. RunsOf(w) = {} BY DEF Init, RunsOf
    <2>2. Unspent(w) = {} BY DEF Init, Unspent, Idle
    <2> QED  BY <2>1, <2>2, FS_EmptySet DEF Init
  <1>5. Follows /\ Told
    BY DEF Init, Follows, Told, Numbers
  <1> QED  BY <1>1, <1>2, <1>3, <1>4, <1>5 DEF Inv

LEMMA Inductive == ASSUME ConstantsFit PROVE Spec => []Inv
  BY Beginning, StepKeeps, PTL DEF Spec

---------------------------------------------------------------------------
(* Safety.                                                                 *)

\* Whatever is lost, repeated or made anew, no row, item, decision or count is one the node or HQ
\* could not hold (bridge.rs and engine.rs, the statuses of an approval).
THEOREM TypesKept == ASSUME ConstantsFit PROVE Spec => []TypeOK
  <1>1. ASSUME Inv PROVE TypeOK
    <2>1. Shapes BY <1>1 DEF Inv
    <2>2. ASSUME NEW n \in Numbers
          PROVE  desk[n] \in ItemSet /\ \A i \in DOMAIN desk[n].told : desk[n].told[i] \in {"unrun", "outcome"}
      <3>1. desk \in Seq(ItemSet) /\ Numbers = 1..Len(desk) BY <2>1, LenProperties DEF Shapes, Numbers
      <3>2. desk[n] \in ItemSet BY <3>1, ElementOfSeq
      <3>3. PICK told : told = desk[n].told OBVIOUS
      <3>4. told \in Seq({"unrun", "outcome"}) BY <3>2, <3>3 DEF ItemSet
      <3>5. \A i \in DOMAIN told : told[i] \in {"unrun", "outcome"} BY <3>4, ElementOfSeq, LenProperties
      <3> QED  BY <3>2, <3>3, <3>5
    <2>3. \A t \in Taps : tap[t] \in TapSet BY <2>1 DEF Shapes
    <2>4. \A a \in Asks : row[a] \in RowSet /\ asking[a] \in AskSet /\ ran[a] \in Nat BY <2>1 DEF Shapes
    <2>5. \A w \in Words : yes[w] \in Nat BY <2>1 DEF Shapes
    <2> QED  BY <2>2, <2>3, <2>4, <2>5 DEF TypeOK, RowSet, AskSet, TapSet, ItemSet
  <1> QED  BY <1>1, Inductive, PTL

\* For any number of asks, decisions, crashes and stores: what the node kept runs at most once and
\* only when its row is approved, and such words run no more often than HQ took the owner's yes to
\* them (bridge.rs, `decide`, `on_the_desk`), though HQ's numbers begin again and answers are lost.
THEOREM TheOwnersYesIsNeeded == ASSUME ConstantsFit PROVE Spec => []RunsOnTheOwnersYes
  <1>1. ASSUME Inv PROVE RunsOnTheOwnersYes
    <2>1. \A a \in Asks : ran[a] <= 1 /\ (ran[a] > 0 => row[a].status = "approved")
      BY <1>1 DEF Inv, Once
    <2>2. ASSUME NEW w \in Words PROVE Cardinality(RunsOf(w)) <= yes[w]
      <3>1. Shapes /\ Once /\ Paid BY <1>1 DEF Inv
      <3>2. Cardinality(RunsOf(w)) \in Nat /\ Cardinality(Unspent(w)) \in Nat
        BY <3>1, Counts
      <3> QED  BY <3>1, <3>2 DEF Paid, Shapes
    <2> QED  BY <2>1, <2>2 DEF RunsOnTheOwnersYes
  <1> QED  BY <1>1, Inductive, PTL

\* The node's row, HQ's desk and what the member was told never contradict each other: a row says
\* yes only where its item does, and a member told that it was not run never has it run
\* (engine.rs, `decide`, `approval_outcome`, `expire_approvals`; bridge.rs, `decide`).
THEOREM TheRecordsAgree == ASSUME ConstantsFit PROVE Spec => []OutcomesAgree
  <1>1. ASSUME Inv PROVE RowFollowsTheDesk
    <2> SUFFICES ASSUME NEW n \in Numbers, NEW a, a = desk[n].of, Rows(n) = {a}
                 PROVE  /\ row[a].status = "approved" => desk[n].status \in {"approve", "ran"}
                        /\ row[a].status = "declined" => desk[n].status = "decline"
                        /\ desk[n].status = "ran" => row[a].status = "approved"
      BY DEF RowFollowsTheDesk
    <2>1. row[a].item = n BY DEF Rows
    <2>2. Follows BY <1>1 DEF Inv
    <2> QED  BY <2>1, <2>2 DEF Follows
  <1>2. ASSUME Inv PROVE ToldOnceAndTruly
    <2> SUFFICES ASSUME \A i \in DOMAIN died : died[i] = "node", NEW n \in Numbers
                 PROVE  /\ Len(desk[n].told) <= 1
                        /\ (desk[n].told = <<"unrun">> /\ Rows(n) = {desk[n].of}) => ran[desk[n].of] = 0
      BY DEF ToldOnceAndTruly
    <2>1. desk[n].told = Word(desk[n].status) /\ desk[n] \in ItemSet
      <3>1. desk \in Seq(ItemSet) /\ Numbers = 1..Len(desk)
        BY <1>2, LenProperties DEF Inv, Shapes, Numbers
      <3>2. desk[n] \in ItemSet BY <3>1, ElementOfSeq
      <3> QED  BY <1>2, <3>2 DEF Inv, Told
    <2>2. Len(desk[n].told) <= 1
      BY <2>1 DEF Word, ItemSet
    <2>3. ASSUME desk[n].told = <<"unrun">>, Rows(n) = {desk[n].of}
          PROVE  ran[desk[n].of] = 0
      <3>1. PICK a : a = desk[n].of OBVIOUS
      <3>2. a \in Asks /\ row[a].item = n BY <2>3, <3>1 DEF Rows
      <3>3. desk[n].status \in {"decline", "expired"}
        BY <2>1, <2>3 DEF Word, ItemSet
      <3>4. row[a].status # "approved"
        BY <1>2, <3>1, <3>2, <3>3 DEF Inv, Follows
      <3> QED  BY <1>2, <3>1, <3>2, <3>4 DEF Inv, Once, Shapes
    <2> QED  BY <2>2, <2>3
  <1>3. Inv => OutcomesAgree
    BY <1>1, <1>2 DEF OutcomesAgree
  <1> QED  BY <1>3, Inductive, PTL
=============================================================================
