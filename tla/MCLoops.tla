------------------------------ MODULE MCLoops ------------------------------
(***************************************************************************)
(* Small instances, for TLC, of parts that share no state with each other: *)
(* an exploration is of one part, chosen at its beginning, while the       *)
(* others stand at theirs.  The parts are an item of a loop among two      *)
(* members, where two failures at a rank hand it on and where once         *)
(* somebody does what is not needed, leaves, or HQ dies (the .cfg's        *)
(* constants); one among three who do what is needed, one thinking with    *)
(* the Mac, where one failure hands it on; and the ticker.                 *)
(***************************************************************************)
EXTENDS Loops

CONSTANTS bo, rae, ada, nobody, Askers

VARIABLES
  part,                                   \* the part explored
  other, apart, extra,                    \* the item among three
  asked, wake, ticker, asking, unserved   \* Ticker's

two   == vars
three == <<other, apart, extra>>
asks  == <<asked, wake, ticker, asking, unserved>>

Three == {bo, rae, ada}
Ranks == [m \in Three |-> CASE m = bo -> 6 [] m = rae -> 5 [] m = ada -> 3]
P == INSTANCE Loops WITH
       it <- other, away <- apart, spare <- extra,
       Members <- Three, Rank <- Ranks, Macs <- {rae}, StartRank <- 6,
       FailuresARank <- 1, MaxSpare <- 0, Nobody <- nobody
T == INSTANCE Ticker

\* The item of a part that is not explored is dropped, and stands still.
Beginning ==
  /\ part \in {"three", "two", "asks"} /\ T!Init
  /\ it = IF part = "two" THEN NewItem ELSE [NewItem EXCEPT !.status = "dropped"]
  /\ other = IF part = "three" THEN P!NewItem ELSE [P!NewItem EXCEPT !.status = "dropped"]
  /\ away = [m \in Members |-> "here"] /\ spare = 0
  /\ apart = [m \in Three |-> "here"] /\ extra = 0
Going ==
  \/ part = "two"   /\ Next   /\ UNCHANGED <<part, three, asks>>
  \/ part = "three" /\ P!Next /\ UNCHANGED <<part, two, asks>>
  \/ part = "asks"  /\ T!Next /\ UNCHANGED <<part, three, two>>
Explored ==
  /\ Beginning /\ [][Going]_<<part, three, two, asks>>
  /\ Fairness /\ P!Fairness /\ T!Fairness

---------------------------------------------------------------------------
(* What is asked besides of the item among two, as the modules state it.   *)

Typed ==
  /\ TypeOK /\ P!TypeOK /\ T!TypeOK
  /\ ConstantsFit /\ P!ConstantsFit
  /\ P!GateIsOfTheHead
AskIsServedOnce == T!AskIsServedOnce

\* Neither item is left lying; and what is asked of each step among two is asked among three.
NoneIsLeftLying ==
  /\ NothingIsLeftLying
  /\ P!NothingIsLeftLying /\ P!NoPassOfOnesOwn /\ P!OnlyWordsWakeBlocked
=============================================================================
