----------------------------- MODULE Approvals -----------------------------
(***************************************************************************)
(* A tool call that needs the owner's yes: the node keeps what would run   *)
(* and asks HQ (app/node/src/api/bridge.rs), HQ holds the item on the      *)
(* owner's desk (`ask_approval`, `decide`, `approval_outcome` of the       *)
(* engine), and the owner decides it through the node, which runs what it  *)
(* kept.  Every call between the two, or its answer, may be lost; either   *)
(* may die at any step; their clocks differ; HQ's store may be made anew,  *)
(* which numbers the desk from 1 again.                                    *)
(***************************************************************************)
EXTENDS Naturals, Sequences, FiniteSets

CONSTANTS
  Asks,        \* the calls that ask for an approval
  Says,        \* what each would run, in words: a function on Asks
  Taps,        \* the decisions the owner sends
  MaxCrashes,  \* how often the node or HQ dies
  MaxStores,   \* how often HQ's store is made anew
  Nobody       \* no ask

\* What the constants must be.
ConstantsFit == IsFiniteSet(Asks) /\ IsFiniteSet(Taps) /\ Nobody \notin Asks

VARIABLES
  row,      \* at the node: each ask's approval
  added,    \* at the node: the asks in the order their rows were added
  asking,   \* at the node: where the call that asks is, and HQ's number for it
  tap,      \* at the node: where each decision is, and what it read when it began
  desk,     \* at HQ: the items of the desk, by number
  ran,      \* how often each ask was run
  yes,      \* how often HQ took the owner's yes to such words
  died,     \* who died, in their order: the node, or HQ within a handler
  stores    \* how often HQ's store was made anew

vars == <<row, added, asking, tap, desk, ran, yes, died, stores>>

Numbers == DOMAIN desk
Words == {Says[a] : a \in Asks}
Idle == [at |-> "idle", item |-> 0, of |-> Nobody, seen |-> "none", says |-> "none"]

Init ==
  /\ row = [a \in Asks |-> [status |-> "none", item |-> 0, late |-> FALSE]]
  /\ added = <<>>
  /\ asking = [a \in Asks |-> [at |-> "idle", item |-> 0]]
  /\ tap = [t \in Taps |-> Idle]
  /\ desk = <<>>
  /\ ran = [a \in Asks |-> 0]
  /\ yes = [w \in Words |-> 0]
  /\ died = <<>> /\ stores = 0

\* Moves a row from `waiting`, if it still is there.
Settled(a, to) ==
  row' = IF row[a].status = "waiting"
           THEN [row EXCEPT ![a].status = to, ![a].late = FALSE] ELSE row

---------------------------------------------------------------------------
(* A member's call of the tool: the row, HQ's item, the item's number.     *)

Keep(a) ==
  /\ asking[a].at = "idle"
  /\ row' = [row EXCEPT ![a].status = "waiting"]
  /\ added' = Append(added, a)
  /\ asking' = [asking EXCEPT ![a].at = "posting"]
  /\ UNCHANGED <<tap, desk, ran, yes, died, stores>>

\* HQ puts the item on the desk, and ends the turn.
Put(a) == desk' = Append(desk, [of |-> a, status |-> "waiting", late |-> FALSE, told |-> <<>>])

Asked(a) ==
  /\ asking[a].at = "posting"
  /\ Put(a)
  /\ asking' = [asking EXCEPT ![a] = [at |-> "answered", item |-> Len(desk) + 1]]
  /\ UNCHANGED <<row, added, tap, ran, yes, died, stores>>

\* HQ refuses it, is not reached, or put it on the desk and its answer is lost: all one here.
NotAsked(a) ==
  /\ asking[a].at = "posting"
  /\ Put(a) \/ UNCHANGED desk
  /\ Settled(a, "refused")
  /\ asking' = [asking EXCEPT ![a].at = "done"]
  /\ UNCHANGED <<added, tap, ran, yes, died, stores>>

Numbered(a) ==
  /\ asking[a].at = "answered"
  /\ row' = [row EXCEPT ![a].item = asking[a].item]
  /\ asking' = [asking EXCEPT ![a] = [at |-> "done", item |-> 0]]
  /\ UNCHANGED <<added, tap, desk, ran, yes, died, stores>>

---------------------------------------------------------------------------
(* HQ's desk.                                                              *)

Item(n, status, words) ==
  desk' = [desk EXCEPT ![n].status = status, ![n].told = @ \o words,
                       ![n].late = @ /\ status = "waiting"]

\* The owner's decision of an item that waits.
Decide(n, decision) ==
  /\ desk[n].status = "waiting"
  /\ Item(n, decision, IF decision = "decline" THEN <<"unrun">> ELSE <<>>)
  /\ yes' = IF decision = "approve" THEN [yes EXCEPT ![Says[desk[n].of]] = @ + 1] ELSE yes

\* An item that waited a day, by HQ's clock, goes unrun, and its member is told.
Expirable(n) == desk[n].status = "waiting" /\ desk[n].late

Expire(n) ==
  /\ Expirable(n)
  /\ Item(n, "expired", <<"unrun">>)
  /\ UNCHANGED <<row, added, asking, tap, ran, yes, died, stores>>

\* HQ dies between the two writes of a handler: an item expired and its member not told; one
\* whose outcome was kept and its member not told; one whose member is told and that waits on.
HqDies ==
  /\ Len(died) < MaxCrashes /\ died' = Append(died, "hq")
  /\ \/ \E n \in Numbers : Expirable(n) /\ Item(n, "expired", <<>>)
     \/ \E n \in Numbers : desk[n].status = "waiting" /\ Item(n, "waiting", <<"unrun">>)
     \/ \E n \in Numbers : desk[n].status = "approve" /\ Item(n, "ran", <<>>)
                           /\ \E t \in Taps : tap[t].at = "telling" /\ tap[t].item = n
  /\ UNCHANGED <<row, added, asking, tap, ran, yes, stores>>

\* Not while a decision is under way: between its look at the desk and its post, or before what
\* came of it is told, a store made anew would have it speak of another item.
NewStore ==
  /\ stores < MaxStores /\ \A t \in Taps : tap[t].at \in {"idle", "done"}
  /\ desk' = <<>> /\ stores' = stores + 1
  /\ UNCHANGED <<row, added, asking, tap, ran, yes, died>>

---------------------------------------------------------------------------
(* A decision, at the node.                                                *)

\* The newest row of a number.
Behind(n) ==
  LET at == {i \in DOMAIN added : row[added[i]].item = n} IN
  IF at = {} THEN Nobody ELSE added[CHOOSE i \in at : \A j \in at : j <= i]

Moves(t, to) == tap' = [tap EXCEPT ![t].at = to]
Ends(t) == tap' = [tap EXCEPT ![t] = [Idle EXCEPT !.at = "done"]]

\* The owner taps: the node reads the row behind the item.
Tap(t, n, decision) ==
  /\ tap[t].at = "idle"
  /\ LET a == Behind(n) IN
     tap' = [tap EXCEPT ![t] =
       [at |-> IF a = Nobody THEN "straight" ELSE "looking", item |-> n, of |-> a,
        seen |-> IF a = Nobody THEN "none" ELSE row[a].status, says |-> decision]]
  /\ UNCHANGED <<row, added, asking, desk, ran, yes, died, stores>>

\* No row: HQ decides it, and nothing runs.
Straight(t) ==
  /\ tap[t].at = "straight" /\ Ends(t)
  /\ \/ tap[t].item \in Numbers /\ Decide(tap[t].item, tap[t].says)
     \/ UNCHANGED <<desk, yes>>
  /\ UNCHANGED <<row, added, asking, ran, died, stores>>

\* Whether the desk holds an item of that number that says what the node kept (whatever became
\* of it).  (Mutant: an item of that number.)
HeldByNumber(t) == tap[t].item \in Numbers
Held(t) == tap[t].item \in Numbers /\ Says[desk[tap[t].item].of] = Says[tap[t].of]

\* Looked at: what was read, the node's clock, HQ's desk.  A desk not reached holds nothing.
Look(t) ==
  /\ tap[t].at = "looking"
  /\ \/ /\ tap[t].seen # "waiting"
        /\ Ends(t) /\ UNCHANGED row
     \/ /\ tap[t].seen = "waiting" /\ row[tap[t].of].late
        /\ Settled(tap[t].of, "expired") /\ Ends(t)
     \/ /\ tap[t].seen = "waiting" /\ ~row[tap[t].of].late
        /\ Settled(tap[t].of, "refused") /\ Ends(t)
     \/ /\ tap[t].seen = "waiting" /\ ~row[tap[t].of].late /\ Held(t)
        /\ Moves(t, "posting") /\ UNCHANGED row
  /\ UNCHANGED <<added, asking, desk, ran, yes, died, stores>>

\* HQ first.  It refuses what does not wait; it may not be reached, or its answer be lost.
\* (Mutant: the node goes on whatever came of it.)
PostUnheard(t) ==
  /\ tap[t].at = "posting"
  /\ Moves(t, "decided")
  /\ Decide(tap[t].item, tap[t].says) \/ UNCHANGED <<desk, yes>>
  /\ UNCHANGED <<row, added, asking, ran, died, stores>>

Post(t) ==
  /\ tap[t].at = "posting"
  /\ \/ Decide(tap[t].item, tap[t].says) /\ (Moves(t, "decided") \/ Ends(t))
     \/ Ends(t) /\ UNCHANGED <<desk, yes>>
  /\ UNCHANGED <<row, added, asking, ran, died, stores>>

\* The row follows HQ; a yes goes on only if it moved the row.
Follow(t) ==
  /\ tap[t].at = "decided"
  /\ Settled(tap[t].of, IF tap[t].says = "approve" THEN "approved" ELSE "declined")
  /\ IF tap[t].says = "approve" /\ row[tap[t].of].status = "waiting"
     THEN Moves(t, "running") ELSE Ends(t)
  /\ UNCHANGED <<added, asking, desk, ran, yes, died, stores>>

\* It runs, unless it is switched off by now.
Run(t) ==
  /\ tap[t].at = "running" /\ Moves(t, "telling")
  /\ ran' = [ran EXCEPT ![tap[t].of] = @ + 1] \/ UNCHANGED ran
  /\ UNCHANGED <<row, added, asking, desk, yes, died, stores>>

\* HQ is told what came of it, once; a call that fails is only logged.
Outcome(n) == desk[n].status = "approve" /\ Item(n, "ran", <<"outcome">>)

Tell(t) ==
  /\ tap[t].at = "telling" /\ Ends(t)
  /\ Outcome(tap[t].item) \/ UNCHANGED desk
  /\ UNCHANGED <<row, added, asking, ran, yes, died, stores>>

---------------------------------------------------------------------------
\* The node dies: its rows stay, what was under way is gone.
NodeDies ==
  /\ Len(died) < MaxCrashes /\ died' = Append(died, "node")
  /\ \/ \E t \in Taps : tap[t].at \notin {"idle", "done"}
     \/ \E a \in Asks : asking[a].at \notin {"idle", "done"}
  /\ tap' = [t \in Taps |-> IF tap[t].at = "idle" THEN tap[t] ELSE [Idle EXCEPT !.at = "done"]]
  /\ asking' = [a \in Asks |-> IF asking[a].at \in {"idle", "done"} THEN asking[a]
                                ELSE [at |-> "done", item |-> 0]]
  /\ UNCHANGED <<row, added, desk, ran, yes, stores>>

\* A day goes by, on the clock of one of them, while what they keep waits.
Ages ==
  /\ \/ \E a \in Asks : /\ row[a].status = "waiting" /\ ~row[a].late
                        /\ row' = [row EXCEPT ![a].late = TRUE] /\ UNCHANGED desk
     \/ \E n \in Numbers : /\ desk[n].status = "waiting" /\ ~desk[n].late
                           /\ desk' = [desk EXCEPT ![n].late = TRUE] /\ UNCHANGED row
  /\ UNCHANGED <<added, asking, tap, ran, yes, died, stores>>

Next ==
  \/ \E a \in Asks : Keep(a) \/ Asked(a) \/ NotAsked(a) \/ Numbered(a)
  \/ \E n \in Numbers : Expire(n)
  \/ \E t \in Taps : \/ \E n \in Numbers, d \in {"approve", "decline"} : Tap(t, n, d)
                     \/ Straight(t) \/ Look(t) \/ Post(t) \/ Follow(t) \/ Run(t) \/ Tell(t)
  \/ HqDies \/ NewStore \/ NodeDies \/ Ages

Spec == Init /\ [][Next]_vars

TypeOK ==
  /\ \A a \in Asks :
       /\ row[a].status \in {"none", "waiting", "refused", "expired", "declined", "approved"}
       /\ row[a].item \in Nat /\ row[a].late \in BOOLEAN
       /\ asking[a].at \in {"idle", "posting", "answered", "done"} /\ asking[a].item \in Nat
       /\ ran[a] \in Nat
  /\ \A t \in Taps : tap[t].at \in {"idle", "straight", "looking", "posting", "decided",
                                    "running", "telling", "done"}
  /\ \A n \in Numbers :
       /\ desk[n].of \in Asks
       /\ desk[n].status \in {"waiting", "approve", "decline", "expired", "ran"}
       /\ \A i \in DOMAIN desk[n].told : desk[n].told[i] \in {"unrun", "outcome"}
  /\ \A w \in Words : yes[w] \in Nat

---------------------------------------------------------------------------
\* The runs of such words: each ask's first, second and so on.
RunsOf(w) == UNION {{a} \X (1..ran[a]) : a \in {b \in Asks : Says[b] = w}}

\* Whatever is tapped twice, lost, repeated or cut short, and though HQ's numbers begin again:
\* what the node kept runs at most once, and such words run no more often than the owner said
\* yes to them and HQ took it (`decide`: "runs exactly what was stored, once"; `on_the_desk`:
\* "a stored approval must never run on another item's yes"); and what the node's own records
\* say was refused, declined or expired has not run.
RunsOnTheOwnersYes ==
  /\ \A a \in Asks : ran[a] <= 1 /\ (ran[a] > 0 => row[a].status = "approved")
  /\ \A w \in Words : Cardinality(RunsOf(w)) <= yes[w]

\* The asks of such words that ever had the number: HQ may have used it before.
Rows(n) == {a \in Asks : row[a].item = n /\ Says[a] = Says[desk[n].of]}

\* The node's row of an item never says yes where HQ's desk says no: an approved row's item is
\* approved or ran, a declined one's was declined, and one that ran was told of an approved row.
RowFollowsTheDesk ==
  \A n \in Numbers : LET a == desk[n].of IN
    Rows(n) = {a} =>
      /\ row[a].status = "approved" => desk[n].status \in {"approve", "ran"}
      /\ row[a].status = "declined" => desk[n].status = "decline"
      /\ desk[n].status = "ran" => row[a].status = "approved"

\* The member is told once what came of it, and one told it was not run (declined, or expired
\* by HQ's clock) never has it run afterwards; unless HQ died while it told them, with the
\* item left as it was.
ToldOnceAndTruly ==
  (\A i \in DOMAIN died : died[i] = "node") =>
    \A n \in Numbers :
      /\ Len(desk[n].told) <= 1
      /\ (desk[n].told = <<"unrun">> /\ Rows(n) = {desk[n].of}) => ran[desk[n].of] = 0

\* The node's record, HQ's desk and what the member was told never contradict each other.
OutcomesAgree == RowFollowsTheDesk /\ ToldOnceAndTruly
=============================================================================
