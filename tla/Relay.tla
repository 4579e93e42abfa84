------------------------------- MODULE Relay -------------------------------
(***************************************************************************)
(* The node's relay of one turn's model calls (app/node/src/api/relay.rs): *)
(* HQ is asked what the turn has left, the call is capped to it, noted in  *)
(* the node's census, passed on to the provider, and charged to HQ once    *)
(* its reply says what it used.  Replies are cut and unreadable, HQ is     *)
(* silent or its answers lost, callers hang up, the node dies.  Calls to   *)
(* Anthropic go one at a time, each reckoned with what the provider's      *)
(* prompt cache is trusted to hold.  Amounts are small numbers and time is *)
(* in ticks; the provider is external.                                     *)
(***************************************************************************)
EXTENDS Naturals

CONSTANTS
  Calls,          \* the turn's calls
  Brains,         \* where the turn may think: "claude", "deepseek", "house"
  Reserve,        \* what HQ reserved for the turn
  Most,           \* the most a turn may spend, whatever HQ says
  Prompts,        \* the sizes of prompts
  Asks,           \* the outputs a call asks for at most
  Trusted,        \* how long the relay trusts what it cached
  CacheLives,     \* how long the provider keeps it
  LongestReply,   \* how long a call may take from its leaving to its cache being remembered
  MaxCrashes,     \* how often the node dies
  None            \* no call, nothing known

\* What a call used, as its reply says.
Usage == [input : Nat, cache_write : Nat, cache_read : Nat, output : Nat]

\* What the relay trusts its cache for and a call's longest time are within what the provider
\* keeps it for.  (`CACHE_TRUSTED`: "inside the cache's five minutes, with a minute to spare".)
ASSUME RelayAssumption ==
  /\ None \notin Calls /\ None \notin Usage
  /\ Reserve \in Nat /\ Most \in Nat /\ Prompts \subseteq Nat /\ Asks \subseteq Nat
  /\ Trusted \in Nat /\ CacheLives \in Nat /\ LongestReply \in Nat /\ MaxCrashes \in Nat
  /\ Trusted + LongestReply <= CacheLives

VARIABLES
  brain,      \* where the turn thinks
  call,       \* the calls
  holder,     \* the call the turn is held by
  cached,     \* the call the relay remembers the cache of, and how long ago it was noted
  kept,       \* at the provider: how long ago each call's prompt was last cached or read
  charged,    \* at HQ: what the turn has been charged
  running,    \* at HQ: whether the turn runs
  crashes

vars == <<brain, call, holder, cached, kept, charged, running, crashes>>

\* What a token costs: fresh, written to the cache, read from it, put out.
Price == [input |-> 2, cache_write |-> 3, cache_read |-> 1, output |-> 1]
Used(i, w, r, o) == [input |-> i, cache_write |-> w, cache_read |-> r, output |-> o]
Cost(u) == u.input * Price.input + u.cache_write * Price.cache_write
           + u.cache_read * Price.cache_read + u.output * Price.output
Affordable(left) == left \div Price.output
Less(a, b) == IF a > b THEN a - b ELSE 0
Least(a, b) == IF a < b THEN a ELSE b

Fresh == [at |-> "none", left |-> 0, prompt |-> 0, cap |-> 0, row |-> "none", told |-> "unasked",
          end |-> "none", used |-> None, billed |-> 0, paid |-> 0, minutes |-> 0]

Init ==
  /\ brain \in Brains
  /\ call = [c \in Calls |-> Fresh]
  /\ holder = None /\ cached = [of |-> None, age |-> 0]
  /\ kept = [c \in Calls |-> CacheLives]
  /\ charged = 0 /\ running = TRUE /\ crashes = 0

Left == Less(Reserve, charged)
Metered == brain # "house"
At(c, where) == call[c].at \in where

\* The call is over for its caller; what held the turn for it lets go.
\* (Mutant: a caller that hangs up leaves the turn held.)
FreedLate(c) == UNCHANGED holder
Freed(c) == holder' = IF holder = c THEN None ELSE holder
Done(r) == [r EXCEPT !.at = "done", !.left = 0, !.cap = 0, !.minutes = 0, !.end = "none", !.used = None]
Over(c) == call' = [call EXCEPT ![c] = Done(@)]

---------------------------------------------------------------------------
(* Before the call leaves.                                                 *)

Arrive(c) ==
  /\ At(c, {"none"})
  /\ call' = [call EXCEPT ![c].at = IF brain = "claude" THEN "waiting" ELSE "held"]
  /\ UNCHANGED <<brain, holder, cached, kept, charged, running, crashes>>

\* A Claude turn's calls go one at a time.
Hold(c) ==
  /\ At(c, {"waiting"}) /\ holder = None
  /\ holder' = c /\ call' = [call EXCEPT ![c].at = "held"]
  /\ UNCHANGED <<brain, cached, kept, charged, running, crashes>>

AskHq(c) ==
  /\ At(c, {"held"}) /\ running
  /\ Metered => Affordable(Least(Left, Most)) > 0
  /\ call' = [call EXCEPT ![c].at = "asked", ![c].left = Least(Left, Most)]
  /\ UNCHANGED <<brain, holder, cached, kept, charged, running, crashes>>

\* Refused before it left: HQ knows no such turn or says nothing, the turn's money is spent, the
\* prompt was not counted or costs all that is left.  Or the caller hung up, which ends a call
\* whose prompt is not yet on its way.
Refuse(c) ==
  /\ At(c, {"waiting", "held", "asked"})
  /\ Over(c) /\ Freed(c)
  /\ UNCHANGED <<brain, cached, kept, charged, running, crashes>>

\* How many of the prompt's tokens the relay takes to be in the provider's cache: the call that
\* is remembered, when this one goes on from it in time.  (Mutant: however long ago.)
CachedForEver(p) == IF cached.of = None THEN 0 ELSE Least(call[cached.of].prompt, p)
CachedFor(p) ==
  IF cached.of = None \/ cached.age >= Trusted THEN 0 ELSE Least(call[cached.of].prompt, p)

PromptCost(p, read, caching) ==
  IF caching THEN Cost(Used(0, p - read, read, 0)) ELSE Cost(Used(p - read, 0, read, 0))

\* What a prompt that goes on from the call `of` uses at the provider.
PromptUsed(p, of, caching) ==
  LET read == IF of # None /\ kept[of] < CacheLives THEN Least(call[of].prompt, p) ELSE 0
  IN IF caching THEN Used(0, p - read, read, 0) ELSE Used(p, 0, 0, 0)

\* What the reply may spend: to Anthropic, what the prompt leaves of what is left.
Cap(c, p, read, caching, ask) ==
  LET input == IF brain = "claude" THEN PromptCost(p, read, caching) ELSE 0
  IN CASE brain = "house" -> ask
       [] OTHER -> Least(ask, Affordable(Less(call[c].left, input)))

\* Noted in the census before it leaves.
Noted == "unfinished"

\* Passed on, and taken by the provider or not: refused, or never reached.
PassOn(c, p, of, caching, ask, fate) ==
  LET read == IF caching /\ of # None THEN CachedFor(p) ELSE 0
      cap  == Cap(c, p, read, caching, ask)
  IN /\ At(c, {"asked"}) /\ cap > 0
     /\ call' = [call EXCEPT ![c].at = "out", ![c].prompt = p, ![c].cap = cap, ![c].row = Noted,
                             ![c].end = fate, ![c].used = PromptUsed(p, of, caching)]
     /\ kept' = [k \in Calls |-> IF caching /\ fate = "taken" /\ k \in {c, of} THEN 0 ELSE kept[k]]
     /\ UNCHANGED <<brain, holder, cached, charged, running, crashes>>

---------------------------------------------------------------------------
(* The reply, and what is settled by it.                                   *)

\* How a reply that put out `o` tokens ends, and what it is taken to have used: all it says when
\* it is whole; all it may have put out when a stream is cut before its last usage, and that alone
\* when it is cut before its first; nothing is known of one that can not be read.
\* (Mutant: what was read from the cache is taken off the fresh input, which does not hold it.)
TakenLessCached(u, cap, o, how) ==
  CASE how = "whole"  -> [u EXCEPT !.output = o, !.input = @ - u.cache_read]
    [] how = "cut"    -> [u EXCEPT !.output = cap]
    [] how = "begun"  -> Used(0, 0, 0, cap)
    [] how = "unread" -> None
Taken(u, cap, o, how) ==
  CASE how = "whole"  -> [u EXCEPT !.output = o]
    [] how = "cut"    -> [u EXCEPT !.output = cap]
    [] how = "begun"  -> Used(0, 0, 0, cap)
    [] how = "unread" -> None

Answered(c, how, o) ==
  /\ At(c, {"out"}) /\ call[c].end = "taken"
  /\ how \in {"cut", "begun"} => brain = "claude"
  /\ LET u == call[c].used
     IN call' = [call EXCEPT ![c].at = "answered", ![c].end = how,
                             ![c].used = Taken(u, call[c].cap, o, how),
                             ![c].billed = IF Metered THEN Cost([u EXCEPT !.output = o]) ELSE 0]
  /\ UNCHANGED <<brain, holder, cached, kept, charged, running, crashes>>

Failed(c) ==
  /\ At(c, {"out"}) /\ call[c].end = "refused"
  /\ call' = [call EXCEPT ![c].at = "answered", ![c].used = None]
  /\ UNCHANGED <<brain, holder, cached, kept, charged, running, crashes>>

\* How the census says a call ended.  (Mutant: a stream that was cut counts as answered.)
OutcomeOfCut(end) ==
  CASE end \in {"whole", "cut", "begun"} -> "answered"
    [] end = "unread" -> "interrupted"
    [] end = "refused" -> "failed"
Outcome(end) ==
  CASE end = "whole" -> "answered"
    [] end \in {"cut", "begun", "unread"} -> "interrupted"
    [] end = "refused" -> "failed"

\* The census hears how it ended.  A call of which nothing is known costs nothing.
SettleNoted(c) ==
  /\ At(c, {"answered"})
  /\ LET known == call[c].used # None
         row   == IF call[c].row = "none" THEN "none" ELSE Outcome(call[c].end)
     IN /\ call' = [call EXCEPT ![c] = IF known THEN [@ EXCEPT !.at = "noted", !.row = row]
                                                ELSE Done([@ EXCEPT !.row = row])]
        /\ IF known THEN UNCHANGED holder ELSE Freed(c)
  /\ UNCHANGED <<brain, cached, kept, charged, running, crashes>>

\* HQ is told, once: it hears, or hears and its answer is lost, or does not hear.  A turn that has
\* gone past its reservation is stopped.
Charge(c, heard) ==
  LET cost == IF Metered THEN Cost(call[c].used) ELSE 0
  IN /\ At(c, {"noted"})
     /\ charged' = IF heard = "no" THEN charged ELSE charged + cost
     /\ running' = (running /\ charged' <= Reserve)
     /\ call' = [call EXCEPT ![c].at = "charged", ![c].told = heard,
                             ![c].paid = IF heard = "no" THEN 0 ELSE cost]
     /\ UNCHANGED <<brain, holder, cached, kept, crashes>>

\* The census hears whether HQ did, the call's cache is remembered, and the turn let go.
Said(heard) == IF heard = "yes" THEN "yes" ELSE "no"

Remember(c) ==
  /\ At(c, {"charged"})
  /\ call' = [call EXCEPT ![c] = Done([call[c] EXCEPT !.told = Said(call[c].told)])]
  /\ LET u == call[c].used
     IN cached' = CASE brain # "claude" -> cached
                    [] u.cache_read + u.cache_write = 0 -> [of |-> None, age |-> 0]
                    [] OTHER -> [of |-> c, age |-> 0]
  /\ Freed(c)
  /\ UNCHANGED <<brain, kept, charged, running, crashes>>

---------------------------------------------------------------------------
(* The world around it.                                                    *)

\* The turn is ended at HQ, whatever calls it has under way.
TurnEnds ==
  /\ running /\ running' = FALSE
  /\ UNCHANGED <<brain, call, holder, cached, kept, charged, crashes>>

\* A tick of the clock, which matters only while a cache is kept.
UnderWay(c) == At(c, {"out", "answered", "noted", "charged"})
Tick ==
  /\ \E c \in Calls : kept[c] < CacheLives
  /\ \A c \in Calls : UnderWay(c) => call[c].minutes < LongestReply
  /\ call' = [c \in Calls |-> IF UnderWay(c) THEN [call[c] EXCEPT !.minutes = @ + 1] ELSE call[c]]
  /\ kept' = [c \in Calls |-> Least(kept[c] + 1, CacheLives)]
  /\ cached' = [cached EXCEPT !.age = IF cached.of = None THEN 0 ELSE Least(@ + 1, Trusted)]
  /\ UNCHANGED <<brain, holder, charged, running, crashes>>

\* The node dies and comes up.  Its census is kept; its calls, what held the turn and what was
\* remembered of caches are not.  (The provider may have taken what was under way.)
Lost(c) ==
  Done([call[c] EXCEPT !.told = "unasked",
                       !.billed = IF At(c, {"out"}) /\ call[c].end = "taken" /\ Metered
                                  THEN Cost(call[c].used) ELSE call[c].billed])

Crash ==
  /\ crashes < MaxCrashes /\ crashes' = crashes + 1
  /\ call' = [c \in Calls |-> IF At(c, {"none", "done"}) THEN call[c] ELSE Lost(c)]
  /\ holder' = None /\ cached' = [of |-> None, age |-> 0]
  /\ UNCHANGED <<brain, kept, charged, running>>

---------------------------------------------------------------------------
PassesOn(c) ==
  \E p \in Prompts, ask \in Asks, fate \in {"taken", "refused"} :
    \E caching \in IF brain = "claude" THEN BOOLEAN ELSE {FALSE} :
      \E of \in IF caching THEN {None, cached.of} ELSE {None} :
        /\ of # None => p >= call[of].prompt
        /\ PassOn(c, p, of, caching, ask, fate)

Settles(c) == SettleNoted(c) \/ Remember(c) \/ \E heard \in {"yes", "unheard", "no"} : Charge(c, heard)
Answers(c) ==
  \/ \E how \in {"whole", "cut", "begun", "unread"}, o \in {1, call[c].cap} :
       Answered(c, how, o)
  \/ Failed(c)

Next ==
  \/ \E c \in Calls : \/ Arrive(c) \/ Hold(c) \/ AskHq(c) \/ Refuse(c)
                      \/ PassesOn(c) \/ Answers(c) \/ Settles(c)
  \/ TurnEnds \/ Tick \/ Crash

Spec == Init /\ [][Next]_vars

\* The handler of a call goes on: HQ and the provider are asked with a limit of time, so each
\* answers or is given up; who waits for the turn is served when it is free.
Fairness ==
  \A c \in Calls :
    /\ WF_vars(Hold(c))
    /\ WF_vars((At(c, {"held", "asked"}) /\ Refuse(c)) \/ AskHq(c) \/ PassesOn(c))
    /\ WF_vars(Answers(c)) /\ WF_vars(Settles(c))
FairSpec == Spec /\ Fairness

Rows == {"none", "unfinished", "answered", "interrupted", "failed"}
Ends == {"none", "taken", "refused", "whole", "cut", "begun", "unread"}
CallRow ==
  [at : {"none", "waiting", "held", "asked", "out", "answered", "noted", "charged", "done"},
   left : Nat, prompt : Nat, cap : Nat, row : Rows, told : {"unasked", "yes", "unheard", "no"},
   end : Ends, used : Usage \cup {None}, billed : Nat, paid : Nat, minutes : 0..LongestReply]

TypeOK ==
  /\ brain \in Brains /\ running \in BOOLEAN /\ charged \in Nat /\ crashes \in Nat
  /\ call \in [Calls -> CallRow]
  /\ holder \in Calls \cup {None}
  /\ cached \in [of : Calls \cup {None}, age : 0..Trusted]
  /\ kept \in [Calls -> 0..CacheLives]

---------------------------------------------------------------------------
\* What a Claude call was told is left is what is left until it has been charged itself: whatever
\* hangs up, is cut, crashes or fails to charge, no other call of the turn is charged in between
\* (`TurnCalls`: "one at a time, each is capped by what the one before left").
LeftIsCurrent ==
  brain = "claude" =>
    \A c \in Calls :
      At(c, {"asked", "out", "answered", "noted"}) => call[c].left = Least(Left, Most)

\* A Claude turn is never charged past its reservation, though prompts are reckoned with a cache
\* that may be gone and a cut reply is charged at all it might have put out.
WithinTheReserve == brain = "claude" => charged <= Reserve

\* HQ is never told less than a call cost, though its stream was cut before it said what it put
\* out, unless it was cut before it said anything (relay.rs, `messages`; its test
\* `a_stream_cut_before_its_output_is_counted_is_charged_its_whole_cap`).
PaidInFull ==
  \A c \in Calls :
    At(c, {"charged"}) /\ call[c].told # "no" /\ call[c].end # "begun" =>
      call[c].paid >= call[c].billed

\* No cost is hidden: a call that cost more than HQ was charged for it has a row in the census that
\* is not an answered call HQ was told of (`RelayCensus`: "a lost usage report cannot hide that a
\* call was made").
CensusHidesNothing ==
  \A c \in Calls :
    At(c, {"done"}) /\ call[c].billed > call[c].paid =>
      /\ call[c].row # "none"
      /\ call[c].row = "answered" => call[c].told # "yes"

\* What calls cost is charged, or is to be seen.
SpendingIsKnown == PaidInFull /\ CensusHidesNothing

\* Every call that comes is over in the end, so none waits for ever for one before it that was cut,
\* hung up, failed or could not be charged.  (A call comes once.)
EveryCallIsOver == <>[](\A c \in Calls : At(c, {"none", "done"}))
=============================================================================
