----------------------------- MODULE RelayProofs -----------------------------
(***************************************************************************)
(* That a Claude turn is never charged past what HQ reserved for it, for   *)
(* any calls, amounts, cuts and crashes, as long as a call and the settling *)
(* of it take no longer than the provider's cache outlives the relay's     *)
(* trust in it.  The argument: a call holds its turn, so what it was told  *)
(* is left stays true until it is charged; what the relay takes to be      *)
(* cached is cached; so the prompt costs no more than was reckoned, and    *)
(* the reply no more than the prompt left.                                 *)
(*                                                                         *)
(* And that what any turn's calls cost is charged, or is to be seen in the *)
(* census: a second invariant, of each call's row, says at each step of a  *)
(* call what its row stands for.                                           *)
(***************************************************************************)
EXTENDS Relay, FiniteSetTheorems, TLAPS

\* What a call passed on used is known until its reply is read, and of one that is charged,
\* and how a call ended that is to be noted.
Known == \A c \in Calls :
  /\ At(c, {"out", "noted", "charged"}) => call[c].used \in Usage
  /\ At(c, {"out"}) => call[c].cap > 0
  /\ At(c, {"answered"}) => call[c].end \in {"whole", "cut", "begun", "unread", "refused"}

\* What a call of a Claude turn rests on.
Sound(c) ==
  /\ At(c, {"held", "asked", "out", "answered", "noted", "charged"}) => holder = c
  /\ At(c, {"asked", "out", "answered", "noted"}) => call[c].left = Least(Left, Most)
  /\ At(c, {"out"}) => /\ call[c].end \in {"taken", "refused"}
                       /\ call[c].used.output = 0
                       /\ Cost(call[c].used) + call[c].cap <= call[c].left
  /\ At(c, {"answered", "noted"}) /\ call[c].used \in Usage => Cost(call[c].used) <= call[c].left
  /\ At(c, {"answered", "noted", "charged"}) /\ call[c].used \in Usage => call[c].end # "refused"
  /\ /\ UnderWay(c) /\ call[c].end # "refused" /\ call[c].used \in Usage
     /\ call[c].used.cache_read + call[c].used.cache_write # 0
     => kept[c] <= call[c].minutes

\* What the relay trusts to be cached is.
Cached ==
  cached.of # None /\ cached.age < Trusted => kept[cached.of] <= cached.age + LongestReply

Claude == (\A c \in Calls : Sound(c)) /\ Cached /\ charged <= Reserve
Inv == TypeOK /\ Known /\ (brain = "claude" => Claude)

---------------------------------------------------------------------------
(* Amounts.                                                                *)

LEMMA Amounts ==
  ASSUME NEW a \in Nat, NEW b \in Nat
  PROVE  /\ Less(a, b) \in Nat /\ Least(a, b) \in Nat /\ Least(a, b) <= a /\ Least(a, b) <= b
         /\ Affordable(a) \in Nat /\ Affordable(a) <= a
<1>1. Price.output = 1 BY DEF Price
<1>2. Affordable(a) = a \div 1 BY <1>1 DEF Affordable
<1> QED BY <1>2 DEF Less, Least

LEMMA Costs ==
  ASSUME NEW u \in Usage
  PROVE  /\ Cost(u) \in Nat
         /\ Cost(u) = 2 * u.input + 3 * u.cache_write + u.cache_read + u.output
  BY DEF Cost, Price, Usage

LEMMA LeftIsNat == ASSUME TypeOK PROVE Left \in Nat /\ Least(Left, Most) \in Nat
  BY RelayAssumption DEF TypeOK, Left, Less, Least

\* A stream cut, or a reply read, is taken at no more than its cap beyond its prompt.
LEMMA Taking ==
  ASSUME NEW u \in Usage, u.output = 0, NEW cap \in Nat, NEW o \in 0..cap,
         NEW how \in {"whole", "cut", "begun", "unread"}
  PROVE  /\ Taken(u, cap, o, how) \in Usage \cup {None}
         /\ how # "unread" => Cost(Taken(u, cap, o, how)) <= Cost(u) + cap
         /\ how = "unread" => Taken(u, cap, o, how) = None
         /\ how \in {"whole", "cut"} =>
              /\ Taken(u, cap, o, how).cache_read = u.cache_read
              /\ Taken(u, cap, o, how).cache_write = u.cache_write
         /\ how = "begun" => /\ Taken(u, cap, o, how).cache_read = 0
                             /\ Taken(u, cap, o, how).cache_write = 0
<1>1. CASE how = "whole" BY <1>1 DEF Taken, Usage, Cost, Price
<1>2. CASE how = "cut"   BY <1>2 DEF Taken, Usage, Cost, Price
<1>3. CASE how = "begun"
  <2>1. Taken(u, cap, o, how) = Used(0, 0, 0, cap) BY <1>3 DEF Taken
  <2>2. Used(0, 0, 0, cap) \in Usage /\ Cost(Used(0, 0, 0, cap)) = cap
    BY DEF Usage, Cost, Price, Used
  <2>3. Cost(u) \in Nat BY Costs
  <2> QED BY <1>3, <2>1, <2>2, <2>3 DEF Used
<1>4. CASE how = "unread" BY <1>4 DEF Taken
<1> QED BY <1>1, <1>2, <1>3, <1>4

\* What a prompt uses, when what it goes on from is still cached as the relay reckons.
LEMMA Prompting ==
  ASSUME TypeOK, NEW p \in Nat, NEW of \in Calls \cup {None}, NEW caching \in BOOLEAN
  PROVE  /\ PromptUsed(p, of, caching) \in Usage
         /\ PromptUsed(p, of, caching).output = 0
         /\ ~caching => /\ PromptUsed(p, of, caching).cache_read = 0
                        /\ PromptUsed(p, of, caching).cache_write = 0
<1> DEFINE read == IF of # None /\ kept[of] < CacheLives THEN Least(call[of].prompt, p) ELSE 0
<1>1. read \in 0..p
  BY RelayAssumption DEF TypeOK, CallRow, Least
<1>2. PromptUsed(p, of, caching) = IF caching THEN Used(0, p - read, read, 0) ELSE Used(p, 0, 0, 0)
  BY DEF PromptUsed
<1> HIDE DEF read
<1> QED BY <1>1, <1>2 DEF Used, Usage

\* The prompt costs no more than the relay reckons.
LEMMA Reckoning ==
  ASSUME TypeOK, Cached, NEW p \in Nat, NEW caching \in BOOLEAN,
         NEW of \in {None, cached.of},
         NEW read, read = IF caching /\ of # None THEN CachedFor(p) ELSE 0
  PROVE  /\ PromptCost(p, read, caching) \in Nat
         /\ Cost(PromptUsed(p, of, caching)) <= PromptCost(p, read, caching)
<1>1. CASE ~caching
  <2>1. read = 0 BY <1>1
  <2>2. PromptUsed(p, of, caching) = Used(p, 0, 0, 0) BY <1>1 DEF PromptUsed
  <2>3. PromptCost(p, read, caching) = Cost(Used(p, 0, 0, 0)) BY <1>1, <2>1 DEF PromptCost
  <2> QED BY <2>2, <2>3, Costs DEF Used, Usage
<1>2. CASE caching
  <2> DEFINE there == IF of # None /\ kept[of] < CacheLives THEN Least(call[of].prompt, p) ELSE 0
  <2>1. there \in 0..p BY RelayAssumption DEF TypeOK, CallRow, Least
  <2>2. read \in 0..there
    <3>1. CASE of # None /\ cached.of # None /\ cached.age < Trusted
      <4>1. of = cached.of /\ kept[of] < CacheLives
        <5>1. of = cached.of /\ cached.of \in Calls BY <3>1 DEF TypeOK
        <5>2. cached.age \in Nat /\ kept[cached.of] \in Nat
          BY <5>1, RelayAssumption DEF TypeOK
        <5>3. kept[cached.of] <= cached.age + LongestReply BY <3>1 DEF Cached
        <5> QED BY <3>1, <5>1, <5>2, <5>3, RelayAssumption
      <4>2. cached.age \in Nat BY RelayAssumption DEF TypeOK
      <4>3. ~(cached.age >= Trusted) BY <3>1, <4>2, RelayAssumption
      <4>4. read = Least(call[of].prompt, p) BY <1>2, <3>1, <4>1, <4>3 DEF CachedFor
      <4> QED BY <3>1, <4>1, <4>4, <2>1
    <3>2. CASE ~(of # None /\ cached.of # None /\ cached.age < Trusted)
      <4>1. cached.age \in Nat BY RelayAssumption DEF TypeOK
      <4>2. of # None => of = cached.of BY DEF TypeOK
      <4>3. of = None \/ cached.age >= Trusted BY <3>2, <4>1, <4>2, RelayAssumption
      <4>4. read = 0 BY <1>2, <4>3 DEF CachedFor
      <4> QED BY <4>4, <2>1
    <3> QED BY <3>1, <3>2
  <2>3. PromptUsed(p, of, caching) = Used(0, p - there, there, 0) BY <1>2 DEF PromptUsed
  <2>4. PromptCost(p, read, caching) = Cost(Used(0, p - read, read, 0)) BY <1>2 DEF PromptCost
  <2> HIDE DEF there
  <2>5. /\ Used(0, p - there, there, 0) \in Usage /\ Used(0, p - read, read, 0) \in Usage
        /\ Cost(Used(0, p - there, there, 0)) = 3 * (p - there) + there
        /\ Cost(Used(0, p - read, read, 0)) = 3 * (p - read) + read
    BY <2>1, <2>2 DEF Used, Usage, Cost, Price
  <2> QED BY <2>1, <2>2, <2>3, <2>4, <2>5
<1> QED BY <1>1, <1>2

---------------------------------------------------------------------------
(* What each step keeps.                                                   *)

LEMMA InvInit == Init => Inv
<1> SUFFICES ASSUME Init PROVE Inv OBVIOUS
<1>1. Fresh \in CallRow BY RelayAssumption DEF Fresh, CallRow, Rows, Ends, Usage
<1>2. TypeOK BY <1>1, RelayAssumption DEF Init, TypeOK
<1>3. \A c \in Calls : call[c].at = "none" BY DEF Init, Fresh
<1>4. Known BY <1>3 DEF Known, At
<1>5. Claude BY <1>3, RelayAssumption DEF Init, Claude, Sound, Cached, UnderWay, At
<1> QED BY <1>2, <1>4, <1>5 DEF Inv

\* A step of one call that leaves HQ's books and the provider's cache alone, and brings the call
\* to a state that rests on the same.
LEMMA Quiet ==
  ASSUME Inv, NEW c \in Calls, NEW r \in CallRow, call' = [call EXCEPT ![c] = r],
         holder' \in Calls \cup {None},
         \A d \in Calls \ {c} : brain = "claude" /\ holder = d => holder' = d,
         UNCHANGED <<brain, cached, kept, charged, crashes>>, running' \in BOOLEAN,
         r.at \in {"out", "noted", "charged"} => r.used \in Usage,
         r.at # "out",
         r.at = "answered" => r.end \in {"whole", "cut", "begun", "unread", "refused"},
         brain = "claude" => Sound(c)'
  PROVE  Inv'
<1>1. TypeOK' BY DEF Inv, TypeOK
<1>2. \A d \in Calls \ {c} : call'[d] = call[d] BY DEF Inv, TypeOK
<1>3. call'[c] = r BY DEF Inv, TypeOK
<1>4. Known' BY <1>2, <1>3 DEF Inv, Known, At
<1>5. ASSUME brain = "claude" PROVE Claude'
  <2>1. ASSUME NEW d \in Calls \ {c} PROVE Sound(d)'
    <3>1. Sound(d) BY <1>5 DEF Inv, Claude
    <3> QED BY <3>1, <1>2, <1>5 DEF Sound, At, Left, UnderWay
  <2> QED BY <2>1, <1>5 DEF Inv, Claude, Cached
<1> QED BY <1>1, <1>4, <1>5 DEF Inv

\* A call that is over rests on nothing.
LEMMA OverIsSound ==
  ASSUME NEW c \in Calls, NEW r \in CallRow
  PROVE  /\ Done(r) \in CallRow /\ Done(r).at = "done"
         /\ call[c] = Done(r) => Sound(c)
<1>1. Done(r) \in CallRow
  <2>1. 0 \in 0..LongestReply /\ "none" \in Ends BY RelayAssumption DEF Ends
  <2> DEFINE r1 == [r EXCEPT !.at = "done", !.left = 0, !.cap = 0]
             r2 == [r1 EXCEPT !.minutes = 0, !.end = "none", !.used = None]
  <2>2. r1 \in CallRow BY DEF CallRow
  <2>4. r2 \in CallRow
    <3> HIDE DEF r1
    <3> QED BY <2>1, <2>2 DEF CallRow
  <2>3. Done(r) = r2 BY DEF Done, CallRow
  <2> QED BY <2>4, <2>3
<1>2. Done(r).at = "done" BY DEF Done, CallRow
<1> QED BY <1>1, <1>2 DEF Sound, At, UnderWay

LEMMA ArriveKeeps == ASSUME Inv, NEW c \in Calls, Arrive(c) PROVE Inv'
<1> DEFINE r == [call[c] EXCEPT !.at = IF brain = "claude" THEN "waiting" ELSE "held"]
<1>1. r \in CallRow /\ call' = [call EXCEPT ![c] = r] BY DEF Arrive, Inv, TypeOK, CallRow
<1>2. r.at \in {"waiting", "held"} /\ (brain = "claude" => r.at = "waiting")
  BY DEF Inv, TypeOK, CallRow
<1>3. call'[c] = r BY <1>1 DEF Inv, TypeOK
<1> HIDE DEF r
<1>4. brain = "claude" => Sound(c)' BY <1>2, <1>3 DEF Sound, At, UnderWay
<1> QED BY <1>1, <1>2, <1>4, Quiet DEF Arrive, Inv, TypeOK

LEMMA HoldKeeps == ASSUME Inv, NEW c \in Calls, Hold(c) PROVE Inv'
<1> DEFINE r == [call[c] EXCEPT !.at = "held"]
<1>1. r \in CallRow /\ call' = [call EXCEPT ![c] = r] BY DEF Hold, Inv, TypeOK, CallRow
<1>2. r.at = "held" BY DEF Inv, TypeOK, CallRow
<1>3. call'[c] = r BY <1>1 DEF Inv, TypeOK
<1> HIDE DEF r
<1>4. Sound(c)' BY <1>2, <1>3 DEF Sound, At, UnderWay, Hold
<1> QED BY <1>1, <1>2, <1>4, Quiet, RelayAssumption DEF Hold, Inv, TypeOK

LEMMA AskHqKeeps == ASSUME Inv, NEW c \in Calls, AskHq(c) PROVE Inv'
<1> DEFINE r == [call[c] EXCEPT !.at = "asked", !.left = Least(Left, Most)]
<1>1. r \in CallRow /\ call' = [call EXCEPT ![c] = r]
  BY LeftIsNat DEF AskHq, Inv, TypeOK, CallRow
<1>2. r.at = "asked" /\ r.left = Least(Left, Most) BY DEF Inv, TypeOK, CallRow
<1>3. call'[c] = r BY <1>1 DEF Inv, TypeOK
<1>4. brain = "claude" => holder = c BY DEF AskHq, Inv, Claude, Sound, At
<1> HIDE DEF r
<1>5. brain = "claude" => Sound(c)' BY <1>2, <1>3, <1>4 DEF Sound, At, UnderWay, AskHq, Left
<1> QED BY <1>1, <1>2, <1>5, Quiet DEF AskHq, Inv, TypeOK

\* A call that ends lets go of nothing but its own hold.
LEMMA EndKeeps ==
  ASSUME Inv, NEW c \in Calls, NEW r \in CallRow, call' = [call EXCEPT ![c] = Done(r)], Freed(c),
         UNCHANGED <<brain, cached, kept, charged, running, crashes>>
  PROVE  Inv'
<1>1. Done(r) \in CallRow /\ Done(r).at = "done" BY OverIsSound
<1>2. call'[c] = Done(r) BY DEF Inv, TypeOK
<1>3. Sound(c)' BY <1>1, <1>2 DEF Sound, At, UnderWay
<1> QED BY <1>1, <1>3, Quiet DEF Freed, Inv, TypeOK

LEMMA RefuseKeeps == ASSUME Inv, NEW c \in Calls, Refuse(c) PROVE Inv'
<1>1. call[c] \in CallRow BY DEF Inv, TypeOK
<1>2. call' = [call EXCEPT ![c] = Done(call[c])] BY DEF Refuse, Over
<1> QED BY <1>1, <1>2, EndKeeps DEF Refuse

\* What is passed on may cost no more than is left, whatever the provider has cached.
LEMMA PassOnKeeps ==
  ASSUME Inv, NEW c \in Calls, PassesOn(c)
  PROVE  Inv'
<1>1. PICK p \in Prompts, ask \in Asks, fate \in {"taken", "refused"} :
        \E caching \in IF brain = "claude" THEN BOOLEAN ELSE {FALSE} :
          \E of \in IF caching THEN {None, cached.of} ELSE {None} :
            PassOn(c, p, of, caching, ask, fate)
  BY DEF PassesOn
<1>2. PICK caching \in IF brain = "claude" THEN BOOLEAN ELSE {FALSE} :
        \E of \in IF caching THEN {None, cached.of} ELSE {None} :
          PassOn(c, p, of, caching, ask, fate)
  BY <1>1
<1>3. PICK of \in IF caching THEN {None, cached.of} ELSE {None} :
        PassOn(c, p, of, caching, ask, fate)
  BY <1>2
<1> DEFINE read == IF caching /\ of # None THEN CachedFor(p) ELSE 0
           cap  == Cap(c, p, read, caching, ask)
           used == PromptUsed(p, of, caching)
           r1   == [call[c] EXCEPT !.at = "out", !.prompt = p, !.cap = cap]
           r    == [r1 EXCEPT !.row = Noted, !.end = fate, !.used = used]
<1>4. /\ p \in Nat /\ ask \in Nat /\ caching \in BOOLEAN /\ of \in {None, cached.of}
      /\ cached.of \in Calls \cup {None}
  BY RelayAssumption DEF Inv, TypeOK
<1>5. used \in Usage /\ used.output = 0
      /\ (~caching => used.cache_read = 0 /\ used.cache_write = 0)
  BY <1>4, Prompting DEF Inv
<1>6. read \in Nat /\ read <= p
  BY <1>4, RelayAssumption DEF CachedFor, Inv, TypeOK, CallRow, Least
<1>7. PromptCost(p, read, caching) \in Nat
  <2>1. Used(0, p - read, read, 0) \in Usage /\ Used(p - read, 0, read, 0) \in Usage
    BY <1>4, <1>6 DEF Used, Usage
  <2> HIDE DEF read
  <2> QED BY <2>1, Costs DEF PromptCost
<1>8. call[c].left \in Nat BY DEF Inv, TypeOK, CallRow
<1>9. cap \in Nat /\ cap > 0
  <2>1. Less(call[c].left, IF brain = "claude" THEN PromptCost(p, read, caching) ELSE 0) \in Nat
    BY <1>7, <1>8, Amounts
  <2>2. cap \in Nat BY <2>1, <1>4, Amounts DEF Cap
  <2>3. cap > 0 BY <1>3 DEF PassOn
  <2> QED BY <2>2, <2>3
<1>10. call' = [call EXCEPT ![c] = r] BY <1>3 DEF PassOn, Inv, TypeOK, CallRow
<1> HIDE DEF cap, read, used
<1>11. r1 \in CallRow
  <2>1. call[c] \in CallRow BY DEF Inv, TypeOK
  <2> QED BY <1>4, <1>9, <2>1 DEF CallRow
<1>12. r \in CallRow
  <2> HIDE DEF r1
  <2>1. Noted \in Rows /\ fate \in Ends BY DEF Noted, Rows, Ends
  <2> QED BY <1>5, <1>11, <2>1 DEF CallRow
<1>13. /\ r.at = "out" /\ r.left = call[c].left /\ r.cap = cap /\ r.end = fate /\ r.used = used
       /\ r.minutes = call[c].minutes
  BY DEF Inv, TypeOK, CallRow
<1> HIDE DEF r, r1
<1>14. call'[c] = r /\ \A d \in Calls \ {c} : call'[d] = call[d] BY <1>10 DEF Inv, TypeOK
<1>15. kept' = [k \in Calls |-> IF caching /\ fate = "taken" /\ k \in {c, of} THEN 0 ELSE kept[k]]
  BY <1>3 DEF PassOn
<1>16. TypeOK'
  <2>1. kept' \in [Calls -> 0..CacheLives]
    <3>1. 0 \in 0..CacheLives BY RelayAssumption
    <3> QED BY <1>15, <3>1 DEF Inv, TypeOK
  <2>2. call' \in [Calls -> CallRow] BY <1>10, <1>12 DEF Inv, TypeOK
  <2> QED BY <1>3, <2>1, <2>2 DEF PassOn, Inv, TypeOK
<1>17. Known' BY <1>5, <1>9, <1>13, <1>14 DEF Inv, Known, At
<1>18. ASSUME brain = "claude" PROVE Claude'
  <2>1. Sound(c) BY <1>18 DEF Inv, Claude
  <2>2. At(c, {"asked"}) BY <1>3 DEF PassOn
  <2>3. holder = c /\ call[c].left = Least(Left, Most) BY <2>1, <2>2 DEF Sound, At
  <2>4. Cost(used) + cap <= call[c].left
    <3>1. Cost(used) <= PromptCost(p, read, caching)
      BY <1>4, <1>18, Reckoning DEF Inv, Claude, read, used
    <3>2. cap <= Less(call[c].left, PromptCost(p, read, caching))
      BY <1>4, <1>7, <1>8, <1>18, Amounts DEF cap, Cap
    <3>3. Cost(used) \in Nat BY <1>5, Costs
    <3> QED BY <1>7, <1>8, <1>9, <3>1, <3>2, <3>3 DEF Less
  <2>5. Sound(c)'
    <3>1. fate # "refused" /\ used.cache_read + used.cache_write # 0 => kept'[c] = 0
      BY <1>5, <1>15
    <3>2. r.minutes \in 0..LongestReply BY <1>12 DEF CallRow
    <3>4. r.minutes >= 0 BY <3>2, RelayAssumption
    <3>3. holder' = holder /\ Left' = Left BY <1>3 DEF PassOn, Left
    <3> QED BY <1>13, <1>14, <2>3, <2>4, <1>5, <3>1, <3>4, <3>3 DEF Sound, At, UnderWay
  <2>6. \A k \in Calls : kept'[k] <= kept[k] /\ kept[k] \in Nat
    BY <1>15, RelayAssumption DEF Inv, TypeOK
  <2>7. ASSUME NEW d \in Calls \ {c} PROVE Sound(d)'
    <3>1. Sound(d) BY <1>18 DEF Inv, Claude
    <3>2. holder' = holder /\ Left' = Left BY <1>3 DEF PassOn, Left
    <3>3. d # c /\ ~At(d, {"held", "asked", "out", "answered", "noted", "charged"})
      BY <3>1, <2>3 DEF Sound
    <3> QED BY <1>14, <3>3 DEF Sound, At, UnderWay
  <2>8. Cached'
    <3>1. Cached /\ cached' = cached BY <1>3, <1>18 DEF PassOn, Inv, Claude
    <3>2. cached.of # None => cached.of \in Calls BY <1>4
    <3>3. cached.age \in Nat BY RelayAssumption DEF Inv, TypeOK
    <3>4. cached.of # None => kept'[cached.of] \in Nat BY <3>2, <1>16, RelayAssumption DEF TypeOK
    <3> QED BY <2>6, <3>1, <3>2, <3>3, <3>4, RelayAssumption DEF Cached
  <2> QED BY <2>5, <2>7, <2>8, <1>3, <1>18 DEF Claude, PassOn, Inv
<1> QED BY <1>3, <1>16, <1>17, <1>18 DEF Inv, PassOn

\* A reply is taken at no more than its cap beyond its prompt.
LEMMA AnsweredKeeps ==
  ASSUME Inv, NEW c \in Calls, NEW how \in {"whole", "cut", "begun", "unread"},
         NEW o \in {1, call[c].cap}, o <= call[c].cap, Answered(c, how, o)
  PROVE  Inv'
<1> DEFINE u == call[c].used
           taken == Taken(u, call[c].cap, o, how)
           billed == IF Metered THEN Cost([u EXCEPT !.output = o]) ELSE 0
           r1 == [call[c] EXCEPT !.at = "answered", !.end = how]
           r  == [r1 EXCEPT !.used = taken, !.billed = billed]
<1>1. call[c] \in CallRow /\ call[c].cap \in Nat /\ call[c].left \in Nat BY DEF Inv, TypeOK, CallRow
<1>2. u \in Usage BY DEF Answered, Inv, Known, At
<1>3. billed \in Nat
  <2>1. [u EXCEPT !.output = o] \in Usage BY <1>1, <1>2 DEF Usage
  <2> QED BY <2>1, Costs
<1>4. taken \in Usage \cup {None} /\ (how = "unread" => taken = None)
  <2>1. CASE how = "whole" BY <1>1, <1>2, <2>1 DEF Taken, Usage
  <2>2. CASE how = "cut" BY <1>1, <1>2, <2>2 DEF Taken, Usage
  <2>3. CASE how = "begun" BY <1>1, <2>3 DEF Taken, Usage, Used
  <2>4. CASE how = "unread" BY <2>4 DEF Taken
  <2> QED BY <2>1, <2>2, <2>3, <2>4
<1>5. call' = [call EXCEPT ![c] = r] BY <1>1 DEF Answered, CallRow
<1> HIDE DEF billed, taken
<1>6. r1 \in CallRow BY <1>1 DEF CallRow, Ends
<1>7. r \in CallRow
  <2> HIDE DEF r1
  <2> QED BY <1>3, <1>4, <1>6 DEF CallRow
<1>8. /\ r.at = "answered" /\ r.end = how /\ r.used = taken /\ r.left = call[c].left
      /\ r.minutes = call[c].minutes
  BY <1>1 DEF CallRow
<1> HIDE DEF r, r1
<1>9. call'[c] = r BY <1>5 DEF Inv, TypeOK
<1>10. ASSUME brain = "claude" PROVE Sound(c)'
  <2>1. Sound(c) /\ At(c, {"out"}) /\ call[c].end = "taken" BY <1>10 DEF Inv, Claude, Answered
  <2>2. u.output = 0 /\ Cost(u) + call[c].cap <= call[c].left BY <2>1 DEF Sound
  <2>3. holder = c /\ call[c].left = Least(Left, Most) BY <2>1 DEF Sound, At
  <2>4. taken \in Usage => /\ Cost(taken) <= call[c].left
                           /\ taken.cache_read + taken.cache_write # 0 => kept[c] <= call[c].minutes
    <3>0. o \in 0..call[c].cap BY <1>1
    <3>1. CASE how = "unread" \/ taken = None
      BY <3>1, <1>4, RelayAssumption
    <3>2. CASE how # "unread"
      <4>1. Cost(taken) <= Cost(u) + call[c].cap
        BY <3>0, <3>2, <1>1, <1>2, <2>2, Taking DEF taken
      <4>2. Cost(u) \in Nat BY <1>2, Costs
      <4>3. taken \in Usage => Cost(taken) \in Nat BY Costs
      <4>4. CASE how \in {"whole", "cut"}
        <5>1. taken.cache_read = u.cache_read /\ taken.cache_write = u.cache_write
          BY <3>0, <4>4, <1>1, <1>2, <2>2, Taking DEF taken
        <5> QED BY <4>1, <4>2, <4>3, <5>1, <1>1, <1>2, <2>1, <2>2 DEF Sound, At, UnderWay
      <4>5. CASE how = "begun"
        <5>1. taken.cache_read = 0 /\ taken.cache_write = 0
          BY <3>0, <4>5, <1>1, <1>2, <2>2, Taking DEF taken
        <5> QED BY <4>1, <4>2, <4>3, <5>1, <1>1, <2>2
      <4> QED BY <3>2, <4>4, <4>5
    <3> QED BY <3>1, <3>2
  <2>5. holder' = holder /\ Left' = Left /\ kept' = kept BY DEF Answered, Left
  <2>6. call'[c].at = "answered" /\ call'[c].used = taken /\ call'[c].left = call[c].left
        /\ call'[c].minutes = call[c].minutes
    BY <1>8, <1>9
  <2>7. Sound(c)' = (/\ holder' = c
                     /\ call'[c].left = Least(Left', Most)
                     /\ taken \in Usage => Cost(taken) <= call'[c].left
                     /\ (taken \in Usage => how # "refused")
                     /\ how # "refused" /\ taken \in Usage
                        /\ taken.cache_read + taken.cache_write # 0 => kept'[c] <= call'[c].minutes)
    BY <1>8, <1>9 DEF Sound, At, UnderWay
  <2> QED BY <2>3, <2>4, <2>5, <2>6, <2>7
<1>11. /\ UNCHANGED <<brain, holder, cached, kept, charged, crashes>> /\ running' \in BOOLEAN
       /\ holder \in Calls \cup {None}
  BY DEF Answered, Inv, TypeOK
<1> QED BY <1>5, <1>7, <1>8, <1>10, <1>11, Quiet

LEMMA FailedKeeps == ASSUME Inv, NEW c \in Calls, Failed(c) PROVE Inv'
<1> DEFINE r == [call[c] EXCEPT !.at = "answered", !.used = None]
<1>1. r \in CallRow /\ call' = [call EXCEPT ![c] = r] BY DEF Failed, Inv, TypeOK, CallRow
<1>2. r.at = "answered" /\ r.used = None /\ r.left = call[c].left /\ r.end = "refused"
  BY DEF Failed, Inv, TypeOK, CallRow
<1>3. call'[c] = r BY <1>1 DEF Inv, TypeOK
<1> HIDE DEF r
<1>4. None \notin Usage => (brain = "claude" => Sound(c)')
  <2> SUFFICES ASSUME None \notin Usage, brain = "claude" PROVE Sound(c)' OBVIOUS
  <2>1. Sound(c) /\ At(c, {"out"}) BY DEF Failed, Inv, Claude
  <2> QED BY <1>2, <1>3, <2>1 DEF Failed, Sound, At, UnderWay, Left
<1>5. None \notin Usage BY RelayAssumption
<1> QED BY <1>1, <1>2, <1>4, <1>5, Quiet DEF Failed, Inv, TypeOK

\* Of a call that is settled what it used is known; the rest are over.
LEMMA SettleNotedKeeps == ASSUME Inv, NEW c \in Calls, SettleNoted(c) PROVE Inv'
<1> DEFINE row == IF call[c].row = "none" THEN "none" ELSE Outcome(call[c].end)
           noted == [call[c] EXCEPT !.at = "noted", !.row = row]
           over  == [call[c] EXCEPT !.row = row]
<1>1. call[c] \in CallRow BY DEF Inv, TypeOK
<1>2. CASE call[c].used # None
  <2>1. call' = [call EXCEPT ![c] = noted] /\ holder' = holder
    BY <1>1, <1>2 DEF SettleNoted, CallRow
  <2>2. row \in Rows
    <3>1. call[c].end \in {"whole", "cut", "begun", "unread", "refused"}
      BY DEF SettleNoted, Inv, Known
    <3> QED BY <3>1 DEF Outcome, Rows
  <2> HIDE DEF row
  <2>3. noted \in CallRow BY <1>1, <2>2 DEF CallRow
  <2>4. /\ noted.at = "noted" /\ noted.used = call[c].used /\ noted.left = call[c].left
        /\ noted.end = call[c].end /\ noted.minutes = call[c].minutes
    BY <1>1 DEF CallRow
  <2> HIDE DEF noted
  <2>5. call'[c] = noted BY <2>1 DEF Inv, TypeOK
  <2>6. noted.used \in Usage BY <1>1, <1>2, <2>4 DEF CallRow
  <2>7. brain = "claude" => Sound(c)'
    <3> SUFFICES ASSUME brain = "claude" PROVE Sound(c)' OBVIOUS
    <3>1. Sound(c) /\ At(c, {"answered"}) BY DEF SettleNoted, Inv, Claude
    <3>2. kept' = kept /\ Left' = Left BY DEF SettleNoted, Left
    <3> QED BY <2>1, <2>4, <2>5, <3>1, <3>2 DEF Sound, At, UnderWay
  <2> QED BY <2>1, <2>3, <2>4, <2>6, <2>7, Quiet DEF SettleNoted, Inv, TypeOK
<1>3. CASE call[c].used = None
  <2>1. row \in Rows
    <3>1. call[c].end \in {"whole", "cut", "begun", "unread", "refused"}
      BY DEF SettleNoted, Inv, Known
    <3> QED BY <3>1 DEF Outcome, Rows
  <2>2. over \in CallRow
    <3> HIDE DEF row
    <3> QED BY <1>1, <2>1 DEF CallRow
  <2>3. call' = [call EXCEPT ![c] = Done(over)] /\ Freed(c) BY <1>3 DEF SettleNoted
  <2> HIDE DEF over
  <2> QED BY <2>2, <2>3, EndKeeps DEF SettleNoted
<1> QED BY <1>2, <1>3

\* The one that is charged is the one that was told what is left: no other rests on it.
LEMMA ChargeKeeps ==
  ASSUME Inv, NEW c \in Calls, NEW heard \in {"yes", "unheard", "no"}, Charge(c, heard)
  PROVE  Inv'
<1> DEFINE cost == IF Metered THEN Cost(call[c].used) ELSE 0
           paid == IF heard = "no" THEN 0 ELSE cost
           r == [call[c] EXCEPT !.at = "charged", !.told = heard, !.paid = paid]
<1>1. call[c] \in CallRow BY DEF Inv, TypeOK
<1>2. At(c, {"noted"}) /\ call[c].used \in Usage BY DEF Charge, Inv, Known, At
<1>3. cost \in Nat BY <1>2, Costs
<1>4. call' = [call EXCEPT ![c] = r] BY DEF Charge
<1>5. charged' = IF heard = "no" THEN charged ELSE charged + cost BY DEF Charge
<1>6. brain = "claude" => cost = Cost(call[c].used) BY DEF Metered
<1> HIDE DEF cost
<1>7. r \in CallRow
  <2>1. paid \in Nat BY <1>3
  <2> HIDE DEF paid
  <2> QED BY <1>1, <2>1 DEF CallRow
<1>8. r.at = "charged" /\ r.used = call[c].used /\ r.end = call[c].end /\ r.minutes = call[c].minutes
  BY <1>1 DEF CallRow
<1> HIDE DEF r
<1>9. call'[c] = r /\ \A d \in Calls \ {c} : call'[d] = call[d] BY <1>4 DEF Inv, TypeOK
<1>10. TypeOK'
  <2>1. charged' \in Nat BY <1>3, <1>5 DEF Inv, TypeOK
  <2>2. call' \in [Calls -> CallRow] BY <1>4, <1>7 DEF Inv, TypeOK
  <2>3. running' \in BOOLEAN BY Zenon DEF Charge, Inv, TypeOK
  <2> QED BY <2>1, <2>2, <2>3 DEF Charge, Inv, TypeOK
<1>11. Known' BY <1>2, <1>8, <1>9 DEF Inv, Known, At
<1>12. ASSUME brain = "claude" PROVE Claude'
  <2>1. Sound(c) /\ Cached /\ charged <= Reserve BY <1>12 DEF Inv, Claude
  <2>2. holder = c /\ cost <= Least(Left, Most) BY <1>2, <1>6, <1>12, <2>1 DEF Sound, At
  <2>3. charged \in Nat BY DEF Inv, TypeOK
  <2>4. Least(Left, Most) <= Left /\ Left = Reserve - charged
    BY <2>1, <2>3, RelayAssumption DEF Left, Less, Least
  <2>5. charged' <= Reserve BY <1>3, <1>5, <2>1, <2>2, <2>3, <2>4, LeftIsNat, RelayAssumption DEF Inv
  <2>6. Sound(c)' BY <1>2, <1>8, <1>9, <2>1, <2>2 DEF Sound, At, UnderWay, Charge
  <2>7. ASSUME NEW d \in Calls \ {c} PROVE Sound(d)'
    <3>1. Sound(d) BY <1>12 DEF Inv, Claude
    <3>2. ~At(d, {"held", "asked", "out", "answered", "noted", "charged"})
      BY <3>1, <2>2 DEF Sound
    <3> QED BY <1>9, <3>2 DEF Sound, At, UnderWay
  <2>8. Cached' BY <2>1 DEF Cached, Charge
  <2> QED BY <2>5, <2>6, <2>7, <2>8 DEF Claude
<1> QED BY <1>10, <1>11, <1>12 DEF Inv, Charge

\* What is remembered is what the provider caches now.
LEMMA RememberKeeps == ASSUME Inv, NEW c \in Calls, Remember(c) PROVE Inv'
<1> DEFINE r == [call[c] EXCEPT !.told = Said(call[c].told)]
<1>1. call[c] \in CallRow BY DEF Inv, TypeOK
<1>2. r \in CallRow BY <1>1 DEF CallRow, Said
<1>3. call' = [call EXCEPT ![c] = Done(r)] BY DEF Remember
<1> HIDE DEF r
<1>4. Done(r) \in CallRow /\ Done(r).at = "done" BY <1>2, OverIsSound
<1>5. call'[c] = Done(r) /\ \A d \in Calls \ {c} : call'[d] = call[d] BY <1>3 DEF Inv, TypeOK
<1>6. cached' \in [of : Calls \cup {None}, age : 0..Trusted]
  BY RelayAssumption DEF Remember, Inv, TypeOK
<1>7. TypeOK' BY <1>3, <1>4, <1>6 DEF Remember, Freed, Inv, TypeOK
<1>8. Known' BY <1>4, <1>5 DEF Inv, Known, At
<1>9. ASSUME brain = "claude" PROVE Claude'
  <2>1. Sound(c) /\ At(c, {"charged"}) /\ call[c].used \in Usage
    BY <1>9 DEF Remember, Inv, Claude, Known, At
  <2>2. Sound(c)' BY <1>4, <1>5 DEF Sound, At, UnderWay
  <2>3. ASSUME NEW d \in Calls \ {c} PROVE Sound(d)'
    <3>1. Sound(d) BY <1>9 DEF Inv, Claude
    <3> QED BY <1>5, <3>1 DEF Sound, At, UnderWay, Remember, Freed, Left
  <2>4. Cached'
    <3>1. CASE call[c].used.cache_read + call[c].used.cache_write = 0
      <4>1. cached' = [of |-> None, age |-> 0] BY <1>9, <3>1 DEF Remember
      <4> QED BY <4>1 DEF Cached
    <3>2. CASE call[c].used.cache_read + call[c].used.cache_write # 0
      <4>1. cached' = [of |-> c, age |-> 0] /\ kept' = kept BY <1>9, <3>2 DEF Remember
      <4>2. call[c].end # "refused" => kept[c] <= call[c].minutes
        BY <2>1, <3>2 DEF Sound, At, UnderWay
      <4>3. call[c].minutes \in 0..LongestReply BY <1>1 DEF CallRow
      <4>4. kept[c] \in 0..CacheLives BY DEF Inv, TypeOK
      <4>5. kept[c] <= LongestReply
        <5>1. call[c].end # "refused" BY <2>1, <1>9 DEF Sound, At
        <5> QED BY <4>2, <4>3, <4>4, <5>1, RelayAssumption
      <4> QED BY <4>1, <4>4, <4>5, RelayAssumption DEF Cached
    <3> QED BY <3>1, <3>2
  <2> QED BY <2>2, <2>3, <2>4, <1>9 DEF Claude, Inv, Remember
<1> QED BY <1>7, <1>8, <1>9 DEF Inv, Remember

LEMMA TurnEndsKeeps == ASSUME Inv, TurnEnds PROVE Inv'
<1>1. UNCHANGED <<brain, call, holder, cached, kept, charged, crashes>> /\ running' = FALSE
  BY DEF TurnEnds
<1>2. TypeOK' /\ Known' BY <1>1 DEF Inv, TypeOK, Known, At
<1>3. Claude => Claude' BY <1>1 DEF Claude, Sound, Cached, At, UnderWay, Left
<1> QED BY <1>1, <1>2, <1>3 DEF Inv

\* The provider's clock and the calls' own go on together.
LEMMA TickKeeps == ASSUME Inv, Tick PROVE Inv'
<1>1. \A c \in Calls :
        /\ call[c] \in CallRow /\ kept[c] \in 0..CacheLives
        /\ call'[c] = IF UnderWay(c) THEN [call[c] EXCEPT !.minutes = @ + 1] ELSE call[c]
        /\ kept'[c] = Least(kept[c] + 1, CacheLives)
        /\ UnderWay(c) => call[c].minutes < LongestReply
  BY DEF Tick, Inv, TypeOK
<1>2. ASSUME NEW c \in Calls
      PROVE  /\ call'[c] \in CallRow /\ kept'[c] \in 0..CacheLives /\ kept'[c] <= kept[c] + 1
             /\ call'[c].at = call[c].at /\ call'[c].left = call[c].left
             /\ call'[c].used = call[c].used /\ call'[c].end = call[c].end
             /\ call'[c].cap = call[c].cap
             /\ UnderWay(c) => call'[c].minutes = call[c].minutes + 1
  <2>1. call[c] \in CallRow /\ call[c].minutes \in 0..LongestReply BY <1>1 DEF CallRow
  <2>0. kept[c] \in 0..CacheLives /\ kept'[c] = Least(kept[c] + 1, CacheLives)
        /\ (UnderWay(c) => call[c].minutes < LongestReply)
    BY <1>1
  <2>2. UnderWay(c) => call[c].minutes + 1 \in 0..LongestReply BY <2>0, <2>1, RelayAssumption
  <2>3. kept'[c] \in 0..CacheLives /\ kept'[c] <= kept[c] + 1 BY <2>0, RelayAssumption DEF Least
  <2>4. CASE UnderWay(c)
    <3>1. call'[c] = [call[c] EXCEPT !.minutes = call[c].minutes + 1] BY <1>1, <2>4 DEF CallRow
    <3> QED BY <2>1, <2>2, <2>3, <2>4, <3>1 DEF CallRow
  <2>5. CASE ~UnderWay(c) BY <1>1, <2>3, <2>5
  <2> QED BY <2>4, <2>5
<1>3. TypeOK'
  <2>1. call' \in [Calls -> CallRow] /\ kept' \in [Calls -> 0..CacheLives] BY <1>2 DEF Tick
  <2>2. cached' \in [of : Calls \cup {None}, age : 0..Trusted]
    <3> DEFINE age == IF cached.of = None THEN 0 ELSE Least(cached.age + 1, Trusted)
    <3>1. cached' = [cached EXCEPT !.age = age] BY DEF Tick, Inv, TypeOK
    <3>2. age \in 0..Trusted BY RelayAssumption DEF Inv, TypeOK, Least
    <3> HIDE DEF age
    <3> QED BY <3>1, <3>2 DEF Inv, TypeOK
  <2> QED BY <2>1, <2>2 DEF Tick, Inv, TypeOK
<1>4. Known' BY <1>2 DEF Inv, Known, At
<1>5. ASSUME brain = "claude" PROVE Claude'
  <2>1. ASSUME NEW c \in Calls PROVE Sound(c)'
    <3>1. Sound(c) BY <1>5 DEF Inv, Claude
    <3>2. holder' = holder /\ Left' = Left BY DEF Tick, Left
    <3>3. call[c].minutes \in Nat /\ kept[c] \in Nat /\ kept'[c] \in Nat
      <4>1. call[c] \in CallRow /\ kept[c] \in 0..CacheLives /\ kept'[c] \in 0..CacheLives
        BY <1>1, <1>2
      <4> QED BY <4>1, RelayAssumption DEF CallRow
    <3>4. UnderWay(c)' = UnderWay(c) BY <1>2 DEF UnderWay, At
    <3> QED BY <1>2, <3>1, <3>2, <3>3, <3>4 DEF Sound, At
  <2>2. Cached'
    <3>1. cached'.of = cached.of BY DEF Tick, Inv, TypeOK
    <3>2. SUFFICES ASSUME cached.of # None, cached'.age < Trusted
                   PROVE  kept'[cached.of] <= cached'.age + LongestReply
      BY <3>1 DEF Cached
    <3>3. cached.of \in Calls /\ cached.age \in 0..Trusted BY <3>2 DEF Inv, TypeOK
    <3>4. cached'.age = Least(cached.age + 1, Trusted) BY <3>2 DEF Tick, Inv, TypeOK
    <3>5. cached.age < Trusted /\ cached'.age = cached.age + 1
      BY <3>2, <3>3, <3>4, RelayAssumption DEF Least
    <3>6. kept[cached.of] <= cached.age + LongestReply BY <1>5, <3>2, <3>5 DEF Inv, Claude, Cached
    <3>7. kept'[cached.of] <= kept[cached.of] + 1 /\ kept[cached.of] \in Nat /\ kept'[cached.of] \in Nat
      <4>1. kept[cached.of] \in 0..CacheLives /\ kept'[cached.of] \in 0..CacheLives
        BY <1>1, <1>2, <3>3
      <4> QED BY <1>2, <3>3, <4>1, RelayAssumption
    <3> QED BY <3>3, <3>5, <3>6, <3>7, RelayAssumption
  <2> QED BY <2>1, <2>2, <1>5 DEF Claude, Inv, Tick
<1> QED BY <1>3, <1>4, <1>5 DEF Inv, Tick

\* Of a node that dies no call is left that rests on anything.
LEMMA CrashKeeps == ASSUME Inv, Crash PROVE Inv'
<1>1. ASSUME NEW c \in Calls
      PROVE  call'[c] \in CallRow /\ call'[c].at \in {"none", "done"}
  <2>1. call[c] \in CallRow BY DEF Inv, TypeOK
  <2>2. CASE At(c, {"none", "done"}) BY <2>1, <2>2 DEF Crash, At, Inv, TypeOK
  <2>3. CASE ~At(c, {"none", "done"})
    <3> DEFINE billed == IF At(c, {"out"}) /\ call[c].end = "taken" /\ Metered
                         THEN Cost(call[c].used) ELSE call[c].billed
               r == [call[c] EXCEPT !.told = "unasked", !.billed = billed]
    <3>1. billed \in Nat BY <2>1, Costs DEF Inv, Known, CallRow, At
    <3>2. call'[c] = Done(r) BY <2>3 DEF Crash, Lost
    <3> HIDE DEF billed
    <3>3. r \in CallRow BY <2>1, <3>1 DEF CallRow
    <3> QED BY <3>2, <3>3, OverIsSound
  <2> QED BY <2>2, <2>3
<1>2. TypeOK'
  <2>1. call' \in [Calls -> CallRow]
    <3>1. \A c \in Calls : (IF At(c, {"none", "done"}) THEN call[c] ELSE Lost(c)) \in CallRow
      BY <1>1 DEF Crash
    <3> QED BY <3>1 DEF Crash
  <2>2. cached' \in [of : Calls \cup {None}, age : 0..Trusted] /\ holder' \in Calls \cup {None}
    BY RelayAssumption DEF Crash
  <2>3. crashes' \in Nat BY DEF Crash, Inv, TypeOK
  <2> QED BY <2>1, <2>2, <2>3 DEF Crash, Inv, TypeOK
<1>3. Known' BY <1>1 DEF Known, At
<1>4. brain = "claude" => Claude' BY <1>1 DEF Crash, Inv, Claude, Sound, Cached, At, UnderWay
<1> QED BY <1>2, <1>3, <1>4 DEF Inv, Crash

LEMMA InvNext == Inv /\ [Next]_vars => Inv'
<1> SUFFICES ASSUME Inv, [Next]_vars PROVE Inv' OBVIOUS
<1>1. ASSUME NEW c \in Calls, Answers(c) PROVE Inv'
  <2>1. CASE Failed(c) BY <2>1, FailedKeeps
  <2>2. ASSUME NEW how \in {"whole", "cut", "begun", "unread"}, NEW o \in {1, call[c].cap},
               Answered(c, how, o)
        PROVE  Inv'
    <3>1. o <= call[c].cap BY <2>2 DEF Answered, Inv, Known, TypeOK, CallRow
    <3> QED BY <2>2, <3>1, AnsweredKeeps
  <2> QED BY <1>1, <2>1, <2>2 DEF Answers
<1>2. ASSUME NEW c \in Calls, Settles(c) PROVE Inv'
  BY <1>2, SettleNotedKeeps, RememberKeeps, ChargeKeeps DEF Settles
<1>3. CASE UNCHANGED vars
  <2>1. TypeOK' /\ Known' BY <1>3 DEF vars, Inv, TypeOK, Known, At
  <2>2. Claude => Claude' BY <1>3 DEF vars, Claude, Sound, Cached, At, UnderWay, Left
  <2> QED BY <1>3, <2>1, <2>2 DEF vars, Inv
<1> QED
  BY <1>1, <1>2, <1>3, ArriveKeeps, HoldKeeps, AskHqKeeps, RefuseKeeps, PassOnKeeps, TurnEndsKeeps,
     TickKeeps, CrashKeeps DEF Next

LEMMA Always == Spec => []Inv
<1> QED BY InvInit, InvNext, PTL DEF Spec

---------------------------------------------------------------------------
(* What calls cost, and what is charged or noted of it.                    *)

\* What HQ is told a use costs.
Worth(u) == IF Metered THEN Cost(u) ELSE 0

\* What the books say of a call, at each step of it: nothing is billed before it is passed on; from
\* then it has a row in the census; what is read of its reply is worth no less than is billed,
\* unless it was cut before it said anything, and then its row does not say that it was answered.
Accounted(b) ==
  /\ b.at \in {"none", "waiting", "held", "asked"} => b.billed = 0
  /\ b.at = "out" => b.billed = 0 /\ b.row = "unfinished" /\ b.used.output = 0
  /\ b.at = "answered" =>
       /\ b.row = "unfinished"
       /\ b.end \in {"whole", "cut"} => b.billed <= Worth(b.used)
       /\ b.used # None <=> b.end \in {"whole", "cut", "begun"}
  /\ b.at = "noted" =>
       /\ b.end \in {"whole", "cut", "begun"}
       /\ b.end # "begun" => b.billed <= Worth(b.used)
       /\ b.row = IF b.end = "whole" THEN "answered" ELSE "interrupted"
  /\ b.at = "charged" =>
       /\ b.row \in {"answered", "interrupted"}
       /\ b.end = "begun" => b.row = "interrupted"
       /\ b.told # "no" /\ b.end # "begun" => b.billed <= b.paid
  /\ b.at = "done" /\ b.billed > b.paid =>
       /\ b.row # "none"
       /\ b.row = "answered" => b.told # "yes"

AllAccounted == \A c \in Calls : Accounted(call[c])

\* A step of one call touches no other's books.
LEMMA OthersAccounted ==
  ASSUME Inv, AllAccounted, NEW c \in Calls, NEW r, call' = [call EXCEPT ![c] = r],
         brain' = brain, Accounted(r)
  PROVE  AllAccounted'
<1>1. \A d \in Calls : call'[d] = IF d = c THEN r ELSE call[d] BY DEF Inv, TypeOK
<1>2. Metered' = Metered BY DEF Metered
<1> QED BY <1>1, <1>2 DEF AllAccounted, Accounted, Worth

\* A call that is over is in the books if what it cost past its charge shows in the census.
LEMMA OverAccounted ==
  ASSUME NEW r \in CallRow,
         r.billed > r.paid => r.row # "none" /\ (r.row = "answered" => r.told # "yes")
  PROVE  Accounted(Done(r))
<1>1. /\ Done(r).at = "done" /\ Done(r).billed = r.billed /\ Done(r).paid = r.paid
      /\ Done(r).row = r.row /\ Done(r).told = r.told
  BY DEF Done, CallRow
<1> QED BY <1>1 DEF Accounted

LEMMA BeforeItLeaves ==
  ASSUME Inv, AllAccounted, NEW c \in Calls, Arrive(c) \/ Hold(c) \/ AskHq(c) \/ Refuse(c)
  PROVE  AllAccounted'
<1>1. call[c] \in CallRow /\ Accounted(call[c]) BY DEF Inv, TypeOK, AllAccounted
<1>2. At(c, {"none", "waiting", "held", "asked"}) /\ brain' = brain
  BY DEF Arrive, Hold, AskHq, Refuse, At
<1>3. call[c].billed = 0 /\ call[c].paid \in Nat BY <1>1, <1>2 DEF Accounted, At, CallRow
<1>4. CASE Refuse(c)
  <2>1. call' = [call EXCEPT ![c] = Done(call[c])] BY <1>4 DEF Refuse, Over
  <2>2. Accounted(Done(call[c])) BY <1>1, <1>3, OverAccounted
  <2> QED BY <1>2, <2>1, <2>2, OthersAccounted
<1>5. ASSUME NEW at \in {"waiting", "held", "asked"}, NEW left,
             call' = [call EXCEPT ![c] = [call[c] EXCEPT !.at = at, !.left = left]]
      PROVE  AllAccounted'
  <2> DEFINE r == [call[c] EXCEPT !.at = at, !.left = left]
  <2>1. r.at = at /\ r.billed = 0 BY <1>1, <1>3 DEF CallRow
  <2> HIDE DEF r
  <2>2. Accounted(r) BY <2>1 DEF Accounted
  <2> QED BY <1>2, <1>5, <2>2, OthersAccounted DEF r
<1>6. ASSUME NEW at \in {"waiting", "held", "asked"}, call' = [call EXCEPT ![c].at = at]
      PROVE  AllAccounted'
  <2>1. call' = [call EXCEPT ![c] = [call[c] EXCEPT !.at = at, !.left = call[c].left]]
    BY <1>1, <1>6 DEF Inv, TypeOK, CallRow
  <2> QED BY <1>5, <2>1
<1>7. CASE Arrive(c) BY <1>6, <1>7 DEF Arrive
<1>8. CASE Hold(c) BY <1>6, <1>8 DEF Hold
<1>9. CASE AskHq(c) BY <1>5, <1>9 DEF AskHq
<1> QED BY <1>4, <1>7, <1>8, <1>9

\* What is passed on has a row in the census already.
LEMMA PassedOnAccounted ==
  ASSUME Inv, AllAccounted, NEW c \in Calls, PassesOn(c)
  PROVE  AllAccounted'
<1>1. PICK p \in Prompts, fate \in {"taken", "refused"}, ask \in Asks, caching \in BOOLEAN,
           of \in {None, cached.of} : PassOn(c, p, of, caching, ask, fate)
  BY DEF PassesOn
<1>2. p \in Nat /\ of \in Calls \cup {None} BY <1>1, RelayAssumption DEF Inv, TypeOK
<1> DEFINE used == PromptUsed(p, of, caching)
           read == IF caching /\ of # None THEN CachedFor(p) ELSE 0
           cap  == Cap(c, p, read, caching, ask)
           r    == [call[c] EXCEPT !.at = "out", !.prompt = p, !.cap = cap, !.row = Noted,
                                   !.end = fate, !.used = used]
<1>3. used.output = 0 BY <1>2, Prompting DEF Inv
<1>4. call[c] \in CallRow /\ Accounted(call[c]) /\ call[c].at = "asked" /\ brain' = brain
  BY <1>1 DEF PassOn, At, Inv, TypeOK, AllAccounted
<1> HIDE DEF used, cap
<1>5. call' = [call EXCEPT ![c] = r] BY <1>1 DEF PassOn, used, cap, Inv, TypeOK, CallRow
<1>6. r.at = "out" /\ r.billed = call[c].billed /\ r.row = "unfinished" /\ r.used = used
  BY <1>4 DEF CallRow, Noted
<1> HIDE DEF r
<1>7. Accounted(r) BY <1>3, <1>4, <1>6 DEF Accounted
<1> QED BY <1>4, <1>5, <1>7, OthersAccounted

\* What is taken to have been used is no less than was: all a reply said, or all a cut one might
\* have put out.
LEMMA TakenIsEnough ==
  ASSUME NEW u \in Usage, NEW cap \in Nat, NEW o \in 0..cap, NEW how \in {"whole", "cut"}
  PROVE  Cost([u EXCEPT !.output = o]) <= Cost(Taken(u, cap, o, how))
<1>1. /\ [u EXCEPT !.output = o] \in Usage /\ [u EXCEPT !.output = cap] \in Usage
      /\ Cost([u EXCEPT !.output = o]) = 2 * u.input + 3 * u.cache_write + u.cache_read + o
      /\ Cost([u EXCEPT !.output = cap]) = 2 * u.input + 3 * u.cache_write + u.cache_read + cap
  BY DEF Usage, Cost, Price
<1>2. CASE how = "whole"
  <2>1. Taken(u, cap, o, how) = [u EXCEPT !.output = o] BY <1>2 DEF Taken
  <2> QED BY <1>1, <2>1 DEF Usage
<1>3. CASE how = "cut"
  <2>1. Taken(u, cap, o, how) = [u EXCEPT !.output = cap] BY <1>3 DEF Taken
  <2> QED BY <1>1, <2>1 DEF Usage
<1> QED BY <1>2, <1>3

LEMMA AnsweredAccounted ==
  ASSUME Inv, AllAccounted, NEW c \in Calls, NEW how \in {"whole", "cut", "begun", "unread"},
         NEW o \in {1, call[c].cap}, Answered(c, how, o)
  PROVE  AllAccounted'
<1> DEFINE u == call[c].used
           taken == Taken(u, call[c].cap, o, how)
           billed == IF Metered THEN Cost([u EXCEPT !.output = o]) ELSE 0
           r == [call[c] EXCEPT !.at = "answered", !.end = how, !.used = taken, !.billed = billed]
<1>1. /\ call[c] \in CallRow /\ Accounted(call[c]) /\ call[c].at = "out" /\ brain' = brain
      /\ u \in Usage /\ call[c].cap \in Nat /\ call[c].cap > 0
  BY DEF Answered, At, Inv, Known, TypeOK, CallRow, AllAccounted
<1>2. o \in 0..call[c].cap BY <1>1
<1>3. taken # None <=> how # "unread"
  <2>1. CASE how = "whole" BY <1>1, <1>2, <2>1, RelayAssumption DEF Taken, Usage
  <2>2. CASE how = "cut" BY <1>1, <2>2, RelayAssumption DEF Taken, Usage
  <2>3. CASE how = "begun" BY <1>1, <2>3, RelayAssumption DEF Taken, Usage, Used
  <2>4. CASE how = "unread" BY <2>4 DEF Taken
  <2> QED BY <2>1, <2>2, <2>3, <2>4
<1>4. how \in {"whole", "cut"} => billed <= Worth(taken)
  BY <1>1, <1>2, TakenIsEnough DEF Worth
<1> HIDE DEF taken, billed
<1>5. call' = [call EXCEPT ![c] = r] BY DEF Answered, taken, billed
<1>6. r.at = "answered" /\ r.row = "unfinished" /\ r.end = how /\ r.used = taken /\ r.billed = billed
  BY <1>1 DEF CallRow, Accounted
<1> HIDE DEF r
<1>7. Accounted(r) BY <1>3, <1>4, <1>6 DEF Accounted
<1> QED BY <1>1, <1>5, <1>7, OthersAccounted

LEMMA FailedAccounted ==
  ASSUME Inv, AllAccounted, NEW c \in Calls, Failed(c) PROVE AllAccounted'
<1> DEFINE r == [call[c] EXCEPT !.at = "answered", !.used = None]
<1>1. /\ call[c] \in CallRow /\ Accounted(call[c]) /\ call[c].at = "out" /\ brain' = brain
      /\ call[c].end = "refused" /\ call' = [call EXCEPT ![c] = r]
  BY DEF Failed, At, Inv, TypeOK, AllAccounted
<1>2. r.at = "answered" /\ r.row = "unfinished" /\ r.end = "refused" /\ r.used = None
  BY <1>1 DEF CallRow, Accounted
<1> HIDE DEF r
<1>3. Accounted(r) BY <1>2 DEF Accounted
<1> QED BY <1>1, <1>3, OthersAccounted

\* A call of which nothing is known is noted as one that was not answered.
LEMMA SettleNotedAccounted ==
  ASSUME Inv, AllAccounted, NEW c \in Calls, SettleNoted(c) PROVE AllAccounted'
<1> DEFINE row == IF call[c].row = "none" THEN "none" ELSE Outcome(call[c].end)
           noted == [call[c] EXCEPT !.at = "noted", !.row = row]
           over == [call[c] EXCEPT !.row = row]
<1>1. /\ call[c] \in CallRow /\ Accounted(call[c]) /\ call[c].at = "answered" /\ brain' = brain
      /\ call[c].end \in {"whole", "cut", "begun", "unread", "refused"}
  BY DEF SettleNoted, At, Inv, Known, TypeOK, AllAccounted
<1>2. row = Outcome(call[c].end) BY <1>1 DEF Accounted
<1>3. /\ row \in Rows
      /\ call[c].end = "whole" => row = "answered"
      /\ call[c].end \in {"cut", "begun", "unread"} => row = "interrupted"
      /\ call[c].end = "refused" => row = "failed"
  BY <1>1, <1>2 DEF Outcome, Rows
<1> HIDE DEF row
<1>4. CASE call[c].used # None
  <2>1. call' = [call EXCEPT ![c] = noted] BY <1>4 DEF SettleNoted, row
  <2>2. /\ noted.at = "noted" /\ noted.row = row /\ noted.end = call[c].end
        /\ noted.used = call[c].used /\ noted.billed = call[c].billed
    BY <1>1 DEF CallRow
  <2> HIDE DEF noted
  <2>3. call[c].end \in {"whole", "cut", "begun"}
        /\ (call[c].end # "begun" => call[c].billed <= Worth(call[c].used))
    BY <1>1, <1>4 DEF Accounted
  <2>4. Accounted(noted) BY <1>3, <2>2, <2>3 DEF Accounted
  <2> QED BY <1>1, <2>1, <2>4, OthersAccounted
<1>5. CASE call[c].used = None
  <2>1. call' = [call EXCEPT ![c] = Done(over)] BY <1>5 DEF SettleNoted, row
  <2>2. over \in CallRow /\ over.row = row BY <1>1, <1>3 DEF CallRow
  <2>3. row # "none" /\ row # "answered"
    BY <1>1, <1>3, <1>5 DEF Accounted
  <2> QED BY <1>1, <2>1, <2>2, <2>3, OverAccounted, OthersAccounted
<1> QED BY <1>4, <1>5

\* What HQ is told is all that was taken to have been used, or it is not known to have heard.
LEMMA ChargedAccounted ==
  ASSUME Inv, AllAccounted, NEW c \in Calls, NEW heard \in {"yes", "unheard", "no"},
         Charge(c, heard)
  PROVE  AllAccounted'
<1> DEFINE paid == IF heard = "no" THEN 0 ELSE Worth(call[c].used)
           r == [call[c] EXCEPT !.at = "charged", !.told = heard, !.paid = paid]
<1>1. /\ call[c] \in CallRow /\ Accounted(call[c]) /\ call[c].at = "noted" /\ brain' = brain
      /\ call' = [call EXCEPT ![c] = r]
  BY DEF Charge, At, Inv, TypeOK, AllAccounted, Worth
<1>2. /\ r.at = "charged" /\ r.told = heard /\ r.paid = paid /\ r.row = call[c].row
      /\ r.end = call[c].end /\ r.billed = call[c].billed
  BY <1>1 DEF CallRow
<1>3. heard # "no" => paid = Worth(call[c].used) OBVIOUS
<1> HIDE DEF paid, r
<1>4. Accounted(r) BY <1>1, <1>2, <1>3 DEF Accounted
<1> QED BY <1>1, <1>4, OthersAccounted

LEMMA RememberAccounted ==
  ASSUME Inv, AllAccounted, NEW c \in Calls, Remember(c) PROVE AllAccounted'
<1> DEFINE r == [call[c] EXCEPT !.told = Said(call[c].told)]
<1>1. /\ call[c] \in CallRow /\ Accounted(call[c]) /\ call[c].at = "charged" /\ brain' = brain
      /\ call' = [call EXCEPT ![c] = Done(r)]
  BY DEF Remember, At, Inv, TypeOK, AllAccounted
<1>2. /\ r \in CallRow /\ r.row = call[c].row /\ r.billed = call[c].billed
      /\ r.paid = call[c].paid /\ (r.told = "yes" => call[c].told = "yes")
  BY <1>1 DEF CallRow, Said
<1> HIDE DEF r
<1>3. call[c].billed \in Nat /\ call[c].paid \in Nat BY <1>1 DEF CallRow
<1>4. r.billed > r.paid => r.row # "none" /\ (r.row = "answered" => r.told # "yes")
  BY <1>1, <1>2, <1>3 DEF Accounted
<1>5. Accounted(Done(r)) BY <1>2, <1>4, OverAccounted
<1> QED BY <1>1, <1>5, OthersAccounted

\* A call the node died under has a row in the census if it was passed on, and one that says it
\* was told of no charge.
LEMMA CrashAccounted == ASSUME Inv, AllAccounted, Crash PROVE AllAccounted'
<1>1. ASSUME NEW c \in Calls, ~At(c, {"none", "done"})
      PROVE  Accounted(Lost(c))
  <2> DEFINE billed == IF At(c, {"out"}) /\ call[c].end = "taken" /\ Metered
                       THEN Cost(call[c].used) ELSE call[c].billed
             r == [call[c] EXCEPT !.told = "unasked", !.billed = billed]
  <2>1. call[c] \in CallRow /\ Accounted(call[c]) BY DEF Inv, TypeOK, AllAccounted
  <2>2. billed \in Nat BY <2>1, Costs DEF Inv, Known, CallRow, At
  <2>3. Lost(c) = Done(r) BY DEF Lost
  <2>4. call[c].at \in {"waiting", "held", "asked"} => billed = 0 BY <2>1 DEF Accounted, At
  <2> HIDE DEF billed
  <2>5. /\ r \in CallRow /\ r.told = "unasked" /\ r.billed = billed /\ r.row = call[c].row
        /\ r.paid \in Nat
    BY <2>1, <2>2 DEF CallRow
  <2> HIDE DEF r
  <2>6. call[c].at \in {"out", "answered", "noted", "charged"} => call[c].row # "none"
    BY <2>1 DEF Accounted
  <2>7. call[c].at \in {"waiting", "held", "asked"} \/ call[c].at \in {"out", "answered", "noted", "charged"}
    BY <1>1, <2>1 DEF CallRow, At
  <2>8. r.billed > r.paid => r.row # "none" /\ (r.row = "answered" => r.told # "yes")
    <3>1. CASE call[c].at \in {"waiting", "held", "asked"}
      <4>1. r.billed = 0 BY <2>4, <2>5, <3>1
      <4> QED BY <2>5, <4>1
    <3>2. CASE call[c].at \in {"out", "answered", "noted", "charged"}
      BY <2>5, <2>6, <3>2
    <3> QED BY <2>7, <3>1, <3>2
  <2> QED BY <2>3, <2>5, <2>8, OverAccounted
<1>2. \A c \in Calls : call'[c] = IF At(c, {"none", "done"}) THEN call[c] ELSE Lost(c)
  BY DEF Crash
<1>3. \A c \in Calls : Accounted(call'[c])
  BY <1>1, <1>2 DEF AllAccounted
<1>4. Metered' = Metered BY DEF Crash, Metered
<1> QED BY <1>3, <1>4 DEF AllAccounted, Accounted, Worth

LEMMA TickAccounted == ASSUME Inv, AllAccounted, Tick PROVE AllAccounted'
<1>1. ASSUME NEW c \in Calls
      PROVE  /\ call'[c].at = call[c].at /\ call'[c].row = call[c].row
             /\ call'[c].told = call[c].told /\ call'[c].end = call[c].end
             /\ call'[c].used = call[c].used /\ call'[c].billed = call[c].billed
             /\ call'[c].paid = call[c].paid
  BY DEF Tick, Inv, TypeOK, CallRow
<1>2. Metered' = Metered BY DEF Tick, Metered
<1> QED BY <1>1, <1>2 DEF AllAccounted, Accounted, Worth

LEMMA AccountedNext == Inv /\ AllAccounted /\ [Next]_vars => AllAccounted'
<1> SUFFICES ASSUME Inv, AllAccounted, [Next]_vars PROVE AllAccounted' OBVIOUS
<1>1. ASSUME NEW c \in Calls, Answers(c) PROVE AllAccounted'
  BY <1>1, AnsweredAccounted, FailedAccounted DEF Answers
<1>2. ASSUME NEW c \in Calls, Settles(c) PROVE AllAccounted'
  BY <1>2, SettleNotedAccounted, RememberAccounted, ChargedAccounted DEF Settles
<1>3. CASE TurnEnds \/ UNCHANGED vars
  BY <1>3 DEF TurnEnds, vars, AllAccounted, Accounted, Worth, Metered
<1> QED
  BY <1>1, <1>2, <1>3, BeforeItLeaves, PassedOnAccounted, TickAccounted, CrashAccounted DEF Next

LEMMA AccountedAlways == Spec => [](Inv /\ AllAccounted)
<1>1. Init => Inv /\ AllAccounted
  BY InvInit DEF Init, Fresh, AllAccounted, Accounted
<1> QED BY <1>1, InvNext, AccountedNext, PTL DEF Spec

---------------------------------------------------------------------------
\* Every call's row is one the relay can hold.
THEOREM TypesKept == Spec => []TypeOK
<1>1. Inv => TypeOK BY DEF Inv
<1> QED BY <1>1, Always, PTL

\* What a Claude call was told is left is left until it is charged, whatever is cut, lost or
\* crashes (app/node/src/api/relay.rs, `TurnCalls`).
THEOREM LeftStaysLeft == Spec => []LeftIsCurrent
<1>1. Inv => LeftIsCurrent BY DEF Inv, Claude, Sound, LeftIsCurrent, At
<1> QED BY <1>1, Always, PTL

\* A Claude turn's calls are never charged past what HQ reserved for it (app/node/src/api/relay.rs,
\* `messages` and `cached_for`), given the minute that is spared.
THEOREM TheReserveIsEnough == Spec => []WithinTheReserve
<1>1. Inv => WithinTheReserve BY DEF Inv, Claude, WithinTheReserve
<1> QED BY <1>1, Always, PTL
\* What calls cost is charged, or is to be seen: HQ is told of no less than a call cost, unless its
\* stream was cut before it said anything, and a call that cost more than was charged for it has a
\* row in the census that does not pass for one that was answered and charged
\* (app/node/src/api/relay.rs, `messages` and `Settle`; `RelayCensus`).
THEOREM SpendingStaysKnown == Spec => []SpendingIsKnown
<1>1. ASSUME Inv, AllAccounted PROVE PaidInFull
  <2>1. \A c \in Calls : Accounted(call[c]) /\ call[c].billed \in Nat /\ call[c].paid \in Nat
    BY <1>1 DEF AllAccounted, Inv, TypeOK, CallRow
  <2> QED BY <2>1 DEF PaidInFull, Accounted, At
<1>2. ASSUME Inv, AllAccounted PROVE CensusHidesNothing
  BY <1>2 DEF AllAccounted, Accounted, CensusHidesNothing, At
<1>3. Inv /\ AllAccounted => SpendingIsKnown BY <1>1, <1>2 DEF SpendingIsKnown
<1> QED BY <1>3, AccountedAlways, PTL

---------------------------------------------------------------------------
(* The node's restarts of the lab's containers (Restarts): that the team   *)
(* keeps to its few an hour, and that nothing is done twice or said to be  *)
(* done that was not, for any number of calls, containers, requests and    *)
(* crashes.  The limits rest on the clock: a call looks at the ledger at   *)
(* most Slow after the time it asked at, and a row thrown away is more     *)
(* than a day old, so no row a call's hour could hold is missing when it   *)
(* looks (Counted).  That nothing is done twice rests on the journal:      *)
(* whatever the console is doing, or Portainer may yet do, is the one      *)
(* request its id was written down for (Journaled).                        *)

CONSTANTS Turns, Containers, Presses, Hour, Day, AnHour, Slow, LastTime
VARIABLES time, calls, ledger, journal, doing, late, done, took, deaths

\* Its `call` is here `calls`: the relay has one of its own.
Lab == INSTANCE Restarts WITH call <- calls

\* What the instance counts by is what the facts about finite sets are about.
LEMMA LabCounts ==
  ASSUME NEW S
  PROVE  /\ Lab!IsFiniteSet(S) <=> IsFiniteSet(S)
         /\ Lab!Cardinality(S) = Cardinality(S)
<1>1. Lab!IsFiniteSet(S) <=> IsFiniteSet(S) BY DEF Lab!IsFiniteSet, IsFiniteSet
<1>2. Lab!Cardinality(S) = Cardinality(S) BY DEF Lab!Cardinality, Cardinality
<1> QED BY <1>1, <1>2

\* A call's time is past, and it looks at the ledger within Slow of it.
Clocked ==
  \A t \in Turns : /\ calls[t].time <= time
                   /\ Lab!Looking(t) => time - calls[t].time <= Slow

\* A call takes its restart once, and acts on none it has not taken.
TakenOnce ==
  \A t \in Turns : /\ t \in took => calls[t].at \notin {"idle", "asked", "fit"}
                   /\ calls[t].at \in {"taken", "acting"} => t \in took

\* A row is thrown away when it is more than a day old.
OldThrownAway == \A t \in took \ ledger : calls[t].time + Day < time

Counted == Clocked /\ TakenOnce /\ OldThrownAway /\ Lab!LimitsKept

\* What the console is doing is the request its id was written down for, done or not as far as
\* the console has got.
DoingIsJournaled ==
  doing.step # "free" =>
    /\ doing.of \in Lab!Requests /\ journal[doing.of.id].of = doing.of
    /\ doing.step = "reserved" => done[doing.of.id] = 0 /\ doing.of \notin late
    /\ doing.step \in {"accepted", "confirmed"} => done[doing.of.id] = 1

\* What Portainer may yet do is what its id was written down for, and not done.
LateIsJournaled ==
  \A q \in late : /\ journal[q.id].of = q
                  /\ done[q.id] = 0

\* The team's requests are those of calls that took a restart.
TeamsAreTaken == \A t \in Turns : journal[t].of # Lab!NoRequest => t \in took

Journaled == DoingIsJournaled /\ LateIsJournaled /\ TeamsAreTaken /\ Lab!DoneAsRecorded

---------------------------------------------------------------------------
(* Types.                                                                  *)

LEMMA RequestsTyped ==
  ASSUME Lab!ConstantsFit, NEW q \in Lab!Requests
  PROVE  q.id \in Lab!Ids /\ q # Lab!NoRequest
<1>1. CASE q \in Presses BY <1>1 DEF Lab!ConstantsFit, Lab!Ids, Lab!NoRequest
<1>2. CASE q \in [id : Turns, action : {"restart"}, target : Containers]
  BY <1>2 DEF Lab!Ids, Lab!NoRequest
<1> QED BY <1>1, <1>2 DEF Lab!Requests

LEMMA TeamsRequestTyped ==
  ASSUME Lab!TypeOK, NEW t \in Turns, calls[t].at # "idle"
  PROVE  Lab!TeamsRequest(t) \in Lab!Requests /\ Lab!TeamsRequest(t).id = t
  BY DEF Lab!TypeOK, Lab!TeamsRequest, Lab!Requests

LEMMA ReservesTyped ==
  ASSUME Lab!ConstantsFit, Lab!TypeOK, NEW q \in Lab!Requests, Lab!Reserves(q)
  PROVE  /\ journal' \in [Lab!Ids -> [of : Lab!Requests \cup {Lab!NoRequest},
                                      state : {"none", "uncertain", "complete"}]]
         /\ doing' \in [of : Lab!Requests \cup {Lab!NoRequest},
                        step : {"free", "reserved", "accepted", "confirmed", "unconfirmed"}]
<1>1. q.id \in Lab!Ids BY RequestsTyped
<1> QED BY <1>1 DEF Lab!TypeOK, Lab!Reserves

CallTyped(c) ==
  /\ c \in [at   : {"idle", "asked", "fit", "taken", "acting", "over"},
            of   : Containers \cup {"none"},
            time : Nat,
            said : {"nothing", "refused", "restarted", "unsure"}]
  /\ c.at # "idle" => c.of \in Containers

\* A step that goes through the calls, and leaves each one a call could be.
LEMMA CallsTyped ==
  ASSUME NEW f, f = [t \in Turns |-> f[t]], \A t \in Turns : CallTyped(f[t])
  PROVE  /\ f \in [Turns -> [at   : {"idle", "asked", "fit", "taken", "acting", "over"},
                             of   : Containers \cup {"none"},
                             time : Nat,
                             said : {"nothing", "refused", "restarted", "unsure"}]]
         /\ \A t \in Turns : f[t].at # "idle" => f[t].of \in Containers
  BY DEF CallTyped

LEMMA AnsweredTyped ==
  ASSUME Lab!TypeOK, NEW t \in Turns, calls[t].at # "idle", NEW said \in {"refused", "unsure"},
         Lab!Answered(t, said), UNCHANGED <<time, ledger, journal, doing, late, done, took, deaths>>
  PROVE  Lab!TypeOK'
<1>1. ASSUME NEW u \in Turns PROVE CallTyped(calls'[u])
  <2>1. CallTyped(calls[u]) BY DEF Lab!TypeOK, CallTyped
  <2>2. calls'[u] = IF u = t THEN [calls[t] EXCEPT !.at = "over", !.said = said] ELSE calls[u]
    BY DEF Lab!Answered, Lab!TypeOK
  <2> QED BY <2>1, <2>2 DEF CallTyped
<1>2. calls' = [u \in Turns |-> calls'[u]] BY DEF Lab!Answered, Lab!TypeOK
<1> QED BY <1>1, <1>2, CallsTyped DEF Lab!TypeOK

LEMMA TypeInit == ASSUME Lab!ConstantsFit, Lab!Init PROVE Lab!TypeOK
  BY DEF Lab!ConstantsFit, Lab!Init, Lab!TypeOK, Lab!Idle

LEMMA TeamTyped ==
  ASSUME Lab!ConstantsFit, Lab!TypeOK, NEW t \in Turns, Lab!TeamSteps(t)
  PROVE  Lab!TypeOK'
<1>1. ASSUME NEW k \in Containers, Lab!Begins(t, k) PROVE Lab!TypeOK'
  BY <1>1 DEF Lab!Begins, Lab!TypeOK
<1>2. CASE Lab!LooksUnfit(t) BY <1>2, AnsweredTyped DEF Lab!LooksUnfit, Lab!Refused
<1>3. CASE Lab!LooksFit(t) BY <1>3 DEF Lab!LooksFit, Lab!TypeOK
<1>4. CASE Lab!Takes(t) BY <1>4 DEF Lab!Takes, Lab!TypeOK
<1>5. CASE Lab!TakesNone(t) BY <1>5, AnsweredTyped DEF Lab!TakesNone, Lab!Refused
<1>6. CASE Lab!TeamActs(t)
  <2>1. Lab!TeamsRequest(t) \in Lab!Requests BY <1>6, TeamsRequestTyped DEF Lab!TeamActs
  <2>2. Lab!Reserves(Lab!TeamsRequest(t)) BY <1>6 DEF Lab!TeamActs
  <2>3. ASSUME NEW u \in Turns PROVE CallTyped(calls'[u])
    <3>1. CallTyped(calls[u]) BY DEF Lab!TypeOK, CallTyped
    <3>2. calls'[u] = IF u = t THEN [calls[t] EXCEPT !.at = "acting"] ELSE calls[u]
      BY <1>6 DEF Lab!TeamActs, Lab!TypeOK
    <3> QED BY <1>6, <3>1, <3>2 DEF CallTyped, Lab!TeamActs
  <2>4. calls' = [u \in Turns |-> calls'[u]] BY <1>6 DEF Lab!TeamActs, Lab!TypeOK
  <2>5. UNCHANGED <<time, ledger, late, done, took, deaths>> BY <1>6 DEF Lab!TeamActs
  <2> QED BY <2>1, <2>2, <2>3, <2>4, <2>5, ReservesTyped, CallsTyped DEF Lab!TypeOK
<1>7. CASE Lab!TeamCannotAct(t) BY <1>7, AnsweredTyped DEF Lab!TeamCannotAct
<1> QED BY <1>1, <1>2, <1>3, <1>4, <1>5, <1>6, <1>7 DEF Lab!TeamSteps

LEMMA DoneTyped ==
  ASSUME Lab!ConstantsFit, Lab!TypeOK, NEW q \in Lab!Requests, Lab!Done(q)
  PROVE  done' \in [Lab!Ids -> Nat]
<1>1. q.id \in Lab!Ids BY RequestsTyped
<1> QED BY <1>1 DEF Lab!TypeOK, Lab!Done

\* How it went is written down.
LEMMA RecordsTyped ==
  ASSUME Lab!ConstantsFit, Lab!TypeOK, DoingIsJournaled, Lab!Records
  PROVE  Lab!TypeOK'
<1>1. doing.of \in Lab!Requests /\ doing.of.id \in Lab!Ids
  BY RequestsTyped DEF Lab!Records, DoingIsJournaled
<1>2. PICK written \in BOOLEAN :
       LET id == doing.of.id
           sure == written /\ doing.step = "confirmed" IN
       /\ journal' = [journal EXCEPT ![id].state = IF sure THEN "complete" ELSE @]
       /\ calls' = [t \in Turns |->
                    IF t = id /\ calls[t].at = "acting"
                      THEN [calls[t] EXCEPT !.at = "over",
                                           !.said = IF sure THEN "restarted" ELSE "unsure"]
                      ELSE calls[t]]
  BY DEF Lab!Records
<1>3. journal' \in [Lab!Ids -> [of : Lab!Requests \cup {Lab!NoRequest},
                                state : {"none", "uncertain", "complete"}]]
  <2> DEFINE new == IF written /\ doing.step = "confirmed" THEN "complete" ELSE journal[doing.of.id].state
  <2>1. journal' = [journal EXCEPT ![doing.of.id].state = new] BY <1>2
  <2>2. new \in {"none", "uncertain", "complete"} BY <1>1 DEF Lab!TypeOK
  <2> HIDE DEF new
  <2> QED BY <1>1, <2>1, <2>2 DEF Lab!TypeOK
<1>4. ASSUME NEW t \in Turns PROVE CallTyped(calls'[t])
  <2>1. CallTyped(calls[t]) BY DEF Lab!TypeOK, CallTyped
  <2>2. \/ calls'[t] = calls[t]
        \/ \E said \in {"restarted", "unsure"} :
             calls[t].at = "acting" /\ calls'[t] = [calls[t] EXCEPT !.at = "over", !.said = said]
    BY <1>2
  <2> QED BY <2>1, <2>2 DEF CallTyped
<1>5. calls' = [t \in Turns |-> calls'[t]] BY <1>2
<1>6. doing' \in [of : Lab!Requests \cup {Lab!NoRequest},
                 step : {"free", "reserved", "accepted", "confirmed", "unconfirmed"}]
  BY DEF Lab!Records, Lab!Idle
<1> QED BY <1>3, <1>4, <1>5, <1>6, CallsTyped DEF Lab!Records, Lab!TypeOK

LEMMA CrashTyped == ASSUME Lab!ConstantsFit, Lab!TypeOK, Lab!Crash PROVE Lab!TypeOK'
<1>1. calls' = [t \in Turns |-> IF calls[t].at \in {"idle", "over"} THEN calls[t]
                               ELSE [calls[t] EXCEPT !.at = "over", !.said = "nothing"]]
  BY DEF Lab!Crash
<1>2. ASSUME NEW t \in Turns PROVE CallTyped(calls'[t])
  <2>1. CallTyped(calls[t]) BY DEF Lab!TypeOK, CallTyped
  <2>2. calls'[t] = IF calls[t].at \in {"idle", "over"} THEN calls[t]
                   ELSE [calls[t] EXCEPT !.at = "over", !.said = "nothing"]
    BY <1>1
  <2> QED BY <2>1, <2>2 DEF CallTyped
<1>3. calls' = [t \in Turns |-> calls'[t]] BY <1>1
<1>4. doing' \in [of : Lab!Requests \cup {Lab!NoRequest},
                 step : {"free", "reserved", "accepted", "confirmed", "unconfirmed"}]
  BY DEF Lab!Crash, Lab!Idle
<1>5. deaths' \in Nat
  <2>1. deaths' = deaths + 1 BY DEF Lab!Crash
  <2>2. deaths \in Nat BY DEF Lab!TypeOK
  <2> QED BY <2>1, <2>2
<1>6. UNCHANGED <<time, ledger, journal, late, done, took>> BY DEF Lab!Crash
<1> QED BY <1>2, <1>3, <1>4, <1>5, <1>6, CallsTyped DEF Lab!TypeOK

LEMMA TypeStep ==
  ASSUME Lab!ConstantsFit, Lab!TypeOK, DoingIsJournaled, [Lab!Next]_(Lab!vars)
  PROVE  Lab!TypeOK'
<1>1. ASSUME NEW t \in Turns, Lab!TeamSteps(t) PROVE Lab!TypeOK' BY <1>1, TeamTyped
<1>2. ASSUME NEW p \in Presses, Lab!Press(p) PROVE Lab!TypeOK'
  <2>1. p \in Lab!Requests /\ Lab!Reserves(p) BY <1>2 DEF Lab!Press, Lab!Requests
  <2> QED BY <1>2, <2>1, ReservesTyped DEF Lab!Press, Lab!TypeOK
<1>3. CASE Lab!PortainerDoes
  <2>1. doing.of \in Lab!Requests /\ Lab!Done(doing.of)
    BY <1>3 DEF Lab!PortainerDoes, DoingIsJournaled
  <2> QED BY <1>3, <2>1, DoneTyped DEF Lab!PortainerDoes, Lab!TypeOK
<1>4. CASE Lab!PortainerRefuses BY <1>4 DEF Lab!PortainerRefuses, Lab!TypeOK
<1>5. CASE Lab!PortainerIsSlow
  <2>1. doing.of \in Lab!Requests BY <1>5 DEF Lab!PortainerIsSlow, DoingIsJournaled
  <2> QED BY <1>5, <2>1 DEF Lab!PortainerIsSlow, Lab!TypeOK
<1>6. ASSUME NEW q \in late, Lab!DoneLate(q) PROVE Lab!TypeOK'
  <2>1. q \in Lab!Requests /\ Lab!Done(q) BY <1>6 DEF Lab!TypeOK, Lab!DoneLate
  <2> QED BY <1>6, <2>1, DoneTyped DEF Lab!DoneLate, Lab!TypeOK
<1>7. CASE Lab!ReadsBack BY <1>7 DEF Lab!ReadsBack, Lab!TypeOK
<1>8. CASE Lab!Records BY <1>8, RecordsTyped
<1>9. CASE Lab!Tick BY <1>9 DEF Lab!Tick, Lab!TypeOK
<1>10. CASE Lab!Crash BY <1>10, CrashTyped
<1>11. CASE UNCHANGED Lab!vars BY <1>11 DEF Lab!vars, Lab!TypeOK
<1> QED BY <1>1, <1>2, <1>3, <1>4, <1>5, <1>6, <1>7, <1>8, <1>9, <1>10, <1>11 DEF Lab!Next

---------------------------------------------------------------------------
(* The journal.                                                            *)

LEMMA JournalInit == ASSUME Lab!ConstantsFit, Lab!Init PROVE Journaled
<1>1. \A i \in Lab!Ids : journal[i].of = Lab!NoRequest /\ journal[i].state = "none" /\ done[i] = 0
  BY DEF Lab!Init
<1>2. Turns \subseteq Lab!Ids BY DEF Lab!Ids
<1> QED BY <1>1, <1>2 DEF Lab!Init, Journaled, DoingIsJournaled, LateIsJournaled, TeamsAreTaken,
                         Lab!DoneAsRecorded, Lab!Idle

\* A step that leaves journal, console and Portainer alone, and says of no call that it
\* restarted, disturbs nothing.
LEMMA JournalApart ==
  ASSUME Lab!ConstantsFit, Lab!TypeOK, Journaled, UNCHANGED <<journal, doing, late, done>>,
         took \subseteq took',
         \A t \in Turns : calls'[t].said = "restarted" => calls[t].said = "restarted"
  PROVE  Journaled'
  BY DEF Journaled, DoingIsJournaled, LateIsJournaled, TeamsAreTaken, Lab!DoneAsRecorded

\* A request is written down: its id was not, so nothing of it is late, or done.
LEMMA JournalReserves ==
  ASSUME Lab!ConstantsFit, Lab!TypeOK, Journaled, NEW q \in Lab!Requests, Lab!Reserves(q),
         UNCHANGED <<late, done, took>>, q.id \in Turns => q.id \in took,
         \A t \in Turns : calls'[t].said = "restarted" => calls[t].said = "restarted"
  PROVE  Journaled'
<1>1. q.id \in Lab!Ids /\ q # Lab!NoRequest BY RequestsTyped
<1>2. journal[q.id].of = Lab!NoRequest BY DEF Lab!Reserves, Lab!Found
<1>3. done[q.id] = 0 BY <1>1, <1>2 DEF Journaled, Lab!DoneAsRecorded
<1>4. /\ journal'[q.id] = [of |-> q, state |-> "uncertain"]
      /\ \A i \in Lab!Ids : i # q.id => journal'[i] = journal[i]
  BY <1>1 DEF Lab!Reserves, Lab!TypeOK
<1>5. \A r \in late : r.id \in Lab!Ids /\ r # Lab!NoRequest /\ journal[r.id].of = r
  BY RequestsTyped DEF Journaled, LateIsJournaled, Lab!TypeOK
<1>6. \A r \in late : r.id # q.id BY <1>2, <1>5
<1>7. q \notin late BY <1>6
<1>8. DoingIsJournaled' BY <1>1, <1>3, <1>4, <1>7 DEF DoingIsJournaled, Lab!Reserves
<1>9. LateIsJournaled' BY <1>4, <1>5, <1>6 DEF Journaled, LateIsJournaled
<1>10. TeamsAreTaken'
  <2>1. Turns \subseteq Lab!Ids BY DEF Lab!Ids
  <2> QED BY <1>4, <2>1 DEF Journaled, TeamsAreTaken
<1>11. Lab!DoneAsRecorded' BY <1>1, <1>2, <1>3, <1>4 DEF Journaled, Lab!DoneAsRecorded
<1> QED BY <1>8, <1>9, <1>10, <1>11 DEF Journaled

\* Portainer does what was written down and not yet done.
LEMMA JournalDoes ==
  ASSUME Lab!ConstantsFit, Lab!TypeOK, Journaled, NEW q \in Lab!Requests, Lab!Done(q),
         journal[q.id].of = q, done[q.id] = 0
  PROVE  /\ done'[q.id] = 1 /\ \A i \in Lab!Ids : i # q.id => done'[i] = done[i]
         /\ UNCHANGED <<journal, took>>
            /\ (\A t \in Turns : calls'[t].said = "restarted" => calls[t].said = "restarted")
            => Lab!DoneAsRecorded'
<1>1. q.id \in Lab!Ids /\ q # Lab!NoRequest BY RequestsTyped
<1>2. done'[q.id] = 1 /\ \A i \in Lab!Ids : i # q.id => done'[i] = done[i]
  BY <1>1 DEF Lab!Done, Lab!TypeOK
<1>3. ASSUME UNCHANGED <<journal, took>>,
             \A t \in Turns : calls'[t].said = "restarted" => calls[t].said = "restarted"
      PROVE  Lab!DoneAsRecorded'
  <2>1. ASSUME NEW i \in Lab!Ids
        PROVE  /\ done'[i] <= 1
               /\ journal'[i].state = "complete" => done'[i] = 1
               /\ journal'[i].of = Lab!NoRequest => done'[i] = 0
    BY <1>1, <1>2, <1>3 DEF Journaled, Lab!DoneAsRecorded
  <2>2. ASSUME NEW t \in Turns
        PROVE  /\ calls'[t].said = "restarted" => done'[t] = 1
               /\ done'[t] > 0 => t \in took'
    <3>1. t \in Lab!Ids BY DEF Lab!Ids
    <3>2. t = q.id => t \in took BY <1>1 DEF Journaled, TeamsAreTaken
    <3> QED BY <1>2, <1>3, <3>1, <3>2 DEF Journaled, Lab!DoneAsRecorded
  <2> QED BY <2>1, <2>2 DEF Lab!DoneAsRecorded
<1> QED BY <1>2, <1>3

LEMMA JournalRecords == ASSUME Lab!ConstantsFit, Lab!TypeOK, Journaled, Lab!Records PROVE Journaled'
<1>1. doing.of \in Lab!Requests /\ doing.of.id \in Lab!Ids /\ journal[doing.of.id].of = doing.of
  BY RequestsTyped DEF Lab!Records, Journaled, DoingIsJournaled
<1>2. PICK written \in BOOLEAN :
       LET id == doing.of.id
           sure == written /\ doing.step = "confirmed" IN
       /\ journal' = [journal EXCEPT ![id].state = IF sure THEN "complete" ELSE @]
       /\ calls' = [t \in Turns |->
                    IF t = id /\ calls[t].at = "acting"
                      THEN [calls[t] EXCEPT !.at = "over",
                                           !.said = IF sure THEN "restarted" ELSE "unsure"]
                      ELSE calls[t]]
  BY DEF Lab!Records
<1> DEFINE id == doing.of.id
           sure == written /\ doing.step = "confirmed"
<1>3. /\ \A i \in Lab!Ids : journal'[i].of = journal[i].of
      /\ \A i \in Lab!Ids : journal'[i].state = "complete" =>
           journal[i].state = "complete" \/ (i = id /\ sure)
  BY <1>1, <1>2 DEF Lab!TypeOK
<1>4. sure => done[id] = 1 BY DEF Journaled, DoingIsJournaled
<1>5. ASSUME NEW t \in Turns, calls'[t].said = "restarted"
      PROVE  calls[t].said = "restarted" \/ (t = id /\ sure)
  BY <1>2, <1>5 DEF Lab!TypeOK
<1> HIDE DEF id, sure
<1>6. UNCHANGED <<late, done, took>> /\ doing'.step = "free" BY DEF Lab!Records, Lab!Idle
<1>7. Turns \subseteq Lab!Ids BY DEF Lab!Ids
<1>8. DoingIsJournaled' BY <1>6 DEF DoingIsJournaled
<1>9. LateIsJournaled'
  <2>1. \A q \in late : q.id \in Lab!Ids BY RequestsTyped DEF Lab!TypeOK
  <2> QED BY <1>3, <1>6, <2>1 DEF Journaled, LateIsJournaled
<1>10. TeamsAreTaken' BY <1>3, <1>6, <1>7 DEF Journaled, TeamsAreTaken
<1>11. Lab!DoneAsRecorded'
  <2>1. \A i \in Lab!Ids : /\ done'[i] <= 1
                           /\ journal'[i].state = "complete" => done'[i] = 1
                           /\ journal'[i].of = Lab!NoRequest => done'[i] = 0
    BY <1>3, <1>4, <1>6 DEF Journaled, Lab!DoneAsRecorded
  <2>2. \A t \in Turns : /\ calls'[t].said = "restarted" => done'[t] = 1
                         /\ done'[t] > 0 => t \in took'
    BY <1>4, <1>5, <1>6 DEF Journaled, Lab!DoneAsRecorded
  <2> QED BY <2>1, <2>2 DEF Lab!DoneAsRecorded
<1> QED BY <1>8, <1>9, <1>10, <1>11 DEF Journaled

LEMMA JournalTeam ==
  ASSUME Lab!ConstantsFit, Lab!TypeOK, TakenOnce, Journaled, NEW t \in Turns, Lab!TeamSteps(t)
  PROVE  Journaled'
<1>1. ASSUME NEW k \in Containers, Lab!Begins(t, k) PROVE Journaled'
  BY <1>1, JournalApart DEF Lab!Begins, Lab!TypeOK
<1>2. CASE Lab!LooksUnfit(t)
  BY <1>2, JournalApart DEF Lab!LooksUnfit, Lab!Refused, Lab!Answered, Lab!TypeOK
<1>3. CASE Lab!LooksFit(t) BY <1>3, JournalApart DEF Lab!LooksFit, Lab!TypeOK
<1>4. CASE Lab!Takes(t) BY <1>4, JournalApart DEF Lab!Takes, Lab!TypeOK
<1>5. CASE Lab!TakesNone(t)
  BY <1>5, JournalApart DEF Lab!TakesNone, Lab!Refused, Lab!Answered, Lab!TypeOK
<1>6. CASE Lab!TeamActs(t)
  <2>1. Lab!TeamsRequest(t) \in Lab!Requests /\ Lab!TeamsRequest(t).id = t
    BY <1>6, TeamsRequestTyped DEF Lab!TeamActs
  <2>2. t \in took BY <1>6 DEF Lab!TeamActs, TakenOnce
  <2>3. \A u \in Turns : calls'[u].said = calls[u].said BY <1>6 DEF Lab!TeamActs, Lab!TypeOK
  <2> QED BY <1>6, <2>1, <2>2, <2>3, JournalReserves DEF Lab!TeamActs
<1>7. CASE Lab!TeamCannotAct(t)
  BY <1>7, JournalApart DEF Lab!TeamCannotAct, Lab!Answered, Lab!TypeOK
<1> QED BY <1>1, <1>2, <1>3, <1>4, <1>5, <1>6, <1>7 DEF Lab!TeamSteps

LEMMA JournalStep ==
  ASSUME Lab!ConstantsFit, Lab!TypeOK, TakenOnce, Journaled, [Lab!Next]_(Lab!vars)
  PROVE  Journaled'
<1>1. ASSUME NEW t \in Turns, Lab!TeamSteps(t) PROVE Journaled' BY <1>1, JournalTeam
<1>2. ASSUME NEW p \in Presses, Lab!Press(p) PROVE Journaled'
  <2>1. p \in Lab!Requests /\ p.id \notin Turns BY DEF Lab!Requests, Lab!ConstantsFit
  <2> QED BY <1>2, <2>1, JournalReserves DEF Lab!Press
<1>3. CASE Lab!PortainerDoes
  <2> DEFINE q == doing.of
  <2>1. /\ q \in Lab!Requests /\ q.id \in Lab!Ids /\ journal[q.id].of = q
        /\ done[q.id] = 0 /\ q \notin late
    BY <1>3, RequestsTyped DEF Lab!PortainerDoes, Journaled, DoingIsJournaled
  <2>2. Lab!Done(q) /\ UNCHANGED <<journal, took, calls, late>> /\ doing' = [doing EXCEPT !.step = "accepted"]
    BY <1>3 DEF Lab!PortainerDoes
  <2>3. done'[q.id] = 1 /\ (\A i \in Lab!Ids : i # q.id => done'[i] = done[i]) /\ Lab!DoneAsRecorded'
    BY <2>1, <2>2, JournalDoes
  <2>4. DoingIsJournaled' BY <2>1, <2>2, <2>3 DEF DoingIsJournaled, Lab!TypeOK
  <2>5. LateIsJournaled'
    <3>1. \A r \in late : r.id \in Lab!Ids /\ journal[r.id].of = r
      BY RequestsTyped DEF Lab!TypeOK, Journaled, LateIsJournaled
    <3>2. \A r \in late : r.id # q.id BY <2>1, <3>1
    <3> QED BY <2>2, <2>3, <3>1, <3>2 DEF Journaled, LateIsJournaled
  <2>6. TeamsAreTaken' BY <2>2 DEF Journaled, TeamsAreTaken
  <2> QED BY <2>3, <2>4, <2>5, <2>6 DEF Journaled
<1>4. CASE Lab!PortainerRefuses
  BY <1>4 DEF Lab!PortainerRefuses, Journaled, DoingIsJournaled, LateIsJournaled, TeamsAreTaken,
              Lab!DoneAsRecorded, Lab!TypeOK
<1>5. CASE Lab!PortainerIsSlow
  <2>1. /\ UNCHANGED <<journal, took, calls, done>> /\ late' = late \cup {doing.of}
        /\ doing' = [doing EXCEPT !.step = "unconfirmed"]
        /\ journal[doing.of.id].of = doing.of /\ done[doing.of.id] = 0 /\ doing.of \in Lab!Requests
    BY <1>5 DEF Lab!PortainerIsSlow, Journaled, DoingIsJournaled
  <2>2. DoingIsJournaled' BY <2>1 DEF DoingIsJournaled, Lab!TypeOK
  <2>3. LateIsJournaled' BY <2>1 DEF Journaled, LateIsJournaled
  <2> QED BY <2>1, <2>2, <2>3 DEF Journaled, TeamsAreTaken, Lab!DoneAsRecorded
<1>6. ASSUME NEW q \in late, Lab!DoneLate(q) PROVE Journaled'
  <2>1. q \in Lab!Requests /\ q.id \in Lab!Ids /\ journal[q.id].of = q /\ done[q.id] = 0
    BY RequestsTyped DEF Lab!TypeOK, Journaled, LateIsJournaled
  <2>2. Lab!Done(q) /\ UNCHANGED <<journal, took, calls, doing>> /\ late' = late \ {q}
    BY <1>6 DEF Lab!DoneLate
  <2>3. done'[q.id] = 1 /\ (\A i \in Lab!Ids : i # q.id => done'[i] = done[i]) /\ Lab!DoneAsRecorded'
    BY <2>1, <2>2, JournalDoes
  <2>4. DoingIsJournaled'
    <3>1. CASE doing.step = "free" BY <2>2, <3>1 DEF DoingIsJournaled
    <3>2. CASE doing.step # "free"
      <4>1. doing.of \in Lab!Requests /\ doing.of.id \in Lab!Ids /\ journal[doing.of.id].of = doing.of
        BY <3>2, RequestsTyped DEF Journaled, DoingIsJournaled
      <4>2. CASE doing.of.id = q.id
        <5>1. doing.of = q BY <2>1, <4>1, <4>2
        <5>2. doing.step \notin {"reserved", "accepted", "confirmed"}
          BY <2>1, <3>2, <5>1 DEF Journaled, DoingIsJournaled
        <5> QED BY <2>2, <4>1, <5>2 DEF DoingIsJournaled
      <4>3. CASE doing.of.id # q.id
        BY <2>2, <2>3, <4>1, <4>3 DEF Journaled, DoingIsJournaled
      <4> QED BY <4>2, <4>3
    <3> QED BY <3>1, <3>2
  <2>5. LateIsJournaled'
    <3>1. \A r \in late : r.id \in Lab!Ids /\ journal[r.id].of = r
      BY RequestsTyped DEF Lab!TypeOK, Journaled, LateIsJournaled
    <3>2. \A r \in late : r # q => r.id # q.id BY <2>1, <3>1
    <3> QED BY <2>2, <2>3, <3>1, <3>2 DEF Journaled, LateIsJournaled
  <2>6. TeamsAreTaken' BY <2>2 DEF Journaled, TeamsAreTaken
  <2> QED BY <2>3, <2>4, <2>5, <2>6 DEF Journaled
<1>7. CASE Lab!ReadsBack
  BY <1>7 DEF Lab!ReadsBack, Journaled, DoingIsJournaled, LateIsJournaled, TeamsAreTaken,
              Lab!DoneAsRecorded, Lab!TypeOK
<1>8. CASE Lab!Records BY <1>8, JournalRecords
<1>9. CASE Lab!Tick BY <1>9, JournalApart DEF Lab!Tick
<1>10. CASE Lab!Crash
  <2>1. \A t \in Turns : calls'[t].said = "restarted" => calls[t].said = "restarted"
    BY <1>10 DEF Lab!Crash, Lab!TypeOK
  <2> QED BY <1>10, <2>1 DEF Lab!Crash, Lab!Idle, Journaled, DoingIsJournaled, LateIsJournaled,
                             TeamsAreTaken, Lab!DoneAsRecorded
<1>11. CASE UNCHANGED Lab!vars BY <1>11, JournalApart DEF Lab!vars
<1> QED BY <1>1, <1>2, <1>3, <1>4, <1>5, <1>6, <1>7, <1>8, <1>9, <1>10, <1>11 DEF Lab!Next

---------------------------------------------------------------------------
(* The hour's few.                                                         *)

LEMMA CountInit == ASSUME Lab!ConstantsFit, Lab!Init PROVE Counted
<1>1. \A t \in Turns : calls[t].time = 0 /\ calls[t].at = "idle" BY DEF Lab!Init
<1> QED
  BY <1>1 DEF Lab!Init, Counted, Clocked, TakenOnce, OldThrownAway, Lab!LimitsKept, Lab!Looking

\* Calls that took a restart keep the time they asked at, and what of.
Settled == /\ UNCHANGED <<ledger, took>> /\ time <= time'
           /\ \A t \in took : calls'[t].time = calls[t].time /\ calls'[t].of = calls[t].of

LEMMA CountSettled ==
  ASSUME Lab!ConstantsFit, Lab!TypeOK, Counted, Settled, time' \in Nat
  PROVE  OldThrownAway' /\ Lab!LimitsKept'
<1>1. OldThrownAway'
  <2>1. SUFFICES ASSUME NEW t \in took \ ledger PROVE calls[t].time + Day < time'
    BY DEF Settled, OldThrownAway
  <2>2. calls[t].time + Day < time BY DEF Counted, OldThrownAway
  <2>3. calls[t].time \in Nat /\ time \in Nat /\ Day \in Nat BY DEF Lab!TypeOK, Lab!ConstantsFit
  <2> QED BY <2>2, <2>3 DEF Settled
<1>2. \A t \in took : {u \in took : calls[u].time - calls[t].time \in 0..(Hour - 1)}
                    = {u \in took : calls'[u].time - calls'[t].time \in 0..(Hour - 1)}
  BY DEF Settled
<1>3. Lab!LimitsKept' BY <1>2 DEF Counted, Lab!LimitsKept, Settled
<1> QED BY <1>1, <1>3

\* A call that takes a restart finds every one taken within the hour before it, or after it.
LEMMA LooksAtAll ==
  ASSUME Lab!ConstantsFit, Lab!TypeOK, Counted, NEW t \in Turns, calls[t].at = "fit",
         NEW u \in took, calls[t].time - calls[u].time < Hour
  PROVE  u \in Lab!Recent(calls[t].time)
<1>1. /\ calls[t].time \in Nat /\ calls[u].time \in Nat /\ time \in Nat
  BY DEF Lab!TypeOK
<1>2. time - calls[t].time <= Slow BY DEF Counted, Clocked, Lab!Looking
<1>3. u \notin ledger => calls[u].time + Day < time BY DEF Counted, OldThrownAway
<1>4. Slow + Hour <= Day /\ Slow \in Nat /\ Hour \in Nat /\ Day \in Nat BY DEF Lab!ConstantsFit
<1> QED BY <1>1, <1>2, <1>3, <1>4 DEF Lab!Recent

LEMMA TakingKeepsApart ==
  ASSUME Lab!ConstantsFit, Lab!TypeOK, Counted, NEW t \in Turns, calls[t].at = "fit",
         Lab!MayRestart(calls[t].of, calls[t].time),
         NEW u \in took, calls[u].of = calls[t].of
  PROVE  /\ calls[t].time - calls[u].time \notin (1 - Hour)..(Hour - 1)
         /\ calls[u].time - calls[t].time \notin (1 - Hour)..(Hour - 1)
<1>1. u \notin Lab!Recent(calls[t].time) BY DEF Lab!MayRestart
<1>2. ~(calls[t].time - calls[u].time < Hour) BY <1>1, LooksAtAll
<1>3. calls[t].time \in Nat /\ calls[u].time \in Nat /\ Hour \in Nat
  BY DEF Lab!TypeOK, Lab!ConstantsFit
<1> QED BY <1>2, <1>3

LEMMA TakingKeepsCount ==
  ASSUME Lab!ConstantsFit, Lab!TypeOK, Counted, NEW t \in Turns, calls[t].at = "fit",
         Lab!MayRestart(calls[t].of, calls[t].time), NEW x \in took \cup {t}
  PROVE  Cardinality({u \in took \cup {t} : calls[u].time - calls[x].time \in 0..(Hour - 1)}) <= AnHour
<1> DEFINE W(s) == {u \in s : calls[u].time - calls[x].time \in 0..(Hour - 1)}
           R == Lab!Recent(calls[t].time)
<1>1. /\ IsFiniteSet(took) /\ IsFiniteSet(ledger) /\ AnHour \in Nat /\ Hour \in Nat \ {0}
  BY FS_Subset, LabCounts DEF Lab!TypeOK, Lab!ConstantsFit
<1>2. IsFiniteSet(R) BY <1>1, FS_Subset DEF Lab!Recent
<1>3. Cardinality(R) \in Nat /\ Cardinality(R) < AnHour
  BY <1>2, FS_CardinalityType, LabCounts DEF Lab!MayRestart
<1>4. \A u \in took \cup {t} : calls[u].time \in Nat BY DEF Lab!TypeOK
<1>5. CASE t \in W(took \cup {t})
  <2>1. W(took \cup {t}) \subseteq R \cup {t}
    <3>1. ASSUME NEW u \in took, calls[u].time - calls[x].time \in 0..(Hour - 1)
          PROVE  u \in R
      <4>1. calls[t].time - calls[u].time < Hour BY <1>1, <1>4, <1>5, <3>1
      <4> QED BY <4>1, LooksAtAll
    <3> QED BY <3>1
  <2>2. IsFiniteSet(R \cup {t}) /\ Cardinality(R \cup {t}) <= Cardinality(R) + 1
    <3> HIDE DEF R, W
    <3>1. /\ IsFiniteSet(R \cup {t})
          /\ Cardinality(R \cup {t}) = IF t \in R THEN Cardinality(R) ELSE Cardinality(R) + 1
      BY <1>2, FS_AddElement
    <3> QED BY <1>3, <3>1
  <2>3. Cardinality(W(took \cup {t})) <= Cardinality(R \cup {t})
    BY <2>1, <2>2, FS_Subset
  <2>4. Cardinality(R \cup {t}) \in Nat /\ Cardinality(W(took \cup {t})) \in Nat
    BY <2>1, <2>2, FS_Subset, FS_CardinalityType
  <2> QED BY <1>1, <1>3, <2>2, <2>3, <2>4
<1>6. CASE t \notin W(took \cup {t})
  <2>1. x # t BY <1>1, <1>4, <1>6
  <2>2. W(took \cup {t}) = W(took) BY <1>6
  <2>3. Lab!Cardinality(W(took)) <= AnHour BY <2>1 DEF Counted, Lab!LimitsKept
  <2> QED BY <2>2, <2>3, LabCounts
<1> QED BY <1>5, <1>6

LEMMA CountTakes ==
  ASSUME Lab!ConstantsFit, Lab!TypeOK, Counted, NEW t \in Turns, Lab!Takes(t)
  PROVE  Counted'
<1>1. /\ calls[t].at = "fit" /\ Lab!MayRestart(calls[t].of, calls[t].time)
      /\ took' = took \cup {t} /\ time' = time
      /\ ledger' = {u \in ledger \cup {t} : calls[u].time >= calls[t].time - Day}
  BY DEF Lab!Takes
<1>2. \A u \in Turns : /\ calls'[u].time = calls[u].time /\ calls'[u].of = calls[u].of
                       /\ calls'[u].at = IF u = t THEN "taken" ELSE calls[u].at
  BY DEF Lab!Takes, Lab!TypeOK
<1>3. took \subseteq Turns /\ t \notin took BY <1>1 DEF Lab!TypeOK, Counted, TakenOnce
<1>4. Clocked' BY <1>1, <1>2 DEF Counted, Clocked, Lab!Looking
<1>5. TakenOnce' BY <1>1, <1>2 DEF Counted, TakenOnce
<1>6. OldThrownAway'
  <2>1. SUFFICES ASSUME NEW u \in took' \ ledger' PROVE calls[u].time + Day < time
    BY <1>1, <1>2, <1>3 DEF OldThrownAway
  <2>2. calls[t].time <= time /\ calls[t].time \in Nat /\ time \in Nat /\ Day \in Nat
    BY DEF Counted, Clocked, Lab!TypeOK, Lab!ConstantsFit
  <2>3. u # t BY <1>1, <2>2
  <2>4. CASE u \in ledger
    <3>1. calls[u].time \in Nat /\ ~(calls[u].time >= calls[t].time - Day)
      BY <1>1, <2>4 DEF Lab!TypeOK
    <3> QED BY <2>2, <3>1
  <2>5. CASE u \notin ledger BY <1>1, <2>3, <2>5 DEF Counted, OldThrownAway
  <2> QED BY <2>4, <2>5
<1>7. Lab!LimitsKept'
  <2>1. ASSUME NEW x \in took', NEW u \in took', x # u, calls[x].of = calls[u].of
        PROVE  calls[x].time - calls[u].time \notin (1 - Hour)..(Hour - 1)
    <3>1. CASE x = t BY <1>1, <2>1, <3>1, TakingKeepsApart
    <3>2. CASE u = t BY <1>1, <2>1, <3>2, TakingKeepsApart
    <3>3. CASE x # t /\ u # t BY <1>1, <2>1, <3>3 DEF Counted, Lab!LimitsKept
    <3> QED BY <3>1, <3>2, <3>3
  <2>2. ASSUME NEW x \in took'
        PROVE  Cardinality({u \in took' : calls'[u].time - calls'[x].time \in 0..(Hour - 1)}) <= AnHour
    <3>1. {u \in took' : calls'[u].time - calls'[x].time \in 0..(Hour - 1)}
        = {u \in took \cup {t} : calls[u].time - calls[x].time \in 0..(Hour - 1)}
      BY <1>1, <1>2, <1>3, <2>2
    <3> QED BY <1>1, <2>2, <3>1, TakingKeepsCount
  <2>3. \A u \in took' : calls'[u].time = calls[u].time /\ calls'[u].of = calls[u].of
    BY <1>1, <1>2, <1>3
  <2> QED BY <2>1, <2>2, <2>3, LabCounts DEF Lab!LimitsKept
<1> QED BY <1>4, <1>5, <1>6, <1>7 DEF Counted

LEMMA CountStep ==
  ASSUME Lab!ConstantsFit, Lab!TypeOK, Lab!TypeOK', Counted, [Lab!Next]_(Lab!vars)
  PROVE  Counted'
<1>1. ASSUME Clocked', TakenOnce', Settled PROVE Counted'
  <2>1. time' \in Nat BY DEF Lab!TypeOK
  <2> QED BY <1>1, <2>1, CountSettled DEF Counted
<1>2. ASSUME NEW t \in Turns, Lab!TeamSteps(t) PROVE Counted'
  <2>1. ASSUME NEW k \in Containers, Lab!Begins(t, k) PROVE Counted'
    <3>1. \A u \in Turns : u # t => calls'[u] = calls[u] BY <2>1 DEF Lab!Begins, Lab!TypeOK
    <3>2. calls'[t].at = "asked" /\ calls'[t].time = time /\ calls[t].at = "idle" /\ time' = time
          /\ UNCHANGED <<ledger, took>>
      BY <2>1 DEF Lab!Begins, Lab!TypeOK
    <3>3. t \notin took BY <3>2 DEF Counted, TakenOnce
    <3>4. Clocked' BY <3>1, <3>2 DEF Counted, Clocked, Lab!Looking, Lab!TypeOK, Lab!ConstantsFit
    <3>5. TakenOnce' BY <3>1, <3>2, <3>3 DEF Counted, TakenOnce
    <3>6. Settled BY <3>1, <3>2, <3>3 DEF Settled, Lab!TypeOK
    <3> QED BY <1>1, <3>4, <3>5, <3>6
  <2>2. ASSUME UNCHANGED <<time, ledger, took>>,
               \A u \in Turns : calls'[u].time = calls[u].time /\ calls'[u].of = calls[u].of,
               \A u \in Turns : \/ calls'[u].at = calls[u].at
                                \/ calls'[u].at = "over"
                                \/ calls[u].at = "asked" /\ calls'[u].at = "fit"
                                \/ calls[u].at = "taken" /\ calls'[u].at = "acting"
        PROVE  Counted'
    <3>1. Clocked' BY <2>2 DEF Counted, Clocked, Lab!Looking
    <3>2. TakenOnce' BY <2>2 DEF Counted, TakenOnce
    <3>3. Settled BY <2>2 DEF Settled, Lab!TypeOK
    <3> QED BY <1>1, <3>1, <3>2, <3>3
  <2>3. CASE Lab!LooksUnfit(t)
    BY <2>2, <2>3 DEF Lab!LooksUnfit, Lab!Refused, Lab!Answered, Lab!TypeOK
  <2>4. CASE Lab!LooksFit(t) BY <2>2, <2>4 DEF Lab!LooksFit, Lab!TypeOK
  <2>5. CASE Lab!Takes(t) BY <2>5, CountTakes
  <2>6. CASE Lab!TakesNone(t) BY <2>2, <2>6 DEF Lab!TakesNone, Lab!Refused, Lab!Answered, Lab!TypeOK
  <2>7. CASE Lab!TeamActs(t) BY <2>2, <2>7 DEF Lab!TeamActs, Lab!TypeOK
  <2>8. CASE Lab!TeamCannotAct(t) BY <2>2, <2>8 DEF Lab!TeamCannotAct, Lab!Answered, Lab!TypeOK
  <2> QED BY <1>2, <2>1, <2>3, <2>4, <2>5, <2>6, <2>7, <2>8 DEF Lab!TeamSteps
<1>3. ASSUME UNCHANGED <<time, ledger, took>>,
             \A u \in Turns : calls'[u].time = calls[u].time /\ calls'[u].of = calls[u].of,
             \A u \in Turns : calls'[u].at = calls[u].at \/ (calls[u].at # "idle" /\ calls'[u].at = "over")
      PROVE  Counted'
  <2>1. Clocked' BY <1>3 DEF Counted, Clocked, Lab!Looking
  <2>2. TakenOnce' BY <1>3 DEF Counted, TakenOnce
  <2>3. Settled BY <1>3 DEF Settled, Lab!TypeOK
  <2> QED BY <1>1, <2>1, <2>2, <2>3
<1>4. ASSUME UNCHANGED <<time, ledger, took, calls>> PROVE Counted' BY <1>3, <1>4
<1>5. CASE Lab!Records
  <2>1. ASSUME NEW t \in Turns
        PROVE  /\ calls'[t].time = calls[t].time /\ calls'[t].of = calls[t].of
               /\ calls'[t].at = calls[t].at \/ (calls[t].at = "acting" /\ calls'[t].at = "over")
    <3>1. CallTyped(calls[t]) BY DEF Lab!TypeOK, CallTyped
    <3>2. \/ calls'[t] = calls[t]
          \/ \E said \in {"restarted", "unsure"} :
               calls[t].at = "acting" /\ calls'[t] = [calls[t] EXCEPT !.at = "over", !.said = said]
      BY <1>5 DEF Lab!Records
    <3> QED BY <3>1, <3>2 DEF CallTyped
  <2> QED BY <1>3, <1>5, <2>1 DEF Lab!Records
<1>6. CASE Lab!Crash
  <2>1. ASSUME NEW t \in Turns
        PROVE  /\ calls'[t].time = calls[t].time /\ calls'[t].of = calls[t].of
               /\ calls'[t].at = calls[t].at \/ (calls[t].at # "idle" /\ calls'[t].at = "over")
    <3>1. CallTyped(calls[t]) BY DEF Lab!TypeOK, CallTyped
    <3>2. calls'[t] = IF calls[t].at \in {"idle", "over"} THEN calls[t]
                     ELSE [calls[t] EXCEPT !.at = "over", !.said = "nothing"]
      BY <1>6 DEF Lab!Crash
    <3> QED BY <3>1, <3>2 DEF CallTyped
  <2> QED BY <1>3, <1>6, <2>1 DEF Lab!Crash
<1>7. CASE Lab!Tick
  <2>1. Clocked' BY <1>7 DEF Lab!Tick, Counted, Clocked, Lab!Looking, Lab!TypeOK, Lab!ConstantsFit
  <2>2. TakenOnce' BY <1>7 DEF Lab!Tick, Counted, TakenOnce
  <2>3. Settled BY <1>7 DEF Lab!Tick, Settled, Lab!TypeOK
  <2> QED BY <1>1, <2>1, <2>2, <2>3
<1>8. ASSUME NEW p \in Presses, Lab!Press(p) PROVE Counted' BY <1>4, <1>8 DEF Lab!Press
<1>9. CASE Lab!PortainerDoes \/ Lab!PortainerRefuses \/ Lab!PortainerIsSlow \/ Lab!ReadsBack
  BY <1>4, <1>9 DEF Lab!PortainerDoes, Lab!PortainerRefuses, Lab!PortainerIsSlow, Lab!ReadsBack
<1>10. ASSUME NEW q \in late, Lab!DoneLate(q) PROVE Counted' BY <1>4, <1>10 DEF Lab!DoneLate
<1>11. CASE UNCHANGED Lab!vars BY <1>4, <1>11 DEF Lab!vars
<1> QED BY <1>2, <1>5, <1>6, <1>7, <1>8, <1>9, <1>10, <1>11 DEF Lab!Next

---------------------------------------------------------------------------
(* The theorems.                                                           *)

LabInv == Lab!TypeOK /\ Counted /\ Journaled

LEMMA LabAlways == ASSUME Lab!ConstantsFit PROVE Lab!Spec => []LabInv
<1>1. Lab!Init => LabInv BY TypeInit, CountInit, JournalInit DEF LabInv
<1>2. LabInv /\ [Lab!Next]_(Lab!vars) => LabInv'
  <2> SUFFICES ASSUME LabInv, [Lab!Next]_(Lab!vars) PROVE LabInv' OBVIOUS
  <2>1. Lab!TypeOK' BY TypeStep DEF LabInv, Journaled
  <2>2. Counted' BY <2>1, CountStep DEF LabInv
  <2>3. Journaled' BY JournalStep DEF LabInv, Counted
  <2> QED BY <2>1, <2>2, <2>3 DEF LabInv
<1> QED BY <1>1, <1>2, PTL DEF Lab!Spec

\* No call, request or row is one the node could not hold, wherever it dies.
THEOREM RestartsTyped == ASSUME Lab!ConstantsFit PROVE Lab!Spec => []Lab!TypeOK
<1>1. LabInv => Lab!TypeOK BY DEF LabInv
<1> QED BY <1>1, LabAlways, PTL

\* The team restarts no container twice within an hour, and no more than its few within any, in
\* whatever order its calls look at the ledger (`restart_container`, `take`).
THEOREM TheTeamKeepsToItsFew == ASSUME Lab!ConstantsFit PROVE Lab!Spec => []Lab!LimitsKept
<1>1. LabInv => Lab!LimitsKept BY DEF LabInv, Counted
<1> QED BY <1>1, LabAlways, PTL

\* Nothing is done twice, without a record or without a restart taken, and what is said to be
\* done was (`Journal::run`).
THEOREM NothingIsDoneTwice == ASSUME Lab!ConstantsFit PROVE Lab!Spec => []Lab!DoneAsRecorded
<1>1. LabInv => Lab!DoneAsRecorded BY DEF LabInv, Journaled
<1> QED BY <1>1, LabAlways, PTL
=============================================================================
