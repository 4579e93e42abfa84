------------------------------- MODULE Worker -------------------------------
(***************************************************************************)
(* One turn, as the worker takes it (app/worker/src/turn.rs): it opens     *)
(* HQ's protocol, claims the task, and asks the model round after round,   *)
(* running the calls of each reply, until the model answers, one of its    *)
(* calls ends the turn, or the rounds or the prompt's budget run out.  On  *)
(* a house turn old results are read as stubs and long ones through a      *)
(* gist; a call asked again that comes to nothing new is not said again.   *)
(* HQ, the node and the relay may fail it anywhere.                        *)
(***************************************************************************)
EXTENDS Naturals, Sequences, FiniteSets, Functions

CONSTANTS
  Kinds,       \* the turns it may be: [house, sums, task, numbers]
  Replies,     \* the replies the model may make: sequences of calls, each a tool with its arguments
  Long,        \* those whose results are long
  Gisted,      \* those read through a gist, when long
  OnTheNode,   \* those the node answers, which may put them on the owner's desk
  Own,         \* those the worker runs itself: the shell, the checkout
  Words,       \* what a call may come to
  MostRounds, FreeRounds, KeepsWhole,
  Budget,      \* of what is read, in parts
  Weight       \* the parts of a long result; of anything else, 1

VARIABLES
  turn,      \* its kind
  at,        \* opening, asking, running, or how it ended
  asked,     \* the calls of the model's replies, in order
  results,   \* what they came to, as far as they ran
  cut,       \* the results read as stubs, by id
  gists,     \* the results read through a gist, by id
  last,      \* the call made last
  said,      \* what each call last said
  given,     \* what was asked for before the first round
  already,   \* all calls of the reply asked for tools it has
  later,     \* how many tools are still to be found
  read, round, free, replies,
  words,     \* its last words at HQ
  over       \* what ends it was sent to HQ, or came back

guard == <<last, said, given>>
count == <<read, round, free, replies>>
vars  == <<turn, at, asked, results, cut, gists, guard, already, later, count, words, over>>

NoCall == "none"
Tools == UNION {Range(reply) : reply \in Replies}
Ends(how) == at' = how
\* HQ, the node or the relay says the turn is over, or does not answer.
Stops == Ends("failed") \/ Ends("over")

---------------------------------------------------------------------------
(* The conversation as the model reads it.                                 *)

IsLong(r) == r.call \in Long /\ r.text \in Words
Whole(r)  == r.id \notin cut \cup gists
Body ==
  1 + replies + Len(results)
    + (Weight - 1) * Cardinality({n \in DOMAIN results : IsLong(results[n]) /\ Whole(results[n])})
HasRoom(calls, sofar, next) == calls = 0 \/ sofar + next <= Budget
MayAsk == HasRoom(round + free, IF turn.sums THEN read ELSE 0, Body)

\* A server may number its calls afresh each round, or give all of them one id; on a house turn
\* an id used already is given a number.
Given(calls) ==
  [n \in DOMAIN calls |->
    [call |-> calls[n], reply |-> replies + 1,
     by   |-> CASE turn.numbers = "own" -> <<replies, n>>
                [] turn.numbers = "afresh" -> <<0, n>>
                [] turn.numbers = "one" -> <<0, 0>>]]
Named(new, number(_)) ==
  [n \in DOMAIN new |->
    [call |-> new[n].call, reply |-> new[n].reply, by |-> new[n].by, id |-> <<new[n].by, number(n)>>]]
OwnIds(calls) ==
  LET new == Given(calls)
      earlier(n) == Cardinality({m \in DOMAIN asked : asked[m].by = new[n].by})
                    + Cardinality({m \in 1..(n - 1) : new[m].by = new[n].by}) IN
  Named(new, LAMBDA n : IF turn.house THEN earlier(n) ELSE 0)

\* On a house turn a reply cuts the results before it that are not among the newest, and what
\* their calls said is forgotten.  (Mutant: it is not.)
Newly ==
  IF turn.house
    THEN {n \in DOMAIN results : /\ n + KeepsWhole <= Len(results)
                                 /\ IsLong(results[n]) /\ results[n].id \notin cut}
    ELSE {}
ForgottenNever(news) == {}
Forgotten(news) == {results[n].call : n \in news}

Said(calls) ==
  /\ replies' = replies + 1
  /\ cut' = cut \cup {results[n].id : n \in Newly}
  /\ said' = [c \in DOMAIN said \ Forgotten(Newly) |-> said[c]]
  /\ last' = IF last \in Forgotten(Newly) THEN NoCall ELSE last

---------------------------------------------------------------------------
(* The opening: initialize, tools/list, the node's contracts, my_turn, and *)
(* the claim, which is asked for the model.                                *)

Open ==
  /\ at = "opening"
  /\ \/ Stops /\ UNCHANGED given
     \/ Ends("asking") /\ given' = IF turn.task THEN {"claim"} ELSE {}
  /\ UNCHANGED <<turn, asked, results, cut, gists, last, said, already, later, count, words, over>>

---------------------------------------------------------------------------
(* The last word, which HQ posts in the task's thread.                     *)

\* HQ takes it, refuses it, or is not reached, before or after it took it.
Posts(what, how) ==
  \/ ~turn.task /\ Ends(how) /\ UNCHANGED <<words, over>>
  \/ turn.task /\ words' = Append(words, what) /\ over' = TRUE /\ (Ends(how) \/ Stops)
  \/ turn.task /\ Stops /\ UNCHANGED <<words, over>>

\* The budget reached: what the sandbox holds is kept if it can be, and HQ goes on from there.
OutOfRoom ==
  /\ at = "asking" /\ round < MostRounds /\ ~MayAsk
  /\ Posts("continues", "out of room")
  /\ UNCHANGED <<turn, asked, results, cut, gists, guard, already, later, count>>

OutOfRounds ==
  /\ at = "asking" /\ round >= MostRounds
  /\ Posts("unfinished", "out of rounds")
  /\ UNCHANGED <<turn, asked, results, cut, gists, guard, already, later, count>>

---------------------------------------------------------------------------
(* The model is asked.                                                     *)

Asking ==
  /\ at = "asking" /\ round < MostRounds /\ MayAsk
  /\ read' = read + Body
  /\ UNCHANGED <<turn, gists, given, later, free>>

\* The relay fails it, or its reply was cut at the limit.
AskFails ==
  /\ Asking /\ Stops
  /\ UNCHANGED <<asked, results, cut, last, said, already, round, replies, words, over>>

\* It calls no tool: what it says, if anything, is the turn's last word.
Answers ==
  /\ Asking /\ Said(<<>>)
  /\ Posts("answer", "answered") \/ (Ends("answered") /\ UNCHANGED <<words, over>>)
  /\ UNCHANGED <<asked, results, already, round>>

\* Known to end the turn before it runs.
EndsTheTurn(call) == call = "ask_owner" \/ (call = "set_status" /\ turn.task)

\* A reply with such a call that is not its only one and its last runs nothing.  (Mutant: it
\* runs, up to that call.)
EndingUnseen(calls) == FALSE
TurnEndingNotLast(calls) == \E n \in DOMAIN calls : EndsTheTurn(calls[n]) /\ n < Len(calls)

CallsTools ==
  /\ Asking
  /\ \E calls \in Replies :
       /\ Said(calls)
       /\ asked' = asked \o OwnIds(calls)
       /\ IF TurnEndingNotLast(calls)
          THEN /\ results' = results \o [n \in DOMAIN calls |->
                    [id |-> OwnIds(calls)[n].id, call |-> calls[n], text |-> "nothing ran"]]
               /\ round' = round + 1 /\ UNCHANGED <<at, already>>
          ELSE /\ at' = "running" /\ already' = TRUE
               /\ UNCHANGED <<results, round>>
  /\ UNCHANGED <<words, over>>

---------------------------------------------------------------------------
(* Its calls run, one after another.                                       *)

Call == asked[Len(results) + 1]
Comes(text) == results' = Append(results, [id |-> Call.id, call |-> Call.call, text |-> text])

\* On to the reply's next call, or to the next round: free when all asked for tools it has.
More == Len(results) + 1 < Len(asked)
GoesOn(yours) ==
  /\ already' = (already /\ yours)
  /\ IF More THEN UNCHANGED <<at, round, free>>
     ELSE /\ at' = "asking"
          /\ IF already /\ yours /\ free < FreeRounds
               THEN free' = free + 1 /\ UNCHANGED round
               ELSE round' = round + 1 /\ UNCHANGED free
\* A call that ends the turn ends it there.  (Mutant: once the reply's others have run.)
EndsAfterAll(how) == (IF More THEN UNCHANGED at ELSE Ends(how)) /\ UNCHANGED <<already, round, free>>
EndsThere(how) == Ends(how) /\ UNCHANGED <<already, round, free>>

Running(c) == at = "running" /\ Call.call = c
Still == UNCHANGED <<turn, asked, cut, replies>>

\* A long log or listing of a house turn is read through a side call, if there is room for it;
\* one that fails leaves the result to be read whole.
Gist(c, text) ==
  IF turn.house /\ c \in Gisted /\ text \in Words /\ HasRoom(1, read, Weight + 1)
    THEN read' = read + Weight + 1 /\ (gists' = gists \cup {Call.id} \/ UNCHANGED gists)
    ELSE UNCHANGED <<read, gists>>

FindTools ==
  /\ Running("find_tools")
  /\ \/ later > 0 /\ later' = later - 1 /\ Comes("found") /\ GoesOn(FALSE)
     \/ Comes("yours")   /\ GoesOn(TRUE)  /\ UNCHANGED later
     \/ Comes("no such") /\ GoesOn(FALSE) /\ UNCHANGED later
  /\ Still /\ UNCHANGED <<gists, guard, read, words, over>>

\* The shell's and the checkout's calls are run each time; the node may end the turn there.
InTheSandbox(c) ==
  /\ Running(c) /\ c \in Own
  /\ \/ \E text \in Words \cup {"refused"} : Comes(text) /\ GoesOn(FALSE)
     \/ Ends("over") /\ UNCHANGED <<results, already, round, free>>
  /\ Still /\ UNCHANGED <<gists, guard, later, read, words, over>>

Guarded(c) == Running(c) /\ c \notin Own \cup {"find_tools"}

\* Arguments that can not be read are not sent.
Unreadable(c) ==
  /\ Guarded(c) /\ Comes("unreadable") /\ GoesOn(FALSE)
  /\ Still /\ UNCHANGED <<gists, guard, later, read, words, over>>

\* The claim was asked for already: what HQ said of it, once.
FromGiven(c) ==
  /\ Guarded(c) /\ c \in given
  /\ given' = given \ {c} /\ last' = c /\ said' = [d \in DOMAIN said \cup {c} |->
                                                     IF d = c THEN "claimed" ELSE said[d]]
  /\ Comes("claimed") /\ GoesOn(FALSE)
  /\ Still /\ UNCHANGED <<gists, later, read, words, over>>

\* Asked again straight after: not sent.
StraightAgain(c) ==
  /\ Guarded(c) /\ c \notin given /\ last = c /\ c \in DOMAIN said
  /\ Comes("already") /\ GoesOn(FALSE)
  /\ Still /\ UNCHANGED <<gists, guard, later, read, words, over>>

\* Sent, to HQ or the node: what it came to, unless it says nothing new.  A question to the
\* owner or an action put on the desk ends the turn, and so does HQ saying it has ended, or the
\* turn's own task moved on.
Sent(c) ==
  /\ Guarded(c) /\ c \notin given /\ ~(last = c /\ c \in DOMAIN said)
  /\ \/ /\ \E text \in Words \cup {"refused", "ended"}, approval \in {FALSE, (c \in OnTheNode)} :
             LET done  == text # "refused"
                 asks  == done /\ (c = "ask_owner" \/ approval)
                 moves == text = "ended" \/ (done /\ EndsTheTurn(c)) IN
             /\ said' = [d \in DOMAIN said \cup {c} |-> IF d = c THEN text ELSE said[d]]
             /\ last' = c
             /\ over' = (asks \/ moves)
             /\ \/ /\ c \in DOMAIN said /\ said[c] = text /\ ~asks
                   /\ Comes("already") /\ GoesOn(FALSE) /\ UNCHANGED <<read, gists>>
                \/ /\ ~(c \in DOMAIN said /\ said[c] = text /\ ~asks)
                   /\ Comes(text)
                   /\ IF asks \/ moves
                        THEN EndsThere(IF asks THEN "asked" ELSE "moved on") /\ UNCHANGED <<read, gists>>
                        ELSE GoesOn(FALSE) /\ Gist(c, text)
     \/ /\ IF c \in OnTheNode THEN Ends("over") ELSE Stops
        /\ over' \in {FALSE, (c \notin OnTheNode /\ EndsTheTurn(c))}
        /\ UNCHANGED <<results, gists, last, said, already, read, round, free>>
  /\ Still /\ UNCHANGED <<given, later, words>>

---------------------------------------------------------------------------
\* What the constants are: no reply that calls tools is empty, and what a call comes to is told
\* from what the worker says of one it did not send.
ConstantsFit ==
  /\ Kinds \subseteq [house : BOOLEAN, sums : BOOLEAN, task : BOOLEAN,
                      numbers : {"own", "afresh", "one"}]
  /\ Replies \subseteq Seq(Tools) \ {<<>>}
  /\ Words \cap {"already", "unreadable", "nothing ran"} = {}
  /\ {MostRounds, FreeRounds, KeepsWhole, Budget} \subseteq Nat /\ Weight \in Nat \ {0}

Init ==
  /\ turn \in Kinds /\ at = "opening"
  /\ asked = <<>> /\ results = <<>> /\ cut = {} /\ gists = {}
  /\ last = NoCall /\ said = [c \in {} |-> ""] /\ given = {}
  /\ already = FALSE /\ later = IF turn.house THEN 1 ELSE 0
  /\ read = 0 /\ round = 0 /\ free = 0 /\ replies = 0
  /\ words = <<>> /\ over = FALSE

Next ==
  \/ Open \/ OutOfRoom \/ OutOfRounds \/ AskFails \/ Answers \/ CallsTools \/ FindTools
  \/ \E c \in Tools : \/ InTheSandbox(c) \/ Unreadable(c) \/ FromGiven(c)
                      \/ StraightAgain(c) \/ Sent(c)
Spec == Init /\ [][Next]_vars

---------------------------------------------------------------------------
(* Properties.                                                             *)

TypeOK ==
  /\ turn \in Kinds
  /\ at \in {"opening", "asking", "running", "answered", "out of room", "out of rounds",
             "asked", "moved on", "failed", "over"}
  /\ cut \cup gists \subseteq {asked[n].id : n \in DOMAIN asked}
  /\ DOMAIN said \subseteq Tools /\ last \in Tools \cup {NoCall} /\ given \subseteq {"claim"}
  /\ {read, round, free, replies, later} \subseteq Nat /\ round <= MostRounds /\ free <= FreeRounds
  /\ \A n \in DOMAIN words : words[n] \in {"answer", "continues", "unfinished"}

\* Whenever the model is asked, and when the turn ends by its own call, every call of every
\* reply has been answered, in order, and on a house turn no two have one id.
EveryCallAnswered ==
  /\ \/ at = "asking"
     \/ at \in {"asked", "moved on"} /\ EndsTheTurn(results[Len(results)].call)
     => Len(results) = Len(asked)
  /\ \A n \in DOMAIN results : results[n].id = asked[n].id /\ results[n].call = asked[n].call
  /\ turn.house => \A m, n \in DOMAIN asked : asked[m].id = asked[n].id => m = n

\* A call answered with "you already have this result" has one it does have: among the results
\* the next prompt holds, the latest before it that says what that call came to is not cut.  And
\* no result is cut that the model has not replied to ("never before the model has read it whole
\* and answered").
Mute == {"already", "unreadable", "nothing ran"}
Latest(m, n) ==
  /\ results[m].call = results[n].call /\ results[m].text \notin Mute
  /\ \A k \in (m + 1)..(n - 1) : results[k].call = results[n].call => results[k].text \in Mute
HasWhatItIsTold ==
  \A n \in DOMAIN results :
    /\ asked[n].reply = replies /\ results[n].text = "already" =>
         \E m \in 1..(n - 1) : Latest(m, n) /\ results[m].id \notin cut
    /\ results[n].id \in cut => asked[n].reply < replies

\* Once a call that ends the turn was sent to HQ or came back as one, or its last word was
\* posted, nothing more of it is asked, run or posted; and it has one last word, which has HQ go
\* on with it only if it ran out of room.
EndsOnce == [][
  /\ over => UNCHANGED <<asked, results, replies, words>>
  /\ Len(words') <= 1
  /\ words' = <<"continues">> => at' \in {"out of room", "failed", "over"} ]_vars
=============================================================================
