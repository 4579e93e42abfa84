------------------------------- MODULE Ticker -------------------------------
(***************************************************************************)
(* HQ's tick (app/hq/src/ticker.rs): a pass of the engine on a slow clock, *)
(* and one whenever the engine asks for it, one pass at a time.  Those who *)
(* ask are other threads: they set a flag, then wake the ticker, and do    *)
(* not wait.  A wake of a ticker that is not waiting is kept, but only one *)
(* is.                                                                     *)
(***************************************************************************)
CONSTANT Askers        \* the threads whose requests end in an ask

VARIABLES
  asked,      \* the flag: a pass is asked for
  wake,       \* whether a wake is kept for the ticker
  ticker,     \* where the ticker's loop is
  asking,     \* the askers that have set the flag and not yet woken the ticker
  unserved    \* those whose latest ask no pass has begun since

vars == <<asked, wake, ticker, asking, unserved>>

Init ==
  /\ asked = FALSE /\ wake = FALSE /\ ticker = "waiting"
  /\ asking = {} /\ unserved = {}

---------------------------------------------------------------------------
(* An ask, from a thread that holds no lock: the flag, then the wake.      *)

Ask(a) ==
  /\ a \notin asking
  /\ asked' = TRUE /\ asking' = asking \cup {a} /\ unserved' = unserved \cup {a}
  /\ UNCHANGED <<wake, ticker>>

Notify(a) ==
  /\ a \in asking
  /\ asking' = asking \ {a} /\ wake' = TRUE
  /\ UNCHANGED <<asked, ticker, unserved>>

---------------------------------------------------------------------------
(* The ticker's loop.                                                      *)

\* The clock is due.  A wake that came as well is kept.
ClockDue ==
  /\ ticker = "waiting" /\ ticker' = "due"
  /\ UNCHANGED <<asked, wake, asking, unserved>>

Woken ==
  /\ ticker = "waiting" /\ wake
  /\ ticker' = "woken" /\ wake' = FALSE
  /\ UNCHANGED <<asked, asking, unserved>>

\* A wake left over from an ask the last pass already served brings no pass.
Look ==
  /\ ticker = "woken"
  /\ ticker' = IF asked THEN "due" ELSE "waiting"
  /\ UNCHANGED <<asked, wake, asking, unserved>>

\* The pass serves every ask made before it starts: the flag is cleared, then it runs.
\* (Mutant: it stays up.)
BeginKeepsFlag ==
  /\ ticker = "due" /\ ticker' = "passing"
  /\ unserved' = {}
  /\ UNCHANGED <<asked, wake, asking>>

Begin ==
  /\ ticker = "due" /\ ticker' = "passing"
  /\ asked' = FALSE /\ unserved' = {}
  /\ UNCHANGED <<wake, asking>>

PassEnds ==
  /\ ticker = "passing" /\ ticker' = "waiting"
  /\ UNCHANGED <<asked, wake, asking, unserved>>

---------------------------------------------------------------------------
Loop == Woken \/ Look \/ Begin \/ PassEnds
Next == \/ \E a \in Askers : Ask(a) \/ Notify(a)
        \/ ClockDue \/ Loop

Spec == Init /\ [][Next]_vars

\* The ticker's task runs and its passes end; a thread that set the flag goes on to wake it.
\* Nothing is asked of the clock: it may be as slow as it likes.
Fairness == WF_vars(Loop) /\ \A a \in Askers : WF_vars(Notify(a))
FairSpec == Spec /\ Fairness

TypeOK ==
  /\ asked \in BOOLEAN /\ wake \in BOOLEAN
  /\ ticker \in {"waiting", "woken", "due", "passing"}
  /\ asking \subseteq Askers /\ unserved \subseteq Askers

---------------------------------------------------------------------------
\* An ask is neither lost nor answered twice: the flag is up exactly while an ask waits for its
\* pass, and then a wake is kept, or on its way, or the ticker is awake and has still to look, or
\* its pass is about to begin (`run`: "This pass serves every ask made before it starts"; "A wake
\* left over from an ask the last pass already served: nothing to do").
AskIsServedOnce ==
  /\ asked <=> unserved # {}
  /\ asked => wake \/ asking # {} \/ ticker \in {"woken", "due"}
=============================================================================
