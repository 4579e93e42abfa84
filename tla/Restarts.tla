------------------------------ MODULE Restarts ------------------------------
(***************************************************************************)
(* Restarts of the lab's containers.  A turn of the team's asks the node   *)
(* for one (`restart_container`): the node looks whether a restart could   *)
(* help, takes one from the hour's few, and asks the console for it, as    *)
(* the owner's buttons do.  The console does one thing at a time, and      *)
(* writes each request down before it asks Portainer for anything.         *)
(*                                                                         *)
(* A call of the team's is its own request: its id has the run's number    *)
(* and the millisecond.  Refusals that change nothing and look at nothing  *)
(* that changes (a container unknown, or Endora's own; a contract the      *)
(* owner switched off) and the notice to the owner are left out.           *)
(***************************************************************************)
EXTENDS Integers, FiniteSets

CONSTANTS
  Turns,        \* the team's calls, numbered in the order they ask
  Containers,
  Presses,      \* what the owner's buttons send, and may send again: requests
  Hour, Day,    \* HOUR_MS, and the 24 of them rows are kept
  AnHour,       \* TEAM_RESTARTS_AN_HOUR
  Slow,         \* the longest from a call's look at the clock to its look at the ledger
  LastTime, MaxCrashes      \* bounds, for TLC

\* What the code says of them.  Every read of Portainer's is over in eight seconds, so a call
\* is never the better part of a day slow.
ConstantsFit ==
  /\ Turns \subseteq Nat /\ IsFiniteSet(Turns)
  /\ Hour \in Nat \ {0} /\ Day \in Nat /\ Slow \in Nat /\ Slow + Hour <= Day
  /\ AnHour \in Nat /\ LastTime \in Nat /\ MaxCrashes \in Nat
  /\ \A p \in Presses : /\ p.id \notin Turns /\ p.target \in Containers
                        /\ p.action \in {"start", "stop", "restart"}

Requests  == Presses \cup [id : Turns, action : {"restart"}, target : Containers]
Ids       == Turns \cup {p.id : p \in Presses}
NoRequest == [id |-> 0, action |-> "none", target |-> "none"]

VARIABLES
  time,      \* the node's clock
  call,      \* each call: how far it is, of which container, at what time it asked, what it said
  ledger,    \* the calls whose rows team_restarts has
  journal,   \* terminal_operations: each id's request and what is known of it
  doing,     \* what the console is doing, the gate its own, and how far it is
  late,      \* requests Portainer had and did not answer in time: it may yet do them
  done,      \* how often each id's was done
  took,      \* the calls that ever took a restart
  deaths     \* crashes, counted

vars == <<time, call, ledger, journal, doing, late, done, took, deaths>>

Idle == [of |-> NoRequest, step |-> "free"]

---------------------------------------------------------------------------
(* `restart_container`, up to the console.                                 *)

Begins(t, k) ==
  /\ call[t].at = "idle" /\ \A u \in Turns : u < t => call[u].at # "idle"
  /\ call' = [call EXCEPT ![t] = [at |-> "asked", of |-> k, time |-> time, said |-> "nothing"]]
  /\ UNCHANGED <<time, ledger, journal, doing, late, done, took, deaths>>

Answered(t, said) == call' = [call EXCEPT ![t].at = "over", ![t].said = said]
Refused(t) ==
  /\ Answered(t, "refused")
  /\ UNCHANGED <<time, ledger, journal, doing, late, done, took, deaths>>

\* Whether a restart could help is Portainer's to say: of a container that runs, does not
\* restart already or again and again, and in whose network no other runs.
LooksUnfit(t) == call[t].at = "asked" /\ Refused(t)
LooksFit(t) ==
  /\ call[t].at = "asked"
  /\ call' = [call EXCEPT ![t].at = "fit"]
  /\ UNCHANGED <<time, ledger, journal, doing, late, done, took, deaths>>

\* What a restart asked for at `at` finds in the ledger less than an hour before it, or after.
\* (Mutant: only before.)
RecentBefore(at) == {u \in ledger : call[u].time \in (at - Hour + 1)..at}
Recent(at)       == {u \in ledger : at - call[u].time < Hour}

MayRestart(k, at) ==
  /\ \A u \in Recent(at) : call[u].of # k
  /\ Cardinality(Recent(at)) < AnHour

Takes(t) ==
  /\ call[t].at = "fit" /\ MayRestart(call[t].of, call[t].time)
  /\ ledger' = {u \in ledger \cup {t} : call[u].time >= call[t].time - Day}
  /\ took' = took \cup {t}
  /\ call' = [call EXCEPT ![t].at = "taken"]
  /\ UNCHANGED <<time, journal, doing, late, done, deaths>>

\* The limits refuse it, or the ledger fails.
TakesNone(t) == call[t].at = "fit" /\ Refused(t)

---------------------------------------------------------------------------
(* The console: `act`, `Journal::run` and `effect`.                        *)

\* An id written down is never run again.  (Mutant: unless how it went is not known.)
FoundKnown(id) == journal[id].state = "complete"
Found(id)      == journal[id].of # NoRequest

Reserves(q) ==
  /\ doing = Idle /\ ~Found(q.id)
  /\ journal' = [journal EXCEPT ![q.id] = [of |-> q, state |-> "uncertain"]]
  /\ doing' = [of |-> q, step |-> "reserved"]

TeamsRequest(t) == [id |-> t, action |-> "restart", target |-> call[t].of]

TeamActs(t) ==
  /\ call[t].at = "taken" /\ Reserves(TeamsRequest(t))
  /\ call' = [call EXCEPT ![t].at = "acting"]
  /\ UNCHANGED <<time, ledger, late, done, took, deaths>>

\* The journal fails, and nothing is tried.
TeamCannotAct(t) ==
  /\ call[t].at = "taken" /\ doing = Idle
  /\ Answered(t, "unsure")
  /\ UNCHANGED <<time, ledger, journal, doing, late, done, took, deaths>>

Press(p) ==
  /\ Reserves(p)
  /\ UNCHANGED <<time, call, ledger, late, done, took, deaths>>

Done(q) == done' = [done EXCEPT ![q.id] = @ + 1]

PortainerDoes ==
  /\ doing.step = "reserved" /\ Done(doing.of)
  /\ doing' = [doing EXCEPT !.step = "accepted"]
  /\ UNCHANGED <<time, call, ledger, journal, late, took, deaths>>

PortainerRefuses ==
  /\ doing.step = "reserved"
  /\ doing' = [doing EXCEPT !.step = "unconfirmed"]
  /\ UNCHANGED <<time, call, ledger, journal, late, done, took, deaths>>

\* Docker gives a container ten seconds to stop, and the console Portainer eight to answer.
PortainerIsSlow ==
  /\ doing.step = "reserved"
  /\ doing' = [doing EXCEPT !.step = "unconfirmed"]
  /\ late' = late \cup {doing.of}
  /\ UNCHANGED <<time, call, ledger, journal, done, took, deaths>>

DoneLate(q) ==
  /\ q \in late /\ Done(q) /\ late' = late \ {q}
  /\ UNCHANGED <<time, call, ledger, journal, doing, took, deaths>>

ReadsBack ==
  /\ doing.step = "accepted"
  /\ \E step \in {"confirmed", "unconfirmed"} : doing' = [doing EXCEPT !.step = step]
  /\ UNCHANGED <<time, call, ledger, journal, late, done, took, deaths>>

\* How it went is written down and said; where it cannot be written, nothing is known of it.
Records ==
  /\ doing.step \in {"confirmed", "unconfirmed"}
  /\ \E written \in BOOLEAN :
       LET id == doing.of.id
           sure == written /\ doing.step = "confirmed" IN
       /\ journal' = [journal EXCEPT ![id].state = IF sure THEN "complete" ELSE @]
       /\ call' = [t \in Turns |->
                    IF t = id /\ call[t].at = "acting"
                      THEN [call[t] EXCEPT !.at = "over",
                                           !.said = IF sure THEN "restarted" ELSE "unsure"]
                      ELSE call[t]]
  /\ doing' = Idle
  /\ UNCHANGED <<time, ledger, late, done, took, deaths>>

---------------------------------------------------------------------------
(* The rest of the world.                                                  *)

Looking(t) == call[t].at \in {"asked", "fit"}

Tick ==
  /\ time < LastTime /\ \A t \in Turns : Looking(t) => time - call[t].time < Slow
  /\ time' = time + 1
  /\ UNCHANGED <<call, ledger, journal, doing, late, done, took, deaths>>

\* The node dies: what it was doing is neither finished nor answered.
Crash ==
  /\ deaths < MaxCrashes /\ deaths' = deaths + 1
  /\ doing' = Idle
  /\ call' = [t \in Turns |-> IF call[t].at \in {"idle", "over"} THEN call[t]
                              ELSE [call[t] EXCEPT !.at = "over", !.said = "nothing"]]
  /\ UNCHANGED <<time, ledger, journal, late, done, took>>

Init ==
  /\ time = 0
  /\ call = [t \in Turns |-> [at |-> "idle", of |-> "none", time |-> 0, said |-> "nothing"]]
  /\ ledger = {} /\ took = {} /\ late = {}
  /\ journal = [i \in Ids |-> [of |-> NoRequest, state |-> "none"]]
  /\ doing = Idle /\ done = [i \in Ids |-> 0]
  /\ deaths = 0

TeamSteps(t) ==
  \/ \E k \in Containers : Begins(t, k)
  \/ LooksUnfit(t) \/ LooksFit(t) \/ Takes(t) \/ TakesNone(t)
  \/ TeamActs(t) \/ TeamCannotAct(t)

Next ==
  \/ \E t \in Turns : TeamSteps(t)
  \/ \E p \in Presses : Press(p)
  \/ PortainerDoes \/ PortainerRefuses \/ PortainerIsSlow
  \/ \E q \in late : DoneLate(q)
  \/ ReadsBack \/ Records
  \/ Tick \/ Crash

Spec == Init /\ [][Next]_vars

---------------------------------------------------------------------------

TypeOK ==
  /\ time \in Nat
  /\ call \in [Turns -> [at   : {"idle", "asked", "fit", "taken", "acting", "over"},
                         of   : Containers \cup {"none"},
                         time : Nat,
                         said : {"nothing", "refused", "restarted", "unsure"}]]
  /\ \A t \in Turns : call[t].at # "idle" => call[t].of \in Containers
  /\ ledger \subseteq took /\ took \subseteq Turns
  /\ journal \in [Ids -> [of : Requests \cup {NoRequest}, state : {"none", "uncertain", "complete"}]]
  /\ doing \in [of : Requests \cup {NoRequest},
                step : {"free", "reserved", "accepted", "confirmed", "unconfirmed"}]
  /\ late \subseteq Requests
  /\ done \in [Ids -> Nat]
  /\ deaths \in Nat

\* The team restarts no container twice within an hour, and no more than its few in all within
\* any, by the times it asked at: though calls asked in one order look at the ledger in
\* another, a restart that failed or was cut short counts, and old rows are thrown away.
LimitsKept ==
  /\ \A t, u \in took : t # u /\ call[t].of = call[u].of =>
       call[t].time - call[u].time \notin (1 - Hour)..(Hour - 1)
  /\ \A t \in took :
       Cardinality({u \in took : call[u].time - call[t].time \in 0..(Hour - 1)}) <= AnHour

\* However often a request is sent, wherever the node dies and however late Portainer does it:
\* nothing is done twice, or without a record of it; what the record or the answer says was
\* done was; and the team does nothing it took no restart for.
DoneAsRecorded ==
  /\ \A i \in Ids : /\ done[i] <= 1
                    /\ journal[i].state = "complete" => done[i] = 1
                    /\ journal[i].of = NoRequest => done[i] = 0
  /\ \A t \in Turns : /\ call[t].said = "restarted" => done[t] = 1
                      /\ done[t] > 0 => t \in took
=============================================================================
