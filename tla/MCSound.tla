------------------------------ MODULE MCSound ------------------------------
(***************************************************************************)
(* A small instance of Sound for TLC.                                      *)
(***************************************************************************)
EXTENDS Sound, TLC

CONSTANT pad      \* the phone

\* Two speakers of one mix and a phone's own stream; the phone's old door, yet to be merged; a
\* setup that parts them.
Joined(i, s) == [source |-> i, speaker |-> s, level |-> 1]
Speaker(kind, device) == [kind |-> kind, device |-> device, borrowed |-> FALSE]
AtHome ==
  [sources  |-> 1 :> [kind |-> "airplay", device |-> pad]
             @@ 2 :> [kind |-> "radio", device |-> None],
   speakers |-> 3 :> Speaker("airplay", None) @@ 4 :> Speaker("airplay", None)
             @@ 5 :> Speaker("stream", pad),
   wires    |-> {Joined(1, 3), Joined(2, 3), Joined(1, 4), Joined(2, 4), Joined(2, 5)},
   setup    |-> {Joined(1, 3), Joined(2, 4), Joined(2, 5)},
   last     |-> 5]
House == {AtHome}

\* Three changes and mishaps in all, of which but two are changes and but one a mishap.
Few == Init /\ [][Next /\ changes' <= 2 /\ mishaps' <= 1]_vars
=============================================================================
