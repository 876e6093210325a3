--------------------------- MODULE MCTransportStream ------------------------
(***************************************************************************)
(* TransportStream with two multiplexers: one sends packets of four kinds  *)
(* of tracks in every order and no clock; the other one audio track whose  *)
(* packets carry a clock that starts early, late or at the wrap of its     *)
(* range, and is spliced.                                                  *)
(***************************************************************************)
EXTENDS TransportStream

(* Tables that announce a PID late, and again with another kind.           *)
Interleaved ==
  [ pcr_pid |-> NoPcrPid,
    programs |-> { (17 :> "audio" @@ 18 :> "text"), (18 :> "av1"), (17 :> "ac3" @@ 18 :> "audio") },
    shapes |-> { "stamped", "plain", "rest", "other" },
    payload_offsets |-> { 4, 5 }, pes_headers |-> { 2, 6 },
    starts |-> { 200 }, steps |-> { 50 }, splices |-> { 0 }, tables |-> 3, packets |-> 6 ]

Clocked ==
  [ pcr_pid |-> 17, programs |-> { (17 :> "audio"), (17 :> "ac3") },
    shapes |-> { "stamped", "other" }, payload_offsets |-> { 4 }, pes_headers |-> { 2 },
    starts |-> { 200, 915, 1015 }, steps |-> { 50, 54 }, splices |-> { -400, 0, 700 },
    tables |-> 2, packets |-> 7 ]

Both == { Interleaved, Clocked }

FrameTimes == [kind \in { "audio", "ac3" } |-> 25]
=============================================================================
