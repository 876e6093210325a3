---------------------------- MODULE ProgramClock ----------------------------
(***************************************************************************)
(* TransportProgramClockState of src/src/mux/demux/ts.rs: what the demuxer *)
(* of transport streams makes of the program clock references (PCR), which *)
(* count 27 MHz and start again at zero every day or so, and of the        *)
(* timestamps (PTS) it translates with them, which count 90 kHz.           *)
(*                                                                         *)
(* The clock sees a packet only when the packet carries a reference, so the*)
(* continuity counter it keeps is that of the last such packet, not of the *)
(* last packet of the PID.                                                 *)
(***************************************************************************)
EXTENDS Integers

CONSTANTS
  PcrPerTick,    \* references to a timestamp tick: 300
  PcrPerMicro,   \* references to a microsecond: 27
  MaxPcr,        \* TRANSPORT_MAX_PCR_27M
  MaxPts,        \* TRANSPORT_MAX_PCR_90K
  WrapBackoff,   \* TRANSPORT_INITIAL_PCR_WRAP_BACKOFF_27M
  Tolerance,     \* microseconds two steps may differ by: 200_000
  Jump,          \* a step taken for a new time line: 270_000_000
  WrapReach,     \* how close to MaxPcr a wrap is expected: 5_400_000
  LatePts,       \* how close to MaxPts a late timestamp lies: 20_000
  EarlyPcr,      \* how far the clock is past the wrap by then: 27_000_000
  CcModulus      \* continuity counters are modulo 16

Missing == -1

ASSUME ClockAssumption ==
  { PcrPerTick, PcrPerMicro, MaxPcr, MaxPts, Tolerance, CcModulus } \subseteq Nat \ {0}

Magnitude(n) == IF n < 0 THEN -n ELSE n

Greater(a, b) == IF a < b THEN b ELSE a

(* Division of the source language truncates towards zero.                 *)
Quotient(a, b) == IF a < 0 THEN -((-a) \div b) ELSE a \div b

NewClock ==
  [pcr_pid |-> Missing, before_last_pcr_value |-> Missing, last_pcr_value |-> Missing,
   pcr_base_offset_27m |-> 0, last_continuity_counter |-> Missing]

(* In the last tenth of its range a first reference is taken to be close to*)
(* a wrap.                                                                 *)
IsLate(pcr) == pcr > (9 * MaxPcr) \div 10

SyntheticPrevious(pcr) ==
  IF Greater(MaxPcr - pcr, 0) > WrapBackoff THEN MaxPcr - WrapBackoff ELSE MaxPcr

(* A packet without a payload repeats the counter, any other advances it.  *)
ExpectedCounter(clock, has_payload) ==
  IF has_payload THEN (clock.last_continuity_counter + 1) % CcModulus
                 ELSE clock.last_continuity_counter

ContinuityBreak(clock, has_payload, counter) ==
  /\ clock.last_continuity_counter # Missing
  /\ clock.before_last_pcr_value # Missing
  /\ counter # ExpectedCounter(clock, has_payload)

PreviousStep(clock) ==
  IF Missing \in { clock.before_last_pcr_value, clock.last_pcr_value } THEN 0
  ELSE clock.last_pcr_value - clock.before_last_pcr_value

Micros(pcr) == Quotient(pcr, PcrPerMicro)

IsSmallStepBack(step) == -Tolerance <= Micros(step) /\ Micros(step) < 0

GoesOn(clock, step) ==
  /\ Micros(step) > 0
  /\ Magnitude(Micros(step) - Micros(PreviousStep(clock))) < Tolerance

IsWrap(clock, pcr) ==
  /\ Magnitude(pcr - clock.last_pcr_value) > Jump
  /\ pcr < clock.last_pcr_value
  /\ MaxPcr - clock.last_pcr_value < WrapReach

(* Whether the clock takes up a new time line at this reference.           *)
Rebases(clock, broken, pcr) ==
  LET step == pcr - clock.last_pcr_value
  IN IF broken THEN ~ IsSmallStepBack(step) /\ ~ GoesOn(clock, step)
     ELSE /\ Magnitude(step) > Jump
          /\ ~ IsWrap(clock, pcr)
          /\ IsSmallStepBack(step) \/ pcr < clock.last_pcr_value

(* Defect: the new time line is taken up without the step that led to it.  *)
ExpectedWithoutStep(clock) == clock.last_pcr_value

(* Where the clock expected this reference to be.                          *)
ExpectedPcr(clock) ==
  clock.last_pcr_value + Micros(PreviousStep(clock)) * PcrPerMicro

NewBase(clock, broken, pcr) ==
  clock.pcr_base_offset_27m
    + IF Rebases(clock, broken, pcr) THEN ExpectedPcr(clock) - pcr
      ELSE IF ~ broken /\ IsWrap(clock, pcr) THEN MaxPcr
      ELSE 0

(* update_transport_program_clock.                                         *)
Updated(clock, pid, has_payload, counter, signaled, pcr) ==
  LET broken == signaled \/ ContinuityBreak(clock, has_payload, counter)
      kept   == [clock EXCEPT !.last_continuity_counter = counter,
                              !.last_pcr_value = Greater(pcr, 1)]
  IN IF clock.pcr_pid # pid THEN clock
     ELSE IF clock.last_pcr_value = Missing
       THEN [kept EXCEPT !.before_last_pcr_value =
                           IF IsLate(pcr) THEN SyntheticPrevious(pcr) ELSE Missing]
       ELSE [kept EXCEPT !.before_last_pcr_value = clock.last_pcr_value,
                         !.pcr_base_offset_27m = NewBase(clock, broken, pcr)]

(* Timestamps that wrapped before the clock did, and those that come late, *)
(* after the clock wrapped.                                                *)
LeadsWrap(clock, pts) == IsLate(clock.last_pcr_value) /\ pts < MaxPts \div 10

LagsWrap(clock, pts) == MaxPts < LatePts + pts /\ clock.last_pcr_value < EarlyPcr

(* translate_transport_timestamp_90k; a negative result is an error.       *)
Translated(clock, pts) ==
  IF clock.last_pcr_value = Missing THEN pts
  ELSE pts + Quotient(clock.pcr_base_offset_27m, PcrPerTick)
           + (IF LeadsWrap(clock, pts) THEN MaxPts ELSE 0)
           - (IF LagsWrap(clock, pts) THEN MaxPts ELSE 0)
=============================================================================
