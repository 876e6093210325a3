--------------------------- MODULE TransportStream --------------------------
(***************************************************************************)
(* scan_transport_stream_sync of src/src/mux/demux/ts.rs and its async     *)
(* twin, which share parse_transport_packet_sync: packets of several PIDs  *)
(* come interleaved, tables announce which of them are tracks while they   *)
(* already run, and one program clock translates the timestamps of all.    *)
(*                                                                         *)
(* Packets are PacketSize bytes, of which HeaderSize are their header; the *)
(* rest up to the payload is an adaptation field.  What the file says is   *)
(* chosen packet by packet, by a multiplexer that has a time line of its   *)
(* own: `now`, the time of the last clock reference, and `shift`, by which *)
(* the file's clock is off it since the last splice.                       *)
(***************************************************************************)
EXTENDS TransportTracks

CONSTANTS
  PacketSize, HeaderSize,  \* TS_PACKET_SIZE, and what is the same in every packet
  PesHeaderSize,   \* the fixed part of a PES header, 9 bytes
  PmtPids,         \* of program tables
  Multiplexers,    \* what makes the files of an instance
  Delay,           \* of the first timestamp against the clock
  Lag, Lead,       \* how far timestamps are behind and ahead of the clock
  UnitTime,        \* between the units of a track that is not audio
  MaxHead,         \* packets before a table announces tracks
  MaxSplices

(* A multiplexer is a record of what it sends: pcr_pid, the programs of its*)
(* tables, shapes ("stamped", "plain", "rest", "other"), payload_offsets   *)
(* and pes_headers of packets, how many tables and packets; where its time *)
(* line starts, the steps between references, and how far splices throw    *)
(* the clock.                                                              *)
PatPid == 0

(* What a table gives as the PID of the clock when there is none.          *)
NoPcrPid == 8191

PidsOf(m) == UNION { DOMAIN program : program \in m.programs }

ASSUME PidsAssumption ==
  /\ PatPid \notin PmtPids
  /\ \A m \in Multiplexers : /\ PidsOf(m) \cap (PmtPids \cup { PatPid }) = {}
                            /\ m.pcr_pid \in PidsOf(m) \cup { NoPcrPid }

VARIABLES
  log,             \* the packets read
  packet_offset,
  pmt_pid,
  builders,        \* of the PIDs the tables announced
  program_clock,
  status,          \* "scanning", "done" or "failed"
  error,
  tracks,          \* of the PIDs, once the scan is done
  sender,          \* the multiplexer
  now, shift, counters,
  delay,           \* the time of the first unit
  stamps,          \* for each anchor, the time that was meant
  wraps, splices   \* how often there was one

scanner == << pmt_pid, builders, program_clock, tracks >>

multiplexer == << sender, now, shift, counters, delay, stamps, wraps, splices >>

vars == << log, packet_offset, status, error, scanner, multiplexer >>
-----------------------------------------------------------------------------
Init ==
  /\ log = << >> /\ packet_offset = 0
  /\ pmt_pid = Missing /\ builders = << >> /\ program_clock = NewClock
  /\ status = "scanning" /\ error = "None" /\ tracks = << >>
  /\ sender \in Multiplexers
  /\ now \in sender.starts /\ delay = now + Delay
  /\ shift = 0 /\ wraps = 0 /\ splices = 0
  /\ counters = [pid \in { PatPid } \cup PmtPids \cup PidsOf(sender) |-> 0]
  /\ stamps = [pid \in PidsOf(sender) |-> << >>]

(* The clock of the file counts PcrPerTick * MaxPts and starts again; the  *)
(* code's own maximum is a little more.                                    *)
Period == PcrPerTick * MaxPts

OnClock(time, offset) == (time + offset) % Period

NoReference == [pcr |-> Missing, signaled |-> FALSE]

HasPayload(packet) == packet.payload < PacketSize

(* Whether a packet carries a reference, how far the time line went on     *)
(* since the last one, and whether it was spliced.                         *)
NoTiming == [step |-> Missing, splice |-> 0]

Timings(pid) ==
  { NoTiming } \cup
  { timing \in [step : sender.steps, splice : sender.splices] :
      pid = sender.pcr_pid /\ (timing.splice # 0 => splices < MaxSplices) }

ReferenceAt(timing) ==
  IF timing = NoTiming THEN NoReference
  ELSE [pcr |-> OnClock(now + timing.step, shift + timing.splice), signaled |-> timing.splice # 0]

TimeGoesOn(timing) ==
  IF timing = NoTiming THEN UNCHANGED << now, shift, wraps, splices >>
  ELSE /\ now' = now + timing.step
       /\ shift' = shift + timing.splice
       /\ splices' = splices + IF timing.splice # 0 THEN 1 ELSE 0
       /\ wraps' = wraps + IF OnClock(now, shift) > OnClock(now', shift) THEN 1 ELSE 0

(* The next packet of a PID.                                               *)
Packet(pid, payload, timing, content) ==
  [at |-> packet_offset, pid |-> pid, payload |-> payload,
   counter |-> (counters[pid] + IF payload < PacketSize THEN 1 ELSE 0) % CcModulus,
   reference |-> ReferenceAt(timing), content |-> content, timing |-> timing]

(* parse_transport_packet_pcr and the update it leads to, before anything  *)
(* else in the packet is looked at.                                        *)
ClockAfter(packet) ==
  IF packet.reference = NoReference THEN program_clock
  ELSE Updated(program_clock, packet.pid, HasPayload(packet), packet.counter,
               packet.reference.signaled, packet.reference.pcr)

MayRead ==
  /\ status = "scanning"
  /\ Len(log) < IF builders = << >> THEN MaxHead ELSE sender.packets

(* A packet is taken from the file.                                        *)
Take(packet) ==
  /\ MayRead
  /\ log' = Append(log, packet)
  /\ packet_offset' = packet_offset + PacketSize
  /\ counters' = [counters EXCEPT ![packet.pid] = packet.counter]
  /\ TimeGoesOn(packet.timing)
  /\ UNCHANGED << sender, delay, tracks >>

GoOn == UNCHANGED << status, error >>

Fail(reason) == status' = "failed" /\ error' = reason
-----------------------------------------------------------------------------
MayTable ==
  Cardinality({ k \in DOMAIN log : log[k].content.type \in { "PAT", "PMT" } }) < sender.tables

(* parse_pat_section takes the first program of a sound table.             *)
ReadPat ==
  /\ MayTable
  /\ \E pid \in PmtPids :
       /\ Take(Packet(PatPid, HeaderSize, NoTiming, [type |-> "PAT", pid |-> pid]))
       /\ pmt_pid' = pid
  /\ GoOn /\ UNCHANGED << builders, program_clock, stamps >>

(* Defect: a PID that is announced again starts anew.                      *)
ReplacedBy(program) ==
  [pid \in DOMAIN builders \cup DOMAIN program |->
     IF pid \in DOMAIN program THEN new_transport_track_builder(program[pid]) ELSE builders[pid]]

(* A PID is registered once and keeps the kind it had.                     *)
RegisteredWith(program) ==
  [pid \in DOMAIN builders \cup DOMAIN program |->
     IF pid \in DOMAIN builders THEN builders[pid]
     ELSE new_transport_track_builder(program[pid])]

(* parse_pmt_section of the program that was found.                        *)
ReadPmt ==
  /\ MayTable /\ pmt_pid # Missing
  /\ \E program \in sender.programs :
       /\ Take(Packet(pmt_pid, HeaderSize, NoTiming, [type |-> "PMT", program |-> program]))
       /\ builders' = RegisteredWith(program)
  /\ program_clock' = [program_clock EXCEPT !.pcr_pid = sender.pcr_pid]
  /\ GoOn /\ UNCHANGED << pmt_pid, stamps >>

(* The time of what the next unit of a PID begins with: the first frame    *)
(* that begins in it, or the unit itself.                                  *)
NextTime(builder) ==
  delay + IF builder.kind \in { "audio", "ac3" }
            THEN ((builder.total_size + FrameSize - 1) \div FrameSize) * FrameTime[builder.kind]
            ELSE Len(builder.sample_offsets) * UnitTime

PtsOf(time, offset) == OnClock(time, offset) \div PcrPerTick

(* The anchor a PES header with a timestamp leaves.                        *)
StampedPts(builder, clock, pts) ==
  IF transport_track_uses_program_clock_translation(builder.kind) THEN Translated(clock, pts)
  ELSE pts

Anchored(builder, pts) ==
  [builder EXCEPT !.pts_anchors =
     Append(@, [sample_offset |-> builder.total_size, pts_90k |-> pts])]

Begun(builder) ==
  IF transport_track_uses_full_au(builder.kind)
    THEN [builder EXCEPT !.sample_offsets = Append(@, builder.total_size)]
    ELSE builder

BodyOf(packet) == packet.at + packet.payload + packet.content.header

Filled(builder, packet) ==
  append_file_range_segment(builder, BodyOf(packet), packet.at + PacketSize - BodyOf(packet))

IsTrack(pid) == pid \in DOMAIN builders

Timely(time) ==
  sender.pcr_pid # NoPcrPid => now <= time + Lag /\ time <= now + Lead

(* A packet that begins a unit of a track.                                 *)
ReadUnit(pid, packet) ==
  LET builder == builders[pid]
      pts == StampedPts(builder, program_clock', packet.content.pts)
      stamped == packet.content.pts # Missing
      anchored == IF stamped THEN Anchored(builder, pts) ELSE builder
  IN /\ Take(packet)
     /\ program_clock' = ClockAfter(packet)
     /\ IF BodyOf(packet) > packet.at + PacketSize
          THEN Fail("Header") /\ UNCHANGED << builders, stamps >>
        ELSE IF stamped /\ pts < 0
          THEN Fail("Negative") /\ UNCHANGED << builders, stamps >>
        ELSE /\ builders' = [builders EXCEPT ![pid] = Filled(Begun(anchored), packet)]
             /\ stamps' = IF stamped THEN [stamps EXCEPT ![pid] = Append(@, packet.content.time)]
                          ELSE stamps
             /\ GoOn
     /\ UNCHANGED pmt_pid

ReadStampedUnit ==
  /\ "stamped" \in sender.shapes
  /\ \E pid \in PidsOf(sender) : IsTrack(pid) /\
    \E payload \in sender.payload_offsets, header \in sender.pes_headers,
       timing \in Timings(pid) :
      LET time == NextTime(builders[pid])
      IN /\ Timely(time)
         /\ ReadUnit(pid, Packet(pid, payload, timing,
              [type |-> "PES", header |-> header, time |-> time,
               pts |-> PtsOf(time, shift + timing.splice)]))

ReadPlainUnit ==
  /\ "plain" \in sender.shapes
  /\ \E pid \in PidsOf(sender) : IsTrack(pid) /\
    \E payload \in sender.payload_offsets, timing \in Timings(pid) :
      ReadUnit(pid, Packet(pid, payload, timing,
        [type |-> "PES", header |-> PesHeaderSize, time |-> Missing, pts |-> Missing]))

(* Any other packet of a track goes on with what was there, even if that   *)
(* began before the tables did.                                            *)
ReadRest ==
  /\ "rest" \in sender.shapes
  /\ \E pid \in PidsOf(sender) : IsTrack(pid) /\
       \E payload \in sender.payload_offsets, timing \in Timings(pid) :
         LET packet == Packet(pid, payload, timing, [type |-> "rest", header |-> 0])
         IN /\ Take(packet)
            /\ program_clock' = ClockAfter(packet)
            /\ builders' = [builders EXCEPT ![pid] = Filled(@, packet)]
  /\ GoOn /\ UNCHANGED << pmt_pid, stamps >>

(* Packets of no track, and packets with an adaptation field alone, are    *)
(* passed over but for their reference.                                    *)
PassOver ==
  /\ "other" \in sender.shapes
  /\ \E pid \in PidsOf(sender), payload \in { HeaderSize, PacketSize } :
       /\ IsTrack(pid) => payload = PacketSize
       /\ \E timing \in Timings(pid) :
            LET packet == Packet(pid, payload, timing, [type |-> "other", header |-> 0])
            IN /\ timing = NoTiming => HasPayload(packet)
               /\ Take(packet)
               /\ program_clock' = ClockAfter(packet)
  /\ GoOn /\ UNCHANGED << builders, pmt_pid, stamps >>

(* A packet without sync, with an error, scrambled, or with a table that is*)
(* cut off, damaged, or announces a stream the scan does not know.         *)
Reject ==
  /\ MayRead
  /\ Fail("Packet")
  /\ UNCHANGED << log, packet_offset, scanner, multiplexer >>
-----------------------------------------------------------------------------
(* The places of the log where packets of a track lie.                     *)
AnnouncedBy(k) ==
  LET packet == log[k] IN IF packet.content.type = "PMT" THEN DOMAIN packet.content.program ELSE {}

Registration(pid) == Min({ k \in DOMAIN log : pid \in AnnouncedBy(k) })

PayloadPlaces(pid) ==
  { k \in DOMAIN log : k > Registration(pid) /\ log[k].pid = pid /\ HasPayload(log[k]) }

(* A frame parser needs a frame to begin with, which a track that begins   *)
(* in the middle of a unit may lack.                                       *)
BeginsInside(pid) ==
  LET places == PayloadPlaces(pid)
  IN /\ ~ transport_track_uses_full_au(builders[pid].kind)
     /\ places # {} /\ log[Min(places)].content.type = "rest"

Finals == [pid \in { p \in DOMAIN builders : ~ IsSkipped(builders[p]) } |-> Finalized(builders[pid])]

(* The end of the file, and finalize_transport_tracks_sync: the first      *)
(* track that is refused refuses the file.                                 *)
Finish ==
  LET finals  == Finals
      refused == { pid \in DOMAIN finals : finals[pid].error # "None" }
  IN /\ status = "scanning"
     /\ \/ Len(log) < 2 /\ Fail("TooShort") /\ UNCHANGED tracks
        \/ /\ Len(log) >= 2 /\ DOMAIN finals = {}
           /\ Fail("NoTracks") /\ UNCHANGED tracks
        \/ /\ Len(log) >= 2 /\ refused # {}
           /\ Fail(finals[Min(refused)].error) /\ UNCHANGED tracks
        \/ /\ \E pid \in DOMAIN finals : BeginsInside(pid) /\ \A p \in refused : pid <= p
           /\ Fail("NoSync") /\ UNCHANGED tracks
        \/ /\ Len(log) >= 2 /\ DOMAIN finals # {} /\ refused = {}
           /\ status' = "done" /\ tracks' = finals /\ UNCHANGED error
     /\ UNCHANGED << log, packet_offset, pmt_pid, builders, program_clock, multiplexer >>

Ended == status # "scanning" /\ UNCHANGED vars

Next ==
  \/ ReadPat \/ ReadPmt \/ ReadStampedUnit \/ ReadPlainUnit \/ ReadRest
  \/ PassOver \/ Reject \/ Finish \/ Ended

Spec == Init /\ [][Next]_vars
-----------------------------------------------------------------------------
(***************************************************************************)
(* What the scan promises.                                                 *)
(***************************************************************************)
InOrder(places) == SelectSeq([k \in DOMAIN log |-> k], LAMBDA k : k \in places)

RangeOf(from, end) == [i \in 1..(end - from) |-> from + i - 1]

(* The payload bytes of a track from the packets k to l.                   *)
PayloadOf(pid, from, end) ==
  FlattenSeq([k \in 1..Len(log) |->
    IF k \in PayloadPlaces(pid) /\ from <= k /\ k < end
      THEN RangeOf(BodyOf(log[k]), log[k].at + PacketSize) ELSE << >>])

UnitPlaces(pid) == { k \in PayloadPlaces(pid) : log[k].content.type = "PES" }

UnitEndPlace(pid, k) == Min({ l \in UnitPlaces(pid) : l > k } \cup { Len(log) + 1 })

SampleBytes(pid, sample) ==
  read_segmented_bytes(builders[pid], sample.data_offset, sample.data_size)

(* However the PIDs interleave, and whatever tables come in between, an    *)
(* imported track holds the payloads of its packets since it was announced,*)
(* in order and without their headers.  Samples of a track timed by its    *)
(* units are the units: as many, in order, each with all the bytes of its  *)
(* packets; frames lie next to each other up to the end of the track, and  *)
(* the chunks AC-3 is given hold each of them once                         *)
(* (parse_transport_packet_sync, append_file_range_segment,                *)
(* read_segmented_bytes_sync, build_transport_full_au_samples,             *)
(* build_transport_av1_samples,                                            *)
(* build_transport_ac3_flat_chunk_sample_counts).                          *)
SamplesAreUnits ==
  \A pid \in DOMAIN tracks :
    LET samples == tracks[pid].samples
        chunks == tracks[pid].chunks
        units == InOrder(UnitPlaces(pid))
    IN IF transport_track_uses_full_au(builders[pid].kind)
         THEN /\ Len(samples) = Len(units)
              /\ \A i \in DOMAIN samples :
                   SampleBytes(pid, samples[i])
                     = PayloadOf(pid, units[i], UnitEndPlace(pid, units[i]))
         ELSE /\ FlattenSeq([i \in DOMAIN samples |-> SampleBytes(pid, samples[i])])
                    = PayloadOf(pid, 1, Len(log) + 1)
              /\ chunks # << >> =>
                   FoldLeft(LAMBDA n, count : n + count, 0, chunks) = Len(samples)

(* The references the clock sees, by their places in the log.              *)
References ==
  LET tables == { k \in DOMAIN log : log[k].content.type = "PMT" }
  IN InOrder({ k \in DOMAIN log : log[k].reference # NoReference /\ \E t \in tables : t < k })

Spliced(k) == log[k].timing.splice # 0

(* The counter does not go on from the reference before, as when packets of*)
(* the PID without one lie in between.                                     *)
Breaks(before, k) ==
  log[k].counter # (log[before].counter + IF HasPayload(log[k]) THEN 1 ELSE 0) % CcModulus

(* What the translation depends on: the clock knows a step of the old time *)
(* line when it is spliced, and the counter goes on across the first       *)
(* reference of the new one, as on a PID that carries nothing but them.    *)
IsRegular ==
  LET refs == References
  IN \A i \in DOMAIN refs :
       /\ Spliced(refs[i]) => i > 2 /\ ~ Spliced(refs[i - 1])
       /\ (i > 1 /\ Breaks(refs[i - 1], refs[i])) =>
            /\ ~ Spliced(refs[i - 1])
            /\ ~ (i = 2 /\ IsLate(log[refs[1]].reference.pcr))

(* A new time line is taken up one step after the old one, whatever the    *)
(* step was; the rest is rounding.                                         *)
Slack == 1 + (wraps + splices) * (1 + (Max(sender.steps) - Min(sender.steps)) \div PcrPerTick)

(* AC-3 may be late by the tolerance and by what the windows round off.    *)
SlackOf(kind, frames) == Slack + IF kind = "ac3" THEN frames + JitterTolerance ELSE 0

(* Every timestamp is about a frame that begins with its unit.             *)
OnFrames(pid) ==
  \A anchor \in ToSet(builders[pid].pts_anchors) :
    \E sample \in ToSet(tracks[pid].samples) : sample.data_offset = anchor.sample_offset

KeepsTime(pid) ==
  ~ transport_track_uses_full_au(builders[pid].kind) =>
  LET anchors == builders[pid].pts_anchors
      samples == tracks[pid].samples
      frame(n) == CHOOSE i \in DOMAIN samples : samples[i].data_offset = anchors[n].sample_offset
      lasts(n, l) == FoldLeft(LAMBDA sum, sample : sum + sample.duration, 0,
                              SubSeq(samples, frame(n), frame(l) - 1))
      meant(n, l) == (stamps[pid][l] - stamps[pid][n]) \div PcrPerTick
      off(n, l) == (lasts(n, l) - meant(n, l)) % PtsModulus
      slack(n, l) == SlackOf(builders[pid].kind, frame(l) - frame(n))
  IN \A n, l \in DOMAIN anchors :
       frame(n) < frame(l) => off(n, l) <= slack(n, l) \/ PtsModulus - off(n, l) <= slack(n, l)

(* In a regular stream whose tracks begin with a timestamp and whose units *)
(* hold whole frames, the frames between two timestamps last as long as the*)
(* stream meant them to, across wraps of the clock and splices of the time *)
(* line; such a stream is not refused for what its timestamps say, nor for *)
(* a time before zero unless a unit comes late                             *)
(* (update_transport_program_clock, translate_transport_timestamp_90k and  *)
(* the two functions that spread the timestamps over the frames).          *)
RegularAudioKeepsTime ==
  IsRegular =>
    /\ error \notin { "Conflict", "Cadence" }
    /\ error = "Negative" => Last(log).content.time < now
    /\ \A pid \in DOMAIN tracks :
         /\ BeginsAnchored(tracks[pid].samples, builders[pid].pts_anchors)
         /\ OnFrames(pid)
         => KeepsTime(pid)
=============================================================================
