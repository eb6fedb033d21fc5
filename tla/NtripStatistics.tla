-------------------------- MODULE NtripStatistics --------------------------
(***************************************************************************)
(* What an NTRIP caster, server or client counts (NtripStatsTracker), and  *)
(* the way of the numbers through C into a Python dictionary (get_stats).  *)
(* Bytes sent, frames and the frames of each message type are counted; of  *)
(* the times and the bytes received only the objects in the dictionary are *)
(* modelled.                                                               *)
(*                                                                         *)
(* A caster that relays a source counts what recv() returned, which knows  *)
(* nothing of frames: it looks for their preamble. A frame is              *)
(* [id, len, shams], and a byte of it [frame, part]; shams are the bytes   *)
(* of the payload that look like a preamble.                               *)
(***************************************************************************)
EXTENDS Handover, BagsExt

MaxMessageTypes == 32

NoStats == [bytes_tx |-> 0, frames_tx |-> 0, frames_rx |-> 0, types |-> EmptyBag]

FrameBytes(f) == [k \in 1..f.len |-> [frame |-> f, part |-> k]]
Stream(frames) == FlattenSeq([i \in DOMAIN frames |-> FrameBytes(frames[i])])

(* A read gets some bytes of the stream. *)
ReadOf(r) == SubSeq(Stream(r.frames), r.from, r.to)

LenOf(frames) == FoldLeft(LAMBDA sum, f : sum + f.len, 0, frames)

(* The types of some frames; one too short to have a type has none.         *)
IdsOf(frames) == LET typed == SelectSeq(frames, LAMBDA f : f.len >= 5)
                 IN  [i \in DOMAIN typed |-> typed[i].id]

CountTypes(stats, ids) == [stats EXCEPT !.types = FoldLeft(BagAdd, @, ids)]

(* feed() *)
StatsRecordTxFrames(stats, frames) ==
    [CountTypes(stats, IdsOf(frames)) EXCEPT !.bytes_tx = @ + LenOf(frames),
                                             !.frames_tx = @ + Len(frames)]

(* A frame the client received. *)
StatsRecordFrame(stats, frame) ==
    [CountTypes(stats, IdsOf(<<frame>>)) EXCEPT !.frames_rx = @ + 1]

-----------------------------------------------------------------------------
(* A read of a source *)

LooksLikePreamble(byte) == byte.part \in {1} \cup byte.frame.shams

(* What is read as type and length where a payload looks like a frame.      *)
Sham == [id |-> 0, len |-> 7]
Claims(byte) == IF byte.part = 1 THEN byte.frame ELSE Sham

(* The types found in a read; a frame that does not end in it ends the      *)
(* search, and so do less than five bytes.                                 *)
ScanTypes(read) ==
    LET from[i \in 1..(Len(read) + 1)] ==
            IF i + 4 > Len(read) THEN << >>
            ELSE IF ~LooksLikePreamble(read[i]) THEN from[i + 1]
            ELSE <<Claims(read[i]).id>> \o
                 (IF i + Claims(read[i]).len - 1 <= Len(read)
                  THEN from[i + Claims(read[i]).len] ELSE << >>)
    IN  from[1]

StatsRecordTxRaw(stats, read) ==
    LET ids == ScanTypes(read)
    IN  [CountTypes(stats, ids) EXCEPT !.bytes_tx = @ + Len(read), !.frames_tx = @ + Len(ids)]

-----------------------------------------------------------------------------
(* get_stats() *)

Record(stats, r) ==
    CASE r.how = "feed" -> StatsRecordTxFrames(stats, r.frames)
      [] r.how = "relay" -> StatsRecordTxRaw(stats, ReadOf(r))
      [] r.how = "received" -> StatsRecordFrame(stats, r.frames[1])
      [] r.how = "stop" -> NoStats

GetStats(recorded) == FoldLeft(Record, NoStats, recorded)

(* std::map's order. *)
Ascending(ids) ==
    [i \in 1..Cardinality(ids) |-> CHOOSE x \in ids : Cardinality({y \in ids : y < x}) = i - 1]

(* C has room for so many message types; the smallest are told.            *)
FirstFit(ids) == SubSeq(ids, 1, IF Len(ids) > MaxMessageTypes THEN MaxMessageTypes ELSE Len(ids))

FillStats(stats) ==
    LET ids == FirstFit(Ascending(DOMAIN stats.types))
    IN  [bytes_tx |-> stats.bytes_tx, frames_tx |-> stats.frames_tx,
         frames_rx |-> stats.frames_rx, msg_type_ids |-> ids,
         msg_type_counts |-> [i \in DOMAIN ids |-> stats.types[ids[i]]]]

Numbers == <<"bytes_tx", "bytes_rx", "frames_tx", "frames_rx", "uptime_ms", "last_frame_age_ms",
             "avg_inter_frame_ms", "max_inter_frame_ms">>

NumberRef(i) == <<"number", i>>

Crashed == [outcome |-> "crash", list |-> << >>, held |-> {}]

(* The objects made, in order: the dictionary, its numbers, the dictionary *)
(* of types, a key and a value for each type. The interpreter follows an   *)
(* object that could not be made. A dictionary takes references of its own *)
(* to what it is given; that to a number it came with is not given back.   *)
NtripStatsToDict(s, k) ==
    LET made == 2 + Len(Numbers) + 2 * Len(s.msg_type_ids)
        counts == [id \in ToSet(s.msg_type_ids) |->
                      s.msg_type_counts[CHOOSE i \in DOMAIN s.msg_type_ids :
                                            s.msg_type_ids[i] = id]]
    IN  IF k = 1 THEN Raised({})
        ELSE IF k \in 2..made THEN Crashed
        ELSE [outcome |-> "dict", held |-> Kept({NumberRef(i) : i \in DOMAIN Numbers}, {}),
              list |-> [bytes_tx |-> s.bytes_tx, frames_tx |-> s.frames_tx,
                        frames_rx |-> s.frames_rx, message_types |-> counts]]

GetStatsInPython(recorded, k) == NtripStatsToDict(FillStats(GetStats(recorded)), k)
=============================================================================
