------------------------------ MODULE Handover ------------------------------
(***************************************************************************)
(* Lists that cross the languages: RTCM3 frames out of the library into a  *)
(* Python list (rtk_get_full_corrections, rtk_get_tiny_corrections,        *)
(* rtk_get_rtcm3_frame, receive), the sourcetable a caster is asked for,   *)
(* and frames from a Python list into the library (rtk_apply_corrections,  *)
(* feed). On the way everything is copied into C memory of its own, and    *)
(* any allocation, or any step of the sourcetable's exchange, may fail.    *)
(*                                                                         *)
(* A call is a function of what is handed over and of the allocation that  *)
(* fails, the k-th of the call (0: none does). Its value says what the     *)
(* caller gets and what stays allocated: "held" is what was taken on the   *)
(* path and not given back on it.                                          *)
(*                                                                         *)
(* External: C++ containers and the Python objects inside a sourcetable    *)
(* entry are always allocated, the entry's text is UTF-8, nobody else      *)
(* changes a list while it is handed over, and storing in a dictionary     *)
(* needs no memory of the call's own.                                      *)
(***************************************************************************)
EXTENDS Integers, Sequences, FiniteSets, SequencesExt

Header == <<"result", 1>>      \* the structure
Array == <<"result", 2>>      \* its array
Data(i) == <<"data", i>>      \* what an element of the array points to
AllData(n) == {Data(i) : i \in 1..n}

Kept(taken, given) == taken \ given

Raised(held) == [outcome |-> "error", list |-> << >>, held |-> held]
Gets(list, held) == [outcome |-> "list", list |-> list, held |-> held]

-----------------------------------------------------------------------------
(* Corrections of a base *)

FullIds == {1005, 1077, 1087, 1097, 1127, 1230}
TinyIds == {1005, 1074, 1084, 1094, 1124, 1230}

Null == [count |-> 0, list |-> << >>, held |-> {}]

(* The two functions allocate the structure, the array and each frame's    *)
(* data; when one fails they free what they have.                          *)
CopyCorrections(frames, k) ==
    LET n == Len(frames)
    IN  IF n = 0 \/ k = 1 THEN Null
        ELSE IF k = 2 THEN [Null EXCEPT !.held = Kept({Header}, {Header})]
        ELSE IF k \in 3..(n + 2)
        THEN [Null EXCEPT !.held = Kept(AllData(k - 3) \cup {Array, Header},
                                        AllData(k - 3) \cup {Array, Header})]
        ELSE [count |-> n, list |-> frames, held |-> AllData(n) \cup {Array, Header}]

WithIds(stored, ids) == SelectSeq(stored, LAMBDA f : f.id \in ids)

GetFullCorrections(stored, k) == CopyCorrections(WithIds(stored, FullIds), k)
GetTinyCorrections(stored, k) == CopyCorrections(WithIds(stored, TinyIds), k)

FreeCorrections(c) == Kept(c.held, AllData(c.count) \cup {Array, Header})

(* Python: the list, then a bytes object for each frame; the corrections    *)
(* are freed on every path.                                                *)
ListCorrections(c, k) ==
    IF c.count = 0 \/ k \in 1..(c.count + 1)
    THEN Raised(IF c.count = 0 THEN c.held ELSE FreeCorrections(c))
    ELSE Gets(c.list, FreeCorrections(c))

RtkGetFullCorrections(stored, k) ==
    LET c == GetFullCorrections(stored, k)
    IN  ListCorrections(c, k - Len(WithIds(stored, FullIds)) - 2)

RtkGetTinyCorrections(stored, k) ==
    LET c == GetTinyCorrections(stored, k)
    IN  ListCorrections(c, k - Len(WithIds(stored, TinyIds)) - 2)

(* One frame: the structure and its data. *)
GetRtcm3Frame(frames, k) ==
    IF frames = << >> \/ k = 1 THEN Null
    ELSE IF k = 2 THEN [Null EXCEPT !.held = Kept({Header}, {Header})]
    ELSE [count |-> 1, list |-> frames, held |-> {Header, Data(1)}]

FreeFrame(c) == Kept(c.held, {Header, Data(1)})

RtkGetRtcm3Frame(stored, id, k) ==
    LET c == GetRtcm3Frame(WithIds(stored, {id}), k)
    IN  IF c.count = 0 THEN Raised(c.held)
        ELSE IF k = 3 THEN Raised(FreeFrame(c)) ELSE Gets(c.list, FreeFrame(c))

-----------------------------------------------------------------------------
(* Frames a client received *)

Garbled == [id |-> 0]     \* a bytes object of the right length that was never written

(* Without memory for the array the frames are gone: the library has        *)
(* handed them out. Without memory for one frame only its length is known.  *)
ClientReceive(frames, k) ==
    LET n == Len(frames)
    IN  IF n = 0 \/ k = 1 THEN Null
        ELSE [count |-> n,
              list |-> [i \in 1..n |-> IF k = i + 1 THEN Garbled ELSE frames[i]],
              held |-> {Data(i) : i \in {j \in 1..n : k # j + 1}} \cup {Array}]

FreesTheArray(c) == Kept(c.held, {Array})      \* mutant: the frames' data stays

FreeFrames(c) == Kept(c.held, AllData(c.count) \cup {Array})

Receive2List(frames, k) ==
    LET c == ClientReceive(frames, k)
        k2 == IF frames = << >> THEN k ELSE k - Len(frames) - 1
    IN  IF k2 \in 1..(c.count + 1) THEN Raised(FreeFrames(c)) ELSE Gets(c.list, FreeFrames(c))

-----------------------------------------------------------------------------
(* Frames out of a Python list: an array that borrows the list's bytes. An  *)
(* item is [bytes, frame]; what is not a bytes object is refused.           *)

BorrowFrames(items, k) ==
    IF k = 1 THEN Raised({})
    ELSE IF \E i \in DOMAIN items : ~items[i].bytes THEN Raised(Kept({Array}, {Array}))
    ELSE Gets([i \in DOMAIN items |-> items[i].frame], Kept({Array}, {Array}))

(* What the library gets; the outcome of the call is an exception when the  *)
(* list is empty or there is no rover.                                     *)
RtkApplyCorrections(items, k, rover) ==
    IF items = << >> THEN Raised({})
    ELSE IF rover THEN BorrowFrames(items, k) ELSE Raised(BorrowFrames(items, k).held)

ServerFeed(items, k) ==
    IF items = << >> THEN Gets(<< >>, {}) ELSE BorrowFrames(items, k)

CasterFeed(items, k) ==
    IF items = << >> THEN Gets(<< >>, {}) ELSE BorrowFrames(items, k)

-----------------------------------------------------------------------------
(* The sourcetable *)

TableSteps == <<"resolve", "socket", "connect", "poll", "refused", "handshake", "send">>

(* The step that fails ("": none): what the steps before have taken, and    *)
(* what is given back there.                                               *)
TakenBefore(step) ==
    CASE step = "resolve" -> {}
      [] step = "socket" -> {"addrinfo"}
      [] step \in {"connect", "poll", "refused"} -> {"addrinfo", "fd"}
      [] step = "handshake" -> {"fd"}
      [] OTHER -> {"fd", "tls"}

GivenBack(step) ==
    CASE step = "resolve" -> {}
      [] step = "socket" -> {"addrinfo"}
      [] step \in {"connect", "poll", "refused"} -> {"addrinfo", "fd"}
      [] step = "handshake" -> {"fd"}
      [] OTHER -> {"fd", "tls"}

Part(parts, i) == IF Len(parts) >= i THEN parts[i] ELSE ""
Coordinate(parts, i) == IF Len(parts) > 9 /\ parts[i] # "text" THEN parts[i] ELSE "0.0"

Entry(parts) ==
    [mountpoint |-> parts[2], identifier |-> parts[3], format |-> parts[4],
     format_details |-> Part(parts, 5), carrier |-> Part(parts, 6), nav_system |-> Part(parts, 7),
     latitude |-> Coordinate(parts, 9), longitude |-> Coordinate(parts, 10)]

(* The answer's lines, cut at the semicolons. *)
ParseSourcetable(lines) ==
    LET records == SelectSeq(lines, LAMBDA parts : parts[1] = "STR" /\ Len(parts) >= 4)
    IN  [i \in DOMAIN records |-> Entry(records[i])]

FetchSourcetable(lines, step) ==
    [entries |-> IF step = "" THEN ParseSourcetable(lines) ELSE << >>,
     held |-> Kept(TakenBefore(step), GivenBack(step))]

Texts == <<"mountpoint", "identifier", "format", "format_details", "carrier", "nav_system">>
Text(i, j) == Data(Len(Texts) * (i - 1) + j)      \* the j-th text of the i-th entry

(* The copy in C: a text there is no memory for is left out. *)
CopySourcetable(entries, k) ==
    LET n == Len(entries)
    IN  IF n = 0 \/ k = 1 THEN Null
        ELSE LET Copied(i, j) == k # Len(Texts) * (i - 1) + j + 1
             IN  [count |-> n,
                  list |-> [i \in 1..n |->
                               [f \in DOMAIN entries[i] |->
                                   IF \E j \in DOMAIN Texts : Texts[j] = f /\ ~Copied(i, j)
                                   THEN "" ELSE entries[i][f]]],
                  held |-> {Array} \cup {Text(i, j) : <<i, j>> \in
                               {p \in (1..n) \X DOMAIN Texts : Copied(p[1], p[2])}}]

FreeSourcetable(c) == Kept(c.held, AllData(Len(Texts) * c.count) \cup {Array})

SourcetableInPython(lines, step, k) ==
    LET fetched == FetchSourcetable(lines, step)
        c == CopySourcetable(fetched.entries, k)
        k2 == IF fetched.entries = << >> THEN k ELSE k - Len(Texts) * Len(fetched.entries) - 1
        held == FreeSourcetable(c) \cup {<<h, 0>> : h \in fetched.held}
    IN  IF k2 \in 1..(c.count + 1) THEN Raised(held) ELSE Gets(c.list, held)
=============================================================================
