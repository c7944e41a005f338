---------------------------- MODULE TirPackets ----------------------------
(***************************************************************************)
(* The packets of the TrackIR cameras (tir_img.c).  One USB transfer holds *)
(* packets one after the other.  Those of a TrackIR 4 hold some stripes of *)
(* a frame, which ends with an empty stripe or where a line number goes    *)
(* back, in the middle of a packet or packets later; those of a TrackIR 5  *)
(* or SmartNav 4 hold a frame each.  Type, end and place in the transfer   *)
(* are kept in statics from one call to the next, so that a request can    *)
(* interrupt the reading anywhere.                                         *)
(*                                                                         *)
(* Sizes are counted in pairs of bytes: a header is 1, a stripe of the     *)
(* TrackIR 4 is 2 and the padding of a full packet is 1.                   *)
(***************************************************************************)
EXTENDS Integers, Sequences, SequencesExt

CONSTANTS Devices,        \* "tir4" and "tir5"
          Lines,          \* line numbers
          FullWords,      \* stripes in a full packet (15)
          MaxTransfers,   \* bound: USB transfers with data
          MaxRequests,    \* bound: requests made
          MaxCuts         \* bound: transfers that time out half way

VARIABLES
    device, buf,        \* the camera and ltr_int_packet, as a sequence of cells
    size, ptr,          \* statics of ltr_int_read_blobs_tir
    type, limit, full,  \* statics of process_packet; full stands for pktsize = 0x3E
    line,               \* current_line
    stripes,            \* the stripes added since the last frame
    mode,               \* "entered" or "reading" in the call, "asked" after one cut short
    sent,               \* what the camera sent since it was started
    frames,             \* the frames assembled since then
    left,               \* something of the time before then is still there
    told,               \* what was handed on last: "frame", "again", "garbage"
    transfers, requests, cuts

counters == <<transfers, requests, cuts>>
statics == <<size, ptr, type, limit, full, line>>
vars == <<device, buf, statics, stripes, mode, sent, frames, left, told, counters>>

End == 0        \* the empty stripe
NoType == "none"

Init ==
    /\ device \in Devices /\ buf = <<>> /\ size = 0 /\ ptr = 0
    /\ type = NoType /\ limit = 0 /\ full = FALSE /\ line = 0
    /\ stripes = <<>> /\ mode = "entered" /\ sent = <<>> /\ frames = <<>>
    /\ left = FALSE /\ told = "garbage"
    /\ transfers = 0 /\ requests = 0 /\ cuts = 0

-----------------------------------------------------------------------
(* What a camera sends. *)

Header(t, n) == [kind |-> "header", type |-> t, size |-> n]
Stripe(n) == [kind |-> "stripe", line |-> n]
Rest == [kind |-> "rest"]

StripePacket(words) ==
    LET cells == 1 + 2 * Len(words) IN
    [i \in 1 .. IF Len(words) = FullWords THEN cells + 1 ELSE cells |->
        IF i = 1 THEN Header("stripes", cells)
        ELSE IF i % 2 = 0 /\ i <= cells THEN Stripe(words[i \div 2]) ELSE Rest]

Status == <<Header("status", 3), Rest, Rest>>

Words == UNION {[1 .. n -> Lines \cup {End}] : n \in 1 .. FullWords}

\* The TrackIR 5's: a frame, one with a bad header or size, one of raw pixels.
Whole(words, t) == <<[kind |-> "header", type |-> t, frame |-> words, size |-> 1]>>

Transfer(cells, said) ==
    /\ transfers < MaxTransfers /\ transfers' = transfers + 1
    /\ buf' = cells /\ sent' = sent \o said
    /\ \/ size' = Len(cells) /\ UNCHANGED cuts
       \/ cuts < MaxCuts /\ cuts' = cuts + 1 /\ size' \in 1 .. Len(cells) - 1

\* ltr_int_receive_data with what there is to be read, or a timeout.
Receive ==
    /\ mode # "asked" /\ ptr >= size /\ ptr' = 0 /\ mode' = "reading"
    /\ \/ buf' = <<>> /\ size' = 0 /\ UNCHANGED <<sent, transfers, cuts>>
       \/ /\ device = "tir4"
          /\ \/ \E w \in Words : Transfer(StripePacket(w), w)
             \/ \E v, w \in Words : Transfer(StripePacket(v) \o StripePacket(w), v \o w)
             \/ \E w \in Words : Transfer(Status \o StripePacket(w), w)
       \/ /\ device = "tir5"
          /\ \E w \in Words, t \in {"good", "bad", "raw"} :
                 Transfer(Whole(w, t), IF t = "good" THEN <<w>> ELSE <<>>)
    /\ UNCHANGED <<device, type, limit, full, line, stripes, frames, left, told, requests>>

-----------------------------------------------------------------------
(* process_packet: one turn of its loop *)

Here == buf[ptr + 1]
Parsing == mode # "asked" /\ ptr < size

ReadHeader ==
    /\ Parsing /\ type = NoType /\ Here.kind = "header"
    /\ type' = Here.type /\ limit' = ptr + Here.size
    /\ full' = (Here.type = "stripes" /\ Here.size = 1 + 2 * FullWords)
    /\ ptr' = IF Here.type \in {"stripes", "status"} THEN ptr + 1 ELSE ptr
    /\ UNCHANGED <<device, buf, size, line, stripes, mode, sent, frames, left, told, counters>>

\* An unknown type: the rest of the transfer is given up.
UnknownType ==
    /\ Parsing /\ type = NoType /\ Here.kind # "header"
    /\ ptr' = size /\ mode' = "reading"
    /\ UNCHANGED <<device, buf, size, type, limit, full, line, stripes, sent, frames, left, told, counters>>

\* The frame is complete, and the call returns it.
Frame(lines) ==
    /\ frames' = Append(frames, lines) /\ stripes' = <<>>
    /\ told' = "frame" /\ mode' = "entered"

\* Mutant: the padding of a full packet is taken for the next header.
MoveUnpadded(to) == ptr' = to /\ type' = IF to >= limit THEN NoType ELSE type

\* At the end of the packet the padding is skipped.
Move(to) ==
    /\ ptr' = IF to >= limit /\ full THEN to + 1 ELSE to
    /\ type' = IF to >= limit THEN NoType ELSE type

InPacket == Parsing /\ type = "stripes" /\ limit <= size /\ Here.kind = "stripe"

EndStripe ==
    /\ InPacket /\ Here.line = End
    /\ line' = 0 /\ Frame(stripes) /\ Move(ptr + 2)
    /\ UNCHANGED <<device, buf, size, limit, full, sent, left, counters>>

\* is_next_frame_tir: the stripe is left for the next call.
NextFrame ==
    /\ InPacket /\ Here.line \in 1 .. line - 1
    /\ line' = Here.line /\ Frame(stripes)
    /\ UNCHANGED <<device, buf, size, ptr, type, limit, full, sent, left, counters>>

AddStripe ==
    /\ InPacket /\ Here.line # End /\ Here.line >= line
    /\ line' = Here.line /\ stripes' = Append(stripes, Here.line) /\ Move(ptr + 2)
    /\ mode' = "reading"
    /\ UNCHANGED <<device, buf, size, limit, full, sent, frames, left, told, counters>>

\* Status packets, and the TrackIR 5's, which are read at once.
WholePacket ==
    /\ Parsing /\ type \in {"status", "good", "bad", "raw"} /\ limit <= size
    /\ ptr' = limit /\ type' = NoType
    /\ IF type = "good" THEN Frame(stripes \o Here.frame)
                        ELSE mode' = "reading" /\ UNCHANGED <<frames, stripes, told>>
    /\ UNCHANGED <<device, buf, size, limit, full, line, sent, left, counters>>

-----------------------------------------------------------------------
(* ltr_int_read_blobs_tir and its callers *)

Stuck == ptr < size /\ type # NoType /\ limit > size

\* process_packet found no frame and a request is there: the call returns, but
\* frame_acquired is set, so that what is in the list of blobs is handed on.
Interrupted ==
    /\ mode = "reading" /\ (ptr >= size \/ Stuck)
    /\ requests < MaxRequests /\ requests' = requests + 1
    /\ mode' = "asked" /\ told' = IF told = "garbage" THEN "garbage" ELSE "again"
    /\ UNCHANGED <<device, buf, statics, stripes, sent, frames, left, transfers, cuts>>

\* The run loop finds a request before it asks for the next frame.
AskedBetween ==
    /\ mode = "entered" /\ requests < MaxRequests /\ requests' = requests + 1
    /\ mode' = "asked"
    /\ UNCHANGED <<device, buf, statics, stripes, sent, frames, left, told, transfers, cuts>>

\* The request was to run: the camera was not stopped.
GoOn ==
    /\ mode = "asked" /\ mode' = "entered"
    /\ UNCHANGED <<device, buf, statics, stripes, sent, frames, left, told, counters>>

\* The request was to pause, and later to resume: the camera starts again.
Restart ==
    /\ mode = "asked" /\ mode' = "entered"
    /\ sent' = <<>> /\ frames' = <<>>
    /\ left' = (stripes # <<>> \/ ptr < size \/ line # 0)
    /\ UNCHANGED <<device, buf, statics, stripes, told, counters>>

Read == ReadHeader \/ UnknownType \/ EndStripe \/ NextFrame \/ AddStripe \/ WholePacket

Next == Receive \/ Read \/ Interrupted \/ AskedBetween \/ GoOn \/ Restart

Spec == Init /\ [][Next]_vars

-----------------------------------------------------------------------
(* Properties *)

\* The statics stay within the transfer they are about.
TypeOK ==
    /\ size \in 0 .. Len(buf) /\ ptr \in 0 .. size + 1
    /\ type \in {NoType, "stripes", "status", "good", "bad", "raw"}
    /\ line \in Lines \cup {0} /\ mode \in {"entered", "reading", "asked"}
    /\ told \in {"frame", "again", "garbage"} /\ left \in BOOLEAN
    /\ cuts = 0 => (type = "stripes" => ptr < limit)

\* The frames of a stream of stripes: an empty one ends a frame, and so does one
\* of a line above the line before.
Step(acc, n) ==
    IF n = End THEN [done |-> Append(acc.done, acc.open), open |-> <<>>, line |-> 0]
    ELSE IF n < acc.line THEN [done |-> Append(acc.done, acc.open), open |-> <<n>>, line |-> n]
    ELSE [done |-> acc.done, open |-> Append(acc.open, n), line |-> n]

Opening == [done |-> <<>>, open |-> <<>>, line |-> 0]

\* After each of the stripes.
Parts(words) ==
    LET upTo[n \in 0 .. Len(words)] == IF n = 0 THEN Opening ELSE Step(upTo[n - 1], words[n]) IN upTo

Split(words) == Parts(words)[Len(words)]

\* However the stream is cut into packets and transfers, and wherever a request
\* interrupts the reading, the frames are those the camera sent: none is lost or
\* empty, and no stripe gets into another frame.  When all is read nothing but the
\* open frame is left (tir_img.c:373-411, 459-558).
FramesExact ==
    cuts = 0 /\ ~left =>
        IF device = "tir5" THEN IsPrefix(frames, sent)
        ELSE LET all == Split(sent).done \o <<Split(sent).open>> IN
             /\ IsPrefix(frames, Split(sent).done)
             /\ IsPrefix(stripes, all[Len(frames) + 1])
             /\ ptr >= size => frames = Split(sent).done /\ stripes = Split(sent).open

(* What the code does not keep. *)

\* After a pause the first frame is of the camera's new start (tir_driver.c:117).
FreshAfterRestart ==
    device = "tir4" => \A i \in DOMAIN frames : \E j \in 1 .. Len(Split(sent).done) : frames[i] = Split(sent).done[j]

\* A frame is handed on once, and none before the first (tir_driver.c:109-110).
HandedOnOnce == mode = "asked" => told = "frame"

\* A transfer is read to its end (tir_img.c:513, "supposed to read beyond").
NeverStuck == ~Stuck
=======================================================================
