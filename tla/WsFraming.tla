------------------------------ MODULE WsFraming ------------------------------
(***************************************************************************)
(* The WebSocket frames of one connection that has been upgraded           *)
(* (thread_tcp.c from ws_frame_send on): a read may end anywhere in a      *)
(* frame and may hold several; what it holds of the last one waits.        *)
(* The passes of ws_frame_parse_loop are steps of their own.               *)
(*                                                                         *)
(* Clients mask, and payloads are no longer than ShortPayload: every       *)
(* header is six bytes, the opcode, the length and the key.  Frames with a *)
(* length of two or eight bytes more are outside the model.                *)
(* A byte is named by its place, so that it shows when one is taken for    *)
(* another; when the parser takes others than the first two of a frame for *)
(* opcode and length, what it makes of them depends on their values, and   *)
(* the model ends there (astray).                                          *)
(***************************************************************************)
EXTENDS Integers, SequencesExt

CONSTANTS
  Scripts,  \* the sequences of frames a client may send
  MaxRead   \* most bytes a read returns (SOCK_BUF_LENGTH)

HdrSize == 6
HdrBuf == 14         \* room for the longest header there is
ShortPayload == 125  \* the longest whose length is in the second byte

Opcodes == {"CONTINUATION", "TEXT", "BINARY", "CONNECTION_CLOSE", "PING", "PONG"}
Frame == [opcode : Opcodes, pld_size : 0..ShortPayload]

ASSUME WsScriptsAssumption == Scripts \subseteq Seq(Frame)
ASSUME ReadAssumption == MaxRead \in Nat \ {0}

VARIABLES
  script,     \* the frames the client sends
  received,   \* bytes of them that recv has returned
  open,       \* conn is in the list
  hdr,        \* ws_frame.hdr_buf, as far as hdr_cnt
  recv_buf,   \* the part of the payload that was received; empty too if NULL
  sock_buf,   \* what ws_frame_parse_loop has still to parse of a read
  processed,  \* history: the frames ws_frame_process got
  astray,     \* history: other bytes were taken for a header
  split_well  \* history: no read so far was one that goes wrong

vars == <<script, received, open, hdr, recv_buf, sock_buf, processed, astray, split_well>>

-----------------------------------------------------------------------------
(* What the client sends *)

Byte(n, at) == [frame |-> n, at |-> at]
Stale == Byte(0, 0)  \* whatever is behind the data of the read

Bytes(n) == [at \in 1..(HdrSize + script[n].pld_size) |-> Byte(n, at)]
Stream == FlattenSeq([n \in DOMAIN script |-> Bytes(n)])

-----------------------------------------------------------------------------
(* The header *)

Reached(h) == Len(h) >= HdrSize

\* The opcode and the length of the frame are where they are expected.
Sound(h) == h[1].at = 1 /\ h[2] = Byte(h[1].frame, 2)
Opcode(h) == script[h[1].frame].opcode
PldSize(h) == script[h[1].frame].pld_size
Key(h) == SubSeq(h, 3, HdrSize)

\* recv_buf != NULL: the header is whole and the payload is not.
Collecting == Reached(hdr)

-----------------------------------------------------------------------------
(* A whole frame *)

\* Mutant of Freed: ws_frame is not cleared.
FreedBuffer == recv_buf' = <<>> /\ UNCHANGED hdr

\* Mutant of Freed: recv_cnt is not cleared.
FreedHeader == hdr' = <<>> /\ UNCHANGED recv_buf

\* recv_buf_free, which does nothing for a frame without a payload.
Freed == recv_buf' = <<>> /\ hdr' = <<>>

Kept == {"BINARY", "PING", "PONG"}

\* ws_frame_decode and ws_frame_process of the frame with header h: a payload
\* goes to the mqtt thread, a PING is answered, other frames close.  rest is
\* what the loop goes on with.
Process(h, payload, rest) ==
  /\ processed' = Append(processed, [opcode |-> Opcode(h), key |-> Key(h), payload |-> payload])
  /\ open' = (Opcode(h) \in Kept)
  /\ sock_buf' = IF open' THEN rest ELSE <<>>
  /\ IF PldSize(h) > 0 THEN Freed ELSE UNCHANGED <<hdr, recv_buf>>

-----------------------------------------------------------------------------
(* ws_frame_handle *)

Before(n) == Len(FlattenSeq([m \in 1..(n - 1) |-> Bytes(m)]))
After(n) == Before(n) + HdrSize + script[n].pld_size

\* Of a read of the bytes first..last: one that ends a frame an earlier read
\* began goes no further, and a frame without a payload comes whole and ends the
\* read it is in.
SplitWell(first, last) ==
  \A n \in DOMAIN script :
    /\ Before(n) + 1 < first /\ first =< After(n) => last =< After(n)
    /\ script[n].pld_size = 0 /\ first =< After(n) /\ Before(n) < last
         => first =< Before(n) + 1 /\ last = After(n)

Least(m, n) == IF m < n THEN m ELSE n

\* next_cnt: the bytes of a read that belong to the frame begun before.
Taken(n) == Least(n, PldSize(hdr) - Len(recv_buf))

\* memmove takes the remaining bytes to the front, and ws_frame_parse_loop is
\* called with the count of the whole read: what was there before follows them.
Remaining(data, taken) ==
  IF taken = Len(data) THEN <<>>
  ELSE SubSeq(data, taken + 1, Len(data)) \o SubSeq(data, Len(data) - taken + 1, Len(data))

Read(n) ==
  /\ open /\ ~astray
  /\ sock_buf = <<>>
  /\ received + n =< Len(Stream)
  /\ received' = received + n
  /\ split_well' = (split_well /\ SplitWell(received + 1, received + n))
  /\ LET data == SubSeq(Stream, received + 1, received + n) IN
     IF Collecting
     THEN LET taken == Taken(n)
              payload == recv_buf \o SubSeq(data, 1, taken)
          IN  IF Len(payload) < PldSize(hdr)
              THEN recv_buf' = payload /\ UNCHANGED <<open, hdr, sock_buf, processed>>
              ELSE Process(hdr, payload, Remaining(data, taken))
     ELSE sock_buf' = data /\ UNCHANGED <<open, hdr, recv_buf, processed>>
  /\ UNCHANGED <<script, astray>>

\* recv returns 0 or an error.
ReadEnd ==
  /\ open
  /\ sock_buf = <<>>
  /\ open' = FALSE
  /\ UNCHANGED <<script, received, hdr, recv_buf, sock_buf, processed, astray, split_well>>

-----------------------------------------------------------------------------
(* ws_frame_parse: one frame of the read *)

\* The header as far as it was received.
Header == hdr \o SubSeq(sock_buf, 1, Least(HdrBuf - Len(hdr), Len(sock_buf)))

Wait == sock_buf' = <<>> /\ UNCHANGED <<open, processed>>

\* The first byte of a header alone.
ParseByte ==
  /\ hdr = <<>> /\ Len(sock_buf) = 1
  /\ hdr' = sock_buf
  /\ Wait
  /\ UNCHANGED <<recv_buf, astray>>

HasTwo == sock_buf # <<>> /\ Len(Header) >= 2

ParseAstray ==
  /\ HasTwo /\ ~Sound(Header)
  /\ astray' = TRUE
  /\ Wait
  /\ UNCHANGED <<hdr, recv_buf>>

Parsing == HasTwo /\ Sound(Header) /\ UNCHANGED astray

\* A part of a header; one of a frame without a payload is not kept.
ParseHeader ==
  /\ Parsing
  /\ \/ PldSize(Header) > 0 /\ ~Reached(Header) /\ hdr' = Header
     \/ PldSize(Header) = 0 /\ Len(sock_buf) < HdrSize /\ UNCHANGED hdr
  /\ Wait
  /\ UNCHANGED recv_buf

\* A frame without a payload ends the loop.
ParseEmpty ==
  /\ Parsing
  /\ PldSize(Header) = 0 /\ Len(sock_buf) >= HdrSize
  /\ Process(Header, <<>>, <<>>)

\* What follows the header.
Payload == SubSeq(sock_buf, HdrSize - Len(hdr) + 1, Len(sock_buf))

ParsePart ==
  /\ Parsing
  /\ PldSize(Header) > Len(Payload) /\ Reached(Header)
  /\ hdr' = SubSeq(Header, 1, HdrSize)
  /\ recv_buf' = Payload
  /\ Wait

\* memmove, from behind a whole header also when a part of it came earlier.
Behind(size) ==
  [i \in 1..(Len(Payload) - size) |->
     IF HdrSize + size + i =< Len(sock_buf) THEN sock_buf[HdrSize + size + i] ELSE Stale]

ParseFrame ==
  /\ Parsing
  /\ PldSize(Header) \in 1..Len(Payload) /\ Reached(Header)
  /\ Process(Header, SubSeq(Payload, 1, PldSize(Header)), Behind(PldSize(Header)))

Parse ==
  /\ open /\ ~astray
  /\ ParseByte \/ ParseAstray \/ ParseHeader \/ ParseEmpty \/ ParsePart \/ ParseFrame
  /\ UNCHANGED <<script, received, split_well>>

-----------------------------------------------------------------------------

Init ==
  /\ script \in Scripts
  /\ received = 0
  /\ open = TRUE
  /\ hdr = <<>>
  /\ recv_buf = <<>>
  /\ sock_buf = <<>>
  /\ processed = <<>>
  /\ astray = FALSE
  /\ split_well = TRUE

Next == ReadEnd \/ Parse \/ \E n \in 1..MaxRead : Read(n)

Spec == Init /\ [][Next]_vars

\* Types; and a payload that is collected is shorter than the buffer made for
\* it, and the buffer is empty in between.
TypeOK ==
  /\ script \in Scripts
  /\ received \in 0..Len(Stream)
  /\ {open, astray, split_well} \subseteq BOOLEAN
  /\ Len(hdr) =< HdrSize
  /\ open => IF Collecting THEN Len(recv_buf) < PldSize(hdr) ELSE recv_buf = <<>>

\* The first n frames, as ws_frame_process is to get them.
Sent(n) ==
  [m \in 1..n |-> [opcode |-> script[m].opcode, key |-> SubSeq(Bytes(m), 3, HdrSize),
                   payload |-> SubSeq(Bytes(m), HdrSize + 1, Len(Bytes(m)))]]

\* ws_frame_handle and ws_frame_parse: every frame is processed once, whole, in
\* order and as soon as it was read, wherever the reads end within a header or
\* a payload, and however many frames with a payload a read holds.  It says
\* nothing once a read was one of those that go wrong in the code: one that goes
\* on behind a frame an earlier read began, and one that holds a frame without
\* a payload in part, or goes on behind it.
FramesProcessed ==
  split_well =>
    /\ ~astray
    /\ Len(processed) =< Len(script) /\ processed = Sent(Len(processed))
    /\ open /\ sock_buf = <<>> =>
         \A n \in DOMAIN script : After(n) =< received <=> n =< Len(processed)

=============================================================================
