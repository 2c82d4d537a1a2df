--------------------------- MODULE WsFramingProofs ---------------------------
(***************************************************************************)
(* Theorems about WsFraming, for every script of frames with payloads of   *)
(* up to ShortPayload bytes and every size of a read.                      *)
(***************************************************************************)
EXTENDS WsFraming, ListLemmas

-----------------------------------------------------------------------------
(* What the client sends, as a function of its script s *)

FrameBytes(s, n) == [at \in 1..(HdrSize + s[n].pld_size) |-> Byte(n, at)]
Pieces(s) == [n \in 1..Len(s) |-> FrameBytes(s, n)]
Sends(s) == FlattenSeq(Pieces(s))

\* How much comes before frame n.
Start(s, n) == Len(FlattenSeq([m \in 1..(n - 1) |-> FrameBytes(s, m)]))

\* A byte of a frame, or what is behind a read.
AnyByte(s) == {Stale} \cup [frame : 1..Len(s), at : Nat \ {0}]

LEMMA FrameBytesTyped ==
  ASSUME NEW s \in Seq(Frame), NEW n \in 1..Len(s)
  PROVE  /\ s[n].pld_size \in Nat /\ s[n].opcode \in Opcodes
         /\ FrameBytes(s, n) \in Seq(AnyByte(s))
         /\ Len(FrameBytes(s, n)) = HdrSize + s[n].pld_size
         /\ \A at \in 1..(HdrSize + s[n].pld_size) : FrameBytes(s, n)[at] = Byte(n, at)
<1> DEFINE f == FrameBytes(s, n)
           l == HdrSize + s[n].pld_size
<1>1. s[n].pld_size \in Nat /\ s[n].opcode \in Opcodes
  <2>1. s[n] \in Frame
    BY ElementOfSeq
  <2>2. s[n].opcode \in Opcodes /\ s[n].pld_size \in 0..ShortPayload
    BY <2>1 DEF Frame
  <2>3. 0..ShortPayload \subseteq Nat
    BY DEF ShortPayload
  <2> QED  BY <2>2, <2>3
<1>2. l \in Nat
  BY <1>1 DEF HdrSize
<1>3. \A at \in 1..l : f[at] = Byte(n, at)
  BY DEF FrameBytes
<1>4. \A at \in 1..l : f[at] \in AnyByte(s)
  <2>1. \A at \in Nat \ {0} : Byte(n, at) \in AnyByte(s)
    BY DEF AnyByte, Byte
  <2>2. 1..l \subseteq Nat \ {0}
    BY <1>2
  <2> HIDE DEF f, l
  <2> QED  BY <1>3, <2>1, <2>2
<1>5. f = [at \in 1..l |-> f[at]]
  BY DEF FrameBytes
<1> HIDE DEF f, l
<1>6. f \in Seq(AnyByte(s)) /\ Len(f) = l
  BY <1>2, <1>4, <1>5, TypedList
<1> QED  BY <1>1, <1>3, <1>6 DEF f, l

LEMMA PiecesTyped ==
  ASSUME NEW s \in Seq(Frame)
  PROVE  /\ Pieces(s) \in Lists(AnyByte(s)) /\ Len(Pieces(s)) = Len(s) /\ Len(s) \in Nat
         /\ \A n \in 1..Len(s) : Pieces(s)[n] = FrameBytes(s, n)
<1> DEFINE p == Pieces(s)
<1>1. Len(s) \in Nat
  BY LenProperties
<1>2. \A n \in 1..Len(s) : p[n] = FrameBytes(s, n)
  BY DEF Pieces
<1>3. \A n \in 1..Len(s) : p[n] \in Seq(AnyByte(s))
  BY <1>2, FrameBytesTyped
<1>4. p = [n \in 1..Len(s) |-> p[n]]
  BY DEF Pieces
<1> HIDE DEF p
<1>5. p \in Seq(Seq(AnyByte(s))) /\ Len(p) = Len(s)
  BY <1>1, <1>3, <1>4, TypedList
<1> QED  BY <1>1, <1>2, <1>5 DEF p, Lists

LEMMA StartIs ==
  ASSUME NEW s \in Seq(Frame), NEW n \in 1..Len(s) + 1
  PROVE  Start(s, n) = Len(UpTo(Pieces(s), n - 1))
<1>1. /\ Pieces(s) \in Lists(AnyByte(s)) /\ Len(Pieces(s)) = Len(s) /\ Len(s) \in Nat
      /\ n - 1 \in Nat /\ n - 1 =< Len(s)
  BY PiecesTyped
<1>2. SubSeq(Pieces(s), 1, n - 1) = [m \in 1..(n - 1) |-> FrameBytes(s, m)]
  <2> DEFINE t == SubSeq(Pieces(s), 1, n - 1)
             u == [m \in 1..(n - 1) |-> FrameBytes(s, m)]
  <2>1. Pieces(s) \in Seq(Seq(AnyByte(s)))
    BY <1>1 DEF Lists
  <2>2. /\ t \in Seq(Seq(AnyByte(s))) /\ Len(t) = n - 1
        /\ \A i \in 1..(n - 1) : t[i] = Pieces(s)[i]
    <3> DEFINE b == n - 1
    <3>1. b \in Nat /\ b =< Len(Pieces(s)) /\ b + 1 - 1 = b
      BY <1>1
    <3> HIDE DEF b
    <3>2. /\ SubSeq(Pieces(s), 1, b) \in Seq(Seq(AnyByte(s)))
          /\ Len(SubSeq(Pieces(s), 1, b)) = b + 1 - 1
          /\ \A i \in 1..(b + 1 - 1) : SubSeq(Pieces(s), 1, b)[i] = Pieces(s)[1 + i - 1]
      BY <2>1, <3>1, PartOf
    <3>3. /\ SubSeq(Pieces(s), 1, b) \in Seq(Seq(AnyByte(s)))
          /\ Len(SubSeq(Pieces(s), 1, b)) = b
          /\ \A i \in 1..b : SubSeq(Pieces(s), 1, b)[i] = Pieces(s)[i]
      BY <3>1, <3>2
    <3> QED  BY <3>3 DEF b
  <2>3. \A i \in 1..(n - 1) : t[i] = u[i]
    BY <1>1, <2>2, PiecesTyped
  <2>4. DOMAIN t = 1..(n - 1) /\ t = [i \in DOMAIN t |-> t[i]]
    <3> HIDE DEF t
    <3> QED  BY <2>2, LenProperties, SeqDef
  <2> HIDE DEF t
  <2> QED  BY <2>3, <2>4 DEF t
<1> QED  BY <1>2 DEF Start, UpTo

LEMMA StartNext ==
  ASSUME NEW s \in Seq(Frame), NEW n \in 1..Len(s)
  PROVE  /\ Start(s, n) \in Nat /\ Start(s, n + 1) \in Nat
         /\ Start(s, n + 1) = Start(s, n) + HdrSize + s[n].pld_size
         /\ Start(s, n + 1) =< Len(Sends(s))
         /\ \A at \in 1..(HdrSize + s[n].pld_size) : Sends(s)[Start(s, n) + at] = Byte(n, at)
<1> DEFINE p == Pieces(s)
           w == HdrSize + s[n].pld_size
<1>1. /\ p \in Lists(AnyByte(s)) /\ Len(p) = Len(s) /\ Len(s) \in Nat
      /\ p[n] = FrameBytes(s, n)
  BY PiecesTyped
<1>2. /\ w \in Nat /\ Len(p[n]) = w /\ \A at \in 1..w : p[n][at] = Byte(n, at)
  BY <1>1, FrameBytesTyped DEF HdrSize
<1>3. Start(s, n) = Len(UpTo(p, n - 1))
  BY <1>1, StartIs
<1>4. Start(s, n + 1) = Len(UpTo(p, n))
  <2> DEFINE m == n + 1
  <2>1. m \in 1..Len(s) + 1 /\ m - 1 = n
    BY <1>1
  <2> HIDE DEF m
  <2>2. Start(s, m) = Len(UpTo(p, m - 1))
    BY <2>1, StartIs
  <2> QED  BY <2>1, <2>2 DEF m
<1>5. /\ Len(UpTo(p, n - 1)) \in Nat
      /\ Len(UpTo(p, n)) = Len(UpTo(p, n - 1)) + Len(p[n])
      /\ Len(UpTo(p, n)) =< Len(FlattenSeq(p))
      /\ \A i \in 1..Len(p[n]) : FlattenSeq(p)[Len(UpTo(p, n - 1)) + i] = p[n][i]
  <2> HIDE DEF p
  <2>1. n \in 1..Len(p)
    BY <1>1
  <2> QED  BY <1>1, <2>1, FlattenAt
<1> HIDE DEF p, w
<1>6. Sends(s) = FlattenSeq(p)
  BY DEF Sends, p
<1>7. \A at \in 1..w : Sends(s)[Start(s, n) + at] = Byte(n, at)
  BY <1>2, <1>3, <1>5, <1>6
<1>8. Start(s, n + 1) = Start(s, n) + w /\ Start(s, n) \in Nat
  BY <1>2, <1>3, <1>4, <1>5
<1>9. Start(s, n + 1) = Start(s, n) + HdrSize + s[n].pld_size
  <2>1. s[n].pld_size \in Nat /\ HdrSize \in Nat
    BY FrameBytesTyped DEF HdrSize
  <2> QED  BY <1>8, <2>1 DEF w
<1> QED  BY <1>2, <1>4, <1>5, <1>6, <1>7, <1>8, <1>9 DEF w

LEMMA SendsTyped ==
  ASSUME NEW s \in Seq(Frame)
  PROVE  /\ Sends(s) \in Seq(AnyByte(s)) /\ Len(Sends(s)) \in Nat
         /\ Start(s, 1) = 0 /\ Start(s, Len(s) + 1) = Len(Sends(s))
<1> DEFINE p == Pieces(s)
<1>1. p \in Lists(AnyByte(s)) /\ Len(p) = Len(s) /\ Len(s) \in Nat
  BY PiecesTyped
<1> HIDE DEF p
<1>2. Sends(s) \in Seq(AnyByte(s)) /\ Len(Sends(s)) \in Nat
  BY <1>1, FlattenTyped, LenProperties DEF Sends, p
<1>3. Start(s, 1) = 0
  <2>1. 1..(1 - 1) = {}
    OBVIOUS
  <2>2. [m \in 1..(1 - 1) |-> FrameBytes(s, m)] = <<>>
    BY <2>1
  <2> QED  BY <2>2, FlattenEmpty, EmptySeq DEF Start
<1>4. Start(s, Len(s) + 1) = Len(Sends(s))
  <2>1. [m \in 1..((Len(s) + 1) - 1) |-> FrameBytes(s, m)] = Pieces(s)
    <3>1. (Len(s) + 1) - 1 = Len(s)
      BY <1>1
    <3> QED  BY <3>1 DEF Pieces
  <2> QED  BY <2>1 DEF Start, Sends
<1> QED  BY <1>2, <1>3, <1>4

\* A later frame comes behind an earlier one.
LEMMA StartsAscend ==
  ASSUME NEW s \in Seq(Frame), NEW m \in 1..Len(s), NEW n \in 1..Len(s) + 1, m < n
  PROVE  Start(s, m + 1) =< Start(s, n)
<1> DEFINE d == n - (m + 1)
           I == {i \in 0..d : Start(s, m + 1) =< Start(s, m + 1 + i)}
<1>1. Len(s) \in Nat /\ d \in Nat
  BY LenProperties
<1>2. Start(s, m + 1) \in Nat
  BY StartNext
<1>3. 0 \in I
  <2>1. m + 1 + 0 = m + 1 /\ 0 \in 0..d
    BY <1>1
  <2> QED  BY <1>2, <2>1
<1>4. ASSUME NEW i \in 0..d, i \in I, i # d
      PROVE  i + 1 \in I
  <2> DEFINE k == m + 1 + i
  <2>1. k \in 1..Len(s) /\ i + 1 \in 0..d /\ k + 1 = m + 1 + (i + 1)
    BY <1>1, <1>4
  <2>2. Start(s, m + 1) =< Start(s, k)
    BY <1>4
  <2> HIDE DEF k
  <2>3. /\ Start(s, k) \in Nat /\ s[k].pld_size \in Nat
        /\ Start(s, k + 1) = Start(s, k) + HdrSize + s[k].pld_size
    BY <2>1, StartNext, FrameBytesTyped
  <2>4. Start(s, m + 1) =< Start(s, k + 1)
    <3>1. HdrSize \in Nat
      BY DEF HdrSize
    <3>2. Start(s, k) =< Start(s, k + 1) /\ Start(s, k + 1) \in Nat
      BY <2>3, <3>1
    <3> QED  BY <1>2, <2>2, <2>3, <3>2
  <2> QED  BY <2>1, <2>4
<1> HIDE DEF I
<1>5. \A i \in 0..d : i \in I
  BY <1>1, <1>3, <1>4, CountedUp
<1>6. d \in I
  BY <1>1, <1>5
<1>7. m + 1 + d = n
  BY <1>1
<1> QED  BY <1>6, <1>7 DEF I

-----------------------------------------------------------------------------
(* The operators of the model *)

LEMMA StreamIs ==
  ASSUME script \in Seq(Frame)
  PROVE  /\ Stream = Sends(script) /\ DOMAIN script = 1..Len(script) /\ Len(script) \in Nat
         /\ \A n : Bytes(n) = FrameBytes(script, n) /\ Before(n) = Start(script, n)
         /\ \A n : After(n) = Start(script, n) + HdrSize + script[n].pld_size
         /\ \A n \in 1..Len(script) : After(n) = Start(script, n + 1)
<1>1. DOMAIN script = 1..Len(script) /\ Len(script) \in Nat
  BY LenProperties
<1>2. \A n : Bytes(n) = FrameBytes(script, n)
  BY DEF Bytes, FrameBytes
<1>3. Stream = Sends(script)
  BY <1>1, <1>2 DEF Stream, Sends, Pieces
<1>4. \A n : Before(n) = Start(script, n)
  BY <1>2 DEF Before, Start
<1>5. \A n : After(n) = Start(script, n) + HdrSize + script[n].pld_size
  BY <1>4 DEF After
<1>6. \A n \in 1..Len(script) : After(n) = Start(script, n + 1)
  BY <1>5, StartNext
<1> QED  BY <1>1, <1>2, <1>3, <1>4, <1>5, <1>6

\* What a header that is where it is expected says is what the client sent.
LEMMA SoundHeader ==
  ASSUME script \in Seq(Frame), NEW h \in Seq(AnyByte(script)), 1 =< Len(h), Sound(h)
  PROVE  /\ h[1].frame \in 1..Len(script)
         /\ PldSize(h) \in Nat /\ PldSize(h) = script[h[1].frame].pld_size
         /\ Opcode(h) \in Opcodes /\ Opcode(h) = script[h[1].frame].opcode
<1>1. h[1] \in AnyByte(script) /\ h[1].at = 1
  BY ElementOfSeq, LenProperties DEF Sound
<1>2. h[1] # Stale
  BY <1>1 DEF Stale, Byte
<1>3. h[1].frame \in 1..Len(script)
  BY <1>1, <1>2 DEF AnyByte
<1> QED  BY <1>3, FrameBytesTyped DEF PldSize, Opcode

\* The header as far as it was received: first what an earlier read brought.
LEMMA HeaderIs ==
  ASSUME NEW S, hdr \in Seq(S), sock_buf \in Seq(S), Len(hdr) =< HdrSize
  PROVE  /\ Header \in Seq(S) /\ Len(Header) \in Nat /\ Len(hdr) \in Nat /\ Len(sock_buf) \in Nat
         /\ Len(Header) = IF Len(hdr) + Len(sock_buf) < HdrBuf THEN Len(hdr) + Len(sock_buf)
                          ELSE HdrBuf
         /\ \A i \in 1..Len(Header) :
              Header[i] = IF i =< Len(hdr) THEN hdr[i] ELSE sock_buf[i - Len(hdr)]
<1> DEFINE k == Least(HdrBuf - Len(hdr), Len(sock_buf))
           t == SubSeq(sock_buf, 1, k)
<1>1. Len(hdr) \in Nat /\ Len(sock_buf) \in Nat
  BY LenProperties
<1>2. k \in Nat /\ k =< Len(sock_buf)
      /\ Len(hdr) + k = IF Len(hdr) + Len(sock_buf) < HdrBuf THEN Len(hdr) + Len(sock_buf)
                        ELSE HdrBuf
  BY <1>1 DEF HdrBuf, HdrSize, Least
<1>3. Header = hdr \o t
  BY DEF Header
<1> HIDE DEF k
<1>4. /\ t \in Seq(S) /\ Len(t) = k
      /\ \A i \in 1..k : t[i] = sock_buf[i]
  <2>1. k + 1 - 1 = k /\ 1 =< k + 1
    BY <1>2
  <2>2. /\ t \in Seq(S) /\ Len(t) = k + 1 - 1
        /\ \A i \in 1..(k + 1 - 1) : t[i] = sock_buf[1 + i - 1]
    BY <1>2, <2>1, PartOf
  <2> HIDE DEF t
  <2>3. \A i \in 1..k : t[i] = sock_buf[i]
    BY <1>2, <2>1, <2>2
  <2> QED  BY <2>1, <2>2, <2>3
<1> HIDE DEF t
<1>5. /\ hdr \o t \in Seq(S) /\ Len(hdr \o t) = Len(hdr) + k
      /\ \A i \in 1..Len(hdr) + k : (hdr \o t)[i] = IF i =< Len(hdr) THEN hdr[i] ELSE t[i - Len(hdr)]
  BY <1>4, ConcatProperties
<1>6. \A i \in 1..Len(hdr) + k :
        (hdr \o t)[i] = IF i =< Len(hdr) THEN hdr[i] ELSE sock_buf[i - Len(hdr)]
  <2>1. \A i \in 1..Len(hdr) + k : i > Len(hdr) => i - Len(hdr) \in 1..k
    BY <1>1, <1>2
  <2> QED  BY <1>1, <1>2, <1>4, <1>5, <2>1
<1>7. Len(Header) = Len(hdr) + k /\ Len(Header) \in Nat
  BY <1>1, <1>2, <1>3, <1>5
<1> QED  BY <1>1, <1>2, <1>3, <1>5, <1>6, <1>7

\* The bytes of a read
LEMMA DataIs ==
  ASSUME script \in Seq(Frame), received \in Nat, NEW n \in Nat, received + n =< Len(Sends(script))
  PROVE  LET data == SubSeq(Stream, received + 1, received + n)
         IN  /\ data \in Seq(AnyByte(script)) /\ Len(data) = n
             /\ \A i \in 1..n : data[i] = Sends(script)[received + i]
<1> DEFINE s == Sends(script)
           b == received + n
<1>1. /\ s \in Seq(AnyByte(script)) /\ Stream = s
      /\ b \in Nat /\ b =< Len(s) /\ b + 1 - (received + 1) = n /\ received + 1 =< b + 1
      /\ \A i \in 1..n : (received + 1) + i - 1 = received + i
  BY SendsTyped, StreamIs
<1> HIDE DEF s, b
<1>2. /\ SubSeq(s, received + 1, b) \in Seq(AnyByte(script))
      /\ Len(SubSeq(s, received + 1, b)) = b + 1 - (received + 1)
      /\ \A i \in 1..(b + 1 - (received + 1)) :
           SubSeq(s, received + 1, b)[i] = s[(received + 1) + i - 1]
  BY <1>1, PartOf
<1> QED  BY <1>1, <1>2 DEF s, b

-----------------------------------------------------------------------------
(* Types *)

\* A payload is collected for a frame of the client, and then nothing waits to
\* be parsed.
Buffers ==
  IF Collecting THEN Sound(hdr) /\ Len(recv_buf) < PldSize(hdr) /\ sock_buf = <<>>
                ELSE recv_buf = <<>>

Shape ==
  /\ script \in Scripts
  /\ received \in 0..Len(Sends(script))
  /\ open \in BOOLEAN /\ astray \in BOOLEAN /\ split_well \in BOOLEAN
  /\ hdr \in Seq(AnyByte(script)) /\ Len(hdr) =< HdrSize
  /\ recv_buf \in Seq(AnyByte(script))
  /\ sock_buf \in Seq(AnyByte(script))
  /\ open => Buffers

LEMMA ShapeTypes ==
  ASSUME Shape
  PROVE  TypeOK
<1>1. script \in Seq(Frame)
  BY WsScriptsAssumption DEF Shape
<1> QED  BY <1>1, StreamIs DEF Shape, Buffers, TypeOK

\* Whatever frame is processed, the buffers are empty afterwards.
LEMMA ProcessShape ==
  ASSUME hdr \in Seq(AnyByte(script)), recv_buf \in Seq(AnyByte(script)), Len(hdr) =< HdrSize,
         NEW h, PldSize(h) \in Nat, NEW payload, NEW rest \in Seq(AnyByte(script)),
         Process(h, payload, rest),
         PldSize(h) = 0 => ~Collecting /\ recv_buf = <<>>
  PROVE  /\ open' \in BOOLEAN
         /\ hdr' \in Seq(AnyByte(script)) /\ Len(hdr') < HdrSize
         /\ recv_buf' = <<>> /\ recv_buf' \in Seq(AnyByte(script))
         /\ sock_buf' \in Seq(AnyByte(script))
<1>1. /\ <<>> \in Seq(AnyByte(script)) /\ Len(<<>>) = 0 /\ Len(hdr) \in Nat
  BY EmptySeq, LenProperties
<1>2. open' \in BOOLEAN /\ sock_buf' \in Seq(AnyByte(script))
  BY <1>1 DEF Process
<1>3. CASE PldSize(h) > 0
  BY <1>1, <1>2, <1>3 DEF Process, Freed, HdrSize
<1>4. CASE PldSize(h) = 0
  BY <1>1, <1>2, <1>4 DEF Process, Collecting, Reached, HdrSize
<1> QED  BY <1>3, <1>4

\* What is left of the data of a read when taken bytes of it are.
LEMMA RemainingTyped ==
  ASSUME NEW S, NEW data \in Seq(S), NEW taken \in 0..Len(data)
  PROVE  Remaining(data, taken) \in Seq(S)
<1>1. Len(data) \in Nat
  BY LenProperties
<1>2. CASE taken = Len(data)
  BY <1>2, EmptySeq DEF Remaining
<1>3. CASE taken # Len(data)
  <2> DEFINE k == Len(data)
             b == SubSeq(data, taken + 1, k)
             c == SubSeq(data, k - taken + 1, k)
  <2>1. b \in Seq(S)
    <3>1. taken + 1 \in Nat /\ 1 =< taken + 1 /\ taken + 1 =< k + 1 /\ k \in Nat /\ k =< Len(data)
      BY <1>1
    <3> HIDE DEF k
    <3> QED  BY <3>1, PartOf
  <2>2. c \in Seq(S)
    <3>1. /\ k - taken + 1 \in Nat /\ 1 =< k - taken + 1 /\ k - taken + 1 =< k + 1
          /\ k \in Nat /\ k =< Len(data)
      BY <1>1
    <3> HIDE DEF k
    <3> QED  BY <3>1, PartOf
  <2>3. Remaining(data, taken) = b \o c
    BY <1>3 DEF Remaining
  <2> HIDE DEF b, c
  <2> QED  BY <2>1, <2>2, <2>3, ConcatProperties
<1> QED  BY <1>2, <1>3

\* The payload that is collected, with what a read brings of it.
LEMMA CollectedIs ==
  ASSUME NEW S, recv_buf \in Seq(S), NEW data \in Seq(S), NEW taken \in 0..Len(data)
  PROVE  LET payload == recv_buf \o SubSeq(data, 1, taken)
         IN  /\ payload \in Seq(S) /\ Len(payload) = Len(recv_buf) + taken
             /\ Len(recv_buf) \in Nat
             /\ \A i \in 1..Len(recv_buf) + taken :
                  payload[i] = IF i =< Len(recv_buf) THEN recv_buf[i] ELSE data[i - Len(recv_buf)]
<1> DEFINE t == SubSeq(data, 1, taken)
<1>1. Len(data) \in Nat /\ Len(recv_buf) \in Nat
  BY LenProperties
<1>2. t \in Seq(S) /\ Len(t) = taken /\ \A i \in 1..taken : t[i] = data[i]
  <2>1. taken + 1 - 1 = taken /\ 1 =< taken + 1 /\ taken \in Nat /\ taken =< Len(data)
    BY <1>1
  <2>2. /\ t \in Seq(S) /\ Len(t) = taken + 1 - 1
        /\ \A i \in 1..(taken + 1 - 1) : t[i] = data[1 + i - 1]
    BY <2>1, PartOf
  <2> HIDE DEF t
  <2>3. \A i \in 1..taken : t[i] = data[i]
    BY <2>1, <2>2
  <2> QED  BY <2>1, <2>2, <2>3
<1> HIDE DEF t
<1>3. /\ recv_buf \o t \in Seq(S) /\ Len(recv_buf \o t) = Len(recv_buf) + taken
      /\ \A i \in 1..Len(recv_buf) + taken :
           (recv_buf \o t)[i] = IF i =< Len(recv_buf) THEN recv_buf[i] ELSE t[i - Len(recv_buf)]
  BY <1>2, ConcatProperties
<1>4. \A i \in 1..Len(recv_buf) + taken :
        (recv_buf \o t)[i] = IF i =< Len(recv_buf) THEN recv_buf[i] ELSE data[i - Len(recv_buf)]
  <2>1. \A i \in 1..Len(recv_buf) + taken : i > Len(recv_buf) => i - Len(recv_buf) \in 1..taken
    BY <1>1
  <2> QED  BY <1>1, <1>2, <1>3, <2>1
<1> QED  BY <1>1, <1>3, <1>4 DEF t

LEMMA ReadShape ==
  ASSUME Shape, NEW n \in 1..MaxRead, Read(n)
  PROVE  Shape'
<1> DEFINE S == AnyByte(script)
           data == SubSeq(Stream, received + 1, received + n)
<1>1. /\ script \in Seq(Frame) /\ received \in Nat /\ n \in Nat /\ n > 0
      /\ Len(Sends(script)) \in Nat /\ Stream = Sends(script)
      /\ open /\ Buffers
  BY WsScriptsAssumption, ReadAssumption, SendsTyped, StreamIs DEF Shape, Read
<1>2. /\ received + n =< Len(Sends(script)) /\ received' = received + n
      /\ UNCHANGED <<script, astray>>
  BY <1>1 DEF Read
<1>3. data \in Seq(S) /\ Len(data) = n
  BY <1>1, <1>2, DataIs
<1>4. split_well' \in BOOLEAN
  BY DEF Read, Shape
<1>5. /\ hdr \in Seq(S) /\ Len(hdr) =< HdrSize /\ Len(hdr) \in Nat
      /\ recv_buf \in Seq(S) /\ Len(recv_buf) \in Nat
      /\ sock_buf \in Seq(S)
  BY LenProperties DEF Shape
<1>6. script' \in Scripts /\ received' \in 0..Len(Sends(script')) /\ astray' \in BOOLEAN
      /\ AnyByte(script') = S
  BY <1>1, <1>2 DEF Shape
<1> HIDE DEF S
<1>7. CASE ~Collecting
  <2>1. sock_buf' = data /\ UNCHANGED <<open, hdr, recv_buf>>
    BY <1>7 DEF Read
  <2>2. Buffers'
    BY <1>1, <1>7, <2>1 DEF Buffers, Collecting, Reached
  <2> QED  BY <1>3, <1>4, <1>5, <1>6, <2>1, <2>2 DEF Shape
<1>8. CASE Collecting
  <2> DEFINE taken == Taken(n)
             payload == recv_buf \o SubSeq(data, 1, taken)
  <2>1. Sound(hdr) /\ Len(recv_buf) < PldSize(hdr) /\ sock_buf = <<>>
    BY <1>1, <1>8 DEF Buffers
  <2>2. PldSize(hdr) \in Nat /\ PldSize(hdr) # 0 /\ 1 =< Len(hdr)
    BY <1>1, <1>5, <1>8, <2>1, SoundHeader DEF S, Collecting, Reached, HdrSize
  <2>3. taken \in 0..Len(data)
    BY <1>1, <1>3, <1>5, <2>1, <2>2 DEF Taken, Least
  <2>4. IF Len(payload) < PldSize(hdr)
        THEN recv_buf' = payload /\ UNCHANGED <<open, hdr, sock_buf, processed>>
        ELSE Process(hdr, payload, Remaining(data, taken))
    BY <1>8 DEF Read
  <2> HIDE DEF taken, data
  <2>5. payload \in Seq(S)
    BY <1>3, <1>5, <2>3, CollectedIs
  <2> HIDE DEF payload
  <2>6. CASE Len(payload) < PldSize(hdr)
    <3>1. recv_buf' = payload /\ UNCHANGED <<open, hdr, sock_buf>>
      BY <2>4, <2>6
    <3>2. PldSize(hdr)' = PldSize(hdr) /\ Sound(hdr)' /\ Collecting'
      BY <1>2, <1>8, <2>1, <3>1 DEF PldSize, Sound, Collecting, Reached
    <3>3. Buffers'
      BY <2>1, <2>6, <3>1, <3>2 DEF Buffers
    <3> QED  BY <1>1, <1>4, <1>5, <1>6, <2>5, <3>1, <3>3 DEF Shape
  <2>7. CASE ~(Len(payload) < PldSize(hdr))
    <3>1. Process(hdr, payload, Remaining(data, taken))
      BY <2>4, <2>7
    <3>2. Remaining(data, taken) \in Seq(S)
      BY <1>3, <2>3, RemainingTyped
    <3>3. /\ open' \in BOOLEAN
          /\ hdr' \in Seq(S) /\ Len(hdr') < HdrSize
          /\ recv_buf' = <<>> /\ recv_buf' \in Seq(S) /\ sock_buf' \in Seq(S)
      BY <1>5, <2>2, <3>1, <3>2, ProcessShape DEF S
    <3>4. Len(hdr') \in Nat
      BY <3>3, LenProperties
    <3>5. Buffers' /\ Len(hdr') =< HdrSize
      BY <3>3, <3>4 DEF Buffers, Collecting, Reached, HdrSize
    <3> QED  BY <1>4, <1>6, <3>3, <3>5 DEF Shape
  <2> QED  BY <2>6, <2>7
<1> QED  BY <1>7, <1>8

\* What follows the header.
LEMMA PayloadIs ==
  ASSUME NEW S, hdr \in Seq(S), sock_buf \in Seq(S), Len(hdr) =< HdrSize, Reached(Header)
  PROVE  /\ Payload \in Seq(S) /\ Len(Payload) \in Nat
         /\ Len(Payload) = Len(hdr) + Len(sock_buf) - HdrSize
         /\ \A i \in 1..Len(Payload) : Payload[i] = sock_buf[HdrSize - Len(hdr) + i]
<1> DEFINE a == HdrSize - Len(hdr) + 1
           k == Len(sock_buf)
<1>1. /\ Len(hdr) \in Nat /\ k \in Nat /\ HdrSize = 6
      /\ Len(hdr) + k >= HdrSize
  BY HeaderIs, LenProperties DEF Reached, HdrSize, HdrBuf
<1>2. a \in Nat /\ 1 =< a /\ a =< k + 1 /\ k =< Len(sock_buf)
  BY <1>1
<1>3. k + 1 - a = Len(hdr) + k - HdrSize
  BY <1>1
<1>4. \A i \in Nat : a + i - 1 = HdrSize - Len(hdr) + i
  BY <1>1
<1>5. Payload = SubSeq(sock_buf, a, k)
  BY DEF Payload
<1>6. k + 1 - a \in Nat
  BY <1>1, <1>2
<1> HIDE DEF a, k
<1>7. /\ Payload \in Seq(S) /\ Len(Payload) = k + 1 - a
      /\ \A i \in 1..(k + 1 - a) : Payload[i] = sock_buf[a + i - 1]
  BY <1>1, <1>2, <1>5, PartOf
<1>8. \A i \in 1..Len(Payload) : Payload[i] = sock_buf[HdrSize - Len(hdr) + i]
  BY <1>4, <1>6, <1>7
<1> QED  BY <1>3, <1>6, <1>7, <1>8 DEF k

LEMMA BehindTyped ==
  ASSUME script \in Seq(Frame), sock_buf \in Seq(AnyByte(script)), NEW size \in Nat,
         Len(Payload) \in Nat, size =< Len(Payload)
  PROVE  /\ Behind(size) \in Seq(AnyByte(script))
         /\ Len(Behind(size)) = Len(Payload) - size
<1> DEFINE b == Behind(size)
           n == Len(Payload) - size
<1>1. n \in Nat /\ Stale \in AnyByte(script) /\ HdrSize \in Nat
      /\ Len(sock_buf) \in Nat /\ \A i \in 1..Len(sock_buf) : sock_buf[i] \in AnyByte(script)
  BY LenProperties, ElementOfSeq DEF AnyByte, HdrSize
<1>2. \A i \in 1..n : b[i] \in AnyByte(script)
  <2>1. TAKE i \in 1..n
  <2>2. b[i] = IF HdrSize + size + i =< Len(sock_buf) THEN sock_buf[HdrSize + size + i] ELSE Stale
    BY DEF Behind
  <2>3. CASE HdrSize + size + i =< Len(sock_buf)
    <3>1. HdrSize + size + i \in 1..Len(sock_buf)
      BY <1>1, <2>3
    <3> HIDE DEF b
    <3> QED  BY <1>1, <2>2, <2>3, <3>1
  <2>4. CASE ~(HdrSize + size + i =< Len(sock_buf))
    BY <1>1, <2>2, <2>4
  <2> QED  BY <2>3, <2>4
<1>3. b = [i \in 1..n |-> b[i]]
  BY DEF Behind
<1> HIDE DEF b, n
<1>4. b \in Seq(AnyByte(script)) /\ Len(b) = n
  BY <1>1, <1>2, <1>3, TypedList
<1> QED  BY <1>4 DEF b, n

\* While something is to be parsed no payload is being collected.
LEMMA ParseFrom ==
  ASSUME Shape, open, sock_buf # <<>>
  PROVE  /\ script \in Seq(Frame) /\ ~Collecting /\ recv_buf = <<>>
         /\ hdr \in Seq(AnyByte(script)) /\ sock_buf \in Seq(AnyByte(script))
         /\ Len(hdr) \in Nat /\ Len(hdr) < HdrSize
         /\ Len(sock_buf) \in Nat /\ Len(sock_buf) > 0
         /\ Header \in Seq(AnyByte(script)) /\ Len(Header) \in Nat
         /\ Len(Header) = IF Len(hdr) + Len(sock_buf) < HdrBuf THEN Len(hdr) + Len(sock_buf)
                          ELSE HdrBuf
         /\ \A i \in 1..Len(Header) :
              Header[i] = IF i =< Len(hdr) THEN hdr[i] ELSE sock_buf[i - Len(hdr)]
<1>1. /\ script \in Seq(Frame) /\ ~Collecting /\ recv_buf = <<>>
      /\ hdr \in Seq(AnyByte(script)) /\ sock_buf \in Seq(AnyByte(script))
      /\ Len(hdr) =< HdrSize
  BY WsScriptsAssumption DEF Shape, Buffers
<1>2. /\ Len(hdr) \in Nat /\ Len(hdr) < HdrSize /\ Len(sock_buf) \in Nat /\ Len(sock_buf) > 0
  BY <1>1, LenProperties, EmptySeq DEF Collecting, Reached, HdrSize
<1> QED  BY <1>1, <1>2, HeaderIs

\* A part of a frame is kept, or nothing: the read is used up.
LEMMA WaitShape ==
  ASSUME Shape, open, Wait, UNCHANGED <<script, received, split_well>>, astray' \in BOOLEAN,
         hdr' \in Seq(AnyByte(script)), Len(hdr') =< HdrSize,
         recv_buf' \in Seq(AnyByte(script)),
         \/ Len(hdr') < HdrSize /\ recv_buf' = <<>>
         \/ Len(hdr') = HdrSize /\ Sound(hdr)' /\ Len(recv_buf') < PldSize(hdr)'
  PROVE  Shape'
<1>1. sock_buf' = <<>> /\ UNCHANGED open /\ <<>> \in Seq(AnyByte(script)) /\ Len(hdr') \in Nat
  BY LenProperties, EmptySeq DEF Wait
<1>2. CASE Len(hdr') < HdrSize /\ recv_buf' = <<>>
  <2>1. ~Collecting'
    BY <1>1, <1>2 DEF Collecting, Reached, HdrSize
  <2>2. Buffers'
    BY <1>2, <2>1 DEF Buffers
  <2> QED  BY <1>1, <2>2 DEF Shape
<1>3. CASE Len(hdr') = HdrSize /\ Sound(hdr)' /\ Len(recv_buf') < PldSize(hdr)'
  <2>1. Collecting'
    BY <1>1, <1>3 DEF Collecting, Reached, HdrSize
  <2>2. Buffers'
    BY <1>1, <1>3, <2>1 DEF Buffers
  <2> QED  BY <1>1, <2>2 DEF Shape
<1> QED  BY <1>2, <1>3

LEMMA FrameShape ==
  ASSUME Shape, open, sock_buf # <<>>, UNCHANGED <<script, received, split_well, astray>>,
         PldSize(Header) \in Nat, NEW payload, NEW rest \in Seq(AnyByte(script)),
         Process(Header, payload, rest)
  PROVE  Shape'
<1>1. /\ open' \in BOOLEAN
      /\ hdr' \in Seq(AnyByte(script)) /\ Len(hdr') < HdrSize
      /\ recv_buf' = <<>> /\ recv_buf' \in Seq(AnyByte(script))
      /\ sock_buf' \in Seq(AnyByte(script))
  BY ParseFrom, ProcessShape DEF Shape
<1>2. Len(hdr') \in Nat
  BY <1>1, LenProperties
<1>3. Buffers' /\ Len(hdr') =< HdrSize
  BY <1>1, <1>2 DEF Buffers, Collecting, Reached, HdrSize
<1> QED  BY <1>1, <1>3 DEF Shape

\* The header that is kept of a frame whose payload is not whole.
LEMMA HeaderKept ==
  ASSUME Shape, open, sock_buf # <<>>, Reached(Header)
  PROVE  LET h == SubSeq(Header, 1, HdrSize)
         IN  /\ h \in Seq(AnyByte(script)) /\ Len(h) = HdrSize
             /\ \A i \in 1..HdrSize : h[i] = Header[i]
<1> DEFINE h == SubSeq(Header, 1, HdrSize)
           S == AnyByte(script)
<1>1. HdrSize + 1 - 1 = HdrSize /\ 1 =< HdrSize + 1 /\ HdrSize \in Nat /\ 1 \in Nat
  BY DEF HdrSize
<1>2. Header \in Seq(S) /\ HdrSize =< Len(Header)
  BY ParseFrom DEF Reached
<1> HIDE DEF S
<1>3. /\ h \in Seq(S) /\ Len(h) = HdrSize + 1 - 1
      /\ \A i \in 1..(HdrSize + 1 - 1) : h[i] = Header[1 + i - 1]
  BY <1>1, <1>2, PartOf
<1> HIDE DEF h
<1>4. \A i \in 1..HdrSize : h[i] = Header[i]
  BY <1>1, <1>3
<1> QED  BY <1>1, <1>3, <1>4 DEF h, S

LEMMA ParseShape ==
  ASSUME Shape, Parse
  PROVE  Shape'
<1>1. open /\ UNCHANGED <<script, received, split_well>>
  BY DEF Parse
<1>2. CASE ParseByte
  <2>1. /\ Len(sock_buf) = 1 /\ hdr' = sock_buf /\ Wait /\ UNCHANGED <<recv_buf, astray>>
    BY <1>2 DEF ParseByte
  <2>2. sock_buf # <<>>
    <3>1. Len(<<>>) = 0
      OBVIOUS
    <3> QED  BY <2>1, <3>1
  <2>3. recv_buf = <<>> /\ sock_buf \in Seq(AnyByte(script))
    BY <1>1, <2>2, ParseFrom
  <2>4. Len(hdr') < HdrSize /\ Len(hdr') =< HdrSize
    BY <2>1 DEF HdrSize
  <2> QED  BY <1>1, <2>1, <2>3, <2>4, WaitShape DEF Shape
<1>3. CASE ParseAstray
  <2>1. sock_buf # <<>> /\ astray' = TRUE /\ Wait /\ UNCHANGED <<hdr, recv_buf>>
    BY <1>3 DEF ParseAstray, HasTwo
  <2>2. recv_buf = <<>> /\ Len(hdr) < HdrSize
    BY <1>1, <2>1, ParseFrom
  <2> QED  BY <1>1, <2>1, <2>2, WaitShape DEF Shape
<1>4. ASSUME Parsing
      PROVE  /\ sock_buf # <<>> /\ UNCHANGED astray /\ Sound(Header)
             /\ PldSize(Header) \in Nat /\ 2 =< Len(Header)
  <2>1. sock_buf # <<>> /\ UNCHANGED astray /\ Sound(Header) /\ 2 =< Len(Header)
    BY <1>4 DEF Parsing, HasTwo
  <2> QED  BY <1>1, <2>1, ParseFrom, SoundHeader
<1>5. CASE ParseHeader
  <2>1. /\ sock_buf # <<>> /\ UNCHANGED astray /\ Wait /\ UNCHANGED recv_buf
    BY <1>4, <1>5 DEF ParseHeader
  <2>2. /\ recv_buf = <<>> /\ Len(hdr) < HdrSize /\ hdr \in Seq(AnyByte(script))
        /\ Header \in Seq(AnyByte(script)) /\ Len(Header) \in Nat
    BY <1>1, <2>1, ParseFrom
  <2>3. UNCHANGED hdr \/ (hdr' = Header /\ Len(Header) < HdrSize)
    BY <1>5, <2>2 DEF ParseHeader, Reached, HdrSize
  <2>4. hdr' \in Seq(AnyByte(script)) /\ Len(hdr') < HdrSize /\ Len(hdr') =< HdrSize
    BY <2>2, <2>3, LenProperties DEF HdrSize
  <2> QED  BY <1>1, <2>1, <2>2, <2>4, WaitShape DEF Shape
<1>6. CASE ParseEmpty
  <2>1. <<>> \in Seq(AnyByte(script)) /\ Process(Header, <<>>, <<>>)
    BY <1>6, EmptySeq DEF ParseEmpty
  <2> QED  BY <1>1, <1>4, <1>6, <2>1, FrameShape DEF ParseEmpty
<1>7. CASE ParsePart
  <2>1. /\ sock_buf # <<>> /\ Sound(Header) /\ UNCHANGED astray /\ Wait
        /\ PldSize(Header) > Len(Payload) /\ Reached(Header)
        /\ hdr' = SubSeq(Header, 1, HdrSize) /\ recv_buf' = Payload
    BY <1>4, <1>7 DEF ParsePart
  <2>2. /\ hdr' \in Seq(AnyByte(script)) /\ Len(hdr') = HdrSize
        /\ \A i \in 1..HdrSize : hdr'[i] = Header[i]
    BY <1>1, <2>1, HeaderKept
  <2>3. hdr'[1] = Header[1] /\ hdr'[2] = Header[2] /\ Len(hdr') =< HdrSize
    BY <2>2 DEF HdrSize
  <2>4. recv_buf' \in Seq(AnyByte(script))
    <3>1. /\ hdr \in Seq(AnyByte(script)) /\ sock_buf \in Seq(AnyByte(script))
          /\ Len(hdr) =< HdrSize
      BY <1>1, <2>1, ParseFrom DEF HdrSize
    <3> QED  BY <2>1, <3>1, PayloadIs
  <2>5. Sound(hdr)' /\ Len(recv_buf') < PldSize(hdr)'
    <3>1. PldSize(hdr)' = PldSize(Header)
      BY <1>1, <2>3 DEF PldSize
    <3> QED  BY <2>1, <2>3, <3>1 DEF Sound
  <2> QED  BY <1>1, <2>1, <2>2, <2>3, <2>4, <2>5, WaitShape DEF Shape
<1>8. CASE ParseFrame
  <2>1. /\ PldSize(Header) \in 1..Len(Payload) /\ Reached(Header)
        /\ Process(Header, SubSeq(Payload, 1, PldSize(Header)), Behind(PldSize(Header)))
        /\ sock_buf # <<>> /\ PldSize(Header) \in Nat /\ UNCHANGED astray
    BY <1>4, <1>8 DEF ParseFrame
  <2>2. script \in Seq(Frame) /\ sock_buf \in Seq(AnyByte(script)) /\ Len(Payload) \in Nat
    BY <1>1, <2>1, ParseFrom, PayloadIs
  <2>3. Behind(PldSize(Header)) \in Seq(AnyByte(script))
    BY <2>1, <2>2, BehindTyped
  <2> QED  BY <1>1, <2>1, <2>3, FrameShape
<1> QED  BY <1>2, <1>3, <1>5, <1>6, <1>7, <1>8 DEF Parse, ParseHeader, ParseEmpty, ParsePart, ParseFrame

LEMMA InitShape ==
  ASSUME Init
  PROVE  Shape
<1>1. script \in Seq(Frame)
  BY WsScriptsAssumption DEF Init
<1>2. /\ <<>> \in Seq(AnyByte(script)) /\ Len(<<>>) = 0 /\ Len(Sends(script)) \in Nat
  BY <1>1, EmptySeq, SendsTyped
<1>3. Buffers
  BY <1>2 DEF Init, Buffers, Collecting, Reached, HdrSize
<1>4. /\ received = 0 /\ open = TRUE /\ astray = FALSE /\ split_well = TRUE
      /\ hdr = <<>> /\ recv_buf = <<>> /\ sock_buf = <<>> /\ script \in Scripts
  BY DEF Init
<1>5. received \in 0..Len(Sends(script)) /\ Len(hdr) =< HdrSize
  BY <1>2, <1>4 DEF HdrSize
<1> QED  BY <1>2, <1>3, <1>4, <1>5 DEF Shape

LEMMA NextShape ==
  ASSUME Shape, [Next]_vars
  PROVE  Shape'
<1>1. CASE ReadEnd
  BY <1>1 DEF ReadEnd, Shape
<1>2. CASE UNCHANGED vars
  BY <1>2 DEF vars, Shape, Buffers, Collecting, Sound, PldSize
<1> QED  BY <1>1, <1>2, ReadShape, ParseShape DEF Next

\* The header and the payload of a frame stay within the buffers made for
\* them: the header buffer is not read beyond a header, and no more of a payload
\* is collected than its frame has, wherever the reads end.
THEOREM TypeCorrect == Spec => []TypeOK
<1>1. Init => Shape
  BY InitShape
<1>2. Shape /\ [Next]_vars => Shape'
  BY NextShape
<1>3. Shape => TypeOK
  BY ShapeTypes
<1> QED  BY <1>1, <1>2, <1>3, PTL DEF Spec

-----------------------------------------------------------------------------
(* Where the bytes are: n frames of script s are processed, r bytes of it were *)
(* read, and h, p and q hold what is left of them, as hdr, recv_buf and        *)
(* sock_buf do                                                                 *)

InPlace(s, b, at) == \A i \in 1..Len(b) : b[i] = Sends(s)[at + i]

\* A frame that is begun is not read beyond.
WithinFrame(s, n, r, h, q) == h # <<>> /\ q # <<>> => r =< Start(s, n + 2)

\* A frame without a payload is read at once, and ends the read.
EmptyWhole(s, n, r, h) ==
  \A m \in 1..Len(s) :
    s[m].pld_size = 0 /\ Start(s, m) < r =>
      /\ Start(s, m + 1) =< r
      /\ m > n => Start(s, m + 1) = r
      /\ m = n + 1 => h = <<>>

Pending(s, n, r, h, p, q) ==
  /\ Start(s, n + 1) + Len(h) + Len(p) + Len(q) = r
  /\ InPlace(s, h, Start(s, n + 1))
  /\ InPlace(s, p, Start(s, n + 1) + Len(h))
  /\ InPlace(s, q, Start(s, n + 1) + Len(h) + Len(p))
  /\ WithinFrame(s, n, r, h, q)
  /\ EmptyWhole(s, n, r, h)
  /\ q = <<>> /\ n < Len(s) => r < Start(s, n + 2)

LEMMA StartTyped ==
  ASSUME NEW s \in Seq(Frame), NEW n \in 1..Len(s) + 1
  PROVE  Start(s, n) \in Nat /\ Len(s) \in Nat
<1>1. Len(s) \in Nat
  BY LenProperties
<1>2. CASE n = Len(s) + 1
  BY <1>1, <1>2, SendsTyped
<1>3. CASE n # Len(s) + 1
  <2>1. n \in 1..Len(s)
    BY <1>1, <1>3
  <2> QED  BY <1>1, <2>1, StartNext
<1> QED  BY <1>2, <1>3

\* The frame that comes next.
LEMMA NextFrame ==
  ASSUME NEW s \in Seq(Frame), NEW n \in 0..Len(s), n < Len(s)
  PROVE  /\ n + 1 \in 1..Len(s) /\ Len(s) \in Nat
         /\ Start(s, n + 1) \in Nat /\ Start(s, n + 2) \in Nat /\ s[n + 1].pld_size \in Nat
         /\ Start(s, n + 2) = Start(s, n + 1) + HdrSize + s[n + 1].pld_size
         /\ Start(s, n + 2) =< Len(Sends(s)) /\ Len(Sends(s)) \in Nat
         /\ \A i \in 1..(HdrSize + s[n + 1].pld_size) :
              Sends(s)[Start(s, n + 1) + i] = Byte(n + 1, i)
         /\ \A m \in 1..Len(s) : m > n + 1 => Start(s, n + 2) =< Start(s, m)
<1> DEFINE k == n + 1
<1>1. k \in 1..Len(s) /\ Len(s) \in Nat /\ k + 1 = n + 2
  BY LenProperties
<1> HIDE DEF k
<1>2. /\ Start(s, k) \in Nat /\ Start(s, k + 1) \in Nat /\ s[k].pld_size \in Nat
      /\ Start(s, k + 1) = Start(s, k) + HdrSize + s[k].pld_size
      /\ Start(s, k + 1) =< Len(Sends(s))
      /\ \A i \in 1..(HdrSize + s[k].pld_size) : Sends(s)[Start(s, k) + i] = Byte(k, i)
  BY <1>1, StartNext, FrameBytesTyped
<1>3. \A m \in 1..Len(s) : m > k => Start(s, k + 1) =< Start(s, m)
  <2>1. \A m \in 1..Len(s) : m \in 1..Len(s) + 1
    BY <1>1
  <2> QED  BY <1>1, <2>1, StartsAscend
<1>4. Len(Sends(s)) \in Nat
  BY SendsTyped
<1> QED  BY <1>1, <1>2, <1>3, <1>4 DEF k

\* Bytes are pending of a frame only.
LEMMA PendingFrame ==
  ASSUME NEW s \in Seq(Frame), NEW n \in 0..Len(s), NEW r \in 0..Len(Sends(s)),
         Start(s, n + 1) < r
  PROVE  n < Len(s)
<1>1. Len(s) \in Nat /\ Len(Sends(s)) \in Nat /\ Start(s, Len(s) + 1) = Len(Sends(s))
  BY SendsTyped, LenProperties
<1>2. CASE n = Len(s)
  BY <1>1, <1>2
<1> QED  BY <1>1, <1>2

LEMMA FrameDone ==
  ASSUME NEW s \in Seq(Frame), NEW n \in 0..Len(s), n < Len(s), NEW r \in 0..Len(Sends(s)),
         NEW h, EmptyWhole(s, n, r, h), NEW q, Len(q) \in Nat, q = <<>> => Len(q) = 0,
         Start(s, n + 2) + Len(q) = r, InPlace(s, q, Start(s, n + 2))
  PROVE  Pending(s, n + 1, r, <<>>, <<>>, q)
<1> DEFINE k == n + 1
<1>1. /\ k \in 1..Len(s) /\ k \in 0..Len(s) /\ k + 1 = n + 2 /\ Len(s) \in Nat
      /\ Start(s, k + 1) \in Nat
  BY NextFrame
<1>2. Len(<<>>) = 0 /\ \A at : InPlace(s, <<>>, at)
  BY DEF InPlace
<1>3. WithinFrame(s, k, r, <<>>, q)
  BY DEF WithinFrame
<1>4. EmptyWhole(s, k, r, <<>>)
  BY <1>1 DEF EmptyWhole
<1>5. ASSUME q = <<>>, k < Len(s)
      PROVE  r < Start(s, k + 2)
  <2> HIDE DEF k
  <2>1. /\ Start(s, k + 2) = Start(s, k + 1) + HdrSize + s[k + 1].pld_size
        /\ s[k + 1].pld_size \in Nat
    BY <1>1, <1>5, NextFrame
  <2>2. r = Start(s, k + 1) /\ r \in Nat
    BY <1>1, <1>5
  <2>3. HdrSize \in Nat \ {0}
    BY DEF HdrSize
  <2>4. Start(s, k + 2) > Start(s, k + 1)
    <3>1. \A x, y \in Nat, z \in Nat \ {0} : x + z + y > x
      OBVIOUS
    <3>2. Start(s, k + 1) \in Nat
      BY <1>1
    <3> QED  BY <2>1, <2>3, <3>1, <3>2
  <2> QED  BY <2>2, <2>4
<1>6. /\ Start(s, k + 1) + Len(<<>>) + Len(<<>>) + Len(q) = r
      /\ InPlace(s, q, Start(s, k + 1) + Len(<<>>) + Len(<<>>))
  <2>1. Start(s, k + 1) + Len(<<>>) + Len(<<>>) = Start(s, k + 1)
    BY <1>1, <1>2
  <2> QED  BY <1>1, <2>1
<1> HIDE DEF k
<1>7. Pending(s, k, r, <<>>, <<>>, q)
  BY <1>2, <1>3, <1>4, <1>5, <1>6 DEF Pending
<1> QED  BY <1>7 DEF k

\* A part of a frame with a payload is kept.
LEMMA FramePart ==
  ASSUME NEW s \in Seq(Frame), NEW n \in 0..Len(s), n < Len(s), NEW r \in 0..Len(Sends(s)),
         NEW h, EmptyWhole(s, n, r, h), s[n + 1].pld_size > 0, r < Start(s, n + 2),
         NEW u, NEW v, Start(s, n + 1) + Len(u) + Len(v) = r,
         Len(u) \in Nat, Len(v) \in Nat,
         InPlace(s, u, Start(s, n + 1)), InPlace(s, v, Start(s, n + 1) + Len(u))
  PROVE  Pending(s, n, r, u, v, <<>>)
<1>1. /\ Start(s, n + 1) \in Nat /\ Start(s, n + 2) \in Nat /\ s[n + 1].pld_size \in Nat
      /\ \A m \in 1..Len(s) : m > n + 1 => Start(s, n + 2) =< Start(s, m)
      /\ \A m \in 1..Len(s) : Start(s, m) \in Nat
  <2>1. \A m \in 1..Len(s) : Start(s, m) \in Nat
    BY StartNext
  <2> QED  BY <2>1, NextFrame
<1>2. Len(<<>>) = 0 /\ \A at : InPlace(s, <<>>, at)
  BY DEF InPlace
<1>3. WithinFrame(s, n, r, u, <<>>)
  BY DEF WithinFrame
<1>4. EmptyWhole(s, n, r, u)
  <2> SUFFICES ASSUME NEW m \in 1..Len(s), s[m].pld_size = 0, Start(s, m) < r
               PROVE  Start(s, m + 1) =< r /\ m =< n
    BY DEF EmptyWhole
  <2>1. m # n + 1 /\ ~(m > n + 1)
    <3>1. m # n + 1
      OBVIOUS
    <3>2. m > n + 1 => r < Start(s, m)
      BY <1>1
    <3>3. Start(s, m) \in Nat /\ r \in Nat
      BY <1>1
    <3> QED  BY <3>1, <3>2, <3>3
  <2>2. m =< n
    BY <2>1
  <2> QED  BY <2>2 DEF EmptyWhole
<1>5. Start(s, n + 1) + Len(u) + Len(v) + Len(<<>>) = r
  BY <1>1, <1>2
<1> QED  BY <1>2, <1>3, <1>4, <1>5 DEF Pending

\* SplitWell, of a read behind the first r bytes that ends with byte l
SplitOf(s, r, l) ==
  \A m \in 1..Len(s) :
    /\ Start(s, m) < r /\ r < Start(s, m + 1) => l =< Start(s, m + 1)
    /\ s[m].pld_size = 0 /\ r < Start(s, m + 1) /\ Start(s, m) < l
         => r =< Start(s, m) /\ l = Start(s, m + 1)

\* The data of a read comes behind what is kept.
LEMMA DataPending ==
  ASSUME NEW s \in Seq(Frame), NEW n \in 0..Len(s), NEW r \in Nat, NEW l \in 0..Len(Sends(s)),
         r < l, NEW h, NEW p, Pending(s, n, r, h, p, <<>>), SplitOf(s, r, l),
         Len(h) \in Nat, Len(p) \in Nat, h # <<>> => Len(h) > 0,
         NEW d, Len(d) = l - r, InPlace(s, d, r)
  PROVE  Pending(s, n, l, h, p, d)
<1>0. Len(<<>>) = 0
  OBVIOUS
<1>1. d # <<>> /\ Len(s) \in Nat /\ Start(s, n + 1) \in Nat
  <2>1. d # <<>>
    BY <1>0
  <2>2. Len(s) \in Nat
    BY LenProperties
  <2>3. n + 1 \in 1..Len(s) + 1
    BY <2>2
  <2> QED  BY <2>1, <2>2, <2>3, StartTyped
<1>2. /\ Start(s, n + 1) + Len(h) + Len(p) = r
      /\ n < Len(s) => r < Start(s, n + 2)
      /\ EmptyWhole(s, n, r, h)
      /\ InPlace(s, h, Start(s, n + 1)) /\ InPlace(s, p, Start(s, n + 1) + Len(h))
  BY <1>0, <1>1 DEF Pending
<1>3. n < Len(s)
  <2>1. Start(s, n + 1) < l
    BY <1>1, <1>2
  <2> QED  BY <2>1, PendingFrame
<1>4. /\ n + 1 \in 1..Len(s) /\ Start(s, n + 2) \in Nat /\ (n + 1) + 1 = n + 2
      /\ \A m \in 1..Len(s) : m > n + 1 => Start(s, n + 2) =< Start(s, m)
      /\ r < Start(s, n + 2)
  BY <1>2, <1>3, NextFrame
<1>5. WithinFrame(s, n, l, h, d)
  <2> SUFFICES ASSUME h # <<>>
               PROVE  l =< Start(s, n + 2)
    BY DEF WithinFrame
  <2>1. Start(s, n + 1) < r
    BY <1>1, <1>2
  <2> QED  BY <1>4, <2>1 DEF SplitOf
<1>6. EmptyWhole(s, n, l, h)
  <2> SUFFICES ASSUME NEW m \in 1..Len(s), s[m].pld_size = 0, Start(s, m) < l
               PROVE  /\ Start(s, m + 1) =< l
                      /\ m > n => Start(s, m + 1) = l
                      /\ m = n + 1 => h = <<>>
    BY DEF EmptyWhole
  <2>1. Start(s, m) \in Nat /\ Start(s, m + 1) \in Nat
    BY StartNext
  <2>2. CASE m > n
    <3>1. r < Start(s, m + 1)
      <4>1. CASE m = n + 1
        BY <1>4, <4>1
      <4>2. CASE m > n + 1
        <5>1. Start(s, n + 2) =< Start(s, m) /\ Start(s, m + 1) = Start(s, m) + HdrSize + s[m].pld_size
          BY <1>4, <4>2, StartNext
        <5>2. Start(s, m) \in Nat /\ Start(s, m + 1) = Start(s, m) + HdrSize
          BY <2>1, <5>1 DEF HdrSize
        <5>3. Start(s, m) < Start(s, m + 1)
          BY <5>2 DEF HdrSize
        <5> QED  BY <1>4, <2>1, <5>1, <5>2, <5>3
      <4> QED  BY <2>2, <4>1, <4>2
    <3>2. r =< Start(s, m) /\ l = Start(s, m + 1)
      BY <3>1 DEF SplitOf
    <3>3. ASSUME m = n + 1
          PROVE  h = <<>>
      <4>1. Len(h) = 0
        BY <1>1, <1>2, <3>2, <3>3
      <4> QED  BY <4>1
    <3> QED  BY <2>1, <2>2, <3>2, <3>3
  <2>3. CASE ~(m > n)
    <3>1. Start(s, m + 1) =< Start(s, n + 1)
      <4>1. n + 1 \in 1..Len(s) + 1 /\ m < n + 1
        BY <1>1, <1>4, <2>3
      <4> QED  BY <4>1, StartsAscend
    <3>2. Start(s, m + 1) =< l
      BY <1>1, <1>2, <2>1, <3>1
    <3> QED  BY <2>3, <3>2
  <2> QED  BY <2>2, <2>3
<1>7. Start(s, n + 1) + Len(h) + Len(p) + Len(d) = l
  BY <1>1, <1>2
<1> QED  BY <1>1, <1>2, <1>5, <1>6, <1>7 DEF Pending

-----------------------------------------------------------------------------
(* What ws_frame_process gets *)

GotFrame(s, m) ==
  [opcode |-> s[m].opcode, key |-> SubSeq(FrameBytes(s, m), 3, HdrSize),
   payload |-> SubSeq(FrameBytes(s, m), HdrSize + 1, Len(FrameBytes(s, m)))]

SentOf(s, n) == [m \in 1..n |-> GotFrame(s, m)]

LEMMA SentIs ==
  ASSUME script \in Seq(Frame)
  PROVE  \A n : Sent(n) = SentOf(script, n)
BY StreamIs DEF Sent, SentOf, GotFrame

LEMMA SentNext ==
  ASSUME NEW s, NEW n \in Nat
  PROVE  /\ Len(SentOf(s, n)) = n
         /\ Append(SentOf(s, n), GotFrame(s, n + 1)) = SentOf(s, n + 1)
<1> DEFINE g == GotFrame(s, n + 1)
           a == SentOf(s, n)
           b == SentOf(s, n + 1)
<1>1. IsList(a) /\ Len(a) = n /\ \A i \in 1..n : a[i] = GotFrame(s, i)
  <2>1. a = [i \in 1..n |-> a[i]] /\ \A i \in 1..n : a[i] = GotFrame(s, i)
    BY DEF SentOf
  <2> HIDE DEF a
  <2> QED  BY <2>1, ListMade
<1>2. IsList(b) /\ Len(b) = n + 1 /\ \A i \in 1..(n + 1) : b[i] = GotFrame(s, i)
  <2> DEFINE k == n + 1
  <2>1. b = [i \in 1..k |-> b[i]] /\ \A i \in 1..k : b[i] = GotFrame(s, i)
    BY DEF SentOf
  <2>2. k \in Nat
    OBVIOUS
  <2> HIDE DEF b, k
  <2>3. IsList(b) /\ Len(b) = k
    BY <2>1, <2>2, ListMade
  <2> QED  BY <2>1, <2>3 DEF k
<1> HIDE DEF a, b, g
<1>3. /\ IsList(Append(a, g)) /\ Len(Append(a, g)) = n + 1
      /\ \A i \in 1..n : Append(a, g)[i] = a[i]
      /\ Append(a, g)[n + 1] = g
  BY <1>1, ListAppend
<1>4. g = GotFrame(s, n + 1)
  BY DEF g
<1>5. \A i \in 1..(n + 1) : Append(a, g)[i] = b[i]
  <2> SUFFICES ASSUME NEW i \in 1..(n + 1)
               PROVE  Append(a, g)[i] = b[i]
    OBVIOUS
  <2>1. CASE i = n + 1
    BY <1>2, <1>3, <1>4, <2>1
  <2>2. CASE i \in 1..n
    BY <1>1, <1>2, <1>3, <2>2
  <2>3. i = n + 1 \/ i \in 1..n
    OBVIOUS
  <2> QED  BY <2>1, <2>2, <2>3
<1>6. Append(a, g) = b
  BY <1>2, <1>3, <1>5 DEF IsList
<1> QED  BY <1>1, <1>6 DEF a, b, g

\* A header and a payload that are the bytes of frame m are those of the frame.
LEMMA GotIs ==
  ASSUME script \in Seq(Frame), NEW m \in 1..Len(script),
         NEW h \in Seq(AnyByte(script)), HdrSize =< Len(h),
         \A i \in 1..HdrSize : h[i] = Byte(m, i),
         NEW p \in Seq(AnyByte(script)), Len(p) = script[m].pld_size,
         \A i \in 1..Len(p) : p[i] = Byte(m, HdrSize + i)
  PROVE  [opcode |-> Opcode(h), key |-> Key(h), payload |-> p] = GotFrame(script, m)
<1> DEFINE S == AnyByte(script)
           f == FrameBytes(script, m)
           w == HdrSize + script[m].pld_size
<1>1. /\ script[m].pld_size \in Nat /\ f \in Seq(S) /\ Len(f) = w
      /\ \A at \in 1..w : f[at] = Byte(m, at)
  BY FrameBytesTyped
<1> HIDE DEF S, f
<1>2. h \in Seq(S) /\ p \in Seq(S) /\ Len(h) \in Nat
  BY LenProperties DEF S
<1>3. Opcode(h) = script[m].opcode
  BY DEF Opcode, Byte, HdrSize
<1>4. SubSeq(h, 3, HdrSize) = SubSeq(f, 3, HdrSize)
  <2>1. /\ 3 \in Nat /\ HdrSize \in Nat /\ 1 =< 3 /\ 3 =< HdrSize + 1 /\ HdrSize + 1 - 3 = 4
        /\ HdrSize =< Len(f)
    BY <1>1 DEF HdrSize
  <2>2. /\ SubSeq(h, 3, HdrSize) \in Seq(S) /\ Len(SubSeq(h, 3, HdrSize)) = HdrSize + 1 - 3
        /\ \A i \in 1..(HdrSize + 1 - 3) : SubSeq(h, 3, HdrSize)[i] = h[3 + i - 1]
    BY <1>2, <2>1, PartOf
  <2>3. /\ SubSeq(f, 3, HdrSize) \in Seq(S) /\ Len(SubSeq(f, 3, HdrSize)) = HdrSize + 1 - 3
        /\ \A i \in 1..(HdrSize + 1 - 3) : SubSeq(f, 3, HdrSize)[i] = f[3 + i - 1]
    BY <1>1, <2>1, PartOf
  <2>4. \A i \in 1..4 : h[3 + i - 1] = f[3 + i - 1]
    <3>1. \A i \in 1..4 : 3 + i - 1 \in 1..HdrSize /\ 3 + i - 1 \in 1..w
      <4>1. 6 =< w /\ w \in Nat
        BY <1>1 DEF HdrSize
      <4>2. \A i \in 1..4 : 3 + i - 1 \in 1..6
        OBVIOUS
      <4> HIDE DEF w
      <4> QED  BY <4>1, <4>2 DEF HdrSize
    <3> HIDE DEF w
    <3> QED  BY <1>1, <3>1
  <2>5. \A i \in 1..Len(SubSeq(h, 3, HdrSize)) : SubSeq(h, 3, HdrSize)[i] = SubSeq(f, 3, HdrSize)[i]
    <3>1. \A i \in 1..4 : SubSeq(h, 3, HdrSize)[i] = h[3 + i - 1]
      BY <2>1, <2>2
    <3>2. \A i \in 1..4 : SubSeq(f, 3, HdrSize)[i] = f[3 + i - 1]
      BY <2>1, <2>3
    <3>3. Len(SubSeq(h, 3, HdrSize)) = 4
      BY <2>1, <2>2
    <3> QED  BY <2>4, <3>1, <3>2, <3>3
  <2> QED  BY <2>2, <2>3, <2>5, SameParts
<1>5. p = SubSeq(f, HdrSize + 1, Len(f))
  <2> DEFINE a == HdrSize + 1
             q == SubSeq(f, a, w)
  <2>1. /\ a \in Nat /\ w \in Nat /\ 1 =< a /\ a =< w + 1 /\ w =< Len(f)
        /\ w + 1 - a = Len(p) /\ \A i \in 1..Len(p) : a + i - 1 = HdrSize + i /\ HdrSize + i \in 1..w
    <3>1. HdrSize \in Nat /\ Len(p) \in Nat /\ w = HdrSize + Len(p) /\ Len(f) = w
      BY <1>1 DEF HdrSize
    <3> HIDE DEF w
    <3>2. a \in Nat /\ w \in Nat /\ 1 =< a /\ a =< w + 1 /\ w =< Len(f)
      BY <3>1
    <3>3. w + 1 - a = Len(p)
      BY <3>1
    <3>4. \A i \in 1..Len(p) : a + i - 1 = HdrSize + i /\ HdrSize + i \in 1..w
      BY <3>1
    <3> QED  BY <3>2, <3>3, <3>4
  <2> HIDE DEF a, w
  <2>2. /\ q \in Seq(S) /\ Len(q) = w + 1 - a /\ \A i \in 1..(w + 1 - a) : q[i] = f[a + i - 1]
    BY <1>1, <2>1, PartOf
  <2>3. \A i \in 1..Len(p) : p[i] = q[i]
    BY <1>1, <2>1, <2>2
  <2> HIDE DEF q
  <2>4. p = q
    BY <1>2, <2>1, <2>2, <2>3, SameParts
  <2> QED  BY <1>1, <2>4 DEF q, a
<1> QED  BY <1>3, <1>4, <1>5 DEF GotFrame, Key, f

-----------------------------------------------------------------------------
(* The frames that were read are processed *)

FrameInv ==
  split_well =>
    /\ ~astray
    /\ Len(processed) \in 0..Len(script) /\ processed = SentOf(script, Len(processed))
    /\ open => Pending(script, Len(processed), received, hdr, recv_buf, sock_buf)

\* The next frame is processed, and the read goes on behind it.
LEMMA FrameProcessed ==
  ASSUME script \in Seq(Frame), NEW n \in 0..Len(script), n < Len(script),
         processed = SentOf(script, n), UNCHANGED script, ~astray',
         received' \in 0..Len(Sends(script)),
         NEW h \in Seq(AnyByte(script)), HdrSize =< Len(h),
         \A i \in 1..HdrSize : h[i] = Byte(n + 1, i),
         NEW p \in Seq(AnyByte(script)), Len(p) = script[n + 1].pld_size,
         \A i \in 1..Len(p) : p[i] = Byte(n + 1, HdrSize + i),
         NEW rest \in Seq(AnyByte(script)), Process(h, p, rest),
         PldSize(h) = 0 => hdr = <<>> /\ recv_buf = <<>>,
         NEW e, EmptyWhole(script, n, received', e),
         Start(script, n + 2) + Len(rest) = received',
         InPlace(script, rest, Start(script, n + 2))
  PROVE  FrameInv'
<1> DEFINE m == n + 1
<1>1. m \in 1..Len(script) /\ m \in 0..Len(script) /\ n \in Nat /\ script[m].pld_size \in Nat
  BY NextFrame
<1>2. processed' = SentOf(script, m) /\ Len(processed') = m
  <2>1. [opcode |-> Opcode(h), key |-> Key(h), payload |-> p] = GotFrame(script, m)
    <3> HIDE DEF m
    <3>1. \A i \in 1..HdrSize : h[i] = Byte(m, i)
      BY DEF m
    <3>2. Len(p) = script[m].pld_size /\ \A i \in 1..Len(p) : p[i] = Byte(m, HdrSize + i)
      BY DEF m
    <3> QED  BY <1>1, <3>1, <3>2, GotIs
  <2>2. processed' = Append(SentOf(script, n), GotFrame(script, m))
    BY <2>1 DEF Process
  <2>3. processed' = SentOf(script, m)
    BY <1>1, <2>2, SentNext
  <2>4. m \in Nat
    BY <1>1
  <2> HIDE DEF m
  <2>5. Len(SentOf(script, m)) = m
    BY <2>4, SentNext
  <2> QED  BY <2>3, <2>5
<1>3. hdr' = <<>> /\ recv_buf' = <<>>
  <2>1. PldSize(h) = script[m].pld_size
    <3>1. h[1] = Byte(m, 1)
      BY DEF HdrSize
    <3> QED  BY <3>1 DEF PldSize, Byte
  <2>2. CASE PldSize(h) > 0
    BY <2>2 DEF Process, Freed
  <2>3. CASE PldSize(h) = 0
    BY <2>3 DEF Process
  <2> QED  BY <1>1, <2>1, <2>2, <2>3
<1>4. ASSUME open'
      PROVE  Pending(script, m, received', <<>>, <<>>, sock_buf')
  <2>1. sock_buf' = rest
    BY <1>4 DEF Process
  <2>2. Len(rest) \in Nat /\ (rest = <<>> => Len(rest) = 0)
    BY LenProperties, EmptySeq
  <2>3. Pending(script, n + 1, received', <<>>, <<>>, rest)
    BY <2>2, FrameDone
  <2> QED  BY <2>1, <2>3
<1> HIDE DEF m
<1> QED  BY <1>1, <1>2, <1>3, <1>4 DEF FrameInv


\* Where the bytes are that ws_frame_parse works on.
LEMMA ParsePlace ==
  ASSUME Shape, FrameInv, split_well, open, sock_buf # <<>>, NEW n, n = Len(processed)
  PROVE  /\ n \in 0..Len(script) /\ n < Len(script) /\ processed = SentOf(script, n)
         /\ received \in 0..Len(Sends(script))
         /\ Start(script, n + 1) + Len(hdr) + Len(sock_buf) = received
         /\ InPlace(script, sock_buf, Start(script, n + 1) + Len(hdr))
         /\ EmptyWhole(script, n, received, hdr)
         /\ hdr # <<>> => received =< Start(script, n + 2)
         /\ InPlace(script, Header, Start(script, n + 1))
         /\ \A i \in 1..Len(Header) :
              i =< HdrSize + script[n + 1].pld_size => Header[i] = Byte(n + 1, i)
<1> DEFINE s == script
           b == Start(s, n + 1)
<1>1. /\ s \in Seq(Frame) /\ recv_buf = <<>> /\ Len(hdr) \in Nat
      /\ Len(sock_buf) \in Nat /\ Len(sock_buf) > 0 /\ Len(Header) \in Nat
      /\ Len(Header) =< Len(hdr) + Len(sock_buf)
      /\ \A i \in 1..Len(Header) :
           Header[i] = IF i =< Len(hdr) THEN hdr[i] ELSE sock_buf[i - Len(hdr)]
  <2>1. /\ s \in Seq(Frame) /\ recv_buf = <<>> /\ Len(hdr) \in Nat
        /\ Len(sock_buf) \in Nat /\ Len(sock_buf) > 0 /\ Len(Header) \in Nat
        /\ Len(Header) = IF Len(hdr) + Len(sock_buf) < HdrBuf THEN Len(hdr) + Len(sock_buf)
                         ELSE HdrBuf
        /\ \A i \in 1..Len(Header) :
             Header[i] = IF i =< Len(hdr) THEN hdr[i] ELSE sock_buf[i - Len(hdr)]
    BY ParseFrom
  <2>2. Len(Header) =< Len(hdr) + Len(sock_buf)
    BY <2>1 DEF HdrBuf
  <2> QED  BY <2>1, <2>2
<1>2. /\ n \in 0..Len(s) /\ processed = SentOf(s, n)
      /\ Pending(s, n, received, hdr, <<>>, sock_buf)
      /\ received \in 0..Len(Sends(s))
  BY <1>1 DEF FrameInv, Shape
<1> HIDE DEF s
<1>3. Len(<<>>) = 0
  OBVIOUS
<1>4. b \in Nat /\ Len(s) \in Nat
  <2>1. Len(s) \in Nat
    BY <1>1, LenProperties
  <2>2. n + 1 \in 1..Len(s) + 1
    BY <1>2, <2>1
  <2> QED  BY <1>1, <2>1, <2>2, StartTyped
<1>5. /\ b + Len(hdr) + Len(<<>>) + Len(sock_buf) = received
      /\ InPlace(s, hdr, b) /\ InPlace(s, sock_buf, b + Len(hdr) + Len(<<>>))
      /\ EmptyWhole(s, n, received, hdr)
      /\ hdr # <<>> => received =< Start(s, n + 2)
  BY <1>1, <1>2, <1>3 DEF Pending, WithinFrame
<1> HIDE DEF b
<1>6. b + Len(hdr) + Len(<<>>) = b + Len(hdr) /\ b + Len(hdr) + Len(sock_buf) = received
  BY <1>1, <1>3, <1>4, <1>5
<1>7. InPlace(s, sock_buf, b + Len(hdr))
  BY <1>5, <1>6
<1>8. n < Len(s)
  <2>1. b < received
    BY <1>1, <1>4, <1>6
  <2> QED  BY <1>1, <1>2, <2>1, PendingFrame DEF b
<1>9. \A i \in 1..Len(Header) : Header[i] = Sends(s)[b + i]
  <2> SUFFICES ASSUME NEW i \in 1..Len(Header)
               PROVE  Header[i] = Sends(s)[b + i]
    OBVIOUS
  <2>1. CASE i =< Len(hdr)
    BY <1>1, <1>5, <2>1 DEF InPlace
  <2>2. CASE ~(i =< Len(hdr))
    <3>1. i - Len(hdr) \in 1..Len(sock_buf) /\ b + Len(hdr) + (i - Len(hdr)) = b + i
      BY <1>1, <1>4, <2>2
    <3>2. sock_buf[i - Len(hdr)] = Sends(s)[b + Len(hdr) + (i - Len(hdr))]
      BY <1>7, <3>1 DEF InPlace
    <3> QED  BY <1>1, <2>2, <3>1, <3>2
  <2> QED  BY <2>1, <2>2
<1>10. InPlace(s, Header, b)
  BY <1>9 DEF InPlace
<1>11. \A i \in 1..Len(Header) : i =< HdrSize + s[n + 1].pld_size => Header[i] = Byte(n + 1, i)
  <2>1. \A i \in 1..(HdrSize + s[n + 1].pld_size) : Sends(s)[b + i] = Byte(n + 1, i)
    BY <1>1, <1>2, <1>8, NextFrame DEF b
  <2>2. HdrSize + s[n + 1].pld_size \in Nat
    <3>1. s[n + 1].pld_size \in Nat
      BY <1>1, <1>2, <1>8, NextFrame
    <3> QED  BY <3>1 DEF HdrSize
  <2> QED  BY <1>1, <1>9, <2>1, <2>2
<1> QED  BY <1>2, <1>5, <1>6, <1>7, <1>8, <1>10, <1>11 DEF s, b

\* What is read of the next frame is kept, and the read is used up.
LEMMA FrameWait ==
  ASSUME script \in Seq(Frame), NEW n \in 0..Len(script), n < Len(script), n = Len(processed),
         processed = SentOf(script, n), received \in 0..Len(Sends(script)),
         Wait, UNCHANGED <<script, received, astray>>, ~astray,
         EmptyWhole(script, n, received, hdr),
         script[n + 1].pld_size > 0, received < Start(script, n + 2),
         Len(hdr') \in Nat, Len(recv_buf') \in Nat,
         Start(script, n + 1) + Len(hdr') + Len(recv_buf') = received,
         InPlace(script, hdr', Start(script, n + 1)),
         InPlace(script, recv_buf', Start(script, n + 1) + Len(hdr'))
  PROVE  FrameInv'
<1>1. UNCHANGED processed /\ sock_buf' = <<>>
  BY DEF Wait
<1>2. Pending(script, n, received, hdr', recv_buf', <<>>)
  <2> DEFINE u == hdr'
             v == recv_buf'
  <2> HIDE DEF u, v
  <2>1. /\ Len(u) \in Nat /\ Len(v) \in Nat /\ Start(script, n + 1) + Len(u) + Len(v) = received
        /\ InPlace(script, u, Start(script, n + 1))
        /\ InPlace(script, v, Start(script, n + 1) + Len(u))
    BY DEF u, v
  <2>2. Pending(script, n, received, u, v, <<>>)
    BY <2>1, FramePart
  <2> QED  BY <2>2 DEF u, v
<1> QED  BY <1>1, <1>2 DEF FrameInv

\* Frames are processed and parts of frames kept as they were sent.
LEMMA ParseInv ==
  ASSUME Shape, FrameInv, Parse
  PROVE  FrameInv'
<1> SUFFICES ASSUME split_well
             PROVE  FrameInv'
  BY DEF Parse, FrameInv
<1> DEFINE n == Len(processed)
           b == Start(script, n + 1)
           size == script[n + 1].pld_size
<1>1. open /\ ~astray /\ UNCHANGED <<script, received, split_well>>
  BY DEF Parse
<1>2. sock_buf # <<>>
  <2>1. Len(<<>>) = 0
    OBVIOUS
  <2> QED  BY <2>1 DEF Parse, ParseByte, ParseAstray, ParseHeader, ParseEmpty, ParsePart, ParseFrame,
                      Parsing, HasTwo
<1>3. /\ script \in Seq(Frame) /\ recv_buf = <<>>
      /\ hdr \in Seq(AnyByte(script)) /\ sock_buf \in Seq(AnyByte(script))
      /\ Len(hdr) \in Nat /\ Len(hdr) < HdrSize
      /\ Len(sock_buf) \in Nat /\ Len(sock_buf) > 0
      /\ Header \in Seq(AnyByte(script)) /\ Len(Header) \in Nat
      /\ Len(Header) = IF Len(hdr) + Len(sock_buf) < HdrBuf THEN Len(hdr) + Len(sock_buf)
                       ELSE HdrBuf
  BY <1>1, <1>2, ParseFrom
<1> HIDE DEF n
<1>4. /\ n \in 0..Len(script) /\ n < Len(script) /\ processed = SentOf(script, n)
      /\ received \in 0..Len(Sends(script))
      /\ b + Len(hdr) + Len(sock_buf) = received
      /\ InPlace(script, sock_buf, b + Len(hdr))
      /\ EmptyWhole(script, n, received, hdr)
      /\ hdr # <<>> => received =< Start(script, n + 2)
      /\ InPlace(script, Header, b)
      /\ \A i \in 1..Len(Header) : i =< HdrSize + size => Header[i] = Byte(n + 1, i)
  BY <1>1, <1>2, ParsePlace DEF n
<1>5. /\ b \in Nat /\ size \in Nat /\ Start(script, n + 2) = b + HdrSize + size
      /\ n + 1 \in 1..Len(script) /\ HdrSize = 6 /\ HdrBuf = 14 /\ (n + 1) + 1 = n + 2
  BY <1>3, <1>4, NextFrame DEF HdrSize, HdrBuf
<1>6. hdr = <<>> <=> Len(hdr) = 0
  BY <1>3, EmptySeq
<1>7. n = Len(processed)
  BY DEF n
<1> HIDE DEF b, size
\* A frame without a payload was read at once.
<1>8. ASSUME size = 0
      PROVE  received = b + HdrSize /\ hdr = <<>> /\ Len(hdr) = 0 /\ Len(sock_buf) = HdrSize
  <2> DEFINE m == n + 1
  <2>1. /\ m \in 1..Len(script) /\ m > n /\ m = n + 1 /\ m + 1 = n + 2
        /\ script[m].pld_size = 0
    BY <1>4, <1>5, <1>8 DEF size
  <2>2. Start(script, m) < received
    BY <1>3, <1>4, <1>5 DEF b
  <2> HIDE DEF m
  <2>3. Start(script, m + 1) = received /\ hdr = <<>>
    BY <1>4, <2>1, <2>2 DEF EmptyWhole
  <2>4. received = b + HdrSize + size
    BY <1>5, <2>1, <2>3
  <2>5. received = b + HdrSize
    BY <1>5, <1>8, <2>4
  <2>6. Len(hdr) = 0
    BY <1>6, <2>3
  <2>7. b + Len(hdr) + Len(sock_buf) = received /\ Len(sock_buf) \in Nat
    BY <1>3, <1>4
  <2>8. b \in Nat /\ HdrSize = 6
    BY <1>5
  <2>9. Len(sock_buf) = HdrSize
    <3>1. b + Len(hdr) = b
      BY <2>6, <2>8
    <3>2. b + Len(sock_buf) = b + 6
      BY <2>5, <2>7, <2>8, <3>1
    <3>3. \A x, y \in Nat : x + y = x + 6 => y = 6
      OBVIOUS
    <3> QED  BY <2>7, <2>8, <3>2, <3>3
  <2> QED  BY <2>3, <2>5, <2>6, <2>9
<1>9. ASSUME 2 =< Len(Header)
      PROVE  Sound(Header) /\ PldSize(Header) = size
  <2>1. Header[1] = Byte(n + 1, 1) /\ Header[2] = Byte(n + 1, 2)
    BY <1>3, <1>4, <1>5, <1>9
  <2> QED  BY <2>1 DEF Sound, PldSize, Byte, size
<1>10. ASSUME Parsing
       PROVE  PldSize(Header) = size /\ UNCHANGED astray
  BY <1>9, <1>10 DEF Parsing, HasTwo
<1>11. ASSUME Wait, UNCHANGED astray, size > 0, received < b + HdrSize + size,
              Len(hdr') \in Nat, Len(recv_buf') \in Nat,
              b + Len(hdr') + Len(recv_buf') = received,
              InPlace(script, hdr', b), InPlace(script, recv_buf', b + Len(hdr'))
       PROVE  FrameInv'
  <2>1. received < Start(script, n + 2)
    BY <1>5, <1>11
  <2>2. /\ script[n + 1].pld_size > 0
        /\ Start(script, n + 1) + Len(hdr') + Len(recv_buf') = received
        /\ InPlace(script, hdr', Start(script, n + 1))
        /\ InPlace(script, recv_buf', Start(script, n + 1) + Len(hdr'))
    BY <1>11 DEF b, size
  <2> QED  BY <1>1, <1>3, <1>4, <1>7, <1>11, <2>1, <2>2, FrameWait
<1>12. ASSUME NEW p \in Seq(AnyByte(script)), Len(p) = size, 6 =< Len(Header), UNCHANGED astray,
              \A i \in 1..Len(p) : p[i] = Byte(n + 1, HdrSize + i),
              NEW rest \in Seq(AnyByte(script)), Process(Header, p, rest),
              b + HdrSize + size + Len(rest) = received,
              InPlace(script, rest, b + HdrSize + size)
       PROVE  FrameInv'
  <2>1. \A i \in 1..HdrSize : Header[i] = Byte(n + 1, i)
    <3>1. \A i \in 1..HdrSize : i \in 1..Len(Header) /\ i =< HdrSize + size
      BY <1>3, <1>5, <1>12
    <3> QED  BY <1>4, <3>1
  <2>2. PldSize(Header) = 0 => hdr = <<>> /\ recv_buf = <<>>
    BY <1>3, <1>8, <1>9, <1>12
  <2>3. /\ Len(p) = script[n + 1].pld_size
        /\ Start(script, n + 2) + Len(rest) = received'
        /\ InPlace(script, rest, Start(script, n + 2))
        /\ received' \in 0..Len(Sends(script)) /\ EmptyWhole(script, n, received', hdr)
    BY <1>1, <1>4, <1>5, <1>12 DEF size
  <2>4. HdrSize =< Len(Header) /\ ~astray' /\ UNCHANGED script
    BY <1>1, <1>5, <1>12
  <2> QED  BY <1>3, <1>4, <1>12, <2>1, <2>2, <2>3, <2>4, FrameProcessed
<1>13. CASE ParseByte
  <2>1. /\ hdr = <<>> /\ Len(sock_buf) = 1 /\ hdr' = sock_buf /\ Wait
        /\ UNCHANGED <<recv_buf, astray>>
    BY <1>13 DEF ParseByte
  <2>2. Len(recv_buf') = 0 /\ InPlace(script, recv_buf', b + Len(hdr'))
    BY <1>3, <2>1, EmptySeq DEF InPlace
  <2>3. b + Len(hdr) = b /\ Len(hdr) = 0
    BY <1>5, <1>6, <2>1
  <2>4. size > 0
    BY <1>5, <1>8, <2>1
  <2>5. /\ InPlace(script, hdr', b) /\ b + Len(hdr') + Len(recv_buf') = received
        /\ received < b + HdrSize + size
    <3>1. InPlace(script, hdr', b)
      BY <1>4, <2>1, <2>3
    <3>2. b + 1 = received
      BY <1>4, <1>5, <2>1, <2>3
    <3>3. Len(hdr') = 1
      BY <2>1
    <3> QED  BY <1>5, <2>2, <3>1, <3>2, <3>3
  <2>6. Len(hdr') \in Nat /\ Len(recv_buf') \in Nat
    BY <2>1, <2>2
  <2> QED  BY <1>11, <2>1, <2>2, <2>4, <2>5, <2>6
<1>14. CASE ParseAstray
  BY <1>9, <1>14 DEF ParseAstray, HasTwo
<1>15. CASE ParseHeader
  <2>1. Parsing /\ Wait /\ UNCHANGED recv_buf
    BY <1>15 DEF ParseHeader
  <2>2. PldSize(Header) = size /\ UNCHANGED astray
    BY <1>10, <2>1
  <2>3. size > 0 /\ ~Reached(Header) /\ hdr' = Header
    <3>1. \/ PldSize(Header) > 0 /\ ~Reached(Header) /\ hdr' = Header
          \/ PldSize(Header) = 0 /\ Len(sock_buf) < HdrSize
      BY <1>15 DEF ParseHeader
    <3>2. size = 0 => ~(Len(sock_buf) < HdrSize)
      <4>1. size = 0 => Len(sock_buf) = HdrSize
        BY <1>8
      <4>2. HdrSize \in Nat
        BY <1>5
      <4> QED  BY <4>1, <4>2
    <3> QED  BY <2>2, <3>1, <3>2
  <2>4. Len(Header) < HdrSize /\ Len(Header) = Len(hdr) + Len(sock_buf)
    BY <1>3, <1>5, <2>3 DEF Reached
  <2>5. Len(recv_buf') = 0 /\ InPlace(script, recv_buf', b + Len(hdr'))
    BY <1>3, <2>1, EmptySeq DEF InPlace
  <2>6. /\ Len(hdr') = Len(Header) /\ Len(hdr') \in Nat /\ Len(recv_buf') \in Nat
        /\ InPlace(script, hdr', b)
    BY <1>3, <1>4, <2>3, <2>5
  <2>7. b + Len(hdr') + Len(recv_buf') = received /\ received < b + HdrSize + size
    BY <1>3, <1>4, <1>5, <2>4, <2>5, <2>6
  <2> QED  BY <1>11, <2>1, <2>2, <2>3, <2>5, <2>6, <2>7
<1>16. CASE ParseEmpty
  <2>1. Parsing /\ PldSize(Header) = 0 /\ Process(Header, <<>>, <<>>)
    BY <1>16 DEF ParseEmpty
  <2>2. size = 0 /\ UNCHANGED astray
    BY <1>10, <2>1
  <2>3. received = b + HdrSize /\ Len(hdr) = 0 /\ Len(sock_buf) = HdrSize
    BY <1>8, <2>2
  <2>4. 6 =< Len(Header)
    BY <1>3, <1>5, <2>3
  <2>5. /\ <<>> \in Seq(AnyByte(script)) /\ Len(<<>>) = 0
        /\ \A i \in 1..Len(<<>>) : <<>>[i] = Byte(n + 1, HdrSize + i)
        /\ InPlace(script, <<>>, b + HdrSize + size)
    BY EmptySeq DEF InPlace
  <2>6. Len(<<>>) = size /\ b + HdrSize + size + Len(<<>>) = received
    BY <1>5, <2>2, <2>3, <2>5
  <2> QED  BY <1>12, <2>1, <2>2, <2>4, <2>5, <2>6
<1>17. ASSUME Reached(Header)
       PROVE  /\ Payload \in Seq(AnyByte(script)) /\ Len(Payload) \in Nat /\ 6 =< Len(Header)
              /\ Len(Payload) = Len(hdr) + Len(sock_buf) - HdrSize
              /\ b + HdrSize + Len(Payload) = received
              /\ InPlace(script, Payload, b + HdrSize)
  <2>1. /\ Payload \in Seq(AnyByte(script)) /\ Len(Payload) \in Nat
        /\ Len(Payload) = Len(hdr) + Len(sock_buf) - HdrSize
        /\ \A i \in 1..Len(Payload) : Payload[i] = sock_buf[HdrSize - Len(hdr) + i]
    <3>1. Len(hdr) =< HdrSize
      BY <1>3, <1>5
    <3> QED  BY <1>3, <1>17, <3>1, PayloadIs
  <2>2. \A i \in 1..Len(Payload) : Payload[i] = Sends(script)[b + HdrSize + i]
    <3> SUFFICES ASSUME NEW i \in 1..Len(Payload)
                 PROVE  Payload[i] = Sends(script)[b + HdrSize + i]
      OBVIOUS
    <3>1. /\ HdrSize - Len(hdr) + i \in 1..Len(sock_buf)
          /\ b + Len(hdr) + (HdrSize - Len(hdr) + i) = b + HdrSize + i
      BY <1>3, <1>5, <2>1
    <3>2. sock_buf[HdrSize - Len(hdr) + i] = Sends(script)[b + Len(hdr) + (HdrSize - Len(hdr) + i)]
      <4> DEFINE j == HdrSize - Len(hdr) + i
      <4>1. j \in 1..Len(sock_buf)
        BY <3>1
      <4> HIDE DEF j
      <4>2. sock_buf[j] = Sends(script)[b + Len(hdr) + j]
        BY <1>4, <4>1 DEF InPlace
      <4> QED  BY <4>2 DEF j
    <3>3. Payload[i] = sock_buf[HdrSize - Len(hdr) + i]
      BY <2>1
    <3> QED  BY <3>1, <3>2, <3>3
  <2>3. b + HdrSize + Len(Payload) = received
    <3>1. b \in Nat /\ HdrSize = 6 /\ Len(hdr) \in Nat /\ Len(sock_buf) \in Nat
      BY <1>3, <1>5
    <3>2. b + Len(hdr) + Len(sock_buf) = received
      BY <1>4
    <3>3. Len(Payload) = Len(hdr) + Len(sock_buf) - HdrSize
      BY <2>1
    <3> QED  BY <3>1, <3>2, <3>3
  <2>4. 6 =< Len(Header)
    BY <1>5, <1>17 DEF Reached
  <2> QED  BY <2>1, <2>2, <2>3, <2>4 DEF InPlace
<1>18. CASE ParsePart
  <2>1. /\ Parsing /\ Wait /\ PldSize(Header) > Len(Payload) /\ Reached(Header)
        /\ hdr' = SubSeq(Header, 1, HdrSize) /\ recv_buf' = Payload
    BY <1>18 DEF ParsePart
  <2>2. PldSize(Header) = size /\ UNCHANGED astray
    BY <1>10, <2>1
  <2>3. /\ Len(Payload) \in Nat /\ 6 =< Len(Header)
        /\ b + HdrSize + Len(Payload) = received /\ InPlace(script, Payload, b + HdrSize)
    BY <1>17, <2>1
  <2>4. Len(hdr') = HdrSize /\ \A i \in 1..HdrSize : hdr'[i] = Header[i]
    BY <1>1, <1>2, <2>1, HeaderKept
  <2>5. InPlace(script, hdr', b)
    <3>1. \A i \in 1..HdrSize : i \in 1..Len(Header)
      BY <1>3, <1>5, <2>3
    <3> QED  BY <1>4, <2>4, <3>1 DEF InPlace
  <2>6. /\ InPlace(script, recv_buf', b + Len(hdr')) /\ Len(hdr') \in Nat /\ Len(recv_buf') \in Nat
        /\ b + Len(hdr') + Len(recv_buf') = received
    BY <1>5, <2>1, <2>3, <2>4
  <2>7. size > 0 /\ received < b + HdrSize + size
    BY <1>5, <2>1, <2>2, <2>3
  <2> QED  BY <1>11, <2>1, <2>2, <2>5, <2>6, <2>7
<1>19. CASE ParseFrame
  <2>1. /\ Parsing /\ PldSize(Header) \in 1..Len(Payload) /\ Reached(Header)
        /\ Process(Header, SubSeq(Payload, 1, PldSize(Header)), Behind(PldSize(Header)))
    BY <1>19 DEF ParseFrame
  <2>2. PldSize(Header) = size /\ UNCHANGED astray
    BY <1>10, <2>1
  <2>3. /\ Payload \in Seq(AnyByte(script)) /\ Len(Payload) \in Nat /\ 6 =< Len(Header)
        /\ Len(Payload) = Len(hdr) + Len(sock_buf) - HdrSize
        /\ b + HdrSize + Len(Payload) = received /\ InPlace(script, Payload, b + HdrSize)
    BY <1>17, <2>1
  <2> DEFINE p == SubSeq(Payload, 1, size)
             rest == Behind(size)
  <2>4. size \in Nat /\ size =< Len(Payload) /\ 1 =< size + 1 /\ size + 1 - 1 = size
    BY <1>5, <2>1, <2>2
  <2>5. /\ p \in Seq(AnyByte(script)) /\ Len(p) = size
        /\ \A i \in 1..size : p[i] = Payload[i]
    <3>1. /\ p \in Seq(AnyByte(script)) /\ Len(p) = size + 1 - 1
          /\ \A i \in 1..(size + 1 - 1) : p[i] = Payload[1 + i - 1]
      BY <2>3, <2>4, PartOf
    <3> HIDE DEF p
    <3>2. \A i \in 1..size : p[i] = Payload[i]
      BY <2>4, <3>1
    <3> QED  BY <2>4, <3>1, <3>2
  <2> HIDE DEF p
  <2>6. \A i \in 1..Len(p) : p[i] = Byte(n + 1, HdrSize + i)
    <3> SUFFICES ASSUME NEW i \in 1..size
                 PROVE  Payload[i] = Byte(n + 1, HdrSize + i)
      BY <2>5
    <3>1. /\ i \in 1..Len(Payload) /\ HdrSize + i \in 1..(HdrSize + size)
          /\ b + HdrSize + i = b + (HdrSize + i)
      BY <1>5, <2>4
    <3>2. Payload[i] = Sends(script)[b + (HdrSize + i)]
      BY <2>3, <3>1 DEF InPlace
    <3>3. \A j \in 1..(HdrSize + script[n + 1].pld_size) :
            Sends(script)[Start(script, n + 1) + j] = Byte(n + 1, j)
      BY <1>3, <1>4, NextFrame
    <3> QED  BY <3>1, <3>2, <3>3 DEF b, size
  <2>7. /\ rest \in Seq(AnyByte(script)) /\ Len(rest) = Len(Payload) - size
    BY <1>3, <2>3, <2>4, BehindTyped
  <2>8. InPlace(script, rest, b + HdrSize + size)
    <3>1. CASE hdr # <<>>
      <4>1. received =< b + HdrSize + size
        BY <1>4, <1>5, <3>1
      <4>2. Len(rest) = 0
        BY <1>5, <2>3, <2>4, <2>7, <4>1
      <4> HIDE DEF rest
      <4> QED  BY <4>2 DEF InPlace
    <3>2. CASE hdr = <<>>
      <4>1. Len(hdr) = 0 /\ Len(Payload) = Len(sock_buf) - HdrSize
        BY <1>3, <1>5, <1>6, <2>3, <3>2
      <4> SUFFICES ASSUME NEW i \in 1..(Len(Payload) - size)
                   PROVE  rest[i] = Sends(script)[b + HdrSize + size + i]
        <5> HIDE DEF rest
        <5> QED  BY <2>7 DEF InPlace
      <4>2. /\ HdrSize + size + i \in 1..Len(sock_buf)
            /\ b + Len(hdr) + (HdrSize + size + i) = b + HdrSize + size + i
        BY <1>3, <1>5, <2>3, <2>4, <4>1
      <4>3. rest[i] = sock_buf[HdrSize + size + i]
        BY <4>2 DEF Behind
      <4>4. sock_buf[HdrSize + size + i] = Sends(script)[b + Len(hdr) + (HdrSize + size + i)]
        BY <1>4, <4>2 DEF InPlace
      <4> HIDE DEF rest
      <4> QED  BY <4>2, <4>3, <4>4
    <3> QED  BY <3>1, <3>2
  <2>9. Process(Header, p, rest)
    BY <2>1, <2>2 DEF p
  <2> HIDE DEF rest
  <2>10. b + HdrSize + size + Len(rest) = received
    BY <1>5, <2>3, <2>4, <2>7
  <2> QED  BY <1>12, <2>2, <2>3, <2>5, <2>6, <2>7, <2>8, <2>9, <2>10
<1> QED  BY <1>13, <1>14, <1>15, <1>16, <1>18, <1>19 DEF Parse


\* SplitWell is about the frames, whatever was read of them.
LEMMA SplitIs ==
  ASSUME script \in Seq(Frame), NEW r \in Nat, NEW l \in Nat, SplitWell(r + 1, l)
  PROVE  SplitOf(script, r, l)
<1> SUFFICES ASSUME NEW m \in 1..Len(script)
             PROVE  /\ Start(script, m) < r /\ r < Start(script, m + 1) => l =< Start(script, m + 1)
                    /\ script[m].pld_size = 0 /\ r < Start(script, m + 1) /\ Start(script, m) < l
                         => r =< Start(script, m) /\ l = Start(script, m + 1)
  BY DEF SplitOf
<1>1. /\ m \in DOMAIN script /\ Before(m) = Start(script, m) /\ After(m) = Start(script, m + 1)
  BY StreamIs
<1> DEFINE a == Start(script, m)
           b == Start(script, m + 1)
<1>2. a \in Nat /\ b \in Nat
  BY StartNext
<1> HIDE DEF a, b
<1>3. /\ a + 1 < r + 1 /\ r + 1 =< b => l =< b
      /\ script[m].pld_size = 0 /\ r + 1 =< b /\ a < l => r + 1 =< a + 1 /\ l = b
  BY <1>1 DEF SplitWell, a, b
<1>4. /\ a < r /\ r < b => l =< b
      /\ script[m].pld_size = 0 /\ r < b /\ a < l => r =< a /\ l = b
  BY <1>2, <1>3
<1> QED  BY <1>4 DEF a, b

\* A read brings the bytes that come next.
LEMMA ReadInv ==
  ASSUME Shape, FrameInv, NEW k \in 1..MaxRead, Read(k)
  PROVE  FrameInv'
<1> SUFFICES ASSUME split_well'
             PROVE  FrameInv'
  BY DEF FrameInv
<1> DEFINE n == Len(processed)
           l == received + k
           data == SubSeq(Stream, received + 1, l)
           S == AnyByte(script)
<1>1. /\ script \in Seq(Frame) /\ received \in Nat /\ k \in Nat /\ k > 0
      /\ Len(Sends(script)) \in Nat /\ Stream = Sends(script)
      /\ open /\ Buffers /\ ~astray /\ sock_buf = <<>>
  BY WsScriptsAssumption, ReadAssumption, SendsTyped, StreamIs DEF Shape, Read
<1>2. /\ l =< Len(Sends(script)) /\ received' = l /\ UNCHANGED <<script, astray>>
      /\ split_well /\ SplitWell(received + 1, l)
  BY <1>1 DEF Read
<1>3. l \in 0..Len(Sends(script)) /\ l \in Nat /\ received < l /\ l - received = k
  BY <1>1, <1>2
<1>4. data \in Seq(S) /\ Len(data) = k /\ InPlace(script, data, received)
  <2>1. data \in Seq(S) /\ Len(data) = k /\ \A i \in 1..k : data[i] = Sends(script)[received + i]
    BY <1>1, <1>2, DataIs
  <2> HIDE DEF data
  <2> QED  BY <2>1 DEF InPlace
<1>5. /\ hdr \in Seq(S) /\ recv_buf \in Seq(S) /\ Len(hdr) =< HdrSize
      /\ Len(hdr) \in Nat /\ Len(recv_buf) \in Nat /\ hdr # <<>> => Len(hdr) > 0
  BY LenProperties, EmptySeq DEF Shape
<1>6. /\ n \in 0..Len(script) /\ processed = SentOf(script, n)
      /\ Pending(script, n, received, hdr, recv_buf, <<>>)
  BY <1>1, <1>2 DEF FrameInv
<1>7. n = Len(processed)
  OBVIOUS
<1>8. SplitOf(script, received, l)
  <2> HIDE DEF l
  <2> QED  BY <1>1, <1>2, <1>3, SplitIs
<1>9. IF Collecting
      THEN LET taken == Taken(k)
               payload == recv_buf \o SubSeq(data, 1, taken)
           IN  IF Len(payload) < PldSize(hdr)
               THEN recv_buf' = payload /\ UNCHANGED <<open, hdr, sock_buf, processed>>
               ELSE Process(hdr, payload, Remaining(data, taken))
      ELSE sock_buf' = data /\ UNCHANGED <<open, hdr, recv_buf, processed>>
  BY DEF Read
<1> HIDE DEF n, l, data
<1>10. Pending(script, n, l, hdr, recv_buf, data)
  <2>1. Len(data) = l - received
    BY <1>3, <1>4
  <2> QED  BY <1>1, <1>3, <1>4, <1>5, <1>6, <1>8, <2>1, DataPending
<1>11. CASE ~Collecting
  <2>1. sock_buf' = data /\ UNCHANGED <<open, hdr, recv_buf, processed>>
    BY <1>9, <1>11
  <2> QED  BY <1>1, <1>2, <1>6, <1>7, <1>10, <2>1 DEF FrameInv
<1>12. CASE Collecting
  <2> DEFINE b == Start(script, n + 1)
             size == script[n + 1].pld_size
             taken == Taken(k)
             payload == recv_buf \o SubSeq(data, 1, taken)
  <2>1. /\ b + Len(hdr) + Len(recv_buf) + Len(data) = l
        /\ InPlace(script, hdr, b) /\ InPlace(script, recv_buf, b + Len(hdr))
        /\ InPlace(script, data, b + Len(hdr) + Len(recv_buf))
        /\ EmptyWhole(script, n, l, hdr)
        /\ hdr # <<>> /\ data # <<>> => l =< Start(script, n + 2)
    BY <1>10 DEF Pending, WithinFrame
  <2>2. Len(hdr) = 6 /\ HdrSize = 6 /\ hdr # <<>> /\ data # <<>>
    <3>1. Len(<<>>) = 0
      OBVIOUS
    <3>2. Len(hdr) >= HdrSize
      BY <1>12 DEF Collecting, Reached
    <3>3. Len(hdr) = 6 /\ HdrSize = 6
      <4>1. Len(hdr) \in Nat /\ Len(hdr) =< 6 /\ Len(hdr) >= 6
        BY <1>5, <3>2 DEF HdrSize
      <4>2. \A x \in Nat : x =< 6 /\ x >= 6 => x = 6
        OBVIOUS
      <4> QED  BY <4>1, <4>2 DEF HdrSize
    <3>4. Len(data) # 0
      BY <1>1, <1>4
    <3> QED  BY <3>1, <3>3, <3>4
  <2>3. n + 1 \in 1..Len(script) + 1 /\ Len(script) \in Nat
    BY <1>1, <1>6, LenProperties
  <2>4. b \in Nat
    BY <1>1, <2>3, StartTyped
  <2>5. n < Len(script)
    <3>1. b < l
      BY <1>4, <1>5, <1>1, <2>1, <2>2, <2>4
    <3> QED  BY <1>1, <1>3, <1>6, <3>1, PendingFrame
  <2>6. /\ size \in Nat /\ Start(script, n + 2) = b + HdrSize + size
        /\ \A i \in 1..(HdrSize + size) : Sends(script)[b + i] = Byte(n + 1, i)
    BY <1>1, <1>6, <2>5, NextFrame
  <2> HIDE DEF b
  <2>7. \A i \in 1..HdrSize : hdr[i] = Byte(n + 1, i)
    <3>1. \A i \in 1..HdrSize : i \in 1..(HdrSize + size) /\ i \in 1..Len(hdr)
      BY <2>2, <2>6
    <3> QED  BY <2>1, <2>6, <3>1 DEF InPlace
  <2>8. PldSize(hdr) = size /\ Len(recv_buf) < size
    <3>1. hdr[1] = Byte(n + 1, 1)
      BY <2>2, <2>7
    <3>2. PldSize(hdr) = size
      BY <3>1 DEF PldSize, Byte
    <3> QED  BY <1>1, <1>12, <3>2 DEF Buffers
  <2> HIDE DEF size
  <2>9. b + HdrSize + Len(recv_buf) + k = l /\ l =< b + HdrSize + size
    BY <1>4, <2>1, <2>2, <2>6
  <2>10. taken = k /\ Len(recv_buf) + k =< size
    <3>1. /\ k \in Nat /\ Len(recv_buf) \in Nat /\ size \in Nat /\ b \in Nat /\ HdrSize = 6
          /\ Len(recv_buf) < size
      BY <1>1, <1>5, <2>2, <2>4, <2>6, <2>8
    <3>2. Len(recv_buf) + k =< size
      BY <2>9, <3>1
    <3>3. taken = IF k < size - Len(recv_buf) THEN k ELSE size - Len(recv_buf)
      BY <2>8 DEF Taken, Least
    <3>4. taken = k
      BY <3>1, <3>2, <3>3
    <3> QED  BY <3>2, <3>4
  <2> HIDE DEF taken
  <2>11. /\ payload \in Seq(S) /\ Len(payload) = Len(recv_buf) + k
         /\ \A i \in 1..Len(payload) : payload[i] = Sends(script)[b + HdrSize + i]
    <3>1. taken \in 0..Len(data)
      BY <1>1, <1>4, <2>10
    <3>2. /\ payload \in Seq(S) /\ Len(payload) = Len(recv_buf) + taken
          /\ \A i \in 1..Len(recv_buf) + taken :
               payload[i] = IF i =< Len(recv_buf) THEN recv_buf[i] ELSE data[i - Len(recv_buf)]
      BY <1>4, <1>5, <3>1, CollectedIs
    <3> HIDE DEF payload
    <3>3. ASSUME NEW i \in 1..(Len(recv_buf) + k)
          PROVE  payload[i] = Sends(script)[b + HdrSize + i]
      <4>1. CASE i =< Len(recv_buf)
        <5>1. i \in 1..Len(recv_buf) /\ Len(hdr) = HdrSize
          BY <1>5, <2>2, <4>1
        <5> QED  BY <2>1, <2>10, <3>2, <4>1, <5>1 DEF InPlace
      <4>2. CASE ~(i =< Len(recv_buf))
        <5> DEFINE j == i - Len(recv_buf)
        <5>1. /\ j \in 1..Len(data)
              /\ b + Len(hdr) + Len(recv_buf) + j = b + HdrSize + i
          BY <1>1, <1>4, <1>5, <2>2, <2>4, <4>2
        <5>2. payload[i] = data[j]
          BY <2>10, <3>2, <4>2
        <5> HIDE DEF j
        <5>3. data[j] = Sends(script)[b + Len(hdr) + Len(recv_buf) + j]
          BY <2>1, <5>1 DEF InPlace
        <5> QED  BY <5>1, <5>2, <5>3
      <4> QED  BY <4>1, <4>2
    <3> QED  BY <2>10, <3>2, <3>3
  <2>12. IF Len(payload) < PldSize(hdr)
         THEN recv_buf' = payload /\ UNCHANGED <<open, hdr, sock_buf, processed>>
         ELSE Process(hdr, payload, Remaining(data, taken))
    BY <1>9, <1>12 DEF taken
  <2> HIDE DEF payload
  <2>13. CASE Len(payload) < size
    <3>1. recv_buf' = payload /\ UNCHANGED <<open, hdr, sock_buf, processed>>
      BY <2>8, <2>12, <2>13
    <3>2. /\ size > 0 /\ l < b + HdrSize + size /\ b + Len(hdr) + Len(payload) = l
          /\ Len(payload) \in Nat
      BY <1>1, <1>5, <2>2, <2>4, <2>6, <2>8, <2>9, <2>11, <2>13
    <3>3. InPlace(script, payload, b + Len(hdr))
      BY <2>2, <2>11 DEF InPlace
    <3>4. Pending(script, n, l, hdr, payload, <<>>)
      <4>1. /\ script[n + 1].pld_size > 0 /\ l < Start(script, n + 2)
            /\ Start(script, n + 1) + Len(hdr) + Len(payload) = l
            /\ InPlace(script, hdr, Start(script, n + 1))
            /\ InPlace(script, payload, Start(script, n + 1) + Len(hdr))
        BY <2>1, <2>6, <3>2, <3>3 DEF b, size
      <4> QED  BY <1>1, <1>3, <1>5, <1>6, <2>1, <2>5, <3>2, <4>1, FramePart
    <3> QED  BY <1>1, <1>2, <1>6, <1>7, <3>1, <3>4 DEF FrameInv
  <2>14. CASE ~(Len(payload) < size)
    <3>0. Len(payload) = size
      <4>1. /\ Len(recv_buf) + k =< size /\ size \in Nat /\ Len(recv_buf) + k \in Nat
            /\ ~(Len(recv_buf) + k < size)
        BY <1>1, <1>5, <2>6, <2>10, <2>11, <2>14
      <4>2. Len(recv_buf) + k = size
        BY <4>1
      <4> QED  BY <2>11, <4>2
    <3>1. Process(hdr, payload, Remaining(data, taken))
      BY <2>8, <2>12, <2>14
    <3>2. Remaining(data, taken) = <<>>
      BY <1>4, <2>10 DEF Remaining
    <3>3. Len(payload) = size /\ l = b + HdrSize + size
      <4>1. /\ b + HdrSize + Len(recv_buf) + k = l /\ Len(recv_buf) + k = size
            /\ b \in Nat /\ HdrSize \in Nat /\ Len(recv_buf) \in Nat /\ k \in Nat
        <5>1. b + HdrSize + Len(recv_buf) + k = l /\ b \in Nat
          BY <2>4, <2>9
        <5>2. Len(recv_buf) + k = size
          BY <2>11, <3>0
        <5>3. HdrSize \in Nat /\ Len(recv_buf) \in Nat /\ k \in Nat
          BY <1>1, <1>5, <2>2
        <5> QED  BY <5>1, <5>2, <5>3
      <4>2. b + HdrSize + (Len(recv_buf) + k) = l
        BY <4>1
      <4> QED  BY <3>0, <4>1, <4>2
    <3>4. \A i \in 1..Len(payload) : payload[i] = Byte(n + 1, HdrSize + i)
      <4> SUFFICES ASSUME NEW i \in 1..size
                   PROVE  payload[i] = Byte(n + 1, HdrSize + i)
        BY <3>3
      <4>1. HdrSize + i \in 1..(HdrSize + size) /\ b + (HdrSize + i) = b + HdrSize + i
        BY <2>2, <2>4, <2>6
      <4>2. Sends(script)[b + (HdrSize + i)] = Byte(n + 1, HdrSize + i)
        BY <2>6, <4>1
      <4> QED  BY <2>11, <3>3, <4>1, <4>2
    <3>5. <<>> \in Seq(S) /\ Len(<<>>) = 0 /\ InPlace(script, <<>>, Start(script, n + 2))
      BY EmptySeq DEF InPlace
    <3>6. /\ Start(script, n + 2) + Len(<<>>) = received'
          /\ received' \in 0..Len(Sends(script)) /\ EmptyWhole(script, n, received', hdr)
      BY <1>2, <1>3, <2>1, <2>6, <3>3, <3>5
    <3>7. Len(payload) = script[n + 1].pld_size /\ HdrSize =< Len(hdr) /\ ~(PldSize(hdr) = 0)
      BY <1>5, <2>2, <2>6, <2>8, <3>3 DEF size
    <3>8. Process(hdr, payload, <<>>) /\ ~astray' /\ UNCHANGED script
      BY <1>1, <1>2, <3>1, <3>2
    <3> QED  BY <1>1, <1>5, <1>6, <2>5, <2>7, <2>11, <3>4, <3>5, <3>6, <3>7, <3>8, FrameProcessed
  <2> QED  BY <2>13, <2>14
<1> QED  BY <1>11, <1>12

LEMMA InitInv ==
  ASSUME Init
  PROVE  FrameInv
<1> DEFINE s == script
<1>1. /\ s \in Seq(Frame) /\ open /\ ~astray /\ received = 0
      /\ hdr = <<>> /\ recv_buf = <<>> /\ sock_buf = <<>> /\ processed = <<>>
  BY WsScriptsAssumption DEF Init
<1> HIDE DEF s
<1>2. Len(s) \in Nat /\ Start(s, 1) = 0 /\ Len(<<>>) = 0 /\ \A at : InPlace(s, <<>>, at)
  BY <1>1, SendsTyped, LenProperties DEF InPlace
<1>3. processed = SentOf(s, 0)
  <2>1. 1..0 = {}
    OBVIOUS
  <2> QED  BY <1>1, <2>1 DEF SentOf
<1>4. \A m \in 1..Len(s) : Start(s, m) \in Nat
  BY <1>1, StartNext
<1>5. EmptyWhole(s, 0, 0, <<>>)
  BY <1>4 DEF EmptyWhole
<1>6. ASSUME 0 < Len(s)
      PROVE  0 < Start(s, 2)
  <2>1. /\ Start(s, 1 + 1) = Start(s, 1) + HdrSize + s[1].pld_size /\ s[1].pld_size \in Nat
    BY <1>1, <1>2, <1>6, StartNext, FrameBytesTyped
  <2> QED  BY <1>2, <2>1 DEF HdrSize
<1>7. 0 + 1 = 1 /\ 0 + 2 = 2 /\ Start(s, 1) + Len(<<>>) + Len(<<>>) + Len(<<>>) = 0
  BY <1>2
<1>8. Pending(s, 0, 0, <<>>, <<>>, <<>>)
  BY <1>2, <1>5, <1>6, <1>7 DEF Pending, WithinFrame
<1> QED  BY <1>1, <1>2, <1>3, <1>8 DEF FrameInv, s

LEMMA NextInv ==
  ASSUME Shape, FrameInv, [Next]_vars
  PROVE  FrameInv'
<1>1. CASE ReadEnd
  BY <1>1 DEF ReadEnd, FrameInv
<1>2. CASE UNCHANGED vars
  BY <1>2 DEF vars, FrameInv
<1> QED  BY <1>1, <1>2, ReadInv, ParseInv DEF Next

\* What is pending is of one frame: the frames before it are processed.
LEMMA AllProcessed ==
  ASSUME Shape, FrameInv
  PROVE  FramesProcessed
<1> SUFFICES ASSUME split_well
             PROVE  /\ ~astray
                    /\ Len(processed) =< Len(script) /\ processed = Sent(Len(processed))
                    /\ open /\ sock_buf = <<>> =>
                         \A m \in DOMAIN script : After(m) =< received <=> m =< Len(processed)
  BY DEF FramesProcessed
<1> DEFINE n == Len(processed)
<1>1. /\ script \in Seq(Frame) /\ n \in 0..Len(script) /\ processed = SentOf(script, n) /\ ~astray
      /\ open => Pending(script, n, received, hdr, recv_buf, sock_buf)
      /\ received \in 0..Len(Sends(script))
      /\ Len(hdr) \in Nat /\ Len(recv_buf) \in Nat
  BY WsScriptsAssumption, LenProperties DEF FrameInv, Shape
<1>2. Len(script) \in Nat /\ DOMAIN script = 1..Len(script) /\ processed = Sent(n)
      /\ Len(Sends(script)) \in Nat
  BY <1>1, LenProperties, SentIs, SendsTyped
<1> HIDE DEF n
<1>3. ASSUME open, sock_buf = <<>>, NEW m \in DOMAIN script
      PROVE  After(m) =< received <=> m =< n
  <2>1. m \in 1..Len(script) /\ After(m) = Start(script, m + 1) /\ Start(script, m + 1) \in Nat
    BY <1>1, <1>2, StreamIs, StartNext
  <2>2. /\ Start(script, n + 1) =< received
        /\ n < Len(script) => received < Start(script, n + 2)
    <3>1. Len(<<>>) = 0
      OBVIOUS
    <3>2. n + 1 \in 1..Len(script) + 1
      BY <1>1, <1>2
    <3>3. Start(script, n + 1) \in Nat
      BY <1>1, <3>2, StartTyped
    <3>4. /\ Start(script, n + 1) + Len(hdr) + Len(recv_buf) + Len(<<>>) = received
          /\ n < Len(script) => received < Start(script, n + 2)
      BY <1>1, <1>3 DEF Pending
    <3> QED  BY <1>1, <3>1, <3>3, <3>4
  <2>3. ASSUME m =< n
        PROVE  After(m) =< received
    <3>1. n + 1 \in 1..Len(script) + 1 /\ m < n + 1
      BY <1>1, <1>2, <2>1, <2>3
    <3> DEFINE k == n + 1
    <3> HIDE DEF k
    <3>2. k \in 1..Len(script) + 1 /\ m < k
      BY <3>1 DEF k
    <3>3. Start(script, m + 1) =< Start(script, k) /\ Start(script, k) \in Nat
      BY <1>1, <2>1, <3>2, StartsAscend, StartTyped
    <3>4. Start(script, k) =< received
      BY <2>2 DEF k
    <3>5. received \in Nat
      BY <1>1, <1>2
    <3> QED  BY <2>1, <3>3, <3>4, <3>5
  <2>4. ASSUME ~(m =< n)
        PROVE  ~(After(m) =< received)
    <3>1. n < Len(script) /\ n + 1 \in 1..Len(script) /\ m >= n + 1
      BY <1>1, <1>2, <2>1, <2>4
    <3>2. Start(script, n + 2) \in Nat
      BY <1>1, <3>1, NextFrame
    <3>3. Start(script, n + 2) =< Start(script, m + 1)
      <4>1. CASE m = n + 1
        <5>1. m + 1 = n + 2
          BY <1>1, <1>2, <4>1
        <5> QED  BY <3>2, <5>1
      <4>2. CASE m > n + 1
        <5>1. Start(script, n + 2) =< Start(script, m)
          BY <1>1, <2>1, <3>1, <4>2, NextFrame
        <5>2. /\ Start(script, m + 1) = Start(script, m) + HdrSize + script[m].pld_size
              /\ Start(script, m) \in Nat /\ script[m].pld_size \in Nat
          BY <1>1, <2>1, StartNext, FrameBytesTyped
        <5> QED  BY <3>2, <5>1, <5>2 DEF HdrSize
      <4> QED  BY <2>1, <3>1, <4>1, <4>2
    <3>4. received < Start(script, n + 2) /\ received \in Nat
      BY <1>1, <1>2, <2>2, <3>1
    <3> QED  BY <2>1, <3>2, <3>3, <3>4
  <2> QED  BY <2>3, <2>4
<1> QED  BY <1>1, <1>2, <1>3 DEF n

\* For frames with payloads of up to ShortPayload bytes, wherever the reads end,
\* as long as none of them goes on behind a frame that an earlier read began and
\* each frame without a payload comes whole and as the last of its read: every
\* frame is processed once, whole, in order, with the opcode, the key and the
\* payload the client sent, and as soon as it was read.
THEOREM FramesArrive == Spec => []FramesProcessed
<1> DEFINE Inv == Shape /\ FrameInv
<1>1. Init => Inv
  BY InitShape, InitInv
<1>2. Inv /\ [Next]_vars => Inv'
  <2> SUFFICES ASSUME Shape, FrameInv, [Next]_vars
               PROVE  Shape' /\ FrameInv'
    BY DEF Inv
  <2> QED  BY NextShape, NextInv
<1>3. Inv => FramesProcessed
  BY AllProcessed
<1> HIDE DEF Inv
<1> QED  BY <1>1, <1>2, <1>3, PTL DEF Spec


=============================================================================
