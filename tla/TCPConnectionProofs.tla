------------------------ MODULE TCPConnectionProofs ------------------------
(***************************************************************************)
(* What module TCPConnection promises of a connection's output holds for   *)
(* lines and buffers of any size, and any number of lines either way,      *)
(* whether commands arrive whole or in parts.                              *)
(***************************************************************************)
EXTENDS TCPConnection, SequenceTheorems, FiniteSetTheorems, TLAPS

\* The types of what is sent and queued, and of the bits of polling ...
Typed ==
    /\ wire \in Seq(Piece) /\ inputBuff \in Seq(Piece)
    /\ outputBuffer \in Seq(Piece) /\ received \in Seq(Piece)
    /\ sent \in Nat /\ queued \in Nat
    /\ events \in BOOLEAN /\ slotted \in BOOLEAN /\ slotEvents \in BOOLEAN
    /\ regen_pollfds \in BOOLEAN /\ overflowed \in BOOLEAN /\ failed \in BOOLEAN

\* ... and those of the rest, on which the others do not depend.
Controlled ==
    /\ revents \subseteq Event /\ room \in BOOLEAN
    /\ peer \in {"open", "half", "gone"}
    /\ pc \in {"top", "device", "connection", "removed", "killed"}

\* The circular buffer.  Without the bound, output could be lost by queueing none.
Bounded == Len(outputBuffer) <= Capacity

\* A connection without an entry is in no round, and has one in the next.
HasEntry == slotted \/ (pc = "top" /\ regen_pollfds)

\* A handler that asks for a regeneration ends the round.
NoneIsAsked == pc \in {"device", "connection"} => ~regen_pollfds

\* A write is tried only when ::poll has reported nothing but POLLOUT.
KilledByWrite == pc = "killed" => revents = {"POLLOUT"}

IInv ==
    /\ Typed /\ Bounded /\ HasEntry /\ NoneIsAsked /\ KilledByWrite
    /\ OutputIsArmed /\ OutputInOrder

-----------------------------------------------------------------------------
(* Texts *)

\* The k-th piece that is ever sent or queued.
PieceAt(k) == <<((k - 1) \div LineLen) + 1, ((k - 1) % LineLen) + 1>>

\* A text has its length, and its pieces their places.
LEMMA StreamProperties ==
    ASSUME ConnectionAssumption, NEW a \in Nat, NEW b \in Nat, a <= b
    PROVE  /\ Stream(a, b) \in Seq(Piece)
           /\ Len(Stream(a, b)) = b - a
           /\ \A p \in 1..(b - a) : Stream(a, b)[p] = PieceAt(a + p)
<1> DEFINE f == [p \in 1..(b - a) |-> PieceAt(a + p)]
<1>1. LineLen \in Nat \ {0} /\ b - a \in Nat
  BY DEF ConnectionAssumption
<1>2. ASSUME NEW p \in 1..(b - a)
      PROVE  PieceAt(a + p) \in Piece
  <2>1. (a + p - 1) \div LineLen \in Int /\ (a + p - 1) % LineLen \in Int
    BY <1>1
  <2> QED
    BY <2>1 DEF Piece, PieceAt
<1>3. f \in [1..(b - a) -> Piece]
  BY <1>2
<1>4. f \in Seq(Piece) /\ Len(f) = b - a
  <2> HIDE DEF f
  <2>1. f \in Seq(Piece)
    BY <1>1, <1>3, SeqDef
  <2>2. DOMAIN f = 1..(b - a)
    BY <1>3
  <2> QED
    BY <1>1, <2>1, <2>2, LenProperties
<1>5. f = Stream(a, b)
  BY DEF Stream, PieceAt
<1> QED
  BY <1>4, <1>5

\* Adjacent texts make one text.
LEMMA StreamConcat ==
    ASSUME ConnectionAssumption, NEW a \in Nat, NEW b \in Nat, NEW c \in Nat, a <= b, b <= c
    PROVE  Stream(a, b) \o Stream(b, c) = Stream(a, c)
<1> DEFINE s == Stream(a, b)
           t == Stream(b, c)
           u == Stream(a, c)
<1>1. s \in Seq(Piece) /\ Len(s) = b - a /\ \A p \in 1..(b - a) : s[p] = PieceAt(a + p)
  BY StreamProperties
<1>2. t \in Seq(Piece) /\ Len(t) = c - b /\ \A p \in 1..(c - b) : t[p] = PieceAt(b + p)
  BY StreamProperties
<1>3. u \in Seq(Piece) /\ Len(u) = c - a /\ \A p \in 1..(c - a) : u[p] = PieceAt(a + p)
  <2>1. a <= c
    OBVIOUS
  <2> QED
    BY <2>1, StreamProperties
<1> HIDE DEF s, t, u
<1>4. s \o t \in Seq(Piece) /\ Len(s \o t) = Len(u)
  BY <1>1, <1>2, <1>3, ConcatProperties
<1>5. ASSUME NEW p \in 1..(c - a)
      PROVE  (s \o t)[p] = u[p]
  <2>1. (s \o t)[p] = IF p <= b - a THEN s[p] ELSE t[p - (b - a)]
    BY <1>1, <1>2, ConcatProperties
  <2>2. CASE p <= b - a
    BY <1>1, <1>3, <2>1, <2>2
  <2>3. CASE p > b - a
    <3>1. p - (b - a) \in 1..(c - b) /\ b + (p - (b - a)) = a + p
      BY <2>3
    <3>2. t[p - (b - a)] = PieceAt(a + p)
      BY <1>2, <3>1
    <3> QED
      BY <1>3, <2>1, <2>3, <3>2
  <2>4. p <= b - a \/ p > b - a
    OBVIOUS
  <2> QED
    BY <2>2, <2>3, <2>4
<1>6. s \o t = u
  BY <1>3, <1>4, <1>5, SeqEqual
<1> QED
  BY <1>6 DEF s, t, u

\* Lines end where the next ones begin.
LEMMA LinesAdjoin ==
    ASSUME ConnectionAssumption, NEW q \in Nat, NEW n \in Nat
    PROVE  /\ q * LineLen \in Nat /\ (q + n) * LineLen \in Nat
           /\ q * LineLen <= (q + n) * LineLen
           /\ n = 0 => (q + n) * LineLen = q * LineLen
<1>1. LineLen \in Nat
  BY DEF ConnectionAssumption
<1>2. q * LineLen \in Nat /\ n * LineLen \in Nat
  BY <1>1
<1>3. (q + n) * LineLen = q * LineLen + n * LineLen
  BY <1>1
<1> QED
  BY <1>1, <1>2, <1>3

-----------------------------------------------------------------------------
(* Queueing and writing output *)

\* What the actions leave of the invariant when they change the output buffer.
OutputKept ==
    /\ outputBuffer' \in Seq(Piece) /\ Len(outputBuffer') <= Capacity
    /\ overflowed' \in BOOLEAN /\ OutputInOrder'

\* What is queued is typed, and is n lines more than there were.
LEMMA AppendedProperties ==
    ASSUME ConnectionAssumption, Typed, NEW n \in Nat
    PROVE  /\ Stream(queued * LineLen, (queued + n) * LineLen) \in Seq(Piece)
           /\ Appended(n) \in Seq(Piece) /\ Len(Appended(n)) \in Nat
           /\ n = 0 => Appended(n) = outputBuffer
<1> DEFINE q == queued * LineLen
           r == (queued + n) * LineLen
           new == Stream(q, r)
<1>1. queued \in Nat /\ outputBuffer \in Seq(Piece)
  BY DEF Typed
<1>0. q \in Nat /\ r \in Nat /\ q <= r /\ (n = 0 => r = q)
  BY <1>1, LinesAdjoin
<1>2. new \in Seq(Piece) /\ Len(new) = r - q
  <2> HIDE DEF q, r
  <2> QED
    BY <1>0, StreamProperties
<1>3. Appended(n) \in Seq(Piece)
  BY <1>1, <1>2, ConcatProperties DEF Appended
<1>4. Len(Appended(n)) \in Nat
  BY <1>3, LenProperties
<1>5. ASSUME n = 0
      PROVE  Appended(n) = outputBuffer
  <2>1. Len(new) = 0
    <3> HIDE DEF q, r
    <3> QED
      BY <1>0, <1>2, <1>5
  <2>2. new = <<>>
    BY <1>2, <2>1, EmptySeq
  <2> QED
    BY <1>1, <2>2, ConcatEmptySeq DEF Appended
<1> QED
  BY <1>2, <1>3, <1>4, <1>5

\* queueOutput keeps order and bound, whether or not the oldest pieces give way.
LEMMA QueueingKeepsOrder ==
    ASSUME ConnectionAssumption, Typed, Bounded, OutputInOrder,
           NEW n \in Nat, queueOutput(n), received' = received
    PROVE  OutputKept /\ queued' \in Nat
<1> DEFINE new == Stream(queued * LineLen, (queued + n) * LineLen)
<1>1. /\ queued \in Nat /\ outputBuffer \in Seq(Piece) /\ received \in Seq(Piece)
      /\ overflowed \in BOOLEAN
  BY DEF Typed
<1>2. Capacity \in Nat \ {0}
  BY DEF ConnectionAssumption
<1>3. new \in Seq(Piece) /\ Appended(n) \in Seq(Piece) /\ Len(Appended(n)) \in Nat
  BY AppendedProperties
<1>4. queued' = queued + n /\ queued' \in Nat
  BY <1>1 DEF queueOutput
<1>5. CASE Len(Appended(n)) <= Capacity
  <2>1. Excess(n) = 0 /\ overflowed' = overflowed
    BY <1>1, <1>2, <1>3, <1>5 DEF Excess, queueOutput
  <2>2. outputBuffer' = SubSeq(Appended(n), 1, Len(Appended(n)))
    BY <2>1 DEF queueOutput
  <2>3. outputBuffer' = outputBuffer \o new
    BY <1>3, <2>2, SubSeqFull DEF Appended
  <2>4. outputBuffer' = Appended(n)
    BY <2>3 DEF Appended
  <2>5. ASSUME ~overflowed
        PROVE  received \o outputBuffer' = Stream(0, (queued + n) * LineLen)
    <3>1. received \o outputBuffer = Stream(0, queued * LineLen)
      BY <2>5 DEF OutputInOrder
    <3>2. (received \o outputBuffer) \o new = received \o (outputBuffer \o new)
      <4> HIDE DEF new
      <4> QED
        <5>1. received \in Seq(Piece) /\ outputBuffer \in Seq(Piece) /\ new \in Seq(Piece)
          BY <1>1, <1>3
        <5> QED
          BY <5>1, ConcatAssociative
    <3> DEFINE q == queued * LineLen
               r == (queued + n) * LineLen
    <3>3. q \in Nat /\ r \in Nat /\ q <= r
      BY <1>1, LinesAdjoin
    <3>4. Stream(0, q) \o Stream(q, r) = Stream(0, r)
      <4> HIDE DEF q, r
      <4>1. 0 <= q
        BY <3>3
      <4> QED
        BY <3>3, <4>1, StreamConcat
    <3> QED
      BY <2>3, <3>1, <3>2, <3>4
  <2> QED
    BY <1>1, <1>3, <1>4, <1>5, <2>1, <2>4, <2>5 DEF OutputKept, OutputInOrder, Stream
<1>6. CASE Len(Appended(n)) > Capacity
  <2> DEFINE len == Len(Appended(n))
             all == Appended(n)
  <2>1. Excess(n) = len - Capacity /\ Excess(n) > 0 /\ overflowed' = TRUE
    <3>1. Excess(n) = len - Capacity
      BY <1>6 DEF Excess
    <3>2. Excess(n) > 0
      <4> HIDE DEF len
      <4> QED
        BY <1>2, <1>3, <1>6, <3>1 DEF len
    <3>3. overflowed' = (overflowed \/ Excess(n) > 0)
      BY DEF queueOutput
    <3> QED
      BY <3>1, <3>2, <3>3
  <2>2. outputBuffer' = SubSeq(all, len - Capacity + 1, len)
    BY <2>1 DEF queueOutput
  <2>3. \A i \in (len - Capacity + 1)..len : all[i] \in Piece
    <3> HIDE DEF all
    <3>1. ASSUME NEW i \in (len - Capacity + 1)..len
          PROVE  i \in 1..len
      BY <1>2, <1>3, <1>6
    <3> QED
      BY <1>3, <3>1, ElementOfSeq DEF all
  <2>4. outputBuffer' \in Seq(Piece) /\ Len(outputBuffer') = Capacity
    <3>1. len - Capacity + 1 \in Int /\ len \in Int
      BY <1>2, <1>3
    <3> HIDE DEF len, all
    <3>2. /\ SubSeq(all, len - Capacity + 1, len) \in Seq(Piece)
          /\ Len(SubSeq(all, len - Capacity + 1, len))
               = IF len - Capacity + 1 <= len THEN len - (len - Capacity + 1) + 1 ELSE 0
      BY <2>3, <3>1, SubSeqProperties
    <3> QED
      BY <1>2, <2>2, <3>1, <3>2
  <2> QED
    BY <1>2, <1>4, <2>1, <2>4 DEF OutputKept, OutputInOrder
<1> QED
  BY <1>2, <1>3, <1>5, <1>6

\* queueOutput asks for POLLOUT, in both places, unless there is nothing new.
LEMMA QueueingArms ==
    ASSUME ConnectionAssumption, Typed, Bounded, OutputIsArmed, slotted, ~regen_pollfds,
           NEW n \in Nat, queueOutput(n)
    PROVE  /\ events' \in BOOLEAN /\ slotEvents' \in BOOLEAN /\ failed' \in BOOLEAN
           /\ outputBuffer' # <<>> /\ ~failed' => events' /\ slotEvents'
<1>1. CASE n # 0
  BY <1>1 DEF Typed, queueOutput, Arm
<1>2. CASE n = 0
  <2>1. outputBuffer \in Seq(Piece) /\ Appended(n) = outputBuffer
    BY <1>2, AppendedProperties DEF Typed
  <2>2. Excess(n) = 0
    <3>1. Len(Appended(n)) <= Capacity
      BY <2>1 DEF Bounded
    <3>2. Len(Appended(n)) \in Nat /\ Capacity \in Nat
      BY AppendedProperties DEF ConnectionAssumption
    <3>3. ~(Len(Appended(n)) > Capacity)
      BY <3>1, <3>2
    <3> QED
      BY <3>3 DEF Excess
  <2>3. outputBuffer' = outputBuffer
    BY <2>1, <2>2, SubSeqFull DEF queueOutput
  <2>4. failed' = failed /\ events' = events /\ slotEvents' = slotEvents
    BY <1>2 DEF queueOutput, Typed
  <2> QED
    BY <2>3, <2>4 DEF Typed, OutputIsArmed
<1> QED
  BY <1>1, <1>2

\* What a write takes from the front of the buffer, the client receives.
LEMMA WritingKeepsOrder ==
    ASSUME ConnectionAssumption, Typed, Bounded, OutputInOrder,
           NEW n \in 1..Capacity, Write(n), queued' = queued, overflowed' = overflowed
    PROVE  OutputKept /\ received' \in Seq(Piece)
<1> DEFINE len == Len(outputBuffer)
           front == SubSeq(outputBuffer, 1, n)
           rest == SubSeq(outputBuffer, n + 1, len)
<1>1. /\ outputBuffer \in Seq(Piece) /\ received \in Seq(Piece) /\ queued \in Nat
      /\ overflowed \in BOOLEAN
  BY DEF Typed
<1>2. Capacity \in Nat \ {0} /\ n \in Int /\ n >= 1
  BY DEF ConnectionAssumption
<1>3. len \in Nat /\ n <= len /\ len <= Capacity
  BY <1>1, LenProperties DEF Bounded, Write
<1>4. outputBuffer' = rest /\ received' = received \o front
  BY DEF Write
<1>5. \A i \in 1..len : outputBuffer[i] \in Piece
  BY <1>1, ElementOfSeq
<1>6. front \in Seq(Piece)
  <2>1. \A i \in 1..n : outputBuffer[i] \in Piece
    BY <1>2, <1>3, <1>5
  <2> QED
    BY <1>2, <2>1, SubSeqProperties
<1>7. rest \in Seq(Piece) /\ Len(rest) <= Capacity
  <2>1. \A i \in (n + 1)..len : outputBuffer[i] \in Piece
    BY <1>2, <1>3, <1>5
  <2>2. n + 1 \in Int /\ len \in Int
    BY <1>2, <1>3
  <2> HIDE DEF len
  <2>3. /\ rest \in Seq(Piece)
        /\ Len(rest) = IF n + 1 <= len THEN len - (n + 1) + 1 ELSE 0
    BY <2>1, <2>2, SubSeqProperties
  <2> QED
    BY <1>2, <1>3, <2>3
<1>8. front \o rest = outputBuffer
  <2>1. 1 \in 1..(len + 1) /\ n \in (1 - 1)..len /\ len \in n..len
    BY <1>2, <1>3
  <2>2. front \o rest = SubSeq(outputBuffer, 1, len)
    BY <1>1, <2>1, ConcatAdjacentSubSeq
  <2> QED
    BY <1>1, <2>2, SubSeqFull
<1>9. (received \o front) \o rest = received \o outputBuffer
  <2> HIDE DEF front, rest
  <2>1. (received \o front) \o rest = received \o (front \o rest)
    BY <1>1, <1>6, <1>7, ConcatAssociative
  <2> QED
    BY <1>8, <2>1
<1>10. received \o front \in Seq(Piece)
  BY <1>1, <1>6, ConcatProperties
<1> HIDE DEF front, rest
<1>11. OutputInOrder'
  BY <1>4, <1>9 DEF OutputInOrder, Stream
<1> QED
  BY <1>1, <1>4, <1>7, <1>10, <1>11 DEF OutputKept

-----------------------------------------------------------------------------
(* The invariant *)

LEMMA InvariantAtFirst ==
    ASSUME ConnectionAssumption
    PROVE  Init => IInv
<1> SUFFICES ASSUME Init PROVE IInv
  OBVIOUS
<1>1. queued \in Nat /\ queued \in {0, 1} /\ LineLen \in Nat /\ LineLen <= Capacity
  BY DEF ConnectionAssumption, Init
<1> DEFINE q == queued * LineLen
<1>2. q \in Nat /\ q <= Capacity /\ (queued = 0 => q = 0)
  BY <1>1 DEF ConnectionAssumption
<1>3. outputBuffer = Stream(0, q)
  BY DEF Init
<1>4. outputBuffer \in Seq(Piece) /\ Len(outputBuffer) = q
  <2> HIDE DEF q
  <2> QED
    BY <1>2, <1>3, StreamProperties
<1>5. <<>> \in Seq(Piece) /\ (queued = 0 => outputBuffer = <<>>)
  BY <1>2, <1>4, EmptySeq
<1>6. Typed
  BY <1>1, <1>4, <1>5 DEF Typed, Init
<1>7. Bounded
  BY <1>2, <1>4 DEF Bounded
<1>8. HasEntry /\ NoneIsAsked /\ KilledByWrite
  BY DEF HasEntry, NoneIsAsked, KilledByWrite, Init
<1>9. OutputIsArmed
  BY <1>1, <1>5 DEF OutputIsArmed, Init
<1>10. OutputInOrder
  <2>1. received \o outputBuffer = outputBuffer
    BY <1>4, ConcatEmptySeq DEF Init
  <2> QED
    BY <1>3, <2>1 DEF OutputInOrder
<1> QED
  BY <1>6, <1>7, <1>8, <1>9, <1>10 DEF IInv

\* A text that has been partly read is a text.
LEMMA WireKept ==
    ASSUME Typed, NEW len \in Nat
    PROVE  SubSeq(wire, len + 1, Len(wire)) \in Seq(Piece)
<1>1. wire \in Seq(Piece)
  BY DEF Typed
<1>2. Len(wire) \in Int /\ len + 1 \in Int
  BY <1>1, LenProperties
<1>3. \A i \in (len + 1)..Len(wire) : wire[i] \in Piece
  <2>1. ASSUME NEW i \in (len + 1)..Len(wire)
        PROVE  i \in 1..Len(wire)
    BY <1>2
  <2> QED
    BY <1>1, <2>1, ElementOfSeq
<1> QED
  BY <1>2, <1>3, SubSeqProperties

\* The client's own steps leave output and polling alone.
LEMMA ClientKeeps ==
    ASSUME ConnectionAssumption, IInv,
           \/ \E n \in 1..LineLen : Send(n)
           \/ ReadAll
           \/ \E p \in {"half", "gone"} : Leave(p)
    PROVE  IInv'
<1>1. wire' \in Seq(Piece) /\ sent' \in Nat
  <2>1. CASE \E n \in 1..LineLen : Send(n)
    <3>1. PICK n \in 1..LineLen : Send(n)
      BY <2>1
    <3>2. sent \in Nat /\ n \in Nat /\ wire \in Seq(Piece)
      BY DEF ConnectionAssumption, IInv, Typed
    <3>3. sent' = sent + n /\ wire' = wire \o Stream(sent, sent')
      BY <3>1 DEF Send
    <3>4. sent' \in Nat /\ sent <= sent'
      BY <3>2, <3>3
    <3>5. Stream(sent, sent') \in Seq(Piece)
      BY <3>2, <3>4, StreamProperties
    <3> QED
      BY <3>2, <3>3, <3>4, <3>5, ConcatProperties
  <2>2. CASE ReadAll
    BY <2>2 DEF IInv, Typed, ReadAll, input
  <2>3. CASE \E p \in {"half", "gone"} : Leave(p)
    BY <2>3 DEF IInv, Typed, Leave, input
  <2> QED
    BY <2>1, <2>2, <2>3
<1>2. UNCHANGED <<inputBuff, output, polling, events, slotEvents, regen_pollfds, pc, received>>
  BY DEF Send, ReadAll, Leave, input
<1> QED
  BY <1>1, <1>2 DEF IInv, Typed, Bounded, HasEntry, NoneIsAsked, KilledByWrite,
                    OutputIsArmed, OutputInOrder, Stream, output, polling

\* After regenFDs the connection has its entry, and its events.
LEMMA BeginPollKeeps ==
    ASSUME IInv, BeginPoll
    PROVE  IInv'
<1>1. slotted' = TRUE /\ slotEvents' \in BOOLEAN
  BY DEF IInv, Typed, HasEntry, BeginPoll
<1>2. Typed'
  BY <1>1 DEF IInv, Typed, BeginPoll, input, output
<1>3. HasEntry' /\ NoneIsAsked' /\ KilledByWrite'
  BY <1>1 DEF HasEntry, NoneIsAsked, KilledByWrite, BeginPoll
<1>4. OutputIsArmed'
  BY DEF IInv, Typed, OutputIsArmed, BeginPoll, output
<1>5. Bounded' /\ OutputInOrder'
  BY DEF IInv, Bounded, OutputInOrder, Stream, BeginPoll, output
<1> QED
  BY <1>2, <1>3, <1>4, <1>5 DEF IInv

\* What a handler queues keeps the invariant.
LEMMA DeviceHandlerKeeps ==
    ASSUME ConnectionAssumption, IInv, NEW n \in {0, 1}, DeviceHandler(n)
    PROVE  IInv'
<1>1. pc = "device" /\ slotted /\ ~regen_pollfds
  BY DEF IInv, HasEntry, NoneIsAsked, DeviceHandler
<1>2. n \in Nat /\ queueOutput(n) /\ received' = received
  BY DEF DeviceHandler
<1>3. OutputKept /\ queued' \in Nat
  BY <1>2, QueueingKeepsOrder DEF IInv
<1>4. /\ events' \in BOOLEAN /\ slotEvents' \in BOOLEAN /\ failed' \in BOOLEAN
      /\ outputBuffer' # <<>> /\ ~failed' => events' /\ slotEvents'
  BY <1>1, <1>2, QueueingArms DEF IInv
<1>5. Typed'
  BY <1>3, <1>4 DEF IInv, Typed, OutputKept, DeviceHandler, input, polling
<1>6. HasEntry' /\ NoneIsAsked' /\ KilledByWrite'
  BY <1>1 DEF HasEntry, NoneIsAsked, KilledByWrite, DeviceHandler, polling
<1> QED
  BY <1>3, <1>4, <1>5, <1>6 DEF IInv, OutputKept, Bounded, OutputIsArmed

\* A text has finitely many newlines.
LEMMA NewlinesAreFinite ==
    ASSUME NEW text, Len(text) \in Nat
    PROVE  Cardinality(Newlines(text)) \in Nat
<1>1. IsFiniteSet(1..Len(text))
  BY FS_Interval
<1>2. Newlines(text) \subseteq 1..Len(text)
  BY DEF Newlines
<1>3. IsFiniteSet(Newlines(text))
  BY <1>1, <1>2, FS_Subset
<1> QED
  BY <1>3, FS_CardinalityType

\* However many commands the input holds, their replies keep the invariant.
LEMMA HandleInputKeeps ==
    ASSUME ConnectionAssumption, IInv, HandleInput
    PROVE  IInv'
<1> DEFINE len == IF Len(wire) < MaxRead THEN Len(wire) ELSE MaxRead
           text == inputBuff \o SubSeq(wire, 1, len)
           n == Cardinality(Newlines(text))
<1>1. slotted /\ ~regen_pollfds
  BY DEF IInv, NoneIsAsked, HandleInput
<1>2. wire \in Seq(Piece) /\ inputBuff \in Seq(Piece) /\ Len(wire) \in Nat
  BY LenProperties DEF IInv, Typed
<1>3. len \in Nat /\ len <= Len(wire)
  BY <1>2 DEF ConnectionAssumption
<1>4. n \in Nat
  <2> HIDE DEF len
  <2>1. \A i \in 1..len : wire[i] \in Piece
    <3>1. ASSUME NEW i \in 1..len
          PROVE  i \in 1..Len(wire)
      BY <1>2, <1>3
    <3> QED
      BY <1>2, <3>1, ElementOfSeq
  <2>2. SubSeq(wire, 1, len) \in Seq(Piece)
    BY <1>3, <2>1, SubSeqProperties
  <2>3. text \in Seq(Piece)
    BY <1>2, <2>2, ConcatProperties
  <2>4. Len(text) \in Nat
    BY <2>3, LenProperties
  <2> HIDE DEF text
  <2> QED
    BY <2>4, NewlinesAreFinite
<1>5. queueOutput(n) /\ received' = received
  BY DEF HandleInput
<1>6. wire' = SubSeq(wire, len + 1, Len(wire)) /\ inputBuff' = <<>>
  BY DEF HandleInput, Kept
<1>7. wire' \in Seq(Piece) /\ inputBuff' \in Seq(Piece)
  <2> HIDE DEF len
  <2> QED
    BY <1>3, <1>6, WireKept, EmptySeq DEF IInv
<1>8. /\ pc' = "top" /\ sent' = sent /\ regen_pollfds' \in BOOLEAN
      /\ slotted' = slotted
  BY DEF HandleInput, polling
<1> HIDE DEF n
<1>9. OutputKept /\ queued' \in Nat
  BY <1>4, <1>5, QueueingKeepsOrder DEF IInv
<1>10. /\ events' \in BOOLEAN /\ slotEvents' \in BOOLEAN /\ failed' \in BOOLEAN
       /\ outputBuffer' # <<>> /\ ~failed' => events' /\ slotEvents'
  BY <1>1, <1>4, <1>5, QueueingArms DEF IInv
<1>11. Typed'
  BY <1>5, <1>7, <1>8, <1>9, <1>10 DEF IInv, Typed, OutputKept
<1>12. HasEntry' /\ NoneIsAsked' /\ KilledByWrite'
  BY <1>1, <1>8 DEF HasEntry, NoneIsAsked, KilledByWrite
<1> QED
  BY <1>9, <1>10, <1>11, <1>12 DEF IInv, OutputKept, Bounded, OutputIsArmed

\* writeSomeOutput keeps the invariant, whatever becomes of the write.
LEMMA HandleOutputKeeps ==
    ASSUME ConnectionAssumption, IInv, HandleOutput
    PROVE  IInv'
<1>1. /\ pc = "connection" /\ slotted /\ revents = {"POLLOUT"}
      /\ UNCHANGED <<sent, wire, inputBuff, queued, overflowed, slotted, revents,
                     regen_pollfds>>
  BY DEF HandleOutput, input, polling
<1>2. HasEntry' /\ NoneIsAsked' /\ KilledByWrite'
  BY <1>1 DEF HasEntry, NoneIsAsked, KilledByWrite, IInv, HandleOutput, Disarm,
              BrokenPipe, Write
<1>3. CASE Disarm
  <2>1. Typed' /\ OutputIsArmed'
    BY <1>1, <1>3 DEF IInv, Typed, OutputIsArmed, Disarm
  <2>2. Bounded' /\ OutputInOrder'
    BY <1>1, <1>3 DEF IInv, Bounded, OutputInOrder, Stream, Disarm
  <2> QED
    BY <1>2, <2>1, <2>2 DEF IInv
<1>4. CASE BrokenPipe
  <2>1. Typed' /\ OutputIsArmed'
    BY <1>1, <1>4 DEF IInv, Typed, OutputIsArmed, BrokenPipe
  <2>2. Bounded' /\ OutputInOrder'
    BY <1>1, <1>4 DEF IInv, Bounded, OutputInOrder, Stream, BrokenPipe
  <2> QED
    BY <1>2, <2>1, <2>2 DEF IInv
<1>5. CASE \E n \in 1..Capacity : Write(n)
  <2>1. PICK n \in 1..Capacity : Write(n)
    BY <1>5
  <2>2. OutputKept /\ received' \in Seq(Piece)
    BY <1>1, <2>1, WritingKeepsOrder DEF IInv
  <2>3. UNCHANGED <<events, slotEvents, failed>>
    BY <2>1 DEF Write
  <2>4. outputBuffer # <<>>
    <3>1. n <= Len(outputBuffer) /\ n >= 1 /\ n \in Int
      BY <2>1 DEF ConnectionAssumption, Write
    <3>2. Len(outputBuffer) \in Nat
      BY LenProperties DEF IInv, Typed
    <3> QED
      BY <3>1, <3>2, EmptySeq
  <2>5. Typed'
    BY <1>1, <2>2, <2>3 DEF IInv, Typed, OutputKept
  <2>6. OutputIsArmed'
    BY <1>1, <2>3, <2>4 DEF IInv, OutputIsArmed
  <2> QED
    BY <1>2, <2>2, <2>5, <2>6 DEF IInv, OutputKept, Bounded
<1> QED
  BY <1>3, <1>4, <1>5 DEF HandleOutput

\* The other handlers leave output alone.
LEMMA OthersKeep ==
    ASSUME IInv, HandleHangup \/ HandleEnd \/ NoEvent
    PROVE  IInv'
<1>1. /\ UNCHANGED <<sent, input, output, polling, events, slotEvents, received>>
      /\ \/ pc' = "removed" /\ regen_pollfds' = TRUE
         \/ pc' = "top" /\ regen_pollfds' = regen_pollfds
  BY DEF HandleHangup, HandleEnd, Removed, NoEvent
<1>2. slotted
  BY DEF IInv, HasEntry, HandleHangup, HandleEnd, NoEvent
<1> QED
  BY <1>1, <1>2 DEF IInv, Typed, Bounded, HasEntry, NoneIsAsked, KilledByWrite,
                    OutputIsArmed, OutputInOrder, Stream, input, output, polling

\* The invariant holds of every reachable state, for all sizes.
THEOREM Invariance ==
    ASSUME ConnectionAssumption
    PROVE  Spec => []IInv
<1>1. Init => IInv
  BY InvariantAtFirst
<1>2. IInv /\ [Next]_vars => IInv'
  <2> SUFFICES ASSUME IInv, [Next]_vars PROVE IInv'
    OBVIOUS
  <2>1. CASE BeginPoll
    BY <2>1, BeginPollKeeps
  <2>2. CASE \E n \in {0, 1} : DeviceHandler(n)
    BY <2>2, DeviceHandlerKeeps
  <2>3. CASE HandleHangup \/ HandleEnd \/ NoEvent
    BY <2>3, OthersKeep
  <2>4. CASE HandleInput
    BY <2>4, HandleInputKeeps
  <2>5. CASE HandleOutput
    BY <2>5, HandleOutputKeeps
  <2>6. CASE \/ \E n \in 1..LineLen : Send(n)
             \/ ReadAll
             \/ \E p \in {"half", "gone"} : Leave(p)
    BY <2>6, ClientKeeps
  <2>7. CASE UNCHANGED vars
    BY <2>7 DEF IInv, Typed, Bounded, HasEntry, NoneIsAsked, KilledByWrite,
                OutputIsArmed, OutputInOrder, Stream, vars
  <2> QED
    BY <2>1, <2>2, <2>3, <2>4, <2>5, <2>6, <2>7 DEF Next, Round
<1> QED
  BY <1>1, <1>2, PTL DEF Spec

LEMMA ControlledAlways == Spec => []Controlled
<1>1. Init => Controlled
  BY DEF Init, Controlled
<1>2. Controlled /\ [Next]_vars => Controlled'
  <2> SUFFICES ASSUME Controlled, [Next]_vars PROVE Controlled'
    OBVIOUS
  <2>1. CASE BeginPoll
    BY <2>1 DEF Controlled, BeginPoll, Reported
  <2>2. CASE \E n \in {0, 1} : DeviceHandler(n)
    BY <2>2 DEF Controlled, DeviceHandler, polling
  <2>3. CASE HandleHangup \/ HandleEnd \/ NoEvent
    BY <2>3 DEF Controlled, HandleHangup, HandleEnd, Removed, NoEvent, polling
  <2>4. CASE HandleInput
    BY <2>4 DEF Controlled, HandleInput, polling
  <2>5. CASE HandleOutput
    BY <2>5 DEF Controlled, HandleOutput, Disarm, BrokenPipe, Write, polling
  <2>6. CASE ReadAll \/ \E n \in 1..LineLen : Send(n)
    BY <2>6 DEF Controlled, ReadAll, Send, polling
  <2>7. CASE \E p \in {"half", "gone"} : Leave(p)
    BY <2>7 DEF Controlled, Leave, polling
  <2>8. CASE UNCHANGED vars
    BY <2>8 DEF Controlled, vars
  <2> QED
    BY <2>1, <2>2, <2>3, <2>4, <2>5, <2>6, <2>7, <2>8 DEF Next, Round
<1> QED
  BY <1>1, <1>2, PTL DEF Spec

\* The state of the connection has its types, and the circular buffer is bounded.
THEOREM TypeCorrect ==
    ASSUME ConnectionAssumption
    PROVE  Spec => [](TypeOK /\ Bounded)
<1>1. IInv /\ Controlled => TypeOK /\ Bounded
  BY DEF IInv, Typed, Controlled, TypeOK
<1> QED
  BY <1>1, Invariance, ControlledAlways, PTL

\* Output that waits is asked for, in both copies of the events that count, for all
\* sizes: queueOutput, writeSomeOutput and regenFDs never lose POLLOUT between them.
THEOREM OutputStaysArmed ==
    ASSUME ConnectionAssumption
    PROVE  Spec => []OutputIsArmed
<1>1. IInv => OutputIsArmed
  BY DEF IInv
<1> QED
  BY <1>1, Invariance, PTL

\* Whatever the sizes of lines, buffer, reads and writes, the client receives what
\* was queued for it, in order, until the buffer overflows.
THEOREM OutputStaysInOrder ==
    ASSUME ConnectionAssumption
    PROVE  Spec => []OutputInOrder
<1>1. IInv => OutputInOrder
  BY DEF IInv
<1> QED
  BY <1>1, Invariance, PTL

\* Only a client that goes between ::poll and the write can kill the server: never
\* one that ::poll has reported.
THEOREM ToldStaysAlive ==
    ASSUME ConnectionAssumption
    PROVE  Spec => []ToldIsNotKilled
<1>1. IInv => ToldIsNotKilled
  BY DEF IInv, KilledByWrite, ToldIsNotKilled
<1> QED
  BY <1>1, Invariance, PTL


-----------------------------------------------------------------------------
(* Commands *)

\* Commands that reach the socket as whole lines, and no more than one read takes.
LinesAreWhole ==
    /\ inputBuff = <<>> /\ wire \in Seq(Piece) /\ Len(wire) <= MaxRead
    /\ ran \in Seq(Seq(Piece)) /\ \A i \in 1..Len(ran) : ran[i] = Line(i)
    /\ \E m \in Nat : /\ sent = m * LineLen /\ Len(ran) <= m
                      /\ wire = Stream(Len(ran) * LineLen, m * LineLen)

\* Places that are whole lines from one another.
LEMMA Times ==
    ASSUME ConnectionAssumption, NEW a \in Int, NEW b \in Int
    PROVE  /\ a * LineLen \in Int /\ (a + b) * LineLen = a * LineLen + b * LineLen
           /\ a <= b => a * LineLen <= b * LineLen
           /\ a < b => a * LineLen < b * LineLen
           /\ a * LineLen = b * LineLen => a = b
<1>1. LineLen \in Nat \ {0}
  BY DEF ConnectionAssumption
<1>2. a * LineLen \in Int /\ (a + b) * LineLen = a * LineLen + b * LineLen
  BY <1>1
<1>3. a <= b => a * LineLen <= b * LineLen
  BY <1>1
<1>4. a < b => a * LineLen < b * LineLen
  <2> SUFFICES ASSUME a < b PROVE a * LineLen < b * LineLen
    OBVIOUS
  <2>1. (a + 1) * LineLen <= b * LineLen
    BY <1>1
  <2>2. (a + 1) * LineLen = a * LineLen + LineLen
    BY <1>1
  <2> QED
    BY <1>1, <1>2, <2>1, <2>2
<1>5. a > b => a * LineLen > b * LineLen
  <2> SUFFICES ASSUME a > b PROVE a * LineLen > b * LineLen
    OBVIOUS
  <2>1. a * LineLen >= (b + 1) * LineLen
    BY <1>1
  <2>2. (b + 1) * LineLen = b * LineLen + LineLen /\ b * LineLen \in Int
    BY <1>1
  <2> QED
    BY <1>1, <1>2, <2>1, <2>2
<1>6. a * LineLen = b * LineLen => a = b
  BY <1>2, <1>4, <1>5
<1> QED
  BY <1>2, <1>3, <1>4, <1>6

\* Multiplying by one.
LEMMA TimesOne ==
    ASSUME ConnectionAssumption, NEW a \in Int
    PROVE  (a + 1) * LineLen = a * LineLen + 1 * LineLen /\ a * LineLen \in Int
  BY DEF ConnectionAssumption

\* A place, seen from the start of its line.
LEMMA PlaceInLine ==
    ASSUME ConnectionAssumption, NEW a \in Nat, NEW x \in 0..(LineLen - 1)
    PROVE  (a * LineLen + x) % LineLen = x
<1> DEFINE z == a * LineLen + x
           q == z \div LineLen
           w == z % LineLen
<1>1. LineLen \in Nat \ {0} /\ a * LineLen \in Int
  BY DEF ConnectionAssumption
<1>2. z \in Int /\ x \in Int /\ 0 <= x /\ x < LineLen
  BY <1>1
<1> HIDE DEF z
<1>3. q \in Int /\ w \in Int /\ 0 <= w /\ w < LineLen /\ z = q * LineLen + w
  BY <1>1, <1>2
<1> HIDE DEF q, w
<1>4. q * LineLen \in Int /\ z = a * LineLen + x
  BY <1>1, <1>3 DEF z
<1>5. ~(q < a)
  <2> SUFFICES ASSUME q < a PROVE FALSE
    OBVIOUS
  <2>1. (q + 1) * LineLen <= a * LineLen /\ (q + 1) * LineLen = q * LineLen + LineLen
    BY <1>1, <1>3
  <2> QED
    BY <1>1, <1>2, <1>3, <1>4, <2>1
<1>6. ~(a < q)
  <2> SUFFICES ASSUME a < q PROVE FALSE
    OBVIOUS
  <2>1. (a + 1) * LineLen <= q * LineLen /\ (a + 1) * LineLen = a * LineLen + LineLen
    BY <1>1, <1>3
  <2> QED
    BY <1>1, <1>2, <1>3, <1>4, <2>1
<1>7. q = a
  BY <1>3, <1>5, <1>6
<1>8. w = x
  BY <1>1, <1>2, <1>3, <1>4, <1>7
<1> QED
  BY <1>8 DEF w, z

\* Every LineLen-th piece of whole lines is a newline, and no other is.
LEMMA NewlinesFacts ==
    ASSUME ConnectionAssumption, NEW r \in Nat, NEW n \in Nat, NEW text,
           text = Stream(r * LineLen, (r + n) * LineLen)
    PROVE  Newlines(text) = {k * LineLen : k \in 1..n}
<1> DEFINE a == r * LineLen
           b == (r + n) * LineLen
           len == n * LineLen
<1>1. LineLen \in Nat \ {0} /\ a \in Nat /\ b \in Nat /\ a <= b /\ len \in Nat /\ b - a = len
  <2>1. LineLen \in Nat \ {0}
    BY DEF ConnectionAssumption
  <2>2. a \in Nat /\ b \in Nat /\ a <= b
    BY LinesAdjoin
  <2>3. len \in Nat
    BY <2>1
  <2>4. b = a + len
    BY Times
  <2> HIDE DEF a, b, len
  <2> QED
    BY <2>1, <2>2, <2>3, <2>4
<1>2. Len(text) = len /\ \A p \in 1..len : text[p] = PieceAt(a + p)
  <2> HIDE DEF a, b, len
  <2>1. text = Stream(a, b)
    BY DEF a, b
  <2> QED
    <3>1. /\ Len(Stream(a, b)) = b - a
          /\ \A p \in 1..(b - a) : Stream(a, b)[p] = PieceAt(a + p)
      BY <1>1, StreamProperties
    <3> QED
      BY <1>1, <2>1, <3>1
<1>3. ASSUME NEW p \in 1..len
      PROVE  text[p][2] = LineLen <=> \E k \in 1..n : p = k * LineLen
  <2> DEFINE k == p \div LineLen
             x == p % LineLen
  <2>1. k \in Int /\ x \in 0..(LineLen - 1) /\ p = k * LineLen + x /\ p \in Int /\ 1 <= p
        /\ p <= len
    BY <1>1
  <2> HIDE DEF k, x
  <2>2. 0 <= k /\ k <= n
    <3>1. ~(k < 0)
      <4> SUFFICES ASSUME k < 0 PROVE FALSE
        OBVIOUS
      <4>1. (k + 1) * LineLen <= 0 * LineLen /\ (k + 1) * LineLen = k * LineLen + 1 * LineLen
        BY <2>1, Times
      <4>2. k * LineLen \in Int /\ 0 * LineLen = 0 /\ 1 * LineLen = LineLen
        BY <1>1, <2>1, Times
      <4> QED
        BY <1>1, <2>1, <4>1, <4>2
    <3>2. ~(n < k)
      <4> SUFFICES ASSUME n < k PROVE FALSE
        OBVIOUS
      <4>1. len < k * LineLen /\ k * LineLen \in Int
        BY <2>1, Times
      <4> HIDE DEF len
      <4> QED
        BY <1>1, <2>1, <4>1
    <3> QED
      BY <2>1, <3>1, <3>2
  <2>3. text[p][2] = ((a + p - 1) % LineLen) + 1
    <3>1. text[p] = PieceAt(a + p)
      BY <1>2
    <3>2. PieceAt(a + p)[2] = ((a + p - 1) % LineLen) + 1
      <4> DEFINE c == (a + p) - 1
                 d == c \div LineLen
                 e == c % LineLen
      <4>1. PieceAt(a + p) = <<d + 1, e + 1>>
        BY Zenon DEF PieceAt
      <4>2. c = a + p - 1
        BY <1>1, <2>1
      <4>3. e = (a + p - 1) % LineLen
        BY <4>2, Zenon
      <4> HIDE DEF c, d, e
      <4> QED
        BY <4>1, <4>3
    <3> QED
      BY <3>1, <3>2, Zenon
  <2>4. (r + k) * LineLen = a + k * LineLen /\ k * LineLen \in Int
    BY <2>1, Times
  <2>5. CASE x = 0
    <3>1. p = k * LineLen /\ k \in 1..n
      <4>1. k # 0
        <5>1. 0 * LineLen = 0
          BY <1>1
        <5> QED
          BY <2>1, <2>5, <5>1
      <4> QED
        BY <2>1, <2>2, <2>4, <2>5, <4>1
    <3>2. (r + k - 1) * LineLen + (LineLen - 1) = a + p - 1
      <4>0. r + k - 1 \in Int
        BY <2>1
      <4>1. ((r + k - 1) + 1) * LineLen = (r + k - 1) * LineLen + 1 * LineLen
            /\ (r + k - 1) * LineLen \in Int
        BY <4>0, TimesOne, Zenon
      <4>2. (r + k - 1) + 1 = r + k /\ 1 * LineLen = LineLen
        BY <1>1, <2>1
      <4> HIDE DEF a
      <4> QED
        BY <1>1, <2>1, <2>4, <3>1, <4>1, <4>2
    <3>3. ((r + k - 1) * LineLen + (LineLen - 1)) % LineLen = LineLen - 1
      <4>1. r + k - 1 \in Nat /\ LineLen - 1 \in 0..(LineLen - 1)
        BY <1>1, <3>1
      <4> QED
        BY <4>1, PlaceInLine
    <3>4. text[p][2] = LineLen
      BY <1>1, <2>3, <3>2, <3>3
    <3> QED
      BY <3>1, <3>4
  <2>6. CASE x # 0
    <3>1. x - 1 \in 0..(LineLen - 1) /\ x \in 1..(LineLen - 1)
      BY <1>1, <2>1, <2>6
    <3>2. (r + k) * LineLen + (x - 1) = a + p - 1
      <4> HIDE DEF a
      <4> QED
        BY <1>1, <2>1, <2>4, <3>1
    <3>3. ((r + k) * LineLen + (x - 1)) % LineLen = x - 1
      <4>1. r + k \in Nat
        BY <2>1, <2>2
      <4> QED
        BY <3>1, <4>1, PlaceInLine
    <3>4. text[p][2] # LineLen
      BY <1>1, <2>3, <3>1, <3>2, <3>3
    <3>5. ASSUME NEW j \in 1..n, p = j * LineLen
          PROVE  FALSE
      <4>1. p = j * LineLen + 0 /\ (j * LineLen + 0) % LineLen = 0
        BY <1>1, <3>5, PlaceInLine
      <4>2. p % LineLen = 0
        BY <4>1
      <4> QED
        BY <4>2, <2>6 DEF x
    <3> QED
      BY <3>4, <3>5
  <2> QED
    BY <2>5, <2>6
<1>4. ASSUME NEW k \in 1..n
      PROVE  k * LineLen \in 1..len
  <2>1. k \in Int /\ n \in Int /\ k <= n
    OBVIOUS
  <2>2. k * LineLen <= len /\ k * LineLen \in Int
    BY <2>1, Times, Zenon
  <2>3. 1 <= k * LineLen
    BY <1>1
  <2> HIDE DEF len
  <2> QED
    BY <1>1, <2>2, <2>3
<1> HIDE DEF len
<1> QED
  BY <1>2, <1>3, <1>4 DEF Newlines

\* So many there are up to each of them.
LEMMA NewlinesCount ==
    ASSUME ConnectionAssumption, NEW k \in Nat
    PROVE  /\ IsFiniteSet({j * LineLen : j \in 1..k})
           /\ Cardinality({j * LineLen : j \in 1..k}) = k
<1> DEFINE T == {j * LineLen : j \in 1..k}
           f == [j \in 1..k |-> j * LineLen]
<1>1. f \in [1..k -> T] /\ \A y \in T : \E j \in 1..k : f[j] = y
  OBVIOUS
<1>2. \A j, m \in 1..k : f[j] = f[m] => j = m
  BY Times
<1>3. f \in Bijection(1..k, T)
  BY <1>1, <1>2 DEF Bijection, Injection, Surjection, IsInjective
<1>4. ExistsBijection(1..k, T)
  BY <1>3 DEF ExistsBijection
<1>5. IsFiniteSet(1..k) /\ Cardinality(1..k) = k
  BY FS_Interval
<1> HIDE DEF T
<1>6. IsFiniteSet(T) /\ Cardinality(T) = k
  BY <1>4, <1>5, FS_Bijection
<1> QED
  BY <1>6 DEF T

\* Where the commands of whole lines end.
LEMMA EndsFacts ==
    ASSUME ConnectionAssumption, NEW r \in Nat, NEW n \in Nat, NEW text,
           text = Stream(r * LineLen, (r + n) * LineLen)
    PROVE  /\ Cardinality(Newlines(text)) = n
           /\ Ends(text) = [k \in 1..n |-> k * LineLen]
<1> DEFINE found == Newlines(text)
<1>1. found = {k * LineLen : k \in 1..n}
  BY NewlinesFacts
<1>2. Cardinality(found) = n
  BY <1>1, NewlinesCount
<1> HIDE DEF found
<1>3. ASSUME NEW k \in 1..n
      PROVE  Cardinality({q \in found : q <= k * LineLen}) = k
  <2>1. {q \in found : q <= k * LineLen} = {j * LineLen : j \in 1..k}
    <3>1. \A j \in 1..n : j * LineLen <= k * LineLen <=> j <= k
      <4> SUFFICES ASSUME NEW j \in 1..n PROVE j * LineLen <= k * LineLen <=> j <= k
        OBVIOUS
      <4>0. j \in Int /\ k \in Int
        OBVIOUS
      <4>1. /\ j <= k => j * LineLen <= k * LineLen
            /\ k < j => k * LineLen < j * LineLen
            /\ k * LineLen \in Int /\ j * LineLen \in Int
        BY <4>0, Times, Zenon
      <4> QED
        BY <4>1
    <3> QED
      BY <1>1, <3>1
  <2>2. k \in Nat
    OBVIOUS
  <2> QED
    BY <2>1, <2>2, NewlinesCount
<1>4. ASSUME NEW k \in 1..n
      PROVE  (CHOOSE p \in found : Cardinality({q \in found : q <= p}) = k) = k * LineLen
  <2>1. \A p \in found : Cardinality({q \in found : q <= p}) = k => p = k * LineLen
    BY <1>1, <1>3
  <2>2. k * LineLen \in found
    BY <1>1
  <2> QED
    BY <1>3, <2>1, <2>2
<1>5. Ends(text) = [k \in 1..n |->
        CHOOSE p \in found : Cardinality({q \in found : q <= p}) = k]
  BY <1>2 DEF Ends, found
<1>6. Ends(text) = [k \in 1..n |-> k * LineLen]
  BY <1>4, <1>5
<1> QED
  BY <1>2, <1>6 DEF found

\* A part of a text is a text.
LEMMA StreamPart ==
    ASSUME ConnectionAssumption, NEW a \in Nat, NEW b \in Nat, a <= b,
           NEW x \in 1..(b - a + 1), NEW y \in (x - 1)..(b - a)
    PROVE  SubSeq(Stream(a, b), x, y) = Stream(a + x - 1, a + y)
<1> DEFINE s == Stream(a, b)
           t == SubSeq(s, x, y)
           u == Stream(a + x - 1, a + y)
<1>1. s \in Seq(Piece) /\ Len(s) = b - a /\ \A p \in 1..(b - a) : s[p] = PieceAt(a + p)
  BY StreamProperties
<1>2. a + x - 1 \in Nat /\ a + y \in Nat /\ a + x - 1 <= a + y
  OBVIOUS
<1>3. /\ u \in Seq(Piece) /\ Len(u) = y - x + 1
      /\ \A p \in 1..(y - x + 1) : u[p] = PieceAt(a + x - 1 + p)
  <2>1. (a + y) - (a + x - 1) = y - x + 1
    OBVIOUS
  <2> QED
    BY <1>2, <2>1, StreamProperties
<1> HIDE DEF s, u
<1>4. \A p \in x..y : s[p] \in Piece
  BY <1>1, ElementOfSeq
<1>5. /\ t \in Seq(Piece) /\ Len(t) = IF x <= y THEN y - x + 1 ELSE 0
      /\ \A p \in 1..(y - x + 1) : t[p] = s[x + p - 1]
  BY <1>1, <1>4, SubSeqProperties
<1> HIDE DEF t
<1>6. Len(t) = Len(u)
  BY <1>3, <1>5
<1>7. ASSUME NEW p \in 1..Len(t)
      PROVE  t[p] = u[p]
  <2>1. p \in 1..(y - x + 1) /\ x + p - 1 \in 1..(b - a) /\ a + (x + p - 1) = a + x - 1 + p
    BY <1>3, <1>6
  <2>2. t[p] = s[x + p - 1] /\ s[x + p - 1] = PieceAt(a + (x + p - 1))
    BY <1>1, <1>5, <2>1
  <2>3. u[p] = PieceAt(a + x - 1 + p)
    BY <1>3, <2>1
  <2> QED
    BY <2>1, <2>2, <2>3
<1>8. t = u
  BY <1>3, <1>5, <1>6, <1>7, SeqEqual
<1> QED
  BY <1>8 DEF t, u, s

\* The client sends a line.
LEMMA SendKeepsLines ==
    ASSUME ConnectionAssumption, ~Split, ~Flood, LinesAreWhole,
           NEW n \in 1..LineLen, Send(n)
    PROVE  LinesAreWhole'
<1>1. PICK m \in Nat : /\ sent = m * LineLen /\ Len(ran) <= m
                       /\ wire = Stream(Len(ran) * LineLen, m * LineLen)
  BY DEF LinesAreWhole
<1>2. /\ n = LineLen /\ Len(wire) + n <= MaxRead /\ sent' = sent + n
      /\ wire' = wire \o Stream(sent, sent') /\ UNCHANGED <<inputBuff, ran>>
  BY DEF Send, input
<1>3. Len(ran) \in Nat /\ LineLen \in Nat /\ wire \in Seq(Piece)
  BY DEF ConnectionAssumption, LinesAreWhole
<1> DEFINE a == Len(ran) * LineLen
           b == m * LineLen
           c == (m + 1) * LineLen
<1>4. a \in Nat /\ b \in Nat /\ c \in Nat /\ a <= b /\ b <= c /\ c = b + LineLen
  <2>1. a \in Nat /\ b \in Nat /\ c \in Nat
    BY <1>3
  <2>2. a <= b
    BY <1>1, <1>3, Times
  <2>3. c = b + 1 * LineLen /\ 1 * LineLen = LineLen
    BY <1>3, TimesOne
  <2> HIDE DEF a, b, c
  <2> QED
    BY <1>3, <2>1, <2>2, <2>3
<1>5. sent = b /\ sent' = c /\ wire = Stream(a, b)
  BY <1>1, <1>2, <1>4
<1> HIDE DEF a, b, c
<1>6. wire' = Stream(a, c)
  <2>1. Stream(a, b) \o Stream(b, c) = Stream(a, c)
    BY <1>4, StreamConcat
  <2>2. wire' = Stream(a, b) \o Stream(b, c)
    BY <1>2, <1>5, Zenon
  <2> QED
    BY <2>1, <2>2
<1>7. Stream(b, c) \in Seq(Piece) /\ Len(Stream(b, c)) = LineLen
  <2>1. Stream(b, c) \in Seq(Piece) /\ Len(Stream(b, c)) = c - b
    BY <1>4, StreamProperties
  <2> QED
    BY <1>3, <1>4, <2>1
<1>8. wire' \in Seq(Piece) /\ Len(wire') = Len(wire) + LineLen
  BY <1>2, <1>3, <1>5, <1>7, ConcatProperties
<1>9. Len(ran) <= m + 1 /\ m + 1 \in Nat
  BY <1>1, <1>3
<1> QED
  BY <1>2, <1>5, <1>6, <1>8, <1>9 DEF LinesAreWhole, Line, Stream, a, c

\* Every line is run, and nothing is left of the input.
LEMMA InputKeepsLines ==
    ASSUME ConnectionAssumption, LinesAreWhole, HandleInput
    PROVE  LinesAreWhole'
<1>1. PICK m \in Nat : /\ sent = m * LineLen /\ Len(ran) <= m
                       /\ wire = Stream(Len(ran) * LineLen, m * LineLen)
  BY DEF LinesAreWhole
<1>2. /\ inputBuff = <<>> /\ wire \in Seq(Piece) /\ Len(wire) \in Nat
      /\ Len(wire) <= MaxRead /\ MaxRead \in Nat /\ LineLen \in Nat \ {0}
      /\ ran \in Seq(Seq(Piece)) /\ Len(ran) \in Nat
  BY DEF ConnectionAssumption, LinesAreWhole
<1> DEFINE r == Len(ran)
           n == m - r
           len == IF Len(wire) < MaxRead THEN Len(wire) ELSE MaxRead
           text == inputBuff \o SubSeq(wire, 1, len)
           ends == Ends(text)
           new == [k \in DOMAIN ends |-> SubSeq(text, Start(ends, k), ends[k])]
           a == r * LineLen
           b == m * LineLen
<1>3. /\ wire' = SubSeq(wire, len + 1, Len(wire)) /\ ran' = ran \o new
      /\ inputBuff' = <<>> /\ sent' = sent
  BY Zenon DEF HandleInput, Kept
<1>4. len = Len(wire)
  BY <1>2
<1>5. text = wire
  <2>1. SubSeq(wire, 1, len) = wire
    BY <1>2, <1>4, SubSeqFull
  <2> QED
    BY <1>2, <2>1, ConcatEmptySeq
<1>6. r \in Nat /\ n \in Nat /\ r + n = m
  BY <1>1, <1>2
<1> HIDE DEF r, len
<1>7. ends = [k \in 1..n |-> k * LineLen]
  <2>1. text = Stream(r * LineLen, (r + n) * LineLen)
    BY <1>1, <1>5, <1>6 DEF r
  <2> HIDE DEF text, n
  <2> QED
    BY <1>6, <2>1, EndsFacts
<1>8. a \in Nat /\ b \in Nat /\ a <= b
  BY <1>1, <1>2, <1>6, Times
<1>9. wire = Stream(a, b)
  BY <1>1 DEF r
<1>10. ASSUME NEW k \in 1..n
       PROVE  SubSeq(text, Start(ends, k), ends[k]) = Line(r + k)
  <2> DEFINE x == (k - 1) * LineLen
             y == k * LineLen
  <2>1. k \in Int /\ k - 1 \in Int /\ r \in Int /\ r + (k - 1) = r + k - 1 /\ k - 1 >= 0
    BY <1>6
  <2>2. ends[k] = y
    BY <1>7
  <2>3. Start(ends, k) = x + 1
    <3>1. CASE k = 1
      BY <1>2, <3>1 DEF Start
    <3>2. CASE k # 1
      <4>1. k - 1 \in 1..n
        BY <1>6, <2>1, <3>2
      <4>2. ends[k - 1] = x
        BY <1>7, <4>1
      <4> HIDE DEF ends, x
      <4> QED
        BY <3>2, <4>2 DEF Start
    <3> QED
      BY <3>1, <3>2
  <2>4. /\ x \in Int /\ y = x + LineLen /\ x >= 0
    <3>1. ((k - 1) + 1) * LineLen = x + 1 * LineLen /\ x \in Int
      BY <2>1, TimesOne
    <3>2. (k - 1) + 1 = k /\ 1 * LineLen = LineLen
      BY <1>2, <2>1
    <3>3. x >= 0
      BY <1>2, <2>1
    <3> HIDE DEF x
    <3> QED
      BY <3>1, <3>2, <3>3
  <2>5. b = a + n * LineLen /\ y <= n * LineLen /\ n * LineLen \in Int /\ y \in Int
    <3>1. n \in Int /\ k <= n
      BY <1>6
    <3>2. (r + n) * LineLen = a + n * LineLen /\ n * LineLen \in Int
      BY <2>1, <3>1, Times, Zenon
    <3>3. y <= n * LineLen /\ y \in Int
      BY <2>1, <3>1, Times, Zenon
    <3> QED
      BY <1>6, <3>2, <3>3
  <2>6. ((r + k) - 1) * LineLen = a + x /\ (r + k) * LineLen = a + y
    <3>1. (r + (k - 1)) * LineLen = a + x /\ (r + k) * LineLen = a + y
      BY <2>1, Times, Zenon
    <3>2. (r + k) - 1 = r + (k - 1)
      BY <2>1
    <3> QED
      BY <3>1, <3>2, Zenon
  <2>7. Line(r + k) = Stream(a + x, a + y)
    <3> HIDE DEF a, x, y
    <3> QED
      BY <2>6, Zenon DEF Line
  <2> HIDE DEF a, b, x, y, ends, text
  <2> DEFINE z == x + 1
  <2>8. z \in 1..(b - a + 1) /\ y \in (z - 1)..(b - a) /\ a + z - 1 = a + x
    BY <1>2, <1>8, <2>4, <2>5
  <2>9. SubSeq(Stream(a, b), z, y) = Stream(a + z - 1, a + y)
    <3> HIDE DEF z
    <3> QED
      BY <1>8, <2>8, StreamPart, Zenon
  <2> QED
    BY <1>5, <1>9, <2>2, <2>3, <2>7, <2>8, <2>9
<1>11. new = [k \in 1..n |-> Line(r + k)]
  <2> HIDE DEF text, n
  <2> QED
    BY <1>7, <1>10
<1>12. \A k \in 1..n : Line(r + k) \in Seq(Piece)
  <2> SUFFICES ASSUME NEW k \in 1..n PROVE Line(r + k) \in Seq(Piece)
    OBVIOUS
  <2> DEFINE h == (r + k) - 1
             x == ((r + k) - 1) * LineLen
             y == (r + k) * LineLen
  <2>1. h \in Nat /\ h + 1 = r + k
    BY <1>6
  <2> HIDE DEF h
  <2>2. h * LineLen \in Nat /\ (h + 1) * LineLen \in Nat /\ h * LineLen <= (h + 1) * LineLen
    BY <2>1, LinesAdjoin
  <2> USE DEF h
  <2>3. x \in Nat /\ y \in Nat /\ x <= y
    BY <2>1, <2>2
  <2>4. Line(r + k) = Stream(x, y)
    BY Zenon DEF Line
  <2> HIDE DEF x, y
  <2> QED
    BY <2>3, <2>4, StreamProperties
<1> HIDE DEF new, n
<1>13. new \in Seq(Seq(Piece)) /\ Len(new) = n
  BY <1>6, <1>11, <1>12
<1>14. ran' \in Seq(Seq(Piece)) /\ Len(ran') = m
  BY <1>2, <1>3, <1>6, <1>13, ConcatProperties DEF r
<1>15. ASSUME NEW q \in 1..Len(ran')
       PROVE  ran'[q] = Line(q)
  <2>1. ran'[q] = IF q <= r THEN ran[q] ELSE new[q - r]
    BY <1>2, <1>3, <1>13, <1>14, <1>6, ConcatProperties DEF r
  <2>2. CASE q <= r
    BY <2>1, <2>2 DEF LinesAreWhole, r
  <2>3. CASE ~(q <= r)
    <3>1. q - r \in 1..n /\ r + (q - r) = q
      BY <1>6, <1>14, <2>3
    <3>2. new[q - r] = Line(r + (q - r))
      BY <1>11, <3>1
    <3> QED
      BY <2>1, <2>3, <3>1, <3>2
  <2> QED
    BY <2>2, <2>3
<1>16. wire' = <<>>
  BY <1>2, <1>3, <1>4, SubSeqEmpty
<1>17. Stream(b, b) = <<>>
  <2> HIDE DEF b
  <2>1. Stream(b, b) \in Seq(Piece) /\ Len(Stream(b, b)) = 0
    BY <1>8, StreamProperties
  <2> QED
    BY <2>1, EmptySeq
<1>18. Len(wire') <= MaxRead /\ wire' \in Seq(Piece)
  BY <1>2, <1>16
<1>19. /\ sent' = m * LineLen /\ Len(ran') <= m
       /\ wire' = Stream(Len(ran') * LineLen, m * LineLen)
  <2>1. sent' = m * LineLen /\ Len(ran') <= m
    BY <1>1, <1>3, <1>14
  <2> QED
    BY <1>14, <1>16, <1>17, <2>1, Zenon
<1>20. \A q \in 1..Len(ran') : (ran[q] = Line(q))'
  BY <1>15 DEF Line, Stream
<1>21. (\E j \in Nat : /\ sent = j * LineLen /\ Len(ran) <= j
                       /\ wire = Stream(Len(ran) * LineLen, j * LineLen))'
  BY <1>19 DEF Stream
<1> QED
  BY <1>3, <1>14, <1>18, <1>20, <1>21 DEF LinesAreWhole

\* When lines arrive whole, and no faster than they are read, commands are lines:
\* none is lost, split, merged or run twice, in any interleaving with output.
THEOREM CommandsStayLines ==
    ASSUME ConnectionAssumption, ~Split, ~Flood
    PROVE  Spec => []CommandsAreLines
<1>1. Init => LinesAreWhole
  <2> SUFFICES ASSUME Init PROVE LinesAreWhole
    OBVIOUS
  <2>1. LineLen \in Nat /\ MaxRead \in Nat
    BY DEF ConnectionAssumption
  <2>2. Stream(0 * LineLen, 0 * LineLen) = <<>> /\ 0 * LineLen = 0
    <3>1. 0 * LineLen = 0
      BY <2>1
    <3>2. Stream(0, 0) \in Seq(Piece) /\ Len(Stream(0, 0)) = 0
      BY StreamProperties
    <3>3. Stream(0, 0) = <<>>
      BY <3>2, EmptySeq
    <3> QED
      BY <3>1, <3>3, Zenon
  <2>3. sent = 0 /\ wire = <<>> /\ ran = <<>> /\ inputBuff = <<>>
    BY DEF Init
  <2>4. \E m \in Nat : /\ sent = m * LineLen /\ Len(ran) <= m
                       /\ wire = Stream(Len(ran) * LineLen, m * LineLen)
    <3>1. Len(ran) = 0 /\ 0 <= 0 /\ 0 \in Nat
      BY <2>3
    <3>2. sent = 0 * LineLen /\ wire = Stream(Len(ran) * LineLen, 0 * LineLen)
      BY <2>2, <2>3, <3>1, Zenon
    <3> QED
      BY <3>1, <3>2, Zenon
  <2> QED
    BY <2>1, <2>3, <2>4 DEF LinesAreWhole
<1>2. LinesAreWhole /\ [Next]_vars => LinesAreWhole'
  <2> SUFFICES ASSUME LinesAreWhole, [Next]_vars PROVE LinesAreWhole'
    OBVIOUS
  <2>1. ASSUME NEW n \in 1..LineLen, Send(n) PROVE LinesAreWhole'
    BY <2>1, SendKeepsLines
  <2>2. CASE HandleInput
    BY <2>2, InputKeepsLines
  <2>3. ASSUME UNCHANGED <<sent, wire, inputBuff, ran>> PROVE LinesAreWhole'
    BY <2>3 DEF LinesAreWhole, Line, Stream
  <2>4. CASE BeginPoll
    BY <2>3, <2>4 DEF BeginPoll, input
  <2>5. CASE \E n \in {0, 1} : DeviceHandler(n)
    BY <2>3, <2>5 DEF DeviceHandler, input
  <2>6. CASE HandleHangup \/ HandleEnd \/ NoEvent
    BY <2>3, <2>6 DEF HandleHangup, HandleEnd, Removed, NoEvent, input
  <2>7. CASE HandleOutput
    BY <2>3, <2>7 DEF HandleOutput, input
  <2>8. CASE ReadAll \/ \E p \in {"half", "gone"} : Leave(p)
    BY <2>3, <2>8 DEF ReadAll, Leave, input
  <2>9. CASE UNCHANGED vars
    BY <2>3, <2>9 DEF vars
  <2> QED
    BY <2>1, <2>2, <2>4, <2>5, <2>6, <2>7, <2>8, <2>9 DEF Next, Round
<1>3. LinesAreWhole => CommandsAreLines
  <2> SUFFICES ASSUME LinesAreWhole PROVE CommandsAreLines
    OBVIOUS
  <2>1. PICK m \in Nat : /\ sent = m * LineLen /\ Len(ran) <= m
                         /\ wire = Stream(Len(ran) * LineLen, m * LineLen)
    BY DEF LinesAreWhole
  <2> DEFINE a == Len(ran) * LineLen
             b == m * LineLen
  <2>2. Len(ran) \in Nat /\ inputBuff = <<>>
    BY DEF LinesAreWhole
  <2>3. a \in Nat /\ b \in Nat /\ a <= b
    <3>1. LineLen \in Nat
      BY DEF ConnectionAssumption
    <3>2. a \in Nat /\ b \in Nat
      BY <2>2, <3>1
    <3>3. a <= b
      BY <2>1, <2>2, Times
    <3> QED
      BY <3>2, <3>3
  <2>4. Len(Stream(a, b)) = b - a
    <3> HIDE DEF a, b
    <3> QED
      BY <2>3, StreamProperties
  <2>5. Len(wire) = b - a /\ sent = b /\ Len(inputBuff) = 0
    BY <2>1, <2>2, <2>4
  <2>6. a + Len(inputBuff) + Len(wire) = sent
    <3> HIDE DEF a, b
    <3> QED
      BY <2>3, <2>5
  <2> QED
    BY <2>6 DEF LinesAreWhole, CommandsAreLines
<1> QED
  BY <1>1, <1>2, <1>3, PTL DEF Spec
=============================================================================
