------------------------ MODULE WavFileWriterProofs ------------------------
(***************************************************************************)
(* What WavFileWriter promises, for every size of the buffer, of the       *)
(* device's deliveries and of the recordings, and any number of            *)
(* descriptors and paths.                                                  *)
(***************************************************************************)
EXTENDS WavFileWriter, SequenceTheorems, TLAPS

\* The bookkeeping of a recording.  A regeneration ends the round, so that none is
\* pending while handlers run; an entry that is stale belongs to a file that still
\* misses its header; and frames written and to come add up to those asked for.
Bookkeeping ==
    /\ pc \in {"device", "writer", "connection"} => ~regen_pollfds
    /\ regen_pollfds \/ slot \in opened \cup {NoFD}
    /\ fd \in opened \cup {NoFD}
    /\ pathTemplate = NoPath => fd = NoFD
    /\ ~regen_pollfds /\ slot # NoFD /\ headerWritten => fd # NoFD
    /\ pathTemplate # NoPath => written + byteCountdown = framesToWrite
    /\ pathTemplate # NoPath /\ fd = NoFD => written = 0

\* The naming of a recording that nothing has disturbed: its time and its name are
\* taken once, before its directories are made.
Naming ==
    ~disturbed =>
        /\ fd # NoFD => ensureDirsState = "NONE" /\ timestampCaptured
        /\ pathTemplate = NoPath => ensureDirsState = "NONE"
        /\ ensureDirsState # "NONE" => timestampCaptured

\* Until the first frame is written, the buffer keeps the one the time is of.
HeadKept ==
    ~disturbed /\ pathTemplate # NoPath /\ timestampCaptured /\ written = 0 =>
        /\ outputBuffer # <<>> /\ outputBuffer[1] = head
        /\ Consecutive(outputBuffer) => outputBuffer[1] = Plus(currFileTimestamp, 1)

\* NothingSkipped, counted back from the frame that comes next: nothing has to be
\* known of where the sequence starts.
CountedBack ==
    ~lost =>
        /\ \A i \in 1..Len(outputBuffer) :
             outputBuffer[i] = Plus(next, i - 1 - Len(outputBuffer))
        /\ lastWritten # NoFrame => lastWritten = Plus(next, -1 - Len(outputBuffer))

IInv == WriterOK /\ Bookkeeping /\ Naming /\ DirectoriesMade /\ HeadKept /\ CountedBack

-----------------------------------------------------------------------------
(* Frames are numbered modulo Modulus *)

\* Quotient and remainder are unique.
LEMMA RemainderIsUnique ==
    ASSUME NEW m \in Nat \ {0}, NEW q \in Int, NEW r \in 0..(m - 1)
    PROVE  (q * m + r) % m = r
<1> DEFINE x == q * m + r
           d == x \div m
           s == x % m
<1>1. x \in Int
    OBVIOUS
<1>2. d \in Int /\ s \in 0..(m - 1) /\ q * m + r = m * d + s
    BY <1>1
<1> HIDE DEF x, d, s
<1>3. CASE d = q
    BY <1>2, <1>3 DEF s, x
<1>4. CASE d < q
    <2>1. q - d \in Nat \ {0} /\ m * (q - d) >= m
        BY <1>2, <1>4
    <2> QED
        BY <2>1, <1>2
<1>5. CASE d > q
    <2>1. d - q \in Nat \ {0} /\ m * (d - q) >= m
        BY <1>2, <1>5
    <2> QED
        BY <2>1, <1>2
<1> QED
    BY <1>2, <1>3, <1>4, <1>5

\* Sums may be reduced at any time.
LEMMA RemainderOfSum ==
    ASSUME NEW m \in Nat \ {0}, NEW a \in Int, NEW b \in Int
    PROVE  ((a % m) + b) % m = (a + b) % m
<1> DEFINE r == a % m
           d == a \div m
           s == (r + b) % m
           e == (r + b) \div m
<1>1. d \in Int /\ r \in 0..(m - 1) /\ a = m * d + r
    OBVIOUS
<1> HIDE DEF d, r
<1>2. e \in Int /\ s \in 0..(m - 1) /\ r + b = m * e + s
    BY <1>1
<1> HIDE DEF e, s
<1>3. a + b = (d + e) * m + s
    BY <1>1, <1>2
<1>4. ((d + e) * m + s) % m = s
    BY <1>1, <1>2, RemainderIsUnique
<1>5. s = (a + b) % m
    BY <1>3, <1>4
<1> QED
    BY <1>5 DEF s, r

\* What Plus returns, and how it adds up.
LEMMA PlusProperties ==
    ASSUME WavAssumption
    PROVE  /\ \A f, k \in Int : Plus(f, k) \in Frame
           /\ \A f, j, k \in Int : Plus(Plus(f, j), k) = Plus(f, j + k)
           /\ \A f \in Frame : Plus(f, 0) = f
           /\ Frame \subseteq Int /\ NoFrame \notin Frame /\ 0 \in Frame
<1>1. Modulus \in Nat \ {0}
    BY DEF WavAssumption
<1>2. \A f, k \in Int : Plus(f, k) \in Frame
    BY <1>1 DEF Plus, Frame
<1>3. ASSUME NEW f \in Int, NEW j \in Int, NEW k \in Int
      PROVE  Plus(Plus(f, j), k) = Plus(f, j + k)
    <2> DEFINE a == f + j
    <2>1. a \in Int /\ a + k = f + (j + k)
        OBVIOUS
    <2> HIDE DEF a
    <2>2. ((a % Modulus) + k) % Modulus = (a + k) % Modulus
        BY <1>1, <2>1, RemainderOfSum
    <2>3. Plus(Plus(f, j), k) = ((a % Modulus) + k) % Modulus
        BY DEF Plus, a
    <2>4. Plus(f, j + k) = (a + k) % Modulus
        BY <2>1 DEF Plus
    <2> QED
        BY <2>2, <2>3, <2>4
<1>4. ASSUME NEW f \in Frame
      PROVE  Plus(f, 0) = f
    <2>1. f \in 0..(Modulus - 1) /\ 0 * Modulus + f = f /\ f + 0 = f
        BY <1>1 DEF Frame
    <2> QED
        BY <1>1, <2>1, RemainderIsUnique DEF Plus
<1> QED
    BY <1>1, <1>2, <1>3, <1>4 DEF WavAssumption, Frame

-----------------------------------------------------------------------------
(* The buffer *)

\* What a delivery of k frames does to the buffer: nothing is moved while there is
\* room or a timestamp is captured, and the newest frame is always the last one.
LEMMA Delivered ==
    ASSUME WavAssumption, TypeOK, NEW k \in Chunk, queueOutput(k)
    PROVE  /\ k \in Nat \ {0} /\ Accepted(k) \in 0..k
           /\ outputBuffer' \in Seq(Frame) /\ Len(outputBuffer') <= Capacity
           /\ next' = Plus(next, k) /\ next' \in Frame
           /\ Accepted(k) > 0 =>
                /\ outputBuffer' # <<>>
                /\ outputBuffer'[Len(outputBuffer')] = Plus(next, Accepted(k) - 1)
           /\ k <= Room \/ timestampCaptured =>
                /\ Len(outputBuffer') = Len(outputBuffer) + Accepted(k)
                /\ \A i \in 1..Len(outputBuffer) : outputBuffer'[i] = outputBuffer[i]
                /\ \A i \in (Len(outputBuffer) + 1)..Len(outputBuffer') :
                     outputBuffer'[i] = Plus(next, i - Len(outputBuffer) - 1)
<1> DEFINE a == Accepted(k)
           len == Len(outputBuffer)
           new == [i \in 1..a |-> Plus(next, i - 1)]
           all == outputBuffer \o new
<1>1. /\ outputBuffer \in Seq(Frame) /\ len \in Nat /\ len <= Capacity
      /\ Capacity \in Nat /\ k \in Nat \ {0} /\ k <= Capacity /\ next \in Frame
    BY LenProperties DEF TypeOK, WavAssumption, Chunk
<1>2. a \in 0..k /\ (k <= Room \/ timestampCaptured => len + a <= Capacity)
    BY <1>1 DEF Accepted, Room
<1>3. next \in Int /\ \A i \in 1..a : Plus(next, i - 1) \in Frame
    BY <1>1, <1>2, PlusProperties
<1>4. new \in Seq(Frame) /\ Len(new) = a
    BY <1>2, <1>3
<1>5. /\ all \in Seq(Frame) /\ Len(all) = len + a
      /\ \A i \in 1..(len + a) : all[i] = IF i <= len THEN outputBuffer[i] ELSE new[i - len]
    BY <1>1, <1>4, ConcatProperties
<1>6. outputBuffer' = IF Len(all) > Capacity
                      THEN SubSeq(all, Len(all) - Capacity + 1, Len(all)) ELSE all
    BY DEF queueOutput, Buffered
<1>7. next' = Plus(next, k) /\ next' \in Frame
    BY <1>1, <1>3, PlusProperties DEF queueOutput
<1>8. /\ \A i \in 1..len : all[i] = outputBuffer[i]
      /\ \A i \in (len + 1)..(len + a) : all[i] = Plus(next, i - len - 1)
    <2>1. ASSUME NEW i \in (len + 1)..(len + a)
          PROVE  all[i] = Plus(next, i - len - 1)
        <3>1. i - len \in 1..a /\ i \in 1..(len + a) /\ ~(i <= len)
            BY <1>1, <1>2
        <3>2. all[i] = new[i - len]
            BY <1>5, <3>1
        <3> QED
            BY <3>1, <3>2
    <2>2. \A i \in 1..len : i \in 1..(len + a) /\ i <= len
        BY <1>1, <1>2
    <2> QED
        BY <1>5, <2>1, <2>2
<1>9. a > 0 => all # <<>> /\ all[Len(all)] = Plus(next, a - 1)
    <2> SUFFICES ASSUME a > 0
                 PROVE  all # <<>> /\ all[Len(all)] = Plus(next, a - 1)
        OBVIOUS
    <2>1. Len(all) \in (len + 1)..(len + a) /\ Len(all) - len - 1 = a - 1 /\ Len(all) # 0
        BY <1>1, <1>2, <1>5
    <2> HIDE DEF len, all
    <2>2. all[Len(all)] = Plus(next, Len(all) - len - 1)
        BY <1>8, <2>1
    <2>3. all # <<>>
        BY <2>1, EmptySeq
    <2> QED
        BY <2>1, <2>2, <2>3
<1> HIDE DEF a, len, new, all
<1>10. CASE Len(all) > Capacity
    <2> DEFINE l == Len(all)
               m == l - Capacity + 1
    <2>1. /\ l \in Int /\ m \in Int /\ 1 <= m /\ m <= l /\ Capacity >= 1
          /\ l - m + 1 = Capacity /\ m + Capacity - 1 = l
        BY <1>1, <1>2, <1>5, <1>10 DEF WavAssumption
    <2>2. outputBuffer' = SubSeq(all, m, l)
        BY <1>6, <1>10
    <2> HIDE DEF m
    <2>3. \A i \in m..l : all[i] \in Frame
        <3> SUFFICES ASSUME NEW i \in m..l
                     PROVE  all[i] \in Frame
            OBVIOUS
        <3>1. i \in 1..Len(all)
            BY <2>1
        <3> QED
            BY <1>5, <3>1, ElementOfSeq
    <2> HIDE DEF l
    <2>4. /\ SubSeq(all, m, l) \in Seq(Frame)
          /\ Len(SubSeq(all, m, l)) = IF m <= l THEN l - m + 1 ELSE 0
          /\ \A i \in 1..(l - m + 1) : SubSeq(all, m, l)[i] = all[m + i - 1]
        BY <2>1, <2>3, SubSeqProperties
    <2>5. /\ outputBuffer' \in Seq(Frame) /\ Len(outputBuffer') = Capacity
          /\ outputBuffer'[Capacity] = all[l]
        <3>1. Capacity \in 1..(l - m + 1)
            BY <1>1, <2>1
        <3> QED
            BY <2>1, <2>2, <2>4, <3>1
    <2>6. Capacity # 0 /\ outputBuffer' # <<>>
        BY <2>5, EmptySeq DEF WavAssumption
    <2>7. ~(k <= Room \/ timestampCaptured)
        BY <1>1, <1>2, <1>5, <1>10
    <2> QED
        BY <1>1, <1>2, <1>7, <1>9, <2>5, <2>6, <2>7 DEF a, l
<1>11. CASE ~(Len(all) > Capacity)
    <2>1. outputBuffer' = all
        BY <1>6, <1>11
    <2>2. /\ outputBuffer' \in Seq(Frame) /\ Len(outputBuffer') = len + a
          /\ Len(outputBuffer') <= Capacity
        BY <1>1, <1>2, <1>5, <1>11, <2>1
    <2>3. a > 0 => outputBuffer' # <<>> /\ outputBuffer'[Len(outputBuffer')] = Plus(next, a - 1)
        BY <1>9, <2>1
    <2>4. /\ \A i \in 1..len : outputBuffer'[i] = outputBuffer[i]
          /\ \A i \in (len + 1)..Len(outputBuffer') : outputBuffer'[i] = Plus(next, i - len - 1)
        <3>1. (len + 1)..Len(outputBuffer') = (len + 1)..(len + a)
            BY <2>2
        <3> QED
            BY <1>8, <2>1, <3>1
    <2> QED
        BY <1>1, <1>2, <1>7, <2>2, <2>3, <2>4 DEF a, len
<1> QED
    BY <1>10, <1>11

\* What is left of the buffer once n frames of it are written.
LEMMA Taken ==
    ASSUME TypeOK, NEW n \in 1..Capacity, Capacity \in Nat, WriteData(n)
    PROVE  /\ outputBuffer' \in Seq(Frame)
           /\ Len(outputBuffer) \in Nat /\ n <= Len(outputBuffer)
           /\ Len(outputBuffer') = Len(outputBuffer) - n
           /\ \A i \in 1..Len(outputBuffer') : outputBuffer'[i] = outputBuffer[n + i]
           /\ lastWritten' = outputBuffer[n] /\ lastWritten' \in Frame
<1> DEFINE len == Len(outputBuffer)
<1>1. /\ outputBuffer \in Seq(Frame) /\ len \in Nat /\ n \in Nat \ {0} /\ n <= len
      /\ outputBuffer' = SubSeq(outputBuffer, n + 1, len) /\ lastWritten' = outputBuffer[n]
    BY LenProperties DEF TypeOK, WriteData
<1>2. \A i \in 1..len : outputBuffer[i] \in Frame
    BY <1>1, ElementOfSeq
<1>3. \A i \in (n + 1)..len : outputBuffer[i] \in Frame
    BY <1>1, <1>2
<1>4. /\ SubSeq(outputBuffer, n + 1, len) \in Seq(Frame)
      /\ Len(SubSeq(outputBuffer, n + 1, len)) = len - n
      /\ \A i \in 1..(len - n) : SubSeq(outputBuffer, n + 1, len)[i] = outputBuffer[n + i]
    <2>1. n + 1 \in Int /\ len \in Int
        BY <1>1
    <2>2. /\ SubSeq(outputBuffer, n + 1, len) \in Seq(Frame)
          /\ Len(SubSeq(outputBuffer, n + 1, len)) = IF n + 1 <= len THEN len - (n + 1) + 1 ELSE 0
          /\ \A i \in 1..(len - (n + 1) + 1) :
                SubSeq(outputBuffer, n + 1, len)[i] = outputBuffer[(n + 1) + i - 1]
        BY <1>3, <2>1, SubSeqProperties
    <2> QED
        BY <1>1, <2>2
<1> QED
    BY <1>1, <1>2, <1>4

-----------------------------------------------------------------------------
(* Types, descriptors and bookkeeping *)

\* The first rawFile leaves everything in order.
LEMMA InitInv ==
    ASSUME WavAssumption, Init
    PROVE  IInv
<1>1. outputBuffer = <<>> /\ Len(outputBuffer) = 0 /\ outputBuffer \in Seq(Frame)
    BY EmptySeq DEF Init
<1>2. framesToWrite \in 0..(framesToWrite + 1) /\ 0 \in 0..framesToWrite
    BY DEF Init, WavAssumption
<1>3. TypeOK
    <2>1. Len(outputBuffer) <= Capacity /\ next \in Frame
        BY <1>1, PlusProperties DEF Init, WavAssumption
    <2> QED
        BY <1>1, <1>2, <2>1 DEF Init, TypeOK
<1> QED
    BY <1>1, <1>3 DEF Init, IInv, WriterOK, NoLeak, PolledIsOpen, Bookkeeping, Naming,
                      DirectoriesMade, HeadKept, CountedBack, WavAssumption

\* What is known of the variables that a delivery does not touch, and of those that
\* it does.
LEMMA DeliverOK ==
    ASSUME WavAssumption, IInv, NEW k \in Chunk, Deliver(k)
    PROVE  WriterOK' /\ Bookkeeping'
<1>1. TypeOK /\ NoLeak /\ PolledIsOpen /\ Bookkeeping
    BY DEF IInv, WriterOK
<1>2. queueOutput(k) /\ pc = "device"
    BY DEF Deliver, Buffer, Capture, OpenFile, OpenFails, queueOutput
<1>3. /\ outputBuffer' \in Seq(Frame) /\ Len(outputBuffer') <= Capacity /\ next' \in Frame
      /\ Accepted(k) > 0 => outputBuffer' # <<>>
    BY <1>1, <1>2, Delivered
<1>4. {events', slotEvents', lost'} \subseteq BOOLEAN
    <2>1. {events, slotEvents, lost} \subseteq BOOLEAN
        BY <1>1 DEF TypeOK
    <2> QED
        BY <1>2, <2>1 DEF queueOutput, WorthWriting
<1>5. CASE Buffer(k)
    <2>1. TypeOK'
        BY <1>1, <1>2, <1>3, <1>4, <1>5 DEF Buffer, queueOutput, request, naming, dirs, TypeOK
    <2>2. NoLeak' /\ PolledIsOpen' /\ Bookkeeping'
        BY <1>1, <1>2, <1>5
           DEF Buffer, queueOutput, request, NoLeak, PolledIsOpen, Bookkeeping
    <2> QED
        BY <2>1, <2>2 DEF WriterOK
<1>6. CASE Capture(k)
    <2>1. FirstTimestamp(k) \in Frame
        <3>1. Modulus \in Nat \ {0} /\ Len(outputBuffer') \in Int /\ k \in Int /\ next \in Int
            BY <1>1, <1>3, LenProperties DEF WavAssumption, TypeOK, Frame, Chunk
        <3>2. Accepted(k) \in Int
            BY <1>1, <1>2, Delivered
        <3> QED
            BY <3>1, <3>2 DEF FirstTimestamp, Frame
    <2>2. Head(outputBuffer') \in Frame
        BY <1>3, <1>6, HeadTailProperties DEF Capture, WantsFile
    <2>3. pathTemplate' \in Paths \cup {NoPath} /\ filename' \in Paths \cup {NoPath}
        BY <1>1, <1>2, <1>6 DEF Capture, queueOutput, request, TypeOK
    <2>4. TypeOK'
        BY <1>1, <1>2, <1>3, <1>4, <1>6, <2>1, <2>2, <2>3
           DEF Capture, queueOutput, request, TypeOK
    <2>5. NoLeak' /\ PolledIsOpen' /\ Bookkeeping'
        BY <1>1, <1>2, <1>6
           DEF Capture, queueOutput, request, NoLeak, PolledIsOpen, Bookkeeping
    <2> QED
        BY <2>4, <2>5 DEF WriterOK
<1>7. CASE OpenFile(k)
    <2>1. PICK f \in FDs \ opened : fd' = f /\ opened' = opened \cup {f}
        BY <1>7 DEF OpenFile
    <2>2. /\ fd = NoFD /\ pathTemplate # NoPath /\ f # NoFD /\ written = 0 /\ written' = 0
          /\ regen_pollfds' = TRUE /\ ensureDirsState' = "NONE" /\ pc' = "top"
          /\ UNCHANGED <<naming, request, made, headerWritten, byteCountdown, lastWritten,
                         slot, revents>>
        BY <1>1, <1>2, <1>7, <2>1
           DEF OpenFile, WantsFile, queueOutput, Bookkeeping, WavAssumption
    <2>3. TypeOK'
        BY <1>1, <1>3, <1>4, <2>1, <2>2 DEF request, naming, dirs, TypeOK, WavAssumption
    <2>4. NoLeak' /\ PolledIsOpen' /\ Bookkeeping'
        BY <1>1, <2>1, <2>2
           DEF request, naming, dirs, TypeOK, NoLeak, PolledIsOpen, Bookkeeping, WavAssumption
    <2> QED
        BY <2>3, <2>4 DEF WriterOK
<1>8. CASE OpenFails(k)
    <2>1. TypeOK'
        BY <1>1, <1>2, <1>3, <1>8, <1>4 DEF OpenFails, queueOutput, request, naming, dirs, TypeOK
    <2>2. NoLeak' /\ PolledIsOpen' /\ Bookkeeping'
        BY <1>1, <1>2, <1>8
           DEF OpenFails, queueOutput, request, NoLeak, PolledIsOpen, Bookkeeping
    <2> QED
        BY <2>1, <2>2 DEF WriterOK
<1> QED
    BY <1>5, <1>6, <1>7, <1>8 DEF Deliver

\* The steps of the writer's handler that do not write frames.
LEMMA HandlerOK ==
    ASSUME WavAssumption, IInv, Idle \/ WriteHeader \/ WriteFails \/ NothingToWrite
    PROVE  WriterOK' /\ Bookkeeping'
<1>1. TypeOK /\ NoLeak /\ PolledIsOpen /\ Bookkeeping
    BY DEF IInv, WriterOK
<1>2. CASE Idle
    BY <1>1, <1>2
       DEF Idle, buffers, naming, dirs, request, file, polling, TypeOK, NoLeak,
           PolledIsOpen, WriterOK, Bookkeeping
<1>3. CASE WriteHeader
    <2>1. /\ pc = "writer" /\ headerWritten' = TRUE /\ Writable
          /\ UNCHANGED <<outputBuffer, byteCountdown, written, lastWritten, events,
                         slotEvents>>
        BY <1>3 DEF WriteHeader, Writable
    <2>2. CASE fd # NoFD /\ GoesOn /\ UNCHANGED disturbed
        <3>1. TypeOK'
            BY <1>1, <2>1, <2>2 DEF Writable, GoesOn, naming, dirs, TypeOK
        <3>2. NoLeak' /\ PolledIsOpen' /\ Bookkeeping'
            BY <1>1, <2>1, <2>2 DEF Writable, GoesOn, NoLeak, PolledIsOpen, Bookkeeping
        <3> QED
            BY <3>1, <3>2 DEF WriterOK
    <2>3. CASE doneOutputFile /\ disturbed' = TRUE
        <3>1. TypeOK'
            BY <1>1, <2>1, <2>3 DEF Writable, doneOutputFile, naming, dirs, TypeOK
        <3>2. NoLeak' /\ PolledIsOpen' /\ Bookkeeping'
            BY <1>1, <2>1, <2>3
               DEF Writable, doneOutputFile, NoLeak, PolledIsOpen, Bookkeeping
        <3> QED
            BY <3>1, <3>2 DEF WriterOK
    <2> QED
        BY <1>3, <2>2, <2>3 DEF WriteHeader
<1>4. CASE WriteFails
    <2>1. fd # NoFD /\ pathTemplate # NoPath
        BY <1>1, <1>4 DEF WriteFails, Writable, Bookkeeping
    <2>2. framesToWrite \in Nat /\ byteCountdown \in Nat /\ written \in Nat
          /\ byteCountdown + 1 \in 0..(framesToWrite + 1)
        BY <1>1, <2>1 DEF TypeOK, Bookkeeping, WavAssumption
    <2> QED
        BY <1>1, <1>4, <2>1, <2>2
           DEF WriteFails, Writable, doneOutputFile, naming, dirs, TypeOK, NoLeak,
               PolledIsOpen, WriterOK, Bookkeeping
<1>5. CASE NothingToWrite
    BY <1>1, <1>5
       DEF NothingToWrite, Writable, GoesOn, naming, dirs, file, TypeOK, NoLeak,
           PolledIsOpen, WriterOK, Bookkeeping
<1> QED
    BY <1>2, <1>3, <1>4, <1>5

\* Writing n frames.
LEMMA WriteDataOK ==
    ASSUME WavAssumption, IInv, NEW n \in 1..Capacity, WriteData(n)
    PROVE  WriterOK' /\ Bookkeeping'
<1>1. TypeOK /\ NoLeak /\ PolledIsOpen /\ Bookkeeping
    BY DEF IInv, WriterOK
<1>2. /\ outputBuffer' \in Seq(Frame) /\ Len(outputBuffer') <= Capacity
      /\ lastWritten' \in Frame
    <2>1. Len(outputBuffer) <= Capacity /\ Capacity \in Nat
        BY <1>1 DEF TypeOK, WavAssumption
    <2> QED
        BY <1>1, <2>1, Taken
<1>3. /\ pc = "writer" /\ fd # NoFD /\ pathTemplate # NoPath /\ ~regen_pollfds
      /\ written + byteCountdown = framesToWrite
    BY <1>1 DEF WriteData, Writable, Bookkeeping
<1>4. /\ framesToWrite \in Nat /\ n \in Nat /\ n <= byteCountdown
      /\ written' = written + n /\ byteCountdown' = byteCountdown - n
      /\ framesToWrite' = framesToWrite
      /\ written \in Nat /\ byteCountdown \in Nat
    BY <1>1 DEF WriteData, Writable, TypeOK, WavAssumption
<1>5. /\ written' \in 0..framesToWrite' /\ byteCountdown' \in 0..(framesToWrite' + 1)
      /\ written' + byteCountdown' = framesToWrite'
    BY <1>3, <1>4
<1>6. CASE doneOutputFile
    BY <1>1, <1>2, <1>3, <1>4, <1>5, <1>6
       DEF WriteData, Writable, doneOutputFile, naming, dirs, TypeOK, NoLeak,
           PolledIsOpen, WriterOK, Bookkeeping
<1>7. CASE GoesOn
    BY <1>1, <1>2, <1>3, <1>4, <1>5, <1>7
       DEF WriteData, Writable, GoesOn, naming, dirs, TypeOK, NoLeak,
           PolledIsOpen, WriterOK, Bookkeeping
<1> QED
    BY <1>6, <1>7 DEF WriteData

\* The other steps of a round, the thread, and the commands.
LEMMA OthersOK ==
    ASSUME WavAssumption, IInv,
           \/ BeginPoll \/ NoData \/ Others \/ EnsureDirs \/ RawFileOff
           \/ \E p \in Paths : RawFile(p)
           \/ UNCHANGED vars
    PROVE  WriterOK' /\ Bookkeeping'
<1>1. TypeOK /\ NoLeak /\ PolledIsOpen /\ Bookkeeping
    BY DEF IInv, WriterOK
<1>2. CASE BeginPoll
    BY <1>1, <1>2
       DEF BeginPoll, buffers, naming, dirs, request, file, TypeOK, NoLeak,
           PolledIsOpen, WriterOK, Bookkeeping
<1>3. CASE NoData
    BY <1>1, <1>3
       DEF NoData, buffers, naming, dirs, request, file, polling, TypeOK, NoLeak,
           PolledIsOpen, WriterOK, Bookkeeping
<1>4. CASE Others
    BY <1>1, <1>4
       DEF Others, buffers, naming, dirs, request, file, polling, TypeOK, NoLeak,
           PolledIsOpen, WriterOK, Bookkeeping
<1>5. CASE EnsureDirs
    BY <1>1, <1>5
       DEF EnsureDirs, buffers, naming, dirs, request, file, polling, TypeOK, NoLeak,
           PolledIsOpen, WriterOK, Bookkeeping
<1>6. CASE RawFileOff
    BY <1>1, <1>6
       DEF RawFileOff, buffers, naming, dirs, request, file, polling, TypeOK, NoLeak,
           PolledIsOpen, WriterOK, Bookkeeping
<1>7. ASSUME NEW p \in Paths, RawFile(p)
      PROVE  WriterOK' /\ Bookkeeping'
    <2>1. /\ framesToWrite \in Nat /\ p # NoPath
          /\ framesToWrite \in 0..(framesToWrite + 1) /\ 0 \in 0..framesToWrite
        <3>1. framesToWrite \in Nat
            BY <1>1 DEF TypeOK, WavAssumption
        <3> QED
            BY <1>7, <3>1 DEF WavAssumption
    <2>2. disturbed' \in BOOLEAN
        BY <1>7 DEF RawFile
    <2>3. TypeOK'
        BY <1>1, <1>7, <2>1, <2>2 DEF RawFile, dirs, buffers, polling, TypeOK
    <2>4. NoLeak'
        BY <1>1, <1>7 DEF RawFile, NoLeak, Bookkeeping
    <2>5. PolledIsOpen' /\ Bookkeeping'
        BY <1>1, <1>7, <2>1 DEF RawFile, polling, PolledIsOpen, Bookkeeping
    <2> QED
        BY <2>3, <2>4, <2>5 DEF WriterOK
<1>8. CASE UNCHANGED vars
    BY <1>1, <1>8
       DEF vars, TypeOK, NoLeak, PolledIsOpen, WriterOK, Bookkeeping
<1> QED
    BY <1>2, <1>3, <1>4, <1>5, <1>6, <1>7, <1>8

-----------------------------------------------------------------------------
(* Naming *)

\* Time and name of a recording are kept as Naming says.
LEMMA NamingKept ==
    ASSUME WavAssumption, IInv, [Next]_vars
    PROVE  Naming'
<1>1. TypeOK /\ Bookkeeping /\ Naming
    BY DEF IInv, WriterOK
<1>2. ASSUME NEW k \in Chunk, Deliver(k)
      PROVE  Naming'
    BY <1>1, <1>2
       DEF Deliver, Buffer, Capture, OpenFile, OpenFails, WantsFile, queueOutput, request,
           naming, dirs, Naming, Bookkeeping
<1>3. CASE BeginPoll \/ NoData \/ Others \/ Idle \/ RawFileOff \/ UNCHANGED vars
    BY <1>1, <1>3
       DEF BeginPoll, NoData, Others, Idle, RawFileOff, vars, request, naming, dirs, Naming
<1>4. CASE WriteHeader \/ WriteFails \/ NothingToWrite
    BY <1>1, <1>4
       DEF WriteHeader, WriteFails, NothingToWrite, Writable, doneOutputFile, GoesOn,
           request, naming, dirs, Naming, Bookkeeping
<1>5. ASSUME NEW n \in 1..Capacity, WriteData(n)
      PROVE  Naming'
    BY <1>1, <1>5
       DEF WriteData, Writable, doneOutputFile, GoesOn, naming, dirs, Naming, Bookkeeping
<1>6. CASE EnsureDirs
    BY <1>1, <1>6 DEF EnsureDirs, request, naming, dirs, Naming
<1>7. ASSUME NEW p \in Paths, RawFile(p)
      PROVE  Naming'
    BY <1>1, <1>7 DEF RawFile, dirs, Naming, Bookkeeping, WavAssumption
<1> QED
    BY <1>2, <1>3, <1>4, <1>5, <1>6, <1>7 DEF Next, Round, Device, Writer, Stopped

-----------------------------------------------------------------------------
(* The first frame and its time *)

\* Once the timestamp is captured, a delivery only adds to the buffer.
LEMMA HeadStays ==
    ASSUME WavAssumption, TypeOK, NEW k \in Chunk, queueOutput(k),
           timestampCaptured, outputBuffer # <<>>
    PROVE  /\ outputBuffer' # <<>> /\ outputBuffer'[1] = outputBuffer[1]
           /\ Consecutive(outputBuffer') => Consecutive(outputBuffer)
<1> DEFINE len == Len(outputBuffer)
           len2 == Len(outputBuffer')
<1>1. /\ outputBuffer \in Seq(Frame) /\ outputBuffer' \in Seq(Frame) /\ len \in Nat \ {0}
      /\ len2 = len + Accepted(k) /\ Accepted(k) \in Nat
      /\ \A i \in 1..len : outputBuffer'[i] = outputBuffer[i]
    <2>1. outputBuffer \in Seq(Frame) /\ len \in Nat \ {0}
        BY EmptySeq DEF TypeOK
    <2>2. Accepted(k) \in Nat
        BY Delivered
    <2> QED
        BY <2>1, <2>2, Delivered
<1>2. len2 \in Nat \ {0} /\ 1 \in 1..len /\ \A i \in 1..len : i \in 1..len2
    BY <1>1
<1>3. outputBuffer' # <<>> /\ outputBuffer'[1] = outputBuffer[1]
    BY <1>1, <1>2, EmptySeq
<1>4. DOMAIN outputBuffer = 1..len /\ DOMAIN outputBuffer' = 1..len2
    BY <1>1, LenProperties
<1>5. Consecutive(outputBuffer') => Consecutive(outputBuffer)
    BY <1>1, <1>2, <1>3, <1>4 DEF Consecutive
<1> QED
    BY <1>3, <1>5

\* The time that is captured is one frame before that of the head of the buffer, if
\* no frames are missing in between.
LEMMA StampIsRight ==
    ASSUME WavAssumption, TypeOK, NEW k \in Chunk, queueOutput(k), Accepted(k) > 0,
           Consecutive(outputBuffer')
    PROVE  outputBuffer'[1] = Plus(FirstTimestamp(k), 1)
<1> DEFINE a == Accepted(k)
           len == Len(outputBuffer')
           h == outputBuffer'[1]
<1>1. /\ outputBuffer' \in Seq(Frame) /\ outputBuffer' # <<>> /\ a \in Int
      /\ outputBuffer'[len] = Plus(next, a - 1)
    <2>1. a \in Int
        BY Delivered
    <2> QED
        BY <2>1, Delivered
<1>2. /\ len \in Nat \ {0} /\ len \in DOMAIN outputBuffer' /\ h \in Frame
    BY <1>1, EmptySeq, LenProperties, ElementOfSeq
<1>3. h \in Int /\ next \in Int
    BY <1>2, PlusProperties DEF TypeOK
<1>4. Plus(h, len - 1) = Plus(next, a - 1)
    BY <1>1, <1>2 DEF Consecutive
<1>5. FirstTimestamp(k) = Plus(next, a - 1 - len)
    <2>1. next + a - 1 - len = next + (a - 1 - len)
        BY <1>1, <1>2, <1>3
    <2> QED
        BY <2>1 DEF FirstTimestamp, Plus
<1> HIDE DEF a, len, h
<1>6. /\ len - 1 \in Int /\ 1 - len \in Int /\ a - 1 \in Int /\ a - 1 - len \in Int
      /\ (len - 1) + (1 - len) = 0 /\ (a - 1) + (1 - len) = a - len
      /\ (a - 1 - len) + 1 = a - len
    BY <1>1, <1>2
<1>7. Plus(Plus(h, len - 1), 1 - len) = h
    BY <1>2, <1>3, <1>6, PlusProperties
<1>8. Plus(Plus(next, a - 1), 1 - len) = Plus(next, a - len)
    BY <1>3, <1>6, PlusProperties
<1>9. Plus(Plus(next, a - 1 - len), 1) = Plus(next, a - len)
    BY <1>3, <1>6, PlusProperties
<1> QED
    BY <1>4, <1>5, <1>7, <1>8, <1>9 DEF h

\* The buffer keeps the frame whose time was taken.
LEMMA HeadKeptKept ==
    ASSUME WavAssumption, IInv, [Next]_vars
    PROVE  HeadKept'
<1>1. TypeOK /\ Bookkeeping /\ HeadKept
    BY DEF IInv, WriterOK
<1>2. ASSUME NEW k \in Chunk, Deliver(k)
      PROVE  HeadKept'
    <2>1. queueOutput(k)
        BY <1>2 DEF Deliver, Buffer, Capture, OpenFile, OpenFails
    <2>2. CASE Buffer(k) \/ OpenFile(k) \/ OpenFails(k)
        <3>1. /\ UNCHANGED <<disturbed, pathTemplate, timestampCaptured, head,
                             currFileTimestamp>>
              /\ pathTemplate # NoPath /\ written' = 0 => written = 0
            BY <1>1, <2>1, <2>2
               DEF Buffer, OpenFile, OpenFails, WantsFile, queueOutput, request, naming, dirs,
                   Bookkeeping
        <3> SUFFICES ASSUME ~disturbed', pathTemplate' # NoPath, timestampCaptured', written' = 0
                     PROVE  /\ outputBuffer' # <<>> /\ outputBuffer'[1] = head'
                            /\ Consecutive(outputBuffer') =>
                                 outputBuffer'[1] = Plus(currFileTimestamp', 1)
            BY DEF HeadKept, Consecutive, Plus
        <3>2. /\ outputBuffer # <<>> /\ outputBuffer[1] = head /\ timestampCaptured
              /\ Consecutive(outputBuffer) => outputBuffer[1] = Plus(currFileTimestamp, 1)
            BY <1>1, <3>1 DEF HeadKept
        <3>3. /\ outputBuffer' # <<>> /\ outputBuffer'[1] = outputBuffer[1]
              /\ Consecutive(outputBuffer') => Consecutive(outputBuffer)
            BY <1>1, <2>1, <3>2, HeadStays
        <3> QED
            BY <3>1, <3>2, <3>3
    <2>3. CASE Capture(k)
        <3>1. /\ Accepted(k) > 0 /\ currFileTimestamp' = FirstTimestamp(k)
              /\ head' = Head(outputBuffer')
            BY <2>3 DEF Capture, WantsFile
        <3>2. outputBuffer' # <<>> /\ outputBuffer' \in Seq(Frame)
            BY <1>1, <2>1, <3>1, Delivered
        <3>3. head' = outputBuffer'[1]
            BY <3>1, <3>2
        <3>4. Consecutive(outputBuffer') => outputBuffer'[1] = Plus(currFileTimestamp', 1)
            BY <1>1, <2>1, <3>1, StampIsRight
        <3> QED
            BY <3>2, <3>3, <3>4 DEF HeadKept, Consecutive, Plus
    <2> QED
        BY <1>2, <2>2, <2>3 DEF Deliver
<1>3. ASSUME UNCHANGED <<outputBuffer, head, currFileTimestamp, timestampCaptured, pathTemplate,
                         disturbed, written>>
      PROVE  HeadKept'
    BY <1>1, <1>3 DEF HeadKept, Consecutive, Plus
<1>4. CASE BeginPoll \/ NoData \/ Others \/ Idle \/ RawFileOff \/ EnsureDirs \/ UNCHANGED vars
    BY <1>3, <1>4
       DEF BeginPoll, NoData, Others, Idle, RawFileOff, EnsureDirs, vars, buffers, request,
           naming, dirs, file
<1>5. CASE NothingToWrite
    BY <1>3, <1>5 DEF NothingToWrite, Writable, GoesOn, naming, dirs, file
<1>6. CASE WriteHeader
    <2>1. CASE GoesOn /\ UNCHANGED disturbed
        BY <1>3, <1>6, <2>1 DEF WriteHeader, Writable, GoesOn, naming, dirs
    <2>2. CASE doneOutputFile
        BY <2>2 DEF doneOutputFile, HeadKept
    <2> QED
        BY <1>6, <2>1, <2>2 DEF WriteHeader
<1>7. CASE WriteFails
    BY <1>7 DEF WriteFails, doneOutputFile, HeadKept
<1>8. ASSUME NEW n \in 1..Capacity, WriteData(n)
      PROVE  HeadKept'
    <2>1. written \in Nat /\ written' = written + n /\ n \in Nat \ {0}
        BY <1>1, <1>8 DEF WriteData, TypeOK, WavAssumption
    <2> QED
        BY <2>1 DEF HeadKept
<1>9. ASSUME NEW p \in Paths, RawFile(p)
      PROVE  HeadKept'
    BY <1>9 DEF RawFile, HeadKept
<1> QED
    BY <1>2, <1>4, <1>5, <1>6, <1>7, <1>8, <1>9 DEF Next, Round, Device, Writer, Stopped

-----------------------------------------------------------------------------
(* The name and its directories *)

\* A name is made when no file is open and no directories are being made for one.
LEMMA DirectoriesMadeKept ==
    ASSUME IInv, [Next]_vars
    PROVE  DirectoriesMade'
<1>1. DirectoriesMade
    BY DEF IInv
<1>2. ASSUME NEW k \in Chunk, Deliver(k)
      PROVE  DirectoriesMade'
    <2>1. CASE Buffer(k) \/ OpenFails(k)
        BY <1>1, <2>1 DEF Buffer, OpenFails, DirectoriesMade, naming, dirs
    <2>2. CASE Capture(k)
        BY <2>2 DEF Capture, WantsFile, DirectoriesMade
    <2>3. CASE OpenFile(k)
        BY <1>1, <2>3 DEF OpenFile, DirectoriesMade, naming, dirs
    <2> QED
        BY <1>2, <2>1, <2>2, <2>3 DEF Deliver
<1>3. ASSUME UNCHANGED <<naming, dirs>>, fd' \in {fd, NoFD}
      PROVE  DirectoriesMade'
    BY <1>1, <1>3 DEF DirectoriesMade, naming, dirs
<1>4. CASE BeginPoll \/ NoData \/ Others \/ Idle \/ RawFileOff \/ UNCHANGED vars
    BY <1>3, <1>4
       DEF BeginPoll, NoData, Others, Idle, RawFileOff, vars, naming, dirs
<1>5. CASE EnsureDirs
    BY <1>1, <1>5 DEF EnsureDirs, DirectoriesMade, naming, dirs
<1>6. CASE WriteHeader \/ WriteFails \/ NothingToWrite \/ \E n \in 1..Capacity : WriteData(n)
    BY <1>3, <1>6 DEF WriteHeader, WriteFails, NothingToWrite, WriteData, Writable,
                      doneOutputFile, GoesOn
<1>7. ASSUME NEW p \in Paths, RawFile(p)
      PROVE  DirectoriesMade'
    BY <1>1, <1>7 DEF RawFile, DirectoriesMade, dirs
<1> QED
    BY <1>2, <1>4, <1>5, <1>6, <1>7 DEF Next, Round, Device, Writer, Stopped

-----------------------------------------------------------------------------
(* The frames between device and file *)

\* What is buffered is counted back from what comes next.
LEMMA CountedBackKept ==
    ASSUME WavAssumption, IInv, [Next]_vars
    PROVE  CountedBack'
<1> DEFINE len == Len(outputBuffer)
           len2 == Len(outputBuffer')
<1>1. TypeOK /\ CountedBack /\ len \in Nat /\ next \in Frame /\ next \in Int
    <2>1. TypeOK /\ CountedBack
        BY DEF IInv, WriterOK
    <2> QED
        BY <2>1, LenProperties, PlusProperties DEF TypeOK
<1>2. ASSUME NEW k \in Chunk, Deliver(k)
      PROVE  CountedBack'
    <2>1. queueOutput(k) /\ UNCHANGED lastWritten
        BY <1>2 DEF Deliver, Buffer, Capture, OpenFile, OpenFails, queueOutput
    <2>2. k \in Nat /\ next' = Plus(next, k)
        BY <1>1, <2>1, Delivered
    <2> SUFFICES ASSUME ~lost'
                 PROVE  /\ \A i \in 1..len2 : outputBuffer'[i] = Plus(next', i - 1 - len2)
                        /\ lastWritten' # NoFrame => lastWritten' = Plus(next', -1 - len2)
        BY DEF CountedBack, Plus
    <2>3. ~lost /\ ~(Room < k) /\ Room \in Int
        <3>1. Room \in Int
            BY <1>1 DEF Room, WavAssumption
        <3> QED
            BY <2>1, <3>1 DEF queueOutput
    <2>4. k <= Room /\ Accepted(k) = k
        BY <2>2, <2>3 DEF Accepted
    <2>5. /\ len2 = len + k
          /\ \A i \in 1..len : outputBuffer'[i] = outputBuffer[i]
          /\ \A i \in (len + 1)..len2 : outputBuffer'[i] = Plus(next, i - len - 1)
        BY <1>1, <2>1, <2>4, Delivered
    <2> HIDE DEF len, len2
    <2>6. ASSUME NEW i \in Int
          PROVE  Plus(next', i - 1 - len2) = Plus(next, i - 1 - len)
        <3>1. i - 1 - len2 \in Int /\ k + (i - 1 - len2) = i - 1 - len
            BY <1>1, <2>2, <2>5
        <3> QED
            BY <1>1, <2>2, <3>1, PlusProperties
    <2>7. lastWritten' # NoFrame => lastWritten' = Plus(next', -1 - len2)
        <3>1. lastWritten # NoFrame => lastWritten = Plus(next, -1 - len)
            BY <1>1, <2>3 DEF CountedBack, len
        <3>2. 0 - 1 - len2 = -1 - len2 /\ 0 - 1 - len = -1 - len
            BY <1>1, <2>2, <2>5
        <3>3. Plus(next', 0 - 1 - len2) = Plus(next, 0 - 1 - len)
            BY <2>6
        <3> QED
            BY <2>1, <3>1, <3>2, <3>3
    <2>8. ASSUME NEW i \in 1..len2
          PROVE  outputBuffer'[i] = Plus(next, i - 1 - len)
        <3>1. CASE i \in 1..len
            BY <1>1, <2>3, <2>5, <3>1 DEF CountedBack, len
        <3>2. CASE i \notin 1..len
            <4>1. i \in (len + 1)..len2 /\ i - len - 1 = i - 1 - len
                BY <1>1, <2>2, <2>5, <3>2
            <4> QED
                BY <2>5, <4>1
        <3> QED
            BY <3>1, <3>2
    <2> QED
        BY <2>6, <2>7, <2>8
<1>3. ASSUME NEW n \in 1..Capacity, WriteData(n)
      PROVE  CountedBack'
    <2> SUFFICES ASSUME ~lost'
                 PROVE  /\ \A i \in 1..len2 : outputBuffer'[i] = Plus(next', i - 1 - len2)
                        /\ lastWritten' = Plus(next', -1 - len2)
        BY DEF CountedBack, Plus
    <2>1. ~lost /\ next' = next /\ n \in Nat \ {0} /\ Capacity \in Nat
        BY <1>3 DEF WriteData, Writable, WavAssumption
    <2>2. /\ len2 = len - n /\ n <= len /\ lastWritten' = outputBuffer[n]
          /\ \A i \in 1..len2 : outputBuffer'[i] = outputBuffer[n + i]
        BY <1>1, <1>3, <2>1, Taken
    <2>3. \A i \in 1..len : outputBuffer[i] = Plus(next, i - 1 - len)
        BY <1>1, <2>1 DEF CountedBack
    <2> HIDE DEF len, len2
    <2>4. n \in 1..len /\ n - 1 - len = -1 - len2
        BY <1>1, <2>1, <2>2
    <2>5. ASSUME NEW i \in 1..len2
          PROVE  outputBuffer'[i] = Plus(next', i - 1 - len2)
        <3>1. n + i \in 1..len /\ (n + i) - 1 - len = i - 1 - len2
            BY <1>1, <2>1, <2>2
        <3> QED
            BY <2>1, <2>2, <2>3, <3>1
    <2> QED
        BY <2>1, <2>2, <2>3, <2>4, <2>5
<1>4. ASSUME UNCHANGED <<outputBuffer, lost, next, lastWritten>>
      PROVE  CountedBack'
    BY <1>1, <1>4 DEF CountedBack, Plus
<1>5. CASE BeginPoll \/ NoData \/ Others \/ Idle \/ RawFileOff \/ EnsureDirs \/ UNCHANGED vars
    BY <1>4, <1>5
       DEF BeginPoll, NoData, Others, Idle, RawFileOff, EnsureDirs, vars, buffers, file
<1>6. CASE WriteHeader \/ WriteFails \/ NothingToWrite
    BY <1>4, <1>6 DEF WriteHeader, WriteFails, NothingToWrite, Writable, file
<1>7. ASSUME NEW p \in Paths, RawFile(p)
      PROVE  CountedBack'
    BY <1>4, <1>7 DEF RawFile, buffers
<1> QED
    BY <1>2, <1>3, <1>5, <1>6, <1>7 DEF Next, Round, Device, Writer, Stopped

\* Frames that are counted back from the next one are consecutive.
LEMMA CountedIsConsecutive ==
    ASSUME WavAssumption, TypeOK, CountedBack
    PROVE  NothingSkipped
<1> SUFFICES ASSUME ~lost
             PROVE  Consecutive((IF lastWritten = NoFrame THEN <<>> ELSE <<lastWritten>>)
                                \o Append(outputBuffer, next))
    BY DEF NothingSkipped
<1> DEFINE len == Len(outputBuffer)
           first == IF lastWritten = NoFrame THEN <<>> ELSE <<lastWritten>>
           off == IF lastWritten = NoFrame THEN 0 ELSE 1
           rest == Append(outputBuffer, next)
           line == first \o rest
           total == len + 1 + off
<1>1. outputBuffer \in Seq(Frame) /\ len \in Nat /\ next \in Frame /\ next \in Int
    BY LenProperties, PlusProperties DEF TypeOK
<1>2. /\ rest \in Seq(Frame) /\ Len(rest) = len + 1 /\ rest[len + 1] = next
      /\ \A i \in 1..len : rest[i] = outputBuffer[i]
    BY <1>1, AppendProperties
<1>3. /\ first \in Seq(Frame) /\ Len(first) = off /\ off \in 0..1
      /\ off = 1 => first[1] = lastWritten
    <2>1. lastWritten \in Frame \cup {NoFrame}
        BY DEF TypeOK
    <2> QED
        BY <2>1, EmptySeq
<1>4. \A i \in 1..(len + 1) : rest[i] = Plus(next, i - 1 - len)
    <2>1. rest[len + 1] = Plus(next, (len + 1) - 1 - len)
        <3>1. (len + 1) - 1 - len = 0
            BY <1>1
        <3> QED
            BY <1>1, <1>2, <3>1, PlusProperties
    <2>2. \A i \in 1..len : rest[i] = Plus(next, i - 1 - len)
        BY <1>2 DEF CountedBack
    <2>3. \A i \in 1..(len + 1) : i \in 1..len \/ i = len + 1
        BY <1>1
    <2> QED
        BY <2>1, <2>2, <2>3
<1>5. off = 1 => first[1] = Plus(next, -1 - len)
    BY <1>3 DEF CountedBack
<1>6. /\ line \in Seq(Frame) /\ Len(line) = total
      /\ \A i \in 1..total : line[i] = IF i <= off THEN first[i] ELSE rest[i - off]
    <2>1. /\ line \in Seq(Frame) /\ Len(line) = Len(first) + Len(rest)
          /\ \A i \in 1..(Len(first) + Len(rest)) :
               line[i] = IF i <= Len(first) THEN first[i] ELSE rest[i - Len(first)]
        BY <1>2, <1>3, ConcatProperties
    <2>2. Len(first) = off /\ Len(first) + Len(rest) = total
        BY <1>1, <1>2, <1>3
    <2> QED
        BY <2>1, <2>2
<1>7. DOMAIN line = 1..total
    BY <1>6, LenProperties
<1> HIDE DEF len, first, off, rest, line
<1>8. ASSUME NEW i \in 1..total
      PROVE  line[i] = Plus(next, i - total)
    <2>1. CASE i <= off
        <3>1. i = 1 /\ off = 1 /\ i - total = -1 - len
            BY <1>1, <1>3, <2>1
        <3> QED
            BY <1>5, <1>6, <2>1, <3>1
    <2>2. CASE ~(i <= off)
        <3>1. i - off \in 1..(len + 1) /\ (i - off) - 1 - len = i - total
            BY <1>1, <1>3, <2>2
        <3> QED
            BY <1>4, <1>6, <2>2, <3>1
    <2> QED
        BY <2>1, <2>2
<1>9. total \in Nat /\ 1 \in 1..total
    BY <1>1, <1>3
<1> HIDE DEF total
<1>10. ASSUME NEW i \in 1..total
       PROVE  line[i] = Plus(line[1], i - 1)
    <2>1. /\ 1 - total \in Int /\ i - 1 \in Int /\ (1 - total) + (i - 1) = i - total
        BY <1>9
    <2>2. Plus(Plus(next, 1 - total), i - 1) = Plus(next, i - total)
        BY <1>1, <2>1, PlusProperties
    <2> QED
        BY <1>8, <1>9, <2>2
<1>11. Consecutive(line)
    BY <1>7, <1>10 DEF Consecutive
<1> QED
    BY <1>11 DEF line, first, rest

-----------------------------------------------------------------------------
(* Theorems *)

\* Every step keeps the invariant.
LEMMA NextInv ==
    ASSUME WavAssumption, IInv, [Next]_vars
    PROVE  IInv'
<1>1. WriterOK' /\ Bookkeeping'
    BY DeliverOK, HandlerOK, WriteDataOK, OthersOK DEF Next, Round, Device, Writer, Stopped
<1> QED
    BY <1>1, NamingKept, DirectoriesMadeKept, HeadKeptKept, CountedBackKept DEF IInv

\* The invariant holds throughout.
THEOREM Invariance ==
    ASSUME WavAssumption
    PROVE  Spec => []IInv
<1>1. Init => IInv
    BY InitInv
<1>2. IInv /\ [Next]_vars => IInv'
    BY NextInv
<1> QED
    BY <1>1, <1>2, PTL DEF Spec

\* The writer's fields keep their types; what is polled is open, however rawFile commands
\* and failed writes come; and until a rawFile comes before the last recording is done or
\* a write fails, only the file being written is open (WavFileWriter, Pollable).
THEOREM WriterStaysOK ==
    ASSUME WavAssumption
    PROVE  Spec => []WriterOK
<1>1. IInv => WriterOK
    BY DEF IInv
<1> QED
    BY <1>1, Invariance, PTL

\* The file that is opened has the directories that the thread made, whatever rawFile
\* comes between (openOutputFile, ensureDirs, resumeWithNewFile).
THEOREM DirectoriesAreMade ==
    ASSUME WavAssumption
    PROVE  Spec => []DirectoriesMade
<1>1. IInv => DirectoriesMade
    BY DEF IInv
<1> QED
    BY <1>1, Invariance, PTL

\* Nothing is lost or reordered between device and files (queueOutput, writeSomeOutput).
THEOREM NothingIsSkipped ==
    ASSUME WavAssumption
    PROVE  Spec => []NothingSkipped
<1>1. IInv => NothingSkipped
    BY CountedIsConsecutive DEF IInv, WriterOK
<1> QED
    BY <1>1, Invariance, PTL

\* The steps that write the first frame of a file are those of writeSomeOutput.
LEMMA FirstWrite ==
    ASSUME WavAssumption, IInv, [Next]_vars, written = 0, written' > 0, ~disturbed
    PROVE  /\ outputBuffer[1] = head
           /\ Consecutive(outputBuffer) => outputBuffer[1] = Plus(currFileTimestamp, 1)
<1>1. \E n \in 1..Capacity : WriteData(n)
    <2>1. written' # written /\ written' # 0
        OBVIOUS
    <2>2. ~(BeginPoll \/ NoData \/ Others \/ Idle \/ RawFileOff \/ EnsureDirs \/ UNCHANGED vars)
        BY <2>1
           DEF BeginPoll, NoData, Others, Idle, RawFileOff, EnsureDirs, vars, file
    <2>3. ~(WriteHeader \/ WriteFails \/ NothingToWrite)
        BY <2>1 DEF WriteHeader, WriteFails, NothingToWrite, file
    <2>4. ~(\E k \in Chunk : Deliver(k)) /\ ~(\E p \in Paths : RawFile(p))
        BY <2>1 DEF Deliver, Buffer, Capture, OpenFile, OpenFails, RawFile
    <2> QED
        BY <2>2, <2>3, <2>4 DEF Next, Round, Device, Writer, Stopped
<1>2. fd # NoFD
    BY <1>1 DEF WriteData
<1>3. timestampCaptured /\ pathTemplate # NoPath
    BY <1>2 DEF IInv, Naming, Bookkeeping
<1> QED
    BY <1>3 DEF IInv, HeadKept

\* The first frame that is written to a file is the one whose time was captured, unless
\* another rawFile came meanwhile (openOutputFile, queueOutput).
THEOREM FirstFrameIsKept ==
    ASSUME WavAssumption
    PROVE  Spec => FirstFrameKept
<1>1. IInv /\ [Next]_vars => [written = 0 /\ written' > 0 /\ ~disturbed
                                  => outputBuffer[1] = head]_vars
    BY FirstWrite
<1> QED
    BY <1>1, Invariance, PTL DEF FirstFrameKept, Spec

\* The time that names a file is that of the frame before its first one, never further
\* off, unless frames are missing or the recording was disturbed (openOutputFile).
THEOREM StampStaysFrameBefore ==
    ASSUME WavAssumption
    PROVE  Spec => StampIsFrameBefore
<1>1. IInv /\ [Next]_vars =>
        [written = 0 /\ written' > 0 /\ Consecutive(outputBuffer) /\ ~disturbed
            => outputBuffer[1] = Plus(currFileTimestamp, 1)]_vars
    BY FirstWrite
<1> QED
    BY <1>1, Invariance, PTL DEF StampIsFrameBefore, Spec

\* A recording that is over has been written as a whole, or was disturbed
\* (handleEvents, doneOutputFile).
LEMMA DoneStep ==
    ASSUME WavAssumption, IInv, [Next]_vars, pathTemplate # NoPath, pathTemplate' = NoPath
    PROVE  written' = framesToWrite \/ disturbed'
<1>1. TypeOK /\ Bookkeeping
    BY DEF IInv, WriterOK
<1>2. ~(BeginPoll \/ NoData \/ Others \/ Idle \/ RawFileOff \/ EnsureDirs \/ UNCHANGED vars)
    BY DEF BeginPoll, NoData, Others, Idle, RawFileOff, EnsureDirs, vars, request
<1>3. ~(\E k \in Chunk : Deliver(k)) /\ ~(\E p \in Paths : RawFile(p)) /\ ~NothingToWrite
    BY DEF Deliver, Buffer, Capture, OpenFile, OpenFails, queueOutput, request, RawFile,
           WavAssumption, NothingToWrite, GoesOn
<1>4. CASE WriteHeader \/ WriteFails
    BY <1>4 DEF WriteHeader, WriteFails, GoesOn
<1>5. ASSUME NEW n \in 1..Capacity, WriteData(n)
      PROVE  written' = framesToWrite
    <2>1. IsLast(n)
        BY <1>5 DEF WriteData, GoesOn
    <2> QED
        BY <1>1, <1>5, <2>1 DEF WriteData, IsLast, Bookkeeping
<1> QED
    BY <1>2, <1>3, <1>4, <1>5 DEF Next, Round, Device, Writer, Stopped

\* "rawFileDone" tells the truth.
THEOREM DoneIsWritten ==
    ASSUME WavAssumption
    PROVE  Spec => DoneMeansWritten
<1>1. IInv /\ [Next]_vars =>
        [pathTemplate # NoPath /\ pathTemplate' = NoPath
            => written' = framesToWrite \/ disturbed']_vars
    BY DoneStep
<1> QED
    BY <1>1, Invariance, PTL DEF DoneMeansWritten, Spec
=============================================================================
