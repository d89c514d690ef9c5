----------------------------- MODULE DataProofs -----------------------------
(***************************************************************************)
(* The sequential parts, for every value of their constants: a plugin's    *)
(* blocks, the search for a radio's rate, a radio's stream, the            *)
(* command-line host, and the data path of a device, in this order.  Each  *)
(* has an inductive invariant of its own; the first section shows that a   *)
(* behaviour of all parts side by side is a behaviour of each.             *)
(***************************************************************************)
EXTENDS DataParts, Sequences, SequenceTheorems, TLAPS, WellFoundedInduction

-----------------------------------------------------------------------------
(* The parts side by side *)

\* A step of one part leaves the others where they are.
LEMMA StepOfParts ==
    ASSUME [DataNext]_allVars
    PROVE  /\ [Next]_vars
           /\ [Device!Next]_(Device!vars)
           /\ [Radio!Next]_(Radio!vars)
           /\ [Rate!Next]_(Rate!vars)
           /\ [Batch!Next]_(Batch!vars)
<1> USE DEF vars, deviceVars, radioVars, rateVars, batchVars, Device!vars, Radio!vars,
            Rate!vars, Batch!vars, Batch!held, Batch!sizes, Batch!fed, Device!given
<1>1. CASE RunPlugin
  BY <1>1 DEF RunPlugin
<1>2. CASE RunDevice
  BY <1>2 DEF RunDevice
<1>3. CASE RunRadio
  BY <1>3 DEF RunRadio
<1>4. CASE RunRate
  BY <1>4 DEF RunRate
<1>5. CASE RunBatch
  BY <1>5 DEF RunBatch
<1>6. CASE UNCHANGED allVars
  BY <1>6 DEF allVars
<1> QED
  BY <1>1, <1>2, <1>3, <1>4, <1>5, <1>6 DEF DataNext

\* A behaviour of the parts side by side is a behaviour of each of them: what is
\* shown of a part below holds of the whole.
THEOREM PartsAreThemselves ==
    DataSpec => Spec /\ Device!Spec /\ Radio!Spec /\ Rate!Spec /\ Batch!Spec
<1>1. DataInit => Init /\ Device!Init /\ Radio!Init /\ Rate!Init /\ Batch!Init
  BY DEF DataInit
<1>2. [DataNext]_allVars =>
        /\ [Next]_vars /\ [Device!Next]_(Device!vars) /\ [Radio!Next]_(Radio!vars)
        /\ [Rate!Next]_(Rate!vars) /\ [Batch!Next]_(Batch!vars)
  BY StepOfParts
<1> QED
  BY <1>1, <1>2, PTL DEF DataSpec, Spec, Device!Spec, Radio!Spec, Rate!Spec, Batch!Spec

-----------------------------------------------------------------------------
(* The blocks of a plugin *)


(***************************************************************************)
(* The inductive invariant.  As long as nothing is lost, the buffer holds  *)
(* the frames from Start on, and Start is where the next block starts.     *)
(***************************************************************************)
Start == blocks * Step

Buffered ==
    /\ src = Start + framesInPlugBuf
    /\ \A q \in Place : q < framesInPlugBuf => plugbuf[q] = Start + q

Timed == pc = "copy" => frameTimestamp = src - framesInPlugBuf

Given ==
    blocks > 0 => /\ stamp = Start - Step
                  /\ \A q \in Place : block[q] = (Start - Step) + q

Counted == totalFrames = src

PluginInv ==
    /\ TypeOK
    /\ ~lost => Buffered /\ Timed /\ Given /\ Counted

-----------------------------------------------------------------------------
\* The only arithmetic that is not linear.
LEMMA Product ==
    ASSUME NEW k \in Nat
    PROVE  /\ k * Step \in Nat
           /\ (k + 1) * Step = k * Step + Step
           /\ (k - 1) * Step = k * Step - Step
           /\ 0 * Step = 0
BY BlockAssumption, SMT

\* What one iteration copies: no more than there is, no more than fits.
LEMMA CopiedFacts ==
    ASSUME TypeOK
    PROVE  /\ Copied \in Nat /\ Copied <= avail
           /\ framesInPlugBuf + Copied <= Block
           /\ Filled \in [Place -> Nat]
BY BlockAssumption DEF TypeOK, Place, Copied, Filled

\* The frames that were in the buffer stay there, and those that are copied
\* follow them without a gap.
LEMMA FilledFacts ==
    ASSUME TypeOK, Buffered, NEW q \in Place, q < framesInPlugBuf + Copied
    PROVE  Filled[q] = Start + q
<1> Start \in Nat
  BY Product DEF TypeOK, Start
<1>1. CASE q < framesInPlugBuf
  BY <1>1, CopiedFacts, BlockAssumption DEF TypeOK, Place, Filled, Buffered
<1>2. CASE q >= framesInPlugBuf
  <2>1. q \in framesInPlugBuf..(framesInPlugBuf + Copied - 1)
    <3>1. framesInPlugBuf \in Nat /\ q \in Nat
      BY BlockAssumption DEF TypeOK, Place
    <3>2. Copied \in Nat
      BY CopiedFacts
    <3> QED
      BY <1>2, <3>1, <3>2
  <2>2. Filled[q] = src + q - framesInPlugBuf
    BY <2>1 DEF Filled
  <2>3. src = Start + framesInPlugBuf /\ framesInPlugBuf \in Nat /\ q \in Nat
    BY BlockAssumption DEF TypeOK, Place, Buffered
  <2> QED
    BY <2>2, <2>3
<1> QED
  BY <1>1, <1>2, BlockAssumption DEF TypeOK, Place

\* The program starts in a state that satisfies the invariant.
LEMMA PluginInit == Init => PluginInv
<1> SUFFICES ASSUME Init PROVE PluginInv
  OBVIOUS
<1>1. Start = 0
  BY Product DEF Init, Start
<1>2. TypeOK
  <2>1. lost \in BOOLEAN
    BY Zenon DEF Init
  <2>2. 0 \in Place
    BY BlockAssumption DEF Place
  <2>3. plugbuf \in [Place -> Nat] /\ block \in [Place -> Nat]
    BY DEF Init
  <2> QED
    BY <2>1, <2>2, <2>3 DEF Init, TypeOK
<1> QED
  BY <1>1, <1>2, BlockAssumption
  DEF Init, PluginInv, Buffered, Timed, Given, Counted, Place

-----------------------------------------------------------------------------
\* One lemma for each action: each keeps the invariant.
LEMMA HandleDataKeeps ==
    ASSUME PluginInv, NEW n \in 0..MaxAvail, NEW g \in 0..1, HandleData(n, g)
    PROVE  PluginInv'
<1> USE DEF HandleData, given
<1>1. TypeOK'
  BY BlockAssumption DEF PluginInv, TypeOK, Place
<1>2. CASE lost'
  BY <1>1, <1>2 DEF PluginInv
<1>3. CASE ~lost'
  <2>1. ~lost /\ ~(g > 0)
    BY <1>3, Zenon
  <2>2. src' = src
    BY <2>1 DEF PluginInv, TypeOK
  <2> QED
    BY <1>1, <2>1, <2>2 DEF PluginInv, Buffered, Timed, Given, Counted, Start
<1> QED
  BY <1>2, <1>3

\* One iteration that copies frames.
LEMMA FillKeeps ==
    ASSUME PluginInv, Fill
    PROVE  PluginInv'
<1> USE DEF Fill, Copy, given
<1>0. TypeOK /\ framesInPlugBuf' = framesInPlugBuf + Copied
  BY DEF PluginInv
<1>1. TypeOK'
  <2>1. Copied \in Nat /\ avail - Copied \in Nat
    BY <1>0, CopiedFacts DEF TypeOK
  <2>2. framesInPlugBuf' \in Place
    BY <1>0, <2>1, BlockAssumption DEF TypeOK, Place
  <2> QED
    BY <1>0, <2>1, <2>2, CopiedFacts DEF TypeOK
<1>2. CASE lost'
  BY <1>1, <1>2 DEF PluginInv
<1>3. CASE ~lost'
  <2>1. Buffered /\ Timed /\ Given /\ Counted /\ ~lost
    BY <1>3 DEF PluginInv
  <2>2. Start \in Nat /\ Start' = Start
    BY Product DEF PluginInv, TypeOK, Start
  <2>3. Buffered'
    <3>1. src' = Start' + framesInPlugBuf'
      BY <2>1, <2>2, CopiedFacts DEF PluginInv, TypeOK, Buffered, Place
    <3>2. \A q \in Place : q < framesInPlugBuf' => plugbuf'[q] = Start' + q
      BY <2>1, <2>2, FilledFacts DEF PluginInv
    <3> QED
      BY <3>1, <3>2 DEF Buffered
  <2>4. Timed'
    <3>1. frameTimestamp = src - framesInPlugBuf
      BY <2>1 DEF Timed
    <3>2. src' - framesInPlugBuf' = src - framesInPlugBuf
      BY <1>0, CopiedFacts DEF TypeOK, Place
    <3> QED
      BY <3>1, <3>2 DEF Timed
  <2>5. Given' /\ Counted'
    BY <2>1, <2>2 DEF Given, Counted
  <2> QED
    BY <1>1, <2>3, <2>4, <2>5 DEF PluginInv
<1> QED
  BY <1>2, <1>3

\* The block is given to the plugin, and its last frames are kept.
LEMMA ProcessKeeps ==
    ASSUME PluginInv, Process
    PROVE  PluginInv'
<1> USE DEF Process, Copy
<1>1. TypeOK'
  <2>1. Shifted(Filled) \in [Place -> Nat]
    BY CopiedFacts, BlockAssumption DEF PluginInv, Place, Shifted
  <2>2. TypeOK /\ Copied \in Nat /\ avail - Copied \in Nat
    BY CopiedFacts DEF PluginInv, TypeOK
  <2>3. framesInPlugBuf' \in Place
    BY BlockAssumption DEF Place
  <2> QED
    BY <2>1, <2>2, <2>3, CopiedFacts, BlockAssumption DEF TypeOK
<1>2. CASE lost'
  BY <1>1, <1>2 DEF PluginInv
<1>3. CASE ~lost'
  <2>1. Buffered /\ Timed /\ Given /\ Counted /\ ~lost
    BY <1>3 DEF PluginInv
  <2>2. Start \in Nat /\ Start' = Start + Step
    BY Product DEF PluginInv, TypeOK, Start
  <2>3. \A q \in Place : Filled[q] = Start + q
    BY <2>1, FilledFacts, BlockAssumption DEF PluginInv, Place
  <2>4. src' = Start + Block
    <3>1. src = Start + framesInPlugBuf /\ framesInPlugBuf + Copied = Block
      BY <2>1 DEF Buffered
    <3>2. framesInPlugBuf \in Nat /\ Copied \in Nat
      BY CopiedFacts, BlockAssumption DEF PluginInv, TypeOK, Place
    <3> QED
      BY <2>2, <3>1, <3>2
  <2>5. Buffered'
    <3>1. src' = Start' + framesInPlugBuf'
      BY <2>2, <2>4, BlockAssumption
    <3>2. \A q \in Place : q < framesInPlugBuf' => plugbuf'[q] = Start' + q
      BY <2>2, <2>3, BlockAssumption DEF Place, Shifted
    <3> QED
      BY <3>1, <3>2 DEF Buffered
  <2>6. Timed'
    <3>1. frameTimestamp = Start
      BY <2>1, <2>2, BlockAssumption DEF PluginInv, TypeOK, Buffered, Timed, Place
    <3> QED
      BY <2>2, <2>4, <3>1, BlockAssumption DEF Timed
  <2>7. Given'
    <3>1. stamp' = Start
      BY <2>1, <2>2, BlockAssumption DEF PluginInv, TypeOK, Buffered, Timed, Place
    <3>2. Start' - Step = Start
      BY <2>2, BlockAssumption
    <3> QED
      BY <2>3, <3>1, <3>2 DEF Given
  <2>8. Counted'
    BY <2>1 DEF Counted
  <2> QED
    BY <1>1, <2>5, <2>6, <2>7, <2>8 DEF PluginInv
<1> QED
  BY <1>2, <1>3

\* handleData returns.
LEMMA PluginReturnKeeps ==
    ASSUME PluginInv, Return
    PROVE  PluginInv'
BY DEF Return, given, PluginInv, TypeOK, Buffered, Timed, Given, Counted, Start

\* Nothing of the plugin changes.
LEMMA PluginStutters ==
    ASSUME PluginInv, UNCHANGED vars
    PROVE  PluginInv'
BY DEF vars, given, PluginInv, TypeOK, Buffered, Timed, Given, Counted, Start

\* handleData keeps the invariant, whatever is delivered.
THEOREM PluginInvariance == Spec => []PluginInv
<1>1. PluginInv /\ [Next]_vars => PluginInv'
  BY HandleDataKeeps, FillKeeps, ProcessKeeps, PluginReturnKeeps, PluginStutters DEF Next
<1> QED
  BY PluginInit, <1>1, PTL DEF Spec

-----------------------------------------------------------------------------
\* The frames in the buffer never fill it when handleData returns to its loop.
THEOREM PluginTypeCorrect == Spec => []TypeOK
<1>1. PluginInv => TypeOK
  BY DEF PluginInv
<1> QED
  BY <1>1, PluginInvariance, PTL

\* However the deliveries fall, the k-th block that the plugin is given holds the
\* Block frames from (k - 1) * Step on.
THEOREM BlocksAreInOrder == Spec => []BlocksInOrder
<1>1. PluginInv => BlocksInOrder
  BY Product DEF PluginInv, TypeOK, Given, Start, BlocksInOrder
<1> QED
  BY <1>1, PluginInvariance, PTL

\* The timestamp that the plugin is given is that of the block's first frame, as
\* long as the hardware loses none.
THEOREM StampsAreFirst == Spec => []StampIsFirstUnlessLost
<1>1. PluginInv => StampIsFirstUnlessLost
  <2> SUFFICES ASSUME PluginInv, ~lost, blocks > 0
               PROVE  stamp = block[0]
    BY DEF StampIsFirstUnlessLost, StampIsFirst
  <2>1. 0 \in Place /\ Start \in Nat /\ Step \in Nat
    BY Product, BlockAssumption DEF PluginInv, TypeOK, Place, Start
  <2> QED
    BY <2>1 DEF PluginInv, Given
<1> QED
  BY <1>1, PluginInvariance, PTL

\* No frame is given to the plugin that was not delivered, and none is dropped.
THEOREM FramesAreAccountedFor == Spec => []FramesAccountedFor
<1>1. PluginInv => FramesAccountedFor
  BY DEF PluginInv, Buffered, Counted, Start, FramesAccountedFor
<1> QED
  BY <1>1, PluginInvariance, PTL

\* Whatever the sizes of blocks, steps and deliveries, the plugin is given all of
\* the sound that reaches the server, once and in order.
THEOREM SoundStaysWhole == Spec => []SoundIsWhole
BY BlocksAreInOrder, FramesAreAccountedFor, PTL DEF SoundIsWhole

-----------------------------------------------------------------------------
(* The search for a radio's rate *)

\* What the search has established: the rates it has tried are the first multiples,
\* and the current one is not past the upper range.
RateInv ==
    /\ rate \in Int /\ hwRate \in Int /\ tries \in Nat
    /\ ratePc \in {"start", "refused", "loop", "done"}
    /\ ratePc = "start" => tries = 0 /\ hwRate = 0
    /\ ratePc = "refused" => tries = 0
    /\ ratePc \in {"loop", "done"} => rate \in 1..Hi2 /\ rate <= hwRate /\ tries >= 1
    /\ hwRate = tries * rate \/ ratePc = "refused"
    /\ hwRate <= Hi2
    /\ ratePc = "done" => Rate!Supported(hwRate)
    /\ \A k \in 1..(tries - 1) : ~Rate!Supported(k * rate)

\* A rate that is not supported and not past the upper range is below it, and so
\* is the rate asked for: together they cannot pass the upper range.
LEMMA SumStaysBelow ==
    ASSUME Rate!RateAssumption,
           NEW h \in Int, NEW r \in Int, r >= 1, r <= h, h <= Hi2, ~Rate!Supported(h)
    PROVE  h + r <= Hi2
BY DEF Rate!RateAssumption, Rate!Supported

\* The search starts with nothing tried.
LEMMA RateInit ==
    ASSUME Rate!RateAssumption, Rate!Init
    PROVE  RateInv
<1>1. \A k \in 1..(tries - 1) : FALSE
    BY DEF Rate!Init
<1> QED
    BY <1>1 DEF Rate!RateAssumption, Rate!Init, RateInv

\* Each iteration tries the next multiple.
LEMMA AddKeeps ==
    ASSUME Rate!RateAssumption, RateInv, Rate!Add
    PROVE  RateInv'
<1>1. /\ hwRate \in Int /\ rate \in Int /\ tries \in Nat
      /\ rate >= 1 /\ rate <= hwRate /\ hwRate <= Hi2 /\ tries >= 1
      /\ hwRate = tries * rate
    BY DEF RateInv, Rate!Add, Rate!RateAssumption
<1>2. /\ ratePc = "loop" /\ ~Rate!Supported(hwRate)
      /\ hwRate' = hwRate + rate /\ tries' = tries + 1 /\ rate' = rate /\ ratePc' = ratePc
    BY DEF Rate!Add
<1>3. hwRate' <= Hi2
    BY <1>1, <1>2, SumStaysBelow
<1>4. hwRate' = tries' * rate'
    <2>1. (tries + 1) * rate = tries * rate + rate
        BY <1>1
    <2> QED
        BY <1>1, <1>2, <2>1
<1>5. \A k \in 1..(tries' - 1) : ~Rate!Supported(k * rate')
    <2> SUFFICES ASSUME NEW k \in 1..(tries' - 1)
                 PROVE  ~Rate!Supported(k * rate')
        OBVIOUS
    <2>1. CASE k = tries
        BY <2>1, <1>1, <1>2
    <2>2. CASE k # tries
        <3>1. k \in 1..(tries - 1)
            BY <2>2, <1>1, <1>2
        <3> QED
            BY <3>1, <1>2 DEF RateInv
    <2> QED
        BY <2>1, <2>2
<1>6. rate' \in 1..Hi2
    BY <1>2 DEF RateInv
<1> QED
    BY <1>1, <1>2, <1>3, <1>4, <1>5, <1>6 DEF RateInv

\* Every step keeps the invariant.
LEMMA RateNext ==
    ASSUME Rate!RateAssumption, RateInv, [Rate!Next]_(Rate!vars)
    PROVE  RateInv'
<1>1. CASE Rate!Refuse
    BY <1>1 DEF Rate!Refuse, RateInv, Rate!Supported
<1>2. CASE Rate!Start
    <2>1. /\ ratePc = "start" /\ rate \in 1..Hi2 /\ rate \in Int
          /\ hwRate' = rate /\ tries' = 1 /\ ratePc' = "loop" /\ rate' = rate
        BY <1>2 DEF Rate!Start, RateInv
    <2>2. 1 * rate = rate /\ 1..(1 - 1) = {} /\ Hi2 \in Nat
        BY <2>1 DEF Rate!RateAssumption
    <2>3. \A k \in 1..(tries' - 1) : ~Rate!Supported(k * rate')
        BY <2>1, <2>2
    <2> QED
        BY <2>1, <2>2, <2>3 DEF RateInv
<1>3. CASE Rate!Add
    BY <1>3, AddKeeps
<1>4. CASE Rate!Return
    BY <1>4 DEF Rate!Return, RateInv, Rate!Supported
<1>5. CASE UNCHANGED Rate!vars
    BY <1>5 DEF Rate!vars, RateInv, Rate!Supported
<1> QED
    BY <1>1, <1>2, <1>3, <1>4, <1>5 DEF Rate!Next

\* Whatever the ranges and the rates, the search ends on the least multiple that
\* the hardware supports and never runs past its highest rate.
THEOREM RateIsAlwaysLeast ==
    DataSpec => []RateIsLeast
<1>1. Rate!Init => RateInv
    BY RateInit, PartAssumptions
<1>2. RateInv /\ [Rate!Next]_(Rate!vars) => RateInv'
    BY RateNext, PartAssumptions
<1>3. RateInv => RateIsLeast
    BY DEF RateInv, RateIsLeast, Rate!RateIsLeast
<1> QED
    BY <1>1, <1>2, <1>3, PartsAreThemselves, PTL DEF Rate!Spec

-----------------------------------------------------------------------------
(* A radio's stream *)

Headers == [kind : {"header"}, size : Nat, ts : Nat]
Samples == [kind : {"sample"}, n : Nat]
Bytes == Headers \cup Samples

(***************************************************************************)
(* What is on the wire, said of one segment at a time: a segment with      *)
(* header h whose first byte has place p on wire w, or would have had,     *)
(* ends on the wire, has its header and then consecutive samples, and is   *)
(* followed by the segment that goes on where it ends.                     *)
(***************************************************************************)
IsSegment(p, h, w, s) ==
    /\ h \in Headers /\ h.size > HeaderLen
    /\ p + h.size - 1 <= Len(w)
    /\ \A q \in 1..Len(w) : p <= q /\ q < p + HeaderLen => w[q] = h
    /\ \A q \in 1..Len(w) : p + HeaderLen <= q /\ q < p + h.size =>
         w[q] = Radio!Sample(h.ts + (q - p - HeaderLen))
    /\ IF p + h.size - 1 = Len(w) THEN s = h.ts + (h.size - HeaderLen)
       ELSE /\ w[p + h.size] \in Headers
            /\ w[p + h.size].ts = h.ts + (h.size - HeaderLen)

\* Segments start after samples; the first byte starts one if none has been begun.
IsStart(p, w, g) ==
    /\ p \in 1..Len(w) /\ w[p] \in Headers
    /\ IF p = 1 THEN g = 0 ELSE w[p - 1] \in Samples

\* The number of the next sample that is read.
Coming(g, h, w, s) ==
    IF g = 0 THEN IF Len(w) = 0 THEN s ELSE w[1].ts
    ELSE IF g > HeaderLen THEN h.ts + (g - HeaderLen) ELSE h.ts

OnWire(g, h, w, s) ==
    /\ w \in Seq(Bytes) /\ s \in Nat /\ g \in Nat /\ h \in Headers
    /\ g > 0 => g < h.size /\ IsSegment(1 - g, h, w, s)
    /\ \A p \in 1..Len(w) : IsStart(p, w, g) => IsSegment(p, w[p], w, s)
    /\ Len(w) > 0 => w[Len(w)] \in Samples
    /\ Len(w) > 0 /\ g = 0 => w[1] \in Headers

nextSample == Coming(segi, header, wire, sent)

\* What this call has copied are the samples before the next one.
BufHolds ==
    /\ buf \in Seq(Samples)
    /\ radioPc = "loop" =>
         /\ Len(buf) <= nextSample
         /\ \A q \in 1..Len(buf) : buf[q] = Radio!Sample(nextSample - Len(buf) + q - 1)

\* What earlier calls have returned are those before, unless an odd one was dropped.
Returned ==
    /\ radioGot \in Seq(Samples)
    /\ ~odd => /\ \A q \in 1..Len(radioGot) : radioGot[q] = Radio!Sample(q - 1)
               /\ Len(radioGot) = nextSample - (IF radioPc = "loop" THEN Len(buf) ELSE 0)

\* Each estimate is the time of the first sample that is copied, or will be.
Estimated ==
    radioPc = "loop" =>
        /\ stampSum = numTSest * (nextSample - Len(buf))
        /\ segi >= HeaderLen \/ Len(buf) > 0 => numTSest > 0

RadioInv ==
    /\ Radio!TypeOK
    /\ OnWire(segi, header, wire, sent)
    /\ radioPc = "idle" => bytesAvail = 0
    /\ BufHolds /\ Returned /\ Estimated

-----------------------------------------------------------------------------
\* What n bytes leave of the wire w.
Rest(v, w, n) ==
    /\ v \in Seq(Bytes) /\ Len(v) = Len(w) - n
    /\ \A q \in 1..(Len(w) - n) : v[q] = w[q + n]

\* What Recv leaves.
LEMMA TakenFacts ==
    ASSUME NEW w \in Seq(Bytes), NEW n \in 0..Len(w)
    PROVE  Rest(SubSeq(w, n + 1, Len(w)), w, n)
<1> DEFINE T == Bytes
<1> HIDE DEF T
<1>0. w \in Seq(T)
  BY DEF T
<1>1. Len(w) \in Nat /\ n + 1 \in Int /\ Len(w) \in Int
  BY <1>0
<1>2. \A q \in (n + 1)..Len(w) : w[q] \in T
  BY <1>0, <1>1
<1>3. /\ SubSeq(w, n + 1, Len(w)) \in Seq(T)
      /\ Len(SubSeq(w, n + 1, Len(w))) =
           IF n + 1 <= Len(w) THEN Len(w) - (n + 1) + 1 ELSE 0
      /\ \A q \in 1..(Len(w) - (n + 1) + 1) :
            SubSeq(w, n + 1, Len(w))[q] = w[n + 1 + q - 1]
  BY <1>1, <1>2, SubSeqProperties
<1>4. Len(SubSeq(w, n + 1, Len(w))) = Len(w) - n
  <2> DEFINE len == Len(w)
  <2>1. len \in Nat /\ n \in 0..len
    BY <1>1
  <2>2. (IF n + 1 <= len THEN len - (n + 1) + 1 ELSE 0) = len - n
    <3> HIDE DEF len
    <3> QED
      BY <2>1
  <2> QED
    BY <1>3, <2>2
<1>5. \A q \in 1..(Len(w) - n) : SubSeq(w, n + 1, Len(w))[q] = w[q + n]
  <2> SUFFICES ASSUME NEW q \in 1..(Len(w) - n)
               PROVE  SubSeq(w, n + 1, Len(w))[q] = w[q + n]
    OBVIOUS
  <2>1. n + 1 + q - 1 = q + n /\ q \in 1..(Len(w) - (n + 1) + 1)
    BY <1>1
  <2> QED
    BY <1>3, <2>1
<1> QED
  BY <1>3, <1>4, <1>5 DEF Rest, T

\* A segment that has not ended moves with the wire.
LEMMA SegmentMoves ==
    ASSUME NEW w \in Seq(Bytes), NEW n \in 0..Len(w), NEW v, Rest(v, w, n),
           NEW p \in Int, NEW h, NEW s, IsSegment(p, h, w, s), p + h.size > n
    PROVE  IsSegment(p - n, h, v, s)
<1>1. /\ h \in Headers /\ h.size > HeaderLen /\ h.size \in Nat /\ h.ts \in Nat
      /\ p + h.size - 1 <= Len(w) /\ Len(w) \in Nat /\ HeaderLen \in Nat \ {0}
      /\ v \in Seq(Bytes) /\ Len(v) = Len(w) - n /\ n \in Nat
  BY PartAssumptions DEF IsSegment, Headers, Radio!RadioAssumption, Rest
<1>2. (p - n) + h.size - 1 <= Len(v)
  BY <1>1
<1>3. \A q \in 1..Len(v) : p - n <= q /\ q < (p - n) + HeaderLen => v[q] = h
  <2> SUFFICES ASSUME NEW q \in 1..Len(v), p - n <= q, q < (p - n) + HeaderLen
               PROVE  v[q] = h
    OBVIOUS
  <2>1. q + n \in 1..Len(w) /\ p <= q + n /\ q + n < p + HeaderLen
    BY <1>1
  <2> QED
    BY <2>1, <1>1 DEF IsSegment, Rest
<1>4. \A q \in 1..Len(v) : (p - n) + HeaderLen <= q /\ q < (p - n) + h.size =>
        v[q] = Radio!Sample(h.ts + (q - (p - n) - HeaderLen))
  <2> SUFFICES ASSUME NEW q \in 1..Len(v), (p - n) + HeaderLen <= q, q < (p - n) + h.size
               PROVE  v[q] = Radio!Sample(h.ts + (q - (p - n) - HeaderLen))
    OBVIOUS
  <2>1. q + n \in 1..Len(w) /\ p + HeaderLen <= q + n /\ q + n < p + h.size
    BY <1>1
  <2>2. w[q + n] = Radio!Sample(h.ts + ((q + n) - p - HeaderLen))
    BY <2>1 DEF IsSegment
  <2>3. (q + n) - p - HeaderLen = q - (p - n) - HeaderLen
    BY <1>1
  <2>4. v[q] = w[q + n]
    BY <1>1 DEF Rest
  <2> QED
    BY <2>2, <2>3, <2>4
<1>5. IF (p - n) + h.size - 1 = Len(v) THEN s = h.ts + (h.size - HeaderLen)
      ELSE /\ v[(p - n) + h.size] \in Headers
           /\ v[(p - n) + h.size].ts = h.ts + (h.size - HeaderLen)
  <2>0. /\ (p - n) + h.size - 1 = Len(v) <=> p + h.size - 1 = Len(w)
        /\ ((p - n) + h.size) + n = p + h.size
        /\ p + h.size - 1 # Len(w) => (p - n) + h.size \in 1..(Len(w) - n)
    <3> DEFINE k == h.size
               l == Len(w)
    <3>1. p \in Int /\ k \in Int /\ l \in Int /\ n \in Int /\ Len(v) = l - n
          /\ p + k - 1 <= l /\ p + k > n
      BY <1>1
    <3> HIDE DEF k, l
    <3>2. (p - n) + k - 1 = Len(v) <=> p + k - 1 = l
      BY <3>1
    <3>3. ((p - n) + k) + n = p + k
      BY <3>1
    <3>4. p + k - 1 # l => (p - n) + k \in 1..(l - n)
      BY <3>1
    <3> QED
      BY <3>2, <3>3, <3>4 DEF k, l
  <2>1. CASE p + h.size - 1 = Len(w)
    <3>1. (p - n) + h.size - 1 = Len(v)
      BY <2>0, <2>1
    <3> QED
      BY <2>1, <3>1 DEF IsSegment
  <2>2. CASE p + h.size - 1 # Len(w)
    <3>1. (p - n) + h.size - 1 # Len(v) /\ (p - n) + h.size \in 1..(Len(w) - n)
          /\ ((p - n) + h.size) + n = p + h.size
      BY <2>0, <2>2, Zenon
    <3>2. v[(p - n) + h.size] = w[p + h.size]
      <4> DEFINE q == (p - n) + h.size
      <4>1. q \in 1..(Len(w) - n) /\ q + n = p + h.size
        BY <3>1
      <4> HIDE DEF q
      <4>2. v[q] = w[q + n]
        BY <4>1 DEF Rest
      <4> QED
        BY <4>1, <4>2 DEF q
    <3> QED
      BY <2>2, <3>1, <3>2 DEF IsSegment
  <2> QED
    BY <2>1, <2>2
<1> QED
  BY <1>1, <1>2, <1>3, <1>4, <1>5 DEF IsSegment

\* Segment and header are those of the bytes v that n bytes leave of w.
GoesOn(g, h, v, s, w, n) ==
    /\ g > 0 => g < h.size /\ IsSegment(1 - g, h, v, s)
    /\ g = 0 => w[n] \in Samples
    /\ g = 0 /\ Len(v) > 0 => v[1] \in Headers

\* What is left on the wire, if the current segment is what it is said to be.
LEMMA WireAfter ==
    ASSUME NEW g, NEW h, NEW w, NEW s, OnWire(g, h, w, s), NEW n \in 1..Len(w),
           NEW g2 \in Nat, NEW h2 \in Headers,
           NEW v, Rest(v, w, n), GoesOn(g2, h2, v, s, w, n)
    PROVE  OnWire(g2, h2, v, s)
<1> USE DEF GoesOn
<1>1. w \in Seq(Bytes) /\ Len(w) \in Nat /\ s \in Nat /\ n \in 0..Len(w)
  BY DEF OnWire
<1>2. v \in Seq(Bytes) /\ Len(v) = Len(w) - n
      /\ \A q \in 1..(Len(w) - n) : v[q] = w[q + n]
  BY DEF Rest
<1>3. ASSUME NEW p \in 1..Len(v), IsStart(p, v, g2)
      PROVE  IsSegment(p, v[p], v, s)
  <2>1. p + n \in 1..Len(w) /\ p + n # 1 /\ v[p] = w[p + n] /\ (p + n) - n = p
    BY <1>1, <1>2
  <2>2. w[(p + n) - 1] \in Samples
    <3>1. CASE p = 1
      <4>1. (p + n) - 1 = n /\ g2 = 0
        BY <1>3, <3>1 DEF IsStart
      <4> QED
        BY <4>1
    <3>2. CASE p # 1
      <4>1. p - 1 \in 1..(Len(w) - n) /\ (p - 1) + n = (p + n) - 1
        <5>1. p \in Int /\ n \in Int /\ p # 1 /\ p >= 1 /\ p <= Len(w) - n /\ Len(w) \in Int
          BY <1>1, <1>2, <3>2
        <5>2. p - 1 \in 1..(Len(w) - n)
          BY <5>1
        <5> QED
          BY <5>1, <5>2
      <4>2. v[p - 1] \in Samples
        BY <1>3, <3>2 DEF IsStart
      <4> QED
        BY <1>2, <4>1, <4>2
    <3> QED
      BY <3>1, <3>2
  <2>3. IsStart(p + n, w, g)
    BY <1>3, <2>1, <2>2 DEF IsStart
  <2>4. IsSegment(p + n, w[p + n], w, s)
    BY <2>1, <2>3 DEF OnWire
  <2>5. w[p + n].size \in Nat
    BY <2>4 DEF IsSegment, Headers
  <2>6. (p + n) + w[p + n].size > n /\ p + n \in Int
    BY <1>1, <2>5
  <2>7. IsSegment((p + n) - n, w[p + n], v, s)
    BY <1>1, <1>2, <2>4, <2>6, SegmentMoves
  <2> QED
    BY <2>1, <2>7
<1>4. Len(v) > 0 => v[Len(v)] \in Samples
  <2> SUFFICES ASSUME Len(v) > 0 PROVE v[Len(v)] \in Samples
    OBVIOUS
  <2>1. Len(v) \in 1..(Len(w) - n) /\ Len(v) + n = Len(w) /\ Len(w) > 0
    BY <1>1, <1>2
  <2>2. v[Len(v)] = w[Len(w)]
    BY <1>2, <2>1
  <2> QED
    BY <2>1, <2>2 DEF OnWire
<1> QED
  BY <1>1, <1>2, <1>3, <1>4 DEF OnWire

\* The segment that bytes are read from next.
Current(g, h, w) == IF g = 0 THEN w[1] ELSE h

\* The current segment is one, and its times are those that come.
LEMMA CurrentFacts ==
    ASSUME NEW g, NEW h, NEW w, NEW s, OnWire(g, h, w, s), Len(w) > 0
    PROVE  LET c == Current(g, h, w)
           IN  /\ IsSegment(1 - g, c, w, s) /\ g < c.size
               /\ c \in Headers /\ c.ts \in Nat /\ c.size \in Nat
               /\ Coming(g, h, w, s) = IF g > HeaderLen THEN c.ts + (g - HeaderLen) ELSE c.ts
<1>1. HeaderLen \in Nat \ {0} /\ g \in Nat /\ Len(w) \in Nat /\ w \in Seq(Bytes)
  BY PartAssumptions DEF Radio!RadioAssumption, OnWire
<1>2. CASE g = 0
  <2>1. 1 \in 1..Len(w) /\ w[1] \in Headers
    BY <1>1, <1>2 DEF OnWire
  <2>2. IsStart(1, w, g)
    BY <1>2, <2>1 DEF IsStart
  <2>3. IsSegment(1, w[1], w, s) /\ 1 - g = 1
    BY <1>2, <2>1, <2>2 DEF OnWire
  <2>4. w[1].size > HeaderLen /\ w[1].size \in Nat /\ w[1].ts \in Nat
    BY <2>3 DEF IsSegment, Headers
  <2>5. g < w[1].size /\ ~(g > HeaderLen)
    BY <1>1, <1>2, <2>4
  <2> QED
    BY <1>1, <1>2, <2>1, <2>3, <2>4, <2>5 DEF Current, Coming
<1>3. CASE g > 0
  <2>1. IsSegment(1 - g, h, w, s) /\ g < h.size
    BY <1>3 DEF OnWire
  <2>2. h \in Headers /\ h.ts \in Nat /\ h.size \in Nat
    BY <2>1 DEF IsSegment, Headers
  <2> QED
    BY <1>1, <1>3, <2>1, <2>2 DEF Current, Coming
<1> QED
  BY <1>1, <1>2, <1>3

\* Bytes of a header: they are those of the current segment's.
LEMMA HeaderRead ==
    ASSUME NEW g, NEW h, NEW w, NEW s, OnWire(g, h, w, s),
           NEW n \in 1..Len(w), n <= HeaderLen - g
    PROVE  LET v == SubSeq(w, n + 1, Len(w))
           IN  /\ w[n] \in Headers /\ OnWire(g + n, w[n], v, s)
               /\ Coming(g + n, w[n], v, s) = Coming(g, h, w, s)
               /\ Coming(g, h, w, s) = w[n].ts
<1> DEFINE v == SubSeq(w, n + 1, Len(w))
           c == Current(g, h, w)
<1>1. HeaderLen \in Nat \ {0} /\ g \in Nat /\ Len(w) \in Nat /\ w \in Seq(Bytes)
      /\ Len(w) > 0 /\ n \in 0..Len(w)
  BY PartAssumptions DEF Radio!RadioAssumption, OnWire
<1>2. /\ IsSegment(1 - g, c, w, s) /\ g < c.size
      /\ c \in Headers /\ c.ts \in Nat /\ c.size \in Nat
      /\ Coming(g, h, w, s) = IF g > HeaderLen THEN c.ts + (g - HeaderLen) ELSE c.ts
  BY <1>1, CurrentFacts
<1> HIDE DEF c
<1>3. Rest(v, w, n)
  BY <1>1, TakenFacts
<1> HIDE DEF v
<1>4. w[n] = c
  <2>1. 1 - g <= n /\ n < (1 - g) + HeaderLen
    BY <1>1
  <2> QED
    BY <1>2, <2>1 DEF IsSegment
<1>5. c.size > HeaderLen
  BY <1>2 DEF IsSegment
<1>6. g + n \in Nat /\ g + n > 0 /\ g + n <= HeaderLen /\ g + n < c.size /\ ~(g > HeaderLen)
  BY <1>1, <1>2, <1>5
<1>7. (1 - g) + c.size > n /\ 1 - g \in Int /\ (1 - g) - n = 1 - (g + n)
  BY <1>1, <1>2, <1>6
<1>8. IsSegment((1 - g) - n, c, v, s)
  BY <1>1, <1>2, <1>3, <1>7, SegmentMoves
<1>9. IsSegment(1 - (g + n), c, v, s)
  BY <1>7, <1>8
<1>10. OnWire(g + n, c, v, s)
  <2>1. GoesOn(g + n, c, v, s, w, n)
    BY <1>6, <1>9 DEF GoesOn
  <2> QED
    BY <1>2, <1>3, <1>6, <2>1, WireAfter, Zenon
<1>11. Coming(g + n, c, v, s) = c.ts
  BY <1>1, <1>6 DEF Coming
<1> QED
  BY <1>2, <1>4, <1>6, <1>10, <1>11 DEF v

\* Bytes of samples: they are the next ones.
LEMMA DataRead ==
    ASSUME NEW g, NEW h, NEW w, NEW s, OnWire(g, h, w, s),
           NEW n \in 1..Len(w), g >= HeaderLen, n <= h.size - g
    PROVE  LET v == SubSeq(w, n + 1, Len(w))
               g2 == IF g + n = h.size THEN 0 ELSE g + n
           IN  /\ OnWire(g2, h, v, s)
               /\ Coming(g, h, w, s) \in Nat
               /\ Coming(g2, h, v, s) = Coming(g, h, w, s) + n
               /\ \A q \in 1..n : w[q] = Radio!Sample(Coming(g, h, w, s) + q - 1)
<1> DEFINE v == SubSeq(w, n + 1, Len(w))
           g2 == IF g + n = h.size THEN 0 ELSE g + n
<1>1. HeaderLen \in Nat \ {0} /\ g \in Nat /\ Len(w) \in Nat /\ w \in Seq(Bytes)
      /\ g > 0 /\ n \in 0..Len(w) /\ s \in Nat
  BY PartAssumptions DEF Radio!RadioAssumption, OnWire
<1>2. /\ IsSegment(1 - g, h, w, s) /\ g < h.size
      /\ h \in Headers /\ h.ts \in Nat /\ h.size \in Nat /\ h.size > HeaderLen
  BY <1>1 DEF OnWire, IsSegment, Headers
<1>3. Rest(v, w, n)
  BY <1>1, TakenFacts
<1> HIDE DEF v
<1>4. Coming(g, h, w, s) = h.ts + (g - HeaderLen)
  BY <1>1, <1>2 DEF Coming
<1>5. \A q \in 1..n : w[q] = Radio!Sample(Coming(g, h, w, s) + q - 1)
  <2> SUFFICES ASSUME NEW q \in 1..n
               PROVE  w[q] = Radio!Sample(Coming(g, h, w, s) + q - 1)
    OBVIOUS
  <2>1. q \in 1..Len(w) /\ (1 - g) + HeaderLen <= q /\ q < (1 - g) + h.size
    BY <1>1, <1>2
  <2>2. w[q] = Radio!Sample(h.ts + (q - (1 - g) - HeaderLen))
    BY <1>2, <2>1 DEF IsSegment
  <2>3. h.ts + (q - (1 - g) - HeaderLen) = Coming(g, h, w, s) + q - 1
    BY <1>1, <1>2, <1>4
  <2> QED
    BY <2>2, <2>3
<1>6. CASE g + n = h.size
  <2>1. (1 - g) + h.size - 1 = n /\ (1 - g) + h.size = n + 1
    BY <1>1, <1>2, <1>6
  <2>2. w[n] \in Samples
    <3>1. w[n] = Radio!Sample(Coming(g, h, w, s) + n - 1)
      BY <1>5
    <3>2. Coming(g, h, w, s) + n - 1 \in Nat
      BY <1>1, <1>2, <1>4
    <3> QED
      BY <3>1, <3>2 DEF Radio!Sample, Samples
  <2>3. IF n = Len(w) THEN s = h.ts + (h.size - HeaderLen)
        ELSE w[n + 1] \in Headers /\ w[n + 1].ts = h.ts + (h.size - HeaderLen)
    BY <1>2, <2>1, Zenon DEF IsSegment
  <2>4. Len(v) > 0 => v[1] = w[n + 1] /\ n # Len(w)
    <3>1. Len(v) > 0 => 1 \in 1..(Len(w) - n) /\ 1 + n = n + 1 /\ n # Len(w)
      BY <1>1, <1>3 DEF Rest
    <3> QED
      BY <1>3, <3>1 DEF Rest
  <2>5. OnWire(0, h, v, s)
    <3>1. GoesOn(0, h, v, s, w, n)
      BY <2>2, <2>3, <2>4 DEF GoesOn
    <3>2. 0 \in Nat
      OBVIOUS
    <3> QED
      BY <1>2, <1>3, <3>1, <3>2, WireAfter, Zenon
  <2>6. Coming(0, h, v, s) = Coming(g, h, w, s) + n
    <3>1. h.ts + (h.size - HeaderLen) = Coming(g, h, w, s) + n
      BY <1>1, <1>2, <1>4, <1>6
    <3>2. CASE Len(v) = 0
      <4>1. n = Len(w)
        BY <1>1, <1>3, <3>2 DEF Rest
      <4> QED
        BY <2>3, <3>1, <3>2, <4>1 DEF Coming
    <3>3. CASE Len(v) # 0
      <4>1. Len(v) > 0
        BY <1>1, <1>3, <3>3 DEF Rest
      <4> QED
        BY <2>3, <2>4, <3>1, <3>3, <4>1 DEF Coming
    <3> QED
      BY <3>2, <3>3
  <2> QED
    BY <1>1, <1>2, <1>4, <1>5, <1>6, <2>5, <2>6 DEF v
<1>7. CASE g + n # h.size
  <2>1. g + n \in Nat /\ g + n > HeaderLen /\ g + n < h.size /\ g + n # 0
        /\ (1 - g) + h.size > n /\ 1 - g \in Int /\ (1 - g) - n = 1 - (g + n)
    BY <1>1, <1>2, <1>7
  <2>2. IsSegment((1 - g) - n, h, v, s)
    BY <1>1, <1>2, <1>3, <2>1, SegmentMoves
  <2>3. IsSegment(1 - (g + n), h, v, s)
    BY <2>1, <2>2
  <2>4. OnWire(g + n, h, v, s)
    <3>1. GoesOn(g + n, h, v, s, w, n)
      BY <2>1, <2>3 DEF GoesOn
    <3> QED
      BY <1>2, <1>3, <2>1, <3>1, WireAfter, Zenon
  <2>5. Coming(g + n, h, v, s) = Coming(g, h, w, s) + n
    <3>1. Coming(g + n, h, v, s) = h.ts + ((g + n) - HeaderLen)
      BY <2>1 DEF Coming
    <3> QED
      BY <1>1, <1>2, <1>4, <3>1
  <2> QED
    BY <1>1, <1>2, <1>4, <1>5, <1>7, <2>4, <2>5 DEF v
<1> QED
  BY <1>6, <1>7

-----------------------------------------------------------------------------
\* What the wire w is once a segment with len samples has been sent, of which s is
\* the first.
Extended(x, w, s, len) ==
    /\ x \in Seq(Bytes) /\ Len(x) = Len(w) + HeaderLen + len
    /\ \A q \in 1..Len(w) : x[q] = w[q]
    /\ \A q \in 1..Len(x) : Len(w) < q /\ q <= Len(w) + HeaderLen =>
         x[q] = Radio!Header(HeaderLen + len, s)
    /\ \A q \in 1..Len(x) : Len(w) + HeaderLen < q =>
         x[q] = Radio!Sample(s + (q - Len(w) - HeaderLen) - 1)

\* What Send puts on the wire.
LEMMA SentFacts ==
    ASSUME NEW w \in Seq(Bytes), NEW s \in Nat, NEW len \in Nat \ {0}
    PROVE  Extended(w \o [q \in 1..HeaderLen |-> Radio!Header(HeaderLen + len, s)]
                      \o [q \in 1..len |-> Radio!Sample(s + q - 1)], w, s, len)
<1> DEFINE H == [q \in 1..HeaderLen |-> Radio!Header(HeaderLen + len, s)]
           D == [q \in 1..len |-> Radio!Sample(s + q - 1)]
           x == w \o H \o D
<1>1. HeaderLen \in Nat \ {0} /\ Len(w) \in Nat
  BY PartAssumptions DEF Radio!RadioAssumption
<1>2. H \in Seq(Bytes) /\ Len(H) = HeaderLen
  <2>1. Radio!Header(HeaderLen + len, s) \in Bytes
    BY <1>1 DEF Bytes, Headers, Radio!Header
  <2> QED
    BY <1>1, <2>1
<1>3. D \in Seq(Bytes) /\ Len(D) = len
  <2>1. \A q \in 1..len : Radio!Sample(s + q - 1) \in Bytes
    BY DEF Bytes, Samples, Radio!Sample
  <2> QED
    BY <1>1, <2>1
<1>4. \A q \in 1..HeaderLen : H[q] = Radio!Header(HeaderLen + len, s)
  OBVIOUS
<1>5. \A q \in 1..len : D[q] = Radio!Sample(s + q - 1)
  OBVIOUS
<1> DEFINE T == Bytes
<1>6. w \in Seq(T) /\ H \in Seq(T) /\ D \in Seq(T)
  BY <1>2, <1>3
<1> HIDE DEF H, D, T
<1>7. w \o H \in Seq(T) /\ Len(w \o H) = Len(w) + HeaderLen
      /\ \A q \in 1..(Len(w) + HeaderLen) :
           (w \o H)[q] = IF q <= Len(w) THEN w[q] ELSE H[q - Len(w)]
  BY <1>1, <1>2, <1>6
<1>8. x \in Seq(T) /\ Len(x) = Len(w) + HeaderLen + len
      /\ \A q \in 1..(Len(w) + HeaderLen + len) :
           x[q] = IF q <= Len(w) + HeaderLen THEN (w \o H)[q]
                  ELSE D[q - (Len(w) + HeaderLen)]
  <2> DEFINE y == w \o H
  <2>1. y \in Seq(T) /\ D \in Seq(T) /\ Len(y) = Len(w) + HeaderLen /\ Len(D) = len
    BY <1>3, <1>6, <1>7
  <2> HIDE DEF y
  <2>2. /\ y \o D \in Seq(T) /\ Len(y \o D) = Len(y) + Len(D)
        /\ \A q \in 1..(Len(y) + Len(D)) :
             (y \o D)[q] = IF q <= Len(y) THEN y[q] ELSE D[q - Len(y)]
    BY <2>1
  <2> QED
    BY <2>1, <2>2 DEF y
<1> HIDE DEF x
<1>9. ASSUME NEW q \in 1..Len(w) PROVE x[q] = w[q]
  <2>1. q \in 1..(Len(w) + HeaderLen) /\ q \in 1..(Len(w) + HeaderLen + len)
        /\ q <= Len(w) /\ q <= Len(w) + HeaderLen
    BY <1>1
  <2> QED
    BY <1>7, <1>8, <2>1
<1>10. ASSUME NEW q \in 1..Len(x), Len(w) < q, q <= Len(w) + HeaderLen
       PROVE  x[q] = Radio!Header(HeaderLen + len, s)
  <2>1. q \in 1..(Len(w) + HeaderLen) /\ q \in 1..(Len(w) + HeaderLen + len)
        /\ ~(q <= Len(w)) /\ q - Len(w) \in 1..HeaderLen
    BY <1>1, <1>8, <1>10
  <2>2. x[q] = H[q - Len(w)]
    BY <1>7, <1>8, <1>10, <2>1
  <2> QED
    BY <1>4, <2>1, <2>2
<1>11. ASSUME NEW q \in 1..Len(x), Len(w) + HeaderLen < q
       PROVE  x[q] = Radio!Sample(s + (q - Len(w) - HeaderLen) - 1)
  <2>1. q \in 1..(Len(w) + HeaderLen + len) /\ ~(q <= Len(w) + HeaderLen)
        /\ q - (Len(w) + HeaderLen) \in 1..len
        /\ q - (Len(w) + HeaderLen) = q - Len(w) - HeaderLen
    BY <1>1, <1>8, <1>11
  <2>2. x[q] = D[q - (Len(w) + HeaderLen)]
    BY <1>8, <2>1
  <2> QED
    BY <1>5, <2>1, <2>2
<1> QED
  BY <1>8, <1>9, <1>10, <1>11 DEF Extended, T, x, H, D

\* A segment that is on the wire, or was begun there, stays what it is.
LEMMA SegmentStays ==
    ASSUME NEW w \in Seq(Bytes), NEW s \in Nat, NEW len \in Nat \ {0}, NEW x,
           Extended(x, w, s, len), NEW p \in Int, NEW c, IsSegment(p, c, w, s), p + c.size >= 1
    PROVE  IsSegment(p, c, x, s + len)
<1> DEFINE l == Len(w)
           k == c.size
<1>1. /\ c \in Headers /\ k > HeaderLen /\ k \in Nat /\ l \in Nat
      /\ HeaderLen \in Nat \ {0} /\ Len(x) = l + HeaderLen + len /\ x \in Seq(Bytes)
      /\ p + k - 1 <= l /\ p + k >= 1
  BY PartAssumptions DEF Radio!RadioAssumption, Extended, IsSegment, Headers
<1>2. \A q \in 1..l : x[q] = w[q]
  BY DEF Extended
<1>3. /\ \A q \in 1..l : p <= q /\ q < p + HeaderLen => w[q] = c
      /\ \A q \in 1..l : p + HeaderLen <= q /\ q < p + k =>
           w[q] = Radio!Sample(c.ts + (q - p - HeaderLen))
      /\ IF p + k - 1 = l THEN s = c.ts + (k - HeaderLen)
         ELSE w[p + k] \in Headers /\ w[p + k].ts = c.ts + (k - HeaderLen)
  BY Zenon DEF IsSegment
<1>4. \A q \in 1..Len(x) : l < q /\ q <= l + HeaderLen =>
        x[q] = Radio!Header(HeaderLen + len, s)
  BY DEF Extended
<1> HIDE DEF l, k
<1>5. \A q \in 1..Len(x) : p <= q /\ q < p + HeaderLen => x[q] = c
  <2> SUFFICES ASSUME NEW q \in 1..Len(x), p <= q, q < p + HeaderLen PROVE x[q] = c
    OBVIOUS
  <2>1. q \in 1..l
    BY <1>1
  <2> QED
    BY <1>2, <1>3, <2>1
<1>6. \A q \in 1..Len(x) : p + HeaderLen <= q /\ q < p + k =>
        x[q] = Radio!Sample(c.ts + (q - p - HeaderLen))
  <2> SUFFICES ASSUME NEW q \in 1..Len(x), p + HeaderLen <= q, q < p + k
               PROVE  x[q] = Radio!Sample(c.ts + (q - p - HeaderLen))
    OBVIOUS
  <2>1. q \in 1..l
    BY <1>1
  <2> QED
    BY <1>2, <1>3, <2>1
<1>7. p + k - 1 # Len(x) /\ p + k - 1 <= Len(x)
  BY <1>1
<1>8. x[p + k] \in Headers /\ x[p + k].ts = c.ts + (k - HeaderLen)
  <2>1. CASE p + k - 1 = l
    <3>1. p + k \in 1..Len(x) /\ l < p + k /\ p + k <= l + HeaderLen
      BY <1>1, <2>1
    <3>2. x[p + k] = Radio!Header(HeaderLen + len, s)
      BY <1>4, <3>1
    <3> QED
      BY <1>1, <1>3, <2>1, <3>2 DEF Radio!Header, Headers
  <2>2. CASE p + k - 1 # l
    <3>1. p + k \in 1..l
      BY <1>1, <2>2
    <3>2. x[p + k] = w[p + k]
      BY <1>2, <3>1
    <3> QED
      BY <1>3, <2>2, <3>2
  <2> QED
    BY <2>1, <2>2
<1> QED
  BY <1>1, <1>5, <1>6, <1>7, <1>8 DEF IsSegment, l, k

\* The new segment is one, and nothing else starts with it.
LEMMA WireExtended ==
    ASSUME NEW g, NEW h, NEW w, NEW s, OnWire(g, h, w, s), NEW len \in Nat \ {0}, NEW x,
           Extended(x, w, s, len)
    PROVE  OnWire(g, h, x, s + len) /\ Coming(g, h, x, s + len) = Coming(g, h, w, s)
<1> DEFINE l == Len(w)
           new == Radio!Header(HeaderLen + len, s)
<1>1. /\ HeaderLen \in Nat \ {0} /\ Len(x) = l + HeaderLen + len /\ x \in Seq(Bytes)
      /\ l \in Nat /\ w \in Seq(Bytes) /\ s \in Nat /\ g \in Nat /\ h \in Headers
  BY PartAssumptions DEF Radio!RadioAssumption, Extended, OnWire
<1>2. /\ \A q \in 1..l : x[q] = w[q]
      /\ \A q \in 1..Len(x) : l < q /\ q <= l + HeaderLen => x[q] = new
      /\ \A q \in 1..Len(x) : l + HeaderLen < q =>
           x[q] = Radio!Sample(s + (q - l - HeaderLen) - 1)
  BY DEF Extended
<1>3. new \in Headers /\ new.size = HeaderLen + len /\ new.ts = s /\ new \notin Samples
  BY <1>1 DEF Headers, Samples, Radio!Header
<1>4. ASSUME NEW q \in 1..Len(x), l + HeaderLen < q
      PROVE  x[q] \in Samples /\ x[q] \notin Headers
  <2>1. s + (q - l - HeaderLen) - 1 \in Nat
    BY <1>1, <1>4
  <2>2. x[q] = Radio!Sample(s + (q - l - HeaderLen) - 1)
    BY <1>2, <1>4
  <2> QED
    BY <2>1, <2>2 DEF Samples, Headers, Radio!Sample
<1> HIDE DEF l, new
<1>5. g > 0 => g < h.size /\ IsSegment(1 - g, h, x, s + len)
  <2> SUFFICES ASSUME g > 0 PROVE g < h.size /\ IsSegment(1 - g, h, x, s + len)
    OBVIOUS
  <2>1. g < h.size /\ IsSegment(1 - g, h, w, s) /\ h.size \in Nat
    BY DEF OnWire, IsSegment, Headers
  <2>2. 1 - g \in Int /\ (1 - g) + h.size >= 1
    BY <1>1, <2>1
  <2> QED
    BY <1>1, <2>1, <2>2, SegmentStays
<1>6. IsSegment(l + 1, new, x, s + len)
  <2>1. (l + 1) + new.size - 1 = Len(x)
    BY <1>1, <1>3
  <2>2. s + len = new.ts + (new.size - HeaderLen) /\ new.size > HeaderLen
    BY <1>1, <1>3
  <2>3. \A q \in 1..Len(x) : l + 1 <= q /\ q < (l + 1) + HeaderLen => x[q] = new
    <3> SUFFICES ASSUME NEW q \in 1..Len(x), l + 1 <= q, q < (l + 1) + HeaderLen
                 PROVE  x[q] = new
      OBVIOUS
    <3>1. l < q /\ q <= l + HeaderLen
      BY <1>1
    <3> QED
      BY <1>2, <3>1
  <2>4. \A q \in 1..Len(x) : (l + 1) + HeaderLen <= q /\ q < (l + 1) + new.size =>
          x[q] = Radio!Sample(new.ts + (q - (l + 1) - HeaderLen))
    <3> SUFFICES ASSUME NEW q \in 1..Len(x), (l + 1) + HeaderLen <= q
                 PROVE  x[q] = Radio!Sample(new.ts + (q - (l + 1) - HeaderLen))
      OBVIOUS
    <3>1. l + HeaderLen < q
          /\ s + (q - l - HeaderLen) - 1 = new.ts + (q - (l + 1) - HeaderLen)
      BY <1>1, <1>3
    <3> QED
      BY <1>2, <3>1
  <2>5. (l + 1) + new.size - 1 <= Len(x)
    BY <1>1, <2>1
  <2> QED
    BY <1>3, <2>1, <2>2, <2>3, <2>4, <2>5 DEF IsSegment
<1>7. ASSUME NEW p \in 1..Len(x), IsStart(p, x, g)
      PROVE  IsSegment(p, x[p], x, s + len)
  <2>1. CASE p <= l
    <3>1. p \in 1..l /\ x[p] = w[p]
      BY <1>1, <1>2, <2>1
    <3>2. p # 1 => w[p - 1] \in Samples
      <4> SUFFICES ASSUME p # 1 PROVE w[p - 1] \in Samples
        OBVIOUS
      <4>1. p - 1 \in 1..l
        BY <1>1, <3>1
      <4>2. x[p - 1] = w[p - 1] /\ x[p - 1] \in Samples
        BY <1>2, <1>7, <4>1 DEF IsStart
      <4> QED
        BY <4>2
    <3>3. IsStart(p, w, g)
      BY <1>7, <3>1, <3>2 DEF IsStart, l
    <3>4. IsSegment(p, w[p], w, s)
      BY <3>1, <3>3 DEF OnWire, l
    <3>5. p \in Int /\ p + w[p].size >= 1
      BY <3>1, <3>4 DEF IsSegment, Headers
    <3> QED
      BY <1>1, <3>1, <3>4, <3>5, SegmentStays
  <2>2. CASE p = l + 1
    <3>1. x[p] = new
      <4>1. p \in 1..Len(x) /\ l < p /\ p <= l + HeaderLen
        BY <1>1, <2>2
      <4> QED
        BY <1>2, <4>1
    <3> QED
      BY <1>6, <2>2, <3>1
  <2>3. CASE l + 1 < p
    <3>1. p <= l + HeaderLen
      BY <1>1, <1>4, <1>7 DEF IsStart
    <3>2. p - 1 \in 1..Len(x) /\ l < p - 1 /\ p - 1 <= l + HeaderLen /\ p # 1
      BY <1>1, <2>3, <3>1
    <3>3. x[p - 1] \notin Samples
      BY <1>2, <1>3, <3>2
    <3> QED
      BY <1>7, <3>2, <3>3 DEF IsStart
  <2> QED
    BY <1>1, <2>1, <2>2, <2>3
<1>8. x[Len(x)] \in Samples
  <2>1. Len(x) \in 1..Len(x) /\ l + HeaderLen < Len(x)
    BY <1>1
  <2> QED
    BY <1>4, <2>1
<1>9. CASE l = 0
  <2>1. x[1] = new
    BY <1>1, <1>2, <1>9
  <2>2. Len(x) # 0 /\ ~(Len(w) # 0)
    BY <1>1, <1>9 DEF l
  <2> QED
    BY <1>1, <1>3, <1>5, <1>7, <1>8, <2>1, <2>2 DEF OnWire, Coming
<1>10. CASE l # 0
  <2>1. x[1] = w[1] /\ Len(x) # 0 /\ Len(w) > 0 /\ Len(w) # 0
    BY <1>1, <1>2, <1>10 DEF l
  <2>2. g = 0 => x[1] \in Headers
    BY <2>1 DEF OnWire
  <2> QED
    BY <1>1, <1>5, <1>7, <1>8, <2>1, <2>2 DEF OnWire, Coming
<1> QED
  BY <1>9, <1>10

-----------------------------------------------------------------------------
\* The next sample has a number.
LEMMA ComingIsNat ==
    ASSUME NEW g, NEW h, NEW w, NEW s, OnWire(g, h, w, s)
    PROVE  Coming(g, h, w, s) \in Nat
<1>1. /\ g \in Nat /\ s \in Nat /\ h \in Headers /\ h.ts \in Nat /\ Len(w) \in Nat
      /\ HeaderLen \in Nat /\ (Len(w) > 0 /\ g = 0 => w[1] \in Headers)
  BY PartAssumptions DEF OnWire, Headers, Radio!RadioAssumption
<1>2. Len(w) > 0 /\ g = 0 => w[1].ts \in Nat
  BY <1>1 DEF Headers
<1> QED
  BY <1>1, <1>2 DEF Coming

\* The lesser of two numbers is at most each.
LEMMA LeastFacts ==
    ASSUME NEW a \in Int, NEW b \in Int
    PROVE  Radio!Least(a, b) \in Int /\ Radio!Least(a, b) <= a /\ Radio!Least(a, b) <= b
  BY DEF Radio!Least

\* Nothing has been sent.
LEMMA RadioInit ==
    ASSUME Radio!Init
    PROVE  RadioInv
<1>1. /\ sent = 0 /\ wire = <<>> /\ segi = 0 /\ header = Radio!Header(0, 0)
      /\ bytesAvail = 0 /\ buf = <<>> /\ stampSum = 0 /\ numTSest = 0
      /\ radioPc = "idle" /\ radioGot = <<>> /\ odd = FALSE
  BY DEF Radio!Init
<1>2. HeaderLen \in Nat \ {0} /\ MaxSamples \in Nat
  BY PartAssumptions DEF Radio!RadioAssumption
<1>3. header \in Headers
  BY <1>1 DEF Headers, Radio!Header
<1>4. Len(wire) = 0 /\ wire \in Seq(Bytes) /\ 1..Len(wire) = {}
  BY <1>1
<1>5. OnWire(segi, header, wire, sent)
  BY <1>1, <1>3, <1>4 DEF OnWire
<1>6. nextSample = 0
  BY <1>1, <1>4 DEF nextSample, Coming
<1>7. Radio!TypeOK
  <2>1. ~(segi >= HeaderLen) /\ segi \in Nat /\ sent \in 0..MaxSamples
    BY <1>1, <1>2
  <2>2. bytesAvail \in 0..Len(wire) /\ numTSest \in Nat /\ stampSum \in Int
    BY <1>1, <1>4
  <2> QED
    BY <1>1, <2>1, <2>2 DEF Radio!TypeOK
<1>8. BufHolds
  BY <1>1 DEF BufHolds
<1>9. Returned
  <2>1. radioGot \in Seq(Samples) /\ Len(radioGot) = 0 /\ 1..Len(radioGot) = {}
    BY <1>1
  <2> QED
    BY <1>1, <1>6, <2>1 DEF Returned
<1>10. Estimated
  BY <1>1 DEF Estimated
<1> QED
  BY <1>1, <1>5, <1>7, <1>8, <1>9, <1>10 DEF RadioInv

\* A segment is sent while another may be half read.
LEMMA SendKeeps ==
    ASSUME RadioInv, NEW len \in DataLens, Radio!Send(len)
    PROVE  RadioInv'
<1>1. /\ sent + len <= MaxSamples /\ sent' = sent + len
      /\ wire' = wire \o [q \in 1..HeaderLen |-> Radio!Header(HeaderLen + len, sent)]
                      \o [q \in 1..len |-> Radio!Sample(sent + q - 1)]
      /\ UNCHANGED <<segi, header, bytesAvail, buf, stampSum, numTSest, radioPc,
                     radioGot, odd>>
  BY DEF Radio!Send
<1>2. /\ HeaderLen \in Nat \ {0} /\ MaxSamples \in Nat /\ len \in Nat \ {0}
      /\ OnWire(segi, header, wire, sent) /\ wire \in Seq(Bytes) /\ sent \in Nat
  BY PartAssumptions DEF Radio!RadioAssumption, RadioInv, OnWire
<1>3. Extended(wire', wire, sent, len)
  BY <1>1, <1>2, SentFacts
<1>4. OnWire(segi, header, wire', sent + len)
      /\ Coming(segi, header, wire', sent + len) = Coming(segi, header, wire, sent)
  BY <1>2, <1>3, WireExtended
<1>5. OnWire(segi, header, wire, sent)' /\ nextSample' = nextSample
  BY <1>1, <1>4 DEF nextSample
<1>6. Radio!TypeOK'
  <2>1. Len(wire') = Len(wire) + HeaderLen + len
    BY <1>3 DEF Extended
  <2> QED
    BY <1>1, <1>2, <2>1 DEF RadioInv, Radio!TypeOK
<1>7. (radioPc = "idle" => bytesAvail = 0)' /\ BufHolds' /\ Returned' /\ Estimated'
  BY <1>1, <1>5 DEF RadioInv, BufHolds, Returned, Estimated
<1> QED
  BY <1>5, <1>6, <1>7 DEF RadioInv

\* A call begins: it has copied nothing, and knows the time if it is within a segment.
LEMMA HandleEventsKeeps ==
    ASSUME RadioInv, NEW n \in 1..Len(wire), Radio!HandleEvents(n)
    PROVE  RadioInv'
<1>1. /\ radioPc = "idle" /\ radioPc' = "loop" /\ bytesAvail' = n /\ buf' = <<>>
      /\ IF segi >= HeaderLen
         THEN stampSum' = header.ts + (segi - HeaderLen) /\ numTSest' = 1
         ELSE stampSum' = 0 /\ numTSest' = 0
      /\ UNCHANGED <<sent, wire, segi, header, radioGot, odd>>
  BY DEF Radio!HandleEvents
<1>2. /\ HeaderLen \in Nat \ {0} /\ OnWire(segi, header, wire, sent) /\ segi \in Nat
      /\ header \in Headers /\ header.ts \in Nat /\ Len(wire) \in Nat
  BY PartAssumptions DEF Radio!RadioAssumption, RadioInv, OnWire, Headers
<1>3. OnWire(segi, header, wire, sent)' /\ nextSample' = nextSample
  BY <1>1, <1>2 DEF nextSample
<1>4. nextSample \in Nat
  BY <1>2, ComingIsNat DEF nextSample
<1>5. Len(buf') = 0 /\ buf' \in Seq(Samples) /\ 1..Len(buf') = {}
  BY <1>1
<1>6. Radio!TypeOK'
  BY <1>1, <1>2 DEF RadioInv, Radio!TypeOK
<1>7. BufHolds'
  BY <1>3, <1>4, <1>5 DEF BufHolds
<1>8. Returned'
  BY <1>1, <1>3, <1>4, <1>5 DEF RadioInv, Returned
<1>9. Estimated'
  <2>1. CASE segi >= HeaderLen
    <3>1. nextSample = header.ts + (segi - HeaderLen)
      BY <1>2, <2>1 DEF nextSample, Coming
    <3>2. stampSum' = 1 * (nextSample - 0) /\ numTSest' = 1
      BY <1>1, <1>4, <2>1, <3>1
    <3> QED
      BY <1>1, <1>3, <1>5, <3>2 DEF Estimated
  <2>2. CASE ~(segi >= HeaderLen)
    <3>1. stampSum' = 0 * (nextSample - 0) /\ numTSest' = 0
      BY <1>1, <1>4, <2>2
    <3> QED
      BY <1>1, <1>3, <1>5, <2>2, <3>1 DEF Estimated
  <2> QED
    BY <2>1, <2>2
<1>10. (radioPc = "idle" => bytesAvail = 0)'
  BY <1>1
<1> QED
  BY <1>3, <1>6, <1>7, <1>8, <1>9, <1>10 DEF RadioInv

\* A whole header, or a part of one.
LEMMA ReadHeaderKeeps ==
    ASSUME RadioInv, Radio!ReadHeader
    PROVE  RadioInv'
<1> DEFINE n == Radio!hdrBytes
<1>1. /\ radioPc = "loop" /\ n > 0 /\ wire' = SubSeq(wire, n + 1, Len(wire))
      /\ bytesAvail' = bytesAvail - n /\ segi' = segi + n /\ header' = wire[n]
      /\ IF segi' = HeaderLen
         THEN /\ stampSum' = stampSum + header'.ts - Len(buf)
              /\ numTSest' = numTSest + 1
         ELSE UNCHANGED <<stampSum, numTSest>>
      /\ UNCHANGED <<sent, buf, radioPc, radioGot, odd>>
  BY DEF Radio!ReadHeader, Radio!Recv
<1>2. /\ HeaderLen \in Nat \ {0} /\ MaxSamples \in Nat
      /\ OnWire(segi, header, wire, sent) /\ segi \in Nat /\ Len(wire) \in Nat
      /\ bytesAvail \in 0..Len(wire) /\ numTSest \in Nat /\ stampSum \in Int
      /\ wire \in Seq(Bytes) /\ buf \in Seq(Samples) /\ Len(buf) \in Nat
  BY PartAssumptions DEF Radio!RadioAssumption, RadioInv, OnWire, Radio!TypeOK, BufHolds
<1>3. n \in 1..Len(wire) /\ n <= HeaderLen - segi /\ n <= bytesAvail /\ n \in 0..Len(wire)
  <2>1. HeaderLen - segi \in Int /\ bytesAvail \in Int /\ bytesAvail <= Len(wire)
    BY <1>2
  <2>2. n \in Int /\ n <= HeaderLen - segi /\ n <= bytesAvail
    BY <2>1, LeastFacts DEF Radio!hdrBytes
  <2>3. n > 0
    BY <1>1
  <2> HIDE DEF n
  <2> QED
    BY <1>2, <2>1, <2>2, <2>3
<1> HIDE DEF n
<1>4. /\ wire[n] \in Headers /\ OnWire(segi + n, wire[n], wire', sent)
      /\ Coming(segi + n, wire[n], wire', sent) = Coming(segi, header, wire, sent)
      /\ Coming(segi, header, wire, sent) = wire[n].ts
  BY <1>1, <1>2, <1>3, HeaderRead
<1>5. OnWire(segi, header, wire, sent)' /\ nextSample' = nextSample
      /\ nextSample = header'.ts /\ nextSample \in Nat
  BY <1>1, <1>2, <1>4, ComingIsNat DEF nextSample
<1>6. Len(wire') = Len(wire) - n
  BY <1>1, <1>2, <1>3, TakenFacts DEF Rest
<1>7. Radio!TypeOK'
  <2>1. segi' < header'.size
    <3>1. segi' > 0
      BY <1>1, <1>2, <1>3
    <3> QED
      BY <1>5, <3>1 DEF OnWire
  <2>2. sent' \in 0..MaxSamples /\ odd' \in BOOLEAN
    BY <1>1 DEF RadioInv, Radio!TypeOK
  <2>3. segi' \in Nat /\ bytesAvail' \in 0..Len(wire')
    BY <1>1, <1>2, <1>3, <1>6
  <2>4. numTSest' \in Nat /\ stampSum' \in Int
    <3>1. header'.ts \in Int /\ Len(buf) \in Int /\ stampSum \in Int /\ numTSest \in Nat
      BY <1>2, <1>5
    <3>2. stampSum + header'.ts - Len(buf) \in Int /\ numTSest + 1 \in Nat
      BY <3>1
    <3> QED
      BY <1>1, <3>1, <3>2, Zenon
  <2> QED
    BY <1>1, <2>1, <2>2, <2>3, <2>4 DEF Radio!TypeOK
<1>8. (radioPc = "idle" => bytesAvail = 0)' /\ BufHolds' /\ Returned'
  BY <1>1, <1>5 DEF RadioInv, BufHolds, Returned
<1>9. Estimated'
  <2> DEFINE x == nextSample - Len(buf)
  <2>1. x \in Int /\ stampSum = numTSest * x /\ (Len(buf) > 0 => numTSest > 0)
    <3>1. stampSum = numTSest * x /\ (Len(buf) > 0 => numTSest > 0)
      BY <1>1, Zenon DEF RadioInv, Estimated
    <3>2. x \in Int
      BY <1>2, <1>5
    <3> QED
      BY <3>1, <3>2, Zenon
  <2>2. x' = x
    BY <1>1, <1>5
  <2>3. CASE segi' = HeaderLen
    <3>1. stampSum' = stampSum + x /\ numTSest' = numTSest + 1
      BY <1>1, <1>2, <1>5, <2>3
    <3> HIDE DEF x
    <3>2. (numTSest + 1) * x = numTSest * x + x
      BY <1>2, <2>1
    <3>3. stampSum' = numTSest' * x' /\ numTSest' > 0
      BY <1>2, <2>1, <2>2, <3>1, <3>2
    <3> QED
      BY <3>3 DEF Estimated, x
  <2>4. CASE segi' # HeaderLen
    <3>1. ~(segi' >= HeaderLen) /\ numTSest' = numTSest /\ stampSum' = stampSum
      BY <1>1, <1>2, <1>3, <2>4
    <3>2. stampSum' = numTSest' * x'
      BY <2>1, <2>2, <3>1
    <3> QED
      BY <1>1, <2>1, <3>1, <3>2 DEF Estimated
  <2> QED
    BY <2>3, <2>4
<1> QED
  BY <1>5, <1>7, <1>8, <1>9 DEF RadioInv

\* A sequence that goes on with another.
LEMMA JoinedFacts ==
    ASSUME NEW T, NEW b \in Seq(T), NEW d \in Seq(T)
    PROVE  /\ b \o d \in Seq(T) /\ Len(b \o d) = Len(b) + Len(d)
           /\ \A q \in 1..(Len(b) + Len(d)) :
                (b \o d)[q] = IF q <= Len(b) THEN b[q] ELSE d[q - Len(b)]
  OBVIOUS

\* The samples of a segment, or some of them.
LEMMA ReadDataKeeps ==
    ASSUME RadioInv, Radio!ReadData
    PROVE  RadioInv'
<1> DEFINE n == Radio!dataBytes
           D == SubSeq(wire, 1, n)
<1>1. /\ radioPc = "loop" /\ n > 0 /\ bytesAvail > 0 /\ Radio!hdrBytes <= 0
      /\ wire' = SubSeq(wire, n + 1, Len(wire)) /\ bytesAvail' = bytesAvail - n
      /\ segi' = IF segi + n = header.size THEN 0 ELSE segi + n
      /\ buf' = buf \o D
      /\ UNCHANGED <<sent, header, stampSum, numTSest, radioPc, radioGot, odd>>
  BY DEF Radio!ReadData, Radio!Recv
<1>2. /\ HeaderLen \in Nat \ {0} /\ MaxSamples \in Nat
      /\ OnWire(segi, header, wire, sent) /\ segi \in Nat /\ Len(wire) \in Nat
      /\ bytesAvail \in 0..Len(wire) /\ numTSest \in Nat /\ stampSum \in Int
      /\ wire \in Seq(Bytes) /\ buf \in Seq(Samples) /\ Len(buf) \in Nat
      /\ header.size \in Nat
  BY PartAssumptions
     DEF Radio!RadioAssumption, RadioInv, OnWire, Radio!TypeOK, BufHolds, Headers
<1>3. segi >= HeaderLen
  <2>1. Radio!hdrBytes <= 0 /\ bytesAvail > 0
    BY <1>1
  <2>2. HeaderLen - segi \in Int /\ bytesAvail \in Int
    BY <1>2
  <2>3. HeaderLen - segi <= 0
    BY <2>1, <2>2 DEF Radio!hdrBytes, Radio!Least
  <2> QED
    BY <1>2, <2>3
<1>4. n \in 1..Len(wire) /\ n <= header.size - segi /\ n <= bytesAvail /\ n \in 0..Len(wire)
  <2>1. header.size - segi \in Int /\ bytesAvail \in Int /\ bytesAvail <= Len(wire)
    BY <1>2
  <2>2. n \in Int /\ n <= header.size - segi /\ n <= bytesAvail
    BY <2>1, LeastFacts DEF Radio!dataBytes
  <2>3. n > 0
    BY <1>1
  <2> HIDE DEF n
  <2> QED
    BY <1>2, <2>1, <2>2, <2>3
<1> HIDE DEF n
<1>5. /\ OnWire(segi', header, wire', sent)
      /\ nextSample \in Nat
      /\ Coming(segi', header, wire', sent) = nextSample + n
      /\ \A q \in 1..n : wire[q] = Radio!Sample(nextSample + q - 1)
  <2> DEFINE v == SubSeq(wire, n + 1, Len(wire))
             g2 == IF segi + n = header.size THEN 0 ELSE segi + n
  <2>1. /\ OnWire(g2, header, v, sent)
        /\ Coming(segi, header, wire, sent) \in Nat
        /\ Coming(g2, header, v, sent) = Coming(segi, header, wire, sent) + n
        /\ \A q \in 1..n : wire[q] = Radio!Sample(Coming(segi, header, wire, sent) + q - 1)
    BY <1>2, <1>3, <1>4, DataRead
  <2>2. wire' = v /\ segi' = g2
    BY <1>1
  <2> HIDE DEF v, g2
  <2> QED
    BY <2>1, <2>2 DEF nextSample
<1>6. OnWire(segi, header, wire, sent)' /\ nextSample' = nextSample + n
  BY <1>1, <1>5 DEF nextSample
<1>7. Len(wire') = Len(wire) - n
  BY <1>1, <1>2, <1>4, TakenFacts DEF Rest
<1>8. D \in Seq(Samples) /\ Len(D) = n
      /\ \A q \in 1..n : D[q] = Radio!Sample(nextSample + q - 1)
  <2>1. \A q \in 1..n : wire[q] \in Samples
    <3> SUFFICES ASSUME NEW q \in 1..n PROVE wire[q] \in Samples
      OBVIOUS
    <3> DEFINE k == nextSample + q - 1
    <3>1. k \in Nat
      BY <1>4, <1>5
    <3>2. wire[q] = Radio!Sample(k)
      BY <1>5
    <3> HIDE DEF k
    <3> QED
      BY <3>1, <3>2 DEF Samples, Radio!Sample
  <2>2. /\ D \in Seq(Samples)
        /\ Len(D) = IF 1 <= n THEN n - 1 + 1 ELSE 0
        /\ \A q \in 1..(n - 1 + 1) : D[q] = wire[1 + q - 1]
    <3>1. 1 \in Int /\ n \in Int
      BY <1>4
    <3> QED
      BY <2>1, <3>1, SubSeqProperties
  <2>3. Len(D) = n /\ n - 1 + 1 = n
    BY <1>4, <2>2
  <2>4. \A q \in 1..n : D[q] = wire[q]
    <3> SUFFICES ASSUME NEW q \in 1..n PROVE D[q] = wire[q]
      OBVIOUS
    <3>1. 1 + q - 1 = q /\ q \in 1..(n - 1 + 1)
      BY <1>4
    <3> QED
      BY <2>2, <3>1
  <2> QED
    BY <1>5, <2>2, <2>3, <2>4
<1> HIDE DEF D
<1>9. /\ buf' \in Seq(Samples) /\ Len(buf') = Len(buf) + n
      /\ \A q \in 1..(Len(buf) + n) :
           buf'[q] = IF q <= Len(buf) THEN buf[q] ELSE D[q - Len(buf)]
  <2>1. /\ buf \o D \in Seq(Samples) /\ Len(buf \o D) = Len(buf) + Len(D)
        /\ \A q \in 1..(Len(buf) + Len(D)) :
             (buf \o D)[q] = IF q <= Len(buf) THEN buf[q] ELSE D[q - Len(buf)]
    BY <1>2, <1>8, JoinedFacts, Zenon
  <2> QED
    BY <1>1, <1>8, <2>1
<1>10. Radio!TypeOK'
  <2>1. segi' >= HeaderLen => segi' < header'.size
    <3>1. segi' >= HeaderLen => segi' > 0
      BY <1>1, <1>2, <1>4
    <3> QED
      BY <1>6, <3>1 DEF OnWire
  <2>2. sent' \in 0..MaxSamples /\ odd' \in BOOLEAN
    BY <1>1 DEF RadioInv, Radio!TypeOK
  <2>3. segi' \in Nat /\ bytesAvail' \in 0..Len(wire')
    BY <1>1, <1>2, <1>4, <1>7
  <2>4. numTSest' \in Nat /\ stampSum' \in Int
    BY <1>1, <1>2
  <2> QED
    BY <1>1, <2>1, <2>2, <2>3, <2>4 DEF Radio!TypeOK
<1>11. (radioPc = "idle" => bytesAvail = 0)'
  BY <1>1
<1>12. BufHolds'
  <2>1. Len(buf) <= nextSample
        /\ \A q \in 1..Len(buf) : buf[q] = Radio!Sample(nextSample - Len(buf) + q - 1)
    BY <1>1 DEF RadioInv, BufHolds
  <2>2. Len(buf') <= nextSample'
    BY <1>2, <1>4, <1>5, <1>6, <1>9, <2>1
  <2>3. ASSUME NEW q \in 1..Len(buf')
        PROVE  buf'[q] = Radio!Sample(nextSample' - Len(buf') + q - 1)
    <3>1. nextSample' - Len(buf') + q - 1 = nextSample - Len(buf) + q - 1
      BY <1>2, <1>4, <1>5, <1>6, <1>9
    <3>2. CASE q <= Len(buf)
      <4>1. q \in 1..Len(buf) /\ q \in 1..(Len(buf) + n)
        BY <1>2, <1>4, <3>2
      <4> QED
        BY <1>9, <2>1, <3>1, <3>2, <4>1
    <3>3. CASE ~(q <= Len(buf))
      <4>1. q - Len(buf) \in 1..n /\ q \in 1..(Len(buf) + n)
            /\ nextSample + (q - Len(buf)) - 1 = nextSample - Len(buf) + q - 1
        BY <1>2, <1>4, <1>5, <1>9, <3>3
      <4>2. buf'[q] = D[q - Len(buf)]
        BY <1>9, <3>3, <4>1
      <4>3. D[q - Len(buf)] = Radio!Sample(nextSample + (q - Len(buf)) - 1)
        BY <1>8, <4>1
      <4> QED
        BY <3>1, <4>1, <4>2, <4>3
    <3> QED
      BY <3>2, <3>3
  <2> QED
    BY <1>1, <1>9, <2>2, <2>3 DEF BufHolds
<1>13. nextSample' - Len(buf') = nextSample - Len(buf)
  BY <1>2, <1>4, <1>5, <1>6, <1>9
<1>14. Returned'
  BY <1>1, <1>13 DEF RadioInv, Returned
<1>15. Estimated'
  <2>1. stampSum = numTSest * (nextSample - Len(buf)) /\ numTSest > 0
    BY <1>1, <1>3 DEF RadioInv, Estimated
  <2> QED
    BY <1>1, <1>13, <2>1 DEF Estimated
<1> QED
  BY <1>6, <1>10, <1>11, <1>12, <1>14, <1>15 DEF RadioInv

\* A call ends: nothing is dropped unless the number of samples is odd.
LEMMA ReturnKeeps ==
    ASSUME RadioInv, Radio!Return
    PROVE  RadioInv'
<1> DEFINE n == 2 * (Len(buf) \div 2)
           D == SubSeq(buf, 1, n)
<1>1. /\ radioPc = "loop" /\ bytesAvail = 0 /\ radioPc' = "idle"
      /\ radioGot' = radioGot \o D /\ odd' = (odd \/ Len(buf) % 2 = 1)
      /\ UNCHANGED <<sent, wire, segi, header, bytesAvail, buf, stampSum, numTSest>>
  BY DEF Radio!Return
<1>2. /\ OnWire(segi, header, wire, sent) /\ buf \in Seq(Samples) /\ Len(buf) \in Nat
      /\ radioGot \in Seq(Samples) /\ Len(radioGot) \in Nat /\ odd \in BOOLEAN
  BY DEF RadioInv, OnWire, Radio!TypeOK, BufHolds, Returned
<1>3. OnWire(segi, header, wire, sent)' /\ nextSample' = nextSample /\ nextSample \in Nat
  BY <1>1, <1>2, ComingIsNat DEF nextSample
<1>4. n \in 0..Len(buf) /\ (Len(buf) % 2 # 1 => n = Len(buf))
  BY <1>2
<1> HIDE DEF n
<1>5. D \in Seq(Samples) /\ Len(D) = n /\ \A q \in 1..n : D[q] = buf[q]
  <2>1. \A q \in 1..n : buf[q] \in Samples
    BY <1>2, <1>4
  <2>2. /\ D \in Seq(Samples)
        /\ Len(D) = IF 1 <= n THEN n - 1 + 1 ELSE 0
        /\ \A q \in 1..(n - 1 + 1) : D[q] = buf[1 + q - 1]
    <3>1. 1 \in Int /\ n \in Int
      BY <1>2, <1>4
    <3> QED
      BY <2>1, <3>1, SubSeqProperties
  <2>3. Len(D) = n /\ n - 1 + 1 = n
    BY <1>2, <1>4, <2>2
  <2>4. ASSUME NEW q \in 1..n PROVE D[q] = buf[q]
    <3>1. 1 + q - 1 = q /\ q \in 1..(n - 1 + 1)
      BY <1>2, <1>4
    <3> QED
      BY <2>2, <3>1
  <2> QED
    BY <2>2, <2>3, <2>4
<1> HIDE DEF D
<1>6. /\ radioGot' \in Seq(Samples) /\ Len(radioGot') = Len(radioGot) + n
      /\ \A q \in 1..(Len(radioGot) + n) :
           radioGot'[q] = IF q <= Len(radioGot) THEN radioGot[q] ELSE D[q - Len(radioGot)]
  <2>1. /\ radioGot \o D \in Seq(Samples) /\ Len(radioGot \o D) = Len(radioGot) + Len(D)
        /\ \A q \in 1..(Len(radioGot) + Len(D)) :
             (radioGot \o D)[q] =
               IF q <= Len(radioGot) THEN radioGot[q] ELSE D[q - Len(radioGot)]
    BY <1>2, <1>5
  <2> QED
    BY <1>1, <1>5, <2>1
<1>7. Radio!TypeOK'
  BY <1>1 DEF RadioInv, Radio!TypeOK
<1>8. BufHolds' /\ Estimated' /\ (radioPc = "idle" => bytesAvail = 0)'
  BY <1>1, <1>2 DEF BufHolds, Estimated
<1>9. ASSUME ~odd'
      PROVE  /\ \A q \in 1..Len(radioGot') : radioGot'[q] = Radio!Sample(q - 1)
             /\ Len(radioGot') = nextSample
  <2>1. ~odd /\ n = Len(buf)
    BY <1>1, <1>2, <1>4, <1>9
  <2>2. /\ \A q \in 1..Len(radioGot) : radioGot[q] = Radio!Sample(q - 1)
        /\ Len(radioGot) = nextSample - Len(buf)
    BY <1>1, <2>1 DEF RadioInv, Returned
  <2>3. \A q \in 1..Len(buf) : buf[q] = Radio!Sample(nextSample - Len(buf) + q - 1)
    BY <1>1 DEF RadioInv, BufHolds
  <2>4. Len(radioGot') = nextSample
    BY <1>2, <1>3, <1>6, <2>1, <2>2
  <2>5. ASSUME NEW q \in 1..Len(radioGot') PROVE radioGot'[q] = Radio!Sample(q - 1)
    <3>1. CASE q <= Len(radioGot)
      <4>1. q \in 1..Len(radioGot) /\ q \in 1..(Len(radioGot) + n)
        BY <1>2, <1>4, <3>1
      <4> QED
        BY <1>6, <2>2, <3>1, <4>1
    <3>2. CASE ~(q <= Len(radioGot))
      <4>1. q - Len(radioGot) \in 1..n /\ q \in 1..(Len(radioGot) + n)
            /\ nextSample - Len(buf) + (q - Len(radioGot)) - 1 = q - 1
        BY <1>2, <1>3, <1>4, <1>6, <2>2, <3>2
      <4>2. radioGot'[q] = D[q - Len(radioGot)]
        BY <1>6, <3>2, <4>1
      <4>3. D[q - Len(radioGot)] = buf[q - Len(radioGot)]
        BY <1>5, <4>1
      <4> QED
        BY <2>1, <2>3, <4>1, <4>2, <4>3
    <3> QED
      BY <3>1, <3>2
  <2> QED
    BY <2>4, <2>5
<1>10. Returned'
  <2>1. nextSample - 0 = nextSample
    BY <1>3
  <2> QED
    BY <1>1, <1>3, <1>6, <1>9, <2>1 DEF Returned
<1> QED
  BY <1>3, <1>7, <1>8, <1>10 DEF RadioInv

\* The inductive invariant holds for every length of headers and segments, and
\* wherever the reads cut the stream.
THEOREM RadioInvariance == DataSpec => []RadioInv
<1>1. Radio!Init => RadioInv
  BY RadioInit
<1>2. RadioInv /\ [Radio!Next]_(Radio!vars) => RadioInv'
  <2> SUFFICES ASSUME RadioInv, [Radio!Next]_(Radio!vars) PROVE RadioInv'
    OBVIOUS
  <2>1. ASSUME NEW len \in DataLens, Radio!Send(len) PROVE RadioInv'
    BY <2>1, SendKeeps
  <2>2. ASSUME NEW n \in 1..Len(wire), Radio!HandleEvents(n) PROVE RadioInv'
    BY <2>2, HandleEventsKeeps
  <2>3. CASE Radio!ReadHeader
    BY <2>3, ReadHeaderKeeps
  <2>4. CASE Radio!ReadData
    BY <2>4, ReadDataKeeps
  <2>5. CASE Radio!Return
    BY <2>5, ReturnKeeps
  <2>6. CASE UNCHANGED Radio!vars
    BY <2>6 DEF Radio!vars, RadioInv, Radio!TypeOK, OnWire, BufHolds, Returned,
                Estimated, nextSample
  <2> QED
    BY <2>1, <2>2, <2>3, <2>4, <2>5, <2>6 DEF Radio!Next
<1> QED
  BY <1>1, <1>2, PartsAreThemselves, PTL DEF Radio!Spec

\* As long as no call finds an odd number of samples, the radio's are put together as they
\* were sent, without bytes of headers, and the time of the first is estimated right,
\* wherever else the reads cut headers and segments.
THEOREM StreamStaysWhole == DataSpec => []StreamIsWhole
<1>1. RadioInv => StreamIsWhole
  <2> SUFFICES ASSUME RadioInv PROVE StreamIsWhole
    OBVIOUS
  <2>1. OnWire(segi, header, wire, sent) /\ BufHolds /\ Returned /\ Estimated
    BY DEF RadioInv
  <2>2. nextSample \in Nat /\ Len(buf) \in Nat /\ buf \in Seq(Samples)
        /\ radioGot \in Seq(Samples)
    BY <2>1, ComingIsNat DEF nextSample, BufHolds, Returned
  <2>3. Radio!SamplesInOrder
    <3>1. DOMAIN radioGot = 1..Len(radioGot)
      BY <2>2
    <3> QED
      BY <2>1, <3>1 DEF Radio!SamplesInOrder, Returned
  <2>4. Radio!OnlySamples
    <3>1. \A q \in DOMAIN buf : buf[q] \in Samples
      BY <2>2
    <3> QED
      BY <3>1 DEF Radio!OnlySamples, Samples
  <2>5. Radio!StampIsFirst
    <3> SUFFICES ASSUME radioPc = "loop", buf # <<>>
                 PROVE  numTSest > 0 /\ stampSum = numTSest * buf[1].n
      BY DEF Radio!StampIsFirst
    <3>1. Len(buf) > 0 /\ 1 \in 1..Len(buf)
      BY <2>2
    <3>2. buf[1] = Radio!Sample(nextSample - Len(buf) + 1 - 1)
      BY <2>1, <3>1 DEF BufHolds
    <3>3. buf[1].n = nextSample - Len(buf)
      BY <2>2, <3>2 DEF Radio!Sample
    <3> QED
      BY <2>1, <3>1, <3>3 DEF Estimated
  <2> QED
    BY <2>3, <2>4, <2>5 DEF StreamIsWhole, Radio!StreamIsWhole
<1> QED
  BY <1>1, RadioInvariance, PTL

-----------------------------------------------------------------------------
(* Lemmas on numbers *)

\* A set of natural numbers has a least element: induction over numbers is an
\* appeal to the least one that is an exception.
LEMMA LeastExists ==
    ASSUME NEW T, T \subseteq Nat, T # {}
    PROVE  \E m \in T : \A k \in T : m <= k
<1> DEFINE R == OpToRel(<, Nat)
<1>1. IsWellFoundedOn(R, Nat)
  BY NatLessThanWellFounded
<1>2. \E x \in T : \A y \in T : ~(<<y, x>> \in R)
  <2> HIDE DEF R
  <2> QED
    BY <1>1, WFMin, Zenon
<1>3. \A x, y \in Nat : y < x => <<y, x>> \in R
  BY DEF OpToRel
<1> HIDE DEF R
<1>4. PICK x \in T : \A y \in T : ~(<<y, x>> \in R)
  BY <1>2, Zenon
<1>5. \A y \in T : ~(y < x)
  BY <1>3, <1>4, Zenon
<1> QED
  BY <1>5

\* What holds of 0, and of n + 1 when it holds of n, holds of all numbers.
LEMMA AllNumbers ==
    ASSUME NEW P, P \subseteq Nat, 0 \in P, \A n \in P : n + 1 \in P
    PROVE  P = Nat
<1> SUFFICES ASSUME P # Nat PROVE FALSE
  OBVIOUS
<1> DEFINE T == Nat \ P
<1>1. PICK m \in T : \A k \in T : m <= k
  <2>1. T \subseteq Nat /\ T # {}
    OBVIOUS
  <2> HIDE DEF T
  <2> QED
    BY <2>1, LeastExists
<1>2. m # 0 /\ m \in Nat
  OBVIOUS
<1>3. m - 1 \in P
  BY <1>1, <1>2
<1>4. (m - 1) + 1 = m
  BY <1>2
<1> QED
  BY <1>1, <1>3, <1>4

-----------------------------------------------------------------------------
(* The command-line host *)

\* The greatest of some numbers that have a bound.
LEMMA MaxIsGreatest ==
    ASSUME NEW S, S \subseteq Nat, S # {}, NEW b \in Nat, \A x \in S : x <= b
    PROVE  Batch!Max(S) \in S /\ \A y \in S : Batch!Max(S) >= y
<1> DEFINE T == {b - x : x \in S}
<1>1. T \subseteq Nat /\ T # {}
  <2>1. \A x \in S : b - x \in Nat
    OBVIOUS
  <2> QED
    BY <2>1
<1>2. PICK m \in T : \A k \in T : m <= k
  <2> HIDE DEF T
  <2> QED
    BY <1>1, LeastExists
<1>3. PICK x \in S : m = b - x
  BY <1>2
<1>4. \A y \in S : x >= y
  <2> SUFFICES ASSUME NEW y \in S PROVE x >= y
    OBVIOUS
  <2>1. b - y \in T /\ x \in Nat /\ y \in Nat
    OBVIOUS
  <2> QED
    BY <1>2, <1>3, <2>1
<1> QED
  BY <1>4 DEF Batch!Max

\* The assignments are the pairs that the command line begins with, as many as
\* there are.
LEMMA AssignmentsFacts ==
    ASSUME argv \in Seq(Batch!Token)
    PROVE  /\ Batch!Assignments \in Nat /\ 2 * Batch!Assignments <= Len(argv)
           /\ \A j \in 1..Batch!Assignments :
                argv[2 * j - 1] = "-a" /\ argv[2 * j] = Batch!Assignment
           /\ \A k \in Nat :
                /\ 2 * k <= Len(argv)
                /\ \A j \in 1..k : argv[2 * j - 1] = "-a" /\ argv[2 * j] = Batch!Assignment
                => k <= Batch!Assignments
<1> DEFINE Starts(k) == \A j \in 1..k : argv[2 * j - 1] = "-a" /\ argv[2 * j] = Batch!Assignment
           S == {k \in 0..(Len(argv) \div 2) : Starts(k)}
<1>1. Len(argv) \in Nat /\ Len(argv) \div 2 \in Nat
  OBVIOUS
<1>2. 0 \in S
  BY <1>1
<1>3. Batch!Max(S) \in S /\ \A k \in S : Batch!Max(S) >= k
  <2>1. S \subseteq Nat /\ S # {} /\ \A k \in S : k <= Len(argv) \div 2
    BY <1>1, <1>2
  <2> HIDE DEF S
  <2> QED
    BY <1>1, <2>1, MaxIsGreatest
<1>4. Batch!Assignments = Batch!Max(S)
  BY DEF Batch!Assignments
<1> DEFINE m == Batch!Max(S)
<1>5. m \in 0..(Len(argv) \div 2) /\ Starts(m)
  <2> HIDE DEF m, Starts
  <2> QED
    BY <1>3 DEF m
<1>6. \A k \in Nat : 2 * k <= Len(argv) /\ Starts(k) => k <= m
  <2> SUFFICES ASSUME NEW k \in Nat, 2 * k <= Len(argv), Starts(k)
               PROVE  k <= m
    OBVIOUS
  <2>1. k \in 0..(Len(argv) \div 2)
    BY <1>1
  <2>2. k \in S
    BY <2>1
  <2> HIDE DEF S
  <2>3. m >= k
    BY <1>3, <2>2
  <2> HIDE DEF m
  <2> QED
    BY <2>3, <1>1, <1>5
<1>7. 2 * m <= Len(argv)
  <2> HIDE DEF m
  <2> QED
    BY <1>1, <1>5
<1> QED
  <2> HIDE DEF m, S
  <2> QED
    BY <1>4, <1>5, <1>6, <1>7 DEF m

\* What the arguments are while main takes them apart, what is held at each place of
\* runPlugin, and what has failed there.
BatchInv ==
    /\ Batch!TypeOK
    /\ FileIsCovered /\ EndsCleanly
    /\ batchPc = "main" => Len(argv) <= MaxArgs
    /\ batchPc \in {"main", "open", "output", "load", "initialise"} => i = 0 /\ batchBlocks = 0
    /\ batchPc \in {"main", "open"} => sndfile = "none" /\ out = "none" /\ plugin = "none"
    /\ batchPc = "output" => sndfile = "open" /\ out \in {"none", "wanted"} /\ plugin = "none"
    /\ batchPc = "load" => sndfile = "open" /\ out \in {"none", "open"} /\ plugin = "none"
    /\ batchPc \in {"initialise", "loop", "remaining", "done"} =>
         sndfile = "open" /\ out \in {"none", "open"} /\ plugin = "open"
    /\ batchPc \in {"main", "open", "output", "load", "initialise", "loop"} => failed = "nothing"
    /\ batchPc \in {"remaining", "loop", "initialise"} =>
         failed \in {"nothing", "read"} /\ returnValue = 1
    /\ batchPc = "done" =>
         \/ returnValue = 0 /\ failed \in {"nothing", "read"}
         \/ returnValue = 1 /\ failed = "plugin"

\* What is given to runPlugin is taken from the command line.
LEMMA RequestFacts ==
    ASSUME argv \in Seq(Batch!Token), argv # <<Batch!Listing>>, ~Batch!Misused, ~Batch!Misses
    PROVE  /\ Len(argv) >= 2 /\ Batch!base \in Nat \ {0} /\ Batch!base + 1 <= Len(argv)
           /\ argv[Batch!base] \in Batch!Plugins
           /\ argv[Batch!base + 1] \in Batch!Token
           /\ Batch!useFrames \in BOOLEAN /\ Batch!numbered \in BOOLEAN
           /\ Batch!Rest = <<>> \/ (Len(Batch!Rest) = 2 /\ Batch!Rest[1] = "-o")
           /\ Batch!Rest # <<>> => Batch!Rest[2] \in Batch!Token
<1> DEFINE b == Batch!base
           L == Len(argv)
<1>1. L \in Nat /\ L >= 2
  BY DEF Batch!Misused
<1>2. b \in Nat \ {0}
  BY AssignmentsFacts DEF Batch!base, Batch!AfterAssignments
<1>3. b + 1 <= L
  <2> HIDE DEF b
  <2> QED
    BY <1>1, <1>2 DEF Batch!Misses, b
<1>4. argv[b] \in Batch!Plugins
  BY <1>1 DEF Batch!Misused
<1>5. argv[b + 1] \in Batch!Token
  <2>1. b + 1 \in 1..L
    <3> HIDE DEF b
    <3> QED
      BY <1>1, <1>2, <1>3
  <2> QED
    BY <2>1
<1>6. Batch!Rest = <<>> \/ (Len(Batch!Rest) = 2 /\ Batch!Rest[1] = "-o")
  BY <1>1 DEF Batch!Misused
<1>7. Batch!useFrames \in BOOLEAN /\ Batch!numbered \in BOOLEAN
  BY DEF Batch!useFrames, Batch!numbered
<1>8. Batch!Rest # <<>> => Batch!Rest[2] \in Batch!Token
  <2> SUFFICES ASSUME Len(Batch!Rest) = 2
               PROVE  Batch!Rest[2] \in Batch!Token
    BY <1>6
  <2> DEFINE from == IF Batch!numbered THEN b + 3 ELSE b + 2
  <2>1. from \in 1..(L + 1) \/ from > L + 1
    <3> HIDE DEF b
    <3> QED
      BY <1>1, <1>2
  <2>2. from \in Int /\ L \in Int /\ \A m \in from..L : argv[m] \in Batch!Token
    <3>1. from \in Nat \ {0}
      <4> HIDE DEF b
      <4> QED
        BY <1>1, <1>2
    <3> HIDE DEF from
    <3> QED
      BY <1>1, <3>1
  <2>3. Batch!Rest = SubSeq(argv, from, L)
    BY DEF Batch!Rest
  <2> HIDE DEF from, L
  <2>4. SubSeq(argv, from, L) \in Seq(Batch!Token)
    BY <2>2, SubSeqProperties
  <2> QED
    BY <2>3, <2>4
<1> QED
  BY <1>1, <1>2, <1>3, <1>4, <1>5, <1>6, <1>7, <1>8

\* The program starts with its command line and nothing held.
LEMMA BatchInit ==
    ASSUME Batch!Init
    PROVE  BatchInv
<1>1. PICK n \in 0..MaxArgs : argv \in [1..n -> Batch!Token]
  BY DEF Batch!Init
<1>2. argv \in Seq(Batch!Token) /\ Len(argv) <= MaxArgs
  BY <1>1, PartAssumptions DEF Batch!BatchAssumption
<1>3. Batch!NoRequest \in Batch!Requests(Nat)
  BY DEF Batch!NoRequest, Batch!Requests, Batch!Plugins, Batch!Token, Batch!StandardOutput
<1>4. i = batchBlocks * stepSize
  BY DEF Batch!Init
<1> QED
  BY <1>2, <1>3, <1>4, PartAssumptions
  DEF Batch!Init, BatchInv, Batch!TypeOK, FileIsCovered, Batch!FileIsCovered, EndsCleanly,
      Batch!EndsCleanly, Batch!BatchAssumption

\* The sizes in effect are such that no frame falls between two blocks.
LEMMA SizesFacts ==
    ASSUME NEW b \in Preferred, NEW s \in Preferred, NEW frequency \in BOOLEAN
    PROVE  LET z == Batch!Sizes(b, s, frequency)
           IN  z.block \in Nat /\ z.step \in Nat /\ z.step \in 1..z.block
<1>1. b \in Nat /\ s \in Nat /\ b # 1 /\ s # 1
  BY PartAssumptions DEF Batch!BatchAssumption
<1>2. CASE s = 0 /\ b = 0
  BY <1>1, <1>2 DEF Batch!Sizes, Batch!DefaultBlock
<1>3. CASE s = 0 /\ b # 0
  <2>1. b \div 2 \in Nat /\ b \div 2 >= 1 /\ b \div 2 <= b
    BY <1>1, <1>3
  <2> QED
    BY <1>1, <1>3, <2>1 DEF Batch!Sizes, Batch!DefaultBlock
<1>4. CASE s # 0
  <2> DEFINE blk == IF b = 0 THEN Batch!DefaultBlock ELSE b
  <2>1. blk \in Nat /\ s \in 1..(2 * s) /\ s \in 1..s /\ 2 * s \in Nat
    BY <1>1, <1>4 DEF Batch!DefaultBlock
  <2>2. Batch!Sizes(b, s, frequency) =
          IF s > blk THEN [block |-> IF frequency THEN 2 * s ELSE s, step |-> s]
          ELSE [block |-> blk, step |-> s]
    <3> HIDE DEF blk
    <3> QED
      BY <1>1, <1>4, <2>1 DEF Batch!Sizes, blk
  <2> HIDE DEF blk
  <2>3. CASE s > blk
    BY <1>1, <2>1, <2>2, <2>3
  <2>4. CASE ~(s > blk)
    BY <1>1, <1>4, <2>1, <2>2, <2>4
  <2> QED
    BY <2>3, <2>4
<1> QED
  BY <1>2, <1>3, <1>4

\* The ways out of main.
LEMMA MainKeeps ==
    ASSUME BatchInv, Batch!Exit \/ Batch!CallRunPlugin
    PROVE  BatchInv'
<1>1. CASE Batch!Exit
  BY <1>1 DEF Batch!Exit, Batch!held, Batch!sizes, Batch!fed, BatchInv, Batch!TypeOK,
     FileIsCovered, Batch!FileIsCovered, EndsCleanly, Batch!EndsCleanly
<1>2. CASE Batch!CallRunPlugin
  <2>1. argv \in Seq(Batch!Token) /\ argv # <<Batch!Listing>> /\ ~Batch!Misused /\ ~Batch!Misses
    BY <1>2 DEF Batch!CallRunPlugin, BatchInv, Batch!TypeOK
  <2>2. Batch!Assignments \in Nat
    BY <2>1, AssignmentsFacts
  <2>3. request' \in Batch!Requests(Nat)
    BY <1>2, <2>1, <2>2, RequestFacts DEF Batch!CallRunPlugin, Batch!Requests
  <2>4. argv' \in Seq(Batch!Token)
    BY <1>2 DEF Batch!CallRunPlugin
  <2> QED
    BY <1>2, <2>3, <2>4 DEF Batch!CallRunPlugin, Batch!held, Batch!sizes, Batch!fed, BatchInv,
       Batch!TypeOK, FileIsCovered, Batch!FileIsCovered, EndsCleanly, Batch!EndsCleanly
<1> QED
  BY <1>1, <1>2

\* Input, output and plugin are opened, or one of them fails.
LEMMA OpeningKeeps ==
    ASSUME BatchInv, Batch!OpenInput \/ Batch!OpenOutput \/ Batch!LoadPlugin
    PROVE  BatchInv'
<1> USE DEF BatchInv, Batch!TypeOK, FileIsCovered, Batch!FileIsCovered, EndsCleanly,
            Batch!EndsCleanly, Batch!held, Batch!sizes, Batch!fed, Batch!ReturnEarly
<1>1. CASE Batch!OpenInput
  <2>1. Batch!NoRequest \in Batch!Requests(Nat)
    BY DEF Batch!NoRequest, Batch!Requests, Batch!Plugins, Batch!Token, Batch!StandardOutput
  <2> QED
    BY <1>1, <2>1 DEF Batch!OpenInput
<1>2. CASE Batch!OpenOutput
  BY <1>2 DEF Batch!OpenOutput
<1>3. CASE Batch!LoadPlugin
  <2>1. CASE batchPc' = "exit"
    BY <1>3, <2>1 DEF Batch!LoadPlugin
  <2>2. CASE batchPc' # "exit"
    <3>1. PICK b \in Preferred, s \in Preferred, frequency \in BOOLEAN :
            /\ plugin' = "open"
            /\ blockSize' = Batch!Sizes(b, s, frequency).block
            /\ stepSize' = Batch!Sizes(b, s, frequency).step
            /\ returnValue' = 1
            /\ batchPc' = "initialise"
            /\ UNCHANGED <<argv, request, sndfile, out, frames, Batch!fed, failed>>
      BY <1>3, <2>2 DEF Batch!LoadPlugin
    <3>2. blockSize' \in Nat /\ stepSize' \in Nat /\ stepSize' \in 1..blockSize'
      BY <3>1, SizesFacts
    <3>3. i' = 0 /\ batchBlocks' = 0 /\ i' = batchBlocks' * stepSize'
      BY <1>3, <3>1, <3>2 DEF Batch!LoadPlugin
    <3> QED
      BY <1>3, <3>1, <3>2, <3>3 DEF Batch!LoadPlugin
  <2> QED
    BY <2>1, <2>2
<1> QED
  BY <1>1, <1>2, <1>3

\* An iteration: the only arithmetic that is not linear.
LEMMA BlockKeeps ==
    ASSUME BatchInv, Batch!ProcessBlock
    PROVE  BatchInv'
<1> USE DEF Batch!ProcessBlock, Batch!held, Batch!sizes
<1>1. /\ batchPc = "loop" /\ i < frames /\ i = batchBlocks * stepSize
      /\ batchBlocks \in Nat /\ stepSize \in Nat /\ blockSize \in Nat /\ i \in Nat
  BY DEF BatchInv, Batch!TypeOK, FileIsCovered, Batch!FileIsCovered
<1>2. (batchBlocks + 1) * stepSize = batchBlocks * stepSize + stepSize
  BY <1>1
<1>3. i' = batchBlocks' * stepSize' /\ i' \in Nat /\ batchBlocks' \in Nat
  BY <1>1, <1>2
<1>4. (batchBlocks' - 1) * stepSize' = i
  BY <1>1
<1>5. \A j \in 1..blockSize' :
         batchBlock'[j] = IF i + j - 1 < frames' THEN i + j - 1 ELSE Batch!Silence
  BY DEF Batch!BlockAt
<1>6. FileIsCovered'
  BY <1>1, <1>3, <1>4, <1>5 DEF BatchInv, FileIsCovered, Batch!FileIsCovered
<1> QED
  BY <1>1, <1>3, <1>6 DEF BatchInv, Batch!TypeOK, EndsCleanly, Batch!EndsCleanly

\* The ways out of the loop, and the label done.
LEMMA ClosingKeeps ==
    ASSUME BatchInv,
           \/ Batch!Initialise \/ Batch!ReadFails \/ Batch!LoopEnds \/ Batch!Remaining
           \/ Batch!Done \/ UNCHANGED Batch!vars
    PROVE  BatchInv'
<1> USE DEF BatchInv, Batch!TypeOK, FileIsCovered, Batch!FileIsCovered, EndsCleanly,
            Batch!EndsCleanly, Batch!held, Batch!sizes, Batch!fed
<1>1. CASE Batch!Initialise
  BY <1>1 DEF Batch!Initialise
<1>2. CASE Batch!ReadFails
  BY <1>2 DEF Batch!ReadFails
<1>3. CASE Batch!LoopEnds
  BY <1>3 DEF Batch!LoopEnds
<1>4. CASE Batch!Remaining
  BY <1>4 DEF Batch!Remaining
<1>5. CASE Batch!Done
  BY <1>5 DEF Batch!Done
<1>6. CASE UNCHANGED Batch!vars
  BY <1>6 DEF Batch!vars
<1> QED
  BY <1>1, <1>2, <1>3, <1>4, <1>5, <1>6

\* Every step keeps the invariant.
LEMMA BatchNext ==
    ASSUME BatchInv, [Batch!Next]_(Batch!vars)
    PROVE  BatchInv'
BY MainKeeps, OpeningKeeps, BlockKeeps, ClosingKeeps DEF Batch!Next

\* The entries of two sequences joined.
LEMMA Joined ==
    ASSUME NEW T, NEW s \in Seq(T), NEW t \in Seq(T)
    PROVE  /\ s \o t \in Seq(T) /\ Len(s \o t) = Len(s) + Len(t)
           /\ \A m \in 1..Len(s) : (s \o t)[m] = s[m]
           /\ \A m \in 1..Len(t) : (s \o t)[Len(s) + m] = t[m]
BY ConcatProperties

\* A line of k assignments, with -s, an output number, an output file or without them.
IsLine(line, k, s, n, o, p, infile, outfile) ==
    /\ Len(line) = 2 * k + s + 2 + n + 2 * o
    /\ \A j \in 1..k : line[2 * j - 1] = "-a" /\ line[2 * j] = Batch!Assignment
    /\ s = 1 => line[2 * k + 1] = "-s"
    /\ line[2 * k + s + 1] = p /\ line[2 * k + s + 2] = infile
    /\ n = 1 => line[2 * k + s + 3] = Batch!OutputNo
    /\ o = 1 => line[2 * k + s + n + 3] = "-o" /\ line[2 * k + s + n + 4] = outfile

\* Lengths and entries of a command line that is put together from a request.
LEMMA CommandLineFacts ==
    ASSUME NEW r, NEW k \in Nat, r.params = k, r.frames \in BOOLEAN, r.numbered \in BOOLEAN,
           NEW T, Batch!Token \subseteq T,
           r.plugin \in T, r.infile \in T, r.outfile \in T
    PROVE  /\ Batch!CommandLine(r) \in Seq(T)
           /\ IsLine(Batch!CommandLine(r), r.params,
                     IF r.frames THEN 1 ELSE 0, IF r.numbered THEN 1 ELSE 0,
                     IF r.outfile = Batch!StandardOutput THEN 0 ELSE 1,
                     r.plugin, r.infile, r.outfile)
<1> DEFINE s == IF r.frames THEN 1 ELSE 0
           n == IF r.numbered THEN 1 ELSE 0
           o == IF r.outfile = Batch!StandardOutput THEN 0 ELSE 1
           a1 == [m \in 1..(2 * k) |-> IF m % 2 = 1 THEN "-a" ELSE Batch!Assignment]
           a2 == IF r.frames THEN <<"-s">> ELSE <<>>
           a3 == <<r.plugin, r.infile>>
           a4 == IF r.numbered THEN <<Batch!OutputNo>> ELSE <<>>
           a5 == IF r.outfile = Batch!StandardOutput THEN <<>> ELSE <<"-o", r.outfile>>
<1>0. s \in 0..1 /\ n \in 0..1 /\ o \in 0..1
  OBVIOUS
<1>1. Batch!CommandLine(r) = (((a1 \o a2) \o a3) \o a4) \o a5
  BY DEF Batch!CommandLine
<1>2. a1 \in Seq(T) /\ Len(a1) = 2 * k
      /\ \A m \in 1..(2 * k) : a1[m] = IF m % 2 = 1 THEN "-a" ELSE Batch!Assignment
  <2>1. 2 * k \in Nat
    OBVIOUS
  <2>2. a1 \in [1..(2 * k) -> T]
    BY DEF Batch!Token
  <2> HIDE DEF a1
  <2>3. a1 \in Seq(T)
    BY <2>1, <2>2
  <2> QED
    BY <2>1, <2>2, <2>3 DEF a1
<1>3. a2 \in Seq(T) /\ Len(a2) = s /\ (s = 1 => a2[1] = "-s")
  BY DEF Batch!Token
<1>4. a3 \in Seq(T) /\ Len(a3) = 2 /\ a3[1] = r.plugin /\ a3[2] = r.infile
  OBVIOUS
<1>5. a4 \in Seq(T) /\ Len(a4) = n /\ (n = 1 => a4[1] = Batch!OutputNo)
  BY DEF Batch!Token
<1>6. a5 \in Seq(T) /\ Len(a5) = 2 * o /\ (o = 1 => a5[1] = "-o" /\ a5[2] = r.outfile)
  BY DEF Batch!Token
<1> HIDE DEF a1, a2, a3, a4, a5, s, n, o
<1>7. \A j \in 1..k : a1[2 * j - 1] = "-a" /\ a1[2 * j] = Batch!Assignment
  <2> SUFFICES ASSUME NEW j \in 1..k
               PROVE  a1[2 * j - 1] = "-a" /\ a1[2 * j] = Batch!Assignment
    OBVIOUS
  <2>1. 2 * j - 1 \in 1..(2 * k) /\ 2 * j \in 1..(2 * k)
    OBVIOUS
  <2>2. (2 * j - 1) % 2 = 1 /\ (2 * j) % 2 = 0
    OBVIOUS
  <2> QED
    BY <1>2, <2>1, <2>2
<1> DEFINE c2 == a1 \o a2
           c3 == c2 \o a3
           c4 == c3 \o a4
           c5 == c4 \o a5
<1>8. /\ c2 \in Seq(T) /\ Len(c2) = 2 * k + s
      /\ \A m \in 1..2 * k : c2[m] = a1[m]
      /\ \A m \in 1..s : c2[2 * k + m] = a2[m]
  <2>1. /\ c2 \in Seq(T) /\ Len(c2) = Len(a1) + Len(a2)
        /\ \A m \in 1..Len(a1) : c2[m] = a1[m]
        /\ \A m \in 1..Len(a2) : c2[Len(a1) + m] = a2[m]
    <3>1. a1 \in Seq(T) /\ a2 \in Seq(T)
      BY <1>2, <1>3
    <3> QED
      BY <3>1, Joined
  <2> HIDE DEF c2
  <2> QED
    BY <1>0, <1>2, <1>3, <2>1
<1> HIDE DEF c2
<1>9. /\ c3 \in Seq(T) /\ Len(c3) = 2 * k + s + 2
      /\ \A m \in 1..(2 * k + s) : c3[m] = c2[m]
      /\ \A m \in 1..2 : c3[(2 * k + s) + m] = a3[m]
  <2>1. /\ c3 \in Seq(T) /\ Len(c3) = Len(c2) + Len(a3)
        /\ \A m \in 1..Len(c2) : c3[m] = c2[m]
        /\ \A m \in 1..Len(a3) : c3[Len(c2) + m] = a3[m]
    <3>1. c2 \in Seq(T) /\ a3 \in Seq(T)
      BY <1>8, <1>4
    <3> QED
      BY <3>1, Joined
  <2> HIDE DEF c3
  <2> QED
    BY <1>0, <1>8, <1>4, <2>1
<1> HIDE DEF c3
<1>10. /\ c4 \in Seq(T) /\ Len(c4) = 2 * k + s + 2 + n
       /\ \A m \in 1..(2 * k + s + 2) : c4[m] = c3[m]
       /\ \A m \in 1..n : c4[(2 * k + s + 2) + m] = a4[m]
  <2>1. /\ c4 \in Seq(T) /\ Len(c4) = Len(c3) + Len(a4)
        /\ \A m \in 1..Len(c3) : c4[m] = c3[m]
        /\ \A m \in 1..Len(a4) : c4[Len(c3) + m] = a4[m]
    <3>1. c3 \in Seq(T) /\ a4 \in Seq(T)
      BY <1>9, <1>5
    <3> QED
      BY <3>1, Joined
  <2> HIDE DEF c4
  <2> QED
    BY <1>0, <1>9, <1>5, <2>1
<1> HIDE DEF c4
<1>11. /\ c5 \in Seq(T) /\ Len(c5) = 2 * k + s + 2 + n + 2 * o
       /\ \A m \in 1..(2 * k + s + 2 + n) : c5[m] = c4[m]
       /\ \A m \in 1..(2 * o) : c5[(2 * k + s + 2 + n) + m] = a5[m]
  <2>1. /\ c5 \in Seq(T) /\ Len(c5) = Len(c4) + Len(a5)
        /\ \A m \in 1..Len(c4) : c5[m] = c4[m]
        /\ \A m \in 1..Len(a5) : c5[Len(c4) + m] = a5[m]
    <3>1. c4 \in Seq(T) /\ a5 \in Seq(T)
      BY <1>10, <1>6
    <3> QED
      BY <3>1, Joined
  <2> HIDE DEF c5
  <2> QED
    BY <1>0, <1>10, <1>6, <2>1
<1> HIDE DEF c5
<1>12. \A j \in 1..k : c5[2 * j - 1] = "-a" /\ c5[2 * j] = Batch!Assignment
  <2> SUFFICES ASSUME NEW j \in 1..k
               PROVE  c5[2 * j - 1] = "-a" /\ c5[2 * j] = Batch!Assignment
    OBVIOUS
  <2>1. \A m \in 1..(2 * k) : c5[m] = a1[m]
    BY <1>0, <1>8, <1>9, <1>10, <1>11
  <2>2. 2 * j - 1 \in 1..(2 * k) /\ 2 * j \in 1..(2 * k)
    OBVIOUS
  <2> QED
    BY <1>7, <2>1, <2>2
<1>13. s = 1 => c5[2 * k + 1] = "-s"
  <2> SUFFICES ASSUME s = 1 PROVE c5[2 * k + 1] = "-s"
    OBVIOUS
  <2>1. c2[2 * k + 1] = "-s"
    BY <1>3, <1>8
  <2> QED
    BY <1>0, <1>9, <1>10, <1>11, <2>1
<1>14. c5[2 * k + s + 1] = r.plugin /\ c5[2 * k + s + 2] = r.infile
  <2>1. c3[2 * k + s + 1] = a3[1] /\ c3[2 * k + s + 2] = a3[2]
    BY <1>9
  <2> QED
    BY <1>0, <1>4, <1>10, <1>11, <2>1
<1>15. n = 1 => c5[2 * k + s + 3] = Batch!OutputNo
  <2> SUFFICES ASSUME n = 1 PROVE c5[2 * k + s + 3] = Batch!OutputNo
    OBVIOUS
  <2>1. c4[(2 * k + s + 2) + 1] = a4[1]
    BY <1>10
  <2>2. (2 * k + s + 2) + 1 = 2 * k + s + 3
    BY <1>0
  <2> QED
    BY <1>0, <1>5, <1>11, <2>1, <2>2
<1>16. o = 1 => c5[2 * k + s + n + 3] = "-o" /\ c5[2 * k + s + n + 4] = r.outfile
  <2> SUFFICES ASSUME o = 1
               PROVE  c5[2 * k + s + n + 3] = "-o" /\ c5[2 * k + s + n + 4] = r.outfile
    OBVIOUS
  <2>1. /\ c5[(2 * k + s + 2 + n) + 1] = a5[1]
        /\ c5[(2 * k + s + 2 + n) + 2] = a5[2]
    BY <1>11
  <2>2. /\ (2 * k + s + 2 + n) + 1 = 2 * k + s + n + 3
        /\ (2 * k + s + 2 + n) + 2 = 2 * k + s + n + 4
    BY <1>0
  <2> QED
    BY <1>6, <2>1, <2>2
<1>17. Batch!CommandLine(r) = c5
  BY <1>1 DEF c5, c4, c3, c2
<1>18. IsLine(c5, r.params, s, n, o, r.plugin, r.infile, r.outfile)
  BY <1>11, <1>12, <1>13, <1>14, <1>15, <1>16 DEF IsLine
<1> QED
  BY <1>11, <1>17, <1>18 DEF s, n, o

\* A command line that stands for a request is not refused, and main reads off it
\* what it stands for.
LEMMA MeaningIsRead ==
    ASSUME argv \in Seq(Batch!Token), NEW r \in Batch!Meanings
    PROVE  /\ Len(argv) >= 2 /\ ~Batch!Misses /\ ~Batch!Misused
           /\ r = [params |-> Batch!Assignments, frames |-> Batch!useFrames,
                   plugin |-> argv[Batch!base], infile |-> argv[Batch!base + 1],
                   numbered |-> Batch!numbered,
                   outfile |-> IF Batch!Rest = <<>> THEN Batch!StandardOutput
                               ELSE Batch!Rest[2]]
<1> DEFINE L == Len(argv)
<1>1. L \in Nat /\ \A m \in 1..L : argv[m] \in Batch!Token
  OBVIOUS
<1>2. PICK x \in Batch!Shapes : r = Batch!Reading(x)
  BY DEF Batch!Meanings, Batch!Allowed
<1>3. /\ r.plugin \in Batch!Plugins
      /\ ~(r.plugin = "lib:plugin:output" /\ r.numbered)
      /\ ~(r.frames /\ r.params > 0)
      /\ Batch!CommandLine(r) = argv
  BY DEF Batch!Meanings, Batch!Allowed
<1> DEFINE k == x.params
           s == x.frames
           n == x.numbered
           o == x.redirected
<1>4. /\ k \in Nat /\ s \in 0..1 /\ n \in 0..1 /\ o \in 0..1
      /\ 2 * k + s + 2 + n + 2 * o = L
  BY PartAssumptions DEF Batch!Shapes, Batch!BatchAssumption
<1>5. r = [params |-> k, frames |-> s = 1, plugin |-> argv[2 * k + s + 1],
           infile |-> argv[2 * k + s + 2], numbered |-> n = 1,
           outfile |-> IF o = 1 THEN argv[L] ELSE Batch!StandardOutput]
  BY <1>2 DEF Batch!Reading
<1> HIDE DEF k, s, n, o, L
<1>6. /\ argv[2 * k + s + 1] \in Batch!Token /\ argv[2 * k + s + 2] \in Batch!Token
      /\ argv[L] \in Batch!Token
  <2>1. 2 * k + s + 1 \in 1..L /\ 2 * k + s + 2 \in 1..L /\ L \in 1..L
    BY <1>1, <1>4
  <2> QED
    BY <1>1, <2>1
<1>7. Batch!StandardOutput \notin Batch!Token
  BY DEF Batch!StandardOutput, Batch!Token, Batch!Assignment, Batch!Listing, Batch!OutputNo,
     Batch!Plugins
<1>8. /\ r.params = k /\ r.frames \in BOOLEAN /\ r.numbered \in BOOLEAN
      /\ (r.frames <=> s = 1) /\ (r.numbered <=> n = 1)
      /\ r.plugin = argv[2 * k + s + 1] /\ r.infile = argv[2 * k + s + 2]
      /\ r.outfile = IF o = 1 THEN argv[L] ELSE Batch!StandardOutput
      /\ (r.outfile = Batch!StandardOutput <=> o = 0)
  <2>1. /\ r.params = k /\ r.frames = (s = 1) /\ r.numbered = (n = 1)
        /\ r.plugin = argv[2 * k + s + 1] /\ r.infile = argv[2 * k + s + 2]
        /\ r.outfile = IF o = 1 THEN argv[L] ELSE Batch!StandardOutput
    BY <1>5
  <2>2. /\ r.frames \in BOOLEAN /\ r.numbered \in BOOLEAN
        /\ (r.frames <=> s = 1) /\ (r.numbered <=> n = 1)
    BY <2>1, Zenon
  <2>3. r.outfile = Batch!StandardOutput <=> o = 0
    <3>1. o = 0 \/ o = 1
      BY <1>4
    <3> QED
      BY <1>6, <1>7, <2>1, <3>1
  <2> QED
    BY <2>1, <2>2, <2>3
<1>9. /\ \A j \in 1..k : argv[2 * j - 1] = "-a" /\ argv[2 * j] = Batch!Assignment
      /\ s = 1 => argv[2 * k + 1] = "-s"
      /\ n = 1 => argv[2 * k + s + 3] = Batch!OutputNo
      /\ o = 1 => argv[2 * k + s + n + 3] = "-o"
  <2> DEFINE T == Batch!Token \cup {Batch!StandardOutput}
  <2>1. Batch!Token \subseteq T /\ r.plugin \in T /\ r.infile \in T /\ r.outfile \in T
    BY <1>6, <1>8
  <2>2. (IF r.frames THEN 1 ELSE 0) = s /\ (IF r.numbered THEN 1 ELSE 0) = n
        /\ (IF r.outfile = Batch!StandardOutput THEN 0 ELSE 1) = o
    <3>1. (s = 0 \/ s = 1) /\ (n = 0 \/ n = 1) /\ (o = 0 \/ o = 1)
      BY <1>4
    <3> QED
      BY <1>8, <3>1
  <2>3. r.frames \in BOOLEAN /\ r.numbered \in BOOLEAN
    BY <1>8
  <2> HIDE DEF T
  <2>4. r.params = k /\ k \in Nat
    BY <1>4, <1>8
  <2>5. IsLine(Batch!CommandLine(r), r.params,
               IF r.frames THEN 1 ELSE 0, IF r.numbered THEN 1 ELSE 0,
               IF r.outfile = Batch!StandardOutput THEN 0 ELSE 1,
               r.plugin, r.infile, r.outfile)
    BY <2>1, <2>3, <2>4, CommandLineFacts, Zenon
  <2>6. IsLine(argv, k, s, n, o, r.plugin, r.infile, r.outfile)
    BY <1>3, <2>2, <2>4, <2>5, Zenon
  <2> QED
    BY <2>6 DEF IsLine
<1>10. argv[2 * k + s + 1] \in Batch!Plugins
  BY <1>3, <1>8
<1>11. Batch!Assignments = k
  <2>1. /\ Batch!Assignments \in Nat /\ 2 * Batch!Assignments <= L
        /\ \A j \in 1..Batch!Assignments : argv[2 * j - 1] = "-a"
        /\ k <= Batch!Assignments
    <3>1. 2 * k <= Len(argv)
      BY <1>1, <1>4 DEF L
    <3> QED
      BY <1>4, <1>9, <3>1, AssignmentsFacts DEF L
  <2>2. argv[2 * k + 1] # "-a"
    <3>1. CASE s = 1
      BY <1>9, <3>1
    <3>2. CASE s = 0
      <4>1. 2 * k + s + 1 = 2 * k + 1
        BY <1>4, <3>2
      <4> QED
        BY <1>10, <4>1 DEF Batch!Plugins
    <3> QED
      BY <1>4, <3>1, <3>2
  <2>3. SUFFICES ASSUME Batch!Assignments > k PROVE FALSE
    BY <1>4, <2>1
  <2>4. k + 1 \in 1..Batch!Assignments /\ 2 * (k + 1) - 1 = 2 * k + 1
    BY <1>4, <2>1, <2>3
  <2> QED
    BY <2>1, <2>2, <2>4
<1>12. Batch!useFrames <=> s = 1
  <2>1. Batch!AfterAssignments = 2 * k + 1
    BY <1>11 DEF Batch!AfterAssignments
  <2>2. 2 * k + 1 <= L
    BY <1>1, <1>4
  <2>3. CASE s = 1
    BY <1>9, <2>1, <2>2, <2>3 DEF Batch!useFrames, L
  <2>4. CASE s = 0
    <3>1. 2 * k + s + 1 = 2 * k + 1
      BY <1>4, <2>4
    <3>2. argv[2 * k + 1] # "-s"
      BY <1>10, <3>1 DEF Batch!Plugins
    <3> QED
      BY <2>1, <2>4, <3>2 DEF Batch!useFrames
  <2> QED
    BY <1>4, <2>3, <2>4
<1>13. Batch!base = 2 * k + s + 1
  <2>1. s = 1 => k = 0
    BY <1>3, <1>4, <1>8
  <2> QED
    BY <1>4, <1>11, <1>12, <2>1 DEF Batch!base, Batch!AfterAssignments
<1>14. Batch!numbered <=> n = 1
  <2>1. CASE n = 1
    <3>1. 2 * k + s + 1 + 2 = 2 * k + s + 3 /\ 2 * k + s + 1 + 2 <= L
      BY <1>1, <1>4, <2>1
    <3> QED
      BY <1>9, <1>13, <2>1, <3>1 DEF Batch!numbered, L
  <2>2. CASE n = 0 /\ o = 1
    <3>1. 2 * k + s + 1 + 2 = 2 * k + s + n + 3
      BY <1>4, <2>2
    <3>2. argv[2 * k + s + 1 + 2] # Batch!OutputNo
      BY <1>9, <2>2, <3>1 DEF Batch!OutputNo
    <3> QED
      BY <1>13, <2>2, <3>2 DEF Batch!numbered
  <2>3. CASE n = 0 /\ o = 0
    <3>1. ~(2 * k + s + 1 + 2 <= L)
      BY <1>1, <1>4, <2>3
    <3> QED
      BY <1>13, <2>3, <3>1 DEF Batch!numbered, L
  <2> QED
    BY <1>4, <2>1, <2>2, <2>3
<1>15. /\ o = 0 => Batch!Rest = <<>>
       /\ o = 1 => Len(Batch!Rest) = 2 /\ Batch!Rest[1] = "-o" /\ Batch!Rest[2] = argv[L]
  <2> DEFINE from == 2 * k + s + n + 3
  <2>1. Batch!Rest = SubSeq(argv, from, L)
    <3>1. (IF Batch!numbered THEN Batch!base + 3 ELSE Batch!base + 2) = from
      BY <1>4, <1>13, <1>14
    <3> QED
      BY <3>1, Zenon DEF Batch!Rest, L
  <2>2. from \in Nat \ {0} /\ from - 1 + 2 * o = L
    BY <1>1, <1>4
  <2>3. \A m \in from..L : argv[m] \in Batch!Token
    BY <1>1, <2>2
  <2> HIDE DEF from
  <2>4. /\ SubSeq(argv, from, L) \in Seq(Batch!Token)
        /\ Len(SubSeq(argv, from, L)) = IF from <= L THEN L - from + 1 ELSE 0
        /\ \A m \in 1..(L - from + 1) : SubSeq(argv, from, L)[m] = argv[from + m - 1]
    BY <1>1, <2>2, <2>3, SubSeqProperties
  <2>5. CASE o = 0
    BY <1>1, <2>1, <2>2, <2>4, <2>5
  <2>6. CASE o = 1
    <3>1. Len(SubSeq(argv, from, L)) = 2
      BY <1>1, <2>2, <2>4, <2>6
    <3>2. /\ SubSeq(argv, from, L)[1] = argv[from + 1 - 1]
          /\ SubSeq(argv, from, L)[2] = argv[from + 2 - 1]
      BY <1>1, <2>2, <2>4, <2>6
    <3>3. from + 1 - 1 = from /\ from + 2 - 1 = L
      BY <1>1, <2>2, <2>6
    <3>4. argv[from] = "-o"
      BY <1>9, <2>6 DEF from
    <3> QED
      BY <2>1, <2>6, <3>1, <3>2, <3>3, <3>4
  <2> QED
    BY <1>4, <2>5, <2>6
<1>16. o = 1 => Batch!Rest # <<>>
  <2>1. Len(<<>>) # 2
    OBVIOUS
  <2> QED
    BY <1>15, <2>1, Zenon
<1>17. L >= 2 /\ 2 * k + s + 2 <= L /\ 2 * k + s + 1 + 1 = 2 * k + s + 2
  BY <1>1, <1>4
<1>18. ~Batch!Misses
  BY <1>4, <1>13, <1>17 DEF Batch!Misses, L
<1>19. ~Batch!Misused
  <2>1. ~(Batch!AfterAssignments <= Len(argv) /\ argv[Batch!AfterAssignments] = "-a")
    <3>1. Batch!AfterAssignments = 2 * k + 1
      BY <1>11 DEF Batch!AfterAssignments
    <3>2. CASE s = 1
      BY <1>9, <3>1, <3>2
    <3>3. CASE s = 0
      <4>1. 2 * k + s + 1 = 2 * k + 1
        BY <1>4, <3>3
      <4> QED
        BY <1>10, <3>1, <4>1 DEF Batch!Plugins
    <3> QED
      BY <1>4, <3>2, <3>3
  <2>2. Batch!Rest = <<>> \/ (Len(Batch!Rest) = 2 /\ Batch!Rest[1] = "-o")
    BY <1>4, <1>15
  <2>3. argv[Batch!base] \in Batch!Plugins
        /\ ~(argv[Batch!base] = "lib:plugin:output" /\ Batch!numbered)
    BY <1>3, <1>8, <1>10, <1>13, <1>14
  <2>4. ~(Len(argv) < 2)
    BY <1>1, <1>17 DEF L
  <2> QED
    BY <2>1, <2>2, <2>3, <2>4 DEF Batch!Misused
<1>20. (IF Batch!Rest = <<>> THEN Batch!StandardOutput ELSE Batch!Rest[2])
         = IF o = 1 THEN argv[L] ELSE Batch!StandardOutput
  BY <1>4, <1>15, <1>16
<1>21. Batch!useFrames = (s = 1) /\ Batch!numbered = (n = 1)
  <2>1. Batch!useFrames \in BOOLEAN /\ Batch!numbered \in BOOLEAN
    BY DEF Batch!useFrames, Batch!numbered
  <2> QED
    BY <1>12, <1>14, <2>1, Zenon
<1> QED
  BY <1>5, <1>11, <1>13, <1>17, <1>18, <1>19, <1>20, <1>21 DEF L

\* What main reads off a command line that it does not refuse is what it stands for.
LEMMA ReadIsMeaning ==
    ASSUME argv \in Seq(Batch!Token), Len(argv) <= MaxArgs, argv # <<Batch!Listing>>,
           ~Batch!Misused, ~Batch!Misses
    PROVE  [params |-> Batch!Assignments, frames |-> Batch!useFrames,
            plugin |-> argv[Batch!base], infile |-> argv[Batch!base + 1],
            numbered |-> Batch!numbered,
            outfile |-> IF Batch!Rest = <<>> THEN Batch!StandardOutput ELSE Batch!Rest[2]]
             \in Batch!Meanings
<1> DEFINE L == Len(argv)
           k == Batch!Assignments
           s == IF Batch!useFrames THEN 1 ELSE 0
           n == IF Batch!numbered THEN 1 ELSE 0
           o == IF Batch!Rest = <<>> THEN 0 ELSE 1
           r == [params |-> k, frames |-> Batch!useFrames,
                 plugin |-> argv[Batch!base], infile |-> argv[Batch!base + 1],
                 numbered |-> Batch!numbered,
                 outfile |-> IF Batch!Rest = <<>> THEN Batch!StandardOutput
                             ELSE Batch!Rest[2]]
           from == Batch!base + 2 + n
<1>1. L \in Nat /\ \A m \in 1..L : argv[m] \in Batch!Token
  OBVIOUS
<1>2. /\ L >= 2 /\ Batch!base \in Nat \ {0} /\ Batch!base + 1 <= L
      /\ argv[Batch!base] \in Batch!Plugins
      /\ argv[Batch!base + 1] \in Batch!Token
      /\ Batch!useFrames \in BOOLEAN /\ Batch!numbered \in BOOLEAN
      /\ Batch!Rest = <<>> \/ (Len(Batch!Rest) = 2 /\ Batch!Rest[1] = "-o")
      /\ (Batch!Rest # <<>> => Batch!Rest[2] \in Batch!Token)
  BY RequestFacts
<1>3. /\ k \in Nat /\ 2 * k <= L
      /\ \A j \in 1..k : argv[2 * j - 1] = "-a" /\ argv[2 * j] = Batch!Assignment
  BY AssignmentsFacts
<1>4. s \in 0..1 /\ n \in 0..1 /\ o \in 0..1
  OBVIOUS
<1>5. /\ s = 1 => 2 * k + 1 <= L /\ argv[2 * k + 1] = "-s"
      /\ s = 1 => Batch!base = 2
      /\ s = 0 => Batch!base = 2 * k + 1
  BY DEF Batch!useFrames, Batch!AfterAssignments, Batch!base
<1>6. ~(Batch!useFrames /\ k > 0)
  <2> SUFFICES ASSUME Batch!useFrames, k > 0 PROVE FALSE
    OBVIOUS
  <2>1. argv[2 * 1] = Batch!Assignment
    <3> HIDE DEF k
    <3> QED
      BY <1>3
  <2>2. 2 * 1 = 2 /\ Batch!base = 2
    BY <1>5
  <2> QED
    BY <1>2, <2>1, <2>2 DEF Batch!Assignment, Batch!Plugins
<1>7. s = 1 => k = 0
  <2> HIDE DEF k
  <2> QED
    BY <1>3, <1>6
<1>8. n = 1 => Batch!base + 2 <= L /\ argv[Batch!base + 2] = Batch!OutputNo
  BY DEF Batch!numbered
<1>9. Batch!Rest = SubSeq(argv, from, L)
  <2>1. (IF Batch!numbered THEN Batch!base + 3 ELSE Batch!base + 2) = from
    BY <1>2
  <2> QED
    BY <2>1, Zenon DEF Batch!Rest
<1>10. /\ Batch!useFrames <=> s = 1
       /\ Batch!numbered <=> n = 1
       /\ Batch!Rest = <<>> <=> o = 0
  OBVIOUS
<1>11. r.outfile = (IF o = 1 THEN Batch!Rest[2] ELSE Batch!StandardOutput)
  OBVIOUS
<1>12. /\ r.params = k /\ r.frames = Batch!useFrames /\ r.numbered = Batch!numbered
       /\ r.plugin = argv[Batch!base] /\ r.infile = argv[Batch!base + 1]
  OBVIOUS
<1> DEFINE b == Batch!base
<1>13. b = 2 * k + s + 1
  <2> HIDE DEF k, s
  <2> QED
    BY <1>3, <1>4, <1>5, <1>7
<1>14. /\ b \in Nat \ {0} /\ b + 1 <= L /\ (n = 1 => b + 2 <= L)
       /\ from = b + 2 + n
  <2> HIDE DEF n
  <2> QED
    BY <1>2, <1>8
<1> HIDE DEF r, k, s, n, o, b, from, L
<1>15. /\ L - from + 1 = 2 * o
       /\ o = 1 => argv[from] = "-o" /\ argv[L] = Batch!Rest[2]
  <2>1. from \in Nat \ {0} /\ from <= L + 1
    BY <1>1, <1>4, <1>14
  <2>2. \A m \in from..L : argv[m] \in Batch!Token
    BY <1>1, <2>1
  <2>3. /\ Len(Batch!Rest) = IF from <= L THEN L - from + 1 ELSE 0
        /\ \A m \in 1..(L - from + 1) : Batch!Rest[m] = argv[from + m - 1]
    BY <1>1, <1>9, <2>1, <2>2, SubSeqProperties
  <2>4. CASE o = 0
    BY <1>1, <1>10, <2>1, <2>3, <2>4
  <2>5. CASE o = 1
    <3>1. Len(Batch!Rest) = 2 /\ Batch!Rest[1] = "-o"
      BY <1>2, <1>10, <2>5
    <3>2. L - from + 1 = 2 /\ from + 1 - 1 = from /\ from + 2 - 1 = L
      <4>1. 2 = IF from <= L THEN L - from + 1 ELSE 0
        BY <2>3, <3>1
      <4>2. L \in Nat /\ from \in Nat
        BY <1>1, <2>1
      <4> QED
        BY <4>1, <4>2
    <3>3. Batch!Rest[1] = argv[from + 1 - 1] /\ Batch!Rest[2] = argv[from + 2 - 1]
      BY <2>3, <3>2
    <3> QED
      BY <2>5, <3>1, <3>2, <3>3
  <2> QED
    BY <1>4, <2>4, <2>5
<1>16. L = 2 * k + s + 2 + n + 2 * o
  BY <1>1, <1>3, <1>4, <1>13, <1>14, <1>15
<1>17. IsLine(argv, k, s, n, o, r.plugin, r.infile, r.outfile)
  <2>1. s = 1 => argv[2 * k + 1] = "-s"
    BY <1>5
  <2>2. argv[2 * k + s + 1] = r.plugin /\ argv[2 * k + s + 2] = r.infile
    <3>1. b = 2 * k + s + 1 /\ b + 1 = 2 * k + s + 2
      BY <1>3, <1>4, <1>13
    <3> QED
      BY <1>12, <3>1 DEF b
  <2>3. n = 1 => argv[2 * k + s + 3] = Batch!OutputNo
    <3>1. b + 2 = 2 * k + s + 3
      BY <1>3, <1>4, <1>13
    <3> QED
      BY <1>8, <3>1 DEF b
  <2>4. o = 1 => /\ argv[2 * k + s + n + 3] = "-o"
                 /\ argv[2 * k + s + n + 4] = r.outfile
    <3> SUFFICES ASSUME o = 1
                 PROVE  /\ argv[2 * k + s + n + 3] = "-o"
                        /\ argv[2 * k + s + n + 4] = r.outfile
      OBVIOUS
    <3>1. from = 2 * k + s + n + 3 /\ L = 2 * k + s + n + 4
      BY <1>3, <1>4, <1>13, <1>14, <1>16
    <3> QED
      BY <1>11, <1>15, <3>1
  <2> QED
    BY <1>3, <1>16, <2>1, <2>2, <2>3, <2>4 DEF IsLine, L
<1>18. Batch!StandardOutput \notin Batch!Token
  BY DEF Batch!StandardOutput, Batch!Token, Batch!Assignment, Batch!Listing, Batch!OutputNo,
     Batch!Plugins
<1>19. r.outfile = Batch!StandardOutput <=> o = 0
  BY <1>2, <1>4, <1>10, <1>11, <1>18
<1>20. /\ r.frames \in BOOLEAN /\ r.numbered \in BOOLEAN
       /\ (r.frames <=> s = 1) /\ (r.numbered <=> n = 1)
  BY <1>2, <1>10, <1>12
<1>21. Batch!CommandLine(r) = argv
  <2> DEFINE T == Batch!Token \cup {Batch!StandardOutput}
  <2>1. Batch!Token \subseteq T /\ r.plugin \in T /\ r.infile \in T /\ r.outfile \in T
    BY <1>2, <1>10, <1>11, <1>12, <1>4 DEF Batch!Plugins, Batch!Token
  <2>2. argv \in Seq(T)
    OBVIOUS
  <2> HIDE DEF T
  <2>3. /\ (IF r.frames THEN 1 ELSE 0) = s /\ (IF r.numbered THEN 1 ELSE 0) = n
        /\ (IF r.outfile = Batch!StandardOutput THEN 0 ELSE 1) = o
    <3>1. (s = 0 \/ s = 1) /\ (n = 0 \/ n = 1) /\ (o = 0 \/ o = 1)
      BY <1>4
    <3> QED
      BY <1>19, <1>20, <3>1
  <2>4. /\ Batch!CommandLine(r) \in Seq(T)
        /\ IsLine(Batch!CommandLine(r), r.params,
                  IF r.frames THEN 1 ELSE 0, IF r.numbered THEN 1 ELSE 0,
                  IF r.outfile = Batch!StandardOutput THEN 0 ELSE 1,
                  r.plugin, r.infile, r.outfile)
    BY <1>3, <1>12, <1>20, <2>1, CommandLineFacts, Zenon
  <2>5. IsLine(Batch!CommandLine(r), k, s, n, o, r.plugin, r.infile, r.outfile)
    BY <1>12, <2>3, <2>4, Zenon
  <2> DEFINE line == Batch!CommandLine(r)
  <2> HIDE DEF line
  <2>6. line \in Seq(T) /\ IsLine(line, k, s, n, o, r.plugin, r.infile, r.outfile)
    BY <2>4, <2>5 DEF line
  <2>7. Len(line) = Len(argv)
    BY <1>17, <2>6 DEF IsLine
  <2>8. \A m \in 1..Len(line) : line[m] = argv[m]
    <3> SUFFICES ASSUME NEW m \in 1..L PROVE line[m] = argv[m]
      BY <2>7 DEF L
    <3>1. CASE m <= 2 * k
      <4>1. PICK j \in 1..k : m = 2 * j - 1 \/ m = 2 * j
        <5> DEFINE j0 == (m + 1) \div 2
        <5>1. j0 \in 1..k /\ (m = 2 * j0 - 1 \/ m = 2 * j0)
          BY <1>1, <1>3, <3>1
        <5> QED
          BY <5>1
      <4> QED
        BY <1>17, <2>6, <4>1 DEF IsLine
    <3>2. CASE m = 2 * k + s + 1 \/ m = 2 * k + s + 2
      BY <1>17, <2>6, <3>2 DEF IsLine
    <3>3. CASE s = 1 /\ m = 2 * k + 1
      BY <1>17, <2>6, <3>3 DEF IsLine
    <3>4. CASE n = 1 /\ m = 2 * k + s + 3
      BY <1>17, <2>6, <3>4 DEF IsLine
    <3>5. CASE o = 1 /\ (m = 2 * k + s + n + 3 \/ m = 2 * k + s + n + 4)
      BY <1>17, <2>6, <3>5 DEF IsLine
    <3>6. \/ m <= 2 * k \/ m = 2 * k + s + 1 \/ m = 2 * k + s + 2
          \/ s = 1 /\ m = 2 * k + 1
          \/ n = 1 /\ m = 2 * k + s + 3
          \/ o = 1 /\ (m = 2 * k + s + n + 3 \/ m = 2 * k + s + n + 4)
      <4>1. m \in Nat /\ m <= 2 * k + s + 2 + n + 2 * o
        BY <1>1, <1>16
      <4>2. (s = 0 \/ s = 1) /\ (n = 0 \/ n = 1) /\ (o = 0 \/ o = 1)
        BY <1>4
      <4> QED
        BY <1>3, <4>1, <4>2
    <3> QED
      BY <3>1, <3>2, <3>3, <3>4, <3>5, <3>6
  <2>9. line = argv
    BY <2>2, <2>6, <2>7, <2>8, SeqEqual
  <2> QED
    BY <2>9 DEF line
<1> DEFINE x == [params |-> k, frames |-> s, numbered |-> n, redirected |-> o]
<1>22. x \in Batch!Shapes
  <2>1. k \in 0..MaxArgs
    BY <1>1, <1>3, PartAssumptions DEF Batch!BatchAssumption, L
  <2> QED
    BY <1>4, <1>16, <2>1 DEF Batch!Shapes, L
<1>23. Batch!Reading(x) = r
  <2>1. Batch!Reading(x) =
          [params |-> k, frames |-> s = 1, plugin |-> argv[2 * k + s + 1],
           infile |-> argv[2 * k + s + 2], numbered |-> n = 1,
           outfile |-> IF o = 1 THEN argv[L] ELSE Batch!StandardOutput]
    BY DEF Batch!Reading, L
  <2>2. (s = 1) = Batch!useFrames /\ (n = 1) = Batch!numbered
    BY <1>2, <1>10, Zenon
  <2>3. argv[2 * k + s + 1] = argv[Batch!base] /\ argv[2 * k + s + 2] = argv[Batch!base + 1]
    BY <1>17, <1>12 DEF IsLine
  <2>4. (IF o = 1 THEN argv[L] ELSE Batch!StandardOutput)
          = IF Batch!Rest = <<>> THEN Batch!StandardOutput ELSE Batch!Rest[2]
    BY <1>4, <1>10, <1>15
  <2> QED
    BY <2>1, <2>2, <2>3, <2>4 DEF r
<1>24. /\ r.plugin \in Batch!Plugins
       /\ ~(r.plugin = "lib:plugin:output" /\ r.numbered)
       /\ ~(r.frames /\ r.params > 0)
  <2>1. ~(argv[Batch!base] = "lib:plugin:output" /\ Batch!numbered)
    BY <1>2 DEF Batch!Misused, L
  <2> QED
    BY <1>2, <1>6, <1>12, <2>1
<1>25. r \in Batch!Meanings
  BY <1>21, <1>22, <1>23, <1>24 DEF Batch!Meanings, Batch!Allowed
<1> QED
  BY <1>25 DEF r, k

-----------------------------------------------------------------------------
\* The command-line host keeps its invariant, for every length of a command line, file
\* and block that it may meet.
THEOREM BatchInvariance == DataSpec => []BatchInv
<1>1. BatchInv /\ [Batch!Next]_(Batch!vars) => BatchInv'
  BY BatchNext
<1> QED
  BY BatchInit, <1>1, PartsAreThemselves, PTL DEF Batch!Spec

\* Whatever sizes a plugin prefers and however long the file is, the plugin is given the
\* whole file, block by block, without a frame between two blocks.
THEOREM FileStaysCovered == DataSpec => []FileIsCovered
<1>1. BatchInv => FileIsCovered
  BY DEF BatchInv
<1> QED
  BY <1>1, BatchInvariance, PTL

\* Whatever fails, the host ends with nothing held and a status that tells of it, but for
\* the sound file if the output file cannot be opened, and errors of reading.
THEOREM EndsStayClean == DataSpec => []EndsCleanly
<1>1. BatchInv => EndsCleanly
  BY DEF BatchInv
<1> QED
  BY <1>1, BatchInvariance, PTL

\* For command lines of any length that do not give both -a and -s: runPlugin is called
\* for just those that the usage message allows, with what it says they mean.
THEOREM ArgumentsAlwaysFollowUsage == DataSpec => ArgumentsFollowUsage
<1> DEFINE Follows == batchPc = "main" =>
                        IF batchPc' = "open" THEN Batch!Meanings = {request'}
                        ELSE Batch!Meanings = {}
<1>1. BatchInv /\ [Batch!Next]_(Batch!vars) => [Follows]_(Batch!vars)
  <2> SUFFICES ASSUME BatchInv, Batch!Next, batchPc = "main"
               PROVE  IF batchPc' = "open" THEN Batch!Meanings = {request'}
                      ELSE Batch!Meanings = {}
    OBVIOUS
  <2>1. argv \in Seq(Batch!Token) /\ Len(argv) <= MaxArgs
    BY DEF BatchInv, Batch!TypeOK
  <2>2. Batch!Exit \/ Batch!CallRunPlugin
    BY DEF Batch!Next, Batch!OpenInput, Batch!OpenOutput, Batch!LoadPlugin, Batch!Initialise,
       Batch!ProcessBlock, Batch!ReadFails, Batch!LoopEnds, Batch!Remaining, Batch!Done
  <2>3. CASE Batch!Exit
    <3>1. batchPc' # "open" /\ (argv = <<Batch!Listing>> \/ Batch!Misused \/ Batch!Misses)
      BY <2>3 DEF Batch!Exit
    <3>2. \A r \in Batch!Meanings : Len(argv) >= 2 /\ ~Batch!Misses /\ ~Batch!Misused
      BY <2>1, MeaningIsRead
    <3>3. argv = <<Batch!Listing>> => ~(Len(argv) >= 2)
      OBVIOUS
    <3> QED
      BY <3>1, <3>2, <3>3
  <2>4. CASE Batch!CallRunPlugin
    <3> DEFINE r0 == [params |-> Batch!Assignments, frames |-> Batch!useFrames,
                      plugin |-> argv[Batch!base], infile |-> argv[Batch!base + 1],
                      numbered |-> Batch!numbered,
                      outfile |-> IF Batch!Rest = <<>> THEN Batch!StandardOutput
                                  ELSE Batch!Rest[2]]
    <3>1. batchPc' = "open" /\ request' = r0
          /\ argv # <<Batch!Listing>> /\ ~Batch!Misused /\ ~Batch!Misses
      BY <2>4 DEF Batch!CallRunPlugin
    <3>2. r0 \in Batch!Meanings
      BY <2>1, <3>1, ReadIsMeaning
    <3>3. \A r \in Batch!Meanings : r = r0
      BY <2>1, MeaningIsRead
    <3> HIDE DEF r0
    <3> QED
      BY <3>1, <3>2, <3>3
  <2> QED
    BY <2>2, <2>3, <2>4
<1> QED
  BY <1>1, BatchInvariance, PartsAreThemselves, PTL
  DEF Batch!Spec, ArgumentsFollowUsage, Batch!ArgumentsFollowUsage

-----------------------------------------------------------------------------
(* The data path of a device *)

\* What a delivery may give to a raw listener: the samples of one frame, demodulated
\* or not.
FrameOf(m) == {[c \in 1..numChan |-> <<m, c - 1>>], <<<<m>>>>}
Frame == UNION {FrameOf(m) : m \in Nat}

\* ... and to a plugin of a stereo device: a frame's own samples, if they are not
\* demodulated.
Pair == {p \in Seq(Seq(Nat)) : Len(p) = 2 /\ (Len(p[1]) = 2 => p[1][1] = p[2][1])}

\* The channels count together from the first raw listener on.
Together ==
    /\ rawListeners # {} => counted
    /\ counted /\ downSampleFactor > 1 =>
         /\ \A j \in Device!Channel : downSampleCount[j] = downSampleCount[0]
         /\ downSampleCount[0] <= downSampleFactor

\* How far away the next frame is that is kept.
NextIn(count) == IF downSampleFactor > 1 THEN count[0] ELSE 1

\* Where the next frame is taken, as seen from a listener's last one.
Continues(seq) ==
    Len(seq) > 0 =>
        seq[Len(seq)][1][1] + Device!Spacing + 1 = taken + NextIn(downSampleCount)

DeviceInv ==
    /\ Device!TypeOK
    /\ Together
    /\ deviceGot \in [RawLabel -> Seq(Frame)]
    /\ counted /\ numChan = 2 => fed \in Seq(Pair)
    /\ \A l \in rawListeners :
         Device!Spaced(deviceGot[l], Device!Spacing) /\ Continues(deviceGot[l])

-----------------------------------------------------------------------------
\* Where a sample is, and that no other is there.
LEMMA PlaceFacts ==
    ASSUME NEW m \in 1..2, NEW k \in Nat, NEW j \in 0..(m - 1),
           NEW n \in 0..DevAvail, k < n
    PROVE  /\ m * k + j \in 0..(2 * DevAvail - 1)
           /\ m * k + j < n * m
           /\ (m * k + j) \div m = k /\ (m * k + j) % m = j
<1>1. CASE m = 1
  BY <1>1, PartAssumptions DEF Device!DeviceAssumption
<1>2. CASE m = 2
  BY <1>2, PartAssumptions DEF Device!DeviceAssumption
<1> QED
  BY <1>1, <1>2

\* No two samples are at one place.
LEMMA PlacesDiffer ==
    ASSUME NEW m \in 1..2, NEW k \in Nat, NEW k2 \in Nat,
           NEW j \in 0..(m - 1), NEW j2 \in 0..(m - 1), m * k + j = m * k2 + j2
    PROVE  k = k2 /\ j = j2
<1>1. CASE m = 1
  BY <1>1
<1>2. CASE m = 2
  BY <1>2
<1> QED
  BY <1>1, <1>2

\* The only arithmetic of this section that is not linear.
LEMMA OneMore ==
    ASSUME NEW k \in Int, NEW f \in Int
    PROVE  (k + 1) * f = k * f + f /\ k * f \in Int
  OBVIOUS

LEMMA ProductKeepsOrder ==
    ASSUME NEW k \in Int, NEW m \in Int, NEW f \in Nat, k <= m
    PROVE  k * f <= m * f
  OBVIOUS

\* A quotient is no more than what is divided, and not 0 unless the divisor is more.
LEMMA QuotientFacts ==
    ASSUME NEW a \in Nat \ {0}, NEW b \in 1..a
    PROVE  a \div b \in 1..a
  OBVIOUS

-----------------------------------------------------------------------------
(* Subsampling one channel *)

Buffer == [0..(2 * DevAvail - 1) -> Seq(Nat)]

\* The loop of Subsample: where it starts, and what it does for its q-th frame.
SubStart(b, j) == [buf |-> b, count |-> downSampleCount[j], kept |-> 0]

SubStep(s, j, q) ==
    IF s.count > 1 THEN [s EXCEPT !.count = @ - 1]
    ELSE [buf   |-> [s.buf EXCEPT ![numChan * s.kept + j] =
                                     s.buf[numChan * (q - 1) + j]],
          count |-> downSampleFactor,
          kept  |-> s.kept + 1]

SubRun(b, j, n, f) ==
    f = [q \in 0..n |-> IF q = 0 THEN SubStart(b, j) ELSE SubStep(f[q - 1], j, q)]

\* After q of the frames of b, of which the first to be kept is the c-th.
SubState(s, b, j, c, q) ==
    /\ s \in [buf : Buffer, count : Nat \ {0}, kept : 0..q]
    /\ q + s.count = c + s.kept * downSampleFactor
    /\ c <= downSampleFactor \/ s.kept > 0 => s.count <= downSampleFactor
    /\ \A k \in 0..(s.kept - 1) :
         s.buf[numChan * k + j] = b[numChan * (c - 1 + k * downSampleFactor) + j]
    /\ \A p \in 0..(2 * DevAvail - 1) :
         (\A k \in 0..(s.kept - 1) : p # numChan * k + j) => s.buf[p] = b[p]

\* The loop has a result for any number of frames.
LEMMA SubRunExists ==
    ASSUME NEW b, NEW j, NEW n \in Nat
    PROVE  \E f : SubRun(b, j, n, f)
<1> DEFINE P == {m \in Nat : \E f : SubRun(b, j, m, f)}
<1>1. 0 \in P
  <2> DEFINE f == [q \in 0..0 |-> SubStart(b, j)]
  <2>1. f = [q \in 0..0 |->
               IF q = 0 THEN SubStart(b, j) ELSE SubStep(f[q - 1], j, q)]
    OBVIOUS
  <2>2. SubRun(b, j, 0, f)
    BY <2>1, Zenon DEF SubRun
  <2> QED
    BY <2>2
<1>2. \A m \in P : m + 1 \in P
  <2> SUFFICES ASSUME NEW m \in Nat, NEW f, SubRun(b, j, m, f)
               PROVE  m + 1 \in P
    OBVIOUS
  <2> DEFINE g == [q \in 0..(m + 1) |-> IF q = m + 1 THEN SubStep(f[m], j, q) ELSE f[q]]
  <2>1. \A q \in 0..m : f[q] = IF q = 0 THEN SubStart(b, j) ELSE SubStep(f[q - 1], j, q)
    BY DEF SubRun
  <2>2. \A q \in 1..(m + 1) : g[q - 1] = f[q - 1]
    OBVIOUS
  <2>3. \A q \in 0..(m + 1) :
          g[q] = IF q = 0 THEN SubStart(b, j) ELSE SubStep(g[q - 1], j, q)
    <3> SUFFICES ASSUME NEW q \in 0..(m + 1)
                 PROVE g[q] = IF q = 0 THEN SubStart(b, j) ELSE SubStep(g[q - 1], j, q)
      OBVIOUS
    <3>1. CASE q = 0
      BY <3>1, <2>1
    <3>2. CASE q \in 1..m
      BY <3>2, <2>1, <2>2
    <3>3. CASE q = m + 1
      BY <3>3, <2>2
    <3> QED
      BY <3>1, <3>2, <3>3
  <2>4. g = [q \in 0..(m + 1) |-> g[q]]
    OBVIOUS
  <2> HIDE DEF g
  <2>5. SubRun(b, j, m + 1, g)
    BY <2>3, <2>4 DEF SubRun
  <2> QED
    BY <2>5
<1>3. P \subseteq Nat
  OBVIOUS
<1> HIDE DEF P
<1>4. P = Nat
  BY <1>1, <1>2, <1>3, AllNumbers
<1> QED
  BY <1>4 DEF P

\* Subsample is the last state of the loop.
LEMMA SubsampleRuns ==
    ASSUME NEW b, NEW j, NEW n \in Nat
    PROVE  \E f : SubRun(b, j, n, f) /\ Device!Subsample(b, j, n) = f[n]
<1> DEFINE g == CHOOSE f : f = [q \in 0..n |->
          IF q = 0 THEN [buf |-> b, count |-> downSampleCount[j], kept |-> 0]
          ELSE LET s == f[q - 1] IN
               IF s.count > 1 THEN [s EXCEPT !.count = @ - 1]
               ELSE [buf   |-> [s.buf EXCEPT ![numChan * s.kept + j] =
                                                s.buf[numChan * (q - 1) + j]],
                     count |-> downSampleFactor,
                     kept  |-> s.kept + 1]]
<1>1. Device!Subsample(b, j, n) = g[n]
  BY DEF Device!Subsample
<1>2. g = CHOOSE f : SubRun(b, j, n, f)
  BY Zenon DEF SubRun, SubStart, SubStep
<1> HIDE DEF g
<1>3. SubRun(b, j, n, g)
  BY <1>2, SubRunExists, Zenon
<1> QED
  BY <1>1, <1>3

\* A frame that is not kept, and one that is.
LEMMA SubStepKeeps ==
    ASSUME numChan \in 1..2, downSampleFactor \in Nat \ {0},
           NEW n \in 0..DevAvail, NEW q \in 1..n, NEW b \in Buffer,
           NEW j \in 0..(numChan - 1), NEW c \in Nat \ {0},
           NEW s, SubState(s, b, j, c, q - 1)
    PROVE  SubState(SubStep(s, j, q), b, j, c, q)
<1> DEFINE t == SubStep(s, j, q)
<1>0. /\ DevAvail \in Nat /\ q \in Nat \ {0} /\ q <= DevAvail
      /\ s \in [buf : Buffer, count : Nat \ {0}, kept : 0..(q - 1)]
      /\ s.buf \in Buffer /\ s.count \in Nat \ {0} /\ s.kept \in 0..(q - 1)
      /\ q - 1 + s.count = c + s.kept * downSampleFactor
      /\ s.kept * downSampleFactor \in Int
  BY PartAssumptions, OneMore DEF SubState, Device!DeviceAssumption
<1>1. CASE s.count > 1
  <2>1. /\ t.buf = s.buf /\ t.count = s.count - 1 /\ t.kept = s.kept
        /\ t \in [buf : Buffer, count : Nat \ {0}, kept : 0..q]
    BY <1>0, <1>1 DEF SubStep
  <2> HIDE DEF t
  <2>2. q + t.count = c + t.kept * downSampleFactor
    BY <1>0, <2>1
  <2>3. c <= downSampleFactor \/ t.kept > 0 => t.count <= downSampleFactor
    BY <1>0, <2>1 DEF SubState
  <2>4. SubState(t, b, j, c, q)
    BY <2>1, <2>2, <2>3 DEF SubState
  <2> QED
    BY <2>4 DEF t
<1>2. CASE s.count = 1
  <2> DEFINE x == numChan * s.kept + j
             y == numChan * (q - 1) + j
  <2>1. /\ t.buf = [s.buf EXCEPT ![x] = s.buf[y]]
        /\ t.count = downSampleFactor /\ t.kept = s.kept + 1
        /\ t = [buf |-> t.buf, count |-> t.count, kept |-> t.kept]
    BY <1>0, <1>2 DEF SubStep
  <2>2. x \in 0..(2 * DevAvail - 1) /\ y \in 0..(2 * DevAvail - 1)
    BY <1>0, PlaceFacts
  <2>3. q - 1 = c - 1 + s.kept * downSampleFactor
    BY <1>0, <1>2
  <2>4. \A k \in 0..(s.kept - 1) : y # numChan * k + j /\ x # numChan * k + j
    BY <1>0, PlacesDiffer
  <2>5. s.buf[y] = b[y]
    BY <2>2, <2>4 DEF SubState
  <2>6. y = numChan * (c - 1 + s.kept * downSampleFactor) + j
    BY <2>3
  <2> HIDE DEF t, y
  <2>7. t.buf \in Buffer
    BY <1>0, <2>1, <2>2 DEF Buffer
  <2>8. t \in [buf : Buffer, count : Nat \ {0}, kept : 0..q]
    BY <1>0, <2>1, <2>7
  <2>9. q + t.count = c + t.kept * downSampleFactor
    <3>1. t.kept * downSampleFactor = s.kept * downSampleFactor + downSampleFactor
      BY <1>0, <2>1, OneMore
    <3> QED
      BY <1>0, <1>2, <2>1, <3>1
  <2>10. \A p \in 0..(2 * DevAvail - 1) :
           t.buf[p] = IF p = x THEN s.buf[y] ELSE s.buf[p]
    BY <1>0, <2>1 DEF Buffer
  <2>11. ASSUME NEW k \in 0..(t.kept - 1)
         PROVE  t.buf[numChan * k + j]
                  = b[numChan * (c - 1 + k * downSampleFactor) + j]
    <3>1. numChan * k + j \in 0..(2 * DevAvail - 1)
      BY <1>0, <2>1, PlaceFacts
    <3>2. CASE k = s.kept
      <4>1. t.buf[x] = b[y]
        BY <2>2, <2>10, <2>5
      <4> QED
        BY <4>1, <3>2, <2>6
    <3>3. CASE k \in 0..(s.kept - 1)
      <4>1. t.buf[numChan * k + j] = s.buf[numChan * k + j]
        BY <3>1, <3>3, <2>4, <2>10
      <4> QED
        BY <4>1, <3>3 DEF SubState
    <3> QED
      BY <1>0, <2>1, <3>2, <3>3
  <2>12. ASSUME NEW p \in 0..(2 * DevAvail - 1),
                \A k \in 0..(t.kept - 1) : p # numChan * k + j
         PROVE  t.buf[p] = b[p]
    <3>1. s.kept \in 0..(t.kept - 1) /\ 0..(s.kept - 1) \subseteq 0..(t.kept - 1)
      BY <1>0, <2>1
    <3>2. p # x /\ \A k \in 0..(s.kept - 1) : p # numChan * k + j
      BY <3>1, <2>12
    <3> QED
      BY <3>2, <2>10 DEF SubState
  <2>13. SubState(t, b, j, c, q)
    BY <2>1, <2>8, <2>9, <2>11, <2>12 DEF SubState
  <2> QED
    BY <2>13 DEF t
<1>3. s.count > 1 \/ s.count = 1
  <2>1. s.count \in Nat \ {0}
    BY <1>0
  <2> QED
    BY <2>1
<1> QED
  BY <1>1, <1>2, <1>3, Zenon

\* What the loop leaves.
LEMMA SubsampleKeeps ==
    ASSUME numChan \in 1..2, downSampleFactor \in Nat \ {0},
           NEW n \in 0..DevAvail, NEW b \in Buffer, NEW j \in 0..(numChan - 1),
           downSampleCount[j] \in Nat \ {0}
    PROVE  SubState(Device!Subsample(b, j, n), b, j, downSampleCount[j], n)
<1>0. n \in Nat /\ DevAvail \in Nat
  BY PartAssumptions DEF Device!DeviceAssumption
<1>1. PICK f : SubRun(b, j, n, f) /\ Device!Subsample(b, j, n) = f[n]
  BY <1>0, SubsampleRuns
<1>2. \A q \in 0..n : f[q] = IF q = 0 THEN SubStart(b, j) ELSE SubStep(f[q - 1], j, q)
  BY <1>1 DEF SubRun
<1> DEFINE P == {m \in Nat : m <= n => SubState(f[m], b, j, downSampleCount[j], m)}
<1>3. 0 \in P
  <2>1. f[0] = SubStart(b, j)
    BY <1>0, <1>2
  <2>2. SubState(SubStart(b, j), b, j, downSampleCount[j], 0)
    BY <1>0 DEF SubState, SubStart
  <2> QED
    BY <2>1, <2>2
<1>4. \A m \in P : m + 1 \in P
  <2> SUFFICES ASSUME NEW m \in Nat, m + 1 <= n,
                      SubState(f[m], b, j, downSampleCount[j], m)
               PROVE  SubState(f[m + 1], b, j, downSampleCount[j], m + 1)
    BY <1>0
  <2>1. m + 1 \in 1..n /\ (m + 1) - 1 = m
    BY <1>0
  <2>2. f[m + 1] = SubStep(f[m], j, m + 1)
    BY <1>0, <1>2, <2>1
  <2> QED
    BY <2>1, <2>2, SubStepKeeps
<1>5. P \subseteq Nat
  OBVIOUS
<1> HIDE DEF P
<1>6. P = Nat
  BY <1>3, <1>4, <1>5, AllNumbers
<1>7. n \in P
  BY <1>0, <1>6
<1>8. n <= n
  BY <1>0
<1>9. SubState(f[n], b, j, downSampleCount[j], n)
  BY <1>7, <1>8 DEF P
<1> QED
  BY <1>1, <1>9

-----------------------------------------------------------------------------
(* Subsampling all channels *)

\* The loop of Downsampled, of at most two channels.
NoChannel(n) ==
    [buf |-> Device!Frames(n), count |-> downSampleCount, kept |-> n]

ChannelStep(s, j, n) ==
    LET r == Device!Subsample(s.buf, j - 1, n)
    IN  [r EXCEPT !.count = [s.count EXCEPT ![j - 1] = r.count]]

ChannelRun(n, f) ==
    f = [j \in 0..numChan |->
           IF j = 0 THEN NoChannel(n) ELSE ChannelStep(f[j - 1], j, n)]

OneChannel(n) == ChannelStep(NoChannel(n), 1, n)

TwoChannels(n) == ChannelStep(OneChannel(n), 2, n)

\* What subsampling n frames makes of the buffer and of the counts ...
KeptWell(d, n) ==
    /\ d.buf \in Buffer
    /\ d.count \in [Device!Channel -> Nat \ {0}]
    /\ d.kept \in 0..n

\* ... and if the channels count together: every Spacing-th frame, whole.
CountTogether ==
    downSampleFactor > 1 => \A j \in Device!Channel : downSampleCount[j] = downSampleCount[0]

FirstKept == NextIn(downSampleCount) - 1

KeptTogether(d, n) ==
    /\ downSampleFactor > 1 => \A j \in Device!Channel : d.count[j] = d.count[0]
    /\ \A k \in 0..(d.kept - 1), j \in Device!Channel :
         d.buf[numChan * k + j] = <<taken + FirstKept + k * Device!Spacing, j>>
    /\ (downSampleFactor > 1 => downSampleCount[0] <= downSampleFactor) =>
         /\ downSampleFactor > 1 => d.count[0] <= downSampleFactor
         /\ n + NextIn(d.count) = NextIn(downSampleCount) + d.kept * Device!Spacing

\* The loop has a result.
LEMMA ChannelsRun ==
    ASSUME NEW n, numChan \in 1..2, downSampleFactor > 1
    PROVE  Device!Downsampled(n) = IF numChan = 1 THEN OneChannel(n) ELSE TwoChannels(n)
<1> DEFINE g == CHOOSE f : f = [j \in 0..numChan |->
               IF j = 0
               THEN [buf |-> Device!Frames(n), count |-> downSampleCount, kept |-> n]
               ELSE LET s == f[j - 1]
                        r == Device!Subsample(s.buf, j - 1, n)
                    IN  [r EXCEPT !.count = [s.count EXCEPT ![j - 1] = r.count]]]
           h == [j \in 0..numChan |-> IF j = 0 THEN NoChannel(n)
                                      ELSE IF j = 1 THEN OneChannel(n) ELSE TwoChannels(n)]
<1>1. Device!Downsampled(n) = g[numChan]
  BY Zenon DEF Device!Downsampled
<1>2. g = CHOOSE f : ChannelRun(n, f)
  BY Zenon DEF ChannelRun, NoChannel, ChannelStep
<1> HIDE DEF g
<1>3. ChannelRun(n, h)
  <2>1. \A j \in 0..numChan :
          h[j] = IF j = 0 THEN NoChannel(n) ELSE ChannelStep(h[j - 1], j, n)
    <3> SUFFICES ASSUME NEW j \in 0..numChan
                 PROVE h[j] = IF j = 0 THEN NoChannel(n) ELSE ChannelStep(h[j - 1], j, n)
      OBVIOUS
    <3>1. CASE j = 0
      BY <3>1
    <3>2. CASE j = 1
      <4>1. h[1] = OneChannel(n) /\ h[0] = NoChannel(n)
        BY <3>2
      <4> QED
        BY <3>2, <4>1 DEF OneChannel
    <3>3. CASE j = 2
      <4>1. h[2] = TwoChannels(n) /\ h[1] = OneChannel(n)
        BY <3>3
      <4> QED
        BY <3>3, <4>1 DEF TwoChannels
    <3> QED
      BY <3>1, <3>2, <3>3
  <2>2. h = [j \in 0..numChan |-> h[j]]
    OBVIOUS
  <2> HIDE DEF h
  <2> QED
    BY <2>1, <2>2 DEF ChannelRun
<1>4. ChannelRun(n, g)
  BY <1>2, <1>3, Zenon
<1>5. \A j \in 0..numChan :
        g[j] = IF j = 0 THEN NoChannel(n) ELSE ChannelStep(g[j - 1], j, n)
  BY <1>4 DEF ChannelRun
<1>6. g[0] = NoChannel(n)
  BY <1>5
<1>7. g[1] = OneChannel(n)
  BY <1>5, <1>6 DEF OneChannel
<1>8. CASE numChan = 1
  BY <1>1, <1>7, <1>8
<1>9. CASE numChan = 2
  <2>1. g[2] = TwoChannels(n)
    BY <1>5, <1>7, <1>9 DEF TwoChannels
  <2> QED
    BY <1>1, <1>9, <2>1
<1> QED
  BY <1>8, <1>9

\* The frames as the hardware gives them.
LEMMA FramesFacts ==
    ASSUME NEW n \in 0..DevAvail, numChan \in 1..2, taken \in Nat
    PROVE  /\ Device!Frames(n) \in Buffer
           /\ \A k \in 0..(n - 1), j \in Device!Channel :
                Device!Frames(n)[numChan * k + j] = <<taken + k, j>>
<1>0. DevAvail \in Nat /\ n \in Nat
  BY PartAssumptions DEF Device!DeviceAssumption
<1>1. ASSUME NEW s \in 0..(2 * DevAvail - 1)
      PROVE  (IF s < n * numChan THEN <<taken + s \div numChan, s % numChan>>
              ELSE Device!Stale) \in Seq(Nat)
  <2>1. s \div numChan \in Nat /\ s % numChan \in Nat
    <3>1. CASE numChan = 1
      BY <3>1
    <3>2. CASE numChan = 2
      BY <3>2
    <3> QED
      BY <3>1, <3>2
  <2> QED
    BY <2>1 DEF Device!Stale
<1>2. Device!Frames(n) \in Buffer
  BY <1>1 DEF Device!Frames, Buffer
<1>3. ASSUME NEW k \in 0..(n - 1), NEW j \in Device!Channel
      PROVE  Device!Frames(n)[numChan * k + j] = <<taken + k, j>>
  <2>1. k \in Nat /\ k < n /\ j \in 0..(numChan - 1)
    BY <1>0 DEF Device!Channel
  <2> DEFINE p == numChan * k + j
  <2>2. /\ p \in 0..(2 * DevAvail - 1) /\ p < n * numChan
        /\ p \div numChan = k /\ p % numChan = j
    BY <2>1, PlaceFacts
  <2> HIDE DEF p
  <2>3. Device!Frames(n)[p] = <<taken + k, j>>
    BY <2>2 DEF Device!Frames
  <2> QED
    BY <2>3 DEF p
<1> QED
  BY <1>2, <1>3

\* After n frames, k of them are kept and the next is the a-th from here.
Keeps(n, c, f, a, k) ==
    /\ a \in Nat \ {0} /\ k \in Nat
    /\ n + a = c + k * f /\ (k > 0 => a <= f)

\* Two channels that count together keep as many frames.
LEMMA SameKept ==
    ASSUME NEW n \in Nat, NEW c \in Nat, NEW f \in Nat \ {0}, NEW a1, NEW k1,
           NEW a2, NEW k2, Keeps(n, c, f, a1, k1), Keeps(n, c, f, a2, k2)
    PROVE  k1 = k2 /\ a1 = a2
<1>0. /\ a1 \in Nat \ {0} /\ k1 \in Nat /\ n + a1 = c + k1 * f /\ (k1 > 0 => a1 <= f)
      /\ a2 \in Nat \ {0} /\ k2 \in Nat /\ n + a2 = c + k2 * f /\ (k2 > 0 => a2 <= f)
  BY DEF Keeps
<1>1. ~ k1 < k2
  <2> SUFFICES ASSUME k1 < k2 PROVE FALSE
    OBVIOUS
  <2>1. (k1 + 1) * f <= k2 * f
    BY <1>0, ProductKeepsOrder
  <2>2. k1 * f \in Int /\ k2 * f \in Int /\ (k1 + 1) * f = k1 * f + f
    BY <1>0, OneMore
  <2> QED
    BY <1>0, <2>1, <2>2
<1>2. ~ k2 < k1
  <2> SUFFICES ASSUME k2 < k1 PROVE FALSE
    OBVIOUS
  <2>1. (k2 + 1) * f <= k1 * f
    BY <1>0, ProductKeepsOrder
  <2>2. k1 * f \in Int /\ k2 * f \in Int /\ (k2 + 1) * f = k2 * f + f
    BY <1>0, OneMore
  <2> QED
    BY <1>0, <2>1, <2>2
<1>3. k1 = k2
  BY <1>0, <1>1, <1>2
<1> QED
  BY <1>0, <1>3, OneMore

\* The samples of channel j are in their places, and those that its loop kept are.
Placed(b, j, n) == \A k \in 0..(n - 1) : b[numChan * k + j] = <<taken + k, j>>

PlacedAgain(b, j, c, n) ==
    \A k \in 0..(n - 1) :
      b[numChan * k + j] = <<taken + (c - 1) + k * downSampleFactor, j>>

\* What one channel's loop makes of samples that are in their places.
LEMMA ChannelKept ==
    ASSUME numChan \in 1..2, downSampleFactor \in Nat \ {0}, taken \in Nat,
           NEW n \in 0..DevAvail, NEW b \in Buffer, NEW j \in 0..(numChan - 1),
           NEW c \in Nat \ {0}, NEW r, SubState(r, b, j, c, n),
           Placed(b, j, n)
    PROVE  PlacedAgain(r.buf, j, c, r.kept)
<1>0. DevAvail \in Nat /\ n \in Nat
  BY PartAssumptions DEF Device!DeviceAssumption
<1>1. /\ r.kept \in Nat /\ r.count \in Nat
      /\ n + r.count = c + r.kept * downSampleFactor
      /\ r.kept > 0 => r.count <= downSampleFactor
  BY <1>0 DEF SubState
<1> SUFFICES ASSUME NEW k \in 0..(r.kept - 1)
             PROVE  r.buf[numChan * k + j] = <<taken + (c - 1) + k * downSampleFactor, j>>
  BY DEF PlacedAgain
<1> DEFINE m == c - 1 + k * downSampleFactor
<1>2. (k + 1) * downSampleFactor <= r.kept * downSampleFactor
  BY <1>1, ProductKeepsOrder
<1>3. /\ (k + 1) * downSampleFactor = k * downSampleFactor + downSampleFactor
      /\ k * downSampleFactor \in Int /\ r.kept * downSampleFactor \in Int
  BY <1>1, OneMore
<1>4. 0 <= k * downSampleFactor
  BY <1>1
<1>5. m \in 0..(n - 1)
  BY <1>0, <1>1, <1>2, <1>3, <1>4
<1>6. r.buf[numChan * k + j] = b[numChan * m + j]
  BY DEF SubState
<1>7. taken + m = taken + (c - 1) + k * downSampleFactor
  BY <1>3
<1> HIDE DEF m
<1> QED
  BY <1>5, <1>6, <1>7 DEF Placed

\* One channel's step, from its loop.
LEMMA ChannelStepFacts ==
    ASSUME numChan \in 1..2, downSampleFactor \in Nat \ {0},
           downSampleCount \in [Device!Channel -> Nat \ {0}],
           NEW n \in 0..DevAvail, NEW s, s.buf \in Buffer,
           s.count \in [Device!Channel -> Nat \ {0}], NEW j \in 1..numChan,
           NEW h, h = j - 1, NEW r, r = Device!Subsample(s.buf, h, n),
           NEW t, t = ChannelStep(s, j, n)
    PROVE  /\ SubState(r, s.buf, h, downSampleCount[h], n)
           /\ t.buf = r.buf /\ t.kept = r.kept
           /\ t.count = [s.count EXCEPT ![h] = r.count]
           /\ KeptWell(t, n)
<1>1. h \in 0..(numChan - 1) /\ downSampleCount[h] \in Nat \ {0}
  BY DEF Device!Channel
<1>2. SubState(r, s.buf, h, downSampleCount[h], n)
  BY <1>1, SubsampleKeeps
<1>3. t = [r EXCEPT !.count = [s.count EXCEPT ![h] = r.count]]
  BY DEF ChannelStep
<1>4. r \in [buf : Buffer, count : Nat \ {0}, kept : 0..n]
  BY <1>2 DEF SubState
<1>5. /\ t.buf = r.buf /\ t.kept = r.kept
      /\ t.count = [s.count EXCEPT ![h] = r.count]
  BY <1>3, <1>4
<1>6. KeptWell(t, n)
  BY <1>1, <1>4, <1>5 DEF KeptWell, Device!Channel
<1> QED
  BY <1>2, <1>5, <1>6

\* Whether or not the channels count together, the buffer has its type.
LEMMA DownsampledFacts ==
    ASSUME numChan \in 1..2, downSampleFactor \in Int, taken \in Nat,
           downSampleCount \in [Device!Channel -> Int],
           downSampleFactor > 1 => \A j \in Device!Channel : downSampleCount[j] > 0,
           NEW n \in 0..DevAvail
    PROVE  LET d == Device!Downsampled(n)
           IN  /\ d.buf \in Buffer /\ d.kept \in 0..n /\ d.count \in [Device!Channel -> Int]
               /\ downSampleFactor > 1 => \A j \in Device!Channel : d.count[j] > 0
               /\ CountTogether => KeptTogether(d, n)
<1>0. DevAvail \in Nat /\ n \in Nat
  BY PartAssumptions DEF Device!DeviceAssumption
<1> DEFINE d == Device!Downsampled(n)
           c == downSampleCount[0]
           none == NoChannel(n)
           one == OneChannel(n)
           two == TwoChannels(n)
<1>1. /\ none.buf = Device!Frames(n) /\ none.count = downSampleCount /\ none.kept = n
  BY DEF NoChannel
<1>2. /\ none.buf \in Buffer
      /\ \A k \in 0..(n - 1), j \in Device!Channel :
           none.buf[numChan * k + j] = <<taken + k, j>>
  BY <1>1, FramesFacts
<1>3. 0 \in Device!Channel /\ c \in Int /\ 0 \in 0..(numChan - 1)
  BY DEF Device!Channel
<1>4. CASE ~(downSampleFactor > 1)
  <2>1. d = none
    BY <1>4 DEF Device!Downsampled, NoChannel
  <2> HIDE DEF d, none
  <2>2. /\ d.buf \in Buffer /\ d.kept \in 0..n /\ d.count \in [Device!Channel -> Int]
    BY <1>0, <1>1, <1>2, <2>1
  <2>3. FirstKept = 0 /\ Device!Spacing = 1 /\ NextIn(d.count) = 1
        /\ NextIn(downSampleCount) = 1
    BY <1>4 DEF FirstKept, NextIn, Device!Spacing
  <2>4. ASSUME NEW k \in 0..(n - 1), NEW j \in Device!Channel
        PROVE  d.buf[numChan * k + j] = <<taken + FirstKept + k * Device!Spacing, j>>
    <3>1. taken + FirstKept + k * Device!Spacing = taken + k
      BY <2>3
    <3> QED
      BY <3>1, <1>2, <2>1
  <2>5. n + NextIn(d.count) = NextIn(downSampleCount) + d.kept * Device!Spacing
    <3>1. d.kept = n
      BY <1>1, <2>1
    <3>2. n + 1 = 1 + n * 1
      BY <1>0
    <3> QED
      BY <2>3, <3>1, <3>2
  <2>6. d.kept = n
    BY <1>1, <2>1
  <2>7. KeptTogether(d, n)
    BY <1>4, <2>4, <2>5, <2>6 DEF KeptTogether
  <2> QED
    BY <1>4, <2>2, <2>7 DEF d
<1>5. CASE downSampleFactor > 1
  <2>0. /\ downSampleFactor \in Nat \ {0} /\ c \in Nat \ {0}
        /\ downSampleCount \in [Device!Channel -> Nat \ {0}]
    BY <1>3, <1>5
  <2> DEFINE r1 == Device!Subsample(none.buf, 0, n)
             r2 == Device!Subsample(one.buf, 1, n)
  <2>1. /\ SubState(r1, none.buf, 0, c, n)
        /\ one.buf = r1.buf /\ one.kept = r1.kept
        /\ one.count = [downSampleCount EXCEPT ![0] = r1.count]
        /\ KeptWell(one, n)
    <3>1. one = ChannelStep(none, 1, n)
      BY DEF OneChannel
    <3>2. 1 \in 1..numChan /\ 0 = 1 - 1
      OBVIOUS
    <3> HIDE DEF none, one, two, d
    <3>3. none.buf \in Buffer /\ none.count \in [Device!Channel -> Nat \ {0}]
      BY <2>0, <1>1, <1>2
    <3>4. r1 = Device!Subsample(none.buf, 0, n)
      OBVIOUS
    <3> HIDE DEF r1, c
    <3>5. /\ SubState(r1, none.buf, 0, downSampleCount[0], n)
          /\ one.buf = r1.buf /\ one.kept = r1.kept
          /\ one.count = [none.count EXCEPT ![0] = r1.count]
          /\ KeptWell(one, n)
      BY <2>0, <3>1, <3>2, <3>3, <3>4, ChannelStepFacts
    <3> QED
      BY <1>1, <3>5 DEF c
  <2>2. ASSUME numChan = 2
        PROVE  /\ SubState(r2, one.buf, 1, downSampleCount[1], n)
               /\ two.buf = r2.buf /\ two.kept = r2.kept
               /\ two.count = [one.count EXCEPT ![1] = r2.count]
               /\ KeptWell(two, n)
    <3>1. two = ChannelStep(one, 2, n)
      BY DEF TwoChannels
    <3>2. 2 \in 1..numChan /\ 1 = 2 - 1
      BY <2>2
    <3>3. one.buf \in Buffer /\ one.count \in [Device!Channel -> Nat \ {0}]
      BY <2>1 DEF KeptWell
    <3>4. r2 = Device!Subsample(one.buf, 1, n)
      OBVIOUS
    <3> HIDE DEF none, one, two, r1, r2, c, d
    <3> QED
      BY <2>0, <3>1, <3>2, <3>3, <3>4, ChannelStepFacts
  <2>3. d = IF numChan = 1 THEN one ELSE two
    BY <1>5, ChannelsRun
  <2> HIDE DEF d, none, one, two, r1, r2
  <2>4. KeptWell(d, n)
    BY <2>1, <2>2, <2>3
  <2>5. /\ r1.kept \in 0..n /\ r1.count \in Nat \ {0} /\ r1.buf \in Buffer
        /\ n + r1.count = c + r1.kept * downSampleFactor
        /\ c <= downSampleFactor \/ r1.kept > 0 => r1.count <= downSampleFactor
    BY <2>1 DEF SubState
  <2>6. PlacedAgain(one.buf, 0, c, r1.kept)
    <3>1. Placed(none.buf, 0, n)
      BY <1>2, <1>3 DEF Placed
    <3>2. SubState(r1, none.buf, 0, c, n) /\ none.buf \in Buffer /\ one.buf = r1.buf
      BY <1>2, <2>1
    <3> HIDE DEF c
    <3>3. PlacedAgain(r1.buf, 0, c, r1.kept)
      BY <2>0, <1>3, <3>1, <3>2, ChannelKept
    <3> QED
      BY <3>2, <3>3
  <2>7. /\ FirstKept = c - 1 /\ Device!Spacing = downSampleFactor
        /\ NextIn(downSampleCount) = c /\ NextIn(d.count) = d.count[0]
    BY <1>5 DEF FirstKept, NextIn, Device!Spacing
  <2>8. ASSUME CountTogether
        PROVE  KeptTogether(d, n)
    <3>1. CASE numChan = 1
      <4>1. d = one /\ d.kept = r1.kept /\ Device!Channel = {0}
        BY <2>1, <2>3, <3>1 DEF Device!Channel
      <4>2. d.count[0] = r1.count
        BY <2>1, <1>3, <4>1
      <4>3. \A k \in 0..(d.kept - 1), j \in Device!Channel :
              d.buf[numChan * k + j] = <<taken + FirstKept + k * Device!Spacing, j>>
        BY <2>6, <2>7, <4>1 DEF PlacedAgain
      <4> QED
        BY <1>5, <2>5, <2>7, <4>1, <4>2, <4>3 DEF KeptTogether
    <3>2. CASE numChan = 2
      <4>1. d = two /\ d.kept = r2.kept /\ Device!Channel = {0, 1}
        BY <2>2, <2>3, <3>2 DEF Device!Channel
      <4>2. downSampleCount[1] = c
        BY <1>5, <2>8, <4>1 DEF CountTogether
      <4>3. /\ r2.kept \in 0..n /\ r2.count \in Nat \ {0}
            /\ n + r2.count = c + r2.kept * downSampleFactor
            /\ r2.kept > 0 => r2.count <= downSampleFactor
        BY <2>2, <3>2, <4>2 DEF SubState
      <4>4. r1.kept = r2.kept /\ r1.count = r2.count
        <5>1. /\ Keeps(n, c, downSampleFactor, r1.count, r1.kept)
              /\ Keeps(n, c, downSampleFactor, r2.count, r2.kept)
          BY <1>0, <2>5, <4>3 DEF Keeps
        <5> HIDE DEF c
        <5> QED
          BY <1>0, <2>0, <5>1, SameKept
      <4>5. d.count[0] = r1.count /\ d.count[1] = r2.count
        <5>1. /\ one.count = [downSampleCount EXCEPT ![0] = r1.count]
              /\ two.count = [one.count EXCEPT ![1] = r2.count]
              /\ one.count \in [Device!Channel -> Nat \ {0}]
          BY <2>1, <2>2, <3>2 DEF KeptWell
        <5>2. one.count[0] = r1.count /\ DOMAIN one.count = {0, 1}
          BY <5>1, <4>1
        <5>3. two.count[0] = one.count[0] /\ two.count[1] = r2.count
          BY <5>1, <5>2
        <5> QED
          BY <5>2, <5>3, <4>1
      <4>6. /\ one.buf \in Buffer /\ 1 \in 0..(numChan - 1)
            /\ Placed(one.buf, 1, n)
        <5>1. ASSUME NEW k \in 0..(n - 1)
              PROVE  one.buf[numChan * k + 1] = none.buf[numChan * k + 1]
          <6>1. numChan * k + 1 \in 0..(2 * DevAvail - 1)
            BY <1>0, <3>2, PlaceFacts
          <6>2. \A q \in 0..(r1.kept - 1) : numChan * k + 1 # numChan * q + 0
            BY <1>0, <2>5, <3>2
          <6> QED
            BY <6>1, <6>2, <2>1 DEF SubState
        <5>2. \A k \in 0..(n - 1) : none.buf[numChan * k + 1] = <<taken + k, 1>>
          BY <1>2, <4>1
        <5>3. one.buf \in Buffer /\ 1 \in 0..(numChan - 1)
          BY <2>1, <2>5, <3>2
        <5> QED
          BY <5>1, <5>2, <5>3 DEF Placed
      <4>7. PlacedAgain(two.buf, 1, c, r2.kept)
        <5>1. SubState(r2, one.buf, 1, c, n) /\ two.buf = r2.buf
          BY <2>2, <3>2, <4>2
        <5> HIDE DEF c
        <5>2. PlacedAgain(r2.buf, 1, c, r2.kept)
          BY <2>0, <1>3, <4>6, <5>1, ChannelKept
        <5> QED
          BY <5>1, <5>2
      <4>8. PlacedAgain(two.buf, 0, c, r2.kept)
        <5> SUFFICES ASSUME NEW k \in 0..(r2.kept - 1)
                     PROVE  two.buf[numChan * k + 0] = one.buf[numChan * k + 0]
          BY <2>6, <4>4 DEF PlacedAgain
        <5>1. numChan * k + 0 \in 0..(2 * DevAvail - 1)
          BY <1>0, <3>2, <4>3, PlaceFacts
        <5>2. \A q \in 0..(r2.kept - 1) : numChan * k + 0 # numChan * q + 1
          BY <1>0, <4>3, <3>2
        <5> QED
          BY <5>1, <5>2, <2>2, <3>2 DEF SubState
      <4>9. \A k \in 0..(d.kept - 1), j \in Device!Channel :
              d.buf[numChan * k + j] = <<taken + FirstKept + k * Device!Spacing, j>>
        BY <2>7, <4>1, <4>4, <4>7, <4>8 DEF PlacedAgain
      <4> QED
        BY <1>5, <2>5, <2>7, <4>1, <4>4, <4>5, <4>9 DEF KeptTogether
    <3> QED
      BY <3>1, <3>2
  <2>9. /\ d.buf \in Buffer /\ d.kept \in 0..n /\ d.count \in [Device!Channel -> Int]
        /\ \A j \in Device!Channel : d.count[j] > 0
    BY <2>4 DEF KeptWell
  <2> QED
    BY <2>8, <2>9 DEF d
<1> QED
  BY <1>4, <1>5

-----------------------------------------------------------------------------
(* The device's steps *)

\* What a delivery gives to the raw listeners and to the plugin.
Width == IF Device!demodulating THEN 1 ELSE numChan

RawFrames(b, k) == [q \in 1..k |-> [c \in 1..Width |-> b[Width * (q - 1) + c - 1]]]

PlugPairs(b, k) == [q \in 1..k |-> <<b[2 * q - 2], b[2 * q - 1]>>]

\* The frame of which a delivery makes its q-th.
FrameKept(q) == taken + FirstKept + (q - 1) * Device!Spacing

LEMMA ShortFacts ==
    ASSUME NEW x \in Int
    PROVE  Device!ToShort(x) \in -(ShortMax + 1)..ShortMax
<1> DEFINE m == 2 * (ShortMax + 1)
           y == x + ShortMax + 1
<1>1. ShortMax \in Nat /\ m \in Nat \ {0} /\ y \in Int
  BY PartAssumptions DEF Device!DeviceAssumption
<1>2. Device!ToShort(x) = (y % m) - (ShortMax + 1)
  BY DEF Device!ToShort
<1> HIDE DEF y
<1>3. y % m \in 0..(m - 1)
  <2> HIDE DEF m
  <2> QED
    BY <1>1
<1> DEFINE z == y % m
<1>4. z \in 0..(m - 1) /\ Device!ToShort(x) = z - (ShortMax + 1)
  BY <1>2, <1>3
<1> HIDE DEF z
<1> QED
  BY <1>1, <1>4

LEMMA FactorFacts ==
    /\ NumChans \subseteq 1..2 /\ HwRate \in Nat \ {0} /\ DevAvail \in Nat \ {0}
    /\ DevFrame \in Nat /\ ShortMax \in Nat \ {0}
    /\ -(ShortMax + 1)..ShortMax \subseteq Int
    /\ Device!ToShort(HwRate \div DevRate) \in -(ShortMax + 1)..ShortMax
    /\ \A r \in Requested : Device!ToShort(HwRate \div r) \in -(ShortMax + 1)..ShortMax
<1>1. /\ NumChans \subseteq 1..2 /\ HwRate \in Nat \ {0} /\ DevAvail \in Nat \ {0}
      /\ DevFrame \in Nat /\ ShortMax \in Nat \ {0}
      /\ DevRate \in 1..HwRate /\ Requested \subseteq 1..HwRate
  BY PartAssumptions DEF Device!DeviceAssumption
<1>2. HwRate \div DevRate \in Int /\ \A r \in Requested : HwRate \div r \in Int
  BY <1>1, QuotientFacts
<1> QED
  BY <1>1, <1>2, ShortFacts

LEMMA DeviceTypes ==
    ASSUME DeviceInv
    PROVE  /\ numChan \in 1..2 /\ taken \in Nat
           /\ downSampleFactor \in Int /\ Device!Spacing \in Nat \ {0}
           /\ downSampleCount \in [Device!Channel -> Int]
           /\ downSampleFactor > 1 => \A j \in Device!Channel : downSampleCount[j] > 0
           /\ 0 \in Device!Channel /\ NextIn(downSampleCount) \in Nat \ {0}
<1>1. /\ numChan \in 1..2 /\ taken \in Nat /\ downSampleFactor \in Int
      /\ downSampleCount \in [Device!Channel -> Int]
      /\ downSampleFactor > 1 => \A j \in Device!Channel : downSampleCount[j] > 0
  BY FactorFacts DEF DeviceInv, Device!TypeOK
<1>2. 0 \in Device!Channel
  BY <1>1 DEF Device!Channel
<1> QED
  BY <1>1, <1>2 DEF NextIn, Device!Spacing

LEMMA DeviceInit == Device!Init => DeviceInv
<1> SUFFICES ASSUME Device!Init PROVE DeviceInv
  OBVIOUS
<1>1. /\ Garbage \subseteq Int /\ \A x \in Garbage : x > 0
  BY FactorFacts, PartAssumptions DEF Device!DeviceAssumption
<1>2. Device!TypeOK
  <2>1. /\ downSampleCount \in [Device!Channel -> Int]
        /\ \A j \in Device!Channel : downSampleCount[j] > 0
    BY <1>1 DEF Device!Init
  <2>2. downSampleFactor \in -(ShortMax + 1)..ShortMax /\ taken \in 0..DevFrame
    BY FactorFacts DEF Device!Init
  <2> QED
    BY <2>1, <2>2 DEF Device!Init, Device!TypeOK
<1>3. Together
  BY DEF Together, Device!Init
<1>4. deviceGot \in [RawLabel -> Seq(Frame)]
  BY DEF Device!Init
<1> QED
  BY <1>2, <1>3, <1>4 DEF DeviceInv, Device!Init

\* A listener is added: a lone one sets the factor, and the channels start together.
LEMMA RawStreamKeeps ==
    ASSUME DeviceInv, NEW l \in RawLabel, NEW r \in Requested, NEW fm \in BOOLEAN,
           Device!RawStream(l, r, fm)
    PROVE  DeviceInv'
<1> USE DEF Device!RawStream, Device!addRawListener
<1>0. /\ numChan' = numChan /\ Device!Channel' = Device!Channel /\ Frame' = Frame
      /\ taken' = taken /\ fed' \in {fed, <<>>}
  BY DEF Device!Channel, Frame, FrameOf
<1>1. downSampleFactor' \in -(ShortMax + 1)..ShortMax /\ downSampleFactor' \in Int
  BY FactorFacts DEF DeviceInv, Device!TypeOK
<1>2. CASE rawListeners' = {l}
  <2>1. /\ downSampleCount' = [j \in Device!Channel |-> downSampleFactor']
        /\ counted' = TRUE /\ fed' = IF counted THEN fed ELSE <<>>
    BY <1>0, <1>1, <1>2
  <2>2. Device!TypeOK'
    BY <1>0, <1>1, <2>1 DEF DeviceInv, Device!TypeOK
  <2>3. Together'
    BY <1>0, <1>1, <2>1, DeviceTypes DEF Together
  <2>4. deviceGot' \in [RawLabel -> Seq(Frame)] /\ deviceGot'[l] = <<>>
    BY DEF DeviceInv
  <2>5. Device!Spaced(<<>>, Device!Spacing)' /\ Continues(<<>>)'
    BY DEF Device!Spaced, Continues
  <2>6. numChan = 2 => fed' \in Seq(Pair)
    BY <2>1 DEF DeviceInv
  <2> QED
    BY <1>0, <1>2, <2>2, <2>3, <2>4, <2>5, <2>6 DEF DeviceInv
<1>3. CASE rawListeners' # {l}
  <2>1. /\ UNCHANGED <<downSampleFactor, downSampleCount, counted, fed>> /\ rawListeners # {}
        /\ rawListeners' = rawListeners \cup {l}
    BY <1>3
  <2>2. Device!TypeOK'
    BY <1>0, <2>1 DEF DeviceInv, Device!TypeOK
  <2>3. Together'
    BY <1>0, <2>1 DEF DeviceInv, Together
  <2>4. /\ deviceGot' \in [RawLabel -> Seq(Frame)]
        /\ \A m \in RawLabel : deviceGot'[m] = IF m = l THEN <<>> ELSE deviceGot[m]
    BY DEF DeviceInv
  <2>5. ASSUME NEW m \in rawListeners'
        PROVE  Device!Spaced(deviceGot[m], Device!Spacing)' /\ Continues(deviceGot[m])'
    <3>1. m \in RawLabel
      BY <2>2 DEF Device!TypeOK
    <3>2. CASE m = l
      BY <2>4, <3>1, <3>2 DEF Device!Spaced, Continues
    <3>3. CASE m # l
      <4>1. m \in rawListeners /\ deviceGot'[m] = deviceGot[m]
        BY <2>1, <2>4, <3>1, <3>3
      <4> QED
        BY <1>0, <2>1, <4>1
           DEF DeviceInv, Device!Spaced, Continues, Device!Spacing, NextIn
    <3> QED
      BY <3>2, <3>3
  <2>6. counted' /\ numChan = 2 => fed' \in Seq(Pair)
    BY <2>1 DEF DeviceInv
  <2> QED
    BY <1>0, <2>2, <2>3, <2>4, <2>5, <2>6 DEF DeviceInv
<1> QED
  BY <1>2, <1>3

\* The commands that only take listeners away, or ask for demodulation or a plugin.
LEMMA OtherCommandsKeep ==
    ASSUME DeviceInv, rawListeners' \subseteq rawListeners, live' \subseteq RawLabel,
           plugged' \in BOOLEAN, demodFMForRaw' \in BOOLEAN, fed' \in {fed, <<>>},
           UNCHANGED <<numChan, downSampleFactor, downSampleCount, taken, deviceGot, counted>>
    PROVE  DeviceInv'
<1>1. /\ Device!Channel' = Device!Channel /\ Frame' = Frame
      /\ rawListeners' # {} => rawListeners # {}
  BY DEF Device!Channel, Frame, FrameOf
<1>2. Device!TypeOK' /\ Together'
  BY <1>1 DEF DeviceInv, Device!TypeOK, Together
<1>3. \A m \in rawListeners' :
        Device!Spaced(deviceGot[m], Device!Spacing)' /\ Continues(deviceGot[m])'
  BY DEF DeviceInv, Device!Spaced, Continues, Device!Spacing, NextIn
<1>4. (counted /\ numChan = 2 => fed \in Seq(Pair))'
  <2>1. <<>> \in Seq(Pair)
    OBVIOUS
  <2> QED
    BY <2>1 DEF DeviceInv
<1>5. (deviceGot \in [RawLabel -> Seq(Frame)])'
  BY <1>1 DEF DeviceInv
<1> QED
  BY <1>2, <1>3, <1>4, <1>5 DEF DeviceInv

\* The frames a delivery keeps, when the channels count together.
LEMMA RawFramesFacts ==
    ASSUME DeviceInv, NEW b \in Buffer, NEW k \in 0..DevAvail,
           \A q \in 0..(k - 1), j \in Device!Channel :
             b[numChan * q + j] = <<taken + FirstKept + q * Device!Spacing, j>>
    PROVE  LET raw == RawFrames(Device!Demodulated(b, k), k)
           IN  /\ raw \in Seq(Frame) /\ Len(raw) = k
               /\ \A q \in 1..k : raw[q][1][1] = FrameKept(q)
<1> DEFINE d == Device!Demodulated(b, k)
           raw == RawFrames(d, k)
<1>0. /\ numChan \in 1..2 /\ k \in Nat /\ DevAvail \in Nat /\ taken \in Nat
      /\ Device!Spacing \in Nat \ {0} /\ k <= DevAvail
  BY DeviceTypes, FactorFacts
<1>1. FirstKept \in Nat
  BY DeviceTypes DEF FirstKept
<1>2. ASSUME NEW q \in 1..k
      PROVE  FrameKept(q) \in Nat
  <2>1. (q - 1) * Device!Spacing \in Nat
    BY <1>0
  <2> HIDE DEF d
  <2> QED
    BY <1>0, <1>1, <2>1 DEF FrameKept
<1>3. ASSUME NEW q \in 1..k
      PROVE  raw[q] \in FrameOf(FrameKept(q)) /\ raw[q][1][1] = FrameKept(q)
  <2>0. q - 1 \in 0..(k - 1) /\ raw[q] = [c \in 1..Width |-> d[Width * (q - 1) + c - 1]]
    BY DEF RawFrames
  <2>1. CASE Device!demodulating
    <3>1. numChan = 2 /\ Width = 1 /\ Device!Channel = {0, 1}
      BY <2>1 DEF Device!demodulating, Width, Device!Channel
    <3>2. /\ b[2 * (q - 1)] = <<FrameKept(q), 0>>
          /\ b[2 * (q - 1) + 1] = <<FrameKept(q), 1>>
      BY <2>0, <3>1 DEF FrameKept
    <3>3. q - 1 \in DOMAIN b /\ q - 1 < k
      BY <1>0 DEF Buffer
    <3>4. d[q - 1] = <<FrameKept(q)>>
      BY <2>1, <3>2, <3>3 DEF Device!Demodulated
    <3> HIDE DEF d
    <3>5. raw[q] = <<<<FrameKept(q)>>>>
      <4>1. raw[q] = [c \in 1..1 |-> <<FrameKept(q)>>]
        <5>1. \A c \in 1..1 : Width * (q - 1) + c - 1 = q - 1
          BY <3>1
        <5> HIDE DEF raw
        <5> QED
          BY <2>0, <3>1, <3>4, <5>1
      <4> HIDE DEF raw
      <4> QED
        BY <4>1
    <3> HIDE DEF raw
    <3> QED
      BY <3>5 DEF FrameOf
  <2>2. CASE ~Device!demodulating
    <3>1. Width = numChan /\ d = b
      BY <2>2 DEF Width, Device!Demodulated
    <3> HIDE DEF d
    <3>2. ASSUME NEW c \in 1..numChan
          PROVE  d[numChan * (q - 1) + c - 1] = <<FrameKept(q), c - 1>>
      <4>1. c - 1 \in Device!Channel
        BY <1>0 DEF Device!Channel
      <4>2. b[numChan * (q - 1) + (c - 1)] = <<FrameKept(q), c - 1>>
        BY <2>0, <4>1 DEF FrameKept
      <4>3. numChan * (q - 1) + (c - 1) = numChan * (q - 1) + c - 1
        BY <1>0
      <4> QED
        BY <3>1, <4>2, <4>3
    <3>3. raw[q] = [c \in 1..numChan |-> <<FrameKept(q), c - 1>>]
      BY <2>0, <3>1, <3>2
    <3> HIDE DEF raw
    <3>4. raw[q][1] = <<FrameKept(q), 0>>
      BY <1>0, <3>3
    <3> QED
      BY <3>3, <3>4 DEF FrameOf
  <2> QED
    BY <2>1, <2>2
<1>4. raw = [q \in 1..k |-> raw[q]]
  BY DEF RawFrames
<1> HIDE DEF raw, d
<1>5. \A q \in 1..k : raw[q] \in Frame
  BY <1>2, <1>3 DEF Frame
<1>6. raw \in Seq(Frame) /\ Len(raw) = k
  BY <1>0, <1>4, <1>5
<1> QED
  BY <1>3, <1>6 DEF raw, d

\* ... and the pairs it gives to a plugin of a stereo device.
LEMMA PlugPairsFacts ==
    ASSUME DeviceInv, numChan = 2, NEW b \in Buffer, NEW k \in 0..DevAvail,
           \A q \in 0..(k - 1), j \in Device!Channel :
             b[numChan * q + j] = <<taken + FirstKept + q * Device!Spacing, j>>
    PROVE  PlugPairs(Device!Demodulated(b, k), k) \in Seq(Pair)
<1> DEFINE d == Device!Demodulated(b, k)
<1>0. k \in Nat /\ DevAvail \in Nat /\ k <= DevAvail /\ Device!Channel = {0, 1}
  BY FactorFacts DEF Device!Channel
<1>1. \A p \in 0..(2 * DevAvail - 1) : b[p] \in Seq(Nat)
  BY DEF Buffer
<1>2. ASSUME NEW q \in 0..(k - 1)
      PROVE  /\ 2 * q \in 0..(2 * DevAvail - 1) /\ 2 * q + 1 \in 0..(2 * DevAvail - 1)
             /\ b[2 * q] \in Seq(Nat) /\ b[2 * q + 1] \in Seq(Nat)
             /\ Len(b[2 * q]) = 2 /\ b[2 * q][1] = b[2 * q + 1][1] /\ b[2 * q][1] \in Nat
  <2>1. 2 * q \in 0..(2 * DevAvail - 1) /\ 2 * q + 1 \in 0..(2 * DevAvail - 1)
    BY <1>0
  <2>2. b[2 * q] = <<taken + FirstKept + q * Device!Spacing, 0>>
    <3>1. b[numChan * q + 0] = <<taken + FirstKept + q * Device!Spacing, 0>>
      BY <1>0, Zenon
    <3>2. numChan * q + 0 = 2 * q
      BY <1>0
    <3> QED
      BY <3>1, <3>2, Zenon
  <2>3. b[2 * q + 1] = <<taken + FirstKept + q * Device!Spacing, 1>>
    BY <1>0
  <2>4. Len(b[2 * q]) = 2 /\ b[2 * q][1] = b[2 * q + 1][1]
    BY <2>2, <2>3
  <2>5. b[2 * q][1] \in Nat
    BY <1>1, <2>1, <2>4
  <2> QED
    BY <1>1, <2>1, <2>4, <2>5
<1>3. ASSUME NEW q \in 1..k
      PROVE  <<d[2 * q - 2], d[2 * q - 1]>> \in Pair
  <2> DEFINE h == q - 1
             s == 2 * q - 2
             t == 2 * q - 1
  <2>1. h \in 0..(k - 1) /\ s = 2 * h /\ t = 2 * h + 1 /\ s \in Nat /\ t = s + 1
    BY <1>0
  <2>2. /\ s \in 0..(2 * DevAvail - 1) /\ t \in 0..(2 * DevAvail - 1)
        /\ b[s] \in Seq(Nat) /\ b[t] \in Seq(Nat) /\ Len(b[s]) = 2 /\ b[s][1] = b[t][1]
    <3> HIDE DEF h, s, t, d
    <3> QED
      BY <1>2, <2>1
  <2>3. ASSUME NEW p \in 0..(2 * DevAvail - 1)
        PROVE  /\ d[p] \in Seq(Nat)
               /\ Device!demodulating /\ p < k => Len(d[p]) = 1
               /\ ~(Device!demodulating /\ p < k) => d[p] = b[p]
    <3>1. CASE Device!demodulating /\ p < k
      <4>1. b[2 * p][1] = b[2 * p + 1][1] /\ b[2 * p][1] \in Nat
        BY <1>0, <1>2, <3>1
      <4>2. d[p] = <<b[2 * p][1]>>
        BY <3>1, <4>1 DEF Device!Demodulated, Buffer
      <4> HIDE DEF d
      <4> QED
        BY <3>1, <4>1, <4>2
    <3>2. CASE ~(Device!demodulating /\ p < k)
      <4>1. d[p] = b[p]
        BY <3>2 DEF Device!Demodulated, Buffer
      <4> HIDE DEF d
      <4> QED
        BY <3>2, <4>1, <1>1
    <3> QED
      BY <3>1, <3>2
  <2>4. s < k \/ ~(t < k)
    BY <1>0, <2>1
  <2> HIDE DEF d, s, t
  <2>5. d[s] \in Seq(Nat) /\ d[t] \in Seq(Nat)
    BY <2>2, <2>3
  <2>6. Len(d[s]) = 2 => d[s][1] = d[t][1]
    <3>1. CASE Device!demodulating /\ s < k
      <4>1. Len(d[s]) = 1
        BY <2>2, <2>3, <3>1, Zenon
      <4>2. Len(d[s]) # 2
        BY <4>1
      <4> QED
        BY <4>2, Zenon
    <3>2. CASE ~(Device!demodulating /\ s < k)
      BY <2>2, <2>3, <2>4, <3>2
    <3> QED
      BY <3>1, <3>2
  <2>7. <<d[s], d[t]>> \in Pair
    BY <2>5, <2>6 DEF Pair
  <2> QED
    BY <2>7 DEF s, t
<1>4. PlugPairs(d, k) = [q \in 1..k |-> <<d[2 * q - 2], d[2 * q - 1]>>]
  BY DEF PlugPairs
<1> HIDE DEF d
<1>5. PlugPairs(d, k) \in Seq(Pair)
  BY <1>0, <1>3, <1>4
<1> QED
  BY <1>5 DEF d

\* A frame says which it is.
LEMMA FirstIsNumber ==
    ASSUME numChan \in 1..2, NEW b \in Seq(Frame), Len(b) > 0
    PROVE  b[Len(b)][1][1] \in Int
<1>1. b[Len(b)] \in Frame
  OBVIOUS
<1>2. PICK y \in Nat : b[Len(b)] \in FrameOf(y)
  BY <1>1 DEF Frame
<1>3. CASE b[Len(b)] = <<<<y>>>>
  BY <1>3
<1>4. CASE b[Len(b)] = [c \in 1..numChan |-> <<y, c - 1>>]
  <2>1. 1 \in 1..numChan
    OBVIOUS
  <2> QED
    BY <1>4, <2>1
<1> QED
  BY <1>2, <1>3, <1>4 DEF FrameOf

\* What is given, put after what was: the spacing goes on.
LEMMA SpacedGoesOn ==
    ASSUME numChan \in 1..2, NEW f \in Nat, NEW m \in Nat,
           NEW b \in Seq(Frame), NEW d \in Seq(Frame),
           Device!Spaced(b, f), Len(b) > 0 => b[Len(b)][1][1] + f = m,
           \A q \in 1..Len(d) : d[q][1][1] = m + (q - 1) * f
    PROVE  Device!Spaced(b \o d, f)
<1>1. /\ b \o d \in Seq(Frame) /\ Len(b \o d) = Len(b) + Len(d)
      /\ \A q \in 1..(Len(b) + Len(d)) :
           (b \o d)[q] = IF q <= Len(b) THEN b[q] ELSE d[q - Len(b)]
  BY JoinedFacts
<1> DEFINE g == b \o d
           n == Len(b)
           o == Len(d)
<1>2. n \in Nat /\ o \in Nat
  OBVIOUS
<1>3. \A q \in 1..(n - 1) : b[q + 1][1][1] - b[q][1][1] = f
  BY DEF Device!Spaced
<1> HIDE DEF g, n, o
<1>4. ASSUME NEW k \in 1..(n + o - 1)
      PROVE  g[k + 1][1][1] - g[k][1][1] = f
  <2>1. CASE k + 1 <= n
    <3>1. g[k] = b[k] /\ g[k + 1] = b[k + 1] /\ k \in 1..(n - 1)
      BY <1>1, <1>2, <2>1 DEF g, n, o
    <3> QED
      BY <3>1, <1>3
  <2>2. CASE k = n
    <3>1. g[k] = b[n] /\ g[k + 1] = d[1] /\ 1 \in 1..o /\ n > 0
      BY <1>1, <1>2, <2>2 DEF g, n, o
    <3>2. d[1][1][1] = m + 0 * f /\ b[n][1][1] + f = m
      BY <3>1 DEF n, o
    <3>3. d[1][1][1] = b[n][1][1] + f
      BY <3>2
    <3> DEFINE x == b[n][1][1]
    <3>4. x \in Int
      BY <3>1, FirstIsNumber DEF n
    <3> HIDE DEF x
    <3> QED
      BY <3>1, <3>3, <3>4 DEF x
  <2>3. CASE k > n
    <3> DEFINE q == k - n
    <3>1. /\ q \in 1..(o - 1) /\ q + 1 = k + 1 - n /\ q \in 1..o /\ q + 1 \in 1..o
          /\ ~(k <= n) /\ ~(k + 1 <= n) /\ k \in 1..(n + o) /\ k + 1 \in 1..(n + o)
      BY <1>2, <2>3
    <3>2. g[k] = d[q]
      BY <1>1, <3>1 DEF g, n, o
    <3>3. g[k + 1] = d[q + 1]
      BY <1>1, <3>1 DEF g, n, o
    <3> HIDE DEF q
    <3>4. d[q][1][1] = m + (q - 1) * f /\ d[q + 1][1][1] = m + ((q + 1) - 1) * f
      BY <3>1 DEF o
    <3>5. ((q - 1) + 1) * f = (q - 1) * f + f /\ (q - 1) * f \in Int
      BY <3>1, OneMore
    <3>6. (q + 1) - 1 = (q - 1) + 1
      BY <3>1
    <3> QED
      BY <3>2, <3>3, <3>4, <3>5, <3>6
  <2> QED
    BY <1>2, <2>1, <2>2, <2>3
<1>5. Len(g) = n + o
  BY <1>1 DEF g, n, o
<1>6. Len(g) - 1 = n + o - 1
  BY <1>2, <1>5
<1>7. Device!Spaced(g, f)
  BY <1>4, <1>6 DEF Device!Spaced
<1> QED
  BY <1>7 DEF g

\* The handler is what RawFrames and PlugPairs make of what is kept.
LEMMA HandleEventsIs ==
    ASSUME NEW n, Device!HandleEvents(n)
    PROVE  LET d == Device!Downsampled(n)
               b == Device!Demodulated(d.buf, d.kept)
               raw == RawFrames(b, d.kept)
           IN  /\ taken + n <= DevFrame /\ taken' = taken + n
               /\ downSampleCount' = d.count
               /\ rawListeners' = rawListeners \cap live
               /\ deviceGot' = [l \in RawLabel |-> IF l \in rawListeners'
                                                   THEN deviceGot[l] \o raw
                                                   ELSE deviceGot[l]]
               /\ fed' = IF plugged THEN fed \o PlugPairs(b, d.kept) ELSE fed
               /\ UNCHANGED <<numChan, live, plugged, demodFMForRaw, downSampleFactor,
                              counted>>
  BY Zenon DEF Device!HandleEvents, RawFrames, PlugPairs, Width

\* A delivery goes on where the last one ended.
LEMMA DeliveryKeeps ==
    ASSUME DeviceInv, NEW n \in 1..DevAvail, Device!HandleEvents(n)
    PROVE  DeviceInv'
<1> DEFINE d == Device!Downsampled(n)
           b == Device!Demodulated(d.buf, d.kept)
           raw == RawFrames(b, d.kept)
           plug == PlugPairs(b, d.kept)
           f == Device!Spacing
<1>0. /\ numChan \in 1..2 /\ taken \in Nat /\ f \in Nat \ {0} /\ downSampleFactor \in Int
      /\ downSampleCount \in [Device!Channel -> Int]
      /\ downSampleFactor > 1 => \A j \in Device!Channel : downSampleCount[j] > 0
      /\ 0 \in Device!Channel /\ NextIn(downSampleCount) \in Nat \ {0}
      /\ DevAvail \in Nat /\ n \in 0..DevAvail /\ n \in Nat
  BY DeviceTypes, FactorFacts
<1>1. /\ d.buf \in Buffer /\ d.kept \in 0..n /\ d.count \in [Device!Channel -> Int]
      /\ downSampleFactor > 1 => \A j \in Device!Channel : d.count[j] > 0
      /\ CountTogether => KeptTogether(d, n)
  BY <1>0, DownsampledFacts
<1>2. /\ taken + n <= DevFrame /\ taken' = taken + n
      /\ downSampleCount' = d.count
      /\ rawListeners' = rawListeners \cap live
      /\ deviceGot' = [l \in RawLabel |->
                         IF l \in rawListeners' THEN deviceGot[l] \o raw ELSE deviceGot[l]]
      /\ fed' = IF plugged THEN fed \o plug ELSE fed
      /\ UNCHANGED <<numChan, live, plugged, demodFMForRaw, downSampleFactor, counted>>
      /\ f' = f
  BY HandleEventsIs DEF Device!Spacing
<1>3. ASSUME CountTogether
      PROVE  /\ raw \in Seq(Frame) /\ Len(raw) = d.kept
             /\ \A q \in 1..d.kept : raw[q][1][1] = FrameKept(q)
             /\ numChan = 2 => plug \in Seq(Pair)
  <2>1. /\ d.buf \in Buffer /\ d.kept \in 0..DevAvail
        /\ \A q \in 0..(d.kept - 1), j \in Device!Channel :
             d.buf[numChan * q + j] = <<taken + FirstKept + q * Device!Spacing, j>>
    BY <1>0, <1>1, <1>3 DEF KeptTogether
  <2> HIDE DEF d, f
  <2> QED
    BY <2>1, RawFramesFacts, PlugPairsFacts
<1> HIDE DEF d, b, raw, plug, f
<1>4. Device!Channel' = Device!Channel /\ Frame' = Frame
  BY <1>2 DEF Device!Channel, Frame, FrameOf
<1>5. Device!TypeOK'
  <2>1. /\ (downSampleCount \in [Device!Channel -> Int])' /\ taken' \in 0..DevFrame
        /\ (downSampleFactor > 1 => \A j \in Device!Channel : downSampleCount[j] > 0)'
    BY <1>0, <1>1, <1>2, <1>4, FactorFacts
  <2> QED
    BY <1>2, <2>1 DEF DeviceInv, Device!TypeOK
<1>6. counted => CountTogether /\ (downSampleFactor > 1 => downSampleCount[0] <= downSampleFactor)
  BY DEF DeviceInv, Together, CountTogether
<1>7. rawListeners # {} => counted
  BY DEF DeviceInv, Together
<1>8. rawListeners' # {} => rawListeners # {}
  BY <1>2
<1>9. Together'
  <2>1. /\ CountTogether /\ downSampleFactor > 1 => \A j \in Device!Channel : d.count[j] = d.count[0]
        /\ CountTogether /\ downSampleFactor > 1 /\ downSampleCount[0] <= downSampleFactor
              => d.count[0] <= downSampleFactor
    BY <1>1 DEF KeptTogether
  <2> QED
    BY <1>2, <1>4, <1>6, <1>7, <1>8, <2>1 DEF Together
<1>10. (deviceGot \in [RawLabel -> Seq(Frame)])'
  <2>1. ASSUME NEW l \in RawLabel
        PROVE  (IF l \in rawListeners' THEN deviceGot[l] \o raw ELSE deviceGot[l])
                 \in Seq(Frame)
    <3>1. deviceGot[l] \in Seq(Frame)
      BY DEF DeviceInv
    <3>2. l \in rawListeners' => raw \in Seq(Frame)
      BY <1>3, <1>6, <1>7, <1>8
    <3> QED
      BY <3>1, <3>2, JoinedFacts
  <2> QED
    BY <1>2, <1>4, <2>1
<1>11. (counted /\ numChan = 2 => fed \in Seq(Pair))'
  <2> SUFFICES ASSUME counted, numChan = 2 PROVE fed' \in Seq(Pair)
    BY <1>2
  <2>1. fed \in Seq(Pair) /\ plug \in Seq(Pair)
    BY <1>3, <1>6 DEF DeviceInv
  <2> QED
    BY <1>2, <2>1, JoinedFacts
<1>12. ASSUME NEW l \in rawListeners'
       PROVE  (Device!Spaced(deviceGot[l], Device!Spacing) /\ Continues(deviceGot[l]))'
  <2> DEFINE old == deviceGot[l]
             m == taken + (NextIn(downSampleCount) - 1)
  <2>1. l \in RawLabel /\ l \in rawListeners /\ CountTogether
    BY <1>2, <1>6, <1>7 DEF DeviceInv, Device!TypeOK
  <2>2. /\ FirstKept = NextIn(downSampleCount) - 1
        /\ n + NextIn(d.count) = NextIn(downSampleCount) + d.kept * f
        /\ d.kept \in Nat /\ NextIn(d.count) \in Nat
    BY <1>0, <1>1, <1>6, <1>7, <2>1 DEF KeptTogether, FirstKept, NextIn, f
  <2>3. deviceGot'[l] = old \o raw /\ old \in Seq(Frame) /\ Device!Spaced(old, f)
    BY <1>2, <2>1 DEF DeviceInv, f
  <2>4. Len(old) > 0 => old[Len(old)][1][1] + f + 1 = taken + NextIn(downSampleCount)
    BY <2>1 DEF DeviceInv, Continues, f
  <2>5. \A q \in 1..d.kept : raw[q][1][1] = m + (q - 1) * f
    BY <1>3, <2>1, <2>2 DEF FrameKept, f
  <2>6. raw \in Seq(Frame) /\ Len(raw) = d.kept
    BY <1>3, <2>1
  <2>7. m \in Nat
    BY <1>0
  <2>8. Len(old) > 0 => old[Len(old)][1][1] + f = m
    <3> SUFFICES ASSUME Len(old) > 0 PROVE old[Len(old)][1][1] + f = m
      OBVIOUS
    <3> DEFINE x == old[Len(old)][1][1]
    <3>1. x \in Int
      BY <1>0, <2>3, FirstIsNumber
    <3> HIDE DEF x
    <3>2. x + f + 1 = taken + NextIn(downSampleCount)
      BY <2>4 DEF x
    <3>3. x + f = m
      BY <1>0, <3>1, <3>2
    <3> QED
      BY <3>3 DEF x
  <2>9. Device!Spaced(old \o raw, f)
    <3> HIDE DEF old, m
    <3> QED
      BY <1>0, <2>3, <2>5, <2>6, <2>7, <2>8, SpacedGoesOn
  <2> DEFINE new == old \o raw
             last == new[Len(new)][1][1]
             c0 == NextIn(downSampleCount)
             c1 == NextIn(d.count)
             p == d.kept * f
  <2>10. ASSUME Len(new) > 0
         PROVE  last + f + 1 = (taken + n) + c1
    <3>1. /\ c0 \in Nat /\ c1 \in Nat /\ p \in Int /\ n + c1 = c0 + p
          /\ m = taken + (c0 - 1) /\ d.kept \in Nat
      BY <1>0, <2>2
    <3>2. /\ Len(new) = Len(old) + d.kept
          /\ \A q \in 1..(Len(old) + d.kept) :
               new[q] = IF q <= Len(old) THEN old[q] ELSE raw[q - Len(old)]
      <4>1. old \in Seq(Frame)
        BY <2>3
      <4> HIDE DEF old
      <4>2. /\ Len(old \o raw) = Len(old) + Len(raw)
            /\ \A q \in 1..(Len(old) + Len(raw)) :
                 (old \o raw)[q] = IF q <= Len(old) THEN old[q] ELSE raw[q - Len(old)]
        BY <4>1, <2>6, JoinedFacts
      <4> QED
        BY <4>2, <2>6
    <3>3. Len(old) \in Nat
      <4>1. old \in Seq(Frame)
        BY <2>3
      <4> HIDE DEF old
      <4> QED
        BY <4>1
    <3> HIDE DEF old, new, m, c0, c1
    <3>4. CASE d.kept = 0
      <4> DEFINE x == old[Len(old)][1][1]
      <4>1. Len(new) = Len(old) /\ Len(old) > 0
        BY <2>10, <3>2, <3>3, <3>4
      <4>2. new[Len(new)] = old[Len(old)]
        BY <3>2, <3>3, <3>4, <4>1
      <4>3. last = x
        BY <4>2
      <4>4. x + f = m
        BY <2>8, <4>1
      <4>5. x \in Int
        BY <1>0, <2>3, <4>1, FirstIsNumber
      <4>6. p = 0
        BY <1>0, <3>4
      <4> HIDE DEF x, last, p
      <4> QED
        BY <1>0, <3>1, <4>3, <4>4, <4>5, <4>6
    <3>5. CASE d.kept > 0
      <4> DEFINE x == (d.kept - 1) * f
      <4>1. /\ Len(new) \in 1..(Len(old) + d.kept) /\ ~(Len(new) <= Len(old))
            /\ Len(new) - Len(old) = d.kept
        BY <3>1, <3>2, <3>3, <3>5
      <4>2. new[Len(new)] = raw[d.kept]
        BY <3>2, <4>1
      <4>3. raw[d.kept][1][1] = m + x
        BY <3>1, <2>5, <3>5
      <4>4. last = m + x
        BY <4>2, <4>3
      <4>5. p = x + f /\ x \in Int
        <5>1. /\ ((d.kept - 1) + 1) * f
                   = (d.kept - 1) * f + f
              /\ (d.kept - 1) * f \in Int
          BY <1>0, <3>1, OneMore
        <5>2. (d.kept - 1) + 1 = d.kept
          BY <3>1
        <5> QED
          BY <5>1, <5>2
      <4> HIDE DEF x, last, p
      <4> QED
        BY <1>0, <3>1, <4>4, <4>5
    <3> QED
      BY <3>1, <3>4, <3>5
  <2>11. (Device!Spaced(deviceGot[l], Device!Spacing))'
    BY <1>2, <2>3, <2>9 DEF Device!Spaced, f
  <2>12. Continues(deviceGot[l])'
    BY <1>2, <2>3, <2>10 DEF Continues, NextIn, f
  <2> QED
    BY <2>11, <2>12
<1> QED
  BY <1>5, <1>9, <1>10, <1>11, <1>12 DEF DeviceInv

\* The inductive invariant holds for any rates, any number of listeners that come and
\* go, and however the frames fall into deliveries.
THEOREM DeviceInvariance == DataSpec => []DeviceInv
<1>1. Device!Init => DeviceInv
  BY DeviceInit
<1>2. DeviceInv /\ [Device!Next]_(Device!vars) => DeviceInv'
  <2> SUFFICES ASSUME DeviceInv, [Device!Next]_(Device!vars) PROVE DeviceInv'
    OBVIOUS
  <2>1. ASSUME NEW l \in RawLabel, NEW r \in Requested, NEW fm \in BOOLEAN,
               Device!RawStream(l, r, fm)
        PROVE  DeviceInv'
    BY <2>1, RawStreamKeeps
  <2> USE DEF DeviceInv, Device!TypeOK
  <2>2. ASSUME NEW l \in RawLabel, Device!RawStreamOff(l) PROVE DeviceInv'
    BY <2>2, OtherCommandsKeep DEF Device!RawStreamOff, Device!given
  <2>3. ASSUME NEW l \in RawLabel, Device!Expire(l) PROVE DeviceInv'
    BY <2>3, OtherCommandsKeep DEF Device!Expire, Device!given
  <2>4. ASSUME NEW fm \in BOOLEAN, Device!setDemodFMForRaw(fm) PROVE DeviceInv'
    BY <2>4, OtherCommandsKeep DEF Device!setDemodFMForRaw, Device!given
  <2>5. CASE Device!Plug
    BY <2>5, OtherCommandsKeep DEF Device!Plug
  <2>6. CASE UNCHANGED Device!vars
    BY <2>6, OtherCommandsKeep DEF Device!vars, Device!given
  <2>7. ASSUME NEW n \in 1..DevAvail, Device!HandleEvents(n) PROVE DeviceInv'
    BY <2>7, DeliveryKeeps
  <2> QED
    BY <2>1, <2>2, <2>3, <2>4, <2>5, <2>6, <2>7, Zenon DEF Device!Next
<1> QED
  BY <1>1, <1>2, PartsAreThemselves, PTL DEF Device!Spec

\* Every raw listener is given each downSampleFactor-th frame, or every frame if its field
\* holds no more than 1, whatever downSampleCount held before it was assigned.  This is
\* about the frames; what demodulation leaves behind them in the buffer is given too.
THEOREM RawStaysRegular == DataSpec => []Device!RawIsRegular
<1>1. DeviceInv => Device!RawIsRegular
  BY DEF DeviceInv, Device!RawIsRegular
<1> QED
  BY <1>1, DeviceInvariance, PTL

\* ... and each frame it is given is one frame of the hardware, on all channels; so is each
\* pair that a plugin of a stereo device is given once a raw listener has come, as long as
\* nothing is demodulated.
THEOREM RawStaysWhole == DataSpec => []RawIsWhole
<1>1. DeviceInv => RawIsWhole
  <2> SUFFICES ASSUME DeviceInv PROVE RawIsWhole
    OBVIOUS
  <2>1. ASSUME NEW l \in rawListeners, NEW q \in DOMAIN deviceGot[l]
        PROVE  deviceGot[l][q] \in {[c \in 1..numChan |-> <<deviceGot[l][q][1][1], c - 1>>],
                                    <<<<deviceGot[l][q][1][1]>>>>}
    <3>1. deviceGot[l][q] \in Frame
      BY DEF DeviceInv, Device!TypeOK
    <3>2. PICK y \in Nat : deviceGot[l][q] \in FrameOf(y)
      BY <3>1 DEF Frame
    <3>3. deviceGot[l][q][1][1] = y
      <4>1. CASE deviceGot[l][q] = <<<<y>>>>
        BY <4>1
      <4>2. CASE deviceGot[l][q] = [c \in 1..numChan |-> <<y, c - 1>>]
        <5>1. 1 \in 1..numChan
          BY DeviceTypes
        <5> QED
          BY <4>2, <5>1
      <4> QED
        BY <3>2, <4>1, <4>2 DEF FrameOf
    <3> QED
      BY <3>2, <3>3 DEF FrameOf
  <2>2. ASSUME numChan = 2, counted, NEW q \in DOMAIN fed, Len(fed[q][1]) = 2
        PROVE  fed[q][1][1] = fed[q][2][1]
    <3>1. fed \in Seq(Pair)
      BY <2>2 DEF DeviceInv
    <3>2. fed[q] \in Pair
      BY <3>1
    <3> QED
      BY <2>2, <3>2 DEF Pair
  <2>3. Device!ChannelsTogether
    BY <2>1, <2>2 DEF Device!ChannelsTogether, Device!Paired
  <2> QED
    BY <2>3 DEF RawIsWhole, Device!RawIsWhole, Device!RawIsRegular, DeviceInv
<1> QED
  BY <1>1, DeviceInvariance, PTL

-----------------------------------------------------------------------------
(* All parts *)

\* The state of every part has its type, with any sizes of blocks, buffers and files.
THEOREM PartTypesStayOK == DataSpec => []PartTypesOK
<1>1. TypeOK /\ DeviceInv /\ RadioInv /\ BatchInv => PartTypesOK
  BY DEF PartTypesOK, DeviceInv, RadioInv, BatchInv
<1> QED
  BY <1>1, PluginTypeCorrect, DeviceInvariance, RadioInvariance, BatchInvariance,
     PartsAreThemselves, PTL
======================================================================
