---------------------------- MODULE RTLSDRMinder ----------------------------
(***************************************************************************)
(* A radio's stream: segments, each a header and then 8-bit samples, over a*)
(* stream socket that keeps no boundaries.  RTLSDRMinder::hw_handleEvents  *)
(* asks how many bytes are there, and hw_getFrames reads them all, strips  *)
(* the headers and estimates the time of the first sample.                 *)
(*                                                                         *)
(* Samples are numbered as the radio takes them, and a sample's number is  *)
(* its time; the two samples of a frame are 2 * n and 2 * n + 1.  Each     *)
(* iteration of the loop in hw_getFrames is a step.                        *)
(***************************************************************************)
EXTENDS Integers, Sequences

CONSTANTS
    HeaderLen,      \* sizeof(stream_segment_hdr_t)
    DataLens,       \* bytes of samples that a segment may have
    MaxSamples      \* bound on the samples that the radio sends

\* A segment without samples would make hw_getFrames loop for ever.
RadioAssumption ==
    /\ HeaderLen \in Nat \ {0} /\ MaxSamples \in Nat
    /\ DataLens \subseteq Nat \ {0}

VARIABLES
    sent,               \* samples the radio has sent
    wire,               \* bytes in the socket
    segi,               \* bytes of the current segment that have been read
    header,             \* of the segment, once it is complete
    bytesAvail,
    buf,                \* samples copied by this call; sampleBytesCopied of them
    frameTimestamp,     \* sum of the estimates
    numTSest,
    pc,
    got,                \* history: samples handed to DevMinder
    odd                 \* history: a call has found an odd number of samples

vars == <<sent, wire, segi, header, bytesAvail, buf, frameTimestamp, numTSest, pc, got, odd>>

\* The bytes of a segment: each header byte carries what the whole header says.
Header(size, ts) == [kind |-> "header", size |-> size, ts |-> ts]
Sample(n) == [kind |-> "sample", n |-> n]

Init ==
    /\ sent = 0 /\ wire = <<>>
    /\ segi = 0 /\ header = Header(0, 0)
    /\ bytesAvail = 0 /\ buf = <<>> /\ frameTimestamp = 0 /\ numTSest = 0
    /\ pc = "idle"
    /\ got = <<>> /\ odd = FALSE

\* The radio sends a segment with len samples; size counts the header too.
Send(len) ==
    /\ sent + len <= MaxSamples
    /\ sent' = sent + len
    /\ wire' = wire \o [i \in 1..HeaderLen |-> Header(HeaderLen + len, sent)]
                    \o [i \in 1..len |-> Sample(sent + i - 1)]
    /\ UNCHANGED <<segi, header, bytesAvail, buf, frameTimestamp, numTSest, pc, got, odd>>

\* hw_handleEvents finds n bytes, and hw_getFrames is called.  In the middle of a
\* segment the time of the next sample is known.
HandleEvents(n) ==
    /\ pc = "idle" /\ n <= Len(wire)
    /\ bytesAvail' = n
    /\ buf' = <<>>
    /\ IF segi >= HeaderLen
       THEN frameTimestamp' = header.ts + (segi - HeaderLen) /\ numTSest' = 1
       ELSE frameTimestamp' = 0 /\ numTSest' = 0
    /\ pc' = "loop"
    /\ UNCHANGED <<sent, wire, segi, header, got, odd>>

Least(a, b) == IF a < b THEN a ELSE b

\* recv: the first n bytes are taken from the socket.
Recv(n) ==
    /\ wire' = SubSeq(wire, n + 1, Len(wire))
    /\ bytesAvail' = bytesAvail - n

hdrBytes == Least(HeaderLen - segi, bytesAvail)
dataBytes == Least(header.size - segi, bytesAvail)

\* The header, or a part of it.
ReadHeader ==
    /\ pc = "loop" /\ hdrBytes > 0
    /\ Recv(hdrBytes)
    /\ segi' = segi + hdrBytes
    /\ header' = wire[hdrBytes]
    /\ IF segi' = HeaderLen
       THEN /\ frameTimestamp' = frameTimestamp + header'.ts - Len(buf)
            /\ numTSest' = numTSest + 1
       ELSE UNCHANGED <<frameTimestamp, numTSest>>
    /\ UNCHANGED <<sent, buf, pc, got, odd>>

\* Mutant: the end of a segment that coincides with the end of what is there is
\* noticed by the next call only.
ReadDataLate ==
    /\ pc = "loop" /\ bytesAvail > 0 /\ hdrBytes <= 0 /\ dataBytes > 0
    /\ Recv(dataBytes)
    /\ segi' = IF segi + dataBytes = header.size /\ bytesAvail' > 0 THEN 0
               ELSE segi + dataBytes
    /\ buf' = buf \o SubSeq(wire, 1, dataBytes)
    /\ UNCHANGED <<sent, header, frameTimestamp, numTSest, pc, got, odd>>

\* Mutant: size is taken to be that of the samples alone.
ReadDataPast ==
    /\ pc = "loop" /\ bytesAvail > 0 /\ hdrBytes <= 0
    /\ LET n == Least(HeaderLen + header.size - segi, bytesAvail)
       IN  /\ Recv(n)
           /\ segi' = IF segi + n = HeaderLen + header.size THEN 0 ELSE segi + n
           /\ buf' = buf \o SubSeq(wire, 1, n)
    /\ UNCHANGED <<sent, header, frameTimestamp, numTSest, pc, got, odd>>

\* The samples of the segment, or some of them.
ReadData ==
    /\ pc = "loop" /\ bytesAvail > 0 /\ hdrBytes <= 0 /\ dataBytes > 0
    /\ Recv(dataBytes)
    /\ segi' = IF segi + dataBytes = header.size THEN 0 ELSE segi + dataBytes
    /\ buf' = buf \o SubSeq(wire, 1, dataBytes)
    /\ UNCHANGED <<sent, header, frameTimestamp, numTSest, pc, got, odd>>

\* All bytes are used up: whole frames are returned.
Return ==
    /\ pc = "loop" /\ bytesAvail = 0
    /\ got' = got \o SubSeq(buf, 1, 2 * (Len(buf) \div 2))
    /\ odd' = (odd \/ Len(buf) % 2 = 1)
    /\ pc' = "idle"
    /\ UNCHANGED <<sent, wire, segi, header, bytesAvail, buf, frameTimestamp, numTSest>>

Next ==
    \/ \E len \in DataLens : Send(len)
    \/ \E n \in 1..Len(wire) : HandleEvents(n)
    \/ ReadHeader \/ ReadData \/ Return

Spec == Init /\ [][Next]_vars

-----------------------------------------------------------------------------
(* Safety *)

TypeOK ==
    /\ sent \in 0..MaxSamples
    /\ segi \in Nat /\ (segi >= HeaderLen => segi < header.size)
    /\ bytesAvail \in 0..Len(wire)
    /\ numTSest \in Nat /\ frameTimestamp \in Int
    /\ pc \in {"idle", "loop"} /\ odd \in BOOLEAN

\* As long as no call has found an odd number of samples, the stream is put together
\* as the radio sent it: headers are stripped, and no sample is lost, repeated, or
\* swapped with the other channel's, wherever else the reads cut segments and headers.
SamplesInOrder == ~odd => \A i \in DOMAIN got : got[i] = Sample(i - 1)

\* The stream is put together as the radio sent it, wherever the reads cut it.  The code
\* loses the last sample of a call that finds an odd number, and swaps channels after it.
SamplesAlwaysInOrder == \A i \in DOMAIN got : got[i] = Sample(i - 1)

\* No byte of a header is handed on as a sample, wherever the reads cut.
OnlySamples == \A i \in DOMAIN buf : buf[i].kind = "sample"

\* Every estimate is the time of the first sample that is copied, so that their
\* mean, which is returned, is too.
StampIsFirst == pc = "loop" /\ buf # <<>> =>
                    numTSest > 0 /\ frameTimestamp = numTSest * buf[1].n

\* Together: what is handed on is what the radio sent, with its time; odd calls aside.
StreamIsWhole == SamplesInOrder /\ OnlySamples /\ StampIsFirst
=============================================================================
