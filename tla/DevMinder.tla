----------------------------- MODULE DevMinder -----------------------------
(***************************************************************************)
(* The data path of one open, running device: DevMinder::handleEvents      *)
(* takes the frames that the hardware has, subsamples them in place for    *)
(* the raw listeners' rate, demodulates them if asked to, and hands the    *)
(* same buffer to every raw listener and every plugin.                     *)
(*                                                                         *)
(* A sample is <<n, j>>: channel j of the n-th frame that was taken; <<n>> *)
(* is what FM demodulation makes of the n-th frame.  Rates are in units    *)
(* that keep HwRate small.  No caller asks for averaging; where memory     *)
(* that is not assigned yet asks for it, a sample stands for the average   *)
(* that ends with it.                                                      *)
(***************************************************************************)
EXTENDS Integers, Sequences

CONSTANTS
    Label,          \* of raw listeners
    NumChans,       \* values of numChan
    HwRate,         \* hwRate
    Rate,           \* rate, given when the device was opened
    Requested,      \* the rates that raw listeners ask for
    ShortMax,       \* the greatest int16_t, 32767
    Garbage,        \* what downSampleCount may hold before it is assigned; a count of 0
                    \* or less is written as that plus 2^16, the steps it takes to 0
    MaxAvail,       \* most frames delivered at once
    MaxFrame        \* bound on the frames that are taken

\* A rate of 0, or a raw stream faster than the hardware, divides by zero in the
\* code; such requests are left out.
DeviceAssumption ==
    /\ NumChans \subseteq 1..2
    /\ HwRate \in Nat \ {0} /\ Rate \in 1..HwRate /\ Requested \subseteq 1..HwRate
    /\ ShortMax \in Nat \ {0}
    /\ Garbage \subseteq 1..(2 * (ShortMax + 1)) /\ Garbage # {}
    /\ MaxAvail \in Nat \ {0} /\ MaxFrame \in Nat

VARIABLES
    numChan,
    rawListeners,       \* labels of the raw listeners, live or not
    live,               \* labels of the objects that exist
    plugged,            \* some plugin is in plugins
    demodFMForRaw,
    downSampleFactor,
    downSampleCount,
    taken               \* number of frames the hardware has delivered

\* History: the frames each raw listener was given since it was registered, each
\* the sequence of its samples; the samples it was given on top of them; whether the
\* counts have been assigned; and the pairs of samples that the plugin was given since
\* it was attached or the counts were assigned.
VARIABLES got, left, counted, fed

given == <<got, left, counted, fed>>
vars == <<numChan, rawListeners, live, plugged, demodFMForRaw, downSampleFactor,
          downSampleCount, taken, given>>

Channel == 0..(numChan - 1)

\* The conversion of an int to an int16_t.
ToShort(x) == ((x + ShortMax + 1) % (2 * (ShortMax + 1))) - (ShortMax + 1)

\* A place in sampleBuf that this delivery has not filled.
Stale == <<>>

\* What Garbage leaves in downSampleCount may be more than any factor.
TypeOK ==
    /\ numChan \in NumChans
    /\ rawListeners \subseteq Label /\ live \subseteq Label
    /\ plugged \in BOOLEAN /\ demodFMForRaw \in BOOLEAN
    /\ downSampleFactor \in -(ShortMax + 1)..ShortMax
    /\ downSampleCount \in [Channel -> Int]
    /\ downSampleFactor > 1 => \A j \in Channel : downSampleCount[j] > 0
    /\ counted \in BOOLEAN
    /\ taken \in 0..MaxFrame

Init ==
    /\ numChan \in NumChans
    /\ rawListeners = {} /\ live = {} /\ plugged = FALSE
    /\ demodFMForRaw = FALSE
    /\ downSampleFactor = ToShort(HwRate \div Rate)
    /\ downSampleCount \in [Channel -> Garbage]
    /\ taken = 0
    /\ got = [l \in Label |-> <<>>] /\ left = [l \in Label |-> <<>>]
    /\ counted = FALSE /\ fed = <<>>

-----------------------------------------------------------------------------
(* Commands *)

\* Mutant: every raw listener's rate is taken over, the counts are not reset.
addRawListenerAlways(l, r) ==
    /\ rawListeners' = rawListeners \cup {l}
    /\ live' = live \cup {l}
    /\ downSampleFactor' = ToShort(HwRate \div r)
    /\ got' = [got EXCEPT ![l] = <<>>] /\ left' = [left EXCEPT ![l] = <<>>]
    /\ UNCHANGED <<downSampleCount, counted, fed>>

\* addRawListener: only the rate of a listener that is alone in the set counts,
\* and listeners that are gone stay in the set until the next delivery.
addRawListener(l, r) ==
    /\ rawListeners' = rawListeners \cup {l}
    /\ live' = live \cup {l}
    /\ IF rawListeners' = {l}
       THEN /\ downSampleFactor' = ToShort(HwRate \div r)
            /\ downSampleCount' = [j \in Channel |-> ToShort(HwRate \div r)]
            /\ counted' = TRUE
            /\ fed' = IF counted THEN fed ELSE <<>>
       ELSE UNCHANGED <<downSampleFactor, downSampleCount, counted, fed>>
    /\ got' = [got EXCEPT ![l] = <<>>] /\ left' = [left EXCEPT ![l] = <<>>]

\* rawStream of a client l, again and again if it likes.
RawStream(l, r, fm) ==
    /\ demodFMForRaw' = fm
    /\ addRawListener(l, r)
    /\ UNCHANGED <<numChan, plugged, taken>>

\* rawStreamOff
RawStreamOff(l) ==
    /\ l \in rawListeners
    /\ rawListeners' = rawListeners \ {l}
    /\ UNCHANGED <<numChan, live, plugged, demodFMForRaw, downSampleFactor,
                   downSampleCount, taken, given>>

\* A client hangs up: the set's weak pointer expires.
Expire(l) ==
    /\ l \in live
    /\ live' = live \ {l}
    /\ UNCHANGED <<numChan, rawListeners, plugged, demodFMForRaw, downSampleFactor,
                   downSampleCount, taken, given>>

\* fmOn, fmOff
setDemodFMForRaw(fm) ==
    /\ demodFMForRaw' = fm
    /\ UNCHANGED <<numChan, rawListeners, live, plugged, downSampleFactor,
                   downSampleCount, taken, given>>

\* attach, detach
Plug ==
    /\ plugged' = ~plugged
    /\ fed' = <<>>
    /\ UNCHANGED <<numChan, rawListeners, live, demodFMForRaw, downSampleFactor,
                   downSampleCount, taken, got, left, counted>>

-----------------------------------------------------------------------------
(* Deliveries *)

\* sampleBuf after hw_getFrames has put n frames into it.
Frames(n) ==
    [s \in 0..(2 * MaxAvail - 1) |->
        IF s < n * numChan THEN <<taken + s \div numChan, s % numChan>> ELSE Stale]

\* The loop over the n samples of channel j, in place.
Subsample(b, j, n) ==
    LET f[i \in 0..n] ==
          IF i = 0 THEN [buf |-> b, count |-> downSampleCount[j], kept |-> 0]
          ELSE LET s == f[i - 1] IN
               IF s.count > 1 THEN [s EXCEPT !.count = @ - 1]
               ELSE [buf   |-> [s.buf EXCEPT ![numChan * s.kept + j] =
                                                s.buf[numChan * (i - 1) + j]],
                     count |-> downSampleFactor,
                     kept  |-> s.kept + 1]
    IN  f[n]

\* The loop over the channels: the buffer, the counts, and the number of frames
\* that are kept, which is that of the last channel.
Downsampled(n) ==
    IF ~(downSampleFactor > 1)
    THEN [buf |-> Frames(n), count |-> downSampleCount, kept |-> n]
    ELSE LET f[j \in 0..numChan] ==
               IF j = 0 THEN [buf |-> Frames(n), count |-> downSampleCount, kept |-> n]
               ELSE LET s == f[j - 1]
                        r == Subsample(s.buf, j - 1, n)
                    IN  [r EXCEPT !.count = [s.count EXCEPT ![j - 1] = r.count]]
         IN  f[numChan]

demodulating == numChan = 2 /\ demodFMForRaw

\* In place FM demodulation of k frames.  The phase of frame i is taken from its
\* own two samples; <<n>> stands for the result.
Demodulated(b, k) ==
    IF demodulating
    THEN [s \in DOMAIN b |->
            IF s < k /\ b[2 * s][1] = b[2 * s + 1][1] THEN <<b[2 * s][1]>> ELSE b[s]]
    ELSE b

\* handleEvents when n frames are available.  Listeners are given numChan slots for
\* each frame that is kept.  Demodulation leaves one sample of a frame: the slots behind
\* those hold what was there before, and go out with them.
HandleEvents(n) ==
    LET d == Downsampled(n)
        b == Demodulated(d.buf, d.kept)
        width == IF demodulating THEN 1 ELSE numChan
        raw == [i \in 1..d.kept |-> [c \in 1..width |-> b[width * (i - 1) + c - 1]]]
        rest == [s \in 1..((numChan - width) * d.kept) |-> b[width * d.kept + s - 1]]
        plug == [i \in 1..d.kept |-> <<b[2 * i - 2], b[2 * i - 1]>>]
    IN  /\ taken + n <= MaxFrame
        /\ taken' = taken + n
        /\ downSampleCount' = d.count
        /\ rawListeners' = rawListeners \cap live
        /\ got' = [l \in Label |-> IF l \in rawListeners' THEN got[l] \o raw ELSE got[l]]
        /\ left' = [l \in Label |-> IF l \in rawListeners' THEN left[l] \o rest ELSE left[l]]
        /\ fed' = IF plugged THEN fed \o plug ELSE fed
        /\ UNCHANGED <<numChan, live, plugged, demodFMForRaw, downSampleFactor, counted>>

Next ==
    \/ \E l \in Label, r \in Requested, fm \in BOOLEAN : RawStream(l, r, fm)
    \/ \E l \in Label : RawStreamOff(l) \/ Expire(l)
    \/ \E fm \in BOOLEAN : setDemodFMForRaw(fm)
    \/ Plug
    \/ \E n \in 1..MaxAvail : HandleEvents(n)

Spec == Init /\ [][Next]_vars

-----------------------------------------------------------------------------
(* Safety *)

Spaced(seq, f) == \A k \in 1..(Len(seq) - 1) : seq[k + 1][1][1] - seq[k][1][1] = f

\* A factor of 1, or one that the conversion has taken below, leaves all frames.
Spacing == IF downSampleFactor > 1 THEN downSampleFactor ELSE 1

\* A raw listener is given every downSampleFactor-th frame, demodulated or not: none
\* of these frames is given twice and none is missing, however they fall into
\* deliveries, and whatever other clients ask for, or leave, meanwhile.  What a
\* demodulated frame leaves behind it in the buffer is RawIsMono's matter.
RawIsRegular == \A l \in rawListeners : Spaced(got[l], Spacing)

\* The two samples of a pair are those of one frame, unless one is demodulated.
Paired(pairs) ==
    \A i \in DOMAIN pairs : Len(pairs[i][1]) = 2 => pairs[i][1][1] = pairs[i][2][1]

\* What listeners are given as a frame is one: subsampling a channel never disturbs
\* another, both keep the same frames, and demodulation takes a frame's own samples.
\* Nor is a plugin of a stereo device given the channels of two frames, once a raw
\* listener has had the counts assigned and as long as nothing is demodulated.
ChannelsTogether ==
    /\ \A l \in rawListeners : \A i \in DOMAIN got[l] :
         LET frame == got[l][i]
             n == frame[1][1]
         IN  frame \in {[c \in 1..numChan |-> <<n, c - 1>>], <<<<n>>>>}
    /\ numChan = 2 /\ counted => Paired(fed)

\* Together: what listeners are given as frames is the sound, at their rate.
RawIsWhole == RawIsRegular /\ ChannelsTogether

\* Subsampling "works the same for all channels": the plugin of a stereo device is never
\* given the channels of two frames, even before any raw listener has come.  The code
\* assigns the counts in addRawListener only.
PairsTogether == numChan = 2 => Paired(fed)

\* The plugin of a stereo device is given the samples of the device, whatever is done for
\* the raw listeners.  The code gives it the buffer that fmOn has demodulated.
PluginsSeeSamples == numChan = 2 => \A i \in DOMAIN fed : Len(fed[i][1]) = 2

\* Demodulation leaves a single channel: nothing but one sample of each frame is given.
\* The code sends as many bytes as before, the second half of them what was left over.
RawIsMono == \A l \in rawListeners : left[l] = <<>>
=============================================================================
