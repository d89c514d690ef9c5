---------------------------- MODULE PluginRunner ----------------------------
(***************************************************************************)
(* PluginRunner::handleData: the frames that a device delivers are put     *)
(* together to blocks of Block frames, which overlap when Step < Block,    *)
(* and each is given to the plugin with the timestamp of its first frame.  *)
(*                                                                         *)
(* Frames are numbered as the hardware takes them, and a frame's number is *)
(* its timestamp too (one frame per unit of time).  A frame stands for its *)
(* sample on every channel.  The while loop makes one step per iteration.  *)
(***************************************************************************)
EXTENDS Integers

CONSTANTS
    Block, Step,    \* blockSize, stepSize
    MaxAvail,       \* most frames delivered at once
    MaxFrame,       \* bound on the frames that are numbered
    Gaps            \* the hardware may lose frames between two deliveries

\* loadPlugin sees to it that the step is not longer than the block.
ASSUME BlockAssumption ==
    /\ Block \in Nat \ {0} /\ Step \in 1..Block
    /\ MaxAvail \in Nat /\ MaxFrame \in Nat
    /\ Gaps \in BOOLEAN

VARIABLES
    plugbuf,            \* the frame in each place of the plugin's buffer
    framesInPlugBuf,
    frameTimestamp,     \* of the buffer's first frame, once handleData runs
    avail,              \* frames of the delivery that are left
    src,                \* the first of them
    totalFrames,
    pc

\* History: the block that the plugin was given last and its timestamp, the number
\* of blocks, and whether the hardware has lost frames.
VARIABLES block, stamp, blocks, lost

given == <<block, stamp, blocks>>
vars == <<plugbuf, framesInPlugBuf, frameTimestamp, avail, src, totalFrames, pc,
          block, stamp, blocks, lost>>

Place == 0..(Block - 1)

TypeOK ==
    /\ plugbuf \in [Place -> Nat] /\ block \in [Place -> Nat]
    /\ framesInPlugBuf \in Place
    /\ frameTimestamp \in Int /\ stamp \in Int
    /\ avail \in Nat /\ src \in Nat /\ totalFrames \in Nat /\ blocks \in Nat
    /\ pc \in {"idle", "copy"}
    /\ lost \in BOOLEAN

Init ==
    /\ plugbuf = [i \in Place |-> 0] /\ block = plugbuf
    /\ framesInPlugBuf = 0
    /\ frameTimestamp = 0 /\ stamp = 0
    /\ avail = 0 /\ src = 0 /\ totalFrames = 0 /\ blocks = 0
    /\ pc = "idle"
    /\ lost = FALSE

\* handleData is called with n frames, g frames having been lost before them.
HandleData(n, g) ==
    /\ pc = "idle"
    /\ src + g + n <= MaxFrame
    /\ g = 0 \/ Gaps
    /\ avail' = n /\ src' = src + g
    /\ frameTimestamp' = src' - framesInPlugBuf
    /\ lost' = (lost \/ g > 0)
    /\ pc' = "copy"
    /\ UNCHANGED <<plugbuf, framesInPlugBuf, totalFrames, given>>

\* hw_frames_to_copy
Copied == IF avail < Block - framesInPlugBuf THEN avail ELSE Block - framesInPlugBuf

\* The buffer once they are copied.
Filled == [i \in Place |-> IF i \in framesInPlugBuf..(framesInPlugBuf + Copied - 1)
                           THEN src + i - framesInPlugBuf ELSE plugbuf[i]]

Copy ==
    /\ pc = "copy" /\ avail > 0
    /\ avail' = avail - Copied /\ src' = src + Copied
    /\ totalFrames' = totalFrames + Copied
    /\ UNCHANGED <<pc, lost>>

\* The block is not complete.
Fill ==
    /\ Copy
    /\ framesInPlugBuf + Copied < Block
    /\ plugbuf' = Filled
    /\ framesInPlugBuf' = framesInPlugBuf + Copied
    /\ UNCHANGED <<frameTimestamp, given>>

\* Mutant: the overlap is not moved to the front.
ShiftedNot(b) == b

\* Where the frames that stay for the next block are moved to.
Shifted(b) == [i \in Place |-> IF i < Block - Step THEN b[i + Step] ELSE b[i]]

\* Mutant: the next block's timestamp is a whole block later, although they
\* overlap.
ProcessWholeBlock ==
    /\ Copy
    /\ framesInPlugBuf + Copied = Block
    /\ block' = Filled /\ stamp' = frameTimestamp /\ blocks' = blocks + 1
    /\ plugbuf' = Shifted(Filled)
    /\ framesInPlugBuf' = Block - Step
    /\ frameTimestamp' = frameTimestamp + Block

\* The block is complete: process is called, and the block shifted.
Process ==
    /\ Copy
    /\ framesInPlugBuf + Copied = Block
    /\ block' = Filled /\ stamp' = frameTimestamp /\ blocks' = blocks + 1
    /\ plugbuf' = Shifted(Filled)
    /\ framesInPlugBuf' = Block - Step
    /\ frameTimestamp' = frameTimestamp + Step

Return ==
    /\ pc = "copy" /\ avail = 0
    /\ pc' = "idle"
    /\ UNCHANGED <<plugbuf, framesInPlugBuf, frameTimestamp, avail, src,
                   totalFrames, given, lost>>

Next ==
    \/ \E n \in 0..MaxAvail, g \in 0..1 : HandleData(n, g)
    \/ Fill \/ Process \/ Return

Spec == Init /\ [][Next]_vars

-----------------------------------------------------------------------------
(* Safety *)

\* As long as the hardware loses nothing the plugin gets all of the sound: the
\* k-th block holds the Block frames from (k - 1) * Step on, in order, however
\* the deliveries fall.
BlocksInOrder ==
    ~lost /\ blocks > 0 => \A i \in Place : block[i] = (blocks - 1) * Step + i

\* The plugin is told the timestamp of the first frame of the block.
StampIsFirst == blocks > 0 => stamp = block[0]

\* The same, as long as the hardware loses nothing.
StampIsFirstUnlessLost == ~lost => StampIsFirst

\* Every frame that was delivered and is not left over is in some block or waits
\* in the buffer: totalFrames counts them all.
FramesAccountedFor ==
    ~lost => /\ totalFrames = src
             /\ totalFrames = blocks * Step + framesInPlugBuf

\* The plugin is given all of the sound, once, in order.
SoundIsWhole == BlocksInOrder /\ FramesAccountedFor
=============================================================================
