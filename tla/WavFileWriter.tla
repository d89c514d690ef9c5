--------------------------- MODULE WavFileWriter ---------------------------
(***************************************************************************)
(* One WavFileWriter, the device that feeds it, the thread that creates    *)
(* directories for it, and the commands that direct it to files.  In each  *)
(* round of Pollable::poll the device's handler comes first, then the      *)
(* writer's, then those of the connections ("3", "3_FileWriter",           *)
(* "Socket#..."), and a handler that asks for a regeneration ends the round.*)
(*                                                                         *)
(* Sizes are in frames.  Frames are numbered in the order in which the     *)
(* device delivers them, modulo Modulus, and the number is the frame's     *)
(* timestamp too (a rate of one frame per unit of time).                   *)
(***************************************************************************)
EXTENDS Integers, Sequences, FiniteSets

CONSTANTS
    FrameCounts,    \* FRAMES of rawFile
    Capacity,       \* OUTPUT_BUFFER_SIZE
    MinWrite,       \* MIN_WRITE_SIZE
    MaxChunk,       \* most frames that the device delivers at once
    Modulus,
    FDs,            \* descriptors that open() may return
    Paths,          \* path templates
    NoPath, NoFD, NoFrame

ASSUME WavAssumption ==
    /\ FrameCounts \subseteq Nat \ {0} /\ Capacity \in Nat \ {0} /\ MinWrite \in Nat
    /\ MaxChunk \in 1..Capacity
    /\ Modulus \in Nat /\ Modulus > Capacity + MaxChunk
    /\ NoPath \notin Paths /\ NoFD \notin FDs /\ NoFrame \notin 0..(Modulus - 1)

VARIABLES
    outputBuffer,       \* frames waiting to be written
    framesToWrite,
    pathTemplate,       \* of the recording asked for; NoPath once it is done
    filename,           \* the template that the file's name was made from
    currFileTimestamp,
    headerWritten, timestampCaptured, byteCountdown, ensureDirsState,
    fd,                 \* pollfd.fd
    events,             \* POLLOUT is in pollfd.events
    slot, slotEvents,   \* the writer's entry in allpollfds
    revents,            \* what ::poll reported for it
    regen_pollfds,
    pc,                 \* the handler that is next in the round
    next,               \* the device's next frame
    opened              \* descriptors of files that the process has open

\* History: the frame at the head of the buffer when the timestamp was captured,
\* frames written to the current file, the last frame written, whether the buffer
\* has ever been too full for a frame, and whether a recording has ever been
\* disturbed, by a rawFile before its end or by a write that failed, and the template
\* of the name whose directories were made last.
VARIABLES head, written, lastWritten, lost, disturbed, made

buffers == <<outputBuffer, next, lost>>
naming == <<filename, currFileTimestamp, timestampCaptured, head>>
request == <<pathTemplate, framesToWrite, disturbed>>
file == <<headerWritten, byteCountdown, written, lastWritten>>
polling == <<slot, slotEvents, revents>>
dirs == <<ensureDirsState, made>>
vars == <<outputBuffer, framesToWrite, pathTemplate, filename, currFileTimestamp,
          headerWritten, timestampCaptured, byteCountdown, ensureDirsState, fd,
          events, slot, slotEvents, revents, regen_pollfds, pc, next, opened,
          head, written, lastWritten, lost, disturbed, made>>

Frame == 0..(Modulus - 1)
Plus(f, k) == (f + k) % Modulus

TypeOK ==
    /\ outputBuffer \in Seq(Frame) /\ Len(outputBuffer) <= Capacity
    /\ {pathTemplate, filename, made} \subseteq Paths \cup {NoPath}
    /\ {currFileTimestamp, head, lastWritten} \subseteq Frame \cup {NoFrame}
    /\ {headerWritten, timestampCaptured, events, slotEvents, regen_pollfds, lost, disturbed}
          \subseteq BOOLEAN
    /\ framesToWrite \in FrameCounts
    /\ byteCountdown \in 0..(framesToWrite + 1) /\ written \in 0..framesToWrite
    /\ ensureDirsState \in {"NONE", "WAITING", "CREATED"}
    /\ {fd, slot} \subseteq FDs \cup {NoFD} /\ opened \subseteq FDs
    /\ revents \in {"none", "POLLOUT"}
    /\ pc \in {"top", "device", "writer", "connection", "gone", "crashed"}
    /\ next \in Frame

\* The first rawFile: the writer is constructed and listens to the device.
Init ==
    /\ outputBuffer = <<>> /\ next = 0 /\ lost = FALSE /\ disturbed = FALSE
    /\ pathTemplate \in Paths /\ filename = NoPath
    /\ currFileTimestamp = NoFrame /\ timestampCaptured = FALSE /\ head = NoFrame
    /\ framesToWrite \in FrameCounts
    /\ headerWritten = FALSE /\ byteCountdown = framesToWrite
    /\ written = 0 /\ lastWritten = NoFrame
    /\ ensureDirsState = "NONE" /\ made = NoPath
    /\ fd = NoFD /\ opened = {}
    /\ events = FALSE /\ slot = NoFD /\ slotEvents = FALSE /\ revents = "none"
    /\ regen_pollfds = TRUE
    /\ pc = "top"

-----------------------------------------------------------------------------
(* The round *)

\* regenFDs copies pollfd into the entry; ::poll fills in revents.  A file can
\* always be written; an error of a closed descriptor is excluded by PolledIsOpen.
BeginPoll ==
    /\ pc = "top"
    /\ slot' = IF regen_pollfds THEN fd ELSE slot
    /\ slotEvents' = IF regen_pollfds THEN events ELSE slotEvents
    /\ revents' = IF slot' # NoFD /\ slotEvents' THEN "POLLOUT" ELSE "none"
    /\ regen_pollfds' = FALSE
    /\ pc' = "device"
    /\ UNCHANGED <<buffers, naming, request, file, dirs, fd, events,
                   opened>>

-----------------------------------------------------------------------------
(* queueOutput: the device delivers k frames *)

Room == Capacity - Len(outputBuffer)

\* Mutants: the guard on the captured frame is dropped; one frame of room is lost.
AcceptedAll(k) == k
AcceptedLess(k) == IF timestampCaptured /\ 0 < Room /\ Room <= k THEN Room - 1
                   ELSE IF timestampCaptured /\ Room < k THEN 0 ELSE k

\* What is left of k frames once those that would overwrite a captured first
\* frame are dropped.
Accepted(k) == IF timestampCaptured /\ Room < k THEN Room ELSE k

\* Pollable::queueOutput: the circular buffer drops its oldest frames.
Buffered(k) ==
    LET all == outputBuffer \o [i \in 1..Accepted(k) |-> Plus(next, i - 1)]
    IN  IF Len(all) > Capacity
        THEN SubSeq(all, Len(all) - Capacity + 1, Len(all)) ELSE all

\* Mutant: the time of the last frame, what is buffered is not subtracted.
FirstTimestampLast(k) == (next + Accepted(k) - 1) % Modulus

\* The timestamp that openOutputFile is given.
FirstTimestamp(k) == (next + Accepted(k) - 1 - Len(outputBuffer')) % Modulus

\* POLLOUT is only asked for when there is enough to write.
WorthWriting(n) == n >= MinWrite \/ byteCountdown < MinWrite

\* Mutant: POLLOUT is set in pollfd only, not in its copy in allpollfds.
queueOutputNoCopy(k) ==
    /\ pc = "device"
    /\ next' = Plus(next, k)
    /\ outputBuffer' = Buffered(k)
    /\ lost' = (lost \/ Room < k)
    /\ events' = IF Accepted(k) = 0 THEN events ELSE WorthWriting(Len(outputBuffer'))
    /\ UNCHANGED <<request, headerWritten, byteCountdown, lastWritten, slot,
                   slotEvents, revents>>

queueOutput(k) ==
    /\ pc = "device"
    /\ next' = Plus(next, k)
    /\ outputBuffer' = Buffered(k)
    /\ lost' = (lost \/ Room < k)
    /\ IF Accepted(k) = 0
       THEN UNCHANGED <<events, slotEvents>>
       ELSE /\ events' = WorthWriting(Len(outputBuffer'))
            /\ slotEvents' = (slotEvents \/ slot # NoFD)
    /\ UNCHANGED <<request, headerWritten, byteCountdown, lastWritten, slot, revents>>

\* openOutputFile is called, with a path to open.
WantsFile(k) == fd = NoFD /\ pathTemplate # NoPath /\ Accepted(k) > 0

\* The frames are only buffered: the file is open, its directories are being
\* created, or there is no recording to make.
Buffer(k) ==
    /\ queueOutput(k)
    /\ WantsFile(k) => ensureDirsState = "WAITING"
    /\ pc' = "writer"
    /\ UNCHANGED <<naming, written, dirs, fd, opened, regen_pollfds>>

\* The timestamp is captured and the thread that makes directories is started.
Capture(k) ==
    /\ queueOutput(k)
    /\ WantsFile(k) /\ ensureDirsState = "NONE"
    /\ currFileTimestamp' = FirstTimestamp(k)
    /\ timestampCaptured' = TRUE
    /\ filename' = pathTemplate
    /\ head' = Head(outputBuffer')
    /\ ensureDirsState' = "WAITING"
    /\ pc' = "writer"
    /\ UNCHANGED <<written, made, fd, opened, regen_pollfds>>

\* The directories are there: the file is opened.  A regeneration ends the round
\* after the handler that asked for it.
OpenFile(k) ==
    /\ queueOutput(k)
    /\ WantsFile(k) /\ ensureDirsState = "CREATED"
    /\ \E f \in FDs \ opened : fd' = f /\ opened' = opened \cup {f}
    /\ written' = 0
    /\ ensureDirsState' = "NONE"
    /\ regen_pollfds' = TRUE
    /\ pc' = "top"
    /\ UNCHANGED <<naming, made>>

\* The file cannot be opened: "rawFileError" is reported and the writer removed
\* at the end of the round, which is now since a regeneration is asked for.
OpenFails(k) ==
    /\ queueOutput(k)
    /\ WantsFile(k) /\ ensureDirsState = "CREATED"
    /\ regen_pollfds' = TRUE
    /\ pc' = "gone"
    /\ UNCHANGED <<naming, written, dirs, fd, opened>>

Deliver(k) == Buffer(k) \/ Capture(k) \/ OpenFile(k) \/ OpenFails(k)

NoData ==
    /\ pc = "device"
    /\ pc' = "writer"
    /\ UNCHANGED <<buffers, naming, request, file, polling, dirs, fd,
                   events, opened, regen_pollfds>>

\* ensureDirs, in its own thread; an exception there ends the process.
EnsureDirs ==
    /\ ensureDirsState = "WAITING" /\ pc \notin {"gone", "crashed"}
    /\ \/ ensureDirsState' = "CREATED" /\ made' = filename /\ UNCHANGED pc
       \/ pc' = "crashed" /\ UNCHANGED dirs
    /\ UNCHANGED <<buffers, naming, request, file, polling, fd, events, opened,
                   regen_pollfds>>

-----------------------------------------------------------------------------
(* WavFileWriter::handleEvents *)

\* The writer's handler runs: its entry is writable.
Writable ==
    /\ pc = "writer" /\ slot # NoFD /\ revents = "POLLOUT"
    /\ UNCHANGED <<naming, framesToWrite, dirs, next, lost,
                   slot, revents>>

\* Mutant: no regeneration is asked for.
doneWithoutRegen ==
    /\ fd' = NoFD /\ opened' = opened \ {fd} /\ pathTemplate' = NoPath
    /\ pc' = "connection" /\ UNCHANGED regen_pollfds

\* doneOutputFile without an error: "rawFileDone" is reported.
doneOutputFile ==
    /\ fd' = NoFD
    /\ opened' = opened \ {fd}
    /\ pathTemplate' = NoPath
    /\ regen_pollfds' = TRUE
    /\ pc' = "top"

GoesOn == pc' = "connection" /\ UNCHANGED <<fd, opened, pathTemplate, regen_pollfds>>

\* The writer has no entry, or one with no events.
Idle ==
    /\ pc = "writer"
    /\ slot = NoFD \/ revents = "none"
    /\ pc' = "connection"
    /\ UNCHANGED <<buffers, naming, request, file, polling, dirs, fd,
                   events, opened, regen_pollfds>>

WriteHeader ==
    /\ Writable /\ ~headerWritten
    /\ headerWritten' = TRUE
    /\ \/ fd # NoFD /\ GoesOn /\ UNCHANGED disturbed
       \/ doneOutputFile /\ disturbed' = TRUE
    /\ UNCHANGED <<outputBuffer, byteCountdown, written, lastWritten, events,
                   slotEvents>>

\* Mutant: done one frame early.
IsLastEarly(n) == byteCountdown <= n + 1

\* These n frames complete the file.
IsLast(n) == byteCountdown = n

\* writeSomeOutput writes n frames.
WriteData(n) ==
    /\ Writable /\ headerWritten
    /\ n <= Len(outputBuffer) /\ n <= byteCountdown
    /\ fd # NoFD
    /\ outputBuffer' = SubSeq(outputBuffer, n + 1, Len(outputBuffer))
    /\ lastWritten' = outputBuffer[n]
    /\ written' = written + n
    /\ byteCountdown' = byteCountdown - n
    /\ IF IsLast(n) THEN doneOutputFile ELSE GoesOn
    /\ UNCHANGED <<headerWritten, events, slotEvents, disturbed>>

\* write fails: -1 is subtracted from byteCountdown.
WriteFails ==
    /\ Writable /\ headerWritten
    /\ outputBuffer # <<>>
    /\ events' = FALSE /\ slotEvents' = FALSE
    /\ byteCountdown' = byteCountdown + 1
    /\ doneOutputFile
    /\ disturbed' = TRUE
    /\ UNCHANGED <<outputBuffer, headerWritten, written, lastWritten>>

NothingToWrite ==
    /\ Writable /\ headerWritten
    /\ outputBuffer = <<>>
    /\ events' = FALSE /\ slotEvents' = FALSE
    /\ GoesOn
    /\ UNCHANGED <<outputBuffer, file, disturbed>>

-----------------------------------------------------------------------------
(* Commands *)

\* Mutant: a file that has not been opened yet is renamed at once.
RawFileRenames(p) ==
    /\ pc = "connection"
    /\ disturbed' = (disturbed \/ pathTemplate # NoPath)
    /\ fd' = NoFD
    /\ pathTemplate' = p /\ filename' = p
    /\ headerWritten' = FALSE /\ timestampCaptured' = FALSE
    /\ byteCountdown' = framesToWrite
    /\ written' = 0
    /\ pc' = "top"
    /\ UNCHANGED <<buffers, polling, dirs, currFileTimestamp, head, framesToWrite,
                   lastWritten, events, opened, regen_pollfds>>

\* "rawFile" to path p: resumeWithNewFile, which is given no number of frames.
RawFile(p) ==
    /\ pc = "connection"
    /\ disturbed' = (disturbed \/ pathTemplate # NoPath)
    /\ fd' = NoFD
    /\ pathTemplate' = p
    /\ headerWritten' = FALSE /\ timestampCaptured' = FALSE
    /\ byteCountdown' = framesToWrite
    /\ written' = 0
    /\ pc' = "top"
    /\ UNCHANGED <<buffers, polling, filename, currFileTimestamp, head,
                   framesToWrite, lastWritten, dirs, events, opened,
                   regen_pollfds>>

\* "rawFileOff": the writer is removed when the round ends.
RawFileOff ==
    /\ pc = "connection"
    /\ pc' = "gone"
    /\ UNCHANGED <<buffers, naming, request, file, polling, dirs, fd,
                   events, opened, regen_pollfds>>

\* Other commands and handlers, which may ask for a regeneration.
Others ==
    /\ pc = "connection"
    /\ regen_pollfds' \in BOOLEAN
    /\ pc' = "top"
    /\ UNCHANGED <<buffers, naming, request, file, polling, dirs, fd,
                   events, opened>>

Stopped == pc \in {"gone", "crashed"} /\ UNCHANGED vars

Chunk == 1..MaxChunk
Device == \E k \in Chunk : Deliver(k)
Writer == Idle \/ WriteHeader \/ WriteFails \/ NothingToWrite
          \/ \E n \in 1..Capacity : WriteData(n)
Round == BeginPoll \/ Device \/ NoData \/ Writer \/ Others

Next ==
    \/ Round
    \/ EnsureDirs
    \/ \E p \in Paths : RawFile(p)
    \/ RawFileOff
    \/ Stopped

Spec == Init /\ [][Next]_vars

\* ::poll and the handlers return, the device delivers data again and again, and
\* the thread that makes directories ends.
Fairness == WF_vars(Round) /\ SF_vars(Device) /\ WF_vars(EnsureDirs)

FairSpec == Spec /\ Fairness

-----------------------------------------------------------------------------
(* Safety *)

Consecutive(s) == \A i \in DOMAIN s : s[i] = Plus(s[1], i - 1)

\* Unless the buffer has been too full for what the device delivered, no frame is
\* lost, repeated or reordered between the device and the files, from one file
\* to the next included: what was written last, what is buffered and what the
\* device delivers next are consecutive.
NothingSkipped ==
    ~lost =>
        Consecutive((IF lastWritten = NoFrame THEN <<>> ELSE <<lastWritten>>)
                    \o Append(outputBuffer, next))

\* "Don't allow the start of the buffer to be overwritten": the first frame that
\* is written to a file is the one for which the timestamp was captured, however
\* long its directories take and however fast the device is, unless another
\* rawFile came meanwhile.
FirstFrameKept ==
    [][written = 0 /\ written' > 0 /\ ~disturbed => outputBuffer[1] = head]_vars

\* The time that names a file is one frame before that of the first frame written to
\* it, no more and no less, whatever was buffered or dropped when it was taken, unless
\* frames are missing between those in the buffer or the recording was disturbed.  It
\* bounds the error of StampIsFirstFrame, which is what the help text promises.
StampIsFrameBefore ==
    [][written = 0 /\ written' > 0 /\ Consecutive(outputBuffer) /\ ~disturbed
          => outputBuffer[1] = Plus(currFileTimestamp, 1)]_vars

\* The time that names a file is that of the first frame written to it, even if the
\* buffer holds no gap and nothing disturbed the recording.  The code's is a frame
\* early: it subtracts the length of the whole buffer from the time of its last frame.
StampIsFirstFrame ==
    [][written = 0 /\ written' > 0 /\ Consecutive(outputBuffer) /\ ~disturbed
          => outputBuffer[1] = currFileTimestamp]_vars

\* "rawFileDone" means that all frames of the file have been written, unless a
\* write has failed or a rawFile has come before the last recording was done.
DoneMeansWritten ==
    [][pathTemplate # NoPath /\ pathTemplate' = NoPath
          => written' = framesToWrite \/ disturbed']_vars

\* As long as no rawFile has come before the last recording was done and no write has
\* failed, the only file the process has open is the one being written.
NoLeak == ~disturbed => opened \subseteq {fd}

\* A rawFile closes the file that is being written: whatever comes, the only file the
\* process has open is the one being written.  The code forgets the descriptor.
OpenIsWritten == opened \subseteq {fd}

\* allpollfds never holds a descriptor that has been closed.
PolledIsOpen == pc \in {"device", "writer"} => slot \in opened \cup {NoFD}

\* The writer's class invariant: the types of its fields; that its poll entry is never
\* a closed descriptor, however rawFile and failed writes come; and, until one of these
\* disturbs a recording, that no file but its own is open.
WriterOK == TypeOK /\ NoLeak /\ PolledIsOpen

\* The file that is or will be opened next has the directories that the thread made:
\* the name that the thread reads while the device, the handlers and further rawFile
\* commands go on is still the writer's name when the file is opened, and as long as
\* the file is written.
DirectoriesMade == ensureDirsState = "CREATED" \/ fd # NoFD => made = filename

\* The file being written is named by the path of the last rawFile.  The code ignores a
\* path that comes after the name was made and before the file is opened.
FileUsesLatestPath == fd # NoFD => filename = pathTemplate

-----------------------------------------------------------------------------
(* Liveness *)

Over == pathTemplate = NoPath \/ pc \in {"gone", "crashed"}

\* A recording ends, unless the buffer is full before its file is open.
RecordingEnds ==
    pathTemplate # NoPath ~> Over \/ (fd = NoFD /\ Len(outputBuffer) = Capacity)

\* A recording ends.
RecordingCompletes == pathTemplate # NoPath ~> Over

=============================================================================
