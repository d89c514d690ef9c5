--------------------------- MODULE TCPConnection ---------------------------
(***************************************************************************)
(* One client and its TCPConnection: the client's command lines on their   *)
(* way to runCommand, and the replies, asynchronous messages and plugin    *)
(* output on their way back, in the rounds of Pollable::poll.  Devices,    *)
(* whose output the connection receives, have their handlers before it.    *)
(*                                                                         *)
(* Text is a sequence of pieces <<line, part>>; a line has LineLen parts,  *)
(* of which the last is its newline.  The client may stop sending, or go,  *)
(* at any moment; what a removal does to the rest is in module Pollable.   *)
(***************************************************************************)
EXTENDS Integers, Sequences, FiniteSets

CONSTANTS
    LineLen,
    MaxLines,       \* lines that the client sends
    MaxOutput,      \* lines of output that devices produce
    MaxRead,        \* MAX_CMD_STRING_LENGTH
    Capacity,       \* RAW_OUTPUT_BUFFER_SIZE
    Split,          \* a line may reach the socket in parts
    Flood           \* more than MaxRead may be waiting to be read

ConnectionAssumption ==
    /\ {LineLen, MaxRead, Capacity} \subseteq Nat \ {0}
    /\ {MaxLines, MaxOutput} \subseteq Nat
    /\ LineLen <= Capacity
    /\ {Split, Flood} \subseteq BOOLEAN

VARIABLES
    sent,           \* pieces the client has sent
    wire,           \* those that have not been read
    inputBuff,
    outputBuffer,
    events,         \* POLLOUT is in pollfd.events
    slotted,        \* indexInPollFD >= 0
    slotEvents,     \* POLLOUT is in the connection's entry of allpollfds
    revents,        \* what ::poll reported
    room,           \* the socket takes output
    peer,           \* the client: it sends and reads, only reads, or has gone
    regen_pollfds,
    pc              \* the handler that is next in the round

\* History: the commands that were run, the lines queued for output, those of
\* them that devices produced, the pieces the client received, whether the output
\* buffer has overflowed, and whether a write has failed since output was queued.
VARIABLES ran, queued, produced, received, overflowed, failed

input == <<wire, inputBuff, ran>>
output == <<outputBuffer, queued, overflowed, failed>>
polling == <<slotted, revents>>
vars == <<sent, wire, inputBuff, outputBuffer, events, slotted, slotEvents, revents,
          room, peer, regen_pollfds, pc, ran, queued, produced, received, overflowed,
          failed>>

Event == {"POLLIN", "POLLOUT", "POLLRDHUP", "POLLHUP"}

\* The connection has been removed, or the whole server killed.
Over == pc \in {"removed", "killed"}

\* Pieces a+1..b of a text.
Stream(a, b) == [p \in 1..(b - a) |-> <<((a + p - 1) \div LineLen) + 1,
                                        ((a + p - 1) % LineLen) + 1>>]
Line(i) == Stream((i - 1) * LineLen, i * LineLen)

Piece == Int \X Int

TypeOK ==
    /\ wire \in Seq(Piece) /\ inputBuff \in Seq(Piece)
    /\ outputBuffer \in Seq(Piece) /\ received \in Seq(Piece)
    /\ sent \in Nat /\ queued \in Nat
    /\ events \in BOOLEAN /\ slotted \in BOOLEAN /\ slotEvents \in BOOLEAN
    /\ revents \subseteq Event /\ room \in BOOLEAN
    /\ peer \in {"open", "half", "gone"}
    /\ pc \in {"top", "device", "connection", "removed", "killed"}
    /\ regen_pollfds \in BOOLEAN /\ overflowed \in BOOLEAN /\ failed \in BOOLEAN

\* TCPListener has accepted the connection; unless the server is quiet it has
\* queued the welcome message.
Init ==
    /\ sent = 0 /\ wire = <<>> /\ inputBuff = <<>> /\ ran = <<>>
    /\ queued \in {0, 1} /\ outputBuffer = Stream(0, queued * LineLen)
    /\ events = (queued = 1)
    /\ slotted = FALSE /\ slotEvents = FALSE /\ revents = {} /\ room = TRUE
    /\ peer = "open"
    /\ regen_pollfds = TRUE
    /\ pc = "top"
    /\ produced = 0 /\ received = <<>> /\ overflowed = FALSE
    /\ failed = FALSE

-----------------------------------------------------------------------------
(* The client *)

\* The client sends a line, or a part of it.
Send(n) ==
    /\ peer = "open" /\ ~Over
    /\ Split \/ n = LineLen
    /\ sent + n <= MaxLines * LineLen
    /\ Flood \/ Len(wire) + n <= MaxRead
    /\ sent' = sent + n
    /\ wire' = wire \o Stream(sent, sent')
    /\ UNCHANGED <<inputBuff, ran, output, polling, events, slotEvents,
                   room, peer, regen_pollfds, pc, produced, received>>

\* The client reads what has been written.
ReadAll ==
    /\ ~room /\ peer # "gone" /\ ~Over
    /\ room' = TRUE
    /\ UNCHANGED <<sent, input, output, polling, events, slotEvents, peer,
                   regen_pollfds, pc, produced, received>>

\* The client stops sending, or closes its socket, with whatever still is under way
\* in either direction.
Leave(p) ==
    /\ ~Over
    /\ \/ peer = "open" /\ p = "half"
       \/ peer # "gone" /\ p = "gone"
    /\ peer' = p
    /\ UNCHANGED <<sent, input, output, polling, events, slotEvents, room,
                   regen_pollfds, pc, produced, received>>

-----------------------------------------------------------------------------
(* The round *)

\* What ::poll reports of a stream socket.  One whose peer has stopped sending is
\* readable, and one whose peer has gone takes output too.
Reported(out) ==
    {e \in Event :
        \/ e = "POLLIN" /\ (wire # <<>> \/ peer # "open")
        \/ e = "POLLOUT" /\ out /\ (room \/ peer = "gone")
        \/ e = "POLLRDHUP" /\ peer # "open"
        \/ e = "POLLHUP" /\ peer = "gone"}

\* regenFDs and ::poll.
BeginPoll ==
    /\ pc = "top"
    /\ slotted' = (slotted \/ regen_pollfds)
    /\ slotEvents' = IF regen_pollfds THEN events ELSE slotEvents
    /\ revents' = Reported(slotEvents')
    /\ regen_pollfds' = FALSE
    /\ pc' = "device"
    /\ UNCHANGED <<sent, input, output, events, room, peer, produced, received>>

\* Mutant: new output goes to the front.
AppendedInFront(n) == Stream(queued * LineLen, (queued + n) * LineLen) \o outputBuffer

\* The output buffer with n more lines.
Appended(n) == outputBuffer \o Stream(queued * LineLen, (queued + n) * LineLen)

\* What is too much for the circular buffer.
Excess(n) == IF Len(Appended(n)) > Capacity THEN Len(Appended(n)) - Capacity ELSE 0

\* Mutant: POLLOUT is set in pollfd only.
ArmNoCopy == events' = TRUE /\ UNCHANGED slotEvents

\* POLLOUT is asked for, in pollfd and in its copy in allpollfds.
Arm == events' = TRUE /\ slotEvents' = (slotEvents \/ slotted)

\* Pollable::queueOutput, for n lines: the oldest pieces give way.
queueOutput(n) ==
    /\ queued' = queued + n
    /\ outputBuffer' = SubSeq(Appended(n), Excess(n) + 1, Len(Appended(n)))
    /\ overflowed' = (overflowed \/ Excess(n) > 0)
    /\ failed' = (failed /\ n = 0)
    /\ IF n = 0 THEN UNCHANGED <<events, slotEvents>> ELSE Arm

\* A device's handler has plugin output, raw data or a message for the client, or
\* none; it may ask for a regeneration, which ends the round.
DeviceHandler(n) ==
    /\ pc = "device"
    /\ produced + n <= MaxOutput
    /\ produced' = produced + n
    /\ queueOutput(n)
    /\ regen_pollfds' \in BOOLEAN
    /\ pc' = IF regen_pollfds' THEN "top" ELSE "connection"
    /\ UNCHANGED <<sent, input, polling, room, peer, received>>

\* remove, and the regeneration that ends the round; doDeferrals then destroys the
\* connection, and what it has not read or written is lost.
Removed ==
    /\ regen_pollfds' = TRUE
    /\ pc' = "removed"
    /\ UNCHANGED <<sent, input, output, polling, events, slotEvents, room, peer,
                   produced, received>>

\* handleEvents when the client has gone.
HandleHangup ==
    /\ pc = "connection" /\ slotted /\ "POLLHUP" \in revents
    /\ Removed

\* Mutant: that nothing is read is not taken for the end of the stream.
HandleEndIgnored ==
    /\ pc = "connection" /\ slotted
    /\ "POLLRDHUP" \in revents /\ "POLLHUP" \notin revents /\ wire = <<>>
    /\ pc' = "top"
    /\ UNCHANGED <<sent, input, output, polling, events, slotEvents, room, peer,
                   regen_pollfds, produced, received>>

\* handleEvents when the client has stopped sending and all has been read: read
\* returns 0, which is taken for a client that has gone.
HandleEnd ==
    /\ pc = "connection" /\ slotted
    /\ "POLLRDHUP" \in revents /\ "POLLHUP" \notin revents /\ wire = <<>>
    /\ Removed

\* The newlines of a text.
Newlines(text) == {p \in 1..Len(text) : text[p][2] = LineLen}

\* They are found in order, the i-th with i newlines up to it.
Ends(text) ==
    LET found == Newlines(text)
    IN  [i \in 1..Cardinality(found) |->
            CHOOSE p \in found : Cardinality({q \in found : q <= p}) = i]

\* Mutant: the newline of the last command is not dropped.
StartAtNewline(ends, i) == IF i = 1 THEN 1 ELSE ends[i - 1]

\* Where the command of the i-th newline starts.
Start(ends, i) == IF i = 1 THEN 1 ELSE ends[i - 1] + 1

\* What is kept of a text without newlines: inputBuff.npos is the largest size_t,
\* so that more than the whole text is erased.
Kept(text) == <<>>

\* handleEvents with input: every complete line is a command, and has a reply.
\* Output has to wait for another round.
HandleInput ==
    /\ pc = "connection" /\ slotted /\ "POLLIN" \in revents /\ "POLLHUP" \notin revents
    /\ wire # <<>>
    /\ LET len == IF Len(wire) < MaxRead THEN Len(wire) ELSE MaxRead
           text == inputBuff \o SubSeq(wire, 1, len)
           ends == Ends(text)
           last == IF ends = <<>> THEN 0 ELSE ends[Len(ends)]
       IN  /\ wire' = SubSeq(wire, len + 1, Len(wire))
           /\ ran' = ran \o [i \in DOMAIN ends |-> SubSeq(text, Start(ends, i), ends[i])]
           /\ inputBuff' = Kept(SubSeq(text, last + 1, Len(text)))
           /\ queueOutput(Cardinality(Newlines(text)))
    /\ regen_pollfds' \in BOOLEAN
    /\ pc' = "top"
    /\ UNCHANGED <<sent, polling, room, peer, produced, received>>

\* handleEvents without input: writeSomeOutput writes n pieces, and may fill up
\* the socket.
Write(n) ==
    /\ n <= Len(outputBuffer) /\ peer # "gone"
    /\ outputBuffer' = SubSeq(outputBuffer, n + 1, Len(outputBuffer))
    /\ received' = received \o SubSeq(outputBuffer, 1, n)
    /\ room' \in BOOLEAN
    /\ pc' = "top"
    /\ UNCHANGED <<events, slotEvents, failed>>

\* There is nothing to write, or write fails: POLLOUT is no longer asked for.
Disarm ==
    /\ outputBuffer = <<>> \/ peer # "gone"
    /\ events' = FALSE /\ slotEvents' = FALSE
    /\ failed' = (outputBuffer # <<>>)
    /\ pc' = "top"
    /\ UNCHANGED <<outputBuffer, received, room>>

\* The client has gone since ::poll: nobody handles SIGPIPE, which ends the server.
BrokenPipe ==
    /\ outputBuffer # <<>> /\ peer = "gone"
    /\ pc' = "killed"
    /\ UNCHANGED <<outputBuffer, events, slotEvents, failed, received, room>>

\* Mutant: output is looked after before the end of the stream.
HandleOutputFirst ==
    /\ pc = "connection" /\ slotted /\ "POLLOUT" \in revents
    /\ Disarm \/ BrokenPipe \/ \E n \in 1..Capacity : Write(n)
    /\ UNCHANGED <<sent, input, queued, overflowed, polling, regen_pollfds, peer,
                   produced>>

HandleOutput ==
    /\ pc = "connection" /\ slotted /\ revents = {"POLLOUT"}
    /\ Disarm \/ BrokenPipe \/ \E n \in 1..Capacity : Write(n)
    /\ UNCHANGED <<sent, input, queued, overflowed, polling, regen_pollfds, peer,
                   produced>>

NoEvent ==
    /\ pc = "connection"
    /\ slotted => revents = {}
    /\ pc' = "top"
    /\ UNCHANGED <<sent, input, output, polling, events, slotEvents, room, peer,
                   regen_pollfds, produced, received>>

Round ==
    \/ BeginPoll
    \/ \E n \in {0, 1} : DeviceHandler(n)
    \/ HandleHangup \/ HandleEnd \/ HandleInput \/ HandleOutput \/ NoEvent

Next ==
    \/ Round \/ ReadAll
    \/ \E n \in 1..LineLen : Send(n)
    \/ \E p \in {"half", "gone"} : Leave(p)

Spec == Init /\ [][Next]_vars

\* ::poll and handlers return, rounds are not always cut short before the
\* connection's turn, and the client goes on reading.
Fairness ==
    /\ WF_vars(Round)
    /\ SF_vars(\E n \in {0, 1} : DeviceHandler(n) /\ pc' = "connection")
    /\ WF_vars(ReadAll)

FairSpec == Spec /\ Fairness

-----------------------------------------------------------------------------
(* Safety *)

\* The lines that the client sends are run as commands: whole, in order, once
\* each, and none that has been read is forgotten.
CommandsAreLines ==
    /\ \A i \in 1..Len(ran) : ran[i] = Line(i)
    /\ Len(ran) * LineLen + Len(inputBuff) + Len(wire) = sent

\* As long as the output buffer does not overflow the client receives all lines
\* queued for it, whole and in the order in which they were queued, however
\* writes, replies and the output of devices interleave.
OutputInOrder ==
    ~overflowed => received \o outputBuffer = Stream(0, queued * LineLen)

\* Output that is waiting is asked for by the next ::poll, unless a write has failed:
\* no interleaving of queueOutput, writeSomeOutput and regenFDs loses POLLOUT.
OutputIsArmed ==
    outputBuffer # <<>> /\ ~failed => events /\ (slotEvents \/ regen_pollfds)

\* The server is never killed by a client whose leaving ::poll has told it of: the
\* order in which handleEvents looks at revents leaves only the client that goes
\* between ::poll and the write.
ToldIsNotKilled == pc = "killed" => revents \cap {"POLLHUP", "POLLRDHUP"} = {}

-----------------------------------------------------------------------------
(* Liveness *)

\* Output that is queued goes out, unless a write fails or the client stops sending:
\* a client that shuts its side down after its last command gets no more replies.
OutputGoesOut == outputBuffer # <<>> ~> outputBuffer = <<>> \/ failed \/ peer # "open"

\* A client that leaves is noticed: its connection is removed, unless the server is
\* killed first.
LeavingIsNoticed == peer # "open" ~> Over

=============================================================================
