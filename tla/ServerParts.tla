----------------------------- MODULE ServerParts -----------------------------
(***************************************************************************)
(* What surrounds a round of the event loop, side by side: the process     *)
(* that the loop belongs to, from its start to its end, the vector of poll *)
(* descriptors that ::poll is given, entry by entry, the time that passes  *)
(* between rounds that find a device silent, and a client's connection,    *)
(* from round to round.  They share nothing; a behaviour runs one of them, *)
(* and the others rest in some initial state.                              *)
(***************************************************************************)
EXTENDS Server

CONSTANTS   \* of the poll entries, see PollFDs
    Order, Device, Control, MaxFD

CONSTANTS   \* of the time of silence, see StallTimer
    MaxQuiet, Timeout, Recent, MaxClock, Sane, Times

CONSTANTS   \* of a connection, see TCPConnection
    LineLen, MaxLines, MaxOutput, MaxRead, Capacity, Split, Flood

VARIABLE runs       \* which part this behaviour is about

VARIABLES
    present, numFD, indexInPollFD, allpollfds, armed, regen_pollfds, roundPc, next, failing

VARIABLES
    kind, hw, shouldBeRunning, stopped, lastDataReceived, regen, polled, clock, idle,
    offset, quiet, untold, missed, started, crossed, stepped, did

VARIABLES
    sent, wire, inputBuff, outputBuffer, events, slotted, slotEvents, revents, room, peer,
    connRegen, connPc, ran, queued, produced, received, overflowed, failed

Entries == INSTANCE PollFDs WITH pc <- roundPc

Timer == INSTANCE StallTimer

Conn == INSTANCE TCPConnection WITH pc <- connPc, regen_pollfds <- connRegen

ASSUME PartAssumptions ==
    /\ Entries!OrderAssumption /\ Timer!StallAssumption /\ Conn!ConnectionAssumption
    /\ ServerAssumption

entryVars == <<present, numFD, indexInPollFD, allpollfds, armed, regen_pollfds, roundPc,
               next, failing>>
timerVars == <<kind, hw, shouldBeRunning, stopped, lastDataReceived, regen, polled, clock,
               idle, offset, quiet, untold, missed, started, crossed, stepped, did>>
connVars == <<sent, wire, inputBuff, outputBuffer, events, slotted, slotEvents, revents,
              room, peer, connRegen, connPc, ran, queued, produced, received, overflowed,
              failed>>
allVars == <<runs, vars, entryVars, timerVars, connVars>>

ServerInit ==
    /\ runs \in {"descriptors", "timer", "connection", "program"}
    /\ IF runs = "descriptors" THEN TRUE
       ELSE present = {} /\ numFD = [d \in Device |-> 0] /\ armed = FALSE
    /\ IF runs = "timer" THEN TRUE ELSE kind = "alsa" /\ offset = CHOOSE t \in Times : TRUE
    /\ IF runs = "connection" THEN TRUE ELSE queued = 0
    /\ IF runs = "program" THEN TRUE ELSE file = NoFile
    /\ Entries!Init /\ Timer!Init /\ Conn!Init /\ Init

RunEntries ==
    runs = "descriptors" /\ Entries!Next /\ UNCHANGED <<runs, vars, timerVars, connVars>>

RunTimer == runs = "timer" /\ Timer!Next /\ UNCHANGED <<runs, vars, entryVars, connVars>>

\* The connection's part does not move the others.
OnlyConn == runs = "connection" /\ UNCHANGED <<runs, vars, entryVars, timerVars>>

RunConn == OnlyConn /\ Conn!Next

RunProgram ==
    runs = "program" /\ Next /\ UNCHANGED <<runs, entryVars, timerVars, connVars>>

ServerNext == RunEntries \/ RunTimer \/ RunConn \/ RunProgram

RunWayOut(p) ==
    runs = "program" /\ WayOut(p) /\ UNCHANGED <<runs, entryVars, timerVars, connVars>>

\* What is fair for a process and for a connection is in their modules.
ServerFairness ==
    /\ \A p \in Proc : WF_allVars(RunWayOut(p))
    /\ WF_allVars(OnlyConn /\ Conn!Round)
    /\ SF_allVars(OnlyConn /\ \E n \in {0, 1} : Conn!DeviceHandler(n) /\ connPc' = "connection")
    /\ WF_allVars(OnlyConn /\ Conn!ReadAll)

ServerSpec == ServerInit /\ [][ServerNext]_allVars /\ ServerFairness

-----------------------------------------------------------------------------
(* What the parts promise; a property of the processes has the name it has     *)
(* there.                                                                     *)

\* The vector's entries are where the indices say, and their owners'.
EntriesOK == Entries!EntriesOK

\* The control connection's events are in its entry, and hardly anywhere else.
EventsOK == Entries!EventsOK

\* A device is declared stalled only when it is, even if the clock is set meanwhile from
\* near 1970 to the present; or when it was set otherwise, which StallIsReal is about.
NoFalseStall == Timer!NoFalseStall

\* A device that goes silent is reported in time, and one that delivers is not
\* reported as stopped.
StateIsTold == Timer!StateIsTold

\* The lines that a client sends are run as commands: whole, in order, once each.
CommandsAreLines == Conn!CommandsAreLines

\* The client receives what was queued for it, in order, until the buffer overflows.
OutputInOrder == Conn!OutputInOrder

\* Output that waits is asked for in both copies of POLLOUT.
OutputIsArmed == Conn!OutputIsArmed

\* A client whose leaving ::poll has reported does not kill the server.
ToldIsNotKilled == Conn!ToldIsNotKilled

\* Output goes out, unless a write fails or the client stops sending.
OutputGoesOut == Conn!OutputGoesOut

\* A client that leaves is noticed, unless the server is killed first.
LeavingIsNoticed == Conn!LeavingIsNoticed
=============================================================================
