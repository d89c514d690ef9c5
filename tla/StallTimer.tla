----------------------------- MODULE StallTimer -----------------------------
(***************************************************************************)
(* How the server notices that a device has gone silent.  Each round of    *)
(* the event loop that reaches the device, with data or after a timeout,   *)
(* compares the time of day with that of the last data; commands start and *)
(* stop the device; the time of day may be set, forward or back, and from  *)
(* near 1970 to the present, as on a machine that has no clock of its own. *)
(*                                                                         *)
(* Time is in seconds, and passes only while the server waits in ::poll.   *)
(***************************************************************************)
EXTENDS Integers

CONSTANTS
    MaxQuiet,       \* MAX_DEV_QUIET_TIME, 30 in the code
    Timeout,        \* of ::poll, 2 in the code
    Recent,         \* a radio that delivered within this time is running; 2 in the code
    Sane,           \* a time of day below is one of a clock that is not set; 1000000000
    Times,          \* what the time of day may be set to, as what it would then have
                    \* been when the server started
    MaxClock        \* bound on the time since the server's start

StallAssumption ==
    /\ {MaxQuiet, Timeout, Recent, Sane, MaxClock} \subseteq Nat
    /\ Timeout > 0 /\ Recent <= MaxQuiet
    /\ Times \subseteq Nat /\ Times # {}
    /\ \A t \in Times : Recent <= t /\ (t + MaxClock < Sane \/ Sane < t)

VARIABLES
    kind,               \* "alsa" or "radio"
    hw,                 \* the PCM: "closed", "unset" (open, not set up), "open" or
                        \* "running"; a radio's is "open"
    shouldBeRunning,
    stopped,
    lastDataReceived,   \* a time of day; -1 is never
    regen,              \* a regeneration of the poll descriptors is due
    polled              \* indexInPollFD >= 0

\* The world: seconds since the start of the server and since the last round began,
\* and the time of day at the start of the server, by the clock as it is set now.
VARIABLES clock, idle, offset

\* History: seconds since the hardware last had data or was started; seconds since
\* that, or since a client was told that something is wrong; rounds since then that
\* ended a wait but did not get as far as the device; whether the last start succeeded and
\* nothing stopped the device since; whether the clock was set since the last data or
\* start, and whether it was otherwise than from below Sane to above; and what the last
\* step did for the device.
VARIABLES quiet, untold, missed, started, crossed, stepped, did

vars == <<kind, hw, shouldBeRunning, stopped, lastDataReceived, regen, polled,
          clock, idle, offset, quiet, untold, missed, started, crossed, stepped, did>>

Kind == {"alsa", "radio"}

timeNow == offset + clock

TypeOK ==
    /\ kind \in Kind /\ hw \in {"closed", "unset", "open", "running"}
    /\ shouldBeRunning \in BOOLEAN /\ stopped \in BOOLEAN
    /\ lastDataReceived \in Nat \cup {-1}
    /\ regen \in BOOLEAN /\ polled \in BOOLEAN
    /\ clock \in 0..MaxClock /\ idle \in 0..Timeout /\ offset \in Times
    /\ quiet \in 0..MaxClock /\ untold \in 0..MaxClock /\ missed \in Nat
    /\ started \in BOOLEAN /\ crossed \in BOOLEAN /\ stepped \in BOOLEAN
    /\ did \in {"nothing", "data", "problem", "stalled"}

\* A device that has just been opened.
Init ==
    /\ kind \in Kind /\ hw = "open"
    /\ shouldBeRunning = FALSE /\ stopped = TRUE /\ lastDataReceived = -1
    /\ regen = TRUE /\ polled = FALSE
    /\ clock = 0 /\ idle = 0 /\ offset \in Times
    /\ quiet = 0 /\ untold = 0 /\ missed = 0
    /\ started = FALSE /\ crossed = FALSE /\ stepped = FALSE /\ did = "nothing"

-----------------------------------------------------------------------------
(* Time *)

\* A second passes in ::poll, which waits for no more than its timeout.
Tick ==
    /\ idle < Timeout /\ clock < MaxClock
    /\ idle' = idle + 1 /\ clock' = clock + 1
    /\ quiet' = quiet + 1 /\ untold' = untold + 1
    /\ did' = "nothing"
    /\ UNCHANGED <<kind, hw, shouldBeRunning, stopped, lastDataReceived, regen, polled,
                   offset, missed, started, crossed, stepped>>

\* Somebody sets the clock.
ClockSet ==
    /\ offset' \in Times \ {offset}
    /\ crossed' = TRUE
    /\ stepped' = (stepped \/ ~(offset < Sane /\ Sane < offset'))
    /\ did' = "nothing"
    /\ UNCHANGED <<kind, hw, shouldBeRunning, stopped, lastDataReceived, regen, polled,
                   clock, idle, quiet, untold, missed, started>>

-----------------------------------------------------------------------------
(* Commands, which a round runs: no time has passed since it began *)

\* Data, or a start, counts from now.
CountFromNow ==
    /\ lastDataReceived' = timeNow
    /\ quiet' = 0 /\ untold' = 0 /\ missed' = 0 /\ crossed' = FALSE /\ stepped' = FALSE

hw_running ==
    \/ kind = "alsa" /\ hw = "running"
    \/ kind = "radio" /\ timeNow - lastDataReceived < Recent

\* What snd_pcm_prepare and snd_pcm_start make of the PCM.
Restarted == IF kind = "radio" \/ hw = "unset" THEN {hw} ELSE {"open", "running"}

\* start of a device that runs already
StartRunning ==
    /\ idle = 0 /\ hw_running
    /\ shouldBeRunning' = TRUE /\ started' = TRUE
    /\ did' = "nothing"
    /\ UNCHANGED <<kind, hw, stopped, lastDataReceived, regen, polled, clock, idle,
                   offset, quiet, untold, missed, crossed, stepped>>

\* start, which opens an ALSA device again; snd_pcm_start may fail, and nobody is told.
Start ==
    /\ idle = 0 /\ ~hw_running
    /\ shouldBeRunning' = TRUE /\ started' = TRUE /\ stopped' = FALSE
    /\ regen' = TRUE
    /\ hw' \in Restarted
    /\ CountFromNow
    /\ did' = "nothing"
    /\ UNCHANGED <<kind, polled, clock, idle, offset>>

\* start of an ALSA device that cannot be opened, or not be set up: the reply says so,
\* and the device should be running nevertheless.
StartFails ==
    /\ idle = 0 /\ kind = "alsa" /\ hw = "closed"
    /\ shouldBeRunning' = TRUE
    /\ hw' \in {"closed", "unset"}
    /\ untold' = 0 /\ missed' = 0 /\ did' = "problem"
    /\ UNCHANGED <<kind, stopped, lastDataReceived, regen, polled, clock, idle, offset,
                   quiet, started, crossed, stepped>>

\* stop: an ALSA device is closed, a radio is left as it is.
stop ==
    /\ shouldBeRunning' = FALSE /\ stopped' = TRUE /\ started' = FALSE
    /\ regen' = TRUE
    /\ hw' = IF kind = "alsa" THEN "closed" ELSE hw

Stop ==
    /\ idle = 0
    /\ stop
    /\ did' = "nothing"
    /\ UNCHANGED <<kind, lastDataReceived, polled, clock, idle, offset, quiet, untold,
                   missed, crossed, stepped>>

-----------------------------------------------------------------------------
(* Rounds *)

\* Mutant: of ALSA devices only those that run are polled.
HasFDRunning == kind = "radio" \/ (hw = "running" /\ shouldBeRunning)

HasFD == kind = "radio" \/ (hw # "closed" /\ shouldBeRunning)

\* A round begins; some other object may have asked for a regeneration.
Round ==
    /\ idle' = 0
    /\ polled' \in IF regen THEN {HasFD} ELSE {polled, HasFD}
    /\ UNCHANGED <<kind, clock, offset>>

\* The device has no entry, or a regeneration ends the round before its turn.
NotReached ==
    /\ Round
    /\ missed' = IF polled' /\ idle > 0 THEN missed + 1 ELSE missed
    /\ regen' \in IF polled' THEN {TRUE} ELSE BOOLEAN
    /\ did' = "nothing"
    /\ UNCHANGED <<hw, shouldBeRunning, stopped, lastDataReceived, quiet, untold,
                   started, crossed, stepped>>

Reached == Round /\ polled'

\* handleEvents when the hardware has data, whatever hw_getFrames makes of it.
Data ==
    /\ Reached
    /\ kind = "radio" \/ hw = "running"
    /\ CountFromNow
    /\ regen' \in BOOLEAN /\ did' = "data"
    /\ UNCHANGED <<hw, shouldBeRunning, stopped, started>>

\* handleEvents when ALSA returns an error: the client is told, and hw_do_restart may
\* start the device or not.
Error ==
    /\ Reached /\ kind = "alsa"
    /\ hw' \in Restarted
    /\ untold' = 0 /\ missed' = 0
    /\ regen' \in BOOLEAN /\ did' = "problem"
    /\ UNCHANGED <<shouldBeRunning, stopped, lastDataReceived, quiet, started, crossed,
                   stepped>>

\* Mutant: the clock is never set.
TooQuietUnset ==
    shouldBeRunning /\ lastDataReceived >= 0 /\ timeNow - lastDataReceived > MaxQuiet

TooQuiet ==
    /\ shouldBeRunning
    /\ lastDataReceived >= 0 /\ timeNow - lastDataReceived > MaxQuiet
    /\ ~(timeNow > Sane /\ lastDataReceived < Sane)

\* handleEvents without data, or after a timeout.
NoData ==
    /\ Reached /\ ~TooQuiet
    /\ missed' = 0
    /\ regen' \in BOOLEAN /\ did' = "nothing"
    /\ UNCHANGED <<hw, shouldBeRunning, stopped, lastDataReceived, quiet, untold,
                   started, crossed, stepped>>

\* ... for too long: the client is told, and the device is stopped.
Stalled ==
    /\ Reached /\ TooQuiet
    /\ lastDataReceived' = timeNow
    /\ stop
    /\ untold' = 0 /\ missed' = 0 /\ quiet' = 0 /\ crossed' = FALSE /\ stepped' = FALSE
    /\ did' = "stalled"

Next ==
    \/ Tick \/ ClockSet
    \/ StartRunning \/ Start \/ StartFails \/ Stop
    \/ NotReached \/ Data \/ Error \/ NoData \/ Stalled

Spec == Init /\ [][Next]_vars

-----------------------------------------------------------------------------
(* Safety *)

\* A device is declared stalled only when it really had no data for longer than
\* MAX_DEV_QUIET_TIME, even if the clock is set meanwhile, as long as what sets it takes
\* it from near 1970 to the present.  Any other step counts as silence: StallIsReal.
NoFalseStall == [][did' = "stalled" => quiet > MaxQuiet \/ stepped]_vars

\* A device that was started and goes silent does not do so in silence: within
\* MAX_DEV_QUIET_TIME and one timeout of ::poll, or one more for each round that ends
\* before its turn, the client is told; unless the clock was set since it last had
\* data.
StallIsNoticed ==
    started /\ ~crossed => untold <= MaxQuiet + Timeout * (1 + missed)

\* An ALSA device that should be running and delivers is not reported as stopped,
\* however starts fail and restarts succeed.  (A radio is: it delivers before its
\* first start, which then takes it to be running and leaves "stopped" set.)
RunningIsReported ==
    kind = "alsa" /\ did = "data" /\ shouldBeRunning => ~stopped

\* Together: what clients are told of a device is its state.
StateIsTold == StallIsNoticed /\ RunningIsReported

\* "No data received for ... secs": a device that is declared stalled had none for longer
\* than MAX_DEV_QUIET_TIME.  The code takes the time of day for the time that passed.
StallIsReal == [][did' = "stalled" => quiet > MaxQuiet]_vars
=============================================================================
