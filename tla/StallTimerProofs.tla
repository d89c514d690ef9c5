-------------------------- MODULE StallTimerProofs --------------------------
(***************************************************************************)
(* What module StallTimer promises holds for any times of waiting, at any  *)
(* distance from the start, for any clocks.                                *)
(***************************************************************************)
EXTENDS StallTimer, TLAPS

\* The count by the time of day and the count by seconds agree as long as the clock is
\* not set between the two ends of the count; if it is, but from below Sane to above only,
\* they are on its two sides.
CountsAgree ==
    /\ untold <= quiet /\ quiet <= clock
    /\ lastDataReceived # -1 /\ ~crossed => timeNow - lastDataReceived = quiet
    /\ crossed /\ ~stepped => lastDataReceived < Sane /\ Sane < offset

\* A device that was started should be running and is polled, or about to be; an ALSA
\* device that is polled is open, and one that runs was started.
StartedIsPolled ==
    /\ started => shouldBeRunning /\ HasFD /\ lastDataReceived >= 0
    /\ started \/ kind = "radio" => regen \/ polled
    /\ kind = "alsa" /\ polled /\ ~regen => shouldBeRunning /\ hw # "closed"
    /\ kind = "alsa" /\ hw = "open" /\ shouldBeRunning => started
    /\ kind = "alsa" /\ hw = "running" => started
    /\ kind = "alsa" /\ started => ~stopped
    /\ kind = "alsa" /\ did = "data" => hw = "running"
    /\ kind = "radio" => hw = "open"

\* How long a device has been silent, and the client not told: what was found in order
\* when the device was last reached, and the rounds since.
SilenceIsBounded ==
    started /\ ~crossed => untold <= MaxQuiet + Timeout * missed + idle

IInv == TypeOK /\ CountsAgree /\ StartedIsPolled /\ SilenceIsBounded

-----------------------------------------------------------------------------

\* A device that has just been opened has no count.
LEMMA InitIInv ==
    ASSUME StallAssumption, Init
    PROVE  IInv
<1>1. TypeOK
  <2>1. /\ Timeout \in Nat /\ MaxClock \in Nat
    BY DEF StallAssumption
  <2>2. lastDataReceived \in Nat \cup {-1}
    BY <2>1 DEF Init
  <2>3. clock \in 0..MaxClock /\ idle \in 0..Timeout /\ quiet \in 0..MaxClock
    BY <2>1 DEF Init
  <2>4. untold \in 0..MaxClock /\ missed \in Nat
    BY <2>1 DEF Init
  <2>5. kind \in Kind /\ hw \in {"closed", "unset", "open", "running"}
    BY DEF Init
  <2>6. did \in {"nothing", "data", "problem", "stalled"}
    BY DEF Init
  <2>7. /\ shouldBeRunning \in BOOLEAN /\ stopped \in BOOLEAN
        /\ regen \in BOOLEAN /\ polled \in BOOLEAN
    BY DEF Init
  <2>8. /\ offset \in Times /\ started \in BOOLEAN
        /\ crossed \in BOOLEAN /\ stepped \in BOOLEAN
    BY DEF Init
  <2> QED
    BY <2>2, <2>3, <2>4, <2>5, <2>6, <2>7, <2>8 DEF TypeOK
<1>2. CountsAgree
  BY DEF Init, CountsAgree, StallAssumption
<1>3. StartedIsPolled
  BY DEF Init, StartedIsPolled, HasFD
<1>4. SilenceIsBounded
  BY DEF Init, SilenceIsBounded
<1> QED
  BY <1>1, <1>2, <1>3, <1>4 DEF IInv

\* Types are kept.
LEMMA TypeKept ==
    ASSUME StallAssumption, IInv, Next
    PROVE  TypeOK'
<1> USE DEF IInv, TypeOK, StallAssumption, Kind, timeNow, CountsAgree, HasFD
<1>0. timeNow \in Nat
  BY DEF TypeOK
<1> HIDE DEF timeNow
<1>1. CASE Tick
  BY <1>1 DEF Tick
<1>2. CASE ClockSet
  BY <1>2 DEF ClockSet
<1>3. CASE StartRunning
  BY <1>3 DEF StartRunning, hw_running
<1>4. CASE Start
  <2>1. lastDataReceived' \in Nat \cup {-1}
    BY <1>0, <1>4 DEF Start, CountFromNow
  <2>2. /\ quiet' \in 0..MaxClock /\ untold' \in 0..MaxClock /\ missed' \in Nat
        /\ clock' \in 0..MaxClock /\ idle' \in 0..Timeout
    BY <1>4 DEF Start, CountFromNow, Restarted
  <2>3. /\ kind' \in Kind /\ hw' \in {"closed", "unset", "open", "running"}
        /\ shouldBeRunning' \in BOOLEAN /\ stopped' \in BOOLEAN /\ regen' \in BOOLEAN
        /\ started' \in BOOLEAN /\ crossed' \in BOOLEAN /\ stepped' \in BOOLEAN
        /\ offset' \in Times
        /\ did' \in {"nothing", "data", "problem", "stalled"}
    BY <1>4 DEF Start, CountFromNow, Restarted
  <2>4. polled' \in BOOLEAN
    BY <1>4 DEF Start, CountFromNow, Restarted
  <2> QED
    BY <2>1, <2>2, <2>3, <2>4 DEF TypeOK
<1>5. CASE StartFails
  BY <1>5 DEF StartFails
<1>6. CASE Stop
  BY <1>6 DEF Stop, stop
<1>7. CASE NotReached
  <2>0. HasFD \in BOOLEAN
    BY DEF HasFD
  <2>1. polled' \in BOOLEAN /\ regen' \in BOOLEAN
    <3> HIDE DEF HasFD
    <3> QED
      BY <1>7, <2>0 DEF NotReached, Round
  <2>2. missed' \in Nat
    BY <1>7 DEF NotReached
  <2> QED
    BY <1>7, <2>1, <2>2 DEF NotReached, Round
<1>8. CASE Data
  <2>1. lastDataReceived' \in Nat \cup {-1}
    BY <1>0, <1>8 DEF Data, CountFromNow
  <2>2. /\ quiet' \in 0..MaxClock /\ untold' \in 0..MaxClock /\ missed' \in Nat
        /\ clock' \in 0..MaxClock /\ idle' \in 0..Timeout
    BY <1>8 DEF Data, Reached, Round, CountFromNow
  <2>3. /\ kind' \in Kind /\ hw' \in {"closed", "unset", "open", "running"}
        /\ shouldBeRunning' \in BOOLEAN /\ stopped' \in BOOLEAN /\ regen' \in BOOLEAN
        /\ started' \in BOOLEAN /\ crossed' \in BOOLEAN /\ stepped' \in BOOLEAN
        /\ offset' \in Times
        /\ did' \in {"nothing", "data", "problem", "stalled"}
    BY <1>8 DEF Data, Reached, Round, CountFromNow
  <2>4. polled' \in BOOLEAN
    BY <1>8 DEF Data, Reached, Round, CountFromNow
  <2> QED
    BY <2>1, <2>2, <2>3, <2>4 DEF TypeOK
<1>9. CASE Error
  BY <1>9 DEF Error, Reached, Round, Restarted
<1>10. CASE NoData
  BY <1>10 DEF NoData, Reached, Round, TooQuiet
<1>11. CASE Stalled
  <2>1. lastDataReceived' \in Nat \cup {-1}
    BY <1>0, <1>11 DEF Stalled
  <2>2. /\ quiet' \in 0..MaxClock /\ untold' \in 0..MaxClock /\ missed' \in Nat
        /\ clock' \in 0..MaxClock /\ idle' \in 0..Timeout
    BY <1>11 DEF Stalled, Reached, Round, stop, TooQuiet
  <2>3. /\ kind' \in Kind /\ hw' \in {"closed", "unset", "open", "running"}
        /\ shouldBeRunning' \in BOOLEAN /\ stopped' \in BOOLEAN /\ regen' \in BOOLEAN
        /\ started' \in BOOLEAN /\ crossed' \in BOOLEAN /\ stepped' \in BOOLEAN
        /\ offset' \in Times
        /\ did' \in {"nothing", "data", "problem", "stalled"}
    BY <1>11 DEF Stalled, Reached, Round, stop, TooQuiet
  <2>4. polled' \in BOOLEAN
    BY <1>11 DEF Stalled, Reached, Round, stop, TooQuiet
  <2> QED
    BY <2>1, <2>2, <2>3, <2>4 DEF TypeOK
<1> QED
  BY <1>1, <1>2, <1>3, <1>4, <1>5, <1>6, <1>7, <1>8, <1>9, <1>10, <1>11 DEF Next

\* Data and starts begin both counts; ticks add to both; setting the clock parts them,
\* from below Sane to above at most once in a count that is not stepped otherwise.
LEMMA CountsKept ==
    ASSUME StallAssumption, IInv, Next
    PROVE  CountsAgree'
<1> USE DEF IInv, TypeOK, StallAssumption, Kind, timeNow, CountsAgree
<1>1. CASE Tick
  BY <1>1 DEF Tick
<1>2. CASE ClockSet
  <2>1. /\ crossed' /\ offset' \in Times /\ lastDataReceived' = lastDataReceived
        /\ untold' = untold /\ quiet' = quiet /\ clock' = clock
        /\ ~stepped' => ~stepped /\ offset < Sane /\ Sane < offset'
    BY <1>2 DEF ClockSet
  <2>2. offset \in Nat /\ (offset < Sane => offset + MaxClock < Sane)
    OBVIOUS
  <2>3. ASSUME ~stepped' PROVE lastDataReceived < Sane
    <3>1. ~crossed /\ offset + MaxClock < Sane
      BY <2>1, <2>2, <2>3
    <3>2. lastDataReceived = -1 \/ lastDataReceived = offset + clock - quiet
      BY <3>1, <2>2
    <3> QED
      BY <3>1, <3>2, <2>2
  <2> QED
    BY <2>1, <2>3
<1>3. CASE StartRunning
  BY <1>3 DEF StartRunning, hw_running
<1>4. CASE Start
  BY <1>4 DEF Start, CountFromNow, Restarted
<1>5. CASE StartFails
  BY <1>5 DEF StartFails
<1>6. CASE Stop
  BY <1>6 DEF Stop, stop
<1>7. CASE NotReached
  BY <1>7 DEF NotReached, Round
<1>8. CASE Data
  BY <1>8 DEF Data, Reached, Round, CountFromNow
<1>9. CASE Error
  BY <1>9 DEF Error, Reached, Round, Restarted
<1>10. CASE NoData
  BY <1>10 DEF NoData, Reached, Round, TooQuiet
<1>11. CASE Stalled
  BY <1>11 DEF Stalled, Reached, Round, stop, TooQuiet
<1> QED
  BY <1>1, <1>2, <1>3, <1>4, <1>5, <1>6, <1>7, <1>8, <1>9, <1>10, <1>11 DEF Next

\* Starting and stopping ask for a regeneration, and a regeneration follows them.
LEMMA PolledKept ==
    ASSUME StallAssumption, IInv, Next
    PROVE  StartedIsPolled'
<1> USE DEF IInv, TypeOK, StallAssumption, Kind, timeNow, StartedIsPolled, HasFD
<1>1. CASE Tick
  BY <1>1 DEF Tick
<1>2. CASE ClockSet
  BY <1>2 DEF ClockSet
<1>3. CASE StartRunning
  BY <1>3 DEF StartRunning, hw_running
<1>4. CASE Start
  BY <1>4 DEF Start, CountFromNow, Restarted
<1>5. CASE StartFails
  BY <1>5 DEF StartFails
<1>6. CASE Stop
  BY <1>6 DEF Stop, stop
<1>7. CASE NotReached
  BY <1>7 DEF NotReached, Round
<1>8. CASE Data
  BY <1>8 DEF Data, Reached, Round, CountFromNow
<1>9. CASE Error
  BY <1>9 DEF Error, Reached, Round, Restarted
<1>10. CASE NoData
  BY <1>10 DEF NoData, Reached, Round, TooQuiet
<1>11. CASE Stalled
  BY <1>11 DEF Stalled, Reached, Round, stop, TooQuiet
<1> QED
  BY <1>1, <1>2, <1>3, <1>4, <1>5, <1>6, <1>7, <1>8, <1>9, <1>10, <1>11 DEF Next

\* A round that passes a device over adds one timeout to the bound.
LEMMA BoundKept ==
    ASSUME StallAssumption, IInv, Next
    PROVE  SilenceIsBounded'
<1> USE DEF IInv, TypeOK, StallAssumption, Kind, timeNow, CountsAgree, StartedIsPolled, SilenceIsBounded, HasFD
<1>1. CASE Tick
  BY <1>1 DEF Tick
<1>2. CASE ClockSet
  BY <1>2 DEF ClockSet
<1>3. CASE StartRunning
  BY <1>3 DEF StartRunning, hw_running
<1>4. CASE Start
  BY <1>4 DEF Start, CountFromNow, Restarted
<1>5. CASE StartFails
  BY <1>5 DEF StartFails
<1>6. CASE Stop
  BY <1>6 DEF Stop, stop
<1>7. CASE NotReached
  BY <1>7 DEF NotReached, Round
<1>8. CASE Data
  BY <1>8 DEF Data, Reached, Round, CountFromNow
<1>9. CASE Error
  BY <1>9 DEF Error, Reached, Round, Restarted
<1>10. CASE NoData
  BY <1>10 DEF NoData, Reached, Round, TooQuiet
<1>11. CASE Stalled
  BY <1>11 DEF Stalled, Reached, Round, stop, TooQuiet
<1> QED
  BY <1>1, <1>2, <1>3, <1>4, <1>5, <1>6, <1>7, <1>8, <1>9, <1>10, <1>11 DEF Next

-----------------------------------------------------------------------------

\* The inductive invariant holds in every state of every behaviour.
THEOREM Invariance ==
    ASSUME StallAssumption
    PROVE  Spec => []IInv
<1>1. Init => IInv
  BY InitIInv
<1>2. IInv /\ [Next]_vars => IInv'
  <2> SUFFICES ASSUME IInv, [Next]_vars
               PROVE  IInv'
    OBVIOUS
  <2>1. CASE Next
    BY <2>1, TypeKept, CountsKept, PolledKept, BoundKept DEF IInv
  <2>2. CASE UNCHANGED vars
    BY <2>2 DEF vars, IInv, TypeOK, CountsAgree, StartedIsPolled, SilenceIsBounded, HasFD,
                timeNow
  <2> QED
    BY <2>1, <2>2
<1> QED
  BY <1>1, <1>2, PTL DEF Spec

\* Whatever the times of waiting and however late: a device is declared stalled only
\* when it had no data for longer than MAX_DEV_QUIET_TIME, or when the clock was set,
\* since its last data, otherwise than from near 1970 to the present.
THEOREM StallsAreReal ==
    ASSUME StallAssumption
    PROVE  Spec => NoFalseStall
<1>1. IInv /\ [Next]_vars => [did' = "stalled" => quiet > MaxQuiet \/ stepped]_vars
  <2> SUFFICES ASSUME IInv, Next, did' = "stalled"
               PROVE  quiet > MaxQuiet \/ stepped
    OBVIOUS
  <2>1. Stalled
    BY DEF Next, Tick, ClockSet, StartRunning, Start, StartFails, Stop, NotReached, Data,
           Error, NoData
  <2> QED
    BY <2>1
       DEF Stalled, TooQuiet, IInv, TypeOK, CountsAgree, StallAssumption, timeNow
<1> QED
  BY <1>1, Invariance, PTL DEF Spec, NoFalseStall

\* A device that goes silent is reported within MAX_DEV_QUIET_TIME and one timeout,
\* or one more for each round that passes it over.
THEOREM StallsAreNoticed ==
    ASSUME StallAssumption
    PROVE  Spec => []StallIsNoticed
<1>1. IInv => StallIsNoticed
  <2> SUFFICES ASSUME IInv, started, ~crossed
               PROVE  untold <= MaxQuiet + Timeout * (1 + missed)
    BY DEF StallIsNoticed
  <2>1. Timeout * (1 + missed) = Timeout + Timeout * missed
    BY DEF IInv, TypeOK, StallAssumption
  <2> QED
    BY <2>1 DEF IInv, TypeOK, SilenceIsBounded, StallAssumption
<1> QED
  BY <1>1, Invariance, PTL

\* An ALSA device that delivers is not reported as stopped.
THEOREM RunningGetsReported ==
    ASSUME StallAssumption
    PROVE  Spec => []RunningIsReported
<1>1. IInv => RunningIsReported
  BY DEF IInv, StartedIsPolled, RunningIsReported
<1> QED
  BY <1>1, Invariance, PTL
=============================================================================
