---------------------------- MODULE ServerProofs ----------------------------
(***************************************************************************)
(* What module Server promises of its ways out and its start holds for any *)
(* number of processes; and what the proofs about the poll entries, the    *)
(* time of silence and a connection show holds of them among the parts.    *)
(***************************************************************************)
EXTENDS ServerParts, TLAPS

\* How a process leaves, where it is and what the destructors are told agree.
WayOutAgrees ==
    \A p \in Proc :
        /\ leaving[p] = "signal" => terminating[p]
        /\ pc[p] = "exiting" => leaving[p] \in {"quit", "signal"}
        /\ leaving[p] = "killed" => pc[p] = "ended"
        /\ misused[p] => leaving[p] \in {"quit", "killed"}

\* The name can only have been taken, between a process's own unlink and bind, by
\* another that raced with it.
NameIsTaken ==
    \A p \in Proc : pc[p] \in {"unlinked", "listening"} => file = NoFile \/ raced[p]

IInv ==
    /\ TypeOK
    /\ WayOutAgrees
    /\ NameIsTaken
    /\ StartsAfterAnything
    /\ DevicesAreReleased

-----------------------------------------------------------------------------

\* Initially no process is anywhere.
LEMMA InitIInv ==
    ASSUME ServerAssumption, Init
    PROVE  IInv
BY DEF ServerAssumption, Init, IInv, TypeOK, WayOutAgrees, NameIsTaken, StartsAfterAnything,
       DevicesAreReleased, Object, Place

\* A step of one process.
Step(p) ==
    \/ Check(p) \/ Unlink(p) \/ InstallHandlers(p) \/ Bind(p) \/ BindFails(p)
    \/ OpenDevice(p) \/ Attach(p) \/ CloseDevice(p) \/ Quit(p)
    \/ Terminate(p) \/ DestroyDevice(p) \/ DestroyPlugin(p) \/ End(p) \/ Kill(p)

\* Types are kept, and a device that lets go of its registration lets go of the
\* hardware.
LEMMA TypeKept ==
    ASSUME ServerAssumption, IInv, NEW p \in Proc, Step(p)
    PROVE  TypeOK'
<1> USE DEF IInv, TypeOK, Goto, Leave, RegistryUnchanged, Object, Place
<1>1. CASE Check(p)
  BY <1>1 DEF Check
<1>2. CASE Unlink(p)
  BY <1>2 DEF Unlink
<1>3. CASE InstallHandlers(p)
  BY <1>3 DEF InstallHandlers
<1>4. CASE Bind(p)
  BY <1>4 DEF Bind
<1>5. CASE BindFails(p)
  BY <1>5 DEF BindFails
<1>6. CASE OpenDevice(p)
  BY <1>6 DEF OpenDevice
<1>7. CASE Attach(p)
  BY <1>7 DEF Attach
<1>8. CASE CloseDevice(p)
  BY <1>8 DEF CloseDevice
<1>9. CASE Quit(p)
  BY <1>9 DEF Quit
<1>10. CASE Terminate(p)
  BY <1>10 DEF Terminate
<1>11. CASE DestroyDevice(p)
  BY <1>11 DEF DestroyDevice
<1>12. CASE DestroyPlugin(p)
  BY <1>12 DEF DestroyPlugin
<1>13. CASE End(p)
  BY <1>13 DEF End
<1>14. CASE Kill(p)
  BY <1>14 DEF Kill
<1> QED
  BY <1>1, <1>2, <1>3, <1>4, <1>5, <1>6, <1>7,
     <1>8, <1>9, <1>10, <1>11, <1>12, <1>13, <1>14 DEF Step

\* A process is told to quit or signalled once, and a destructor that uses a map was
\* not told of a signal.
LEMMA WayOutKept ==
    ASSUME ServerAssumption, IInv, NEW p \in Proc, Step(p)
    PROVE  WayOutAgrees'
<1> USE DEF IInv, WayOutAgrees, TypeOK, Goto, Leave, RegistryUnchanged, Object, Place
<1>1. CASE Check(p)
  BY <1>1 DEF Check
<1>2. CASE Unlink(p)
  BY <1>2 DEF Unlink
<1>3. CASE InstallHandlers(p)
  BY <1>3 DEF InstallHandlers
<1>4. CASE Bind(p)
  BY <1>4 DEF Bind
<1>5. CASE BindFails(p)
  BY <1>5 DEF BindFails
<1>6. CASE OpenDevice(p)
  BY <1>6 DEF OpenDevice
<1>7. CASE Attach(p)
  BY <1>7 DEF Attach
<1>8. CASE CloseDevice(p)
  BY <1>8 DEF CloseDevice
<1>9. CASE Quit(p)
  BY <1>9 DEF Quit
<1>10. CASE Terminate(p)
  BY <1>10 DEF Terminate
<1>11. CASE DestroyDevice(p)
  BY <1>11 DEF DestroyDevice
<1>12. CASE DestroyPlugin(p)
  BY <1>12 DEF DestroyPlugin
<1>13. CASE End(p)
  BY <1>13 DEF End
<1>14. CASE Kill(p)
  BY <1>14 DEF Kill
<1> QED
  BY <1>1, <1>2, <1>3, <1>4, <1>5, <1>6, <1>7,
     <1>8, <1>9, <1>10, <1>11, <1>12, <1>13, <1>14 DEF Step

\* Unlinking frees the name; whoever binds it marks those that have unlinked before.
LEMMA NameKept ==
    ASSUME ServerAssumption, IInv, NEW p \in Proc, Step(p)
    PROVE  NameIsTaken'
<1> USE DEF IInv, NameIsTaken, ServerAssumption, TypeOK, Goto, Leave, RegistryUnchanged, Object, Place
<1>1. CASE Check(p)
  BY <1>1 DEF Check
<1>2. CASE Unlink(p)
  BY <1>2 DEF Unlink
<1>3. CASE InstallHandlers(p)
  BY <1>3 DEF InstallHandlers
<1>4. CASE Bind(p)
  BY <1>4 DEF Bind
<1>5. CASE BindFails(p)
  BY <1>5 DEF BindFails
<1>6. CASE OpenDevice(p)
  BY <1>6 DEF OpenDevice
<1>7. CASE Attach(p)
  BY <1>7 DEF Attach
<1>8. CASE CloseDevice(p)
  BY <1>8 DEF CloseDevice
<1>9. CASE Quit(p)
  BY <1>9 DEF Quit
<1>10. CASE Terminate(p)
  BY <1>10 DEF Terminate
<1>11. CASE DestroyDevice(p)
  BY <1>11 DEF DestroyDevice
<1>12. CASE DestroyPlugin(p)
  BY <1>12 DEF DestroyPlugin
<1>13. CASE End(p)
  BY <1>13 DEF End
<1>14. CASE Kill(p)
  BY <1>14 DEF Kill
<1> QED
  BY <1>1, <1>2, <1>3, <1>4, <1>5, <1>6, <1>7,
     <1>8, <1>9, <1>10, <1>11, <1>12, <1>13, <1>14 DEF Step

\* A bind that fails though the name is free is the system's failure.
LEMMA StartKept ==
    ASSUME ServerAssumption, IInv, NEW p \in Proc, Step(p)
    PROVE  StartsAfterAnything'
<1> USE DEF IInv, StartsAfterAnything, NameIsTaken, TypeOK, Goto, Leave, RegistryUnchanged, Object, Place
<1>1. CASE Check(p)
  BY <1>1 DEF Check
<1>2. CASE Unlink(p)
  BY <1>2 DEF Unlink
<1>3. CASE InstallHandlers(p)
  BY <1>3 DEF InstallHandlers
<1>4. CASE Bind(p)
  BY <1>4 DEF Bind
<1>5. CASE BindFails(p)
  BY <1>5 DEF BindFails
<1>6. CASE OpenDevice(p)
  BY <1>6 DEF OpenDevice
<1>7. CASE Attach(p)
  BY <1>7 DEF Attach
<1>8. CASE CloseDevice(p)
  BY <1>8 DEF CloseDevice
<1>9. CASE Quit(p)
  BY <1>9 DEF Quit
<1>10. CASE Terminate(p)
  BY <1>10 DEF Terminate
<1>11. CASE DestroyDevice(p)
  BY <1>11 DEF DestroyDevice
<1>12. CASE DestroyPlugin(p)
  BY <1>12 DEF DestroyPlugin
<1>13. CASE End(p)
  BY <1>13 DEF End
<1>14. CASE Kill(p)
  BY <1>14 DEF Kill
<1> QED
  BY <1>1, <1>2, <1>3, <1>4, <1>5, <1>6, <1>7,
     <1>8, <1>9, <1>10, <1>11, <1>12, <1>13, <1>14 DEF Step

\* A process ends with an empty registry, in the middle of quit's destructors, or killed.
LEMMA ReleaseKept ==
    ASSUME ServerAssumption, IInv, NEW p \in Proc, Step(p)
    PROVE  DevicesAreReleased'
<1> USE DEF IInv, DevicesAreReleased, WayOutAgrees, TypeOK, Goto, Leave, RegistryUnchanged, Object, Place
<1>1. CASE Check(p)
  BY <1>1 DEF Check
<1>2. CASE Unlink(p)
  BY <1>2 DEF Unlink
<1>3. CASE InstallHandlers(p)
  BY <1>3 DEF InstallHandlers
<1>4. CASE Bind(p)
  BY <1>4 DEF Bind
<1>5. CASE BindFails(p)
  BY <1>5 DEF BindFails
<1>6. CASE OpenDevice(p)
  BY <1>6 DEF OpenDevice
<1>7. CASE Attach(p)
  BY <1>7 DEF Attach
<1>8. CASE CloseDevice(p)
  BY <1>8 DEF CloseDevice
<1>9. CASE Quit(p)
  BY <1>9 DEF Quit
<1>10. CASE Terminate(p)
  BY <1>10 DEF Terminate
<1>11. CASE DestroyDevice(p)
  BY <1>11 DEF DestroyDevice
<1>12. CASE DestroyPlugin(p)
  BY <1>12 DEF DestroyPlugin
<1>13. CASE End(p)
  BY <1>13 DEF End
<1>14. CASE Kill(p)
  BY <1>14 DEF Kill
<1> QED
  BY <1>1, <1>2, <1>3, <1>4, <1>5, <1>6, <1>7,
     <1>8, <1>9, <1>10, <1>11, <1>12, <1>13, <1>14 DEF Step

-----------------------------------------------------------------------------

\* The inductive invariant holds in every state of every behaviour.
THEOREM Invariance ==
    ASSUME ServerAssumption
    PROVE  Spec => []IInv
<1>1. Init => IInv
  BY InitIInv
<1>2. IInv /\ [Next]_vars => IInv'
  <2> SUFFICES ASSUME IInv, [Next]_vars
               PROVE  IInv'
    OBVIOUS
  <2>1. CASE Next
    <3>1. PICK p \in Proc : Step(p)
      BY <2>1 DEF Next, Step
    <3> QED
      BY <3>1, TypeKept, WayOutKept, NameKept, StartKept, ReleaseKept DEF IInv
  <2>2. CASE UNCHANGED vars
    BY <2>2 DEF vars, IInv, TypeOK, WayOutAgrees, NameIsTaken, StartsAfterAnything,
                DevicesAreReleased
  <2> QED
    BY <2>1, <2>2
<1> QED
  BY <1>1, <1>2, PTL DEF Spec

\* Type correctness of the life of the server's processes.
THEOREM TypeCorrect ==
    ASSUME ServerAssumption
    PROVE  Spec => []TypeOK
<1>1. IInv => TypeOK
  BY DEF IInv
<1> QED
  BY <1>1, Invariance, PTL

\* However many servers were started and however they ended, a server gets its name,
\* unless the system fails it or another one races with it.
THEOREM StartsAnytime ==
    ASSUME ServerAssumption
    PROVE  Spec => []StartsAfterAnything
<1>1. IInv => StartsAfterAnything
  BY DEF IInv
<1> QED
  BY <1>1, Invariance, PTL

\* A signal at whatever moment makes no destructor use a map that is being destroyed.
THEOREM SignalsStayClean ==
    ASSUME ServerAssumption
    PROVE  Spec => []SignalsAreClean
<1>1. IInv => SignalsAreClean
  BY DEF IInv, WayOutAgrees, SignalsAreClean
<1> QED
  BY <1>1, Invariance, PTL

\* A server that ends by itself or by a signal stops its devices.
THEOREM DevicesGetReleased ==
    ASSUME ServerAssumption
    PROVE  Spec => []DevicesAreReleased
<1>1. IInv => DevicesAreReleased
  BY DEF IInv
<1> QED
  BY <1>1, Invariance, PTL

-----------------------------------------------------------------------------
(* The parts side by side *)

EP == INSTANCE PollFDsProofs WITH pc <- roundPc

TP == INSTANCE StallTimerProofs

CP == INSTANCE TCPConnectionProofs WITH pc <- connPc, regen_pollfds <- connRegen

\* A step of one part leaves the others where they are.
LEMMA StepOfParts ==
    ASSUME [ServerNext]_allVars
    PROVE  /\ [Next]_vars
           /\ [Entries!Next]_(Entries!vars)
           /\ [Timer!Next]_(Timer!vars)
           /\ [Conn!Next]_(Conn!vars)
<1> USE DEF vars, entryVars, timerVars, connVars, Entries!vars, Entries!registry,
            Timer!vars, Conn!vars
<1>1. CASE RunEntries
  BY <1>1 DEF RunEntries
<1>2. CASE RunTimer
  BY <1>2 DEF RunTimer
<1>3. CASE RunConn
  BY <1>3 DEF RunConn, OnlyConn
<1>4. CASE RunProgram
  BY <1>4 DEF RunProgram
<1>5. CASE UNCHANGED allVars
  BY <1>5 DEF allVars
<1> QED
  BY <1>1, <1>2, <1>3, <1>4, <1>5 DEF ServerNext

\* A behaviour of the parts side by side is a behaviour of each of them: what is
\* shown of a part holds of the whole.
THEOREM PartsAreThemselves ==
    ServerSpec => Spec /\ Entries!Spec /\ Timer!Spec /\ Conn!Spec
<1>1. ServerInit => Init /\ Entries!Init /\ Timer!Init /\ Conn!Init
  BY DEF ServerInit
<1>2. [ServerNext]_allVars =>
        /\ [Next]_vars /\ [Entries!Next]_(Entries!vars)
        /\ [Timer!Next]_(Timer!vars) /\ [Conn!Next]_(Conn!vars)
  BY StepOfParts
<1> QED
  BY <1>1, <1>2, PTL DEF ServerSpec, Spec, Entries!Spec, Timer!Spec, Conn!Spec

\* The vector that PollFDsProofs is about is this one.
LEMMA SameEntries ==
    /\ EP!Init <=> Entries!Init
    /\ EP!Next <=> Entries!Next
    /\ EP!vars = Entries!vars
BY DEF EP!Label, Entries!Label, EP!Nobody, Entries!Nobody, EP!registry,
       Entries!registry, EP!vars, Entries!vars, EP!Place, Entries!Place, EP!Pending,
       Entries!Pending, EP!Turn, Entries!Turn, EP!NumPollFDs, Entries!NumPollFDs,
       EP!ConnEvents, Entries!ConnEvents, EP!Entry, Entries!Entry, EP!EventsOf,
       Entries!EventsOf, EP!Init, Entries!Init, EP!Rewritten, Entries!Rewritten,
       EP!Armed, Entries!Armed, EP!BeginRegen, Entries!BeginRegen, EP!Entries,
       Entries!Entries, EP!Unfilled, Entries!Unfilled, EP!Visiting, Entries!Visiting,
       EP!Visit, Entries!Visit, EP!VisitFails, Entries!VisitFails, EP!VisitWithout,
       Entries!VisitWithout, EP!Poll, Entries!Poll, EP!Handling, Entries!Handling,
       EP!Handle, Entries!Handle, EP!Disarm, Entries!Disarm, EP!Reconfigure,
       Entries!Reconfigure, EP!EndPoll, Entries!EndPoll, EP!Next, Entries!Next

\* The vector's entries are where the indices say, for any objects and any failures of
\* devices.
THEOREM EntriesStayOwn == ServerSpec => []EntriesOK
<1>1. [Entries!Next]_(Entries!vars) => [EP!Next]_(EP!vars)
  BY SameEntries DEF EP!vars, Entries!vars, EP!registry, Entries!registry
<1>2. Entries!Spec => EP!Spec
  BY <1>1, SameEntries, PTL DEF Entries!Spec, EP!Spec
<1>3. EP!OrderAssumption
  BY PartAssumptions DEF EP!OrderAssumption, Entries!OrderAssumption, EP!Label,
     Entries!Label
<1>4. EP!Spec => []EP!EntriesOK
  BY <1>3, EP!EntriesStayOwn
<1>5. EP!EntriesOK => EntriesOK
  BY DEF EntriesOK, EP!EntriesOK, Entries!EntriesOK, EP!TypeOK, Entries!TypeOK,
     EP!EntriesAreOwn, Entries!EntriesAreOwn, EP!InForce, Entries!InForce,
     EP!EntriesAt, Entries!EntriesAt, EP!NumPollFDs, Entries!NumPollFDs, EP!Nobody,
     Entries!Nobody, EP!Label, Entries!Label, EP!Entry, Entries!Entry, EP!ConnEvents,
     Entries!ConnEvents
<1> QED
  BY <1>2, <1>4, <1>5, PartsAreThemselves, PTL

\* The control connection's events are in its entry, whatever is built and sent
\* meanwhile.
THEOREM EventsStayPut == ServerSpec => []EventsOK
<1>1. [Entries!Next]_(Entries!vars) => [EP!Next]_(EP!vars)
  BY SameEntries DEF EP!vars, Entries!vars, EP!registry, Entries!registry
<1>2. Entries!Spec => EP!Spec
  BY <1>1, SameEntries, PTL DEF Entries!Spec, EP!Spec
<1>3. EP!OrderAssumption
  BY PartAssumptions DEF EP!OrderAssumption, Entries!OrderAssumption, EP!Label,
     Entries!Label
<1>4. EP!Spec => []EP!EventsOK
  BY <1>3, EP!EventsStayPut
<1>5. EP!EventsOK => EventsOK
  BY DEF EventsOK, EP!EventsOK, Entries!EventsOK, EP!ControlIsAsked,
     Entries!ControlIsAsked, EP!StrayNeedsFailure, Entries!StrayNeedsFailure,
     EP!StrayIsBefore, Entries!StrayIsBefore, EP!InForce, Entries!InForce,
     EP!EventsOf, Entries!EventsOf, EP!ConnEvents, Entries!ConnEvents
<1> QED
  BY <1>2, <1>4, <1>5, PartsAreThemselves, PTL

\* The time that StallTimerProofs is about is this one.
LEMMA SameTimer ==
    /\ TP!Init <=> Timer!Init
    /\ TP!Next <=> Timer!Next
    /\ TP!vars = Timer!vars
BY DEF TP!vars, Timer!vars, TP!Kind, Timer!Kind, TP!timeNow, Timer!timeNow, TP!Init,
       Timer!Init, TP!Tick, Timer!Tick, TP!ClockSet, Timer!ClockSet, TP!CountFromNow,
       Timer!CountFromNow, TP!hw_running, Timer!hw_running, TP!Restarted,
       Timer!Restarted, TP!StartRunning, Timer!StartRunning, TP!Start, Timer!Start,
       TP!StartFails, Timer!StartFails, TP!stop, Timer!stop, TP!Stop, Timer!Stop,
       TP!HasFD, Timer!HasFD, TP!Round, Timer!Round, TP!NotReached, Timer!NotReached,
       TP!Reached, Timer!Reached, TP!Data, Timer!Data, TP!Error, Timer!Error,
       TP!TooQuiet, Timer!TooQuiet, TP!NoData, Timer!NoData, TP!Stalled, Timer!Stalled,
       TP!Next, Timer!Next

\* A device is declared stalled only when it is, or when the clock was set, since its last
\* data, otherwise than from near 1970 to the present.
THEOREM StallsAreReal == ServerSpec => NoFalseStall
<1>1. [Timer!Next]_(Timer!vars) => [TP!Next]_(TP!vars)
  BY SameTimer DEF TP!vars, Timer!vars
<1>2. Timer!Spec => TP!Spec
  BY <1>1, SameTimer, PTL DEF Timer!Spec, TP!Spec
<1>3. TP!StallAssumption
  BY PartAssumptions DEF TP!StallAssumption, Timer!StallAssumption
<1>4. TP!Spec => TP!NoFalseStall
  BY <1>3, TP!StallsAreReal
<1>5. [did' = "stalled" => quiet > MaxQuiet \/ stepped]_(TP!vars)
        => [did' = "stalled" => quiet > MaxQuiet \/ stepped]_(Timer!vars)
  BY SameTimer DEF TP!vars, Timer!vars
<1> QED
  BY <1>2, <1>4, <1>5, PartsAreThemselves, PTL
     DEF NoFalseStall, TP!NoFalseStall, Timer!NoFalseStall

\* A silent device is reported in time, and one that delivers is not reported as
\* stopped, for any times of waiting.
THEOREM StateGetsTold == ServerSpec => []StateIsTold
<1>1. [Timer!Next]_(Timer!vars) => [TP!Next]_(TP!vars)
  BY SameTimer DEF TP!vars, Timer!vars
<1>2. Timer!Spec => TP!Spec
  BY <1>1, SameTimer, PTL DEF Timer!Spec, TP!Spec
<1>3. TP!StallAssumption
  BY PartAssumptions DEF TP!StallAssumption, Timer!StallAssumption
<1>4. TP!Spec => []TP!StallIsNoticed
  BY <1>3, TP!StallsAreNoticed
<1>5. TP!Spec => []TP!RunningIsReported
  BY <1>3, TP!RunningGetsReported
<1>6. TP!StallIsNoticed /\ TP!RunningIsReported => StateIsTold
  BY DEF StateIsTold, Timer!StateIsTold, TP!StallIsNoticed, Timer!StallIsNoticed,
     TP!RunningIsReported, Timer!RunningIsReported
<1> QED
  BY <1>2, <1>4, <1>5, <1>6, PartsAreThemselves, PTL

\* The connection that TCPConnectionProofs is about is this one.
LEMMA SameConn ==
    /\ CP!Init <=> Conn!Init
    /\ CP!Next <=> Conn!Next
    /\ CP!vars = Conn!vars
<1>1. CP!Init <=> Conn!Init
  BY DEF CP!Init, Conn!Init, CP!Stream, Conn!Stream
<1>2. \A n \in {0, 1} : CP!DeviceHandler(n) <=> Conn!DeviceHandler(n)
  BY DEF CP!DeviceHandler, Conn!DeviceHandler, CP!queueOutput, Conn!queueOutput,
     CP!Excess, Conn!Excess, CP!Appended, Conn!Appended, CP!Stream, Conn!Stream,
     CP!Arm, Conn!Arm, CP!input, Conn!input, CP!polling, Conn!polling
<1>3. CP!HandleInput <=> Conn!HandleInput
  BY DEF CP!HandleInput, Conn!HandleInput, CP!queueOutput, Conn!queueOutput,
     CP!Excess, Conn!Excess, CP!Appended, Conn!Appended, CP!Stream, Conn!Stream,
     CP!Arm, Conn!Arm, CP!Ends, Conn!Ends, CP!Newlines, Conn!Newlines, CP!Start,
     Conn!Start, CP!Kept, Conn!Kept, CP!polling, Conn!polling, CP!Cardinality,
     Conn!Cardinality
<1>4. CP!HandleOutput <=> Conn!HandleOutput
  BY DEF CP!HandleOutput, Conn!HandleOutput, CP!Disarm, Conn!Disarm, CP!BrokenPipe,
     Conn!BrokenPipe, CP!Write, Conn!Write, CP!input, Conn!input, CP!polling,
     Conn!polling
<1>5. CP!BeginPoll <=> Conn!BeginPoll
  BY DEF CP!BeginPoll, Conn!BeginPoll, CP!Reported, Conn!Reported, CP!Event,
     Conn!Event, CP!input, Conn!input, CP!output, Conn!output
<1>6. (CP!HandleHangup <=> Conn!HandleHangup) /\ (CP!HandleEnd <=> Conn!HandleEnd)
  BY DEF CP!HandleHangup, Conn!HandleHangup, CP!HandleEnd, Conn!HandleEnd,
     CP!Removed, Conn!Removed, CP!input, Conn!input, CP!output, Conn!output,
     CP!polling, Conn!polling
<1>7. (CP!NoEvent <=> Conn!NoEvent) /\ (CP!ReadAll <=> Conn!ReadAll)
  BY DEF CP!NoEvent, Conn!NoEvent, CP!Over, Conn!Over, CP!ReadAll, Conn!ReadAll,
     CP!input, Conn!input, CP!output, Conn!output, CP!polling, Conn!polling
<1>8. \A n \in 1..LineLen : CP!Send(n) <=> Conn!Send(n)
  BY DEF CP!Send, Conn!Send, CP!Over, Conn!Over, CP!Stream, Conn!Stream, CP!output,
     Conn!output, CP!polling, Conn!polling
<1>9. \A p \in {"half", "gone"} : CP!Leave(p) <=> Conn!Leave(p)
  BY DEF CP!Leave, Conn!Leave, CP!Over, Conn!Over, CP!input, Conn!input, CP!output,
     Conn!output, CP!polling, Conn!polling
<1>10. CP!Next <=> Conn!Next
  BY <1>2, <1>3, <1>4, <1>5, <1>6, <1>7, <1>8, <1>9 DEF CP!Next, Conn!Next,
     CP!Round, Conn!Round
<1> QED
  BY <1>1, <1>10 DEF CP!vars, Conn!vars

\* Hence its behaviours are.
LEMMA SameConnSpec == Conn!Spec => CP!Spec
<1>1. [Conn!Next]_(Conn!vars) => [CP!Next]_(CP!vars)
  BY SameConn DEF CP!vars, Conn!vars
<1> QED
  BY <1>1, SameConn, PTL DEF Conn!Spec, CP!Spec

LEMMA ConnAssumed == CP!ConnectionAssumption
BY PartAssumptions DEF CP!ConnectionAssumption, Conn!ConnectionAssumption

\* Output reaches the client in order, until the buffer overflows, is asked for in both
\* copies of POLLOUT while it waits, and a client whose leaving ::poll has reported does
\* not kill the server: for any sizes of lines, reads and buffer, however the client
\* sends.
THEOREM OutputStaysRight ==
    ServerSpec => [](OutputInOrder /\ OutputIsArmed /\ ToldIsNotKilled)
<1>1. CP!Spec => [](CP!OutputInOrder /\ CP!OutputIsArmed /\ CP!ToldIsNotKilled)
  BY ConnAssumed, CP!OutputStaysInOrder, CP!OutputStaysArmed, CP!ToldStaysAlive, PTL
<1>2. CP!OutputInOrder => OutputInOrder
  BY DEF OutputInOrder, CP!OutputInOrder, Conn!OutputInOrder, CP!Stream, Conn!Stream
<1>3. CP!OutputIsArmed => OutputIsArmed
  BY DEF OutputIsArmed, CP!OutputIsArmed, Conn!OutputIsArmed
<1>4. CP!ToldIsNotKilled => ToldIsNotKilled
  BY DEF ToldIsNotKilled, CP!ToldIsNotKilled, Conn!ToldIsNotKilled
<1> QED
  BY <1>1, <1>2, <1>3, <1>4, SameConnSpec, PartsAreThemselves, PTL

\* Commands that arrive whole and fit a read run once each, whole and in order.
THEOREM LinesStayCommands ==
    ASSUME ~Split, ~Flood
    PROVE  ServerSpec => []CommandsAreLines
<1>1. CP!Spec => []CP!CommandsAreLines
  BY ConnAssumed, CP!CommandsStayLines
<1>2. CP!CommandsAreLines => CommandsAreLines
  BY DEF CommandsAreLines, CP!CommandsAreLines, Conn!CommandsAreLines, CP!Line,
     Conn!Line, CP!Stream, Conn!Stream
<1> QED
  BY <1>1, <1>2, SameConnSpec, PartsAreThemselves, PTL

\* What is shown above of the processes alone holds of them among the parts: the types,
\* the socket's name, the destructors after a signal, and the devices.
THEOREM ProcessesStayWell ==
    ServerSpec => [](TypeOK /\ StartsAfterAnything /\ SignalsAreClean /\ DevicesAreReleased)
<1>1. ServerAssumption
  BY PartAssumptions
<1> QED
  BY <1>1, TypeCorrect, StartsAnytime, SignalsStayClean, DevicesGetReleased,
     PartsAreThemselves, PTL
======================================================================
