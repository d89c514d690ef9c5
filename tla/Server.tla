------------------------------- MODULE Server -------------------------------
(***************************************************************************)
(* The life of vamp-alsa-host processes that are given the same SOCKNAME:  *)
(* main makes way for its socket and enters the event loop, which a quit,  *)
(* an error or a signal leaves, and the destructors of the static          *)
(* variables tear down what is registered.                                 *)
(*                                                                         *)
(* Of the registry it keeps one device and one plugin that may be attached *)
(* to it; the other objects' destructors use no static variable.           *)
(***************************************************************************)
EXTENDS Integers, FiniteSets

CONSTANTS
    Proc,           \* processes; each runs once
    NoFile,         \* nothing has the name of the socket
    StaleSocket,    \* a socket of a process of the past has it
    OtherFile       \* a file that is no socket has it

ServerAssumption ==
    /\ NoFile \notin Proc /\ StaleSocket \notin Proc /\ OtherFile \notin Proc
    /\ NoFile # StaleSocket /\ NoFile # OtherFile /\ StaleSocket # OtherFile

VARIABLES
    file,           \* what serverSocketName names: one of these, or the socket of a process
    pc,             \* where each process is
    terminating,    \* Pollable::terminating
    pollables,      \* Pollable::pollables
    plugins,        \* the device's set of plugins is not empty
    capturing       \* the sound hardware is held by the device

\* History: how each process left the loop or main ("not yet", "quit", "signal" or
\* "killed"), whether a destructor used a map that was being destroyed, whether another
\* process took the name between its own unlink and bind, and whether bind failed
\* for some reason of the system's.
VARIABLES leaving, misused, raced, broken

vars == <<file, pc, terminating, pollables, plugins, capturing, leaving, misused, raced,
          broken>>

Object == {"device", "plugin"}

\* "allocating": the signal came while the interrupted code held the lock of the heap.
Place == {"off", "checked", "unlinked", "listening", "loop", "aborting", "exiting",
          "allocating", "ended", "refused"}

TypeOK ==
    /\ file \in Proc \cup {NoFile, StaleSocket, OtherFile}
    /\ pc \in [Proc -> Place]
    /\ terminating \in [Proc -> BOOLEAN]
    /\ pollables \in [Proc -> SUBSET Object]
    /\ plugins \in [Proc -> BOOLEAN] /\ capturing \in [Proc -> BOOLEAN]
    /\ leaving \in [Proc -> {"not yet", "quit", "signal", "killed"}]
    /\ misused \in [Proc -> BOOLEAN] /\ raced \in [Proc -> BOOLEAN]
    /\ broken \in [Proc -> BOOLEAN]
    /\ \A p \in Proc : capturing[p] => "device" \in pollables[p]

Init ==
    /\ file \in {NoFile, StaleSocket, OtherFile}
    /\ pc = [p \in Proc |-> "off"]
    /\ terminating = [p \in Proc |-> FALSE]
    /\ pollables = [p \in Proc |-> {}]
    /\ plugins = [p \in Proc |-> FALSE] /\ capturing = [p \in Proc |-> FALSE]
    /\ leaving = [p \in Proc |-> "not yet"]
    /\ misused = [p \in Proc |-> FALSE] /\ raced = [p \in Proc |-> FALSE]
    /\ broken = [p \in Proc |-> FALSE]

Goto(p, l) == pc' = [pc EXCEPT ![p] = l]

\* The first way out counts, unless the process is killed on it.
Leave(p, why) ==
    leaving' = [leaving EXCEPT ![p] = IF @ = "not yet" \/ why = "killed" THEN why ELSE @]

RegistryUnchanged == UNCHANGED <<pollables, plugins, capturing, misused>>

-----------------------------------------------------------------------------
(* main *)

\* stat: only a socket may be in the way.
Check(p) ==
    /\ pc[p] = "off"
    /\ Goto(p, IF file = OtherFile THEN "refused" ELSE "checked")
    /\ UNCHANGED <<file, terminating, leaving, raced, broken>> /\ RegistryUnchanged

\* Mutant: what is in the way is left there.
UnlinkNothing(p) ==
    /\ pc[p] = "checked"
    /\ Goto(p, "unlinked")
    /\ UNCHANGED <<file, terminating, leaving, raced, broken>> /\ RegistryUnchanged

\* unlink
Unlink(p) ==
    /\ pc[p] = "checked"
    /\ file' = NoFile
    /\ Goto(p, "unlinked")
    /\ UNCHANGED <<terminating, leaving, raced, broken>> /\ RegistryUnchanged

\* The signal handlers are in place, and the host is made.
InstallHandlers(p) ==
    /\ pc[p] = "unlinked"
    /\ Goto(p, "listening")
    /\ UNCHANGED <<file, terminating, leaving, raced, broken>> /\ RegistryUnchanged

\* The listener is bound; processes that are about to bind too now fail.
Bind(p) ==
    /\ pc[p] = "listening" /\ file = NoFile
    /\ file' = p
    /\ Goto(p, "loop")
    /\ raced' = [q \in Proc |-> raced[q] \/ (q # p /\ pc[q] \in {"unlinked", "listening"})]
    /\ UNCHANGED <<terminating, leaving, broken>> /\ RegistryUnchanged

\* The listener's constructor throws, outside main's try: abort raises SIGABRT.
BindFails(p) ==
    /\ pc[p] = "listening"
    /\ broken' = [broken EXCEPT ![p] = file = NoFile]
    /\ Goto(p, "aborting")
    /\ UNCHANGED <<file, terminating, leaving, raced>> /\ RegistryUnchanged

-----------------------------------------------------------------------------
(* The event loop *)

OpenDevice(p) ==
    /\ pc[p] = "loop" /\ "device" \notin pollables[p]
    /\ pollables' = [pollables EXCEPT ![p] = @ \cup {"device"}]
    /\ capturing' = [capturing EXCEPT ![p] = TRUE]
    /\ plugins' = [plugins EXCEPT ![p] = FALSE]
    /\ UNCHANGED <<file, pc, terminating, leaving, misused, raced, broken>>

Attach(p) ==
    /\ pc[p] = "loop" /\ "device" \in pollables[p]
    /\ pollables' = [pollables EXCEPT ![p] = @ \cup {"plugin"}]
    /\ plugins' = [plugins EXCEPT ![p] = TRUE]
    /\ UNCHANGED <<file, pc, terminating, capturing, leaving, misused, raced, broken>>

\* The device is destroyed between rounds, and removes its plugins.
CloseDevice(p) ==
    /\ pc[p] = "loop" /\ "device" \in pollables[p]
    /\ pollables' = [pollables EXCEPT ![p] = IF plugins[p] THEN {} ELSE @ \ {"device"}]
    /\ capturing' = [capturing EXCEPT ![p] = FALSE]
    /\ UNCHANGED <<file, pc, terminating, plugins, leaving, misused, raced, broken>>

\* A quit, another exception, or an error of ::poll: exit(rv).
Quit(p) ==
    /\ pc[p] = "loop"
    /\ Goto(p, "exiting") /\ Leave(p, "quit")
    /\ UNCHANGED <<file, terminating, raced, broken>> /\ RegistryUnchanged

-----------------------------------------------------------------------------
(* Ways out *)

\* Mutant: the destructors are not told.
TerminateUntold(p) ==
    /\ pc[p] \in {"listening", "loop", "aborting", "exiting"} /\ ~terminating[p]
    /\ Leave(p, "signal")
    /\ Goto(p, "exiting")
    /\ UNCHANGED <<file, terminating, raced, broken>> /\ RegistryUnchanged

\* Mutant: the handler returns to what it interrupted.
TerminateReturns(p) ==
    /\ pc[p] \in {"listening", "loop", "aborting", "exiting"} /\ ~terminating[p]
    /\ terminating' = [terminating EXCEPT ![p] = TRUE]
    /\ Leave(p, "signal")
    /\ UNCHANGED <<file, pc, raced, broken>> /\ RegistryUnchanged

\* terminate, on a signal or abort.  It deletes the host, prints and calls exit, which
\* all use the heap.  A destructor that it interrupts is not finished: the exit within
\* exit goes on behind it.
Terminate(p) ==
    /\ pc[p] \in {"listening", "loop", "aborting", "exiting"} /\ ~terminating[p]
    /\ terminating' = [terminating EXCEPT ![p] = TRUE]
    /\ Leave(p, "signal")
    /\ \/ Goto(p, IF pc[p] = "exiting" THEN "ended" ELSE "exiting")
       \/ pc[p] # "aborting" /\ Goto(p, "allocating")
    /\ UNCHANGED <<file, raced, broken>> /\ RegistryUnchanged

\* Mutant: the device's own destructor stops there, too.
DestroyDeviceEarly(p) ==
    /\ pc[p] = "exiting" /\ "device" \in pollables[p]
    /\ pollables' = [pollables EXCEPT ![p] = @ \ {"device"}]
    /\ capturing' = [capturing EXCEPT ![p] = terminating[p] /\ @]
    /\ misused' = [misused EXCEPT ![p] = @ \/ (plugins[p] /\ ~terminating[p])]
    /\ UNCHANGED <<file, pc, terminating, plugins, leaving, raced, broken>>

\* The map of objects is destroyed, and with it the device, which releases the
\* hardware, and then, unless terminating, looks its plugins up in the map.
DestroyDevice(p) ==
    /\ pc[p] = "exiting" /\ "device" \in pollables[p]
    /\ pollables' = [pollables EXCEPT ![p] = @ \ {"device"}]
    /\ capturing' = [capturing EXCEPT ![p] = FALSE]
    /\ misused' = [misused EXCEPT ![p] = @ \/ (plugins[p] /\ ~terminating[p])]
    /\ UNCHANGED <<file, pc, terminating, plugins, leaving, raced, broken>>

\* A plugin's destructor uses no map.
DestroyPlugin(p) ==
    /\ pc[p] = "exiting" /\ "plugin" \in pollables[p]
    /\ pollables' = [pollables EXCEPT ![p] = @ \ {"plugin"}]
    /\ UNCHANGED <<file, pc, terminating, plugins, capturing, leaving, misused, raced,
                   broken>>

End(p) ==
    /\ pc[p] = "exiting" /\ pollables[p] = {}
    /\ Goto(p, "ended")
    /\ UNCHANGED <<file, terminating, leaving, raced, broken>> /\ RegistryUnchanged

\* SIGKILL or SIGPIPE, or any signal before the handlers are in place: nothing is
\* destroyed, and the kernel takes back what the process held.
Kill(p) ==
    /\ pc[p] \notin {"off", "ended", "refused"}
    /\ Goto(p, "ended") /\ Leave(p, "killed")
    /\ UNCHANGED <<file, terminating, raced, broken>> /\ RegistryUnchanged

Next ==
    \E p \in Proc :
        \/ Check(p) \/ Unlink(p) \/ InstallHandlers(p) \/ Bind(p) \/ BindFails(p)
        \/ OpenDevice(p) \/ Attach(p) \/ CloseDevice(p) \/ Quit(p)
        \/ Terminate(p) \/ DestroyDevice(p) \/ DestroyPlugin(p) \/ End(p) \/ Kill(p)

Spec == Init /\ [][Next]_vars

\* Nothing keeps a process from its destructors, or from the SIGABRT it raises; whether
\* it is signalled, told to quit or served is up to others.
WayOut(p) ==
    \/ DestroyDevice(p) \/ DestroyPlugin(p) \/ End(p)
    \/ pc[p] = "aborting" /\ Terminate(p)

FairSpec == Spec /\ \A p \in Proc : WF_vars(WayOut(p))

-----------------------------------------------------------------------------
(* Safety *)

\* However earlier servers ended, with or without their socket left behind, a server
\* gets its name, unless the system fails it or another server starts at the same
\* time and takes the name between the two calls.
StartsAfterAnything == \A p \in Proc : pc[p] = "aborting" => broken[p] \/ raced[p]

\* "if true, don't call e.g. map functions from destructors of element maps": a signal
\* or abort that ends the server, at whatever moment, makes no destructor look up a map
\* that is being destroyed.
SignalsAreClean == \A p \in Proc : misused[p] => leaving[p] # "signal"

\* ... and no other way of leaving does so either.
DestructorsUseNoMap == \A p \in Proc : ~misused[p]

\* A server that ends by itself or by a signal stops its devices first ("Close all open
\* devices and quit the program"), unless a signal cuts short the destructors of quit.
DevicesAreReleased ==
    \A p \in Proc : pc[p] = "ended" /\ capturing[p] =>
        leaving[p] = "killed" \/ (leaving[p] = "quit" /\ terminating[p])

-----------------------------------------------------------------------------
(* Liveness *)

\* A signal, or an exception that main does not catch, ends the server, unless it came
\* in the middle of an allocation.
SignalEndsIt ==
    \A p \in Proc :
        (leaving[p] = "signal" \/ pc[p] = "aborting") ~> pc[p] \in {"ended", "allocating"}
=============================================================================
