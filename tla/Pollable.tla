------------------------------ MODULE Pollable ------------------------------
(***************************************************************************)
(* The event loop of vamp_alsa_host: class Pollable (Pollable.cpp) with    *)
(* the part of TCPListener and TCPConnection that registers and removes    *)
(* connections, and, for every other subclass, only what its handlers may  *)
(* do to the registry.  One thread runs the loop; a round is               *)
(*                                                                         *)
(*   regenFDs -> ::poll -> handleEvents of each Pollable in label order,   *)
(*   stopping as soon as a regeneration is asked for -> doDeferrals.       *)
(*                                                                         *)
(* Labels are integers in the order of the std::map.  An object owns at    *)
(* most one descriptor here (ALSA devices may own several: the first one   *)
(* stands for them), and slot[o] is the descriptor that allpollfds holds   *)
(* at indexInPollFD of o, NoFD standing for an index of -1.                *)
(***************************************************************************)
EXTENDS Integers, FiniteSets

CONSTANTS
    ClientLabel,    \* labels that clients give to devices, plugins and files
    SocketFD,       \* descriptors accept() may return
    FdLabel,        \* FdLabel[f]: the label "Socket#<f>"
    ListenerLabel,  \* label of the TCPListener
    ListenerFD,     \* its descriptor
    DeviceFD,       \* descriptors of devices and of output files
    Object,         \* identities of Pollable objects
    DetachAny,      \* clients "detach" the labels of other things than plugins, too
    NoObject, NoFD, NoLabel

ConnLabel == {FdLabel[f] : f \in SocketFD}
Label == ClientLabel \cup ConnLabel \cup {ListenerLabel}
FD == SocketFD \cup DeviceFD \cup {ListenerFD}

\* Clients never name a device, plugin or file like a socket.
ASSUME LabelAssumption ==
    /\ Label \subseteq Nat \ {0}
    /\ ClientLabel \cap ConnLabel = {}
    /\ ListenerLabel \notin ClientLabel \cup ConnLabel
    /\ NoLabel \notin Label

\* Distinct descriptors give distinct labels.
ASSUME FdLabelAssumption ==
    \A f, g \in SocketFD : FdLabel[f] = FdLabel[g] => f = g

ASSUME FDAssumption ==
    /\ NoFD \notin FD
    /\ ListenerFD \notin SocketFD \cup DeviceFD
    /\ SocketFD \cap DeviceFD = {}

ASSUME DetachAssumption == DetachAny \in BOOLEAN

ASSUME ObjectAssumption == NoObject \notin Object /\ Object # {}

VARIABLES
    pollables,          \* the registry: label -> object
    fd,                 \* pollfd.fd of each object
    slot,               \* entry of allpollfds at the object's indexInPollFD
    regen_pollfds,
    doing_poll,
    deferred_removes,   \* labels; have_deferrals says that it is not empty
    controlSocketLabel,
    pc,                 \* where the loop is
    at,                 \* key of the loop's map iterator
    running             \* ptr: the object whose handler runs

registry == <<pollables, fd, slot>>
control == <<pc, at, running>>
vars == <<pollables, fd, slot, regen_pollfds, doing_poll, deferred_removes,
          controlSocketLabel, pc, at, running>>

-----------------------------------------------------------------------------
Registered == {l \in Label : pollables[l] # NoObject}
Live == {pollables[l] : l \in Registered}
Clients == Registered \cap ClientLabel
ClientObject == {pollables[l] : l \in Clients}
Open == {fd[o] : o \in Object} \ {NoFD}

\* An fd has an entry in allpollfds.
Polled == {l \in Registered : slot[pollables[l]] # NoFD}

\* Mutant: only the first object with an entry is served.
IsNextFirst(l) == at = 0 /\ l \in Polled /\ \A m \in Polled : l <= m

\* std::map insertion order has no effect: the loop goes on from the iterator.
IsNext(l) == l \in Polled /\ l > at /\ \A m \in Polled : m > at => l <= m

\* Mutant: destructors leave descriptors open.
ClosedNot(f, D) == f

\* The descriptors once the objects in D are destroyed.
Closed(f, D) == [o \in Object |-> IF o \in D THEN NoFD ELSE f[o]]

InHandler == pc = "handler"
InCommand == InHandler /\ at \in ConnLabel

TypeOK ==
    /\ pollables \in [Label -> Object \cup {NoObject}]
    /\ fd \in [Object -> FD \cup {NoFD}]
    /\ slot \in [Object -> FD \cup {NoFD}]
    /\ regen_pollfds \in BOOLEAN
    /\ doing_poll \in BOOLEAN
    /\ deferred_removes \subseteq Label
    /\ controlSocketLabel \in ConnLabel \cup {NoLabel}
    /\ pc \in {"top", "dispatch", "handler", "exit"}
    /\ at \in Label \cup {0}
    /\ running \in Object \cup {NoObject}

\* main() has created the listener and calls host->run().
Init ==
    \E o \in Object :
        /\ pollables = [l \in Label |-> IF l = ListenerLabel THEN o ELSE NoObject]
        /\ fd = [x \in Object |-> IF x = o THEN ListenerFD ELSE NoFD]
        /\ slot = [x \in Object |-> NoFD]
        /\ regen_pollfds = TRUE
        /\ doing_poll = FALSE
        /\ deferred_removes = {}
        /\ controlSocketLabel = NoLabel
        /\ pc = "top"
        /\ at = 0
        /\ running = NoObject

-----------------------------------------------------------------------------
(* The loop *)

\* poll() up to the loop over pollables: regenFDs, and ::poll returns.
BeginPoll ==
    /\ pc = "top"
    /\ doing_poll' = TRUE
    /\ slot' = IF regen_pollfds
               THEN [o \in Object |-> IF o \in Live THEN fd[o] ELSE NoFD]
               ELSE slot
    /\ regen_pollfds' = FALSE
    /\ pc' = "dispatch"
    /\ at' = 0
    /\ UNCHANGED <<pollables, fd, deferred_removes, controlSocketLabel, running>>

\* ::poll fails: poll() returns errno, run() returns and main() exits.
PollFails ==
    /\ pc = "top"
    /\ slot' = IF regen_pollfds
               THEN [o \in Object |-> IF o \in Live THEN fd[o] ELSE NoFD]
               ELSE slot
    /\ regen_pollfds' = FALSE
    /\ pc' = "exit"
    /\ UNCHANGED <<pollables, fd, doing_poll, deferred_removes,
                   controlSocketLabel, at, running>>

\* handleEvents of the next object that has an entry in allpollfds.
Dispatch(l) ==
    /\ pc = "dispatch" /\ ~regen_pollfds
    /\ IsNext(l)
    /\ at' = l
    /\ running' = pollables[l]
    /\ pc' = "handler"
    /\ UNCHANGED <<registry, regen_pollfds, doing_poll, deferred_removes,
                   controlSocketLabel>>

HandlerReturn ==
    /\ InHandler
    /\ pc' = "dispatch"
    /\ running' = NoObject
    /\ UNCHANGED <<registry, regen_pollfds, doing_poll, deferred_removes,
                   controlSocketLabel, at>>

\* Mutant: the list of deferred removals is cleared, but not carried out.
EndPollForgets ==
    /\ pc = "dispatch"
    /\ regen_pollfds \/ \A l \in Label : ~IsNext(l)
    /\ doing_poll' = FALSE
    /\ regen_pollfds' = (regen_pollfds \/ deferred_removes # {})
    /\ deferred_removes' = {}
    /\ pc' = "top"
    /\ UNCHANGED <<registry, controlSocketLabel, at, running>>

\* The loop over pollables is over, or was broken: doDeferrals.  A device that
\* is destroyed removes the plugins and it lists (cascade), at once since
\* doing_poll is false by now.
EndPoll ==
    /\ pc = "dispatch"
    /\ regen_pollfds \/ \A l \in Label : ~IsNext(l)
    /\ doing_poll' = FALSE
    /\ \E cascade \in SUBSET Clients :
        /\ deferred_removes = {} => cascade = {}
        /\ LET gone == deferred_removes \cup cascade
           IN  /\ pollables' = [l \in Label |->
                                   IF l \in gone THEN NoObject ELSE pollables[l]]
               /\ fd' = Closed(fd, {pollables[l] : l \in gone \cap Registered})
    /\ regen_pollfds' = (regen_pollfds \/ deferred_removes # {})
    /\ deferred_removes' = {}
    /\ pc' = "top"
    /\ UNCHANGED <<slot, controlSocketLabel, at, running>>

-----------------------------------------------------------------------------
(* What handlers do to the registry *)

\* Mutant: controlSocketClosed is not called.
RemoveKeepsControl(L) ==
    /\ deferred_removes' = deferred_removes \cup (L \cap Registered)
    /\ UNCHANGED controlSocketLabel

\* Pollable::remove, called while a round is on, for every label in L.
Remove(L) ==
    /\ deferred_removes' = deferred_removes \cup (L \cap Registered)
    /\ controlSocketLabel' =
           IF controlSocketLabel \in L \cap Registered
           THEN NoLabel ELSE controlSocketLabel

\* TCPListener::handleEvents: a connection is accepted on descriptor f.
Accept(f, o) ==
    /\ InHandler /\ at = ListenerLabel
    /\ f \notin Open /\ o \notin Live
    /\ LET l == FdLabel[f]
       IN  /\ pollables' = [pollables EXCEPT ![l] = o]
           /\ fd' = [Closed(fd, {pollables[l]}) EXCEPT ![o] = f]
           /\ controlSocketLabel' = IF controlSocketLabel = NoLabel
                                    THEN l ELSE controlSocketLabel
    /\ slot' = [slot EXCEPT ![o] = NoFD]
    /\ regen_pollfds' = TRUE
    /\ UNCHANGED <<doing_poll, deferred_removes, control>>

\* Mutant: the socket is closed at once, and the round goes on.
HangupCloses ==
    /\ InCommand
    /\ Remove({at})
    /\ fd' = Closed(fd, {running})
    /\ pc' = "dispatch" /\ running' = NoObject
    /\ UNCHANGED <<pollables, slot, regen_pollfds, doing_poll, at>>

\* TCPConnection::handleEvents: the peer has gone.
Hangup ==
    /\ InCommand
    /\ Remove({at})
    /\ regen_pollfds' = TRUE
    /\ pc' = "dispatch"
    /\ running' = NoObject
    /\ UNCHANGED <<registry, doing_poll, at>>

\* A command constructs a device, a plugin or a file writer: whatever had the
\* label is destroyed, and what it lists is removed once the round is over.
Construct(l, o) ==
    /\ InCommand
    /\ l \in ClientLabel /\ o \notin Live
    /\ pollables' = [pollables EXCEPT ![l] = o]
    /\ \E f \in (DeviceFD \ Open) \cup {NoFD} :
          fd' = [Closed(fd, {pollables[l]}) EXCEPT ![o] = f]
    /\ slot' = [slot EXCEPT ![o] = NoFD]
    /\ \E cascade \in SUBSET (IF l \in Registered THEN Clients ELSE {}) :
          deferred_removes' = deferred_removes \cup cascade
    /\ regen_pollfds' = TRUE
    /\ UNCHANGED <<doing_poll, controlSocketLabel, control>>

\* Plugins, and what a failed attach leaves, never have a descriptor or an entry.
PluginLike(l) == l \in Clients /\ fd[pollables[l]] = NoFD /\ slot[pollables[l]] = NoFD

\* "detach": what has the label, a plugin or anything else, is erased at once, with no
\* regeneration; a device then removes the plugins that it lists.  The handler of a
\* connection that has detached itself goes on with released storage: as if it had not
\* been reused.
Erase(l) ==
    /\ InCommand
    /\ l \in Registered
    /\ DetachAny \/ PluginLike(l)
    /\ pollables' = [pollables EXCEPT ![l] = NoObject]
    /\ fd' = Closed(fd, {pollables[l]})
    /\ \E cascade \in SUBSET (IF DetachAny THEN Clients ELSE {}) :
          deferred_removes' = deferred_removes \cup cascade
    /\ UNCHANGED <<slot, regen_pollfds, doing_poll, controlSocketLabel, control>>

\* Mutant: what is removed during a round is erased at once.
ReconfigureErases(R) ==
    /\ InHandler /\ at # ListenerLabel
    /\ R \subseteq Clients
    /\ pollables' = [l \in Label |-> IF l \in R THEN NoObject ELSE pollables[l]]
    /\ fd' = Closed(fd, {pollables[l] : l \in R})
    /\ regen_pollfds' = TRUE
    /\ UNCHANGED <<slot, doing_poll, deferred_removes, controlSocketLabel, control>>

\* A handler opens and closes descriptors of devices and files, may remove some
\* of them (close, a file that cannot be opened), and asks for a regeneration.
Reconfigure(R) ==
    /\ InHandler /\ at # ListenerLabel
    /\ R \subseteq Clients
    /\ Remove(R)
    /\ regen_pollfds' = TRUE
    /\ UNCHANGED <<pollables, slot, doing_poll, control>>
    /\ \E g \in [ClientObject -> DeviceFD \cup {NoFD}] :
          /\ \A o, p \in ClientObject : g[o] = g[p] /\ g[o] # NoFD => o = p
          /\ fd' = [o \in Object |-> IF o \in ClientObject THEN g[o] ELSE fd[o]]

\* "rawFileOff": a removal that asks for no regeneration.
RemoveClient(l) ==
    /\ InCommand
    /\ l \in Clients
    /\ Remove({l})
    /\ UNCHANGED <<registry, regen_pollfds, doing_poll, control>>

\* WavFileWriter::resumeWithNewFile forgets its descriptor.
DropFD(l) ==
    /\ InCommand
    /\ l \in Clients
    /\ fd' = Closed(fd, {pollables[l]})
    /\ UNCHANGED <<pollables, slot, regen_pollfds, doing_poll,
                   deferred_removes, controlSocketLabel, control>>

\* A handler throws (quit, an ALSA error): run() is left and main() exits.
Throw ==
    /\ InHandler /\ at # ListenerLabel
    /\ pc' = "exit"
    /\ UNCHANGED <<registry, regen_pollfds, doing_poll, deferred_removes,
                   controlSocketLabel, at, running>>

\* The process is gone.
Exited == pc = "exit" /\ UNCHANGED vars

Loop == BeginPoll \/ HandlerReturn \/ EndPoll \/ \E l \in Label : Dispatch(l)

Next ==
    \/ Loop
    \/ PollFails
    \/ \E f \in SocketFD, o \in Object : Accept(f, o)
    \/ Hangup
    \/ \E l \in ClientLabel, o \in Object : Construct(l, o)
    \/ \E l \in Label : Erase(l)
    \/ \E l \in ClientLabel : RemoveClient(l) \/ DropFD(l)
    \/ \E R \in SUBSET ClientLabel : Reconfigure(R)
    \/ Throw
    \/ Exited

Spec == Init /\ [][Next]_vars

\* ::poll returns within its timeout and every handler returns.
Fairness == WF_vars(Loop)

FairSpec == Spec /\ Fairness

-----------------------------------------------------------------------------
(* Safety.  The first three hold as long as clients detach plugins only: what else  *)
(* is detached is gone in the middle of a round, and no regeneration follows.       *)

\* While no regeneration is pending, the entries of allpollfds are the open
\* descriptors of live objects, each at its own object's index: no round polls
\* a closed descriptor or that of a destroyed object, or forgets one.  The only
\* stale entry is that of an object which has forgotten its descriptor.
SlotsFresh ==
    ~regen_pollfds =>
        \A o \in Object :
            /\ fd[o] # NoFD => slot[o] = fd[o]
            /\ slot[o] # NoFD => o \in Live /\ fd[o] \in {slot[o], NoFD}

\* The object whose handler runs stays registered under the label the loop's
\* iterator stands on until the handler returns: neither ptr nor the iterator
\* dangles, whatever the handler closes, removes or replaces, and whichever plugin it
\* detaches.
RunningIsRegistered ==
    InHandler => running # NoObject /\ pollables[at] = running

\* asyncMsg always finds its connection, and one that is not being removed.
ControlIsLive ==
    controlSocketLabel # NoLabel =>
        /\ pollables[controlSocketLabel] # NoObject
        /\ controlSocketLabel \notin deferred_removes

\* "Socket#<fd>" is never given to a new connection while an old one has it:
\* the old one would be destroyed with its output, and a removal deferred for
\* it would take the new one.  The descriptor of a connection that hung up in
\* this round is not closed before doDeferrals, so accept cannot return it.
ConnNeverReplaced ==
    [][\A l \in ConnLabel :
          pollables[l] # NoObject /\ pollables'[l] # NoObject
              => pollables'[l] = pollables[l]]_vars

-----------------------------------------------------------------------------
(* Liveness *)

\* A deferred removal is carried out: the connection that hung up is closed,
\* the device that a client closed is gone.
RemovalCompletes ==
    \A l \in Label : l \in deferred_removes ~> pollables[l] = NoObject \/ pc = "exit"

\* Every object with an entry in allpollfds is served again and again, unless
\* regenerations keep cutting rounds short or the program ends.
Served ==
    \A l \in Label :
        \/ []<>(l \notin Polled)
        \/ []<>(pc = "handler" /\ at = l)
        \/ []<>regen_pollfds
        \/ <>(pc = "exit")

=============================================================================
