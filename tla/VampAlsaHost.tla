---------------------------- MODULE VampAlsaHost ----------------------------
(***************************************************************************)
(* The objects the server manages and the commands that change them:       *)
(* VampAlsaHost::runCommand on top of Pollable's rounds, with what devices *)
(* (DevMinder and its two subclasses), plugins (PluginRunner), file writers*)
(* (WavFileWriter) and connections do to each other.  Data is left out:    *)
(* what matters here is who is registered, who refers to whom, and which   *)
(* descriptors are open.                                                   *)
(*                                                                         *)
(* The registry holds the only lasting shared pointer to an object, so a   *)
(* label names at most one live object and a weak pointer is one of: none, *)
(* live (to the object registered under that label), or expired.           *)
(***************************************************************************)
EXTENDS Integers, FiniteSets

CONSTANTS
    DevLabel,       \* labels clients give to devices
    RtlLabel,       \* those of them opened with an "rtlsdr:" name
    FileDev,        \* devices that clients record to files
    FileOf,         \* FileOf[d]: the label "<d>_FileWriter"
    PlugLabel,      \* labels clients give to plugins
    ConnLabels,     \* labels of connections, one per descriptor
    ListenerLabel,
    MaxBatch,       \* commands that one read from a connection may hold
    Reopen,         \* clients may "open" a label that is in use
    DetachAny       \* clients "detach" the labels of other things than plugins, too

NoLabel == 0
FileLabel == {FileOf[d] : d \in FileDev}
ClientLabel == DevLabel \cup PlugLabel \cup FileLabel
Label == ClientLabel \cup ConnLabels \cup {ListenerLabel}

ASSUME HostAssumption ==
    /\ Label \subseteq Nat \ {0}
    /\ RtlLabel \subseteq DevLabel /\ FileDev \subseteq DevLabel
    /\ \A d, e \in FileDev : FileOf[d] = FileOf[e] => d = e
    /\ DevLabel \cap PlugLabel = {} /\ FileLabel \cap (DevLabel \cup PlugLabel) = {}
    /\ ClientLabel \cap ConnLabels = {}
    /\ ListenerLabel \notin ClientLabel \cup ConnLabels
    /\ MaxBatch \in Nat \ {0} /\ Reopen \in BOOLEAN /\ DetachAny \in BOOLEAN

VARIABLES
    obj,                    \* the registry: label -> state of the object
    slotted,                \* identities of the objects with entries in allpollfds
    deferred_removes,
    regen_pollfds,
    doing_poll,
    controlSocketLabel,
    defaultOutputListener,
    pc, at,
    batch                   \* commands run since the connection's last read

round == <<pc, at, batch>>
vars == <<obj, slotted, deferred_removes, regen_pollfds, doing_poll,
          controlSocketLabel, defaultOutputListener, pc, at, batch>>

-----------------------------------------------------------------------------
(* Objects *)

Nothing == [kind |-> "none"]
Listener == [kind |-> "listener"]
Conn == [kind |-> "conn"]

\* out: the connections that its outputListeners still reach.
Plug(d, out) == [kind |-> "plug", dev |-> d, out |-> out]

\* A plugin whose constructor threw: the registry still points at it.
Dangling == [kind |-> "dangling"]

\* open: pollfd.fd >= 0.
File(open) == [kind |-> "file", open |-> open]

\* A device.  hw: hw_is_open(); fds: numFD > 0; should: shouldBeRunning;
\* plugs, stale: keys of plugins whose weak pointer is live, expired; rec: the
\* same of the raw listener "<label>_FileWriter"; gen tells a device from the
\* one it replaced.
Dev(gen, o) ==
    [kind |-> "dev", gen |-> gen, hw |-> o.hw, fds |-> o.fds, should |-> FALSE,
     plugs |-> {}, stale |-> {}, rec |-> "none"]

\* How hw_open may end.  snd_pcm_open may fail, or a later call after it, with
\* numFD not initialised; a radio's socket may fail to be created or connected.
OpenOutcome(d) ==
    [hw : BOOLEAN, fds : IF d \in RtlLabel THEN {TRUE} ELSE BOOLEAN]

Object ==
    {Nothing, Listener, Conn, Dangling}
    \cup [kind : {"plug"}, dev : DevLabel, out : SUBSET ConnLabels]
    \cup [kind : {"file"}, open : BOOLEAN]
    \cup [kind : {"dev"}, gen : {0, 1}, hw : BOOLEAN, fds : BOOLEAN,
          should : BOOLEAN, plugs : SUBSET PlugLabel, stale : SUBSET PlugLabel,
          rec : {"none", "live", "expired"}]

Is(l, kind) == obj[l].kind = kind
Registered == {l \in Label : ~Is(l, "none")}
Devs == {l \in Label : Is(l, "dev")}
Plugs == {l \in Label : Is(l, "plug")}

\* getNumPollFDs() > 0
HasFD(l, o) ==
    CASE o.kind \in {"listener", "conn"} -> TRUE
      [] o.kind = "file" -> o.open
      [] o.kind = "dev" -> o.hw /\ o.fds /\ (l \in RtlLabel \/ o.should)
      [] OTHER -> FALSE

\* Every weak pointer to an object of D expires.
Expire(o, l, D) ==
    CASE o.kind = "plug" -> [o EXCEPT !.out = @ \ D]
      [] o.kind = "dev" ->
            [o EXCEPT !.plugs = @ \ D, !.stale = @ \cup (o.plugs \cap D),
                      !.rec = IF @ = "live" /\ l \in FileDev /\ FileOf[l] \in D
                              THEN "expired" ELSE @]
      [] OTHER -> o

\* The objects of D are destroyed, and nothing else changes.
Destroy(D) == [l \in Label |-> IF l \in D THEN Nothing ELSE Expire(obj[l], l, D)]

\* Mutant: a device that is destroyed leaves its plugins.
PrivatesLeft(l) == {}

\* DevMinder::delete_privates: the labels that destroying l asks to remove.
Privates(l) ==
    IF Is(l, "dev") THEN (obj[l].plugs \cup obj[l].stale) \cap Registered ELSE {}

\* An identity is never that of two live objects: only devices are replaced
\* while they are registered.
Gen(l) == IF Is(l, "dev") THEN obj[l].gen ELSE 0
Id(l) == <<l, Gen(l)>>

Polled == {l \in Registered : Id(l) \in slotted}
IsNext(l) == l \in Polled /\ l > at /\ \A m \in Polled : m > at => l <= m

Init ==
    /\ obj = [l \in Label |-> IF l = ListenerLabel THEN Listener ELSE Nothing]
    /\ slotted = {}
    /\ deferred_removes = {}
    /\ regen_pollfds = TRUE
    /\ doing_poll = FALSE
    /\ controlSocketLabel = NoLabel
    /\ defaultOutputListener = NoLabel
    /\ pc = "top" /\ at = 0 /\ batch = 0

-----------------------------------------------------------------------------
(* Rounds (see module Pollable) *)

regenFDs ==
    /\ slotted' = IF regen_pollfds
                  THEN {Id(l) : l \in {m \in Registered : HasFD(m, obj[m])}}
                  ELSE slotted
    /\ regen_pollfds' = FALSE

BeginPoll ==
    /\ pc = "top"
    /\ regenFDs
    /\ doing_poll' = TRUE
    /\ pc' = "dispatch" /\ at' = 0
    /\ UNCHANGED <<obj, deferred_removes, controlSocketLabel,
                   defaultOutputListener, batch>>

\* ::poll fails, or regenFDs calls a plugin that has been released.
PollFails ==
    /\ pc = "top"
    /\ regenFDs
    /\ pc' = "exit"
    /\ UNCHANGED <<obj, deferred_removes, doing_poll, controlSocketLabel,
                   defaultOutputListener, at, batch>>

Dispatch(l) ==
    /\ pc = "dispatch" /\ ~regen_pollfds
    /\ IsNext(l)
    /\ at' = l /\ pc' = "handler" /\ batch' = 0
    /\ UNCHANGED <<obj, slotted, deferred_removes, regen_pollfds, doing_poll,
                   controlSocketLabel, defaultOutputListener>>

HandlerReturn ==
    /\ pc = "handler"
    /\ pc' = "dispatch"
    /\ UNCHANGED <<obj, slotted, deferred_removes, regen_pollfds, doing_poll,
                   controlSocketLabel, defaultOutputListener, at, batch>>

\* Mutant: removals wait for a round that is not cut short.
EndPollLate ==
    /\ pc = "dispatch"
    /\ doing_poll' = FALSE
    /\ regen_pollfds \/ \A l \in Label : ~IsNext(l)
    /\ IF regen_pollfds
       THEN UNCHANGED <<obj, deferred_removes, regen_pollfds>>
       ELSE /\ obj' = Destroy(deferred_removes \cup
                               UNION {Privates(l) : l \in deferred_removes})
            /\ regen_pollfds' = (deferred_removes # {})
            /\ deferred_removes' = {}
    /\ pc' = "top"
    /\ UNCHANGED <<slotted, controlSocketLabel, defaultOutputListener, at, batch>>

\* doDeferrals; the plugins that a destroyed device lists are erased at once.
EndPoll ==
    /\ pc = "dispatch"
    /\ doing_poll' = FALSE
    /\ regen_pollfds \/ \A l \in Label : ~IsNext(l)
    /\ LET gone == deferred_removes \cup UNION {Privates(l) : l \in deferred_removes}
       IN  obj' = Destroy(gone)
    /\ regen_pollfds' = (regen_pollfds \/ deferred_removes # {})
    /\ deferred_removes' = {}
    /\ pc' = "top"
    /\ UNCHANGED <<slotted, controlSocketLabel, defaultOutputListener, at, batch>>

\* Pollable::remove(l), in a round.
Remove(l) ==
    /\ deferred_removes' = deferred_removes \cup ({l} \cap Registered)
    /\ controlSocketLabel' = IF l \in Registered /\ l = controlSocketLabel
                             THEN NoLabel ELSE controlSocketLabel

-----------------------------------------------------------------------------
(* Connections *)

\* TCPListener::handleEvents: the label is free because the descriptor is.
Accept(l) ==
    /\ pc = "handler" /\ at = ListenerLabel
    /\ l \in ConnLabels \ Registered
    /\ obj' = [obj EXCEPT ![l] = Conn]
    /\ slotted' = slotted \ {<<l, 0>>}
    /\ controlSocketLabel' = IF controlSocketLabel = NoLabel THEN l
                             ELSE controlSocketLabel
    /\ regen_pollfds' = TRUE
    /\ UNCHANGED <<deferred_removes, doing_poll, defaultOutputListener, round>>

\* TCPConnection::handleEvents: the peer has gone.
Hangup ==
    /\ pc = "handler" /\ at \in ConnLabels /\ batch = 0
    /\ Remove(at)
    /\ regen_pollfds' = TRUE
    /\ pc' = "dispatch"
    /\ UNCHANGED <<obj, slotted, doing_poll, defaultOutputListener, at, batch>>

\* runCommand is called for the next line of the connection's input.
Command ==
    /\ pc = "handler" /\ at \in ConnLabels
    /\ batch < MaxBatch
    /\ batch' = batch + 1
    /\ UNCHANGED <<pc, at, doing_poll>>

\* The handler of a device or of a file deals with one event.
Event ==
    /\ pc = "handler" /\ batch = 0
    /\ batch' = 1
    /\ UNCHANGED <<pc, at, doing_poll>>

\* A step that constructs and removes nothing.
Unchanged == UNCHANGED <<slotted, deferred_removes, controlSocketLabel>>

-----------------------------------------------------------------------------
(* Devices *)

\* DevMinder::stop and start on a device in state o; start fails when hw_open
\* does, and opens nothing when the device is still open.
Stopped(l, o) == [o EXCEPT !.should = FALSE, !.hw = @ /\ l \in RtlLabel]

Started(l, o) ==
    IF o.hw THEN {[o EXCEPT !.should = TRUE]}
    ELSE {[o EXCEPT !.should = TRUE, !.hw = x.hw, !.fds = x.fds] :
              x \in OpenOutcome(l)}

\* "open": the constructor registers the device, in the place of whatever had
\* the label, before hw_open is tried; a failure leaves it there.
OpenDev(l) ==
    /\ Command
    /\ l \in DevLabel
    /\ Reopen \/ Is(l, "none")
    /\ LET gen == IF Is(l, "dev") THEN 1 - Gen(l) ELSE 0
       IN  /\ \E o \in OpenOutcome(l) :
                obj' = [Destroy({l}) EXCEPT ![l] = Dev(gen, o)]
           /\ slotted' = slotted \ {<<l, gen>>}
    /\ deferred_removes' = deferred_removes \cup Privates(l)
    /\ regen_pollfds' = TRUE
    /\ UNCHANGED <<controlSocketLabel, defaultOutputListener>>

\* Mutant: the device is destroyed in the round.
CloseDevNow(l) ==
    /\ Command
    /\ l \in Devs
    /\ obj' = Destroy({l} \cup Privates(l))
    /\ regen_pollfds' = TRUE
    /\ UNCHANGED defaultOutputListener /\ Unchanged

\* "close": the device stops now and is destroyed after the round.
CloseDev(l) ==
    /\ Command
    /\ l \in Devs
    /\ obj' = [obj EXCEPT ![l] = Stopped(l, @)]
    /\ Remove(l)
    /\ regen_pollfds' = TRUE
    /\ UNCHANGED <<slotted, defaultOutputListener>>

\* "start" and "stop" of a device.
StartDev(l) ==
    /\ Command
    /\ l \in Devs
    /\ \E o \in Started(l, obj[l]) : obj' = [obj EXCEPT ![l] = o]
    /\ regen_pollfds' = TRUE
    /\ UNCHANGED defaultOutputListener /\ Unchanged

\* Mutant: no regeneration is asked for.
StopDevSilent(l) ==
    /\ Command
    /\ l \in Devs
    /\ obj' = [obj EXCEPT ![l] = Stopped(l, @)]
    /\ UNCHANGED <<regen_pollfds, defaultOutputListener>> /\ Unchanged

StopDev(l) ==
    /\ Command
    /\ l \in Devs
    /\ obj' = [obj EXCEPT ![l] = Stopped(l, @)]
    /\ regen_pollfds' = TRUE
    /\ UNCHANGED defaultOutputListener /\ Unchanged

\* "start" and "stop" of what is no device, and "close" of what is none.
Regenerate ==
    /\ Command
    /\ regen_pollfds' = TRUE
    /\ UNCHANGED <<obj, defaultOutputListener>> /\ Unchanged

\* "startAll" and "stopAll": start and stop of the others do nothing.
StartAll ==
    /\ Command
    /\ \E s \in [Devs -> UNION {Started(l, obj[l]) : l \in Devs}] :
          /\ \A l \in Devs : s[l] \in Started(l, obj[l])
          /\ obj' = [l \in Label |-> IF l \in Devs THEN s[l] ELSE obj[l]]
    /\ regen_pollfds' = TRUE
    /\ UNCHANGED defaultOutputListener /\ Unchanged

StopAll ==
    /\ Command
    /\ obj' = [l \in Label |-> IF l \in Devs THEN Stopped(l, obj[l]) ELSE obj[l]]
    /\ regen_pollfds' = TRUE
    /\ UNCHANGED defaultOutputListener /\ Unchanged

-----------------------------------------------------------------------------
(* Plugins *)

\* "attach": the plugin is registered and listed by its device, and its output
\* goes to the default listener if an object has that label.
Attach(p, d) ==
    /\ Command
    /\ d \in Devs /\ p \in PlugLabel \ Registered
    /\ LET out == {defaultOutputListener} \cap Registered
       IN  /\ obj' = [obj EXCEPT ![p] = Plug(d, out),
                                 ![d].plugs = @ \cup {p},
                                 ![d].stale = @ \ {p}]
           /\ defaultOutputListener' = IF out = {} THEN NoLabel
                                       ELSE defaultOutputListener
    /\ slotted' = slotted \ {<<p, 0>>}
    /\ regen_pollfds' = TRUE
    /\ UNCHANGED <<deferred_removes, controlSocketLabel>>

\* "attach" of a plugin that cannot be loaded: the constructor throws, and the
\* registry keeps a shared pointer to the storage that is released.
AttachFails(p, d) ==
    /\ Command
    /\ d \in Devs /\ p \in PlugLabel \ Registered
    /\ obj' = [obj EXCEPT ![p] = Dangling]
    /\ slotted' = slotted \ {<<p, 0>>}
    /\ regen_pollfds' = TRUE
    /\ UNCHANGED <<deferred_removes, controlSocketLabel, defaultOutputListener>>

\* "detach": what has the label is erased at once, whatever it is; a plugin's device keeps
\* the plugin's label.  After a connection has detached itself see Pollable's Erase.
Detach(l) ==
    /\ Command
    /\ l \in Registered
    /\ DetachAny \/ l \in PlugLabel
    /\ obj' = Destroy({l})
    /\ deferred_removes' = deferred_removes \cup Privates(l)
    /\ UNCHANGED <<slotted, regen_pollfds, controlSocketLabel, defaultOutputListener>>

\* "receive" and "receiveAll".
Receive(p) ==
    /\ Command
    /\ p \in Plugs
    /\ obj' = [obj EXCEPT ![p].out = @ \cup ({at} \cap Registered)]
    /\ UNCHANGED <<regen_pollfds, defaultOutputListener>> /\ Unchanged

ReceiveAll ==
    /\ Command
    /\ obj' = [l \in Label |->
                  IF l \in Plugs
                  THEN [obj[l] EXCEPT !.out = @ \cup ({at} \cap Registered)] ELSE obj[l]]
    /\ defaultOutputListener' = at
    /\ UNCHANGED regen_pollfds /\ Unchanged

-----------------------------------------------------------------------------
(* Recording *)

\* "rawFile": a writer that exists is only given the new path, and forgets its
\* descriptor; otherwise one is made, and listens to the device.
RawFile(d) ==
    /\ Command
    /\ d \in Devs \cap FileDev
    /\ LET w == FileOf[d]
       IN  \/ /\ Is(w, "file")
              /\ obj' = [obj EXCEPT ![w] = File(FALSE)]
              /\ UNCHANGED <<slotted, regen_pollfds>>
           \/ /\ ~Is(w, "file")
              /\ obj' = [obj EXCEPT ![w] = File(FALSE), ![d].rec = "live"]
              /\ slotted' = slotted \ {<<w, 0>>}
              /\ regen_pollfds' = TRUE
    /\ UNCHANGED <<deferred_removes, controlSocketLabel, defaultOutputListener>>

\* "rawFileOff"
RawFileOff(d) ==
    /\ Command
    /\ d \in Devs \cap FileDev
    /\ obj' = [obj EXCEPT ![d].rec = "none"]
    /\ Remove(FileOf[d])
    /\ UNCHANGED <<slotted, regen_pollfds, defaultOutputListener>>

-----------------------------------------------------------------------------
(* Events on devices and files *)

\* Expired weak pointers are dropped when data is handed out.
Pruned(o) == [o EXCEPT !.stale = {}, !.rec = IF @ = "expired" THEN "none" ELSE @]

\* DevMinder::handleEvents with data: it goes to the plugins and to the writer,
\* which may open its file, fail to open it, or do neither.
DevData ==
    /\ Event /\ at \in Devs
    /\ LET w == FileOf[at]
           o == Pruned(obj[at])
       IN  \/ /\ obj' = [obj EXCEPT ![at] = o]
              /\ UNCHANGED <<deferred_removes, regen_pollfds, controlSocketLabel>>
           \/ /\ o.rec = "live" /\ ~obj[w].open
              /\ obj' = [obj EXCEPT ![at] = o, ![w] = File(TRUE)]
              /\ regen_pollfds' = TRUE
              /\ UNCHANGED <<deferred_removes, controlSocketLabel>>
           \/ /\ o.rec = "live" /\ ~obj[w].open
              /\ obj' = [obj EXCEPT ![at] = o]
              /\ Remove(w)
              /\ regen_pollfds' = TRUE
    /\ UNCHANGED <<slotted, defaultOutputListener>>

\* DevMinder::handleEvents finds that no data has come for too long.
Stall ==
    /\ Event /\ at \in Devs /\ obj[at].should
    /\ obj' = [obj EXCEPT ![at] = Stopped(at, @)]
    /\ regen_pollfds' = TRUE
    /\ UNCHANGED defaultOutputListener /\ Unchanged

\* WavFileWriter::handleEvents: the file is complete, or cannot be written.
FileDone ==
    /\ Event /\ Is(at, "file")
    /\ obj' = [obj EXCEPT ![at] = File(FALSE)]
    /\ regen_pollfds' = TRUE
    /\ UNCHANGED defaultOutputListener /\ Unchanged

\* "quit", and an ALSA device whose events cannot be read: run() is left.
Throw ==
    /\ pc = "handler"
    /\ at \in ConnLabels \cup (Devs \ RtlLabel)
    /\ pc' = "exit"
    /\ UNCHANGED <<obj, slotted, deferred_removes, regen_pollfds, doing_poll,
                   controlSocketLabel, defaultOutputListener, at, batch>>

Exited == pc = "exit" /\ UNCHANGED vars

Next ==
    \/ BeginPoll \/ PollFails \/ HandlerReturn \/ EndPoll \/ \E l \in Label : Dispatch(l)
    \/ \E l \in ConnLabels : Accept(l)
    \/ Hangup
    \/ \E l \in DevLabel : OpenDev(l) \/ CloseDev(l) \/ StartDev(l) \/ StopDev(l)
    \/ StartAll \/ StopAll \/ Regenerate
    \/ \E p \in PlugLabel, d \in DevLabel : Attach(p, d) \/ AttachFails(p, d)
    \/ \E l \in Label : Detach(l)
    \/ \E p \in PlugLabel : Receive(p)
    \/ ReceiveAll
    \/ \E d \in FileDev : RawFile(d) \/ RawFileOff(d)
    \/ DevData \/ Stall \/ FileDone
    \/ Throw
    \/ Exited

Spec == Init /\ [][Next]_vars

-----------------------------------------------------------------------------
(* Safety *)

TypeOK ==
    /\ obj \in [Label -> Object]
    /\ slotted \subseteq Label \X {0, 1}
    /\ deferred_removes \subseteq Label
    /\ regen_pollfds \in BOOLEAN /\ doing_poll \in BOOLEAN
    /\ controlSocketLabel \in ConnLabels \cup {NoLabel}
    /\ defaultOutputListener \in ConnLabels \cup {NoLabel}
    /\ pc \in {"top", "dispatch", "handler", "exit"}
    /\ at \in Label \cup {0}
    /\ batch \in 0..MaxBatch

\* A device hands its data to plugins that were attached to it, never to one that
\* has been detached and attached elsewhere; and between rounds no plugin is left
\* registered that no device feeds (closing or re-opening its device removes it).
PluginDeviceAgree ==
    /\ \A d \in Devs : \A p \in obj[d].plugs : Is(p, "plug") /\ obj[p].dev = d
    /\ pc = "top" =>
          \A p \in Plugs : Is(obj[p].dev, "dev") /\ p \in obj[obj[p].dev].plugs

\* The host's class invariant.
HostOK == TypeOK /\ PluginDeviceAgree

\* What a command has just constructed is not already due for removal at the end
\* of the round because of its label's former owner: after "close", "open" makes
\* the label usable again.  It holds as long as a client's commands are read one by one,
\* and nothing but plugins is detached.
ConstructedIsKept ==
    [][\A l \in ClientLabel :
          ~Is(l, "none")' /\ (Is(l, "none") \/ Id(l)' # Id(l))
              => l \notin deferred_removes']_vars

\* An ALSA device is served only while it should be running: plugins and writers
\* get its data after "start" and until "stop".
DataNeedsStart ==
    pc = "handler" /\ at \in Devs \ RtlLabel /\ batch = 0 => obj[at].should

\* A device that lives on after a round keeps the plugins attached to it: closing
\* another device, or a connection, does not take them.
SurvivorsKeepPlugins ==
    [][pc = "dispatch" /\ pc' = "top" =>
          \A d \in Devs : Is(d, "dev")' => obj'[d].plugs = obj[d].plugs]_vars

\* "There is no attached plugin with label ...": detach deletes plugins, and the
\* connection whose command runs stays registered while its handler does.  The code erases
\* whatever has the label.
HandlerIsRegistered == pc = "handler" => at \in Registered

-----------------------------------------------------------------------------
(* The rounds that Pollable promises *)

\* An object's identity stands for its descriptor too.
NoId == <<>>
Ids == (Label \X {0}) \cup (DevLabel \X {1})
OpenFD(x) == x = Id(x[1]) /\ HasFD(x[1], obj[x[1]])

\* The refinement mapping.
pollablesBar == [l \in Label |-> IF Is(l, "none") THEN NoId ELSE Id(l)]
fdBar == [x \in Ids |-> IF OpenFD(x) THEN x ELSE NoId]
slotBar == [x \in Ids |-> IF x \in slotted THEN x ELSE NoId]
runningBar == IF pc = "handler" \/ (pc = "exit" /\ doing_poll) THEN Id(at) ELSE NoId

Poll == INSTANCE Pollable WITH
    SocketFD <- ConnLabels \X {0},
    FdLabel <- [f \in ConnLabels \X {0} |-> f[1]],
    ListenerFD <- <<ListenerLabel, 0>>,
    DeviceFD <- (FileLabel \X {0}) \cup (DevLabel \X {0, 1}),
    Object <- Ids,
    NoObject <- NoId,
    NoFD <- NoId,
    pollables <- pollablesBar,
    fd <- fdBar,
    slot <- slotBar,
    running <- runningBar

\* Every command and event does to the registry only what Pollable allows: what
\* is proved of the rounds holds of the whole server.
RefinesPollable == Poll!Init /\ [][Poll!Next]_Poll!vars

=============================================================================
