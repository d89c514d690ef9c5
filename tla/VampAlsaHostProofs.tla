------------------------- MODULE VampAlsaHostProofs -------------------------
(***************************************************************************)
(* Proofs about the server's objects and commands, for any labels, devices,*)
(* radios, writers, plugins and connections, and any number of commands to *)
(* a read.                                                                 *)
(*                                                                         *)
(* IInv is inductive.  HostOK needs to know what may have which label      *)
(* (Typed), and that a plugin which its device no longer lists is due for  *)
(* removal (OrphansGo).  DataNeedsStart needs the entries of devices to be *)
(* those that should be polled (DevSlotsFresh).  That commands do to the   *)
(* registry what Pollable allows needs all of these.                       *)
(***************************************************************************)
EXTENDS VampAlsaHost, TLAPS

DevState == [kind : {"dev"}, gen : {0, 1}, hw : BOOLEAN, fds : BOOLEAN,
             should : BOOLEAN, plugs : SUBSET PlugLabel, stale : SUBSET PlugLabel,
             rec : {"none", "live", "expired"}]
PlugState == [kind : {"plug"}, dev : DevLabel, out : SUBSET ConnLabels]
FileState == [kind : {"file"}, open : BOOLEAN]

\* What the object under label l may be.
StateOf(l) ==
    {Nothing} \cup
    IF l \in DevLabel THEN DevState
    ELSE IF l \in PlugLabel THEN PlugState \cup {Dangling}
    ELSE IF l \in FileLabel THEN FileState
    ELSE IF l \in ConnLabels THEN {Conn}
    ELSE {Listener}

\* A label names only what it was made for.
Typed ==
    /\ obj = [l \in Label |-> obj[l]]
    /\ \A l \in Label : obj[l] \in StateOf(l)
    /\ slotted \subseteq Label \X {0, 1}
    /\ deferred_removes \subseteq Label
    /\ regen_pollfds \in BOOLEAN /\ doing_poll \in BOOLEAN
    /\ controlSocketLabel \in ConnLabels \cup {NoLabel}
    /\ defaultOutputListener \in ConnLabels \cup {NoLabel}
    /\ pc \in {"top", "dispatch", "handler", "exit"}
    /\ at \in Label \cup {0}
    /\ batch \in 0..MaxBatch
    /\ pc = "handler" => at \in Label

\* Where the loop is says whether a round is on and removals may be waiting.
RoundsOK ==
    /\ pc = "top" => deferred_removes = {} /\ ~doing_poll
    /\ pc \in {"dispatch", "handler"} => doing_poll

\* A device's live weak pointers are to plugins that were attached to it.
PlugsAgree ==
    \A d \in DevLabel : Is(d, "dev") =>
        \A p \in obj[d].plugs : Is(p, "plug") /\ obj[p].dev = d

\* A plugin that no device lists is due for removal.
OrphansGo ==
    \A p \in PlugLabel : Is(p, "plug") =>
        \/ p \in deferred_removes
        \/ Is(obj[p].dev, "dev") /\ p \in obj[obj[p].dev].plugs

\* A device's live weak pointer to a writer is to the one of its own label.
RecordersAgree ==
    \A d \in DevLabel : Is(d, "dev") /\ obj[d].rec = "live" =>
        d \in FileDev /\ Is(FileOf[d], "file")

\* Between regenerations, only devices that are to be polled have entries.
DevSlotsFresh ==
    ~regen_pollfds =>
        \A d \in DevLabel : Is(d, "dev") /\ Id(d) \in slotted => HasFD(d, obj[d])

\* Plugins have no entries.
PlugsUnslotted == \A p \in PlugLabel : <<p, 0>> \notin slotted

IInv ==
    /\ Typed /\ RoundsOK
    /\ PlugsAgree /\ OrphansGo /\ RecordersAgree
    /\ DevSlotsFresh /\ PlugsUnslotted
    /\ DataNeedsStart

-----------------------------------------------------------------------------
(* Labels and states *)

\* A label belongs to one kind of object.
LEMMA LabelFacts ==
    /\ Label = DevLabel \cup PlugLabel \cup FileLabel \cup ConnLabels \cup {ListenerLabel}
    /\ DevLabel \cap PlugLabel = {} /\ DevLabel \cap FileLabel = {}
    /\ PlugLabel \cap FileLabel = {}
    /\ ConnLabels \cap (DevLabel \cup PlugLabel \cup FileLabel) = {}
    /\ ListenerLabel \notin DevLabel \cup PlugLabel \cup FileLabel \cup ConnLabels
    /\ ClientLabel = DevLabel \cup PlugLabel \cup FileLabel
    /\ 0 \notin Label /\ Label \subseteq Nat
    /\ \A d \in FileDev : d \in DevLabel /\ FileOf[d] \in FileLabel
    /\ \A d, e \in FileDev : FileOf[d] = FileOf[e] => d = e
    /\ RtlLabel \subseteq DevLabel
BY HostAssumption DEF HostAssumption, Label, ClientLabel, FileLabel

\* The states of one kind of object are told apart by their kind.
LEMMA StateFacts ==
    ASSUME NEW l \in Label, NEW o \in StateOf(l)
    PROVE  /\ o.kind = "none" <=> o = Nothing
           /\ o.kind = "dev" <=> o \in DevState
           /\ o.kind = "plug" <=> o \in PlugState
           /\ o.kind = "file" <=> o \in FileState
           /\ o.kind = "conn" <=> o = Conn
           /\ o.kind = "dev" => l \in DevLabel
           /\ o.kind \in {"plug", "dangling"} => l \in PlugLabel
           /\ o.kind = "file" => l \in FileLabel
           /\ o.kind = "conn" => l \in ConnLabels
           /\ o.kind = "listener" => l = ListenerLabel
           /\ o.kind \in {"none", "dev", "plug", "dangling", "file", "conn", "listener"}
           /\ o \in Object
<1>1. CASE l \in DevLabel
  BY <1>1, LabelFacts DEF StateOf, Nothing, Conn, DevState, PlugState, FileState, Object
<1>2. CASE l \in PlugLabel
  BY <1>2, LabelFacts DEF StateOf, Nothing, Conn, Dangling, DevState, PlugState, FileState, Object
<1>3. CASE l \in FileLabel
  BY <1>3, LabelFacts DEF StateOf, Nothing, Conn, DevState, PlugState, FileState, Object
<1>4. CASE l \in ConnLabels
  BY <1>4, LabelFacts DEF StateOf, Nothing, Conn, DevState, PlugState, FileState, Object
<1>5. CASE l = ListenerLabel
  BY <1>5, LabelFacts DEF StateOf, Nothing, Conn, Listener, DevState, PlugState, FileState, Object
<1> QED
  BY <1>1, <1>2, <1>3, <1>4, <1>5, LabelFacts

\* An object that loses weak pointers stays the same kind of object, with the same
\* descriptors.
LEMMA ExpireFacts ==
    ASSUME NEW l \in Label, NEW o \in StateOf(l), NEW D
    PROVE  /\ Expire(o, l, D) \in StateOf(l)
           /\ Expire(o, l, D).kind = o.kind
           /\ HasFD(l, Expire(o, l, D)) <=> HasFD(l, o)
           /\ o.kind = "plug" => Expire(o, l, D).dev = o.dev
           /\ o.kind = "dev" =>
                /\ Expire(o, l, D).gen = o.gen
                /\ Expire(o, l, D).should = o.should
                /\ Expire(o, l, D).plugs = o.plugs \ D
                /\ Expire(o, l, D).rec = "live" =>
                      o.rec = "live" /\ ~(l \in FileDev /\ FileOf[l] \in D)
<1>1. CASE o.kind = "plug"
  <2>1. o \in PlugState /\ l \in PlugLabel
    BY <1>1, StateFacts
  <2>2. Expire(o, l, D) = [o EXCEPT !.out = @ \ D]
    BY <1>1 DEF Expire
  <2>3. Expire(o, l, D) \in PlugState
    BY <2>1, <2>2 DEF PlugState
  <2> QED
    BY <1>1, <2>1, <2>2, <2>3, LabelFacts DEF PlugState, StateOf, HasFD
<1>2. CASE o.kind = "dev"
  <2>1. o \in DevState /\ l \in DevLabel
    BY <1>2, StateFacts
  <2> DEFINE r == IF o.rec = "live" /\ l \in FileDev /\ FileOf[l] \in D
                  THEN "expired" ELSE o.rec
             e == [o EXCEPT !.plugs = @ \ D, !.stale = @ \cup (o.plugs \cap D),
                            !.rec = r]
  <2>2. Expire(o, l, D) = e
    BY <1>2, <2>1 DEF Expire, DevState
  <2>3. r \in {"none", "live", "expired"}
    BY <2>1 DEF DevState
  <2>4. /\ e.kind = o.kind /\ e.gen = o.gen /\ e.should = o.should /\ e.hw = o.hw
        /\ e.fds = o.fds /\ e.plugs = o.plugs \ D /\ e.rec = r
        /\ e \in DevState
    <3> HIDE DEF r
    <3> QED
      BY <2>1, <2>3 DEF DevState
  <2>5. HasFD(l, e) <=> HasFD(l, o)
    <3> HIDE DEF e
    <3> QED
      BY <1>2, <2>4 DEF HasFD
  <2> HIDE DEF e
  <2> QED
    BY <1>2, <2>1, <2>2, <2>4, <2>5, LabelFacts DEF StateOf
<1>3. CASE o.kind \notin {"plug", "dev"}
  BY <1>3 DEF Expire
<1> QED
  BY <1>1, <1>2, <1>3

\* What stopping leaves of a device.
LEMMA StoppedFacts ==
    ASSUME NEW l \in DevLabel, NEW o \in DevState
    PROVE  /\ Stopped(l, o) \in DevState /\ Stopped(l, o).gen = o.gen
           /\ Stopped(l, o).plugs = o.plugs /\ Stopped(l, o).rec = o.rec
BY DEF Stopped, DevState

\* What starting leaves of a device.
LEMMA StartedFacts ==
    ASSUME NEW l \in DevLabel, NEW o \in DevState, NEW p \in Started(l, o)
    PROVE  p \in DevState /\ p.gen = o.gen /\ p.plugs = o.plugs /\ p.rec = o.rec
<1>1. CASE o.hw
  BY <1>1 DEF Started, DevState
<1>2. CASE ~o.hw
  <2>1. PICK x \in OpenOutcome(l) :
          p = [o EXCEPT !.should = TRUE, !.hw = x.hw, !.fds = x.fds]
    BY <1>2 DEF Started
  <2>2. x.hw \in BOOLEAN /\ x.fds \in BOOLEAN
    BY DEF OpenOutcome
  <2> QED
    BY <2>1, <2>2 DEF DevState
<1> QED
  BY <1>1, <1>2

\* What handing out data leaves of a device.
LEMMA PrunedFacts ==
    ASSUME NEW l \in DevLabel, NEW o \in DevState
    PROVE  /\ Pruned(o) \in DevState /\ Pruned(o).gen = o.gen
           /\ Pruned(o).plugs = o.plugs /\ Pruned(o).should = o.should
           /\ Pruned(o).rec = "live" <=> o.rec = "live"
           /\ HasFD(l, Pruned(o)) <=> HasFD(l, o)
<1>1. /\ Pruned(o) \in DevState
      /\ Pruned(o).gen = o.gen /\ Pruned(o).plugs = o.plugs
      /\ Pruned(o).should = o.should /\ Pruned(o).hw = o.hw /\ Pruned(o).fds = o.fds
      /\ Pruned(o).rec = "live" <=> o.rec = "live"
      /\ Pruned(o).kind = "dev" /\ o.kind = "dev"
  BY DEF Pruned, DevState
<1>2. HasFD(l, Pruned(o)) <=> HasFD(l, o)
  BY <1>1 DEF HasFD
<1> QED
  BY <1>1, <1>2

\* What objects are when they are constructed.
LEMMA NewFacts ==
    /\ \A d \in DevLabel, g \in {0, 1} : \A o \in OpenOutcome(d) :
          /\ Dev(g, o) \in DevState /\ Dev(g, o).gen = g
          /\ Dev(g, o).plugs = {} /\ Dev(g, o).rec = "none"
    /\ \A d \in DevLabel, out \in SUBSET ConnLabels :
          Plug(d, out) \in PlugState /\ Plug(d, out).dev = d
    /\ \A b \in BOOLEAN : File(b) \in FileState /\ File(b).open = b
    /\ Dangling.kind = "dangling" /\ Conn.kind = "conn"
    /\ Nothing.kind = "none"
<1>1. ASSUME NEW d \in DevLabel, NEW g \in {0, 1}, NEW o \in OpenOutcome(d)
      PROVE  /\ Dev(g, o) \in DevState /\ Dev(g, o).gen = g
             /\ Dev(g, o).plugs = {} /\ Dev(g, o).rec = "none"
  <2>1. o.hw \in BOOLEAN /\ o.fds \in BOOLEAN
    BY DEF OpenOutcome
  <2> QED
    BY <2>1 DEF Dev, DevState
<1> QED
  BY <1>1 DEF Plug, PlugState, File, FileState, Dangling, Conn, Nothing

\* What may be under a client's label.
LEMMA MemberFacts ==
    /\ \A l \in Label : Nothing \in StateOf(l)
    /\ \A l \in DevLabel : DevState \subseteq StateOf(l)
    /\ \A l \in PlugLabel : PlugState \subseteq StateOf(l) /\ Dangling \in StateOf(l)
    /\ \A l \in FileLabel : FileState \subseteq StateOf(l)
    /\ \A l \in ConnLabels : Conn \in StateOf(l)
BY LabelFacts DEF StateOf

\* The invariant's types are those of the module.
LEMMA TypedIsTyped == Typed => TypeOK
<1> SUFFICES ASSUME Typed PROVE TypeOK
  OBVIOUS
<1>1. \A l \in Label : obj[l] \in Object
  BY StateFacts DEF Typed
<1>2. obj \in [Label -> Object]
  BY <1>1 DEF Typed
<1> QED
  BY <1>2 DEF Typed, TypeOK

\* What is registered under which label.
LEMMA KindFacts ==
    ASSUME Typed, NEW l \in Label
    PROVE  /\ Is(l, "dev") => l \in DevLabel /\ obj[l] \in DevState
           /\ Is(l, "plug") => l \in PlugLabel /\ obj[l] \in PlugState
           /\ Is(l, "dangling") => l \in PlugLabel
           /\ Is(l, "file") => l \in FileLabel /\ obj[l] \in FileState
           /\ l \in DevLabel => Is(l, "none") \/ Is(l, "dev")
           /\ l \in PlugLabel => Is(l, "none") \/ Is(l, "plug") \/ Is(l, "dangling")
           /\ l \in FileLabel => Is(l, "none") \/ Is(l, "file")
           /\ l \in ConnLabels => Is(l, "none") \/ Is(l, "conn")
           /\ l = ListenerLabel => Is(l, "none") \/ Is(l, "listener")
           /\ obj[l] \in StateOf(l)
<1>1. obj[l] \in StateOf(l)
  BY DEF Typed
<1> QED
  BY <1>1, StateFacts, LabelFacts DEF Is

\* The labels that go with a device are those of plugins.
LEMMA PrivatesFacts ==
    ASSUME Typed, NEW l \in Label
    PROVE  /\ Privates(l) \subseteq PlugLabel \cap Registered
           /\ Is(l, "dev") => \A p \in obj[l].plugs : p \in Registered => p \in Privates(l)
BY KindFacts DEF Privates, DevState

-----------------------------------------------------------------------------
(* What steps keep *)

\* The links of the object under l to others are as before.
SameLinks(l) ==
    /\ obj'[l].kind = obj[l].kind
    /\ Is(l, "plug") => obj'[l].dev = obj[l].dev
    /\ Is(l, "dev") => /\ obj'[l].plugs = obj[l].plugs
                       /\ obj'[l].rec = "live" => obj[l].rec = "live"

\* Links that stay agree.
LEMMA LinksKept ==
    ASSUME Typed, Typed', PlugsAgree, OrphansGo, RecordersAgree,
           deferred_removes \subseteq deferred_removes',
           \A l \in ClientLabel : SameLinks(l)
    PROVE  PlugsAgree' /\ OrphansGo' /\ RecordersAgree'
<1>1. PlugsAgree'
  <2> SUFFICES ASSUME NEW d \in DevLabel, Is(d, "dev")', NEW p \in obj'[d].plugs
               PROVE  Is(p, "plug")' /\ obj'[p].dev = d
    BY DEF PlugsAgree
  <2>1. Is(d, "dev") /\ obj'[d].plugs = obj[d].plugs
    BY LabelFacts DEF SameLinks, Is
  <2>2. Is(p, "plug") /\ obj[p].dev = d
    BY <2>1 DEF PlugsAgree
  <2>3. p \in PlugLabel
    BY <2>1, LabelFacts, KindFacts DEF DevState
  <2> QED
    BY <2>2, <2>3, LabelFacts DEF SameLinks, Is
<1>2. OrphansGo'
  <2> SUFFICES ASSUME NEW p \in PlugLabel, Is(p, "plug")', p \notin deferred_removes'
               PROVE  Is(obj[p].dev, "dev")' /\ p \in obj'[obj'[p].dev].plugs
    BY DEF OrphansGo
  <2>1. Is(p, "plug") /\ obj'[p].dev = obj[p].dev /\ p \notin deferred_removes
    BY LabelFacts DEF SameLinks, Is
  <2>2. Is(obj[p].dev, "dev") /\ p \in obj[obj[p].dev].plugs /\ obj[p].dev \in DevLabel
    BY <2>1, LabelFacts, KindFacts DEF OrphansGo, PlugState
  <2> QED
    BY <2>1, <2>2, LabelFacts DEF SameLinks, Is
<1>3. RecordersAgree'
  <2> SUFFICES ASSUME NEW d \in DevLabel, Is(d, "dev")', obj'[d].rec = "live"
               PROVE  d \in FileDev /\ Is(FileOf[d], "file")'
    BY DEF RecordersAgree
  <2>1. Is(d, "dev") /\ obj[d].rec = "live"
    BY LabelFacts DEF SameLinks, Is
  <2>2. d \in FileDev /\ Is(FileOf[d], "file")
    BY <2>1 DEF RecordersAgree
  <2> QED
    BY <2>2, LabelFacts DEF SameLinks, Is
<1> QED
  BY <1>1, <1>2, <1>3

\* The label is free, or names the same object, as before.
SameId(l) ==
    /\ Is(l, "none")' <=> Is(l, "none")
    /\ Gen(l)' = Gen(l)

\* What the loop sees of the object under l is as before.
SameView(l) ==
    /\ SameId(l)
    /\ HasFD(l, obj'[l]) <=> HasFD(l, obj[l])

\* A command or an event after which the same objects have the same links.
LEMMA HandlerKeeps ==
    ASSUME IInv, Typed', pc = "handler", UNCHANGED <<pc, at, doing_poll, slotted>>,
           batch' # 0,
           deferred_removes \subseteq deferred_removes',
           \A l \in ClientLabel : SameLinks(l),
           ~regen_pollfds' => ~regen_pollfds /\ \A d \in DevLabel : SameView(d)
    PROVE  IInv'
<1>1. PlugsAgree' /\ OrphansGo' /\ RecordersAgree'
  BY LinksKept DEF IInv
<1>2. RoundsOK' /\ PlugsUnslotted' /\ DataNeedsStart'
  BY DEF IInv, RoundsOK, PlugsUnslotted, DataNeedsStart
<1>3. DevSlotsFresh'
  <2> SUFFICES ASSUME ~regen_pollfds', NEW d \in DevLabel, Is(d, "dev")', Id(d)' \in slotted
               PROVE  HasFD(d, obj'[d])
    BY DEF DevSlotsFresh
  <2>1. SameView(d) /\ ~regen_pollfds
    OBVIOUS
  <2>2. Is(d, "dev") /\ Id(d)' = Id(d)
    BY <2>1, LabelFacts DEF SameView, SameId, SameLinks, Is, Id
  <2> QED
    BY <2>1, <2>2 DEF IInv, DevSlotsFresh, SameView, SameId
<1> QED
  BY <1>1, <1>2, <1>3 DEF IInv

\* The loop's own steps, which leave the objects alone.
LEMMA LoopInv ==
    ASSUME IInv,
           \/ BeginPoll \/ PollFails \/ HandlerReturn \/ Throw
           \/ \E l \in Label : Dispatch(l)
           \/ UNCHANGED vars
    PROVE  IInv'
<1> USE DEF IInv
<1>0. obj' = obj /\ deferred_removes' = deferred_removes
  BY DEF BeginPoll, PollFails, HandlerReturn, Throw, Dispatch, vars
<1>1. Registered \subseteq Label /\ \A l \in Label : Id(l) \in Label \X {0, 1}
  BY KindFacts DEF Registered, Id, Gen, DevState
<1>2. Typed'
  <2>1. slotted' \subseteq Label \X {0, 1}
    BY <1>1 DEF Typed, BeginPoll, PollFails, regenFDs, HandlerReturn, Throw, Dispatch, vars
  <2>2. at' \in Label \cup {0} /\ (pc' = "handler" => at' \in Label)
    BY DEF Typed, BeginPoll, PollFails, HandlerReturn, Throw, Dispatch, vars
  <2>3. batch' \in 0..MaxBatch
    BY HostAssumption DEF HostAssumption, Typed, BeginPoll, PollFails, HandlerReturn, Throw,
       Dispatch, vars
  <2>4. /\ regen_pollfds' \in BOOLEAN /\ doing_poll' \in BOOLEAN
        /\ controlSocketLabel' = controlSocketLabel
        /\ defaultOutputListener' = defaultOutputListener
        /\ pc' \in {"top", "dispatch", "handler", "exit"}
    BY DEF Typed, BeginPoll, PollFails, regenFDs, HandlerReturn, Throw, Dispatch, vars
  <2> QED
    BY <1>0, <2>1, <2>2, <2>3, <2>4 DEF Typed
<1>3. PlugsAgree' /\ OrphansGo' /\ RecordersAgree'
  BY <1>0, <1>2, LinksKept, LabelFacts DEF SameLinks
<1>4. RoundsOK'
  BY DEF RoundsOK, BeginPoll, PollFails, HandlerReturn, Throw, Dispatch, vars
<1>5. DevSlotsFresh' /\ PlugsUnslotted'
  <2>1. CASE slotted' = slotted /\ regen_pollfds' = regen_pollfds
    BY <1>0, <2>1 DEF DevSlotsFresh, PlugsUnslotted, Is, Id, Gen, HasFD
  <2>2. CASE regen_pollfds /\ slotted' = {Id(l) : l \in {m \in Registered : HasFD(m, obj[m])}}
    <3>1. \A l \in Label : HasFD(l, obj[l]) => l \notin PlugLabel
      BY KindFacts DEF HasFD, Is
    <3>2. PlugsUnslotted'
      BY <1>1, <2>2, <3>1 DEF PlugsUnslotted, Id
    <3>3. DevSlotsFresh'
      BY <1>0, <1>1, <2>2 DEF DevSlotsFresh, Id, Gen, Is, HasFD
    <3> QED
      BY <3>2, <3>3
  <2>3. CASE ~regen_pollfds /\ slotted' = slotted /\ ~regen_pollfds'
    BY <1>0, <2>3 DEF DevSlotsFresh, PlugsUnslotted, Is, Id, Gen, HasFD
  <2> QED
    BY <2>1, <2>2, <2>3
       DEF Typed, BeginPoll, PollFails, regenFDs, HandlerReturn, Throw, Dispatch, vars
<1>6. DataNeedsStart'
  <2>1. CASE \E l \in Label : Dispatch(l)
    <3>1. PICK l \in Label : Dispatch(l)
      BY <2>1
    <3>2. ~regen_pollfds /\ Id(l) \in slotted /\ at' = l
      BY <3>1 DEF Dispatch, IsNext, Polled
    <3>3. Is(l, "dev") /\ l \notin RtlLabel => obj[l].should
      BY <3>2, KindFacts DEF DevSlotsFresh, HasFD, Is
    <3> QED
      BY <1>0, <3>2, <3>3 DEF DataNeedsStart, Devs, Is
  <2>2. CASE ~(\E l \in Label : Dispatch(l))
    BY <1>0, <2>2 DEF DataNeedsStart, Devs, Is, BeginPoll, PollFails, HandlerReturn, Throw, vars
  <2> QED
    BY <2>1, <2>2
<1> QED
  BY <1>2, <1>3, <1>4, <1>5, <1>6

-----------------------------------------------------------------------------
(* Commands and events after which the same objects have the same links *)

\* A command or an event goes on in the same handler.
LEMMA HandlerFacts ==
    ASSUME Typed, Command \/ Event
    PROVE  /\ pc = "handler" /\ UNCHANGED <<pc, at, doing_poll>>
           /\ batch' \in 0..MaxBatch /\ batch' # 0
           /\ at \in Label
BY HostAssumption DEF HostAssumption, Command, Event, Typed

\* A removal is of a label.
LEMMA RemoveFacts ==
    ASSUME Typed, NEW l, Remove(l)
    PROVE  /\ deferred_removes \subseteq deferred_removes'
           /\ deferred_removes' \subseteq Label
           /\ deferred_removes' \subseteq deferred_removes \cup {l}
           /\ controlSocketLabel' \in ConnLabels \cup {NoLabel}
BY DEF Remove, Typed, Registered

\* A command or an event that changes objects one by one keeps the types.
LEMMA HandlerTyped ==
    ASSUME Typed, Command \/ Event,
           obj' = [l \in Label |-> obj'[l]],
           \A l \in Label : obj'[l] \in StateOf(l),
           slotted' \subseteq slotted,
           deferred_removes' \subseteq Label, regen_pollfds' \in BOOLEAN,
           controlSocketLabel' \in ConnLabels \cup {NoLabel},
           defaultOutputListener' \in ConnLabels \cup {NoLabel}
    PROVE  Typed'
BY HandlerFacts DEF Typed

\* "close", "start", "stop", a stall, and data: one device, or its writer, changes.
LEMMA DeviceInv ==
    ASSUME IInv,
           \/ \E l \in DevLabel : CloseDev(l) \/ StartDev(l) \/ StopDev(l)
           \/ Stall
    PROVE  IInv'
<1>0. Typed
  BY DEF IInv
<1>1. PICK l \in DevLabel :
         /\ CloseDev(l) \/ StartDev(l) \/ StopDev(l) \/ (Stall /\ l = at)
         /\ Is(l, "dev")
  <2>1. CASE Stall
    BY <1>0, <2>1, KindFacts DEF Stall, Devs
  <2> QED
    BY <2>1 DEF CloseDev, StartDev, StopDev, Devs
<1>2. obj[l] \in DevState /\ l \in Label /\ l \in ClientLabel
  BY <1>0, <1>1, KindFacts, LabelFacts
<1>3. PICK o \in {Stopped(l, obj[l])} \cup Started(l, obj[l]) : obj' = [obj EXCEPT ![l] = o]
  BY <1>1 DEF CloseDev, StartDev, StopDev, Stall
<1>4. o \in DevState /\ o.plugs = obj[l].plugs /\ o.rec = obj[l].rec
  BY <1>2, <1>3, StoppedFacts, StartedFacts
<1>5. Command \/ Event
  BY <1>1 DEF CloseDev, StartDev, StopDev, Stall
<1>6. /\ regen_pollfds' = TRUE /\ slotted' = slotted
      /\ defaultOutputListener' = defaultOutputListener
      /\ deferred_removes \subseteq deferred_removes' /\ deferred_removes' \subseteq Label
      /\ controlSocketLabel' \in ConnLabels \cup {NoLabel}
  BY <1>0, <1>1, RemoveFacts DEF CloseDev, StartDev, StopDev, Stall, Unchanged, Typed
<1>7. Typed'
  <2>1. \A m \in Label : obj'[m] \in StateOf(m)
    BY <1>0, <1>1, <1>3, <1>4, MemberFacts DEF Typed
  <2>2. obj' = [m \in Label |-> obj'[m]]
    BY <1>0, <1>3 DEF Typed
  <2> QED
    BY <1>0, <1>5, <1>6, <2>1, <2>2, HandlerTyped DEF Typed
<1>8. \A m \in ClientLabel : SameLinks(m)
  BY <1>0, <1>1, <1>2, <1>3, <1>4, LabelFacts DEF SameLinks, Typed, Is, DevState
<1> QED
  BY <1>0, <1>5, <1>6, <1>7, <1>8, HandlerKeeps, HandlerFacts

\* "startAll" and "stopAll": every device changes.
LEMMA AllInv ==
    ASSUME IInv, StartAll \/ StopAll
    PROVE  IInv'
<1>0. Typed
  BY DEF IInv
<1>1. PICK s : /\ \A l \in Devs : s[l] \in {Stopped(l, obj[l])} \cup Started(l, obj[l])
               /\ obj' = [l \in Label |-> IF l \in Devs THEN s[l] ELSE obj[l]]
  <2>1. CASE StartAll
    BY <2>1 DEF StartAll
  <2>2. CASE StopAll
    <3> DEFINE t == [l \in Label |-> Stopped(l, obj[l])]
    <3>1. /\ \A l \in Devs : t[l] \in {Stopped(l, obj[l])} \cup Started(l, obj[l])
          /\ obj' = [l \in Label |-> IF l \in Devs THEN t[l] ELSE obj[l]]
      BY <2>2 DEF StopAll, Devs
    <3> QED
      BY <3>1
  <2> QED
    BY <2>1, <2>2
<1>2. \A l \in Devs : l \in DevLabel /\ l \in Label /\ obj[l] \in DevState /\ Is(l, "dev")
  BY <1>0, KindFacts DEF Devs
<1>3. ASSUME NEW l \in Devs
      PROVE  s[l] \in DevState /\ s[l].plugs = obj[l].plugs /\ s[l].rec = obj[l].rec
  BY <1>1, <1>2, StoppedFacts, StartedFacts
<1>4. Command /\ regen_pollfds' = TRUE /\ slotted' = slotted
      /\ UNCHANGED <<deferred_removes, controlSocketLabel, defaultOutputListener>>
  BY DEF StartAll, StopAll, Unchanged
<1>5. Typed'
  <2>1. \A m \in Label : obj'[m] \in StateOf(m)
    BY <1>0, <1>1, <1>2, <1>3, MemberFacts DEF Typed
  <2> QED
    BY <1>0, <1>1, <1>4, <2>1, HandlerTyped DEF Typed
<1>6. \A m \in ClientLabel : SameLinks(m)
  BY <1>1, <1>2, <1>3, LabelFacts DEF SameLinks, Is, DevState
<1> QED
  BY <1>0, <1>4, <1>5, <1>6, HandlerKeeps, HandlerFacts

\* Nothing changes but that a regeneration may be asked for, or plugins get one more
\* listener.
LEMMA ReceiveInv ==
    ASSUME IInv, Regenerate \/ ReceiveAll \/ \E p \in PlugLabel : Receive(p)
    PROVE  IInv'
<1>0. Typed
  BY DEF IInv
<1>1. PICK P \in SUBSET Plugs :
         obj' = [l \in Label |->
                    IF l \in P THEN [obj[l] EXCEPT !.out = @ \cup ({at} \cap Registered)] ELSE obj[l]]
  <2>1. CASE Regenerate
    <3>1. obj' = [l \in Label |->
                    IF l \in {} THEN [obj[l] EXCEPT !.out = @ \cup ({at} \cap Registered)] ELSE obj[l]]
      BY <1>0, <2>1 DEF Regenerate, Typed
    <3>2. {} \in SUBSET Plugs
      OBVIOUS
    <3> QED
      BY <3>1, <3>2
  <2>2. CASE ReceiveAll
    BY <2>2 DEF ReceiveAll
  <2>3. CASE \E p \in PlugLabel : Receive(p)
    <3>1. PICK p \in Plugs : obj' = [obj EXCEPT ![p].out = @ \cup ({at} \cap Registered)]
      BY <2>3 DEF Receive
    <3>2. obj' = [l \in Label |->
                    IF l \in {p} THEN [obj[l] EXCEPT !.out = @ \cup ({at} \cap Registered)] ELSE obj[l]]
      BY <1>0, <3>1 DEF Typed
    <3> QED
      BY <3>2
  <2> QED
    BY <2>1, <2>2, <2>3
<1>2. \A l \in P : l \in PlugLabel /\ l \in Label /\ Is(l, "plug") /\ obj[l] \in PlugState
  BY <1>0, KindFacts DEF Plugs
<1>3. at \in ConnLabels /\ Command
  BY DEF Regenerate, ReceiveAll, Receive, Command
<1>4. \A l \in P : /\ obj'[l] \in PlugState /\ obj'[l].dev = obj[l].dev
                   /\ obj'[l].kind = "plug"
  BY <1>1, <1>2, <1>3 DEF PlugState
<1>5. /\ slotted' = slotted /\ UNCHANGED <<deferred_removes, controlSocketLabel>>
      /\ defaultOutputListener' \in ConnLabels \cup {NoLabel}
      /\ regen_pollfds' = TRUE \/ regen_pollfds' = regen_pollfds
  BY <1>0, <1>3 DEF Regenerate, ReceiveAll, Receive, Unchanged, Typed
<1>6. Typed'
  <2>1. \A m \in Label : obj'[m] \in StateOf(m)
    BY <1>0, <1>1, <1>2, <1>4, MemberFacts DEF Typed
  <2> QED
    BY <1>0, <1>1, <1>3, <1>5, <2>1, HandlerTyped DEF Typed
<1>7. \A m \in ClientLabel : SameLinks(m)
  BY <1>1, <1>2, <1>4, LabelFacts DEF SameLinks, Is
<1>8. \A d \in DevLabel : SameView(d)
  <2>1. \A d \in DevLabel : obj'[d] = obj[d]
    BY <1>1, <1>2, LabelFacts
  <2> QED
    BY <2>1 DEF SameView, SameId, Is, Gen
<1> QED
  BY <1>0, <1>3, <1>5, <1>6, <1>7, <1>8, HandlerKeeps, HandlerFacts

\* The descriptor of a writer changes.
LEMMA FileInv ==
    ASSUME IInv, NEW w \in FileLabel, NEW b \in BOOLEAN, Is(w, "file"),
           obj' = [obj EXCEPT ![w] = File(b)],
           Command \/ Event, slotted' = slotted,
           UNCHANGED <<deferred_removes, controlSocketLabel, defaultOutputListener>>,
           regen_pollfds' = TRUE \/ regen_pollfds' = regen_pollfds
    PROVE  IInv'
<1>0. Typed
  BY DEF IInv
<1>1. w \in Label /\ File(b) \in FileState /\ w \in ClientLabel
  BY NewFacts, LabelFacts
<1>2. Typed'
  <2>1. \A m \in Label : obj'[m] \in StateOf(m)
    BY <1>0, <1>1, MemberFacts DEF Typed
  <2>2. obj' = [m \in Label |-> obj'[m]]
    BY <1>0 DEF Typed
  <2> QED
    BY <1>0, <2>1, <2>2, HandlerTyped DEF Typed
<1>3. \A m \in ClientLabel : SameLinks(m)
  BY <1>0, <1>1, LabelFacts DEF SameLinks, Is, Typed, FileState
<1>4. \A d \in DevLabel : SameView(d)
  <2>1. \A d \in DevLabel : obj'[d] = obj[d]
    BY <1>0, LabelFacts DEF Typed
  <2> QED
    BY <2>1 DEF SameView, SameId, Is, Gen
<1> QED
  BY <1>0, <1>2, <1>3, <1>4, HandlerKeeps, HandlerFacts

\* "rawFileOff": the device forgets its writer, whose removal is deferred.
LEMMA RawFileOffInv ==
    ASSUME IInv, NEW d \in FileDev, RawFileOff(d)
    PROVE  IInv'
<1>0. Typed
  BY DEF IInv
<1>1. /\ Is(d, "dev") /\ d \in DevLabel /\ d \in Label /\ d \in ClientLabel
      /\ obj[d] \in DevState
  BY <1>0, KindFacts, LabelFacts DEF RawFileOff, Devs
<1> DEFINE o == [obj[d] EXCEPT !.rec = "none"]
<1>2. obj' = [obj EXCEPT ![d] = o] /\ Command
  BY DEF RawFileOff
<1>3. /\ o \in DevState /\ o.plugs = obj[d].plugs /\ o.rec = "none" /\ o.gen = obj[d].gen
      /\ o.hw = obj[d].hw /\ o.fds = obj[d].fds /\ o.should = obj[d].should
      /\ o.kind = "dev" /\ obj[d].kind = "dev"
  BY <1>1 DEF DevState
<1>4. HasFD(d, o) <=> HasFD(d, obj[d])
  <2> HIDE DEF o
  <2> QED
    BY <1>3 DEF HasFD
<1> HIDE DEF o
<1>5. /\ UNCHANGED <<slotted, regen_pollfds, defaultOutputListener>>
      /\ Remove(FileOf[d])
  BY DEF RawFileOff
<1>6. Typed'
  <2>1. \A m \in Label : obj'[m] \in StateOf(m)
    BY <1>0, <1>1, <1>2, <1>3, MemberFacts DEF Typed
  <2>2. obj' = [m \in Label |-> obj'[m]]
    BY <1>0, <1>2 DEF Typed
  <2> QED
    BY <1>0, <1>2, <1>5, <2>1, <2>2, RemoveFacts, HandlerTyped DEF Typed
<1>7. \A m \in ClientLabel : SameLinks(m)
  BY <1>0, <1>1, <1>2, <1>3, LabelFacts DEF SameLinks, Typed, Is
<1>8. \A e \in DevLabel : SameView(e)
  BY <1>0, <1>1, <1>2, <1>3, <1>4, LabelFacts DEF SameView, SameId, Is, Gen, Typed
<1> QED
  BY <1>0, <1>2, <1>5, <1>6, <1>7, <1>8, HandlerKeeps, HandlerFacts, RemoveFacts

\* Data from a device may open its writer's file, or cause the writer's removal.
LEMMA DevDataInv ==
    ASSUME IInv, DevData
    PROVE  IInv'
<1>0. Typed
  BY DEF IInv
<1>1. /\ Is(at, "dev") /\ at \in DevLabel /\ at \in Label /\ at \in ClientLabel
      /\ obj[at] \in DevState
  BY <1>0, KindFacts, LabelFacts DEF DevData, Devs
<1> DEFINE w == FileOf[at]
           o == Pruned(obj[at])
<1>2. /\ o \in DevState /\ o.plugs = obj[at].plugs /\ o.gen = obj[at].gen
      /\ o.rec = "live" <=> obj[at].rec = "live"
      /\ HasFD(at, o) <=> HasFD(at, obj[at])
      /\ o.kind = "dev" /\ obj[at].kind = "dev"
  <2>1. o \in DevState
    BY <1>1, PrunedFacts
  <2> QED
    BY <1>1, <2>1, PrunedFacts DEF DevState
<1>3. Event /\ slotted' = slotted /\ defaultOutputListener' = defaultOutputListener
  BY DEF DevData
<1>4. CASE obj' = [obj EXCEPT ![at] = o] /\ (regen_pollfds' = TRUE \/ regen_pollfds' = regen_pollfds)
           /\ (Remove(w) \/ UNCHANGED <<deferred_removes, controlSocketLabel>>)
  <2> HIDE DEF o
  <2>1. Typed'
    <3>1. \A m \in Label : obj'[m] \in StateOf(m)
      BY <1>0, <1>1, <1>2, <1>4, MemberFacts DEF Typed
    <3>2. obj' = [m \in Label |-> obj'[m]]
      BY <1>0, <1>4 DEF Typed
    <3> QED
      BY <1>0, <1>3, <1>4, <3>1, <3>2, RemoveFacts, HandlerTyped DEF Typed
  <2>2. \A m \in ClientLabel : SameLinks(m)
    BY <1>0, <1>1, <1>2, <1>4, LabelFacts DEF SameLinks, Typed, Is
  <2>3. \A e \in DevLabel : SameView(e)
    BY <1>0, <1>1, <1>2, <1>4, LabelFacts DEF SameView, SameId, Is, Gen, Typed
  <2> QED
    BY <1>0, <1>3, <1>4, <2>1, <2>2, <2>3, HandlerKeeps, HandlerFacts, RemoveFacts
<1>5. CASE /\ o.rec = "live"
           /\ obj' = [obj EXCEPT ![at] = o, ![w] = File(TRUE)]
           /\ regen_pollfds' = TRUE
           /\ UNCHANGED <<deferred_removes, controlSocketLabel>>
  <2>1. w \in FileLabel /\ w \in Label /\ Is(w, "file") /\ w # at
    BY <1>0, <1>1, <1>2, <1>5, LabelFacts DEF IInv, RecordersAgree
  <2> HIDE DEF o, w
  <2>2. File(TRUE) \in FileState /\ File(TRUE).kind = "file"
    BY NewFacts DEF FileState
  <2>3. /\ obj'[at] = o /\ obj'[w] = File(TRUE)
        /\ \A m \in Label \ {at, w} : obj'[m] = obj[m]
        /\ obj' = [m \in Label |-> obj'[m]]
    BY <1>0, <1>1, <1>5, <2>1 DEF Typed
  <2>4. Typed'
    <3>1. \A m \in Label : obj'[m] \in StateOf(m)
      BY <1>0, <1>1, <1>2, <2>1, <2>2, <2>3, MemberFacts DEF Typed
    <3> QED
      BY <1>0, <1>3, <1>5, <2>3, <3>1, HandlerTyped DEF Typed
  <2>5. \A m \in ClientLabel : SameLinks(m)
    BY <1>1, <1>2, <2>1, <2>2, <2>3, LabelFacts DEF SameLinks, Is
  <2> QED
    BY <1>0, <1>3, <1>5, <2>4, <2>5, HandlerKeeps, HandlerFacts
<1> QED
  BY <1>4, <1>5 DEF DevData

\* A connection that leaves.
LEMMA HangupInv ==
    ASSUME IInv, Hangup
    PROVE  IInv'
<1>0. Typed /\ pc = "handler" /\ at \in Label
  BY DEF IInv, Hangup, Typed
<1>1. /\ Remove(at) /\ regen_pollfds' = TRUE /\ pc' = "dispatch"
      /\ UNCHANGED <<obj, slotted, doing_poll, defaultOutputListener, at, batch>>
  BY DEF Hangup
<1>2. Typed'
  BY <1>0, <1>1, RemoveFacts DEF Typed
<1>3. PlugsAgree' /\ OrphansGo' /\ RecordersAgree'
  <2>1. \A l \in ClientLabel : SameLinks(l)
    BY <1>1 DEF SameLinks
  <2> QED
    BY <1>0, <1>1, <1>2, <2>1, RemoveFacts, LinksKept DEF IInv
<1> QED
  BY <1>0, <1>1, <1>2, <1>3
     DEF IInv, RoundsOK, DevSlotsFresh, PlugsUnslotted, DataNeedsStart

\* A new connection.
LEMMA AcceptHostInv ==
    ASSUME IInv, NEW l \in ConnLabels, Accept(l)
    PROVE  IInv'
<1>0. Typed /\ pc = "handler" /\ at = ListenerLabel /\ l \in Label
  BY LabelFacts DEF IInv, Accept
<1>1. /\ obj' = [obj EXCEPT ![l] = Conn]
      /\ slotted' \subseteq slotted /\ regen_pollfds' = TRUE
      /\ controlSocketLabel' \in ConnLabels \cup {NoLabel}
      /\ UNCHANGED <<deferred_removes, doing_poll, defaultOutputListener, pc, at, batch>>
  BY <1>0 DEF Accept, round, Typed
<1>2. Typed'
  <2>1. \A m \in Label : obj'[m] \in StateOf(m)
    BY <1>0, <1>1, MemberFacts DEF Typed
  <2>2. obj' = [m \in Label |-> obj'[m]]
    BY <1>0, <1>1 DEF Typed
  <2> QED
    BY <1>0, <1>1, <2>1, <2>2 DEF Typed
<1>3. PlugsAgree' /\ OrphansGo' /\ RecordersAgree'
  <2>1. \A m \in ClientLabel : SameLinks(m)
    BY <1>0, <1>1, LabelFacts DEF SameLinks, Typed
  <2> QED
    BY <1>0, <1>1, <1>2, <2>1, LinksKept DEF IInv
<1>4. DataNeedsStart'
  <2>1. ~Is(ListenerLabel, "dev")'
    BY <1>2, LabelFacts, KindFacts DEF Typed, Is, StateOf, Nothing, Listener
  <2> QED
    BY <1>0, <1>1, <2>1 DEF DataNeedsStart, Devs, Is
<1> QED
  BY <1>0, <1>1, <1>2, <1>3, <1>4
     DEF IInv, RoundsOK, DevSlotsFresh, PlugsUnslotted

-----------------------------------------------------------------------------
(* Commands that construct and destroy *)

\* What is left when the objects of D are destroyed.
LEMMA DestroyFacts ==
    ASSUME Typed, NEW D, NEW l \in Label
    PROVE  /\ l \in D => Destroy(D)[l] = Nothing
           /\ l \notin D =>
                /\ Destroy(D)[l] \in StateOf(l)
                /\ Destroy(D)[l].kind = obj[l].kind
                /\ HasFD(l, Destroy(D)[l]) <=> HasFD(l, obj[l])
                /\ Is(l, "plug") => Destroy(D)[l].dev = obj[l].dev
                /\ Is(l, "dev") =>
                     /\ Destroy(D)[l].gen = obj[l].gen
                     /\ Destroy(D)[l].should = obj[l].should
                     /\ Destroy(D)[l].plugs = obj[l].plugs \ D
                     /\ Destroy(D)[l].rec = "live" =>
                           obj[l].rec = "live" /\ ~(l \in FileDev /\ FileOf[l] \in D)
           /\ Destroy(D) = [m \in Label |-> Destroy(D)[m]]
<1>1. obj[l] \in StateOf(l)
  BY DEF Typed
<1>2. Destroy(D)[l] = IF l \in D THEN Nothing ELSE Expire(obj[l], l, D)
  BY DEF Destroy
<1>3. Destroy(D) = [m \in Label |-> Destroy(D)[m]]
  BY DEF Destroy
<1> QED
  BY <1>1, <1>2, <1>3, ExpireFacts DEF Is

\* The links of what is left still agree, and a plugin that is left without its
\* device was listed by it.
LEMMA DestroyLinks ==
    ASSUME IInv, NEW D
    PROVE  /\ \A d \in DevLabel \ D : Is(d, "dev") =>
                 \A p \in Destroy(D)[d].plugs :
                    p \in PlugLabel \ D /\ Is(p, "plug") /\ Destroy(D)[p].kind = "plug"
                    /\ Destroy(D)[p].dev = d
           /\ \A d \in DevLabel \ D : Is(d, "dev") /\ Destroy(D)[d].rec = "live" =>
                 d \in FileDev /\ FileOf[d] \notin D /\ Destroy(D)[FileOf[d]].kind = "file"
           /\ \A p \in PlugLabel \ D : Is(p, "plug") /\ p \notin deferred_removes =>
                 LET d == Destroy(D)[p].dev
                 IN  /\ d \in DevLabel /\ Is(d, "dev") /\ p \in obj[d].plugs
                     /\ d \notin D => /\ Destroy(D)[d].kind = "dev"
                                      /\ p \in Destroy(D)[d].plugs
<1>0. Typed
  BY DEF IInv
<1>1. ASSUME NEW d \in DevLabel \ D, Is(d, "dev"), NEW p \in Destroy(D)[d].plugs
      PROVE  p \in PlugLabel \ D /\ Is(p, "plug") /\ Destroy(D)[p].kind = "plug"
             /\ Destroy(D)[p].dev = d
  <2>1. p \in obj[d].plugs /\ p \notin D
    BY <1>0, <1>1, LabelFacts, DestroyFacts
  <2>2. Is(p, "plug") /\ obj[p].dev = d /\ p \in PlugLabel
    BY <1>0, <1>1, <2>1, LabelFacts, KindFacts DEF IInv, PlugsAgree, DevState
  <2> QED
    BY <1>0, <2>1, <2>2, LabelFacts, DestroyFacts DEF Is
<1>2. ASSUME NEW d \in DevLabel \ D, Is(d, "dev"), Destroy(D)[d].rec = "live"
      PROVE  d \in FileDev /\ FileOf[d] \notin D /\ Destroy(D)[FileOf[d]].kind = "file"
  <2>1. obj[d].rec = "live" /\ ~(d \in FileDev /\ FileOf[d] \in D)
    BY <1>0, <1>2, LabelFacts, DestroyFacts
  <2>2. d \in FileDev /\ Is(FileOf[d], "file")
    BY <1>2, <2>1 DEF IInv, RecordersAgree
  <2> QED
    BY <1>0, <2>1, <2>2, LabelFacts, DestroyFacts DEF Is
<1>3. ASSUME NEW p \in PlugLabel \ D, Is(p, "plug"), p \notin deferred_removes
      PROVE  /\ Destroy(D)[p].dev \in DevLabel /\ Is(Destroy(D)[p].dev, "dev")
             /\ p \in obj[Destroy(D)[p].dev].plugs
             /\ Destroy(D)[p].dev \notin D =>
                    /\ Destroy(D)[Destroy(D)[p].dev].kind = "dev"
                    /\ p \in Destroy(D)[Destroy(D)[p].dev].plugs
  <2>1. Destroy(D)[p].dev = obj[p].dev /\ obj[p].dev \in DevLabel
    BY <1>0, <1>3, LabelFacts, DestroyFacts, KindFacts DEF PlugState
  <2>2. Is(obj[p].dev, "dev") /\ p \in obj[obj[p].dev].plugs
    BY <1>3 DEF IInv, OrphansGo
  <2> QED
    BY <1>0, <1>3, <2>1, <2>2, LabelFacts, DestroyFacts DEF Is
<1> QED
  BY <1>1, <1>2, <1>3

\* "open": the device's predecessor is destroyed, and its plugins are to go.
LEMMA OpenDevInv ==
    ASSUME IInv, NEW l \in DevLabel, OpenDev(l)
    PROVE  IInv'
<1>0. Typed /\ Command /\ l \in Label
  BY LabelFacts DEF IInv, OpenDev
<1> DEFINE gen == IF Is(l, "dev") THEN 1 - Gen(l) ELSE 0
<1>1. PICK o \in OpenOutcome(l) : obj' = [Destroy({l}) EXCEPT ![l] = Dev(gen, o)]
  BY DEF OpenDev
<1>2. /\ deferred_removes' = deferred_removes \cup Privates(l)
      /\ regen_pollfds' = TRUE /\ slotted' \subseteq slotted
      /\ UNCHANGED <<controlSocketLabel, defaultOutputListener>>
  BY DEF OpenDev
<1>3. gen \in {0, 1}
  BY <1>0, KindFacts DEF Gen, DevState
<1> HIDE DEF gen
<1>4. /\ obj'[l] = Dev(gen, o) /\ Dev(gen, o) \in DevState
      /\ Dev(gen, o).plugs = {} /\ Dev(gen, o).rec = "none" /\ Dev(gen, o).kind = "dev"
      /\ \A m \in Label \ {l} : obj'[m] = Destroy({l})[m]
      /\ obj' = [m \in Label |-> obj'[m]]
  <2>1. /\ Dev(gen, o) \in DevState /\ Dev(gen, o).plugs = {}
        /\ Dev(gen, o).rec = "none"
    BY <1>3, NewFacts
  <2>2. Dev(gen, o).kind = "dev"
    BY DEF Dev
  <2>3. Destroy({l}) = [m \in Label |-> Destroy({l})[m]]
    BY DEF Destroy
  <2>4. /\ obj'[l] = Dev(gen, o)
        /\ \A m \in Label \ {l} : obj'[m] = Destroy({l})[m]
        /\ obj' = [m \in Label |-> obj'[m]]
    BY <1>0, <1>1, <2>3
  <2> QED
    BY <2>1, <2>2, <2>4
<1>r. ASSUME NEW m \in Label \ {l}
      PROVE  obj'[m] = Destroy({l})[m] /\ obj'[m].kind = obj[m].kind
  <2>1. Destroy({l})[m].kind = obj[m].kind
    BY <1>0, DestroyFacts
  <2> QED
    BY <1>4, <2>1
<1>5. Typed'
  <2>1. \A m \in Label : obj'[m] \in StateOf(m)
    BY <1>0, <1>4, DestroyFacts, MemberFacts
  <2>2. deferred_removes' \subseteq Label
    BY <1>0, <1>2, PrivatesFacts, LabelFacts DEF Typed
  <2> QED
    BY <1>0, <1>2, <1>4, <2>1, <2>2, HandlerTyped DEF Typed
<1>6. PlugsAgree'
  <2> SUFFICES ASSUME NEW d \in DevLabel, Is(d, "dev")', NEW p \in obj'[d].plugs
               PROVE  Is(p, "plug")' /\ obj'[p].dev = d
    BY DEF PlugsAgree
  <2>1. d # l /\ Is(d, "dev") /\ p \in Destroy({l})[d].plugs
    BY <1>0, <1>4, LabelFacts, DestroyFacts DEF Is
  <2> QED
    BY <1>4, <2>1, LabelFacts, DestroyLinks DEF Is
<1>7. OrphansGo'
  <2> SUFFICES ASSUME NEW p \in PlugLabel, Is(p, "plug")', p \notin deferred_removes'
               PROVE  Is(obj[p].dev, "dev")' /\ p \in obj'[obj'[p].dev].plugs
                      /\ obj'[p].dev = obj[p].dev
    BY DEF OrphansGo, Is
  <2>1. p # l /\ p \in Label /\ obj'[p] = Destroy({l})[p] /\ Is(p, "plug")
    <3>1. p # l /\ p \in Label
      BY LabelFacts
    <3> QED
      BY <1>r, <3>1 DEF Is
  <2>2. obj'[p].dev = obj[p].dev
    BY <1>0, <2>1, DestroyFacts
  <2>3. obj[p].dev \in DevLabel /\ Is(obj[p].dev, "dev") /\ p \in obj[obj[p].dev].plugs
    BY <1>2, <2>1, <2>2, DestroyLinks
  <2>4. obj[p].dev # l
    BY <1>0, <1>2, <2>1, <2>3, PrivatesFacts DEF Registered, Is
  <2> QED
    BY <1>2, <1>4, <2>1, <2>2, <2>3, <2>4, LabelFacts, DestroyLinks DEF Is
<1>8. RecordersAgree'
  <2> SUFFICES ASSUME NEW d \in DevLabel, Is(d, "dev")', obj'[d].rec = "live"
               PROVE  d \in FileDev /\ Is(FileOf[d], "file")'
    BY DEF RecordersAgree
  <2>1. d # l /\ d \in Label
    BY <1>4, LabelFacts
  <2>2. Is(d, "dev") /\ Destroy({l})[d].rec = "live"
    BY <1>r, <2>1 DEF Is
  <2>3. d \in FileDev /\ FileOf[d] # l /\ Destroy({l})[FileOf[d]].kind = "file"
    BY <2>1, <2>2, DestroyLinks
  <2> QED
    BY <1>4, <2>3, LabelFacts DEF Is
<1> QED
  BY <1>0, <1>2, <1>5, <1>6, <1>7, <1>8, HandlerFacts
     DEF IInv, RoundsOK, DevSlotsFresh, PlugsUnslotted, DataNeedsStart

\* "attach" of a plugin that loads, or not.
LEMMA AttachInv ==
    ASSUME IInv, NEW p \in PlugLabel, NEW d \in DevLabel,
           Attach(p, d) \/ AttachFails(p, d)
    PROVE  IInv'
<1>0. Typed /\ Command /\ d \in Label /\ p \in Label /\ d # p /\ Is(p, "none")
      /\ Is(d, "dev") /\ obj[d] \in DevState
  BY LabelFacts, KindFacts DEF IInv, Attach, AttachFails, Registered, Devs
<1>1. /\ deferred_removes' = deferred_removes
      /\ regen_pollfds' = TRUE /\ slotted' \subseteq slotted
      /\ controlSocketLabel' = controlSocketLabel
      /\ defaultOutputListener' \in ConnLabels \cup {NoLabel}
  BY <1>0 DEF Attach, AttachFails, Typed
<1>2. PICK o \in PlugState \cup {Dangling}, e \in DevState :
         /\ obj' = [obj EXCEPT ![p] = o, ![d] = e]
         /\ e.plugs = obj[d].plugs \/ (o \in PlugState /\ e.plugs = obj[d].plugs \cup {p})
         /\ o \in PlugState => o.dev = d /\ p \in e.plugs
         /\ e.rec = obj[d].rec
  <2>1. CASE AttachFails(p, d)
    <3>1. obj' = [obj EXCEPT ![p] = Dangling, ![d] = obj[d]]
      BY <1>0, <2>1 DEF AttachFails, Typed
    <3>2. Dangling \notin PlugState
      BY DEF Dangling, PlugState
    <3> QED
      BY <1>0, <3>1, <3>2
  <2>2. CASE Attach(p, d)
    <3> DEFINE out == {defaultOutputListener} \cap Registered
               e == [obj[d] EXCEPT !.plugs = @ \cup {p}, !.stale = @ \ {p}]
    <3>1. obj' = [obj EXCEPT ![p] = Plug(d, out), ![d] = e]
      BY <1>0, <2>2 DEF Attach, Typed
    <3>2. out \in SUBSET ConnLabels
      BY <1>0, LabelFacts DEF Typed, Registered, NoLabel
    <3>3. Plug(d, out) \in PlugState /\ Plug(d, out).dev = d
      BY <3>2, NewFacts
    <3>4. e \in DevState /\ e.plugs = obj[d].plugs \cup {p} /\ e.rec = obj[d].rec
      BY <1>0 DEF DevState
    <3> HIDE DEF out, e
    <3> QED
      BY <3>1, <3>3, <3>4
  <2> QED
    BY <2>1, <2>2
<1>3. /\ obj'[p] = o /\ obj'[d] = e /\ obj' = [m \in Label |-> obj'[m]]
      /\ \A m \in Label \ {p, d} : obj'[m] = obj[m]
      /\ e.kind = "dev" /\ o.kind \in {"plug", "dangling"}
      /\ o.kind = "plug" => o \in PlugState
  <2>1. /\ obj'[p] = o /\ obj'[d] = e /\ obj' = [m \in Label |-> obj'[m]]
        /\ \A m \in Label \ {p, d} : obj'[m] = obj[m]
    BY <1>0, <1>2 DEF Typed
  <2>2. e.kind = "dev"
    BY DEF DevState
  <2>3. o.kind \in {"plug", "dangling"} /\ (o.kind = "plug" => o \in PlugState)
    BY DEF PlugState, Dangling
  <2> QED
    BY <2>1, <2>2, <2>3
<1>4. Typed'
  <2>1. \A m \in Label : obj'[m] \in StateOf(m)
    BY <1>0, <1>3, MemberFacts DEF Typed
  <2> QED
    BY <1>0, <1>1, <1>3, <2>1, HandlerTyped DEF Typed
<1>5. PlugsAgree'
  <2> SUFFICES ASSUME NEW c \in DevLabel, Is(c, "dev")', NEW q \in obj'[c].plugs
               PROVE  Is(q, "plug")' /\ obj'[q].dev = c
    BY DEF PlugsAgree
  <2>1. Is(c, "dev") /\ c \in Label /\ c # p
    BY <1>0, <1>3, LabelFacts DEF Is
  <2>2. CASE q \in obj[c].plugs
    <3>1. Is(q, "plug") /\ obj[q].dev = c /\ q \in Label
      BY <1>0, <2>1, <2>2, KindFacts, LabelFacts DEF IInv, PlugsAgree, DevState
    <3> QED
      BY <1>0, <1>3, <3>1 DEF Is
  <2>3. CASE q \notin obj[c].plugs
    <3>1. c = d /\ q = p /\ o \in PlugState
      BY <1>2, <1>3, <2>1, <2>3
    <3> QED
      BY <1>2, <1>3, <3>1 DEF Is, PlugState
  <2> QED
    BY <2>2, <2>3
<1>6. OrphansGo'
  <2> SUFFICES ASSUME NEW q \in PlugLabel, Is(q, "plug")', q \notin deferred_removes
               PROVE  /\ obj'[q].dev \in DevLabel
                      /\ obj'[obj'[q].dev].kind = "dev" /\ q \in obj'[obj'[q].dev].plugs
    BY <1>1 DEF OrphansGo, Is
  <2>1. CASE q = p
    BY <1>2, <1>3, <2>1 DEF Is
  <2>2. CASE q # p
    <3>1. q # d /\ Is(q, "plug") /\ obj'[q] = obj[q] /\ obj[q].dev \in DevLabel
      BY <1>0, <1>3, <2>2, LabelFacts, KindFacts DEF Is, PlugState
    <3>2. Is(obj[q].dev, "dev") /\ q \in obj[obj[q].dev].plugs
      BY <3>1 DEF IInv, OrphansGo
    <3> DEFINE c == obj[q].dev
    <3>3. c \in Label /\ c # p
      BY <1>0, <3>1, <3>2, LabelFacts DEF Is
    <3>4. obj'[c].kind = "dev" /\ q \in obj'[c].plugs
      <4> HIDE DEF c
      <4>1. CASE c = d
        BY <1>0, <1>2, <1>3, <3>2, <4>1 DEF Is, c
      <4>2. CASE c # d
        BY <1>0, <1>3, <3>2, <3>3, <4>2 DEF Is, c
      <4> QED
        BY <4>1, <4>2
    <3> QED
      BY <3>1, <3>4
  <2> QED
    BY <2>1, <2>2
<1>7. RecordersAgree'
  <2> SUFFICES ASSUME NEW c \in DevLabel, Is(c, "dev")', obj'[c].rec = "live"
               PROVE  c \in FileDev /\ Is(FileOf[c], "file")'
    BY DEF RecordersAgree
  <2>1. Is(c, "dev") /\ obj[c].rec = "live"
    <3>1. c \in Label /\ c # p
      BY <1>0, LabelFacts
    <3> QED
      BY <1>0, <1>2, <1>3, <3>1 DEF Is
  <2>2. c \in FileDev /\ Is(FileOf[c], "file")
    BY <2>1 DEF IInv, RecordersAgree
  <2>3. FileOf[c] \in Label \ {p, d}
    BY <2>2, LabelFacts
  <2> QED
    BY <1>3, <2>2, <2>3 DEF Is
<1> QED
  BY <1>0, <1>1, <1>4, <1>5, <1>6, <1>7, HandlerFacts
     DEF IInv, RoundsOK, DevSlotsFresh, PlugsUnslotted, DataNeedsStart

\* Destroying objects leaves links that agree, if the plugins that are left without
\* their device are to go.
LEMMA DestroyKeeps ==
    ASSUME IInv, NEW D, obj' = Destroy(D), Typed',
           \A p \in PlugLabel \ D : Is(p, "plug") /\ p \notin deferred_removes' =>
               p \notin deferred_removes /\ obj[p].dev \notin D
    PROVE  PlugsAgree' /\ OrphansGo' /\ RecordersAgree'
<1>0. Typed
  BY DEF IInv
<1>1. ASSUME NEW l \in Label, obj'[l].kind # "none"
      PROVE  l \notin D /\ obj'[l].kind = obj[l].kind
  <2>1. l \notin D
    <3>1. l \in D => Destroy(D)[l] = Nothing
      BY <1>0, DestroyFacts
    <3> QED
      BY <1>1, <3>1 DEF Nothing
  <2> QED
    BY <1>0, <2>1, DestroyFacts
<1>2. PlugsAgree'
  <2> SUFFICES ASSUME NEW d \in DevLabel, Is(d, "dev")', NEW p \in obj'[d].plugs
               PROVE  Is(p, "plug")' /\ obj'[p].dev = d
    BY DEF PlugsAgree
  <2>1. d \notin D /\ Is(d, "dev")
    BY <1>1, LabelFacts DEF Is
  <2> QED
    BY <2>1, DestroyLinks DEF Is
<1>3. OrphansGo'
  <2> SUFFICES ASSUME NEW p \in PlugLabel, Is(p, "plug")', p \notin deferred_removes'
               PROVE  Is(obj[p].dev, "dev")' /\ p \in obj'[obj[p].dev].plugs
                      /\ obj'[p].dev = obj[p].dev
    BY DEF OrphansGo, Is
  <2>1. p \notin D /\ Is(p, "plug") /\ p \in Label
    BY <1>1, LabelFacts DEF Is
  <2>2. p \notin deferred_removes /\ obj[p].dev \notin D
    BY <2>1
  <2>3. obj'[p].dev = obj[p].dev
    BY <1>0, <2>1, DestroyFacts
  <2>4. /\ Destroy(D)[p].dev \in DevLabel /\ Is(Destroy(D)[p].dev, "dev")
        /\ Destroy(D)[p].dev \notin D =>
              /\ Destroy(D)[Destroy(D)[p].dev].kind = "dev"
              /\ p \in Destroy(D)[Destroy(D)[p].dev].plugs
    BY <2>1, <2>2, DestroyLinks
  <2> QED
    BY <2>2, <2>3, <2>4 DEF Is
<1>4. RecordersAgree'
  <2> SUFFICES ASSUME NEW d \in DevLabel, Is(d, "dev")', obj'[d].rec = "live"
               PROVE  d \in FileDev /\ Is(FileOf[d], "file")'
    BY DEF RecordersAgree
  <2>1. d \notin D /\ Is(d, "dev")
    BY <1>1, LabelFacts DEF Is
  <2> QED
    BY <2>1, DestroyLinks DEF Is
<1> QED
  BY <1>2, <1>3, <1>4

\* "detach": what has the label is erased at once, and a device's plugins are to go.
LEMMA DetachInv ==
    ASSUME IInv, NEW l \in Label, Detach(l)
    PROVE  IInv'
<1>0. Typed /\ Command
  BY DEF IInv, Detach
<1>1. /\ obj' = Destroy({l})
      /\ deferred_removes' = deferred_removes \cup Privates(l)
      /\ UNCHANGED <<slotted, regen_pollfds, controlSocketLabel, defaultOutputListener>>
  BY DEF Detach
<1>2. Typed'
  <2>1. \A m \in Label : obj'[m] \in StateOf(m)
    BY <1>0, <1>1, DestroyFacts, MemberFacts
  <2>2. obj' = [m \in Label |-> obj'[m]]
    BY <1>1 DEF Destroy
  <2>3. deferred_removes' \subseteq Label
    BY <1>0, <1>1, PrivatesFacts, LabelFacts DEF Typed
  <2> QED
    BY <1>0, <1>1, <2>1, <2>2, <2>3, HandlerTyped DEF Typed
<1>3. PlugsAgree' /\ OrphansGo' /\ RecordersAgree'
  <2>1. ASSUME NEW p \in PlugLabel \ {l}, Is(p, "plug"), p \notin deferred_removes'
        PROVE  p \notin deferred_removes /\ obj[p].dev # l
    <3>1. p \notin deferred_removes /\ p \notin Privates(l)
      BY <1>1, <2>1
    <3>2. Is(obj[p].dev, "dev") /\ p \in obj[obj[p].dev].plugs
      BY <2>1, <3>1 DEF IInv, OrphansGo
    <3>3. p \in Registered
      BY <2>1, LabelFacts DEF Registered, Is
    <3> QED
      BY <1>0, <3>1, <3>2, <3>3, PrivatesFacts
  <2> QED
    BY <1>1, <1>2, <2>1, DestroyKeeps
<1>4. DevSlotsFresh'
  <2> SUFFICES ASSUME ~regen_pollfds, NEW d \in DevLabel, Is(d, "dev")', Id(d)' \in slotted
               PROVE  HasFD(d, obj'[d])
    BY <1>1 DEF DevSlotsFresh
  <2>1. d \notin {l} /\ d \in Label
    <3>1. d \in Label
      BY LabelFacts
    <3>2. d \in {l} => obj'[d] = Nothing
      BY <1>0, <1>1, <3>1, DestroyFacts
    <3> QED
      BY <3>1, <3>2 DEF Is, Nothing
  <2>2. Is(d, "dev") /\ (HasFD(d, obj'[d]) <=> HasFD(d, obj[d]))
    BY <1>0, <1>1, <2>1, DestroyFacts DEF Is
  <2>3. obj'[d].gen = obj[d].gen
    BY <1>0, <1>1, <2>1, <2>2, DestroyFacts
  <2>4. Id(d)' = Id(d)
    BY <2>2, <2>3 DEF Id, Gen
  <2> QED
    BY <2>2, <2>4 DEF IInv, DevSlotsFresh
<1> QED
  BY <1>0, <1>1, <1>2, <1>3, <1>4, HandlerFacts
     DEF IInv, RoundsOK, PlugsUnslotted, DataNeedsStart

\* "rawFile": a writer is made and listens to the device, or forgets its descriptor.
LEMMA RawFileInv ==
    ASSUME IInv, NEW d \in FileDev, RawFile(d)
    PROVE  IInv'
<1>0. Typed /\ Command /\ d \in Label /\ d \in DevLabel /\ Is(d, "dev")
      /\ obj[d] \in DevState /\ FileOf[d] \in FileLabel /\ FileOf[d] \in Label
      /\ d # FileOf[d]
  BY KindFacts, LabelFacts DEF IInv, RawFile, Devs
<1> DEFINE w == FileOf[d]
<1>1. CASE /\ Is(w, "file") /\ obj' = [obj EXCEPT ![w] = File(FALSE)]
           /\ UNCHANGED <<slotted, regen_pollfds>>
  BY <1>0, <1>1, FileInv DEF RawFile
<1>2. CASE /\ ~Is(w, "file")
           /\ obj' = [obj EXCEPT ![w] = File(FALSE), ![d].rec = "live"]
           /\ slotted' = slotted \ {<<w, 0>>} /\ regen_pollfds' = TRUE
  <2> DEFINE o == [obj[d] EXCEPT !.rec = "live"]
  <2>1. /\ o \in DevState /\ o.plugs = obj[d].plugs /\ o.kind = "dev"
    BY <1>0 DEF DevState
  <2>2. obj' = [obj EXCEPT ![w] = File(FALSE), ![d] = o]
    BY <1>0, <1>2 DEF Typed
  <2> HIDE DEF o, w
  <2>3. w \in FileLabel /\ w \in Label /\ d # w /\ w = FileOf[d]
    BY <1>0 DEF w
  <2>4. /\ obj'[w] = File(FALSE) /\ obj'[d] = o /\ obj' = [m \in Label |-> obj'[m]]
        /\ \A m \in Label \ {w, d} : obj'[m] = obj[m]
    BY <1>0, <2>2, <2>3 DEF Typed
  <2>5. File(FALSE) \in FileState /\ File(FALSE).kind = "file"
    BY NewFacts DEF FileState
  <2>6. Typed'
    <3>1. \A m \in Label : obj'[m] \in StateOf(m)
      BY <1>0, <2>1, <2>3, <2>4, <2>5, MemberFacts DEF Typed
    <3>2. UNCHANGED <<deferred_removes, controlSocketLabel, defaultOutputListener>>
      BY DEF RawFile
    <3> QED
      BY <1>0, <1>2, <2>4, <3>1, <3>2, HandlerTyped DEF Typed
  <2>7. \A c \in DevLabel : Is(c, "dev")' => Is(c, "dev") /\ obj'[c].plugs = obj[c].plugs
    BY <1>0, <2>1, <2>3, <2>4, LabelFacts DEF Is
  <2>8. \A q \in PlugLabel : obj'[q] = obj[q] /\ q \in Label
    BY <1>0, <2>3, <2>4, LabelFacts
  <2>9. PlugsAgree'
    <3> SUFFICES ASSUME NEW c \in DevLabel, Is(c, "dev")', NEW q \in obj'[c].plugs
                 PROVE  Is(q, "plug")' /\ obj'[q].dev = c
      BY DEF PlugsAgree
    <3>1. q \in PlugLabel /\ Is(q, "plug") /\ obj[q].dev = c
      BY <1>0, <2>7, LabelFacts, KindFacts DEF IInv, PlugsAgree, DevState
    <3> QED
      BY <2>8, <3>1 DEF Is
  <2>10. OrphansGo'
    <3> SUFFICES ASSUME NEW q \in PlugLabel, Is(q, "plug")', q \notin deferred_removes'
                 PROVE  /\ obj'[obj'[q].dev].kind = "dev"
                        /\ q \in obj'[obj'[q].dev].plugs
      BY DEF OrphansGo, Is
    <3>1. q \notin deferred_removes /\ Is(q, "plug") /\ obj[q].dev \in DevLabel
      BY <1>0, <2>8, KindFacts, LabelFacts DEF RawFile, Is, PlugState
    <3>2. Is(obj[q].dev, "dev") /\ q \in obj[obj[q].dev].plugs
      BY <3>1 DEF IInv, OrphansGo
    <3>3. obj'[obj[q].dev].kind = "dev" /\ obj'[obj[q].dev].plugs = obj[obj[q].dev].plugs
      <4> DEFINE c == obj[q].dev
      <4>1. c \in DevLabel /\ c \in Label /\ c # w
        BY <2>3, <3>1, LabelFacts
      <4> HIDE DEF c
      <4>2. c = d \/ obj'[c] = obj[c]
        BY <2>4, <4>1
      <4> QED
        BY <2>1, <2>4, <3>2, <4>2 DEF c, Is
    <3> QED
      BY <2>8, <3>2, <3>3
  <2>11. RecordersAgree'
    <3> SUFFICES ASSUME NEW c \in DevLabel, Is(c, "dev")', obj'[c].rec = "live"
                 PROVE  c \in FileDev /\ FileOf[c] \in Label /\ obj'[FileOf[c]].kind = "file"
      BY DEF RecordersAgree, Is
    <3>1. CASE c = d
      BY <2>3, <2>4, <2>5, <3>1
    <3>2. CASE c # d
      <4>1. c \in Label /\ c # w
        BY <2>3, LabelFacts
      <4>2. obj'[c] = obj[c]
        BY <2>4, <3>2, <4>1
      <4>3. c \in FileDev /\ Is(FileOf[c], "file")
        BY <4>2 DEF IInv, RecordersAgree, Is
      <4>4. FileOf[c] \in Label \ {w, d}
        BY <1>0, <2>3, <3>2, <4>3, LabelFacts
      <4> QED
        BY <2>4, <4>3, <4>4 DEF Is
    <3> QED
      BY <3>1, <3>2
  <2> QED
    BY <1>0, <1>2, <2>6, <2>9, <2>10, <2>11, HandlerFacts
       DEF IInv, RoundsOK, DevSlotsFresh, PlugsUnslotted, DataNeedsStart
<1> QED
  BY <1>1, <1>2 DEF RawFile

\* A file that is complete, or cannot be written.
LEMMA FileDoneInv ==
    ASSUME IInv, FileDone
    PROVE  IInv'
<1>1. at \in FileLabel /\ Is(at, "file")
  <2>1. Typed /\ at \in Label
    BY DEF FileDone, Event, IInv, Typed
  <2> QED
    BY <2>1, KindFacts DEF FileDone
<1> QED
  BY <1>1, FileInv DEF FileDone, Unchanged

\* The end of a round removes what is due, and the plugins of what is removed.
LEMMA EndPollInv ==
    ASSUME IInv, EndPoll
    PROVE  IInv'
<1>0. Typed
  BY DEF IInv
<1> DEFINE gone == deferred_removes \cup UNION {Privates(l) : l \in deferred_removes}
<1>1. /\ obj' = Destroy(gone) /\ deferred_removes' = {} /\ pc' = "top"
      /\ doing_poll' = FALSE /\ regen_pollfds' = (regen_pollfds \/ deferred_removes # {})
      /\ UNCHANGED <<slotted, controlSocketLabel, defaultOutputListener, at, batch>>
  BY DEF EndPoll
<1>2. Typed'
  <2> HIDE DEF gone
  <2>1. \A m \in Label : obj'[m] \in StateOf(m)
    BY <1>0, <1>1, DestroyFacts, MemberFacts
  <2>2. obj' = [m \in Label |-> obj'[m]]
    BY <1>1 DEF Destroy
  <2> QED
    BY <1>0, <1>1, <2>1, <2>2 DEF Typed
<1>3. PlugsAgree' /\ OrphansGo' /\ RecordersAgree'
  <2>1. ASSUME NEW p \in PlugLabel \ gone, Is(p, "plug")
        PROVE  p \notin deferred_removes /\ obj[p].dev \notin gone
    <3>1. p \notin deferred_removes
      OBVIOUS
    <3>2. obj[p].dev \in DevLabel /\ Is(obj[p].dev, "dev") /\ p \in obj[obj[p].dev].plugs
      BY <1>0, <2>1, <3>1, LabelFacts, KindFacts DEF IInv, OrphansGo, PlugState
    <3>3. p \in Privates(obj[p].dev)
      BY <1>0, <2>1, <3>2, LabelFacts, PrivatesFacts DEF Registered, Is
    <3>4. obj[p].dev \notin deferred_removes
      BY <3>3
    <3>5. gone \subseteq deferred_removes \cup PlugLabel
      BY <1>0, PrivatesFacts DEF Typed
    <3> QED
      BY <3>1, <3>2, <3>4, <3>5, LabelFacts
  <2> HIDE DEF gone
  <2> QED
    BY <1>1, <1>2, <2>1, DestroyKeeps
<1>4. DevSlotsFresh'
  <2> SUFFICES ASSUME ~regen_pollfds', NEW d \in DevLabel, Is(d, "dev")', Id(d)' \in slotted
               PROVE  HasFD(d, obj'[d])
    BY <1>1 DEF DevSlotsFresh
  <2>1. ~regen_pollfds /\ gone = {}
    BY <1>1
  <2> HIDE DEF gone
  <2>2. d \notin gone /\ d \in Label
    BY <2>1, LabelFacts
  <2>3. Is(d, "dev") /\ (HasFD(d, obj'[d]) <=> HasFD(d, obj[d]))
    BY <1>0, <1>1, <2>2, DestroyFacts DEF Is
  <2>4. obj'[d].gen = obj[d].gen
    BY <1>0, <1>1, <2>2, <2>3, DestroyFacts
  <2>5. Id(d)' = Id(d)
    BY <2>3, <2>4 DEF Id, Gen
  <2> QED
    BY <2>1, <2>3, <2>5 DEF IInv, DevSlotsFresh
<1> QED
  BY <1>1, <1>2, <1>3, <1>4 DEF IInv, RoundsOK, PlugsUnslotted, DataNeedsStart

-----------------------------------------------------------------------------
(* The invariant *)

LEMMA InitInv == Init => IInv
<1> SUFFICES ASSUME Init PROVE IInv
  OBVIOUS
<1>1. /\ obj = [l \in Label |-> IF l = ListenerLabel THEN Listener ELSE Nothing]
      /\ slotted = {} /\ deferred_removes = {} /\ regen_pollfds = TRUE
      /\ doing_poll = FALSE /\ pc = "top" /\ at = 0 /\ batch = 0
      /\ controlSocketLabel = NoLabel /\ defaultOutputListener = NoLabel
  BY DEF Init
<1>2. Listener \in StateOf(ListenerLabel)
  BY LabelFacts DEF StateOf
<1>3. Typed
  <2>1. \A l \in Label : obj[l] \in StateOf(l)
    BY <1>1, <1>2, MemberFacts
  <2>2. obj = [l \in Label |-> obj[l]]
    BY <1>1
  <2>3. batch \in 0..MaxBatch
    BY <1>1, HostAssumption DEF HostAssumption
  <2> QED
    BY <1>1, <2>1, <2>2, <2>3 DEF Typed
<1>4. \A l \in ClientLabel : ~Is(l, "dev") /\ ~Is(l, "plug")
  BY <1>1, LabelFacts DEF Is, Nothing
<1> QED
  BY <1>1, <1>3, <1>4, LabelFacts DEF IInv, RoundsOK, PlugsAgree, OrphansGo,
     RecordersAgree, DevSlotsFresh, PlugsUnslotted, DataNeedsStart

LEMMA NextInv == IInv /\ [Next]_vars => IInv'
<1> SUFFICES ASSUME IInv, [Next]_vars PROVE IInv'
  OBVIOUS
<1>1. CASE \/ BeginPoll \/ PollFails \/ HandlerReturn \/ Throw
           \/ \E l \in Label : Dispatch(l)
           \/ UNCHANGED vars
  BY <1>1, LoopInv
<1>2. CASE EndPoll
  BY <1>2, EndPollInv
<1>3. CASE \E l \in ConnLabels : Accept(l)
  BY <1>3, AcceptHostInv
<1>4. CASE Hangup
  BY <1>4, HangupInv
<1>5. CASE \E l \in DevLabel : OpenDev(l)
  BY <1>5, OpenDevInv
<1>6. CASE \/ \E l \in DevLabel : CloseDev(l) \/ StartDev(l) \/ StopDev(l)
           \/ Stall
  BY <1>6, DeviceInv
<1>7. CASE StartAll \/ StopAll
  BY <1>7, AllInv
<1>8. CASE Regenerate \/ ReceiveAll \/ \E p \in PlugLabel : Receive(p)
  BY <1>8, ReceiveInv
<1>9. CASE \E p \in PlugLabel, d \in DevLabel : Attach(p, d) \/ AttachFails(p, d)
  BY <1>9, AttachInv
<1>10. CASE \E l \in Label : Detach(l)
  BY <1>10, DetachInv
<1>11. CASE \E d \in FileDev : RawFile(d) \/ RawFileOff(d)
  BY <1>11, RawFileInv, RawFileOffInv
<1>12. CASE DevData \/ FileDone
  BY <1>12, DevDataInv, FileDoneInv
<1> QED
  BY <1>1, <1>2, <1>3, <1>4, <1>5, <1>6, <1>7, <1>8, <1>9, <1>10, <1>11, <1>12
     DEF Next, Exited

\* In every reachable state the invariant holds.
THEOREM Invariance == Spec => []IInv
BY InitInv, NextInv, PTL DEF Spec

\* Between rounds no removal waits, so a plugin that is left is listed by its device;
\* at all times, a device feeds only plugins that were attached to it.
THEOREM HostStaysOK == Spec => []HostOK
<1>1. IInv => HostOK
  <2> SUFFICES ASSUME IInv PROVE HostOK
    OBVIOUS
  <2>1. TypeOK
    BY TypedIsTyped DEF IInv
  <2>2. PluginDeviceAgree
    <3>1. \A l \in Label : Is(l, "plug") => l \in PlugLabel
      BY KindFacts DEF IInv
    <3>2. \A l \in Label : Is(l, "dev") => l \in DevLabel
      BY KindFacts DEF IInv
    <3> QED
      BY <3>1, <3>2 DEF IInv, PluginDeviceAgree, PlugsAgree, OrphansGo, RoundsOK, Devs, Plugs
  <2> QED
    BY <2>1, <2>2 DEF HostOK
<1> QED
  BY <1>1, Invariance, PTL

\* An ALSA device whose data is handed out was started and not stopped since.
THEOREM DataFollowsStart == Spec => []DataNeedsStart
<1>1. IInv => DataNeedsStart
  BY DEF IInv
<1> QED
  BY <1>1, Invariance, PTL

-----------------------------------------------------------------------------
(* The rounds that Pollable promises *)

\* Identities are pairs.
LEMMA IdFacts ==
    /\ NoId \notin Ids
    /\ \A x \in Ids : x[1] \in Label /\ x[2] \in {0, 1} /\ x = <<x[1], x[2]>>
    /\ \A l \in Label : <<l, 0>> \in Ids
    /\ \A l \in DevLabel : <<l, 1>> \in Ids
<1>1. \A x \in Label \X {0, 1} : x # <<>>
  OBVIOUS
<1>2. Ids \subseteq Label \X {0, 1}
  BY LabelFacts DEF Ids
<1> QED
  BY <1>1, <1>2, LabelFacts DEF Ids, NoId

\* Identities under the invariant.
LEMMA IdOf ==
    ASSUME Typed
    PROVE  \A l \in Label : /\ Id(l) = <<l, Gen(l)>> /\ Id(l) \in Ids /\ Id(l)[1] = l
                            /\ l \notin DevLabel => Gen(l) = 0
BY KindFacts, IdFacts DEF Id, Gen, DevState

\* Pollable's labels are the host's.
LEMMA PollLabels ==
    /\ Poll!ConnLabel = ConnLabels
    /\ Poll!Label = Label
    /\ \A l \in ConnLabels : /\ <<l, 0>> \in ConnLabels \X {0}
                             /\ [f \in ConnLabels \X {0} |-> f[1]][<<l, 0>>] = l
<1>1. \A l \in ConnLabels : /\ <<l, 0>> \in ConnLabels \X {0}
                             /\ [f \in ConnLabels \X {0} |-> f[1]][<<l, 0>>] = l
  OBVIOUS
<1>2. Poll!ConnLabel = ConnLabels
  BY <1>1 DEF Poll!ConnLabel
<1> QED
  BY <1>1, <1>2 DEF Poll!Label, Label

\* The mapped registry names the same objects.
LEMMA BarFacts ==
    ASSUME Typed
    PROVE  /\ pollablesBar = [l \in Label |-> pollablesBar[l]]
           /\ \A l \in Label : /\ pollablesBar[l] \in Ids \cup {NoId}
                               /\ pollablesBar[l] # NoId <=> ~Is(l, "none")
                               /\ pollablesBar[l] # NoId => pollablesBar[l] = Id(l)
           /\ Poll!Registered = Registered
           /\ Poll!Clients = Registered \cap ClientLabel
           /\ Poll!Live = {Id(l) : l \in Registered}
           /\ Poll!ClientObject = {Id(l) : l \in Registered \cap ClientLabel}
<1>1. \A l \in Label : Id(l) \in Ids /\ Id(l) # NoId
  BY IdOf, IdFacts
<1>2. /\ pollablesBar = [l \in Label |-> pollablesBar[l]]
      /\ \A l \in Label : pollablesBar[l] = IF Is(l, "none") THEN NoId ELSE Id(l)
  BY DEF pollablesBar
<1>3. Poll!Registered = Registered
  BY <1>1, <1>2, PollLabels DEF Poll!Registered, Registered
<1>4. \A l \in Registered : l \in Label /\ pollablesBar[l] = Id(l)
  BY <1>2 DEF Registered
<1> QED
  BY <1>1, <1>2, <1>3, <1>4 DEF Poll!Clients, Poll!Live, Poll!ClientObject

\* The mapped descriptors are those of live objects.
LEMMA FdFacts ==
    ASSUME Typed
    PROVE  /\ fdBar = [x \in Ids |-> fdBar[x]]
           /\ \A x \in Ids : fdBar[x] = IF OpenFD(x) THEN x ELSE NoId
           /\ \A l \in Label : OpenFD(Id(l)) <=> HasFD(l, obj[l])
           /\ \A l \in Label : HasFD(l, obj[l]) => l \in Registered /\ l \notin PlugLabel
           /\ \A x \in Ids : OpenFD(x) => x \in Poll!Live
           /\ Poll!Open = {x \in Ids : OpenFD(x)}
<1>1. /\ fdBar = [x \in Ids |-> fdBar[x]]
      /\ \A x \in Ids : fdBar[x] = IF OpenFD(x) THEN x ELSE NoId
  BY DEF fdBar
<1>2. \A l \in Label : OpenFD(Id(l)) <=> HasFD(l, obj[l])
  BY IdOf DEF OpenFD
<1>3. \A l \in Label : HasFD(l, obj[l]) => l \in Registered /\ l \notin PlugLabel
  BY KindFacts DEF HasFD, Registered, Is
<1>4. \A x \in Ids : OpenFD(x) => x \in Poll!Live
  BY <1>3, BarFacts, IdFacts DEF OpenFD
<1>5. Poll!Open = {x \in Ids : OpenFD(x)}
  BY <1>1, IdFacts DEF Poll!Open
<1> QED
  BY <1>1, <1>2, <1>3, <1>4, <1>5

\* The mapped entries are those of allpollfds, and the loop goes to the same object.
LEMMA SlotFacts ==
    ASSUME Typed
    PROVE  /\ slotBar = [x \in Ids |-> slotBar[x]]
           /\ \A x \in Ids : slotBar[x] = IF x \in slotted THEN x ELSE NoId
           /\ \A l \in Label : Poll!IsNext(l) <=> IsNext(l)
<1>1. /\ slotBar = [x \in Ids |-> slotBar[x]]
      /\ \A x \in Ids : slotBar[x] = IF x \in slotted THEN x ELSE NoId
  BY DEF slotBar
<1>2. \A l \in Registered : l \in Label /\ pollablesBar[l] = Id(l)
  BY BarFacts DEF Registered
<1>3. Poll!Polled = Polled
  BY <1>1, <1>2, BarFacts, IdOf, IdFacts DEF Poll!Polled, Polled
<1> QED
  BY <1>1, <1>3 DEF Poll!IsNext, IsNext

\* The mapped state after a step.
LEMMA BarsNext ==
    /\ pollablesBar' = [l \in Label |-> IF Is(l, "none")' THEN NoId ELSE <<l, Gen(l)'>>]
    /\ fdBar' = [x \in Ids |->
                    IF x = <<x[1], Gen(x[1])'>> /\ HasFD(x[1], obj'[x[1]]) THEN x ELSE NoId]
    /\ slotBar' = [x \in Ids |-> IF x \in slotted' THEN x ELSE NoId]
    /\ runningBar' = IF pc' = "handler" \/ (pc' = "exit" /\ doing_poll')
                     THEN <<at', Gen(at)'>> ELSE NoId
BY DEF pollablesBar, fdBar, slotBar, runningBar, Id, OpenFD

\* Objects that stay the same are mapped to the same identities.
LEMMA SameIds ==
    ASSUME Typed, \A l \in Label : SameId(l)
    PROVE  pollablesBar' = pollablesBar
<1>1. \A l \in Label : (IF Is(l, "none")' THEN NoId ELSE <<l, Gen(l)'>>)
                        = (IF Is(l, "none") THEN NoId ELSE <<l, Gen(l)>>)
  BY DEF SameId
<1> QED
  BY <1>1, BarsNext DEF pollablesBar, Id

\* If nothing the loop sees changes, nothing that Pollable speaks of does.
LEMMA SameBars ==
    ASSUME Typed, \A l \in Label : SameView(l), slotted' = slotted
    PROVE  UNCHANGED <<pollablesBar, fdBar, slotBar>>
<1>1. pollablesBar' = pollablesBar
  BY SameIds DEF SameView
<1>2. fdBar' = fdBar
  <2>1. \A x \in Ids : x[1] \in Label
    BY IdFacts
  <2>2. \A x \in Ids : x = <<x[1], Gen(x[1])'>> /\ HasFD(x[1], obj'[x[1]]) <=> OpenFD(x)
    BY <2>1 DEF SameView, SameId, OpenFD, Id
  <2> QED
    BY <2>2, BarsNext DEF fdBar
<1>3. slotBar' = slotBar
  BY BarsNext DEF slotBar
<1> QED
  BY <1>1, <1>2, <1>3

\* Who runs stays who runs.
LEMMA SameRunning ==
    ASSUME Typed, UNCHANGED <<pc, at, doing_poll>>, pc = "handler", SameId(at)
    PROVE  runningBar' = runningBar
BY BarsNext DEF runningBar, Id, SameId

\* Only a client that is no plugin has a descriptor, and only while it is there.
LEMMA HasFDFacts ==
    ASSUME NEW l \in Label, NEW o \in StateOf(l), HasFD(l, o)
    PROVE  l \notin PlugLabel /\ o.kind # "none"
BY StateFacts, LabelFacts DEF HasFD

\* A command or an event that removes the clients of R, and opens and closes the
\* descriptors of clients.
LEMMA ReconfigureStep ==
    ASSUME IInv, Typed', Command \/ Event, at # ListenerLabel,
           \A l \in Label : SameId(l),
           \A l \in Label \ ClientLabel : SameView(l),
           slotted' = slotted, regen_pollfds' = TRUE,
           NEW R \in SUBSET (Registered \cap ClientLabel), Poll!Remove(R)
    PROVE  Poll!Next
<1>0. Typed /\ pc = "handler" /\ at \in Label /\ UNCHANGED <<pc, at, doing_poll>>
  BY HandlerFacts DEF IInv
<1>1. UNCHANGED <<pollablesBar, slotBar, runningBar>>
  BY <1>0, SameIds, SameRunning, BarsNext DEF slotBar
<1>2. \A x \in Ids : fdBar'[x] \in {x, NoId}
  BY BarsNext
<1>3. \A x \in Ids : x \notin Poll!ClientObject => fdBar'[x] = fdBar[x]
  <2> SUFFICES ASSUME NEW x \in Ids, x \notin Poll!ClientObject
               PROVE  fdBar'[x] = fdBar[x]
    OBVIOUS
  <2> DEFINE l == x[1]
  <2>1. l \in Label
    BY IdFacts
  <2>2. CASE l \notin ClientLabel
    BY <2>1, <2>2, BarsNext DEF SameView, SameId, fdBar, OpenFD, Id
  <2>3. CASE l \in ClientLabel /\ Is(l, "none")
    <3>1. Is(l, "none")'
      BY <2>1, <2>3 DEF SameId
    <3>2. ~HasFD(l, obj[l]) /\ ~HasFD(l, obj'[l])
      BY <2>3, <3>1 DEF HasFD, Is
    <3> QED
      BY <3>2, BarsNext DEF fdBar, OpenFD
  <2>4. CASE l \in ClientLabel /\ ~Is(l, "none")
    <3>1. x # Id(l)
      BY <1>0, <2>1, <2>4, BarFacts DEF Registered
    <3>2. x # <<l, Gen(l)'>>
      BY <2>1, <3>1 DEF Id, SameId
    <3> QED
      BY <3>1, <3>2, BarsNext DEF fdBar, OpenFD
  <2> QED
    BY <2>2, <2>3, <2>4
<1>4. \A x \in Ids : fdBar'[x] \in (FileLabel \X {0}) \cup (DevLabel \X {0, 1}) \cup {NoId}
                     \/ x \notin Poll!ClientObject
  <2> SUFFICES ASSUME NEW x \in Ids, x \in Poll!ClientObject, fdBar'[x] # NoId
               PROVE  x \in (FileLabel \X {0}) \cup (DevLabel \X {0, 1})
    BY <1>2
  <2>1. PICK l \in Registered \cap ClientLabel : x = Id(l)
    BY <1>0, BarFacts
  <2>2. l \in Label /\ x = <<l, Gen(l)>> /\ x[1] = l
    BY <1>0, <2>1, IdOf DEF Registered
  <2>3. HasFD(l, obj'[l])
    BY <2>2, BarsNext
  <2>4. l \notin PlugLabel
    BY <2>2, <2>3, HasFDFacts DEF Typed
  <2> QED
    BY <1>0, <2>1, <2>2, <2>4, IdOf, KindFacts, LabelFacts DEF Gen, DevState
<1> DEFINE g == [x \in Poll!ClientObject |-> fdBar'[x]]
<1>5. Poll!ClientObject \subseteq Ids
  BY <1>0, BarFacts, IdOf DEF Registered
<1>6. /\ g \in [Poll!ClientObject -> (FileLabel \X {0}) \cup (DevLabel \X {0, 1}) \cup {NoId}]
      /\ \A x, y \in Poll!ClientObject : g[x] = g[y] /\ g[x] # NoId => x = y
  BY <1>2, <1>4, <1>5
<1>7. fdBar' = [x \in Ids |-> IF x \in Poll!ClientObject THEN g[x] ELSE fdBar[x]]
  <2>1. fdBar' = [x \in Ids |-> fdBar'[x]]
    BY BarsNext
  <2> QED
    BY <1>3, <2>1
<1>8. R \subseteq Poll!Clients /\ R \in SUBSET ClientLabel
  BY <1>0, BarFacts
<1>9. Poll!Reconfigure(R)
  <2> HIDE DEF g
  <2> QED
    BY <1>0, <1>1, <1>6, <1>7, <1>8 DEF Poll!Reconfigure, Poll!InHandler, Poll!control
<1> QED
  BY <1>8, <1>9 DEF Poll!Next

\* An object appears under l, and what had the label is destroyed.
LEMMA ConstructBars ==
    ASSUME Typed, Typed', NEW l \in Label, ~Is(l, "none")',
           Is(l, "none") \/ Gen(l)' # Gen(l),
           \A m \in Label \ {l} : SameView(m),
           slotted' = slotted \ {Id(l)'}
    PROVE  /\ Id(l)' \in Ids /\ Id(l)' \notin Poll!Live /\ Id(l)' \notin Poll!Open
           /\ pollablesBar' = [pollablesBar EXCEPT ![l] = Id(l)']
           /\ fdBar' = [Poll!Closed(fdBar, {pollablesBar[l]}) EXCEPT
                            ![Id(l)'] = IF HasFD(l, obj'[l]) THEN Id(l)' ELSE NoId]
           /\ slotBar' = [slotBar EXCEPT ![Id(l)'] = NoId]
<1> DEFINE i == <<l, Gen(l)'>>
<1>1. Id(l)' = i /\ i[1] = l
  BY DEF Id
<1>2. i \in Ids
  <2>1. Gen(l)' \in {0, 1} /\ (l \notin DevLabel => Gen(l)' = 0)
    <3>1. obj'[l] \in StateOf(l)
      BY DEF Typed
    <3> QED
      BY <3>1, StateFacts DEF Gen, Is, DevState
  <2> QED
    BY <2>1, IdFacts
<1>3. i \notin Poll!Live
  <2> SUFFICES ASSUME i \in Poll!Live PROVE FALSE
    OBVIOUS
  <2>1. PICK m \in Registered : i = Id(m)
    BY BarFacts
  <2>2. m = l /\ Gen(l)' = Gen(l)
    BY <2>1 DEF Id
  <2> QED
    BY <2>1, <2>2 DEF Registered
<1>4. i \notin Poll!Open
  BY <1>3, FdFacts
<1>5. pollablesBar' = [pollablesBar EXCEPT ![l] = i]
  <2>1. \A m \in Label \ {l} : (IF Is(m, "none")' THEN NoId ELSE <<m, Gen(m)'>>)
                                = (IF Is(m, "none") THEN NoId ELSE <<m, Gen(m)>>)
    BY DEF SameView, SameId
  <2> QED
    BY <2>1, BarsNext DEF pollablesBar, Id
<1>6. slotBar' = [slotBar EXCEPT ![i] = NoId]
  BY <1>1, <1>2, BarsNext DEF slotBar
<1> DEFINE f == IF HasFD(l, obj'[l]) THEN i ELSE NoId
<1>7. fdBar' = [Poll!Closed(fdBar, {pollablesBar[l]}) EXCEPT ![i] = f]
  <2>1. Poll!Closed(fdBar, {pollablesBar[l]})
          = [x \in Ids |-> IF x \in {pollablesBar[l]} THEN NoId ELSE fdBar[x]]
    BY DEF Poll!Closed
  <2>2. ASSUME NEW x \in Ids
        PROVE  fdBar'[x] = IF x = i THEN f
                           ELSE IF x = pollablesBar[l] THEN NoId ELSE fdBar[x]
    <3>1. x[1] \in Label
      BY IdFacts
    <3>2. CASE x = i
      BY <1>1, <3>2, BarsNext
    <3>3. CASE x # i /\ x[1] = l
      <4>1. fdBar'[x] = NoId
        BY <3>3, BarsNext
      <4>2. x # pollablesBar[l] => fdBar[x] = NoId
        <5> SUFFICES ASSUME OpenFD(x) PROVE x = pollablesBar[l]
          BY FdFacts
        <5>1. x = Id(l) /\ HasFD(l, obj[l])
          BY <3>3 DEF OpenFD
        <5> QED
          BY <5>1, FdFacts DEF pollablesBar, Registered
      <4> QED
        BY <3>3, <4>1, <4>2
    <3>4. CASE x[1] # l
      <4>1. fdBar'[x] = fdBar[x]
        BY <3>1, <3>4, BarsNext DEF SameView, SameId, fdBar, OpenFD, Id
      <4>2. x # pollablesBar[l]
        BY <3>4, BarFacts, IdOf, IdFacts
      <4> QED
        BY <1>1, <3>4, <4>1, <4>2
    <3> QED
      BY <3>2, <3>3, <3>4
  <2>3. fdBar' = [x \in Ids |-> fdBar'[x]]
    BY BarsNext
  <2> HIDE DEF f, i
  <2> QED
    BY <1>2, <2>1, <2>2, <2>3
<1> QED
  BY <1>1, <1>2, <1>3, <1>4, <1>5, <1>6, <1>7

\* The objects of D are destroyed.
LEMMA DestroyBars ==
    ASSUME Typed, NEW D, obj' = Destroy(D), slotted' = slotted
    PROVE  /\ pollablesBar' = [l \in Label |-> IF l \in D THEN NoId ELSE pollablesBar[l]]
           /\ fdBar' = Poll!Closed(fdBar, {pollablesBar[l] : l \in D \cap Registered})
           /\ slotBar' = slotBar
<1>1. ASSUME NEW l \in Label, l \notin D
      PROVE  SameView(l)
  <2>1. /\ obj'[l].kind = obj[l].kind
        /\ HasFD(l, obj'[l]) <=> HasFD(l, obj[l])
        /\ Is(l, "dev") => obj'[l].gen = obj[l].gen
    BY <1>1, DestroyFacts
  <2> QED
    BY <2>1 DEF SameView, SameId, Gen, Is
<1>2. ASSUME NEW l \in Label, l \in D
      PROVE  Is(l, "none")' /\ ~HasFD(l, obj'[l])
  <2>1. obj'[l] = Nothing
    BY <1>2, DestroyFacts
  <2> QED
    BY <2>1 DEF Is, Nothing, HasFD
<1>3. pollablesBar' = [l \in Label |-> IF l \in D THEN NoId ELSE pollablesBar[l]]
  <2>1. \A l \in Label \ D : (IF Is(l, "none")' THEN NoId ELSE <<l, Gen(l)'>>)
                              = (IF Is(l, "none") THEN NoId ELSE <<l, Gen(l)>>)
    BY <1>1 DEF SameView, SameId
  <2> QED
    BY <1>2, <2>1, BarsNext DEF pollablesBar, Id
<1> DEFINE S == {pollablesBar[l] : l \in D \cap Registered}
<1>4. fdBar' = Poll!Closed(fdBar, S)
  <2>1. Poll!Closed(fdBar, S) = [x \in Ids |-> IF x \in S THEN NoId ELSE fdBar[x]]
    BY DEF Poll!Closed
  <2>2. ASSUME NEW x \in Ids
        PROVE  fdBar'[x] = IF x \in S THEN NoId ELSE fdBar[x]
    <3> DEFINE l == x[1]
    <3>1. l \in Label
      BY IdFacts
    <3>2. CASE l \in D
      <4>1. fdBar'[x] = NoId
        BY <1>2, <3>1, <3>2, BarsNext
      <4>2. OpenFD(x) => x \in S
        BY <3>1, <3>2, FdFacts, BarFacts DEF OpenFD, Registered
      <4> QED
        BY <4>1, <4>2, FdFacts
    <3>3. CASE l \notin D
      <4>1. SameView(l)
        BY <1>1, <3>1, <3>3
      <4>2. fdBar'[x] = fdBar[x]
        BY <4>1, BarsNext DEF SameView, SameId, fdBar, OpenFD, Id
      <4>3. x \notin S
        BY <3>3, BarFacts, IdOf DEF Registered
      <4> QED
        BY <4>2, <4>3
    <3> QED
      BY <3>2, <3>3
  <2>3. fdBar' = [x \in Ids |-> fdBar'[x]]
    BY BarsNext
  <2> HIDE DEF S
  <2> QED
    BY <2>1, <2>2, <2>3
<1>5. slotBar' = slotBar
  BY BarsNext DEF slotBar
<1> QED
  BY <1>3, <1>4, <1>5

-----------------------------------------------------------------------------
(* Every step is one of Pollable's, or none *)

LEMMA InitBars == Init => Poll!Init
<1> SUFFICES ASSUME Init PROVE Poll!Init
  OBVIOUS
<1> DEFINE o == <<ListenerLabel, 0>>
<1>1. Typed
  BY InitInv DEF IInv
<1>2. o \in Ids /\ ListenerLabel \in Label
  BY IdFacts, LabelFacts
<1>3. \A l \in Label : /\ Is(l, "none") <=> l # ListenerLabel
                       /\ Gen(l) = 0
                       /\ HasFD(l, obj[l]) <=> l = ListenerLabel
  BY <1>2 DEF Init, Is, Gen, HasFD, Listener, Nothing
<1>4. pollablesBar = [l \in Label |-> IF l = ListenerLabel THEN o ELSE NoId]
  BY <1>3 DEF pollablesBar, Id
<1>5. fdBar = [x \in Ids |-> IF x = o THEN <<ListenerLabel, 0>> ELSE NoId]
  <2>1. \A x \in Ids : OpenFD(x) <=> x = o
    BY <1>2, <1>3, IdFacts DEF OpenFD, Id
  <2> QED
    BY <2>1 DEF fdBar
<1>6. slotBar = [x \in Ids |-> NoId]
  BY DEF Init, slotBar
<1>7. runningBar = NoId
  BY DEF Init, runningBar
<1> HIDE DEF o
<1> QED
  BY <1>2, <1>4, <1>5, <1>6, <1>7, PollLabels DEF Poll!Init, Init, NoLabel

\* regenFDs gives entries to the open descriptors.
LEMMA RegenBars ==
    ASSUME Typed, regenFDs, obj' = obj
    PROVE  /\ slotBar' = IF regen_pollfds
                         THEN [x \in Ids |-> IF x \in Poll!Live THEN fdBar[x] ELSE NoId]
                         ELSE slotBar
           /\ UNCHANGED <<pollablesBar, fdBar>>
<1>1. \A l \in Label : SameView(l)
  BY DEF SameView, SameId, Is, Gen
<1>2. UNCHANGED <<pollablesBar, fdBar>>
  <2>1. fdBar' = fdBar
    BY DEF fdBar, OpenFD, Id, Gen, Is
  <2> QED
    BY <1>1, <2>1, SameIds DEF SameView
<1>3. CASE ~regen_pollfds
  BY <1>2, <1>3, BarsNext DEF regenFDs, slotBar
<1>4. CASE regen_pollfds
  <2>1. \A x \in Ids : x \in slotted' <=> OpenFD(x)
    <3>1. slotted' = {Id(l) : l \in {m \in Registered : HasFD(m, obj[m])}}
      BY <1>4 DEF regenFDs
    <3>2. \A l \in Registered : l \in Label
      BY DEF Registered
    <3> QED
      BY <3>1, <3>2, FdFacts, IdOf, IdFacts DEF OpenFD
  <2>2. \A x \in Ids : (IF x \in slotted' THEN x ELSE NoId)
                        = (IF x \in Poll!Live THEN fdBar[x] ELSE NoId)
    BY <2>1, FdFacts
  <2> QED
    BY <1>2, <1>4, <2>2, BarsNext
<1> QED
  BY <1>2, <1>3, <1>4

\* The loop's steps.
LEMMA LoopStep ==
    ASSUME IInv, IInv',
           \/ BeginPoll \/ PollFails \/ HandlerReturn \/ Throw
           \/ \E l \in Label : Dispatch(l)
    PROVE  Poll!Next
<1>0. Typed /\ (pc = "top" => ~doing_poll) /\ (pc \in {"dispatch", "handler"} => doing_poll)
  BY DEF IInv, RoundsOK
<1>1. CASE BeginPoll
  <2>1. UNCHANGED runningBar /\ obj' = obj
    BY <1>0, <1>1 DEF BeginPoll, runningBar
  <2>2. Poll!BeginPoll
    BY <1>0, <1>1, <2>1, RegenBars DEF Poll!BeginPoll, BeginPoll, regenFDs
  <2> QED
    BY <2>2 DEF Poll!Next, Poll!Loop
<1>2. CASE PollFails
  <2>1. UNCHANGED runningBar /\ obj' = obj
    BY <1>0, <1>2 DEF PollFails, runningBar
  <2>2. Poll!PollFails
    BY <1>0, <1>2, <2>1, RegenBars DEF Poll!PollFails, PollFails, regenFDs
  <2> QED
    BY <2>2 DEF Poll!Next
<1>3. ASSUME obj' = obj, slotted' = slotted
      PROVE  UNCHANGED <<pollablesBar, fdBar, slotBar>>
  BY <1>0, <1>3, SameBars DEF SameView, SameId, Is, Gen
<1>4. CASE HandlerReturn
  <2>1. runningBar' = NoId
    BY <1>4 DEF HandlerReturn, runningBar
  <2>2. Poll!HandlerReturn
    BY <1>3, <1>4, <2>1 DEF HandlerReturn, Poll!HandlerReturn, Poll!InHandler, Poll!registry
  <2> QED
    BY <2>2 DEF Poll!Next, Poll!Loop
<1>5. CASE Throw
  <2>1. UNCHANGED runningBar /\ obj' = obj
    BY <1>0, <1>5 DEF Throw, runningBar, Id, Gen, Is
  <2>2. at # ListenerLabel
    BY <1>0, <1>5, LabelFacts, KindFacts DEF Throw, Devs
  <2>3. Poll!Throw
    BY <1>3, <1>5, <2>1, <2>2 DEF Throw, Poll!Throw, Poll!InHandler, Poll!registry
  <2> QED
    BY <2>3 DEF Poll!Next
<1>6. CASE \E l \in Label : Dispatch(l)
  <2>1. PICK l \in Label : Dispatch(l)
    BY <1>6
  <2>2. runningBar' = pollablesBar[l]
    <3>1. ~Is(l, "none") /\ pollablesBar[l] = Id(l)
      BY <2>1 DEF Dispatch, IsNext, Polled, Registered, pollablesBar
    <3>2. runningBar' = <<at', Gen(at)'>>
      BY <2>1, BarsNext DEF Dispatch
    <3>3. Gen(at)' = Gen(l)
      BY <2>1 DEF Dispatch, Gen, Is
    <3> QED
      BY <2>1, <3>1, <3>2, <3>3 DEF Dispatch, Id
  <2>3. Poll!Dispatch(l)
    BY <1>0, <1>3, <2>1, <2>2, SlotFacts DEF Dispatch, Poll!Dispatch, Poll!registry
  <2> QED
    BY <2>3, PollLabels DEF Poll!Next, Poll!Loop
<1> QED
  BY <1>1, <1>2, <1>4, <1>5, <1>6

\* The end of a round.
LEMMA EndPollStep ==
    ASSUME IInv, IInv', EndPoll
    PROVE  Poll!Next
<1>0. Typed
  BY DEF IInv
<1> DEFINE cascade == UNION {Privates(l) : l \in deferred_removes}
           gone == deferred_removes \cup cascade
<1>1. /\ pollablesBar' = [l \in Label |-> IF l \in gone THEN NoId ELSE pollablesBar[l]]
      /\ fdBar' = Poll!Closed(fdBar, {pollablesBar[l] : l \in gone \cap Registered})
      /\ slotBar' = slotBar
  <2> HIDE DEF gone
  <2>1. obj' = Destroy(gone) /\ slotted' = slotted
    BY DEF EndPoll, gone
  <2> QED
    BY <1>0, <2>1, DestroyBars
<1>2. cascade \in SUBSET Poll!Clients /\ (deferred_removes = {} => cascade = {})
  <2>1. \A l \in deferred_removes : Privates(l) \subseteq Registered \cap ClientLabel
    BY <1>0, PrivatesFacts, LabelFacts DEF Typed
  <2> QED
    BY <1>0, <2>1, BarFacts
<1>3. UNCHANGED runningBar
  BY DEF EndPoll, runningBar
<1>4. regen_pollfds \/ \A l \in Poll!Label : ~Poll!IsNext(l)
  BY <1>0, SlotFacts, PollLabels DEF EndPoll
<1>5. Poll!EndPoll
  <2> HIDE DEF cascade
  <2> QED
    BY <1>0, <1>1, <1>2, <1>3, <1>4, BarFacts, PollLabels DEF EndPoll, Poll!EndPoll
<1> QED
  BY <1>5 DEF Poll!Next, Poll!Loop

\* Connections come and go.
LEMMA ConnStep ==
    ASSUME IInv, IInv', Hangup \/ \E l \in ConnLabels : Accept(l)
    PROVE  Poll!Next
<1>0. Typed /\ Typed'
  BY DEF IInv
<1>1. CASE Hangup
  <2>1. UNCHANGED <<pollablesBar, fdBar, slotBar>>
    BY <1>0, <1>1, SameBars DEF Hangup, SameView, SameId, Is, Gen
  <2>2. runningBar' = NoId
    BY <1>1 DEF Hangup, runningBar
  <2>3. Poll!Remove({at})
    BY <1>0, <1>1, BarFacts DEF Hangup, Remove, Poll!Remove, NoLabel
  <2>4. Poll!Hangup
    BY <1>1, <2>1, <2>2, <2>3, PollLabels
       DEF Hangup, Poll!Hangup, Poll!InCommand, Poll!InHandler, Poll!registry
  <2> QED
    BY <2>4 DEF Poll!Next
<1>2. CASE \E l \in ConnLabels : Accept(l)
  <2>1. PICK l \in ConnLabels : Accept(l)
    BY <1>2
  <2>2. l \in Label /\ l \notin DevLabel /\ l # ListenerLabel /\ Is(l, "none")
    BY <2>1, LabelFacts DEF Accept, Registered
  <2>3. obj'[l] = Conn /\ \A m \in Label \ {l} : obj'[m] = obj[m]
    BY <1>0, <2>1, <2>2 DEF Accept, Typed
  <2>4. Gen(l)' = 0 /\ ~Is(l, "none")' /\ HasFD(l, obj'[l]) /\ Id(l)' = <<l, 0>>
    BY <2>3 DEF Gen, Is, HasFD, Conn, Id
  <2>5. \A m \in Label \ {l} : SameView(m)
    BY <2>3 DEF SameView, SameId, Is, Gen
  <2>6. slotted' = slotted \ {Id(l)'}
    BY <2>1, <2>4 DEF Accept
  <2> DEFINE f == <<l, 0>>
  <2>7. /\ f \in Ids /\ f \notin Poll!Live /\ f \notin Poll!Open
        /\ pollablesBar' = [pollablesBar EXCEPT ![l] = f]
        /\ fdBar' = [Poll!Closed(fdBar, {pollablesBar[l]}) EXCEPT ![f] = f]
        /\ slotBar' = [slotBar EXCEPT ![f] = NoId]
    BY <1>0, <2>2, <2>4, <2>5, <2>6, ConstructBars
  <2>8. UNCHANGED <<pc, at, runningBar>>
    <3>1. SameId(at) /\ UNCHANGED <<pc, at, doing_poll>> /\ pc = "handler"
      BY <2>1, <2>2, <2>5, LabelFacts DEF Accept, round, SameView
    <3> QED
      BY <1>0, <3>1, SameRunning
  <2>9. f \in ConnLabels \X {0} /\ [g \in ConnLabels \X {0} |-> g[1]][f] = l
    OBVIOUS
  <2>10. Poll!Accept(f, f)
    <3> HIDE DEF f
    <3> QED
      BY <2>1, <2>7, <2>8, <2>9
         DEF Accept, Poll!Accept, Poll!InHandler, Poll!control, NoLabel
  <2> QED
    BY <2>7, <2>9, <2>10 DEF Poll!Next
<1> QED
  BY <1>1, <1>2

\* One object changes, and stays the same object.
LEMMA OneObject ==
    ASSUME Typed, NEW l \in Label, NEW o, obj' = [obj EXCEPT ![l] = o],
           o.kind = obj[l].kind, Is(l, "dev") => o.gen = obj[l].gen
    PROVE  /\ \A m \in Label : SameId(m)
           /\ \A m \in Label \ {l} : SameView(m)
           /\ (HasFD(l, o) <=> HasFD(l, obj[l])) => \A m \in Label : SameView(m)
<1>1. obj'[l] = o /\ \A m \in Label \ {l} : obj'[m] = obj[m]
  BY DEF Typed
<1>2. SameId(l)
  BY <1>1 DEF SameId, Is, Gen
<1>3. \A m \in Label \ {l} : SameView(m)
  BY <1>1 DEF SameView, SameId, Is, Gen
<1> QED
  BY <1>1, <1>2, <1>3 DEF SameView

\* What handlers remove are clients.
LEMMA RemoveBars ==
    ASSUME Typed, NEW l, Remove(l)
    PROVE  Poll!Remove({l} \cap Registered)
<1> DEFINE L == {l} \cap Registered
<1>1. L \cap Registered = L /\ (controlSocketLabel \in L <=> l \in Registered /\ l = controlSocketLabel)
  OBVIOUS
<1>2. Poll!Registered = Registered
  BY BarFacts
<1>3. /\ deferred_removes' = deferred_removes \cup L
      /\ controlSocketLabel' = IF controlSocketLabel \in L THEN NoLabel ELSE controlSocketLabel
  BY <1>1 DEF Remove
<1>4. Poll!Remove(L)
  <2> HIDE DEF L
  <2> QED
    BY <1>1, <1>2, <1>3 DEF Poll!Remove
<1> QED
  BY <1>4

LEMMA RemoveNone ==
    ASSUME Typed, UNCHANGED <<deferred_removes, controlSocketLabel>>
    PROVE  Poll!Remove({})
BY DEF Poll!Remove

\* "close", "start", "stop", a stall.
LEMMA DeviceStep ==
    ASSUME IInv, IInv',
           \/ \E l \in DevLabel : CloseDev(l) \/ StartDev(l) \/ StopDev(l)
           \/ Stall
    PROVE  Poll!Next
<1>0. Typed /\ Typed'
  BY DEF IInv
<1>1. PICK l \in DevLabel :
         /\ CloseDev(l) \/ StartDev(l) \/ StopDev(l) \/ (Stall /\ l = at)
         /\ Is(l, "dev")
  <2>1. CASE Stall
    BY <1>0, <2>1, KindFacts DEF Stall, Devs
  <2> QED
    BY <2>1 DEF CloseDev, StartDev, StopDev, Devs
<1>2. obj[l] \in DevState /\ l \in Label /\ l \in ClientLabel
  BY <1>0, <1>1, KindFacts, LabelFacts
<1>3. PICK o \in {Stopped(l, obj[l])} \cup Started(l, obj[l]) : obj' = [obj EXCEPT ![l] = o]
  BY <1>1 DEF CloseDev, StartDev, StopDev, Stall
<1>4. o.kind = obj[l].kind /\ o.gen = obj[l].gen
  BY <1>2, <1>3, StoppedFacts, StartedFacts DEF DevState
<1>5. \A m \in Label : SameId(m) /\ (m \in Label \ ClientLabel => SameView(m))
  BY <1>0, <1>2, <1>3, <1>4, OneObject
<1>6. PICK R \in SUBSET (Registered \cap ClientLabel) : Poll!Remove(R)
  <2>1. CASE CloseDev(l)
    <3>1. {l} \cap Registered \in SUBSET (Registered \cap ClientLabel)
      BY <1>2
    <3> QED
      BY <1>0, <1>2, <2>1, <3>1, RemoveBars DEF CloseDev
  <2>2. CASE ~CloseDev(l)
    <3>1. UNCHANGED <<deferred_removes, controlSocketLabel>>
      BY <1>1, <2>2 DEF StartDev, StopDev, Stall, Unchanged
    <3> QED
      BY <1>0, <3>1, RemoveNone
  <2> QED
    BY <2>1, <2>2
<1>7. /\ (Command \/ Event) /\ at # ListenerLabel
      /\ slotted' = slotted /\ regen_pollfds' = TRUE
  BY <1>1, LabelFacts DEF CloseDev, StartDev, StopDev, Stall, Command, Unchanged
<1> QED
  BY <1>0, <1>5, <1>6, <1>7, ReconfigureStep

\* "startAll" and "stopAll".
LEMMA AllStep ==
    ASSUME IInv, IInv', StartAll \/ StopAll
    PROVE  Poll!Next
<1>0. Typed /\ Typed'
  BY DEF IInv
<1>1. \A l \in Label : l \notin Devs => obj'[l] = obj[l]
  BY DEF StartAll, StopAll
<1>2. ASSUME NEW l \in Devs
      PROVE  obj'[l].kind = obj[l].kind /\ obj'[l].gen = obj[l].gen
  <2>1. l \in DevLabel /\ l \in Label /\ obj[l] \in DevState
    BY <1>0, KindFacts DEF Devs
  <2>2. obj'[l] \in {Stopped(l, obj[l])} \cup Started(l, obj[l])
    BY <2>1 DEF StartAll, StopAll
  <2> QED
    BY <2>1, <2>2, StoppedFacts, StartedFacts DEF DevState
<1>3. \A l \in Label : SameId(l)
  BY <1>1, <1>2 DEF SameId, Is, Gen, Devs
<1>4. \A l \in Label \ ClientLabel : SameView(l)
  BY <1>0, <1>1, <1>3, LabelFacts, KindFacts DEF SameView, Devs
<1>5. /\ Command /\ at # ListenerLabel /\ slotted' = slotted /\ regen_pollfds' = TRUE
      /\ UNCHANGED <<deferred_removes, controlSocketLabel>>
  BY LabelFacts DEF StartAll, StopAll, Command, Unchanged
<1> QED
  BY <1>0, <1>3, <1>4, <1>5, RemoveNone, ReconfigureStep

\* A step that changes nothing Pollable speaks of.
LEMMA StutterStep ==
    ASSUME Typed, Command \/ Event, \A l \in Label : SameView(l), slotted' = slotted,
           UNCHANGED <<regen_pollfds, deferred_removes, controlSocketLabel>>
    PROVE  UNCHANGED Poll!vars
<1>1. UNCHANGED <<pollablesBar, fdBar, slotBar>>
  BY SameBars
<1>2. UNCHANGED <<pc, at, doing_poll, runningBar>>
  <2>1. /\ pc = "handler" /\ UNCHANGED <<pc, at, doing_poll>>
        /\ at \in Label
    BY HandlerFacts
  <2> QED
    BY <2>1, SameRunning DEF SameView
<1> QED
  BY <1>1, <1>2 DEF Poll!vars

\* "receive", and what only asks for a regeneration.
LEMMA ReceiveStep ==
    ASSUME IInv, IInv', Regenerate \/ ReceiveAll \/ \E p \in PlugLabel : Receive(p)
    PROVE  [Poll!Next]_Poll!vars
<1>0. Typed /\ Typed'
  BY DEF IInv
<1>1. \A l \in Label : SameView(l)
  <2>1. \A l \in Label : obj'[l] = obj[l] \/ (Is(l, "plug") /\ obj'[l].kind = "plug")
    <3>1. CASE Regenerate
      BY <3>1 DEF Regenerate
    <3>2. CASE ReceiveAll
      <4>1. \A l \in Plugs : obj[l] \in PlugState
        BY <1>0, KindFacts DEF Plugs
      <4> QED
        BY <3>2, <4>1 DEF ReceiveAll, Plugs, PlugState
    <3>3. CASE \E p \in PlugLabel : Receive(p)
      <4>1. PICK p \in Plugs : obj' = [obj EXCEPT ![p].out = @ \cup ({at} \cap Registered)]
        BY <3>3 DEF Receive
      <4>2. obj[p] \in PlugState
        BY <1>0, KindFacts DEF Plugs
      <4> QED
        BY <1>0, <4>1, <4>2 DEF Typed, Plugs, PlugState
    <3> QED
      BY <3>1, <3>2, <3>3
  <2> QED
    BY <2>1 DEF SameView, SameId, Is, Gen, HasFD
<1>2. CASE Regenerate
  <2>1. /\ Command /\ at # ListenerLabel /\ slotted' = slotted /\ regen_pollfds' = TRUE
        /\ UNCHANGED <<deferred_removes, controlSocketLabel>>
    BY <1>2, LabelFacts DEF Regenerate, Command, Unchanged
  <2> QED
    BY <1>0, <1>1, <2>1, RemoveNone, ReconfigureStep DEF SameView
<1>3. CASE ~Regenerate
  <2>1. /\ Command /\ slotted' = slotted
        /\ UNCHANGED <<regen_pollfds, deferred_removes, controlSocketLabel>>
    BY <1>3 DEF ReceiveAll, Receive, Unchanged
  <2> QED
    BY <1>0, <1>1, <2>1, StutterStep
<1> QED
  BY <1>2, <1>3

\* "rawFileOff".
LEMMA RawFileOffStep ==
    ASSUME IInv, IInv', NEW d \in FileDev, RawFileOff(d)
    PROVE  [Poll!Next]_Poll!vars
<1>0. Typed /\ Typed' /\ Is(d, "dev") /\ d \in Label /\ obj[d] \in DevState
      /\ FileOf[d] \in ClientLabel
  BY KindFacts, LabelFacts DEF IInv, RawFileOff, Devs
<1>1. \A l \in Label : SameView(l)
  <2> DEFINE o == [obj[d] EXCEPT !.rec = "none"]
  <2>1. obj' = [obj EXCEPT ![d] = o]
    BY DEF RawFileOff
  <2>2. /\ o.kind = obj[d].kind /\ o.gen = obj[d].gen /\ o.hw = obj[d].hw
        /\ o.fds = obj[d].fds /\ o.should = obj[d].should /\ o.kind = "dev"
    BY <1>0 DEF DevState
  <2> HIDE DEF o
  <2>3. HasFD(d, o) <=> HasFD(d, obj[d])
    BY <2>2 DEF HasFD
  <2> QED
    BY <1>0, <2>1, <2>2, <2>3, OneObject
<1>2. /\ Command /\ Remove(FileOf[d]) /\ slotted' = slotted
      /\ regen_pollfds' = regen_pollfds
  BY DEF RawFileOff
<1>3. CASE FileOf[d] \in Registered
  <2>1. UNCHANGED <<pollablesBar, fdBar, slotBar>>
    BY <1>0, <1>1, <1>2, SameBars
  <2>2. UNCHANGED <<pc, at, doing_poll, runningBar>> /\ pc = "handler"
    <3>1. /\ pc = "handler" /\ UNCHANGED <<pc, at, doing_poll>> /\ at \in Label
      BY <1>0, <1>2, HandlerFacts
    <3> QED
      BY <1>0, <1>1, <3>1, SameRunning DEF SameView
  <2>3. Poll!Remove({FileOf[d]})
    <3>1. {FileOf[d]} \cap Registered = {FileOf[d]}
      BY <1>3
    <3> QED
      BY <1>0, <1>2, <3>1, RemoveBars
  <2>4. at \in ConnLabels /\ FileOf[d] \in Poll!Clients
    BY <1>0, <1>2, <1>3, BarFacts DEF Command
  <2>5. Poll!RemoveClient(FileOf[d])
    BY <1>2, <2>1, <2>2, <2>3, <2>4, PollLabels
       DEF Poll!RemoveClient, Poll!InCommand, Poll!InHandler, Poll!registry, Poll!control
  <2> QED
    BY <1>0, <2>5 DEF Poll!Next
<1>4. CASE FileOf[d] \notin Registered
  <2>1. UNCHANGED <<deferred_removes, controlSocketLabel>>
    BY <1>2, <1>4 DEF Remove
  <2> QED
    BY <1>0, <1>1, <1>2, <2>1, StutterStep
<1> QED
  BY <1>3, <1>4

\* A writer opens a file, or closes or forgets it.
LEMMA FileObject ==
    ASSUME Typed, NEW w \in FileLabel, NEW b \in BOOLEAN, Is(w, "file"),
           obj' = [obj EXCEPT ![w] = File(b)]
    PROVE  /\ \A m \in Label : SameId(m)
           /\ \A m \in Label \ {w} : SameView(m)
<1>1. w \in Label /\ w \notin DevLabel
  BY LabelFacts
<1>2. File(b).kind = obj[w].kind /\ ~Is(w, "dev")
  BY <1>1 DEF File, Is
<1> QED
  BY <1>1, <1>2, OneObject

\* A file that is complete.
LEMMA FileDoneStep ==
    ASSUME IInv, IInv', FileDone
    PROVE  Poll!Next
<1>0. Typed /\ Typed' /\ at \in Label
  BY DEF IInv, FileDone, Event, Typed
<1>1. at \in FileLabel /\ Is(at, "file")
  BY <1>0, KindFacts DEF FileDone
<1>2. \A m \in Label : SameId(m) /\ (m \in Label \ ClientLabel => SameView(m))
  BY <1>0, <1>1, FileObject, LabelFacts DEF FileDone
<1>3. /\ Event /\ at # ListenerLabel /\ slotted' = slotted /\ regen_pollfds' = TRUE
      /\ UNCHANGED <<deferred_removes, controlSocketLabel>>
  BY <1>1, LabelFacts DEF FileDone, Unchanged
<1> QED
  BY <1>0, <1>2, <1>3, RemoveNone, ReconfigureStep

\* Data from a device.
LEMMA DevDataStep ==
    ASSUME IInv, IInv', DevData
    PROVE  [Poll!Next]_Poll!vars
<1>0. Typed /\ Typed'
  BY DEF IInv
<1>1. /\ Is(at, "dev") /\ at \in DevLabel /\ at \in Label
      /\ obj[at] \in DevState /\ at # ListenerLabel
  BY <1>0, KindFacts, LabelFacts DEF DevData, Devs
<1> DEFINE w == FileOf[at]
           o == Pruned(obj[at])
<1>2. /\ o.kind = obj[at].kind /\ o.gen = obj[at].gen
      /\ o.rec = "live" <=> obj[at].rec = "live"
      /\ HasFD(at, o) <=> HasFD(at, obj[at])
  <2>1. o \in DevState
    BY <1>1, PrunedFacts
  <2> QED
    BY <1>1, <2>1, PrunedFacts DEF DevState
<1>3. Event /\ slotted' = slotted
  BY DEF DevData
<1>4. CASE obj' = [obj EXCEPT ![at] = o]
  <2> HIDE DEF o
  <2>1. \A m \in Label : SameView(m)
    BY <1>0, <1>1, <1>2, <1>4, OneObject
  <2>2. CASE UNCHANGED <<deferred_removes, regen_pollfds, controlSocketLabel>>
    BY <1>0, <1>3, <2>1, <2>2, StutterStep
  <2>3. CASE o.rec = "live" /\ Remove(w) /\ regen_pollfds' = TRUE
    <3>1. w \in ClientLabel
      BY <1>1, <1>2, <2>3, LabelFacts DEF IInv, RecordersAgree
    <3>2. {w} \cap Registered \in SUBSET (Registered \cap ClientLabel)
      BY <3>1
    <3>3. Poll!Remove({w} \cap Registered)
      BY <1>0, <2>3, RemoveBars
    <3> HIDE DEF w
    <3> QED
      BY <1>0, <1>1, <1>3, <2>1, <2>3, <3>2, <3>3, ReconfigureStep DEF SameView
  <2>4. CASE o.rec = "live" /\ UNCHANGED <<deferred_removes, controlSocketLabel>> /\ regen_pollfds' = TRUE
    BY <1>0, <1>1, <1>3, <2>1, <2>4, RemoveNone, ReconfigureStep DEF SameView
  <2> QED
    BY <2>2, <2>3, <2>4 DEF DevData, o
<1>5. CASE /\ o.rec = "live"
           /\ obj' = [obj EXCEPT ![at] = o, ![w] = File(TRUE)]
           /\ regen_pollfds' = TRUE
           /\ UNCHANGED <<deferred_removes, controlSocketLabel>>
  <2>1. w \in FileLabel /\ w \in Label /\ Is(w, "file") /\ w # at
    BY <1>1, <1>2, <1>5, LabelFacts DEF IInv, RecordersAgree
  <2> HIDE DEF o, w
  <2>2. /\ obj'[at] = o /\ obj'[w] = File(TRUE)
        /\ \A m \in Label \ {at, w} : obj'[m] = obj[m]
    BY <1>0, <1>1, <1>5, <2>1 DEF Typed
  <2>3. \A m \in Label : SameId(m)
    BY <1>1, <1>2, <2>1, <2>2 DEF SameId, Is, Gen, File
  <2>4. \A m \in Label \ ClientLabel : SameView(m)
    BY <1>1, <2>1, <2>2, <2>3, LabelFacts DEF SameView
  <2> QED
    BY <1>0, <1>1, <1>3, <1>5, <2>3, <2>4, RemoveNone, ReconfigureStep
<1> QED
  BY <1>4, <1>5 DEF DevData

\* A command constructs an object, and has what its predecessor lists removed.
LEMMA ConstructStep ==
    ASSUME IInv, Typed', Command, NEW l \in ClientLabel, ~Is(l, "none")',
           Is(l, "none") \/ Gen(l)' # Gen(l),
           \A m \in Label \ {l} : SameView(m),
           slotted' = slotted \ {Id(l)'},
           regen_pollfds' = TRUE, controlSocketLabel' = controlSocketLabel,
           NEW cascade \in SUBSET (IF l \in Registered THEN Registered \cap ClientLabel ELSE {}),
           deferred_removes' = deferred_removes \cup cascade
    PROVE  Poll!Next
<1>0. Typed /\ l \in Label /\ l \notin ConnLabels /\ l # ListenerLabel
  BY LabelFacts DEF IInv
<1> DEFINE o == Id(l)'
           f == IF HasFD(l, obj'[l]) THEN o ELSE NoId
<1>1. /\ o \in Ids /\ o \notin Poll!Live /\ o \notin Poll!Open
      /\ pollablesBar' = [pollablesBar EXCEPT ![l] = o]
      /\ fdBar' = [Poll!Closed(fdBar, {pollablesBar[l]}) EXCEPT ![o] = f]
      /\ slotBar' = [slotBar EXCEPT ![o] = NoId]
  BY <1>0, ConstructBars
<1>2. f \in (((FileLabel \X {0}) \cup (DevLabel \X {0, 1})) \ Poll!Open) \cup {NoId}
  <2>1. HasFD(l, obj'[l]) => l \notin PlugLabel
    BY <1>0, HasFDFacts DEF Typed
  <2>2. o = <<l, Gen(l)'>>
    BY DEF Id
  <2>3. l \in DevLabel \/ Gen(l)' = 0
    BY <1>1, <2>2, LabelFacts DEF Ids
  <2>4. Gen(l)' \in {0, 1}
    BY <1>1, <2>2, IdFacts
  <2> QED
    BY <1>1, <2>1, <2>2, <2>3, <2>4, LabelFacts
<1>3. UNCHANGED <<pc, at, runningBar>> /\ pc = "handler" /\ at \in ConnLabels
      /\ UNCHANGED doing_poll
  <2>1. /\ pc = "handler" /\ UNCHANGED <<pc, at, doing_poll>> /\ at \in Label
        /\ at \in ConnLabels
    BY <1>0, HandlerFacts DEF Command
  <2> QED
    BY <1>0, <2>1, SameRunning DEF SameView
<1>4. cascade \in SUBSET (IF l \in Poll!Registered THEN Poll!Clients ELSE {})
  BY <1>0, BarFacts
<1>5. Poll!Construct(l, o)
  <2> HIDE DEF o, f
  <2> QED
    BY <1>1, <1>2, <1>3, <1>4, PollLabels
       DEF Poll!Construct, Poll!InCommand, Poll!InHandler, Poll!control
<1> QED
  BY <1>1, <1>5 DEF Poll!Next

\* "open".
LEMMA OpenDevStep ==
    ASSUME IInv, IInv', NEW l \in DevLabel, OpenDev(l)
    PROVE  Poll!Next
<1>0. Typed /\ Typed' /\ Command /\ l \in Label /\ l \in ClientLabel
  BY LabelFacts DEF IInv, OpenDev
<1> DEFINE gen == IF Is(l, "dev") THEN 1 - Gen(l) ELSE 0
<1>1. PICK o \in OpenOutcome(l) : obj' = [Destroy({l}) EXCEPT ![l] = Dev(gen, o)]
  BY DEF OpenDev
<1>2. /\ deferred_removes' = deferred_removes \cup Privates(l)
      /\ regen_pollfds' = TRUE /\ slotted' = slotted \ {<<l, gen>>}
      /\ controlSocketLabel' = controlSocketLabel
  BY DEF OpenDev
<1>3. gen \in {0, 1} /\ (Is(l, "none") \/ gen # Gen(l))
  BY <1>0, KindFacts DEF Gen, DevState
<1> HIDE DEF gen
<1>4. obj'[l] = Dev(gen, o) /\ \A m \in Label \ {l} : obj'[m] = Destroy({l})[m]
  <2>1. Destroy({l}) = [m \in Label |-> Destroy({l})[m]]
    BY DEF Destroy
  <2> QED
    BY <1>0, <1>1, <2>1
<1>5. ~Is(l, "none")' /\ Gen(l)' = gen /\ Id(l)' = <<l, gen>>
  BY <1>4 DEF Is, Gen, Id, Dev
<1>6. ASSUME NEW m \in Label \ {l}
      PROVE  SameView(m)
  <2>1. /\ obj'[m].kind = obj[m].kind
        /\ HasFD(m, obj'[m]) <=> HasFD(m, obj[m])
        /\ Is(m, "dev") => obj'[m].gen = obj[m].gen
    BY <1>0, <1>4, DestroyFacts
  <2> QED
    BY <2>1 DEF SameView, SameId, Is, Gen
<1>7. Privates(l) \in SUBSET (IF l \in Registered THEN Registered \cap ClientLabel ELSE {})
  <2>1. Privates(l) \subseteq Registered \cap ClientLabel
    BY <1>0, PrivatesFacts, LabelFacts
  <2>2. l \notin Registered => Privates(l) = {}
    BY <1>0 DEF Privates, Registered, Is
  <2> QED
    BY <2>1, <2>2
<1> QED
  BY <1>0, <1>2, <1>3, <1>5, <1>6, <1>7, ConstructStep

\* "attach".
LEMMA AttachStep ==
    ASSUME IInv, IInv', NEW p \in PlugLabel, NEW d \in DevLabel,
           Attach(p, d) \/ AttachFails(p, d)
    PROVE  Poll!Next
<1>0. /\ Typed /\ Typed' /\ Command /\ p \in Label /\ p \in ClientLabel
      /\ p \notin Registered /\ Is(p, "none") /\ d \in Label /\ d # p
      /\ Is(d, "dev") /\ obj[d] \in DevState
      /\ deferred_removes' = deferred_removes /\ regen_pollfds' = TRUE
      /\ slotted' = slotted \ {<<p, 0>>} /\ controlSocketLabel' = controlSocketLabel
  BY LabelFacts, KindFacts DEF IInv, Attach, AttachFails, Registered, Devs
<1>1. PICK o, e : /\ obj' = [obj EXCEPT ![p] = o, ![d] = e]
                  /\ o.kind \in {"plug", "dangling"}
                  /\ e.kind = "dev" /\ e.gen = obj[d].gen
                  /\ HasFD(d, e) <=> HasFD(d, obj[d])
  <2>1. CASE AttachFails(p, d)
    <3>1. obj' = [obj EXCEPT ![p] = Dangling, ![d] = obj[d]]
      BY <1>0, <2>1 DEF AttachFails, Typed
    <3>2. Dangling.kind = "dangling" /\ obj[d].kind = "dev"
      BY <1>0 DEF Dangling, Is
    <3> QED
      BY <3>1, <3>2
  <2>2. CASE Attach(p, d)
    <3> DEFINE out == {defaultOutputListener} \cap Registered
               e == [obj[d] EXCEPT !.plugs = @ \cup {p}, !.stale = @ \ {p}]
    <3>1. obj' = [obj EXCEPT ![p] = Plug(d, out), ![d] = e]
      BY <1>0, <2>2 DEF Attach, Typed
    <3>2. Plug(d, out).kind = "plug"
      BY DEF Plug
    <3>3. /\ e.kind = "dev" /\ obj[d].kind = "dev" /\ e.gen = obj[d].gen
          /\ e.hw = obj[d].hw /\ e.fds = obj[d].fds /\ e.should = obj[d].should
      BY <1>0 DEF DevState
    <3> HIDE DEF e, out
    <3>4. HasFD(d, e) <=> HasFD(d, obj[d])
      BY <3>3 DEF HasFD
    <3> QED
      BY <3>1, <3>2, <3>3, <3>4
  <2> QED
    BY <2>1, <2>2
<1>2. obj'[p] = o /\ obj'[d] = e /\ \A m \in Label \ {p, d} : obj'[m] = obj[m]
  BY <1>0, <1>1 DEF Typed
<1>3. ~Is(p, "none")' /\ Gen(p)' = 0 /\ Id(p)' = <<p, 0>>
  BY <1>1, <1>2 DEF Is, Gen, Id
<1>4. \A m \in Label \ {p} : SameView(m)
  <2>1. SameView(d)
    BY <1>0, <1>1, <1>2 DEF SameView, SameId, Is, Gen
  <2>2. \A m \in Label \ {p, d} : SameView(m)
    BY <1>2 DEF SameView, SameId, Is, Gen
  <2> QED
    BY <2>1, <2>2
<1>5. /\ {} \in SUBSET (IF p \in Registered THEN Registered \cap ClientLabel ELSE {})
      /\ deferred_removes' = deferred_removes \cup {}
  BY <1>0
<1> QED
  BY <1>0, <1>3, <1>4, <1>5, ConstructStep

\* "rawFile".
LEMMA RawFileStep ==
    ASSUME IInv, IInv', NEW d \in FileDev, RawFile(d)
    PROVE  Poll!Next
<1> DEFINE w == FileOf[d]
<1>0. /\ Typed /\ Typed' /\ Command /\ d \in Label /\ Is(d, "dev") /\ obj[d] \in DevState
      /\ w \in FileLabel /\ w \in Label /\ w \in ClientLabel /\ w \notin DevLabel /\ d # w
      /\ UNCHANGED <<deferred_removes, controlSocketLabel>>
  BY KindFacts, LabelFacts DEF IInv, RawFile, Devs
<1> HIDE DEF w
<1>1. CASE /\ Is(w, "file") /\ obj' = [obj EXCEPT ![w] = File(FALSE)]
           /\ UNCHANGED <<slotted, regen_pollfds>>
  <2>1. \A m \in Label : SameId(m) /\ (m # w => SameView(m))
    BY <1>0, <1>1, FileObject
  <2>2. UNCHANGED <<pollablesBar, slotBar>>
    BY <1>0, <1>1, <2>1, SameIds, BarsNext DEF slotBar
  <2>3. /\ pc = "handler" /\ UNCHANGED <<pc, at, doing_poll, runningBar>>
        /\ at \in ConnLabels
    <3>1. /\ pc = "handler" /\ UNCHANGED <<pc, at, doing_poll>> /\ at \in Label
          /\ at \in ConnLabels
      BY <1>0, HandlerFacts DEF Command
    <3> QED
      BY <1>0, <2>1, <3>1, SameRunning
  <2>4. w \in Poll!Clients /\ pollablesBar[w] = Id(w)
    BY <1>0, <1>1, BarFacts DEF Registered, Is
  <2>5. fdBar' = Poll!Closed(fdBar, {pollablesBar[w]})
    <3>1. Poll!Closed(fdBar, {Id(w)}) = [x \in Ids |-> IF x \in {Id(w)} THEN NoId ELSE fdBar[x]]
      BY DEF Poll!Closed
    <3>2. ASSUME NEW x \in Ids
          PROVE  fdBar'[x] = IF x = Id(w) THEN NoId ELSE fdBar[x]
      <4>1. x[1] \in Label
        BY IdFacts
      <4>2. CASE x[1] = w
        <5>1. ~HasFD(w, obj'[w])
          BY <1>0, <1>1 DEF HasFD, File, Typed
        <5>2. fdBar'[x] = NoId
          BY <4>2, <5>1, BarsNext
        <5>3. x # Id(w) => fdBar[x] = NoId
          BY <4>2 DEF fdBar, OpenFD
        <5> QED
          BY <5>2, <5>3
      <4>3. CASE x[1] # w
        BY <1>0, <2>1, <4>1, <4>3, BarsNext, IdOf DEF SameView, SameId, fdBar, OpenFD, Id
      <4> QED
        BY <4>2, <4>3
    <3>3. fdBar' = [x \in Ids |-> fdBar'[x]]
      BY BarsNext
    <3> QED
      BY <2>4, <3>1, <3>2, <3>3
  <2>6. Poll!DropFD(w)
    BY <1>0, <1>1, <2>2, <2>3, <2>4, <2>5, PollLabels
       DEF Poll!DropFD, Poll!InCommand, Poll!InHandler, Poll!control
  <2> QED
    BY <1>0, <2>6 DEF Poll!Next
<1>2. CASE /\ ~Is(w, "file")
           /\ obj' = [obj EXCEPT ![w] = File(FALSE), ![d].rec = "live"]
           /\ slotted' = slotted \ {<<w, 0>>} /\ regen_pollfds' = TRUE
  <2> DEFINE o == [obj[d] EXCEPT !.rec = "live"]
  <2>1. /\ o.kind = "dev" /\ obj[d].kind = "dev" /\ o.gen = obj[d].gen
        /\ o.hw = obj[d].hw /\ o.fds = obj[d].fds /\ o.should = obj[d].should
    BY <1>0 DEF DevState
  <2>2. obj' = [obj EXCEPT ![w] = File(FALSE), ![d] = o]
    BY <1>0, <1>2 DEF Typed
  <2> HIDE DEF o
  <2>3. HasFD(d, o) <=> HasFD(d, obj[d])
    BY <2>1 DEF HasFD
  <2>4. obj'[w] = File(FALSE) /\ obj'[d] = o /\ \A m \in Label \ {w, d} : obj'[m] = obj[m]
    BY <1>0, <2>2 DEF Typed
  <2>5. ~Is(w, "none")' /\ Gen(w)' = 0 /\ Id(w)' = <<w, 0>>
    BY <2>4 DEF Is, Gen, Id, File
  <2>6. \A m \in Label \ {w} : SameView(m)
    <3>1. SameView(d)
      BY <2>1, <2>3, <2>4 DEF SameView, SameId, Is, Gen
    <3>2. \A m \in Label \ {w, d} : SameView(m)
      BY <2>4 DEF SameView, SameId, Is, Gen
    <3> QED
      BY <3>1, <3>2
  <2>7. Is(w, "none")
    BY <1>0, <1>2, KindFacts
  <2>8. /\ {} \in SUBSET (IF w \in Registered THEN Registered \cap ClientLabel ELSE {})
        /\ deferred_removes' = deferred_removes \cup {}
    BY <1>0
  <2> QED
    BY <1>0, <1>2, <2>5, <2>6, <2>7, <2>8, ConstructStep
<1> QED
  BY <1>1, <1>2 DEF RawFile, w

\* "detach".
LEMMA DetachStep ==
    ASSUME IInv, IInv', NEW k \in Label, Detach(k)
    PROVE  Poll!Next
<1>0. /\ Typed /\ Typed' /\ Command /\ k \in Registered
      /\ DetachAny \/ k \in PlugLabel
  BY DEF IInv, Detach
<1>1. /\ obj' = Destroy({k}) /\ slotted' = slotted
      /\ deferred_removes' = deferred_removes \cup Privates(k)
      /\ UNCHANGED <<regen_pollfds, controlSocketLabel>>
  BY DEF Detach
<1>2. /\ pollablesBar' = [l \in Label |-> IF l \in {k} THEN NoId ELSE pollablesBar[l]]
      /\ fdBar' = Poll!Closed(fdBar, {pollablesBar[l] : l \in {k} \cap Registered})
      /\ slotBar' = slotBar
  BY <1>0, <1>1, DestroyBars
<1>3. pollablesBar' = [pollablesBar EXCEPT ![k] = NoId]
  BY <1>0, <1>2, BarFacts
<1>4. fdBar' = Poll!Closed(fdBar, {pollablesBar[k]})
  <2>1. {pollablesBar[l] : l \in {k} \cap Registered} = {pollablesBar[k]}
    BY <1>0
  <2> QED
    BY <1>2, <2>1
<1>5. \E cascade \in SUBSET (IF DetachAny THEN Poll!Clients ELSE {}) :
         deferred_removes' = deferred_removes \cup cascade
  <2>1. CASE DetachAny
    <3>1. Privates(k) \subseteq Poll!Clients
      BY <1>0, PrivatesFacts, BarFacts, LabelFacts
    <3> QED
      BY <1>1, <2>1, <3>1
  <2>2. CASE ~DetachAny
    <3>1. ~Is(k, "dev")
      BY <1>0, <2>2, KindFacts, LabelFacts
    <3>2. Privates(k) = {}
      BY <3>1 DEF Privates
    <3> QED
      BY <1>1, <2>2, <3>2
  <2> QED
    BY <2>1, <2>2
<1>6. DetachAny \/ Poll!PluginLike(k)
  <2> SUFFICES ASSUME ~DetachAny PROVE Poll!PluginLike(k)
    OBVIOUS
  <2>0. k \in PlugLabel /\ k \in ClientLabel /\ k \notin DevLabel
    BY <1>0, LabelFacts
  <2>1. pollablesBar[k] = Id(k) /\ Id(k) = <<k, 0>> /\ Id(k) \in Ids /\ k \in Poll!Clients
    BY <1>0, <2>0, BarFacts, IdOf DEF Registered
  <2>2. ~HasFD(k, obj[k])
    BY <1>0, <2>0, FdFacts
  <2>3. fdBar[Id(k)] = NoId
    BY <1>0, <2>1, <2>2, FdFacts
  <2>4. slotBar[Id(k)] = NoId
    BY <1>0, <2>0, <2>1, SlotFacts DEF IInv, PlugsUnslotted
  <2> QED
    BY <2>1, <2>3, <2>4 DEF Poll!PluginLike
<1>7. /\ pc = "handler" /\ UNCHANGED <<pc, at, doing_poll, runningBar>>
      /\ at \in ConnLabels
  <2>1. /\ pc = "handler" /\ UNCHANGED <<pc, at, doing_poll>> /\ at \in Label
        /\ at \in ConnLabels
    BY <1>0, HandlerFacts DEF Command
  <2>2. Gen(at) = 0 /\ Gen(at)' = 0
    <3>1. ~Is(at, "dev") /\ obj'[at] \in StateOf(at)
      BY <1>0, <2>1, KindFacts, LabelFacts DEF Typed
    <3>2. obj'[at].kind # "dev"
      BY <2>1, <3>1, StateFacts, LabelFacts
    <3> QED
      BY <2>1, <3>1, <3>2 DEF Gen, Is
  <2> QED
    BY <2>1, <2>2, BarsNext DEF runningBar, Id
<1>8. k \in Poll!Registered /\ k \in Poll!Label
  BY <1>0, BarFacts, PollLabels
<1>9. Poll!Erase(k)
  BY <1>1, <1>2, <1>3, <1>4, <1>5, <1>6, <1>7, <1>8, PollLabels
     DEF Poll!Erase, Poll!InCommand, Poll!InHandler, Poll!control
<1> QED
  BY <1>8, <1>9 DEF Poll!Next

\* Every step of the host is a step of Pollable, or leaves what it speaks of alone.
LEMMA StepRefines == IInv /\ IInv' /\ [Next]_vars => [Poll!Next]_Poll!vars
<1> SUFFICES ASSUME IInv, IInv', [Next]_vars PROVE [Poll!Next]_Poll!vars
  OBVIOUS
<1>1. CASE \/ BeginPoll \/ PollFails \/ HandlerReturn \/ Throw
           \/ \E l \in Label : Dispatch(l)
  BY <1>1, LoopStep
<1>2. CASE UNCHANGED vars
  BY <1>2 DEF vars, Poll!vars, pollablesBar, fdBar, slotBar, runningBar, OpenFD, Id, Gen, Is
<1>3. CASE EndPoll
  BY <1>3, EndPollStep
<1>4. CASE Hangup \/ \E l \in ConnLabels : Accept(l)
  BY <1>4, ConnStep
<1>5. CASE \E l \in DevLabel : OpenDev(l)
  BY <1>5, OpenDevStep
<1>6. CASE \/ \E l \in DevLabel : CloseDev(l) \/ StartDev(l) \/ StopDev(l)
           \/ Stall
  BY <1>6, DeviceStep
<1>7. CASE StartAll \/ StopAll
  BY <1>7, AllStep
<1>8. CASE Regenerate \/ ReceiveAll \/ \E p \in PlugLabel : Receive(p)
  BY <1>8, ReceiveStep
<1>9. CASE \E p \in PlugLabel, d \in DevLabel : Attach(p, d) \/ AttachFails(p, d)
  BY <1>9, AttachStep
<1>10. CASE \E l \in Label : Detach(l)
  BY <1>10, DetachStep
<1>11. CASE \E d \in FileDev : RawFile(d) \/ RawFileOff(d)
  BY <1>11, RawFileStep, RawFileOffStep
<1>12. CASE DevData \/ FileDone
  BY <1>12, DevDataStep, FileDoneStep
<1> QED
  BY <1>1, <1>2, <1>3, <1>4, <1>5, <1>6, <1>7, <1>8, <1>9, <1>10, <1>11, <1>12
     DEF Next, Exited

\* Whatever clients ask for, devices deliver and files do, the server implements the
\* rounds that module Pollable describes.
THEOREM HostImplementsPollable == Spec => RefinesPollable
<1>1. Init => Poll!Init
  BY InitBars
<1>2. IInv /\ IInv' /\ [Next]_vars => [Poll!Next]_Poll!vars
  BY StepRefines
<1> QED
  BY <1>1, <1>2, Invariance, PTL DEF Spec, RefinesPollable

-----------------------------------------------------------------------------
(* What a command constructs is kept, if a read holds one command *)

\* Until a regeneration is asked for, and when a command is about to run, only files
\* are due for removal.
FilesWait ==
    ~regen_pollfds \/ (pc = "handler" /\ batch = 0) =>
        \A l \in deferred_removes : Is(l, "file")

\* The object under l stays, or goes.
NotMade(l) ==
    /\ obj'[l].kind \in {"none", obj[l].kind}
    /\ Is(l, "dev") /\ obj'[l].kind = "dev" => obj'[l].gen = obj[l].gen

\* Commands that construct nothing, and the loop.
LEMMA NoneMade ==
    ASSUME IInv, IInv', [Next]_vars,
           ~(\E l \in ConnLabels : Accept(l)),
           ~(\E l \in DevLabel : OpenDev(l)),
           ~(\E p \in PlugLabel, d \in DevLabel : Attach(p, d) \/ AttachFails(p, d)),
           ~(\E d \in FileDev : RawFile(d) /\ ~Is(FileOf[d], "file"))
    PROVE  \A l \in Label : NotMade(l)
<1>0. Typed /\ Typed'
  BY DEF IInv
<1>1. CASE \/ BeginPoll \/ PollFails \/ HandlerReturn \/ Throw \/ Hangup \/ Regenerate
           \/ \E l \in Label : Dispatch(l)
           \/ UNCHANGED vars
  <2>1. obj' = obj
    BY <1>1 DEF BeginPoll, PollFails, HandlerReturn, Throw, Hangup, Regenerate, Dispatch, vars
  <2> QED
    BY <2>1 DEF NotMade
<1>2. CASE EndPoll \/ \E l \in Label : Detach(l)
  <2>1. PICK D : obj' = Destroy(D)
    BY <1>2 DEF EndPoll, Detach
  <2> SUFFICES ASSUME NEW l \in Label PROVE NotMade(l)
    OBVIOUS
  <2>2. CASE l \in D
    <3>1. obj'[l] = Nothing
      BY <1>0, <2>1, <2>2, DestroyFacts
    <3> QED
      BY <3>1 DEF NotMade, Nothing
  <2>3. CASE l \notin D
    BY <1>0, <2>1, <2>3, DestroyFacts DEF NotMade, Is
  <2> QED
    BY <2>2, <2>3
<1>3. ASSUME NEW l \in Label, NEW o, obj' = [obj EXCEPT ![l] = o],
             o.kind = obj[l].kind, Is(l, "dev") => o.gen = obj[l].gen
      PROVE  \A m \in Label : NotMade(m)
  BY <1>0, <1>3 DEF NotMade, Typed
<1>4. CASE \/ \E l \in DevLabel : CloseDev(l) \/ StartDev(l) \/ StopDev(l)
           \/ Stall
  <2>0. PICK l \in Devs : \E o \in {Stopped(l, obj[l])} \cup Started(l, obj[l]) :
           obj' = [obj EXCEPT ![l] = o]
    BY <1>4 DEF CloseDev, StartDev, StopDev, Stall
  <2>1. PICK o \in {Stopped(l, obj[l])} \cup Started(l, obj[l]) : obj' = [obj EXCEPT ![l] = o]
    BY <2>0
  <2>2. l \in DevLabel /\ l \in Label /\ obj[l] \in DevState
    BY <1>0, KindFacts DEF Devs
  <2>3. o.kind = obj[l].kind /\ o.gen = obj[l].gen
    BY <2>2, StoppedFacts, StartedFacts DEF DevState
  <2> QED
    BY <1>3, <2>1, <2>2, <2>3
<1>5. CASE StartAll \/ StopAll
  <2>1. \A l \in Label : l \notin Devs => obj'[l] = obj[l]
    BY <1>5 DEF StartAll, StopAll
  <2>2. ASSUME NEW l \in Devs
        PROVE  obj'[l].kind = obj[l].kind /\ obj'[l].gen = obj[l].gen
    <3>1. l \in DevLabel /\ l \in Label /\ obj[l] \in DevState
      BY <1>0, KindFacts DEF Devs
    <3>2. obj'[l] \in {Stopped(l, obj[l])} \cup Started(l, obj[l])
      BY <1>5, <3>1 DEF StartAll, StopAll
    <3> QED
      BY <3>1, <3>2, StoppedFacts, StartedFacts DEF DevState
  <2> QED
    BY <2>1, <2>2 DEF NotMade
<1>6. CASE ReceiveAll \/ \E p \in PlugLabel : Receive(p)
  <2>1. \A l \in Plugs : l \in Label /\ Is(l, "plug") /\ obj[l] \in PlugState
    BY <1>0, KindFacts DEF Plugs
  <2>2. CASE ReceiveAll
    BY <2>1, <2>2 DEF ReceiveAll, NotMade, PlugState, Is
  <2>3. CASE \E p \in PlugLabel : Receive(p)
    <3>1. PICK p \in Plugs : obj' = [obj EXCEPT ![p].out = @ \cup ({at} \cap Registered)]
      BY <2>3 DEF Receive
    <3>2. obj' = [obj EXCEPT ![p] = [obj[p] EXCEPT !.out = @ \cup ({at} \cap Registered)]]
      BY <1>0, <2>1, <3>1 DEF Typed
    <3>3. [obj[p] EXCEPT !.out = @ \cup ({at} \cap Registered)].kind = obj[p].kind /\ ~Is(p, "dev")
      BY <2>1 DEF PlugState, Is
    <3> QED
      BY <1>3, <2>1, <3>2, <3>3
  <2> QED
    BY <1>6, <2>2, <2>3
<1>7. CASE \E d \in FileDev : RawFile(d)
  <2>1. PICK d \in FileDev : RawFile(d)
    BY <1>7
  <2>2. Is(FileOf[d], "file") /\ FileOf[d] \in Label
    BY <2>1, LabelFacts
  <2>3. obj' = [obj EXCEPT ![FileOf[d]] = File(FALSE)]
    BY <2>1, <2>2 DEF RawFile
  <2>4. File(FALSE).kind = obj[FileOf[d]].kind /\ ~Is(FileOf[d], "dev")
    BY <2>2 DEF File, Is
  <2> QED
    BY <1>3, <2>2, <2>3, <2>4
<1>8. CASE \E d \in FileDev : RawFileOff(d)
  <2>1. PICK d \in FileDev : RawFileOff(d)
    BY <1>8
  <2>2. d \in Label /\ obj[d] \in DevState
    BY <1>0, <2>1, KindFacts DEF RawFileOff, Devs
  <2>3. obj' = [obj EXCEPT ![d] = [obj[d] EXCEPT !.rec = "none"]]
    BY <2>1 DEF RawFileOff
  <2>4. /\ [obj[d] EXCEPT !.rec = "none"].kind = obj[d].kind
        /\ [obj[d] EXCEPT !.rec = "none"].gen = obj[d].gen
    BY <2>2 DEF DevState
  <2> QED
    BY <1>3, <2>2, <2>3, <2>4
<1>9. CASE FileDone
  <2>1. at \in Label /\ Is(at, "file") /\ obj' = [obj EXCEPT ![at] = File(FALSE)]
    BY <1>0, <1>9 DEF FileDone, Event, Typed
  <2>2. File(FALSE).kind = obj[at].kind /\ ~Is(at, "dev")
    BY <2>1 DEF File, Is
  <2> QED
    BY <1>3, <2>1, <2>2
<1>10. CASE DevData
  <2> DEFINE o == Pruned(obj[at])
             w == FileOf[at]
  <2>1. at \in Label /\ at \in DevLabel /\ Is(at, "dev") /\ obj[at] \in DevState
    BY <1>0, <1>10, KindFacts DEF DevData, Devs
  <2>2. o.kind = obj[at].kind /\ o.gen = obj[at].gen /\ (o.rec = "live" <=> obj[at].rec = "live")
    BY <2>1, PrunedFacts DEF DevState
  <2>3. CASE obj' = [obj EXCEPT ![at] = o]
    <3> HIDE DEF o
    <3> QED
      BY <1>3, <2>1, <2>2, <2>3
  <2>4. CASE o.rec = "live" /\ obj' = [obj EXCEPT ![at] = o, ![w] = File(TRUE)]
    <3>1. w \in Label /\ Is(w, "file") /\ w # at
      BY <2>1, <2>2, <2>4, LabelFacts DEF IInv, RecordersAgree
    <3> HIDE DEF o, w
    <3>2. /\ obj'[at] = o /\ obj'[w] = File(TRUE)
          /\ \A m \in Label \ {at, w} : obj'[m] = obj[m]
      BY <1>0, <2>1, <2>4, <3>1 DEF Typed
    <3>3. File(TRUE).kind = "file"
      BY DEF File
    <3> QED
      BY <2>2, <3>1, <3>2, <3>3 DEF NotMade, Is
  <2> QED
    BY <1>10, <2>3, <2>4 DEF DevData
<1> QED
  BY <1>1, <1>2, <1>4, <1>5, <1>6, <1>7, <1>8, <1>9, <1>10 DEF Next, Exited

\* What steps add to the removals that wait.
LEMMA FilesWaitNext ==
    ASSUME MaxBatch = 1, ~DetachAny, IInv, IInv', FilesWait, [Next]_vars
    PROVE  FilesWait'
<1>0. Typed /\ Typed'
  BY DEF IInv
<1>2. CASE BeginPoll \/ PollFails \/ EndPoll \/ Hangup
  BY <1>2 DEF BeginPoll, PollFails, EndPoll, Hangup, IInv, RoundsOK, FilesWait
<1>3. CASE \/ HandlerReturn \/ Throw \/ UNCHANGED vars
           \/ \E l \in Label : Dispatch(l)
  BY <1>3 DEF HandlerReturn, Throw, Dispatch, vars, FilesWait, Is
<1>4. CASE \E l \in ConnLabels : Accept(l)
  <2>1. PICK l \in ConnLabels : Accept(l)
    BY <1>4
  <2>2. /\ l \notin Registered /\ l \in Label
        /\ obj' = [obj EXCEPT ![l] = Conn] /\ regen_pollfds' = TRUE
        /\ UNCHANGED <<deferred_removes, pc, batch>>
    BY <2>1, LabelFacts DEF Accept, round
  <2>3. \A m \in deferred_removes : m \in Label /\ (Is(m, "file") => m # l)
    BY <1>0, <2>2 DEF Typed, Registered, Is
  <2>4. \A m \in deferred_removes : Is(m, "file") => Is(m, "file")'
    BY <1>0, <2>2, <2>3 DEF Typed, Is
  <2> QED
    BY <2>2, <2>4 DEF FilesWait
<1>5. ASSUME Command \/ Event, regen_pollfds' = TRUE
      PROVE  FilesWait'
  BY <1>0, <1>5, HandlerFacts DEF FilesWait
<1>6. ASSUME Command \/ Event, regen_pollfds' = regen_pollfds,
             \A l \in Label : Is(l, "file") => obj'[l].kind = "file",
             deferred_removes' \subseteq deferred_removes \cup {l \in Label : Is(l, "file")}
      PROVE  FilesWait'
  <2>1. batch' # 0 /\ deferred_removes \subseteq Label
    BY <1>0, <1>6, HandlerFacts DEF Typed
  <2> SUFFICES ASSUME ~regen_pollfds, NEW l \in deferred_removes' PROVE obj'[l].kind = "file"
    BY <1>6, <2>1 DEF FilesWait, Is
  <2>2. l \in Label /\ Is(l, "file")
    BY <1>6, <2>1 DEF FilesWait
  <2> QED
    BY <1>6, <2>2
<1>7. CASE \/ \E d \in DevLabel : OpenDev(d) \/ CloseDev(d) \/ StartDev(d) \/ StopDev(d)
           \/ \E p \in PlugLabel, d \in DevLabel : Attach(p, d) \/ AttachFails(p, d)
           \/ StartAll \/ StopAll \/ Regenerate \/ Stall \/ FileDone
  BY <1>5, <1>7 DEF OpenDev, CloseDev, StartDev, StopDev, Attach, AttachFails, StartAll,
     StopAll, Regenerate, Stall, FileDone
<1>8. CASE \E l \in Label : Detach(l)
  <2>1. PICK k \in Label : Detach(k)
    BY <1>8
  <2>2. k \in PlugLabel /\ ~Is(k, "dev")
    BY <1>0, <2>1, KindFacts, LabelFacts DEF Detach
  <2>3. ASSUME NEW l \in Label, Is(l, "file") PROVE obj'[l].kind = "file"
    <3>1. l \notin {k}
      BY <1>0, <2>2, <2>3, KindFacts, LabelFacts
    <3> QED
      BY <1>0, <2>1, <2>3, <3>1, DestroyFacts DEF Detach, Is
  <2> QED
    BY <1>6, <2>1, <2>2, <2>3 DEF Detach, Privates
<1>9. CASE ReceiveAll \/ \E p \in PlugLabel : Receive(p)
  <2>1. ASSUME NEW l \in Label, Is(l, "file") PROVE obj'[l] = obj[l]
    BY <1>0, <1>9, <2>1 DEF ReceiveAll, Receive, Typed, Plugs, Is
  <2> QED
    BY <1>6, <1>9, <2>1 DEF ReceiveAll, Receive, Unchanged, Is
<1>10. CASE \E d \in FileDev : RawFile(d)
  <2>1. PICK d \in FileDev : RawFile(d)
    BY <1>10
  <2>2. CASE regen_pollfds' = TRUE
    BY <1>5, <2>1, <2>2 DEF RawFile
  <2>3. CASE regen_pollfds' = regen_pollfds /\ obj' = [obj EXCEPT ![FileOf[d]] = File(FALSE)]
    <3>1. \A l \in Label : obj'[l] = obj[l] \/ obj'[l] = File(FALSE)
      BY <1>0, <2>3 DEF Typed
    <3>2. File(FALSE).kind = "file"
      BY DEF File
    <3> QED
      BY <1>6, <2>1, <2>3, <3>1, <3>2 DEF RawFile, Is
  <2> QED
    BY <2>1, <2>2, <2>3 DEF RawFile
<1>11. CASE \E d \in FileDev : RawFileOff(d)
  <2>1. PICK d \in FileDev : RawFileOff(d)
    BY <1>11
  <2>2. \A l \in Label : Is(l, "file") => obj'[l] = obj[l]
    BY <1>0, <2>1 DEF RawFileOff, Devs, Is, Typed
  <2>3. {FileOf[d]} \cap Registered \subseteq {l \in Label : Is(l, "file")}
    <3>1. FileOf[d] \in FileLabel /\ FileOf[d] \in Label
      BY LabelFacts
    <3> QED
      BY <1>0, <3>1, KindFacts DEF Registered
  <2> QED
    BY <1>6, <2>1, <2>2, <2>3 DEF RawFileOff, Remove, Is
<1>12. CASE DevData
  <2>1. CASE regen_pollfds' = TRUE
    BY <1>5, <1>12, <2>1 DEF DevData
  <2>2. CASE /\ obj' = [obj EXCEPT ![at] = Pruned(obj[at])]
             /\ UNCHANGED <<deferred_removes, regen_pollfds>>
    <3>1. \A l \in Label : Is(l, "file") => obj'[l] = obj[l]
      BY <1>0, <1>12, <2>2 DEF DevData, Devs, Is, Typed
    <3> QED
      BY <1>6, <1>12, <2>2, <3>1 DEF DevData, Is
  <2> QED
    BY <1>12, <2>1, <2>2 DEF DevData
<1> QED
  BY <1>2, <1>3, <1>4, <1>7, <1>8, <1>9, <1>10, <1>11, <1>12 DEF Next, Exited

\* What a command constructs is not due for removal.
LEMMA ConstructedStays ==
    ASSUME MaxBatch = 1, ~DetachAny, IInv, IInv', FilesWait, [Next]_vars,
           NEW l \in ClientLabel, ~Is(l, "none")', Is(l, "none") \/ Id(l)' # Id(l)
    PROVE  l \notin deferred_removes'
<1>0. Typed /\ Typed' /\ l \in Label /\ l \notin ConnLabels
  BY LabelFacts DEF IInv
<1>1. ~NotMade(l)
  BY DEF NotMade, Is, Id, Gen
<1>2. ASSUME Command, Is(l, "none") \/ l \in DevLabel
      PROVE  l \notin deferred_removes
  <2>1. pc = "handler" /\ batch = 0
    BY <1>0, <1>2 DEF Command, Typed
  <2>2. ~Is(l, "file")
    BY <1>0, <1>2, KindFacts, LabelFacts DEF Is
  <2> QED
    BY <2>1, <2>2 DEF FilesWait
<1>3. CASE \E d \in DevLabel : OpenDev(d)
  <2>1. PICK d \in DevLabel : OpenDev(d)
    BY <1>3
  <2>2. d \in Label
    BY LabelFacts
  <2>3. CASE l = d
    <3>1. l \notin Privates(d)
      BY <1>0, <2>3, PrivatesFacts, LabelFacts
    <3> QED
      BY <1>2, <2>1, <2>3, <3>1 DEF OpenDev
  <2>4. CASE l # d
    <3>1. obj'[l] = Destroy({d})[l]
      <4>1. Destroy({d}) = [m \in Label |-> Destroy({d})[m]]
        BY DEF Destroy
      <4>2. PICK g, o : obj' = [Destroy({d}) EXCEPT ![d] = Dev(g, o)]
        BY <2>1 DEF OpenDev
      <4> QED
        BY <1>0, <2>4, <4>1, <4>2
    <3>2. l \notin {d}
      BY <2>4
    <3>3. NotMade(l)
      BY <1>0, <3>1, <3>2, DestroyFacts DEF NotMade, Is
    <3> QED
      BY <1>1, <3>3
  <2> QED
    BY <2>3, <2>4
<1>4. CASE \E p \in PlugLabel, d \in DevLabel : Attach(p, d) \/ AttachFails(p, d)
  <2>1. PICK p \in PlugLabel, d \in DevLabel : Attach(p, d) \/ AttachFails(p, d)
    BY <1>4
  <2>2. /\ Command /\ p \notin Registered /\ deferred_removes' = deferred_removes
        /\ d \in Label /\ obj[d] \in DevState /\ d # p
    BY <1>0, <2>1, KindFacts, LabelFacts DEF Attach, AttachFails, Devs
  <2>3. CASE l = p
    BY <1>0, <1>2, <2>2, <2>3 DEF Registered
  <2>4. CASE l # p
    <3>1. obj'[l] = obj[l] \/ (l = d /\ obj'[l].kind = "dev" /\ obj[l].kind = "dev" /\ obj'[l].gen = obj[l].gen)
      BY <1>0, <2>1, <2>2, <2>4 DEF Attach, AttachFails, Typed, DevState
    <3> QED
      BY <1>1, <3>1 DEF NotMade
  <2> QED
    BY <2>3, <2>4
<1>5. CASE \E d \in FileDev : RawFile(d) /\ ~Is(FileOf[d], "file")
  <2>1. PICK d \in FileDev : RawFile(d) /\ ~Is(FileOf[d], "file")
    BY <1>5
  <2> DEFINE w == FileOf[d]
  <2>2. /\ Command /\ deferred_removes' = deferred_removes
        /\ d \in Label /\ obj[d] \in DevState /\ w \in Label /\ w # d
        /\ Is(w, "none")
        /\ obj' = [obj EXCEPT ![w] = File(FALSE), ![d].rec = "live"]
    <3>1. /\ d \in DevLabel /\ d \in Label /\ Is(d, "dev") /\ w \in FileLabel /\ w \in Label
          /\ w # d
      BY <2>1, LabelFacts DEF RawFile, Devs
    <3>2. obj[d] \in DevState /\ Is(w, "none")
      <4> HIDE DEF w
      <4>1. ~Is(w, "file")
        BY <2>1 DEF w
      <4> QED
        BY <1>0, <3>1, <4>1, KindFacts
    <3>3. /\ Command /\ deferred_removes' = deferred_removes
          /\ obj' = [obj EXCEPT ![w] = File(FALSE), ![d].rec = "live"]
      BY <2>1 DEF RawFile
    <3> QED
      BY <3>1, <3>2, <3>3
  <2> HIDE DEF w
  <2>3. CASE l = w
    BY <1>2, <2>2, <2>3
  <2>4. CASE l # w
    <3>1. obj'[l] = obj[l] \/ (l = d /\ obj'[l].kind = "dev" /\ obj[l].kind = "dev" /\ obj'[l].gen = obj[l].gen)
      BY <1>0, <2>2, <2>4 DEF Typed, DevState
    <3> QED
      BY <1>1, <3>1 DEF NotMade
  <2> QED
    BY <2>3, <2>4
<1>6. CASE \E c \in ConnLabels : Accept(c)
  <2>1. obj'[l] = obj[l]
    BY <1>0, <1>6, LabelFacts DEF Accept, Typed
  <2> QED
    BY <1>1, <2>1 DEF NotMade
<1> QED
  BY <1>0, <1>1, <1>3, <1>4, <1>5, <1>6, NoneMade

\* When the lines of a client come one by one, what a command constructs is not
\* removed at the end of the round for its label's former owner: once a removal waits,
\* a regeneration is due, and the round is over with the handler; only files wait
\* without one, and their labels are free only when they are gone, as long as nothing but
\* plugins is detached.
THEOREM ConstructedStaysKept ==
    ASSUME MaxBatch = 1, ~DetachAny
    PROVE  Spec => ConstructedIsKept
<1>1. Init => FilesWait
  BY DEF Init, FilesWait
<1>2. IInv /\ IInv' /\ FilesWait /\ [Next]_vars => FilesWait'
  BY FilesWaitNext
<1> DEFINE Kept == \A l \in ClientLabel :
                      ~Is(l, "none")' /\ (Is(l, "none") \/ Id(l)' # Id(l))
                          => l \notin deferred_removes'
<1>3. IInv /\ IInv' /\ FilesWait /\ [Next]_vars => [Kept]_vars
  BY ConstructedStays
<1>4. Spec => [][Kept]_vars
  <2> HIDE DEF Kept
  <2> QED
    BY <1>1, <1>2, <1>3, Invariance, PTL DEF Spec
<1> QED
  BY <1>4 DEF ConstructedIsKept

-----------------------------------------------------------------------------
(* What is proved of the rounds holds of the whole server *)

PP == INSTANCE PollableProofs WITH
    SocketFD <- ConnLabels \X {0},
    FdLabel <- [f \in ConnLabels \X {0} |-> f[1]],
    ListenerFD <- <<ListenerLabel, 0>>,
    DeviceFD <- (FileLabel \X {0}) \cup (DevLabel \X {0, 1}),
    Object <- Ids,
    NoObject <- NoId,
    NoFD <- NoId,
    pollables <- pollablesBar,
    fd <- fdBar,
    slot <- slotBar,
    running <- runningBar

\* The host's labels are as Pollable assumes.
LEMMA PollAssumptions ==
    /\ PP!LabelAssumption /\ PP!FdLabelAssumption
    /\ PP!FDAssumption /\ PP!ObjectAssumption /\ PP!DetachAssumption
<1>1. PP!ConnLabel = ConnLabels /\ PP!Label = Label
  <2>1. PP!ConnLabel = ConnLabels
    BY PollLabels DEF PP!ConnLabel
  <2> QED
    BY <2>1 DEF PP!Label, Label
<1>2. PP!LabelAssumption
  BY <1>1, LabelFacts, HostAssumption DEF HostAssumption, PP!LabelAssumption, NoLabel
<1>3. PP!FdLabelAssumption
  BY DEF PP!FdLabelAssumption
<1>4. PP!FDAssumption
  BY LabelFacts DEF PP!FDAssumption, PP!FD, NoId
<1>5. PP!ObjectAssumption
  BY IdFacts, LabelFacts DEF PP!ObjectAssumption
<1>6. PP!DetachAssumption
  BY HostAssumption DEF HostAssumption, PP!DetachAssumption
<1> QED
  BY <1>2, <1>3, <1>4, <1>5, <1>6

\* The two instances say the same of the rounds.
LEMMA SameRounds ==
    /\ PP!Init <=> Poll!Init
    /\ PP!Next <=> Poll!Next
    /\ PP!vars = Poll!vars
BY DEF PP!ConnLabel, Poll!ConnLabel, PP!Label, Poll!Label, PP!FD, Poll!FD,
   PP!Registered, Poll!Registered, PP!Live, Poll!Live, PP!Clients, Poll!Clients,
   PP!ClientObject, Poll!ClientObject, PP!Open, Poll!Open, PP!Polled, Poll!Polled,
   PP!IsNext, Poll!IsNext, PP!Closed, Poll!Closed, PP!InHandler, Poll!InHandler,
   PP!InCommand, Poll!InCommand, PP!registry, Poll!registry, PP!control,
   Poll!control, PP!vars, Poll!vars, PP!BeginPoll, Poll!BeginPoll, PP!PollFails,
   Poll!PollFails, PP!Dispatch, Poll!Dispatch, PP!HandlerReturn, Poll!HandlerReturn,
   PP!EndPoll, Poll!EndPoll, PP!Remove, Poll!Remove, PP!Accept, Poll!Accept,
   PP!Hangup, Poll!Hangup, PP!Construct, Poll!Construct, PP!Erase, Poll!Erase,
   PP!PluginLike, Poll!PluginLike,
   PP!Reconfigure, Poll!Reconfigure, PP!RemoveClient, Poll!RemoveClient, PP!DropFD,
   Poll!DropFD, PP!Throw, Poll!Throw, PP!Exited, Poll!Exited, PP!Loop, Poll!Loop,
   PP!Next, Poll!Next, PP!Init, Poll!Init

\* Between regenerations ::poll is given the open descriptors of registered objects,
\* the object whose handler runs stays registered, and asynchronous messages go to a
\* connection that stays: each whatever commands do to devices, plugins and files, as
\* long as they detach nothing but plugins.
THEOREM HostRoundsSafe ==
    ASSUME ~DetachAny
    PROVE  Spec => [](Poll!SlotsFresh /\ Poll!RunningIsRegistered /\ Poll!ControlIsLive)
<1>1. [Poll!Next]_Poll!vars => [PP!Next]_PP!vars
  BY SameRounds DEF PP!vars, Poll!vars
<1>2. Spec => PP!Spec
  BY <1>1, SameRounds, HostImplementsPollable, PTL DEF RefinesPollable, PP!Spec
<1>3. PP!Spec => []PP!SlotsFresh
  BY PP!SlotsAreFresh, PollAssumptions
<1>4. PP!Spec => []PP!RunningIsRegistered
  BY PP!RunningStaysRegistered, PollAssumptions
<1>5. PP!Spec => []PP!ControlIsLive
  BY PP!ControlStaysLive, PollAssumptions
<1>6. PP!SlotsFresh /\ PP!RunningIsRegistered /\ PP!ControlIsLive
      => Poll!SlotsFresh /\ Poll!RunningIsRegistered /\ Poll!ControlIsLive
  BY DEF PP!SlotsFresh, Poll!SlotsFresh, PP!Live, Poll!Live, PP!Registered, Poll!Registered,
         PP!Label, Poll!Label, PP!ConnLabel, Poll!ConnLabel,
         PP!RunningIsRegistered, Poll!RunningIsRegistered, PP!InHandler, Poll!InHandler,
         PP!ControlIsLive, Poll!ControlIsLive
<1> QED
  BY <1>2, <1>3, <1>4, <1>5, <1>6, PTL

\* A new connection never takes the label of one that is still registered, whatever is
\* detached.
THEOREM HostConnectionsKept == Spec => Poll!ConnNeverReplaced
<1>1. [Poll!Next]_Poll!vars => [PP!Next]_PP!vars
  BY SameRounds DEF PP!vars, Poll!vars
<1>2. Spec => PP!Spec
  BY <1>1, SameRounds, HostImplementsPollable, PTL DEF RefinesPollable, PP!Spec
<1>3. PP!Spec => PP!ConnNeverReplaced
  BY PP!ConnectionsAreNotReplaced, PollAssumptions
<1> DEFINE Kept == \A l \in Poll!ConnLabel :
               pollablesBar[l] # NoId /\ pollablesBar'[l] # NoId
                   => pollablesBar'[l] = pollablesBar[l]
           KeptPP == \A l \in PP!ConnLabel :
               pollablesBar[l] # NoId /\ pollablesBar'[l] # NoId
                   => pollablesBar'[l] = pollablesBar[l]
<1>4. [KeptPP]_PP!vars => [Kept]_Poll!vars
  BY DEF PP!vars, Poll!vars, PP!ConnLabel, Poll!ConnLabel
<1>5. PP!ConnNeverReplaced => [][KeptPP]_PP!vars
  BY DEF PP!ConnNeverReplaced
<1>6. [][Kept]_Poll!vars => Poll!ConnNeverReplaced
  BY DEF Poll!ConnNeverReplaced
<1> HIDE DEF Kept, KeptPP
<1> QED
  BY <1>2, <1>3, <1>4, <1>5, <1>6, PTL

======================================================================
