--------------------------- MODULE PollableProofs ---------------------------
(***************************************************************************)
(* Proofs about the event loop, for any labels, descriptors and objects.   *)
(* Inv is inductive: SlotsFresh needs to know that a destroyed object has  *)
(* no descriptor (DeadClosed), ControlIsLive that a connection's deferred  *)
(* removal finds it registered (DeferredRegistered), and ConnNeverReplaced *)
(* that a registered connection owns the descriptor its label is made of   *)
(* (ConnOwnsFD).  What is Undisturbed is so as long as clients detach      *)
(* nothing but plugins.                                                    *)
(***************************************************************************)
EXTENDS Pollable, TLAPS

Injective ==
    \A l, m \in Label :
        pollables[l] = pollables[m] /\ pollables[l] # NoObject => l = m

DeadClosed == \A o \in Object : fd[o] # NoFD => o \in Live

ConnOwnsFD ==
    \A f \in SocketFD :
        pollables[FdLabel[f]] # NoObject => fd[pollables[FdLabel[f]]] = f

DeferredRegistered ==
    \A l \in ConnLabel : l \in deferred_removes => pollables[l] # NoObject

RunningAt ==
    InHandler => at \in Label /\ running # NoObject /\ pollables[at] = running

Undisturbed == DeferredRegistered /\ RunningAt /\ SlotsFresh /\ ControlIsLive

Inv ==
    /\ TypeOK
    /\ Injective
    /\ DeadClosed
    /\ ConnOwnsFD
    /\ ~DetachAny => Undisturbed

-----------------------------------------------------------------------------
\* Facts about labels that the assumptions give.
LEMMA LabelFacts ==
    /\ ConnLabel \subseteq Label /\ ClientLabel \subseteq Label
    /\ ListenerLabel \in Label
    /\ \A f \in SocketFD : FdLabel[f] \in ConnLabel
    /\ NoLabel \notin ConnLabel
    /\ ListenerLabel \notin ConnLabel
    /\ ClientLabel \cap ConnLabel = {}
    /\ 0 \notin Label
BY LabelAssumption DEF ConnLabel, Label

\* What the registry's derived sets contain.
LEMMA LiveFacts ==
    ASSUME TypeOK
    PROVE  /\ Live \subseteq Object
           /\ \A l \in Label : pollables[l] # NoObject => pollables[l] \in Live
           /\ \A o \in Live : \E l \in Label : pollables[l] = o
           /\ NoObject \notin Live
BY ObjectAssumption DEF TypeOK, Live, Registered

\* The program starts in a state that satisfies the invariant.
LEMMA InitInv == Init => Inv
<1> SUFFICES ASSUME Init PROVE Inv
  OBVIOUS
<1>o. PICK o \in Object :
        /\ pollables = [l \in Label |-> IF l = ListenerLabel THEN o ELSE NoObject]
        /\ fd = [x \in Object |-> IF x = o THEN ListenerFD ELSE NoFD]
        /\ slot = [x \in Object |-> NoFD]
  BY DEF Init
<1>1. TypeOK
  BY <1>o, LabelFacts DEF Init, TypeOK, FD
<1>2. Injective
  BY <1>o DEF Injective
<1>3. DeferredRegistered /\ RunningAt /\ ControlIsLive /\ SlotsFresh
  BY DEF Init, DeferredRegistered, RunningAt, ControlIsLive, SlotsFresh, InHandler
<1>4. DeadClosed
  BY <1>o, LabelFacts, ObjectAssumption DEF DeadClosed, Live, Registered
<1>5. ConnOwnsFD
  <2> SUFFICES ASSUME NEW f \in SocketFD PROVE pollables[FdLabel[f]] = NoObject
    BY DEF ConnOwnsFD
  <2>1. FdLabel[f] \in Label /\ FdLabel[f] # ListenerLabel
    BY LabelFacts
  <2> QED
    BY <1>o, <2>1
<1> QED
  BY <1>1, <1>2, <1>3, <1>4, <1>5 DEF Inv, Undisturbed

-----------------------------------------------------------------------------
(* Each action preserves the invariant *)

LEMMA BeginPollInv == Inv /\ (BeginPoll \/ PollFails) => Inv'
<1> SUFFICES ASSUME Inv, BeginPoll \/ PollFails PROVE Inv'
  OBVIOUS
<1> USE DEF Inv, Undisturbed, BeginPoll, PollFails
<1>1. TypeOK'
  BY DEF TypeOK, Label
<1>2. Live' = Live
  BY DEF Live, Registered
<1>3. Injective' /\ ConnOwnsFD' /\ (~DetachAny => DeferredRegistered')
  BY DEF Injective, DeferredRegistered, ConnOwnsFD
<1>4. ~DetachAny => ControlIsLive' /\ RunningAt'
  BY DEF ControlIsLive, RunningAt, InHandler
<1>5. DeadClosed'
  BY <1>2 DEF DeadClosed
<1>6. ~DetachAny => SlotsFresh'
  BY <1>2 DEF SlotsFresh, DeadClosed, TypeOK
<1> QED
  BY <1>1, <1>3, <1>4, <1>5, <1>6

\* Steps that move control and leave the registry alone.
LEMMA ControlInv ==
    ASSUME Inv,
           \/ \E l \in Label : Dispatch(l)
           \/ HandlerReturn
           \/ Throw
           \/ UNCHANGED vars
    PROVE  Inv'
<1> USE DEF Inv, Undisturbed, registry, vars
<1>1. UNCHANGED <<pollables, fd, slot, regen_pollfds, doing_poll,
                  deferred_removes, controlSocketLabel>>
  BY DEF Dispatch, HandlerReturn, Throw
<1>2. Live' = Live
  BY <1>1 DEF Live, Registered
<1>3. /\ Injective' /\ ConnOwnsFD' /\ DeadClosed'
      /\ ~DetachAny => DeferredRegistered' /\ SlotsFresh' /\ ControlIsLive'
  BY <1>1, <1>2 DEF Injective, DeferredRegistered, ConnOwnsFD, DeadClosed,
                    SlotsFresh, ControlIsLive
<1>4. CASE \E l \in Label : Dispatch(l)
  <2> PICK l \in Label : Dispatch(l)
    BY <1>4
  <2>1. l \in Registered /\ pollables[l] \in Object
    BY DEF Dispatch, IsNext, Polled, Registered, TypeOK
  <2>2. TypeOK' /\ RunningAt'
    BY <2>1, ObjectAssumption DEF Dispatch, TypeOK, RunningAt, Registered
  <2> QED
    BY <1>3, <2>2
<1>5. CASE HandlerReturn
  BY <1>3, <1>5 DEF HandlerReturn, TypeOK, RunningAt, InHandler
<1>6. CASE Throw
  BY <1>3, <1>6 DEF Throw, TypeOK, RunningAt, InHandler
<1>7. CASE UNCHANGED vars
  BY <1>3, <1>7 DEF TypeOK, RunningAt, InHandler
<1> QED
  BY <1>4, <1>5, <1>6, <1>7

\* doDeferrals: whatever it erases, a regeneration follows if it erases at all.
LEMMA EndPollInv == Inv /\ EndPoll => Inv'
<1> SUFFICES ASSUME Inv, EndPoll PROVE Inv'
  OBVIOUS
<1> USE DEF Inv, Undisturbed
<1>1. PICK cascade \in SUBSET Clients :
        /\ deferred_removes = {} => cascade = {}
        /\ pollables' = [l \in Label |->
               IF l \in deferred_removes \cup cascade THEN NoObject ELSE pollables[l]]
        /\ fd' = Closed(fd, {pollables[l] :
               l \in (deferred_removes \cup cascade) \cap Registered})
  BY DEF EndPoll
<1>c. cascade \subseteq ClientLabel
  BY DEF Clients
<1> DEFINE gone == deferred_removes \cup cascade
           dead == {pollables[l] : l \in gone \cap Registered}
<1>2. TypeOK'
  BY <1>1 DEF EndPoll, TypeOK, Closed
<1>3. Injective'
  BY <1>1 DEF Injective
<1>4. DeadClosed'
  <2> SUFFICES ASSUME NEW o \in Object, fd'[o] # NoFD PROVE o \in Live'
    BY DEF DeadClosed
  <2>1. fd[o] # NoFD /\ o \notin dead
    BY <1>1 DEF Closed
  <2>2. PICK l \in Registered : pollables[l] = o
    BY <2>1 DEF DeadClosed, Live
  <2>3. l \notin gone
    BY <2>1, <2>2
  <2> QED
    BY <1>1, <2>2, <2>3 DEF Live, Registered
<1>5. ConnOwnsFD'
  <2> SUFFICES ASSUME NEW f \in SocketFD, pollables'[FdLabel[f]] # NoObject
               PROVE  fd'[pollables'[FdLabel[f]]] = f
    BY DEF ConnOwnsFD
  <2> DEFINE k == FdLabel[f]
  <2>1. k \in Label
    BY LabelFacts
  <2>2. k \notin gone /\ pollables'[k] = pollables[k] /\ pollables[k] # NoObject
    BY <1>1, <2>1
  <2>3. pollables[k] \in Object /\ pollables[k] \notin dead
    BY <2>1, <2>2 DEF Injective, TypeOK, Registered
  <2> QED
    BY <1>1, <2>2, <2>3 DEF ConnOwnsFD, Closed
<1>6. DeferredRegistered' /\ RunningAt'
  BY DEF EndPoll, DeferredRegistered, RunningAt, InHandler
<1>7. ~DetachAny => SlotsFresh'
  <2>1. CASE deferred_removes = {}
    <3>1. pollables' = pollables /\ fd' = fd
      BY <1>1, <2>1 DEF TypeOK, Closed
    <3>2. Live' = Live
      BY <3>1 DEF Live, Registered
    <3> QED
      BY <2>1, <3>1, <3>2 DEF EndPoll, SlotsFresh
  <2>2. CASE deferred_removes # {}
    BY <2>2 DEF EndPoll, SlotsFresh
  <2> QED
    BY <2>1, <2>2
<1>8. ~DetachAny => ControlIsLive'
  BY <1>1, <1>c, LabelFacts DEF EndPoll, ControlIsLive, TypeOK
<1> QED
  BY <1>2, <1>3, <1>4, <1>5, <1>6, <1>7, <1>8

\* accept() returns a descriptor that is not open: its label is free.
LEMMA AcceptLabelFree ==
    ASSUME Inv, NEW f \in SocketFD, f \notin Open
    PROVE  pollables[FdLabel[f]] = NoObject
BY LabelFacts, FDAssumption DEF Inv, ConnOwnsFD, Open, TypeOK, FD

\* A new connection under a free label.
LEMMA AcceptInv ==
    ASSUME Inv, NEW f \in SocketFD, NEW o \in Object, Accept(f, o)
    PROVE  Inv'
<1> USE DEF Inv, Undisturbed, control
<1> DEFINE l == FdLabel[f]
<1>1. /\ l \in ConnLabel /\ l \in Label /\ l # ListenerLabel
      /\ pollables[l] = NoObject
  BY AcceptLabelFree, LabelFacts DEF Accept
<1>2. o \notin Live /\ f \notin Open
  BY DEF Accept
<1>3. /\ pollables' = [pollables EXCEPT ![l] = o]
      /\ fd' = [fd EXCEPT ![o] = f]
      /\ slot' = [slot EXCEPT ![o] = NoFD]
  BY <1>1, ObjectAssumption DEF Accept, Closed, TypeOK
<1>4. TypeOK'
  <2>1. /\ pollables' \in [Label -> Object \cup {NoObject}]
        /\ fd' \in [Object -> FD \cup {NoFD}]
        /\ slot' \in [Object -> FD \cup {NoFD}]
    BY <1>1, <1>3 DEF TypeOK, FD
  <2>2. controlSocketLabel' \in ConnLabel \cup {NoLabel}
    BY <1>1 DEF Accept, TypeOK
  <2> QED
    BY <2>1, <2>2 DEF Accept, TypeOK
<1>5. Injective'
  BY <1>1, <1>2, <1>3, LiveFacts DEF Injective, TypeOK
<1>6. DeadClosed'
  BY <1>1, <1>2, <1>3, ObjectAssumption DEF DeadClosed, Live, Registered, TypeOK
<1>7. ConnOwnsFD'
  <2> SUFFICES ASSUME NEW g \in SocketFD, pollables'[FdLabel[g]] # NoObject
               PROVE  fd'[pollables'[FdLabel[g]]] = g
    BY DEF ConnOwnsFD
  <2>1. CASE g = f
    BY <1>1, <1>3, <2>1 DEF TypeOK
  <2>2. CASE g # f
    <3>1. FdLabel[g] # l /\ FdLabel[g] \in Label
      BY <2>2, FdLabelAssumption, LabelFacts
    <3>2. pollables'[FdLabel[g]] = pollables[FdLabel[g]]
      BY <1>1, <1>3, <3>1 DEF TypeOK
    <3>3. pollables[FdLabel[g]] # o /\ pollables[FdLabel[g]] \in Object
      BY <1>2, <3>1, <3>2, LiveFacts
    <3> QED
      BY <1>3, <3>2, <3>3 DEF ConnOwnsFD, TypeOK
  <2> QED
    BY <2>1, <2>2
<1>8. ~DetachAny => DeferredRegistered'
  BY <1>1, <1>3, ObjectAssumption, LabelFacts
     DEF Accept, DeferredRegistered, TypeOK
<1>9. ~DetachAny => RunningAt'
  BY <1>1, <1>3 DEF Accept, RunningAt, TypeOK, InHandler
<1>10. SlotsFresh'
  BY DEF Accept, SlotsFresh
<1>11. ~DetachAny => ControlIsLive'
  BY <1>1, <1>3, ObjectAssumption, LabelFacts
     DEF Accept, ControlIsLive, DeferredRegistered, TypeOK
<1> QED
  BY <1>4, <1>5, <1>6, <1>7, <1>8, <1>9, <1>10, <1>11

\* A connection hangs up, or a command removes a file writer.
LEMMA RemoveInv ==
    ASSUME Inv, Hangup \/ \E l \in ClientLabel : RemoveClient(l)
    PROVE  Inv'
<1> USE DEF Inv, Undisturbed, registry, control
<1>1. PICK L \in SUBSET Label : Remove(L)
  <2>1. CASE Hangup
    BY <2>1, LabelFacts DEF Hangup, InCommand
  <2>2. CASE \E l \in ClientLabel : RemoveClient(l)
    BY <2>2, LabelFacts DEF RemoveClient
  <2> QED
    BY <2>1, <2>2
<1>2. UNCHANGED <<pollables, fd, slot, doing_poll, at>> /\ regen_pollfds' \in BOOLEAN
  BY DEF Hangup, RemoveClient, TypeOK
<1>3. Live' = Live
  BY <1>2 DEF Live, Registered
<1>4. TypeOK'
  BY <1>1, <1>2 DEF TypeOK, Remove, Hangup, RemoveClient
<1>5. Injective' /\ DeadClosed' /\ ConnOwnsFD'
  BY <1>2, <1>3 DEF Injective, DeadClosed, ConnOwnsFD
<1>6. ~DetachAny => DeferredRegistered' /\ ControlIsLive'
  BY <1>1, <1>2 DEF DeferredRegistered, ControlIsLive, Remove, Registered
<1>7. ~DetachAny => RunningAt' /\ SlotsFresh'
  BY <1>2, <1>3 DEF RunningAt, SlotsFresh, Hangup, RemoveClient, InHandler
<1> QED
  BY <1>4, <1>5, <1>6, <1>7

\* A command constructs an object under a client label.
LEMMA ConstructInv ==
    ASSUME Inv, NEW l \in ClientLabel, NEW o \in Object,
           Construct(l, o)
    PROVE  Inv'
<1> USE DEF Inv, Undisturbed, control
<1>p. PICK f \in DeviceFD \cup {NoFD}, cascade \in SUBSET ClientLabel :
        /\ fd' = [Closed(fd, {pollables[l]}) EXCEPT ![o] = f]
        /\ deferred_removes' = deferred_removes \cup cascade
  BY DEF Construct, Clients
<1> DEFINE old == pollables[l]
<1>1. /\ l \in Label /\ l \notin ConnLabel
      /\ o \notin Live /\ o # old
  BY LabelFacts, LiveFacts, ObjectAssumption DEF Construct
<1>2. /\ pollables' = [pollables EXCEPT ![l] = o]
      /\ fd' = [Closed(fd, {old}) EXCEPT ![o] = f]
      /\ slot' = [slot EXCEPT ![o] = NoFD]
      /\ regen_pollfds' = TRUE
      /\ deferred_removes' = deferred_removes \cup cascade
      /\ UNCHANGED <<doing_poll, controlSocketLabel, pc, at, running>>
  BY <1>p DEF Construct
<1>3. TypeOK'
  BY <1>1, <1>2, LabelFacts DEF TypeOK, Closed, FD
<1>4. Injective'
  BY <1>1, <1>2, LiveFacts DEF Injective, TypeOK
<1>5. DeadClosed'
  <2> SUFFICES ASSUME NEW x \in Object, fd'[x] # NoFD PROVE x \in Live'
    BY DEF DeadClosed
  <2>1. CASE x = o
    BY <1>1, <1>2, <2>1, ObjectAssumption DEF Live, Registered, TypeOK
  <2>2. CASE x # o
    <3>1. fd[x] # NoFD /\ x # old
      BY <1>2, <2>2 DEF Closed, TypeOK
    <3>2. PICK m \in Label : pollables[m] = x
      BY <3>1, LiveFacts DEF DeadClosed
    <3>3. m # l /\ pollables'[m] = x
      BY <1>2, <3>1, <3>2 DEF TypeOK
    <3> QED
      BY <3>3, ObjectAssumption DEF Live, Registered
  <2> QED
    BY <2>1, <2>2
<1>6. ConnOwnsFD'
  <2> SUFFICES ASSUME NEW g \in SocketFD, pollables'[FdLabel[g]] # NoObject
               PROVE  fd'[pollables'[FdLabel[g]]] = g
    BY DEF ConnOwnsFD
  <2>1. FdLabel[g] # l /\ FdLabel[g] \in Label
    BY <1>1, LabelFacts
  <2>2. pollables'[FdLabel[g]] = pollables[FdLabel[g]]
    BY <1>2, <2>1 DEF TypeOK
  <2>3. /\ pollables[FdLabel[g]] \in Object
        /\ pollables[FdLabel[g]] # o /\ pollables[FdLabel[g]] # old
    BY <1>1, <2>1, <2>2, LiveFacts DEF Injective, TypeOK
  <2> QED
    BY <1>2, <2>2, <2>3 DEF ConnOwnsFD, Closed, TypeOK
<1>7. ~DetachAny => DeferredRegistered' /\ ControlIsLive'
  <2>1. \A m \in ConnLabel : pollables'[m] = pollables[m] /\ m \notin cascade
    BY <1>1, <1>2, LabelFacts DEF TypeOK
  <2> QED
    BY <1>2, <2>1 DEF DeferredRegistered, ControlIsLive, TypeOK
<1>8. ~DetachAny => RunningAt'
  BY <1>1, <1>2 DEF Construct, RunningAt, InCommand, InHandler, TypeOK
<1>9. SlotsFresh'
  BY <1>2 DEF SlotsFresh
<1> QED
  BY <1>3, <1>4, <1>5, <1>6, <1>7, <1>8, <1>9

\* "detach" erases an object with its descriptor; if it is a plugin's, it has none.
LEMMA EraseInv ==
    ASSUME Inv, NEW l \in Label, Erase(l)
    PROVE  Inv'
<1> USE DEF Inv, Undisturbed, control
<1>p. PICK cascade \in SUBSET (IF DetachAny THEN Clients ELSE {}) :
        deferred_removes' = deferred_removes \cup cascade
  BY DEF Erase
<1> DEFINE old == pollables[l]
<1>1. /\ old # NoObject /\ old \in Object
      /\ pollables' = [pollables EXCEPT ![l] = NoObject]
      /\ fd' = Closed(fd, {old})
      /\ UNCHANGED <<slot, regen_pollfds, doing_poll, controlSocketLabel, pc, at, running>>
  BY DEF Erase, Registered, TypeOK
<1>2. TypeOK'
  BY <1>1, <1>p DEF TypeOK, Closed, Clients, Registered
<1>3. Injective'
  BY <1>1 DEF Injective, TypeOK
<1>4. \A x \in Live : x # old => x \in Live'
  BY <1>1, LiveFacts DEF Live, Registered, TypeOK
<1>5. DeadClosed'
  BY <1>1, <1>4 DEF DeadClosed, Closed
<1>6. ConnOwnsFD'
  <2> SUFFICES ASSUME NEW g \in SocketFD, pollables'[FdLabel[g]] # NoObject
               PROVE  fd'[pollables'[FdLabel[g]]] = g
    BY DEF ConnOwnsFD
  <2>1. FdLabel[g] # l /\ FdLabel[g] \in Label
    BY <1>1, LabelFacts DEF TypeOK
  <2>2. pollables'[FdLabel[g]] = pollables[FdLabel[g]]
    BY <1>1, <2>1 DEF TypeOK
  <2>3. pollables[FdLabel[g]] \in Object /\ pollables[FdLabel[g]] # old
    BY <1>1, <2>1, <2>2 DEF Injective, TypeOK
  <2> QED
    BY <1>1, <2>2, <2>3 DEF ConnOwnsFD, Closed
<1>7. ASSUME ~DetachAny PROVE Undisturbed'
  <2>1. /\ l \in ClientLabel /\ fd[old] = NoFD /\ slot[old] = NoFD /\ cascade = {}
    BY <1>7, <1>p DEF Erase, PluginLike, Clients
  <2>2. l \notin ConnLabel /\ fd' = fd /\ deferred_removes' = deferred_removes
    BY <1>1, <1>p, <2>1, LabelFacts DEF Closed, TypeOK
  <2>3. \A m \in ConnLabel : pollables'[m] = pollables[m]
    BY <1>1, <2>2, LabelFacts DEF TypeOK
  <2>4. DeferredRegistered' /\ ControlIsLive'
    BY <1>1, <1>7, <2>2, <2>3 DEF DeferredRegistered, ControlIsLive, TypeOK
  <2>5. RunningAt'
    BY <1>1, <1>7, <2>2, <2>3 DEF Erase, InCommand, InHandler, RunningAt, TypeOK
  <2>6. SlotsFresh'
    BY <1>1, <1>4, <1>7, <2>1, <2>2 DEF SlotsFresh
  <2> QED
    BY <2>4, <2>5, <2>6
<1> QED
  BY <1>2, <1>3, <1>5, <1>6, <1>7

\* Descriptors of devices and files change and some of them are removed.
LEMMA ReconfigureInv ==
    ASSUME Inv, NEW R \in SUBSET ClientLabel, Reconfigure(R)
    PROVE  Inv'
<1> USE DEF Inv, Undisturbed, control
<1>g. PICK g \in [ClientObject -> DeviceFD \cup {NoFD}] :
        fd' = [o \in Object |-> IF o \in ClientObject THEN g[o] ELSE fd[o]]
  BY DEF Reconfigure
<1>1. /\ fd' = [o \in Object |-> IF o \in ClientObject THEN g[o] ELSE fd[o]]
      /\ Remove(R) /\ regen_pollfds' = TRUE
      /\ UNCHANGED <<pollables, slot, doing_poll, pc, at, running>>
      /\ R \subseteq Label /\ R \cap ConnLabel = {}
  BY <1>g, LabelFacts DEF Reconfigure
<1>2. Live' = Live /\ ClientObject \subseteq Live
  BY <1>1 DEF Live, Registered, ClientObject, Clients
<1>3. TypeOK'
  BY <1>1 DEF TypeOK, Remove, FD
<1>4. Injective' /\ (~DetachAny => RunningAt') /\ SlotsFresh'
  BY <1>1 DEF Injective, RunningAt, SlotsFresh, InHandler
<1>5. DeadClosed'
  BY <1>1, <1>2 DEF DeadClosed
<1>6. ConnOwnsFD'
  <2> SUFFICES ASSUME NEW f \in SocketFD, pollables[FdLabel[f]] # NoObject
               PROVE  fd'[pollables[FdLabel[f]]] = f
    BY <1>1 DEF ConnOwnsFD
  <2>1. FdLabel[f] \in Label /\ FdLabel[f] \notin ClientLabel
    BY LabelFacts
  <2>2. pollables[FdLabel[f]] \in Object /\ pollables[FdLabel[f]] \notin ClientObject
    BY <2>1, LabelFacts DEF Injective, ClientObject, Clients, Registered, TypeOK
  <2> QED
    BY <1>1, <2>2 DEF ConnOwnsFD
<1>7. ~DetachAny => DeferredRegistered' /\ ControlIsLive'
  BY <1>1 DEF DeferredRegistered, ControlIsLive, Remove, Registered, TypeOK
<1> QED
  BY <1>3, <1>4, <1>5, <1>6, <1>7

\* A file writer forgets its descriptor.
LEMMA DropFDInv ==
    ASSUME Inv, NEW l \in ClientLabel, DropFD(l)
    PROVE  Inv'
<1> USE DEF Inv, Undisturbed, control
<1> DEFINE w == pollables[l]
<1>1. /\ l \in Clients
      /\ fd' = Closed(fd, {w})
      /\ UNCHANGED <<pollables, slot, regen_pollfds, doing_poll,
                     deferred_removes, controlSocketLabel, pc, at, running>>
  BY DEF DropFD
<1>2. Live' = Live
  BY <1>1 DEF Live, Registered
<1>3. TypeOK'
  BY <1>1 DEF TypeOK, Closed
<1>4. /\ Injective'
      /\ ~DetachAny => RunningAt' /\ DeferredRegistered' /\ ControlIsLive'
  BY <1>1 DEF Injective, RunningAt, DeferredRegistered, ControlIsLive, InHandler
<1>5. DeadClosed'
  BY <1>1, <1>2 DEF DeadClosed, Closed
<1>6. ConnOwnsFD'
  <2>1. \A m \in ConnLabel : pollables[m] # NoObject =>
           pollables[m] # w /\ pollables[m] \in Object
    BY <1>1, LabelFacts DEF Injective, Clients, Registered, TypeOK
  <2> QED
    BY <1>1, <2>1, LabelFacts DEF ConnOwnsFD, Closed
<1>7. ~DetachAny => SlotsFresh'
  BY <1>1, <1>2 DEF SlotsFresh, Closed
<1> QED
  BY <1>3, <1>4, <1>5, <1>6, <1>7

-----------------------------------------------------------------------------
(* The theorems *)

LEMMA NextInv == Inv /\ [Next]_vars => Inv'
<1> SUFFICES ASSUME Inv, [Next]_vars PROVE Inv'
  OBVIOUS
<1>1. CASE BeginPoll \/ PollFails
  BY <1>1, BeginPollInv
<1>2. CASE (\E l \in Label : Dispatch(l)) \/ HandlerReturn \/ Throw \/ UNCHANGED vars
  BY <1>2, ControlInv
<1>3. CASE EndPoll
  BY <1>3, EndPollInv
<1>4. CASE \E f \in SocketFD, o \in Object : Accept(f, o)
  BY <1>4, AcceptInv
<1>5. CASE Hangup \/ \E l \in ClientLabel : RemoveClient(l)
  BY <1>5, RemoveInv
<1>6. CASE \E l \in ClientLabel, o \in Object : Construct(l, o)
  BY <1>6, ConstructInv
<1>7. CASE \E l \in Label : Erase(l)
  BY <1>7, EraseInv
<1>8. CASE \E R \in SUBSET ClientLabel : Reconfigure(R)
  BY <1>8, ReconfigureInv
<1>9. CASE \E l \in ClientLabel : DropFD(l)
  BY <1>9, DropFDInv
<1> QED
  BY <1>1, <1>2, <1>3, <1>4, <1>5, <1>6, <1>7, <1>8, <1>9 DEF Next, Loop, Exited

\* Every reachable state of the event loop satisfies the invariant.
THEOREM Invariance == Spec => []Inv
<1>1. Init => Inv
  BY InitInv
<1>2. Inv /\ [Next]_vars => Inv'
  BY NextInv
<1> QED
  BY <1>1, <1>2, PTL DEF Spec

\* The variables keep their types.
THEOREM TypeCorrect == Spec => []TypeOK
<1>1. Inv => TypeOK
  BY DEF Inv
<1> QED
  BY <1>1, Invariance, PTL

\* Between regenerations ::poll is given the open descriptors of live objects,
\* each at the index of its own object, if nothing but plugins is detached.
THEOREM SlotsAreFresh ==
    ASSUME ~DetachAny
    PROVE  Spec => []SlotsFresh
<1>1. Inv => SlotsFresh
  BY DEF Inv, Undisturbed
<1> QED
  BY <1>1, Invariance, PTL

\* The object whose handler runs, and the map entry the loop stands on, live
\* until the handler returns, if nothing but plugins is detached.
THEOREM RunningStaysRegistered ==
    ASSUME ~DetachAny
    PROVE  Spec => []RunningIsRegistered
<1>1. Inv => RunningIsRegistered
  BY DEF Inv, Undisturbed, RunningAt, RunningIsRegistered
<1> QED
  BY <1>1, Invariance, PTL

\* Asynchronous messages never go to a connection that has gone or is going, if
\* nothing but plugins is detached.
THEOREM ControlStaysLive ==
    ASSUME ~DetachAny
    PROVE  Spec => []ControlIsLive
<1>1. Inv => ControlIsLive
  BY DEF Inv, Undisturbed
<1> QED
  BY <1>1, Invariance, PTL

\* A new connection never takes the label of one that is still registered, whatever is
\* detached.
THEOREM ConnectionsAreNotReplaced == Spec => ConnNeverReplaced
<1> DEFINE Kept ==
      \A l \in ConnLabel :
          pollables[l] # NoObject /\ pollables'[l] # NoObject
              => pollables'[l] = pollables[l]
<1>1. Inv /\ [Next]_vars => [Kept]_vars
  <2> SUFFICES ASSUME Inv, [Next]_vars PROVE Kept
    OBVIOUS
  <2> USE DEF Inv, registry
  <2>1. CASE UNCHANGED pollables
    BY <2>1
  <2>2. CASE EndPoll
    BY <2>2, LabelFacts DEF EndPoll
  <2>3. ASSUME NEW f \in SocketFD, NEW o \in Object, Accept(f, o) PROVE Kept
    <3>1. pollables[FdLabel[f]] = NoObject
      BY <2>3, AcceptLabelFree DEF Accept
    <3>2. pollables' = [pollables EXCEPT ![FdLabel[f]] = o]
      BY <2>3 DEF Accept
    <3> QED
      BY <3>1, <3>2, LabelFacts DEF TypeOK
  <2>4. ASSUME NEW l \in ClientLabel, NEW o \in Object,
               pollables' = [pollables EXCEPT ![l] = o]
        PROVE  Kept
    BY <2>4, LabelFacts DEF TypeOK
  <2>5. CASE \E l \in ClientLabel, o \in Object : Construct(l, o)
    BY <2>4, <2>5 DEF Construct
  <2>6. CASE \E l \in Label : Erase(l)
    BY <2>6, LabelFacts DEF Erase, TypeOK
  <2> QED
    BY <2>1, <2>2, <2>3, <2>5, <2>6
       DEF Next, Loop, BeginPoll, PollFails, Dispatch, HandlerReturn, Hangup,
           RemoveClient, DropFD, Reconfigure, Throw, Exited, vars
<1> QED
  BY <1>1, Invariance, PTL DEF Spec, ConnNeverReplaced
=============================================================================
