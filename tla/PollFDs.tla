------------------------------ MODULE PollFDs ------------------------------
(***************************************************************************)
(* allpollfds, entry by entry: regenFDs builds it object by object, and    *)
(* messages to the control connection find its entry through an index that *)
(* may date from the last regeneration.  Module Pollable takes a           *)
(* regeneration to be one step and leaves the places of entries out.       *)
(*                                                                         *)
(* A device has as many descriptors as its driver likes, none while it is  *)
(* stopped; every other object has one.  Entries are at places 0, 1, ...   *)
(***************************************************************************)
EXTENDS Integers, Sequences

CONSTANTS
    Order,          \* the labels, sorted: a registry is iterated in this order
    Device,         \* those of devices
    Control,        \* that of the control connection
    MaxFD           \* most descriptors of a device

Label == {Order[n] : n \in DOMAIN Order}

OrderAssumption ==
    /\ Order \in Seq(Label)
    /\ \A m, n \in DOMAIN Order : Order[m] = Order[n] => m = n
    /\ Control \in Label /\ Device \subseteq Label
    /\ Control \notin Device
    /\ MaxFD \in Nat \ {0}

\* The owner of an entry whose device has failed to fill it.
Nobody == "nobody"

VARIABLES
    present,        \* the labels in pollables
    numFD,          \* of each device, 0 when it is not to be polled
    indexInPollFD,
    allpollfds,     \* for each entry its owner, and whose events it has
    armed,          \* POLLOUT is in the control connection's pollfd.events
    regen_pollfds,
    pc,
    next            \* place in Order from which on the iteration goes on

\* History: the labels of devices that failed to fill their entries.
VARIABLE failing

registry == <<present, numFD>>
vars == <<registry, indexInPollFD, allpollfds, armed, regen_pollfds, pc, next, failing>>

Place(o) == CHOOSE n \in DOMAIN Order : Order[n] = o

\* The objects that the iteration has not come to, and whose turn it is.
Pending == {o \in present : Place(o) >= next}
Turn(o) == o \in Pending /\ \A q \in Pending : Place(o) <= Place(q)

NumPollFDs(o) == IF o \in Device THEN numFD[o] ELSE 1

\* The connection's events, with or without POLLOUT; "own" stands for what another
\* object asks for.
ConnEvents == {"in", "in out"}
Entry == [owner : Label \cup {Nobody}, events : ConnEvents \cup {"own"}]
EventsOf(a) == IF a THEN "in out" ELSE "in"

TypeOK ==
    /\ present \subseteq Label
    /\ numFD \in [Device -> 0..MaxFD]
    /\ indexInPollFD \in [Label -> -1..(Len(Order) * MaxFD)]
    /\ allpollfds \in Seq(Entry)
    /\ {armed, regen_pollfds} \subseteq BOOLEAN
    /\ pc \in {"top", "regen", "handlers"} /\ next \in 1..(Len(Order) + 1)
    /\ failing \subseteq Device

Init ==
    /\ present \in SUBSET Label
    /\ numFD \in [Device -> 0..MaxFD]
    /\ indexInPollFD = [o \in Label |-> -1]
    /\ allpollfds = <<>>
    /\ armed \in BOOLEAN
    /\ regen_pollfds = TRUE
    /\ pc = "top" /\ next = 1
    /\ failing = {}

-----------------------------------------------------------------------------
(* Output for the control connection *)

\* The vector e with the control connection's events put where its index says.  Past
\* the end of the vector, which keeps its storage when it is cleared, that has no
\* effect: an entry that is added later is initialised.
Rewritten(e, index, a) ==
    IF index \in 0..(Len(e) - 1) THEN [e EXCEPT ![index + 1].events = EventsOf(a)] ELSE e

\* Mutant: POLLOUT is not copied to the vector.
ArmedNoCopy(e, index) ==
    IF Control \in present
    THEN /\ armed' = TRUE
         /\ allpollfds' = e
    ELSE /\ allpollfds' = e
         /\ UNCHANGED armed

\* asyncMsg and queueOutput, when the vector is e and the connection's index is index.
Armed(e, index) ==
    IF Control \in present
    THEN /\ armed' = TRUE
         /\ allpollfds' = Rewritten(e, index, TRUE)
    ELSE /\ allpollfds' = e
         /\ UNCHANGED armed

-----------------------------------------------------------------------------
(* regenFDs *)

BeginRegen ==
    /\ pc = "top" /\ regen_pollfds
    /\ regen_pollfds' = FALSE
    /\ allpollfds' = <<>>
    /\ pc' = "regen" /\ next' = 1
    /\ failing' = {}
    /\ UNCHANGED <<registry, indexInPollFD, armed>>

\* The entries that getPollFDs of object o fills.
Entries(o) ==
    [n \in 1..NumPollFDs(o) |->
        [owner |-> o, events |-> IF o = Control THEN EventsOf(armed) ELSE "own"]]
Unfilled(o) == [n \in 1..NumPollFDs(o) |-> [owner |-> Nobody, events |-> "own"]]

Visiting(o) ==
    /\ pc = "regen" /\ Turn(o)
    /\ next' = Place(o) + 1
    /\ UNCHANGED <<registry, regen_pollfds, pc>>

\* The object's entries are added to the vector.
Visit(o) ==
    /\ Visiting(o) /\ NumPollFDs(o) > 0
    /\ indexInPollFD' = [indexInPollFD EXCEPT ![o] = Len(allpollfds)]
    /\ allpollfds' = allpollfds \o Entries(o)
    /\ UNCHANGED <<armed, failing>>

\* A device fails to fill its entries and sends a message about it, while indices of
\* the objects after it are still those of the last vector.
VisitFails(o) ==
    /\ o \in Device
    /\ Visiting(o) /\ NumPollFDs(o) > 0
    /\ indexInPollFD' = [indexInPollFD EXCEPT ![o] = Len(allpollfds)]
    /\ Armed(allpollfds \o Unfilled(o), indexInPollFD[Control])
    /\ failing' = failing \cup {o}

\* Mutant: the index of an object that has no descriptor is left as it was.
VisitWithoutStale(o) ==
    /\ Visiting(o) /\ NumPollFDs(o) = 0
    /\ UNCHANGED <<indexInPollFD, allpollfds, armed, failing>>

VisitWithout(o) ==
    /\ Visiting(o) /\ NumPollFDs(o) = 0
    /\ indexInPollFD' = [indexInPollFD EXCEPT ![o] = -1]
    /\ UNCHANGED <<allpollfds, armed, failing>>

\* ::poll, with the vector as it was or as it has been built.
Poll ==
    /\ \/ pc = "regen" /\ Pending = {}
       \/ pc = "top" /\ ~regen_pollfds
    /\ pc' = "handlers" /\ next' = 1
    /\ UNCHANGED <<registry, indexInPollFD, allpollfds, armed, regen_pollfds, failing>>

-----------------------------------------------------------------------------
(* Handlers *)

Handling(o) ==
    /\ pc = "handlers" /\ Turn(o)
    /\ next' = Place(o) + 1
    /\ UNCHANGED <<registry, indexInPollFD, regen_pollfds, pc, failing>>

\* Objects that are not polled are passed over; the others may have nothing to say, or
\* output for the control connection.
Handle(o) ==
    /\ Handling(o)
    /\ \/ UNCHANGED <<allpollfds, armed>>
       \/ indexInPollFD[o] >= 0 /\ Armed(allpollfds, indexInPollFD[Control])

\* writeSomeOutput has written everything, or fails.
Disarm ==
    /\ Handling(Control) /\ indexInPollFD[Control] >= 0
    /\ armed' = FALSE
    /\ allpollfds' = Rewritten(allpollfds, indexInPollFD[Control], FALSE)

\* A handler has devices opened, started, stopped or stalled, or objects constructed
\* or removed: the round ends, and there will be a new vector.  A new object has no
\* index, and a new connection may have its welcome to send.
Reconfigure(P, n) ==
    /\ pc = "handlers"
    /\ \E o \in Pending : Turn(o) /\ indexInPollFD[o] >= 0
    /\ present' = P /\ numFD' = n
    /\ indexInPollFD' = [o \in Label |-> IF o \in P \ present THEN -1 ELSE indexInPollFD[o]]
    /\ IF Control \in P \ present THEN armed' \in BOOLEAN ELSE UNCHANGED armed
    /\ regen_pollfds' = TRUE
    /\ pc' = "top" /\ next' = 1
    /\ UNCHANGED <<allpollfds, failing>>

EndPoll ==
    /\ pc = "handlers" /\ Pending = {}
    /\ pc' = "top" /\ next' = 1
    /\ UNCHANGED <<registry, indexInPollFD, allpollfds, armed, regen_pollfds, failing>>

Next ==
    \/ BeginRegen \/ Poll \/ Disarm \/ EndPoll
    \/ \E o \in Label : Visit(o) \/ VisitFails(o) \/ VisitWithout(o) \/ Handle(o)
    \/ \E P \in SUBSET Label, n \in [Device -> 0..MaxFD] : Reconfigure(P, n)

Spec == Init /\ [][Next]_vars

-----------------------------------------------------------------------------
(* Safety *)

\* The vector is the one that ::poll is given: it is complete, and nothing has been
\* changed since that calls for another.
InForce == pc # "regen" /\ ~regen_pollfds

EntriesAt(o) == indexInPollFD[o]..(indexInPollFD[o] + NumPollFDs(o) - 1)

\* Whatever the devices' numbers of descriptors, and whatever fails: each object finds
\* at its index as many entries as it has descriptors, its own unless it has failed
\* to fill them, the objects share no entry, and none is left over.
EntriesAreOwn ==
    InForce =>
        /\ \A o \in present : indexInPollFD[o] >= 0 =>
             \A p \in EntriesAt(o) :
                /\ p < Len(allpollfds)
                /\ allpollfds[p + 1].owner = IF o \in failing THEN Nobody ELSE o
        /\ \A m \in DOMAIN allpollfds :
             \E o \in present : indexInPollFD[o] >= 0 /\ m - 1 \in EntriesAt(o)
        /\ \A o \in present : indexInPollFD[o] >= 0 <=> NumPollFDs(o) > 0

\* Output that is queued for the control connection while the vector is being built,
\* through an index of the last one, is asked for all the same.
ControlIsAsked ==
    InForce /\ Control \in present /\ indexInPollFD[Control] >= 0 =>
        allpollfds[indexInPollFD[Control] + 1] = [owner |-> Control, events |-> EventsOf(armed)]

\* The connection's events get into an entry that is not its own only in a
\* regeneration in which some device fails.
StrayNeedsFailure ==
    InForce /\ failing = {} =>
        \A n \in DOMAIN allpollfds :
            allpollfds[n].events \in ConnEvents => allpollfds[n].owner = Control

\* Nor does it happen to an object after the control connection, whose own entry is
\* in the vector before theirs.
StrayIsBefore ==
    InForce /\ Control \in present =>
        \A n \in DOMAIN allpollfds :
            n - 1 > indexInPollFD[Control] => allpollfds[n].events = "own"

\* Together: the vector's entries have the types, the places and the owners that the
\* indices promise ...
EntriesOK == TypeOK /\ EntriesAreOwn

\* ... and the control connection's events are where they belong, and hardly
\* anywhere else.
EventsOK == ControlIsAsked /\ StrayNeedsFailure /\ StrayIsBefore
=============================================================================
