--------------------------- MODULE PollFDsProofs ---------------------------
(***************************************************************************)
(* The vector of poll entries, for any labels and devices, any numbers of  *)
(* descriptors, and any of the devices failing to fill their entries.      *)
(***************************************************************************)
EXTENDS PollFDs, SequenceTheorems, TLAPS

\* A vector e, with the indices ix of the objects of D, of which those of f failed.

\* Each object's index says where its entries are, and no other entries are there.
Owned(e, ix, D, f) ==
    /\ \A o \in D : ix[o] >= 0 <=> NumPollFDs(o) > 0
    /\ \A o \in D : ix[o] >= 0 =>
         \A p \in ix[o]..(ix[o] + NumPollFDs(o) - 1) :
            p < Len(e) /\ e[p + 1].owner = (IF o \in f THEN Nobody ELSE o)
    /\ \A m \in 1..Len(e) :
         \E o \in D : ix[o] >= 0 /\ m - 1 \in ix[o]..(ix[o] + NumPollFDs(o) - 1)

\* The control connection's entry has its events.
Asked(e, ix, D, a) ==
    Control \in D /\ ix[Control] >= 0 =>
        e[ix[Control] + 1] = [owner |-> Control, events |-> EventsOf(a)]

\* No other entry has, unless a device failed ...
OnlyControl(e, f) ==
    f = {} => \A n \in 1..Len(e) : e[n].events \in ConnEvents => e[n].owner = Control

\* ... and none after the control connection's has in any case.
NoneAfter(e, ix, D) ==
    Control \in D => \A n \in 1..Len(e) : n - 1 > ix[Control] => e[n].events = "own"

Built(e, ix, D, f, a) ==
    /\ e \in Seq(Entry)
    /\ Owned(e, ix, D, f) /\ Asked(e, ix, D, a) /\ OnlyControl(e, f) /\ NoneAfter(e, ix, D)

\* While the vector is being built, it is right for the objects that have been visited;
\* afterwards for all of them, until another is called for.
Underway == pc = "regen" \/ ~regen_pollfds
Visited == IF pc = "regen" THEN present \ Pending ELSE present

IInv ==
    /\ TypeOK
    /\ pc \in {"regen", "handlers"} => ~regen_pollfds
    /\ pc = "regen" => Len(allpollfds) <= (next - 1) * MaxFD /\ failing \subseteq Visited
    /\ Underway => Built(allpollfds, indexInPollFD, Visited, failing, armed)

-----------------------------------------------------------------------------
(* Places in the order of labels *)

\* A label has one place.
LEMMA PlaceProperties ==
    ASSUME OrderAssumption
    PROVE  /\ Len(Order) \in Nat
           /\ \A o \in Label : Place(o) \in 1..Len(Order) /\ Order[Place(o)] = o
<1>1. Len(Order) \in Nat /\ DOMAIN Order = 1..Len(Order)
    BY LenProperties DEF OrderAssumption
<1>2. ASSUME NEW o \in Label
      PROVE  Place(o) \in DOMAIN Order /\ Order[Place(o)] = o
    <2>1. \E n \in DOMAIN Order : Order[n] = o
        BY DEF Label
    <2> QED
        BY <2>1 DEF Place
<1> QED
    BY <1>1, <1>2

\* Once an object has had its turn, it is no longer pending, and it alone.
LEMMA TurnTaken ==
    ASSUME OrderAssumption, present \subseteq Label, next \in Nat, NEW o, Turn(o),
           next' = Place(o) + 1, present' = present
    PROVE  /\ o \in Label /\ o \in present /\ o \notin present \ Pending
           /\ next' \in 1..(Len(Order) + 1) /\ next <= Place(o)
           /\ (present \ Pending)' = (present \ Pending) \cup {o}
<1>1. /\ o \in present /\ o \in Label /\ Place(o) >= next /\ Place(o) \in 1..Len(Order)
      /\ \A q \in present : Place(q) >= next => Place(o) <= Place(q)
    BY PlaceProperties DEF Turn, Pending
<1>2. \A q \in present : Place(q) \in Nat /\ (Place(q) = Place(o) => q = o)
    BY <1>1, PlaceProperties
<1>3. Pending' = {q \in present : Place(q) >= Place(o) + 1}
    BY DEF Pending, Place
<1>4. \A q \in present : Place(q) >= Place(o) + 1 <=> Place(q) >= next /\ q # o
    BY <1>1, <1>2
<1>5. Len(Order) \in Nat
    BY PlaceProperties
<1> QED
    BY <1>1, <1>3, <1>4, <1>5 DEF Pending

-----------------------------------------------------------------------------
(* Vectors *)

\* What the control connection's output does to a vector.
LEMMA RewrittenProperties ==
    ASSUME NEW e \in Seq(Entry), NEW i \in Int, NEW a \in BOOLEAN
    PROVE  /\ Rewritten(e, i, a) \in Seq(Entry) /\ Len(Rewritten(e, i, a)) = Len(e)
           /\ \A n \in 1..Len(e) :
                /\ Rewritten(e, i, a)[n].owner = e[n].owner
                /\ n # i + 1 => Rewritten(e, i, a)[n] = e[n]
                /\ n = i + 1 => Rewritten(e, i, a)[n].events = EventsOf(a)
                             /\ Rewritten(e, i, a)[n] = [owner |-> e[n].owner,
                                                         events |-> EventsOf(a)]
<1>1. Len(e) \in Nat /\ DOMAIN e = 1..Len(e) /\ \A n \in 1..Len(e) : e[n] \in Entry
    BY LenProperties, ElementOfSeq
<1>2. EventsOf(a) \in ConnEvents
    BY DEF EventsOf, ConnEvents
<1>3. CASE i \in 0..(Len(e) - 1)
    <2> DEFINE new == [e[i + 1] EXCEPT !.events = EventsOf(a)]
    <2>1. i + 1 \in 1..Len(e)
        BY <1>1, <1>3
    <2>2. new \in Entry /\ new = [owner |-> e[i + 1].owner, events |-> EventsOf(a)]
        BY <1>1, <1>2, <2>1 DEF Entry
    <2>3. Rewritten(e, i, a) = [e EXCEPT ![i + 1] = new]
        BY <1>3 DEF Rewritten
    <2> HIDE DEF new
    <2>4. /\ [e EXCEPT ![i + 1] = new] \in Seq(Entry)
          /\ Len([e EXCEPT ![i + 1] = new]) = Len(e)
          /\ \A n \in 1..Len(e) :
                [e EXCEPT ![i + 1] = new][n] = IF n = i + 1 THEN new ELSE e[n]
        BY <1>1, <2>1, <2>2, ExceptSeq
    <2> QED
        BY <2>2, <2>3, <2>4
<1>4. CASE i \notin 0..(Len(e) - 1)
    <2>1. Rewritten(e, i, a) = e /\ \A n \in 1..Len(e) : n # i + 1
        BY <1>1, <1>4 DEF Rewritten
    <2> QED
        BY <2>1
<1> QED
    BY <1>3, <1>4

\* How many entries an object has.
LEMMA NumProperties ==
    ASSUME OrderAssumption, TypeOK
    PROVE  /\ Control \in Label /\ NumPollFDs(Control) = 1
           /\ \A o \in Label : NumPollFDs(o) \in 0..MaxFD
           /\ MaxFD \in Nat \ {0}
BY DEF OrderAssumption, TypeOK, NumPollFDs

\* In a vector that is built right, the connection's index leads to its entry.
LEMMA ControlEntry ==
    ASSUME OrderAssumption, TypeOK,
           NEW e, NEW ix \in [Label -> Int], NEW D \in SUBSET Label, NEW f, NEW a,
           Built(e, ix, D, f, a), Control \in D
    PROVE  /\ ix[Control] >= 0 /\ ix[Control] + 1 \in 1..Len(e)
           /\ e[ix[Control] + 1] = [owner |-> Control, events |-> EventsOf(a)]
<1>1. /\ NumPollFDs(Control) = 1 /\ ix[Control] \in Int
      /\ e \in Seq(Entry) /\ Len(e) \in Nat
    BY NumProperties, LenProperties DEF Built
<1>2. ix[Control] >= 0
    BY <1>1 DEF Built, Owned
<1>3. ix[Control] \in ix[Control]..(ix[Control] + NumPollFDs(Control) - 1)
    BY <1>1
<1>4. ix[Control] < Len(e)
    BY <1>2, <1>3 DEF Built, Owned
<1> QED
    BY <1>1, <1>2, <1>4 DEF Built, Asked

\* Output for the connection, when its own entry is in the vector or when it has not been
\* visited and a device has failed, leaves the vector as it should be.
LEMMA RewrittenIsBuilt ==
    ASSUME OrderAssumption, TypeOK,
           NEW e, NEW ix \in [Label -> Int], NEW D \in SUBSET Label, NEW f, NEW a,
           NEW b \in BOOLEAN,
           Built(e, ix, D, f, a), Control \in D \/ f # {}
    PROVE  Built(Rewritten(e, ix[Control], b), ix, D, f, b)
<1> DEFINE r == Rewritten(e, ix[Control], b)
           i == ix[Control]
<1>1. /\ e \in Seq(Entry) /\ Len(e) \in Nat /\ i \in Int
      /\ Owned(e, ix, D, f) /\ Asked(e, ix, D, a) /\ OnlyControl(e, f) /\ NoneAfter(e, ix, D)
    BY NumProperties, LenProperties DEF Built
<1>2. /\ r \in Seq(Entry) /\ Len(r) = Len(e)
      /\ \A n \in 1..Len(e) :
            /\ r[n].owner = e[n].owner
            /\ n # i + 1 => r[n] = e[n]
            /\ n = i + 1 => r[n] = [owner |-> e[n].owner, events |-> EventsOf(b)]
    BY <1>1, RewrittenProperties
<1> HIDE DEF r
<1>3. Owned(r, ix, D, f)
    <2>1. ASSUME NEW o \in D, ix[o] >= 0, NEW p \in ix[o]..(ix[o] + NumPollFDs(o) - 1)
          PROVE  p < Len(r) /\ r[p + 1].owner = (IF o \in f THEN Nobody ELSE o)
        <3>1. p < Len(e) /\ e[p + 1].owner = (IF o \in f THEN Nobody ELSE o)
            BY <1>1, <2>1 DEF Owned
        <3>2. p + 1 \in 1..Len(e)
            <4>1. ix[o] \in Int /\ NumPollFDs(o) \in Int
                BY NumProperties
            <4> QED
                BY <1>1, <2>1, <3>1, <4>1
        <3> QED
            BY <1>2, <3>1, <3>2
    <2> QED
        BY <1>1, <1>2, <2>1 DEF Owned
<1>4. CASE Control \in D
    <2>1. /\ i + 1 \in 1..Len(e) /\ e[i + 1] = [owner |-> Control, events |-> EventsOf(a)]
        BY <1>4, ControlEntry
    <2>2. r[i + 1] = [owner |-> Control, events |-> EventsOf(b)]
        BY <1>2, <2>1
    <2>3. Asked(r, ix, D, b)
        BY <2>2 DEF Asked
    <2>4. OnlyControl(r, f)
        <3>1. r[i + 1].owner = Control
            BY <2>2
        <3>2. \A n \in 1..Len(e) : n = i + 1 \/ r[n] = e[n]
            BY <1>2
        <3> QED
            BY <1>1, <1>2, <3>1, <3>2 DEF OnlyControl
    <2>5. NoneAfter(r, ix, D)
        <3>1. \A n \in 1..Len(e) : n - 1 > i => n # i + 1
            BY <1>1
        <3> QED
            BY <1>1, <1>2, <3>1 DEF NoneAfter
    <2> QED
        BY <1>2, <1>3, <2>3, <2>4, <2>5 DEF Built, r
<1>5. CASE Control \notin D
    BY <1>2, <1>3, <1>5 DEF Built, Asked, OnlyControl, NoneAfter, r
<1> QED
    BY <1>4, <1>5

\* Entries for another object are added, filled by it or not.
LEMMA AddedIsBuilt ==
    ASSUME OrderAssumption, TypeOK,
           NEW e, NEW ix \in [Label -> Int], NEW D \in SUBSET Label, NEW f,
           Built(e, ix, D, f, armed), NEW o \in Label \ D, NumPollFDs(o) > 0,
           NEW g, NEW new \in Seq(Entry),
           \/ g = f /\ o \notin f /\ new = Entries(o)
           \/ g = f \cup {o} /\ o # Control /\ new = Unfilled(o)
    PROVE  Built(e \o new, [ix EXCEPT ![o] = Len(e)], D \cup {o}, g, armed)
<1> DEFINE n0 == NumPollFDs(o)
           len == Len(e)
           r == e \o new
           jx == [ix EXCEPT ![o] = len]
           E == D \cup {o}
<1>1. /\ e \in Seq(Entry) /\ len \in Nat /\ n0 \in Nat \ {0}
      /\ Owned(e, ix, D, f) /\ Asked(e, ix, D, armed) /\ OnlyControl(e, f)
      /\ NoneAfter(e, ix, D)
    BY NumProperties, LenProperties DEF Built
<1>2. /\ Len(new) = n0
      /\ \A n \in 1..n0 : new[n].owner = (IF o \in g THEN Nobody ELSE o)
      /\ \A n \in 1..n0 : o # Control => new[n].events = "own"
    <2>1. CASE g = f /\ o \notin f /\ new = Entries(o)
        BY <1>1, <2>1 DEF Entries
    <2>2. CASE g = f \cup {o} /\ o # Control /\ new = Unfilled(o)
        BY <1>1, <2>2 DEF Unfilled
    <2> QED
        BY <2>1, <2>2
<1>3. /\ r \in Seq(Entry) /\ Len(r) = len + n0
      /\ \A n \in 1..(len + n0) : r[n] = IF n <= len THEN e[n] ELSE new[n - len]
    <2>1. /\ r \in Seq(Entry) /\ Len(r) = Len(e) + Len(new)
          /\ \A n \in 1..(Len(e) + Len(new)) :
                r[n] = IF n <= Len(e) THEN e[n] ELSE new[n - Len(e)]
        BY <1>1, ConcatProperties
    <2> QED
        BY <1>2, <2>1
<1>4. jx[o] = len /\ \A q \in D : q # o /\ jx[q] = ix[q] /\ q \in Label
    OBVIOUS
<1>5. \A q \in D : q \in g <=> q \in f
    BY <1>4
<1>6. \A n \in 1..len : n \in 1..(len + n0) /\ r[n] = e[n]
    BY <1>1, <1>3
<1>7. \A n \in 1..n0 : len + n \in 1..(len + n0) /\ r[len + n] = new[n]
    BY <1>1, <1>3
<1> HIDE DEF n0, len, r, jx
<1>8. Owned(r, jx, E, g)
    <2>1. \A q \in E : jx[q] >= 0 <=> NumPollFDs(q) > 0
        BY <1>1, <1>4 DEF Owned, n0
    <2>2. ASSUME NEW q \in E, jx[q] >= 0, NEW p \in jx[q]..(jx[q] + NumPollFDs(q) - 1)
          PROVE  p < Len(r) /\ r[p + 1].owner = (IF q \in g THEN Nobody ELSE q)
        <3>1. CASE q \in D
            <4>1. ix[q] \in Int /\ NumPollFDs(q) \in Int /\ ix[q] = jx[q]
                BY <1>4, <3>1, NumProperties
            <4>2. p < len /\ e[p + 1].owner = (IF q \in f THEN Nobody ELSE q)
                BY <1>1, <2>2, <3>1, <4>1 DEF Owned, len
            <4>3. p + 1 \in 1..len /\ p < len + n0
                BY <1>1, <2>2, <4>1, <4>2
            <4> QED
                BY <1>3, <1>5, <1>6, <3>1, <4>2, <4>3
        <3>2. CASE q = o
            <4>1. p - len + 1 \in 1..n0 /\ p + 1 = len + (p - len + 1) /\ p < len + n0
                BY <1>1, <1>4, <2>2, <3>2 DEF n0
            <4> QED
                BY <1>2, <1>3, <1>7, <3>2, <4>1
        <3> QED
            BY <3>1, <3>2
    <2>3. ASSUME NEW m \in 1..Len(r)
          PROVE  \E q \in E : jx[q] >= 0 /\ m - 1 \in jx[q]..(jx[q] + NumPollFDs(q) - 1)
        <3>1. CASE m \in 1..len
            <4>1. PICK q \in D : ix[q] >= 0 /\ m - 1 \in ix[q]..(ix[q] + NumPollFDs(q) - 1)
                BY <1>1, <3>1 DEF Owned, len
            <4> QED
                BY <1>4, <4>1
        <3>2. CASE m \notin 1..len
            <4>1. m - 1 \in len..(len + n0 - 1) /\ len >= 0
                BY <1>1, <1>3, <3>2
            <4> QED
                BY <1>4, <4>1 DEF n0
        <3> QED
            BY <3>1, <3>2
    <2> QED
        BY <2>1, <2>2, <2>3 DEF Owned
<1>9. Asked(r, jx, E, armed)
    <2>1. CASE o = Control
        <3>1. new = Entries(o) /\ 1 \in 1..n0
            BY <1>1, <2>1
        <3>2. new[1] = [owner |-> Control, events |-> EventsOf(armed)]
            BY <2>1, <3>1 DEF Entries, n0
        <3> QED
            BY <1>4, <1>7, <2>1, <3>1, <3>2 DEF Asked
    <2>2. CASE Control \in D
        <3>1. /\ ix[Control] + 1 \in 1..len
              /\ e[ix[Control] + 1] = [owner |-> Control, events |-> EventsOf(armed)]
            BY <2>2, ControlEntry DEF len
        <3> QED
            BY <1>4, <1>6, <2>2, <3>1 DEF Asked
    <2> QED
        BY <2>1, <2>2 DEF Asked
<1>10. OnlyControl(r, g)
    <2> SUFFICES ASSUME g = {}, NEW n \in 1..Len(r), r[n].events \in ConnEvents
                 PROVE  r[n].owner = Control
        BY DEF OnlyControl
    <2>1. CASE n \in 1..len
        BY <1>1, <1>6, <2>1 DEF OnlyControl, len
    <2>2. CASE n \notin 1..len
        <3>1. n - len \in 1..n0 /\ n = len + (n - len)
            BY <1>1, <1>3, <2>2
        <3>2. r[n] = new[n - len]
            BY <1>7, <3>1
        <3>3. o = Control /\ o \notin g
            BY <1>2, <3>1, <3>2 DEF ConnEvents
        <3> QED
            BY <1>2, <3>1, <3>2, <3>3
    <2> QED
        BY <2>1, <2>2
<1>11. NoneAfter(r, jx, E)
    <2> SUFFICES ASSUME Control \in E, NEW n \in 1..Len(r), n - 1 > jx[Control]
                 PROVE  r[n].events = "own"
        BY DEF NoneAfter
    <2>1. CASE o = Control
        <3>1. n0 = 1
            BY <2>1, NumProperties DEF n0
        <3>2. n <= len + 1
            BY <1>1, <1>3, <3>1
        <3> QED
            BY <1>1, <1>4, <2>1, <3>2
    <2>2. CASE o # Control /\ n \in 1..len
        BY <1>1, <1>4, <1>6, <2>2 DEF NoneAfter, len
    <2>3. CASE o # Control /\ n \notin 1..len
        <3>1. n - len \in 1..n0 /\ n = len + (n - len)
            BY <1>1, <1>3, <2>3
        <3> QED
            BY <1>2, <1>7, <2>3, <3>1
    <2> QED
        BY <2>1, <2>2, <2>3
<1> QED
    BY <1>3, <1>8, <1>9, <1>10, <1>11 DEF Built, r, jx, len

-----------------------------------------------------------------------------
(* Steps *)

\* The vector is not looked at before it is built.
LEMMA InitInv ==
    ASSUME OrderAssumption, Init
    PROVE  IInv
<1>1. allpollfds \in Seq(Entry)
    BY EmptySeq DEF Init
<1>2. Len(Order) \in Nat /\ MaxFD \in Nat \ {0}
    BY PlaceProperties DEF OrderAssumption
<1>3. Len(Order) * MaxFD \in Nat
    BY <1>2
<1> QED
    BY <1>1, <1>2, <1>3 DEF Init, IInv, TypeOK, Underway

\* What the parts of IInv say, in a regeneration.
LEMMA InRegen ==
    ASSUME OrderAssumption, IInv, NEW o, Visiting(o)
    PROVE  /\ TypeOK /\ ~regen_pollfds /\ pc' = "regen" /\ ~regen_pollfds'
           /\ o \in Label /\ o \in present /\ o \notin Visited /\ Visited \in SUBSET Label
           /\ failing \subseteq Visited /\ indexInPollFD \in [Label -> Int]
           /\ Visited' = Visited \cup {o} /\ next' \in 1..(Len(Order) + 1)
           /\ Built(allpollfds, indexInPollFD, Visited, failing, armed)
           /\ Len(allpollfds) \in Nat /\ Len(allpollfds) + MaxFD <= (next' - 1) * MaxFD
           /\ Len(allpollfds) \in -1..(Len(Order) * MaxFD)
           /\ UNCHANGED <<present, numFD>>
<1>1. /\ TypeOK /\ ~regen_pollfds /\ pc = "regen" /\ pc' = "regen" /\ Turn(o)
      /\ next' = Place(o) + 1 /\ UNCHANGED <<present, numFD, regen_pollfds>>
      /\ Len(allpollfds) <= (next - 1) * MaxFD /\ failing \subseteq Visited
      /\ Built(allpollfds, indexInPollFD, Visited, failing, armed)
    BY DEF IInv, Visiting, registry, Underway
<1>2. /\ o \in Label /\ o \in present /\ o \notin present \ Pending
      /\ next' \in 1..(Len(Order) + 1) /\ next <= Place(o)
      /\ (present \ Pending)' = (present \ Pending) \cup {o}
    <2>1. present \subseteq Label /\ next \in Nat
        BY <1>1, PlaceProperties DEF TypeOK
    <2> QED
        BY <1>1, <2>1, TurnTaken
<1>3. Visited = present \ Pending /\ Visited' = (present \ Pending)'
    BY <1>1 DEF Visited
<1>4. /\ Len(allpollfds) \in Nat /\ next \in Nat \ {0} /\ MaxFD \in Nat \ {0}
      /\ Place(o) \in 1..Len(Order) /\ Len(Order) \in Nat
    BY <1>1, <1>2, PlaceProperties, LenProperties DEF TypeOK, OrderAssumption
<1>5. /\ (next - 1) * MaxFD <= (Place(o) - 1) * MaxFD
      /\ (Place(o) - 1) * MaxFD + MaxFD = Place(o) * MaxFD
      /\ Place(o) * MaxFD <= Len(Order) * MaxFD
      /\ (next - 1) * MaxFD \in Nat /\ (Place(o) - 1) * MaxFD \in Nat
      /\ Place(o) * MaxFD \in Nat /\ Len(Order) * MaxFD \in Nat
    <2>1. \A j, k \in Nat : j <= k => j * MaxFD <= k * MaxFD /\ j * MaxFD \in Nat
        BY <1>4
    <2>2. next - 1 \in Nat /\ Place(o) - 1 \in Nat /\ next - 1 <= Place(o) - 1
        BY <1>2, <1>4
    <2>3. (Place(o) - 1) * MaxFD + MaxFD = Place(o) * MaxFD
        BY <1>4
    <2> QED
        BY <1>4, <2>1, <2>2, <2>3
<1>6. /\ Len(allpollfds) + MaxFD <= (next' - 1) * MaxFD
      /\ Len(allpollfds) \in -1..(Len(Order) * MaxFD)
    <2>1. next' - 1 = Place(o)
        BY <1>1, <1>4
    <2> QED
        BY <1>1, <1>4, <1>5, <2>1
<1>7. indexInPollFD \in [Label -> Int]
    BY <1>1, <1>4, <1>5 DEF TypeOK
<1> QED
    BY <1>1, <1>2, <1>3, <1>4, <1>6, <1>7 DEF TypeOK

\* The entries of an object are entries.
LEMMA EntriesTyped ==
    ASSUME OrderAssumption, TypeOK, NEW o \in Label
    PROVE  /\ Entries(o) \in Seq(Entry) /\ Len(Entries(o)) = NumPollFDs(o)
           /\ Unfilled(o) \in Seq(Entry) /\ Len(Unfilled(o)) = NumPollFDs(o)
           /\ NumPollFDs(o) \in Nat /\ NumPollFDs(o) <= MaxFD
<1> DEFINE a == [owner |-> o, events |-> IF o = Control THEN EventsOf(armed) ELSE "own"]
           b == [owner |-> Nobody, events |-> "own"]
<1>1. NumPollFDs(o) \in Nat /\ NumPollFDs(o) <= MaxFD
    BY NumProperties
<1>2. a \in Entry /\ b \in Entry
    BY DEF Entry, ConnEvents, EventsOf
<1>3. Entries(o) = [n \in 1..NumPollFDs(o) |-> a] /\ Unfilled(o) = [n \in 1..NumPollFDs(o) |-> b]
    BY DEF Entries, Unfilled
<1> HIDE DEF a, b
<1> QED
    BY <1>1, <1>2, <1>3

\* Nothing but the registry matters to what Built says.
LEMMA BuiltPrime ==
    ASSUME UNCHANGED numFD,
           Built(allpollfds', indexInPollFD', Visited', failing', armed')
    PROVE  Built(allpollfds, indexInPollFD, Visited, failing, armed)'
BY DEF Built, Owned, Asked, OnlyControl, NoneAfter, NumPollFDs, EventsOf, Entry, Label, ConnEvents,
       Nobody

\* Entries are added for the object whose turn it is.
LEMMA AddedInv ==
    ASSUME OrderAssumption, IInv, NEW o \in Label, Visiting(o),
           indexInPollFD' = [indexInPollFD EXCEPT ![o] = Len(allpollfds)],
           allpollfds' \in Seq(Entry), Len(allpollfds') = Len(allpollfds) + NumPollFDs(o),
           armed' \in BOOLEAN, failing' \subseteq (failing \cup {o}) \cap Device,
           Built(allpollfds', indexInPollFD', Visited', failing', armed')
    PROVE  IInv'
<1>1. /\ TypeOK /\ pc' = "regen" /\ ~regen_pollfds' /\ regen_pollfds' \in BOOLEAN
      /\ Visited' = Visited \cup {o} /\ next' \in 1..(Len(Order) + 1)
      /\ failing \subseteq Visited
      /\ Len(allpollfds) \in Nat /\ Len(allpollfds) + MaxFD <= (next' - 1) * MaxFD
      /\ Len(allpollfds) \in -1..(Len(Order) * MaxFD)
      /\ UNCHANGED <<present, numFD>>
    BY InRegen DEF Visiting, TypeOK
<1>2. Len(allpollfds') <= (next' - 1) * MaxFD
    <2>1. (next' - 1) * MaxFD \in Int /\ MaxFD \in Nat
        BY <1>1, PlaceProperties DEF OrderAssumption
    <2> QED
        BY <1>1, <2>1, EntriesTyped
<1>3. indexInPollFD' \in [Label -> -1..(Len(Order) * MaxFD)]
    BY <1>1 DEF TypeOK
<1>4. TypeOK'
    BY <1>1, <1>3 DEF TypeOK
<1>5. Built(allpollfds, indexInPollFD, Visited, failing, armed)'
    BY <1>1, BuiltPrime
<1> QED
    BY <1>1, <1>2, <1>4, <1>5 DEF IInv

\* An object fills its entries.
LEMMA VisitInv ==
    ASSUME OrderAssumption, IInv, NEW o \in Label, Visit(o)
    PROVE  IInv'
<1>1. Visiting(o) /\ NumPollFDs(o) > 0
    BY DEF Visit
<1>2. /\ indexInPollFD' = [indexInPollFD EXCEPT ![o] = Len(allpollfds)]
      /\ allpollfds' = allpollfds \o Entries(o) /\ armed' = armed /\ failing' = failing
    BY DEF Visit
<1>3. /\ TypeOK /\ o \in Label \ Visited /\ Visited \in SUBSET Label
      /\ failing \subseteq Visited /\ indexInPollFD \in [Label -> Int]
      /\ Visited' = Visited \cup {o}
      /\ Built(allpollfds, indexInPollFD, Visited, failing, armed)
    BY <1>1, InRegen
<1>4. Entries(o) \in Seq(Entry) /\ Len(Entries(o)) = NumPollFDs(o)
    BY <1>3, EntriesTyped
<1>5. /\ allpollfds' \in Seq(Entry) /\ Len(allpollfds') = Len(allpollfds) + NumPollFDs(o)
    <2>1. allpollfds \in Seq(Entry)
        BY <1>3 DEF TypeOK
    <2> QED
        BY <1>2, <1>4, <2>1, ConcatProperties
<1>6. Built(allpollfds', indexInPollFD', Visited', failing', armed')
    BY <1>1, <1>2, <1>3, <1>4, AddedIsBuilt
<1>7. armed' \in BOOLEAN /\ failing' \subseteq (failing \cup {o}) \cap Device
    BY <1>2, <1>3 DEF TypeOK
<1> QED
    BY <1>1, <1>2, <1>5, <1>6, <1>7, AddedInv

\* A device fails to, and tells the control connection.
LEMMA VisitFailsInv ==
    ASSUME OrderAssumption, IInv, NEW o \in Label, VisitFails(o)
    PROVE  IInv'
<1> DEFINE e == allpollfds \o Unfilled(o)
           ix == [indexInPollFD EXCEPT ![o] = Len(allpollfds)]
<1>1. Visiting(o) /\ NumPollFDs(o) > 0 /\ o \in Device /\ o # Control
    BY DEF VisitFails, OrderAssumption
<1>2. /\ indexInPollFD' = ix /\ failing' = failing \cup {o}
      /\ Armed(e, indexInPollFD[Control])
    BY DEF VisitFails
<1>3. /\ TypeOK /\ o \in Label \ Visited /\ Visited \in SUBSET Label
      /\ failing \subseteq Visited /\ indexInPollFD \in [Label -> Int]
      /\ Visited' = Visited \cup {o}
      /\ Built(allpollfds, indexInPollFD, Visited, failing, armed)
    BY <1>1, InRegen
<1>4. Unfilled(o) \in Seq(Entry) /\ Len(Unfilled(o)) = NumPollFDs(o)
    BY <1>3, EntriesTyped
<1>5. e \in Seq(Entry) /\ Len(e) = Len(allpollfds) + NumPollFDs(o) /\ Len(allpollfds) \in Nat
    <2>1. allpollfds \in Seq(Entry)
        BY <1>3 DEF TypeOK
    <2> QED
        BY <1>4, <2>1, ConcatProperties, LenProperties
<1>6. Built(e, ix, Visited \cup {o}, failing \cup {o}, armed)
    BY <1>1, <1>3, <1>4, AddedIsBuilt
<1>7. /\ ix \in [Label -> Int] /\ ix[Control] = indexInPollFD[Control]
      /\ Visited \cup {o} \in SUBSET Label /\ Control \in Label
    BY <1>1, <1>3, <1>5 DEF OrderAssumption
<1>8. failing' \subseteq (failing \cup {o}) \cap Device
    BY <1>1, <1>2, <1>3 DEF TypeOK
<1> HIDE DEF e, ix
<1>9. CASE Control \in present
    <2>1. armed' = TRUE /\ allpollfds' = Rewritten(e, ix[Control], TRUE)
        BY <1>2, <1>7, <1>9 DEF Armed
    <2>2. allpollfds' \in Seq(Entry) /\ Len(allpollfds') = Len(e)
        BY <1>5, <1>7, <2>1, RewrittenProperties
    <2>3. Built(Rewritten(e, ix[Control], TRUE), ix, Visited \cup {o}, failing \cup {o}, TRUE)
        BY <1>3, <1>6, <1>7, RewrittenIsBuilt
    <2> QED
        BY <1>1, <1>2, <1>3, <1>5, <1>8, <2>1, <2>2, <2>3, AddedInv DEF ix
<1>10. CASE Control \notin present
    <2>1. armed' = armed /\ allpollfds' = e
        BY <1>2, <1>10 DEF Armed
    <2>2. armed' \in BOOLEAN
        BY <1>3, <2>1 DEF TypeOK
    <2> QED
        BY <1>1, <1>2, <1>3, <1>5, <1>6, <1>8, <2>1, <2>2, AddedInv DEF ix
<1> QED
    BY <1>9, <1>10

\* A device has no entries.
LEMMA VisitWithoutInv ==
    ASSUME OrderAssumption, IInv, NEW o \in Label, VisitWithout(o)
    PROVE  IInv'
<1>1. /\ Visiting(o) /\ NumPollFDs(o) = 0 /\ indexInPollFD' = [indexInPollFD EXCEPT ![o] = -1]
      /\ UNCHANGED <<allpollfds, armed, failing>>
    BY DEF VisitWithout
<1>2. /\ TypeOK /\ pc' = "regen" /\ ~regen_pollfds' /\ regen_pollfds' \in BOOLEAN
      /\ o \notin Visited /\ Visited \in SUBSET Label
      /\ failing \subseteq Visited /\ indexInPollFD \in [Label -> Int]
      /\ Visited' = Visited \cup {o} /\ next' \in 1..(Len(Order) + 1)
      /\ Built(allpollfds, indexInPollFD, Visited, failing, armed)
      /\ Len(allpollfds) \in Nat /\ Len(allpollfds) + MaxFD <= (next' - 1) * MaxFD
      /\ UNCHANGED <<present, numFD>>
    BY <1>1, InRegen DEF Visiting, TypeOK
<1>3. o # Control
    BY <1>1, <1>2, NumProperties
<1>4. /\ indexInPollFD'[o] = -1 /\ \A q \in Visited : q # o /\ indexInPollFD'[q] = indexInPollFD[q]
      /\ indexInPollFD'[Control] = indexInPollFD[Control]
    BY <1>1, <1>2, <1>3 DEF OrderAssumption
<1>5. /\ Asked(allpollfds, indexInPollFD', Visited', armed)
      /\ OnlyControl(allpollfds, failing) /\ NoneAfter(allpollfds, indexInPollFD', Visited')
      /\ allpollfds \in Seq(Entry)
    BY <1>2, <1>3, <1>4 DEF Built, Asked, NoneAfter
<1>6. Owned(allpollfds, indexInPollFD', Visited', failing)
    BY <1>1, <1>2, <1>4 DEF Built, Owned
<1>7. Built(allpollfds, indexInPollFD, Visited, failing, armed)'
    BY <1>1, <1>2, <1>5, <1>6, BuiltPrime DEF Built
<1>8. indexInPollFD' \in [Label -> -1..(Len(Order) * MaxFD)]
    <2>1. Len(Order) * MaxFD \in Nat
        BY PlaceProperties DEF OrderAssumption
    <2>2. -1 \in -1..(Len(Order) * MaxFD)
        BY <2>1
    <2> QED
        BY <1>1, <1>2, <2>2 DEF TypeOK
<1>9. TypeOK'
    BY <1>1, <1>2, <1>8 DEF TypeOK
<1>10. Len(allpollfds') <= (next' - 1) * MaxFD
    <2>1. (next' - 1) * MaxFD \in Int /\ MaxFD \in Nat
        BY <1>2, PlaceProperties DEF OrderAssumption
    <2> QED
        BY <1>1, <1>2, <2>1
<1> QED
    BY <1>1, <1>2, <1>7, <1>9, <1>10 DEF IInv

\* Handlers may have output for the control connection, or the last of it written.
LEMMA HandlingInv ==
    ASSUME OrderAssumption, IInv, NEW o \in Label, Handle(o) \/ Disarm
    PROVE  IInv'
<1>1. /\ TypeOK /\ pc = "handlers" /\ ~regen_pollfds /\ Visited = present
      /\ Built(allpollfds, indexInPollFD, present, failing, armed)
      /\ present \in SUBSET Label /\ allpollfds \in Seq(Entry) /\ armed \in BOOLEAN
    BY DEF IInv, Handle, Disarm, Handling, Underway, Visited, TypeOK
<1>2. /\ UNCHANGED <<present, numFD, indexInPollFD, regen_pollfds, pc, failing>>
      /\ Visited' = present
    BY <1>1 DEF Handle, Disarm, Handling, registry, Visited
<1>3. next' \in 1..(Len(Order) + 1)
    <2>1. \A q \in Pending : Place(q) \in 1..Len(Order) /\ Len(Order) \in Nat
        BY <1>1, PlaceProperties DEF Pending
    <2>2. \E q \in Pending : next' = Place(q) + 1
        BY DEF Handle, Disarm, Handling, Turn
    <2> QED
        BY <2>1, <2>2
<1>4. indexInPollFD \in [Label -> Int] /\ Control \in Label
    BY <1>1, PlaceProperties DEF TypeOK, OrderAssumption
<1>5. /\ allpollfds' \in Seq(Entry) /\ armed' \in BOOLEAN
      /\ Built(allpollfds', indexInPollFD, present, failing, armed')
    <2>1. CASE UNCHANGED <<allpollfds, armed>>
        BY <1>1, <2>1
    <2>2. ASSUME Control \in present, armed' \in BOOLEAN,
                 allpollfds' = Rewritten(allpollfds, indexInPollFD[Control], armed')
          PROVE  /\ allpollfds' \in Seq(Entry)
                 /\ Built(allpollfds', indexInPollFD, present, failing, armed')
        BY <1>1, <1>4, <2>2, RewrittenIsBuilt DEF Built
    <2>3. CASE Armed(allpollfds, indexInPollFD[Control])
        <3>1. CASE Control \in present
            <4>1. armed' = TRUE
                BY <2>3, <3>1 DEF Armed
            <4>2. allpollfds' = Rewritten(allpollfds, indexInPollFD[Control], armed')
                BY <2>3, <3>1, <4>1 DEF Armed
            <4> QED
                BY <2>2, <3>1, <4>1, <4>2
        <3>2. CASE Control \notin present
            BY <2>1, <2>3, <3>2 DEF Armed
        <3> QED
            BY <3>1, <3>2
    <2>4. CASE Disarm
        <3>1. Control \in present
            BY <2>4 DEF Disarm, Handling, Turn, Pending
        <3>2. armed' = FALSE
            BY <2>4 DEF Disarm
        <3>3. allpollfds' = Rewritten(allpollfds, indexInPollFD[Control], armed')
            BY <2>4, <3>2 DEF Disarm
        <3> QED
            BY <2>2, <3>1, <3>2, <3>3
    <2> QED
        BY <2>1, <2>3, <2>4 DEF Handle
<1>6. TypeOK'
    BY <1>1, <1>2, <1>3, <1>5 DEF TypeOK
<1>7. Built(allpollfds, indexInPollFD, Visited, failing, armed)'
    BY <1>2, <1>5, BuiltPrime
<1> QED
    BY <1>1, <1>2, <1>6, <1>7 DEF IInv

\* The rest of a round.
LEMMA RoundInv ==
    ASSUME OrderAssumption, IInv, BeginRegen \/ Poll \/ EndPoll \/ UNCHANGED vars
    PROVE  IInv'
<1>1. TypeOK /\ Len(Order) \in Nat /\ 1 \in 1..(Len(Order) + 1) /\ MaxFD \in Nat
    BY PlaceProperties DEF IInv, OrderAssumption
<1>2. CASE BeginRegen
    <2>1. /\ allpollfds' = <<>> /\ allpollfds' \in Seq(Entry) /\ Len(allpollfds') = 0
          /\ next' = 1 /\ failing' = {} /\ pc' = "regen" /\ regen_pollfds' = FALSE
          /\ UNCHANGED <<present, numFD, indexInPollFD, armed>>
        BY <1>2, EmptySeq DEF BeginRegen, registry
    <2>2. TypeOK'
        BY <1>1, <2>1 DEF TypeOK
    <2>3. Visited' = {}
        <3>1. \A q \in present : Place(q) >= 1
            BY <1>1, PlaceProperties DEF TypeOK
        <3> QED
            BY <2>1, <3>1 DEF Visited, Pending, Place
    <2>4. Built(allpollfds', indexInPollFD', Visited', failing', armed')
        BY <2>1, <2>3 DEF Built, Owned, Asked, OnlyControl, NoneAfter
    <2>5. Len(allpollfds') <= (next' - 1) * MaxFD
        BY <1>1, <2>1
    <2> QED
        BY <2>1, <2>2, <2>4, <2>5, BuiltPrime DEF IInv
<1>3. CASE Poll
    <2>1. /\ pc' = "handlers" /\ next' = 1 /\ ~regen_pollfds
          /\ UNCHANGED <<present, numFD, indexInPollFD, allpollfds, armed, regen_pollfds, failing>>
        BY <1>3 DEF Poll, IInv, registry
    <2>2. TypeOK'
        BY <1>1, <2>1 DEF TypeOK
    <2>3. Visited' = Visited /\ Underway
        BY <1>3, <2>1 DEF Poll, Visited, Underway
    <2>4. Built(allpollfds, indexInPollFD, Visited, failing, armed)
        BY <2>3 DEF IInv
    <2> QED
        BY <2>1, <2>2, <2>3, <2>4, BuiltPrime DEF IInv
<1>4. CASE EndPoll
    <2>1. /\ pc = "handlers" /\ pc' = "top" /\ next' = 1 /\ ~regen_pollfds
          /\ UNCHANGED <<present, numFD, indexInPollFD, allpollfds, armed, regen_pollfds, failing>>
        BY <1>4 DEF EndPoll, IInv, registry
    <2>2. TypeOK'
        BY <1>1, <2>1 DEF TypeOK
    <2>3. Visited' = Visited /\ Underway
        BY <2>1 DEF Visited, Underway
    <2>4. Built(allpollfds, indexInPollFD, Visited, failing, armed)
        BY <2>3 DEF IInv
    <2> QED
        BY <2>1, <2>2, <2>3, <2>4, BuiltPrime DEF IInv
<1>5. CASE UNCHANGED vars
    <2>1. UNCHANGED <<present, numFD, indexInPollFD, allpollfds, armed, regen_pollfds, pc, next,
                      failing>>
        BY <1>5 DEF vars, registry
    <2>2. TypeOK'
        BY <1>1, <2>1 DEF TypeOK
    <2>3. Visited' = Visited /\ Underway' = Underway
        BY <2>1 DEF Visited, Pending, Place, Underway
    <2>4. Underway => Built(allpollfds, indexInPollFD, Visited, failing, armed)'
        BY <2>1, <2>3, BuiltPrime DEF IInv
    <2> QED
        BY <2>1, <2>2, <2>3, <2>4 DEF IInv
<1> QED
    BY <1>2, <1>3, <1>4, <1>5

\* Whatever a handler does to the registry, another vector is called for.
LEMMA ReconfigureInv ==
    ASSUME OrderAssumption, IInv, NEW P \in SUBSET Label, NEW n \in [Device -> 0..MaxFD],
           Reconfigure(P, n)
    PROVE  IInv'
<1>1. TypeOK /\ 1 \in 1..(Len(Order) + 1) /\ -1 \in -1..(Len(Order) * MaxFD)
    <2>1. Len(Order) \in Nat /\ Len(Order) * MaxFD \in Nat
        BY PlaceProperties DEF OrderAssumption
    <2> QED
        BY <2>1 DEF IInv
<1>2. indexInPollFD' \in [Label -> -1..(Len(Order) * MaxFD)]
    BY <1>1 DEF Reconfigure, TypeOK
<1>3. armed' \in BOOLEAN
    BY <1>1 DEF Reconfigure, TypeOK
<1>4. TypeOK' /\ regen_pollfds' = TRUE /\ pc' = "top"
    BY <1>1, <1>2, <1>3 DEF Reconfigure, TypeOK
<1> QED
    BY <1>4 DEF IInv, Underway

\* Every step keeps the invariant.
LEMMA NextInv ==
    ASSUME OrderAssumption, IInv, [Next]_vars
    PROVE  IInv'
<1>1. Control \in Label
    BY DEF OrderAssumption
<1>2. CASE Disarm
    BY <1>1, <1>2, HandlingInv
<1> QED
    BY <1>2, RoundInv, HandlingInv, VisitInv, VisitFailsInv, VisitWithoutInv, ReconfigureInv
       DEF Next

-----------------------------------------------------------------------------
(* Theorems *)

\* The invariant holds throughout.
THEOREM Invariance ==
    ASSUME OrderAssumption
    PROVE  Spec => []IInv
<1>1. Init => IInv
    BY InitInv
<1>2. IInv /\ [Next]_vars => IInv'
    BY NextInv
<1> QED
    BY <1>1, <1>2, PTL DEF Spec

\* The vector that ::poll is given has for each object its own entries, at its index, and
\* no others, whatever fails while it is built (Pollable::regenFDs).
THEOREM EntriesStayOwn ==
    ASSUME OrderAssumption
    PROVE  Spec => []EntriesOK
<1>1. ASSUME IInv
      PROVE  EntriesOK
    <2>1. TypeOK
        BY <1>1 DEF IInv
    <2>2. DOMAIN allpollfds = 1..Len(allpollfds)
        BY <2>1, LenProperties DEF TypeOK
    <2>3. InForce => Owned(allpollfds, indexInPollFD, present, failing)
        BY <1>1 DEF IInv, InForce, Underway, Visited, Built
    <2>4. EntriesAreOwn
        BY <2>2, <2>3 DEF EntriesAreOwn, EntriesAt, Owned
    <2> QED
        BY <2>1, <2>4 DEF EntriesOK
<1> QED
    BY <1>1, Invariance, PTL

\* The control connection's events are in its entry, whenever they were queued, and in
\* another's only when a device before it has failed (Pollable::asyncMsg, queueOutput).
THEOREM EventsStayPut ==
    ASSUME OrderAssumption
    PROVE  Spec => []EventsOK
<1>1. ASSUME IInv
      PROVE  EventsOK
    <2>1. TypeOK
        BY <1>1 DEF IInv
    <2>2. DOMAIN allpollfds = 1..Len(allpollfds)
        BY <2>1, LenProperties DEF TypeOK
    <2>3. InForce => Built(allpollfds, indexInPollFD, present, failing, armed)
        BY <1>1 DEF IInv, InForce, Underway, Visited
    <2> QED
        BY <2>2, <2>3
           DEF EventsOK, ControlIsAsked, StrayNeedsFailure, StrayIsBefore, Built, Asked,
               OnlyControl, NoneAfter
<1> QED
    BY <1>1, Invariance, PTL
=============================================================================
