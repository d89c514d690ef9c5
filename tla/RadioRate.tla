----------------------------- MODULE RadioRate -----------------------------
(***************************************************************************)
(* RTLSDRMinder::getHWRateForRate: the rate at which the radio is to run   *)
(* is the least multiple of the rate asked for that the hardware supports, *)
(* for subsampling is by whole factors.  One step per iteration.           *)
(***************************************************************************)
EXTENDS Integers

CONSTANTS
    Lo1, Hi1, Lo2, Hi2,     \* the two ranges of rates that the hardware supports
    Rates                   \* the rates that clients ask for

\* A rate too low for the upper range has its double in it or below.
RateAssumption ==
    /\ {Lo1, Hi1, Lo2, Hi2} \subseteq Nat \ {0}
    /\ 2 * Lo2 - 2 <= Hi2
    /\ Hi1 <= Hi2
    /\ Rates \subseteq Int

VARIABLES
    rate,
    hwRate,
    pc

\* History: the number of rates that have been tried.
VARIABLE tries

vars == <<rate, hwRate, pc, tries>>

Supported(r) == r \in Lo1..Hi1 \/ r \in Lo2..Hi2

Init ==
    /\ rate \in Rates
    /\ hwRate = 0 /\ tries = 0
    /\ pc = "start"

Refuse ==
    /\ pc = "start"
    /\ ~(rate \in 1..Hi2)
    /\ pc' = "refused"
    /\ UNCHANGED <<rate, hwRate, tries>>

Start ==
    /\ pc = "start"
    /\ rate \in 1..Hi2
    /\ hwRate' = rate /\ tries' = 1
    /\ pc' = "loop"
    /\ UNCHANGED rate

\* Mutant: the rate is doubled, which leaves multiples out.
AddDoubles ==
    /\ pc = "loop" /\ ~Supported(hwRate)
    /\ hwRate' = hwRate + hwRate /\ tries' = tries + tries
    /\ UNCHANGED <<rate, pc>>

Add ==
    /\ pc = "loop" /\ ~Supported(hwRate)
    /\ hwRate' = hwRate + rate /\ tries' = tries + 1
    /\ UNCHANGED <<rate, pc>>

Return ==
    /\ pc = "loop" /\ Supported(hwRate)
    /\ pc' = "done"
    /\ UNCHANGED <<rate, hwRate, tries>>

Next == Refuse \/ Start \/ Add \/ Return

Spec == Init /\ [][Next]_vars

-----------------------------------------------------------------------------
(* Safety *)

\* Whatever rate the radio can do at all is brought to the least multiple that the
\* hardware supports, and the search never runs past the hardware's highest rate:
\* the loop, which has no bound of its own, cannot miss both ranges.
RateIsLeast ==
    /\ pc # "refused" => hwRate <= Hi2 /\ hwRate = tries * rate
    /\ pc = "done" => Supported(hwRate)
    /\ \A k \in 1..(tries - 1) : ~Supported(k * rate)
=============================================================================
