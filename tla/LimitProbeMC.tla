---------------------------- MODULE LimitProbeMC ----------------------------
(***************************************************************************)
(* What is measured about windows that are out of sight: either the probe  *)
(* of a parked window's limits or the search for the parking limits is     *)
(* `at work`; the other stays at one initial state of its own.             *)
(***************************************************************************)
EXTENDS LimitProbe, ParkingSearch

Sizes(w, h) == [a \in Axes |-> IF a = "width" THEN w ELSE h]
MCOriginal == Sizes(3, 2)
MCLargest == Sizes(5, 4)

Window(lo, hi, moves, tied) == [lo |-> lo, hi |-> hi, moves |-> moves, tied |-> tied]

MCKinds ==
    { Window(Sizes(1, 1), Sizes(4, 9), "free", FALSE),
      Window(Sizes(2, 2), Sizes(9, 3), "free", FALSE),
      Window(Sizes(2, 2), Sizes(4, 9), "clamped", FALSE),
      Window(Sizes(1, 1), Sizes(9, 9), "free", FALSE),
      Window(Sizes(3, 2), Sizes(9, 3), "free", FALSE),
      Window(Sizes(3, 1), Sizes(3, 9), "free", FALSE),
      Window(Sizes(1, 1), Sizes(9, 9), "free", TRUE),
      Window(Sizes(1, 2), Sizes(9, 9), "stuck", FALSE),
      Window(Sizes(1, 2), Sizes(9, 9), "strays", FALSE) }

\* Points of 64 parts, so that halves of up to 16 points are whole parts.
Points(h, v) == Shows(64 * h, 64 * v)

\* A window on the display, one beside it, and one that is minimized.
MCCandidates ==
    << [window |-> "shown", place |-> Points(8, 6), usable |-> TRUE],
       [window |-> "beside", place |-> Points(-4, 5), usable |-> TRUE],
       [window |-> "minimized", place |-> Points(4, 4), usable |-> FALSE] >>

\* The limits include none, half a point, and what is more than the usual; windows
\* drift both ways, also back to where nothing seems refused.
MCSystems ==
    { [limit |-> Shows(h, v), drift |-> 0] : h \in {0, 32, 64, 160}, v \in {0, 64, 176, 192} }
    \cup { [limit |-> Shows(h, v), drift |-> d] :
              h \in {64, 160}, v \in {128, 176, 192}, d \in {-64, 128} }

MCCenter == Points(5, 5)
MCTypical == Points(1, 3)
MCElsewhere == {Points(5, 5), Points(4, 4), Points(3, 3)}

VARIABLE atWork

MeasuringInit ==
    /\ Init /\ ParkingInit
    /\ \/ /\ atWork = "probe"
          /\ system = (CHOOSE s \in Systems : TRUE) /\ corner = "topLeft" /\ dead = {}
       \/ /\ atWork = "search"
          /\ kind = (CHOOSE k \in Kinds : TRUE)

MeasuringNext ==
    /\ UNCHANGED atWork
    /\ \/ atWork = "probe" /\ Next /\ UNCHANGED parkingVars
       \/ atWork = "search" /\ ParkingNext /\ UNCHANGED vars

MeasuringSpec ==
    /\ MeasuringInit /\ [][MeasuringNext]_<<vars, parkingVars, atWork>>
    /\ WF_vars(atWork = "probe" /\ Fiber) /\ WF_vars(atWork = "probe" /\ Sidecar)
    /\ WF_parkingVars(atWork = "search" /\ Searches)

\* Whichever measures comes to its end, whatever the windows, the sidecar and others do.
MeasuringEnds == <>(IF atWork = "probe" THEN probe.pc = "ended" ELSE search.at = "done")
=============================================================================
