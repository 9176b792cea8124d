---------------------------- MODULE ParkingSearch ----------------------------
(***************************************************************************)
(* How much of a window the system keeps visible at a corner of a display: *)
(* discoverParkingLimits of parking.ts.  It asks for a place that shows    *)
(* nothing of the window, sees which coordinates are refused, searches     *)
(* each of these by halves, verifies the limits it has found together, and *)
(* puts the window back; if all that fails it tries the next window.       *)
(*                                                                         *)
(* A place is what it shows of the window at the corner, in parts of a     *)
(* point: `horizontal` from the display's left or right edge, `vertical`   *)
(* from its top or bottom (cornerTarget).  In these terms the corners      *)
(* differ only in how limits are rounded.  Each call of the adapter is one *)
(* action.                                                                 *)
(***************************************************************************)
EXTENDS Integers, Sequences

CONSTANTS
    Point,          \* parts of a point
    Candidates,     \* [window, place, usable]: neither minimized nor hidden, and not empty
    Center,         \* a window at the center of the work area
    Typical,        \* PARKING_TYPICAL_VISIBILITY
    MaxDistance,    \* the longer side of the display, in points
    Systems,        \* window systems: [limit, drift]
    Elsewhere,      \* places where people drag windows
    MaxMishaps      \* bound: calls that fail, and drags

Sides == {"horizontal", "vertical"}
Visibility == [Sides -> Int]
Shows(h, v) == [side \in Sides |-> IF side = "horizontal" THEN h ELSE v]
Hidden == Shows(0, 0)

Candidate == [window : STRING, place : Visibility, usable : BOOLEAN]

Granted(granting, place) == \A side \in Sides : place[side] >= granting.limit[side]

\* The windows that are tried, those out of sight first.  Windows known to be parked
\* would come before these, but the search knows of none.
OffDisplay(candidate) == \E side \in Sides : candidate.place[side] <= 0

OrderProbeCandidates(candidates) ==
    SelectSeq(candidates, LAMBDA c : c.usable /\ OffDisplay(c))
    \o SelectSeq(candidates, LAMBDA c : c.usable /\ ~OffDisplay(c))

InOrder == OrderProbeCandidates(Candidates)

\* The probes that a search may make.
SearchBudget == 2 * ((CHOOSE n \in 0 .. MaxDistance + 1 :
                         2^n >= MaxDistance /\ 2^n >= 2
                         /\ \A k \in 0 .. n - 1 : 2^k < MaxDistance \/ 2^k < 2) + 3) + 2

\* Of SelectSeq and of the logarithm only the type is assumed.
ASSUME ParkingAssumption ==
    /\ Point \in Nat \ {0} /\ MaxDistance \in Nat /\ MaxMishaps \in Nat
    /\ Candidates \in Seq(Candidate) /\ InOrder \in Seq(Candidate) /\ SearchBudget \in Nat
    /\ Systems \subseteq [limit : [Sides -> Nat], drift : Int]
    /\ Typical \in Visibility /\ Center \in Visibility /\ Elsewhere \subseteq Visibility
    /\ \A s \in Systems : Granted(s, Center) /\ \A place \in Elsewhere : Granted(s, place)

VARIABLES
    system,       \* the window system; it never changes
    corner,       \* the corner
    dead,         \* windows that answer nothing
    standing,     \* where each candidate is
    search,       \* the searching fiber
    found,        \* the limits that it returns, if any
    mishaps,      \* what others did so far
    late          \* ... since the limits were found (history)

parkingVars == <<system, corner, dead, standing, search, found, mishaps, late>>

\* More points visible is always more, but at right and bottom edges limits are
\* rounded down.
RoundLimitTowardVisible(side, limit) ==
    IF corner \in (IF side = "horizontal" THEN {"bottomLeft", "topLeft"} ELSE {"topLeft", "topRight"})
    THEN -((-limit) \div Point) * Point
    ELSE (limit \div Point) * Point

Rounded(place) == [side \in Sides |-> RoundLimitTowardVisible(side, place[side])]

Home == InOrder[search.seed].place

-----------------------------------------------------------------------------
(* Control.                                                                *)

Over == [search EXCEPT !.at = "done"]

\* The window that has failed stays where it is.
NextSeed ==
    IF search.seed = Len(InOrder) THEN Over
    ELSE [search EXCEPT !.at = "endpoint", !.seed = @ + 1]

\* Each of two sides gets half of the probes.
ProbesFor(sides) == IF sides = Sides THEN SearchBudget \div 2 ELSE SearchBudget

\* searchAxisLimit goes on by halves down to a quarter of a point.
Searching(axis) == axis.left > 0 /\ 4 * (axis.hi - axis.lo) > Point

Along(s, side) ==
    [s EXCEPT !.at = "probe",
              !.axis = [side |-> side, lo |-> 0, hi |-> s.bases[s.basis][side],
                        left |-> ProbesFor(s.refused)]]

\* Mutant: the first place to verify already shows a point more.
Regression_NudgeFirst(s) == [s EXCEPT !.at = "verify", !.nudge = Shows(0, 1)]

Verifying(s) == [s EXCEPT !.at = "verify", !.nudge = Shows(0, 0)]

Settles(s, side) ==
    [s EXCEPT !.limits[side] = IF side \in s.refused THEN RoundLimitTowardVisible(side, s.axis.hi)
                               ELSE s.bases[s.basis][side]]

AlongVertical(s) ==
    LET t == Along(s, "vertical")
    IN  IF "vertical" \in s.refused /\ Searching(t.axis) THEN t ELSE Verifying(Settles(t, "vertical"))

\* attemptWithBasis.
WithBasis(s) ==
    LET t == Along(s, "horizontal")
    IN  IF "horizontal" \in s.refused /\ Searching(t.axis) THEN t
        ELSE AlongVertical(Settles(t, "horizontal"))

NextBasis ==
    IF search.basis = Len(search.bases) THEN NextSeed
    ELSE WithBasis([search EXCEPT !.basis = @ + 1])

Middle == (search.axis.lo + search.axis.hi) \div 2

\* After a probe: the limit is above what was rejected, and not above what was accepted.
Narrowed(accepted) ==
    LET axis == [search.axis EXCEPT !.left = @ - 1, !.hi = IF accepted THEN Middle ELSE @,
                                    !.lo = IF accepted THEN @ ELSE Middle]
        s == [search EXCEPT !.axis = axis]
    IN  IF Searching(axis) THEN s
        ELSE IF axis.side = "horizontal" THEN AlongVertical(Settles(s, "horizontal"))
        ELSE Verifying(Settles(s, "vertical"))

\* The next of the places that show up to four points more in all.
NextNudge ==
    LET h == search.nudge["horizontal"]
        v == search.nudge["vertical"]
    IN  CASE v > 0 -> [search EXCEPT !.nudge = Shows(h + 1, v - 1)]
          [] v = 0 /\ h < 4 -> [search EXCEPT !.nudge = Shows(0, h + 1)]
          [] OTHER -> NextBasis

\* Where the next write goes.
Target ==
    CASE search.at \in {"endpoint", "joint"} -> Hidden
      [] search.at = "probe" ->
            [side \in Sides |-> IF side = search.axis.side THEN Middle
                                ELSE IF side = "horizontal" THEN search.limits[side]
                                ELSE search.bases[search.basis][side]]
      [] search.at = "verify" ->
            [side \in Sides |-> search.limits[side] + Point * search.nudge[side]]
      [] search.at = "restore" -> <<Home, Center, Home>>[search.attempt]

Near(a, b, parts) == \A side \in Sides : parts * (a[side] - b[side]) <= Point
                                         /\ parts * (b[side] - a[side]) <= Point

\* The side that is not searched is compared with where the window was, or with
\* the limit found for it.
Held(side) == IF side = "vertical" THEN Home[side] ELSE search.limits[side]

Accepted(place) ==
    LET aim == [side \in Sides |-> IF side = search.axis.side THEN Target[side] ELSE Held(side)]
    IN  Near(place, aim, 2)

-----------------------------------------------------------------------------
(* Calls of the adapter.                                                   *)

\* A window that shows less than the limit is held at it; while the system
\* refuses the horizontal one it may move the window along the other side.
Actual(place) ==
    LET held == [side \in Sides |-> IF place[side] < system.limit[side] THEN system.limit[side]
                                    ELSE place[side]]
    IN  IF place["horizontal"] < system.limit["horizontal"]
        THEN [held EXCEPT !["vertical"] = @ + system.drift] ELSE held

Seed == InOrder[search.seed].window

Happens ==
    /\ mishaps < MaxMishaps
    /\ mishaps' = mishaps + 1
    /\ late' = (late \/ found # {})

\* A write is answered with where the window is then ...
Puts == /\ Seed \notin dead
        /\ standing' = [standing EXCEPT ![Seed] = Actual(Target)]
        /\ UNCHANGED <<mishaps, late>>

\* ... or fails, and may have been carried out nevertheless.
PutFails ==
    \/ Seed \in dead /\ UNCHANGED <<standing, mishaps, late>>
    \/ /\ Happens
       /\ standing' \in {standing, [standing EXCEPT ![Seed] = Actual(Target)]}

Reads == Seed \notin dead /\ UNCHANGED <<standing, mishaps, late>>
NoRead ==
    /\ \/ Seed \in dead /\ UNCHANGED <<mishaps, late>>
       \/ Happens
    /\ UNCHANGED standing

At(stage) == search.at = stage /\ UNCHANGED <<system, corner, dead>>

\* A write that is to be read back is followed by the reading; anything else by a write.
Awaits == search' = [search EXCEPT !.read = TRUE] /\ UNCHANGED found
Turns(s) == search' = [s EXCEPT !.read = FALSE] /\ UNCHANGED found

\* The request that shows nothing tells which sides are refused, and the first
\* limits to start from; the others are where the window was, and what is usual.
Refine(place) ==
    LET refused == {side \in Sides : ~(place[side] <= Point /\ -place[side] <= Point)}
        own == [side \in Sides |-> IF Rounded(Home)[side] < 0 THEN 0 ELSE Rounded(Home)[side]]
    IN  IF refused = {} THEN [search EXCEPT !.at = "joint"]
        ELSE WithBasis([search EXCEPT !.refused = refused, !.basis = 1,
                                      !.bases = <<Rounded(place), own, Typical>>])

Endpoint ==
    /\ At("endpoint")
    /\ \/ Puts /\ Turns(Refine(Actual(Target)))
       \/ PutFails /\ Turns(NextSeed)

Probe ==
    /\ At("probe")
    /\ \/ Puts /\ Turns(Narrowed(Accepted(Actual(Target))))
       \/ PutFails /\ Turns(Narrowed(FALSE))

\* The window that has failed a verification: the next place, or the next window.
Fails(stage) == IF stage = "joint" THEN NextSeed ELSE NextNudge

Restoring(place) ==
    /\ found' = {place}
    /\ search' = [search EXCEPT !.at = "restore", !.attempt = 1, !.read = FALSE]

\* Mutant: a point is allowed always.
Regression_AllowAPoint(place) == Near(place, Target, 1)

\* verifyJoint, which allows a point when nothing was refused.
Verified(place) == Near(place, Target, IF search.at = "joint" THEN 1 ELSE Point + 1)

VerifyJoint(stage) ==
    /\ At(stage) /\ ~search.read
    /\ \/ Puts /\ Awaits
       \/ PutFails /\ Turns(Fails(stage))

ReadBack(stage) ==
    /\ At(stage) /\ search.read
    /\ \/ Reads /\ Verified(standing[Seed]) /\ Restoring(Target)
       \/ Reads /\ ~Verified(standing[Seed]) /\ Turns(Fails(stage))
       \/ NoRead /\ Turns(Fails(stage))

NextAttempt == IF search.attempt = 3 THEN Over
               ELSE [search EXCEPT !.attempt = @ + 1]

\* restoreSeed: where it was, else the center, else once more where it was.
Restore ==
    /\ At("restore") /\ ~search.read
    /\ \/ Puts /\ Awaits
       \/ PutFails /\ Turns(NextAttempt)

ReadRestored ==
    /\ At("restore") /\ search.read
    /\ \/ Reads /\ Turns(IF Near(standing[Seed], Target, 4) THEN Over ELSE NextAttempt)
       \/ NoRead /\ Turns(NextAttempt)

\* A person moves the window.
Drag ==
    /\ search.at # "done" /\ Happens
    /\ \E place \in Elsewhere : standing' = [standing EXCEPT ![Seed] = place]
    /\ UNCHANGED <<system, corner, dead, search, found>>

-----------------------------------------------------------------------------
Beginning == [at |-> IF InOrder = <<>> THEN "done" ELSE "endpoint", seed |-> 1, read |-> FALSE,
              refused |-> {}, bases |-> <<>>, basis |-> 0, limits |-> Hidden, nudge |-> Hidden,
              axis |-> [side |-> "horizontal", lo |-> 0, hi |-> 0, left |-> 0], attempt |-> 1]

ParkingInit ==
    /\ system \in Systems
    /\ corner \in {"bottomLeft", "bottomRight", "topLeft", "topRight"}
    /\ dead \in SUBSET {InOrder[i].window : i \in DOMAIN InOrder}
    /\ standing = [w \in {InOrder[i].window : i \in DOMAIN InOrder} |->
                     InOrder[CHOOSE i \in DOMAIN InOrder : InOrder[i].window = w].place]
    /\ search = Beginning /\ found = {}
    /\ mishaps = 0 /\ late = FALSE

Searches ==
    \/ Endpoint \/ Probe \/ Restore \/ ReadRestored
    \/ \E stage \in {"joint", "verify"} : VerifyJoint(stage) \/ ReadBack(stage)

ParkingNext == Searches \/ Drag

ParkingSpec == ParkingInit /\ [][ParkingNext]_parkingVars /\ WF_parkingVars(Searches)

-----------------------------------------------------------------------------
\* What may be missing of limits that show nothing: these are taken for granted when
\* the window comes to rest within a point, and a window that is refused at one side
\* may have drifted back over the other.
Lacking(side) ==
    IF side = "vertical" /\ system.limit["horizontal"] > 0 /\ system.drift < 0
    THEN Point - system.drift ELSE Point

\* The limits that discoverParkingLimits returns are granted by the system, whatever
\* windows it has tried, however refusals make windows drift, whatever calls failed and
\* whoever moved windows meanwhile; only limits that show nothing may lack something.
FoundIsGranted ==
    \A place \in found, side \in Sides :
        system.limit[side] <= place[side] + (IF place = Hidden THEN Lacking(side) ELSE 0)

\* They are the least such limits in whole points (searchAxisLimit, verifyWithNudge),
\* unless something came between, or refusals made the window drift.
FoundIsLeast ==
    mishaps = 0 /\ system.drift = 0 =>
        \A place \in found, side \in Sides : place[side] < system.limit[side] + Point

\* The window that the limits were found with is put back, or in the center (restoreSeed),
\* unless something came between.  Windows that were tried before it in vain stay
\* wherever the last write has left them.
SeedIsBack ==
    search.at = "done" /\ found # {} /\ ~late =>
        \E place \in {Home, Center} : Near(standing[Seed], place, 4)

\* What parking.ts says of the search: seed windows are restored afterwards, where they
\* were or in the center.  Here: all that were tried, unless people have moved them or
\* something came between the restoration.
SeedsAreRestored ==
    search.at = "done" /\ InOrder # <<>> /\ ~late =>
        \A i \in 1 .. search.seed : \E place \in {InOrder[i].place, Center} \cup Elsewhere :
            Near(standing[InOrder[i].window], place, 4)

\* What is found is granted, and the window it was found with is put back.
SearchIsSound == FoundIsGranted /\ SeedIsBack
=============================================================================
