---------------------------- MODULE LearnedLimits ----------------------------
(***************************************************************************)
(* Writing planned frames and learning from what comes of it: the retry    *)
(* ladder and its classification (geometry-service.ts, geometry.ts), the   *)
(* profiles (learn.ts), and the passes of a cycle that plan with what has  *)
(* been learned, write, and plan again (engine.ts).  Windows accept only   *)
(* sizes within limits of their own, which the engine does not know.       *)
(*                                                                         *)
(* Frames and plans are those of BspTree, whose constant Limits holds the  *)
(* limits the windows have at the start.  Samples are counted and compared *)
(* as in the code; confidence, which no plan reads, is left out.           *)
(***************************************************************************)
EXTENDS BspTree

CONSTANTS
    Windows,
    AppOf,       \* the application of a window: profiles are per application
    WorkArea,    \* the work area; Content lies within its margins
    Updates,     \* limits that an update may bring: per application
    Drags,       \* frames that a person may give a window
    Attempts,    \* DEFAULT_ATTEMPTS
    MaxPasses,   \* MAX_CONVERGENCE_PASSES
    MaxEvents,   \* bound on what people and applications do
    MaxTrouble   \* bound on writes that go wrong

Apps == {AppOf[win] : win \in Windows}
Ends == {"min", "max"}

LimitsAssumption ==
    /\ Windows # {} /\ Attempts \in 1 .. 5
    /\ MaxPasses \in Nat \ {0} /\ MaxEvents \in Nat /\ MaxTrouble \in Nat
    /\ DOMAIN AppOf = Windows /\ DOMAIN Updates \subseteq Apps
    /\ \A win, other \in Windows : AppOf[win] = AppOf[other] => Limits[win] = Limits[other]

ASSUME LimitsAssumption

VARIABLES
    tree,      \* the workspace's tree
    accepts,   \* the sizes each window really accepts
    frames,    \* the frames the windows have
    world,     \* ... those the engine has last seen (world.windows)
    first,     \* ... and those it saw first (firstSeen)
    profiles,  \* what is learned per application
    saved,     \* ... and what the store has of it
    cycle,     \* the cycle that runs, and how the last one ended
    events, trouble,
    really,    \* every limit a window of an application ever had (history)
    touched    \* the applications of windows that a person resized while they
               \* were written, or that refused a write (history)

vars == <<tree, accepts, frames, world, first, profiles, saved, cycle, events, trouble, really, touched>>

-----------------------------------------------------------------------------
(* Frames compared (geometry.ts).                                          *)

Tolerance == 1

Apart(m, n) == IF m < n THEN n - m ELSE m - n
Close(m, n) == Apart(m, n) <= Tolerance

SameAt(f, g) == \A a \in Axes : Close(f.at[a], g.at[a])
SameSize(f, g) == \A a \in Axes : Close(f.size[a], g.size[a])
Near(f, g) == SameAt(f, g) /\ SameSize(f, g)

Total(f) == f["vertical"] + f["horizontal"]
Off(f, g) == Total([a \in Axes |-> Apart(f.at[a], g.at[a]) + Apart(f.size[a], g.size[a])])
Scale(f, g) == Max({4, Total(f.size) + Total(g.size)})

\* normalizedDistance(f, target) < normalizedDistance(g, target)
Nearer(f, g, target) == Off(f, target) * Scale(g, target) < Off(g, target) * Scale(f, target)

-----------------------------------------------------------------------------
(* Profiles (learn.ts).                                                    *)

PromotionSamples == 3
FlushGuard == 2

NoBounds == [a \in Axes |-> [min |-> 0, max |-> Unbounded]]
NoProfile == [bounds |-> NoBounds, corrective |-> 0,
              pending |-> [a \in Axes |-> [end \in Ends |-> <<>>]]]

\* What is known of each application.
Known == [app \in Apps |-> profiles[app].bounds]

\* A bound is used while the window is at it, or where the bound would hold.
Viable(size, bounds) ==
    [min |-> IF size + 1 < bounds.min \/ size = bounds.min THEN bounds.min ELSE 0,
     max |-> IF size - 1 > bounds.max \/ size = bounds.max THEN bounds.max ELSE Unbounded]

\* constraintsFor: the learned bounds that the window's last seen frame allows.
ConstraintsFor(win) ==
    [a \in Axes |-> Viable(world[win].size[a], profiles[AppOf[win]].bounds[a])]

\* An observation at the edge of the work area may be the system's doing.
AtEdge(frame, a, end) ==
    \/ end = "min" /\ Apart(frame.at[a], WorkArea.at[a]) <= FlushGuard
    \/ Apart(frame.at[a] + frame.size[a], WorkArea.at[a] + WorkArea.size[a]) <= FlushGuard

\* Without the guard for windows at an edge of the work area.
Regression_Candidates(outcome, target, seen, initial, confirmed) ==
    { c \in [axis : Axes, end : Ends] :
        /\ outcome \in {"constrained", "stableClamp"}
        /\ ~Close(seen.size[c.axis], target.size[c.axis])
        /\ c.end = "min" <=> seen.size[c.axis] > target.size[c.axis]
        /\ outcome = "stableClamp" /\ ~confirmed
             => ~Close(seen.size[c.axis], initial.size[c.axis]) }

\* candidatesFrom: the bounds that a write gives evidence of.
Candidates(outcome, target, seen, initial, confirmed) ==
    { c \in [axis : Axes, end : Ends] :
        /\ outcome \in {"constrained", "stableClamp"}
        /\ ~Close(seen.size[c.axis], target.size[c.axis])
        /\ c.end = "min" <=> seen.size[c.axis] > target.size[c.axis]
        /\ ~AtEdge(seen, c.axis, c.end)
        /\ outcome = "stableClamp" /\ ~confirmed
             => ~Close(seen.size[c.axis], initial.size[c.axis]) }

Tighten(end, bound, value) == IF end = "min" THEN Max({bound, value}) ELSE Min({bound, value})

Spread(samples) == Max(ToSet(samples)) - Min(ToSet(samples))

\* One sample: the third that agrees with the two before becomes a bound.
Record(profile, c, value) ==
    LET samples == Append(profile.pending[c.axis][c.end], value)
    IN IF Len(samples) < PromotionSamples
       THEN [profile EXCEPT !.pending[c.axis][c.end] = samples]
       ELSE IF Spread(samples) > Tolerance
       THEN [profile EXCEPT !.pending[c.axis][c.end] = Tail(samples)]
       ELSE [profile EXCEPT !.pending[c.axis][c.end] = <<>>,
                            !.bounds[c.axis][c.end] = Tighten(c.end, @, value)]

\* recordCandidates, as often as learnFrom repeats it.
Recorded(profile, candidates, seen, samples) ==
    FoldSet(LAMBDA c, p : FoldLeft(LAMBDA q, n : Record(q, c, seen.size[c.axis]),
                                   p, [n \in 1 .. samples |-> n]),
            profile, candidates)

\* noteExactFrame: a size that was taken exactly replaces a bound it is beyond.
Disproved(bounds, size) ==
    { end \in Ends : IF end = "min" THEN size < bounds.min - Tolerance
                                    ELSE size > bounds.max + Tolerance }

Noted(profile, seen) ==
    [profile EXCEPT
        !.bounds = [a \in Axes |-> [end \in Ends |->
            IF end \in Disproved(profile.bounds[a], seen.size[a])
            THEN seen.size[a] ELSE profile.bounds[a][end]]],
        !.pending = [a \in Axes |-> [end \in Ends |->
            IF end \in Disproved(profile.bounds[a], seen.size[a])
            THEN <<>> ELSE profile.pending[a][end]]]]

\* markCooperation; only whether there was more than one is ever asked.
Resisted(profile) == [profile EXCEPT !.corrective = Min({@ + 1, 2})]

LearnFrom(win, outcome, target, seen, samples, confirmed) ==
    LET app == AppOf[win] IN
    [profiles EXCEPT ![app] =
        IF outcome = "exact" THEN Noted(@, seen)
        ELSE Recorded(@, Candidates(outcome, target, seen, first[win], confirmed), seen,
                      IF confirmed THEN Max({samples, PromotionSamples}) ELSE samples)]

-----------------------------------------------------------------------------
(* The retry ladder (geometry-service.ts).                                 *)

\* An application that resisted before is asked for the size alone first.
Strategy(win, attempt) ==
    IF attempt + (IF profiles[AppOf[win]].corrective > 1 THEN 1 ELSE 0) = 1
    THEN "sizeOnly" ELSE "frame"

\* What there is of the area from where a frame starts.
Room(frame, a) == WorkArea.at[a] + WorkArea.size[a] - frame.at[a]

\* A window takes a size within its limits; the system cuts off what reaches beyond
\* the area, if the limits allow.
Taken(limits, frame) ==
    [frame EXCEPT !.size = [a \in Axes |->
        LET size == Clamp(frame.size[a], limits[a])
        IN IF Room(frame, a) < size /\ Within(Room(frame, a), limits[a]) /\ Room(frame, a) > 0
           THEN Room(frame, a) ELSE size]]

\* What a write makes of the window.
Wrote(win, attempt, target) ==
    Taken(accepts[win], IF Strategy(win, attempt) = "sizeOnly"
                        THEN [frames[win] EXCEPT !.size = target.size] ELSE target)

ConstrainedOn(target, seen, bounds) ==
    IF target < bounds.min THEN Close(seen, bounds.min)
    ELSE IF target > bounds.max THEN Close(seen, bounds.max)
    ELSE Close(seen, target)

Constrained(target, seen, bounds) ==
    /\ SameAt(target, seen)
    /\ \A a \in Axes : ConstrainedOn(target.size[a], seen.size[a], bounds[a])
    /\ \E a \in Axes : ~Within(target.size[a], bounds[a])

\* classifyWrite
Classified(target, seen, bounds, initial, before) ==
    IF Near(target, seen) THEN "exact"
    ELSE IF Constrained(target, seen, bounds) THEN "constrained"
    ELSE IF Nearer(seen, before, target) THEN "progressing"
    ELSE IF SameAt(target, seen)
            /\ \E a \in Axes : /\ ~Close(seen.size[a], target.size[a])
                               /\ ~Close(seen.size[a], initial.size[a])
    THEN "stableClamp" ELSE "failed"

\* Two attempts that end alike, in the right place with a wrong size.
Repeated(target, seen, last) ==
    last # Nothing /\ Near(last, seen) /\ SameAt(seen, target) /\ ~SameSize(seen, target)

-----------------------------------------------------------------------------
(* The cycle.                                                              *)

\* The members' planned frames, with the bounds that are known and viable.
Planned ==
    IF tree = EmptyTree THEN NoPlan
    ELSE PlanWith(Policies, tree, Content,
                  [win \in Tiled(tree) |-> ConstraintsFor(win)]).frames

Calm == [pc |-> "calm", pass |-> 0, todo |-> <<>>, attempt |-> 0, last |-> Nothing,
         done |-> <<>>, before |-> <<>>, verified |-> <<>>, again |-> FALSE, ok |-> TRUE,
         stuck |-> 0, plan |-> NoPlan]

Init ==
    /\ tree = EmptyTree
    /\ accepts = Limits
    /\ frames = [win \in Windows |-> Content]
    /\ world = [win \in Windows |-> Content] /\ first = [win \in Windows |-> Content]
    /\ profiles = [app \in Apps |-> NoProfile] /\ saved = profiles
    /\ cycle = Calm
    /\ events = 0 /\ trouble = 0
    /\ touched = {}
    /\ really = [app \in Apps |-> {Limits[win] : win \in {w \in Windows : AppOf[w] = app}}]

\* A window read back in this cycle is taken as it was read then.
Observed == [win \in Windows |-> IF win \in DOMAIN cycle.verified
                                 THEN cycle.verified[win] ELSE frames[win]]

Observe ==
    /\ cycle.pc = "observe"
    /\ world' = Observed
    /\ cycle' = [cycle EXCEPT !.pc = "plan", !.before = world]
    /\ UNCHANGED <<tree, accepts, frames, first, profiles, saved, events, trouble, really, touched>>

\* Frames that differ from the plan are written, in the order of the tree.
Wanted(plan) ==
    LET off == SelectSeq(LeafOrder(tree),
                   LAMBDA win : win \in DOMAIN plan /\ ~Near(world[win], plan[win]))
    IN [i \in DOMAIN off |-> [win |-> off[i], target |-> plan[off[i]]]]

\* A layout that no policy can place lets its members float.
PlanPass ==
    /\ cycle.pc = "plan"
    /\ \E plan \in {Planned} :
        IF tree # EmptyTree /\ plan = NoPlan
        THEN tree' = EmptyTree /\ cycle' = [cycle EXCEPT !.pc = "save", !.plan = plan]
        ELSE \E todo \in {Wanted(plan)} :
             /\ cycle' = [cycle EXCEPT !.pc = IF todo = <<>> THEN "verify" ELSE "write",
                                       !.todo = todo, !.plan = plan]
             /\ UNCHANGED tree
    /\ UNCHANGED <<accepts, frames, world, first, profiles, saved, events, trouble, really, touched>>

\* A step that fails undoes the positions of the steps before it.
UndonePositions(now) ==
    [win \in Windows |->
        IF \E i \in DOMAIN cycle.done : cycle.done[i].win = win
        THEN [now[win] EXCEPT !.at = (CHOOSE d \in ToSet(cycle.done) : d.win = win).at]
        ELSE now[win]]

Finished(win, seen) ==
    /\ world' = [world EXCEPT ![win] = seen]
    /\ cycle' = [cycle EXCEPT !.todo = Tail(@), !.attempt = 0, !.last = Nothing,
                    !.done = Append(@, [win |-> win, at |-> world[win].at]),
                    !.pc = IF Len(cycle.todo) = 1 THEN "save" ELSE "write"]

GaveUp(now) ==
    /\ frames' = UndonePositions(now)
    /\ cycle' = [cycle EXCEPT !.pc = "save", !.todo = <<>>, !.attempt = 0, !.last = Nothing,
                    !.done = Append(@, [win |-> Head(cycle.todo).win, at |-> frames[Head(cycle.todo).win].at]),
                    !.ok = FALSE]
    /\ UNCHANGED world

\* One attempt: write, read back, classify, and learn when it is the last.
Attempt(win, target, now, seen) ==
    LET repeated == Repeated(target, seen, cycle.last)
        outcome == IF repeated THEN "stableClamp"
                   ELSE Classified(target, seen, ConstraintsFor(win), first[win], frames[win])
        used == cycle.attempt + 1
    IN IF \/ outcome \in {"exact", "constrained"}
          \/ used = Attempts /\ outcome \in {"stableClamp", "progressing"}
       THEN /\ profiles' = LearnFrom(win, outcome, target, seen,
                               IF outcome = "stableClamp" THEN used ELSE 1, repeated)
            /\ frames' = [frames EXCEPT ![win] = now]
            /\ Finished(win, seen)
       ELSE IF used = Attempts
       THEN /\ profiles' = [profiles EXCEPT ![AppOf[win]] = Resisted(@)]
            /\ GaveUp([frames EXCEPT ![win] = now])
       ELSE /\ frames' = [frames EXCEPT ![win] = now]
            /\ cycle' = [cycle EXCEPT !.attempt = used, !.last = seen]
            /\ UNCHANGED <<profiles, world>>

Write ==
    /\ cycle.pc = "write"
    /\ LET step == Head(cycle.todo)
           now == Wrote(step.win, cycle.attempt, step.target)
       IN Attempt(step.win, step.target, now, now)
    /\ UNCHANGED <<tree, accepts, first, saved, events, trouble, really, touched>>

\* A slow application: the write takes effect after the last read of it.
WriteSlowly ==
    /\ cycle.pc = "write" /\ trouble < MaxTrouble
    /\ LET step == Head(cycle.todo)
       IN Attempt(step.win, step.target, Wrote(step.win, cycle.attempt, step.target), frames[step.win])
    /\ trouble' = trouble + 1
    /\ UNCHANGED <<tree, accepts, first, saved, events, really, touched>>

\* A write that is refused ends the request; the frame it leaves is taken as
\* a confirmed clamp if it is in the right place.
Refuse ==
    /\ cycle.pc = "write" /\ trouble < MaxTrouble
    /\ LET step == Head(cycle.todo)
           seen == frames[step.win]
           resisted == [profiles EXCEPT ![AppOf[step.win]] = Resisted(@)]
       IN /\ profiles' =
               IF SameAt(seen, step.target)
               THEN [resisted EXCEPT ![AppOf[step.win]] =
                       Recorded(@, Candidates("stableClamp", step.target, seen, first[step.win], TRUE),
                                seen, PromotionSamples)]
               ELSE resisted
          /\ GaveUp(frames)
    /\ touched' = touched \cup {AppOf[Head(cycle.todo).win]}
    /\ trouble' = trouble + 1
    /\ UNCHANGED <<tree, accepts, first, saved, events, really>>

\* Bounds that exclude each other cannot be saved.
Valid(profile) == \A a \in Axes : profile.bounds[a].min <= profile.bounds[a].max

\* persistLearningBestEffort: what cannot be saved is forgotten.
Save ==
    /\ cycle.pc = "save"
    /\ IF \A app \in Apps : Valid(profiles[app])
       THEN saved' = profiles /\ UNCHANGED profiles
       ELSE profiles' = saved /\ UNCHANGED saved
    /\ cycle' = [cycle EXCEPT !.pc = "verify"]
    /\ UNCHANGED <<tree, accepts, frames, world, first, events, trouble, really, touched>>

Written == {cycle.done[i].win : i \in DOMAIN cycle.done}

\* Hints that came while the cycle ran are dropped.
Regression_Ended(ok) == [Calm EXCEPT !.ok = ok, !.plan = cycle.plan]

Ended(ok) == [Calm EXCEPT !.pc = IF cycle.again THEN "observe" ELSE "calm",
                            !.ok = ok \/ cycle.again, !.plan = cycle.plan]

\* Windows that were written are read again; a pass that changed nothing ends
\* the cycle, and so does one that failed.
Verify ==
    /\ cycle.pc = "verify"
    /\ world' = [win \in Windows |-> IF win \in Written THEN frames[win] ELSE world[win]]
    /\ cycle' = IF ~cycle.ok THEN Ended(FALSE)
                ELSE IF world' = cycle.before /\ cycle.todo = <<>> THEN Ended(TRUE)
                ELSE IF cycle.pass + 1 = MaxPasses
                THEN [Ended(FALSE) EXCEPT !.stuck = Min({cycle.stuck + 1, 2})]
                ELSE [cycle EXCEPT !.pc = "observe", !.pass = @ + 1, !.done = <<>>,
                         !.verified = [win \in Written |-> frames[win]] @@ cycle.verified]
    /\ UNCHANGED <<tree, accepts, frames, first, profiles, saved, events, trouble, really, touched>>

-----------------------------------------------------------------------------
(* People and applications; each event brings a hint, and so a cycle.      *)

Happens == events < MaxEvents /\ events' = events + 1

Hinted == IF cycle.pc = "calm" THEN [cycle EXCEPT !.pc = "observe", !.ok = TRUE]
          ELSE [cycle EXCEPT !.again = TRUE]

\* A window opens where its limits allow, and is tiled beside the last one.
Open(win) ==
    /\ cycle.pc = "calm" /\ win \notin Tiled(tree) /\ Happens
    /\ \E frame \in Drags : frames' = [frames EXCEPT ![win] = Taken(accepts[win], frame)]
    /\ first' = [first EXCEPT ![win] = frames'[win]]
    /\ world' = [world EXCEPT ![win] = frames'[win]]
    /\ tree' = IF tree = EmptyTree THEN Leaf(win)
               ELSE InsertLeaf(tree, Last(LeafOrder(tree)), win, "vertical")
    /\ cycle' = Hinted
    /\ UNCHANGED <<accepts, profiles, saved, trouble, really, touched>>

CloseWindow(win) ==
    /\ cycle.pc = "calm" /\ win \in Tiled(tree) /\ Happens
    /\ tree' = IF tree = Leaf(win) THEN EmptyTree ELSE RemoveLeaf(tree, win)
    /\ cycle' = Hinted
    /\ UNCHANGED <<accepts, frames, world, first, profiles, saved, trouble, really, touched>>

Drag(win) ==
    /\ win \in Tiled(tree) /\ Happens
    /\ \E frame \in Drags : frames' = [frames EXCEPT ![win] = Taken(accepts[win], frame)]
    /\ cycle' = Hinted
    /\ touched' = IF cycle.pc = "write" /\ Head(cycle.todo).win = win
                  THEN touched \cup {AppOf[win]} ELSE touched
    /\ UNCHANGED <<tree, accepts, world, first, profiles, saved, trouble, really>>

\* An application changes the limits of its windows.
Update(app) ==
    /\ app \in DOMAIN Updates /\ Updates[app] \notin really[app] /\ Happens
    /\ accepts' = [win \in Windows |-> IF AppOf[win] = app THEN Updates[app] ELSE accepts[win]]
    /\ really' = [really EXCEPT ![app] = @ \cup {Updates[app]}]
    /\ UNCHANGED <<tree, frames, world, first, profiles, saved, cycle, trouble, touched>>

Cycle == Observe \/ PlanPass \/ Write \/ Save \/ Verify

Next == \/ Cycle \/ WriteSlowly \/ Refuse
        \/ \E win \in Windows : Open(win) \/ CloseWindow(win) \/ Drag(win)
        \/ \E app \in Apps : Update(app)

Spec == Init /\ [][Next]_vars

-----------------------------------------------------------------------------
(* Properties.                                                             *)

\* A learned bound is no stricter than a limit that a window of the application
\* has or had: late readings, windows the system holds at an edge and frames that
\* people chose are not taken for limits.
LearnedIsReal ==
    \A app \in Apps \ touched, a \in Axes :
        LET bounds == profiles[app].bounds[a] IN
        \E limits \in really[app], others \in really[app] :
            /\ bounds.min <= limits[a].min + Tolerance
            /\ bounds.max >= others[a].max - Tolerance

\* Every window is where it was planned, and as near to the planned size as it
\* accepts, or accepted when it was written.
Arranged(plan) ==
    \A win \in Tiled(tree) :
        \/ Near(frames[win], plan[win])
        \/ \E limits \in really[AppOf[win]] : Near(frames[win], Taken(limits, plan[win]))

AllKnown == [win \in Tiled(tree) |-> Known[AppOf[win]]]

\* Passes go round until the engine gives up only where the bounds that are known
\* cannot all be kept (runConvergentCycle, viableConstraints); and a cycle that
\* converged has arranged the windows as its last pass planned.
CyclesSettle ==
    /\ cycle.pc = "calm" /\ cycle.stuck > 0 => Greedy(tree, Content, AllKnown) = NoPlan
    /\ cycle.pc = "calm" /\ cycle.ok => Arranged(cycle.plan)

\* docs/spec.md: repeated failure and oscillation stop aggressive enforcement, and
\* a resistant tiled window floats.
OscillationStops == cycle.stuck < 2

=============================================================================
