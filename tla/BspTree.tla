------------------------------- MODULE BspTree -------------------------------
(***************************************************************************)
(* BSP trees and the frames planned from them                              *)
(* (packages/layout/src/layout/bsp.ts and insertion-frame.ts).             *)
(*                                                                         *)
(* A divider that is "vertical" divides widths, a "horizontal" one heights,*)
(* so the axis of a divider names the coordinate it divides: a frame has   *)
(* `at` and `size` per axis.  A ratio is a pair <<numerator, denominator>>.*)
(* A bound that is not set is 0 or Unbounded.  Frames are whole points.    *)
(***************************************************************************)
EXTENDS Integers, Sequences, FiniteSets, FiniteSetsExt, SequencesExt, TLC

CONSTANTS
    Gap,
    Content,    \* the work area without margins
    Limits,     \* per window and axis: the size it accepts, [min, max]
    Policies,   \* POLICY_CHAIN
    Nothing     \* null

Unbounded == 1000000
Axes == {"vertical", "horizontal"}
Half == <<1, 2>>

Across(axis) == IF axis = "vertical" THEN "horizontal" ELSE "vertical"

(***************************************************************************)
(* Trees.                                                                  *)
(***************************************************************************)

Leaf(win) == [kind |-> "leaf", win |-> win]
Split(axis, ratio, first, second) ==
    [kind |-> "split", axis |-> axis, ratio |-> ratio, first |-> first, second |-> second]

EmptyTree == Leaf(Nothing)
IsLeaf(node) == node.kind = "leaf"

RECURSIVE LeafOrder(_)
LeafOrder(tree) ==
    IF IsLeaf(tree) THEN <<tree.win>> ELSE LeafOrder(tree.first) \o LeafOrder(tree.second)

Tiled(tree) == {LeafOrder(tree)[i] : i \in DOMAIN LeafOrder(tree)} \ {Nothing}

RECURSIVE Nodes(_)
Nodes(tree) == {tree} \cup IF IsLeaf(tree) THEN {} ELSE Nodes(tree.first) \cup Nodes(tree.second)

RECURSIVE ReplaceNode(_, _, _)
ReplaceNode(tree, target, replacement) ==
    IF tree = target THEN replacement
    ELSE IF IsLeaf(tree) THEN tree
    ELSE Split(tree.axis, tree.ratio,
               ReplaceNode(tree.first, target, replacement), ReplaceNode(tree.second, target, replacement))

InsertLeaf(tree, target, new, axis) ==
    ReplaceNode(tree, Leaf(target), Split(axis, Half, Leaf(target), Leaf(new)))

\* The sibling takes the place of the split.
RECURSIVE RemoveLeaf(_, _)
RemoveLeaf(tree, win) ==
    IF IsLeaf(tree) THEN IF tree.win = win THEN Nothing ELSE tree
    ELSE LET first == RemoveLeaf(tree.first, win)
             second == RemoveLeaf(tree.second, win)
         IN  IF first = Nothing THEN tree.second
             ELSE IF second = Nothing THEN tree.first
             ELSE Split(tree.axis, tree.ratio, first, second)

(***************************************************************************)
(* Bounds and the division of a length.                                    *)
(***************************************************************************)

Within(v, bounds) == bounds.min <= v /\ v <= bounds.max
Clamp(v, bounds) == Min({Max({v, bounds.min}), bounds.max})

Free == [axis \in Axes |-> [min |-> 0, max |-> Unbounded]]

Limited(bounds) == bounds.max # Unbounded

\* Along the axis of a split bounds add up; across it both children have the
\* same extent.  A maximum counts only if both children have one.
AddBounds(f, s) ==
    [min |-> IF f.min = 0 /\ s.min = 0 THEN 0 ELSE f.min + Gap + s.min,
     max |-> IF Limited(f) /\ Limited(s) THEN f.max + Gap + s.max ELSE Unbounded]
MeetBounds(f, s) ==
    [min |-> Max({f.min, s.min}),
     max |-> IF Limited(f) /\ Limited(s) THEN Min({f.max, s.max}) ELSE Unbounded]

RECURSIVE AggregateBounds(_, _, _)
AggregateBounds(node, axis, limits) ==
    IF IsLeaf(node) THEN limits[node.win][axis]
    ELSE IF node.axis = axis
    THEN AddBounds(AggregateBounds(node.first, axis, limits), AggregateBounds(node.second, axis, limits))
    ELSE MeetBounds(AggregateBounds(node.first, axis, limits), AggregateBounds(node.second, axis, limits))

ValidRatio(ratio) == 0 < ratio[1] /\ ratio[1] < ratio[2]

\* What one side cannot take goes to the other.
Adjust(length, space, bounds1, bounds2) == space - Clamp(space - Clamp(length, bounds1), bounds2)

Adjusted(length, space, bounds1, bounds2) ==
    FoldLeft(LAMBDA l, n : Adjust(l, space, bounds1, bounds2), length, <<1, 2, 3, 4>>)

Sides(first, second, bounds1, bounds2) ==
    [first |-> first, second |-> second,
     feasible |-> first > 0 /\ second > 0 /\ Within(first, bounds1) /\ Within(second, bounds2)]

DivideSpace(length, space, bounds1, bounds2) ==
    Sides(Clamp(length, bounds1), space - Clamp(length, bounds1), bounds1, bounds2)

ShareOf(space, ratio) == IF ValidRatio(ratio) THEN (space * ratio[1]) \div ratio[2] ELSE space \div 2

PartitionLengths(available, ratio, bounds1, bounds2) ==
    IF available - Gap <= 0 THEN [first |-> 0, second |-> 0, feasible |-> FALSE]
    ELSE DivideSpace(Adjusted(ShareOf(available - Gap, ratio), available - Gap, bounds1, bounds2),
                     available - Gap, bounds1, bounds2)

(***************************************************************************)
(* Plans: a frame for each window, or NoPlan.                              *)
(***************************************************************************)

NoPlan == <<>>

Part(node, rect, limits) ==
    PartitionLengths(rect.size[node.axis], node.ratio,
        AggregateBounds(node.first, node.axis, limits), AggregateBounds(node.second, node.axis, limits))

With(f, axis, value) == [a \in Axes |-> IF a = axis THEN value ELSE f[a]]

Section(rect, axis, offset, length) ==
    [at |-> With(rect.at, axis, rect.at[axis] + offset), size |-> With(rect.size, axis, length)]

FirstRect(node, rect, part) == Section(rect, node.axis, 0, part.first)
SecondRect(node, rect, part) == Section(rect, node.axis, part.first + Gap, part.second)

Both(f, g) == IF f = NoPlan \/ g = NoPlan THEN NoPlan ELSE f @@ g

RECURSIVE Greedy(_, _, _)
Greedy(node, rect, limits) ==
    IF IsLeaf(node)
    THEN IF \A axis \in Axes : Within(rect.size[axis], limits[node.win][axis]) /\ rect.size[axis] > 0
         THEN node.win :> rect ELSE NoPlan
    ELSE LET part == Part(node, rect, limits)
         IN  IF ~part.feasible THEN NoPlan
             ELSE Both(Greedy(node.first, FirstRect(node, rect, part), limits),
                       Greedy(node.second, SecondRect(node, rect, part), limits))

\* Every window at its size, shifted into the content.
Resized(frame, limits) == [axis \in Axes |-> Clamp(frame.size[axis], limits[axis])]

ShiftedInto(content, frame, size) ==
    [at |-> [axis \in Axes |-> Min({Max({frame.at[axis], content.at[axis]}),
                                    content.at[axis] + content.size[axis] - size[axis]})],
     size |-> size]

FitsInto(content, size, limits) ==
    \A axis \in Axes : /\ limits[axis].min <= limits[axis].max
                        /\ 0 < size[axis] /\ size[axis] <= content.size[axis]

OverlapFrom(nominal, content, limits) ==
    IF nominal = NoPlan \/ \E win \in DOMAIN nominal :
            ~FitsInto(content, Resized(nominal[win], limits[win]), limits[win])
    THEN NoPlan
    ELSE [win \in DOMAIN nominal |-> ShiftedInto(content, nominal[win], Resized(nominal[win], limits[win]))]

Overlap(tree, content, limits) ==
    OverlapFrom(Greedy(tree, content, [win \in Tiled(tree) |-> Free]), content, limits)

Stack(tree, content, limits) ==
    IF \E win \in Tiled(tree), axis \in Axes : content.size[axis] < limits[win][axis].min
    THEN NoPlan ELSE [win \in Tiled(tree) |-> content]

\* A split that needs more than there is gets it.
RECURSIVE Overflow(_, _, _)
Overflow(node, rect, limits) ==
    IF IsLeaf(node)
    THEN LET size == [axis \in Axes |-> Clamp(rect.size[axis], limits[node.win][axis])]
         IN  IF \A axis \in Axes : size[axis] > 0 /\ Within(size[axis], limits[node.win][axis])
             THEN node.win :> [at |-> rect.at, size |-> size] ELSE NoPlan
    ELSE LET least == AggregateBounds(node, node.axis, limits).min
             grown == Section(rect, node.axis, 0, Max({rect.size[node.axis], least}))
             part == Part(node, grown, limits)
         IN  IF part.first <= 0 \/ part.second <= 0 THEN NoPlan
             ELSE Both(Overflow(node.first, FirstRect(node, grown, part), limits),
                       Overflow(node.second, SecondRect(node, grown, part), limits))

TryPolicy(policy, tree, content, limits) ==
    CASE policy = "greedy" -> Greedy(tree, content, limits)
      [] policy = "overlap" -> Overlap(tree, content, limits)
      [] policy = "stack" -> Stack(tree, content, limits)
      [] policy = "overflow" -> Overflow(tree, content, limits)
      [] policy = "reject" -> NoPlan

\* planLayout: the first policy of the chain that has a plan.
Plan(policy, frames) == [policy |-> policy, frames |-> frames]
OrElse(plan, other) == IF plan.frames # NoPlan THEN plan ELSE other

RECURSIVE PlanWith(_, _, _, _)
PlanWith(policies, tree, content, limits) ==
    IF policies = <<>> THEN Plan(Nothing, NoPlan)
    ELSE OrElse(Plan(Head(policies), TryPolicy(Head(policies), tree, content, limits)),
                PlanWith(Tail(policies), tree, content, limits))

PlanLayout(tree) ==
    IF tree = EmptyTree THEN Plan(Nothing, NoPlan)
    ELSE PlanWith(Policies, tree, Content, Limits)

(***************************************************************************)
(* Insertion.                                                              *)
(***************************************************************************)

AxisForFrame(frame) ==
    IF frame.size["vertical"] >= frame.size["horizontal"] THEN "vertical" ELSE "horizontal"

\* How long the planned frames make a subtree.
RECURSIVE SubtreeLength(_, _, _)
SubtreeLength(node, axis, frames) ==
    IF IsLeaf(node) THEN frames[node.win].size[axis]
    ELSE LET f == SubtreeLength(node.first, axis, frames)
             s == SubtreeLength(node.second, axis, frames)
         IN  IF node.axis = axis THEN f + Gap + s ELSE Max({f, s})

Retained(ratio, first, second) ==
    IF ((first + second) * ratio[1]) \div ratio[2] = first THEN ratio
    ELSE <<2 * first + 1, 2 * (first + second)>>

Regression_KeepRatios(node, target, frames) == node

\* The dividers around the target are written down where bounds have put them.
RECURSIVE RetainPathDividers(_, _, _)
RetainPathDividers(node, target, frames) ==
    IF IsLeaf(node) \/ target \notin Tiled(node) THEN node
    ELSE LET ratio == Retained(node.ratio, SubtreeLength(node.first, node.axis, frames),
                               SubtreeLength(node.second, node.axis, frames))
         IN  IF target \in Tiled(node.first)
             THEN Split(node.axis, ratio, RetainPathDividers(node.first, target, frames), node.second)
             ELSE Split(node.axis, ratio, node.first, RetainPathDividers(node.second, target, frames))

\* planWindowInsertion: the new tree, or Nothing.  The pane is split along its
\* longer side, or along the other if only that fits, or else by any policy.
FitsBeside(base, frame, new, beside, axis) ==
    /\ Greedy(Split(axis, Half, Leaf(beside), Leaf(new)), frame, Limits) # NoPlan
    /\ Greedy(InsertLeaf(base, beside, new, axis), Content, Limits) # NoPlan

Unless(tree, fits) == IF fits THEN tree ELSE Nothing

InsertBeside(tree, base, frame, new, beside, preferred) ==
    IF \E axis \in Axes : FitsBeside(base, frame, new, beside, axis)
    THEN InsertLeaf(base, beside, new,
             IF FitsBeside(base, frame, new, beside, preferred) THEN preferred ELSE Across(preferred))
    ELSE Unless(InsertLeaf(tree, beside, new, preferred),
                PlanLayout(InsertLeaf(tree, beside, new, preferred)).frames # NoPlan)

InsertInto(tree, current, new, beside) ==
    IF current.frames = NoPlan THEN Nothing
    ELSE InsertBeside(tree,
             IF current.policy = "greedy" THEN RetainPathDividers(tree, beside, current.frames) ELSE tree,
             current.frames[beside], new, beside, AxisForFrame(current.frames[beside]))

PlanInsertion(tree, new, beside) ==
    IF tree = EmptyTree THEN Unless(Leaf(new), PlanLayout(Leaf(new)).frames # NoPlan)
    ELSE InsertInto(tree, PlanLayout(tree), new, beside)
=============================================================================
