---------------------------- MODULE GeometricMove ----------------------------
(***************************************************************************)
(* Directions: which window is focused and how a tiled window moves        *)
(* (packages/layout/src/direction.ts and layout/geometric-move.ts).        *)
(*                                                                         *)
(* Frames are the observed ones.  A direction is an axis and whether it    *)
(* goes to the lower coordinates: left is ["vertical", before].  The nodes *)
(* of a tree differ in the windows below them, so the identity of a node   *)
(* is its value.  Nodes are listed children first, as regionsOf does.      *)
(***************************************************************************)
EXTENDS BspTree, SequencesExt

Directions == [axis : Axes, before : BOOLEAN]

BorderTolerance == 2
Near(m, n) == -BorderTolerance <= m - n /\ m - n <= BorderTolerance
Distance(m, n) == IF m > n THEN m - n ELSE n - m

End(frame, axis) == frame.at[axis] + frame.size[axis]
Shared(f, g, axis) ==
    Min({End(f, axis), End(g, axis)}) - Max({f.at[axis], g.at[axis]})
Apart(f, g, axis) == Max({0, -Shared(f, g, axis)})
\* Twice the distance between the centers.
OffCenter(f, g, axis) == Distance(f.at[axis] + End(f, axis), g.at[axis] + End(g, axis))

Union(f, g) ==
    LET low == [axis \in Axes |-> Min({f.at[axis], g.at[axis]})]
    IN  [at |-> low, size |-> [axis \in Axes |-> Max({End(f, axis), End(g, axis)}) - low[axis]]]

\* How far the first windows of an order reach.
FarEnd(order, i, frames, axis) == Max({End(frames[order[j]], axis) : j \in 1..i})

\* The lexicographic order of sort keys.
Lower(k, l) ==
    \E i \in DOMAIN k : k[i] < l[i] /\ \A j \in 1..(i - 1) : k[j] = l[j]

\* What a stable sort by the key puts first.
FirstBy(seq, Key(_)) ==
    LET keys == {Append(Key(seq[i]), i) : i \in DOMAIN seq}
    IN  seq[Last(CHOOSE k \in keys : \A l \in keys : ~Lower(l, k))]

(***************************************************************************)
(* focusDirection: the nearest window that begins beyond the border.       *)
(***************************************************************************)

Beyond(from, frame, direction) ==
    IF direction.before THEN from.at[direction.axis] - End(frame, direction.axis)
    ELSE frame.at[direction.axis] - End(from, direction.axis)

FocusRank(from, frame, direction) ==
    <<Beyond(from, frame, direction), Apart(from, frame, Across(direction.axis)),
      OffCenter(from, frame, Across(direction.axis))>>

FocusNeighbor(frames, origin, candidates, direction) ==
    LET forward == SelectSeq(candidates, LAMBDA win :
                       win # origin /\ Beyond(frames[origin], frames[win], direction) >= 0)
    IN  IF forward = <<>> THEN Nothing
        ELSE FirstBy(forward, LAMBDA win : FocusRank(frames[origin], frames[win], direction))

(***************************************************************************)
(* Regions: nodes with the frame they cover.                               *)
(***************************************************************************)

RECURSIVE Postorder(_)
Postorder(node) ==
    IF IsLeaf(node) THEN <<node>> ELSE Postorder(node.first) \o Postorder(node.second) \o <<node>>

RECURSIVE FrameOf(_, _)
FrameOf(node, frames) ==
    IF IsLeaf(node) THEN frames[node.win]
    ELSE Union(FrameOf(node.first, frames), FrameOf(node.second, frames))

Area(node, frames) ==
    MapThenSumSet(LAMBDA win : frames[win].size["vertical"] * frames[win].size["horizontal"], Tiled(node))

Length(node, axis, frames) == FrameOf(node, frames).size[axis]

\* Splits strictly above a node, and the lowest of them.
Above(tree, node) == {n \in Nodes(tree) : n # node /\ node \in Nodes(n)}
Lowest(splits) == CHOOSE n \in splits : Nodes(n) \cap splits = {n}
Parent(tree, node) == Lowest(Above(tree, node))
CommonAncestor(tree, n, m) == Lowest(Above(tree, n) \cap Above(tree, m))
IsChild(split, node) == split.first = node \/ split.second = node

Regression_AlwaysFirst(axis, ratio, moved, rest, before) == Split(axis, ratio, moved, rest)

Toward(axis, ratio, moved, rest, before) ==
    IF before THEN Split(axis, ratio, moved, rest) ELSE Split(axis, ratio, rest, moved)

\* The panes that splits of one axis put side by side.
RECURSIVE Panes(_, _)
Panes(node, axis) ==
    IF ~IsLeaf(node) /\ node.axis = axis THEN Panes(node.first, axis) \o Panes(node.second, axis)
    ELSE <<node>>

\* Panes [node, size] side by side, each split at its length.
JoinPanes(panes, axis) ==
    LET Join(l, r) ==
            [node |-> Split(axis, <<l.size, l.size + r.size>>, l.node, r.node),
             size |-> l.size + Gap + r.size]
    IN  FoldRight(Join, Front(panes), Last(panes)).node

Sized(panes, axis, frames) ==
    [i \in DOMAIN panes |-> [node |-> panes[i], size |-> Length(panes[i], axis, frames)]]

(***************************************************************************)
(* A window in front, side by side with the origin.                        *)
(***************************************************************************)

ForwardTarget(tree, frames, origin, direction) ==
    LET axis == direction.axis
        from == frames[origin.win]
        Ahead(m, n) == IF direction.before THEN n - m > BorderTolerance ELSE m - n > BorderTolerance
        ahead == SelectSeq(Postorder(tree), LAMBDA node :
            /\ IsLeaf(node) /\ node # origin
            /\ Ahead(frames[node.win].at[axis], from.at[axis])
            /\ Ahead(End(frames[node.win], axis), End(from, axis)))
        Key(node) ==
            LET f == frames[node.win]
                across == Apart(from, f, Across(axis))
            IN  <<IF Shared(from, f, Across(axis)) > 0 THEN 0 ELSE 1,
                  Apart(from, f, axis) * Apart(from, f, axis) + across * across,
                  OffCenter(from, f, Across(axis))>>
    IN  IF ahead = <<>> THEN Nothing ELSE FirstBy(ahead, Key)

\* Origin and target change places along the axis, with their lengths.
SwapAlongAxis(tree, frames, ancestor, origin, target, axis) ==
    LET panes == Panes(ancestor, axis)
        Other(node) == IF node = origin THEN target ELSE IF node = target THEN origin ELSE node
        Rebuild[node \in Nodes(ancestor)] ==
            IF IsLeaf(node) \/ node.axis # axis
            THEN [node |-> Other(node), size |-> Length(Other(node), axis, frames)]
            ELSE LET f == Rebuild[node.first]
                     s == Rebuild[node.second]
                 IN  [node |-> Split(axis, <<f.size, f.size + s.size>>, f.node, s.node),
                      size |-> f.size + Gap + s.size]
    IN  IF Contains(panes, origin) /\ Contains(panes, target)
        THEN ReplaceNode(tree, ancestor, Rebuild[ancestor].node) ELSE Nothing

BoundsOf(wins, frames) ==
    FoldLeft(Union, frames[Head(wins)], [i \in DOMAIN wins |-> frames[wins[i]]])

\* Cut windows into a tree at the first border that no window crosses.
RECURSIVE SliceFrames(_, _, _)
SliceFrames(wins, frames, axes) ==
    LET bounds == BoundsOf(wins, frames)
        Ordered(axis) == SortSeq(wins, LAMBDA v, w : frames[v].at[axis] < frames[w].at[axis])
        Border(axis, i) == FarEnd(Ordered(axis), i, frames, axis)
        Ratio(axis, i) == <<Border(axis, i) - bounds.at[axis], bounds.size[axis] - Gap>>
        Cut(axis, i) ==
            Split(axis, Ratio(axis, i), SliceFrames(SubSeq(Ordered(axis), 1, i), frames, axes),
                  SliceFrames(SubSeq(Ordered(axis), i + 1, Len(wins)), frames, axes))
        cuts == {c \in (1..2) \X (1..(Len(wins) - 1)) :
                    LET axis == axes[c[1]] IN
                    /\ Border(axis, c[2]) <= frames[Ordered(axis)[c[2] + 1]].at[axis] + BorderTolerance
                    /\ ValidRatio(Ratio(axis, c[2]))
                    /\ Nothing \notin {Cut(axis, c[2]).first, Cut(axis, c[2]).second}}
        best == CHOOSE c \in cuts : \A d \in cuts : ~Lower(d, c)
    IN  IF Len(wins) = 1 THEN Leaf(Head(wins))
        ELSE IF cuts = {} THEN Nothing ELSE Cut(axes[best[1]], best[2])

CloseFrames(f, g) ==
    \A axis \in Axes : Near(f.at[axis], g.at[axis]) /\ Near(f.size[axis], g.size[axis])

\* Cells of a grid change places although the tree has cut the other way first.
SwapAlignedFrames(tree, frames, ancestor, origin, target, axis) ==
    LET low == IF frames[origin.win].at[axis] < frames[target.win].at[axis] THEN origin.win ELSE target.win
        high == IF low = origin.win THEN target.win ELSE origin.win
        place == frames[low].at[axis] + frames[high].size[axis]
                     + frames[high].at[axis] - End(frames[low], axis)
        desired == [win \in Tiled(ancestor) |->
            LET at == CASE win = high -> frames[low].at[axis]
                        [] win = low -> place
                        [] OTHER -> frames[win].at[axis]
            IN  [at |-> With(frames[win].at, axis, at), size |-> frames[win].size]]
        sliced == SliceFrames(LeafOrder(ancestor), desired, <<Across(axis), axis>>)
        content == BoundsOf(LeafOrder(ancestor), desired)
        planned == Greedy(sliced, content, [win \in Tiled(ancestor) |-> Free])
    IN  IF sliced # Nothing /\ planned # NoPlan
             /\ \A win \in Tiled(ancestor) : CloseFrames(planned[win], desired[win])
        THEN ReplaceNode(tree, ancestor, sliced) ELSE tree

MoveDirect(tree, frames, origin, target, axis) ==
    LET ancestor == CommonAncestor(tree, origin, target)
        parent == Parent(tree, origin)
        beside == Parent(tree, target)
        swapped == SwapAlongAxis(tree, frames, ancestor, origin, target, axis)
        aligned == /\ Near(frames[origin.win].at[Across(axis)], frames[target.win].at[Across(axis)])
                   /\ Near(End(frames[origin.win], Across(axis)), End(frames[target.win], Across(axis)))
        carried == IF parent.first = origin THEN Split(parent.axis, parent.ratio, origin, target)
                   ELSE Split(parent.axis, parent.ratio, target, origin)
        joined == IF beside.first = target THEN Split(beside.axis, beside.ratio, beside.second, origin)
                  ELSE Split(beside.axis, beside.ratio, origin, beside.first)
    IN  CASE aligned /\ swapped # Nothing -> swapped
          [] aligned /\ swapped = Nothing -> SwapAlignedFrames(tree, frames, ancestor, origin, target, axis)
          [] ~aligned /\ parent.axis # axis -> ReplaceNode(RemoveLeaf(tree, origin.win), target, carried)
          [] ~aligned /\ parent.axis = axis /\ beside.axis # axis ->
                IF beside \in Above(tree, origin) THEN tree
                ELSE ReplaceNode(ReplaceNode(tree, origin, target), beside, joined)
          [] OTHER -> IF swapped # Nothing THEN swapped ELSE tree

MoveDiagonal(tree, frames, origin, target, axis) ==
    ReplaceNode(RemoveLeaf(tree, origin.win), target,
        Toward(Across(axis), Half, origin, target,
               frames[origin.win].at[Across(axis)] < frames[target.win].at[Across(axis)]))

(***************************************************************************)
(* At an outer edge: the window shares the edge with a neighbor, which it  *)
(* takes beside it so that one of them leaves the edge.                    *)
(***************************************************************************)

EdgeCandidates(tree, frames, origin, direction, groups) ==
    LET axis == direction.axis
        from == frames[origin.win]
        Place(node) == FrameOf(node, frames)
        Border(frame) == IF direction.before THEN frame.at[axis] ELSE End(frame, axis)
        borders == {Border(frames[win]) : win \in Tiled(tree)}
        outer == IF direction.before THEN Min(borders) ELSE Max(borders)
        eligible == {n \in Nodes(tree) :
            /\ n # origin /\ n \notin Above(tree, origin) /\ (groups \/ IsLeaf(n))
            /\ Near(Border(Place(n)), outer)
            /\ Shared(from, Place(n), Across(axis)) <= BorderTolerance}
        Side(n) == Place(n).at[Across(axis)] < from.at[Across(axis)]
        adjacent == {n \in eligible : ~ \E m \in eligible :
            /\ Side(m) = Side(n)
            /\ Apart(from, Place(m), Across(axis)) + BorderTolerance < Apart(from, Place(n), Across(axis))}
    IN  IF Near(Border(from), outer) THEN SelectSeq(Postorder(tree), LAMBDA n : n \in adjacent) ELSE <<>>

\* The tree without the window, every divider across the movement at the
\* lengths that remain.
RECURSIVE RemoveForEdge(_, _, _, _)
RemoveForEdge(node, frames, win, axis) ==
    IF IsLeaf(node) THEN IF node.win = win THEN Nothing ELSE node
    ELSE LET f == RemoveForEdge(node.first, frames, win, axis)
             s == RemoveForEdge(node.second, frames, win, axis)
             e == SubtreeLength(f, axis, frames)
         IN  CASE f = Nothing -> s
               [] s = Nothing -> f
               [] f = node.first /\ s = node.second -> node
               [] OTHER -> Split(node.axis,
                      IF node.axis = axis THEN <<e, e + SubtreeLength(s, axis, frames)>> ELSE node.ratio, f, s)

\* The origin on one side, and only the target on the other (TilesExactly).
Regression_PairAlone(tree, ancestor, origin, target, axis, before) ==
    Toward(axis, Parent(tree, origin).ratio, origin, target, before)

\* The origin on one side, the rest of the ancestor on the other.
EdgePair(tree, ancestor, origin, target, axis, before) ==
    LET parent == Parent(tree, origin)
        beside == Parent(tree, target)
        rest == RemoveLeaf(ancestor, origin.win)
        single == IsChild(ancestor, origin) /\ ~IsChild(ancestor, target) /\ beside.axis = axis
    IN  Toward(axis, IF parent.axis = axis THEN parent.ratio ELSE ancestor.ratio, origin,
               IF single THEN ReplaceNode(rest, beside, Split(Across(axis), beside.ratio, beside.first, beside.second)) ELSE rest,
               before)

\* The origin and its neighbor are children of a pane on the edge: the pane next
\* to theirs stays beside the origin, and the neighbor spans both.
RotateOuterEdge(tree, frames, origin, target, direction) ==
    LET axis == direction.axis
        ancestor == CommonAncestor(tree, origin, target)
        above == Above(tree, ancestor)
        parent == Lowest(above)
        RunOf[n \in above] ==
            IF Above(tree, n) # {} /\ Parent(tree, n).axis = axis THEN RunOf[Parent(tree, n)] ELSE n
        run == RunOf[parent]
        panes == Panes(run, axis)
        at == SelectInSeq(panes, LAMBDA n : n = ancestor)
        next == at + (IF direction.before THEN 1 ELSE -1)
        low == Min({at, next})
        sizes == Sized(panes, axis, frames)
        together == sizes[at].size + sizes[next].size
        pair == Toward(axis, ancestor.ratio, origin, panes[next], direction.before)
        rotated == Toward(axis, IF Len(panes) = 2 THEN parent.ratio ELSE <<sizes[low].size, together>>,
                          pair, target, direction.before)
    IN  IF /\ IsChild(ancestor, origin) /\ IsChild(ancestor, target)
           /\ above # {} /\ parent.axis = axis
           /\ ancestor = (IF direction.before THEN parent.first ELSE parent.second)
           /\ next \in DOMAIN panes
        THEN ReplaceNode(tree, run, JoinPanes(
                SubSeq(sizes, 1, low - 1) \o <<[node |-> rotated, size |-> together + Gap]>>
                    \o SubSeq(sizes, low + 2, Len(sizes)), axis))
        ELSE Nothing

PairAdjacentRegions(tree, frames, origin, target, direction) ==
    LET across == Across(direction.axis)
        ancestor == CommonAncestor(tree, origin, target)
        panes == Panes(ancestor, across)
        sizes == Sized(panes, across, frames)
        PaneOf(node) == SelectInSeq(panes, LAMBDA p : node \in Nodes(p))
        low == Min({PaneOf(origin), PaneOf(target)})
        together == sizes[low].size + sizes[low + 1].size
        pair == IF Len(panes) = 2 THEN ancestor
                ELSE Split(across, <<sizes[low].size, together>>, panes[low], panes[low + 1])
        rotated == EdgePair(tree, pair, origin, target, direction.axis, direction.before)
    IN  IF low > 0 /\ Distance(PaneOf(origin), PaneOf(target)) = 1
        THEN ReplaceNode(tree, ancestor, JoinPanes(
                SubSeq(sizes, 1, low - 1) \o <<[node |-> rotated, size |-> together + Gap]>>
                    \o SubSeq(sizes, low + 2, Len(sizes)), across))
        ELSE Nothing

Unlike(node, origin, frames) == Distance(Area(node, frames), Area(origin, frames))

\* Another candidate is as like the origin as the target, up to its border.
Tied(candidates, target, origin, frames) ==
    \E i \in DOMAIN candidates :
        /\ candidates[i] # target
        /\ Unlike(candidates[i], origin, frames) - Unlike(target, origin, frames)
               <= frames[origin.win].size["vertical"] + frames[origin.win].size["horizontal"]

Otherwise(tree, other) == IF tree # Nothing THEN tree ELSE other

PairAtEdge(tree, ancestor, origin, target, direction) ==
    ReplaceNode(tree, ancestor, EdgePair(tree, ancestor, origin, target, direction.axis, direction.before))

ShareEdge(tree, frames, candidates, origin, target, direction) ==
    IF Tied(candidates, target, origin, frames)
    THEN Toward(direction.axis, Half, origin,
                RemoveForEdge(tree, frames, origin.win, Across(direction.axis)), direction.before)
    ELSE Otherwise(RotateOuterEdge(tree, frames, origin, target, direction),
         Otherwise(PairAdjacentRegions(tree, frames, origin, target, direction),
                   PairAtEdge(tree, CommonAncestor(tree, origin, target), origin, target, direction)))

ShareEdgeWithAny(tree, frames, candidates, origin, direction) ==
    IF candidates = <<>> THEN tree
    ELSE ShareEdge(tree, frames, candidates, origin,
                   FirstBy(candidates, LAMBDA n : <<Unlike(n, origin, frames)>>), direction)

MoveAtEdge(tree, frames, origin, direction, groups) ==
    ShareEdgeWithAny(tree, frames, EdgeCandidates(tree, frames, origin, direction, groups), origin, direction)

MoveToward(tree, frames, origin, target, direction) ==
    IF Shared(frames[origin.win], frames[target.win], Across(direction.axis)) > 0
    THEN MoveDirect(tree, frames, origin, target, direction.axis)
    ELSE MoveDiagonal(tree, frames, origin, target, direction.axis)

MoveBy(tree, frames, origin, target, direction, groups) ==
    IF target = Nothing THEN MoveAtEdge(tree, frames, origin, direction, groups)
    ELSE MoveToward(tree, frames, origin, target, direction)

MoveGeometrically(tree, frames, win, direction, groups) ==
    IF Cardinality(Tiled(tree)) < 2 THEN tree
    ELSE MoveBy(tree, frames, Leaf(win), ForwardTarget(tree, frames, Leaf(win), direction), direction, groups)
=============================================================================
