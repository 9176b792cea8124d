---------------------------- MODULE InitialLayout ----------------------------
(***************************************************************************)
(* The tree that startup infers from where windows are, so that a restart  *)
(* need not move them (packages/layout/src/initial-layout.ts).             *)
(***************************************************************************)
EXTENDS GeometricMove

\* The cuts along an axis that no window crosses.  `border` is twice the middle.
Cuts(wins, frames, axis) ==
    LET ordered == SortSeq(wins, LAMBDA v, w : frames[v].at[axis] < frames[w].at[axis])
        Reach(i) == FarEnd(ordered, i, frames, axis)
        Start(i) == frames[ordered[i + 1]].at[axis]
        Cut(i) == [axis |-> axis, first |-> SubSeq(ordered, 1, i),
                   second |-> SubSeq(ordered, i + 1, Len(ordered)), border |-> Reach(i) + Start(i)]
        clear == SelectSeq([i \in 1..(Len(ordered) - 1) |-> i], LAMBDA i : Reach(i) <= Start(i))
    IN  [n \in DOMAIN clear |-> Cut(clear[n])]

\* separatingPartition: the most balanced one, and a vertical one rather than a
\* horizontal one.
SeparatingPartition(cuts) ==
    FirstBy(cuts, LAMBDA c : <<Distance(Len(c.first), Len(c.second))>>)

\* overlappingPartition: half of the windows, by their centers.
Center(frame, axis) == frame.at[axis] + End(frame, axis)

ByCenter(wins, frames, axis) ==
    SortSeq(wins, LAMBDA v, w :
        Lower(<<Center(frames[v], axis), Center(frames[v], Across(axis))>>,
              <<Center(frames[w], axis), Center(frames[w], Across(axis))>>))

CenterSpread(wins, frames, axis) ==
    Max({Center(frames[v], axis) - Center(frames[w], axis) : v, w \in ToSet(wins)})

Halves(ordered, half, axis) ==
    [axis |-> axis, first |-> SubSeq(ordered, 1, half), second |-> SubSeq(ordered, half + 1, Len(ordered)),
     border |-> Nothing]

SpreadAxis(wins, frames) ==
    IF CenterSpread(wins, frames, "vertical") >= CenterSpread(wins, frames, "horizontal")
    THEN "vertical" ELSE "horizontal"

OverlappingPartition(wins, frames, axis) ==
    Halves(ByCenter(wins, frames, axis), (Len(wins) + 1) \div 2, axis)

PartitionBy(cuts, wins, frames) ==
    IF cuts # <<>> THEN SeparatingPartition(cuts)
    ELSE OverlappingPartition(wins, frames, SpreadAxis(wins, frames))

\* Windows that were side by side elsewhere are scaled into the target.
BorderIn(partition, source, target) ==
    LET axis == partition.axis
    IN  IF source.at[axis] >= End(target, axis) \/ End(source, axis) <= target.at[axis]
        THEN 2 * target.at[axis]
                 + ((partition.border - 2 * source.at[axis]) * target.size[axis]) \div source.size[axis]
        ELSE partition.border

\* Twice the length of the first part.
FirstLength(partition, source, target, usable) ==
    IF partition.border = Nothing THEN usable
    ELSE Max({2, Min({2 * usable - 2,
                      BorderIn(partition, source, target) - 2 * target.at[partition.axis] - Gap})})

InferredRatio(partition, source, target, usable) ==
    IF usable > 2 THEN <<FirstLength(partition, source, target, usable), 2 * usable>> ELSE Half

Usable(target, axis) == Max({0, target.size[axis] - Gap})

RECURSIVE InferInitialTree(_, _, _)
RECURSIVE InferSplit(_, _, _, _)
RECURSIVE InferParts(_, _, _, _, _)
InferParts(partition, ratio, realized, frames, target) ==
    Split(partition.axis, ratio,
        InferInitialTree(partition.first, frames, Section(target, partition.axis, 0, realized)),
        InferInitialTree(partition.second, frames,
            Section(target, partition.axis, realized + Gap,
                    Max({0, target.size[partition.axis] - realized - Gap}))))

InferSplit(partition, ratio, frames, target) ==
    InferParts(partition, ratio, (Usable(target, partition.axis) * ratio[1]) \div ratio[2], frames, target)

InferPartition(partition, source, frames, target) ==
    InferSplit(partition,
        InferredRatio(partition, source, target, Usable(target, partition.axis)), frames, target)

InferInitialTree(wins, frames, target) ==
    IF Len(wins) = 1 THEN Leaf(Head(wins))
    ELSE InferPartition(
             PartitionBy(Cuts(wins, frames, "vertical") \o Cuts(wins, frames, "horizontal"), wins, frames),
             BoundsOf(wins, frames), frames, target)
=============================================================================
