--------------------------- MODULE LearnedLimitsMC ---------------------------
EXTENDS LearnedLimits

CONSTANTS winA, winB, winC, editor, viewer

Sizes(w, h) == [a \in Axes |-> IF a = "vertical" THEN w ELSE h]
MCArea == [at |-> Sizes(0, 0), size |-> Sizes(140, 100)]
MCContent == [at |-> Sizes(10, 10), size |-> Sizes(120, 80)]

Bounds(min, max) ==
    [a \in Axes |-> IF a = "vertical" THEN [min |-> min, max |-> max]
                    ELSE [min |-> 0, max |-> Unbounded]]
MCAppOf == [win \in Windows |-> IF win = winC THEN viewer ELSE editor]
MCLimits == [win \in Windows |-> IF win = winC THEN Bounds(150, Unbounded) ELSE Bounds(100, 110)]
MCUpdates == [app \in {viewer} |-> Bounds(20, Unbounded)]
MCTight == [win \in Windows |-> IF win = winC THEN Bounds(20, Unbounded) ELSE Bounds(100, 110)]
MCNoUpdates == [app \in {} |-> Bounds(0, Unbounded)]
MCDrags == { [at |-> Sizes(30, 20), size |-> Sizes(30, 60)],
             [at |-> Sizes(10, 10), size |-> Sizes(110, 80)] }
MCPolicies == <<"greedy", "overlap", "stack", "overflow">>
=============================================================================
