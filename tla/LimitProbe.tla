----------------------------- MODULE LimitProbe -----------------------------
(***************************************************************************)
(* The probe of a parked window's limits (engine.ts, probeWindowLimits):   *)
(* it nudges the window, asks for sizes at both ends of each axis, puts    *)
(* the window back after every request, and publishes what it measured.    *)
(* The writes are calls to the sidecar (GeometryAdapter.swift), several    *)
(* attribute writes with pauses between them, which go on when the probe   *)
(* that awaits them is interrupted or stops waiting.  The probe holds the  *)
(* engine's gate throughout, so no cycle or command takes part.            *)
(***************************************************************************)
EXTENDS Naturals, Sequences, SequencesExt

CONSTANTS
    Original,    \* the parked window's size: length per axis
    Largest,     \* the largest work area: length per axis
    Kinds,       \* the windows that may be probed: [lo, hi, moves, tied]
    MaxTrouble   \* bound on what others do meanwhile

Axes == {"width", "height"}

ProbeAssumption ==
    /\ Original \in [Axes -> Nat \ {0}]
    /\ Largest \in [Axes -> Nat]
    /\ \A a \in Axes : Original[a] <= Largest[a]
    /\ Kinds \subseteq [lo : [Axes -> Nat], hi : [Axes -> Nat],
                       moves : {"free", "clamped", "stuck", "strays"}, tied : BOOLEAN]
    /\ \A k \in Kinds, a \in Axes :
         1 <= k.lo[a] /\ k.lo[a] <= Original[a] /\ Original[a] <= k.hi[a]
    /\ MaxTrouble \in Nat

ASSUME ProbeAssumption

VARIABLES
    kind,      \* what the window does with a request; it never changes
    window,    \* [who, size, at, usable]: who answers to its identity
    context,   \* topology and parked intent are as the probe captured them
    calls,     \* what the sidecar is carrying out, oldest first
    probe,     \* the probing fiber
    learning,  \* [memory, saved, dirty]: the published bounds
    trouble,   \* what others did so far
    meddled,   \* someone else sized or moved the window (history)
    refused,   \* ... an attribute write was refused (history)
    spoiled    \* ... or hindered the last attempt to put it back (history)

vars == <<kind, window, context, calls, probe, learning, trouble, meddled, refused, spoiled>>

-----------------------------------------------------------------------------
(* Where a window is: in the corner a size calls for, held by the system   *)
(* near its corner, nudged by a point, or on the screen.                   *)

Corner(size) == [kind |-> "corner", of |-> size]
Clamped == [kind |-> "clamped", of |-> Original]
Nudged == [kind |-> "nudged", of |-> Original]
OnScreen == [kind |-> "screen", of |-> Original]

AtHome(w) == w.size = Original /\ w.at = Corner(Original)

SafelyParked(w) == w.at \in {Corner(w.size), Clamped}

\* What the window makes of a requested size.
Sized(size) ==
    LET fit == [a \in Axes |-> IF size[a] < kind.lo[a] THEN kind.lo[a]
                               ELSE IF size[a] > kind.hi[a] THEN kind.hi[a]
                               ELSE size[a]]
    IN IF kind.tied
       THEN [fit EXCEPT !["height"] = IF fit["width"] = Original["width"]
                                      THEN Original["height"] ELSE Original["height"] + 1]
       ELSE fit

\* What the window and the system make of a requested position.
Placed(old, at) ==
    CASE kind.moves = "stuck" -> old
      [] kind.moves = "clamped" /\ at.kind = "corner" /\ at # Corner(Original) -> Clamped
      [] kind.moves = "strays" /\ at.kind = "corner" /\ at # Corner(Original) -> OnScreen
      [] OTHER -> at

-----------------------------------------------------------------------------
(* The script: which size is asked for, in order.                          *)

Script ==
    << [name |-> "nudge", axis |-> "width"],
       [name |-> "shrink", axis |-> "width"], [name |-> "grow", axis |-> "width"],
       [name |-> "shrink", axis |-> "height"], [name |-> "grow", axis |-> "height"],
       [name |-> "least", axis |-> "width"], [name |-> "least", axis |-> "height"],
       [name |-> "most", axis |-> "width"], [name |-> "most", axis |-> "height"] >>

Job == Script[probe.job]

Requested(job) ==
    [Original EXCEPT ![job.axis] =
        CASE job.name = "shrink" -> IF @ = 1 THEN 1 ELSE @ - 1
          [] job.name = "grow" -> @ + 1
          [] job.name = "least" -> 1
          [] job.name = "most" -> Largest[job.axis]
          [] OTHER -> @]

NoEvidence == [name \in {"nudge", "shrink", "grow", "least", "most"} |-> [a \in Axes |-> 0]]

\* A size change shows when the last capability sample differs from the original.
Resizes(evidence, a) ==
    \E name \in {"shrink", "grow"} : evidence[name][a] \notin {0, Original[a]}

\* The job after this one; growing is tried only when shrinking changed nothing.
After(evidence) ==
    IF probe.job < Len(Script)
       /\ Script[probe.job + 1].name = "grow"
       /\ Resizes(evidence, Script[probe.job + 1].axis)
    THEN probe.job + 2 ELSE probe.job + 1

\* Past the capability samples both axes must have shown that they resize.
Able(evidence) == After(evidence) > 5 => \A a \in Axes : Resizes(evidence, a)

-----------------------------------------------------------------------------
(* The fiber.                                                              *)

NoBounds == [min |-> [a \in Axes |-> 0], max |-> [a \in Axes |-> 0]]

Init ==
    /\ kind \in Kinds
    /\ window = [who |-> 1, size |-> Original, at |-> Corner(Original), usable |-> TRUE]
    /\ context = TRUE
    /\ calls = <<>>
    /\ probe = [pc |-> "idle", job |-> 1, final |-> FALSE, failed |-> FALSE,
                pending |-> FALSE, stable |-> FALSE, seen |-> Original,
                evidence |-> NoEvidence]
    /\ learning = [memory |-> NoBounds, saved |-> NoBounds, dirty |-> FALSE]
    /\ trouble = 0 /\ meddled = FALSE
    /\ refused = FALSE /\ spoiled = FALSE

\* A guarded read: the same window, still controllable, nothing captured changed.
Guarded == window.who = 1 /\ window.usable /\ context

\* A call to the sidecar that the probe goes on to await.
Call(size, at, todo) ==
    calls' = Append(calls, [size |-> size, at |-> at, todo |-> todo,
                            done |-> 0, mine |-> TRUE])

Frame == <<"size", "at", "size">>

\* Mutant: an operation that failed trusts its own attempt to put it back.
Regression_LeaveAtOnce(p) == [p EXCEPT !.pc = "ended"]

\* Mutant: leaving keeps trying until the window is back.
Regression_LeaveWhenBack(p) ==
    IF p.pending THEN [p EXCEPT !.pc = "putback", !.failed = TRUE]
    ELSE [p EXCEPT !.pc = "ended"]

\* Leaving the operation: its finalizer puts the window back once more.
Leave(p) ==
    IF p.pending /\ ~p.final
    THEN [p EXCEPT !.pc = "putback", !.final = TRUE, !.failed = TRUE]
    ELSE [p EXCEPT !.pc = "ended"]

\* A failing step: a sample puts the window back, the nudge leaves at once.
Fail(p) ==
    IF Script[p.job].name = "nudge" THEN Leave([p EXCEPT !.failed = TRUE])
    ELSE [p EXCEPT !.pc = "putback", !.failed = TRUE]

Start ==
    /\ probe.pc = "idle"
    /\ probe' = IF Guarded /\ AtHome(window)
                THEN [probe EXCEPT !.pc = "begin"]
                ELSE [probe EXCEPT !.pc = "ended", !.failed = TRUE]
    /\ UNCHANGED <<kind, window, context, calls, learning, trouble, meddled, refused, spoiled>>

Request ==
    /\ probe.pc = "begin"
    /\ IF Guarded /\ AtHome(window)
       THEN /\ IF Job.name = "nudge" THEN Call(Original, Nudged, <<"at">>)
               ELSE Call(Requested(Job), Corner(Requested(Job)), Frame)
            /\ probe' = [probe EXCEPT !.pc = "writing", !.pending = TRUE]
       ELSE probe' = Fail(probe) /\ UNCHANGED calls
    /\ UNCHANGED <<kind, window, context, learning, trouble, meddled, refused, spoiled>>

MeasureNudge ==
    /\ probe.pc = "measure" /\ Job.name = "nudge"
    /\ probe' = IF ~Guarded THEN Fail(probe)
                ELSE [probe EXCEPT !.pc = "putback",
                        !.failed = ~(probe.stable /\ window.size = Original /\ window.at = Nudged)]
    /\ UNCHANGED <<kind, window, context, calls, learning, trouble, meddled, refused, spoiled>>

Measure ==
    /\ probe.pc = "measure" /\ Job.name # "nudge"
    /\ probe' = IF /\ probe.stable /\ Guarded
                   /\ \A a \in Axes \ {Job.axis} : window.size[a] = Original[a]
                THEN [probe EXCEPT !.pc = "correct", !.seen = window.size]
                ELSE Fail(probe)
    /\ UNCHANGED <<kind, window, context, calls, learning, trouble, meddled, refused, spoiled>>

Correct ==
    /\ probe.pc = "correct"
    /\ IF Guarded
       THEN /\ Call(probe.seen, Corner(probe.seen), <<"at">>)
            /\ probe' = [probe EXCEPT !.pc = "moving"]
       ELSE probe' = Fail(probe) /\ UNCHANGED calls
    /\ UNCHANGED <<kind, window, context, learning, trouble, meddled, refused, spoiled>>

Verify ==
    /\ probe.pc = "verify"
    /\ probe' = IF /\ probe.stable /\ Guarded
                   /\ window.size = probe.seen /\ SafelyParked(window)
                THEN [probe EXCEPT !.pc = "putback",
                        !.evidence[Job.name][Job.axis] = probe.seen[Job.axis]]
                ELSE Fail(probe)
    /\ UNCHANGED <<kind, window, context, calls, learning, trouble, meddled, refused, spoiled>>

\* Putting the window back asks only that it is still the same window.
PutBack ==
    /\ probe.pc = "putback"
    /\ IF window.who = 1
       THEN /\ Call(Original, Corner(Original), Frame)
            /\ probe' = [probe EXCEPT !.pc = "restoring"]
            /\ spoiled' = FALSE
       ELSE probe' = Leave([probe EXCEPT !.failed = TRUE]) /\ UNCHANGED <<calls, spoiled>>
    /\ UNCHANGED <<kind, window, context, learning, trouble, meddled, refused>>

Compare ==
    /\ probe.pc = "compare"
    /\ LET exact == probe.stable /\ window.who = 1 /\ AtHome(window)
           next == After(probe.evidence)
       IN probe' =
            IF ~exact THEN Leave([probe EXCEPT !.failed = TRUE])
            ELSE IF probe.failed \/ ~Able(probe.evidence)
            THEN Leave([probe EXCEPT !.pending = FALSE, !.failed = TRUE])
            ELSE [probe EXCEPT !.pending = FALSE, !.job = next,
                    !.pc = IF next > Len(Script) THEN "finish" ELSE "begin"]
    /\ UNCHANGED <<kind, window, context, calls, learning, trouble, meddled, refused, spoiled>>

\* Mutant: a window that takes the largest size is taken to stop there.
Regression_ReachIsBound ==
    [min |-> [a \in Axes |-> IF probe.evidence["least"][a] = 1 THEN 0
                             ELSE probe.evidence["least"][a]],
     max |-> [a \in Axes |-> IF probe.evidence["most"][a] <= Largest[a]
                             THEN probe.evidence["most"][a] ELSE 0]]

\* A bound is published when the window stopped short of what was asked.
Findings ==
    [min |-> [a \in Axes |-> IF probe.evidence["least"][a] = 1 THEN 0
                             ELSE probe.evidence["least"][a]],
     max |-> [a \in Axes |-> IF probe.evidence["most"][a] < Largest[a]
                             THEN probe.evidence["most"][a] ELSE 0]]

Publish ==
    /\ probe.pc = "finish"
    /\ IF ~(Guarded /\ AtHome(window))
       THEN probe' = Leave([probe EXCEPT !.failed = TRUE]) /\ UNCHANGED learning
       ELSE IF Findings = NoBounds
       THEN probe' = Leave(probe) /\ UNCHANGED learning
       ELSE /\ learning' = [learning EXCEPT !.memory = Findings, !.dirty = TRUE]
            /\ probe' = [probe EXCEPT !.pc = "saving"]
    /\ UNCHANGED <<kind, window, context, calls, trouble, meddled, refused, spoiled>>

Save ==
    /\ probe.pc = "saving"
    /\ learning' = [learning EXCEPT !.saved = learning.memory, !.dirty = FALSE]
    /\ probe' = Leave(probe)
    /\ UNCHANGED <<kind, window, context, calls, trouble, meddled, refused, spoiled>>

\* A refused save takes the findings out of memory again.
SaveFails ==
    /\ probe.pc = "saving" /\ trouble < MaxTrouble
    /\ learning' = [learning EXCEPT !.memory = learning.saved, !.dirty = FALSE]
    /\ probe' = Leave([probe EXCEPT !.failed = TRUE])
    /\ trouble' = trouble + 1
    /\ UNCHANGED <<kind, window, context, calls, meddled, refused, spoiled>>

Abandoned == [i \in DOMAIN calls |-> [calls[i] EXCEPT !.mine = FALSE]]

\* The queue's deadline or stop() interrupts the operation; its calls go on.
Interrupt ==
    /\ probe.pc \notin {"idle", "ended"} /\ ~probe.final
    /\ probe' = Leave([probe EXCEPT !.failed = TRUE])
    /\ calls' = Abandoned
    /\ UNCHANGED <<kind, window, context, learning, trouble, meddled, refused, spoiled>>

-----------------------------------------------------------------------------
(* The sidecar.                                                            *)

Awaiting == {"writing", "moving", "restoring"}

Resumed(pc) == CASE pc = "writing" -> "measure"
                 [] pc = "moving" -> "verify"
                 [] pc = "restoring" -> "compare"

\* Restoring belongs to putting the window back; so trouble with it counts.
Hinders == probe.pc = "restoring"

\* The pauses between attribute writes are equal, so an older call is ahead.
MayWrite(i) ==
    /\ calls[i].todo # <<>>
    /\ \A j \in 1 .. (i - 1) : calls[j].todo = <<>> \/ calls[j].done > calls[i].done

Write(i) ==
    /\ MayWrite(i)
    /\ LET c == calls[i] IN
       IF window.who # 1
       THEN /\ calls' = [calls EXCEPT ![i].todo = <<>>]
            /\ UNCHANGED window
       ELSE /\ window' = IF Head(c.todo) = "size"
                         THEN [window EXCEPT !.size = Sized(c.size)]
                         ELSE [window EXCEPT !.at = Placed(window.at, c.at)]
            /\ calls' = [calls EXCEPT ![i].todo = Tail(c.todo), ![i].done = c.done + 1]
    /\ UNCHANGED <<kind, context, probe, learning, trouble, meddled, refused, spoiled>>

\* An attribute write that the application refuses ends the call; what it
\* settles at is answered as stable, beside an error the probe does not read.
Refuse(i) ==
    /\ trouble < MaxTrouble
    /\ MayWrite(i)
    /\ calls' = [calls EXCEPT ![i].todo = <<>>]
    /\ trouble' = trouble + 1
    /\ refused' = TRUE
    /\ spoiled' = (spoiled \/ (i = Len(calls) /\ calls[i].at = Corner(Original)))
    /\ UNCHANGED <<kind, window, context, probe, learning, meddled>>

\* A call is answered when its writes are done and the window has settled;
\* nobody hears the answer to a call that is no longer awaited.
Answered(i, stable) ==
    /\ calls[i].todo = <<>>
    /\ calls' = RemoveAt(calls, i)
    /\ probe' = IF calls[i].mine
                THEN [probe EXCEPT !.pc = Resumed(probe.pc), !.stable = stable]
                ELSE probe

Answer(i) ==
    /\ Answered(i, window.who = 1)
    /\ UNCHANGED <<kind, window, context, learning, trouble, meddled, refused, spoiled>>

Unsettled(i) ==
    /\ trouble < MaxTrouble
    /\ Answered(i, FALSE)
    /\ trouble' = trouble + 1
    /\ spoiled' = (spoiled \/ (Hinders /\ calls[i].mine))
    /\ UNCHANGED <<kind, window, context, learning, meddled, refused>>

\* The host stops waiting; the answer that comes later is dropped.
Timeout ==
    /\ trouble < MaxTrouble /\ probe.pc \in Awaiting
    /\ calls' = Abandoned
    /\ probe' = IF Hinders THEN Leave([probe EXCEPT !.failed = TRUE]) ELSE Fail(probe)
    /\ trouble' = trouble + 1
    /\ spoiled' = (spoiled \/ Hinders)
    /\ UNCHANGED <<kind, window, context, learning, meddled, refused>>

\* A read that the probe needs fails.
ReadFails ==
    /\ trouble < MaxTrouble
    /\ \/ probe.pc \in {"begin", "measure", "correct", "verify"} /\ probe' = Fail(probe)
       \/ probe.pc \in {"putback", "compare", "finish"}
          /\ probe' = Leave([probe EXCEPT !.failed = TRUE])
    /\ trouble' = trouble + 1
    /\ spoiled' = (spoiled \/ probe.pc \in {"putback", "compare"})
    /\ UNCHANGED <<kind, window, context, calls, learning, meddled, refused>>

-----------------------------------------------------------------------------
(* Others: people and applications.                                        *)

Disturb ==
    /\ trouble < MaxTrouble /\ probe.pc # "ended"
    /\ trouble' = trouble + 1
    /\ UNCHANGED <<kind, calls, probe, learning, refused>>

Meddle ==
    /\ Disturb
    /\ \/ \E a \in Axes : window' = [window EXCEPT !.size[a] = kind.lo[a]]
       \/ window' = [window EXCEPT !.at = OnScreen]
    /\ meddled' = TRUE /\ spoiled' = TRUE
    /\ UNCHANGED context

\* Another window takes over the name: the identity no longer matches.
Replace ==
    /\ Disturb
    /\ window' = [window EXCEPT !.who = 2, !.at = OnScreen]
    /\ UNCHANGED <<context, meddled, spoiled>>

Minimize ==
    /\ Disturb
    /\ window' = [window EXCEPT !.usable = FALSE]
    /\ UNCHANGED <<context, meddled, spoiled>>

Reconfigure ==
    /\ Disturb
    /\ context' = FALSE
    /\ UNCHANGED <<window, meddled, spoiled>>

Fiber == \/ Start \/ Request \/ MeasureNudge \/ Measure \/ Correct \/ Verify
         \/ PutBack \/ Compare \/ Publish \/ Save

Sidecar == \E i \in DOMAIN calls : Write(i) \/ Answer(i)

Next == \/ Fiber \/ SaveFails \/ Interrupt \/ Sidecar \/ Timeout \/ ReadFails
        \/ \E i \in DOMAIN calls : Refuse(i) \/ Unsettled(i)
        \/ Meddle \/ Replace \/ Minimize \/ Reconfigure

Spec == Init /\ [][Next]_vars /\ WF_vars(Fiber) /\ WF_vars(Sidecar)

-----------------------------------------------------------------------------
(* Properties.                                                             *)

\* When the probe has ended and its calls are done, the window has the frame
\* it had before, whatever failed, was interrupted or went on in the sidecar:
\* unless somebody hindered the last attempt to put it back, or moved a window
\* that cannot be moved back.
RestoredAtTheEnd ==
    /\ probe.pc = "ended" /\ calls = <<>>
    /\ window.who = 1 /\ ~spoiled
    /\ kind.moves = "stuck" => ~meddled
    => AtHome(window)

\* The published bounds are the window's own, all of them and no others.
PublishedIsExact ==
    learning.memory # NoBounds =>
        \A a \in Axes :
            /\ learning.memory.min[a] = IF kind.lo[a] = 1 THEN 0 ELSE kind.lo[a]
            /\ learning.memory.max[a] = IF kind.hi[a] >= Largest[a] THEN 0 ELSE kind.hi[a]

\* What is published is true whatever was interrupted, came late or failed,
\* unless somebody else resized the window or a write was refused; and when the
\* probe has ended it is saved, or marked to be saved.
LearnedIsTrue ==
    /\ ~meddled /\ ~refused => PublishedIsExact
    /\ probe.pc = "ended" => learning.memory = learning.saved \/ learning.dirty

=============================================================================
