---------------------------- MODULE ProbeProofs ----------------------------
(***************************************************************************)
(* Proofs about LimitProbe, for every size, work area and kind of window   *)
(* that ProbeAssumption admits, and any number of troubles; then about     *)
(* ParkingSearch.                                                          *)
(*                                                                         *)
(* The properties of the probe rest on the order in which the sidecar writes: the      *)
(* newest call writes each attribute after all older ones have, so that    *)
(* when it is done no older write is left to undo what it did.             *)
(***************************************************************************)
EXTENDS LimitProbe, ParkingSearch, SequenceTheorems, TLAPS

Names == {"nudge", "shrink", "grow", "least", "most"}
Size == [Axes -> Nat]
Place == [kind : {"corner", "clamped", "nudged", "screen"}, of : Size]

\* What is left of a frame's writes, and the write of a position alone.
Two == <<"at", "size">>
One == <<"size">>
Spot == <<"at">>

CallRecord == [size : Size, at : Place, todo : {Frame, Two, One, Spot, <<>>},
               done : Nat, mine : BOOLEAN]

Pcs == {"idle", "begin", "writing", "measure", "correct", "moving", "verify",
        "putback", "restoring", "compare", "finish", "saving", "ended"}

Bounds == [min : [Axes -> Nat], max : [Axes -> Nat]]

ProbeRecord == [pc : Pcs, job : 1 .. 10, final : BOOLEAN, failed : BOOLEAN,
                pending : BOOLEAN, stable : BOOLEAN, seen : Size,
                evidence : [Names -> [Axes -> Nat]]]

TypeOK ==
    /\ kind \in Kinds
    /\ window \in [who : {1, 2}, size : Size, at : Place, usable : BOOLEAN]
    /\ context \in BOOLEAN
    /\ calls \in Seq(CallRecord)
    /\ probe \in ProbeRecord
    /\ learning \in [memory : Bounds, saved : Bounds, dirty : BOOLEAN]
    /\ trouble \in Nat
    /\ meddled \in BOOLEAN /\ refused \in BOOLEAN /\ spoiled \in BOOLEAN

-----------------------------------------------------------------------------
(* The inductive invariant.                                                *)

\* Where the fiber may be, and what it has on its hands there.
Flow ==
    /\ probe.pc \in {"idle", "begin", "finish", "saving"} => ~probe.pending
    /\ probe.pc \in {"writing", "measure", "correct", "moving", "verify"} => probe.pending
    /\ probe.final => probe.failed /\ probe.pc \in {"putback", "restoring", "compare", "ended"}
    /\ probe.job = 10 => probe.pc \in {"finish", "saving", "ended"}
    /\ probe.pc \in {"finish", "saving"} => probe.job = 10
    /\ probe.pc \in {"correct", "moving", "verify"} => probe.job # 1

\* A frame's writes, none refused: how many are done and which are left.
Whole(c) ==
    \/ c.done = 0 /\ c.todo = Frame
    \/ c.done = 1 /\ c.todo = Two
    \/ c.done = 2 /\ c.todo = One
    \/ c.done = 3 /\ c.todo = <<>>

Shaped == \A i \in DOMAIN calls :
    calls[i].todo = <<>> \/ Whole(calls[i]) \/ (calls[i].done = 0 /\ calls[i].todo = Spot)

\* An older call is ahead of a younger one.
Ordered == \A i, j \in DOMAIN calls :
    j < i => calls[j].todo = <<>> \/ calls[j].done >= calls[i].done

\* The fiber awaits the newest call, and no other.
Awaited ==
    /\ \A i \in DOMAIN calls : calls[i].mine => i = Len(calls) /\ probe.pc \in Awaiting
    /\ probe.pc \in Awaiting => calls # <<>> /\ calls[Len(calls)].mine

Lines == Shaped /\ Ordered /\ Awaited

Calm == \A i \in DOMAIN calls : calls[i].todo = <<>>

\* The newest call sets a frame; when it is done, the window has made of the
\* size what it makes of it, and no older call has a write left.
Carrying(size) ==
    /\ calls # <<>>
    /\ LET c == calls[Len(calls)] IN
         /\ c.size = size /\ Whole(c)
         /\ c.done = 3 => Calm /\ window.size = Sized(size)

\* ... and takes the window home.
Homeward ==
    /\ Carrying(Original)
    /\ LET c == calls[Len(calls)] IN
         /\ c.at = Corner(Original)
         /\ c.done >= 2 => window.at = Corner(Original)

Settled == Calm /\ AtHome(window)

\* Nothing stands in the way of getting the window back.
Fair == /\ window.who = 1 /\ ~spoiled
        /\ kind.moves = "stuck" => ~meddled

Stuck == kind.moves = "stuck" /\ window.who = 1 /\ ~meddled => window.at = Corner(Original)

\* While the fiber has nothing to put back, is putting it back or has ended,
\* the window is home or on its way.
Homing ==
    /\ Fair /\ (~probe.pending \/ probe.pc \in {"restoring", "compare", "ended"})
         => Settled \/ Homeward
    /\ Fair /\ probe.pc = "compare" => Settled

Honest == ~meddled /\ ~refused

\* A trial is measured when the window has made of the request what it does.
Measured ==
    Honest =>
        /\ probe.pc = "writing" /\ probe.job # 1 /\ window.who = 1 => Carrying(Requested(Job))
        /\ probe.pc = "measure" /\ probe.job # 1 /\ window.who = 1
             => Calm /\ window.size = Sized(Requested(Job))
        /\ probe.pc \in {"correct", "moving", "verify"} => probe.seen = Sized(Requested(Job))

Trial(name, a) == Requested([name |-> name, axis |-> a])

\* What was recorded is what the window makes of the trials, and each of the
\* last four trials that is over is recorded.
Recorded ==
    /\ Honest =>
        \A n \in Names, a \in Axes : probe.evidence[n][a] \in {0, Sized(Trial(n, a))[a]}
    /\ Honest =>
        \A j \in 6 .. 9 :
            \/ j < probe.job
            \/ j = probe.job /\ ~probe.failed /\ probe.pc \in {"putback", "restoring", "compare"}
            => probe.evidence[Script[j].name][Script[j].axis] # 0
    /\ probe.job > 5 => \A a \in Axes : Resizes(probe.evidence, a)

Exact(b) ==
    b # NoBounds =>
        \A a \in Axes :
            /\ b.min[a] = IF kind.lo[a] = 1 THEN 0 ELSE kind.lo[a]
            /\ b.max[a] = IF kind.hi[a] >= Largest[a] THEN 0 ELSE kind.hi[a]

Kept ==
    /\ Honest => Exact(learning.memory) /\ Exact(learning.saved)
    /\ learning.memory = learning.saved \/ learning.dirty

Inv == TypeOK /\ Flow /\ Lines /\ Stuck /\ Homing /\ Measured /\ Recorded /\ Kept

-----------------------------------------------------------------------------
(* The script, sizes and places.                                           *)

LEMMA TodoFacts ==
    /\ Frame # <<>> /\ Two # <<>> /\ One # <<>> /\ Spot # <<>>
    /\ Frame # Two /\ Frame # One /\ Frame # Spot /\ Two # One /\ Two # Spot /\ One # Spot
    /\ Head(Frame) = "size" /\ Tail(Frame) = Two
    /\ Head(Two) = "at" /\ Tail(Two) = One
    /\ Head(One) = "size" /\ Tail(One) = <<>>
    /\ Head(Spot) = "at" /\ Tail(Spot) = <<>>
BY DEF Frame, Two, One, Spot

LEMMA ScriptFacts ==
    /\ Len(Script) = 9
    /\ \A j \in 1 .. 9 :
         /\ Script[j].name \in Names /\ Script[j].axis \in Axes
         /\ Script[j] = [name |-> Script[j].name, axis |-> Script[j].axis]
         /\ Script[j].name = "nudge" <=> j = 1
         /\ Script[j].name = "grow" <=> j \in {3, 5}
         /\ Script[j].name = "least" <=> j \in {6, 7}
         /\ Script[j].name = "most" <=> j \in {8, 9}
         /\ Script[j].name = "shrink" <=> j \in {2, 4}
    /\ Script[6].axis = "width" /\ Script[7].axis = "height"
    /\ Script[8].axis = "width" /\ Script[9].axis = "height"
BY DEF Script, Names, Axes

\* The next trial: shrinking is followed by growing or by what comes after it.
LEMMA AfterFacts ==
    ASSUME probe.job \in 1 .. 9, NEW evidence
    PROVE  /\ After(evidence) \in 2 .. 10
           /\ After(evidence) = probe.job + 1
              \/ (After(evidence) = probe.job + 2 /\ probe.job \in {2, 4})
<1>1. CASE probe.job = 9
  BY <1>1, ScriptFacts DEF After
<1>2. CASE probe.job # 9
  <2>1. probe.job + 1 \in 1 .. 9
    BY <1>2
  <2>2. Script[probe.job + 1].name = "grow" => probe.job \in {2, 4}
    BY <2>1, ScriptFacts
  <2>3. QED
    BY <2>1, <2>2, ScriptFacts DEF After
<1>3. QED
  BY <1>1, <1>2

LEMMA KindFacts ==
    ASSUME kind \in Kinds
    PROVE  /\ kind.lo \in [Axes -> Nat] /\ kind.hi \in [Axes -> Nat]
           /\ kind.moves \in {"free", "clamped", "stuck", "strays"} /\ kind.tied \in BOOLEAN
           /\ Original \in Size /\ Largest \in Size
           /\ \A a \in Axes :
                /\ 1 <= kind.lo[a] /\ kind.lo[a] <= Original[a] /\ Original[a] <= kind.hi[a]
                /\ Original[a] <= Largest[a] /\ Original[a] \in Nat /\ 1 <= Original[a]
                /\ kind.lo[a] \in Nat /\ kind.hi[a] \in Nat /\ Largest[a] \in Nat
BY ProbeAssumption DEF ProbeAssumption, Size

LEMMA AxesFacts == "width" \in Axes /\ "height" \in Axes /\ Axes = {"width", "height"}
BY DEF Axes

\* What a window makes of a size, axis by axis.
LEMMA SizedFacts ==
    ASSUME kind \in Kinds, NEW size \in Size
    PROVE  /\ Sized(size) \in Size
           /\ ~kind.tied =>
                \A a \in Axes :
                    Sized(size)[a] = IF size[a] < kind.lo[a] THEN kind.lo[a]
                                     ELSE IF size[a] > kind.hi[a] THEN kind.hi[a]
                                     ELSE size[a]
           /\ kind.tied /\ size["width"] = Original["width"] =>
                Sized(size)["height"] = Original["height"]
<1> DEFINE fit == [a \in Axes |-> IF size[a] < kind.lo[a] THEN kind.lo[a]
                                  ELSE IF size[a] > kind.hi[a] THEN kind.hi[a]
                                  ELSE size[a]]
<1>1. fit \in Size
  BY KindFacts DEF Size
<1>2. Sized(size) = IF kind.tied
                    THEN [fit EXCEPT !["height"] = IF fit["width"] = Original["width"]
                                                   THEN Original["height"]
                                                   ELSE Original["height"] + 1]
                    ELSE fit
  BY DEF Sized
<1>3. CASE kind.tied
  <2>1. Sized(size) \in Size
    BY <1>1, <1>2, <1>3, KindFacts, AxesFacts DEF Size
  <2>2. size["width"] = Original["width"] => fit["width"] = Original["width"]
    BY KindFacts, AxesFacts DEF Size
  <2>3. QED
    BY <1>1, <1>2, <1>3, <2>1, <2>2, AxesFacts DEF Size
<1>4. CASE ~kind.tied
  BY <1>1, <1>2, <1>4
<1>5. QED
  BY <1>3, <1>4, KindFacts

\* A window takes its own size.
LEMMA SizedOriginal ==
    ASSUME kind \in Kinds
    PROVE  Sized(Original) = Original
<1>1. /\ Original \in Size /\ kind.tied \in BOOLEAN
      /\ \A a \in Axes : ~(Original[a] < kind.lo[a]) /\ ~(Original[a] > kind.hi[a])
  BY KindFacts
<1>2. [a \in Axes |-> IF Original[a] < kind.lo[a] THEN kind.lo[a]
                      ELSE IF Original[a] > kind.hi[a] THEN kind.hi[a]
                      ELSE Original[a]] = Original
  BY <1>1 DEF Size
<1>3. [Original EXCEPT !["height"] = Original["height"]] = Original
  BY <1>1, AxesFacts DEF Size
<1>4. QED
  BY <1>1, <1>2, <1>3 DEF Sized

LEMMA PlaceFacts ==
    ASSUME kind \in Kinds
    PROVE  /\ \A size \in Size : Corner(size) \in Place
           /\ Clamped \in Place /\ Nudged \in Place /\ OnScreen \in Place
           /\ \A old \in Place, at \in Place : Placed(old, at) \in Place
           /\ \A old : kind.moves # "stuck" => Placed(old, Corner(Original)) = Corner(Original)
           /\ \A old, at : kind.moves = "stuck" => Placed(old, at) = old
<1>1. \A size \in Size : Corner(size) \in Place
  BY DEF Corner, Place
<1>2. Clamped \in Place /\ Nudged \in Place /\ OnScreen \in Place
  BY KindFacts DEF Clamped, Nudged, OnScreen, Place
<1>3. \A old \in Place, at \in Place : Placed(old, at) \in Place
  BY <1>2 DEF Placed
<1>4. /\ \A old : kind.moves # "stuck" => Placed(old, Corner(Original)) = Corner(Original)
      /\ \A old, at : kind.moves = "stuck" => Placed(old, at) = old
  BY DEF Placed
<1>5. QED
  BY <1>1, <1>2, <1>3, <1>4

LEMMA RequestedFacts ==
    ASSUME NEW name \in Names, NEW a \in Axes, kind \in Kinds
    PROVE  /\ Trial(name, a) \in Size
           /\ \A b \in Axes \ {a} : Trial(name, a)[b] = Original[b]
           /\ name = "least" => Trial(name, a)[a] = 1
           /\ name = "most" => Trial(name, a)[a] = Largest[a]
<1>1. Original \in Size /\ \A b \in Axes : Original[b] \in Nat /\ 1 <= Original[b] /\ Largest[b] \in Nat
  BY KindFacts
<1> DEFINE v == CASE name = "shrink" -> IF Original[a] = 1 THEN 1 ELSE Original[a] - 1
                  [] name = "grow" -> Original[a] + 1
                  [] name = "least" -> 1
                  [] name = "most" -> Largest[a]
                  [] OTHER -> Original[a]
<1>2. v \in Nat /\ (name = "least" => v = 1) /\ (name = "most" => v = Largest[a])
  BY <1>1
<1>3. Trial(name, a) = [Original EXCEPT ![a] = v]
  BY DEF Trial, Requested
<1> HIDE DEF v
<1>4. QED
  BY <1>1, <1>2, <1>3 DEF Size

\* The trial of a job.
LEMMA JobFacts ==
    ASSUME kind \in Kinds, probe.job \in 1 .. 9
    PROVE  /\ Requested(Job) = Trial(Job.name, Job.axis) /\ Requested(Job) \in Size
           /\ Job.name \in Names /\ Job.axis \in Axes
           /\ Job.name = "nudge" <=> probe.job = 1
<1>1. Requested(Job) = Trial(Job.name, Job.axis)
  BY ScriptFacts DEF Job, Trial
<1>2. QED
  BY <1>1, ScriptFacts, RequestedFacts DEF Job


-----------------------------------------------------------------------------
(* What the calls do to each other.                                        *)

LEMMA CallsFacts ==
    ASSUME TypeOK
    PROVE  /\ Len(calls) \in Nat /\ DOMAIN calls = 1 .. Len(calls)
           /\ \A i \in DOMAIN calls : calls[i] \in CallRecord
           /\ calls # <<>> => Len(calls) \in DOMAIN calls
BY DEF TypeOK

\* A call that the fiber makes is the newest, and the only one it awaits.
LEMMA Called ==
    ASSUME TypeOK, Lines, probe.pc \notin Awaiting, probe'.pc \in Awaiting,
           NEW size \in Size, NEW at \in Place, NEW todo \in {Frame, Spot},
           Call(size, at, todo)
    PROVE  /\ calls' \in Seq(CallRecord) /\ Lines'
           /\ calls' # <<>> /\ Len(calls') = Len(calls) + 1
           /\ \A i \in DOMAIN calls : calls'[i] = calls[i]
           /\ calls'[Len(calls')] = [size |-> size, at |-> at, todo |-> todo, done |-> 0, mine |-> TRUE]
<1> DEFINE c == [size |-> size, at |-> at, todo |-> todo, done |-> 0, mine |-> TRUE]
<1>1. c \in CallRecord
  BY DEF CallRecord
<1>2. /\ calls' = Append(calls, c) /\ Len(calls') = Len(calls) + 1
      /\ Len(calls) \in Nat /\ DOMAIN calls' = 1 .. (Len(calls) + 1)
      /\ calls' \in Seq(CallRecord)
      /\ \A i \in 1 .. Len(calls) : calls'[i] = calls[i]
      /\ calls'[Len(calls) + 1] = c
  BY <1>1, AppendProperties DEF Call, TypeOK
<1>3. \A i \in DOMAIN calls : calls[i].done \in Nat /\ ~calls[i].mine
  BY CallsFacts DEF Lines, Awaited, CallRecord
<1>4. /\ c.done = 0 /\ c.todo \in {Frame, Spot} /\ c.mine
      /\ c.todo = Frame => Whole(c)
  BY DEF Whole
<1> HIDE DEF c
<1>5. Shaped'
  <2> SUFFICES ASSUME NEW i \in DOMAIN calls'
               PROVE  calls'[i].todo = <<>> \/ Whole(calls'[i])
                      \/ (calls'[i].done = 0 /\ calls'[i].todo = Spot)
    BY DEF Shaped, Whole
  <2>1. CASE i \in 1 .. Len(calls)
    BY <1>2, <2>1, CallsFacts DEF Lines, Shaped
  <2>2. CASE i = Len(calls) + 1
    BY <1>2, <1>4, <2>2
  <2>3. QED
    BY <1>2, <2>1, <2>2
<1>6. Ordered'
  BY <1>2, <1>3, <1>4, CallsFacts DEF Lines, Ordered
<1>7. Awaited'
  BY <1>2, <1>3, <1>4, CallsFacts, EmptySeq DEF Awaited, Awaiting
<1>8. QED
  BY <1>2, <1>5, <1>6, <1>7, EmptySeq, CallsFacts DEF Lines, c

LEMMA AbandonedFacts ==
    ASSUME TypeOK, Lines, calls' = Abandoned
    PROVE  /\ calls' \in Seq(CallRecord) /\ Len(calls') = Len(calls)
           /\ probe'.pc \notin Awaiting => Lines'
           /\ DOMAIN calls' = DOMAIN calls
           /\ \A i \in DOMAIN calls :
                /\ calls'[i].todo = calls[i].todo /\ calls'[i].done = calls[i].done
                /\ calls'[i].size = calls[i].size /\ calls'[i].at = calls[i].at
                /\ ~calls'[i].mine
<1>1. \A i \in DOMAIN calls : [calls[i] EXCEPT !.mine = FALSE] \in CallRecord
  BY CallsFacts DEF CallRecord
<1>2. calls' = [i \in 1 .. Len(calls) |-> [calls[i] EXCEPT !.mine = FALSE]] /\ Len(calls) \in Nat
  BY CallsFacts DEF Abandoned
<1>3. calls' \in Seq(CallRecord) /\ Len(calls') = Len(calls) /\ DOMAIN calls' = DOMAIN calls
  BY <1>1, <1>2, CallsFacts
<1>4. \A i \in DOMAIN calls :
        /\ calls'[i].todo = calls[i].todo /\ calls'[i].done = calls[i].done
        /\ calls'[i].size = calls[i].size /\ calls'[i].at = calls[i].at
        /\ ~calls'[i].mine
  BY <1>2, CallsFacts DEF CallRecord
<1>5. QED
  BY <1>3, <1>4 DEF Lines, Shaped, Ordered, Awaited, Whole, Awaiting

\* A call that is answered disappears; those behind it move up.
LEMMA RemoveFacts ==
    ASSUME NEW S, NEW s \in Seq(S), NEW i \in 1 .. Len(s)
    PROVE  /\ RemoveAt(s, i) \in Seq(S) /\ Len(RemoveAt(s, i)) = Len(s) - 1
           /\ \A k \in 1 .. (Len(s) - 1) : RemoveAt(s, i)[k] = IF k < i THEN s[k] ELSE s[k + 1]
<1> DEFINE a == SubSeq(s, 1, i - 1)
           b == SubSeq(s, i + 1, Len(s))
<1>1. Len(s) \in Nat /\ i \in Nat /\ 1 <= i /\ i <= Len(s)
  OBVIOUS
<1>2. a \in Seq(S) /\ Len(a) = i - 1 /\ \A k \in 1 .. (i - 1) : a[k] = s[k]
  BY <1>1, SubSeqProperties
<1>3. b \in Seq(S) /\ Len(b) = Len(s) - i /\ \A k \in 1 .. (Len(s) - i) : b[k] = s[i + k]
  BY <1>1, SubSeqProperties
<1>4. RemoveAt(s, i) = a \o b
  BY DEF RemoveAt
<1> HIDE DEF a, b
<1>5. a \o b \in Seq(S) /\ Len(a \o b) = Len(s) - 1
  <2>1. a \in Seq(S) /\ b \in Seq(S)
    BY <1>2, <1>3
  <2>2. a \o b \in Seq(S) /\ Len(a \o b) = Len(a) + Len(b)
    BY <2>1, ConcatProperties
  <2>3. Len(a) + Len(b) = Len(s) - 1
    BY <1>1, <1>2, <1>3
  <2>4. QED
    BY <2>2, <2>3
<1>6. ASSUME NEW k \in 1 .. (Len(s) - 1)
      PROVE  (a \o b)[k] = IF k < i THEN s[k] ELSE s[k + 1]
  <2>1. (a \o b)[k] = IF k <= Len(a) THEN a[k] ELSE b[k - Len(a)]
    BY <1>1, <1>2, <1>3, ConcatProperties
  <2>2. CASE k < i
    <3>1. k <= Len(a) /\ k \in 1 .. (i - 1)
      BY <1>1, <1>2, <2>2
    <3>2. a[k] = s[k]
      BY <1>2, <3>1
    <3>3. QED
      BY <2>1, <2>2, <3>1, <3>2
  <2>3. CASE ~(k < i)
    <3>1. ~(k <= Len(a)) /\ k - Len(a) \in 1 .. (Len(s) - i) /\ i + (k - Len(a)) = k + 1
      BY <1>1, <1>2, <2>3
    <3>2. b[k - Len(a)] = s[i + (k - Len(a))]
      BY <1>3, <3>1
    <3>3. (a \o b)[k] = b[k - Len(a)]
      BY <2>1, <3>1
    <3>4. s[i + (k - Len(a))] = s[k + 1]
      BY <3>1
    <3>5. QED
      BY <2>3, <3>2, <3>3, <3>4
  <2>4. QED
    BY <2>2, <2>3
<1>7. QED
  BY <1>4, <1>5, <1>6

LEMMA Removed ==
    ASSUME TypeOK, Lines, NEW i \in DOMAIN calls, calls' = RemoveAt(calls, i),
           IF calls[i].mine THEN probe'.pc \notin Awaiting ELSE probe'.pc = probe.pc
    PROVE  /\ calls' \in Seq(CallRecord) /\ Lines' /\ Len(calls') = Len(calls) - 1
           /\ \A k \in DOMAIN calls' : calls'[k] = IF k < i THEN calls[k] ELSE calls[k + 1]
           /\ i # Len(calls) =>
                calls' # <<>> /\ calls'[Len(calls')] = calls[Len(calls)]
<1>1. /\ calls' \in Seq(CallRecord) /\ Len(calls') = Len(calls) - 1 /\ Len(calls) \in Nat
      /\ i \in 1 .. Len(calls) /\ DOMAIN calls' = 1 .. (Len(calls) - 1)
      /\ \A k \in 1 .. (Len(calls) - 1) : calls'[k] = IF k < i THEN calls[k] ELSE calls[k + 1]
  <2>1. calls \in Seq(CallRecord) /\ i \in 1 .. Len(calls) /\ Len(calls) \in Nat
    BY CallsFacts DEF TypeOK
  <2>2. /\ RemoveAt(calls, i) \in Seq(CallRecord) /\ Len(RemoveAt(calls, i)) = Len(calls) - 1
        /\ \A k \in 1 .. (Len(calls) - 1) :
             RemoveAt(calls, i)[k] = IF k < i THEN calls[k] ELSE calls[k + 1]
    BY <2>1, RemoveFacts
  <2>3. QED
    BY <2>1, <2>2
<1>2. Shaped'
  <2> SUFFICES ASSUME NEW k \in DOMAIN calls'
               PROVE  calls'[k].todo = <<>> \/ Whole(calls'[k])
                      \/ (calls'[k].done = 0 /\ calls'[k].todo = Spot)
    BY DEF Shaped, Whole
  <2>1. k \in DOMAIN calls /\ k + 1 \in DOMAIN calls
    BY <1>1, CallsFacts
  <2>2. QED
    BY <1>1, <2>1 DEF Lines, Shaped
<1>3. Ordered'
  <2> SUFFICES ASSUME NEW k \in DOMAIN calls', NEW j \in DOMAIN calls', j < k
               PROVE  calls'[j].todo = <<>> \/ calls'[j].done >= calls'[k].done
    BY DEF Ordered
  <2>1. /\ k \in DOMAIN calls /\ k + 1 \in DOMAIN calls
        /\ j \in DOMAIN calls /\ j + 1 \in DOMAIN calls /\ j \in Nat /\ k \in Nat /\ i \in Nat
    BY <1>1, CallsFacts
  <2>2. PICK m \in DOMAIN calls : calls'[k] = calls[m] /\ m = IF k < i THEN k ELSE k + 1
    BY <1>1, <2>1
  <2>3. PICK l \in DOMAIN calls : calls'[j] = calls[l] /\ l = IF j < i THEN j ELSE j + 1
    BY <1>1, <2>1
  <2>4. l < m
    BY <2>1, <2>2, <2>3
  <2>5. calls[l].todo = <<>> \/ calls[l].done >= calls[m].done
    BY <2>4 DEF Lines, Ordered
  <2>6. QED
    BY <2>2, <2>3, <2>5
<1>4. Awaited'
  <2>1. ASSUME NEW k \in DOMAIN calls', calls'[k].mine
        PROVE  k = Len(calls') /\ probe'.pc \in Awaiting
    <3>1. k \in DOMAIN calls /\ k + 1 \in DOMAIN calls /\ k \in Nat /\ i \in Nat
      BY <1>1, CallsFacts
    <3>2. k + 1 = Len(calls) /\ k >= i /\ probe.pc \in Awaiting /\ calls[k + 1].mine
      BY <1>1, <2>1, <3>1 DEF Lines, Awaited
    <3>3. ~calls[i].mine
      BY <1>1, <3>1, <3>2 DEF Lines, Awaited
    <3>4. QED
      BY <1>1, <3>2, <3>3
  <2>2. ASSUME probe'.pc \in Awaiting
        PROVE  calls' # <<>> /\ calls'[Len(calls')].mine
    <3>1. ~calls[i].mine /\ calls # <<>> /\ calls[Len(calls)].mine
      BY <2>2 DEF Lines, Awaited
    <3>2. i # Len(calls)
      BY <3>1
    <3>3. Len(calls') \in 1 .. (Len(calls) - 1) /\ ~(Len(calls') < i)
      BY <1>1, <3>2
    <3>4. QED
      BY <1>1, <3>1, <3>3, EmptySeq
  <2>3. QED
    BY <2>1, <2>2 DEF Awaited, Awaiting
<1>5. i # Len(calls) => calls' # <<>> /\ calls'[Len(calls')] = calls[Len(calls)]
  <2>1. SUFFICES ASSUME i # Len(calls)
                 PROVE  calls' # <<>> /\ calls'[Len(calls')] = calls[Len(calls)]
    OBVIOUS
  <2>2. Len(calls') \in 1 .. (Len(calls) - 1) /\ ~(Len(calls') < i)
    BY <1>1, <2>1
  <2>3. QED
    BY <1>1, <2>2
<1>6. QED
  BY <1>1, <1>2, <1>3, <1>4, <1>5 DEF Lines

-----------------------------------------------------------------------------
(* Leaving: the fiber gives up what it is at, to put the window back or    *)
(* because there is nothing to put back, or no trying again.               *)

Leaving(p, q) ==
    /\ q \in ProbeRecord
    /\ q.job = p.job /\ q.seen = p.seen /\ q.evidence = p.evidence
    /\ q.pending = p.pending
    /\ \/ q.pc = "putback" /\ q.failed /\ (q.final = p.final \/ (q.final /\ p.pending))
       \/ q.pc = "ended" /\ q.final = p.final /\ (~p.pending \/ p.final)
    /\ p.failed => q.failed

LEMMA LeavingFacts ==
    ASSUME NEW p \in ProbeRecord
    PROVE  /\ Leaving(p, Leave(p))
           /\ Leaving(p, Leave([p EXCEPT !.failed = TRUE]))
           /\ p.job \in 1 .. 9 => Leaving(p, Fail(p))
<1>1. [p EXCEPT !.failed = TRUE] \in ProbeRecord
  BY DEF ProbeRecord
<1>2. "putback" \in Pcs /\ "ended" \in Pcs
  BY DEF Pcs
<1>3. ASSUME NEW r \in ProbeRecord
      PROVE  Leaving(r, Leave(r))
  BY <1>2 DEF Leaving, Leave, ProbeRecord
<1>4. Leaving(p, Leave([p EXCEPT !.failed = TRUE]))
  <2> DEFINE r == [p EXCEPT !.failed = TRUE]
  <2>1. Leaving(r, Leave(r))
    BY <1>1, <1>3
  <2>2. /\ r.job = p.job /\ r.seen = p.seen /\ r.evidence = p.evidence
        /\ r.pending = p.pending /\ r.final = p.final /\ r.failed
    BY DEF ProbeRecord
  <2> HIDE DEF r
  <2>3. Leaving(p, Leave(r))
    BY <2>1, <2>2 DEF Leaving
  <2>4. QED
    BY <2>3 DEF r
<1>5. [p EXCEPT !.pc = "putback", !.failed = TRUE] \in ProbeRecord
  BY <1>2 DEF ProbeRecord
<1>6. Leaving(p, [p EXCEPT !.pc = "putback", !.failed = TRUE])
  BY <1>5 DEF Leaving, ProbeRecord
<1>7. QED
  BY <1>3, <1>4, <1>6 DEF Fail

\* What is true of window and calls stays so while neither is written.
LEMMA StillThere ==
    ASSUME TypeOK, Lines, kind' = kind, window' = window,
           calls' = calls \/ calls' = Abandoned
    PROVE  /\ \A size : Sized(size)' = Sized(size)
           /\ Calm => Calm'
           /\ Settled => Settled'
           /\ \A size : Carrying(size) => Carrying(size)'
           /\ Homeward => Homeward'
<1>1. /\ Len(calls') = Len(calls) /\ DOMAIN calls' = DOMAIN calls
      /\ calls # <<>> => calls' # <<>> /\ Len(calls) \in DOMAIN calls
      /\ \A i \in DOMAIN calls :
           /\ calls'[i].todo = calls[i].todo /\ calls'[i].done = calls[i].done
           /\ calls'[i].size = calls[i].size /\ calls'[i].at = calls[i].at
  BY AbandonedFacts, CallsFacts
<1>2. \A size : Sized(size)' = Sized(size)
  BY DEF Sized
<1>3. Calm => Calm'
  BY <1>1 DEF Calm
<1>4. Settled => Settled'
  BY <1>3 DEF Settled, AtHome
<1>5. \A size : Carrying(size) => Carrying(size)'
  BY <1>1, <1>2, <1>3 DEF Carrying, Whole
<1>6. Homeward => Homeward'
  BY <1>1, <1>5 DEF Homeward, Carrying
<1>7. QED
  BY <1>2, <1>3, <1>4, <1>5, <1>6

\* The part of the invariant that is about the fiber and its calls.
Core == /\ probe \in ProbeRecord /\ calls \in Seq(CallRecord)
        /\ Flow /\ Lines /\ Homing /\ Measured /\ Recorded

\* A step that leaves keeps the invariant.
LEMMA LeavingKeeps ==
    ASSUME Inv, Leaving(probe, probe'), UNCHANGED <<kind, window, meddled, refused>>,
           calls' = Abandoned \/ (calls' = calls /\ probe.pc \notin Awaiting),
           spoiled => spoiled',
           probe.pc = "putback" /\ probe.final => ~Fair',
           probe.job = 10 => probe'.pc = "ended"
    PROVE  Core'
<1>1. /\ probe \in ProbeRecord /\ probe' \in ProbeRecord /\ TypeOK /\ Lines /\ Flow
      /\ Homing /\ Recorded
  BY DEF Inv, TypeOK, Leaving
<1>2. /\ probe'.pc \in {"putback", "ended"}
      /\ probe'.pc = "putback" => probe'.failed
      /\ probe'.pc = "ended" => probe'.final = probe.final /\ (~probe.pending \/ probe.final)
      /\ probe'.pending = probe.pending /\ probe'.job = probe.job /\ probe'.seen = probe.seen
      /\ probe'.evidence = probe.evidence
      /\ probe.failed => probe'.failed
      /\ probe'.final => probe.final \/ probe'.pc = "putback"
  BY DEF Leaving
<1>3. Flow'
  BY <1>1, <1>2 DEF Flow, ProbeRecord
<1>4. Lines'
  <2> probe'.pc \notin Awaiting
    BY <1>2 DEF Awaiting
  <2>1. CASE calls' = Abandoned
    BY <1>1, <2>1, AbandonedFacts
  <2>2. CASE calls' = calls /\ probe.pc \notin Awaiting
    BY <1>1, <2>2 DEF Lines, Shaped, Ordered, Awaited, Whole, Awaiting
  <2>3. QED
    BY <2>1, <2>2
<1>5. Homing'
  <2>1. Fair' => Fair
    BY DEF Fair
  <2>2. SUFFICES ASSUME Fair', ~probe.pending \/ probe'.pc = "ended"
                 PROVE  Settled' \/ Homeward'
    BY <1>2 DEF Homing
  <2>3. ~probe.pending \/ probe.pc \in {"restoring", "compare", "ended"}
    BY <1>1, <1>2, <2>2 DEF Flow
  <2>4. Settled \/ Homeward
    BY <1>1, <2>1, <2>2, <2>3 DEF Homing
  <2>5. QED
    BY <1>1, <2>4, StillThere
<1>6. Measured'
  BY <1>2 DEF Measured
<1>7. Recorded'
  <2>1. \A size : Sized(size)' = Sized(size)
    BY <1>1, StillThere
  <2>2. Honest' = Honest
    BY DEF Honest
  <2>3. \A j \in 6 .. 9 : j = probe'.job /\ ~probe'.failed => probe'.pc \notin {"putback", "restoring", "compare"}
    BY <1>2
  <2>4. QED
    BY <1>1, <1>2, <2>1, <2>2, <2>3 DEF Recorded
<1>8. calls' \in Seq(CallRecord)
  BY <1>1, AbandonedFacts DEF TypeOK
<1>9. QED
  BY <1>1, <1>3, <1>4, <1>5, <1>6, <1>7, <1>8 DEF Core

-----------------------------------------------------------------------------
(* What every step keeps: flags, places of what cannot move, what is       *)
(* published.                                                              *)

LEMMA FiberWorld ==
    ASSUME Fiber \/ SaveFails \/ Interrupt \/ Timeout \/ ReadFails
    PROVE  UNCHANGED <<kind, window, context, meddled, refused>>
BY DEF Fiber, Start, Request, MeasureNudge, Measure, Correct, Verify, PutBack, Compare,
       Publish, Save, SaveFails, Interrupt, Timeout, ReadFails

LEMMA SidecarWorld ==
    ASSUME NEW i, Write(i) \/ Answer(i) \/ Refuse(i) \/ Unsettled(i)
    PROVE  UNCHANGED <<kind, context, meddled, learning>> /\ (refused => refused')
<1>1. UNCHANGED <<kind, context, meddled, learning>>
  BY DEF Write, Answer, Refuse, Unsettled
<1>2. refused' = refused \/ refused' = TRUE
  BY DEF Write, Answer, Refuse, Unsettled
<1>3. QED
  BY <1>1, <1>2

LEMMA StuckKept ==
    ASSUME Inv, [Next]_vars
    PROVE  Stuck'
<1>1. TypeOK /\ Stuck /\ kind \in Kinds
  BY DEF Inv, TypeOK
<1>2. CASE UNCHANGED <<kind, window, meddled>>
  BY <1>1, <1>2 DEF Stuck
<1>3. CASE Fiber \/ SaveFails \/ Interrupt \/ Timeout \/ ReadFails
  BY <1>2, <1>3, FiberWorld
<1>4. ASSUME NEW i \in DOMAIN calls, Write(i)
      PROVE  Stuck'
  <2>1. kind' = kind /\ meddled' = meddled
    BY <1>4, SidecarWorld
  <2>2. CASE window' = [window EXCEPT !.at = Placed(window.at, calls[i].at)]
    BY <1>1, <2>1, <2>2, PlaceFacts DEF Stuck, TypeOK
  <2>3. CASE window' = [window EXCEPT !.size = Sized(calls[i].size)]
    BY <1>1, <2>1, <2>3 DEF Stuck, TypeOK
  <2>4. CASE window' = window
    BY <1>2, <2>1, <2>4
  <2>5. QED
    BY <1>4, <2>2, <2>3, <2>4 DEF Write
<1>5. ASSUME NEW i \in DOMAIN calls, Answer(i) \/ Refuse(i) \/ Unsettled(i)
      PROVE  Stuck'
  BY <1>2, <1>5 DEF Answer, Refuse, Unsettled
<1>6. CASE Meddle
  BY <1>6 DEF Meddle, Stuck
<1>7. CASE Replace
  BY <1>1, <1>7 DEF Replace, Stuck, TypeOK
<1>8. CASE Minimize
  BY <1>1, <1>8 DEF Minimize, Disturb, Stuck, TypeOK
<1>9. CASE Reconfigure
  BY <1>2, <1>9 DEF Reconfigure, Disturb
<1>10. CASE UNCHANGED vars
  BY <1>2, <1>10 DEF vars
<1>11. QED
  BY <1>3, <1>4, <1>5, <1>6, <1>7, <1>8, <1>9, <1>10 DEF Next, Sidecar

\* A window whose height follows its width is not measured.
LEMMA NotTied ==
    ASSUME TypeOK, Recorded, Honest, probe.job > 5
    PROVE  ~kind.tied
<1>1. SUFFICES ASSUME kind.tied PROVE FALSE
  OBVIOUS
<1>2. kind \in Kinds /\ Resizes(probe.evidence, "height")
  BY AxesFacts DEF TypeOK, Recorded
<1>3. ASSUME NEW n \in {"shrink", "grow"}
      PROVE  Sized(Trial(n, "height"))["height"] = Original["height"]
  <2>1. n \in Names /\ "height" \in Axes /\ "width" \in Axes \ {"height"}
    BY AxesFacts DEF Names
  <2>2. Trial(n, "height") \in Size /\ Trial(n, "height")["width"] = Original["width"]
    BY <1>2, <2>1, RequestedFacts
  <2>3. QED
    BY <1>1, <1>2, <2>2, SizedFacts
<1>4. QED
  BY <1>2, <1>3, AxesFacts DEF Resizes, Names, Recorded

\* When every trial is recorded as what the window makes of it, the findings
\* are the window's bounds.
LEMMA FindingsAreExact ==
    ASSUME TypeOK, Recorded, Honest, probe.job = 10
    PROVE  Exact(Findings)
<1>1. kind \in Kinds /\ probe \in ProbeRecord
  BY DEF TypeOK
<1>2. \A n \in Names, a \in Axes : probe.evidence[n][a] \in {0, Sized(Trial(n, a))[a]}
  BY DEF Recorded
<1>3. ~kind.tied
  BY NotTied
<1>4. ASSUME NEW n \in {"least", "most"}, NEW a \in Axes
      PROVE  probe.evidence[n][a] = Sized(Trial(n, a))[a]
  <2>1. PICK j \in 6 .. 9 : Script[j].name = n /\ Script[j].axis = a
    <3>1. /\ Script[6].name = "least" /\ Script[6].axis = "width"
          /\ Script[7].name = "least" /\ Script[7].axis = "height"
          /\ Script[8].name = "most" /\ Script[8].axis = "width"
          /\ Script[9].name = "most" /\ Script[9].axis = "height"
      BY DEF Script
    <3>2. QED
      BY <3>1, AxesFacts
  <2>2. probe.evidence[n][a] # 0
    BY <2>1 DEF Recorded
  <2>3. QED
    BY <1>2, <2>2 DEF Names
<1>5. ASSUME NEW a \in Axes
      PROVE  /\ probe.evidence["least"][a] = kind.lo[a]
             /\ probe.evidence["most"][a] = IF Largest[a] > kind.hi[a] THEN kind.hi[a] ELSE Largest[a]
  <2>1. /\ Trial("least", a) \in Size /\ Trial("least", a)[a] = 1
        /\ Trial("most", a) \in Size /\ Trial("most", a)[a] = Largest[a]
    BY <1>1, RequestedFacts DEF Names
  <2>2. /\ Sized(Trial("least", a))[a] = IF 1 < kind.lo[a] THEN kind.lo[a]
                                         ELSE IF 1 > kind.hi[a] THEN kind.hi[a] ELSE 1
        /\ Sized(Trial("most", a))[a] = IF Largest[a] < kind.lo[a] THEN kind.lo[a]
                                        ELSE IF Largest[a] > kind.hi[a] THEN kind.hi[a]
                                        ELSE Largest[a]
    BY <1>1, <1>3, <2>1, SizedFacts
  <2>3. /\ kind.lo[a] \in Nat /\ kind.hi[a] \in Nat /\ Largest[a] \in Nat /\ Original[a] \in Nat
        /\ 1 <= kind.lo[a] /\ kind.lo[a] <= Original[a] /\ Original[a] <= kind.hi[a]
        /\ Original[a] <= Largest[a]
    BY <1>1, KindFacts
  <2>4. QED
    BY <1>4, <2>2, <2>3
<1>6. ASSUME NEW a \in Axes
      PROVE  /\ Findings.min[a] = IF kind.lo[a] = 1 THEN 0 ELSE kind.lo[a]
             /\ Findings.max[a] = IF kind.hi[a] >= Largest[a] THEN 0 ELSE kind.hi[a]
  <2>1. kind.hi[a] \in Nat /\ Largest[a] \in Nat
    BY <1>1, KindFacts
  <2>2. QED
    BY <1>5, <2>1 DEF Findings
<1>7. QED
  BY <1>6 DEF Exact

LEMMA FindingsType ==
    ASSUME TypeOK
    PROVE  Findings \in Bounds /\ NoBounds \in Bounds
<1> DEFINE lo == [a \in Axes |-> IF probe.evidence["least"][a] = 1 THEN 0
                                 ELSE probe.evidence["least"][a]]
           hi == [a \in Axes |-> IF probe.evidence["most"][a] < Largest[a]
                                 THEN probe.evidence["most"][a] ELSE 0]
           none == [a \in Axes |-> 0]
<1>1. \A n \in {"least", "most"}, a \in Axes : probe.evidence[n][a] \in Nat
  BY DEF TypeOK, ProbeRecord, Names
<1>2. lo \in [Axes -> Nat] /\ hi \in [Axes -> Nat] /\ none \in [Axes -> Nat]
  BY <1>1
<1>3. Findings = [min |-> lo, max |-> hi] /\ NoBounds = [min |-> none, max |-> none]
  BY DEF Findings, NoBounds
<1> HIDE DEF lo, hi, none
<1>4. QED
  BY <1>2, <1>3 DEF Bounds

LEMMA KeptKept ==
    ASSUME Inv, [Next]_vars
    PROVE  Kept' /\ learning' \in [memory : Bounds, saved : Bounds, dirty : BOOLEAN]
<1>1. TypeOK /\ Recorded /\ Kept
  BY DEF Inv
<1>2. CASE kind' = kind /\ learning' = learning /\ (Honest' => Honest)
  BY <1>1, <1>2 DEF Kept, Exact, TypeOK
<1>3. CASE Publish
  <2>1. UNCHANGED <<kind, meddled, refused>> /\ probe.job = 10
    BY <1>3 DEF Publish, Inv, Flow
  <2>2. CASE learning' = [learning EXCEPT !.memory = Findings, !.dirty = TRUE]
    <3>1. learning'.memory = Findings /\ learning'.saved = learning.saved /\ learning'.dirty
          /\ learning' \in [memory : Bounds, saved : Bounds, dirty : BOOLEAN]
      BY <1>1, <2>2, FindingsType DEF TypeOK
    <3>2. Honest => Exact(Findings)
      BY <1>1, <2>1, FindingsAreExact
    <3>3. Honest' => Honest
      BY <2>1 DEF Honest
    <3>4. QED
      BY <1>1, <2>1, <3>1, <3>2, <3>3 DEF Kept, Exact
  <2>3. CASE learning' = learning
    BY <1>2, <2>1, <2>3 DEF Honest
  <2>4. QED
    BY <1>3, <2>2, <2>3 DEF Publish
<1>4. CASE Save \/ SaveFails
  <2>1. UNCHANGED <<kind, meddled, refused>>
    BY <1>4 DEF Save, SaveFails
  <2>2. /\ learning'.memory = learning'.saved
        /\ learning'.memory \in {learning.memory, learning.saved}
        /\ learning' \in [memory : Bounds, saved : Bounds, dirty : BOOLEAN]
    BY <1>1, <1>4 DEF Save, SaveFails, TypeOK
  <2>3. QED
    BY <1>1, <2>1, <2>2 DEF Kept, Exact, Honest
<1>5. CASE \/ Start \/ Request \/ MeasureNudge \/ Measure \/ Correct \/ Verify
           \/ PutBack \/ Compare \/ Interrupt \/ Timeout \/ ReadFails
  BY <1>2, <1>5 DEF Start, Request, MeasureNudge, Measure, Correct, Verify, PutBack, Compare,
                    Interrupt, Timeout, ReadFails, Honest
<1>6. ASSUME NEW i, Write(i) \/ Answer(i) \/ Refuse(i) \/ Unsettled(i)
      PROVE  kind' = kind /\ learning' = learning /\ (Honest' => Honest)
  BY <1>6, SidecarWorld DEF Honest
<1>7. CASE Meddle \/ Replace \/ Minimize \/ Reconfigure
  BY <1>2, <1>7 DEF Meddle, Replace, Minimize, Reconfigure, Disturb, Honest
<1>8. CASE UNCHANGED vars
  BY <1>2, <1>8 DEF vars, Honest
<1>9. QED
  BY <1>2, <1>3, <1>4, <1>5, <1>6, <1>7, <1>8 DEF Next, Fiber, Sidecar

-----------------------------------------------------------------------------
(* The fiber's steps forward.                                              *)

\* Where the fiber does not await anything, no call is its own.
LEMMA QuietKeeps ==
    ASSUME Inv, UNCHANGED <<kind, window, calls, meddled, refused, spoiled>>,
           probe.pc \notin Awaiting, probe'.pc \notin Awaiting
    PROVE  /\ calls' \in Seq(CallRecord) /\ Lines'
           /\ Fair' = Fair /\ Honest' = Honest
           /\ \A size : Sized(size)' = Sized(size)
           /\ Settled => Settled'
           /\ Homeward => Homeward'
           /\ Calm => Calm'
<1>1. TypeOK /\ Lines
  BY DEF Inv
<1>2. Lines'
  BY <1>1 DEF Lines, Shaped, Ordered, Awaited, Whole, Awaiting
<1>3. Fair' = Fair /\ Honest' = Honest
  BY DEF Fair, Honest
<1>4. QED
  BY <1>1, <1>2, <1>3, StillThere DEF TypeOK

LEMMA StartKeeps ==
    ASSUME Inv, Start, Guarded /\ AtHome(window)
    PROVE  Core'
<1>1. /\ TypeOK /\ Flow /\ Homing /\ Recorded /\ probe \in ProbeRecord
      /\ probe.pc = "idle" /\ probe.pc \notin Awaiting
      /\ UNCHANGED <<kind, window, calls, meddled, refused, spoiled>>
  BY DEF Inv, TypeOK, Start, Awaiting
<1>2. /\ probe' \in ProbeRecord /\ probe'.pc = "begin" /\ probe'.job = probe.job
      /\ probe'.final = probe.final /\ probe'.failed = probe.failed
      /\ probe'.pending = probe.pending /\ probe'.seen = probe.seen
      /\ probe'.evidence = probe.evidence
  BY <1>1 DEF Start, ProbeRecord, Pcs
<1>3. Flow'
  BY <1>1, <1>2 DEF Flow
<1>4. Homing'
  BY <1>1, <1>2, QuietKeeps DEF Awaiting, Homing, Flow
<1>5. Measured'
  BY <1>2 DEF Measured
<1>6. Recorded'
  <2>1. (\A size : Sized(size)' = Sized(size)) /\ Honest' = Honest
    BY <1>1, <1>2, QuietKeeps DEF Awaiting
  <2>2. QED
    BY <1>1, <1>2, <2>1 DEF Recorded
<1>7. QED
  BY <1>1, <1>2, <1>3, <1>4, <1>5, <1>6, QuietKeeps DEF Awaiting, Core

LEMMA PublishKeeps ==
    ASSUME Inv, Publish, probe' = [probe EXCEPT !.pc = "saving"]
    PROVE  Core'
<1>1. /\ TypeOK /\ Flow /\ Homing /\ Recorded /\ probe \in ProbeRecord
      /\ probe.pc = "finish" /\ probe.pc \notin Awaiting
      /\ UNCHANGED <<kind, window, calls, meddled, refused, spoiled>>
  BY DEF Inv, TypeOK, Publish, Awaiting
<1>2. /\ probe' \in ProbeRecord /\ probe'.pc = "saving" /\ probe'.job = probe.job
      /\ probe'.final = probe.final /\ probe'.failed = probe.failed
      /\ probe'.pending = probe.pending /\ probe'.seen = probe.seen
      /\ probe'.evidence = probe.evidence
  BY <1>1 DEF Publish, ProbeRecord, Pcs
<1>3. Flow'
  BY <1>1, <1>2 DEF Flow
<1>4. Homing'
  BY <1>1, <1>2, QuietKeeps DEF Awaiting, Homing, Flow
<1>5. Measured'
  BY <1>2 DEF Measured
<1>6. Recorded'
  <2>1. (\A size : Sized(size)' = Sized(size)) /\ Honest' = Honest
    BY <1>1, <1>2, QuietKeeps DEF Awaiting
  <2>2. QED
    BY <1>1, <1>2, <2>1 DEF Recorded
<1>7. QED
  BY <1>1, <1>2, <1>3, <1>4, <1>5, <1>6, QuietKeeps DEF Awaiting, Core

\* The window is back: on to the next trial.
LEMMA CompareKeeps ==
    ASSUME Inv, Compare, ~probe.failed, Able(probe.evidence),
           probe' = [probe EXCEPT !.pending = FALSE, !.job = After(probe.evidence),
                        !.pc = IF After(probe.evidence) > Len(Script) THEN "finish" ELSE "begin"]
    PROVE  Core'
<1>1. /\ TypeOK /\ Flow /\ Homing /\ Recorded /\ probe \in ProbeRecord
      /\ probe.pc = "compare" /\ probe.pc \notin Awaiting /\ ~probe.final
      /\ probe.job \in 1 .. 9
      /\ UNCHANGED <<kind, window, calls, meddled, refused, spoiled>>
  BY DEF Inv, TypeOK, Compare, Awaiting, Flow, ProbeRecord
<1> DEFINE next == After(probe.evidence)
<1>2. /\ next \in 2 .. 10
      /\ next = probe.job + 1 \/ (next = probe.job + 2 /\ probe.job \in {2, 4})
  BY <1>1, AfterFacts
<1>3. next > 5 => \A a \in Axes : Resizes(probe.evidence, a)
  BY DEF Able
<1> DEFINE pc == IF next > 9 THEN "finish" ELSE "begin"
<1>4. probe' = [probe EXCEPT !.pending = FALSE, !.job = next, !.pc = pc]
  BY ScriptFacts
<1> HIDE DEF next
<1>a. pc \in Pcs /\ (pc = "finish" <=> next = 10) /\ pc \in {"finish", "begin"}
  BY <1>2 DEF Pcs
<1> HIDE DEF pc
<1>5. /\ probe' \in ProbeRecord /\ probe'.pc = pc
      /\ probe'.job = next /\ probe'.final = probe.final /\ probe'.failed = probe.failed
      /\ ~probe'.pending /\ probe'.evidence = probe.evidence
  <2>1. next \in 1 .. 10
    BY <1>2
  <2>2. probe' \in ProbeRecord
    BY <1>1, <1>4, <1>a, <2>1 DEF ProbeRecord
  <2>3. probe'.pc = pc /\ probe'.job = next /\ probe'.pending = FALSE
    BY <1>1, <1>4 DEF ProbeRecord
  <2>4. probe'.final = probe.final /\ probe'.failed = probe.failed /\ probe'.evidence = probe.evidence
    BY <1>1, <1>4 DEF ProbeRecord
  <2>5. QED
    BY <2>2, <2>3, <2>4
<1>6. Flow'
  BY <1>1, <1>2, <1>5, <1>a DEF Flow
<1>7. Homing'
  BY <1>1, <1>5, <1>a, QuietKeeps DEF Awaiting, Homing
<1>8. Measured'
  BY <1>5, <1>a DEF Measured
<1>9. Recorded'
  <2>1. (\A size : Sized(size)' = Sized(size)) /\ Honest' = Honest
    BY <1>1, <1>5, <1>a, QuietKeeps DEF Awaiting
  <2>2. \A j \in 6 .. 9 : j < next => j < probe.job \/ j = probe.job
    BY <1>1, <1>2
  <2>3. QED
    BY <1>1, <1>3, <1>5, <1>a, <2>1, <2>2 DEF Recorded
<1>10. QED
  BY <1>1, <1>5, <1>6, <1>7, <1>8, <1>9, QuietKeeps DEF Awaiting, Core

\* The nudge was seen: the window is put back.
LEMMA NudgeKeeps ==
    ASSUME Inv, MeasureNudge,
           NEW failed \in BOOLEAN, probe' = [probe EXCEPT !.pc = "putback", !.failed = failed]
    PROVE  Core'
<1>1. /\ TypeOK /\ Flow /\ Homing /\ Recorded /\ probe \in ProbeRecord /\ kind \in Kinds
      /\ probe.pc = "measure" /\ probe.pc \notin Awaiting
      /\ probe.job \in 1 .. 9 /\ Job.name = "nudge"
      /\ UNCHANGED <<kind, window, calls, meddled, refused, spoiled>>
  BY DEF Inv, TypeOK, MeasureNudge, Awaiting, Flow, ProbeRecord
<1>2. /\ probe' \in ProbeRecord /\ probe'.pc = "putback" /\ probe'.job = probe.job
      /\ probe'.final = probe.final /\ probe'.pending = probe.pending
      /\ probe'.evidence = probe.evidence
  BY <1>1 DEF ProbeRecord, Pcs
<1>3. probe.job = 1 /\ probe.pending /\ ~probe.final
  BY <1>1, JobFacts DEF Flow
<1>4. Flow'
  BY <1>1, <1>2, <1>3 DEF Flow
<1>5. Homing'
  BY <1>2, <1>3 DEF Homing
<1>6. Measured'
  BY <1>2 DEF Measured
<1>7. Recorded'
  <2>1. (\A size : Sized(size)' = Sized(size)) /\ Honest' = Honest
    BY <1>1, <1>2, QuietKeeps DEF Awaiting
  <2>2. QED
    BY <1>1, <1>2, <1>3, <2>1 DEF Recorded
<1>8. QED
  BY <1>1, <1>2, <1>4, <1>5, <1>6, <1>7, QuietKeeps DEF Awaiting, Core

\* A trial is measured: what is seen is what the window makes of the request.
LEMMA MeasureKeeps ==
    ASSUME Inv, Measure, Guarded,
           probe' = [probe EXCEPT !.pc = "correct", !.seen = window.size]
    PROVE  Core'
<1>1. /\ TypeOK /\ Flow /\ Measured /\ Recorded /\ probe \in ProbeRecord /\ kind \in Kinds
      /\ probe.pc = "measure" /\ probe.pc \notin Awaiting
      /\ probe.job \in 1 .. 9 /\ Job.name # "nudge" /\ window.who = 1
      /\ window.size \in Size
      /\ UNCHANGED <<kind, window, calls, meddled, refused, spoiled>>
  BY DEF Inv, TypeOK, Measure, Awaiting, Flow, ProbeRecord, Guarded
<1>2. /\ probe' \in ProbeRecord /\ probe'.pc = "correct" /\ probe'.job = probe.job
      /\ probe'.final = probe.final /\ probe'.pending = probe.pending
      /\ probe'.evidence = probe.evidence /\ probe'.seen = window.size
  BY <1>1 DEF ProbeRecord, Pcs
<1>3. probe.job # 1 /\ probe.pending /\ ~probe.final
  BY <1>1, JobFacts DEF Flow
<1>4. Flow'
  BY <1>1, <1>2, <1>3 DEF Flow
<1>5. Homing'
  BY <1>2, <1>3 DEF Homing
<1>6. (\A size : Sized(size)' = Sized(size)) /\ Honest' = Honest
  BY <1>1, <1>2, QuietKeeps DEF Awaiting
<1>7. Measured'
  <2>1. Honest => window.size = Sized(Requested(Job))
    BY <1>1, <1>3 DEF Measured
  <2>2. Job' = Job
    BY <1>2 DEF Job
  <2>3. QED
    BY <1>2, <1>6, <2>1, <2>2 DEF Measured
<1>8. Recorded'
  BY <1>1, <1>2, <1>6 DEF Recorded
<1>9. QED
  BY <1>1, <1>2, <1>4, <1>5, <1>7, <1>8, QuietKeeps DEF Awaiting, Core

\* The window is back, but the probe has failed: there is nothing more to do.
LEMMA GivenUpKeeps ==
    ASSUME Inv, Compare,
           probe' = Leave([probe EXCEPT !.pending = FALSE, !.failed = TRUE])
    PROVE  Core'
<1>1. /\ TypeOK /\ Flow /\ Homing /\ Recorded /\ probe \in ProbeRecord
      /\ probe.pc = "compare" /\ probe.pc \notin Awaiting
      /\ UNCHANGED <<kind, window, calls, meddled, refused, spoiled>>
  BY DEF Inv, TypeOK, Compare, Awaiting
<1> DEFINE p == [probe EXCEPT !.pending = FALSE, !.failed = TRUE]
<1>2. /\ p \in ProbeRecord /\ p.pending = FALSE /\ p.failed = TRUE /\ p.job = probe.job
      /\ p.final = probe.final /\ p.evidence = probe.evidence
  BY <1>1 DEF ProbeRecord
<1>3. probe' = Leave(p)
  OBVIOUS
<1> HIDE DEF p
<1>4. probe' = [p EXCEPT !.pc = "ended"]
  BY <1>2, <1>3 DEF Leave
<1>5. /\ probe' \in ProbeRecord /\ probe'.pc = "ended" /\ probe'.job = probe.job
      /\ probe'.final = probe.final /\ probe'.failed /\ probe'.evidence = probe.evidence
  BY <1>2, <1>4 DEF ProbeRecord, Pcs
<1>6. Flow'
  BY <1>1, <1>5 DEF Flow
<1>7. Homing'
  BY <1>1, <1>5, QuietKeeps DEF Awaiting, Homing
<1>8. Measured'
  BY <1>5 DEF Measured
<1>9. Recorded'
  <2>1. (\A size : Sized(size)' = Sized(size)) /\ Honest' = Honest
    BY <1>1, <1>5, QuietKeeps DEF Awaiting
  <2>2. QED
    BY <1>1, <1>5, <2>1 DEF Recorded
<1>10. QED
  BY <1>1, <1>5, <1>6, <1>7, <1>8, <1>9, QuietKeeps DEF Awaiting, Core

\* The trial is over: what was seen is recorded.
LEMMA VerifyKeeps ==
    ASSUME Inv, Verify,
           probe' = [probe EXCEPT !.pc = "putback",
                        !.evidence[Job.name][Job.axis] = probe.seen[Job.axis]]
    PROVE  Core'
<1>1. /\ TypeOK /\ Flow /\ Measured /\ Recorded /\ probe \in ProbeRecord /\ kind \in Kinds
      /\ probe.pc = "verify" /\ probe.pc \notin Awaiting
      /\ probe.job \in 1 .. 9 /\ probe.job # 1 /\ probe.pending /\ ~probe.final
      /\ UNCHANGED <<kind, window, calls, meddled, refused, spoiled>>
  BY DEF Inv, TypeOK, Verify, Awaiting, Flow, ProbeRecord
<1> DEFINE name == Job.name
           axis == Job.axis
           value == probe.seen[axis]
<1>2. name \in Names /\ axis \in Axes /\ Requested(Job) = Trial(name, axis)
  BY <1>1, JobFacts
<1>3. value \in Nat
  BY <1>1, <1>2 DEF ProbeRecord, Size
<1>4. probe' = [probe EXCEPT !.pc = "putback", !.evidence[name][axis] = value]
  OBVIOUS
<1> HIDE DEF name, axis, value
<1>5. /\ probe' \in ProbeRecord
      /\ \A n \in Names, a \in Axes :
           probe'.evidence[n][a] = IF n = name /\ a = axis THEN value ELSE probe.evidence[n][a]
  <2> DEFINE row == [probe.evidence[name] EXCEPT ![axis] = value]
             table == [probe.evidence EXCEPT ![name] = row]
  <2>1. probe.evidence \in [Names -> [Axes -> Nat]]
    BY <1>1 DEF ProbeRecord
  <2>2. /\ row \in [Axes -> Nat]
        /\ \A a \in Axes : row[a] = IF a = axis THEN value ELSE probe.evidence[name][a]
    BY <1>2, <1>3, <2>1
  <2>3. probe' = [probe EXCEPT !.pc = "putback", !.evidence = table]
    BY <1>1, <1>2, <1>4, <2>1 DEF ProbeRecord
  <2> HIDE DEF row
  <2>4. /\ table \in [Names -> [Axes -> Nat]]
        /\ \A n \in Names : table[n] = IF n = name THEN row ELSE probe.evidence[n]
    BY <1>2, <2>1, <2>2
  <2> HIDE DEF table
  <2>5. probe' \in ProbeRecord /\ probe'.evidence = table
    BY <1>1, <2>3, <2>4 DEF ProbeRecord, Pcs
  <2>6. QED
    BY <2>2, <2>4, <2>5
<1>6. /\ probe'.pc = "putback" /\ probe'.job = probe.job
      /\ probe'.final = probe.final /\ probe'.pending = probe.pending
      /\ probe'.failed = probe.failed
  BY <1>1, <1>4 DEF ProbeRecord
<1>7. Flow'
  BY <1>1, <1>6 DEF Flow
<1>8. Homing'
  BY <1>1, <1>6 DEF Homing
<1>9. Measured'
  BY <1>6 DEF Measured
<1>10. Recorded'
  <2>1. (\A size : Sized(size)' = Sized(size)) /\ Honest' = Honest
    BY <1>1, <1>6, QuietKeeps DEF Awaiting
  <2>2. Honest => value = Sized(Trial(name, axis))[axis]
    BY <1>1, <1>2 DEF Measured, value
  <2>3. Honest' => \A n \in Names, a \in Axes : probe'.evidence[n][a] \in {0, Sized(Trial(n, a))'[a]}
    BY <1>1, <1>5, <2>1, <2>2 DEF Recorded
  <2>4. Honest => value # 0 \/ probe.job < 6
    <3>1. SUFFICES ASSUME Honest, probe.job \in 6 .. 9
                   PROVE  value # 0
      BY <1>1
    <3>2. ~kind.tied
      BY <1>1, <3>1, NotTied
    <3>3. kind.lo[axis] \in Nat /\ kind.hi[axis] \in Nat /\ 1 <= kind.lo[axis]
          /\ kind.lo[axis] <= kind.hi[axis]
      BY <1>1, <1>2, KindFacts
    <3>4. Trial(name, axis) \in Size /\ Trial(name, axis)[axis] \in Nat
      BY <1>1, <1>2, RequestedFacts DEF Size
    <3>5. ~kind.tied => Sized(Trial(name, axis))[axis] # 0
      BY <1>1, <1>2, <3>3, <3>4, SizedFacts
    <3>6. QED
      BY <2>2, <3>1, <3>2, <3>5
  <2>5. \A j \in 6 .. 9 : Script[j].name \in Names /\ Script[j].axis \in Axes
    BY ScriptFacts
  <2>6. Script[probe.job].name = name /\ Script[probe.job].axis = axis
    BY DEF name, axis, Job
  <2>7. Honest' => \A j \in 6 .. 9 :
          j <= probe.job => probe'.evidence[Script[j].name][Script[j].axis] # 0
    <3>1. SUFFICES ASSUME Honest, NEW j \in 6 .. 9, j <= probe.job
                   PROVE  probe'.evidence[Script[j].name][Script[j].axis] # 0
      BY <2>1
    <3>2. value # 0
      BY <1>1, <2>4, <3>1
    <3>3. j = probe.job \/ j < probe.job
      BY <1>1, <3>1
    <3>4. j < probe.job => probe.evidence[Script[j].name][Script[j].axis] # 0
      BY <1>1, <3>1 DEF Recorded
    <3>5. QED
      BY <1>5, <2>5, <2>6, <3>2, <3>3, <3>4
  <2>8. probe.job > 5 => \A a \in Axes : Resizes(probe'.evidence, a)
    <3>1. SUFFICES ASSUME probe.job > 5
                   PROVE  \A a \in Axes : Resizes(probe'.evidence, a)
      OBVIOUS
    <3>2. name \notin {"shrink", "grow"}
      BY <1>1, <2>6, <3>1, ScriptFacts
    <3>3. \A a \in Axes, n \in {"shrink", "grow"} : probe'.evidence[n][a] = probe.evidence[n][a]
      BY <1>5, <3>2 DEF Names
    <3>4. QED
      BY <1>1, <3>1, <3>3 DEF Recorded, Resizes
  <2>9. \A j \in 6 .. 9 : j < probe'.job \/ j = probe'.job => j <= probe.job
    BY <1>1, <1>6
  <2>10. QED
    BY <1>6, <2>3, <2>7, <2>8, <2>9 DEF Recorded
<1>11. QED
  BY <1>1, <1>5, <1>6, <1>7, <1>8, <1>9, <1>10, QuietKeeps DEF Awaiting, Core

\* A call of the fiber while something is to be put back.
LEMMA CallKeeps ==
    ASSUME Inv, NEW size \in Size, NEW at \in Place, NEW todo \in {Frame, Spot},
           Call(size, at, todo), UNCHANGED <<kind, window, meddled, refused>>,
           probe.pc \in {"begin", "correct"}, probe.job \in 1 .. 9,
           NEW pc \in {"writing", "moving"},
           probe' = [probe EXCEPT !.pc = pc, !.pending = TRUE],
           pc = "moving" => probe.pc = "correct",
           pc = "writing" /\ probe.job # 1 => size = Requested(Job) /\ todo = Frame
    PROVE  Core'
<1>1. /\ TypeOK /\ Flow /\ Lines /\ Measured /\ Recorded /\ probe \in ProbeRecord
      /\ probe.pc \notin Awaiting /\ ~probe.final
  BY DEF Inv, TypeOK, Flow, Awaiting
<1>2. /\ probe' \in ProbeRecord /\ probe'.pc = pc /\ probe'.job = probe.job
      /\ probe'.final = probe.final /\ probe'.pending = TRUE
      /\ probe'.failed = probe.failed /\ probe'.evidence = probe.evidence
      /\ probe'.seen = probe.seen /\ probe'.pc \in Awaiting
  BY <1>1 DEF ProbeRecord, Pcs, Awaiting
<1>3. /\ calls' \in Seq(CallRecord) /\ Lines' /\ calls' # <<>>
      /\ calls'[Len(calls')] = [size |-> size, at |-> at, todo |-> todo, done |-> 0, mine |-> TRUE]
  BY <1>1, <1>2, Called
<1>4. Flow'
  BY <1>1, <1>2 DEF Flow
<1>5. Homing'
  BY <1>2 DEF Homing
<1>6. (\A s : Sized(s)' = Sized(s)) /\ Honest' = Honest
  BY DEF Sized, Honest
<1>7. Measured'
  <2>1. Job' = Job
    BY <1>2 DEF Job
  <2>2. pc = "writing" /\ probe.job # 1 => Carrying(Requested(Job))'
    BY <1>3, <2>1 DEF Carrying, Whole
  <2>3. QED
    BY <1>1, <1>2, <1>6, <2>1, <2>2 DEF Measured
<1>8. Recorded'
  BY <1>1, <1>2, <1>6 DEF Recorded
<1>9. QED
  BY <1>2, <1>3, <1>4, <1>5, <1>7, <1>8 DEF Core

\* The window is put back: the newest call takes it home.
LEMMA PutBackKeeps ==
    ASSUME Inv, PutBack, Call(Original, Corner(Original), Frame),
           probe' = [probe EXCEPT !.pc = "restoring"]
    PROVE  Core'
<1>1. /\ TypeOK /\ Flow /\ Lines /\ Measured /\ Recorded /\ probe \in ProbeRecord
      /\ kind \in Kinds /\ probe.pc = "putback" /\ probe.pc \notin Awaiting
      /\ UNCHANGED <<kind, window, meddled, refused>>
  BY DEF Inv, TypeOK, Awaiting, PutBack
<1>2. /\ probe' \in ProbeRecord /\ probe'.pc = "restoring" /\ probe'.job = probe.job
      /\ probe'.final = probe.final /\ probe'.pending = probe.pending
      /\ probe'.failed = probe.failed /\ probe'.evidence = probe.evidence
      /\ probe'.pc \in Awaiting
  BY <1>1 DEF ProbeRecord, Pcs, Awaiting
<1>3. Original \in Size /\ Corner(Original) \in Place
  BY <1>1, KindFacts, PlaceFacts
<1>4. /\ calls' \in Seq(CallRecord) /\ Lines' /\ calls' # <<>>
      /\ calls'[Len(calls')] = [size |-> Original, at |-> Corner(Original),
                                todo |-> Frame, done |-> 0, mine |-> TRUE]
  BY <1>1, <1>2, <1>3, Called
<1>5. Flow'
  BY <1>1, <1>2 DEF Flow
<1>6. Homing'
  <2>1. Homeward'
    BY <1>4 DEF Homeward, Carrying, Whole
  <2>2. QED
    BY <1>2, <2>1 DEF Homing
<1>7. (\A s : Sized(s)' = Sized(s)) /\ Honest' = Honest
  BY <1>1 DEF Sized, Honest
<1>8. Measured'
  BY <1>2 DEF Measured
<1>9. Recorded'
  BY <1>1, <1>2, <1>7 DEF Recorded
<1>10. QED
  BY <1>2, <1>4, <1>5, <1>6, <1>8, <1>9 DEF Core

-----------------------------------------------------------------------------
(* The sidecar's steps.                                                    *)

\* Where a call is in its writes, from what is left to write.
LEMMA TodoShape ==
    ASSUME TypeOK, Lines, NEW i \in DOMAIN calls, calls[i].todo # <<>>
    PROVE  /\ calls[i] \in CallRecord
           /\ \/ calls[i].done = 0 /\ calls[i].todo = Frame
              \/ calls[i].done = 1 /\ calls[i].todo = Two
              \/ calls[i].done = 2 /\ calls[i].todo = One
              \/ calls[i].done = 0 /\ calls[i].todo = Spot
BY CallsFacts DEF Lines, Shaped, Whole

\* A call that loses its writes, because one is refused or the window is not
\* the one it named.
LEMMA Dropped ==
    ASSUME TypeOK, Lines, probe' = probe, NEW i \in DOMAIN calls,
           calls' = [calls EXCEPT ![i].todo = <<>>]
    PROVE  /\ calls' \in Seq(CallRecord) /\ Lines'
           /\ Len(calls') = Len(calls) /\ DOMAIN calls' = DOMAIN calls
           /\ calls' # <<>>
           /\ \A k \in DOMAIN calls : k # i => calls'[k] = calls[k]
           /\ calls'[i].todo = <<>>
<1>1. [calls[i] EXCEPT !.todo = <<>>] \in CallRecord
  BY CallsFacts DEF CallRecord
<1>2. /\ calls' \in Seq(CallRecord) /\ Len(calls') = Len(calls) /\ DOMAIN calls' = DOMAIN calls
      /\ \A k \in DOMAIN calls : k # i => calls'[k] = calls[k]
      /\ calls'[i] = [calls[i] EXCEPT !.todo = <<>>]
  BY <1>1, CallsFacts DEF TypeOK
<1>3. calls'[i].todo = <<>> /\ calls'[i].done = calls[i].done /\ calls'[i].mine = calls[i].mine
  BY <1>2, CallsFacts DEF CallRecord
<1>4. Shaped'
  BY <1>2, <1>3 DEF Lines, Shaped, Whole
<1>5. Ordered'
  BY <1>2, <1>3 DEF Lines, Ordered
<1>6. Awaited'
  BY <1>2, <1>3, CallsFacts DEF Lines, Awaited, Awaiting
<1>7. calls' # <<>>
  BY <1>2, CallsFacts
<1>8. QED
  BY <1>2, <1>3, <1>4, <1>5, <1>6, <1>7 DEF Lines

\* A call that makes its next write stays behind the older ones.
LEMMA Progressed ==
    ASSUME TypeOK, Lines, probe' = probe, NEW i \in DOMAIN calls, MayWrite(i),
           calls' = [calls EXCEPT ![i].todo = Tail(calls[i].todo), ![i].done = calls[i].done + 1]
    PROVE  /\ calls' \in Seq(CallRecord) /\ Lines'
           /\ Len(calls') = Len(calls) /\ DOMAIN calls' = DOMAIN calls
           /\ calls' # <<>>
           /\ \A k \in DOMAIN calls : k # i => calls'[k] = calls[k]
           /\ calls'[i].todo = Tail(calls[i].todo) /\ calls'[i].done = calls[i].done + 1
           /\ calls'[i].size = calls[i].size /\ calls'[i].at = calls[i].at
           /\ Whole(calls[i]) => Whole(calls'[i])
<1>1. /\ calls[i] \in CallRecord /\ calls[i].todo # <<>>
      /\ \/ calls[i].done = 0 /\ calls[i].todo = Frame
         \/ calls[i].done = 1 /\ calls[i].todo = Two
         \/ calls[i].done = 2 /\ calls[i].todo = One
         \/ calls[i].done = 0 /\ calls[i].todo = Spot
  BY TodoShape DEF MayWrite
<1> DEFINE c == [calls[i] EXCEPT !.todo = Tail(calls[i].todo), !.done = calls[i].done + 1]
<1>2. /\ calls[i].done + 1 \in Nat
      /\ \/ calls[i].done + 1 = 1 /\ calls[i].todo = Frame /\ Tail(calls[i].todo) = Two
         \/ calls[i].done + 1 = 2 /\ calls[i].todo = Two /\ Tail(calls[i].todo) = One
         \/ calls[i].done + 1 = 3 /\ calls[i].todo = One /\ Tail(calls[i].todo) = <<>>
         \/ calls[i].todo = Spot /\ Tail(calls[i].todo) = <<>>
  <2>1. CASE calls[i].done = 0 /\ calls[i].todo = Frame
    <3>1. Tail(calls[i].todo) = Two
      BY <2>1, TodoFacts
    <3>2. QED
      BY <2>1, <3>1
  <2>2. CASE calls[i].done = 1 /\ calls[i].todo = Two
    <3>1. Tail(calls[i].todo) = One
      BY <2>2, TodoFacts
    <3>2. QED
      BY <2>2, <3>1
  <2>3. CASE calls[i].done = 2 /\ calls[i].todo = One
    <3>1. Tail(calls[i].todo) = <<>>
      BY <2>3, TodoFacts
    <3>2. QED
      BY <2>3, <3>1
  <2>4. CASE calls[i].done = 0 /\ calls[i].todo = Spot
    <3>1. Tail(calls[i].todo) = <<>>
      BY <2>4, TodoFacts
    <3>2. QED
      BY <2>4, <3>1
  <2>5. QED
    BY <1>1, <2>1, <2>2, <2>3, <2>4
<1>3. c \in CallRecord
  BY <1>1, <1>2 DEF CallRecord
<1>4. /\ c.todo = Tail(calls[i].todo) /\ c.done = calls[i].done + 1 /\ c.mine = calls[i].mine
      /\ c.size = calls[i].size /\ c.at = calls[i].at
  BY <1>1 DEF CallRecord
<1>5. calls' = [calls EXCEPT ![i] = c]
  BY <1>1, CallsFacts DEF TypeOK, CallRecord
<1> HIDE DEF c
<1>6. /\ calls' \in Seq(CallRecord) /\ Len(calls') = Len(calls) /\ DOMAIN calls' = DOMAIN calls
      /\ \A k \in DOMAIN calls : k # i => calls'[k] = calls[k]
      /\ calls'[i] = c
  <2>1. calls \in Seq(CallRecord) /\ i \in 1 .. Len(calls) /\ c \in CallRecord
    BY <1>3, CallsFacts DEF TypeOK
  <2>2. [calls EXCEPT ![i] = c] \in Seq(CallRecord)
    BY <2>1, ExceptSeq
  <2>3. Len([calls EXCEPT ![i] = c]) = Len(calls)
    BY <2>1, ExceptSeq
  <2>4. /\ DOMAIN calls' = DOMAIN calls
        /\ \A k \in DOMAIN calls : k # i => calls'[k] = calls[k]
        /\ calls'[i] = c
    BY <1>5
  <2>5. QED
    BY <1>5, <2>2, <2>3, <2>4
<1>7. c.todo = <<>> \/ Whole(c)
  BY <1>2, <1>4 DEF Whole
<1>8. Whole(calls[i]) => Whole(c)
  <2>1. Whole(calls[i]) => calls[i].todo # Spot
    BY <1>1, TodoFacts DEF Whole
  <2>2. QED
    BY <1>2, <1>4, <2>1 DEF Whole
<1>9. Shaped'
  <2> SUFFICES ASSUME NEW k \in DOMAIN calls'
               PROVE  calls'[k].todo = <<>> \/ Whole(calls'[k])
                      \/ (calls'[k].done = 0 /\ calls'[k].todo = Spot)
    BY DEF Shaped, Whole
  <2>1. CASE k = i
    BY <1>6, <1>7, <2>1
  <2>2. CASE k # i
    BY <1>6, <2>2 DEF Lines, Shaped
  <2>3. QED
    BY <2>1, <2>2
<1>10. Ordered'
  <2> SUFFICES ASSUME NEW k \in DOMAIN calls, NEW j \in DOMAIN calls, j < k
               PROVE  calls'[j].todo = <<>> \/ calls'[j].done >= calls'[k].done
    BY <1>6 DEF Ordered
  <2>1. calls[j].done \in Nat /\ calls[k].done \in Nat /\ j \in Nat /\ k \in Nat /\ i \in Nat
    BY CallsFacts DEF CallRecord
  <2>2. CASE k = i
    <3>1. j \in 1 .. (i - 1)
      BY <2>1, <2>2, CallsFacts
    <3>2. QED
      BY <1>4, <1>6, <2>1, <2>2, <3>1 DEF MayWrite
  <2>3. CASE j = i
    BY <1>4, <1>6, <1>1, <2>1, <2>3 DEF Lines, Ordered
  <2>4. CASE k # i /\ j # i
    BY <1>6, <2>4 DEF Lines, Ordered
  <2>5. QED
    BY <2>2, <2>3, <2>4
<1>11. Awaited'
  BY <1>4, <1>6, CallsFacts DEF Lines, Awaited, Awaiting
<1>12. calls' # <<>>
  BY <1>6, CallsFacts
<1>13. QED
  BY <1>4, <1>6, <1>8, <1>9, <1>10, <1>11, <1>12 DEF Lines

\* A write that still is to come shows that not all calls are done.
LEMMA NotCalm ==
    ASSUME NEW i \in DOMAIN calls, calls[i].todo # <<>>
    PROVE  ~Calm /\ ~Settled
BY DEF Calm, Settled

\* The newest call goes on, or an older one that it waits for.
LEMMA WriteCarries ==
    ASSUME Inv, NEW i \in DOMAIN calls, Write(i), window.who = 1
    PROVE  /\ \A size \in Size : Carrying(size) => Carrying(size)'
           /\ Fair /\ Homeward => Homeward'
<1> DEFINE L == Len(calls)
<1>1. /\ TypeOK /\ Lines /\ Stuck /\ kind \in Kinds /\ MayWrite(i) /\ probe' = probe /\ kind' = kind
      /\ calls[i].todo # <<>> /\ L \in DOMAIN calls /\ L \in Nat /\ i \in 1 .. L
      /\ calls' = [calls EXCEPT ![i].todo = Tail(calls[i].todo), ![i].done = calls[i].done + 1]
      /\ \A k \in DOMAIN calls : calls[k] \in CallRecord
      /\ calls # <<>>
  BY CallsFacts DEF Inv, TypeOK, Write, MayWrite
<1>2. /\ Len(calls') = L /\ DOMAIN calls' = DOMAIN calls /\ calls' # <<>>
      /\ \A k \in DOMAIN calls : k # i => calls'[k] = calls[k]
      /\ calls'[i].todo = Tail(calls[i].todo) /\ calls'[i].done = calls[i].done + 1
      /\ calls'[i].size = calls[i].size /\ calls'[i].at = calls[i].at
      /\ Whole(calls[i]) => Whole(calls'[i])
  BY <1>1, Progressed
<1>3. \A size : Sized(size)' = Sized(size)
  BY <1>1 DEF Sized
<1>4. ~Calm
  BY <1>1, NotCalm
<1>5. /\ \/ calls[i].done = 0 /\ calls[i].todo = Frame
         \/ calls[i].done = 1 /\ calls[i].todo = Two
         \/ calls[i].done = 2 /\ calls[i].todo = One
         \/ calls[i].done = 0 /\ calls[i].todo = Spot
  BY <1>1, TodoShape
\* What is written.
<1>6. IF Head(calls[i].todo) = "size"
      THEN window' = [window EXCEPT !.size = Sized(calls[i].size)]
      ELSE window' = [window EXCEPT !.at = Placed(window.at, calls[i].at)]
  BY DEF Write
<1>7. window \in [who : {1, 2}, size : Size, at : Place, usable : BOOLEAN]
  BY <1>1 DEF TypeOK
\* When the newest call makes its last write, the older ones have made theirs.
<1>8. ASSUME i = L, calls[i].done = 2, Whole(calls[i])
      PROVE  Calm' /\ window'.size = Sized(calls[i].size) /\ window'.at = window.at
  <2>1. calls[i].todo = One
    BY <1>8 DEF Whole
  <2>2. ASSUME NEW k \in 1 .. (L - 1)
        PROVE  calls[k].todo = <<>>
    <3>1. k \in DOMAIN calls /\ calls[k] \in CallRecord /\ calls[k].done \in Nat
      BY <1>1, CallsFacts DEF CallRecord
    <3>2. calls[k].todo = <<>> \/ calls[k].done > 2
      BY <1>1, <1>8, <3>1 DEF MayWrite
    <3>3. calls[k].todo # <<>> => calls[k].done <= 2
      BY <1>1, <3>1, TodoShape
    <3>4. QED
      BY <3>1, <3>2, <3>3
  <2>3. calls'[i].todo = <<>>
    <3>1. Tail(calls[i].todo) = <<>>
      BY <2>1, TodoFacts
    <3>2. QED
      BY <1>2, <3>1
  <2>4. Calm'
    <3>1. SUFFICES ASSUME NEW k \in DOMAIN calls'
                   PROVE  calls'[k].todo = <<>>
      BY DEF Calm
    <3>2. k = i \/ (k \in 1 .. (L - 1) /\ k \in DOMAIN calls /\ k # i)
      BY <1>1, <1>2, <1>8, CallsFacts
    <3>3. QED
      BY <1>2, <2>2, <2>3, <3>2
  <2>5. Head(calls[i].todo) = "size"
    BY <2>1, TodoFacts
  <2>6. QED
    BY <1>6, <1>7, <2>4, <2>5
<1>9. ASSUME NEW size \in Size, Carrying(size)
      PROVE  Carrying(size)'
  <2>1. calls[L].size = size /\ Whole(calls[L]) /\ calls[L].done # 3
    BY <1>4, <1>9 DEF Carrying
  <2>2. CASE i # L
    BY <1>2, <1>3, <1>1, <2>1, <2>2 DEF Carrying, Whole
  <2>3. CASE i = L
    <3>1. Whole(calls'[L]) /\ calls'[L].size = size /\ calls'[L].done = calls[L].done + 1
      BY <1>2, <2>1, <2>3
    <3>2. calls'[L].done = 3 => calls[L].done = 2
      BY <2>1, <3>1 DEF Whole
    <3>3. QED
      BY <1>2, <1>3, <1>8, <2>1, <2>3, <3>1, <3>2 DEF Carrying, Whole
  <2>4. QED
    BY <2>2, <2>3
<1>10. ASSUME Fair, Homeward
       PROVE  Homeward'
  <2>1. Carrying(Original)'
    BY <1>1, <1>9, <1>10, KindFacts DEF Homeward
  <2>2. calls[L].at = Corner(Original) /\ calls[L].size = Original /\ Whole(calls[L])
        /\ calls[L].done # 3
    BY <1>4, <1>10 DEF Homeward, Carrying
  <2>3. calls'[L].at = Corner(Original)
    BY <1>1, <1>2, <2>2
  <2>4. calls'[L].done >= 2 => window'.at = Corner(Original)
    <3>1. CASE i = L /\ calls[i].done = 2
      BY <1>8, <1>10, <2>2, <3>1 DEF Homeward
    <3>2. CASE i = L /\ calls[i].done = 1
      <4>1. calls[i].todo = Two
        BY <2>2, <3>2 DEF Whole
      <4>2. Head(calls[i].todo) # "size"
        BY <4>1, TodoFacts
      <4>3. window'.at = Placed(window.at, Corner(Original))
        BY <1>6, <1>7, <2>2, <3>2, <4>2
      <4>4. kind.moves = "stuck" => window.at = Corner(Original)
        BY <1>1, <1>10 DEF Stuck, Fair
      <4>5. QED
        BY <1>1, <4>3, <4>4, PlaceFacts
    <3>3. CASE i = L /\ calls[i].done = 0
      BY <1>2, <3>3
    <3>4. CASE i # L
      <4>1. SUFFICES ASSUME calls[L].done >= 2
                     PROVE  window'.at = Corner(Original)
        BY <1>1, <1>2, <3>4
      <4>2. window.at = Corner(Original) /\ calls[L].done = 2
        BY <1>10, <2>2, <4>1 DEF Homeward, Whole
      <4>3. i < L /\ L \in Nat /\ i \in Nat /\ calls[i].done \in Nat
        BY <1>1, <3>4 DEF CallRecord
      <4>4. calls[i].done >= 2
        BY <1>1, <4>2, <4>3 DEF Lines, Ordered
      <4>5. calls[i].todo = One
        BY <1>5, <4>4
      <4>6. Head(calls[i].todo) = "size"
        BY <4>5, TodoFacts
      <4>7. QED
        BY <1>6, <1>7, <4>2, <4>6
    <3>5. QED
      BY <1>5, <2>2, <3>1, <3>2, <3>3, <3>4 DEF Whole
  <2>5. QED
    BY <1>2, <2>1, <2>3, <2>4 DEF Homeward
<1>11. QED
  BY <1>9, <1>10

LEMMA WriteKeeps ==
    ASSUME Inv, NEW i \in DOMAIN calls, Write(i)
    PROVE  Core' /\ window' \in [who : {1, 2}, size : Size, at : Place, usable : BOOLEAN]
<1>1. /\ TypeOK /\ Lines /\ Flow /\ Homing /\ Measured /\ Recorded /\ kind \in Kinds
      /\ probe' = probe /\ kind' = kind /\ UNCHANGED <<meddled, refused, spoiled>>
      /\ probe \in ProbeRecord /\ calls[i].todo # <<>> /\ calls[i] \in CallRecord
  BY CallsFacts DEF Inv, TypeOK, Write, MayWrite
<1>2. ~Calm /\ ~Settled
  BY <1>1, NotCalm
<1>3. (\A size : Sized(size)' = Sized(size)) /\ Honest' = Honest
  BY <1>1 DEF Sized, Honest
<1>4. Flow' /\ probe' \in ProbeRecord
  BY <1>1 DEF Flow
<1>5. Recorded'
  BY <1>1, <1>3 DEF Recorded
<1>6. Job' = Job
  BY <1>1 DEF Job
<1>7. CASE window.who # 1
  <2>1. calls' = [calls EXCEPT ![i].todo = <<>>] /\ window' = window
    BY <1>7 DEF Write
  <2>2. Lines' /\ calls' \in Seq(CallRecord)
    BY <1>1, <2>1, Dropped
  <2>3. Homing'
    BY <1>7, <2>1 DEF Homing, Fair
  <2>4. Measured'
    BY <1>1, <1>3, <1>6, <1>7, <2>1 DEF Measured
  <2>5. QED
    BY <1>1, <1>4, <1>5, <2>1, <2>2, <2>3, <2>4 DEF Core, TypeOK
<1>8. CASE window.who = 1
  <2>1. /\ MayWrite(i)
        /\ calls' = [calls EXCEPT ![i].todo = Tail(calls[i].todo), ![i].done = calls[i].done + 1]
        /\ \/ window' = [window EXCEPT !.size = Sized(calls[i].size)]
           \/ window' = [window EXCEPT !.at = Placed(window.at, calls[i].at)]
    BY <1>8 DEF Write
  <2>2. Lines' /\ calls' \in Seq(CallRecord)
    BY <1>1, <2>1, Progressed
  <2>3. /\ Sized(calls[i].size) \in Size /\ Placed(window.at, calls[i].at) \in Place
        /\ window \in [who : {1, 2}, size : Size, at : Place, usable : BOOLEAN]
    BY <1>1, SizedFacts, PlaceFacts DEF CallRecord, TypeOK
  <2>4. window' \in [who : {1, 2}, size : Size, at : Place, usable : BOOLEAN] /\ window'.who = 1
    BY <1>8, <2>1, <2>3
  <2>5. Homing'
    <3>1. Fair' => Fair
      BY <1>1, <1>8 DEF Fair
    <3>2. QED
      BY <1>1, <1>2, <1>8, <3>1, WriteCarries DEF Homing
  <2>6. Measured'
    <3>1. probe.job # 1 /\ probe.pc = "writing" => Requested(Job) \in Size
      BY <1>1, JobFacts DEF Flow, ProbeRecord
    <3>2. QED
      BY <1>1, <1>2, <1>3, <1>6, <1>8, <2>4, <3>1, WriteCarries DEF Measured
  <2>7. QED
    BY <1>4, <1>5, <2>2, <2>4, <2>5, <2>6 DEF Core
<1>9. QED
  BY <1>7, <1>8

LEMMA RefuseKeeps ==
    ASSUME Inv, NEW i \in DOMAIN calls, Refuse(i)
    PROVE  Core'
<1>1. /\ TypeOK /\ Lines /\ Flow /\ Homing /\ Recorded
      /\ probe' = probe /\ UNCHANGED <<kind, window, meddled>>
      /\ probe \in ProbeRecord /\ calls[i].todo # <<>>
      /\ calls' = [calls EXCEPT ![i].todo = <<>>] /\ refused' = TRUE
      /\ spoiled' = (spoiled \/ (i = Len(calls) /\ calls[i].at = Corner(Original)))
  BY DEF Inv, TypeOK, Refuse, MayWrite
<1>2. /\ Lines' /\ calls' \in Seq(CallRecord) /\ calls' # <<>>
      /\ Len(calls') = Len(calls)
      /\ \A k \in DOMAIN calls : k # i => calls'[k] = calls[k]
  BY <1>1, Dropped
<1>3. ~Calm /\ ~Settled
  BY <1>1, NotCalm
<1>4. ~Honest'
  BY <1>1 DEF Honest
<1>5. Homing'
  <2>1. SUFFICES ASSUME Fair', ~probe.pending \/ probe.pc \in {"restoring", "compare", "ended"}
                 PROVE  Homeward' /\ probe.pc # "compare"
    BY <1>1 DEF Homing
  <2>2. Fair /\ ~(i = Len(calls) /\ calls[i].at = Corner(Original))
    BY <1>1, <2>1 DEF Fair
  <2>3. Homeward /\ probe.pc # "compare"
    BY <1>1, <1>3, <2>1, <2>2 DEF Homing
  <2>4. Len(calls) \in DOMAIN calls /\ i # Len(calls)
    BY <1>1, <2>2, <2>3, CallsFacts DEF Homeward, Carrying
  <2>5. calls'[Len(calls')] = calls[Len(calls)]
    BY <1>2, <2>4
  <2>6. calls[Len(calls)].done # 3
    BY <1>3, <2>3 DEF Homeward, Carrying
  <2>7. QED
    BY <1>1, <1>2, <2>3, <2>5, <2>6 DEF Homeward, Carrying, Whole
<1>6. QED
  BY <1>1, <1>2, <1>4, <1>5 DEF Core, Flow, Measured, Recorded

\* A call whose writes are done is answered.
LEMMA AnsweredKeeps ==
    ASSUME Inv, NEW i \in DOMAIN calls, NEW stable \in BOOLEAN, Answered(i, stable),
           UNCHANGED <<kind, window, meddled, refused>>, spoiled => spoiled'
    PROVE  Core'
<1>1. /\ TypeOK /\ Lines /\ Flow /\ Homing /\ Measured /\ Recorded /\ kind \in Kinds
      /\ probe \in ProbeRecord /\ calls[i].todo = <<>> /\ calls' = RemoveAt(calls, i)
      /\ calls # <<>> /\ Len(calls) \in DOMAIN calls /\ Len(calls) \in Nat
      /\ i \in 1 .. Len(calls)
  BY CallsFacts DEF Inv, TypeOK, Answered
<1>2. IF calls[i].mine
      THEN probe' = [probe EXCEPT !.pc = Resumed(probe.pc), !.stable = stable]
      ELSE probe' = probe
  BY DEF Answered
<1>3. calls[i].mine => i = Len(calls) /\ probe.pc \in Awaiting
  BY <1>1 DEF Lines, Awaited
<1>4. calls[i].mine =>
        \/ probe.pc = "writing" /\ Resumed(probe.pc) = "measure"
        \/ probe.pc = "moving" /\ Resumed(probe.pc) = "verify"
        \/ probe.pc = "restoring" /\ Resumed(probe.pc) = "compare"
  <2>1. /\ Resumed("writing") = "measure" /\ Resumed("moving") = "verify"
        /\ Resumed("restoring") = "compare"
    BY DEF Resumed
  <2>2. calls[i].mine => probe.pc = "writing" \/ probe.pc = "moving" \/ probe.pc = "restoring"
    BY <1>3 DEF Awaiting
  <2>3. QED
    BY <2>1, <2>2
<1>5. calls[i].mine => /\ probe'.pc = Resumed(probe.pc) /\ probe' \in ProbeRecord
                       /\ probe'.job = probe.job /\ probe'.final = probe.final
                       /\ probe'.failed = probe.failed /\ probe'.pending = probe.pending
                       /\ probe'.seen = probe.seen /\ probe'.evidence = probe.evidence
  <2> SUFFICES ASSUME calls[i].mine
               PROVE  /\ probe'.pc = Resumed(probe.pc) /\ probe' \in ProbeRecord
                      /\ probe'.job = probe.job /\ probe'.final = probe.final
                      /\ probe'.failed = probe.failed /\ probe'.pending = probe.pending
                      /\ probe'.seen = probe.seen /\ probe'.evidence = probe.evidence
    OBVIOUS
  <2>1. Resumed(probe.pc) \in Pcs
    BY <1>4 DEF Pcs
  <2>2. probe \in ProbeRecord /\ stable \in BOOLEAN
    BY <1>1 DEF Inv, TypeOK
  <2>3. probe' = [probe EXCEPT !.pc = Resumed(probe.pc), !.stable = stable]
    BY <1>2
  <2>4. probe' \in ProbeRecord
    BY <2>1, <2>2, <2>3 DEF ProbeRecord
  <2>5. /\ probe'.pc = Resumed(probe.pc)
        /\ probe'.job = probe.job /\ probe'.final = probe.final
        /\ probe'.failed = probe.failed /\ probe'.pending = probe.pending
        /\ probe'.seen = probe.seen /\ probe'.evidence = probe.evidence
    BY <2>2, <2>3 DEF ProbeRecord
  <2>6. QED
    BY <2>4, <2>5
<1>6. IF calls[i].mine THEN probe'.pc \notin Awaiting ELSE probe'.pc = probe.pc
  BY <1>2, <1>4, <1>5 DEF Awaiting
<1>7. /\ calls' \in Seq(CallRecord) /\ Lines' /\ Len(calls') = Len(calls) - 1
      /\ \A k \in DOMAIN calls' : calls'[k] = IF k < i THEN calls[k] ELSE calls[k + 1]
      /\ i # Len(calls) => calls' # <<>> /\ calls'[Len(calls')] = calls[Len(calls)]
  BY <1>1, <1>6, Removed
<1>8. /\ \A size : Sized(size)' = Sized(size)
      /\ Honest' = Honest /\ (Fair' => Fair)
  BY DEF Sized, Honest, Fair
<1>9. Calm => Calm'
  <2>1. SUFFICES ASSUME Calm, NEW k \in DOMAIN calls'
                 PROVE  calls'[k].todo = <<>>
    BY DEF Calm
  <2>2. k \in DOMAIN calls /\ k + 1 \in DOMAIN calls
    BY <1>1, <1>7, <2>1, CallsFacts
  <2>3. QED
    BY <1>7, <2>1, <2>2 DEF Calm
<1>10. Settled => Settled'
  BY <1>9 DEF Settled, AtHome
<1>11. \A size : Carrying(size) /\ i # Len(calls) => Carrying(size)'
  BY <1>7, <1>8, <1>9 DEF Carrying, Whole
<1>12. \A size : Carrying(size) /\ i = Len(calls) => Calm /\ window.size = Sized(size)
  BY <1>1, TodoFacts DEF Carrying, Whole
<1>13. Homeward => Settled' \/ Homeward'
  <2>1. CASE i # Len(calls)
    BY <1>7, <1>11, <2>1 DEF Homeward
  <2>2. CASE i = Len(calls)
    <3>1. Homeward => calls[i].done = 3
      BY <1>1, <2>2, TodoFacts DEF Homeward, Carrying, Whole
    <3>2. Homeward => Settled
      BY <1>1, <1>12, <2>2, <3>1, SizedOriginal DEF Homeward, Settled, AtHome
    <3>3. QED
      BY <1>10, <3>2
  <2>3. QED
    BY <2>1, <2>2
<1>14. calls[i].mine /\ Homeward => Settled
  <2>1. SUFFICES ASSUME i = Len(calls), Homeward
                 PROVE  Settled
    BY <1>3
  <2>2. calls[i].done = 3
    BY <1>1, <2>1, TodoFacts DEF Homeward, Carrying, Whole
  <2>3. QED
    BY <1>1, <1>12, <2>1, <2>2, SizedOriginal DEF Homeward, Settled, AtHome
<1>15. Flow'
  BY <1>1, <1>2, <1>4, <1>5 DEF Flow
<1>16. Homing'
  <2>1. CASE ~calls[i].mine
    BY <1>1, <1>2, <1>8, <1>10, <1>13, <2>1 DEF Homing
  <2>2. CASE calls[i].mine
    <3>1. CASE probe.pc = "restoring"
      BY <1>1, <1>8, <1>10, <1>14, <2>2, <3>1 DEF Homing
    <3>2. CASE probe.pc # "restoring"
      BY <1>1, <1>4, <1>5, <2>2, <3>2 DEF Homing, Flow
    <3>3. QED
      BY <3>1, <3>2
  <2>3. QED
    BY <2>1, <2>2
<1>17. Measured'
  <2>1. Job' = Job
    BY <1>2, <1>5 DEF Job
  <2>2. CASE ~calls[i].mine
    <3>1. probe.pc = "writing" => i # Len(calls)
      BY <1>1, <2>2 DEF Lines, Awaited, Awaiting
    <3>2. QED
      BY <1>1, <1>2, <1>8, <1>9, <1>11, <2>1, <2>2, <3>1 DEF Measured
  <2>3. CASE calls[i].mine
    BY <1>1, <1>3, <1>4, <1>5, <1>8, <1>9, <1>12, <2>1, <2>3 DEF Measured
  <2>4. QED
    BY <2>2, <2>3
<1>18. Recorded'
  BY <1>1, <1>2, <1>4, <1>5, <1>8 DEF Recorded
<1>19. QED
  BY <1>1, <1>2, <1>5, <1>7, <1>15, <1>16, <1>17, <1>18 DEF Core

-----------------------------------------------------------------------------
(* All steps.                                                              *)

\* What others do shows in the window or the context, and is on record.
LEMMA DisturbKeeps ==
    ASSUME Inv, Meddle \/ Replace \/ Minimize \/ Reconfigure
    PROVE  Core' /\ window' \in [who : {1, 2}, size : Size, at : Place, usable : BOOLEAN]
<1>1. /\ TypeOK /\ Lines /\ Flow /\ Homing /\ Measured /\ Recorded /\ kind \in Kinds
      /\ UNCHANGED <<kind, calls, probe, refused>>
      /\ probe \in ProbeRecord /\ calls \in Seq(CallRecord)
      /\ window \in [who : {1, 2}, size : Size, at : Place, usable : BOOLEAN]
  BY DEF Inv, TypeOK, Meddle, Replace, Minimize, Reconfigure, Disturb
<1>2. /\ (\A size : Sized(size)' = Sized(size)) /\ Job' = Job
      /\ Calm => Calm'
  BY <1>1 DEF Sized, Job, Calm
<1>3. Flow' /\ Lines'
  BY <1>1 DEF Flow, Lines, Shaped, Ordered, Awaited, Whole, Awaiting
<1>4. CASE Meddle
  <2>1. /\ meddled' = TRUE /\ spoiled' = TRUE
        /\ \/ \E a \in Axes : window' = [window EXCEPT !.size[a] = kind.lo[a]]
           \/ window' = [window EXCEPT !.at = OnScreen]
    BY <1>4 DEF Meddle
  <2>2. window' \in [who : {1, 2}, size : Size, at : Place, usable : BOOLEAN]
    <3>1. CASE window' = [window EXCEPT !.at = OnScreen]
      BY <1>1, <3>1, PlaceFacts
    <3>2. ASSUME NEW a \in Axes, window' = [window EXCEPT !.size[a] = kind.lo[a]]
          PROVE  window' \in [who : {1, 2}, size : Size, at : Place, usable : BOOLEAN]
      <4> DEFINE size == [window.size EXCEPT ![a] = kind.lo[a]]
      <4>1. kind.lo[a] \in Nat
        BY <1>1, KindFacts
      <4>2. size \in Size
        BY <1>1, <4>1 DEF Size
      <4>3. window' = [window EXCEPT !.size = size]
        BY <1>1, <3>2
      <4> HIDE DEF size
      <4>4. QED
        BY <1>1, <4>2, <4>3
    <3>3. QED
      BY <2>1, <3>1, <3>2
  <2>3. ~Fair' /\ ~Honest'
    BY <2>1 DEF Fair, Honest
  <2>4. QED
    BY <1>1, <1>3, <2>2, <2>3 DEF Core, Homing, Measured, Recorded
<1>5. CASE Replace
  <2>1. /\ window' = [window EXCEPT !.who = 2, !.at = OnScreen]
        /\ UNCHANGED <<meddled, spoiled>>
    BY <1>5 DEF Replace
  <2>2. window' \in [who : {1, 2}, size : Size, at : Place, usable : BOOLEAN] /\ window'.who = 2
    BY <1>1, <2>1, PlaceFacts
  <2>3. ~Fair' /\ (Honest' = Honest)
    BY <1>1, <2>1, <2>2 DEF Fair, Honest
  <2>4. Measured'
    BY <1>1, <1>2, <2>2, <2>3 DEF Measured
  <2>5. QED
    BY <1>1, <1>2, <1>3, <2>2, <2>3, <2>4 DEF Core, Homing, Recorded
<1>6. CASE Minimize \/ Reconfigure
  <2>1. /\ window' = [window EXCEPT !.usable = FALSE] \/ window' = window
        /\ UNCHANGED <<meddled, spoiled>>
    BY <1>6 DEF Minimize, Reconfigure
  <2>2. /\ window' \in [who : {1, 2}, size : Size, at : Place, usable : BOOLEAN]
        /\ window'.who = window.who /\ window'.size = window.size /\ window'.at = window.at
    BY <1>1, <2>1
  <2>3. Fair' = Fair /\ Honest' = Honest
    BY <1>1, <2>1, <2>2 DEF Fair, Honest
  <2>4. Settled => Settled'
    BY <1>2, <2>2 DEF Settled, AtHome
  <2>5. \A size : Carrying(size) => Carrying(size)'
    BY <1>1, <1>2, <2>2 DEF Carrying, Whole
  <2>6. Homeward => Homeward'
    BY <1>1, <2>2, <2>5 DEF Homeward
  <2>7. Measured'
    BY <1>1, <1>2, <2>2, <2>3, <2>5 DEF Measured
  <2>8. QED
    BY <1>1, <1>2, <1>3, <2>2, <2>3, <2>4, <2>6, <2>7 DEF Core, Homing, Recorded
<1>7. QED
  BY <1>4, <1>5, <1>6

\* Every step of the fiber that is not a step forward leaves.
LEMMA FiberKeeps ==
    ASSUME Inv, Fiber \/ SaveFails \/ Interrupt \/ Timeout \/ ReadFails
    PROVE  Core'
<1>1. /\ TypeOK /\ Flow /\ Lines /\ kind \in Kinds /\ probe \in ProbeRecord
      /\ UNCHANGED <<kind, window, context, meddled, refused>>
  BY FiberWorld DEF Inv, TypeOK
<1>2. probe.job \in 1 .. 10 /\ (probe.job = 10 => probe.pc \in {"finish", "saving", "ended"})
      /\ (probe.job = 10 \/ probe.job \in 1 .. 9)
  BY <1>1 DEF ProbeRecord, Flow
<1>3. /\ Leaving(probe, Leave(probe))
      /\ Leaving(probe, Leave([probe EXCEPT !.failed = TRUE]))
      /\ probe.job \in 1 .. 9 => Leaving(probe, Fail(probe))
  BY <1>1, LeavingFacts
\* Leaving without the calls: where nothing is awaited.
<1>4. ASSUME Leaving(probe, probe'), calls' = calls, probe.pc \notin Awaiting,
             spoiled => spoiled',
             probe.pc = "putback" => ~Fair' \/ ~probe.final,
             probe.job = 10 => probe'.pc = "ended"
      PROVE  Core'
  BY <1>1, <1>4, LeavingKeeps
\* At the end nothing is to be put back.
<1>5. ASSUME probe.pc \in {"finish", "saving"},
             probe' = Leave([probe EXCEPT !.failed = TRUE]) \/ probe' = Leave(probe)
      PROVE  probe'.pc = "ended"
  BY <1>1, <1>5 DEF ProbeRecord, Flow, Leave
<1>6. CASE Start
  <2>1. CASE Guarded /\ AtHome(window)
    BY <1>6, <2>1, StartKeeps
  <2>2. CASE ~(Guarded /\ AtHome(window))
    <3>1. /\ probe.pc = "idle" /\ calls' = calls /\ spoiled' = spoiled
          /\ probe' = [probe EXCEPT !.pc = "ended", !.failed = TRUE]
      BY <1>6, <2>2 DEF Start
    <3>2. Leaving(probe, probe')
      BY <1>1, <3>1 DEF Leaving, ProbeRecord, Pcs, Flow
    <3>3. QED
      BY <1>2, <1>4, <3>1, <3>2 DEF Awaiting
  <2>3. QED
    BY <2>1, <2>2
<1>7. CASE Request
  <2>1. probe.pc = "begin" /\ spoiled' = spoiled /\ probe.job \in 1 .. 9
    BY <1>2, <1>7 DEF Request
  <2>2. CASE Guarded /\ AtHome(window)
    <3>1. probe' = [probe EXCEPT !.pc = "writing", !.pending = TRUE]
      BY <1>7, <2>2 DEF Request
    <3>2. Original \in Size /\ Nudged \in Place /\ Requested(Job) \in Size
          /\ Corner(Requested(Job)) \in Place /\ (Job.name = "nudge" <=> probe.job = 1)
      BY <1>1, <2>1, KindFacts, PlaceFacts, JobFacts
    <3>3. CASE Job.name = "nudge"
      <4>1. Call(Original, Nudged, Spot) /\ probe.job = 1
        BY <1>7, <2>2, <3>2, <3>3 DEF Request, Spot
      <4>2. QED
        BY <1>1, <2>1, <3>1, <3>2, <4>1, CallKeeps
    <3>4. CASE Job.name # "nudge"
      <4>1. Call(Requested(Job), Corner(Requested(Job)), Frame)
        BY <1>7, <2>2, <3>4 DEF Request
      <4>2. QED
        BY <1>1, <2>1, <3>1, <3>2, <4>1, CallKeeps
    <3>5. QED
      BY <3>3, <3>4
  <2>3. CASE ~(Guarded /\ AtHome(window))
    <3>1. probe' = Fail(probe) /\ calls' = calls
      BY <1>7, <2>3 DEF Request
    <3>2. QED
      BY <1>3, <1>4, <2>1, <3>1 DEF Awaiting
  <2>4. QED
    BY <2>2, <2>3
<1>8. CASE MeasureNudge
  <2>1. probe.pc = "measure" /\ spoiled' = spoiled /\ calls' = calls /\ probe.job \in 1 .. 9
    BY <1>2, <1>8 DEF MeasureNudge
  <2>2. CASE ~Guarded
    <3>1. probe' = Fail(probe)
      BY <1>8, <2>2 DEF MeasureNudge
    <3>2. QED
      BY <1>3, <1>4, <2>1, <3>1 DEF Awaiting
  <2>3. CASE Guarded
    <3> DEFINE failed == ~(probe.stable /\ window.size = Original /\ window.at = Nudged)
    <3>1. probe' = [probe EXCEPT !.pc = "putback", !.failed = failed] /\ failed \in BOOLEAN
      BY <1>8, <2>3 DEF MeasureNudge
    <3> HIDE DEF failed
    <3>2. QED
      BY <1>8, <3>1, NudgeKeeps
  <2>4. QED
    BY <2>2, <2>3
<1>9. CASE Measure
  <2>1. probe.pc = "measure" /\ spoiled' = spoiled /\ calls' = calls /\ probe.job \in 1 .. 9
    BY <1>2, <1>9 DEF Measure
  <2>2. CASE probe' = Fail(probe)
    BY <1>3, <1>4, <2>1, <2>2 DEF Awaiting
  <2>3. CASE Guarded /\ probe' = [probe EXCEPT !.pc = "correct", !.seen = window.size]
    BY <1>9, <2>3, MeasureKeeps
  <2>4. QED
    BY <1>9, <2>2, <2>3 DEF Measure
<1>10. CASE Correct
  <2>1. probe.pc = "correct" /\ spoiled' = spoiled /\ probe.job \in 1 .. 9
    BY <1>2, <1>10 DEF Correct
  <2>2. CASE Guarded
    <3>1. /\ Call(probe.seen, Corner(probe.seen), Spot)
          /\ probe' = [probe EXCEPT !.pc = "moving"]
      BY <1>10, <2>2 DEF Correct, Spot
    <3>2. probe.seen \in Size /\ Corner(probe.seen) \in Place /\ probe.pending = TRUE
      BY <1>1, <2>1, PlaceFacts DEF ProbeRecord, Flow
    <3>3. probe' = [probe EXCEPT !.pc = "moving", !.pending = TRUE]
      BY <1>1, <3>1, <3>2 DEF ProbeRecord
    <3>4. QED
      BY <1>1, <2>1, <3>1, <3>2, <3>3, CallKeeps
  <2>3. CASE ~Guarded
    <3>1. probe' = Fail(probe) /\ calls' = calls
      BY <1>10, <2>3 DEF Correct
    <3>2. QED
      BY <1>3, <1>4, <2>1, <3>1 DEF Awaiting
  <2>4. QED
    BY <2>2, <2>3
<1>11. CASE Verify
  <2>1. probe.pc = "verify" /\ spoiled' = spoiled /\ calls' = calls /\ probe.job \in 1 .. 9
    BY <1>2, <1>11 DEF Verify
  <2>2. CASE probe' = Fail(probe)
    BY <1>3, <1>4, <2>1, <2>2 DEF Awaiting
  <2>3. CASE probe' = [probe EXCEPT !.pc = "putback",
                          !.evidence[Job.name][Job.axis] = probe.seen[Job.axis]]
    BY <1>11, <2>3, VerifyKeeps
  <2>4. QED
    BY <1>11, <2>2, <2>3 DEF Verify
<1>12. CASE PutBack
  <2>1. probe.pc = "putback" /\ probe.job \in 1 .. 9
    BY <1>2, <1>12 DEF PutBack
  <2>2. CASE window.who = 1
    <3>1. Call(Original, Corner(Original), Frame) /\ probe' = [probe EXCEPT !.pc = "restoring"]
      BY <1>12, <2>2 DEF PutBack
    <3>2. QED
      BY <1>12, <3>1, PutBackKeeps
  <2>3. CASE window.who # 1
    <3>1. /\ probe' = Leave([probe EXCEPT !.failed = TRUE]) /\ calls' = calls
          /\ spoiled' = spoiled
      BY <1>12, <2>3 DEF PutBack
    <3>2. ~Fair'
      BY <1>1, <2>3 DEF Fair
    <3>3. QED
      BY <1>3, <1>4, <2>1, <3>1, <3>2 DEF Awaiting
  <2>4. QED
    BY <2>2, <2>3
<1>13. CASE Compare
  <2>1. probe.pc = "compare" /\ spoiled' = spoiled /\ calls' = calls /\ probe.job \in 1 .. 9
    BY <1>2, <1>13 DEF Compare
  <2>2. CASE probe' = Leave([probe EXCEPT !.failed = TRUE])
    BY <1>3, <1>4, <2>1, <2>2 DEF Awaiting
  <2>3. CASE /\ probe.stable /\ window.who = 1 /\ AtHome(window)
             /\ probe' = Leave([probe EXCEPT !.pending = FALSE, !.failed = TRUE])
    BY <1>13, <2>3, GivenUpKeeps
  <2>4. CASE /\ ~probe.failed /\ Able(probe.evidence)
             /\ probe' = [probe EXCEPT !.pending = FALSE, !.job = After(probe.evidence),
                             !.pc = IF After(probe.evidence) > Len(Script)
                                    THEN "finish" ELSE "begin"]
    BY <1>13, <2>4, CompareKeeps
  <2>5. QED
    BY <1>13, <2>2, <2>3, <2>4 DEF Compare
<1>14. CASE Publish
  <2>1. probe.pc = "finish" /\ spoiled' = spoiled /\ calls' = calls /\ probe.job = 10
    BY <1>1, <1>14 DEF Publish, Flow
  <2>2. CASE probe' = Leave([probe EXCEPT !.failed = TRUE]) \/ probe' = Leave(probe)
    BY <1>3, <1>4, <1>5, <2>1, <2>2 DEF Awaiting
  <2>3. CASE probe' = [probe EXCEPT !.pc = "saving"]
    BY <1>14, <2>3, PublishKeeps
  <2>4. QED
    BY <1>14, <2>2, <2>3 DEF Publish
<1>15. CASE Save \/ SaveFails
  <2>1. /\ probe.pc = "saving" /\ spoiled' = spoiled /\ calls' = calls /\ probe.job = 10
        /\ probe' = Leave([probe EXCEPT !.failed = TRUE]) \/ probe' = Leave(probe)
    BY <1>1, <1>15 DEF Save, SaveFails, Flow
  <2>2. QED
    BY <1>3, <1>4, <1>5, <2>1 DEF Awaiting
<1>16. CASE Interrupt
  <2>1. /\ probe.pc # "ended" /\ ~probe.final /\ calls' = Abandoned /\ spoiled' = spoiled
        /\ probe' = Leave([probe EXCEPT !.failed = TRUE])
    BY <1>16 DEF Interrupt
  <2>2. probe.job = 10 => probe'.pc = "ended"
    BY <1>2, <1>5, <2>1
  <2>3. QED
    BY <1>1, <1>3, <2>1, <2>2, LeavingKeeps
<1>17. CASE Timeout
  <2>1. /\ probe.pc \in Awaiting /\ calls' = Abandoned
        /\ probe' \in {Leave([probe EXCEPT !.failed = TRUE]), Fail(probe)}
        /\ spoiled => spoiled'
    BY <1>17 DEF Timeout
  <2>2. probe.pc # "putback" /\ probe.job \in 1 .. 9
    BY <1>2, <2>1 DEF Awaiting
  <2>3. QED
    BY <1>1, <1>3, <2>1, <2>2, LeavingKeeps
<1>18. CASE ReadFails
  <2>1. /\ probe.pc \in {"begin", "measure", "correct", "verify", "putback", "compare", "finish"}
        /\ probe.pc \in {"begin", "measure", "correct", "verify"} =>
             probe' = Fail(probe) \/ probe' = Leave([probe EXCEPT !.failed = TRUE])
        /\ probe.pc \in {"putback", "compare", "finish"} =>
             probe' = Leave([probe EXCEPT !.failed = TRUE])
        /\ calls' = calls
        /\ spoiled' = (spoiled \/ probe.pc \in {"putback", "compare"})
    BY <1>18 DEF ReadFails
  <2>2. probe.pc = "putback" => ~Fair'
    BY <2>1 DEF Fair
  <2>3. Leaving(probe, probe')
    BY <1>2, <1>3, <2>1
  <2>4. probe.job = 10 => probe'.pc = "ended"
    BY <1>2, <1>5, <2>1
  <2>5. QED
    BY <1>4, <2>1, <2>2, <2>3, <2>4 DEF Awaiting
<1>19. QED
  BY <1>6, <1>7, <1>8, <1>9, <1>10, <1>11, <1>12, <1>13, <1>14, <1>15, <1>16, <1>17, <1>18
  DEF Fiber

LEMMA InitInv == Init => Inv
<1>1. SUFFICES ASSUME Init PROVE Inv
  OBVIOUS
<1>2. kind \in Kinds /\ calls = <<>> /\ calls \in Seq(CallRecord)
  BY <1>1 DEF Init
<1>3. Original \in Size /\ Corner(Original) \in Place
  BY <1>2, KindFacts, PlaceFacts
<1>4. /\ NoBounds \in Bounds
      /\ NoEvidence \in [Names -> [Axes -> Nat]]
      /\ \A n \in Names, a \in Axes : NoEvidence[n][a] = 0
  BY DEF NoBounds, Bounds, NoEvidence, Names
<1>5. TypeOK
  <2>1. probe \in ProbeRecord
    BY <1>1, <1>3, <1>4 DEF Init, ProbeRecord, Pcs
  <2>2. window \in [who : {1, 2}, size : Size, at : Place, usable : BOOLEAN]
    BY <1>1, <1>3 DEF Init
  <2>3. learning \in [memory : Bounds, saved : Bounds, dirty : BOOLEAN]
    BY <1>1, <1>4 DEF Init
  <2>4. trouble \in Nat /\ context \in BOOLEAN /\ meddled \in BOOLEAN
        /\ refused \in BOOLEAN /\ spoiled \in BOOLEAN
    BY <1>1 DEF Init
  <2>5. QED
    BY <1>2, <2>1, <2>2, <2>3, <2>4 DEF TypeOK
<1>6. /\ probe.pc = "idle" /\ probe.job = 1 /\ ~probe.final /\ ~probe.pending
      /\ ~probe.failed /\ probe.evidence = NoEvidence
      /\ window.at = Corner(Original) /\ window.size = Original
  BY <1>1 DEF Init
<1>7. Flow
  BY <1>6 DEF Flow
<1>8. Lines
  BY <1>2, <1>6 DEF Lines, Shaped, Ordered, Awaited, Awaiting
<1>9. Stuck /\ Homing
  <2>1. Settled
    BY <1>2, <1>6 DEF Settled, Calm, AtHome
  <2>2. QED
    BY <1>6, <2>1 DEF Stuck, Homing
<1>10. Measured /\ Recorded
  BY <1>4, <1>6 DEF Measured, Recorded
<1>11. Kept
  BY <1>1 DEF Init, Kept, Exact
<1>12. QED
  BY <1>5, <1>7, <1>8, <1>9, <1>10, <1>11 DEF Inv

LEMMA NextInv == Inv /\ [Next]_vars => Inv'
<1>1. SUFFICES ASSUME Inv, [Next]_vars PROVE Inv'
  OBVIOUS
<1>2. TypeOK /\ trouble \in Nat /\ kind \in Kinds
  BY <1>1 DEF Inv, TypeOK
\* What is left to show of a step.
<1>3. ASSUME Core', kind' = kind,
             window' \in [who : {1, 2}, size : Size, at : Place, usable : BOOLEAN],
             trouble' \in Nat, context' \in BOOLEAN,
             meddled' \in BOOLEAN, refused' \in BOOLEAN, spoiled' \in BOOLEAN
      PROVE  Inv'
  <2>1. Stuck' /\ Kept' /\ learning' \in [memory : Bounds, saved : Bounds, dirty : BOOLEAN]
    BY <1>1, StuckKept, KeptKept
  <2>2. QED
    BY <1>2, <1>3, <2>1 DEF Inv, TypeOK, Core
<1>4. CASE Fiber \/ SaveFails \/ Interrupt \/ Timeout \/ ReadFails
  <2>1. /\ UNCHANGED <<kind, window, context, meddled, refused>> /\ Core'
    BY <1>1, <1>4, FiberWorld, FiberKeeps
  <2>2. trouble' \in {trouble, trouble + 1} /\ spoiled' \in BOOLEAN
    BY <1>2, <1>4 DEF TypeOK, Fiber, Start, Request, MeasureNudge, Measure, Correct, Verify,
       PutBack, Compare, Publish, Save, SaveFails, Interrupt, Timeout, ReadFails
  <2>3. QED
    BY <1>2, <1>3, <2>1, <2>2 DEF TypeOK
<1>5. ASSUME NEW i \in DOMAIN calls, Write(i)
      PROVE  Inv'
  <2>1. UNCHANGED <<kind, context, trouble, meddled, refused, spoiled>>
    BY <1>5 DEF Write
  <2>2. QED
    BY <1>1, <1>2, <1>3, <1>5, <2>1, WriteKeeps DEF TypeOK
<1>6. ASSUME NEW i \in DOMAIN calls, Refuse(i)
      PROVE  Inv'
  <2>1. /\ UNCHANGED <<kind, window, context, meddled>>
        /\ trouble' = trouble + 1 /\ refused' = TRUE /\ spoiled' \in BOOLEAN
    BY <1>2, <1>6 DEF Refuse, TypeOK
  <2>2. QED
    BY <1>1, <1>2, <1>3, <1>6, <2>1, RefuseKeeps DEF TypeOK
<1>7. ASSUME NEW i \in DOMAIN calls, Answer(i) \/ Unsettled(i)
      PROVE  Inv'
  <2>1. /\ UNCHANGED <<kind, window, context, meddled, refused>>
        /\ trouble' \in {trouble, trouble + 1} /\ spoiled' \in BOOLEAN
        /\ spoiled => spoiled'
    BY <1>2, <1>7 DEF Answer, Unsettled, TypeOK
  <2>2. PICK stable \in BOOLEAN : Answered(i, stable)
    BY <1>7 DEF Answer, Unsettled
  <2>3. Core'
    BY <1>1, <1>7, <2>1, <2>2, AnsweredKeeps
  <2>4. QED
    BY <1>2, <1>3, <2>1, <2>3 DEF TypeOK
<1>8. CASE Meddle \/ Replace \/ Minimize \/ Reconfigure
  <2>1. /\ kind' = kind /\ trouble' = trouble + 1 /\ refused' = refused
        /\ context' \in BOOLEAN /\ meddled' \in BOOLEAN /\ spoiled' \in BOOLEAN
    BY <1>2, <1>8 DEF Meddle, Replace, Minimize, Reconfigure, Disturb, TypeOK
  <2>2. QED
    BY <1>1, <1>2, <1>3, <1>8, <2>1, DisturbKeeps DEF TypeOK
<1>9. CASE UNCHANGED vars
  <2>1. UNCHANGED <<kind, window, context, calls, probe, learning>>
        /\ UNCHANGED <<trouble, meddled, refused, spoiled>>
    BY <1>9 DEF vars
  <2>2. Core'
    <3>1. Flow' /\ Lines'
      BY <1>1, <2>1 DEF Inv, Flow, Lines, Shaped, Ordered, Awaited, Whole, Awaiting
    <3>2. Homing'
      <4>1. Settled' <=> Settled
        BY <2>1 DEF Settled, Calm, AtHome
      <4>2. Homeward' <=> Homeward
        BY <2>1 DEF Homeward, Carrying, Calm, Whole, Sized
      <4>3. Fair' <=> Fair
        BY <2>1 DEF Fair
      <4>4. QED
        BY <1>1, <2>1, <4>1, <4>2, <4>3 DEF Inv, Homing
    <3>3. Measured'
      <4>1. Honest' <=> Honest
        BY <2>1 DEF Honest
      <4>2. Requested(Job)' = Requested(Job) /\ \A size : Sized(size)' = Sized(size)
        BY <2>1 DEF Job, Sized, Requested
      <4>3. Carrying(Requested(Job))' <=> Carrying(Requested(Job))
        BY <2>1, <4>2 DEF Carrying, Calm, Whole
      <4>4. Calm' <=> Calm
        BY <2>1 DEF Calm
      <4>5. QED
        BY <1>1, <2>1, <4>1, <4>2, <4>3, <4>4 DEF Inv, Measured
    <3>4. Recorded'
      BY SMTT(40), <1>1, <2>1 DEF Inv, Recorded, Honest, Sized
    <3>5. QED
      BY <1>2, <2>1, <3>1, <3>2, <3>3, <3>4 DEF Core, TypeOK
  <2>3. QED
    BY <1>2, <1>3, <2>1, <2>2 DEF TypeOK
<1>10. QED
  BY <1>1, <1>4, <1>5, <1>6, <1>7, <1>8, <1>9 DEF Next, Sidecar

\* The inductive invariant holds of every probe of a parked window's limits
\* (engine.ts, probeWindowLimits).
THEOREM SpecInv == Spec => []Inv
BY InitInv, NextInv, PTL DEF Spec

-----------------------------------------------------------------------------
(* The properties.                                                         *)

LEMMA InvRestored == Inv => RestoredAtTheEnd
<1>1. SUFFICES ASSUME Inv, probe.pc = "ended", calls = <<>>, Fair
               PROVE  AtHome(window)
  BY DEF RestoredAtTheEnd, Fair
<1>2. Settled \/ Homeward
  BY <1>1 DEF Inv, Homing
<1>3. ~Homeward
  BY <1>1 DEF Homeward, Carrying
<1>4. QED
  BY <1>2, <1>3 DEF Settled

\* When the probe of a parked window's limits has ended and the sidecar has
\* carried out its calls, the window has its frame again (probeWindowLimits'
\* finalizer): whatever failed, was interrupted or went on in the sidecar.
THEOREM WindowIsRestored == Spec => []RestoredAtTheEnd
BY SpecInv, InvRestored, PTL

LEMMA InvLearned == Inv => LearnedIsTrue
BY DEF Inv, Kept, Exact, Honest, LearnedIsTrue, PublishedIsExact

\* What the probe publishes are the bounds of the window it measured, and when
\* it has ended they are saved or marked to be saved (publishProbeFindings):
\* for every size, work area and pair of bounds.
THEOREM FindingsAreTrue == Spec => []LearnedIsTrue
BY SpecInv, InvLearned, PTL

-----------------------------------------------------------------------------
(* The search for the parking limits (ParkingSearch).                      *)

\* A state of the searching fiber.
Axis == [side : Sides, lo : Int, hi : Int, left : Int]
Fibers == [at : {"endpoint", "probe", "joint", "verify", "restore", "done"}, seed : Nat,
           read : BOOLEAN, refused : SUBSET Sides, bases : Seq(Visibility), basis : Nat,
           axis : Axis, limits : Visibility, nudge : [Sides -> Nat], attempt : 1 .. 3]

SearchRecord(s) ==
    /\ s \in Fibers
    /\ s.at # "done" => s.seed \in DOMAIN InOrder
    /\ s.at \in {"probe", "verify"} => s.basis \in DOMAIN s.bases

\* A window that is to be read back is where it was put, or where someone dragged it.
ReadTruly ==
    search.at \in {"joint", "verify"} /\ search.read =>
        standing[Seed] \in {Actual(Target)} \cup Elsewhere

\* When limits have been found, and nothing comes between, putting the window back
\* takes two attempts at most.
GoesBack ==
    found # {} =>
        /\ search.at \in {"restore", "done"}
        /\ search.at = "restore" /\ ~late =>
             /\ Seed \notin dead /\ search.attempt \in {1, 2}
             /\ search.read => standing[Seed] = Actual(Target)

Tried == {InOrder[i].window : i \in DOMAIN InOrder}

ParkingInv ==
    /\ system \in Systems
    /\ standing \in [Tried -> Visibility]
    /\ SearchRecord(search)
    /\ late \in BOOLEAN
    /\ ReadTruly /\ GoesBack /\ FoundIsGranted /\ SeedIsBack

LEMMA SidesFacts == Sides = {"horizontal", "vertical"}
BY DEF Sides

LEMMA RoundType ==
    ASSUME NEW side, NEW limit \in Int PROVE RoundLimitTowardVisible(side, limit) \in Int
<1>1. Point \in Int /\ Point > 0
  BY ParkingAssumption
<1>2. \A a \in Int : a \div Point \in Int
  BY <1>1
<1>3. \A a, b \in Int : a * b \in Int /\ -a \in Int
  OBVIOUS
<1>4. QED
  BY <1>1, <1>2, <1>3 DEF RoundLimitTowardVisible

LEMMA RoundedType == ASSUME NEW place \in Visibility PROVE Rounded(place) \in Visibility
BY RoundType DEF Rounded, Visibility

LEMMA SettlesType ==
    ASSUME NEW s \in Fibers, s.basis \in DOMAIN s.bases, NEW side \in Sides
    PROVE  Settles(s, side) \in Fibers
<1> DEFINE limit == IF side \in s.refused THEN RoundLimitTowardVisible(side, s.axis.hi)
                    ELSE s.bases[s.basis][side]
<1>1. s.bases[s.basis] \in Visibility /\ s.axis.hi \in Int
  BY DEF Fibers, Axis
<1>2. limit \in Int
  BY <1>1, RoundType DEF Visibility
<1>3. Settles(s, side) = [s EXCEPT !.limits = [s.limits EXCEPT ![side] = limit]]
  BY DEF Settles
<1> HIDE DEF limit
<1>4. [s.limits EXCEPT ![side] = limit] \in Visibility
  BY <1>2 DEF Fibers, Visibility
<1>5. QED
  BY <1>3, <1>4 DEF Fibers

LEMMA SettlesKeeps ==
    ASSUME NEW s \in Fibers, NEW side
    PROVE  Settles(s, side).bases = s.bases /\ Settles(s, side).basis = s.basis
           /\ Settles(s, side).seed = s.seed
BY DEF Fibers, Settles

LEMMA AlongType ==
    ASSUME NEW s \in Fibers, s.basis \in DOMAIN s.bases, NEW side \in Sides
    PROVE  /\ Along(s, side) \in Fibers /\ Along(s, side).bases = s.bases
           /\ Along(s, side).basis = s.basis /\ Along(s, side).seed = s.seed
<1> DEFINE axis == [side |-> side, lo |-> 0, hi |-> s.bases[s.basis][side],
                    left |-> ProbesFor(s.refused)]
<1>1. s.bases[s.basis] \in Visibility
  BY DEF Fibers
<1>2. s.bases[s.basis][side] \in Int
  BY <1>1 DEF Visibility
<1>3. ProbesFor(s.refused) \in Int
  BY ParkingAssumption DEF ProbesFor
<1>4. axis \in Axis
  BY <1>2, <1>3 DEF Axis
<1>5. Along(s, side) = [s EXCEPT !.at = "probe", !.axis = axis]
  BY DEF Along
<1> HIDE DEF axis
<1>6. QED
  BY <1>4, <1>5 DEF Fibers

LEMMA VerifyingType ==
    ASSUME NEW s \in Fibers
    PROVE  /\ Verifying(s) \in Fibers /\ Verifying(s).bases = s.bases
           /\ Verifying(s).basis = s.basis /\ Verifying(s).seed = s.seed
<1>1. Shows(0, 0) \in [Sides -> Nat]
  BY DEF Shows
<1>2. QED
  BY <1>1 DEF Fibers, Verifying

\* From a basis on, the same window is searched with the same bases.
LEMMA AlongVerticalType ==
    ASSUME NEW s \in Fibers, s.basis \in DOMAIN s.bases, s.seed \in DOMAIN InOrder
    PROVE  SearchRecord(AlongVertical(s))
<1> DEFINE t == Along(s, "vertical")
<1>1. /\ t \in Fibers /\ t.bases = s.bases /\ t.basis = s.basis /\ t.seed = s.seed
  BY AlongType, SidesFacts
<1> HIDE DEF t
<1> DEFINE u == Settles(t, "vertical")
<1>2. /\ u \in Fibers /\ u.bases = s.bases /\ u.basis = s.basis /\ u.seed = s.seed
  BY <1>1, SettlesType, SettlesKeeps, SidesFacts
<1> HIDE DEF u
<1>3. SearchRecord(Verifying(u))
  BY <1>2, VerifyingType DEF SearchRecord
<1>4. QED
  BY <1>1, <1>3 DEF AlongVertical, SearchRecord, t, u

LEMMA WithBasisType ==
    ASSUME NEW s \in Fibers, s.basis \in DOMAIN s.bases, s.seed \in DOMAIN InOrder
    PROVE  SearchRecord(WithBasis(s))
<1> DEFINE t == Along(s, "horizontal")
<1>1. /\ t \in Fibers /\ t.bases = s.bases /\ t.basis = s.basis /\ t.seed = s.seed
  BY AlongType, SidesFacts
<1> HIDE DEF t
<1> DEFINE u == Settles(t, "horizontal")
<1>2. /\ u \in Fibers /\ u.bases = s.bases /\ u.basis = s.basis /\ u.seed = s.seed
  BY <1>1, SettlesType, SettlesKeeps, SidesFacts
<1> HIDE DEF u
<1>3. SearchRecord(AlongVertical(u))
  BY <1>2, AlongVerticalType
<1>4. QED
  BY <1>1, <1>3 DEF WithBasis, SearchRecord, t, u

LEMMA NextSeedType ==
    ASSUME SearchRecord(search), search.at # "done"
    PROVE  SearchRecord(NextSeed) /\ NextSeed.at \in {"endpoint", "done"}
<1>1. InOrder \in Seq(Candidate) /\ search \in Fibers
  BY ParkingAssumption DEF SearchRecord
<1>2. search.seed \in DOMAIN InOrder /\ search.seed \in Nat
  BY DEF SearchRecord, Fibers
<1>3. CASE search.seed = Len(InOrder)
  <2>1. NextSeed = [search EXCEPT !.at = "done"]
    BY <1>3 DEF NextSeed, Over
  <2>2. QED
    BY <2>1, <1>1 DEF SearchRecord, Fibers
<1>4. CASE search.seed # Len(InOrder)
  <2> DEFINE n == search.seed + 1
  <2>1. n \in DOMAIN InOrder /\ n \in Nat
    BY <1>1, <1>2, <1>4
  <2>2. NextSeed = [search EXCEPT !.at = "endpoint", !.seed = n]
    BY <1>1, <1>4 DEF NextSeed, Fibers
  <2> HIDE DEF n
  <2>3. NextSeed \in Fibers /\ NextSeed.at = "endpoint" /\ NextSeed.seed = n
    BY <1>1, <2>1, <2>2 DEF Fibers
  <2>4. QED
    BY <2>1, <2>3 DEF SearchRecord
<1>5. QED
  BY <1>3, <1>4

LEMMA NextBasisType ==
    ASSUME SearchRecord(search), search.at = "verify" PROVE SearchRecord(NextBasis)
<1>1. search \in Fibers /\ search.basis \in DOMAIN search.bases /\ search.seed \in DOMAIN InOrder
  BY DEF SearchRecord
<1>2. search.bases \in Seq(Visibility) /\ search.basis \in Nat
  BY <1>1 DEF Fibers
<1> DEFINE n == search.basis + 1
           s == [search EXCEPT !.basis = n]
<1>3. search.basis # Len(search.bases) => n \in DOMAIN search.bases /\ n \in Nat
  BY <1>1, <1>2
<1> HIDE DEF n
<1>4. search.basis # Len(search.bases) =>
        s \in Fibers /\ s.basis \in DOMAIN s.bases /\ s.seed \in DOMAIN InOrder
  BY <1>1, <1>3 DEF Fibers
<1>5. s = [search EXCEPT !.basis = @ + 1]
  BY <1>1 DEF n, Fibers
<1> HIDE DEF s
<1>6. search.basis # Len(search.bases) => SearchRecord(WithBasis(s))
  BY <1>4, WithBasisType
<1>7. QED
  BY <1>5, <1>6, NextSeedType DEF NextBasis

LEMMA NextNudgeType ==
    ASSUME SearchRecord(search), search.at = "verify" PROVE SearchRecord(NextNudge)
<1>1. search \in Fibers /\ search.nudge \in [Sides -> Nat]
  BY DEF SearchRecord, Fibers
<1> DEFINE h == search.nudge["horizontal"]
           v == search.nudge["vertical"]
           over == [search EXCEPT !.nudge = Shows(h + 1, v - 1)]
           more == [search EXCEPT !.nudge = Shows(0, h + 1)]
<1>2. h \in Nat /\ v \in Nat
  BY <1>1, SidesFacts
<1>3. Shows(0, h + 1) \in [Sides -> Nat] /\ (v > 0 => Shows(h + 1, v - 1) \in [Sides -> Nat])
  BY <1>2 DEF Shows
<1> HIDE DEF h, v
<1>4. SearchRecord(more) /\ (v > 0 => SearchRecord(over))
  BY <1>1, <1>3 DEF SearchRecord, Fibers
<1>5. NextNudge = IF v > 0 THEN over ELSE IF h < 4 THEN more ELSE NextBasis
  BY <1>2 DEF NextNudge, h, v
<1> HIDE DEF over, more
<1>6. QED
  BY <1>4, <1>5, NextBasisType

LEMMA NarrowedType ==
    ASSUME SearchRecord(search), search.at = "probe", NEW accepted \in BOOLEAN
    PROVE  SearchRecord(Narrowed(accepted))
<1>1. search \in Fibers /\ search.basis \in DOMAIN search.bases /\ search.seed \in DOMAIN InOrder
  BY DEF SearchRecord
<1>2. search.axis \in Axis
  BY <1>1 DEF Fibers
<1>3. Middle \in Int
  BY <1>2 DEF Middle, Axis
<1> DEFINE axis == [search.axis EXCEPT !.left = @ - 1, !.hi = IF accepted THEN Middle ELSE @,
                                       !.lo = IF accepted THEN @ ELSE Middle]
           s == [search EXCEPT !.axis = axis]
<1>4. axis \in Axis
  <2> DEFINE less == [search.axis EXCEPT !.left = @ - 1]
  <2>1. /\ less \in Axis
        /\ [less EXCEPT !.hi = Middle] \in Axis
        /\ [less EXCEPT !.lo = Middle] \in Axis
    <3>1. search.axis.left - 1 \in Int
      BY <1>2 DEF Axis
    <3>2. less \in Axis
      BY <1>2, <3>1 DEF Axis
    <3> HIDE DEF less
    <3>3. QED
      BY <1>3, <3>2 DEF Axis
  <2>2. accepted => axis = [less EXCEPT !.hi = Middle]
    BY <1>2 DEF Axis
  <2>3. ~accepted => axis = [less EXCEPT !.lo = Middle]
    BY <1>2 DEF Axis
  <2> HIDE DEF less, axis
  <2>4. QED
    BY <1>3, <2>1, <2>2, <2>3
<1> HIDE DEF axis
<1>5. /\ s \in Fibers /\ s.at = "probe" /\ s.basis \in DOMAIN s.bases /\ s.seed \in DOMAIN InOrder
      /\ s.bases = search.bases /\ s.basis = search.basis
  BY <1>1, <1>4 DEF Fibers
<1> HIDE DEF s
<1>6. SearchRecord(s)
  BY <1>5 DEF SearchRecord
<1>7. \A side \in Sides : /\ Settles(s, side) \in Fibers
                          /\ Settles(s, side).basis \in DOMAIN Settles(s, side).bases
                          /\ Settles(s, side).seed \in DOMAIN InOrder
  BY <1>5, SettlesType, SettlesKeeps
<1>8. SearchRecord(AlongVertical(Settles(s, "horizontal")))
  BY <1>7, AlongVerticalType, SidesFacts
<1>9. SearchRecord(Verifying(Settles(s, "vertical")))
  BY <1>7, VerifyingType, SidesFacts DEF SearchRecord
<1>10. QED
  BY <1>6, <1>8, <1>9 DEF Narrowed, s, axis

-----------------------------------------------------------------------------
(* What a write makes of a place.                                          *)

LEMMA SystemFacts ==
    ASSUME system \in Systems
    PROVE  /\ system.limit \in [Sides -> Nat] /\ system.drift \in Int
           /\ Center \in Visibility /\ Granted(system, Center)
           /\ \A place \in Elsewhere : place \in Visibility /\ Granted(system, place)
BY ParkingAssumption

LEMMA ActualFacts ==
    ASSUME system \in Systems, NEW place \in Visibility
    PROVE  /\ Actual(place) \in Visibility
           /\ Granted(system, place) => Actual(place) = place
<1>1. system.limit \in [Sides -> Nat] /\ system.drift \in Int
  BY SystemFacts
<1> DEFINE held == [side \in Sides |-> IF place[side] < system.limit[side] THEN system.limit[side]
                                       ELSE place[side]]
<1>2. held \in Visibility
  BY <1>1 DEF Visibility
<1>3. ASSUME Granted(system, place) PROVE held = place
  BY <1>1, <1>3 DEF Granted, Visibility
<1>4. Granted(system, place) => ~(place["horizontal"] < system.limit["horizontal"])
  BY <1>1, SidesFacts DEF Granted, Visibility
<1>5. Actual(place) = IF place["horizontal"] < system.limit["horizontal"]
                      THEN [held EXCEPT !["vertical"] = @ + system.drift] ELSE held
  BY DEF Actual
<1> HIDE DEF held
<1>6. [held EXCEPT !["vertical"] = @ + system.drift] \in Visibility
  BY <1>1, <1>2, SidesFacts DEF Visibility
<1>7. QED
  BY <1>2, <1>3, <1>4, <1>5, <1>6

LEMMA TargetType ==
    ASSUME SearchRecord(search), search.at # "done"
    PROVE  Target \in Visibility /\ Home \in Visibility /\ Seed \in Tried
<1>1. search \in Fibers /\ search.seed \in DOMAIN InOrder /\ InOrder[search.seed] \in Candidate
  BY ParkingAssumption DEF SearchRecord
<1>2. Home \in Visibility /\ Seed \in Tried
  BY <1>1 DEF Home, Seed, Candidate, Tried
<1>3. CASE search.at \in {"endpoint", "joint"}
  <2>1. Target = Hidden
    BY <1>3 DEF Target
  <2>2. QED
    BY <2>1, <1>2 DEF Hidden, Shows, Visibility
<1>4. CASE search.at = "probe"
  <2>1. /\ search.bases[search.basis] \in Visibility /\ search.limits \in Visibility
        /\ search.axis \in Axis
    BY <1>1, <1>4 DEF SearchRecord, Fibers
  <2>2. Middle \in Int
    BY <2>1 DEF Middle, Axis
  <2>3. Target = [side \in Sides |-> IF side = search.axis.side THEN Middle
                                ELSE IF side = "horizontal" THEN search.limits[side]
                                ELSE search.bases[search.basis][side]]
    BY <1>4 DEF Target
  <2>4. QED
    BY <2>1, <2>2, <2>3, <1>2 DEF Visibility
<1>5. CASE search.at = "verify"
  <2>1. search.limits \in Visibility /\ search.nudge \in [Sides -> Nat] /\ Point \in Int
    BY <1>1, ParkingAssumption DEF Fibers
  <2>2. Target = [side \in Sides |-> search.limits[side] + Point * search.nudge[side]]
    BY <1>5 DEF Target
  <2>3. \A a, b \in Int : Point * a \in Int /\ b + Point * a \in Int
    BY <2>1
  <2>4. \A side \in Sides : search.limits[side] + Point * search.nudge[side] \in Int
    BY <2>1, <2>3 DEF Visibility
  <2>5. QED
    BY <2>2, <2>4, <1>2 DEF Visibility
<1>6. CASE search.at = "restore"
  <2>1. Target = <<Home, Center, Home>>[search.attempt] /\ search.attempt \in 1 .. 3
    BY <1>1, <1>6 DEF Target, Fibers
  <2>2. QED
    BY <2>1, <1>2, ParkingAssumption
<1>7. QED
  BY <1>1, <1>3, <1>4, <1>5, <1>6 DEF Fibers

LEMMA RefineType ==
    ASSUME SearchRecord(search), search.at = "endpoint", NEW place \in Visibility
    PROVE  SearchRecord(Refine(place))
<1>1. search \in Fibers /\ search.seed \in DOMAIN InOrder
  BY DEF SearchRecord
<1> DEFINE none == {side \in Sides : ~(place[side] <= Point /\ -place[side] <= Point)}
           own == [side \in Sides |-> IF Rounded(Home)[side] < 0 THEN 0 ELSE Rounded(Home)[side]]
           bases == <<Rounded(place), own, Typical>>
           s == [search EXCEPT !.refused = none, !.basis = 1, !.bases = bases]
<1>2. Rounded(place) \in Visibility /\ Rounded(Home) \in Visibility /\ Typical \in Visibility
  BY RoundedType, TargetType, ParkingAssumption
<1>3. own \in Visibility
  BY <1>2 DEF Visibility
<1>4. bases \in Seq(Visibility) /\ 1 \in DOMAIN bases
  BY <1>2, <1>3
<1>5. none \in SUBSET Sides
  OBVIOUS
<1>6. [search EXCEPT !.at = "joint"] \in Fibers /\ SearchRecord([search EXCEPT !.at = "joint"])
  BY <1>1 DEF Fibers, SearchRecord
<1>7. Refine(place) = IF none = {} THEN [search EXCEPT !.at = "joint"] ELSE WithBasis(s)
  BY DEF Refine
<1> HIDE DEF none, bases
<1>8. s \in Fibers /\ s.basis \in DOMAIN s.bases /\ s.seed \in DOMAIN InOrder
  BY <1>1, <1>4, <1>5 DEF Fibers
<1> HIDE DEF s
<1>9. QED
  BY <1>6, <1>7, <1>8, WithBasisType

-----------------------------------------------------------------------------
(* Steps.                                                                  *)

\* Turning to another write.
LEMMA TurnsKeeps ==
    ASSUME ParkingInv, NEW s, SearchRecord(s), Turns(s), UNCHANGED <<system, dead>>, found = {},
           standing' \in [Tried -> Visibility], late' \in BOOLEAN
    PROVE  ParkingInv'
<1>1. search' = [s EXCEPT !.read = FALSE] /\ found' = {} /\ s \in Fibers
  BY DEF Turns, SearchRecord
<1>2. search' \in Fibers /\ ~search'.read /\ search'.at = s.at /\ search'.seed = s.seed
      /\ search'.basis = s.basis /\ search'.bases = s.bases
  BY <1>1 DEF Fibers
<1>3. SearchRecord(search')
  BY <1>2 DEF SearchRecord
<1>4. Tried' = Tried
  BY DEF Tried
<1>5. QED
  BY <1>1, <1>2, <1>3, <1>4 DEF ParkingInv, ReadTruly, GoesBack, FoundIsGranted, SeedIsBack

LEMMA StandingType ==
    ASSUME ParkingInv, search.at # "done", Puts \/ PutFails
    PROVE  standing' \in [Tried -> Visibility] /\ late' \in BOOLEAN
<1>1. Target \in Visibility /\ Seed \in Tried
  BY TargetType DEF ParkingInv
<1>2. Actual(Target) \in Visibility
  BY <1>1, ActualFacts DEF ParkingInv
<1>3. [standing EXCEPT ![Seed] = Actual(Target)] \in [Tried -> Visibility]
  BY <1>1, <1>2 DEF ParkingInv
<1>4. standing' \in {standing, [standing EXCEPT ![Seed] = Actual(Target)]}
  BY DEF Puts, PutFails
<1>5. late' \in BOOLEAN
  BY DEF Puts, PutFails, Happens, ParkingInv
<1>6. QED
  BY <1>3, <1>4, <1>5 DEF ParkingInv

\* A write that will be read back.
LEMMA PutAwaited ==
    ASSUME ParkingInv, search.at # "done", Puts, Awaits, UNCHANGED <<system, dead>>
    PROVE  /\ SearchRecord(search') /\ search'.at = search.at /\ search'.attempt = search.attempt
           /\ Target' = Target /\ Seed' = Seed /\ standing'[Seed'] = (Actual(Target))'
           /\ Seed \notin dead
<1>1. search' = [search EXCEPT !.read = TRUE] /\ search \in Fibers
  BY DEF Awaits, ParkingInv, SearchRecord
<1>2. search' \in Fibers /\ \A f \in {"at", "seed", "basis", "bases", "axis", "limits", "nudge", "attempt"} :
                               search'[f] = search[f]
  BY <1>1 DEF Fibers
<1>3. SearchRecord(search')
  BY <1>2 DEF SearchRecord, ParkingInv
<1>4. Seed' = Seed /\ Home' = Home /\ Target' = Target
  BY <1>2 DEF Seed, Home, Target, Middle
<1>5. (Actual(Target))' = Actual(Target)
  BY <1>4 DEF Actual
<1>6. Seed \in Tried
  BY TargetType DEF ParkingInv
<1>7. standing'[Seed] = Actual(Target)
  BY <1>6 DEF Puts, ParkingInv
<1>8. QED
  BY <1>2, <1>3, <1>4, <1>5, <1>7 DEF Puts

\* Before anything is found, every step but a verified one is a write, or turns to another.
LEMMA NothingFound ==
    ASSUME ParkingInv, search.at \notin {"restore", "done"} PROVE found = {}
BY DEF ParkingInv, GoesBack

LEMMA EndpointKeeps == ASSUME ParkingInv, Endpoint PROVE ParkingInv'
<1>1. search.at = "endpoint" /\ found = {} /\ SearchRecord(search) /\ UNCHANGED <<system, dead>>
  BY NothingFound DEF Endpoint, At, ParkingInv
<1>2. Actual(Target) \in Visibility
  BY <1>1, TargetType, ActualFacts DEF ParkingInv
<1>3. SearchRecord(NextSeed) /\ SearchRecord(Refine(Actual(Target)))
  BY <1>1, <1>2, NextSeedType, RefineType
<1>4. /\ Puts \/ PutFails
      /\ Turns(NextSeed) \/ Turns(Refine(Actual(Target)))
  BY DEF Endpoint
<1>5. standing' \in [Tried -> Visibility] /\ late' \in BOOLEAN
  BY <1>1, <1>4, StandingType
<1>6. QED
  BY <1>1, <1>3, <1>4, <1>5, TurnsKeeps

LEMMA ProbeKeeps == ASSUME ParkingInv, Probe PROVE ParkingInv'
<1>1. search.at = "probe" /\ found = {} /\ SearchRecord(search) /\ UNCHANGED <<system, dead>>
  BY NothingFound DEF Probe, At, ParkingInv
<1>2. Accepted(Actual(Target)) \in BOOLEAN /\ FALSE \in BOOLEAN
  BY DEF Accepted, Near
<1>3. SearchRecord(Narrowed(FALSE)) /\ SearchRecord(Narrowed(Accepted(Actual(Target))))
  BY <1>1, <1>2, NarrowedType
<1>4. /\ Puts \/ PutFails
      /\ Turns(Narrowed(FALSE)) \/ Turns(Narrowed(Accepted(Actual(Target))))
  BY DEF Probe
<1>5. standing' \in [Tried -> Visibility] /\ late' \in BOOLEAN
  BY <1>1, <1>4, StandingType
<1>6. QED
  BY <1>1, <1>3, <1>4, <1>5, TurnsKeeps

LEMMA FailsType ==
    ASSUME NEW stage \in {"joint", "verify"}, SearchRecord(search), search.at = stage
    PROVE  SearchRecord(Fails(stage))
BY NextSeedType, NextNudgeType DEF Fails

LEMMA VerifyJointKeeps ==
    ASSUME ParkingInv, NEW stage \in {"joint", "verify"}, VerifyJoint(stage) PROVE ParkingInv'
<1>1. search.at = stage /\ found = {} /\ SearchRecord(search) /\ UNCHANGED <<system, dead>>
  BY NothingFound DEF VerifyJoint, At, ParkingInv
<1>2. ASSUME Puts, Awaits PROVE ParkingInv'
  <2>1. standing' \in [Tried -> Visibility] /\ late' \in BOOLEAN
    BY <1>1, <1>2, StandingType
  <2>2. SearchRecord(search') /\ search'.at = stage /\ standing'[Seed'] = (Actual(Target))'
    BY <1>1, <1>2, PutAwaited
  <2>3. found' = {} /\ Tried' = Tried
    BY <1>1, <1>2 DEF Awaits, Tried
  <2>4. QED
    BY <1>1, <2>1, <2>2, <2>3 DEF ParkingInv, ReadTruly, GoesBack, FoundIsGranted, SeedIsBack
<1>3. ASSUME PutFails, Turns(Fails(stage)) PROVE ParkingInv'
  BY <1>1, <1>3, FailsType, StandingType, TurnsKeeps
<1>4. QED
  BY <1>2, <1>3 DEF VerifyJoint

LEMMA Product == ASSUME NEW n \in Nat, NEW d \in Int, (n + 1) * d <= n PROVE d <= 0
<1>1. SUFFICES ASSUME d >= 1 PROVE FALSE
  OBVIOUS
<1>2. d - 1 \in Nat /\ (n + 1) * d = (n + 1) + (n + 1) * (d - 1)
  BY <1>1
<1>3. (n + 1) * (d - 1) >= 0
  BY <1>2
<1>4. QED
  BY <1>2, <1>3

LEMMA LackingIsNat ==
    ASSUME system \in Systems, NEW side \in Sides PROVE Lacking(side) \in Nat
<1>1. system.limit \in [Sides -> Nat] /\ system.drift \in Int /\ Point \in Nat
  BY SystemFacts, ParkingAssumption
<1>2. system.drift < 0 => Point - system.drift \in Nat
  BY <1>1
<1>3. QED
  BY <1>1, <1>2 DEF Lacking

\* What was verified is granted.
LEMMA VerifiedIsGranted ==
    ASSUME ParkingInv, NEW stage \in {"joint", "verify"}, search.at = stage, search.read,
           Verified(standing[Seed]), NEW side \in Sides
    PROVE  system.limit[side] <= Target[side] + (IF Target = Hidden THEN Lacking(side) ELSE 0)
<1>1. Target \in Visibility /\ Seed \in Tried /\ standing[Seed] \in Visibility /\ Point \in Nat \ {0}
  BY TargetType, ParkingAssumption DEF ParkingInv
<1>2. standing[Seed] \in {Actual(Target)} \cup Elsewhere
  BY DEF ParkingInv, ReadTruly
<1>3. /\ system.limit \in [Sides -> Nat] /\ system.drift \in Int
      /\ standing[Seed] \in Elsewhere => Granted(system, standing[Seed])
  BY SystemFacts DEF ParkingInv
<1> DEFINE place == standing[Seed]
<1>4. place = Actual(Target) =>
        /\ place["horizontal"] = IF Target["horizontal"] < system.limit["horizontal"]
                                 THEN system.limit["horizontal"] ELSE Target["horizontal"]
        /\ place["vertical"] =
              (IF Target["vertical"] < system.limit["vertical"] THEN system.limit["vertical"]
               ELSE Target["vertical"])
              + (IF Target["horizontal"] < system.limit["horizontal"] THEN system.drift ELSE 0)
  BY <1>1, <1>3, SidesFacts DEF Actual, Visibility
<1> HIDE DEF place
<1>5. place \in Visibility /\ (place \in Elsewhere => \A s \in Sides : place[s] >= system.limit[s])
  BY <1>1, <1>3 DEF place, Granted
<1>6. CASE stage = "verify"
  <2>1. \A s \in Sides : (Point + 1) * (place[s] - Target[s]) <= Point
                          /\ (Point + 1) * (Target[s] - place[s]) <= Point
    BY <1>6 DEF Verified, Near, place
  <2>2. \A s \in Sides : place[s] \in Int /\ Target[s] \in Int
    BY <1>1, <1>5 DEF Visibility
  <2>3. \A s \in Sides : place[s] = Target[s]
    <3>1. TAKE s \in Sides
    <3>2. place[s] - Target[s] <= 0 /\ Target[s] - place[s] <= 0
      BY <1>1, <2>1, <2>2, Product
    <3>3. QED
      BY <2>2, <3>2
  <2>4. system.limit[side] <= Target[side]
    <3>1. CASE place \in Elsewhere
      BY <1>5, <2>3, <3>1
    <3>2. CASE place = Actual(Target)
      BY <1>3, <1>4, <2>2, <2>3, <3>2, SidesFacts
    <3>3. QED
      BY <1>2, <3>1, <3>2 DEF place
  <2>5. QED
    BY <1>1, <1>3, <2>2, <2>4, LackingIsNat DEF ParkingInv
<1>7. CASE stage = "joint"
  <2>1. Target = Hidden /\ \A s \in Sides : Target[s] = 0
    BY <1>7 DEF Target, Hidden, Shows
  <2>2. \A s \in Sides : 1 * (place[s] - Target[s]) <= Point
    BY <1>7 DEF Verified, Near, place
  <2>3. \A s \in Sides : place[s] \in Int /\ place[s] <= Point
    BY <1>1, <1>5, <2>1, <2>2 DEF Visibility
  <2>4. \A s \in Sides : system.limit[s] \in Nat
    BY <1>3
  <2>5. CASE place \in Elsewhere
    <3>1. system.limit[side] <= Point
      BY <1>1, <1>5, <2>3, <2>4, <2>5
    <3>2. Point <= Lacking(side)
      BY <1>1, <1>3 DEF Lacking
    <3>3. Lacking(side) \in Int
      BY LackingIsNat DEF ParkingInv
    <3>4. QED
      BY <1>1, <2>1, <2>4, <3>1, <3>2, <3>3
  <2>6. CASE place = Actual(Target)
    <3>1. /\ place["horizontal"] = IF 0 < system.limit["horizontal"]
                                   THEN system.limit["horizontal"] ELSE 0
          /\ place["vertical"] =
                (IF 0 < system.limit["vertical"] THEN system.limit["vertical"] ELSE 0)
                + (IF 0 < system.limit["horizontal"] THEN system.drift ELSE 0)
      BY <1>4, <2>1, <2>6, SidesFacts
    <3>2. system.limit["horizontal"] <= Lacking("horizontal")
      BY <1>1, <2>3, <2>4, <3>1, SidesFacts DEF Lacking
    <3>3. system.limit["vertical"] <= Lacking("vertical")
      BY <1>1, <1>3, <2>3, <2>4, <3>1, SidesFacts DEF Lacking
    <3>4. Lacking(side) \in Int
      BY LackingIsNat DEF ParkingInv
    <3>5. QED
      BY <2>1, <2>4, <3>2, <3>3, <3>4, SidesFacts
  <2>7. QED
    BY <1>2, <2>5, <2>6 DEF place
<1>8. QED
  BY <1>6, <1>7

LEMMA ReadBackKeeps ==
    ASSUME ParkingInv, NEW stage \in {"joint", "verify"}, ReadBack(stage) PROVE ParkingInv'
<1>1. /\ search.at = stage /\ search.read /\ found = {} /\ SearchRecord(search)
      /\ UNCHANGED <<system, dead>>
  BY NothingFound DEF ReadBack, At, ParkingInv
<1>2. ASSUME Reads, Verified(standing[Seed]), Restoring(Target) PROVE ParkingInv'
  <2>1. search' = [search EXCEPT !.at = "restore", !.attempt = 1, !.read = FALSE]
        /\ search \in Fibers /\ search.seed \in DOMAIN InOrder
    BY <1>1, <1>2 DEF Restoring, SearchRecord
  <2>2. search' \in Fibers /\ search'.at = "restore" /\ search'.seed = search.seed
        /\ ~search'.read /\ search'.attempt = 1
    <3> DEFINE r == [search EXCEPT !.at = "restore", !.read = FALSE]
    <3>1. r \in Fibers /\ r.at = "restore" /\ r.seed = search.seed /\ ~r.read
      BY <2>1 DEF Fibers
    <3>2. search' = [r EXCEPT !.attempt = 1]
      BY <2>1 DEF Fibers
    <3> HIDE DEF r
    <3>3. QED
      BY <3>1, <3>2 DEF Fibers
  <2>3. SearchRecord(search')
    BY <2>1, <2>2 DEF SearchRecord
  <2>4. Seed' = Seed /\ Seed \notin dead /\ found' = {Target} /\ UNCHANGED <<standing, late>> /\ Tried' = Tried
    BY <1>2, <2>2 DEF Seed, Reads, Restoring, Tried
  <2>5. GoesBack'
    BY <1>1, <2>2, <2>4 DEF GoesBack
  <2>6. FoundIsGranted'
    BY <1>1, <1>2, <2>4, VerifiedIsGranted DEF FoundIsGranted, Lacking
  <2>7. ReadTruly' /\ SeedIsBack'
    BY <2>2 DEF ReadTruly, SeedIsBack
  <2>8. QED
    BY <1>1, <2>3, <2>4, <2>5, <2>6, <2>7 DEF ParkingInv
<1>3. ASSUME Reads \/ NoRead, Turns(Fails(stage)) PROVE ParkingInv'
  <2>1. standing' \in [Tried -> Visibility] /\ late' \in BOOLEAN
    BY <1>3 DEF Reads, NoRead, Happens, ParkingInv
  <2>2. QED
    BY <1>1, <1>3, <2>1, FailsType, TurnsKeeps
<1>4. QED
  BY <1>2, <1>3 DEF ReadBack

LEMMA NextAttemptFacts ==
    ASSUME search \in Fibers, search.seed \in DOMAIN InOrder, search.at = "restore"
    PROVE  /\ SearchRecord(NextAttempt) /\ SearchRecord(Over)
           /\ NextAttempt.seed = search.seed /\ Over.seed = search.seed
           /\ NextAttempt.at \in {"restore", "done"} /\ Over.at = "done"
           /\ search.attempt = 1 => NextAttempt.at = "restore" /\ NextAttempt.attempt = 2
<1>1. Over \in Fibers /\ Over.at = "done" /\ Over.seed = search.seed
  BY DEF Over, Fibers
<1>2. SearchRecord(Over)
  BY <1>1 DEF SearchRecord
<1> DEFINE n == search.attempt + 1
           more == [search EXCEPT !.attempt = n]
<1>3. search.attempt # 3 => n \in 1 .. 3
  BY DEF Fibers
<1>4. search.attempt = 1 => n = 2
  OBVIOUS
<1> HIDE DEF n
<1>5. ASSUME search.attempt # 3
      PROVE  more \in Fibers /\ more.at = "restore" /\ more.seed = search.seed /\ more.attempt = n
  BY <1>3, <1>5 DEF Fibers
<1>6. NextAttempt = IF search.attempt = 3 THEN Over ELSE more
  BY DEF NextAttempt, n
<1> HIDE DEF more
<1>7. search.attempt # 3 => SearchRecord(more)
  BY <1>5 DEF SearchRecord
<1>8. QED
  BY <1>1, <1>2, <1>4, <1>5, <1>6, <1>7

LEMMA RestoreKeeps == ASSUME ParkingInv, Restore PROVE ParkingInv'
<1>1. /\ search.at = "restore" /\ search \in Fibers /\ search.seed \in DOMAIN InOrder
      /\ UNCHANGED <<system, dead, found>> /\ Tried' = Tried
  BY DEF Restore, At, ParkingInv, SearchRecord, Awaits, Turns, Tried
<1>2. standing' \in [Tried -> Visibility] /\ late' \in BOOLEAN
  BY <1>1, StandingType DEF Restore
<1>3. ASSUME Puts, Awaits PROVE ParkingInv'
  <2>1. /\ SearchRecord(search') /\ search'.at = "restore" /\ search'.attempt = search.attempt
        /\ Seed' = Seed /\ standing'[Seed'] = (Actual(Target))' /\ Seed \notin dead
    BY <1>1, <1>3, PutAwaited
  <2>2. late' = late
    BY <1>3 DEF Puts
  <2>3. QED
    BY <1>1, <1>2, <2>1, <2>2 DEF ParkingInv, ReadTruly, GoesBack, FoundIsGranted, Lacking, SeedIsBack
<1>4. ASSUME PutFails, Turns(NextAttempt) PROVE ParkingInv'
  <2>1. SearchRecord(NextAttempt) /\ NextAttempt \in Fibers /\ NextAttempt.at \in {"restore", "done"}
    BY <1>1, NextAttemptFacts DEF SearchRecord
  <2>2. search' = [NextAttempt EXCEPT !.read = FALSE]
    BY <1>4 DEF Turns
  <2>3. SearchRecord(search') /\ search'.at \in {"restore", "done"} /\ ~search'.read
    BY <2>1, <2>2 DEF SearchRecord, Fibers
  <2>4. found # {} => late'
    <3>1. late \/ Seed \notin dead \/ found = {}
      BY <1>1 DEF ParkingInv, GoesBack
    <3>2. CASE Happens
      BY <3>2 DEF Happens
    <3>3. CASE Seed \in dead /\ late' = late
      BY <3>1, <3>3
    <3>4. QED
      BY <1>4, <3>2, <3>3 DEF PutFails
  <2>5. QED
    BY <1>1, <1>2, <2>3, <2>4 DEF ParkingInv, ReadTruly, GoesBack, FoundIsGranted, Lacking,
      SeedIsBack
<1>5. QED
  BY <1>3, <1>4 DEF Restore

LEMMA NearItself == ASSUME NEW place \in Visibility PROVE Near(place, place, 4)
BY ParkingAssumption DEF Near, Visibility

LEMMA ReadRestoredKeeps == ASSUME ParkingInv, ReadRestored PROVE ParkingInv'
<1>1. /\ search.at = "restore" /\ search.read /\ search \in Fibers /\ search.seed \in DOMAIN InOrder
      /\ UNCHANGED <<system, dead, found, standing>> /\ Tried' = Tried /\ late' \in BOOLEAN
  BY DEF ReadRestored, At, ParkingInv, SearchRecord, Turns, Reads, NoRead, Happens, Tried
<1> DEFINE near == Near(standing[Seed], Target, 4)
<1>2. PICK s \in {Over, NextAttempt} :
        /\ search' = [s EXCEPT !.read = FALSE]
        /\ NoRead \/ (Reads /\ s = IF near THEN Over ELSE NextAttempt)
  BY DEF ReadRestored, Turns
<1>3. SearchRecord(s) /\ s \in Fibers /\ s.at \in {"restore", "done"} /\ s.seed = search.seed
  BY <1>1, NextAttemptFacts DEF SearchRecord
<1>4. SearchRecord(search') /\ search'.at = s.at /\ search'.attempt = s.attempt /\ ~search'.read
      /\ search'.seed = search.seed
  BY <1>2, <1>3 DEF SearchRecord, Fibers
<1>5. Seed' = Seed /\ Home' = Home
  BY <1>4 DEF Seed, Home
<1>6. GoesBack' /\ SeedIsBack'
  <2>1. SUFFICES ASSUME found # {}, ~late'
                 PROVE  /\ search'.at = "restore" => search'.attempt \in {1, 2}
                        /\ search'.at = "done" =>
                             \E place \in {Home, Center} : Near(standing[Seed], place, 4)
                        /\ Seed \notin dead
    BY <1>1, <1>3, <1>4, <1>5 DEF GoesBack, SeedIsBack
  <2>2. ~late /\ ~NoRead /\ Seed \notin dead /\ search.attempt \in {1, 2}
        /\ standing[Seed] = Actual(Target)
    BY <1>1, <2>1 DEF ParkingInv, GoesBack, NoRead, Happens, Reads, ReadRestored
  <2>3. s = IF near THEN Over ELSE NextAttempt
    BY <1>2, <2>2
  <2>4. Target = IF search.attempt = 1 THEN Home ELSE Center
    BY <1>1, <2>2 DEF Target
  <2>5. search.attempt = 2 => near
    <3>1. Center \in Visibility /\ Actual(Center) = Center
      BY SystemFacts, ActualFacts DEF ParkingInv
    <3>2. QED
      BY <2>2, <2>4, <3>1, NearItself
  <2>6. CASE near
    <3>1. search'.at = "done"
      BY <1>1, <1>4, <2>3, <2>6, NextAttemptFacts
    <3>2. QED
      BY <2>2, <2>4, <2>6, <3>1
  <2>7. CASE ~near
    <3>1. search'.at = "restore" /\ search'.attempt = 2
      BY <1>1, <1>4, <2>2, <2>3, <2>5, <2>7, NextAttemptFacts
    <3>2. QED
      BY <2>2, <3>1
  <2>8. QED
    BY <2>6, <2>7
<1>7. ReadTruly' /\ FoundIsGranted'
  BY <1>1, <1>4 DEF ReadTruly, FoundIsGranted, Lacking, ParkingInv
<1>8. QED
  BY <1>1, <1>4, <1>6, <1>7 DEF ParkingInv

LEMMA DragKeeps == ASSUME ParkingInv, Drag PROVE ParkingInv'
<1>1. /\ search.at # "done" /\ UNCHANGED <<system, dead, search, found>>
      /\ late' = (late \/ found # {}) /\ Tried' = Tried /\ Seed' = Seed
  BY DEF Drag, Happens, Tried, Seed
<1>2. PICK place \in Elsewhere : standing' = [standing EXCEPT ![Seed] = place]
  BY DEF Drag
<1>3. Seed \in Tried /\ place \in Visibility
  BY <1>1, TargetType, SystemFacts DEF ParkingInv
<1>4. standing' \in [Tried -> Visibility] /\ standing'[Seed] = place
  BY <1>2, <1>3 DEF ParkingInv
<1>5. SearchRecord(search') /\ late' \in BOOLEAN
  BY <1>1 DEF ParkingInv
<1>6. QED
  BY <1>1, <1>4, <1>5 DEF ParkingInv, ReadTruly, GoesBack, FoundIsGranted, Lacking,
      SeedIsBack

LEMMA ParkingInitInv == ParkingInit => ParkingInv
<1> SUFFICES ASSUME ParkingInit PROVE ParkingInv
  OBVIOUS
<1>1. InOrder \in Seq(Candidate)
  BY ParkingAssumption
<1>2. standing \in [Tried -> Visibility]
  <2>1. ASSUME NEW w \in Tried
        PROVE  InOrder[CHOOSE i \in DOMAIN InOrder : InOrder[i].window = w].place \in Visibility
    <3> DEFINE k == CHOOSE i \in DOMAIN InOrder : InOrder[i].window = w
    <3>1. k \in DOMAIN InOrder
      BY <2>1 DEF Tried
    <3> HIDE DEF k
    <3>2. InOrder[k] \in Candidate
      BY <1>1, <3>1
    <3>3. InOrder[k].place \in Visibility
      BY <3>2 DEF Candidate
    <3>4. QED
      BY <3>3 DEF k
  <2>2. QED
    BY <2>1 DEF ParkingInit, Tried
<1>3. SearchRecord(search)
  <2>1. search = Beginning /\ Hidden \in Visibility /\ Hidden \in [Sides -> Nat]
    BY DEF ParkingInit, Hidden, Shows, Visibility
  <2>2. Beginning \in Fibers
    BY <2>1 DEF Beginning, Fibers, Axis, Sides
  <2>3. InOrder # <<>> => 1 \in DOMAIN InOrder
    BY <1>1
  <2>4. QED
    BY <2>1, <2>2, <2>3 DEF SearchRecord, Beginning
<1>4. QED
  BY <1>2, <1>3 DEF ParkingInit, ParkingInv, ReadTruly, GoesBack, FoundIsGranted, SeedIsBack, Beginning

LEMMA ParkingNextInv == ParkingInv /\ [ParkingNext]_parkingVars => ParkingInv'
<1> SUFFICES ASSUME ParkingInv, [ParkingNext]_parkingVars PROVE ParkingInv'
  OBVIOUS
<1>1. CASE UNCHANGED parkingVars
  <2>1. UNCHANGED <<system, dead, standing, search, found, late>>
    BY <1>1 DEF parkingVars
  <2>2. Tried' = Tried /\ Seed' = Seed /\ Home' = Home /\ Target' = Target
    BY <2>1 DEF Tried, Seed, Home, Target, Middle
  <2>3. (Actual(Target))' = Actual(Target)
    BY <2>1, <2>2 DEF Actual
  <2>4. QED
    BY <2>1, <2>2, <2>3 DEF ParkingInv, ReadTruly, GoesBack, FoundIsGranted, Lacking,
      SeedIsBack
<1>2. CASE ParkingNext
  BY <1>2, EndpointKeeps, ProbeKeeps, VerifyJointKeeps, ReadBackKeeps, RestoreKeeps,
     ReadRestoredKeeps, DragKeeps DEF ParkingNext, Searches
<1>3. QED
  BY <1>1, <1>2

\* The limits that the search for the parking limits returns are granted by the window
\* system, up to what limits that show nothing may lack, and the window they were found
\* with is put back (discoverParkingLimits, verifyJoint, restoreSeed): for every system,
\* with any drift, any candidates and any number of mishaps.
THEOREM SearchesAreSound == ParkingSpec => []SearchIsSound
<1>1. ParkingInv => SearchIsSound
  BY DEF ParkingInv, SearchIsSound
<1>2. QED
  BY ParkingInitInv, ParkingNextInv, <1>1, PTL DEF ParkingSpec

=============================================================================
