---------------------------- MODULE SessionProofs ----------------------------
(***************************************************************************)
(* Proofs about Session, for any windows, workspaces and bounds: startup   *)
(* admits a group whole or puts it back, what went wrong for good shows in *)
(* health, and stop() leaves no noted window in its corner in silence.     *)
(*                                                                         *)
(* The three arguments share the types and the shape of the fiber's        *)
(* record.  Admission: a window that nobody else moved is where it was     *)
(* adopted until its own write, and a rollback that has passed it knows    *)
(* whether it is back.  Shutdown: whoever stands in a corner is noted or   *)
(* forsaken, until restoration takes over the notes; before the first      *)
(* cycle nobody stands in a corner at all, which is why the writes of an   *)
(* admission and of its rollback need no note.                             *)
(***************************************************************************)
EXTENDS Session, TLAPS

\* What the engine does under the gate, by kind of step.
Resting == [at : {"config", "read", "idle"}]
Choosing == [at : {"choose"}, left : SUBSET Spaces]
Admitting == [at : {"write", "verify"}, space : Spaces, left : SUBSET Spaces,
              todo : SUBSET Managed, tried : SUBSET Managed]
Undoing == [at : {"undo", "check"}, space : Spaces, left : SUBSET Spaces,
            todo : SUBSET Managed, wrong : BOOLEAN]
Deciding == [at : {"decided"}, space : Spaces, left : SUBSET Spaces, whole : BOOLEAN]
Reading == [at : {"pass"}, startup : BOOLEAN]
Dues == [Managed -> {"none", "admit", "park", "tile", "recover"}]
Made == [who : Managed, was : Places]
Acting == [at : {"act", "compensate"}, startup : BOOLEAN, due : Dues, calm : BOOLEAN,
           made : Seq(Made)]
Restoring == [at : {"restore"}, left : SUBSET Managed]

FiberOK ==
    fiber \in Resting \cup Choosing \cup Admitting \cup Undoing \cup Deciding \cup Reading
                 \cup Acting \cup Restoring

\* Until the first cycle no window stands in a corner, and none is on its way to one.
Early == fiber.at \in {"config", "read", "choose", "write", "verify", "undo", "check", "decided"}
Clear == \A x \in Managed : /\ desk[x].at # Corner /\ observed[x].at # Corner
                            /\ late[x] # None => late[x] # Corner
Uncornered ==
    /\ Early => Clear
    /\ fiber.at \in {"config", "read"} => floating = {}

\* A window is where it was adopted as long as its group has not been begun,
Awaiting ==
    fiber.at \in {"choose", "write", "verify", "undo", "check", "decided"} =>
        \A x \in Managed \ touched : HomeOf[x] \in fiber.left => desk[x] = observed[x]

\* or its own write has not been tried, and in its tile once it has been verified;
Tried ==
    fiber.at \in {"write", "verify"} =>
        /\ fiber.space \notin fiber.left
        /\ fiber.todo \subseteq Group(fiber.space) /\ fiber.tried \subseteq Group(fiber.space)
        /\ \A x \in Group(fiber.space) \ (touched \cup fiber.tried) : desk[x] = observed[x]
        /\ fiber.at = "verify" =>
              \A x \in Group(fiber.space) \ (touched \cup fiber.todo) : desk[x].at = "tile"

\* and of those the rollback has passed, each is back or something is known to be wrong.
PutBack ==
    fiber.at \in {"undo", "check"} =>
        /\ fiber.space \notin fiber.left /\ fiber.todo \subseteq Group(fiber.space)
        /\ \A x \in Group(fiber.space) \ (touched \cup fiber.todo) : desk[x] = observed[x] \/ fiber.wrong

Orderly == Awaiting /\ Tried /\ PutBack /\ AdmissionIsWhole

\* Whoever stands in a corner is noted or forsaken,
Noticed ==
    fiber.at # "restore" =>
        \A x \in Existing : desk[x].at = Corner => x \in parked \cup forsaken

\* and while the notes are acted upon, still to be shown, reported or forsaken.
Restored ==
    /\ fiber.at = "restore" =>
          /\ stopping # "no"
          /\ \A x \in Existing : desk[x].at = Corner =>
                x \in forsaken \cup fiber.left \/ report[x] = "failed"
    /\ stopping = "stopped" => fiber.at = "restore" /\ fiber.left = {}

IInv == TypeOK /\ FiberOK /\ Uncornered /\ Orderly /\ DegradedLasts /\ Noticed /\ Restored

-----------------------------------------------------------------------------
(* Writes, and the shape of the fiber's record.                            *)

\* What a write to one window does to the desktop, whatever comes of it.
OnlyMoved(x, to) ==
    /\ desk' \in [Managed -> [who : 0..2, at : Places]] /\ late' \in [Managed -> Places \cup {None}]
    /\ \A y \in Managed : desk'[y].who = desk[y].who
    /\ \A y \in Managed \ {x} : desk'[y] = desk[y] /\ late'[y] = late[y]
    /\ desk'[x].at \in {desk[x].at, to, "aside"} /\ late'[x] \in {late[x], to}

LEMMA PlacesExist == \A at \in Places : Clamped(at) \in Places
BY DEF Places, Clamped, Corner

LEMMA WriteOutcome ==
    ASSUME NEW x, NEW who, NEW to, NEW o \in Writes(x, who, to)
    PROVE  /\ o.at \in {desk[x].at, to, "aside"} /\ o.after \in {late[x], to} /\ o.odd \in BOOLEAN
           /\ o.answer \in {"done", "error", "progressing"}
           /\ o.answer # "error" => o.at \in {to, "aside"}
<1>1. \E at, answer, after, odd :
          /\ o = [at |-> at, answer |-> answer, after |-> after, odd |-> odd]
          /\ at \in {desk[x].at, to, "aside"} /\ after \in {late[x], to} /\ odd \in BOOLEAN
          /\ answer \in {"done", "error", "progressing"}
          /\ answer # "error" => at \in {to, "aside"}
  BY Zenon DEF Writes
<1> QED BY <1>1

LEMMA WriteMoves ==
    ASSUME TypeOK, NEW x \in Managed, NEW who, NEW to \in Places,
           NEW o \in Writes(x, who, to), Written(x, o)
    PROVE  OnlyMoved(x, to) /\ desk'[x].at = o.at /\ trouble' \in Nat
<1>1. o.at \in Places /\ o.after \in Places \cup {None}
  BY WriteOutcome DEF TypeOK, Places
<1>2. desk' \in [Managed -> [who : 0..2, at : Places]]
  BY <1>1 DEF TypeOK, Written
<1>3. late' \in [Managed -> Places \cup {None}]
  BY <1>1 DEF TypeOK, Written
<1>4. desk'[x].at = o.at /\ desk'[x].who = desk[x].who /\ late'[x] = o.after
  BY DEF TypeOK, Written
<1>5. \A y \in Managed \ {x} : desk'[y] = desk[y] /\ late'[y] = late[y]
  BY DEF TypeOK, Written
<1>6. trouble' \in Nat
  BY DEF TypeOK, Written
<1> QED BY <1>2, <1>3, <1>4, <1>5, <1>6, WriteOutcome DEF OnlyMoved

\* A write that is carried out now, or later.
LEMMA CarriedOut ==
    ASSUME TypeOK, NEW x \in Managed, NEW to \in Places,
           \/ desk' = [desk EXCEPT ![x].at = to] /\ UNCHANGED late
           \/ late' = [late EXCEPT ![x] = to] /\ UNCHANGED desk
    PROVE  OnlyMoved(x, to)
<1>1. CASE desk' = [desk EXCEPT ![x].at = to] /\ UNCHANGED late
  <2>1. desk' \in [Managed -> [who : 0..2, at : Places]]
    BY <1>1 DEF TypeOK
  <2>2. desk'[x].at = to /\ desk'[x].who = desk[x].who /\ \A y \in Managed \ {x} : desk'[y] = desk[y]
    BY <1>1 DEF TypeOK
  <2> QED BY <1>1, <2>1, <2>2 DEF TypeOK, OnlyMoved
<1>2. CASE late' = [late EXCEPT ![x] = to] /\ UNCHANGED desk
  BY <1>2 DEF TypeOK, OnlyMoved
<1> QED BY <1>1, <1>2

LEMMA FlightMoves ==
    ASSUME TypeOK, NEW W, InFlight(W), \A w \in W : w.who \in Managed /\ w.to \in Places
    PROVE  \/ UNCHANGED <<desk, late, forsaken>>
           \/ \E w \in W :
                /\ OnlyMoved(w.who, w.to)
                /\ forsaken' = IF w.to = Corner /\ w.who \notin parked
                               THEN forsaken \cup {w.who} ELSE forsaken
<1>1. ASSUME NEW w \in W,
             \/ desk' = [desk EXCEPT ![w.who].at = w.to] /\ UNCHANGED late
             \/ late' = [late EXCEPT ![w.who] = w.to] /\ UNCHANGED desk
      PROVE  OnlyMoved(w.who, w.to)
  BY <1>1, CarriedOut
<1> QED BY Zenon, <1>1 DEF InFlight

LEMMA Shapes ==
    ASSUME FiberOK
    PROVE  /\ fiber.at = "choose" => fiber \in Choosing
           /\ fiber.at \in {"write", "verify"} => fiber \in Admitting
           /\ fiber.at \in {"undo", "check"} => fiber \in Undoing
           /\ fiber.at = "decided" => fiber \in Deciding
           /\ fiber.at = "pass" => fiber \in Reading
           /\ fiber.at \in {"act", "compensate"} => fiber \in Acting
           /\ fiber.at = "restore" => fiber \in Restoring
BY DEF FiberOK, Resting, Choosing, Admitting, Undoing, Deciding, Reading, Acting, Restoring

-----------------------------------------------------------------------------
(* Types.                                                                  *)

LEMMA TargetPlaces == \A what : Target(what) \in Places \/ what \notin {"admit", "tile", "recover", "park"}
BY DEF Target, Places, Corner

LEMMA UndoShape ==
    ASSUME fiber \in Admitting, NEW tried \in SUBSET Managed
    PROVE  Undo(tried, FALSE) \in Undoing
BY DEF Undo, Admitting, Undoing

LEMMA StartupTypes ==
    ASSUME SessionAssumption, TypeOK, FiberOK, Uncornered, Startup
    PROVE  TypeOK' /\ FiberOK'
<1> USE Shapes
<1>1. CASE LoadConfig
  BY <1>1 DEF LoadConfig, TypeOK, FiberOK, Resting, world, memory, watch
<1>2. CASE Adopt
  BY <1>2 DEF Adopt, TypeOK, FiberOK, Choosing, Existing, bounds, watch
<1>3. CASE HydrateInitialLayout
  BY <1>3 DEF HydrateInitialLayout, TypeOK, FiberOK, Resting, Existing, Uncornered, bounds, watch
<1>4. CASE BeginVerify
  <2>1. fiber.at = "write" /\ fiber \in Admitting /\ fiber.space \in Spaces
    BY <1>4 DEF BeginVerify, Admitting
  <2>2. Group(fiber.space) \subseteq Managed
    BY DEF Group, Known
  <2>3. Admission("verify", fiber, Group(fiber.space), fiber.tried) \in Admitting
    BY <2>1, <2>2 DEF Admission, Admitting
  <2>c. Undo(fiber.tried, FALSE) \in Undoing
    BY <2>1, UndoShape DEF Admitting
  <2>a. trouble' = trouble \/ trouble' = trouble + 1
    BY <1>4 DEF BeginVerify
  <2>b. trouble' \in Nat
    BY <2>a DEF TypeOK
  <2>4. fiber' \in Admitting \cup Undoing /\ trouble' \in Nat
    BY <1>4, <2>3, <2>c, <2>b DEF BeginVerify
  <2>5. FiberOK'
    BY <2>4 DEF FiberOK
  <2> QED BY <1>4, <2>4, <2>5 DEF BeginVerify, TypeOK, world, memory, watch
<1>5. CASE CommitGroup
  <2>1. fiber \in Admitting /\ Group(fiber.space) \subseteq Managed
    BY <1>5 DEF CommitGroup, Group, Known
  <2>2. FiberOK'
    BY <1>5, <2>1 DEF CommitGroup, FiberOK, Decided, Admitting, Deciding
  <2> QED BY <1>5, <2>1, <2>2 DEF CommitGroup, TypeOK, memory, bounds, watch
<1>6. CASE EndUndo
  <2>1. fiber \in Undoing
    BY <1>6 DEF EndUndo
  <2>2. FiberOK'
    BY <1>6, <2>1 DEF EndUndo, FiberOK, Decided, Undoing, Deciding
  <2> QED BY <1>6, <2>2 DEF EndUndo, TypeOK, world, memory, bounds, watch
<1>7. CASE NextGroup
  <2>1. fiber \in Deciding /\ Group(fiber.space) \subseteq Managed
    BY <1>7 DEF NextGroup, Group, Known
  <2>2. FiberOK'
    BY <1>7, <2>1 DEF NextGroup, FiberOK, Deciding, Choosing
  <2> QED BY <1>7, <2>1, <2>2 DEF NextGroup, TypeOK, memory, bounds, watch
<1>8. CASE FirstCycle
  BY <1>8 DEF FirstCycle, TypeOK, FiberOK, Reading, world, memory, bounds, watch
<1>9. ASSUME NEW s \in Spaces, SkipGroup(s) \/ InfeasibleGroup(s) \/ BeginGroup(s)
      PROVE  TypeOK' /\ FiberOK'
  <2>1. fiber \in Choosing /\ Group(s) \subseteq Managed
    BY <1>9 DEF SkipGroup, InfeasibleGroup, BeginGroup, Chosen, Group, Known
  <2>2. CASE SkipGroup(s) \/ InfeasibleGroup(s)
    <3>1. fiber' \in Choosing
      BY <2>1, <2>2 DEF SkipGroup, InfeasibleGroup, Choosing
    <3> QED BY <2>1, <2>2, <3>1 DEF SkipGroup, InfeasibleGroup, TypeOK, FiberOK, world, memory, bounds, watch
  <2>3. CASE BeginGroup(s)
    <3>1. fiber' \in Admitting
      BY <2>1, <2>3 DEF BeginGroup, Admission, Choosing, Admitting
    <3> QED BY <2>1, <2>3, <3>1 DEF BeginGroup, TypeOK, FiberOK, world, memory, bounds
  <2> QED BY <1>9, <2>2, <2>3
<1>10. ASSUME NEW x \in Managed, AdmitWrite(x) PROVE TypeOK' /\ FiberOK'
  <2>1. fiber.at = "write" /\ fiber \in Admitting
    BY <1>10 DEF AdmitWrite
  <2>2. PICK o \in Writes(x, observed[x].who, "tile") :
           /\ Written(x, o)
           /\ fiber' = IF o.answer = "done"
                       THEN [fiber EXCEPT !.todo = @ \ {x}, !.tried = @ \cup {x}]
                       ELSE Undo(fiber.tried \cup {x}, FALSE)
    BY <1>10 DEF AdmitWrite
  <2>3. desk' \in [Managed -> [who : 0..2, at : Places]] /\ late' \in [Managed -> Places \cup {None}]
        /\ trouble' \in Nat
    BY <2>2, WriteMoves DEF OnlyMoved, Places
  <2>4. FiberOK'
    BY <2>1, <2>2 DEF FiberOK, Undo, Admitting, Undoing
  <2> QED BY <1>10, <2>3, <2>4 DEF AdmitWrite, TypeOK, world, memory, watch
<1>11. ASSUME NEW x \in Managed, VerifyOne(x) PROVE TypeOK' /\ FiberOK'
  <2>1. fiber.at = "verify" /\ fiber \in Admitting
    BY <1>11 DEF VerifyOne
  <2>2. [fiber EXCEPT !.todo = @ \ {x}] \in Admitting /\ fiber.tried \subseteq Managed
    BY <2>1 DEF Admitting
  <2>c. Undo(fiber.tried, FALSE) \in Undoing
    BY <2>1, <2>2, UndoShape
  <2>a. trouble' = trouble \/ trouble' = trouble + 1
    BY <1>11 DEF VerifyOne
  <2>b. trouble' \in Nat
    BY <2>a DEF TypeOK
  <2>3. fiber' \in Admitting \cup Undoing /\ trouble' \in Nat
    BY <1>11, <2>2, <2>c, <2>b DEF VerifyOne
  <2>4. FiberOK'
    BY <2>3 DEF FiberOK
  <2> QED BY <1>11, <2>3, <2>4 DEF VerifyOne, TypeOK, world, memory, watch
<1>12. ASSUME NEW x \in Managed, UndoWrite(x) PROVE TypeOK' /\ FiberOK'
  <2>1. fiber.at = "undo" /\ fiber \in Undoing
    BY <1>12 DEF UndoWrite
  <2>2. PICK o \in Writes(x, observed[x].who, observed[x].at) :
           /\ Written(x, o)
           /\ fiber' = [fiber EXCEPT !.at = "check", !.wrong = @ \/ o.answer = "error"]
    BY <1>12 DEF UndoWrite
  <2>3. observed[x].at \in Places
    BY DEF TypeOK
  <2>4. desk' \in [Managed -> [who : 0..2, at : Places]] /\ late' \in [Managed -> Places \cup {None}]
        /\ trouble' \in Nat
    BY <2>2, <2>3, WriteMoves DEF OnlyMoved
  <2>5. fiber' \in Undoing
    BY <2>1, <2>2, WriteOutcome DEF Undoing
  <2> QED BY <1>12, <2>4, <2>5 DEF UndoWrite, TypeOK, FiberOK, world, memory, watch
<1>13. ASSUME NEW x \in Managed, UndoCheck(x) PROVE TypeOK' /\ FiberOK'
  <2>1. fiber.at = "check" /\ fiber \in Undoing
    BY <1>13 DEF UndoCheck
  <2>2. PICK fails \in BOOLEAN :
           fiber' = [fiber EXCEPT !.at = "undo", !.todo = @ \ {x},
                        !.wrong = @ \/ fails \/ desk[x] # observed[x]]
    BY <1>13 DEF UndoCheck
  <2>3. fiber' \in Undoing
    BY <2>1, <2>2 DEF Undoing
  <2>4. trouble' \in Nat
    BY <1>13 DEF UndoCheck, TypeOK
  <2> QED BY <1>13, <2>3, <2>4 DEF UndoCheck, TypeOK, FiberOK, world, memory, watch
<1> QED BY <1>1, <1>2, <1>3, <1>4, <1>5, <1>6, <1>7, <1>8, <1>9, <1>10, <1>11, <1>12, <1>13 DEF Startup

\* The last write of a plan is a window's and goes to a place.
LEMMA LastMade ==
    ASSUME NEW made \in Seq(Made), made # <<>>
    PROVE  /\ Last(made).who \in Managed /\ Last(made).was \in Places
           /\ Front(made) \in Seq(Made)
<1>1. Last(made) \in Made
  BY DEF Last
<1>2. SubSeq(made, 1, Len(made) - 1) \in Seq(Made)
  OBVIOUS
<1> QED BY <1>1, <1>2 DEF Made, Front

LEMMA CycleTypes ==
    ASSUME SessionAssumption, TypeOK, FiberOK, Cycle
    PROVE  TypeOK' /\ FiberOK'
<1> USE Shapes
<1>1. CASE BeginCycle
  BY <1>1 DEF BeginCycle, TypeOK, FiberOK, Reading, world, memory, bounds, watch
<1>2. CASE ObservePass
  <2>1. fiber \in Reading
    BY <1>2 DEF ObservePass
  <2>2. \A x \in Managed : Due(x) \in {"none", "admit", "park", "tile", "recover"}
    BY DEF Due
  <2>3. fiber' \in Acting
    <3>1. [x \in Managed |-> Due(x)] \in Dues
      BY <2>2 DEF Dues
    <3>2. <<>> \in Seq(Made)
      OBVIOUS
    <3> QED BY <1>2, <2>1, <3>1, <3>2 DEF ObservePass, Reading, Acting
  <2>4. observed' = desk /\ first' \in [Managed -> Places \cup {None}]
        /\ intent' \in [Managed -> Places \cup {None}]
    BY <1>2 DEF ObservePass, Observed, TypeOK
  <2> QED BY <1>2, <2>3, <2>4 DEF ObservePass, TypeOK, FiberOK, bounds, watch
<1>3. CASE ObserveFails
  BY <1>3 DEF ObserveFails, CycleOver, TypeOK, FiberOK, Resting, memory, watch
<1>4. CASE FailedCycle
  BY <1>4 DEF FailedCycle, CycleOver, TypeOK, FiberOK, Resting, memory, bounds, watch
<1>5. CASE PassEnds
  <2>1. fiber \in Acting
    BY <1>5 DEF PassEnds
  <2>2. fiber' \in Reading \cup Resting
    BY <1>5, <2>1 DEF PassEnds, CycleOver, Acting, Reading, Resting
  <2>3. quarantine' \subseteq Managed /\ health' \in {"healthy", "degraded"}
    BY <1>5 DEF PassEnds, CycleOver, Healed, TypeOK
  <2> QED BY <1>5, <2>2, <2>3 DEF PassEnds, TypeOK, FiberOK, memory, bounds, watch
<1>6. CASE Compensate
  <2>1. fiber \in Acting /\ fiber.made \in Seq(Made) /\ fiber.made # <<>>
    BY <1>6 DEF Compensate, Acting
  <2> DEFINE m == Last(fiber.made)
  <2>2. PICK o \in Writes(m.who, 0, m.was) : Written(m.who, o) /\ Unnoted(m.who)
    BY <1>6 DEF Compensate
  <2>3. m.who \in Managed /\ m.was \in Places /\ Front(fiber.made) \in Seq(Made)
    BY <2>1, LastMade
  <2> HIDE DEF m
  <2>4. desk' \in [Managed -> [who : 0..2, at : Places]] /\ late' \in [Managed -> Places \cup {None}]
        /\ trouble' \in Nat
    BY <2>2, <2>3, WriteMoves DEF OnlyMoved
  <2>5. forsaken' \subseteq Managed
    BY <2>2, <2>3 DEF Unnoted, TypeOK
  <2>6. fiber' \in Acting
    BY <1>6, <2>1, <2>3 DEF Compensate, Acting
  <2> QED BY <1>6, <2>4, <2>5, <2>6 DEF Compensate, TypeOK, FiberOK, world, memory
<1>7. ASSUME NEW x \in Managed, CycleWrite(x) PROVE TypeOK' /\ FiberOK'
  <2>1. fiber \in Acting /\ fiber.due \in Dues /\ fiber.due[x] \in {"admit", "park", "tile", "recover"}
    BY <1>7 DEF CycleWrite, Acting, Dues
  <2>2. Target(fiber.due[x]) \in Places
    BY <2>1, TargetPlaces
  <2>3. PICK o \in Writes(x, 0, Target(fiber.due[x])) :
           /\ Written(x, o)
           /\ IF Accepted(x, o)
              THEN /\ IF fiber.due[x] = "park" THEN Noted(x) ELSE Framed(x, o.at)
                   /\ fiber' = [fiber EXCEPT !.due[x] = "none",
                                  !.made = IF fiber.due[x] = "park" THEN @
                                           ELSE Append(@, [who |-> x, was |-> observed[x].at])]
              ELSE /\ Unnoted(x)
                   /\ fiber' = [fiber EXCEPT !.at = "compensate"]
                   /\ UNCHANGED <<observed, member, parked, intent>>
    BY <1>7 DEF CycleWrite
  <2>4. desk' \in [Managed -> [who : 0..2, at : Places]] /\ late' \in [Managed -> Places \cup {None}]
        /\ trouble' \in Nat
    BY <2>2, <2>3, WriteMoves DEF OnlyMoved
  <2>5. fiber' \in Acting
    <3>1. CASE ~Accepted(x, o)
      BY <2>1, <2>3, <3>1 DEF Acting
    <3>2. CASE Accepted(x, o)
      <4>1. [fiber.due EXCEPT ![x] = "none"] \in Dues
        BY <2>1 DEF Dues
      <4>2. fiber.made \in Seq(Made) /\ Append(fiber.made, [who |-> x, was |-> observed[x].at]) \in Seq(Made)
        BY <2>1 DEF Acting, Made, TypeOK
      <4> DEFINE longer == IF fiber.due[x] = "park" THEN fiber.made
                           ELSE Append(fiber.made, [who |-> x, was |-> observed[x].at])
      <4>3. fiber' = [fiber EXCEPT !.due = [fiber.due EXCEPT ![x] = "none"], !.made = longer]
        BY <2>1, <2>3, <3>2 DEF Acting
      <4>4. longer \in Seq(Made)
        BY <4>2
      <4> HIDE DEF longer
      <4> QED BY <2>1, <4>1, <4>3, <4>4 DEF Acting
    <3> QED BY <3>1, <3>2
  <2>6. /\ observed' \in [Managed -> [who : 0..2, at : Places]] /\ member \subseteq member'
        /\ member' \subseteq Managed /\ parked' \subseteq Managed /\ forsaken' \subseteq Managed
        /\ intent' \in [Managed -> Places \cup {None}]
    <3>1. CASE ~Accepted(x, o)
      BY <2>3, <3>1 DEF Unnoted, TypeOK
    <3>2. CASE Accepted(x, o) /\ fiber.due[x] = "park"
      <4>1. Noted(x)
        BY <2>3, <3>2
      <4>2. observed[x].at \in Places
        BY DEF TypeOK
      <4> QED BY <4>1, <4>2 DEF Noted, TypeOK
    <3>3. CASE Accepted(x, o) /\ fiber.due[x] # "park"
      <4>1. o.at \in Places
        BY <2>2, WriteOutcome DEF TypeOK, Places
      <4>2. Framed(x, o.at)
        BY <2>3, <3>3
      <4>3. observed' = [observed EXCEPT ![x].at = o.at]
        BY <4>2 DEF Framed
      <4>4. observed' \in [Managed -> [who : 0..2, at : Places]]
        BY <4>1, <4>3 DEF TypeOK
      <4> QED BY <4>2, <4>4 DEF Framed, TypeOK
    <3> QED BY <3>1, <3>2, <3>3
  <2> QED BY <1>7, <2>4, <2>5, <2>6 DEF CycleWrite, TypeOK, FiberOK
<1> QED BY <1>1, <1>2, <1>3, <1>4, <1>5, <1>6, <1>7 DEF Cycle

LEMMA UserTypes ==
    ASSUME SessionAssumption, TypeOK, FiberOK, Users
    PROVE  TypeOK' /\ FiberOK'
<1>1. CASE LoadAgain
  <2>1. health' \in {"healthy", "degraded"} /\ lifted' \subseteq {"rollback", "store"}
    BY <1>1 DEF LoadAgain, TypeOK
  <2> QED BY <1>1, <2>1 DEF LoadAgain, TypeOK, FiberOK, world, memory
<1>2. CASE StoreFails
  BY <1>2 DEF StoreFails, TypeOK, FiberOK, world, memory
<1>3. CASE StoreSpeaks
  BY <1>3 DEF StoreSpeaks, TypeOK, FiberOK, world, memory, bounds
<1>4. ASSUME NEW s \in Spaces, ShowWorkspace(s) PROVE TypeOK' /\ FiberOK'
  <2> DEFINE leaving == {x \in member : HomeOf[x] = shown}
             parking == {x \in leaving : ~(x \in parked /\ desk[x].at = Corner)}
             coming == {x \in member : HomeOf[x] = s}
             At(x) == IF x \in parking THEN Corner
                      ELSE IF x \in coming \ floating THEN "tile" ELSE desk[x].at
  <2>1. \A x \in Managed : At(x) \in Places
    BY DEF TypeOK, Places, Corner
  <2>2. leaving \subseteq Managed /\ coming \subseteq Managed /\ parking \subseteq Managed
    BY DEF TypeOK
  <2>3. /\ desk' = [x \in Managed |-> [desk[x] EXCEPT !.at = At(x)]]
        /\ observed' = [x \in Managed |-> IF x \in leaving \cup coming THEN desk'[x] ELSE observed[x]]
        /\ intent' = [x \in Managed |-> IF x \in parking THEN desk[x].at ELSE intent[x]]
        /\ parked' = (parked \cup parking) \ coming
        /\ forsaken' = (forsaken \ parking) \cup {x \in coming : desk'[x].at = Corner}
    BY <1>4 DEF ShowWorkspace
  <2>4. /\ shown' = s /\ commands' = commands + 1
        /\ UNCHANGED <<late, member, floating, quarantine, first, health, lasting, stopping, fiber,
                       report, trouble, touched, lifted>>
    BY <1>4 DEF ShowWorkspace
  <2> HIDE DEF leaving, parking, coming, At
  <2>5. desk' \in [Managed -> [who : 0..2, at : Places]]
    <3>1. \A x \in Managed : [desk[x] EXCEPT !.at = At(x)] \in [who : 0..2, at : Places]
      BY <2>1 DEF TypeOK
    <3> QED BY <2>3, <3>1
  <2>6. observed' \in [Managed -> [who : 0..2, at : Places]]
    BY <2>3, <2>5 DEF TypeOK
  <2>7. intent' \in [Managed -> Places \cup {None}]
    BY <2>3 DEF TypeOK
  <2> QED BY <2>2, <2>3, <2>4, <2>5, <2>6, <2>7 DEF TypeOK, FiberOK
<1>5. ASSUME NEW x \in Managed, Float(x) PROVE TypeOK' /\ FiberOK'
  BY <1>5 DEF Float, TypeOK, FiberOK, memory
<1>6. ASSUME NEW x \in Managed, Drag(x) PROVE TypeOK' /\ FiberOK'
  <2>1. desk' \in [Managed -> [who : 0..2, at : Places]]
    BY <1>6 DEF Drag, TypeOK, Places
  <2> QED BY <1>6, <2>1 DEF Drag, TypeOK, FiberOK, world, memory
<1>7. ASSUME NEW x \in Managed, Destroy(x) PROVE TypeOK' /\ FiberOK'
  <2>1. desk' \in [Managed -> [who : 0..2, at : Places]]
    <3>1. [who |-> 0, at |-> "first"] \in [who : 0..2, at : Places] /\ [who |-> 2, at |-> "first"] \in [who : 0..2, at : Places]
      BY DEF Places
    <3>2. PICK new \in [who : 0..2, at : Places] : desk' = [desk EXCEPT ![x] = new]
      BY <1>7, <3>1 DEF Destroy
    <3> QED BY <3>2 DEF TypeOK
  <2>2. late' \in [Managed -> Places \cup {None}]
    BY <1>7 DEF Destroy, TypeOK
  <2> QED BY <1>7, <2>1, <2>2 DEF Destroy, TypeOK, FiberOK, world, memory
<1>8. ASSUME NEW x \in Managed, Land(x) PROVE TypeOK' /\ FiberOK'
  <2>1. desk' \in [Managed -> [who : 0..2, at : Places]]
    <3>1. late[x] \in Places
      BY <1>8 DEF Land, TypeOK
    <3> QED BY SMTT(40), <1>8, <3>1 DEF Land, TypeOK
  <2>2. late' \in [Managed -> Places \cup {None}]
    BY <1>8 DEF Land, TypeOK
  <2> QED BY <1>8, <2>1, <2>2 DEF Land, TypeOK, FiberOK, world, memory, bounds
<1> QED BY <1>1, <1>2, <1>3, <1>4, <1>5, <1>6, <1>7, <1>8 DEF Users

LEMMA PlaceType ==
    ASSUME TypeOK, NEW x \in Managed
    PROVE  Place(x) \in Places
<1>1. \A at \in Places : Clamped(at) \in Places
  BY PlacesExist
<1>2. IF intent[x] # None THEN intent[x] \in Places
      ELSE IF first[x] # None THEN first[x] \in Places ELSE observed[x].at \in Places
  BY DEF TypeOK
<1>3. "tile" \in Places
  BY DEF Places
<1> QED BY <1>1, <1>2, <1>3 DEF Place

\* What stop() may leave half done is a write to a window.
LEMMA AbandonedTypes ==
    ASSUME TypeOK, FiberOK
    PROVE  \A w \in Abandoned : w.who \in Managed /\ w.to \in Places
<1>1. CASE fiber.at = "act"
  <2>1. fiber.due \in Dues
    BY <1>1, Shapes DEF Acting
  <2>2. Abandoned = {[who |-> x, to |-> Target(fiber.due[x])] :
                        x \in {y \in Managed : fiber.due[y] # "none"}}
    BY <1>1 DEF Abandoned
  <2>3. \A x \in Managed : fiber.due[x] # "none" => Target(fiber.due[x]) \in Places
    BY <2>1, TargetPlaces DEF Dues
  <2> QED BY <2>2, <2>3
<1>2. CASE fiber.at = "compensate" /\ fiber.made # <<>>
  <2>1. fiber.made \in Seq(Made)
    BY <1>2, Shapes DEF Acting
  <2>2. Abandoned = {[who |-> Last(fiber.made).who, to |-> Last(fiber.made).was]}
    BY <1>2 DEF Abandoned
  <2> QED BY <1>2, <2>1, <2>2, LastMade
<1>3. CASE fiber.at # "act" /\ ~(fiber.at = "compensate" /\ fiber.made # <<>>)
  BY <1>3 DEF Abandoned
<1> QED BY <1>1, <1>2, <1>3

LEMMA FlightTypes ==
    ASSUME TypeOK, NEW W, InFlight(W), \A w \in W : w.who \in Managed /\ w.to \in Places
    PROVE  /\ desk' \in [Managed -> [who : 0..2, at : Places]]
           /\ late' \in [Managed -> Places \cup {None}] /\ forsaken' \subseteq Managed
BY FlightMoves DEF OnlyMoved, TypeOK

LEMMA ShutdownTypes ==
    ASSUME SessionAssumption, TypeOK, FiberOK, Shutdown
    PROVE  TypeOK' /\ FiberOK'
<1>1. CASE StopEngine
  BY <1>1 DEF StopEngine, TypeOK, FiberOK, world, memory, bounds, watch
<1>2. CASE InterruptFiber
  <2>1. /\ desk' \in [Managed -> [who : 0..2, at : Places]]
        /\ late' \in [Managed -> Places \cup {None}] /\ forsaken' \subseteq Managed
    BY <1>2, AbandonedTypes, FlightTypes DEF InterruptFiber
  <2>2. fiber' \in Restoring
    BY <1>2 DEF InterruptFiber, Restoring, TypeOK
  <2> QED BY <1>2, <2>1, <2>2 DEF InterruptFiber, TypeOK, FiberOK, world, memory, bounds
<1>3. CASE InterruptAdmission
  <2>1. fiber \in Admitting /\ fiber.tried \subseteq Managed
    BY <1>3, Shapes DEF InterruptAdmission, Admitting
  <2>2. fiber' \in Undoing
    BY <1>3, <2>1, UndoShape DEF InterruptAdmission
  <2>3. /\ desk' \in [Managed -> [who : 0..2, at : Places]]
        /\ late' \in [Managed -> Places \cup {None}] /\ forsaken' \subseteq Managed
    <3>1. CASE UNCHANGED <<desk, late, forsaken>>
      BY <3>1 DEF TypeOK
    <3>2. ASSUME NEW x \in Managed, InFlight({[who |-> x, to |-> "tile"]})
          PROVE  /\ desk' \in [Managed -> [who : 0..2, at : Places]]
                 /\ late' \in [Managed -> Places \cup {None}] /\ forsaken' \subseteq Managed
      BY <3>2, FlightTypes DEF Places
    <3> QED BY <1>3, <3>1, <3>2 DEF InterruptAdmission
  <2> QED BY <1>3, <2>2, <2>3 DEF InterruptAdmission, TypeOK, FiberOK, world, memory, bounds
<1>4. ASSUME NEW x \in Managed, Restore(x) PROVE TypeOK' /\ FiberOK'
  <2>1. fiber \in Restoring
    BY <1>4, Shapes DEF Restore
  <2>2. fiber' \in Restoring
    BY <1>4, <2>1 DEF Restore, Restoring
  <2>3. CASE x \notin Known
    BY <1>4, <2>2, <2>3 DEF Restore, TypeOK, FiberOK, world, memory, watch
  <2>4. CASE x \in Known
    <3>1. PICK o \in Writes(x, observed[x].who, Place(x)) :
             /\ Written(x, o)
             /\ report' = [report EXCEPT ![x] = IF o.answer = "done" /\ Visible(o.at) THEN "ok" ELSE "failed"]
      BY <1>4, <2>4 DEF Restore
    <3>2. desk' \in [Managed -> [who : 0..2, at : Places]] /\ late' \in [Managed -> Places \cup {None}]
          /\ trouble' \in Nat
      BY <3>1, PlaceType, WriteMoves DEF OnlyMoved
    <3>3. report' \in [Managed -> {None, "ok", "failed"}]
      BY <3>1 DEF TypeOK
    <3> QED BY <1>4, <2>2, <3>2, <3>3 DEF Restore, TypeOK, FiberOK, world, memory, watch
  <2> QED BY <2>3, <2>4
<1>5. CASE Stopped
  BY <1>5 DEF Stopped, TypeOK, FiberOK, world, memory, bounds, watch
<1> QED BY <1>1, <1>2, <1>3, <1>4, <1>5 DEF Shutdown

LEMMA TypesKept ==
    ASSUME SessionAssumption, TypeOK, FiberOK, Uncornered, [SessionNext]_sessionVars
    PROVE  TypeOK' /\ FiberOK'
<1>1. CASE UNCHANGED sessionVars
  BY <1>1 DEF sessionVars, world, memory, bounds, watch, TypeOK, FiberOK
<1> QED BY <1>1, StartupTypes, CycleTypes, UserTypes, ShutdownTypes DEF SessionNext

-----------------------------------------------------------------------------
(* No corners before the first cycle.                                      *)

LEMMA ClearAfterMove ==
    ASSUME Clear, NEW x \in Managed, NEW to, to # Corner, OnlyMoved(x, to), observed' = observed
    PROVE  Clear'
BY DEF Clear, OnlyMoved, Corner

LEMMA UncorneredKept ==
    ASSUME SessionAssumption, TypeOK, FiberOK, Uncornered, Orderly, [SessionNext]_sessionVars
    PROVE  Uncornered'
<1>1. CASE UNCHANGED sessionVars
  BY <1>1 DEF sessionVars, world, Uncornered, Early, Clear
<1>2. CASE LoadConfig \/ CommitGroup \/ EndUndo \/ NextGroup \/ BeginVerify
  <2>1. UNCHANGED <<desk, late, observed, floating>> /\ Early
    BY <1>2 DEF LoadConfig, CommitGroup, EndUndo, NextGroup, BeginVerify, world, Early
  <2>2. fiber'.at # "config" /\ (fiber'.at = "read" => fiber.at = "config")
    BY <1>2 DEF LoadConfig, CommitGroup, EndUndo, NextGroup, BeginVerify, Decided, Admission, Undo
  <2> QED BY <2>1, <2>2 DEF Uncornered, Early, Clear
<1>3. CASE Adopt
  BY <1>3 DEF Adopt, Uncornered, Early, Clear
<1>4. CASE HydrateInitialLayout \/ FirstCycle
  BY <1>4 DEF HydrateInitialLayout, FirstCycle, Uncornered, Early
<1>5. ASSUME NEW s \in Spaces, SkipGroup(s) \/ InfeasibleGroup(s) \/ BeginGroup(s)
      PROVE  Uncornered'
  <2>1. UNCHANGED <<desk, late, observed>> /\ Early
    BY <1>5 DEF SkipGroup, InfeasibleGroup, BeginGroup, Chosen, world, Early
  <2>2. fiber'.at \in {"choose", "write"}
    <3>1. fiber \in Choosing
      BY <1>5, Shapes DEF SkipGroup, InfeasibleGroup, BeginGroup, Chosen
    <3> QED BY <1>5, <3>1 DEF SkipGroup, InfeasibleGroup, BeginGroup, Admission, Choosing
  <2> QED BY <2>1, <2>2 DEF Uncornered, Early, Clear
<1>6. ASSUME NEW x \in Managed, VerifyOne(x) \/ UndoCheck(x) PROVE Uncornered'
  <2>1. UNCHANGED <<desk, late, observed>> /\ Early
    BY <1>6 DEF VerifyOne, UndoCheck, world, Early
  <2>2. fiber'.at \in {"verify", "undo"}
    <3>1. CASE VerifyOne(x)
      BY <3>1, Shapes DEF VerifyOne, Undo, Admitting
    <3>2. CASE UndoCheck(x)
      BY <3>2, Shapes DEF UndoCheck, Undoing
    <3> QED BY <1>6, <3>1, <3>2
  <2> QED BY <2>1, <2>2 DEF Uncornered, Early, Clear
<1>7. ASSUME NEW x \in Managed, AdmitWrite(x) PROVE Uncornered'
  <2>1. Clear /\ fiber \in Admitting /\ observed' = observed
    BY <1>7, Shapes DEF AdmitWrite, Uncornered, Early, world
  <2>2. OnlyMoved(x, "tile")
    BY <1>7, WriteMoves DEF AdmitWrite, Places
  <2>3. fiber'.at \in {"write", "undo"}
    BY <1>7, <2>1 DEF AdmitWrite, Undo, Admitting
  <2> QED BY <2>1, <2>2, <2>3, ClearAfterMove DEF Uncornered, Early, Corner
<1>8. ASSUME NEW x \in Managed, UndoWrite(x) PROVE Uncornered'
  <2>1. Clear /\ fiber \in Undoing /\ observed' = observed
    BY <1>8, Shapes DEF UndoWrite, Uncornered, Early, world
  <2>2. observed[x].at \in Places /\ observed[x].at # Corner
    BY <2>1 DEF TypeOK, Clear
  <2>3. OnlyMoved(x, observed[x].at)
    BY <1>8, <2>2, WriteMoves DEF UndoWrite
  <2>4. fiber'.at = "check"
    BY <1>8, <2>1 DEF UndoWrite, Undoing
  <2> QED BY <2>1, <2>2, <2>3, <2>4, ClearAfterMove DEF Uncornered, Early
<1>9. CASE Cycle
  <2>1. fiber'.at \in {"pass", "act", "idle", "compensate"}
    <3>1. CASE BeginCycle \/ ObservePass \/ ObserveFails \/ FailedCycle \/ PassEnds
      BY <3>1 DEF BeginCycle, ObservePass, ObserveFails, FailedCycle, PassEnds, CycleOver
    <3>2. CASE Compensate
      BY <3>2, Shapes DEF Compensate, Acting
    <3>3. ASSUME NEW x \in Managed, CycleWrite(x) PROVE fiber'.at \in {"act", "compensate"}
      BY <3>3, Shapes DEF CycleWrite, Acting
    <3> QED BY <1>9, <3>1, <3>2, <3>3 DEF Cycle
  <2> QED BY <2>1 DEF Uncornered, Early
<1>10. CASE StoreFails \/ StoreSpeaks \/ (\E s \in Spaces : ShowWorkspace(s)) \/ (\E x \in Managed : Float(x))
  BY <1>10 DEF StoreFails, StoreSpeaks, ShowWorkspace, Float, Uncornered, Early
<1>11. CASE LoadAgain \/ StopEngine
  BY <1>11 DEF LoadAgain, StopEngine, world, Uncornered, Early, Clear
<1>12. ASSUME NEW x \in Managed, Drag(x) \/ Destroy(x) \/ Land(x) PROVE Uncornered'
  <2>1. UNCHANGED <<fiber, observed, floating>>
    BY <1>12 DEF Drag, Destroy, Land, world
  <2>2. ASSUME Clear PROVE Clear'
    <3>1. \A y \in Managed \ {x} : desk'[y] = desk[y] /\ late'[y] = late[y]
      BY <1>12 DEF Drag, Destroy, Land, TypeOK
    <3>2. desk'[x].at # Corner /\ (late'[x] # None => late'[x] # Corner)
      <4>1. CASE Drag(x)
        BY <2>2, <4>1 DEF Drag, TypeOK, Corner, Clear
      <4>2. CASE Destroy(x)
        BY <4>2 DEF Destroy, TypeOK, Corner
      <4>3. CASE Land(x)
        BY <2>2, <4>3 DEF Land, TypeOK, Clear
      <4> QED BY <1>12, <4>1, <4>2, <4>3
    <3> QED BY <2>1, <2>2, <3>1, <3>2 DEF Clear
  <2> QED BY <2>1, <2>2 DEF Uncornered, Early
<1>13. CASE InterruptFiber \/ Stopped
  BY <1>13 DEF InterruptFiber, Stopped, Uncornered, Early
<1>14. ASSUME NEW x \in Managed, Restore(x) PROVE Uncornered'
  <2>1. fiber'.at = "restore"
    BY <1>14, Shapes DEF Restore, Restoring
  <2> QED BY <2>1 DEF Uncornered, Early
<1>15. CASE InterruptAdmission
  <2>a. \E tried : fiber' = Undo(tried, FALSE)
    BY <1>15 DEF InterruptAdmission
  <2>1. Clear /\ observed' = observed /\ fiber'.at = "undo"
    BY <1>15, <2>a DEF InterruptAdmission, Uncornered, Early, world, Undo
  <2>2. CASE UNCHANGED <<desk, late, forsaken>>
    BY <2>1, <2>2 DEF Uncornered, Early, Clear
  <2>3. ASSUME NEW x \in Managed, InFlight({[who |-> x, to |-> "tile"]}), ~UNCHANGED <<desk, late, forsaken>>
        PROVE  Uncornered'
    <3>1. OnlyMoved(x, "tile")
      BY <2>3, FlightMoves DEF Places
    <3> QED BY <2>1, <3>1, ClearAfterMove DEF Uncornered, Early, Corner
  <2> QED BY <1>15, <2>2, <2>3 DEF InterruptAdmission
<1> QED BY <1>1, <1>2, <1>3, <1>4, <1>5, <1>6, <1>7, <1>8, <1>9, <1>10, <1>11, <1>12, <1>13, <1>14, <1>15
        DEF SessionNext, Startup, Users, Shutdown

-----------------------------------------------------------------------------
(* The admission of a group.                                               *)

LEMMA GroupKept ==
    ASSUME observed' = observed
    PROVE  \A s : Group(s)' = Group(s)
BY DEF Group, Known

LEMMA GroupsAreHome ==
    \A s : \A x \in Group(s) : x \in Managed /\ HomeOf[x] = s
BY DEF Group, Known

\* What others do to windows leaves an admission as it was: they are known to have done it.
LEMMA Bystanders ==
    ASSUME TypeOK, Orderly, UNCHANGED <<fiber, observed>>, lasting \subseteq lasting', touched \subseteq touched',
           \A y \in Managed \ touched' : desk'[y] = desk[y]
    PROVE  Orderly'
<1>1. \A s : Group(s)' = Group(s)
  BY GroupKept
<1>2. \A s : Group(s) \subseteq Managed
  BY GroupsAreHome
<1>3. Awaiting'
  BY DEF Orderly, Awaiting
<1>4. Tried'
  BY <1>1, <1>2 DEF Orderly, Tried
<1>5. PutBack'
  BY <1>1, <1>2 DEF Orderly, PutBack
<1>6. AdmissionIsWhole'
  BY <1>1, <1>2 DEF Orderly, AdmissionIsWhole
<1> QED BY <1>3, <1>4, <1>5, <1>6 DEF Orderly

\* Elsewhere there is no admission to speak of.
LEMMA NoAdmission ==
    ASSUME fiber'.at \in {"config", "read", "idle", "pass", "act", "compensate", "restore"}
    PROVE  Orderly'
BY DEF Orderly, Awaiting, Tried, PutBack, AdmissionIsWhole

\* A rollback begins with everything that was tried.
LEMMA RolledBack ==
    ASSUME Tried, Awaiting, fiber.at \in {"write", "verify"}, UNCHANGED <<desk, observed, touched>>,
           fiber' = Undo(fiber.tried, FALSE)
    PROVE  Orderly'
<1>1. /\ fiber'.at = "undo" /\ fiber'.todo = fiber.tried
      /\ fiber'.left = fiber.left /\ fiber'.space = fiber.space
  BY DEF Undo
<1>2. Awaiting'
  BY <1>1 DEF Awaiting
<1>3. PutBack'
  BY <1>1, GroupKept DEF Tried, PutBack
<1> QED BY <1>1, <1>2, <1>3 DEF Orderly, Tried, AdmissionIsWhole

LEMMA OrderlyKept ==
    ASSUME SessionAssumption, TypeOK, FiberOK, Orderly, [SessionNext]_sessionVars
    PROVE  Orderly'
<1> USE Shapes
<1>1. CASE UNCHANGED sessionVars
  BY <1>1, Bystanders DEF sessionVars, world, watch
<1>2. CASE LoadConfig \/ HydrateInitialLayout \/ FirstCycle
  BY <1>2, NoAdmission DEF LoadConfig, HydrateInitialLayout, FirstCycle
<1>3. CASE Adopt
  BY <1>3 DEF Adopt, Orderly, Awaiting, Tried, PutBack, AdmissionIsWhole
<1>4. ASSUME NEW s \in Spaces, SkipGroup(s) \/ InfeasibleGroup(s) PROVE Orderly'
  <2>1. fiber \in Choosing /\ UNCHANGED <<desk, observed, touched>>
    BY <1>4 DEF SkipGroup, InfeasibleGroup, Chosen, world, watch
  <2>2. fiber'.at = "choose" /\ fiber'.left \subseteq fiber.left
    BY <1>4, <2>1 DEF SkipGroup, InfeasibleGroup, Choosing
  <2>3. Awaiting'
    BY <2>1, <2>2 DEF Orderly, Awaiting, Choosing
  <2> QED BY <2>2, <2>3 DEF Orderly, Tried, PutBack, AdmissionIsWhole
<1>5. ASSUME NEW s \in Spaces, BeginGroup(s) PROVE Orderly'
  <2>1. fiber \in Choosing /\ s \in fiber.left /\ UNCHANGED <<desk, observed>> /\ fiber.at = "choose"
    BY <1>5 DEF BeginGroup, Chosen, world
  <2>2. /\ fiber'.at = "write" /\ fiber'.space = s /\ fiber'.left = fiber.left \ {s}
        /\ fiber'.todo \subseteq Group(s) /\ fiber'.tried = {}
    BY <1>5 DEF BeginGroup, Admission
  <2>3. touched' = touched \ {x \in Group(s) : desk[x] = observed[x]}
    BY <1>5 DEF BeginGroup
  <2>4. \A x \in Managed \ touched' : HomeOf[x] \in fiber.left => desk[x] = observed[x]
    BY <2>1, <2>3 DEF Orderly, Awaiting
  <2>5. Awaiting'
    BY <2>1, <2>2, <2>4 DEF Awaiting
  <2>6. Tried'
    BY <2>1, <2>2, <2>4, GroupKept, GroupsAreHome DEF Tried
  <2> QED BY <2>2, <2>5, <2>6 DEF Orderly, PutBack, AdmissionIsWhole
<1>6. ASSUME NEW x \in Managed, AdmitWrite(x) PROVE Orderly'
  <2>1. /\ fiber \in Admitting /\ fiber.at = "write" /\ x \in fiber.todo
        /\ UNCHANGED <<observed, touched>>
    BY <1>6 DEF AdmitWrite, Foremost, world, watch
  <2>2. OnlyMoved(x, "tile")
    BY <1>6, WriteMoves DEF AdmitWrite, Places
  <2>3. Tried /\ Awaiting
    BY DEF Orderly
  <2>4. \A y \in Managed \ {x} : desk'[y] = desk[y]
    BY <2>2 DEF OnlyMoved
  <2>5. HomeOf[x] \notin fiber.left /\ x \in Group(fiber.space)
    BY <2>1, <2>3, GroupsAreHome DEF Tried
  <2>6. fiber'.left = fiber.left /\ fiber'.space = fiber.space
    BY <1>6, <2>1 DEF AdmitWrite, Admitting, Undo
  <2>7. Awaiting'
    BY <2>1, <2>3, <2>4, <2>5, <2>6 DEF Awaiting
  <2>8. CASE fiber' = [fiber EXCEPT !.todo = @ \ {x}, !.tried = @ \cup {x}]
    <3>1. fiber'.at = "write" /\ fiber'.todo = fiber.todo \ {x} /\ fiber'.tried = fiber.tried \cup {x}
      BY <2>1, <2>8 DEF Admitting
    <3>2. Tried'
      BY <2>1, <2>3, <2>4, <2>5, <2>6, <3>1, GroupKept, GroupsAreHome DEF Tried
    <3> QED BY <2>7, <3>1, <3>2 DEF Orderly, PutBack, AdmissionIsWhole
  <2>9. CASE fiber' = Undo(fiber.tried \cup {x}, FALSE)
    <3>1. fiber'.at = "undo" /\ fiber'.todo = fiber.tried \cup {x}
      BY <2>9 DEF Undo
    <3>2. PutBack'
      BY <2>1, <2>3, <2>4, <2>5, <2>6, <3>1, GroupKept, GroupsAreHome DEF Tried, PutBack
    <3> QED BY <2>7, <3>1, <3>2 DEF Orderly, Tried, AdmissionIsWhole
  <2> QED BY <1>6, <2>8, <2>9 DEF AdmitWrite
<1>7. CASE BeginVerify
  <2>1. fiber \in Admitting /\ fiber.at = "write" /\ Tried /\ Awaiting /\ UNCHANGED <<desk, observed, touched>>
    BY <1>7 DEF BeginVerify, Orderly, world, watch
  <2>2. CASE fiber' = Admission("verify", fiber, Group(fiber.space), fiber.tried)
    <3>1. /\ fiber'.at = "verify" /\ fiber'.space = fiber.space /\ fiber'.left = fiber.left
          /\ fiber'.todo = Group(fiber.space) /\ fiber'.tried = fiber.tried
      BY <2>2 DEF Admission
    <3>2. Awaiting' /\ Tried'
      BY <2>1, <3>1, GroupKept DEF Tried, Awaiting
    <3> QED BY <3>1, <3>2 DEF Orderly, PutBack, AdmissionIsWhole
  <2>3. CASE fiber' = Undo(fiber.tried, FALSE)
    BY <2>1, <2>3, RolledBack
  <2> QED BY <1>7, <2>2, <2>3 DEF BeginVerify
<1>8. ASSUME NEW x \in Managed, VerifyOne(x) PROVE Orderly'
  <2>1. fiber \in Admitting /\ fiber.at = "verify" /\ Tried /\ Awaiting /\ UNCHANGED <<desk, observed, touched>>
    BY <1>8 DEF VerifyOne, Orderly, world, watch
  <2>2. CASE desk[x] = [who |-> observed[x].who, at |-> "tile"] /\ fiber' = [fiber EXCEPT !.todo = @ \ {x}]
    <3>1. /\ fiber'.at = "verify" /\ fiber'.space = fiber.space /\ fiber'.left = fiber.left
          /\ fiber'.todo = fiber.todo \ {x} /\ fiber'.tried = fiber.tried
      BY <2>1, <2>2 DEF Admitting
    <3>2. Awaiting' /\ Tried'
      BY <2>1, <2>2, <3>1, GroupKept DEF Tried, Awaiting
    <3> QED BY <3>1, <3>2 DEF Orderly, PutBack, AdmissionIsWhole
  <2>3. CASE fiber' = Undo(fiber.tried, FALSE)
    BY <2>1, <2>3, RolledBack
  <2> QED BY <1>8, <2>2, <2>3 DEF VerifyOne
<1>9. CASE CommitGroup
  <2>1. /\ fiber.at = "verify" /\ fiber.todo = {} /\ Tried /\ Awaiting
        /\ UNCHANGED <<desk, observed, touched>>
    BY <1>9 DEF CommitGroup, Orderly, watch
  <2>2. fiber'.at = "decided" /\ fiber'.whole /\ fiber'.space = fiber.space /\ fiber'.left = fiber.left
    BY <1>9 DEF CommitGroup, Decided
  <2>3. Awaiting' /\ AdmissionIsWhole'
    BY <2>1, <2>2, GroupKept DEF Tried, Awaiting, AdmissionIsWhole
  <2> QED BY <2>2, <2>3 DEF Orderly, Tried, PutBack
<1>10. ASSUME NEW x \in Managed, UndoWrite(x) PROVE Orderly'
  <2>1. /\ fiber \in Undoing /\ fiber.at = "undo" /\ x \in fiber.todo /\ PutBack /\ Awaiting
        /\ UNCHANGED <<observed, touched>>
    BY <1>10 DEF UndoWrite, Hindmost, Orderly, world, watch
  <2>2. \A y \in Managed \ {x} : desk'[y] = desk[y]
    <3>1. observed[x].at \in Places
      BY DEF TypeOK
    <3> QED BY <1>10, <3>1, WriteMoves DEF UndoWrite, OnlyMoved
  <2>3. HomeOf[x] \notin fiber.left
    BY <2>1, GroupsAreHome DEF PutBack
  <2>4. /\ fiber'.at = "check" /\ fiber'.space = fiber.space /\ fiber'.left = fiber.left
        /\ fiber'.todo = fiber.todo /\ (fiber.wrong => fiber'.wrong)
    BY <1>10, <2>1 DEF UndoWrite, Undoing
  <2>5. Awaiting'
    BY <2>1, <2>2, <2>3, <2>4 DEF Awaiting
  <2>6. PutBack'
    BY <2>1, <2>2, <2>4, GroupKept, GroupsAreHome DEF PutBack
  <2> QED BY <2>4, <2>5, <2>6 DEF Orderly, Tried, AdmissionIsWhole
<1>11. ASSUME NEW x \in Managed, UndoCheck(x) PROVE Orderly'
  <2>1. fiber \in Undoing /\ fiber.at = "check" /\ PutBack /\ Awaiting /\ UNCHANGED <<desk, observed, touched>>
    BY <1>11 DEF UndoCheck, Orderly, world, watch
  <2>2. /\ fiber'.at = "undo" /\ fiber'.space = fiber.space /\ fiber'.left = fiber.left
        /\ fiber'.todo = fiber.todo \ {x} /\ (fiber.wrong \/ desk[x] # observed[x] => fiber'.wrong)
    BY <1>11, <2>1 DEF UndoCheck, Undoing
  <2>3. Awaiting' /\ PutBack'
    BY <2>1, <2>2, GroupKept DEF Awaiting, PutBack
  <2> QED BY <2>2, <2>3 DEF Orderly, Tried, AdmissionIsWhole
<1>12. CASE EndUndo
  <2>1. /\ fiber.at = "undo" /\ fiber.todo = {} /\ PutBack /\ Awaiting
        /\ UNCHANGED <<desk, observed, touched>> /\ (fiber.wrong => "rollback" \in lasting')
    BY <1>12 DEF EndUndo, Orderly, world, watch
  <2>2. fiber'.at = "decided" /\ fiber'.whole = FALSE /\ fiber'.space = fiber.space /\ fiber'.left = fiber.left
    BY <1>12 DEF EndUndo, Decided
  <2>3. Awaiting' /\ AdmissionIsWhole'
    BY <2>1, <2>2, GroupKept DEF PutBack, Awaiting, AdmissionIsWhole
  <2> QED BY <2>2, <2>3 DEF Orderly, Tried, PutBack
<1>13. CASE NextGroup
  <2>1. fiber.at = "decided" /\ Awaiting /\ UNCHANGED <<desk, observed, touched>>
    BY <1>13 DEF NextGroup, Orderly, watch
  <2>2. fiber'.at = "choose" /\ fiber'.left = fiber.left
    BY <1>13 DEF NextGroup
  <2> QED BY <2>1, <2>2 DEF Orderly, Awaiting, Tried, PutBack, AdmissionIsWhole
<1>14. CASE Cycle
  <2>1. CASE BeginCycle \/ ObservePass \/ ObserveFails \/ FailedCycle \/ PassEnds
    BY <2>1, NoAdmission DEF BeginCycle, ObservePass, ObserveFails, FailedCycle, PassEnds, CycleOver
  <2>2. CASE Compensate
    BY <2>2, NoAdmission DEF Compensate, Acting
  <2>3. ASSUME NEW x \in Managed, CycleWrite(x) PROVE Orderly'
    BY <2>3, NoAdmission DEF CycleWrite, Acting
  <2> QED BY <1>14, <2>1, <2>2, <2>3 DEF Cycle
<1>15. CASE StoreFails \/ StoreSpeaks \/ (\E s \in Spaces : ShowWorkspace(s)) \/ (\E x \in Managed : Float(x))
  BY <1>15, NoAdmission DEF StoreFails, StoreSpeaks, ShowWorkspace, Float
<1>16. CASE LoadAgain \/ StopEngine
  BY <1>16, Bystanders DEF LoadAgain, StopEngine, world, watch
<1>17. ASSUME NEW x \in Managed, Drag(x) \/ Destroy(x) \/ Land(x) PROVE Orderly'
  <2>1. \A y \in Managed \ {x} : desk'[y] = desk[y]
    BY <1>17 DEF Drag, Destroy, Land, TypeOK
  <2>2. UNCHANGED <<fiber, observed, lasting>> /\ touched' = touched \cup {x}
    BY <1>17 DEF Drag, Destroy, Land, world
  <2> QED BY <2>1, <2>2, Bystanders
<1>18. CASE InterruptFiber \/ Stopped \/ (\E x \in Managed : Restore(x))
  BY <1>18, NoAdmission DEF InterruptFiber, Stopped, Restore, Restoring
<1>19. CASE InterruptAdmission
  <2>1. /\ fiber \in Admitting /\ fiber.at \in {"write", "verify"} /\ Tried /\ Awaiting
        /\ UNCHANGED <<observed, touched>>
    BY <1>19 DEF InterruptAdmission, Orderly, world
  <2>2. CASE fiber' = Undo(fiber.tried, FALSE) /\ desk' = desk
    BY <2>1, <2>2, RolledBack
  <2>3. ASSUME NEW x \in fiber.todo, fiber.at = "write", fiber' = Undo(fiber.tried \cup {x}, FALSE),
               \A y \in Managed \ {x} : desk'[y] = desk[y]
        PROVE  Orderly'
    <3>1. HomeOf[x] \notin fiber.left /\ x \in Group(fiber.space)
      BY <2>1, <2>3, GroupsAreHome DEF Tried
    <3>2. /\ fiber'.at = "undo" /\ fiber'.todo = fiber.tried \cup {x}
          /\ fiber'.left = fiber.left /\ fiber'.space = fiber.space
      BY <2>3 DEF Undo
    <3>3. Awaiting'
      BY <2>1, <2>3, <3>1, <3>2 DEF Awaiting
    <3>4. \A y \in Group(fiber.space) \ (touched \cup fiber.tried \cup {x}) : desk'[y] = observed[y]
      BY <2>1, <2>3, GroupsAreHome DEF Tried
    <3>5. fiber.tried \cup {x} \subseteq Group(fiber.space) /\ fiber.space \notin fiber.left
      BY <2>1, <3>1 DEF Tried
    <3>6. PutBack'
      BY <2>1, <3>2, <3>4, <3>5, GroupKept DEF PutBack
    <3> QED BY <3>2, <3>3, <3>6 DEF Orderly, Tried, AdmissionIsWhole
  <2>4. ASSUME NEW x \in Managed, InFlight({[who |-> x, to |-> "tile"]})
        PROVE  \A y \in Managed \ {x} : desk'[y] = desk[y]
    BY <2>4, FlightMoves DEF OnlyMoved, Places
  <2> QED BY <1>19, <2>2, <2>3, <2>4 DEF InterruptAdmission, Foremost
<1> QED BY <1>1, <1>2, <1>3, <1>4, <1>5, <1>6, <1>7, <1>8, <1>9, <1>10, <1>11, <1>12, <1>13, <1>14,
           <1>15, <1>16, <1>17, <1>18, <1>19 DEF SessionNext, Startup, Users, Shutdown

-----------------------------------------------------------------------------
(* Health.                                                                 *)

LEMMA HealthKept ==
    ASSUME DegradedLasts, [SessionNext]_sessionVars
    PROVE  DegradedLasts'
<1>1. CASE UNCHANGED sessionVars
  BY <1>1 DEF sessionVars, watch, DegradedLasts
<1>2. CASE Startup
  <2>1. CASE LoadConfig
    BY <2>1 DEF LoadConfig, watch, DegradedLasts
  <2>2. CASE EndUndo
    BY <2>2 DEF EndUndo, watch, DegradedLasts
  <2>3. CASE UNCHANGED <<health, lasting, lifted>>
    BY <2>3 DEF DegradedLasts
  <2>4. CASE \/ Adopt \/ HydrateInitialLayout \/ BeginVerify \/ CommitGroup \/ NextGroup \/ FirstCycle
             \/ \E s \in Spaces : SkipGroup(s) \/ InfeasibleGroup(s) \/ BeginGroup(s)
             \/ \E x \in Managed : AdmitWrite(x) \/ VerifyOne(x) \/ UndoWrite(x) \/ UndoCheck(x)
    BY <2>3, <2>4 DEF Adopt, HydrateInitialLayout, BeginVerify, CommitGroup, NextGroup, FirstCycle,
       SkipGroup, InfeasibleGroup, BeginGroup, AdmitWrite, VerifyOne, UndoWrite, UndoCheck, watch
  <2> QED BY <1>2, <2>1, <2>2, <2>4 DEF Startup
<1>3. CASE Cycle
  <2>1. UNCHANGED <<lasting, lifted>>
    BY <1>3 DEF Cycle, BeginCycle, ObservePass, ObserveFails, Compensate, FailedCycle, PassEnds, CycleWrite, watch
  <2>2. CASE ObserveFails \/ FailedCycle
    BY <2>1, <2>2 DEF ObserveFails, FailedCycle, CycleOver, DegradedLasts
  <2>3. CASE PassEnds
    <3>1. health' = health \/ health' = "degraded" \/ health' = Healed
      BY <2>3 DEF PassEnds, CycleOver
    <3> QED BY <2>1, <3>1 DEF Healed, DegradedLasts
  <2>4. CASE BeginCycle \/ ObservePass \/ Compensate \/ \E x \in Managed : CycleWrite(x)
    <3>1. health' = health
      BY <2>4 DEF BeginCycle, ObservePass, Compensate, CycleWrite
    <3> QED BY <2>1, <3>1 DEF DegradedLasts
  <2> QED BY <1>3, <2>2, <2>3, <2>4 DEF Cycle
<1>4. CASE Users
  <2>1. CASE LoadAgain \/ StoreFails \/ StoreSpeaks
    BY <2>1 DEF LoadAgain, StoreFails, StoreSpeaks, DegradedLasts
  <2>2. CASE \/ \E s \in Spaces : ShowWorkspace(s)
             \/ \E x \in Managed : Float(x) \/ Drag(x) \/ Destroy(x) \/ Land(x)
    BY <2>2 DEF ShowWorkspace, Float, Drag, Destroy, Land, DegradedLasts
  <2> QED BY <1>4, <2>1, <2>2 DEF Users
<1>5. CASE Shutdown
  BY <1>5 DEF Shutdown, StopEngine, InterruptFiber, InterruptAdmission, Stopped, Restore, watch, DegradedLasts
<1> QED BY <1>1, <1>2, <1>3, <1>4, <1>5 DEF SessionNext

-----------------------------------------------------------------------------
(* Who stands in a corner.                                                 *)

\* A write that leaves its window visible, noted or forsaken takes nobody by surprise.
LEMMA NoticedAfterMove ==
    ASSUME Noticed, fiber.at # "restore", NEW x \in Managed, NEW to, OnlyMoved(x, to),
           desk'[x].at = Corner => x \in parked' \cup forsaken',
           parked \subseteq parked', forsaken \ {x} \subseteq forsaken'
    PROVE  Noticed'
BY DEF Noticed, OnlyMoved, Existing

LEMMA NoticedAtCycle ==
    ASSUME SessionAssumption, TypeOK, FiberOK, Noticed, Cycle
    PROVE  Noticed'
<1> USE Shapes
<1>1. CASE BeginCycle \/ ObserveFails \/ FailedCycle \/ PassEnds
  <2>1. UNCHANGED <<desk, parked, forsaken>> /\ fiber.at # "restore"
    BY <1>1 DEF BeginCycle, ObserveFails, FailedCycle, PassEnds, world, watch
  <2> QED BY <2>1 DEF Noticed, Existing
<1>2. CASE ObservePass
  BY <1>2 DEF ObservePass, Noticed, Existing, watch
<1>3. CASE Compensate
  <2> DEFINE m == Last(fiber.made)
  <2>1. m.who \in Managed /\ m.was \in Places
    BY <1>3, LastMade DEF Compensate, Acting
  <2>2. PICK o \in Writes(m.who, 0, m.was) : Written(m.who, o) /\ Unnoted(m.who)
    BY <1>3 DEF Compensate
  <2>3. fiber.at = "compensate" /\ parked' = parked
    BY <1>3 DEF Compensate, world
  <2> HIDE DEF m
  <2>4. OnlyMoved(m.who, m.was)
    BY <2>1, <2>2, WriteMoves
  <2> QED BY <2>1, <2>2, <2>3, <2>4, NoticedAfterMove DEF Unnoted
<1>4. ASSUME NEW x \in Managed, CycleWrite(x) PROVE Noticed'
  <2>1. fiber.at = "act" /\ fiber.due \in Dues /\ fiber.due[x] \in {"admit", "park", "tile", "recover"}
    BY <1>4 DEF CycleWrite, Acting, Dues
  <2> DEFINE to == Target(fiber.due[x])
  <2>2. to \in Places /\ (fiber.due[x] # "park" => to # Corner)
    BY <2>1, TargetPlaces DEF Target, Corner
  <2>3. PICK o \in Writes(x, 0, to) :
           /\ Written(x, o)
           /\ IF Accepted(x, o) THEN IF fiber.due[x] = "park" THEN Noted(x) ELSE Framed(x, o.at)
              ELSE Unnoted(x) /\ UNCHANGED <<observed, member, parked, intent>>
    BY <1>4 DEF CycleWrite
  <2> HIDE DEF to
  <2>4. OnlyMoved(x, to) /\ desk'[x].at = o.at
    BY <2>2, <2>3, WriteMoves
  <2>5. CASE ~Accepted(x, o)
    BY <2>1, <2>3, <2>4, <2>5, NoticedAfterMove DEF Unnoted
  <2>6. CASE Accepted(x, o) /\ fiber.due[x] = "park"
    BY <2>1, <2>3, <2>4, <2>6, NoticedAfterMove DEF Noted
  <2>7. CASE Accepted(x, o) /\ fiber.due[x] # "park"
    <3>1. o.at # Corner
      BY <2>2, <2>7, WriteOutcome DEF Accepted, Corner
    <3> QED BY <2>1, <2>3, <2>4, <2>7, <3>1, NoticedAfterMove DEF Framed
  <2> QED BY <2>5, <2>6, <2>7
<1> QED BY <1>1, <1>2, <1>3, <1>4 DEF Cycle

LEMMA NoticedAtShow ==
    ASSUME TypeOK, Noticed, NEW s \in Spaces, ShowWorkspace(s)
    PROVE  Noticed'
<1> DEFINE leaving == {x \in member : HomeOf[x] = shown}
           parking == {x \in leaving : ~(x \in parked /\ desk[x].at = Corner)}
           coming == {x \in member : HomeOf[x] = s}
           At(x) == IF x \in parking THEN Corner
                    ELSE IF x \in coming \ floating THEN "tile" ELSE desk[x].at
<1>1. /\ desk' = [x \in Managed |-> [desk[x] EXCEPT !.at = At(x)]]
      /\ parked' = (parked \cup parking) \ coming
      /\ forsaken' = (forsaken \ parking) \cup {x \in coming : desk'[x].at = Corner}
      /\ s # shown /\ fiber' = fiber /\ fiber.at = "idle"
  BY DEF ShowWorkspace
<1>2. parking \cap coming = {}
  BY <1>1
<1>3. ASSUME NEW x \in Managed, desk'[x].who # 0, desk'[x].at = Corner
      PROVE  x \in parked' \cup forsaken'
  <2>1. desk'[x].at = At(x) /\ desk'[x].who = desk[x].who
    BY <1>1 DEF TypeOK
  <2>2. CASE x \in parking
    BY <1>1, <1>2, <2>2
  <2>3. CASE x \in coming
    BY <1>1, <1>3, <2>3
  <2>4. CASE x \notin parking /\ x \notin coming
    <3>1. desk[x].at = Corner
      BY <1>3, <2>1, <2>4
    <3>2. x \in parked \cup forsaken
      BY <1>1, <1>3, <2>1, <3>1 DEF Noticed, Existing
    <3> QED BY <1>1, <2>4, <3>2
  <2> QED BY <2>2, <2>3, <2>4
<1> QED BY <1>1, <1>3 DEF Noticed, Existing

\* People and programs that put a window elsewhere leave its note, and the others', alone.
LEMMA OutsideEvents ==
    ASSUME TypeOK, NEW x \in Managed, Drag(x) \/ Destroy(x) \/ Land(x)
    PROVE  /\ UNCHANGED <<parked, fiber, stopping, report>>
           /\ \A y \in Managed \ {x} : desk'[y] = desk[y] /\ (y \in forsaken' <=> y \in forsaken)
           /\ desk'[x].at = Corner => x \in forsaken' \/ (x \in parked /\ stopping = "no")
<1>1. CASE Drag(x)
  BY <1>1 DEF Drag, TypeOK, world, Corner
<1>2. CASE Destroy(x)
  BY <1>2 DEF Destroy, TypeOK, world, Corner
<1>3. CASE Land(x)
  BY <1>3 DEF Land, TypeOK, world
<1> QED BY <1>1, <1>2, <1>3

LEMMA AdmittingSteps ==
    ASSUME FiberOK, NEW x \in Managed, AdmitWrite(x) \/ VerifyOne(x)
    PROVE  fiber'.at \in {"write", "verify", "undo"}
<1> USE Shapes
<1>1. CASE AdmitWrite(x)
  <2>1. fiber.at = "write" /\ fiber \in Admitting
    BY <1>1 DEF AdmitWrite
  <2>2. \/ fiber' = [fiber EXCEPT !.todo = @ \ {x}, !.tried = @ \cup {x}]
        \/ fiber' = Undo(fiber.tried \cup {x}, FALSE)
    BY <1>1 DEF AdmitWrite
  <2>3. fiber' = [fiber EXCEPT !.todo = @ \ {x}, !.tried = @ \cup {x}] => fiber'.at = "write"
    BY <2>1 DEF Admitting
  <2>4. fiber' = Undo(fiber.tried \cup {x}, FALSE) => fiber'.at = "undo"
    BY DEF Undo
  <2> QED BY <2>2, <2>3, <2>4
<1>2. CASE VerifyOne(x)
  <2>1. fiber.at = "verify" /\ fiber \in Admitting
    BY <1>2 DEF VerifyOne
  <2>2. fiber' = [fiber EXCEPT !.todo = @ \ {x}] \/ fiber' = Undo(fiber.tried, FALSE)
    BY <1>2 DEF VerifyOne
  <2> QED BY <2>1, <2>2 DEF Undo, Admitting
<1> QED BY <1>1, <1>2

LEMMA NoticedKept ==
    ASSUME SessionAssumption, TypeOK, FiberOK, Uncornered, Noticed, Orderly, [SessionNext]_sessionVars
    PROVE  Noticed'
<1> USE Shapes
<1>1. CASE UNCHANGED sessionVars
  BY <1>1 DEF sessionVars, world, watch, Noticed, Existing
<1>2. ASSUME Early' PROVE Noticed'
  BY <1>2, UncorneredKept DEF Uncornered, Clear, Noticed, Existing
<1>3. CASE Startup
  <2>1. CASE HydrateInitialLayout \/ FirstCycle
    <3>1. Clear /\ desk' = desk
      BY <2>1 DEF HydrateInitialLayout, FirstCycle, Uncornered, Early
    <3> QED BY <3>1 DEF Clear, Noticed, Existing
  <2>2. CASE LoadConfig \/ Adopt \/ BeginVerify \/ CommitGroup \/ EndUndo \/ NextGroup
    BY <1>2, <2>2 DEF LoadConfig, Adopt, BeginVerify, CommitGroup, EndUndo, NextGroup, Early, Admission,
       Undo, Decided
  <2>3. ASSUME NEW s \in Spaces, SkipGroup(s) \/ InfeasibleGroup(s) \/ BeginGroup(s)
        PROVE  Noticed'
    <3>1. fiber \in Choosing
      BY <2>3 DEF SkipGroup, InfeasibleGroup, BeginGroup, Chosen
    <3> QED BY <1>2, <2>3, <3>1 DEF SkipGroup, InfeasibleGroup, BeginGroup, Early, Admission, Choosing
  <2>4. ASSUME NEW x \in Managed, AdmitWrite(x) \/ VerifyOne(x) PROVE Noticed'
    <3>1. fiber'.at \in {"write", "verify", "undo"}
      BY <2>4, AdmittingSteps
    <3> QED BY <1>2, <3>1 DEF Early
  <2>5. ASSUME NEW x \in Managed, UndoWrite(x) \/ UndoCheck(x) PROVE Noticed'
    <3>1. fiber \in Undoing
      BY <2>5 DEF UndoWrite, UndoCheck
    <3> QED BY <1>2, <2>5, <3>1 DEF UndoWrite, UndoCheck, Early, Undoing
  <2> QED BY <1>3, <2>1, <2>2, <2>3, <2>4, <2>5 DEF Startup
<1>4. CASE Cycle
  BY <1>4, NoticedAtCycle
<1>5. CASE LoadAgain \/ StoreFails \/ StoreSpeaks \/ StopEngine
  BY <1>5 DEF LoadAgain, StoreFails, StoreSpeaks, StopEngine, world, watch, Noticed, Existing
<1>6. ASSUME NEW s \in Spaces, ShowWorkspace(s) PROVE Noticed'
  BY <1>6, NoticedAtShow
<1>7. ASSUME NEW x \in Managed, Float(x) PROVE Noticed'
  BY <1>7 DEF Float, Noticed, Existing
<1>8. ASSUME NEW x \in Managed, Drag(x) \/ Destroy(x) \/ Land(x) PROVE Noticed'
  BY <1>8, OutsideEvents DEF Noticed, Existing
<1>9. CASE InterruptFiber \/ Stopped \/ \E x \in Managed : Restore(x)
  <2>1. fiber'.at = "restore"
    BY <1>9 DEF InterruptFiber, Stopped, Restore, Restoring
  <2> QED BY <2>1 DEF Noticed
<1>10. CASE InterruptAdmission
  <2>1. \E tried : fiber' = Undo(tried, FALSE)
    BY <1>10 DEF InterruptAdmission
  <2> QED BY <1>2, <2>1 DEF Early, Undo
<1> QED BY <1>1, <1>3, <1>4, <1>5, <1>6, <1>7, <1>8, <1>9, <1>10 DEF SessionNext, Users, Shutdown

\* Only stop() ends in restoration.
LEMMA NeverToRestore ==
    ASSUME FiberOK, Startup \/ Cycle
    PROVE  fiber'.at # "restore"
<1> USE Shapes
<1>1. CASE LoadConfig \/ Adopt \/ HydrateInitialLayout \/ BeginVerify \/ CommitGroup \/ EndUndo \/ NextGroup
           \/ FirstCycle
  BY <1>1 DEF LoadConfig, Adopt, HydrateInitialLayout, BeginVerify, CommitGroup, EndUndo, NextGroup, FirstCycle,
     Admission, Undo, Decided
<1>2. ASSUME NEW s \in Spaces, SkipGroup(s) \/ InfeasibleGroup(s) \/ BeginGroup(s)
      PROVE  fiber'.at # "restore"
  <2>1. fiber \in Choosing
    BY <1>2 DEF SkipGroup, InfeasibleGroup, BeginGroup, Chosen
  <2> QED BY <1>2, <2>1 DEF SkipGroup, InfeasibleGroup, BeginGroup, Admission, Choosing
<1>3. ASSUME NEW x \in Managed, AdmitWrite(x) \/ VerifyOne(x) PROVE fiber'.at # "restore"
  BY <1>3, AdmittingSteps
<1>4. ASSUME NEW x \in Managed, UndoWrite(x) \/ UndoCheck(x) PROVE fiber'.at # "restore"
  <2>1. fiber \in Undoing
    BY <1>4 DEF UndoWrite, UndoCheck
  <2> QED BY <1>4, <2>1 DEF UndoWrite, UndoCheck, Undoing
<1>5. CASE BeginCycle \/ ObservePass \/ ObserveFails \/ FailedCycle \/ PassEnds
  BY <1>5 DEF BeginCycle, ObservePass, ObserveFails, FailedCycle, PassEnds, CycleOver
<1>6. CASE Compensate
  BY <1>6 DEF Compensate, Acting
<1>7. ASSUME NEW x \in Managed, CycleWrite(x) PROVE fiber'.at # "restore"
  BY <1>7 DEF CycleWrite, Acting
<1> QED BY <1>1, <1>2, <1>3, <1>4, <1>5, <1>6, <1>7 DEF Startup, Cycle

LEMMA RestoredKept ==
    ASSUME SessionAssumption, TypeOK, FiberOK, Noticed, Restored, [SessionNext]_sessionVars
    PROVE  Restored'
<1> USE Shapes
<1>1. CASE UNCHANGED sessionVars
  BY <1>1 DEF sessionVars, world, watch, Restored, Existing
<1>2. ASSUME fiber'.at # "restore", fiber.at # "restore", stopping' \in {stopping, "closing"}
      PROVE  Restored'
  BY <1>2 DEF Restored
<1>3. CASE Startup \/ Cycle
  <2>1. fiber.at # "restore" /\ stopping' = stopping
    BY <1>3 DEF Startup, LoadConfig, Adopt, HydrateInitialLayout, BeginVerify, CommitGroup, EndUndo, NextGroup,
       FirstCycle, SkipGroup, InfeasibleGroup, BeginGroup, Chosen, AdmitWrite, VerifyOne, UndoWrite, UndoCheck,
       Cycle, BeginCycle, ObservePass, ObserveFails, Compensate, FailedCycle, PassEnds, CycleWrite
  <2>2. fiber'.at # "restore"
    BY <1>3, NeverToRestore
  <2> QED BY <1>2, <2>1, <2>2
<1>4. CASE \/ LoadAgain \/ StoreFails \/ StoreSpeaks \/ (\E s \in Spaces : ShowWorkspace(s))
           \/ \E x \in Managed : Float(x)
  <2>1. stopping' = stopping /\ fiber' = fiber /\ (stopping = "no" \/ fiber.at # "restore")
    BY <1>4 DEF LoadAgain, StoreFails, StoreSpeaks, ShowWorkspace, Float
  <2> QED BY <2>1 DEF Restored
<1>5. ASSUME NEW x \in Managed, Drag(x) \/ Destroy(x) \/ Land(x) PROVE Restored'
  BY <1>5, OutsideEvents DEF Restored, Existing
<1>6. CASE StopEngine
  BY <1>6 DEF StopEngine, Restored
<1>7. CASE InterruptFiber
  <2>1. fiber.at # "restore" /\ fiber' = [at |-> "restore", left |-> parked] /\ stopping = "closing"
        /\ stopping' = stopping /\ InFlight(Abandoned)
    BY <1>7 DEF InterruptFiber
  <2>2. \A x \in Existing : desk[x].at = Corner => x \in parked \cup forsaken
    BY <2>1 DEF Noticed
  <2>3. \A x \in Existing' : desk'[x].at = Corner => x \in parked \cup forsaken'
    <3>1. CASE UNCHANGED <<desk, late, forsaken>>
      BY <2>2, <3>1 DEF Existing
    <3>2. ASSUME NEW w \in Abandoned, OnlyMoved(w.who, w.to),
                 forsaken' = IF w.to = Corner /\ w.who \notin parked THEN forsaken \cup {w.who} ELSE forsaken
          PROVE  \A x \in Existing' : desk'[x].at = Corner => x \in parked \cup forsaken'
      BY <2>2, <3>2 DEF OnlyMoved, Existing, Corner
    <3>3. UNCHANGED <<desk, late, forsaken>> \/ \E w \in Abandoned :
                /\ OnlyMoved(w.who, w.to)
                /\ forsaken' = IF w.to = Corner /\ w.who \notin parked THEN forsaken \cup {w.who} ELSE forsaken
      BY <2>1, AbandonedTypes, FlightMoves
    <3> QED BY <3>1, <3>2, <3>3 DEF OnlyMoved
  <2> QED BY <2>1, <2>3 DEF Restored, Existing
<1>8. CASE InterruptAdmission
  <2>1. \E tried : fiber' = Undo(tried, FALSE)
    BY <1>8 DEF InterruptAdmission
  <2> QED BY <1>2, <1>8, <2>1 DEF InterruptAdmission, Undo
<1>9. ASSUME NEW x \in Managed, Restore(x) PROVE Restored'
  <2>1. fiber \in Restoring /\ x \in fiber.left /\ UNCHANGED <<stopping, forsaken>> /\ stopping = "closing"
    BY <1>9 DEF Restore, watch, Restored, TypeOK
  <2>2. fiber'.at = "restore" /\ fiber'.left = fiber.left \ {x}
    BY <1>9, <2>1 DEF Restore, Restoring
  <2>3. \A y \in Managed \ {x} : desk'[y] = desk[y] /\ report'[y] = report[y]
    <3>1. CASE x \notin Known
      BY <1>9, <3>1 DEF Restore, TypeOK
    <3>2. CASE x \in Known
      BY <1>9, <3>2 DEF Restore, Written, TypeOK
    <3> QED BY <3>1, <3>2
  <2>4. desk'[x].at = Corner => report'[x] = "failed"
    <3>1. CASE x \notin Known
      BY <1>9, <3>1 DEF Restore, TypeOK
    <3>2. CASE x \in Known
      <4>1. PICK o \in Writes(x, observed[x].who, Place(x)) :
               /\ Written(x, o)
               /\ report' = [report EXCEPT ![x] = IF o.answer = "done" /\ Visible(o.at) THEN "ok" ELSE "failed"]
        BY <1>9, <3>2 DEF Restore
      <4>2. desk'[x].at = o.at
        BY <4>1, PlaceType, WriteMoves
      <4> QED BY <4>1, <4>2 DEF Visible, TypeOK
    <3> QED BY <3>1, <3>2
  <2> QED BY <2>1, <2>2, <2>3, <2>4 DEF Restored, Restoring, Existing
<1>10. CASE Stopped
  BY <1>10 DEF Stopped, world, watch, Restored, Existing
<1> QED BY <1>1, <1>3, <1>4, <1>5, <1>6, <1>7, <1>8, <1>9, <1>10 DEF SessionNext, Users, Shutdown

-----------------------------------------------------------------------------
(* Theorems.                                                               *)

LEMMA InitInv ==
    ASSUME SessionAssumption, SessionInit
    PROVE  IInv
<1>1. TypeOK
  BY DEF SessionInit, SessionAssumption, TypeOK, Places
<1>2. FiberOK
  BY DEF SessionInit, FiberOK, Resting
<1>3. Uncornered
  BY DEF SessionInit, Uncornered, Early, Clear, Corner
<1>4. Orderly /\ DegradedLasts
  BY DEF SessionInit, Orderly, Awaiting, Tried, PutBack, AdmissionIsWhole, DegradedLasts
<1>5. Noticed /\ Restored
  BY DEF SessionInit, Noticed, Restored, Corner, Existing
<1> QED BY <1>1, <1>2, <1>3, <1>4, <1>5 DEF IInv

\* Whatever startup, cycles, commands, people and stop() do in whatever order.
THEOREM SessionInvariant == SessionSpec => []IInv
<1>1. SessionInit => IInv
  BY InitInv, SessionAssumption
<1>2. IInv /\ [SessionNext]_sessionVars => IInv'
  BY SessionAssumption, TypesKept, UncorneredKept, OrderlyKept, HealthKept, NoticedKept, RestoredKept DEF IInv
<1> QED BY <1>1, <1>2, PTL DEF SessionSpec

\* Every variable of a session keeps its type.
THEOREM SessionTypes == SessionSpec => []TypeOK
<1>1. IInv => TypeOK
  BY DEF IInv
<1> QED BY <1>1, SessionInvariant, PTL

\* Startup's admission of a group (preserveOrdinaryStartup) ends with all of its windows
\* in their tiles, or with those it moved where they were or on record as lost.
THEOREM StartupIsWhole == SessionSpec => []AdmissionIsWhole
<1>1. IInv => AdmissionIsWhole
  BY DEF IInv, Orderly
<1> QED BY <1>1, SessionInvariant, PTL

\* No cycle that converges hides what went wrong for good (runConvergentCycle, setHealth).
THEOREM HealthTellsTheTruth == SessionSpec => []DegradedLasts
<1>1. IInv => DegradedLasts
  BY DEF IInv
<1> QED BY <1>1, SessionInvariant, PTL

\* Startup admits a group whole or puts it back, or what went wrong stays in health
\* (preserveOrdinaryStartup, setHealth).
THEOREM StartupIsHonest == SessionSpec => []WholeOrOnRecord
<1>1. AdmissionIsWhole /\ DegradedLasts => WholeOrOnRecord
  BY DEF WholeOrOnRecord
<1> QED BY <1>1, StartupIsWhole, HealthTellsTheTruth, PTL

\* When stop() is done no window that the engine has a note of is left in its corner
\* without being reported (restoreParkedWindows).
THEOREM NobodyIsLeft == SessionSpec => []NobodyLeftBehind
<1>1. IInv => NobodyLeftBehind
  BY DEF IInv, Restored, NobodyLeftBehind, Visible
<1> QED BY <1>1, SessionInvariant, PTL
=============================================================================
