-------------------------- MODULE WorkspacesProofs --------------------------
(***************************************************************************)
(* Proofs about Workspaces for any windows, displays and workspaces, any   *)
(* number of passes and any budget.                                        *)
(*                                                                         *)
(* WorldIsConsistent is inductive only together with what rules it out for *)
(* the three sources of a new world: a plan made by the rules a while ago  *)
(* inserts into workspaces that still exist, so that nothing is created    *)
(* beside a display's; a tomb names a workspace that exists; and a draft   *)
(* is as consistent as the world and knows every workspace of it, for      *)
(* nothing is created while a compound command holds the gate.             *)
(*                                                                         *)
(* That a remembered window returns needs that the plan keeps its promise: *)
(* who is to be inserted goes to one place, however often it is planned,   *)
(* has no other home until then, and no other tomb, whoever is removed     *)
(* beside the plan.                                                        *)
(***************************************************************************)
EXTENDS Workspaces, SequenceTheorems, FiniteSetTheorems, WellFoundedInduction, TLAPS

\* A workspace's record and the world's have the fields they should.
SpaceShape(s) ==
    /\ s = [known |-> s.known, mode |-> s.mode, tiled |-> s.tiled, floating |-> s.floating,
            parked |-> s.parked, visible |-> s.visible, pinned |-> s.pinned]
    /\ s.known \in BOOLEAN

WorldShape(w) ==
    /\ w = [windows |-> w.windows, displays |-> w.displays, focused |-> w.focused,
            spaces |-> w.spaces]
    /\ w.spaces = [n \in Names |-> w.spaces[n]]
    /\ \A n \in Names : SpaceShape(w.spaces[n])
    /\ DOMAIN w.windows \subseteq Windows

\* Every window has one home, in one role.
Homed(w) ==
    /\ \A n, m \in Names, x \in Windows :
          x \in Members(w.spaces[n]) /\ x \in Members(w.spaces[m]) => n = m
    /\ \A n \in Names, x \in Windows : ~(x \in w.spaces[n].tiled /\ x \in w.spaces[n].floating)

\* Every display shows one workspace, apart from those in N.
Apart(w, N) ==
    \A n, m \in Names \ N : n # m /\ w.spaces[n].visible = w.spaces[m].visible
                               => w.spaces[n].visible = None

\* A workspace that does not exist has no windows, and the focused one exists.
Known(w, n) == n \in Names /\ w.spaces[n].known

Existing(w) ==
    /\ \A n \in Names : ~w.spaces[n].known => Members(w.spaces[n]) = {}
    /\ Known(w, w.focused)

Sane(w) == WorldShape(w) /\ Homed(w) /\ Apart(w, {}) /\ Existing(w)

\* What a plan does with workspaces, it does with those that exist, and a window that is
\* no dialog is inserted where dest leads.
Sound(a, w, dest) ==
    /\ a.kind \in {"insert", "reveal", "uncover", "parkOne"} => Known(w, a.space)
    /\ a.kind = "park" => a.space \in Names
    /\ a.kind = "insert" /\ ClassOf[a.win] # "transient" =>
          a.win \in DOMAIN dest /\ a.space = dest[a.win]

Planned(p, w, dest) ==
    /\ p \in Seq({p[i] : i \in DOMAIN p})
    /\ \A i \in DOMAIN p : Sound(p[i], w, dest)

\* Nobody to be inserted has another home, in the world or in memory.
Promised(dest) ==
    /\ DOMAIN dest \subseteq {x \in Windows : ClassOf[x] # "transient"}
    /\ \A x \in DOMAIN dest :
          /\ Homes(world, x) \subseteq {dest[x]}
          /\ x \in DOMAIN tombs => tombs[x].space = dest[x]

Directed == \E dest : Planned(plan, world, dest) /\ Promised(dest)

Remembered == \A x \in DOMAIN tombs : Known(world, tombs[x].space)

\* Only commands without the gate run beside a draft, and they create no workspace.
Drafted ==
    draft # None =>
        /\ stage = "idle"
        /\ Sane(draft.world)
        /\ \A n \in Names : Known(world, n) => Known(draft.world, n)

Consistent ==
    /\ Sane(world) /\ Directed /\ Remembered /\ Drafted /\ live \subseteq Windows
    /\ stage # "apply" => plan = <<>>

-----------------------------------------------------------------------------
(***************************************************************************)
(* Sets and sequences.                                                     *)
(***************************************************************************)

LEMMA Least ==
    ASSUME NEW T \in SUBSET Nat, T # {}
    PROVE  \E x \in T : \A y \in T : x <= y
<1>1. IsWellFoundedOn(OpToRel(<, Nat), Nat)
  BY NatLessThanWellFounded
<1> DEFINE R == OpToRel(<, Nat)
<1>2. \A x, y \in Nat : y < x => <<y, x>> \in R
  BY DEF OpToRel
<1> HIDE DEF R
<1>3. IsWellFoundedOn(R, Nat)
  BY <1>1 DEF R
<1>4. PICK x \in T : \A y \in T : ~ (<<y, x>> \in R)
  BY <1>3, WFMin
<1>5. \A y \in T : ~ (y < x)
  BY <1>2, <1>4
<1>6. \A y \in T : x <= y
  BY <1>5
<1> QED BY <1>6

\* Of the subsets of a finite set that satisfy something, one is largest.
LEMMA Largest ==
    ASSUME NEW C, IsFiniteSet(C), NEW F \in SUBSET (SUBSET C), F # {}
    PROVE  \E S \in F : \A T \in F : Cardinality(T) <= Cardinality(S)
<1> DEFINE N == {Cardinality(C) - Cardinality(S) : S \in F}
<1>1. \A S \in F : Cardinality(S) \in Nat /\ Cardinality(S) <= Cardinality(C) /\ Cardinality(C) \in Nat
  BY FS_Subset, FS_CardinalityType
<1>2. N \in SUBSET Nat /\ N # {}
  BY <1>1
<1> HIDE DEF N
<1>3. PICK m \in N : \A y \in N : m <= y
  BY <1>2, Least
<1>4. PICK S \in F : m = Cardinality(C) - Cardinality(S)
  BY <1>3 DEF N
<1>5. ASSUME NEW T \in F PROVE Cardinality(T) <= Cardinality(S)
  <2>1. Cardinality(C) - Cardinality(T) \in N
    BY DEF N
  <2> QED BY <1>1, <1>3, <1>4, <2>1
<1> QED BY <1>5

LEMMA Listed ==
    ASSUME NEW S, IsFiniteSet(S)
    PROVE  SetToSeq(S) \in Seq(S)
<1>1. Cardinality(S) \in Nat /\ ExistsBijection(1..Cardinality(S), S)
  BY FS_CardinalityType
<1>2. \E f \in [1..Cardinality(S) -> S] : IsInjective(f)
  BY <1>1 DEF ExistsBijection, Bijection, Injection
<1>3. SetToSeq(S) \in [1..Cardinality(S) -> S]
  BY <1>2 DEF SetToSeq
<1> QED BY <1>1, <1>3, SeqDef

\* A sequence written as a function.
LEMMA Indexed ==
    ASSUME NEW n \in Nat, NEW p, p = [i \in 1..n |-> p[i]]
    PROVE  p \in Seq({p[i] : i \in 1..n}) /\ Len(p) = n /\ DOMAIN p = 1..n
<1> DEFINE S == {p[i] : i \in 1..n}
<1>1. p \in [1..n -> S]
  OBVIOUS
<1> HIDE DEF S
<1>2. p \in Seq(S)
  BY <1>1, SeqDef
<1>3. DOMAIN p = 1..n /\ DOMAIN p = 1..Len(p) /\ Len(p) \in Nat
  BY <1>1, <1>2, LenProperties
<1>4. Len(p) = n
  BY <1>3
<1> QED BY <1>2, <1>3, <1>4 DEF S

-----------------------------------------------------------------------------
(***************************************************************************)
(* Plans.                                                                  *)
(***************************************************************************)

LEMMA SoundPlan ==
    ASSUME NEW w, NEW dest, NEW S, NEW p \in Seq(S), \A a \in S : Sound(a, w, dest)
    PROVE  Planned(p, w, dest)
<1>1. Len(p) \in Nat /\ p \in [1..Len(p) -> S] /\ DOMAIN p = 1..Len(p)
  BY LenProperties
<1>2. p = [i \in 1..Len(p) |-> p[i]] /\ \A i \in 1..Len(p) : p[i] \in S
  BY <1>1
<1>3. p \in Seq({p[i] : i \in 1..Len(p)})
  BY <1>1, <1>2, Indexed
<1> QED BY <1>1, <1>2, <1>3 DEF Planned

LEMMA PlannedElements ==
    ASSUME NEW w, NEW dest, NEW p, Planned(p, w, dest)
    PROVE  \E S : p \in Seq(S) /\ \A a \in S : Sound(a, w, dest)
BY DEF Planned

LEMMA PlannedConcat ==
    ASSUME NEW w, NEW dest, NEW p, NEW q, Planned(p, w, dest), Planned(q, w, dest)
    PROVE  Planned(p \o q, w, dest)
<1>1. PICK S : p \in Seq(S) /\ \A a \in S : Sound(a, w, dest)
  BY PlannedElements
<1>2. PICK T : q \in Seq(T) /\ \A a \in T : Sound(a, w, dest)
  BY PlannedElements
<1>3. p \in Seq(S \cup T) /\ q \in Seq(S \cup T)
  BY <1>1, <1>2, SeqMonotonic
<1>4. p \o q \in Seq(S \cup T)
  BY <1>3, ConcatProperties
<1>5. \A a \in S \cup T : Sound(a, w, dest)
  BY <1>1, <1>2
<1> QED BY <1>4, <1>5, SoundPlan

LEMMA PlannedTail ==
    ASSUME NEW w, NEW dest, NEW p, Planned(p, w, dest), p # <<>>
    PROVE  Planned(Tail(p), w, dest) /\ Sound(Head(p), w, dest)
<1>1. PICK S : p \in Seq(S) /\ \A a \in S : Sound(a, w, dest)
  BY PlannedElements
<1>2. Tail(p) \in Seq(S) /\ Head(p) \in S
  BY <1>1, HeadTailProperties
<1> QED BY <1>1, <1>2, SoundPlan

LEMMA PlannedEmpty == ASSUME NEW w, NEW dest PROVE Planned(<<>>, w, dest)
<1> DEFINE S == {}
           p == <<>>
<1>1. p \in Seq(S)
  BY EmptySeq
<1>2. \A a \in S : Sound(a, w, dest)
  OBVIOUS
<1> HIDE DEF p, S
<1>3. Planned(p, w, dest)
  BY <1>1, <1>2, SoundPlan
<1> QED BY <1>3 DEF p

LEMMA PlannedOne ==
    ASSUME NEW w, NEW dest, NEW a, Sound(a, w, dest)
    PROVE  Planned(<<a>>, w, dest)
<1> DEFINE S == {a}
           p == <<a>>
<1>1. p \in Seq(S)
  OBVIOUS
<1>2. \A b \in S : Sound(b, w, dest)
  OBVIOUS
<1> HIDE DEF p, S
<1>3. Planned(p, w, dest)
  BY <1>1, <1>2, SoundPlan
<1> QED BY <1>3 DEF p

\* No workspace disappears: a plan stays sound.
LEMMA PlannedStays ==
    ASSUME NEW w, NEW dest, NEW v, NEW p, Planned(p, w, dest), \A n \in Names : Known(w, n) => Known(v, n)
    PROVE  Planned(p, v, dest)
<1>1. \A a : Sound(a, w, dest) => Sound(a, v, dest)
  BY DEF Sound, Known
<1> QED BY <1>1 DEF Planned

\* Each(S, Action), whatever the action.
LEMMA PlannedEach ==
    ASSUME NEW w, NEW dest, NEW S, IsFiniteSet(S), NEW p,
           p = [i \in 1..Len(SetToSeq(S)) |-> p[i]],
           \A i \in 1..Len(SetToSeq(S)) : SetToSeq(S)[i] \in S => Sound(p[i], w, dest)
    PROVE  Planned(p, w, dest)
<1> DEFINE q == SetToSeq(S)
<1>1. q \in Seq(S) /\ Len(q) \in Nat /\ DOMAIN q = 1..Len(q)
  BY Listed, LenProperties
<1>2. \A i \in 1..Len(q) : q[i] \in S
  BY <1>1, ElementOfSeq
<1>3. \A i \in 1..Len(q) : Sound(p[i], w, dest)
  BY <1>2
<1> DEFINE T == {p[i] : i \in 1..Len(q)}
<1>4. p \in Seq(T)
  BY <1>1, Indexed
<1>5. \A a \in T : Sound(a, w, dest)
  BY <1>3
<1> HIDE DEF T
<1> QED BY <1>4, <1>5, SoundPlan

-----------------------------------------------------------------------------
(***************************************************************************)
(* What each rule plans.                                                   *)
(***************************************************************************)

\* The rules look at the windows that were just read, and at tombs of workspaces that
\* exist.
Ready(w, ts) ==
    /\ WorldShape(w) /\ Existing(w)
    /\ \A x \in DOMAIN ts : Known(w, ts[x].space)

\* Where the windows without a home are to go.
Ahead(w, ts) ==
    [x \in {y \in Homeless(w) : ClassOf[y] # "transient"} |->
        IF x \in DOMAIN ts THEN ts[x].space ELSE Target(w, x)]

LEMMA Finite ==
    /\ \A S : S \subseteq Windows => IsFiniteSet(S)
    /\ \A S : S \subseteq Names => IsFiniteSet(S)
    /\ \A S : S \subseteq Names \X Windows => IsFiniteSet(S)
  BY WorkspacesAssumption, FS_Subset, FS_Product

LEMMA PrunePlan == ASSUME NEW w, NEW dest PROVE Planned(PruneDeadMembership(w), w, dest)
<1> DEFINE S == {x \in Windows \ DOMAIN w.windows : Homes(w, x) # {}}
           p == PruneDeadMembership(w)
<1>1. IsFiniteSet(S)
  BY Finite
<1>2. p = [i \in 1..Len(SetToSeq(S)) |-> RemoveWindow(SetToSeq(S)[i])]
  BY DEF PruneDeadMembership, Each
<1> HIDE DEF S, p
<1>3. \A i \in 1..Len(SetToSeq(S)) : Sound(p[i], w, dest)
  BY <1>2 DEF RemoveWindow, Sound
<1>4. p = [i \in 1..Len(SetToSeq(S)) |-> p[i]]
  BY <1>2
<1>5. Planned(p, w, dest)
  BY <1>1, <1>3, <1>4, PlannedEach
<1> QED BY <1>5 DEF p

LEMMA RestorePlan ==
    ASSUME NEW w, NEW ts, Ready(w, ts), NEW dest, dest = Ahead(w, ts)
    PROVE  Planned(RestoreMembership(w, ts), w, dest)
<1> DEFINE S == DOMAIN ts \cap Homeless(w)
           p == RestoreMembership(w, ts)
<1>1. IsFiniteSet(S)
  BY Finite DEF Homeless, Ready, WorldShape
<1>2. p = [i \in 1..Len(SetToSeq(S)) |->
              InsertWindow(SetToSeq(S)[i], ts[SetToSeq(S)[i]].space, ts[SetToSeq(S)[i]].floating)]
  BY DEF RestoreMembership, Each
<1>3. \A x \in S : Known(w, ts[x].space)
  BY DEF Ready
<1>d. \A x \in S : ClassOf[x] # "transient" => x \in DOMAIN dest /\ dest[x] = ts[x].space
  BY DEF Ahead
<1> HIDE DEF S, p
<1>4. \A i \in 1..Len(SetToSeq(S)) : SetToSeq(S)[i] \in S => Sound(p[i], w, dest)
  BY <1>2, <1>3, <1>d DEF InsertWindow, Sound
<1>5. p = [i \in 1..Len(SetToSeq(S)) |-> p[i]]
  BY <1>2
<1>6. Planned(p, w, dest)
  BY <1>1, <1>4, <1>5, PlannedEach
<1> QED BY <1>6 DEF p

LEMMA TargetExists ==
    ASSUME NEW w, Existing(w), NEW x \in Windows
    PROVE  Known(w, Target(w, x))
BY WorkspacesAssumption DEF Existing, Target, Known

LEMMA AssignPlan ==
    ASSUME NEW w, NEW ts, Ready(w, ts), NEW dest, dest = Ahead(w, ts)
    PROVE  Planned(AssignNewWindows(w, ts), w, dest)
<1> DEFINE candidates == {x \in Homeless(w) \ DOMAIN ts : ~Ignored(x) /\ ClassOf[x] # "transient"}
           host(x) == Host(w, Target(w, x))
           among(S, x) == w.spaces[Target(w, x)].tiled \cup {y \in S : Target(w, y) = Target(w, x)}
           fitting == {S \in SUBSET candidates : \A x \in S : Fits(host(x), among(S, x))}
           most == CHOOSE S \in fitting : \A T \in fitting : Cardinality(T) <= Cardinality(S)
           order == SetToSeq(most)
           earlier(i) == {order[k] : k \in 1..i}
           p == AssignNewWindows(w, ts)
           n == 2 * Len(order)
           index(k) == (k + 1) \div 2
<1>1. candidates \subseteq Windows /\ IsFiniteSet(candidates)
  BY Finite DEF Homeless, Ready, WorldShape
<1>2. fitting \in SUBSET (SUBSET candidates) /\ fitting # {}
  <2>1. {} \in fitting
    OBVIOUS
  <2> QED BY <2>1
<1>3. p = [k \in 1..n |->
              IF k % 2 = 1
              THEN SetFrame(order[index(k)], Tile(host(order[index(k)]), among(earlier(index(k)), order[index(k)])))
              ELSE InsertWindow(order[index(k)], Target(w, order[index(k)]), FALSE)]
  BY DEF AssignNewWindows
<1>4. most \in fitting
  <2> HIDE DEF fitting, candidates
  <2>1. \E S \in fitting : \A T \in fitting : Cardinality(T) <= Cardinality(S)
    BY <1>1, <1>2, Largest
  <2> QED BY <2>1
<1>5. most \subseteq Windows
  BY <1>1, <1>4
<1>d. \A x \in most : x \in DOMAIN dest /\ dest[x] = Target(w, x)
  <2>1. \A x \in candidates : x \in DOMAIN dest /\ dest[x] = Target(w, x)
    BY DEF Ahead
  <2> HIDE DEF candidates
  <2> QED BY <1>4, <2>1
<1> HIDE DEF most
<1>6. order \in Seq(most) /\ Len(order) \in Nat
  BY <1>5, Finite, Listed, LenProperties
<1> HIDE DEF order
<1>7. \A k \in 1..n : index(k) \in 1..Len(order)
  BY <1>6, SMT
<1> HIDE DEF index
<1>8. \A k \in 1..n : Known(w, Target(w, order[index(k)]))
  <2> SUFFICES ASSUME NEW k \in 1..n PROVE Known(w, Target(w, order[index(k)]))
    OBVIOUS
  <2>1. order[index(k)] \in Windows
    BY <1>5, <1>6, <1>7, ElementOfSeq
  <2> QED BY <2>1, TargetExists DEF Ready
<1>g. \A k \in 1..n : /\ order[index(k)] \in DOMAIN dest
                        /\ dest[order[index(k)]] = Target(w, order[index(k)])
  BY <1>d, <1>6, <1>7, ElementOfSeq
<1>9. n \in Nat
  BY <1>6
<1> HIDE DEF n, p, among, host, earlier
<1>10. \A k \in 1..n : Sound(p[k], w, dest)
  <2> SUFFICES ASSUME NEW k \in 1..n PROVE Sound(p[k], w, dest)
    OBVIOUS
  <2> DEFINE move == SetFrame(order[index(k)], Tile(host(order[index(k)]), among(earlier(index(k)), order[index(k)])))
             insert == InsertWindow(order[index(k)], Target(w, order[index(k)]), FALSE)
  <2>1. p[k] = IF k % 2 = 1 THEN move ELSE insert
    BY <1>3
  <2>2. Sound(move, w, dest)
    BY DEF SetFrame, Sound
  <2>3. Sound(insert, w, dest)
    BY <1>8, <1>g DEF InsertWindow, Sound
  <2> HIDE DEF move, insert
  <2> QED BY <2>1, <2>2, <2>3
<1>11. p = [k \in 1..n |-> p[k]]
  BY <1>3
<1> DEFINE T == {p[k] : k \in 1..n}
<1>12. p \in Seq(T)
  BY <1>9, <1>11, Indexed
<1>13. \A a \in T : Sound(a, w, dest)
  BY <1>10
<1> HIDE DEF T
<1>14. Planned(p, w, dest)
  BY <1>12, <1>13, SoundPlan
<1> QED BY <1>14 DEF p

\* Where a window is, there is a workspace.
LEMMA HomeExists ==
    ASSUME NEW w, Existing(w), NEW x, NEW n \in Homes(w, x)
    PROVE  Known(w, n)
BY DEF Existing, Homes, Known

LEMMA TransientPlan ==
    ASSUME NEW w, NEW ts, Ready(w, ts), NEW dest
    PROVE  Planned(TransientFollowsParent(w), w, dest)
<1> DEFINE floats(x) == \E n \in Names : x \in w.spaces[n].floating
           parent(x) == IF ParentOf[x] \in DOMAIN w.windows /\ ~floats(ParentOf[x])
                        THEN Homes(w, ParentOf[x]) ELSE {w.focused}
           S == {x \in Homeless(w) : ClassOf[x] = "transient" /\ parent(x) # {}}
           to(x) == CHOOSE n \in parent(x) : TRUE
           p == TransientFollowsParent(w)
<1>1. IsFiniteSet(S)
  BY Finite DEF Homeless, Ready, WorldShape
<1>2. p = [i \in 1..Len(SetToSeq(S)) |-> InsertWindow(SetToSeq(S)[i], to(SetToSeq(S)[i]), TRUE)]
  BY DEF TransientFollowsParent, Each
<1>3. \A x : \A n \in parent(x) : Known(w, n)
  BY HomeExists DEF Ready, Existing
<1> HIDE DEF parent
<1>d. \A x \in S : ClassOf[x] = "transient"
  OBVIOUS
<1>4. \A x \in S : Known(w, to(x))
  BY <1>3
<1> HIDE DEF S, p, to
<1>5. \A i \in 1..Len(SetToSeq(S)) : SetToSeq(S)[i] \in S => Sound(p[i], w, dest)
  BY <1>2, <1>4, <1>d DEF InsertWindow, Sound
<1>6. p = [i \in 1..Len(SetToSeq(S)) |-> p[i]]
  BY <1>2
<1>7. Planned(p, w, dest)
  BY <1>1, <1>5, <1>6, PlannedEach
<1> QED BY <1>7 DEF p

LEMMA TilePlan == ASSUME NEW w, NEW dest PROVE Planned(TileWorkspaces(w), w, dest)
<1> DEFINE S == {q \in Names \X Windows : q[2] \in Untiled(w, q[1])}
           p == TileWorkspaces(w)
           e(q) == SetFrame(q[2], Tile(w.spaces[q[1]].visible, w.spaces[q[1]].tiled))
<1>1. IsFiniteSet(S)
  BY Finite
<1>2. p = [i \in 1..Len(SetToSeq(S)) |-> e(SetToSeq(S)[i])]
  BY DEF TileWorkspaces, InSpaces, Each
<1>3. \A q : Sound(e(q), w, dest)
  BY DEF SetFrame, Sound
<1> HIDE DEF S, p, e
<1>4. \A i \in 1..Len(SetToSeq(S)) : Sound(p[i], w, dest)
  BY <1>2, <1>3
<1>5. p = [i \in 1..Len(SetToSeq(S)) |-> p[i]]
  BY <1>2
<1>6. Planned(p, w, dest)
  BY <1>1, <1>4, <1>5, PlannedEach
<1> QED BY <1>6 DEF p

LEMMA ClampPlan == ASSUME NEW w, NEW dest PROVE Planned(ClampToCapabilities(w), w, dest)
<1> DEFINE selected(n) == {x \in w.spaces[n].tiled \cap DOMAIN w.windows :
                            /\ LaidOut(w, n) /\ ~Fits(w.spaces[n].visible, w.spaces[n].tiled)
                            /\ ~Ignored(x)}
           S == {q \in Names \X Windows : q[2] \in selected(q[1])}
           p == ClampToCapabilities(w)
           e(q) == FloatWindow(q[2])
<1>1. IsFiniteSet(S)
  BY Finite
<1>2. p = [i \in 1..Len(SetToSeq(S)) |-> e(SetToSeq(S)[i])]
  BY DEF ClampToCapabilities, InSpaces, Each
<1>3. \A q : Sound(e(q), w, dest)
  BY DEF FloatWindow, Sound
<1> HIDE DEF S, p, e
<1>4. \A i \in 1..Len(SetToSeq(S)) : Sound(p[i], w, dest)
  BY <1>2, <1>3
<1>5. p = [i \in 1..Len(SetToSeq(S)) |-> p[i]]
  BY <1>2
<1>6. Planned(p, w, dest)
  BY <1>1, <1>4, <1>5, PlannedEach
<1> QED BY <1>6 DEF p

LEMMA ParkPlan == ASSUME NEW w, NEW dest PROVE Planned(ParkInvisibleWorkspaces(w), w, dest)
<1> DEFINE S == {n \in Names \ {w.focused} : w.spaces[n].visible = None /\ NeedsPark(w, n)}
           p == ParkInvisibleWorkspaces(w)
<1>1. IsFiniteSet(S)
  BY Finite
<1>2. p = [i \in 1..Len(SetToSeq(S)) |-> ParkWorkspace(SetToSeq(S)[i])]
  BY DEF ParkInvisibleWorkspaces, Each
<1>3. \A q \in S : Sound(ParkWorkspace(q), w, dest)
  BY DEF ParkWorkspace, Sound
<1> HIDE DEF S, p
<1>4. \A i \in 1..Len(SetToSeq(S)) : SetToSeq(S)[i] \in S => Sound(p[i], w, dest)
  BY <1>2, <1>3
<1>5. p = [i \in 1..Len(SetToSeq(S)) |-> p[i]]
  BY <1>2
<1>6. Planned(p, w, dest)
  BY <1>1, <1>4, <1>5, PlannedEach
<1> QED BY <1>6 DEF p

LEMMA RevealPlan ==
    ASSUME NEW w, Existing(w), NEW dest
    PROVE  Planned(RevealFocusedWorkspace(w), w, dest)
<1> DEFINE a == RevealWorkspace(w.focused, Host(w, w.focused))
<1>1. Sound(a, w, dest)
  BY DEF RevealWorkspace, Sound, Existing
<1>2. RevealFocusedWorkspace(w) \in {<<>>, <<a>>}
  BY DEF RevealFocusedWorkspace
<1> HIDE DEF a
<1> QED BY <1>1, <1>2, PlannedEmpty, PlannedOne

LEMMA RecoverPlan == ASSUME NEW w, NEW dest PROVE Planned(RecoverLostWindows(w), w, dest)
<1> DEFINE selected(n) == {x \in w.spaces[n].floating \cap DOMAIN w.windows :
                            /\ w.spaces[n].visible \in w.displays
                            /\ w.windows[x] = Parked
                            /\ \A m \in Names : x \notin w.spaces[m].parked}
           S == {q \in Names \X Windows : q[2] \in selected(q[1])}
           p == RecoverLostWindows(w)
           e(q) == SetFrame(q[2], Stray)
<1>1. IsFiniteSet(S)
  BY Finite
<1>2. p = [i \in 1..Len(SetToSeq(S)) |-> e(SetToSeq(S)[i])]
  BY DEF RecoverLostWindows, InSpaces, Each
<1>3. \A q : Sound(e(q), w, dest)
  BY DEF SetFrame, Sound
<1> HIDE DEF S, p, e
<1>4. \A i \in 1..Len(SetToSeq(S)) : Sound(p[i], w, dest)
  BY <1>2, <1>3
<1>5. p = [i \in 1..Len(SetToSeq(S)) |-> p[i]]
  BY <1>2
<1>6. Planned(p, w, dest)
  BY <1>1, <1>4, <1>5, PlannedEach
<1> QED BY <1>6 DEF p

LEMMA RulesPlan ==
    ASSUME NEW w, NEW ts, Ready(w, ts), NEW dest, dest = Ahead(w, ts)
    PROVE  Planned(Rules(w, ts), w, dest)
<1>1. Existing(w)
  BY DEF Ready
<1> QED BY <1>1, PrunePlan, RestorePlan, AssignPlan, TransientPlan, TilePlan, ClampPlan, ParkPlan,
           RevealPlan, RecoverPlan, PlannedConcat DEF Rules

-----------------------------------------------------------------------------
(***************************************************************************)
(* What the reducers make of a world.                                      *)
(***************************************************************************)

\* Consistent but for the display of a workspace that is about to be shown.
Nearly(w, n) == WorldShape(w) /\ Homed(w) /\ Apart(w, {n}) /\ Existing(w)

Grows(w, v) == \A n \in Names : Known(w, n) => Known(v, n)

Same(w, v) == \A n \in Names : Known(w, n) <=> Known(v, n)

NoneJoins(w, v) == \A x \in Windows : Homes(v, x) \subseteq Homes(w, x)

LEMMA SaneIsNearly == ASSUME NEW w, NEW n, Sane(w) PROVE Nearly(w, n)
BY DEF Sane, Nearly, Apart

\* A new record of one workspace takes in windows that have no home.
Fitting(s, w, n) ==
    /\ SpaceShape(s) /\ s.known
    /\ \A x \in Windows :
          /\ x \in Members(s) => x \in Members(w.spaces[n]) \/ Homes(w, x) = {}
          /\ ~(x \in s.tiled /\ x \in s.floating)

LEMMA WithFields ==
    ASSUME NEW w, WorldShape(w), NEW n \in Names, NEW s, SpaceShape(s)
    PROVE  /\ WorldShape(With(w, n, s))
           /\ With(w, n, s).windows = w.windows
           /\ With(w, n, s).displays = w.displays
           /\ With(w, n, s).focused = w.focused
           /\ \A m \in Names : With(w, n, s).spaces[m] = IF m = n THEN s ELSE w.spaces[m]
<1> DEFINE v == With(w, n, s)
<1>1. /\ v = [windows |-> w.windows, displays |-> w.displays, focused |-> w.focused,
              spaces |-> v.spaces]
      /\ v.spaces = [w.spaces EXCEPT ![n] = s]
      /\ v.windows = w.windows /\ v.displays = w.displays /\ v.focused = w.focused
  BY DEF With, WorldShape
<1> HIDE DEF v
<1>2. w.spaces = [m \in Names |-> w.spaces[m]]
  BY DEF WorldShape
<1>3. v.spaces = [m \in Names |-> IF m = n THEN s ELSE w.spaces[m]]
  BY <1>1, <1>2
<1>4. \A m \in Names : v.spaces[m] = IF m = n THEN s ELSE w.spaces[m]
  BY <1>3
<1>5. v.spaces = [m \in Names |-> v.spaces[m]]
  BY <1>3
<1>6. \A m \in Names : SpaceShape(v.spaces[m])
  BY <1>4 DEF WorldShape
<1>7. DOMAIN v.windows \subseteq Windows
  BY <1>1 DEF WorldShape
<1>8. WorldShape(v)
  BY <1>1, <1>5, <1>6, <1>7 DEF WorldShape
<1> QED BY <1>1, <1>4, <1>8 DEF v

LEMMA WithNearly ==
    ASSUME NEW w, NEW n \in Names, Nearly(w, n), NEW s, Fitting(s, w, n)
    PROVE  Nearly(With(w, n, s), n) /\ Grows(w, With(w, n, s)) /\ Known(With(w, n, s), n)
<1> DEFINE v == With(w, n, s)
<1>1. SpaceShape(s) /\ WorldShape(w)
  BY DEF Fitting, Nearly
<1>2. /\ WorldShape(v) /\ v.focused = w.focused
      /\ \A m \in Names : v.spaces[m] = IF m = n THEN s ELSE w.spaces[m]
  BY <1>1, WithFields
<1> HIDE DEF v
<1>3. Grows(w, v) /\ Known(v, n)
  BY <1>2 DEF Grows, Known, Fitting
<1>4. Homed(v)
  <2>1. ASSUME NEW k \in Names, NEW m \in Names, NEW x \in Windows,
               x \in Members(v.spaces[k]), x \in Members(v.spaces[m])
        PROVE  k = m
    <3>1. \A j \in Names \ {n} : x \in Members(v.spaces[j]) => j \in Homes(w, x)
      BY <1>2 DEF Homes
    <3>2. x \in Members(v.spaces[n]) => n \in Homes(w, x) \/ Homes(w, x) = {}
      BY <1>2 DEF Fitting, Homes
    <3>3. \A i, j \in Homes(w, x) : i = j
      BY DEF Nearly, Homed, Homes
    <3> QED BY <2>1, <3>1, <3>2, <3>3
  <2>2. \A k \in Names, x \in Windows : ~(x \in v.spaces[k].tiled /\ x \in v.spaces[k].floating)
    BY <1>2 DEF Nearly, Homed, Fitting
  <2> QED BY <2>1, <2>2 DEF Homed
<1>5. Apart(v, {n})
  BY <1>2 DEF Nearly, Apart
<1>6. Existing(v)
  BY <1>2, <1>3 DEF Nearly, Existing, Grows, Known, Fitting
<1> QED BY <1>2, <1>3, <1>4, <1>5, <1>6 DEF Nearly, v

\* It is visible where it was, or nowhere.
LEMMA WithSane ==
    ASSUME NEW w, NEW n \in Names, Sane(w), NEW s, Fitting(s, w, n),
           s.visible \in {w.spaces[n].visible, None}
    PROVE  /\ Sane(With(w, n, s)) /\ Grows(w, With(w, n, s))
           /\ Known(w, n) => Same(w, With(w, n, s))
           /\ \A x : (x \in Members(s) => x \in Members(w.spaces[n])) =>
                        Homes(With(w, n, s), x) \subseteq Homes(w, x)
           /\ \A x : Homes(With(w, n, s), x) \subseteq Homes(w, x) \cup {n}
<1> DEFINE v == With(w, n, s)
<1>1. Nearly(v, n) /\ Grows(w, v)
  BY SaneIsNearly, WithNearly
<1>2. SpaceShape(s) /\ WorldShape(w)
  BY DEF Fitting, Sane
<1>3. \A m \in Names : v.spaces[m] = IF m = n THEN s ELSE w.spaces[m]
  BY <1>2, WithFields
<1> HIDE DEF v
<1>4. Apart(v, {})
  BY <1>3 DEF Apart, Sane
<1>5. Known(w, n) => Same(w, v)
  BY <1>1, <1>3 DEF Same, Known, Grows
<1>6. \A x : (x \in Members(s) => x \in Members(w.spaces[n])) => Homes(v, x) \subseteq Homes(w, x)
  BY <1>3 DEF Homes
<1>7. \A x : Homes(v, x) \subseteq Homes(w, x) \cup {n}
  BY <1>3 DEF Homes
<1> QED BY <1>1, <1>4, <1>5, <1>6, <1>7 DEF Nearly, Sane, v

\* Only what the workspaces are does matter.
LEMMA Reread ==
    ASSUME NEW w, Sane(w), NEW v,
           v = [windows |-> v.windows, displays |-> v.displays, focused |-> v.focused,
                spaces |-> w.spaces],
           DOMAIN v.windows \subseteq Windows, Known(w, v.focused)
    PROVE  Sane(v) /\ Grows(w, v) /\ Grows(v, w)
<1>1. v.spaces = w.spaces
  OBVIOUS
<1>2. WorldShape(v)
  BY <1>1 DEF Sane, WorldShape
<1> QED BY <1>1, <1>2 DEF Sane, Homed, Apart, Existing, Known, Grows

LEMMA NoneIsCreated ==
    ASSUME NEW w, NEW n, Known(w, n)
    PROVE  Ensure(w, n) = w
BY DEF Ensure, Known

LEMMA EmptyShape ==
    ASSUME NEW b \in BOOLEAN, NEW d
    PROVE  /\ SpaceShape([EmptySpace(b) EXCEPT !.visible = d])
           /\ SpaceShape(EmptySpace(b))
           /\ Members([EmptySpace(b) EXCEPT !.visible = d]) = {} /\ Members(EmptySpace(b)) = {}
           /\ [EmptySpace(b) EXCEPT !.visible = d].known = b /\ EmptySpace(b).known = b
           /\ EmptySpace(b).visible = None
           /\ EmptySpace(b).tiled = {} /\ [EmptySpace(b) EXCEPT !.visible = d].tiled = {}
BY DEF EmptySpace, SpaceShape, Members

\* A workspace that is created may share a display, until it is shown.
LEMMA Created ==
    ASSUME NEW w, NEW n \in Names, Nearly(w, n)
    PROVE  Nearly(Ensure(w, n), n) /\ Grows(w, Ensure(w, n)) /\ Known(Ensure(w, n), n)
<1>1. CASE w.spaces[n].known
  <2>1. Known(w, n)
    BY <1>1 DEF Known
  <2>2. Ensure(w, n) = w
    BY <2>1, NoneIsCreated
  <2>3. Grows(w, w)
    BY DEF Grows
  <2> QED BY <2>1, <2>2, <2>3
<1>2. CASE ~w.spaces[n].known
  <2>1. PICK d : Ensure(w, n) = With(w, n, [EmptySpace(TRUE) EXCEPT !.visible = d])
    BY <1>2 DEF Ensure
  <2> DEFINE s == [EmptySpace(TRUE) EXCEPT !.visible = d]
  <2>2. SpaceShape(s) /\ s.known = TRUE /\ Members(s) = {} /\ s.tiled = {}
    BY EmptyShape
  <2> HIDE DEF s
  <2>3. Fitting(s, w, n)
    BY <2>2 DEF Fitting
  <2>4. Nearly(With(w, n, s), n) /\ Grows(w, With(w, n, s)) /\ Known(With(w, n, s), n)
    BY <2>3, WithNearly
  <2> QED BY <2>1, <2>4 DEF s
<1> QED BY <1>1, <1>2

-----------------------------------------------------------------------------
\* The record of a workspace with other windows, or shown elsewhere.
LEMMA SpaceFields ==
    ASSUME NEW s, SpaceShape(s), NEW x, NEW v
    PROVE  /\ [s EXCEPT !.tiled = @ \cup {x}] =
                 [known |-> s.known, mode |-> s.mode, tiled |-> s.tiled \cup {x}, floating |-> s.floating,
                  parked |-> s.parked, visible |-> s.visible, pinned |-> s.pinned]
           /\ [s EXCEPT !.floating = @ \cup {x}] =
                 [known |-> s.known, mode |-> s.mode, tiled |-> s.tiled, floating |-> s.floating \cup {x},
                  parked |-> s.parked, visible |-> s.visible, pinned |-> s.pinned]
           /\ Without(s, x) =
                 [known |-> s.known, mode |-> s.mode, tiled |-> s.tiled \ {x}, floating |-> s.floating \ {x},
                  parked |-> s.parked \ {x}, visible |-> s.visible, pinned |-> s.pinned]
           /\ [s EXCEPT !.visible = v] =
                 [known |-> s.known, mode |-> s.mode, tiled |-> s.tiled, floating |-> s.floating,
                  parked |-> s.parked, visible |-> v, pinned |-> s.pinned]
           /\ [s EXCEPT !.parked = v] =
                 [known |-> s.known, mode |-> s.mode, tiled |-> s.tiled, floating |-> s.floating,
                  parked |-> v, visible |-> s.visible, pinned |-> s.pinned]
           /\ [s EXCEPT !.pinned = v] =
                 [known |-> s.known, mode |-> s.mode, tiled |-> s.tiled, floating |-> s.floating,
                  parked |-> s.parked, visible |-> s.visible, pinned |-> v]
           /\ [s EXCEPT !.mode = v] =
                 [known |-> s.known, mode |-> v, tiled |-> s.tiled, floating |-> s.floating,
                  parked |-> s.parked, visible |-> s.visible, pinned |-> s.pinned]
<1>1. s = [known |-> s.known, mode |-> s.mode, tiled |-> s.tiled, floating |-> s.floating,
           parked |-> s.parked, visible |-> s.visible, pinned |-> s.pinned]
  BY DEF SpaceShape
<1>2. [s EXCEPT !.tiled = @ \cup {x}] =
           [known |-> s.known, mode |-> s.mode, tiled |-> s.tiled \cup {x}, floating |-> s.floating,
            parked |-> s.parked, visible |-> s.visible, pinned |-> s.pinned]
  BY <1>1
<1>3. [s EXCEPT !.floating = @ \cup {x}] =
           [known |-> s.known, mode |-> s.mode, tiled |-> s.tiled, floating |-> s.floating \cup {x},
            parked |-> s.parked, visible |-> s.visible, pinned |-> s.pinned]
  BY <1>1
<1>4. Without(s, x) =
           [known |-> s.known, mode |-> s.mode, tiled |-> s.tiled \ {x}, floating |-> s.floating \ {x},
            parked |-> s.parked \ {x}, visible |-> s.visible, pinned |-> s.pinned]
  <2> DEFINE a == [s EXCEPT !.tiled = s.tiled \ {x}]
             b == [a EXCEPT !.floating = s.floating \ {x}]
             c == [b EXCEPT !.parked = s.parked \ {x}]
  <2>1. a = [known |-> s.known, mode |-> s.mode, tiled |-> s.tiled \ {x}, floating |-> s.floating,
             parked |-> s.parked, visible |-> s.visible, pinned |-> s.pinned]
    BY <1>1
  <2>2. b = [known |-> s.known, mode |-> s.mode, tiled |-> s.tiled \ {x}, floating |-> s.floating \ {x},
             parked |-> s.parked, visible |-> s.visible, pinned |-> s.pinned]
    <3> HIDE DEF a
    <3> QED BY <2>1
  <2>3. c = [known |-> s.known, mode |-> s.mode, tiled |-> s.tiled \ {x}, floating |-> s.floating \ {x},
             parked |-> s.parked \ {x}, visible |-> s.visible, pinned |-> s.pinned]
    <3> HIDE DEF a, b
    <3> QED BY <2>2
  <2>4. Without(s, x) = c
    BY DEF Without
  <2> QED BY <2>3, <2>4
<1>5. [s EXCEPT !.visible = v] =
           [known |-> s.known, mode |-> s.mode, tiled |-> s.tiled, floating |-> s.floating,
            parked |-> s.parked, visible |-> v, pinned |-> s.pinned]
  BY <1>1
<1>6. [s EXCEPT !.parked = v] =
           [known |-> s.known, mode |-> s.mode, tiled |-> s.tiled, floating |-> s.floating,
            parked |-> v, visible |-> s.visible, pinned |-> s.pinned]
  BY <1>1
<1>7. [s EXCEPT !.pinned = v] =
           [known |-> s.known, mode |-> s.mode, tiled |-> s.tiled, floating |-> s.floating,
            parked |-> s.parked, visible |-> s.visible, pinned |-> v]
  BY <1>1
<1>8. [s EXCEPT !.mode = v] =
           [known |-> s.known, mode |-> v, tiled |-> s.tiled, floating |-> s.floating,
            parked |-> s.parked, visible |-> s.visible, pinned |-> s.pinned]
  BY <1>1
<1> QED BY <1>2, <1>3, <1>4, <1>5, <1>6, <1>7, <1>8

\* A window without a home joins a workspace that exists.
LEMMA Joined ==
    ASSUME NEW w, Sane(w), NEW n, Known(w, n), NEW x, x \in Windows => Homes(w, x) = {},
           NEW b \in BOOLEAN
    PROVE  /\ Sane(Join(w, n, x, b)) /\ Same(w, Join(w, n, x, b))
           /\ \A y \in Windows : Homes(Join(w, n, x, b), y) \subseteq
                                  IF y = x THEN {n} ELSE Homes(w, y)
<1> DEFINE old == w.spaces[n]
           high == [old EXCEPT !.floating = @ \cup {x}]
           low == [old EXCEPT !.tiled = @ \cup {x}]
<1>1. n \in Names /\ old.known /\ SpaceShape(old) /\ WorldShape(w)
  BY DEF Known, Sane, WorldShape
<1>2. Ensure(w, n) = w
  BY NoneIsCreated
<1>3. x \in Windows => x \notin Members(old)
  BY <1>1 DEF Homes
<1>4. /\ \A y \in Windows : ~(y \in old.tiled /\ y \in old.floating)
      /\ \A y \in Windows : y # x /\ y \in Members(high) => y \in Members(old)
      /\ \A y \in Windows : y # x /\ y \in Members(low) => y \in Members(old)
  BY <1>1 DEF Sane, Homed, Members, SpaceShape
<1> HIDE DEF old
<1>0. /\ high = [known |-> old.known, mode |-> old.mode, tiled |-> old.tiled,
                 floating |-> old.floating \cup {x}, parked |-> old.parked,
                 visible |-> old.visible, pinned |-> old.pinned]
      /\ low = [known |-> old.known, mode |-> old.mode, tiled |-> old.tiled \cup {x},
                floating |-> old.floating, parked |-> old.parked,
                visible |-> old.visible, pinned |-> old.pinned]
  BY <1>1, SpaceFields DEF high, low
<1>5. SpaceShape(high) /\ high.known /\ high.visible = old.visible
  BY <1>0, <1>1 DEF SpaceShape
<1>6. SpaceShape(low) /\ low.known /\ low.visible = old.visible
  BY <1>0, <1>1 DEF SpaceShape
<1>7. /\ high.tiled = old.tiled /\ high.floating = old.floating \cup {x}
      /\ low.tiled = old.tiled \cup {x} /\ low.floating = old.floating
  BY <1>1 DEF SpaceShape
<1> HIDE DEF high, low
<1>8. Fitting(high, w, n) /\ Fitting(low, w, n)
  BY <1>3, <1>4, <1>5, <1>6, <1>7 DEF Fitting, Members, old
<1>9. \A r \in {With(w, n, high), With(w, n, low)} :
         /\ Sane(r) /\ Same(w, r)
         /\ \A y : y # x => Homes(r, y) \subseteq Homes(w, y)
         /\ \A y : Homes(r, y) \subseteq Homes(w, y) \cup {n}
  <2>1. \A y : y # x => (y \in Members(high) => y \in Members(old)) /\ (y \in Members(low) => y \in Members(old))
    BY <1>7 DEF Members
  <2> QED BY <1>1, <1>5, <1>6, <1>8, <2>1, WithSane DEF old
<1>10. w.spaces = [m \in Names |-> w.spaces[m]]
  BY <1>1 DEF WorldShape
<1>11. Join(w, n, x, b) \in {With(w, n, high), With(w, n, low)}
  BY <1>1, <1>2, <1>10 DEF Join, With, high, low, old, WorldShape
<1>12. \A y \in Windows : y = x => Homes(w, y) = {}
  OBVIOUS
<1> QED BY <1>9, <1>11, <1>12

\* It leaves the workspace n, and has no home when that was its home.
LEMMA Parted ==
    ASSUME NEW w, Sane(w), NEW n, Known(w, n), NEW x
    PROVE  /\ Sane(With(w, n, Without(w.spaces[n], x)))
           /\ Same(w, With(w, n, Without(w.spaces[n], x)))
           /\ NoneJoins(w, With(w, n, Without(w.spaces[n], x)))
           /\ x \in Windows /\ n \in Homes(w, x) =>
                 Homes(With(w, n, Without(w.spaces[n], x)), x) = {}
<1> DEFINE old == w.spaces[n]
           s == Without(old, x)
           v == With(w, n, s)
<1>1. n \in Names /\ old.known /\ SpaceShape(old) /\ WorldShape(w)
  BY DEF Known, Sane, WorldShape
<1>2. /\ SpaceShape(s) /\ s.known /\ s.visible = old.visible
      /\ s.tiled = old.tiled \ {x} /\ s.floating = old.floating \ {x}
  <2> HIDE DEF old
  <2>1. s = [known |-> old.known, mode |-> old.mode, tiled |-> old.tiled \ {x},
             floating |-> old.floating \ {x}, parked |-> old.parked \ {x},
             visible |-> old.visible, pinned |-> old.pinned]
    BY <1>1, SpaceFields
  <2> QED BY <1>1, <2>1 DEF SpaceShape
<1>3. \A y \in Windows : ~(y \in old.tiled /\ y \in old.floating)
  BY <1>1 DEF Sane, Homed
<1> HIDE DEF s
<1>4. Fitting(s, w, n)
  BY <1>2, <1>3 DEF Fitting, Members
<1>a. \A y : y \in Members(s) => y \in Members(w.spaces[n])
  BY <1>2 DEF Members
<1>5. Sane(v) /\ Same(w, v) /\ NoneJoins(w, v)
  BY <1>1, <1>2, <1>4, <1>a, WithSane DEF NoneJoins
<1>6. \A m \in Names : v.spaces[m] = IF m = n THEN s ELSE w.spaces[m]
  BY <1>1, <1>2, WithFields
<1> HIDE DEF v
<1>7. ASSUME n \in Homes(w, x), x \in Windows PROVE Homes(v, x) = {}
  <2>1. \A m \in Names : m # n => x \notin Members(w.spaces[m])
    BY <1>1, <1>7 DEF Homes, Sane, Homed
  <2>2. x \notin Members(s)
    BY <1>2 DEF Members
  <2> QED BY <1>6, <2>1, <2>2 DEF Homes
<1> QED BY <1>5, <1>7 DEF v, s

LEMMA LeftEverywhere ==
    ASSUME NEW w, Sane(w), NEW x
    PROVE  Sane(Leave(w, x)) /\ Grows(w, Leave(w, x)) /\ Homes(Leave(w, x), x) = {}
<1> DEFINE v == Leave(w, x)
<1>1. WorldShape(w) /\ \A n \in Names : SpaceShape(w.spaces[n])
  BY DEF Sane, WorldShape
<1>2. /\ v = [windows |-> w.windows, displays |-> w.displays, focused |-> w.focused, spaces |-> v.spaces]
      /\ v.spaces = [n \in Names |-> Without(w.spaces[n], x)]
      /\ v.windows = w.windows /\ v.focused = w.focused
  BY <1>1 DEF Leave, WorldShape
<1> HIDE DEF v
<1>3. ASSUME NEW n \in Names
      PROVE  LET s == v.spaces[n] old == w.spaces[n] IN
             /\ SpaceShape(s) /\ s.known = old.known /\ s.visible = old.visible
             /\ s.tiled = old.tiled \ {x} /\ s.floating = old.floating \ {x}
  <2>1. v.spaces[n] = Without(w.spaces[n], x) /\ SpaceShape(w.spaces[n])
    BY <1>1, <1>2
  <2> QED BY <2>1 DEF SpaceShape, Without
<1>4. WorldShape(v)
  BY <1>1, <1>2, <1>3 DEF WorldShape
<1>5. Grows(w, v)
  BY <1>3 DEF Grows, Known
<1>6. \A n \in Names : Members(v.spaces[n]) = Members(w.spaces[n]) \ {x}
  BY <1>3 DEF Members
<1>7. Homed(v)
  BY <1>3, <1>6 DEF Homed, Sane
<1>8. Apart(v, {})
  BY <1>3 DEF Apart, Sane
<1>9. Existing(v)
  BY <1>2, <1>3, <1>6 DEF Existing, Sane, Known
<1>10. Homes(v, x) = {}
  BY <1>6 DEF Homes
<1> QED BY <1>4, <1>5, <1>7, <1>8, <1>9, <1>10 DEF Sane, v

\* n is shown on d instead of the one workspace that is visible there.
LEMMA Shown ==
    ASSUME NEW w, NEW n \in Names, Nearly(w, n), NEW d
    PROVE  Sane(Show(w, n, d)) /\ Grows(w, Show(w, n, d)) /\ NoneJoins(w, Show(w, n, d))
<1> DEFINE v == Show(w, n, d)
           gone == Displaced(w, n, d)
           first == CHOOSE k \in gone : TRUE
           one == {m \in gone : m = first}
<1>1. WorldShape(w) /\ \A m \in Names : SpaceShape(w.spaces[m])
  BY DEF Nearly, WorldShape
<1> DEFINE shown(m) == [w.spaces[m] EXCEPT !.visible =
                            IF m = n THEN d ELSE IF m \in one THEN None ELSE @]
<1>0. v = [w EXCEPT !.spaces = [m \in Names |-> shown(m)]]
  BY DEF Show
<1> HIDE DEF v, shown, one
<1>2. /\ v = [windows |-> w.windows, displays |-> w.displays, focused |-> w.focused, spaces |-> v.spaces]
      /\ v.spaces = [m \in Names |-> shown(m)]
      /\ v.windows = w.windows /\ v.focused = w.focused
  BY <1>0, <1>1 DEF WorldShape
<1> USE DEF one
<1>3. gone # {} => first \in gone
  OBVIOUS
<1> HIDE DEF v, first
<1>4. ASSUME NEW m \in Names
      PROVE  LET s == v.spaces[m] old == w.spaces[m] IN
             /\ SpaceShape(s) /\ s.known = old.known
             /\ s.tiled = old.tiled /\ s.floating = old.floating
             /\ s.visible = IF m = n THEN d ELSE IF m \in one THEN None ELSE old.visible
  <2>1. SpaceShape(w.spaces[m])
    BY <1>1
  <2> HIDE DEF one
  <2>2. v.spaces[m] = [w.spaces[m] EXCEPT !.visible =
                        IF m = n THEN d ELSE IF m \in one THEN None ELSE @]
    BY <1>2 DEF shown
  <2> QED BY <2>1, <2>2 DEF SpaceShape
<1>5. WorldShape(v)
  BY <1>1, <1>2, <1>4 DEF WorldShape
<1>6. Grows(w, v)
  BY <1>4 DEF Grows, Known
<1>7. \A m \in Names : Members(v.spaces[m]) = Members(w.spaces[m])
  BY <1>4 DEF Members
<1>8. Homed(v)
  BY <1>4, <1>7 DEF Homed, Nearly
<1>9. Existing(v)
  BY <1>2, <1>4, <1>7 DEF Existing, Nearly, Known
<1>10. gone = {m \in Names \ {n} : w.spaces[m].visible = d}
  BY DEF Displaced
<1> HIDE DEF gone
<1>11. ASSUME d # None, NEW m \in Names \ {n} PROVE v.spaces[m].visible # d
  <2>1. CASE m \in gone
    <3>1. \A k \in gone : k = m
      BY <1>10, <1>11, <2>1 DEF Nearly, Apart
    <3>2. m \in one
      BY <1>3, <2>1, <3>1
    <3> QED BY <1>4, <1>11, <3>2
  <2>2. CASE m \notin gone
    BY <1>4, <1>10, <1>11, <2>2
  <2> QED BY <2>1, <2>2
<1>12. \A m \in Names \ {n} : v.spaces[m].visible \in {w.spaces[m].visible, None}
  BY <1>4
<1>13. v.spaces[n].visible = d
  BY <1>4
<1>14. Apart(v, {})
  BY <1>11, <1>12, <1>13 DEF Apart, Nearly
<1>15. NoneJoins(w, v)
  BY <1>7 DEF NoneJoins, Homes
<1> QED BY <1>5, <1>6, <1>8, <1>9, <1>14, <1>15 DEF Sane, v

\* Planning a draft's frames changes only what is parked.
LEMMA Stowed ==
    ASSUME NEW w, Sane(w), NEW H, NEW R
    PROVE  Sane(Stow(w, H, R)) /\ Grows(w, Stow(w, H, R))
<1> DEFINE v == Stow(w, H, R)
           p(n) == IF n \in H THEN w.spaces[n].parked \cup {x \in Unparked(w, n) : ~Ignored(x)}
                   ELSE IF n \in R /\ LaidOut(w, n) THEN {} ELSE w.spaces[n].parked
           stowed(n) == [w.spaces[n] EXCEPT !.parked = p(n)]
<1>1. WorldShape(w) /\ \A n \in Names : SpaceShape(w.spaces[n])
  BY DEF Sane, WorldShape
<1>0. v = [w EXCEPT !.spaces = [n \in Names |-> stowed(n)]]
  BY DEF Stow
<1> HIDE DEF v, p, stowed
<1>2. /\ v = [windows |-> w.windows, displays |-> w.displays, focused |-> w.focused, spaces |-> v.spaces]
      /\ v.spaces = [n \in Names |-> stowed(n)]
      /\ v.windows = w.windows /\ v.focused = w.focused
  BY <1>0, <1>1 DEF WorldShape
<1>3. ASSUME NEW n \in Names
      PROVE  LET s == v.spaces[n] old == w.spaces[n] IN
             /\ SpaceShape(s) /\ s.known = old.known /\ s.visible = old.visible
             /\ s.tiled = old.tiled /\ s.floating = old.floating
  <2>1. v.spaces[n] = [w.spaces[n] EXCEPT !.parked = p(n)] /\ SpaceShape(w.spaces[n])
    BY <1>1, <1>2 DEF stowed
  <2> QED BY <2>1 DEF SpaceShape
<1>4. WorldShape(v)
  BY <1>1, <1>2, <1>3 DEF WorldShape
<1>5. \A n \in Names : Members(v.spaces[n]) = Members(w.spaces[n])
  BY <1>3 DEF Members
<1>6. Homed(v) /\ Apart(v, {})
  BY <1>3, <1>5 DEF Homed, Apart, Sane
<1>7. Existing(v) /\ Grows(w, v)
  BY <1>2, <1>3, <1>5 DEF Existing, Sane, Known, Grows
<1> QED BY <1>4, <1>6, <1>7 DEF Sane, v

LEMMA Swapped ==
    ASSUME NEW w, Sane(w), NEW x, NEW n \in Names, x \in Members(w.spaces[n]), NEW b \in BOOLEAN
    PROVE  /\ Sane(Join(With(w, n, Without(w.spaces[n], x)), n, x, b))
           /\ Same(w, Join(With(w, n, Without(w.spaces[n], x)), n, x, b))
           /\ NoneJoins(w, Join(With(w, n, Without(w.spaces[n], x)), n, x, b))
<1> DEFINE v == With(w, n, Without(w.spaces[n], x))
<1>1. Known(w, n) /\ n \in Homes(w, x)
  BY DEF Sane, Existing, Known, Homes
<1>2. Sane(v) /\ Same(w, v) /\ NoneJoins(w, v) /\ (x \in Windows => Homes(v, x) = {})
  BY <1>1, Parted
<1> HIDE DEF v
<1>3. Known(v, n)
  BY <1>1, <1>2 DEF Same, Known
<1>4. /\ Sane(Join(v, n, x, b)) /\ Same(v, Join(v, n, x, b))
      /\ \A y \in Windows : Homes(Join(v, n, x, b), y) \subseteq IF y = x THEN {n} ELSE Homes(v, y)
  BY <1>2, <1>3, Joined
<1>5. NoneJoins(w, Join(v, n, x, b))
  BY <1>1, <1>2, <1>4 DEF NoneJoins
<1> QED BY <1>2, <1>4, <1>5 DEF Same, v

LEMMA FloatedOrTiled ==
    ASSUME NEW x, Sane(world)
    PROVE  /\ Sane(Floated(x)) /\ Same(world, Floated(x)) /\ NoneJoins(world, Floated(x))
           /\ Sane(Tiled(x)) /\ Same(world, Tiled(x)) /\ NoneJoins(world, Tiled(x))
<1>0. Same(world, world) /\ NoneJoins(world, world)
  BY DEF Same, NoneJoins
<1>1. Sane(Floated(x)) /\ Same(world, Floated(x)) /\ NoneJoins(world, Floated(x))
  <2> DEFINE homes == {n \in Names : x \in world.spaces[n].tiled}
             n == CHOOSE k \in homes : TRUE
  <2>1. CASE homes = {}
    BY <1>0, <2>1 DEF Floated
  <2>2. CASE homes # {}
    <3>1. n \in homes
      BY <2>2
    <3>2. n \in Names /\ x \in Members(world.spaces[n])
      BY <3>1 DEF Members
    <3>3. Floated(x) = Join(With(world, n, Without(world.spaces[n], x)), n, x, TRUE)
      BY <2>2 DEF Floated
    <3> HIDE DEF n
    <3> QED BY <3>2, <3>3, Swapped
  <2> QED BY <2>1, <2>2
<1>2. Sane(Tiled(x)) /\ Same(world, Tiled(x)) /\ NoneJoins(world, Tiled(x))
  <2> DEFINE homes == {n \in Names : x \in world.spaces[n].floating}
             n == CHOOSE k \in homes : TRUE
  <2>1. CASE homes = {}
    BY <1>0, <2>1 DEF Tiled
  <2>2. CASE homes # {}
    <3>1. n \in homes
      BY <2>2
    <3>2. n \in Names /\ x \in Members(world.spaces[n])
      BY <3>1 DEF Members
    <3>3. Tiled(x) = Join(With(world, n, Without(world.spaces[n], x)), n, x, FALSE)
      BY <2>2 DEF Tiled
    <3> HIDE DEF n
    <3> QED BY <3>2, <3>3, Swapped
  <2> QED BY <2>1, <2>2
<1> QED BY <1>1, <1>2

\* A window moves to a workspace, which is created if need be.
LEMMA MovedIsSane ==
    ASSUME NEW w, Sane(w), NEW x, NEW n \in Names
    PROVE  Sane(Moved(w, x, n)) /\ Grows(w, Moved(w, x, n)) /\ Known(Moved(w, x, n), n)
<1> DEFINE floating == \E m \in Names : x \in w.spaces[m].floating
           there == IF w.spaces[n].known THEN w ELSE With(w, n, EmptySpace(TRUE))
<1>1. CASE n \in Homes(w, x)
  <2>1. Moved(w, x, n) = w
    BY <1>1 DEF Moved
  <2>2. Known(w, n)
    BY <1>1, HomeExists DEF Sane
  <2> QED BY <2>1, <2>2 DEF Grows
<1>2. CASE n \notin Homes(w, x)
  <2>1. Moved(w, x, n) = Join(Leave(there, x), n, x, floating)
    BY <1>2 DEF Moved
  <2>2. Sane(there) /\ Grows(w, there) /\ Known(there, n)
    <3>1. CASE w.spaces[n].known
      BY <3>1 DEF Grows, Known
    <3>2. CASE ~w.spaces[n].known
      <4> DEFINE s == EmptySpace(TRUE)
      <4>1. SpaceShape(s) /\ s.known = TRUE /\ Members(s) = {} /\ s.tiled = {} /\ s.visible = None
        BY EmptyShape
      <4> HIDE DEF s
      <4>2. Fitting(s, w, n)
        BY <4>1 DEF Fitting
      <4>3. Sane(With(w, n, s)) /\ Grows(w, With(w, n, s))
        BY <4>1, <4>2, WithSane
      <4>4. With(w, n, s).spaces[n] = s
        BY <4>1, WithFields DEF Sane
      <4> QED BY <3>2, <4>1, <4>3, <4>4 DEF s, Known
    <3> QED BY <3>1, <3>2
  <2> HIDE DEF there
  <2>3. Sane(Leave(there, x)) /\ Grows(there, Leave(there, x)) /\ Homes(Leave(there, x), x) = {}
    BY <2>2, LeftEverywhere
  <2>4. Known(Leave(there, x), n)
    BY <2>2, <2>3 DEF Grows, Known
  <2> DEFINE v == Leave(there, x)
             b == floating
  <2>5. b \in BOOLEAN
    OBVIOUS
  <2> HIDE DEF v, b
  <2>6. Sane(Join(v, n, x, b)) /\ Same(v, Join(v, n, x, b))
    BY <2>3, <2>4, <2>5, Joined DEF v
  <2>7. Moved(w, x, n) = Join(v, n, x, b)
    BY <2>1 DEF v, b
  <2>8. Known(Join(v, n, x, b), n)
    BY <2>4, <2>6 DEF Same, v, Known
  <2> QED BY <2>2, <2>3, <2>6, <2>7, <2>8 DEF Grows, Same, v
<1> QED BY <1>1, <1>2

\* doRemove, inside the gate and outside: the tomb names a workspace that exists.
LEMMA Buried ==
    ASSUME NEW x, Bury(x), Sane(world), Remembered
    PROVE  /\ Sane(world') /\ Same(world, world') /\ Remembered' /\ NoneJoins(world, world')
           /\ \A dest : Promised(dest) => Promised(dest)'
<1>1. CASE Homes(world, x) = {}
  BY <1>1 DEF Bury, Same, Remembered, NoneJoins, Promised, Homes
<1>2. CASE Homes(world, x) # {}
  <2> DEFINE name == CHOOSE n \in Homes(world, x) : TRUE
  <2>1. name \in Homes(world, x)
    BY <1>2
  <2>2. /\ world' = With(world, name, Without(world.spaces[name], x))
        /\ DOMAIN tombs' = DOMAIN tombs \cup {x}
        /\ tombs'[x].space = name
        /\ \A y \in DOMAIN tombs : y # x => tombs'[y] = tombs[y]
    BY <1>2 DEF Bury
  <2> HIDE DEF name
  <2>3. Known(world, name) /\ name \in Names
    BY <2>1, HomeExists DEF Sane, Known
  <2>4. Sane(world') /\ Same(world, world') /\ NoneJoins(world, world')
    BY <2>2, <2>3, Parted
  <2>5. Remembered'
    BY <2>2, <2>3, <2>4 DEF Remembered, Same, Known
  <2>6. ASSUME NEW dest, Promised(dest) PROVE Promised(dest)'
    <3>1. \A y \in DOMAIN dest : y \in Windows /\ Homes(world, y) \subseteq {dest[y]}
                                /\ Homes(world', y) \subseteq Homes(world, y)
      BY <2>4, <2>6 DEF Promised, NoneJoins
    <3>2. \A y \in DOMAIN dest : y \in DOMAIN tombs' => tombs'[y].space = dest[y]
      BY <2>1, <2>2, <2>6, <3>1 DEF Promised
    <3>3. \A y \in DOMAIN dest : Homes(world', y) \subseteq {dest[y]}
      BY <3>1
    <3>4. \A y : Homes(world, y)' = Homes(world', y)
      BY DEF Homes
    <3> QED BY <2>6, <3>2, <3>3, <3>4 DEF Promised
  <2> QED BY <2>4, <2>5, <2>6
<1> QED BY <1>1, <1>2

LEMMA Reparked ==
    ASSUME NEW w, Sane(w), NEW n, Known(w, n), NEW P
    PROVE  /\ Sane(With(w, n, [w.spaces[n] EXCEPT !.parked = P]))
           /\ Same(w, With(w, n, [w.spaces[n] EXCEPT !.parked = P]))
           /\ NoneJoins(w, With(w, n, [w.spaces[n] EXCEPT !.parked = P]))
<1> DEFINE old == w.spaces[n]
           s == [old EXCEPT !.parked = P]
<1>1. /\ n \in Names /\ SpaceShape(old) /\ old.known
      /\ \A y \in Windows : ~(y \in old.tiled /\ y \in old.floating)
  BY DEF Sane, WorldShape, Homed, Known
<1>2. s = [known |-> old.known, mode |-> old.mode, tiled |-> old.tiled, floating |-> old.floating,
           parked |-> P, visible |-> old.visible, pinned |-> old.pinned]
  BY <1>1, SpaceFields
<1> HIDE DEF s
<1>3. /\ SpaceShape(s) /\ s.known /\ s.tiled = old.tiled /\ s.floating = old.floating
      /\ s.visible = old.visible
  BY <1>1, <1>2 DEF SpaceShape
<1>4. Fitting(s, w, n)
  BY <1>1, <1>3 DEF Fitting, Members
<1>5. \A y : y \in Members(s) => y \in Members(w.spaces[n])
  BY <1>3 DEF Members
<1> DEFINE v == With(w, n, s)
<1>6. /\ Sane(v) /\ (Known(w, n) => Same(w, v))
      /\ \A x : (x \in Members(s) => x \in Members(w.spaces[n])) => Homes(v, x) \subseteq Homes(w, x)
  BY <1>1, <1>3, <1>4, WithSane
<1> HIDE DEF v
<1>7. NoneJoins(w, v)
  BY <1>5, <1>6 DEF NoneJoins
<1> QED BY <1>6, <1>7 DEF s, v

-----------------------------------------------------------------------------
(***************************************************************************)
(* What every step keeps.                                                  *)
(***************************************************************************)

LEMMA StillRemembered ==
    ASSUME Remembered, UNCHANGED tombs, Grows(world, world')
    PROVE  Remembered'
BY DEF Remembered, Grows, Known

LEMMA StillPromised ==
    ASSUME UNCHANGED tombs, NoneJoins(world, world'), NEW dest, Promised(dest)
    PROVE  Promised(dest)'
<1>1. \A y : Homes(world, y)' = Homes(world', y)
  BY DEF Homes
<1> QED BY <1>1 DEF Promised, NoneJoins

\* What ReturnsHome says of a step while a plan is applied.
Homeward ==
    \A x \in DOMAIN tombs \cap Homeless(world) :
        ClassOf[x] # "transient" => Homes(world', x) \subseteq {tombs[x].space}

LEMMA NobodyGoesAstray == ASSUME Sane(world), NoneJoins(world, world') PROVE Homeward
BY DEF Homeward, NoneJoins, Homeless, Sane, WorldShape

\* When nothing is planned, nothing is promised.
LEMMA NothingPlanned == ASSUME plan = <<>> PROVE Directed
<1> DEFINE dest == [x \in {} |-> Main]
<1>1. Planned(<<>>, world, dest)
  BY PlannedEmpty
<1>2. Promised(dest)
  BY DEF Promised
<1> HIDE DEF dest
<1> QED BY <1>1, <1>2 DEF Directed

LEMMA NothingPlannedNext == ASSUME plan' = <<>> PROVE Directed'
<1> DEFINE dest == [x \in {} |-> Main]
           p == plan'
           w == world'
<1>1. Planned(<<>>, w, dest)
  BY PlannedEmpty
<1>2. Promised(dest)'
  BY DEF Promised
<1> HIDE DEF dest, w
<1>3. Planned(plan', w, dest)
  BY <1>1
<1> QED BY <1>2, <1>3 DEF Directed, w

LEMMA Initially == ASSUME Init PROVE Consistent
<1> DEFINE s(n) == EmptySpace(n \in Configured)
<1>1. /\ world.windows = <<>> /\ world.focused = Main
      /\ world = [windows |-> world.windows, displays |-> world.displays,
                  focused |-> world.focused, spaces |-> world.spaces]
      /\ world.spaces = [n \in Names |-> s(n)]
  BY DEF Init
<1>2. \A n : SpaceShape(s(n)) /\ s(n).known = (n \in Configured) /\ Members(s(n)) = {}
             /\ s(n).visible = None /\ s(n).tiled = {}
  <2> TAKE n
  <2> DEFINE b == n \in Configured
  <2>1. b \in BOOLEAN
    OBVIOUS
  <2> HIDE DEF b
  <2>2. /\ SpaceShape(EmptySpace(b)) /\ EmptySpace(b).known = b /\ Members(EmptySpace(b)) = {}
        /\ EmptySpace(b).visible = None /\ EmptySpace(b).tiled = {}
    BY <2>1, EmptyShape
  <2> QED BY <2>2 DEF b
<1> HIDE DEF s
<1>3. \A n \in Names : world.spaces[n] = s(n)
  BY <1>1
<1>4. DOMAIN world.windows \subseteq Windows
  <2>1. DOMAIN world.windows = {}
    BY <1>1
  <2> QED BY <2>1
<1>5. world.spaces = [n \in Names |-> world.spaces[n]]
  BY <1>1
<1>6. WorldShape(world)
  BY <1>1, <1>2, <1>3, <1>4, <1>5 DEF WorldShape
<1>7. Homed(world)
  BY <1>2, <1>3 DEF Homed
<1>8. Apart(world, {})
  BY <1>2, <1>3 DEF Apart
<1>9. Existing(world)
  BY <1>1, <1>2, <1>3, WorkspacesAssumption DEF Existing, Known
<1>10. plan = <<>> /\ Directed
  BY NothingPlanned DEF Init
<1>11. Remembered
  <2>1. DOMAIN tombs = {}
    BY DEF Init
  <2> QED BY <2>1 DEF Remembered
<1>12. live \subseteq Windows
  BY WorkspacesAssumption DEF Init
<1> QED BY <1>6, <1>7, <1>8, <1>9, <1>10, <1>11, <1>12 DEF Consistent, Sane, Drafted, Init

\* A step of the cycle that holds the gate.
LEMMA Applied ==
    ASSUME Consistent, stage = "apply", NEW dest, Planned(plan, world, dest), NEW parts,
           Planned(parts, world, dest), Go(parts), plan # <<>>, Sane(world'), Grows(world, world'),
           Remembered', Promised(dest)'
    PROVE  Consistent'
<1>1. Planned(Tail(plan), world, dest)
  BY PlannedTail
<1>2. Planned(plan', world, dest)
  BY <1>1, PlannedConcat DEF Go
<1> DEFINE p == plan'
           v == world'
<1>3. Planned(p, world, dest) /\ Grows(world, v)
  BY <1>2
<1> HIDE DEF p, v
<1>4. Planned(p, v, dest)
  BY <1>3, PlannedStays DEF Grows
<1>5. Directed'
  BY <1>4 DEF p, v, Directed
<1>6. draft' = None
  BY DEF Consistent, Drafted, Go
<1> QED BY <1>5, <1>6 DEF Consistent, Drafted, Go

\* A command that takes no gate, beside a cycle or a draft.
LEMMA Beside ==
    ASSUME Consistent, Sane(world'), Same(world, world'), Remembered',
           \A dest : Promised(dest) => Promised(dest)',
           UNCHANGED <<plan, stage, draft, live>>
    PROVE  Consistent'
<1> DEFINE v == world'
<1>1. PICK dest : Planned(plan, world, dest) /\ Promised(dest)
  BY DEF Consistent, Directed
<1>a. Same(world, v)
  OBVIOUS
<1> HIDE DEF v
<1>2. Planned(plan, v, dest)
  BY <1>1, <1>a, PlannedStays DEF Same
<1>3. Directed'
  BY <1>1, <1>2 DEF v, Directed
<1>4. Drafted'
  BY DEF Drafted, Consistent, Same
<1> QED BY <1>3, <1>4 DEF Consistent

LEMMA Idle == ASSUME Consistent, UNCHANGED <<world, tombs, plan, stage, draft>>, live' \subseteq Windows
              PROVE  Consistent'
<1>1. ASSUME NEW dest PROVE Promised(dest)' = Promised(dest)
  BY DEF Promised, Homes
<1>2. Directed'
  BY <1>1 DEF Consistent, Directed
<1> QED BY <1>2 DEF Consistent, Remembered, Drafted

-----------------------------------------------------------------------------
(***************************************************************************)
(* The cycle.                                                              *)
(***************************************************************************)

LEMMA CycleStep == ASSUME Consistent, Cycle PROVE Consistent'
<1>1. CASE BeginCycle
  <2>1. UNCHANGED <<world, tombs, plan, live, draft>> /\ stage = "idle" /\ draft = None
    BY <1>1 DEF BeginCycle, Gate, engine, desktop
  <2>2. plan' = <<>>
    BY <2>1 DEF Consistent
  <2>3. Directed'
    BY <2>2, NothingPlannedNext
  <2> QED BY <2>1, <2>2, <2>3 DEF Consistent, Remembered, Drafted
<1>2. CASE Observe
  <2> DEFINE v == world'
             ts == tombs'
  <2>1. PICK S : tombs' = [x \in S |-> tombs[x]] /\ S \subseteq DOMAIN tombs
    BY <1>2 DEF Observe
  <2>2. /\ v = [windows |-> v.windows, displays |-> v.displays, focused |-> v.focused,
                spaces |-> world.spaces]
        /\ DOMAIN v.windows = live /\ v.focused = world.focused
    BY <1>2 DEF Observe, Consistent, Sane, WorldShape
  <2>3. Sane(world) /\ live \subseteq Windows /\ Known(world, world.focused) /\ Remembered
    BY DEF Consistent, Sane, Existing
  <2>4. plan' = Rules(v, ts) /\ draft' = draft /\ live' = live /\ stage = "observe"
    BY <1>2 DEF Observe, desktop
  <2> HIDE DEF v, ts
  <2>5. Sane(v) /\ Grows(world, v)
    BY <2>2, <2>3, Reread
  <2>6. \A x \in DOMAIN ts : Known(v, ts[x].space)
    BY <2>1, <2>3, <2>5 DEF Remembered, Grows, ts, Known
  <2>d. PICK dest : dest = Ahead(v, ts)
    OBVIOUS
  <2>7. Planned(Rules(v, ts), v, dest)
    BY <2>5, <2>6, <2>d, RulesPlan DEF Ready, Sane
  <2>a. Promised(dest)'
    <3>1. /\ \A x \in DOMAIN dest : x \in Homeless(v) /\ (x \in DOMAIN ts => dest[x] = ts[x].space)
          /\ DOMAIN dest \subseteq {x \in Windows : ClassOf[x] # "transient"}
      BY <2>5, <2>d DEF Ahead, Homeless, Sane, WorldShape
    <3>2. \A x : Homes(world, x)' = Homes(v, x)
      BY DEF Homes, v
    <3> QED BY <3>1, <3>2 DEF Promised, ts, Homeless
  <2>b. Directed'
    BY <2>4, <2>7, <2>a DEF Directed, v
  <2>c. stage' = "apply"
    BY <1>2 DEF Observe
  <2>8. draft = None
    BY <2>4 DEF Consistent, Drafted
  <2>9. Remembered'
    BY <2>6 DEF v, ts, Remembered
  <2> QED BY <2>3, <2>4, <2>5, <2>8, <2>9, <2>b, <2>c DEF Consistent, Drafted, v
<1>3. CASE Verify
  <2> DEFINE v == world'
  <2>1. v = world \/ (/\ v = [windows |-> v.windows, displays |-> v.displays, focused |-> v.focused,
                              spaces |-> world.spaces]
                      /\ DOMAIN v.windows = DOMAIN world.windows /\ v.focused = world.focused)
    BY <1>3 DEF Verify, Consistent, Sane, WorldShape, EndCycle
  <2>2. /\ Sane(world) /\ live \subseteq Windows /\ Known(world, world.focused) /\ Remembered
        /\ DOMAIN world.windows \subseteq Windows
    BY DEF Consistent, Sane, Existing, WorldShape
  <2>3. /\ plan' = <<>> /\ draft' = draft /\ live' = live /\ stage = "apply" /\ tombs' = tombs
    BY <1>3 DEF Verify, EndCycle, desktop
  <2> HIDE DEF v
  <2>4. Sane(v) /\ Grows(world, v)
    BY <2>1, <2>2, Reread DEF Grows
  <2>5. draft = None
    BY <2>3 DEF Consistent, Drafted
  <2>6. Remembered'
    BY <2>2, <2>3, <2>4, StillRemembered DEF v
  <2>7. Directed'
    BY <2>3, NothingPlannedNext
  <2> QED BY <2>2, <2>3, <2>4, <2>5, <2>6, <2>7 DEF Consistent, Drafted, v
<1>4. CASE ApplyFails
  <2> DEFINE v == world'
  <2>1. /\ v = [windows |-> v.windows, displays |-> v.displays, focused |-> v.focused,
                spaces |-> world.spaces]
        /\ DOMAIN v.windows = DOMAIN world.windows /\ v.focused = world.focused
    BY <1>4 DEF ApplyFails, Consistent, Sane, WorldShape
  <2>2. /\ Sane(world) /\ live \subseteq Windows /\ Known(world, world.focused) /\ Remembered
        /\ DOMAIN world.windows \subseteq Windows
    BY DEF Consistent, Sane, Existing, WorldShape
  <2>3. /\ plan' = <<>> /\ draft' = draft /\ live' = live /\ stage = "apply" /\ tombs' = tombs
    BY <1>4 DEF ApplyFails, EndCycle
  <2> HIDE DEF v
  <2>4. Sane(v) /\ Grows(world, v)
    BY <2>1, <2>2, Reread DEF Grows
  <2>5. draft = None
    BY <2>3 DEF Consistent, Drafted
  <2>6. Remembered'
    BY <2>2, <2>3, <2>4, StillRemembered DEF v
  <2>7. Directed'
    BY <2>3, NothingPlannedNext
  <2> QED BY <2>2, <2>3, <2>4, <2>5, <2>6, <2>7 DEF Consistent, Drafted, v
<1> QED BY <1>1, <1>2, <1>3, <1>4 DEF Cycle

-----------------------------------------------------------------------------
(***************************************************************************)
(* The actions of a plan.                                                  *)
(***************************************************************************)

LEMMA ApplyStep == ASSUME Consistent, Apply PROVE Consistent' /\ Homeward
<1>0. Sane(world) /\ Remembered /\ Grows(world, world) /\ NoneJoins(world, world)
  BY DEF Consistent, Grows, NoneJoins
<1>d. PICK dest : Planned(plan, world, dest) /\ Promised(dest)
  BY DEF Consistent, Directed
<1> DEFINE none == <<>>
<1>e. Planned(none, world, dest)
  BY PlannedEmpty
<1> HIDE DEF none
<1>1. CASE ApplyRemove
  <2>1. Sane(world') /\ Same(world, world') /\ Remembered' /\ Promised(dest)'
        /\ NoneJoins(world, world')
    BY <1>0, <1>d, <1>1, Buried DEF ApplyRemove
  <2>2. stage = "apply" /\ plan # <<>> /\ Go(none) /\ Grows(world, world')
    BY <1>1, <2>1 DEF ApplyRemove, Applying, none, Same, Grows
  <2> QED BY <1>0, <1>d, <1>e, <2>1, <2>2, Applied, NobodyGoesAstray
<1>2. CASE ApplyInsert
  <2> DEFINE a == Head(plan)
             n == a.space
             x == a.win
  <2>1. PICK b \in BOOLEAN, keep \in BOOLEAN :
           IF AlreadyHome(x) THEN UNCHANGED <<world, tombs>>
           ELSE /\ world' = IF keep THEN [Join(world, n, x, b) EXCEPT !.spaces[n].parked = @ \cup {x}]
                            ELSE Join(world, n, x, b)
                /\ tombs' = [y \in DOMAIN tombs \ {x} |-> tombs[y]]
    <3> DEFINE old == IF a.win \in DOMAIN tombs THEN {tombs[a.win]} ELSE {}
               same == {t \in old : /\ t.space = a.space /\ ~t.floating
                                    /\ a.win \in DOMAIN world.windows
                                    /\ t.surviving = world.spaces[a.space].tiled}
               floating == a.floating /\ same = {}
               keep == \E t \in old : t.parked /\ (floating \/ t \in same)
    <3>1. floating \in BOOLEAN /\ keep \in BOOLEAN
      OBVIOUS
    <3>2. IF AlreadyHome(x) THEN UNCHANGED <<world, tombs>>
          ELSE /\ world' = IF keep THEN [Join(world, n, x, floating) EXCEPT !.spaces[n].parked = @ \cup {x}]
                           ELSE Join(world, n, x, floating)
               /\ tombs' = [y \in DOMAIN tombs \ {x} |-> tombs[y]]
      BY <1>2 DEF ApplyInsert
    <3> HIDE DEF floating, keep, n, x
    <3> QED BY <3>1, <3>2
  <2>2. stage = "apply" /\ plan # <<>> /\ Go(none) /\ a.kind = "insert"
    BY <1>2 DEF ApplyInsert, Applying, none
  <2>3. Known(world, n)
    <3>1. Sound(a, world, dest)
      BY <1>d, <2>2, PlannedTail
    <3> QED BY <2>2, <3>1 DEF Sound
  <2>c. x \in DOMAIN dest => n = dest[x]
    <3>1. Sound(a, world, dest)
      BY <1>d, <2>2, PlannedTail
    <3> QED BY <1>0, <1>d, <2>2, <3>1 DEF Sound, Promised
  <2>d. ClassOf[x] # "transient" => x \in DOMAIN dest /\ n = dest[x]
    <3>1. Sound(a, world, dest)
      BY <1>d, <2>2, PlannedTail
    <3> QED BY <2>2, <3>1 DEF Sound
  <2> HIDE DEF n, x
  <2>4. CASE AlreadyHome(x)
    <3>1. world' = world /\ tombs' = tombs
      BY <2>1, <2>4
    <3> DEFINE v == world'
    <3>2. v = world
      BY <3>1
    <3> HIDE DEF v
    <3>3. Sane(v) /\ Grows(world, v) /\ NoneJoins(world, v)
      BY <1>0, <3>2
    <3>4. Remembered' /\ Promised(dest)'
      BY <1>0, <1>d, <3>1, <3>3, StillRemembered, StillPromised DEF v
    <3> QED BY <1>0, <1>d, <1>e, <2>2, <3>3, <3>4, Applied, NobodyGoesAstray DEF v
  <2>5. CASE ~AlreadyHome(x)
    <3> DEFINE v == Join(world, n, x, b)
               u == [v EXCEPT !.spaces[n].parked = @ \cup {x}]
    <3>1. Homes(world, x) = {}
      BY <2>5 DEF AlreadyHome
    <3>2. /\ Sane(v) /\ Same(world, v)
          /\ \A y \in Windows : Homes(v, y) \subseteq IF y = x THEN {n} ELSE Homes(world, y)
      BY <1>0, <2>3, <3>1, Joined
    <3>3. Known(v, n) /\ n \in Names
      BY <2>3, <3>2 DEF Same, Known
    <3>4. world' \in {u, v} /\ tombs' = [y \in DOMAIN tombs \ {x} |-> tombs[y]]
      BY <2>1, <2>5
    <3> HIDE DEF v
    <3>5. Sane(u) /\ Same(v, u) /\ NoneJoins(v, u)
      <4> DEFINE P == v.spaces[n].parked \cup {x}
      <4>1. u = With(v, n, [v.spaces[n] EXCEPT !.parked = P])
        BY DEF With
      <4> HIDE DEF P, u
      <4> QED BY <3>2, <3>3, <4>1, Reparked
    <3> HIDE DEF u
    <3>6. Sane(world') /\ Grows(world, world')
      BY <3>2, <3>4, <3>5 DEF Same, Grows
    <3>7. Remembered'
      BY <1>0, <3>4, <3>6 DEF Remembered, Grows, Known
    <3>8. \A y \in Windows : Homes(world', y) \subseteq IF y = x THEN {n} ELSE Homes(world, y)
      BY <3>2, <3>4, <3>5 DEF NoneJoins
    <3>9. x \in DOMAIN dest => n = dest[x]
      BY <2>c
    <3>10. Promised(dest)'
      <4>1. \A y : Homes(world, y)' = Homes(world', y)
        BY DEF Homes
      <4> QED BY <1>d, <3>4, <3>8, <3>9, <4>1 DEF Promised
    <3>11. Homeward
      <4>1. ASSUME NEW y \in DOMAIN tombs, y \in Homeless(world), ClassOf[y] # "transient"
            PROVE  Homes(world', y) \subseteq {tombs[y].space}
        <5>1. y \in Windows /\ Homes(world, y) = {}
          BY <1>0, <4>1 DEF Homeless, Sane, WorldShape
        <5>2. y = x => n = tombs[y].space
          BY <1>d, <2>d, <4>1 DEF Promised
        <5> QED BY <3>8, <5>1, <5>2
      <4> QED BY <4>1 DEF Homeward
    <3> QED BY <1>d, <1>e, <2>2, <3>6, <3>7, <3>10, <3>11, Applied
  <2> QED BY <2>4, <2>5
<1>3. CASE ApplyFloat
  <2> DEFINE x == Head(plan).win
  <2>1. world' = Floated(x) /\ tombs' = tombs
    BY <1>3 DEF ApplyFloat
  <2> HIDE DEF x
  <2>2. Sane(world') /\ Grows(world, world') /\ NoneJoins(world, world')
    BY <1>0, <2>1, FloatedOrTiled DEF Same, Grows
  <2>3. Remembered' /\ Promised(dest)'
    BY <1>0, <1>d, <2>1, <2>2, StillRemembered, StillPromised
  <2>4. stage = "apply" /\ plan # <<>> /\ Go(none)
    BY <1>3 DEF ApplyFloat, Applying, none
  <2> QED BY <1>0, <1>d, <1>e, <2>2, <2>3, <2>4, Applied, NobodyGoesAstray
<1>4. CASE ApplyMove
  <2> DEFINE v == world'
  <2>1. v = world \/ (/\ v = [windows |-> v.windows, displays |-> v.displays, focused |-> v.focused,
                              spaces |-> world.spaces]
                      /\ DOMAIN v.windows = DOMAIN world.windows /\ v.focused = world.focused)
    BY <1>0, <1>4 DEF ApplyMove, Sane, WorldShape
  <2>2. Known(world, world.focused) /\ DOMAIN world.windows \subseteq Windows
    BY <1>0 DEF Sane, Existing, WorldShape
  <2> HIDE DEF v
  <2>3. Sane(v) /\ Grows(world, v)
    BY <1>0, <2>1, <2>2, Reread
  <2>a. NoneJoins(world, v)
    BY <2>1 DEF NoneJoins, Homes
  <2>4. stage = "apply" /\ plan # <<>> /\ Go(none) /\ UNCHANGED tombs
    BY <1>4 DEF ApplyMove, Applying, none
  <2>5. Remembered' /\ Promised(dest)'
    BY <1>0, <1>d, <2>3, <2>4, <2>a, StillRemembered, StillPromised DEF v
  <2> QED BY <1>0, <1>d, <1>e, <2>3, <2>4, <2>5, <2>a, Applied, NobodyGoesAstray DEF v
<1>5. CASE ApplyPark
  <2> DEFINE n == Head(plan).space
             S == Unparked(world, n)
             parts == Each(S, LAMBDA x : ParkOne(n, x))
  <2>1. parts = [i \in 1..Len(SetToSeq(S)) |-> ParkOne(n, SetToSeq(S)[i])]
    BY DEF Each
  <2>2. IsFiniteSet(S)
    BY <1>0, Finite DEF Unparked, Sane, WorldShape
  <2>3. stage = "apply" /\ plan # <<>> /\ Go(parts) /\ UNCHANGED <<world, tombs>>
        /\ Head(plan).kind = "park"
    BY <1>5 DEF ApplyPark, Applying
  <2>a. n \in Names
    <3>1. Sound(Head(plan), world, dest)
      BY <1>d, <2>3, PlannedTail
    <3> QED BY <2>3, <3>1 DEF Sound
  <2> HIDE DEF n
  <2>b. S # {} => Known(world, n)
    BY <1>0, <2>a DEF Unparked, Sane, Existing, Known
  <2> HIDE DEF parts, S
  <2>4. \A i \in 1..Len(SetToSeq(S)) : SetToSeq(S)[i] \in S => Sound(parts[i], world, dest)
    BY <2>1, <2>b DEF ParkOne, Sound
  <2>5. parts = [i \in 1..Len(SetToSeq(S)) |-> parts[i]]
    BY <2>1
  <2>6. Planned(parts, world, dest)
    BY <2>2, <2>4, <2>5, PlannedEach
  <2> DEFINE v == world'
  <2>7. v = world
    BY <2>3
  <2> HIDE DEF v
  <2>8. Sane(v) /\ Grows(world, v) /\ NoneJoins(world, v)
    BY <1>0, <2>7
  <2>9. Remembered' /\ Promised(dest)'
    BY <1>0, <1>d, <2>3, <2>8, StillRemembered, StillPromised DEF v
  <2> QED BY <1>0, <1>d, <2>3, <2>6, <2>8, <2>9, Applied, NobodyGoesAstray DEF v
<1>6. CASE ApplyParkOne
  <2> DEFINE a == Head(plan)
             n == a.space
             P == world.spaces[n].parked \cup {a.win}
             old == world.spaces[n]
             s == [old EXCEPT !.parked = P]
             v == world'
  <2>1. stage = "apply" /\ plan # <<>> /\ Go(none) /\ UNCHANGED tombs /\ a.kind = "parkOne"
    BY <1>6 DEF ApplyParkOne, Applying, none
  <2>2. v = With(world, n, s)
    BY <1>6 DEF ApplyParkOne, With
  <2>3. Known(world, n)
    <3>1. Sound(a, world, dest)
      BY <1>d, <2>1, PlannedTail
    <3> QED BY <2>1, <3>1 DEF Sound
  <2> HIDE DEF n, P
  <2>4. Sane(With(world, n, s)) /\ Same(world, With(world, n, s))
        /\ NoneJoins(world, With(world, n, s))
    BY <1>0, <2>3, Reparked
  <2> HIDE DEF v, s
  <2>5. Sane(v) /\ Grows(world, v) /\ NoneJoins(world, v)
    BY <2>2, <2>4 DEF Same, Grows
  <2>6. Remembered' /\ Promised(dest)'
    BY <1>0, <1>d, <2>1, <2>5, StillRemembered, StillPromised DEF v
  <2> QED BY <1>0, <1>d, <1>e, <2>1, <2>5, <2>6, Applied, NobodyGoesAstray DEF v
<1>7. CASE ApplyReveal
  <2> DEFINE a == Head(plan)
             gone == Displaced(world, a.space, a.on)
             one == {n \in gone : n = CHOOSE m \in gone : TRUE}
             park == ParkWorkspace(CHOOSE n \in one : TRUE)
             first == IF one = {} THEN <<>> ELSE <<park>>
             uncover == Uncover(a.space, a.on)
             second == <<uncover>>
             parts == first \o second
             n == a.space
  <2>1. stage = "apply" /\ plan # <<>> /\ Go(parts) /\ UNCHANGED tombs /\ a.kind = "reveal"
        /\ world' = Ensure(world, n)
    BY <1>7 DEF ApplyReveal, Applying
  <2>2. Sound(a, world, dest)
    BY <1>d, <2>1, PlannedTail
  <2>3. Known(world, n)
    BY <2>1, <2>2 DEF Sound
  <2>4. one # {} => Sound(park, world, dest)
    <3>1. one \subseteq Names
      BY DEF Displaced
    <3> HIDE DEF one
    <3> QED BY <3>1 DEF ParkWorkspace, Sound
  <2>a. Sound(uncover, world, dest)
    BY <2>3 DEF Uncover, Sound
  <2> HIDE DEF one, n, park, uncover
  <2>5. Planned(first, world, dest) /\ Planned(second, world, dest)
    BY <2>4, <2>a, PlannedEmpty, PlannedOne
  <2> HIDE DEF first, second
  <2>6. Planned(parts, world, dest)
    BY <2>5, PlannedConcat
  <2> DEFINE v == world'
  <2>7. v = world
    BY <2>1, <2>3, NoneIsCreated
  <2> HIDE DEF v, parts
  <2>8. Sane(v) /\ Grows(world, v) /\ NoneJoins(world, v)
    BY <1>0, <2>7
  <2>9. Remembered' /\ Promised(dest)'
    BY <1>0, <1>d, <2>1, <2>8, StillRemembered, StillPromised DEF v
  <2> QED BY <1>0, <1>d, <2>1, <2>6, <2>8, <2>9, Applied, NobodyGoesAstray DEF v
<1>8. CASE ApplyUncover
  <2> DEFINE a == Head(plan)
             n == a.space
             d == a.on
             w == Show(world, n, d)
             S == Untiled(w, n)
             to == w.spaces[n].tiled
             parts == Each(S, LAMBDA x : Settle(x, Tile(d, to)))
  <2>1. parts = [i \in 1..Len(SetToSeq(S)) |-> Settle(SetToSeq(S)[i], Tile(d, to))]
    BY DEF Each
  <2>2. stage = "apply" /\ plan # <<>> /\ Go(parts) /\ world' = w /\ UNCHANGED tombs
        /\ a.kind = "uncover"
    BY <1>8 DEF ApplyUncover, Applying
  <2>b. Known(world, n)
    <3>1. Sound(a, world, dest)
      BY <1>d, <2>2, PlannedTail
    <3> QED BY <2>2, <3>1 DEF Sound
  <2> HIDE DEF n, d
  <2>3. Sane(w) /\ Grows(world, w) /\ NoneJoins(world, w)
    BY <1>0, <2>b, SaneIsNearly, Shown DEF Known
  <2> HIDE DEF w, to
  <2>4. IsFiniteSet(S)
    BY <2>3, Finite DEF Untiled, Sane, WorldShape
  <2> HIDE DEF parts, S
  <2>5. \A i \in 1..Len(SetToSeq(S)) : Sound(parts[i], world, dest)
    BY <2>1 DEF Settle, Sound
  <2>6. parts = [i \in 1..Len(SetToSeq(S)) |-> parts[i]]
    BY <2>1
  <2>7. Planned(parts, world, dest)
    BY <2>4, <2>5, <2>6, PlannedEach
  <2>8. Remembered' /\ Promised(dest)'
    BY <1>0, <1>d, <2>2, <2>3, StillRemembered, StillPromised
  <2> QED BY <1>0, <1>d, <2>2, <2>3, <2>7, <2>8, Applied, NobodyGoesAstray
<1> QED BY <1>1, <1>2, <1>3, <1>4, <1>5, <1>6, <1>7, <1>8 DEF Apply

-----------------------------------------------------------------------------
(***************************************************************************)
(* Compound commands.                                                      *)
(***************************************************************************)

LEMMA Refocused ==
    ASSUME NEW w, NEW n \in Names, Nearly(w, n), Known(w, n)
    PROVE  Nearly([w EXCEPT !.focused = n], n) /\ Grows(w, [w EXCEPT !.focused = n])
<1> DEFINE v == [w EXCEPT !.focused = n]
<1>1. v = [windows |-> w.windows, displays |-> w.displays, focused |-> n, spaces |-> w.spaces]
  BY DEF Nearly, WorldShape
<1> HIDE DEF v
<1>2. v.spaces = w.spaces /\ v.focused = n /\ v.windows = w.windows
  BY <1>1
<1>3. WorldShape(v)
  BY <1>1, <1>2 DEF Nearly, WorldShape
<1> QED BY <1>2, <1>3 DEF Nearly, Homed, Apart, Existing, Known, Grows, v

LEMMA FreshIsSane ==
    ASSUME Consistent
    PROVE  Sane(Fresh) /\ Grows(world, Fresh) /\ Same(world, Fresh)
<1> DEFINE v == Fresh
<1>1. /\ v = [windows |-> v.windows, displays |-> v.displays, focused |-> v.focused,
              spaces |-> world.spaces]
      /\ DOMAIN v.windows = live /\ v.focused = world.focused
  <2>1. WorldShape(world)
    BY DEF Consistent, Sane
  <2>2. world = [windows |-> world.windows, displays |-> world.displays,
                 focused |-> world.focused, spaces |-> world.spaces]
    BY <2>1 DEF WorldShape
  <2> DEFINE f == [x \in live |-> place[x]]
             u == [world EXCEPT !.windows = f]
  <2>3. u = [windows |-> f, displays |-> world.displays,
             focused |-> world.focused, spaces |-> world.spaces]
    BY <2>2
  <2>4. v = [u EXCEPT !.displays = plugged]
    BY DEF Fresh
  <2> HIDE DEF u
  <2>5. v = [windows |-> f, displays |-> plugged, focused |-> world.focused, spaces |-> world.spaces]
    <3> HIDE DEF f, v
    <3> QED BY <2>3, <2>4
  <2> HIDE DEF v
  <2> QED BY <2>5
<1> HIDE DEF v
<1>2. Sane(world) /\ live \subseteq Windows /\ Known(world, world.focused)
  BY DEF Consistent, Sane, Existing
<1>3. Sane(v) /\ Grows(world, v) /\ Grows(v, world)
  BY <1>1, <1>2, Reread
<1> QED BY <1>3 DEF v, Same, Grows

LEMMA Drafts ==
    ASSUME Consistent, NEW affected, NEW w, NEW H, NEW R, Transact(affected, w, H, R),
           Sane(w), Grows(world, w)
    PROVE  Consistent'
<1> DEFINE v == Stow(w, H, R)
<1>1. Sane(v) /\ Grows(w, v)
  BY Stowed
<1>2. /\ draft'.world = v /\ stage' = "idle" /\ stage = "idle"
      /\ UNCHANGED <<world, tombs, plan, live>>
  BY DEF Transact, Gate, engine, cycle, desktop
<1> HIDE DEF v
<1>3. Drafted'
  BY <1>1, <1>2 DEF Drafted, Grows
<1>4. plan' = <<>>
  BY <1>2 DEF Consistent
<1>5. Directed'
  BY <1>4, NothingPlannedNext
<1> QED BY <1>2, <1>3, <1>4, <1>5 DEF Consistent, Remembered

LEMMA Unveils ==
    ASSUME Consistent, NEW affected, NEW w, NEW n \in Names, NEW d, NEW more,
           Unveil(affected, w, n, d, more), Nearly(w, n), Grows(world, w)
    PROVE  Consistent'
<1> DEFINE v == Show(w, n, d)
<1>1. Sane(v) /\ Grows(world, v)
  BY Shown DEF Grows
<1>2. PICK S, H, R : Transact(S, v, H, R)
  BY DEF Unveil
<1> HIDE DEF v
<1> QED BY <1>1, <1>2, Drafts

LEMMA Focuses ==
    ASSUME Consistent, NEW n \in Names, FocusWorkspace(n)
    PROVE  Consistent'
<1> DEFINE f == Fresh
           w == Ensure(f, n)
           v == [w EXCEPT !.focused = n]
<1>0. PICK S, d, M : Unveil(S, v, n, d, M)
  BY DEF FocusWorkspace
<1>1. Nearly(f, n) /\ Grows(world, f)
  BY FreshIsSane, SaneIsNearly
<1> HIDE DEF f
<1>2. Nearly(w, n) /\ Grows(f, w) /\ Known(w, n)
  BY <1>1, Created
<1> HIDE DEF w
<1>3. Nearly(v, n) /\ Grows(w, v)
  BY <1>2, Refocused
<1> HIDE DEF v
<1>4. Grows(world, v)
  BY <1>1, <1>2, <1>3 DEF Grows
<1> QED BY <1>0, <1>3, <1>4, Unveils

LEMMA MovesWindow ==
    ASSUME Consistent, NEW x, NEW n \in Names, MoveWindowToWorkspace(x, n)
    PROVE  Consistent'
<1> DEFINE f == Fresh
           v == Moved(f, x, n)
<1>0. PICK S, H, R : Transact(S, v, H, R)
  BY DEF MoveWindowToWorkspace
<1>1. Sane(f) /\ Grows(world, f)
  BY FreshIsSane
<1> HIDE DEF f
<1>2. Sane(v) /\ Grows(f, v)
  BY <1>1, MovedIsSane
<1> HIDE DEF v
<1>3. Grows(world, v)
  BY <1>1, <1>2 DEF Grows
<1> QED BY <1>0, <1>2, <1>3, Drafts

LEMMA MovesAndFocuses ==
    ASSUME Consistent, NEW x, NEW n \in Names, MoveFocusedWindowToWorkspace(x, n)
    PROVE  Consistent'
<1> DEFINE f == Fresh
           w == Moved(f, x, n)
           v == [w EXCEPT !.focused = n]
<1>0. PICK S, d, M : Unveil(S, v, n, d, M)
  BY DEF MoveFocusedWindowToWorkspace
<1>1. Sane(f) /\ Grows(world, f)
  BY FreshIsSane
<1> HIDE DEF f
<1>2. Sane(w) /\ Grows(f, w) /\ Known(w, n)
  BY <1>1, MovedIsSane
<1> HIDE DEF w
<1>3. Nearly(v, n) /\ Grows(w, v)
  BY <1>2, SaneIsNearly, Refocused
<1> HIDE DEF v
<1>4. Grows(world, v)
  BY <1>1, <1>2, <1>3 DEF Grows
<1> QED BY <1>0, <1>3, <1>4, Unveils

\* A workspace that is pinned to a display is no less sane.
LEMMA Pinned ==
    ASSUME NEW w, NEW n \in Names, NEW d, Nearly(w, n), Known(w, n)
    PROVE  LET v == With(w, n, [w.spaces[n] EXCEPT !.pinned = d])
           IN  Nearly(v, n) /\ Grows(w, v)
<1> DEFINE old == w.spaces[n]
           s == [old EXCEPT !.pinned = d]
<1>1. /\ SpaceShape(old) /\ old.known
      /\ \A y \in Windows : ~(y \in old.tiled /\ y \in old.floating)
  BY DEF Nearly, WorldShape, Homed, Known
<1>2. s = [known |-> old.known, mode |-> old.mode, tiled |-> old.tiled, floating |-> old.floating,
           parked |-> old.parked, visible |-> old.visible, pinned |-> d]
  BY <1>1, SpaceFields
<1> HIDE DEF s
<1>3. SpaceShape(s) /\ s.known /\ s.tiled = old.tiled /\ s.floating = old.floating
  BY <1>1, <1>2 DEF SpaceShape
<1>4. Fitting(s, w, n)
  BY <1>1, <1>3 DEF Fitting, Members
<1>5. Nearly(With(w, n, s), n) /\ Grows(w, With(w, n, s))
  BY <1>4, WithNearly
<1> QED BY <1>5 DEF s

LEMMA MovesWorkspace ==
    ASSUME Consistent, NEW n \in Names, NEW d, MoveWorkspaceToDisplay(n, d)
    PROVE  Consistent'
<1> DEFINE f == Fresh
           w == Ensure(f, n)
           v == With(w, n, [w.spaces[n] EXCEPT !.pinned = d])
<1>0. PICK S, M : Unveil(S, v, n, d, M)
  BY DEF MoveWorkspaceToDisplay
<1>1. Nearly(f, n) /\ Grows(world, f)
  BY FreshIsSane, SaneIsNearly
<1> HIDE DEF f
<1>2. Nearly(w, n) /\ Grows(f, w) /\ Known(w, n)
  BY <1>1, Created
<1> HIDE DEF w
<1>3. Nearly(v, n) /\ Grows(w, v)
  BY <1>2, Pinned
<1> HIDE DEF v
<1>4. Grows(world, v)
  BY <1>1, <1>2, <1>3 DEF Grows
<1> QED BY <1>0, <1>3, <1>4, Unveils

LEMMA MovesToTheNextDisplay ==
    ASSUME Consistent, NEW n \in Names, NEW d, MoveFocusedWorkspaceToNextDisplay(n, d)
    PROVE  Consistent'
<1> DEFINE f == Fresh
           v == With(f, n, [f.spaces[n] EXCEPT !.pinned = d])
<1>0. world.spaces[n].known /\ Unveil({}, v, n, d, {})
  BY DEF MoveFocusedWorkspaceToNextDisplay, MayBeMeant
<1>1. Nearly(f, n) /\ Grows(world, f)
  BY FreshIsSane, SaneIsNearly
<1> HIDE DEF f
<1>2. Known(f, n) /\ Unveil({}, v, n, d, {})
  BY <1>0, <1>1 DEF Known, Grows
<1>3. Nearly(v, n) /\ Grows(f, v)
  BY <1>1, <1>2, Pinned
<1> HIDE DEF v
<1>4. Grows(world, v)
  BY <1>1, <1>3 DEF Grows
<1> QED BY <1>2, <1>3, <1>4, Unveils

LEMMA Retiles ==
    ASSUME Consistent, NEW S, Retile(S)
    PROVE  Consistent'
<1>1. Transact(MembersOf(S), Fresh, {}, S)
  BY DEF Retile
<1>2. Sane(Fresh) /\ Grows(world, Fresh)
  BY FreshIsSane
<1> QED BY <1>1, <1>2, Drafts

\* The draft takes the world's place: everything that was known still is.
LEMMA Commits == ASSUME Consistent, Commit PROVE Consistent'
<1> DEFINE v == world'
           u == draft.world
<1>1. Sane(u) /\ Grows(world, u) /\ Known(u, u.focused) /\ DOMAIN u.windows \subseteq Windows
  BY DEF Commit, Consistent, Drafted, Sane, Existing, WorldShape, Grows
<1>2. /\ v = [windows |-> v.windows, displays |-> v.displays, focused |-> v.focused,
              spaces |-> u.spaces]
      /\ DOMAIN v.windows = DOMAIN u.windows /\ v.focused = u.focused
  BY <1>1 DEF Commit, Sane, WorldShape
<1>3. draft' = None /\ UNCHANGED <<plan, tombs, live>>
  BY DEF Commit, cycle
<1> HIDE DEF v, u
<1>4. Sane(v) /\ Grows(u, v)
  BY <1>1, <1>2, Reread
<1>5. Grows(world, v)
  BY <1>1, <1>4 DEF Grows
<1>6. Remembered'
  BY <1>3, <1>5, StillRemembered DEF v, Consistent
<1>a. plan' = <<>>
  BY <1>3 DEF Commit, Consistent, Drafted
<1>7. Directed'
  BY <1>a, NothingPlannedNext
<1> QED BY <1>3, <1>4, <1>6, <1>7, <1>a DEF Consistent, Drafted, v

LEMMA CompoundStep == ASSUME Consistent, Compound PROVE Consistent'
<1>1. CASE Abort
  <2>1. UNCHANGED <<world, tombs, plan, stage, live>> /\ draft # None /\ draft' = None
    BY <1>1 DEF Abort, engine, cycle, desktop
  <2>2. plan' = <<>>
    BY <2>1 DEF Consistent, Drafted
  <2>3. Directed'
    BY <2>2, NothingPlannedNext
  <2> QED BY <2>1, <2>2, <2>3 DEF Consistent, Remembered, Drafted
<1> QED BY <1>1, Commits, Focuses, MovesWindow, MovesAndFocuses, MovesWorkspace,
           MovesToTheNextDisplay, Retiles DEF Compound

-----------------------------------------------------------------------------
(***************************************************************************)
(* Commands that take no gate, and the desktop.                            *)
(***************************************************************************)

LEMMA SetsMode ==
    ASSUME Consistent, NEW n \in Names, NEW mode, SetWorkspaceMode(n, mode)
    PROVE  Consistent' /\ Homeward
<1>1. UNCHANGED <<tombs, plan, stage, draft, live>>
  BY DEF SetWorkspaceMode, Ungated, cycle, desktop
<1>2. Sane(world) /\ Remembered /\ Same(world, world) /\ NoneJoins(world, world)
  BY DEF Consistent, Same, NoneJoins
<1> DEFINE v == world'
           old == world.spaces[n]
           s == [old EXCEPT !.mode = mode]
<1>3. v = IF old.known THEN With(world, n, s) ELSE world
  BY DEF SetWorkspaceMode, With
<1> HIDE DEF v
<1>4. Sane(v) /\ Same(world, v) /\ NoneJoins(world, v)
  <2>1. CASE old.known
    <3>1. /\ SpaceShape(old) /\ Known(world, n)
          /\ \A y \in Windows : ~(y \in old.tiled /\ y \in old.floating)
      BY <1>2, <2>1 DEF Sane, WorldShape, Homed, Known
    <3>2. s = [known |-> old.known, mode |-> mode, tiled |-> old.tiled, floating |-> old.floating,
               parked |-> old.parked, visible |-> old.visible, pinned |-> old.pinned]
      BY <3>1, SpaceFields
    <3> HIDE DEF s
    <3>3. /\ SpaceShape(s) /\ s.known /\ s.tiled = old.tiled /\ s.floating = old.floating
          /\ s.visible = old.visible
      BY <2>1, <3>1, <3>2 DEF SpaceShape
    <3>4. Fitting(s, world, n)
      BY <3>1, <3>3 DEF Fitting, Members
    <3>5. \A y : y \in Members(s) => y \in Members(world.spaces[n])
      BY <3>3 DEF Members
    <3>6. NoneJoins(world, With(world, n, s))
      BY <1>2, <3>3, <3>4, <3>5, WithSane DEF NoneJoins
    <3> QED BY <1>2, <1>3, <2>1, <3>1, <3>3, <3>4, <3>6, WithSane
  <2>2. CASE ~old.known
    BY <1>2, <1>3, <2>2
  <2> QED BY <2>1, <2>2
<1>5. Remembered'
  BY <1>1, <1>2, <1>4, StillRemembered DEF v, Same, Grows
<1>6. \A dest : Promised(dest) => Promised(dest)'
  BY <1>1, <1>4, StillPromised DEF v
<1> QED BY <1>1, <1>2, <1>4, <1>5, <1>6, Beside, NobodyGoesAstray DEF v

LEMMA Standing == ASSUME Sane(world), UNCHANGED world PROVE Homeward
<1>1. NoneJoins(world, world')
  BY DEF NoneJoins, Homes
<1> QED BY <1>1, NobodyGoesAstray

LEMMA MeanwhileStep == ASSUME Consistent, Meanwhile PROVE Consistent' /\ Homeward
<1>0. Sane(world) /\ Remembered /\ Same(world, world) /\ live \subseteq Windows
  BY DEF Consistent, Same
<1>1. ASSUME NEW x \in Windows, ManageWindow(x) PROVE Consistent' /\ Homeward
  <2>1. UNCHANGED <<world, tombs, plan, stage, draft, live>>
    BY <1>1 DEF ManageWindow, Ungated, cycle, desktop
  <2> QED BY <1>0, <2>1, Idle, Standing
<1>2. ASSUME NEW x \in Windows, UnmanageWindow(x) PROVE Consistent' /\ Homeward
  <2>1. Bury(x) /\ UNCHANGED <<plan, stage, draft, live>>
    BY <1>2 DEF UnmanageWindow, Ungated, cycle, desktop
  <2>2. /\ Sane(world') /\ Same(world, world') /\ Remembered'
        /\ NoneJoins(world, world')
        /\ \A dest : Promised(dest) => Promised(dest)'
    BY <1>0, <2>1, Buried
  <2> QED BY <1>0, <2>1, <2>2, Beside, NobodyGoesAstray
<1>3. ASSUME NEW x \in Windows, FloatOrTile(x) PROVE Consistent' /\ Homeward
  <2>1. /\ world' \in {Floated(x), Tiled(x)}
        /\ UNCHANGED <<tombs, plan, stage, draft, live>>
    BY <1>3 DEF FloatOrTile, Ungated, cycle, desktop
  <2>2. Sane(world') /\ Same(world, world') /\ NoneJoins(world, world')
    BY <1>0, <2>1, FloatedOrTiled
  <2>3. Remembered'
    BY <1>0, <2>1, <2>2, StillRemembered DEF Same, Grows
  <2>4. \A dest : Promised(dest) => Promised(dest)'
    BY <2>1, <2>2, StillPromised
  <2> QED BY <1>0, <2>1, <2>2, <2>3, <2>4, Beside, NobodyGoesAstray
<1>4. ASSUME NEW x \in Windows, Open(x) PROVE Consistent' /\ Homeward
  <2>1. live' \subseteq Windows /\ UNCHANGED <<world, tombs, plan, stage, draft>>
    BY <1>0, <1>4 DEF Open, Happening, engine, cycle
  <2> QED BY <1>0, <2>1, Idle, Standing
<1>5. ASSUME NEW x \in Windows, Close(x) PROVE Consistent' /\ Homeward
  <2>1. live' \subseteq Windows /\ UNCHANGED <<world, tombs, plan, stage, draft>>
    BY <1>0, <1>5 DEF Close, Happening, engine, cycle
  <2> QED BY <1>0, <2>1, Idle, Standing
<1>6. ASSUME NEW d \in Displays, Unplug(d) PROVE Consistent' /\ Homeward
  <2>1. live' \subseteq Windows /\ UNCHANGED <<world, tombs, plan, stage, draft>>
    BY <1>0, <1>6 DEF Unplug, Happening, engine, cycle
  <2> QED BY <1>0, <2>1, Idle, Standing
<1>7. ASSUME NEW d \in Displays, Plug(d) PROVE Consistent' /\ Homeward
  <2>1. live' \subseteq Windows /\ UNCHANGED <<world, tombs, plan, stage, draft>>
    BY <1>0, <1>7 DEF Plug, Happening, engine, cycle
  <2> QED BY <1>0, <2>1, Idle, Standing
<1> QED BY <1>1, <1>2, <1>3, <1>4, <1>5, <1>6, <1>7, SetsMode DEF Meanwhile

-----------------------------------------------------------------------------
(***************************************************************************)
(* The theorems.                                                           *)
(***************************************************************************)

LEMMA Inductive == ASSUME Consistent, [Next]_vars PROVE Consistent'
<1>1. CASE UNCHANGED vars
  BY <1>1, Idle DEF vars, desktop, engine, cycle, Consistent
<1> QED BY <1>1, CycleStep, ApplyStep, CompoundStep, MeanwhileStep DEF Next

LEMMA ConsistentSuffices == ASSUME Consistent PROVE WorldIsConsistent
<1>1. Sane(world)
  BY DEF Consistent
<1>2. ASSUME NEW x \in Windows PROVE Cardinality(Homes(world, x)) <= 1
  <2>1. CASE Homes(world, x) = {}
    <3>1. Cardinality(Homes(world, x)) = 0
      BY <2>1, FS_EmptySet
    <3> QED BY <3>1
  <2>2. CASE Homes(world, x) # {}
    <3>1. PICK n : n \in Homes(world, x)
      BY <2>2
    <3>2. \A m \in Homes(world, x) : m = n
      BY <1>1, <3>1 DEF Sane, Homed, Homes
    <3>3. Homes(world, x) = {n}
      BY <3>1, <3>2
    <3>4. Cardinality({n}) = 1
      BY FS_Singleton
    <3> QED BY <3>3, <3>4
  <2> QED BY <2>1, <2>2
<1>3. OneHome
  BY <1>1, <1>2 DEF OneHome, Sane, Homed
<1>4. OneVisible
  BY <1>1 DEF OneVisible, Sane, Apart
<1> QED BY <1>3, <1>4 DEF WorldIsConsistent

\* At any time, whatever windows and displays come and go, whatever writes fail and
\* whatever commands run beside a cycle's plan, a window belongs to one workspace at
\* most and is tiled there or floats, and a display shows one workspace at most.
THEOREM WorldStaysConsistent == Spec => []WorldIsConsistent
<1>1. Init => Consistent
  BY Initially
<1>2. Consistent /\ [Next]_vars => Consistent'
  BY Inductive
<1>3. Consistent => WorldIsConsistent
  BY ConsistentSuffices
<1> QED BY <1>1, <1>2, <1>3, PTL DEF Spec

\* Whatever else a pass does, a window that the engine remembers goes nowhere but to the
\* workspace that it left, unless it is a dialog that follows its parent: commands beside
\* the plan, windows that close and failing writes included.
THEOREM RememberedReturn == Spec => ReturnsHome
<1>1. Consistent /\ [Next]_vars =>
         [stage = "apply" /\ stage' = "apply" =>
             \A x \in DOMAIN tombs \cap Homeless(world) :
                 ClassOf[x] # "transient" => Homes(world', x) \subseteq {tombs[x].space}]_vars
  <2> SUFFICES ASSUME Consistent, Next, stage = "apply", stage' = "apply"
               PROVE  Homeward
    BY DEF Homeward
  <2>1. ~Cycle
    BY DEF Cycle, BeginCycle, Gate, Observe, Verify, ApplyFails, EndCycle
  <2>2. ~Compound
    BY DEF Compound, Commit, Abort, Consistent, Drafted, FocusWorkspace, MoveWorkspaceToDisplay,
           MoveWindowToWorkspace, MoveFocusedWindowToWorkspace, MoveFocusedWorkspaceToNextDisplay,
           Retile, Unveil, Transact, Gate
  <2> QED BY <2>1, <2>2, ApplyStep, MeanwhileStep DEF Next
<1>2. Init => Consistent
  BY Initially
<1>3. Consistent /\ [Next]_vars => Consistent'
  BY Inductive
<1> QED BY <1>1, <1>2, <1>3, PTL DEF Spec, ReturnsHome

=============================================================================
