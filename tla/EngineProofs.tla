---------------------------- MODULE EngineProofs ----------------------------
(***************************************************************************)
(* Proofs about TransactionQueue, for every set of units, keys, step       *)
(* counts and limits that QueueAssumption admits, and about EngineGate,    *)
(* for every set of commands and plans, any number of steps in a plan and  *)
(* any number of hints.  The latter rest on the queue's invariant: a step  *)
(* of the engine is a step of the queue or leaves it alone.                *)
(***************************************************************************)
EXTENDS EngineGate, FiniteSetTheorems, SequenceTheorems, TLAPS

\* What one turn of the drain loop leaves: well-typed variables, and no
\* entry left behind while recovery is off.
LEMMA PumpLemma ==
    ASSUME NEW q \in Seq(Units), NEW counts \in [Keys -> Nat],
           NEW ph \in [Units -> Phases], NEW rec \in BOOLEAN,
           Pump(q, counts, ph, rec)
    PROVE  /\ pending' \in Seq(Units)
           /\ current' \in Units \cup {NoUnit}
           /\ keyCounts' \in [Keys -> Nat]
           /\ phase' \in [Units -> Phases]
           /\ current' = NoUnit /\ pending' # <<>> => rec
           /\ pending' = q \/ (q # <<>> /\ pending' = Tail(q))
<1>1. CASE q = <<>> \/ rec
  BY <1>1, QueueAssumption DEF Pump
<1>2. CASE q # <<>> /\ ~rec
  <2>1. Head(q) \in Units /\ Tail(q) \in Seq(Units)
    BY <1>2, HeadTailProperties
  <2>2. "escalating" \in Phases /\ "running" \in Phases
    BY DEF Phases
  <2>3. pending' = Tail(q) /\ current' = Head(q)
    BY <1>2 DEF Pump
  <2>4. keyCounts' \in [Keys -> Nat] /\ phase' \in [Units -> Phases]
    BY <1>2, <2>1, <2>2 DEF Pump, Suspicious
  <2>5. current' # NoUnit
    BY <2>1, <2>3, QueueAssumption
  <2>6. QED
    BY <1>2, <2>1, <2>3, <2>4, <2>5
<1>3. QED
  BY <1>1, <1>2

\* Settling a unit keeps the types and never strands an entry.
LEMMA SettleLemma ==
    ASSUME TypeOK, NoStrandedEntry, NEW u \in Units,
           NEW outcome \in Outcomes, Settle(u, outcome)
    PROVE  /\ pending' \in Seq(Units)
           /\ current' \in Units \cup {NoUnit}
           /\ keyCounts' \in [Keys -> Nat]
           /\ phase' \in [Units -> Phases]
           /\ receipt' \in [Units -> Outcomes]
           /\ current' = NoUnit /\ pending' # <<>> => recovering
           /\ pending' = pending \/ (pending # <<>> /\ pending' = Tail(pending))
<1> DEFINE awaiting == {u} \cup {v \in Units : shares[v] = u}
           settled == [v \in Units |-> IF v \in awaiting THEN "settled" ELSE phase[v]]
<1>1. settled \in [Units -> Phases]
  BY DEF TypeOK, Phases
<1>2. receipt' \in [Units -> Outcomes]
  BY DEF TypeOK, Settle
<1>3. CASE u = current /\ Pump(pending, keyCounts, settled, recovering)
  <2>1. pending \in Seq(Units) /\ keyCounts \in [Keys -> Nat] /\ recovering \in BOOLEAN
    BY DEF TypeOK
  <2> HIDE DEF settled, awaiting
  <2>2. QED
    BY <1>1, <1>2, <1>3, <2>1, PumpLemma
<1>4. CASE u # current /\ phase' = settled /\ UNCHANGED <<pending, current, keyCounts>>
  BY <1>1, <1>2, <1>4 DEF TypeOK, NoStrandedEntry
<1>5. QED
  BY <1>3, <1>4 DEF Settle

-----------------------------------------------------------------------------
(***************************************************************************)
(* Types, and no stranded entry.                                           *)
(***************************************************************************)

\* Every variable keeps its type.  NoStrandedEntry says that nothing waits in
\* the FIFO with no drain loop running unless recovery holds it: the loop that
\* finds another one busy may give up, because the busy one will see its entry.
Base == TypeOK /\ NoStrandedEntry

LEMMA BaseInit == Init => Base
<1> SUFFICES ASSUME Init PROVE Base
  OBVIOUS
<1>1. pending \in Seq(Units) /\ arrived \in Seq(Units) /\ pending = <<>>
  BY DEF Init
<1>2. keyCounts \in [Keys -> Nat] /\ current \in Units \cup {NoUnit} /\ recovering \in BOOLEAN
  BY DEF Init
<1>3. phase \in [Units -> Phases] /\ receipt \in [Units -> Outcomes]
  BY DEF Init, Phases, Outcomes
<1>4. applied \in [Units -> Nat] /\ standing \in [Units -> SUBSET Nat]
  BY DEF Init
<1>5. shares \in [Units -> Units \cup {NoUnit}]
  BY DEF Init
<1>6. QED
  BY <1>1, <1>2, <1>3, <1>4, <1>5 DEF Base, TypeOK, NoStrandedEntry

LEMMA SubmitBase ==
    ASSUME Base, NEW u \in Units,
           \/ Submit(u)
           \/ \E size \in BatchSizes : SubmitBatch(u, size)
    PROVE  Base'
<1> USE DEF Base
<1>1. CASE Coalesce(u)
  BY <1>1 DEF Coalesce, TypeOK, NoStrandedEntry, Phases
<1>2. CASE RunInline(u)
  BY <1>2 DEF RunInline, TypeOK, NoStrandedEntry, Phases
<1>3. CASE \E outcome \in Outcomes : Refuse(u, outcome)
  BY <1>3 DEF Refuse, TypeOK, NoStrandedEntry, Phases
<1>4. CASE Enqueue(u) /\ ~QueueFull
  <2> DEFINE q == Append(pending, u)
             counts == CountKey(u)
             ph == [phase EXCEPT ![u] = "pending"]
  <2>1. /\ q \in Seq(Units)
        /\ counts \in [Keys -> Nat]
        /\ ph \in [Units -> Phases]
        /\ recovering \in BOOLEAN
    BY QueueAssumption DEF TypeOK, CountKey, Phases
  <2>2. /\ Pump(q, counts, ph, recovering)
        /\ arrived' = Append(arrived, u)
        /\ UNCHANGED <<recovering, applied, standing, receipt, shares>>
    BY <1>4 DEF Enqueue
  <2> HIDE DEF q, counts, ph
  <2>3. /\ pending' \in Seq(Units)
        /\ current' \in Units \cup {NoUnit}
        /\ keyCounts' \in [Keys -> Nat]
        /\ phase' \in [Units -> Phases]
        /\ current' = NoUnit /\ pending' # <<>> => recovering
    BY ZenonT(40), <2>1, <2>2, PumpLemma
  <2>4. QED
    BY <2>2, <2>3 DEF TypeOK, NoStrandedEntry
<1>5. CASE Enqueue(u) /\ QueueFull
  BY <1>3, <1>5 DEF Enqueue, Outcomes
<1>6. QED
  BY <1>1, <1>2, <1>3, <1>4, <1>5 DEF Submit, SubmitBatch, Outcomes

\* What an execution step does to the variables that Settle does not touch.
LEMMA ExecutionFrame ==
    ASSUME TypeOK, NEW u \in Units,
           EscalationDone(u) \/ StepDone(u) \/ StepFailed(u) \/ Undo(u) \/ Deadline(u)
    PROVE  /\ UNCHANGED <<recovering, shares, arrived>>
           /\ applied' \in [Units -> Nat]
           /\ standing' \in [Units -> SUBSET Nat]
<1>1. CASE EscalationDone(u)
  BY <1>1 DEF EscalationDone, TypeOK
<1>2. CASE StepDone(u)
  BY <1>2 DEF StepDone, TypeOK
<1>3. CASE StepFailed(u)
  BY <1>3 DEF StepFailed, TypeOK
<1>4. CASE Undo(u)
  <2>1. standing[u] \ {Max(Undoable(u))} \in SUBSET Nat
    BY DEF TypeOK
  <2>2. QED
    BY <1>4, <2>1 DEF Undo, TypeOK
<1>5. CASE Deadline(u)
  BY <1>5 DEF Deadline, TypeOK
<1>6. QED
  BY <1>1, <1>2, <1>3, <1>4, <1>5

LEMMA ExecutionBase ==
    ASSUME Base, NEW u \in Units,
           EscalationDone(u) \/ StepDone(u) \/ StepFailed(u) \/ Undo(u) \/ Deadline(u)
    PROVE  Base'
<1> USE DEF Base
<1>1. CASE \E outcome \in Outcomes : Settle(u, outcome)
  <2>1. /\ UNCHANGED <<recovering, shares, arrived>>
        /\ applied' \in [Units -> Nat]
        /\ standing' \in [Units -> SUBSET Nat]
    BY ExecutionFrame
  <2>3. PICK outcome \in Outcomes : Settle(u, outcome)
    BY <1>1
  <2>4. /\ pending' \in Seq(Units)
        /\ current' \in Units \cup {NoUnit}
        /\ keyCounts' \in [Keys -> Nat]
        /\ phase' \in [Units -> Phases]
        /\ receipt' \in [Units -> Outcomes]
        /\ current' = NoUnit /\ pending' # <<>> => recovering
    BY <2>3, SettleLemma
  <2>5. QED
    BY <2>1, <2>4 DEF TypeOK, NoStrandedEntry
<1>2. CASE UNCHANGED <<pending, current, keyCounts, receipt>>
           /\ (phase' = phase \/ \E p \in Phases : phase' = [phase EXCEPT ![u] = p])
  <2>1. /\ UNCHANGED <<recovering, shares, arrived>>
        /\ applied' \in [Units -> Nat]
        /\ standing' \in [Units -> SUBSET Nat]
    BY ExecutionFrame
  <2>3. phase' \in [Units -> Phases]
    BY <1>2 DEF TypeOK
  <2>4. TypeOK'
    BY <1>2, <2>1, <2>3 DEF TypeOK
  <2>5. QED
    BY <1>2, <2>1, <2>4 DEF NoStrandedEntry
<1>3. QED
  BY <1>1, <1>2 DEF EscalationDone, StepDone, StepFailed, Undo, Deadline, Outcomes, Phases

LEMMA RecoveryBase ==
    ASSUME Base, NEW on \in BOOLEAN, SetRecovery(on)
    PROVE  Base'
<1> USE DEF Base
<1>1. CASE ~on /\ current = NoUnit /\ Pump(pending, keyCounts, phase, FALSE)
  <2>1. /\ pending \in Seq(Units) /\ keyCounts \in [Keys -> Nat]
        /\ phase \in [Units -> Phases]
    BY DEF TypeOK
  <2>2. /\ pending' \in Seq(Units)
        /\ current' \in Units \cup {NoUnit}
        /\ keyCounts' \in [Keys -> Nat]
        /\ phase' \in [Units -> Phases]
        /\ current' = NoUnit /\ pending' # <<>> => FALSE
    BY <1>1, <2>1, PumpLemma
  <2>3. QED
    BY <2>2 DEF SetRecovery, TypeOK, NoStrandedEntry
<1>2. CASE (on \/ current # NoUnit) /\ UNCHANGED <<pending, current, keyCounts, phase>>
  BY <1>2 DEF SetRecovery, TypeOK, NoStrandedEntry
<1>3. QED
  BY <1>1, <1>2 DEF SetRecovery

LEMMA BaseKept == Base /\ [Next]_vars => Base'
<1> SUFFICES ASSUME Base, [Next]_vars
             PROVE  Base'
  OBVIOUS
<1>1. CASE UNCHANGED vars
  BY <1>1 DEF Base, TypeOK, NoStrandedEntry, vars
<1>2. CASE Next
  BY <1>2, SubmitBase, ExecutionBase, RecoveryBase DEF Next
<1>3. QED
  BY <1>1, <1>2

\* The invariant of the queue: the variables keep their types and no entry is
\* ever stranded.  The two theorems after it are its two parts.
LEMMA NothingStranded == Spec => []Base
BY BaseInit, BaseKept, PTL DEF Spec

\* Type correctness: every submission's outcome is one that a receipt or a
\* SubmitError can carry, and counters are kept for coalesce keys only.
THEOREM QueueTypes == Spec => []TypeOK
<1>1. Base => TypeOK
  BY DEF Base
<1>2. QED
  BY <1>1, NothingStranded, PTL

\* No lost wakeup, the part of Base that a run checks: whenever no drain loop
\* is at work, nothing waits in the FIFO unless recovery holds it.
THEOREM NoLostWakeup == Spec => []NoStrandedEntry
<1>1. Base => NoStrandedEntry
  BY DEF Base
<1>2. QED
  BY <1>1, NothingStranded, PTL

-----------------------------------------------------------------------------
(***************************************************************************)
(* Order.  QueuedInOrder alone is not inductive: it must also be known     *)
(* that the FIFO is the tail of what arrived, that only the last unit to   *)
(* leave it may lack a receipt, and that a submitter who shares a receipt  *)
(* is not in the FIFO itself.                                              *)
(***************************************************************************)

\* The state of the FIFO q against the arrivals a when no unit is in flight.
Ordered(q, a, ph) ==
    /\ Len(q) <= Len(a)
    /\ \A i \in 1..Len(q) : q[i] = a[Len(a) - Len(q) + i]
    /\ \A i \in 1..Len(a) : ph[a[i]] # "idle" /\ ph[a[i]] # "sharing"
    /\ \A i, j \in 1..Len(a) : a[i] = a[j] => i = j
    /\ \A i \in 1..Len(a) : i > Len(a) - Len(q) => ph[a[i]] = "pending"
    /\ \A i \in 1..(Len(a) - Len(q)) : ph[a[i]] = "settled"

OrderInv ==
    /\ Len(pending) <= Len(arrived)
    /\ \A i \in 1..Len(pending) : pending[i] = arrived[Len(arrived) - Len(pending) + i]
    /\ \A i \in 1..Len(arrived) : phase[arrived[i]] # "idle" /\ phase[arrived[i]] # "sharing"
    /\ \A i, j \in 1..Len(arrived) : arrived[i] = arrived[j] => i = j
    /\ \A i \in 1..Len(arrived) :
          i > Len(arrived) - Len(pending) => phase[arrived[i]] = "pending"
    /\ \A i \in 1..(Len(arrived) - Len(pending)) :
          \/ phase[arrived[i]] = "settled"
          \/ i = Len(arrived) - Len(pending) /\ arrived[i] = current
    /\ \A v \in Units : shares[v] # NoUnit => phase[v] \in {"sharing", "settled"}

LEMMA PumpOrdered ==
    ASSUME NEW q \in Seq(Units), NEW a \in Seq(Units), NEW counts \in [Keys -> Nat],
           NEW ph \in [Units -> Phases], NEW rec \in BOOLEAN,
           Ordered(q, a, ph),
           \A v \in Units : shares'[v] # NoUnit => ph[v] \in {"sharing", "settled"},
           Pump(q, counts, ph, rec), arrived' = a
    PROVE  OrderInv'
<1>1. CASE q = <<>> \/ rec
  <2>1. pending' = q /\ phase' = ph
    BY <1>1 DEF Pump
  <2>2. QED
    BY <2>1 DEF Ordered, OrderInv
<1>2. CASE q # <<>> /\ ~rec
  <2>1. /\ Head(q) = q[1] /\ Head(q) \in Units
        /\ Tail(q) \in Seq(Units)
        /\ Len(Tail(q)) = Len(q) - 1
        /\ \A i \in 1..Len(Tail(q)) : Tail(q)[i] = q[i + 1]
        /\ Len(q) \in Nat /\ Len(q) >= 1 /\ Len(a) \in Nat
    BY <1>2, HeadTailProperties, LenProperties, EmptySeq
  <2>2. pending' = Tail(q) /\ current' = Head(q)
    BY <1>2 DEF Pump
  <2>3. PICK p \in {"escalating", "running"} : phase' = [ph EXCEPT ![Head(q)] = p]
    BY <1>2 DEF Pump
  <2>4. Head(q) = a[Len(a) - Len(q) + 1] /\ ph[Head(q)] = "pending"
    BY <2>1 DEF Ordered
  <2> DEFINE left == Len(a) - Len(q)
  <2>5. left \in Nat /\ left < Len(a)
    BY <2>1 DEF Ordered
  <2>6. \A i \in 1..Len(a) : a[i] \in Units
    BY ElementOfSeq
  <2>7. \A i \in 1..Len(a) : i # left + 1 => phase'[a[i]] = ph[a[i]]
    <3>1. SUFFICES ASSUME NEW i \in 1..Len(a), i # left + 1
                   PROVE  phase'[a[i]] = ph[a[i]]
      OBVIOUS
    <3>2. left + 1 \in 1..Len(a) /\ a[left + 1] = Head(q)
      BY <2>4, <2>5
    <3>3. a[i] # Head(q)
      BY <3>1, <3>2 DEF Ordered
    <3>4. QED
      BY <2>3, <2>6, <3>3
  <2>8. Len(arrived') - Len(pending') = left + 1
    BY <2>1, <2>2
  <2>9. /\ Len(pending') <= Len(arrived')
        /\ \A i \in 1..Len(pending') :
              pending'[i] = arrived'[Len(arrived') - Len(pending') + i]
    BY <2>1, <2>2, <2>5, <2>8 DEF Ordered
  <2>10. phase'[a[left + 1]] \in {"escalating", "running"}
    BY <2>1, <2>3, <2>4
  <2>11. /\ \A i \in 1..Len(a) : phase'[a[i]] # "idle" /\ phase'[a[i]] # "sharing"
         /\ \A i \in 1..Len(a) : i > left + 1 => phase'[a[i]] = "pending"
    <3>1. SUFFICES ASSUME NEW i \in 1..Len(a)
                   PROVE  /\ phase'[a[i]] # "idle" /\ phase'[a[i]] # "sharing"
                          /\ i > left + 1 => phase'[a[i]] = "pending"
      OBVIOUS
    <3>2. /\ ph[a[i]] # "idle" /\ ph[a[i]] # "sharing"
          /\ i > left => ph[a[i]] = "pending"
      BY DEF Ordered
    <3>3. CASE i = left + 1
      BY <2>5, <2>10, <3>3
    <3>4. CASE i # left + 1
      BY <2>5, <2>7, <3>2, <3>4
    <3>5. QED
      BY <3>3, <3>4
  <2>12. \A i \in 1..(left + 1) :
            phase'[a[i]] = "settled" \/ (i = left + 1 /\ a[i] = current')
    <3>1. SUFFICES ASSUME NEW i \in 1..(left + 1)
                   PROVE  phase'[a[i]] = "settled" \/ (i = left + 1 /\ a[i] = current')
      OBVIOUS
    <3>2. CASE i = left + 1
      BY <2>2, <2>4, <3>2
    <3>3. CASE i # left + 1
      <4>1. i \in 1..left /\ i \in 1..Len(a)
        BY <2>5, <3>3
      <4>2. ph[a[i]] = "settled"
        BY <4>1 DEF Ordered
      <4>3. QED
        BY <2>7, <3>3, <4>1, <4>2
    <3>4. QED
      BY <3>2, <3>3
  <2>13. \A v \in Units : shares'[v] # NoUnit => phase'[v] \in {"sharing", "settled"}
    <3>1. SUFFICES ASSUME NEW v \in Units, shares'[v] # NoUnit
                   PROVE  phase'[v] \in {"sharing", "settled"}
      OBVIOUS
    <3>2. ph[v] \in {"sharing", "settled"}
      BY <3>1
    <3>3. v # Head(q)
      BY <2>4, <3>2
    <3>4. phase'[v] = ph[v]
      BY <2>3, <3>3
    <3>5. QED
      BY <3>2, <3>4
  <2> HIDE DEF left
  <2>14. QED
    BY <2>8, <2>9, <2>11, <2>12, <2>13 DEF OrderInv, Ordered
<1>3. QED
  BY <1>1, <1>2

\* A step that only moves the phase of a unit outside the FIFO, and not to
\* or from a phase the order speaks of, keeps the order.
LEMMA PhaseOrder ==
    ASSUME Base, OrderInv, NEW u \in Units, NEW p \in Phases,
           UNCHANGED <<pending, current, arrived>>,
           phase' = [phase EXCEPT ![u] = p],
           \/ phase[u] = "idle"
           \/ /\ phase[u] \in {"escalating", "running"}
              /\ p \in {"running", "undoing"},
           \A v \in Units : shares'[v] # NoUnit =>
               shares[v] # NoUnit \/ (v = u /\ p = "sharing")
    PROVE  OrderInv'
<1>1. \A i \in 1..Len(arrived) : arrived[i] \in Units
  BY ElementOfSeq DEF Base, TypeOK
<1>2. \A i \in 1..Len(arrived) :
         \/ phase'[arrived[i]] = phase[arrived[i]]
         \/ phase'[arrived[i]] \in {"running", "undoing"} /\ phase[arrived[i]] \in {"escalating", "running"}
  BY <1>1 DEF OrderInv, Base, TypeOK
<1>3. \A v \in Units : shares'[v] # NoUnit => phase'[v] \in {"sharing", "settled"}
  <2>1. SUFFICES ASSUME NEW v \in Units, shares'[v] # NoUnit
                 PROVE  phase'[v] \in {"sharing", "settled"}
    OBVIOUS
  <2>2. CASE v = u /\ p = "sharing"
    BY <2>2 DEF Base, TypeOK
  <2>3. CASE shares[v] # NoUnit
    <3>1. phase[v] \in {"sharing", "settled"}
      BY <2>3 DEF OrderInv
    <3>2. v # u
      BY <3>1
    <3>3. QED
      BY <3>1, <3>2 DEF Base, TypeOK
  <2>4. QED
    BY <2>1, <2>2, <2>3
<1>4. /\ \A i \in 1..Len(arrived) : phase'[arrived[i]] # "idle" /\ phase'[arrived[i]] # "sharing"
      /\ \A i \in 1..Len(arrived) :
            i > Len(arrived) - Len(pending) => phase'[arrived[i]] = "pending"
  BY <1>2 DEF OrderInv
<1>5. \A i \in 1..(Len(arrived) - Len(pending)) :
          \/ phase'[arrived[i]] = "settled"
          \/ i = Len(arrived) - Len(pending) /\ arrived[i] = current
  <2>1. SUFFICES ASSUME NEW i \in 1..(Len(arrived) - Len(pending))
                 PROVE  \/ phase'[arrived[i]] = "settled"
                        \/ i = Len(arrived) - Len(pending) /\ arrived[i] = current
    OBVIOUS
  <2>2. Len(arrived) \in Nat /\ Len(pending) \in Nat
    BY DEF Base, TypeOK
  <2>3. i \in 1..Len(arrived)
    BY <2>2
  <2>4. QED
    BY <1>2, <2>3 DEF OrderInv
<1>6. QED
  BY <1>3, <1>4, <1>5 DEF OrderInv

LEMMA SubmitOrder ==
    ASSUME Base, OrderInv, NEW u \in Units,
           \/ Submit(u)
           \/ \E size \in BatchSizes : SubmitBatch(u, size)
    PROVE  OrderInv'
<1>1. phase[u] = "idle" /\ phase \in [Units -> Phases]
  BY DEF Submit, SubmitBatch, Base, TypeOK
<1>2. CASE Coalesce(u)
  <2>1. /\ phase' = [phase EXCEPT ![u] = "sharing"]
        /\ UNCHANGED <<pending, current, arrived>>
        /\ \A v \in Units : v # u => shares'[v] = shares[v]
    BY <1>2 DEF Coalesce, Base, TypeOK
  <2>2. QED
    <3>1. "sharing" \in Phases
      BY DEF Phases
    <3>2. \A v \in Units : shares'[v] # NoUnit => shares[v] # NoUnit \/ v = u
      BY <2>1
    <3>3. QED
      BY <1>1, <2>1, <3>1, <3>2, PhaseOrder
<1>3. CASE RunInline(u) \/ \E outcome \in Outcomes : Refuse(u, outcome)
  <2>1. PICK p \in Phases : phase' = [phase EXCEPT ![u] = p]
    BY <1>3 DEF RunInline, Refuse, Phases
  <2>2. UNCHANGED <<pending, current, arrived, shares>>
    BY <1>3 DEF RunInline, Refuse
  <2>3. QED
    BY <1>1, <2>1, <2>2, PhaseOrder
<1>4. CASE Enqueue(u) /\ ~QueueFull
  <2> DEFINE q == Append(pending, u)
             a == Append(arrived, u)
             counts == CountKey(u)
             ph == [phase EXCEPT ![u] = "pending"]
  <2>1. /\ q \in Seq(Units) /\ a \in Seq(Units)
        /\ counts \in [Keys -> Nat]
        /\ ph \in [Units -> Phases]
        /\ recovering \in BOOLEAN
    BY QueueAssumption DEF Base, TypeOK, CountKey, Phases
  <2>2. /\ Len(pending) \in Nat /\ Len(arrived) \in Nat
        /\ Len(q) = Len(pending) + 1 /\ Len(a) = Len(arrived) + 1
        /\ q[Len(q)] = u /\ a[Len(a)] = u
        /\ \A i \in 1..Len(pending) : q[i] = pending[i]
        /\ \A i \in 1..Len(arrived) : a[i] = arrived[i] /\ arrived[i] \in Units
    BY ElementOfSeq DEF Base, TypeOK
  <2>3. /\ current = NoUnit
        /\ Pump(q, counts, ph, recovering)
        /\ arrived' = a /\ shares' = shares
    BY <1>4 DEF Enqueue
  <2>4. \A i \in 1..Len(arrived) : arrived[i] # u
    BY <1>1 DEF OrderInv
  <2>5. \A i \in 1..Len(arrived) : ph[a[i]] = phase[arrived[i]]
    BY <1>1, <2>2, <2>4
  <2>6. ph[u] = "pending"
    BY <1>1
  <2>7. \A v \in Units : shares'[v] # NoUnit => ph[v] \in {"sharing", "settled"}
    <3>1. SUFFICES ASSUME NEW v \in Units, shares[v] # NoUnit
                   PROVE  ph[v] \in {"sharing", "settled"}
      BY <2>3
    <3>2. phase[v] \in {"sharing", "settled"}
      BY <3>1 DEF OrderInv
    <3>3. QED
      BY <1>1, <3>2
  <2> HIDE DEF q, a, counts, ph
  <2>8. Len(a) - Len(q) = Len(arrived) - Len(pending) /\ Len(q) <= Len(a)
    BY <2>2 DEF OrderInv
  <2>9. /\ \A i \in 1..Len(q) : q[i] = a[Len(a) - Len(q) + i]
        /\ \A i \in 1..Len(a) : ph[a[i]] # "idle" /\ ph[a[i]] # "sharing"
        /\ \A i \in 1..Len(a) : i > Len(a) - Len(q) => ph[a[i]] = "pending"
    <3>1. \A i \in 1..Len(q) : q[i] = a[Len(a) - Len(q) + i]
      <4>1. SUFFICES ASSUME NEW i \in 1..Len(q)
                     PROVE  q[i] = a[Len(a) - Len(q) + i]
        OBVIOUS
      <4>2. CASE i = Len(q)
        BY <2>2, <4>2
      <4>3. CASE i # Len(q)
        <5>1. /\ i \in 1..Len(pending)
              /\ Len(arrived) - Len(pending) + i \in 1..Len(arrived)
          BY <2>2, <4>3 DEF OrderInv
        <5>2. q[i] = pending[i] /\ pending[i] = arrived[Len(arrived) - Len(pending) + i]
          BY <2>2, <5>1 DEF OrderInv
        <5>3. a[Len(arrived) - Len(pending) + i] = arrived[Len(arrived) - Len(pending) + i]
          BY <2>2, <5>1
        <5>4. QED
          BY <2>8, <5>2, <5>3
      <4>4. QED
        BY <4>2, <4>3
    <3>2. ASSUME NEW i \in 1..Len(a)
          PROVE  /\ ph[a[i]] # "idle" /\ ph[a[i]] # "sharing"
                 /\ i > Len(a) - Len(q) => ph[a[i]] = "pending"
      <4>1. CASE i = Len(a)
        BY <2>2, <2>6, <4>1
      <4>2. CASE i # Len(a)
        <5>1. i \in 1..Len(arrived)
          BY <2>2, <4>2
        <5>2. QED
          BY <2>5, <2>8, <5>1 DEF OrderInv
      <4>3. QED
        BY <4>1, <4>2
    <3>3. QED
      BY <3>1, <3>2
  <2>10. \A i, j \in 1..Len(a) : a[i] = a[j] => i = j
    BY <2>2, <2>4 DEF OrderInv
  <2>11. \A i \in 1..(Len(a) - Len(q)) : ph[a[i]] = "settled"
    <3>1. SUFFICES ASSUME NEW i \in 1..(Len(a) - Len(q))
                   PROVE  ph[a[i]] = "settled"
      OBVIOUS
    <3>2. i \in 1..(Len(arrived) - Len(pending)) /\ i \in 1..Len(arrived)
      BY <2>2, <2>8
    <3>3. arrived[i] # current
      BY <2>2, <2>3, <3>2, QueueAssumption
    <3>4. phase[arrived[i]] = "settled"
      BY <3>2, <3>3 DEF OrderInv
    <3>5. QED
      BY <2>5, <3>2, <3>4
  <2>12. Ordered(q, a, ph)
    BY <2>8, <2>9, <2>10, <2>11 DEF Ordered
  <2>13. QED
    BY <2>1, <2>3, <2>7, <2>12, PumpOrdered
<1>5. CASE Enqueue(u) /\ QueueFull
  BY <1>3, <1>5 DEF Enqueue, Outcomes
<1>6. QED
  BY <1>2, <1>3, <1>4, <1>5 DEF Submit, SubmitBatch, Outcomes

LEMMA SettleOrder ==
    ASSUME Base, OrderInv, NEW u \in Units, phase[u] \in {"running", "undoing"},
           NEW outcome \in Outcomes, Settle(u, outcome), UNCHANGED <<arrived, shares>>
    PROVE  OrderInv'
<1> DEFINE awaiting == {u} \cup {v \in Units : shares[v] = u}
           settled == [v \in Units |-> IF v \in awaiting THEN "settled" ELSE phase[v]]
<1>1. /\ settled \in [Units -> Phases]
      /\ \A v \in Units : settled[v] = "settled" \/ settled[v] = phase[v]
      /\ settled[u] = "settled"
  BY DEF Base, TypeOK, Phases
<1>2. \A v \in Units : phase[v] = "pending" => settled[v] = "pending"
  <2>1. SUFFICES ASSUME NEW v \in Units, phase[v] = "pending"
                 PROVE  v \notin awaiting
    OBVIOUS
  <2>2. v # u
    BY <2>1
  <2>3. shares[v] = NoUnit
    BY <2>1 DEF OrderInv
  <2>4. QED
    BY <2>2, <2>3, QueueAssumption
<1>3. \A v \in Units : shares'[v] # NoUnit => settled[v] \in {"sharing", "settled"}
  <2>1. SUFFICES ASSUME NEW v \in Units, shares[v] # NoUnit
                 PROVE  settled[v] \in {"sharing", "settled"}
    OBVIOUS
  <2>2. phase[v] \in {"sharing", "settled"}
    BY <2>1 DEF OrderInv
  <2>3. QED
    BY <1>1, <2>2
<1>4. /\ \A i \in 1..Len(arrived) : arrived[i] \in Units
      /\ Len(arrived) \in Nat /\ Len(pending) \in Nat
  BY ElementOfSeq DEF Base, TypeOK
<1>5. \/ u = current /\ Pump(pending, keyCounts, settled, recovering)
      \/ u # current /\ phase' = settled /\ UNCHANGED <<pending, current>>
  BY DEF Settle
<1> HIDE DEF settled, awaiting
<1>6. /\ \A i \in 1..Len(arrived) : settled[arrived[i]] # "idle" /\ settled[arrived[i]] # "sharing"
      /\ \A i \in 1..Len(arrived) :
            i > Len(arrived) - Len(pending) => settled[arrived[i]] = "pending"
  BY SMTT(40), <1>1, <1>2, <1>4 DEF OrderInv
<1>7. \A i \in 1..(Len(arrived) - Len(pending)) :
         \/ settled[arrived[i]] = "settled"
         \/ i = Len(arrived) - Len(pending) /\ arrived[i] = current /\ current # u
  <2>1. SUFFICES ASSUME NEW i \in 1..(Len(arrived) - Len(pending))
                 PROVE  \/ settled[arrived[i]] = "settled"
                        \/ i = Len(arrived) - Len(pending) /\ arrived[i] = current /\ current # u
    OBVIOUS
  <2>2. arrived[i] \in Units
    BY <1>4
  <2>3. \/ phase[arrived[i]] = "settled"
        \/ i = Len(arrived) - Len(pending) /\ arrived[i] = current
    BY DEF OrderInv
  <2>4. QED
    BY <1>1, <2>2, <2>3
<1>8. CASE u = current /\ Pump(pending, keyCounts, settled, recovering)
  <2>1. Ordered(pending, arrived, settled)
    BY <1>6, <1>7, <1>8 DEF OrderInv, Ordered
  <2>2. /\ pending \in Seq(Units) /\ arrived \in Seq(Units) /\ keyCounts \in [Keys -> Nat]
        /\ recovering \in BOOLEAN
    BY DEF Base, TypeOK
  <2>3. QED
    BY <1>1, <1>3, <1>8, <2>1, <2>2, PumpOrdered
<1>9. CASE u # current /\ phase' = settled /\ UNCHANGED <<pending, current>>
  BY <1>3, <1>6, <1>7, <1>9 DEF OrderInv
<1>10. QED
  BY <1>5, <1>8, <1>9

LEMMA ExecutionOrder ==
    ASSUME Base, OrderInv, NEW u \in Units,
           EscalationDone(u) \/ StepDone(u) \/ StepFailed(u) \/ Undo(u) \/ Deadline(u)
    PROVE  OrderInv'
<1>1. UNCHANGED <<arrived, shares>>
  BY ExecutionFrame DEF Base
<1>2. CASE phase[u] \in {"running", "undoing"} /\ \E outcome \in Outcomes : Settle(u, outcome)
  BY <1>1, <1>2, SettleOrder
<1>3. CASE /\ UNCHANGED <<pending, current>>
           /\ phase[u] \in {"escalating", "running"}
           /\ \E p \in {"running", "undoing"} : phase' = [phase EXCEPT ![u] = p]
  BY <1>1, <1>3, PhaseOrder DEF Phases
<1>4. CASE UNCHANGED <<pending, current, phase>>
  BY <1>1, <1>4 DEF OrderInv
<1>5. QED
  BY <1>2, <1>3, <1>4
     DEF EscalationDone, StepDone, StepFailed, Undo, Deadline, Outcomes

LEMMA RecoveryOrder ==
    ASSUME Base, OrderInv, NEW on \in BOOLEAN, SetRecovery(on)
    PROVE  OrderInv'
<1>1. arrived' = arrived /\ shares' = shares
  BY DEF SetRecovery
<1>2. CASE ~on /\ current = NoUnit /\ Pump(pending, keyCounts, phase, FALSE)
  <2>1. /\ pending \in Seq(Units) /\ arrived \in Seq(Units) /\ keyCounts \in [Keys -> Nat]
        /\ phase \in [Units -> Phases]
        /\ \A i \in 1..Len(arrived) : arrived[i] \in Units
        /\ Len(arrived) \in Nat /\ Len(pending) \in Nat
    BY ElementOfSeq DEF Base, TypeOK
  <2>2. Ordered(pending, arrived, phase)
    BY <1>2, <2>1, QueueAssumption DEF OrderInv, Ordered
  <2>3. \A v \in Units : shares'[v] # NoUnit => phase[v] \in {"sharing", "settled"}
    BY <1>1 DEF OrderInv
  <2>4. QED
    BY <1>1, <1>2, <2>1, <2>2, <2>3, PumpOrdered
<1>3. CASE UNCHANGED <<pending, current, keyCounts, phase>>
  BY <1>1, <1>3 DEF OrderInv
<1>4. QED
  BY <1>2, <1>3 DEF SetRecovery

LEMMA OrderInvImplies == Base /\ OrderInv => QueuedInOrder
<1> SUFFICES ASSUME Base, OrderInv, NEW i \in DOMAIN arrived, NEW j \in DOMAIN arrived,
                    i < j, phase[arrived[j]] # "pending"
             PROVE  phase[arrived[i]] = "settled"
  BY DEF QueuedInOrder
<1>1. /\ Len(arrived) \in Nat /\ Len(pending) \in Nat
      /\ i \in 1..Len(arrived) /\ j \in 1..Len(arrived)
  BY DEF Base, TypeOK
<1>2. j <= Len(arrived) - Len(pending)
  BY <1>1 DEF OrderInv
<1>3. i \in 1..(Len(arrived) - Len(pending)) /\ i # Len(arrived) - Len(pending)
  BY <1>1, <1>2
<1>4. QED
  BY <1>3 DEF OrderInv

LEMMA OrderInit == Init => OrderInv
BY DEF Init, OrderInv

LEMMA OrderKept == Base /\ OrderInv /\ [Next]_vars => OrderInv'
<1> SUFFICES ASSUME Base, OrderInv, [Next]_vars
             PROVE  OrderInv'
  OBVIOUS
<1>1. CASE UNCHANGED vars
  BY <1>1 DEF OrderInv, vars
<1>2. CASE Next
  BY <1>2, SubmitOrder, ExecutionOrder, RecoveryOrder DEF Next
<1>3. QED
  BY <1>1, <1>2

\* Units that took the FIFO start in the order in which they joined it, and
\* each starts only when the one before it has its receipt.
THEOREM FirstInFirstOut == Spec => []QueuedInOrder
BY OrderInit, OrderKept, NothingStranded, OrderInvImplies, PTL DEF Spec

\* Both, as the run checks them.
THEOREM QueueIsServed == Spec => []ServedInOrder
<1>1. NoStrandedEntry /\ QueuedInOrder => ServedInOrder
  BY DEF ServedInOrder
<1>2. QED
  BY <1>1, NoLostWakeup, FirstInFirstOut, PTL

-----------------------------------------------------------------------------
(***************************************************************************)
(* Rollback.  A unit that has not begun has no step to undo, and neither   *)
(* has one that shares a receipt: that is why a receipt of status "failed" *)
(* may be handed to those who share it.                                    *)
(***************************************************************************)

NotBegun == {"idle", "sharing", "pending", "escalating"}

RolledBack ==
    /\ FailedIsRolledBack
    /\ \A v \in Units : receipt[v] = "failed" => phase[v] = "settled"
    /\ \A v \in Units : phase[v] \in NotBegun \/ shares[v] # NoUnit => standing[v] = {}

LEMMA PumpPhases ==
    ASSUME NEW q \in Seq(Units), NEW counts, NEW ph \in [Units -> Phases], NEW rec \in BOOLEAN,
           q # <<>> => ph[Head(q)] = "pending",
           Pump(q, counts, ph, rec)
    PROVE  \A v \in Units : \/ phase'[v] = ph[v]
                            \/ ph[v] = "pending" /\ phase'[v] \in {"escalating", "running"}
<1>1. CASE phase' = ph
  BY <1>1
<1>2. CASE q # <<>> /\ \E p \in {"escalating", "running"} : phase' = [ph EXCEPT ![Head(q)] = p]
  BY <1>2
<1> QED BY <1>1, <1>2 DEF Pump

LEMMA HeadIsPending ==
    ASSUME Base, OrderInv, pending # <<>>
    PROVE  Head(pending) \in Units /\ phase[Head(pending)] = "pending" /\ shares[Head(pending)] = NoUnit
<1>1. /\ Len(pending) \in Nat /\ Len(pending) >= 1 /\ Len(arrived) \in Nat
      /\ Head(pending) = pending[1] /\ Head(pending) \in Units
  BY HeadTailProperties, LenProperties, EmptySeq DEF Base, TypeOK
<1>2. /\ Head(pending) = arrived[Len(arrived) - Len(pending) + 1]
      /\ Len(arrived) - Len(pending) + 1 \in 1..Len(arrived)
  BY <1>1 DEF OrderInv
<1>3. phase[Head(pending)] = "pending"
  BY SMTT(40), <1>1, <1>2 DEF OrderInv
<1> QED BY <1>1, <1>3 DEF OrderInv

\* A step that gives no receipt of status "failed" and undoes nothing.
LEMMA NothingFails ==
    ASSUME Base, RolledBack, UNCHANGED <<applied, standing, shares>>,
           \A v \in Units : /\ receipt'[v] = "failed" => receipt[v] = "failed" /\ phase'[v] = phase[v]
                            /\ phase'[v] \in NotBegun => phase[v] \in NotBegun
    PROVE  RolledBack'
BY DEF RolledBack, FailedIsRolledBack, Undoable

LEMMA SubmitRolledBack ==
    ASSUME Base, OrderInv, RolledBack, NEW u \in Units,
           \/ Submit(u)
           \/ \E size \in BatchSizes : SubmitBatch(u, size)
    PROVE  RolledBack'
<1>1. phase[u] = "idle" /\ phase \in [Units -> Phases] /\ receipt \in [Units -> Outcomes]
      /\ shares \in [Units -> Units \cup {NoUnit}]
  BY DEF Submit, SubmitBatch, Base, TypeOK
<1>2. receipt[u] # "failed" /\ standing[u] = {}
  BY <1>1 DEF RolledBack, NotBegun
<1>3. CASE Coalesce(u)
  <2>1. PICK v \in Units :
          shares' = [shares EXCEPT ![u] = v] /\ phase' = [phase EXCEPT ![u] = "sharing"]
          /\ UNCHANGED <<applied, standing, receipt>>
    BY <1>3 DEF Coalesce
  <2>2. \A w \in Units : w # u => shares'[w] = shares[w] /\ phase'[w] = phase[w]
    BY <1>1, <2>1
  <2>3. \A w \in Units : receipt'[w] = "failed" => w # u
    BY <1>2, <2>1
  <2> QED BY <1>2, <2>1, <2>2, <2>3 DEF RolledBack, FailedIsRolledBack, Undoable
<1>4. CASE RunInline(u) \/ \E outcome \in {"queue_full", "completed", "invalid_request"} : Refuse(u, outcome)
  <2>1. /\ UNCHANGED <<applied, standing, shares>>
        /\ \E p \in {"running", "settled"} : phase' = [phase EXCEPT ![u] = p]
        /\ \/ receipt' = receipt
           \/ \E o \in {"queue_full", "completed", "invalid_request"} : receipt' = [receipt EXCEPT ![u] = o]
    BY <1>4 DEF RunInline, Refuse
  <2>2. \A v \in Units : phase'[v] = phase[v] \/ (v = u /\ phase'[v] \notin NotBegun)
    BY <1>1, <2>1 DEF NotBegun
  <2>3. \A v \in Units : receipt'[v] = "failed" => receipt[v] = "failed" /\ v # u
    BY <1>1, <1>2, <2>1
  <2> QED BY <2>1, <2>2, <2>3, NothingFails
<1>5. CASE Enqueue(u) /\ ~QueueFull
  <2> DEFINE q == Append(pending, u)
             ph == [phase EXCEPT ![u] = "pending"]
  <2>1. q \in Seq(Units) /\ ph \in [Units -> Phases] /\ recovering \in BOOLEAN
    BY <1>1 DEF Base, TypeOK, Phases
  <2>2. Pump(q, CountKey(u), ph, recovering) /\ UNCHANGED <<applied, standing, receipt, shares>>
    BY <1>5 DEF Enqueue
  <2>3. ph[Head(q)] = "pending"
    <3>1. CASE pending = <<>>
      BY <1>1, <3>1
    <3>2. CASE pending # <<>>
      <4>1. Head(q) = Head(pending)
        BY <3>2 DEF Base, TypeOK
      <4> QED BY <1>1, <3>2, <4>1, HeadIsPending
    <3> QED BY <3>1, <3>2
  <2>4. \A v \in Units : /\ v # u => ph[v] = phase[v]
                         /\ ph[u] = "pending"
    BY <1>1
  <2> HIDE DEF q, ph
  <2>5. \A v \in Units : \/ phase'[v] = ph[v]
                         \/ ph[v] = "pending" /\ phase'[v] \in {"escalating", "running"}
    BY <2>1, <2>2, <2>3, PumpPhases
  <2>6. \A v \in Units : receipt[v] = "failed" => phase'[v] = phase[v]
    BY <1>2, <2>4, <2>5 DEF RolledBack
  <2>7. \A v \in Units : phase'[v] \in NotBegun => phase[v] \in NotBegun
    BY <1>1, <2>4, <2>5 DEF NotBegun
  <2> QED BY <2>2, <2>6, <2>7, NothingFails
<1>6. CASE Enqueue(u) /\ QueueFull
  BY <1>4, <1>6 DEF Enqueue
<1> QED BY <1>3, <1>4, <1>5, <1>6 DEF Submit, SubmitBatch

LEMMA SettleRolledBack ==
    ASSUME Base, OrderInv, RolledBack, NEW u \in Units, phase[u] \in {"running", "undoing"},
           NEW outcome \in Outcomes, Settle(u, outcome), shares' = shares,
           \A v \in Units \ {u} : standing'[v] = standing[v] /\ applied'[v] = applied[v],
           outcome = "failed" => Undoable(u)' = {}
    PROVE  RolledBack'
<1> DEFINE awaiting == {u} \cup {v \in Units : shares[v] = u}
           settled == [v \in Units |-> IF v \in awaiting THEN "settled" ELSE phase[v]]
<1>1. /\ phase \in [Units -> Phases] /\ settled \in [Units -> Phases]
      /\ \A v \in Units : settled[v] = IF v \in awaiting THEN "settled" ELSE phase[v]
      /\ pending \in Seq(Units) /\ recovering \in BOOLEAN
  BY DEF Base, TypeOK, Phases
<1>2. \A v \in Units : receipt'[v] = IF v \in awaiting THEN outcome ELSE receipt[v]
  BY DEF Settle
<1>3. \/ Pump(pending, keyCounts, settled, recovering)
      \/ phase' = settled
  BY DEF Settle
<1>4. u \in awaiting /\ shares[u] = NoUnit
  BY DEF OrderInv
<1>5. \A v \in awaiting \ {u} : standing'[v] = {} /\ v \in Units
  BY QueueAssumption DEF RolledBack
<1>6. pending # <<>> => settled[Head(pending)] = "pending"
  BY <1>1, HeadIsPending, QueueAssumption
<1> HIDE DEF awaiting, settled
<1>7. \A v \in Units : \/ phase'[v] = settled[v]
                       \/ settled[v] = "pending" /\ phase'[v] \in {"escalating", "running"}
  BY <1>1, <1>3, <1>6, PumpPhases
<1>8. ASSUME NEW v \in Units, receipt'[v] = "failed"
      PROVE  Undoable(v)' = {} /\ phase'[v] = "settled"
  <2>1. CASE v \in awaiting
    <3>1. outcome = "failed" /\ phase'[v] = "settled"
      BY <1>1, <1>2, <1>7, <1>8, <2>1
    <3>2. CASE v = u
      BY <3>1, <3>2
    <3>3. CASE v # u
      BY <1>5, <2>1, <3>1, <3>3 DEF Undoable
    <3> QED BY <3>2, <3>3
  <2>2. CASE v \notin awaiting
    <3>1. receipt[v] = "failed" /\ v # u
      BY <1>2, <1>4, <1>8, <2>2
    <3>2. Undoable(v) = {} /\ phase[v] = "settled"
      BY <3>1 DEF RolledBack, FailedIsRolledBack
    <3> QED BY <1>1, <1>7, <2>2, <3>1, <3>2 DEF Undoable
  <2> QED BY <2>1, <2>2
<1>9. ASSUME NEW v \in Units, phase'[v] \in NotBegun \/ shares'[v] # NoUnit
      PROVE  standing'[v] = {}
  <2>1. v # u
    BY <1>1, <1>4, <1>7, <1>9 DEF NotBegun
  <2>2. phase[v] \in NotBegun \/ shares[v] # NoUnit \/ v \in awaiting
    BY <1>1, <1>7, <1>9 DEF NotBegun
  <2>3. standing[v] = {} \/ v \in awaiting
    BY <2>2 DEF RolledBack
  <2> QED BY <1>5, <2>1, <2>3
<1> QED BY <1>8, <1>9 DEF RolledBack, FailedIsRolledBack

LEMMA LastUndone ==
    ASSUME TypeOK, NEW u \in Units, Cardinality(Undoable(u)) = 1,
           standing' = [standing EXCEPT ![u] = @ \ {Max(Undoable(u))}], applied' = applied
    PROVE  Undoable(u)' = {}
<1>1. IsFiniteSet(Undoable(u))
  <2>1. IsFiniteSet(1..applied[u])
    BY FS_Interval DEF TypeOK
  <2> QED BY <2>1, FS_Subset DEF Undoable
<1>2. PICK m : Undoable(u) = {m}
  BY <1>1, FS_Singleton
<1>3. m \in Nat
  BY <1>2 DEF Undoable, TypeOK
<1>4. Max(Undoable(u)) = m
  BY <1>2, <1>3 DEF Max
<1>5. standing'[u] = standing[u] \ {m}
  BY <1>4 DEF TypeOK
<1> QED BY <1>2, <1>5 DEF Undoable

LEMMA ExecutionRolledBack ==
    ASSUME Base, OrderInv, RolledBack, NEW u \in Units,
           EscalationDone(u) \/ StepDone(u) \/ StepFailed(u) \/ Undo(u) \/ Deadline(u)
    PROVE  RolledBack'
<1>1. shares' = shares /\ TypeOK
  BY ExecutionFrame DEF Base
<1>2. \A v \in Units \ {u} : standing'[v] = standing[v] /\ applied'[v] = applied[v]
  BY <1>1 DEF TypeOK, EscalationDone, StepDone, StepFailed, Undo, Deadline
<1>3. CASE EscalationDone(u)
  BY <1>1, <1>3, NothingFails DEF EscalationDone, TypeOK, NotBegun, RolledBack
<1>4. CASE StepDone(u)
  <2>1. CASE Settle(u, "completed")
    BY <1>1, <1>2, <1>4, <2>1, SettleRolledBack DEF StepDone, Outcomes
  <2>2. CASE UNCHANGED <<phase, receipt>>
    <3>1. phase[u] = "running" /\ receipt[u] # "failed" /\ shares[u] = NoUnit
      BY <1>4 DEF StepDone, RolledBack, OrderInv
    <3> QED BY <1>1, <1>2, <2>2, <3>1 DEF RolledBack, FailedIsRolledBack, Undoable, NotBegun
  <2> QED BY <1>4, <2>1, <2>2 DEF StepDone
<1>5. CASE StepFailed(u)
  <2>1. CASE Undoable(u) = {} /\ Settle(u, "failed")
    BY <1>1, <1>2, <1>5, <2>1, SettleRolledBack DEF StepFailed, Outcomes, Undoable
  <2>2. CASE phase' = [phase EXCEPT ![u] = "undoing"] /\ UNCHANGED receipt
    BY <1>1, <1>5, <2>2, NothingFails DEF StepFailed, TypeOK, NotBegun, RolledBack
  <2> QED BY <1>5, <2>1, <2>2 DEF StepFailed
<1>6. CASE Undo(u)
  <2>1. CASE Cardinality(Undoable(u)) = 1 /\ Settle(u, "failed")
    <3>1. Undoable(u)' = {}
      BY <1>1, <1>6, <2>1, LastUndone DEF Undo
    <3> QED BY <1>1, <1>2, <1>6, <2>1, <3>1, SettleRolledBack DEF Undo, Outcomes
  <2>2. CASE UNCHANGED <<phase, receipt>>
    <3>1. phase[u] = "undoing" /\ receipt[u] # "failed" /\ shares[u] = NoUnit
      BY <1>6 DEF Undo, RolledBack, OrderInv
    <3> QED BY <1>1, <1>2, <2>2, <3>1 DEF RolledBack, FailedIsRolledBack, Undoable, NotBegun
  <2> QED BY <1>6, <2>1, <2>2 DEF Undo
<1>7. CASE Deadline(u)
  BY <1>1, <1>2, <1>7, SettleRolledBack DEF Deadline, Outcomes
<1> QED BY <1>3, <1>4, <1>5, <1>6, <1>7

LEMMA RecoveryRolledBack ==
    ASSUME Base, OrderInv, RolledBack, NEW on \in BOOLEAN, SetRecovery(on)
    PROVE  RolledBack'
<1>1. UNCHANGED <<applied, standing, receipt, shares>>
  BY DEF SetRecovery
<1>2. CASE Pump(pending, keyCounts, phase, FALSE)
  <2>1. pending \in Seq(Units) /\ phase \in [Units -> Phases]
    BY DEF Base, TypeOK
  <2>2. \A v \in Units : \/ phase'[v] = phase[v]
                         \/ phase[v] = "pending" /\ phase'[v] \in {"escalating", "running"}
    BY <1>2, <2>1, HeadIsPending, PumpPhases
  <2>3. \A v \in Units : receipt[v] = "failed" => phase[v] # "pending"
    BY DEF RolledBack
  <2> QED BY <1>1, <2>2, <2>3, NothingFails DEF NotBegun
<1>3. CASE phase' = phase
  BY <1>1, <1>3, NothingFails
<1> QED BY <1>2, <1>3 DEF SetRecovery

LEMMA RolledBackInit == Init => RolledBack
BY DEF Init, RolledBack, FailedIsRolledBack

LEMMA RolledBackKept == Base /\ OrderInv /\ RolledBack /\ [Next]_vars => RolledBack'
<1> SUFFICES ASSUME Base, OrderInv, RolledBack, [Next]_vars
             PROVE  RolledBack'
  OBVIOUS
<1>1. CASE UNCHANGED vars
  BY <1>1 DEF RolledBack, FailedIsRolledBack, Undoable, vars
<1>2. CASE Next
  BY <1>2, SubmitRolledBack, ExecutionRolledBack, RecoveryRolledBack DEF Next
<1> QED BY <1>1, <1>2

\* Whoever is told that a unit failed, also those who only share its receipt, can
\* rely on it that no earlier step which could be undone still stands.
THEOREM RollbackIsComplete == Spec => []FailedIsRolledBack
<1>1. RolledBack => FailedIsRolledBack
  BY DEF RolledBack
<1> QED BY <1>1, OrderInit, OrderKept, NothingStranded, RolledBackInit, RolledBackKept, PTL DEF Spec

-----------------------------------------------------------------------------
(***************************************************************************)
(* The queue and the gate.                                                 *)
(***************************************************************************)

Active == {"pending", "running", "undoing"}

Begun == {"running", "undoing", "settled"}

QueueInv == Base /\ OrderInv

\* What waits in the queue is pending.
LEMMA QueuedArePending ==
    ASSUME QueueInv
    PROVE  \A i \in 1..Len(pending) : pending[i] \in Units /\ phase[pending[i]] = "pending"
<1>1. /\ pending \in Seq(Units) /\ arrived \in Seq(Units)
      /\ Len(pending) \in Nat /\ Len(arrived) \in Nat
  BY DEF QueueInv, Base, TypeOK
<1>2. SUFFICES ASSUME NEW i \in 1..Len(pending)
               PROVE  pending[i] \in Units /\ phase[pending[i]] = "pending"
  OBVIOUS
<1>3. pending[i] \in Units
  BY <1>1, ElementOfSeq
<1>4. /\ Len(arrived) - Len(pending) + i \in 1..Len(arrived)
      /\ Len(arrived) - Len(pending) + i > Len(arrived) - Len(pending)
      /\ pending[i] = arrived[Len(arrived) - Len(pending) + i]
  BY <1>1 DEF QueueInv, OrderInv
<1>5. QED
  BY <1>3, <1>4 DEF QueueInv, OrderInv

\* How the phases of units may move when the queue takes a step on behalf of
\* the units U: a unit becomes active only if it is in U, starts only from
\* the queue or from rest, and never goes back once it has started.
Moves(U) ==
    \A v \in Units :
        /\ phase'[v] \in Active => phase[v] \in Active \/ (v \in U /\ phase[v] = "idle")
        /\ phase[v] \in Begun => phase'[v] \in Begun
        /\ phase'[v] = "running" =>
              phase[v] \in {"running", "pending"} \/ (v \in U /\ phase[v] = "idle")

\* One turn of the drain loop starts its first entry at most.
LEMMA PumpMoves ==
    ASSUME NEW q \in Seq(Units), NEW counts, NEW ph \in [Units -> Phases], NEW rec,
           Pump(q, counts, ph, rec),
           q # <<>> => ph[Head(q)] = "pending"
    PROVE  \A v \in Units :
              \/ phase'[v] = ph[v]
              \/ q # <<>> /\ v = Head(q) /\ phase'[v] \in {"running", "escalating"}
<1>1. CASE q = <<>> \/ rec
  BY <1>1 DEF Pump
<1>2. CASE q # <<>> /\ ~rec
  BY <1>2, HeadTailProperties DEF Pump
<1>3. QED
  BY <1>1, <1>2

\* A unit that is answered has settled, and so have those who share its receipt.
LEMMA SettleMoves ==
    ASSUME QueueInv, NEW u \in Units, phase[u] \in {"running", "undoing"},
           NEW outcome \in Outcomes, Settle(u, outcome)
    PROVE  Moves({}) /\ phase'[u] = "settled"
<1> DEFINE awaiting == {u} \cup {v \in Units : shares[v] = u}
           settled == [v \in Units |-> IF v \in awaiting THEN "settled" ELSE phase[v]]
<1>1. /\ settled \in [Units -> Phases]
      /\ \A v \in Units : settled[v] = "settled" \/ settled[v] = phase[v]
      /\ settled[u] = "settled"
  BY DEF QueueInv, Base, TypeOK, Phases
<1>2. CASE u = current /\ Pump(pending, keyCounts, settled, recovering)
  <2>1. pending \in Seq(Units)
    BY DEF QueueInv, Base, TypeOK
  <2>2. pending # <<>> =>
           Head(pending) = pending[1] /\ 1 \in 1..Len(pending) /\ Head(pending) \in Units
    BY <2>1, HeadTailProperties
  <2>3. pending # <<>> => phase[Head(pending)] = "pending"
    BY <2>2, QueuedArePending
  <2>4. pending # <<>> => shares[Head(pending)] = NoUnit
    BY <2>2, <2>3 DEF QueueInv, OrderInv
  <2>5. pending # <<>> => settled[Head(pending)] = "pending"
    BY <2>2, <2>3, <2>4, QueueAssumption
  <2> HIDE DEF settled, awaiting
  <2>6. \A v \in Units :
           \/ phase'[v] = settled[v]
           \/ pending # <<>> /\ v = Head(pending) /\ phase'[v] \in {"running", "escalating"}
    BY <1>1, <1>2, <2>1, <2>5, PumpMoves
  <2>7. QED
    BY <1>1, <2>3, <2>6 DEF Moves, Active, Begun
<1>3. CASE u # current /\ phase' = settled
  <2> HIDE DEF settled, awaiting
  <2>1. QED
    BY <1>1, <1>3 DEF Moves, Active, Begun
<1>4. QED
  BY <1>2, <1>3 DEF Settle

\* The steps of a unit.
LEMMA ExecutionMoves ==
    ASSUME QueueInv, NEW u \in Units,
           StepDone(u) \/ StepFailed(u) \/ Undo(u) \/ Deadline(u)
    PROVE  /\ Moves({})
           /\ StepFailed(u) \/ Deadline(u) => phase'[u] # "running"
           /\ StepDone(u) /\ StepCount[u] = 1 => phase'[u] # "running"
<1>1. phase[u] \in {"running", "undoing"}
  BY DEF StepDone, StepFailed, Undo, Deadline
<1>2. CASE \E outcome \in Outcomes : Settle(u, outcome)
  BY <1>1, <1>2, SettleMoves
<1>3. CASE UNCHANGED phase /\ Undo(u) /\ phase[u] = "undoing"
  <2>1. Moves({})
    BY <1>3 DEF Moves
  <2>2. ~StepFailed(u) /\ ~StepDone(u) /\ phase'[u] # "running"
    BY <1>3 DEF StepFailed, StepDone
  <2>3. QED
    BY <2>1, <2>2
<1>4. CASE UNCHANGED phase /\ StepDone(u) /\ applied[u] + 1 < StepCount[u]
  <2>1. Moves({})
    BY <1>4 DEF Moves
  <2>2. StepCount[u] # 1
    BY <1>4 DEF QueueInv, Base, TypeOK
  <2>3. (~StepFailed(u) /\ ~Deadline(u)) \/ phase'[u] # "running"
    BY <1>4 DEF StepDone, StepFailed, Deadline, QueueInv, Base, TypeOK
  <2>4. QED
    BY <2>1, <2>2, <2>3
<1>5. CASE StepFailed(u) /\ phase' = [phase EXCEPT ![u] = "undoing"]
  <2>1. Moves({}) /\ phase'[u] = "undoing"
    BY <1>1, <1>5 DEF Moves, Active, Begun, QueueInv, Base, TypeOK
  <2>2. QED
    BY <2>1
<1>6. QED
  BY <1>2, <1>3, <1>4, <1>5 DEF StepDone, StepFailed, Undo, Deadline, Outcomes

\* A submission.
LEMMA SubmitMoves ==
    ASSUME QueueInv, NEW u \in Units, Submit(u)
    PROVE  Moves({u})
<1>1. phase[u] = "idle"
  BY DEF Submit
<1>2. CASE \E p \in {"sharing", "running", "settled"} : phase' = [phase EXCEPT ![u] = p]
  BY <1>1, <1>2 DEF Moves, Active, Begun, QueueInv, Base, TypeOK
<1>3. CASE Pump(Append(pending, u), CountKey(u), [phase EXCEPT ![u] = "pending"], recovering)
  <2> DEFINE q == Append(pending, u)
             ph == [phase EXCEPT ![u] = "pending"]
  <2>1. pending \in Seq(Units) /\ q \in Seq(Units) /\ q # <<>>
    <3>1. pending \in Seq(Units)
      BY DEF QueueInv, Base, TypeOK
    <3>2. q \in Seq(Units) /\ Append(pending, u) # <<>>
      BY <3>1, AppendProperties
    <3>3. QED
      BY <3>1, <3>2
  <2>2. ph \in [Units -> Phases] /\ ph[u] = "pending" /\ \A v \in Units \ {u} : ph[v] = phase[v]
    BY DEF QueueInv, Base, TypeOK, Phases
  <2>3. Head(q) \in Units /\ (Head(q) = u \/ (pending # <<>> /\ Head(q) = pending[1]))
    <3>1. Head(q) = q[1] /\ Head(q) \in Units
      BY <2>1, HeadTailProperties
    <3>2. CASE pending = <<>>
      BY <3>1, <3>2
    <3>3. CASE pending # <<>>
      <4>1. Len(pending) \in Nat /\ Len(pending) # 0
        BY <2>1, <3>3, EmptySeq
      <4>2. q[1] = pending[1]
        BY <2>1, <4>1
      <4>3. QED
        BY <3>1, <3>3, <4>2
    <3>4. QED
      BY <3>2, <3>3
  <2>4. pending # <<>> => phase[pending[1]] = "pending"
    BY <2>1, QueuedArePending
  <2>5. ph[Head(q)] = "pending"
    BY <2>2, <2>3, <2>4
  <2>6. Head(q) # u => phase[Head(q)] = "pending"
    BY <2>3, <2>4
  <2> HIDE DEF q, ph
  <2>7. Pump(q, CountKey(u), ph, recovering)
    BY <1>3 DEF q, ph
  <2>8. \A v \in Units :
           phase'[v] = ph[v] \/ (v = Head(q) /\ phase'[v] \in {"running", "escalating"})
    BY <2>1, <2>2, <2>5, <2>7, PumpMoves
  <2>9. QED
    BY <1>1, <2>2, <2>6, <2>8 DEF Moves, Active, Begun
<1>4. QED
  BY <1>2, <1>3 DEF Submit, Coalesce, RunInline, Enqueue, Refuse

\* Recovery.
LEMMA RecoveryMoves ==
    ASSUME QueueInv, NEW on \in BOOLEAN, SetRecovery(on)
    PROVE  Moves({})
<1>1. CASE Pump(pending, keyCounts, phase, FALSE)
  <2>1. pending \in Seq(Units) /\ phase \in [Units -> Phases]
    BY DEF QueueInv, Base, TypeOK
  <2>2. pending # <<>> => Head(pending) = pending[1] /\ phase[Head(pending)] = "pending"
    BY <2>1, QueuedArePending
  <2>3. \A v \in Units :
           \/ phase'[v] = phase[v]
           \/ pending # <<>> /\ v = Head(pending) /\ phase'[v] \in {"running", "escalating"}
    BY <1>1, <2>1, <2>2, PumpMoves
  <2>4. QED
    BY <2>2, <2>3 DEF Moves, Active, Begun
<1>2. CASE UNCHANGED phase
  BY <1>2 DEF Moves
<1>3. QED
  BY <1>1, <1>2 DEF SetRecovery

-----------------------------------------------------------------------------
(***************************************************************************)
(* The invariant of the wiring.  CommandsExcludeCycles alone is not        *)
(* inductive: it must be known where the lifecycle fiber is when it has    *)
(* the gate, that it awaits a plan exactly when it has submitted one, and  *)
(* that a command which has got past its start is never started again.     *)
(***************************************************************************)

Places ==
    /\ loop \in {"off", "forked", "queued", "reading", "planned"}
    /\ plan \in Plans \cup {NoUnit}
    /\ at \in [Commands -> {"ready", "inside", "next", "cycle", "answered"}]
    /\ gate = Loop <=> loop \in {"reading", "planned"}
    /\ plan # NoUnit <=> loop = "planned"

PlansGuarded == \A p \in Plans : phase[p] \in Active => gate = Loop /\ plan = p

InsideHolds == \A c \in Commands : phase[c] = "running" /\ at[c] = "inside" => gate = c

StartedOnce == \A c \in Commands : at[c] # "ready" => phase[c] \in Begun

Wiring == Places /\ PlansGuarded /\ InsideHolds /\ StartedOnce

LEMMA WiringInit == EngineInit => QueueInv /\ Wiring
<1> SUFFICES ASSUME EngineInit
             PROVE  QueueInv /\ Wiring
  OBVIOUS
<1>1. QueueInv
  BY BaseInit, OrderInit DEF EngineInit, QueueInv
<1>2. Places
  BY GateAssumption DEF EngineInit, Places
<1>3. PlansGuarded /\ InsideHolds /\ StartedOnce
  BY GateAssumption DEF EngineInit, Init, PlansGuarded, InsideHolds, StartedOnce, Active, Commands
<1>4. QED
  BY <1>1, <1>2, <1>3 DEF Wiring

\* A step of the engine is a step of the queue, or leaves it alone.
LEMMA EngineStepsQueue == [EngineNext]_all => [Next]_vars
<1> SUFFICES ASSUME [EngineNext]_all
             PROVE  [Next]_vars
  OBVIOUS
<1>1. CASE UNCHANGED all
  BY <1>1 DEF all
<1>2. ASSUME NEW c \in Commands,
             \/ Execute(c) \/ RequestCycle(c)
             \/ EnterGate(c) \/ EnterTooLate(c) \/ LeaveGate(c)
             \/ FinishCommand(c) \/ Timeout(c)
      PROVE  [Next]_vars
  <2>1. c \in Units
    BY DEF Commands
  <2>2. \/ Submit(c) \/ StepDone(c) \/ StepFailed(c) \/ Deadline(c) \/ UNCHANGED vars
    BY <1>2 DEF Execute, RequestCycle, EnterGate, EnterTooLate, LeaveGate, FinishCommand, Timeout
  <2>3. QED
    BY <2>1, <2>2 DEF Next
<1>3. ASSUME NEW p \in Plans, SubmitPlan(p) \/ PlanStep(p)
      PROVE  [Next]_vars
  <2>1. p \in Units
    BY GateAssumption
  <2>2. Submit(p) \/ StepDone(p) \/ StepFailed(p) \/ Undo(p) \/ Deadline(p)
    BY <1>3 DEF SubmitPlan, PlanStep
  <2>3. QED
    BY <2>1, <2>2 DEF Next
<1>4. CASE Hint \/ TakeCycle \/ EnterCycle \/ FinishWithoutPlan \/ PlanAnswered
  BY <1>4 DEF Hint, TakeCycle, EnterCycle, FinishWithoutPlan, PlanAnswered
<1>5. CASE \E on \in BOOLEAN : Recover(on)
  BY <1>5 DEF Recover, Next
<1>6. QED
  BY <1>1, <1>2, <1>3, <1>4, <1>5 DEF EngineNext

LEMMA QueueInvKept == QueueInv /\ [EngineNext]_all => QueueInv'
BY EngineStepsQueue, BaseKept, OrderKept DEF QueueInv

\* What the queue does for a command, or by itself, disturbs nothing while the
\* engine's own variables stay as they are, save that a command which has
\* stopped running may give up the gate.
LEMMA CommandFrame ==
    ASSUME Wiring, NEW c \in Commands, Moves({c}) \/ Moves({}),
           UNCHANGED <<plan, at>>,
           loop' = loop \/ (loop = "off" /\ loop' = "forked"),
           gate' = gate \/ (gate = c /\ gate' = Free /\ phase'[c] # "running"),
           at[c] = "ready" \/ phase[c] \in Begun
    PROVE  Wiring'
<1>1. c \in Units /\ c \notin Plans /\ c # Loop /\ c # Free /\ Free # Loop
  BY GateAssumption DEF Commands
<1>2. Places'
  BY <1>1 DEF Wiring, Places
<1>3. PlansGuarded'
  <2>1. \A p \in Plans : p \in Units /\ p # c
    BY <1>1, GateAssumption
  <2>2. \A p \in Plans : phase'[p] \in Active => phase[p] \in Active
    BY <2>1 DEF Moves
  <2>3. QED
    BY <1>1, <2>2 DEF Wiring, PlansGuarded
<1>4. InsideHolds'
  <2>1. SUFFICES ASSUME NEW d \in Commands, phase'[d] = "running", at[d] = "inside"
                 PROVE  gate' = d
    BY DEF InsideHolds
  <2>2. d \in Units /\ phase[d] \in Begun
    BY <2>1 DEF Wiring, StartedOnce, Commands
  <2>3. phase[d] = "running"
    BY <2>1, <2>2 DEF Moves, Begun
  <2>4. gate = d
    BY <2>1, <2>3 DEF Wiring, InsideHolds
  <2>5. QED
    BY <2>1, <2>4
<1>5. StartedOnce'
  BY DEF Wiring, StartedOnce, Moves, Commands
<1>6. QED
  BY <1>2, <1>3, <1>4, <1>5 DEF Wiring

LEMMA CommandKeeps ==
    ASSUME QueueInv, Wiring, NEW c \in Commands,
           \/ Execute(c) \/ RequestCycle(c)
           \/ EnterGate(c) \/ EnterTooLate(c) \/ LeaveGate(c)
           \/ FinishCommand(c) \/ Timeout(c)
    PROVE  Wiring'
<1>1. /\ c \in Units /\ c \notin Plans /\ c # Loop /\ c # Free /\ Free # Loop
      /\ StepCount[c] = 1
  BY GateAssumption DEF Commands
<1>2. CASE Execute(c)
  <2>1. Moves({c}) /\ UNCHANGED engine
    BY <1>1, <1>2, SubmitMoves DEF Execute
  <2>2. phase[c] = "idle"
    BY <1>2 DEF Execute, Submit
  <2>3. at[c] = "ready"
    BY <2>2 DEF Wiring, StartedOnce, Begun
  <2>4. QED
    BY <2>1, <2>3, CommandFrame DEF engine
<1>3. CASE RequestCycle(c)
  <2>1. /\ phase' = phase /\ phase[c] = "running" /\ UNCHANGED <<gate, plan>>
        /\ at' = [at EXCEPT ![c] = "next"]
        /\ loop' = loop \/ (loop = "off" /\ loop' = "forked")
    BY <1>3 DEF RequestCycle, AwaitCycle, WakeLoop, vars
  <2>2. QED
    BY <2>1 DEF Wiring, Places, PlansGuarded, InsideHolds, StartedOnce, Begun
<1>4. CASE EnterGate(c)
  <2>1. /\ phase' = phase /\ phase[c] = "running" /\ UNCHANGED <<loop, plan>>
        /\ at' = [at EXCEPT ![c] = "inside"] /\ gate = Free /\ gate' = c
    BY <1>4 DEF EnterGate, WaitsForGate, vars
  <2>2. Places'
    BY <1>1, <2>1 DEF Wiring, Places
  <2>3. PlansGuarded' /\ InsideHolds' /\ StartedOnce'
    BY <1>1, <2>1, GateAssumption
       DEF Wiring, Places, PlansGuarded, InsideHolds, StartedOnce, Begun, Commands
  <2>4. QED
    BY <2>2, <2>3 DEF Wiring
<1>5. CASE EnterTooLate(c)
  <2>1. Moves({}) /\ UNCHANGED engine /\ at[c] = "ready"
    BY <1>1, <1>5, ExecutionMoves DEF EnterTooLate, WaitsForGate
  <2>2. QED
    BY <2>1, CommandFrame DEF engine
<1>6. CASE LeaveGate(c) /\ UNCHANGED vars
  <2>1. /\ phase' = phase /\ phase[c] = "running" /\ at[c] = "inside" /\ UNCHANGED plan
        /\ gate' = Free
    BY <1>6 DEF LeaveGate, vars
  <2>2. /\ at' = [at EXCEPT ![c] = "next"]
        /\ loop' = loop \/ (loop = "off" /\ loop' = "forked")
    <3>1. ~StepDone(c) /\ ~StepFailed(c)
      <4>1. CASE StepDone(c)
        BY <1>1, <1>6, <2>1, <4>1, ExecutionMoves
      <4>2. CASE StepFailed(c)
        BY <1>1, <1>6, <2>1, <4>2, ExecutionMoves
      <4>3. QED
        BY <4>1, <4>2
    <3>2. QED
      BY <1>6, <3>1 DEF LeaveGate, AwaitCycle, WakeLoop
  <2>3. gate = c
    BY <2>1 DEF Wiring, InsideHolds
  <2>4. Places' /\ PlansGuarded'
    BY <1>1, <2>1, <2>2, <2>3 DEF Wiring, Places, PlansGuarded
  <2>5. InsideHolds' /\ StartedOnce'
    BY <1>1, <2>1, <2>2, <2>3 DEF Wiring, Places, InsideHolds, StartedOnce, Begun
  <2>6. QED
    BY <2>4, <2>5 DEF Wiring
<1>7. CASE LeaveGate(c) /\ (StepDone(c) \/ StepFailed(c)) /\ UNCHANGED <<at, loop, plan>>
  <2>1. Moves({}) /\ phase'[c] # "running"
    BY <1>1, <1>7, ExecutionMoves
  <2>2. gate = c /\ gate' = Free /\ phase[c] \in Begun
    BY <1>7 DEF LeaveGate, Wiring, InsideHolds, Begun
  <2>3. QED
    BY <1>7, <2>1, <2>2, CommandFrame
<1>8. CASE FinishCommand(c)
  <2>1. Moves({}) /\ UNCHANGED engine /\ phase[c] \in Begun
    BY <1>1, <1>8, ExecutionMoves DEF FinishCommand, Begun
  <2>2. QED
    BY <2>1, CommandFrame DEF engine
<1>9. CASE Timeout(c) /\ UNCHANGED vars /\ UNCHANGED gate
  <2>1. Moves({}) /\ UNCHANGED <<plan, at, loop>> /\ phase[c] \in Begun
    BY <1>9 DEF Timeout, vars, Moves, Begun
  <2>2. QED
    BY <1>9, <2>1, CommandFrame
<1>10. CASE Timeout(c) /\ Deadline(c) /\ gate' = IF gate = c THEN Free ELSE gate
  <2>1. Moves({}) /\ phase'[c] # "running"
    BY <1>1, <1>10, ExecutionMoves
  <2>2. UNCHANGED <<plan, at, loop>> /\ phase[c] \in Begun
    BY <1>10 DEF Timeout, Begun
  <2>3. QED
    BY <1>10, <2>1, <2>2, CommandFrame
<1>11. QED
  BY <1>2, <1>3, <1>4, <1>5, <1>6, <1>7, <1>8, <1>9, <1>10 DEF LeaveGate, Timeout

\* The end of a cycle, and the beginning of a pass, when no plan is active.
LEMMA CycleFrame ==
    ASSUME Wiring, gate = Loop \/ gate = Free, UNCHANGED phase,
           \A p \in Plans : phase[p] \notin Active,
           EndCycle \/ BeginPass
    PROVE  Wiring'
<1>1. Free # Loop /\ \A c \in Commands : c # Loop /\ c # Free
  BY GateAssumption DEF Commands
<1>2. \A c \in Commands : ~(phase[c] = "running" /\ at[c] = "inside")
  BY <1>1 DEF Wiring, InsideHolds
<1>3. CASE EndCycle
  <2>1. Places' /\ PlansGuarded'
    BY <1>1, <1>3 DEF EndCycle, Wiring, Places, PlansGuarded
  <2>2. InsideHolds' /\ StartedOnce'
    BY <1>2, <1>3 DEF EndCycle, Wiring, Places, InsideHolds, StartedOnce
  <2>3. QED
    BY <2>1, <2>2 DEF Wiring
<1>4. CASE BeginPass /\ ~EndCycle
  <2>1. gate' = Loop /\ loop' = "reading" /\ plan' = NoUnit /\ at' = at
    BY <1>4 DEF BeginPass
  <2>2. QED
    BY <1>2, <2>1 DEF Wiring, Places, PlansGuarded, InsideHolds, StartedOnce
<1>5. QED
  BY <1>3, <1>4

LEMMA LoopKeeps ==
    ASSUME QueueInv, Wiring,
           Hint \/ TakeCycle \/ EnterCycle \/ FinishWithoutPlan \/ PlanAnswered
    PROVE  Wiring'
<1>1. CASE Hint
  <2>1. /\ UNCHANGED <<phase, gate, plan, at>>
        /\ loop' = loop \/ (loop = "off" /\ loop' = "forked")
    BY <1>1 DEF Hint, WakeLoop, vars
  <2>2. QED
    BY <2>1 DEF Wiring, Places, PlansGuarded, InsideHolds, StartedOnce
<1>2. CASE TakeCycle
  <2>1. /\ UNCHANGED <<phase, gate, plan>> /\ loop = "forked" /\ loop' = "queued"
        /\ at' = [c \in Commands |-> IF at[c] = "next" THEN "cycle" ELSE at[c]]
    BY <1>2 DEF TakeCycle, vars
  <2>2. QED
    BY <2>1 DEF Wiring, Places, PlansGuarded, InsideHolds, StartedOnce
<1>3. CASE EnterCycle
  <2>1. gate = Free /\ UNCHANGED phase /\ BeginPass
    BY <1>3 DEF EnterCycle, vars
  <2>2. \A p \in Plans : phase[p] \notin Active
    BY <2>1, GateAssumption DEF Wiring, PlansGuarded
  <2>3. QED
    BY <2>1, <2>2, CycleFrame
<1>4. CASE FinishWithoutPlan
  <2>1. loop = "reading" /\ UNCHANGED phase /\ EndCycle
    BY <1>4 DEF FinishWithoutPlan, vars
  <2>2. gate = Loop /\ plan = NoUnit
    BY <2>1 DEF Wiring, Places
  <2>3. \A p \in Plans : phase[p] \notin Active
    BY <2>2, QueueAssumption, GateAssumption DEF Wiring, PlansGuarded
  <2>4. QED
    BY <2>1, <2>2, <2>3, CycleFrame
<1>5. CASE PlanAnswered
  <2>1. loop = "planned" /\ phase[plan] = "settled" /\ UNCHANGED phase
    BY <1>5 DEF PlanAnswered, vars
  <2>2. gate = Loop
    BY <2>1 DEF Wiring, Places
  <2>3. \A p \in Plans : phase[p] \notin Active
    BY <2>1 DEF Wiring, PlansGuarded, Active
  <2>4. QED
    BY <1>5, <2>1, <2>2, <2>3, CycleFrame DEF PlanAnswered
<1>6. QED
  BY <1>1, <1>2, <1>3, <1>4, <1>5

LEMMA PlanKeeps ==
    ASSUME QueueInv, Wiring, NEW p \in Plans, SubmitPlan(p) \/ PlanStep(p)
    PROVE  Wiring'
<1>1. p \in Units /\ p # NoUnit /\ p \notin Commands
  BY QueueAssumption, GateAssumption DEF Commands
<1>2. Moves({p})
  <2>1. CASE SubmitPlan(p)
    BY <1>1, <2>1, SubmitMoves DEF SubmitPlan
  <2>2. CASE PlanStep(p)
    BY <1>1, <2>2, ExecutionMoves DEF PlanStep, Moves
  <2>3. QED
    BY <2>1, <2>2
<1>3. UNCHANGED <<gate, at>>
  BY DEF SubmitPlan, PlanStep, engine
<1>4. Places'
  BY <1>1, <1>3 DEF SubmitPlan, PlanStep, engine, Wiring, Places
<1>5. PlansGuarded'
  <2>1. CASE SubmitPlan(p)
    <3>1. loop = "reading" /\ plan' = p
      BY <2>1 DEF SubmitPlan
    <3>2. gate = Loop /\ plan = NoUnit
      BY <3>1 DEF Wiring, Places
    <3>3. \A o \in Plans : o \in Units /\ phase[o] \notin Active
      BY <3>2, QueueAssumption, GateAssumption DEF Wiring, PlansGuarded
    <3>4. QED
      BY <1>2, <1>3, <3>1, <3>2, <3>3 DEF Moves, PlansGuarded
  <2>2. CASE PlanStep(p)
    <3>1. UNCHANGED plan /\ Moves({})
      BY <1>1, <2>2, ExecutionMoves DEF PlanStep, engine
    <3>2. QED
      BY <1>3, <3>1, GateAssumption DEF Wiring, PlansGuarded, Moves
  <2>3. QED
    BY <2>1, <2>2
<1>6. InsideHolds' /\ StartedOnce'
  <2>1. \A c \in Commands : c \in Units /\ c # p
    BY <1>1 DEF Commands
  <2>2. \A c \in Commands : phase[c] \in Begun => phase'[c] \in Begun
    BY <1>2, <2>1 DEF Moves
  <2>3. \A c \in Commands : phase'[c] = "running" => phase[c] \in {"running", "pending"}
    BY <1>2, <2>1 DEF Moves
  <2>4. QED
    BY <1>3, <2>2, <2>3 DEF Wiring, InsideHolds, StartedOnce, Begun
<1>7. QED
  BY <1>4, <1>5, <1>6 DEF Wiring

LEMMA WiringKept == QueueInv /\ Wiring /\ [EngineNext]_all => Wiring'
<1> SUFFICES ASSUME QueueInv, Wiring, [EngineNext]_all
             PROVE  Wiring'
  OBVIOUS
<1>1. CASE UNCHANGED all
  <2>1. UNCHANGED <<phase, gate, loop, plan, at>>
    BY <1>1 DEF all, vars, engine
  <2>2. QED
    BY <2>1 DEF Wiring, Places, PlansGuarded, InsideHolds, StartedOnce
<1>2. CASE \E on \in BOOLEAN : Recover(on)
  <2>1. Moves({}) /\ UNCHANGED <<gate, loop, plan, at>>
    BY <1>2, RecoveryMoves DEF Recover, engine
  <2>2. Places' /\ PlansGuarded'
    BY <2>1, GateAssumption DEF Wiring, Places, PlansGuarded, Moves
  <2>3. InsideHolds' /\ StartedOnce'
    BY <2>1 DEF Wiring, InsideHolds, StartedOnce, Moves, Begun, Commands
  <2>4. QED
    BY <2>2, <2>3 DEF Wiring
<1>3. QED
  BY <1>1, <1>2, CommandKeeps, LoopKeeps, PlanKeeps DEF EngineNext

LEMMA EngineInvariant == EngineSpec => [](QueueInv /\ Wiring)
BY WiringInit, QueueInvKept, WiringKept, PTL DEF EngineSpec

\* Cycles and commands that take the gate never write together: a plan waits or
\* runs only while its own cycle holds the gate, whoever runs its steps.
THEOREM WritersExclude == EngineSpec => []CommandsExcludeCycles
<1>1. Wiring => CommandsExcludeCycles
  <2>1. Exclusive \subseteq Commands
    BY GateAssumption DEF Commands
  <2>2. QED
    BY <2>1 DEF Wiring, PlansGuarded, InsideHolds, CommandsExcludeCycles, Active
<1>2. QED
  BY <1>1, EngineInvariant, PTL

\* A plan waits in the queue only if recovery held it when the cycle submitted
\* the plan: a nested submission never queues behind the unit it is nested in.
THEOREM NestedPlansDoNotWait == EngineSpec => PlansQueueOnlyInRecovery
<1>1. QueueInv /\ Wiring /\ [EngineNext]_all =>
         [\A p \in Plans : phase[p] = "idle" /\ phase'[p] = "pending" => recovering]_all
  <2> SUFFICES ASSUME QueueInv, Wiring, EngineNext, NEW p \in Plans,
                      phase[p] = "idle", phase'[p] = "pending"
               PROVE  recovering
    OBVIOUS
  <2>1. p \in Units /\ p \notin Commands
    BY GateAssumption DEF Commands
  <2>2. SubmitPlan(p)
    <3>1. ~Moves({})
      BY <2>1 DEF Moves, Active
    <3>2. \A u \in Units : Moves({u}) => u = p
      BY <2>1 DEF Moves, Active
    <3>3. ~ \E on \in BOOLEAN : Recover(on)
      BY <3>1, RecoveryMoves DEF Recover
    <3>4. UNCHANGED phase => FALSE
      BY <2>1
    <3>5. ASSUME NEW c \in Commands,
                 \/ Execute(c) \/ RequestCycle(c)
                 \/ EnterGate(c) \/ EnterTooLate(c) \/ LeaveGate(c)
                 \/ FinishCommand(c) \/ Timeout(c)
          PROVE  FALSE
      <4>1. c \in Units /\ c # p
        BY <2>1 DEF Commands
      <4>2. \/ Submit(c) \/ StepDone(c) \/ StepFailed(c) \/ Deadline(c) \/ UNCHANGED phase
        BY <3>5 DEF Execute, RequestCycle, EnterGate, EnterTooLate, LeaveGate, FinishCommand,
                    Timeout, vars
      <4>3. QED
        BY <3>1, <3>2, <3>4, <4>1, <4>2, SubmitMoves, ExecutionMoves
    <3>6. ~(Hint \/ TakeCycle \/ EnterCycle \/ FinishWithoutPlan \/ PlanAnswered)
      BY <3>4 DEF Hint, TakeCycle, EnterCycle, FinishWithoutPlan, PlanAnswered, vars
    <3>7. PICK o \in Plans : SubmitPlan(o) \/ PlanStep(o)
      BY <3>3, <3>5, <3>6 DEF EngineNext
    <3>8. o \in Units
      BY GateAssumption
    <3>9. ~PlanStep(o)
      BY <3>1, <3>8, ExecutionMoves DEF PlanStep
    <3>10. QED
      BY <3>2, <3>7, <3>8, <3>9, SubmitMoves DEF SubmitPlan
  <2>3. CASE Pump(Append(pending, p), CountKey(p), [phase EXCEPT ![p] = "pending"], recovering)
             /\ current = NoUnit
    <3>1. SUFFICES ASSUME ~recovering
                   PROVE  FALSE
      BY Zenon
    <3>2. pending = <<>>
      BY <2>3, <3>1 DEF QueueInv, Base, NoStrandedEntry
    <3>3. Append(pending, p) = <<p>>
      BY <3>2
    <3>4. Head(Append(pending, p)) = p /\ Append(pending, p) # <<>>
      BY <3>3
    <3>5. phase'[p] \in {"running", "escalating"}
      BY <2>1, <2>3, <3>1, <3>4 DEF Pump, QueueInv, Base, TypeOK
    <3>6. QED
      BY <3>5
  <2>4. CASE \E q \in {"sharing", "running", "settled"} : phase' = [phase EXCEPT ![p] = q]
    BY <2>1, <2>4 DEF QueueInv, Base, TypeOK
  <2>5. QED
    BY <2>2, <2>3, <2>4 DEF SubmitPlan, Submit, Coalesce, RunInline, Enqueue, Refuse
<1>2. QED
  BY <1>1, EngineInvariant, PTL DEF EngineSpec, PlansQueueOnlyInRecovery
=============================================================================
