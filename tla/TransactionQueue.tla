-------------------------- MODULE TransactionQueue --------------------------
(***************************************************************************)
(* The transaction queue of packages/layout/src/transactions.ts.           *)
(*                                                                         *)
(* Every command and every reconciliation plan is a WorkUnit.  A unit goes *)
(* one of three ways when it is submitted: it shares the receipt of an     *)
(* equivalent pending unit, it runs at once in the submitter's fiber       *)
(* because another unit is in flight ("inline"), or it joins the FIFO that *)
(* a single drain loop empties.  A unit is a list of steps under one       *)
(* deadline; a failing step rolls the earlier ones back in reverse order.  *)
(*                                                                         *)
(* Fibers only interleave where the code awaits, so what runs between two  *)
(* awaits is one action here: the flags `pumping` and `processing` change  *)
(* together and both are read off `current`.  The ring of past receipts    *)
(* is a log that only getTransaction reads and is left out.                *)
(***************************************************************************)
EXTENDS Integers, Sequences, FiniteSets, FiniteSetsExt

CONSTANTS
    Units,          \* the work units that may be submitted, once each
    Batches,        \* those submitted through submitBatch
    Keys,           \* coalesce keys
    NoUnit, NoKey,
    KeyOf,          \* Units -> Keys \cup {NoKey}
    StepCount,      \* Units -> number of steps
    Reversible,     \* Units -> the steps that carry a compensation
    Escalates,      \* the units that carry an escalation hook
    BatchSizes,     \* the numbers of units a batch may flatten into one
    PendingLimit, RepeatThreshold, BatchCap

ASSUME QueueAssumption ==
    /\ NoUnit \notin Units /\ NoKey \notin Keys
    /\ Batches \subseteq Units /\ Escalates \subseteq Units
    /\ KeyOf \in [Units -> Keys \cup {NoKey}]
    /\ \A u \in Batches : KeyOf[u] = NoKey
    /\ StepCount \in [Units -> Nat \ {0}]
    /\ Reversible \in [Units -> SUBSET (Nat \ {0})]
    /\ BatchSizes \subseteq Nat
    /\ {PendingLimit, RepeatThreshold, BatchCap} \subseteq Nat \ {0}

VARIABLES
    pending,        \* pendingEntries, oldest first
    current,        \* the entry the drain loop is processing, or NoUnit
    recovering,
    keyCounts,      \* enqueued submissions per coalesce key since its last escalation
    phase,          \* where each unit's fiber is
    applied,        \* appliedSteps of each unit, as a count
    standing,       \* the completed steps of each unit not compensated since
    receipt,
    shares,         \* the pending unit whose deferred a coalesced submitter awaits
    arrived         \* observation only: the units that took the FIFO, in order

vars == <<pending, current, recovering, keyCounts, phase, applied, standing,
          receipt, shares, arrived>>

Phases == {"idle", "sharing", "pending", "escalating", "running", "undoing", "settled"}

Outcomes == {"none", "completed", "failed", "timeout", "queue_full", "invalid_request"}

\* The state the queue can be in; every submission's outcome is one a receipt
\* or a SubmitError can carry.
TypeOK ==
    /\ pending \in Seq(Units)
    /\ current \in Units \cup {NoUnit}
    /\ recovering \in BOOLEAN
    /\ keyCounts \in [Keys -> Nat]
    /\ phase \in [Units -> Phases]
    /\ applied \in [Units -> Nat]
    /\ standing \in [Units -> SUBSET Nat]
    /\ receipt \in [Units -> Outcomes]
    /\ shares \in [Units -> Units \cup {NoUnit}]
    /\ arrived \in Seq(Units)

Init ==
    /\ pending = <<>>
    /\ current = NoUnit
    /\ recovering = FALSE
    /\ keyCounts = [k \in Keys |-> 0]
    /\ phase = [u \in Units |-> "idle"]
    /\ applied = [u \in Units |-> 0]
    /\ standing = [u \in Units |-> {}]
    /\ receipt = [u \in Units |-> "none"]
    /\ shares = [u \in Units |-> NoUnit]
    /\ arrived = <<>>

InQueue(u) == \E i \in DOMAIN pending : pending[i] = u

(***************************************************************************)
(* The drain loop.  Pump(q, counts, ph, rec) is what the loop does next    *)
(* with the entries q: stop when there is none or recovery is on, else pop *)
(* the head, which escalates first if its key has repeated too often.      *)
(***************************************************************************)

Suspicious(u, counts) ==
    /\ u \in Escalates
    /\ KeyOf[u] # NoKey
    /\ counts[KeyOf[u]] >= RepeatThreshold

Pump(q, counts, ph, rec) ==
    \/ /\ q = <<>> \/ rec
       /\ pending' = q
       /\ current' = NoUnit
       /\ keyCounts' = counts
       /\ phase' = ph
    \/ /\ q # <<>> /\ ~rec
       /\ pending' = Tail(q)
       /\ current' = Head(q)
       /\ \/ /\ Suspicious(Head(q), counts)
             /\ keyCounts' = [counts EXCEPT ![KeyOf[Head(q)]] = 0]
             /\ phase' = [ph EXCEPT ![Head(q)] = "escalating"]
          \/ /\ ~Suspicious(Head(q), counts)
             /\ keyCounts' = counts
             /\ phase' = [ph EXCEPT ![Head(q)] = "running"]

(***************************************************************************)
(* Operators named Regression_* are not part of the model: each changes    *)
(* the definition that follows it the way a slip in the code would, and    *)
(* shows that the property named in its comment notices.                   *)
(***************************************************************************)

\* The unit's receipt is recorded and reaches everybody who awaits it; the
\* drain loop, if it ran this unit, goes on.
Settle(u, outcome) ==
    LET awaiting == {u} \cup {v \in Units : shares[v] = u}
        settled == [v \in Units |-> IF v \in awaiting THEN "settled" ELSE phase[v]]
    IN  /\ receipt' = [v \in Units |-> IF v \in awaiting THEN outcome ELSE receipt[v]]
        /\ \/ /\ u = current
              /\ Pump(pending, keyCounts, settled, recovering)
           \/ /\ u # current
              /\ phase' = settled
              /\ UNCHANGED <<pending, current, keyCounts>>

(***************************************************************************)
(* submit and submitBatch.                                                 *)
(***************************************************************************)

Equivalent(u, v) == KeyOf[u] # NoKey /\ KeyOf[u] = KeyOf[v]

Coalesce(u) ==
    \E v \in Units :
        /\ InQueue(v) /\ Equivalent(u, v)
        /\ shares' = [shares EXCEPT ![u] = v]
        /\ phase' = [phase EXCEPT ![u] = "sharing"]
        /\ UNCHANGED <<pending, current, recovering, keyCounts, applied, standing,
                       receipt, arrived>>

RunInline(u) ==
    /\ current # NoUnit
    /\ phase' = [phase EXCEPT ![u] = "running"]
    /\ UNCHANGED <<pending, current, recovering, keyCounts, applied, standing,
                   receipt, shares, arrived>>

\* The limit counts the unit in flight too, but none is: a submission that
\* meets one runs inline and never comes here.
QueueFull == Len(pending) + (IF current # NoUnit THEN 1 ELSE 0) >= PendingLimit

Refuse(u, outcome) ==
    /\ receipt' = [receipt EXCEPT ![u] = outcome]
    /\ phase' = [phase EXCEPT ![u] = "settled"]
    /\ UNCHANGED <<pending, current, recovering, keyCounts, applied, standing,
                   shares, arrived>>

CountKey(u) ==
    IF KeyOf[u] = NoKey THEN keyCounts
    ELSE [keyCounts EXCEPT ![KeyOf[u]] = @ + 1]

Enqueue(u) ==
    /\ current = NoUnit
    /\ \/ /\ QueueFull
          /\ Refuse(u, "queue_full")
       \/ /\ ~QueueFull
          /\ arrived' = Append(arrived, u)
          /\ Pump(Append(pending, u), CountKey(u), [phase EXCEPT ![u] = "pending"], recovering)
          /\ UNCHANGED <<recovering, applied, standing, receipt, shares>>

Submit(u) ==
    /\ u \notin Batches
    /\ phase[u] = "idle"
    /\ \/ Coalesce(u)
       \/ /\ ~ \E v \in Units : InQueue(v) /\ Equivalent(u, v)
          /\ RunInline(u) \/ Enqueue(u)

SubmitBatch(u, size) ==
    /\ u \in Batches
    /\ phase[u] = "idle"
    /\ \/ size > BatchCap /\ Refuse(u, "invalid_request")
       \/ size = 0 /\ Refuse(u, "completed")
       \/ size \in 1..BatchCap /\ (RunInline(u) \/ Enqueue(u))

(***************************************************************************)
(* One unit's execution.                                                   *)
(***************************************************************************)

\* The escalation hook runs before, and outside, the unit's deadline.
EscalationDone(u) ==
    /\ phase[u] = "escalating"
    /\ phase' = [phase EXCEPT ![u] = "running"]
    /\ UNCHANGED <<pending, current, recovering, keyCounts, applied, standing,
                   receipt, shares, arrived>>

StepDone(u) ==
    /\ phase[u] = "running"
    /\ applied' = [applied EXCEPT ![u] = @ + 1]
    /\ standing' = [standing EXCEPT ![u] = @ \cup {applied[u] + 1}]
    /\ \/ /\ applied[u] + 1 = StepCount[u]
          /\ Settle(u, "completed")
       \/ /\ applied[u] + 1 < StepCount[u]
          /\ UNCHANGED <<pending, current, keyCounts, phase, receipt>>
    /\ UNCHANGED <<recovering, shares, arrived>>

\* The earlier steps that can be undone and still stand.
Undoable(u) == standing[u] \cap Reversible[u] \cap 1..applied[u]

\* A failed step ends the unit at once (FailedIsRolledBack).
Regression_FailWithoutRollback(u) ==
    /\ phase[u] = "running"
    /\ Settle(u, "failed")
    /\ UNCHANGED <<recovering, applied, standing, shares, arrived>>

\* The step that fails is not on the list of compensations; only the steps
\* completed before it are.
StepFailed(u) ==
    /\ phase[u] = "running"
    /\ \/ /\ Undoable(u) = {}
          /\ Settle(u, "failed")
       \/ /\ Undoable(u) # {}
          /\ phase' = [phase EXCEPT ![u] = "undoing"]
          /\ UNCHANGED <<pending, current, keyCounts, receipt>>
    /\ UNCHANGED <<recovering, applied, standing, shares, arrived>>

Undo(u) ==
    /\ phase[u] = "undoing"
    /\ standing' = [standing EXCEPT ![u] = @ \ {Max(Undoable(u))}]
    /\ \/ /\ Cardinality(Undoable(u)) = 1
          /\ Settle(u, "failed")
       \/ /\ Cardinality(Undoable(u)) > 1
          /\ UNCHANGED <<pending, current, keyCounts, phase, receipt>>
    /\ UNCHANGED <<recovering, applied, shares, arrived>>

\* The deadline covers the steps but not the rollback (EventuallySettled).
Regression_DeadlineOnStepsOnly(u) ==
    /\ phase[u] = "running"
    /\ Settle(u, "timeout")
    /\ UNCHANGED <<recovering, applied, standing, shares, arrived>>

\* The sleep wins the race: whatever the steps or the compensations were doing
\* is interrupted where it stands, and nothing is undone.
Deadline(u) ==
    /\ phase[u] \in {"running", "undoing"}
    /\ Settle(u, "timeout")
    /\ UNCHANGED <<recovering, applied, standing, shares, arrived>>

\* Leaving recovery does not restart the drain loop (ServedInOrder).
Regression_RecoveryWithoutDrain(on) ==
    /\ recovering' = on
    /\ UNCHANGED <<pending, current, keyCounts, phase, applied, standing, receipt,
                   shares, arrived>>

SetRecovery(on) ==
    /\ recovering' = on
    /\ \/ /\ ~on /\ current = NoUnit
          /\ Pump(pending, keyCounts, phase, FALSE)
       \/ /\ on \/ current # NoUnit
          /\ UNCHANGED <<pending, current, keyCounts, phase>>
    /\ UNCHANGED <<applied, standing, receipt, shares, arrived>>

Next ==
    \/ \E u \in Units :
          \/ Submit(u)
          \/ \E size \in BatchSizes : SubmitBatch(u, size)
          \/ EscalationDone(u) \/ StepDone(u) \/ StepFailed(u) \/ Undo(u) \/ Deadline(u)
    \/ \E on \in BOOLEAN : recovering # on /\ SetRecovery(on)

\* The clock goes on, so a deadline fires, and an escalation hook returns.
\* Nothing says that a step ends or that recovery does.
Fairness == \A u \in Units : WF_vars(Deadline(u)) /\ WF_vars(EscalationDone(u))

Spec == Init /\ [][Next]_vars /\ Fairness

-----------------------------------------------------------------------------
(***************************************************************************)
(* Properties.                                                             *)
(***************************************************************************)

\* No lost wakeup: an entry waits with no drain loop running only while
\* recovery holds the queue (drain is started by enqueue and by setRecovery,
\* and gives up when it finds another drain busy).
NoStrandedEntry == current = NoUnit /\ pending # <<>> => recovering

\* Units that took the FIFO start in the order they joined it, whatever runs
\* inline meanwhile and however often recovery stops the loop: while one is
\* pending, so is every later one, and the next one starts when the one before
\* it has its receipt.
QueuedInOrder ==
    \A i, j \in DOMAIN arrived :
        i < j /\ phase[arrived[j]] # "pending" => phase[arrived[i]] = "settled"

\* The queue neither forgets nor reorders what joined it (drain, enqueue).
ServedInOrder == NoStrandedEntry /\ QueuedInOrder

\* A receipt of status "failed" means that no earlier step with a compensation
\* still stands: rollback is complete before the receipt is given.
FailedIsRolledBack ==
    \A u \in Units : receipt[u] = "failed" => Undoable(u) = {}

\* Every submission gets a receipt provided recovery does not stay on for ever:
\* the deadline covers steps and compensations, and the loop moves on.
EventuallySettled ==
    []<>(~recovering) =>
        \A u \in Units : (phase[u] # "idle") ~> (phase[u] = "settled")

=============================================================================
