--------------------------- MODULE CompoundProofs ---------------------------
(***************************************************************************)
(* Proofs about CompoundTransaction, for every set of windows and          *)
(* commands, any chain of policies and any number of disturbances and      *)
(* failed calls: the transaction implements AtomicCommit, a failed command *)
(* is undone or health says so, only captured windows are moved, and what  *)
(* is committed is in place.                                               *)
(***************************************************************************)
EXTENDS CompoundTransaction, TLAPS

Drafting == {"writing", "refresh", "persist"}

\* A record with the fields of a command that the argument is about.
Shaped(t) ==
    /\ {"stage", "draft", "receipt"} \subseteq DOMAIN t
    /\ "done" \in DOMAIN t.draft
    /\ t.receipt \in Receipts

Shapes ==
    /\ DOMAIN tx = Commands
    /\ \A c \in Commands : Shaped(tx[c])
    /\ "done" \in DOMAIN world

\* Only the command that holds the gate is in its transaction, so that nobody
\* commits between its draft and its own commit.
Isolated ==
    /\ \A c \in Commands : tx[c].stage \in InTransaction => gate = c
    /\ \A c \in Commands : tx[c].stage \in Drafting => tx[c].draft.done = world.done
    /\ \A c \in published : tx[c].stage \in Receipts
    /\ world.done = published
    /\ published \subseteq Commands

Inv == Shapes /\ Isolated

Status == [c \in Commands |-> IF c \in published THEN "committed"
                              ELSE IF tx[c].stage \in Receipts THEN "aborted" ELSE "open"]

Mapped == <<Status, world.done, published>>

\* What each step does: it keeps the invariant, and in the abstraction commits
\* or aborts one command or does nothing.
Implements == Inv' /\ (Promise!Next \/ UNCHANGED Mapped)

\* A command under way, as an action finds it.
Underway(c) == c \in Commands /\ tx[c].stage \notin Receipts /\ gate \in {c, NoOne}

Calm == UNCHANGED <<world, published>>

\* The stages of a transaction are neither its receipts nor a wait.
LEMMA StagesDiffer ==
    /\ InTransaction \cap Receipts = {}
    /\ Drafting \subseteq InTransaction /\ "waiting" \notin InTransaction
    /\ "waiting" \notin Receipts /\ "idle" \notin Receipts /\ "idle" \notin InTransaction
BY DEF InTransaction, Interruptible, Receipts, Drafting

\* A new record has the fields.
LEMMA FreshShaped ==
    ASSUME NEW s
    PROVE  Shaped(Fresh(s)) /\ Fresh(s).stage = s /\ Fresh(s).receipt = "completed"
BY DEF Shaped, Fresh, Receipts

\* The command goes on to another stage of its transaction.
LEMMA ContinueImplements ==
    ASSUME CompoundAssumption, Inv, NEW c, Underway(c), gate = c, Calm,
           NEW t, Shaped(t), t.stage \in InTransaction, Continue(c, t),
           t.stage \in Drafting => t.draft.done = world.done
    PROVE  Implements
<1>1. /\ tx' = [tx EXCEPT ![c] = t] /\ tx'[c] = t /\ DOMAIN tx' = Commands
      /\ \A d \in Commands \ {c} : tx'[d] = tx[d]
      /\ gate' = gate /\ world' = world /\ published' = published
  BY DEF Continue, Calm, Inv, Shapes, Underway
<1>2. c \notin published
  BY DEF Inv, Isolated, Underway
<1>3. Shapes'
  BY <1>1 DEF Inv, Shapes, Underway, Shaped
<1>4. Isolated'
  BY <1>1, <1>2, StagesDiffer DEF Inv, Isolated, Underway
<1>5. Status' = Status
  BY <1>1, <1>2, StagesDiffer DEF Status, Underway
<1>6. QED
  BY <1>1, <1>3, <1>4, <1>5 DEF Implements, Inv, Mapped

\* The command ends without having committed.
LEMMA ReleaseImplements ==
    ASSUME CompoundAssumption, Inv, NEW c, Underway(c), Calm,
           NEW r \in Receipts, Release(c, r)
    PROVE  Implements
<1>1. /\ tx'[c] = Fresh(r) /\ DOMAIN tx' = Commands
      /\ \A d \in Commands \ {c} : tx'[d] = tx[d]
      /\ gate' = NoOne /\ world' = world /\ published' = published
  BY DEF Release, Calm, Inv, Shapes, Underway
<1>2. c \notin published /\ c \in Commands
  BY DEF Inv, Isolated, Underway
<1>3. \A d \in Commands \ {c} : tx[d].stage \notin InTransaction
  BY DEF Inv, Isolated, Underway, CompoundAssumption
<1>4. Shapes'
  BY <1>1, FreshShaped DEF Inv, Shapes
<1>5. tx'[c].stage = r /\ r \notin InTransaction /\ r \notin Drafting
  BY <1>1, FreshShaped, StagesDiffer
<1>6. Isolated'
  BY <1>1, <1>2, <1>3, <1>5, StagesDiffer DEF Inv, Isolated
<1>7. Status[c] = "open" /\ Status' = [Status EXCEPT ![c] = "aborted"]
  BY <1>1, <1>2, <1>5 DEF Status, Underway
<1>8. Promise!Abort(c)
  BY <1>1, <1>7 DEF Promise!Abort, Status
<1>9. QED
  BY <1>2, <1>4, <1>6, <1>8 DEF Implements, Inv, Promise!Next

\* The command commits its draft.
LEMMA CommitImplements ==
    ASSUME CompoundAssumption, Inv, NEW c, Underway(c),
           NEW t, Shaped(t), t.draft.done = world.done, Commit(c, t)
    PROVE  Implements
<1>1. PICK r \in Receipts : Release(c, r)
  BY DEF Commit, Receipts
<1>2. /\ tx'[c] = Fresh(r) /\ DOMAIN tx' = Commands
      /\ \A d \in Commands \ {c} : tx'[d] = tx[d]
      /\ gate' = NoOne /\ published' = published \cup {c}
  BY <1>1 DEF Release, Commit, Inv, Shapes, Underway
<1>3. "done" \in DOMAIN world' /\ world'.done = world.done \cup {c}
  BY DEF Commit, Shaped
<1>4. c \notin published /\ c \in Commands
  BY DEF Inv, Isolated, Underway
<1>5. \A d \in Commands \ {c} : tx[d].stage \notin InTransaction
  BY DEF Inv, Isolated, Underway, CompoundAssumption
<1>6. Shapes'
  BY <1>2, <1>3, FreshShaped DEF Inv, Shapes
<1>7. tx'[c].stage = r /\ r \notin InTransaction /\ r \notin Drafting
  BY <1>2, FreshShaped, StagesDiffer
<1>8. Isolated'
  BY <1>2, <1>3, <1>4, <1>5, <1>7, StagesDiffer DEF Inv, Isolated
<1>9. Status[c] = "open" /\ Status' = [Status EXCEPT ![c] = "committed"]
  BY <1>2, <1>4 DEF Status, Underway
<1>10. Promise!Commit(c)
  BY <1>2, <1>3, <1>9 DEF Promise!Commit, Status
<1>11. QED
  BY <1>4, <1>6, <1>8, <1>10 DEF Implements, Inv, Promise!Next

\* Restoration goes on, or ends and the command with it.
LEMMA RestoreOnImplements ==
    ASSUME CompoundAssumption, Inv, NEW c, Underway(c), gate = c, Calm,
           NEW t, Shaped(t), t.stage = "restore", RestoreOn(c, t)
    PROVE  Implements
<1>1. CASE t.todo # {}
  BY <1>1, ContinueImplements DEF RestoreOn, InTransaction, Drafting
<1>2. CASE t.todo = {} /\ t.keep /\ learning' # stored
  <2> DEFINE u == [t EXCEPT !.stage = "forget"]
  <2>1. Continue(c, u)
    BY <1>2 DEF RestoreOn
  <2>2. Shaped(u) /\ u.stage = "forget"
    BY DEF Shaped
  <2> HIDE DEF u
  <2>3. QED
    BY <2>1, <2>2, ContinueImplements DEF InTransaction, Drafting
<1>3. CASE t.todo = {} /\ ~(t.keep /\ learning' # stored)
  <2>1. Release(c, t.receipt) /\ t.receipt \in Receipts
    BY <1>3 DEF RestoreOn, Shaped
  <2>2. QED
    BY <2>1, ReleaseImplements
<1>4. QED
  BY <1>1, <1>2, <1>3

\* A failing command begins to restore windows, or has none to restore.
LEMMA AbortImplements ==
    ASSUME CompoundAssumption, Inv, NEW c, Underway(c), gate = c,
           NEW t, NEW learned, NEW r \in Receipts, Abort(c, t, learned, r)
    PROVE  Implements
<1> DEFINE u == [Fresh("restore") EXCEPT !.todo = DOMAIN t.taken, !.taken = t.taken,
                                         !.keep = t.keep, !.receipt = r]
<1>1. RestoreOn(c, u) /\ Calm
  BY DEF Abort, Calm
<1>2. Shaped(u) /\ u.stage = "restore"
  BY DEF Shaped, Fresh, Receipts
<1> HIDE DEF u
<1>3. QED
  BY <1>1, <1>2, RestoreOnImplements

\* A command that succeeded saves what it learned, or commits at once.
LEMMA ConcludeImplements ==
    ASSUME CompoundAssumption, Inv, NEW c, Underway(c), gate = c,
           NEW t, Shaped(t), t.draft.done = world.done, NEW learned, Conclude(c, t, learned)
    PROVE  Implements
<1>1. CASE learned = stored
  BY <1>1, CommitImplements DEF Conclude
<1>2. CASE learned # stored
  <2> DEFINE u == [t EXCEPT !.stage = "persist"]
  <2>1. Continue(c, u) /\ Calm
    BY <1>2 DEF Conclude, Calm
  <2>2. Shaped(u) /\ u.stage = "persist" /\ u.draft = t.draft
    BY DEF Shaped
  <2> HIDE DEF u
  <2>3. QED
    BY <2>1, <2>2, ContinueImplements DEF InTransaction, Drafting
<1>3. QED
  BY <1>1, <1>2

\* Writing is one of the stages of a transaction.
LEMMA IssueImplements ==
    ASSUME CompoundAssumption, Inv, NEW c, Underway(c), gate = c, Calm,
           NEW t, Shaped(t), t.draft.done = world.done, NEW now, NEW later,
           Issue(c, t, now, later)
    PROVE  Implements
<1> DEFINE u == [t EXCEPT !.stage = "writing", !.todo = later,
                     !.result = [w \in now \cup DOMAIN t.result |->
                                    IF w \in now THEN "none" ELSE t.result[w]]]
<1>1. Continue(c, u)
  BY DEF Issue
<1>2. Shaped(u) /\ u.stage = "writing" /\ u.draft = t.draft
  BY DEF Shaped
<1> HIDE DEF u
<1>3. QED
  BY <1>1, <1>2, ContinueImplements DEF InTransaction, Interruptible, Drafting

\* A step that leaves every command's stage, draft and receipt alone.
LEMMA QuietImplements ==
    ASSUME Inv, UNCHANGED <<gate, published>>, world'.done = world.done,
           "done" \in DOMAIN world', DOMAIN tx' = Commands,
           \A d \in Commands : /\ tx'[d].stage = tx[d].stage
                              /\ tx'[d].draft = tx[d].draft
                              /\ tx'[d].receipt = tx[d].receipt
                              /\ DOMAIN tx'[d] = DOMAIN tx[d]
    PROVE  Implements
<1>1. Shapes'
  BY DEF Inv, Shapes, Shaped
<1>2. Isolated'
  BY DEF Inv, Isolated
<1>3. Status' = Status
  BY DEF Status
<1>4. QED
  BY <1>1, <1>2, <1>3 DEF Implements, Inv, Mapped

\* Those who are in their transaction are under way and hold the gate.
LEMMA TransactionUnderway ==
    ASSUME Inv, NEW c \in Commands, tx[c].stage \in InTransaction
    PROVE  Underway(c) /\ gate = c /\ Shaped(tx[c])
BY StagesDiffer DEF Inv, Isolated, Shapes, Underway

\* A window more is captured, or the command ends.
LEMMA CaptureImplements ==
    ASSUME CompoundAssumption, Inv, NEW c \in Commands, NEW w, Capture(c, w)
    PROVE  Implements
<1>1. Underway(c) /\ gate = c /\ Shaped(tx[c]) /\ Calm
  BY TransactionUnderway DEF Capture, InTransaction, Interruptible, Calm
<1>2. CASE Release(c, "failed")
  BY <1>1, <1>2, ReleaseImplements DEF Receipts
<1>3. CASE ~Release(c, "failed")
  <2> DEFINE rest == tx[c].todo \ {w}
             u == [tx[c] EXCEPT
                     !.taken = [v \in DOMAIN tx[c].taken \cup {w} |->
                                  IF v = w THEN [frame |-> frame[w], ident |-> ident[w]]
                                           ELSE tx[c].taken[v]],
                     !.todo = rest,
                     !.stage = IF rest = {} THEN "windows" ELSE "capture"]
  <2>1. Continue(c, u)
    BY <1>3 DEF Capture
  <2>2. Shaped(u) /\ u.stage \in {"windows", "capture"}
    BY <1>1 DEF Shaped
  <2> HIDE DEF u
  <2>3. QED
    BY <1>1, <2>1, <2>2, ContinueImplements DEF InTransaction, Interruptible, Drafting
<1>4. QED
  BY <1>2, <1>3

\* The draft is copied and the command writes, concludes or fails.
LEMMA PlanImplements ==
    ASSUME CompoundAssumption, Inv, NEW c \in Commands, Plan(c)
    PROVE  Implements
<1> DEFINE t == Drafted(c)
<1>1. Underway(c) /\ gate = c /\ Shaped(tx[c])
  BY TransactionUnderway DEF Plan, InTransaction, Interruptible
<1>2. Shaped(t) /\ t.draft.done = world.done
  BY <1>1 DEF Drafted, Shaped, Inv, Shapes
<1>3. \/ Release(c, "completed") /\ Calm
      \/ Abort(c, t, learning, "failed")
      \/ Abort(c, t, learning, "died")
      \/ Issue(c, t, Writes(c, t), {}) /\ Calm
      \/ Conclude(c, t, learning)
  BY DEF Plan, Calm
<1> HIDE DEF t
<1>4. QED
  BY <1>1, <1>2, <1>3, ReleaseImplements, AbortImplements, IssueImplements,
     ConcludeImplements DEF Receipts

\* The answers are judged.
LEMMA JudgeImplements ==
    ASSUME CompoundAssumption, Inv, NEW c \in Commands, Judge(c)
    PROVE  Implements
<1> DEFINE t == tx[c]
           learned == IF {w \in DOMAIN t.result : t.result[w] = "clamp"} = {}
                      THEN learning ELSE learning \cup {c}
           again(w) == [t EXCEPT !.again = @ \cup {w}]
           reread(placed) == [t EXCEPT !.stage = "refresh", !.todo = DOMAIN t.taken,
                                       !.placed = placed, !.keep = @ \/ ~placed]
<1>1. Underway(c) /\ gate = c /\ Shaped(t) /\ t.draft.done = world.done
  BY TransactionUnderway DEF Judge, InTransaction, Interruptible, Inv, Isolated, Drafting
<1>2. \A w : Shaped(again(w)) /\ again(w).draft.done = world.done
  BY <1>1 DEF Shaped
<1>3. \A placed : /\ Shaped(reread(placed)) /\ reread(placed).stage = "refresh"
                  /\ reread(placed).draft.done = world.done
  BY <1>1 DEF Shaped
<1>4. \/ Abort(c, t, learning, "failed")
      \/ \E w : Issue(c, again(w), {w}, {}) /\ Calm
      \/ Continue(c, reread(FALSE)) /\ Calm
      \/ \E w : Issue(c, t, {w}, t.todo \ {w}) /\ Calm
      \/ Continue(c, reread(TRUE)) /\ Calm
      \/ Abort(c, t, learned, "failed")
      \/ Conclude(c, t, learned)
  BY DEF Judge, Calm, Reread, Resulted, Bad, Unsettled, Lessons
<1> HIDE DEF t, learned, again, reread
<1>5. CASE \E placed : Continue(c, reread(placed)) /\ Calm
  BY <1>1, <1>3, <1>5, ContinueImplements DEF InTransaction, Interruptible, Drafting
<1>6. CASE \E w : Issue(c, again(w), {w}, {}) /\ Calm
  BY <1>1, <1>2, <1>6, IssueImplements
<1>7. QED
  BY <1>1, <1>4, <1>5, <1>6, AbortImplements, IssueImplements, ConcludeImplements
     DEF Receipts

\* The windows are read again, and the command decides.
LEMMA RefreshImplements ==
    ASSUME CompoundAssumption, Inv, NEW c \in Commands, NEW w, Refresh(c, w)
    PROVE  Implements
<1> DEFINE t == tx[c]
           u == [t EXCEPT !.todo = @ \ {w}, !.seen[w] = frame[w]]
           x == [u EXCEPT !.keep = TRUE, !.result = <<>>]
           y(k) == [x EXCEPT !.policy = k]
<1>1. Underway(c) /\ gate = c /\ Shaped(t) /\ t.draft.done = world.done
  BY TransactionUnderway DEF Refresh, InTransaction, Interruptible, Inv, Isolated, Drafting
<1>2. Shaped(u) /\ u.draft.done = world.done /\ u.stage = "refresh"
  BY <1>1 DEF Shaped, Refresh
<1>3. \A k : Shaped(y(k)) /\ y(k).draft.done = world.done
  <2>1. Shaped(x) /\ x.draft.done = world.done
    BY <1>2 DEF Shaped
  <2> HIDE DEF x
  <2>2. QED
    BY <2>1 DEF Shaped
<1>4. Abort(c, t, learning, "failed") \/ (Continue(c, u) /\ Calm) \/ Decide(c, u)
  BY DEF Refresh, Calm
<1> HIDE DEF u
<1>5. CASE Decide(c, u)
  <2>1. \/ Conclude(c, u, learning)
        \/ Abort(c, x, learning, "failed")
        \/ \E k, v : Issue(c, y(k), {v}, Writes(c, y(k)) \ {v}) /\ Calm
    BY <1>5 DEF Decide, Calm
  <2> HIDE DEF x, y
  <2>2. CASE \E k, v : Issue(c, y(k), {v}, Writes(c, y(k)) \ {v}) /\ Calm
    BY <1>1, <1>3, <2>2, IssueImplements
  <2>3. QED
    BY <1>1, <1>2, <2>1, <2>2, ConcludeImplements, AbortImplements DEF Receipts
<1>6. CASE Continue(c, u) /\ Calm
  BY <1>1, <1>2, <1>6, ContinueImplements DEF InTransaction, Interruptible, Drafting
<1>7. QED
  <2>1. "failed" \in Receipts
    BY DEF Receipts
  <2>2. QED
    BY <1>1, <1>4, <1>5, <1>6, <2>1, AbortImplements

\* What was learned is saved and the draft committed, or the command fails.
LEMMA PersistImplements ==
    ASSUME CompoundAssumption, Inv, NEW c \in Commands, Persist(c)
    PROVE  Implements
<1>1. Underway(c) /\ gate = c /\ Shaped(tx[c]) /\ tx[c].draft.done = world.done
  BY TransactionUnderway DEF Persist, InTransaction, Inv, Isolated, Drafting
<1>2. \/ Commit(c, tx[c])
      \/ \E r \in Receipts : Abort(c, tx[c], learning, r)
  BY DEF Persist, Receipts
<1>3. QED
  BY <1>1, <1>2, CommitImplements, AbortImplements

\* The deadline passes, before, in or after what can be interrupted.
LEMMA InterruptImplements ==
    ASSUME CompoundAssumption, Inv, NEW c \in Commands, Interrupt(c)
    PROVE  Implements
<1>1. tx[c].stage \in InTransaction
  BY DEF Interrupt, InTransaction, Interruptible
<1>2. Underway(c) /\ gate = c /\ Shaped(tx[c])
  BY <1>1, TransactionUnderway
<1>3. CASE Release(c, "timeout") /\ Calm
  BY <1>2, <1>3, ReleaseImplements DEF Receipts
<1>4. CASE Abort(c, tx[c], learning, "timeout")
  BY <1>2, <1>4, AbortImplements DEF Receipts
<1>5. CASE tx[c].stage = "persist" /\ Continue(c, [tx[c] EXCEPT !.late = TRUE]) /\ Calm
  <2> DEFINE u == [tx[c] EXCEPT !.late = TRUE]
  <2>1. Shaped(u) /\ u.stage = "persist" /\ u.draft.done = world.done
    BY <1>2, <1>5 DEF Shaped, Inv, Isolated, Drafting
  <2>2. Continue(c, u) /\ Calm
    BY <1>5
  <2> HIDE DEF u
  <2>3. QED
    BY <1>2, <2>1, <2>2, ContinueImplements DEF InTransaction, Drafting
<1>6. QED
  BY <1>3, <1>4, <1>5 DEF Interrupt, Calm

\* One turn of the rollback.
LEMMA RollbackImplements ==
    ASSUME CompoundAssumption, Inv, NEW c \in Commands,
           \/ \E w \in Windows : RestoreRead(c, w)
           \/ RestoreWritten(c)
           \/ Forget(c)
    PROVE  Implements
<1>1. /\ tx[c].stage \in {"restore", "forget"} /\ Calm
      /\ Underway(c) /\ gate = c /\ Shaped(tx[c])
  BY TransactionUnderway DEF RestoreRead, RestoreWritten, Forget, InTransaction, Calm
<1>2. ASSUME NEW w \in Windows, RestoreRead(c, w)
      PROVE  Implements
  <2> DEFINE u == [tx[c] EXCEPT !.todo = @ \ {w}]
             missed == [u EXCEPT !.incomplete = TRUE]
             asked == [tx[c] EXCEPT !.result = [v \in {w} |-> "none"]]
  <2>1. /\ Shaped(u) /\ Shaped(missed) /\ Shaped(asked)
        /\ u.stage = "restore" /\ missed.stage = "restore" /\ asked.stage = "restore"
    BY <1>1, <1>2 DEF Shaped, RestoreRead
  <2>2. RestoreOn(c, missed) \/ RestoreOn(c, u) \/ Continue(c, asked)
    BY <1>2 DEF RestoreRead
  <2> HIDE DEF u, missed, asked
  <2>3. QED
    BY <1>1, <2>1, <2>2, RestoreOnImplements, ContinueImplements DEF InTransaction, Drafting
<1>3. ASSUME RestoreWritten(c)
      PROVE  Implements
  <2> DEFINE u(w) == [tx[c] EXCEPT !.todo = @ \ {w}, !.result = <<>>,
                                   !.incomplete = @ \/ tx[c].result[w] # "exact"]
  <2>1. \A w : Shaped(u(w)) /\ u(w).stage = "restore"
    BY <1>1, <1>3 DEF Shaped, RestoreWritten
  <2>2. \E w : RestoreOn(c, u(w))
    BY <1>3 DEF RestoreWritten
  <2> HIDE DEF u
  <2>3. QED
    BY <1>1, <2>1, <2>2, RestoreOnImplements
<1>4. ASSUME Forget(c)
      PROVE  Implements
  <2>1. Release(c, tx[c].receipt) /\ tx[c].receipt \in Receipts
    BY <1>1, <1>4 DEF Forget, Shaped
  <2>2. QED
    BY <1>1, <2>1, ReleaseImplements
<1>5. QED
  BY <1>2, <1>3, <1>4

\* The command is submitted, and gets the gate.
LEMMA EntryImplements ==
    ASSUME CompoundAssumption, Inv, NEW c \in Commands,
           Begin(c) \/ EnterGate(c) \/ EnterInVain(c)
    PROVE  Implements
<1>1. Underway(c) \/ Begin(c)
  BY DEF EnterGate, EnterInVain, Underway, Receipts
<1>2. ASSUME NEW u, tx' = [tx EXCEPT ![c] = u], Shaped(u), Calm,
             \/ u.stage = "waiting" /\ gate' = gate
             \/ u.stage \in {"windows", "capture"} /\ gate = NoOne /\ gate' = c,
             tx[c].stage \in {"idle", "waiting"}
      PROVE  Implements
  <2>1. /\ tx'[c] = u /\ DOMAIN tx' = Commands
        /\ \A d \in Commands \ {c} : tx'[d] = tx[d]
        /\ world' = world /\ published' = published
    BY <1>2 DEF Calm, Inv, Shapes
  <2>2. u.stage \notin Receipts /\ tx[c].stage \notin Receipts /\ u.stage \notin Drafting
    BY <1>2 DEF Receipts, Drafting
  <2>3. Shapes'
    BY <1>2, <2>1 DEF Inv, Shapes, Shaped
  <2>4. \A d \in Commands : tx'[d].stage \in InTransaction => gate' = d
    BY <1>2, <2>1, StagesDiffer DEF Inv, Isolated, CompoundAssumption
  <2>5. Isolated'
    BY <2>1, <2>2, <2>4 DEF Inv, Isolated
  <2>6. Status' = Status
    BY <2>1, <2>2 DEF Status
  <2>7. QED
    BY <2>1, <2>3, <2>5, <2>6 DEF Implements, Inv, Mapped
<1>3. ASSUME Begin(c)
      PROVE  Implements
  <2> DEFINE u == [Fresh("waiting") EXCEPT
                     !.known = IF c \in Deferred THEN {} ELSE world.members]
  <2>1. Shaped(u) /\ u.stage = "waiting"
    BY DEF Shaped, Fresh, Receipts
  <2>2. tx' = [tx EXCEPT ![c] = u] /\ gate' = gate /\ Calm /\ tx[c].stage = "idle"
    BY <1>3 DEF Begin, Calm
  <2> HIDE DEF u
  <2>3. QED
    BY <1>2, <2>1, <2>2
<1>4. ASSUME EnterGate(c)
      PROVE  Implements
  <2> DEFINE ids == IF c \in Deferred THEN world.members ELSE tx[c].known
             u == [Fresh(IF ids = {} THEN "windows" ELSE "capture")
                     EXCEPT !.todo = ids, !.before = learning]
  <2>1. Shaped(u) /\ u.stage \in {"windows", "capture"}
    BY DEF Shaped, Fresh, Receipts
  <2>2. /\ tx' = [tx EXCEPT ![c] = u] /\ gate = NoOne /\ gate' = c /\ Calm
        /\ tx[c].stage = "waiting"
    BY <1>4 DEF EnterGate, Calm
  <2> HIDE DEF ids, u
  <2>3. QED
    BY <1>2, <2>1, <2>2
<1>5. ASSUME EnterInVain(c)
      PROVE  Implements
  <2>1. \E r \in Receipts : Release(c, r)
    BY <1>5 DEF EnterInVain, Receipts
  <2>2. Calm /\ Underway(c)
    BY <1>5 DEF EnterInVain, Calm, Underway, Receipts
  <2>3. QED
    BY <2>1, <2>2, ReleaseImplements
<1>6. QED
  BY <1>3, <1>4, <1>5

\* The inventory is read or not; the batch fails.
LEMMA ReadImplements ==
    ASSUME CompoundAssumption, Inv, NEW c \in Commands,
           ReadFails(c) \/ ReadWindows(c) \/ BatchFails(c)
    PROVE  Implements
<1>1. Underway(c) /\ gate = c /\ Shaped(tx[c])
  BY TransactionUnderway DEF ReadFails, ReadWindows, BatchFails, InTransaction, Interruptible
<1>2. CASE ReadWindows(c)
  <2> DEFINE u == [tx[c] EXCEPT !.stage = "topology", !.seen = [w \in Open |-> frame[w]]]
  <2>1. Shaped(u) /\ u.stage = "topology"
    BY <1>1 DEF Shaped
  <2>2. Continue(c, u) /\ Calm
    BY <1>2 DEF ReadWindows, Calm
  <2> HIDE DEF u
  <2>3. QED
    BY <1>1, <2>1, <2>2, ContinueImplements DEF InTransaction, Interruptible, Drafting
<1>3. CASE ReadFails(c) \/ BatchFails(c)
  <2>1. Abort(c, tx[c], learning, "failed")
    BY <1>3 DEF ReadFails, BatchFails
  <2>2. QED
    BY <1>1, <2>1, AbortImplements DEF Receipts
<1>4. QED
  BY <1>2, <1>3

\* What the sidecar answers is noted in the command's results only.
LEMMA AnswerImplements ==
    ASSUME Inv, NEW o, Land(o) \/ CallFails(o)
    PROVE  Implements
<1>1. /\ UNCHANGED <<gate, published, world>>
      /\ \/ tx' = tx
         \/ \E r : tx' = [tx EXCEPT ![o.by].result[o.win] = r]
  BY DEF Land, CallFails
<1>2. /\ DOMAIN tx' = Commands
      /\ \A d \in Commands : /\ tx'[d].stage = tx[d].stage /\ tx'[d].draft = tx[d].draft
                             /\ tx'[d].receipt = tx[d].receipt
                             /\ DOMAIN tx'[d] = DOMAIN tx[d]
  <2>1. ASSUME NEW r, tx' = [tx EXCEPT ![o.by].result[o.win] = r]
        PROVE  \E t : /\ tx' = [tx EXCEPT ![o.by] = t]
                      /\ DOMAIN t = DOMAIN tx[o.by]
                      /\ o.by \in Commands => /\ t.stage = tx[o.by].stage
                                              /\ t.draft = tx[o.by].draft
                                              /\ t.receipt = tx[o.by].receipt
    <3> DEFINE t == [tx[o.by] EXCEPT !.result[o.win] = r]
    <3>1. tx' = [tx EXCEPT ![o.by] = t]
      BY <2>1
    <3>2. DOMAIN t = DOMAIN tx[o.by]
      OBVIOUS
    <3>3. o.by \in Commands => /\ t.stage = tx[o.by].stage /\ t.draft = tx[o.by].draft
                               /\ t.receipt = tx[o.by].receipt
      BY DEF Inv, Shapes, Shaped
    <3> HIDE DEF t
    <3>4. QED
      BY <3>1, <3>2, <3>3
  <2>2. CASE tx' = tx
    BY <2>2 DEF Inv, Shapes
  <2>3. QED
    BY <1>1, <2>1, <2>2 DEF Inv, Shapes
<1>3. QED
  BY <1>1, <1>2, QuietImplements DEF Inv, Shapes

\* The user, cycles and switches leave commands alone.
LEMMA OthersImplement ==
    ASSUME Inv,
           \/ \E w \in Windows : Disturb(w)
           \/ Cycle
           \/ \E p \in Switches : BeginSwitch(p) \/ EndSwitch(p)
    PROVE  Implements
<1>1. /\ UNCHANGED <<gate, published, tx>>
      /\ \/ world' = world
         \/ world' = [world EXCEPT !.members = Open]
         \/ \E b : world' = [world EXCEPT !.paused = b]
  BY DEF Disturb, Cycle, BeginSwitch, EndSwitch
<1>2. world'.done = world.done /\ "done" \in DOMAIN world'
  BY <1>1 DEF Inv, Shapes
<1>3. DOMAIN tx' = Commands
  BY <1>1 DEF Inv, Shapes
<1>4. QED
  BY <1>1, <1>2, <1>3, QuietImplements

LEMMA StepImplements ==
    ASSUME CompoundAssumption, Inv, [Next]_vars
    PROVE  Implements
<1>1. CASE UNCHANGED vars
  BY <1>1, QuietImplements DEF vars, Inv, Shapes
<1>2. ASSUME NEW c \in Commands, Working(c)
      PROVE  Implements
  BY <1>2, ReadImplements, PlanImplements, JudgeImplements, PersistImplements,
     RollbackImplements, CaptureImplements, RefreshImplements DEF Working
<1>3. CASE Next
  BY <1>2, <1>3, EntryImplements, InterruptImplements, AnswerImplements, OthersImplement DEF Next
<1>4. QED
  BY <1>1, <1>3

LEMMA InitImplements ==
    ASSUME CompoundAssumption, Init
    PROVE  Inv /\ Promise!Init
<1>1. \A c \in Commands : tx[c] = Fresh("idle")
  BY DEF Init
<1>2. DOMAIN tx = Commands /\ "done" \in DOMAIN world /\ world.done = {} /\ published = {}
  BY DEF Init
<1>3. Shapes
  BY <1>1, <1>2, FreshShaped DEF Shapes
<1>4. Isolated
  BY <1>1, <1>2, FreshShaped, StagesDiffer DEF Isolated
<1>5. Promise!Init
  BY <1>1, <1>2, FreshShaped, StagesDiffer DEF Promise!Init
<1>6. QED
  BY <1>3, <1>4, <1>5 DEF Inv

\* Whoever is in its transaction holds the gate, and nothing that a command
\* drafted under it is out of date with regard to other commands' effects.
THEOREM TransactionsAreIsolated == Spec => []Isolated
<1>1. Init => Inv
  BY InitImplements, CompoundAssumption
<1>2. Inv /\ [Next]_vars => Inv'
  BY StepImplements, CompoundAssumption DEF Implements
<1>3. Inv => Isolated
  BY DEF Inv
<1>4. QED
  BY <1>1, <1>2, <1>3, PTL DEF Spec

\* All of a command's effect becomes visible in one step, or none of it ever
\* does, and no later commit of another command takes it back.
THEOREM CommandsAreAtomic == Spec => Atomic
<1>1. Init => Inv /\ Promise!Init
  BY InitImplements, CompoundAssumption
<1>2. Inv /\ [Next]_vars => Inv' /\ (Promise!Next \/ UNCHANGED Mapped)
  BY StepImplements, CompoundAssumption DEF Implements
<1>3. UNCHANGED Mapped <=>
        UNCHANGED <<[c \in Commands |-> IF c \in published THEN "committed"
                       ELSE IF tx[c].stage \in Receipts THEN "aborted" ELSE "open"],
                    world.done, published>>
  BY DEF Mapped, Status
<1>4. QED
  BY <1>1, <1>2, <1>3, PTL DEF Spec, Atomic, Promise!Spec

-----------------------------------------------------------------------------
(***************************************************************************)
(* The desktop.  A command leaves marks: the places of its policies, its   *)
(* writes, and what it has moved.  Before its first write there is no mark *)
(* of it anywhere, so that what it captures is nothing of its own, and a   *)
(* window that is back where it was captured is not where the plan put it. *)
(***************************************************************************)

Stages == {"idle", "waiting"} \cup InTransaction \cup Receipts
Early == {"idle", "waiting", "capture", "windows", "topology"}
Captured == [frame : Frames, ident : Idents]
Partial(S) == UNION {[D -> S] : D \in SUBSET Windows}

Ctx == [stage : Stages, known : SUBSET Windows, todo : SUBSET Windows, taken : Partial(Captured),
        seen : Partial(Frames), targets : SUBSET Windows, result : Partial(Results),
        again : SUBSET Windows, policy : 1..Policies, placed : BOOLEAN,
        draft : [members : SUBSET Windows, paused : BOOLEAN, done : SUBSET Commands],
        before : SUBSET Commands, keep : BOOLEAN, late : BOOLEAN, incomplete : BOOLEAN,
        receipt : Receipts]

WriteOps == [win : Windows, frame : Frames, ident : Idents, by : Commands, restoring : BOOLEAN,
             heard : BOOLEAN]

Typed ==
    /\ frame \in [Windows -> Frames] /\ ident \in [Windows -> Idents]
    /\ mover \in [Windows -> (Commands \cup {NoOne}) \X {"user", "plan", "late", "restore"}]
    /\ flight \subseteq WriteOps
    /\ world \in [members : SUBSET Windows, paused : BOOLEAN, done : SUBSET Commands]
    /\ tx \in [Commands -> Ctx]
    /\ learning \subseteq Commands /\ stored \subseteq Commands
    /\ health \in {"healthy", "degraded"}

Moved(c, w) == mover[w] = <<c, "plan">>

\* What of c is to be seen.
Marked(c) ==
    \/ \E w \in Windows : frame[w][1] = c \/ mover[w][1] = c
    \/ \E o \in flight : o.by = c \/ o.frame[1] = c
    \/ \E d \in Commands : \E w \in DOMAIN tx[d].taken : tx[d].taken[w].frame[1] = c
    \/ \E w \in DOMAIN tx[c].seen : tx[c].stage \in Early /\ tx[c].seen[w][1] = c

Unmarked(c) ==
    /\ tx[c].stage \in Early => ~Marked(c)
    /\ \A w \in DOMAIN tx[c].taken : tx[c].taken[w].frame[1] # c

\* Which windows a command in its transaction deals with: those it has captured.
Within(c) ==
    LET t == tx[c] IN
    /\ t.targets \cup DOMAIN t.result \cup (IF t.stage = "capture" THEN {} ELSE t.todo)
          \subseteq DOMAIN t.taken
    /\ t.targets \subseteq DOMAIN t.seen
    /\ t.stage \in Early => t.targets = {} /\ DOMAIN t.result = {}
    /\ \A w \in Windows : t.stage \in InTransaction /\ mover[w][1] = c
                              => w \in DOMAIN t.taken /\ t.taken[w].ident = ident[w]

\* A write expects the identity that was captured; somebody waits for it in the stage
\* it was made for, and does so exactly as long as there is no answer.
OpOK(o) ==
    LET t == tx[o.by] IN
    /\ t.stage \in InTransaction => o.win \in DOMAIN t.taken /\ t.taken[o.win].ident = o.ident
    /\ o.heard =>
          /\ o.win \in DOMAIN t.result /\ t.result[o.win] = "none"
          /\ \/ t.stage = "writing" /\ ~o.restoring /\ o.frame = Place(o.by, t.policy)
             \/ t.stage = "restore" /\ o.restoring /\ o.frame = t.taken[o.win].frame

Awaited(c) ==
    tx[c].stage = "writing" =>
        \A w \in DOMAIN tx[c].result : tx[c].result[w] = "none" => \E o \in Heard(c) : o.win = w

\* Where the windows are that the plan has moved,
Tracked(c) ==
    LET t == tx[c] IN
    /\ \A w \in Windows : Moved(c, w) => frame[w][1] = c
    /\ t.stage = "writing" =>
          /\ \A w \in DOMAIN t.result :
                t.result[w] = "exact" /\ Moved(c, w) => frame[w] = Place(c, t.policy)
          /\ c \notin Retries => t.targets \subseteq DOMAIN t.result
    /\ t.stage = "refresh" =>
          /\ c \in Retries
          /\ \A w \in t.targets \ t.todo : Moved(c, w) => t.seen[w] = frame[w]
    /\ t.stage = "persist" =>
          \A w \in t.targets : \/ frame[w] = Place(c, t.policy)
                               \/ ~Moved(c, w)
                               \/ c \notin Retries /\ t.result[w] = "clamp"

\* and what a rollback has done about them.
Restoring(c) ==
    LET t == tx[c] IN
    /\ t.stage = "restore" =>
          \A w \in Windows : Moved(c, w) =>
             /\ w \in t.todo \/ t.incomplete
             /\ w \in DOMAIN t.result => t.result[w] # "exact"
    /\ t.stage = "forget" \/ (t.stage \in Receipts /\ c \notin published) =>
          \A w \in Windows : Moved(c, w) => health = "degraded"

\* What a command has learned is in memory only until it ends.
Learned(c) ==
    LET t == tx[c] IN
    /\ t.stage \in {"capture", "windows", "topology"} => learning = stored
    /\ t.stage \in Interruptible \cup {"persist"} => t.before = stored
    /\ t.stage = "restore" /\ ~t.keep => learning = stored

Placed(c) ==
    Unmarked(c) /\ Within(c) /\ Awaited(c) /\ Tracked(c) /\ Restoring(c) /\ Learned(c)

Traced ==
    /\ Typed
    /\ \A c \in Commands : Placed(c)
    /\ \A o \in flight : OpOK(o)
    /\ gate = NoOne => learning = stored

-----------------------------------------------------------------------------
(* Types.                                                                  *)

LEMMA EmptyPartial ==
    ASSUME NEW S
    PROVE  <<>> \in Partial(S) /\ DOMAIN <<>> = {} /\ \A w : w \notin DOMAIN <<>>
<1>1. DOMAIN <<>> = {}
  OBVIOUS
<1>2. <<>> = [w \in {} |-> w]
  BY <1>1
<1>3. [w \in {} |-> w] \in [{} -> S]
  OBVIOUS
<1>4. <<>> \in [{} -> S] /\ {} \in SUBSET Windows
  BY <1>2, <1>3
<1> QED BY <1>1, <1>4 DEF Partial

LEMMA PartialIs ==
    ASSUME NEW S, NEW f \in Partial(S)
    PROVE  DOMAIN f \subseteq Windows /\ f \in [DOMAIN f -> S]
BY DEF Partial

LEMMA MakePartial ==
    ASSUME NEW S, NEW D \in SUBSET Windows, NEW f \in [D -> S]
    PROVE  f \in Partial(S) /\ DOMAIN f = D
BY DEF Partial

LEMMA PlacesAreFrames ==
    /\ \A c \in Commands, k \in 0..Policies : Place(c, k) \in Frames /\ Place(c, k)[1] = c
    /\ \A c \in Commands : Halfway(c) \in Frames /\ Halfway(c)[1] = c
    /\ Home \in Frames /\ Elsewhere \in Frames /\ Home[1] = NoOne /\ Elsewhere[1] = NoOne
BY CompoundAssumption DEF Place, Halfway, Home, Elsewhere, Frames

LEMMA FreshCtx ==
    ASSUME NEW s \in Stages
    PROVE  /\ Fresh(s) \in Ctx /\ Fresh(s).stage = s
           /\ Fresh(s).todo = {} /\ Fresh(s).taken = <<>> /\ Fresh(s).seen = <<>>
           /\ Fresh(s).targets = {} /\ Fresh(s).result = <<>> /\ Fresh(s).keep = FALSE
           /\ Fresh(s).incomplete = FALSE /\ Fresh(s).before = {}
<1>1. <<>> \in Partial(Captured) /\ <<>> \in Partial(Frames) /\ <<>> \in Partial(Results)
  BY EmptyPartial
<1>2. 1 \in 1..Policies /\ "completed" \in Receipts
  BY CompoundAssumption DEF Receipts
<1> QED BY <1>1, <1>2 DEF Fresh, Ctx

-----------------------------------------------------------------------------
(* A turn of one command: what it does to the others.                      *)

Turn(c) ==
    /\ UNCHANGED <<frame, ident, mover>>
    /\ tx' \in [Commands -> Ctx] /\ \A d \in Commands \ {c} : tx'[d] = tx[d]
    /\ health' \in {health, "degraded"}
    /\ published \subseteq published' /\ published' \subseteq published \cup {c}
    /\ gate \in {c, NoOne}

\* It issues writes of its own only, and can do nothing but go on waiting for others'.
TurnsOps(c) ==
    /\ flight' \subseteq WriteOps
    /\ \A o \in flight : o.by # c => o \in flight'
    /\ \A o \in flight' :
          \/ o \in flight
          \/ o.by = c /\ (o.frame[1] = c \/ \E p \in flight : p.by = c /\ o.frame = p.frame)
          \/ o.by = c /\ \E w \in DOMAIN tx[c].taken : o.frame = tx[c].taken[w].frame

\* It captures windows where they are.
TurnsTaken(c) ==
    \A w \in DOMAIN tx'[c].taken :
        \/ tx'[c].taken[w].frame = frame[w] /\ w \in Windows
        \/ w \in DOMAIN tx[c].taken /\ tx'[c].taken[w].frame = tx[c].taken[w].frame

LEMMA MarksOfTurn ==
    ASSUME Typed, NEW c \in Commands, Turn(c), TurnsOps(c), TurnsTaken(c),
           NEW d \in Commands \ {c}, Marked(d)'
    PROVE  Marked(d) \/ tx'[d].stage \notin Early
<1>1. tx'[d] = tx[d] /\ UNCHANGED <<frame, mover>>
  BY DEF Turn
<1>2. CASE \E w \in Windows : frame'[w][1] = d \/ mover'[w][1] = d
  BY <1>1, <1>2 DEF Marked
<1>3. ASSUME NEW o \in flight', o.by = d \/ o.frame[1] = d
      PROVE  Marked(d)
  <2>1. CASE o \in flight
    BY <1>3, <2>1 DEF Marked
  <2>2. CASE o.by = c /\ o.frame[1] = c
    BY <1>3, <2>2
  <2>3. CASE o.by = c /\ \E p \in flight : o.frame = p.frame
    BY <1>3, <2>3 DEF Marked
  <2>4. CASE o.by = c /\ \E w \in DOMAIN tx[c].taken : o.frame = tx[c].taken[w].frame
    BY <1>3, <2>4 DEF Marked
  <2> QED BY <2>1, <2>2, <2>3, <2>4 DEF TurnsOps
<1>4. ASSUME NEW e \in Commands, NEW w \in DOMAIN tx'[e].taken, tx'[e].taken[w].frame[1] = d
      PROVE  Marked(d)
  <2>1. CASE e # c
    <3>1. tx'[e] = tx[e]
      BY <2>1 DEF Turn
    <3> QED BY <1>4, <3>1 DEF Marked
  <2>2. CASE e = c
    BY <1>4, <2>2 DEF Marked, TurnsTaken
  <2> QED BY <2>1, <2>2
<1>5. CASE \E w \in DOMAIN tx'[d].seen : tx'[d].stage \in Early /\ tx'[d].seen[w][1] = d
  BY <1>1, <1>5 DEF Marked
<1> QED BY <1>2, <1>3, <1>4, <1>5 DEF Marked

LEMMA OthersPlaced ==
    ASSUME CompoundAssumption, Inv, Traced, NEW c \in Commands, Turn(c), TurnsOps(c), TurnsTaken(c)
    PROVE  /\ \A d \in Commands \ {c} : Placed(d)'
           /\ \A o \in flight' : o.by # c => OpOK(o)'
<1>1. ASSUME NEW d \in Commands \ {c} PROVE Placed(d)'
  <2>1. tx'[d] = tx[d] /\ UNCHANGED <<frame, ident, mover>> /\ Placed(d)
    BY DEF Turn, Traced
  <2>2. Unmarked(d)'
    BY <2>1, MarksOfTurn DEF Unmarked, Placed, Traced
  <2>3. Within(d)'
    BY <2>1 DEF Within, Placed
  <2>4. Awaited(d)'
    <3>1. \A o \in Heard(d) : o \in Heard(d)'
      BY DEF Heard, TurnsOps
    <3> QED BY <2>1, <3>1 DEF Awaited, Placed
  <2>5. Tracked(d)'
    BY <2>1 DEF Tracked, Placed, Moved
  <2>6. Restoring(d)'
    BY <2>1 DEF Restoring, Placed, Moved, Turn
  <2>7. Learned(d)'
    <3>1. tx[d].stage \notin InTransaction
      BY CompoundAssumption DEF Inv, Isolated, Turn
    <3> QED BY <2>1, <3>1 DEF Learned, InTransaction, Interruptible
  <2> QED BY <2>2, <2>3, <2>4, <2>5, <2>6, <2>7 DEF Placed
<1>2. ASSUME NEW o \in flight', o.by # c PROVE OpOK(o)'
  <2>1. o \in flight /\ o.by \in Commands
    BY <1>2 DEF TurnsOps, WriteOps
  <2>2. tx'[o.by] = tx[o.by] /\ OpOK(o)
    BY <1>2, <2>1 DEF Turn, Traced
  <2> QED BY <2>2 DEF OpOK
<1> QED BY <1>1, <1>2

-----------------------------------------------------------------------------
(* A turn of one command: what it does to the command.                     *)

Own(c) == Placed(c) /\ \A o \in flight : o.by = c => OpOK(o)

\* All that is to be known of a turn, but for its writes.
Turned(c) ==
    /\ Own(c)'
    /\ tx' \in [Commands -> Ctx] /\ \A d \in Commands \ {c} : tx'[d] = tx[d]
    /\ TurnsTaken(c)
    /\ health' \in {health, "degraded"}
    /\ gate' = NoOne => learning' = stored'

Still == UNCHANGED <<frame, ident, mover>>

\* No write of the command is awaited, and none is new.
GivenUp(c) ==
    \A o \in flight' : o.by = c =>
        ~o.heard /\ \E p \in flight : p.by = c /\ p.win = o.win /\ p.ident = o.ident

LEMMA NewRecord ==
    ASSUME Typed, NEW c \in Commands, NEW u \in Ctx, tx' = [tx EXCEPT ![c] = u]
    PROVE  /\ tx' \in [Commands -> Ctx] /\ tx'[c] = u /\ \A d \in Commands \ {c} : tx'[d] = tx[d]
BY DEF Typed

LEMMA KeptTaken ==
    ASSUME Typed, NEW c \in Commands, tx'[c].taken = tx[c].taken \/ DOMAIN tx'[c].taken = {}
    PROVE  TurnsTaken(c)
BY DEF TurnsTaken

\* The facts about what a command has captured, while it is in its transaction.
LEMMA CapturedFacts ==
    ASSUME Inv, Traced, NEW c \in Commands, tx[c].stage \in InTransaction
    PROVE  /\ tx[c] \in Ctx /\ gate = c /\ c \notin published
           /\ \A w \in DOMAIN tx[c].taken : tx[c].taken[w].frame[1] # c
           /\ \A w \in Windows : mover[w][1] = c => w \in DOMAIN tx[c].taken
                                                    /\ tx[c].taken[w].ident = ident[w]
           /\ \A w \in Windows : Moved(c, w) => w \in DOMAIN tx[c].taken /\ frame[w][1] = c
           /\ \A o \in flight : o.by = c => o.win \in DOMAIN tx[c].taken
                                            /\ tx[c].taken[o.win].ident = o.ident
<1>1. Placed(c) /\ (\A o \in flight : OpOK(o)) /\ tx[c] \in Ctx
  BY DEF Traced, Typed
<1>2. gate = c /\ c \notin published
  BY StagesDiffer DEF Inv, Isolated
<1>3. \A w \in Windows : mover[w][1] = c => w \in DOMAIN tx[c].taken
                                            /\ tx[c].taken[w].ident = ident[w]
  BY <1>1 DEF Placed, Within
<1>4. \A w \in Windows : Moved(c, w) => mover[w][1] = c /\ frame[w][1] = c
  BY <1>1 DEF Placed, Tracked, Moved
<1>5. \A o \in flight : o.by = c => o.win \in DOMAIN tx[c].taken
                                    /\ tx[c].taken[o.win].ident = o.ident
  BY <1>1 DEF OpOK
<1>6. \A w \in DOMAIN tx[c].taken : tx[c].taken[w].frame[1] # c
  BY <1>1 DEF Placed, Unmarked
<1> QED BY <1>1, <1>2, <1>3, <1>4, <1>5, <1>6

LEMMA ReleaseTurned ==
    ASSUME CompoundAssumption, Traced, NEW c \in Commands, NEW r \in Receipts, Release(c, r), Still,
           GivenUp(c), learning' = stored', health' \in {health, "degraded"},
           c \notin published' => \A w \in Windows : Moved(c, w) => health' = "degraded"
    PROVE  Turned(c)
<1> DEFINE u == Fresh(r)
<1>1. /\ u \in Ctx /\ u.stage = r /\ DOMAIN u.taken = {} /\ DOMAIN u.seen = {} /\ DOMAIN u.result = {}
      /\ u.todo = {} /\ u.targets = {}
  BY FreshCtx, EmptyPartial DEF Stages
<1>2. tx' = [tx EXCEPT ![c] = u] /\ Typed
  BY DEF Release, Traced
<1> HIDE DEF u
<1>3. /\ tx' \in [Commands -> Ctx] /\ tx'[c] = u /\ \A d \in Commands \ {c} : tx'[d] = tx[d]
  BY <1>1, <1>2, NewRecord
<1>4. r \notin InTransaction /\ r \notin Early /\ r \notin Drafting /\ r \notin Interruptible
  BY DEF InTransaction, Interruptible, Early, Drafting, Receipts
<1>5. Unmarked(c)' /\ Within(c)' /\ Learned(c)' /\ Awaited(c)'
  BY <1>1, <1>3, <1>4
     DEF Unmarked, Within, Learned, Awaited, InTransaction, Early, Interruptible, Drafting
<1>6. \A w \in Windows : Moved(c, w)' = Moved(c, w) /\ frame'[w] = frame[w]
  BY DEF Moved, Still
<1>7. Tracked(c)'
  BY <1>1, <1>3, <1>4, <1>6 DEF Tracked, Drafting, Traced, Placed
<1>8. Restoring(c)'
  BY <1>1, <1>3, <1>4, <1>6 DEF Restoring, InTransaction
<1>9. \A o \in flight' : o.by = c => OpOK(o)'
  BY <1>1, <1>3, <1>4 DEF OpOK, GivenUp
<1>10. TurnsTaken(c)
  BY <1>1, <1>2, <1>3, KeptTaken
<1> QED BY <1>3, <1>5, <1>7, <1>8, <1>9, <1>10 DEF Turned, Own, Placed

\* Restoration goes on or is over.
LEMMA RestoreOnTurned ==
    ASSUME CompoundAssumption, Inv, Traced, NEW c \in Commands, tx[c].stage \in InTransaction,
           NEW t \in Ctx, t.stage = "restore", t.taken = tx[c].taken, DOMAIN t.result = {},
           t.todo \subseteq DOMAIN t.taken, t.targets \subseteq DOMAIN t.taken \cap DOMAIN t.seen,
           \A w \in Windows : Moved(c, w) => w \in t.todo \/ t.incomplete,
           ~t.keep => learning' = stored',
           RestoreOn(c, t), Still, GivenUp(c), published' = published, stored' = stored
    PROVE  Turned(c)
<1>1. /\ tx[c] \in Ctx /\ gate = c /\ c \notin published
      /\ \A w \in DOMAIN tx[c].taken : tx[c].taken[w].frame[1] # c
      /\ \A w \in Windows : mover[w][1] = c => w \in DOMAIN tx[c].taken
                                               /\ tx[c].taken[w].ident = ident[w]
      /\ \A w \in Windows : Moved(c, w) => w \in DOMAIN tx[c].taken /\ frame[w][1] = c
      /\ \A o \in flight : o.by = c => o.win \in DOMAIN tx[c].taken
                                       /\ tx[c].taken[o.win].ident = o.ident
  BY CapturedFacts
<1>2. \A w \in Windows : Moved(c, w)' = Moved(c, w) /\ frame'[w] = frame[w] /\ mover'[w] = mover[w]
                         /\ ident'[w] = ident[w]
  BY DEF Moved, Still
\* What stays true of any record that keeps what was captured and is past its writes.
<1>3. ASSUME NEW u \in Ctx, tx' = [tx EXCEPT ![c] = u], u.stage \in {"restore", "forget"},
             u.taken = t.taken, DOMAIN u.result = {}, u.todo = t.todo, u.targets = t.targets,
             u.seen = t.seen, u.incomplete = t.incomplete, u.keep = t.keep, gate' = gate,
             health' \in {health, "degraded"},
             u.stage = "forget" => u.keep /\ \A w \in Windows : Moved(c, w) => health' = "degraded"
      PROVE  Turned(c)
  <2>1. /\ tx' \in [Commands -> Ctx] /\ tx'[c] = u /\ \A d \in Commands \ {c} : tx'[d] = tx[d]
    BY <1>3, NewRecord DEF Traced
  <2>2. u.stage \notin Early /\ u.stage \notin Drafting /\ u.stage \notin Interruptible
        /\ u.stage \notin Receipts
    BY <1>3 DEF Interruptible, Early, Drafting, Receipts
  <2>3. Unmarked(c)'
    BY <1>1, <1>3, <2>1, <2>2 DEF Unmarked
  <2>4. Within(c)'
    BY <1>1, <1>2, <1>3, <2>1, <2>2 DEF Within
  <2>5. Awaited(c)' /\ Learned(c)'
    BY <1>3, <2>1, <2>2 DEF Awaited, Learned, Drafting, Interruptible
  <2>6. Tracked(c)'
    BY <1>1, <1>2, <1>3, <2>1, <2>2 DEF Tracked, Drafting
  <2>7. Restoring(c)'
    BY <1>2, <1>3, <2>1, <2>2 DEF Restoring
  <2>8. \A o \in flight' : o.by = c => OpOK(o)'
    BY <1>1, <1>3, <2>1 DEF OpOK, GivenUp
  <2>9. TurnsTaken(c)
    BY <1>3, <2>1, KeptTaken DEF Traced
  <2> QED BY <1>1, <1>3, <2>1, <2>3, <2>4, <2>5, <2>6, <2>7, <2>8, <2>9, CompoundAssumption
          DEF Turned, Own, Placed
<1>4. CASE t.todo # {}
  BY <1>3, <1>4 DEF RestoreOn, Continue
<1>5. CASE t.todo = {}
  <2>1. health' = IF t.incomplete THEN "degraded" ELSE health
    BY <1>5 DEF RestoreOn
  <2>2. \A w \in Windows : Moved(c, w) => health' = "degraded"
    BY <1>5, <2>1
  <2>3. CASE t.keep /\ learning' # stored
    <3> DEFINE u == [t EXCEPT !.stage = "forget"]
    <3>1. tx' = [tx EXCEPT ![c] = u] /\ gate' = gate
      BY <1>5, <2>3 DEF RestoreOn, Continue
    <3>2. /\ u \in Ctx /\ u.stage = "forget" /\ u.taken = t.taken /\ u.result = t.result
          /\ u.todo = t.todo /\ u.targets = t.targets /\ u.seen = t.seen
          /\ u.incomplete = t.incomplete /\ u.keep = t.keep
      BY DEF Ctx, Stages, InTransaction
    <3> HIDE DEF u
    <3> QED BY <1>3, <2>1, <2>2, <2>3, <3>1, <3>2
  <2>4. CASE ~(t.keep /\ learning' # stored)
    <3>1. Release(c, t.receipt) /\ t.receipt \in Receipts /\ learning' = stored'
      BY <1>5, <2>4 DEF RestoreOn, Ctx
    <3> QED BY <2>1, <2>2, <3>1, ReleaseTurned
  <2> QED BY <2>3, <2>4
<1> QED BY <1>4, <1>5

\* The command fails.
LEMMA AbortTurned ==
    ASSUME CompoundAssumption, Inv, Traced, NEW c \in Commands,
           tx[c].stage \in Interruptible \cup {"persist"},
           NEW t \in Ctx, t.taken = tx[c].taken, t.before = tx[c].before, NEW learned, NEW r \in Receipts,
           Abort(c, t, learned, r), Still, GivenUp(c)
    PROVE  Turned(c)
<1> DEFINE u == [Fresh("restore") EXCEPT !.todo = DOMAIN t.taken, !.taken = t.taken,
                                         !.keep = t.keep, !.receipt = r]
<1>1. tx[c].stage \in InTransaction /\ t.before = stored
  BY DEF InTransaction, Traced, Placed, Learned
<1>2. DOMAIN t.taken \subseteq Windows
  BY PartialIs DEF Ctx
<1>3. /\ u \in Ctx /\ u.stage = "restore" /\ u.taken = t.taken /\ DOMAIN u.result = {}
      /\ u.todo = DOMAIN t.taken /\ u.targets = {} /\ u.keep = t.keep
  <2>1. Fresh("restore") \in Ctx /\ Fresh("restore").stage = "restore"
        /\ Fresh("restore").targets = {} /\ Fresh("restore").result = <<>>
    BY FreshCtx DEF Stages, InTransaction
  <2>2. DOMAIN <<>> = {}
    OBVIOUS
  <2> HIDE DEF u
  <2>3. u \in Ctx
    BY <1>2, <2>1 DEF Ctx, u
  <2>4. /\ u.stage = "restore" /\ u.taken = t.taken /\ u.result = <<>>
        /\ u.todo = DOMAIN t.taken /\ u.targets = {} /\ u.keep = t.keep
    BY <2>1 DEF Ctx, u
  <2> QED BY <2>2, <2>3, <2>4
<1>4. /\ RestoreOn(c, u) /\ learning' = (IF t.keep THEN learned ELSE t.before)
      /\ stored' = stored /\ published' = published
  BY DEF Abort
<1> HIDE DEF u
<1>5. \A w \in Windows : Moved(c, w) => w \in DOMAIN tx[c].taken
  BY <1>1, CapturedFacts
<1> QED BY <1>1, <1>3, <1>4, <1>5, RestoreOnTurned

\* The command writes.
LEMMA IssueTurned ==
    ASSUME CompoundAssumption, Inv, Traced, NEW c \in Commands, tx[c].stage \in Interruptible,
           NEW t \in Ctx, t.taken = tx[c].taken, t.before = tx[c].before,
           t.targets \subseteq DOMAIN t.taken \cap DOMAIN t.seen, DOMAIN t.result \subseteq DOMAIN t.taken,
           NEW now \in SUBSET DOMAIN t.taken, NEW later \in SUBSET DOMAIN t.taken, Heard(c) = {},
           \A w \in DOMAIN t.result \ now :
               /\ t.result[w] # "none"
               /\ t.result[w] = "exact" /\ Moved(c, w) => frame[w] = Place(c, t.policy),
           c \notin Retries => t.targets \subseteq now \cup DOMAIN t.result,
           Issue(c, t, now, later), Still, health' \in {health, "degraded"}, stored' = stored
    PROVE  Turned(c) /\ TurnsOps(c)
<1> DEFINE result == [w \in now \cup DOMAIN t.result |-> IF w \in now THEN "none" ELSE t.result[w]]
           u == [t EXCEPT !.stage = "writing", !.todo = later, !.result = result]
           Op(w) == [win |-> w, frame |-> Place(c, t.policy), ident |-> t.taken[w].ident,
                     by |-> c, restoring |-> FALSE, heard |-> TRUE]
           made == {Op(w) : w \in now}
<1>1. /\ tx[c] \in Ctx /\ gate = c /\ c \notin published /\ tx[c].stage \in InTransaction
      /\ \A w \in DOMAIN tx[c].taken : tx[c].taken[w].frame[1] # c
      /\ \A w \in Windows : mover[w][1] = c => w \in DOMAIN tx[c].taken
                                               /\ tx[c].taken[w].ident = ident[w]
      /\ \A w \in Windows : Moved(c, w) => w \in DOMAIN tx[c].taken /\ frame[w][1] = c
      /\ \A o \in flight : o.by = c => o.win \in DOMAIN tx[c].taken
                                       /\ tx[c].taken[o.win].ident = o.ident
  <2>1. tx[c].stage \in InTransaction
    BY DEF InTransaction
  <2> QED BY <2>1, CapturedFacts
<1>2. /\ DOMAIN t.taken \subseteq Windows /\ t.taken \in [DOMAIN t.taken -> Captured]
      /\ t.result \in [DOMAIN t.result -> Results] /\ t.policy \in 1..Policies
  BY PartialIs DEF Ctx
<1>3. result \in Partial(Results) /\ DOMAIN result = now \cup DOMAIN t.result
  <2>1. result \in [now \cup DOMAIN t.result -> Results]
    BY <1>2 DEF Results
  <2> HIDE DEF result
  <2> QED BY <1>2, <2>1, MakePartial
<1>4. \A w \in DOMAIN result : /\ w \in now => result[w] = "none"
                               /\ w \notin now => result[w] = t.result[w]
  OBVIOUS
<1>5. tx' = [tx EXCEPT ![c] = u] /\ gate' = gate /\ flight' = flight \cup made
  BY DEF Issue, Continue
<1> HIDE DEF result
<1>6. /\ u \in Ctx /\ u.stage = "writing" /\ u.todo = later /\ u.result = result
      /\ u.taken = t.taken /\ u.targets = t.targets /\ u.seen = t.seen /\ u.policy = t.policy
      /\ u.before = t.before
  <2>1. later \subseteq Windows
    BY <1>2
  <2> QED BY <1>3, <2>1 DEF Ctx, Stages, InTransaction, Interruptible
<1> HIDE DEF u
<1>7. /\ tx' \in [Commands -> Ctx] /\ tx'[c] = u /\ \A d \in Commands \ {c} : tx'[d] = tx[d]
  BY <1>5, <1>6, NewRecord DEF Traced
<1>8. \A w \in Windows : Moved(c, w)' = Moved(c, w) /\ frame'[w] = frame[w] /\ mover'[w] = mover[w]
                         /\ ident'[w] = ident[w]
  BY DEF Moved, Still
<1>9. \A o \in made : /\ o \in WriteOps /\ o.win \in now /\ o.by = c /\ o.frame = Place(c, t.policy)
                      /\ o.frame[1] = c /\ o.ident = t.taken[o.win].ident /\ ~o.restoring /\ o.heard
  <2>1. Place(c, t.policy) \in Frames /\ Place(c, t.policy)[1] = c
    BY <1>2, PlacesAreFrames
  <2>2. \A w \in now : t.taken[w].ident \in Idents /\ w \in Windows
    BY <1>2 DEF Captured
  <2>3. \A w \in now :
          /\ Op(w) \in WriteOps /\ Op(w).win = w /\ Op(w).by = c /\ Op(w).frame = Place(c, t.policy)
          /\ Op(w).ident = t.taken[w].ident /\ ~Op(w).restoring /\ Op(w).heard
    BY <2>1, <2>2 DEF WriteOps
  <2> HIDE DEF Op
  <2> QED BY <2>1, <2>3
<1>10. \A w \in now : \E o \in made : o.win = w
  <2>1. \A w \in now : Op(w) \in made /\ Op(w).win = w
    OBVIOUS
  <2> QED BY <2>1
<1> HIDE DEF made
<1>11. TurnsOps(c)
  BY <1>5, <1>9 DEF TurnsOps, Traced, Typed
<1>12. Unmarked(c)'
  BY <1>1, <1>6, <1>7 DEF Unmarked, Early
<1>13. Within(c)'
  BY <1>1, <1>3, <1>6, <1>7, <1>8 DEF Within, Early
<1>14. Awaited(c)'
  <2>1. \A o \in made : o \in Heard(c)'
    BY <1>5, <1>9 DEF Heard
  <2> QED BY <1>3, <1>4, <1>6, <1>7, <1>10, <2>1 DEF Awaited
<1>15. Tracked(c)'
  <2>1. \A w \in Windows : Moved(c, w)' => frame'[w][1] = c
    BY <1>1, <1>8
  <2>2. \A w \in DOMAIN result : result[w] = "exact" /\ Moved(c, w) => frame[w] = Place(c, t.policy)
    BY <1>3, <1>4
  <2>3. \A w \in DOMAIN result : w \in Windows
    BY <1>2, <1>3
  <2>4. c \notin Retries => t.targets \subseteq DOMAIN result
    BY <1>3
  <2> QED BY <1>6, <1>7, <1>8, <2>1, <2>2, <2>3, <2>4 DEF Tracked
<1>16. Restoring(c)'
  BY <1>6, <1>7 DEF Restoring, Receipts
<1>17. Learned(c)'
  <2>1. t.before = stored
    BY DEF Traced, Placed, Learned
  <2> QED BY <1>6, <1>7, <2>1 DEF Learned, Interruptible
<1>18. \A o \in flight' : o.by = c => OpOK(o)'
  <2>1. ASSUME NEW o \in flight, o.by = c PROVE OpOK(o)'
    <3>1. ~o.heard
      BY <2>1 DEF Heard
    <3> QED BY <1>1, <1>6, <1>7, <2>1, <3>1 DEF OpOK
  <2>2. ASSUME NEW o \in made PROVE OpOK(o)'
    <3>1. o.win \in DOMAIN result /\ result[o.win] = "none"
      BY <1>3, <1>4, <1>9, <2>2
    <3> QED BY <1>6, <1>7, <1>9, <2>2, <3>1 DEF OpOK
  <2> QED BY <1>5, <2>1, <2>2
<1>19. TurnsTaken(c)
  BY <1>6, <1>7, KeptTaken DEF Traced
<1> QED BY <1>1, <1>5, <1>7, <1>11, <1>12, <1>13, <1>14, <1>15, <1>16, <1>17, <1>18, <1>19,
           CompoundAssumption DEF Turned, Own, Placed

\* When a command commits, each window that it has placed is where it belongs.
Arrived(c, t) ==
    \A w \in t.targets : \/ frame[w] = Place(c, t.policy)
                         \/ ~Moved(c, w)
                         \/ c \notin Retries /\ t.result[w] = "clamp"

LEMMA CommitTurned ==
    ASSUME CompoundAssumption, Inv, Traced, NEW c \in Commands, tx[c].stage \in InTransaction,
           NEW t, Commit(c, t), Still, flight' = flight, Heard(c) = {}, learning' = stored'
    PROVE  Turned(c)
<1>1. PICK r \in Receipts : Release(c, r)
  BY DEF Commit, Receipts
<1>2. c \in published' /\ health' = health
  BY DEF Commit
<1>3. GivenUp(c)
  BY DEF GivenUp, Heard
<1> QED BY <1>1, <1>2, <1>3, ReleaseTurned

\* The command has succeeded.
LEMMA ConcludeTurned ==
    ASSUME CompoundAssumption, Inv, Traced, NEW c \in Commands, tx[c].stage \in Interruptible,
           NEW t \in Ctx, t.taken = tx[c].taken, t.before = tx[c].before,
           t.targets \subseteq DOMAIN t.taken \cap DOMAIN t.seen, DOMAIN t.result \subseteq DOMAIN t.taken,
           t.todo \subseteq DOMAIN t.taken, Arrived(c, t), Heard(c) = {},
           NEW learned, Conclude(c, t, learned), Still, flight' = flight
    PROVE  Turned(c)
<1>1. /\ tx[c] \in Ctx /\ gate = c /\ c \notin published /\ tx[c].stage \in InTransaction
      /\ \A w \in DOMAIN tx[c].taken : tx[c].taken[w].frame[1] # c
      /\ \A w \in Windows : mover[w][1] = c => w \in DOMAIN tx[c].taken
                                               /\ tx[c].taken[w].ident = ident[w]
      /\ \A w \in Windows : Moved(c, w) => w \in DOMAIN tx[c].taken /\ frame[w][1] = c
      /\ \A o \in flight : o.by = c => o.win \in DOMAIN tx[c].taken
                                       /\ tx[c].taken[o.win].ident = o.ident
  <2>1. tx[c].stage \in InTransaction
    BY DEF InTransaction
  <2> QED BY <2>1, CapturedFacts
<1>2. CASE learned = stored
  <2>1. Commit(c, t) /\ learning' = stored'
    BY <1>2 DEF Conclude
  <2> QED BY <1>1, <2>1, CommitTurned
<1>3. CASE learned # stored
  <2> DEFINE u == [t EXCEPT !.stage = "persist"]
  <2>1. /\ tx' = [tx EXCEPT ![c] = u] /\ gate' = gate /\ stored' = stored /\ health' = health
    BY <1>3 DEF Conclude, Continue
  <2>2. /\ u \in Ctx /\ u.stage = "persist" /\ u.todo = t.todo /\ u.result = t.result
        /\ u.taken = t.taken /\ u.targets = t.targets /\ u.seen = t.seen /\ u.policy = t.policy
        /\ u.before = t.before
    BY DEF Ctx, Stages, InTransaction
  <2> HIDE DEF u
  <2>3. /\ tx' \in [Commands -> Ctx] /\ tx'[c] = u /\ \A d \in Commands \ {c} : tx'[d] = tx[d]
    BY <2>1, <2>2, NewRecord DEF Traced
  <2>4. \A w \in Windows : Moved(c, w)' = Moved(c, w) /\ frame'[w] = frame[w] /\ mover'[w] = mover[w]
                           /\ ident'[w] = ident[w]
    BY DEF Moved, Still
  <2>5. Unmarked(c)' /\ Awaited(c)' /\ Restoring(c)'
    BY <1>1, <2>2, <2>3 DEF Unmarked, Awaited, Restoring, Early, Receipts
  <2>6. Within(c)'
    BY <1>1, <2>2, <2>3, <2>4 DEF Within, Early
  <2>7. Tracked(c)'
    <3>1. t.targets \subseteq Windows
      BY DEF Ctx
    <3> QED BY <1>1, <2>2, <2>3, <2>4, <3>1 DEF Tracked, Arrived
  <2>8. Learned(c)'
    <3>1. t.before = stored
      BY DEF Traced, Placed, Learned
    <3> QED BY <2>1, <2>2, <2>3, <3>1 DEF Learned, Interruptible
  <2>9. \A o \in flight' : o.by = c => OpOK(o)'
    BY <1>1, <2>2, <2>3 DEF OpOK, Heard
  <2>10. TurnsTaken(c)
    BY <2>2, <2>3, KeptTaken DEF Traced
  <2> QED BY <1>1, <2>1, <2>3, <2>5, <2>6, <2>7, <2>8, <2>9, <2>10, CompoundAssumption
          DEF Turned, Own, Placed
<1> QED BY <1>2, <1>3

-----------------------------------------------------------------------------
(* The turns.                                                              *)

LEMMA TurnKeeps ==
    ASSUME CompoundAssumption, Inv, Traced, NEW c \in Commands, gate \in {c, NoOne},
           Turned(c), TurnsOps(c), Still, published \subseteq published',
           published' \subseteq published \cup {c},
           world' \in [members : SUBSET Windows, paused : BOOLEAN, done : SUBSET Commands],
           learning' \subseteq Commands, stored' \subseteq Commands
    PROVE  Traced'
<1>1. Turn(c)
  BY DEF Turn, Turned, Still
<1>2. /\ \A d \in Commands \ {c} : Placed(d)'
      /\ \A o \in flight' : o.by # c => OpOK(o)'
  BY <1>1, OthersPlaced DEF Turned
<1>3. Placed(c)' /\ \A o \in flight' : o.by = c => OpOK(o)'
  BY DEF Turned, Own
<1>4. Typed'
  BY <1>1 DEF Typed, Traced, Turn, TurnsOps
<1> QED BY <1>2, <1>3, <1>4 DEF Traced, Turned

\* A command that has not written has no writes, and has moved nothing.
LEMMA EarlyFacts ==
    ASSUME Traced, NEW c \in Commands, tx[c].stage \in Early
    PROVE  /\ \A o \in flight : o.by # c
           /\ Heard(c) = {} /\ \A w \in Windows : ~Moved(c, w) /\ frame[w][1] # c
           /\ \A w \in DOMAIN tx[c].seen : tx[c].seen[w][1] # c
<1>1. ~Marked(c)
  BY DEF Traced, Placed, Unmarked
<1> QED BY <1>1 DEF Marked, Heard, Moved

LEMMA NoOps ==
    ASSUME Traced, NEW c \in Commands, flight' = flight
    PROVE  TurnsOps(c) /\ (Heard(c) = {} => GivenUp(c))
BY DEF TurnsOps, GivenUp, Heard, Traced, Typed

LEMMA Abandoned ==
    ASSUME Traced, NEW c \in Commands, Abandon(Heard(c))
    PROVE  TurnsOps(c) /\ GivenUp(c)
<1> DEFINE N(o) == [o EXCEPT !.heard = FALSE]
<1>1. flight' = (flight \ Heard(c)) \cup {N(o) : o \in Heard(c)}
  BY DEF Abandon
<1>2. \A o \in WriteOps : /\ N(o) \in WriteOps /\ N(o).by = o.by /\ N(o).win = o.win
                          /\ N(o).ident = o.ident /\ N(o).frame = o.frame /\ ~N(o).heard
  BY DEF WriteOps
<1>3. flight \subseteq WriteOps /\ \A o \in flight : o \in Heard(c) <=> o.by = c /\ o.heard
  BY DEF Traced, Typed, Heard
<1> HIDE DEF N
<1>4. \A o \in flight' : \/ o \in flight /\ o \notin Heard(c)
                         \/ \E p \in Heard(c) : o = N(p)
  BY <1>1
<1>5. Heard(c) \subseteq flight
  BY DEF Heard
<1>6. TurnsOps(c)
  BY <1>1, <1>2, <1>3, <1>4, <1>5 DEF TurnsOps
<1>7. GivenUp(c)
  BY <1>2, <1>3, <1>4, <1>5 DEF GivenUp
<1> QED BY <1>6, <1>7

LEMMA ReadFailsKeeps ==
    ASSUME CompoundAssumption, Inv, Traced, NEW c \in Commands, ReadFails(c) \/ BatchFails(c)
    PROVE  Traced'
<1>1. /\ tx[c].stage \in Interruptible /\ tx[c].stage \in InTransaction
      /\ Abort(c, tx[c], learning, "failed") /\ Still /\ world' = world
      /\ "failed" \in Receipts /\ tx[c] \in Ctx
  BY DEF ReadFails, BatchFails, Interruptible, InTransaction, Still, Abort, surroundings, desktop,
         Receipts, Traced, Typed
<1>2. TurnsOps(c) /\ GivenUp(c)
  <2>1. CASE ReadFails(c)
    <3>1. tx[c].stage \in Early /\ flight' = flight
      BY <2>1 DEF ReadFails, Early
    <3> QED BY <3>1, EarlyFacts, NoOps
  <2>2. CASE BatchFails(c)
    BY <2>2, Abandoned DEF BatchFails
  <2> QED BY <2>1, <2>2
<1>3. Turned(c)
  BY <1>1, <1>2, AbortTurned
<1>4. gate = c
  BY <1>1, CapturedFacts
<1>5. learning' \subseteq Commands /\ stored' \subseteq Commands /\ published' = published
  BY <1>1 DEF Abort, Traced, Typed, Ctx
<1> QED BY <1>1, <1>2, <1>3, <1>4, <1>5, TurnKeeps DEF Traced, Typed

\* The command is submitted, gets the gate, or captures a window or reads all.
LEMMA EarlyTurned ==
    ASSUME CompoundAssumption, Inv, Traced, NEW c \in Commands, tx[c].stage \in Early,
           NEW u \in Ctx, tx' = [tx EXCEPT ![c] = u], u.stage \in Early,
           DOMAIN u.result = {}, u.targets = {},
           u.stage # "capture" => u.todo \subseteq DOMAIN u.taken,
           \A w \in DOMAIN u.taken : /\ w \in Windows
                                     /\ \/ u.taken[w].frame = frame[w]
                                        \/ (/\ w \in DOMAIN tx[c].taken
                                            /\ u.taken[w].frame = tx[c].taken[w].frame),
           \A w \in DOMAIN u.seen : /\ w \in Windows
                                    /\ \/ u.seen[w] = frame[w]
                                       \/ (w \in DOMAIN tx[c].seen /\ u.seen[w] = tx[c].seen[w]),
           u.stage \in InTransaction => learning = stored /\ u.before = stored /\ gate' # NoOne,
           gate' = gate \/ gate' # NoOne,
           Still, UNCHANGED <<flight, world, memory, published, health>>
    PROVE  Turned(c) /\ TurnsOps(c)
<1>1. /\ tx' \in [Commands -> Ctx] /\ tx'[c] = u /\ \A d \in Commands \ {c} : tx'[d] = tx[d]
  BY NewRecord DEF Traced
<1>2. ~Marked(c) /\ \A w \in DOMAIN tx[c].taken : tx[c].taken[w].frame[1] # c
  BY DEF Traced, Placed, Unmarked
<1>3. \A w \in Windows : frame[w][1] # c /\ mover[w][1] # c
  BY <1>2 DEF Marked
<1>4. \A w \in DOMAIN tx[c].seen : tx[c].seen[w][1] # c
  BY <1>2 DEF Marked
<1>5. /\ \A w \in DOMAIN u.taken : u.taken[w].frame[1] # c
      /\ \A w \in DOMAIN u.seen : u.seen[w][1] # c
  BY <1>2, <1>3, <1>4
<1>6. Unmarked(c)'
  <2>1. \A d \in Commands \ {c} : \A w \in DOMAIN tx[d].taken : tx[d].taken[w].frame[1] # c
    BY <1>2 DEF Marked
  <2>2. \A d \in Commands : \A w \in DOMAIN tx'[d].taken : tx'[d].taken[w].frame[1] # c
    BY <1>1, <1>5, <2>1
  <2>3. \A o \in flight : o.by # c /\ o.frame[1] # c
    BY <1>2 DEF Marked
  <2> QED BY <1>1, <1>3, <1>5, <2>2, <2>3 DEF Unmarked, Marked, Still
<1>7. Within(c)'
  BY <1>1, <1>3 DEF Within, Still
<1>8. u.stage \notin Drafting /\ u.stage # "restore" /\ u.stage # "forget" /\ u.stage \notin Receipts
  BY DEF Early, Drafting, Receipts
<1>9. Awaited(c)' /\ Restoring(c)'
  BY <1>1, <1>8 DEF Awaited, Restoring, Drafting
<1>10. Tracked(c)'
  BY <1>1, <1>3, <1>8 DEF Tracked, Drafting, Moved, Still
<1>11. Learned(c)'
  BY <1>1, <1>8 DEF Learned, memory, InTransaction, Interruptible
<1>12. \A o \in flight' : o.by = c => OpOK(o)'
  BY EarlyFacts
<1>13. TurnsTaken(c)
  BY <1>1 DEF TurnsTaken
<1>14. gate' = NoOne => learning' = stored'
  BY DEF Traced, memory
<1> QED BY <1>1, <1>6, <1>7, <1>9, <1>10, <1>11, <1>12, <1>13, <1>14, NoOps DEF Turned, Own, Placed

LEMMA BeginKeeps ==
    ASSUME CompoundAssumption, Inv, Traced, NEW c \in Commands,
           Begin(c) \/ EnterGate(c)
    PROVE  Traced'
<1>1. /\ tx[c].stage \in Early /\ Still /\ UNCHANGED <<flight, world, memory, published, health>>
      /\ tx[c].stage \in {"idle", "waiting"} /\ tx[c] \in Ctx
  BY DEF Begin, EnterGate, Early, surroundings, desktop, Still, Traced, Typed
<1>2. /\ Fresh("waiting") \in Ctx /\ Fresh("windows") \in Ctx /\ Fresh("capture") \in Ctx
      /\ \A s \in {"waiting", "windows", "capture"} :
            /\ Fresh(s).stage = s /\ Fresh(s).taken = <<>> /\ Fresh(s).seen = <<>>
            /\ Fresh(s).targets = {} /\ Fresh(s).result = <<>> /\ Fresh(s).todo = {}
  BY FreshCtx DEF Stages, InTransaction, Interruptible
<1>3. DOMAIN <<>> = {}
  OBVIOUS
<1>4. CASE Begin(c)
  <2> DEFINE u == [Fresh("waiting") EXCEPT !.known = IF c \in Deferred THEN {} ELSE world.members]
  <2>1. tx' = [tx EXCEPT ![c] = u] /\ gate' = gate
    BY <1>4 DEF Begin
  <2>2. /\ u \in Ctx /\ u.stage = "waiting" /\ u.taken = <<>> /\ u.seen = <<>> /\ u.targets = {}
        /\ u.result = <<>> /\ u.todo = {}
    BY <1>2 DEF Ctx, Traced, Typed
  <2> HIDE DEF u
  <2>3. u.stage \in Early /\ u.stage \notin InTransaction
    BY <2>2, StagesDiffer DEF Early
  <2>4. Turned(c) /\ TurnsOps(c)
    BY <1>1, <1>3, <2>1, <2>2, <2>3, EarlyTurned
  <2>5. \A d \in Commands \ {c} : tx'[d] = tx[d]
    BY <2>1, <2>2 DEF Traced, Typed
  \* A command may be submitted while another one holds the gate.
  <2>6. ASSUME NEW d \in Commands PROVE Placed(d)'
    <3>1. CASE d = c
      BY <2>4, <3>1 DEF Turned, Own
    <3>2. CASE d # c
      <4>1. tx'[d] = tx[d] /\ Placed(d)
        BY <2>5, <3>2 DEF Traced
      <4>2. Unmarked(d)'
        <5>1. Marked(d)' => Marked(d)
          <6>1. \A e \in Commands : \A w \in DOMAIN tx'[e].taken :
                    w \in DOMAIN tx[e].taken /\ tx'[e].taken[w] = tx[e].taken[w]
            BY <1>3, <2>1, <2>2, <2>5 DEF Traced, Typed
          <6> QED BY <1>1, <4>1, <6>1 DEF Marked, Still
        <5> QED BY <4>1, <5>1 DEF Unmarked, Placed
      <4>3. /\ Within(d)' /\ Awaited(d)' /\ Tracked(d)' /\ Restoring(d)' /\ Learned(d)'
        BY <1>1, <4>1 DEF Placed, Within, Awaited, Tracked, Restoring, Learned, Moved, Heard, Still, memory
      <4> QED BY <4>2, <4>3 DEF Placed
    <3> QED BY <3>1, <3>2
  <2>7. ASSUME NEW o \in flight' PROVE OpOK(o)'
    <3>1. o \in flight /\ o.by # c /\ o.by \in Commands /\ OpOK(o)
      BY <1>1, EarlyFacts DEF Traced, Typed, WriteOps
    <3> QED BY <2>5, <3>1 DEF OpOK
  <2>8. Typed'
    BY <1>1, <2>4 DEF Turned, Typed, Traced, Still, memory
  <2> QED BY <1>1, <2>1, <2>6, <2>7, <2>8 DEF Traced, memory
<1>5. CASE EnterGate(c)
  <2> DEFINE ids == IF c \in Deferred THEN world.members ELSE tx[c].known
             s == IF ids = {} THEN "windows" ELSE "capture"
             u == [Fresh(s) EXCEPT !.todo = ids, !.before = learning]
  <2>1. tx' = [tx EXCEPT ![c] = u] /\ gate = NoOne /\ gate' = c
    BY <1>5 DEF EnterGate
  <2>2. ids \subseteq Windows /\ learning \subseteq Commands /\ learning = stored
    BY <1>1, <2>1 DEF Ctx, Traced, Typed
  <2>3. s \in {"windows", "capture"} /\ (s = "windows" => ids = {})
    OBVIOUS
  <2> HIDE DEF ids, s
  <2>4. /\ u \in Ctx /\ u.stage = s /\ u.taken = <<>> /\ u.seen = <<>> /\ u.targets = {}
        /\ u.result = <<>> /\ u.todo = ids /\ u.before = learning
    BY ZenonT(40), <1>2, <2>2, <2>3 DEF Ctx
  <2> HIDE DEF u
  <2>5. u.stage \in Early
    BY <2>3, <2>4 DEF Early
  <2>6. Turned(c) /\ TurnsOps(c)
    <3>1. gate' # NoOne
      BY <2>1, CompoundAssumption
    <3> QED BY <1>1, <1>3, <2>1, <2>2, <2>3, <2>4, <2>5, <3>1, EarlyTurned
  <2> QED BY <1>1, <2>1, <2>6, TurnKeeps DEF Traced, Typed, memory
<1> QED BY <1>4, <1>5

LEMMA EnterInVainKeeps ==
    ASSUME CompoundAssumption, Inv, Traced, NEW c \in Commands, EnterInVain(c)
    PROVE  Traced'
<1>1. /\ tx[c].stage \in Early /\ Still /\ UNCHANGED <<flight, world, memory, published, health>>
      /\ gate = NoOne
  BY DEF EnterInVain, Early, surroundings, desktop, Still
<1>2. PICK r \in Receipts : Release(c, r)
  BY DEF EnterInVain, Receipts
<1>3. TurnsOps(c) /\ GivenUp(c) /\ \A w \in Windows : ~Moved(c, w)
  BY <1>1, EarlyFacts, NoOps
<1>4. learning' = stored'
  BY <1>1 DEF Traced, memory
<1>5. Turned(c)
  BY <1>1, <1>2, <1>3, <1>4, ReleaseTurned
<1> QED BY <1>1, <1>3, <1>5, TurnKeeps DEF Traced, Typed, memory

LEMMA CaptureKeeps ==
    ASSUME CompoundAssumption, Inv, Traced, NEW c \in Commands, NEW w \in Windows, Capture(c, w)
    PROVE  Traced'
<1>1. /\ tx[c].stage = "capture" /\ tx[c].stage \in Early /\ tx[c].stage \in InTransaction
      /\ Still /\ UNCHANGED <<flight, world, memory, published, health>> /\ tx[c] \in Ctx
  BY DEF Capture, Early, InTransaction, Interruptible, surroundings, desktop, Still, Traced, Typed
<1>2. gate = c /\ gate # NoOne /\ learning = stored /\ tx[c].before = stored
  BY <1>1, CapturedFacts, CompoundAssumption DEF Traced, Placed, Learned, Interruptible
<1>3. TurnsOps(c) /\ GivenUp(c) /\ \A v \in Windows : ~Moved(c, v)
  BY <1>1, EarlyFacts, NoOps
<1>4. Turned(c)
  <2>1. CASE Release(c, "failed")
    <3>1. learning' = stored' /\ "failed" \in Receipts
      BY <1>1, <1>2 DEF memory, Receipts
    <3> QED BY <1>1, <1>3, <2>1, <3>1, ReleaseTurned
  <2>2. CASE ~Release(c, "failed")
    <3> DEFINE t == tx[c]
               rest == t.todo \ {w}
               taken == [v \in DOMAIN t.taken \cup {w} |->
                           IF v = w THEN [frame |-> frame[w], ident |-> ident[w]] ELSE t.taken[v]]
               s == IF rest = {} THEN "windows" ELSE "capture"
               u == [t EXCEPT !.taken = taken, !.todo = rest, !.stage = s]
    <3>1. tx' = [tx EXCEPT ![c] = u] /\ gate' = gate
      BY <2>2 DEF Capture, Continue
    <3>2. /\ DOMAIN t.taken \subseteq Windows /\ t.taken \in [DOMAIN t.taken -> Captured]
          /\ frame[w] \in Frames /\ ident[w] \in Idents
          /\ DOMAIN t.seen \subseteq Windows
      BY <1>1, PartialIs DEF Ctx, Traced, Typed
    <3>3. taken \in Partial(Captured) /\ DOMAIN taken = DOMAIN t.taken \cup {w}
      <4>1. taken \in [DOMAIN t.taken \cup {w} -> Captured]
        BY <3>2 DEF Captured
      <4> HIDE DEF taken
      <4> QED BY <3>2, <4>1, MakePartial
    <3>4. \A v \in DOMAIN taken : \/ taken[v].frame = frame[v]
                                  \/ v \in DOMAIN t.taken /\ taken[v].frame = t.taken[v].frame
      OBVIOUS
    <3>5. s \in {"windows", "capture"} /\ (s # "capture" => rest = {}) /\ rest \subseteq Windows
      BY <1>1 DEF Ctx
    <3> HIDE DEF taken, rest, s
    <3>6. /\ u \in Ctx /\ u.stage = s /\ u.taken = taken /\ u.seen = t.seen /\ u.targets = t.targets
          /\ u.result = t.result /\ u.todo = rest /\ u.before = t.before
      BY <1>1, <3>3, <3>5 DEF Ctx, Stages, InTransaction, Interruptible
    <3> HIDE DEF u
    <3>7. u.stage \in Early /\ DOMAIN t.result = {} /\ t.targets = {}
      BY <1>1, <3>5, <3>6 DEF Early, Traced, Placed, Within
    <3>8. \A v \in DOMAIN u.taken : v \in Windows
      BY <3>2, <3>3, <3>6
    <3> QED BY <1>1, <1>2, <3>1, <3>2, <3>3, <3>4, <3>5, <3>6, <3>7, <3>8, EarlyTurned
  <2> QED BY <2>1, <2>2
<1> QED BY <1>1, <1>2, <1>3, <1>4, TurnKeeps DEF Traced, Typed, memory

LEMMA ReadWindowsKeeps ==
    ASSUME CompoundAssumption, Inv, Traced, NEW c \in Commands, ReadWindows(c)
    PROVE  Traced'
<1>1. /\ tx[c].stage = "windows" /\ tx[c].stage \in Early /\ tx[c].stage \in InTransaction
      /\ Still /\ UNCHANGED <<flight, world, memory, published, health>> /\ tx[c] \in Ctx
  BY DEF ReadWindows, Early, InTransaction, Interruptible, surroundings, desktop, Still, Traced, Typed
<1>2. gate = c /\ gate # NoOne /\ learning = stored /\ tx[c].before = stored
  BY <1>1, CapturedFacts, CompoundAssumption DEF Traced, Placed, Learned, Interruptible
<1> DEFINE t == tx[c]
           seen == [w \in Open |-> frame[w]]
           u == [t EXCEPT !.stage = "topology", !.seen = seen]
<1>3. tx' = [tx EXCEPT ![c] = u] /\ gate' = gate
  BY DEF ReadWindows, Continue
<1>4. Open \subseteq Windows /\ seen \in Partial(Frames) /\ DOMAIN seen = Open
  <2>1. Open \in SUBSET Windows
    BY DEF Open
  <2>2. seen \in [Open -> Frames]
    BY <2>1 DEF Traced, Typed
  <2> HIDE DEF seen
  <2> QED BY <2>1, <2>2, MakePartial
<1>5. \A w \in DOMAIN seen : seen[w] = frame[w]
  OBVIOUS
<1> HIDE DEF seen
<1>6. /\ u \in Ctx /\ u.stage = "topology" /\ u.taken = t.taken /\ u.seen = seen /\ u.targets = t.targets
      /\ u.result = t.result /\ u.todo = t.todo /\ u.before = t.before
  BY <1>1, <1>4 DEF Ctx, Stages, InTransaction, Interruptible
<1> HIDE DEF u
<1>7. u.stage \in Early /\ DOMAIN t.result = {} /\ t.targets = {} /\ t.todo \subseteq DOMAIN t.taken
  BY <1>1, <1>6 DEF Early, Traced, Placed, Within
<1>8. DOMAIN t.taken \subseteq Windows
  BY <1>1, PartialIs DEF Ctx
<1>9. Turned(c) /\ TurnsOps(c)
  <2>1. \A w \in DOMAIN u.taken :
           /\ w \in Windows
           /\ \/ u.taken[w].frame = frame[w]
              \/ (w \in DOMAIN tx[c].taken /\ u.taken[w].frame = tx[c].taken[w].frame)
    BY <1>6, <1>8
  <2>2. \A w \in DOMAIN u.seen : w \in Windows /\ u.seen[w] = frame[w]
    BY <1>4, <1>5, <1>6
  <2>3. DOMAIN u.result = {} /\ u.targets = {} /\ u.todo \subseteq DOMAIN u.taken
    BY <1>6, <1>7
  <2>4. u.before = stored /\ gate' # NoOne
    BY <1>2, <1>3, <1>6
  <2>5. u.stage \in InTransaction => learning = stored /\ u.before = stored /\ gate' # NoOne
    BY <1>2, <2>4
  <2>6. u \in Ctx /\ tx' = [tx EXCEPT ![c] = u] /\ gate' = gate /\ u.stage \in Early
    BY <1>3, <1>6, <1>7
  <2> QED BY <1>1, <2>1, <2>2, <2>3, <2>5, <2>6, EarlyTurned
<1> QED BY <1>1, <1>2, <1>9, TurnKeeps DEF Traced, Typed, memory

\* What a turn that fails, or succeeds, leaves of what is committed.
LEMMA AbortTypes ==
    ASSUME Traced, NEW c \in Commands, NEW t \in Ctx, NEW learned \in SUBSET Commands, NEW r,
           Abort(c, t, learned, r)
    PROVE  /\ world' \in [members : SUBSET Windows, paused : BOOLEAN, done : SUBSET Commands]
           /\ learning' \subseteq Commands /\ stored' \subseteq Commands
           /\ stored' = stored /\ published' = published
BY DEF Abort, Traced, Typed, Ctx

LEMMA CommitTypes ==
    ASSUME NEW c \in Commands, NEW t \in Ctx, Commit(c, t)
    PROVE  /\ world' \in [members : SUBSET Windows, paused : BOOLEAN, done : SUBSET Commands]
           /\ published' = published \cup {c}
<1> DEFINE d == t.draft
<1>1. d \in [members : SUBSET Windows, paused : BOOLEAN, done : SUBSET Commands]
  BY DEF Ctx
<1>2. world' = [d EXCEPT !.done = @ \cup {c}] /\ published' = published \cup {c}
  BY DEF Commit
<1> HIDE DEF d
<1> QED BY <1>1, <1>2

LEMMA ConcludeTypes ==
    ASSUME Traced, NEW c \in Commands, NEW t \in Ctx, NEW learned \in SUBSET Commands,
           Conclude(c, t, learned)
    PROVE  /\ world' \in [members : SUBSET Windows, paused : BOOLEAN, done : SUBSET Commands]
           /\ learning' \subseteq Commands /\ stored' \subseteq Commands
           /\ published \subseteq published' /\ published' \subseteq published \cup {c}
<1>1. learning' = learned /\ stored' = stored
  BY DEF Conclude
<1>2. CASE learned = stored
  BY <1>1, <1>2, CommitTypes DEF Conclude, Traced, Typed
<1>3. CASE learned # stored
  BY <1>1, <1>3 DEF Conclude, Traced, Typed
<1> QED BY <1>2, <1>3

\* The draft, and what it writes: nothing seen is a place of the command.
LEMMA DraftedIs ==
    ASSUME CompoundAssumption, Inv, Traced, NEW c \in Commands, tx[c].stage = "topology"
    PROVE  /\ Drafted(c) \in Ctx /\ Drafted(c).taken = tx[c].taken /\ Drafted(c).before = tx[c].before
           /\ Drafted(c).targets \subseteq DOMAIN Drafted(c).seen
           /\ DOMAIN Drafted(c).result = {} /\ Drafted(c).todo \subseteq DOMAIN tx[c].taken
           /\ Writes(c, Drafted(c)) = Drafted(c).targets
           /\ Drafted(c).seen = tx[c].seen /\ Drafted(c).result = tx[c].result
<1> DEFINE t == tx[c]
           targets == world.members \cap DOMAIN t.seen
           u == [t EXCEPT !.draft = world, !.targets = targets]
<1>1. t \in Ctx /\ t.stage \in Early /\ Drafted(c) = u
  BY DEF Traced, Typed, Early, Drafted
<1>2. targets \subseteq Windows /\ targets \subseteq DOMAIN t.seen
  BY DEF Traced, Typed
<1> HIDE DEF targets
<1>3. /\ u \in Ctx /\ u.taken = t.taken /\ u.before = t.before /\ u.targets = targets
      /\ u.seen = t.seen /\ u.result = t.result /\ u.todo = t.todo
  BY <1>1, <1>2 DEF Ctx, Traced, Typed
<1> HIDE DEF u
<1>4. DOMAIN t.result = {} /\ t.todo \subseteq DOMAIN t.taken
  BY <1>1 DEF Traced, Placed, Within
<1>5. \A w \in DOMAIN t.seen : t.seen[w][1] # c
  BY <1>1, EarlyFacts
<1>6. u.policy \in 0..Policies
  BY <1>3, CompoundAssumption DEF Ctx
<1>7. Writes(c, u) = targets
  <2>1. \A w \in targets : u.seen[w] # Place(c, u.policy)
    BY <1>2, <1>3, <1>5, <1>6, PlacesAreFrames
  <2> QED BY <1>3, <2>1 DEF Writes
<1> QED BY <1>1, <1>2, <1>3, <1>4, <1>7

LEMMA PlanKeeps ==
    ASSUME CompoundAssumption, Inv, Traced, NEW c \in Commands, Plan(c)
    PROVE  Traced'
<1> DEFINE t == Drafted(c)
<1>1. /\ tx[c].stage = "topology" /\ tx[c].stage \in Early /\ tx[c].stage \in Interruptible
      /\ tx[c].stage \in InTransaction /\ Still /\ stored' = stored /\ "failed" \in Receipts
      /\ "died" \in Receipts /\ "completed" \in Receipts
  BY DEF Plan, Early, Interruptible, InTransaction, Still, surroundings, desktop, Receipts
<1>2. /\ t \in Ctx /\ t.taken = tx[c].taken /\ t.before = tx[c].before
      /\ t.targets \subseteq DOMAIN t.seen /\ DOMAIN t.result = {} /\ t.todo \subseteq DOMAIN tx[c].taken
      /\ Writes(c, t) = t.targets
  BY <1>1, DraftedIs
<1>3. /\ gate = c /\ c \notin published /\ learning = stored /\ Heard(c) = {}
      /\ \A w \in Windows : ~Moved(c, w)
  BY <1>1, CapturedFacts, EarlyFacts DEF Traced, Placed, Learned
<1>4. learning \in SUBSET Commands /\ stored \subseteq Commands
      /\ world \in [members : SUBSET Windows, paused : BOOLEAN, done : SUBSET Commands]
  BY DEF Traced, Typed
<1>5. \/ Release(c, "completed") /\ UNCHANGED <<world, learning, published, health, flight>>
      \/ Abort(c, t, learning, "failed") /\ flight' = flight
      \/ Abort(c, t, learning, "died") /\ flight' = flight
      \/ /\ Writes(c, t) \subseteq DOMAIN t.taken /\ Issue(c, t, Writes(c, t), {})
         /\ UNCHANGED <<world, learning, published, health>>
      \/ Writes(c, t) = {} /\ Conclude(c, t, learning) /\ flight' = flight
  BY DEF Plan
<1> HIDE DEF t
<1>6. CASE Release(c, "completed") /\ UNCHANGED <<world, learning, published, health, flight>>
  <2>1. TurnsOps(c) /\ GivenUp(c)
    BY <1>3, <1>6, NoOps
  <2>2. Turned(c)
    BY <1>1, <1>3, <1>6, <2>1, ReleaseTurned
  <2> QED BY <1>1, <1>3, <1>4, <1>6, <2>1, <2>2, TurnKeeps
<1>7. ASSUME NEW r \in Receipts, Abort(c, t, learning, r), flight' = flight PROVE Traced'
  <2>1. TurnsOps(c) /\ GivenUp(c)
    BY <1>3, <1>7, NoOps
  <2>2. Turned(c)
    BY <1>1, <1>2, <1>7, <2>1, AbortTurned
  <2>3. /\ world' \in [members : SUBSET Windows, paused : BOOLEAN, done : SUBSET Commands]
        /\ learning' \subseteq Commands /\ stored' \subseteq Commands /\ published' = published
    BY <1>2, <1>4, <1>7, AbortTypes
  <2> QED BY <1>1, <1>3, <2>1, <2>2, <2>3, TurnKeeps
<1>8. CASE /\ Writes(c, t) \subseteq DOMAIN t.taken /\ Issue(c, t, Writes(c, t), {})
           /\ UNCHANGED <<world, learning, published, health>>
  <2>1. Issue(c, t, t.targets, {}) /\ t.targets \subseteq DOMAIN t.taken
    BY <1>2, <1>8
  <2>2. Turned(c) /\ TurnsOps(c)
    BY <1>1, <1>2, <1>3, <1>8, <2>1, IssueTurned
  <2> QED BY <1>1, <1>3, <1>4, <1>8, <2>2, TurnKeeps
<1>9. CASE Writes(c, t) = {} /\ Conclude(c, t, learning) /\ flight' = flight
  <2>1. t.targets = {}
    BY <1>2, <1>9
  <2>2. Arrived(c, t)
    BY <2>1 DEF Arrived
  <2>3. Turned(c)
    BY <1>1, <1>2, <1>3, <1>9, <2>1, <2>2, ConcludeTurned
  <2>4. /\ world' \in [members : SUBSET Windows, paused : BOOLEAN, done : SUBSET Commands]
        /\ learning' \subseteq Commands /\ stored' \subseteq Commands
        /\ published \subseteq published' /\ published' \subseteq published \cup {c}
    BY <1>2, <1>4, <1>9, ConcludeTypes
  <2> QED BY <1>1, <1>3, <1>9, <2>3, <2>4, NoOps, TurnKeeps
<1> QED BY <1>1, <1>5, <1>6, <1>7, <1>8, <1>9

\* What was learned is saved; or else the command fails.
LEMMA PersistKeeps ==
    ASSUME CompoundAssumption, Inv, Traced, NEW c \in Commands, Persist(c)
    PROVE  Traced'
<1>1. /\ tx[c].stage = "persist" /\ tx[c].stage \in InTransaction /\ Still /\ flight' = flight
      /\ tx[c] \in Ctx
  BY DEF Persist, InTransaction, Still, surroundings, desktop, Traced, Typed
<1>2. gate = c
  BY <1>1, CapturedFacts
<1>3. Heard(c) = {}
  BY <1>1 DEF Heard, Traced, OpOK
<1>4. TurnsOps(c) /\ GivenUp(c)
  BY <1>1, <1>3, NoOps
<1>5. learning \in SUBSET Commands /\ stored \subseteq Commands
  BY DEF Traced, Typed
<1>6. CASE stored' = learning /\ UNCHANGED learning /\ Commit(c, tx[c])
  <2>1. Turned(c)
    BY <1>1, <1>3, <1>6, CommitTurned
  <2>2. /\ world' \in [members : SUBSET Windows, paused : BOOLEAN, done : SUBSET Commands]
        /\ published' = published \cup {c}
    BY <1>1, <1>6, CommitTypes
  <2> QED BY <1>1, <1>2, <1>4, <1>5, <1>6, <2>1, <2>2, TurnKeeps
<1>7. ASSUME NEW r \in Receipts, Abort(c, tx[c], learning, r) PROVE Traced'
  <2>1. Turned(c)
    BY <1>1, <1>4, <1>7, AbortTurned
  <2>2. /\ world' \in [members : SUBSET Windows, paused : BOOLEAN, done : SUBSET Commands]
        /\ learning' \subseteq Commands /\ stored' \subseteq Commands /\ published' = published
    BY <1>1, <1>5, <1>7, AbortTypes
  <2> QED BY <1>1, <1>2, <1>4, <2>1, <2>2, TurnKeeps
<1>8. "timeout" \in Receipts /\ "failed" \in Receipts
  BY DEF Receipts
<1>9. \/ stored' = learning /\ UNCHANGED learning /\ Commit(c, tx[c])
      \/ \E r \in Receipts : Abort(c, tx[c], learning, r)
  BY <1>8 DEF Persist
<1> QED BY <1>6, <1>7, <1>9

\* The captured windows are being read again.
LEMMA RereadTurned ==
    ASSUME CompoundAssumption, Inv, Traced, NEW c \in Retries, tx[c].stage \in Interruptible,
           NEW u \in Ctx, u.stage = "refresh", u.taken = tx[c].taken, u.before = tx[c].before,
           u.targets \subseteq DOMAIN u.taken \cap DOMAIN u.seen, DOMAIN u.result \subseteq DOMAIN u.taken,
           u.todo \subseteq DOMAIN u.taken, Heard(c) = {},
           \A w \in u.targets \ u.todo : Moved(c, w) => u.seen[w] = frame[w],
           Continue(c, u), Still, flight' = flight, stored' = stored, health' = health
    PROVE  Turned(c)
<1>1. /\ c \in Commands /\ tx[c] \in Ctx /\ gate = c /\ tx[c].stage \in InTransaction
      /\ \A w \in DOMAIN tx[c].taken : tx[c].taken[w].frame[1] # c
      /\ \A w \in Windows : mover[w][1] = c => w \in DOMAIN tx[c].taken
                                               /\ tx[c].taken[w].ident = ident[w]
      /\ \A w \in Windows : Moved(c, w) => w \in DOMAIN tx[c].taken /\ frame[w][1] = c
      /\ \A o \in flight : o.by = c => o.win \in DOMAIN tx[c].taken
                                       /\ tx[c].taken[o.win].ident = o.ident
  <2>1. tx[c].stage \in InTransaction /\ c \in Commands
    BY CompoundAssumption DEF InTransaction
  <2> QED BY <2>1, CapturedFacts
<1>2. /\ tx' \in [Commands -> Ctx] /\ tx'[c] = u /\ \A d \in Commands \ {c} : tx'[d] = tx[d]
  BY <1>1, NewRecord DEF Traced, Continue
<1>3. \A w \in Windows : Moved(c, w)' = Moved(c, w) /\ frame'[w] = frame[w] /\ mover'[w] = mover[w]
                         /\ ident'[w] = ident[w]
  BY DEF Moved, Still
<1>4. Unmarked(c)' /\ Awaited(c)' /\ Restoring(c)'
  BY <1>1, <1>2 DEF Unmarked, Awaited, Restoring, Early, Receipts
<1>5. Within(c)'
  BY <1>1, <1>2, <1>3 DEF Within, Early
<1>6. Tracked(c)'
  <2>1. u.targets \subseteq Windows
    BY DEF Ctx
  <2> QED BY <1>1, <1>2, <1>3, <2>1 DEF Tracked
<1>7. Learned(c)'
  <2>1. tx[c].before = stored
    BY <1>1 DEF Traced, Placed, Learned
  <2> QED BY <1>2, <2>1 DEF Learned, Interruptible
<1>8. \A o \in flight' : o.by = c => OpOK(o)'
  BY <1>1, <1>2 DEF OpOK, Heard
<1>9. TurnsTaken(c)
  BY <1>1, <1>2, KeptTaken DEF Traced
<1>10. gate' # NoOne
  BY <1>1, CompoundAssumption DEF Continue
<1> QED BY <1>2, <1>4, <1>5, <1>6, <1>7, <1>8, <1>9, <1>10 DEF Turned, Own, Placed

LEMMA JudgeKeeps ==
    ASSUME CompoundAssumption, Inv, Traced, NEW c \in Commands, Judge(c)
    PROVE  Traced'
<1> DEFINE t == tx[c]
           With(r) == {w \in DOMAIN t.result : t.result[w] = r}
           learned == IF With("clamp") = {} THEN learning ELSE learning \cup {c}
           again(w) == [t EXCEPT !.again = @ \cup {w}]
           reread(placed) == [t EXCEPT !.stage = "refresh", !.todo = DOMAIN t.taken,
                                       !.placed = placed, !.keep = @ \/ ~placed]
<1>1. /\ t.stage = "writing" /\ t.stage \in Interruptible /\ t.stage \in InTransaction
      /\ t.stage \notin Early /\ t.stage # "capture"
      /\ Heard(c) = {} /\ Still /\ t \in Ctx /\ "failed" \in Receipts
  BY DEF Judge, Interruptible, InTransaction, Early, Still, surroundings, desktop, Receipts,
         Traced, Typed
<1>2. gate = c
  BY <1>1, CapturedFacts
<1>3. /\ t.targets \subseteq DOMAIN t.taken \cap DOMAIN t.seen /\ DOMAIN t.result \subseteq DOMAIN t.taken
      /\ t.todo \subseteq DOMAIN t.taken /\ t.todo \subseteq Windows
      /\ t.taken \in [DOMAIN t.taken -> Captured] /\ DOMAIN t.taken \subseteq Windows
      /\ t.result \in [DOMAIN t.result -> Results]
  BY <1>1, PartialIs DEF Traced, Placed, Within, Ctx
<1>4. /\ \A w \in DOMAIN t.result : t.result[w] # "none"
      /\ \A w \in DOMAIN t.result : t.result[w] = "exact" /\ Moved(c, w) => frame[w] = Place(c, t.policy)
      /\ c \notin Retries => t.targets \subseteq DOMAIN t.result
  BY <1>1 DEF Traced, Placed, Awaited, Tracked
<1>5. learning \in SUBSET Commands /\ learned \in SUBSET Commands /\ stored \subseteq Commands
      /\ world \in [members : SUBSET Windows, paused : BOOLEAN, done : SUBSET Commands]
  BY DEF Traced, Typed
<1>6. \/ Abort(c, t, learning, "failed") /\ flight' = flight
      \/ /\ learning' = learned
         /\ \/ \E w \in With("progressing") \cup With("refused") : Issue(c, again(w), {w}, {})
            \/ c \in Retries /\ Continue(c, reread(FALSE)) /\ flight' = flight
            \/ \E w \in t.todo : Issue(c, t, {w}, t.todo \ {w})
            \/ c \in Retries /\ Continue(c, reread(TRUE)) /\ flight' = flight
         /\ UNCHANGED <<world, stored, published, health>>
      \/ Abort(c, t, learned, "failed") /\ flight' = flight
      \/ /\ With("stale") = {} /\ With("progressing") \cup With("refused") = {} /\ c \notin Retries
         /\ Conclude(c, t, learned) /\ flight' = flight
  BY DEF Judge, Reread, Resulted, Bad, Unsettled, Lessons
<1> HIDE DEF learned
<1>7. ASSUME NEW l \in SUBSET Commands, Abort(c, t, l, "failed"), flight' = flight PROVE Traced'
  <2>1. TurnsOps(c) /\ GivenUp(c)
    BY <1>1, <1>7, NoOps
  <2>2. Turned(c)
    BY <1>1, <1>7, <2>1, AbortTurned
  <2>3. /\ world' \in [members : SUBSET Windows, paused : BOOLEAN, done : SUBSET Commands]
        /\ learning' \subseteq Commands /\ stored' \subseteq Commands /\ published' = published
    BY <1>1, <1>5, <1>7, AbortTypes
  <2> QED BY <1>1, <1>2, <2>1, <2>2, <2>3, TurnKeeps
<1>8. ASSUME learning' = learned, UNCHANGED <<world, stored, published, health>>,
             NEW w \in With("progressing") \cup With("refused"), Issue(c, again(w), {w}, {})
      PROVE  Traced'
  <2>1. w \in DOMAIN t.result /\ w \in Windows
    BY <1>3
  <2>2. /\ again(w) \in Ctx /\ again(w).taken = t.taken /\ again(w).before = t.before
        /\ again(w).targets = t.targets /\ again(w).seen = t.seen /\ again(w).result = t.result
        /\ again(w).policy = t.policy
    BY <1>1, <2>1 DEF Ctx
  <2> HIDE DEF again
  <2>3. {w} \in SUBSET DOMAIN t.taken
    BY <1>3, <2>1
  <2>4. Turned(c) /\ TurnsOps(c)
    BY <1>1, <1>3, <1>4, <1>8, <2>1, <2>2, <2>3, IssueTurned
  <2> QED BY <1>1, <1>2, <1>5, <1>8, <2>4, TurnKeeps
<1>9. ASSUME learning' = learned, UNCHANGED <<world, stored, published, health>>,
             c \in Retries, NEW b \in BOOLEAN, Continue(c, reread(b)), flight' = flight
      PROVE  Traced'
  <2>1. /\ reread(b) \in Ctx /\ reread(b).taken = t.taken /\ reread(b).before = t.before
        /\ reread(b).targets = t.targets /\ reread(b).seen = t.seen /\ reread(b).result = t.result
        /\ reread(b).todo = DOMAIN t.taken /\ reread(b).stage = "refresh"
    BY <1>1, <1>3 DEF Ctx, Stages, InTransaction, Interruptible
  <2> HIDE DEF reread
  <2>2. Turned(c)
    BY <1>1, <1>3, <1>9, <2>1, RereadTurned
  <2> QED BY <1>1, <1>2, <1>5, <1>9, <2>2, NoOps, TurnKeeps
<1>10. ASSUME learning' = learned, UNCHANGED <<world, stored, published, health>>,
             NEW w \in t.todo, Issue(c, t, {w}, t.todo \ {w})
      PROVE  Traced'
  <2>1. {w} \in SUBSET DOMAIN t.taken /\ t.todo \ {w} \in SUBSET DOMAIN t.taken
    BY <1>3
  <2>2. Turned(c) /\ TurnsOps(c)
    BY <1>1, <1>3, <1>4, <1>10, <2>1, IssueTurned
  <2> QED BY <1>1, <1>2, <1>5, <1>10, <2>2, TurnKeeps
<1>11. CASE /\ With("stale") = {} /\ With("progressing") \cup With("refused") = {} /\ c \notin Retries
            /\ Conclude(c, t, learned) /\ flight' = flight
  <2>1. \A w \in DOMAIN t.result : t.result[w] \in {"exact", "clamp"}
    BY <1>3, <1>4, <1>11 DEF Results
  <2>2. Arrived(c, t)
    BY <1>4, <1>11, <2>1 DEF Arrived
  <2>3. Turned(c)
    BY <1>1, <1>3, <1>11, <2>2, ConcludeTurned
  <2>4. /\ world' \in [members : SUBSET Windows, paused : BOOLEAN, done : SUBSET Commands]
        /\ learning' \subseteq Commands /\ stored' \subseteq Commands
        /\ published \subseteq published' /\ published' \subseteq published \cup {c}
    BY <1>1, <1>5, <1>11, ConcludeTypes
  <2> QED BY <1>1, <1>2, <1>11, <2>3, <2>4, NoOps, TurnKeeps
<1> HIDE DEF t, With, again, reread
<1> QED BY <1>5, <1>6, <1>7, <1>8, <1>9, <1>10, <1>11

LEMMA RefreshKeeps ==
    ASSUME CompoundAssumption, Inv, Traced, NEW c \in Commands, NEW w \in Windows, Refresh(c, w)
    PROVE  Traced'
<1> DEFINE t == tx[c]
           seen == [t.seen EXCEPT ![w] = frame[w]]
           u == [t EXCEPT !.todo = @ \ {w}, !.seen[w] = frame[w]]
           x == [u EXCEPT !.keep = TRUE, !.result = <<>>]
           y(k) == [x EXCEPT !.policy = k]
<1>1. /\ t.stage = "refresh" /\ t.stage \in Interruptible /\ t.stage \in InTransaction
      /\ t.stage \notin Early /\ t.stage # "capture"
      /\ Still /\ t \in Ctx /\ "failed" \in Receipts /\ w \in t.todo
  BY DEF Refresh, Interruptible, InTransaction, Early, Still, surroundings, desktop, Receipts,
         Traced, Typed
<1>2. gate = c
  BY <1>1, CapturedFacts
<1>3. Heard(c) = {} /\ c \in Retries
  BY <1>1 DEF Heard, Traced, OpOK, Placed, Tracked
<1>4. /\ t.targets \subseteq DOMAIN t.taken \cap DOMAIN t.seen /\ DOMAIN t.result \subseteq DOMAIN t.taken
      /\ t.todo \subseteq DOMAIN t.taken /\ t.todo \subseteq Windows /\ t.targets \subseteq Windows
      /\ t.seen \in [DOMAIN t.seen -> Frames] /\ DOMAIN t.seen \subseteq Windows
  BY <1>1, PartialIs DEF Traced, Placed, Within, Ctx
<1>5. \A v \in t.targets \ t.todo : Moved(c, v) => t.seen[v] = frame[v]
  BY <1>1 DEF Traced, Placed, Tracked
<1>6. learning \in SUBSET Commands /\ stored \subseteq Commands
      /\ world \in [members : SUBSET Windows, paused : BOOLEAN, done : SUBSET Commands]
      /\ frame[w] \in Frames
  BY DEF Traced, Typed
<1>7. seen \in Partial(Frames) /\ DOMAIN seen = DOMAIN t.seen
  <2>1. seen \in [DOMAIN t.seen -> Frames]
    BY <1>4, <1>6
  <2> HIDE DEF seen
  <2> QED BY <1>4, <2>1, MakePartial
<1>8. \A v \in DOMAIN t.seen : seen[v] = IF v = w THEN frame[w] ELSE t.seen[v]
  OBVIOUS
<1>9. /\ u \in Ctx /\ u.stage = "refresh" /\ u.taken = t.taken /\ u.before = t.before
      /\ u.targets = t.targets /\ u.seen = seen /\ u.result = t.result /\ u.todo = t.todo \ {w}
      /\ u.policy = t.policy /\ u.placed = t.placed
  <2>1. u = [t EXCEPT !.todo = t.todo \ {w}, !.seen = seen]
    OBVIOUS
  <2> HIDE DEF seen, u
  <2> QED BY <1>1, <1>7, <2>1 DEF Ctx
<1>10. \A v \in u.targets \ u.todo : Moved(c, v) => u.seen[v] = frame[v]
  BY <1>4, <1>5, <1>8, <1>9
<1>11. \/ Abort(c, t, learning, "failed") /\ flight' = flight
       \/ Continue(c, u) /\ UNCHANGED <<world, memory, published, health, flight>>
       \/ u.todo = {} /\ Decide(c, u)
  BY DEF Refresh
<1> HIDE DEF seen, u
<1>12. ASSUME NEW z \in Ctx, z.taken = t.taken, z.before = t.before,
              Abort(c, z, learning, "failed"), flight' = flight
       PROVE  Traced'
  <2>1. TurnsOps(c) /\ GivenUp(c)
    BY <1>3, <1>12, NoOps
  <2>2. Turned(c)
    BY <1>1, <1>12, <2>1, AbortTurned
  <2>3. /\ world' \in [members : SUBSET Windows, paused : BOOLEAN, done : SUBSET Commands]
        /\ learning' \subseteq Commands /\ stored' \subseteq Commands /\ published' = published
    BY <1>6, <1>12, AbortTypes
  <2> QED BY <1>1, <1>2, <2>1, <2>2, <2>3, TurnKeeps
<1>13. CASE Continue(c, u) /\ UNCHANGED <<world, memory, published, health, flight>>
  <2>1. u.todo \subseteq DOMAIN u.taken /\ u.targets \subseteq DOMAIN u.taken \cap DOMAIN u.seen
        /\ DOMAIN u.result \subseteq DOMAIN u.taken
    BY <1>4, <1>7, <1>9
  <2>2. Turned(c)
    BY <1>1, <1>3, <1>9, <1>10, <1>13, <2>1, RereadTurned DEF memory
  <2> QED BY <1>1, <1>2, <1>6, <1>13, <2>2, NoOps, TurnKeeps DEF memory
<1>14. CASE u.todo = {} /\ InPlace(c, u) /\ Conclude(c, u, learning) /\ flight' = flight
  <2>1. Arrived(c, u)
    BY <1>10, <1>14 DEF Arrived, InPlace
  <2>2. u.todo \subseteq DOMAIN u.taken /\ u.targets \subseteq DOMAIN u.taken \cap DOMAIN u.seen
        /\ DOMAIN u.result \subseteq DOMAIN u.taken
    BY <1>4, <1>7, <1>9
  <2>3. Turned(c)
    BY <1>1, <1>3, <1>9, <1>14, <2>1, <2>2, ConcludeTurned
  <2>4. /\ world' \in [members : SUBSET Windows, paused : BOOLEAN, done : SUBSET Commands]
        /\ learning' \subseteq Commands /\ stored' \subseteq Commands
        /\ published \subseteq published' /\ published' \subseteq published \cup {c}
    BY <1>6, <1>9, <1>14, ConcludeTypes
  <2> QED BY <1>1, <1>2, <1>14, <2>3, <2>4, NoOps, TurnKeeps
<1>15. /\ x \in Ctx /\ x.taken = u.taken /\ x.before = u.before /\ x.targets = u.targets
       /\ x.seen = u.seen /\ DOMAIN x.result = {}
  <2>1. <<>> \in Partial(Results) /\ DOMAIN <<>> = {}
    BY EmptyPartial
  <2>2. x.result = <<>>
    BY <1>9 DEF Ctx
  <2> QED BY <1>9, <2>1, <2>2 DEF Ctx
<1>16. CASE (\E k \in u.policy + 1 .. Policies :
                \E v \in Writes(c, y(k)) : Issue(c, y(k), {v}, Writes(c, y(k)) \ {v}))
            /\ UNCHANGED <<world, memory, published, health>>
  <2>0. PICK k \in u.policy + 1 .. Policies :
            \E v \in Writes(c, y(k)) : Issue(c, y(k), {v}, Writes(c, y(k)) \ {v})
    BY <1>16
  <2>1. PICK v \in Writes(c, y(k)) : Issue(c, y(k), {v}, Writes(c, y(k)) \ {v})
    BY <2>0
  <2>2. k \in 1..Policies
    BY <1>9, CompoundAssumption DEF Ctx
  <2> HIDE DEF x
  <2>3. /\ y(k) \in Ctx /\ y(k).taken = u.taken /\ y(k).before = u.before /\ y(k).targets = u.targets
        /\ y(k).seen = u.seen /\ DOMAIN y(k).result = {}
    BY <1>15, <2>2 DEF Ctx
  <2>4. Writes(c, y(k)) \subseteq DOMAIN u.taken
    BY <1>4, <1>9, <2>3 DEF Writes
  <2> HIDE DEF y
  <2>5. {v} \in SUBSET DOMAIN u.taken /\ Writes(c, y(k)) \ {v} \in SUBSET DOMAIN u.taken
    BY <2>4
  <2>6. UNCHANGED <<world, memory, published, health>>
    BY <1>16
  <2>7. y(k).targets \subseteq DOMAIN y(k).taken \cap DOMAIN y(k).seen
        /\ DOMAIN y(k).result \subseteq DOMAIN y(k).taken
    BY <1>4, <1>7, <1>9, <2>3
  <2>8. Turned(c) /\ TurnsOps(c)
    BY <1>1, <1>3, <1>9, <2>1, <2>3, <2>5, <2>6, <2>7, IssueTurned DEF memory
  <2> QED BY <1>1, <1>2, <1>6, <2>6, <2>8, TurnKeeps DEF memory
<1>17. ASSUME Decide(c, u), ~InPlace(c, u)
       PROVE  \/ Abort(c, x, learning, "failed") /\ flight' = flight
              \/ (\E k \in u.policy + 1 .. Policies :
                     \E v \in Writes(c, y(k)) : Issue(c, y(k), {v}, Writes(c, y(k)) \ {v}))
                 /\ UNCHANGED <<world, memory, published, health>>
  BY <1>17 DEF Decide
<1>18. CASE u.todo = {} /\ Decide(c, u)
  <2>1. CASE InPlace(c, u)
    BY <1>14, <1>18, <2>1 DEF Decide
  <2>2. CASE ~InPlace(c, u)
    <3> HIDE DEF x, y
    <3> QED BY <1>9, <1>12, <1>15, <1>16, <1>17, <1>18, <2>2
  <2> QED BY <2>1, <2>2
<1> QED BY <1>1, <1>11, <1>12, <1>13, <1>18

\* The deadline passes.
LEMMA InterruptKeeps ==
    ASSUME CompoundAssumption, Inv, Traced, NEW c \in Commands, Interrupt(c)
    PROVE  Traced'
<1> DEFINE t == tx[c]
           u == [t EXCEPT !.late = TRUE]
<1>1. /\ t.stage \in InTransaction /\ Still /\ t \in Ctx /\ "timeout" \in Receipts
  BY DEF Interrupt, Interruptible, InTransaction, Still, surroundings, desktop, Receipts,
         Traced, Typed
<1>2. gate = c /\ c \notin published
  BY <1>1, CapturedFacts
<1>3. TurnsOps(c) /\ GivenUp(c)
  BY Abandoned DEF Interrupt
<1>4. learning \in SUBSET Commands /\ stored \subseteq Commands
      /\ world \in [members : SUBSET Windows, paused : BOOLEAN, done : SUBSET Commands]
  BY DEF Traced, Typed
<1>5. CASE /\ t.stage = "capture" /\ Release(c, "timeout")
           /\ UNCHANGED <<world, learning, stored, published, health>>
  <2>1. t.stage \in Early
    BY <1>5 DEF Early
  <2>2. learning = stored /\ \A w \in Windows : ~Moved(c, w)
    BY <1>5, <2>1, EarlyFacts DEF Traced, Placed, Learned
  <2>3. Turned(c)
    BY <1>1, <1>3, <1>5, <2>2, ReleaseTurned
  <2> QED BY <1>1, <1>2, <1>3, <1>4, <1>5, <2>3, TurnKeeps
<1>6. CASE t.stage \in Interruptible /\ Abort(c, t, learning, "timeout")
  <2>1. Turned(c)
    BY <1>1, <1>3, <1>6, AbortTurned
  <2>2. /\ world' \in [members : SUBSET Windows, paused : BOOLEAN, done : SUBSET Commands]
        /\ learning' \subseteq Commands /\ stored' \subseteq Commands /\ published' = published
    BY <1>1, <1>4, <1>6, AbortTypes
  <2> QED BY <1>1, <1>2, <1>3, <2>1, <2>2, TurnKeeps
<1>7. CASE /\ t.stage = "persist" /\ Continue(c, u)
           /\ UNCHANGED <<world, learning, stored, published, health>>
  <2>1. /\ u \in Ctx /\ u.stage = "persist" /\ u.todo = t.todo /\ u.result = t.result
        /\ u.taken = t.taken /\ u.targets = t.targets /\ u.seen = t.seen /\ u.policy = t.policy
        /\ u.before = t.before /\ u.incomplete = t.incomplete /\ u.keep = t.keep
    BY <1>1, <1>7 DEF Ctx
  <2> HIDE DEF u
  <2>2. /\ tx' \in [Commands -> Ctx] /\ tx'[c] = u /\ \A d \in Commands \ {c} : tx'[d] = tx[d]
    BY <1>7, <2>1, NewRecord DEF Traced, Continue
  <2>3. Placed(c) /\ \A w \in Windows : Moved(c, w)' = Moved(c, w)
    BY <1>1 DEF Traced, Moved, Still
  <2>4. u.stage \notin Early /\ u.stage \notin Receipts
    BY <2>1 DEF Early, Receipts
  <2>5. Unmarked(c)' /\ Awaited(c)' /\ Restoring(c)'
    BY <2>1, <2>2, <2>3, <2>4 DEF Placed, Unmarked, Awaited, Restoring
  <2>6. Within(c)'
    BY <1>1, <1>7, <2>1, <2>2, <2>3, <2>4 DEF Placed, Within, Still
  <2>7. Tracked(c)'
    <3>1. t.targets \subseteq Windows
      BY <1>1 DEF Ctx
    <3> QED BY <1>1, <1>7, <2>1, <2>2, <2>3, <3>1 DEF Placed, Tracked, Still
  <2>8. Learned(c)'
    BY <1>7, <2>1, <2>2, <2>3 DEF Placed, Learned
  <2>9. \A o \in flight' : o.by = c => OpOK(o)'
    <3>1. \A o \in flight : o.by = c => o.win \in DOMAIN t.taken /\ t.taken[o.win].ident = o.ident
      BY <1>1, CapturedFacts
    <3> QED BY <1>3, <2>1, <2>2, <3>1 DEF OpOK, GivenUp
  <2>10. TurnsTaken(c)
    BY <2>1, <2>2, KeptTaken DEF Traced
  <2>11. gate' # NoOne
    BY <1>2, <1>7, CompoundAssumption DEF Continue
  <2>12. Turned(c)
    BY <1>7, <2>2, <2>5, <2>6, <2>7, <2>8, <2>9, <2>10, <2>11 DEF Turned, Own, Placed
  <2> QED BY <1>1, <1>2, <1>3, <1>4, <1>7, <2>12, TurnKeeps
<1>8. \/ /\ t.stage = "capture" /\ Release(c, "timeout")
         /\ UNCHANGED <<world, learning, stored, published, health>>
      \/ t.stage \in Interruptible /\ Abort(c, t, learning, "timeout")
      \/ /\ t.stage = "persist" /\ Continue(c, u)
         /\ UNCHANGED <<world, learning, stored, published, health>>
  BY DEF Interrupt
<1> QED BY <1>5, <1>6, <1>7, <1>8

\* The rollback looks at a window.
LEMMA RestoreReadKeeps ==
    ASSUME CompoundAssumption, Inv, Traced, NEW c \in Commands, NEW w \in Windows, RestoreRead(c, w)
    PROVE  Traced'
<1> DEFINE t == tx[c]
           cap == t.taken[w]
           u == [t EXCEPT !.todo = @ \ {w}]
           missed == [u EXCEPT !.incomplete = TRUE]
           result == [v \in {w} |-> "none"]
           asked == [t EXCEPT !.result = result]
           op == [win |-> w, frame |-> cap.frame, ident |-> cap.ident, by |-> c, restoring |-> TRUE,
                  heard |-> TRUE]
<1>1. /\ t.stage = "restore" /\ t.stage \in InTransaction /\ t.stage # "capture" /\ t.result = <<>>
      /\ t.stage \notin Early /\ Still /\ t \in Ctx /\ w \in t.todo
      /\ UNCHANGED <<world, memory, published>>
  BY DEF RestoreRead, InTransaction, Early, Still, surroundings, desktop, Traced, Typed
<1>2. /\ gate = c /\ c \notin published
      /\ \A v \in DOMAIN t.taken : t.taken[v].frame[1] # c
      /\ \A v \in Windows : mover[v][1] = c => v \in DOMAIN t.taken /\ t.taken[v].ident = ident[v]
      /\ \A v \in Windows : Moved(c, v) => v \in DOMAIN t.taken /\ frame[v][1] = c
      /\ \A o \in flight : o.by = c => o.win \in DOMAIN t.taken /\ t.taken[o.win].ident = o.ident
  BY <1>1, CapturedFacts
<1>3. /\ t.targets \subseteq DOMAIN t.taken \cap DOMAIN t.seen /\ t.todo \subseteq DOMAIN t.taken
      /\ DOMAIN t.result = {} /\ t.taken \in [DOMAIN t.taken -> Captured]
      /\ DOMAIN t.taken \subseteq Windows
      /\ \A v \in Windows : Moved(c, v) => v \in t.todo \/ t.incomplete
      /\ ~t.keep => learning = stored
  BY <1>1, PartialIs, EmptyPartial DEF Traced, Placed, Within, Restoring, Learned, Ctx
<1>4. Heard(c) = {}
  <2>1. \A o \in flight : o.by = c => ~o.heard
    BY <1>3 DEF Traced, OpOK
  <2> QED BY <2>1 DEF Heard
<1>5. learning \in SUBSET Commands /\ stored \subseteq Commands
      /\ world \in [members : SUBSET Windows, paused : BOOLEAN, done : SUBSET Commands]
  BY DEF Traced, Typed
<1>6. \/ flight' = flight /\ RestoreOn(c, missed)
      \/ ident[w] = cap.ident /\ frame[w] = cap.frame /\ flight' = flight /\ RestoreOn(c, u)
      \/ Continue(c, asked) /\ flight' = flight \cup {op} /\ health' = health
  BY DEF RestoreRead
<1>7. ASSUME NEW z \in Ctx, z.stage = "restore", z.taken = t.taken, DOMAIN z.result = {},
             z.todo = t.todo \ {w}, z.targets = t.targets, z.seen = t.seen, z.keep = t.keep,
             \A v \in Windows : Moved(c, v) => v \in z.todo \/ z.incomplete,
             flight' = flight, RestoreOn(c, z)
      PROVE  Traced'
  <2>1. TurnsOps(c) /\ GivenUp(c)
    BY <1>4, <1>7, NoOps
  <2>2. Turned(c)
    BY <1>1, <1>3, <1>7, <2>1, RestoreOnTurned DEF memory
  <2> QED BY <1>1, <1>2, <1>5, <2>1, <2>2, TurnKeeps DEF memory
<1>8. /\ u \in Ctx /\ u.stage = "restore" /\ u.taken = t.taken /\ u.result = t.result
      /\ u.todo = t.todo \ {w} /\ u.targets = t.targets /\ u.seen = t.seen /\ u.keep = t.keep
      /\ u.incomplete = t.incomplete
  BY <1>1 DEF Ctx
<1> HIDE DEF u
<1>9. /\ missed \in Ctx /\ missed.stage = "restore" /\ missed.taken = t.taken
      /\ missed.result = t.result /\ missed.todo = t.todo \ {w} /\ missed.targets = t.targets
      /\ missed.seen = t.seen /\ missed.keep = t.keep /\ missed.incomplete
  BY <1>8 DEF Ctx
<1> HIDE DEF missed
<1>10. CASE flight' = flight /\ RestoreOn(c, missed)
  BY <1>3, <1>7, <1>9, <1>10
<1>11. CASE ident[w] = cap.ident /\ frame[w] = cap.frame /\ flight' = flight /\ RestoreOn(c, u)
  <2>1. ~Moved(c, w)
    BY <1>1, <1>2, <1>3, <1>11
  <2>2. \A v \in Windows : Moved(c, v) => v \in u.todo \/ u.incomplete
    BY <1>3, <1>8, <2>1
  <2> QED BY <1>3, <1>7, <1>8, <1>11, <2>2
<1>12. CASE Continue(c, asked) /\ flight' = flight \cup {op} /\ health' = health
  <2>1. result \in Partial(Results) /\ DOMAIN result = {w} /\ result[w] = "none"
    <3>1. result \in [{w} -> Results]
      BY DEF Results
    <3>2. result[w] = "none"
      OBVIOUS
    <3> HIDE DEF result
    <3> QED BY <3>1, <3>2, MakePartial
  <2> HIDE DEF result
  <2>2. /\ asked \in Ctx /\ asked.stage = "restore" /\ asked.todo = t.todo /\ asked.result = result
        /\ asked.taken = t.taken /\ asked.targets = t.targets /\ asked.seen = t.seen
        /\ asked.keep = t.keep /\ asked.incomplete = t.incomplete
    BY <1>1, <2>1 DEF Ctx
  <2>3. /\ op \in WriteOps /\ op.win = w /\ op.frame = t.taken[w].frame /\ op.ident = t.taken[w].ident
        /\ op.by = c /\ op.restoring /\ op.heard
    BY <1>1, <1>3 DEF WriteOps, Captured
  <2>4. tx' = [tx EXCEPT ![c] = asked] /\ gate' = gate /\ flight' = flight \cup {op}
    BY <1>12 DEF Continue
  <2> HIDE DEF asked, op
  <2>5. /\ tx' \in [Commands -> Ctx] /\ tx'[c] = asked /\ \A d \in Commands \ {c} : tx'[d] = tx[d]
    BY <2>2, <2>4, NewRecord DEF Traced
  <2>6. \A v \in Windows : Moved(c, v)' = Moved(c, v)
    BY <1>1 DEF Moved, Still
  <2>7. asked.stage \notin Drafting /\ asked.stage \notin Interruptible /\ asked.stage \notin Receipts
        /\ asked.stage \notin Early
    BY <2>2 DEF Drafting, Interruptible, Receipts, Early
  <2>8. Unmarked(c)' /\ Awaited(c)' /\ Learned(c)'
    BY <1>1, <1>2, <1>3, <2>2, <2>5, <2>7 DEF Unmarked, Awaited, Learned, Drafting, Interruptible, memory
  <2>9. Within(c)'
    BY <1>1, <1>2, <1>3, <2>1, <2>2, <2>5, <2>7 DEF Within, Still
  <2>10. Tracked(c)'
    BY <1>1, <1>2, <2>2, <2>5, <2>6, <2>7 DEF Tracked, Drafting, Still
  <2>11. Restoring(c)'
    BY <1>3, <2>1, <2>2, <2>5, <2>6, <2>7 DEF Restoring
  <2>12. \A o \in flight' : o.by = c => OpOK(o)'
    <3>1. ASSUME NEW o \in flight, o.by = c PROVE OpOK(o)'
      <4>1. ~o.heard
        BY <1>4, <3>1 DEF Heard
      <4> QED BY <1>2, <2>2, <2>5, <3>1, <4>1 DEF OpOK
    <3>2. ASSUME NEW o, o = op PROVE OpOK(o)'
      BY <1>1, <1>3, <2>1, <2>2, <2>3, <2>5, <3>2 DEF OpOK
    <3> QED BY <2>4, <3>1, <3>2
  <2>13. TurnsTaken(c)
    BY <2>2, <2>5, KeptTaken DEF Traced
  <2>14. gate' # NoOne
    BY <1>2, <2>4, CompoundAssumption
  <2>15. Turned(c)
    BY <1>12, <2>5, <2>8, <2>9, <2>10, <2>11, <2>12, <2>13, <2>14 DEF Turned, Own, Placed
  <2>16. TurnsOps(c)
    <3>1. w \in DOMAIN tx[c].taken
      BY <1>1, <1>3
    <3> QED BY <2>3, <2>4, <3>1 DEF TurnsOps, Traced, Typed
  <2> QED BY <1>1, <1>2, <1>5, <2>15, <2>16, TurnKeeps DEF memory
<1> QED BY <1>6, <1>10, <1>11, <1>12

\* The answer to a restoring write is noted.
LEMMA RestoreWrittenKeeps ==
    ASSUME CompoundAssumption, Inv, Traced, NEW c \in Commands, RestoreWritten(c)
    PROVE  Traced'
<1> DEFINE t == tx[c]
           u(w) == [t EXCEPT !.todo = @ \ {w}, !.result = <<>>,
                             !.incomplete = @ \/ t.result[w] # "exact"]
<1>1. /\ t.stage = "restore" /\ t.stage \in InTransaction /\ t.stage # "capture"
      /\ t.stage \notin Early /\ Still /\ t \in Ctx /\ Heard(c) = {} /\ flight' = flight
      /\ UNCHANGED <<world, memory, published>>
  BY DEF RestoreWritten, InTransaction, Early, Still, surroundings, desktop, Traced, Typed
<1>2. gate = c
  BY <1>1, CapturedFacts
<1>3. /\ t.targets \subseteq DOMAIN t.taken \cap DOMAIN t.seen /\ t.todo \subseteq DOMAIN t.taken
      /\ DOMAIN t.result \subseteq Windows
      /\ \A v \in Windows : Moved(c, v) => /\ v \in t.todo \/ t.incomplete
                                           /\ v \in DOMAIN t.result => t.result[v] # "exact"
      /\ ~t.keep => learning = stored
  BY <1>1, PartialIs DEF Traced, Placed, Within, Restoring, Learned, Ctx
<1>4. learning \in SUBSET Commands /\ stored \subseteq Commands
      /\ world \in [members : SUBSET Windows, paused : BOOLEAN, done : SUBSET Commands]
  BY DEF Traced, Typed
<1>5. PICK w \in DOMAIN t.result : RestoreOn(c, u(w))
  BY DEF RestoreWritten
<1>6. <<>> \in Partial(Results) /\ DOMAIN <<>> = {}
  BY EmptyPartial
<1>7. /\ u(w) \in Ctx /\ u(w).stage = "restore" /\ u(w).taken = t.taken /\ u(w).result = <<>>
      /\ u(w).todo = t.todo \ {w} /\ u(w).targets = t.targets /\ u(w).seen = t.seen
      /\ u(w).keep = t.keep
      /\ u(w).incomplete = (t.incomplete \/ t.result[w] # "exact")
  BY <1>1, <1>6 DEF Ctx
<1> HIDE DEF u
<1>8. \A v \in Windows : Moved(c, v) => v \in u(w).todo \/ u(w).incomplete
  BY <1>3, <1>7
<1>9. TurnsOps(c) /\ GivenUp(c)
  BY <1>1, NoOps
<1>10. DOMAIN u(w).result = {} /\ u(w).todo \subseteq DOMAIN u(w).taken
       /\ u(w).targets \subseteq DOMAIN u(w).taken \cap DOMAIN u(w).seen
       /\ (~u(w).keep => learning' = stored') /\ published' = published /\ stored' = stored
  BY <1>1, <1>3, <1>6, <1>7 DEF memory
<1>11. Turned(c)
  BY <1>1, <1>5, <1>7, <1>8, <1>9, <1>10, RestoreOnTurned
<1> QED BY <1>1, <1>2, <1>4, <1>9, <1>11, TurnKeeps DEF memory

\* What other policies taught is kept, or is forgotten and health says so.
LEMMA ForgetKeeps ==
    ASSUME CompoundAssumption, Inv, Traced, NEW c \in Commands, Forget(c)
    PROVE  Traced'
<1>1. /\ tx[c].stage = "forget" /\ tx[c].stage \in InTransaction /\ Still /\ flight' = flight
      /\ tx[c] \in Ctx /\ Release(c, tx[c].receipt) /\ UNCHANGED <<world, published>>
      /\ tx[c].receipt \in Receipts
  BY DEF Forget, InTransaction, Still, surroundings, desktop, Traced, Typed, Ctx
<1>2. gate = c
  BY <1>1, CapturedFacts
<1>3. Heard(c) = {}
  BY <1>1 DEF Heard, Traced, OpOK
<1>4. TurnsOps(c) /\ GivenUp(c)
  BY <1>1, <1>3, NoOps
<1>5. learning' = stored' /\ health' \in {health, "degraded"}
      /\ learning' \subseteq Commands /\ stored' \subseteq Commands
  BY DEF Forget, Traced, Typed
<1>6. \A w \in Windows : Moved(c, w) => health = "degraded"
  BY <1>1 DEF Traced, Placed, Restoring
<1>7. Turned(c)
  BY <1>1, <1>4, <1>5, <1>6, ReleaseTurned
<1> QED BY <1>1, <1>2, <1>4, <1>5, <1>7, TurnKeeps DEF Traced, Typed

-----------------------------------------------------------------------------
(* The sidecar, the user, and everybody else.                              *)

\* Nothing of a command but its results differs, and no window has joined these.
Alike(d) ==
    LET t == tx[d]
        u == tx'[d]
    IN  /\ u.stage = t.stage /\ u.todo = t.todo /\ u.taken = t.taken /\ u.seen = t.seen
        /\ u.targets = t.targets /\ u.policy = t.policy /\ u.before = t.before /\ u.keep = t.keep
        /\ u.incomplete = t.incomplete /\ DOMAIN u.result = DOMAIN t.result

\* An answer is noted where somebody waits for it.
Noted(o, r) ==
    /\ tx' \in [Commands -> Ctx]
    /\ \A d \in Commands : Alike(d)
    /\ \A d \in Commands \ {o.by} : tx'[d] = tx[d]
    /\ o.heard => tx'[o.by].result[o.win] = r
    /\ \A w \in DOMAIN tx[o.by].result :
          w # o.win \/ ~o.heard => tx'[o.by].result[w] = tx[o.by].result[w]

LEMMA AnswerNoted ==
    ASSUME Traced, NEW o \in flight, NEW r \in Results,
           tx' = IF o.heard THEN [tx EXCEPT ![o.by].result[o.win] = r] ELSE tx
    PROVE  Noted(o, r)
<1>1. o.by \in Commands /\ tx \in [Commands -> Ctx] /\ OpOK(o)
  BY DEF Traced, Typed, WriteOps
<1>2. CASE ~o.heard
  <2>1. tx' = tx
    BY <1>2
  <2> QED BY <1>1, <1>2, <2>1 DEF Noted, Alike
<1>3. CASE o.heard
  <2> DEFINE t == tx[o.by]
             result == [t.result EXCEPT ![o.win] = r]
             u == [t EXCEPT !.result = result]
  <2>1. tx' = [tx EXCEPT ![o.by] = u]
    BY <1>3
  <2>2. t \in Ctx /\ t.result \in [DOMAIN t.result -> Results] /\ DOMAIN t.result \subseteq Windows
        /\ o.win \in DOMAIN t.result
    BY <1>1, <1>3, PartialIs DEF Ctx, OpOK
  <2>3. result \in Partial(Results) /\ DOMAIN result = DOMAIN t.result
    <3>1. result \in [DOMAIN t.result -> Results]
      BY <2>2
    <3> HIDE DEF result
    <3> QED BY <2>2, <3>1, MakePartial
  <2>4. result[o.win] = r /\ \A w \in DOMAIN t.result : w # o.win => result[w] = t.result[w]
    BY <2>2
  <2> HIDE DEF result
  <2>5. /\ u \in Ctx /\ u.result = result
        /\ u.stage = t.stage /\ u.todo = t.todo /\ u.taken = t.taken /\ u.seen = t.seen
        /\ u.targets = t.targets /\ u.policy = t.policy /\ u.before = t.before /\ u.keep = t.keep
        /\ u.incomplete = t.incomplete
    BY <2>2, <2>3 DEF Ctx
  <2> HIDE DEF u
  <2>6. /\ tx' \in [Commands -> Ctx] /\ tx'[o.by] = u
        /\ \A d \in Commands \ {o.by} : tx'[d] = tx[d]
    BY <1>1, <2>1, <2>5, NewRecord DEF Traced
  <2>7. \A d \in Commands : Alike(d)
    BY <2>3, <2>5, <2>6 DEF Alike
  <2> QED BY <1>3, <2>4, <2>5, <2>6, <2>7 DEF Noted
<1> QED BY <1>2, <1>3

\* A command waits for one answer about a window at a time.
LEMMA OneHeard ==
    ASSUME Traced, NEW o \in flight, NEW p \in flight, o.heard, p.heard, o.by = p.by, o.win = p.win
    PROVE  o = p
<1>1. OpOK(o) /\ OpOK(p) /\ o \in WriteOps /\ p \in WriteOps
  BY DEF Traced, Typed
<1>2. tx[o.by].stage \in InTransaction
  BY <1>1 DEF OpOK, InTransaction, Interruptible
<1>3. o.ident = p.ident /\ o.frame = p.frame /\ o.restoring = p.restoring
  BY <1>1, <1>2 DEF OpOK, WriteOps
<1> QED BY <1>1, <1>3 DEF WriteOps

\* Answers that are not noted are still awaited, and other writes are not affected.
LEMMA StillAwaited ==
    ASSUME Traced, NEW o \in flight, NEW r \in Results \ {"none"}, Noted(o, r),
           \A p \in flight : p # o => p \in flight',
           ~o.heard => \A d \in Commands : Heard(d) \subseteq flight'
    PROVE  \A d \in Commands : Awaited(d)'
<1> SUFFICES ASSUME NEW d \in Commands, tx[d].stage = "writing",
                    NEW w \in DOMAIN tx[d].result, tx'[d].result[w] = "none"
             PROVE  \E p \in Heard(d)' : p.win = w
  BY DEF Awaited, Noted, Alike
<1>1. ~(o.heard /\ o.by = d /\ o.win = w) /\ tx[d].result[w] = "none"
  BY DEF Noted
<1>2. PICK p \in Heard(d) : p.win = w
  BY <1>1 DEF Traced, Placed, Awaited
<1>3. p \in flight /\ p.by = d /\ p.heard /\ p \in flight'
  BY <1>1, <1>2 DEF Heard
<1>4. p \in Heard(d)'
  BY <1>3 DEF Heard
<1> QED BY <1>2, <1>4

LEMMA OthersOK ==
    ASSUME Traced, NEW o \in flight, NEW r \in Results, Noted(o, r), NEW p \in flight, p # o
    PROVE  OpOK(p)'
<1>1. OpOK(p) /\ p.by \in Commands /\ Alike(p.by)
  BY DEF Traced, Typed, WriteOps, Noted
<1>2. ASSUME p.heard PROVE p.win \in DOMAIN tx'[p.by].result /\ tx'[p.by].result[p.win] = "none"
  <2>1. p.win \in DOMAIN tx[p.by].result /\ tx[p.by].result[p.win] = "none"
    BY <1>1, <1>2 DEF OpOK
  <2>2. CASE p.by # o.by
    BY <1>1, <2>1, <2>2 DEF Noted
  <2>3. CASE p.by = o.by
    <3>1. p.win # o.win \/ ~o.heard
      BY <1>2, <2>3, OneHeard
    <3> QED BY <1>1, <2>1, <2>3, <3>1 DEF Noted, Alike
  <2> QED BY <2>2, <2>3
<1> QED BY <1>1, <1>2 DEF OpOK, Alike

LEMMA LearnedAlike ==
    ASSUME Traced, NEW d \in Commands, Alike(d), UNCHANGED memory
    PROVE  Learned(d)'
BY DEF Traced, Placed, Learned, Alike, memory

\* What the sidecar does when it carries out a write.
LEMMA Landing ==
    ASSUME CompoundAssumption, Traced, NEW o \in flight, Land(o)
    PROVE  /\ flight' = flight \ {o}
           /\ UNCHANGED <<ident, world, learning, stored, published, health, gate>>
           /\ \E r \in Results \ {"none"}, f \in Frames :
                 /\ Noted(o, r)
                 /\ frame' = [frame EXCEPT ![o.win] = f]
                 /\ r = "exact" => f = o.frame
                 /\ \/ f = frame[o.win] /\ mover' = mover
                    \/ /\ f # frame[o.win] /\ ident[o.win] = o.ident
                       /\ f = Halfway(o.by) \/ f = o.frame
                       /\ mover' = [mover EXCEPT ![o.win] =
                             <<o.by, IF o.restoring THEN "restore"
                                     ELSE IF o.heard THEN "plan" ELSE "late">>]
<1> DEFINE To(r) == CASE r = "exact" -> {o.frame}
                      [] r = "stale" -> {frame[o.win]}
                      [] r = "refused" -> {frame[o.win], Halfway(o.by)}
                      [] OTHER -> {Halfway(o.by)}
           tag == IF o.restoring THEN "restore" ELSE IF o.heard THEN "plan" ELSE "late"
<1>1. /\ flight' = flight \ {o}
      /\ UNCHANGED <<ident, world, learning, stored, published, health, gate>>
  BY DEF Land, memory
<1>2. PICK r \in Results \ {"none"} :
        /\ r = "stale" <=> ident[o.win] # o.ident
        /\ \E f \in To(r) :
              /\ frame' = [frame EXCEPT ![o.win] = f]
              /\ mover' = [mover EXCEPT ![o.win] = IF f = frame[o.win] THEN @ ELSE <<o.by, tag>>]
        /\ tx' = IF o.heard THEN [tx EXCEPT ![o.by].result[o.win] = r] ELSE tx
  BY DEF Land
<1>3. PICK f \in To(r) :
        /\ frame' = [frame EXCEPT ![o.win] = f]
        /\ mover' = [mover EXCEPT ![o.win] = IF f = frame[o.win] THEN @ ELSE <<o.by, tag>>]
  BY <1>2
<1>4. /\ o.win \in Windows /\ o.by \in Commands /\ o.frame \in Frames /\ frame[o.win] \in Frames
      /\ mover \in [Windows -> (Commands \cup {NoOne}) \X {"user", "plan", "late", "restore"}]
  BY DEF Traced, Typed, WriteOps
<1>5. Halfway(o.by) \in Frames
  BY <1>4, PlacesAreFrames
<1>6. /\ f \in {o.frame, frame[o.win], Halfway(o.by)}
      /\ r = "exact" => f = o.frame
      /\ r = "stale" => f = frame[o.win]
  OBVIOUS
<1>7. Noted(o, r)
  BY <1>2, AnswerNoted
<1>8. CASE f = frame[o.win]
  <2>1. mover' = mover
    BY <1>3, <1>4, <1>8
  <2> QED BY <1>1, <1>2, <1>3, <1>4, <1>6, <1>7, <1>8, <2>1
<1>9. CASE f # frame[o.win]
  <2>1. mover' = [mover EXCEPT ![o.win] = <<o.by, tag>>]
    BY <1>3, <1>9
  <2>2. ident[o.win] = o.ident
    BY <1>2, <1>6, <1>9
  <2> HIDE DEF To
  <2> QED BY <1>1, <1>2, <1>3, <1>4, <1>5, <1>6, <1>7, <1>9, <2>1, <2>2
<1> QED BY <1>8, <1>9

LEMMA LandKeeps ==
    ASSUME CompoundAssumption, Inv, Traced, NEW o \in flight, Land(o)
    PROVE  Traced'
<1> DEFINE c == o.by
           tag == IF o.restoring THEN "restore" ELSE IF o.heard THEN "plan" ELSE "late"
<1>1. /\ flight' = flight \ {o}
      /\ UNCHANGED <<ident, world, learning, stored, published, health, gate>>
  BY Landing
<1>2. PICK r \in Results \ {"none"}, f \in Frames :
        /\ Noted(o, r)
        /\ frame' = [frame EXCEPT ![o.win] = f]
        /\ r = "exact" => f = o.frame
        /\ \/ f = frame[o.win] /\ mover' = mover
           \/ /\ f # frame[o.win] /\ ident[o.win] = o.ident
              /\ f = Halfway(o.by) \/ f = o.frame
              /\ mover' = [mover EXCEPT ![o.win] = <<o.by, tag>>]
  BY Landing
<1>3. /\ c \in Commands /\ o.win \in Windows /\ o.frame \in Frames /\ OpOK(o) /\ Placed(c)
      /\ frame \in [Windows -> Frames] /\ o \in WriteOps
      /\ mover \in [Windows -> (Commands \cup {NoOne}) \X {"user", "plan", "late", "restore"}]
  BY DEF Traced, Typed, WriteOps
<1>4. Halfway(c)[1] = c /\ \A k \in 1..Policies : Place(c, k)[1] = c
  BY <1>3, PlacesAreFrames, CompoundAssumption
<1>5. /\ \A w \in Windows : w # o.win => frame'[w] = frame[w] /\ mover'[w] = mover[w]
      /\ frame'[o.win] = f
  BY <1>2, <1>3
<1>6. \/ f = frame[o.win] /\ mover'[o.win] = mover[o.win]
      \/ /\ f # frame[o.win] /\ ident[o.win] = o.ident
         /\ f = Halfway(c) \/ f = o.frame
         /\ mover'[o.win] = <<c, tag>>
  BY <1>2, <1>3
<1>7. tag \in {"restore", "plan", "late"} /\ (tag = "plan" => ~o.restoring /\ o.heard)
  OBVIOUS
<1> HIDE DEF tag
\* A window is newly moved by its plan only through a write that the plan waits for,
<1>8. ASSUME NEW d \in Commands, NEW w \in Windows, Moved(d, w)'
      PROVE  \/ Moved(d, w) /\ frame'[w] = frame[w]
             \/ /\ d = c /\ w = o.win /\ o.heard /\ ~o.restoring
                /\ frame'[w] = f /\ f[1] = c /\ tx[c].stage = "writing"
                /\ o.frame = Place(c, tx[c].policy)
  <2>1. CASE mover'[w] = mover[w] /\ frame'[w] = frame[w]
    BY <1>8, <2>1 DEF Moved
  <2>2. CASE w = o.win /\ f # frame[o.win]
    <3>1. d = c /\ tag = "plan"
      BY <1>6, <1>8, <2>2 DEF Moved
    <3>2. /\ o.heard /\ ~o.restoring /\ tx[c].stage = "writing" /\ o.frame = Place(c, tx[c].policy)
      BY <1>3, <1>7, <3>1 DEF OpOK
    <3>3. tx[c].policy \in 1..Policies
      BY <1>3 DEF Traced, Typed, Ctx
    <3> QED BY <1>4, <1>5, <1>6, <2>2, <3>1, <3>2, <3>3
  <2> QED BY <1>5, <1>6, <2>1, <2>2
<1>9. \A d \in Commands : Alike(d)
  BY <1>2 DEF Noted
<1>10. Typed'
  <2>1. frame' \in [Windows -> Frames] /\ flight' \subseteq WriteOps
    BY <1>1, <1>2, <1>3 DEF Traced, Typed
  <2>2. mover' \in [Windows -> (Commands \cup {NoOne}) \X {"user", "plan", "late", "restore"}]
    <3>1. <<c, tag>> \in (Commands \cup {NoOne}) \X {"user", "plan", "late", "restore"}
      BY <1>3, <1>7
    <3> QED BY <1>2, <1>3, <3>1
  <2> QED BY <1>1, <1>2, <2>1, <2>2 DEF Traced, Typed, Noted
<1>11. ASSUME NEW d \in Commands PROVE Unmarked(d)'
  <2>1. ASSUME tx'[d].stage \in Early, Marked(d)' PROVE FALSE
    <3>1. ~Marked(d) /\ Alike(d)
      BY <1>9, <2>1 DEF Alike, Traced, Placed, Unmarked
    <3>2. o.by # d /\ o.frame[1] # d
      BY <3>1 DEF Marked
    <3>3. \A w \in Windows : frame'[w][1] # d /\ mover'[w][1] # d
      BY <1>4, <1>5, <1>6, <3>1, <3>2 DEF Marked
    <3>4. \A e \in Commands : tx'[e].taken = tx[e].taken /\ tx'[e].seen = tx[e].seen
                              /\ tx'[e].stage = tx[e].stage
      BY <1>9 DEF Alike
    <3> QED BY <1>1, <2>1, <3>1, <3>3, <3>4 DEF Marked
  <2>2. \A w \in DOMAIN tx'[d].taken : tx'[d].taken[w].frame[1] # d
    BY <1>9 DEF Alike, Traced, Placed, Unmarked
  <2> QED BY <2>1, <2>2 DEF Unmarked
<1>12. ASSUME NEW d \in Commands PROVE Within(d)'
  <2>1. Alike(d) /\ Within(d)
    BY <1>9 DEF Traced, Placed
  <2>2. ASSUME NEW w \in Windows, tx[d].stage \in InTransaction, mover'[w][1] = d
        PROVE  w \in DOMAIN tx[d].taken /\ tx[d].taken[w].ident = ident[w]
    <3>1. CASE mover'[w] = mover[w]
      BY <2>1, <2>2, <3>1 DEF Within
    <3>2. CASE w = o.win /\ mover'[w] = <<c, tag>> /\ ident[w] = o.ident
      BY <1>3, <2>2, <3>2 DEF OpOK
    <3> QED BY <1>5, <1>6, <3>1, <3>2
  <2> QED BY <1>1, <2>1, <2>2 DEF Within, Alike
<1>13. ASSUME NEW d \in Commands PROVE Tracked(d)'
  <2>1. Alike(d) /\ Tracked(d) /\ tx[d] \in Ctx
    BY <1>9 DEF Traced, Typed, Placed
  <2>2. \A w \in Windows : Moved(d, w)' => frame'[w][1] = d
    BY <1>8, <2>1 DEF Tracked
  <2>3. ASSUME tx[d].stage = "writing", NEW w \in DOMAIN tx[d].result,
               tx'[d].result[w] = "exact", Moved(d, w)'
        PROVE  frame'[w] = Place(d, tx[d].policy)
    <3>1. w \in Windows
      BY <2>1, PartialIs DEF Ctx
    <3>2. CASE d = c /\ w = o.win /\ o.heard
      <4>1. r = "exact" /\ o.frame = Place(c, tx[c].policy)
        BY <1>2, <1>3, <2>3, <3>2 DEF Noted, OpOK
      <4> QED BY <1>2, <1>5, <3>2, <4>1
    <3>3. CASE ~(d = c /\ w = o.win /\ o.heard)
      <4>1. tx[d].result[w] = "exact"
        BY <1>2, <2>3, <3>3 DEF Noted
      <4>2. Moved(d, w) /\ frame'[w] = frame[w]
        BY <1>8, <2>3, <3>1, <3>3
      <4> QED BY <2>1, <2>3, <4>1, <4>2 DEF Tracked
    <3> QED BY <3>2, <3>3
  <2>4. ASSUME tx[d].stage # "writing", NEW w \in Windows, Moved(d, w)'
        PROVE  Moved(d, w) /\ frame'[w] = frame[w]
    BY <1>8, <2>4
  <2>5. ASSUME tx[d].stage = "persist" PROVE tx'[d].result = tx[d].result
    <3>1. d # c \/ ~o.heard
      BY <1>3, <2>5 DEF OpOK
    <3>2. d = c => tx'[d].result = tx[d].result
      <4> SUFFICES ASSUME d = c PROVE tx'[d].result = tx[d].result
        OBVIOUS
      <4>1. \A w \in DOMAIN tx[d].result : tx'[d].result[w] = tx[d].result[w]
        BY <1>2, <3>1 DEF Noted
      <4>2. /\ tx[d].result \in [DOMAIN tx[d].result -> Results]
            /\ tx'[d].result \in [DOMAIN tx'[d].result -> Results]
            /\ DOMAIN tx'[d].result = DOMAIN tx[d].result
        BY <1>2, <2>1, PartialIs DEF Ctx, Noted, Alike
      <4> QED BY <4>1, <4>2
    <3> QED BY <1>2, <3>2 DEF Noted
  <2>6. tx[d].targets \subseteq Windows
    BY <2>1 DEF Ctx
  <2>7. tx[d].stage = "persist" => \A w \in tx[d].targets :
              \/ frame'[w] = Place(d, tx[d].policy)
              \/ ~Moved(d, w)'
              \/ d \notin Retries /\ tx'[d].result[w] = "clamp"
    BY <2>1, <2>4, <2>5, <2>6 DEF Tracked
  <2>8. tx[d].stage = "refresh" =>
          /\ d \in Retries
          /\ \A w \in tx[d].targets \ tx[d].todo : Moved(d, w)' => tx[d].seen[w] = frame'[w]
    BY <2>1, <2>4, <2>6 DEF Tracked
  <2>9. tx[d].stage = "writing" /\ d \notin Retries => tx[d].targets \subseteq DOMAIN tx[d].result
    BY <2>1 DEF Tracked
  <2> QED BY <2>1, <2>2, <2>3, <2>7, <2>8, <2>9 DEF Tracked, Alike
<1>14. ASSUME NEW d \in Commands PROVE Restoring(d)'
  <2>1. Alike(d) /\ Restoring(d) /\ Tracked(d) /\ Unmarked(d)
    BY <1>9 DEF Traced, Placed
  <2>2. ASSUME tx[d].stage # "writing", NEW w \in Windows, Moved(d, w)'
        PROVE  Moved(d, w) /\ frame'[w] = frame[w] /\ frame[w][1] = d
    BY <1>8, <2>1, <2>2 DEF Tracked
  <2>3. ASSUME tx[d].stage = "restore", NEW w \in Windows, Moved(d, w)', w \in DOMAIN tx[d].result,
               tx'[d].result[w] = "exact"
        PROVE  FALSE
    <3>1. Moved(d, w) /\ frame'[w] = frame[w] /\ frame[w][1] = d
      BY <2>2, <2>3
    <3>2. tx[d].result[w] # "exact"
      BY <2>1, <2>3, <3>1 DEF Restoring
    <3>3. d = c /\ w = o.win /\ o.heard
      BY <1>2, <2>3, <3>2 DEF Noted
    <3>4. r = "exact" /\ o.frame = tx[c].taken[o.win].frame /\ o.win \in DOMAIN tx[c].taken
      BY <1>2, <1>3, <2>3, <3>3 DEF Noted, OpOK, InTransaction
    <3>5. o.frame[1] # c
      BY <2>1, <3>3, <3>4 DEF Unmarked
    <3> QED BY <1>2, <1>5, <3>1, <3>3, <3>4, <3>5
  <2>4. tx[d].stage = "restore" =>
          \A w \in Windows : Moved(d, w)' =>
             /\ w \in tx[d].todo \/ tx[d].incomplete
             /\ w \in DOMAIN tx[d].result => tx'[d].result[w] # "exact"
    BY <2>1, <2>2, <2>3 DEF Restoring
  <2>5. tx[d].stage = "forget" \/ (tx[d].stage \in Receipts /\ d \notin published) =>
          \A w \in Windows : Moved(d, w)' => health = "degraded"
    <3>1. "writing" \notin Receipts
      BY DEF Receipts
    <3> QED BY <2>1, <2>2, <3>1 DEF Restoring
  <2> QED BY <1>1, <2>1, <2>4, <2>5 DEF Restoring, Alike
<1>15. \A d \in Commands : Awaited(d)'
  BY <1>1, <1>2, StillAwaited DEF Heard
<1>16. \A d \in Commands : Learned(d)'
  BY <1>1, <1>9, LearnedAlike DEF memory
<1>17. \A p \in flight' : OpOK(p)'
  BY <1>1, <1>2, OthersOK
<1> QED BY <1>1, <1>10, <1>11, <1>12, <1>13, <1>14, <1>15, <1>16, <1>17 DEF Traced, Placed

\* The engine gives up on a write.
LEMMA CallFailsKeeps ==
    ASSUME CompoundAssumption, Inv, Traced, NEW o \in flight, CallFails(o)
    PROVE  Traced'
<1> DEFINE n == [o EXCEPT !.heard = FALSE]
<1>1. /\ o.heard /\ UNCHANGED <<frame, ident, mover, world, learning, stored, published, health, gate>>
      /\ flight' = (flight \ {o}) \cup {n}
  BY DEF CallFails, Abandon, desktop, memory
<1>2. /\ o \in WriteOps /\ o.by \in Commands /\ OpOK(o)
  BY DEF Traced, Typed, WriteOps
<1>3. /\ n \in WriteOps /\ n.by = o.by /\ n.win = o.win /\ n.ident = o.ident /\ n.frame = o.frame
      /\ ~n.heard
  BY <1>2 DEF WriteOps
<1>4. Noted(o, "refused") /\ "refused" \in Results \ {"none"}
  <2>1. "refused" \in Results
    BY DEF Results
  <2>2. tx' = IF o.heard THEN [tx EXCEPT ![o.by].result[o.win] = "refused"] ELSE tx
    BY <1>1 DEF CallFails
  <2> QED BY <2>1, <2>2, AnswerNoted
<1>5. \A d \in Commands : Alike(d)
  BY <1>4 DEF Noted
<1>6. \A p \in flight' : p \in flight \/ (p.by = o.by /\ p.frame = o.frame)
  BY <1>1, <1>3
<1>7. \A p \in flight : p # o => p \in flight'
  BY <1>1
<1>8. flight' \subseteq WriteOps
  BY <1>1, <1>3 DEF Traced, Typed
<1>9. \A p \in flight' : OpOK(p)'
  <2>1. ASSUME NEW p \in flight', p.by = o.by, p.win = o.win, p.ident = o.ident, ~p.heard
        PROVE  OpOK(p)'
    BY <1>2, <1>5, <2>1 DEF OpOK, Alike
  <2>2. \A p \in flight' : p \in flight \ {o} \/ (p.by = o.by /\ p.win = o.win /\ p.ident = o.ident
                                                  /\ ~p.heard)
    BY <1>1, <1>3
  <2> QED BY <1>4, <2>1, <2>2, OthersOK
<1> HIDE DEF n
<1>10. Typed'
  BY <1>1, <1>4, <1>8 DEF Traced, Typed, Noted
<1>11. ASSUME NEW d \in Commands PROVE Unmarked(d)'
  <2>1. ASSUME tx'[d].stage \in Early, Marked(d)' PROVE FALSE
    <3>1. ~Marked(d)
      BY <1>5, <2>1 DEF Alike, Traced, Placed, Unmarked
    <3>2. \A e \in Commands : tx'[e].taken = tx[e].taken /\ tx'[e].seen = tx[e].seen
                              /\ tx'[e].stage = tx[e].stage
      BY <1>5 DEF Alike
    <3>3. \A p \in flight' : p.by # d /\ p.frame[1] # d
      BY <1>6, <3>1 DEF Marked
    <3> QED BY <1>1, <2>1, <3>1, <3>2, <3>3 DEF Marked
  <2>2. \A w \in DOMAIN tx'[d].taken : tx'[d].taken[w].frame[1] # d
    BY <1>5 DEF Alike, Traced, Placed, Unmarked
  <2> QED BY <2>1, <2>2 DEF Unmarked
<1>12. ASSUME NEW d \in Commands PROVE Within(d)' /\ Learned(d)' /\ Awaited(d)'
  <2>1. Alike(d) /\ Within(d)
    BY <1>5 DEF Traced, Placed
  <2>2. Within(d)'
    BY <1>1, <2>1 DEF Within, Alike
  <2>3. Learned(d)'
    BY <1>1, <2>1, LearnedAlike DEF memory
  <2>4. Awaited(d)'
    BY <1>1, <1>4, <1>7, StillAwaited
  <2> QED BY <2>2, <2>3, <2>4
<1>13. ASSUME NEW d \in Commands PROVE Tracked(d)' /\ Restoring(d)'
  <2>1. Alike(d) /\ Tracked(d) /\ Restoring(d) /\ tx[d] \in Ctx
    BY <1>5 DEF Traced, Typed, Placed
  <2>2. \A w \in Windows : Moved(d, w)' = Moved(d, w)
    BY <1>1 DEF Moved
  <2>3. \A w \in DOMAIN tx[d].result :
            tx'[d].result[w] = tx[d].result[w] \/ tx'[d].result[w] = "refused"
    BY <1>4 DEF Noted
  <2>4. DOMAIN tx[d].result \subseteq Windows /\ tx[d].targets \subseteq Windows
    BY <2>1, PartialIs DEF Ctx
  <2>5. tx[d].stage = "persist" => tx'[d] = tx[d]
    BY <1>1, <1>2, <1>4 DEF OpOK, Noted
  <2>6. Tracked(d)'
    <3>1. \A w \in Windows : Moved(d, w)' => frame'[w][1] = d
      BY <1>1, <2>1, <2>2 DEF Tracked
    <3>2. tx[d].stage = "writing" =>
            /\ \A w \in DOMAIN tx[d].result :
                  tx'[d].result[w] = "exact" /\ Moved(d, w)' => frame'[w] = Place(d, tx[d].policy)
            /\ d \notin Retries => tx[d].targets \subseteq DOMAIN tx[d].result
      BY <1>1, <2>1, <2>2, <2>3, <2>4 DEF Tracked
    <3>3. tx[d].stage = "refresh" =>
            /\ d \in Retries
            /\ \A w \in tx[d].targets \ tx[d].todo : Moved(d, w)' => tx[d].seen[w] = frame'[w]
      BY <1>1, <2>1, <2>2, <2>4 DEF Tracked
    <3>4. tx[d].stage = "persist" => \A w \in tx[d].targets :
              \/ frame'[w] = Place(d, tx[d].policy)
              \/ ~Moved(d, w)'
              \/ d \notin Retries /\ tx'[d].result[w] = "clamp"
      BY <1>1, <2>1, <2>2, <2>4, <2>5 DEF Tracked
    <3> QED BY <2>1, <3>1, <3>2, <3>3, <3>4 DEF Tracked, Alike
  <2>7. Restoring(d)'
    BY <1>1, <2>1, <2>2, <2>3 DEF Restoring, Alike
  <2> QED BY <2>6, <2>7
<1> QED BY <1>1, <1>9, <1>10, <1>11, <1>12, <1>13 DEF Traced, Placed

\* What the user does to a window is none of the commands' doing.
LEMMA DisturbKeeps ==
    ASSUME CompoundAssumption, Traced, NEW w \in Windows, Disturb(w)
    PROVE  Traced'
<1>1. /\ UNCHANGED <<flight, world, learning, stored, published, health, gate, tx>>
      /\ frame' = [frame EXCEPT ![w] = Elsewhere] /\ mover' = [mover EXCEPT ![w] = <<NoOne, "user">>]
      /\ \E i \in Idents : ident' = [ident EXCEPT ![w] = i]
  BY DEF Disturb, memory
<1>2. /\ frame \in [Windows -> Frames] /\ ident \in [Windows -> Idents]
      /\ mover \in [Windows -> (Commands \cup {NoOne}) \X {"user", "plan", "late", "restore"}]
  BY DEF Traced, Typed
<1>3. Elsewhere \in Frames /\ Elsewhere[1] = NoOne /\ NoOne \notin Commands
      /\ <<NoOne, "user">> \in (Commands \cup {NoOne}) \X {"user", "plan", "late", "restore"}
  BY PlacesAreFrames, CompoundAssumption
<1>4. /\ frame'[w][1] = NoOne /\ mover'[w] = <<NoOne, "user">> /\ mover'[w][1] = NoOne
      /\ \A v \in Windows : v # w => frame'[v] = frame[v] /\ mover'[v] = mover[v] /\ ident'[v] = ident[v]
  BY <1>1, <1>2, <1>3
<1>5. Typed'
  BY <1>1, <1>2, <1>3 DEF Typed, Traced
<1>6. ASSUME NEW d \in Commands PROVE Placed(d)'
  <2>1. d # NoOne /\ Placed(d)
    BY <1>3 DEF Traced
  <2>2. \A v \in Windows : Moved(d, v)' => Moved(d, v) /\ frame'[v] = frame[v]
    BY <1>4, <2>1 DEF Moved
  <2>3. Unmarked(d)'
    BY <1>1, <1>4, <2>1 DEF Placed, Unmarked, Marked
  <2>4. Within(d)' /\ Learned(d)' /\ Awaited(d)'
    BY <1>1, <1>4, <2>1 DEF Placed, Within, Learned, Awaited, Heard
  <2>5. Tracked(d)' /\ Restoring(d)'
    <3>1. tx[d].targets \subseteq Windows /\ DOMAIN tx[d].result \subseteq Windows
      BY PartialIs DEF Traced, Typed, Ctx
    <3> QED BY <1>1, <2>1, <2>2, <3>1 DEF Placed, Tracked, Restoring
  <2> QED BY <2>3, <2>4, <2>5 DEF Placed
<1>7. \A o \in flight' : OpOK(o)'
  BY <1>1 DEF Traced, OpOK
<1> QED BY <1>1, <1>5, <1>6, <1>7 DEF Traced

\* Nothing that the argument is about, or only what is committed.
LEMMA WorldKeeps ==
    ASSUME Traced, UNCHANGED <<frame, ident, mover, flight, learning, stored, published, health, gate, tx>>,
           world' \in [members : SUBSET Windows, paused : BOOLEAN, done : SUBSET Commands]
    PROVE  Traced'
<1>1. Typed'
  BY DEF Traced, Typed
<1>2. \A d \in Commands : Placed(d)'
  BY DEF Traced, Placed, Unmarked, Marked, Within, Awaited, Heard, Tracked, Restoring, Moved, Learned
<1>3. \A o \in flight' : OpOK(o)'
  BY DEF Traced, OpOK
<1> QED BY <1>1, <1>2, <1>3 DEF Traced

LEMMA OthersKeep ==
    ASSUME Traced, Cycle \/ (\E p \in Switches : BeginSwitch(p) \/ EndSwitch(p)) \/ UNCHANGED vars
    PROVE  Traced'
<1>1. UNCHANGED <<frame, ident, mover, flight, learning, stored, published, health, gate, tx>>
  BY DEF Cycle, BeginSwitch, EndSwitch, vars, surroundings, desktop, memory
<1>2. world \in [members : SUBSET Windows, paused : BOOLEAN, done : SUBSET Commands]
  BY DEF Traced, Typed
<1>3. CASE Cycle
  <2>1. world' = [world EXCEPT !.members = Open] /\ Open \subseteq Windows
    BY <1>3 DEF Cycle, Open
  <2> QED BY <1>1, <1>2, <2>1, WorldKeeps
<1>4. ASSUME NEW p \in Switches, EndSwitch(p) PROVE Traced'
  <2>1. world' = [world EXCEPT !.paused = (flip[p] = "pause")]
    BY <1>4 DEF EndSwitch
  <2> QED BY <1>1, <1>2, <2>1, WorldKeeps
<1>5. CASE (\E p \in Switches : BeginSwitch(p)) \/ UNCHANGED vars
  <2>1. world' = world
    BY <1>5 DEF BeginSwitch, vars
  <2> QED BY <1>1, <1>2, <2>1, WorldKeeps
<1> QED BY <1>3, <1>4, <1>5

LEMMA TracedInit ==
    ASSUME CompoundAssumption, Init
    PROVE  Traced
<1>1. /\ Fresh("idle") \in Ctx /\ Fresh("idle").stage = "idle" /\ DOMAIN Fresh("idle").taken = {}
      /\ DOMAIN Fresh("idle").seen = {} /\ Fresh("idle").targets = {}
      /\ DOMAIN Fresh("idle").result = {} /\ Fresh("idle").todo = {}
  <2>1. DOMAIN <<>> = {}
    OBVIOUS
  <2> QED BY <2>1, FreshCtx DEF Stages
<1>2. /\ \A c \in Commands : tx[c] = Fresh("idle")
      /\ \A w \in Windows : frame[w] = Home /\ mover[w] = <<NoOne, "user">> /\ Home[1] = NoOne
      /\ flight = {} /\ learning = {} /\ stored = {} /\ published = {}
  BY PlacesAreFrames DEF Init
<1>3. Typed
  <2>1. <<NoOne, "user">> \in (Commands \cup {NoOne}) \X {"user", "plan", "late", "restore"}
    OBVIOUS
  <2>2. Home \in Frames /\ 1 \in Idents
    BY PlacesAreFrames DEF Idents
  <2>3. world \in [members : SUBSET Windows, paused : BOOLEAN, done : SUBSET Commands]
    BY CompoundAssumption DEF Init
  <2> QED BY <1>1, <2>1, <2>2, <2>3 DEF Init, Typed
<1>4. "idle" \notin InTransaction /\ "idle" \notin Receipts /\ "idle" \notin Interruptible
  BY DEF InTransaction, Interruptible, Receipts
<1>5. ASSUME NEW c \in Commands PROVE Placed(c)
  <2>1. c # NoOne /\ tx[c] = Fresh("idle")
    BY <1>2, CompoundAssumption
  <2>2. ~Marked(c)
    BY <1>1, <1>2, <2>1 DEF Marked
  <2>3. Unmarked(c) /\ Within(c)
    BY <1>1, <1>2, <1>4, <2>1, <2>2 DEF Unmarked, Within
  <2>4. Awaited(c) /\ Restoring(c) /\ Learned(c)
    BY <1>1, <1>4, <2>1 DEF Awaited, Restoring, Learned, Interruptible
  <2>5. Tracked(c)
    BY <1>1, <1>2, <2>1 DEF Tracked, Moved
  <2> QED BY <2>3, <2>4, <2>5 DEF Placed
<1> QED BY <1>2, <1>3, <1>5 DEF Traced

LEMMA TracedKept ==
    ASSUME CompoundAssumption, Inv, Traced, [Next]_vars
    PROVE  Traced'
<1>1. ASSUME NEW c \in Commands, Working(c) PROVE Traced'
  BY <1>1, ReadFailsKeeps, ReadWindowsKeeps, PlanKeeps, JudgeKeeps, PersistKeeps, RestoreWrittenKeeps,
     ForgetKeeps, CaptureKeeps, RefreshKeeps, RestoreReadKeeps DEF Working
<1>2. ASSUME NEW c \in Commands, Begin(c) \/ EnterGate(c) \/ EnterInVain(c) \/ Interrupt(c)
      PROVE  Traced'
  BY <1>2, BeginKeeps, EnterInVainKeeps, InterruptKeeps
<1>3. ASSUME NEW o \in flight, Land(o) \/ CallFails(o) PROVE Traced'
  BY <1>3, LandKeeps, CallFailsKeeps
<1>4. ASSUME NEW w \in Windows, Disturb(w) PROVE Traced'
  BY <1>4, DisturbKeeps
<1> QED BY <1>1, <1>2, <1>3, <1>4, OthersKeep DEF Next

-----------------------------------------------------------------------------
(* What follows.                                                           *)

\* Once a command has failed, no window is where its plan put it unless health says
\* so, and nothing it learned is left in memory alone.
THEOREM RollbackRestoresOrDegrades == Spec => []RestoredOrDegraded
<1>1. Init => Inv /\ Traced
  BY InitImplements, TracedInit, CompoundAssumption
<1>2. Inv /\ Traced /\ [Next]_vars => Inv' /\ Traced'
  BY StepImplements, TracedKept, CompoundAssumption DEF Implements
<1>3. Traced => RestoredOrDegraded
  BY DEF Traced, Placed, Restoring, Moved, RestoredOrDegraded
<1> QED BY <1>1, <1>2, <1>3, PTL DEF Spec

\* Neither the plan nor the rollback moves a window that it has not captured, or
\* one that took over the id of a captured window.
THEOREM OnlyCapturedWindowsMove == Spec => []MovesOnlyCaptured
<1>1. Init => Inv /\ Traced
  BY InitImplements, TracedInit, CompoundAssumption
<1>2. Inv /\ Traced /\ [Next]_vars => Inv' /\ Traced'
  BY StepImplements, TracedKept, CompoundAssumption DEF Implements
<1>3. Traced => MovesOnlyCaptured
  BY DEF Traced, Placed, Within, MovesOnlyCaptured
<1> QED BY <1>1, <1>2, <1>3, PTL DEF Spec

\* Who commits is the command whose turn it is.
LEMMA Committing ==
    ASSUME NEW c, NEW t, NEW learned,
           Commit(c, t) \/ Conclude(c, t, learned) \/ published' = published
    PROVE  published' \subseteq published \cup {c}
BY DEF Commit, Conclude

LEMMA JudgeCommits ==
    ASSUME CompoundAssumption, Inv, Traced, NEW c \in Commands, Judge(c), published' # published
    PROVE  Arrived(c, tx[c]) /\ published' \subseteq published \cup {c}
<1> DEFINE t == tx[c]
           With(r) == {w \in DOMAIN t.result : t.result[w] = r}
           learned == IF With("clamp") = {} THEN learning ELSE learning \cup {c}
<1>1. t.stage = "writing" /\ t \in Ctx
  BY DEF Judge, Traced, Typed
<1>2. /\ t.result \in [DOMAIN t.result -> Results] /\ t.targets \subseteq Windows
      /\ \A w \in DOMAIN t.result : t.result[w] # "none"
      /\ \A w \in DOMAIN t.result : t.result[w] = "exact" /\ Moved(c, w) => frame[w] = Place(c, t.policy)
      /\ c \notin Retries => t.targets \subseteq DOMAIN t.result
  <2>1. Heard(c) = {}
    BY DEF Judge
  <2> QED BY <1>1, <2>1, PartialIs DEF Traced, Placed, Awaited, Tracked, Ctx
<1>3. /\ With("stale") = {} /\ With("progressing") \cup With("refused") = {} /\ c \notin Retries
      /\ Conclude(c, t, learned)
  BY DEF Judge, Abort, Resulted, Bad, Unsettled, Lessons
<1> HIDE DEF learned
<1>4. \A w \in DOMAIN t.result : t.result[w] \in {"exact", "clamp"}
  BY <1>2, <1>3 DEF Results
<1>5. Arrived(c, t)
  BY <1>2, <1>3, <1>4 DEF Arrived
<1> QED BY <1>3, <1>5, Committing

LEMMA RefreshCommits ==
    ASSUME CompoundAssumption, Inv, Traced, NEW c \in Commands, NEW w \in Windows, Refresh(c, w),
           published' # published
    PROVE  Arrived(c, tx[c]) /\ published' \subseteq published \cup {c}
<1> DEFINE t == tx[c]
           seen == [t.seen EXCEPT ![w] = frame[w]]
           u == [t EXCEPT !.todo = @ \ {w}, !.seen[w] = frame[w]]
<1>1. t.stage = "refresh" /\ t \in Ctx /\ t.stage # "capture"
  BY DEF Refresh, Traced, Typed
<1>2. /\ t.targets \subseteq DOMAIN t.seen /\ t.targets \subseteq Windows
      /\ \A v \in t.targets \ t.todo : Moved(c, v) => t.seen[v] = frame[v]
  BY <1>1 DEF Traced, Placed, Within, Tracked, Ctx
<1>3. \A v \in DOMAIN t.seen : seen[v] = IF v = w THEN frame[w] ELSE t.seen[v]
  OBVIOUS
<1>4. u.seen = seen /\ u.todo = t.todo \ {w} /\ u.targets = t.targets /\ u.policy = t.policy
  <2>1. u = [t EXCEPT !.todo = t.todo \ {w}, !.seen = seen]
    OBVIOUS
  <2> HIDE DEF u, seen
  <2> QED BY <1>1, <2>1 DEF Ctx
<1>5. u.todo = {} /\ Decide(c, u)
  BY DEF Refresh, Abort
<1> HIDE DEF u, seen
<1>6. InPlace(c, u) /\ Conclude(c, u, learning)
  BY <1>5 DEF Decide, Abort
<1>7. \A v \in t.targets : Moved(c, v) => frame[v] = Place(c, t.policy)
  BY <1>2, <1>3, <1>4, <1>5, <1>6 DEF InPlace
<1>8. Arrived(c, t)
  BY <1>7 DEF Arrived
<1> QED BY <1>6, <1>8, Committing

LEMMA CommitsAsPlaced ==
    ASSUME CompoundAssumption, Inv, Traced, [Next]_vars, published' # published
    PROVE  \E c \in Commands : Arrived(c, tx[c]) /\ published' \subseteq published \cup {c}
<1>1. PICK c \in Commands : Plan(c) \/ Judge(c) \/ Persist(c) \/ \E w \in Windows : Refresh(c, w)
  <2>1. ASSUME NEW c \in Commands,
               Begin(c) \/ EnterGate(c) \/ EnterInVain(c) \/ Interrupt(c) \/ ReadFails(c)
               \/ ReadWindows(c) \/ BatchFails(c) \/ RestoreWritten(c) \/ Forget(c)
               \/ \E w \in Windows : Capture(c, w) \/ RestoreRead(c, w)
        PROVE  FALSE
    BY <2>1 DEF Begin, EnterGate, EnterInVain, Interrupt, ReadFails, ReadWindows, BatchFails,
                RestoreWritten, Forget, Capture, RestoreRead, Abort
  <2>2. ASSUME \/ \E o \in flight : Land(o) \/ CallFails(o)
               \/ \E w \in Windows : Disturb(w)
               \/ Cycle
               \/ \E p \in Switches : BeginSwitch(p) \/ EndSwitch(p)
               \/ UNCHANGED vars
        PROVE  FALSE
    BY <2>2 DEF Land, CallFails, Disturb, Cycle, BeginSwitch, EndSwitch, vars
  <2> QED BY <2>1, <2>2 DEF Next, Working
<1>2. CASE Plan(c)
  <2>1. tx[c].stage \in Early
    BY <1>2 DEF Plan, Early
  <2>2. tx[c].targets = {}
    BY <2>1 DEF Traced, Placed, Within
  <2>3. Conclude(c, Drafted(c), learning) \/ published' = published
    BY <1>2 DEF Plan, Abort
  <2> QED BY <2>2, <2>3, Committing DEF Arrived
<1>3. CASE Persist(c)
  <2>1. Arrived(c, tx[c])
    BY <1>3 DEF Persist, Traced, Placed, Tracked, Arrived
  <2>2. Commit(c, tx[c]) \/ published' = published
    BY <1>3 DEF Persist, Abort
  <2> QED BY <2>1, <2>2, Committing
<1> QED BY <1>1, <1>2, <1>3, JudgeCommits, RefreshCommits

\* A command commits only once each window that it has moved is where the chosen
\* policy wants it or, without other policies to try, where it stably stops short.
THEOREM CommitsWhatIsPlaced == Spec => CommittedAsPlaced
<1> DEFINE Step == \A c \in published' \ published : \A w \in tx[c].targets :
                      \/ frame[w] = Place(c, tx[c].policy)
                      \/ mover[w] # <<c, "plan">>
                      \/ c \notin Retries /\ tx[c].result[w] = "clamp"
<1>1. Init => Inv /\ Traced
  BY InitImplements, TracedInit, CompoundAssumption
<1>2. Inv /\ Traced /\ [Next]_vars => Inv' /\ Traced'
  BY StepImplements, TracedKept, CompoundAssumption DEF Implements
<1>3. Inv /\ Traced /\ [Next]_vars => [Step]_vars
  <2> SUFFICES ASSUME Inv, Traced, [Next]_vars,
                      NEW c \in published' \ published, NEW w \in tx[c].targets
               PROVE  \/ frame[w] = Place(c, tx[c].policy)
                      \/ mover[w] # <<c, "plan">>
                      \/ c \notin Retries /\ tx[c].result[w] = "clamp"
    OBVIOUS
  <2>1. PICK d \in Commands : Arrived(d, tx[d]) /\ published' \subseteq published \cup {d}
    BY CommitsAsPlaced, CompoundAssumption
  <2> QED BY <2>1 DEF Arrived, Moved
<1> QED BY <1>1, <1>2, <1>3, PTL DEF Spec, CommittedAsPlaced
=============================================================================
