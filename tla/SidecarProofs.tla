---------------------------- MODULE SidecarProofs ----------------------------
(***************************************************************************)
(* Proofs about SidecarHost for any set of requests and any number of      *)
(* changes: no answer reaches the wrong call, none is awaited from a       *)
(* sidecar that is known to be gone, and no change is missed.              *)
(*                                                                         *)
(* A request line is borne by the map of pending requests, by the pipe     *)
(* down, by what the sidecar is working on, or, as an answer, by the pipe  *)
(* up.  The argument is that an id names one request among all the lines   *)
(* borne anywhere: a step passes lines on and drops some, and a step that  *)
(* makes one takes an id above all of theirs.  A deadline drops a line     *)
(* from the map only, which is why the map alone does not carry the        *)
(* invariant.                                                              *)
(*                                                                         *)
(* The second part is about the sidecar's writes (GeometryWrites), for any *)
(* requests, batches, windows and applications: as long as the sidecar     *)
(* runs, the flag of an application is what it was or is owed by a write,  *)
(* a batch keeps its order and does all it can, and what is reported of a  *)
(* window is of that window, or of one that looks like it.                 *)
(*                                                                         *)
(* The third part is about the sidecar's inventory (Inventory), for any    *)
(* applications and windows: whoever hears the events has it, and a window *)
(* that held still is listed under its own number.                         *)
(***************************************************************************)
EXTENDS SidecarHost, GeometryWrites, Inventory, SequenceTheorems, FiniteSetTheorems, WellFoundedInduction, TLAPS

Elements(s) == {s[i] : i \in DOMAIN s}

Answers == {a \in Elements(stdout) : a.kind = "answer"}

Borne == pending \cup working \cup Elements(stdin) \cup {Line(a.id, a.req) : a \in Answers}

IdsNameRequests ==
    /\ \A l \in Borne : l.id \in Nat /\ l.id <= counter
    /\ \A l, m \in Borne : l.id = m.id => l.req = m.req

\* No call outlives the host: once it has stopped or heard of the sidecar's end
\* its map is empty and no call waits for an answer (failPendingAll and the
\* second look at `alive` in request).
NoneLeftBehind ==
    /\ ~alive => pending = {}
    /\ \A r \in Requests : call[r] = "sent" => \E l \in pending : l.req = r

IInv == TypeOK /\ IdsNameRequests /\ OwnAnswer /\ NoneLeftBehind

-----------------------------------------------------------------------------
LEMMA AppendElements ==
    ASSUME NEW S, NEW s \in Seq(S), NEW x
    PROVE  Elements(Append(s, x)) \subseteq Elements(s) \cup {x}
BY DEF Elements

LEMMA TailElements ==
    ASSUME NEW S, NEW s \in Seq(S), s # <<>>
    PROVE  /\ Elements(Tail(s)) \subseteq Elements(s)
           /\ Head(s) \in Elements(s)
           /\ Head(s) \in S
           /\ Tail(s) \in Seq(S)
BY DEF Elements

LEMMA NoElements == Elements(<<>>) = {}
BY DEF Elements

LEMMA EmptyLines == ASSUME NEW S PROVE <<>> \in Seq(S)
OBVIOUS

\* A step that bears no new line, or one with an id that is new, keeps ids apart.
LEMMA IdsKept ==
    ASSUME TypeOK, IdsNameRequests,
           \/ Borne' \subseteq Borne /\ counter' = counter
           \/ \E req \in Requests \cup {Subscribe} :
                 Borne' \subseteq Borne \cup {Line(counter + 1, req)} /\ counter' = counter + 1
    PROVE  IdsNameRequests'
<1>1. CASE Borne' \subseteq Borne /\ counter' = counter
  BY <1>1 DEF IdsNameRequests
<1>2. ASSUME NEW req \in Requests \cup {Subscribe},
             Borne' \subseteq Borne \cup {Line(counter + 1, req)}, counter' = counter + 1
      PROVE  IdsNameRequests'
  <2>1. counter \in Nat
    BY DEF TypeOK
  <2>2. Line(counter + 1, req).id = counter + 1 /\ Line(counter + 1, req).req = req
    BY DEF Line
  <2>3. ASSUME NEW l \in Borne' PROVE l.id \in Nat /\ l.id <= counter'
    BY <1>2, <2>1, <2>2, <2>3 DEF IdsNameRequests
  <2>4. ASSUME NEW l \in Borne', NEW m \in Borne', l.id = m.id PROVE l.req = m.req
    <3>1. ASSUME NEW k \in Borne PROVE k.id # counter + 1
      BY <2>1, <3>1 DEF IdsNameRequests
    <3> QED BY <1>2, <2>2, <2>4, <3>1 DEF IdsNameRequests
  <2> QED BY <2>3, <2>4 DEF IdsNameRequests
<1> QED BY <1>1, <1>2

-----------------------------------------------------------------------------
LEMMA InitIInv == Init => IInv
<1> SUFFICES ASSUME Init PROVE IInv
  OBVIOUS
<1>1. TypeOK
  BY EmptyLines DEF Init, TypeOK
<1>2. Borne = {}
  BY NoElements DEF Init, Borne, Answers
<1>3. OwnAnswer /\ NoneLeftBehind
  BY DEF Init, OwnAnswer, NoneLeftBehind
<1> QED BY <1>1, <1>2, <1>3 DEF IInv, IdsNameRequests

LEMMA CallStep ==
    ASSUME IInv, NEW r \in Requests, Call(r)
    PROVE  IInv'
<1> USE DEF IInv
<1>1. TypeOK'
  BY DEF Call, TypeOK, sidecarVars
<1>2. Borne' \subseteq Borne /\ counter' = counter
  BY DEF Call, Borne, Answers, sidecarVars
<1>3. OwnAnswer' /\ NoneLeftBehind'
  BY DEF Call, OwnAnswer, NoneLeftBehind, TypeOK
<1> QED BY <1>1, <1>2, <1>3, IdsKept

LEMMA SendStep ==
    ASSUME IInv, NEW r \in Requests, Send(r)
    PROVE  IInv'
<1> USE DEF IInv
<1>1. CASE alive
  <2> DEFINE line == Line(counter + 1, r)
  <2>1. line \in Asked /\ line.req = r
    BY DEF Line, Asked, TypeOK
  <2>2. /\ counter' = counter + 1 /\ pending' = pending \cup {line} /\ stdin' = Append(stdin, line)
        /\ call' = [call EXCEPT ![r] = "sent"]
    BY <1>1 DEF Send, NextId
  <2>3. UNCHANGED <<alive, ready, answer, events, process, subscribed, working, changes, stdout>>
    BY DEF Send, sidecarVars
  <2> HIDE DEF line
  <2>4. TypeOK'
    BY <2>1, <2>2, <2>3 DEF TypeOK
  <2>5. Elements(stdin') \subseteq Elements(stdin) \cup {line}
    BY <2>1, <2>2, AppendElements DEF TypeOK
  <2>6. Borne' \subseteq Borne \cup {line}
    BY <2>2, <2>3, <2>5 DEF Borne, Answers
  <2>7. IdsNameRequests'
    BY <2>2, <2>6, IdsKept DEF line
  <2>8. OwnAnswer'
    BY <2>3 DEF OwnAnswer
  <2>9. NoneLeftBehind'
    BY <1>1, <2>1, <2>2, <2>3 DEF NoneLeftBehind, TypeOK
  <2> QED BY <2>4, <2>7, <2>8, <2>9
<1>2. CASE ~alive
  <2>1. /\ call' = [call EXCEPT ![r] = "failed"]
        /\ UNCHANGED <<alive, ready, answer, events, counter, pending, process, subscribed, working, changes, stdin, stdout>>
    BY <1>2 DEF Send, sidecarVars
  <2>2. TypeOK'
    BY <2>1 DEF TypeOK
  <2>3. Borne' \subseteq Borne /\ counter' = counter
    BY <2>1 DEF Borne, Answers
  <2>4. OwnAnswer' /\ NoneLeftBehind'
    BY <2>1 DEF OwnAnswer, NoneLeftBehind, TypeOK
  <2> QED BY <2>2, <2>3, <2>4, IdsKept
<1> QED BY <1>1, <1>2

\* What completing some entries does to the calls and the map.
LEMMA SettleKeeps ==
    ASSUME IInv, NEW lines \in SUBSET pending, NEW outcome \in {"answered", "failed"}, Settle(lines, outcome)
    PROVE  /\ call' \in [Requests -> {"idle", "waiting", "sent", "answered", "failed"}]
           /\ pending' \subseteq pending
           /\ \A r \in Requests : call'[r] = "sent" => \E l \in pending' : l.req = r
<1>1. call' = [r \in Requests |-> IF \E l \in lines : l.req = r THEN outcome ELSE call[r]] /\ pending' = pending \ lines
  BY DEF Settle
<1>2. ASSUME NEW r \in Requests, call'[r] = "sent" PROVE \E l \in pending' : l.req = r
  <2>1. call[r] = "sent" /\ ~ \E l \in lines : l.req = r
    BY <1>1, <1>2
  <2>2. PICK l \in pending : l.req = r
    BY <2>1 DEF IInv, NoneLeftBehind
  <2> QED BY <1>1, <2>1, <2>2
<1> QED BY <1>1, <1>2 DEF IInv, TypeOK

LEMMA TimeoutStep ==
    ASSUME IInv, NEW line \in pending, Timeout(line)
    PROVE  IInv'
<1> USE DEF IInv
<1>1. UNCHANGED <<alive, ready, answer, counter, events, process, subscribed, working, changes, stdin, stdout>>
  BY DEF Timeout, sidecarVars
<1>2. Settle({line}, "failed")
  BY DEF Timeout
<1>3. /\ call' \in [Requests -> {"idle", "waiting", "sent", "answered", "failed"}]
      /\ pending' \subseteq pending
      /\ \A r \in Requests : call'[r] = "sent" => \E l \in pending' : l.req = r
  BY <1>2, SettleKeeps, {line} \subseteq pending
<1>4. TypeOK'
  BY <1>1, <1>3 DEF TypeOK
<1>5. Borne' \subseteq Borne /\ counter' = counter
  BY <1>1, <1>3 DEF Borne, Answers
<1>6. OwnAnswer' /\ NoneLeftBehind'
  BY <1>1, <1>3 DEF OwnAnswer, NoneLeftBehind
<1> QED BY <1>4, <1>5, <1>6, IdsKept

LEMMA HearReadyStep ==
    ASSUME IInv, HearReady
    PROVE  IInv'
<1> USE DEF IInv
<1> DEFINE line == Line(counter + 1, Subscribe)
<1>1. line \in Asked
  BY DEF Line, Asked, TypeOK
<1>2. /\ alive /\ counter' = counter + 1 /\ pending' = pending \cup {line} /\ stdin' = Append(stdin, line)
      /\ stdout # <<>> /\ stdout' = Tail(stdout) /\ ready' = TRUE
  BY DEF HearReady, NextId
<1>3. UNCHANGED <<alive, call, answer, events, process, subscribed, working, changes>>
  BY DEF HearReady, sidecarVars
<1> HIDE DEF line
<1>4. /\ Elements(stdout') \subseteq Elements(stdout) /\ stdout' \in Seq(Said)
  BY <1>2, TailElements DEF TypeOK
<1>5. TypeOK'
  BY <1>1, <1>2, <1>3, <1>4 DEF TypeOK
<1>6. Elements(stdin') \subseteq Elements(stdin) \cup {line}
  BY <1>1, <1>2, AppendElements DEF TypeOK
<1>7. Borne' \subseteq Borne \cup {line}
  BY <1>2, <1>3, <1>4, <1>6 DEF Borne, Answers
<1>8. IdsNameRequests'
  BY <1>2, <1>7, IdsKept DEF line
<1>9. OwnAnswer' /\ NoneLeftBehind'
  BY <1>2, <1>3 DEF OwnAnswer, NoneLeftBehind
<1> QED BY <1>5, <1>8, <1>9

LEMMA HearEventStep ==
    ASSUME IInv, HearEvent
    PROVE  IInv'
<1> USE DEF IInv
<1>1. UNCHANGED <<alive, ready, call, answer, counter, pending, process, subscribed, working, changes, stdin>>
  BY DEF HearEvent, sidecarVars
<1>2. Elements(stdout') \subseteq Elements(stdout) /\ stdout' \in Seq(Said)
  BY TailElements DEF HearEvent, TypeOK
<1>3. TypeOK'
  BY <1>1, <1>2 DEF TypeOK
<1>4. Borne' \subseteq Borne /\ counter' = counter
  BY <1>1, <1>2 DEF Borne, Answers
<1>5. OwnAnswer' /\ NoneLeftBehind'
  BY <1>1 DEF OwnAnswer, NoneLeftBehind
<1> QED BY <1>3, <1>4, <1>5, IdsKept

\* The answer to a call carries the request of the entry whose id it bears.
LEMMA HearAnswerStep ==
    ASSUME IInv, HearAnswer
    PROVE  IInv'
<1> USE DEF IInv
<1> DEFINE head == Head(stdout)
           entries == {l \in pending : l.id = head.id}
<1>1. /\ alive /\ stdout # <<>> /\ head.kind = "answer" /\ stdout' = Tail(stdout)
      /\ \E verdict \in Verdicts :
           /\ Settle(entries, verdict)
           /\ answer' = [r \in Requests |-> IF verdict = "answered" /\ \E l \in entries : l.req = r
                                            THEN head.req ELSE answer[r]]
  BY DEF HearAnswer
<1> PICK verdict \in {"answered", "failed"} :
      /\ Settle(entries, verdict)
      /\ answer' = [r \in Requests |-> IF verdict = "answered" /\ \E l \in entries : l.req = r
                                       THEN head.req ELSE answer[r]]
  BY <1>1 DEF Verdicts
<1>2. UNCHANGED <<alive, ready, counter, events, process, subscribed, working, changes, stdin>>
  BY DEF HearAnswer, sidecarVars
<1>3. /\ Elements(stdout') \subseteq Elements(stdout) /\ stdout' \in Seq(Said)
      /\ head \in Elements(stdout) /\ head \in Said
  BY <1>1, TailElements DEF TypeOK
<1>4. head.req \in Requests \cup {Subscribe}
  BY <1>1, <1>3 DEF Said, ReadyLine
<1>5. /\ call' \in [Requests -> {"idle", "waiting", "sent", "answered", "failed"}]
      /\ pending' \subseteq pending
      /\ \A r \in Requests : call'[r] = "sent" => \E l \in pending' : l.req = r
  BY <1>1, SettleKeeps, entries \subseteq pending
<1>6. TypeOK'
  BY <1>1, <1>2, <1>3, <1>4, <1>5 DEF TypeOK
<1>7. Borne' \subseteq Borne /\ counter' = counter
  BY <1>2, <1>3, <1>5 DEF Borne, Answers
<1>8. \A l \in entries : l.req = head.req
  <2>1. Line(head.id, head.req) \in Borne
    BY <1>1, <1>3 DEF Borne, Answers
  <2>2. entries \subseteq Borne
    BY DEF Borne
  <2>3. Line(head.id, head.req).id = head.id /\ Line(head.id, head.req).req = head.req
    BY DEF Line
  <2> HIDE DEF head
  <2> QED BY <2>1, <2>2, <2>3 DEF IdsNameRequests
<1>9. OwnAnswer'
  <2> SUFFICES ASSUME NEW r \in Requests PROVE answer'[r] \in {None, r}
    BY DEF OwnAnswer
  <2>1. CASE verdict = "answered" /\ \E l \in entries : l.req = r
    BY <1>8, <2>1
  <2>2. CASE ~ (verdict = "answered" /\ \E l \in entries : l.req = r)
    BY <2>2 DEF OwnAnswer
  <2> QED BY <2>1, <2>2
<1>10. NoneLeftBehind'
  BY <1>1, <1>2, <1>5 DEF NoneLeftBehind
<1> QED BY <1>6, <1>7, <1>9, <1>10, IdsKept

LEMMA EndKeeps ==
    ASSUME IInv, End, UNCHANGED <<ready, answer, counter, subscribed, working, changes, stdin>>,
           process' \in {"starting", "running", "gone"}
    PROVE  IInv'
<1> USE DEF IInv
<1>1. alive' = FALSE /\ stdout' = <<>> /\ Settle(pending, "failed")
  BY DEF End
<1>2. pending' = {}
  BY <1>1 DEF Settle
<1>3. /\ call' \in [Requests -> {"idle", "waiting", "sent", "answered", "failed"}]
      /\ \A r \in Requests : call'[r] = "sent" => \E l \in pending' : l.req = r
  BY <1>1, SettleKeeps, pending \subseteq pending
<1>4. TypeOK'
  BY <1>1, <1>2, <1>3, EmptyLines DEF TypeOK
<1>5. Borne' \subseteq Borne /\ counter' = counter
  BY <1>1, <1>2, NoElements DEF Borne, Answers
<1>6. OwnAnswer' /\ NoneLeftBehind'
  BY <1>2, <1>3 DEF OwnAnswer, NoneLeftBehind
<1> QED BY <1>4, <1>5, <1>6, IdsKept
LEMMA HearExitStep ==
    ASSUME IInv, HearExit
    PROVE  IInv'
BY EndKeeps DEF HearExit, sidecarVars, IInv, TypeOK

LEMMA StopStep ==
    ASSUME IInv, Stop
    PROVE  IInv'
BY EndKeeps DEF Stop

-----------------------------------------------------------------------------
\* The sidecar touches neither the calls nor the map.
LEMMA HostUnchanged ==
    ASSUME IInv, UNCHANGED hostVars
    PROVE  OwnAnswer' /\ NoneLeftBehind' /\ counter' = counter /\ pending' = pending
BY DEF IInv, OwnAnswer, NoneLeftBehind, hostVars

LEMMA StartStep ==
    ASSUME IInv, Start
    PROVE  IInv'
<1> USE DEF IInv
<1>1. OwnAnswer' /\ NoneLeftBehind' /\ counter' = counter /\ pending' = pending
  BY HostUnchanged DEF Start
<1>2. stdout' = Append(stdout, ReadyLine) /\ UNCHANGED <<working, stdin>>
  BY DEF Start
<1>3. ReadyLine \in Said
  BY DEF Said
<1>4. TypeOK'
  BY <1>2, <1>3 DEF Start, TypeOK, hostVars
<1>5. Elements(stdout') \subseteq Elements(stdout) \cup {ReadyLine}
  BY <1>2, AppendElements DEF TypeOK
<1>6. Borne' \subseteq Borne
  BY <1>1, <1>2, <1>5 DEF Borne, Answers, ReadyLine
<1> QED BY <1>1, <1>4, <1>6, IdsKept

\* An answer line bears the line that was carried out.
LEMMA AnswerLineBears ==
    ASSUME TypeOK, NEW line \in Asked
    PROVE  /\ AnswerLine(line) \in Said
           /\ Line(AnswerLine(line).id, AnswerLine(line).req) = line
BY DEF AnswerLine, Said, Asked, Line, TypeOK

LEMMA TakeStep ==
    ASSUME IInv, Take
    PROVE  IInv'
<1> USE DEF IInv
<1> DEFINE head == Head(stdin)
<1>1. OwnAnswer' /\ NoneLeftBehind' /\ counter' = counter /\ pending' = pending
  BY HostUnchanged DEF Take
<1>2. /\ Elements(stdin') \subseteq Elements(stdin) /\ stdin' \in Seq(Asked)
      /\ head \in Elements(stdin) /\ head \in Asked
  BY TailElements DEF Take, TypeOK
<1>3. AnswerLine(head) \in Said /\ Line(AnswerLine(head).id, AnswerLine(head).req) = head
  BY <1>2, AnswerLineBears
<1>4. UNCHANGED <<hostVars, process, changes>>
  BY DEF Take
<1>5. \/ subscribed' = TRUE /\ stdout' = Append(stdout, AnswerLine(head)) /\ working' = working
      \/ working' = working \cup {head} /\ subscribed' = subscribed /\ stdout' = stdout
  BY DEF Take
<1> HIDE DEF head
<1>6. TypeOK'
  <2>1. stdout' \in Seq(Said)
    BY SMTT(40), <1>3, <1>5 DEF TypeOK
  <2>2. working' \subseteq Asked
    BY <1>2, <1>5 DEF TypeOK
  <2>3. subscribed' \in BOOLEAN
    BY <1>5 DEF TypeOK
  <2> QED BY <1>2, <1>4, <2>1, <2>2, <2>3 DEF TypeOK, hostVars
<1>7. Elements(stdout') \subseteq Elements(stdout) \cup {AnswerLine(head)}
  BY <1>5, AppendElements DEF TypeOK
<1>8. Borne' \subseteq Borne
  BY <1>1, <1>2, <1>3, <1>5, <1>7 DEF Borne, Answers
<1> QED BY <1>1, <1>6, <1>8, IdsKept

LEMMA AnswerStep ==
    ASSUME IInv, NEW line \in working, Answer(line)
    PROVE  IInv'
<1> USE DEF IInv
<1>1. OwnAnswer' /\ NoneLeftBehind' /\ counter' = counter /\ pending' = pending
  BY HostUnchanged DEF Answer
<1>2. AnswerLine(line) \in Said /\ Line(AnswerLine(line).id, AnswerLine(line).req) = line
  BY AnswerLineBears DEF TypeOK
<1>3. /\ working' = working \ {line} /\ stdout' = Append(stdout, AnswerLine(line))
      /\ UNCHANGED <<hostVars, process, subscribed, changes, stdin>>
  BY DEF Answer
<1>4. TypeOK'
  BY <1>2, <1>3 DEF TypeOK, hostVars
<1>5. Elements(stdout') \subseteq Elements(stdout) \cup {AnswerLine(line)}
  BY <1>3, AppendElements DEF TypeOK
<1>6. Borne' \subseteq Borne
  BY <1>1, <1>2, <1>3, <1>5 DEF Borne, Answers
<1> QED BY <1>1, <1>4, <1>6, IdsKept

LEMMA ChangeStep ==
    ASSUME IInv, Change
    PROVE  IInv'
<1> USE DEF IInv
<1> DEFINE line == EventLine(changes + 1)
<1>1. OwnAnswer' /\ NoneLeftBehind' /\ counter' = counter /\ pending' = pending
  BY HostUnchanged DEF Change
<1>2. line \in Said /\ line.kind = "event"
  BY DEF EventLine, Said, TypeOK
<1>3. /\ changes' = changes + 1 /\ (stdout' = Append(stdout, line) \/ stdout' = stdout)
      /\ UNCHANGED <<hostVars, process, subscribed, working, stdin>>
  BY DEF Change
<1> HIDE DEF line
<1>4. TypeOK'
  BY <1>2, <1>3 DEF TypeOK, hostVars
<1>5. Elements(stdout') \subseteq Elements(stdout) \cup {line}
  BY <1>3, AppendElements DEF TypeOK
<1>6. Borne' \subseteq Borne
  BY <1>1, <1>2, <1>3, <1>5 DEF Borne, Answers
<1> QED BY <1>1, <1>4, <1>6, IdsKept

LEMMA ExitStep ==
    ASSUME IInv, Exit
    PROVE  IInv'
<1> USE DEF IInv
<1>1. OwnAnswer' /\ NoneLeftBehind' /\ counter' = counter /\ pending' = pending
  BY HostUnchanged DEF Exit
<1>2. TypeOK'
  BY DEF Exit, TypeOK, hostVars
<1>3. Borne' \subseteq Borne
  BY DEF Exit, Borne, Answers, hostVars
<1> QED BY <1>1, <1>2, <1>3, IdsKept

-----------------------------------------------------------------------------
LEMMA NextIInv ==
    ASSUME IInv, [Next]_vars
    PROVE  IInv'
<1>1. CASE Next
  BY <1>1, CallStep, SendStep, TimeoutStep, AnswerStep, HearReadyStep, HearEventStep, HearAnswerStep,
     HearExitStep, StopStep, StartStep, TakeStep, ChangeStep, ExitStep DEF Next
<1>2. CASE UNCHANGED vars
  BY <1>2 DEF vars, hostVars, sidecarVars, IInv, TypeOK, IdsNameRequests, Borne, Answers, OwnAnswer,
     NoneLeftBehind
<1> QED BY <1>1, <1>2

LEMMA SpecIInv == Spec => []IInv
<1>1. Init => IInv
  BY InitIInv
<1>2. IInv /\ [Next]_vars => IInv'
  BY NextIInv
<1> QED BY <1>1, <1>2, PTL DEF Spec

\* Every call that is answered is answered with the answer to its own request
\* (reqCounter and the map of pending requests), for any set of calls.
THEOREM AnswersAreOwn == Spec => []OwnAnswer
<1>1. IInv => OwnAnswer
  BY DEF IInv
<1> QED BY <1>1, SpecIInv, PTL

\* From the end of the host or of the sidecar on, no call waits for an answer
\* that cannot come (failPendingAll, and request's second look at `alive`).
THEOREM NoCallLeftBehind == Spec => []NoneLeftBehind
<1>1. IInv => NoneLeftBehind
  BY DEF IInv
<1> QED BY <1>1, SpecIInv, PTL

-----------------------------------------------------------------------------
(***************************************************************************)
(* What the engine is told.                                                *)
(***************************************************************************)

\* Nothing beyond the newest change is told, and while the host lives the newest is, if
\* any is.
UpToDate ==
    /\ events \in Seq(Nat)
    /\ \A n \in Told : n \in Nat /\ n <= changes
    /\ alive /\ Told # {} => changes \in Told

\* What an answer does not tell, events do.
Complete ==
    \A i \in DOMAIN stdout :
        alive /\ stdout[i].kind = "answer" => (stdout[i].seen + 1)..changes \subseteq Told

\* Before the sidecar is subscribed it has answered nothing and works on nothing, and
\* the first request it will read is the subscription, if any can have been sent.
SubscribesFirst ==
    ~subscribed =>
        /\ Told = {} /\ working = {}
        /\ \A i \in DOMAIN stdout : stdout[i].kind # "answer"
        /\ ready => stdin # <<>>
        /\ stdin # <<>> => Head(stdin).req = Subscribe

\* A host that has ended hears nothing, and its sidecar has ended too.
EndIsEnd == ~alive => process = "gone" /\ stdout = <<>>

Following == InOrder /\ UpToDate /\ Complete /\ SubscribesFirst /\ EndIsEnd

\* The events among the lines that come up, after a line is added or one is heard.
LEMMA AddedLine ==
    ASSUME TypeOK, NEW line \in Said, stdout' = Append(stdout, line)
    PROVE  /\ DOMAIN stdout' = DOMAIN stdout \cup {Len(stdout) + 1}
           /\ \A i \in DOMAIN stdout : i < Len(stdout) + 1 /\ stdout'[i] = stdout[i]
           /\ stdout'[Len(stdout) + 1] = line /\ Len(stdout) + 1 \notin DOMAIN stdout
           /\ Events' = IF line.kind = "event" THEN Events \cup {Len(stdout) + 1} ELSE Events
<1>1. stdout \in Seq(Said) /\ Len(stdout) \in Nat
  BY DEF TypeOK
<1>2. DOMAIN stdout = 1..Len(stdout) /\ DOMAIN stdout' = 1..(Len(stdout) + 1)
  BY <1>1, AppendProperties, LenProperties
<1>3. DOMAIN stdout' = DOMAIN stdout \cup {Len(stdout) + 1} /\ Len(stdout) + 1 \notin DOMAIN stdout
  BY <1>1, <1>2
<1>4. /\ \A i \in DOMAIN stdout : i < Len(stdout) + 1 /\ stdout'[i] = stdout[i]
      /\ stdout'[Len(stdout) + 1] = line
  BY <1>1, <1>2, AppendProperties
<1>5. Events' = {i \in DOMAIN stdout' : stdout'[i].kind = "event"}
  BY DEF Events
<1> QED BY <1>3, <1>4, <1>5 DEF Events

LEMMA HeardLine ==
    ASSUME TypeOK, stdout # <<>>, stdout' = Tail(stdout)
    PROVE  /\ DOMAIN stdout \subseteq Nat /\ 1 \in DOMAIN stdout /\ stdout[1] = Head(stdout)
           /\ \A i \in DOMAIN stdout' : i \in Nat /\ i > 0 /\ i + 1 \in DOMAIN stdout /\ stdout'[i] = stdout[i + 1]
           /\ \A i \in DOMAIN stdout : i # 1 => i - 1 \in DOMAIN stdout' /\ stdout'[i - 1] = stdout[i]
<1>1. stdout \in Seq(Said) /\ Len(stdout) \in Nat \ {0}
  BY EmptySeq DEF TypeOK
<1>2. /\ DOMAIN stdout = 1..Len(stdout) /\ DOMAIN stdout' = 1..(Len(stdout) - 1)
      /\ \A i \in 1..(Len(stdout) - 1) : stdout'[i] = stdout[i + 1]
  BY <1>1, HeadTailProperties, LenProperties
<1>3. stdout[1] = Head(stdout)
  BY <1>1
<1> QED BY <1>1, <1>2, <1>3

\* A line of another kind changes nothing in what is told.
LEMMA AddedOther ==
    ASSUME TypeOK, InOrder, NEW line \in Said, line.kind # "event",
           stdout' = Append(stdout, line), events' = events
    PROVE  Told' = Told /\ InOrder'
<1>1. Events' = Events /\ \A i \in Events : stdout'[i] = stdout[i]
  BY AddedLine DEF Events
<1>2. Told' = Told
  BY <1>1 DEF Told
<1> QED BY <1>1, <1>2 DEF InOrder

LEMMA HeardOther ==
    ASSUME TypeOK, InOrder, stdout # <<>>, Head(stdout).kind # "event",
           stdout' = Tail(stdout), events' = events
    PROVE  Told' = Told /\ InOrder'
<1>1. \A i \in Events' : i \in Nat /\ i + 1 \in Events /\ stdout'[i] = stdout[i + 1]
  BY HeardLine DEF Events
<1>2. \A i \in Events : i - 1 \in Events' /\ stdout'[i - 1] = stdout[i]
  BY HeardLine DEF Events
<1>3. Told' = Told
  <2>1. Told' = {events[i] : i \in DOMAIN events} \cup {stdout'[i].seen : i \in Events'}
    BY DEF Told
  <2>2. \A i \in Events' : \E j \in Events : stdout'[i].seen = stdout[j].seen
    BY <1>1
  <2>3. \A j \in Events : \E i \in Events' : stdout'[i].seen = stdout[j].seen
    BY <1>2
  <2>4. {stdout'[i].seen : i \in Events'} = {stdout[i].seen : i \in Events}
    <3>1. \A n \in {stdout'[i].seen : i \in Events'} : n \in {stdout[i].seen : i \in Events}
      BY <2>2
    <3>2. \A n \in {stdout[i].seen : i \in Events} : n \in {stdout'[i].seen : i \in Events'}
      BY <2>3
    <3> QED BY <3>1, <3>2
  <2> QED BY <2>1, <2>4 DEF Told
<1>4. \A i, j \in Events' : i < j => stdout'[i].seen < stdout'[j].seen
  <2>1. ASSUME NEW i \in Events', NEW j \in Events', i < j PROVE stdout'[i].seen < stdout'[j].seen
    <3>1. i \in Nat /\ j \in Nat /\ i + 1 < j + 1 /\ i + 1 \in Events /\ j + 1 \in Events
      BY <1>1, <2>1
    <3>2. stdout[i + 1].seen < stdout[j + 1].seen
      BY <3>1 DEF InOrder
    <3> QED BY <1>1, <3>2
  <2> QED BY <2>1
<1>5. \A i \in DOMAIN events, j \in Events' : events[i] < stdout'[j].seen
  BY <1>1 DEF InOrder
<1> QED BY <1>3, <1>4, <1>5 DEF InOrder

LEMMA AddedEvent ==
    ASSUME TypeOK, InOrder, UpToDate, alive,
           stdout' = Append(stdout, EventLine(changes + 1)), events' = events
    PROVE  Told' = Told \cup {changes + 1} /\ InOrder'
<1> DEFINE last == Len(stdout) + 1
           line == EventLine(changes + 1)
<1>1. line \in Said /\ line.kind = "event" /\ line.seen = changes + 1 /\ changes \in Nat
  BY DEF EventLine, Said, TypeOK
<1>2. /\ Events' = Events \cup {last} /\ stdout'[last] = line
      /\ \A i \in Events : i < last /\ stdout'[i] = stdout[i] /\ i # last
      /\ last \in Nat
  BY <1>1, AddedLine DEF Events, TypeOK
<1> HIDE DEF last, line
<1>3. Told' = Told \cup {changes + 1}
  <2>1. Told' = {events[i] : i \in DOMAIN events} \cup {stdout'[i].seen : i \in Events'}
    BY DEF Told
  <2>2. {stdout'[i].seen : i \in Events'} = {stdout[i].seen : i \in Events} \cup {changes + 1}
    BY <1>1, <1>2
  <2> QED BY <2>1, <2>2 DEF Told
<1>4. \A n \in Told : n \in Nat /\ n < changes + 1
  BY <1>1 DEF UpToDate
<1>5. \A i \in DOMAIN events, j \in Events' : events[i] < stdout'[j].seen
  <2>1. \A i \in DOMAIN events : events[i] < changes + 1
    BY <1>4 DEF Told
  <2> QED BY <1>1, <1>2, <2>1 DEF InOrder
<1>6. \A i, j \in Events' : i < j => stdout'[i].seen < stdout'[j].seen
  <2>1. \A i \in Events : stdout[i].seen < changes + 1
    BY <1>4 DEF Told
  <2>2. \A i \in Events : i \in Nat
    BY DEF Events, TypeOK
  <2>3. ASSUME NEW i \in Events', NEW j \in Events', i < j PROVE stdout'[i].seen < stdout'[j].seen
    <3>1. i # last
      <4>1. j \in Nat /\ j <= last
        BY <1>2, <2>2
      <4> QED BY <1>2, <2>3, <4>1
    <3>2. CASE i \in Events /\ j = last
      BY <1>1, <1>2, <2>1, <3>2
    <3>3. CASE i \in Events /\ j \in Events
      BY <1>2, <2>3, <3>3 DEF InOrder
    <3> QED BY <1>2, <3>1, <3>2, <3>3
  <2> QED BY <2>3
<1>7. ASSUME NEW m \in Told', NEW n \in Told' PROVE m..n \subseteq Told'
  <2>1. CASE m = changes + 1
    BY <1>1, <1>3, <1>4, <2>1
  <2>2. CASE m \in Told /\ n = changes + 1
    <3>1. changes \in Told
      BY <2>2 DEF UpToDate
    <3>2. m..changes \subseteq Told
      BY <2>2, <3>1 DEF InOrder
    <3> QED BY <1>1, <1>3, <1>4, <2>2, <3>2
  <2>3. CASE m \in Told /\ n \in Told
    BY <1>3, <2>3 DEF InOrder
  <2> QED BY <1>3, <2>1, <2>2, <2>3
<1> QED BY <1>3, <1>5, <1>6, <1>7 DEF InOrder

LEMMA HeardEvent ==
    ASSUME TypeOK, InOrder, UpToDate, stdout # <<>>, Head(stdout).kind = "event",
           stdout' = Tail(stdout), events' = Append(events, Head(stdout).seen)
    PROVE  Told' = Told /\ InOrder' /\ events' \in Seq(Nat)
<1> DEFINE seen == Head(stdout).seen
           last == Len(events) + 1
<1>1. 1 \in Events /\ stdout[1].seen = seen
  BY HeardLine DEF Events
<1>2. seen \in Told /\ seen \in Nat
  BY <1>1 DEF Told, UpToDate
<1>3. /\ events \in Seq(Nat) /\ Len(events) \in Nat /\ events' \in Seq(Nat)
      /\ DOMAIN events = 1..Len(events) /\ DOMAIN events' = 1..last
      /\ \A i \in DOMAIN events : events'[i] = events[i]
      /\ events'[last] = seen
  BY <1>2, AppendProperties, LenProperties DEF UpToDate
<1>4. \A i \in Events' : i \in Nat /\ i > 0 /\ i + 1 \in Events /\ stdout'[i] = stdout[i + 1]
  BY HeardLine DEF Events
<1>5. \A i \in Events : i # 1 => i - 1 \in Events' /\ stdout'[i - 1] = stdout[i]
  BY HeardLine DEF Events
<1> HIDE DEF seen, last
<1>6. DOMAIN events' = DOMAIN events \cup {last} /\ last \in Nat
  BY <1>3 DEF last
<1>7. Told' = Told
  <2>1. Told' = {events'[i] : i \in DOMAIN events'} \cup {stdout'[i].seen : i \in Events'}
    BY DEF Told
  <2>2. {events'[i] : i \in DOMAIN events'} = {events[i] : i \in DOMAIN events} \cup {seen}
    BY <1>3, <1>6
  <2>3. {stdout'[i].seen : i \in Events'} \cup {seen} = {stdout[i].seen : i \in Events}
    <3>1. \A i \in Events' : \E j \in Events : stdout'[i].seen = stdout[j].seen
      BY <1>4
    <3>2. \A j \in Events : stdout[j].seen = seen \/ \E i \in Events' : stdout'[i].seen = stdout[j].seen
      BY <1>1, <1>5
    <3>3. \A n \in {stdout'[i].seen : i \in Events'} \cup {seen} : n \in {stdout[i].seen : i \in Events}
      <4>1. \A n \in {stdout'[i].seen : i \in Events'} : n \in {stdout[i].seen : i \in Events}
        BY <3>1
      <4>2. \E i \in Events : stdout[i].seen = seen
        BY <1>1
      <4> QED BY <4>1, <4>2
    <3>4. \A n \in {stdout[i].seen : i \in Events} : n \in {stdout'[i].seen : i \in Events'} \cup {seen}
      BY <3>2
    <3> QED BY <3>3, <3>4
  <2> QED BY <2>1, <2>2, <2>3 DEF Told
<1>8. \A i, j \in DOMAIN events' : i < j => events'[i] < events'[j]
  <2>1. \A i \in DOMAIN events : events[i] < seen
    BY <1>1 DEF InOrder
  <2> QED BY <1>3, <2>1 DEF InOrder, last
<1>9. \A i \in DOMAIN events', j \in Events' : events'[i] < stdout'[j].seen
  <2>1. ASSUME NEW j \in Events' PROVE seen < stdout'[j].seen
    <3>1. 1 < j + 1 /\ j + 1 \in Events
      BY <1>4
    <3>2. stdout[1].seen < stdout[j + 1].seen
      BY <1>1, <3>1 DEF InOrder
    <3> QED BY <1>1, <1>4, <3>2
  <2> QED BY <1>3, <1>4, <1>6, <2>1 DEF InOrder
<1>10. \A i, j \in Events' : i < j => stdout'[i].seen < stdout'[j].seen
  <2>1. ASSUME NEW i \in Events', NEW j \in Events', i < j PROVE stdout'[i].seen < stdout'[j].seen
    <3>1. i \in Nat /\ j \in Nat /\ i + 1 < j + 1 /\ i + 1 \in Events /\ j + 1 \in Events
      BY <1>4, <2>1
    <3>2. stdout[i + 1].seen < stdout[j + 1].seen
      BY <3>1 DEF InOrder
    <3> QED BY <1>4, <3>2
  <2> QED BY <2>1
<1> QED BY <1>3, <1>7, <1>8, <1>9, <1>10 DEF InOrder

LEMMA Silenced ==
    ASSUME TypeOK, InOrder, UpToDate, stdout' = <<>>, events' = events
    PROVE  Told' \subseteq Told /\ InOrder'
<1>1. Events' = {}
  BY DEF Events
<1>2. Told' = {events[i] : i \in DOMAIN events}
  BY <1>1 DEF Told
<1>3. ASSUME NEW m \in Told', NEW n \in Told', NEW k \in m..n PROVE k \in Told'
  <2>1. k \in Told
    BY <1>2, <1>3 DEF InOrder, Told
  <2>2. \A i \in Events : k # stdout[i].seen
    <3> SUFFICES ASSUME NEW i \in Events, k = stdout[i].seen PROVE FALSE
      OBVIOUS
    <3>1. n < k
      BY <1>2 DEF InOrder
    <3>2. m \in Told /\ n \in Told
      BY <1>2 DEF Told
    <3>3. m \in Nat /\ n \in Nat /\ k \in Nat
      BY <2>1, <3>2 DEF UpToDate
    <3>4. k <= n
      BY <1>3, <3>3
    <3> QED BY <3>1, <3>3, <3>4
  <2> QED BY <1>2, <2>1, <2>2 DEF Told
<1> QED BY <1>1, <1>2, <1>3 DEF InOrder, Told

-----------------------------------------------------------------------------
\* The parts of Following that depend on little else.
LEMMA CompleteKept ==
    ASSUME Complete, Told \subseteq Told', changes' = changes, alive' => alive,
           \A i \in DOMAIN stdout' :
               stdout'[i].kind = "answer" =>
                   \/ stdout'[i].seen = changes /\ changes \in Nat
                   \/ \E j \in DOMAIN stdout : stdout'[i] = stdout[j]
    PROVE  Complete'
<1> SUFFICES ASSUME NEW i \in DOMAIN stdout', alive', stdout'[i].kind = "answer"
             PROVE  (stdout'[i].seen + 1)..changes \subseteq Told'
  BY DEF Complete
<1>1. CASE stdout'[i].seen = changes /\ changes \in Nat
  BY <1>1
<1>2. ASSUME NEW j \in DOMAIN stdout, stdout'[i] = stdout[j]
      PROVE  (stdout'[i].seen + 1)..changes \subseteq Told'
  BY <1>2 DEF Complete
<1> QED BY <1>1, <1>2

\* Steps that neither hear a line nor say one.
LEMMA QuietStep ==
    ASSUME IInv, Following, UNCHANGED <<stdout, events, changes, alive, process, subscribed, ready>>,
           \/ UNCHANGED <<working, stdin>>
           \/ ready /\ working' = working /\ \E l : stdin' = Append(stdin, l)
           \/ subscribed
    PROVE  Following'
<1>1. Told' = Told /\ Events' = Events
  BY DEF Told, Events
<1>2. InOrder' /\ UpToDate' /\ Complete' /\ EndIsEnd'
  BY <1>1 DEF Following, InOrder, UpToDate, Complete, EndIsEnd
<1>3. SubscribesFirst'
  <2>1. CASE UNCHANGED <<working, stdin>>
    BY <1>1, <2>1 DEF Following, SubscribesFirst
  <2>2. ASSUME ready, ~subscribed, working' = working, NEW l, stdin' = Append(stdin, l)
        PROVE  SubscribesFirst'
    <3>1. stdin \in Seq(Asked) /\ stdin # <<>> /\ Head(stdin).req = Subscribe
      BY <2>2 DEF IInv, TypeOK, Following, SubscribesFirst
    <3>2. stdin' # <<>> /\ Head(stdin') = Head(stdin)
      BY <2>2, <3>1
    <3> QED BY <1>1, <2>2, <3>1, <3>2 DEF Following, SubscribesFirst
  <2> QED BY <2>1, <2>2 DEF SubscribesFirst
<1> QED BY <1>2, <1>3 DEF Following

LEMMA HostFollows ==
    ASSUME IInv, Following,
           \/ \E r \in Requests : Call(r) \/ Send(r)
           \/ \E line \in pending : Timeout(line)
    PROVE  Following'
<1>1. UNCHANGED <<stdout, events, changes, alive, process, subscribed, ready, working>>
  BY DEF Call, Send, Timeout, sidecarVars
<1>2. \/ UNCHANGED stdin
      \/ ready /\ \E l : stdin' = Append(stdin, l)
  BY DEF Call, Send, Timeout, MaySend
<1> QED BY <1>1, <1>2, QuietStep

LEMMA HearReadyFollows ==
    ASSUME IInv, Following, HearReady
    PROVE  Following'
<1>1. /\ alive /\ stdout # <<>> /\ Head(stdout).kind # "event" /\ stdout' = Tail(stdout)
      /\ UNCHANGED <<events, changes, alive, process, subscribed, working>>
  BY DEF HearReady, sidecarVars
<1>2. TypeOK /\ InOrder
  BY DEF IInv, Following
<1>3. Told' = Told /\ InOrder'
  BY <1>1, <1>2, HeardOther
<1>4. UpToDate' /\ EndIsEnd'
  BY <1>1, <1>3 DEF Following, UpToDate, EndIsEnd
<1>5. \A i \in DOMAIN stdout' : \E j \in DOMAIN stdout : stdout'[i] = stdout[j]
  BY <1>1, <1>2, HeardLine
<1>6. Complete'
  BY <1>1, <1>3, <1>5, CompleteKept DEF Following
<1>7. SubscribesFirst'
  <2> DEFINE line == Line(NextId, Subscribe)
  <2>1. stdin' = Append(stdin, line) /\ line.req = Subscribe /\ stdin \in Seq(Asked)
    BY <1>2 DEF HearReady, Line, TypeOK
  <2> HIDE DEF line
  <2>2. stdin' # <<>> /\ Head(stdin') = IF stdin = <<>> THEN line ELSE Head(stdin)
    BY <2>1
  <2> QED BY <1>1, <1>3, <1>5, <2>1, <2>2 DEF Following, SubscribesFirst
<1> QED BY <1>3, <1>4, <1>6, <1>7 DEF Following

LEMMA HearEventFollows ==
    ASSUME IInv, Following, HearEvent
    PROVE  Following'
<1>1. /\ alive /\ stdout # <<>> /\ Head(stdout).kind = "event" /\ stdout' = Tail(stdout)
      /\ events' = Append(events, Head(stdout).seen)
      /\ UNCHANGED <<changes, alive, process, subscribed, working, ready, stdin>>
  BY DEF HearEvent, sidecarVars
<1>2. TypeOK /\ InOrder /\ UpToDate
  BY DEF IInv, Following
<1>3. Told' = Told /\ InOrder' /\ events' \in Seq(Nat)
  BY <1>1, <1>2, HeardEvent
<1>4. UpToDate' /\ EndIsEnd'
  BY <1>1, <1>3 DEF Following, UpToDate, EndIsEnd
<1>5. \A i \in DOMAIN stdout' : \E j \in DOMAIN stdout : stdout'[i] = stdout[j]
  BY <1>1, <1>2, HeardLine
<1>6. Complete'
  BY <1>1, <1>3, <1>5, CompleteKept DEF Following
<1>7. SubscribesFirst'
  BY <1>1, <1>3, <1>5 DEF Following, SubscribesFirst
<1> QED BY <1>3, <1>4, <1>6, <1>7 DEF Following

LEMMA HearAnswerFollows ==
    ASSUME IInv, Following, HearAnswer
    PROVE  Following'
<1>1. /\ alive /\ stdout # <<>> /\ Head(stdout).kind # "event" /\ stdout' = Tail(stdout)
      /\ UNCHANGED <<events, changes, alive, process, subscribed, working, ready, stdin>>
  BY DEF HearAnswer, sidecarVars
<1>2. TypeOK /\ InOrder
  BY DEF IInv, Following
<1>3. Told' = Told /\ InOrder'
  BY <1>1, <1>2, HeardOther
<1>4. UpToDate' /\ EndIsEnd'
  BY <1>1, <1>3 DEF Following, UpToDate, EndIsEnd
<1>5. \A i \in DOMAIN stdout' : \E j \in DOMAIN stdout : stdout'[i] = stdout[j]
  BY <1>1, <1>2, HeardLine
<1>6. Complete'
  BY <1>1, <1>3, <1>5, CompleteKept DEF Following
<1>7. SubscribesFirst'
  BY <1>1, <1>3, <1>5 DEF Following, SubscribesFirst
<1> QED BY <1>3, <1>4, <1>6, <1>7 DEF Following

LEMMA EndFollows ==
    ASSUME IInv, Following, HearExit \/ Stop
    PROVE  Following'
<1>1. /\ alive' = FALSE /\ stdout' = <<>> /\ process' = "gone"
      /\ UNCHANGED <<events, changes, subscribed, working, ready, stdin>>
  BY DEF HearExit, Stop, End, sidecarVars
<1>2. Told' \subseteq Told /\ InOrder'
  BY <1>1, Silenced DEF IInv, Following
<1>3. UpToDate' /\ Complete' /\ EndIsEnd'
  BY <1>1, <1>2 DEF Following, UpToDate, Complete, EndIsEnd
<1>4. SubscribesFirst'
  BY <1>1, <1>2 DEF Following, SubscribesFirst
<1> QED BY <1>2, <1>3, <1>4 DEF Following

LEMMA StartFollows ==
    ASSUME IInv, Following, Start
    PROVE  Following'
<1>1. /\ stdout' = Append(stdout, ReadyLine) /\ process = "starting"
      /\ UNCHANGED <<events, changes, alive, subscribed, working, ready, stdin>>
  BY DEF Start, hostVars
<1>2. TypeOK /\ InOrder /\ ReadyLine \in Said /\ ReadyLine.kind = "ready"
  BY DEF IInv, Following, Said, ReadyLine
<1>3. Told' = Told /\ InOrder'
  BY <1>1, <1>2, AddedOther
<1>4. UpToDate' /\ EndIsEnd'
  BY <1>1, <1>3 DEF Following, UpToDate, EndIsEnd
<1>5. \A i \in DOMAIN stdout' : stdout'[i].kind = "answer" => \E j \in DOMAIN stdout : stdout'[i] = stdout[j]
  BY <1>1, <1>2, AddedLine
<1>6. Complete'
  BY <1>1, <1>3, <1>5, CompleteKept DEF Following
<1>7. SubscribesFirst'
  BY <1>1, <1>3, <1>5 DEF Following, SubscribesFirst
<1> QED BY <1>3, <1>4, <1>6, <1>7 DEF Following

\* An answer is said by a sidecar that is subscribed.
LEMMA AnswerFollows ==
    ASSUME IInv, Following, NEW line \in Asked, stdout' = Append(stdout, AnswerLine(line)),
           subscribed', process = "running",
           UNCHANGED <<events, changes, alive, process, ready>>
    PROVE  Following'
<1>1. TypeOK /\ InOrder /\ changes \in Nat
  BY DEF IInv, Following, TypeOK
<1>2. /\ AnswerLine(line) \in Said /\ AnswerLine(line).kind = "answer"
      /\ AnswerLine(line).seen = changes
  BY <1>1, AnswerLineBears DEF AnswerLine
<1>3. Told' = Told /\ InOrder'
  BY <1>1, <1>2, AddedOther
<1>4. UpToDate' /\ EndIsEnd' /\ SubscribesFirst'
  BY <1>3 DEF Following, UpToDate, EndIsEnd, SubscribesFirst
<1>5. \A i \in DOMAIN stdout' :
         \/ stdout'[i].seen = changes /\ changes \in Nat
         \/ \E j \in DOMAIN stdout : stdout'[i] = stdout[j]
  BY <1>1, <1>2, AddedLine
<1>6. Complete'
  BY <1>3, <1>5, CompleteKept DEF Following
<1> QED BY <1>3, <1>4, <1>6 DEF Following

LEMMA TakeFollows ==
    ASSUME IInv, Following, Take
    PROVE  Following'
<1>1. /\ process = "running" /\ stdin # <<>> /\ Head(stdin) \in Asked
      /\ UNCHANGED <<events, changes, alive, process, ready>>
  BY TailElements DEF Take, hostVars, IInv, TypeOK
<1>2. CASE Head(stdin).req = Subscribe
  BY <1>1, <1>2, AnswerFollows DEF Take
<1>3. CASE Head(stdin).req # Subscribe
  <2>1. subscribed
    BY <1>1, <1>3 DEF Following, SubscribesFirst
  <2> QED BY <1>1, <1>3, <2>1, QuietStep DEF Take
<1> QED BY <1>2, <1>3

LEMMA CarryOutFollows ==
    ASSUME IInv, Following, NEW line \in working, Answer(line)
    PROVE  Following'
<1>1. subscribed /\ line \in Asked
  BY DEF Following, SubscribesFirst, IInv, TypeOK
<1> QED BY <1>1, AnswerFollows DEF Answer, hostVars

LEMMA ChangeFollows ==
    ASSUME IInv, Following, Change
    PROVE  Following'
<1>1. /\ process = "running" /\ changes' = changes + 1 /\ changes \in Nat
      /\ UNCHANGED <<events, alive, process, ready, subscribed, working, stdin>>
  BY DEF Change, hostVars, IInv, TypeOK
<1>2. alive
  BY <1>1 DEF Following, EndIsEnd
<1>3. CASE subscribed
  <2>1. stdout' = Append(stdout, EventLine(changes + 1))
    BY <1>3 DEF Change
  <2>2. EventLine(changes + 1) \in Said /\ EventLine(changes + 1).kind = "event"
    BY <1>1 DEF EventLine, Said
  <2>3. Told' = Told \cup {changes + 1} /\ InOrder'
    BY <1>1, <1>2, <2>1, AddedEvent DEF Following, IInv
  <2>4. UpToDate' /\ EndIsEnd' /\ SubscribesFirst'
    BY <1>1, <1>2, <1>3, <2>3 DEF Following, UpToDate, EndIsEnd, SubscribesFirst
  <2>5. Complete'
    <3> SUFFICES ASSUME NEW i \in DOMAIN stdout', stdout'[i].kind = "answer"
                 PROVE  (stdout'[i].seen + 1)..(changes + 1) \subseteq Told \cup {changes + 1}
      BY <1>1, <2>3 DEF Complete
    <3>1. i \in DOMAIN stdout /\ stdout'[i] = stdout[i]
      BY <2>1, <2>2, AddedLine DEF IInv
    <3>2. (stdout[i].seen + 1)..changes \subseteq Told
      BY <1>2, <3>1 DEF Following, Complete
    <3>3. stdout[i].seen \in Nat
      <4>1. stdout[i] \in Said
        BY <3>1, LenProperties, ElementOfSeq DEF IInv, TypeOK
      <4>2. stdout[i] \notin {ReadyLine} \cup [kind : {"event"}, seen : Nat]
        BY <3>1 DEF ReadyLine
      <4> QED BY <4>1, <4>2 DEF Said
    <3> QED BY <1>1, <3>1, <3>2, <3>3
  <2> QED BY <2>3, <2>4, <2>5 DEF Following
<1>4. CASE ~subscribed
  <2>1. stdout' = stdout
    BY <1>4 DEF Change
  <2>2. Told' = Told /\ Events' = Events /\ Told = {}
    BY <1>1, <1>4, <2>1 DEF Told, Events, Following, SubscribesFirst
  <2>3. InOrder' /\ UpToDate' /\ EndIsEnd' /\ SubscribesFirst'
    BY <1>1, <2>1, <2>2 DEF Following, InOrder, UpToDate, EndIsEnd, SubscribesFirst
  <2>4. Complete'
    BY <1>4, <2>1 DEF Following, SubscribesFirst, Complete
  <2> QED BY <2>3, <2>4 DEF Following
<1> QED BY <1>3, <1>4 DEF IInv, TypeOK

LEMMA ExitFollows ==
    ASSUME IInv, Following, Exit \/ UNCHANGED vars
    PROVE  Following'
<1>1. /\ UNCHANGED <<stdout, events, changes, alive, subscribed, ready, working, stdin>>
      /\ process' \in {"gone", process}
  BY DEF Exit, vars, hostVars, sidecarVars
<1>2. Told' = Told /\ Events' = Events
  BY <1>1 DEF Told, Events
<1> QED BY <1>1, <1>2 DEF Following, InOrder, UpToDate, Complete, EndIsEnd, SubscribesFirst

LEMMA NextFollows == Following /\ IInv /\ [Next]_vars => Following'
  BY HostFollows, HearReadyFollows, HearEventFollows, HearAnswerFollows, EndFollows, StartFollows,
     TakeFollows, CarryOutFollows, ChangeFollows, ExitFollows DEF Next

\* An engine that has heard the answer to any call learns of every later change, once
\* and in order, for any number of calls and changes, while neither process has ended.
THEOREM ChangesAreFollowed == Spec => []NothingMissed
<1>1. Init => Following
  <2> SUFFICES ASSUME Init PROVE Following
    OBVIOUS
  <2>1. Told = {} /\ Events = {}
    BY DEF Init, Told, Events
  <2>2. events \in Seq(Nat)
    BY EmptyLines DEF Init
  <2> QED BY <2>1, <2>2 DEF Init, Following, InOrder, UpToDate, Complete, EndIsEnd, SubscribesFirst
<1>2. Following => NothingMissed
  BY DEF Following, NothingMissed, Complete
<1> QED BY <1>1, <1>2, NextFollows, SpecIInv, PTL DEF Spec

\* Both: answers are one's own, and what has changed since is heard without a gap.
THEOREM HostHearsTruly == Spec => []HeardAsSaid
<1>1. OwnAnswer /\ NothingMissed => HeardAsSaid
  BY DEF HeardAsSaid
<1> QED BY <1>1, AnswersAreOwn, ChangesAreFollowed, PTL
-----------------------------------------------------------------------------
(* The writing side (GeometryWrites).  The inductive invariant: each        *)
(* operation has an outcome when it is done and not before; who has cleared *)
(* a flag will set it again; and an operation that was started waits for    *)
(* nothing that is stuck.                                                   *)

InBatch(j) == j[2] \in DOMAIN batch[j[1]]

Concluded == \A j \in Jobs :
    /\ job[j].at # "done" <=> job[j].outcome = "none"
    /\ job[j].at # "waiting" => InBatch(j) /\ stage[j[1]] # "unsent"

Borrowed ==
    /\ \A j \in Jobs : Inside(j) /\ job[j].was => wanted[App(j)]
    /\ \A a \in Apps : enhanced[a] => wanted[a]

\* A flag that is not what it was is owed by a write.
FlagIsOwed ==
    \A a \in Apps :
        \/ enhanced[a] = wanted[a]
        \/ wanted[a] /\ \E j \in Jobs : Inside(j) /\ App(j) = a /\ job[j].was

\* Until the batch is answered, nothing stuck has begun.
Unstuck ==
    \A j \in Jobs : stage[j[1]] = "open" /\ job[j].at # "waiting" =>
        j[2] \notin Stuck(j[1]) /\ job[j].outcome # "cyclic"

WritesInv == WritesOK /\ Concluded /\ Borrowed /\ FlagIsOwed /\ OneAtATime /\ Unstuck /\ DoesAllItCan

LEMMA FinishedTyped ==
    /\ Fresh \in JobRecord
    /\ \A o \in Outcomes : /\ Finished(o) \in JobRecord
                           /\ Finished(o).at = "done" /\ Finished(o).outcome = o
<1>1. Needed \in Nat \ {0} /\ Samples \in Nat
  BY WritesAssumption
<1>2. Fresh \in JobRecord
  BY <1>1 DEF Fresh, JobRecord
<1>3. ASSUME NEW o \in Outcomes
      PROVE  Finished(o) \in JobRecord /\ Finished(o).at = "done" /\ Finished(o).outcome = o
  BY <1>2, <1>3 DEF Finished, JobRecord
<1>4. QED
  BY <1>2, <1>3

\* What may come of a reading or of a refusal.
Continues(s, same) ==
    /\ s \in JobRecord /\ s.at \in {"settling", "done"}
    /\ s.at = "settling" <=> s.outcome = "none"
    /\ s.outcome # "cyclic"
    /\ s.outcome \in {"settled", "unsettled"} => same

LEMMA JudgedContinues ==
    ASSUME NEW s, NEW o \in {"settled", "unsettled"}, NEW same \in BOOLEAN
    PROVE  Continues(Judged(s, o, same), same)
<1>1. \/ Judged(s, o, same) \in {Finished("stale"), Finished("refused")}
      \/ same /\ Judged(s, o, same) = Finished(o)
  BY DEF Judged
<1>2. \A x \in {"stale", "refused", o} : x \in Outcomes /\ x # "cyclic" /\ x # "none"
  BY DEF Outcomes
<1>3. \A y \in {"stale", "refused", o} :
        Finished(y) \in JobRecord /\ Finished(y).at = "done" /\ Finished(y).outcome = y
  BY <1>2, FinishedTyped
<1>4. CASE Judged(s, o, same) = Finished("stale")
  BY <1>3, <1>4 DEF Continues
<1>5. CASE Judged(s, o, same) = Finished("refused")
  BY <1>3, <1>5 DEF Continues
<1>6. CASE same /\ Judged(s, o, same) = Finished(o)
  BY <1>2, <1>3, <1>6 DEF Continues
<1>7. QED
  BY <1>1, <1>4, <1>5, <1>6

LEMMA ReadingContinues ==
    ASSUME NEW s \in JobRecord, NEW same \in BOOLEAN, NEW x \in Reading(s, same)
    PROVE  Continues(x, same)
<1>1. CASE x = Finished("stale")
  <2>1. "stale" \in Outcomes
    BY DEF Outcomes
  <2>2. QED
    BY <1>1, <2>1, FinishedTyped DEF Continues
<1>2. ASSUME NEW match \in BOOLEAN, NEW still \in BOOLEAN, NEW nearer \in BOOLEAN,
             x = Sample(s, match, still, nearer, same)
      PROVE  Continues(x, same)
  <2> DEFINE hits == IF match THEN s.hits + 1 ELSE 0
             quiet == IF still THEN s.quiet + 1 ELSE 0
             next == [Fresh EXCEPT !.at = "settling", !.refused = s.refused,
                                   !.hits = hits, !.quiet = quiet, !.reads = s.reads + 1]
  <2>1. \/ x = Judged(s, "unsettled", same)
        \/ x = Judged(s, "settled", same)
        \/ x = next /\ s.reads # Samples /\ ~(hits >= Needed)
    BY <1>2 DEF Sample
  <2>2. /\ s.hits \in Nat /\ s.quiet \in Nat /\ s.reads \in 0 .. Samples /\ s.refused \in BOOLEAN
        /\ Needed \in Nat /\ Samples \in Nat
    BY WritesAssumption DEF JobRecord
  <2>3. hits \in Nat /\ quiet \in Nat
    BY <2>2
  <2> HIDE DEF hits, quiet
  <2>4. ASSUME s.reads # Samples, ~(hits >= Needed)
        PROVE  Continues(next, same)
    <3>1. hits \in 0 .. Needed /\ s.reads + 1 \in 0 .. Samples
      BY <2>2, <2>3, <2>4
    <3>2. next \in JobRecord /\ next.at = "settling" /\ next.outcome = "none"
      <4>1. Fresh \in JobRecord /\ Fresh.outcome = "none"
        BY FinishedTyped DEF Fresh
      <4>2. QED
        BY <2>2, <2>3, <3>1, <4>1 DEF JobRecord
    <3>3. QED
      BY <3>2 DEF Continues
  <2>5. QED
    BY <2>1, <2>4, JudgedContinues
<1>3. Likeness(s) \subseteq BOOLEAN
  BY DEF Likeness
<1>4. ASSUME x # Finished("stale")
      PROVE  \E match, nearer \in BOOLEAN, still \in Likeness(s) : x = Sample(s, match, still, nearer, same)
  BY <1>4 DEF Reading
<1>5. QED
  BY <1>1, <1>2, <1>3, <1>4

LEMMA RefusalContinues ==
    ASSUME NEW same \in BOOLEAN, NEW x \in Refusal(same)
    PROVE  Continues(x, same)
<1>1. CASE x \in {Finished("stale"), Finished("refused")}
  <2>1. {"stale", "refused"} \subseteq Outcomes
    BY DEF Outcomes
  <2>2. QED
    BY <1>1, <2>1, FinishedTyped DEF Continues
<1>2. CASE x \in Reading([Fresh EXCEPT !.refused = TRUE], same)
  <2>1. [Fresh EXCEPT !.refused = TRUE] \in JobRecord
    BY FinishedTyped DEF JobRecord, Fresh
  <2>2. QED
    BY <1>2, <2>1, ReadingContinues
<1>3. QED
  BY <1>1, <1>2 DEF Refusal

LEMMA OpTyped ==
    ASSUME WritesOK, NEW j \in Jobs, InBatch(j)
    PROVE  Op(j) \in Operations /\ App(j) \in Apps
<1>1. j[1] \in Messages
  BY DEF Jobs
<1>2. batch[j[1]] \in Seq(Operations)
  BY <1>1, WritesAssumption DEF WritesOK, InBatch
<1>3. Op(j) \in Operations
  BY <1>2, ElementOfSeq DEF InBatch, Op
<1>4. QED
  BY <1>3, WritesAssumption DEF App, Operations

\* What a turn does to its own operation and to the flag of its application.
Makes(j, s) ==
    /\ s \in JobRecord /\ s.at \in {"writing", "settling", "done"}
    /\ s.at # "done" <=> s.outcome = "none"
    /\ s.outcome # "cyclic"
    /\ s.outcome \in {"settled", "unsettled"} => Same(j)
    /\ \/ ~Inside(j) /\ s.at = "writing" /\ s.was = enhanced[App(j)]
          /\ enhanced' = [enhanced EXCEPT ![App(j)] = FALSE]
       \/ Inside(j) /\ s.at = "writing" /\ s.was = job[j].was /\ enhanced' = enhanced
       \/ ~Inside(j) /\ s.at # "writing" /\ enhanced' = enhanced
       \/ Inside(j) /\ s.at # "writing" /\ Restore(j)

LEMMA EndsMake ==
    ASSUME NEW j \in Jobs, ~Inside(j), UNCHANGED enhanced,
           NEW o \in Outcomes \ {"cyclic"}, o \in {"settled", "unsettled"} => Same(j)
    PROVE  Makes(j, Finished(o))
<1>1. Finished(o) \in JobRecord /\ Finished(o).at = "done" /\ Finished(o).outcome = o /\ o # "none"
  BY FinishedTyped DEF Outcomes
<1>2. QED
  BY <1>1 DEF Makes

LEMMA ContinuesMake ==
    ASSUME NEW j \in Jobs, NEW s, Continues(s, Same(j)),
           IF Inside(j) THEN Restore(j) ELSE UNCHANGED enhanced
    PROVE  Makes(j, s)
BY DEF Continues, Makes

LEMMA TurnMakes ==
    ASSUME WritesOK, Concluded, NEW j \in Jobs, Turn(j)
    PROVE  /\ UNCHANGED <<running, looks, wanted, stage, batch, captured>> /\ Active(j)
           /\ \E s : Makes(j, s) /\ job' = [job EXCEPT ![j] = s]
<1>1. Same(j) \in BOOLEAN /\ job[j] \in JobRecord
  BY DEF Same, WritesOK
<1>2. CASE Unknown(j)
  <2>1. "unknown" \in Outcomes \ {"cyclic"} /\ "unknown" \notin {"settled", "unsettled"}
    BY DEF Outcomes
  <2>2. QED
    BY <1>2, <2>1, EndsMake DEF Unknown, Begins, Becomes, Inside, Active
<1>3. CASE Invalid(j)
  <2>1. "invalid" \in Outcomes \ {"cyclic"} /\ "invalid" \notin {"settled", "unsettled"}
    BY DEF Outcomes
  <2>2. QED
    BY <1>3, <2>1, EndsMake DEF Invalid, Known, Begins, Becomes, Inside, Active
<1>4. CASE Focus(j)
  <2>1. PICK o \in {"refused", "stale"} \cup (IF Same(j) THEN {"settled"} ELSE {}) :
          job' = [job EXCEPT ![j] = Finished(o)]
    BY <1>4 DEF Focus, Becomes
  <2>2. o \in Outcomes \ {"cyclic"} /\ (o \in {"settled", "unsettled"} => Same(j))
    BY <2>1 DEF Outcomes
  <2>3. ~Inside(j) /\ Active(j) /\ UNCHANGED <<running, looks, wanted, stage, batch, captured, enhanced>>
    BY <1>4 DEF Focus, Known, Begins, Inside, Active
  <2>4. QED
    BY <2>1, <2>2, <2>3, EndsMake
<1>5. CASE BeginWrite(j)
  <2> DEFINE s == [Fresh EXCEPT !.at = "writing", !.left = Writes[Op(j).kind] - 1,
                                !.was = enhanced[App(j)]]
  <2>1. Writes[Op(j).kind] - 1 \in 0 .. 2
    BY <1>5 DEF BeginWrite, Writes
  <2>2. enhanced[App(j)] \in BOOLEAN
    <3>1. InBatch(j)
      BY <1>5 DEF BeginWrite, Known, Begins, Concluded
    <3>2. QED
      BY <3>1, OpTyped DEF WritesOK
  <2>3. s \in JobRecord /\ s.at = "writing" /\ s.outcome = "none" /\ s.was = enhanced[App(j)]
    <3>1. Fresh \in JobRecord /\ Fresh.outcome = "none"
      BY FinishedTyped DEF Fresh
    <3>2. QED
      BY <2>1, <2>2, <3>1 DEF JobRecord
  <2>4. /\ job' = [job EXCEPT ![j] = s] /\ ~Inside(j) /\ Active(j)
        /\ enhanced' = [enhanced EXCEPT ![App(j)] = FALSE]
        /\ UNCHANGED <<running, looks, wanted, stage, batch, captured>>
    BY <1>5 DEF BeginWrite, Known, Begins, Becomes, Inside, Active
  <2>5. Makes(j, s)
    BY <2>3, <2>4 DEF Makes
  <2>6. QED
    BY <2>4, <2>5
<1>6. CASE RefuseWrite(j)
  <2>1. PICK s \in Refusal(Same(j)) : job' = [job EXCEPT ![j] = s]
    BY <1>6 DEF RefuseWrite, Becomes
  <2>2. ~Inside(j) /\ Active(j) /\ UNCHANGED <<running, looks, wanted, stage, batch, captured, enhanced>>
    BY <1>6 DEF RefuseWrite, Known, Begins, Inside, Active
  <2>3. QED
    BY <1>1, <2>1, <2>2, RefusalContinues, ContinuesMake
<1>7. CASE NextWrite(j)
  <2> DEFINE s == [job[j] EXCEPT !.left = @ - 1]
  <2>1. job[j].left \in 0 .. 2 /\ job[j].left > 0 /\ job[j].at = "writing"
    BY <1>1, <1>7 DEF NextWrite, Wakes, JobRecord
  <2>2. s \in JobRecord /\ s.at = "writing" /\ s.outcome = job[j].outcome /\ s.was = job[j].was
    BY <1>1, <2>1 DEF JobRecord
  <2>3. job' = [job EXCEPT ![j] = s] /\ UNCHANGED <<running, looks, wanted, stage, batch, captured, enhanced>>
    BY <1>7 DEF NextWrite, Wakes, Becomes
  <2>4. s.outcome = "none"
    BY <2>1, <2>2 DEF Concluded
  <2> HIDE DEF s
  <2>5. Makes(j, s) /\ Active(j)
    BY <2>1, <2>2, <2>3, <2>4 DEF Makes, Inside, Active
  <2>6. QED
    BY <2>3, <2>5
<1>8. CASE BreakOff(j)
  <2>1. PICK s \in IF Same(j) /\ job[j].left > 0 THEN Refusal(TRUE) ELSE {Finished("stale")} :
          job' = [job EXCEPT ![j] = s]
    BY <1>8 DEF BreakOff, Becomes
  <2>2. Inside(j) /\ Restore(j) /\ Active(j) /\ UNCHANGED <<running, looks, wanted, stage, batch, captured>>
    BY <1>8 DEF BreakOff, Wakes, Inside, Active
  <2>3. Finished("stale") \in Refusal(Same(j))
    BY DEF Refusal
  <2>4. s \in Refusal(Same(j))
    BY <1>1, <2>1, <2>3
  <2>5. QED
    BY <1>1, <2>1, <2>2, <2>4, RefusalContinues, ContinuesMake
<1>9. CASE LastWritten(j)
  <2>1. PICK s \in Reading(Fresh, TRUE) : job' = [job EXCEPT ![j] = s]
    BY <1>9 DEF LastWritten, Becomes
  <2>2. /\ Inside(j) /\ Restore(j) /\ Active(j) /\ Same(j)
        /\ UNCHANGED <<running, looks, wanted, stage, batch, captured>>
    BY <1>9 DEF LastWritten, Wakes, Inside, Active
  <2>3. s \in Reading(Fresh, Same(j))
    BY <1>1, <2>1, <2>2
  <2>4. QED
    BY <1>1, <2>1, <2>2, <2>3, FinishedTyped, ReadingContinues, ContinuesMake
<1>10. CASE Read(j)
  <2>1. PICK s \in Reading(job[j], Same(j)) : job' = [job EXCEPT ![j] = s]
    BY <1>10 DEF Read, Becomes
  <2>2. ~Inside(j) /\ Active(j) /\ UNCHANGED <<running, looks, wanted, stage, batch, captured, enhanced>>
    BY <1>10 DEF Read, Inside, Active
  <2>3. QED
    BY <1>1, <2>1, <2>2, ReadingContinues, ContinuesMake
<1>11. QED
  BY <1>2, <1>3, <1>4, <1>5, <1>6, <1>7, <1>8, <1>9, <1>10 DEF Turn

-----------------------------------------------------------------------------
(* What is stuck stays stuck, and where nothing is ready all is stuck.     *)

LEMMA StuckWaits ==
    ASSUME NEW m, NEW i \in Stuck(m)
    PROVE  /\ i \in DOMAIN batch[m]
           /\ \E n \in batch[m][i].after :
                \A k \in DOMAIN batch[m] : batch[m][k].name = n => k \in Stuck(m)
<1>1. PICK u \in SUBSET DOMAIN batch[m] :
        /\ i \in u
        /\ \A h \in u : \E n \in batch[m][h].after :
             \A k \in DOMAIN batch[m] : batch[m][k].name = n => k \in u
  BY DEF Stuck
<1>2. u \subseteq Stuck(m)
  BY <1>1 DEF Stuck
<1>3. QED
  BY <1>1, <1>2

LEMMA AllStuck ==
    ASSUME NEW m, NEW u \in SUBSET DOMAIN batch[m],
           \A h \in u : \E n \in batch[m][h].after :
              \A k \in DOMAIN batch[m] : batch[m][k].name = n => k \in u
    PROVE  u \subseteq Stuck(m)
BY DEF Stuck

LEMMA BatchTyped ==
    ASSUME WritesOK, NEW m \in Messages
    PROVE  /\ batch[m] \in Seq(Operations) /\ DOMAIN batch[m] \subseteq Nat
           /\ \A i \in DOMAIN batch[m] : <<m, i>> \in Jobs
<1>1. CASE batch[m] \in Batches
  <2>1. batch[m] \in Seq(Operations) /\ Len(batch[m]) <= MaxLength /\ MaxLength \in Nat
    BY <1>1, WritesAssumption
  <2>2. Len(batch[m]) \in Nat /\ DOMAIN batch[m] = 1 .. Len(batch[m])
    BY <2>1, LenProperties
  <2>3. QED
    BY <2>1, <2>2 DEF Jobs
<1>2. CASE batch[m] = <<>>
  <2>1. <<>> \in Seq(Operations) /\ DOMAIN <<>> = {}
    OBVIOUS
  <2>2. QED
    BY <1>2, <2>1
<1>3. QED
  BY <1>1, <1>2 DEF WritesOK

LEMMA LeastExists ==
    ASSUME NEW S, S \subseteq Nat, S # {}
    PROVE  \E k \in S : \A n \in S : ~(n < k)
<1>1. PICK k \in S : \A n \in S : ~(<<n, k>> \in OpToRel(<, Nat))
  BY NatLessThanWellFounded, WFMin
<1>2. QED
  BY <1>1 DEF OpToRel

LEMMA NothingPossible ==
    ASSUME NEW m \in Messages, WritesOK, Ready(m) = {}
    PROVE  Possible(m) = {}
<1>2. Possible(m) \subseteq Nat
  BY BatchTyped DEF Possible, Pending
<1> SUFFICES ASSUME Possible(m) # {}
             PROVE  FALSE
  OBVIOUS
<1>3. PICK i \in Possible(m) : \A k \in Possible(m) : ~(k < i)
  BY <1>2, LeastExists
<1>4. i \in Ready(m)
  BY <1>3 DEF Ready
<1>5. QED
  BY <1>4

LEMMA ReadyIsUnstuck ==
    ASSUME NEW m \in Messages, WritesInv, stage[m] = "open", NEW i \in Possible(m)
    PROVE  i \notin Stuck(m)
<1> SUFFICES ASSUME i \in Stuck(m)
             PROVE  FALSE
  OBVIOUS
<1>1. PICK n \in batch[m][i].after :
        \A k \in DOMAIN batch[m] : batch[m][k].name = n => k \in Stuck(m)
  BY StuckWaits
<1>2. n \in WithResult(m)
  BY <1>1 DEF Possible
<1>3. PICK k \in DOMAIN batch[m] : job[<<m, k>>].at = "done" /\ batch[m][k].name = n
  BY <1>2 DEF WithResult
<1>4. k \in Stuck(m)
  BY <1>1, <1>3
<1>5. <<m, k>> \in Jobs
  BY <1>3, BatchTyped DEF WritesInv
<1>6. QED
  BY <1>3, <1>4, <1>5 DEF WritesInv, Unstuck

-----------------------------------------------------------------------------
(* Each step keeps the invariant.                                          *)

LEMMA WritesStart == WritesInit => WritesInv
<1> SUFFICES ASSUME WritesInit
             PROVE  WritesInv
  OBVIOUS
<1>1. \A j \in Jobs : job[j] = Fresh /\ stage[j[1]] = "unsent"
  BY DEF WritesInit, Jobs
<1>2. Fresh \in JobRecord /\ Fresh.at = "waiting" /\ Fresh.outcome = "none"
  BY FinishedTyped DEF Fresh
<1>3. WritesOK
  <2>1. \A look \in Looks : <<look>> \in Seq(Looks)
    OBVIOUS
  <2>2. looks \in [Windows -> Seq(Looks)]
    <3>1. looks \in [Windows -> {<<look>> : look \in Looks}]
      BY DEF WritesInit
    <3>2. {<<look>> : look \in Looks} \subseteq Seq(Looks)
      BY <2>1
    <3>3. \A S, T : S \subseteq T => [Windows -> S] \subseteq [Windows -> T]
      BY Zenon
    <3>4. QED
      BY <3>1, <3>2, <3>3
  <2>3. QED
    BY <1>2, <2>2 DEF WritesInit, WritesOK
<1>4. Concluded /\ OneAtATime /\ Unstuck
  BY <1>1, <1>2 DEF Concluded, OneAtATime, Active, Unstuck
<1>5. Borrowed /\ FlagIsOwed
  BY <1>1, <1>2 DEF WritesInit, Borrowed, FlagIsOwed, Inside
<1>6. DoesAllItCan
  BY DEF WritesInit, DoesAllItCan
<1>7. QED
  BY <1>3, <1>4, <1>5, <1>6 DEF WritesInv

LEMMA TurnKeeps ==
    ASSUME WritesInv, NEW j \in Jobs, Turn(j)
    PROVE  WritesInv'
<1>1. /\ WritesOK /\ Concluded /\ Borrowed /\ FlagIsOwed
      /\ OneAtATime /\ Unstuck /\ DoesAllItCan
  BY DEF WritesInv
<1>2. UNCHANGED <<running, looks, wanted, stage, batch, captured>> /\ Active(j)
  BY <1>1, TurnMakes
<1>3. PICK s : Makes(j, s) /\ job' = [job EXCEPT ![j] = s]
  BY <1>1, TurnMakes
<1>4. /\ job' \in [Jobs -> JobRecord] /\ job'[j] = s
      /\ \A k \in Jobs : k # j => job'[k] = job[k]
  BY <1>1, <1>3 DEF Makes, WritesOK
<1>5. /\ InBatch(j) /\ App(j) \in Apps /\ j[1] \in Messages
      /\ job[j].at # "waiting" /\ job[j].at # "done"
  BY <1>1, <1>2, OpTyped DEF Active, Concluded, Jobs
<1>6. /\ s.at \in {"writing", "settling", "done"} /\ (s.at # "done" <=> s.outcome = "none")
      /\ s.outcome # "cyclic"
  BY <1>3 DEF Makes
<1>7. \A k \in Jobs : App(k)' = App(k) /\ Op(k)' = Op(k)
  BY <1>2 DEF App, Op
<1>8. enhanced' \in [Apps -> BOOLEAN]
  BY <1>1, <1>3, <1>5 DEF Makes, Restore, WritesOK
<1>9. WritesOK'
  BY <1>1, <1>2, <1>4, <1>8 DEF WritesOK
<1>10. Concluded'
  BY <1>1, <1>2, <1>4, <1>5, <1>6 DEF Concluded, InBatch
<1>11. Borrowed' /\ FlagIsOwed'
  <2>1. CASE ~Inside(j) /\ s.at = "writing" /\ s.was = enhanced[App(j)]
             /\ enhanced' = [enhanced EXCEPT ![App(j)] = FALSE]
    <3>1. \A k \in Jobs : k # j => (Inside(k)' <=> Inside(k)) /\ job'[k].was = job[k].was
      BY <1>4 DEF Inside
    <3>2. Inside(j)' /\ job'[j].was = enhanced[App(j)]
      BY <1>4, <2>1 DEF Inside
    <3>3. /\ enhanced'[App(j)] = FALSE
          /\ \A a \in Apps : a # App(j) => enhanced'[a] = enhanced[a]
      BY <1>1, <1>5, <2>1 DEF WritesOK
    <3>4. Borrowed'
      BY <1>1, <1>2, <1>5, <1>7, <3>1, <3>2, <3>3 DEF Borrowed
    <3>5. ASSUME NEW a \in Apps, enhanced'[a] # wanted[a]
          PROVE  wanted[a] /\ \E k \in Jobs : Inside(k)' /\ App(k) = a /\ job'[k].was
      <4>1. CASE a = App(j)
        <5>1. wanted[a]
          BY <1>1, <3>3, <3>5, <4>1 DEF WritesOK
        <5>2. CASE enhanced[a]
          BY <3>2, <4>1, <5>1, <5>2
        <5>3. CASE ~enhanced[a]
          <6>1. PICK k \in Jobs : Inside(k) /\ App(k) = a /\ job[k].was
            BY <1>1, <5>1, <5>3 DEF FlagIsOwed
          <6>2. k # j
            BY <2>1, <6>1
          <6>3. QED
            BY <3>1, <5>1, <6>1, <6>2
        <5>4. QED
          BY <5>2, <5>3
      <4>2. CASE a # App(j)
        <5>1. enhanced[a] # wanted[a]
          BY <3>3, <3>5, <4>2
        <5>2. PICK k \in Jobs : wanted[a] /\ Inside(k) /\ App(k) = a /\ job[k].was
          BY <1>1, <5>1 DEF FlagIsOwed
        <5>3. QED
          BY <3>1, <4>2, <5>2
      <4>3. QED
        BY <4>1, <4>2
    <3>6. QED
      BY <1>2, <1>7, <3>4, <3>5 DEF FlagIsOwed
  <2>2. CASE /\ (Inside(j) /\ s.at = "writing" /\ s.was = job[j].was) \/ (~Inside(j) /\ s.at # "writing")
             /\ enhanced' = enhanced
    <3>1. \A k \in Jobs : /\ Inside(k)' <=> Inside(k)
                          /\ Inside(k) => job'[k].was = job[k].was
      BY <1>4, <2>2 DEF Inside
    <3>2. Borrowed'
      BY <1>1, <1>2, <1>7, <2>2, <3>1 DEF Borrowed
    <3>3. ASSUME NEW a \in Apps, enhanced'[a] # wanted[a]
          PROVE  wanted[a] /\ \E k \in Jobs : Inside(k)' /\ App(k) = a /\ job'[k].was
      <4>1. PICK k \in Jobs : wanted[a] /\ Inside(k) /\ App(k) = a /\ job[k].was
        BY <1>1, <2>2, <3>3 DEF FlagIsOwed
      <4>2. QED
        BY <3>1, <4>1
    <3>4. QED
      BY <1>2, <1>7, <3>2, <3>3 DEF FlagIsOwed
  <2>3. CASE Inside(j) /\ s.at # "writing" /\ Restore(j)
    <3>1. \A k \in Jobs : /\ Inside(k)' <=> Inside(k) /\ k # j
                          /\ k # j => job'[k].was = job[k].was
      BY <1>4, <2>3 DEF Inside
    <3>2. /\ \A a \in Apps : enhanced'[a] = IF job[j].was /\ a = App(j) THEN TRUE ELSE enhanced[a]
          /\ job[j].was => wanted[App(j)]
      BY <1>1, <1>5, <2>3 DEF Restore, WritesOK, Borrowed
    <3>3. Borrowed'
      BY <1>1, <1>2, <1>7, <3>1, <3>2 DEF Borrowed
    <3>4. ASSUME NEW a \in Apps, enhanced'[a] # wanted[a]
          PROVE  wanted[a] /\ \E k \in Jobs : Inside(k)' /\ App(k) = a /\ job'[k].was
      <4>1. ~(job[j].was /\ a = App(j)) /\ enhanced[a] # wanted[a]
        <5>1. CASE job[j].was /\ a = App(j)
          BY <3>2, <3>4, <5>1
        <5>2. CASE ~(job[j].was /\ a = App(j))
          BY <3>2, <3>4, <5>2
        <5>3. QED
          BY <5>1, <5>2
      <4>2. PICK k \in Jobs : wanted[a] /\ Inside(k) /\ App(k) = a /\ job[k].was
        BY <1>1, <4>1 DEF FlagIsOwed
      <4>3. k # j
        BY <4>1, <4>2
      <4>4. QED
        BY <3>1, <4>2, <4>3
    <3>5. QED
      BY <1>2, <1>7, <3>3, <3>4 DEF FlagIsOwed
  <2>4. QED
    BY <1>3, <2>1, <2>2, <2>3 DEF Makes
<1>12. OneAtATime'
  <2>1. \A k \in Jobs : Active(k)' => Active(k)
    BY <1>2, <1>4 DEF Active
  <2>2. \A k \in Jobs : WithResult(k[1]) \subseteq WithResult(k[1])'
    <3> SUFFICES ASSUME NEW k \in Jobs, NEW n \in WithResult(k[1])
                 PROVE  n \in WithResult(k[1])'
      OBVIOUS
    <3>1. PICK i \in DOMAIN batch[k[1]] :
            job[<<k[1], i>>].at = "done" /\ batch[k[1]][i].name = n
      BY DEF WithResult
    <3>2. <<k[1], i>> \in Jobs
      BY <1>1, BatchTyped DEF Jobs
    <3>3. job'[<<k[1], i>>].at = "done"
      BY <1>4, <1>5, <3>1, <3>2
    <3>4. QED
      BY <1>2, <3>1, <3>3 DEF WithResult
  <2>3. QED
    BY <1>1, <1>7, <2>1, <2>2 DEF OneAtATime
<1>13. \A m : Stuck(m)' = Stuck(m)
  BY <1>2 DEF Stuck
<1>14. Unstuck'
  BY <1>1, <1>2, <1>4, <1>5, <1>6, <1>13 DEF Unstuck
<1>15. DoesAllItCan'
  <2>1. stage[j[1]] # "answered"
    <3>1. j = <<j[1], j[2]>>
      BY DEF Jobs
    <3>2. QED
      BY <1>1, <1>5, <3>1 DEF DoesAllItCan, InBatch
  <2>2. ASSUME NEW m \in Messages, stage[m] = "answered", NEW i \in DOMAIN batch[m]
        PROVE  job'[<<m, i>>] = job[<<m, i>>]
    <3>1. <<m, i>> \in Jobs /\ <<m, i>> # j
      BY <1>1, <2>1, <2>2, BatchTyped
    <3>2. QED
      BY <1>4, <3>1
  <2>3. QED
    BY <1>1, <1>2, <1>13, <2>2 DEF DoesAllItCan
<1>16. QED
  BY <1>9, <1>10, <1>11, <1>12, <1>14, <1>15 DEF WritesInv

LEMMA ReceiveKeeps ==
    ASSUME WritesInv, NEW m \in Messages, Receive(m)
    PROVE  WritesInv'
<1>1. /\ WritesOK /\ Concluded /\ Borrowed /\ FlagIsOwed
      /\ OneAtATime /\ Unstuck /\ DoesAllItCan
  BY DEF WritesInv
<1>2. /\ stage[m] = "unsent" /\ stage' = [stage EXCEPT ![m] = "open"]
      /\ UNCHANGED <<running, looks, enhanced, wanted, job>>
  BY DEF Receive
<1>3. PICK b \in Batches, seen \in [Windows -> 0 .. MaxReplaced + 1] :
        batch' = [batch EXCEPT ![m] = b] /\ captured' = [captured EXCEPT ![m] = seen]
  BY DEF Receive
<1>4. WritesOK'
  <2>1. seen \in [Windows -> Nat]
    BY <1>3, WritesAssumption
  <2>2. QED
    BY <1>1, <1>2, <1>3, <2>1 DEF WritesOK
<1>5. /\ \A n \in Messages : n # m => batch'[n] = batch[n] /\ stage'[n] = stage[n]
      /\ stage'[m] = "open"
  BY <1>1, <1>2, <1>3 DEF WritesOK
<1>6. \A j \in Jobs : job[j].at # "waiting" =>
        j[1] \in Messages /\ j[1] # m /\ batch'[j[1]] = batch[j[1]] /\ stage'[j[1]] = stage[j[1]]
  BY <1>1, <1>2, <1>5 DEF Concluded, Jobs
<1>7. \A j \in Jobs : job[j].at # "waiting" => App(j)' = App(j) /\ Op(j)' = Op(j)
  BY <1>6 DEF App, Op
<1>8. \A j \in Jobs : job[j].at # "waiting" =>
        WithResult(j[1])' = WithResult(j[1]) /\ Stuck(j[1])' = Stuck(j[1])
  <2> SUFFICES ASSUME NEW j \in Jobs, job[j].at # "waiting"
               PROVE  WithResult(j[1])' = WithResult(j[1]) /\ Stuck(j[1])' = Stuck(j[1])
    OBVIOUS
  <2>1. batch'[j[1]] = batch[j[1]] /\ job' = job
    BY <1>2, <1>6
  <2>2. WithResult(j[1])' = WithResult(j[1])
    BY <2>1 DEF WithResult
  <2>3. Stuck(j[1])' = Stuck(j[1])
    BY <2>1 DEF Stuck
  <2>4. QED
    BY <2>2, <2>3
<1>9. Concluded'
  BY <1>1, <1>2, <1>6 DEF Concluded, InBatch
<1>10. Borrowed' /\ FlagIsOwed'
  <2>1. \A j \in Jobs : (Inside(j)' <=> Inside(j)) /\ (Inside(j) => App(j)' = App(j))
    BY <1>2, <1>7 DEF Inside
  <2>2. QED
    BY <1>1, <1>2, <2>1 DEF Borrowed, FlagIsOwed
<1>11. OneAtATime'
  <2>1. \A j \in Jobs : (Active(j)' <=> Active(j)) /\ (Active(j) => job[j].at # "waiting")
    BY <1>2 DEF Active
  <2>2. QED
    BY <1>1, <1>7, <1>8, <2>1 DEF OneAtATime
<1>12. Unstuck'
  BY <1>1, <1>2, <1>6, <1>8 DEF Unstuck
<1>13. DoesAllItCan'
  <2> SUFFICES ASSUME NEW n \in Messages, stage'[n] = "answered", NEW i \in DOMAIN batch'[n]
               PROVE  /\ job'[<<n, i>>].at = "done"
                      /\ job'[<<n, i>>].outcome = "cyclic" <=> i \in Stuck(n)'
    BY DEF DoesAllItCan
  <2>1. n # m /\ batch'[n] = batch[n] /\ stage[n] = "answered"
    BY <1>5
  <2>2. Stuck(n)' = Stuck(n)
    BY <2>1 DEF Stuck
  <2>3. QED
    BY <1>1, <1>2, <2>1, <2>2 DEF DoesAllItCan
<1>14. QED
  BY <1>4, <1>9, <1>10, <1>11, <1>12, <1>13 DEF WritesInv

\* Jobs whose flags and places a wave or a reply leaves alone.
LEMMA BetweenKeeps ==
    ASSUME WritesInv, NEW m \in Messages, UNCHANGED <<enhanced, wanted, batch>>,
           job' \in [Jobs -> JobRecord],
           \A j \in Jobs : job'[j] = job[j] \/ (~Inside(j) /\ ~Inside(j)')
    PROVE  Borrowed' /\ FlagIsOwed'
<1>1. Borrowed /\ FlagIsOwed
  BY DEF WritesInv
<1>2. \A j \in Jobs : /\ (Inside(j)' <=> Inside(j)) /\ App(j)' = App(j)
                      /\ Inside(j) => job'[j].was = job[j].was
  BY DEF Inside, App, Op
<1>3. QED
  BY <1>1, <1>2 DEF Borrowed, FlagIsOwed

LEMMA WaveKeeps ==
    ASSUME WritesInv, NEW m \in Messages, Wave(m)
    PROVE  WritesInv'
<1>1. /\ WritesOK /\ Concluded /\ Borrowed /\ FlagIsOwed
      /\ OneAtATime /\ Unstuck /\ DoesAllItCan
  BY DEF WritesInv
<1>2. /\ stage[m] = "open" /\ Between(m)
      /\ UNCHANGED <<running, looks, enhanced, wanted, stage, batch, captured>>
  BY DEF Wave, Between
<1> DEFINE r == [Fresh EXCEPT !.at = "ready"]
<1>3. r \in JobRecord /\ r.at = "ready" /\ r.outcome = "none"
  <2>1. Fresh \in JobRecord /\ Fresh.outcome = "none"
    BY FinishedTyped DEF Fresh
  <2>2. QED
    BY <2>1 DEF JobRecord
<1>4. job' = [j \in Jobs |-> IF j[1] = m /\ j[2] \in Ready(m) THEN r ELSE job[j]]
  BY DEF Wave
<1> HIDE DEF r
<1>5. job' \in [Jobs -> JobRecord]
  BY <1>1, <1>3, <1>4 DEF WritesOK
<1>6. \A j \in Jobs : IF j[1] = m /\ j[2] \in Ready(m) THEN job'[j] = r ELSE job'[j] = job[j]
  BY <1>4
<1>7. \A i \in Ready(m) : /\ i \in Possible(m) /\ i \in DOMAIN batch[m] /\ i \in Nat
                          /\ <<m, i>> \in Jobs /\ job[<<m, i>>].at = "waiting"
                          /\ batch[m][i].after \subseteq WithResult(m)
  BY <1>1, BatchTyped DEF Ready, Possible, Pending
<1>8. \A j \in Jobs : j = <<j[1], j[2]>>
  BY DEF Jobs
<1>9. WritesOK'
  BY <1>1, <1>2, <1>5 DEF WritesOK
<1>10. Concluded'
  BY <1>1, <1>2, <1>3, <1>6, <1>7 DEF Concluded, InBatch
<1>11. \A j \in Jobs : job'[j] = job[j] \/ (~Inside(j) /\ ~Inside(j)')
  BY <1>3, <1>6, <1>7, <1>8 DEF Inside
<1>12. Borrowed' /\ FlagIsOwed'
  BY <1>2, <1>5, <1>11, BetweenKeeps
<1>13. \A n \in Messages : WithResult(n) \subseteq WithResult(n)'
  <2> SUFFICES ASSUME NEW n \in Messages, NEW x \in WithResult(n)
               PROVE  x \in WithResult(n)'
    OBVIOUS
  <2>1. PICK i \in DOMAIN batch[n] : job[<<n, i>>].at = "done" /\ batch[n][i].name = x
    BY DEF WithResult
  <2>2. <<n, i>> \in Jobs
    BY <1>1, BatchTyped
  <2>3. job'[<<n, i>>].at = "done"
    BY <1>6, <1>7, <2>1, <2>2
  <2>4. QED
    BY <1>2, <2>1, <2>3 DEF WithResult
<1>14. OneAtATime'
  <2> SUFFICES ASSUME NEW j \in Jobs, Active(j)'
               PROVE  /\ \A k \in Jobs : k # j /\ k[1] = j[1] /\ Active(k)' =>
                           Op(k)'.window # Op(j)'.window
                      /\ Op(j)'.after \subseteq WithResult(j[1])'
    BY DEF OneAtATime
  <2>1. \A k \in Jobs : Op(k)' = Op(k)
    BY <1>2 DEF Op
  <2>2. \A k \in Jobs : k[1] = m => ~Active(k) \/ k[2] \notin DOMAIN batch[m]
    BY <1>2, <1>8 DEF Between, Active
  <2>3. \A k \in Jobs : k[1] = m => ~Active(k)
    BY <1>1, <2>2 DEF Concluded, InBatch, Active
  <2>4. \A k \in Jobs : Active(k)' => IF k[1] = m THEN k[2] \in Ready(m) ELSE Active(k)
    BY <1>6, <2>3 DEF Active
  <2>5. j[1] \in Messages
    BY DEF Jobs
  <2>6. CASE j[1] = m
    <3>1. j[2] \in Ready(m)
      BY <2>4, <2>6
    <3>2. ASSUME NEW k \in Jobs, k # j, k[1] = m, Active(k)'
          PROVE  Op(k).window # Op(j).window
      <4>1. k[2] \in Ready(m) /\ k[2] # j[2]
        BY <1>8, <2>4, <2>6, <3>2
      <4>2. k[2] < j[2] \/ j[2] < k[2]
        <5>1. k[2] \in Nat /\ j[2] \in Nat
          BY <1>7, <3>1, <4>1
        <5>2. QED
          BY <4>1, <5>1
      <4>3. batch[m][k[2]].window # batch[m][j[2]].window
        BY <3>1, <4>1, <4>2 DEF Ready
      <4>4. QED
        BY <2>6, <3>2, <4>3 DEF Op
    <3>3. Op(j).after \subseteq WithResult(m)
      BY <1>7, <2>6, <3>1 DEF Op
    <3>4. QED
      BY <1>13, <2>1, <2>6, <3>2, <3>3
  <2>7. CASE j[1] # m
    <3>1. /\ \A k \in Jobs : k # j /\ k[1] = j[1] /\ Active(k) => Op(k).window # Op(j).window
          /\ Op(j).after \subseteq WithResult(j[1])
      BY <1>1, <2>4, <2>7 DEF OneAtATime
    <3>2. QED
      BY <1>13, <2>1, <2>4, <2>5, <2>7, <3>1
  <2>8. QED
    BY <2>6, <2>7
<1>15. \A n : Stuck(n)' = Stuck(n)
  BY <1>2 DEF Stuck
<1>16. Unstuck'
  <2>1. \A i \in Ready(m) : i \notin Stuck(m)
    BY <1>2, <1>7, ReadyIsUnstuck
  <2>2. QED
    BY <1>1, <1>2, <1>3, <1>6, <1>15, <2>1 DEF Unstuck
<1>17. DoesAllItCan'
  <2>1. \A n \in Messages : stage[n] = "answered" =>
          \A i \in DOMAIN batch[n] : job'[<<n, i>>] = job[<<n, i>>]
    BY <1>1, <1>2, <1>6, BatchTyped
  <2>2. QED
    BY <1>1, <1>2, <1>15, <2>1 DEF DoesAllItCan
<1>18. QED
  BY <1>9, <1>10, <1>12, <1>14, <1>16, <1>17 DEF WritesInv

LEMMA ReplyKeeps ==
    ASSUME WritesInv, NEW m \in Messages, Reply(m)
    PROVE  WritesInv'
<1>1. /\ WritesOK /\ Concluded /\ Borrowed /\ FlagIsOwed
      /\ OneAtATime /\ Unstuck /\ DoesAllItCan
  BY DEF WritesInv
<1>2. /\ stage[m] = "open" /\ Between(m) /\ stage' = [stage EXCEPT ![m] = "answered"]
      /\ UNCHANGED <<running, looks, enhanced, wanted, batch, captured>>
  BY DEF Reply, Between
<1>3. /\ Finished("cyclic") \in JobRecord /\ Finished("cyclic").at = "done"
      /\ Finished("cyclic").outcome = "cyclic"
  <2>1. "cyclic" \in Outcomes
    BY DEF Outcomes
  <2>2. QED
    BY <2>1, FinishedTyped
<1>4. job' = [j \in Jobs |-> IF j[1] = m /\ j[2] \in Pending(m) THEN Finished("cyclic") ELSE job[j]]
  BY DEF Reply
<1>5. job' \in [Jobs -> JobRecord]
  BY <1>1, <1>3, <1>4 DEF WritesOK
<1>6. \A j \in Jobs : IF j[1] = m /\ j[2] \in Pending(m)
                      THEN job'[j] = Finished("cyclic") ELSE job'[j] = job[j]
  BY <1>4
<1>7. \A i \in Pending(m) : /\ i \in DOMAIN batch[m] /\ <<m, i>> \in Jobs
                            /\ job[<<m, i>>].at = "waiting"
  BY <1>1, BatchTyped DEF Pending
<1>8. \A j \in Jobs : j = <<j[1], j[2]>> /\ j[1] \in Messages
  BY DEF Jobs
<1>9. stage'[m] = "answered" /\ \A n \in Messages : n # m => stage'[n] = stage[n]
  BY <1>1, <1>2 DEF WritesOK
<1>10. WritesOK'
  BY <1>1, <1>2, <1>5 DEF WritesOK
<1>11. Concluded'
  BY <1>1, <1>2, <1>3, <1>6, <1>7, <1>8, <1>9 DEF Concluded, InBatch
<1>12. Borrowed' /\ FlagIsOwed'
  <2>1. \A j \in Jobs : job'[j] = job[j] \/ (~Inside(j) /\ ~Inside(j)')
    BY <1>3, <1>6, <1>7, <1>8 DEF Inside
  <2>2. QED
    BY <1>2, <1>5, <2>1, BetweenKeeps
<1>13. \A n \in Messages : WithResult(n) \subseteq WithResult(n)'
  <2> SUFFICES ASSUME NEW n \in Messages, NEW x \in WithResult(n)
               PROVE  x \in WithResult(n)'
    OBVIOUS
  <2>1. PICK i \in DOMAIN batch[n] : job[<<n, i>>].at = "done" /\ batch[n][i].name = x
    BY DEF WithResult
  <2>2. <<n, i>> \in Jobs
    BY <1>1, BatchTyped
  <2>3. job'[<<n, i>>].at = "done"
    BY <1>6, <1>7, <2>1, <2>2
  <2>4. QED
    BY <1>2, <2>1, <2>3 DEF WithResult
<1>14. OneAtATime'
  <2>1. \A k \in Jobs : Op(k)' = Op(k)
    BY <1>2 DEF Op
  <2>2. \A k \in Jobs : Active(k)' => Active(k)
    BY <1>3, <1>6 DEF Active
  <2>3. QED
    BY <1>1, <1>8, <1>13, <2>1, <2>2 DEF OneAtATime
<1>15. \A n : Stuck(n)' = Stuck(n)
  BY <1>2 DEF Stuck
<1>16. Unstuck'
  BY <1>1, <1>6, <1>8, <1>9, <1>15 DEF Unstuck
<1>17. Pending(m) \subseteq Stuck(m)
  <2>1. Possible(m) = {}
    BY <1>1, NothingPossible DEF Reply
  <2>2. Pending(m) \in SUBSET DOMAIN batch[m]
    BY <1>7
  <2>3. ASSUME NEW h \in Pending(m)
        PROVE  \E n \in batch[m][h].after :
                  \A k \in DOMAIN batch[m] : batch[m][k].name = n => k \in Pending(m)
    <3>1. PICK n \in batch[m][h].after : n \notin WithResult(m)
      BY <2>1 DEF Possible
    <3>2. \A k \in DOMAIN batch[m] : batch[m][k].name = n => job[<<m, k>>].at # "done"
      BY <3>1 DEF WithResult
    <3>3. \A k \in DOMAIN batch[m] : batch[m][k].name = n => k \in Pending(m)
      BY <1>2, <3>2 DEF Between, Pending
    <3>4. QED
      BY <3>3
  <2>4. QED
    BY <2>2, <2>3, AllStuck
<1>18. DoesAllItCan'
  <2> SUFFICES ASSUME NEW n \in Messages, stage'[n] = "answered", NEW i \in DOMAIN batch[n]
               PROVE  /\ job'[<<n, i>>].at = "done"
                      /\ job'[<<n, i>>].outcome = "cyclic" <=> i \in Stuck(n)
    BY <1>2, <1>15 DEF DoesAllItCan
  <2>1. <<n, i>> \in Jobs
    BY <1>1, BatchTyped
  <2>2. CASE n # m
    BY <1>1, <1>6, <1>9, <2>1, <2>2 DEF DoesAllItCan
  <2>3. CASE n = m /\ i \in Pending(m)
    BY <1>3, <1>6, <1>17, <2>1, <2>3
  <2>4. CASE n = m /\ i \notin Pending(m)
    <3>1. job[<<n, i>>].at = "done"
      BY <1>2, <2>4 DEF Between, Pending
    <3>2. job[<<n, i>>].outcome # "cyclic" /\ i \notin Stuck(n)
      BY <1>1, <1>2, <2>1, <2>4, <3>1 DEF Unstuck
    <3>3. QED
      BY <1>6, <2>1, <2>4, <3>1, <3>2
  <2>5. QED
    BY <2>2, <2>3, <2>4
<1>19. QED
  BY <1>10, <1>11, <1>12, <1>14, <1>16, <1>18 DEF WritesInv

LEMMA OutsideKeeps ==
    ASSUME WritesInv, UNCHANGED <<enhanced, wanted, stage, batch, captured, job>>,
           running' \in BOOLEAN, looks' \in [Windows -> Seq(Looks)]
    PROVE  WritesInv'
<1>1. WritesOK' /\ Concluded'
  BY DEF WritesInv, WritesOK, Concluded, InBatch
<1>2. Borrowed' /\ FlagIsOwed'
  BY DEF WritesInv, Borrowed, FlagIsOwed, Inside, App, Op
<1>3. OneAtATime'
  BY DEF WritesInv, OneAtATime, Active, Op, WithResult
<1>4. \A m : Stuck(m)' = Stuck(m)
  BY DEF Stuck
<1>5. Unstuck' /\ DoesAllItCan'
  BY <1>4 DEF WritesInv, Unstuck, DoesAllItCan
<1>6. QED
  BY <1>1, <1>2, <1>3, <1>5 DEF WritesInv

LEMMA WritesStep == WritesInv /\ [WritesNext]_writesVars => WritesInv'
<1> SUFFICES ASSUME WritesInv, [WritesNext]_writesVars
             PROVE  WritesInv'
  OBVIOUS
<1>1. running \in BOOLEAN /\ looks \in [Windows -> Seq(Looks)]
  BY DEF WritesInv, WritesOK
<1>2. ASSUME NEW w \in Windows, Replace(w)
      PROVE  WritesInv'
  <2>1. UNCHANGED <<running, enhanced, wanted, stage, batch, captured, job>>
    BY <1>2 DEF Replace
  <2>2. looks' \in [Windows -> Seq(Looks)]
    BY <1>1, <1>2 DEF Replace
  <2>3. QED
    BY <1>1, <2>1, <2>2, OutsideKeeps
<1>3. CASE Terminate
  BY <1>1, <1>3, OutsideKeeps DEF Terminate
<1>4. CASE UNCHANGED writesVars
  BY <1>1, <1>4, OutsideKeeps DEF writesVars
<1>5. QED
  BY <1>2, <1>3, <1>4, ReceiveKeeps, WaveKeeps, ReplyKeeps, TurnKeeps DEF WritesNext

LEMMA WritesSafe == WritesSpec => []WritesInv
<1>1. QED
  BY WritesStart, WritesStep, PTL DEF WritesSpec

\* As long as the sidecar runs, an application's flag is what it was or is owed by a write
\* whose request is still open, however writes overlap and fail: for any requests, windows
\* and applications.  Of a sidecar that is terminated it says nothing.
THEOREM FlagIsOwedWhileOpen == WritesSpec => []FlagIsRestored
<1>1. WritesInv => FlagIsRestored
  <2> SUFFICES ASSUME WritesInv, NEW a \in Apps, enhanced[a] # wanted[a]
               PROVE  wanted[a] /\ \E j \in Jobs : /\ stage[j[1]] = "open" /\ Inside(j)
                                                   /\ App(j) = a /\ job[j].was
    BY DEF FlagIsRestored
  <2>1. wanted[a]
    BY DEF WritesInv, FlagIsOwed
  <2>2. PICK j \in Jobs : Inside(j) /\ App(j) = a /\ job[j].was
    BY DEF WritesInv, FlagIsOwed
  <2>3. job[j].at = "writing" /\ j[1] \in Messages /\ j = <<j[1], j[2]>>
    BY <2>2 DEF Inside, Jobs
  <2>4. InBatch(j) /\ stage[j[1]] # "unsent"
    BY <2>2, <2>3 DEF WritesInv, Concluded
  <2>5. stage[j[1]] # "answered"
    BY <2>3, <2>4 DEF WritesInv, DoesAllItCan, InBatch
  <2>6. stage[j[1]] = "open"
    BY <2>3, <2>4, <2>5 DEF WritesInv, WritesOK
  <2>7. QED
    BY <2>1, <2>2, <2>6
<1>2. QED
  BY <1>1, WritesSafe, PTL

\* The waves of a batch keep its operations apart and in order, for batches of
\* any length.
THEOREM WavesAreOrdered == WritesSpec => []OneAtATime
<1>1. WritesInv => OneAtATime
  BY DEF WritesInv
<1>2. QED
  BY <1>1, WritesSafe, PTL

\* A batch leaves undone what waits for itself, and nothing else.
THEOREM BatchesAreDone == WritesSpec => []DoesAllItCan
<1>1. WritesInv => DoesAllItCan
  BY DEF WritesInv
<1>2. QED
  BY <1>1, WritesSafe, PTL

\* Both, as the run checks them.
THEOREM BatchesAreSound == WritesSpec => []WavesAreSound
<1>1. OneAtATime /\ DoesAllItCan => WavesAreSound
  BY DEF WavesAreSound
<1>2. QED
  BY <1>1, WavesAreOrdered, BatchesAreDone, PTL

\* What is reported of a window is of the window the request was about, or of one that
\* looks like it.
THEOREM ReportsAreOfTheAsked == WritesSpec => ReportsItsOwn
<1>1. WritesInv /\ [WritesNext]_writesVars =>
        [\A j \in Jobs : job[j].at # "done" /\ job'[j].outcome \in {"settled", "unsettled"} => Same(j)]_writesVars
  <2> SUFFICES ASSUME WritesInv, WritesNext, NEW j \in Jobs, job[j].at # "done",
                      job'[j].outcome \in {"settled", "unsettled"}
               PROVE  Same(j)
    OBVIOUS
  <2>1. job[j].outcome = "none" /\ WritesOK /\ Concluded
    BY DEF WritesInv, Concluded
  <2>2. job'[j] # job[j]
    BY <2>1
  <2>3. CASE \E k \in Jobs : Turn(k)
    <3>1. PICK k \in Jobs : Turn(k)
      BY <2>3
    <3>2. PICK s : Makes(k, s) /\ job' = [job EXCEPT ![k] = s]
      BY <2>1, <3>1, TurnMakes
    <3>3. k = j /\ job'[j] = s
      BY <2>1, <2>2, <3>2 DEF WritesOK
    <3>4. QED
      BY <3>2, <3>3 DEF Makes
  <2>4. CASE \E m \in Messages : Wave(m)
    <3>1. [Fresh EXCEPT !.at = "ready"].outcome = "none"
      BY DEF Fresh
    <3>2. QED
      BY <2>2, <2>4, <3>1 DEF Wave
  <2>5. CASE \E m \in Messages : Reply(m)
    <3>1. Finished("cyclic").outcome = "cyclic"
      BY FinishedTyped DEF Outcomes
    <3>2. QED
      BY <2>2, <2>5, <3>1 DEF Reply
  <2>6. QED
    BY <2>2, <2>3, <2>4, <2>5 DEF WritesNext, Receive, Replace, Terminate
<1> DEFINE Own(j) == LET past == looks[Op(j).window]
                         k == captured[j[1]][Op(j).window]
                     IN  k = Len(past) \/ past[k] = past[Len(past)]
<1>2. WritesInv /\ [WritesNext]_writesVars =>
        [\A j \in Jobs : job[j].at # "done" /\ job'[j].outcome \in {"settled", "unsettled"} => Own(j)]_writesVars
  <2>1. \A j \in Jobs : Same(j) => Own(j)
    BY DEF Same
  <2> HIDE DEF Own
  <2>2. QED
    BY <1>1, <2>1
<1>3. QED
  BY <1>2, WritesSafe, PTL DEF WritesSpec, ReportsItsOwn

-----------------------------------------------------------------------------
(* The inventory.                                                          *)

Observations ==
    [window : AXWindows, frame : Frames \cup {Nowhere}, minimized : BOOLEAN, focused : BOOLEAN,
     whole : BOOLEAN]

InventoryOK ==
    /\ open \subseteq AXWindows /\ frame \in [AXWindows -> Frames]
    /\ refresh \in [RefreshTasks ->
          [at : {"idle", "collecting"}, asked : SUBSET Pids, waiting : SUBSET Pids,
           failed : SUBSET Pids, read : Seq(Observations), disturbed : SUBSET Pids,
           left : SUBSET Pids]]
    /\ stalledPids \subseteq Pids
    /\ latest.left \subseteq Pids

\* What a refresh has read holds still, unless the application was disturbed since.
ReadOnce(r) ==
    /\ r.at = "idle" => r.waiting = {} /\ r.read = <<>>
    /\ \A i \in DOMAIN r.read : PidOf[r.read[i].window] \notin r.waiting
    /\ \A i, j \in DOMAIN r.read : r.read[i].window = r.read[j].window => i = j

HoldsStill(r) ==
    \A i \in DOMAIN r.read :
        PidOf[r.read[i].window] \notin r.disturbed =>
            /\ r.read[i].window \in open
            /\ r.read[i].frame \in {frame[r.read[i].window], Nowhere}

\* Who is without an answer now was asked by the refresh that ended last.
AsksAgain ==
    /\ \A t \in RefreshTasks : refresh[t].waiting \cup refresh[t].failed \subseteq refresh[t].asked
    /\ latest.left \cap stalledPids = {}

InventoryInv ==
    /\ InventoryOK /\ AsksAgain /\ InventoryIsSound
    /\ \A t \in RefreshTasks : ReadOnce(refresh[t]) /\ HoldsStill(refresh[t])

\* No other entry of the list has more to say for it than the window's own.
LEMMA OwnIsBest ==
    ASSUME InventoryOK, NEW o \in Observations, NEW available \in SUBSET AXWindows,
           o.window \in available, o.frame \in {frame[o.window], Nowhere},
           NEW s \in Matches(o, available)
    PROVE  s = o.window
<1> SUFFICES ASSUME s # o.window
             PROVE  FALSE
  OBVIOUS
<1> DEFINE w == o.window
<1>1. s \in available /\ Joinable(o, s) /\ ~SameNumber(o, s)
  BY DEF Matches, Candidates, SameNumber
<1>2. frame[s] \in Frames /\ Nowhere \notin Frames /\ <<Nowhere, frame[s]>> \notin Near
  BY <1>1, InventoryAssumption DEF InventoryOK
<1>3. o.frame = frame[w]
  BY <1>1, <1>2 DEF Joinable, SameFrame
<1>4. Joinable(o, w) /\ SameFrame(o, w) /\ (SameTitle(o, s) => SameTitle(o, w))
  BY <1>1, <1>3 DEF Joinable, SameFrame, SameTitle
<1>5. w \in Candidates(o, available) \ {s}
  BY <1>4 DEF Candidates
<1>6. Score(o, w) < Score(o, s)
  BY <1>5 DEF Matches
<1>7. Score(o, s) <= Score(o, w)
  BY <1>1, <1>4 DEF Score
<1>8. Score(o, s) \in Nat /\ Score(o, w) \in Nat
  BY DEF Score
<1>9. QED
  BY <1>6, <1>7, <1>8

\* Therefore the first window to be given another's entry would find its own still there.
LEMMA JoinsItsOwn ==
    ASSUME InventoryOK, NEW r, r.read \in Seq(Observations), ReadOnce(r), HoldsStill(r),
           NEW join \in [DOMAIN r.read -> open \cup {Nobody}], IsJoin(join, r.read),
           NEW i \in DOMAIN r.read, PidOf[r.read[i].window] \notin r.disturbed,
           join[i] # Nobody
    PROVE  join[i] = r.read[i].window
<1> DEFINE Strays == {k \in DOMAIN r.read :
                        /\ PidOf[r.read[k].window] \notin r.disturbed
                        /\ join[k] # Nobody /\ join[k] # r.read[k].window}
<1> SUFFICES ASSUME Strays # {}
             PROVE  FALSE
  OBVIOUS
<1>1. DOMAIN r.read = 1 .. Len(r.read) /\ Len(r.read) \in Nat
  OBVIOUS
<1>2. Strays \subseteq Nat
  BY <1>1
<1> HIDE DEF Strays
<1>3. PICK k \in Strays : \A n \in Strays : ~(n < k)
  BY <1>2, LeastExists
<1> DEFINE o == r.read[k]
           available == open \ {join[j] : j \in 1 .. (k - 1)}
<1>5. /\ k \in DOMAIN r.read /\ PidOf[o.window] \notin r.disturbed
      /\ join[k] # Nobody /\ join[k] # o.window /\ o \in Observations
  BY <1>3, ElementOfSeq, <1>1 DEF Strays
<1>6. join[k] \in Matches(o, available)
  BY <1>5 DEF IsJoin
<1>7. o.window \in open /\ o.frame \in {frame[o.window], Nowhere}
  BY <1>5 DEF HoldsStill
<1>8. o.window \in available
  <2> SUFFICES ASSUME NEW j \in 1 .. (k - 1), join[j] = o.window
               PROVE  FALSE
    BY <1>7
  <2>1. j \in DOMAIN r.read /\ j < k /\ j # k
    BY <1>1, <1>5
  <2>2. r.read[j] \in Observations /\ o.window \in AXWindows
    BY <1>5, <2>1, <1>1, ElementOfSeq DEF Observations
  <2>3. r.read[j].window # o.window
    BY <1>5, <2>1 DEF ReadOnce
  <2>4. join[j] # Nobody
    BY <2>2, InventoryAssumption
  <2>5. join[j] \in Matches(r.read[j], open \ {join[n] : n \in 1 .. (j - 1)})
    BY <2>1, <2>4 DEF IsJoin
  <2>6. PidOf[o.window] = PidOf[r.read[j].window]
    BY <2>5 DEF Matches, Candidates, Joinable
  <2>7. j \in Strays
    BY <1>5, <2>1, <2>3, <2>4, <2>6 DEF Strays
  <2>8. QED
    BY <1>3, <2>1, <2>7
<1>9. available \in SUBSET AXWindows
  BY DEF InventoryOK
<1>10. QED
  BY <1>5, <1>6, <1>7, <1>8, <1>9, OwnIsBest

\* An id is listed for the last of those reported under it.
LEMMA CurrentIsReported ==
    ASSUME NEW read \in Seq(Observations), NEW join, NEW id \in DOMAIN Current(read, join)
    PROVE  \E i \in Reported(read, join) :
              StableId(read, join, i) = id /\ Current(read, join)[id] = read[i]
<1> DEFINE U == Under(read, join, id)
           Left == {Len(read) - i : i \in U}
<1>1. U # {} /\ U \subseteq 1 .. Len(read) /\ Len(read) \in Nat
  BY DEF Current, Under, Reported
<1>2. Left # {} /\ Left \subseteq Nat
  BY <1>1
<1> HIDE DEF Left
<1>3. PICK n \in Left : \A k \in Left : ~(k < n)
  BY <1>2, LeastExists
<1>5. PICK i \in U : n = Len(read) - i
  BY <1>3 DEF Left
<1>6. \A k \in U : k <= i
  <2> TAKE k \in U
  <2>1. Len(read) - k \in Left /\ k \in Int /\ i \in Int
    BY <1>1 DEF Left
  <2>2. ~(Len(read) - k < Len(read) - i)
    BY <1>3, <1>5, <2>1
  <2>3. QED
    BY <1>1, <2>1, <2>2
<1> DEFINE last == CHOOSE l \in U : \A k \in U : k <= l
<1>7. last \in U
  BY <1>6
<1>8. Current(read, join)[id] = read[last]
  BY DEF Current
<1>9. QED
  BY <1>7, <1>8 DEF Under

-----------------------------------------------------------------------------
LEMMA InventoryStart == InventoryInit => InventoryInv
<1> SUFFICES ASSUME InventoryInit
             PROVE  InventoryInv
  OBVIOUS
<1> USE DEF InventoryInit
<1>1. Idle.read = <<>> /\ Idle.read \in Seq(Observations) /\ DOMAIN Idle.read = {}
  BY DEF Idle
<1>2. InventoryOK /\ AsksAgain
  BY <1>1 DEF InventoryOK, AsksAgain, Idle
<1>3. \A t \in RefreshTasks : ReadOnce(refresh[t]) /\ HoldsStill(refresh[t])
  BY <1>1 DEF ReadOnce, HoldsStill, Idle
<1>4. EventsTellAll /\ NobodyIsForgotten
  BY DEF EventsTellAll, NobodyIsForgotten, Busy, Idle
<1>5. DOMAIN lastWindows = {}
  OBVIOUS
<1>6. NoGhosts /\ NamesAreOwn
  BY <1>5 DEF NoGhosts, NamesAreOwn
<1>7. QED
  BY <1>2, <1>3, <1>4, <1>6 DEF InventoryInv, InventoryIsSound

LEMMA BeginRefreshStep ==
    ASSUME InventoryInv, NEW t \in RefreshTasks, BeginRefresh(t)
    PROVE  InventoryInv'
<1>1. PICK retried \in SUBSET stalledPids :
        LET asked == (Pids \ stalledPids) \cup retried
        IN  refresh' = [refresh EXCEPT ![t] =
                [at |-> "collecting", asked |-> asked, waiting |-> asked, failed |-> {},
                 read |-> <<>>, disturbed |-> {}, left |-> latest.left]]
  BY DEF BeginRefresh
<1> DEFINE asked == (Pids \ stalledPids) \cup retried
           new == [at |-> "collecting", asked |-> asked, waiting |-> asked, failed |-> {},
                   read |-> <<>>, disturbed |-> {}, left |-> latest.left]
<1>2. refresh' = [refresh EXCEPT ![t] = new]
  BY <1>1
<1>3. /\ UNCHANGED <<open, frame, minimized, front, lastWindows, lastFocusedId, stalledPids, told, latest>>
      /\ refresh \in [RefreshTasks ->
          [at : {"idle", "collecting"}, asked : SUBSET Pids, waiting : SUBSET Pids,
           failed : SUBSET Pids, read : Seq(Observations), disturbed : SUBSET Pids,
           left : SUBSET Pids]]
  BY DEF BeginRefresh, desktopVars, InventoryInv, InventoryOK
<1>4. asked \subseteq Pids /\ latest.left \subseteq asked
  BY DEF InventoryInv, InventoryOK, AsksAgain
<1> HIDE DEF asked
<1>5. refresh'[t] = new /\ \A u \in RefreshTasks \ {t} : refresh'[u] = refresh[u]
  BY <1>2, <1>3
<1>6. <<>> \in Seq(Observations) /\ DOMAIN <<>> = {}
  OBVIOUS
<1>7. InventoryOK'
  <2>1. new \in [at : {"idle", "collecting"}, asked : SUBSET Pids, waiting : SUBSET Pids,
           failed : SUBSET Pids, read : Seq(Observations), disturbed : SUBSET Pids,
           left : SUBSET Pids]
    BY <1>4, <1>6
  <2>2. QED
    BY <1>2, <1>3, <2>1 DEF InventoryInv, InventoryOK
<1>8. AsksAgain'
  BY <1>3, <1>5 DEF InventoryInv, AsksAgain
<1>9. NobodyIsForgotten'
  BY <1>4, <1>5 DEF InventoryInv, InventoryIsSound, NobodyIsForgotten, Busy
<1>10. \A u \in RefreshTasks : ReadOnce(refresh'[u])
  BY <1>5, <1>6 DEF InventoryInv, ReadOnce
<1>11. \A u \in RefreshTasks : HoldsStill(refresh[u])'
  BY <1>3, <1>5, <1>6 DEF InventoryInv, HoldsStill
<1>12. (EventsTellAll /\ NoGhosts /\ NamesAreOwn)'
  BY <1>3 DEF InventoryInv, InventoryIsSound, EventsTellAll, NoGhosts, NamesAreOwn
<1>13. QED
  BY <1>7, <1>8, <1>9, <1>10, <1>11, <1>12 DEF InventoryInv, InventoryIsSound

\* An application tells of each of its windows once, and where it is.
LEMMA ListingsTold ==
    ASSUME NEW p \in Pids, open \subseteq AXWindows, frame \in [AXWindows -> Frames],
           NEW listing \in Listings(p) \cup {<<>>}
    PROVE  /\ listing \in Seq(Observations)
           /\ \A i \in DOMAIN listing :
                 /\ PidOf[listing[i].window] = p /\ listing[i].window \in open
                 /\ listing[i].frame \in {frame[listing[i].window], Nowhere}
           /\ \A i, j \in DOMAIN listing : listing[i].window = listing[j].window => i = j
<1>1. CASE listing = <<>>
  BY <1>1
<1>2. CASE listing \in Listings(p)
  <2> DEFINE mine == {w \in open : PidOf[w] = p}
             N == Cardinality(mine)
  <2>1. PICK order \in Orderings(p), how \in {"whole", "torn", "frameless"} :
          listing = Listing(order, how)
    BY <1>2 DEF Listings
  <2>2. /\ order \in [1 .. N -> mine]
        /\ \A i, j \in 1 .. N : order[i] = order[j] => i = j
    BY <2>1 DEF Orderings
  <2>3. DOMAIN listing = 1 .. N
    BY <2>1, <2>2 DEF Listing
  <2>4. \A i \in 1 .. N :
          /\ order[i] \in mine /\ listing[i].window = order[i] /\ listing[i] \in Observations
          /\ listing[i].frame \in {frame[order[i]], Nowhere}
    <3> TAKE i \in 1 .. N
    <3> DEFINE h == IF order[i] \in Torn THEN how ELSE "whole"
    <3>1. listing[i] = Observation(order[i], h) /\ order[i] \in mine
      BY <2>1, <2>2 DEF Listing
    <3> HIDE DEF h
    <3>2. QED
      BY <3>1 DEF Observation, Observations
  <2>5. N \in Nat
    <3>1. mine \in SUBSET AXWindows
      OBVIOUS
    <3>2. IsFiniteSet(mine)
      BY <3>1, InventoryAssumption, FS_Subset
    <3>3. QED
      BY <3>2, FS_CardinalityType
  <2>6. listing \in Seq(Observations)
    <3>1. listing \in [1 .. N -> Observations]
      BY <2>1, <2>3, <2>4 DEF Listing
    <3> HIDE DEF N
    <3>2. QED
      BY <2>5, <3>1, SeqDef
  <2>7. QED
    BY <2>2, <2>3, <2>4, <2>6
<1>3. QED
  BY <1>1, <1>2

LEMMA EnumerateStep ==
    ASSUME InventoryInv, NEW t \in RefreshTasks, NEW p \in Pids, EnumerateAppWindows(t, p)
    PROVE  InventoryInv'
<1>1. /\ UNCHANGED <<open, frame, minimized, front, lastWindows, lastFocusedId, stalledPids, told, latest>>
      /\ p \in refresh[t].waiting
      /\ refresh \in [RefreshTasks ->
          [at : {"idle", "collecting"}, asked : SUBSET Pids, waiting : SUBSET Pids,
           failed : SUBSET Pids, read : Seq(Observations), disturbed : SUBSET Pids,
           left : SUBSET Pids]]
      /\ open \subseteq AXWindows /\ frame \in [AXWindows -> Frames]
  BY DEF EnumerateAppWindows, desktopVars, InventoryInv, InventoryOK
<1> DEFINE r == refresh[t]
           Collected(f, l) == [r EXCEPT !.waiting = @ \ {p}, !.failed = f, !.read = @ \o l]
<1>2. \E failed \in {r.failed, r.failed \cup {p}}, listing \in Listings(p) \cup {<<>>} :
        refresh' = [refresh EXCEPT ![t] = Collected(failed, listing)]
  <2>1. CASE p \in hung
    <3>1. r.read \o <<>> = r.read
      BY <1>1
    <3>2. refresh' = [refresh EXCEPT ![t] = [r EXCEPT !.waiting = @ \ {p}, !.failed = @ \cup {p}]]
      BY <1>1, <2>1 DEF EnumerateAppWindows
    <3>3. [r EXCEPT !.waiting = @ \ {p}, !.failed = @ \cup {p}] = Collected(r.failed \cup {p}, <<>>)
      BY <1>1, <3>1
    <3>4. refresh' = [refresh EXCEPT ![t] = Collected(r.failed \cup {p}, <<>>)]
      BY <3>2, <3>3
    <3> HIDE DEF Collected, r
    <3>5. QED
      BY <3>4
  <2>2. CASE p \notin hung
    <3>1. PICK listing \in Listings(p) :
            refresh' = [refresh EXCEPT ![t] = [r EXCEPT !.waiting = @ \ {p}, !.read = @ \o listing]]
      BY <1>1, <2>2 DEF EnumerateAppWindows
    <3>2. [r EXCEPT !.waiting = @ \ {p}, !.read = @ \o listing] = Collected(r.failed, listing)
      BY <1>1
    <3>3. refresh' = [refresh EXCEPT ![t] = Collected(r.failed, listing)]
      BY <3>1, <3>2
    <3> HIDE DEF Collected, r
    <3>4. QED
      BY <3>3
  <2>3. QED
    BY <2>1, <2>2
<1>3. PICK failed \in {r.failed, r.failed \cup {p}}, listing \in Listings(p) \cup {<<>>} :
        refresh' = [refresh EXCEPT ![t] = Collected(failed, listing)]
  BY <1>2
<1> DEFINE s == Collected(failed, listing)
<1>4. /\ listing \in Seq(Observations)
      /\ \A i \in DOMAIN listing :
            /\ PidOf[listing[i].window] = p /\ listing[i].window \in open
            /\ listing[i].frame \in {frame[listing[i].window], Nowhere}
      /\ \A i, j \in DOMAIN listing : listing[i].window = listing[j].window => i = j
  BY <1>1, <1>3, ListingsTold
<1>5. /\ r.read \in Seq(Observations) /\ r.waiting \subseteq Pids /\ r.failed \subseteq Pids
      /\ r \in [at : {"idle", "collecting"}, asked : SUBSET Pids, waiting : SUBSET Pids,
           failed : SUBSET Pids, read : Seq(Observations), disturbed : SUBSET Pids,
           left : SUBSET Pids]
  BY <1>1
<1>6. /\ s.waiting = r.waiting \ {p} /\ s.failed = failed /\ s.read = r.read \o listing
      /\ s.at = r.at /\ s.asked = r.asked /\ s.disturbed = r.disturbed /\ s.left = r.left
  BY <1>5
<1>7. s.read \in Seq(Observations)
  BY <1>4, <1>5, <1>6
<1>8. s \in [at : {"idle", "collecting"}, asked : SUBSET Pids, waiting : SUBSET Pids,
           failed : SUBSET Pids, read : Seq(Observations), disturbed : SUBSET Pids,
           left : SUBSET Pids]
  <2>1. failed \subseteq Pids
    BY <1>3, <1>5
  <2>2. QED
    BY <1>5, <1>6, <1>7, <2>1
<1>9. refresh' = [refresh EXCEPT ![t] = s]
  BY <1>3
<1> HIDE DEF s
<1>10. refresh'[t] = s /\ \A u \in RefreshTasks \ {t} : refresh'[u] = refresh[u]
  BY <1>1, <1>9
<1>11. InventoryOK'
  BY <1>1, <1>8, <1>9 DEF InventoryInv, InventoryOK
<1>12. AsksAgain'
  <2>1. r.waiting \cup r.failed \subseteq r.asked
    BY DEF InventoryInv, AsksAgain
  <2>2. s.waiting \cup s.failed \subseteq s.asked
    BY <1>1, <1>3, <1>6, <2>1
  <2>3. QED
    BY <1>1, <1>10, <2>2 DEF InventoryInv, AsksAgain
<1>13. ReadOnce(s) /\ HoldsStill(s)
  <2>1. ReadOnce(r) /\ HoldsStill(r)
    BY DEF InventoryInv
  <2> DEFINE n == Len(r.read)
  <2>2. /\ n \in Nat /\ DOMAIN r.read = 1 .. n /\ DOMAIN listing = 1 .. Len(listing)
        /\ Len(listing) \in Nat /\ DOMAIN s.read = 1 .. (n + Len(listing))
    BY <1>4, <1>5, <1>6
  <2>3. \A i \in DOMAIN s.read :
          \/ i \in DOMAIN r.read /\ s.read[i] = r.read[i]
          \/ i \notin DOMAIN r.read /\ i - n \in DOMAIN listing /\ s.read[i] = listing[i - n]
    BY <1>4, <1>5, <1>6, <2>2
  <2>4. \A i \in DOMAIN r.read : PidOf[r.read[i].window] \notin s.waiting /\ PidOf[r.read[i].window] # p
    BY <1>1, <1>6, <2>1 DEF ReadOnce
  <2>5. \A i \in DOMAIN s.read : PidOf[s.read[i].window] \notin s.waiting
    BY <1>4, <1>6, <2>3, <2>4
  <2>6. s.at # "idle"
    BY <1>1, <1>6, <2>1 DEF ReadOnce
  <2>7. ASSUME NEW i \in DOMAIN s.read, NEW j \in DOMAIN s.read, s.read[i].window = s.read[j].window
        PROVE  i = j
    <3>1. CASE i \in DOMAIN r.read /\ j \in DOMAIN r.read
      BY <2>1, <2>3, <2>7, <3>1 DEF ReadOnce
    <3>2. CASE i \notin DOMAIN r.read /\ j \notin DOMAIN r.read
      <4>1. i - n = j - n
        BY <1>4, <2>3, <2>7, <3>2
      <4>2. QED
        BY <2>2, <4>1
    <3>3. CASE i \in DOMAIN r.read /\ j \notin DOMAIN r.read
      BY <1>4, <2>3, <2>4, <2>7, <3>3
    <3>4. CASE i \notin DOMAIN r.read /\ j \in DOMAIN r.read
      BY <1>4, <2>3, <2>4, <2>7, <3>4
    <3>5. QED
      BY <3>1, <3>2, <3>3, <3>4
  <2>8. HoldsStill(s)
    BY <1>4, <1>6, <2>1, <2>3 DEF HoldsStill
  <2>9. QED
    BY <2>5, <2>6, <2>7, <2>8 DEF ReadOnce
<1>14. \A u \in RefreshTasks : ReadOnce(refresh'[u])
  BY <1>10, <1>13 DEF InventoryInv
<1>15. \A u \in RefreshTasks : HoldsStill(refresh[u])'
  BY <1>1, <1>10, <1>13 DEF InventoryInv, HoldsStill
<1>16. NobodyIsForgotten'
  BY <1>6, <1>10 DEF InventoryInv, InventoryIsSound, NobodyIsForgotten, Busy
<1>17. (EventsTellAll /\ NoGhosts /\ NamesAreOwn)'
  BY <1>1 DEF InventoryInv, InventoryIsSound, EventsTellAll, NoGhosts, NamesAreOwn
<1>18. QED
  BY <1>11, <1>12, <1>14, <1>15, <1>16, <1>17 DEF InventoryInv, InventoryIsSound

\* Who has heard everything so far and hears of the difference has what is listed now.
LEMMA HearsTheDifference ==
    ASSUME NEW previous, NEW current, current = [id \in DOMAIN current |-> current[id]]
    PROVE  Hears(previous, previous, current) = current
<1> DEFINE added == DOMAIN current \ DOMAIN previous
           removed == DOMAIN previous \ DOMAIN current
           changed == {id \in DOMAIN current \cap DOMAIN previous : previous[id] # current[id]}
<1>1. (DOMAIN previous \cup added \cup changed) \ removed = DOMAIN current
  OBVIOUS
<1>2. \A id \in DOMAIN current :
        (IF id \in added \cup changed THEN current[id] ELSE previous[id]) = current[id]
  OBVIOUS
<1>3. Hears(previous, previous, current) =
        [id \in DOMAIN current |-> IF id \in added \cup changed THEN current[id] ELSE previous[id]]
  BY <1>1 DEF Hears
<1> HIDE DEF added, removed, changed
<1>4. QED
  BY <1>2, <1>3

LEMMA EndRefreshStep ==
    ASSUME InventoryInv, NEW t \in RefreshTasks, EndRefresh(t)
    PROVE  InventoryInv'
<1> DEFINE r == refresh[t]
<1>1. PICK join \in [DOMAIN r.read -> open \cup {Nobody}] :
        /\ IsJoin(join, r.read)
        /\ lastWindows' = Current(r.read, join)
        /\ told' = Hears(told, lastWindows, Current(r.read, join))
        /\ lastFocusedId' \in (IF FocusedIds(Current(r.read, join)) = {} THEN {Nobody}
                               ELSE FocusedIds(Current(r.read, join)))
  BY DEF EndRefresh
<1> DEFINE current == Current(r.read, join)
<1>2. /\ UNCHANGED <<open, frame, minimized, front>>
      /\ stalledPids' = r.failed
      /\ latest' = [open |-> open, left |-> Pids \ r.asked, disturbed |-> r.disturbed]
      /\ refresh' = [refresh EXCEPT ![t] = Idle]
  BY DEF EndRefresh, desktopVars
<1>3. /\ InventoryOK /\ ReadOnce(r) /\ HoldsStill(r) /\ told = lastWindows
      /\ r.failed \subseteq r.asked /\ r.failed \subseteq Pids
      /\ r.read \in Seq(Observations)
  BY DEF InventoryInv, InventoryOK, InventoryIsSound, EventsTellAll, AsksAgain
<1>4. /\ Idle \in [at : {"idle", "collecting"}, asked : SUBSET Pids, waiting : SUBSET Pids,
           failed : SUBSET Pids, read : Seq(Observations), disturbed : SUBSET Pids,
           left : SUBSET Pids]
      /\ ReadOnce(Idle) /\ HoldsStill(Idle)' /\ Idle.at = "idle"
      /\ Idle.waiting \cup Idle.failed \subseteq Idle.asked
  <2>1. <<>> \in Seq(Observations) /\ DOMAIN <<>> = {}
    OBVIOUS
  <2>2. QED
    BY <2>1 DEF Idle, ReadOnce, HoldsStill
<1>5. refresh'[t] = Idle /\ \A u \in RefreshTasks \ {t} : refresh'[u] = refresh[u]
  BY <1>2, <1>3 DEF InventoryOK
<1>6. InventoryOK'
  BY <1>2, <1>3, <1>4 DEF InventoryOK
<1>7. AsksAgain' /\ NobodyIsForgotten'
  <2>1. AsksAgain'
    BY <1>2, <1>3, <1>4, <1>5 DEF InventoryInv, AsksAgain
  <2>2. NobodyIsForgotten'
    BY <1>4, <1>5 DEF InventoryInv, InventoryIsSound, NobodyIsForgotten, Busy
  <2>3. QED
    BY <2>1, <2>2
<1>8. \A u \in RefreshTasks : ReadOnce(refresh[u])' /\ HoldsStill(refresh[u])'
  BY <1>2, <1>4, <1>5 DEF InventoryInv, ReadOnce, HoldsStill
<1>9. EventsTellAll'
  <2>1. current = [id \in DOMAIN current |-> current[id]]
    BY DEF Current
  <2> HIDE DEF current
  <2>2. told' = current
    BY <1>1, <1>3, <2>1, HearsTheDifference DEF current
  <2>3. lastWindows' = current /\ lastFocusedId' \in DOMAIN current \cup {Nobody}
    BY <1>1 DEF current, FocusedIds
  <2>4. QED
    BY <2>2, <2>3 DEF EventsTellAll
<1>10. ASSUME NEW id \in DOMAIN current
       PROVE  \E i \in DOMAIN r.read :
                /\ current[id] = r.read[i] /\ StableId(r.read, join, i) = id
                /\ join[i] # Nobody \/ r.read[i].minimized
  BY <1>3, CurrentIsReported DEF Reported
<1>11. NoGhosts'
  <2> SUFFICES ASSUME NEW id \in DOMAIN current, ~current[id].minimized
               PROVE  id \in {Named(w) : w \in open}
    BY <1>1, <1>2 DEF NoGhosts
  <2>1. PICK i \in DOMAIN r.read : StableId(r.read, join, i) = id /\ join[i] # Nobody
    BY <1>10
  <2>2. id = Named(join[i]) /\ join[i] \in open
    BY <1>1, <2>1 DEF StableId
  <2>3. QED
    BY <2>2
<1>12. NamesAreOwn'
  <2> SUFFICES ASSUME NEW id \in DOMAIN current, id[1] = "cg",
                      PidOf[current[id].window] \notin r.disturbed
               PROVE  id = Named(current[id].window)
    BY <1>1, <1>2 DEF NamesAreOwn, Named
  <2>1. PICK i \in DOMAIN r.read : current[id] = r.read[i] /\ StableId(r.read, join, i) = id
    BY <1>10
  <2>2. CASE join[i] # Nobody
    <3>1. join[i] = r.read[i].window
      BY <1>1, <1>3, <2>1, <2>2, JoinsItsOwn
    <3>2. QED
      BY <2>1, <2>2, <3>1 DEF StableId
  <2>3. CASE join[i] = Nobody
    BY <2>1, <2>3 DEF StableId
  <2>4. QED
    BY <2>2, <2>3
<1>13. QED
  BY <1>6, <1>7, <1>8, <1>9, <1>11, <1>12 DEF InventoryInv, InventoryIsSound

\* What a change disturbs is forgotten of a refresh that has read it; nothing else of
\* the refreshes is changed.
LEMMA DisturbsOne ==
    ASSUME InventoryInv, NEW p \in Pids, Disturb(p), NEW t \in RefreshTasks
    PROVE  /\ refresh'[t] \in [at : {"idle", "collecting"}, asked : SUBSET Pids,
                waiting : SUBSET Pids, failed : SUBSET Pids, read : Seq(Observations),
                disturbed : SUBSET Pids, left : SUBSET Pids]
           /\ refresh'[t].at = refresh[t].at /\ refresh'[t].asked = refresh[t].asked
           /\ refresh'[t].waiting = refresh[t].waiting /\ refresh'[t].failed = refresh[t].failed
           /\ refresh'[t].read = refresh[t].read /\ refresh'[t].left = refresh[t].left
           /\ refresh[t].disturbed \subseteq refresh'[t].disturbed
           /\ \A i \in DOMAIN refresh[t].read :
                PidOf[refresh[t].read[i].window] = p => p \in refresh'[t].disturbed
<1> DEFINE r == refresh[t]
<1>1. /\ r \in [at : {"idle", "collecting"}, asked : SUBSET Pids, waiting : SUBSET Pids,
           failed : SUBSET Pids, read : Seq(Observations), disturbed : SUBSET Pids,
           left : SUBSET Pids]
      /\ ReadOnce(r)
  BY DEF InventoryInv, InventoryOK
<1>2. refresh'[t] = IF Busy(t) /\ p \notin r.waiting
                    THEN [r EXCEPT !.disturbed = @ \cup {p}] ELSE r
  BY DEF Disturb
<1>3. CASE Busy(t) /\ p \notin r.waiting
  <2> DEFINE s == [r EXCEPT !.disturbed = @ \cup {p}]
  <2>1. refresh'[t] = s
    BY <1>2, <1>3
  <2>2. /\ s \in [at : {"idle", "collecting"}, asked : SUBSET Pids, waiting : SUBSET Pids,
             failed : SUBSET Pids, read : Seq(Observations), disturbed : SUBSET Pids,
             left : SUBSET Pids]
        /\ s.at = r.at /\ s.asked = r.asked /\ s.waiting = r.waiting /\ s.failed = r.failed
        /\ s.read = r.read /\ s.left = r.left /\ s.disturbed = r.disturbed \cup {p}
    BY <1>1
  <2> HIDE DEF s
  <2>3. QED
    BY <2>1, <2>2
<1>4. CASE ~(Busy(t) /\ p \notin r.waiting)
  <2>1. refresh'[t] = r
    BY <1>2, <1>4
  <2>2. r.at = "collecting" => p \in r.waiting
    BY <1>4 DEF Busy
  <2>3. \A i \in DOMAIN r.read : PidOf[r.read[i].window] # p
    BY <1>1, <2>2 DEF ReadOnce
  <2>4. QED
    BY <1>1, <2>1, <2>3
<1>5. QED
  BY <1>3, <1>4

\* A change of the desktop keeps the invariant when the refreshes are undisturbed and
\* nothing they have read is closed or moved, or when the application is disturbed.
LEMMA DesktopChangeStep ==
    ASSUME InventoryInv,
           open' \subseteq AXWindows, frame' \in [AXWindows -> Frames],
           UNCHANGED <<lastWindows, lastFocusedId, stalledPids, told, latest>>,
           \/ UNCHANGED refresh /\ open \subseteq open' /\ UNCHANGED frame
           \/ \E p \in Pids :
                /\ Disturb(p)
                /\ \A w \in open : PidOf[w] # p => w \in open' /\ frame'[w] = frame[w]
    PROVE  InventoryInv'
<1>1. (EventsTellAll /\ NoGhosts /\ NamesAreOwn)'
  BY DEF InventoryInv, InventoryIsSound, EventsTellAll, NoGhosts, NamesAreOwn
<1>2. CASE UNCHANGED refresh /\ open \subseteq open' /\ UNCHANGED frame
  <2>1. InventoryOK' /\ AsksAgain'
    BY <1>2 DEF InventoryInv, InventoryOK, AsksAgain
  <2>2. NobodyIsForgotten'
    BY <1>2 DEF InventoryInv, InventoryIsSound, NobodyIsForgotten, Busy
  <2>3. \A t \in RefreshTasks : ReadOnce(refresh[t])' /\ HoldsStill(refresh[t])'
    BY <1>2 DEF InventoryInv, ReadOnce, HoldsStill
  <2>4. QED
    BY <1>1, <2>1, <2>2, <2>3 DEF InventoryInv, InventoryIsSound
<1>3. CASE \E p \in Pids : /\ Disturb(p)
                           /\ \A w \in open : PidOf[w] # p => w \in open' /\ frame'[w] = frame[w]
  <2>1. PICK p \in Pids :
          Disturb(p) /\ \A w \in open : PidOf[w] # p => w \in open' /\ frame'[w] = frame[w]
    BY <1>3
  <2>2. InventoryOK'
    <3>1. refresh' = [t \in RefreshTasks |-> refresh'[t]]
      BY <2>1 DEF Disturb
    <3>2. QED
      BY <2>1, <3>1, DisturbsOne DEF InventoryInv, InventoryOK
  <2>3. AsksAgain' /\ NobodyIsForgotten'
    BY <2>1, DisturbsOne DEF InventoryInv, InventoryIsSound, AsksAgain, NobodyIsForgotten, Busy
  <2>4. \A t \in RefreshTasks : ReadOnce(refresh[t])'
    BY <2>1, DisturbsOne DEF InventoryInv, ReadOnce
  <2>5. ASSUME NEW t \in RefreshTasks, NEW i \in DOMAIN refresh'[t].read,
               PidOf[refresh'[t].read[i].window] \notin refresh'[t].disturbed
        PROVE  /\ refresh'[t].read[i].window \in open'
               /\ refresh'[t].read[i].frame \in {frame'[refresh'[t].read[i].window], Nowhere}
    <3> DEFINE o == refresh[t].read[i]
    <3>1. i \in DOMAIN refresh[t].read /\ refresh'[t].read[i] = o
      BY <2>1, <2>5, DisturbsOne
    <3>2. PidOf[o.window] \notin refresh[t].disturbed /\ PidOf[o.window] # p
      BY <2>1, <2>5, <3>1, DisturbsOne
    <3>3. o.window \in open /\ o.frame \in {frame[o.window], Nowhere}
      BY <3>1, <3>2 DEF InventoryInv, HoldsStill
    <3>4. QED
      BY <2>1, <3>1, <3>2, <3>3
  <2>6. \A t \in RefreshTasks : HoldsStill(refresh[t])'
    BY <2>5 DEF HoldsStill
  <2>7. QED
    BY <1>1, <2>2, <2>3, <2>4, <2>6 DEF InventoryInv, InventoryIsSound
<1>4. QED
  BY <1>2, <1>3

LEMMA DesktopStep ==
    ASSUME InventoryInv, Desktop
    PROVE  InventoryInv'
<1>1. /\ open \subseteq AXWindows /\ frame \in [AXWindows -> Frames]
      /\ UNCHANGED <<lastWindows, lastFocusedId, stalledPids, told, latest>>
      /\ \A w \in AXWindows : PidOf[w] \in Pids
  BY InventoryAssumption DEF Desktop, InventoryInv, InventoryOK
<1>2. ASSUME NEW w \in AXWindows, OpenAXWindow(w)
      PROVE  InventoryInv'
  BY <1>1, <1>2, DesktopChangeStep DEF OpenAXWindow
<1>3. ASSUME NEW w \in AXWindows, CloseAXWindow(w)
      PROVE  InventoryInv'
  <2>1. open' \subseteq AXWindows /\ frame' \in [AXWindows -> Frames] /\ Disturb(PidOf[w])
    BY <1>1, <1>3 DEF CloseAXWindow
  <2>2. \A v \in open : PidOf[v] # PidOf[w] => v \in open' /\ frame'[v] = frame[v]
    BY <1>3 DEF CloseAXWindow
  <2>3. QED
    BY <1>1, <2>1, <2>2, DesktopChangeStep
<1>4. ASSUME NEW w \in AXWindows, Minimize(w) \/ Activate(w)
      PROVE  InventoryInv'
  BY <1>1, <1>4, DesktopChangeStep DEF Minimize, Activate
<1>5. ASSUME NEW w \in AXWindows, NEW to \in Frames, MoveAXWindow(w, to)
      PROVE  InventoryInv'
  <2>1. open' \subseteq AXWindows /\ frame' \in [AXWindows -> Frames] /\ Disturb(PidOf[w])
    BY <1>1, <1>5 DEF MoveAXWindow
  <2>2. \A v \in open : PidOf[v] # PidOf[w] => v \in open' /\ frame'[v] = frame[v]
    BY <1>1, <1>5 DEF MoveAXWindow
  <2>3. QED
    BY <1>1, <2>1, <2>2, DesktopChangeStep
<1>6. ASSUME NEW p \in Pids, Hang(p)
      PROVE  InventoryInv'
  BY <1>1, <1>6, DesktopChangeStep DEF Hang
<1>7. QED
  BY <1>2, <1>3, <1>4, <1>5, <1>6 DEF Desktop

LEMMA InventorySafe == InventorySpec => []InventoryInv
<1>1. InventoryInv /\ [InventoryNext]_inventoryVars => InventoryInv'
  <2> SUFFICES ASSUME InventoryInv, [InventoryNext]_inventoryVars
               PROVE  InventoryInv'
    OBVIOUS
  <2>1. CASE \E t \in RefreshTasks : BeginRefresh(t) \/ EndRefresh(t)
    BY <2>1, BeginRefreshStep, EndRefreshStep
  <2>2. CASE \E t \in RefreshTasks, p \in Pids : EnumerateAppWindows(t, p)
    BY <2>2, EnumerateStep
  <2>3. CASE Desktop
    BY <2>3, DesktopStep
  <2>4. CASE UNCHANGED inventoryVars
    <3>1. UNCHANGED <<open, frame, refresh, lastWindows, lastFocusedId, stalledPids, told, latest>>
      BY <2>4 DEF inventoryVars, desktopVars
    <3>2. QED
      BY <3>1, DesktopChangeStep DEF InventoryInv, InventoryOK
  <2>5. QED
    BY <2>1, <2>2, <2>3, <2>4 DEF InventoryNext
<1>2. QED
  BY InventoryStart, <1>1, PTL DEF InventorySpec

\* However refreshes overlap with each other and with what happens on the desktop: who
\* follows the events has the inventory, which lists no closed window, lists windows
\* under their own numbers, and asks again who did not answer; for any applications and
\* windows, with and without the titles that need Screen Recording.
THEOREM InventoryHolds == InventorySpec => []InventoryIsSound
<1>1. InventoryInv => InventoryIsSound
  BY DEF InventoryInv
<1>2. QED
  BY <1>1, InventorySafe, PTL
=============================================================================
