----------------------------- MODULE SidecarHost -----------------------------
(***************************************************************************)
(* The host side of the macOS platform adapter and the sidecar process it  *)
(* talks to (packages/platform-macos/src/host.ts, sidecar-process.ts, and  *)
(* sidecar/Sources/wm-sidecar/Server.swift).                               *)
(*                                                                         *)
(* Requests go down one pipe and answers, the handshake and events come up *)
(* another.  Either process may end at any moment; the sidecar may take    *)
(* any time to answer, answer in any order, or never.  A request carries   *)
(* an id, and what the sidecar answers is known by the request it was for. *)
(***************************************************************************)
EXTENDS Integers, Sequences, FiniteSets

CONSTANTS
    Requests,     \* the calls of adapter methods
    Subscribe,    \* the request that the host makes itself
    MaxChanges    \* bound: changes of windows or displays

ASSUME SubscribeAssumption == Subscribe \notin Requests
ASSUME ChangesAssumption == MaxChanges \in Nat

VARIABLES
    alive,        \* host: neither stopped nor told that the sidecar has exited
    ready,        \* host: whenReady is resolved
    call,         \* host: where a call is, or how it ended
    answer,       \* host: the answer a call was given
    counter,      \* host: reqCounter
    pending,      \* host: the map from ids to requests
    events,       \* host: what has been pushed into the stream of events
    process,      \* sidecar: starting, running or gone
    subscribed,   \* sidecar
    working,      \* sidecar: requests being carried out
    changes,      \* the desktop: how many changes there have been
    stdin, stdout \* the pipes

hostVars == <<alive, ready, call, answer, counter, pending, events>>
sidecarVars == <<process, subscribed, working, changes>>
vars == <<hostVars, sidecarVars, stdin, stdout>>

None == "none"

Line(id, req) == [id |-> id, req |-> req]

\* What comes up the pipe.  An answer tells the desktop as of `seen` changes.
ReadyLine == [kind |-> "ready"]
EventLine(n) == [kind |-> "event", seen |-> n]
AnswerLine(line) == [kind |-> "answer", id |-> line.id, req |-> line.req, seen |-> changes]

Init ==
    /\ alive = TRUE /\ ready = FALSE
    /\ call = [r \in Requests |-> "idle"] /\ answer = [r \in Requests |-> None]
    /\ counter = 0 /\ pending = {} /\ events = <<>>
    /\ process = "starting" /\ subscribed = FALSE /\ working = {} /\ changes = 0
    /\ stdin = <<>> /\ stdout = <<>>

(***************************************************************************)
(* The host.                                                               *)
(***************************************************************************)

\* A method of the adapter: at once an error if the sidecar is known to be gone.
Call(r) ==
    /\ call[r] = "idle"
    /\ call' = [call EXCEPT ![r] = IF alive THEN "waiting" ELSE "failed"]
    /\ UNCHANGED <<alive, ready, answer, counter, pending, events, sidecarVars, stdin, stdout>>

Regression_BeforeHandshake(r) == call[r] = "waiting"

MaySend(r) == call[r] = "waiting" /\ ready

NextId == counter + 1

\* The continuation of request() after readySettled.  A call whose fiber was
\* interrupted goes on like any other (there is nothing to cancel it): only its
\* result is not wanted.
Send(r) ==
    /\ MaySend(r)
    /\ IF alive
       THEN /\ counter' = NextId
            /\ pending' = pending \cup {Line(NextId, r)}
            /\ stdin' = Append(stdin, Line(NextId, r))
            /\ call' = [call EXCEPT ![r] = "sent"]
       ELSE /\ call' = [call EXCEPT ![r] = "failed"]
            /\ UNCHANGED <<counter, pending, stdin>>
    /\ UNCHANGED <<alive, ready, answer, events, sidecarVars, stdout>>

\* complete() for some entries of the map, with the same outcome.
Settle(lines, outcome) ==
    /\ pending' = pending \ lines
    /\ call' = [r \in Requests |-> IF \E l \in lines : l.req = r THEN outcome ELSE call[r]]

Regression_NoDeadline(line) == line \in pending /\ line.req = Subscribe

MayTimeOut(line) == line \in pending

\* The deadline of 15 seconds.
Timeout(line) ==
    /\ MayTimeOut(line)
    /\ Settle({line}, "failed")
    /\ UNCHANGED <<alive, ready, answer, counter, events, sidecarVars, stdin, stdout>>

\* onLine, handshake: the subscription is written before any call goes on.
HearReady ==
    /\ alive /\ stdout # <<>> /\ Head(stdout).kind = "ready"
    /\ ready' = TRUE
    /\ counter' = NextId
    /\ pending' = pending \cup {Line(NextId, Subscribe)}
    /\ stdin' = Append(stdin, Line(NextId, Subscribe))
    /\ stdout' = Tail(stdout)
    /\ UNCHANGED <<alive, call, answer, events, sidecarVars>>

HearEvent ==
    /\ alive /\ stdout # <<>> /\ Head(stdout).kind = "event"
    /\ events' = Append(events, Head(stdout).seen)
    /\ stdout' = Tail(stdout)
    /\ UNCHANGED <<alive, ready, call, answer, counter, pending, sidecarVars, stdin>>

\* The line holds a result, or an error, or a result that is none of the request's.
Verdicts == {"answered", "failed"}

\* onLine, onResult: an id that is not in the map only makes an issue.
HearAnswer ==
    /\ alive /\ stdout # <<>> /\ Head(stdout).kind = "answer"
    /\ \E verdict \in Verdicts :
         LET entries == {l \in pending : l.id = Head(stdout).id}
             Given(r) == verdict = "answered" /\ \E l \in entries : l.req = r
         IN  /\ Settle(entries, verdict)
             /\ answer' = [r \in Requests |-> IF Given(r) THEN Head(stdout).req ELSE answer[r]]
    /\ stdout' = Tail(stdout)
    /\ UNCHANGED <<alive, ready, counter, events, sidecarVars, stdin>>

\* What is still in the pipe is not heard: readline is closed.
End == alive' = FALSE /\ stdout' = <<>> /\ Settle(pending, "failed")

HearExit ==
    /\ alive /\ process = "gone"
    /\ End
    /\ UNCHANGED <<ready, answer, counter, events, sidecarVars, stdin>>

Stop ==
    /\ alive
    /\ End
    /\ process' = "gone"
    /\ UNCHANGED <<ready, answer, counter, events, subscribed, working, changes, stdin>>

(***************************************************************************)
(* The sidecar.                                                            *)
(***************************************************************************)

Start ==
    /\ process = "starting"
    /\ process' = "running"
    /\ stdout' = Append(stdout, ReadyLine)
    /\ UNCHANGED <<hostVars, subscribed, working, changes, stdin>>

\* handle: requests are begun in the order in which they came.
Take ==
    /\ process = "running" /\ stdin # <<>>
    /\ stdin' = Tail(stdin)
    /\ IF Head(stdin).req = Subscribe
       THEN subscribed' = TRUE /\ stdout' = Append(stdout, AnswerLine(Head(stdin))) /\ UNCHANGED working
       ELSE working' = working \cup {Head(stdin)} /\ UNCHANGED <<subscribed, stdout>>
    /\ UNCHANGED <<hostVars, process, changes>>

Answer(line) ==
    /\ process = "running" /\ line \in working
    /\ working' = working \ {line}
    /\ stdout' = Append(stdout, AnswerLine(line))
    /\ UNCHANGED <<hostVars, process, subscribed, changes, stdin>>

\* A window or a display changes; forward() drops the event of an engine that
\* has not subscribed.
Change ==
    /\ process = "running" /\ changes < MaxChanges
    /\ changes' = changes + 1
    /\ stdout' = IF subscribed THEN Append(stdout, EventLine(changes + 1)) ELSE stdout
    /\ UNCHANGED <<hostVars, process, subscribed, working, stdin>>

Exit ==
    /\ process # "gone"
    /\ process' = "gone"
    /\ UNCHANGED <<hostVars, subscribed, working, changes, stdin, stdout>>

Next ==
    \/ \E r \in Requests : Call(r)
    \/ \E r \in Requests : Send(r)
    \/ \E line \in pending : Timeout(line)
    \/ \E line \in working : Answer(line)
    \/ HearReady \/ HearEvent \/ HearAnswer \/ HearExit \/ Stop
    \/ Start \/ Take \/ Change \/ Exit

\* Timers fire and continuations run; of the sidecar nothing is assumed.
Fairness ==
    /\ \A r \in Requests : WF_vars(Send(r))
    /\ WF_vars(\E line \in pending : Timeout(line))
    /\ WF_vars(HearExit)

Spec == Init /\ [][Next]_vars /\ Fairness

(***************************************************************************)
(* Properties.                                                             *)
(***************************************************************************)

Asked == [id : Nat, req : Requests \cup {Subscribe}]

Said ==
    {ReadyLine} \cup [kind : {"event"}, seen : Nat]
    \cup [kind : {"answer"}, id : Nat, req : Requests \cup {Subscribe}, seen : Nat]

TypeOK ==
    /\ alive \in BOOLEAN /\ ready \in BOOLEAN /\ subscribed \in BOOLEAN
    /\ call \in [Requests -> {"idle", "waiting", "sent", "answered", "failed"}]
    /\ answer \in [Requests -> Requests \cup {None, Subscribe}]
    /\ counter \in Nat /\ changes \in Nat
    /\ pending \subseteq Asked /\ working \subseteq Asked
    /\ stdin \in Seq(Asked) /\ stdout \in Seq(Said)
    /\ process \in {"starting", "running", "gone"}

\* A call is answered with the answer to its own request, however late the
\* answers to other calls come that have timed out or were interrupted: no id is
\* ever used for two requests (reqCounter and the map of pending requests).
OwnAnswer == \A r \in Requests : answer[r] \in {None, r}

Events == {i \in DOMAIN stdout : stdout[i].kind = "event"}

Told == {events[i] : i \in DOMAIN events} \cup {stdout[i].seen : i \in Events}

\* The changes that the engine is told of come one after the other.
InOrder ==
    /\ \A i, j \in DOMAIN events : i < j => events[i] < events[j]
    /\ \A i \in DOMAIN events, j \in Events : events[i] < stdout[j].seen
    /\ \A i, j \in Events : i < j => stdout[i].seen < stdout[j].seen
    /\ \A m, n \in Told : m..n \subseteq Told

\* An engine that has heard the answer to any call learns of every later change,
\* once and in order, as long as neither process ends: the subscription is in
\* force before the first call is carried out, also one that was made before the
\* handshake (onLine, request, dispatch and forward).
NothingMissed ==
    /\ InOrder
    /\ \A i \in DOMAIN stdout :
          alive /\ stdout[i].kind = "answer" => (stdout[i].seen + 1)..changes \subseteq Told

\* What the engine hears is what the sidecar has said: answers of its own, and no gap.
HeardAsSaid == OwnAnswer /\ NothingMissed

\* Once the handshake is there, every call ends, whether or not the sidecar
\* answers or lives: answered, timed out, or failed with the sidecar.
CallsEnd ==
    \A r \in Requests : (ready /\ call[r] \in {"waiting", "sent"}) ~> call[r] \in {"answered", "failed"}
=============================================================================
