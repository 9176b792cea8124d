---------------------------- MODULE ConfigReload ----------------------------
(***************************************************************************)
(* How the configuration file becomes the configuration in force.  Three   *)
(* kinds of callers read it: start(), the hotload fiber after a change of  *)
(* the file (150 ms debounced), and any number of reloadConfig commands,   *)
(* which run beside each other and beside the hotload.  Each reads, merges *)
(* and asks the sidecar to configure the key bindings in one go, waits for *)
(* the answer, and then commits what it had merged.                        *)
(*                                                                         *)
(* A configuration is three settings: the table of key bindings, the mode  *)
(* of a workspace, and the mode that workspaces inherit.  The others are   *)
(* merged like the second one.                                             *)
(***************************************************************************)
EXTENDS Naturals, Sequences

CONSTANTS
    Absent,         \* a setting that is not given
    Tables,         \* tables of key bindings
    NoKeys,         \* the empty one
    Unbuildable,    \* tables that name an unknown action
    Refused,        \* tables with a chord that the sidecar does not accept
    Files,          \* what the file may come to hold: [kind, says]
    Reloads,        \* reloadConfig commands
    MaxEdits,       \* bound: changes of the file
    MaxLate         \* bound: answers that come after the request's deadline

Settings == {"keybinds", "mode", "defaults.mode"}
Modes == {"bsp", "floating"}
Configs == {c \in [Settings -> Tables \cup Modes \cup {Absent}] :
                /\ c["keybinds"] \in Tables \cup {Absent}
                /\ c["mode"] \in Modes \cup {Absent}
                /\ c["defaults.mode"] \in Modes \cup {Absent}}

\* A file is missing or no JSON, breaks the schema, or is a configuration.
Contents == [kind : {"unreadable", "invalid", "valid"}, says : Configs]

ASSUME ConfigAssumption ==
    /\ NoKeys \in Tables \ (Unbuildable \cup Refused)
    /\ Unbuildable \cup Refused \subseteq Tables
    /\ Absent \notin Tables \cup Modes
    /\ Files \subseteq Contents
    /\ MaxEdits \in Nat /\ MaxLate \in Nat
    /\ Reloads \cap {"start", "hotload"} = {}

Callers == Reloads \cup {"start", "hotload"}

VARIABLES
    file,
    watch,        \* fs.watch: is it on, does the debounce timer run, changes not yet taken
    config,       \* of the engine
    runtimeMode,  \* the mode of the workspace, which commands set too
    health,       \* as far as the configuration has it
    refused,      \* observation only: the last caller to decide about the file refused it
    commands,     \* keybindCommands of the daemon
    bindings,     \* the table of the sidecar's KeyMonitor
    nativeReady,  \* nativeConfigReady
    call,         \* per caller: where it is, the file it read and the candidate it made
    requests,     \* configureKeybinds on their way to the sidecar
    answers,      \* and its answers on their way back
    stopping,
    past          \* what has happened: edits, requests, late ones, callers side by side,
                  \* edits that nobody watched

configVars == <<file, watch, config, runtimeMode, health, refused, commands, bindings,
                nativeReady, call, requests, answers, stopping, past>>

Nothing == [s \in Settings |-> Absent]

\* The schema's defaults, the workspace's own setting before the inherited one.
EffectiveMode(c) ==
    IF c["mode"] # Absent THEN c["mode"]
    ELSE IF c["defaults.mode"] # Absent THEN c["defaults.mode"] ELSE "bsp"

Keys(c) == IF c["keybinds"] = Absent THEN NoKeys ELSE c["keybinds"]

\* Delta: what the candidate gives changes, what it leaves out stays.
ApplyConfigDelta(c, says) == [s \in Settings |-> IF says[s] = Absent THEN c[s] ELSE says[s]]

Candidate(mode) == IF mode = "delta" THEN ApplyConfigDelta(config, file.says) ELSE file.says

Preparing(c) == call[c].at = "preparing"

-----------------------------------------------------------------------------
(* Where a caller goes on.                                                 *)

\* The engine starts with what it has, the fiber waits for the next change, and a
\* command answers that the candidate is invalid.
AfterFailure(c) == CASE c = "start" -> "settling" [] c = "hotload" -> "idle" [] OTHER -> "done"

\* After a commit a cycle is requested, by the hotload fiber once startup is over.
AfterCommit(c) == IF c = "hotload" /\ call["start"].at # "done" THEN "idle" ELSE "settling"

\* JSON.parse throws, and nobody catches defects: start() and the hotload fiber die.
AfterDefect(c) == IF c \in Reloads THEN "done" ELSE "dead"

Reject(c) ==
    /\ call' = [call EXCEPT ![c].at = AfterFailure(c)]
    /\ health' = "degraded" /\ refused' = TRUE

-----------------------------------------------------------------------------
(* Reading the file: load, parseConfigSafe, the merge, and configSource    *)
(* .prepare up to the request, without a pause.                            *)

Ask(c, candidate) ==
    /\ call' = [call EXCEPT ![c] = [at |-> "preparing", read |-> file, candidate |-> candidate,
                                    id |-> past.asked + 1]]
    /\ requests' = Append(requests, [by |-> c, id |-> past.asked + 1, keys |-> Keys(candidate)])

Load(c, mode) ==
    /\ \/ /\ file.kind = "unreadable"
          /\ call' = [call EXCEPT ![c].at = AfterDefect(c)]
          /\ stopping' = (stopping \/ c = "start")
          /\ UNCHANGED <<health, refused, requests>>
       \/ /\ \/ file.kind = "invalid"
             \/ file.kind = "valid" /\ Keys(Candidate(mode)) \in Unbuildable
          /\ Reject(c)
          /\ UNCHANGED <<requests, stopping>>
       \/ /\ file.kind = "valid" /\ Keys(Candidate(mode)) \notin Unbuildable
          /\ Ask(c, Candidate(mode))
          /\ UNCHANGED <<health, refused, stopping>>
    /\ past' = [past EXCEPT !.raced = @ \/ \E d \in Callers : Preparing(d),
                            !.asked = IF requests' = requests THEN @ ELSE @ + 1]
    /\ UNCHANGED <<file, config, runtimeMode, commands, bindings, nativeReady, answers>>

\* Once startup has its configuration, or none, it has the file watched.
WatchAfter(w) == [w EXCEPT !.on = @ \/ call'["start"].at = "settling"]

Start ==
    /\ call["start"].at = "idle"
    /\ Load("start", "full")
    /\ watch' = WatchAfter(watch)

Hotload ==
    /\ call["hotload"].at = "idle" /\ watch.events > 0
    /\ Load("hotload", "delta")
    /\ watch' = [watch EXCEPT !.events = @ - 1]

Reload(c, mode) ==
    /\ call[c].at = "idle" /\ call["start"].at = "done" /\ ~stopping
    /\ Load(c, mode)
    /\ UNCHANGED watch

-----------------------------------------------------------------------------
(* The answer.                                                             *)

\* The sidecar takes requests in order.  A table with a bad chord changes nothing.
Configure ==
    /\ requests # <<>>
    /\ LET request == Head(requests)
           ok == request.keys \notin Refused
       IN  /\ answers' = Append(answers, [by |-> request.by, id |-> request.id,
                                          keys |-> request.keys, ok |-> ok])
           /\ bindings' = IF ok THEN request.keys ELSE bindings
    /\ requests' = Tail(requests)
    /\ UNCHANGED <<file, watch, config, runtimeMode, health, refused, commands, nativeReady,
                   call, stopping, past>>

\* Only startup gives the workspaces their modes.
SyncConfiguredWorkspaces(c) ==
    runtimeMode' = IF c = "start" THEN EffectiveMode(call[c].candidate) ELSE runtimeMode

\* The daemon makes its commands of what the engine asks it to prepare.
\* Mutant: of what the file says, before the merge.
Regression_Unmerged(c) == Keys(call[c].read.says)
Prepared(c) == Keys(call[c].candidate)

\* The daemon's commands change before the engine asks whether it is being stopped.
CommitConfig(c) ==
    /\ commands' = Prepared(c)
    /\ nativeReady' = TRUE
    /\ IF c \in Reloads /\ stopping
       THEN /\ call' = [call EXCEPT ![c].at = "done"]
            /\ UNCHANGED <<config, runtimeMode, health, refused>>
       ELSE /\ config' = call[c].candidate
            /\ SyncConfiguredWorkspaces(c)
            /\ health' = IF c = "start" THEN health ELSE "healthy"
            /\ refused' = FALSE
            /\ call' = [call EXCEPT ![c].at = AfterCommit(c)]

\* An answer whose request has timed out is for nobody.
Awaited(answer) == Preparing(answer.by) /\ call[answer.by].id = answer.id

HearAnswer ==
    /\ answers # <<>>
    /\ answers' = Tail(answers)
    /\ LET answer == Head(answers) IN
         \/ Awaited(answer) /\ answer.ok /\ CommitConfig(answer.by)
         \/ /\ Awaited(answer) /\ ~answer.ok /\ Reject(answer.by)
            /\ UNCHANGED <<config, runtimeMode, commands, nativeReady>>
         \/ /\ ~Awaited(answer)
            /\ UNCHANGED <<config, runtimeMode, health, refused, commands, nativeReady, call>>
    /\ watch' = WatchAfter(watch)
    /\ UNCHANGED <<file, bindings, requests, stopping, past>>

Timeout(c) ==
    /\ Preparing(c) /\ past.late < MaxLate
    /\ Reject(c)
    /\ watch' = WatchAfter(watch)
    /\ past' = [past EXCEPT !.late = @ + 1]
    /\ UNCHANGED <<file, config, runtimeMode, commands, bindings, nativeReady, requests, answers,
                   stopping>>

\* gatedReconcile returns, and startup's first cycle ends.  A daemon without key
\* bindings stops again.
EndCall(c) ==
    /\ call[c].at = "settling"
    /\ call' = [call EXCEPT ![c].at = IF c = "hotload" THEN "idle" ELSE "done"]
    /\ stopping' = (stopping \/ (c = "start" /\ ~nativeReady))
    /\ UNCHANGED <<file, watch, config, runtimeMode, health, refused, commands, bindings,
                   nativeReady, requests, answers, past>>

\* A cycle that converges, startup's first one included, makes health what it was before
\* anything was refused.
CycleConverges ==
    /\ health = "degraded" /\ call["start"].at \in {"settling", "done"}
    /\ health' = "healthy"
    /\ UNCHANGED <<file, watch, config, runtimeMode, refused, commands, bindings, nativeReady,
                   call, requests, answers, stopping, past>>

-----------------------------------------------------------------------------
(* The file, the user and the end.                                         *)

Edit(content) ==
    /\ past.edits < MaxEdits /\ content # file
    /\ file' = content
    /\ watch' = [watch EXCEPT !.timer = watch.on]
    /\ past' = [past EXCEPT !.edits = @ + 1, !.missed = @ \/ (~watch.on /\ Preparing("start"))]
    /\ UNCHANGED <<config, runtimeMode, health, refused, commands, bindings, nativeReady, call,
                   requests, answers, stopping>>

Debounced ==
    /\ watch.timer
    /\ watch' = [watch EXCEPT !.timer = FALSE, !.events = @ + 1]
    /\ UNCHANGED <<file, config, runtimeMode, health, refused, commands, bindings, nativeReady,
                   call, requests, answers, stopping, past>>

ChangeMode(mode) ==
    /\ call["start"].at = "done" /\ ~stopping
    /\ runtimeMode # mode /\ runtimeMode' = mode
    /\ UNCHANGED <<file, watch, config, health, refused, commands, bindings, nativeReady, call,
                   requests, answers, stopping, past>>

StopEngine ==
    /\ call["start"].at = "done" /\ ~stopping
    /\ stopping' = TRUE
    /\ UNCHANGED <<file, watch, config, runtimeMode, health, refused, commands, bindings,
                   nativeReady, call, requests, answers, past>>

-----------------------------------------------------------------------------

ConfigInit ==
    /\ file \in Files
    /\ watch = [on |-> FALSE, timer |-> FALSE, events |-> 0]
    /\ config = Nothing /\ runtimeMode = "bsp" /\ health = "healthy" /\ refused = FALSE
    /\ commands = NoKeys /\ bindings = NoKeys /\ nativeReady = FALSE
    /\ call = [c \in Callers |-> [at |-> "idle", read |-> file, candidate |-> Nothing, id |-> 0]]
    /\ requests = <<>> /\ answers = <<>> /\ stopping = FALSE
    /\ past = [edits |-> 0, asked |-> 0, late |-> 0, raced |-> FALSE, missed |-> FALSE]

\* Nothing is under way.
Quiet ==
    /\ ~watch.timer /\ requests = <<>> /\ answers = <<>>
    /\ \A c \in Callers : call[c].at \in {"idle", "done", "dead"}
    /\ watch.events = 0 \/ call["hotload"].at = "dead"

ConfigNext ==
    \/ Start \/ Hotload \/ Configure \/ HearAnswer \/ Debounced \/ CycleConverges
    \/ \E c \in Reloads, mode \in {"delta", "full"} : Reload(c, mode)
    \/ \E c \in Callers : Timeout(c) \/ EndCall(c)
    \/ \E content \in Files : Edit(content)
    \/ \E mode \in Modes : ChangeMode(mode)
    \/ StopEngine

ConfigSpec == ConfigInit /\ [][ConfigNext]_configVars

-----------------------------------------------------------------------------
(* Properties.                                                             *)

ConfigTypeOK ==
    /\ file \in Contents
    /\ watch \in [on : BOOLEAN, timer : BOOLEAN, events : Nat]
    /\ config \in Configs /\ runtimeMode \in Modes /\ health \in {"healthy", "degraded"}
    /\ refused \in BOOLEAN
    /\ commands \in Tables /\ bindings \in Tables /\ nativeReady \in BOOLEAN
    /\ call \in [Callers -> [at : {"idle", "preparing", "settling", "done", "dead"},
                            read : Contents, candidate : Configs, id : Nat]]
    /\ requests \in Seq([by : Callers, id : Nat, keys : Tables])
    /\ answers \in Seq([by : Callers, id : Nat, keys : Tables, ok : BOOLEAN])
    /\ stopping \in BOOLEAN
    /\ past \in [edits : Nat, asked : Nat, late : Nat, raced : BOOLEAN, missed : BOOLEAN]

\* Whatever hotloads and reloads overlap, and whichever of them fail, the commands that
\* the daemon runs for a key are those of the configuration in force; and as long as no
\* answer has been given up on, the sidecar has the bindings that go with them whenever
\* it has nothing more to say.
KeysFollowConfig ==
    /\ commands = Keys(config) \/ stopping
    /\ past.late = 0 /\ answers = <<>> => bindings = commands

Acceptable(content) ==
    content.kind = "valid" /\ content.says["keybinds"] \notin Unbuildable \cup Refused

\* Every change of the file was watched, no two callers overlapped, and no answer was late.
Attended ==
    watch.on /\ ~past.raced /\ ~past.missed /\ past.late = 0 /\ ~stopping

\* When all is quiet the configuration in force says all that the file says, and the
\* engine is healthy; or the file cannot be accepted, and refusing it (which degrades
\* health until a cycle converges) was the last that was decided: unless callers
\* overlapped, an answer was late, startup was not yet watching, or the hotload fiber
\* has met a file that is no JSON.
\* (Not demanded, since the code does not do it: docs/spec.md:506-507 has health degraded
\* until a later valid hotload, where the next cycle that converges ends it.)
FileIsInForce ==
    Attended /\ Quiet /\ call["hotload"].at # "dead"
    => IF Acceptable(file)
       THEN /\ \A s \in Settings : file.says[s] # Absent => config[s] = file.says[s]
            /\ health = "healthy"
       ELSE refused

\* What startup, hotloads and reloads keep (prepareConfigCandidate, commitConfigCandidate,
\* applyConfigDelta and those who call them).
ConfigurationHolds == KeysFollowConfig /\ FileIsInForce
=============================================================================
