------------------------------ MODULE Session ------------------------------
(***************************************************************************)
(* One life of an engine (packages/layout/src/engine.ts): how start()      *)
(* takes over the windows it finds, what it keeps in mind while it parks   *)
(* and shows them, what its health says, and what stop() leaves behind.    *)
(*                                                                         *)
(* start() tries to admit the windows of a BSP workspace as a group: it    *)
(* infers a tree from where they are, moves the members that are not quite *)
(* in their tile, reads all of them and commits, or puts back what it      *)
(* moved.  What finds no group is left to the cycles.  stop() interrupts   *)
(* whatever runs, and shows every window that is noted as parked.          *)
(*                                                                         *)
(* The gate is held by the one fiber modelled here.  A write is one step   *)
(* with its answer; what the engine gives up on may be carried out later.  *)
(* A compound command that shows a workspace succeeds at once or changes   *)
(* nothing.  All corners are Corner, and there is one display.             *)
(***************************************************************************)
EXTENDS Naturals, Sequences, SequencesExt

CONSTANTS
    Managed,
    Rank,           \* where a window is in the platform's list
    Spaces,
    HomeOf,         \* pickWorkspace: the workspace of a window
    FirstShown,     \* the workspace that is shown at first
    None,
    MaxTrouble,     \* bound: writes that go wrong, and what users and applications do
    MaxCommands     \* bound: workspaces shown and configurations loaded after the first

ASSUME SessionAssumption ==
    /\ Rank \in [Managed -> Nat] /\ \A x, y \in Managed : Rank[x] = Rank[y] => x = y
    /\ HomeOf \in [Managed -> Spaces] /\ FirstShown \in Spaces
    /\ None \notin Managed \cup Spaces
    /\ MaxTrouble \in Nat /\ MaxCommands \in Nat

VARIABLES
    desk,           \* the desktop: who answers to each identity, and where
    late,           \* where a write that was given up on would put a window
    observed,          \* world.windows
    member,         \* the windows that workspaces have as members
    floating,       \* those of them that float
    shown,          \* the workspace that is visible
    parked,         \* the keys of the workspaces' parkedFrames
    intent,         \* shutdownRestoreIntents
    first,          \* firstSeen
    quarantine,     \* startupQuarantine
    health,
    lasting,        \* why a settled cycle leaves health as it is
    stopping,       \* what stop() has done
    fiber,          \* what the engine is doing under the gate
    report,         \* the outcomes that stop() reports
    trouble, commands,   \* used of the bounds
    \* observation only
    touched,        \* windows that others moved since the engine began with them
    forsaken,       \* windows that the engine puts in a corner, or may, and keeps no note of
    lifted          \* the reasons that a configuration has talked over

world == <<observed, member, floating, shown, parked, quarantine>>
memory == <<intent, first>>
bounds == <<trouble, commands>>
watch == <<touched, forsaken, lifted>>
sessionVars == <<desk, late, world, memory, health, lasting, stopping, fiber, report, bounds, watch>>

Corner == "corner"
Places == {"first", "tile", Corner, "edge", "aside"}
Visible(at) == at # Corner

\* Where clampFrameToBounds puts a window that is at a place.
Clamped(at) == IF at = Corner THEN "edge" ELSE at

Existing == {x \in Managed : desk[x].who # 0}
Known == {x \in Managed : observed[x].who # 0}

SessionInit ==
    /\ desk \in [Managed -> [who : {1}, at : {"first", "tile"}]]
    /\ late = [x \in Managed |-> None]
    /\ observed = [x \in Managed |-> [who |-> 0, at |-> "first"]]
    /\ member = {} /\ floating = {} /\ shown = FirstShown /\ parked = {} /\ quarantine = {}
    /\ intent = [x \in Managed |-> None] /\ first = intent
    /\ \/ health = "healthy" /\ lasting = {}
       \/ health = "degraded" /\ lasting = {"store"}
    /\ stopping = "no"
    /\ fiber = [at |-> "config"]
    /\ report = intent
    /\ trouble = 0 /\ commands = 0
    /\ touched = {} /\ forsaken = {} /\ lifted = {}

-----------------------------------------------------------------------------
(* Writes.                                                                 *)

\* What may become of a write for identity `who` (0: for whoever has the id now):
\* where the window is then, the answer, where the write would still put it, and
\* whether it is something that went wrong.
Writes(x, who, to) ==
    LET W(at, answer, after, odd) == [at |-> at, answer |-> answer, after |-> after, odd |-> odd]
        is == desk[x].at
        was == late[x]
    IN  IF desk[x].who = 0 \/ who \notin {0, desk[x].who} THEN {W(is, "error", was, FALSE)}
        ELSE {W(to, "done", was, FALSE)}
             \cup (IF trouble = MaxTrouble THEN {}
                   ELSE {W(is, "error", was, TRUE), W(is, "error", to, TRUE),
                         W(to, "error", was, TRUE), W("aside", "done", was, TRUE),
                         W("aside", "progressing", to, TRUE)})

Written(x, o) ==
    /\ desk' = [desk EXCEPT ![x].at = o.at]
    /\ late' = [late EXCEPT ![x] = o.after]
    /\ trouble' = IF o.odd THEN trouble + 1 ELSE trouble

-----------------------------------------------------------------------------
(* start(): the configuration and the first reading.                       *)

\* A configuration that cannot be read, parsed or prepared leaves the defaults.
LoadConfig ==
    /\ fiber.at = "config"
    /\ \E ok \in BOOLEAN :
         /\ health' = IF ok THEN health ELSE "degraded"
         /\ ~ok => trouble < MaxTrouble
         /\ trouble' = IF ok THEN trouble ELSE trouble + 1
    /\ fiber' = [at |-> "read"]
    /\ UNCHANGED <<desk, late, world, memory, lasting, stopping, report, commands, watch>>

\* firstSeen forgets closed windows, and the intents with them.
Observed ==
    /\ observed' = desk
    /\ first' = [x \in Managed |-> IF x \notin Existing THEN None
                                   ELSE IF first[x] = None THEN desk[x].at ELSE first[x]]
    /\ intent' = [x \in Managed |-> IF x \in Existing THEN intent[x] ELSE None]

Adopt ==
    /\ fiber.at = "read"
    /\ observed' = desk
    /\ first' = [x \in Managed |-> IF x \in Existing THEN desk[x].at ELSE first[x]]
    /\ fiber' = [at |-> "choose", left |-> Spaces]
    /\ UNCHANGED <<desk, late, member, floating, shown, parked, quarantine, intent, health, lasting,
                   stopping, report, bounds, watch>>

\* A scenario gives the layout: membership is taken over, and nothing is written.
HydrateInitialLayout ==
    /\ fiber.at = "read"
    /\ observed' = desk /\ member' = Existing
    /\ first' = [x \in Managed |-> IF x \in Existing THEN desk[x].at ELSE first[x]]
    /\ fiber' = [at |-> "idle"]
    /\ UNCHANGED <<desk, late, floating, shown, parked, quarantine, intent, health, lasting, stopping,
                   report, bounds, watch>>

-----------------------------------------------------------------------------
(* preserveOrdinaryStartup: one group after the other.                     *)

Group(s) == {x \in Known : HomeOf[x] = s}

\* The members of a group have the platform's order, also among those to be moved.
Foremost(x, S) == x \in S /\ \A y \in S : Rank[x] <= Rank[y]
Hindmost(x, S) == x \in S /\ \A y \in S : Rank[y] <= Rank[x]

Chosen(s) == fiber.at = "choose" /\ s \in fiber.left

\* There is no group, its windows overlap, or no tree fits where they are.
SkipGroup(s) ==
    /\ Chosen(s)
    /\ fiber' = [fiber EXCEPT !.left = @ \ {s}]
    /\ UNCHANGED <<desk, late, world, memory, health, lasting, stopping, report, bounds,
                   watch>>

\* The tree that fits does not satisfy the windows' limits.
InfeasibleGroup(s) ==
    /\ Chosen(s) /\ Group(s) # {}
    /\ quarantine' = quarantine \cup Group(s)
    /\ fiber' = [fiber EXCEPT !.left = @ \ {s}]
    /\ UNCHANGED <<desk, late, observed, member, floating, shown, parked, memory, health, lasting, stopping,
                   report, bounds, watch>>

\* The members that are not in their tile yet are moved.
Admission(step, rest, todo, tried) ==
    [at |-> step, space |-> rest.space, left |-> rest.left, todo |-> todo, tried |-> tried]

BeginGroup(s) ==
    /\ Chosen(s) /\ Group(s) # {}
    /\ fiber' = Admission("write", [space |-> s, left |-> fiber.left \ {s}],
                          {x \in Group(s) : observed[x].at # "tile"}, {})
    /\ touched' = touched \ {x \in Group(s) : desk[x] = observed[x]}
    /\ UNCHANGED <<desk, late, world, memory, health, lasting, stopping, report, bounds, forsaken, lifted>>

\* attempted.push comes before the write.
Undo(tried, wrong) ==
    [at |-> "undo", space |-> fiber.space, left |-> fiber.left, todo |-> tried,
     wrong |-> wrong]

\* Mutant: a window counts as attempted once its write is answered.
AttemptAfterwards(x) ==
    /\ fiber.at = "write" /\ Foremost(x, fiber.todo)
    /\ \E o \in Writes(x, observed[x].who, "tile") :
         /\ Written(x, o)
         /\ fiber' = IF o.answer = "done"
                     THEN [fiber EXCEPT !.todo = @ \ {x}, !.tried = @ \cup {x}]
                     ELSE Undo(fiber.tried, FALSE)
    /\ UNCHANGED <<world, memory, health, lasting, stopping, report, commands, watch>>

AdmitWrite(x) ==
    /\ fiber.at = "write" /\ Foremost(x, fiber.todo)
    /\ \E o \in Writes(x, observed[x].who, "tile") :
         /\ Written(x, o)
         /\ fiber' = IF o.answer = "done"
                     THEN [fiber EXCEPT !.todo = @ \ {x}, !.tried = @ \cup {x}]
                     ELSE Undo(fiber.tried \cup {x}, FALSE)
    /\ UNCHANGED <<world, memory, health, lasting, stopping, report, commands, watch>>

\* Everything is written: the display is read, then every member.
BeginVerify ==
    /\ fiber.at = "write" /\ fiber.todo = {}
    /\ \/ fiber' = Admission("verify", fiber, Group(fiber.space), fiber.tried) /\ UNCHANGED trouble
       \/ trouble < MaxTrouble /\ trouble' = trouble + 1 /\ fiber' = Undo(fiber.tried, FALSE)
    /\ UNCHANGED <<desk, late, world, memory, health, lasting, stopping, report, commands,
                   watch>>

VerifyOne(x) ==
    /\ fiber.at = "verify" /\ Foremost(x, fiber.todo)
    /\ \/ /\ desk[x] = [who |-> observed[x].who, at |-> "tile"]
          /\ fiber' = [fiber EXCEPT !.todo = @ \ {x}]
          /\ UNCHANGED trouble
       \/ /\ desk[x] # [who |-> observed[x].who, at |-> "tile"]
          /\ fiber' = Undo(fiber.tried, FALSE)
          /\ UNCHANGED trouble
       \/ /\ trouble < MaxTrouble /\ trouble' = trouble + 1
          /\ fiber' = Undo(fiber.tried, FALSE)
    /\ UNCHANGED <<desk, late, world, memory, health, lasting, stopping, report, commands, watch>>

Decided(whole) == [at |-> "decided", space |-> fiber.space, left |-> fiber.left, whole |-> whole]

CommitGroup ==
    /\ fiber.at = "verify" /\ fiber.todo = {}
    /\ member' = member \cup Group(fiber.space)
    /\ fiber' = Decided(TRUE)
    /\ UNCHANGED <<desk, late, observed, floating, shown, parked, quarantine, memory, health, lasting,
                   stopping, report, bounds, watch>>

\* The rollback goes back through what was tried, and no one interrupts it.
UndoWrite(x) ==
    /\ fiber.at = "undo" /\ Hindmost(x, fiber.todo)
    /\ \E o \in Writes(x, observed[x].who, observed[x].at) :
         /\ Written(x, o)
         /\ fiber' = [fiber EXCEPT !.at = "check", !.wrong = @ \/ o.answer = "error"]
    /\ UNCHANGED <<world, memory, health, lasting, stopping, report, commands, watch>>

UndoCheck(x) ==
    /\ fiber.at = "check" /\ Hindmost(x, fiber.todo)
    /\ \E fails \in BOOLEAN :
         /\ fails => trouble < MaxTrouble
         /\ trouble' = IF fails THEN trouble + 1 ELSE trouble
         /\ fiber' = [fiber EXCEPT !.at = "undo", !.todo = @ \ {x},
                         !.wrong = @ \/ fails \/ desk[x] # observed[x]]
    /\ UNCHANGED <<desk, late, world, memory, health, lasting, stopping, report, commands, watch>>

EndUndo ==
    /\ fiber.at = "undo" /\ fiber.todo = {}
    /\ IF fiber.wrong
       THEN health' = "degraded" /\ lasting' = lasting \cup {"rollback"}
       ELSE UNCHANGED <<health, lasting>>
    /\ fiber' = Decided(FALSE)
    /\ UNCHANGED <<desk, late, world, memory, stopping, report, bounds, watch>>

\* Of a group that was put back, the first cycle admits nobody either.
NextGroup ==
    /\ fiber.at = "decided" /\ stopping = "no"
    /\ quarantine' = IF fiber.whole THEN quarantine ELSE quarantine \cup Group(fiber.space)
    /\ fiber' = [at |-> "choose", left |-> fiber.left]
    /\ UNCHANGED <<desk, late, observed, member, floating, shown, parked, memory, health, lasting, stopping,
                   report, bounds, watch>>

\* After the last group, focus signals are installed and the first cycle runs.
FirstCycle ==
    /\ fiber.at = "choose" /\ fiber.left = {} /\ stopping = "no"
    /\ fiber' = [at |-> "pass", startup |-> TRUE]
    /\ UNCHANGED <<desk, late, world, memory, health, lasting, stopping, report, bounds, watch>>

-----------------------------------------------------------------------------
(* A cycle: passes that read the desktop, prune what is gone, and carry    *)
(* out a plan.                                                             *)

BeginCycle ==
    /\ fiber.at = "idle" /\ stopping = "no"
    /\ fiber' = [at |-> "pass", startup |-> FALSE]
    /\ UNCHANGED <<desk, late, world, memory, health, lasting, stopping, report, bounds, watch>>

\* What the rules plan for a window, by what the engine knows of it.
Due(x) ==
    LET at == observed'[x].at
        here == HomeOf[x] = shown
    IN  IF x \notin Existing THEN "none"
        ELSE IF x \notin member' THEN IF x \in quarantine THEN "none" ELSE "admit"
        ELSE IF ~here THEN IF x \in parked' /\ at = Corner THEN "none" ELSE "park"
        ELSE IF x \notin floating' THEN IF at = "tile" THEN "none" ELSE "tile"
        ELSE IF at = Corner /\ x \notin parked' THEN "recover" ELSE "none"

Target(what) == CASE what \in {"admit", "tile"} -> "tile"
                  [] what = "recover" -> "edge"
                  [] what = "park" -> Corner

ObservePass ==
    /\ fiber.at = "pass"
    /\ Observed
    /\ member' = member \cap Existing /\ floating' = floating \cap Existing /\ parked' = parked \cap Existing
    /\ fiber' = [at |-> "act", startup |-> fiber.startup,
                 due |-> [x \in Managed |-> Due(x)], calm |-> \A x \in Managed : Due(x) = "none",
                 made |-> <<>>]
    /\ UNCHANGED <<desk, late, shown, quarantine, health, lasting, stopping, report, bounds, watch>>

\* The first cycle is over, however it went: quarantine is lifted.
CycleOver(lastly) ==
    /\ fiber' = [at |-> "idle"]
    /\ quarantine' = IF fiber.startup THEN {} ELSE quarantine
    /\ health' = IF fiber.startup /\ "rollback" \in lasting THEN "degraded" ELSE lastly

ObserveFails ==
    /\ fiber.at = "pass" /\ trouble < MaxTrouble /\ trouble' = trouble + 1
    /\ CycleOver("degraded")
    /\ UNCHANGED <<desk, late, observed, member, floating, shown, parked, memory, lasting, stopping,
                   report, commands, watch>>

\* Mutant: the note is not kept.
ParkedInSilence(x) ==
    /\ intent' = [intent EXCEPT ![x] = observed[x].at]
    /\ forsaken' = forsaken \ {x}
    /\ UNCHANGED <<observed, member, parked>>

\* parkMembersOf notes where it parked, and where the window was before.
Noted(x) ==
    /\ parked' = parked \cup {x}
    /\ intent' = [intent EXCEPT ![x] = observed[x].at]
    /\ forsaken' = forsaken \ {x}
    /\ UNCHANGED <<observed, member>>

\* setFrame keeps where the window is now; an admission then inserts it.
Framed(x, at) ==
    /\ observed' = [observed EXCEPT ![x].at = at]
    /\ member' = IF fiber.due[x] = "admit" THEN member \cup {x} ELSE member
    /\ UNCHANGED <<parked, intent, forsaken>>

\* A parking write that failed may have moved the window.
Unnoted(x) == forsaken' = IF desk'[x].at = Corner /\ x \notin parked THEN forsaken \cup {x}
                          ELSE forsaken

\* A parking write that leaves the window on a display has failed.
Accepted(x, o) == /\ o.answer # "error"
                  /\ fiber.due[x] = "park" => o.at = Corner

CycleWrite(x) ==
    /\ fiber.at = "act" /\ fiber.due[x] # "none" /\ stopping = "no"
    /\ \E o \in Writes(x, 0, Target(fiber.due[x])) :
         /\ Written(x, o)
         /\ IF Accepted(x, o)
            THEN /\ IF fiber.due[x] = "park" THEN Noted(x) ELSE Framed(x, o.at)
                 /\ fiber' = [fiber EXCEPT !.due[x] = "none",
                                !.made = IF fiber.due[x] = "park" THEN @
                                         ELSE Append(@, [who |-> x, was |-> observed[x].at])]
            ELSE /\ Unnoted(x)
                 /\ fiber' = [fiber EXCEPT !.at = "compensate"]
                 /\ UNCHANGED <<observed, member, parked, intent>>
    /\ UNCHANGED <<floating, shown, quarantine, first, health, lasting, stopping, report, commands, touched, lifted>>

\* The plan's setFrames are undone, the last first; the answers are ignored.
Compensate ==
    /\ fiber.at = "compensate" /\ fiber.made # <<>> /\ stopping = "no"
    /\ LET m == Last(fiber.made)
       IN \E o \in Writes(m.who, 0, m.was) : Written(m.who, o) /\ Unnoted(m.who)
    /\ fiber' = [fiber EXCEPT !.made = Front(@)]
    /\ UNCHANGED <<world, memory, health, lasting, stopping, report, commands, touched, lifted>>

FailedCycle ==
    /\ fiber.at = "compensate" /\ fiber.made = <<>>
    /\ CycleOver("degraded")
    /\ UNCHANGED <<desk, late, observed, member, floating, shown, parked, memory, lasting, stopping,
                   report, bounds, watch>>

\* Nothing was to do: health is restored unless something lasting speaks against it.
Healed == IF health = "degraded" /\ lasting = {} THEN "healthy" ELSE health

PassEnds ==
    /\ fiber.at = "act" /\ \A x \in Managed : fiber.due[x] = "none"
    /\ \/ ~fiber.calm /\ fiber' = [at |-> "pass", startup |-> fiber.startup]
          /\ UNCHANGED <<quarantine, health>>
       \/ fiber.calm /\ CycleOver(Healed)
    /\ UNCHANGED <<desk, late, observed, member, floating, shown, parked, memory, lasting, stopping,
                   report, bounds, watch>>

-----------------------------------------------------------------------------
(* Commands, the configuration, the store.                                 *)

\* focusWorkspace: what was shown is parked, and what is shown is tiled.  Every
\* note of the workspace shown is dropped, also those about floating windows.
ShowWorkspace(s) ==
    LET leaving == {x \in member : HomeOf[x] = shown}
        parking == {x \in leaving : ~(x \in parked /\ desk[x].at = Corner)}
        coming == {x \in member : HomeOf[x] = s}
        At(x) == IF x \in parking THEN Corner
                 ELSE IF x \in coming \ floating THEN "tile" ELSE desk[x].at
    IN  /\ fiber.at = "idle" /\ stopping = "no" /\ s # shown /\ commands < MaxCommands
        /\ \A x \in leaving \cup coming : desk[x].who = observed[x].who
        /\ commands' = commands + 1
        /\ desk' = [x \in Managed |-> [desk[x] EXCEPT !.at = At(x)]]
        /\ observed' = [x \in Managed |-> IF x \in leaving \cup coming THEN desk'[x] ELSE observed[x]]
        /\ intent' = [x \in Managed |-> IF x \in parking THEN desk[x].at ELSE intent[x]]
        /\ parked' = (parked \cup parking) \ coming
        /\ forsaken' = (forsaken \ parking) \cup {x \in coming : desk'[x].at = Corner}
        /\ shown' = s
        /\ UNCHANGED <<late, member, floating, quarantine, first, health, lasting, stopping, fiber,
                       report, trouble, touched, lifted>>

\* The window leaves the tree and its note goes with it.  Nobody takes the gate.
Float(x) ==
    /\ fiber.at \in {"idle", "act"} /\ stopping = "no" /\ x \in member \ floating
    /\ trouble < MaxTrouble /\ trouble' = trouble + 1
    /\ floating' = floating \cup {x} /\ parked' = parked \ {x}
    /\ forsaken' = IF x \in parked THEN forsaken \cup {x} ELSE forsaken
    /\ UNCHANGED <<desk, late, observed, member, shown, quarantine, memory, health, lasting, stopping,
                   fiber, report, commands, touched, lifted>>

\* A reload or a hotload.
LoadAgain ==
    /\ fiber.at # "config" /\ stopping = "no" /\ commands < MaxCommands
    /\ commands' = commands + 1
    /\ \/ health' = "healthy" /\ lifted' = lasting
       \/ health' = "degraded" /\ UNCHANGED lifted
    /\ UNCHANGED <<desk, late, world, memory, lasting, stopping, fiber, report, trouble,
                   touched, forsaken>>

\* What was learned cannot be saved.  A snapshot of the store ends this.
StoreFails ==
    /\ fiber.at \in {"act", "compensate"} /\ trouble < MaxTrouble /\ trouble' = trouble + 1
    /\ health' = "degraded"
    /\ lasting' = lasting \cup {"store"} /\ lifted' = lifted \ {"store"}
    /\ UNCHANGED <<desk, late, world, memory, stopping, fiber, report, commands, touched,
                   forsaken>>

StoreSpeaks ==
    /\ fiber.at = "idle" /\ stopping = "no" /\ "store" \in lasting
    /\ lasting' = lasting \ {"store"} /\ lifted' = lifted \ {"store"}
    /\ UNCHANGED <<desk, late, world, memory, health, stopping, fiber, report, bounds, touched,
                   forsaken>>

-----------------------------------------------------------------------------
(* The desktop.                                                            *)

Drag(x) ==
    /\ x \in Existing /\ desk[x].at # "aside" /\ trouble < MaxTrouble /\ trouble' = trouble + 1
    /\ desk' = [desk EXCEPT ![x].at = "aside"]
    /\ touched' = touched \cup {x} /\ forsaken' = forsaken \ {x}
    /\ UNCHANGED <<late, world, memory, health, lasting, stopping, fiber, report, commands,
                   lifted>>

\* The window closes, or the application has a new one that takes its id.
Destroy(x) ==
    /\ x \in Existing /\ trouble < MaxTrouble /\ trouble' = trouble + 1
    /\ desk' \in {[desk EXCEPT ![x] = [who |-> 0, at |-> "first"]],
                  [desk EXCEPT ![x] = [who |-> 2, at |-> "first"]]}
    /\ late' = [late EXCEPT ![x] = None]
    /\ touched' = touched \cup {x} /\ forsaken' = forsaken \ {x}
    /\ UNCHANGED <<world, memory, health, lasting, stopping, fiber, report, commands, lifted>>

\* A write that was given up on is carried out.
Land(x) ==
    /\ late[x] # None /\ x \in Existing
    /\ desk' = [desk EXCEPT ![x].at = late[x]] /\ late' = [late EXCEPT ![x] = None]
    /\ touched' = touched \cup {x}
    /\ forsaken' = IF late[x] = Corner /\ (x \notin parked \/ stopping # "no")
                   THEN forsaken \cup {x} ELSE forsaken
    /\ UNCHANGED <<world, memory, health, lasting, stopping, fiber, report, bounds, lifted>>

-----------------------------------------------------------------------------
(* stop(): what runs is interrupted, and every note of a parked window is  *)
(* acted upon.                                                             *)

StopEngine ==
    /\ stopping = "no" /\ fiber.at \notin {"config", "read"}
    /\ stopping' = "closing"
    /\ UNCHANGED <<desk, late, world, memory, health, lasting, fiber, report, bounds, watch>>

\* The write that is under way is carried out, now or later, or it is not.
InFlight(writes) ==
    \/ UNCHANGED <<desk, late, forsaken>>
    \/ \E w \in writes :
         /\ w.who \in Existing
         /\ \/ desk' = [desk EXCEPT ![w.who].at = w.to] /\ UNCHANGED late
            \/ late' = [late EXCEPT ![w.who] = w.to] /\ UNCHANGED desk
         /\ forsaken' = IF w.to = Corner /\ w.who \notin parked THEN forsaken \cup {w.who}
                        ELSE forsaken

\* A cycle's plan stops where it is, and nothing is undone.
Abandoned ==
    CASE fiber.at = "act" -> {[who |-> x, to |-> Target(fiber.due[x])] :
                                x \in {y \in Managed : fiber.due[y] # "none"}}
      [] fiber.at = "compensate" /\ fiber.made # <<>> ->
           {[who |-> Last(fiber.made).who, to |-> Last(fiber.made).was]}
      [] OTHER -> {}

InterruptFiber ==
    /\ stopping = "closing" /\ fiber.at \in {"choose", "pass", "act", "compensate", "decided", "idle"}
    /\ InFlight(Abandoned)
    /\ fiber' = [at |-> "restore", left |-> parked]
    /\ UNCHANGED <<world, memory, health, lasting, stopping, report, bounds, touched, lifted>>

\* An admission that had not committed is put back first.
InterruptAdmission ==
    /\ stopping = "closing" /\ fiber.at \in {"write", "verify"}
    /\ \/ fiber' = Undo(fiber.tried, FALSE) /\ UNCHANGED <<desk, late, forsaken>>
       \/ \E x \in Managed :
            /\ fiber.at = "write" /\ Foremost(x, fiber.todo)
            /\ fiber' = Undo(fiber.tried \cup {x}, FALSE)
            /\ InFlight({[who |-> x, to |-> "tile"]})
    /\ UNCHANGED <<world, memory, health, lasting, stopping, report, bounds, touched, lifted>>

\* Where shutdownTargetFor shows a window: in its tile, or where it was, clamped.
Place(x) ==
    IF x \in member \ floating THEN "tile"
    ELSE Clamped(IF intent[x] # None THEN intent[x]
                 ELSE IF first[x] # None THEN first[x] ELSE observed[x].at)

Restore(x) ==
    /\ fiber.at = "restore" /\ x \in fiber.left
    /\ IF x \notin Known
       THEN report' = [report EXCEPT ![x] = "failed"] /\ UNCHANGED <<desk, late, trouble>>
       ELSE \E o \in Writes(x, observed[x].who, Place(x)) :
              /\ Written(x, o)
              /\ report' = [report EXCEPT ![x] =
                              IF o.answer = "done" /\ Visible(o.at) THEN "ok" ELSE "failed"]
    /\ fiber' = [fiber EXCEPT !.left = @ \ {x}]
    /\ UNCHANGED <<world, memory, health, lasting, stopping, commands, watch>>

Stopped ==
    /\ fiber.at = "restore" /\ fiber.left = {} /\ stopping = "closing"
    /\ stopping' = "stopped"
    /\ UNCHANGED <<desk, late, world, memory, health, lasting, fiber, report, bounds, watch>>

-----------------------------------------------------------------------------
Cycle == \/ BeginCycle \/ ObservePass \/ ObserveFails \/ Compensate \/ FailedCycle \/ PassEnds
         \/ \E x \in Managed : CycleWrite(x)

Startup == \/ LoadConfig \/ Adopt \/ HydrateInitialLayout \/ BeginVerify \/ CommitGroup
           \/ EndUndo \/ NextGroup \/ FirstCycle
           \/ \E s \in Spaces : SkipGroup(s) \/ InfeasibleGroup(s) \/ BeginGroup(s)
           \/ \E x \in Managed : AdmitWrite(x) \/ VerifyOne(x) \/ UndoWrite(x) \/ UndoCheck(x)

Users == \/ LoadAgain \/ StoreFails \/ StoreSpeaks
         \/ \E s \in Spaces : ShowWorkspace(s)
         \/ \E x \in Managed : Float(x) \/ Drag(x) \/ Destroy(x) \/ Land(x)

Shutdown == \/ StopEngine \/ InterruptFiber \/ InterruptAdmission \/ Stopped
            \/ \E x \in Managed : Restore(x)

SessionNext == Startup \/ Cycle \/ Users \/ Shutdown

SessionSpec == SessionInit /\ [][SessionNext]_sessionVars

-----------------------------------------------------------------------------
(* Properties.                                                             *)

\* Type invariant of the session's state.
TypeOK ==
    /\ desk \in [Managed -> [who : 0..2, at : Places]] /\ observed \in [Managed -> [who : 0..2, at : Places]]
    /\ late \in [Managed -> Places \cup {None}] /\ intent \in [Managed -> Places \cup {None}]
    /\ first \in [Managed -> Places \cup {None}]
    /\ member \subseteq Managed /\ floating \subseteq member /\ parked \subseteq Managed
    /\ quarantine \subseteq Managed /\ shown \in Spaces
    /\ health \in {"healthy", "degraded"}
    /\ lasting \subseteq {"rollback", "store"} /\ lifted \subseteq {"rollback", "store"}
    /\ stopping \in {"no", "closing", "stopped"}
    /\ report \in [Managed -> {None, "ok", "failed"}]
    /\ trouble \in Nat /\ commands \in Nat
    /\ touched \subseteq Managed /\ forsaken \subseteq Managed

\* The admission of a group at startup (preserveOrdinaryStartup) is whole: once it is
\* decided, its windows are all members in their tiles, or those that were moved are
\* back where they were, whatever write, reading or stop() came between; what could not
\* be put back is on record.  Windows that others moved meanwhile are excepted.
AdmissionIsWhole ==
    fiber.at = "decided" =>
        \A x \in Group(fiber.space) \ touched :
            IF fiber.whole THEN desk[x].at = "tile"
            ELSE desk[x] = observed[x] \/ "rollback" \in lasting

\* What went wrong for good - windows that startup could not put back, learning that
\* could not be saved - shows in health, whatever cycles converge in the meantime, until
\* a configuration is loaded.
DegradedLasts == lasting \ lifted # {} => health = "degraded"

\* Startup admits a group whole or puts it back, or else health says so for good.
WholeOrOnRecord == AdmissionIsWhole /\ DegradedLasts

\* After stop() no window that the engine parked is left in a corner in silence: it was
\* shown, or the report says it was not.  Excepted are those that the engine put in a
\* corner, or let there, without a note (`forsaken`).
NobodyLeftBehind ==
    stopping = "stopped" =>
        \A x \in Existing \ forsaken : Visible(desk[x].at) \/ report[x] = "failed"
=============================================================================
