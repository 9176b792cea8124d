----------------------------- MODULE Inventory -----------------------------
(***************************************************************************)
(* The inventory of the Swift sidecar: refreshes that ask every            *)
(* application for its windows, join what they say with the window         *)
(* server's list, and tell the engine what is different from before        *)
(* (InventoryService.swift, WindowSource.swift, Normalize.swift).          *)
(*                                                                         *)
(* Applications are asked side by side and off the main actor, so that     *)
(* windows open, close and move while a refresh is under way, and another  *)
(* one, due to a notification, may run beside that of the loop.            *)
(*                                                                         *)
(* The window server lists every open window, minimized or not, by a       *)
(* number of its own; an application tells that number of some windows.    *)
(* Titles do not change, and are known to the window server either of all  *)
(* windows or (without Screen Recording) of none.                          *)
(*                                                                         *)
(* The adapter's reconcile at the end of a refresh is GeometryWrites'      *)
(* Replace.  Hidden applications, and the monitors a refresh also looks    *)
(* at, are left out.                                                       *)
(***************************************************************************)
EXTENDS Naturals, Sequences, FiniteSets

CONSTANTS
    Pids,           \* the applications that run
    AXWindows,      \* windows, as the applications know them
    PidOf, TitleOf,
    Numbered,       \* windows of which AXWindowNumber can be read
    Reportable,     \* those that are neither system surfaces nor dialogs
    Frames,
    Near,           \* pairs of different frames that are approximately equal
    ScreenRecording,
    Torn,           \* bound: windows with an attribute that cannot be read
    RefreshTasks,   \* how many refreshes may be under way
    Retries,        \* applications without an answer that are asked again (2)
    Nobody,
    Nowhere,
    MaxHappenings   \* bound: what may happen on the desktop

ASSUME InventoryAssumption ==
    /\ IsFiniteSet(AXWindows) /\ PidOf \in [AXWindows -> Pids]
    /\ Numbered \subseteq AXWindows /\ Reportable \subseteq AXWindows
    /\ ScreenRecording \in BOOLEAN /\ Nobody \notin AXWindows
    /\ Nowhere \notin Frames /\ \A f \in Frames : <<Nowhere, f>> \notin Near
    /\ MaxHappenings \in Nat

VARIABLES
    open,           \* the desktop: windows that exist
    frame, minimized,
    front,          \* the window that has the focus, if any
    hung,           \* applications that do not answer
    happened,       \* how much has happened
    refresh,        \* per task: where it is, whom it asks, and what it has read
    lastWindows,    \* of the service, with lastMetas: what is listed under each id
    lastFocusedId,
    stalledPids,
    told,           \* what somebody makes of the events who has heard them all
    latest          \* history: of the refresh that ended last

desktopVars == <<open, frame, minimized, front, hung, happened>>
inventoryVars == <<desktopVars, refresh, lastWindows, lastFocusedId, stalledPids, told, latest>>

Idle == [at |-> "idle", asked |-> {}, waiting |-> {}, failed |-> {}, read |-> <<>>,
         disturbed |-> {}, left |-> {}]

Busy(t) == refresh[t].at = "collecting"

InventoryInit ==
    /\ open \in SUBSET AXWindows /\ frame \in [AXWindows -> Frames]
    /\ minimized = {} /\ front = Nobody /\ hung = {} /\ happened = 0
    /\ refresh = [t \in RefreshTasks |-> Idle]
    /\ lastWindows = <<>> /\ lastFocusedId = Nobody /\ stalledPids = {}
    /\ told = <<>>
    /\ latest = [open |-> {}, left |-> {}, disturbed |-> {}]

-----------------------------------------------------------------------------
(* collectAXWindows.  Of the applications that gave no answer last time,   *)
(* the first two in the system's list, which may be any, are asked.        *)

BeginRefresh(t) ==
    /\ ~Busy(t)
    /\ \E retried \in SUBSET stalledPids :
         /\ \/ Cardinality(retried) = Retries
            \/ Cardinality(retried) < Retries /\ retried = stalledPids
         /\ LET asked == (Pids \ stalledPids) \cup retried
            IN  refresh' = [refresh EXCEPT ![t] =
                   [at |-> "collecting", asked |-> asked, waiting |-> asked, failed |-> {},
                    read |-> <<>>, disturbed |-> {}, left |-> latest.left]]
    /\ UNCHANGED <<desktopVars, lastWindows, lastFocusedId, stalledPids, told, latest>>

\* What an application tells of a window.  One with an attribute that cannot be read
\* is not `whole`, and the attribute may be the frame.
Observation(w, how) ==
    [window |-> w, frame |-> IF how = "frameless" THEN Nowhere ELSE frame[w],
     minimized |-> w \in minimized, focused |-> w = front, whole |-> how = "whole"]

\* The windows of an application, in whatever order it gives them.
Orderings(p) ==
    LET mine == {w \in open : PidOf[w] = p}
    IN  {f \in [1 .. Cardinality(mine) -> mine] : \A i, j \in DOMAIN f : f[i] = f[j] => i = j}

Listing(order, how) ==
    [i \in DOMAIN order |-> Observation(order[i], IF order[i] \in Torn THEN how ELSE "whole")]

Listings(p) ==
    {Listing(order, how) : order \in Orderings(p), how \in {"whole", "torn", "frameless"}}

EnumerateAppWindows(t, p) ==
    /\ p \in refresh[t].waiting
    /\ \/ /\ p \in hung
          /\ refresh' = [refresh EXCEPT ![t].waiting = @ \ {p}, ![t].failed = @ \cup {p}]
       \/ /\ p \notin hung
          /\ \E listing \in Listings(p) :
               refresh' = [refresh EXCEPT ![t].waiting = @ \ {p}, ![t].read = @ \o listing]
    /\ UNCHANGED <<desktopVars, lastWindows, lastFocusedId, stalledPids, told, latest>>

-----------------------------------------------------------------------------
(* Normalizer.                                                             *)

SameNumber(o, s) == o.window \in Numbered /\ s = o.window
SameFrame(o, s) == o.frame = frame[s] \/ <<o.frame, frame[s]>> \in Near
SameTitle(o, s) == ScreenRecording /\ TitleOf[o.window] = TitleOf[s]

Joinable(o, s) ==
    /\ PidOf[s] = PidOf[o.window]
    /\ \/ SameNumber(o, s)
       \/ o.frame = frame[s]
       \/ SameFrame(o, s) /\ SameTitle(o, s)

Score(o, s) ==
    10 + (IF SameNumber(o, s) THEN 100 ELSE 0) + (IF SameFrame(o, s) THEN 20 ELSE 0)
       + (IF SameTitle(o, s) THEN 5 ELSE 0)

Candidates(o, available) == {s \in available : Joinable(o, s)}

\* Mutant: of several with as much evidence, any one.
Regression_AnyOfEquals(o, available) ==
    {s \in Candidates(o, available) :
        \A c \in Candidates(o, available) : Score(o, c) <= Score(o, s)}

\* With as much evidence for another one there is no match.
Matches(o, available) ==
    {s \in Candidates(o, available) :
        \A c \in Candidates(o, available) \ {s} : Score(o, c) < Score(o, s)}

\* Each observation in turn takes its match from what is left of the server's list.
IsJoin(join, read) ==
    \A i \in DOMAIN read :
        LET matches == Matches(read[i], open \ {join[j] : j \in 1 .. (i - 1)})
        IN  IF matches = {} THEN join[i] = Nobody ELSE join[i] \in matches

Whole(o) == o.whole /\ o.window \in Reportable

\* How many before it look the same.
Occurrence(read, i) ==
    Cardinality({j \in 1 .. (i - 1) :
        /\ Whole(read[j])
        /\ PidOf[read[j].window] = PidOf[read[i].window]
        /\ TitleOf[read[j].window] = TitleOf[read[i].window]})

\* The server's number, or else what the window looks like.
Named(w) == <<"cg", w>>
StableId(read, join, i) ==
    CASE join[i] # Nobody -> Named(join[i])
      [] join[i] = Nobody /\ read[i].window \in Numbered -> Named(read[i].window)
      [] OTHER -> <<"ax", PidOf[read[i].window], TitleOf[read[i].window], Occurrence(read, i)>>

\* What the server does not list exists only if it is minimized.
Reported(read, join) ==
    {i \in DOMAIN read : Whole(read[i]) /\ (join[i] # Nobody \/ read[i].minimized)}

Under(read, join, id) == {i \in Reported(read, join) : StableId(read, join, i) = id}

\* Of two with the same id the later one stays.
Current(read, join) ==
    [id \in {StableId(read, join, i) : i \in Reported(read, join)} |->
        read[CHOOSE i \in Under(read, join, id) : \A k \in Under(read, join, id) : k <= i]]

-----------------------------------------------------------------------------
(* diffAndEmit, in the turn in which the last application has answered.    *)

\* Who has heard `heard` and hears of the difference between two inventories.
Hears(heard, previous, current) ==
    LET added == DOMAIN current \ DOMAIN previous
        removed == DOMAIN previous \ DOMAIN current
        changed == {id \in DOMAIN current \cap DOMAIN previous : previous[id] # current[id]}
    IN  [id \in (DOMAIN heard \cup added \cup changed) \ removed |->
            IF id \in added \cup changed THEN current[id] ELSE heard[id]]

\* The focused window of the frontmost application; what it says may be older.
FocusedIds(current) ==
    {id \in DOMAIN current : /\ front # Nobody /\ PidOf[current[id].window] = PidOf[front]
                             /\ current[id].focused}

EndRefresh(t) ==
    /\ Busy(t) /\ refresh[t].waiting = {}
    /\ LET read == refresh[t].read IN
         \E join \in [DOMAIN read -> open \cup {Nobody}] :
             /\ IsJoin(join, read)
             /\ LET current == Current(read, join) IN
                  /\ lastWindows' = current
                  /\ told' = Hears(told, lastWindows, current)
                  /\ lastFocusedId' \in IF FocusedIds(current) = {} THEN {Nobody} ELSE FocusedIds(current)
    /\ stalledPids' = refresh[t].failed
    /\ latest' = [open |-> open, left |-> Pids \ refresh[t].asked, disturbed |-> refresh[t].disturbed]
    /\ refresh' = [refresh EXCEPT ![t] = Idle]
    /\ UNCHANGED desktopVars

-----------------------------------------------------------------------------
(* The desktop.  A refresh that has read an application already does not   *)
(* see what its windows do then.                                           *)

Happen == happened < MaxHappenings /\ happened' = happened + 1

Disturb(p) ==
    refresh' = [t \in RefreshTasks |->
                  IF Busy(t) /\ p \notin refresh[t].waiting
                  THEN [refresh[t] EXCEPT !.disturbed = @ \cup {p}] ELSE refresh[t]]

OpenAXWindow(w) ==
    /\ Happen /\ w \notin open
    /\ open' = open \cup {w}
    /\ UNCHANGED <<frame, minimized, front, hung, refresh>>

CloseAXWindow(w) ==
    /\ Happen /\ w \in open
    /\ open' = open \ {w} /\ minimized' = minimized \ {w}
    /\ front' = IF front = w THEN Nobody ELSE front
    /\ Disturb(PidOf[w])
    /\ UNCHANGED <<frame, hung>>

MoveAXWindow(w, to) ==
    /\ Happen /\ w \in open /\ frame[w] # to
    /\ frame' = [frame EXCEPT ![w] = to]
    /\ Disturb(PidOf[w])
    /\ UNCHANGED <<open, minimized, front, hung>>

Minimize(w) ==
    /\ Happen /\ w \in open \ minimized
    /\ minimized' = minimized \cup {w}
    /\ UNCHANGED <<open, frame, front, hung, refresh>>

Activate(w) ==
    /\ Happen /\ w \in open /\ front # w
    /\ front' = w
    /\ UNCHANGED <<open, frame, minimized, hung, refresh>>

Hang(p) ==
    /\ Happen
    /\ hung' = IF p \in hung THEN hung \ {p} ELSE hung \cup {p}
    /\ UNCHANGED <<open, frame, minimized, front, refresh>>

Desktop ==
    /\ \/ \E w \in AXWindows : OpenAXWindow(w) \/ CloseAXWindow(w) \/ Minimize(w) \/ Activate(w)
       \/ \E w \in AXWindows, to \in Frames : MoveAXWindow(w, to)
       \/ \E p \in Pids : Hang(p)
    /\ UNCHANGED <<lastWindows, lastFocusedId, stalledPids, told, latest>>

InventoryNext ==
    \/ \E t \in RefreshTasks : BeginRefresh(t) \/ EndRefresh(t)
    \/ \E t \in RefreshTasks, p \in Pids : EnumerateAppWindows(t, p)
    \/ Desktop

InventorySpec == InventoryInit /\ [][InventoryNext]_inventoryVars

-----------------------------------------------------------------------------
(* Properties.                                                             *)

\* Whoever follows the events has the sidecar's inventory, however refreshes overlap.
EventsTellAll == told = lastWindows /\ lastFocusedId \in DOMAIN told \cup {Nobody}

\* No refresh brings back a window that has been closed, unless it was minimized when
\* its application was asked.
NoGhosts ==
    \A id \in DOMAIN lastWindows :
        id \in {Named(w) : w \in latest.open} \/ lastWindows[id].minimized

\* A window is listed under its own number, unless its application has closed or moved
\* a window between its answer and the server's list.
NamesAreOwn ==
    \A id \in DOMAIN lastWindows :
        LET w == lastWindows[id].window
        IN  id[1] = "cg" /\ PidOf[w] \notin latest.disturbed => id = Named(w)

\* An application that gave no answer is asked by one of any two refreshes in a row.
NobodyIsForgotten == \A t \in RefreshTasks : Busy(t) => refresh[t].left \subseteq refresh[t].asked

\* What the sidecar lists (refreshWindows, collectAXWindows, normalize, diffAndEmit).
InventoryIsSound == EventsTellAll /\ NoGhosts /\ NamesAreOwn /\ NobodyIsForgotten
=============================================================================
