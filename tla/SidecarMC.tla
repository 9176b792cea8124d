------------------------------ MODULE SidecarMC ------------------------------
(***************************************************************************)
(* The sidecar's parts in one run: either the host and the pipes of        *)
(* SidecarHost, with two calls that may overlap with each other, with two  *)
(* changes of the desktop and with the end of either process; or a request *)
(* of GeometryWrites; or two refreshes of Inventory, over the windows of   *)
(* one application that look the same.  What is not `at work` stays at its *)
(* initial state, where nothing of it is due.                              *)
(***************************************************************************)
EXTENDS SidecarHost, GeometryWrites, Inventory

CONSTANTS getWindows, setFrame, m1, left, right, app, reveal, other

OneApp == [w \in Windows |-> app]

Frame(name, w) == [name |-> name, kind |-> "frame", window |-> w, after |-> {}]

\* What the engine sends: single writes, and frames with a focus that follows
\* the write of its own window.
Commands == {
    <<[Frame(reveal, left) EXCEPT !.kind = "position"]>>,
    <<Frame(reveal, left), [Frame(other, left) EXCEPT !.kind = "focus", !.after = {reveal}]>>,
    <<[Frame(reveal, left) EXCEPT !.kind = "size"], [Frame(other, right) EXCEPT !.kind = "size"]>> }

\* Everything a batch of three may say about order, with one window or a second one
\* between: of two names one is given twice, and the other may belong to nothing.
Orders ==
    LET Having(names, ws) == [name : names, kind : {"focus"}, window : ws, after : SUBSET Names]
    IN  {<<Frame(reveal, left), [Frame(other, right) EXCEPT !.kind = "invalid"]>>} \cup
        {<<a, b, c>> : a \in Having({reveal}, {left}), b \in Having(Names, Windows),
                       c \in Having(Names, {left})}

MCBatches == Commands \cup Orders

\* Two windows of one application that look the same.
OnePid == [w \in Windows |-> app]
OneTitle == [w \in Windows |-> "title"]
OneApart == {<<1, 2>>, <<2, 1>>}

VARIABLE atWork

SidecarInit ==
    /\ Init /\ WritesInit /\ InventoryInit /\ atWork \in {"host", "writes", "inventory"}
    /\ open = Windows /\ \A w \in Windows : frame[w] = 1 /\ looks[w] = <<"asked">>

\* Bound of the run: windows are replaced only around what the engine sends.
Undisturbed == batch[m1] \in Orders => \A w \in Windows : Len(looks[w]) = 1

SidecarNext ==
    /\ UNCHANGED atWork
    /\ \/ atWork = "host" /\ Next /\ UNCHANGED <<writesVars, inventoryVars>>
       \/ atWork = "writes" /\ WritesNext /\ Undisturbed' /\ UNCHANGED <<vars, inventoryVars>>
       \/ atWork = "inventory" /\ InventoryNext /\ UNCHANGED <<vars, writesVars>>

SidecarSpec ==
    /\ SidecarInit /\ [][SidecarNext]_<<vars, writesVars, inventoryVars, atWork>>
    /\ Fairness /\ WritesFairness

\* Whoever asks is answered: the caller by the host, once the handshake is there, and
\* whoever wrote down the pipe by the sidecar, whatever a batch asks and meets.
AllAreAnswered == CallsEnd /\ RequestsEnd
=============================================================================
