------------------------------ MODULE ConfigMC ------------------------------
(***************************************************************************)
(* Two parts of the engine in one run: either the workspaces of            *)
(* WorkspacesMC, or the configuration, with two tables of key bindings and *)
(* two that cannot be, and files that set some of the settings.  The one   *)
(* that is not `at work` stays at an initial state.                        *)
(***************************************************************************)
EXTENDS WorkspacesMC, ConfigReload

CONSTANTS absent, none, k1, k2, chord, action

Setting(keybinds, mode, inherited) ==
    [s \in Settings |-> CASE s = "keybinds" -> keybinds [] s = "mode" -> mode [] OTHER -> inherited]

MCTables == {none, k1, k2, chord, action}
MCFiles ==
    {[kind |-> "valid", says |-> says] :
        says \in {Setting(k1, absent, "floating"), Setting(k2, "floating", absent),
                  Setting(absent, "bsp", absent), Setting(chord, absent, absent),
                  Setting(action, absent, absent)}}
    \cup {[kind |-> kind, says |-> Nothing] : kind \in {"unreadable", "invalid"}}

VARIABLE atWork

BesideInit ==
    /\ Init /\ ConfigInit /\ atWork \in {"workspaces", "config"}
    /\ atWork = "workspaces" => file.kind = "invalid"

BesideNext ==
    /\ UNCHANGED atWork
    /\ \/ atWork = "workspaces" /\ Next /\ UNCHANGED configVars
       \/ atWork = "config" /\ ConfigNext /\ UNCHANGED vars

BesideSpec == BesideInit /\ [][BesideNext]_<<vars, configVars, atWork>>
=============================================================================
