---------------------------- MODULE SharedCatalog ----------------------------
(***************************************************************************)
(* What the stored observations promise several processes that use them    *)
(* at once (docs/engine-guide.md, "Durable observations"): one catalog,    *)
(* of which a process changes in one step what it learned itself, and      *)
(* nothing else, whatever the others committed since it last looked.       *)
(*                                                                         *)
(* wishes[p] is what process p has learned and not committed: a function   *)
(* on some of the keys.                                                    *)
(***************************************************************************)
CONSTANTS Processes, Fields, Values,
          Contradictory,    \* documents that the store refuses
          Empty

VARIABLES catalog, wishes,
          spoiled           \* the stored file was once unreadable

Documents == [Fields -> Values]
Wishes == UNION {[S -> Values] : S \in SUBSET Fields}
Nothing == [k \in {} |-> Empty[k]]

Overlay(wish, document) ==
    [k \in Fields |-> IF k \in DOMAIN wish THEN wish[k] ELSE document[k]]

Init ==
    /\ catalog \in Documents
    /\ wishes = [p \in Processes |-> Nothing]
    /\ spoiled \in BOOLEAN

Learn(p) ==
    /\ DOMAIN wishes[p] = {}
    /\ \E w \in Wishes : wishes' = [wishes EXCEPT ![p] = w]
    /\ UNCHANGED <<catalog, spoiled>>

\* What the catalog says already need not be written any more.
Absorb(p) ==
    /\ \E S \in SUBSET DOMAIN wishes[p] :
          /\ \A k \in DOMAIN wishes[p] \ S : catalog[k] = wishes[p][k]
          /\ wishes' = [wishes EXCEPT ![p] = [k \in S |-> wishes[p][k]]]
    /\ UNCHANGED <<catalog, spoiled>>

\* What was learned contradicts the catalog: the process insists on more of
\* its own view, and on all it learned.
Insist(p) ==
    /\ Overlay(wishes[p], catalog) \in Contradictory
    /\ \E w \in Wishes :
          /\ \A k \in DOMAIN wishes[p] : Overlay(w, catalog)[k] = wishes[p][k]
          /\ wishes' = [wishes EXCEPT ![p] = w]
    /\ UNCHANGED <<catalog, spoiled>>

Commit(p) ==
    /\ catalog' = Overlay(wishes[p], catalog)
    /\ wishes' = [wishes EXCEPT ![p] = Nothing]
    /\ UNCHANGED spoiled

GiveUp(p) ==
    /\ wishes' = [wishes EXCEPT ![p] = Nothing]
    /\ UNCHANGED <<catalog, spoiled>>

\* Nothing is promised of a catalog whose file was once unreadable.
Spoil ==
    /\ spoiled'
    /\ catalog' \in Documents
    /\ wishes' \in [Processes -> Wishes]

Next ==
    \/ \E p \in Processes : Learn(p) \/ Absorb(p) \/ Insist(p) \/ Commit(p) \/ GiveUp(p)
    \/ Spoil

Spec == Init /\ [][Next]_<<catalog, wishes, spoiled>>
=============================================================================
