---------------------------- MODULE StrategyStore ----------------------------
(***************************************************************************)
(* What the user expects of the setup screen: one strategy per currency    *)
(* pair and direction.  The screen opens with the one saved last, and a    *)
(* press of SAVE stores what it shows for its own pair and direction and   *)
(* touches no other.  When the write fails all strategies stay as they     *)
(* were; when it is cut short all of them are lost.                        *)
(***************************************************************************)
CONSTANTS Keys, Drafts, Blank, Unreadable, Never, NoStrategy, NoScreen

VARIABLES
  store,    \* the strategy of each pair and direction
  screen,   \* the open setup screen: its key and what it shows
  lastSave  \* what became of the last press of SAVE

vars == <<store, screen, lastSave>>

Init ==
  /\ store = [k \in Keys |-> NoStrategy]
  /\ screen = NoScreen
  /\ lastSave = "none"

Open(k) ==
  /\ screen = NoScreen
  /\ screen' = [key |-> k, form |-> IF store[k] = NoStrategy THEN Blank ELSE store[k]]
  /\ UNCHANGED <<store, lastSave>>

Edit(d) ==
  /\ screen # NoScreen
  /\ screen' = [screen EXCEPT !.form = d]
  /\ UNCHANGED <<store, lastSave>>

Leave ==
  /\ screen # NoScreen
  /\ screen' = NoScreen
  /\ UNCHANGED <<store, lastSave>>

\* A threshold that cannot be read is stored as one no sum reaches.
Entered(f) == IF f.threshold = Unreadable THEN [f EXCEPT !.threshold = Never] ELSE f

Save ==
  /\ screen # NoScreen
  /\ store' = [store EXCEPT ![screen.key] = Entered(screen.form)]
  /\ screen' = NoScreen
  /\ lastSave' = "written"

Fail ==
  /\ screen # NoScreen
  /\ screen' = NoScreen
  /\ lastSave' = "failed"
  /\ UNCHANGED store

Lose ==
  /\ screen # NoScreen
  /\ store' = [k \in Keys |-> NoStrategy]
  /\ screen' = NoScreen
  /\ lastSave' = "lost"

Next ==
  \/ \E k \in Keys : Open(k)
  \/ \E d \in Drafts : Edit(d)
  \/ Leave \/ Save \/ Fail \/ Lose

Spec == Init /\ [][Next]_vars
=============================================================================
