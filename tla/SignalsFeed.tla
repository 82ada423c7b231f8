----------------------------- MODULE SignalsFeed -----------------------------
(***************************************************************************)
(* The Signals tab: signalManager keeps the newest signals of the          *)
(* database, SignalsViewController draws a row for each and hides the live *)
(* ones from a user who may follow one strategy only.  A row is decided    *)
(* when it is drawn: by the list and by the upperBound of that moment,     *)
(* which Entitlement changes without telling the table.  The module        *)
(* composes the two: the process and upperBound are those of Entitlement.  *)
(*                                                                         *)
(* The database is external: a server adds signals, under keys that sort   *)
(* in the order they were added, and Firebase delivers snapshots of it, in *)
(* order but possibly late.                                                *)
(***************************************************************************)
EXTENDS Entitlement

CONSTANTS
  Topics,           \* the strategies signals are about
  numberOfSignals,  \* K.numberOfSignals
  NotDrawn,         \* a row the table has not drawn since it was reloaded
  MaxSignals        \* bound: signals the database ever gets

ASSUME SignalsFeedAssumption ==
  /\ numberOfSignals \in Nat
  /\ MaxSignals \in Nat

VARIABLES
  database,   \* the node "signals", oldest first
  listening,  \* the Signals tab was opened and observes the node
  seen,       \* history: how much of the database the last snapshot had
  signals,    \* SM.signals, newest first
  cells       \* the rows of the table, as they were last drawn

tableVars == <<listening, seen, signals, cells>>
feedVars == <<vars, database, tableVars>>

-----------------------------------------------------------------------------
\* A signal opens a position of its topic or closes it, with a profit or loss.
Signals == [topic : Topics, body : {"Open", "Close"}]

\* The status of a drawn row, and whether its body reads "SIGNAL LOCKED".
Cells == [status : {"LIVE!", "Closed", "Result"}, locked : BOOLEAN]

FeedInit ==
  /\ Init
  /\ database = <<>>
  /\ listening = FALSE /\ seen = 0 /\ signals = <<>> /\ cells = <<>>

\* viewDidLoad of the Signals tab, when it is opened first.
OpenSignalsTab ==
  /\ running /\ ~listening
  /\ listening' = TRUE
  /\ UNCHANGED <<vars, database, seen, signals, cells>>

\* The server that finds signals adds one.
Publish(s) ==
  /\ Len(database) < MaxSignals
  /\ database' = Append(database, s)
  /\ UNCHANGED <<vars, tableVars>>

\* The keys of a snapshot with n signals in descending order, as many as the
\* table shows.
Newest(n) ==
  [i \in 1..(IF n < numberOfSignals THEN n ELSE numberOfSignals) |-> database[n + 1 - i]]

\* Mutant: the rows of the previous snapshot are not removed first.
SnapshotArrives_KeepOld ==
  /\ listening
  /\ \E n \in (seen + 1)..Len(database) :
       /\ seen' = n
       /\ signals' = Newest(n) \o signals
       /\ cells' = [i \in DOMAIN signals' |-> NotDrawn]
  /\ UNCHANGED <<vars, database, listening>>

\* The observer of listenToSignalsUpdate, and didReceiveSignalUpdate, which
\* reloads the table.
SnapshotArrives ==
  /\ listening
  /\ \E n \in (seen + 1)..Len(database) :
       /\ seen' = n
       /\ signals' = Newest(n)
       /\ cells' = [i \in DOMAIN signals' |-> NotDrawn]
  /\ UNCHANGED <<vars, database, listening>>

\* Mutant: the row next to it is not compared.
CheckIsLiveSignal_SkipsOne(row) ==
  \A i \in 1..(row - 2) : signals[i].topic # signals[row].topic

\* No newer row is about the topic of this one.
CheckIsLiveSignal(row) ==
  \A i \in 1..(row - 1) : signals[i].topic # signals[row].topic

\* Mutant: the lock is for a bound no user has.
CellForRow_NeverLocked(row) ==
  LET live == signals[row].body = "Open" /\ CheckIsLiveSignal(row)
  IN  [status |-> IF live THEN "LIVE!" ELSE IF signals[row].body = "Open" THEN "Closed" ELSE "Result",
       locked |-> live /\ upperBound < 1]

\* tableView(_:cellForRowAt:), the content of a row.
CellForRow(row) ==
  LET open == signals[row].body = "Open"
      live == open /\ CheckIsLiveSignal(row)
  IN  [status |-> IF live THEN "LIVE!" ELSE IF open THEN "Closed" ELSE "Result",
       locked |-> live /\ upperBound = 1]

\* The table lays a row out: for the first time after a reload, or again when
\* the user scrolls to it.
DrawRow(row) ==
  /\ cells' = [cells EXCEPT ![row] = CellForRow(row)]
  /\ UNCHANGED <<vars, database, listening, seen, signals>>

\* A step of Entitlement.  The table is not told of it, unless the process
\* ends with it.
EntitlementStep ==
  /\ Next
  /\ IF running'
     THEN UNCHANGED tableVars
     ELSE listening' = FALSE /\ seen' = 0 /\ signals' = <<>> /\ cells' = <<>>
  /\ UNCHANGED database

FeedNext ==
  \/ OpenSignalsTab
  \/ \E s \in Signals : Publish(s)
  \/ SnapshotArrives
  \/ \E row \in DOMAIN cells : DrawRow(row)
  \/ EntitlementStep

FeedSpec == FeedInit /\ [][FeedNext]_feedVars

-----------------------------------------------------------------------------
(* Properties *)

\* Types of the table; it never has more rows than it may.
FeedTypeOK ==
  /\ database \in Seq(Signals)
  /\ listening \in BOOLEAN
  /\ seen \in 0..Len(database)
  /\ signals \in Seq(Signals) /\ Len(signals) <= numberOfSignals
  /\ cells \in Seq(Cells \cup {NotDrawn}) /\ Len(cells) = Len(signals)

Drawn == {row \in DOMAIN cells : cells[row] # NotDrawn}

\* A row says LIVE exactly if it opens a position that nothing in the whole
\* database of its snapshot has closed or replaced: cutting the list to
\* numberOfSignals, and looking at newer rows only, loses nothing.
LiveIsLatest ==
  \A row \in Drawn :
    LET k == seen + 1 - row  IN
    cells[row].status = "LIVE!"
      <=> /\ database[k].body = "Open"
          /\ \A j \in (k + 1)..seen : database[j].topic # database[k].topic

\* Nobody reads a live signal without ever having bought: an open row was
\* drawn under a bound that, in whatever order answers, transactions, drawing
\* and the end of the process came, is that of a product the account got.
OpenSignalsAreBacked ==
  \A row \in Drawn :
    cells[row].status = "LIVE!" /\ ~cells[row].locked
      => \E i \in DOMAIN account : Limit(account[i].product) > 1

=============================================================================
