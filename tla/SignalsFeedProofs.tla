-------------------------- MODULE SignalsFeedProofs ---------------------------
(***************************************************************************)
(* Proofs about the Signals tab, for any strategies, any length of the     *)
(* table and of the database, and any products.                            *)
(***************************************************************************)
EXTENDS SignalsFeed, EntitlementProofs

\* The table shows the newest signals of its snapshot, newest first.
RowsAreNewest ==
  /\ Len(signals) = IF seen < numberOfSignals THEN seen ELSE numberOfSignals
  /\ \A i \in 1..Len(signals) : signals[i] = database[seen + 1 - i]

\* What is drawn of a row is still what the list says, but for the lock.
StatusIsCurrent == \A row \in Drawn : cells[row].status = CellForRow(row).status

FeedInv ==
  /\ BackedInv
  /\ FeedTypeOK
  /\ RowsAreNewest
  /\ StatusIsCurrent
  /\ OpenSignalsAreBacked

-----------------------------------------------------------------------------
LEMMA CellType == \A row : CellForRow(row) \in Cells
  BY DEF CellForRow, Cells

\* The list a snapshot leaves.
LEMMA NewestType ==
  ASSUME FeedTypeOK, NEW n \in 1..Len(database)
  PROVE  /\ Newest(n) \in Seq(Signals)
         /\ Len(Newest(n)) = IF n < numberOfSignals THEN n ELSE numberOfSignals
         /\ \A i \in 1..Len(Newest(n)) : Newest(n)[i] = database[n + 1 - i]
<1> DEFINE m == IF n < numberOfSignals THEN n ELSE numberOfSignals
<1>1. /\ database \in Seq(Signals) /\ Len(database) \in Nat
      /\ \A i \in 1..Len(database) : database[i] \in Signals
  BY LenProperties, ElementOfSeq DEF FeedTypeOK
<1>2. m \in Nat /\ m <= n /\ m <= numberOfSignals
  BY <1>1, SignalsFeedAssumption
<1> HIDE DEF m
<1>3. \A i \in 1..m : n + 1 - i \in 1..Len(database)
  BY <1>1, <1>2
<1>4. Newest(n) = [i \in 1..m |-> database[n + 1 - i]]
  BY DEF Newest, m
<1>5. Newest(n) \in [1..m -> Signals]
  BY <1>1, <1>3, <1>4
<1>6. Newest(n) \in Seq(Signals) /\ Len(Newest(n)) = m
  BY <1>2, <1>5, SeqDef, LenProperties
<1> QED
  BY <1>4, <1>6 DEF m

\* A row is live exactly if the rest of the snapshot says nothing newer.
LEMMA LiveMeansLatest ==
  ASSUME FeedTypeOK, RowsAreNewest, NEW row \in 1..Len(signals)
  PROVE  CellForRow(row).status = "LIVE!"
           <=> /\ database[seen + 1 - row].body = "Open"
               /\ \A j \in (seen + 1 - row + 1)..seen :
                    database[j].topic # database[seen + 1 - row].topic
<1>1. Len(signals) \in Nat /\ seen \in Nat
  BY LenProperties DEF FeedTypeOK
<1>2. signals[row] = database[seen + 1 - row]
  BY DEF RowsAreNewest
<1>3. CheckIsLiveSignal(row)
        => \A j \in (seen + 1 - row + 1)..seen : database[j].topic # database[seen + 1 - row].topic
  <2> SUFFICES ASSUME CheckIsLiveSignal(row), NEW j \in (seen + 1 - row + 1)..seen
               PROVE  database[j].topic # database[seen + 1 - row].topic
    OBVIOUS
  <2>1. PICK i \in 1..(row - 1) : j = seen + 1 - i
    <3>1. seen + 1 - j \in 1..(row - 1) /\ j = seen + 1 - (seen + 1 - j)
      BY <1>1
    <3> QED
      BY <3>1
  <2>2. i \in 1..Len(signals)
    BY <1>1
  <2>3. signals[i] = database[j]
    BY <2>1, <2>2 DEF RowsAreNewest
  <2> QED
    BY <1>2, <2>3 DEF CheckIsLiveSignal
<1>4. (\A j \in (seen + 1 - row + 1)..seen : database[j].topic # database[seen + 1 - row].topic)
        => CheckIsLiveSignal(row)
  <2> SUFFICES ASSUME \A j \in (seen + 1 - row + 1)..seen :
                        database[j].topic # database[seen + 1 - row].topic,
                      NEW i \in 1..(row - 1)
               PROVE  signals[i].topic # signals[row].topic
    BY DEF CheckIsLiveSignal
  <2>1. i \in 1..Len(signals) /\ seen + 1 - i \in (seen + 1 - row + 1)..seen
    BY <1>1
  <2>2. signals[i] = database[seen + 1 - i]
    BY <2>1 DEF RowsAreNewest
  <2> QED
    BY <1>2, <2>1, <2>2
<1>5. CellForRow(row).status = "LIVE!" <=> signals[row].body = "Open" /\ CheckIsLiveSignal(row)
  BY DEF CellForRow
<1> QED
  BY <1>2, <1>3, <1>4, <1>5

-----------------------------------------------------------------------------
LEMMA FeedInvInit == FeedInit => FeedInv
<1> SUFFICES ASSUME FeedInit PROVE FeedInv
  OBVIOUS
<1>1. BackedInv
  BY BackedInit DEF FeedInit
<1>2. Len(database) = 0 /\ Len(signals) = 0 /\ DOMAIN cells = {} /\ Len(cells) = 0
  BY EmptySeq DEF FeedInit
<1>3. FeedTypeOK
  <2>1. <<>> \in Seq(Signals) /\ <<>> \in Seq(Cells \cup {NotDrawn})
    BY EmptySeq
  <2>2. seen \in 0..Len(database) /\ Len(signals) <= numberOfSignals
    BY <1>2, SignalsFeedAssumption DEF FeedInit
  <2> QED
    BY <1>2, <2>1, <2>2 DEF FeedInit, FeedTypeOK
<1>4. RowsAreNewest
  BY <1>2, SignalsFeedAssumption DEF FeedInit, RowsAreNewest
<1>5. Drawn = {}
  BY <1>2 DEF Drawn
<1> QED
  BY <1>1, <1>3, <1>4, <1>5 DEF FeedInv, StatusIsCurrent, OpenSignalsAreBacked

\* A table without rows has nothing wrong with it.
LEMMA EmptyTable ==
  ASSUME FeedTypeOK, database' = database, listening' = FALSE,
         seen' = 0, signals' = <<>>, cells' = <<>>
  PROVE  FeedTypeOK' /\ RowsAreNewest' /\ StatusIsCurrent' /\ OpenSignalsAreBacked'
<1>1. Len(signals') = 0 /\ DOMAIN cells' = {} /\ Len(cells') = 0
  BY EmptySeq
<1>2. Len(database) \in Nat
  BY LenProperties DEF FeedTypeOK
<1>3. FeedTypeOK'
  <2>1. <<>> \in Seq(Signals) /\ <<>> \in Seq(Cells \cup {NotDrawn})
    BY EmptySeq
  <2>2. seen' \in 0..Len(database') /\ Len(signals') <= numberOfSignals
    BY <1>1, <1>2, SignalsFeedAssumption
  <2> QED
    BY <1>1, <2>1, <2>2 DEF FeedTypeOK
<1>4. RowsAreNewest'
  BY <1>1, SignalsFeedAssumption DEF RowsAreNewest
<1>5. Drawn' = {}
  BY <1>1 DEF Drawn
<1> QED
  BY <1>3, <1>4, <1>5 DEF StatusIsCurrent, OpenSignalsAreBacked

\* What no row disappears from, and what the account only adds to.
LEMMA BackingStays ==
  ASSUME BackedInv, AccountStep, NEW i \in DOMAIN account
  PROVE  i \in DOMAIN account' /\ account'[i].product = account[i].product
<1>1. account \in Seq(Receipts)
  BY DEF BackedInv, TypeOK
<1> QED
  BY <1>1, AccountGrows

LEMMA FeedInvNext ==
  ASSUME FeedInv, [FeedNext]_feedVars
  PROVE  FeedInv'
<1> USE DEF FeedInv
<1>0. /\ Len(database) \in Nat /\ Len(signals) \in Nat /\ Len(cells) \in Nat
      /\ DOMAIN cells = 1..Len(cells) /\ seen \in Nat
  BY LenProperties DEF FeedTypeOK
<1>1. ASSUME UNCHANGED <<seen, signals, cells>>, UNCHANGED vars, listening' \in BOOLEAN,
             database' = database \/ \E s \in Signals : database' = Append(database, s)
      PROVE  FeedInv'
  <2>1. BackedInv'
    BY <1>1, BackedNext
  <2>2. /\ database' \in Seq(Signals) /\ Len(database') >= Len(database) /\ Len(database') \in Nat
        /\ \A k \in 1..Len(database) : database'[k] = database[k]
    <3>1. CASE database' = database
      BY <1>0, <3>1 DEF FeedTypeOK
    <3>2. ASSUME NEW s \in Signals, database' = Append(database, s)
          PROVE  /\ database' \in Seq(Signals) /\ Len(database') = Len(database) + 1
                 /\ \A k \in 1..Len(database) : database'[k] = database[k]
      BY <3>2, AppendProperties DEF FeedTypeOK
    <3> QED
      BY <1>0, <1>1, <3>1, <3>2
  <2>3. FeedTypeOK'
    BY <1>0, <1>1, <2>2 DEF FeedTypeOK
  <2>4. RowsAreNewest'
    <3>1. \A i \in 1..Len(signals) : seen + 1 - i \in 1..Len(database)
      BY <1>0, SignalsFeedAssumption DEF FeedTypeOK, RowsAreNewest
    <3> QED
      BY <1>1, <2>2, <3>1 DEF RowsAreNewest
  <2>5. StatusIsCurrent' /\ OpenSignalsAreBacked'
    BY <1>1 DEF vars, storeVars, screenVars, StatusIsCurrent, OpenSignalsAreBacked, Drawn,
       CellForRow, CheckIsLiveSignal
  <2> QED
    BY <2>1, <2>3, <2>4, <2>5
<1>2. CASE OpenSignalsTab
  BY <1>1, <1>2 DEF OpenSignalsTab
<1>3. ASSUME NEW s \in Signals, Publish(s)
      PROVE  FeedInv'
  BY <1>1, <1>3 DEF Publish, tableVars, FeedTypeOK
<1>4. CASE SnapshotArrives
  <2>1. BackedInv'
    BY <1>4, BackedNext DEF SnapshotArrives
  <2>2. PICK n \in (seen + 1)..Len(database) :
          /\ seen' = n /\ signals' = Newest(n)
          /\ cells' = [i \in DOMAIN signals' |-> NotDrawn]
    BY <1>4 DEF SnapshotArrives
  <2>3. n \in 1..Len(database) /\ database' = database /\ listening' = listening
    BY <1>0, <1>4, <2>2 DEF SnapshotArrives
  <2>4. /\ signals' \in Seq(Signals)
        /\ Len(signals') = IF n < numberOfSignals THEN n ELSE numberOfSignals
        /\ \A i \in 1..Len(signals') : signals'[i] = database[n + 1 - i]
    BY <2>2, <2>3, NewestType
  <2>5. Len(signals') \in Nat /\ DOMAIN signals' = 1..Len(signals')
    BY <2>4, LenProperties
  <2>6. cells' = [i \in 1..Len(signals') |-> NotDrawn]
    BY <2>2, <2>5
  <2>7. cells' \in Seq(Cells \cup {NotDrawn}) /\ Len(cells') = Len(signals')
        /\ DOMAIN cells' = 1..Len(signals') /\ \A i \in 1..Len(signals') : cells'[i] = NotDrawn
    <3> DEFINE m == Len(signals')
               c == [i \in 1..m |-> NotDrawn]
    <3> HIDE DEF m
    <3>1. m \in Nat
      BY <2>5 DEF m
    <3>2. c \in [1..m -> Cells \cup {NotDrawn}]
      OBVIOUS
    <3>3. c \in Seq(Cells \cup {NotDrawn}) /\ Len(c) = m
      BY <3>1, <3>2, SeqDef, LenProperties
    <3>4. DOMAIN c = 1..m /\ \A i \in 1..m : c[i] = NotDrawn
      OBVIOUS
    <3> QED
      BY <2>6, <3>3, <3>4 DEF m
  <2>8. FeedTypeOK'
    BY <1>0, <2>2, <2>3, <2>4, <2>7, SignalsFeedAssumption DEF FeedTypeOK
  <2>9. RowsAreNewest'
    BY <2>2, <2>3, <2>4 DEF RowsAreNewest
  <2>10. Drawn' = {}
    BY <2>7 DEF Drawn
  <2> QED
    BY <2>1, <2>8, <2>9, <2>10 DEF StatusIsCurrent, OpenSignalsAreBacked
<1>5. ASSUME NEW row \in DOMAIN cells, DrawRow(row)
      PROVE  FeedInv'
  <2>1. BackedInv' /\ UNCHANGED <<vars, database, listening, seen, signals>>
        /\ cells' = [cells EXCEPT ![row] = CellForRow(row)]
    BY <1>5, BackedNext DEF DrawRow
  <2>2. /\ cells' \in Seq(Cells \cup {NotDrawn}) /\ Len(cells') = Len(cells)
        /\ \A i \in 1..Len(cells) : cells'[i] = IF i = row THEN CellForRow(row) ELSE cells[i]
    BY <1>0, <2>1, CellType, ExceptSeq DEF FeedTypeOK
  <2>3. FeedTypeOK' /\ RowsAreNewest'
    BY <2>1, <2>2 DEF FeedTypeOK, RowsAreNewest
  <2>4. DOMAIN cells' = DOMAIN cells
    BY <2>1
  <2>5. \A r : CellForRow(r)' = CellForRow(r)
    BY <2>1 DEF CellForRow, CheckIsLiveSignal, vars
  <2>6. StatusIsCurrent'
    BY <1>0, <2>2, <2>4, <2>5 DEF StatusIsCurrent, Drawn
  <2>7. CellForRow(row).status = "LIVE!" /\ ~CellForRow(row).locked
          => \E i \in DOMAIN account : Limit(account[i].product) > 1
    <3>1. upperBound \in {1, 3, 6, 999} /\ PremiumIsBacked
      BY DEF BackedInv, TypeOK, Limits
    <3>2. CellForRow(row).status = "LIVE!" /\ ~CellForRow(row).locked => upperBound # 1
      BY DEF CellForRow
    <3> QED
      BY <3>1, <3>2 DEF PremiumIsBacked
  <2>8. OpenSignalsAreBacked'
    BY <1>0, <2>1, <2>2, <2>4, <2>7 DEF OpenSignalsAreBacked, Drawn, vars, storeVars, Limit
  <2> QED
    BY <2>1, <2>3, <2>6, <2>8
<1>6. CASE EntitlementStep
  <2>1. BackedInv' /\ AccountStep /\ database' = database
    BY <1>6, BackedNext, NextAccountStep DEF EntitlementStep
  <2>2. CASE UNCHANGED tableVars
    <3>1. FeedTypeOK' /\ RowsAreNewest'
      BY <2>1, <2>2 DEF tableVars, FeedTypeOK, RowsAreNewest
    <3>2. Drawn' = Drawn
      BY <2>2 DEF tableVars, Drawn
    <3>3. \A r : CellForRow(r)'.status = CellForRow(r).status
      BY <2>2 DEF tableVars, CellForRow, CheckIsLiveSignal
    <3>4. StatusIsCurrent'
      BY <2>2, <3>2, <3>3 DEF tableVars, StatusIsCurrent
    <3>5. OpenSignalsAreBacked'
      <4> SUFFICES ASSUME NEW row \in Drawn, cells[row].status = "LIVE!", ~cells[row].locked
                   PROVE  \E i \in DOMAIN account' : Limit(account'[i].product) > 1
        BY <2>2, <3>2 DEF tableVars, OpenSignalsAreBacked, Limit
      <4>1. PICK i \in DOMAIN account : Limit(account[i].product) > 1
        BY DEF OpenSignalsAreBacked
      <4>2. i \in DOMAIN account' /\ account'[i].product = account[i].product
        BY <2>1, BackingStays
      <4> QED
        BY <4>1, <4>2
    <3> QED
      BY <2>1, <3>1, <3>4, <3>5
  <2>3. CASE listening' = FALSE /\ seen' = 0 /\ signals' = <<>> /\ cells' = <<>>
    BY <2>1, <2>3, EmptyTable
  <2> QED
    BY <1>6, <2>2, <2>3 DEF EntitlementStep
<1>7. CASE UNCHANGED feedVars
  BY <1>1, <1>7 DEF feedVars, tableVars, FeedTypeOK
<1> QED
  BY <1>2, <1>3, <1>4, <1>5, <1>6, <1>7 DEF FeedNext

-----------------------------------------------------------------------------
\* The types of the table hold in every behaviour.
THEOREM FeedTypeCorrect == FeedSpec => []FeedTypeOK
<1>1. FeedInv => FeedTypeOK
  BY DEF FeedInv
<1> QED
  BY <1>1, FeedInvInit, FeedInvNext, PTL DEF FeedSpec

\* LIVE always means: open, and the last word of the whole snapshot on its
\* strategy, however short the table.
THEOREM LiveAlwaysLatest == FeedSpec => []LiveIsLatest
<1>1. FeedInv => LiveIsLatest
  <2> SUFFICES ASSUME FeedInv, NEW row \in Drawn
               PROVE  cells[row].status = "LIVE!"
                        <=> /\ database[seen + 1 - row].body = "Open"
                            /\ \A j \in (seen + 1 - row + 1)..seen :
                                 database[j].topic # database[seen + 1 - row].topic
    BY DEF LiveIsLatest
  <2>1. row \in 1..Len(signals) /\ cells[row].status = CellForRow(row).status
    BY LenProperties DEF FeedInv, FeedTypeOK, Drawn, StatusIsCurrent
  <2> QED
    BY <2>1, LiveMeansLatest DEF FeedInv
<1> QED
  BY <1>1, FeedInvInit, FeedInvNext, PTL DEF FeedSpec

\* Nobody ever reads a live signal without having bought a product.
THEOREM OpenSignalsAlwaysBacked == FeedSpec => []OpenSignalsAreBacked
<1>1. FeedInv => OpenSignalsAreBacked
  BY DEF FeedInv
<1> QED
  BY <1>1, FeedInvInit, FeedInvNext, PTL DEF FeedSpec

\* The Signals tab does to Entitlement only what Entitlement does by itself.
THEOREM FeedImplementsEntitlement == FeedSpec => Spec
<1>1. FeedInit => Init
  BY DEF FeedInit
<1>2. [FeedNext]_feedVars => [Next]_vars
  BY DEF FeedNext, feedVars, OpenSignalsTab, Publish, SnapshotArrives, DrawRow, EntitlementStep
<1> QED
  BY <1>1, <1>2, PTL DEF FeedSpec, Spec

=============================================================================
