--------------------------- MODULE AcceptanceProofs ---------------------------
(***************************************************************************)
(* Theorems about Acceptance and ReadApi, for every set of requests and    *)
(* exceptions and every input.                                             *)
(***************************************************************************)
EXTENDS ReadApi, FiniteSetTheorems, TLAPS

-----------------------------------------------------------------------------
(* Types. *)

\* The loop goes on with a typed item.
LEMMA GoOnType ==
    ASSUME TypeOK, NEW r \in Requests, NEW position \in Nat, GoOn(r, position)
    PROVE  pc' \in [Requests -> Stage] /\ item' \in [Requests -> Item]
  <1>1. NewItem(position) \in Item
    BY DEF NewItem, Item
  <1> QED
    BY <1>1 DEF TypeOK, GoOn, Stage

\* A row that was found is noted in a typed item.
LEMMA FoundType ==
    ASSUME TypeOK, NEW r \in Requests, NEW row \in Rows, NEW created \in BOOLEAN,
           Found(r, row, created)
    PROVE  pc' \in [Requests -> Stage] /\ item' \in [Requests -> Item]
  BY DEF TypeOK, Found, Stage, Item

\* A transaction's end leaves nothing of it.
LEMMA EndsType ==
    ASSUME TypeOK, NEW r \in Requests, NEW told \in {"accepted", "failed"}, Ends(r, told)
    PROVE  /\ pc' \in [Requests -> Stage] /\ item' \in [Requests -> Item]
           /\ scan' \in [Requests -> Scan] /\ answer' \in [Requests -> Answer]
           /\ tx' \in [Requests -> Tx]
  BY DEF TypeOK, Ends, Stage, Answer, Tx, NoTx

\* An insert adds a row and its key.
LEMMA InsertType ==
    ASSUME TypeOK, NEW r \in Requests, Insert(r)
    PROVE  /\ pc' \in [Requests -> Stage] /\ item' \in [Requests -> Item]
           /\ tx' \in [Requests -> Tx]
  <1>1. PICK x \in Exceptions : Conflict(r) \/ Inserted(r, x)
    BY DEF Insert
  <1>2. CASE Conflict(r)
    BY <1>2 DEF TypeOK, Conflict, Stage
  <1>3. CASE Inserted(r, x)
    <2>1. [request |-> r, exception |-> x] \in Rows
      BY DEF Rows
    <2>2. tx' \in [Requests -> Tx]
      BY <1>3, <2>1 DEF TypeOK, Inserted, Tx
    <2> QED
      BY <1>3, <2>1, <2>2, FoundType DEF Inserted
  <1> QED
    BY <1>1, <1>2, <1>3

\* Updates of a selection and of a transaction.
LEMMA SelectedType ==
    ASSUME NEW f \in [Requests -> Scan], NEW r \in Requests,
           NEW cursor \in Nat, NEW selected \in Seq(Exceptions)
    PROVE  [f EXCEPT ![r].cursor = cursor, ![r].selected = selected] \in [Requests -> Scan]
  <1> DEFINE g == [f EXCEPT ![r].cursor = cursor]
  <1>1. g \in [Requests -> Scan]
    BY DEF Scan
  <1>2. [g EXCEPT ![r].selected = selected] \in [Requests -> Scan]
    BY <1>1 DEF Scan
  <1> QED
    BY <1>2

\* The end of a page and the history seen with it keep a scan a scan.
LEMMA PageType ==
    ASSUME NEW f \in [Requests -> Scan], NEW r \in Requests,
           NEW end \in Nat, NEW history \in SUBSET Exceptions
    PROVE  [f EXCEPT ![r].end = end, ![r].history = history] \in [Requests -> Scan]
  <1> DEFINE g == [f EXCEPT ![r].end = end]
  <1>1. g \in [Requests -> Scan]
    BY DEF Scan
  <1>2. [g EXCEPT ![r].history = history] \in [Requests -> Scan]
    BY <1>1 DEF Scan
  <1> QED
    BY <1>2

\* A transaction stays one with other rows.
LEMMA RowsType ==
    ASSUME NEW f \in [Requests -> Tx], NEW r \in Requests, NEW rows \in SUBSET Rows
    PROVE  LET g == [f EXCEPT ![r].rows = rows]
           IN  /\ g \in [Requests -> Tx]
               /\ g[r].rows = rows /\ g[r].keys = f[r].keys /\ g[r].events = f[r].events
  BY DEF Tx

\* A selection keeps a sequence of exceptions.
LEMMA ExamineType ==
    ASSUME TypeOK, NEW r \in Requests, Examine(r)
    PROVE  scan' \in [Requests -> Scan]
  <1> DEFINE s == scan[r]
             x == Input[r][s.cursor + 1]
  <1>1. s \in Scan /\ s.cursor \in Nat /\ s.selected \in Seq(Exceptions)
    BY DEF TypeOK, Scan
  <1>2. x \in Exceptions
    BY <1>1, RequestsAssumption DEF Examine
  <1>3. Selected(s, x) \in Seq(Exceptions)
    BY <1>1, <1>2 DEF Selected
  <1>4. s.cursor + 1 \in Nat
    BY <1>1
  <1>5. scan' = [scan EXCEPT ![r].cursor = s.cursor + 1, ![r].selected = Selected(s, x)]
    BY DEF Examine
  <1> HIDE DEF s, x
  <1> QED
    BY <1>3, <1>4, <1>5, SelectedType DEF TypeOK

\* At a request's last statements for an exception it knows the row.
RowKnown(r) ==
    pc[r] \in {"recheck", "record"} =>
        item[r].row \in Rows /\ item[r].row.exception = Exception(r)

\* Every step keeps the types.
LEMMA TypeStep ==
    ASSUME TypeOK, \A r \in Requests : RowKnown(r), [Next]_vars
    PROVE  TypeOK'
  <1>1. ASSUME NEW r \in Requests, ReadPage(r) PROVE TypeOK'
    <2>1. Len(Input[r]) \in Nat /\ scan[r].end \in Nat /\ PageSize \in Nat
      BY RequestsAssumption, LimitsAssumption DEF TypeOK, Scan
    <2>2. scan' \in [Requests -> Scan]
      <3> DEFINE end == IF scan[r].end + PageSize < Len(Input[r])
                        THEN scan[r].end + PageSize ELSE Len(Input[r])
                 history == {x \in Exceptions : Completed(x)}
      <3>1. end \in Nat /\ history \in SUBSET Exceptions
        BY <2>1
      <3>2. \/ scan' = scan
            \/ scan' = [scan EXCEPT ![r].end = end, ![r].history = history]
        BY <1>1 DEF ReadPage
      <3> HIDE DEF end, history
      <3>3. [scan EXCEPT ![r].end = end, ![r].history = history] \in [Requests -> Scan]
        BY <3>1, PageType, Zenon DEF TypeOK
      <3> QED
        BY <3>2, <3>3 DEF TypeOK
    <2>3. pc' \in [Requests -> Stage]
      BY <1>1 DEF TypeOK, ReadPage, Stage
    <2> QED
      BY <1>1, <2>2, <2>3 DEF TypeOK, ReadPage, committed
  <1>2. ASSUME NEW r \in Requests, Examine(r) PROVE TypeOK'
    BY <1>2, ExamineType DEF TypeOK, Examine, committed
  <1>3. ASSUME NEW r \in Requests, PageDone(r) PROVE TypeOK'
    BY <1>3 DEF TypeOK, PageDone, Stage, committed
  <1>4. ASSUME NEW r \in Requests, Begin(r) PROVE TypeOK'
    BY <1>4, GoOnType DEF TypeOK, Begin, committed
  <1>5. ASSUME NEW r \in Requests PROVE item[r].position + 1 \in Nat
    BY DEF TypeOK, Item
  <1>6. ASSUME NEW r \in Requests, Check(r) PROVE TypeOK'
    BY <1>5, <1>6, GoOnType DEF TypeOK, Check, Stage, committed
  <1>7. ASSUME NEW r \in Requests, Insert(r) PROVE TypeOK'
    BY <1>7, InsertType DEF TypeOK, Insert, committed
  <1>8. ASSUME NEW r \in Requests, Lookup(r) PROVE TypeOK'
    <2>1. ASSUME NEW row \in ActiveFor(r, Exception(r)), Found(r, row, FALSE),
                 UNCHANGED <<answer, scan, tx>>
          PROVE  TypeOK'
      BY <1>8, <2>1, FoundType DEF TypeOK, Lookup, ActiveFor, committed
    <2>2. CASE /\ item' = [item EXCEPT ![r].tries = 1]
               /\ pc' = [pc EXCEPT ![r] = "insert"]
               /\ UNCHANGED <<answer, scan, tx>>
      BY <1>8, <2>2 DEF TypeOK, Lookup, Item, Stage, committed
    <2>3. CASE RolledBack(r)
      BY <1>8, <2>3, EndsType DEF TypeOK, Lookup, RolledBack, committed
    <2> QED
      BY <1>8, <2>1, <2>2, <2>3 DEF Lookup
  <1>9. ASSUME NEW r \in Requests, Recheck(r) PROVE TypeOK'
    <2>1. tx' \in [Requests -> Tx]
      <3> DEFINE rows == IF item[r].created THEN tx[r].rows \ {item[r].row} ELSE tx[r].rows
      <3>1. rows \in SUBSET Rows
        BY DEF TypeOK, Tx
      <3>2. tx' = tx \/ tx' = [tx EXCEPT ![r].rows = rows]
        BY <1>9 DEF Recheck
      <3> HIDE DEF rows
      <3>3. [tx EXCEPT ![r].rows = rows] \in [Requests -> Tx]
        BY <3>1, RowsType, Zenon DEF TypeOK
      <3> QED
        BY <3>2, <3>3 DEF TypeOK
    <2> QED
      BY <1>5, <1>9, <2>1, GoOnType DEF TypeOK, Recheck, Stage, committed
  <1>10. ASSUME NEW r \in Requests, Record(r) PROVE TypeOK'
    <2>1. CASE item[r].row \in tx[r].members
      BY <1>10, <2>1, EndsType DEF TypeOK, Record, RolledBack, committed
    <2>2. CASE item[r].row \notin tx[r].members
      <3>1. item[r].row \in Rows
        BY <1>10 DEF Record, RowKnown
      <3> QED
        BY <1>5, <1>10, <2>2, <3>1, GoOnType DEF TypeOK, Record, Tx, committed
    <2> QED
      BY <2>1, <2>2
  <1>11. ASSUME NEW r \in Requests, Commit(r) PROVE TypeOK'
    <2>1. /\ status' \in [Rows -> RowStatus] /\ events' \subseteq Rows
          /\ members' \in [Requests -> SUBSET Rows]
      BY <1>11 DEF TypeOK, Commit, RowStatus, Tx
    <2> QED
      BY <1>11, <2>1, EndsType DEF TypeOK, Commit
  <1>12. ASSUME NEW r \in Requests, Fails(r) \/ DeadlockAborts(r) PROVE TypeOK'
    BY <1>12, EndsType DEF TypeOK, Fails, DeadlockAborts, RolledBack, committed
  <1>13. ASSUME NEW row \in Rows, Decide(row) PROVE TypeOK'
    BY <1>13 DEF TypeOK, Decide, RowStatus
  <1>14. CASE UNCHANGED vars
    BY <1>14 DEF TypeOK, vars
  <1> QED
    BY <1>1, <1>2, <1>3, <1>4, <1>6, <1>7, <1>8, <1>9, <1>10, <1>11, <1>12, <1>13, <1>14
    DEF Next, Step

-----------------------------------------------------------------------------
(* The inductive invariant. *)

\* A transaction writes its own rows, each under a key it holds, and events of them.
TxOwn(r) ==
    /\ \A row \in tx[r].rows : row.request = r /\ row.exception \in tx[r].keys
    /\ tx[r].events \subseteq tx[r].rows

\* The only row without its event is the one the request is at.
EventPending(r) ==
    /\ pc[r] \in {"recheck", "record"} /\ item[r].created =>
           item[r].row \in tx[r].rows \ tx[r].events
    /\ \A row \in tx[r].rows \ tx[r].events :
           pc[r] \in {"recheck", "record"} /\ item[r].created /\ row = item[r].row

History == {x \in Exceptions : Completed(x)}

\* From the second look on, the exception of a new row is not in the history.
HistoryOut(r) ==
    r \in Filtered =>
        /\ \A row \in tx[r].events : row.exception \notin History
        /\ pc[r] = "record" /\ item[r].created => item[r].row.exception \notin History

LocalInv(r) == RowKnown(r) /\ TxOwn(r) /\ EventPending(r) /\ HistoryOut(r)

\* A key belongs to one transaction, and no committed row is active under it.
KeysDisjoint ==
    \A q, r \in Requests : q # r => tx[q].keys \cap tx[r].keys = {}
KeysFree ==
    \A r \in Requests : \A row \in Rows :
        row.exception \in tx[r].keys => status[row] # "active"
OneCommitted ==
    \A row1, row2 \in Rows :
        status[row1] = "active" /\ status[row2] = "active"
        /\ row1.exception = row2.exception => row1 = row2

Inv ==
    /\ TypeOK
    /\ \A r \in Requests : LocalInv(r)
    /\ KeysDisjoint /\ KeysFree /\ OneCommitted
    /\ EventForEveryRow

\* The invariant holds at first.
LEMMA InvInit == Init => Inv
  <1> SUFFICES ASSUME Init PROVE Inv
    OBVIOUS
  <1>1. NewItem(1) \in Item /\ NoTx \in Tx
    BY DEF NewItem, Item, NoTx, Tx
  <1>2. scan \in [Requests -> Scan]
    BY RequestsAssumption DEF Init, Scan
  <1>3. TypeOK
    BY <1>1, <1>2 DEF Init, TypeOK, RowStatus, Answer, Stage
  <1>4. ASSUME NEW r \in Requests PROVE LocalInv(r)
    BY DEF Init, LocalInv, RowKnown, TxOwn, EventPending, HistoryOut, NoTx
  <1>5. KeysDisjoint /\ KeysFree /\ OneCommitted /\ EventForEveryRow
    BY DEF Init, KeysDisjoint, KeysFree, OneCommitted, EventForEveryRow, NoTx
  <1> QED
    BY <1>3, <1>4, <1>5 DEF Inv

-----------------------------------------------------------------------------
(* What a step does to everybody else. *)

\* A request's step leaves the other requests' state alone.
LEMMA FrameStep ==
    ASSUME Inv, NEW r \in Requests, Step(r) \/ Fails(r) \/ DeadlockAborts(r),
           NEW q \in Requests, q # r
    PROVE  /\ pc'[q] = pc[q] /\ item'[q] = item[q]
           /\ scan'[q] = scan[q] /\ tx'[q] = tx[q]
  <1> USE DEF Inv, TypeOK
  <1>1. CASE ReadPage(r) \/ Examine(r) \/ PageDone(r)
    BY <1>1 DEF ReadPage, Examine, PageDone
  <1>2. CASE Begin(r) \/ Check(r) \/ Record(r)
    BY <1>2 DEF Begin, Check, Record, GoOn, RolledBack, Ends
  <1>3. CASE Insert(r)
    BY <1>3 DEF Insert, Conflict, Inserted, Found
  <1>4. CASE Lookup(r)
    BY <1>4 DEF Lookup, Found, RolledBack, Ends
  <1>5. CASE Recheck(r)
    BY <1>5 DEF Recheck, GoOn
  <1>6. CASE Commit(r)
    BY <1>6 DEF Commit, Ends
  <1>7. CASE Fails(r) \/ DeadlockAborts(r)
    BY <1>7 DEF Fails, DeadlockAborts, RolledBack, Ends
  <1> QED
    BY <1>1, <1>2, <1>3, <1>4, <1>5, <1>6, <1>7 DEF Step

\* Nobody completes an exception while a transaction holds its key.
LEMMA HistoryFrozen ==
    ASSUME Inv, [Next]_vars, NEW q \in Requests, NEW x \in tx[q].keys, x \in History'
    PROVE  x \in History
  <1> USE DEF Inv, TypeOK, History, Completed
  <1>1. CASE status' = status
    BY <1>1
  <1>2. ASSUME NEW r \in Requests, Commit(r) PROVE x \in History
    BY <1>2 DEF Commit
  <1>3. ASSUME NEW row \in Rows, Decide(row) PROVE x \in History
    BY <1>3 DEF Decide, KeysFree
  <1>4. ASSUME NEW r \in Requests, Step(r) \/ Fails(r) \/ DeadlockAborts(r)
        PROVE  status' = status \/ Commit(r)
    BY <1>4
    DEF Step, ReadPage, Examine, PageDone, Begin, Check, Insert, Lookup, Recheck,
        Record, Fails, DeadlockAborts, committed
  <1> QED
    BY <1>1, <1>2, <1>3, <1>4 DEF Next, vars

\* A request whose own state a step leaves alone keeps its part of the invariant.
LEMMA LocalFrame ==
    ASSUME Inv, [Next]_vars, NEW q \in Requests,
           pc'[q] = pc[q], item'[q] = item[q], scan'[q] = scan[q], tx'[q] = tx[q]
    PROVE  LocalInv(q)'
  <1> USE DEF Inv, LocalInv
  <1>1. RowKnown(q)'
    BY DEF RowKnown, Exception
  <1>2. TxOwn(q)' /\ EventPending(q)'
    BY DEF TxOwn, EventPending
  <1>3. HistoryOut(q)'
    BY HistoryFrozen DEF HistoryOut, TxOwn, EventPending
  <1> QED
    BY <1>1, <1>2, <1>3

-----------------------------------------------------------------------------
(* What a step does to the request that takes it. *)

\* A request that has ended its transaction has nothing to keep.
LEMMA EndsLocal ==
    ASSUME Inv, NEW r \in Requests, NEW told, Ends(r, told)
    PROVE  LocalInv(r)'
  BY DEF Inv, TypeOK, Ends, NoTx, LocalInv, RowKnown, TxOwn, EventPending, HistoryOut

\* Going on to the next exception is possible when every row has its event.
LEMMA GoOnLocal ==
    ASSUME Inv, [Next]_vars, NEW r \in Requests, NEW position, GoOn(r, position),
           TxOwn(r)', tx'[r].rows \subseteq tx'[r].events,
           tx'[r].keys = tx[r].keys,
           \A row \in tx'[r].events : r \in Filtered => row.exception \notin History
    PROVE  LocalInv(r)'
  <1> USE DEF Inv, TypeOK, LocalInv
  <1>1. pc'[r] \notin {"recheck", "record"}
    BY DEF GoOn
  <1>2. RowKnown(r)' /\ EventPending(r)'
    BY <1>1 DEF RowKnown, EventPending
  <1>3. HistoryOut(r)'
    BY <1>1, HistoryFrozen DEF HistoryOut, TxOwn
  <1> QED
    BY <1>2, <1>3

\* Between two exceptions every row of a transaction has its event.
LEMMA NothingPending ==
    ASSUME Inv, NEW r \in Requests, pc[r] \notin {"recheck", "record"} \/ ~item[r].created
    PROVE  tx[r].rows \subseteq tx[r].events
  BY DEF Inv, LocalInv, TxOwn, EventPending

\* Finding a row: at the request's next statement all it knows of it is right.
LEMMA FoundLocal ==
    ASSUME Inv, [Next]_vars, NEW r \in Requests, NEW row \in Rows, NEW created \in BOOLEAN,
           Found(r, row, created), scan' = scan,
           row.exception = Exception(r),
           TxOwn(r)', tx'[r].events = tx[r].events, tx[r].keys \subseteq tx'[r].keys,
           pc[r] \notin {"recheck", "record"},
           IF created THEN tx'[r].rows = tx[r].rows \cup {row} /\ row \notin tx[r].rows
                      ELSE tx'[r].rows = tx[r].rows
    PROVE  LocalInv(r)'
  <1> USE DEF Inv, LocalInv
  <1>1. /\ item'[r].row = row /\ item'[r].created = created
        /\ item'[r].position = item[r].position
        /\ pc'[r] = IF r \in Filtered THEN "recheck" ELSE "record"
    BY DEF TypeOK, Found, Item
  <1>2. RowKnown(r)'
    BY <1>1 DEF RowKnown, Exception
  <1>3. EventPending(r)'
    <2>1. tx[r].rows \subseteq tx[r].events /\ tx[r].events \subseteq tx[r].rows
      BY NothingPending DEF TxOwn
    <2> QED
      BY <1>1, <2>1 DEF EventPending
  <1>4. HistoryOut(r)'
    BY <1>1, HistoryFrozen DEF HistoryOut, TxOwn
  <1> QED
    BY <1>2, <1>3, <1>4

\* Each of a request's steps keeps its part of the invariant.
LEMMA LocalStep ==
    ASSUME Inv, [Next]_vars, NEW r \in Requests, Step(r) \/ Fails(r) \/ DeadlockAborts(r)
    PROVE  LocalInv(r)'
  <1> USE DEF Inv, LocalInv
  <1>1. CASE /\ pc[r] \notin {"recheck", "record"} /\ pc'[r] \notin {"recheck", "record"}
             /\ tx' = tx
    <2>1. tx[r].rows \subseteq tx[r].events
      BY <1>1, NothingPending
    <2> QED
      BY <1>1, <2>1, HistoryFrozen
      DEF RowKnown, TxOwn, EventPending, HistoryOut
  <1>2. CASE ReadPage(r) \/ Examine(r) \/ PageDone(r) \/ Begin(r) \/ Check(r)
    BY <1>1, <1>2 DEF TypeOK, ReadPage, Examine, PageDone, Begin, Check, GoOn
  <1>3. CASE Insert(r)
    <2>1. PICK x \in Exceptions :
              /\ x = Exception(r)
              /\ IF ActiveFor(r, x) # {} THEN Conflict(r) ELSE Inserted(r, x)
      BY <1>3 DEF Insert
    <2>2. CASE Conflict(r)
      BY <1>1, <1>3, <2>2 DEF TypeOK, Insert, Conflict
    <2>3. CASE ActiveFor(r, x) = {} /\ Inserted(r, x)
      <3> DEFINE row == [request |-> r, exception |-> x]
      <3>1. row \in Rows /\ row.exception = x /\ row.request = r
        BY DEF Rows
      <3>2. row \notin tx[r].rows
        BY <2>3, <3>1 DEF ActiveFor
      <3>3. /\ tx'[r].rows = tx[r].rows \cup {row}
            /\ tx'[r].keys = tx[r].keys \cup {x}
            /\ tx'[r].events = tx[r].events
        BY <2>3 DEF TypeOK, Tx, Inserted
      <3>4. TxOwn(r)'
        BY <3>1, <3>3 DEF TxOwn
      <3>5. Found(r, row, TRUE) /\ scan' = scan /\ pc[r] = "insert"
        BY <1>3, <2>3 DEF Inserted, Insert
      <3> QED
        BY <2>1, <3>1, <3>2, <3>3, <3>4, <3>5, FoundLocal
    <2> QED
      BY <2>1, <2>2, <2>3
  <1>4. CASE Lookup(r)
    <2>1. ASSUME NEW row \in ActiveFor(r, Exception(r)), Found(r, row, FALSE),
                 UNCHANGED <<scan, tx>>
          PROVE  LocalInv(r)'
      <3>1. row \in Rows /\ row.exception = Exception(r)
        BY DEF ActiveFor
      <3>2. TxOwn(r)'
        BY <2>1 DEF TxOwn
      <3> QED
        BY <1>4, <2>1, <3>1, <3>2, FoundLocal DEF Lookup
    <2>2. CASE pc' = [pc EXCEPT ![r] = "insert"] /\ tx' = tx
      BY <1>1, <1>4, <2>2 DEF TypeOK, Lookup
    <2>3. CASE RolledBack(r)
      BY <2>3, EndsLocal DEF RolledBack
    <2> QED
      BY <1>4, <2>1, <2>2, <2>3 DEF Lookup
  <1>5. CASE Recheck(r)
    <2>1. CASE Completed(Exception(r))
      <3>1. /\ GoOn(r, item[r].position + 1)
            /\ tx'[r].rows = IF item[r].created THEN tx[r].rows \ {item[r].row}
                                                ELSE tx[r].rows
            /\ tx'[r].keys = tx[r].keys /\ tx'[r].events = tx[r].events
        <4> DEFINE rows == IF item[r].created THEN tx[r].rows \ {item[r].row}
                                              ELSE tx[r].rows
        <4>1. rows \in SUBSET Rows
          BY DEF TypeOK, Tx
        <4>2. tx' = [tx EXCEPT ![r].rows = rows] /\ GoOn(r, item[r].position + 1)
          BY <1>5, <2>1 DEF Recheck
        <4>3. tx'[r].rows = rows /\ tx'[r].keys = tx[r].keys /\ tx'[r].events = tx[r].events
          <5> HIDE DEF rows
          <5> QED
            BY <4>1, <4>2, RowsType DEF TypeOK
        <4> QED
          BY <4>2, <4>3
      <3>2. tx'[r].rows \subseteq tx'[r].events
        BY <1>5, <3>1 DEF Recheck, EventPending
      <3>3. TxOwn(r)'
        <4>1. item[r].created => item[r].row \notin tx[r].events
          BY <1>5 DEF Recheck, EventPending
        <4> QED
          BY <3>1, <4>1 DEF TxOwn
      <3> QED
        BY <3>1, <3>2, <3>3, GoOnLocal DEF HistoryOut
    <2>2. CASE ~Completed(Exception(r))
      <3>1. /\ pc' = [pc EXCEPT ![r] = "record"] /\ pc[r] = "recheck"
            /\ UNCHANGED <<item, tx, scan, status>>
        BY <1>5, <2>2 DEF Recheck, committed
      <3>2. item[r].row.exception \notin History
        BY <2>2, <3>1 DEF RowKnown, History
      <3>3. History' = History
        BY <3>1 DEF History, Completed
      <3> QED
        BY <3>1, <3>2, <3>3
        DEF TypeOK, RowKnown, TxOwn, EventPending, HistoryOut, Exception
    <2> QED
      BY <2>1, <2>2
  <1>6. CASE Record(r)
    <2>1. CASE RolledBack(r)
      BY <2>1, EndsLocal DEF RolledBack
    <2>2. CASE ~RolledBack(r)
      <3>1. /\ GoOn(r, item[r].position + 1)
            /\ tx'[r].events = IF item[r].created THEN tx[r].events \cup {item[r].row}
                                                  ELSE tx[r].events
            /\ tx'[r].keys = tx[r].keys /\ tx'[r].rows = tx[r].rows
        BY <1>6, <2>2 DEF TypeOK, Tx, Record
      <3>2. tx'[r].rows \subseteq tx'[r].events
        BY <1>6, <3>1 DEF Record, EventPending
      <3>3. TxOwn(r)'
        <4>1. item[r].created => item[r].row \in tx[r].rows
          BY <1>6 DEF Record, EventPending
        <4> QED
          BY <3>1, <4>1 DEF TxOwn
      <3>4. \A row \in tx'[r].events : r \in Filtered => row.exception \notin History
        BY <1>6, <3>1 DEF Record, HistoryOut
      <3> QED
        BY <3>1, <3>2, <3>3, <3>4, GoOnLocal
    <2> QED
      BY <2>1, <2>2
  <1>7. CASE Commit(r)
    BY <1>7, EndsLocal DEF Commit
  <1>8. CASE Fails(r) \/ DeadlockAborts(r)
    BY <1>8, EndsLocal DEF Fails, DeadlockAborts, RolledBack
  <1> QED
    BY <1>2, <1>3, <1>4, <1>5, <1>6, <1>7, <1>8 DEF Step

-----------------------------------------------------------------------------
(* What a step does to the index and to the tables. *)

\* Keys are taken by inserts that wait for nobody, and given back at the end.
LEMMA KeysTaken ==
    ASSUME Inv, NEW r \in Requests, Step(r) \/ Fails(r) \/ DeadlockAborts(r)
    PROVE  \/ tx'[r].keys = tx[r].keys
           \/ tx'[r].keys = {}
           \/ \E x \in Exceptions :
                 /\ tx'[r].keys = tx[r].keys \cup {x}
                 /\ \A q \in Requests \ {r} : x \notin tx[q].keys
                 /\ \A row \in Rows : row.exception = x => status[row] # "active"
  <1> USE DEF Inv, TypeOK, Tx
  <1>1. CASE ReadPage(r) \/ Examine(r) \/ PageDone(r) \/ Begin(r) \/ Check(r)
    BY <1>1 DEF ReadPage, Examine, PageDone, Begin, Check
  <1>2. CASE Insert(r)
    <2>1. PICK x \in Exceptions :
              /\ \A q \in Requests \ {r} : ~HeldBy(q, x)
              /\ IF ActiveFor(r, x) # {} THEN Conflict(r) ELSE Inserted(r, x)
      BY <1>2 DEF Insert
    <2>2. CASE Conflict(r)
      BY <2>2 DEF Conflict
    <2>3. CASE ActiveFor(r, x) = {} /\ Inserted(r, x)
      <3>1. tx'[r].keys = tx[r].keys \cup {x}
        BY <2>3 DEF Inserted
      <3>2. \A row \in Rows : row.exception = x => status[row] # "active"
        BY <2>3 DEF ActiveFor
      <3> QED
        BY <2>1, <3>1, <3>2 DEF HeldBy
    <2> QED
      BY <2>1, <2>2, <2>3
  <1>3. ASSUME NEW told, Ends(r, told) PROVE tx'[r].keys = {}
    BY <1>3 DEF Ends, NoTx
  <1>4. CASE Lookup(r)
    BY <1>3, <1>4 DEF Lookup, RolledBack
  <1>5. CASE Recheck(r)
    BY <1>5 DEF Recheck
  <1>6. CASE Record(r)
    BY <1>3, <1>6 DEF Record, RolledBack
  <1>7. CASE Commit(r)
    BY <1>3, <1>7 DEF Commit
  <1>8. CASE Fails(r) \/ DeadlockAborts(r)
    BY <1>3, <1>8 DEF Fails, DeadlockAborts, RolledBack
  <1> QED
    BY <1>1, <1>2, <1>4, <1>5, <1>6, <1>7, <1>8 DEF Step

\* Only a commit writes the tables.
LEMMA TablesKept ==
    ASSUME NEW r \in Requests, Step(r) \/ Fails(r) \/ DeadlockAborts(r), ~Commit(r)
    PROVE  status' = status /\ events' = events
  BY DEF Step, ReadPage, Examine, PageDone, Begin, Check, Insert, Lookup, Recheck,
         Record, Fails, DeadlockAborts, committed

\* A commit makes its rows active, under keys that are free after it.
LEMMA CommitStep ==
    ASSUME Inv, NEW r \in Requests, Commit(r)
    PROVE  KeysDisjoint' /\ KeysFree' /\ OneCommitted' /\ EventForEveryRow'
  <1> USE DEF Inv, TypeOK, Tx
  <1>1. \A row \in Rows : status'[row] = IF row \in tx[r].rows THEN "active" ELSE status[row]
    BY DEF Commit
  <1>2. tx'[r].keys = {} /\ \A q \in Requests \ {r} : tx'[q] = tx[q]
    BY DEF Commit, Ends, NoTx
  <1>3. /\ \A row \in tx[r].rows : row.request = r /\ row.exception \in tx[r].keys
        /\ tx[r].rows \subseteq tx[r].events /\ tx[r].events \subseteq tx[r].rows
    <2>1. tx[r].rows \subseteq tx[r].events
      BY NothingPending DEF Commit
    <2> QED
      BY <2>1 DEF LocalInv, TxOwn
  <1>4. KeysDisjoint'
    BY <1>2 DEF KeysDisjoint
  <1>5. KeysFree'
    BY <1>1, <1>2, <1>3 DEF KeysFree, KeysDisjoint
  <1>6. OneCommitted'
    <2> SUFFICES ASSUME NEW row1 \in Rows, NEW row2 \in Rows,
                        status'[row1] = "active", status'[row2] = "active",
                        row1.exception = row2.exception
                 PROVE  row1 = row2
      BY DEF OneCommitted
    <2>1. CASE row1 \in tx[r].rows /\ row2 \in tx[r].rows
      BY <1>3, <2>1 DEF Rows
    <2>2. CASE row1 \notin tx[r].rows /\ row2 \notin tx[r].rows
      BY <1>1, <2>2 DEF OneCommitted
    <2>3. CASE ~(row1 \in tx[r].rows <=> row2 \in tx[r].rows)
      BY <1>1, <1>3, <2>3 DEF KeysFree
    <2> QED
      BY <2>1, <2>2, <2>3
  <1>7. EventForEveryRow'
    <2>1. events' = events \cup tx[r].events
      BY DEF Commit
    <2> QED
      BY <1>1, <1>3, <2>1 DEF EventForEveryRow
  <1> QED
    BY <1>4, <1>5, <1>6, <1>7

\* Every step keeps the index and the pairs of rows and events.
LEMMA SharedStep ==
    ASSUME Inv, [Next]_vars
    PROVE  KeysDisjoint' /\ KeysFree' /\ OneCommitted' /\ EventForEveryRow'
  <1>1. ASSUME NEW r \in Requests, Step(r) \/ Fails(r) \/ DeadlockAborts(r), ~Commit(r)
        PROVE  KeysDisjoint' /\ KeysFree' /\ OneCommitted' /\ EventForEveryRow'
    <2>1. status' = status /\ events' = events
      BY <1>1, TablesKept
    <2>2. \A q \in Requests \ {r} : tx'[q] = tx[q]
      BY <1>1, FrameStep
    <2>3. \/ tx'[r].keys = tx[r].keys
          \/ tx'[r].keys = {}
          \/ \E x \in Exceptions :
                /\ tx'[r].keys = tx[r].keys \cup {x}
                /\ \A q \in Requests \ {r} : x \notin tx[q].keys
                /\ \A row \in Rows : row.exception = x => status[row] # "active"
      BY <1>1, KeysTaken
    <2>4. KeysDisjoint'
      BY <2>2, <2>3 DEF Inv, KeysDisjoint
    <2>5. KeysFree'
      BY <2>1, <2>2, <2>3 DEF Inv, KeysFree
    <2>6. OneCommitted' /\ EventForEveryRow'
      BY <2>1 DEF Inv, OneCommitted, EventForEveryRow
    <2> QED
      BY <2>4, <2>5, <2>6
  <1>2. ASSUME NEW row \in Rows, Decide(row)
        PROVE  KeysDisjoint' /\ KeysFree' /\ OneCommitted' /\ EventForEveryRow'
    <2>1. PICK outcome \in {"completed", "failed"} :
              status' = [status EXCEPT ![row] = outcome]
      BY <1>2 DEF Decide
    <2>2. UNCHANGED <<events, tx>> /\ status[row] = "active"
      BY <1>2 DEF Decide
    <2> QED
      BY <2>1, <2>2
      DEF Inv, TypeOK, KeysDisjoint, KeysFree, OneCommitted, EventForEveryRow
  <1>3. CASE UNCHANGED vars
    BY <1>3 DEF vars, Inv, KeysDisjoint, KeysFree, OneCommitted, EventForEveryRow
  <1> QED
    BY <1>1, <1>2, <1>3, CommitStep DEF Next

\* The invariant is inductive.
LEMMA InvStep == Inv /\ [Next]_vars => Inv'
  <1> SUFFICES ASSUME Inv, [Next]_vars PROVE Inv'
    OBVIOUS
  <1>1. TypeOK'
    BY TypeStep DEF Inv, LocalInv
  <1>2. ASSUME NEW q \in Requests PROVE LocalInv(q)'
    <2>1. ASSUME NEW r \in Requests, Step(r) \/ Fails(r) \/ DeadlockAborts(r)
          PROVE  LocalInv(q)'
      <3>1. CASE q = r
        BY <2>1, <3>1, LocalStep
      <3>2. CASE q # r
        BY <2>1, <3>2, FrameStep, LocalFrame
      <3> QED
        BY <3>1, <3>2
    <2>2. CASE UNCHANGED <<pc, item, scan, tx>>
      BY <2>2, LocalFrame
    <2> QED
      BY <2>1, <2>2 DEF Next, Decide, vars
  <1> QED
    BY <1>1, <1>2, SharedStep DEF Inv

\* The inductive invariant holds in every run.
LEMMA InvCorrect == Spec => []Inv
  BY InvInit, InvStep, PTL DEF Spec

-----------------------------------------------------------------------------
(* The results. *)

\* The tables and what every request keeps have their types.
THEOREM AcceptanceTypeCorrect == Spec => []TypeOK
  <1>1. Inv => TypeOK
    BY DEF Inv
  <1> QED
    BY <1>1, InvCorrect, PTL

\* A row is committed exactly when its outbox event is, whatever fails, is taken
\* back or is committed in between.
THEOREM EventsCorrect == Spec => []EventForEveryRow
  <1>1. Inv => EventForEveryRow
    BY DEF Inv
  <1> QED
    BY <1>1, InvCorrect, PTL

\* No two requests start two investigations of one exception.
THEOREM OneActiveCorrect == Spec => []OneActivePerException
  <1>1. Inv => OneActivePerException
    <2> SUFFICES ASSUME Inv, NEW row1 \in Rows, NEW row2 \in Rows,
                        status[row1] = "active" \/ \E r \in Requests : row1 \in tx[r].rows,
                        status[row2] = "active" \/ \E r \in Requests : row2 \in tx[r].rows,
                        row1.exception = row2.exception
                 PROVE  row1 = row2
      BY DEF OneActivePerException
    <2>1. \A r \in Requests : \A row \in tx[r].rows :
              row.request = r /\ row.exception \in tx[r].keys
      BY DEF Inv, LocalInv, TxOwn
    <2>2. CASE status[row1] = "active" /\ status[row2] = "active"
      BY <2>2 DEF Inv, OneCommitted
    <2>3. CASE \E q, r \in Requests : row1 \in tx[q].rows /\ row2 \in tx[r].rows
      BY <2>1, <2>3 DEF Inv, KeysDisjoint, Rows
    <2> QED
      BY <2>1, <2>2, <2>3 DEF Inv, KeysFree
  <1> QED
    BY <1>1, InvCorrect, PTL

\* A filtered request starts no investigation of an exception that is completed.
THEOREM HistoryCorrect == Spec => []FilteredSkipsHistory
  <1>1. Inv => FilteredSkipsHistory
    BY RequestsAssumption
    DEF Inv, TypeOK, LocalInv, HistoryOut, History, FilteredSkipsHistory, Rows, Tx
  <1> QED
    BY <1>1, InvCorrect, PTL

-----------------------------------------------------------------------------
(* What a request selects. *)

Distinct(seq) == \A i, j \in 1..Len(seq) : seq[i] = seq[j] => i = j

\* A selection holds what has been examined, once; a plain request leaves nothing out.
Selects(r) ==
    /\ Distinct(scan[r].selected)
    /\ \A i \in 1..Len(scan[r].selected) :
          \E k \in 1..scan[r].cursor : Input[r][k] = scan[r].selected[i]
    /\ scan[r].cursor <= scan[r].end /\ scan[r].end <= Len(Input[r])
    /\ r \notin Filtered =>
          /\ scan[r].history = {} /\ scan[r].end = Len(Input[r])
          /\ pc[r] \notin {"page", "check", "recheck"}
          /\ \A k \in 1..scan[r].cursor :
                \E i \in 1..Len(scan[r].selected) : scan[r].selected[i] = Input[r][k]
          /\ pc[r] \notin {"scan", "done"} => scan[r].cursor = Len(Input[r])

\* What one more id makes of a selection.
LEMMA SelectedFacts ==
    ASSUME NEW s \in Scan, NEW x \in Exceptions, Distinct(s.selected)
    PROVE  /\ Distinct(Selected(s, x))
           /\ \A i \in 1..Len(Selected(s, x)) :
                 \/ Selected(s, x)[i] = x
                 \/ \E j \in 1..Len(s.selected) : Selected(s, x)[i] = s.selected[j]
           /\ \A j \in 1..Len(s.selected) :
                 \E i \in 1..Len(Selected(s, x)) : Selected(s, x)[i] = s.selected[j]
           /\ s.history = {} => \E i \in 1..Len(Selected(s, x)) : Selected(s, x)[i] = x
  <1> DEFINE old == s.selected
  <1>1. old \in Seq(Exceptions) /\ Len(old) \in Nat
    BY DEF Scan
  <1>2. CASE x \in s.history \/ \E i \in 1..Len(old) : old[i] = x
    <2>1. Selected(s, x) = old
      BY <1>2 DEF Selected
    <2> QED
      BY <1>2, <2>1
  <1>3. CASE ~(x \in s.history \/ \E i \in 1..Len(old) : old[i] = x)
    <2>1. Selected(s, x) = Append(old, x)
      BY <1>3 DEF Selected
    <2> HIDE DEF old
    <2>2. /\ Len(Append(old, x)) = Len(old) + 1
          /\ Append(old, x)[Len(old) + 1] = x
          /\ \A i \in 1..Len(old) : Append(old, x)[i] = old[i]
      BY <1>1
    <2>3. \A i \in 1..(Len(old) + 1) : i \in 1..Len(old) \/ i = Len(old) + 1
      BY <1>1
    <2>4. \A i \in 1..Len(old) : i \in 1..(Len(old) + 1)
      BY <1>1
    <2>5. Len(old) + 1 \in 1..(Len(old) + 1)
      BY <1>1
    <2>6. Distinct(Append(old, x))
      BY <1>3, <2>2, <2>3 DEF Distinct, old
    <2> QED
      BY <2>1, <2>2, <2>3, <2>4, <2>5, <2>6 DEF old
  <1> QED
    BY <1>2, <1>3

\* The selecting steps keep what is known of a selection.
LEMMA SelectsStep ==
    ASSUME Inv, NEW r \in Requests, Selects(r), ReadPage(r) \/ Examine(r) \/ PageDone(r)
    PROVE  Selects(r)'
  <1>0. /\ scan[r] \in Scan /\ scan[r].cursor \in Nat /\ scan[r].end \in Nat
        /\ scan[r].selected \in Seq(Exceptions) /\ Len(scan[r].selected) \in Nat
        /\ Input[r] \in Seq(Exceptions) /\ Len(Input[r]) \in Nat /\ PageSize \in Nat
    BY RequestsAssumption, LimitsAssumption DEF Inv, TypeOK, Scan
  <1>1. CASE ReadPage(r)
    <2>1. r \in Filtered
      BY <1>1 DEF ReadPage, Selects
    <2>2. CASE scan' = scan
      BY <2>1, <2>2 DEF Selects
    <2>3. CASE scan' # scan
      <3> DEFINE end == IF scan[r].end + PageSize < Len(Input[r])
                        THEN scan[r].end + PageSize ELSE Len(Input[r])
                 history == {x \in Exceptions : Completed(x)}
      <3>1. scan' = [scan EXCEPT ![r].end = end, ![r].history = history]
        BY <1>1, <2>3 DEF ReadPage
      <3>2. scan[r].end <= end /\ end <= Len(Input[r]) /\ end \in Nat
        BY <1>0 DEF Selects
      <3> HIDE DEF end, history
      <3>3. /\ scan'[r].selected = scan[r].selected /\ scan'[r].cursor = scan[r].cursor
            /\ scan'[r].end = end
        BY <3>1 DEF Inv, TypeOK, Scan
      <3> QED
        BY <1>0, <2>1, <3>2, <3>3 DEF Selects
    <2> QED
      BY <2>2, <2>3
  <1>2. CASE Examine(r)
    <2> DEFINE x == Input[r][scan[r].cursor + 1]
               new == Selected(scan[r], x)
               cursor == scan[r].cursor + 1
    <2>1. x \in Exceptions /\ cursor \in 1..Len(Input[r]) /\ cursor <= scan[r].end
      BY <1>0, <1>2 DEF Examine
    <2>2. scan' = [scan EXCEPT ![r].cursor = cursor, ![r].selected = new] /\ pc' = pc /\ pc[r] = "scan"
      BY <1>2 DEF Examine
    <2>3. /\ Distinct(new)
          /\ \A i \in 1..Len(new) :
                new[i] = x \/ \E j \in 1..Len(scan[r].selected) : new[i] = scan[r].selected[j]
          /\ \A j \in 1..Len(scan[r].selected) :
                \E i \in 1..Len(new) : new[i] = scan[r].selected[j]
          /\ scan[r].history = {} => \E i \in 1..Len(new) : new[i] = x
      BY <1>0, <2>1, SelectedFacts DEF Selects
    <2>4. Input[r][cursor] = x
      OBVIOUS
    <2>5. \A k \in 1..cursor : k \in 1..scan[r].cursor \/ k = cursor
      BY <1>0
    <2>6. (\A k \in 1..scan[r].cursor : k \in 1..cursor) /\ cursor \in 1..cursor
      BY <1>0
    <2> HIDE DEF x, new, cursor
    <2>7. /\ scan'[r].selected = new /\ scan'[r].cursor = cursor
          /\ scan'[r].end = scan[r].end /\ scan'[r].history = scan[r].history
      BY <2>2 DEF Inv, TypeOK, Scan
    <2>8. \A i \in 1..Len(new) : \E k \in 1..cursor : Input[r][k] = new[i]
      BY <2>3, <2>4, <2>6 DEF Selects
    <2>9. r \notin Filtered => \A k \in 1..cursor : \E i \in 1..Len(new) : new[i] = Input[r][k]
      <3> SUFFICES ASSUME r \notin Filtered, NEW k \in 1..cursor
                   PROVE  \E i \in 1..Len(new) : new[i] = Input[r][k]
        OBVIOUS
      <3>1. CASE k = cursor
        BY <2>3, <2>4, <3>1 DEF Selects
      <3>2. CASE k \in 1..scan[r].cursor
        <4>1. PICK j \in 1..Len(scan[r].selected) : scan[r].selected[j] = Input[r][k]
          BY <3>2 DEF Selects
        <4> QED
          BY <2>3, <4>1
      <3> QED
        BY <2>5, <3>1, <3>2
    <2>10. scan[r].end <= Len(Input[r])
      BY DEF Selects
    <2>11. r \notin Filtered => scan[r].history = {} /\ scan[r].end = Len(Input[r])
      BY DEF Selects
    <2>12. pc'[r] = "scan"
      BY <2>2
    <2> QED
      BY <2>1, <2>3, <2>7, <2>8, <2>9, <2>10, <2>11, <2>12 DEF Selects
  <1>3. CASE PageDone(r)
    <2>1. scan' = scan /\ pc[r] = "scan" /\ (scan[r].cursor = scan[r].end \/ Full(r))
      BY <1>3 DEF PageDone
    <2>2. pc'[r] = IF r \in Filtered /\ ~Full(r) THEN "page" ELSE "begin"
      BY <1>3 DEF PageDone, Inv, TypeOK
    <2>3. r \notin Filtered => scan[r].cursor = Len(Input[r])
      BY <2>1 DEF Full, Selects
    <2> QED
      BY <2>1, <2>2, <2>3 DEF Selects
  <1> QED
    BY <1>1, <1>2, <1>3

\* The statements of the transaction leave the selection as it is.
LEMMA SelectsLater ==
    ASSUME Inv, NEW r \in Requests, Selects(r), scan'[r] = scan[r],
           pc[r] \notin {"page", "scan", "done"} \/ pc'[r] = "done" \/ pc'[r] = pc[r],
           pc'[r] \notin {"page", "scan"} \/ pc'[r] = pc[r],
           r \notin Filtered => pc'[r] \notin {"check", "recheck"}
    PROVE  Selects(r)'
  BY DEF Selects

-----------------------------------------------------------------------------
(* What a request attaches to. *)

\* One row, and only one, of each exception before a position; a filtered request
\* may have left some out.
Attaches(r, rows, selected, position) ==
    /\ IsFiniteSet(rows)
    /\ \A row \in rows : \E i \in 1..(position - 1) : row.exception = selected[i]
    /\ \A row1, row2 \in rows : row1.exception = row2.exception => row1 = row2
    /\ r \notin Filtered =>
          \A i \in 1..(position - 1) : \E row \in rows : row.exception = selected[i]

\* A filtered request goes past an exception without a row.
LEMMA AttachesSkip ==
    ASSUME NEW r \in Filtered, NEW rows, NEW selected, NEW position \in Nat,
           Attaches(r, rows, selected, position)
    PROVE  Attaches(r, rows, selected, position + 1)
  <1>1. \A i \in 1..(position - 1) : i \in 1..((position + 1) - 1)
    OBVIOUS
  <1> QED
    BY <1>1 DEF Attaches

\* Attaching the row of the exception at a position: it is new to the request.
LEMMA AttachesOne ==
    ASSUME NEW r, NEW rows, NEW selected \in Seq(Exceptions),
           NEW position \in 1..Len(selected), NEW row,
           Attaches(r, rows, selected, position), Distinct(selected),
           row.exception = selected[position]
    PROVE  /\ row \notin rows
           /\ Attaches(r, rows \cup {row}, selected, position + 1)
  <1>1. Len(selected) \in Nat /\ position \in Nat
    OBVIOUS
  <1>2. \A i \in 1..(position - 1) : i \in 1..Len(selected) /\ i # position
    BY <1>1
  <1>3. \A old \in rows : old.exception # row.exception
    BY <1>2 DEF Attaches, Distinct
  <1>4. \A i \in 1..((position + 1) - 1) : i \in 1..(position - 1) \/ i = position
    BY <1>1
  <1>5. /\ \A i \in 1..(position - 1) : i \in 1..((position + 1) - 1)
        /\ position \in 1..((position + 1) - 1)
    BY <1>1
  <1>6. IsFiniteSet(rows \cup {row})
    BY FS_AddElement DEF Attaches
  <1> QED
    BY <1>3, <1>4, <1>5, <1>6 DEF Attaches

\* Where a request is in the loop over its selection, and what it has attached.
Attached(r) ==
    /\ pc[r] \in {"page", "scan", "begin"} => tx[r].members = {}
    /\ pc[r] \in {"check", "insert", "lookup", "recheck", "record"} =>
           item[r].position \in 1..Len(scan[r].selected)
    /\ pc[r] = "commit" => item[r].position = Len(scan[r].selected) + 1
    /\ pc[r] \notin {"page", "scan", "begin", "done"} =>
           /\ Attaches(r, tx[r].members, scan[r].selected, item[r].position)
           /\ \A row \in tx[r].members : status[row] # "none" \/ row \in tx[r].rows
    /\ pc[r] \in {"recheck", "record"} =>
           status[item[r].row] # "none" \/ item[r].row \in tx[r].rows

\* Until a request has ended, no row of its own is committed.
Fresh(r) ==
    pc[r] # "done" => \A row \in Rows : row.request = r => status[row] = "none"

Complete(r) ==
    /\ \A row \in members[r] : status[row] # "none"
    /\ \A row1, row2 \in members[r] : row1.exception = row2.exception => row1 = row2
    /\ LET asked == {Input[r][i] : i \in 1..Len(Input[r])}
           found == {row.exception : row \in members[r]}
       IN  IF r \in Filtered THEN found \subseteq asked ELSE found = asked

\* An answer ends a request, and what it says is so.
Told(r) ==
    /\ answer[r] # "none" => pc[r] = "done"
    /\ answer[r] = "accepted" => IsFiniteSet(members[r]) /\ Complete(r)

AttachInv ==
    /\ Inv
    /\ \A r \in Requests : Selects(r) /\ Attached(r) /\ Fresh(r) /\ Told(r)

\* It holds at first.
LEMMA AttachInit == Init => AttachInv
  <1> SUFFICES ASSUME Init PROVE AttachInv
    OBVIOUS
  <1>1. ASSUME NEW r \in Requests PROVE Selects(r)
    <2>1. Len(Input[r]) \in Nat
      BY RequestsAssumption
    <2>2. /\ scan[r].cursor = 0 /\ scan[r].history = {} /\ scan[r].selected = <<>>
          /\ scan[r].end = IF r \in Filtered THEN 0 ELSE Len(Input[r])
          /\ pc[r] = IF r \in Filtered THEN "page" ELSE "scan"
      BY DEF Init
    <2>3. 1..Len(scan[r].selected) = {} /\ 1..scan[r].cursor = {}
      BY <2>2
    <2> QED
      BY <2>1, <2>2, <2>3 DEF Selects, Distinct
  <1>2. ASSUME NEW r \in Requests PROVE Attached(r) /\ Fresh(r) /\ Told(r)
    BY DEF Init, Attached, Fresh, Told, NoTx
  <1> QED
    BY <1>1, <1>2, InvInit DEF AttachInv

-----------------------------------------------------------------------------
(* The steps, and what is attached. *)

\* A step that is no commit tells nobody anything but a failure.
LEMMA AnswersKept ==
    ASSUME NEW r \in Requests, Step(r) \/ Fails(r) \/ DeadlockAborts(r), ~Commit(r)
    PROVE  members' = members /\ (answer' = answer \/ Ends(r, "failed"))
  BY DEF Step, ReadPage, Examine, PageDone, Begin, Check, Insert, Lookup, Recheck,
         Record, Fails, DeadlockAborts, RolledBack, committed

\* A request that has ended takes no step.
LEMMA DoneStays ==
    ASSUME NEW r \in Requests, Step(r) \/ Fails(r) \/ DeadlockAborts(r)
    PROVE  pc[r] # "done"
  <1>1. Deadlocked(r) => pc[r] = "insert"
    BY DEF Deadlocked, WaitsFor
  <1> QED
    BY <1>1 DEF Step, ReadPage, Examine, PageDone, Begin, Check, Insert, Lookup, Recheck,
                Record, Commit, Fails, DeadlockAborts

\* A row stays once it is there, and a finished one as it is.
LEMMA StatusKept ==
    ASSUME AttachInv, [Next]_vars, NEW row \in Rows, status[row] # "none"
    PROVE  /\ status'[row] # "none"
           /\ status[row] # "active" => status'[row] = status[row]
  <1> USE DEF AttachInv, Inv, TypeOK
  <1>1. ASSUME NEW r \in Requests, Commit(r) PROVE status'[row] = status[row]
    <2>1. \A own \in tx[r].rows : own.request = r
      BY DEF LocalInv, TxOwn
    <2>2. row \notin tx[r].rows
      BY <1>1, <2>1 DEF Commit, Fresh
    <2> QED
      BY <1>1, <2>2 DEF Commit
  <1>2. ASSUME NEW r \in Requests, Step(r) \/ Fails(r) \/ DeadlockAborts(r), ~Commit(r)
        PROVE  status' = status
    BY <1>2, TablesKept
  <1>3. ASSUME NEW other \in Rows, Decide(other)
        PROVE  /\ status'[row] # "none"
               /\ status[row] # "active" => status'[row] = status[row]
    BY <1>3 DEF Decide
  <1> QED
    BY <1>1, <1>2, <1>3 DEF Next, vars

\* Nobody else commits a request's rows.
LEMMA FreshStep ==
    ASSUME AttachInv, [Next]_vars, NEW q \in Requests
    PROVE  Fresh(q)'
  <1> USE DEF AttachInv, Inv, TypeOK
  <1>1. ASSUME NEW r \in Requests, Commit(r) PROVE Fresh(q)'
    <2>1. \A own \in tx[r].rows : own.request = r
      BY DEF LocalInv, TxOwn
    <2>2. CASE q = r
      BY <1>1, <2>2 DEF Commit, Ends, Fresh
    <2>3. CASE q # r
      BY <1>1, <2>1, <2>3 DEF Commit, Ends, Fresh
    <2> QED
      BY <2>2, <2>3
  <1>2. ASSUME NEW r \in Requests, Step(r) \/ Fails(r) \/ DeadlockAborts(r), ~Commit(r)
        PROVE  Fresh(q)'
    <2>1. status' = status
      BY <1>2, TablesKept
    <2>2. pc[r] # "done"
      BY <1>2, DoneStays
    <2>3. q # r => pc'[q] = pc[q]
      BY <1>2, FrameStep
    <2> QED
      BY <2>1, <2>2, <2>3 DEF Fresh
  <1>3. ASSUME NEW row \in Rows, Decide(row) PROVE Fresh(q)'
    BY <1>3 DEF Decide, Fresh
  <1>4. CASE UNCHANGED vars
    BY <1>4 DEF vars, Fresh
  <1> QED
    BY <1>1, <1>2, <1>3, <1>4 DEF Next

\* A request that a step leaves alone keeps what it has attached, and its answer.
LEMMA AttachFrame ==
    ASSUME AttachInv, [Next]_vars, NEW q \in Requests,
           pc'[q] = pc[q], item'[q] = item[q], scan'[q] = scan[q], tx'[q] = tx[q],
           members'[q] = members[q], answer'[q] = answer[q]
    PROVE  Selects(q)' /\ Attached(q)' /\ Told(q)'
  <1>1. Selects(q) /\ Attached(q) /\ Told(q) /\ RowKnown(q)
    BY DEF AttachInv, Inv, LocalInv
  <1>2. Selects(q)'
    BY <1>1 DEF Selects
  <1>3. tx[q].members \subseteq Rows /\ members[q] \subseteq Rows
    BY DEF AttachInv, Inv, TypeOK, Tx
  <1>4. Attached(q)'
    BY <1>1, <1>3, StatusKept DEF Attached, RowKnown
  <1>5. Told(q)'
    <2>1. answer[q] = "accepted" => IsFiniteSet(members[q]) /\ Complete(q)
      BY <1>1 DEF Told
    <2>2. answer[q] = "accepted" => Complete(q)'
      BY <1>3, <2>1, StatusKept DEF Complete
    <2> QED
      BY <1>1, <2>1, <2>2 DEF Told
  <1> QED
    BY <1>2, <1>4, <1>5

\* Going on to the next exception: the request has one row of each so far.
LEMMA GoOnAttached ==
    ASSUME AttachInv, [Next]_vars, NEW r \in Requests, NEW position \in Nat,
           GoOn(r, position), scan'[r] = scan[r],
           position \in 1..(Len(scan[r].selected) + 1),
           Attaches(r, tx'[r].members, scan[r].selected, position),
           \A row \in tx'[r].members : status'[row] # "none" \/ row \in tx'[r].rows
    PROVE  Attached(r)'
  <1>1. item'[r].position = position
    BY DEF AttachInv, Inv, TypeOK, GoOn, NewItem
  <1>2. pc'[r] = IF position > Len(scan[r].selected) THEN "commit"
                 ELSE IF r \in Filtered THEN "check" ELSE "insert"
    BY DEF AttachInv, Inv, TypeOK, GoOn
  <1>3. Len(scan[r].selected) \in Nat
    BY DEF AttachInv, Inv, TypeOK, Scan
  <1>4. /\ position > Len(scan[r].selected) => position = Len(scan[r].selected) + 1
        /\ ~(position > Len(scan[r].selected)) => position \in 1..Len(scan[r].selected)
    BY <1>3
  <1> QED
    BY <1>1, <1>2, <1>4 DEF Attached

\* Attaching a row of the exception that the request is at.
LEMMA RecordAttaches ==
    ASSUME NEW r \in Requests, scan[r].selected \in Seq(Exceptions),
           Distinct(scan[r].selected), item[r].position \in 1..Len(scan[r].selected),
           item[r].row.exception = scan[r].selected[item[r].position],
           Attaches(r, tx[r].members, scan[r].selected, item[r].position)
    PROVE  /\ item[r].row \notin tx[r].members
           /\ Attaches(r, tx[r].members \cup {item[r].row}, scan[r].selected,
                       item[r].position + 1)
  BY AttachesOne

\* The steps of the loop keep what the request has attached.
LEMMA AttachedStep ==
    ASSUME AttachInv, [Next]_vars, NEW r \in Requests,
           Step(r) \/ Fails(r) \/ DeadlockAborts(r)
    PROVE  Attached(r)'
  <1>0. Selects(r) /\ Attached(r) /\ LocalInv(r) /\ TypeOK
    BY DEF AttachInv, Inv
  <1>1. ASSUME NEW told, Ends(r, told) PROVE Attached(r)'
    BY <1>0, <1>1 DEF Ends, Attached, TypeOK
  <1>2. /\ Len(scan[r].selected) \in Nat /\ item[r].position \in Nat
        /\ scan[r].selected \in Seq(Exceptions) /\ tx[r].members \subseteq Rows
    BY <1>0 DEF TypeOK, Scan, Item, Tx
  <1>3. CASE ReadPage(r) \/ Examine(r) \/ PageDone(r)
    BY <1>0, <1>3 DEF ReadPage, Examine, PageDone, Attached, TypeOK
  <1>4. CASE Begin(r)
    <2>1. tx'[r].members = {} /\ GoOn(r, 1) /\ scan' = scan
      BY <1>0, <1>4 DEF Begin, Attached
    <2>2. Attaches(r, {}, scan[r].selected, 1)
      BY FS_EmptySet DEF Attaches
    <2>3. 1 \in 1..(Len(scan[r].selected) + 1)
      BY <1>2
    <2> QED
      BY <2>1, <2>2, <2>3, GoOnAttached
  <1>5. CASE pc[r] \in {"check", "recheck"} /\ GoOn(r, item[r].position + 1)
             /\ scan' = scan /\ status' = status
             /\ tx'[r].members = tx[r].members
             /\ \A row \in tx[r].rows : row.exception # Exception(r) => row \in tx'[r].rows
    <2>1. r \in Filtered /\ item[r].position \in 1..Len(scan[r].selected)
      BY <1>0, <1>5 DEF Attached, Selects
    <2>2. Attaches(r, tx[r].members, scan[r].selected, item[r].position)
      BY <1>0, <1>5, <2>1 DEF Attached
    <2>3. Attaches(r, tx[r].members, scan[r].selected, item[r].position + 1)
      BY <1>2, <2>1, <2>2, AttachesSkip
    <2>4. item[r].position + 1 \in 1..(Len(scan[r].selected) + 1)
      BY <1>2, <2>1
    <2>5. \A row \in tx[r].members : row.exception # Exception(r)
      <3> SUFFICES ASSUME NEW row \in tx[r].members, row.exception = Exception(r)
                   PROVE  FALSE
        OBVIOUS
      <3>1. PICK i \in 1..(item[r].position - 1) : row.exception = scan[r].selected[i]
        BY <2>2 DEF Attaches
      <3>2. i \in 1..Len(scan[r].selected) /\ i # item[r].position
        BY <1>2, <2>1
      <3> QED
        BY <1>0, <2>1, <3>1, <3>2 DEF Selects, Distinct, Exception
    <2>6. \A row \in tx'[r].members : status'[row] # "none" \/ row \in tx'[r].rows
      BY <1>0, <1>5, <2>5 DEF Attached
    <2>7. item[r].position + 1 \in Nat
      BY <1>2
    <2> QED
      BY <1>5, <2>1, <2>3, <2>4, <2>6, <2>7, GoOnAttached
  <1>6. CASE Check(r)
    <2>1. CASE Completed(Exception(r))
      BY <1>5, <1>6, <2>1 DEF Check, committed
    <2>2. CASE ~Completed(Exception(r))
      BY <1>0, <1>6, <2>2 DEF Check, committed, Attached, TypeOK
    <2> QED
      BY <2>1, <2>2
  <1>7. ASSUME NEW row \in Rows, NEW created \in BOOLEAN, Found(r, row, created),
               scan' = scan, status' = status, pc[r] \in {"insert", "lookup"},
               tx'[r].members = tx[r].members, tx[r].rows \subseteq tx'[r].rows,
               status[row] # "none" \/ row \in tx'[r].rows
        PROVE  Attached(r)'
    <2>1. /\ item'[r].row = row /\ item'[r].position = item[r].position
          /\ pc'[r] \in {"recheck", "record"}
      BY <1>0, <1>7 DEF Found, TypeOK, Item
    <2> QED
      BY <1>0, <1>7, <2>1 DEF Attached
  <1>8. CASE Insert(r)
    <2>1. PICK x \in Exceptions :
              IF ActiveFor(r, x) # {} THEN Conflict(r) ELSE Inserted(r, x)
      BY <1>8 DEF Insert
    <2>2. CASE Conflict(r)
      BY <1>0, <1>8, <2>2 DEF Insert, Conflict, committed, Attached, TypeOK
    <2>3. CASE Inserted(r, x)
      <3> DEFINE row == [request |-> r, exception |-> x]
      <3>1. row \in Rows
        BY DEF Rows
      <3>2. /\ tx'[r].rows = tx[r].rows \cup {row} /\ tx'[r].members = tx[r].members
            /\ Found(r, row, TRUE)
        BY <1>0, <2>3 DEF TypeOK, Tx, Inserted
      <3> QED
        BY <1>7, <1>8, <3>1, <3>2 DEF Insert, committed
    <2> QED
      BY <2>1, <2>2, <2>3
  <1>9. CASE Lookup(r)
    <2>1. ASSUME NEW row \in ActiveFor(r, Exception(r)), Found(r, row, FALSE),
                 UNCHANGED <<scan, tx>>
          PROVE  Attached(r)'
      <3>1. row \in Rows /\ (status[row] # "none" \/ row \in tx[r].rows)
        BY DEF ActiveFor
      <3> QED
        BY <1>7, <1>9, <2>1, <3>1 DEF Lookup, committed
    <2>2. CASE /\ item' = [item EXCEPT ![r].tries = 1]
               /\ pc' = [pc EXCEPT ![r] = "insert"]
               /\ UNCHANGED <<answer, scan, tx>>
      <3>1. item'[r].position = item[r].position /\ pc'[r] = "insert"
        BY <1>0, <2>2 DEF TypeOK, Item
      <3> QED
        BY <1>0, <1>9, <2>2, <3>1 DEF Lookup, committed, Attached
    <2>3. CASE RolledBack(r)
      BY <1>1, <2>3 DEF RolledBack
    <2> QED
      BY <1>9, <2>1, <2>2, <2>3 DEF Lookup
  <1>10. CASE Recheck(r)
    <2>1. CASE Completed(Exception(r))
      <3> DEFINE rows == IF item[r].created THEN tx[r].rows \ {item[r].row}
                                            ELSE tx[r].rows
      <3>1. tx' = [tx EXCEPT ![r].rows = rows] /\ GoOn(r, item[r].position + 1)
        BY <1>10, <2>1 DEF Recheck
      <3>2. tx'[r].rows = rows /\ tx'[r].members = tx[r].members
        <4> HIDE DEF rows
        <4> QED
          BY <1>0, <3>1 DEF TypeOK, Tx
      <3>3. item[r].row.exception = Exception(r)
        BY <1>0, <1>10 DEF Recheck, LocalInv, RowKnown
      <3> QED
        BY <1>5, <1>10, <3>1, <3>2, <3>3 DEF Recheck, committed
    <2>2. CASE ~Completed(Exception(r))
      BY <1>0, <1>10, <2>2 DEF Recheck, committed, Attached, TypeOK
    <2> QED
      BY <2>1, <2>2
  <1>11. CASE Record(r)
    <2>1. CASE RolledBack(r)
      BY <1>1, <2>1 DEF RolledBack
    <2>2. CASE ~RolledBack(r)
      <3>1. /\ GoOn(r, item[r].position + 1) /\ scan' = scan /\ status' = status
            /\ tx'[r].members = tx[r].members \cup {item[r].row}
            /\ tx'[r].rows = tx[r].rows
        BY <1>0, <1>11, <2>2 DEF TypeOK, Tx, Record, committed
      <3>2. /\ item[r].position \in 1..Len(scan[r].selected)
            /\ item[r].row.exception = scan[r].selected[item[r].position]
            /\ Attaches(r, tx[r].members, scan[r].selected, item[r].position)
            /\ Distinct(scan[r].selected)
        BY <1>0, <1>11 DEF Record, Attached, LocalInv, RowKnown, Exception, Selects
      <3>3. Attaches(r, tx'[r].members, scan[r].selected, item[r].position + 1)
        BY <1>2, <3>1, <3>2, RecordAttaches
      <3>4. /\ item[r].position + 1 \in 1..(Len(scan[r].selected) + 1)
            /\ item[r].position + 1 \in Nat
        BY <1>2, <3>2
      <3>5. \A row \in tx'[r].members : status'[row] # "none" \/ row \in tx'[r].rows
        BY <1>0, <1>11, <3>1 DEF Record, Attached
      <3> QED
        BY <3>1, <3>3, <3>4, <3>5, GoOnAttached
    <2> QED
      BY <2>1, <2>2
  <1>12. CASE Commit(r)
    BY <1>1, <1>12 DEF Commit
  <1>13. CASE Fails(r) \/ DeadlockAborts(r)
    BY <1>1, <1>13 DEF Fails, DeadlockAborts, RolledBack
  <1> QED
    BY <1>3, <1>4, <1>6, <1>8, <1>9, <1>10, <1>11, <1>12, <1>13 DEF Step

\* Every step of a request keeps what is known of its selection.
LEMMA SelectsOwn ==
    ASSUME AttachInv, NEW r \in Requests, Step(r) \/ Fails(r) \/ DeadlockAborts(r)
    PROVE  Selects(r)'
  <1>0. Selects(r) /\ Inv /\ TypeOK
    BY DEF AttachInv, Inv
  <1>1. CASE ReadPage(r) \/ Examine(r) \/ PageDone(r)
    BY <1>0, <1>1, SelectsStep
  <1>2. ASSUME NEW told, Ends(r, told) PROVE Selects(r)'
    BY <1>0, <1>2, SelectsLater DEF Ends, TypeOK
  <1>3. CASE Begin(r)
    BY <1>0, <1>3, SelectsLater DEF Begin, GoOn, TypeOK
  <1>4. CASE Check(r) \/ Recheck(r)
    <2>1. r \in Filtered
      BY <1>0, <1>4 DEF Check, Recheck, Selects
    <2> QED
      BY <1>0, <1>4, <2>1, SelectsLater DEF Check, Recheck, GoOn, TypeOK
  <1>5. CASE Insert(r)
    BY <1>0, <1>5, SelectsLater DEF Insert, Conflict, Inserted, Found, TypeOK
  <1>6. CASE Lookup(r)
    BY <1>0, <1>2, <1>6, SelectsLater DEF Lookup, Found, RolledBack, TypeOK
  <1>7. CASE Record(r)
    BY <1>0, <1>2, <1>7, SelectsLater DEF Record, GoOn, RolledBack, TypeOK
  <1>8. CASE Commit(r) \/ Fails(r) \/ DeadlockAborts(r)
    BY <1>2, <1>8 DEF Commit, Fails, DeadlockAborts, RolledBack
  <1> QED
    BY <1>1, <1>3, <1>4, <1>5, <1>6, <1>7, <1>8 DEF Step

\* What a request has attached when it commits is what it asked for.
LEMMA CommitAttaches ==
    ASSUME AttachInv, NEW r \in Requests, Commit(r)
    PROVE  /\ IsFiniteSet(tx[r].members)
           /\ \A row1, row2 \in tx[r].members :
                 row1.exception = row2.exception => row1 = row2
           /\ LET asked == {Input[r][i] : i \in 1..Len(Input[r])}
                  found == {row.exception : row \in tx[r].members}
              IN  IF r \in Filtered THEN found \subseteq asked ELSE found = asked
  <1>1. Selects(r) /\ Attached(r) /\ TypeOK /\ pc[r] = "commit"
    BY DEF AttachInv, Inv, Commit
  <1> DEFINE mine == tx[r].members
             selected == scan[r].selected
             size == Len(scan[r].selected)
  <1>2. size \in Nat /\ item[r].position = size + 1 /\ mine \subseteq Rows
        /\ Len(Input[r]) \in Nat /\ scan[r].cursor \in Nat
    BY <1>1, RequestsAssumption DEF Attached, TypeOK, Scan, Tx
  <1>3. 1..(item[r].position - 1) = 1..size
    BY <1>2
  <1>4. /\ IsFiniteSet(mine)
        /\ \A row \in mine : \E i \in 1..size : row.exception = selected[i]
        /\ \A row1, row2 \in mine : row1.exception = row2.exception => row1 = row2
        /\ r \notin Filtered => \A i \in 1..size : \E row \in mine : row.exception = selected[i]
    BY <1>1, <1>3 DEF Attached, Attaches
  <1>5. /\ \A i \in 1..size : \E k \in 1..scan[r].cursor : Input[r][k] = selected[i]
        /\ r \notin Filtered =>
              /\ scan[r].cursor = Len(Input[r])
              /\ \A k \in 1..scan[r].cursor : \E i \in 1..size : selected[i] = Input[r][k]
    BY <1>1 DEF Selects
  <1>6. 1..scan[r].cursor \subseteq 1..Len(Input[r])
    <2>1. scan[r].cursor <= Len(Input[r])
      BY <1>1, <1>2 DEF Selects, TypeOK, Scan
    <2> QED
      BY <1>2, <2>1
  <1> HIDE DEF selected, size
  <1> DEFINE asked == {Input[r][i] : i \in 1..Len(Input[r])}
             found == {row.exception : row \in mine}
  <1>7. found \subseteq asked
    BY <1>4, <1>5, <1>6
  <1>8. r \notin Filtered => asked \subseteq found
    <2> SUFFICES ASSUME r \notin Filtered, NEW k \in 1..Len(Input[r])
                 PROVE  Input[r][k] \in found
      OBVIOUS
    <2>1. PICK i \in 1..size : selected[i] = Input[r][k]
      BY <1>5
    <2>2. PICK row \in mine : row.exception = selected[i]
      BY <1>4
    <2> QED
      BY <2>1, <2>2
  <1> QED
    BY <1>4, <1>7, <1>8

\* What a commit tells the client is so.
LEMMA CommitTold ==
    ASSUME AttachInv, NEW r \in Requests, Commit(r)
    PROVE  Told(r)'
  <1>1. /\ Attached(r) /\ TypeOK /\ pc[r] = "commit" /\ tx[r].members \subseteq Rows
    BY DEF AttachInv, Inv, Commit, TypeOK, Tx
  <1>2. members'[r] = tx[r].members /\ pc'[r] = "done"
    BY <1>1 DEF Commit, Ends, TypeOK
  <1>3. \A row \in tx[r].members : status'[row] # "none"
    <2>1. \A row \in tx[r].members : status[row] # "none" \/ row \in tx[r].rows
      BY <1>1 DEF Attached
    <2> QED
      BY <1>1, <2>1 DEF Commit
  <1>4. Complete(r)'
    BY <1>2, <1>3, CommitAttaches DEF Complete
  <1> QED
    BY <1>2, <1>4, CommitAttaches DEF Told

\* Every other step tells its request at most that it has failed.
LEMMA ToldStep ==
    ASSUME AttachInv, NEW r \in Requests, Step(r) \/ Fails(r) \/ DeadlockAborts(r)
    PROVE  Told(r)'
  <1>1. pc[r] # "done"
    BY DoneStays
  <1>2. answer[r] = "none"
    BY <1>1 DEF AttachInv, Told
  <1>3. CASE ~Commit(r)
    <2>1. members' = members /\ (answer' = answer \/ Ends(r, "failed"))
      BY <1>3, AnswersKept
    <2> QED
      BY <1>2, <2>1 DEF Told, Ends, AttachInv, Inv, TypeOK
  <1> QED
    BY <1>3, CommitTold

\* A request's step tells the others nothing and attaches them to nothing.
LEMMA FrameAnswers ==
    ASSUME Inv, NEW r \in Requests, Step(r) \/ Fails(r) \/ DeadlockAborts(r),
           NEW q \in Requests, q # r
    PROVE  members'[q] = members[q] /\ answer'[q] = answer[q]
  <1>1. CASE Commit(r)
    BY <1>1 DEF Commit, Ends, Inv, TypeOK
  <1>2. CASE ~Commit(r)
    BY <1>2, AnswersKept DEF Ends, Inv, TypeOK
  <1> QED
    BY <1>1, <1>2

\* The strengthened invariant is inductive.
LEMMA AttachStep == AttachInv /\ [Next]_vars => AttachInv'
  <1> SUFFICES ASSUME AttachInv, [Next]_vars PROVE AttachInv'
    OBVIOUS
  <1>1. Inv' /\ Inv
    BY InvStep DEF AttachInv
  <1>2. ASSUME NEW q \in Requests PROVE Selects(q)' /\ Attached(q)' /\ Told(q)'
    <2>1. ASSUME NEW r \in Requests, Step(r) \/ Fails(r) \/ DeadlockAborts(r)
          PROVE  Selects(q)' /\ Attached(q)' /\ Told(q)'
      <3>1. CASE q = r
        BY <2>1, <3>1, SelectsOwn, AttachedStep, ToldStep
      <3>2. CASE q # r
        BY <1>1, <2>1, <3>2, FrameStep, FrameAnswers, AttachFrame
      <3> QED
        BY <3>1, <3>2
    <2>2. CASE UNCHANGED <<pc, item, scan, tx, members, answer>>
      BY <2>2, AttachFrame
    <2> QED
      BY <2>1, <2>2 DEF Next, Decide, vars
  <1> QED
    BY <1>1, <1>2, FreshStep DEF AttachInv

\* The strengthened invariant holds in every run.
LEMMA AttachInvCorrect == Spec => []AttachInv
  BY AttachInit, AttachStep, PTL DEF Spec

\* No batch trips over itself: a request attaches each row at most once.
THEOREM AttachedOnceCorrect == Spec => []AttachedOnce
  <1>1. AttachInv => AttachedOnce
    <2> SUFFICES ASSUME AttachInv, NEW r \in Requests, pc[r] = "record"
                 PROVE  item[r].row \notin tx[r].members
      BY DEF AttachedOnce
    <2>1. Selects(r) /\ Attached(r) /\ RowKnown(r) /\ scan[r].selected \in Seq(Exceptions)
      BY DEF AttachInv, Inv, LocalInv, TypeOK, Scan
    <2>2. /\ Distinct(scan[r].selected)
          /\ item[r].position \in 1..Len(scan[r].selected)
          /\ item[r].row.exception = scan[r].selected[item[r].position]
          /\ Attaches(r, tx[r].members, scan[r].selected, item[r].position)
      BY <2>1 DEF Selects, Attached, RowKnown, Exception
    <2> QED
      BY <2>1, <2>2, RecordAttaches
  <1> QED
    BY <1>1, AttachInvCorrect, PTL

\* An accepted request is attached to one committed row of each exception it asked
\* for, or, when it is filtered, of some of them.
THEOREM AcceptedCorrect == Spec => []AcceptedIsComplete
  <1>1. AttachInv => AcceptedIsComplete
    BY DEF AttachInv, Told, Complete, AcceptedIsComplete
  <1> QED
    BY <1>1, AttachInvCorrect, PTL

-----------------------------------------------------------------------------
(* What clients read. *)

\* A finished investigation is reported in the same words from then on.
LEMMA ReportKept ==
    ASSUME AttachInv, [Next]_vars, NEW row \in Rows, External(row) \in Final
    PROVE  /\ External(row)' = External(row)
           /\ Report(row)' = Report(row)
  <1>1. status[row] \notin {"none", "active"}
    BY DEF External, Final
  <1>2. status'[row] = status[row]
    BY <1>1, StatusKept
  <1>3. External(row)' = External(row)
    BY <1>2 DEF External
  <1> QED
    BY <1>3 DEF Report, Readable

\* A request that is shown as finished has finished rows only.
LEMMA AllFinal ==
    ASSUME AttachInv, NEW r \in Requests, Polled(r) \in Final
    PROVE  /\ answer[r] = "accepted"
           /\ \A row \in members[r] : row \in Rows /\ External(row) \in Final
  <1>1. answer[r] = "accepted" /\ Aggregate(Summary(r)) # "in_progress"
    BY DEF Polled, Final
  <1> DEFINE open == {row \in members[r] : External(row) = "in_progress"}
  <1>2. Summary(r)["in_progress"] = Cardinality(open)
    BY DEF Summary, Shown
  <1>3. ~(Cardinality(open) > 0)
    BY <1>1, <1>2 DEF Aggregate
  <1>4. IsFiniteSet(members[r]) /\ \A row \in members[r] : status[row] # "none"
    BY <1>1 DEF AttachInv, Told, Complete
  <1>5. IsFiniteSet(open)
    BY <1>4, FS_Subset
  <1>6. open = {}
    BY <1>3, <1>5, FS_CardinalityType, FS_EmptySet
  <1>7. members[r] \subseteq Rows /\ status \in [Rows -> RowStatus]
    BY DEF AttachInv, Inv, TypeOK
  <1> QED
    BY <1>1, <1>4, <1>6, <1>7 DEF External, Final, RowStatus

\* What a client has been told of an ended request or investigation stays so.
THEOREM AnswersSettleCorrect == Spec => AnswersSettle
  <1>1. ASSUME AttachInv, [Next]_vars, NEW r \in Requests, Polled(r) \in Final
        PROVE  Polled(r)' = Polled(r)
    <2>1. /\ answer[r] = "accepted"
          /\ \A row \in members[r] : row \in Rows /\ External(row) \in Final
      BY <1>1, AllFinal
    <2>2. pc[r] = "done"
      BY <1>1, <2>1 DEF AttachInv, Told
    <2>3. members'[r] = members[r] /\ answer'[r] = answer[r]
      <3>1. ASSUME NEW q \in Requests, Step(q) \/ Fails(q) \/ DeadlockAborts(q)
            PROVE  members'[r] = members[r] /\ answer'[r] = answer[r]
        BY <1>1, <2>2, <3>1, DoneStays, FrameAnswers DEF AttachInv
      <3> QED
        BY <1>1, <3>1 DEF Next, Decide, vars
    <2>4. \A row \in members[r] : External(row)' = External(row)
      BY <1>1, <2>1, ReportKept
    <2>5. Summary(r)' = Summary(r)
      <3>1. \A shown \in Shown :
                {row \in members[r] : External(row)' = shown}
                = {row \in members[r] : External(row) = shown}
        BY <2>4
      <3> QED
        BY <2>3, <3>1 DEF Summary
    <2> QED
      BY <2>3, <2>5 DEF Polled, Aggregate
  <1>2. AttachInv /\ [Next]_vars =>
            [/\ \A r \in Requests : Polled(r) \in Final => Polled(r)' = Polled(r)
             /\ \A row \in Rows : External(row) \in Final => Report(row)' = Report(row)]_vars
    BY <1>1, ReportKept
  <1> QED
    BY <1>2, AttachInvCorrect, PTL DEF Spec, AnswersSettle

-----------------------------------------------------------------------------
(* The ledger: what a transaction comes to when it commits, or does not.       *)

\* A request is attached to every row it has an event for, and selects no more than
\* a filtered request may.
Enclosed(r) ==
    /\ tx[r].events \subseteq tx[r].members
    /\ r \in Filtered => Len(scan[r].selected) <= MaxExceptions

\* Every step keeps that.
LEMMA EnclosedStep ==
    ASSUME Inv, NEW r \in Requests, Step(r) \/ Fails(r) \/ DeadlockAborts(r), Enclosed(r)
    PROVE  Enclosed(r)'
  <1>0. /\ TypeOK /\ scan[r] \in Scan /\ tx[r] \in Tx
        /\ scan[r].selected \in Seq(Exceptions) /\ Len(scan[r].selected) \in Nat
        /\ MaxExceptions \in Nat
    BY LimitsAssumption DEF Inv, TypeOK, Scan
  <1>1. ASSUME scan'[r].selected = scan[r].selected, tx'[r] = NoTx
        PROVE  Enclosed(r)'
    BY <1>1 DEF Enclosed, NoTx
  <1>2. ASSUME scan'[r].selected = scan[r].selected,
               tx'[r].events = tx[r].events, tx'[r].members = tx[r].members
        PROVE  Enclosed(r)'
    BY <1>2 DEF Enclosed
  <1>3. CASE ReadPage(r)
    <2>1. scan'[r].selected = scan[r].selected /\ tx' = tx
      BY <1>0, <1>3 DEF ReadPage, TypeOK, Scan
    <2> QED
      BY <1>2, <2>1
  <1>4. CASE Examine(r)
    <2> DEFINE x == Input[r][scan[r].cursor + 1]
               new == Selected(scan[r], x)
    <2>1. /\ scan' = [scan EXCEPT ![r].cursor = scan[r].cursor + 1, ![r].selected = new]
          /\ tx' = tx /\ ~Full(r)
      BY <1>4 DEF Examine
    <2>2. scan'[r].selected = new
      <3> HIDE DEF new
      <3> QED
        BY <1>0, <2>1 DEF TypeOK, Scan
    <2>3. Len(new) \in Nat /\ Len(new) <= Len(scan[r].selected) + 1
      <3>1. x \in Exceptions
        BY <1>0, <1>4, RequestsAssumption DEF Examine, Scan
      <3> HIDE DEF x
      <3> QED
        BY <1>0, <3>1 DEF Selected
    <2> HIDE DEF new, x
    <2>4. r \in Filtered => Len(scan[r].selected) < MaxExceptions
      BY <1>0, <2>1 DEF Full
    <2> QED
      BY <1>0, <2>1, <2>2, <2>3, <2>4 DEF Enclosed
  <1>5. CASE PageDone(r) \/ Begin(r) \/ Check(r)
    BY <1>2, <1>5 DEF PageDone, Begin, Check
  <1>6. CASE Insert(r)
    <2>1. /\ scan' = scan
          /\ \/ tx' = tx
             \/ \E rows, keys : tx' = [tx EXCEPT ![r].rows = rows, ![r].keys = keys]
      BY <1>6 DEF Insert, Conflict, Inserted
    <2>2. tx \in [Requests -> Tx]
      BY <1>0 DEF TypeOK
    <2>3. ASSUME NEW rows, NEW keys, tx' = [tx EXCEPT ![r].rows = rows, ![r].keys = keys]
          PROVE  tx'[r].events = tx[r].events /\ tx'[r].members = tx[r].members
      BY <2>2, <2>3 DEF Tx
    <2>4. tx'[r].events = tx[r].events /\ tx'[r].members = tx[r].members
      BY <2>1, <2>3
    <2> QED
      BY <1>2, <2>1, <2>4
  <1>7. ASSUME NEW told, Ends(r, told) PROVE Enclosed(r)'
    BY <1>0, <1>1, <1>7 DEF Ends, TypeOK
  <1>8. CASE Lookup(r)
    BY <1>2, <1>7, <1>8 DEF Lookup, RolledBack
  <1>9. CASE Recheck(r)
    <2>1. /\ scan' = scan
          /\ tx' = tx \/ \E rows : tx' = [tx EXCEPT ![r].rows = rows]
      BY <1>9 DEF Recheck
    <2>2. tx'[r].events = tx[r].events /\ tx'[r].members = tx[r].members
      BY <1>0, <2>1 DEF TypeOK, Tx
    <2> QED
      BY <1>2, <2>1, <2>2
  <1>10. CASE Record(r)
    <2> DEFINE more == IF item[r].created THEN tx[r].events \cup {item[r].row}
                                          ELSE tx[r].events
    <2>1. CASE Ends(r, "failed")
      BY <1>7, <2>1
    <2>2. CASE /\ scan' = scan
               /\ tx' = [tx EXCEPT ![r].events = more,
                                   ![r].members = tx[r].members \cup {item[r].row}]
      <3>1. more \subseteq tx[r].events \cup {item[r].row}
        OBVIOUS
      <3> HIDE DEF more
      <3>2. tx'[r].events = more /\ tx'[r].members = tx[r].members \cup {item[r].row}
        BY <1>0, <2>2 DEF TypeOK, Tx
      <3> QED
        BY <2>2, <3>1, <3>2 DEF Enclosed
    <2> QED
      BY <1>10, <2>1, <2>2 DEF Record, RolledBack
  <1>11. CASE Commit(r) \/ Fails(r) \/ DeadlockAborts(r)
    BY <1>7, <1>11 DEF Commit, Fails, DeadlockAborts, RolledBack
  <1> QED
    BY <1>3, <1>4, <1>5, <1>6, <1>8, <1>9, <1>10, <1>11 DEF Step

\* It holds in every run.
LEMMA EnclosedCorrect == Spec => [](\A r \in Requests : Enclosed(r))
  <1>1. Init => \A r \in Requests : Enclosed(r)
    <2> SUFFICES ASSUME Init, NEW r \in Requests PROVE Enclosed(r)
      OBVIOUS
    <2>1. tx[r] = NoTx /\ scan[r].selected = <<>> /\ MaxExceptions \in Nat
      BY LimitsAssumption DEF Init
    <2> QED
      BY <2>1 DEF Enclosed, NoTx
  <1>2. Inv /\ (\A r \in Requests : Enclosed(r)) /\ [Next]_vars
            => (\A r \in Requests : Enclosed(r))'
    <2> SUFFICES ASSUME Inv, \A r \in Requests : Enclosed(r), [Next]_vars,
                        NEW q \in Requests
                 PROVE  Enclosed(q)'
      OBVIOUS
    <2>1. ASSUME NEW r \in Requests, Step(r) \/ Fails(r) \/ DeadlockAborts(r)
          PROVE  Enclosed(q)'
      <3>1. CASE q = r
        BY <2>1, <3>1, EnclosedStep
      <3>2. CASE q # r
        BY <2>1, <3>2, FrameStep DEF Enclosed
      <3> QED
        BY <3>1, <3>2
    <2>2. CASE UNCHANGED <<scan, tx>>
      BY <2>2 DEF Enclosed
    <2> QED
      BY <2>1, <2>2 DEF Next, Decide, vars
  <1> QED
    BY <1>1, <1>2, InvCorrect, PTL DEF Spec

\* No more rows are attached than there are exceptions before a position.
LEMMA AttachesCount ==
    ASSUME NEW r, NEW rows, NEW selected, NEW size \in Nat,
           Attaches(r, rows, selected, size + 1)
    PROVE  Cardinality(rows) <= size
  <1> DEFINE place(row) == CHOOSE i \in 1..size : row.exception = selected[i]
             places == [row \in rows |-> place(row)]
  <1>1. 1..((size + 1) - 1) = 1..size
    OBVIOUS
  <1>2. /\ IsFiniteSet(rows)
        /\ \A row \in rows : \E i \in 1..size : row.exception = selected[i]
        /\ \A row1, row2 \in rows : row1.exception = row2.exception => row1 = row2
    BY <1>1 DEF Attaches
  <1>3. \A row \in rows : place(row) \in 1..size /\ row.exception = selected[place(row)]
    BY <1>2
  <1>4. /\ places \in [rows -> 1..size]
        /\ \A row \in rows : row.exception = selected[places[row]]
    <2> HIDE DEF place
    <2> QED
      BY <1>3
  <1>5. IsFiniteSet(1..size) /\ Cardinality(1..size) = size
    BY FS_Interval
  <1>6. Cardinality(rows) \in Nat
    BY <1>2, FS_CardinalityType
  <1> HIDE DEF places
  <1>7. ASSUME size < Cardinality(rows) PROVE FALSE
    <2>1. \E row1, row2 \in rows : row1 # row2 /\ places[row1] = places[row2]
      BY <1>2, <1>4, <1>5, <1>7, FS_PigeonHole
    <2> QED
      BY <1>2, <1>4, <2>1
  <1> QED
    BY <1>6, <1>7

\* The ledger's definitions speak of the same rows, and count alike.
LEMMA SameLedger == Ledger!Rows = Rows
  BY DEF Ledger!Rows, Rows

LEMMA SameCount == \A rows : Ledger!Cardinality(rows) = Cardinality(rows)
  BY DEF Ledger!Cardinality, Cardinality

\* A commit accepts the request.
LEMMA CommitAccepts ==
    ASSUME AttachInv, NEW r \in Requests, Enclosed(r), Commit(r)
    PROVE  Ledger!Accept(r, tx[r].members)
  <1> DEFINE mine == tx[r].members
             started == {row \in mine : status[row] = "none"}
  <1>1. /\ TypeOK /\ LocalInv(r) /\ Selects(r) /\ Attached(r) /\ Fresh(r) /\ Told(r)
        /\ Told(r)' /\ pc[r] = "commit" /\ KeysFree
    BY CommitTold DEF AttachInv, Inv, Commit
  <1>2. /\ tx[r] \in Tx /\ mine \subseteq Rows /\ tx[r].rows \subseteq Rows
        /\ scan[r].selected \in Seq(Exceptions) /\ Len(scan[r].selected) \in Nat
    BY <1>1 DEF TypeOK, Tx, Scan
  <1>3. answer[r] = "none"
    BY <1>1 DEF Told
  <1>4. started = tx[r].rows /\ tx[r].events = tx[r].rows
    <2>1. tx[r].events = tx[r].rows
      BY <1>1, NothingPending DEF AttachInv, LocalInv, TxOwn
    <2>2. tx[r].rows \subseteq mine
      BY <2>1 DEF Enclosed
    <2>3. \A row \in mine : status[row] # "none" \/ row \in tx[r].rows
      BY <1>1 DEF Attached
    <2>4. \A row \in tx[r].rows : status[row] = "none"
      BY <1>1, <1>2 DEF LocalInv, TxOwn, Fresh
    <2> QED
      BY <2>1, <2>2, <2>3, <2>4
  <1>5. members' = [members EXCEPT ![r] = mine]
    BY DEF Commit
  <1>6. Ledger!Satisfies(r, mine)
    <2>1. /\ Attaches(r, mine, scan[r].selected, Len(scan[r].selected) + 1)
          /\ r \in Filtered => Len(scan[r].selected) <= MaxExceptions
      BY <1>1 DEF Attached, Enclosed
    <2>2. IsFiniteSet(mine) /\ Cardinality(mine) <= Len(scan[r].selected)
      <3>1. IsFiniteSet(mine)
        BY <2>1 DEF Attaches
      <3>2. Cardinality(mine) <= Len(scan[r].selected)
        BY <1>2, <2>1, AttachesCount
      <3> QED
        BY <3>1, <3>2
    <2>3. r \in Filtered => Cardinality(mine) <= MaxExceptions
      BY <1>2, <2>1, <2>2, LimitsAssumption, FS_CardinalityType
    <2>4. /\ \A row1, row2 \in mine : row1.exception = row2.exception => row1 = row2
          /\ LET asked == {Input[r][i] : i \in 1..Len(Input[r])}
                 found == {row.exception : row \in mine}
             IN  IF r \in Filtered THEN found \subseteq asked ELSE found = asked
      BY CommitAttaches
    <2> QED
      BY <2>3, <2>4, SameCount DEF Ledger!Satisfies, Ledger!Asked
  <1>7. ASSUME NEW row \in started
        PROVE  row.request = r /\ Ledger!MayStart(r, row.exception)
    <2>1. /\ row \in tx[r].rows /\ row.request = r /\ row.exception \in tx[r].keys
          /\ row \in tx[r].events
      BY <1>1, <1>4, <1>7 DEF LocalInv, TxOwn
    <2>2. ~Ledger!Has(row.exception, "active")
      BY <1>1, <2>1, SameLedger DEF KeysFree, Ledger!Has
    <2>3. r \in Filtered => ~Completed(row.exception)
      <3>1. row.exception \in Exceptions
        BY <1>2, <2>1 DEF Rows
      <3> QED
        BY <1>1, <2>1, <3>1 DEF LocalInv, HistoryOut, History
    <2>4. r \in Filtered => ~Ledger!Has(row.exception, "completed")
      BY <2>3, SameLedger DEF Completed, Ledger!Has
    <2> QED
      BY <2>1, <2>2, <2>4 DEF Ledger!MayStart
  <1>8. /\ status' = [row \in Rows |-> IF row \in started THEN "active" ELSE status[row]]
        /\ events' = events \cup started
    BY <1>4 DEF Commit
  <1>9. \E told \in {"accepted", "failed"} : answer' = [answer EXCEPT ![r] = told]
    BY DEF Commit, Ends
  <1> QED
    BY <1>3, <1>5, <1>6, <1>7, <1>8, <1>9, SameLedger DEF Ledger!Accept

\* The tables develop as if each request were accepted, or refused, in one step.
THEOREM LedgerCorrect == Spec => LedgerImplemented
  <1>1. Init => Ledger!LedgerInit
    BY SameLedger DEF Init, Ledger!LedgerInit
  <1>2. AttachInv /\ (\A r \in Requests : Enclosed(r)) /\ [Next]_vars
            => [Ledger!LedgerNext]_(Ledger!ledger)
    <2> SUFFICES ASSUME AttachInv, \A r \in Requests : Enclosed(r), [Next]_vars
                 PROVE  [Ledger!LedgerNext]_(Ledger!ledger)
      OBVIOUS
    <2>1. ASSUME NEW r \in Requests, Commit(r)
          PROVE  Ledger!LedgerNext
      <3>1. Ledger!Accept(r, tx[r].members)
        BY <2>1, CommitAccepts
      <3>2. tx[r].members \in SUBSET Rows
        BY DEF AttachInv, Inv, TypeOK, Tx
      <3> QED
        BY <3>1, <3>2, SameLedger DEF Ledger!LedgerNext
    <2>2. ASSUME NEW r \in Requests, Step(r) \/ Fails(r) \/ DeadlockAborts(r), ~Commit(r)
          PROVE  [Ledger!LedgerNext]_(Ledger!ledger)
      <3>1. /\ status' = status /\ events' = events /\ members' = members
            /\ answer' = answer \/ Ends(r, "failed")
        BY <2>2, TablesKept, AnswersKept
      <3>2. CASE answer' = answer
        BY <3>1, <3>2 DEF Ledger!ledger
      <3>3. CASE Ends(r, "failed")
        <4>1. answer[r] = "none"
          BY <2>2, DoneStays DEF AttachInv, Told
        <4>2. Ledger!Refuse(r)
          BY <3>1, <3>3, <4>1 DEF Ends, Ledger!Refuse
        <4> QED
          BY <4>2 DEF Ledger!LedgerNext
      <3> QED
        BY <3>1, <3>2, <3>3
    <2>3. ASSUME NEW row \in Rows, Decide(row)
          PROVE  Ledger!LedgerNext
      <3>1. Ledger!Decide(row)
        BY <2>3 DEF Decide, Ledger!Decide
      <3> QED
        BY <3>1, SameLedger DEF Ledger!LedgerNext
    <2>4. CASE UNCHANGED vars
      BY <2>4 DEF vars, Ledger!ledger
    <2> QED
      BY <2>1, <2>2, <2>3, <2>4 DEF Next
  <1> QED
    BY <1>1, <1>2, AttachInvCorrect, EnclosedCorrect, PTL
    DEF Spec, LedgerImplemented, Ledger!LedgerSpec
=============================================================================
