----------------------------- MODULE OutboxProofs -----------------------------
(***************************************************************************)
(* Theorems about Outbox, for every set of events and publishers, every    *)
(* batch size and every bound.                                             *)
(***************************************************************************)
EXTENDS Outbox, TLAPS

-----------------------------------------------------------------------------
(* Types. *)

\* What a publication that arrives, or whose sender gives up, does to the stream.
LEMMA StreamType ==
    ASSUME TypeOK, NEW e \in Events,
           \/ StreamStores(e) /\ UNCHANGED late
           \/ Unheard(e)
           \/ StreamStores(e) /\ late[e] > 0 /\ late' = [late EXCEPT ![e] = @ - 1]
    PROVE  /\ copies' \in [Events -> Nat]
           /\ remembered' \subseteq Events
           /\ late' \in [Events -> Nat]
  BY SMT DEF TypeOK, StreamStores, Unheard, streamVars

\* The end of a pass leaves locks and sets of the right type.
LEMMA PassEndsType ==
    ASSUME TypeOK, NEW p \in Publishers, PassEnds(p)
    PROVE  /\ lock' \in [Events -> Publishers \cup {NoPublisher}]
           /\ batch' \in [Publishers -> SUBSET Events]
           /\ todo' \in [Publishers -> SUBSET Events]
           /\ marked' \in [Publishers -> SUBSET Events]
           /\ lost' \subseteq Publishers
  BY DEF TypeOK, PassEnds, Released

\* A pass that is cut short does the same, whatever it had sent.
LEMMA CutShortType ==
    ASSUME TypeOK, NEW p \in Publishers, CutShort(p)
    PROVE  /\ copies' \in [Events -> Nat]
           /\ remembered' \subseteq Events
           /\ late' \in [Events -> Nat]
           /\ lock' \in [Events -> Publishers \cup {NoPublisher}]
           /\ batch' \in [Publishers -> SUBSET Events]
           /\ todo' \in [Publishers -> SUBSET Events]
           /\ marked' \in [Publishers -> SUBSET Events]
           /\ lost' \subseteq Publishers
  <1>1. CASE UNCHANGED streamVars
    BY <1>1, PassEndsType DEF CutShort, TypeOK, streamVars
  <1>2. CASE \E e \in Events : IsNext(p, e) /\ Unheard(e)
    BY <1>2, PassEndsType, StreamType DEF CutShort
  <1> QED
    BY <1>1, <1>2 DEF CutShort

\* Every step keeps the types.
LEMMA TypeStep == TypeOK /\ [Next]_vars => TypeOK'
  <1> SUFFICES ASSUME TypeOK, [Next]_vars PROVE TypeOK'
    OBVIOUS
  <1>1. ASSUME NEW e \in Events, Append(e) \/ BackoffEnds(e) \/ Retain(e) PROVE TypeOK'
    BY <1>1 DEF TypeOK, Stored, Append, BackoffEnds, Retain, dbVars, passVars, streamVars
  <1>2. ASSUME NEW e \in Events, LandsLate(e) PROVE TypeOK'
    BY <1>2, StreamType DEF TypeOK, LandsLate, dbVars, passVars
  <1>3. ASSUME NEW e \in Events, Forget(e) PROVE TypeOK'
    BY <1>3 DEF TypeOK, Forget, dbVars, passVars
  <1>4. ASSUME NEW p \in Publishers, Claim(p) PROVE TypeOK'
    BY <1>4 DEF TypeOK, Claim, streamVars
  <1>5. ASSUME NEW p \in Publishers, NEW e \in Events, Accepted(p, e) PROVE TypeOK'
    BY <1>5, StreamType DEF TypeOK, Accepted, dbVars
  <1>6. ASSUME NEW p \in Publishers, NEW e \in Events, Refused(p, e) PROVE TypeOK'
    BY <1>6, StreamType DEF TypeOK, Refused, dbVars
  <1>7. ASSUME NEW p \in Publishers, PassFails(p) \/ Stop(p) PROVE TypeOK'
    BY <1>7, CutShortType DEF TypeOK, PassFails, Stop
  <1>8. ASSUME NEW p \in Publishers, Commit(p) PROVE TypeOK'
    BY <1>8, PassEndsType DEF TypeOK, Stored, Commit, Noted, streamVars
  <1>9. ASSUME NEW p \in Publishers, SessionLost(p) \/ Start(p) PROVE TypeOK'
    BY <1>9 DEF TypeOK, SessionLost, Start, Released, dbVars, passVars, streamVars
  <1>10. CASE UNCHANGED vars
    BY <1>10 DEF TypeOK, vars
  <1> QED
    BY <1>1, <1>2, <1>3, <1>4, <1>5, <1>6, <1>7, <1>8, <1>9, <1>10 DEF Next, Pass

\* The table, the passes and the stream's view keep their types.
THEOREM OutboxTypeCorrect == Spec => []TypeOK
  <1>1. Init => TypeOK
    BY DEF Init, TypeOK, Stored
  <1> QED
    BY <1>1, TypeStep, PTL DEF Spec

-----------------------------------------------------------------------------
(* What is published is on the stream.  A pass commits its notes later than it *)
(* publishes, so the notes must be right already while they are uncommitted.  *)

NotedIsStored == \A p \in Publishers : \A e \in marked[p] : copies[e] > 0

\* The stream does not store what it remembers, so it must have it.
RememberedIsStored == \A e \in remembered : copies[e] > 0

StoredInv == TypeOK /\ PublishedIsStored /\ NotedIsStored /\ RememberedIsStored

\* The stream never loses a copy.
LEMMA CopiesGrow ==
    ASSUME TypeOK, [Next]_vars
    PROVE  \A e \in Events : copies[e] > 0 => copies'[e] > 0
  <1> SUFFICES ASSUME NEW f \in Events, copies[f] > 0 PROVE copies'[f] > 0
    OBVIOUS
  <1>1. ASSUME NEW e \in Events, StreamStores(e) PROVE copies'[f] > 0
    BY <1>1 DEF TypeOK, StreamStores
  <1>2. ASSUME NEW e \in Events, Unheard(e) PROVE copies'[f] > 0
    BY <1>1, <1>2 DEF Unheard, streamVars
  <1>3. ASSUME NEW p \in Publishers, CutShort(p) PROVE copies'[f] > 0
    BY <1>2, <1>3 DEF CutShort, streamVars
  <1>4. ASSUME NEW p \in Publishers, Pass(p) PROVE copies'[f] > 0
    BY <1>1, <1>2, <1>3, <1>4 DEF Pass, Accepted, Refused, PassFails, Commit, streamVars
  <1>5. ASSUME NEW p \in Publishers, Claim(p) \/ SessionLost(p) \/ Stop(p) \/ Start(p)
        PROVE copies'[f] > 0
    BY <1>3, <1>5 DEF Claim, SessionLost, Stop, Start, streamVars
  <1>6. ASSUME NEW e \in Events,
               \/ Append(e) \/ BackoffEnds(e) \/ Retain(e)
               \/ LandsLate(e) \/ Forget(e)
        PROVE copies'[f] > 0
    BY <1>1, <1>6 DEF Append, BackoffEnds, Retain, LandsLate, Forget, streamVars
  <1>7. CASE UNCHANGED vars
    BY <1>7 DEF vars
  <1> QED
    BY <1>4, <1>5, <1>6, <1>7 DEF Next

\* A row becomes published only by the commit of a pass that has noted it, and
\* deleted only when it was published.
LEMMA StoredRows ==
    ASSUME TypeOK, [Next]_vars
    PROVE  \A e \in Events : store'[e] \in Stored =>
              \/ store[e] \in Stored
              \/ \E p \in Publishers : e \in marked[p]
  <1> SUFFICES ASSUME NEW f \in Events, store'[f] \in Stored
               PROVE  store[f] \in Stored \/ \E p \in Publishers : f \in marked[p]
    OBVIOUS
  <1>1. ASSUME NEW e \in Events, Append(e) \/ Retain(e) PROVE store[f] \in Stored
    BY <1>1 DEF TypeOK, Stored, Append, Retain
  <1>2. ASSUME NEW p \in Publishers, Commit(p)
        PROVE  store[f] \in Stored \/ f \in marked[p]
    BY <1>2 DEF TypeOK, Commit, Noted
  <1>3. ASSUME store' = store PROVE store[f] \in Stored
    BY <1>3
  <1> QED
    BY <1>1, <1>2, <1>3
    DEF Next, Pass, BackoffEnds, LandsLate, Forget, Claim, Accepted, Refused, PassFails,
        SessionLost, Stop, Start, dbVars, vars

\* A pass notes an event in the step in which the broker acknowledges it.
LEMMA NotedRows ==
    ASSUME TypeOK, [Next]_vars
    PROVE  \A p \in Publishers : \A e \in marked'[p] :
              e \in marked[p] \/ (StreamStores(e) /\ e \in Events)
  <1> SUFFICES ASSUME NEW q \in Publishers, NEW f \in marked'[q]
               PROVE  f \in marked[q] \/ (StreamStores(f) /\ f \in Events)
    OBVIOUS
  <1>1. ASSUME NEW p \in Publishers, NEW e \in Events, Accepted(p, e)
        PROVE  f \in marked[q] \/ (StreamStores(f) /\ f \in Events)
    BY <1>1 DEF TypeOK, Accepted
  <1>2. ASSUME NEW p \in Publishers, PassEnds(p) PROVE f \in marked[q]
    BY <1>2 DEF TypeOK, PassEnds
  <1>3. ASSUME marked' = marked PROVE f \in marked[q]
    BY <1>3
  <1> QED
    BY <1>1, <1>2, <1>3
    DEF Next, Pass, Append, BackoffEnds, Retain, LandsLate, Forget, Claim, Refused,
        CutShort, PassFails, Commit, SessionLost, Stop, Start, passVars, vars

\* The stream remembers what it has just stored, and what it remembered before.
LEMMA RememberedIds ==
    ASSUME TypeOK, [Next]_vars
    PROVE  \A e \in remembered' : e \in remembered \/ (StreamStores(e) /\ e \in Events)
  <1> SUFFICES ASSUME NEW f \in remembered'
               PROVE  f \in remembered \/ (StreamStores(f) /\ f \in Events)
    OBVIOUS
  <1>1. ASSUME NEW e \in Events, StreamStores(e)
        PROVE  f \in remembered \/ (StreamStores(f) /\ f \in Events)
    BY <1>1 DEF StreamStores
  <1>2. ASSUME NEW e \in Events, Unheard(e)
        PROVE  f \in remembered \/ (StreamStores(f) /\ f \in Events)
    BY <1>1, <1>2 DEF Unheard, streamVars
  <1>3. ASSUME NEW p \in Publishers, CutShort(p)
        PROVE  f \in remembered \/ (StreamStores(f) /\ f \in Events)
    BY <1>2, <1>3 DEF CutShort, streamVars
  <1>4. ASSUME remembered' \subseteq remembered PROVE f \in remembered
    BY <1>4
  <1> QED
    BY <1>1, <1>2, <1>3, <1>4
    DEF Next, Pass, Append, BackoffEnds, Retain, LandsLate, Forget, Claim, Accepted,
        Refused, PassFails, Commit, SessionLost, Stop, Start, streamVars, vars

\* The invariant behind it holds in every run.
LEMMA StoredInvCorrect == Spec => []StoredInv
  <1>1. Init => StoredInv
    BY DEF Init, StoredInv, TypeOK, Stored, PublishedIsStored, NotedIsStored,
           RememberedIsStored
  <1>2. StoredInv /\ [Next]_vars => StoredInv'
    <2> SUFFICES ASSUME StoredInv, [Next]_vars PROVE StoredInv'
      OBVIOUS
    <2>1. TypeOK /\ TypeOK'
      BY TypeStep DEF StoredInv
    <2>5. ASSUME NEW e \in Events, StreamStores(e) PROVE copies'[e] > 0
      BY <2>1, <2>5 DEF StreamStores, TypeOK, StoredInv, RememberedIsStored
    <2>2. PublishedIsStored'
      <3>1. ASSUME NEW e \in Events, store'[e] \in Stored PROVE copies[e] > 0
        BY <2>1, <3>1, StoredRows DEF StoredInv, PublishedIsStored, NotedIsStored
      <3> QED
        BY <2>1, <3>1, CopiesGrow DEF PublishedIsStored
    <2>3. NotedIsStored'
      <3>1. ASSUME NEW p \in Publishers, NEW e \in marked'[p] PROVE copies'[e] > 0
        <4>1. CASE e \in marked[p]
          BY <2>1, <4>1, CopiesGrow DEF StoredInv, NotedIsStored, TypeOK
        <4>2. CASE StreamStores(e) /\ e \in Events
          BY <2>1, <2>5, <4>2
        <4> QED
          BY <2>1, <4>1, <4>2, NotedRows
      <3> QED
        BY <3>1 DEF NotedIsStored
    <2>4. RememberedIsStored'
      <3>1. ASSUME NEW e \in remembered' PROVE copies'[e] > 0
        BY <2>1, <2>5, CopiesGrow, RememberedIds DEF StoredInv, RememberedIsStored, TypeOK
      <3> QED
        BY <3>1 DEF RememberedIsStored
    <2> QED
      BY <2>1, <2>2, <2>3, <2>4 DEF StoredInv
  <1> QED
    BY <1>1, <1>2, PTL DEF Spec

\* An event the table calls published or has deleted is on the stream.
THEOREM PublishedCorrect == Spec => []PublishedIsStored
  <1>1. StoredInv => PublishedIsStored
    BY DEF StoredInv
  <1> QED
    BY <1>1, StoredInvCorrect, PTL

-----------------------------------------------------------------------------
(* A live session works on unpublished rows, because it holds their locks and *)
(* only the holder of a lock publishes a row.                                 *)

\* A live pass holds what it has selected, and notes nothing else.
LockInv ==
    \A p \in Publishers :
        /\ marked[p] \subseteq batch[p]
        /\ todo[p] \subseteq batch[p]
        /\ Connected(p) => \A e \in batch[p] : lock[e] = p /\ store[e] = "pending"

\* Releasing the locks of a session takes none from another pass.
LEMMA OthersKeepLocks ==
    ASSUME TypeOK, NEW p \in Publishers, lock' = Released(p),
           NEW q \in Publishers, q # p, NEW e \in Events, lock[e] = q
    PROVE  lock'[e] = q
  BY DEF Released, TypeOK

\* The end of a pass that changes no row keeps the locks of the others.
LEMMA PassEndsKeepsLocks ==
    ASSUME TypeOK, LockInv, NEW p \in Publishers, PassEnds(p), UNCHANGED store
    PROVE  LockInv'
  <1> SUFFICES ASSUME NEW q \in Publishers
               PROVE  /\ marked'[q] \subseteq batch'[q]
                      /\ todo'[q] \subseteq batch'[q]
                      /\ q \notin lost' =>
                            \A e \in batch'[q] : lock'[e] = q /\ store'[e] = "pending"
    BY DEF LockInv, Connected
  <1>1. CASE q = p
    BY <1>1 DEF TypeOK, PassEnds
  <1>2. CASE q # p
    <2>1. /\ marked'[q] = marked[q] /\ todo'[q] = todo[q] /\ batch'[q] = batch[q]
          /\ q \in lost <=> q \in lost'
      BY <1>2 DEF TypeOK, PassEnds
    <2>2. batch[q] \subseteq Events
      BY DEF TypeOK
    <2> QED
      BY <1>2, <2>1, <2>2, OthersKeepLocks DEF LockInv, Connected, PassEnds
  <1> QED
    BY <1>1, <1>2

\* Every step keeps the locks consistent.
LEMMA LockStep == TypeOK /\ LockInv /\ [Next]_vars => LockInv'
  <1> SUFFICES ASSUME TypeOK, LockInv, [Next]_vars PROVE LockInv'
    OBVIOUS
  <1>1. ASSUME NEW e \in Events, Append(e) PROVE LockInv'
    BY <1>1 DEF TypeOK, LockInv, Connected, Append, passVars
  <1>2. ASSUME NEW e \in Events, Retain(e) PROVE LockInv'
    BY <1>2 DEF TypeOK, LockInv, Connected, Retain, passVars
  <1>3. ASSUME NEW p \in Publishers, Claim(p) PROVE LockInv'
    <2> SUFFICES ASSUME NEW q \in Publishers
                 PROVE  /\ marked'[q] \subseteq batch'[q]
                        /\ todo'[q] \subseteq batch'[q]
                        /\ q \notin lost' =>
                              \A e \in batch'[q] : lock'[e] = q /\ store'[e] = "pending"
      BY DEF LockInv, Connected
    <2>1. PICK b \in SUBSET Events :
            /\ Selectable(p, b)
            /\ lock' = [e \in Events |-> IF e \in b THEN p ELSE lock[e]]
            /\ batch' = [batch EXCEPT ![p] = b]
            /\ todo' = [todo EXCEPT ![p] = b]
      BY <1>3 DEF Claim
    <2>2. \A e \in b : store[e] = "pending" /\ lock[e] = NoPublisher
      BY <2>1 DEF Selectable, Available
    <2>3. marked' = marked /\ lost' = lost /\ store' = store /\ batch[p] = {}
      BY <1>3 DEF Claim, Busy
    <2>4. CASE q = p
      BY <2>1, <2>2, <2>3, <2>4 DEF TypeOK, LockInv
    <2>5. CASE q # p
      <3>1. \A e \in batch[q] : q \notin lost => e \notin b
        BY <2>2, PublishersAssumption DEF LockInv, Connected
      <3>2. batch[q] \subseteq Events
        BY DEF TypeOK
      <3> QED
        BY <2>1, <2>3, <2>5, <3>1, <3>2 DEF TypeOK, LockInv, Connected
    <2> QED
      BY <2>4, <2>5
  <1>4. ASSUME NEW p \in Publishers, NEW e \in Events, Accepted(p, e) PROVE LockInv'
    BY <1>4 DEF TypeOK, LockInv, Connected, Accepted, IsNext, dbVars
  <1>5. ASSUME NEW p \in Publishers, NEW e \in Events, Refused(p, e) PROVE LockInv'
    BY <1>5 DEF TypeOK, LockInv, Connected, Refused, IsNext, dbVars
  <1>6. ASSUME NEW p \in Publishers, PassFails(p) \/ Stop(p) PROVE LockInv'
    BY <1>6, PassEndsKeepsLocks DEF PassFails, Stop, CutShort
  <1>7. ASSUME NEW p \in Publishers, Commit(p) PROVE LockInv'
    <2> SUFFICES ASSUME NEW q \in Publishers
                 PROVE  /\ marked'[q] \subseteq batch'[q]
                        /\ todo'[q] \subseteq batch'[q]
                        /\ q \notin lost' =>
                              \A e \in batch'[q] : lock'[e] = q /\ store'[e] = "pending"
      BY DEF LockInv, Connected
    <2>1. PassEnds(p) /\ Connected(p) /\ Noted(p)
      BY <1>7 DEF Commit
    <2>2. CASE q = p
      BY <2>1, <2>2 DEF TypeOK, PassEnds
    <2>3. CASE q # p
      <3>1. /\ marked'[q] = marked[q] /\ todo'[q] = todo[q] /\ batch'[q] = batch[q]
            /\ q \in lost <=> q \in lost'
        BY <2>1, <2>3 DEF TypeOK, PassEnds
      <3>2. batch[q] \subseteq Events
        BY DEF TypeOK
      <3>3. ASSUME NEW e \in batch[q], q \notin lost
            PROVE  lock'[e] = q /\ store'[e] = "pending"
        <4>1. lock[e] = q /\ store[e] = "pending"
          BY <3>3 DEF LockInv, Connected
        <4>2. e \notin marked[p]
          BY <2>1, <2>3, <4>1 DEF LockInv
        <4> QED
          BY <2>1, <2>3, <3>2, <4>1, <4>2, OthersKeepLocks DEF PassEnds, Noted
      <3> QED
        BY <3>1, <3>3 DEF LockInv
    <2> QED
      BY <2>2, <2>3
  <1>8. ASSUME NEW p \in Publishers, SessionLost(p) PROVE LockInv'
    <2>1. ASSUME NEW q \in Publishers, q \notin lost', NEW e \in batch[q]
          PROVE  lock'[e] = q
      BY <1>8, <2>1, OthersKeepLocks DEF SessionLost, LockInv, Connected, TypeOK
    <2> QED
      BY <1>8, <2>1 DEF SessionLost, LockInv, Connected
  <1>9. CASE UNCHANGED <<store, lock, batch, todo, marked, lost>>
    BY <1>9 DEF LockInv, Connected
  <1> QED
    BY <1>1, <1>2, <1>3, <1>4, <1>5, <1>6, <1>7, <1>8, <1>9
    DEF Next, Pass, BackoffEnds, LandsLate, Forget, Start, dbVars, passVars, vars

\* A pass with a live session never works on a row that has been published.
THEOREM BatchCorrect == Spec => []NoStaleBatch
  <1>1. Init => TypeOK /\ LockInv
    BY DEF Init, TypeOK, Stored, LockInv
  <1>2. TypeOK /\ LockInv /\ [Next]_vars => (TypeOK /\ LockInv)'
    BY TypeStep, LockStep
  <1>3. LockInv => NoStaleBatch
    BY DEF LockInv, NoStaleBatch
  <1> QED
    BY <1>1, <1>2, <1>3, PTL DEF Spec

-----------------------------------------------------------------------------
(* Within the duplicate window the stream remembers every id it has stored.   *)

OnceInv ==
    \A e \in Timely : copies[e] <= 1 /\ (copies[e] = 1 => e \in remembered)

\* Storing a publication keeps OnceInv.
LEMMA StoreKeepsOnce ==
    ASSUME TypeOK, OnceInv, NEW e \in Events, StreamStores(e)
    PROVE  OnceInv'
  <1> SUFFICES ASSUME NEW f \in Timely
               PROVE  copies'[f] <= 1 /\ (copies'[f] = 1 => f \in remembered')
    BY DEF OnceInv
  <1>1. copies[e] \in Nat /\ copies[f] \in Nat /\ copies[f] <= 1 /\ f \in Events
    BY EnvironmentAssumption DEF TypeOK, OnceInv
  <1>2. CASE e \in remembered
    BY <1>2 DEF StreamStores, OnceInv
  <1>3. CASE e \notin remembered
    <2>2. CASE f = e
      <3>1. copies[e] = 0
        BY <1>1, <1>3, <2>2 DEF OnceInv
      <3> QED
        BY <1>1, <1>3, <2>2, <3>1 DEF StreamStores, TypeOK
    <2>3. CASE f # e
      BY <1>1, <1>3, <2>3 DEF StreamStores, TypeOK, OnceInv
    <2> QED
      BY <2>2, <2>3
  <1> QED
    BY <1>2, <1>3

\* Every step keeps OnceInv.
LEMMA OnceStep == TypeOK /\ OnceInv /\ [Next]_vars => OnceInv'
  <1> SUFFICES ASSUME TypeOK, OnceInv, [Next]_vars PROVE OnceInv'
    OBVIOUS
  <1>1. CASE UNCHANGED <<copies, remembered>>
    BY <1>1 DEF OnceInv
  <1>2. ASSUME NEW e \in Events, Unheard(e) PROVE OnceInv'
    BY <1>1, <1>2, StoreKeepsOnce DEF Unheard, streamVars
  <1>3. ASSUME NEW p \in Publishers, CutShort(p) PROVE OnceInv'
    BY <1>1, <1>2, <1>3 DEF CutShort, streamVars
  <1>4. ASSUME NEW e \in Events, Forget(e) PROVE OnceInv'
    BY <1>4, EnvironmentAssumption DEF Forget, OnceInv
  <1>5. ASSUME NEW e \in Events, LandsLate(e) PROVE OnceInv'
    BY <1>5, StoreKeepsOnce DEF LandsLate
  <1>6. ASSUME NEW p \in Publishers, Pass(p) PROVE OnceInv'
    BY <1>1, <1>2, <1>3, <1>6, StoreKeepsOnce
    DEF Pass, Accepted, Refused, PassFails, Commit, streamVars
  <1>7. ASSUME NEW p \in Publishers, Stop(p) PROVE OnceInv'
    BY <1>3, <1>7 DEF Stop
  <1> QED
    BY <1>1, <1>4, <1>5, <1>6, <1>7
    DEF Next, Append, BackoffEnds, Retain, Claim, SessionLost, Start, streamVars, vars

\* However often an event is sent within the duplicate window, and however late a
\* publication arrives, the stream stores it once.
THEOREM StoredOnceCorrect == Spec => []StoredOnce
  <1>1. Init => TypeOK /\ OnceInv
    BY EnvironmentAssumption DEF Init, TypeOK, Stored, OnceInv
  <1>2. TypeOK /\ OnceInv /\ [Next]_vars => (TypeOK /\ OnceInv)'
    BY TypeStep, OnceStep
  <1>3. OnceInv => StoredOnce
    BY DEF OnceInv, StoredOnce
  <1> QED
    BY <1>1, <1>2, <1>3, PTL DEF Spec

-----------------------------------------------------------------------------
(* The relay.  A publication outlives the pass that sent it, and its session,  *)
(* but never precedes the commit of its event.                                *)

Written ==
    \A e \in Events :
        /\ late[e] > 0 => store[e] # "none"
        /\ \A p \in Publishers : e \in batch[p] => store[e] # "none"

\* A row is never taken out of the table's history.
LEMMA RowsStay ==
    ASSUME TypeOK, [Next]_vars
    PROVE  \A e \in Events : store[e] # "none" => store'[e] # "none"
  <1> SUFFICES ASSUME NEW f \in Events, store[f] # "none" PROVE store'[f] # "none"
    OBVIOUS
  <1>1. ASSUME NEW e \in Events, Append(e) \/ Retain(e) PROVE store'[f] # "none"
    BY <1>1 DEF TypeOK, Append, Retain
  <1>2. ASSUME NEW p \in Publishers, Commit(p) PROVE store'[f] # "none"
    BY <1>2 DEF TypeOK, Commit, Noted
  <1>3. ASSUME store' = store PROVE store'[f] # "none"
    BY <1>3
  <1> QED
    BY <1>1, <1>2, <1>3
    DEF Next, Pass, BackoffEnds, LandsLate, Forget, Claim, Accepted, Refused, PassFails,
        SessionLost, Stop, Start, dbVars, vars

\* A pass selects rows of the table.
LEMMA BatchRows ==
    ASSUME TypeOK, [Next]_vars
    PROVE  \A p \in Publishers : \A e \in batch'[p] :
              e \in batch[p] \/ store[e] = "pending"
  <1> SUFFICES ASSUME NEW q \in Publishers, NEW f \in batch'[q]
               PROVE  f \in batch[q] \/ store[f] = "pending"
    OBVIOUS
  <1>1. ASSUME NEW p \in Publishers, Claim(p)
        PROVE  f \in batch[q] \/ store[f] = "pending"
    BY <1>1 DEF TypeOK, Claim, Selectable, Available
  <1>2. ASSUME NEW p \in Publishers, PassEnds(p) PROVE f \in batch[q]
    BY <1>2 DEF TypeOK, PassEnds
  <1>3. ASSUME batch' = batch PROVE f \in batch[q]
    BY <1>3
  <1> QED
    BY <1>1, <1>2, <1>3
    DEF Next, Pass, Append, BackoffEnds, Retain, LandsLate, Forget, Accepted, Refused,
        CutShort, PassFails, Commit, SessionLost, Stop, Start, passVars, vars

\* A publication that lands late was sent by a pass.
LEMMA LateRows ==
    ASSUME TypeOK, [Next]_vars
    PROVE  \A e \in Events : late'[e] > 0 =>
              late[e] > 0 \/ \E p \in Publishers : e \in todo[p]
  <1> SUFFICES ASSUME NEW f \in Events, late'[f] > 0
               PROVE  late[f] > 0 \/ \E p \in Publishers : f \in todo[p]
    OBVIOUS
  <1>1. ASSUME NEW p \in Publishers, NEW e \in Events, IsNext(p, e), Unheard(e)
        PROVE  late[f] > 0 \/ f \in todo[p]
    BY <1>1 DEF TypeOK, IsNext, Unheard, streamVars
  <1>2. ASSUME NEW e \in Events, LandsLate(e) PROVE late[f] > 0
    BY <1>2 DEF TypeOK, LandsLate
  <1>3. ASSUME late' = late PROVE late[f] > 0
    BY <1>3
  <1>4. ASSUME NEW p \in Publishers, CutShort(p)
        PROVE  late[f] > 0 \/ f \in todo[p]
    BY <1>1, <1>3, <1>4 DEF CutShort, streamVars
  <1> QED
    BY <1>1, <1>2, <1>3, <1>4
    DEF Next, Pass, Append, BackoffEnds, Retain, Forget, Claim, Accepted, Refused,
        PassFails, Commit, SessionLost, Stop, Start, streamVars, vars

\* Every step keeps that.
LEMMA WrittenStep == TypeOK /\ LockInv /\ Written /\ [Next]_vars => Written'
  <1> SUFFICES ASSUME TypeOK, LockInv, Written, [Next]_vars, NEW e \in Events
               PROVE  /\ late'[e] > 0 => store'[e] # "none"
                      /\ \A p \in Publishers : e \in batch'[p] => store'[e] # "none"
    BY DEF Written
  <1>1. \A p \in Publishers : e \in todo[p] => store[e] # "none"
    BY DEF LockInv, Written
  <1>2. late'[e] > 0 => store[e] # "none"
    BY <1>1, LateRows DEF Written
  <1>3. \A p \in Publishers : e \in batch'[p] => store[e] # "none"
    BY BatchRows DEF Written
  <1> QED
    BY <1>2, <1>3, RowsStay

\* A publication that arrives is a step of the relay.
LEMMA StoredIsSent ==
    ASSUME NEW e \in Events, StreamStores(e), store[e] # "none", store' = store
    PROVE  Relay!RelayNext
  <1>1. Relay!Send(e)
    BY DEF StreamStores, Relay!Send
  <1> QED
    BY <1>1 DEF Relay!RelayNext

\* What a commit notes was pending and is on the stream.
LEMMA CommitPublishes ==
    ASSUME StoredInv, LockInv, NEW p \in Publishers, Commit(p)
    PROVE  Relay!RelayNext
  <1>1. marked[p] \in SUBSET Events
    BY DEF StoredInv, TypeOK
  <1>2. \A e \in marked[p] : copies[e] > 0 /\ store[e] = "pending"
    BY DEF StoredInv, NotedIsStored, LockInv, Commit
  <1>3. Relay!Publish(marked[p])
    BY <1>2 DEF Commit, Noted, streamVars, Relay!Publish, Relay!Moves
  <1> QED
    BY <1>1, <1>3 DEF Relay!RelayNext

\* A step of the relay, or none.
Relayed == [Relay!RelayNext]_(Relay!relay)

\* Every step of passes, sessions and the broker is the relay's, or none.
LEMMA StepRelays ==
    ASSUME StoredInv, LockInv, Written, [Next]_vars
    PROVE  Relayed
  <1>1. TypeOK /\ \A p \in Publishers : \A e \in Events : e \in todo[p] => store[e] # "none"
    BY DEF StoredInv, LockInv, Written
  <1>2. ASSUME UNCHANGED <<store, copies, remembered>> PROVE Relayed
    BY <1>2 DEF Relay!relay, Relayed
  <1>3. ASSUME NEW p \in Publishers, NEW e \in Events, IsNext(p, e), Unheard(e),
               store' = store
        PROVE  Relayed
    <2>1. store[e] # "none"
      BY <1>1, <1>3 DEF IsNext
    <2> QED
      BY <1>2, <1>3, <2>1, StoredIsSent DEF Unheard, streamVars, Relayed
  <1>4. ASSUME NEW p \in Publishers, CutShort(p), store' = store PROVE Relayed
    BY <1>2, <1>3, <1>4 DEF CutShort, streamVars
  <1>5. ASSUME NEW e \in Events, Append(e) PROVE Relayed
    <2>1. Relay!Write(e)
      BY <1>1, <1>5 DEF Append, TypeOK, streamVars, Relay!Write, Relay!Moves
    <2> QED
      BY <2>1 DEF Relay!RelayNext, Relayed
  <1>6. ASSUME NEW e \in Events, Retain(e) PROVE Relayed
    <2>1. Relay!Delete(e)
      BY <1>1, <1>6 DEF Retain, TypeOK, streamVars, Relay!Delete, Relay!Moves
    <2> QED
      BY <2>1 DEF Relay!RelayNext, Relayed
  <1>7. ASSUME NEW e \in Events, Forget(e) PROVE Relayed
    <2>1. Relay!ForgetId(e)
      BY <1>7 DEF Forget, dbVars, Relay!ForgetId
    <2> QED
      BY <2>1 DEF Relay!RelayNext, Relayed
  <1>8. ASSUME NEW e \in Events, LandsLate(e) PROVE Relayed
    BY <1>8, StoredIsSent DEF LandsLate, dbVars, Written, Relayed
  <1>9. ASSUME NEW p \in Publishers, NEW e \in Events, Accepted(p, e) PROVE Relayed
    BY <1>1, <1>9, StoredIsSent DEF Accepted, IsNext, dbVars, Relayed
  <1>10. ASSUME NEW p \in Publishers, NEW e \in Events, Refused(p, e) PROVE Relayed
    BY <1>3, <1>10 DEF Refused, dbVars
  <1>11. ASSUME NEW p \in Publishers, PassFails(p) \/ Stop(p) PROVE Relayed
    BY <1>4, <1>11 DEF PassFails, Stop
  <1>12. ASSUME NEW p \in Publishers, Commit(p) PROVE Relayed
    BY <1>12, CommitPublishes DEF Relayed
  <1>13. ASSUME NEW p \in Publishers, Claim(p) \/ SessionLost(p) \/ Start(p) PROVE Relayed
    BY <1>2, <1>13 DEF Claim, SessionLost, Start, dbVars, streamVars
  <1>14. ASSUME NEW e \in Events, BackoffEnds(e) PROVE Relayed
    BY <1>2, <1>14 DEF BackoffEnds, streamVars
  <1>15. CASE UNCHANGED vars
    BY <1>2, <1>15 DEF vars
  <1> QED
    BY <1>5, <1>6, <1>7, <1>8, <1>9, <1>10, <1>11, <1>12, <1>13, <1>14, <1>15
    DEF Next, Pass

\* The outbox relays each event: not before its commit, at least once before it counts
\* as published, and never back.
THEOREM RelayCorrect == Spec => RelayImplemented
  <1>1. Init => Relay!RelayInit
    BY DEF Init, Relay!RelayInit
  <1>2. Init => TypeOK /\ LockInv /\ Written
    BY DEF Init, TypeOK, Stored, LockInv, Written
  <1>3. TypeOK /\ LockInv /\ Written /\ [Next]_vars => (TypeOK /\ LockInv /\ Written)'
    BY TypeStep, LockStep, WrittenStep
  <1>4. StoredInv /\ LockInv /\ Written /\ [Next]_vars
            => [Relay!RelayNext]_(Relay!relay)
    BY StepRelays DEF Relayed
  <1> QED
    BY <1>1, <1>2, <1>3, <1>4, StoredInvCorrect, PTL
    DEF Spec, RelayImplemented, Relay!RelaySpec
=============================================================================
