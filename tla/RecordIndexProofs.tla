--------------------------- MODULE RecordIndexProofs ---------------------------
(***************************************************************************)
(* The index agrees with the records if one worker serves the queue, as    *)
(* long as no two requests write one record at the same time, every step   *)
(* of a request succeeds, and no patch and no reindex has come: for any    *)
(* number of records and requests, however often the worker dies or the    *)
(* index fails it.  And a reindex makes the index what the records are, if *)
(* requests wait for its end and the index fails at nothing in silence.    *)
(***************************************************************************)
EXTENDS RecordIndex, FiniteSetTheorems, TLAPS

OneWorker == \A k, l \in Workers : k = l

Tables ==
  /\ history \in Seq(HistoryRow)
  /\ records \in [Records -> Nat]
  /\ queue \in Seq(Afterhandler)
  /\ index \in [Records -> Nat]
  /\ writer \in [Writers -> [pc : {"idle", "destroy", "find", "create"},
                             records : SUBSET Records, history : Nat]]
  /\ worker \in [Workers -> [pc : {"idle", "handle", "synced", "error"}, row : Nat]]

Types == Tables /\ reindex = Idle

Rec(i) == history[queue[i].history].record

QueueHasHistory == \A i \in DOMAIN queue : queue[i].history \in DOMAIN history

NewestExists == \A r \in Records : RowsOf(r) # {} => Newest(RowsOf(r)) \in RowsOf(r)

\* A request has one record in hand and, before it creates the afterhandler,
\* the newest history row of it.
RequestsHold ==
  \A w \in Writers :
    /\ writer[w].pc = "idle" => writer[w].records = {}
    /\ writer[w].pc # "idle" => \E r \in Records : writer[w].records = {r} /\ RowsOf(r) # {}
    /\ writer[w].pc = "create" => \A r \in writer[w].records : writer[w].history = Newest(RowsOf(r))

OneByOne ==
  \A v, w \in Writers : v # w => writer[v].records \cap writer[w].records = {}

RecordsAreNewest ==
  \A r \in Records :
    records[r] = IF RowsOf(r) = {} THEN 0 ELSE Effect(Newest(RowsOf(r)))

\* The newest history row is the last that is queued for its record, or the
\* request that has written it is still at work.
NewestIsQueued ==
  \A r \in Records :
    \/ RowsOf(r) = {}
    \/ \E w \in Writers : r \in writer[w].records
    \/ \E i \in DOMAIN queue :
         /\ queue[i].history = Newest(RowsOf(r))
         /\ \A j \in DOMAIN queue : j > i => Rec(j) # r

\* The rows are handled in the order of the queue.
HandledInOrder ==
  \E n \in 0 .. Len(queue) : \A i \in DOMAIN queue : queue[i].synced <=> i <= n

WorkerOnFirst ==
  \A k \in Workers : worker[k].pc # "idle" =>
    /\ worker[k].row \in Waiting
    /\ \A j \in Waiting : worker[k].row <= j
    /\ worker[k].pc = "synced" => index[Rec(worker[k].row)] = Effect(queue[worker[k].row].history)

\* The last row of a record that is handled is in the index, or has failed.
LastIsApplied ==
  \A i \in DOMAIN queue :
    queue[i].synced /\ (\A j \in DOMAIN queue : j > i => Rec(j) # Rec(i))
      => index[Rec(i)] = Effect(queue[i].history) \/ queue[i].error

NothingWithoutHistory == \A r \in Records : RowsOf(r) = {} => index[r] = 0

QueueInv == QueueHasHistory /\ NewestIsQueued /\ HandledInOrder
IndexInv == WorkerOnFirst /\ LastIsApplied /\ NothingWithoutHistory
RequestInv == NewestExists /\ RequestsHold /\ OneByOne /\ RecordsAreNewest

XInv == Types /\ RequestInv /\ QueueInv /\ IndexInv

-------------------------------------------------------------------------------
LEMMA NewestIsMax ==
  ASSUME NEW S \in SUBSET Nat, NEW m \in S, \A g \in S : g <= m
  PROVE  Newest(S) = m
  <1>1. Newest(S) \in S /\ \A g \in S : g <= Newest(S)
    <2>1. \E h \in S : \A g \in S : g <= h
      OBVIOUS
    <2> QED
      BY <2>1, Zenon DEF Newest
  <1>2. m <= Newest(S) /\ Newest(S) <= m /\ Newest(S) \in Nat /\ m \in Nat
    BY <1>1
  <1> QED
    BY <1>2

(***************************************************************************)
(* What a new history row changes: it is the newest of its record, and     *)
(* everything that is known of the other rows stays.                       *)
(***************************************************************************)
LEMMA NewRow ==
  ASSUME Tables, NEW r \in Records, NEW d \in BOOLEAN,
         history' = Append(history, [record |-> r, delete |-> d])
  PROVE  /\ history' \in Seq(HistoryRow)
         /\ DOMAIN history' = DOMAIN history \cup {Len(history) + 1}
         /\ Len(history) + 1 \notin DOMAIN history
         /\ \A h \in DOMAIN history : history'[h] = history[h]
         /\ history'[Len(history) + 1] = [record |-> r, delete |-> d]
         /\ RowsOf(r)' = RowsOf(r) \cup {Len(history) + 1}
         /\ \A q \in Records : q # r => RowsOf(q)' = RowsOf(q)
         /\ Newest(RowsOf(r)') = Len(history) + 1
  <1> DEFINE row == [record |-> r, delete |-> d]
  <1>1. row \in HistoryRow /\ history \in Seq(HistoryRow) /\ Len(history) \in Nat
    BY DEF Types, Tables, HistoryRow
  <1>2. /\ history' \in Seq(HistoryRow)
        /\ Len(history') = Len(history) + 1
        /\ DOMAIN history = 1 .. Len(history)
        /\ DOMAIN history' = 1 .. Len(history) + 1
    BY <1>1
  <1>3. DOMAIN history' = DOMAIN history \cup {Len(history) + 1}
        /\ Len(history) + 1 \notin DOMAIN history
    BY <1>1, <1>2
  <1>4. /\ \A h \in DOMAIN history : history'[h] = history[h]
        /\ history'[Len(history) + 1] = row
    BY <1>1, <1>2
  <1>5. RowsOf(r)' = RowsOf(r) \cup {Len(history) + 1}
    BY <1>3, <1>4 DEF RowsOf
  <1>6. \A q \in Records : q # r => RowsOf(q)' = RowsOf(q)
    BY <1>3, <1>4 DEF RowsOf
  <1>7. Newest(RowsOf(r)') = Len(history) + 1
    <2>1. RowsOf(r)' \in SUBSET Nat /\ Len(history) + 1 \in RowsOf(r)'
          /\ \A g \in RowsOf(r)' : g <= Len(history) + 1
      BY <1>1, <1>2, <1>5 DEF RowsOf
    <2> QED
      BY <2>1, NewestIsMax
  <1> QED
    BY <1>2, <1>3, <1>4, <1>5, <1>6, <1>7

(***************************************************************************)
(* A request that writes a record it has in hand, or takes in hand.        *)
(***************************************************************************)
LEMMA WriteStep ==
  ASSUME XInv, NEW w \in Writers, NEW r \in Records, NEW d \in BOOLEAN,
         NEW p \in {"find", "destroy"}, NEW n \in Nat,
         history' = Append(history, [record |-> r, delete |-> d]),
         records' = [records EXCEPT ![r] = IF d THEN 0 ELSE Len(history) + 1],
         writer' = [writer EXCEPT ![w] = [pc |-> p, records |-> {r}, history |-> n]],
         \A v \in Writers : v # w => r \notin writer[v].records,
         writer[w].records \subseteq {r},
         UNCHANGED <<queue, index, worker, reindex>>
  PROVE  XInv'
  <1>0. PICK new \in Nat : new = Len(history) + 1
    BY DEF XInv, Types, Tables
  <1>1. /\ history' \in Seq(HistoryRow)
        /\ DOMAIN history' = DOMAIN history \cup {new}
        /\ new \notin DOMAIN history
        /\ \A h \in DOMAIN history : history'[h] = history[h]
        /\ history'[new] = [record |-> r, delete |-> d]
        /\ RowsOf(r)' = RowsOf(r) \cup {new}
        /\ \A q \in Records : q # r => RowsOf(q)' = RowsOf(q)
        /\ Newest(RowsOf(r)') = new
    BY <1>0, NewRow DEF XInv, Types
  <1>3. Types'
    <2>1. records' \in [Records -> Nat]
      BY <1>0 DEF XInv, Types, Tables
    <2>2. writer' \in [Writers -> [pc : {"idle", "destroy", "find", "create"},
                                   records : SUBSET Records, history : Nat]]
      BY DEF XInv, Types, Tables
    <2> QED
      BY <1>1, <2>1, <2>2 DEF XInv, Types, Tables
  <1>4. \A q \in Records : q # r => Newest(RowsOf(q))' = Newest(RowsOf(q))
    BY <1>1
  <1>5. Newest(RowsOf(r))' = new
    BY <1>1
  <1>6. \A q \in Records : RowsOf(q) \subseteq DOMAIN history
    BY DEF RowsOf
  <1>7. \A h \in DOMAIN history : Effect(h)' = Effect(h)
    BY <1>1 DEF Effect
  <1>8. Effect(new)' = IF d THEN 0 ELSE new
    BY <1>1 DEF Effect
  <1>9. NewestExists'
    BY <1>1, <1>4, <1>5 DEF XInv, RequestInv, NewestExists
  <1>10. /\ writer'[w] = [pc |-> p, records |-> {r}, history |-> n]
         /\ \A v \in Writers : v # w => writer'[v] = writer[v]
    BY DEF XInv, Types, Tables
  <1>11. RequestsHold'
    <2> SUFFICES ASSUME NEW v \in Writers
                 PROVE  /\ writer'[v].pc = "idle" => writer'[v].records = {}
                        /\ writer'[v].pc # "idle" =>
                             \E q \in Records : writer'[v].records = {q} /\ RowsOf(q)' # {}
                        /\ writer'[v].pc = "create" =>
                             \A q \in writer'[v].records : writer'[v].history = Newest(RowsOf(q))'
      BY DEF RequestsHold
    <2>1. CASE v = w
      <3>1. RowsOf(r)' # {} /\ p # "idle" /\ p # "create"
        BY <1>1
      <3> QED
        BY <2>1, <3>1, <1>10
    <2>2. CASE v # w
      <3>1. writer'[v] = writer[v] /\ writer[v].records \subseteq Records /\ r \notin writer[v].records
        BY <2>2, <1>10 DEF XInv, Types, Tables
      <3> QED
        BY <3>1, <1>1, <1>4 DEF XInv, RequestInv, RequestsHold
    <2> QED
      BY <2>1, <2>2
  <1>12. OneByOne'
    BY <1>10 DEF XInv, RequestInv, OneByOne
  <1>13. RecordsAreNewest'
    <2> SUFFICES ASSUME NEW q \in Records
                 PROVE  records'[q] = IF RowsOf(q)' = {} THEN 0 ELSE Effect(Newest(RowsOf(q)))'
      BY DEF RecordsAreNewest
    <2>1. CASE q = r
      BY <2>1, <1>0, <1>1, <1>5, <1>8 DEF XInv, Types, Tables
    <2>2. CASE q # r
      <3>1. records'[q] = records[q] /\ RowsOf(q)' = RowsOf(q)
        BY <2>2, <1>1 DEF XInv, Types, Tables
      <3>2. ASSUME RowsOf(q) # {}  PROVE Effect(Newest(RowsOf(q)))' = Effect(Newest(RowsOf(q)))
        <4>1. Newest(RowsOf(q)) \in DOMAIN history
          BY <3>2, <1>6 DEF XInv, RequestInv, NewestExists
        <4> QED
          BY <4>1, <2>2, <1>1, <1>4 DEF Effect
      <3> QED
        BY <3>1, <3>2 DEF XInv, RequestInv, RecordsAreNewest
    <2> QED
      BY <2>1, <2>2
  <1>14. \A i \in DOMAIN queue : /\ queue[i].history \in DOMAIN history
                                 /\ Rec(i)' = Rec(i)
                                 /\ Effect(queue[i].history)' = Effect(queue[i].history)
    BY <1>1 DEF XInv, QueueInv, QueueHasHistory, Rec, Effect
  <1>15. NewestIsQueued'
    <2> SUFFICES ASSUME NEW q \in Records
                 PROVE  \/ RowsOf(q)' = {}
                        \/ \E v \in Writers : q \in writer'[v].records
                        \/ \E i \in DOMAIN queue' :
                             /\ queue'[i].history = Newest(RowsOf(q))'
                             /\ \A j \in DOMAIN queue' : j > i => Rec(j)' # q
      BY DEF NewestIsQueued
    <2>1. CASE q = r
      BY <2>1, <1>10
    <2>2. CASE q # r
      BY <2>2, <1>1, <1>4, <1>10, <1>14 DEF XInv, QueueInv, NewestIsQueued
    <2> QED
      BY <2>1, <2>2
  <1>16. QueueHasHistory' /\ HandledInOrder'
    BY <1>1 DEF XInv, QueueInv, QueueHasHistory, HandledInOrder
  <1>17. WorkerOnFirst'
    BY <1>14 DEF XInv, IndexInv, WorkerOnFirst, Waiting
  <1>18. LastIsApplied'
    BY <1>14 DEF XInv, IndexInv, LastIsApplied
  <1>19. NothingWithoutHistory'
    BY <1>1 DEF XInv, IndexInv, NothingWithoutHistory
  <1> QED
    BY <1>3, <1>9, <1>11, <1>12, <1>13, <1>15, <1>16, <1>17, <1>18, <1>19
    DEF XInv, RequestInv, QueueInv, IndexInv


\* A request that writes nothing leaves the queue and the index as they are.
LEMMA TablesStay ==
  ASSUME XInv, UNCHANGED <<history, queue, index, worker, reindex>>
  PROVE  QueueHasHistory' /\ HandledInOrder' /\ IndexInv' /\ NewestExists'
  BY DEF XInv, QueueInv, IndexInv, RequestInv, QueueHasHistory, HandledInOrder, WorkerOnFirst,
         LastIsApplied, NothingWithoutHistory, NewestExists, RowsOf, Rec, Effect, Waiting

LEMMA FindStep ==
  ASSUME XInv, NEW w \in Writers, NEW r \in Records, FindHistory(w, r)
  PROVE  XInv'
  <1> DEFINE newest == Newest(RowsOf(r))
             found == [pc |-> "create", records |-> {r}, history |-> newest]
  <1>1. /\ writer[w].pc = "find" /\ r \in writer[w].records
        /\ writer' = [writer EXCEPT ![w] = found]
        /\ UNCHANGED <<history, records, queue, index, worker, reindex>>
    BY DEF FindHistory
  <1>2. writer[w].records = {r} /\ RowsOf(r) # {}
    BY <1>1 DEF XInv, RequestInv, RequestsHold
  <1>3. newest \in Nat
    <2>1. newest \in RowsOf(r)
      BY <1>2 DEF XInv, RequestInv, NewestExists
    <2>2. RowsOf(r) \subseteq Nat
      BY DEF XInv, Types, Tables, RowsOf
    <2> QED
      BY <2>1, <2>2
  <1> HIDE DEF newest
  <1>5. /\ writer'[w] = [pc |-> "create", records |-> {r}, history |-> newest]
        /\ \A v \in Writers : v # w => writer'[v] = writer[v]
        /\ \A v \in Writers : writer'[v].records = writer[v].records
    BY <1>1, <1>2 DEF XInv, Types, Tables
  <1>6. Types'
    BY <1>1, <1>3 DEF XInv, Types, Tables
  <1>7. \A q \in Records : RowsOf(q)' = RowsOf(q) /\ Newest(RowsOf(q))' = Newest(RowsOf(q))
    BY <1>1 DEF RowsOf
  <1>8. RequestsHold'
    <2> SUFFICES ASSUME NEW v \in Writers
                 PROVE  /\ writer'[v].pc = "idle" => writer'[v].records = {}
                        /\ writer'[v].pc # "idle" =>
                             \E q \in Records : writer'[v].records = {q} /\ RowsOf(q)' # {}
                        /\ writer'[v].pc = "create" =>
                             \A q \in writer'[v].records : writer'[v].history = Newest(RowsOf(q))'
      BY DEF RequestsHold
    <2>1. CASE v = w
      BY <2>1, <1>2, <1>5, <1>7 DEF newest
    <2>2. CASE v # w
      <3>1. writer'[v] = writer[v] /\ writer[v].records \subseteq Records
        BY <2>2, <1>5 DEF XInv, Types, Tables
      <3> QED
        BY <3>1, <1>7 DEF XInv, RequestInv, RequestsHold
    <2> QED
      BY <2>1, <2>2
  <1>9. OneByOne'
    BY <1>5 DEF XInv, RequestInv, OneByOne
  <1>10. RecordsAreNewest'
    BY <1>1, <1>7 DEF XInv, RequestInv, RecordsAreNewest, Effect
  <1>11. NewestIsQueued'
    BY <1>1, <1>5, <1>7 DEF XInv, QueueInv, NewestIsQueued, Rec
  <1> QED
    BY <1>1, <1>6, <1>8, <1>9, <1>10, <1>11, TablesStay DEF XInv, RequestInv, QueueInv

LEMMA CreateStep ==
  ASSUME XInv, NEW w \in Writers, CreateAfterhandler(w)
  PROVE  XInv'
  <1> DEFINE row == [history |-> writer[w].history, synced |-> FALSE, error |-> FALSE]
  <1>1. /\ writer[w].pc = "create"
        /\ queue' = Append(queue, row)
        /\ writer' = [writer EXCEPT ![w] = IdleWriter]
        /\ UNCHANGED <<history, records, index, worker, reindex>>
    BY DEF CreateAfterhandler
  <1>2. PICK r \in Records : writer[w].records = {r} /\ RowsOf(r) # {}
    BY <1>1 DEF XInv, RequestInv, RequestsHold
  <1>3. writer[w].history = Newest(RowsOf(r))
    BY <1>1, <1>2 DEF XInv, RequestInv, RequestsHold
  <1>4. writer[w].history \in RowsOf(r) /\ writer[w].history \in DOMAIN history
    BY <1>2, <1>3 DEF XInv, RequestInv, NewestExists, RowsOf
  <1>5. PICK last \in Nat : last = Len(queue) + 1
    BY DEF XInv, Types, Tables
  <1>6. row \in Afterhandler /\ queue \in Seq(Afterhandler)
    BY <1>4 DEF XInv, Types, Tables, Afterhandler
  <1>7. /\ queue' \in Seq(Afterhandler)
        /\ Len(queue') = last
        /\ DOMAIN queue = 1 .. last - 1
        /\ DOMAIN queue' = 1 .. last
        /\ \A i \in DOMAIN queue : queue'[i] = queue[i]
        /\ queue'[last] = row
    BY <1>1, <1>5, <1>6
  <1>8. /\ row.history = Newest(RowsOf(r)) /\ row.history \in RowsOf(r)
        /\ row.history \in DOMAIN history /\ row.synced = FALSE
    BY <1>3, <1>4
  <1> HIDE DEF row
  <1>9. /\ writer'[w] = IdleWriter
        /\ \A v \in Writers : v # w => writer'[v] = writer[v]
    BY <1>1 DEF XInv, Types, Tables
  <1>10. Types'
    BY <1>1, <1>7 DEF XInv, Types, Tables, IdleWriter
  <1>11. /\ \A q \in Records : RowsOf(q)' = RowsOf(q) /\ Newest(RowsOf(q))' = Newest(RowsOf(q))
         /\ \A h : Effect(h)' = Effect(h)
    BY <1>1 DEF RowsOf, Effect
  <1>12. /\ \A i \in DOMAIN queue : Rec(i)' = Rec(i)
         /\ Rec(last)' = r
    BY <1>1, <1>7, <1>8 DEF Rec, RowsOf
  <1>13. NewestExists' /\ RecordsAreNewest' /\ NothingWithoutHistory'
    BY <1>1, <1>11 DEF XInv, RequestInv, IndexInv, NewestExists, RecordsAreNewest, NothingWithoutHistory
  <1>14. RequestsHold'
    <2> SUFFICES ASSUME NEW v \in Writers
                 PROVE  /\ writer'[v].pc = "idle" => writer'[v].records = {}
                        /\ writer'[v].pc # "idle" =>
                             \E q \in Records : writer'[v].records = {q} /\ RowsOf(q)' # {}
                        /\ writer'[v].pc = "create" =>
                             \A q \in writer'[v].records : writer'[v].history = Newest(RowsOf(q))'
      BY DEF RequestsHold
    <2>1. CASE v = w
      BY <2>1, <1>9 DEF IdleWriter
    <2>2. CASE v # w
      <3>1. writer'[v] = writer[v] /\ writer[v].records \subseteq Records
        BY <2>2, <1>9 DEF XInv, Types, Tables
      <3> QED
        BY <3>1, <1>11 DEF XInv, RequestInv, RequestsHold
    <2> QED
      BY <2>1, <2>2
  <1>15. OneByOne'
    BY <1>9 DEF XInv, RequestInv, OneByOne, IdleWriter
  <1>16. QueueHasHistory'
    BY <1>1, <1>7, <1>8 DEF XInv, QueueInv, QueueHasHistory
  <1>17. NewestIsQueued'
    <2> SUFFICES ASSUME NEW q \in Records
                 PROVE  \/ RowsOf(q)' = {}
                        \/ \E v \in Writers : q \in writer'[v].records
                        \/ \E i \in DOMAIN queue' :
                             /\ queue'[i].history = Newest(RowsOf(q))'
                             /\ \A j \in DOMAIN queue' : j > i => Rec(j)' # q
      BY DEF NewestIsQueued
    <2>1. CASE q = r
      <3>1. last \in DOMAIN queue' /\ \A j \in DOMAIN queue' : ~(j > last)
        BY <1>5, <1>7
      <3> QED
        BY <2>1, <3>1, <1>7, <1>8, <1>11
    <2>2. CASE q # r
      <3>1. CASE RowsOf(q) = {}
        BY <3>1, <1>11
      <3>2. CASE \E v \in Writers : q \in writer[v].records
        BY <3>2, <2>2, <1>2, <1>9
      <3>3. ASSUME NEW i \in DOMAIN queue, queue[i].history = Newest(RowsOf(q)),
                   \A j \in DOMAIN queue : j > i => Rec(j) # q
            PROVE  /\ i \in DOMAIN queue' /\ queue'[i].history = Newest(RowsOf(q))'
                   /\ \A j \in DOMAIN queue' : j > i => Rec(j)' # q
        <4>1. \A j \in DOMAIN queue' : j \in DOMAIN queue \/ j = last
          BY <1>7
        <4> QED
          BY <4>1, <3>3, <2>2, <1>7, <1>11, <1>12
      <3> QED
        BY <3>1, <3>2, <3>3 DEF XInv, QueueInv, NewestIsQueued
    <2> QED
      BY <2>1, <2>2
  <1>18. HandledInOrder'
    <2>1. PICK n \in 0 .. Len(queue) : \A i \in DOMAIN queue : queue[i].synced <=> i <= n
      BY DEF XInv, QueueInv, HandledInOrder
    <2>2. n \in 0 .. Len(queue') /\ ~(last <= n)
      BY <1>5, <1>7, <1>6
    <2>3. \A i \in DOMAIN queue' : queue'[i].synced <=> i <= n
      <3>1. \A j \in DOMAIN queue' : j \in DOMAIN queue \/ j = last
        BY <1>7
      <3> QED
        BY <2>1, <2>2, <3>1, <1>7, <1>8
    <2> QED
      BY <2>2, <2>3 DEF HandledInOrder
  <1>19. Waiting' = Waiting \cup {last} /\ \A j \in Waiting : j < last
    <2>1. last \in DOMAIN queue' /\ DOMAIN queue' = DOMAIN queue \cup {last}
      BY <1>5, <1>7
    <2>2. \A j \in DOMAIN queue : j < last
      BY <1>5, <1>7
    <2> QED
      BY <2>1, <2>2, <1>7, <1>8 DEF Waiting
  <1>20. WorkerOnFirst'
    <2>0. worker' = worker /\ index' = index /\ \A k \in Workers : worker[k].row \in Nat
      BY <1>1 DEF XInv, Types, Tables
    <2> SUFFICES ASSUME NEW k \in Workers, NEW i \in Nat, worker[k].pc # "idle", i = worker[k].row
                 PROVE  /\ i \in Waiting'
                        /\ \A j \in Waiting' : i <= j
                        /\ worker[k].pc = "synced" => index[Rec(i)'] = Effect(queue[i].history)'
      BY <2>0 DEF WorkerOnFirst, Rec, Effect
    <2>1. /\ i \in Waiting
          /\ \A j \in Waiting : i <= j
          /\ worker[k].pc = "synced" => index[Rec(i)] = Effect(queue[i].history)
      BY DEF XInv, IndexInv, WorkerOnFirst
    <2>2. i \in DOMAIN queue /\ i <= last
      BY <2>1, <1>19 DEF Waiting
    <2>3. queue'[i].history = queue[i].history /\ Rec(i)' = Rec(i)
      BY <2>2, <1>7, <1>12
    <2> QED
      BY <2>1, <2>2, <2>3, <1>19, <1>1 DEF Effect
  <1>21. LastIsApplied'
    <2> SUFFICES ASSUME NEW i \in DOMAIN queue', queue'[i].synced,
                        \A j \in DOMAIN queue' : j > i => Rec(j)' # Rec(i)'
                 PROVE  index[Rec(i)'] = Effect(queue[i].history)' \/ queue'[i].error
      BY <1>1 DEF LastIsApplied, Rec, Effect
    <2>1. i \in DOMAIN queue
      BY <1>7, <1>8
    <2>2. \A j \in DOMAIN queue : j \in DOMAIN queue' /\ Rec(j)' = Rec(j)
      BY <1>7, <1>12
    <2>3. queue[i].synced /\ \A j \in DOMAIN queue : j > i => Rec(j) # Rec(i)
      BY <2>1, <2>2, <1>7
    <2>4. index[Rec(i)] = Effect(queue[i].history) \/ queue[i].error
      BY <2>1, <2>3 DEF XInv, IndexInv, LastIsApplied
    <2>5. queue'[i] = queue[i] /\ Rec(i)' = Rec(i)
      BY <2>1, <1>7, <1>12
    <2> QED
      BY <2>4, <2>5, <1>1 DEF Effect
  <1> QED
    BY <1>10, <1>13, <1>14, <1>15, <1>16, <1>17, <1>18, <1>20, <1>21
    DEF XInv, RequestInv, QueueInv, IndexInv

-------------------------------------------------------------------------------
(* The worker.                                                             *)

LEMMA RequestsStay ==
  ASSUME XInv, UNCHANGED <<history, records, writer>>
  PROVE  RequestInv'
  <1>1. \A r \in Records : RowsOf(r)' = RowsOf(r) /\ Newest(RowsOf(r))' = Newest(RowsOf(r))
    BY DEF RowsOf
  <1>2. NewestExists' /\ RecordsAreNewest'
    BY <1>1 DEF XInv, RequestInv, NewestExists, RecordsAreNewest, Effect
  <1>3. RequestsHold'
    <2>1. \A w \in Writers : writer[w].records \subseteq Records
      BY DEF XInv, Types, Tables
    <2> QED
      BY <1>1, <2>1 DEF XInv, RequestInv, RequestsHold
  <1>4. OneByOne'
    BY DEF XInv, RequestInv, OneByOne
  <1> QED
    BY <1>2, <1>3, <1>4 DEF RequestInv

LEMMA QueueStays ==
  ASSUME XInv, UNCHANGED <<history, writer, queue>>
  PROVE  QueueInv'
  <1>1. \A r \in Records : RowsOf(r)' = RowsOf(r) /\ Newest(RowsOf(r))' = Newest(RowsOf(r))
    BY DEF RowsOf
  <1>2. NewestIsQueued'
    BY <1>1 DEF XInv, QueueInv, NewestIsQueued, Rec
  <1> QED
    BY <1>2 DEF XInv, QueueInv, QueueHasHistory, HandledInOrder

LEMMA FirstIsLeast ==
  ASSUME XInv, Waiting # {}
  PROVE  First \in Waiting /\ \A j \in Waiting : First <= j
  <1>1. PICK n \in 0 .. Len(queue) : \A i \in DOMAIN queue : queue[i].synced <=> i <= n
    BY DEF XInv, QueueInv, HandledInOrder
  <1>2. DOMAIN queue = 1 .. Len(queue) /\ Len(queue) \in Nat
    BY DEF XInv, Types, Tables
  <1>3. n + 1 \in Waiting /\ \A j \in Waiting : n + 1 <= j
    BY <1>1, <1>2 DEF Waiting
  <1>4. \E i \in Waiting : \A j \in Waiting : i <= j
    BY <1>3
  <1> QED
    BY <1>4, Zenon DEF First

\* The worker is at a row of the queue that is not handled yet.
LEMMA RowInHand ==
  ASSUME XInv, NEW k \in Workers, worker[k].pc # "idle"
  PROVE  /\ worker[k].row \in DOMAIN queue /\ ~queue[worker[k].row].synced
         /\ \A i \in DOMAIN queue : queue[i].synced => i < worker[k].row
         /\ queue[worker[k].row].history \in DOMAIN history
         /\ Rec(worker[k].row) \in Records
         /\ RowsOf(Rec(worker[k].row)) # {}
  <1> DEFINE m == worker[k].row
  <1>1. m \in DOMAIN queue /\ ~queue[m].synced /\ DOMAIN queue \subseteq Nat
    BY DEF XInv, Types, Tables, IndexInv, WorkerOnFirst, Waiting
  <1>2. \A i \in DOMAIN queue : queue[i].synced => i < m
    <2>1. PICK n \in 0 .. Len(queue) : \A i \in DOMAIN queue : queue[i].synced <=> i <= n
      BY DEF XInv, QueueInv, HandledInOrder
    <2>2. n \in Nat /\ ~(m <= n)
      BY <1>1, <2>1 DEF XInv, Types, Tables
    <2> QED
      BY <1>1, <2>1, <2>2
  <1>3. queue[m].history \in DOMAIN history
    BY <1>1 DEF XInv, QueueInv, QueueHasHistory
  <1>4. history[queue[m].history].record \in Records
    <2>1. history[queue[m].history] \in HistoryRow
      BY <1>3 DEF XInv, Types, Tables
    <2> QED
      BY <2>1 DEF HistoryRow
  <1>5. queue[m].history \in RowsOf(Rec(m))
    BY <1>3 DEF RowsOf, Rec
  <1> QED
    BY <1>1, <1>2, <1>3, <1>4, <1>5 DEF Rec

\* What is written to the index at a row that is not handled yet disturbs no
\* row that is.
LEMMA IndexWrite ==
  ASSUME XInv, NEW k \in Workers, worker[k].pc # "idle",
         index' \in {index, [index EXCEPT ![Rec(worker[k].row)] = Effect(queue[worker[k].row].history)]},
         UNCHANGED <<history, queue>>
  PROVE  LastIsApplied' /\ NothingWithoutHistory' /\ index' \in [Records -> Nat]
  <1> DEFINE m == worker[k].row
  <1>1. /\ m \in DOMAIN queue
        /\ \A i \in DOMAIN queue : queue[i].synced => i < m
        /\ queue[m].history \in DOMAIN history
        /\ Rec(m) \in Records /\ RowsOf(Rec(m)) # {}
    BY RowInHand
  <1>2. Effect(queue[m].history) \in Nat
    BY <1>1 DEF Effect, XInv, Types, Tables
  <1>3. index \in [Records -> Nat]
    BY DEF XInv, Types, Tables
  <1>4. index' \in [Records -> Nat] /\ \A r \in Records : r # Rec(m) => index'[r] = index[r]
    BY <1>1, <1>2, <1>3
  <1>5. NothingWithoutHistory'
    BY <1>1, <1>4 DEF XInv, IndexInv, NothingWithoutHistory, RowsOf
  <1>6. \A i \in DOMAIN queue : Rec(i) \in Records
    <2>1. \A h \in DOMAIN history : history[h] \in HistoryRow
      BY DEF XInv, Types, Tables
    <2>2. \A h \in DOMAIN history : history[h].record \in Records
      BY <2>1 DEF HistoryRow
    <2> QED
      BY <2>2 DEF XInv, QueueInv, QueueHasHistory, Rec
  <1>7. LastIsApplied'
    <2> SUFFICES ASSUME NEW i \in DOMAIN queue, queue[i].synced,
                        \A j \in DOMAIN queue : j > i => Rec(j) # Rec(i)
                 PROVE  index'[Rec(i)] = Effect(queue[i].history) \/ queue[i].error
      BY DEF LastIsApplied, Rec, Effect
    <2>1. i < m /\ i \in Nat /\ m \in Nat
      BY <1>1 DEF XInv, Types, Tables
    <2>2. Rec(m) # Rec(i)
      BY <2>1, <1>1
    <2> QED
      BY <2>2, <1>4, <1>6 DEF XInv, IndexInv, LastIsApplied
  <1> QED
    BY <1>4, <1>5, <1>7

LEMMA TakeStep ==
  ASSUME XInv, OneWorker, NEW k \in Workers, FindFirstNotSynced(k)
  PROVE  XInv'
  <1>1. /\ Waiting # {}
        /\ worker' = [worker EXCEPT ![k] = [pc |-> "handle", row |-> First]]
        /\ UNCHANGED <<history, records, queue, index, writer, reindex>>
    BY DEF FindFirstNotSynced, FirstNotSynced
  <1>2. First \in Waiting /\ \A j \in Waiting : First <= j
    BY <1>1, FirstIsLeast
  <1>3. First \in Nat
    BY <1>2 DEF Waiting, XInv, Types, Tables
  <1>4. Types'
    BY <1>1, <1>3 DEF XInv, Types, Tables
  <1>5. Waiting' = Waiting
    BY <1>1 DEF Waiting
  <1>6. \A l \in Workers : worker'[l] = [pc |-> "handle", row |-> First]
    BY <1>1 DEF OneWorker, XInv, Types, Tables
  <1>7. WorkerOnFirst'
    BY <1>2, <1>5, <1>6 DEF WorkerOnFirst
  <1>8. LastIsApplied' /\ NothingWithoutHistory'
    BY <1>1 DEF XInv, IndexInv, LastIsApplied, NothingWithoutHistory, Rec, Effect, RowsOf
  <1> QED
    BY <1>1, <1>4, <1>7, <1>8, RequestsStay, QueueStays DEF XInv, IndexInv

LEMMA HandleStep ==
  ASSUME XInv, OneWorker, NEW k \in Workers, Handle(k) \/ HandleFails(k) \/ WorkerFails(k)
  PROVE  XInv'
  <1> DEFINE m == worker[k].row
             done == [index EXCEPT ![Rec(m)] = Effect(queue[m].history)]
  <1>1. /\ worker[k].pc # "idle"
        /\ UNCHANGED <<history, records, queue, writer, reindex>>
        /\ index' \in {index, done}
    BY DEF Handle, HandleFails, WorkerFails, Rec
  <1>2. \/ worker' = [worker EXCEPT ![k] = IdleWorker]
        \/ worker' = [worker EXCEPT ![k].pc = "error"]
        \/ worker' = [worker EXCEPT ![k].pc = "synced"] /\ index' = done
    BY DEF Handle, HandleFails, WorkerFails, Handled, Rec
  <1>3. LastIsApplied' /\ NothingWithoutHistory' /\ index' \in [Records -> Nat]
    BY <1>1, IndexWrite
  <1>4. Types'
    <2>1. worker \in [Workers -> [pc : {"idle", "handle", "synced", "error"}, row : Nat]]
      BY DEF XInv, Types, Tables
    <2>2. worker' \in [Workers -> [pc : {"idle", "handle", "synced", "error"}, row : Nat]]
      <3>1. CASE worker' = [worker EXCEPT ![k] = IdleWorker]
        BY <2>1, <3>1 DEF IdleWorker
      <3>2. CASE worker' = [worker EXCEPT ![k].pc = "error"]
        BY <2>1, <3>2
      <3>3. CASE worker' = [worker EXCEPT ![k].pc = "synced"]
        BY <2>1, <3>3
      <3> QED
        BY <1>2, <3>1, <3>2, <3>3
    <2> QED
      BY <1>1, <1>3, <2>2 DEF XInv, Types, Tables
  <1>5. PICK n \in Nat : n = m
    BY DEF XInv, Types, Tables
  <1>6. \A l \in Workers : \/ worker'[l].pc = "idle"
                           \/ /\ worker'[l].row = n
                              /\ worker'[l].pc = "synced" => index' = done
    BY <1>2, <1>5 DEF OneWorker, XInv, Types, Tables, IdleWorker
  <1>7. n \in Waiting' /\ \A j \in Waiting' : n <= j
    BY <1>1, <1>5 DEF XInv, IndexInv, WorkerOnFirst, Waiting
  <1>8. done[Rec(n)] = Effect(queue[n].history)
    BY <1>1, <1>5, RowInHand DEF XInv, Types, Tables
  <1>9. WorkerOnFirst'
    <2>1. index' = done => index'[Rec(n)'] = Effect(queue[n].history)'
      BY <1>1, <1>8 DEF Rec, Effect
    <2> QED
      BY <1>6, <1>7, <2>1 DEF WorkerOnFirst, Rec, Effect
  <1> QED
    BY <1>1, <1>3, <1>4, <1>9, RequestsStay, QueueStays DEF XInv, IndexInv

LEMMA SyncStep ==
  ASSUME XInv, OneWorker, NEW k \in Workers, SetSynced(k) \/ SetSyncedWithError(k)
  PROVE  XInv'
  <1>1. PICK m \in Nat : m = worker[k].row
    BY DEF XInv, Types, Tables
  <1>2. /\ worker[k].pc \in {"synced", "error"}
        /\ worker' = [worker EXCEPT ![k] = IdleWorker]
        /\ UNCHANGED <<history, records, index, writer, reindex>>
    BY DEF SetSynced, SetSyncedWithError
  <1>3. /\ m \in DOMAIN queue /\ ~queue[m].synced
        /\ \A i \in DOMAIN queue : queue[i].synced => i < m
        /\ queue[m].history \in DOMAIN history
    BY <1>1, <1>2, RowInHand
  <1>4. queue \in Seq(Afterhandler) /\ DOMAIN queue = 1 .. Len(queue) /\ Len(queue) \in Nat
    BY DEF XInv, Types, Tables
  <1>5. /\ queue' \in Seq(Afterhandler) /\ Len(queue') = Len(queue)
        /\ DOMAIN queue' = DOMAIN queue
        /\ \A i \in DOMAIN queue : i # m => queue'[i] = queue[i]
        /\ queue'[m].history = queue[m].history /\ queue'[m].synced
        /\ worker[k].pc = "error" => queue'[m].error
    <2> DEFINE row == [history |-> queue[m].history, synced |-> TRUE,
                       error |-> IF worker[k].pc = "error" THEN TRUE ELSE queue[m].error]
    <2>1. queue[m] \in Afterhandler
      BY <1>3, <1>4
    <2>2. row \in Afterhandler
      BY <2>1 DEF Afterhandler
    <2>3. queue' = [queue EXCEPT ![m] = row]
      BY <1>1, <2>1 DEF SetSynced, SetSyncedWithError, Afterhandler
    <2>4. row.history = queue[m].history /\ row.synced /\ (worker[k].pc = "error" => row.error)
      OBVIOUS
    <2> HIDE DEF row
    <2> QED
      BY <2>2, <2>3, <2>4, <1>3, <1>4
  <1>6. Types'
    BY <1>2, <1>5 DEF XInv, Types, Tables, IdleWorker
  <1>7. \A i \in DOMAIN queue : queue'[i].history = queue[i].history /\ Rec(i)' = Rec(i)
    BY <1>2, <1>5 DEF Rec
  <1>8. \A r \in Records : RowsOf(r)' = RowsOf(r) /\ Newest(RowsOf(r))' = Newest(RowsOf(r))
    BY <1>2 DEF RowsOf
  <1>9. QueueHasHistory'
    BY <1>2, <1>5, <1>7 DEF XInv, QueueInv, QueueHasHistory
  <1>10. NewestIsQueued'
    BY <1>2, <1>5, <1>7, <1>8 DEF XInv, QueueInv, NewestIsQueued
  <1>11. HandledInOrder'
    <2>1. PICK n \in 0 .. Len(queue) : \A i \in DOMAIN queue : queue[i].synced <=> i <= n
      BY DEF XInv, QueueInv, HandledInOrder
    <2>2. m = n + 1
      <3>1. ~(m <= n) /\ m <= Len(queue) /\ n \in Nat
        BY <2>1, <1>3, <1>4
      <3>2. n + 1 \in DOMAIN queue /\ ~queue[n + 1].synced
        BY <3>1, <2>1, <1>4
      <3>3. m <= n + 1
        BY <3>2, <1>1, <1>2 DEF XInv, IndexInv, WorkerOnFirst, Waiting
      <3> QED
        BY <3>1, <3>3
    <2>3. m \in 0 .. Len(queue') /\ \A i \in DOMAIN queue' : queue'[i].synced <=> i <= m
      BY <2>1, <2>2, <1>3, <1>4, <1>5
    <2> QED
      BY <2>3 DEF HandledInOrder
  <1>12. WorkerOnFirst'
    BY <1>2 DEF WorkerOnFirst, OneWorker, IdleWorker, XInv, Types, Tables
  <1>13. LastIsApplied'
    <2> SUFFICES ASSUME NEW i \in DOMAIN queue, queue'[i].synced,
                        \A j \in DOMAIN queue : j > i => Rec(j) # Rec(i)
                 PROVE  index[Rec(i)] = Effect(queue[i].history) \/ queue'[i].error
      BY <1>2, <1>5, <1>7 DEF LastIsApplied, Effect
    <2>1. CASE i = m
      BY <2>1, <1>1, <1>2, <1>5 DEF XInv, IndexInv, WorkerOnFirst
    <2>2. CASE i # m
      BY <2>2, <1>5 DEF XInv, IndexInv, LastIsApplied
    <2> QED
      BY <2>1, <2>2
  <1>14. NothingWithoutHistory'
    BY <1>2, <1>8 DEF XInv, IndexInv, NothingWithoutHistory
  <1> QED
    BY <1>2, <1>6, <1>9, <1>10, <1>11, <1>12, <1>13, <1>14, RequestsStay DEF XInv, QueueInv, IndexInv

-------------------------------------------------------------------------------
LEMMA RequestStep ==
  ASSUME XInv, orderly', NEW w \in Writers, NEW r \in Records,
         Save(w, r) \/ Delete(w, r) \/ Destroy(w, r)
  PROVE  XInv'
  <1>1. CASE Save(w, r) \/ Delete(w, r)
    <2>1. PICK p \in {"find", "destroy"} :
            writer' = [writer EXCEPT ![w] = [pc |-> p, records |-> {r}, history |-> 0]]
      BY <1>1 DEF Save, Delete
    <2>2. /\ history' = Append(history, [record |-> r, delete |-> FALSE])
          /\ records' = [records EXCEPT ![r] = Len(history) + 1]
          /\ UNCHANGED <<queue, index, worker, reindex>>
          /\ MayWrite(w, r)
          /\ Alone(r)
      BY <1>1 DEF Save, Delete, Store
    <2>3. \A v \in Writers : r \notin writer[v].records
      BY <2>2 DEF Alone
    <2>4. writer[w].records = {}
      BY <2>2 DEF MayWrite, XInv, RequestInv, RequestsHold
    <2> QED
      BY <2>1, <2>2, <2>3, <2>4, WriteStep
  <1>2. CASE Destroy(w, r) /\ records[r] # 0
    <2>1. /\ writer[w].pc = "destroy" /\ r \in writer[w].records
          /\ history' = Append(history, [record |-> r, delete |-> TRUE])
          /\ records' = [records EXCEPT ![r] = 0]
          /\ writer' = [writer EXCEPT ![w] = [pc |-> "find", records |-> {r}, history |-> 0]]
          /\ UNCHANGED <<queue, index, worker, reindex>>
      BY <1>2 DEF Destroy
    <2>2. writer[w].records = {r}
      BY <2>1 DEF XInv, RequestInv, RequestsHold
    <2>5. \A v \in Writers : v # w => r \notin writer[v].records
      BY <2>2 DEF XInv, RequestInv, OneByOne
    <2> QED
      BY <2>1, <2>2, <2>5, WriteStep
  <1>3. CASE Destroy(w, r) /\ records[r] = 0
    <2>1. /\ writer[w].pc = "destroy" /\ r \in writer[w].records
          /\ writer' = [writer EXCEPT ![w] = [pc |-> "find", records |-> {r}, history |-> 0]]
          /\ UNCHANGED <<history, records, queue, index, worker, reindex>>
      BY <1>3 DEF Destroy, XInv, Types, Tables
    <2>0. writer[w].records = {r}
      BY <2>1 DEF XInv, RequestInv, RequestsHold
    <2>2. /\ writer' \in [Writers -> [pc : {"idle", "destroy", "find", "create"},
                                      records : SUBSET Records, history : Nat]]
          /\ writer'[w].pc = "find"
          /\ \A v \in Writers : writer'[v].records = writer[v].records
          /\ \A v \in Writers : v # w => writer'[v] = writer[v]
      <3>1. writer \in [Writers -> [pc : {"idle", "destroy", "find", "create"},
                                    records : SUBSET Records, history : Nat]]
        BY DEF XInv, Types, Tables
      <3>2. writer'[w] = [pc |-> "find", records |-> {r}, history |-> 0]
            /\ \A v \in Writers : v # w => writer'[v] = writer[v]
        BY <2>1, <3>1
      <3>3. \A v \in Writers : writer'[v].records = writer[v].records
        BY <2>0, <3>2
      <3> QED
        BY <2>1, <3>1, <3>2, <3>3
    <2>3. Types'
      BY <2>1, <2>2 DEF XInv, Types, Tables
    <2>4. \A q \in Records : RowsOf(q)' = RowsOf(q) /\ Newest(RowsOf(q))' = Newest(RowsOf(q))
      BY <2>1 DEF RowsOf
    <2>5. RequestsHold'
      <3>1. \A v \in Writers : writer[v].records \subseteq Records
        BY DEF XInv, Types, Tables
      <3> QED
        BY <2>1, <2>2, <2>4, <3>1 DEF XInv, RequestInv, RequestsHold
    <2>6. OneByOne' /\ RecordsAreNewest'
      BY <2>1, <2>2, <2>4 DEF XInv, RequestInv, OneByOne, RecordsAreNewest, Effect
    <2>7. NewestIsQueued'
      BY <2>1, <2>2, <2>4 DEF XInv, QueueInv, NewestIsQueued, Rec
    <2> QED
      BY <2>1, <2>3, <2>5, <2>6, <2>7, TablesStay DEF XInv, RequestInv, QueueInv
  <1> QED
    BY <1>1, <1>2, <1>3

LEMMA XStep ==
  ASSUME XInv, OneWorker, [Next]_vars, orderly'
  PROVE  XInv'
  <1>1. ASSUME NEW w \in Writers, NEW r \in Records,
               Save(w, r) \/ UpdatePatch(w, r) \/ Delete(w, r)
        PROVE  XInv'
    <2>1. ~UpdatePatch(w, r)
      BY DEF UpdatePatch
    <2> QED
      BY <1>1, <2>1, RequestStep
  <1>2. ASSUME NEW w \in Writers, Request(w) \/ RequestFails(w)  PROVE XInv'
    <2>1. ~RequestFails(w)
      BY DEF RequestFails
    <2> QED
      BY <1>2, <2>1, RequestStep, FindStep, CreateStep DEF Request
  <1>3. ASSUME NEW k \in Workers, Round(k) \/ HandleFails(k) \/ WorkerFails(k)  PROVE XInv'
    BY <1>3, TakeStep, HandleStep, SyncStep DEF Round
  <1>4. ~ReindexStart
    BY DEF ReindexStart
  <1>5. /\ ~(Reindex \/ ReindexResetFails \/ ReindexAddFails \/ ReindexDies)
        /\ ~\E r \in Records : ReindexAddPasses(r)
    BY DEF XInv, Types, Tables, Idle, Reindex, ReindexReset, ReindexClear, ReindexPage, ReindexAdd,
           ReindexAddPasses, Added, ReindexResetFails, ReindexAddFails, ReindexDies
  <1>6. CASE UNCHANGED vars
    <2>1. UNCHANGED <<history, records, queue, index, writer, worker, reindex>>
      BY <1>6 DEF vars
    <2>2. Types'
      BY <2>1 DEF XInv, Types, Tables
    <2> QED
      BY <2>1, <2>2, TablesStay, RequestsStay, QueueStays DEF XInv
  <1> QED
    BY <1>1, <1>2, <1>3, <1>4, <1>5, <1>6 DEF Next

LEMMA XInit == Init => XInv
  <1> SUFFICES ASSUME Init  PROVE XInv
    OBVIOUS
  <1>1. DOMAIN history = {} /\ DOMAIN queue = {} /\ Len(queue) = 0
    BY DEF Init
  <1>2. \A r \in Records : RowsOf(r) = {}
    BY <1>1 DEF RowsOf
  <1>3. Types
    BY DEF Init, Types, Tables, IdleWriter, IdleWorker
  <1>4. RequestInv
    BY <1>2 DEF Init, RequestInv, NewestExists, RequestsHold, OneByOne, RecordsAreNewest, IdleWriter
  <1>5. QueueInv
    BY <1>1, <1>2 DEF QueueInv, QueueHasHistory, NewestIsQueued, HandledInOrder
  <1>6. IndexInv
    BY <1>1 DEF Init, IndexInv, WorkerOnFirst, LastIsApplied, NothingWithoutHistory, IdleWorker
  <1> QED
    BY <1>3, <1>4, <1>5, <1>6 DEF XInv

LEMMA XAgrees == XInv => IndexAgrees
  <1> SUFFICES ASSUME XInv, Quiet, NEW r \in Records
               PROVE  index[r] = records[r] \/ LastFailed(r)
    BY DEF IndexAgrees
  <1>1. CASE RowsOf(r) = {}
    BY <1>1 DEF XInv, RequestInv, IndexInv, RecordsAreNewest, NothingWithoutHistory
  <1>2. CASE RowsOf(r) # {}
    <2>1. \A w \in Writers : r \notin writer[w].records
      BY DEF Quiet, XInv, RequestInv, RequestsHold
    <2>2. PICK i \in DOMAIN queue : /\ queue[i].history = Newest(RowsOf(r))
                                    /\ \A j \in DOMAIN queue : j > i => Rec(j) # r
      BY <1>2, <2>1 DEF XInv, QueueInv, NewestIsQueued
    <2>3. queue[i].synced
      BY DEF Quiet, Waiting
    <2>4. Rec(i) = r
      BY <1>2, <2>2 DEF XInv, RequestInv, NewestExists, RowsOf, Rec
    <2>5. index[r] = Effect(queue[i].history) \/ queue[i].error
      BY <2>2, <2>3, <2>4 DEF XInv, IndexInv, LastIsApplied
    <2>6. records[r] = Effect(Newest(RowsOf(r)))
      BY <1>2 DEF XInv, RequestInv, RecordsAreNewest
    <2> QED
      BY <2>2, <2>5, <2>6 DEF LastFailed
  <1> QED
    BY <1>1, <1>2

\* What is not orderly stays so.
LEMMA OrderlyBefore ==
  ASSUME [Next]_vars, orderly'
  PROVE  orderly
  <1>1. ASSUME NEW w \in Writers, NEW r \in Records,
               \/ Save(w, r) \/ UpdatePatch(w, r) \/ Delete(w, r)
               \/ Destroy(w, r) \/ FindHistory(w, r)
        PROVE  orderly
    BY <1>1 DEF Save, UpdatePatch, Delete, Destroy, FindHistory, account
  <1>2. ASSUME NEW w \in Writers, CreateAfterhandler(w) \/ RequestFails(w)  PROVE orderly
    BY <1>2 DEF CreateAfterhandler, RequestFails, account
  <1>3. ASSUME NEW k \in Workers, Round(k) \/ HandleFails(k) \/ WorkerFails(k)  PROVE orderly
    BY <1>3 DEF Round, FindFirstNotSynced, Handle, SetSynced, SetSyncedWithError, HandleFails,
                WorkerFails, account
  <1>4. CASE \/ ReindexStart \/ Reindex \/ ReindexResetFails \/ ReindexAddFails \/ ReindexDies
              \/ \E r \in Records : ReindexAddPasses(r)
    <2>1. CASE ReindexStart \/ ReindexResetFails \/ ReindexAddFails \/ ReindexDies
      BY <2>1, Zenon DEF ReindexStart, ReindexResetFails, ReindexAddFails, ReindexDies
    <2>2. CASE ReindexReset \/ ReindexClear \/ ReindexPage
      BY <2>2, Zenon DEF ReindexReset, ReindexClear, ReindexPage, account
    <2>3. ASSUME NEW r \in Records, ReindexAdd(r) \/ ReindexAddPasses(r)  PROVE orderly
      BY <2>3, Zenon DEF ReindexAdd, ReindexAddPasses, account
    <2> QED
      BY <1>4, <2>1, <2>2, <2>3 DEF Reindex
  <1>5. CASE UNCHANGED vars
    BY <1>5 DEF vars, account
  <1> QED
    BY <1>1, <1>2, <1>3, <1>4, <1>5 DEF Next, Request

(***************************************************************************)
(* When all work is done the index has the data of every record and of no  *)
(* other, but for a record whose last change is listed as failed: whatever *)
(* the index and the worker fail at, if the requests were orderly.         *)
(***************************************************************************)
THEOREM IndexFollowsRecords ==
  ASSUME OneWorker
  PROVE  Spec => []IndexAgrees
  <1> DEFINE Inv == orderly => XInv
  <1>1. Init => Inv
    BY XInit
  <1>2. Inv /\ [Next]_vars => Inv'
    BY XStep, OrderlyBefore
  <1>3. Inv => IndexAgrees
    BY XAgrees DEF IndexAgrees
  <1> QED
    BY <1>1, <1>2, <1>3, PTL DEF Spec

-------------------------------------------------------------------------------
(***************************************************************************)
(* What a reindex has written so far.                                      *)
(***************************************************************************)
Phases ==
  [pc : {"idle", "reset"}]
    \cup [pc : {"clear"}, unrepaired : SUBSET Records]
    \cup [pc : {"page"}, offset : Nat, unrepaired : SUBSET Records]
    \cup [pc : {"add"}, offset : Nat, page : UNION {[D -> Nat] : D \in SUBSET Records},
          unrepaired : SUBSET Records]

AllTypes ==
  /\ Tables
  /\ reindex \in Phases
  /\ mark \in BOOLEAN /\ orderly \in BOOLEAN
  /\ reindexes \in 0 .. MaxReindexes
  /\ failures \in 0 .. MaxFailures

\* Requests, workers and records know rows that there are.
RowsExist ==
  /\ \A w \in Writers :
       /\ writer[w].pc # "idle" =>
            \E r \in Records : writer[w].records = {r} /\ RowsOf(r) # {}
       /\ writer[w].pc = "create" => writer[w].history # 0
  /\ \A k \in Workers : worker[k].pc # "idle" => worker[k].row \in DOMAIN queue
  /\ \A r \in Records : records[r] # 0 => RowsOf(r) # {}

\* Nobody else writes.
Resting ==
  reindex.pc # "idle" =>
    /\ \A w \in Writers : writer[w].pc = "idle"
    /\ \A k \in Workers : worker[k].pc = "idle"
    /\ Waiting = {}

Place(r) == Cardinality(CreatedBefore(r))

\* The index is empty but for the pages that have been read, and of the page
\* at work but for the records that have been written; what is not repaired aside.
PagesWritten ==
  /\ reindex.pc = "clear" => \A r \in Records \ reindex.unrepaired : index[r] = 0
  /\ reindex.pc = "page" =>
       \A r \in Records \ reindex.unrepaired :
         index[r] = IF records[r] # 0 /\ Place(r) < reindex.offset THEN records[r] ELSE 0
  /\ reindex.pc = "add" =>
       /\ DOMAIN reindex.page \subseteq {r \in Records : records[r] # 0}
       /\ \A r \in DOMAIN reindex.page :
            reindex.page[r] = records[r] /\ Place(r) < reindex.offset + PageSize
       /\ \A r \in Records \ reindex.unrepaired :
            index[r] = IF /\ records[r] # 0
                          /\ Place(r) < reindex.offset + PageSize
                          /\ r \notin DOMAIN reindex.page
                       THEN records[r] ELSE 0

PageInv == AllTypes /\ RowsExist /\ Resting /\ PagesWritten

-------------------------------------------------------------------------------
\* Of a finite set in a strict order, in which B[q] is what comes before q,
\* somebody is at each place.
LEMMA PlacesFilled ==
  ASSUME NEW S, IsFiniteSet(S), NEW B \in [S -> SUBSET S],
         \A p \in S : p \notin B[p],
         \A p, q \in S : p # q => p \in B[q] \/ q \in B[p],
         \A p, q \in S : p \in B[q] => B[p] \subseteq B[q]
  PROVE  /\ \A q \in S : Cardinality(B[q]) \in 0 .. Cardinality(S) - 1
         /\ \A n \in 0 .. Cardinality(S) - 1 : \E q \in S : Cardinality(B[q]) = n
  <1> DEFINE N == Cardinality(S)
             place == [q \in S |-> Cardinality(B[q])]
  <1>1. N \in Nat
    BY FS_CardinalityType
  <1>2. ASSUME NEW q \in S, NEW T \in SUBSET S, q \notin T
        PROVE  /\ IsFiniteSet(T) /\ Cardinality(T) \in Nat
               /\ IsFiniteSet(T \cup {q}) /\ Cardinality(T \cup {q}) = Cardinality(T) + 1
    <2>1. IsFiniteSet(T)
      BY FS_Subset
    <2> QED
      BY <1>2, <2>1, FS_CardinalityType, FS_AddElement
  <1>3. ASSUME NEW q \in S, NEW T \in SUBSET S, q \notin T, NEW U \in SUBSET S,
               T \cup {q} \subseteq U
        PROVE  Cardinality(T) < Cardinality(U)
    <2>1. IsFiniteSet(U) /\ Cardinality(U) \in Nat
      BY FS_Subset, FS_CardinalityType
    <2>2. Cardinality(T \cup {q}) <= Cardinality(U)
      BY <1>3, <2>1, FS_Subset
    <2>3. Cardinality(T) \in Nat /\ Cardinality(T \cup {q}) = Cardinality(T) + 1
      BY <1>2, <1>3
    <2> QED
      BY <2>1, <2>2, <2>3
  <1>4. \A q \in S : Cardinality(B[q]) \in 0 .. N - 1
    <2> TAKE q \in S
    <2>1. Cardinality(B[q]) < N
      BY <1>3
    <2>2. Cardinality(B[q]) \in Nat
      BY <1>2
    <2> QED
      BY <1>1, <2>1, <2>2
  <1>5. \A p, q \in S : p # q => Cardinality(B[p]) # Cardinality(B[q])
    <2>1. \A p, q \in S : p \in B[q] => Cardinality(B[p]) < Cardinality(B[q])
      <3> SUFFICES ASSUME NEW p \in S, NEW q \in S, p \in B[q]
                   PROVE  Cardinality(B[p]) < Cardinality(B[q])
        OBVIOUS
      <3> QED
        BY <1>3
    <2>2. \A q \in S : Cardinality(B[q]) \in Nat
      BY <1>2
    <2> QED
      BY <2>1, <2>2
  <1>6. place \in Injection(S, 0 .. N - 1)
    BY <1>4, <1>5, Zenon DEF Injection, IsInjective
  <1>7. IsFiniteSet(0 .. N - 1) /\ Cardinality(0 .. N - 1) = N
    <2>1. N - 1 \in Int /\ 0 \in Int
      BY <1>1
    <2> QED
      BY <1>1, <2>1, FS_Interval
  <1>8. place \in Surjection(S, 0 .. N - 1)
    BY <1>6, <1>7, FS_Injection
  <1>9. \A n \in 0 .. N - 1 : \E q \in S : place[q] = n
    BY <1>8, Zenon DEF Surjection
  <1> QED
    BY <1>4, <1>9

\* One of them is the first.
LEMMA FirstInOrder ==
  ASSUME NEW S, IsFiniteSet(S), S # {}, NEW B \in [S -> SUBSET S],
         \A p \in S : p \notin B[p],
         \A p, q \in S : p # q => p \in B[q] \/ q \in B[p],
         \A p, q \in S : p \in B[q] => B[p] \subseteq B[q]
  PROVE  \E m \in S : \A g \in S : g # m => m \in B[g]
  <1>1. \A n \in 0 .. Cardinality(S) - 1 : \E q \in S : Cardinality(B[q]) = n
    BY PlacesFilled, Zenon
  <1>2. 0 \in 0 .. Cardinality(S) - 1
    <2>1. Cardinality(S) \in Nat /\ Cardinality(S) # 0
      BY FS_EmptySet, FS_CardinalityType
    <2> QED
      BY <2>1
  <1>3. PICK m \in S : Cardinality(B[m]) = 0
    BY <1>1, <1>2, Zenon
  <1>4. B[m] \in SUBSET S
    BY Zenon
  <1>5. B[m] = {}
    <2>1. IsFiniteSet(B[m])
      BY <1>4, FS_Subset
    <2> QED
      BY <1>3, <2>1, FS_EmptySet
  <1> QED
    BY <1>5, Zenon

LEMMA EndsExist ==
  ASSUME NEW n \in Nat, NEW S \in SUBSET (1 .. n), S # {}
  PROVE  /\ \E m \in S : \A g \in S : m <= g
         /\ \E m \in S : \A g \in S : g <= m
  <1>1. IsFiniteSet(S)
    <2>1. IsFiniteSet(1 .. n)
      BY FS_Interval
    <2> QED
      BY <2>1, FS_Subset
  <1>2. \A p \in S : p \in Int
    OBVIOUS
  <1>3. /\ \A p \in S : ~(p < p)
        /\ \A p, q \in S : p # q => p < q \/ q < p
        /\ \A p, q, x \in S : x < p /\ p < q => x < q
        /\ \A p, q \in S : p < q => p <= q
        /\ \A p \in S : p <= p
    BY <1>2
  <1>4. \E m \in S : \A g \in S : m <= g
    <2> DEFINE B == [q \in S |-> {g \in S : g < q}]
    <2>1. B \in [S -> SUBSET S]
      BY Zenon
    <2>2. \A q \in S : B[q] = {g \in S : g < q}
      BY Zenon
    <2> HIDE DEF B
    <2>3. \A p \in S : p \notin B[p]
      BY <1>3, <2>2, Zenon
    <2>4. ASSUME NEW p \in S, NEW q \in S, p # q  PROVE p \in B[q] \/ q \in B[p]
      <3>1. CASE p < q
        BY <2>2, <3>1, Zenon
      <3>2. CASE q < p
        BY <2>2, <3>2, Zenon
      <3> QED
        BY <1>3, <2>4, <3>1, <3>2, Zenon
    <2>5. \A p, q \in S : p \in B[q] => B[p] \subseteq B[q]
      BY <1>3, <2>2, Zenon
    <2>6. PICK m \in S : \A g \in S : g # m => m \in B[g]
      BY <1>1, <2>1, <2>3, <2>4, <2>5, FirstInOrder, Zenon
    <2> QED
      BY <1>3, <2>2, <2>6, Zenon
  <1>5. \E m \in S : \A g \in S : g <= m
    <2> DEFINE B == [q \in S |-> {g \in S : q < g}]
    <2>1. B \in [S -> SUBSET S]
      BY Zenon
    <2>2. \A q \in S : B[q] = {g \in S : q < g}
      BY Zenon
    <2> HIDE DEF B
    <2>3. \A p \in S : p \notin B[p]
      BY <1>3, <2>2, Zenon
    <2>4. ASSUME NEW p \in S, NEW q \in S, p # q  PROVE p \in B[q] \/ q \in B[p]
      <3>1. CASE q < p
        BY <2>2, <3>1, Zenon
      <3>2. CASE p < q
        BY <2>2, <3>2, Zenon
      <3> QED
        BY <1>3, <2>4, <3>1, <3>2, Zenon
    <2>5. \A p, q \in S : p \in B[q] => B[p] \subseteq B[q]
      BY <1>3, <2>2, Zenon
    <2>6. PICK m \in S : \A g \in S : g # m => m \in B[g]
      BY <1>1, <2>1, <2>3, <2>4, <2>5, FirstInOrder, Zenon
    <2> QED
      BY <1>3, <2>2, <2>6, Zenon
  <1> QED
    BY <1>4, <1>5

\* The records that are present stand one behind the other, without gaps.
LEMMA PlacesOfRecords ==
  ASSUME AllTypes, RowsExist, NEW r \in Records, records[r] # 0
  PROVE  /\ Place(r) \in Nat
         /\ \A n \in 0 .. Place(r) : \E q \in Records : records[q] # 0 /\ Place(q) = n
  <1> DEFINE S == {q \in Records : records[q] # 0}
             B == [q \in S |-> CreatedBefore(q)]
             row == [q \in S |-> CHOOSE h \in RowsOf(q) : TRUE]
  <1>1. DOMAIN history = 1 .. Len(history) /\ Len(history) \in Nat
    BY DEF AllTypes, Tables
  <1>2. \A q \in S : RowsOf(q) \in SUBSET (1 .. Len(history)) /\ RowsOf(q) # {}
    BY <1>1 DEF RowsOf, RowsExist
  <1>3. \A p, q \in S : p # q => RowsOf(p) \cap RowsOf(q) = {}
    BY DEF RowsOf
  <1>4. IsFiniteSet(S)
    <2>1. \A q \in S : row[q] \in RowsOf(q)
      BY <1>2
    <2>2. row \in [S -> 1 .. Len(history)]
      BY <1>2, <2>1
    <2>3. \A p, q \in S : p # q => row[p] # row[q]
      BY <1>3, <2>1
    <2> HIDE DEF row
    <2>4. row \in Injection(S, 1 .. Len(history))
      BY <2>2, <2>3, Zenon DEF Injection, IsInjective
    <2>5. IsFiniteSet(1 .. Len(history))
      BY <1>1, FS_Interval
    <2> QED
      BY <2>4, <2>5, FS_Injection
  <1>5. B \in [S -> SUBSET S]
    BY DEF CreatedBefore
  <1>6. \A p, q \in S : p \in B[q] <=> \E h \in RowsOf(p) : \A g \in RowsOf(q) : h < g
    BY DEF CreatedBefore
  <1> HIDE DEF B
  <1>7. \A p \in S : p \notin B[p]
    <2> SUFFICES ASSUME NEW p \in S, p \in B[p]  PROVE FALSE
      OBVIOUS
    <2>1. PICK h \in RowsOf(p) : h < h
      BY <1>6
    <2> QED
      BY <1>2, <2>1
  <1>8. \A p, q \in S : p # q => p \in B[q] \/ q \in B[p]
    <2> SUFFICES ASSUME NEW p \in S, NEW q \in S, p # q  PROVE p \in B[q] \/ q \in B[p]
      OBVIOUS
    <2>1. PICK f \in RowsOf(p) : \A g \in RowsOf(p) : f <= g
      BY <1>1, <1>2, EndsExist
    <2>2. PICK e \in RowsOf(q) : \A g \in RowsOf(q) : e <= g
      BY <1>1, <1>2, EndsExist
    <2>3. f # e
      BY <1>3
    <2>4. f \in Nat /\ e \in Nat /\ RowsOf(p) \subseteq Nat /\ RowsOf(q) \subseteq Nat
      BY <1>2
    <2>5. CASE f < e
      BY <1>6, <2>2, <2>4, <2>5
    <2>6. CASE e < f
      BY <1>6, <2>1, <2>4, <2>6
    <2> QED
      BY <2>3, <2>4, <2>5, <2>6
  <1>9. \A p, q \in S : p \in B[q] => B[p] \subseteq B[q]
    <2> SUFFICES ASSUME NEW p \in S, NEW q \in S, p \in B[q], NEW x \in B[p]
                 PROVE  x \in B[q]
      OBVIOUS
    <2>1. x \in S
      BY <1>5
    <2>2. PICK h \in RowsOf(x) : \A g \in RowsOf(p) : h < g
      BY <1>6, <2>1
    <2>3. PICK f \in RowsOf(p) : \A g \in RowsOf(q) : f < g
      BY <1>6
    <2>4. h \in Nat /\ f \in Nat /\ RowsOf(q) \subseteq Nat
      BY <1>2, <2>1
    <2>5. \A g \in RowsOf(q) : h < g
      BY <2>2, <2>3, <2>4
    <2> QED
      BY <1>6, <2>1, <2>5
  <1>10. /\ \A q \in S : Cardinality(B[q]) \in 0 .. Cardinality(S) - 1
         /\ \A n \in 0 .. Cardinality(S) - 1 : \E q \in S : Cardinality(B[q]) = n
    BY <1>4, <1>5, <1>7, <1>8, <1>9, PlacesFilled
  <1>11. \A q \in S : Cardinality(B[q]) = Place(q)
    BY DEF B, Place
  <1>12. Cardinality(S) \in Nat
    BY <1>4, FS_CardinalityType
  <1>13. r \in S
    OBVIOUS
  <1>14. Place(r) \in 0 .. Cardinality(S) - 1
    BY <1>10, <1>11, <1>13
  <1>15. \A n \in 0 .. Place(r) : \E q \in S : Place(q) = n
    <2> SUFFICES ASSUME NEW n \in 0 .. Place(r)  PROVE \E q \in S : Place(q) = n
      OBVIOUS
    <2>1. n \in 0 .. Cardinality(S) - 1
      BY <1>12, <1>14
    <2>2. PICK q \in S : Cardinality(B[q]) = n
      BY <1>10, <2>1
    <2> QED
      BY <1>11, <2>2
  <1> QED
    BY <1>12, <1>14, <1>15

\* The pages end behind the last record.
LEMMA EmptyPage ==
  ASSUME AllTypes, RowsExist, NEW n \in Nat, DOMAIN Page(n) = {},
         NEW r \in Records, records[r] # 0
  PROVE  Place(r) < n
  <1>1. Place(r) \in Nat /\ \A m \in 0 .. Place(r) : \E q \in Records : records[q] # 0 /\ Place(q) = m
    BY PlacesOfRecords
  <1>2. PageSize \in Nat \ {0}
    BY IndexAssumption
  <1>3. \A q \in Records : ~(records[q] # 0 /\ Place(q) = n)
    <2>1. n \in n .. n + PageSize - 1
      BY <1>2
    <2> QED
      BY <2>1 DEF Page, Place
  <1>4. n \notin 0 .. Place(r)
    BY <1>1, <1>3
  <1> QED
    BY <1>1, <1>4

LEMMA PageInit == Init => PageInv
  <1> SUFFICES ASSUME Init  PROVE PageInv
    OBVIOUS
  <1>1. AllTypes
    <2>1. Tables
      BY DEF Init, Tables, IdleWriter, IdleWorker
    <2>2. reindex \in Phases /\ mark \in BOOLEAN /\ orderly \in BOOLEAN
      BY DEF Init, Phases, Idle
    <2>3. reindexes \in 0 .. MaxReindexes /\ failures \in 0 .. MaxFailures
      BY IndexAssumption DEF Init
    <2> QED
      BY <2>1, <2>2, <2>3 DEF AllTypes
  <1>2. RowsExist
    BY DEF Init, RowsExist, IdleWriter, IdleWorker
  <1>3. Resting /\ PagesWritten
    BY DEF Init, Idle, Resting, PagesWritten
  <1> QED
    BY <1>1, <1>2, <1>3 DEF PageInv

\* Where no reindex is at work a step of anyone else only has to know its rows.
LEMMA NoReindex ==
  ASSUME reindex.pc = "idle", reindex' = reindex, AllTypes', RowsExist'
  PROVE  PageInv'
  BY DEF PageInv, Resting, PagesWritten

\* A new request.
LEMMA NewRequestStep ==
  ASSUME PageInv, "busy" \notin Hazards, NEW w \in Writers, NEW r \in Records,
         Save(w, r) \/ UpdatePatch(w, r) \/ Delete(w, r)
  PROVE  PageInv'
  <1>1. MayWrite(w, r) /\ Store(r)
    BY DEF Save, UpdatePatch, Delete
  <1>2. UNCHANGED <<queue, index, worker, reindex, mark, reindexes, failures>>
    BY DEF Save, UpdatePatch, Delete
  <1>3. /\ writer' \in [Writers -> [pc : {"idle", "destroy", "find", "create"},
                                    records : SUBSET Records, history : Nat]]
        /\ \A v \in Writers : v # w => writer'[v] = writer[v]
        /\ writer'[w] = writer[w] \/ (writer'[w].records = {r} /\ writer'[w].pc # "create")
    <2>1. writer \in [Writers -> [pc : {"idle", "destroy", "find", "create"},
                                  records : SUBSET Records, history : Nat]]
      BY DEF PageInv, AllTypes, Tables
    <2>2. \/ writer' = writer
          \/ writer' = [writer EXCEPT ![w] = [pc |-> "find", records |-> {r}, history |-> 0]]
          \/ writer' = [writer EXCEPT ![w] = [pc |-> "destroy", records |-> {r}, history |-> 0]]
      BY Zenon DEF Save, UpdatePatch, Delete
    <2> QED
      BY <2>1, <2>2
  <1>4. orderly' \in BOOLEAN
    BY DEF Save, UpdatePatch, Delete, PageInv, AllTypes
  <1>5. reindex.pc = "idle"
    BY <1>1 DEF MayWrite
  <1>6. Tables
    BY DEF PageInv, AllTypes
  <1>7. /\ history' \in Seq(HistoryRow)
        /\ RowsOf(r)' # {}
        /\ \A q \in Records : RowsOf(q) # {} => RowsOf(q)' # {}
    <2>1. history' = Append(history, [record |-> r, delete |-> FALSE])
      BY <1>1 DEF Store
    <2>2. /\ history' \in Seq(HistoryRow)
          /\ RowsOf(r)' = RowsOf(r) \cup {Len(history) + 1}
          /\ \A q \in Records : q # r => RowsOf(q)' = RowsOf(q)
      BY <1>6, <2>1, NewRow
    <2> QED
      BY <2>2
  <1>8. records' \in [Records -> Nat] /\ \A q \in Records : q # r => records'[q] = records[q]
    <2>1. Len(history) + 1 \in Nat
      BY <1>6 DEF Tables
    <2> QED
      BY <1>1, <1>6, <2>1 DEF Store, Tables
  <1>9. AllTypes'
    BY <1>2, <1>3, <1>4, <1>7, <1>8 DEF PageInv, AllTypes, Tables
  <1>10. RowsExist'
    <2>1. \A v \in Writers : writer'[v].pc # "idle" =>
            \E q \in Records : writer'[v].records = {q} /\ RowsOf(q)' # {}
      BY <1>3, <1>7 DEF PageInv, RowsExist
    <2>2. \A v \in Writers : writer'[v].pc = "create" => writer'[v].history # 0
      BY <1>3 DEF PageInv, RowsExist
    <2>3. \A q \in Records : records'[q] # 0 => RowsOf(q)' # {}
      BY <1>7, <1>8 DEF PageInv, RowsExist
    <2> QED
      BY <1>2, <2>1, <2>2, <2>3 DEF PageInv, RowsExist
  <1> QED
    BY <1>2, <1>5, <1>9, <1>10, NoReindex

\* A request goes on or fails.
LEMMA OldRequestStep ==
  ASSUME PageInv, NEW w \in Writers, Request(w) \/ RequestFails(w)
  PROVE  PageInv'
  <1>1. writer[w].pc # "idle"
    BY DEF Request, RequestFails, Destroy, FindHistory, CreateAfterhandler
  <1>2. reindex.pc = "idle"
    BY <1>1 DEF PageInv, Resting
  <1>3. Tables
    BY DEF PageInv, AllTypes
  <1>4. ASSUME NEW r \in Records, Destroy(w, r)  PROVE AllTypes' /\ RowsExist' /\ reindex' = reindex
    <2>1. /\ history' \in Seq(HistoryRow)
          /\ \A q \in Records : RowsOf(q) # {} => RowsOf(q)' # {}
      <3>1. CASE history' = history
        BY <1>3, <3>1 DEF Tables, RowsOf
      <3>2. CASE history' = Append(history, [record |-> r, delete |-> TRUE])
        <4>1. /\ history' \in Seq(HistoryRow)
              /\ RowsOf(r)' = RowsOf(r) \cup {Len(history) + 1}
              /\ \A q \in Records : q # r => RowsOf(q)' = RowsOf(q)
          BY <1>3, <3>2, NewRow
        <4> QED
          BY <4>1
      <3> QED
        BY <1>4, <3>1, <3>2 DEF Destroy
    <2>2. /\ writer' \in [Writers -> [pc : {"idle", "destroy", "find", "create"},
                                      records : SUBSET Records, history : Nat]]
          /\ \A v \in Writers : v # w => writer'[v] = writer[v]
          /\ writer'[w].records = {r} /\ writer'[w].pc = "find" /\ r \in writer[w].records
      BY <1>3, <1>4 DEF Destroy, Tables
    <2>3. records' \in [Records -> Nat] /\ \A q \in Records : records'[q] \in {0, records[q]}
      BY <1>3, <1>4 DEF Destroy, Tables
    <2>4. UNCHANGED <<queue, index, worker, reindex, mark, account>>
      BY <1>4 DEF Destroy
    <2>5. AllTypes'
      BY <2>1, <2>2, <2>3, <2>4 DEF PageInv, AllTypes, Tables, account
    <2>6. RowsOf(r)' # {}
      BY <1>1, <2>1, <2>2 DEF PageInv, RowsExist
    <2>7. RowsExist'
      <3>1. \A v \in Writers : writer'[v].pc # "idle" =>
              \E q \in Records : writer'[v].records = {q} /\ RowsOf(q)' # {}
        BY <2>1, <2>2, <2>6 DEF PageInv, RowsExist
      <3>2. \A v \in Writers : writer'[v].pc = "create" => writer'[v].history # 0
        BY <2>2 DEF PageInv, RowsExist
      <3>3. \A q \in Records : records'[q] # 0 => RowsOf(q)' # {}
        BY <2>1, <2>3 DEF PageInv, RowsExist
      <3> QED
        BY <2>4, <3>1, <3>2, <3>3 DEF PageInv, RowsExist
    <2> QED
      BY <2>4, <2>5, <2>7
  <1>5. ASSUME NEW r \in Records, FindHistory(w, r)
        PROVE  AllTypes' /\ RowsExist' /\ reindex' = reindex
    <2>1. r \in writer[w].records /\ RowsOf(r) # {}
      BY <1>1, <1>5 DEF FindHistory, PageInv, RowsExist
    <2>2. Newest(RowsOf(r)) \in Nat \ {0}
      <3>1. Len(history) \in Nat /\ RowsOf(r) \in SUBSET (1 .. Len(history))
        BY <1>3 DEF Tables, RowsOf
      <3>2. PICK m \in RowsOf(r) : \A g \in RowsOf(r) : g <= m
        BY <2>1, <3>1, EndsExist
      <3>3. Newest(RowsOf(r)) = m
        BY <3>1, <3>2, NewestIsMax
      <3> QED
        BY <3>1, <3>2, <3>3
    <2>3. /\ writer' \in [Writers -> [pc : {"idle", "destroy", "find", "create"},
                                      records : SUBSET Records, history : Nat]]
          /\ \A v \in Writers : v # w => writer'[v] = writer[v]
          /\ writer'[w].records = {r} /\ writer'[w].history # 0
      BY <1>3, <1>5, <2>2 DEF FindHistory, Tables
    <2>4. UNCHANGED <<history, records, queue, index, worker, reindex, mark, account>>
      BY <1>5 DEF FindHistory
    <2>5. AllTypes'
      BY <2>3, <2>4 DEF PageInv, AllTypes, Tables, account
    <2>6. RowsExist'
      BY <2>1, <2>3, <2>4 DEF PageInv, RowsExist, RowsOf
    <2> QED
      BY <2>4, <2>5, <2>6
  <1>6. CASE CreateAfterhandler(w)
    <2> DEFINE row == [history |-> writer[w].history, synced |-> FALSE, error |-> FALSE]
    <2>1. row \in Afterhandler
      BY <1>3, <1>6 DEF CreateAfterhandler, PageInv, RowsExist, Tables, Afterhandler
    <2>2. queue' = Append(queue, row)
      BY <1>6 DEF CreateAfterhandler
    <2> HIDE DEF row
    <2>3. queue' \in Seq(Afterhandler) /\ DOMAIN queue \subseteq DOMAIN queue'
      BY <1>3, <2>1, <2>2 DEF Tables
    <2>4. UNCHANGED <<history, records, index, worker, reindex, mark, account>>
          /\ writer' = [writer EXCEPT ![w] = IdleWriter]
      BY <1>6 DEF CreateAfterhandler
    <2>5. AllTypes'
      BY <2>3, <2>4 DEF PageInv, AllTypes, Tables, account, IdleWriter
    <2>6. RowsExist'
      <3>1. \A q \in Records : RowsOf(q)' = RowsOf(q)
        BY <2>4 DEF RowsOf
      <3>2. /\ writer'[w].pc = "idle"
            /\ \A v \in Writers : v # w => writer'[v] = writer[v]
        BY <1>3, <2>4 DEF IdleWriter, Tables
      <3> QED
        BY <2>3, <2>4, <3>1, <3>2 DEF PageInv, RowsExist
    <2> QED
      BY <1>2, <2>4, <2>5, <2>6, NoReindex
  <1>7. CASE RequestFails(w)
    <2>1. /\ UNCHANGED <<history, records, queue, index, worker, reindex, mark, reindexes>>
          /\ writer' = [writer EXCEPT ![w] = IdleWriter]
          /\ orderly' = FALSE
      BY <1>7 DEF RequestFails
    <2>2. failures' \in 0 .. MaxFailures
      BY <1>7, IndexAssumption DEF RequestFails, PageInv, AllTypes
    <2>3. AllTypes'
      BY <2>1, <2>2 DEF PageInv, AllTypes, Tables, IdleWriter
    <2>4. RowsExist'
      <3>1. \A q \in Records : RowsOf(q)' = RowsOf(q)
        BY <2>1 DEF RowsOf
      <3>2. /\ writer'[w].pc = "idle"
            /\ \A v \in Writers : v # w => writer'[v] = writer[v]
        BY <1>3, <2>1 DEF IdleWriter, Tables
      <3> QED
        BY <2>1, <3>1, <3>2 DEF PageInv, RowsExist
    <2> QED
      BY <1>2, <2>1, <2>3, <2>4, NoReindex
  <1> QED
    BY <1>2, <1>4, <1>5, <1>6, <1>7, NoReindex DEF Request

\* A worker at work.
LEMMA WorkStep ==
  ASSUME PageInv, NEW k \in Workers, Round(k) \/ HandleFails(k) \/ WorkerFails(k)
  PROVE  PageInv'
  <1>1. reindex.pc = "idle"
    <2>1. worker[k].pc # "idle" \/ Waiting # {}
      BY DEF Round, FindFirstNotSynced, Handle, SetSynced, SetSyncedWithError, HandleFails,
             WorkerFails
    <2> QED
      BY <2>1 DEF PageInv, Resting
  <1>2. Tables
    BY DEF PageInv, AllTypes
  <1>3. UNCHANGED <<history, records, writer, reindex, mark, orderly, reindexes>>
    BY DEF Round, FindFirstNotSynced, Handle, SetSynced, SetSyncedWithError, HandleFails,
           WorkerFails, account
  <1>4. failures' \in 0 .. MaxFailures
    <2>1. failures \in 0 .. MaxFailures /\ MaxFailures \in Nat
      BY IndexAssumption DEF PageInv, AllTypes
    <2>2. CASE failures' = failures
      BY <2>1, <2>2
    <2>3. CASE HandleFails(k) \/ WorkerFails(k)
      <3>1. failures < MaxFailures /\ failures' = failures + 1
        BY <2>3, Zenon DEF HandleFails, WorkerFails
      <3> QED
        BY <2>1, <3>1
    <2> QED
      BY <2>2, <2>3 DEF Round, FindFirstNotSynced, Handle, SetSynced, SetSyncedWithError, account
  <1>5. DOMAIN queue = 1 .. Len(queue) /\ Len(queue) \in Nat
    BY <1>2 DEF Tables
  <1>6. worker[k].pc # "idle" => worker[k].row \in DOMAIN queue
    BY DEF PageInv, RowsExist
  <1>7. queue' \in Seq(Afterhandler) /\ DOMAIN queue' = DOMAIN queue
    <2>1. CASE queue' = queue
      BY <1>2, <2>1 DEF Tables
    <2>2. CASE SetSynced(k) \/ SetSyncedWithError(k)
      <3> DEFINE row == worker[k].row
      <3>1. queue' = [queue EXCEPT ![row].synced = TRUE]
            \/ queue' = [queue EXCEPT ![row].synced = TRUE, ![row].error = TRUE]
        BY <2>2 DEF SetSynced, SetSyncedWithError
      <3>2. row \in DOMAIN queue
        BY <1>6, <2>2 DEF SetSynced, SetSyncedWithError
      <3>3. queue \in Seq(Afterhandler) /\ queue[row] \in Afterhandler
        BY <1>2, <3>2 DEF Tables
      <3> HIDE DEF row
      <3> DEFINE y == [queue[row] EXCEPT !.synced = TRUE]
                 z == [queue[row] EXCEPT !.synced = TRUE, !.error = TRUE]
      <3>4. y \in Afterhandler /\ z \in Afterhandler
        BY <3>3 DEF Afterhandler
      <3>5. queue' = [queue EXCEPT ![row] = y] \/ queue' = [queue EXCEPT ![row] = z]
        BY <3>1, <3>2, <3>3
      <3> HIDE DEF y, z
      <3> QED
        BY <3>3, <3>4, <3>5
    <2> QED
      BY <2>1, <2>2 DEF Round, FindFirstNotSynced, Handle, HandleFails, WorkerFails
  <1>8. index' \in [Records -> Nat]
    <2>1. CASE index' = index
      BY <1>2, <2>1 DEF Tables
    <2>2. CASE Handle(k) \/ HandleFails(k)
      <3> DEFINE h == queue[worker[k].row].history
      <3>1. index' \in {index, [index EXCEPT ![history[h].record] = Effect(h)]}
        BY <2>2, Zenon DEF Handle, HandleFails
      <3>2. Effect(h) \in Nat
        <4>1. queue[worker[k].row] \in Afterhandler
          <5>1. worker[k].pc = "handle"
            BY <2>2, Zenon DEF Handle, HandleFails
          <5> QED
            BY <1>2, <1>6, <5>1 DEF Tables
        <4> QED
          BY <4>1 DEF Effect, Afterhandler
      <3> HIDE DEF h
      <3> QED
        BY <1>2, <3>1, <3>2 DEF Tables
    <2> QED
      BY <2>1, <2>2 DEF Round, FindFirstNotSynced, SetSynced, SetSyncedWithError, WorkerFails
  <1>9. /\ worker' \in [Workers -> [pc : {"idle", "handle", "synced", "error"}, row : Nat]]
        /\ \A l \in Workers : worker'[l].pc # "idle" => worker'[l].row \in DOMAIN queue
    <2>1. PICK x : worker' = [worker EXCEPT ![k] = x]
                   /\ x \in [pc : {"idle", "handle", "synced", "error"}, row : Nat]
                   /\ (x.pc # "idle" => x.row \in DOMAIN queue)
      <3>1. CASE FindFirstNotSynced(k)
        <4>1. Waiting # {} /\ Waiting \in SUBSET (1 .. Len(queue))
          BY <1>5, <3>1 DEF FindFirstNotSynced, Waiting
        <4>2. \E i \in Waiting : \A j \in Waiting : i <= j
          BY <1>5, <4>1, EndsExist
        <4>3. First \in Waiting
          BY <4>2, Zenon DEF First
        <4> DEFINE x == [pc |-> "handle", row |-> First]
        <4>4. x \in [pc : {"idle", "handle", "synced", "error"}, row : Nat] /\ x.row \in DOMAIN queue
          BY <1>5, <4>1, <4>3
        <4> QED
          BY <3>1, <4>4, Zenon DEF FindFirstNotSynced, FirstNotSynced
      <3>2. CASE ~FindFirstNotSynced(k)
        <4>1. worker' = [worker EXCEPT ![k] = IdleWorker]
              \/ \E p \in {"synced", "error"} : worker' = [worker EXCEPT ![k] = [@ EXCEPT !.pc = p]]
          <5>1. CASE Handle(k)
            BY <5>1 DEF Handle, Handled
          <5>2. CASE HandleFails(k)
            BY <5>2, Zenon DEF HandleFails
          <5> QED
            BY <3>2, <5>1, <5>2 DEF Round, SetSynced, SetSyncedWithError, WorkerFails
        <4>2. worker[k].pc # "idle"
          <5>1. \/ worker[k].pc = "handle" \/ worker[k].pc = "synced" \/ worker[k].pc = "error"
                \/ worker[k].pc # "idle"
            BY <3>2, Zenon DEF Round, Handle, SetSynced, SetSyncedWithError, HandleFails, WorkerFails
          <5> QED
            BY <5>1
        <4>3. worker[k] \in [pc : {"idle", "handle", "synced", "error"}, row : Nat]
          BY <1>2 DEF Tables
        <4>4. CASE worker' = [worker EXCEPT ![k] = IdleWorker]
          <5>1. /\ IdleWorker \in [pc : {"idle", "handle", "synced", "error"}, row : Nat]
                /\ IdleWorker.pc = "idle"
            BY DEF IdleWorker
          <5> QED
            BY <4>4, <5>1, Zenon
        <4>5. ASSUME NEW p \in {"synced", "error"}, worker' = [worker EXCEPT ![k] = [@ EXCEPT !.pc = p]]
              PROVE  \E x : /\ worker' = [worker EXCEPT ![k] = x]
                            /\ x \in [pc : {"idle", "handle", "synced", "error"}, row : Nat]
                            /\ x.pc # "idle" => x.row \in DOMAIN queue
          <5> DEFINE x == [worker[k] EXCEPT !.pc = p]
          <5>1. worker' = [worker EXCEPT ![k] = x]
            BY <4>5
          <5>2. x \in [pc : {"idle", "handle", "synced", "error"}, row : Nat] /\ x.row = worker[k].row
            BY <4>3
          <5> QED
            BY <1>6, <4>2, <5>1, <5>2, Zenon
        <4> QED
          BY <4>1, <4>4, <4>5
      <3> QED
        BY <3>1, <3>2
    <2> QED
      BY <1>2, <2>1 DEF Tables, PageInv, RowsExist
  <1>10. AllTypes'
    BY <1>3, <1>4, <1>7, <1>8, <1>9 DEF PageInv, AllTypes, Tables
  <1>11. RowsExist'
    <2>1. \A q \in Records : RowsOf(q)' = RowsOf(q)
      BY <1>3 DEF RowsOf
    <2> QED
      BY <1>3, <1>7, <1>9, <2>1 DEF PageInv, RowsExist
  <1> QED
    BY <1>1, <1>3, <1>10, <1>11, NoReindex

LEMMA LastRowStays ==
  ASSUME queue \in Seq(Afterhandler), queue # <<>>
  PROVE  /\ Len(queue) \in DOMAIN queue
         /\ queue[Len(queue)] \in Afterhandler
         /\ \A x \in Afterhandler :
              /\ [queue EXCEPT ![Len(queue)] = x] \in Seq(Afterhandler)
              /\ DOMAIN [queue EXCEPT ![Len(queue)] = x] = DOMAIN queue
  <1>1. Len(queue) \in DOMAIN queue
    BY Z3
  <1> QED
    BY <1>1

Passes == ReindexResetFails \/ \E r \in Records : ReindexAddPasses(r)

\* While nobody else writes, a step of the reindex writes its page.
LEMMA PagesStep ==
  ASSUME PageInv, Reindex \/ Passes
  PROVE  PageInv'
  <1>1. reindex.pc # "idle"
    BY DEF Reindex, ReindexReset, ReindexClear, ReindexPage, ReindexAdd, Passes, ReindexResetFails,
           ReindexAddPasses, Added
  <1>2. UNCHANGED <<history, records, writer, worker, orderly, reindexes>>
    BY Zenon DEF Reindex, ReindexReset, ReindexClear, ReindexPage, ReindexAdd, account, Passes,
                 ReindexResetFails, ReindexAddPasses
  <1>0. failures' \in 0 .. MaxFailures
    <2>1. failures \in 0 .. MaxFailures /\ MaxFailures \in Nat
      BY IndexAssumption DEF PageInv, AllTypes
    <2>2. failures' = failures \/ (failures < MaxFailures /\ failures' = failures + 1)
      BY Zenon DEF Reindex, ReindexReset, ReindexClear, ReindexPage, ReindexAdd, account, Passes,
                   ReindexResetFails, ReindexAddPasses
    <2> QED
      BY <2>1, <2>2
  <1>3. /\ \A r \in Records : Place(r)' = Place(r) /\ RowsOf(r)' = RowsOf(r)
        /\ \A n \in Nat : Page(n)' = Page(n)
    BY <1>2 DEF Place, CreatedBefore, RowsOf, Page
  <1>4. Tables /\ PageSize \in Nat \ {0} /\ Waiting = {}
    BY <1>1, IndexAssumption DEF PageInv, AllTypes, Resting
  <1>5. \A r \in Records : records[r] # 0 => Place(r) \in Nat
    BY PlacesOfRecords DEF PageInv
  <1> DEFINE U == reindex.unrepaired
  <1>6. CASE ReindexReset \/ ReindexResetFails
    <2>1. /\ mark' = mark
          /\ queue' = IF queue = <<>> THEN queue ELSE [queue EXCEPT ![Len(queue)].error = FALSE]
      BY <1>6 DEF ReindexReset, ReindexResetFails, ClearError
    <2>0. PICK left \in SUBSET Records :
            /\ reindex' = [pc |-> "clear", unrepaired |-> left]
            /\ index' \in [Records -> Nat]
            /\ \A r \in Records \ left : index'[r] = 0
      <3>1. CASE ReindexReset
        BY <3>1 DEF ReindexReset
      <3>2. CASE ReindexResetFails
        <4>1. /\ reindex' = [pc |-> "clear", unrepaired |-> Present(index)]
              /\ index' = index
          BY <3>2 DEF ReindexResetFails
        <4>2. /\ Present(index) \in SUBSET Records
              /\ \A r \in Records \ Present(index) : index[r] = 0
          BY DEF Present
        <4> QED
          BY <1>4, <4>1, <4>2 DEF Tables
      <3> QED
        BY <1>6, <3>1, <3>2
    <2>2. queue' \in Seq(Afterhandler) /\ DOMAIN queue' = DOMAIN queue
          /\ \A i \in DOMAIN queue : queue'[i].synced = queue[i].synced
      <3>1. CASE queue = <<>>
        BY <1>4, <2>1, <3>1 DEF Tables
      <3>2. CASE queue # <<>>
        <4> DEFINE x == [queue[Len(queue)] EXCEPT !.error = FALSE]
        <4>1. /\ Len(queue) \in DOMAIN queue
              /\ queue[Len(queue)] \in Afterhandler
          BY <1>4, <3>2, LastRowStays DEF Tables
        <4>2. x \in Afterhandler /\ x.synced = queue[Len(queue)].synced
          BY <4>1 DEF Afterhandler
        <4>3. queue' = [queue EXCEPT ![Len(queue)] = x]
          BY <2>1, <3>2
        <4> HIDE DEF x
        <4>4. queue' \in Seq(Afterhandler) /\ DOMAIN queue' = DOMAIN queue
          BY <1>4, <3>2, <4>2, <4>3, LastRowStays DEF Tables
        <4> QED
          BY <4>1, <4>2, <4>3, <4>4
      <3> QED
        BY <3>1, <3>2
    <2>3. Resting'
      BY <1>1, <1>2, <1>4, <2>2 DEF PageInv, Resting, Waiting
    <2>4. PagesWritten'
      BY <2>0 DEF PagesWritten
    <2>5. AllTypes'
      <3>1. reindex' \in Phases
        BY <2>0 DEF Phases
      <3> QED
        BY <1>0, <1>2, <2>0, <2>1, <2>2, <3>1 DEF PageInv, AllTypes, Tables
    <2>6. RowsExist'
      BY <1>2, <1>3, <2>2 DEF PageInv, RowsExist
    <2> QED
      BY <2>3, <2>4, <2>5, <2>6 DEF PageInv
  <1>7. CASE ~(ReindexReset \/ ReindexResetFails)
    <2>1. queue' = queue
      <3>1. CASE ReindexClear
        <4>1. queue' = [i \in DOMAIN queue |-> queue[i]]
          BY <1>4, <3>1 DEF ReindexClear
        <4> QED
          BY <1>4, <4>1 DEF Tables
      <3> QED
        BY <1>7, <3>1 DEF Reindex, ReindexPage, ReindexAdd, Passes, ReindexAddPasses
    <2>2. Resting'
      BY <1>1, <1>2, <2>1 DEF PageInv, Resting, Waiting
    <2>3. RowsExist'
      BY <1>2, <1>3, <2>1 DEF PageInv, RowsExist
    <2>4. ASSUME reindex' \in Phases, mark' \in BOOLEAN, index' \in [Records -> Nat]
          PROVE  AllTypes'
      BY <1>0, <1>2, <2>1, <2>4 DEF PageInv, AllTypes, Tables
    <2>5. CASE ReindexClear
      <3>1. /\ reindex' = [pc |-> "page", offset |-> 0, unrepaired |-> U]
            /\ UNCHANGED <<index, mark>> /\ reindex.pc = "clear"
        BY <2>5 DEF ReindexClear
      <3>2. U \in SUBSET Records /\ reindex' \in Phases
        BY <3>1 DEF Phases, PageInv, AllTypes
      <3>3. \A r \in Records : records[r] # 0 => ~(Place(r) < 0)
        BY <1>5
      <3>4. PagesWritten'
        BY <1>2, <1>3, <3>1, <3>3 DEF PageInv, PagesWritten
      <3> QED
        BY <1>4, <2>2, <2>3, <2>4, <3>1, <3>2, <3>4 DEF PageInv, AllTypes, Tables
    <2>6. CASE ReindexPage
      <3> DEFINE n == reindex.offset
                 page == Page(n)
      <3>1. reindex.pc = "page" /\ n \in Nat /\ U \in SUBSET Records
        BY <2>6 DEF ReindexPage, PageInv, AllTypes, Phases
      <3>2. index' = index
        BY <2>6 DEF ReindexPage
      <3>3. /\ DOMAIN page = {r \in Records : /\ records[r] # 0
                                               /\ Place(r) \in n .. n + PageSize - 1}
            /\ \A r \in DOMAIN page : page[r] = records[r]
        BY DEF Page, Place
      <3>4. CASE DOMAIN page = {}
        <4>1. reindex' = Idle /\ mark' = FALSE
          BY <2>6, <3>4 DEF ReindexPage
        <4>2. PagesWritten'
          BY <4>1 DEF PagesWritten, Idle
        <4>3. reindex' \in Phases
          BY <4>1 DEF Phases, Idle
        <4> QED
          BY <2>2, <2>3, <2>4, <3>2, <4>1, <4>2, <4>3 DEF PageInv, AllTypes, Tables
      <3>5. CASE DOMAIN page # {}
        <4>1. /\ reindex' = [pc |-> "add", offset |-> n, page |-> page, unrepaired |-> U]
              /\ mark' = mark
          BY <2>6, <3>5 DEF ReindexPage
        <4>2. reindex' \in Phases
          <5>1. page \in [DOMAIN page -> Nat] /\ DOMAIN page \in SUBSET Records
            BY <1>4 DEF Page, Tables
          <5> HIDE DEF page
          <5> QED
            BY <3>1, <4>1, <5>1 DEF Phases
        <4> HIDE DEF page
        <4>3. \A r \in Records \ U :
                index[r] = IF records[r] # 0 /\ Place(r) < n THEN records[r] ELSE 0
          BY <3>1 DEF PageInv, PagesWritten
        <4>4. \A r \in Records : records[r] # 0 =>
                (Place(r) < n <=> Place(r) < n + PageSize /\ r \notin DOMAIN page)
          BY <1>4, <1>5, <3>1, <3>3
        <4>5. \A r \in DOMAIN page : Place(r) < n + PageSize
          BY <1>4, <1>5, <3>1, <3>3
        <4>6. PagesWritten'
          <5>1. /\ reindex'.pc = "add" /\ reindex'.offset = n /\ reindex'.page = page
                /\ reindex'.unrepaired = U
            BY <4>1
          <5>2. \A r \in Records \ U :
                  index[r] = IF records[r] # 0 /\ Place(r) < n + PageSize /\ r \notin DOMAIN page
                             THEN records[r] ELSE 0
            BY <4>3, <4>4
          <5>3. DOMAIN page \subseteq {r \in Records : records[r] # 0}
            BY <3>3
          <5> HIDE DEF n
          <5> QED
            BY <1>2, <1>3, <3>2, <3>3, <4>5, <5>1, <5>2, <5>3 DEF PagesWritten
        <4> QED
          BY <2>2, <2>3, <2>4, <3>2, <4>1, <4>2, <4>6 DEF PageInv, AllTypes, Tables
      <3> QED
        BY <3>4, <3>5
    <2>7. ASSUME NEW r \in Records, ReindexAdd(r) \/ ReindexAddPasses(r)
          PROVE  Resting' /\ PagesWritten' /\ AllTypes' /\ RowsExist'
      <3> DEFINE n == reindex.offset
                 page == reindex.page
                 left == DOMAIN page \ {r}
                 rest == [q \in left |-> page[q]]
      <3>1. reindex.pc = "add" /\ r \in DOMAIN page /\ mark' = mark
        BY <2>7, Zenon DEF ReindexAdd, ReindexAddPasses, Added
      <3>2. n \in Nat /\ U \in SUBSET Records
            /\ DOMAIN page \subseteq Records /\ page \in [DOMAIN page -> Nat]
        BY <3>1 DEF PageInv, AllTypes, Phases
      <3>3. /\ DOMAIN page \subseteq {q \in Records : records[q] # 0}
            /\ \A q \in DOMAIN page : page[q] = records[q] /\ Place(q) < n + PageSize
            /\ \A q \in Records \ U :
                 index[q] = IF records[q] # 0 /\ Place(q) < n + PageSize /\ q \notin DOMAIN page
                            THEN records[q] ELSE 0
        BY <3>1 DEF PageInv, PagesWritten
      <3> DEFINE next(V) ==
                   IF left = {} THEN [pc |-> "page", offset |-> n + PageSize, unrepaired |-> V]
                   ELSE [pc |-> "add", offset |-> n, page |-> rest, unrepaired |-> V]
      <3> HIDE DEF page, n, U, left, rest
      <3>4. PICK V \in SUBSET Records :
              /\ reindex' = next(V)
              /\ index' \in [Records -> Nat]
              /\ \A q \in Records \ V :
                   \/ q = r /\ index'[q] = page[q]
                   \/ q # r /\ q \notin U /\ index'[q] = index[q]
        <4>1. CASE ReindexAdd(r)
          <5>1. reindex' = next(U \ {r}) /\ index' = [index EXCEPT ![r] = page[r]]
            BY <4>1, Zenon DEF ReindexAdd, Added, NextOffset, page, n, U, left, rest
          <5>2. page[r] \in Nat
            BY <3>1, <3>2
          <5>3. /\ index' \in [Records -> Nat]
                /\ \A q \in Records \ (U \ {r}) :
                     \/ q = r /\ index'[q] = page[q]
                     \/ q # r /\ q \notin U /\ index'[q] = index[q]
            BY <1>4, <5>1, <5>2 DEF Tables
          <5> QED
            BY <3>2, <5>1, <5>3, Zenon
        <4>2. CASE ReindexAddPasses(r)
          <5>1. reindex' = next(U \cup {r}) /\ index' = index
            BY <4>2, Zenon DEF ReindexAddPasses, Added, NextOffset, page, n, U, left, rest
          <5>2. /\ index' \in [Records -> Nat]
                /\ \A q \in Records \ (U \cup {r}) :
                     q # r /\ q \notin U /\ index'[q] = index[q]
            BY <1>4, <5>1 DEF Tables
          <5> QED
            BY <3>2, <5>1, <5>2, Zenon
        <4> QED
          BY <2>7, <4>1, <4>2
      <3>5. \A q \in Records \ V :
              index'[q] = IF records[q] # 0 /\ Place(q) < n + PageSize /\ q \notin left
                          THEN records[q] ELSE 0
        BY <3>1, <3>3, <3>4 DEF left
      <3>6. CASE left = {}
        <4>1. reindex' = [pc |-> "page", offset |-> n + PageSize, unrepaired |-> V]
          BY <3>4, <3>6
        <4>2. reindex' \in Phases
          BY <1>4, <3>2, <4>1 DEF Phases
        <4>3. PagesWritten'
          BY <1>2, <1>3, <3>5, <3>6, <4>1 DEF PagesWritten
        <4> QED
          BY <2>2, <2>3, <2>4, <3>1, <3>4, <4>2, <4>3 DEF PageInv, AllTypes
      <3>7. CASE left # {}
        <4>1. reindex' = [pc |-> "add", offset |-> n, page |-> rest, unrepaired |-> V]
          BY <3>4, <3>7
        <4>2. reindex' \in Phases
          <5>1. rest \in [left -> Nat] /\ left \in SUBSET Records
            BY <3>2 DEF rest, left
          <5> QED
            BY <3>2, <4>1, <5>1 DEF Phases
        <4>3. DOMAIN rest = left /\ \A q \in left : rest[q] = page[q]
          BY DEF rest
        <4>4. left \subseteq DOMAIN page
          BY DEF left
        <4>5. PagesWritten'
          BY <1>2, <1>3, <3>3, <3>5, <4>1, <4>3, <4>4 DEF PagesWritten
        <4> QED
          BY <2>2, <2>3, <2>4, <3>1, <3>4, <4>2, <4>5 DEF PageInv, AllTypes
      <3> QED
        BY <3>6, <3>7
    <2> QED
      BY <1>7, <2>5, <2>6, <2>7 DEF Reindex, Passes, PageInv
  <1> QED
    BY <1>6, <1>7

\* A reindex begins, or ends before its time.
LEMMA ReindexEdges ==
  ASSUME PageInv, "busy" \notin Hazards, ReindexStart \/ ReindexAddFails \/ ReindexDies
  PROVE  PageInv'
  <1>1. UNCHANGED <<history, records, index, writer, worker>>
    BY DEF ReindexStart, ReindexAddFails, ReindexDies
  <1>2. Tables
    BY DEF PageInv, AllTypes
  <1>3. \A r \in Records : RowsOf(r)' = RowsOf(r)
    BY <1>1 DEF RowsOf
  <1>4. queue' \in Seq(Afterhandler) /\ DOMAIN queue' = DOMAIN queue
    <2>1. CASE queue' = queue
      BY <1>2, <2>1 DEF Tables
    <2>2. CASE queue # <<>> /\ queue' = [queue EXCEPT ![Len(queue)].synced = TRUE,
                                                      ![Len(queue)].error = TRUE]
      <3> DEFINE n == Len(queue)
                 x == [queue[n] EXCEPT !.synced = TRUE, !.error = TRUE]
      <3>1. n \in DOMAIN queue /\ queue[n] \in Afterhandler
        BY <1>2, <2>2, LastRowStays DEF Tables
      <3>2. queue' = [queue EXCEPT ![n].synced = TRUE, ![n].error = TRUE]
        BY <2>2
      <3>3. \A y \in Afterhandler : /\ [queue EXCEPT ![n] = y] \in Seq(Afterhandler)
                                    /\ DOMAIN [queue EXCEPT ![n] = y] = DOMAIN queue
        BY <1>2, <2>2, LastRowStays DEF Tables
      <3> HIDE DEF n
      <3>4. x \in Afterhandler
        BY <3>1 DEF Afterhandler
      <3>5. queue' = [queue EXCEPT ![n] = x]
        BY <1>2, <3>1, <3>2 DEF Tables
      <3> HIDE DEF x
      <3> QED
        BY <3>3, <3>4, <3>5
    <2> QED
      BY <2>1, <2>2, Zenon DEF ReindexStart, ReindexAddFails, ReindexDies
  <1>5. failures' \in 0 .. MaxFailures /\ reindexes' \in 0 .. MaxReindexes
    <2>1. failures \in Nat /\ MaxFailures \in Nat /\ reindexes \in Nat /\ MaxReindexes \in Nat
      BY IndexAssumption DEF PageInv, AllTypes
    <2>2. \/ failures' = failures /\ reindexes' = reindexes + 1 /\ reindexes < MaxReindexes
          \/ failures' = failures + 1 /\ reindexes' = reindexes /\ failures < MaxFailures
      BY Zenon DEF ReindexStart, ReindexAddFails, ReindexDies
    <2> QED
      BY <2>1, <2>2 DEF PageInv, AllTypes
  <1>6. mark' \in BOOLEAN /\ orderly' \in BOOLEAN
    BY DEF ReindexStart, ReindexAddFails, ReindexDies, PageInv, AllTypes
  <1>7. reindex' = Idle \/ reindex' = [pc |-> "reset"]
    BY DEF ReindexStart, ReindexAddFails, ReindexDies
  <1>8. AllTypes'
    <2>1. reindex' \in Phases
      BY <1>7 DEF Phases, Idle
    <2> QED
      BY <1>1, <1>2, <1>4, <1>5, <1>6, <2>1 DEF AllTypes, Tables
  <1>9. RowsExist'
    BY <1>1, <1>3, <1>4 DEF PageInv, RowsExist
  <1>10. Resting'
    <2>1. CASE ReindexStart
      <3>1. Quiet /\ UNCHANGED <<writer, worker, queue>>
        BY <2>1 DEF ReindexStart
      <3>2. Waiting' = {}
        BY <3>1 DEF Quiet, Waiting
      <3> QED
        BY <3>1, <3>2 DEF Quiet, Resting
    <2>2. CASE ReindexAddFails \/ ReindexDies
      <3>1. reindex' = Idle
        BY <2>2, Zenon DEF ReindexAddFails, ReindexDies
      <3> QED
        BY <3>1 DEF Idle, Resting
    <2> QED
      BY <2>1, <2>2
  <1>11. PagesWritten'
    BY <1>7 DEF PagesWritten, Idle
  <1> QED
    BY <1>8, <1>9, <1>10, <1>11 DEF PageInv

LEMMA PageStep ==
  ASSUME PageInv, "busy" \notin Hazards, [Next]_vars
  PROVE  PageInv'
  <1>1. CASE Reindex \/ Passes
    BY <1>1, PagesStep
  <1>2. CASE UNCHANGED vars
    <2>1. UNCHANGED <<history, records, queue, index, writer, worker, reindex, mark, account>>
      BY <1>2 DEF vars
    <2>2. \A r \in Records : RowsOf(r)' = RowsOf(r) /\ Place(r)' = Place(r)
      BY <2>1 DEF RowsOf, Place, CreatedBefore
    <2>3. AllTypes' /\ RowsExist'
      BY <2>1, <2>2 DEF PageInv, AllTypes, Tables, RowsExist, account
    <2>4. Resting'
      BY <2>1 DEF PageInv, Resting, Waiting
    <2>5. PagesWritten'
      BY <2>1, <2>2 DEF PageInv, PagesWritten
    <2> QED
      BY <2>3, <2>4, <2>5 DEF PageInv
  <1> QED
    BY <1>1, <1>2, NewRequestStep, OldRequestStep, WorkStep, ReindexEdges DEF Next, Passes

\* The reindex ends with the empty page behind the last record.
LEMMA LastPage ==
  ASSUME PageInv, [Next]_vars,
         reindex.pc = "page", reindex'.pc = "idle", failures' = failures
  PROVE  \A r \in Records \ reindex.unrepaired : index'[r] = records'[r]
  <1>1. failures \in Nat
    BY IndexAssumption DEF PageInv, AllTypes
  <1>2. reindex' # reindex
    OBVIOUS
  <1>3. ~(\E w \in Writers, r \in Records : Save(w, r) \/ UpdatePatch(w, r) \/ Delete(w, r))
    BY <1>2 DEF Save, UpdatePatch, Delete
  <1>4. ~(\E w \in Writers : Request(w) \/ RequestFails(w))
    BY <1>2 DEF Request, Destroy, FindHistory, CreateAfterhandler, RequestFails
  <1>5. ~(\E k \in Workers : Round(k) \/ HandleFails(k) \/ WorkerFails(k))
    BY <1>2 DEF Round, FindFirstNotSynced, Handle, SetSynced, SetSyncedWithError, HandleFails,
                WorkerFails
  <1>6. ~(ReindexStart \/ ReindexAddFails)
    BY DEF ReindexStart, ReindexAddFails
  <1>7. ~(ReindexDies \/ Passes)
    <2>1. failures' # failures + 1
      BY <1>1
    <2> QED
      BY <2>1, Zenon DEF ReindexDies, Passes, ReindexResetFails, ReindexAddPasses
  <1>8. ~(ReindexReset \/ ReindexClear \/ \E r \in Records : ReindexAdd(r))
    BY DEF ReindexReset, ReindexClear, ReindexAdd, Added
  <1>9. ReindexPage
    BY <1>2, <1>3, <1>4, <1>5, <1>6, <1>7, <1>8 DEF Next, Reindex, Passes, vars
  <1> DEFINE n == reindex.offset
  <1>10. n \in Nat /\ DOMAIN Page(n) = {} /\ UNCHANGED <<index, records>>
    BY <1>9 DEF ReindexPage, PageInv, AllTypes, Phases
  <1>11. \A r \in Records : records[r] # 0 => Place(r) < n
    BY <1>10, EmptyPage DEF PageInv
  <1>12. \A r \in Records \ reindex.unrepaired :
           index[r] = IF records[r] # 0 /\ Place(r) < n THEN records[r] ELSE 0
    BY DEF PageInv, PagesWritten
  <1> QED
    BY <1>10, <1>11, <1>12

(***************************************************************************)
(* In every reachable state all variables have their types, if requests    *)
(* wait while a reindex is at work.                                        *)
(***************************************************************************)
THEOREM TypesHold ==
  ASSUME "busy" \notin Hazards
  PROVE  Spec => []TypeOK
  <1>1. PageInv => TypeOK
    <2> SUFFICES ASSUME PageInv  PROVE TypeOK
      OBVIOUS
    <2>1. reindex.pc \in {"idle", "reset", "clear", "page", "add"}
      BY DEF PageInv, AllTypes, Phases
    <2> QED
      BY <2>1 DEF PageInv, AllTypes, Tables, TypeOK
  <1> QED
    BY <1>1, PageInit, PageStep, PTL DEF Spec

(***************************************************************************)
(* A reindex that runs to its end while nobody else writes makes the index *)
(* what the records are, but for the documents it has failed to drop and   *)
(* the records it has failed to add without an exception: for any number   *)
(* of records and any size of a page, and although the failures before may *)
(* have left anything in the index and in the queue.                       *)
(***************************************************************************)
THEOREM ReindexRepairs ==
  ASSUME "busy" \notin Hazards
  PROVE  Spec => ReindexRestores
  <1>1. PageInv /\ [Next]_vars =>
          [reindex.pc = "page" /\ reindex'.pc = "idle" /\ ~mark' /\ failures' = failures
             => \A r \in Records \ reindex.unrepaired : index'[r] = records'[r]]_vars
    BY LastPage
  <1> QED
    BY <1>1, PageInit, PageStep, PTL DEF Spec, ReindexRestores

===============================================================================
