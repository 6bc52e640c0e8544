------------------------------ MODULE RecordIndex ------------------------------
(***************************************************************************)
(* The search index of the register.  A request writes a record, a trigger *)
(* writes its history, and the request then queues an afterhandler for the *)
(* newest history row.  The afterhandler worker takes the queued rows one  *)
(* by one and writes the data of their history to the index; a reindex     *)
(* drops the index and writes all records to it, page by page.  One key is *)
(* modelled; data is told apart by the history row that has it.            *)
(***************************************************************************)
EXTENDS Integers, FiniteSets, Sequences

CONSTANTS
  Records,      \* records of the key
  Writers,      \* requests at work at the same time
  Workers,      \* afterhandler workers: one in each replica
  Hazards,      \* which of AllHazards may happen
  PageSize,     \* reindexLimit
  MaxHistory, MaxReindexes, MaxFailures  \* bounds

\* "overlap": two requests write one record at the same time; "patch":
\* updatePatch is used; "refuse": the index fails a request; "throw": a step
\* of a request or of a reindex fails; "busy": requests come during a reindex.
\* The queue copes with the failures of the index, and with no other of these.
AllHazards == {"overlap", "patch", "refuse", "throw", "busy"}

ASSUME IndexAssumption ==
  /\ Hazards \subseteq AllHazards
  /\ PageSize \in Nat \ {0}
  /\ MaxHistory \in Nat /\ MaxReindexes \in Nat /\ MaxFailures \in Nat

VARIABLES
  history,  \* rows written by the trigger, the oldest first
  records,  \* history row with a record's data, 0 where there is no record
  queue,    \* afterhandlers, the oldest first
  index,    \* history row with the data in the index, 0 where there is none
  writer,   \* the requests
  worker,   \* the workers' rounds
  reindex,  \* the reindex at work; "unrepaired" are the records it has passed over
            \* without an exception
  mark,     \* the key is marked as being reindexed
  orderly,  \* nothing has happened yet that the queue cannot cope with
  reindexes, failures

account == <<orderly, reindexes, failures>>
vars == <<history, records, queue, index, writer, worker, reindex, mark, account>>

HistoryRow == [record : Records, delete : BOOLEAN]
Afterhandler == [history : Nat \ {0}, synced : BOOLEAN, error : BOOLEAN]

Idle == [pc |-> "idle"]
IdleWriter == [pc |-> "idle", records |-> {}, history |-> 0]
IdleWorker == [pc |-> "idle", row |-> 0]

Present(f) == {r \in Records : f[r] # 0}
Waiting == {i \in DOMAIN queue : ~queue[i].synced}
RowsOf(r) == {h \in DOMAIN history : history[h].record = r}
Newest(S) == CHOOSE h \in S : \A g \in S : g <= h

\* Nobody is at work and nothing is left to do.
Quiet == /\ \A w \in Writers : writer[w].pc = "idle"
         /\ \A k \in Workers : worker[k].pc = "idle"
         /\ reindex.pc = "idle"
         /\ Waiting = {}

-------------------------------------------------------------------------------
(* Requests.                                                               *)

\* No request has the record in hand.
Alone(r) == \A v \in Writers : r \notin writer[v].records

MayWrite(w, r) ==
  /\ writer[w].pc = "idle"
  /\ Len(history) < MaxHistory
  /\ "overlap" \in Hazards \/ Alone(r)
  /\ "busy" \in Hazards \/ reindex.pc = "idle"

\* The trigger writes the new row of the record to the history.
Store(r) ==
  /\ history' = Append(history, [record |-> r, delete |-> FALSE])
  /\ records' = [records EXCEPT ![r] = Len(history) + 1]

\* create and update; an identifier is not used twice.
Save(w, r) ==
  /\ MayWrite(w, r)
  /\ records[r] # 0 \/ RowsOf(r) = {}
  /\ Store(r)
  /\ writer' = [writer EXCEPT ![w] = [pc |-> "find", records |-> {r}, history |-> 0]]
  /\ orderly' = (orderly /\ Alone(r))
  /\ UNCHANGED <<queue, index, worker, reindex, mark, reindexes, failures>>

\* A patched record is saved and that is all.
UpdatePatch(w, r) ==
  /\ "patch" \in Hazards
  /\ MayWrite(w, r)
  /\ records[r] # 0
  /\ Store(r)
  /\ orderly' = FALSE
  /\ UNCHANGED <<queue, index, writer, worker, reindex, mark, reindexes, failures>>

\* A record is updated for its history before it is deleted.
Delete(w, r) ==
  /\ MayWrite(w, r)
  /\ Len(history) + 1 < MaxHistory
  /\ records[r] # 0
  /\ Store(r)
  /\ writer' = [writer EXCEPT ![w] = [pc |-> "destroy", records |-> {r}, history |-> 0]]
  /\ orderly' = (orderly /\ Alone(r))
  /\ UNCHANGED <<queue, index, worker, reindex, mark, reindexes, failures>>

\* Without a row there is nothing to delete and the trigger does not fire.
Destroy(w, r) ==
  /\ writer[w].pc = "destroy"
  /\ r \in writer[w].records
  /\ history' = IF records[r] = 0 THEN history
                ELSE Append(history, [record |-> r, delete |-> TRUE])
  /\ records' = [records EXCEPT ![r] = 0]
  /\ writer' = [writer EXCEPT ![w] = [pc |-> "find", records |-> {r}, history |-> 0]]
  /\ UNCHANGED <<queue, index, worker, reindex, mark, account>>

\* Get last (newest) history row.
FindHistory(w, r) ==
  /\ writer[w].pc = "find"
  /\ r \in writer[w].records
  /\ writer' = [writer EXCEPT ![w] =
                  [pc |-> "create", records |-> {r}, history |-> Newest(RowsOf(r))]]
  /\ UNCHANGED <<history, records, queue, index, worker, reindex, mark, account>>

CreateAfterhandler(w) ==
  /\ writer[w].pc = "create"
  /\ queue' = Append(queue, [history |-> writer[w].history, synced |-> FALSE, error |-> FALSE])
  /\ writer' = [writer EXCEPT ![w] = IdleWriter]
  /\ UNCHANGED <<history, records, index, worker, reindex, mark, account>>

\* The request fails, or its replica dies.
RequestFails(w) ==
  /\ "throw" \in Hazards
  /\ writer[w].pc # "idle"
  /\ failures < MaxFailures
  /\ failures' = failures + 1
  /\ orderly' = FALSE
  /\ writer' = [writer EXCEPT ![w] = IdleWriter]
  /\ UNCHANGED <<history, records, queue, index, worker, reindex, mark, reindexes>>

-------------------------------------------------------------------------------
(* The workers.                                                            *)

First == CHOOSE i \in Waiting : \A j \in Waiting : i <= j
Last == CHOOSE i \in Waiting : \A j \in Waiting : j <= i  \* mutant: order desc

FirstNotSynced == First

FindFirstNotSynced(k) ==
  /\ worker[k].pc = "idle"
  /\ Waiting # {}
  /\ worker' = [worker EXCEPT ![k] = [pc |-> "handle", row |-> FirstNotSynced]]
  /\ UNCHANGED <<history, records, queue, index, writer, reindex, mark, account>>

\* What a history row makes of the index.
Effect(h) == IF history[h].delete THEN 0 ELSE h

\* 'created', 'updated', 'deleted', or a deletion that is 'not_found'.
HandledFound(h) == history[h].delete => index[history[h].record] # 0  \* mutant
Handled(h) == TRUE

Handle(k) ==
  /\ worker[k].pc = "handle"
  /\ LET h == queue[worker[k].row].history IN
       /\ index' = [index EXCEPT ![history[h].record] = Effect(h)]
       /\ worker' = [worker EXCEPT ![k] = IF Handled(h) THEN [@ EXCEPT !.pc = "synced"] ELSE IdleWorker]
  /\ UNCHANGED <<history, records, queue, writer, reindex, mark, account>>

\* A write that fails is an error; a deletion that fails, and a write with an
\* answer that does not say what was done, is tried again.  The answer may be
\* what is lost, so that the index has changed.
HandleFails(k) ==
  /\ "refuse" \in Hazards
  /\ worker[k].pc = "handle"
  /\ failures < MaxFailures
  /\ failures' = failures + 1
  /\ LET h == queue[worker[k].row].history IN
       /\ index' \in {index, [index EXCEPT ![history[h].record] = Effect(h)]}
       /\ \/ worker' = [worker EXCEPT ![k] = IdleWorker]
          \/ ~history[h].delete /\ worker' = [worker EXCEPT ![k] = [@ EXCEPT !.pc = "error"]]
  /\ UNCHANGED <<history, records, queue, writer, reindex, mark, orderly, reindexes>>

SetSynced(k) ==
  /\ worker[k].pc = "synced"
  /\ queue' = [queue EXCEPT ![worker[k].row].synced = TRUE]
  /\ worker' = [worker EXCEPT ![k] = IdleWorker]
  /\ UNCHANGED <<history, records, index, writer, reindex, mark, account>>

SetSyncedWithError(k) ==
  /\ worker[k].pc = "error"
  /\ queue' = [queue EXCEPT ![worker[k].row].synced = TRUE, ![worker[k].row].error = TRUE]
  /\ worker' = [worker EXCEPT ![k] = IdleWorker]
  /\ UNCHANGED <<history, records, index, writer, reindex, mark, account>>

\* The replica dies, or neither setSynced nor setSyncedWithError gets through.
WorkerFails(k) ==
  /\ worker[k].pc # "idle"
  /\ failures < MaxFailures
  /\ failures' = failures + 1
  /\ worker' = [worker EXCEPT ![k] = IdleWorker]
  /\ UNCHANGED <<history, records, queue, index, writer, reindex, mark, orderly, reindexes>>

-------------------------------------------------------------------------------
(* The reindex.                                                            *)

ReindexStart ==
  /\ reindex.pc = "idle"
  /\ reindexes < MaxReindexes
  /\ "busy" \in Hazards \/ Quiet
  /\ reindexes' = reindexes + 1
  /\ orderly' = FALSE
  /\ mark' = TRUE
  /\ reindex' = [pc |-> "reset"]
  /\ UNCHANGED <<history, records, queue, index, writer, worker, failures>>

ClearError ==
  queue' = IF queue = <<>> THEN queue ELSE [queue EXCEPT ![Len(queue)].error = FALSE]

\* The index is dropped and created, the error of the last row is cleared.
ReindexReset ==
  /\ reindex.pc = "reset"
  /\ index' = [r \in Records |-> 0]
  /\ ClearError
  /\ reindex' = [pc |-> "clear", unrepaired |-> {}]
  /\ UNCHANGED <<history, records, writer, worker, mark, account>>

\* dropIndex only logs what it fails at: the old documents stay.
ReindexResetFails ==
  /\ "refuse" \in Hazards
  /\ reindex.pc = "reset"
  /\ failures < MaxFailures
  /\ failures' = failures + 1
  /\ ClearError
  /\ reindex' = [pc |-> "clear", unrepaired |-> Present(index)]
  /\ UNCHANGED <<history, records, index, writer, worker, mark, orderly, reindexes>>

\* The history of the key, as getByKeyId returns it without options: two rows.
KeyHistory == {h \in DOMAIN history : h > Len(history) - 2}

\* setSyncedWithErrorByKeyid.
ReindexClear ==
  /\ reindex.pc = "clear"
  /\ queue' = [i \in DOMAIN queue |->
                 IF i \in Waiting /\ queue[i].history \in KeyHistory
                 THEN [queue[i] EXCEPT !.synced = TRUE, !.error = TRUE]
                 ELSE queue[i]]
  /\ reindex' = [pc |-> "page", offset |-> 0, unrepaired |-> reindex.unrepaired]
  /\ UNCHANGED <<history, records, index, writer, worker, mark, account>>

\* Records are read in the order they were created in.
CreatedBefore(r) ==
  {q \in Records : records[q] # 0 /\ \E h \in RowsOf(q) : \A g \in RowsOf(r) : h < g}

Page(offset) ==
  [r \in {q \in Records : /\ records[q] # 0
                          /\ Cardinality(CreatedBefore(q)) \in offset .. offset + PageSize - 1}
     |-> records[r]]

ReindexPage ==
  /\ reindex.pc = "page"
  /\ LET page == Page(reindex.offset) IN
       IF DOMAIN page = {}
       THEN /\ reindex' = Idle
            /\ mark' = FALSE
       ELSE /\ reindex' = [pc |-> "add", offset |-> reindex.offset, page |-> page,
                           unrepaired |-> reindex.unrepaired]
            /\ UNCHANGED mark
  /\ UNCHANGED <<history, records, queue, index, writer, worker, account>>

\* offset += limit.
NextOffsetAfter(offset) == offset + PageSize + 1  \* mutant: one too far
NextOffset(offset) == offset + PageSize

\* The reindex is done with a record of its page.
Added(r, unrepaired) ==
  /\ reindex.pc = "add"
  /\ r \in DOMAIN reindex.page
  /\ LET left == DOMAIN reindex.page \ {r} IN
       reindex' = IF left = {}
                  THEN [pc |-> "page", offset |-> NextOffset(reindex.offset),
                        unrepaired |-> unrepaired]
                  ELSE [pc |-> "add", offset |-> reindex.offset,
                        page |-> [q \in left |-> reindex.page[q]], unrepaired |-> unrepaired]

\* A record of the page is written as it was when the page was read.
ReindexAdd(r) ==
  /\ Added(r, reindex.unrepaired \ {r})
  /\ index' = [index EXCEPT ![r] = reindex.page[r]]
  /\ UNCHANGED <<history, records, queue, writer, worker, mark, account>>

\* reindexAdd answers that it has not written the record; nobody looks.
ReindexAddPasses(r) ==
  /\ "refuse" \in Hazards
  /\ failures < MaxFailures
  /\ failures' = failures + 1
  /\ Added(r, reindex.unrepaired \cup {r})
  /\ UNCHANGED <<history, records, queue, index, writer, worker, mark, orderly, reindexes>>

\* The index fails the request: the last row gets the error, the mark goes.
ReindexAddFails ==
  /\ "refuse" \in Hazards
  /\ reindex.pc = "add"
  /\ failures < MaxFailures
  /\ failures' = failures + 1
  /\ queue' = IF queue = <<>> THEN queue
              ELSE [queue EXCEPT ![Len(queue)].synced = TRUE, ![Len(queue)].error = TRUE]
  /\ reindex' = Idle
  /\ mark' = FALSE
  /\ UNCHANGED <<history, records, index, writer, worker, orderly, reindexes>>

\* Any other step fails, or the replica dies: a mark in Redis stays.
ReindexDies ==
  /\ "throw" \in Hazards
  /\ reindex.pc # "idle"
  /\ failures < MaxFailures
  /\ failures' = failures + 1
  /\ orderly' = FALSE
  /\ reindex' = Idle
  /\ mark' \in {TRUE, FALSE}
  /\ UNCHANGED <<history, records, queue, index, writer, worker, reindexes>>

-------------------------------------------------------------------------------
Init ==
  /\ history = <<>>
  /\ records = [r \in Records |-> 0]
  /\ queue = <<>>
  /\ index = [r \in Records |-> 0]
  /\ writer = [w \in Writers |-> IdleWriter]
  /\ worker = [k \in Workers |-> IdleWorker]
  /\ reindex = Idle
  /\ mark = FALSE
  /\ orderly = TRUE
  /\ reindexes = 0
  /\ failures = 0

Request(w) ==
  \/ \E r \in Records : Destroy(w, r) \/ FindHistory(w, r)
  \/ CreateAfterhandler(w)

Round(k) ==
  FindFirstNotSynced(k) \/ Handle(k) \/ SetSynced(k) \/ SetSyncedWithError(k)

Reindex ==
  \/ ReindexReset \/ ReindexClear \/ ReindexPage
  \/ \E r \in Records : ReindexAdd(r)

Next ==
  \/ \E w \in Writers, r \in Records : Save(w, r) \/ UpdatePatch(w, r) \/ Delete(w, r)
  \/ \E w \in Writers : Request(w) \/ RequestFails(w)
  \/ \E k \in Workers : Round(k) \/ HandleFails(k) \/ WorkerFails(k)
  \/ ReindexStart \/ Reindex \/ ReindexResetFails \/ ReindexAddFails \/ ReindexDies
  \/ \E r \in Records : ReindexAddPasses(r)

Spec == Init /\ [][Next]_vars

(***************************************************************************)
(* What a request, a worker and a reindex have begun goes on: each is a    *)
(* loop or a chain of awaits that nothing stops.                           *)
(***************************************************************************)
FairSpec ==
  /\ Spec
  /\ \A w \in Writers : WF_vars(Request(w))
  /\ \A k \in Workers : WF_vars(Round(k))
  /\ WF_vars(Reindex)

-------------------------------------------------------------------------------
TypeOK ==
  /\ history \in Seq(HistoryRow)
  /\ records \in [Records -> Nat]
  /\ queue \in Seq(Afterhandler)
  /\ index \in [Records -> Nat]
  /\ \A w \in Writers : /\ writer[w].pc \in {"idle", "destroy", "find", "create"}
                        /\ writer[w].records \subseteq Records
  /\ \A k \in Workers : worker[k].pc \in {"idle", "handle", "synced", "error"}
  /\ reindex.pc \in {"idle", "reset", "clear", "page", "add"}
  /\ mark \in BOOLEAN /\ orderly \in BOOLEAN
  /\ reindexes \in 0 .. MaxReindexes
  /\ failures \in 0 .. MaxFailures

\* The last change of the record is listed as failed.
LastFailed(r) ==
  \E i \in DOMAIN queue : queue[i].history = Newest(RowsOf(r)) /\ queue[i].error

(***************************************************************************)
(* When all work is done the index has the data of every record and of no  *)
(* other, but for a record whose last change is listed as failed: whatever *)
(* the index and the worker fail at, if the requests were orderly.         *)
(***************************************************************************)
IndexAgrees ==
  orderly /\ Quiet => \A r \in Records : index[r] = records[r] \/ LastFailed(r)

\* The status that syncedByIds answers with.
QueueLength ==
  Cardinality({r \in Present(records) : \E i \in Waiting : queue[i].history \in RowsOf(r)})
Synced ==
  /\ ~mark
  /\ QueueLength = 0
  /\ Cardinality(Present(records)) = Cardinality(Present(index))

(***************************************************************************)
(* When no request and no worker is half way and the status of the index   *)
(* is "Synced", the index has the data of the records.                     *)
(***************************************************************************)
SyncedIsInSync == Quiet /\ Synced => index = records

(***************************************************************************)
(* A reindex that runs to its end while nobody else writes makes the index *)
(* what the records are, whatever it was before, but for what the index    *)
(* has failed at without an exception: an old document that was not        *)
(* dropped and is not overwritten, a record that was not added.            *)
(***************************************************************************)
ReindexRestores ==
  [][reindex.pc = "page" /\ reindex'.pc = "idle" /\ ~mark' /\ failures' = failures
       => \A r \in Records \ reindex.unrepaired : index'[r] = records'[r]]_vars

(***************************************************************************)
(* The index catches up: once requests stop coming it has the data of the  *)
(* records, or lists the change it has not, and that stays so.             *)
(***************************************************************************)
CatchesUp == <>[](orderly => \A r \in Records : index[r] = records[r] \/ LastFailed(r))

===============================================================================
