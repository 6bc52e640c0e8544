------------------------------ MODULE DelayDaemon ------------------------------
(***************************************************************************)
(* The daemon of the event service that wakes delays and sends postponed   *)
(* notifications again.  Every replica runs one.  The first half of a tick *)
(* locks the delays that are due with an identifier of its own, reads      *)
(* those it has locked, sets them done one by one and reports each to the  *)
(* manager, and finally releases old locks of whoever left them behind.    *)
(* The second half, without a lock, tries the notifications that are due   *)
(* once more.  A stop event may stop the same events meanwhile.            *)
(***************************************************************************)
EXTENDS Integers, FiniteSets

CONSTANTS
  Daemons,    \* replicas
  Events,     \* delays of one workflow
  Notes,      \* notifications of the workflow whose first sending has failed
  Retries,    \* number of entries of onErrorTryResendAfter
  LockIds,    \* random lock identifiers
  NoLock, NoEvent,
  MaxCrashes, MaxErrors  \* bounds on crashes and exceptions

ASSUME DaemonAssumption ==
  /\ NoLock \notin LockIds
  /\ NoEvent \notin Events \cup Notes
  /\ Events \cap Notes = {}
  /\ Retries \in Nat \ {0}
  /\ IsFiniteSet(Daemons)
  /\ MaxCrashes \in Nat
  /\ MaxErrors \in Nat

VARIABLES
  age,      \* of a delay's due date: "early", "due" or "late" by an hour
  done,     \* events.done
  lock,     \* events.lock_id
  young,    \* delays whose lock is less than an hour old
  sent,     \* number of messages sent to the manager for an event
  left,     \* number of entries in a notification's data.dueDates
  tried,    \* number of times a notification has been sent again
  delivered,\* how often a provider has taken it
  unseen,   \* how often none has, and the code does not look
  daemon,   \* the ticks that run
  stopping, \* what the stop event has read as in progress
  stopped,  \* what the stop event has stopped
  crashes, errors

table == <<done, lock, young>>
faults == <<crashes, errors>>
notes == <<left, tried, delivered, unseen>>
vars == <<age, table, sent, notes, daemon, stopping, stopped, faults>>

Rows == Events \cup Notes

DelayHalf == {"lock", "loop", "send"}
NoteHalf == {"select", "notes", "sent", "report", "failed"}

Tick == [pc   : {"idle"} \cup DelayHalf \cup NoteHalf,
         id   : LockIds \cup {NoLock},
         list : SUBSET Events,              \* delays still to be handled
         todo : SUBSET Notes,               \* notifications still to be handled
         copy : [Notes -> 0 .. Retries],    \* data.dueDates as they were read
         now  : Rows \cup {NoEvent}]        \* the event in hand

NoTick == [pc |-> "idle", id |-> NoLock, list |-> {}, todo |-> {},
           copy |-> [n \in Notes |-> 0], now |-> NoEvent]
SecondHalf == [NoTick EXCEPT !.pc = "select"]

\* where done = false and due_date <= now()
Running == {e \in Events : e \notin done /\ age[e] # "early"}

\* crypto.randomBytes(20): nobody else has this identifier.
Unused == {i \in LockIds : /\ \A e \in Events : lock[e] # i
                           /\ \A d \in Daemons : daemon[d].id # i}

\* What the update locks.
LockableAny == Running  \* mutant: lock_id: null is left out
Lockable == {e \in Running : lock[e] = NoLock}

LockRunningEvents(d) ==
  /\ daemon[d].pc = "idle"
  /\ Unused # {}
  /\ LET id == CHOOSE i \in Unused : TRUE IN
       /\ lock' = [e \in Events |-> IF e \in Lockable THEN id ELSE lock[e]]
       /\ daemon' = [daemon EXCEPT ![d] = [NoTick EXCEPT !.pc = "lock", !.id = id]]
  /\ young' = young \cup Lockable
  /\ UNCHANGED <<age, done, sent, notes, stopping, stopped, faults>>

\* What the query selects.
Mine(id) == {e \in Running : lock[e] = id}

GetRunningEvents(d) ==
  /\ daemon[d].pc = "lock"
  /\ daemon' = [daemon EXCEPT ![d] = [@ EXCEPT !.pc = "loop", !.list = Mine(daemon[d].id)]]
  /\ UNCHANGED <<age, table, sent, notes, stopping, stopped, faults>>

\* The row is updated by its id alone.
SetDone(d, e) ==
  /\ daemon[d].pc = "loop"
  /\ e \in daemon[d].list
  /\ done' = done \cup {e}
  /\ daemon' = [daemon EXCEPT ![d] = [@ EXCEPT !.pc = "send", !.now = e]]
  /\ UNCHANGED <<age, lock, young, sent, notes, stopping, stopped, faults>>

Produce(d, e) ==
  /\ daemon[d].pc = "send"
  /\ daemon[d].now = e
  /\ sent' = [sent EXCEPT ![e] = @ + 1]
  /\ daemon' = [daemon EXCEPT ![d].pc = "loop", ![d].list = @ \ {e}, ![d].now = NoEvent]
  /\ UNCHANGED <<age, table, notes, stopping, stopped, faults>>

\* Which locks are old: the due date is what the update compares.
OldNone == {}  \* mutant: locks are never released
Old == {e \in Events : e \notin done /\ age[e] = "late"}

UnlockOldLockedEvents(d) ==
  /\ daemon[d].pc = "loop"
  /\ daemon[d].list = {}
  /\ lock' = [e \in Events |-> IF e \in Old THEN NoLock ELSE lock[e]]
  /\ young' = young \ Old
  /\ daemon' = [daemon EXCEPT ![d] = SecondHalf]
  /\ UNCHANGED <<age, done, sent, notes, stopping, stopped, faults>>

\* An exception ends the first half, old locks are not looked at.
DelayError(d) ==
  /\ daemon[d].pc \in DelayHalf
  /\ errors < MaxErrors
  /\ errors' = errors + 1
  /\ daemon' = [daemon EXCEPT ![d] = SecondHalf]
  /\ UNCHANGED <<age, table, sent, notes, stopping, stopped, crashes>>

-------------------------------------------------------------------------------
(* The second half of the tick.                                            *)

\* What the query selects: the column due_date alone says what is due.
PostponedWithEntries ==  \* mutant: the column is cleared with the last entry
  {n \in Notes : n \notin done /\ age[n] # "early" /\ left[n] > 0}
Postponed == {n \in Notes : n \notin done /\ age[n] # "early"}

GetPostponedEvents(d) ==
  /\ daemon[d].pc = "select"
  /\ daemon' = [daemon EXCEPT ![d] =
       [SecondHalf EXCEPT !.pc = "notes", !.todo = Postponed, !.copy = left]]
  /\ UNCHANGED <<age, table, sent, notes, stopping, stopped, faults>>

SendSucceeds(d, n) ==
  /\ daemon[d].pc = "notes"
  /\ n \in daemon[d].todo
  /\ tried' = [tried EXCEPT ![n] = @ + 1]
  /\ delivered' = [delivered EXCEPT ![n] = @ + 1]
  /\ daemon' = [daemon EXCEPT ![d] = [@ EXCEPT !.pc = "sent", !.now = n]]
  /\ UNCHANGED <<age, table, sent, left, unseen, stopping, stopped, faults>>

\* The provider refuses and nothing is thrown: a result for an SMS that is not a
\* list is only logged, the result for an e-mail is not looked at.
SendPassesUnseen(d, n) ==
  /\ daemon[d].pc = "notes"
  /\ n \in daemon[d].todo
  /\ errors < MaxErrors
  /\ errors' = errors + 1
  /\ tried' = [tried EXCEPT ![n] = @ + 1]
  /\ unseen' = [unseen EXCEPT ![n] = @ + 1]
  /\ daemon' = [daemon EXCEPT ![d] = [@ EXCEPT !.pc = "sent", !.now = n]]
  /\ UNCHANGED <<age, table, sent, left, delivered, stopping, stopped, crashes>>

SendFailsCaught(d, n) ==  \* mutant: the exception is caught where it is sent
  /\ daemon[d].pc = "notes"
  /\ n \in daemon[d].todo
  /\ errors < MaxErrors
  /\ errors' = errors + 1
  /\ tried' = [tried EXCEPT ![n] = @ + 1]
  /\ daemon' = [daemon EXCEPT ![d] = [@ EXCEPT !.pc = "sent", !.now = n]]
  /\ UNCHANGED <<age, table, sent, left, delivered, unseen, stopping, stopped, crashes>>
\* An exception: the service does not answer, or a list of results has a refusal.
SendFails(d, n) ==
  /\ daemon[d].pc = "notes"
  /\ n \in daemon[d].todo
  /\ errors < MaxErrors
  /\ errors' = errors + 1
  /\ tried' = [tried EXCEPT ![n] = @ + 1]
  /\ daemon' = [daemon EXCEPT ![d] = [@ EXCEPT !.pc = "failed", !.now = n]]
  /\ UNCHANGED <<age, table, sent, left, delivered, unseen, stopping, stopped, crashes>>

SetNotificationDone(d, n) ==
  /\ daemon[d].pc = "sent"
  /\ daemon[d].now = n
  /\ done' = done \cup {n}
  /\ left' = [left EXCEPT ![n] = daemon[d].copy[n]]
  /\ daemon' = [daemon EXCEPT ![d] = [@ EXCEPT !.pc = "report"]]
  /\ UNCHANGED <<age, lock, young, sent, tried, delivered, unseen, stopping, stopped, faults>>

\* The update or the report throws: what has been sent counts as failed.
SetDoneFails(d) ==
  /\ daemon[d].pc \in {"sent", "report"}
  /\ errors < MaxErrors
  /\ errors' = errors + 1
  /\ daemon' = [daemon EXCEPT ![d] = [@ EXCEPT !.pc = "failed"]]
  /\ UNCHANGED <<age, table, sent, notes, stopping, stopped, crashes>>

ReportNotification(d, n) ==
  /\ daemon[d].pc = "report"
  /\ daemon[d].now = n
  /\ sent' = [sent EXCEPT ![n] = @ + 1]
  /\ daemon' = [daemon EXCEPT ![d].pc = "notes", ![d].todo = @ \ {n}, ![d].now = NoEvent]
  /\ UNCHANGED <<age, table, notes, stopping, stopped, faults>>

\* The next entry becomes data.dueDate, or there is none any more; the column
\* due_date stays as it is.
Postpone(d, n) ==
  /\ daemon[d].pc = "failed"
  /\ daemon[d].now = n
  /\ left' = [left EXCEPT ![n] = IF daemon[d].copy[n] > 0 THEN daemon[d].copy[n] - 1 ELSE 0]
  /\ daemon' = [daemon EXCEPT ![d].pc = "notes", ![d].todo = @ \ {n}, ![d].now = NoEvent]
  /\ UNCHANGED <<age, table, sent, tried, delivered, unseen, stopping, stopped, faults>>

TickEnds(d) ==
  /\ daemon[d].pc = "notes"
  /\ daemon[d].todo = {}
  /\ daemon' = [daemon EXCEPT ![d] = NoTick]
  /\ UNCHANGED <<age, table, sent, notes, stopping, stopped, faults>>

\* The query, or the update after a failure, throws: the rest is left.
NoteError(d) ==
  /\ daemon[d].pc \in {"select", "failed"}
  /\ errors < MaxErrors
  /\ errors' = errors + 1
  /\ daemon' = [daemon EXCEPT ![d] = NoTick]
  /\ UNCHANGED <<age, table, sent, notes, stopping, stopped, crashes>>

Crash(d) ==
  /\ daemon[d].pc # "idle"
  /\ crashes < MaxCrashes
  /\ crashes' = crashes + 1
  /\ daemon' = [daemon EXCEPT ![d] = NoTick]
  /\ UNCHANGED <<age, table, sent, notes, stopping, stopped, errors>>

-------------------------------------------------------------------------------
(* Time.                                                                   *)

BecomeDue(e) ==
  /\ age[e] = "early"
  /\ age' = [age EXCEPT ![e] = "due"]
  /\ UNCHANGED <<table, sent, notes, daemon, stopping, stopped, faults>>

\* The due date is an hour ago: nobody was there to wake the delay in time.
BecomeLate(e) ==
  /\ e \in Events
  /\ age[e] = "due"
  /\ age' = [age EXCEPT ![e] = "late"]
  /\ UNCHANGED <<table, sent, notes, daemon, stopping, stopped, faults>>

\* The lock was set an hour ago, when the due date had come already.
LockAges(e) ==
  /\ e \in young
  /\ young' = young \ {e}
  /\ age' = [age EXCEPT ![e] = "late"]
  /\ UNCHANGED <<done, lock, sent, notes, daemon, stopping, stopped, faults>>

-------------------------------------------------------------------------------
(* The stop event: it reads what is in progress, then cancels by id.       *)

StopEventsRead ==
  /\ stopping = {} /\ stopped = {}
  /\ stopping' = Rows \ done
  /\ UNCHANGED <<age, table, sent, notes, daemon, stopped, faults>>

StopEventsCancel ==
  /\ stopping # {}
  /\ done' = done \cup stopping
  /\ stopped' = stopping
  /\ stopping' = {}
  /\ UNCHANGED <<age, lock, young, sent, notes, daemon, faults>>

-------------------------------------------------------------------------------
Init ==
  /\ age = [e \in Rows |-> "early"]
  /\ done = {}
  /\ lock = [e \in Events |-> NoLock]
  /\ young = {}
  /\ sent = [e \in Rows |-> 0]
  /\ left = [n \in Notes |-> Retries - 1]
  /\ tried = [n \in Notes |-> 0]
  /\ delivered = [n \in Notes |-> 0]
  /\ unseen = [n \in Notes |-> 0]
  /\ daemon = [d \in Daemons |-> NoTick]
  /\ stopping = {}
  /\ stopped = {}
  /\ crashes = 0
  /\ errors = 0

DaemonStep(d) ==
  \/ LockRunningEvents(d)
  \/ GetRunningEvents(d)
  \/ \E e \in Events : SetDone(d, e) \/ Produce(d, e)
  \/ UnlockOldLockedEvents(d)
  \/ GetPostponedEvents(d)
  \/ \E n \in Notes : \/ SendSucceeds(d, n)
                      \/ SetNotificationDone(d, n)
                      \/ ReportNotification(d, n)
                      \/ Postpone(d, n)
  \/ TickEnds(d)

TickFails(d) ==
  \/ DelayError(d)
  \/ \E n \in Notes : SendFails(d, n) \/ SendPassesUnseen(d, n)
  \/ SetDoneFails(d)
  \/ NoteError(d)

Time(e) == BecomeDue(e) \/ BecomeLate(e) \/ LockAges(e)

Next ==
  \/ \E d \in Daemons : DaemonStep(d) \/ TickFails(d) \/ Crash(d)
  \/ \E e \in Rows : Time(e)
  \/ StopEventsRead \/ StopEventsCancel

Spec == Init /\ [][Next]_vars

(***************************************************************************)
(* The interval fires again and again and a tick that has begun goes on;   *)
(* time passes.                                                            *)
(***************************************************************************)
Fairness ==
  /\ \A d \in Daemons : WF_vars(DaemonStep(d))
  /\ \A e \in Rows : WF_vars(Time(e))

FairSpec == Spec /\ Fairness

-------------------------------------------------------------------------------
TypeOK ==
  /\ age \in [Rows -> {"early", "due", "late"}]
  /\ done \subseteq Rows
  /\ lock \in [Events -> LockIds \cup {NoLock}]
  /\ young \subseteq Events
  /\ sent \in [Rows -> Nat]
  /\ left \in [Notes -> 0 .. Retries]
  /\ tried \in [Notes -> Nat]
  /\ delivered \in [Notes -> Nat]
  /\ unseen \in [Notes -> Nat]
  /\ daemon \in [Daemons -> Tick]
  /\ stopping \subseteq Rows
  /\ stopped \subseteq Rows
  /\ crashes \in 0 .. MaxCrashes
  /\ errors \in 0 .. MaxErrors

(***************************************************************************)
(* As long as a delay is not an hour overdue, it is reported at most once, *)
(* however many replicas tick at the same time: the workflow does not walk *)
(* on twice from it.                                                       *)
(***************************************************************************)
ReportedOnce == \A e \in Events : age[e] # "late" => sent[e] <= 1

(***************************************************************************)
(* Every report of a notification stands for a sending of its own that a   *)
(* provider has taken, or whose refusal the code does not look at: after   *)
(* an exception the workflow never walks on, whatever several replicas     *)
(* that send the same notification write over each other.                  *)
(***************************************************************************)
ReportedIsSent == \A n \in Notes : sent[n] <= delivered[n] + unseen[n]

(***************************************************************************)
(* A notification is sent again at the dates of its schedule: once per     *)
(* entry of onErrorTryResendAfter and no more.                             *)
(***************************************************************************)
NotificationSchedule == \A n \in Notes : tried[n] <= Retries

\* A lock that is not an hour old is released.
YoungReleased == \E e \in young : lock[e] # NoLock /\ lock'[e] = NoLock

(***************************************************************************)
(* Unlock old locked events (1 hour): a lock that is younger stays.        *)
(***************************************************************************)
UnlockOnlyOld == [][~YoungReleased]_vars

\* A lock is released whose tick has still to read what it has locked.
HeldReleased ==
  \E e \in Events, d \in Daemons :
    /\ daemon[d].pc = "lock" /\ lock[e] = daemon[d].id
    /\ lock'[e] = NoLock

(***************************************************************************)
(* Every delay that is due is taken up, even when the replica that has     *)
(* locked it dies or fails, unless the replicas go on for ever releasing   *)
(* the locks of each other's ticks.                                        *)
(***************************************************************************)
DueIsTakenUp ==
  (\A e \in Events : age[e] # "early" ~> e \in done) \/ []<><<HeldReleased>>_vars

(***************************************************************************)
(* Every notification whose sending does not throw for ever is done in the *)
(* end, also when its list of dates is used up.                            *)
(***************************************************************************)
PostponedIsSent == \A n \in Notes : age[n] # "early" ~> n \in done

===============================================================================
