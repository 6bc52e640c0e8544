--------------------------- MODULE DelayDaemonProofs ---------------------------
(***************************************************************************)
(* The locks of the daemons do what they are for as long as a delay is not *)
(* an hour overdue, and no notification is reported after an exception,    *)
(* for any number of replicas, delays and notifications.                   *)
(***************************************************************************)
EXTENDS DelayDaemon, FiniteSetTheorems, TLAPS

\* Two ticks never have the same identifier.
OwnIds ==
  \A d, f \in Daemons : d # f /\ daemon[d].id # NoLock => daemon[d].id # daemon[f].id

\* A tick has only delays in hand that are locked with its identifier and
\* that nobody has reported, but for those that are late.
HeldIsMine ==
  \A d \in Daemons : \A e \in daemon[d].list :
    /\ daemon[d].pc \in {"loop", "send"}
    /\ age[e] # "late" => lock[e] = daemon[d].id /\ sent[e] = 0

SendsHeld ==
  \A d \in Daemons : daemon[d].pc = "send" => daemon[d].now \in daemon[d].list

BusyHasId == \A d \in Daemons : daemon[d].pc \in DelayHalf <=> daemon[d].id # NoLock

ReportedIsDone == \A e \in Events : sent[e] > 0 => e \in done

\* A delay about to be reported is done.
NowIsDone == \A d \in Daemons : daemon[d].pc = "send" => daemon[d].now \in done

LockInv ==
  /\ OwnIds
  /\ HeldIsMine
  /\ SendsHeld
  /\ BusyHasId
  /\ ReportedIsDone
  /\ NowIsDone
  /\ ReportedOnce

DInv == TypeOK /\ LockInv

-------------------------------------------------------------------------------
LEMMA TickTyped ==
  /\ NoTick \in Tick /\ SecondHalf \in Tick
  /\ NoTick.pc = "idle" /\ NoTick.list = {} /\ NoTick.id = NoLock
  /\ SecondHalf.pc = "select" /\ SecondHalf.list = {} /\ SecondHalf.id = NoLock
  <1>1. [n \in Notes |-> 0] \in [Notes -> 0 .. Retries]
    BY DaemonAssumption
  <1> QED
    BY <1>1 DEF NoTick, SecondHalf, Tick, NoteHalf

\* A tick whose phase, list, identifier or event in hand changes within their
\* types is a tick.
LEMMA TickChanged ==
  ASSUME NEW t \in Tick, NEW p \in {"idle"} \cup DelayHalf \cup NoteHalf,
         NEW l \in SUBSET Events, NEW o \in SUBSET Notes, NEW e \in Rows \cup {NoEvent}
  PROVE  /\ [t EXCEPT !.pc = p, !.now = e] \in Tick
         /\ [t EXCEPT !.pc = p] \in Tick
         /\ [t EXCEPT !.pc = p, !.list = l] \in Tick
         /\ [t EXCEPT !.pc = p, !.list = l, !.now = e] \in Tick
         /\ [t EXCEPT !.pc = p, !.todo = o, !.now = e] \in Tick
  BY DEF Tick

LEMMA TypeStep ==
  ASSUME TypeOK, [Next]_vars
  PROVE  TypeOK'
  <1> USE DEF TypeOK, table, faults, notes
  <1>0. Events \subseteq Rows /\ Notes \subseteq Rows
    BY DEF Rows
  <1>1. ASSUME NEW d \in Daemons, LockRunningEvents(d)  PROVE TypeOK'
    <2> DEFINE id == CHOOSE i \in Unused : TRUE
    <2>1. id \in LockIds
      BY <1>1 DEF LockRunningEvents, Unused
    <2>2. [NoTick EXCEPT !.pc = "lock", !.id = id] \in Tick
      <3> HIDE DEF id
      <3> QED
        BY <2>1, TickTyped DEF Tick, DelayHalf
    <2>3. daemon' \in [Daemons -> Tick]
      BY <1>1, <2>2 DEF LockRunningEvents
    <2>4. lock' \in [Events -> LockIds \cup {NoLock}] /\ young' \subseteq Events
      BY <1>1, <2>1 DEF LockRunningEvents, Lockable, Running
    <2> QED
      BY <1>1, <2>3, <2>4 DEF LockRunningEvents
  <1>2. ASSUME NEW d \in Daemons, GetRunningEvents(d)  PROVE TypeOK'
    <2>1. [daemon[d] EXCEPT !.pc = "loop", !.list = Mine(daemon[d].id)] \in Tick
      BY TickChanged DEF Mine, Running, DelayHalf
    <2> QED
      BY <1>2, <2>1 DEF GetRunningEvents
  <1>3. ASSUME NEW d \in Daemons, NEW e \in Events, SetDone(d, e)  PROVE TypeOK'
    <2>1. [daemon[d] EXCEPT !.pc = "send", !.now = e] \in Tick
      BY <1>0, TickChanged DEF DelayHalf
    <2> QED
      BY <1>0, <1>3, <2>1 DEF SetDone
  <1>4. ASSUME NEW d \in Daemons, NEW e \in Events, Produce(d, e)  PROVE TypeOK'
    <2> DEFINE rest == daemon[d].list \ {e}
               after == [daemon[d] EXCEPT !.pc = "loop", !.list = rest, !.now = NoEvent]
    <2>1. daemon' = [daemon EXCEPT ![d] = after]
      BY <1>4 DEF Produce
    <2>2. rest \in SUBSET Events
      BY DEF Tick
    <2>3. after \in Tick
      <3> HIDE DEF rest
      <3> QED
        BY <2>2, TickChanged DEF DelayHalf
    <2>4. sent' \in [Rows -> Nat]
      BY <1>0, <1>4 DEF Produce
    <2>5. daemon' \in [Daemons -> Tick]
      <3> HIDE DEF after
      <3> QED
        BY <2>1, <2>3
    <2>6. UNCHANGED <<age, done, lock, young, left, tried, delivered, unseen, stopping, stopped, crashes, errors>>
      BY <1>4 DEF Produce
    <2> QED
      BY <2>4, <2>5, <2>6
  <1>5. ASSUME NEW d \in Daemons, UnlockOldLockedEvents(d)  PROVE TypeOK'
    BY <1>5, TickTyped DEF UnlockOldLockedEvents, Old
  <1>6. ASSUME NEW d \in Daemons, DelayError(d) \/ NoteError(d) \/ Crash(d)  PROVE TypeOK'
    <2>1. crashes' \in 0 .. MaxCrashes /\ errors' \in 0 .. MaxErrors
      BY <1>6, DaemonAssumption DEF DelayError, NoteError, Crash
    <2> QED
      BY <1>6, <2>1, TickTyped DEF DelayError, NoteError, Crash
  <1>7. ASSUME NEW e \in Rows, Time(e)  PROVE TypeOK'
    BY <1>7 DEF Time, BecomeDue, BecomeLate, LockAges
  <1>8. ASSUME StopEventsRead \/ StopEventsCancel  PROVE TypeOK'
    BY <1>8 DEF StopEventsRead, StopEventsCancel
  <1>9. ASSUME NEW d \in Daemons, GetPostponedEvents(d) \/ TickEnds(d)  PROVE TypeOK'
    <2>1. [SecondHalf EXCEPT !.pc = "notes", !.todo = Postponed, !.copy = left] \in Tick
      BY TickTyped DEF Tick, Postponed, NoteHalf
    <2> QED
      BY <1>9, <2>1, TickTyped DEF GetPostponedEvents, TickEnds
  <1>10. ASSUME NEW d \in Daemons, NEW n \in Notes,
                SendSucceeds(d, n) \/ SendPassesUnseen(d, n) \/ SendFails(d, n)
         PROVE  TypeOK'
    <2>1. /\ [daemon[d] EXCEPT !.pc = "sent", !.now = n] \in Tick
          /\ [daemon[d] EXCEPT !.pc = "failed", !.now = n] \in Tick
      BY <1>0, TickChanged DEF NoteHalf
    <2>2. errors' \in 0 .. MaxErrors
      BY <1>10, DaemonAssumption DEF SendSucceeds, SendPassesUnseen, SendFails
    <2>3. daemon' \in [Daemons -> Tick]
      BY <1>10, <2>1 DEF SendSucceeds, SendPassesUnseen, SendFails
    <2> QED
      BY <1>10, <2>2, <2>3 DEF SendSucceeds, SendPassesUnseen, SendFails
  <1>11. ASSUME NEW d \in Daemons, NEW n \in Notes, SetNotificationDone(d, n)  PROVE TypeOK'
    <2>1. [daemon[d] EXCEPT !.pc = "report"] \in Tick
      BY TickChanged DEF NoteHalf
    <2>2. daemon[d].copy[n] \in 0 .. Retries
      BY DEF Tick
    <2> QED
      BY <1>0, <1>11, <2>1, <2>2 DEF SetNotificationDone
  <1>12. ASSUME NEW d \in Daemons, SetDoneFails(d)  PROVE TypeOK'
    <2>1. [daemon[d] EXCEPT !.pc = "failed"] \in Tick
      BY TickChanged DEF NoteHalf
    <2>2. errors' \in 0 .. MaxErrors
      BY <1>12, DaemonAssumption DEF SetDoneFails
    <2> QED
      BY <1>12, <2>1, <2>2 DEF SetDoneFails
  <1>13. ASSUME NEW d \in Daemons, NEW n \in Notes, ReportNotification(d, n) \/ Postpone(d, n)
         PROVE  TypeOK'
    <2> DEFINE rest == daemon[d].todo \ {n}
               after == [daemon[d] EXCEPT !.pc = "notes", !.todo = rest, !.now = NoEvent]
    <2>1. daemon' = [daemon EXCEPT ![d] = after]
      <3>1. CASE ReportNotification(d, n)
        BY <3>1 DEF ReportNotification
      <3>2. CASE Postpone(d, n)
        BY <3>2 DEF Postpone
      <3> QED
        BY <1>13, <3>1, <3>2
    <2>2. rest \in SUBSET Notes
      BY DEF Tick
    <2>3. after \in Tick
      <3> HIDE DEF rest
      <3> QED
        BY <2>2, TickChanged DEF NoteHalf
    <2>4. daemon[d].copy[n] \in 0 .. Retries
      BY DEF Tick
    <2>5. left' \in [Notes -> 0 .. Retries]
      <3>1. (IF daemon[d].copy[n] > 0 THEN daemon[d].copy[n] - 1 ELSE 0) \in 0 .. Retries
        BY <2>4, DaemonAssumption
      <3> QED
        BY <1>13, <3>1 DEF ReportNotification, Postpone
    <2>6. sent' \in [Rows -> Nat]
      BY <1>0, <1>13 DEF ReportNotification, Postpone
    <2> HIDE DEF after
    <2> QED
      BY <1>13, <2>1, <2>3, <2>5, <2>6 DEF ReportNotification, Postpone
  <1>14. CASE UNCHANGED vars
    BY <1>14 DEF vars
  <1> QED
    BY <1>1, <1>2, <1>3, <1>4, <1>5, <1>6, <1>7, <1>8, <1>9, <1>10, <1>11, <1>12, <1>13, <1>14
    DEF Next, DaemonStep, TickFails

LEMMA InitTyped == Init => TypeOK
  <1>1. Retries - 1 \in 0 .. Retries /\ 0 \in 0 .. MaxCrashes /\ 0 \in 0 .. MaxErrors
    BY DaemonAssumption
  <1> QED
    BY <1>1, TickTyped DEF Init, TypeOK

(***************************************************************************)
(* Whatever is written about a delay, its type holds: the tables have      *)
(* their types and the daemons their shape in every reachable state.       *)
(***************************************************************************)
THEOREM TypesHold == Spec => []TypeOK
  <1>1. Init => TypeOK
    BY InitTyped
  <1> QED
    BY <1>1, TypeStep, PTL DEF Spec

-------------------------------------------------------------------------------
\* A half that ends leaves nothing behind that the others rely on.
LEMMA EndOfHalf ==
  ASSUME DInv, NEW d \in Daemons, NEW t \in {NoTick, SecondHalf},
         daemon' = [daemon EXCEPT ![d] = t],
         UNCHANGED <<age, done, sent>>,
         \A e \in Events : age[e] # "late" => lock'[e] = lock[e]
  PROVE  LockInv'
  <1>1. /\ daemon'[d] = t
        /\ \A f \in Daemons : f # d => daemon'[f] = daemon[f]
    BY DEF DInv, TypeOK
  <1>2. t.list = {} /\ t.id = NoLock /\ t.pc \notin DelayHalf
    BY TickTyped DEF DelayHalf
  <1>3. OwnIds' /\ SendsHeld' /\ BusyHasId' /\ NowIsDone'
    BY <1>1, <1>2 DEF DInv, LockInv, OwnIds, SendsHeld, BusyHasId, NowIsDone, DelayHalf
  <1>4. HeldIsMine'
    BY <1>1, <1>2 DEF DInv, TypeOK, Tick, LockInv, HeldIsMine
  <1>5. ReportedIsDone' /\ ReportedOnce'
    BY DEF DInv, LockInv, ReportedIsDone, ReportedOnce
  <1> QED
    BY <1>3, <1>4, <1>5 DEF LockInv

\* Nor does a step of the second half change what they rely on.
LEMMA NoteStep ==
  ASSUME DInv, NEW d \in Daemons,
         daemon[d].pc \notin DelayHalf, daemon'[d].pc \notin DelayHalf,
         daemon'[d].list = {}, daemon'[d].id = NoLock,
         \A f \in Daemons : f # d => daemon'[f] = daemon[f],
         UNCHANGED <<age, lock>>, done \subseteq done',
         \A e \in Events : sent'[e] = sent[e]
  PROVE  LockInv'
  <1>1. OwnIds' /\ SendsHeld' /\ BusyHasId' /\ NowIsDone'
    BY DEF DInv, LockInv, OwnIds, SendsHeld, BusyHasId, NowIsDone, DelayHalf
  <1>2. HeldIsMine'
    BY DEF DInv, TypeOK, Tick, LockInv, HeldIsMine
  <1>3. ReportedIsDone' /\ ReportedOnce'
    BY DEF DInv, LockInv, ReportedIsDone, ReportedOnce
  <1> QED
    BY <1>1, <1>2, <1>3 DEF LockInv

LEMMA LockStep ==
  ASSUME DInv, [Next]_vars
  PROVE  LockInv'
  <1> USE DEF table, faults, notes
  <1>0. TypeOK /\ LockInv
    BY DEF DInv
  <1>1. ASSUME NEW d \in Daemons, LockRunningEvents(d)  PROVE LockInv'
    <2>1. PICK id \in Unused :
            /\ lock' = [e \in Events |-> IF e \in Lockable THEN id ELSE lock[e]]
            /\ daemon' = [daemon EXCEPT ![d] = [NoTick EXCEPT !.pc = "lock", !.id = id]]
      BY <1>1 DEF LockRunningEvents
    <2>2. /\ daemon'[d].pc = "lock" /\ daemon'[d].id = id /\ daemon'[d].list = {}
          /\ \A f \in Daemons : f # d => daemon'[f] = daemon[f]
          /\ id # NoLock
      BY <1>0, <2>1, DaemonAssumption DEF TypeOK, NoTick, Unused
    <2>3. UNCHANGED <<age, done, sent>>
      BY <1>1 DEF LockRunningEvents
    <2>4. OwnIds'
      BY <1>0, <2>1, <2>2 DEF LockInv, OwnIds, Unused
    <2>5. HeldIsMine'
      <3>1. ASSUME NEW f \in Daemons, NEW e \in daemon'[f].list
            PROVE  /\ daemon'[f].pc \in {"loop", "send"}
                   /\ age'[e] # "late" => lock'[e] = daemon'[f].id /\ sent'[e] = 0
        <4>1. f # d /\ daemon'[f] = daemon[f] /\ e \in daemon[f].list /\ e \in Events
          BY <1>0, <2>2, <3>1 DEF TypeOK, Tick
        <4>2. /\ daemon[f].pc \in {"loop", "send"}
              /\ age[e] # "late" => lock[e] = daemon[f].id /\ sent[e] = 0
          BY <1>0, <4>1 DEF LockInv, HeldIsMine
        <4>3. age[e] # "late" => lock[e] # NoLock
          BY <1>0, <4>1, <4>2 DEF LockInv, BusyHasId, DelayHalf
        <4>4. age[e] # "late" => lock'[e] = lock[e]
          BY <2>1, <4>1, <4>3 DEF Lockable
        <4> QED
          BY <2>3, <4>1, <4>2, <4>4
      <3> QED
        BY <3>1 DEF HeldIsMine
    <2>6. SendsHeld' /\ BusyHasId' /\ NowIsDone'
      BY <1>0, <2>2, <2>3 DEF LockInv, SendsHeld, BusyHasId, NowIsDone, DelayHalf
    <2>7. ReportedIsDone' /\ ReportedOnce'
      BY <1>0, <2>3 DEF LockInv, ReportedIsDone, ReportedOnce
    <2> QED
      BY <2>4, <2>5, <2>6, <2>7 DEF LockInv
  <1>2. ASSUME NEW d \in Daemons, GetRunningEvents(d)  PROVE LockInv'
    <2>1. /\ daemon[d].pc = "lock" /\ daemon'[d].pc = "loop"
          /\ daemon'[d].id = daemon[d].id
          /\ daemon'[d].list = Mine(daemon[d].id)
          /\ \A f \in Daemons : f # d => daemon'[f] = daemon[f]
          /\ UNCHANGED <<age, done, lock, sent>>
      BY <1>0, <1>2 DEF GetRunningEvents, TypeOK, Tick
    <2>2. \A e \in Mine(daemon[d].id) : lock[e] = daemon[d].id /\ sent[e] = 0
      <3>1. \A e \in Events : sent[e] \in Nat
        BY <1>0 DEF TypeOK, Rows
      <3> QED
        BY <1>0, <3>1 DEF Mine, Running, LockInv, ReportedIsDone
    <2>3. OwnIds' /\ BusyHasId'
      BY <1>0, <2>1 DEF LockInv, OwnIds, BusyHasId, DelayHalf
    <2>4. HeldIsMine' /\ SendsHeld' /\ NowIsDone'
      BY <1>0, <2>1, <2>2 DEF LockInv, HeldIsMine, SendsHeld, NowIsDone
    <2>5. ReportedIsDone' /\ ReportedOnce'
      BY <1>0, <2>1 DEF LockInv, ReportedIsDone, ReportedOnce
    <2> QED
      BY <2>3, <2>4, <2>5 DEF LockInv
  <1>3. ASSUME NEW d \in Daemons, NEW e \in Events, SetDone(d, e)  PROVE LockInv'
    <2>1. /\ daemon[d].pc = "loop" /\ daemon'[d].pc = "send"
          /\ daemon'[d].id = daemon[d].id
          /\ daemon'[d].list = daemon[d].list
          /\ daemon'[d].now = e /\ e \in daemon[d].list
          /\ \A f \in Daemons : f # d => daemon'[f] = daemon[f]
          /\ done' = done \cup {e} /\ UNCHANGED <<age, lock, sent>>
      BY <1>0, <1>3 DEF SetDone, TypeOK, Tick
    <2>2. OwnIds' /\ BusyHasId'
      BY <1>0, <2>1 DEF LockInv, OwnIds, BusyHasId, DelayHalf
    <2>3. HeldIsMine' /\ SendsHeld' /\ NowIsDone'
      BY <1>0, <2>1 DEF LockInv, HeldIsMine, SendsHeld, NowIsDone
    <2>4. ReportedIsDone' /\ ReportedOnce'
      BY <1>0, <2>1 DEF LockInv, ReportedIsDone, ReportedOnce
    <2> QED
      BY <2>2, <2>3, <2>4 DEF LockInv
  <1>4. ASSUME NEW d \in Daemons, NEW n \in Events, Produce(d, n)  PROVE LockInv'
    <2>1. /\ daemon[d].pc = "send" /\ daemon[d].now = n /\ daemon'[d].pc = "loop"
          /\ daemon'[d].id = daemon[d].id
          /\ daemon'[d].list = daemon[d].list \ {n}
          /\ \A f \in Daemons : f # d => daemon'[f] = daemon[f]
          /\ UNCHANGED <<age, done, lock>>
      BY <1>0, <1>4 DEF Produce, TypeOK, Tick
    <2>2. /\ n \in daemon[d].list /\ n \in done
          /\ age[n] # "late" => sent[n] = 0 /\ lock[n] = daemon[d].id
      BY <1>0, <2>1 DEF LockInv, SendsHeld, NowIsDone, HeldIsMine
    <2>3. /\ age[n] # "late" => sent'[n] = 1
          /\ \A e \in Events : e # n => sent'[e] = sent[e]
      BY <1>0, <1>4, <2>2 DEF Produce, TypeOK, Rows
    <2>4. OwnIds' /\ BusyHasId'
      BY <1>0, <2>1 DEF LockInv, OwnIds, BusyHasId, DelayHalf
    <2>5. HeldIsMine'
      <3>1. ASSUME NEW f \in Daemons, NEW e \in daemon'[f].list
            PROVE  /\ daemon'[f].pc \in {"loop", "send"}
                   /\ age'[e] # "late" => lock'[e] = daemon'[f].id /\ sent'[e] = 0
        <4>1. /\ e \in daemon[f].list /\ e \in Events
              /\ daemon[f].pc \in {"loop", "send"}
              /\ age[e] # "late" => lock[e] = daemon[f].id /\ sent[e] = 0
          BY <1>0, <2>1, <3>1 DEF LockInv, HeldIsMine, TypeOK, Tick
        <4>2. age[e] # "late" => e # n
          <5>1. CASE f = d
            BY <2>1, <3>1, <5>1
          <5>2. CASE f # d
            BY <1>0, <2>1, <2>2, <4>1, <5>2 DEF LockInv, OwnIds, BusyHasId, DelayHalf
          <5> QED
            BY <5>1, <5>2
        <4> QED
          BY <2>1, <2>3, <4>1, <4>2
      <3> QED
        BY <3>1 DEF HeldIsMine
    <2>6. SendsHeld' /\ NowIsDone'
      BY <1>0, <2>1 DEF LockInv, SendsHeld, NowIsDone
    <2>7. ReportedIsDone' /\ ReportedOnce'
      BY <1>0, <2>1, <2>2, <2>3 DEF LockInv, ReportedIsDone, ReportedOnce
    <2> QED
      BY <2>4, <2>5, <2>6, <2>7 DEF LockInv
  <1>5. ASSUME NEW d \in Daemons, UnlockOldLockedEvents(d)  PROVE LockInv'
    <2>1. \A e \in Events : age[e] # "late" => lock'[e] = lock[e]
      BY <1>5 DEF UnlockOldLockedEvents, Old
    <2> QED
      BY <1>5, <2>1, EndOfHalf DEF UnlockOldLockedEvents
  <1>6. ASSUME NEW d \in Daemons, DelayError(d) \/ NoteError(d) \/ Crash(d) \/ TickEnds(d)
        PROVE  LockInv'
    BY <1>6, EndOfHalf DEF DelayError, NoteError, Crash, TickEnds
  <1>7. ASSUME NEW e \in Rows, Time(e)  PROVE LockInv'
    <2>1. /\ UNCHANGED <<done, lock, sent, daemon>>
          /\ \A f \in Events : age'[f] # "late" => age[f] # "late"
      BY <1>0, <1>7 DEF Time, BecomeDue, BecomeLate, LockAges, TypeOK, Rows
    <2>2. HeldIsMine'
      BY <1>0, <2>1 DEF LockInv, HeldIsMine, TypeOK, Tick
    <2> QED
      BY <1>0, <2>1, <2>2 DEF LockInv, OwnIds, SendsHeld, BusyHasId,
                        ReportedIsDone, NowIsDone, ReportedOnce
  <1>8. ASSUME StopEventsRead \/ StopEventsCancel \/ UNCHANGED vars  PROVE LockInv'
    <2>1. UNCHANGED <<age, lock, sent, daemon>> /\ done \subseteq done'
      BY <1>8 DEF StopEventsRead, StopEventsCancel, vars
    <2> QED
      BY <1>0, <2>1 DEF LockInv, OwnIds, HeldIsMine, SendsHeld, BusyHasId,
                        ReportedIsDone, NowIsDone, ReportedOnce
  <1>9. ASSUME NEW d \in Daemons, GetPostponedEvents(d)  PROVE LockInv'
    <2>1. /\ daemon[d].pc = "select" /\ daemon'[d].pc = "notes"
          /\ daemon'[d].list = {} /\ daemon'[d].id = NoLock
          /\ \A f \in Daemons : f # d => daemon'[f] = daemon[f]
          /\ UNCHANGED <<age, lock, done, sent>>
      BY <1>0, <1>9, TickTyped DEF GetPostponedEvents, TypeOK, SecondHalf, NoTick
    <2> QED
      BY <2>1, NoteStep DEF DelayHalf
  <1>10. ASSUME NEW d \in Daemons, NEW n \in Notes,
                \/ SendSucceeds(d, n) \/ SendPassesUnseen(d, n) \/ SendFails(d, n)
                \/ SetNotificationDone(d, n) \/ ReportNotification(d, n) \/ Postpone(d, n)
         PROVE  LockInv'
    <2>1. /\ daemon[d].pc \in NoteHalf /\ daemon'[d].pc \in NoteHalf
          /\ daemon'[d].list = daemon[d].list /\ daemon'[d].id = daemon[d].id
          /\ \A f \in Daemons : f # d => daemon'[f] = daemon[f]
      <3> USE DEF TypeOK, Tick, NoteHalf
      <3>1. CASE SendSucceeds(d, n)
        BY <1>0, <3>1 DEF SendSucceeds
      <3>2. CASE SendFails(d, n)
        BY <1>0, <3>2 DEF SendFails
      <3>3. CASE SetNotificationDone(d, n)
        BY <1>0, <3>3 DEF SetNotificationDone
      <3>4. CASE ReportNotification(d, n)
        BY <1>0, <3>4 DEF ReportNotification
      <3>5. CASE Postpone(d, n)
        BY <1>0, <3>5 DEF Postpone
      <3>6. CASE SendPassesUnseen(d, n)
        BY <1>0, <3>6 DEF SendPassesUnseen
      <3> QED
        BY <1>10, <3>1, <3>2, <3>3, <3>4, <3>5, <3>6
    <2>2. daemon[d].list = {} /\ daemon[d].id = NoLock
      BY <1>0, <2>1 DEF LockInv, HeldIsMine, BusyHasId, NoteHalf, DelayHalf, TypeOK, Tick
    <2>3. /\ UNCHANGED <<age, lock>> /\ done \subseteq done'
          /\ \A e \in Events : sent'[e] = sent[e]
      BY <1>0, <1>10, DaemonAssumption
      DEF SendSucceeds, SendPassesUnseen, SendFails, SetNotificationDone,
          ReportNotification, Postpone, TypeOK, Rows
    <2> QED
      BY <2>1, <2>2, <2>3, NoteStep DEF NoteHalf, DelayHalf
  <1>11. ASSUME NEW d \in Daemons, SetDoneFails(d)  PROVE LockInv'
    <2>1. /\ daemon[d].pc \in {"sent", "report"} /\ daemon'[d].pc = "failed"
          /\ daemon'[d].list = daemon[d].list /\ daemon'[d].id = daemon[d].id
          /\ \A f \in Daemons : f # d => daemon'[f] = daemon[f]
          /\ UNCHANGED <<age, lock, done, sent>>
      BY <1>0, <1>11 DEF SetDoneFails, TypeOK, Tick
    <2>2. daemon[d].list = {} /\ daemon[d].id = NoLock
      BY <1>0, <2>1 DEF LockInv, HeldIsMine, BusyHasId, DelayHalf, TypeOK, Tick
    <2> QED
      BY <2>1, <2>2, NoteStep DEF DelayHalf
  <1> QED
    BY <1>1, <1>2, <1>3, <1>4, <1>5, <1>6, <1>7, <1>8, <1>9, <1>10, <1>11
    DEF Next, DaemonStep, TickFails

(***************************************************************************)
(* With any number of replicas, a delay that is not an hour overdue is     *)
(* reported at most once, whatever the daemons' crashes and exceptions and *)
(* whenever a stop event comes.                                            *)
(***************************************************************************)
THEOREM OnceWhenPrompt == Spec => []ReportedOnce
  <1>1. Init => DInv
    <2> SUFFICES ASSUME Init  PROVE DInv
      OBVIOUS
    <2>1. LockInv
      BY TickTyped DEF Init, LockInv, OwnIds, HeldIsMine, SendsHeld, BusyHasId,
                       ReportedIsDone, NowIsDone, ReportedOnce, Rows, DelayHalf
    <2> QED
      BY <2>1, InitTyped DEF DInv
  <1>2. DInv /\ [Next]_vars => DInv'
    BY TypeStep, LockStep DEF DInv
  <1>3. DInv => ReportedOnce
    BY DEF DInv, LockInv
  <1> QED
    BY <1>1, <1>2, <1>3, PTL DEF Spec

-------------------------------------------------------------------------------
(* A tick that has sent a notification has still to report it: the reports *)
(* made and those to come are no more than the sendings that did not throw.*)

Reporters(n) == {d \in Daemons : daemon[d].pc \in {"sent", "report"} /\ daemon[d].now = n}

Sendings(n) == delivered[n] + unseen[n]

Owed == \A n \in Notes : sent[n] + Cardinality(Reporters(n)) <= Sendings(n)

LEMMA ReportersFinite ==
  ASSUME NEW n \in Notes
  PROVE  /\ IsFiniteSet(Reporters(n)) /\ Cardinality(Reporters(n)) \in Nat
         /\ \A S \in SUBSET Reporters(n) :
              Cardinality(S) \in Nat /\ Cardinality(S) <= Cardinality(Reporters(n))
  BY DaemonAssumption, FS_Subset, FS_CardinalityType DEF Reporters

\* Whoever ceases to report, or goes on doing so, leaves the account as it is.
LEMMA FewerReporters ==
  ASSUME TypeOK, Owed, UNCHANGED <<sent, delivered, unseen>>,
         \A n \in Notes : Reporters(n)' \subseteq Reporters(n)
  PROVE  Owed'
  <1> SUFFICES ASSUME NEW n \in Notes
               PROVE  sent'[n] + Cardinality(Reporters(n)') <= Sendings(n)'
    BY DEF Owed
  <1>1. sent[n] \in Nat /\ Sendings(n) \in Nat
    BY DEF TypeOK, Rows, Sendings
  <1>2. /\ Cardinality(Reporters(n)) \in Nat /\ Cardinality(Reporters(n)') \in Nat
        /\ Cardinality(Reporters(n)') <= Cardinality(Reporters(n))
    BY ReportersFinite
  <1>3. sent[n] + Cardinality(Reporters(n)) <= Sendings(n)
    BY DEF Owed
  <1>4. Sendings(n)' = Sendings(n)
    BY DEF Sendings
  <1> QED
    BY <1>1, <1>2, <1>3, <1>4

LEMMA OwedStep ==
  ASSUME TypeOK, Owed, [Next]_vars
  PROVE  Owed'
  <1> USE DEF table, faults, notes
  <1>1. ASSUME NEW d \in Daemons, NEW n \in Notes,
               SendSucceeds(d, n) \/ SendPassesUnseen(d, n)
        PROVE  Owed'
    <2>1. /\ daemon[d].pc = "notes" /\ daemon'[d].pc = "sent" /\ daemon'[d].now = n
          /\ \A f \in Daemons : f # d => daemon'[f] = daemon[f]
          /\ sent' = sent /\ Sendings(n)' = Sendings(n) + 1
          /\ \A m \in Notes : m # n => Sendings(m)' = Sendings(m)
      <3> USE DEF TypeOK, Tick, Sendings
      <3>1. CASE SendSucceeds(d, n)
        BY <3>1 DEF SendSucceeds
      <3>2. CASE SendPassesUnseen(d, n)
        BY <3>2 DEF SendPassesUnseen
      <3> QED
        BY <1>1, <3>1, <3>2
    <2> SUFFICES ASSUME NEW m \in Notes
                 PROVE  sent'[m] + Cardinality(Reporters(m)') <= Sendings(m)'
      BY DEF Owed
    <2>2. sent[m] \in Nat /\ Sendings(m) \in Nat
      BY DEF TypeOK, Rows, Sendings
    <2>3. /\ IsFiniteSet(Reporters(m)) /\ Cardinality(Reporters(m)) \in Nat
          /\ sent[m] + Cardinality(Reporters(m)) <= Sendings(m)
      BY ReportersFinite DEF Owed
    <2>4. CASE m = n
      <3>1. Reporters(m)' = Reporters(m) \cup {d} /\ d \notin Reporters(m)
        BY <2>1, <2>4 DEF Reporters
      <3>2. Cardinality(Reporters(m)') = Cardinality(Reporters(m)) + 1
        BY <2>3, <3>1, FS_AddElement
      <3> QED
        BY <2>1, <2>2, <2>3, <2>4, <3>2
    <2>5. CASE m # n
      <3>1. Reporters(m)' = Reporters(m)
        BY <2>1, <2>5 DEF Reporters
      <3> QED
        BY <2>1, <2>2, <2>3, <2>5, <3>1
    <2> QED
      BY <2>4, <2>5
  <1>2. ASSUME NEW d \in Daemons, NEW n \in Notes, ReportNotification(d, n)  PROVE Owed'
    <2>1. /\ daemon[d].pc = "report" /\ daemon[d].now = n /\ daemon'[d].pc = "notes"
          /\ \A f \in Daemons : f # d => daemon'[f] = daemon[f]
          /\ \A m \in Notes : Sendings(m)' = Sendings(m)
      BY <1>2 DEF ReportNotification, Sendings, TypeOK, Tick
    <2>2. \A m \in Notes : sent'[m] = IF m = n THEN sent[m] + 1 ELSE sent[m]
      BY <1>2 DEF ReportNotification, TypeOK, Rows
    <2> SUFFICES ASSUME NEW m \in Notes
                 PROVE  sent'[m] + Cardinality(Reporters(m)') <= Sendings(m)'
      BY DEF Owed
    <2>3. sent[m] \in Nat /\ Sendings(m) \in Nat
      BY DEF TypeOK, Rows, Sendings
    <2>4. /\ IsFiniteSet(Reporters(m)) /\ Cardinality(Reporters(m)) \in Nat
          /\ sent[m] + Cardinality(Reporters(m)) <= Sendings(m)
      BY ReportersFinite DEF Owed
    <2>5. CASE m = n
      <3>1. Reporters(m)' = Reporters(m) \ {d} /\ d \in Reporters(m)
        BY <2>1, <2>5 DEF Reporters
      <3>2. Cardinality(Reporters(m)') = Cardinality(Reporters(m)) - 1
        BY <2>4, <3>1, FS_RemoveElement
      <3> QED
        BY <2>1, <2>2, <2>3, <2>4, <2>5, <3>2
    <2>6. CASE m # n
      <3>1. Reporters(m)' = Reporters(m)
        BY <2>1, <2>6 DEF Reporters
      <3> QED
        BY <2>1, <2>2, <2>3, <2>4, <2>6, <3>1
    <2> QED
      BY <2>5, <2>6
  <1>3. ASSUME NEW d \in Daemons, NEW e \in Events, Produce(d, e)  PROVE Owed'
    <2>1. /\ daemon[d].pc = "send" /\ daemon'[d].pc = "loop"
          /\ \A f \in Daemons : f # d => daemon'[f] = daemon[f]
      BY <1>3 DEF Produce, TypeOK, Tick
    <2>2. \A n \in Notes : sent'[n] = sent[n] /\ Sendings(n)' = Sendings(n)
      BY <1>3, DaemonAssumption DEF Produce, Sendings, TypeOK, Rows
    <2>3. \A n \in Notes : Reporters(n)' = Reporters(n)
      BY <2>1 DEF Reporters
    <2> QED
      BY <2>2, <2>3 DEF Owed
  <1>4. ASSUME UNCHANGED <<sent, delivered, unseen>>, NEW d \in Daemons,
               \A f \in Daemons : f # d => daemon'[f] = daemon[f],
               \/ daemon'[d].pc \notin {"sent", "report"}
               \/ daemon[d].pc \in {"sent", "report"} /\ daemon'[d].now = daemon[d].now
        PROVE  Owed'
    <2>1. \A n \in Notes : Reporters(n)' \subseteq Reporters(n)
      BY <1>4 DEF Reporters
    <2> QED
      BY <1>4, <2>1, FewerReporters
  <1>5. ASSUME NEW d \in Daemons,
               LockRunningEvents(d) \/ GetRunningEvents(d) \/ \E e \in Events : SetDone(d, e)
        PROVE  Owed'
    <2>1. daemon'[d].pc \notin {"sent", "report"}
      <3> USE DEF TypeOK, Tick
      <3>1. CASE LockRunningEvents(d)
        BY <3>1, TickTyped DEF LockRunningEvents, NoTick
      <3>2. CASE GetRunningEvents(d)
        BY <3>2 DEF GetRunningEvents
      <3>3. CASE \E e \in Events : SetDone(d, e)
        BY <3>3 DEF SetDone
      <3> QED
        BY <1>5, <3>1, <3>2, <3>3
    <2>2. \A f \in Daemons : f # d => daemon'[f] = daemon[f]
      BY <1>5 DEF LockRunningEvents, GetRunningEvents, SetDone, TypeOK
    <2>3. UNCHANGED <<sent, delivered, unseen>>
      BY <1>5 DEF LockRunningEvents, GetRunningEvents, SetDone
    <2> QED
      BY <1>4, <2>1, <2>2, <2>3
  <1>6. ASSUME NEW d \in Daemons,
               \/ UnlockOldLockedEvents(d) \/ DelayError(d) \/ NoteError(d) \/ Crash(d)
               \/ GetPostponedEvents(d) \/ TickEnds(d)
        PROVE  Owed'
    <2> USE DEF UnlockOldLockedEvents, DelayError, NoteError, Crash, GetPostponedEvents, TickEnds
    <2>1. daemon'[d].pc \notin {"sent", "report"}
      BY <1>6, TickTyped DEF TypeOK, SecondHalf, NoTick
    <2>2. \A f \in Daemons : f # d => daemon'[f] = daemon[f]
      BY <1>6 DEF TypeOK
    <2>3. UNCHANGED <<sent, delivered, unseen>>
      BY <1>6
    <2> QED
      BY <1>4, <2>1, <2>2, <2>3
  <1>7. ASSUME NEW d \in Daemons, NEW n \in Notes,
               SendFails(d, n) \/ SetNotificationDone(d, n) \/ Postpone(d, n)
        PROVE  Owed'
    <2>1. \/ daemon'[d].pc \notin {"sent", "report"}
          \/ daemon[d].pc \in {"sent", "report"} /\ daemon'[d].now = daemon[d].now
      <3> USE DEF TypeOK, Tick
      <3>1. CASE SendFails(d, n)
        BY <3>1 DEF SendFails
      <3>2. CASE SetNotificationDone(d, n)
        BY <3>2 DEF SetNotificationDone
      <3>3. CASE Postpone(d, n)
        BY <3>3 DEF Postpone
      <3> QED
        BY <1>7, <3>1, <3>2, <3>3
    <2>2. \A f \in Daemons : f # d => daemon'[f] = daemon[f]
      BY <1>7 DEF SendFails, SetNotificationDone, Postpone, TypeOK
    <2>3. UNCHANGED <<sent, delivered, unseen>>
      BY <1>7 DEF SendFails, SetNotificationDone, Postpone
    <2> QED
      BY <1>4, <2>1, <2>2, <2>3
  <1>8. ASSUME NEW d \in Daemons, SetDoneFails(d)  PROVE Owed'
    <2>1. /\ daemon'[d].pc = "failed"
          /\ \A f \in Daemons : f # d => daemon'[f] = daemon[f]
          /\ UNCHANGED <<sent, delivered, unseen>>
      BY <1>8 DEF SetDoneFails, TypeOK, Tick
    <2> QED
      BY <1>4, <2>1
  <1>9. ASSUME \/ \E e \in Rows : Time(e)
               \/ StopEventsRead \/ StopEventsCancel \/ UNCHANGED vars
        PROVE  Owed'
    <2>1. UNCHANGED <<sent, delivered, unseen, daemon>>
      BY <1>9 DEF Time, BecomeDue, BecomeLate, LockAges, StopEventsRead, StopEventsCancel, vars
    <2> QED
      BY <2>1 DEF Owed, Reporters, Sendings
  <1> QED
    BY <1>1, <1>2, <1>3, <1>5, <1>6, <1>7, <1>8, <1>9 DEF Next, DaemonStep, TickFails

(***************************************************************************)
(* A notification is reported no more often than it was sent without an    *)
(* exception, for any number of replicas that retry it at the same time,   *)
(* and whatever they read before another one had written.                  *)
(***************************************************************************)
THEOREM NoneReportedUntried == Spec => []ReportedIsSent
  <1>1. Init => TypeOK /\ Owed
    <2> SUFFICES ASSUME Init  PROVE TypeOK /\ Owed
      OBVIOUS
    <2>1. \A n \in Notes : Reporters(n) = {} /\ sent[n] = 0 /\ Sendings(n) = 0
      BY TickTyped DEF Init, Reporters, Rows, Sendings
    <2>2. Owed
      BY <2>1, FS_EmptySet DEF Owed
    <2> QED
      BY <2>2, InitTyped
  <1>2. TypeOK /\ Owed /\ [Next]_vars => (TypeOK /\ Owed)'
    BY TypeStep, OwedStep
  <1>3. TypeOK /\ Owed => ReportedIsSent
    <2> SUFFICES ASSUME TypeOK, Owed, NEW n \in Notes  PROVE sent[n] <= Sendings(n)
      BY DEF ReportedIsSent, Sendings
    <2>1. sent[n] \in Nat /\ Sendings(n) \in Nat
      BY DEF TypeOK, Rows, Sendings
    <2> QED
      BY <2>1, ReportersFinite DEF Owed
  <1> QED
    BY <1>1, <1>2, <1>3, PTL DEF Spec

===============================================================================
