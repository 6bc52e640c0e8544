-------------------------- MODULE TemplateCacheProofs --------------------------
(***************************************************************************)
(* What the cache answers, for any number of readers and connections, any  *)
(* number of changes and breaks, and every interleaving of them.           *)
(***************************************************************************)
EXTENDS TemplateCache, TLAPS

USE PubSubAssumption, CacheAssumption

-------------------------------------------------------------------------------
(* Types.                                                                  *)

\* A timer that is set ticks.
TimerTicks == timer => intervals > 0

LinkTypes == LinkTypeOK /\ TimerTicks

LEMMA LinkStepTypes ==
  ASSUME LinkTypes, LinkNext
  PROVE  LinkTypes'
  <1> USE DEF LinkTypes, LinkTypeOK, TimerTicks, timers, listens
  <1>1. ASSUME NEW c \in Connections, Break(c)  PROVE LinkTypes'
    <2>1. breaks' \in 0 .. MaxBreaks
      BY <1>1 DEF Break
    <2>2. /\ heard' \in [Connections -> SUBSET (1 .. Channels)]
          /\ inbox' \in [Connections -> Nat]
      BY <1>1 DEF Break, Without
    <2>3. conn' \in [Connections -> {"closed", "connecting", "open", "broken"}]
      BY <1>1 DEF Break
    <2> QED
      BY <1>1, <2>1, <2>2, <2>3 DEF Break
  <1>2. ASSUME NEW c \in Connections, ErrorIgnored(c) \/ Tick(c) \/ ConnectFails(c)  PROVE LinkTypes'
    <2>1. late' \in BOOLEAN
      BY <1>2, Zenon DEF ErrorIgnored, Tick, ConnectFails
    <2>2. conn' \in [Connections -> {"closed", "connecting", "open", "broken"}]
      BY <1>2 DEF ErrorIgnored, Tick, ConnectFails
    <2>3. UNCHANGED <<heard, inbox, client, timers, ending, listens, breaks>>
      BY <1>2 DEF ErrorIgnored, Tick, ConnectFails
    <2> QED
      BY <2>1, <2>2, <2>3
  <1>3. ASSUME NEW c \in Connections, Reconnect(c)  PROVE LinkTypes'
    <2> DEFINE gone == {c, client} \cap Connections
    <2>1. conn' = [d \in Connections |-> IF d \in gone THEN "closed" ELSE conn[d]] /\ Without(gone)
      BY <1>3 DEF Reconnect
    <2> HIDE DEF gone
    <2>2. /\ conn' \in [Connections -> {"closed", "connecting", "open", "broken"}]
          /\ heard' \in [Connections -> SUBSET (1 .. Channels)]
          /\ inbox' \in [Connections -> Nat]
      BY <2>1 DEF Without
    <2> QED
      BY <2>2, <1>3 DEF Reconnect
  <1>4. ASSUME NEW c \in Connections, Connected(c)  PROVE LinkTypes'
    BY <1>4 DEF Connected
  <1>5. CASE SetTimer
    BY <1>5 DEF SetTimer
  <1>6. CASE Listen
    <2> DEFINE c == Head(queries)
               done == next[c] = Channels
    <2>1. queries # <<>> /\ c \in Connections /\ Tail(queries) \in Seq(Connections)
      BY <1>6 DEF Listen
    <2>2. over \in Connections
      <3>1. over # NoClient
        BY <1>6 DEF Listen
      <3> QED
        BY <3>1
    <2>3. heard' \in [Connections -> SUBSET (1 .. Channels)]
      BY <1>6, <2>1, <2>2 DEF Listen
    <2>4. next' \in [Connections -> 1 .. Channels]
      BY <1>6, <2>1 DEF Listen
    <2>5. queries' \in Seq(Connections)
      BY <1>6, <2>1 DEF Listen
    <2>6. over' \in Connections \cup {NoClient}
      BY <1>6 DEF Listen, SentOver
    <2>7. intervals' \in Nat /\ timer' \in BOOLEAN /\ reconnecting' \in BOOLEAN /\ TimerTicks'
      <3>1. CASE UNCHANGED timers
        BY <3>1
      <3>2. CASE StopReconnect
        <4>1. timer' = FALSE /\ reconnecting' = FALSE
          BY <3>2 DEF StopReconnect
        <4>2. intervals' \in Nat
          <5>1. CASE timer
            BY <5>1, <3>2 DEF StopReconnect
          <5>2. CASE ~timer
            BY <5>2, <3>2 DEF StopReconnect
          <5> QED
            BY <5>1, <5>2
        <4> QED
          BY <4>1, <4>2
      <3> QED
        BY <1>6, <3>1, <3>2 DEF Listen
    <2> QED
      BY <1>6, <2>3, <2>4, <2>5, <2>6, <2>7 DEF Listen
  <1>7. CASE ListenFails
    <2>1. Head(queries) \in Connections /\ Tail(queries) \in Seq(Connections)
      BY <1>7 DEF ListenFails
    <2> QED
      BY <1>7, <2>1 DEF ListenFails, SentOver
  <1> QED
    BY <1>1, <1>2, <1>3, <1>4, <1>5, <1>6, <1>7 DEF LinkNext

\* What a request has come to know.
Asking == [pc : {"stamps"}, since : Nat, read : SUBSET {"old", "new"}, old : Timestamp, new : Timestamp]
Stamping == [pc : {"stamp"}, since : Nat, new : Nat]

LEMMA ReaderKinds ==
  ASSUME NEW st \in ReaderState
  PROVE  /\ st.pc \in {"idle", "fetch", "set", "stamps", "stamp", "get"}
         /\ st.pc = "set" => st.value \in Nat
         /\ st.pc = "stamps" => st \in Asking
         /\ st.pc = "stamp" => st \in Stamping
         /\ st.pc = "get" => st.since \in Nat
  BY DEF ReaderState, Asking, Stamping

\* Nothing is known before it has happened.
Known(st) ==
  /\ st.pc \in {"stamps", "stamp", "get"} => st.since <= row
  /\ st.pc = "stamps" /\ "new" \in st.read =>
       st.new \in Nat /\ st.since <= st.new /\ st.new <= row
  /\ st.pc = "stamps" /\ st.old # None => st.old <= row
  /\ st.pc = "stamp" => st.since <= st.new /\ st.new <= row
  /\ st.pc = "set" => st.value <= row

StampInv ==
  /\ stamp # None => stamp <= row
  /\ \A r \in Readers : Known(reader[r])

CacheTypes == TypeOK /\ TimerTicks /\ StampInv

\* Steps of a request.
LEMMA ReaderStepTypes ==
  ASSUME CacheTypes, NEW r \in Readers, NEW st \in ReaderState, Known(st),
         reader' = [reader EXCEPT ![r] = st],
         UNCHANGED <<link, kind, row, deletes>>,
         Cached' => cache' \in Entry,
         stamp' \in Timestamp, stamp' # None => stamp' <= row
  PROVE  CacheTypes'
  <1>1. LinkTypeOK' /\ TimerTicks'
    BY DEF CacheTypes, TypeOK, LinkTypeOK, TimerTicks, link, timers, listens
  <1>2. reader' \in [Readers -> ReaderState]
    BY DEF CacheTypes, TypeOK
  <1>3. TypeOK'
    BY <1>1, <1>2 DEF CacheTypes, TypeOK
  <1>4. ASSUME NEW q \in Readers  PROVE Known(reader[q])'
    <2>1. reader'[q] = IF q = r THEN st ELSE reader[q]
      BY DEF CacheTypes, TypeOK
    <2>2. Known(reader'[q])
      BY <2>1 DEF CacheTypes, StampInv
    <2> QED
      BY <2>2 DEF Known
  <1>5. StampInv'
    BY <1>4 DEF StampInv
  <1> QED
    BY <1>1, <1>3, <1>5 DEF CacheTypes

LEMMA ReaderTypes ==
  ASSUME CacheTypes, NEW r \in Readers, Request(r) \/ Get(r) \/ Read(r)
  PROVE  CacheTypes'
  <1> USE DEF CacheTypes, TypeOK, Known, StampInv, Cached
  <1>1. reader[r] \in ReaderState /\ row \in Nat /\ Known(reader[r])
    OBVIOUS
  <1>2. /\ reader[r].pc = "set" => reader[r].value \in Nat
        /\ reader[r].pc = "stamps" => reader[r] \in Asking
        /\ reader[r].pc = "stamp" => reader[r] \in Stamping
        /\ reader[r].pc = "get" => reader[r].since \in Nat
    BY <1>1, ReaderKinds
  <1>3. CASE Request(r)
    <2> DEFINE st == [pc |-> "stamps", since |-> row, read |-> {}, old |-> None, new |-> None]
    <2>1. st \in ReaderState /\ Known(st)
      BY <1>1 DEF ReaderState, Timestamp
    <2> QED
      BY <1>3, <2>1, ReaderStepTypes DEF Request
  <1>4. CASE Get(r)
    <2> DEFINE st == IF Cached THEN Idle ELSE [pc |-> "fetch"]
    <2>1. st \in ReaderState /\ Known(st)
      BY DEF ReaderState, Idle
    <2> QED
      BY <1>4, <2>1, ReaderStepTypes DEF Get
  <1>5. CASE Fetch(r)
    <2> DEFINE st == [pc |-> "set", value |-> row]
    <2>1. st \in ReaderState /\ Known(st)
      BY <1>1 DEF ReaderState
    <2> QED
      BY <1>5, <2>1, ReaderStepTypes DEF Fetch
  <1>6. CASE Set(r)
    <2>1. Idle \in ReaderState /\ Known(Idle)
      BY DEF ReaderState, Idle
    <2>2. cache' \in Entry
      BY <1>6, <1>2 DEF Set, Entry
    <2> QED
      BY <1>6, <2>1, <2>2, ReaderStepTypes DEF Set
  <1>7. CASE ReadOld(r)
    <2> DEFINE st == [reader[r] EXCEPT !.old = stamp, !.read = @ \cup {"old"}]
    <2>1. st \in Asking
      BY <1>2, <1>7 DEF Asking, ReadOld
    <2>2. Known(st)
      BY <1>1, <1>2, <1>7 DEF Asking, ReadOld
    <2>3. st \in ReaderState
      BY <2>1 DEF Asking, ReaderState
    <2>4. reader' = [reader EXCEPT ![r] = st]
      BY <1>7 DEF ReadOld
    <2> QED
      BY <1>7, <2>2, <2>3, <2>4, ReaderStepTypes DEF ReadOld
  <1>8. CASE ReadNew(r)
    <2> DEFINE st == [reader[r] EXCEPT !.new = row, !.read = @ \cup {"new"}]
    <2>1. st \in Asking
      BY <1>1, <1>2, <1>8 DEF Asking, ReadNew, Timestamp
    <2>2. Known(st)
      BY <1>1, <1>2, <1>8 DEF Asking, ReadNew
    <2>3. st \in ReaderState
      BY <2>1 DEF Asking, ReaderState
    <2>4. reader' = [reader EXCEPT ![r] = st]
      BY <1>8 DEF ReadNew
    <2> QED
      BY <1>8, <2>2, <2>3, <2>4, ReaderStepTypes DEF ReadNew
  <1>9. CASE Invalidate(r)
    <2> DEFINE st == [pc |-> "stamp", since |-> reader[r].since, new |-> reader[r].new]
    <2>1. st \in ReaderState /\ Known(st)
      BY <1>1, <1>2, <1>9 DEF Asking, Invalidate, ReaderState
    <2> QED
      BY <1>9, <2>1, ReaderStepTypes DEF Invalidate
  <1>10. CASE SetStamp(r)
    <2> DEFINE st == [pc |-> "get", since |-> reader[r].since]
    <2>1. st \in ReaderState /\ Known(st)
      BY <1>1, <1>2, <1>10 DEF Stamping, SetStamp, ReaderState
    <2>2. stamp' \in Timestamp /\ stamp' <= row
      BY <1>1, <1>2, <1>10 DEF Stamping, SetStamp, Timestamp
    <2> QED
      BY <1>10, <2>1, <2>2, ReaderStepTypes DEF SetStamp
  <1> QED
    BY <1>3, <1>4, <1>5, <1>6, <1>7, <1>8, <1>9, <1>10 DEF Read

\* A step that leaves the requests and the timestamp alone.
LEMMA OtherStepTypes ==
  ASSUME CacheTypes, LinkTypes',
         row' \in row .. MaxVersion, UNCHANGED <<kind, reader>>,
         Cached' => cache' \in Entry,
         stamp' \in {stamp, None}, deletes' \in Nat
  PROVE  CacheTypes'
  <1> USE DEF CacheTypes, TypeOK
  <1>1. row \in Nat /\ row' \in Nat /\ row <= row'
    OBVIOUS
  <1>2. TypeOK' /\ TimerTicks'
    BY <1>1 DEF LinkTypes, Timestamp
  <1>3. ASSUME NEW r \in Readers  PROVE Known(reader[r])'
    <2>1. Known(reader[r]) /\ reader[r] \in ReaderState
      BY DEF StampInv
    <2> QED
      BY <2>1, <1>1, ReaderKinds DEF Known, Asking, Stamping, Timestamp
  <1>4. stamp' # None => stamp' <= row'
    BY <1>1 DEF StampInv, Timestamp
  <1> QED
    BY <1>2, <1>3, <1>4 DEF StampInv

LEMMA CacheStepTypes ==
  ASSUME CacheTypes, [Next]_vars
  PROVE  CacheTypes'
  <1> USE DEF Cached
  <1>1. row \in row .. MaxVersion /\ deletes \in Nat /\ LinkTypes
    BY DEF CacheTypes, TypeOK, LinkTypes
  <1>2. UNCHANGED link => LinkTypes'
    BY <1>1 DEF LinkTypes, LinkTypeOK, TimerTicks, link, timers, listens
  <1>3. CASE Update
    <2>1. row' \in row .. MaxVersion
      BY <1>1, <1>3 DEF Update, CacheTypes, TypeOK
    <2>2. inbox' \in [Connections -> Nat]
      <3> DEFINE sent(c) == IF Hears(c, RowChange) THEN inbox[c] + 1 ELSE inbox[c]
      <3>1. \A c \in Connections : inbox[c] \in Nat /\ sent(c) \in Nat
        BY <1>1 DEF LinkTypes, LinkTypeOK
      <3>2. inbox' = inbox \/ inbox' = [c \in Connections |-> sent(c)]
        BY <1>3 DEF Update
      <3> HIDE DEF sent
      <3> QED
        BY <1>1, <3>1, <3>2 DEF LinkTypes, LinkTypeOK
    <2>3. LinkTypes'
      BY <1>1, <1>3, <2>2 DEF Update, LinkTypes, LinkTypeOK, TimerTicks, timers, listens
    <2>4. cache' # None => cache' \in Entry
      BY <1>3 DEF Update, CacheTypes, TypeOK, Overtaken, Entry
    <2> QED
      BY <1>1, <1>3, <2>1, <2>3, <2>4, OtherStepTypes DEF Update
  <1>4. CASE Age
    <2>1. cache' # None => cache' \in Entry
      BY <1>4 DEF Age, CacheTypes, TypeOK, Entry
    <2> QED
      BY <1>1, <1>2, <1>4, <2>1, OtherStepTypes DEF Age
  <1>5. CASE StampExpires
    BY <1>1, <1>2, <1>5, OtherStepTypes DEF StampExpires, CacheTypes, TypeOK
  <1>6. CASE DeleteKey
    <2>1. deletes' \in Nat
      BY <1>1, <1>6 DEF DeleteKey
    <2> QED
      BY <1>1, <1>2, <1>6, <2>1, OtherStepTypes DEF DeleteKey
  <1>7. CASE OnLink(LinkNext)
    <2>1. LinkTypes'
      BY <1>1, <1>7, LinkStepTypes DEF OnLink
    <2>2. cache' # None => cache' \in Entry
      BY <1>7 DEF OnLink, CacheTypes, TypeOK, Overtaken, Entry
    <2> QED
      BY <1>1, <1>7, <2>1, <2>2, OtherStepTypes DEF OnLink
  <1>8. ASSUME NEW c \in Connections, Notification(c)  PROVE CacheTypes'
    <2>1. inbox' \in [Connections -> Nat]
      BY <1>1, <1>8 DEF Notification, LinkTypes, LinkTypeOK
    <2>2. LinkTypes'
      BY <1>1, <1>8, <2>1 DEF Notification, LinkTypes, LinkTypeOK, TimerTicks, timers, listens
    <2> QED
      BY <1>1, <1>8, <2>2, OtherStepTypes DEF Notification, CacheTypes, TypeOK
  <1>9. CASE \E r \in Readers : Request(r) \/ Get(r) \/ Read(r)
    BY <1>9, ReaderTypes
  <1>10. CASE UNCHANGED vars
    BY <1>1, <1>2, <1>10, OtherStepTypes DEF vars, CacheTypes, TypeOK
  <1> QED
    BY <1>3, <1>4, <1>5, <1>6, <1>7, <1>8, <1>9, <1>10 DEF Next

LEMMA InitTypes == Init => CacheTypes
  <1> SUFFICES ASSUME Init  PROVE CacheTypes
    OBVIOUS
  <1>1. LinkTypes
    <2> USE DEF Init, LinkInit
    <2>1. /\ conn \in [Connections -> {"closed", "connecting", "open", "broken"}]
          /\ heard \in [Connections -> SUBSET (1 .. Channels)]
          /\ inbox \in [Connections -> Nat]
          /\ next \in [Connections -> 1 .. Channels]
      OBVIOUS
    <2>2. reconnecting = FALSE /\ timer = FALSE /\ late = FALSE
      OBVIOUS
    <2>3. intervals \in Nat /\ ending \in Nat /\ breaks \in 0 .. MaxBreaks
      OBVIOUS
    <2>4. queries \in Seq(Connections) /\ client \in Connections /\ over = NoClient
      OBVIOUS
    <2> QED
      BY <2>1, <2>2, <2>3, <2>4 DEF LinkTypes, LinkTypeOK, TimerTicks
  <1>2. Idle \in ReaderState /\ Known(Idle)
    BY DEF Idle, ReaderState, Known
  <1>3. TypeOK
    BY <1>1, <1>2 DEF Init, LinkTypes, TypeOK, Timestamp, Cached
  <1>4. StampInv
    BY <1>2 DEF Init, StampInv
  <1> QED
    BY <1>1, <1>3, <1>4 DEF CacheTypes, LinkTypes

(***************************************************************************)
(* All values stay as declared; a timer that is set ticks, and a request   *)
(* knows nothing that has not happened.                                    *)
(***************************************************************************)
THEOREM TypesHold == Spec => []CacheTypes
  <1>1. CacheTypes /\ [Next]_vars => CacheTypes'
    BY CacheStepTypes
  <1> QED
    BY <1>1, InitTypes, PTL DEF Spec

-------------------------------------------------------------------------------
(* Notifications.                                                          *)

LEMMA NotifiedStep ==
  ASSUME CacheTypes, NotifiedIsCurrent, [Next]_vars
  PROVE  NotifiedIsCurrent'
  <1> USE DEF NotifiedIsCurrent, Cached
  <1>1. /\ Cached => cache \in Entry
        /\ deletes \in Nat /\ row \in Nat
        /\ inbox \in [Connections -> Nat]
    BY DEF CacheTypes, TypeOK, LinkTypeOK
  <1>2. CASE Update
    <2>1. CASE \A c \in Connections : ~Hears(c, RowChange)
      BY <1>1, <1>2, <2>1 DEF Update, Overtaken, Entry
    <2>2. ASSUME NEW c \in Connections, Hears(c, RowChange), kind = "noticed"
          PROVE  inbox'[c] > 0
      BY <1>1, <1>2, <2>2 DEF Update
    <2> QED
      BY <1>2, <2>1, <2>2 DEF Update
  <1>3. CASE Age
    BY <1>1, <1>3 DEF Age, Entry, link
  <1>4. CASE StampExpires
    BY <1>4 DEF StampExpires, link
  <1>5. CASE DeleteKey
    BY <1>5 DEF DeleteKey
  <1>6. CASE OnLink(LinkNext)
    BY <1>1, <1>6 DEF OnLink, Overtaken, Entry
  <1>7. ASSUME NEW c \in Connections, Notification(c)  PROVE deletes' > 0
    BY <1>1, <1>7 DEF Notification
  <1>8. ASSUME NEW r \in Readers, Set(r)  PROVE cache'.overtaken = (cache'.value # row')
    BY <1>8 DEF Set
  <1>9. ASSUME NEW r \in Readers, Set(r)  PROVE NotifiedIsCurrent'
    BY <1>8, <1>9
  <1>10. ASSUME NEW r \in Readers,
                Request(r) \/ Get(r) \/ Fetch(r) \/ ReadOld(r) \/ ReadNew(r) \/ Invalidate(r) \/ SetStamp(r)
         PROVE  NotifiedIsCurrent'
    <2>1. UNCHANGED <<link, kind, row, deletes>> /\ cache' \in {cache, None}
      BY <1>10 DEF Request, Get, Fetch, ReadOld, ReadNew, Invalidate, SetStamp
    <2> QED
      BY <2>1 DEF link
  <1>11. CASE UNCHANGED vars
    BY <1>11 DEF vars, link
  <1> QED
    BY <1>2, <1>3, <1>4, <1>5, <1>6, <1>7, <1>9, <1>10, <1>11 DEF Next, Read

(***************************************************************************)
(* NotifiedIsCurrent: a change that has not reached the cache, and has not *)
(* passed it unnoticed, is on the way, however often the connection breaks *)
(* and whatever its reconnects do.                                         *)
(***************************************************************************)
THEOREM CacheIsNotified == Spec => []NotifiedIsCurrent
  <1>1. Init => NotifiedIsCurrent
    BY DEF Init, NotifiedIsCurrent, Cached
  <1>2. CacheTypes /\ NotifiedIsCurrent /\ [Next]_vars => NotifiedIsCurrent'
    BY NotifiedStep
  <1> QED
    BY <1>1, <1>2, TypesHold, PTL DEF Spec

-------------------------------------------------------------------------------
(* Timestamps.                                                             *)

\* A request that has found the list not to be outdated has compared it with
\* a timestamp that an entry in the cache is not older than.
NotOlder(st) ==
  /\ st.pc = "stamps" /\ st.old # None => st.old <= cache.value
  /\ st.pc = "stamp" => st.new <= cache.value
  /\ st.pc = "get" => st.since <= cache.value

Reliable == kind = "stamped" /\ Cached /\ ~cache.overtaken

StampsReliable ==
  Reliable =>
    /\ stamp # None => stamp <= cache.value
    /\ \A r \in Readers : NotOlder(reader[r])

\* A step of one request that leaves the entry as it is.
LEMMA RequestStepReliable ==
  ASSUME CacheTypes, StampsReliable, NEW r \in Readers,
         Reliable => NotOlder(reader'[r]) /\ (stamp' # None => stamp' <= cache.value),
         NEW st, reader' = [reader EXCEPT ![r] = st],
         UNCHANGED <<kind, cache>>
  PROVE  StampsReliable'
  <1>1. Reliable' = Reliable
    BY DEF Reliable, Cached
  <1>2. SUFFICES ASSUME Reliable
                 PROVE  (stamp' # None => stamp' <= cache.value) /\ \A q \in Readers : NotOlder(reader[q])'
    BY <1>1 DEF StampsReliable
  <1>3. ASSUME NEW q \in Readers  PROVE NotOlder(reader[q])'
    <2>1. reader'[q] = IF q = r THEN reader'[r] ELSE reader[q]
      BY DEF CacheTypes, TypeOK
    <2>2. NotOlder(reader'[q])
      BY <1>2, <2>1 DEF StampsReliable
    <2> QED
      BY <2>2 DEF NotOlder
  <1> QED
    BY <1>2, <1>3

LEMMA ReadReliable ==
  ASSUME CacheTypes, StampsReliable, NEW r \in Readers, Request(r) \/ Get(r) \/ Read(r)
  PROVE  StampsReliable'
  <1>1. /\ reader[r] \in ReaderState /\ Known(reader[r])
        /\ reader \in [Readers -> ReaderState]
        /\ row \in Nat /\ stamp \in Timestamp
        /\ Cached => cache \in Entry
    BY DEF CacheTypes, TypeOK, StampInv
  <1>2. /\ reader[r].pc = "stamps" => reader[r] \in Asking
        /\ reader[r].pc = "stamp" => reader[r] \in Stamping
    BY <1>1, ReaderKinds
  <1>3. Reliable => NotOlder(reader[r]) /\ (stamp # None => stamp <= cache.value) /\ cache.value \in Nat
    BY <1>1 DEF StampsReliable, Reliable, Entry
  <1>4. CASE Request(r)
    <2>1. NotOlder(reader'[r])
      BY <1>1, <1>4 DEF Request, NotOlder
    <2> QED
      BY <1>3, <1>4, <2>1, RequestStepReliable DEF Request
  <1>5. CASE Get(r)
    <2>1. NotOlder(reader'[r])
      BY <1>1, <1>5 DEF Get, NotOlder, Idle
    <2> QED
      BY <1>3, <1>5, <2>1, RequestStepReliable DEF Get
  <1>6. CASE Fetch(r)
    <2>1. NotOlder(reader'[r])
      BY <1>1, <1>6 DEF Fetch, NotOlder
    <2> QED
      BY <1>3, <1>6, <2>1, RequestStepReliable DEF Fetch
  <1>7. CASE Set(r)
    <2>1. SUFFICES ASSUME Reliable'  PROVE (stamp # None => stamp <= row) /\ \A q \in Readers : NotOlder(reader[q])'
      BY <1>7 DEF Set, Reliable, StampsReliable
    <2>2. cache'.value = row
      BY <1>7, <2>1 DEF Set, Reliable
    <2>3. ASSUME NEW q \in Readers  PROVE NotOlder(reader[q])'
      <3>1. Known(reader[q]) /\ reader[q] \in ReaderState
        BY DEF CacheTypes, TypeOK, StampInv
      <3>2. reader'[q] = IF q = r THEN Idle ELSE reader[q]
        BY <1>1, <1>7 DEF Set
      <3>3. CASE q = r
        <4>1. reader'[q].pc = "idle"
          BY <3>2, <3>3 DEF Idle
        <4> QED
          BY <4>1 DEF NotOlder
      <3>4. CASE q # r
        <4>1. /\ reader[q].pc = "stamps" /\ reader[q].old # None => reader[q].old <= row
              /\ reader[q].pc = "stamp" => reader[q].new <= row
              /\ reader[q].pc = "get" => reader[q].since <= row
          BY <3>1 DEF Known
        <4> QED
          BY <2>2, <3>2, <3>4, <4>1 DEF NotOlder
      <3> QED
        BY <3>3, <3>4
    <2> QED
      BY <2>3 DEF CacheTypes, StampInv
  <1>8. CASE ReadOld(r)
    <2> DEFINE st == [reader[r] EXCEPT !.old = stamp, !.read = @ \cup {"old"}]
    <2>1. reader' = [reader EXCEPT ![r] = st] /\ reader'[r] = st
      BY <1>1, <1>8 DEF ReadOld
    <2>2. Reliable => NotOlder(st)
      BY <1>2, <1>3, <1>8 DEF ReadOld, NotOlder, Asking
    <2>3. UNCHANGED <<kind, cache, stamp>>
      BY <1>8 DEF ReadOld
    <2> HIDE DEF st
    <2> QED
      BY <1>3, <2>1, <2>2, <2>3, RequestStepReliable
  <1>9. CASE ReadNew(r)
    <2> DEFINE st == [reader[r] EXCEPT !.new = row, !.read = @ \cup {"new"}]
    <2>1. reader' = [reader EXCEPT ![r] = st] /\ reader'[r] = st
      BY <1>1, <1>9 DEF ReadNew
    <2>2. Reliable => NotOlder(st)
      BY <1>2, <1>3, <1>9 DEF ReadNew, NotOlder, Asking
    <2>3. UNCHANGED <<kind, cache, stamp>>
      BY <1>9 DEF ReadNew
    <2> HIDE DEF st
    <2> QED
      BY <1>3, <2>1, <2>2, <2>3, RequestStepReliable
  <1>10. CASE Invalidate(r)
    <2>1. CASE Outdated(r)
      BY <1>10, <2>1 DEF Invalidate, StampsReliable, Reliable, Cached
    <2>2. CASE ~Outdated(r)
      <3> DEFINE st == [pc |-> "stamp", since |-> reader[r].since, new |-> reader[r].new]
      <3>1. reader' = [reader EXCEPT ![r] = st] /\ reader'[r] = st /\ UNCHANGED <<kind, cache, stamp>>
        BY <1>1, <1>10, <2>2 DEF Invalidate
      <3>2. /\ reader[r].old # None /\ reader[r].new <= reader[r].old
            /\ reader[r].new \in Nat /\ reader[r].old \in Nat
        BY <1>1, <1>2, <1>10, <2>2 DEF Outdated, Invalidate, Asking, Known, Timestamp
      <3>3. Reliable => NotOlder(st)
        BY <1>3, <1>10, <3>2 DEF Invalidate, NotOlder
      <3> QED
        BY <1>3, <3>1, <3>3, RequestStepReliable
    <2> QED
      BY <2>1, <2>2
  <1>11. CASE SetStamp(r)
    <2> DEFINE st == [pc |-> "get", since |-> reader[r].since]
    <2>1. /\ reader' = [reader EXCEPT ![r] = st] /\ reader'[r] = st
          /\ stamp' = reader[r].new /\ UNCHANGED <<kind, cache>>
      BY <1>1, <1>11 DEF SetStamp
    <2>2. Reliable => NotOlder(st) /\ reader[r].new <= cache.value
      BY <1>1, <1>2, <1>3, <1>11 DEF SetStamp, NotOlder, Known, Stamping
    <2> QED
      BY <2>1, <2>2, RequestStepReliable
  <1> QED
    BY <1>4, <1>5, <1>6, <1>7, <1>8, <1>9, <1>10, <1>11 DEF Read

LEMMA StampStep ==
  ASSUME CacheTypes, StampsReliable, [Next]_vars
  PROVE  StampsReliable'
  <1> USE DEF StampsReliable, Reliable, NotOlder, Cached
  <1>1. /\ Cached => cache \in Entry
        /\ stamp \in Timestamp
    BY DEF CacheTypes, TypeOK
  <1>2. CASE Update
    BY <1>1, <1>2 DEF Update, Overtaken, Entry
  <1>3. CASE Age
    BY <1>1, <1>3 DEF Age, Entry
  <1>4. CASE StampExpires
    BY <1>4 DEF StampExpires
  <1>5. CASE DeleteKey
    BY <1>5 DEF DeleteKey
  <1>6. CASE OnLink(LinkNext)
    BY <1>6 DEF OnLink
  <1>7. CASE \E c \in Connections : Notification(c)
    BY <1>7 DEF Notification
  <1>8. CASE \E r \in Readers : Request(r) \/ Get(r) \/ Read(r)
    BY <1>8, ReadReliable
  <1>9. CASE UNCHANGED vars
    BY <1>9 DEF vars
  <1> QED
    BY <1>2, <1>3, <1>4, <1>5, <1>6, <1>7, <1>8, <1>9 DEF Next

THEOREM StampsAreReliable == Spec => []StampsReliable
  <1>1. Init => StampsReliable
    BY DEF Init, StampsReliable, Reliable, Cached
  <1>2. CacheTypes /\ StampsReliable /\ [Next]_vars => StampsReliable'
    BY StampStep
  <1> QED
    BY <1>1, <1>2, TypesHold, PTL DEF Spec

(***************************************************************************)
(* StampedIsFresh: getOrSetWithTimestamp never answers from the cache with *)
(* a list that is older than the request, however many requests read,      *)
(* compare, delete and set at the same time.                               *)
(***************************************************************************)
THEOREM ListIsFresh == Spec => StampedIsFresh
  <1> DEFINE Fresh(r) == kind = "stamped" /\ reader[r].pc = "get" /\ reader'[r].pc = "idle"
                           => cache.value >= reader[r].since \/ cache.overtaken
  <1>1. ASSUME CacheTypes, StampsReliable, [Next]_vars, NEW r \in Readers  PROVE Fresh(r)
    <2>1. SUFFICES ASSUME kind = "stamped", reader[r].pc = "get", reader'[r].pc = "idle"
                   PROVE  cache.value >= reader[r].since \/ cache.overtaken
      OBVIOUS
    <2>2. reader \in [Readers -> ReaderState] /\ reader[r].since \in Nat
      BY <1>1, <2>1, ReaderKinds DEF CacheTypes, TypeOK
    <2>3. reader' # reader
      BY <2>1
    <2>4. PICK q \in Readers : Request(q) \/ Get(q) \/ Read(q)
      BY <1>1, <2>3 DEF Next, vars, Update, Age, StampExpires, DeleteKey, OnLink, Notification
    <2>5. q = r
      BY <2>1, <2>2, <2>4 DEF Request, Get, Read, Fetch, Set, ReadOld, ReadNew, Invalidate, SetStamp
    <2>6. Get(r)
      BY <2>1, <2>4, <2>5 DEF Request, Read, Fetch, Set, ReadOld, ReadNew, Invalidate, SetStamp
    <2>7. Cached
      BY <2>1, <2>2, <2>6 DEF Get
    <2>8. Reliable => reader[r].since <= cache.value
      BY <1>1, <2>1 DEF StampsReliable, NotOlder
    <2>9. cache.value \in Nat
      BY <1>1, <2>7 DEF CacheTypes, TypeOK, Entry
    <2> QED
      BY <2>1, <2>2, <2>7, <2>8, <2>9 DEF Reliable
  <1>2. CacheTypes /\ StampsReliable /\ [Next]_vars => [\A r \in Readers : Fresh(r)]_vars
    BY <1>1
  <1> QED
    BY <1>2, TypesHold, StampsAreReliable, PTL DEF Spec, StampedIsFresh

-------------------------------------------------------------------------------
(* The reconnect, while its ticks do not overlap.                          *)

NoneConnecting == \A c \in Connections : conn[c] # "connecting"

Listening ==
  /\ ~reconnecting /\ ~timer /\ intervals = 0 /\ ending = 0
  /\ queries = <<>>
  /\ NoneConnecting
  /\ \E c \in Connections : conn[c] = "broken" \/ (conn[c] = "open" /\ 1 .. Channels \subseteq heard[c])

Ending ==
  /\ reconnecting /\ ~timer /\ intervals = 0 /\ ending = 1
  /\ queries = <<>>
  /\ NoneConnecting

\* A tick at most: before it is connected, or while it listens to one channel
\* after the other over its own connection.
Subscribing(c) ==
  /\ queries = <<c>> /\ over = c /\ client = c
  /\ NoneConnecting
  /\ conn[c] = "open" => 1 .. next[c] - 1 \subseteq heard[c]

Ticking ==
  /\ reconnecting /\ timer /\ intervals = 1 /\ ending = 0
  /\ \/ /\ queries = <<>>
        /\ \A c, d \in Connections : conn[c] = "connecting" /\ conn[d] = "connecting" => c = d
     \/ \E c \in Connections : Subscribing(c)

Phases == late \/ Listening \/ Ending \/ Ticking

LEMMA ListeningStep ==
  ASSUME LinkTypes, Listening, LinkNext
  PROVE  Listening' \/ Ending'
  <1> USE DEF Listening, LinkTypes, LinkTypeOK, NoneConnecting
  <1>1. ASSUME NEW c \in Connections, Break(c)  PROVE Listening'
    <2>1. conn' = [conn EXCEPT ![c] = "broken"] /\ conn'[c] = "broken"
      BY <1>1 DEF Break
    <2>2. NoneConnecting'
      BY <2>1
    <2>3. UNCHANGED <<reconnecting, timer, intervals, ending, queries>>
      BY <1>1 DEF Break, timers, listens
    <2> QED
      BY <2>1, <2>2, <2>3
  <1>2. ASSUME NEW c \in Connections, Reconnect(c)  PROVE Ending'
    <2> DEFINE gone == {c, client} \cap Connections
    <2>1. conn' = [d \in Connections |-> IF d \in gone THEN "closed" ELSE conn[d]]
      BY <1>2 DEF Reconnect
    <2> HIDE DEF gone
    <2>2. NoneConnecting'
      BY <2>1
    <2>3. reconnecting' = TRUE /\ ending' = ending + 1 /\ UNCHANGED <<timer, intervals, queries>>
      BY <1>2 DEF Reconnect, listens
    <2> QED
      BY <2>2, <2>3 DEF Ending
  <1>3. ASSUME NEW c \in Connections  PROVE ~ErrorIgnored(c) /\ ~Tick(c) /\ ~ConnectFails(c) /\ ~Connected(c)
    BY DEF ErrorIgnored, Ignored, Tick, ConnectFails, Connected
  <1>4. ~SetTimer /\ ~Listen /\ ~ListenFails
    BY DEF SetTimer, Listen, ListenFails
  <1> QED
    BY <1>1, <1>2, <1>3, <1>4 DEF LinkNext

LEMMA EndingStep ==
  ASSUME LinkTypes, Ending, LinkNext
  PROVE  Ending' \/ Ticking'
  <1> USE DEF Ending, LinkTypes, LinkTypeOK, NoneConnecting
  <1>1. ASSUME NEW c \in Connections, Break(c) \/ ErrorIgnored(c)  PROVE Ending'
    <2>1. \E s \in {"broken", "closed"} : conn' = [conn EXCEPT ![c] = s]
      BY <1>1 DEF Break, ErrorIgnored
    <2>2. NoneConnecting'
      BY <2>1
    <2>3. UNCHANGED <<reconnecting, timer, intervals, ending, queries>>
      BY <1>1 DEF Break, ErrorIgnored, timers, listens
    <2> QED
      BY <2>2, <2>3
  <1>2. CASE SetTimer
    BY <1>2 DEF SetTimer, Ticking, listens
  <1>3. ASSUME NEW c \in Connections  PROVE ~Reconnect(c) /\ ~Tick(c) /\ ~ConnectFails(c) /\ ~Connected(c)
    BY DEF Reconnect, Ignored, Tick, ConnectFails, Connected
  <1>4. ~Listen /\ ~ListenFails
    BY DEF Listen, ListenFails
  <1> QED
    BY <1>1, <1>2, <1>3, <1>4 DEF LinkNext

LEMMA TickingStep ==
  ASSUME LinkTypes, Ticking, LinkNext
  PROVE  late' \/ Listening' \/ Ticking'
  <1> USE DEF LinkTypes, LinkTypeOK
  <1>1. \A c \in Connections : ~Reconnect(c)
    BY DEF Ticking, Reconnect, Ignored
  <1>2. ~SetTimer
    BY DEF Ticking, SetTimer
  <1>3. CASE queries = <<>>
    <2>1. \A c, d \in Connections : conn[c] = "connecting" /\ conn[d] = "connecting" => c = d
      BY <1>3 DEF Ticking, Subscribing
    <2>2. ~Listen /\ ~ListenFails
      BY <1>3 DEF Listen, ListenFails
    <2>3. ASSUME NEW c \in Connections, Break(c) \/ ErrorIgnored(c) \/ ConnectFails(c)  PROVE Ticking'
      <3>1. \E s \in {"broken", "closed"} : conn' = [conn EXCEPT ![c] = s]
        BY <2>3 DEF Break, ErrorIgnored, ConnectFails
      <3>2. \A d, e \in Connections : conn'[d] = "connecting" /\ conn'[e] = "connecting" => d = e
        BY <2>1, <3>1
      <3>3. UNCHANGED <<reconnecting, timer, intervals, ending, queries>>
        BY <2>3 DEF Break, ErrorIgnored, ConnectFails, timers, listens
      <3> QED
        BY <1>3, <3>2, <3>3 DEF Ticking
    <2>4. ASSUME NEW c \in Connections, Tick(c)  PROVE late' \/ Ticking'
      <3>1. SUFFICES ASSUME ~late'  PROVE Ticking'
        OBVIOUS
      <3>2. \A d \in Connections : conn[d] # "connecting"
        BY <2>4, <3>1, Zenon DEF Tick
      <3>3. conn' = [conn EXCEPT ![c] = "connecting"]
        BY <2>4 DEF Tick
      <3>4. \A d, e \in Connections : conn'[d] = "connecting" /\ conn'[e] = "connecting" => d = e
        BY <3>2, <3>3
      <3>5. UNCHANGED <<reconnecting, timer, intervals, ending, queries>>
        BY <2>4 DEF Tick, timers, listens
      <3> QED
        BY <1>3, <3>4, <3>5 DEF Ticking
    <2>5. ASSUME NEW c \in Connections, Connected(c)  PROVE Ticking'
      <3>1. conn[c] = "connecting" /\ conn' = [conn EXCEPT ![c] = "open"]
        BY <2>5 DEF Connected
      <3>2. NoneConnecting'
        BY <2>1, <3>1 DEF NoneConnecting
      <3>3. queries' = <<c>> /\ over' = c /\ client' = c /\ next'[c] = 1
        BY <1>3, <2>5 DEF Connected
      <3>4. 1 .. next'[c] - 1 = {}
        BY <3>3
      <3>5. Subscribing(c)'
        BY <3>2, <3>3, <3>4 DEF Subscribing
      <3>6. UNCHANGED <<reconnecting, timer, intervals, ending>>
        BY <2>5 DEF Connected, timers
      <3> QED
        BY <3>5, <3>6 DEF Ticking
    <2> QED
      BY <1>1, <1>2, <2>2, <2>3, <2>4, <2>5 DEF LinkNext
  <1>4. ASSUME NEW c \in Connections, Subscribing(c)  PROVE late' \/ Listening' \/ Ticking'
    <2> USE DEF Subscribing, NoneConnecting
    <2>1. queries # <<>> /\ Head(queries) = c /\ Tail(queries) = <<>>
      BY <1>4
    <2>2. ASSUME NEW d \in Connections, Break(d) \/ ErrorIgnored(d)  PROVE Ticking'
      <3>1. \E s \in {"broken", "closed"} : conn' = [conn EXCEPT ![d] = s]
        BY <2>2 DEF Break, ErrorIgnored
      <3>2. NoneConnecting' /\ (conn'[c] = "open" => c # d /\ conn[c] = "open")
        BY <1>4, <3>1
      <3>3. UNCHANGED <<reconnecting, timer, intervals, ending, queries, over, next, client>>
        BY <2>2 DEF Break, ErrorIgnored, timers, listens
      <3>4. c # d => heard'[c] = heard[c]
        BY <2>2 DEF Break, ErrorIgnored, Without
      <3>5. Subscribing(c)'
        BY <1>4, <3>2, <3>3, <3>4
      <3> QED
        BY <3>3, <3>5 DEF Ticking
    <2>3. ASSUME NEW d \in Connections, Tick(d)  PROVE late'
      BY <2>1, <2>3, Zenon DEF Tick
    <2>4. ASSUME NEW d \in Connections  PROVE ~ConnectFails(d) /\ ~Connected(d)
      BY <1>4 DEF ConnectFails, Connected
    <2>5. CASE ListenFails
      <3>1. queries' = <<>> /\ UNCHANGED <<conn, reconnecting, timer, intervals, ending>>
        BY <2>1, <2>5 DEF ListenFails, timers
      <3> QED
        BY <1>4, <3>1 DEF Ticking
    <2>6. CASE Listen
      <3>1. over = c /\ client = c /\ conn[c] = "open" /\ next[c] \in 1 .. Channels
        BY <1>4, <2>6 DEF Listen
      <3>2. heard'[c] = heard[c] \cup {next[c]} /\ UNCHANGED <<conn, client, ending>>
        BY <2>1, <2>6, <3>1 DEF Listen
      <3>3. 1 .. next[c] \subseteq heard'[c]
        BY <1>4, <3>1, <3>2
      <3>4. CASE next[c] = Channels
        <4>1. queries' = <<>> /\ StopReconnect
          BY <2>1, <2>6, <3>4 DEF Listen
        <4>2. intervals' = 0 /\ ~timer' /\ ~reconnecting'
          BY <4>1 DEF StopReconnect, Ticking
        <4> QED
          BY <1>4, <3>1, <3>2, <3>3, <3>4, <4>1, <4>2 DEF Listening, Ticking
      <3>5. CASE next[c] # Channels
        <4>1. queries' = <<c>> /\ next'[c] = next[c] + 1 /\ UNCHANGED timers
          <5>1. queries' = Append(Tail(queries), c)
            BY <2>1, <2>6, <3>5 DEF Listen
          <5>2. next' = [next EXCEPT ![c] = next[c] + 1]
            BY <2>1, <2>6, <3>5 DEF Listen
          <5>3. UNCHANGED timers
            BY <2>1, <2>6, <3>5 DEF Listen
          <5>4. queries' = <<c>>
            <6>1. Append(<<>>, c) = <<c>>
              OBVIOUS
            <6> QED
              BY <2>1, <5>1, <6>1, Zenon
          <5> QED
            BY <5>2, <5>3, <5>4
        <4>2. over' = c
          <5>1. over' = SentOver(queries', client)
            BY <2>6 DEF Listen
          <5>2. queries' # <<>>
            BY <4>1
          <5> QED
            BY <3>1, <5>1, <5>2 DEF SentOver
        <4>3. 1 .. next'[c] - 1 \subseteq heard'[c]
          BY <3>1, <3>3, <4>1
        <4>4. Subscribing(c)'
          BY <1>4, <3>1, <3>2, <4>1, <4>2, <4>3
        <4> QED
          BY <3>2, <4>1, <4>4 DEF Ticking, timers
      <3> QED
        BY <3>4, <3>5
    <2> QED
      BY <1>1, <1>2, <2>2, <2>3, <2>4, <2>5, <2>6 DEF LinkNext
  <1> QED
    BY <1>3, <1>4 DEF Ticking

LEMMA PhasesStep ==
  ASSUME CacheTypes, Phases, [Next]_vars
  PROVE  Phases'
  <1>1. CASE UNCHANGED <<conn, heard, client, timers, ending, listens, late>>
    BY <1>1 DEF Phases, Listening, Ending, Ticking, Subscribing, NoneConnecting, timers, listens
  <1>2. CASE OnLink(LinkNext)
    <2>1. LinkTypes /\ LinkNext
      BY <1>2 DEF OnLink, CacheTypes, TypeOK, LinkTypes
    <2>2. late => late'
      <3>1. late' = late \/ \E c \in Connections : Tick(c)
        BY <2>1 DEF LinkNext, Break, ErrorIgnored, Reconnect, SetTimer, Listen, ListenFails, ConnectFails, Connected
      <3> QED
        BY <3>1, Zenon DEF Tick
    <2> QED
      BY <2>1, <2>2, ListeningStep, EndingStep, TickingStep DEF Phases
  <1>3. CASE UNCHANGED link
    BY <1>1, <1>3 DEF link, timers, listens
  <1>4. CASE Update
    BY <1>1, <1>4 DEF Update
  <1>5. CASE \E c \in Connections : Notification(c)
    BY <1>1, <1>5 DEF Notification
  <1> QED
    BY <1>2, <1>3, <1>4, <1>5 DEF Next, vars, Age, StampExpires, DeleteKey,
      Request, Get, Read, Fetch, Set, ReadOld, ReadNew, Invalidate, SetStamp

(***************************************************************************)
(* NeverDeaf: whatever breaks, and however often, the replica listens to   *)
(* all channels, is going to hear of the break, or is reconnecting; unless *)
(* a connection has taken longer than the interval of the timer.           *)
(***************************************************************************)
THEOREM LinkIsNeverDeaf == Spec => []NeverDeaf
  <1>1. Init => Phases
    <2> SUFFICES ASSUME Init  PROVE Listening
      BY DEF Phases
    <2> USE DEF Init, LinkInit
    <2>1. conn[client] = "open" /\ heard[client] = 1 .. Channels
      OBVIOUS
    <2>2. NoneConnecting
      BY DEF NoneConnecting
    <2> QED
      BY <2>1, <2>2 DEF Listening
  <1>2. CacheTypes /\ Phases /\ [Next]_vars => Phases'
    BY PhasesStep
  <1>3. Phases => NeverDeaf
    BY DEF Phases, Listening, Ending, Ticking, NeverDeaf, Hears
  <1> QED
    BY <1>1, <1>2, <1>3, TypesHold, PTL DEF Spec

===============================================================================
