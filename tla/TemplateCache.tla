----------------------------- MODULE TemplateCache -----------------------------
(***************************************************************************)
(* The cache of the task service in Redis, which all replicas share: one   *)
(* key, with what has been read from one row or one query.  Readers get it *)
(* or set it; how it is invalidated is its kind: by a notification of the  *)
(* database (templates, units), by a timestamp that is compared on every   *)
(* request (lists of tasks, workflows, documents), or only by its time to  *)
(* live.  The data is told apart by its version.                           *)
(***************************************************************************)
EXTENDS PgPubSub

CONSTANTS
  Readers,     \* requests, in any replica
  Kinds,       \* which of "noticed", "stamped", "timed" are looked at
  Ttl,         \* age at which an entry expires
  None,        \* nothing in Redis
  MaxVersion   \* bound

ASSUME CacheAssumption ==
  /\ Kinds \subseteq {"noticed", "stamped", "timed"}
  /\ Ttl \in Nat
  /\ MaxVersion \in Nat
  /\ None \notin Nat

VARIABLES
  kind,     \* of the key; it stays
  row,      \* version in the database
  cache,    \* entry in Redis; overtaken: an update has passed it unnoticed
  stamp,    \* timestamp in Redis
  reader,   \* requests; since: version when the request came
  deletes   \* deletions a notification has sent to Redis

vars == <<link, kind, row, cache, stamp, reader, deletes>>

Entry == [value : Nat, age : Nat, overtaken : BOOLEAN]
Cached == cache # None

Idle == [pc |-> "idle"]
Timestamp == Nat \cup {None}
ReaderState ==
  [pc : {"idle", "fetch"}]
    \cup [pc : {"set"}, value : Nat]
    \cup [pc : {"stamps"}, since : Nat, read : SUBSET {"old", "new"}, old : Timestamp, new : Timestamp]
    \cup [pc : {"stamp"}, since : Nat, new : Nat]
    \cup [pc : {"get"}, since : Nat]

Overtaken(entry) == [entry EXCEPT !.overtaken = TRUE]

-------------------------------------------------------------------------------
(* The row, and the trigger that notifies of every change of it.           *)

Update ==
  /\ row < MaxVersion
  /\ row' = row + 1
  /\ IF kind = "noticed"
     THEN /\ inbox' = [c \in Connections |-> IF Hears(c, RowChange) THEN inbox[c] + 1 ELSE inbox[c]]
          /\ cache' = IF Cached /\ \A c \in Connections : ~Hears(c, RowChange)
                      THEN Overtaken(cache)
                      ELSE cache
     ELSE UNCHANGED <<inbox, cache>>
  /\ UNCHANGED <<conn, heard, client, timers, ending, listens, late, breaks>>
  /\ UNCHANGED <<kind, stamp, reader, deletes>>

\* on('notification') and onRowChange; the deletion is not awaited.
Notification(c) ==
  /\ inbox[c] > 0
  /\ inbox' = [inbox EXCEPT ![c] = @ - 1]
  /\ deletes' = deletes + 1
  /\ UNCHANGED <<conn, heard, client, timers, ending, listens, late, breaks>>
  /\ UNCHANGED <<kind, row, cache, stamp, reader>>

DeleteOther ==  \* mutant: only the key of getAll
  /\ deletes > 0
  /\ deletes' = deletes - 1
  /\ UNCHANGED <<link, kind, row, cache, stamp, reader>>

DeleteKey ==
  /\ deletes > 0
  /\ deletes' = deletes - 1
  /\ cache' = None
  /\ UNCHANGED <<link, kind, row, stamp, reader>>

\* A step of the connection, by which notifications may be lost.
OnLink(Step) ==
  /\ kind = "noticed"
  /\ Step
  /\ cache' = IF Cached /\ inbox' # inbox THEN Overtaken(cache) ELSE cache
  /\ UNCHANGED <<kind, row, stamp, reader, deletes>>

-------------------------------------------------------------------------------
(* getOrSet.                                                               *)

GetRefreshes(r) ==  \* mutant: a hit sets the time to live again
  /\ reader[r].pc = IF kind = "stamped" THEN "get" ELSE "idle"
  /\ reader' = [reader EXCEPT ![r] = IF Cached THEN Idle ELSE [pc |-> "fetch"]]
  /\ cache' = IF Cached THEN [cache EXCEPT !.age = 0] ELSE cache
  /\ UNCHANGED <<link, kind, row, stamp, deletes>>

\* redis.get: what is found is the answer.
Get(r) ==
  /\ reader[r].pc = IF kind = "stamped" THEN "get" ELSE "idle"
  /\ reader' = [reader EXCEPT ![r] = IF Cached THEN Idle ELSE [pc |-> "fetch"]]
  /\ UNCHANGED <<link, kind, row, cache, stamp, deletes>>

Fetch(r) ==
  /\ reader[r].pc = "fetch"
  /\ reader' = [reader EXCEPT ![r] = [pc |-> "set", value |-> row]]
  /\ UNCHANGED <<link, kind, row, cache, stamp, deletes>>

Set(r) ==
  /\ reader[r].pc = "set"
  /\ cache' = [value |-> reader[r].value, age |-> 0, overtaken |-> reader[r].value # row]
  /\ reader' = [reader EXCEPT ![r] = Idle]
  /\ UNCHANGED <<link, kind, row, stamp, deletes>>

\* EX: the entry expires at an age that nothing but a new entry sets back.
Age ==
  /\ Cached
  /\ cache' = IF cache.age < Ttl THEN [cache EXCEPT !.age = @ + 1] ELSE None
  /\ UNCHANGED <<link, kind, row, stamp, reader, deletes>>

-------------------------------------------------------------------------------
(* getOrSetWithTimestamp.  Its two reads are sent at once, and answered in *)
(* any order.                                                              *)

Request(r) ==
  /\ kind = "stamped"
  /\ reader[r].pc = "idle"
  /\ reader' = [reader EXCEPT ![r] = [pc |-> "stamps", since |-> row, read |-> {}, old |-> None, new |-> None]]
  /\ UNCHANGED <<link, kind, row, cache, stamp, deletes>>

ReadOld(r) ==
  /\ reader[r].pc = "stamps"
  /\ "old" \notin reader[r].read
  /\ reader' = [reader EXCEPT ![r].old = stamp, ![r].read = @ \cup {"old"}]
  /\ UNCHANGED <<link, kind, row, cache, stamp, deletes>>

ReadNew(r) ==
  /\ reader[r].pc = "stamps"
  /\ "new" \notin reader[r].read
  /\ reader' = [reader EXCEPT ![r].new = row, ![r].read = @ \cup {"new"}]
  /\ UNCHANGED <<link, kind, row, cache, stamp, deletes>>

OutdatedKnown(r) == reader[r].old # None /\ reader[r].new > reader[r].old  \* mutant

\* Invalidate cache if needed.
Outdated(r) == reader[r].old = None \/ reader[r].new > reader[r].old

Invalidate(r) ==
  /\ reader[r].pc = "stamps"
  /\ reader[r].read = {"old", "new"}
  /\ cache' = IF Outdated(r) THEN None ELSE cache
  /\ reader' = [reader EXCEPT ![r] = [pc |-> "stamp", since |-> @.since, new |-> @.new]]
  /\ UNCHANGED <<link, kind, row, stamp, deletes>>

SetStamp(r) ==
  /\ reader[r].pc = "stamp"
  /\ stamp' = reader[r].new
  /\ reader' = [reader EXCEPT ![r] = [pc |-> "get", since |-> @.since]]
  /\ UNCHANGED <<link, kind, row, cache, deletes>>

StampExpires ==
  /\ stamp # None
  /\ stamp' = None
  /\ UNCHANGED <<link, kind, row, cache, reader, deletes>>

-------------------------------------------------------------------------------
Init ==
  /\ LinkInit
  /\ kind \in Kinds
  /\ row = 0
  /\ cache = None
  /\ stamp = None
  /\ reader = [r \in Readers |-> Idle]
  /\ deletes = 0

Read(r) ==
  \/ Fetch(r) \/ Set(r)
  \/ ReadOld(r) \/ ReadNew(r) \/ Invalidate(r) \/ SetStamp(r)

Next ==
  \/ Update \/ Age \/ StampExpires \/ DeleteKey \/ OnLink(LinkNext)
  \/ \E c \in Connections : Notification(c)
  \/ \E r \in Readers : Request(r) \/ Get(r) \/ Read(r)

Spec == Init /\ [][Next]_vars

(***************************************************************************)
(* An entry expires, a request that has begun goes on, the timer ticks, an *)
(* error of a broken connection is reported, and the database is reached   *)
(* again sooner or later.                                                  *)
(***************************************************************************)
FairSpec ==
  /\ Spec
  /\ WF_vars(Age)
  /\ \A r \in Readers : WF_vars(Read(r))
  /\ WF_vars(OnLink(SetTimer))
  /\ WF_vars(OnLink(\E c \in Connections : Tick(c)))
  /\ \A c \in Connections : WF_vars(OnLink(ErrorIgnored(c) \/ Reconnect(c)))
  /\ WF_vars(OnLink(Listen \/ ListenFails))
  /\ SF_vars(OnLink(\E c \in Connections : Connected(c)))

-------------------------------------------------------------------------------
TypeOK ==
  /\ LinkTypeOK
  /\ kind \in Kinds
  /\ row \in 0 .. MaxVersion
  /\ Cached => cache \in Entry
  /\ stamp \in Timestamp
  /\ reader \in [Readers -> ReaderState]
  /\ deletes \in Nat

(***************************************************************************)
(* A template that has changed leaves the cache, or will: its notification *)
(* is on the way.  It stays only if nobody was listening, the connection   *)
(* that carried the notification broke, or a reader that had read the row  *)
(* before the change has set it afterwards.                                *)
(***************************************************************************)
NotifiedIsCurrent ==
  kind = "noticed" /\ Cached /\ cache.value # row =>
    \/ cache.overtaken
    \/ deletes > 0
    \/ \E c \in Connections : inbox[c] > 0

(***************************************************************************)
(* A list that is answered from the cache is not older than the request,   *)
(* whatever other requests do to the timestamp and the list meanwhile; but *)
(* for a list that was read before a change and set after it.              *)
(***************************************************************************)
StampedIsFresh ==
  [][\A r \in Readers :
       kind = "stamped" /\ reader[r].pc = "get" /\ reader'[r].pc = "idle"
         => cache.value >= reader[r].since \/ cache.overtaken]_vars

(***************************************************************************)
(* What is cached catches up with the database once that stays as it is,   *)
(* however it was invalidated.                                             *)
(***************************************************************************)
Heals == <>[](Cached => cache.value = row)

(***************************************************************************)
(* After the last break the replica listens again, to every channel.       *)
(***************************************************************************)
ListensAgain == <>[](late \/ \A ch \in 1 .. Channels : \E c \in Connections : Hears(c, ch))

===============================================================================
