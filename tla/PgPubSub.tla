------------------------------- MODULE PgPubSub -------------------------------
(***************************************************************************)
(* The connection over which one replica of the task service listens to    *)
(* PostgreSQL, and the reconnect.  The reconnect is an interval timer whose *)
(* callback is asynchronous: a tick that waits for its connection does not *)
(* hold back the next one, and a tick that is late may end when the        *)
(* reconnect it belongs to is over or another one has begun.               *)
(***************************************************************************)
EXTENDS Integers, Sequences

CONSTANTS
  Connections,  \* clients; a closed one stands for the next that is made
  Channels,     \* number of channels that are subscribed to, in their order
  RowChange,    \* the channel of the table that is cached
  NoClient,
  MaxBreaks     \* bound

ASSUME PubSubAssumption ==
  /\ Channels \in Nat
  /\ RowChange \in 1 .. Channels
  /\ NoClient \notin Connections
  /\ MaxBreaks \in Nat

VARIABLES
  conn,          \* state of a connection
  heard,         \* channels it listens on
  inbox,         \* notifications of RowChange on the way to the replica
  client,        \* this.client
  reconnecting,  \* this.isReconnecting
  timer,         \* this.reconnectTimer is set
  intervals,     \* timers that tick
  ending,        \* calls of reconnect() that wait for client.end()
  queries,       \* the ticks that wait for a LISTEN, the first one's is sent
  over,          \* connection it is sent over
  next,          \* channel it is for
  late,          \* a tick has come while another one was not done
  breaks

link == <<conn, heard, inbox, client, reconnecting, timer, intervals, ending, queries, over, next, late, breaks>>
timers == <<reconnecting, timer, intervals>>
listens == <<queries, over, next>>

Hears(c, ch) == conn[c] = "open" /\ ch \in heard[c]

\* Connections that are gone: the database forgets what they listened on, and
\* what was on the way is lost.
Without(gone) ==
  /\ heard' = [c \in Connections |-> IF c \in gone THEN {} ELSE heard[c]]
  /\ inbox' = [c \in Connections |-> IF c \in gone THEN 0 ELSE inbox[c]]

Break(c) ==
  /\ conn[c] = "open"
  /\ breaks < MaxBreaks
  /\ breaks' = breaks + 1
  /\ conn' = [conn EXCEPT ![c] = "broken"]
  /\ Without({c})
  /\ UNCHANGED <<client, timers, ending, listens, late>>

-------------------------------------------------------------------------------
(* on('error') and reconnect().                                            *)

\* While a reconnect is under way the error is only logged.
Ignored == reconnecting \/ timer

ErrorIgnored(c) ==
  /\ conn[c] = "broken"
  /\ Ignored
  /\ conn' = [conn EXCEPT ![c] = "closed"]
  /\ UNCHANGED <<heard, inbox, client, timers, ending, listens, late, breaks>>

\* Up to the await: the client is ended, whichever connection the error is of.
Reconnect(c) ==
  /\ conn[c] = "broken"
  /\ ~Ignored
  /\ reconnecting' = TRUE
  /\ ending' = ending + 1
  /\ LET gone == {c, client} \cap Connections IN
       /\ conn' = [d \in Connections |-> IF d \in gone THEN "closed" ELSE conn[d]]
       /\ Without(gone)
  /\ UNCHANGED <<client, timer, intervals, listens, late, breaks>>

\* After it, and after the query that was sent to the ended client has failed.
\* A timer that was set before is forgotten and not cleared.
SetTimer ==
  /\ ending > 0
  /\ over # NoClient => conn[over] # "closed"
  /\ ending' = ending - 1
  /\ client' = NoClient
  /\ timer' = TRUE
  /\ intervals' = intervals + 1
  /\ UNCHANGED <<conn, heard, inbox, reconnecting, listens, late, breaks>>

-------------------------------------------------------------------------------
(* A tick.                                                                 *)

InQueue(c) == \E i \in DOMAIN queries : queries[i] = c

TickOnce(c) ==  \* mutant: setTimeout for setInterval
  /\ intervals > 0
  /\ conn[c] = "closed"
  /\ ~InQueue(c) /\ c \notin {over, client}
  /\ conn' = [conn EXCEPT ![c] = "connecting"]
  /\ intervals' = intervals - 1
  /\ UNCHANGED <<heard, inbox, client, reconnecting, timer, ending, listens, late, breaks>>

\* connect() makes a new client, whether or not an earlier tick is done.
Tick(c) ==
  /\ intervals > 0
  /\ conn[c] = "closed"
  /\ ~InQueue(c) /\ c \notin {over, client}
  /\ conn' = [conn EXCEPT ![c] = "connecting"]
  /\ late' = (late \/ queries # <<>> \/ \E d \in Connections : conn[d] = "connecting")
  /\ UNCHANGED <<heard, inbox, client, timers, ending, listens, breaks>>

ConnectFails(c) ==
  /\ conn[c] = "connecting"
  /\ conn' = [conn EXCEPT ![c] = "closed"]
  /\ UNCHANGED <<heard, inbox, client, timers, ending, listens, late, breaks>>

\* enqueueClientQuery: a LISTEN goes over what this.client is when its turn comes.
SentOver(waiting, latest) == IF waiting = <<>> THEN NoClient ELSE latest

Connected(c) ==
  /\ conn[c] = "connecting"
  /\ conn' = [conn EXCEPT ![c] = "open"]
  /\ client' = c
  /\ queries' = Append(queries, c)
  /\ over' = IF queries = <<>> THEN c ELSE over
  /\ next' = [next EXCEPT ![c] = 1]
  /\ UNCHANGED <<heard, inbox, timers, ending, late, breaks>>

\* The tick that has listened to all channels ends the reconnect: it clears the
\* timer that is set now.
StopReconnect ==
  /\ intervals' = IF timer THEN intervals - 1 ELSE intervals
  /\ timer' = FALSE
  /\ reconnecting' = FALSE

Listen ==
  /\ queries # <<>>
  /\ over # NoClient /\ conn[over] = "open"
  /\ LET c == Head(queries)
         done == next[c] = Channels
     IN /\ heard' = [heard EXCEPT ![over] = @ \cup {next[c]}]
        /\ next' = [next EXCEPT ![c] = IF done THEN 1 ELSE @ + 1]
        /\ queries' = IF done THEN Tail(queries) ELSE Append(Tail(queries), c)
        /\ IF done THEN StopReconnect ELSE UNCHANGED timers
  /\ over' = SentOver(queries', client)
  /\ UNCHANGED <<conn, inbox, client, ending, late, breaks>>

ListenFailsStops ==  \* mutant: the timer is cleared in a finally block
  /\ queries # <<>>
  /\ over # NoClient => conn[over] = "closed"
  /\ next' = [next EXCEPT ![Head(queries)] = 1]
  /\ queries' = Tail(queries)
  /\ over' = SentOver(queries', client)
  /\ StopReconnect
  /\ UNCHANGED <<conn, heard, inbox, client, ending, late, breaks>>

\* The tick ends, another one follows: unless the timer has been cleared.
ListenFails ==
  /\ queries # <<>>
  /\ over # NoClient => conn[over] = "closed"
  /\ next' = [next EXCEPT ![Head(queries)] = 1]
  /\ queries' = Tail(queries)
  /\ over' = SentOver(queries', client)
  /\ UNCHANGED <<conn, heard, inbox, client, timers, ending, late, breaks>>

-------------------------------------------------------------------------------
LinkInit ==
  /\ client \in Connections
  /\ conn = [c \in Connections |-> IF c = client THEN "open" ELSE "closed"]
  /\ heard = [c \in Connections |-> IF c = client THEN 1 .. Channels ELSE {}]
  /\ inbox = [c \in Connections |-> 0]
  /\ reconnecting = FALSE
  /\ timer = FALSE
  /\ intervals = 0
  /\ ending = 0
  /\ queries = <<>>
  /\ over = NoClient
  /\ next = [c \in Connections |-> 1]
  /\ late = FALSE
  /\ breaks = 0

LinkNext ==
  \/ \E c \in Connections :
       \/ Break(c) \/ ErrorIgnored(c) \/ Reconnect(c)
       \/ Tick(c) \/ ConnectFails(c) \/ Connected(c)
  \/ SetTimer \/ Listen \/ ListenFails

-------------------------------------------------------------------------------
LinkTypeOK ==
  /\ conn \in [Connections -> {"closed", "connecting", "open", "broken"}]
  /\ heard \in [Connections -> SUBSET (1 .. Channels)]
  /\ inbox \in [Connections -> Nat]
  /\ client \in Connections \cup {NoClient}
  /\ reconnecting \in BOOLEAN /\ timer \in BOOLEAN
  /\ intervals \in Nat /\ ending \in Nat
  /\ queries \in Seq(Connections)
  /\ over \in Connections \cup {NoClient}
  /\ next \in [Connections -> 1 .. Channels]
  /\ late \in BOOLEAN
  /\ breaks \in 0 .. MaxBreaks

(***************************************************************************)
(* The replica never gives a channel up: it listens, or a connection has   *)
(* broken and the error that starts a reconnect is still to come, or a     *)
(* reconnect is under way; unless ticks have overlapped.                   *)
(***************************************************************************)
NeverDeaf ==
  \/ late
  \/ ending > 0 \/ timer
  \/ \E c \in Connections : conn[c] = "broken"
  \/ \A ch \in 1 .. Channels : \E c \in Connections : Hears(c, ch)

===============================================================================
