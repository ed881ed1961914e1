--------------------------- MODULE FirebaseClient ---------------------------
(***************************************************************************)
(* The Realtime Database as the app uses it: setValue, observeSingleEvent  *)
(* and childByAutoId, with the client library's queue of outstanding       *)
(* writes and the server behind a connection that drops and comes back.    *)
(*                                                                         *)
(* A stored object is one node: its kind (the top-level list it is in),    *)
(* the uid of the object it refers to, its array of uids and its cost.     *)
(* Every path the app writes is written by the device that made the push   *)
(* id, because a contract is only known to the app that created it.        *)
(***************************************************************************)
EXTENDS Integers, Sequences, FiniteSets

CONSTANTS MaxKey,   \* bound: push ids 1..MaxKey can be made
          Costs     \* what an alteration may cost

ASSUME MaxKeyAssumption == MaxKey \in Nat

Keys   == 1..MaxKey
NoUID  == 0               \* the empty string, a uid that was never set
Marker == -1              \* "-1", the first element of every stored array
NoCost == 0

(***************************************************************************)
(* "list" is what setValue on <contract>/alterations leaves behind when    *)
(* there is no contract at that path: an object with nothing but an array. *)
(***************************************************************************)
Kinds == {"absent", "dress", "contract", "bride", "measurement",
          "alteration", "list"}

Node == [kind : Kinds, ref : Keys \cup {NoUID},
         list : Seq(Keys \cup {Marker}), cost : Costs \cup {NoCost}]

Absent == [kind |-> "absent", ref |-> NoUID, list |-> <<>>, cost |-> NoCost]

Put  == [key : Keys, node : Node]

\* What the block of a single-event read is for, and the uid it captured.
Purposes == {"append", "uids", "struct"}
Read  == [purpose : Purposes, arg : Keys]
Event == [key : Keys, purpose : Purposes, arg : Keys, node : Node]

VARIABLES
  server,     \* what the server stores, by key
  puts,       \* every write issued since launch, in the order of putCounter
  applied,    \* the server has applied puts 1..applied of this connection
  acked,      \* puts 1..acked were acknowledged; they are never sent again
  released,   \* puts 1..released have left the write tree
  connected,  \* the connection is up and its state restored
  listens,    \* by key, the single-event reads that wait for the server
  events      \* value events on the main queue, their blocks not yet run

clientVars == <<server, puts, applied, acked, released, connected, listens,
                events>>

ClientInit ==
  /\ server = [k \in Keys |-> Absent]
  /\ puts = <<>>
  /\ applied = 0 /\ acked = 0 /\ released = 0
  /\ connected = FALSE
  /\ listens = [k \in Keys |-> <<>>]
  /\ events = <<>>

-----------------------------------------------------------------------------
(* Reads: the value at a path is the server's value under the write tree.  *)

\* setValue at a node replaces it; at its alterations child, only the array.
Overwrite(old, new) ==
  IF new.kind = "list" /\ old.kind = "contract"
    THEN [old EXCEPT !.list = new.list]
    ELSE new

Latest(S) == CHOOSE i \in S : \A j \in S : j <= i

\* The writes to k the write tree still holds.
WritesTo(k) == {i \in DOMAIN puts : i > released /\ puts[i].key = k}

Shadows(k) == {i \in WritesTo(k) : puts[i].node.kind # "list"}

View(k) ==
  LET base == IF Shadows(k) = {} THEN server[k]
                                 ELSE puts[Latest(Shadows(k))].node
  IN  IF WritesTo(k) = {} THEN base
                          ELSE Overwrite(base, puts[Latest(WritesTo(k))].node)

\* Only the review screen's "uids" read is of the alterations child.
Covers(whole, r) == whole \/ r.purpose = "uids"

(***************************************************************************)
(* A read is answered at once when a write in the write tree covers its    *)
(* path, or another observer of the path already has its value: one is     *)
(* removed only when its block runs.                                       *)
(***************************************************************************)
Complete(k, r) ==
  \/ \E i \in WritesTo(k) : Covers(i \in Shadows(k), r)
  \/ \E i \in DOMAIN events :
        events[i].key = k /\ Covers(events[i].purpose # "uids", r)

\* A mutant of EventOf: the client's own pending writes are not seen.
EventOfServer(k, r) ==
  [key |-> k, purpose |-> r.purpose, arg |-> r.arg, node |-> server[k]]

EventOf(k, r) ==
  [key |-> k, purpose |-> r.purpose, arg |-> r.arg, node |-> View(k)]

\* observeSingleEvent
Observe(k, r) ==
  IF Complete(k, r)
    THEN /\ events' = Append(events, EventOf(k, r))
         /\ UNCHANGED listens
    ELSE /\ listens' = [listens EXCEPT ![k] = Append(@, r)]
         /\ UNCHANGED events

\* setValue, once for each element of ps
Issue(ps) == puts' = puts \o ps

-----------------------------------------------------------------------------
(* The connection and the server.                                          *)

ServerApply ==
  /\ connected
  /\ applied < Len(puts)
  /\ LET p == puts[applied + 1]
     IN  server' = [server EXCEPT ![p.key] = Overwrite(server[p.key], p.node)]
  /\ applied' = applied + 1
  /\ UNCHANGED <<puts, acked, released, connected, listens, events>>

\* Acknowledgements are held back while a listen is unanswered.
PutAcked ==
  /\ connected
  /\ acked < applied
  /\ acked' = acked + 1
  /\ released' = IF \A k \in Keys : listens[k] = <<>> THEN acked + 1
                                                     ELSE released
  /\ UNCHANGED <<server, puts, applied, connected, listens, events>>

\* The server's answer reaches every read that waits on the path.
ListenAnswered(k) ==
  /\ connected
  /\ listens[k] # <<>>
  /\ events' = events \o [i \in DOMAIN listens[k] |-> EventOf(k, listens[k][i])]
  /\ listens' = [listens EXCEPT ![k] = <<>>]
  /\ released' = IF \A j \in Keys \ {k} : listens[j] = <<>> THEN acked
                                                           ELSE released
  /\ UNCHANGED <<server, puts, applied, acked, connected>>

\* A mutant of Disconnect: acknowledged writes are sent again too.
DisconnectResendsAll ==
  /\ connected
  /\ connected' = FALSE
  /\ applied' = 0
  /\ UNCHANGED <<server, puts, acked, released, listens, events>>

\* A mutant of Disconnect: the reads that wait are forgotten.
DisconnectForgetsReads ==
  /\ connected
  /\ connected' = FALSE
  /\ applied' = acked
  /\ listens' = [k \in Keys |-> <<>>]
  /\ UNCHANGED <<server, puts, acked, released, events>>

\* What was sent and not acknowledged will be sent again from the first.
Disconnect ==
  /\ connected
  /\ connected' = FALSE
  /\ applied' = acked
  /\ UNCHANGED <<server, puts, acked, released, listens, events>>

Reconnect ==
  /\ ~connected
  /\ connected' = TRUE
  /\ UNCHANGED <<server, puts, applied, acked, released, listens, events>>

\* A mutant of ClientKilled: the count of acknowledgements outlives the queue.
ClientKilledKeepsAcked ==
  /\ puts' = <<>>
  /\ applied' = 0 /\ acked' = acked /\ released' = 0
  /\ connected' = FALSE
  /\ listens' = [k \in Keys |-> <<>>]
  /\ events' = <<>>
  /\ UNCHANGED server

\* The process ends: nothing the library holds is on disk (no persistence).
ClientKilled ==
  /\ puts' = <<>>
  /\ applied' = 0 /\ acked' = 0 /\ released' = 0
  /\ connected' = FALSE
  /\ listens' = [k \in Keys |-> <<>>]
  /\ events' = <<>>
  /\ UNCHANGED server

ClientStep ==
  \/ ServerApply
  \/ PutAcked
  \/ \E k \in Keys : ListenAnswered(k)
  \/ Disconnect
  \/ Reconnect

ClientTypeOK ==
  /\ server \in [Keys -> Node]
  /\ puts \in Seq(Put)
  /\ applied \in Nat /\ acked \in Nat /\ released \in Nat
  /\ connected \in BOOLEAN
  /\ listens \in [Keys -> Seq(Read)]
  /\ events \in Seq(Event)
  /\ released <= acked /\ acked <= applied /\ applied <= Len(puts)
=============================================================================
