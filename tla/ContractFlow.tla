---------------------------- MODULE ContractFlow ----------------------------
(***************************************************************************)
(* Creating a contract and adding alterations to it: the confirm handlers  *)
(* of CreateContractVC and AddAlterationVC, the helpers they call, and the *)
(* app's process, which may be ended at any time.                          *)
(***************************************************************************)
EXTENDS FirebaseClient

VARIABLES
  nextKey,    \* the next push id childByAutoId makes; ids grow for ever
  current     \* ContractSingleton.current: the contract's uid and array

vars == <<clientVars, nextKey, current>>

Placeholder == -2         \* "3.14", AddAlterationVC.alterationUID until set

OriginalValues == [uid |-> NoUID, alterations |-> <<NoUID>>]

Object(kind, ref, list, cost) ==
  [kind |-> kind, ref |-> ref, list |-> list, cost |-> cost]

PutAt(k, n) == [key |-> k, node |-> n]

DressPut(k)          == PutAt(k, Object("dress", NoUID, <<>>, NoCost))
ContractPut(k, d)    == PutAt(k, Object("contract", d, <<Marker>>, NoCost))
BridePut(k)          == PutAt(k, Object("bride", NoUID, <<Marker>>, NoCost))
MeasurementPut(k, b) == PutAt(k, Object("measurement", b, <<>>, NoCost))
\* A mutant of AlterationPut: contractUID is not set.
AlterationPutNoContract(k, c, cost) ==
  PutAt(k, Object("alteration", NoUID, <<>>, cost))
AlterationPut(k, c, cost) == PutAt(k, Object("alteration", c, <<>>, cost))
ListPut(c, list)     == PutAt(c, Object("list", NoUID, list, NoCost))

Init ==
  /\ ClientInit
  /\ nextKey = 1
  /\ current = OriginalValues

-----------------------------------------------------------------------------
(* User actions.                                                           *)

\* A mutant of CreateContract: the contract is written before its dress.
CreateContractFirst ==
  /\ nextKey + 3 <= MaxKey
  /\ nextKey' = nextKey + 4
  /\ Issue(<<ContractPut(nextKey + 1, nextKey), DressPut(nextKey),
             BridePut(nextKey + 2), MeasurementPut(nextKey + 3, nextKey + 2)>>)
  /\ current' = [OriginalValues EXCEPT !.uid = nextKey + 1]
  /\ UNCHANGED <<server, applied, acked, released, connected, listens, events>>

\* "Create" confirmed: dress, contract, bride and measurement are written.
CreateContract ==
  LET dress    == nextKey
      contract == nextKey + 1
      bride    == nextKey + 2
  IN  /\ nextKey + 3 <= MaxKey
      /\ nextKey' = nextKey + 4
      /\ Issue(<<DressPut(dress), ContractPut(contract, dress),
                 BridePut(bride), MeasurementPut(nextKey + 3, bride)>>)
      /\ current' = [OriginalValues EXCEPT !.uid = contract]
      /\ UNCHANGED <<server, applied, acked, released, connected, listens,
                     events>>

\* "Add" confirmed: the alteration is written, and the contract is read so
\* that its array can be written back one longer.
AddAlteration(cost) ==
  /\ current.uid # NoUID
  /\ nextKey <= MaxKey
  /\ nextKey' = nextKey + 1
  /\ Issue(<<AlterationPut(nextKey, current.uid, cost)>>)
  /\ current' = [current EXCEPT !.alterations = @ \o <<Placeholder, nextKey>>]
  /\ Observe(current.uid, [purpose |-> "append", arg |-> nextKey])
  /\ UNCHANGED <<server, applied, acked, released, connected>>

\* A mutant of AppendCallback: the uid is appended twice.
AppendCallbackTwice ==
  /\ events # <<>>
  /\ LET e == Head(events)
     IN  /\ e.purpose = "append"
         /\ Issue(IF e.node.kind = "contract"
                    THEN <<ListPut(e.key, e.node.list \o <<e.arg, e.arg>>)>>
                    ELSE <<>>)
  /\ events' = Tail(events)
  /\ UNCHANGED <<server, applied, acked, released, connected, listens,
                 nextKey, current>>

\* The block of updateAlterationsForContract. A value that does not decode
\* as a Contract is printed and nothing is written.
AppendCallback ==
  /\ events # <<>>
  /\ LET e == Head(events)
     IN  /\ e.purpose = "append"
         /\ Issue(IF e.node.kind = "contract"
                    THEN <<ListPut(e.key, Append(e.node.list, e.arg))>>
                    ELSE <<>>)
  /\ events' = Tail(events)
  /\ UNCHANGED <<server, applied, acked, released, connected, listens,
                 nextKey, current>>

\* The process ends and the app is launched again.
Kill ==
  /\ ClientKilled
  /\ current' = OriginalValues
  /\ UNCHANGED nextKey

Network == ClientStep /\ UNCHANGED <<nextKey, current>>

Next ==
  \/ CreateContract
  \/ \E cost \in Costs : AddAlteration(cost)
  \/ AppendCallback
  \/ Kill
  \/ Network

Spec == Init /\ [][Next]_vars

(***************************************************************************)
(* The main queue runs what is on it and the library reconnects for ever.  *)
(* A connection may drop before a message gets through, but not every      *)
(* time: what is sent again and again is delivered and acknowledged.       *)
(***************************************************************************)
Fairness ==
  /\ WF_vars(AppendCallback)
  /\ WF_vars(Reconnect /\ UNCHANGED <<nextKey, current>>)
  /\ SF_vars(ServerApply /\ UNCHANGED <<nextKey, current>>)
  /\ SF_vars(PutAcked /\ UNCHANGED <<nextKey, current>>)
  /\ \A k \in Keys :
        SF_vars(ListenAnswered(k) /\ UNCHANGED <<nextKey, current>>)

FairSpec == Spec /\ Fairness

-----------------------------------------------------------------------------
(* Properties.                                                             *)

\* Every variable has its type; the counters into puts are in order.
TypeOK ==
  /\ ClientTypeOK
  /\ nextKey \in 1..MaxKey + 1
  /\ current \in [uid : Keys \cup {NoUID},
                  alterations : Seq(Keys \cup {NoUID, Placeholder})]

Elements(list) == {list[i] : i \in DOMAIN list}

Is(k, kind) == k \in Keys /\ server[k].kind = kind

\* Whatever the server stores refers only to what the server stores: a
\* contract to its dress and to alterations made for it, a measurement to
\* its bride, an alteration to its contract; and no array stands where a
\* contract should be. It must hold while writes are half delivered, sent
\* again after a lost connection, or dropped with the process
\* (CreateContractVC 307-349, AddAlterationVC 56-60).
ReferencesResolve ==
  \A k \in Keys :
    LET n == server[k]
    IN  /\ n.kind # "list"
        /\ n.kind = "contract" =>
             /\ Is(n.ref, "dress")
             /\ \A a \in Elements(n.list) \ {Marker} :
                   Is(a, "alteration") /\ server[a].ref = k
        /\ n.kind = "measurement" => Is(n.ref, "bride")
        /\ n.kind = "alteration" => Is(n.ref, "contract")

\* A contract's array starts with "-1" and names no alteration twice, however
\* often its writes are sent again (FirebaseHelperMethods 129-143).
ListsWellFormed ==
  \A k \in Keys :
    LET l == server[k].list
    IN  server[k].kind = "contract" =>
          /\ l # <<>> /\ l[1] = Marker
          /\ \A i, j \in DOMAIN l : l[i] = l[j] => i = j

\* Once a write to a contract is acknowledged, the server never goes back to
\* an older one: its array is that write's or a later one's, although a new
\* connection repeats writes the server already had (FPersistentConnection
\* restoreState sends the unacknowledged ones, in order).
AckedNeverUndone ==
  \A k \in Keys :
    LET done == {i \in 1..acked : puts[i].key = k}
    IN  (done # {} /\ server[k].kind = "contract") =>
          \E i \in Latest(done)..Len(puts) :
            puts[i].key = k /\ server[k].list = puts[i].node.list

InFlight(a) ==
  \E q \in {events} \cup {listens[k] : k \in Keys} : \E i \in DOMAIN q :
    q[i].purpose = "append" /\ q[i].arg = a

AddsOf(c) ==
  {i \in DOMAIN puts : puts[i].node.kind = "alteration" /\ puts[i].node.ref = c}

ListedBy(j, a) ==
  LET l == puts[j].node.list
  IN  puts[j].node.kind = "list" /\ l[Len(l)] = a

\* Each alteration of c was added after the array with the one before it
\* had been written.
OneAtATime(c) ==
  \A i, m \in AddsOf(c) :
    i < m => \E j \in i + 1..m - 1 : ListedBy(j, puts[i].key)

KeptIn(c, a) == a \in Elements(View(c).list) \/ InFlight(a)

\* When alterations are added to a contract one at a time, none is lost: each
\* is in the contract's array or its read is still on the way, over any number
\* of lost connections (FirebaseHelperMethods 129-143).
WaitedAddsKept ==
  \A c \in Keys :
    OneAtATime(c) => \A i \in AddsOf(c) : KeptIn(c, puts[i].key)

\* "add alteration to contract in fbdb" (AddAlterationVC 54): every alteration
\* the user confirmed is in its contract's array or on the way there.
AddedAlterationKept ==
  \A c \in Keys : \A i \in AddsOf(c) : KeptIn(c, puts[i].key)

Adding(a) ==
  \E i \in DOMAIN puts : puts[i].key = a /\ puts[i].node.kind = "alteration"

Settled(a) ==
  /\ server[a].kind = "alteration"
  /\ \E j \in 1..applied : ListedBy(j, a)

\* Unless the app is ended first, a confirmed alteration and the array that
\* names it reach the server, even if every connection is lost in between.
AddsSettle ==
  \A a \in Keys : Adding(a) ~> (Settled(a) \/ ~Adding(a))
=============================================================================
