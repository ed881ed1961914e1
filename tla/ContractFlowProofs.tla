------------------------- MODULE ContractFlowProofs -------------------------
(***************************************************************************)
(* Proofs about ContractFlow, for any number of push ids and any set of    *)
(* costs: the type invariant, that what the server stores only refers to   *)
(* what it stores, that it never goes back behind an acknowledged write,   *)
(* that a contract's array is well formed, and that alterations added one  *)
(* at a time are all kept.                                                 *)
(***************************************************************************)
EXTENDS ContractFlow, SequenceTheorems, WellFoundedInduction, TLAPS

-----------------------------------------------------------------------------
(* Lemmas about the operators of FirebaseClient.                           *)

\* A non-empty set of positions in a sequence has a last one: Latest, by
\* which View picks the newest write of a path, is well defined.
LEMMA LatestExists ==
  ASSUME NEW n \in Nat, NEW S \in SUBSET (1..n), S # {}
  PROVE  Latest(S) \in S /\ \A j \in S : j <= Latest(S)
<1> DEFINE T == {n - i : i \in S}
<1>1. T \subseteq Nat /\ T # {}
  <2>1. \A i \in S : n - i \in Nat
    BY SMT
  <2> QED
    BY <2>1
<1>2. PICK x \in T : \A y \in T : ~(<<y, x>> \in OpToRel(<, Nat))
  BY <1>1, NatLessThanWellFounded, WFMin
<1>3. \A y \in T : ~(y < x)
  BY <1>1, <1>2 DEF OpToRel
<1>4. PICK i \in S : x = n - i
  OBVIOUS
<1>5. \A j \in S : j <= i
  <2> TAKE j \in S
  <2>1. n - j \in T
    OBVIOUS
  <2> QED
    BY <2>1, <1>3, <1>4
<1> QED
  BY <1>5 DEF Latest

\* setValue over a node gives a node.
LEMMA OverwriteType ==
  ASSUME NEW old \in Node, NEW new \in Node
  PROVE  Overwrite(old, new) \in Node
BY DEF Overwrite, Node

\* A read gives a node.
LEMMA ViewType ==
  ASSUME ClientTypeOK, NEW k \in Keys
  PROVE  View(k) \in Node
<1>1. WritesTo(k) \in SUBSET (1..Len(puts)) /\ Shadows(k) \in SUBSET (1..Len(puts))
  BY DEF WritesTo, Shadows, ClientTypeOK
<1>2. Len(puts) \in Nat /\ \A i \in 1..Len(puts) : puts[i].node \in Node
  <2>1. puts \in Seq(Put)
    BY DEF ClientTypeOK
  <2>2. Len(puts) \in Nat /\ \A i \in 1..Len(puts) : puts[i] \in Put
    BY <2>1
  <2> QED
    BY <2>2 DEF Put
<1>3. WritesTo(k) # {} => Latest(WritesTo(k)) \in 1..Len(puts)
  BY <1>1, <1>2, LatestExists
<1>4. Shadows(k) # {} => Latest(Shadows(k)) \in 1..Len(puts)
  BY <1>1, <1>2, LatestExists
<1>5. server[k] \in Node
  BY DEF ClientTypeOK
<1> QED
  BY <1>2, <1>3, <1>4, <1>5, OverwriteType DEF View

\* The event of a read is well typed.
LEMMA EventOfType ==
  ASSUME ClientTypeOK, NEW k \in Keys, NEW r \in Read
  PROVE  EventOf(k, r) \in Event
BY ViewType DEF EventOf, Event, Read

\* Appending to a queue and concatenating two queues keep the element type.
LEMMA AppendType ==
  ASSUME NEW S, NEW s \in Seq(S), NEW x \in S
  PROVE  Append(s, x) \in Seq(S)
BY AppendProperties

\* Where the elements of a concatenation come from.
LEMMA ConcatParts ==
  ASSUME NEW S, NEW s \in Seq(S), NEW t \in Seq(S)
  PROVE  /\ Len(s) \in Nat /\ Len(t) \in Nat
         /\ Len(s \o t) = Len(s) + Len(t)
         /\ \A i \in 1..Len(s) : (s \o t)[i] = s[i]
         /\ \A i \in 1..Len(t) : (s \o t)[Len(s) + i] = t[i]
BY LenProperties, ConcatProperties

\* A function on the positions of a sequence is a sequence of its values.
LEMMA MapType ==
  ASSUME NEW S, NEW T, NEW s \in Seq(S), NEW f \in [DOMAIN s -> T]
  PROVE  f \in Seq(T)
<1>1. DOMAIN s = 1..Len(s) /\ Len(s) \in Nat
  BY LenProperties
<1> QED
  BY <1>1, SeqDef

-----------------------------------------------------------------------------
(* The type invariant.                                                     *)

\* observeSingleEvent keeps the two queues well typed.
LEMMA ObserveType ==
  ASSUME ClientTypeOK, NEW k \in Keys, NEW r \in Read, Observe(k, r)
  PROVE  listens' \in [Keys -> Seq(Read)] /\ events' \in Seq(Event)
<1>1. listens \in [Keys -> Seq(Read)] /\ events \in Seq(Event)
  BY DEF ClientTypeOK
<1>2. CASE Complete(k, r)
  BY <1>1, <1>2, EventOfType, AppendType DEF Observe
<1>3. CASE ~Complete(k, r)
  <2>1. Append(listens[k], r) \in Seq(Read)
    BY <1>1, AppendType
  <2> QED
    BY <1>1, <1>3, <2>1 DEF Observe
<1> QED
  BY <1>2, <1>3

\* setValue appends to the outstanding writes.
LEMMA IssueType ==
  ASSUME ClientTypeOK, NEW ps \in Seq(Put), Issue(ps)
  PROVE  puts' \in Seq(Put) /\ Len(puts') = Len(puts) + Len(ps)
<1>1. puts \in Seq(Put)
  BY DEF ClientTypeOK
<1> QED
  BY <1>1, ConcatProperties DEF Issue

\* Every step of the connection and of the server keeps the client well typed.
LEMMA ClientStepType ==
  ASSUME ClientTypeOK, ClientStep
  PROVE  ClientTypeOK'
<1>1. CASE ServerApply
  <2>1. applied + 1 \in 1..Len(puts) /\ puts \in Seq(Put) /\ server \in [Keys -> Node]
    BY <1>1 DEF ServerApply, ClientTypeOK
  <2>2. puts[applied + 1] \in Put
    BY <2>1, ElementOfSeq
  <2>3. puts[applied + 1].key \in Keys /\ puts[applied + 1].node \in Node
    BY <2>2 DEF Put
  <2>4. server' \in [Keys -> Node]
    BY <1>1, <2>1, <2>3, OverwriteType DEF ServerApply
  <2> QED
    BY <1>1, <2>4 DEF ServerApply, ClientTypeOK
<1>2. CASE PutAcked
  BY <1>2 DEF PutAcked, ClientTypeOK
<1>3. ASSUME NEW k \in Keys, ListenAnswered(k)
      PROVE  ClientTypeOK'
  <2> DEFINE new == [i \in DOMAIN listens[k] |-> EventOf(k, listens[k][i])]
  <2>1. listens[k] \in Seq(Read) /\ listens \in [Keys -> Seq(Read)] /\ events \in Seq(Event)
    BY DEF ClientTypeOK
  <2>2. \A i \in DOMAIN listens[k] : EventOf(k, listens[k][i]) \in Event
    BY <2>1, EventOfType, LenProperties, ElementOfSeq
  <2>3. new \in [DOMAIN listens[k] -> Event]
    BY <2>2
  <2>4. new \in Seq(Event)
    BY <2>1, <2>3, MapType
  <2> HIDE DEF new
  <2>5. events \o new \in Seq(Event)
    BY <2>1, <2>4, ConcatProperties
  <2>6. events' = events \o new
    BY <1>3 DEF ListenAnswered, new
  <2>7. <<>> \in Seq(Read)
    BY EmptySeq
  <2>8. listens' \in [Keys -> Seq(Read)]
    BY <1>3, <2>1, <2>7 DEF ListenAnswered
  <2>9. /\ released' \in {acked, released}
        /\ UNCHANGED <<server, puts, applied, acked, connected>>
    BY <1>3 DEF ListenAnswered
  <2>10. events' \in Seq(Event)
    BY <2>5, <2>6
  <2> QED
    BY <2>8, <2>9, <2>10 DEF ClientTypeOK
<1>4. CASE Disconnect
  <2>1. /\ connected' = FALSE /\ applied' = acked
        /\ UNCHANGED <<server, puts, acked, released, listens, events>>
    BY <1>4 DEF Disconnect
  <2>2. Len(puts) \in Nat
    BY LenProperties DEF ClientTypeOK
  <2>3. /\ applied' \in Nat /\ released <= acked
        /\ acked <= applied' /\ applied' <= Len(puts)
    BY <2>1, <2>2 DEF ClientTypeOK
  <2> QED
    BY <2>1, <2>3 DEF ClientTypeOK
<1>5. CASE Reconnect
  BY <1>5 DEF Reconnect, ClientTypeOK
<1> QED
  BY <1>1, <1>2, <1>3, <1>4, <1>5 DEF ClientStep

\* The writes the app issues are well typed.
LEMMA PutTypes ==
  /\ \A k \in Keys : DressPut(k) \in Put /\ BridePut(k) \in Put
  /\ \A k \in Keys, r \in Keys :
        ContractPut(k, r) \in Put /\ MeasurementPut(k, r) \in Put
  /\ \A k \in Keys, r \in Keys, c \in Costs : AlterationPut(k, r, c) \in Put
  /\ \A k \in Keys, l \in Seq(Keys \cup {Marker}) : ListPut(k, l) \in Put
<1>1. <<>> \in Seq(Keys \cup {Marker}) /\ <<Marker>> \in Seq(Keys \cup {Marker})
  OBVIOUS
<1> QED
  BY <1>1 DEF DressPut, BridePut, ContractPut, MeasurementPut, AlterationPut,
              ListPut, PutAt, Object, Put, Node, Kinds

\* The app starts well typed.
LEMMA InitType ==
  ASSUME Init
  PROVE  TypeOK
<1>1. Absent \in Node /\ <<>> \in Seq(Read) /\ <<>> \in Seq(Put) /\ <<>> \in Seq(Event)
  <2>1. \A S : <<>> \in Seq(S)
    BY EmptySeq
  <2> QED
    BY <2>1 DEF Absent, Node, Kinds
<1>2. ClientTypeOK
  <2>1. Len(puts) = 0 /\ connected \in BOOLEAN
    BY EmptySeq DEF Init, ClientInit
  <2> QED
    BY <1>1, <2>1 DEF Init, ClientInit, ClientTypeOK
<1>3. OriginalValues \in [uid : Keys \cup {NoUID},
                          alterations : Seq(Keys \cup {NoUID, Placeholder})]
  BY DEF OriginalValues
<1> QED
  BY <1>2, <1>3, MaxKeyAssumption DEF Init, TypeOK

\* Every step keeps the types.
LEMMA NextType ==
  ASSUME TypeOK, [Next]_vars
  PROVE  TypeOK'
<1> DEFINE CurrentType == [uid : Keys \cup {NoUID},
                           alterations : Seq(Keys \cup {NoUID, Placeholder})]
<1>0. ClientTypeOK /\ nextKey \in 1..MaxKey + 1 /\ current \in CurrentType
      /\ MaxKey \in Nat
  BY MaxKeyAssumption DEF TypeOK
<1>a. OriginalValues \in CurrentType
  BY DEF OriginalValues
<1>1. CASE CreateContract
  <2> DEFINE ps == <<DressPut(nextKey), ContractPut(nextKey + 1, nextKey),
                     BridePut(nextKey + 2),
                     MeasurementPut(nextKey + 3, nextKey + 2)>>
  <2>1. {nextKey, nextKey + 1, nextKey + 2, nextKey + 3} \subseteq Keys
    BY <1>0, <1>1 DEF CreateContract, Keys
  <2>2. ps \in Seq(Put) /\ Len(ps) = 4
    BY <2>1, PutTypes
  <2>3. puts' \in Seq(Put) /\ Len(puts') = Len(puts) + 4
    BY <1>0, <1>1, <2>2, IssueType DEF CreateContract
  <2>4. ClientTypeOK'
    <3>1. /\ Len(puts) \in Nat
          /\ UNCHANGED <<server, applied, acked, released, connected, listens,
                         events>>
      BY <1>0, <1>1, LenProperties DEF CreateContract, ClientTypeOK
    <3> QED
      BY <1>0, <2>3, <3>1 DEF ClientTypeOK
  <2>5. nextKey' \in 1..MaxKey + 1
    BY <1>0, <1>1 DEF CreateContract
  <2>6. current' \in CurrentType
    BY <1>1, <1>a, <2>1 DEF CreateContract
  <2> QED
    BY <2>4, <2>5, <2>6 DEF TypeOK
<1>2. ASSUME NEW cost \in Costs, AddAlteration(cost)
      PROVE  TypeOK'
  <2> DEFINE ps == <<AlterationPut(nextKey, current.uid, cost)>>
  <2>1. nextKey \in Keys /\ current.uid \in Keys
    BY <1>0, <1>2 DEF AddAlteration, Keys
  <2>2. ps \in Seq(Put) /\ Len(ps) = 1
    BY <2>1, PutTypes
  <2>3. puts' \in Seq(Put) /\ Len(puts') = Len(puts) + 1
    BY <1>0, <1>2, <2>2, IssueType DEF AddAlteration
  <2>4. [purpose |-> "append", arg |-> nextKey] \in Read
    BY <2>1 DEF Read, Purposes
  <2>5. listens' \in [Keys -> Seq(Read)] /\ events' \in Seq(Event)
    BY <1>0, <1>2, <2>1, <2>4, ObserveType DEF AddAlteration
  <2>6. ClientTypeOK'
    <3>1. /\ Len(puts) \in Nat
          /\ UNCHANGED <<server, applied, acked, released, connected>>
      BY <1>0, <1>2, LenProperties DEF AddAlteration, ClientTypeOK
    <3> QED
      BY <1>0, <2>3, <2>5, <3>1 DEF ClientTypeOK
  <2>7. nextKey' \in 1..MaxKey + 1
    BY <1>0, <1>2 DEF AddAlteration
  <2>8. current' \in CurrentType
    <3>1. <<Placeholder, nextKey>> \in Seq(Keys \cup {NoUID, Placeholder})
      BY <2>1
    <3>2. current.alterations \o <<Placeholder, nextKey>>
             \in Seq(Keys \cup {NoUID, Placeholder})
      BY <1>0, <3>1, ConcatProperties
    <3> QED
      BY <1>0, <1>2, <3>2 DEF AddAlteration
  <2> QED
    BY <2>6, <2>7, <2>8 DEF TypeOK
<1>3. CASE AppendCallback
  <2> DEFINE e  == Head(events)
             ps == IF e.node.kind = "contract"
                     THEN <<ListPut(e.key, Append(e.node.list, e.arg))>>
                     ELSE <<>>
  <2>1. events \in Seq(Event) /\ events # <<>>
    BY <1>0, <1>3 DEF AppendCallback, ClientTypeOK
  <2>2. e \in Event /\ Tail(events) \in Seq(Event)
    BY <2>1, HeadTailProperties
  <2>3. ps \in Seq(Put)
    <3>1. e.key \in Keys /\ e.arg \in Keys /\ e.node.list \in Seq(Keys \cup {Marker})
      BY <2>2 DEF Event, Node
    <3>2. Append(e.node.list, e.arg) \in Seq(Keys \cup {Marker})
      BY <3>1, AppendType
    <3>3. ListPut(e.key, Append(e.node.list, e.arg)) \in Put
      BY <3>1, <3>2, PutTypes
    <3> HIDE DEF e
    <3> QED
      BY <3>3
  <2>4. Issue(ps) /\ events' = Tail(events)
        /\ UNCHANGED <<server, applied, acked, released, connected, listens,
                       nextKey, current>>
    BY <1>3 DEF AppendCallback
  <2> HIDE DEF ps
  <2>5. puts' \in Seq(Put) /\ Len(puts') = Len(puts) + Len(ps)
    BY <1>0, <2>3, <2>4, IssueType
  <2>6. Len(puts) \in Nat /\ Len(ps) \in Nat
    BY <1>0, <2>3, LenProperties DEF ClientTypeOK
  <2>7. ClientTypeOK'
    BY <1>0, <2>2, <2>4, <2>5, <2>6 DEF ClientTypeOK
  <2> QED
    BY <1>0, <2>4, <2>7 DEF TypeOK
<1>4. CASE Kill
  <2>1. <<>> \in Seq(Put) /\ <<>> \in Seq(Event) /\ <<>> \in Seq(Read)
        /\ Len(<<>>) = 0
    BY EmptySeq
  <2>2. /\ puts' = <<>> /\ events' = <<>> /\ listens' = [k \in Keys |-> <<>>]
        /\ applied' = 0 /\ acked' = 0 /\ released' = 0 /\ connected' = FALSE
        /\ current' = OriginalValues /\ UNCHANGED <<server, nextKey>>
    BY <1>4 DEF Kill, ClientKilled
  <2>3. connected' \in BOOLEAN /\ Len(puts') = 0
    BY <2>1, <2>2
  <2>4. ClientTypeOK'
    BY <1>0, <2>1, <2>2, <2>3 DEF ClientTypeOK
  <2> QED
    BY <1>0, <1>a, <2>2, <2>4 DEF TypeOK
<1>5. CASE Network
  BY <1>0, <1>5, ClientStepType DEF Network, TypeOK
<1>6. CASE UNCHANGED vars
  BY <1>6 DEF vars, clientVars, TypeOK, ClientTypeOK
<1> QED
  BY <1>1, <1>2, <1>3, <1>4, <1>5, <1>6 DEF Next

\* TypeOK holds in every state: what the app writes, reads and queues has the
\* shape the decoders expect, and the connection's counters stay in order.
THEOREM TypeCorrect == Spec => []TypeOK
<1>1. Init => TypeOK
  BY InitType
<1>2. TypeOK /\ [Next]_vars => TypeOK'
  BY NextType
<1> QED
  BY <1>1, <1>2, PTL DEF Spec

-----------------------------------------------------------------------------
(***************************************************************************)
(* The inductive invariant behind ReferencesResolve. A uid is known at     *)
(* position i of the write queue when the server stores it or a write      *)
(* before the i-th makes it: writes are applied in order, so by the time   *)
(* the i-th is applied everything it refers to is stored.                  *)
(***************************************************************************)
Known(sv, ps, k, kind, i) ==
  /\ k \in Keys
  /\ \/ sv[k].kind = kind
     \/ \E j \in 1..i - 1 : ps[j].key = k /\ ps[j].node.kind = kind

AlterationOf(sv, ps, a, c, i) ==
  /\ a \in Keys
  /\ \/ sv[a].kind = "alteration" /\ sv[a].ref = c
     \/ \E j \in 1..i - 1 : /\ ps[j].key = a
                            /\ ps[j].node.kind = "alteration"
                            /\ ps[j].node.ref = c

ListKnown(sv, ps, l, c, i) ==
  \A m \in DOMAIN l : l[m] # Marker => AlterationOf(sv, ps, l[m], c, i)

NodeKnown(sv, ps, k, n, i) ==
  /\ n.kind = "contract" =>
       Known(sv, ps, n.ref, "dress", i) /\ ListKnown(sv, ps, n.list, k, i)
  /\ n.kind = "list" =>
       Known(sv, ps, k, "contract", i) /\ ListKnown(sv, ps, n.list, k, i)
  /\ n.kind = "measurement" => Known(sv, ps, n.ref, "bride", i)
  /\ n.kind = "alteration" => Known(sv, ps, n.ref, "contract", i)

\* Everything the server stores is known to the server alone.
ServerClosed(sv, ps) ==
  \A k \in Keys : sv[k].kind # "list" /\ NodeKnown(sv, ps, k, sv[k], 1)

\* Everything a write refers to is known before it.
PutsClosed(sv, ps) ==
  \A i \in 1..Len(ps) :
    ps[i].node.kind # "absent" /\ NodeKnown(sv, ps, ps[i].key, ps[i].node, i)

SameIdentity(m, n) == m.kind = n.kind /\ m.ref = n.ref

\* A push id is used for one object: all writes of it, and the server, agree
\* on its kind and on what it refers to.
OneObjectPerKey(sv, ps) ==
  \A i \in 1..Len(ps) : ps[i].node.kind # "list" =>
    /\ sv[ps[i].key].kind # "absent" => SameIdentity(sv[ps[i].key], ps[i].node)
    /\ \A j \in 1..Len(ps) :
         (ps[j].key = ps[i].key /\ ps[j].node.kind # "list")
           => SameIdentity(ps[j].node, ps[i].node)

\* What was applied on this connection is stored.
AppliedStored(sv, ps, n) ==
  \A i \in 1..n :
    ps[i].node.kind # "list" => SameIdentity(sv[ps[i].key], ps[i].node)

\* Push ids not yet made are used nowhere.
Fresh(sv, ps, next) ==
  /\ \A k \in Keys : k >= next => sv[k].kind = "absent"
  /\ \A i \in 1..Len(ps) : ps[i].key < next

\* A read that is to append an alteration to a contract's array knows both.
AppendKnown(sv, ps, k, r) ==
  r.purpose = "append" =>
    /\ Known(sv, ps, k, "contract", Len(ps) + 1)
    /\ AlterationOf(sv, ps, r.arg, k, Len(ps) + 1)

\* An array read names alterations of the contract it was read from.
ArrayKnown(sv, ps, k, n) ==
  n.kind \in {"contract", "list"} => ListKnown(sv, ps, n.list, k, Len(ps) + 1)

\* The reads that wait are known in this sense, and so are the events.
ReadsClosed(sv, ps, ls) ==
  \A k \in Keys : \A i \in 1..Len(ls[k]) : AppendKnown(sv, ps, k, ls[k][i])

EventsClosed(sv, ps, es) ==
  \A i \in 1..Len(es) :
    /\ AppendKnown(sv, ps, es[i].key, es[i])
    /\ ArrayKnown(sv, ps, es[i].key, es[i].node)

CurrentKnown(sv, ps, c) ==
  c # NoUID => Known(sv, ps, c, "contract", Len(ps) + 1)

IInv ==
  /\ TypeOK
  /\ ServerClosed(server, puts)
  /\ PutsClosed(server, puts)
  /\ OneObjectPerKey(server, puts)
  /\ AppliedStored(server, puts, applied)
  /\ Fresh(server, puts, nextKey)
  /\ ReadsClosed(server, puts, listens)
  /\ EventsClosed(server, puts, events)
  /\ CurrentKnown(server, puts, current.uid)

-----------------------------------------------------------------------------
(***************************************************************************)
(* What is known stays known: Carries says when everything known at        *)
(* position i of (sv, ps) is known at position i2 of (sv2, ps2), because   *)
(* stored objects keep their identity and each write before i is still in  *)
(* the queue before i2 or has been stored.                                 *)
(***************************************************************************)
Carries(sv, ps, i, sv2, ps2, i2) ==
  /\ \A k \in Keys : sv[k].kind # "absent" => SameIdentity(sv2[k], sv[k])
  /\ \A j \in 1..i - 1 :
       \/ j \in 1..i2 - 1 /\ ps2[j] = ps[j]
       \/ /\ ps[j].key \in Keys
          /\ ps[j].node.kind # "list" => SameIdentity(sv2[ps[j].key], ps[j].node)

\* An object that was known stays known.
LEMMA KnownCarried ==
  ASSUME NEW sv, NEW ps, NEW i, NEW sv2, NEW ps2, NEW i2,
         Carries(sv, ps, i, sv2, ps2, i2),
         NEW k, NEW kind, kind \notin {"absent", "list"},
         Known(sv, ps, k, kind, i)
  PROVE  Known(sv2, ps2, k, kind, i2)
<1>1. CASE sv[k].kind = kind
  BY <1>1 DEF Known, Carries, SameIdentity
<1>2. CASE sv[k].kind # kind
  <2>1. PICK j \in 1..i - 1 : ps[j].key = k /\ ps[j].node.kind = kind
    BY <1>2 DEF Known
  <2> QED
    BY <2>1 DEF Known, Carries, SameIdentity
<1> QED
  BY <1>1, <1>2

\* So does an alteration of a contract.
LEMMA AlterationCarried ==
  ASSUME NEW sv, NEW ps, NEW i, NEW sv2, NEW ps2, NEW i2,
         Carries(sv, ps, i, sv2, ps2, i2),
         NEW a, NEW c, AlterationOf(sv, ps, a, c, i)
  PROVE  AlterationOf(sv2, ps2, a, c, i2)
<1>1. CASE sv[a].kind = "alteration" /\ sv[a].ref = c
  BY <1>1 DEF AlterationOf, Carries, SameIdentity
<1>2. CASE ~(sv[a].kind = "alteration" /\ sv[a].ref = c)
  <2>1. PICK j \in 1..i - 1 : /\ ps[j].key = a
                              /\ ps[j].node.kind = "alteration"
                              /\ ps[j].node.ref = c
    BY <1>2 DEF AlterationOf
  <2> QED
    BY <2>1 DEF AlterationOf, Carries, SameIdentity
<1> QED
  BY <1>1, <1>2

\* So does every alteration of an array.
LEMMA ListCarried ==
  ASSUME NEW sv, NEW ps, NEW i, NEW sv2, NEW ps2, NEW i2,
         Carries(sv, ps, i, sv2, ps2, i2),
         NEW l, NEW c, ListKnown(sv, ps, l, c, i)
  PROVE  ListKnown(sv2, ps2, l, c, i2)
BY AlterationCarried DEF ListKnown

\* So does everything a node refers to.
LEMMA NodeCarried ==
  ASSUME NEW sv, NEW ps, NEW i, NEW sv2, NEW ps2, NEW i2,
         Carries(sv, ps, i, sv2, ps2, i2),
         NEW k, NEW n, NodeKnown(sv, ps, k, n, i)
  PROVE  NodeKnown(sv2, ps2, k, n, i2)
<1>1. \A kind \in {"dress", "contract", "bride"} :
        \A x : Known(sv, ps, x, kind, i) => Known(sv2, ps2, x, kind, i2)
  BY KnownCarried
<1>2. \A l : ListKnown(sv, ps, l, k, i) => ListKnown(sv2, ps2, l, k, i2)
  BY ListCarried
<1> QED
  BY <1>1, <1>2 DEF NodeKnown

(***************************************************************************)
(* Issuing writes: the invariant of a longer queue follows from what the   *)
(* new writes refer to.                                                    *)
(***************************************************************************)
\* A longer queue knows everything the shorter one did, at every position.
LEMMA LongerCarries ==
  ASSUME NEW sv, NEW ps \in Seq(Put), NEW qs \in Seq(Put),
         NEW i \in 1..Len(ps) + 1, NEW i2 \in Nat, i <= i2
  PROVE  Carries(sv, ps, i, sv, ps \o qs, i2)
<1>1. Len(ps) \in Nat /\ \A j \in 1..Len(ps) : (ps \o qs)[j] = ps[j]
  BY LenProperties, ConcatProperties
<1>2. \A j \in 1..i - 1 : j \in 1..Len(ps) /\ j \in 1..i2 - 1
  BY <1>1
<1> QED
  BY <1>1, <1>2 DEF Carries, SameIdentity

\* Writes whose references are known keep the queue of writes closed.
LEMMA IssueClosed ==
  ASSUME NEW sv \in [Keys -> Node], NEW ps \in Seq(Put), NEW qs \in Seq(Put),
         PutsClosed(sv, ps),
         \A i \in 1..Len(qs) :
           /\ qs[i].node.kind # "absent"
           /\ NodeKnown(sv, ps \o qs, qs[i].key, qs[i].node, Len(ps) + i)
  PROVE  PutsClosed(sv, ps \o qs)
<1>1. /\ Len(ps) \in Nat /\ Len(qs) \in Nat
      /\ Len(ps \o qs) = Len(ps) + Len(qs)
      /\ \A i \in 1..Len(ps) : (ps \o qs)[i] = ps[i]
      /\ \A i \in 1..Len(qs) : (ps \o qs)[Len(ps) + i] = qs[i]
  BY ConcatParts
<1> DEFINE all == ps \o qs
<1>2. \A i \in 1..Len(ps) : NodeKnown(sv, all, ps[i].key, ps[i].node, i)
  <2> TAKE i \in 1..Len(ps)
  <2>1. NodeKnown(sv, ps, ps[i].key, ps[i].node, i)
    BY DEF PutsClosed
  <2>2. Carries(sv, ps, i, sv, all, i)
    BY <1>1, LongerCarries
  <2> QED
    BY <2>1, <2>2, NodeCarried
<1> HIDE DEF all
<1> SUFFICES ASSUME NEW i \in 1..Len(all)
             PROVE  /\ all[i].node.kind # "absent"
                    /\ NodeKnown(sv, all, all[i].key, all[i].node, i)
  BY DEF PutsClosed, all
<1>3. CASE i <= Len(ps)
  <2>1. i \in 1..Len(ps) /\ all[i] = ps[i]
    BY <1>1, <1>3 DEF all
  <2> QED
    BY <1>2, <2>1 DEF PutsClosed
<1>4. CASE i > Len(ps)
  <2>1. PICK m \in 1..Len(qs) : i = Len(ps) + m
    <3>1. i - Len(ps) \in 1..Len(qs) /\ i = Len(ps) + (i - Len(ps))
      BY <1>1, <1>4 DEF all
    <3> QED
      BY <3>1
  <2>2. all[i] = qs[m]
    BY <1>1, <2>1 DEF all
  <2> QED
    BY <2>1, <2>2 DEF all
<1> QED
  BY <1>1, <1>3, <1>4 DEF all

\* Reads, events and the current contract stay known in a longer queue.
LEMMA IssueQueues ==
  ASSUME NEW sv \in [Keys -> Node], NEW ps \in Seq(Put), NEW qs \in Seq(Put),
         NEW ls, ReadsClosed(sv, ps, ls),
         NEW es, EventsClosed(sv, ps, es),
         NEW c, CurrentKnown(sv, ps, c)
  PROVE  /\ ReadsClosed(sv, ps \o qs, ls)
         /\ EventsClosed(sv, ps \o qs, es)
         /\ CurrentKnown(sv, ps \o qs, c)
<1> DEFINE all == ps \o qs
<1>1. Len(ps) \in Nat /\ Len(all) \in Nat /\ Len(ps) + 1 <= Len(all) + 1
  BY LenProperties, ConcatProperties
<1>2. Carries(sv, ps, Len(ps) + 1, sv, all, Len(all) + 1)
  BY <1>1, LongerCarries
<1> HIDE DEF all
<1>3. \A k : Known(sv, ps, k, "contract", Len(ps) + 1)
               => Known(sv, all, k, "contract", Len(all) + 1)
  BY <1>2, KnownCarried
<1>4. \A a, k : AlterationOf(sv, ps, a, k, Len(ps) + 1)
                  => AlterationOf(sv, all, a, k, Len(all) + 1)
  BY <1>2, AlterationCarried
<1>5. \A l, k : ListKnown(sv, ps, l, k, Len(ps) + 1)
                  => ListKnown(sv, all, l, k, Len(all) + 1)
  BY <1>2, ListCarried
<1>6. ReadsClosed(sv, all, ls)
  BY <1>3, <1>4 DEF ReadsClosed, AppendKnown
<1>7. EventsClosed(sv, all, es)
  BY <1>3, <1>4, <1>5 DEF EventsClosed, AppendKnown, ArrayKnown
<1>8. CurrentKnown(sv, all, c)
  BY <1>3 DEF CurrentKnown
<1> QED
  BY <1>6, <1>7, <1>8 DEF all

\* New writes that name fresh push ids, each once, keep one object per key.
LEMMA IssueIdentity ==
  ASSUME NEW sv \in [Keys -> Node], NEW ps \in Seq(Put), NEW qs \in Seq(Put),
         NEW next \in Nat, Fresh(sv, ps, next), OneObjectPerKey(sv, ps),
         \A i \in 1..Len(qs) : qs[i].node.kind # "list" =>
           /\ qs[i].key >= next
           /\ \A j \in 1..Len(qs) :
                (qs[j].node.kind # "list" /\ qs[j].key = qs[i].key) => i = j
  PROVE  OneObjectPerKey(sv, ps \o qs)
<1>1. /\ Len(ps) \in Nat /\ Len(qs) \in Nat
      /\ Len(ps \o qs) = Len(ps) + Len(qs)
      /\ \A i \in 1..Len(ps) : (ps \o qs)[i] = ps[i]
      /\ \A i \in 1..Len(qs) : (ps \o qs)[Len(ps) + i] = qs[i]
  BY ConcatParts
<1> DEFINE all == ps \o qs
<1>2. /\ \A i \in 1..Len(ps) : ps[i].key \in Nat /\ ps[i].key < next
      /\ \A i \in 1..Len(qs) : qs[i].key \in Keys /\ qs[i].key \in Nat
  <2>1. /\ \A i \in 1..Len(ps) : ps[i] \in Put
        /\ \A i \in 1..Len(qs) : qs[i] \in Put
    BY ElementOfSeq
  <2> QED
    BY <2>1 DEF Fresh, Put, Keys
<1> HIDE DEF all
<1>3. \A i \in 1..Len(all) :
        \/ i \in 1..Len(ps) /\ all[i] = ps[i]
        \/ \E m \in 1..Len(qs) : i = Len(ps) + m /\ all[i] = qs[m]
  <2> TAKE i \in 1..Len(all)
  <2>1. CASE i <= Len(ps)
    BY <1>1, <2>1 DEF all
  <2>2. CASE i > Len(ps)
    <3>1. i - Len(ps) \in 1..Len(qs) /\ i = Len(ps) + (i - Len(ps))
      BY <1>1, <2>2 DEF all
    <3> QED
      BY <1>1, <3>1 DEF all
  <2> QED
    BY <1>1, <2>1, <2>2 DEF all
<1> SUFFICES ASSUME NEW i \in 1..Len(all), all[i].node.kind # "list"
             PROVE  /\ sv[all[i].key].kind # "absent"
                         => SameIdentity(sv[all[i].key], all[i].node)
                    /\ \A j \in 1..Len(all) :
                         (all[j].key = all[i].key /\ all[j].node.kind # "list")
                           => SameIdentity(all[j].node, all[i].node)
  BY DEF OneObjectPerKey, all
<1>4. CASE i \in 1..Len(ps) /\ all[i] = ps[i]
  <2>1. sv[all[i].key].kind # "absent" => SameIdentity(sv[all[i].key], all[i].node)
    BY <1>4 DEF OneObjectPerKey
  <2>2. ASSUME NEW j \in 1..Len(all), all[j].key = all[i].key,
               all[j].node.kind # "list"
        PROVE  SameIdentity(all[j].node, all[i].node)
    <3>1. j \in 1..Len(ps) /\ all[j] = ps[j]
      <4>1. all[i].key \in Nat /\ all[i].key < next
        BY <1>2, <1>4
      <4>2. ASSUME NEW m \in 1..Len(qs), j = Len(ps) + m, all[j] = qs[m]
            PROVE  FALSE
        <5>1. qs[m].key \in Nat /\ qs[m].key >= next
          BY <1>2, <2>2, <4>2
        <5> QED
          BY <2>2, <4>1, <4>2, <5>1
      <4> QED
        BY <1>3, <4>2
    <3> QED
      BY <1>4, <2>2, <3>1 DEF OneObjectPerKey
  <2> QED
    BY <2>1, <2>2
<1>5. ASSUME NEW m \in 1..Len(qs), i = Len(ps) + m, all[i] = qs[m]
      PROVE  /\ sv[all[i].key].kind = "absent"
             /\ \A j \in 1..Len(all) :
                  (all[j].key = all[i].key /\ all[j].node.kind # "list")
                    => all[j] = all[i]
  <2>1. all[i].key \in Keys /\ all[i].key >= next
    BY <1>2, <1>5
  <2>2. sv[all[i].key].kind = "absent"
    BY <2>1 DEF Fresh
  <2>3. ASSUME NEW j \in 1..Len(all), all[j].key = all[i].key,
               all[j].node.kind # "list"
        PROVE  all[j] = all[i]
    <3>0. ~(j \in 1..Len(ps) /\ all[j] = ps[j])
      <4>1. all[i].key \in Nat /\ next <= all[i].key
        BY <2>1 DEF Keys
      <4> QED
        BY <1>2, <2>3, <4>1
    <3>1. PICK m2 \in 1..Len(qs) : j = Len(ps) + m2 /\ all[j] = qs[m2]
      BY <1>3, <3>0
    <3>2. m = m2
      BY <1>5, <2>3, <3>1
    <3> QED
      BY <1>5, <3>1, <3>2
  <2> QED
    BY <2>2, <2>3
<1> QED
  BY <1>3, <1>4, <1>5 DEF SameIdentity

\* The two remaining parts of the invariant in a longer queue.
LEMMA IssueRest ==
  ASSUME NEW sv \in [Keys -> Node], NEW ps \in Seq(Put), NEW qs \in Seq(Put),
         NEW n \in Nat, n <= Len(ps), AppliedStored(sv, ps, n),
         NEW next \in Nat, NEW next2 \in Nat, next <= next2,
         Fresh(sv, ps, next), \A i \in 1..Len(qs) : qs[i].key < next2,
         ServerClosed(sv, ps)
  PROVE  /\ AppliedStored(sv, ps \o qs, n)
         /\ Fresh(sv, ps \o qs, next2)
         /\ ServerClosed(sv, ps \o qs)
<1>1. /\ Len(ps) \in Nat /\ Len(qs) \in Nat
      /\ Len(ps \o qs) = Len(ps) + Len(qs)
      /\ \A i \in 1..Len(ps) : (ps \o qs)[i] = ps[i]
      /\ \A i \in 1..Len(qs) : (ps \o qs)[Len(ps) + i] = qs[i]
  BY ConcatParts
<1>2. AppliedStored(sv, ps \o qs, n)
  BY <1>1 DEF AppliedStored
<1>3. ServerClosed(sv, ps \o qs)
  <2>1. Carries(sv, ps, 1, sv, ps \o qs, 1)
    BY <1>1, LongerCarries
  <2> QED
    BY <2>1, NodeCarried DEF ServerClosed
<1>4. Fresh(sv, ps \o qs, next2)
  <2>1. \A k \in Keys : k >= next2 => sv[k].kind = "absent"
    BY DEF Fresh, Keys
  <2>2. ASSUME NEW i \in 1..Len(ps) + Len(qs)
        PROVE  (ps \o qs)[i].key < next2
    <3>1. CASE i <= Len(ps)
      <4>1. ps[i] \in Put /\ (ps \o qs)[i] = ps[i] /\ ps[i].key < next
        BY <1>1, <3>1, ElementOfSeq DEF Fresh
      <4> QED
        BY <4>1 DEF Put, Keys
    <3>2. CASE i > Len(ps)
      <4>1. i - Len(ps) \in 1..Len(qs) /\ i = Len(ps) + (i - Len(ps))
        BY <1>1, <3>2
      <4> QED
        BY <1>1, <4>1
    <3> QED
      BY <1>1, <3>1, <3>2
  <2> QED
    BY <1>1, <2>1, <2>2 DEF Fresh
<1> QED
  BY <1>2, <1>3, <1>4

(***************************************************************************)
(* Reads: the array a read returns names only known alterations.           *)
(***************************************************************************)
\* A contract that is read names only alterations that are known to be its own.
LEMMA ViewClosed ==
  ASSUME IInv, NEW k \in Keys
  PROVE  ArrayKnown(server, puts, k, View(k))
<1> DEFINE N == Len(puts) + 1
<1> USE DEF ArrayKnown
<1>1. puts \in Seq(Put) /\ Len(puts) \in Nat
  BY LenProperties DEF IInv, TypeOK, ClientTypeOK
<1>2. WritesTo(k) \in SUBSET (1..Len(puts)) /\ Shadows(k) \in SUBSET (1..Len(puts))
  BY <1>1, LenProperties DEF WritesTo, Shadows
<1>3. ASSUME NEW i \in 1..Len(puts), puts[i].key = k,
             puts[i].node.kind \in {"contract", "list"}
      PROVE  ListKnown(server, puts, puts[i].node.list, k, N)
  <2>1. ListKnown(server, puts, puts[i].node.list, k, i)
    BY <1>3 DEF IInv, PutsClosed, NodeKnown
  <2>2. Carries(server, puts, i, server, puts, N)
    BY <1>1 DEF Carries, SameIdentity
  <2> QED
    BY <2>1, <2>2, ListCarried
<1>4. /\ server[k].kind = "contract" => ListKnown(server, puts, server[k].list, k, N)
      /\ server[k].kind # "list"
  <2>1. Carries(server, puts, 1, server, puts, N)
    BY DEF Carries, SameIdentity
  <2> QED
    BY <2>1, ListCarried DEF IInv, ServerClosed, NodeKnown
<1>5. CASE WritesTo(k) = {}
  <2>1. Shadows(k) = {}
    BY <1>5 DEF Shadows
  <2> QED
    BY <1>4, <1>5, <2>1 DEF View
<1>6. CASE WritesTo(k) # {}
  <2> DEFINE w == Latest(WritesTo(k))
             base == IF Shadows(k) = {} THEN server[k]
                                        ELSE puts[Latest(Shadows(k))].node
  <2>1. w \in WritesTo(k) /\ w \in 1..Len(puts) /\ puts[w].key = k
    <3>1. w \in WritesTo(k)
      BY <1>1, <1>2, <1>6, LatestExists
    <3> QED
      BY <1>2, <3>1 DEF WritesTo
  <2>2. View(k) = Overwrite(base, puts[w].node)
    BY <1>6 DEF View
  <2>3. puts[w].node \in Node /\ base \in Node
    <3>1. \A i \in 1..Len(puts) : puts[i] \in Put
      BY <1>1, ElementOfSeq
    <3>2. Shadows(k) # {} => Latest(Shadows(k)) \in 1..Len(puts)
      BY <1>1, <1>2, LatestExists
    <3> QED
      BY <2>1, <3>1, <3>2 DEF Put, IInv, TypeOK, ClientTypeOK
  <2> HIDE DEF w, base
  <2>4. CASE puts[w].node.kind = "list" /\ base.kind = "contract"
    <3>1. View(k).list = puts[w].node.list
      BY <2>2, <2>3, <2>4 DEF Overwrite, Node
    <3> QED
      BY <1>3, <2>1, <2>4, <3>1
  <2>5. CASE ~(puts[w].node.kind = "list" /\ base.kind = "contract")
    <3>1. View(k) = puts[w].node
      BY <2>2, <2>5 DEF Overwrite
    <3> QED
      BY <1>3, <2>1, <3>1
  <2> QED
    BY <2>4, <2>5
<1> QED
  BY <1>5, <1>6

(***************************************************************************)
(* The server applies the next write of the queue.                         *)
(***************************************************************************)
\* Applying the next write keeps the invariant.
LEMMA ApplyClosed ==
  ASSUME IInv, ServerApply, UNCHANGED <<nextKey, current>>
  PROVE  IInv'
<1> DEFINE p == puts[applied + 1]
<1>1. /\ puts \in Seq(Put) /\ Len(puts) \in Nat /\ applied \in Nat
      /\ server \in [Keys -> Node] /\ applied + 1 \in 1..Len(puts)
  BY LenProperties DEF IInv, TypeOK, ClientTypeOK, ServerApply
<1>2. \A i \in 1..Len(puts) : puts[i].key \in Keys /\ puts[i].node \in Node
  <2>1. \A i \in 1..Len(puts) : puts[i] \in Put
    BY <1>1, ElementOfSeq
  <2> QED
    BY <2>1 DEF Put
<1>3. /\ UNCHANGED <<puts, acked, released, connected, listens, events>>
      /\ applied' = applied + 1
      /\ server' = [server EXCEPT ![p.key] = Overwrite(server[p.key], p.node)]
  BY DEF ServerApply
<1>4. p.key \in Keys /\ p.node \in Node /\ p.node.kind # "absent"
      /\ NodeKnown(server, puts, p.key, p.node, applied + 1)
  BY <1>1, <1>2 DEF IInv, PutsClosed
<1>t. TypeOK'
  <2>1. Network
    BY DEF Network, ClientStep
  <2> QED
    BY <2>1, NextType DEF IInv, Next
<1>s. server' \in [Keys -> Node]
  BY <1>t DEF TypeOK, ClientTypeOK
<1>5. \A k \in Keys : k # p.key => server'[k] = server[k]
  BY <1>1, <1>3, <1>4
<1>6. server'[p.key] = Overwrite(server[p.key], p.node)
  BY <1>1, <1>3, <1>4
\* what a write applied earlier on this connection made is stored
<1>7. Carries(server, puts, applied + 1, server, puts, 1)
  <2> SUFFICES ASSUME NEW j \in 1..applied, puts[j].node.kind # "list"
               PROVE  SameIdentity(server[puts[j].key], puts[j].node)
    BY <1>1, <1>2 DEF Carries, SameIdentity
  <2> QED
    BY <1>1 DEF IInv, AppliedStored
<1>8. NodeKnown(server, puts, p.key, p.node, 1)
  BY <1>4, <1>7, NodeCarried
<1>9. /\ server[p.key].kind # "absent" => SameIdentity(server'[p.key], server[p.key])
      /\ p.node.kind # "list" => SameIdentity(server'[p.key], p.node)
      /\ p.node.kind = "list" => SameIdentity(server'[p.key], server[p.key])
      /\ server'[p.key].kind # "list"
      /\ NodeKnown(server, puts, p.key, server'[p.key], 1)
  <2>1. CASE p.node.kind = "list"
    <3>1. server[p.key].kind = "contract"
      BY <1>8, <2>1 DEF NodeKnown, Known
    <3>2. server'[p.key] = [server[p.key] EXCEPT !.list = p.node.list]
      BY <1>6, <2>1, <3>1 DEF Overwrite
    <3>3. server[p.key] \in Node
      BY <1>1, <1>4
    <3>4. /\ SameIdentity(server'[p.key], server[p.key])
          /\ server'[p.key].kind = "contract" /\ server'[p.key].list = p.node.list
      BY <3>1, <3>2, <3>3 DEF SameIdentity, Node
    <3>5. Known(server, puts, server[p.key].ref, "dress", 1)
      BY <1>4, <3>1 DEF IInv, ServerClosed, NodeKnown
    <3>6. ListKnown(server, puts, p.node.list, p.key, 1)
      BY <1>8, <2>1 DEF NodeKnown
    <3> QED
      BY <2>1, <3>4, <3>5, <3>6 DEF NodeKnown, SameIdentity
  <2>2. CASE p.node.kind # "list"
    <3>1. server'[p.key] = p.node
      BY <1>6, <2>2 DEF Overwrite
    <3>2. server[p.key].kind # "absent" => SameIdentity(p.node, server[p.key])
      BY <1>1, <2>2 DEF IInv, OneObjectPerKey, SameIdentity
    <3> QED
      BY <1>8, <2>2, <3>1, <3>2 DEF SameIdentity
  <2> QED
    BY <2>1, <2>2
<1> HIDE DEF p
\* so everything known stays known, wherever it is known
<1>10. \A i : Carries(server, puts, i, server', puts, i)
  BY <1>5, <1>9 DEF Carries, SameIdentity
<1>11. ServerClosed(server', puts)
  <2> SUFFICES ASSUME NEW k \in Keys
               PROVE  server'[k].kind # "list" /\ NodeKnown(server', puts, k, server'[k], 1)
    BY DEF ServerClosed
  <2>1. server'[k].kind # "list" /\ NodeKnown(server, puts, k, server'[k], 1)
    BY <1>5, <1>9 DEF IInv, ServerClosed
  <2> QED
    BY <1>10, <2>1, NodeCarried
<1>12. PutsClosed(server', puts)
  <2>1. \A i \in 1..Len(puts) :
          NodeKnown(server, puts, puts[i].key, puts[i].node, i)
            => NodeKnown(server', puts, puts[i].key, puts[i].node, i)
    BY <1>10, NodeCarried
  <2> QED
    BY <2>1 DEF IInv, PutsClosed
<1>13. AppliedStored(server', puts, applied + 1)
  <2> SUFFICES ASSUME NEW i \in 1..applied + 1, puts[i].node.kind # "list"
               PROVE  SameIdentity(server'[puts[i].key], puts[i].node)
    BY DEF AppliedStored
  <2>1. CASE i = applied + 1
    BY <1>9, <2>1 DEF p
  <2>2. CASE i # applied + 1
    <3>1. i \in 1..applied /\ i \in 1..Len(puts)
      BY <1>1, <2>2
    <3>2. SameIdentity(server[puts[i].key], puts[i].node) /\ puts[i].key \in Keys
      BY <1>2, <3>1 DEF IInv, AppliedStored
    <3>3. server[puts[i].key].kind # "absent"
      BY <3>1, <3>2 DEF IInv, PutsClosed, SameIdentity
    <3> QED
      BY <1>5, <1>9, <3>2, <3>3 DEF SameIdentity
  <2> QED
    BY <2>1, <2>2
<1>14. OneObjectPerKey(server', puts)
  <2> SUFFICES ASSUME NEW i \in 1..Len(puts), puts[i].node.kind # "list",
                      server'[puts[i].key].kind # "absent"
               PROVE  SameIdentity(server'[puts[i].key], puts[i].node)
    BY DEF IInv, OneObjectPerKey
  <2>1. CASE puts[i].key # p.key
    BY <1>2, <1>5, <2>1 DEF IInv, OneObjectPerKey
  <2>2. CASE puts[i].key = p.key /\ p.node.kind # "list"
    <3>1. SameIdentity(p.node, puts[i].node)
      BY <1>1, <2>2 DEF IInv, OneObjectPerKey, p
    <3> QED
      BY <1>9, <2>2, <3>1 DEF SameIdentity
  <2>3. CASE puts[i].key = p.key /\ p.node.kind = "list"
    BY <1>9, <2>3 DEF IInv, OneObjectPerKey, SameIdentity
  <2> QED
    BY <2>1, <2>2, <2>3
<1>15. Fresh(server', puts, nextKey)
  <2>1. p.key < nextKey
    BY <1>1 DEF IInv, Fresh, p
  <2>2. nextKey \in Nat /\ p.key \in Nat
    BY <1>4, MaxKeyAssumption DEF IInv, TypeOK, Keys
  <2>3. ASSUME NEW k \in Keys, k >= nextKey
        PROVE  server'[k].kind = "absent"
    <3>1. k # p.key
      BY <2>1, <2>2, <2>3 DEF Keys
    <3> QED
      BY <1>5, <2>3, <3>1 DEF IInv, Fresh
  <2> QED
    BY <2>3 DEF IInv, Fresh
<1>16. /\ ReadsClosed(server', puts, listens)
       /\ EventsClosed(server', puts, events)
       /\ CurrentKnown(server', puts, current.uid)
  <2> DEFINE N == Len(puts) + 1
  <2>0. Carries(server, puts, N, server', puts, N)
    BY <1>10
  <2>1. \A k : Known(server, puts, k, "contract", N)
                 => Known(server', puts, k, "contract", N)
    BY <2>0, KnownCarried
  <2>2. \A a, k : AlterationOf(server, puts, a, k, N)
                    => AlterationOf(server', puts, a, k, N)
    BY <2>0, AlterationCarried
  <2>3. \A l, k : ListKnown(server, puts, l, k, N)
                    => ListKnown(server', puts, l, k, N)
    BY <2>0, ListCarried
  <2> QED
    BY <2>1, <2>2, <2>3
    DEF IInv, ReadsClosed, EventsClosed, AppendKnown, ArrayKnown, CurrentKnown
<1> QED
  BY <1>t, <1>3, <1>11, <1>12, <1>13, <1>14, <1>15, <1>16 DEF IInv

(***************************************************************************)
(* The other steps of the connection change neither the server nor the     *)
(* queue of writes; a listen that is answered gives closed events.         *)
(***************************************************************************)
\* The other steps of the connection keep the invariant.
LEMMA NetworkClosed ==
  ASSUME IInv, Network
  PROVE  IInv'
<1>t. TypeOK'
  BY NextType DEF IInv, Next
<1>0. UNCHANGED <<nextKey, current>>
  BY DEF Network
<1>1. CASE ServerApply
  BY <1>0, <1>1, ApplyClosed
<1>2. CASE PutAcked
  BY <1>t, <1>0, <1>2 DEF PutAcked, IInv
<1>3. ASSUME NEW k \in Keys, ListenAnswered(k)
      PROVE  IInv'
  <2> DEFINE new == [i \in DOMAIN listens[k] |-> EventOf(k, listens[k][i])]
             N == Len(puts) + 1
  <2>1. /\ listens \in [Keys -> Seq(Read)] /\ events \in Seq(Event)
        /\ listens[k] \in Seq(Read) /\ events' \in Seq(Event)
    BY <1>t DEF IInv, TypeOK, ClientTypeOK
  <2>2. /\ UNCHANGED <<server, puts, applied>>
        /\ listens' = [listens EXCEPT ![k] = <<>>]
        /\ events' = events \o new
    BY <1>3 DEF ListenAnswered
  <2>3. /\ new \in Seq(Event) /\ Len(new) = Len(listens[k])
        /\ Len(listens[k]) \in Nat
        /\ \A i \in 1..Len(new) : new[i] = EventOf(k, listens[k][i])
    <3>1. DOMAIN listens[k] = 1..Len(listens[k]) /\ Len(listens[k]) \in Nat
      BY <2>1, LenProperties
    <3>2. \A i \in DOMAIN listens[k] : EventOf(k, listens[k][i]) \in Event
      BY <2>1, <3>1, EventOfType, ElementOfSeq DEF IInv, TypeOK
    <3>3. new \in Seq(Event)
      BY <2>1, <3>2, MapType
    <3>4. DOMAIN new = 1..Len(new) /\ Len(new) \in Nat
      BY <3>3, LenProperties
    <3>5. DOMAIN new = 1..Len(listens[k])
      BY <3>1
    <3> QED
      BY <3>1, <3>3, <3>4, <3>5
  <2> HIDE DEF new
  <2>4. ASSUME NEW i \in 1..Len(new)
        PROVE  /\ AppendKnown(server, puts, new[i].key, new[i])
               /\ ArrayKnown(server, puts, new[i].key, new[i].node)
    <3>1. /\ new[i].key = k /\ new[i].arg = listens[k][i].arg
          /\ new[i].purpose = listens[k][i].purpose /\ new[i].node = View(k)
      <4>1. new[i] = EventOf(k, listens[k][i])
        BY <2>3
      <4> QED
        BY <4>1 DEF EventOf
    <3>2. AppendKnown(server, puts, k, listens[k][i])
      BY <2>3 DEF IInv, ReadsClosed
    <3>3. AppendKnown(server, puts, k, new[i])
      BY <3>1, <3>2 DEF AppendKnown
    <3> QED
      BY <3>1, <3>3, ViewClosed
  <2>5. EventsClosed(server, puts, events')
    <3>1. /\ Len(events) \in Nat /\ Len(new) \in Nat
          /\ Len(events') = Len(events) + Len(new)
          /\ \A i \in 1..Len(events) : events'[i] = events[i]
          /\ \A i \in 1..Len(new) : events'[Len(events) + i] = new[i]
      <4>1. events \in Seq(Event) /\ new \in Seq(Event) /\ events' = events \o new
        BY <2>1, <2>2, <2>3
      <4>2. /\ Len(events) \in Nat /\ Len(new) \in Nat
            /\ Len(events \o new) = Len(events) + Len(new)
            /\ \A i \in 1..Len(events) : (events \o new)[i] = events[i]
            /\ \A i \in 1..Len(new) : (events \o new)[Len(events) + i] = new[i]
        BY <4>1, ConcatParts
      <4> QED
        BY <4>1, <4>2
    <3> SUFFICES ASSUME NEW i \in 1..Len(events')
                 PROVE  /\ AppendKnown(server, puts, events'[i].key, events'[i])
                        /\ ArrayKnown(server, puts, events'[i].key, events'[i].node)
      BY DEF EventsClosed
    <3>2. CASE i <= Len(events)
      <4>1. i \in 1..Len(events) /\ events'[i] = events[i]
        BY <3>1, <3>2
      <4> QED
        BY <4>1 DEF IInv, EventsClosed
    <3>3. CASE i > Len(events)
      <4>1. i - Len(events) \in 1..Len(new) /\ i = Len(events) + (i - Len(events))
        BY <3>1, <3>3
      <4>2. events'[i] = new[i - Len(events)]
        BY <3>1, <4>1
      <4> QED
        BY <2>4, <4>1, <4>2
    <3> QED
      BY <3>1, <3>2, <3>3
  <2>6. ReadsClosed(server, puts, listens')
    <3>1. Len(<<>>) = 0 /\ \A j \in Keys : listens'[j] = IF j = k THEN <<>> ELSE listens[j]
      BY <2>1, <2>2, EmptySeq
    <3> QED
      BY <3>1 DEF IInv, ReadsClosed
  <2> QED
    BY <1>t, <1>0, <2>2, <2>5, <2>6 DEF IInv
<1>4. CASE Disconnect
  <2>1. applied' = acked /\ acked \in Nat /\ acked <= applied /\ applied \in Nat
        /\ UNCHANGED <<server, puts, listens, events>>
    BY <1>4 DEF Disconnect, IInv, TypeOK, ClientTypeOK
  <2>2. AppliedStored(server, puts, acked)
    BY <2>1 DEF IInv, AppliedStored
  <2> QED
    BY <1>t, <1>0, <2>1, <2>2 DEF IInv
<1>5. CASE Reconnect
  BY <1>t, <1>0, <1>5 DEF Reconnect, IInv
<1> QED
  BY <1>1, <1>2, <1>3, <1>4, <1>5 DEF Network, ClientStep

(***************************************************************************)
(* The handlers.                                                           *)
(***************************************************************************)
\* Creating a contract keeps the invariant: each write refers to earlier ones.
LEMMA CreateClosed ==
  ASSUME IInv, CreateContract
  PROVE  IInv'
<1> DEFINE d  == nextKey
           qs == <<DressPut(d), ContractPut(d + 1, d), BridePut(d + 2),
                   MeasurementPut(d + 3, d + 2)>>
           L  == Len(puts)
           all == puts \o qs
<1>t. TypeOK'
  BY NextType DEF IInv, Next
<1>1. /\ puts' = all /\ nextKey' = d + 4 /\ current'.uid = d + 1
      /\ UNCHANGED <<server, applied, listens, events>>
  BY DEF CreateContract, Issue, OriginalValues
<1>2. /\ d \in Nat \ {0} /\ {d, d + 1, d + 2, d + 3} \subseteq Keys
      /\ server \in [Keys -> Node] /\ puts \in Seq(Put)
      /\ applied \in Nat /\ applied <= L
  <2>1. nextKey \in 1..MaxKey + 1 /\ nextKey + 3 <= MaxKey /\ MaxKey \in Nat
    BY MaxKeyAssumption DEF IInv, TypeOK, CreateContract
  <2>2. d \in Nat \ {0} /\ {d, d + 1, d + 2, d + 3} \subseteq Keys
    BY <2>1 DEF Keys
  <2> QED
    BY <2>2 DEF IInv, TypeOK, ClientTypeOK
<1>3. qs \in Seq(Put) /\ Len(qs) = 4
  BY <1>2, PutTypes
<1>4. /\ qs[1].key = d /\ qs[1].node.kind = "dress"
      /\ qs[2].key = d + 1 /\ qs[2].node.kind = "contract" /\ qs[2].node.ref = d
      /\ qs[2].node.list = <<Marker>>
      /\ qs[3].key = d + 2 /\ qs[3].node.kind = "bride"
      /\ qs[4].key = d + 3 /\ qs[4].node.kind = "measurement" /\ qs[4].node.ref = d + 2
  BY DEF DressPut, ContractPut, BridePut, MeasurementPut, PutAt, Object
<1> HIDE DEF qs, d
<1>5. /\ L \in Nat /\ Len(all) = L + 4
      /\ \A i \in 1..L : all[i] = puts[i]
      /\ all[L + 1] = qs[1] /\ all[L + 2] = qs[2] /\ all[L + 3] = qs[3] /\ all[L + 4] = qs[4]
  <2>1. /\ L \in Nat /\ Len(all) = L + Len(qs)
        /\ \A i \in 1..L : all[i] = puts[i]
        /\ \A i \in 1..Len(qs) : all[L + i] = qs[i]
    <3>1. puts \in Seq(Put) /\ qs \in Seq(Put)
      BY <1>2, <1>3
    <3> QED
      BY <3>1, ConcatParts
  <2> QED
    BY <1>3, <2>1
<1> HIDE DEF all, L
\* each of the four refers to what is written before it
<1>6. \A i \in 1..4 : /\ qs[i].node.kind # "absent"
                      /\ NodeKnown(server, all, qs[i].key, qs[i].node, L + i)
  <2>1. Known(server, all, d, "dress", L + 2)
    BY <1>2, <1>4, <1>5 DEF Known
  <2>2. Known(server, all, d + 2, "bride", L + 4)
    BY <1>2, <1>4, <1>5 DEF Known
  <2>3. ListKnown(server, all, <<Marker>>, d + 1, L + 2)
    BY DEF ListKnown
  <2>4. NodeKnown(server, all, d + 1, qs[2].node, L + 2)
    BY <1>4, <2>1, <2>3 DEF NodeKnown
  <2>5. NodeKnown(server, all, d + 3, qs[4].node, L + 4)
    BY <1>4, <2>2 DEF NodeKnown
  <2>6. NodeKnown(server, all, d, qs[1].node, L + 1) /\ NodeKnown(server, all, d + 2, qs[3].node, L + 3)
    BY <1>4 DEF NodeKnown
  <2> QED
    BY <1>4, <2>4, <2>5, <2>6
<1>7. PutsClosed(server, all)
  BY <1>2, <1>3, <1>6, IssueClosed DEF IInv, all, L
<1>8. OneObjectPerKey(server, all)
  <2>1. \A i \in 1..Len(qs) :
          /\ qs[i].key >= nextKey
          /\ \A j \in 1..Len(qs) : qs[j].key = qs[i].key => i = j
    <3>1. \A i \in 1..4 : qs[i].key = d + (i - 1)
      BY <1>2, <1>4
    <3> QED
      BY <1>2, <1>3, <3>1 DEF d
  <2> QED
    BY <1>2, <1>3, <2>1, IssueIdentity DEF IInv, all, d
<1>9. /\ AppliedStored(server, all, applied)
      /\ Fresh(server, all, d + 4)
      /\ ServerClosed(server, all)
  <2>1. \A i \in 1..Len(qs) : qs[i].key < d + 4
    BY <1>2, <1>3, <1>4
  <2>2. d \in Nat /\ d + 4 \in Nat /\ d <= d + 4 /\ applied <= Len(puts)
    BY <1>2 DEF L
  <2>3. /\ AppliedStored(server, puts, applied) /\ Fresh(server, puts, d)
        /\ ServerClosed(server, puts)
    BY DEF IInv, d
  <2> QED
    BY <1>2, <1>3, <2>1, <2>2, <2>3, IssueRest DEF all
<1>10. ReadsClosed(server, all, listens) /\ EventsClosed(server, all, events)
  BY <1>2, <1>3, IssueQueues DEF IInv, all
<1>11. CurrentKnown(server, all, d + 1)
  <2>1. d + 1 \in Keys /\ L + 2 \in 1..(Len(all) + 1) - 1
    BY <1>2, <1>5
  <2>2. all[L + 2].key = d + 1 /\ all[L + 2].node.kind = "contract"
    BY <1>4, <1>5
  <2> HIDE DEF all, L
  <2>3. Known(server, all, d + 1, "contract", Len(all) + 1)
    BY <2>1, <2>2 DEF Known
  <2> QED
    BY <2>3 DEF CurrentKnown
<1> QED
  BY <1>t, <1>1, <1>7, <1>8, <1>9, <1>10, <1>11 DEF IInv

\* A read registered for a known contract leaves the queues closed.
LEMMA ObserveClosed ==
  ASSUME NEW ps, NEW k \in Keys, NEW r \in Read, TypeOK, Observe(k, r),
         ReadsClosed(server, ps, listens), EventsClosed(server, ps, events),
         AppendKnown(server, ps, k, r), ArrayKnown(server, ps, k, View(k))
  PROVE  ReadsClosed(server, ps, listens') /\ EventsClosed(server, ps, events')
<1>1. listens \in [Keys -> Seq(Read)] /\ events \in Seq(Event)
  BY DEF TypeOK, ClientTypeOK
<1>2. CASE Complete(k, r)
  <2>1. listens' = listens /\ events' = Append(events, EventOf(k, r))
    BY <1>2 DEF Observe
  <2>2. EventOf(k, r) \in Event
    BY EventOfType DEF TypeOK
  <2>3. /\ Len(events) \in Nat /\ Len(events') = Len(events) + 1
        /\ \A i \in 1..Len(events) : events'[i] = events[i]
        /\ events'[Len(events) + 1] = EventOf(k, r)
    BY <1>1, <2>1, <2>2, LenProperties, AppendProperties
  <2>4. /\ EventOf(k, r).key = k /\ EventOf(k, r).node = View(k)
        /\ AppendKnown(server, ps, k, EventOf(k, r))
    BY DEF EventOf, AppendKnown
  <2>5. \A i \in 1..Len(events') : i \in 1..Len(events) \/ i = Len(events) + 1
    BY <2>3
  <2>6. EventsClosed(server, ps, events')
    BY <2>3, <2>4, <2>5 DEF EventsClosed
  <2> QED
    BY <2>1, <2>6
<1>3. CASE ~Complete(k, r)
  <2>1. listens' = [listens EXCEPT ![k] = Append(listens[k], r)] /\ events' = events
    BY <1>3 DEF Observe
  <2>2. listens[k] \in Seq(Read)
    BY <1>1
  <2>3. /\ Len(listens[k]) \in Nat /\ Len(Append(listens[k], r)) = Len(listens[k]) + 1
        /\ \A i \in 1..Len(listens[k]) : Append(listens[k], r)[i] = listens[k][i]
        /\ Append(listens[k], r)[Len(listens[k]) + 1] = r
    BY <2>2, LenProperties, AppendProperties
  <2>4. /\ listens'[k] = Append(listens[k], r)
        /\ \A j \in Keys : j # k => listens'[j] = listens[j]
    BY <1>1, <2>1
  <2>5. \A i \in 1..Len(listens'[k]) :
          \/ i \in 1..Len(listens[k]) /\ listens'[k][i] = listens[k][i]
          \/ listens'[k][i] = r
    BY <2>3, <2>4
  <2>6. ReadsClosed(server, ps, listens')
    BY <2>4, <2>5 DEF ReadsClosed
  <2> QED
    BY <2>1, <2>6
<1> QED
  BY <1>2, <1>3

\* Adding an alteration keeps the invariant.
LEMMA AddClosed ==
  ASSUME IInv, NEW cost \in Costs, AddAlteration(cost)
  PROVE  IInv'
<1> DEFINE a  == nextKey
           c  == current.uid
           r  == [purpose |-> "append", arg |-> a]
           qs == <<AlterationPut(a, c, cost)>>
           L  == Len(puts)
           all == puts \o qs
<1>t. TypeOK'
  BY NextType DEF IInv, Next
<1>1. /\ puts' = all /\ nextKey' = a + 1 /\ current'.uid = c
      /\ UNCHANGED <<server, applied>> /\ Observe(c, r)
  BY DEF AddAlteration, Issue, IInv, TypeOK
<1>2. a \in Keys /\ c \in Keys /\ a \in Nat
  BY MaxKeyAssumption DEF IInv, TypeOK, AddAlteration, Keys
<1>3. /\ server \in [Keys -> Node] /\ puts \in Seq(Put)
      /\ applied \in Nat /\ applied <= L
  BY DEF IInv, TypeOK, ClientTypeOK
<1>4. qs \in Seq(Put) /\ Len(qs) = 1
  <2>1. AlterationPut(a, c, cost) \in Put
    BY <1>2, PutTypes
  <2> HIDE DEF a, c
  <2> QED
    BY <2>1
<1>5. /\ qs[1].key = a /\ qs[1].node.kind = "alteration" /\ qs[1].node.ref = c
  BY DEF AlterationPut, PutAt, Object
<1>6. r \in Read /\ r.arg = a
  BY <1>2 DEF Read, Purposes
<1> HIDE DEF qs, r, a, c
<1>7. /\ L \in Nat /\ Len(all) = L + 1
      /\ \A i \in 1..L : all[i] = puts[i]
      /\ all[L + 1] = qs[1]
  <2>1. /\ L \in Nat /\ Len(all) = L + Len(qs)
        /\ \A i \in 1..L : all[i] = puts[i]
        /\ \A i \in 1..Len(qs) : all[L + i] = qs[i]
    <3>1. puts \in Seq(Put) /\ qs \in Seq(Put)
      BY <1>3, <1>4
    <3> QED
      BY <3>1, ConcatParts
  <2> QED
    BY <1>4, <2>1
<1>8. Carries(server, puts, L + 1, server, all, L + 1)
      /\ Carries(server, puts, L + 1, server, all, L + 2)
  BY <1>3, <1>4, <1>7, LongerCarries
<1> HIDE DEF all, L
<1>9. Known(server, puts, c, "contract", L + 1)
  BY <1>2 DEF IInv, CurrentKnown, c, L, Keys, NoUID
<1>10. PutsClosed(server, all)
  <2>1. NodeKnown(server, all, a, qs[1].node, L + 1)
    <3>1. Known(server, all, c, "contract", L + 1)
      BY <1>8, <1>9, KnownCarried
    <3> QED
      BY <1>5, <3>1 DEF NodeKnown
  <2>2. \A i \in 1..Len(qs) : /\ qs[i].node.kind # "absent"
                              /\ NodeKnown(server, all, qs[i].key, qs[i].node, L + i)
    BY <1>4, <1>5, <2>1
  <2> QED
    BY <1>3, <1>4, <2>2, IssueClosed DEF IInv, all, L
<1>11. OneObjectPerKey(server, all)
  <2>1. \A i \in 1..Len(qs) : /\ qs[i].key >= a
                              /\ \A j \in 1..Len(qs) : i = j
    BY <1>2, <1>4, <1>5
  <2>2. OneObjectPerKey(server, puts) /\ Fresh(server, puts, a)
    BY DEF IInv, a
  <2> QED
    BY <1>2, <1>3, <1>4, <2>1, <2>2, IssueIdentity DEF all
<1>12. /\ AppliedStored(server, all, applied)
       /\ Fresh(server, all, a + 1)
       /\ ServerClosed(server, all)
  <2>1. \A i \in 1..Len(qs) : qs[i].key < a + 1
    BY <1>2, <1>4, <1>5
  <2>2. a + 1 \in Nat /\ a <= a + 1 /\ applied <= Len(puts)
    BY <1>2, <1>3 DEF L
  <2>3. /\ AppliedStored(server, puts, applied) /\ Fresh(server, puts, a)
        /\ ServerClosed(server, puts)
    BY DEF IInv, a
  <2> QED
    BY <1>2, <1>3, <1>4, <2>1, <2>2, <2>3, IssueRest DEF all
<1>13. /\ ReadsClosed(server, all, listens) /\ EventsClosed(server, all, events)
       /\ CurrentKnown(server, all, c)
  BY <1>3, <1>4, IssueQueues DEF IInv, all, c
<1>14. Known(server, all, c, "contract", Len(all) + 1)
  BY <1>2, <1>13 DEF CurrentKnown, Keys, NoUID
<1>15. AlterationOf(server, all, r.arg, c, Len(all) + 1)
  BY <1>2, <1>5, <1>6, <1>7 DEF AlterationOf
<1>16. ArrayKnown(server, all, c, View(c))
  <2>1. ArrayKnown(server, puts, c, View(c))
    BY <1>2, ViewClosed
  <2>2. Len(all) + 1 = L + 2
    BY <1>7
  <2> QED
    BY <1>8, <2>1, <2>2, ListCarried DEF ArrayKnown, L
<1>17. ReadsClosed(server, all, listens') /\ EventsClosed(server, all, events')
  <2>1. AppendKnown(server, all, c, r)
    BY <1>14, <1>15 DEF AppendKnown
  <2> QED
    BY <1>1, <1>2, <1>6, <1>13, <1>16, <2>1, ObserveClosed DEF IInv
<1> QED
  BY <1>t, <1>1, <1>10, <1>11, <1>12, <1>13, <1>17 DEF IInv

\* Writing the longer array back keeps the invariant.
LEMMA CallbackClosed ==
  ASSUME IInv, AppendCallback
  PROVE  IInv'
<1> DEFINE e  == Head(events)
           l  == Append(e.node.list, e.arg)
           qs == IF e.node.kind = "contract" THEN <<ListPut(e.key, l)>> ELSE <<>>
           L  == Len(puts)
           all == puts \o qs
<1>t. TypeOK'
  BY NextType DEF IInv, Next
<1>1. /\ puts' = all /\ events' = Tail(events) /\ events # <<>>
      /\ UNCHANGED <<server, applied, listens, nextKey, current>>
  BY DEF AppendCallback, Issue
<1>2. /\ server \in [Keys -> Node] /\ puts \in Seq(Put) /\ events \in Seq(Event)
      /\ applied \in Nat /\ applied <= L /\ nextKey \in Nat
  BY DEF IInv, TypeOK, ClientTypeOK
<1>3. /\ e \in Event /\ e = events[1] /\ 1 \in 1..Len(events)
      /\ Len(events) \in Nat /\ Len(Tail(events)) = Len(events) - 1
      /\ \A i \in 1..Len(Tail(events)) : Tail(events)[i] = events[i + 1]
  BY <1>1, <1>2, HeadTailProperties, LenProperties
<1>4. /\ Known(server, puts, e.key, "contract", L + 1)
      /\ AlterationOf(server, puts, e.arg, e.key, L + 1)
      /\ e.node.kind = "contract" => ListKnown(server, puts, e.node.list, e.key, L + 1)
  <2>1. e.purpose = "append"
    BY DEF AppendCallback
  <2> QED
    BY <1>3, <2>1 DEF IInv, EventsClosed, AppendKnown, ArrayKnown
<1>5. /\ e.key \in Keys /\ e.arg \in Keys /\ e.node.list \in Seq(Keys \cup {Marker})
  BY <1>3 DEF Event, Node
<1> HIDE DEF e
<1>6. /\ l \in Seq(Keys \cup {Marker})
      /\ \A m \in DOMAIN l : l[m] = e.arg \/ (m \in DOMAIN e.node.list /\ l[m] = e.node.list[m])
  <2>1. /\ l \in Seq(Keys \cup {Marker}) /\ Len(l) = Len(e.node.list) + 1
        /\ \A m \in 1..Len(e.node.list) : l[m] = e.node.list[m]
        /\ l[Len(e.node.list) + 1] = e.arg
    BY <1>5, AppendProperties
  <2>2. /\ DOMAIN l = 1..Len(l) /\ Len(e.node.list) \in Nat
        /\ DOMAIN e.node.list = 1..Len(e.node.list)
    BY <1>5, <2>1, LenProperties
  <2>3. \A m \in DOMAIN l : m \in DOMAIN e.node.list \/ m = Len(e.node.list) + 1
    BY <2>1, <2>2
  <2> QED
    BY <2>1, <2>2, <2>3
<1>7. e.node.kind = "contract" => ListKnown(server, puts, l, e.key, L + 1)
  BY <1>4, <1>6 DEF ListKnown
<1> HIDE DEF l
<1>8. /\ qs \in Seq(Put)
      /\ Len(qs) = 0 \/ (Len(qs) = 1 /\ qs[1] = ListPut(e.key, l) /\ e.node.kind = "contract")
  <2>1. ListPut(e.key, l) \in Put
    BY <1>5, <1>6, PutTypes
  <2>2. CASE e.node.kind = "contract"
    <3>1. qs = <<ListPut(e.key, l)>>
      BY <2>2
    <3> QED
      BY <2>1, <2>2, <3>1
  <2>3. CASE e.node.kind # "contract"
    <3>1. qs = <<>>
      BY <2>3
    <3> QED
      BY <3>1
  <2> QED
    BY <2>2, <2>3
<1> HIDE DEF qs
<1>9. /\ ListPut(e.key, l).key = e.key /\ ListPut(e.key, l).node.kind = "list"
      /\ ListPut(e.key, l).node.list = l
  BY DEF ListPut, PutAt, Object
<1>10. L \in Nat /\ Carries(server, puts, L + 1, server, all, L + 1)
  <2>1. L \in Nat /\ L + 1 \in 1..L + 1
    BY <1>2, LenProperties
  <2> QED
    BY <1>2, <1>8, <2>1, LongerCarries
<1>11. PutsClosed(server, all)
  <2>1. ASSUME NEW i \in 1..Len(qs)
        PROVE  /\ qs[i].node.kind # "absent"
               /\ NodeKnown(server, all, qs[i].key, qs[i].node, L + i)
    <3>1. i = 1 /\ qs[i] = ListPut(e.key, l) /\ e.node.kind = "contract"
      BY <1>8
    <3>2. Known(server, all, e.key, "contract", L + 1)
      BY <1>4, <1>10, KnownCarried
    <3>3. ListKnown(server, all, l, e.key, L + 1)
      BY <1>7, <1>10, <3>1, ListCarried
    <3> QED
      BY <1>9, <3>1, <3>2, <3>3 DEF NodeKnown
  <2> QED
    BY <1>2, <1>8, <2>1, IssueClosed DEF IInv
<1>12. OneObjectPerKey(server, all)
  <2>1. \A i \in 1..Len(qs) : qs[i].node.kind = "list"
    BY <1>8, <1>9
  <2>2. OneObjectPerKey(server, puts) /\ Fresh(server, puts, nextKey)
    BY DEF IInv
  <2> QED
    BY <1>2, <1>8, <2>1, <2>2, IssueIdentity
<1>13. /\ AppliedStored(server, all, applied)
       /\ Fresh(server, all, nextKey)
       /\ ServerClosed(server, all)
  <2>1. e.key < nextKey
    <3>1. \A k \in Keys : k >= nextKey => server[k].kind = "absent"
      BY DEF IInv, Fresh
    <3>2. \A j \in 1..L : puts[j].key < nextKey
      BY DEF IInv, Fresh
    <3>3. server[e.key].kind = "contract" \/ \E j \in 1..L : puts[j].key = e.key
      BY <1>4, <1>10 DEF Known
    <3> QED
      BY <1>2, <1>5, <3>1, <3>2, <3>3 DEF Keys
  <2>2. \A i \in 1..Len(qs) : qs[i].key < nextKey
    BY <1>8, <1>9, <2>1
  <2>3. /\ AppliedStored(server, puts, applied) /\ Fresh(server, puts, nextKey)
        /\ ServerClosed(server, puts) /\ nextKey <= nextKey
    BY <1>2 DEF IInv
  <2> QED
    BY <1>2, <1>8, <2>2, <2>3, IssueRest
<1>14. /\ ReadsClosed(server, all, listens) /\ EventsClosed(server, all, events)
       /\ CurrentKnown(server, all, current.uid)
  BY <1>2, <1>8, IssueQueues DEF IInv
<1> HIDE DEF all
<1>15. EventsClosed(server, all, Tail(events))
  <2>1. \A i \in 1..Len(Tail(events)) :
          i + 1 \in 1..Len(events) /\ Tail(events)[i] = events[i + 1]
    BY <1>3
  <2> QED
    BY <1>14, <2>1 DEF EventsClosed
<1> QED
  BY <1>t, <1>1, <1>11, <1>12, <1>13, <1>14, <1>15 DEF IInv

\* Ending the process leaves the server as it is, and the server is closed.
LEMMA KillClosed ==
  ASSUME IInv, Kill
  PROVE  IInv'
<1>t. TypeOK'
  BY NextType DEF IInv, Next
<1>1. /\ puts' = <<>> /\ events' = <<>> /\ listens' = [k \in Keys |-> <<>>]
      /\ applied' = 0 /\ current'.uid = NoUID /\ UNCHANGED <<server, nextKey>>
  BY DEF Kill, ClientKilled, OriginalValues
<1>2. Len(<<>>) = 0
  BY EmptySeq
<1>3. ServerClosed(server, <<>>)
  <2>1. Carries(server, puts, 1, server, <<>>, 1)
    BY DEF Carries, SameIdentity
  <2> QED
    BY <2>1, NodeCarried DEF IInv, ServerClosed
<1>4. PutsClosed(server, <<>>) /\ OneObjectPerKey(server, <<>>)
      /\ AppliedStored(server, <<>>, 0) /\ Fresh(server, <<>>, nextKey)
  BY <1>2 DEF PutsClosed, OneObjectPerKey, AppliedStored, Fresh, IInv
<1>5. ReadsClosed(server, <<>>, listens') /\ EventsClosed(server, <<>>, <<>>)
      /\ CurrentKnown(server, <<>>, NoUID)
  BY <1>1, <1>2 DEF ReadsClosed, EventsClosed, CurrentKnown
<1> QED
  BY <1>t, <1>1, <1>3, <1>4, <1>5 DEF IInv

\* The invariant holds when the app is first launched.
LEMMA InitInvariant ==
  ASSUME Init
  PROVE  IInv
<1>1. Len(<<>>) = 0
  BY EmptySeq
<1>2. /\ puts = <<>> /\ events = <<>> /\ listens = [k \in Keys |-> <<>>]
      /\ applied = 0 /\ current.uid = NoUID
      /\ \A k \in Keys : server[k].kind = "absent"
  BY DEF Init, ClientInit, OriginalValues, Absent
<1>3. ServerClosed(server, puts)
  BY <1>2 DEF ServerClosed, NodeKnown
<1>4. PutsClosed(server, puts) /\ OneObjectPerKey(server, puts)
      /\ AppliedStored(server, puts, applied) /\ Fresh(server, puts, nextKey)
  BY <1>1, <1>2 DEF PutsClosed, OneObjectPerKey, AppliedStored, Fresh
<1>5. ReadsClosed(server, puts, listens) /\ EventsClosed(server, puts, events)
      /\ CurrentKnown(server, puts, current.uid)
  BY <1>1, <1>2 DEF ReadsClosed, EventsClosed, CurrentKnown
<1> QED
  BY <1>3, <1>4, <1>5, InitType DEF IInv

\* Every step keeps the invariant.
LEMMA NextInvariant ==
  ASSUME IInv, [Next]_vars
  PROVE  IInv'
<1>1. CASE CreateContract
  BY <1>1, CreateClosed
<1>2. CASE \E cost \in Costs : AddAlteration(cost)
  BY <1>2, AddClosed
<1>3. CASE AppendCallback
  BY <1>3, CallbackClosed
<1>4. CASE Kill
  BY <1>4, KillClosed
<1>5. CASE Network
  BY <1>5, NetworkClosed
<1>6. CASE UNCHANGED vars
  <2>1. TypeOK'
    BY <1>6, NextType DEF IInv
  <2> QED
    BY <1>6, <2>1 DEF vars, clientVars, IInv
<1> QED
  BY <1>1, <1>2, <1>3, <1>4, <1>5, <1>6 DEF Next

\* With nothing but the server's own objects to count on, the invariant says
\* that every stored reference resolves.
LEMMA InvariantResolves ==
  ASSUME IInv
  PROVE  ReferencesResolve
<1>1. \A k, kind : Known(server, puts, k, kind, 1) => Is(k, kind)
  BY DEF Known, Is
<1>2. \A a, c : AlterationOf(server, puts, a, c, 1)
                  => Is(a, "alteration") /\ server[a].ref = c
  BY DEF AlterationOf, Is
<1> SUFFICES ASSUME NEW k \in Keys
             PROVE  /\ server[k].kind # "list"
                    /\ server[k].kind = "contract" =>
                         /\ Is(server[k].ref, "dress")
                         /\ \A a \in Elements(server[k].list) \ {Marker} :
                               Is(a, "alteration") /\ server[a].ref = k
                    /\ server[k].kind = "measurement" => Is(server[k].ref, "bride")
                    /\ server[k].kind = "alteration" => Is(server[k].ref, "contract")
  BY DEF ReferencesResolve
<1>3. server[k].kind # "list" /\ NodeKnown(server, puts, k, server[k], 1)
  BY DEF IInv, ServerClosed
<1>4. ListKnown(server, puts, server[k].list, k, 1) =>
        \A a \in Elements(server[k].list) \ {Marker} :
           Is(a, "alteration") /\ server[a].ref = k
  BY <1>2 DEF ListKnown, Elements
<1> QED
  BY <1>1, <1>3, <1>4 DEF NodeKnown

\* ReferencesResolve holds in every state, for any number of push ids: however
\* the connection drops and the queue of writes is sent again, and wherever the
\* process is ended, the server never stores a reference to an object it lacks.
THEOREM ReferencesAlwaysResolve == Spec => []ReferencesResolve
<1>1. Init => IInv
  BY InitInvariant
<1>2. IInv /\ [Next]_vars => IInv'
  BY NextInvariant
<1>3. IInv => ReferencesResolve
  BY InvariantResolves
<1> QED
  BY <1>1, <1>2, <1>3, PTL DEF Spec

-----------------------------------------------------------------------------
(***************************************************************************)
(* AckedNeverUndone. The connection applies writes in order and a new one  *)
(* starts after the last acknowledged write, so after write j of a path    *)
(* was applied the path's array is that of j or of a later write.          *)
(***************************************************************************)
NotUndone(sv, ps, n) ==
  \A j \in 1..n : \E i \in j..Len(ps) :
    ps[i].key = ps[j].key /\ sv[ps[j].key].list = ps[i].node.list

\* setValue leaves the array of the write, at the node or at its child.
LEMMA OverwriteList ==
  ASSUME NEW old \in Node, NEW new \in Node
  PROVE  Overwrite(old, new).list = new.list
BY DEF Overwrite, Node

\* Writes that are issued come after those that were.
LEMMA IssueAppends ==
  ASSUME NEW S, puts \in Seq(S), NEW T, NEW ps \in Seq(T), Issue(ps)
  PROVE  /\ Len(puts') = Len(puts) + Len(ps) /\ Len(puts) \in Nat /\ Len(ps) \in Nat
         /\ \A i \in 1..Len(puts) : puts'[i] = puts[i]
         /\ \A i \in 1..Len(ps) : puts'[Len(puts) + i] = ps[i]
<1> DEFINE U == S \cup T
<1>1. puts \in Seq(U) /\ ps \in Seq(U)
  <2>1. S \subseteq U /\ T \subseteq U
    OBVIOUS
  <2> HIDE DEF U
  <2> QED
    BY <2>1, SeqMonotonic
<1> HIDE DEF U
<1> QED
  BY <1>1, ConcatParts DEF Issue

\* The three handlers only issue writes.
LEMMA HandlersIssue ==
  ASSUME CreateContract \/ (\E cost \in Costs : AddAlteration(cost)) \/ AppendCallback
  PROVE  /\ UNCHANGED <<server, applied, acked, released, connected>>
         /\ \E T : \E ps \in Seq(T) : Issue(ps)
<1>1. CASE CreateContract
  <2> DEFINE a == DressPut(nextKey)
             b == ContractPut(nextKey + 1, nextKey)
             c == BridePut(nextKey + 2)
             d == MeasurementPut(nextKey + 3, nextKey + 2)
  <2>1. UNCHANGED <<server, applied, acked, released, connected>> /\ Issue(<<a, b, c, d>>)
    BY <1>1 DEF CreateContract
  <2> HIDE DEF a, b, c, d
  <2>2. <<a, b, c, d>> \in Seq({a, b, c, d})
    OBVIOUS
  <2> QED
    BY <2>1, <2>2
<1>2. ASSUME NEW cost \in Costs, AddAlteration(cost)
      PROVE  /\ UNCHANGED <<server, applied, acked, released, connected>>
             /\ \E T : \E ps \in Seq(T) : Issue(ps)
  <2> DEFINE a == AlterationPut(nextKey, current.uid, cost)
  <2>1. UNCHANGED <<server, applied, acked, released, connected>> /\ Issue(<<a>>)
    BY <1>2 DEF AddAlteration
  <2> HIDE DEF a
  <2>2. <<a>> \in Seq({a})
    OBVIOUS
  <2> QED
    BY <2>1, <2>2
<1>3. CASE AppendCallback
  <2> DEFINE a == ListPut(Head(events).key, Append(Head(events).node.list, Head(events).arg))
             ps == IF Head(events).node.kind = "contract" THEN <<a>> ELSE <<>>
  <2>1. UNCHANGED <<server, applied, acked, released, connected>> /\ Issue(ps)
    BY <1>3 DEF AppendCallback
  <2>2. ps \in Seq({a})
    <3> HIDE DEF a
    <3>1. <<a>> \in Seq({a}) /\ <<>> \in Seq({a})
      OBVIOUS
    <3> QED
      BY <3>1
  <2> HIDE DEF ps
  <2> QED
    BY <2>1, <2>2
<1> QED
  BY <1>1, <1>2, <1>3

\* Every step keeps what was applied.
LEMMA NotUndoneKept ==
  ASSUME TypeOK, NotUndone(server, puts, applied), [Next]_vars
  PROVE  NotUndone(server', puts', applied')
<1>0. /\ puts \in Seq(Put) /\ server \in [Keys -> Node] /\ applied \in Nat /\ acked \in Nat
      /\ Len(puts) \in Nat /\ acked <= applied /\ applied <= Len(puts)
  BY DEF TypeOK, ClientTypeOK
<1>1. CASE CreateContract \/ (\E cost \in Costs : AddAlteration(cost)) \/ AppendCallback
  <2>1. UNCHANGED <<server, applied>> /\ \E T : \E ps \in Seq(T) : Issue(ps)
    BY <1>1, HandlersIssue
  <2>2. /\ Len(puts') \in Nat /\ Len(puts) <= Len(puts')
        /\ \A i \in 1..Len(puts) : puts'[i] = puts[i]
    BY <1>0, <2>1, IssueAppends
  <2> SUFFICES ASSUME NEW j \in 1..applied
               PROVE  \E i \in j..Len(puts') : /\ puts'[i].key = puts'[j].key
                                               /\ server[puts'[j].key].list = puts'[i].node.list
    BY <2>1 DEF NotUndone
  <2>3. PICK i \in j..Len(puts) : /\ puts[i].key = puts[j].key
                                  /\ server[puts[j].key].list = puts[i].node.list
    BY DEF NotUndone
  <2>4. i \in j..Len(puts') /\ puts'[i] = puts[i] /\ puts'[j] = puts[j]
    BY <1>0, <2>2, <2>3
  <2> QED
    BY <2>3, <2>4
<1>2. CASE Kill
  <2>1. applied' = 0
    BY <1>2 DEF Kill, ClientKilled
  <2> QED
    BY <2>1 DEF NotUndone
<1>3. CASE ServerApply
  <2> DEFINE n == applied + 1
             p == puts[n]
  <2>1. /\ n \in 1..Len(puts) /\ applied' = n /\ UNCHANGED puts
        /\ server' = [server EXCEPT ![p.key] = Overwrite(server[p.key], p.node)]
    BY <1>0, <1>3 DEF ServerApply
  <2>2. p.key \in Keys /\ p.node \in Node
    <3>1. p \in Put
      BY <1>0, <2>1, ElementOfSeq
    <3> QED
      BY <3>1 DEF Put
  <2>3. server'[p.key].list = p.node.list /\ \A k \in Keys : k # p.key => server'[k] = server[k]
    BY <1>0, <2>1, <2>2, OverwriteList
  <2> SUFFICES ASSUME NEW j \in 1..n
               PROVE  \E i \in j..Len(puts) : /\ puts[i].key = puts[j].key
                                              /\ server'[puts[j].key].list = puts[i].node.list
    BY <2>1 DEF NotUndone
  <2>4. CASE puts[j].key = p.key
    <3>1. n \in j..Len(puts)
      BY <1>0, <2>1
    <3> HIDE DEF n
    <3> QED
      BY <2>3, <2>4, <3>1
  <2>5. CASE puts[j].key # p.key
    <3>1. j \in 1..applied /\ j \in 1..Len(puts)
      BY <1>0, <2>1, <2>5
    <3>2. PICK i \in j..Len(puts) : /\ puts[i].key = puts[j].key
                                    /\ server[puts[j].key].list = puts[i].node.list
      BY <3>1 DEF NotUndone
    <3>3. puts[j].key \in Keys
      <4>1. puts[j] \in Put
        BY <1>0, <3>1, ElementOfSeq
      <4> QED
        BY <4>1 DEF Put
    <3>4. server'[puts[j].key] = server[puts[j].key]
      BY <2>3, <2>5, <3>3
    <3> QED
      BY <3>2, <3>4
  <2> QED
    BY <2>4, <2>5
<1>4. CASE UNCHANGED <<server, puts>> /\ applied' \in Nat /\ applied' <= applied
  <2>1. 1..applied' \subseteq 1..applied
    BY <1>0, <1>4
  <2> QED
    BY <1>4, <2>1 DEF NotUndone
<1>5. CASE Network /\ ~ServerApply
  <2>1. UNCHANGED <<server, puts>> /\ applied' \in {applied, acked}
    BY <1>5 DEF Network, ClientStep, PutAcked, ListenAnswered, Disconnect, Reconnect
  <2> QED
    BY <1>0, <1>4, <2>1
<1>6. CASE UNCHANGED vars
  BY <1>0, <1>4, <1>6 DEF vars, clientVars
<1> QED
  BY <1>1, <1>2, <1>3, <1>5, <1>6 DEF Next

\* What was acknowledged was applied.
LEMMA NotUndoneFollows ==
  ASSUME TypeOK, NotUndone(server, puts, applied)
  PROVE  AckedNeverUndone
<1> SUFFICES ASSUME NEW k \in Keys, {i \in 1..acked : puts[i].key = k} # {}
             PROVE  \E i \in Latest({i \in 1..acked : puts[i].key = k})..Len(puts) :
                      puts[i].key = k /\ server[k].list = puts[i].node.list
  BY DEF AckedNeverUndone
<1> DEFINE done == {i \in 1..acked : puts[i].key = k}
           j == Latest(done)
<1>1. acked \in Nat /\ applied \in Nat /\ acked <= applied
  BY DEF TypeOK, ClientTypeOK
<1>2. j \in done
  <2>1. done \in SUBSET (1..acked)
    OBVIOUS
  <2> HIDE DEF done
  <2> QED
    BY <1>1, <2>1, LatestExists DEF done
<1>3. j \in 1..applied /\ puts[j].key = k
  BY <1>1, <1>2
<1> HIDE DEF j
<1>4. \E i \in j..Len(puts) : puts[i].key = puts[j].key /\ server[puts[j].key].list = puts[i].node.list
  BY <1>3 DEF NotUndone
<1> QED
  BY <1>3, <1>4 DEF j

\* The server never goes back behind a write it has acknowledged, over any
\* number of lost connections, contracts and alterations.
THEOREM AckedWritesStay == Spec => []AckedNeverUndone
<1>1. Init => TypeOK /\ NotUndone(server, puts, applied)
  <2>1. Init => applied = 0
    BY DEF Init, ClientInit
  <2> QED
    BY <2>1, InitType DEF NotUndone
<1>2. TypeOK /\ NotUndone(server, puts, applied) /\ [Next]_vars
        => (TypeOK /\ NotUndone(server, puts, applied))'
  BY NextType, NotUndoneKept
<1>3. TypeOK /\ NotUndone(server, puts, applied) => AckedNeverUndone
  BY NotUndoneFollows
<1> QED
  BY <1>1, <1>2, <1>3, PTL DEF Spec

-----------------------------------------------------------------------------
(***************************************************************************)
(* ListsWellFormed. Every alteration is appended by one callback: the uid  *)
(* of a read that waits, or of an event not yet run, is in no array, and   *)
(* no two of them have the same uid.                                       *)
(***************************************************************************)

\* The nodes the server stores, writes carry and events were answered with.
Nodes(sv, ps, es) ==
  {sv[k] : k \in Keys} \cup {ps[i].node : i \in 1..Len(ps)}
    \cup {es[i].node : i \in 1..Len(es)}

\* Every uid some array names.
Listed(sv, ps, es) == UNION {Elements(n.list) : n \in Nodes(sv, ps, es)}

\* The array of a contract, and one written to it, starts with "-1"; none
\* names anything twice.
GoodNode(n) ==
  /\ \A i, j \in DOMAIN n.list : n.list[i] = n.list[j] => i = j
  /\ n.kind \in {"contract", "list"} => n.list # <<>> /\ n.list[1] = Marker

\* All of these objects are good.
GoodNodes(sv, ps, es) == \A n \in Nodes(sv, ps, es) : GoodNode(n)

\* The positions of the appends in a queue of reads or events.
AppendsIn(q) == {i \in 1..Len(q) : q[i].purpose = "append"}

\* The uids that reads which wait and events not yet run are to append.
Pending(ls, es) ==
  {es[i].arg : i \in AppendsIn(es)} \cup UNION {{ls[k][j].arg : j \in AppendsIn(ls[k])} : k \in Keys}

\* No uid is in two of them.
PendingOnce(ls, es) ==
  /\ \A i, j \in AppendsIn(es) : es[i].arg = es[j].arg => i = j
  /\ \A k, m \in Keys : \A i \in AppendsIn(ls[k]), j \in AppendsIn(ls[m]) :
       ls[k][i].arg = ls[m][j].arg => k = m /\ i = j
  /\ \A i \in AppendsIn(es), k \in Keys : \A j \in AppendsIn(ls[k]) : es[i].arg # ls[k][j].arg

\* The inductive part: arrays are good, and what is still to be appended is in
\* no array yet.
LInv ==
  /\ GoodNodes(server, puts, events)
  /\ PendingOnce(listens, events)
  /\ \A a \in Pending(listens, events) : a < nextKey /\ a \notin Listed(server, puts, events)
  /\ \A a \in Listed(server, puts, events) : a < nextKey

\* What is stored, written and answered has the type of a node.
LEMMA NodesTyped ==
  ASSUME ClientTypeOK, NEW n \in Nodes(server, puts, events)
  PROVE  n \in Node
<1>1. server \in [Keys -> Node] /\ puts \in Seq(Put) /\ events \in Seq(Event)
  BY DEF ClientTypeOK
<1>2. \A i \in 1..Len(puts) : puts[i].node \in Node
  <2>1. \A i \in 1..Len(puts) : puts[i] \in Put
    BY <1>1, ElementOfSeq
  <2> QED
    BY <2>1 DEF Put
<1>3. \A i \in 1..Len(events) : events[i].node \in Node
  <2>1. \A i \in 1..Len(events) : events[i] \in Event
    BY <1>1, ElementOfSeq
  <2> QED
    BY <2>1 DEF Event
<1> QED
  BY <1>1, <1>2, <1>3 DEF Nodes

\* setValue over a good node leaves a good one.
LEMMA OverwriteGood ==
  ASSUME NEW old \in Node, NEW new \in Node, GoodNode(old), GoodNode(new)
  PROVE  GoodNode(Overwrite(old, new)) /\ Overwrite(old, new).list = new.list
<1>1. Overwrite(old, new).list = new.list
  BY OverwriteList
<1>2. CASE new.kind = "list" /\ old.kind = "contract"
  <2>1. new.list # <<>> /\ new.list[1] = Marker
    BY <1>2 DEF GoodNode
  <2> DEFINE o == Overwrite(old, new)
  <2> HIDE DEF o
  <2>2. o.list = new.list
    BY <1>1 DEF o
  <2>3. GoodNode(o)
    BY <2>1, <2>2 DEF GoodNode
  <2> QED
    BY <1>1, <2>3 DEF o
<1>3. CASE ~(new.kind = "list" /\ old.kind = "contract")
  <2>1. Overwrite(old, new) = new
    BY <1>3 DEF Overwrite
  <2> QED
    BY <2>1
<1> QED
  BY <1>2, <1>3

\* A read gives a good node, whose array is one that is stored or written.
LEMMA ViewGood ==
  ASSUME ClientTypeOK, GoodNodes(server, puts, events), NEW k \in Keys
  PROVE  GoodNode(View(k)) /\ Elements(View(k).list) \subseteq Listed(server, puts, events)
<1> DEFINE N == Nodes(server, puts, events)
           S == Shadows(k)
           W == WritesTo(k)
<1>1. puts \in Seq(Put) /\ Len(puts) \in Nat /\ DOMAIN puts = 1..Len(puts)
  BY DEF ClientTypeOK
<1>2. W \in SUBSET (1..Len(puts)) /\ S \in SUBSET W
  BY <1>1 DEF WritesTo, Shadows
<1>3. \A i \in 1..Len(puts) : puts[i].node \in N
  BY DEF Nodes
<1>4. server[k] \in N
  BY DEF Nodes
<1>5. View(k) = IF W = {} THEN IF S = {} THEN server[k] ELSE puts[Latest(S)].node
                ELSE Overwrite(IF S = {} THEN server[k] ELSE puts[Latest(S)].node,
                               puts[Latest(W)].node)
  BY DEF View
<1> DEFINE base == IF S = {} THEN server[k] ELSE puts[Latest(S)].node
<1> HIDE DEF N, S, W
<1>6. base \in N
  BY <1>1, <1>2, <1>3, <1>4, LatestExists
<1>7. W # {} => puts[Latest(W)].node \in N
  BY <1>1, <1>2, <1>3, LatestExists
<1>8. \A n \in N : n \in Node /\ GoodNode(n)
  BY NodesTyped DEF N, GoodNodes
<1> HIDE DEF base
<1>9. View(k) = IF W = {} THEN base ELSE Overwrite(base, puts[Latest(W)].node)
  BY <1>5 DEF base
<1>10. GoodNode(View(k)) /\ \E n \in N : View(k).list = n.list
  <2>1. CASE W = {}
    BY <1>6, <1>8, <1>9, <2>1
  <2>2. CASE W # {}
    BY <1>6, <1>7, <1>8, <1>9, <2>2, OverwriteGood
  <2> QED
    BY <2>1, <2>2
<1>11. \A n \in N : Elements(n.list) \subseteq Listed(server, puts, events)
  BY DEF Listed, N
<1> QED
  BY <1>10, <1>11

\* A uid that is not in an array can be appended to it.
LEMMA GoodAppend ==
  ASSUME NEW l \in Seq(Keys \cup {Marker}), NEW a \in Keys, a \notin Elements(l),
         \A i, j \in DOMAIN l : l[i] = l[j] => i = j, l # <<>>, l[1] = Marker
  PROVE  LET t == Append(l, a)
         IN  /\ \A i, j \in DOMAIN t : t[i] = t[j] => i = j
             /\ t # <<>> /\ t[1] = Marker
             /\ Elements(t) \subseteq Elements(l) \cup {a}
<1> DEFINE t == Append(l, a)
<1>1. /\ t \in Seq(Keys \cup {Marker}) /\ Len(t) = Len(l) + 1
      /\ \A i \in 1..Len(l) : t[i] = l[i]
      /\ t[Len(l) + 1] = a
  BY AppendProperties
<1>2. Len(l) \in Nat /\ DOMAIN l = 1..Len(l) /\ Len(l) >= 1
  OBVIOUS
<1> HIDE DEF t
<1>3. DOMAIN t = 1..Len(l) + 1
  BY <1>1
<1>4. \A i \in 1..Len(l) : l[i] # a
  BY <1>2 DEF Elements
<1>5. \A i, j \in DOMAIN t : t[i] = t[j] => i = j
  BY <1>1, <1>2, <1>3, <1>4
<1>6. t # <<>> /\ t[1] = Marker
  BY <1>1, <1>2
<1>7. Elements(t) \subseteq Elements(l) \cup {a}
  BY <1>1, <1>2, <1>3 DEF Elements
<1> QED
  BY <1>5, <1>6, <1>7 DEF t

\* A step adds good nodes N, whose arrays name what was named, or X.
LEMMA NodesKept ==
  ASSUME NEW sv, NEW ps, NEW es, NEW sv2, NEW ps2, NEW es2, NEW N, NEW X,
         GoodNodes(sv, ps, es),
         \A n \in N : GoodNode(n) /\ Elements(n.list) \subseteq Listed(sv, ps, es) \cup X,
         \A k \in Keys : sv2[k] \in Nodes(sv, ps, es) \cup N,
         \A i \in 1..Len(ps2) : ps2[i].node \in Nodes(sv, ps, es) \cup N,
         \A i \in 1..Len(es2) : es2[i].node \in Nodes(sv, ps, es) \cup N
  PROVE  GoodNodes(sv2, ps2, es2) /\ Listed(sv2, ps2, es2) \subseteq Listed(sv, ps, es) \cup X
<1>1. Nodes(sv2, ps2, es2) \subseteq Nodes(sv, ps, es) \cup N
  BY DEF Nodes
<1>2. \A n \in Nodes(sv, ps, es) : Elements(n.list) \subseteq Listed(sv, ps, es)
  BY DEF Listed
<1>3. \A n \in Nodes(sv2, ps2, es2) : Elements(n.list) \subseteq Listed(sv, ps, es) \cup X
  BY <1>1, <1>2
<1>4. Listed(sv2, ps2, es2) \subseteq Listed(sv, ps, es) \cup X
  BY <1>3 DEF Listed
<1> QED
  BY <1>1, <1>4 DEF GoodNodes

\* The nodes of an unchanged part.
LEMMA OldNodes ==
  ASSUME NEW sv, NEW ps, NEW es
  PROVE  /\ \A k \in Keys : sv[k] \in Nodes(sv, ps, es)
         /\ \A i \in 1..Len(ps) : ps[i].node \in Nodes(sv, ps, es)
         /\ \A i \in 1..Len(es) : es[i].node \in Nodes(sv, ps, es)
BY DEF Nodes

\* The nodes of writes that are issued.
LEMMA IssuedNodes ==
  ASSUME puts \in Seq(Put), NEW T, NEW ps \in Seq(T), Issue(ps)
  PROVE  \A i \in 1..Len(puts') :
           puts'[i].node \in Nodes(server, puts, events) \cup {ps[j].node : j \in 1..Len(ps)}
<1>1. /\ Len(puts') = Len(puts) + Len(ps) /\ Len(puts) \in Nat /\ Len(ps) \in Nat
      /\ \A i \in 1..Len(puts) : puts'[i] = puts[i]
      /\ \A i \in 1..Len(ps) : puts'[Len(puts) + i] = ps[i]
  BY IssueAppends
<1> SUFFICES ASSUME NEW i \in 1..Len(puts')
             PROVE  puts'[i].node \in Nodes(server, puts, events)
                                        \cup {ps[j].node : j \in 1..Len(ps)}
  OBVIOUS
<1>2. CASE i <= Len(puts)
  BY <1>1, <1>2, OldNodes
<1>3. CASE i > Len(puts)
  <2>1. i - Len(puts) \in 1..Len(ps) /\ Len(puts) + (i - Len(puts)) = i
    BY <1>1, <1>3
  <2>2. puts'[i] = ps[i - Len(puts)]
    BY <1>1, <2>1
  <2> QED
    BY <2>1, <2>2
<1> QED
  BY <1>1, <1>2, <1>3

\* Reads are observed: if they append, one pending uid more, in one of the two
\* queues.
LEMMA ObservePending ==
  ASSUME ClientTypeOK, NEW k \in Keys, NEW r \in Read, Observe(k, r),
         PendingOnce(listens, events),
         r.purpose = "append" => r.arg \notin Pending(listens, events)
  PROVE  /\ PendingOnce(listens', events')
         /\ \A a \in Pending(listens', events') :
              a \in Pending(listens, events) \/ (r.purpose = "append" /\ a = r.arg)
<1>0. events \in Seq(Event) /\ listens \in [Keys -> Seq(Read)]
  BY DEF ClientTypeOK
<1>1. r.purpose = "append" =>
        /\ \A i \in AppendsIn(events) : events[i].arg # r.arg
        /\ \A m \in Keys : \A j \in AppendsIn(listens[m]) : listens[m][j].arg # r.arg
  BY DEF Pending
<1>2. CASE Complete(k, r)
  <2> DEFINE e == EventOf(k, r)
  <2>1. events' = Append(events, e) /\ UNCHANGED listens /\ e.arg = r.arg /\ e.purpose = r.purpose
    BY <1>2 DEF Observe, EventOf
  <2>2. e \in Event
    BY EventOfType
  <2> HIDE DEF e
  <2>3. /\ Len(events') = Len(events) + 1 /\ Len(events) \in Nat
        /\ \A i \in 1..Len(events) : events'[i] = events[i]
        /\ events'[Len(events) + 1] = e
    BY <1>0, <2>1, <2>2, AppendProperties
  <2>4. \A i \in AppendsIn(events') :
          \/ i \in AppendsIn(events) /\ events'[i].arg = events[i].arg
          \/ i = Len(events) + 1 /\ r.purpose = "append" /\ events'[i].arg = r.arg
    BY <2>1, <2>3 DEF AppendsIn
  <2>5. PendingOnce(listens, events')
    <3>1. \A i, j \in AppendsIn(events') : events'[i].arg = events'[j].arg => i = j
      BY <1>1, <2>4 DEF PendingOnce
    <3>2. \A i \in AppendsIn(events'), m \in Keys : \A j \in AppendsIn(listens[m]) :
            events'[i].arg # listens[m][j].arg
      BY <1>1, <2>4 DEF PendingOnce
    <3> QED
      BY <3>1, <3>2 DEF PendingOnce
  <2>6. \A a \in Pending(listens, events') :
          a \in Pending(listens, events) \/ (r.purpose = "append" /\ a = r.arg)
    BY <2>4 DEF Pending
  <2> QED
    BY <2>1, <2>5, <2>6
<1>3. CASE ~Complete(k, r)
  <2>1. listens' = [listens EXCEPT ![k] = Append(listens[k], r)] /\ UNCHANGED events
    BY <1>3 DEF Observe
  <2> DEFINE l == Append(listens[k], r)
             n == Len(listens[k])
  <2>2. /\ Len(l) = n + 1 /\ n \in Nat /\ l[n + 1] = r
        /\ \A i \in 1..n : l[i] = listens[k][i]
    <3>1. listens[k] \in Seq(Read)
      BY <1>0
    <3> QED
      BY <3>1, AppendProperties, LenProperties
  <2>3. listens'[k] = l /\ \A m \in Keys : m # k => listens'[m] = listens[m]
    BY <1>0, <2>1
  <2> HIDE DEF l
  <2>4. \A m \in Keys : \A j \in AppendsIn(listens'[m]) :
          \/ j \in AppendsIn(listens[m]) /\ listens'[m][j].arg = listens[m][j].arg
          \/ m = k /\ j = n + 1 /\ r.purpose = "append" /\ listens'[m][j].arg = r.arg
    <3> SUFFICES ASSUME NEW m \in Keys, NEW j \in AppendsIn(listens'[m])
                 PROVE  \/ j \in AppendsIn(listens[m]) /\ listens'[m][j].arg = listens[m][j].arg
                        \/ /\ m = k /\ j = n + 1 /\ r.purpose = "append"
                           /\ listens'[m][j].arg = r.arg
      OBVIOUS
    <3>1. CASE m = k
      BY <2>2, <2>3, <3>1 DEF AppendsIn
    <3>2. CASE m # k
      BY <2>3, <3>2
    <3> QED
      BY <3>1, <3>2
  <2> HIDE DEF n
  <2>5. PendingOnce(listens', events)
    <3>1. \A m, o \in Keys : \A i \in AppendsIn(listens'[m]), j \in AppendsIn(listens'[o]) :
            listens'[m][i].arg = listens'[o][j].arg => m = o /\ i = j
      BY <1>1, <2>4 DEF PendingOnce
    <3>2. \A i \in AppendsIn(events), m \in Keys : \A j \in AppendsIn(listens'[m]) :
            events[i].arg # listens'[m][j].arg
      BY <1>1, <2>4 DEF PendingOnce
    <3> QED
      BY <3>1, <3>2 DEF PendingOnce
  <2>6. \A a \in Pending(listens', events) :
          a \in Pending(listens, events) \/ (r.purpose = "append" /\ a = r.arg)
    BY <2>4 DEF Pending
  <2> QED
    BY <2>1, <2>5, <2>6
<1> QED
  BY <1>2, <1>3

\* The node of an event that answers an observed read.
LEMMA ObservedNodes ==
  ASSUME ClientTypeOK, NEW k \in Keys, NEW r \in Read, Observe(k, r)
  PROVE  \A i \in 1..Len(events') : events'[i].node \in Nodes(server, puts, events) \cup {View(k)}
<1>0. events \in Seq(Event)
  BY DEF ClientTypeOK
<1>1. CASE Complete(k, r)
  <2> DEFINE e == EventOf(k, r)
  <2>1. events' = Append(events, e) /\ e.node = View(k)
    BY <1>1 DEF Observe, EventOf
  <2>2. e \in Event
    BY EventOfType
  <2> HIDE DEF e
  <2>3. /\ Len(events') = Len(events) + 1 /\ Len(events) \in Nat
        /\ \A i \in 1..Len(events) : events'[i] = events[i]
        /\ events'[Len(events) + 1] = e
    BY <1>0, <2>1, <2>2, AppendProperties
  <2>4. \A i \in 1..Len(events') : i \in 1..Len(events) \/ i = Len(events) + 1
    BY <2>3
  <2> QED
    BY <2>1, <2>3, <2>4, OldNodes
<1>2. CASE ~Complete(k, r)
  <2>1. UNCHANGED events
    BY <1>2 DEF Observe
  <2> QED
    BY <2>1, OldNodes
<1> QED
  BY <1>1, <1>2

\* The answer of a listen moves the reads of a path to the end of the events.
LEMMA AnsweredEvents ==
  ASSUME ClientTypeOK, NEW k \in Keys, ListenAnswered(k)
  PROVE  LET n == Len(events)
             h == Len(listens[k])
         IN  /\ n \in Nat /\ h \in Nat /\ Len(events') = n + h
             /\ \A i \in 1..n : events'[i] = events[i]
             /\ \A i \in 1..h : /\ events'[n + i].arg = listens[k][i].arg
                                /\ events'[n + i].node = View(k)
                                /\ events'[n + i].key = k
                                /\ events'[n + i].purpose = listens[k][i].purpose
             /\ \A i \in 1..n + h : i \in 1..n \/ (i - n \in 1..h /\ n + (i - n) = i)
             /\ listens'[k] = <<>> /\ \A m \in Keys : m # k => listens'[m] = listens[m]
<1> DEFINE n == Len(events)
           h == Len(listens[k])
           t == [i \in DOMAIN listens[k] |-> EventOf(k, listens[k][i])]
<1>1. /\ events \in Seq(Event) /\ listens \in [Keys -> Seq(Read)] /\ listens[k] \in Seq(Read)
      /\ n \in Nat /\ h \in Nat /\ DOMAIN listens[k] = 1..h
  BY DEF ClientTypeOK
<1>2. events' = events \o t /\ listens' = [listens EXCEPT ![k] = <<>>]
  BY DEF ListenAnswered
<1>3. t \in Seq(Event) /\ Len(t) = h
  <2>1. \A i \in 1..h : listens[k][i] \in Read
    BY <1>1, ElementOfSeq
  <2>2. t \in [DOMAIN listens[k] -> Event]
    BY <1>1, <2>1, EventOfType
  <2>3. t \in Seq(Event)
    BY <1>1, <2>2, MapType
  <2>4. DOMAIN t = 1..h
    BY <1>1
  <2> HIDE DEF t, h
  <2> QED
    BY <1>1, <2>3, <2>4, LenProperties
<1>4. \A i \in 1..h : /\ t[i].arg = listens[k][i].arg /\ t[i].node = View(k)
                     /\ t[i].key = k /\ t[i].purpose = listens[k][i].purpose
  BY <1>1 DEF EventOf
<1> HIDE DEF t
<1>5. /\ Len(events') = n + h
      /\ \A i \in 1..n : events'[i] = events[i]
      /\ \A i \in 1..h : events'[n + i] = t[i]
  <2> DEFINE c == events \o t
  <2>1. /\ Len(c) = Len(events) + Len(t)
        /\ \A i \in 1..Len(events) : c[i] = events[i]
        /\ \A i \in 1..Len(t) : c[Len(events) + i] = t[i]
    <3>1. events \in Seq(Event) /\ t \in Seq(Event)
      BY <1>1, <1>3
    <3> HIDE DEF n, h
    <3> QED
      BY <3>1, ConcatParts
  <2>2. events' = c
    BY <1>2
  <2> HIDE DEF c, h
  <2> QED
    BY <1>3, <2>1, <2>2
<1>6. listens'[k] = <<>> /\ \A m \in Keys : m # k => listens'[m] = listens[m]
  BY <1>1, <1>2
<1>8. \A i \in 1..h : /\ events'[n + i].arg = listens[k][i].arg /\ events'[n + i].node = View(k)
                     /\ events'[n + i].key = k /\ events'[n + i].purpose = listens[k][i].purpose
  BY <1>4, <1>5
<1>7. \A i \in 1..n + h : i \in 1..n \/ (i - n \in 1..h /\ n + (i - n) = i)
  BY <1>1
<1> QED
  BY <1>1, <1>5, <1>6, <1>7, <1>8

\* The answer of a listen keeps each append pending once, and its events carry
\* what was known already or the view of the path.
LEMMA AnsweredPending ==
  ASSUME ClientTypeOK, NEW k \in Keys, ListenAnswered(k), PendingOnce(listens, events)
  PROVE  /\ PendingOnce(listens', events')
         /\ Pending(listens', events') \subseteq Pending(listens, events)
         /\ \A i \in 1..Len(events') : events'[i].node \in Nodes(server, puts, events) \cup {View(k)}
<1> DEFINE n == Len(events)
           h == Len(listens[k])
           E == AppendsIn(events)
           H == AppendsIn(listens[k])
<1>1. /\ n \in Nat /\ h \in Nat /\ Len(events') = n + h
      /\ \A i \in 1..n : events'[i] = events[i]
      /\ \A i \in 1..h : /\ events'[n + i].arg = listens[k][i].arg
                         /\ events'[n + i].node = View(k)
                         /\ events'[n + i].purpose = listens[k][i].purpose
      /\ \A i \in 1..n + h : i \in 1..n \/ (i - n \in 1..h /\ n + (i - n) = i)
      /\ listens'[k] = <<>> /\ \A m \in Keys : m # k => listens'[m] = listens[m]
  BY AnsweredEvents
<1>a. \A i \in 1..Len(events') :
        \/ i \in 1..n /\ events'[i].node = events[i].node
        \/ events'[i].node = View(k)
  <2> SUFFICES ASSUME NEW i \in 1..n + h
               PROVE  \/ i \in 1..n /\ events'[i].node = events[i].node
                      \/ events'[i].node = View(k)
    BY <1>1
  <2>1. CASE i - n \in 1..h /\ n + (i - n) = i
    <3>1. events'[n + (i - n)].node = View(k)
      BY <1>1, <2>1
    <3> QED
      BY <2>1, <3>1
  <2> QED
    BY <1>1, <2>1
<1>2. \A i \in AppendsIn(events') :
        /\ i \in Int
        /\ \/ i \in E /\ events'[i].arg = events[i].arg
           \/ i \notin E /\ i - n \in H /\ events'[i].arg = listens[k][i - n].arg
  <2> SUFFICES ASSUME NEW i \in AppendsIn(events')
               PROVE  /\ i \in Int
                      /\ \/ i \in E /\ events'[i].arg = events[i].arg
                         \/ /\ i \notin E /\ i - n \in H
                            /\ events'[i].arg = listens[k][i - n].arg
    OBVIOUS
  <2>1. i \in 1..n + h /\ events'[i].purpose = "append" /\ i \in Int
    BY <1>1 DEF AppendsIn
  <2>2. CASE i \in 1..n
    BY <1>1, <2>1, <2>2 DEF AppendsIn
  <2>3. CASE i \notin 1..n
    <3> DEFINE j == i - n
    <3>1. j \in 1..h /\ n + j = i /\ i \notin E
      BY <1>1, <2>1, <2>3 DEF AppendsIn
    <3> HIDE DEF j
    <3>2. events'[i].arg = listens[k][j].arg /\ listens[k][j].purpose = "append"
      BY <1>1, <2>1, <3>1
    <3>3. j \in H
      BY <3>1, <3>2 DEF AppendsIn
    <3> QED
      BY <2>1, <3>1, <3>2, <3>3 DEF j
  <2> QED
    BY <2>2, <2>3
<1>3. \A m \in Keys : \A j \in AppendsIn(listens'[m]) :
        m # k /\ j \in AppendsIn(listens[m]) /\ listens'[m][j] = listens[m][j]
  <2>1. Len(<<>>) = 0
    OBVIOUS
  <2> QED
    BY <1>1, <2>1 DEF AppendsIn
<1> HIDE DEF h, E, H
<1>4. \A i, j \in AppendsIn(events') : events'[i].arg = events'[j].arg => i = j
  <2> SUFFICES ASSUME NEW i \in AppendsIn(events'), NEW j \in AppendsIn(events'),
                      events'[i].arg = events'[j].arg
               PROVE  i = j
    OBVIOUS
  <2>1. CASE i \in E /\ j \in E
    <3>1. events[i].arg = events[j].arg
      BY <1>2, <2>1
    <3> QED
      BY <2>1, <3>1 DEF PendingOnce, E
  <2>2. CASE i \notin E /\ j \notin E
    <3>1. i - n \in H /\ j - n \in H /\ listens[k][i - n].arg = listens[k][j - n].arg
      BY <1>2, <2>2
    <3>2. i - n = j - n
      BY <3>1 DEF PendingOnce, H
    <3> QED
      BY <1>1, <1>2, <3>2
  <2>3. CASE i \in E /\ j \notin E
    <3>1. events[i].arg = listens[k][j - n].arg /\ j - n \in H
      BY <1>2, <2>3
    <3> QED
      BY <2>3, <3>1 DEF PendingOnce, E, H
  <2>4. CASE j \in E /\ i \notin E
    <3>1. events[j].arg = listens[k][i - n].arg /\ i - n \in H
      BY <1>2, <2>4
    <3> QED
      BY <2>4, <3>1 DEF PendingOnce, E, H
  <2> QED
    BY <2>1, <2>2, <2>3, <2>4
<1>5. \A m, o \in Keys : \A i \in AppendsIn(listens'[m]), j \in AppendsIn(listens'[o]) :
        listens'[m][i].arg = listens'[o][j].arg => m = o /\ i = j
  <2> SUFFICES ASSUME NEW m \in Keys, NEW o \in Keys, NEW i \in AppendsIn(listens'[m]),
                      NEW j \in AppendsIn(listens'[o]),
                      listens'[m][i].arg = listens'[o][j].arg
               PROVE  m = o /\ i = j
    OBVIOUS
  <2>1. /\ i \in AppendsIn(listens[m]) /\ listens'[m][i] = listens[m][i]
        /\ j \in AppendsIn(listens[o]) /\ listens'[o][j] = listens[o][j]
    BY <1>3
  <2>2. listens[m][i].arg = listens[o][j].arg
    BY <2>1
  <2> QED
    BY <2>1, <2>2 DEF PendingOnce
<1>6. \A i \in AppendsIn(events'), m \in Keys : \A j \in AppendsIn(listens'[m]) :
        events'[i].arg # listens'[m][j].arg
  <2> SUFFICES ASSUME NEW i \in AppendsIn(events'), NEW m \in Keys,
                      NEW j \in AppendsIn(listens'[m])
               PROVE  events'[i].arg # listens'[m][j].arg
    OBVIOUS
  <2>1. m # k /\ j \in AppendsIn(listens[m]) /\ listens'[m][j] = listens[m][j]
    BY <1>3
  <2>2. CASE i \in E
    <3>1. events'[i].arg = events[i].arg
      BY <1>2, <2>2
    <3>2. events[i].arg # listens[m][j].arg
      BY <2>1, <2>2 DEF PendingOnce, E
    <3> QED
      BY <2>1, <3>1, <3>2
  <2>3. CASE i \notin E
    <3>1. i - n \in H /\ events'[i].arg = listens[k][i - n].arg
      BY <1>2, <2>3
    <3>2. listens[k][i - n].arg # listens[m][j].arg
      BY <2>1, <3>1 DEF PendingOnce, H
    <3> QED
      BY <2>1, <3>1, <3>2
  <2> QED
    BY <2>2, <2>3
<1>7. PendingOnce(listens', events')
  BY <1>4, <1>5, <1>6 DEF PendingOnce
<1>8. Pending(listens', events') \subseteq Pending(listens, events)
  <2>0. /\ \A i \in E : events[i].arg \in Pending(listens, events)
        /\ \A m \in Keys : \A j \in AppendsIn(listens[m]) :
             listens[m][j].arg \in Pending(listens, events)
    BY DEF Pending, E
  <2>1. \A i \in AppendsIn(events') : events'[i].arg \in Pending(listens, events)
    <3> SUFFICES ASSUME NEW i \in AppendsIn(events')
                 PROVE  events'[i].arg \in Pending(listens, events)
      OBVIOUS
    <3>1. CASE i \in E
      BY <1>2, <2>0, <3>1
    <3>2. CASE i \notin E
      <4>1. i - n \in H /\ events'[i].arg = listens[k][i - n].arg
        BY <1>2, <3>2
      <4>2. listens[k][i - n].arg \in Pending(listens, events)
        BY <2>0, <4>1 DEF H
      <4> QED
        BY <4>1, <4>2
    <3> QED
      BY <3>1, <3>2
  <2>2. \A m \in Keys : \A j \in AppendsIn(listens'[m]) :
          listens'[m][j].arg \in Pending(listens, events)
    BY <1>3, <2>0
  <2> SUFFICES ASSUME NEW a \in Pending(listens', events') PROVE a \in Pending(listens, events)
    OBVIOUS
  <2>3. \/ \E i \in AppendsIn(events') : a = events'[i].arg
        \/ \E m \in Keys : \E j \in AppendsIn(listens'[m]) : a = listens'[m][j].arg
    BY DEF Pending
  <2> QED
    BY <2>1, <2>2, <2>3
<1> QED
  BY <1>a, <1>7, <1>8, OldNodes

\* A callback takes the first event.
LEMMA CallbackPending ==
  ASSUME ClientTypeOK, PendingOnce(listens, events), events # <<>>, events' = Tail(events),
         UNCHANGED listens
  PROVE  /\ PendingOnce(listens', events')
         /\ Pending(listens', events') \subseteq Pending(listens, events)
         /\ \A i \in 1..Len(events') : events'[i].node \in Nodes(server, puts, events)
         /\ events[1] \in Event /\ Head(events) = events[1]
         /\ events[1].purpose = "append" =>
              /\ events[1].arg \in Pending(listens, events)
              /\ events[1].arg \notin Pending(listens', events')
         /\ events[1].node \in Nodes(server, puts, events)
<1>1. events \in Seq(Event) /\ Len(events) \in Nat /\ Len(events) >= 1
  BY DEF ClientTypeOK
<1>2. /\ Len(events') = Len(events) - 1
      /\ \A i \in 1..Len(events) - 1 : events'[i] = events[i + 1]
  BY <1>1, HeadTailProperties
<1>a. \A i \in 1..Len(events') : i + 1 \in 2..Len(events) /\ events'[i] = events[i + 1]
  BY <1>1, <1>2
<1>3. \A i \in AppendsIn(events') :
        i \in Int /\ i + 1 # 1 /\ i + 1 \in AppendsIn(events) /\ events'[i] = events[i + 1]
  BY <1>1, <1>2 DEF AppendsIn
<1>4. 1 \in 1..Len(events)
  BY <1>1
<1>5. events[1] \in Event /\ Head(events) = events[1]
  BY <1>1, <1>4, ElementOfSeq
<1>6. PendingOnce(listens, events')
  <2>1. \A i, j \in AppendsIn(events') : events'[i].arg = events'[j].arg => i = j
    <3> SUFFICES ASSUME NEW i \in AppendsIn(events'), NEW j \in AppendsIn(events'),
                        events'[i].arg = events'[j].arg
                 PROVE  i = j
      OBVIOUS
    <3>0. events[i + 1].arg = events[j + 1].arg
      BY <1>3
    <3>1. i + 1 = j + 1
      BY <1>3, <3>0 DEF PendingOnce
    <3> QED
      BY <1>3, <3>1
  <2>2. \A i \in AppendsIn(events'), m \in Keys : \A j \in AppendsIn(listens[m]) :
          events'[i].arg # listens[m][j].arg
    <3> SUFFICES ASSUME NEW i \in AppendsIn(events'), NEW m \in Keys,
                        NEW j \in AppendsIn(listens[m])
                 PROVE  events'[i].arg # listens[m][j].arg
      OBVIOUS
    <3>1. i + 1 \in AppendsIn(events) /\ events'[i] = events[i + 1]
      BY <1>3
    <3>2. events[i + 1].arg # listens[m][j].arg
      BY <3>1 DEF PendingOnce
    <3> QED
      BY <3>1, <3>2
  <2> QED
    BY <2>1, <2>2 DEF PendingOnce
<1>7. /\ \A i \in AppendsIn(events') : events'[i].arg \in Pending(listens, events)
      /\ \A m \in Keys : \A j \in AppendsIn(listens[m]) :
           listens[m][j].arg \in Pending(listens, events)
  <2>1. /\ \A i \in AppendsIn(events) : events[i].arg \in Pending(listens, events)
        /\ \A m \in Keys : \A j \in AppendsIn(listens[m]) :
             listens[m][j].arg \in Pending(listens, events)
    BY DEF Pending
  <2> QED
    BY <1>3, <2>1
<1>8. Pending(listens, events') \subseteq Pending(listens, events)
  BY <1>7 DEF Pending
<1>9. ASSUME events[1].purpose = "append"
      PROVE  events[1].arg \in Pending(listens, events) /\ events[1].arg \notin Pending(listens, events')
  <2>1. 1 \in AppendsIn(events)
    BY <1>4, <1>9 DEF AppendsIn
  <2>2. events[1].arg \in Pending(listens, events)
    BY <2>1 DEF Pending
  <2>3. \A i \in AppendsIn(events') : events'[i].arg # events[1].arg
    <3>1. \A i \in AppendsIn(events) : i # 1 => events[i].arg # events[1].arg
      BY <2>1, Zenon DEF PendingOnce
    <3> SUFFICES ASSUME NEW i \in AppendsIn(events') PROVE events'[i].arg # events[1].arg
      OBVIOUS
    <3>2. i + 1 \in AppendsIn(events) /\ i + 1 # 1 /\ events'[i].arg = events[i + 1].arg
      BY <1>3
    <3> QED
      BY <3>1, <3>2
  <2>4. \A m \in Keys : \A j \in AppendsIn(listens[m]) : listens[m][j].arg # events[1].arg
    BY <2>1 DEF PendingOnce
  <2> QED
    BY <2>2, <2>3, <2>4 DEF Pending
<1>10. /\ \A i \in 1..Len(events') : events'[i].node \in Nodes(server, puts, events)
       /\ events[1].node \in Nodes(server, puts, events)
  BY <1>a, <1>4, OldNodes
<1> QED
  BY <1>5, <1>6, <1>8, <1>9, <1>10

\* The invariant after a step, from what it adds to the arrays and to the
\* pending uids.
LEMMA LInvFrom ==
  ASSUME LInv, NEW X, nextKey \in Int, nextKey' \in Int, nextKey <= nextKey',
         GoodNodes(server', puts', events'),
         Listed(server', puts', events') \subseteq Listed(server, puts, events) \cup X,
         PendingOnce(listens', events'),
         \A a \in X : a \in Int /\ a < nextKey' /\ a \notin Pending(listens', events'),
         \A a \in Pending(listens', events') :
           a \in Int /\ (a \in Pending(listens, events) \/ (a = nextKey /\ nextKey < nextKey')),
         \A a \in Listed(server, puts, events) : a \in Int
  PROVE  LInv'
<1>1. \A a \in Listed(server', puts', events') : a < nextKey'
  BY DEF LInv
<1>2. \A a \in Pending(listens', events') : a < nextKey' /\ a \notin Listed(server', puts', events')
  <2> SUFFICES ASSUME NEW a \in Pending(listens', events')
               PROVE  a < nextKey' /\ a \notin Listed(server', puts', events')
    OBVIOUS
  <2>1. a \notin Listed(server, puts, events) /\ a < nextKey'
    BY DEF LInv
  <2> QED
    BY <2>1
<1> QED
  BY <1>1, <1>2 DEF LInv

\* Pending uids are push ids, and arrays hold integers.
LEMMA UidsAreInts ==
  ASSUME ClientTypeOK
  PROVE  /\ \A a \in Pending(listens, events) : a \in Keys /\ a \in Int
         /\ \A a \in Listed(server, puts, events) : a \in Int
<1>0. Keys \subseteq Int /\ Marker \in Int
  BY MaxKeyAssumption DEF Keys, Marker
<1>1. \A i \in 1..Len(events) : events[i].arg \in Keys
  <2>1. \A i \in 1..Len(events) : events[i] \in Event
    BY ElementOfSeq DEF ClientTypeOK
  <2> QED
    BY <2>1 DEF Event
<1>2. \A k \in Keys : \A j \in 1..Len(listens[k]) : listens[k][j].arg \in Keys
  <2>1. \A k \in Keys : listens[k] \in Seq(Read)
    BY DEF ClientTypeOK
  <2>2. \A k \in Keys : \A j \in 1..Len(listens[k]) : listens[k][j] \in Read
    BY <2>1, ElementOfSeq
  <2> QED
    BY <2>2 DEF Read
<1>3. \A a \in Pending(listens, events) : a \in Keys
  BY <1>1, <1>2 DEF Pending, AppendsIn
<1>4. \A n \in Node : \A a \in Elements(n.list) : a \in Keys \cup {Marker}
  <2> SUFFICES ASSUME NEW n \in Node, NEW i \in DOMAIN n.list PROVE n.list[i] \in Keys \cup {Marker}
    BY DEF Elements
  <2>1. n.list \in Seq(Keys \cup {Marker})
    BY DEF Node
  <2> QED
    BY <2>1, ElementOfSeq, LenProperties
<1>5. \A a \in Listed(server, puts, events) : a \in Keys \cup {Marker}
  BY <1>4, NodesTyped DEF Listed
<1> QED
  BY <1>0, <1>3, <1>5

\* The arrays of new objects.
LEMMA NewNodesGood ==
  /\ Elements(<<>>) = {} /\ Elements(<<Marker>>) = {Marker}
  /\ \A k, r, c : \A kind \in {"dress", "measurement", "alteration"} :
       GoodNode(Object(kind, r, <<>>, c)) /\ Object(kind, r, <<>>, c).list = <<>>
  /\ \A k, r, c : \A kind \in {"contract", "bride"} :
       GoodNode(Object(kind, r, <<Marker>>, c)) /\ Object(kind, r, <<Marker>>, c).list = <<Marker>>
<1>1. Elements(<<>>) = {} /\ Elements(<<Marker>>) = {Marker}
  BY DEF Elements
<1>2. \A k, r, c : \A kind \in {"dress", "measurement", "alteration"} :
        GoodNode(Object(kind, r, <<>>, c)) /\ Object(kind, r, <<>>, c).list = <<>>
  BY DEF GoodNode, Object
<1>3. \A k, r, c : \A kind \in {"contract", "bride"} :
        GoodNode(Object(kind, r, <<Marker>>, c)) /\ Object(kind, r, <<Marker>>, c).list = <<Marker>>
  BY DEF GoodNode, Object
<1> QED
  BY <1>1, <1>2, <1>3

\* A contract is created: four objects, with nothing or "-1" in their arrays.
LEMMA CreateLists ==
  ASSUME TypeOK, TypeOK', LInv, CreateContract PROVE LInv'
<1> DEFINE a == DressPut(nextKey)
           b == ContractPut(nextKey + 1, nextKey)
           c == BridePut(nextKey + 2)
           d == MeasurementPut(nextKey + 3, nextKey + 2)
           ps == <<a, b, c, d>>
           N == {a.node, b.node, c.node, d.node}
<1>1. Issue(ps) /\ UNCHANGED <<server, listens, events>> /\ nextKey' = nextKey + 4
  BY DEF CreateContract
<1>2. ClientTypeOK /\ nextKey \in Nat
  BY DEF TypeOK
<1>3. \A n \in N : GoodNode(n) /\ Elements(n.list) \subseteq {Marker}
  BY NewNodesGood DEF DressPut, ContractPut, BridePut, MeasurementPut, PutAt
<1> HIDE DEF a, b, c, d
<1>4. \A i \in 1..Len(puts') : puts'[i].node \in Nodes(server, puts, events) \cup N
  <2>1. ps \in Seq({a, b, c, d}) /\ {ps[j].node : j \in 1..Len(ps)} \subseteq N
    OBVIOUS
  <2>2. puts \in Seq(Put)
    BY <1>2 DEF ClientTypeOK
  <2> HIDE DEF ps, N
  <2> QED
    BY <1>1, <2>1, <2>2, IssuedNodes
<1> HIDE DEF ps, N
<1>5. /\ GoodNodes(server', puts', events')
      /\ Listed(server', puts', events') \subseteq Listed(server, puts, events) \cup {Marker}
  BY <1>1, <1>3, <1>4, NodesKept, OldNodes DEF LInv
<1>6. Marker \in Int /\ Marker < nextKey' /\ Marker \notin Pending(listens', events')
  <2>1. Marker \notin Keys
    BY DEF Keys, Marker
  <2> QED
    BY <1>1, <1>2, <2>1, UidsAreInts DEF Marker
<1> QED
  BY <1>1, <1>2, <1>5, <1>6, LInvFrom, UidsAreInts DEF LInv

\* An alteration is added: its uid is new, so it is pending once and listed
\* nowhere.
LEMMA AddLists ==
  ASSUME TypeOK, TypeOK', LInv, NEW cost \in Costs, AddAlteration(cost) PROVE LInv'
<1> DEFINE k == current.uid
           r == [purpose |-> "append", arg |-> nextKey]
           a == AlterationPut(nextKey, k, cost)
           N == {a.node, View(k)}
           X == {}
<1>1. /\ Issue(<<a>>) /\ Observe(k, r) /\ UNCHANGED server /\ nextKey' = nextKey + 1
      /\ k # NoUID /\ nextKey <= MaxKey
  BY DEF AddAlteration
<1>2. ClientTypeOK /\ nextKey \in Nat /\ nextKey \in Keys /\ k \in Keys
  BY <1>1, MaxKeyAssumption DEF TypeOK, Keys
<1>3. r \in Read /\ r.arg = nextKey
  BY <1>2 DEF Read, Purposes
<1>4. GoodNode(a.node) /\ a.node.list = <<>>
  BY NewNodesGood DEF AlterationPut, PutAt
<1> HIDE DEF k, r, a
<1>5. \A n \in N : GoodNode(n) /\ Elements(n.list) \subseteq Listed(server, puts, events)
  BY <1>2, <1>4, NewNodesGood, ViewGood DEF LInv
<1>6. \A i \in 1..Len(puts') : puts'[i].node \in Nodes(server, puts, events) \cup N
  <2>1. <<a>> \in Seq({a}) /\ {<<a>>[j].node : j \in 1..Len(<<a>>)} \subseteq N
    OBVIOUS
  <2>2. puts \in Seq(Put)
    BY <1>2 DEF ClientTypeOK
  <2> HIDE DEF N
  <2> QED
    BY <1>1, <2>1, <2>2, IssuedNodes
<1>7. \A i \in 1..Len(events') : events'[i].node \in Nodes(server, puts, events) \cup N
  BY <1>1, <1>2, <1>3, ObservedNodes
<1> HIDE DEF N
<1>8. /\ GoodNodes(server', puts', events')
      /\ Listed(server', puts', events') \subseteq Listed(server, puts, events) \cup X
  <2> HIDE DEF X
  <2> QED
    BY <1>1, <1>5, <1>6, <1>7, NodesKept, OldNodes DEF LInv
<1>9. nextKey \notin Pending(listens, events)
  BY <1>2 DEF LInv
<1>10. /\ PendingOnce(listens', events')
       /\ Pending(listens', events') \subseteq Pending(listens, events) \cup {nextKey}
  BY <1>1, <1>2, <1>3, <1>9, ObservePending DEF LInv, r
<1>11. nextKey \in Int /\ nextKey' \in Int /\ nextKey < nextKey'
  BY <1>1, <1>2
<1>12. \A x \in Pending(listens', events') :
         x \in Int /\ (x \in Pending(listens, events) \/ (x = nextKey /\ nextKey < nextKey'))
  BY <1>2, <1>10, <1>11, UidsAreInts
<1>13. \A x \in Listed(server, puts, events) : x \in Int
  BY <1>2, UidsAreInts
<1>14. \A x \in X : x \in Int /\ x < nextKey' /\ x \notin Pending(listens', events')
  OBVIOUS
<1> HIDE DEF X
<1> QED
  BY <1>8, <1>10, <1>11, <1>12, <1>13, <1>14, LInvFrom

\* The callback writes the array one longer; its uid is pending no more.
LEMMA CallbackLists ==
  ASSUME TypeOK, TypeOK', LInv, AppendCallback PROVE LInv'
<1> DEFINE e == events[1]
           p == ListPut(e.key, Append(e.node.list, e.arg))
           ps == IF e.node.kind = "contract" THEN <<p>> ELSE <<>>
           N == IF e.node.kind = "contract" THEN {p.node} ELSE {}
<1>1. ClientTypeOK /\ nextKey \in Nat
  BY DEF TypeOK
<1>2. events # <<>> /\ events' = Tail(events) /\ UNCHANGED <<server, listens, nextKey>>
  BY DEF AppendCallback
<1>3. /\ PendingOnce(listens', events')
      /\ Pending(listens', events') \subseteq Pending(listens, events)
      /\ \A i \in 1..Len(events') : events'[i].node \in Nodes(server, puts, events)
      /\ e \in Event /\ Head(events) = e
      /\ e.arg \in Pending(listens, events) /\ e.node \in Nodes(server, puts, events)
      /\ e.arg \notin Pending(listens', events')
  <2>1. Head(events).purpose = "append"
    BY DEF AppendCallback
  <2> QED
    BY <1>1, <1>2, <2>1, CallbackPending DEF LInv
<1>4. Issue(ps)
  BY <1>3 DEF AppendCallback
<1> HIDE DEF e
<1>5. \A n \in N : GoodNode(n) /\ Elements(n.list) \subseteq Listed(server, puts, events) \cup {e.arg}
  <2> SUFFICES ASSUME e.node.kind = "contract"
               PROVE  /\ GoodNode(p.node)
                      /\ Elements(p.node.list) \subseteq Listed(server, puts, events) \cup {e.arg}
    OBVIOUS
  <2>1. p.node.list = Append(e.node.list, e.arg)
    BY DEF ListPut, PutAt, Object
  <2>2. GoodNode(e.node) /\ e.node \in Node /\ e.arg \in Keys
    BY <1>1, <1>3, NodesTyped DEF LInv, GoodNodes, Event
  <2>3. e.node.list \in Seq(Keys \cup {Marker})
    BY <2>2 DEF Node
  <2>4. /\ Elements(e.node.list) \subseteq Listed(server, puts, events)
        /\ e.arg \notin Listed(server, puts, events)
    BY <1>3 DEF LInv, Listed
  <2> DEFINE t == Append(e.node.list, e.arg)
  <2>5. /\ \A i, j \in DOMAIN t : t[i] = t[j] => i = j
        /\ t # <<>> /\ t[1] = Marker
        /\ Elements(t) \subseteq Elements(e.node.list) \cup {e.arg}
    BY <2>2, <2>3, <2>4, GoodAppend DEF GoodNode
  <2> HIDE DEF t, p
  <2>6. p.node.list = t
    BY <2>1 DEF t
  <2> QED
    BY <2>4, <2>5, <2>6 DEF GoodNode
<1> HIDE DEF p
<1>6. \A i \in 1..Len(puts') : puts'[i].node \in Nodes(server, puts, events) \cup N
  <2>1. ps \in Seq({p}) /\ {ps[j].node : j \in 1..Len(ps)} \subseteq N
    <3>1. CASE e.node.kind = "contract"
      <4>1. ps = <<p>> /\ N = {p.node}
        BY <3>1
      <4>2. <<p>> \in Seq({p}) /\ {<<p>>[j].node : j \in 1..Len(<<p>>)} \subseteq {p.node}
        OBVIOUS
      <4> QED
        BY <4>1, <4>2
    <3>2. CASE e.node.kind # "contract"
      <4>1. ps = <<>>
        BY <3>2
      <4>2. <<>> \in Seq({p}) /\ {<<>>[j].node : j \in 1..Len(<<>>)} = {}
        OBVIOUS
      <4> QED
        BY <4>1, <4>2
    <3> QED
      BY <3>1, <3>2
  <2>2. puts \in Seq(Put)
    BY <1>1 DEF ClientTypeOK
  <2> HIDE DEF ps, N
  <2> QED
    BY <1>4, <2>1, <2>2, IssuedNodes
<1> HIDE DEF ps, N
<1> DEFINE X == {e.arg}
<1>7. /\ GoodNodes(server', puts', events')
      /\ Listed(server', puts', events') \subseteq Listed(server, puts, events) \cup X
  <2>1. \A n \in N : GoodNode(n) /\ Elements(n.list) \subseteq Listed(server, puts, events) \cup X
    BY <1>5
  <2>2. /\ \A k \in Keys : server'[k] \in Nodes(server, puts, events) \cup N
        /\ \A i \in 1..Len(events') : events'[i].node \in Nodes(server, puts, events) \cup N
    BY <1>2, <1>3, OldNodes
  <2>3. GoodNodes(server, puts, events)
    BY DEF LInv
  <2> HIDE DEF X
  <2> QED
    BY <1>6, <2>1, <2>2, <2>3, NodesKept
<1>8. e.arg \in Int /\ e.arg < nextKey' /\ e.arg \notin Pending(listens', events')
  <2>1. e.arg \in Int
    BY <1>1, <1>3, UidsAreInts
  <2>2. e.arg < nextKey
    BY <1>3 DEF LInv
  <2> QED
    BY <1>2, <1>3, <2>1, <2>2
<1>9. nextKey \in Int /\ nextKey' \in Int /\ nextKey <= nextKey'
  BY <1>1, <1>2
<1>10. \A x \in Pending(listens', events') : x \in Int /\ x \in Pending(listens, events)
  BY <1>1, <1>3, UidsAreInts
<1>11. \A x \in Listed(server, puts, events) : x \in Int
  BY <1>1, UidsAreInts
<1>12. \A x \in X : x \in Int /\ x < nextKey' /\ x \notin Pending(listens', events')
  BY <1>8
<1> HIDE DEF X
<1> QED
  BY <1>3, <1>7, <1>9, <1>10, <1>11, <1>12, LInvFrom

\* A step that takes nodes away, or adds good ones with arrays that were
\* there, and no pending uid.
LEMMA SameLists ==
  ASSUME TypeOK, TypeOK', LInv, UNCHANGED nextKey, NEW N,
         \A n \in N : GoodNode(n) /\ Elements(n.list) \subseteq Listed(server, puts, events),
         \A k \in Keys : server'[k] \in Nodes(server, puts, events) \cup N,
         \A i \in 1..Len(puts') : puts'[i].node \in Nodes(server, puts, events) \cup N,
         \A i \in 1..Len(events') : events'[i].node \in Nodes(server, puts, events) \cup N,
         PendingOnce(listens', events'),
         Pending(listens', events') \subseteq Pending(listens, events)
  PROVE  LInv'
<1> DEFINE X == {}
<1>1. \A n \in N : GoodNode(n) /\ Elements(n.list) \subseteq Listed(server, puts, events) \cup X
  OBVIOUS
<1>2. \A x \in X : x \in Int /\ x < nextKey' /\ x \notin Pending(listens', events')
  OBVIOUS
<1>3. ClientTypeOK /\ nextKey \in Int /\ nextKey' \in Int /\ nextKey <= nextKey'
  BY DEF TypeOK
<1>4. /\ \A x \in Pending(listens', events') : x \in Int /\ x \in Pending(listens, events)
      /\ \A x \in Listed(server, puts, events) : x \in Int
  BY <1>3, UidsAreInts
<1>5. GoodNodes(server, puts, events)
  BY DEF LInv
<1> HIDE DEF X
<1>6. /\ GoodNodes(server', puts', events')
      /\ Listed(server', puts', events') \subseteq Listed(server, puts, events) \cup X
  BY <1>1, <1>5, NodesKept
<1> QED
  BY <1>2, <1>3, <1>4, <1>6, LInvFrom

\* Every step keeps the arrays good and the pending uids out of them.
LEMMA ListsKept ==
  ASSUME TypeOK, TypeOK', LInv, [Next]_vars PROVE LInv'
<1>0. ClientTypeOK
  BY DEF TypeOK
<1> DEFINE N0 == Nodes(server, puts, events)
<1>a. PendingOnce(listens, events) /\ GoodNodes(server, puts, events)
  BY DEF LInv
<1>1. CASE CreateContract
  BY <1>1, CreateLists
<1>2. ASSUME NEW cost \in Costs, AddAlteration(cost) PROVE LInv'
  BY <1>2, AddLists
<1>3. CASE AppendCallback
  BY <1>3, CallbackLists
<1>4. CASE Kill
  <2>1. /\ UNCHANGED <<server, nextKey>> /\ puts' = <<>> /\ events' = <<>>
        /\ listens' = [k \in Keys |-> <<>>]
    BY <1>4 DEF Kill, ClientKilled
  <2>2. Len(puts') = 0 /\ Len(events') = 0 /\ \A k \in Keys : Len(listens'[k]) = 0
    BY <2>1
  <2>3. PendingOnce(listens', events') /\ Pending(listens', events') = {}
    BY <2>2 DEF PendingOnce, Pending, AppendsIn
  <2>4. \A k \in Keys : server'[k] \in N0 \cup {}
    BY <2>1, OldNodes
  <2>5. /\ \A i \in 1..Len(puts') : puts'[i].node \in N0 \cup {}
        /\ \A i \in 1..Len(events') : events'[i].node \in N0 \cup {}
    BY <2>2
  <2> DEFINE N == {}
  <2>6. /\ \A n \in N : GoodNode(n) /\ Elements(n.list) \subseteq Listed(server, puts, events)
        /\ \A k \in Keys : server'[k] \in N0 \cup N
        /\ \A i \in 1..Len(puts') : puts'[i].node \in N0 \cup N
        /\ \A i \in 1..Len(events') : events'[i].node \in N0 \cup N
    BY <2>4, <2>5
  <2> HIDE DEF N
  <2>7. UNCHANGED nextKey /\ Pending(listens', events') \subseteq Pending(listens, events)
    BY <2>1, <2>3
  <2> QED
    BY <2>3, <2>6, <2>7, SameLists
<1>5. CASE ServerApply /\ UNCHANGED nextKey
  <2> DEFINE p == puts[applied + 1]
             o == Overwrite(server[p.key], p.node)
  <2>1. /\ applied + 1 \in 1..Len(puts) /\ UNCHANGED <<puts, listens, events>>
        /\ server' = [server EXCEPT ![p.key] = o]
    BY <1>0, <1>5 DEF ServerApply, ClientTypeOK
  <2>2. puts \in Seq(Put) /\ server \in [Keys -> Node]
    BY <1>0 DEF ClientTypeOK
  <2>3. p \in Put
    BY <2>1, <2>2, ElementOfSeq
  <2>4. p.key \in Keys
    BY <2>3 DEF Put
  <2>5. p.node \in N0 /\ server[p.key] \in N0
    BY <2>1, <2>4, OldNodes
  <2>6. /\ p.node \in Node /\ server[p.key] \in Node
        /\ GoodNode(p.node) /\ GoodNode(server[p.key])
    BY <1>0, <1>a, <2>5, NodesTyped DEF GoodNodes
  <2>7. GoodNode(o) /\ o.list = p.node.list
    BY <2>6, OverwriteGood
  <2>8. Elements(p.node.list) \subseteq Listed(server, puts, events)
    BY <2>5 DEF Listed
  <2> HIDE DEF p, o
  <2> DEFINE N == {o}
  <2>9. \A n \in N : GoodNode(n) /\ Elements(n.list) \subseteq Listed(server, puts, events)
    BY <2>7, <2>8
  <2>10. \A k \in Keys : server'[k] \in N0 \cup N
    BY <2>1, <2>2, OldNodes
  <2> HIDE DEF N
  <2>11. /\ \A i \in 1..Len(puts') : puts'[i].node \in N0 \cup N
         /\ \A i \in 1..Len(events') : events'[i].node \in N0 \cup N
    BY <2>1, OldNodes
  <2>12. /\ PendingOnce(listens', events')
         /\ Pending(listens', events') \subseteq Pending(listens, events)
    BY <1>a, <2>1
  <2> QED
    BY <1>5, <2>9, <2>10, <2>11, <2>12, SameLists
<1>6. ASSUME NEW k \in Keys, ListenAnswered(k), UNCHANGED nextKey PROVE LInv'
  <2>1. UNCHANGED <<server, puts>>
    BY <1>6 DEF ListenAnswered
  <2> DEFINE N == {View(k)}
  <2>2. \A n \in N : GoodNode(n) /\ Elements(n.list) \subseteq Listed(server, puts, events)
    BY <1>0, <1>a, ViewGood
  <2>3. /\ PendingOnce(listens', events')
        /\ Pending(listens', events') \subseteq Pending(listens, events)
        /\ \A i \in 1..Len(events') : events'[i].node \in N0 \cup N
    BY <1>0, <1>a, <1>6, AnsweredPending
  <2> HIDE DEF N
  <2>4. /\ \A j \in Keys : server'[j] \in N0 \cup N
        /\ \A i \in 1..Len(puts') : puts'[i].node \in N0 \cup N
    BY <2>1, OldNodes
  <2> QED
    BY <1>6, <2>2, <2>3, <2>4, SameLists
<1>7. CASE UNCHANGED <<server, puts, listens, events, nextKey>>
  BY <1>7 DEF LInv
<1>8. CASE (PutAcked \/ Disconnect \/ Reconnect) /\ UNCHANGED nextKey
  BY <1>7, <1>8 DEF PutAcked, Disconnect, Reconnect
<1>9. CASE Network
  BY <1>5, <1>6, <1>8, <1>9 DEF Network, ClientStep
<1>10. CASE UNCHANGED vars
  BY <1>7, <1>10 DEF vars, clientVars
<1> QED
  BY <1>1, <1>2, <1>3, <1>4, <1>9, <1>10 DEF Next

\* Nothing is in any array, and nothing is pending, when the app starts.
LEMMA InitLists ==
  ASSUME Init PROVE LInv
<1>1. /\ server = [k \in Keys |-> Absent] /\ puts = <<>> /\ events = <<>>
      /\ listens = [k \in Keys |-> <<>>]
  BY DEF Init, ClientInit
<1>2. Len(puts) = 0 /\ Len(events) = 0 /\ \A k \in Keys : Len(listens[k]) = 0
  BY <1>1
<1>3. PendingOnce(listens, events) /\ Pending(listens, events) = {}
  BY <1>2 DEF PendingOnce, Pending, AppendsIn
<1>4. Nodes(server, puts, events) \subseteq {Absent}
  BY <1>1, <1>2 DEF Nodes
<1>5. GoodNode(Absent) /\ Elements(Absent.list) = {}
  BY DEF GoodNode, Absent, Elements
<1>6. GoodNodes(server, puts, events) /\ Listed(server, puts, events) = {}
  BY <1>4, <1>5 DEF GoodNodes, Listed
<1> QED
  BY <1>3, <1>6 DEF LInv

\* Whatever is sent again, an array starts with "-1" and names each alteration
\* once, for any number of contracts, alterations and lost connections.
THEOREM ListsAlwaysWellFormed == Spec => []ListsWellFormed
<1>1. Init => TypeOK /\ LInv
  BY InitType, InitLists
<1>2. (TypeOK /\ LInv) /\ [Next]_vars => (TypeOK /\ LInv)'
  BY NextType, ListsKept
<1>3. LInv => ListsWellFormed
  <2> SUFFICES ASSUME LInv, NEW k \in Keys, server[k].kind = "contract"
               PROVE  /\ server[k].list # <<>> /\ server[k].list[1] = Marker
                      /\ \A i, j \in DOMAIN server[k].list :
                           server[k].list[i] = server[k].list[j] => i = j
    BY DEF ListsWellFormed
  <2>1. GoodNode(server[k])
    BY OldNodes DEF LInv, GoodNodes
  <2> QED
    BY <2>1 DEF GoodNode
<1> QED
  BY <1>1, <1>2, <1>3, PTL DEF Spec

-----------------------------------------------------------------------------
(***************************************************************************)
(* WaitedAddsKept. While alterations of a contract are added one at a      *)
(* time, only one append to it is pending, so every event still to run     *)
(* carries the array that was written last, and writing it back one        *)
(* longer drops nothing.                                                   *)
(***************************************************************************)

\* Write i adds an alteration to contract c.
IsAdd(ps, i, c) == ps[i].node.kind = "alteration" /\ ps[i].node.ref = c

\* Contract c was made since the app was launched.
MadeHere(ps, c) ==
  \E i \in 1..Len(ps) : ps[i].key = c /\ ps[i].node.kind = "contract"

\* A read of k appends an alteration of k that was added since.
ReadHere(ps, k, r) ==
  /\ r.purpose = "append"
  /\ \E i \in 1..Len(ps) : ps[i].key = r.arg /\ IsAdd(ps, i, k)

\* Everything under way belongs to contracts and alterations made since.
AllHere(ps, cur, ls, es) ==
  /\ cur # NoUID => MadeHere(ps, cur)
  /\ \A i \in 1..Len(ps) :
       ps[i].node.kind = "alteration" => MadeHere(ps, ps[i].node.ref)
  /\ \A k \in Keys : \A i \in 1..Len(ls[k]) : ReadHere(ps, k, ls[k][i])
  /\ \A i \in 1..Len(es) : ReadHere(ps, es[i].key, es[i])

\* Write t is the last one to c.
IsLast(ps, c, t) ==
  /\ t \in 1..Len(ps) /\ ps[t].key = c
  /\ \A j \in 1..Len(ps) : ps[j].key = c => j <= t

\* OneAtATime, of a queue of writes.
Waited(ps, c) ==
  \A i, m \in 1..Len(ps) :
    (IsAdd(ps, i, c) /\ IsAdd(ps, m, c) /\ i < m) =>
      \E j \in i + 1..m - 1 :
        /\ ps[j].node.kind = "list"
        /\ ps[j].node.list[Len(ps[j].node.list)] = ps[i].key

\* Every addition to c is in the array l or pending, and every answer from c
\* is the contract with l.
KeptAt(ps, ls, es, c, l) ==
  /\ \A i \in 1..Len(ps) : IsAdd(ps, i, c) =>
       ps[i].key \in Elements(l) \cup Pending(ls, es)
  /\ \A i \in 1..Len(es) : es[i].key = c =>
       es[i].node.kind = "contract" /\ es[i].node.list = l

\* So for the array of the last write to a contract added to one at a time.
Kept(ps, ls, es) ==
  \A c \in Keys : \A t \in 1..Len(ps) :
    (Waited(ps, c) /\ IsLast(ps, c, t)) => KeptAt(ps, ls, es, c, ps[t].node.list)

\* The inductive invariant.
WInv ==
  /\ IInv
  /\ NotUndone(server, puts, applied)
  /\ LInv
  /\ AllHere(puts, current.uid, listens, events)
  /\ Kept(puts, listens, events)

\* A read of a contract made since launch gives the contract, with the array
\* that was written last.
LEMMA ViewIsLast ==
  ASSUME IInv, NotUndone(server, puts, applied), NEW k \in Keys, MadeHere(puts, k),
         NEW t, IsLast(puts, k, t)
  PROVE  View(k).kind = "contract" /\ View(k).list = puts[t].node.list
<1> DEFINE S == Shadows(k)
           W == WritesTo(k)
<1>0. ClientTypeOK
  BY DEF IInv, TypeOK
<1>1. /\ puts \in Seq(Put) /\ Len(puts) \in Nat /\ DOMAIN puts = 1..Len(puts)
      /\ released \in Nat /\ applied \in Nat /\ released <= applied /\ applied <= Len(puts)
      /\ server[k] \in Node
  BY <1>0 DEF ClientTypeOK
<1>2. \A i \in 1..Len(puts) : puts[i].node \in Node
  <2>1. \A i \in 1..Len(puts) : puts[i] \in Put
    BY <1>1, ElementOfSeq
  <2> QED
    BY <2>1 DEF Put
<1>3. PICK c \in 1..Len(puts) : puts[c].key = k /\ puts[c].node.kind = "contract"
  BY DEF MadeHere
<1>4. \A i \in 1..Len(puts) : (puts[i].key = k /\ puts[i].node.kind # "list")
        => puts[i].node.kind = "contract"
  BY <1>3 DEF IInv, OneObjectPerKey, SameIdentity
<1>5. c <= released => server[k].kind = "contract"
  <2>1. c <= released => c \in 1..applied
    BY <1>1
  <2> QED
    BY <1>3, <2>1 DEF IInv, AppliedStored, SameIdentity
<1>6. /\ W = {i \in 1..Len(puts) : i > released /\ puts[i].key = k}
      /\ S = {i \in W : puts[i].node.kind # "list"}
  BY <1>1 DEF WritesTo, Shadows
<1>7. W \in SUBSET (1..Len(puts)) /\ S \in SUBSET (1..Len(puts))
  BY <1>6
<1>8. S = {} => server[k].kind = "contract"
  <2>1. S = {} => c \notin W
    BY <1>3, <1>6
  <2>2. c \notin W => c <= released
    BY <1>1, <1>3, <1>6
  <2> QED
    BY <1>5, <2>1, <2>2
<1> DEFINE base == IF S = {} THEN server[k] ELSE puts[Latest(S)].node
<1>9. View(k) = IF W = {} THEN base ELSE Overwrite(base, puts[Latest(W)].node)
  BY DEF View
<1>10. t \in 1..Len(puts) /\ puts[t].key = k /\ \A j \in W : j <= t
  BY <1>6 DEF IsLast
<1> HIDE DEF S, W
<1>11. base.kind = "contract" /\ base \in Node
  <2>1. CASE S = {}
    BY <1>1, <1>8, <2>1
  <2>2. CASE S # {}
    <3>1. Latest(S) \in S
      BY <1>1, <1>7, <2>2, LatestExists
    <3>2. Latest(S) \in 1..Len(puts) /\ puts[Latest(S)].key = k
          /\ puts[Latest(S)].node.kind # "list"
      BY <1>6, <3>1
    <3> QED
      BY <1>2, <1>4, <2>2, <3>2
  <2> QED
    BY <2>1, <2>2
<1> HIDE DEF base
<1>12. CASE W = {}
  <2>1. t \in 1..applied
    BY <1>1, <1>6, <1>10, <1>12
  <2>2. PICK i \in t..Len(puts) : puts[i].key = k /\ server[k].list = puts[i].node.list
    BY <1>10, <2>1 DEF NotUndone
  <2>3. i \in 1..Len(puts)
    BY <1>1, <1>10
  <2>4. i = t
    BY <1>1, <1>10, <2>2, <2>3 DEF IsLast
  <2>5. base = server[k]
    BY <1>6, <1>12 DEF base
  <2> QED
    BY <1>9, <1>11, <1>12, <2>2, <2>4, <2>5
<1>13. CASE W # {}
  <2>1. Latest(W) \in W /\ \A j \in W : j <= Latest(W)
    BY <1>1, <1>7, <1>13, LatestExists
  <2>2. t \in W
    BY <1>1, <1>6, <1>10, <2>1
  <2>3. Latest(W) = t
    <3>1. Latest(W) <= t /\ t <= Latest(W)
      BY <1>10, <2>1, <2>2
    <3>2. Latest(W) \in 1..Len(puts)
      BY <1>7, <2>1
    <3> QED
      BY <1>10, <3>1, <3>2
  <2>4. View(k) = Overwrite(base, puts[t].node)
    BY <1>9, <1>13, <2>3
  <2>5. puts[t].node \in Node
    BY <1>2, <1>10
  <2> DEFINE n == puts[t].node
  <2>6. n.kind # "list" => n.kind = "contract"
    BY <1>4, <1>10
  <2> HIDE DEF n
  <2>7. Overwrite(base, n).kind = "contract"
    BY <1>11, <2>5, <2>6 DEF Overwrite, Node, n
  <2>8. Overwrite(base, n).list = n.list
    BY <1>11, <2>5, OverwriteList DEF n
  <2> QED
    BY <2>4, <2>7, <2>8 DEF n
<1> QED
  BY <1>12, <1>13

\* What a longer queue of writes keeps of a contract.
LEMMA LongerKeeps ==
  ASSUME NEW ps, NEW ps2, Len(ps) \in Nat, Len(ps2) \in Nat, Len(ps) <= Len(ps2),
         \A i \in 1..Len(ps) : ps2[i] = ps[i]
  PROVE  /\ \A c : MadeHere(ps, c) => MadeHere(ps2, c)
         /\ \A k, r : ReadHere(ps, k, r) => ReadHere(ps2, k, r)
         /\ \A c : Waited(ps2, c) => Waited(ps, c)
         /\ \A c, t : (/\ IsLast(ps2, c, t)
                       /\ \A i \in Len(ps) + 1..Len(ps2) : ps2[i].key # c)
                      => IsLast(ps, c, t)
<1>1. \A i \in 1..Len(ps) : i \in 1..Len(ps2) /\ ps2[i] = ps[i]
  OBVIOUS
<1>2. \A c : MadeHere(ps, c) => MadeHere(ps2, c)
  BY <1>1 DEF MadeHere
<1>3. \A k, r : ReadHere(ps, k, r) => ReadHere(ps2, k, r)
  BY <1>1 DEF ReadHere, IsAdd
<1>4. ASSUME NEW c, Waited(ps2, c) PROVE Waited(ps, c)
  <2> SUFFICES ASSUME NEW i \in 1..Len(ps), NEW m \in 1..Len(ps),
                      IsAdd(ps, i, c), IsAdd(ps, m, c), i < m
               PROVE  \E j \in i + 1..m - 1 :
                        /\ ps[j].node.kind = "list"
                        /\ ps[j].node.list[Len(ps[j].node.list)] = ps[i].key
    BY DEF Waited
  <2>1. IsAdd(ps2, i, c) /\ IsAdd(ps2, m, c) /\ i \in 1..Len(ps2) /\ m \in 1..Len(ps2)
    BY <1>1 DEF IsAdd
  <2>2. PICK j \in i + 1..m - 1 : /\ ps2[j].node.kind = "list"
                                  /\ ps2[j].node.list[Len(ps2[j].node.list)] = ps2[i].key
    BY <1>4, <2>1 DEF Waited
  <2>3. ps2[j] = ps[j] /\ ps2[i] = ps[i]
    <3>1. j \in 1..Len(ps)
      OBVIOUS
    <3> QED
      BY <3>1
  <2> QED
    BY <2>2, <2>3
<1>5. ASSUME NEW c, NEW t, IsLast(ps2, c, t), \A i \in Len(ps) + 1..Len(ps2) : ps2[i].key # c
      PROVE  IsLast(ps, c, t)
  <2>1. t \in 1..Len(ps)
    BY <1>5 DEF IsLast
  <2> QED
    BY <1>1, <1>5, <2>1 DEF IsLast
<1> QED
  BY <1>2, <1>3, <1>4, <1>5

\* A contract that was made has a last write.
LEMMA LastExists ==
  ASSUME NEW ps, Len(ps) \in Nat, NEW c, MadeHere(ps, c)
  PROVE  \E t \in 1..Len(ps) : IsLast(ps, c, t)
<1> DEFINE S == {i \in 1..Len(ps) : ps[i].key = c}
<1>1. S \in SUBSET (1..Len(ps)) /\ S # {}
  BY DEF MadeHere
<1>2. Latest(S) \in S /\ \A j \in S : j <= Latest(S)
  <2> HIDE DEF S
  <2> QED
    BY <1>1, LatestExists
<1> QED
  BY <1>2 DEF IsLast

\* An alteration that was waited for is pending no more.
LEMMA WaitedIsListed ==
  ASSUME LInv, NEW c, Waited(puts, c), NEW i \in 1..Len(puts), NEW m \in 1..Len(puts),
         IsAdd(puts, i, c), IsAdd(puts, m, c), i < m, ClientTypeOK
  PROVE  puts[i].key \notin Pending(listens, events)
<1>1. PICK j \in i + 1..m - 1 : /\ puts[j].node.kind = "list"
                                /\ puts[j].node.list[Len(puts[j].node.list)] = puts[i].key
  BY DEF Waited
<1>2. j \in 1..Len(puts) /\ puts \in Seq(Put)
  BY DEF ClientTypeOK
<1> DEFINE n == puts[j].node
<1>3. n \in Nodes(server, puts, events)
  BY <1>2, OldNodes
<1>4. n \in Node /\ n.list # <<>>
  BY <1>1, <1>3, NodesTyped DEF LInv, GoodNodes, GoodNode
<1>5. n.list \in Seq(Keys \cup {Marker})
  BY <1>4 DEF Node
<1>6. Len(n.list) \in DOMAIN n.list
  BY <1>4, <1>5
<1>7. puts[i].key \in Elements(n.list)
  BY <1>1, <1>6 DEF Elements
<1>8. puts[i].key \in Listed(server, puts, events)
  BY <1>3, <1>7 DEF Listed
<1> QED
  BY <1>8 DEF LInv

\* So at most one append to a contract that is added to one at a time is pending.
LEMMA OnePending ==
  ASSUME LInv, ClientTypeOK, NEW c, Waited(puts, c), NEW i \in 1..Len(events),
         NEW m \in 1..Len(events), ReadHere(puts, c, events[i]), ReadHere(puts, c, events[m])
  PROVE  i = m
<1>1. PICK a \in 1..Len(puts) : puts[a].key = events[i].arg /\ IsAdd(puts, a, c)
  BY DEF ReadHere
<1>2. PICK b \in 1..Len(puts) : puts[b].key = events[m].arg /\ IsAdd(puts, b, c)
  BY DEF ReadHere
<1>3. events[i].arg \in Pending(listens, events) /\ events[m].arg \in Pending(listens, events)
  <2>1. i \in AppendsIn(events) /\ m \in AppendsIn(events)
    BY DEF ReadHere, AppendsIn
  <2> QED
    BY <2>1 DEF Pending
<1>4. a = b
  <2>1. ~ (a < b)
    BY <1>1, <1>2, <1>3, WaitedIsListed
  <2>2. ~ (b < a)
    BY <1>1, <1>2, <1>3, WaitedIsListed
  <2>3. a \in Int /\ b \in Int
    OBVIOUS
  <2> QED
    BY <2>1, <2>2, <2>3
<1>5. i \in AppendsIn(events) /\ m \in AppendsIn(events)
  BY DEF ReadHere, AppendsIn
<1> QED
  BY <1>1, <1>2, <1>4, <1>5 DEF LInv, PendingOnce

\* The uids in the order in which they were made: what is below nextKey.
LEMMA HereIsOld ==
  ASSUME IInv, AllHere(puts, current.uid, listens, events), NEW c \in Keys, c >= nextKey
  PROVE  /\ ~ MadeHere(puts, c) /\ current.uid # c
         /\ \A i \in 1..Len(puts) : ~ IsAdd(puts, i, c)
         /\ \A i \in 1..Len(events) : events[i].key # c
<1>1. c # NoUID /\ c \in Int /\ nextKey \in Int
  BY MaxKeyAssumption DEF Keys, NoUID, IInv, TypeOK
<1>2. \A i \in 1..Len(puts) : puts[i].key # c
  <2>1. \A i \in 1..Len(puts) : puts[i].key < nextKey
    BY DEF IInv, Fresh
  <2> QED
    BY <1>1, <2>1
<1>3. ~ MadeHere(puts, c)
  BY <1>2 DEF MadeHere
<1>4. \A i \in 1..Len(puts) : ~ IsAdd(puts, i, c)
  BY <1>3 DEF AllHere, IsAdd
<1>5. \A i \in 1..Len(events) : events[i].key # c
  BY <1>4 DEF AllHere, ReadHere
<1> QED
  BY <1>1, <1>3, <1>4, <1>5 DEF AllHere

\* An observed read joins one of the queues; what was there stays.
LEMMA ObserveParts ==
  ASSUME ClientTypeOK, NEW k \in Keys, NEW r \in Read, Observe(k, r), r.purpose = "append"
  PROVE  /\ \A i \in 1..Len(events') :
              \/ i \in 1..Len(events) /\ events'[i] = events[i]
              \/ /\ events'[i].key = k /\ events'[i].purpose = r.purpose
                 /\ events'[i].arg = r.arg /\ events'[i].node = View(k)
         /\ \A m \in Keys : \A i \in 1..Len(listens'[m]) :
              \/ i \in 1..Len(listens[m]) /\ listens'[m][i] = listens[m][i]
              \/ m = k /\ listens'[m][i] = r
         /\ Pending(listens, events) \cup {r.arg} \subseteq Pending(listens', events')
<1>0. events \in Seq(Event) /\ listens \in [Keys -> Seq(Read)]
  BY DEF ClientTypeOK
<1>1. CASE Complete(k, r)
  <2> DEFINE e == EventOf(k, r)
  <2>1. /\ events' = Append(events, e) /\ UNCHANGED listens
        /\ e.key = k /\ e.purpose = r.purpose /\ e.arg = r.arg /\ e.node = View(k)
    BY <1>1 DEF Observe, EventOf
  <2>2. e \in Event
    BY EventOfType
  <2> HIDE DEF e
  <2>3. /\ Len(events') = Len(events) + 1 /\ Len(events) \in Nat
        /\ \A i \in 1..Len(events) : events'[i] = events[i]
        /\ events'[Len(events) + 1] = e
    BY <1>0, <2>1, <2>2, AppendProperties
  <2>4. /\ \A i \in 1..Len(events') : i \in 1..Len(events) \/ i = Len(events) + 1
        /\ Len(events) + 1 \in 1..Len(events')
        /\ \A i \in 1..Len(events) : i \in 1..Len(events')
    BY <2>3
  <2>5. \A i \in 1..Len(events') :
          \/ i \in 1..Len(events) /\ events'[i] = events[i]
          \/ /\ events'[i].key = k /\ events'[i].purpose = r.purpose
             /\ events'[i].arg = r.arg /\ events'[i].node = View(k)
    BY <2>1, <2>3, <2>4
  <2>6. Pending(listens, events) \cup {r.arg} \subseteq Pending(listens, events')
    <3>1. r.arg \in Pending(listens, events')
      <4>1. events'[Len(events) + 1].arg = r.arg /\ Len(events) + 1 \in AppendsIn(events')
        BY <2>1, <2>3, <2>4 DEF AppendsIn
      <4> QED
        BY <4>1 DEF Pending
    <3>2. \A i \in AppendsIn(events) : events[i].arg \in Pending(listens, events')
      <4>1. \A i \in AppendsIn(events) :
              events[i].arg = events'[i].arg /\ i \in AppendsIn(events')
        BY <2>3, <2>4 DEF AppendsIn
      <4> QED
        BY <4>1 DEF Pending
    <3>3. \A m \in Keys : \A j \in AppendsIn(listens[m]) :
            listens[m][j].arg \in Pending(listens, events')
      BY DEF Pending
    <3> QED
      BY <3>1, <3>2, <3>3 DEF Pending
  <2> QED
    BY <2>1, <2>5, <2>6
<1>2. CASE ~Complete(k, r)
  <2>1. listens' = [listens EXCEPT ![k] = Append(listens[k], r)] /\ UNCHANGED events
    BY <1>2 DEF Observe
  <2> DEFINE l == Append(listens[k], r)
             n == Len(listens[k])
  <2>2. /\ Len(l) = n + 1 /\ n \in Nat /\ l[n + 1] = r
        /\ \A i \in 1..n : l[i] = listens[k][i]
    <3>1. listens[k] \in Seq(Read)
      BY <1>0
    <3> QED
      BY <3>1, AppendProperties, LenProperties
  <2>3. listens'[k] = l /\ \A m \in Keys : m # k => listens'[m] = listens[m]
    BY <1>0, <2>1
  <2> HIDE DEF l
  <2>4. \A m \in Keys : \A i \in 1..Len(listens'[m]) :
          \/ i \in 1..Len(listens[m]) /\ listens'[m][i] = listens[m][i]
          \/ m = k /\ listens'[m][i] = r
    <3> SUFFICES ASSUME NEW m \in Keys, NEW i \in 1..Len(listens'[m])
                 PROVE  \/ i \in 1..Len(listens[m]) /\ listens'[m][i] = listens[m][i]
                        \/ m = k /\ listens'[m][i] = r
      OBVIOUS
    <3>1. CASE m = k
      BY <2>2, <2>3, <3>1
    <3>2. CASE m # k
      BY <2>3, <3>2
    <3> QED
      BY <3>1, <3>2
  <2>5. \A m \in Keys : \A j \in 1..Len(listens[m]) :
          j \in 1..Len(listens'[m]) /\ listens'[m][j] = listens[m][j]
    <3> SUFFICES ASSUME NEW m \in Keys, NEW j \in 1..Len(listens[m])
                 PROVE  j \in 1..Len(listens'[m]) /\ listens'[m][j] = listens[m][j]
      OBVIOUS
    <3>1. CASE m = k
      BY <2>2, <2>3, <3>1
    <3>2. CASE m # k
      BY <2>3, <3>2
    <3> QED
      BY <3>1, <3>2
  <2>6. n + 1 \in 1..Len(listens'[k]) /\ listens'[k][n + 1] = r
    BY <2>2, <2>3
  <2>7. Pending(listens, events) \cup {r.arg} \subseteq Pending(listens', events)
    <3>1. \A m \in Keys : \A j \in AppendsIn(listens'[m]) :
            listens'[m][j].arg \in Pending(listens', events)
      BY DEF Pending
    <3>2. r.arg \in Pending(listens', events)
      <4>1. n + 1 \in AppendsIn(listens'[k])
        BY <2>6 DEF AppendsIn
      <4> QED
        BY <2>6, <3>1, <4>1
    <3>3. \A m \in Keys : \A j \in AppendsIn(listens[m]) :
            listens[m][j].arg \in Pending(listens', events)
      <4> SUFFICES ASSUME NEW m \in Keys, NEW j \in AppendsIn(listens[m])
                   PROVE  listens[m][j].arg \in Pending(listens', events)
        OBVIOUS
      <4>1. j \in AppendsIn(listens'[m]) /\ listens'[m][j] = listens[m][j]
        BY <2>5 DEF AppendsIn
      <4>2. listens'[m][j].arg \in Pending(listens', events)
        BY <3>1, <4>1
      <4> QED
        BY <4>1, <4>2
    <3>4. \A i \in AppendsIn(events) : events[i].arg \in Pending(listens', events)
      BY DEF Pending
    <3>5. ASSUME NEW a \in Pending(listens, events) PROVE a \in Pending(listens', events)
      <4>1. \/ \E i \in AppendsIn(events) : a = events[i].arg
            \/ \E m \in Keys : \E j \in AppendsIn(listens[m]) : a = listens[m][j].arg
        BY DEF Pending
      <4> QED
        BY <3>3, <3>4, <4>1
    <3> QED
      BY <3>2, <3>5
  <2> QED
    BY <2>1, <2>4, <2>7
<1> QED
  BY <1>1, <1>2

\* An answered listen moves reads to the events; none is lost.
LEMMA AnswerParts ==
  ASSUME ClientTypeOK, NEW k \in Keys, ListenAnswered(k)
  PROVE  /\ \A i \in 1..Len(events') :
              \/ i \in 1..Len(events) /\ events'[i] = events[i]
              \/ /\ events'[i].key = k /\ events'[i].node = View(k)
                 /\ \E j \in 1..Len(listens[k]) : /\ events'[i].purpose = listens[k][j].purpose
                                                  /\ events'[i].arg = listens[k][j].arg
         /\ \A m \in Keys : \A i \in 1..Len(listens'[m]) :
              i \in 1..Len(listens[m]) /\ listens'[m][i] = listens[m][i]
         /\ Pending(listens, events) \subseteq Pending(listens', events')
<1> DEFINE n == Len(events)
           h == Len(listens[k])
<1>1. /\ n \in Nat /\ h \in Nat /\ Len(events') = n + h
      /\ \A i \in 1..n : events'[i] = events[i]
      /\ \A i \in 1..h : /\ events'[n + i].arg = listens[k][i].arg
                         /\ events'[n + i].node = View(k)
                         /\ events'[n + i].key = k
                         /\ events'[n + i].purpose = listens[k][i].purpose
      /\ \A i \in 1..n + h : i \in 1..n \/ (i - n \in 1..h /\ n + (i - n) = i)
      /\ listens'[k] = <<>> /\ \A m \in Keys : m # k => listens'[m] = listens[m]
  BY AnsweredEvents
<1>2. \A i \in 1..Len(events') :
        \/ i \in 1..n /\ events'[i] = events[i]
        \/ /\ events'[i].key = k /\ events'[i].node = View(k)
           /\ \E j \in 1..h : /\ events'[i].purpose = listens[k][j].purpose
                              /\ events'[i].arg = listens[k][j].arg
  <2> SUFFICES ASSUME NEW i \in 1..n + h
               PROVE  \/ i \in 1..n /\ events'[i] = events[i]
                      \/ /\ events'[i].key = k /\ events'[i].node = View(k)
                         /\ \E j \in 1..h : /\ events'[i].purpose = listens[k][j].purpose
                                            /\ events'[i].arg = listens[k][j].arg
    BY <1>1
  <2>1. CASE i \in 1..n
    BY <1>1, <2>1
  <2>2. CASE i - n \in 1..h /\ n + (i - n) = i
    <3> DEFINE j == i - n
    <3>1. j \in 1..h /\ n + j = i
      BY <2>2
    <3> HIDE DEF j
    <3> QED
      BY <1>1, <3>1
  <2> QED
    BY <1>1, <2>1, <2>2
<1>3. \A m \in Keys : \A j \in 1..Len(listens'[m]) :
        m # k /\ j \in 1..Len(listens[m]) /\ listens'[m][j] = listens[m][j]
  <2>1. Len(<<>>) = 0
    OBVIOUS
  <2> QED
    BY <1>1, <2>1
<1>4. \A i \in AppendsIn(events') : events'[i].arg \in Pending(listens', events')
  BY DEF Pending
<1>5. \A m \in Keys : \A j \in AppendsIn(listens'[m]) : listens'[m][j].arg \in Pending(listens', events')
  BY DEF Pending
<1>6. \A i \in AppendsIn(events) : events[i].arg \in Pending(listens', events')
  <2>1. \A i \in AppendsIn(events) : i \in AppendsIn(events') /\ events'[i] = events[i]
    BY <1>1 DEF AppendsIn
  <2> QED
    BY <1>4, <2>1
<1>7. \A j \in AppendsIn(listens[k]) : listens[k][j].arg \in Pending(listens', events')
  <2> SUFFICES ASSUME NEW j \in AppendsIn(listens[k])
               PROVE  listens[k][j].arg \in Pending(listens', events')
    OBVIOUS
  <2>1. n + j \in AppendsIn(events') /\ events'[n + j].arg = listens[k][j].arg
    BY <1>1 DEF AppendsIn
  <2> QED
    BY <1>4, <2>1
<1>8. \A m \in Keys : \A j \in AppendsIn(listens[m]) :
        listens[m][j].arg \in Pending(listens', events')
  <2> SUFFICES ASSUME NEW m \in Keys, NEW j \in AppendsIn(listens[m])
               PROVE  listens[m][j].arg \in Pending(listens', events')
    OBVIOUS
  <2>1. CASE m = k
    BY <1>7, <2>1
  <2>2. CASE m # k
    <3>1. listens'[m] = listens[m]
      BY <1>1, <2>2
    <3> QED
      BY <1>5, <3>1
  <2> QED
    BY <2>1, <2>2
<1>9. Pending(listens, events) \subseteq Pending(listens', events')
  <2> SUFFICES ASSUME NEW a \in Pending(listens, events) PROVE a \in Pending(listens', events')
    OBVIOUS
  <2>1. \/ \E i \in AppendsIn(events) : a = events[i].arg
        \/ \E m \in Keys : \E j \in AppendsIn(listens[m]) : a = listens[m][j].arg
    BY DEF Pending
  <2> QED
    BY <1>6, <1>8, <2>1
<1> QED
  BY <1>2, <1>3, <1>9

\* A callback takes the first event and no other.
LEMMA CallbackParts ==
  ASSUME ClientTypeOK, events # <<>>, events' = Tail(events), UNCHANGED listens
  PROVE  /\ 1 \in 1..Len(events)
         /\ \A i \in 1..Len(events') : i + 1 \in 2..Len(events) /\ events'[i] = events[i + 1]
         /\ Pending(listens, events) \ {events[1].arg} \subseteq Pending(listens', events')
<1>1. events \in Seq(Event) /\ Len(events) \in Nat /\ Len(events) >= 1
  BY DEF ClientTypeOK
<1>2. /\ Len(events') = Len(events) - 1
      /\ \A i \in 1..Len(events) - 1 : events'[i] = events[i + 1]
  BY <1>1, HeadTailProperties
<1>3. \A i \in 1..Len(events') : i + 1 \in 2..Len(events) /\ events'[i] = events[i + 1]
  BY <1>1, <1>2
<1>4. \A i \in AppendsIn(events) : i = 1 \/ events[i].arg \in Pending(listens, events')
  <2> SUFFICES ASSUME NEW i \in AppendsIn(events), i # 1
               PROVE  events[i].arg \in Pending(listens, events')
    OBVIOUS
  <2> DEFINE j == i - 1
  <2>1. j \in 1..Len(events) - 1 /\ j + 1 = i
    BY <1>1 DEF AppendsIn
  <2> HIDE DEF j
  <2>2. j \in AppendsIn(events') /\ events'[j] = events[i]
    BY <1>2, <2>1 DEF AppendsIn
  <2>3. events'[j].arg \in Pending(listens, events')
    BY <2>2 DEF Pending
  <2> QED
    BY <2>2, <2>3
<1>6. \A m \in Keys : \A j \in AppendsIn(listens[m]) : listens[m][j].arg \in Pending(listens, events')
  BY DEF Pending
<1>7. Pending(listens, events) \ {events[1].arg} \subseteq Pending(listens, events')
  BY <1>4, <1>6 DEF Pending
<1> QED
  BY <1>1, <1>3, <1>7

\* A contract is created: nothing of the others changes, and nothing of the
\* new one is under way.
LEMMA CreateKeeps ==
  ASSUME WInv, CreateContract
  PROVE  AllHere(puts', current'.uid, listens', events') /\ Kept(puts', listens', events')
<1> DEFINE a == DressPut(nextKey)
           b == ContractPut(nextKey + 1, nextKey)
           c == BridePut(nextKey + 2)
           d == MeasurementPut(nextKey + 3, nextKey + 2)
           qs == <<a, b, c, d>>
           n == Len(puts)
<1>0. IInv /\ ClientTypeOK /\ nextKey \in Nat /\ AllHere(puts, current.uid, listens, events)
  BY DEF WInv, IInv, TypeOK
<1>1. /\ Issue(qs) /\ UNCHANGED <<listens, events>> /\ current'.uid = nextKey + 1
  BY DEF CreateContract, OriginalValues
<1>2. /\ a.key = nextKey /\ b.key = nextKey + 1 /\ c.key = nextKey + 2 /\ d.key = nextKey + 3
      /\ a.node.kind = "dress" /\ b.node.kind = "contract"
      /\ c.node.kind = "bride" /\ d.node.kind = "measurement"
  BY DEF DressPut, ContractPut, BridePut, MeasurementPut, PutAt, Object
<1> HIDE DEF a, b, c, d
<1>3. qs \in Seq({a, b, c, d}) /\ Len(qs) = 4
      /\ qs[1] = a /\ qs[2] = b /\ qs[3] = c /\ qs[4] = d
  OBVIOUS
<1>4. puts \in Seq(Put)
  BY <1>0 DEF ClientTypeOK
<1> HIDE DEF qs
<1>5. /\ Len(puts') = n + 4 /\ n \in Nat
      /\ \A i \in 1..n : puts'[i] = puts[i]
      /\ \A i \in 1..4 : puts'[n + i] = qs[i]
  BY <1>1, <1>3, <1>4, IssueAppends
<1>6. puts'[n + 1] = a /\ puts'[n + 2] = b /\ puts'[n + 3] = c /\ puts'[n + 4] = d
  BY <1>3, <1>5
<1>7. \A i \in 1..Len(puts') : \/ i \in 1..n /\ puts'[i] = puts[i]
                               \/ i \in {n + 1, n + 2, n + 3, n + 4}
  BY <1>5
<1>8. \A i \in {n + 1, n + 2, n + 3, n + 4} :
        /\ puts'[i].node.kind # "alteration"
        /\ puts'[i].key \in {nextKey, nextKey + 1, nextKey + 2, nextKey + 3}
  BY <1>2, <1>6
<1>9. /\ \A x : MadeHere(puts, x) => MadeHere(puts', x)
      /\ \A k, r : ReadHere(puts, k, r) => ReadHere(puts', k, r)
      /\ \A x : Waited(puts', x) => Waited(puts, x)
      /\ \A x, t : (/\ IsLast(puts', x, t)
                    /\ \A i \in n + 1..Len(puts') : puts'[i].key # x)
                   => IsLast(puts, x, t)
  <2>1. Len(puts) \in Nat /\ Len(puts') \in Nat /\ Len(puts) <= Len(puts')
    BY <1>5
  <2> QED
    BY <1>5, <2>1, LongerKeeps
<1>10. AllHere(puts', current'.uid, listens', events')
  <2>1. MadeHere(puts', nextKey + 1)
    <3>1. n + 2 \in 1..Len(puts')
      BY <1>5
    <3> QED
      BY <1>2, <1>6, <3>1 DEF MadeHere
  <2>2. \A i \in 1..Len(puts') :
          puts'[i].node.kind = "alteration" => MadeHere(puts', puts'[i].node.ref)
    BY <1>0, <1>7, <1>8, <1>9 DEF AllHere
  <2> QED
    BY <1>0, <1>1, <1>9, <2>1, <2>2 DEF AllHere
<1>11. Kept(puts', listens', events')
  <2> SUFFICES ASSUME NEW k \in Keys, NEW t \in 1..Len(puts'), Waited(puts', k),
                      IsLast(puts', k, t)
               PROVE  KeptAt(puts', listens, events, k, puts'[t].node.list)
    BY <1>1 DEF Kept
  <2>0. k \in Int
    BY MaxKeyAssumption DEF Keys
  <2>1. \A i \in 1..Len(puts') : IsAdd(puts', i, k) => i \in 1..n /\ puts'[i] = puts[i] /\ IsAdd(puts, i, k)
    BY <1>7, <1>8 DEF IsAdd
  <2>2. CASE k >= nextKey
    <3>1. /\ \A i \in 1..Len(puts) : ~ IsAdd(puts, i, k)
          /\ \A i \in 1..Len(events) : events[i].key # k
      BY <1>0, <2>2, HereIsOld
    <3> QED
      BY <2>1, <3>1 DEF KeptAt
  <2>3. CASE k < nextKey
    <3>1. \A i \in n + 1..Len(puts') : puts'[i].key # k
      <4>1. \A i \in n + 1..Len(puts') : i \in {n + 1, n + 2, n + 3, n + 4}
        BY <1>5
      <4>2. k \notin {nextKey, nextKey + 1, nextKey + 2, nextKey + 3}
        BY <1>0, <2>0, <2>3
      <4> QED
        BY <1>8, <4>1, <4>2
    <3>2. Waited(puts, k) /\ IsLast(puts, k, t)
      BY <1>9, <3>1
    <3>3. t \in 1..n /\ puts'[t] = puts[t]
      BY <1>5, <3>2 DEF IsLast
    <3>4. KeptAt(puts, listens, events, k, puts[t].node.list)
      BY <3>2, <3>3 DEF WInv, Kept
    <3> QED
      BY <2>1, <3>3, <3>4 DEF KeptAt
  <2> QED
    BY <1>0, <2>0, <2>2, <2>3
<1> QED
  BY <1>10, <1>11

\* An alteration is added: it is pending, and a read answered at once has the
\* array written last.
LEMMA AddKeeps ==
  ASSUME WInv, NEW cost \in Costs, AddAlteration(cost)
  PROVE  AllHere(puts', current'.uid, listens', events') /\ Kept(puts', listens', events')
<1> DEFINE k == current.uid
           r == [purpose |-> "append", arg |-> nextKey]
           a == AlterationPut(nextKey, k, cost)
           n == Len(puts)
<1>1. Issue(<<a>>) /\ Observe(k, r) /\ k # NoUID /\ nextKey <= MaxKey
  BY DEF AddAlteration
<1>0. /\ IInv /\ ClientTypeOK /\ nextKey \in Nat /\ nextKey \in Keys /\ k \in Keys
      /\ AllHere(puts, k, listens, events)
  BY <1>1, MaxKeyAssumption DEF WInv, IInv, TypeOK, Keys
<1>c. current'.uid = k
  BY <1>0 DEF AddAlteration, IInv, TypeOK
<1>2. r \in Read /\ r.arg = nextKey /\ r.purpose = "append"
  BY <1>0 DEF Read, Purposes
<1>3. a.key = nextKey /\ a.node.kind = "alteration" /\ a.node.ref = k
  BY DEF AlterationPut, PutAt, Object
<1> HIDE DEF r, a
<1>4. puts \in Seq(Put) /\ <<a>> \in Seq({a}) /\ Len(<<a>>) = 1 /\ <<a>>[1] = a
  BY <1>0 DEF ClientTypeOK
<1>5. /\ Len(puts') = n + 1 /\ n \in Nat
      /\ \A i \in 1..n : puts'[i] = puts[i]
      /\ puts'[n + 1] = a
  <2> DEFINE qs == <<a>>
  <2>1. qs \in Seq({a}) /\ Len(qs) = 1 /\ qs[1] = a /\ Issue(qs)
    BY <1>1, <1>4
  <2> HIDE DEF qs
  <2>2. /\ Len(puts') = n + Len(qs) /\ n \in Nat
        /\ \A i \in 1..n : puts'[i] = puts[i]
        /\ \A i \in 1..Len(qs) : puts'[n + i] = qs[i]
    BY <1>4, <2>1, IssueAppends
  <2> QED
    BY <2>1, <2>2
<1>7. \A i \in 1..Len(puts') : (i \in 1..n /\ puts'[i] = puts[i]) \/ i = n + 1
  BY <1>5
<1>8. /\ \A i \in 1..Len(events') :
           \/ i \in 1..Len(events) /\ events'[i] = events[i]
           \/ /\ events'[i].key = k /\ events'[i].purpose = r.purpose
              /\ events'[i].arg = r.arg /\ events'[i].node = View(k)
      /\ \A m \in Keys : \A i \in 1..Len(listens'[m]) :
           \/ i \in 1..Len(listens[m]) /\ listens'[m][i] = listens[m][i]
           \/ m = k /\ listens'[m][i] = r
      /\ Pending(listens, events) \cup {r.arg} \subseteq Pending(listens', events')
  BY <1>0, <1>1, <1>2, ObserveParts
<1>9. /\ \A x : MadeHere(puts, x) => MadeHere(puts', x)
      /\ \A x, y : ReadHere(puts, x, y) => ReadHere(puts', x, y)
      /\ \A x : Waited(puts', x) => Waited(puts, x)
      /\ \A x, t : (/\ IsLast(puts', x, t)
                    /\ \A i \in n + 1..Len(puts') : puts'[i].key # x)
                   => IsLast(puts, x, t)
  <2>1. Len(puts) \in Nat /\ Len(puts') \in Nat /\ Len(puts) <= Len(puts')
    BY <1>5
  <2> QED
    BY <1>5, <2>1, LongerKeeps
<1>m. MadeHere(puts, k) /\ k # nextKey
  <2>1. MadeHere(puts, k)
    BY <1>0, <1>1 DEF AllHere
  <2>2. ~ MadeHere(puts, nextKey)
    BY <1>0, HereIsOld
  <2> QED
    BY <2>1, <2>2
<1>10. AllHere(puts', current'.uid, listens', events')
  <2>1. \A x : (x.purpose = r.purpose /\ x.arg = r.arg) => ReadHere(puts', k, x)
    <3>1. n + 1 \in 1..Len(puts') /\ puts'[n + 1].key = nextKey /\ IsAdd(puts', n + 1, k)
      BY <1>3, <1>5 DEF IsAdd
    <3> QED
      BY <1>2, <3>1 DEF ReadHere
  <2>2. \A i \in 1..Len(puts') :
          puts'[i].node.kind = "alteration" => MadeHere(puts', puts'[i].node.ref)
    BY <1>0, <1>3, <1>5, <1>7, <1>9, <1>m DEF AllHere
  <2>3. \A x \in Keys : \A i \in 1..Len(listens'[x]) : ReadHere(puts', x, listens'[x][i])
    <3> SUFFICES ASSUME NEW x \in Keys, NEW i \in 1..Len(listens'[x])
                 PROVE  ReadHere(puts', x, listens'[x][i])
      OBVIOUS
    <3>1. CASE i \in 1..Len(listens[x]) /\ listens'[x][i] = listens[x][i]
      BY <1>0, <1>9, <3>1 DEF AllHere
    <3>2. CASE x = k /\ listens'[x][i] = r
      BY <2>1, <3>2
    <3> QED
      BY <1>8, <3>1, <3>2
  <2>4. \A i \in 1..Len(events') : ReadHere(puts', events'[i].key, events'[i])
    <3> SUFFICES ASSUME NEW i \in 1..Len(events')
                 PROVE  ReadHere(puts', events'[i].key, events'[i])
      OBVIOUS
    <3>1. CASE i \in 1..Len(events) /\ events'[i] = events[i]
      BY <1>0, <1>9, <3>1 DEF AllHere
    <3>2. CASE /\ events'[i].key = k /\ events'[i].purpose = r.purpose
               /\ events'[i].arg = r.arg
      BY <2>1, <3>2
    <3> QED
      BY <1>8, <3>1, <3>2
  <2> QED
    BY <1>9, <1>c, <1>m, <2>2, <2>3, <2>4 DEF AllHere
<1>11. Kept(puts', listens', events')
  <2> SUFFICES ASSUME NEW c \in Keys, NEW t \in 1..Len(puts'), Waited(puts', c),
                      IsLast(puts', c, t)
               PROVE  KeptAt(puts', listens', events', c, puts'[t].node.list)
    BY DEF Kept
  <2>2. CASE c = nextKey
    <3>1. /\ \A i \in 1..Len(puts) : ~ IsAdd(puts, i, c)
          /\ \A i \in 1..Len(events) : events[i].key # c
      BY <1>0, <2>2, HereIsOld
    <3>2. \A i \in 1..Len(puts') : ~ IsAdd(puts', i, c)
      BY <1>3, <1>5, <1>7, <1>m, <2>2, <3>1 DEF IsAdd
    <3>3. \A i \in 1..Len(events') : events'[i].key # c
      BY <1>8, <1>m, <2>2, <3>1
    <3> QED
      BY <3>2, <3>3 DEF KeptAt
  <2>3. CASE c # nextKey
    <3>1. \A i \in n + 1..Len(puts') : puts'[i].key # c
      <4>1. \A i \in n + 1..Len(puts') : i = n + 1
        BY <1>5
      <4> QED
        BY <1>3, <1>5, <2>3, <4>1
    <3>2. Waited(puts, c) /\ IsLast(puts, c, t)
      BY <1>9, <3>1
    <3>3. t \in 1..n /\ puts'[t] = puts[t]
      BY <1>5, <3>2 DEF IsLast
    <3>4. KeptAt(puts, listens, events, c, puts[t].node.list)
      BY <3>2, <3>3 DEF WInv, Kept
    <3> DEFINE l == puts[t].node.list
    <3>5. \A i \in 1..Len(puts') : IsAdd(puts', i, c) =>
            puts'[i].key \in Elements(l) \cup Pending(listens', events')
      <4> SUFFICES ASSUME NEW i \in 1..Len(puts'), IsAdd(puts', i, c)
                   PROVE  puts'[i].key \in Elements(l) \cup Pending(listens', events')
        OBVIOUS
      <4>1. CASE i \in 1..n /\ puts'[i] = puts[i]
        <5>1. IsAdd(puts, i, c)
          BY <4>1 DEF IsAdd
        <5>2. puts[i].key \in Elements(l) \cup Pending(listens, events)
          BY <3>4, <4>1, <5>1 DEF KeptAt
        <5> QED
          BY <1>8, <4>1, <5>2
      <4>2. CASE i = n + 1
        <5>1. puts'[i].key = r.arg
          BY <1>2, <1>3, <1>5, <4>2
        <5> QED
          BY <1>8, <5>1
      <4> QED
        BY <1>7, <4>1, <4>2
    <3>6. c = k => View(k).kind = "contract" /\ View(k).list = l
      BY <1>0, <1>m, <3>2, ViewIsLast DEF WInv
    <3>7. \A i \in 1..Len(events') : events'[i].key = c =>
            events'[i].node.kind = "contract" /\ events'[i].node.list = l
      BY <1>8, <3>4, <3>6 DEF KeptAt
    <3> HIDE DEF l
    <3>8. KeptAt(puts', listens', events', c, l)
      BY <3>5, <3>7 DEF KeptAt
    <3> QED
      BY <3>3, <3>8 DEF l
  <2> QED
    BY <2>2, <2>3
<1> QED
  BY <1>10, <1>11

\* The elements of an array that is one longer.
LEMMA AppendElements ==
  ASSUME NEW l \in Seq(Keys \cup {Marker}), NEW a \in Keys
  PROVE  Elements(l) \cup {a} \subseteq Elements(Append(l, a))
<1> DEFINE t == Append(l, a)
<1>1. /\ t \in Seq(Keys \cup {Marker}) /\ Len(t) = Len(l) + 1
      /\ \A i \in 1..Len(l) : t[i] = l[i]
      /\ t[Len(l) + 1] = a
  BY AppendProperties
<1>2. Len(l) \in Nat /\ DOMAIN l = 1..Len(l)
  OBVIOUS
<1> HIDE DEF t
<1>3. DOMAIN t = 1..Len(l) + 1
  BY <1>1
<1>4. (\A i \in DOMAIN l : i \in DOMAIN t /\ t[i] = l[i]) /\ Len(l) + 1 \in DOMAIN t
  BY <1>1, <1>2, <1>3
<1>5. Elements(l) \cup {a} \subseteq Elements(t)
  BY <1>1, <1>4 DEF Elements
<1> QED
  BY <1>5 DEF t

\* The callback writes the last array one longer: what it named stays, and the
\* uid that was pending is in it.
LEMMA CallbackKeeps ==
  ASSUME WInv, AppendCallback
  PROVE  AllHere(puts', current'.uid, listens', events') /\ Kept(puts', listens', events')
<1> DEFINE e == events[1]
           p == ListPut(e.key, Append(e.node.list, e.arg))
           qs == IF e.node.kind = "contract" THEN <<p>> ELSE <<>>
           n == Len(puts)
<1>0. /\ IInv /\ LInv /\ ClientTypeOK /\ AllHere(puts, current.uid, listens, events)
      /\ puts \in Seq(Put) /\ n \in Nat
  BY DEF WInv, IInv, TypeOK, ClientTypeOK
<1>1. events # <<>> /\ events' = Tail(events) /\ UNCHANGED <<listens, current>>
  BY DEF AppendCallback
<1>2. /\ 1 \in 1..Len(events)
      /\ \A i \in 1..Len(events') : i + 1 \in 2..Len(events) /\ events'[i] = events[i + 1]
      /\ Pending(listens, events) \ {e.arg} \subseteq Pending(listens', events')
  BY <1>0, <1>1, CallbackParts
<1>3. e \in Event /\ Head(events) = e
  <2>1. events \in Seq(Event)
    BY <1>0 DEF ClientTypeOK
  <2> QED
    BY <1>1, <1>2, <2>1, ElementOfSeq
<1>4. Issue(qs)
  BY <1>3 DEF AppendCallback
<1>5. /\ e.key \in Keys /\ e.arg \in Keys /\ e.node.list \in Seq(Keys \cup {Marker})
      /\ ReadHere(puts, e.key, e)
  BY <1>0, <1>2, <1>3 DEF Event, Node, AllHere
<1>6. \A i \in 1..Len(events') :
        /\ i + 1 \in 1..Len(events) /\ i + 1 # 1 /\ events'[i] = events[i + 1]
  BY <1>2
<1>7. p.key = e.key /\ p.node.kind = "list" /\ p.node.list = Append(e.node.list, e.arg)
  BY DEF ListPut, PutAt, Object
<1> HIDE DEF e, p
<1>8. qs \in Seq({p}) /\ Len(qs) \in {0, 1} /\ (e.node.kind = "contract" => Len(qs) = 1)
      /\ \A i \in 1..Len(qs) : qs[i] = p
  <2>1. CASE e.node.kind = "contract"
    <3>1. qs = <<p>>
      BY <2>1
    <3>2. <<p>> \in Seq({p}) /\ Len(<<p>>) = 1 /\ <<p>>[1] = p
      OBVIOUS
    <3>3. \A i \in 1..1 : i = 1
      OBVIOUS
    <3> QED
      BY <3>1, <3>2, <3>3
  <2>2. CASE e.node.kind # "contract"
    <3>1. qs = <<>>
      BY <2>2
    <3>2. <<>> \in Seq({p}) /\ Len(<<>>) = 0
      OBVIOUS
    <3> QED
      BY <2>2, <3>1, <3>2
  <2> QED
    BY <2>1, <2>2
<1> HIDE DEF qs
<1>9. /\ Len(puts') = n + Len(qs)
      /\ \A i \in 1..n : puts'[i] = puts[i]
      /\ \A i \in 1..Len(qs) : puts'[n + i] = qs[i]
  BY <1>0, <1>4, <1>8, IssueAppends
<1>10. /\ Len(puts') \in Nat /\ n <= Len(puts')
       /\ \A i \in n + 1..Len(puts') : i = n + 1 /\ puts'[i] = p
       /\ \A i \in 1..Len(puts') : (i \in 1..n /\ puts'[i] = puts[i]) \/ puts'[i] = p
       /\ e.node.kind = "contract" => Len(puts') = n + 1 /\ puts'[n + 1] = p
  <2>1. CASE Len(qs) = 0
    BY <1>0, <1>8, <1>9, <2>1
  <2>2. CASE Len(qs) = 1
    <3>1. 1 \in 1..Len(qs)
      BY <2>2
    <3>2. puts'[n + 1] = p /\ Len(puts') = n + 1
      BY <1>8, <1>9, <2>2, <3>1
    <3>3. \A i \in n + 1..Len(puts') : i = n + 1
      BY <1>0, <3>2
    <3> QED
      BY <1>0, <1>9, <3>2, <3>3
  <2> QED
    BY <1>8, <2>1, <2>2
<1>11. /\ \A x : MadeHere(puts, x) => MadeHere(puts', x)
       /\ \A x, y : ReadHere(puts, x, y) => ReadHere(puts', x, y)
       /\ \A x : Waited(puts', x) => Waited(puts, x)
       /\ \A x, t : (/\ IsLast(puts', x, t)
                     /\ \A i \in n + 1..Len(puts') : puts'[i].key # x)
                    => IsLast(puts, x, t)
  BY <1>0, <1>9, <1>10, LongerKeeps
<1>12. AllHere(puts', current'.uid, listens', events')
  <2>1. \A i \in 1..Len(puts') :
          puts'[i].node.kind = "alteration" => MadeHere(puts', puts'[i].node.ref)
    BY <1>0, <1>7, <1>10, <1>11 DEF AllHere
  <2>2. \A i \in 1..Len(events') : ReadHere(puts', events'[i].key, events'[i])
    BY <1>0, <1>6, <1>11 DEF AllHere
  <2> QED
    BY <1>0, <1>1, <1>11, <2>1, <2>2 DEF AllHere
<1>13. PICK x \in 1..n : puts[x].key = e.arg /\ IsAdd(puts, x, e.key)
  BY <1>5 DEF ReadHere
<1>14. Kept(puts', listens', events')
  <2> SUFFICES ASSUME NEW c \in Keys, NEW t \in 1..Len(puts'), Waited(puts', c),
                      IsLast(puts', c, t)
               PROVE  KeptAt(puts', listens', events', c, puts'[t].node.list)
    BY DEF Kept
  <2>0. \A i \in 1..Len(puts') : IsAdd(puts', i, c) =>
          i \in 1..n /\ puts'[i] = puts[i] /\ IsAdd(puts, i, c)
    BY <1>7, <1>10 DEF IsAdd
  <2>1. CASE c # e.key
    <3>1. Waited(puts, c) /\ IsLast(puts, c, t)
      BY <1>7, <1>10, <1>11, <2>1
    <3>2. t \in 1..n /\ puts'[t] = puts[t]
      BY <1>9, <3>1 DEF IsLast
    <3> DEFINE l == puts[t].node.list
    <3>3. KeptAt(puts, listens, events, c, l)
      BY <3>1, <3>2 DEF WInv, Kept
    <3>4. \A i \in 1..Len(puts') : IsAdd(puts', i, c) =>
            puts'[i].key \in Elements(l) \cup Pending(listens', events')
      <4> SUFFICES ASSUME NEW i \in 1..Len(puts'), IsAdd(puts', i, c)
                   PROVE  puts'[i].key \in Elements(l) \cup Pending(listens', events')
        OBVIOUS
      <4>1. i \in 1..n /\ puts'[i] = puts[i] /\ IsAdd(puts, i, c)
        BY <2>0
      <4>2. puts[i].key \in Elements(l) \cup Pending(listens, events)
        BY <3>3, <4>1 DEF KeptAt
      <4>3. puts[i].key # e.arg
        <5> SUFFICES ASSUME puts[i].key = e.arg PROVE FALSE
          OBVIOUS
        <5>1. puts[i].node.ref = puts[x].node.ref
          BY <1>0, <1>13, <4>1 DEF IInv, OneObjectPerKey, SameIdentity, IsAdd
        <5> QED
          BY <1>13, <2>1, <4>1, <5>1 DEF IsAdd
      <4> QED
        BY <1>2, <4>1, <4>2, <4>3
    <3>5. \A i \in 1..Len(events') : events'[i].key = c =>
            events'[i].node.kind = "contract" /\ events'[i].node.list = l
      BY <1>6, <3>3 DEF KeptAt
    <3> HIDE DEF l
    <3>6. KeptAt(puts', listens', events', c, l)
      BY <3>4, <3>5 DEF KeptAt
    <3> QED
      BY <3>2, <3>6 DEF l
  <2>2. CASE c = e.key
    <3>1. MadeHere(puts, c)
      BY <1>0, <1>13, <2>2 DEF AllHere, IsAdd
    <3>2. PICK s \in 1..n : IsLast(puts, c, s)
      BY <1>0, <3>1, LastExists
    <3>3. Waited(puts, c)
      BY <1>11
    <3> DEFINE l == puts[s].node.list
    <3>4. KeptAt(puts, listens, events, c, l)
      BY <3>2, <3>3 DEF WInv, Kept
    <3>5. e.node.kind = "contract" /\ e.node.list = l
      BY <1>2, <2>2, <3>4 DEF KeptAt, e
    <3>6. Len(puts') = n + 1 /\ puts'[n + 1] = p
      BY <1>10, <3>5
    <3>7. puts'[t] = p
      <4>1. n + 1 \in 1..Len(puts') /\ puts'[n + 1].key = c
        BY <1>0, <1>7, <2>2, <3>6
      <4>2. n + 1 <= t /\ t \in 1..n + 1
        BY <3>6, <4>1 DEF IsLast
      <4>3. t = n + 1
        BY <1>0, <4>2
      <4> QED
        BY <3>6, <4>3
    <3> HIDE DEF l
    <3> DEFINE u == puts'[t].node.list
    <3>8. u = Append(l, e.arg) /\ l \in Seq(Keys \cup {Marker})
      BY <1>5, <1>7, <3>5, <3>7
    <3>9. Elements(l) \cup {e.arg} \subseteq Elements(u)
      BY <1>5, <3>8, AppendElements
    <3> HIDE DEF u
    <3>10. \A i \in 1..Len(puts') : IsAdd(puts', i, c) =>
             puts'[i].key \in Elements(u) \cup Pending(listens', events')
      <4> SUFFICES ASSUME NEW i \in 1..Len(puts'), IsAdd(puts', i, c)
                   PROVE  puts'[i].key \in Elements(u) \cup Pending(listens', events')
        OBVIOUS
      <4>1. i \in 1..n /\ puts'[i] = puts[i] /\ IsAdd(puts, i, c)
        BY <2>0
      <4>2. puts[i].key \in Elements(l) \cup Pending(listens, events)
        BY <3>4, <4>1 DEF KeptAt
      <4> QED
        BY <1>2, <3>9, <4>1, <4>2
    <3>11. \A i \in 1..Len(events') : events'[i].key # c
      <4> SUFFICES ASSUME NEW i \in 1..Len(events'), events'[i].key = c PROVE FALSE
        OBVIOUS
      <4> DEFINE m == i + 1
      <4>1. m \in 1..Len(events) /\ m # 1 /\ events[m].key = c
        BY <1>6
      <4> HIDE DEF m
      <4>2. ReadHere(puts, c, events[m]) /\ ReadHere(puts, c, events[1])
        BY <1>0, <1>5, <2>2, <4>1 DEF AllHere, e
      <4>3. m = 1
        BY <1>0, <1>2, <3>3, <4>1, <4>2, OnePending
      <4> QED
        BY <4>1, <4>3
    <3>12. KeptAt(puts', listens', events', c, u)
      BY <3>10, <3>11 DEF KeptAt
    <3> QED
      BY <3>12 DEF u
  <2> QED
    BY <2>1, <2>2
<1> QED
  BY <1>12, <1>14

\* The answer of a listen is the contract with the array written last.
LEMMA AnswerKeeps ==
  ASSUME WInv, NEW k \in Keys, ListenAnswered(k), UNCHANGED current
  PROVE  AllHere(puts', current'.uid, listens', events') /\ Kept(puts', listens', events')
<1>0. IInv /\ ClientTypeOK /\ AllHere(puts, current.uid, listens, events) /\ UNCHANGED puts
  BY DEF WInv, IInv, TypeOK, ListenAnswered
<1>1. /\ \A i \in 1..Len(events') :
           \/ i \in 1..Len(events) /\ events'[i] = events[i]
           \/ /\ events'[i].key = k /\ events'[i].node = View(k)
              /\ \E j \in 1..Len(listens[k]) : /\ events'[i].purpose = listens[k][j].purpose
                                               /\ events'[i].arg = listens[k][j].arg
      /\ \A m \in Keys : \A i \in 1..Len(listens'[m]) :
           i \in 1..Len(listens[m]) /\ listens'[m][i] = listens[m][i]
      /\ Pending(listens, events) \subseteq Pending(listens', events')
  BY <1>0, AnswerParts
<1>2. \A i \in 1..Len(events') : ReadHere(puts, events'[i].key, events'[i])
  <2> SUFFICES ASSUME NEW i \in 1..Len(events') PROVE ReadHere(puts, events'[i].key, events'[i])
    OBVIOUS
  <2>1. CASE i \in 1..Len(events) /\ events'[i] = events[i]
    BY <1>0, <2>1 DEF AllHere
  <2>2. ASSUME events'[i].key = k, NEW j \in 1..Len(listens[k]),
               events'[i].purpose = listens[k][j].purpose, events'[i].arg = listens[k][j].arg
        PROVE  ReadHere(puts, events'[i].key, events'[i])
    <3>1. ReadHere(puts, k, listens[k][j])
      BY <1>0 DEF AllHere
    <3> QED
      BY <2>2, <3>1 DEF ReadHere
  <2> QED
    BY <1>1, <2>1, <2>2
<1>3. \A m \in Keys : \A i \in 1..Len(listens'[m]) : ReadHere(puts, m, listens'[m][i])
  BY <1>0, <1>1 DEF AllHere
<1>4. AllHere(puts', current'.uid, listens', events')
  BY <1>0, <1>2, <1>3 DEF AllHere
<1>5. ASSUME NEW c \in Keys, NEW t \in 1..Len(puts), Waited(puts, c), IsLast(puts, c, t)
      PROVE  KeptAt(puts, listens', events', c, puts[t].node.list)
  <2> DEFINE l == puts[t].node.list
  <2>1. KeptAt(puts, listens, events, c, l)
    BY <1>5 DEF WInv, Kept
  <2>2. \A i \in 1..Len(puts) : IsAdd(puts, i, c) =>
          puts[i].key \in Elements(l) \cup Pending(listens', events')
    BY <1>1, <2>1 DEF KeptAt
  <2>3. ASSUME NEW i \in 1..Len(events'), events'[i].key = c
        PROVE  events'[i].node.kind = "contract" /\ events'[i].node.list = l
    <3>1. CASE i \in 1..Len(events) /\ events'[i] = events[i]
      BY <2>1, <2>3, <3>1 DEF KeptAt
    <3>2. CASE events'[i].key = k /\ events'[i].node = View(k)
      <4>1. MadeHere(puts, k)
        BY <1>0, <1>2, <3>2 DEF AllHere, ReadHere, IsAdd
      <4>2. View(k).kind = "contract" /\ View(k).list = l
        BY <1>0, <1>5, <2>3, <3>2, <4>1, ViewIsLast DEF WInv
      <4> QED
        BY <3>2, <4>2
    <3> QED
      BY <1>1, <3>1, <3>2
  <2> HIDE DEF l
  <2>4. KeptAt(puts, listens', events', c, l)
    BY <2>2, <2>3 DEF KeptAt
  <2> QED
    BY <2>4 DEF l
<1>6. Kept(puts', listens', events')
  BY <1>0, <1>5 DEF Kept
<1> QED
  BY <1>4, <1>6

\* Every step keeps the invariant.
LEMMA WaitedKept ==
  ASSUME WInv, [Next]_vars PROVE WInv'
<1>0. IInv /\ TypeOK /\ NotUndone(server, puts, applied) /\ LInv
  BY DEF WInv, IInv
<1>1. IInv'
  BY <1>0, NextInvariant
<1>2. TypeOK'
  BY <1>1 DEF IInv
<1>3. NotUndone(server', puts', applied')
  BY <1>0, NotUndoneKept
<1>4. LInv'
  BY <1>0, <1>2, ListsKept
<1> DEFINE K == AllHere(puts', current'.uid, listens', events') /\ Kept(puts', listens', events')
<1>5. K
  <2>1. CASE CreateContract
    BY <2>1, CreateKeeps
  <2>2. ASSUME NEW cost \in Costs, AddAlteration(cost) PROVE K
    BY <2>2, AddKeeps
  <2>3. CASE AppendCallback
    BY <2>3, CallbackKeeps
  <2>4. ASSUME NEW k \in Keys, ListenAnswered(k), UNCHANGED current PROVE K
    BY <2>4, AnswerKeeps
  <2>5. CASE Kill
    <3>1. /\ puts' = <<>> /\ events' = <<>> /\ listens' = [k \in Keys |-> <<>>]
          /\ current'.uid = NoUID
      BY <2>5 DEF Kill, ClientKilled, OriginalValues
    <3>2. Len(puts') = 0 /\ Len(events') = 0 /\ \A k \in Keys : Len(listens'[k]) = 0
      BY <3>1
    <3> QED
      BY <3>1, <3>2 DEF AllHere, Kept
  <2>6. CASE UNCHANGED <<puts, listens, events, current>>
    BY <2>6 DEF WInv
  <2>7. CASE (ServerApply \/ PutAcked \/ Disconnect \/ Reconnect) /\ UNCHANGED current
    BY <2>6, <2>7 DEF ServerApply, PutAcked, Disconnect, Reconnect
  <2>8. CASE Network
    BY <2>4, <2>7, <2>8 DEF Network, ClientStep
  <2>9. CASE UNCHANGED vars
    BY <2>6, <2>9 DEF vars, clientVars
  <2> QED
    BY <2>1, <2>2, <2>3, <2>5, <2>8, <2>9 DEF Next
<1> QED
  BY <1>1, <1>3, <1>4, <1>5 DEF WInv

\* OneAtATime is Waited, of the writes of this launch.
LEMMA OneAtATimeIsWaited ==
  ASSUME TypeOK, NEW c, OneAtATime(c)
  PROVE  Waited(puts, c)
<1>1. DOMAIN puts = 1..Len(puts)
  BY DEF TypeOK, ClientTypeOK
<1> SUFFICES ASSUME NEW i \in 1..Len(puts), NEW m \in 1..Len(puts),
                    IsAdd(puts, i, c), IsAdd(puts, m, c), i < m
             PROVE  \E j \in i + 1..m - 1 :
                      /\ puts[j].node.kind = "list"
                      /\ puts[j].node.list[Len(puts[j].node.list)] = puts[i].key
  BY DEF Waited
<1>2. i \in AddsOf(c) /\ m \in AddsOf(c)
  BY <1>1 DEF AddsOf, IsAdd
<1>3. PICK j \in i + 1..m - 1 : ListedBy(j, puts[i].key)
  BY <1>2 DEF OneAtATime
<1> QED
  BY <1>3 DEF ListedBy

\* The invariant implies the property.
LEMMA WaitedFollows ==
  ASSUME WInv PROVE WaitedAddsKept
<1> SUFFICES ASSUME NEW c \in Keys, OneAtATime(c), NEW i \in AddsOf(c)
             PROVE  KeptIn(c, puts[i].key)
  BY DEF WaitedAddsKept
<1>0. /\ IInv /\ TypeOK /\ ClientTypeOK /\ NotUndone(server, puts, applied)
      /\ AllHere(puts, current.uid, listens, events)
  BY DEF WInv, IInv, TypeOK
<1>1. DOMAIN puts = 1..Len(puts) /\ Len(puts) \in Nat
      /\ listens \in [Keys -> Seq(Read)] /\ events \in Seq(Event)
  BY <1>0 DEF ClientTypeOK
<1>2. i \in 1..Len(puts) /\ IsAdd(puts, i, c)
  BY <1>1 DEF AddsOf, IsAdd
<1>3. MadeHere(puts, c)
  BY <1>0, <1>2 DEF AllHere, IsAdd
<1>4. PICK t \in 1..Len(puts) : IsLast(puts, c, t)
  BY <1>1, <1>3, LastExists
<1>5. Waited(puts, c)
  BY <1>0, OneAtATimeIsWaited
<1>6. puts[i].key \in Elements(puts[t].node.list) \cup Pending(listens, events)
  BY <1>2, <1>4, <1>5 DEF WInv, Kept, KeptAt
<1>7. View(c).list = puts[t].node.list
  BY <1>0, <1>3, <1>4, ViewIsLast
<1> DEFINE a == puts[i].key
<1> HIDE DEF a
<1>8. a \in Pending(listens, events) => InFlight(a)
  <2>1. ASSUME NEW j \in 1..Len(events), events[j].arg = a PROVE InFlight(a)
    <3>1. j \in DOMAIN events /\ events[j].purpose = "append"
      BY <1>0, <1>1 DEF AllHere, ReadHere
    <3> QED
      BY <2>1, <3>1 DEF InFlight
  <2>2. ASSUME NEW k \in Keys, NEW j \in 1..Len(listens[k]), listens[k][j].arg = a
        PROVE  InFlight(a)
    <3>1. listens[k] \in Seq(Read) /\ listens[k][j].purpose = "append"
      BY <1>0, <1>1 DEF AllHere, ReadHere
    <3>2. j \in DOMAIN listens[k]
      BY <3>1
    <3> QED
      BY <2>2, <3>1, <3>2 DEF InFlight
  <2> QED
    BY <2>1, <2>2 DEF Pending, AppendsIn
<1> QED
  BY <1>6, <1>7, <1>8 DEF KeptIn, a

\* When alterations are added to a contract one at a time none is lost, for
\* any number of contracts, alterations and lost connections.
THEOREM WaitedAddsAreKept == Spec => []WaitedAddsKept
<1>1. Init => WInv
  <2> SUFFICES ASSUME Init PROVE WInv
    OBVIOUS
  <2>1. /\ server = [k \in Keys |-> Absent] /\ puts = <<>> /\ events = <<>> /\ applied = 0
        /\ listens = [k \in Keys |-> <<>>] /\ current.uid = NoUID
    BY DEF Init, ClientInit, OriginalValues
  <2>2. Len(puts) = 0 /\ Len(events) = 0 /\ \A k \in Keys : Len(listens[k]) = 0
    BY <2>1
  <2>3. AllHere(puts, current.uid, listens, events) /\ Kept(puts, listens, events)
    BY <2>1, <2>2 DEF AllHere, Kept
  <2>4. NotUndone(server, puts, applied)
    BY <2>1 DEF NotUndone
  <2>5. IInv /\ LInv
    BY InitInvariant, InitLists
  <2> QED
    BY <2>3, <2>4, <2>5 DEF WInv
<1>2. WInv /\ [Next]_vars => WInv'
  BY WaitedKept
<1>3. WInv => WaitedAddsKept
  BY WaitedFollows
<1> QED
  BY <1>1, <1>2, <1>3, PTL DEF Spec
=============================================================================
