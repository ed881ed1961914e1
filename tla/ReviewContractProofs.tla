------------------------ MODULE ReviewContractProofs ------------------------
(***************************************************************************)
(* Proofs about ReviewContract, the review screen composed with the flow,  *)
(* for any number of push ids, costs and rounds of loading: types, that    *)
(* the rows are alterations of the contract under review, that edits leave *)
(* every stored reference resolved, and that a review which has read all   *)
(* it asked for shows its contract.                                        *)
(***************************************************************************)
EXTENDS ReviewContract, ContractFlowProofs

-----------------------------------------------------------------------------
(* Picked, which is a recursive function on the positions of a sequence.   *)

\* Induction on a set of naturals, from the well-founded order on Nat.
LEMMA SetInduction ==
  ASSUME NEW S, 0 \in S, \A n \in Nat : n \in S => n + 1 \in S
  PROVE  Nat \subseteq S
<1> DEFINE T == Nat \ S
           R == OpToRel(<, Nat)
<1>1. SUFFICES ASSUME T # {} PROVE FALSE
  OBVIOUS
<1>2. PICK x \in T : \A y \in T : ~ (<<y, x>> \in R)
  <2>1. IsWellFoundedOn(R, Nat)
    BY NatLessThanWellFounded
  <2>2. T \subseteq Nat
    OBVIOUS
  <2> HIDE DEF T, R
  <2> QED
    BY <2>1, <2>2, <1>1, WFMin, Zenon
<1>3. \A y \in Nat : y < x => y \in S
  BY <1>2 DEF OpToRel
<1>4. x \in Nat /\ x # 0 /\ x \notin S
  OBVIOUS
<1>5. x - 1 \in Nat /\ x - 1 < x /\ x - 1 + 1 = x
  BY <1>4
<1> QED
  BY <1>3, <1>4, <1>5

\* f picks from the first m elements of q.
Picks(f, q, S, m) ==
  f = [i \in 0..m |->
         IF i = 0 THEN <<>>
         ELSE IF i \in S THEN Append(f[i - 1], q[i]) ELSE f[i - 1]]

\* What picks from m elements can be made to pick from one more.
LEMMA PicksNext ==
  ASSUME NEW q, NEW S, NEW m \in Nat, NEW f, Picks(f, q, S, m)
  PROVE  \E g : Picks(g, q, S, m + 1)
<1> DEFINE k == m + 1
           x == IF k \in S THEN Append(f[m], q[k]) ELSE f[m]
           g == [i \in 0..k |-> IF i = k THEN x ELSE f[i]]
           h == [i \in 0..k |->
                   IF i = 0 THEN <<>>
                   ELSE IF i \in S THEN Append(g[i - 1], q[i]) ELSE g[i - 1]]
<1>1. ASSUME NEW i \in 0..k PROVE g[i] = h[i]
  <2>1. CASE i = k
    <3>1. k - 1 = m /\ m \in 0..k /\ m # k /\ k # 0
      OBVIOUS
    <3>2. g[m] = f[m]
      BY <3>1
    <3>3. h[k] = IF k \in S THEN Append(g[m], q[k]) ELSE g[m]
      BY <3>1
    <3>4. g[k] = x
      OBVIOUS
    <3> HIDE DEF g, h
    <3> QED
      BY <2>1, <3>2, <3>3, <3>4
  <2>2. CASE i = 0
    <3>1. 0 \in 0..m /\ 0 # k /\ 0 \in 0..k
      OBVIOUS
    <3>2. f[0] = <<>>
      BY <3>1 DEF Picks
    <3>3. g[0] = f[0]
      BY <3>1
    <3>4. h[0] = <<>>
      BY <3>1
    <3> HIDE DEF g, h
    <3> QED
      BY <2>2, <3>2, <3>3, <3>4
  <2>3. CASE i # k /\ i # 0
    <3>1. i \in 0..m /\ i - 1 \in 0..k /\ i - 1 # k
      BY <2>3
    <3>2. f[i] = IF i \in S THEN Append(f[i - 1], q[i]) ELSE f[i - 1]
      BY <2>3, <3>1 DEF Picks
    <3>3. g[i] = f[i] /\ g[i - 1] = f[i - 1]
      BY <2>3, <3>1
    <3>4. h[i] = IF i \in S THEN Append(g[i - 1], q[i]) ELSE g[i - 1]
      BY <2>3
    <3> HIDE DEF g, h
    <3> QED
      BY <3>2, <3>3, <3>4
  <2> QED
    BY <2>1, <2>2, <2>3
<1>2. g = h
  BY <1>1
<1>3. Picks(g, q, S, k)
  BY <1>2 DEF Picks
<1> HIDE DEF g
<1> QED
  BY <1>3 DEF k

\* Picked is the last value of such a function.
LEMMA PickedPicks ==
  ASSUME NEW q, NEW S, Len(q) \in Nat
  PROVE  \E f : Picks(f, q, S, Len(q)) /\ Picked(q, S) = f[Len(q)]
<1> DEFINE M == {m \in Nat : \E f : Picks(f, q, S, m)}
<1>1. 0 \in M
  <2> DEFINE z == [i \in 0..0 |-> <<>>]
  <2>1. ASSUME NEW i \in 0..0 PROVE i = 0
    OBVIOUS
  <2>2. z = [i \in 0..0 |->
               IF i = 0 THEN <<>>
               ELSE IF i \in S THEN Append(z[i - 1], q[i]) ELSE z[i - 1]]
    BY <2>1
  <2>3. Picks(z, q, S, 0)
    BY <2>2 DEF Picks
  <2> HIDE DEF z
  <2> QED
    BY <2>3
<1>2. \A m \in Nat : m \in M => m + 1 \in M
  BY PicksNext
<1>3. Len(q) \in M
  <2> HIDE DEF M
  <2> QED
    BY <1>1, <1>2, SetInduction
<1> DEFINE it == CHOOSE f : Picks(f, q, S, Len(q))
<1>4. Picks(it, q, S, Len(q))
  BY <1>3
<1>5. Picked(q, S) = it[Len(q)]
  BY DEF Picked, Picks
<1> HIDE DEF it
<1> QED
  BY <1>4, <1>5

\* What is picked are elements of the sequence at the given positions.
LEMMA PickedElements ==
  ASSUME NEW T, NEW q \in Seq(T), NEW S
  PROVE  /\ Picked(q, S) \in Seq(T)
         /\ \A i \in 1..Len(Picked(q, S)) :
              \E j \in 1..Len(q) : j \in S /\ Picked(q, S)[i] = q[j]
<1> DEFINE n == Len(q)
<1>1. n \in Nat /\ \A i \in 1..n : q[i] \in T
  BY LenProperties, ElementOfSeq
<1>2. PICK f : Picks(f, q, S, n) /\ Picked(q, S) = f[n]
  BY <1>1, PickedPicks
<1> DEFINE From(s) == /\ s \in Seq(T)
                      /\ \A i \in 1..Len(s) : \E j \in 1..n : j \in S /\ s[i] = q[j]
           M == {m \in Nat : m <= n => From(f[m])}
<1>3. 0 \in M
  <2>1. f[0] = <<>>
    BY <1>1, <1>2 DEF Picks
  <2>2. From(<<>>)
    BY EmptySeq
  <2> QED
    BY <2>1, <2>2
<1>4. ASSUME NEW m \in Nat, m \in M PROVE m + 1 \in M
  <2> SUFFICES ASSUME m + 1 <= n PROVE From(f[m + 1])
    OBVIOUS
  <2>1. m <= n /\ m + 1 \in 0..n /\ m + 1 # 0 /\ (m + 1) - 1 = m /\ m + 1 \in 1..n
    BY <1>1
  <2>2. f[m + 1] = IF m + 1 \in S THEN Append(f[m], q[m + 1]) ELSE f[m]
    BY <1>2, <2>1 DEF Picks
  <2>3. From(f[m])
    BY <1>4, <2>1
  <2>4. CASE m + 1 \in S
    <3> DEFINE s == f[m]
               x == q[m + 1]
    <3>1. s \in Seq(T) /\ x \in T
      BY <1>1, <2>1, <2>3
    <3> HIDE DEF s, x, n
    <3>2. /\ Append(s, x) \in Seq(T) /\ Len(s) \in Nat
          /\ Len(Append(s, x)) = Len(s) + 1
          /\ \A i \in 1..Len(s) : Append(s, x)[i] = s[i]
          /\ Append(s, x)[Len(s) + 1] = x
      BY <3>1, AppendProperties, LenProperties
    <3>3. ASSUME NEW i \in 1..Len(Append(s, x))
          PROVE  \E j \in 1..n : j \in S /\ Append(s, x)[i] = q[j]
      <4>1. CASE i = Len(s) + 1
        BY <2>1, <2>4, <3>2, <4>1 DEF x
      <4>2. CASE i # Len(s) + 1
        <5>1. i \in 1..Len(s)
          BY <3>2, <4>2
        <5>2. \E j \in 1..n : j \in S /\ s[i] = q[j]
          BY <2>3, <5>1 DEF s
        <5> QED
          BY <3>2, <5>1, <5>2
      <4> QED
        BY <4>1, <4>2
    <3>4. From(Append(s, x))
      BY <3>2, <3>3
    <3> QED
      BY <2>2, <2>4, <3>4 DEF s, x
  <2>5. CASE m + 1 \notin S
    BY <2>2, <2>3, <2>5
  <2> QED
    BY <2>4, <2>5
<1>5. n \in M
  <2> HIDE DEF M, n
  <2> QED
    BY <1>1, <1>3, <1>4, SetInduction
<1> QED
  BY <1>1, <1>2, <1>5

\* g places the elements of s, which are those of the first m of q at the
\* positions S, each once.
Places(g, s, q, S, m) ==
  /\ g \in [1..Len(s) -> 1..m]
  /\ \A a \in 1..Len(s) : g[a] \in S /\ s[a] = q[g[a]]
  /\ \A a, b \in 1..Len(s) : g[a] = g[b] => a = b
  /\ \A j \in 1..m : j \in S => \E a \in 1..Len(s) : g[a] = j

\* Picking takes each of the positions once.
LEMMA PickedPositions ==
  ASSUME NEW T, NEW q \in Seq(T), NEW S
  PROVE  \E g : Places(g, Picked(q, S), q, S, Len(q))
<1> DEFINE n == Len(q)
<1>1. n \in Nat /\ \A i \in 1..n : q[i] \in T
  BY LenProperties, ElementOfSeq
<1>2. PICK f : Picks(f, q, S, n) /\ Picked(q, S) = f[n]
  BY <1>1, PickedPicks
<1> DEFINE From(s, m) == s \in Seq(T) /\ \E g : Places(g, s, q, S, m)
           M == {m \in Nat : m <= n => From(f[m], m)}
<1>3. 0 \in M
  <2>1. f[0] = <<>>
    BY <1>1, <1>2 DEF Picks
  <2> DEFINE z == [a \in 1..0 |-> a]
  <2>2. Places(z, <<>>, q, S, 0)
    <3>1. Len(<<>>) = 0 /\ \A a \in 1..0 : FALSE
      BY EmptySeq
    <3>2. z \in [1..0 -> 1..0]
      OBVIOUS
    <3> HIDE DEF z
    <3> QED
      BY <3>1, <3>2 DEF Places
  <2> HIDE DEF z
  <2>3. From(f[0], 0)
    BY <2>1, <2>2, EmptySeq
  <2> QED
    BY <2>3
<1>4. ASSUME NEW m \in Nat, m \in M PROVE m + 1 \in M
  <2> SUFFICES ASSUME m + 1 <= n PROVE From(f[m + 1], m + 1)
    OBVIOUS
  <2>1. m <= n /\ m + 1 \in 0..n /\ m + 1 # 0 /\ (m + 1) - 1 = m /\ m + 1 \in 1..n
    BY <1>1
  <2>2. f[m + 1] = IF m + 1 \in S THEN Append(f[m], q[m + 1]) ELSE f[m]
    BY <1>2, <2>1 DEF Picks
  <2>3. From(f[m], m)
    BY <1>4, <2>1
  <2>4. PICK g : Places(g, f[m], q, S, m)
    BY <2>3
  <2>5. CASE m + 1 \in S
    <3> DEFINE s == f[m]
               x == q[m + 1]
               t == Append(s, x)
    <3>1. s \in Seq(T) /\ x \in T
      BY <1>1, <2>1, <2>3
    <3>2. Places(g, s, q, S, m)
      BY <2>4
    <3>3. f[m + 1] = t
      BY <2>2, <2>5
    <3>4. x = q[m + 1]
      OBVIOUS
    <3> HIDE DEF s, x, n
    <3>5. /\ t \in Seq(T) /\ Len(s) \in Nat
          /\ Len(t) = Len(s) + 1
          /\ \A i \in 1..Len(s) : t[i] = s[i]
          /\ t[Len(s) + 1] = x
      BY <3>1, AppendProperties, LenProperties
    <3> HIDE DEF t
    <3> DEFINE h == [a \in 1..Len(t) |-> IF a = Len(s) + 1 THEN m + 1 ELSE g[a]]
    <3>6. /\ \A a \in 1..Len(s) : h[a] = g[a] /\ g[a] \in 1..m /\ a # Len(s) + 1
          /\ h[Len(s) + 1] = m + 1
          /\ \A a \in 1..Len(t) : a \in 1..Len(s) \/ a = Len(s) + 1
          /\ \A a \in 1..Len(s) : a \in 1..Len(t)
          /\ Len(s) + 1 \in 1..Len(t)
      BY <3>2, <3>5 DEF Places
    <3>7. h \in [1..Len(t) -> 1..m + 1]
      <4>1. \A a \in 1..Len(t) : (IF a = Len(s) + 1 THEN m + 1 ELSE g[a]) \in 1..m + 1
        <5> SUFFICES ASSUME NEW a \in 1..Len(t), a # Len(s) + 1
                     PROVE  g[a] \in 1..m + 1
          OBVIOUS
        <5>1. g[a] \in 1..m
          BY <3>6
        <5> QED
          BY <5>1
      <4> HIDE DEF t
      <4> QED
        BY <4>1, Zenon
    <3> HIDE DEF h
    <3>8. \A a \in 1..Len(t) : h[a] \in S /\ t[a] = q[h[a]]
      BY <2>5, <3>2, <3>4, <3>5, <3>6 DEF Places
    <3>9. \A a, b \in 1..Len(t) : h[a] = h[b] => a = b
      <4>1. \A a \in 1..Len(s) : h[a] # m + 1
        BY <3>6
      <4> QED
        BY <3>2, <3>6, <4>1 DEF Places
    <3>10. \A j \in 1..m + 1 : j \in S => \E a \in 1..Len(t) : h[a] = j
      <4> SUFFICES ASSUME NEW j \in 1..m + 1, j \in S
                   PROVE  \E a \in 1..Len(t) : h[a] = j
        OBVIOUS
      <4>1. CASE j = m + 1
        BY <3>6, <4>1
      <4>2. CASE j # m + 1
        <5>1. j \in 1..m
          BY <4>2
        <5>2. PICK a \in 1..Len(s) : g[a] = j
          BY <3>2, <5>1 DEF Places
        <5> QED
          BY <3>6, <5>2
      <4> QED
        BY <4>1, <4>2
    <3>11. Places(h, t, q, S, m + 1)
      BY <3>7, <3>8, <3>9, <3>10 DEF Places
    <3> QED
      BY <3>3, <3>5, <3>11
  <2>6. CASE m + 1 \notin S
    <3>1. \A j \in 1..m + 1 : j \in S => j \in 1..m
      BY <2>6
    <3>2. 1..m \subseteq 1..m + 1
      OBVIOUS
    <3>3. f[m + 1] = f[m]
      BY <2>2, <2>6
    <3> DEFINE s == f[m]
    <3>4. Places(g, s, q, S, m)
      BY <2>4
    <3> HIDE DEF s
    <3>5. g \in [1..Len(s) -> 1..m + 1]
      BY <3>2, <3>4 DEF Places
    <3>6. Places(g, s, q, S, m + 1)
      BY <3>1, <3>4, <3>5 DEF Places
    <3> QED
      BY <2>3, <3>3, <3>6 DEF s
  <2> QED
    BY <2>5, <2>6
<1>5. n \in M
  <2> HIDE DEF M, n
  <2> QED
    BY <1>1, <1>3, <1>4, SetInduction
<1> QED
  BY <1>1, <1>2, <1>5

-----------------------------------------------------------------------------
(***************************************************************************)
(* The invariant of the composed system. The screen only ever holds uids   *)
(* of alterations of the contract under review, c: every read it has open  *)
(* is of c or of an alteration of c, and so is every row.                  *)
(***************************************************************************)

\* A read of the review screen is of the contract or of one of its alterations.
OfReview(sv, ps, c, k, r) ==
  /\ r.purpose = "uids" => k = c
  /\ r.purpose = "struct" => AlterationOf(sv, ps, k, c, Len(ps) + 1)

\* A struct it was answered with is one of the contract, with a cost.
FitsReview(c, e) ==
  (e.purpose = "struct" /\ e.node.kind = "alteration") =>
    e.node.ref = c /\ e.node.cost \in Costs

\* What holds of a read r at k that waits for the server.
ReadOK(sv, ps, c, k, r) ==
  /\ r \in Read
  /\ AppendKnown(sv, ps, k, r)
  /\ OfReview(sv, ps, c, k, r)

\* What holds of an answer on the main queue.
EventOK(sv, ps, c, e) ==
  /\ e \in Event
  /\ AppendKnown(sv, ps, e.key, e)
  /\ ArrayKnown(sv, ps, e.key, e.node)
  /\ OfReview(sv, ps, c, e.key, e)
  /\ FitsReview(c, e)

\* All open reads, and all events, are so.
QueuesOK(sv, ps, ls, es, c) ==
  /\ ls \in [Keys -> Seq(Read)] /\ es \in Seq(Event)
  /\ \A k \in Keys : \A i \in 1..Len(ls[k]) : ReadOK(sv, ps, c, k, ls[k][i])
  /\ \A i \in 1..Len(es) : EventOK(sv, ps, c, es[i])

\* Nothing of a review is open.
OnlyAppends(ls, es) ==
  /\ \A k \in Keys : \A i \in 1..Len(ls[k]) : ls[k][i].purpose = "append"
  /\ \A i \in 1..Len(es) : es[i].purpose = "append"

\* An alteration has a cost the user gave it.
CostGiven(n) == n.kind = "alteration" => n.cost \in Costs

\* So for what is stored and what was written.
CostsGiven(sv, ps) ==
  /\ \A k \in Keys : CostGiven(sv[k])
  /\ \A i \in 1..Len(ps) : CostGiven(ps[i].node)

\* A row is an alteration of the contract, stored or written.
RowKnown(sv, ps, c, r) ==
  r.contractUID = c /\ AlterationOf(sv, ps, r.uid, c, Len(ps) + 1)

\* So for all rows.
RowsKnown(sv, ps, c, rs) == \A i \in 1..Len(rs) : RowKnown(sv, ps, c, rs[i])

\* The inductive invariant.
RInv ==
  /\ IInv
  /\ ReviewTypeOK
  /\ CostsGiven(server, puts)
  /\ QueuesOK(server, puts, listens, events, current.uid)
  /\ screen \in {"home", "alert"} => OnlyAppends(listens, events)
  /\ screen \in {"review", "edit"} =>
       current.uid # NoUID /\ RowsKnown(server, puts, current.uid, rows)
  /\ screen = "edit" => RowKnown(server, puts, current.uid, editing)

-----------------------------------------------------------------------------
(* What is known stays known.                                              *)

\* Open reads and events stay good while objects are only added or applied.
LEMMA QueuesCarried ==
  ASSUME NEW sv, NEW ps, NEW sv2, NEW ps2, NEW ls, NEW es, NEW c,
         Carries(sv, ps, Len(ps) + 1, sv2, ps2, Len(ps2) + 1),
         QueuesOK(sv, ps, ls, es, c)
  PROVE  QueuesOK(sv2, ps2, ls, es, c)
<1>1. \A k : Known(sv, ps, k, "contract", Len(ps) + 1)
               => Known(sv2, ps2, k, "contract", Len(ps2) + 1)
  BY KnownCarried
<1>2. \A a, k : AlterationOf(sv, ps, a, k, Len(ps) + 1)
                  => AlterationOf(sv2, ps2, a, k, Len(ps2) + 1)
  BY AlterationCarried
<1>3. \A l, k : ListKnown(sv, ps, l, k, Len(ps) + 1)
                  => ListKnown(sv2, ps2, l, k, Len(ps2) + 1)
  BY ListCarried
<1>4. \A k, r : ReadOK(sv, ps, c, k, r) => ReadOK(sv2, ps2, c, k, r)
  BY <1>1, <1>2 DEF ReadOK, AppendKnown, OfReview
<1>5. \A e : EventOK(sv, ps, c, e) => EventOK(sv2, ps2, c, e)
  BY <1>1, <1>2, <1>3 DEF EventOK, AppendKnown, ArrayKnown, OfReview
<1> QED
  BY <1>4, <1>5 DEF QueuesOK

\* So do rows.
LEMMA RowsCarried ==
  ASSUME NEW sv, NEW ps, NEW sv2, NEW ps2, NEW c,
         Carries(sv, ps, Len(ps) + 1, sv2, ps2, Len(ps2) + 1)
  PROVE  /\ \A r : RowKnown(sv, ps, c, r) => RowKnown(sv2, ps2, c, r)
         /\ \A rs : RowsKnown(sv, ps, c, rs) => RowsKnown(sv2, ps2, c, rs)
<1>1. \A a : AlterationOf(sv, ps, a, c, Len(ps) + 1)
               => AlterationOf(sv2, ps2, a, c, Len(ps2) + 1)
  BY AlterationCarried
<1> QED
  BY <1>1 DEF RowKnown, RowsKnown

\* Applying a write keeps everything the server had an identity for.
LEMMA ApplyCarries ==
  ASSUME IInv, ServerApply
  PROVE  Carries(server, puts, Len(puts) + 1, server', puts', Len(puts') + 1)
<1>1. /\ puts \in Seq(Put) /\ Len(puts) \in Nat /\ puts' = puts
      /\ server \in [Keys -> Node] /\ applied + 1 \in 1..Len(puts)
  BY LenProperties DEF IInv, TypeOK, ClientTypeOK, ServerApply
<1> DEFINE p == puts[applied + 1]
           o == Overwrite(server[p.key], p.node)
<1>2. p.key \in Keys /\ p.node \in Node /\ server[p.key] \in Node
  <2>1. p \in Put
    BY <1>1, ElementOfSeq
  <2> QED
    BY <1>1, <2>1 DEF Put
<1>3. server' = [server EXCEPT ![p.key] = o]
  BY DEF ServerApply
<1>4. server[p.key].kind # "absent" => SameIdentity(o, server[p.key])
  <2>1. CASE p.node.kind = "list"
    <3>1. server[p.key].kind # "absent" => server[p.key].kind = "contract"
      <4>1. Known(server, puts, p.key, "contract", applied + 1)
        BY <1>1, <2>1 DEF IInv, PutsClosed, NodeKnown
      <4>2. CASE server[p.key].kind = "contract"
        BY <4>2
      <4>3. CASE \E j \in 1..Len(puts) : puts[j].key = p.key /\ puts[j].node.kind = "contract"
        BY <4>3 DEF IInv, OneObjectPerKey, SameIdentity
      <4> QED
        BY <1>1, <4>1, <4>2, <4>3 DEF Known
    <3> QED
      BY <1>2, <2>1, <3>1 DEF Overwrite, SameIdentity, Node
  <2>2. CASE p.node.kind # "list"
    <3>1. o = p.node
      BY <2>2 DEF Overwrite
    <3>2. server[p.key].kind # "absent" => SameIdentity(server[p.key], p.node)
      BY <1>1, <2>2 DEF IInv, OneObjectPerKey
    <3> QED
      BY <3>1, <3>2 DEF SameIdentity
  <2> QED
    BY <2>1, <2>2
<1> HIDE DEF p, o
<1>5. \A k \in Keys : server[k].kind # "absent" => SameIdentity(server'[k], server[k])
  BY <1>1, <1>2, <1>3, <1>4 DEF SameIdentity
<1> QED
  BY <1>1, <1>5 DEF Carries

\* The value read for an alteration of c is an alteration of c, with a cost.
LEMMA StructView ==
  ASSUME IInv, CostsGiven(server, puts), NEW k \in Keys, NEW c,
         AlterationOf(server, puts, k, c, Len(puts) + 1),
         View(k).kind = "alteration"
  PROVE  View(k).ref = c /\ View(k).cost \in Costs
<1>1. puts \in Seq(Put) /\ Len(puts) \in Nat /\ server \in [Keys -> Node]
  BY LenProperties DEF IInv, TypeOK, ClientTypeOK
<1>2. WritesTo(k) \in SUBSET (1..Len(puts)) /\ Shadows(k) \in SUBSET (1..Len(puts))
  BY <1>1, LenProperties DEF WritesTo, Shadows
<1>3. ASSUME server[k].kind = "alteration"
      PROVE  server[k].ref = c /\ server[k].cost \in Costs
  <2>1. CASE server[k].ref = c
    BY <1>3, <2>1 DEF CostsGiven, CostGiven
  <2>2. ASSUME NEW j \in 1..Len(puts), puts[j].key = k,
               puts[j].node.kind = "alteration", puts[j].node.ref = c
        PROVE  server[k].ref = c
    BY <1>3, <2>2 DEF IInv, OneObjectPerKey, SameIdentity
  <2> QED
    BY <1>1, <1>3, <2>1, <2>2 DEF AlterationOf, CostsGiven, CostGiven
<1>4. ASSUME NEW i \in 1..Len(puts), puts[i].key = k, puts[i].node.kind = "alteration"
      PROVE  puts[i].node.ref = c /\ puts[i].node.cost \in Costs
  <2>1. puts[i].node.cost \in Costs
    BY <1>4 DEF CostsGiven, CostGiven
  <2>2. CASE server[k].kind = "alteration" /\ server[k].ref = c
    BY <1>4, <2>1, <2>2 DEF IInv, OneObjectPerKey, SameIdentity
  <2>3. ASSUME NEW j \in 1..Len(puts), puts[j].key = k,
               puts[j].node.kind = "alteration", puts[j].node.ref = c
        PROVE  puts[i].node.ref = c
    BY <1>4, <2>3 DEF IInv, OneObjectPerKey, SameIdentity
  <2> QED
    BY <1>1, <2>1, <2>2, <2>3 DEF AlterationOf
<1>5. CASE WritesTo(k) = {}
  <2>1. View(k) = server[k]
    BY <1>5 DEF View, Shadows
  <2> QED
    BY <1>3, <2>1
<1>6. CASE WritesTo(k) # {}
  <2> DEFINE w == Latest(WritesTo(k))
             base == IF Shadows(k) = {} THEN server[k]
                                        ELSE puts[Latest(Shadows(k))].node
  <2>1. w \in 1..Len(puts) /\ puts[w].key = k
    <3>1. w \in WritesTo(k)
      BY <1>1, <1>2, <1>6, LatestExists
    <3> QED
      BY <1>2, <3>1 DEF WritesTo
  <2>2. View(k) = Overwrite(base, puts[w].node)
    BY <1>6 DEF View
  <2>3. puts[w].node \in Node /\ base \in Node
    <3>1. \A i \in 1..Len(puts) : puts[i] \in Put
      BY <1>1, ElementOfSeq
    <3>2. Shadows(k) # {} => Latest(Shadows(k)) \in 1..Len(puts)
      BY <1>1, <1>2, LatestExists
    <3> QED
      BY <1>1, <2>1, <3>1, <3>2 DEF Put
  <2> HIDE DEF w, base
  <2>4. View(k) = puts[w].node
    <3>1. CASE puts[w].node.kind = "list" /\ base.kind = "contract"
      <4>1. View(k).kind = "contract"
        BY <2>2, <2>3, <3>1 DEF Overwrite, Node
      <4> QED
        BY <4>1
    <3>2. CASE ~(puts[w].node.kind = "list" /\ base.kind = "contract")
      BY <2>2, <3>2 DEF Overwrite
    <3> QED
      BY <3>1, <3>2
  <2> QED
    BY <1>4, <2>1, <2>4
<1> QED
  BY <1>5, <1>6

-----------------------------------------------------------------------------
(* The queues of the review.                                               *)

\* With no review open, the queues are good for whichever contract.
LEMMA HomeQueues ==
  ASSUME NEW sv, NEW ps, NEW ls \in [Keys -> Seq(Read)], NEW es \in Seq(Event),
         NEW c, ReadsClosed(sv, ps, ls), EventsClosed(sv, ps, es),
         OnlyAppends(ls, es)
  PROVE  QueuesOK(sv, ps, ls, es, c)
<1>1. ASSUME NEW k \in Keys, NEW i \in 1..Len(ls[k])
      PROVE  ReadOK(sv, ps, c, k, ls[k][i])
  <2>1. ls[k][i] \in Read
    BY ElementOfSeq
  <2>2. AppendKnown(sv, ps, k, ls[k][i])
    BY DEF ReadsClosed
  <2>3. ls[k][i].purpose = "append"
    BY DEF OnlyAppends
  <2> QED
    BY <2>1, <2>2, <2>3 DEF ReadOK, OfReview
<1>2. ASSUME NEW i \in 1..Len(es)
      PROVE  EventOK(sv, ps, c, es[i])
  <2>1. es[i] \in Event
    BY ElementOfSeq
  <2>2. /\ AppendKnown(sv, ps, es[i].key, es[i])
        /\ ArrayKnown(sv, ps, es[i].key, es[i].node)
    BY DEF EventsClosed
  <2>3. es[i].purpose = "append"
    BY DEF OnlyAppends
  <2> QED
    BY <2>1, <2>2, <2>3 DEF EventOK, OfReview, FitsReview
<1> QED
  BY <1>1, <1>2 DEF QueuesOK

\* A step that only changes the queues keeps the invariant of the flow if the
\* queues stay good.
LEMMA QueuesKeepFlow ==
  ASSUME IInv, NEW c, QueuesOK(server, puts, listens', events', c),
         UNCHANGED <<server, puts, applied, acked, released, connected, nextKey,
                     current>>
  PROVE  IInv'
<1>1. TypeOK'
  BY DEF IInv, TypeOK, ClientTypeOK, QueuesOK
<1>2. ReadsClosed(server, puts, listens')
  BY DEF QueuesOK, ReadOK, ReadsClosed
<1>3. EventsClosed(server, puts, events')
  BY DEF QueuesOK, EventOK, EventsClosed
<1> QED
  BY <1>1, <1>2, <1>3 DEF IInv

\* A good read is answered by a good event.
LEMMA AnswerOK ==
  ASSUME IInv, CostsGiven(server, puts), NEW c, NEW k \in Keys, NEW r,
         ReadOK(server, puts, c, k, r)
  PROVE  EventOK(server, puts, c, EventOf(k, r))
<1> DEFINE e == EventOf(k, r)
<1>1. /\ e.key = k /\ e.purpose = r.purpose /\ e.arg = r.arg /\ e.node = View(k)
  BY DEF EventOf
<1>2. e \in Event
  BY EventOfType DEF ReadOK, IInv, TypeOK
<1> HIDE DEF e
<1>3. AppendKnown(server, puts, e.key, e) /\ OfReview(server, puts, c, e.key, e)
  BY <1>1 DEF ReadOK, AppendKnown, OfReview
<1>4. ArrayKnown(server, puts, e.key, e.node)
  BY <1>1, ViewClosed
<1>5. FitsReview(c, e)
  BY <1>1, StructView DEF ReadOK, OfReview, FitsReview
<1> QED
  BY <1>2, <1>3, <1>4, <1>5 DEF EventOK, e

\* More good events make good queues.
LEMMA MoreEvents ==
  ASSUME NEW sv, NEW ps, NEW ls, NEW es, NEW c, QueuesOK(sv, ps, ls, es, c),
         NEW new \in Seq(Event),
         \A i \in 1..Len(new) : EventOK(sv, ps, c, new[i])
  PROVE  QueuesOK(sv, ps, ls, es \o new, c)
<1>1. es \in Seq(Event)
  BY DEF QueuesOK
<1>2. /\ Len(es) \in Nat /\ Len(new) \in Nat
      /\ Len(es \o new) = Len(es) + Len(new)
      /\ \A i \in 1..Len(es) : (es \o new)[i] = es[i]
      /\ \A i \in 1..Len(new) : (es \o new)[Len(es) + i] = new[i]
  BY <1>1, ConcatParts
<1>3. es \o new \in Seq(Event)
  BY <1>1, ConcatProperties
<1> DEFINE all == es \o new
<1> HIDE DEF all
<1>4. ASSUME NEW i \in 1..Len(all) PROVE EventOK(sv, ps, c, all[i])
  <2>1. CASE i <= Len(es)
    <3>1. i \in 1..Len(es) /\ all[i] = es[i]
      BY <1>2, <2>1 DEF all
    <3> QED
      BY <3>1 DEF QueuesOK
  <2>2. CASE i > Len(es)
    <3>1. i - Len(es) \in 1..Len(new) /\ i = Len(es) + (i - Len(es))
      BY <1>2, <2>2 DEF all
    <3>2. all[i] = new[i - Len(es)]
      BY <1>2, <3>1 DEF all
    <3> QED
      BY <3>1, <3>2
  <2> QED
    BY <1>2, <2>1, <2>2 DEF all
<1>5. QueuesOK(sv, ps, ls, all, c)
  BY <1>3, <1>4 DEF QueuesOK, all
<1> QED
  BY <1>5 DEF all

\* One more good read in a queue that waits.
LEMMA MoreReads ==
  ASSUME NEW sv, NEW ps, NEW c, NEW k, NEW q \in Seq(Read), NEW r,
         ReadOK(sv, ps, c, k, r),
         \A i \in 1..Len(q) : ReadOK(sv, ps, c, k, q[i])
  PROVE  /\ Append(q, r) \in Seq(Read)
         /\ \A i \in 1..Len(Append(q, r)) : ReadOK(sv, ps, c, k, Append(q, r)[i])
<1>1. r \in Read
  BY DEF ReadOK
<1>2. /\ Append(q, r) \in Seq(Read) /\ Len(q) \in Nat
      /\ Len(Append(q, r)) = Len(q) + 1
      /\ \A i \in 1..Len(q) : Append(q, r)[i] = q[i]
      /\ Append(q, r)[Len(q) + 1] = r
  BY <1>1, AppendProperties, LenProperties
<1> DEFINE all == Append(q, r)
<1> HIDE DEF all
<1>3. ASSUME NEW i \in 1..Len(all) PROVE ReadOK(sv, ps, c, k, all[i])
  <2>1. CASE i = Len(q) + 1
    BY <1>2, <2>1 DEF all
  <2>2. CASE i # Len(q) + 1
    <3>1. i \in 1..Len(q)
      BY <1>2, <2>2 DEF all
    <3> QED
      BY <1>2, <3>1 DEF all
  <2> QED
    BY <2>1, <2>2
<1> QED
  BY <1>2, <1>3 DEF all

\* observeSingleEvent for a good read leaves good queues.
LEMMA ObserveQueues ==
  ASSUME IInv, CostsGiven(server, puts), NEW c,
         QueuesOK(server, puts, listens, events, c),
         NEW k \in Keys, NEW r, ReadOK(server, puts, c, k, r), Observe(k, r)
  PROVE  QueuesOK(server, puts, listens', events', c)
<1>1. CASE Complete(k, r)
  <2> DEFINE x == EventOf(k, r)
             new == <<x>>
  <2>1. events' = Append(events, x) /\ listens' = listens
    BY <1>1 DEF Observe
  <2>2. EventOK(server, puts, c, x)
    BY AnswerOK
  <2> HIDE DEF x
  <2>3. /\ new \in Seq(Event) /\ events' = events \o new
        /\ Len(new) = 1 /\ new[1] = x
    BY <2>1, <2>2 DEF EventOK, QueuesOK
  <2>4. \A i \in 1..Len(new) : EventOK(server, puts, c, new[i])
    BY <2>2, <2>3
  <2> HIDE DEF new
  <2> QED
    BY <2>1, <2>3, <2>4, MoreEvents
<1>2. CASE ~Complete(k, r)
  <2> DEFINE q == Append(listens[k], r)
  <2>1. listens' = [listens EXCEPT ![k] = q] /\ events' = events
    BY <1>2 DEF Observe
  <2>2. listens \in [Keys -> Seq(Read)] /\ listens[k] \in Seq(Read)
    BY DEF QueuesOK
  <2>3. /\ q \in Seq(Read)
        /\ \A i \in 1..Len(q) : ReadOK(server, puts, c, k, q[i])
    <3>1. \A i \in 1..Len(listens[k]) : ReadOK(server, puts, c, k, listens[k][i])
      BY DEF QueuesOK
    <3> QED
      BY <2>2, <3>1, MoreReads
  <2> HIDE DEF q
  <2>4. \A j \in Keys : listens'[j] = IF j = k THEN q ELSE listens[j]
    BY <2>1, <2>2
  <2>5. listens' \in [Keys -> Seq(Read)]
    BY <2>1, <2>2, <2>3
  <2> QED
    BY <2>1, <2>3, <2>4, <2>5 DEF QueuesOK
<1> QED
  BY <1>1, <1>2

\* When a block has run, the rest of the events is good.
LEMMA TailQueues ==
  ASSUME NEW sv, NEW ps, NEW ls, NEW es, NEW c, QueuesOK(sv, ps, ls, es, c),
         es # <<>>
  PROVE  /\ QueuesOK(sv, ps, ls, Tail(es), c)
         /\ EventOK(sv, ps, c, Head(es))
         /\ \A i \in 1..Len(Tail(es)) :
              i + 1 \in 1..Len(es) /\ Tail(es)[i] = es[i + 1]
<1>1. es \in Seq(Event)
  BY DEF QueuesOK
<1>2. /\ Head(es) = es[1] /\ 1 \in 1..Len(es) /\ Tail(es) \in Seq(Event)
      /\ Len(es) \in Nat /\ Len(Tail(es)) = Len(es) - 1
      /\ \A i \in 1..Len(Tail(es)) : Tail(es)[i] = es[i + 1]
  BY <1>1, HeadTailProperties, LenProperties
<1>3. \A i \in 1..Len(Tail(es)) : i + 1 \in 1..Len(es) /\ Tail(es)[i] = es[i + 1]
  BY <1>2
<1> QED
  BY <1>2, <1>3 DEF QueuesOK

\* The answer of a listen leaves good queues.
LEMMA AnsweredQueues ==
  ASSUME IInv, CostsGiven(server, puts), NEW c,
         QueuesOK(server, puts, listens, events, c),
         NEW k \in Keys, ListenAnswered(k)
  PROVE  /\ QueuesOK(server, puts, listens', events', c)
         /\ OnlyAppends(listens, events) => OnlyAppends(listens', events')
<1> DEFINE new == [i \in DOMAIN listens[k] |-> EventOf(k, listens[k][i])]
<1>1. /\ listens' = [listens EXCEPT ![k] = <<>>] /\ events' = events \o new
      /\ listens \in [Keys -> Seq(Read)] /\ listens[k] \in Seq(Read)
      /\ events \in Seq(Event)
  BY DEF ListenAnswered, QueuesOK
<1>2. DOMAIN listens[k] = 1..Len(listens[k]) /\ Len(listens[k]) \in Nat
  BY <1>1, LenProperties
<1>3. \A i \in 1..Len(listens[k]) : EventOK(server, puts, c, EventOf(k, listens[k][i]))
  BY AnswerOK DEF QueuesOK
<1>4. /\ new \in Seq(Event) /\ Len(new) = Len(listens[k])
      /\ \A i \in 1..Len(new) : new[i] = EventOf(k, listens[k][i])
  <2>0. \A i \in DOMAIN listens[k] : EventOf(k, listens[k][i]) \in Event
    BY <1>2, <1>3 DEF EventOK
  <2>1. new \in Seq(Event)
    BY <1>1, <2>0, MapType
  <2>2. DOMAIN new = 1..Len(new) /\ Len(new) \in Nat
    BY <2>1, LenProperties
  <2> QED
    BY <1>2, <2>1, <2>2
<1>5. \A i \in 1..Len(new) : EventOf(k, listens[k][i]).purpose = listens[k][i].purpose
  BY DEF EventOf
<1> HIDE DEF new
<1>6. \A i \in 1..Len(new) : EventOK(server, puts, c, new[i])
  BY <1>3, <1>4
<1>7. QueuesOK(server, puts, listens, events', c)
  BY <1>1, <1>4, <1>6, MoreEvents
<1>8. Len(<<>>) = 0 /\ \A j \in Keys : listens'[j] = IF j = k THEN <<>> ELSE listens[j]
  BY <1>1, EmptySeq
<1>9. listens' \in [Keys -> Seq(Read)]
  BY <1>1, EmptySeq
<1>10. QueuesOK(server, puts, listens', events', c)
  BY <1>7, <1>8, <1>9 DEF QueuesOK
<1>11. ASSUME OnlyAppends(listens, events) PROVE OnlyAppends(listens', events')
  <2>1. /\ Len(events) \in Nat /\ Len(new) \in Nat
        /\ Len(events') = Len(events) + Len(new)
        /\ \A i \in 1..Len(events) : events'[i] = events[i]
        /\ \A i \in 1..Len(new) : events'[Len(events) + i] = new[i]
    <3>1. events \in Seq(Event) /\ new \in Seq(Event) /\ events' = events \o new
      BY <1>1, <1>4
    <3>2. /\ Len(events) \in Nat /\ Len(new) \in Nat
          /\ Len(events \o new) = Len(events) + Len(new)
          /\ \A i \in 1..Len(events) : (events \o new)[i] = events[i]
          /\ \A i \in 1..Len(new) : (events \o new)[Len(events) + i] = new[i]
      BY <3>1, ConcatParts
    <3> QED
      BY <3>1, <3>2
  <2>2. ASSUME NEW i \in 1..Len(events') PROVE events'[i].purpose = "append"
    <3>1. CASE i <= Len(events)
      <4>1. i \in 1..Len(events) /\ events'[i] = events[i]
        BY <2>1, <3>1
      <4> QED
        BY <1>11, <4>1 DEF OnlyAppends
    <3>2. CASE i > Len(events)
      <4>1. i - Len(events) \in 1..Len(new) /\ i = Len(events) + (i - Len(events))
        BY <2>1, <3>2
      <4>2. events'[i] = new[i - Len(events)]
        BY <2>1, <4>1
      <4> QED
        BY <1>4, <1>5, <1>11, <4>1, <4>2 DEF OnlyAppends
    <3> QED
      BY <2>1, <3>1, <3>2
  <2> QED
    BY <1>8, <1>11, <2>2 DEF OnlyAppends
<1> QED
  BY <1>10, <1>11

-----------------------------------------------------------------------------
(* The flow, with a review open or not.                                    *)

\* New writes keep what is known known.
LEMMA IssueCarries ==
  ASSUME TypeOK, NEW qs \in Seq(Put), puts' = puts \o qs, server' = server
  PROVE  Carries(server, puts, Len(puts) + 1, server', puts', Len(puts') + 1)
<1>1. /\ puts \in Seq(Put) /\ Len(puts) \in Nat /\ Len(puts \o qs) \in Nat
      /\ Len(puts) + 1 <= Len(puts \o qs) + 1
  BY LenProperties, ConcatProperties DEF TypeOK, ClientTypeOK
<1>2. Carries(server, puts, Len(puts) + 1, server, puts \o qs, Len(puts \o qs) + 1)
  BY <1>1, LongerCarries
<1> QED
  BY <1>2

\* New writes of alterations with costs keep the costs given.
LEMMA IssueCosts ==
  ASSUME NEW sv, NEW ps \in Seq(Put), NEW qs \in Seq(Put), CostsGiven(sv, ps),
         \A i \in 1..Len(qs) : CostGiven(qs[i].node)
  PROVE  CostsGiven(sv, ps \o qs)
<1> DEFINE all == ps \o qs
<1>1. /\ Len(ps) \in Nat /\ Len(qs) \in Nat /\ Len(all) = Len(ps) + Len(qs)
      /\ \A i \in 1..Len(ps) : all[i] = ps[i]
      /\ \A i \in 1..Len(qs) : all[Len(ps) + i] = qs[i]
  BY ConcatParts
<1> HIDE DEF all
<1>2. ASSUME NEW i \in 1..Len(all) PROVE CostGiven(all[i].node)
  <2>1. CASE i <= Len(ps)
    BY <1>1, <2>1 DEF CostsGiven
  <2>2. CASE i > Len(ps)
    <3>1. i - Len(ps) \in 1..Len(qs) /\ i = Len(ps) + (i - Len(ps))
      BY <1>1, <2>2
    <3> QED
      BY <1>1, <3>1
  <2> QED
    BY <1>1, <2>1, <2>2
<1> QED
  BY <1>2 DEF CostsGiven, all

\* A step of the flow that leaves the review alone keeps its invariant if it
\* keeps what is known and leaves good queues.
LEMMA FlowKeeps ==
  ASSUME RInv, IInv', UNCHANGED reviewVars, current'.uid = current.uid,
         CostsGiven(server', puts'),
         Carries(server, puts, Len(puts) + 1, server', puts', Len(puts') + 1),
         QueuesOK(server', puts', listens', events', current.uid),
         OnlyAppends(listens, events) => OnlyAppends(listens', events')
  PROVE  RInv'
<1>1. ReviewTypeOK'
  BY DEF RInv, ReviewTypeOK, IInv, reviewVars
<1>2. /\ screen' = screen /\ rows' = rows /\ editing' = editing
  BY DEF reviewVars
<1>3. \A rs : RowsKnown(server, puts, current.uid, rs)
                => RowsKnown(server', puts', current.uid, rs)
  BY RowsCarried
<1>4. \A r : RowKnown(server, puts, current.uid, r)
               => RowKnown(server', puts', current.uid, r)
  BY RowsCarried
<1> QED
  BY <1>1, <1>2, <1>3, <1>4 DEF RInv

\* Creating a contract, with no review open.
LEMMA CreateReviewed ==
  ASSUME RInv, screen = "home", CreateContract, UNCHANGED reviewVars
  PROVE  RInv'
<1> DEFINE qs == <<DressPut(nextKey), ContractPut(nextKey + 1, nextKey),
                   BridePut(nextKey + 2), MeasurementPut(nextKey + 3, nextKey + 2)>>
<1>1. IInv'
  BY CreateClosed DEF RInv
<1>2. puts' = puts \o qs /\ UNCHANGED <<server, listens, events>>
  BY DEF CreateContract, Issue
<1>3. /\ Len(qs) = 4
      /\ \A i \in 1..4 : qs[i].node.kind # "alteration"
  BY DEF DressPut, ContractPut, BridePut, MeasurementPut, PutAt, Object
<1>4. qs \in Seq(Put) /\ puts \in Seq(Put)
  <2>1. nextKey \in Keys /\ nextKey + 1 \in Keys /\ nextKey + 2 \in Keys /\ nextKey + 3 \in Keys
    BY MaxKeyAssumption DEF RInv, IInv, TypeOK, CreateContract, Keys
  <2>2. /\ DressPut(nextKey) \in Put /\ ContractPut(nextKey + 1, nextKey) \in Put
        /\ BridePut(nextKey + 2) \in Put
        /\ MeasurementPut(nextKey + 3, nextKey + 2) \in Put
    BY <2>1, PutTypes
  <2>3. qs \in Seq(Put)
    BY <2>2
  <2> QED
    BY <2>3 DEF RInv, IInv, TypeOK, ClientTypeOK
<1> HIDE DEF qs
<1>5. CostsGiven(server', puts')
  <2>1. \A i \in 1..Len(qs) : CostGiven(qs[i].node)
    BY <1>3 DEF CostGiven
  <2> QED
    BY <1>2, <1>4, <2>1, IssueCosts DEF RInv
<1>6. OnlyAppends(listens', events')
  BY <1>2 DEF RInv
<1>7. /\ listens' \in [Keys -> Seq(Read)] /\ events' \in Seq(Event)
      /\ ReadsClosed(server', puts', listens') /\ EventsClosed(server', puts', events')
  BY <1>1 DEF IInv, TypeOK, ClientTypeOK
<1>8. QueuesOK(server', puts', listens', events', current'.uid)
  BY <1>6, <1>7, HomeQueues
<1>9. ReviewTypeOK'
  BY <1>1 DEF RInv, ReviewTypeOK, IInv, reviewVars
<1> QED
  BY <1>1, <1>5, <1>6, <1>8, <1>9 DEF RInv, reviewVars

\* Adding an alteration, with no review open.
LEMMA AddReviewed ==
  ASSUME RInv, screen = "home", NEW cost \in Costs, AddAlteration(cost),
         UNCHANGED reviewVars
  PROVE  RInv'
<1> DEFINE qs == <<AlterationPut(nextKey, current.uid, cost)>>
           r  == [purpose |-> "append", arg |-> nextKey]
<1>1. IInv'
  BY AddClosed DEF RInv
<1>2. /\ puts' = puts \o qs /\ server' = server /\ current'.uid = current.uid
      /\ Observe(current.uid, r)
  BY DEF AddAlteration, Issue, RInv, IInv, TypeOK
<1>3. /\ Len(qs) = 1 /\ qs[1].node.kind = "alteration" /\ qs[1].node.cost = cost
  BY DEF AlterationPut, PutAt, Object
<1>4. qs \in Seq(Put) /\ puts \in Seq(Put) /\ current.uid \in Keys
  <2>1. nextKey \in Keys /\ current.uid \in Keys
    BY MaxKeyAssumption DEF RInv, IInv, TypeOK, AddAlteration, Keys
  <2>2. AlterationPut(nextKey, current.uid, cost) \in Put
    BY <2>1, PutTypes
  <2>3. qs \in Seq(Put)
    BY <2>2
  <2> QED
    BY <2>1, <2>3 DEF RInv, IInv, TypeOK, ClientTypeOK
<1>5. r.purpose = "append"
  OBVIOUS
<1> HIDE DEF qs, r
<1>6. CostsGiven(server', puts')
  <2>1. \A i \in 1..Len(qs) : CostGiven(qs[i].node)
    BY <1>3 DEF CostGiven
  <2> QED
    BY <1>2, <1>4, <2>1, IssueCosts DEF RInv
<1>7. OnlyAppends(listens', events')
  <2>1. OnlyAppends(listens, events)
    BY DEF RInv
  <2>2. listens \in [Keys -> Seq(Read)] /\ events \in Seq(Event)
    BY DEF RInv, QueuesOK
  <2>3. CASE Complete(current.uid, r)
    <3> DEFINE x == EventOf(current.uid, r)
    <3>1. events' = Append(events, x) /\ listens' = listens /\ x.purpose = "append"
      BY <1>2, <1>5, <2>3 DEF Observe, EventOf
    <3>2. /\ events' \in Seq(Event) /\ Len(events) \in Nat
      BY <1>1, <2>2, LenProperties DEF IInv, TypeOK, ClientTypeOK
    <3> HIDE DEF x
    <3>3. /\ Len(events') = Len(events) + 1 /\ events'[Len(events) + 1] = x
          /\ \A i \in 1..Len(events) : events'[i] = events[i]
      BY <2>2, <3>1, <3>2
    <3>4. \A i \in 1..Len(events') : i \in 1..Len(events) \/ i = Len(events) + 1
      BY <3>2, <3>3
    <3> QED
      BY <2>1, <3>1, <3>3, <3>4 DEF OnlyAppends
  <2>4. CASE ~Complete(current.uid, r)
    <3> DEFINE q == listens[current.uid]
    <3>1. listens' = [listens EXCEPT ![current.uid] = Append(q, r)] /\ events' = events
      BY <1>2, <2>4 DEF Observe
    <3>2. q \in Seq(Read) /\ Len(q) \in Nat
      BY <1>4, <2>2, LenProperties
    <3>3. /\ listens'[current.uid] = Append(q, r)
          /\ \A j \in Keys : j # current.uid => listens'[j] = listens[j]
      BY <1>4, <2>2, <3>1
    <3>4. \A i \in 1..Len(q) : q[i].purpose = "append"
      BY <1>4, <2>1 DEF OnlyAppends
    <3> HIDE DEF q
    <3>5. /\ Len(Append(q, r)) = Len(q) + 1 /\ Append(q, r)[Len(q) + 1] = r
          /\ \A i \in 1..Len(q) : Append(q, r)[i] = q[i]
      BY <3>2
    <3>6. \A i \in 1..Len(Append(q, r)) : i \in 1..Len(q) \/ i = Len(q) + 1
      BY <3>2, <3>5
    <3>7. \A i \in 1..Len(Append(q, r)) : Append(q, r)[i].purpose = "append"
      BY <1>5, <3>4, <3>5, <3>6
    <3> QED
      BY <2>1, <3>1, <3>3, <3>7 DEF OnlyAppends
  <2> QED
    BY <2>3, <2>4
<1>8. /\ listens' \in [Keys -> Seq(Read)] /\ events' \in Seq(Event)
      /\ ReadsClosed(server', puts', listens') /\ EventsClosed(server', puts', events')
  BY <1>1 DEF IInv, TypeOK, ClientTypeOK
<1>9. QueuesOK(server', puts', listens', events', current'.uid)
  BY <1>7, <1>8, HomeQueues
<1>10. ReviewTypeOK'
  BY <1>1 DEF RInv, ReviewTypeOK, IInv, reviewVars
<1> QED
  BY <1>1, <1>6, <1>7, <1>9, <1>10 DEF RInv, reviewVars

\* Writing a longer array back, with a review open or not.
LEMMA AppendReviewed ==
  ASSUME RInv, AppendCallback, UNCHANGED reviewVars
  PROVE  RInv'
<1> DEFINE e  == Head(events)
           qs == IF e.node.kind = "contract"
                   THEN <<ListPut(e.key, Append(e.node.list, e.arg))>> ELSE <<>>
<1>1. IInv'
  BY CallbackClosed DEF RInv
<1>2. /\ puts' = puts \o qs /\ UNCHANGED <<server, listens, current>>
      /\ events' = Tail(events) /\ events # <<>>
  BY DEF AppendCallback, Issue
<1>3. /\ QueuesOK(server, puts, listens, Tail(events), current.uid)
      /\ EventOK(server, puts, current.uid, e)
      /\ \A i \in 1..Len(Tail(events)) :
           i + 1 \in 1..Len(events) /\ Tail(events)[i] = events[i + 1]
  BY <1>2, TailQueues DEF RInv
<1>4. qs \in Seq(Put) /\ \A i \in 1..Len(qs) : CostGiven(qs[i].node)
  <2>1. e.key \in Keys /\ e.arg \in Keys /\ e.node.list \in Seq(Keys \cup {Marker})
    BY <1>3 DEF EventOK, Event, Node
  <2> DEFINE l == Append(e.node.list, e.arg)
             p == ListPut(e.key, l)
  <2>2. l \in Seq(Keys \cup {Marker})
    BY <2>1, AppendProperties
  <2> HIDE DEF l
  <2>3. p \in Put /\ p.node.kind = "list"
    BY <2>1, <2>2, PutTypes DEF ListPut, PutAt, Object
  <2> HIDE DEF p
  <2>4. CASE e.node.kind = "contract"
    <3>1. qs = <<p>>
      BY <2>4 DEF p, l
    <3> HIDE DEF qs
    <3> QED
      BY <2>3, <3>1 DEF CostGiven
  <2>5. CASE e.node.kind # "contract"
    <3>1. qs = <<>>
      BY <2>5
    <3> HIDE DEF qs
    <3> QED
      BY <3>1
  <2> QED
    BY <2>4, <2>5
<1> HIDE DEF qs
<1>5. TypeOK /\ puts \in Seq(Put)
  BY DEF RInv, IInv, TypeOK, ClientTypeOK
<1>6. CostsGiven(server', puts')
  BY <1>2, <1>4, <1>5, IssueCosts DEF RInv
<1>7. Carries(server, puts, Len(puts) + 1, server', puts', Len(puts') + 1)
  BY <1>2, <1>4, <1>5, IssueCarries
<1>8. QueuesOK(server', puts', listens, Tail(events), current.uid)
  BY <1>3, <1>7, QueuesCarried
<1>9. OnlyAppends(listens, events) => OnlyAppends(listens', events')
  BY <1>2, <1>3 DEF OnlyAppends
<1>10. QueuesOK(server', puts', listens', events', current.uid)
  BY <1>2, <1>8
<1> QED
  BY <1>1, <1>2, <1>6, <1>7, <1>9, <1>10, FlowKeeps

\* The connection and the server, with a review open or not.
LEMMA NetworkReviewed ==
  ASSUME RInv, Network, UNCHANGED reviewVars
  PROVE  RInv'
<1>1. IInv'
  BY NetworkClosed DEF RInv
<1>2. UNCHANGED <<current, puts>>
  BY DEF Network, ClientStep, ServerApply, PutAcked, ListenAnswered, Disconnect,
         Reconnect
<1>3. CASE ServerApply
  <2>1. listens' = listens /\ events' = events
    BY <1>3 DEF ServerApply
  <2>2. Carries(server, puts, Len(puts) + 1, server', puts', Len(puts') + 1)
    BY <1>3, ApplyCarries DEF RInv
  <2>3. QueuesOK(server', puts', listens, events, current.uid)
    BY <2>2, QueuesCarried DEF RInv
  <2>4. CostsGiven(server', puts')
    <3>1. applied + 1 \in 1..Len(puts) /\ server \in [Keys -> Node]
      BY <1>3, LenProperties DEF RInv, IInv, TypeOK, ClientTypeOK, ServerApply
    <3> DEFINE p == puts[applied + 1]
               o == Overwrite(server[p.key], p.node)
    <3>2. server' = [server EXCEPT ![p.key] = o]
      BY <1>3 DEF ServerApply
    <3>3. CostGiven(o)
      <4>1. CASE p.node.kind = "list" /\ server[p.key].kind = "contract"
        <5>1. p.key \in Keys /\ server[p.key] \in Node
          <6>1. puts \in Seq(Put)
            BY DEF RInv, IInv, TypeOK, ClientTypeOK
          <6>2. p \in Put
            BY <3>1, <6>1, ElementOfSeq
          <6> QED
            BY <3>1, <6>2 DEF Put
        <5>2. o.kind = "contract"
          BY <4>1, <5>1 DEF Overwrite, Node
        <5> QED
          BY <5>2 DEF CostGiven
      <4>2. CASE ~(p.node.kind = "list" /\ server[p.key].kind = "contract")
        <5>1. o = p.node
          BY <4>2 DEF Overwrite
        <5> QED
          BY <3>1, <5>1 DEF RInv, CostsGiven
      <4> QED
        BY <4>1, <4>2
    <3> HIDE DEF p, o
    <3>4. \A k \in Keys : server'[k] = server[k] \/ server'[k] = o
      BY <3>1, <3>2
    <3> QED
      BY <1>2, <3>3, <3>4 DEF RInv, CostsGiven, CostGiven
  <2> QED
    BY <1>1, <1>2, <2>1, <2>2, <2>3, <2>4, FlowKeeps
<1>4. Carries(server, puts, Len(puts) + 1, server, puts, Len(puts) + 1)
  BY DEF Carries, SameIdentity
<1>5. ASSUME NEW k \in Keys, ListenAnswered(k)
      PROVE  RInv'
  <2>1. server' = server
    BY <1>5 DEF ListenAnswered
  <2>2. /\ QueuesOK(server, puts, listens', events', current.uid)
        /\ OnlyAppends(listens, events) => OnlyAppends(listens', events')
    BY <1>5, AnsweredQueues DEF RInv
  <2>3. CostsGiven(server', puts')
    BY <1>2, <2>1 DEF RInv
  <2> QED
    BY <1>1, <1>2, <1>4, <2>1, <2>2, <2>3, FlowKeeps
<1>6. CASE PutAcked \/ Disconnect \/ Reconnect
  <2>1. UNCHANGED <<server, listens, events>>
    BY <1>6 DEF PutAcked, Disconnect, Reconnect
  <2>2. /\ CostsGiven(server', puts')
        /\ QueuesOK(server', puts', listens', events', current.uid)
        /\ OnlyAppends(listens, events) => OnlyAppends(listens', events')
    BY <1>2, <2>1 DEF RInv
  <2> QED
    BY <1>1, <1>2, <1>4, <2>1, <2>2, FlowKeeps
<1> QED
  BY <1>3, <1>5, <1>6 DEF Network, ClientStep

\* The process ends, under a review or not.
LEMMA KillReviewed ==
  ASSUME RInv, KillAll
  PROVE  RInv'
<1>1. IInv'
  BY KillClosed DEF RInv, KillAll
<1>2. /\ puts' = <<>> /\ events' = <<>> /\ listens' = [k \in Keys |-> <<>>]
      /\ UNCHANGED server
  BY DEF KillAll, Kill, ClientKilled
<1>3. /\ screen' = "home" /\ uidArray' = <<>> /\ rows' = <<>> /\ shown' = <<>>
      /\ editing' = NoRow /\ overlapped' = FALSE /\ UNCHANGED <<printed, rounds>>
  BY DEF KillAll
<1>4. Len(<<>>) = 0
  BY EmptySeq
<1>5. CostsGiven(server', puts')
  BY <1>2, <1>4 DEF RInv, CostsGiven
<1>6. OnlyAppends(listens', events')
  BY <1>2, <1>4 DEF OnlyAppends
<1>7. /\ listens' \in [Keys -> Seq(Read)] /\ events' \in Seq(Event)
      /\ ReadsClosed(server', puts', listens') /\ EventsClosed(server', puts', events')
  BY <1>1 DEF IInv, TypeOK, ClientTypeOK
<1>8. QueuesOK(server', puts', listens', events', current'.uid)
  BY <1>6, <1>7, HomeQueues
<1>9. ReviewTypeOK'
  <2>1. <<>> \in Seq(Row) /\ <<>> \in Seq(Keys \cup {Marker})
    BY EmptySeq
  <2> QED
    BY <1>1, <1>3, <2>1 DEF RInv, ReviewTypeOK, IInv
<1> QED
  BY <1>1, <1>3, <1>5, <1>6, <1>8, <1>9 DEF RInv

-----------------------------------------------------------------------------
(* The review screen.                                                      *)

\* viewWillAppear registers a good read.
LEMMA AppearQueues ==
  ASSUME IInv, CostsGiven(server, puts),
         QueuesOK(server, puts, listens, events, current.uid),
         current.uid # NoUID, Appear
  PROVE  QueuesOK(server, puts, listens', events', current.uid)
<1> DEFINE c == current.uid
           r == [purpose |-> "uids", arg |-> c]
<1>1. c \in Keys
  BY DEF IInv, TypeOK
<1>2. Observe(c, r)
  BY DEF Appear
<1>3. r \in Read /\ r.purpose = "uids"
  BY <1>1 DEF Read, Purposes
<1> HIDE DEF r
<1>4. ReadOK(server, puts, c, c, r)
  BY <1>3 DEF ReadOK, AppendKnown, OfReview
<1> QED
  BY <1>1, <1>2, <1>4, ObserveQueues

\* How often the screen may appear is bounded.
LEMMA AppearRounds ==
  ASSUME rounds \in 0..MaxRounds, Appear
  PROVE  rounds' \in 0..MaxRounds
BY MaxRoundsAssumption DEF Appear

\* Opening the review.
LEMMA OpenReviewed ==
  ASSUME RInv, OpenReview
  PROVE  RInv'
<1>1. /\ UNCHANGED <<server, puts, applied, acked, released, connected, nextKey,
                     current, editing, printed>>
      /\ screen' = "review" /\ uidArray' = <<>> /\ rows' = <<>> /\ shown' = <<>>
      /\ overlapped' = FALSE /\ current.uid # NoUID /\ Appear
  BY DEF OpenReview
<1>2. QueuesOK(server, puts, listens', events', current.uid)
  BY <1>1, AppearQueues DEF RInv
<1>3. IInv'
  BY <1>1, <1>2, QueuesKeepFlow DEF RInv
<1>4. ReviewTypeOK'
  <2>1. <<>> \in Seq(Row) /\ <<>> \in Seq(Keys \cup {Marker})
    BY EmptySeq
  <2>2. rounds' \in 0..MaxRounds
    BY <1>1, AppearRounds DEF RInv, ReviewTypeOK
  <2> QED
    BY <1>1, <1>3, <2>1, <2>2 DEF RInv, ReviewTypeOK, IInv
<1>5. RowsKnown(server, puts, current.uid, <<>>)
  BY EmptySeq DEF RowsKnown
<1> QED
  BY <1>1, <1>2, <1>3, <1>4, <1>5 DEF RInv

\* A review with no contract.
LEMMA AlertReviewed ==
  ASSUME RInv, OpenReviewWithoutContract
  PROVE  RInv'
<1>1. /\ UNCHANGED <<server, puts, applied, acked, released, connected, listens,
                     events, nextKey, current, editing, printed, rounds, overlapped>>
      /\ screen = "home" /\ screen' = "alert"
      /\ uidArray' = <<>> /\ rows' = <<>> /\ shown' = <<>>
  BY DEF OpenReviewWithoutContract, vars, clientVars
<1>2. QueuesOK(server, puts, listens', events', current.uid)
  BY <1>1 DEF RInv
<1>3. IInv'
  BY <1>1, <1>2, QueuesKeepFlow DEF RInv
<1>4. ReviewTypeOK'
  <2>1. <<>> \in Seq(Row) /\ <<>> \in Seq(Keys \cup {Marker})
    BY EmptySeq
  <2> QED
    BY <1>1, <1>3, <2>1 DEF RInv, ReviewTypeOK, IInv
<1> QED
  BY <1>1, <1>2, <1>3, <1>4 DEF RInv

\* A row is tapped.
LEMMA SelectReviewed ==
  ASSUME RInv, NEW i \in DOMAIN shown, SelectRow(i)
  PROVE  RInv'
<1>1. /\ UNCHANGED <<server, puts, applied, acked, released, connected, listens,
                     events, nextKey, current, uidArray, rows, shown, printed,
                     rounds, overlapped>>
      /\ screen = "review" /\ screen' = "edit" /\ i \in DOMAIN rows
      /\ editing' = rows[i]
  BY DEF SelectRow, vars, clientVars
<1>2. QueuesOK(server, puts, listens', events', current.uid)
  BY <1>1 DEF RInv
<1>3. IInv'
  BY <1>1, <1>2, QueuesKeepFlow DEF RInv
<1>4. i \in 1..Len(rows) /\ rows[i] \in Row
  BY <1>1, LenProperties, ElementOfSeq DEF RInv, ReviewTypeOK
<1>5. ReviewTypeOK'
  BY <1>1, <1>3, <1>4 DEF RInv, ReviewTypeOK, IInv
<1>6. RowKnown(server, puts, current.uid, rows[i])
  BY <1>1, <1>4 DEF RInv, RowsKnown
<1> QED
  BY <1>1, <1>2, <1>3, <1>5, <1>6 DEF RInv

\* Leaving the edit form without an update.
LEMMA BackReviewed ==
  ASSUME RInv, BackFromEdit
  PROVE  RInv'
<1>1. /\ UNCHANGED <<server, puts, applied, acked, released, connected, nextKey,
                     current, uidArray, rows, shown, editing, printed>>
      /\ screen = "edit" /\ screen' = "review" /\ Appear
      /\ overlapped' = (overlapped \/ OpenReads # {})
  BY DEF BackFromEdit
<1>2. QueuesOK(server, puts, listens', events', current.uid)
  BY <1>1, AppearQueues DEF RInv
<1>3. IInv'
  BY <1>1, <1>2, QueuesKeepFlow DEF RInv
<1>4. ReviewTypeOK'
  <2>1. rounds' \in 0..MaxRounds /\ overlapped' \in BOOLEAN
    BY <1>1, AppearRounds DEF RInv, ReviewTypeOK
  <2> QED
    BY <1>1, <1>3, <2>1 DEF RInv, ReviewTypeOK, IInv
<1> QED
  BY <1>1, <1>2, <1>3, <1>4 DEF RInv

\* The PDF is made.
LEMMA SignReviewed ==
  ASSUME RInv, ReviewAndSign
  PROVE  RInv'
<1>1. /\ UNCHANGED <<server, puts, applied, acked, released, connected, listens,
                     events, nextKey, current, screen, uidArray, rows, shown,
                     editing, rounds, overlapped>>
      /\ printed' = rows
  BY DEF ReviewAndSign, vars, clientVars
<1>2. QueuesOK(server, puts, listens', events', current.uid)
  BY <1>1 DEF RInv
<1>3. IInv'
  BY <1>1, <1>2, QueuesKeepFlow DEF RInv
<1>4. ReviewTypeOK'
  BY <1>1, <1>3 DEF RInv, ReviewTypeOK, IInv
<1> QED
  BY <1>1, <1>2, <1>3, <1>4 DEF RInv

\* The block of getAlterationStructs adds a row of the contract.
LEMMA StructReviewed ==
  ASSUME RInv, StructCallback
  PROVE  RInv'
<1> DEFINE e == Head(events)
           c == current.uid
<1>1. /\ UNCHANGED <<server, puts, applied, acked, released, connected, listens,
                     nextKey, current, screen, uidArray, editing, printed, rounds,
                     overlapped>>
      /\ events # <<>> /\ events' = Tail(events) /\ e.purpose = "struct"
      /\ rows' = IF e.node.kind = "alteration" THEN Append(rows, RowOf(e)) ELSE rows
      /\ shown' = IF e.node.kind = "alteration" THEN rows' ELSE shown
  BY DEF StructCallback
<1>2. /\ QueuesOK(server, puts, listens, Tail(events), c)
      /\ EventOK(server, puts, c, e)
      /\ \A i \in 1..Len(Tail(events)) :
           i + 1 \in 1..Len(events) /\ Tail(events)[i] = events[i + 1]
  BY <1>1, TailQueues DEF RInv
<1>3. screen \in {"review", "edit"} /\ c # NoUID /\ c \in Keys
  <2>1. e = events[1] /\ 1 \in 1..Len(events)
    BY <1>1, HeadTailProperties, LenProperties DEF RInv, QueuesOK
  <2>2. screen \notin {"home", "alert"}
    BY <1>1, <2>1 DEF RInv, OnlyAppends
  <2> QED
    BY <2>2 DEF RInv, ReviewTypeOK, IInv, TypeOK
<1>4. IInv'
  <2>1. QueuesOK(server, puts, listens', events', c)
    BY <1>1, <1>2
  <2> QED
    BY <1>1, <2>1, QueuesKeepFlow DEF RInv
<1>5. rows \in Seq(Row) /\ RowsKnown(server, puts, c, rows)
  BY <1>3 DEF RInv, ReviewTypeOK
<1>6. rows' \in Seq(Row) /\ RowsKnown(server, puts, c, rows')
  <2>1. CASE e.node.kind = "alteration"
    <3> DEFINE x == RowOf(e)
    <3>1. /\ x.uid = e.key /\ x.contractUID = e.node.ref
          /\ x = [uid |-> e.key, contractUID |-> e.node.ref, cost |-> e.node.cost]
      BY DEF RowOf
    <3>2. /\ e.key \in Keys /\ e.node.ref = c /\ e.node.cost \in Costs
          /\ AlterationOf(server, puts, e.key, c, Len(puts) + 1)
      BY <1>1, <1>2, <2>1 DEF EventOK, Event, FitsReview, OfReview
    <3>3. x \in Row
      BY <1>3, <3>1, <3>2 DEF Row
    <3>4. RowKnown(server, puts, c, x)
      BY <3>1, <3>2 DEF RowKnown
    <3>5. rows' = Append(rows, x)
      BY <1>1, <2>1
    <3> HIDE DEF x, c
    <3>6. /\ rows' \in Seq(Row) /\ Len(rows) \in Nat
          /\ Len(rows') = Len(rows) + 1
          /\ \A i \in 1..Len(rows) : rows'[i] = rows[i]
          /\ rows'[Len(rows) + 1] = x
      BY <1>5, <3>3, <3>5, AppendProperties, LenProperties
    <3>7. \A i \in 1..Len(rows') : i \in 1..Len(rows) \/ i = Len(rows) + 1
      BY <3>6
    <3> QED
      BY <1>5, <3>4, <3>6, <3>7 DEF RowsKnown
  <2>2. CASE e.node.kind # "alteration"
    BY <1>1, <1>5, <2>2
  <2> QED
    BY <2>1, <2>2
<1>7. ReviewTypeOK'
  <2>1. shown' \in Seq(Row)
    BY <1>1, <1>6 DEF RInv, ReviewTypeOK
  <2> QED
    BY <1>1, <1>4, <1>6, <2>1 DEF RInv, ReviewTypeOK, IInv
<1> HIDE DEF e
<1> QED
  BY <1>1, <1>2, <1>3, <1>4, <1>6, <1>7 DEF RInv

\* The block of getAlterationUIDs reads alterations of the contract only.
LEMMA UidsReviewed ==
  ASSUME RInv, UidsCallback
  PROVE  RInv'
<1> DEFINE e == Head(events)
           c == current.uid
           l == e.node.list
           uids == Elements(l) \ {Marker}
           r(k) == [purpose |-> "struct", arg |-> k]
           now == {i \in DOMAIN l : l[i] \in uids /\ Complete(l[i], r(l[i]))}
           known == Picked(l, now)
           new == [i \in DOMAIN known |-> EventOf(known[i], r(known[i]))]
<1>1. /\ UNCHANGED <<server, puts, applied, acked, released, connected, nextKey,
                     current, screen, shown, editing, printed, rounds, overlapped>>
      /\ events # <<>> /\ e.purpose = "uids"
  BY DEF UidsCallback
<1>2. /\ QueuesOK(server, puts, listens, Tail(events), c)
      /\ EventOK(server, puts, c, e)
  BY <1>1, TailQueues DEF RInv
<1>3. screen \in {"review", "edit"} /\ c # NoUID /\ c \in Keys
  <2>1. e = events[1] /\ 1 \in 1..Len(events)
    BY <1>1, HeadTailProperties, LenProperties DEF RInv, QueuesOK
  <2>2. screen \notin {"home", "alert"}
    BY <1>1, <2>1 DEF RInv, OnlyAppends
  <2> QED
    BY <2>2 DEF RInv, ReviewTypeOK, IInv, TypeOK
<1>4. CASE e.node.kind \notin {"contract", "list"}
  <2>1. events' = Tail(events) /\ UNCHANGED <<uidArray, rows, listens>>
    BY <1>4 DEF UidsCallback
  <2>2. QueuesOK(server, puts, listens', events', c)
    BY <1>2, <2>1
  <2>3. IInv'
    BY <1>1, <2>2, QueuesKeepFlow DEF RInv
  <2>4. ReviewTypeOK'
    BY <1>1, <2>1, <2>3 DEF RInv, ReviewTypeOK, IInv
  <2> HIDE DEF e
  <2> QED
    BY <1>1, <1>3, <2>1, <2>2, <2>3, <2>4 DEF RInv
<1>5. CASE e.node.kind \in {"contract", "list"}
  <2>1. /\ uidArray' = l /\ rows' = <<>>
        /\ events' = Tail(events) \o new
        /\ listens' = [k \in Keys |->
             IF k \in uids /\ ~Complete(k, r(k))
               THEN Append(listens[k], r(k)) ELSE listens[k]]
    BY <1>5 DEF UidsCallback
  <2>2. l \in Seq(Keys \cup {Marker})
    BY <1>2 DEF EventOK, Event, Node
  <2>3. DOMAIN l = 1..Len(l) /\ Len(l) \in Nat
    BY <2>2, LenProperties
  <2>4. \A k \in uids : k \in Keys /\ AlterationOf(server, puts, k, c, Len(puts) + 1)
    <3>1. ListKnown(server, puts, l, c, Len(puts) + 1)
      BY <1>1, <1>2, <1>5 DEF EventOK, OfReview, ArrayKnown
    <3>2. \A k \in uids : \E m \in DOMAIN l : l[m] = k /\ k # Marker
      BY DEF Elements
    <3> HIDE DEF l, uids
    <3> QED
      BY <3>1, <3>2 DEF ListKnown, AlterationOf
  <2>5. \A k \in uids : ReadOK(server, puts, c, k, r(k))
    BY <2>4 DEF ReadOK, AppendKnown, OfReview, Read, Purposes
  <2>6. \A k \in uids : EventOK(server, puts, c, EventOf(k, r(k)))
    BY <2>4, <2>5, AnswerOK DEF RInv
  <2>7. \A j \in 1..Len(l) : j \in now => l[j] \in uids
    OBVIOUS
  <2>8. known \in Seq(Keys \cup {Marker}) /\ \A i \in 1..Len(known) : known[i] \in uids
    <3> HIDE DEF l, now, uids
    <3>1. /\ known \in Seq(Keys \cup {Marker})
          /\ \A i \in 1..Len(known) : \E j \in 1..Len(l) : j \in now /\ known[i] = l[j]
      BY <2>2, PickedElements
    <3> QED
      BY <2>7, <3>1
  <2> HIDE DEF known, uids, l, e, c
  <2>9. DOMAIN known = 1..Len(known) /\ Len(known) \in Nat
    BY <2>8, LenProperties
  <2>10. \A i \in DOMAIN known : EventOK(server, puts, c, EventOf(known[i], r(known[i])))
    BY <2>6, <2>8, <2>9
  <2>11. new \in Seq(Event) /\ \A i \in 1..Len(new) : EventOK(server, puts, c, new[i])
    <3>0. \A i \in DOMAIN known : EventOf(known[i], r(known[i])) \in Event
      BY <2>10 DEF EventOK
    <3>1. new \in Seq(Event)
      BY <2>8, <3>0, MapType
    <3>2. DOMAIN new = 1..Len(new)
      BY <3>1, LenProperties
    <3>3. DOMAIN new = DOMAIN known
      OBVIOUS
    <3> QED
      BY <2>10, <3>1, <3>2, <3>3
  <2> HIDE DEF new
  <2>12. QueuesOK(server, puts, listens, events', c)
    BY <1>2, <2>1, <2>11, MoreEvents
  <2>13. ASSUME NEW k \in Keys
         PROVE  /\ listens'[k] \in Seq(Read)
                /\ \A i \in 1..Len(listens'[k]) : ReadOK(server, puts, c, k, listens'[k][i])
    <3>1. /\ listens[k] \in Seq(Read)
          /\ \A i \in 1..Len(listens[k]) : ReadOK(server, puts, c, k, listens[k][i])
      BY <1>2 DEF QueuesOK
    <3>2. CASE k \in uids /\ ~Complete(k, r(k))
      <4> DEFINE x == r(k)
      <4>1. listens'[k] = Append(listens[k], x)
        BY <2>1, <3>2
      <4>2. ReadOK(server, puts, c, k, x)
        BY <2>5, <3>2
      <4> HIDE DEF x
      <4> QED
        BY <3>1, <4>1, <4>2, MoreReads
    <3>3. CASE ~(k \in uids /\ ~Complete(k, r(k)))
      <4>1. listens'[k] = listens[k]
        BY <2>1, <3>3
      <4> QED
        BY <3>1, <4>1
    <3> QED
      BY <3>2, <3>3
  <2>14. listens' \in [Keys -> Seq(Read)]
    <3>1. DOMAIN listens' = Keys /\ listens' = [k \in Keys |-> listens'[k]]
      BY <2>1
    <3> QED
      BY <2>13, <3>1
  <2>15. QueuesOK(server, puts, listens', events', c)
    BY <2>12, <2>13, <2>14 DEF QueuesOK
  <2>16. IInv'
    BY <1>1, <2>15, QueuesKeepFlow DEF RInv
  <2>17. RowsKnown(server, puts, c, <<>>) /\ <<>> \in Seq(Row)
    BY EmptySeq DEF RowsKnown
  <2>18. ReviewTypeOK'
    BY <1>1, <2>1, <2>2, <2>16, <2>17 DEF RInv, ReviewTypeOK, IInv
  <2> QED
    BY <1>1, <1>3, <2>1, <2>15, <2>16, <2>17, <2>18 DEF RInv, c
<1> QED
  BY <1>4, <1>5

\* Writing an alteration again, for the contract it already has, keeps one
\* object per push id.
LEMMA IssueAgain ==
  ASSUME NEW sv, NEW ps \in Seq(Put), NEW qs \in Seq(Put), OneObjectPerKey(sv, ps),
         NEW a, NEW c, AlterationOf(sv, ps, a, c, Len(ps) + 1),
         Len(qs) = 1, qs[1].key = a, qs[1].node.kind = "alteration",
         qs[1].node.ref = c
  PROVE  OneObjectPerKey(sv, ps \o qs)
<1> DEFINE all == ps \o qs
           L == Len(ps)
<1>1. /\ L \in Nat /\ Len(all) = L + 1
      /\ \A i \in 1..L : all[i] = ps[i]
      /\ all[L + 1] = qs[1]
  <2>1. ASSUME NEW s \in Seq(Put), NEW t \in Seq(Put)
        PROVE  /\ Len(s) \in Nat /\ Len(s \o t) = Len(s) + Len(t)
               /\ \A i \in 1..Len(s) : (s \o t)[i] = s[i]
               /\ \A i \in 1..Len(t) : (s \o t)[Len(s) + i] = t[i]
    BY ONLY ConcatParts
  <2>2. /\ L \in Nat /\ Len(all) = L + Len(qs)
        /\ \A i \in 1..L : all[i] = ps[i]
        /\ \A i \in 1..Len(qs) : all[L + i] = qs[i]
    BY <2>1
  <2> QED
    BY <2>2
<1> HIDE DEF all
<1>2. sv[a].kind # "absent" => SameIdentity(sv[a], qs[1].node)
  <2>1. CASE sv[a].kind = "alteration" /\ sv[a].ref = c
    BY <2>1 DEF SameIdentity
  <2>2. ASSUME NEW j \in 1..L, ps[j].key = a, ps[j].node.kind = "alteration",
               ps[j].node.ref = c, sv[a].kind # "absent"
        PROVE  SameIdentity(sv[a], qs[1].node)
    BY <2>2 DEF OneObjectPerKey, SameIdentity
  <2> QED
    BY <1>1, <2>1, <2>2 DEF AlterationOf
<1>3. ASSUME NEW i \in 1..L, ps[i].key = a, ps[i].node.kind # "list"
      PROVE  SameIdentity(ps[i].node, qs[1].node)
  <2>1. CASE sv[a].kind = "alteration" /\ sv[a].ref = c
    BY <1>3, <2>1 DEF OneObjectPerKey, SameIdentity
  <2>2. ASSUME NEW j \in 1..L, ps[j].key = a, ps[j].node.kind = "alteration",
               ps[j].node.ref = c
        PROVE  SameIdentity(ps[i].node, qs[1].node)
    BY <1>3, <2>2 DEF OneObjectPerKey, SameIdentity
  <2> QED
    BY <1>1, <2>1, <2>2 DEF AlterationOf
<1>4. \A i \in 1..Len(all) : (i \in 1..L /\ all[i] = ps[i]) \/ all[i] = qs[1]
  <2>1. \A i \in 1..Len(all) : i \in 1..L \/ i = L + 1
    BY <1>1
  <2> QED
    BY <1>1, <2>1
<1>5. SameIdentity(qs[1].node, qs[1].node)
  BY DEF SameIdentity
<1>6. \A m, n : SameIdentity(m, n) => SameIdentity(n, m)
  BY DEF SameIdentity
<1> SUFFICES ASSUME NEW i \in 1..Len(all), all[i].node.kind # "list"
             PROVE  /\ sv[all[i].key].kind # "absent" => SameIdentity(sv[all[i].key], all[i].node)
                    /\ \A j \in 1..Len(all) :
                         (all[j].key = all[i].key /\ all[j].node.kind # "list")
                           => SameIdentity(all[j].node, all[i].node)
  BY DEF OneObjectPerKey, all
<1>7. sv[all[i].key].kind # "absent" => SameIdentity(sv[all[i].key], all[i].node)
  <2>1. CASE all[i] = qs[1]
    BY <1>2, <2>1
  <2>2. CASE i \in 1..L /\ all[i] = ps[i]
    BY <2>2 DEF OneObjectPerKey
  <2> QED
    BY <1>4, <2>1, <2>2
<1>8. ASSUME NEW j \in 1..Len(all), all[j].key = all[i].key, all[j].node.kind # "list"
      PROVE  SameIdentity(all[j].node, all[i].node)
  <2>1. CASE all[i] = qs[1] /\ all[j] = qs[1]
    BY <1>5, <2>1
  <2>2. CASE all[i] = qs[1] /\ j \in 1..L /\ all[j] = ps[j]
    BY <1>3, <1>8, <2>2
  <2>3. CASE i \in 1..L /\ all[i] = ps[i] /\ all[j] = qs[1]
    BY <1>3, <1>6, <1>8, <2>3
  <2>4. CASE i \in 1..L /\ all[i] = ps[i] /\ j \in 1..L /\ all[j] = ps[j]
    BY <1>8, <2>4 DEF OneObjectPerKey
  <2> QED
    BY <1>4, <2>1, <2>2, <2>3, <2>4
<1> QED
  BY <1>7, <1>8

\* "Update" writes an alteration of the contract under review, and only it.
LEMMA EditReviewed ==
  ASSUME RInv, NEW cost \in Costs, ConfirmEdit(cost)
  PROVE  RInv'
<1> DEFINE c == current.uid
           a == editing.uid
           qs == <<AlterationPut(a, editing.contractUID, cost)>>
           L == Len(puts)
           all == puts \o qs
<1>1. /\ UNCHANGED <<server, applied, acked, released, connected, nextKey, current,
                     uidArray, rows, shown, editing, printed>>
      /\ screen = "edit" /\ screen' = "review" /\ puts' = all /\ Appear
      /\ overlapped' = (overlapped \/ OpenReads # {})
  BY DEF ConfirmEdit, Issue
<1>2. /\ editing.contractUID = c /\ AlterationOf(server, puts, a, c, L + 1)
      /\ c # NoUID /\ c \in Keys /\ a \in Keys
  BY <1>1 DEF RInv, RowKnown, AlterationOf, IInv, TypeOK
<1>3. /\ server \in [Keys -> Node] /\ puts \in Seq(Put) /\ TypeOK /\ IInv
      /\ applied \in Nat /\ applied <= L /\ nextKey \in Nat /\ L \in Nat
  BY LenProperties DEF RInv, IInv, TypeOK, ClientTypeOK
<1>4. /\ Len(qs) = 1 /\ qs[1].key = a /\ qs[1].node.kind = "alteration"
      /\ qs[1].node.ref = c /\ qs[1].node.cost = cost
  BY <1>2 DEF AlterationPut, PutAt, Object
<1>5. qs \in Seq(Put)
  <2> DEFINE p == AlterationPut(a, editing.contractUID, cost)
  <2>1. p \in Put
    BY <1>2, PutTypes
  <2>2. qs = <<p>>
    OBVIOUS
  <2> HIDE DEF p, qs
  <2> QED
    BY <2>1, <2>2
<1> HIDE DEF qs, a
<1>6. Carries(server, puts, L + 1, server, all, Len(all) + 1)
      /\ Carries(server, puts, L + 1, server, all, L + 1)
  <2>1. /\ Len(all) \in Nat /\ L + 1 <= Len(all) + 1 /\ Len(all) + 1 \in Nat
        /\ L + 1 \in 1..L + 1 /\ L + 1 \in Nat /\ L + 1 <= L + 1
    <3>1. Len(all) = L + Len(qs)
      BY <1>3, <1>5, ConcatProperties
    <3> HIDE DEF all, L
    <3> QED
      BY <1>3, <1>4, <3>1
  <2>2. Carries(server, puts, L + 1, server, all, Len(all) + 1)
    BY <1>3, <1>5, <2>1, LongerCarries
  <2>3. Carries(server, puts, L + 1, server, all, L + 1)
    BY <1>3, <1>5, <2>1, LongerCarries
  <2> QED
    BY <2>2, <2>3
<1>7. QueuesOK(server, puts, listens', events', c)
  BY <1>1, <1>2, <1>3, AppearQueues DEF RInv
<1>8. QueuesOK(server, all, listens', events', c)
  BY <1>6, <1>7, QueuesCarried
<1>9. Known(server, puts, c, "contract", L + 1)
  BY <1>2 DEF RInv, IInv, CurrentKnown
<1>10. PutsClosed(server, all)
  <2>1. Known(server, all, c, "contract", L + 1)
    BY <1>6, <1>9, KnownCarried
  <2>2. \A i \in 1..Len(qs) : /\ qs[i].node.kind # "absent"
                              /\ NodeKnown(server, all, qs[i].key, qs[i].node, L + i)
    BY <1>4, <2>1 DEF NodeKnown
  <2> QED
    BY <1>3, <1>5, <2>2, IssueClosed DEF IInv
<1>11. OneObjectPerKey(server, all)
  <2>1. OneObjectPerKey(server, puts)
    BY <1>3 DEF IInv
  <2> QED
    BY <1>2, <1>3, <1>4, <1>5, <2>1, IssueAgain
<1>12. /\ AppliedStored(server, all, applied)
       /\ Fresh(server, all, nextKey)
       /\ ServerClosed(server, all)
  <2>1. a < nextKey
    <3>1. \A k \in Keys : k >= nextKey => server[k].kind = "absent"
      BY <1>3 DEF IInv, Fresh
    <3>2. \A j \in 1..L : puts[j].key < nextKey
      BY <1>3 DEF IInv, Fresh
    <3>3. server[a].kind = "alteration" \/ \E j \in 1..L : puts[j].key = a
      BY <1>2, <1>3 DEF AlterationOf
    <3> QED
      BY <1>2, <1>3, <3>1, <3>2, <3>3 DEF Keys
  <2>2. \A i \in 1..Len(qs) : qs[i].key < nextKey
    BY <1>4, <2>1
  <2>3. /\ AppliedStored(server, puts, applied) /\ Fresh(server, puts, nextKey)
        /\ ServerClosed(server, puts) /\ nextKey <= nextKey
    BY <1>3 DEF IInv
  <2> QED
    BY <1>3, <1>5, <2>2, <2>3, IssueRest
<1>13. CurrentKnown(server, all, c)
  <2>1. Known(server, all, c, "contract", Len(all) + 1)
    BY <1>6, <1>9, KnownCarried
  <2> QED
    BY <2>1 DEF CurrentKnown
<1>14. CostsGiven(server, all)
  <2>1. \A i \in 1..Len(qs) : CostGiven(qs[i].node)
    BY <1>4 DEF CostGiven
  <2> QED
    BY <1>3, <1>5, <2>1, IssueCosts DEF RInv
<1>15. TypeOK'
  <2>1. all \in Seq(Put) /\ Len(all) = L + 1
    <3>1. all \in Seq(Put)
      BY <1>3, <1>5, ConcatProperties
    <3>2. Len(all) = L + Len(qs)
      BY <1>3, <1>5, ConcatProperties
    <3> HIDE DEF all, L
    <3> QED
      BY <1>4, <3>1, <3>2
  <2> HIDE DEF all
  <2>2. applied <= Len(all)
    BY <1>3, <2>1
  <2> QED
    BY <1>1, <1>3, <1>8, <2>1, <2>2 DEF TypeOK, ClientTypeOK, QueuesOK
<1>16. RowsKnown(server, all, c, rows)
  <2>1. RowsKnown(server, puts, c, rows)
    BY <1>1 DEF RInv
  <2> QED
    BY <1>6, <2>1, RowsCarried
<1> HIDE DEF all, c
<1>17. ReadsClosed(server, all, listens') /\ EventsClosed(server, all, events')
  BY <1>8 DEF QueuesOK, ReadOK, EventOK, ReadsClosed, EventsClosed
<1>18. current'.uid = c
  BY <1>1 DEF c
<1>19. IInv'
  BY <1>1, <1>10, <1>11, <1>12, <1>13, <1>15, <1>17, <1>18 DEF IInv
<1>20. ReviewTypeOK'
  <2>1. rounds' \in 0..MaxRounds /\ overlapped' \in BOOLEAN
    BY <1>1, AppearRounds DEF RInv, ReviewTypeOK
  <2> QED
    BY <1>1, <1>15, <2>1 DEF RInv, ReviewTypeOK
<1> QED
  BY <1>1, <1>2, <1>8, <1>14, <1>16, <1>18, <1>19, <1>20 DEF RInv

\* Popping the screen leaves the appends alone, and nothing else.
LEMMA CloseReviewed ==
  ASSUME RInv, CloseReview
  PROVE  RInv'
<1> DEFINE Apps(q) == {i \in DOMAIN q : q[i].purpose = "append"}
<1>1. /\ UNCHANGED <<server, puts, applied, acked, released, connected, nextKey,
                     current, uidArray, rows, shown, editing, printed, rounds,
                     overlapped>>
      /\ screen' = "home"
      /\ events' = Picked(events, Apps(events))
      /\ listens' = [k \in Keys |-> Picked(listens[k], Apps(listens[k]))]
  BY DEF CloseReview
<1>2. listens \in [Keys -> Seq(Read)] /\ events \in Seq(Event)
  BY DEF RInv, QueuesOK
<1>3. /\ events' \in Seq(Event)
      /\ \A i \in 1..Len(events') : \E j \in 1..Len(events) :
           events[j].purpose = "append" /\ events'[i] = events[j]
  <2> DEFINE S == Apps(events)
  <2>1. \A j \in S : events[j].purpose = "append"
    OBVIOUS
  <2> HIDE DEF S
  <2>2. /\ Picked(events, S) \in Seq(Event)
        /\ \A i \in 1..Len(Picked(events, S)) :
             \E j \in 1..Len(events) : j \in S /\ Picked(events, S)[i] = events[j]
    BY <1>2, PickedElements
  <2>3. events' = Picked(events, S)
    BY <1>1 DEF S
  <2> QED
    BY <2>1, <2>2, <2>3
<1>4. ASSUME NEW k \in Keys
      PROVE  /\ listens'[k] \in Seq(Read)
             /\ \A i \in 1..Len(listens'[k]) : \E j \in 1..Len(listens[k]) :
                  listens[k][j].purpose = "append" /\ listens'[k][i] = listens[k][j]
  <2> DEFINE q == listens[k]
             S == Apps(q)
  <2>1. (\A j \in S : q[j].purpose = "append") /\ q \in Seq(Read)
    BY <1>2
  <2>3. listens'[k] = Picked(q, S)
    BY <1>1
  <2> HIDE DEF S, q
  <2>2. /\ Picked(q, S) \in Seq(Read)
        /\ \A i \in 1..Len(Picked(q, S)) :
             \E j \in 1..Len(q) : j \in S /\ Picked(q, S)[i] = q[j]
    BY <2>1, PickedElements
  <2> QED
    BY <2>1, <2>2, <2>3 DEF q
<1>5. listens' \in [Keys -> Seq(Read)]
  <2>1. listens' = [k \in Keys |-> listens'[k]]
    BY <1>1
  <2> QED
    BY <1>4, <2>1
<1>6. QueuesOK(server, puts, listens', events', current.uid)
  BY <1>3, <1>4, <1>5 DEF RInv, QueuesOK
<1>7. OnlyAppends(listens', events')
  <2>1. \A i \in 1..Len(events') : events'[i].purpose = "append"
    BY <1>3
  <2>2. \A k \in Keys : \A i \in 1..Len(listens'[k]) : listens'[k][i].purpose = "append"
    <3> SUFFICES ASSUME NEW k \in Keys, NEW i \in 1..Len(listens'[k])
                 PROVE  listens'[k][i].purpose = "append"
      OBVIOUS
    <3> QED
      BY <1>4
  <2> QED
    BY <2>1, <2>2 DEF OnlyAppends
<1>8. IInv'
  BY <1>1, <1>6, QueuesKeepFlow DEF RInv
<1>9. ReviewTypeOK'
  BY <1>1, <1>8 DEF RInv, ReviewTypeOK, IInv
<1> QED
  BY <1>1, <1>6, <1>7, <1>8, <1>9 DEF RInv

-----------------------------------------------------------------------------
(* The theorems.                                                           *)

\* The app starts at home, with nothing stored and nothing open.
LEMMA ReviewStarts ==
  ASSUME InitAll
  PROVE  RInv
<1>1. IInv
  BY InitInvariant DEF InitAll
<1>2. /\ puts = <<>> /\ events = <<>> /\ listens = [k \in Keys |-> <<>>]
      /\ \A k \in Keys : server[k].kind = "absent"
  BY DEF InitAll, Init, ClientInit, Absent
<1>3. Len(<<>>) = 0 /\ <<>> \in Seq(Row) /\ <<>> \in Seq(Keys \cup {Marker})
  BY EmptySeq
<1>4. CostsGiven(server, puts) /\ OnlyAppends(listens, events)
  BY <1>2, <1>3 DEF CostsGiven, CostGiven, OnlyAppends
<1>5. /\ listens \in [Keys -> Seq(Read)] /\ events \in Seq(Event)
      /\ ReadsClosed(server, puts, listens) /\ EventsClosed(server, puts, events)
  BY <1>1 DEF IInv, TypeOK, ClientTypeOK
<1>6. QueuesOK(server, puts, listens, events, current.uid)
  BY <1>4, <1>5, HomeQueues
<1>7. ReviewTypeOK
  <2>1. /\ screen = "home" /\ uidArray = <<>> /\ rows = <<>> /\ shown = <<>>
        /\ editing = NoRow /\ printed = <<>> /\ rounds = 0 /\ overlapped = FALSE
    BY DEF InitAll, ReviewInit
  <2>2. 0 \in 0..MaxRounds
    BY MaxRoundsAssumption
  <2> QED
    BY <1>1, <1>3, <2>1, <2>2 DEF ReviewTypeOK, IInv
<1>8. screen = "home"
  BY DEF InitAll, ReviewInit
<1> QED
  BY <1>1, <1>4, <1>6, <1>7, <1>8 DEF RInv

\* Every step keeps the invariant.
LEMMA ReviewKept ==
  ASSUME RInv, [NextAll]_allVars
  PROVE  RInv'
<1>1. CASE AtHome
  BY <1>1, CreateReviewed, AddReviewed DEF AtHome
<1>2. CASE Background
  BY <1>2, AppendReviewed, NetworkReviewed DEF Background
<1>3. CASE KillAll
  BY <1>3, KillReviewed
<1>4. CASE OpenReview
  BY <1>4, OpenReviewed
<1>5. CASE OpenReviewWithoutContract
  BY <1>5, AlertReviewed
<1>6. CASE UidsCallback
  BY <1>6, UidsReviewed
<1>7. CASE StructCallback
  BY <1>7, StructReviewed
<1>8. CASE \E i \in DOMAIN shown : SelectRow(i)
  BY <1>8, SelectReviewed
<1>9. CASE \E cost \in Costs : ConfirmEdit(cost)
  BY <1>9, EditReviewed
<1>10. CASE BackFromEdit
  BY <1>10, BackReviewed
<1>11. CASE ReviewAndSign
  BY <1>11, SignReviewed
<1>12. CASE CloseReview
  BY <1>12, CloseReviewed
<1>13. CASE UNCHANGED allVars
  <2>1. /\ UNCHANGED <<server, puts, applied, acked, released, connected, listens,
                       events, nextKey, current>>
        /\ UNCHANGED <<screen, uidArray, rows, shown, editing, printed, rounds,
                       overlapped>>
    BY <1>13 DEF allVars, vars, clientVars, reviewVars
  <2>2. QueuesOK(server, puts, listens', events', current.uid)
    BY <2>1 DEF RInv
  <2>3. IInv'
    BY <2>1, <2>2, QueuesKeepFlow DEF RInv
  <2>4. ReviewTypeOK'
    BY <2>1, <2>3 DEF RInv, ReviewTypeOK, IInv
  <2> QED
    BY <2>1, <2>2, <2>3, <2>4 DEF RInv
<1> QED
  BY <1>1, <1>2, <1>3, <1>4, <1>5, <1>6, <1>7, <1>8, <1>9, <1>10, <1>11, <1>12,
     <1>13 DEF NextAll

\* The inductive invariant holds in every reachable state.
LEMMA ReviewInvariant == SpecAll => []RInv
<1>1. InitAll => RInv
  BY ReviewStarts
<1>2. RInv /\ [NextAll]_allVars => RInv'
  BY ReviewKept
<1> QED
  BY <1>1, <1>2, PTL DEF SpecAll

\* Type correctness of the review composed with the flow: a row is made of an
\* alteration that has a contract and a cost, however late its read is answered.
THEOREM ReviewTypeCorrect == SpecAll => []ReviewTypeOK
<1>1. RInv => ReviewTypeOK
  BY DEF RInv
<1> QED
  BY <1>1, ReviewInvariant, PTL

\* Only alterations of the contract under review are listed, edited or written
\* back, for any number of contracts, alterations and rounds of loading
\* (ReviewContractVC 128-163, EditAlterationVC 46-57).
THEOREM RowsAlwaysOfThisContract == SpecAll => []RowsOfThisContract
<1>1. RInv => RowsOfThisContract
  <2> SUFFICES ASSUME RInv PROVE RowsOfThisContract
    OBVIOUS
  <2>1. DOMAIN rows = 1..Len(rows)
    BY LenProperties DEF RInv, ReviewTypeOK
  <2> QED
    BY <2>1 DEF RInv, RowsOfThisContract, RowsKnown, RowKnown
<1> QED
  BY <1>1, ReviewInvariant, PTL

\* Editing does not break what the server stores: every reference still resolves
\* when alterations are written again from the review (FirebaseHelperMethods
\* 160-170).
THEOREM EditedReferencesResolve == SpecAll => []ReferencesResolve
<1>1. RInv => ReferencesResolve
  BY InvariantResolves DEF RInv
<1> QED
  BY <1>1, ReviewInvariant, PTL
-----------------------------------------------------------------------------
(***************************************************************************)
(* QuietReviewIsTheContract. While no round of loading begins before the   *)
(* last one is over, the screen is in one of two phases: it waits for the  *)
(* array and has nothing else open, or the uids of the array are parted    *)
(* into rows, structs that were answered and structs that are awaited.     *)
(***************************************************************************)

\* The positions of the reads of the array, and of structs, in a queue.
UidsIn(q) == {i \in 1..Len(q) : q[i].purpose = "uids"}
StructsIn(q) == {i \in 1..Len(q) : q[i].purpose = "struct"}

\* The uids whose struct was answered, and those whose struct is awaited.
Answered(es) == {es[i].key : i \in StructsIn(es)}
Awaited(ls) == {k \in Keys : StructsIn(ls[k]) # {}}

\* The array was asked for once and is not loaded; no struct is under way.
ArrayAwaited(ls, es) ==
  /\ Answered(es) = {} /\ Awaited(ls) = {}
  /\ \/ /\ \E i \in 1..Len(es) : UidsIn(es) = {i} /\ es[i].node.kind = "contract"
        /\ \A k \in Keys : UidsIn(ls[k]) = {}
     \/ /\ UidsIn(es) = {}
        /\ \E c \in Keys : \E i \in 1..Len(ls[c]) :
             UidsIn(ls[c]) = {i} /\ \A k \in Keys : k # c => UidsIn(ls[k]) = {}

\* The cost k was last given: by the last write to it, or as it is stored.
LastCost(sv, ps, k) ==
  LET W == {i \in 1..Len(ps) : ps[i].key = k}
  IN  IF W = {} THEN sv[k].cost ELSE ps[Latest(W)].node.cost

\* Each uid of the array u is a row, or its struct was answered or is awaited;
\* one of the three, and once.
Parted(ls, es, u, rs) ==
  /\ UidsIn(es) = {} /\ \A k \in Keys : UidsIn(ls[k]) = {}
  /\ Uids(rs) \cup Answered(es) \cup Awaited(ls) = Elements(u) \ {Marker}
  /\ Uids(rs) \cap Answered(es) = {} /\ Uids(rs) \cap Awaited(ls) = {}
  /\ Answered(es) \cap Awaited(ls) = {}
  /\ NoneTwice(rs)
  /\ \A i, j \in StructsIn(es) : es[i].key = es[j].key => i = j
  /\ \A k \in Keys : \A i, j \in StructsIn(ls[k]) : i = j

\* Rows and answers have the cost that was last given.
CostsCurrent(sv, ps, es, rs) ==
  /\ \A i \in 1..Len(rs) : rs[i].cost = LastCost(sv, ps, rs[i].uid)
  /\ \A i \in StructsIn(es) : /\ es[i].node.kind = "alteration"
                               /\ es[i].node.cost = LastCost(sv, ps, es[i].key)

\* An alteration that was applied is stored as it was written then or later.
AlterationStays(sv, ps, n) ==
  \A j \in 1..n : ps[j].node.kind = "alteration" =>
    \E i \in j..Len(ps) : ps[i].key = ps[j].key /\ sv[ps[j].key] = ps[i].node

\* The two phases.
InPhase ==
  \/ ArrayAwaited(listens, events)
  \/ /\ Parted(listens, events, uidArray, rows)
     /\ CostsCurrent(server, puts, events, rows)

\* The inductive invariant.
QInv ==
  /\ RInv
  /\ LInv
  /\ AlterationStays(server, puts, applied)
  /\ (screen \in {"review", "edit"} /\ ~overlapped) => InPhase

-----------------------------------------------------------------------------
(* The arrays stay good in the steps of the review screen.                 *)

\* f finds the appends of queue p in q, each in a place of its own.
Finds(f, p, q) ==
  /\ \A i \in AppendsIn(p) : f[i] \in AppendsIn(q) /\ p[i].arg = q[f[i]].arg
  /\ \A i, j \in AppendsIn(p) : f[i] = f[j] => i = j

\* Reads to append that are fewer, or moved, are still pending once each.
LEMMA FewerPending ==
  ASSUME NEW ls, NEW es, NEW ls2, NEW es2, PendingOnce(ls, es),
         \E f : Finds(f, es2, es),
         \A k \in Keys : \E g : Finds(g, ls2[k], ls[k])
  PROVE  /\ PendingOnce(ls2, es2)
         /\ Pending(ls2, es2) \subseteq Pending(ls, es)
<1>a. PICK f : Finds(f, es2, es)
  OBVIOUS
<1> DEFINE g == [k \in Keys |-> CHOOSE h : Finds(h, ls2[k], ls[k])]
<1>b. \A k \in Keys : Finds(g[k], ls2[k], ls[k])
  OBVIOUS
<1> HIDE DEF g
<1>c. /\ \A i \in AppendsIn(es2) : f[i] \in AppendsIn(es) /\ es2[i].arg = es[f[i]].arg
      /\ \A i, j \in AppendsIn(es2) : f[i] = f[j] => i = j
  BY <1>a DEF Finds
<1>d. /\ \A k \in Keys : \A i \in AppendsIn(ls2[k]) :
           g[k][i] \in AppendsIn(ls[k]) /\ ls2[k][i].arg = ls[k][g[k][i]].arg
      /\ \A k \in Keys : \A i, j \in AppendsIn(ls2[k]) : g[k][i] = g[k][j] => i = j
  BY <1>b DEF Finds
<1>1. \A i, j \in AppendsIn(es2) : es2[i].arg = es2[j].arg => i = j
  BY <1>c DEF PendingOnce
<1>2. \A k, m \in Keys : \A i \in AppendsIn(ls2[k]), j \in AppendsIn(ls2[m]) :
        ls2[k][i].arg = ls2[m][j].arg => k = m /\ i = j
  <2> SUFFICES ASSUME NEW k \in Keys, NEW m \in Keys, NEW i \in AppendsIn(ls2[k]),
                      NEW j \in AppendsIn(ls2[m]), ls2[k][i].arg = ls2[m][j].arg
               PROVE  k = m /\ i = j
    OBVIOUS
  <2>1. k = m /\ g[k][i] = g[m][j]
    BY <1>d DEF PendingOnce
  <2> QED
    BY <1>d, <2>1
<1>3. \A i \in AppendsIn(es2), k \in Keys : \A j \in AppendsIn(ls2[k]) :
        es2[i].arg # ls2[k][j].arg
  BY <1>c, <1>d DEF PendingOnce
<1>4. \A i \in AppendsIn(es2) : es2[i].arg \in Pending(ls, es)
  BY <1>c DEF Pending
<1>5. \A k \in Keys : \A j \in AppendsIn(ls2[k]) : ls2[k][j].arg \in Pending(ls, es)
  BY <1>d DEF Pending
<1> QED
  BY <1>1, <1>2, <1>3, <1>4, <1>5 DEF PendingOnce, Pending

\* viewWillAppear, after writes of good nodes N, keeps the arrays good.
LEMMA AppearLists ==
  ASSUME TypeOK, TypeOK', LInv, current.uid # NoUID, Appear, UNCHANGED <<server, nextKey>>,
         NEW N,
         \A n \in N : GoodNode(n) /\ Elements(n.list) \subseteq Listed(server, puts, events),
         \A i \in 1..Len(puts') : puts'[i].node \in Nodes(server, puts, events) \cup N
  PROVE  LInv'
<1> DEFINE c == current.uid
           r == [purpose |-> "uids", arg |-> c]
           V == N \cup {View(c)}
<1>1. c \in Keys /\ ClientTypeOK
  BY DEF TypeOK
<1>2. Observe(c, r)
  BY DEF Appear
<1>3. r \in Read /\ r.purpose = "uids"
  BY <1>1 DEF Read, Purposes
<1> HIDE DEF r, c
<1>4. /\ PendingOnce(listens', events')
      /\ Pending(listens', events') \subseteq Pending(listens, events)
  BY <1>1, <1>2, <1>3, ObservePending DEF LInv
<1>5. \A i \in 1..Len(events') : events'[i].node \in Nodes(server, puts, events) \cup {View(c)}
  BY <1>1, <1>2, <1>3, ObservedNodes
<1>6. \A n \in V : GoodNode(n) /\ Elements(n.list) \subseteq Listed(server, puts, events)
  BY <1>1, ViewGood DEF LInv
<1>7. /\ \A k \in Keys : server'[k] \in Nodes(server, puts, events) \cup V
      /\ \A i \in 1..Len(puts') : puts'[i].node \in Nodes(server, puts, events) \cup V
      /\ \A i \in 1..Len(events') : events'[i].node \in Nodes(server, puts, events) \cup V
  BY <1>5, OldNodes
<1> HIDE DEF V
<1> QED
  BY <1>4, <1>6, <1>7, SameLists

\* The screen opens or the edit form is left.
LEMMA ReturnLists ==
  ASSUME RInv, RInv', LInv, OpenReview \/ BackFromEdit
  PROVE  LInv'
<1>1. Appear /\ UNCHANGED <<server, puts, nextKey>> /\ current.uid # NoUID
  BY DEF OpenReview, BackFromEdit, RInv
<1>2. TypeOK /\ TypeOK'
  BY DEF RInv, IInv
<1> DEFINE N == {}
<1>3. \A n \in N : GoodNode(n) /\ Elements(n.list) \subseteq Listed(server, puts, events)
  OBVIOUS
<1>4. \A i \in 1..Len(puts') : puts'[i].node \in Nodes(server, puts, events) \cup N
  BY <1>1, OldNodes
<1> HIDE DEF N
<1> QED
  BY <1>1, <1>2, <1>3, <1>4, AppearLists

\* An edit is confirmed: an alteration's array is empty.
LEMMA EditLists ==
  ASSUME RInv, RInv', LInv, NEW cost \in Costs, ConfirmEdit(cost)
  PROVE  LInv'
<1> DEFINE a == AlterationPut(editing.uid, editing.contractUID, cost)
           N == {a.node}
<1>1. /\ Appear /\ UNCHANGED <<server, nextKey>> /\ current.uid # NoUID
      /\ Issue(<<a>>)
  BY DEF ConfirmEdit, RInv
<1>2. TypeOK /\ TypeOK' /\ puts \in Seq(Put)
  BY DEF RInv, IInv, TypeOK, ClientTypeOK
<1>3. GoodNode(a.node) /\ a.node.list = <<>>
  BY NewNodesGood DEF AlterationPut, PutAt
<1> HIDE DEF a
<1>4. \A n \in N : GoodNode(n) /\ Elements(n.list) \subseteq Listed(server, puts, events)
  BY <1>3, NewNodesGood
<1>5. \A i \in 1..Len(puts') : puts'[i].node \in Nodes(server, puts, events) \cup N
  <2>1. <<a>> \in Seq({a}) /\ {<<a>>[j].node : j \in 1..Len(<<a>>)} \subseteq N
    OBVIOUS
  <2> HIDE DEF N
  <2> QED
    BY <1>1, <1>2, <2>1, IssuedNodes
<1> HIDE DEF N
<1> QED
  BY <1>1, <1>2, <1>4, <1>5, AppearLists

\* A struct's block takes an event that appends nothing.
LEMMA StructLists ==
  ASSUME RInv, RInv', LInv, StructCallback
  PROVE  LInv'
<1>1. /\ UNCHANGED <<server, puts, nextKey, listens>> /\ events # <<>>
      /\ events' = Tail(events)
  BY DEF StructCallback
<1>2. TypeOK /\ TypeOK' /\ ClientTypeOK
  BY DEF RInv, IInv, TypeOK
<1> DEFINE N == {}
<1>3. \A n \in N : GoodNode(n) /\ Elements(n.list) \subseteq Listed(server, puts, events)
  OBVIOUS
<1>4. /\ PendingOnce(listens', events')
      /\ Pending(listens', events') \subseteq Pending(listens, events)
      /\ \A i \in 1..Len(events') : events'[i].node \in Nodes(server, puts, events)
  BY <1>1, <1>2, CallbackPending DEF LInv
<1>5. /\ \A k \in Keys : server'[k] \in Nodes(server, puts, events) \cup N
      /\ \A i \in 1..Len(puts') : puts'[i].node \in Nodes(server, puts, events) \cup N
      /\ \A i \in 1..Len(events') : events'[i].node \in Nodes(server, puts, events) \cup N
  BY <1>1, <1>4, OldNodes
<1> HIDE DEF N
<1> QED
  BY <1>1, <1>2, <1>3, <1>4, <1>5, SameLists

\* The screen is closed: the appends stay.
LEMMA CloseLists ==
  ASSUME RInv, RInv', LInv, CloseReview
  PROVE  LInv'
<1> DEFINE A(q) == {i \in DOMAIN q : q[i].purpose = "append"}
<1>1. /\ UNCHANGED <<server, puts, nextKey>>
      /\ events' = Picked(events, A(events))
      /\ listens' = [k \in Keys |-> Picked(listens[k], A(listens[k]))]
  BY DEF CloseReview
<1>2. TypeOK /\ TypeOK' /\ ClientTypeOK /\ events \in Seq(Event) /\ listens \in [Keys -> Seq(Read)]
  BY DEF RInv, IInv, TypeOK, ClientTypeOK
<1>3. \A T : \A q \in Seq(T) : A(q) = AppendsIn(q)
  BY LenProperties DEF AppendsIn
<1>4. \A T : \A q \in Seq(T) : \E g : Places(g, Picked(q, AppendsIn(q)), q, AppendsIn(q), Len(q))
  BY PickedPositions
<1>5. \A g, s, q, m : Places(g, s, q, AppendsIn(q), m) => Finds(g, s, q)
  BY DEF Places, AppendsIn, Finds
<1>6. PICK f : Places(f, events', events, AppendsIn(events), Len(events))
  BY <1>1, <1>2, <1>3, <1>4
<1>7. \E h : Finds(h, events', events)
  BY <1>5, <1>6
<1>8. \A k \in Keys : \E h : Finds(h, listens'[k], listens[k])
  <2> SUFFICES ASSUME NEW k \in Keys PROVE \E h : Finds(h, listens'[k], listens[k])
    OBVIOUS
  <2>1. listens[k] \in Seq(Read)
    BY <1>2
  <2>2. listens'[k] = Picked(listens[k], AppendsIn(listens[k]))
    BY <1>1, <1>3, <2>1
  <2> QED
    BY <1>4, <1>5, <2>1, <2>2
<1>9. /\ PendingOnce(listens', events')
      /\ Pending(listens', events') \subseteq Pending(listens, events)
  BY <1>7, <1>8, FewerPending DEF LInv
<1> DEFINE N == {}
<1>10. \A n \in N : GoodNode(n) /\ Elements(n.list) \subseteq Listed(server, puts, events)
  OBVIOUS
<1>11. \A i \in 1..Len(events') : events'[i].node \in Nodes(server, puts, events)
  BY <1>6, OldNodes DEF Places
<1>12. /\ \A k \in Keys : server'[k] \in Nodes(server, puts, events) \cup N
       /\ \A i \in 1..Len(puts') : puts'[i].node \in Nodes(server, puts, events) \cup N
       /\ \A i \in 1..Len(events') : events'[i].node \in Nodes(server, puts, events) \cup N
  BY <1>1, <1>11, OldNodes
<1> HIDE DEF N
<1> QED
  BY <1>1, <1>2, <1>9, <1>10, <1>12, SameLists

\* The read of one alteration.
StructRead(k) == [purpose |-> "struct", arg |-> k]

\* What the block of getAlterationUIDs does with the array l: the structs it
\* finds at once, known, are answered, and the others are awaited.
ArrayLoaded(l, known) ==
  LET uids == Elements(l) \ {Marker}
      n == Len(events) - 1
  IN  /\ known \in Seq(Keys \cup {Marker}) /\ Len(known) \in Nat /\ n \in Nat
      /\ Len(events') = n + Len(known)
      /\ \A i \in 1..n : events'[i] = events[i + 1]
      /\ \A a \in 1..Len(known) : events'[n + a] = EventOf(known[a], StructRead(known[a]))
      /\ \A a \in 1..Len(known) : known[a] \in uids /\ Complete(known[a], StructRead(known[a]))
      /\ \A k \in uids : Complete(k, StructRead(k)) => \E a \in 1..Len(known) : known[a] = k
      /\ (\A i, j \in DOMAIN l : l[i] = l[j] => i = j)
           => \A a, b \in 1..Len(known) : known[a] = known[b] => a = b
      /\ \A k \in Keys :
           listens'[k] = IF k \in uids /\ ~Complete(k, StructRead(k))
                           THEN Append(listens[k], StructRead(k)) ELSE listens[k]
      /\ \A k \in uids : k \in Keys /\ AlterationOf(server, puts, k, current.uid, Len(puts) + 1)

\* The block does so.
LEMMA UidsParts ==
  ASSUME RInv, UidsCallback, Head(events).node.kind \in {"contract", "list"}
  PROVE  /\ uidArray' = Head(events).node.list /\ rows' = <<>>
         /\ \E known : ArrayLoaded(Head(events).node.list, known)
<1> DEFINE e == Head(events)
           c == current.uid
           l == e.node.list
           uids == Elements(l) \ {Marker}
           now == {i \in DOMAIN l : l[i] \in uids /\ Complete(l[i], StructRead(l[i]))}
           known == Picked(l, now)
           new == [i \in DOMAIN known |-> EventOf(known[i], StructRead(known[i]))]
           n == Len(events) - 1
<1>1. events # <<>> /\ e.purpose = "uids"
  BY DEF UidsCallback
<1>2. /\ QueuesOK(server, puts, listens, Tail(events), c)
      /\ EventOK(server, puts, c, e)
  BY <1>1, TailQueues DEF RInv
<1>3. /\ uidArray' = l /\ rows' = <<>>
      /\ events' = Tail(events) \o new
      /\ listens' = [k \in Keys |->
           IF k \in uids /\ ~Complete(k, StructRead(k))
             THEN Append(listens[k], StructRead(k)) ELSE listens[k]]
  BY DEF UidsCallback, StructRead
<1>4. l \in Seq(Keys \cup {Marker})
  BY <1>2 DEF EventOK, Event, Node
<1>5. DOMAIN l = 1..Len(l) /\ Len(l) \in Nat
  BY <1>4, LenProperties
<1>6. \A k \in uids : k \in Keys /\ AlterationOf(server, puts, k, c, Len(puts) + 1)
  <2>1. ListKnown(server, puts, l, c, Len(puts) + 1)
    BY <1>1, <1>2 DEF EventOK, OfReview, ArrayKnown
  <2>2. \A k \in uids : \E m \in DOMAIN l : l[m] = k /\ k # Marker
    BY DEF Elements
  <2> HIDE DEF l, uids
  <2> QED
    BY <2>1, <2>2 DEF ListKnown, AlterationOf
<1>7. PICK g : Places(g, known, l, now, Len(l))
  <2> HIDE DEF l, now
  <2> QED
    BY <1>4, PickedPositions
<1>8. known \in Seq(Keys \cup {Marker})
  <2> HIDE DEF l, now
  <2> QED
    BY <1>4, PickedElements
<1>9. DOMAIN known = 1..Len(known) /\ Len(known) \in Nat
  BY <1>8, LenProperties
<1>10. \A j \in 1..Len(l) : j \in now => l[j] \in uids /\ Complete(l[j], StructRead(l[j]))
  OBVIOUS
<1>11. \A k \in uids : Complete(k, StructRead(k)) => \E j \in 1..Len(l) : j \in now /\ l[j] = k
  <2> SUFFICES ASSUME NEW k \in uids, Complete(k, StructRead(k))
               PROVE  \E j \in 1..Len(l) : j \in now /\ l[j] = k
    OBVIOUS
  <2>1. PICK j \in DOMAIN l : l[j] = k
    BY DEF Elements
  <2>2. j \in now
    BY <2>1
  <2> QED
    BY <1>5, <2>1, <2>2
<1> HIDE DEF l, now, uids, known
<1>12. \A a \in 1..Len(known) : known[a] \in uids /\ Complete(known[a], StructRead(known[a]))
  <2> SUFFICES ASSUME NEW a \in 1..Len(known)
               PROVE  known[a] \in uids /\ Complete(known[a], StructRead(known[a]))
    OBVIOUS
  <2>1. g[a] \in 1..Len(l) /\ g[a] \in now /\ known[a] = l[g[a]]
    BY <1>7 DEF Places
  <2> QED
    BY <1>10, <2>1
<1>13. \A k \in uids : Complete(k, StructRead(k)) => \E a \in 1..Len(known) : known[a] = k
  <2> SUFFICES ASSUME NEW k \in uids, Complete(k, StructRead(k))
               PROVE  \E a \in 1..Len(known) : known[a] = k
    OBVIOUS
  <2>1. PICK j \in 1..Len(l) : j \in now /\ l[j] = k
    BY <1>11
  <2>2. PICK a \in 1..Len(known) : g[a] = j
    BY <1>7, <2>1 DEF Places
  <2>3. known[a] = l[g[a]]
    BY <1>7 DEF Places
  <2> QED
    BY <2>1, <2>2, <2>3
<1>14. (\A i, j \in DOMAIN l : l[i] = l[j] => i = j)
         => \A a, b \in 1..Len(known) : known[a] = known[b] => a = b
  <2> SUFFICES ASSUME \A i, j \in DOMAIN l : l[i] = l[j] => i = j,
                      NEW a \in 1..Len(known), NEW b \in 1..Len(known), known[a] = known[b]
               PROVE  a = b
    OBVIOUS
  <2>1. /\ g[a] \in DOMAIN l /\ g[b] \in DOMAIN l
        /\ known[a] = l[g[a]] /\ known[b] = l[g[b]]
    BY <1>5, <1>7 DEF Places
  <2>2. g[a] = g[b]
    BY <2>1
  <2> QED
    BY <1>7, <2>2 DEF Places
<1>15. \A k \in uids : EventOf(k, StructRead(k)) \in Event
  <2>1. \A k \in uids : StructRead(k) \in Read
    BY <1>6 DEF Read, Purposes, StructRead
  <2>2. ClientTypeOK
    BY DEF RInv, IInv, TypeOK
  <2> QED
    BY <1>6, <2>1, <2>2, EventOfType
<1>16. /\ new \in Seq(Event) /\ Len(new) = Len(known)
       /\ \A a \in 1..Len(known) : new[a] = EventOf(known[a], StructRead(known[a]))
  <2>1. \A a \in DOMAIN known : EventOf(known[a], StructRead(known[a])) \in Event
    BY <1>9, <1>12, <1>15
  <2>2. new \in Seq(Event)
    BY <1>8, <2>1, MapType
  <2>3. DOMAIN new = 1..Len(new) /\ Len(new) \in Nat
    BY <2>2, LenProperties
  <2> QED
    BY <1>9, <2>2, <2>3
<1>17. /\ n \in Nat /\ Tail(events) \in Seq(Event) /\ Len(Tail(events)) = n
       /\ \A i \in 1..n : Tail(events)[i] = events[i + 1]
  <2>1. events \in Seq(Event)
    BY DEF RInv, QueuesOK
  <2> QED
    BY <1>1, <2>1, HeadTailProperties, LenProperties
<1> HIDE DEF new, n
<1>18. /\ Len(events') = n + Len(known)
       /\ \A i \in 1..n : events'[i] = events[i + 1]
       /\ \A a \in 1..Len(known) : events'[n + a] = EventOf(known[a], StructRead(known[a]))
  <2> DEFINE t == Tail(events)
  <2> HIDE DEF t
  <2>1. /\ t \in Seq(Event) /\ Len(t) = n /\ events' = t \o new
        /\ \A i \in 1..n : t[i] = events[i + 1]
    BY <1>3, <1>17 DEF t
  <2>2. /\ Len(t \o new) = Len(t) + Len(new)
        /\ \A i \in 1..Len(t) : (t \o new)[i] = t[i]
        /\ \A i \in 1..Len(new) : (t \o new)[Len(t) + i] = new[i]
    <3>1. t \in Seq(Event) /\ new \in Seq(Event)
      BY <1>16, <2>1
    <3> QED
      BY <3>1, ConcatParts
  <2> QED
    BY <1>16, <2>1, <2>2
<1>19. \A k \in Keys :
         listens'[k] = IF k \in uids /\ ~Complete(k, StructRead(k))
                         THEN Append(listens[k], StructRead(k)) ELSE listens[k]
  BY <1>3
<1>20. ArrayLoaded(l, known)
  BY <1>6, <1>8, <1>9, <1>12, <1>13, <1>14, <1>17, <1>18, <1>19 DEF ArrayLoaded, uids, n
<1> QED
  BY <1>3, <1>20 DEF l

\* Loading the array leaves the pending appends as they are, and good arrays.
LEMMA UidsLists ==
  ASSUME RInv, RInv', LInv, UidsCallback
  PROVE  LInv'
<1>1. /\ UNCHANGED <<server, puts, nextKey>> /\ events # <<>>
  BY DEF UidsCallback
<1>2. TypeOK /\ TypeOK' /\ ClientTypeOK
  BY DEF RInv, IInv, TypeOK
<1>3. CASE Head(events).node.kind \notin {"contract", "list"}
  <2>1. events' = Tail(events) /\ UNCHANGED listens
    BY <1>3 DEF UidsCallback
  <2> DEFINE N == {}
  <2>3. \A n \in N : GoodNode(n) /\ Elements(n.list) \subseteq Listed(server, puts, events)
    OBVIOUS
  <2>4. /\ PendingOnce(listens', events')
        /\ Pending(listens', events') \subseteq Pending(listens, events)
        /\ \A i \in 1..Len(events') : events'[i].node \in Nodes(server, puts, events)
    BY <1>1, <1>2, <2>1, CallbackPending DEF LInv
  <2>5. /\ \A k \in Keys : server'[k] \in Nodes(server, puts, events) \cup N
        /\ \A i \in 1..Len(puts') : puts'[i].node \in Nodes(server, puts, events) \cup N
        /\ \A i \in 1..Len(events') : events'[i].node \in Nodes(server, puts, events) \cup N
    BY <1>1, <2>4, OldNodes
  <2> HIDE DEF N
  <2> QED
    BY <1>1, <1>2, <2>3, <2>4, <2>5, SameLists
<1>4. CASE Head(events).node.kind \in {"contract", "list"}
  <2> DEFINE l == Head(events).node.list
             n == Len(events) - 1
             uids == Elements(l) \ {Marker}
             N == {View(k) : k \in Keys}
  <2>1. PICK known : ArrayLoaded(l, known)
    BY <1>4, UidsParts
  <2> HIDE DEF l
  <2>2. /\ Len(known) \in Nat /\ n \in Nat
        /\ Len(events') = n + Len(known)
        /\ \A i \in 1..n : events'[i] = events[i + 1]
        /\ \A a \in 1..Len(known) : events'[n + a] = EventOf(known[a], StructRead(known[a]))
        /\ \A a \in 1..Len(known) : known[a] \in Keys
        /\ \A k \in Keys :
             listens'[k] = IF k \in uids /\ ~Complete(k, StructRead(k))
                             THEN Append(listens[k], StructRead(k)) ELSE listens[k]
    BY <2>1 DEF ArrayLoaded
  <2>3. /\ \A i \in 1..n : i + 1 \in 1..Len(events)
        /\ \A i \in 1..Len(events') : \/ i \in 1..n
                                      \/ \E a \in 1..Len(known) : i = n + a
    <3>1. Len(events) \in Nat
      BY <1>2, LenProperties DEF ClientTypeOK
    <3>2. \A i \in 1..n : i + 1 \in 1..Len(events)
      BY <3>1, <2>2
    <3> HIDE DEF n
    <3>3. ASSUME NEW i \in 1..Len(events'), i \notin 1..n
          PROVE  \E a \in 1..Len(known) : i = n + a
      <4>1. i - n \in 1..Len(known) /\ i = n + (i - n)
        BY <2>2, <3>3
      <4> QED
        BY <4>1
    <3> QED
      BY <3>2, <3>3
  <2> HIDE DEF n, uids
  <2>4. \A k, r : EventOf(k, r).purpose = r.purpose /\ EventOf(k, r).node = View(k)
    BY DEF EventOf
  <2>5. \A k : StructRead(k).purpose = "struct"
    BY DEF StructRead
  <2>6. \E f : Finds(f, events', events)
    <3> DEFINE f == [i \in 1..n |-> i + 1]
    <3>1. ASSUME NEW i \in AppendsIn(events') PROVE i \in 1..n
      <4>1. i \in 1..Len(events') /\ events'[i].purpose = "append"
        BY DEF AppendsIn
      <4>2. ASSUME NEW a \in 1..Len(known), i = n + a PROVE FALSE
        <5>1. events'[i].purpose = "struct"
          BY <2>2, <2>4, <2>5, <4>2
        <5> QED
          BY <4>1, <5>1
      <4> QED
        BY <2>3, <4>1, <4>2
    <3>2. \A i \in AppendsIn(events') :
            /\ f[i] = i + 1 /\ f[i] \in AppendsIn(events) /\ events'[i].arg = events[f[i]].arg
      BY <2>2, <2>3, <3>1 DEF AppendsIn
    <3>3. \A i \in AppendsIn(events') : i \in Int
      BY <2>2, <3>1
    <3> HIDE DEF f
    <3>4. Finds(f, events', events)
      BY <3>2, <3>3 DEF Finds
    <3> QED
      BY <3>4
  <2>7. \A k \in Keys : \E g : Finds(g, listens'[k], listens[k])
    <3> SUFFICES ASSUME NEW k \in Keys PROVE \E g : Finds(g, listens'[k], listens[k])
      OBVIOUS
    <3> DEFINE q == listens[k]
               p == listens'[k]
               r == StructRead(k)
               f == [i \in 1..Len(q) |-> i]
    <3>1. q \in Seq(Read) /\ Len(q) \in Nat /\ r \in Read /\ r.purpose = "struct"
      BY <1>2, LenProperties DEF ClientTypeOK, StructRead, Read, Purposes
    <3>2. p = q \/ p = Append(q, r)
      BY <2>2
    <3> HIDE DEF r, q, p
    <3>3. /\ Len(Append(q, r)) = Len(q) + 1
          /\ \A i \in 1..Len(q) : Append(q, r)[i] = q[i]
          /\ Append(q, r)[Len(q) + 1] = r
      BY <3>1, AppendProperties
    <3>4. ASSUME NEW i \in AppendsIn(p) PROVE i \in 1..Len(q) /\ p[i] = q[i]
      BY <3>1, <3>2, <3>3 DEF AppendsIn
    <3>5. Finds(f, p, q)
      BY <3>4 DEF Finds, AppendsIn
    <3> QED
      BY <3>5 DEF p, q
  <2>8. /\ PendingOnce(listens', events')
        /\ Pending(listens', events') \subseteq Pending(listens, events)
    BY <2>6, <2>7, FewerPending DEF LInv
  <2>9. \A m \in N : GoodNode(m) /\ Elements(m.list) \subseteq Listed(server, puts, events)
    BY <1>2, ViewGood DEF LInv
  <2>10. \A i \in 1..Len(events') : events'[i].node \in Nodes(server, puts, events) \cup N
    <3> SUFFICES ASSUME NEW i \in 1..Len(events')
                 PROVE  events'[i].node \in Nodes(server, puts, events) \cup N
      OBVIOUS
    <3>1. CASE i \in 1..n
      BY <2>2, <2>3, <3>1, OldNodes
    <3>2. ASSUME NEW a \in 1..Len(known), i = n + a
          PROVE  events'[i].node \in N
      BY <2>2, <2>4, <3>2
    <3> QED
      BY <2>3, <3>1, <3>2
  <2> HIDE DEF N
  <2>11. /\ \A k \in Keys : server'[k] \in Nodes(server, puts, events) \cup N
         /\ \A i \in 1..Len(puts') : puts'[i].node \in Nodes(server, puts, events) \cup N
    BY <1>1, OldNodes
  <2> QED
    BY <1>1, <1>2, <2>8, <2>9, <2>10, <2>11, SameLists
<1> QED
  BY <1>3, <1>4

\* Every step keeps the arrays good, with a review open or not.
LEMMA ReviewListsKept ==
  ASSUME RInv, RInv', LInv, [NextAll]_allVars
  PROVE  LInv'
<1>1. TypeOK /\ TypeOK'
  BY DEF RInv, IInv
<1>2. CASE AtHome \/ Background \/ KillAll
  <2>1. [Next]_vars
    BY <1>2 DEF AtHome, Background, KillAll, Next
  <2> QED
    BY <1>1, <2>1, ListsKept
<1>3. CASE UNCHANGED vars
  BY <1>1, <1>3, ListsKept
<1>4. ASSUME NEW i \in DOMAIN shown, SelectRow(i) PROVE LInv'
  BY <1>3, <1>4 DEF SelectRow
<1>5. CASE OpenReviewWithoutContract \/ ReviewAndSign \/ UNCHANGED allVars
  BY <1>3, <1>5 DEF OpenReviewWithoutContract, ReviewAndSign, allVars
<1>6. ASSUME NEW cost \in Costs, ConfirmEdit(cost) PROVE LInv'
  BY <1>6, EditLists
<1> QED
  BY <1>2, <1>4, <1>5, <1>6, ReturnLists, StructLists, UidsLists, CloseLists DEF NextAll

\* What a step does to the writes and to the server.
WritesStep ==
  \/ UNCHANGED <<server, applied>> /\ \E T : \E ps \in Seq(T) : Issue(ps)
  \/ UNCHANGED server /\ puts' = <<>> /\ applied' = 0
  \/ ServerApply
  \/ UNCHANGED <<server, puts>> /\ applied' \in {applied, acked}

\* Every step is such a step.
LEMMA StepWrites ==
  ASSUME [NextAll]_allVars
  PROVE  WritesStep
<1>1. CASE AtHome \/ (AppendCallback /\ Background)
  <2>1. /\ UNCHANGED <<server, applied, acked, released, connected>>
        /\ \E T : \E ps \in Seq(T) : Issue(ps)
    BY <1>1, HandlersIssue DEF AtHome
  <2> QED
    BY <2>1 DEF WritesStep
<1>2. CASE Network
  BY <1>2 DEF WritesStep, Network, ClientStep, PutAcked, ListenAnswered, Disconnect, Reconnect
<1>3. CASE KillAll
  BY <1>3 DEF WritesStep, KillAll, Kill, ClientKilled
<1>4. ASSUME NEW cost \in Costs, ConfirmEdit(cost) PROVE WritesStep
  <2> DEFINE a == AlterationPut(editing.uid, editing.contractUID, cost)
  <2>1. UNCHANGED <<server, applied>> /\ Issue(<<a>>)
    BY <1>4 DEF ConfirmEdit
  <2> HIDE DEF a
  <2>2. <<a>> \in Seq({a})
    OBVIOUS
  <2> QED
    BY <2>1, <2>2 DEF WritesStep
<1>5. CASE UNCHANGED <<server, puts, applied>>
  BY <1>5 DEF WritesStep
<1>6. CASE OpenReview \/ BackFromEdit \/ UidsCallback \/ StructCallback \/ CloseReview
  BY <1>5, <1>6 DEF OpenReview, BackFromEdit, UidsCallback, StructCallback, CloseReview
<1>7. CASE UNCHANGED vars
  BY <1>5, <1>7 DEF vars, clientVars
<1>8. CASE OpenReviewWithoutContract \/ ReviewAndSign \/ UNCHANGED allVars
           \/ (\E i \in DOMAIN shown : SelectRow(i))
  BY <1>7, <1>8 DEF OpenReviewWithoutContract, ReviewAndSign, allVars, SelectRow
<1> QED
  BY <1>1, <1>2, <1>3, <1>4, <1>6, <1>8 DEF NextAll, Background

\* An alteration that was applied is never undone.
LEMMA AlterationsStay ==
  ASSUME IInv, AlterationStays(server, puts, applied), WritesStep
  PROVE  AlterationStays(server', puts', applied')
<1>0. /\ puts \in Seq(Put) /\ server \in [Keys -> Node] /\ applied \in Nat /\ acked \in Nat
      /\ Len(puts) \in Nat /\ acked <= applied /\ applied <= Len(puts)
  BY DEF IInv, TypeOK, ClientTypeOK
<1>1. CASE UNCHANGED <<server, applied>> /\ \E T : \E ps \in Seq(T) : Issue(ps)
  <2>1. /\ Len(puts') \in Nat /\ Len(puts) <= Len(puts')
        /\ \A i \in 1..Len(puts) : puts'[i] = puts[i]
    BY <1>0, <1>1, IssueAppends
  <2> SUFFICES ASSUME NEW j \in 1..applied, puts'[j].node.kind = "alteration"
               PROVE  \E i \in j..Len(puts') : /\ puts'[i].key = puts'[j].key
                                               /\ server[puts'[j].key] = puts'[i].node
    BY <1>1 DEF AlterationStays
  <2>2. puts'[j] = puts[j]
    BY <1>0, <2>1
  <2>3. PICK i \in j..Len(puts) : /\ puts[i].key = puts[j].key
                                  /\ server[puts[j].key] = puts[i].node
    BY <2>2 DEF AlterationStays
  <2>4. i \in j..Len(puts') /\ puts'[i] = puts[i]
    BY <1>0, <2>1, <2>3
  <2> QED
    BY <2>2, <2>3, <2>4
<1>2. CASE applied' = 0
  BY <1>2 DEF AlterationStays
<1>3. CASE ServerApply
  <2> DEFINE n == applied + 1
             p == puts[n]
  <2>1. /\ n \in 1..Len(puts) /\ applied' = n /\ UNCHANGED puts
        /\ server' = [server EXCEPT ![p.key] = Overwrite(server[p.key], p.node)]
    BY <1>0, <1>3 DEF ServerApply
  <2>2. p.key \in Keys /\ p.node \in Node
    <3>1. p \in Put
      BY <1>0, <2>1, ElementOfSeq
    <3> QED
      BY <3>1 DEF Put
  <2>3. \A k \in Keys : k # p.key => server'[k] = server[k]
    BY <1>0, <2>1, <2>2
  <2> SUFFICES ASSUME NEW j \in 1..n, puts[j].node.kind = "alteration"
               PROVE  \E i \in j..Len(puts) : /\ puts[i].key = puts[j].key
                                              /\ server'[puts[j].key] = puts[i].node
    BY <2>1 DEF AlterationStays
  <2>4. CASE puts[j].key = p.key
    <3>1. n \in j..Len(puts)
      BY <1>0, <2>1
    <3>2. p.node.kind # "list"
      <4> SUFFICES ASSUME p.node.kind = "list" PROVE FALSE
        OBVIOUS
      <4>1. j \in 1..applied /\ j \in 1..Len(puts)
        BY <1>0, <2>1
      <4>2. server[p.key].kind = "alteration"
        BY <2>4, <4>1 DEF IInv, AppliedStored, SameIdentity
      <4>3. Known(server, puts, p.key, "contract", n)
        BY <2>1 DEF IInv, PutsClosed, NodeKnown
      <4>4. PICK m \in 1..n - 1 : puts[m].key = p.key /\ puts[m].node.kind = "contract"
        BY <4>2, <4>3 DEF Known
      <4>5. m \in 1..Len(puts)
        BY <1>0, <2>1
      <4> QED
        BY <2>4, <4>1, <4>4, <4>5 DEF IInv, OneObjectPerKey, SameIdentity
    <3>3. server'[p.key] = p.node
      BY <1>0, <2>1, <2>2, <3>2 DEF Overwrite
    <3> HIDE DEF n
    <3> QED
      BY <2>4, <3>1, <3>3
  <2>5. CASE puts[j].key # p.key
    <3>1. j \in 1..applied /\ j \in 1..Len(puts)
      BY <1>0, <2>1, <2>5
    <3>2. PICK i \in j..Len(puts) : /\ puts[i].key = puts[j].key
                                    /\ server[puts[j].key] = puts[i].node
      BY <3>1 DEF AlterationStays
    <3>3. puts[j].key \in Keys
      <4>1. puts[j] \in Put
        BY <1>0, <3>1, ElementOfSeq
      <4> QED
        BY <4>1 DEF Put
    <3>4. server'[puts[j].key] = server[puts[j].key]
      BY <2>3, <2>5, <3>3
    <3> QED
      BY <3>2, <3>4
  <2> QED
    BY <2>4, <2>5
<1>4. CASE UNCHANGED <<server, puts>> /\ applied' \in {applied, acked}
  <2>1. 1..applied' \subseteq 1..applied
    BY <1>0, <1>4
  <2> QED
    BY <1>4, <2>1 DEF AlterationStays
<1> QED
  BY <1>1, <1>2, <1>3, <1>4 DEF WritesStep

-----------------------------------------------------------------------------
(* What is read: an alteration with its last cost, a contract.             *)

\* A push id is not both a contract's and an alteration's.
LEMMA NotBoth ==
  ASSUME IInv, NEW k, NEW c, Known(server, puts, k, "contract", Len(puts) + 1),
         AlterationOf(server, puts, k, c, Len(puts) + 1)
  PROVE  FALSE
<1>1. Len(puts) \in Nat
  BY LenProperties DEF IInv, TypeOK, ClientTypeOK
<1>2. \A i \in 1..(Len(puts) + 1) - 1 : i \in 1..Len(puts)
  BY <1>1
<1>3. CASE server[k].kind = "contract"
  <2>1. PICK j \in 1..Len(puts) : puts[j].key = k /\ puts[j].node.kind = "alteration"
    BY <1>2, <1>3 DEF AlterationOf
  <2> QED
    BY <1>3, <2>1 DEF IInv, OneObjectPerKey, SameIdentity
<1>4. CASE server[k].kind # "contract"
  <2>1. PICK j \in 1..Len(puts) : puts[j].key = k /\ puts[j].node.kind = "contract"
    BY <1>2, <1>4 DEF Known
  <2>2. CASE server[k].kind = "alteration"
    BY <2>1, <2>2 DEF IInv, OneObjectPerKey, SameIdentity
  <2>3. CASE server[k].kind # "alteration"
    <3>1. PICK m \in 1..Len(puts) : puts[m].key = k /\ puts[m].node.kind = "alteration"
      BY <1>2, <2>3 DEF AlterationOf
    <3> QED
      BY <2>1, <3>1 DEF IInv, OneObjectPerKey, SameIdentity
  <2> QED
    BY <2>2, <2>3
<1> QED
  BY <1>3, <1>4

\* Every write to an alteration's push id is of the alteration.
LEMMA AlterationWrites ==
  ASSUME IInv, NEW k, NEW c, AlterationOf(server, puts, k, c, Len(puts) + 1),
         NEW i \in 1..Len(puts), puts[i].key = k
  PROVE  puts[i].node.kind = "alteration"
<1>1. Len(puts) \in Nat
  BY LenProperties DEF IInv, TypeOK, ClientTypeOK
<1>2. \A j \in 1..(Len(puts) + 1) - 1 : j \in 1..Len(puts)
  BY <1>1
<1>3. puts[i].node.kind # "list"
  <2> SUFFICES ASSUME puts[i].node.kind = "list" PROVE FALSE
    OBVIOUS
  <2>1. Known(server, puts, k, "contract", i)
    BY DEF IInv, PutsClosed, NodeKnown
  <2>2. \A j \in 1..i - 1 : j \in 1..(Len(puts) + 1) - 1
    BY <1>1
  <2>3. Known(server, puts, k, "contract", Len(puts) + 1)
    BY <2>1, <2>2 DEF Known
  <2> QED
    BY <2>3, NotBoth
<1>4. CASE server[k].kind = "alteration"
  BY <1>3, <1>4 DEF IInv, OneObjectPerKey, SameIdentity
<1>5. CASE server[k].kind # "alteration"
  <2>1. PICK m \in 1..Len(puts) : puts[m].key = k /\ puts[m].node.kind = "alteration"
    BY <1>2, <1>5 DEF AlterationOf
  <2> QED
    BY <1>3, <2>1 DEF IInv, OneObjectPerKey, SameIdentity
<1> QED
  BY <1>4, <1>5

\* An alteration is read with the cost it was last given.
LEMMA AlterationView ==
  ASSUME IInv, AlterationStays(server, puts, applied), NEW k \in Keys, NEW c,
         AlterationOf(server, puts, k, c, Len(puts) + 1)
  PROVE  View(k).kind = "alteration" /\ View(k).cost = LastCost(server, puts, k)
<1> DEFINE W == {i \in 1..Len(puts) : puts[i].key = k}
           R == WritesTo(k)
<1>1. /\ Len(puts) \in Nat /\ DOMAIN puts = 1..Len(puts)
      /\ released \in Nat /\ applied \in Nat /\ released <= applied /\ applied <= Len(puts)
  BY LenProperties DEF IInv, TypeOK, ClientTypeOK
<1>2. R = {i \in W : i > released}
  BY <1>1 DEF WritesTo
<1>3. \A i \in W : puts[i].node.kind = "alteration"
  BY AlterationWrites
<1>4. LastCost(server, puts, k) = IF W = {} THEN server[k].cost ELSE puts[Latest(W)].node.cost
  BY DEF LastCost
<1>5. \A i \in W : i \in 1..Len(puts) /\ puts[i].key = k
  OBVIOUS
<1>6. W \in SUBSET (1..Len(puts)) /\ R \in SUBSET (1..Len(puts))
  BY <1>2
<1>a. W = {} => server[k].kind = "alteration"
  BY <1>1 DEF AlterationOf
<1>7. W # {} => Latest(W) \in W /\ \A j \in W : j <= Latest(W)
  <2> HIDE DEF W
  <2> QED
    BY <1>1, <1>6, LatestExists
<1> HIDE DEF W
<1>8. CASE R # {}
  <2>1. Latest(R) \in R /\ \A j \in R : j <= Latest(R)
    <3> HIDE DEF R
    <3> QED
      BY <1>1, <1>6, <1>8, LatestExists
  <2> HIDE DEF R
  <2>2. W # {} /\ Latest(W) \in W /\ \A j \in W : j <= Latest(W)
    BY <1>2, <1>7, <1>8
  <2>3. Latest(R) \in W /\ Latest(R) <= Latest(W) /\ Latest(W) \in R
    BY <1>1, <1>2, <1>5, <2>1, <2>2
  <2>4. Latest(W) = Latest(R)
    <3>1. Latest(W) \in Int /\ Latest(R) \in Int
      BY <1>1, <1>5, <2>2, <2>3
    <3>2. Latest(W) <= Latest(R)
      BY <2>1, <2>3
    <3> QED
      BY <2>3, <3>1, <3>2
  <2> DEFINE base == IF Shadows(k) = {} THEN server[k] ELSE puts[Latest(Shadows(k))].node
  <2>5. View(k) = Overwrite(base, puts[Latest(R)].node)
    BY <1>8 DEF View, R
  <2> HIDE DEF base
  <2>6. View(k) = puts[Latest(R)].node
    BY <1>3, <2>3, <2>5 DEF Overwrite
  <2> QED
    BY <1>3, <1>4, <2>2, <2>4, <2>6
<1>9. CASE R = {}
  <2>1. View(k) = server[k]
    BY <1>9 DEF View, Shadows
  <2> HIDE DEF R
  <2>2. CASE W = {}
    BY <1>4, <1>a, <2>1, <2>2
  <2>3. CASE W # {}
    <3> DEFINE w == Latest(W)
    <3>1. w \in W /\ \A j \in W : j <= w
      BY <1>7, <2>3
    <3> HIDE DEF w
    <3>2. w \in 1..Len(puts) /\ puts[w].key = k /\ puts[w].node.kind = "alteration"
      BY <1>3, <1>5, <3>1
    <3>3. w \in 1..applied
      <4>1. ~(w > released)
        BY <1>2, <1>9, <3>1
      <4> QED
        BY <1>1, <3>2, <4>1
    <3>4. PICK i \in w..Len(puts) : puts[i].key = k /\ server[k] = puts[i].node
      BY <3>2, <3>3 DEF AlterationStays
    <3>5. i \in W
      BY <1>1, <3>2, <3>4 DEF W
    <3>6. i = w
      BY <1>1, <3>1, <3>2, <3>4, <3>5
    <3> QED
      BY <1>4, <2>1, <2>3, <3>2, <3>4, <3>6 DEF w
  <2> QED
    BY <2>2, <2>3
<1> QED
  BY <1>8, <1>9

\* A contract is read as a contract.
LEMMA ContractView ==
  ASSUME IInv, NEW k \in Keys, Known(server, puts, k, "contract", Len(puts) + 1)
  PROVE  View(k).kind = "contract"
<1> DEFINE base == IF Shadows(k) = {} THEN server[k] ELSE puts[Latest(Shadows(k))].node
<1>1. /\ Len(puts) \in Nat /\ DOMAIN puts = 1..Len(puts) /\ server \in [Keys -> Node]
      /\ puts \in Seq(Put)
      /\ released \in Nat /\ applied \in Nat /\ released <= applied /\ applied <= Len(puts)
  BY LenProperties DEF IInv, TypeOK, ClientTypeOK
<1>2. \A j \in 1..(Len(puts) + 1) - 1 : j \in 1..Len(puts)
  BY <1>1
<1>3. \A i \in 1..Len(puts) : (puts[i].key = k /\ puts[i].node.kind # "list")
        => puts[i].node.kind = "contract"
  <2>1. CASE server[k].kind = "contract"
    BY <2>1 DEF IInv, OneObjectPerKey, SameIdentity
  <2>2. CASE server[k].kind # "contract"
    <3>1. PICK j \in 1..Len(puts) : puts[j].key = k /\ puts[j].node.kind = "contract"
      BY <1>2, <2>2 DEF Known
    <3> QED
      BY <3>1 DEF IInv, OneObjectPerKey, SameIdentity
  <2> QED
    BY <2>1, <2>2
<1>4. /\ WritesTo(k) \in SUBSET (1..Len(puts)) /\ Shadows(k) \in SUBSET (1..Len(puts))
      /\ \A i \in WritesTo(k) : puts[i].key = k
      /\ \A i \in Shadows(k) : puts[i].key = k /\ puts[i].node.kind # "list"
      /\ \A i \in 1..Len(puts) : (i > released /\ puts[i].key = k /\ puts[i].node.kind # "list")
                                   => i \in Shadows(k)
  BY <1>1 DEF WritesTo, Shadows
<1>5. base.kind = "contract" /\ base \in Node
  <2>1. CASE Shadows(k) # {}
    <3>1. Latest(Shadows(k)) \in Shadows(k)
      BY <1>1, <1>4, <2>1, LatestExists
    <3>2. puts[Latest(Shadows(k))] \in Put
      BY <1>1, <1>4, <3>1, ElementOfSeq
    <3> QED
      BY <1>3, <1>4, <2>1, <3>1, <3>2 DEF Put
  <2>2. CASE Shadows(k) = {}
    <3>1. CASE server[k].kind = "contract"
      BY <1>1, <2>2, <3>1
    <3>2. CASE server[k].kind # "contract"
      <4>1. PICK j \in 1..Len(puts) : puts[j].key = k /\ puts[j].node.kind = "contract"
        BY <1>2, <3>2 DEF Known
      <4>2. j \in 1..applied
        BY <1>1, <1>4, <2>2, <4>1
      <4> QED
        BY <3>2, <4>1, <4>2 DEF IInv, AppliedStored, SameIdentity
    <3> QED
      BY <3>1, <3>2
  <2> QED
    BY <2>1, <2>2
<1>6. View(k) = IF WritesTo(k) = {} THEN base ELSE Overwrite(base, puts[Latest(WritesTo(k))].node)
  BY DEF View
<1> HIDE DEF base
<1>7. CASE WritesTo(k) # {}
  <2> DEFINE x == puts[Latest(WritesTo(k))].node
  <2>1. Latest(WritesTo(k)) \in WritesTo(k)
    BY <1>1, <1>4, <1>7, LatestExists
  <2>2. x.kind = "list" \/ x.kind = "contract"
    BY <1>3, <1>4, <2>1
  <2>3. View(k) = Overwrite(base, x)
    BY <1>6, <1>7
  <2> HIDE DEF x
  <2> QED
    BY <1>5, <2>2, <2>3 DEF Overwrite, Node
<1> QED
  BY <1>5, <1>6, <1>7

\* Applying a write changes no cost.
LEMMA ApplyCost ==
  ASSUME IInv, ServerApply, NEW k \in Keys
  PROVE  LastCost(server', puts', k) = LastCost(server, puts, k)
<1> DEFINE p == puts[applied + 1]
           W == {i \in 1..Len(puts) : puts[i].key = k}
<1>1. /\ applied + 1 \in 1..Len(puts) /\ puts' = puts /\ server \in [Keys -> Node]
      /\ server' = [server EXCEPT ![p.key] = Overwrite(server[p.key], p.node)]
  BY LenProperties DEF ServerApply, IInv, TypeOK, ClientTypeOK
<1>2. W = {} => server'[k] = server[k]
  BY <1>1
<1>3. /\ LastCost(server, puts, k) = IF W = {} THEN server[k].cost ELSE puts[Latest(W)].node.cost
      /\ LastCost(server', puts, k) = IF W = {} THEN server'[k].cost ELSE puts[Latest(W)].node.cost
  BY DEF LastCost
<1> HIDE DEF W
<1> QED
  BY <1>1, <1>2, <1>3

\* Neither does a write to another push id.
LEMMA OtherCost ==
  ASSUME NEW T, NEW ps \in Seq(T), puts \in Seq(Put), Issue(ps), UNCHANGED server, NEW k,
         \A i \in 1..Len(ps) : ps[i].key # k
  PROVE  LastCost(server', puts', k) = LastCost(server, puts, k)
<1> DEFINE W == {i \in 1..Len(puts) : puts[i].key = k}
           V == {i \in 1..Len(puts') : puts'[i].key = k}
<1>1. /\ Len(puts') = Len(puts) + Len(ps) /\ Len(puts) \in Nat /\ Len(ps) \in Nat
      /\ \A i \in 1..Len(puts) : puts'[i] = puts[i]
      /\ \A i \in 1..Len(ps) : puts'[Len(puts) + i] = ps[i]
  BY IssueAppends
<1>2. \A i \in 1..Len(puts') : i \in 1..Len(puts) \/ puts'[i].key # k
  <2> SUFFICES ASSUME NEW i \in 1..Len(puts'), i \notin 1..Len(puts) PROVE puts'[i].key # k
    OBVIOUS
  <2>1. i - Len(puts) \in 1..Len(ps) /\ i = Len(puts) + (i - Len(puts))
    BY <1>1
  <2>2. puts'[i] = ps[i - Len(puts)]
    BY <1>1, <2>1
  <2> QED
    BY <2>1, <2>2
<1>3. \A i \in 1..Len(puts) : i \in 1..Len(puts')
  BY <1>1
<1>4. V = W
  BY <1>1, <1>2, <1>3
<1>5. /\ LastCost(server, puts, k) = IF W = {} THEN server[k].cost ELSE puts[Latest(W)].node.cost
      /\ LastCost(server', puts', k) = IF V = {} THEN server'[k].cost ELSE puts'[Latest(V)].node.cost
  BY DEF LastCost
<1>6. W # {} => Latest(W) \in 1..Len(puts)
  <2>1. W \in SUBSET (1..Len(puts))
    OBVIOUS
  <2> HIDE DEF W
  <2> QED
    BY <1>1, <2>1, LatestExists
<1> HIDE DEF W, V
<1> QED
  BY <1>1, <1>4, <1>5, <1>6

-----------------------------------------------------------------------------
(* The phases, step by step.                                               *)

\* No open reads means no reads but appends in the queues.
LEMMA NoOpenReads ==
  ASSUME listens \in [Keys -> Seq(Read)], events \in Seq(Event), OpenReads = {}
  PROVE  OnlyAppends(listens, events)
<1>1. ASSUME NEW i \in 1..Len(events) PROVE events[i].purpose = "append"
  <2>1. events[i] \in Elements(events)
    BY LenProperties DEF Elements
  <2> QED
    BY <2>1 DEF OpenReads
<1>2. ASSUME NEW k \in Keys, NEW i \in 1..Len(listens[k])
      PROVE  listens[k][i].purpose = "append"
  <2>1. listens[k][i] \in Elements(listens[k])
    BY LenProperties DEF Elements
  <2>2. {r \in Elements(listens[k]) : r.purpose # "append"} \subseteq OpenReads
    BY DEF OpenReads
  <2> QED
    BY <2>1, <2>2
<1> QED
  BY <1>1, <1>2 DEF OnlyAppends

\* So no position of a queue is one of the review's reads.
LEMMA NoneOpen ==
  ASSUME listens \in [Keys -> Seq(Read)], events \in Seq(Event), OpenReads = {}
  PROVE  /\ UidsIn(events) = {} /\ StructsIn(events) = {}
         /\ \A k \in Keys : UidsIn(listens[k]) = {} /\ StructsIn(listens[k]) = {}
<1>1. OnlyAppends(listens, events)
  BY NoOpenReads
<1> QED
  BY <1>1 DEF OnlyAppends, UidsIn, StructsIn

\* Asking for the array when nothing else is open.
LEMMA AppearPhase ==
  ASSUME IInv, OnlyAppends(listens, events), current.uid # NoUID, Appear
  PROVE  ArrayAwaited(listens', events')
<1> DEFINE c == current.uid
           r == [purpose |-> "uids", arg |-> c]
           q == listens[c]
<1>1. /\ c \in Keys /\ events \in Seq(Event) /\ listens \in [Keys -> Seq(Read)] /\ q \in Seq(Read)
      /\ ClientTypeOK /\ Len(events) \in Nat /\ Len(q) \in Nat
  BY LenProperties DEF IInv, TypeOK, ClientTypeOK
<1>2. Observe(c, r) /\ r \in Read /\ r.purpose = "uids"
  BY <1>1 DEF Appear, Read, Purposes
<1>3. Known(server, puts, c, "contract", Len(puts) + 1)
  BY DEF IInv, CurrentKnown
<1>4. /\ UidsIn(events) = {} /\ StructsIn(events) = {}
      /\ \A k \in Keys : UidsIn(listens[k]) = {} /\ StructsIn(listens[k]) = {}
  BY DEF OnlyAppends, UidsIn, StructsIn
<1>5. View(c).kind = "contract"
  BY <1>1, <1>3, ContractView
<1> HIDE DEF r, c
<1>6. CASE Complete(c, r)
  <2> DEFINE e == EventOf(c, r)
             m == Len(events) + 1
  <2>1. /\ events' = Append(events, e) /\ listens' = listens
        /\ e.purpose = "uids" /\ e.node.kind = "contract"
    BY <1>2, <1>5, <1>6 DEF Observe, EventOf
  <2>2. e \in Event
    BY <1>1, <1>2, EventOfType
  <2> HIDE DEF e
  <2>3. /\ Len(events') = m /\ m \in 1..Len(events')
        /\ \A i \in 1..Len(events) : events'[i] = events[i]
        /\ events'[m] = e
        /\ \A i \in 1..Len(events') : i \in 1..Len(events) \/ i = m
    BY <1>1, <2>1, <2>2, AppendProperties
  <2> HIDE DEF m
  <2>4. UidsIn(events') = {m} /\ StructsIn(events') = {}
    <3>1. \A i \in 1..Len(events') : i \in 1..Len(events) => events'[i].purpose \notin {"uids", "struct"}
      BY <2>3 DEF OnlyAppends
    <3>2. m \in UidsIn(events') /\ \A i \in UidsIn(events') : i = m
      BY <2>1, <2>3, <3>1 DEF UidsIn
    <3>3. \A i \in StructsIn(events') : FALSE
      BY <2>1, <2>3, <3>1 DEF StructsIn
    <3> QED
      BY <3>2, <3>3
  <2>5. Answered(events') = {} /\ Awaited(listens') = {}
    BY <1>4, <2>1, <2>4 DEF Answered, Awaited
  <2>6. \E i \in 1..Len(events') : UidsIn(events') = {i} /\ events'[i].node.kind = "contract"
    BY <2>1, <2>3, <2>4
  <2> QED
    BY <1>4, <2>1, <2>5, <2>6 DEF ArrayAwaited
<1>7. CASE ~Complete(c, r)
  <2> DEFINE p == Append(q, r)
             m == Len(q) + 1
  <2>1. listens' = [listens EXCEPT ![c] = p] /\ events' = events
    BY <1>2, <1>7 DEF Observe
  <2>2. listens'[c] = p /\ \A k \in Keys : k # c => listens'[k] = listens[k]
    BY <1>1, <2>1
  <2> HIDE DEF q
  <2>3. /\ Len(p) = m /\ m \in 1..Len(p)
        /\ \A i \in 1..Len(q) : p[i] = q[i]
        /\ p[m] = r
        /\ \A i \in 1..Len(p) : i \in 1..Len(q) \/ i = m
    <3>1. q \in Seq(Read) /\ r \in Read /\ Len(q) \in Nat
      BY <1>1, <1>2
    <3>2. /\ Len(p) = Len(q) + 1
          /\ \A i \in 1..Len(q) : p[i] = q[i]
          /\ p[Len(q) + 1] = r
      BY <3>1, AppendProperties
    <3> HIDE DEF p
    <3> QED
      BY <3>1, <3>2
  <2> HIDE DEF m, p
  <2>4. UidsIn(p) = {m} /\ StructsIn(p) = {}
    <3>1. \A i \in 1..Len(q) : p[i].purpose \notin {"uids", "struct"}
      BY <1>1, <2>3 DEF OnlyAppends, q
    <3>2. m \in UidsIn(p) /\ \A i \in UidsIn(p) : i = m
      BY <1>2, <2>3, <3>1 DEF UidsIn
    <3>3. \A i \in StructsIn(p) : FALSE
      BY <1>2, <2>3, <3>1 DEF StructsIn
    <3> QED
      BY <3>2, <3>3
  <2>5. Answered(events') = {} /\ UidsIn(events') = {}
    BY <1>4, <2>1 DEF Answered
  <2>6. Awaited(listens') = {}
    <3>1. \A k \in Keys : StructsIn(listens'[k]) = {}
      BY <1>4, <2>2, <2>4
    <3> QED
      BY <3>1 DEF Awaited
  <2>7. UidsIn(listens'[c]) = {m} /\ m \in 1..Len(listens'[c])
    BY <2>2, <2>3, <2>4
  <2>8. \A k \in Keys : k # c => UidsIn(listens'[k]) = {}
    BY <1>4, <2>2
  <2> QED
    BY <1>1, <2>5, <2>6, <2>7, <2>8 DEF ArrayAwaited
<1> QED
  BY <1>6, <1>7

\* The positions in a queue whose first element is gone.
LEMMA TailParts ==
  ASSUME NEW es \in Seq(Event), es # <<>>
  PROVE  /\ Head(es) = es[1] /\ 1 \in 1..Len(es) /\ Len(es) \in Nat /\ Tail(es) \in Seq(Event)
         /\ \A i \in 1..Len(Tail(es)) : i + 1 \in 1..Len(es) /\ Tail(es)[i] = es[i + 1] /\ i + 1 # 1
         /\ \A j \in 1..Len(es) : j # 1 => \E i \in 1..Len(Tail(es)) : j = i + 1
<1>1. /\ Head(es) = es[1] /\ 1 \in 1..Len(es) /\ Tail(es) \in Seq(Event)
      /\ Len(es) \in Nat /\ Len(Tail(es)) = Len(es) - 1
      /\ \A i \in 1..Len(Tail(es)) : Tail(es)[i] = es[i + 1]
  BY HeadTailProperties, LenProperties
<1> DEFINE t == Tail(es)
<1> HIDE DEF t
<1>2. \A i \in 1..Len(t) : i + 1 \in 1..Len(es) /\ i + 1 # 1
  BY <1>1 DEF t
<1>3. ASSUME NEW j \in 1..Len(es), j # 1 PROVE \E i \in 1..Len(t) : j = i + 1
  <2>1. j - 1 \in 1..Len(t) /\ j = (j - 1) + 1
    BY <1>1, <1>3 DEF t
  <2> QED
    BY <2>1
<1> QED
  BY <1>1, <1>2, <1>3 DEF t

\* What the rest holds when the first event is for something else.
LEMMA TailReads ==
  ASSUME NEW es \in Seq(Event), es # <<>>
  PROVE  /\ \A i \in UidsIn(Tail(es)) : i + 1 \in UidsIn(es) /\ Tail(es)[i] = es[i + 1]
         /\ \A i \in StructsIn(Tail(es)) : i + 1 \in StructsIn(es) /\ Tail(es)[i] = es[i + 1]
         /\ \A j \in UidsIn(es) : j # 1 => \E i \in UidsIn(Tail(es)) : j = i + 1
         /\ \A j \in StructsIn(es) : j # 1 => \E i \in StructsIn(Tail(es)) : j = i + 1
         /\ \A i \in UidsIn(Tail(es)) \cup StructsIn(Tail(es)) : i \in Nat
<1> DEFINE t == Tail(es)
<1>1. /\ \A i \in 1..Len(t) : i + 1 \in 1..Len(es) /\ t[i] = es[i + 1]
      /\ \A j \in 1..Len(es) : j # 1 => \E i \in 1..Len(t) : j = i + 1
  BY TailParts
<1> HIDE DEF t
<1>2. /\ \A i \in UidsIn(t) : i + 1 \in UidsIn(es) /\ t[i] = es[i + 1]
      /\ \A i \in StructsIn(t) : i + 1 \in StructsIn(es) /\ t[i] = es[i + 1]
      /\ \A i \in UidsIn(t) \cup StructsIn(t) : i \in Nat
  BY <1>1 DEF UidsIn, StructsIn
<1>3. ASSUME NEW j \in UidsIn(es), j # 1 PROVE \E i \in UidsIn(t) : j = i + 1
  BY <1>1, <1>3 DEF UidsIn
<1>4. ASSUME NEW j \in StructsIn(es), j # 1 PROVE \E i \in StructsIn(t) : j = i + 1
  BY <1>1, <1>4 DEF StructsIn
<1> QED
  BY <1>2, <1>3, <1>4 DEF t

\* The block of an append leaves the review's reads as they are.
LEMMA AppendPhase ==
  ASSUME NEW ls, NEW es \in Seq(Event), es # <<>>, Head(es).purpose = "append",
         NEW sv, NEW ps, NEW u, NEW rs
  PROVE  /\ ArrayAwaited(ls, es) => ArrayAwaited(ls, Tail(es))
         /\ Parted(ls, es, u, rs) => Parted(ls, Tail(es), u, rs)
         /\ CostsCurrent(sv, ps, es, rs) => CostsCurrent(sv, ps, Tail(es), rs)
<1> DEFINE t == Tail(es)
<1>1. /\ \A i \in UidsIn(t) : i + 1 \in UidsIn(es) /\ t[i] = es[i + 1]
      /\ \A i \in StructsIn(t) : i + 1 \in StructsIn(es) /\ t[i] = es[i + 1]
      /\ \A j \in UidsIn(es) : j # 1 => \E i \in UidsIn(t) : j = i + 1
      /\ \A j \in StructsIn(es) : j # 1 => \E i \in StructsIn(t) : j = i + 1
      /\ \A i \in UidsIn(t) \cup StructsIn(t) : i \in Nat
  BY TailReads
<1>2. 1 \notin UidsIn(es) /\ 1 \notin StructsIn(es)
  BY TailParts DEF UidsIn, StructsIn
<1> HIDE DEF t
<1>3. Answered(t) = Answered(es)
  BY <1>1, <1>2 DEF Answered
<1>4. ASSUME ArrayAwaited(ls, es) PROVE ArrayAwaited(ls, t)
  <2>1. CASE UidsIn(es) = {}
    <3>1. UidsIn(t) = {}
      BY <1>1, <2>1
    <3> QED
      BY <1>3, <1>4, <2>1, <3>1 DEF ArrayAwaited
  <2>2. CASE UidsIn(es) # {}
    <3>1. PICK j \in 1..Len(es) : UidsIn(es) = {j} /\ es[j].node.kind = "contract"
      BY <1>4, <2>2 DEF ArrayAwaited
    <3>2. PICK i \in UidsIn(t) : j = i + 1
      BY <1>1, <1>2, <3>1
    <3>3. UidsIn(t) = {i} /\ t[i] = es[j]
      BY <1>1, <3>1, <3>2
    <3>4. i \in 1..Len(t)
      BY <3>2 DEF UidsIn
    <3>5. \E m \in 1..Len(t) : UidsIn(t) = {m} /\ t[m].node.kind = "contract"
      BY <3>1, <3>3, <3>4
    <3> QED
      BY <1>3, <1>4, <2>2, <3>5 DEF ArrayAwaited
  <2> QED
    BY <2>1, <2>2
<1>5. ASSUME Parted(ls, es, u, rs) PROVE Parted(ls, t, u, rs)
  <2>1. UidsIn(t) = {}
    BY <1>1, <1>5 DEF Parted
  <2>2. \A i, j \in StructsIn(t) : t[i].key = t[j].key => i = j
    <3> SUFFICES ASSUME NEW i \in StructsIn(t), NEW j \in StructsIn(t), t[i].key = t[j].key
                 PROVE  i = j
      OBVIOUS
    <3>1. i + 1 = j + 1
      BY <1>1, <1>5 DEF Parted
    <3>2. i \in Nat /\ j \in Nat
      BY <1>1
    <3> QED
      BY <3>1, <3>2
  <2> QED
    BY <1>3, <1>5, <2>1, <2>2 DEF Parted
<1>6. ASSUME CostsCurrent(sv, ps, es, rs) PROVE CostsCurrent(sv, ps, t, rs)
  BY <1>1, <1>6 DEF CostsCurrent
<1> QED
  BY <1>4, <1>5, <1>6 DEF t

\* Where the reads of the review are after the answer of a listen.
LEMMA AnswerReads ==
  ASSUME ClientTypeOK, NEW k \in Keys, ListenAnswered(k)
  PROVE  LET n == Len(events)
             q == listens[k]
         IN  /\ n \in Nat
             /\ \A i \in UidsIn(events) : i \in UidsIn(events') /\ events'[i] = events[i]
             /\ \A i \in StructsIn(events) : i \in StructsIn(events') /\ events'[i] = events[i]
             /\ \A j \in UidsIn(q) : n + j \in UidsIn(events') /\ events'[n + j].node = View(k)
             /\ \A j \in StructsIn(q) :
                  /\ n + j \in StructsIn(events') /\ events'[n + j].node = View(k)
                  /\ events'[n + j].key = k
             /\ \A i \in UidsIn(events') : i \in UidsIn(events) \/ \E j \in UidsIn(q) : i = n + j
             /\ \A i \in StructsIn(events') : i \in StructsIn(events) \/ \E j \in StructsIn(q) : i = n + j
             /\ UidsIn(listens'[k]) = {} /\ StructsIn(listens'[k]) = {}
             /\ \A m \in Keys : m # k => listens'[m] = listens[m]
<1> DEFINE n == Len(events)
           q == listens[k]
           h == Len(q)
<1>1. /\ n \in Nat /\ h \in Nat /\ Len(events') = n + h
      /\ \A i \in 1..n : events'[i] = events[i]
      /\ \A i \in 1..h : /\ events'[n + i].arg = q[i].arg
                         /\ events'[n + i].node = View(k)
                         /\ events'[n + i].key = k
                         /\ events'[n + i].purpose = q[i].purpose
      /\ \A i \in 1..n + h : i \in 1..n \/ (i - n \in 1..h /\ n + (i - n) = i)
      /\ listens'[k] = <<>> /\ \A m \in Keys : m # k => listens'[m] = listens[m]
  BY AnsweredEvents
<1>2. /\ \A i \in 1..n : i \in 1..Len(events')
      /\ \A i \in 1..h : n + i \in 1..Len(events')
  BY <1>1
<1>3. \A i \in 1..Len(events') : i \in 1..n \/ \E j \in 1..h : i = n + j
  <2> SUFFICES ASSUME NEW i \in 1..n + h, i \notin 1..n PROVE \E j \in 1..h : i = n + j
    BY <1>1
  <2>1. i - n \in 1..h /\ n + (i - n) = i
    BY <1>1
  <2> QED
    BY <2>1
<1>4. UidsIn(<<>>) = {} /\ StructsIn(<<>>) = {}
  BY EmptySeq DEF UidsIn, StructsIn
<1> DEFINE es == events'
<1>5. /\ \A i \in 1..n : es[i] = events[i]
      /\ \A i \in 1..h : /\ es[n + i].node = View(k) /\ es[n + i].key = k
                         /\ es[n + i].purpose = q[i].purpose
      /\ \A i \in 1..n : i \in 1..Len(es)
      /\ \A i \in 1..h : n + i \in 1..Len(es)
      /\ \A i \in 1..Len(es) : i \in 1..n \/ \E j \in 1..h : i = n + j
  BY <1>1, <1>2, <1>3
<1> HIDE DEF es, q
<1>6. /\ \A i \in UidsIn(events) : i \in UidsIn(es) /\ es[i] = events[i]
      /\ \A i \in StructsIn(events) : i \in StructsIn(es) /\ es[i] = events[i]
  BY <1>5 DEF UidsIn, StructsIn
<1>7. /\ \A j \in UidsIn(q) : n + j \in UidsIn(es) /\ es[n + j].node = View(k)
      /\ \A j \in StructsIn(q) :
           n + j \in StructsIn(es) /\ es[n + j].node = View(k) /\ es[n + j].key = k
  BY <1>5 DEF UidsIn, StructsIn
<1>8. \A i \in UidsIn(es) : i \in UidsIn(events) \/ \E j \in UidsIn(q) : i = n + j
  <2> SUFFICES ASSUME NEW i \in 1..Len(es), es[i].purpose = "uids"
               PROVE  i \in UidsIn(events) \/ \E j \in UidsIn(q) : i = n + j
    BY DEF UidsIn
  <2>1. CASE i \in 1..n
    BY <1>5, <2>1 DEF UidsIn
  <2>2. ASSUME NEW j \in 1..h, i = n + j PROVE j \in UidsIn(q)
    BY <1>5, <2>2 DEF UidsIn
  <2> QED
    BY <1>5, <2>1, <2>2
<1>9. \A i \in StructsIn(es) : i \in StructsIn(events) \/ \E j \in StructsIn(q) : i = n + j
  <2> SUFFICES ASSUME NEW i \in 1..Len(es), es[i].purpose = "struct"
               PROVE  i \in StructsIn(events) \/ \E j \in StructsIn(q) : i = n + j
    BY DEF StructsIn
  <2>1. CASE i \in 1..n
    BY <1>5, <2>1 DEF StructsIn
  <2>2. ASSUME NEW j \in 1..h, i = n + j PROVE j \in StructsIn(q)
    BY <1>5, <2>2 DEF StructsIn
  <2> QED
    BY <1>5, <2>1, <2>2
<1> QED
  BY <1>1, <1>4, <1>6, <1>7, <1>8, <1>9 DEF es, q

\* The answer of a listen moves the review's reads of its path.
LEMMA AnswerPhase ==
  ASSUME IInv, AlterationStays(server, puts, applied), NEW c,
         QueuesOK(server, puts, listens, events, c), CurrentKnown(server, puts, c),
         NEW k \in Keys, ListenAnswered(k), NEW u, NEW rs
  PROVE  /\ ArrayAwaited(listens, events) => ArrayAwaited(listens', events')
         /\ (Parted(listens, events, u, rs) /\ CostsCurrent(server, puts, events, rs)) =>
              Parted(listens', events', u, rs) /\ CostsCurrent(server, puts, events', rs)
<1> DEFINE n == Len(events)
           q == listens[k]
           es == events'
           ls == listens'
<1>0. ClientTypeOK
  BY DEF IInv, TypeOK
<1>1. /\ n \in Nat
      /\ \A i \in UidsIn(events) : i \in UidsIn(es) /\ es[i] = events[i]
      /\ \A i \in StructsIn(events) : i \in StructsIn(es) /\ es[i] = events[i]
      /\ \A j \in UidsIn(q) : n + j \in UidsIn(es) /\ es[n + j].node = View(k)
      /\ \A j \in StructsIn(q) :
           n + j \in StructsIn(es) /\ es[n + j].node = View(k) /\ es[n + j].key = k
      /\ \A i \in UidsIn(es) : i \in UidsIn(events) \/ \E j \in UidsIn(q) : i = n + j
      /\ \A i \in StructsIn(es) : i \in StructsIn(events) \/ \E j \in StructsIn(q) : i = n + j
      /\ UidsIn(ls[k]) = {} /\ StructsIn(ls[k]) = {}
      /\ \A m \in Keys : m # k => ls[m] = listens[m]
  BY <1>0, AnswerReads
<1>2. /\ \A j \in UidsIn(q) : k = c
      /\ \A j \in StructsIn(q) : AlterationOf(server, puts, k, c, Len(puts) + 1)
  BY DEF QueuesOK, ReadOK, OfReview, UidsIn, StructsIn
<1>3. StructsIn(q) # {} <=> k \in Awaited(listens)
  BY DEF Awaited
<1> HIDE DEF q, es, ls
<1>4. ASSUME ArrayAwaited(listens, events) PROVE ArrayAwaited(ls, es)
  <2>1. StructsIn(events) = {} /\ \A m \in Keys : StructsIn(listens[m]) = {}
    BY <1>4 DEF ArrayAwaited, Answered, Awaited
  <2>2. StructsIn(es) = {} /\ \A m \in Keys : StructsIn(ls[m]) = {}
    BY <1>1, <2>1 DEF q
  <2>3. Answered(es) = {} /\ Awaited(ls) = {}
    BY <2>2 DEF Answered, Awaited
  <2>4. ASSUME NEW i \in 1..Len(events), UidsIn(events) = {i}, events[i].node.kind = "contract",
               \A m \in Keys : UidsIn(listens[m]) = {}
        PROVE  ArrayAwaited(ls, es)
    <3>1. UidsIn(q) = {}
      BY <2>4 DEF q
    <3>2. UidsIn(es) = {i} /\ es[i].node.kind = "contract"
      BY <1>1, <2>4, <3>1
    <3>3. i \in 1..Len(es)
      BY <3>2 DEF UidsIn
    <3>4. \A m \in Keys : UidsIn(ls[m]) = {}
      BY <1>1, <2>4
    <3> QED
      BY <2>3, <3>2, <3>3, <3>4 DEF ArrayAwaited
  <2>5. ASSUME UidsIn(events) = {}, NEW d \in Keys, NEW i \in 1..Len(listens[d]),
               UidsIn(listens[d]) = {i}, \A m \in Keys : m # d => UidsIn(listens[m]) = {}
        PROVE  ArrayAwaited(ls, es)
    <3>1. CASE d = k
      <4>1. UidsIn(q) = {i}
        BY <2>5, <3>1 DEF q
      <4>2. UidsIn(es) = {n + i} /\ es[n + i].node = View(k)
        <5>1. n + i \in UidsIn(es) /\ es[n + i].node = View(k)
          BY <1>1, <4>1
        <5>2. \A j \in UidsIn(es) : j = n + i
          BY <1>1, <2>5, <4>1
        <5> QED
          BY <5>1, <5>2
      <4>3. k = c /\ c # NoUID
        <5>1. NoUID \notin Keys
          BY MaxKeyAssumption DEF Keys, NoUID
        <5> QED
          BY <1>2, <4>1, <5>1
      <4>4. View(k).kind = "contract"
        BY <4>3, ContractView DEF CurrentKnown
      <4>5. n + i \in 1..Len(es)
        BY <4>2 DEF UidsIn
      <4>6. \A m \in Keys : UidsIn(ls[m]) = {}
        BY <1>1, <2>5, <3>1
      <4> QED
        BY <2>3, <4>2, <4>4, <4>5, <4>6 DEF ArrayAwaited
    <3>2. CASE d # k
      <4>1. UidsIn(q) = {}
        BY <2>5, <3>2 DEF q
      <4>2. UidsIn(es) = {}
        BY <1>1, <2>5, <4>1
      <4>3. ls[d] = listens[d] /\ \A m \in Keys : m # d => UidsIn(ls[m]) = {}
        BY <1>1, <2>5, <3>2
      <4>4. i \in 1..Len(ls[d]) /\ UidsIn(ls[d]) = {i}
        BY <2>5, <4>3
      <4> QED
        BY <2>3, <4>2, <4>3, <4>4 DEF ArrayAwaited
    <3> QED
      BY <3>1, <3>2
  <2> QED
    BY <1>4, <2>4, <2>5 DEF ArrayAwaited
<1>5. ASSUME Parted(listens, events, u, rs), CostsCurrent(server, puts, events, rs)
      PROVE  Parted(ls, es, u, rs) /\ CostsCurrent(server, puts, es, rs)
  <2> DEFINE K == IF StructsIn(q) = {} THEN {} ELSE {k}
  <2>1. \A m \in Keys : UidsIn(ls[m]) = {}
    BY <1>1, <1>5 DEF Parted
  <2>2. UidsIn(q) = {} /\ \A i, j \in StructsIn(q) : i = j
    BY <1>5 DEF Parted, q
  <2>3. UidsIn(es) = {}
    BY <1>1, <1>5, <2>2 DEF Parted
  <2>4. Answered(es) = Answered(events) \cup K
    <3>1. ASSUME NEW i \in StructsIn(es) PROVE es[i].key \in Answered(events) \cup K
      BY <1>1 DEF Answered
    <3>2. ASSUME NEW i \in StructsIn(events) PROVE events[i].key \in Answered(es)
      BY <1>1 DEF Answered
    <3>3. ASSUME NEW i \in StructsIn(q) PROVE k \in Answered(es)
      BY <1>1 DEF Answered
    <3>4. Answered(es) \subseteq Answered(events) \cup K
      BY <3>1 DEF Answered
    <3>5. Answered(events) \subseteq Answered(es)
      BY <3>2 DEF Answered
    <3>6. K \subseteq Answered(es)
      BY <3>3
    <3> QED
      BY <3>4, <3>5, <3>6
  <2>5. Awaited(ls) = Awaited(listens) \ K /\ K \subseteq Awaited(listens)
    BY <1>1, <1>3 DEF Awaited, q
  <2>6. \A i, j \in StructsIn(es) : es[i].key = es[j].key => i = j
    <3>1. \A i \in StructsIn(events) : es[i] = events[i] /\ events[i].key \in Answered(events)
      BY <1>1 DEF Answered
    <3>2. StructsIn(q) # {} => k \notin Answered(events)
      BY <1>3, <1>5 DEF Parted
    <3>3. \A i, j \in StructsIn(events) : events[i].key = events[j].key => i = j
      BY <1>5 DEF Parted
    <3> QED
      BY <1>1, <2>2, <3>1, <3>2, <3>3
  <2>7. \A m \in Keys : \A i, j \in StructsIn(ls[m]) : i = j
    BY <1>1, <1>5 DEF Parted
  <2>8. /\ Uids(rs) \cup Answered(es) \cup Awaited(ls) = Elements(u) \ {Marker}
        /\ Uids(rs) \cap Answered(es) = {} /\ Uids(rs) \cap Awaited(ls) = {}
        /\ Answered(es) \cap Awaited(ls) = {} /\ NoneTwice(rs)
    <3> HIDE DEF K
    <3> QED
      BY <1>5, <2>4, <2>5 DEF Parted
  <2>9. Parted(ls, es, u, rs)
    BY <2>1, <2>3, <2>6, <2>7, <2>8 DEF Parted
  <2>10. \A i \in StructsIn(es) : /\ es[i].node.kind = "alteration"
                                   /\ es[i].node.cost = LastCost(server, puts, es[i].key)
    <3> SUFFICES ASSUME NEW i \in StructsIn(es)
                 PROVE  /\ es[i].node.kind = "alteration"
                        /\ es[i].node.cost = LastCost(server, puts, es[i].key)
      OBVIOUS
    <3>1. CASE i \in StructsIn(events)
      BY <1>1, <1>5, <3>1 DEF CostsCurrent
    <3>2. ASSUME NEW j \in StructsIn(q), i = n + j
          PROVE  /\ es[i].node.kind = "alteration"
                 /\ es[i].node.cost = LastCost(server, puts, es[i].key)
      <4>1. AlterationOf(server, puts, k, c, Len(puts) + 1)
        BY <1>2
      <4>2. View(k).kind = "alteration" /\ View(k).cost = LastCost(server, puts, k)
        BY <4>1, AlterationView
      <4> QED
        BY <1>1, <3>2, <4>2
    <3> QED
      BY <1>1, <3>1, <3>2
  <2> QED
    BY <1>5, <2>9, <2>10 DEF CostsCurrent
<1> QED
  BY <1>4, <1>5 DEF es, ls

\* A row more at the end.
LEMMA RowAppended ==
  ASSUME NEW rs \in Seq(Row), NEW x \in Row, x.uid \notin Uids(rs), NoneTwice(rs)
  PROVE  LET t == Append(rs, x)
         IN  /\ Uids(t) = Uids(rs) \cup {x.uid} /\ NoneTwice(t)
             /\ \A i \in 1..Len(t) : (i \in 1..Len(rs) /\ t[i] = rs[i]) \/ t[i] = x
<1> DEFINE t == Append(rs, x)
<1>1. /\ t \in Seq(Row) /\ Len(rs) \in Nat /\ Len(t) = Len(rs) + 1
      /\ \A i \in 1..Len(rs) : t[i] = rs[i]
      /\ t[Len(rs) + 1] = x
  BY AppendProperties, LenProperties
<1>2. DOMAIN rs = 1..Len(rs)
  BY LenProperties
<1> HIDE DEF t
<1>3. DOMAIN t = 1..Len(t)
  BY <1>1, LenProperties
<1>4. /\ \A i \in DOMAIN t : i \in DOMAIN rs \/ i = Len(rs) + 1
      /\ \A i \in DOMAIN rs : i \in DOMAIN t /\ t[i] = rs[i] /\ rs[i].uid \in Uids(rs)
      /\ Len(rs) + 1 \in DOMAIN t
  BY <1>1, <1>2, <1>3 DEF Uids
<1>5. Uids(t) = Uids(rs) \cup {x.uid}
  BY <1>1, <1>4 DEF Uids
<1>6. NoneTwice(t)
  BY <1>1, <1>4 DEF NoneTwice
<1> QED
  BY <1>1, <1>2, <1>3, <1>4, <1>5, <1>6 DEF t

\* The block of a struct turns the answer into a row.
LEMMA StructPhase ==
  ASSUME RInv, RInv', StructCallback, InPhase
  PROVE  InPhase'
<1> DEFINE e == events[1]
           t == Tail(events)
           x == RowOf(e)
<1>1. events \in Seq(Event) /\ events # <<>> /\ rows \in Seq(Row) /\ rows' \in Seq(Row)
  BY DEF RInv, QueuesOK, ReviewTypeOK, StructCallback
<1>2. /\ Head(events) = e /\ 1 \in 1..Len(events)
      /\ \A i \in UidsIn(t) : i + 1 \in UidsIn(events) /\ t[i] = events[i + 1]
      /\ \A i \in StructsIn(t) : i + 1 \in StructsIn(events) /\ t[i] = events[i + 1]
      /\ \A j \in StructsIn(events) : j # 1 => \E i \in StructsIn(t) : j = i + 1
      /\ \A i \in UidsIn(t) \cup StructsIn(t) : i \in Nat
  BY <1>1, TailParts, TailReads
<1>3. /\ UNCHANGED <<server, puts, listens, uidArray>>
      /\ events' = t /\ e.purpose = "struct"
      /\ rows' = IF e.node.kind = "alteration" THEN Append(rows, x) ELSE rows
  BY <1>2 DEF StructCallback
<1>4. 1 \in StructsIn(events)
  BY <1>2, <1>3 DEF StructsIn
<1>5. Parted(listens, events, uidArray, rows) /\ CostsCurrent(server, puts, events, rows)
  BY <1>4 DEF InPhase, ArrayAwaited, Answered
<1>6. e.node.kind = "alteration" /\ e.node.cost = LastCost(server, puts, e.key)
  BY <1>4, <1>5 DEF CostsCurrent
<1>7. rows' = Append(rows, x) /\ x.uid = e.key /\ x.cost = e.node.cost
  BY <1>3, <1>6 DEF RowOf
<1>8. x \in Row
  <2>1. EventOK(server, puts, current.uid, e)
    BY <1>1, <1>2 DEF RInv, QueuesOK
  <2>2. e.key \in Keys /\ e.node.ref = current.uid /\ e.node.cost \in Costs
    BY <1>3, <1>6, <2>1 DEF EventOK, Event, FitsReview
  <2>3. current.uid \in Keys
    <3>1. screen \notin {"home", "alert"}
      BY <1>2, <1>3 DEF RInv, OnlyAppends
    <3> QED
      BY <3>1 DEF RInv, ReviewTypeOK, IInv, TypeOK
  <2> QED
    BY <2>2, <2>3 DEF RowOf, Row
<1> HIDE DEF e, t, x
<1>9. e.key \in Answered(events) /\ e.key \notin Uids(rows)
  <2>1. e.key \in Answered(events)
    BY <1>4 DEF Answered, e
  <2> QED
    BY <1>5, <2>1 DEF Parted
<1>10. /\ Uids(rows') = Uids(rows) \cup {e.key} /\ NoneTwice(rows')
       /\ \A i \in 1..Len(rows') : (i \in 1..Len(rows) /\ rows'[i] = rows[i]) \/ rows'[i] = x
  BY <1>1, <1>5, <1>7, <1>8, <1>9, RowAppended DEF Parted
<1>11. Answered(t) = Answered(events) \ {e.key}
  <2>1. \A i, j \in StructsIn(events) : events[i].key = events[j].key => i = j
    BY <1>5 DEF Parted
  <2>2. ASSUME NEW i \in StructsIn(t) PROVE t[i].key \in Answered(events) \ {e.key}
    <3>1. i + 1 \in StructsIn(events) /\ t[i] = events[i + 1] /\ i \in 1..Len(t)
      BY <1>2 DEF StructsIn
    <3>2. i + 1 # 1
      BY <3>1
    <3>3. events[i + 1].key \in Answered(events)
      BY <3>1 DEF Answered
    <3>4. events[i + 1].key # e.key
      BY <1>4, <2>1, <3>1, <3>2 DEF e
    <3> QED
      BY <3>1, <3>3, <3>4
  <2>3. ASSUME NEW j \in StructsIn(events), events[j].key # e.key PROVE events[j].key \in Answered(t)
    <3>1. j # 1
      BY <2>3 DEF e
    <3>2. PICK i \in StructsIn(t) : j = i + 1
      BY <1>2, <3>1
    <3> QED
      BY <1>2, <3>2 DEF Answered
  <2>4. Answered(t) \subseteq Answered(events) \ {e.key}
    BY <2>2 DEF Answered
  <2>5. Answered(events) \ {e.key} \subseteq Answered(t)
    BY <2>3 DEF Answered
  <2> QED
    BY <2>4, <2>5
<1>12. UidsIn(t) = {}
  BY <1>2, <1>5 DEF Parted
<1>13. \A i, j \in StructsIn(t) : t[i].key = t[j].key => i = j
  <2> SUFFICES ASSUME NEW i \in StructsIn(t), NEW j \in StructsIn(t), t[i].key = t[j].key
               PROVE  i = j
    OBVIOUS
  <2>1. i + 1 = j + 1
    BY <1>2, <1>5 DEF Parted
  <2>2. i \in Nat /\ j \in Nat
    BY <1>2
  <2> QED
    BY <2>1, <2>2
<1>14. Parted(listens, t, uidArray, rows')
  BY <1>5, <1>9, <1>10, <1>11, <1>12, <1>13 DEF Parted
<1>15. CostsCurrent(server, puts, t, rows')
  <2>1. \A i \in 1..Len(rows') : rows'[i].cost = LastCost(server, puts, rows'[i].uid)
    BY <1>5, <1>6, <1>7, <1>10 DEF CostsCurrent
  <2>2. \A i \in StructsIn(t) : /\ t[i].node.kind = "alteration"
                                 /\ t[i].node.cost = LastCost(server, puts, t[i].key)
    BY <1>2, <1>5 DEF CostsCurrent
  <2> QED
    BY <2>1, <2>2 DEF CostsCurrent
<1> QED
  BY <1>3, <1>14, <1>15 DEF InPhase

\* The block of the array parts its uids.
LEMMA UidsPhase ==
  ASSUME RInv, LInv, AlterationStays(server, puts, applied), UidsCallback, InPhase
  PROVE  InPhase'
<1> DEFINE e == events[1]
           l == Head(events).node.list
           uids == Elements(l) \ {Marker}
           n == Len(events) - 1
           es == events'
           ls == listens'
<1>1. /\ events \in Seq(Event) /\ events # <<>> /\ listens \in [Keys -> Seq(Read)]
      /\ UNCHANGED <<server, puts>> /\ Head(events).purpose = "uids"
  BY DEF RInv, QueuesOK, UidsCallback
<1>2. /\ Head(events) = e /\ 1 \in 1..Len(events) /\ Len(events) \in Nat /\ 1 \in UidsIn(events)
  BY <1>1, TailParts DEF UidsIn
<1>3. ArrayAwaited(listens, events)
  BY <1>2 DEF InPhase, Parted
<1>4. UidsIn(events) = {1} /\ e.node.kind = "contract" /\ \A k \in Keys : UidsIn(listens[k]) = {}
  <2>1. PICK i \in 1..Len(events) : /\ UidsIn(events) = {i} /\ events[i].node.kind = "contract"
                                    /\ \A k \in Keys : UidsIn(listens[k]) = {}
    BY <1>2, <1>3 DEF ArrayAwaited
  <2>2. i = 1
    BY <1>2, <2>1
  <2> QED
    BY <2>1, <2>2
<1>5. StructsIn(events) = {} /\ \A k \in Keys : StructsIn(listens[k]) = {}
  BY <1>3 DEF ArrayAwaited, Answered, Awaited
<1>6. uidArray' = l /\ rows' = <<>> /\ \E known : ArrayLoaded(l, known)
  BY <1>2, <1>4, UidsParts
<1>7. PICK known : ArrayLoaded(l, known)
  BY <1>6
<1>8. \A i, j \in DOMAIN l : l[i] = l[j] => i = j
  <2>1. e.node \in Nodes(server, puts, events)
    BY <1>2, OldNodes
  <2>2. GoodNode(e.node)
    BY <2>1 DEF LInv, GoodNodes
  <2> QED
    BY <1>2, <2>2 DEF GoodNode
<1> HIDE DEF l
<1>9. /\ Len(known) \in Nat /\ n \in Nat
      /\ Len(es) = n + Len(known)
      /\ \A i \in 1..n : es[i] = events[i + 1]
      /\ \A a \in 1..Len(known) : es[n + a] = EventOf(known[a], StructRead(known[a]))
      /\ \A a \in 1..Len(known) : known[a] \in uids /\ Complete(known[a], StructRead(known[a]))
      /\ \A k \in uids : Complete(k, StructRead(k)) => \E a \in 1..Len(known) : known[a] = k
      /\ \A a, b \in 1..Len(known) : known[a] = known[b] => a = b
      /\ \A k \in Keys :
           ls[k] = IF k \in uids /\ ~Complete(k, StructRead(k))
                     THEN Append(listens[k], StructRead(k)) ELSE listens[k]
      /\ \A k \in uids : k \in Keys /\ AlterationOf(server, puts, k, current.uid, Len(puts) + 1)
  BY <1>7, <1>8 DEF ArrayLoaded
<1>10. \A i \in 1..n : /\ i + 1 \in 1..Len(events)
                       /\ es[i].purpose # "uids" /\ es[i].purpose # "struct"
  <2> SUFFICES ASSUME NEW i \in 1..n
               PROVE  /\ i + 1 \in 1..Len(events)
                      /\ es[i].purpose # "uids" /\ es[i].purpose # "struct"
    OBVIOUS
  <2>1. i + 1 \in 1..Len(events) /\ i + 1 # 1
    BY <1>2, <1>9
  <2>2. i + 1 \notin UidsIn(events) /\ i + 1 \notin StructsIn(events)
    BY <1>4, <1>5, <2>1
  <2> QED
    BY <1>9, <2>1, <2>2 DEF UidsIn, StructsIn
<1>11. /\ \A a \in 1..Len(known) : n + a \in 1..Len(es)
       /\ \A i \in 1..Len(es) : i \in 1..n \/ \E a \in 1..Len(known) : i = n + a
  <2> HIDE DEF n, es
  <2>1. \A a \in 1..Len(known) : n + a \in 1..Len(es)
    BY <1>9
  <2>2. ASSUME NEW i \in 1..Len(es), i \notin 1..n PROVE \E a \in 1..Len(known) : i = n + a
    <3>1. i - n \in 1..Len(known) /\ i = n + (i - n)
      BY <1>9, <2>2
    <3> QED
      BY <3>1
  <2> QED
    BY <2>1, <2>2
<1>12. \A k : /\ EventOf(k, StructRead(k)).purpose = "struct"
              /\ EventOf(k, StructRead(k)).key = k
              /\ EventOf(k, StructRead(k)).node = View(k)
  BY DEF EventOf, StructRead
<1>13. \A a \in 1..Len(known) : /\ es[n + a].purpose = "struct" /\ es[n + a].key = known[a]
                                /\ es[n + a].node = View(known[a])
  <2> HIDE DEF n, es
  <2> SUFFICES ASSUME NEW a \in 1..Len(known)
               PROVE  /\ es[n + a].purpose = "struct" /\ es[n + a].key = known[a]
                      /\ es[n + a].node = View(known[a])
    OBVIOUS
  <2>1. es[n + a] = EventOf(known[a], StructRead(known[a]))
    BY <1>9
  <2> QED
    BY <1>12, <2>1
<1> HIDE DEF n, es, ls, uids
<1>14. UidsIn(es) = {}
  <2>1. \A i \in 1..Len(es) : es[i].purpose # "uids"
    BY <1>10, <1>11, <1>13
  <2> QED
    BY <2>1 DEF UidsIn
<1>15. /\ \A i \in StructsIn(es) : \E a \in 1..Len(known) : i = n + a
       /\ \A a \in 1..Len(known) : n + a \in StructsIn(es)
  BY <1>10, <1>11, <1>13 DEF StructsIn
<1>16. Answered(es) = {k \in uids : Complete(k, StructRead(k))}
  <2>1. ASSUME NEW i \in StructsIn(es) PROVE es[i].key \in uids /\ Complete(es[i].key, StructRead(es[i].key))
    <3>1. PICK a \in 1..Len(known) : i = n + a
      BY <1>15
    <3>2. es[i].key = known[a]
      BY <1>13, <3>1
    <3> QED
      BY <1>9, <3>2
  <2>2. ASSUME NEW k \in uids, Complete(k, StructRead(k)) PROVE k \in Answered(es)
    <3>1. PICK a \in 1..Len(known) : known[a] = k
      BY <1>9, <2>2
    <3> QED
      BY <1>13, <1>15, <3>1 DEF Answered
  <2> QED
    BY <2>1, <2>2 DEF Answered
<1>17. ASSUME NEW k \in Keys
       PROVE  /\ UidsIn(ls[k]) = {}
              /\ StructsIn(ls[k]) # {} <=> (k \in uids /\ ~Complete(k, StructRead(k)))
              /\ \A i, j \in StructsIn(ls[k]) : i = j
  <2> DEFINE q == listens[k]
             r == StructRead(k)
             p == Append(q, r)
             m == Len(q) + 1
  <2>1. q \in Seq(Read) /\ Len(q) \in Nat /\ r \in Read /\ r.purpose = "struct"
    BY <1>1, LenProperties DEF Read, Purposes, StructRead
  <2>2. UidsIn(q) = {} /\ StructsIn(q) = {}
    BY <1>4, <1>5
  <2>3. ls[k] = IF k \in uids /\ ~Complete(k, r) THEN p ELSE q
    BY <1>9
  <2> HIDE DEF q, r
  <2>4. /\ Len(p) = Len(q) + 1
        /\ \A i \in 1..Len(q) : p[i] = q[i]
        /\ p[Len(q) + 1] = r
    BY <2>1, AppendProperties
  <2> HIDE DEF p
  <2>5. /\ Len(p) = m /\ m \in 1..Len(p)
        /\ \A i \in 1..Len(p) : i \in 1..Len(q) \/ i = m
    BY <2>1, <2>4
  <2> HIDE DEF m
  <2>6. UidsIn(p) = {} /\ StructsIn(p) = {m}
    <3>1. \A i \in 1..Len(q) : p[i].purpose # "uids" /\ p[i].purpose # "struct"
      BY <2>2, <2>4 DEF UidsIn, StructsIn
    <3>2. p[m].purpose = "struct"
      BY <2>1, <2>4 DEF m
    <3>3. m \in StructsIn(p) /\ \A i \in StructsIn(p) : i = m
      BY <2>5, <3>1, <3>2 DEF StructsIn
    <3>4. \A i \in UidsIn(p) : FALSE
      BY <2>5, <3>1, <3>2 DEF UidsIn
    <3> QED
      BY <3>3, <3>4
  <2>7. CASE k \in uids /\ ~Complete(k, r)
    <3>1. ls[k] = p
      BY <2>3, <2>7
    <3> QED
      BY <2>6, <2>7, <3>1 DEF r
  <2>8. CASE ~(k \in uids /\ ~Complete(k, r))
    <3>1. ls[k] = q
      BY <2>3, <2>8
    <3> QED
      BY <2>2, <2>8, <3>1 DEF r
  <2> QED
    BY <2>7, <2>8
<1>18. Awaited(ls) = {k \in uids : ~Complete(k, StructRead(k))}
  BY <1>9, <1>17 DEF Awaited
<1>19. \A i, j \in StructsIn(es) : es[i].key = es[j].key => i = j
  BY <1>9, <1>13, <1>15
<1>20. Uids(<<>>) = {} /\ NoneTwice(<<>>) /\ Len(<<>>) = 0
  BY EmptySeq DEF Uids, NoneTwice
<1>21. Parted(ls, es, l, <<>>)
  <2>1. {k \in uids : Complete(k, StructRead(k))} \cup {k \in uids : ~Complete(k, StructRead(k))} = uids
    OBVIOUS
  <2>2. Uids(<<>>) \cup Answered(es) \cup Awaited(ls) = uids
    BY <1>16, <1>18, <1>20, <2>1
  <2>3. Answered(es) \cap Awaited(ls) = {}
    BY <1>16, <1>18
  <2>4. Uids(<<>>) \cap Answered(es) = {} /\ Uids(<<>>) \cap Awaited(ls) = {}
    BY <1>20
  <2> QED
    BY <1>14, <1>17, <1>19, <1>20, <2>2, <2>3, <2>4 DEF Parted, uids
<1>22. CostsCurrent(server, puts, es, <<>>)
  <2>1. \A i \in StructsIn(es) : /\ es[i].node.kind = "alteration"
                                  /\ es[i].node.cost = LastCost(server, puts, es[i].key)
    <3> SUFFICES ASSUME NEW a \in 1..Len(known)
                 PROVE  /\ es[n + a].node.kind = "alteration"
                        /\ es[n + a].node.cost = LastCost(server, puts, es[n + a].key)
      BY <1>15
    <3>1. known[a] \in Keys /\ AlterationOf(server, puts, known[a], current.uid, Len(puts) + 1)
      BY <1>9
    <3>2. /\ View(known[a]).kind = "alteration"
          /\ View(known[a]).cost = LastCost(server, puts, known[a])
      BY <3>1, AlterationView DEF RInv
    <3> QED
      BY <1>13, <3>2
  <2> QED
    BY <1>20, <2>1 DEF CostsCurrent
<1>23. InPhase'
  BY <1>1, <1>6, <1>21, <1>22 DEF InPhase, es, ls
<1> QED
  BY <1>23

\* Costs stay current while those of the contract's alterations do not change.
LEMMA SameCosts ==
  ASSUME NEW c, QueuesOK(server, puts, listens, events, c), RowsKnown(server, puts, c, rows),
         CostsCurrent(server, puts, events, rows),
         \A k \in Keys : AlterationOf(server, puts, k, c, Len(puts) + 1)
                           => LastCost(server', puts', k) = LastCost(server, puts, k)
  PROVE  CostsCurrent(server', puts', events, rows)
<1>1. ASSUME NEW i \in 1..Len(rows)
      PROVE  rows[i].cost = LastCost(server', puts', rows[i].uid)
  <2>1. /\ AlterationOf(server, puts, rows[i].uid, c, Len(puts) + 1)
        /\ rows[i].uid \in Keys
    BY DEF RowsKnown, RowKnown, AlterationOf
  <2> QED
    BY <2>1 DEF CostsCurrent
<1>2. ASSUME NEW i \in StructsIn(events)
      PROVE  /\ events[i].node.kind = "alteration"
             /\ events[i].node.cost = LastCost(server', puts', events[i].key)
  <2>1. i \in 1..Len(events) /\ events[i].purpose = "struct"
    BY DEF StructsIn
  <2>2. /\ AlterationOf(server, puts, events[i].key, c, Len(puts) + 1)
        /\ events[i].key \in Keys
    BY <2>1 DEF QueuesOK, EventOK, OfReview, AlterationOf
  <2> QED
    BY <2>2 DEF CostsCurrent
<1> QED
  BY <1>1, <1>2 DEF CostsCurrent

\* The block of an append writes no cost.
LEMMA AppendCosts ==
  ASSUME RInv, AppendCallback, NEW k \in Keys, NEW c,
         AlterationOf(server, puts, k, c, Len(puts) + 1)
  PROVE  LastCost(server', puts', k) = LastCost(server, puts, k)
<1> DEFINE e == Head(events)
           p == ListPut(e.key, Append(e.node.list, e.arg))
           ps == IF e.node.kind = "contract" THEN <<p>> ELSE <<>>
<1>1. /\ Issue(ps) /\ UNCHANGED server /\ events # <<>> /\ e.purpose = "append"
  BY DEF AppendCallback
<1>2. EventOK(server, puts, current.uid, e)
  BY <1>1, TailQueues DEF RInv
<1>3. e.key # k
  <2>1. Known(server, puts, e.key, "contract", Len(puts) + 1)
    BY <1>1, <1>2 DEF EventOK, AppendKnown
  <2> QED
    BY <2>1, NotBoth DEF RInv
<1>4. p.key = e.key
  BY DEF ListPut, PutAt
<1>5. puts \in Seq(Put)
  BY DEF RInv, IInv, TypeOK, ClientTypeOK
<1> HIDE DEF e, p
<1>6. ps \in Seq({p}) /\ \A i \in 1..Len(ps) : ps[i].key # k
  <2>1. <<p>> \in Seq({p}) /\ <<>> \in Seq({p}) /\ Len(<<>>) = 0
        /\ Len(<<p>>) = 1 /\ <<p>>[1] = p
    OBVIOUS
  <2>2. CASE ps = <<p>>
    <3>1. \A i \in 1..1 : i = 1
      OBVIOUS
    <3> QED
      BY <1>3, <1>4, <2>1, <2>2, <3>1
  <2>3. CASE ps = <<>>
    BY <2>1, <2>3
  <2> QED
    BY <2>2, <2>3
<1> HIDE DEF ps
<1> QED
  BY <1>1, <1>5, <1>6, OtherCost

\* A step that leaves the screen and its arrays alone stays in its phase.
LEMMA BackgroundPhase ==
  ASSUME RInv, AlterationStays(server, puts, applied), screen \in {"review", "edit"},
         InPhase, Background
  PROVE  InPhase'
<1> DEFINE c == current.uid
<1>1. /\ IInv /\ QueuesOK(server, puts, listens, events, c) /\ events \in Seq(Event)
      /\ RowsKnown(server, puts, c, rows) /\ CurrentKnown(server, puts, c)
  BY DEF RInv, IInv, QueuesOK
<1>2. UNCHANGED <<rows, uidArray>>
  BY DEF Background, reviewVars
<1>3. CASE AppendCallback
  <2>1. /\ events # <<>> /\ Head(events).purpose = "append" /\ events' = Tail(events)
        /\ listens' = listens
    BY <1>3 DEF AppendCallback
  <2>2. CASE ArrayAwaited(listens, events)
    BY <1>1, <2>1, <2>2, AppendPhase DEF InPhase
  <2>3. CASE Parted(listens, events, uidArray, rows) /\ CostsCurrent(server, puts, events, rows)
    <3>1. \A k \in Keys : AlterationOf(server, puts, k, c, Len(puts) + 1)
                            => LastCost(server', puts', k) = LastCost(server, puts, k)
      BY <1>3, AppendCosts
    <3>2. CostsCurrent(server', puts', events, rows)
      BY <1>1, <2>3, <3>1, SameCosts
    <3>3. CostsCurrent(server', puts', Tail(events), rows)
      BY <1>1, <2>1, <3>2, AppendPhase
    <3>4. Parted(listens, Tail(events), uidArray, rows)
      BY <1>1, <2>1, <2>3, AppendPhase
    <3> QED
      BY <1>2, <2>1, <3>3, <3>4 DEF InPhase
  <2> QED
    BY <2>2, <2>3 DEF InPhase
<1>4. CASE ServerApply
  <2>1. listens' = listens /\ events' = events
    BY <1>4 DEF ServerApply
  <2>2. CASE ArrayAwaited(listens, events)
    BY <2>1, <2>2 DEF InPhase
  <2>3. CASE Parted(listens, events, uidArray, rows) /\ CostsCurrent(server, puts, events, rows)
    <3>1. \A k \in Keys : AlterationOf(server, puts, k, c, Len(puts) + 1)
                            => LastCost(server', puts', k) = LastCost(server, puts, k)
      BY <1>1, <1>4, ApplyCost
    <3>2. CostsCurrent(server', puts', events, rows)
      BY <1>1, <2>3, <3>1, SameCosts
    <3> QED
      BY <1>2, <2>1, <2>3, <3>2 DEF InPhase
  <2> QED
    BY <2>2, <2>3 DEF InPhase
<1>5. ASSUME NEW k \in Keys, ListenAnswered(k) PROVE InPhase'
  <2>1. server' = server /\ puts' = puts
    BY <1>5 DEF ListenAnswered
  <2>2. CASE ArrayAwaited(listens, events)
    <3>1. ArrayAwaited(listens', events')
      BY <1>1, <1>5, <2>2, AnswerPhase
    <3> QED
      BY <3>1 DEF InPhase
  <2>3. CASE Parted(listens, events, uidArray, rows) /\ CostsCurrent(server, puts, events, rows)
    <3>1. /\ Parted(listens', events', uidArray, rows)
          /\ CostsCurrent(server, puts, events', rows)
      BY <1>1, <1>5, <2>3, AnswerPhase
    <3> QED
      BY <1>2, <2>1, <3>1 DEF InPhase
  <2> QED
    BY <2>2, <2>3 DEF InPhase
<1>6. CASE PutAcked \/ Disconnect \/ Reconnect
  <2>1. UNCHANGED <<server, puts, listens, events>>
    BY <1>6 DEF PutAcked, Disconnect, Reconnect
  <2> QED
    BY <1>2, <2>1 DEF InPhase
<1> QED
  BY <1>3, <1>4, <1>5, <1>6 DEF Background, Network, ClientStep

\* Every step of a review that is not overlapped is a step of its phases.
LEMMA PhaseKept ==
  ASSUME RInv, RInv', LInv, AlterationStays(server, puts, applied),
         (screen \in {"review", "edit"} /\ ~overlapped) => InPhase,
         [NextAll]_allVars, screen' \in {"review", "edit"}, ~overlapped'
  PROVE  InPhase'
<1>0. listens \in [Keys -> Seq(Read)] /\ events \in Seq(Event) /\ IInv
  BY DEF RInv, QueuesOK
<1>1. CASE Background
  <2>1. screen' = screen /\ overlapped' = overlapped
    BY <1>1 DEF Background, reviewVars
  <2> QED
    BY <1>1, <2>1, BackgroundPhase
<1>2. CASE AtHome \/ KillAll \/ OpenReviewWithoutContract \/ CloseReview
  <2>1. screen' \in {"home", "alert"}
    BY <1>2 DEF AtHome, KillAll, OpenReviewWithoutContract, CloseReview, reviewVars
  <2> QED
    BY <2>1
<1>3. CASE OpenReview
  <2>1. OnlyAppends(listens, events) /\ current.uid # NoUID /\ Appear
    BY <1>3 DEF OpenReview, RInv
  <2>2. ArrayAwaited(listens', events')
    BY <1>0, <2>1, AppearPhase
  <2> QED
    BY <2>2 DEF InPhase
<1>4. CASE BackFromEdit \/ \E cost \in Costs : ConfirmEdit(cost)
  <2>1. screen = "edit" /\ Appear /\ OpenReads = {}
    BY <1>4 DEF BackFromEdit, ConfirmEdit
  <2>2. OnlyAppends(listens, events) /\ current.uid # NoUID
    BY <1>0, <2>1, NoOpenReads DEF RInv
  <2>3. ArrayAwaited(listens', events')
    BY <1>0, <2>1, <2>2, AppearPhase
  <2> QED
    BY <2>3 DEF InPhase
<1>5. CASE UidsCallback
  <2>1. screen' = screen /\ overlapped' = overlapped
    BY <1>5 DEF UidsCallback
  <2> QED
    BY <1>5, <2>1, UidsPhase
<1>6. CASE StructCallback
  <2>1. screen' = screen /\ overlapped' = overlapped
    BY <1>6 DEF StructCallback
  <2> QED
    BY <1>6, <2>1, StructPhase
<1>7. CASE UNCHANGED <<server, puts, listens, events, rows, uidArray, overlapped>>
           /\ screen \in {"review", "edit"}
  BY <1>7 DEF InPhase
<1>8. CASE ReviewAndSign \/ (\E i \in DOMAIN shown : SelectRow(i)) \/ UNCHANGED allVars
  <2>1. /\ UNCHANGED <<server, puts, listens, events, rows, uidArray, overlapped>>
        /\ screen \in {"review", "edit"}
    BY <1>8 DEF ReviewAndSign, SelectRow, allVars, vars, clientVars, reviewVars
  <2> QED
    BY <1>7, <2>1
<1> QED
  BY <1>1, <1>2, <1>3, <1>4, <1>5, <1>6, <1>8 DEF NextAll

\* With nothing open, the uids of the array are all rows.
LEMMA QuietFollows ==
  ASSUME QInv
  PROVE  QuietReviewIsTheContract
<1> SUFFICES ASSUME screen = "review", ~overlapped, OpenReads = {}
             PROVE  /\ Uids(rows) = Elements(uidArray) \ {Marker}
                    /\ NoneTwice(rows)
                    /\ \A i \in DOMAIN rows : rows[i].cost = View(rows[i].uid).cost
  BY DEF QuietReviewIsTheContract
<1>1. /\ UidsIn(events) = {} /\ StructsIn(events) = {}
      /\ \A k \in Keys : UidsIn(listens[k]) = {} /\ StructsIn(listens[k]) = {}
  BY NoneOpen DEF QInv, RInv, QueuesOK
<1>2. Parted(listens, events, uidArray, rows) /\ CostsCurrent(server, puts, events, rows)
  <2>1. InPhase
    BY DEF QInv
  <2>2. ~ArrayAwaited(listens, events)
    BY <1>1 DEF ArrayAwaited
  <2> QED
    BY <2>1, <2>2 DEF InPhase
<1>3. Answered(events) = {} /\ Awaited(listens) = {}
  BY <1>1 DEF Answered, Awaited
<1>4. Uids(rows) = Elements(uidArray) \ {Marker} /\ NoneTwice(rows)
  BY <1>2, <1>3 DEF Parted
<1>5. ASSUME NEW i \in DOMAIN rows PROVE rows[i].cost = View(rows[i].uid).cost
  <2>1. i \in 1..Len(rows) /\ IInv
    BY LenProperties DEF QInv, RInv, ReviewTypeOK
  <2>2. RowKnown(server, puts, current.uid, rows[i])
    BY <2>1 DEF QInv, RInv, RowsKnown
  <2>3. /\ AlterationOf(server, puts, rows[i].uid, current.uid, Len(puts) + 1)
        /\ rows[i].uid \in Keys
    BY <2>2 DEF RowKnown, AlterationOf
  <2>4. View(rows[i].uid).cost = LastCost(server, puts, rows[i].uid)
    BY <2>1, <2>3, AlterationView DEF QInv
  <2> QED
    BY <1>2, <2>1, <2>4 DEF CostsCurrent
<1> QED
  BY <1>4, <1>5

\* The inductive invariant holds in every reachable state.
LEMMA PhaseInvariant == SpecAll => []QInv
<1>1. InitAll => QInv
  <2> SUFFICES ASSUME InitAll PROVE QInv
    OBVIOUS
  <2>1. RInv /\ LInv
    BY ReviewStarts, InitLists DEF InitAll
  <2>2. applied = 0 /\ screen = "home"
    BY DEF InitAll, Init, ClientInit, ReviewInit
  <2> QED
    BY <2>1, <2>2 DEF QInv, AlterationStays
<1>2. QInv /\ [NextAll]_allVars => QInv'
  <2> SUFFICES ASSUME QInv, [NextAll]_allVars PROVE QInv'
    OBVIOUS
  <2>1. RInv /\ LInv /\ AlterationStays(server, puts, applied) /\ IInv
    BY DEF QInv, RInv
  <2>2. RInv'
    BY <2>1, ReviewKept
  <2>3. LInv'
    BY <2>1, <2>2, ReviewListsKept
  <2>4. AlterationStays(server', puts', applied')
    BY <2>1, StepWrites, AlterationsStay
  <2>5. (screen' \in {"review", "edit"} /\ ~overlapped') => InPhase'
    BY <2>1, <2>2, PhaseKept DEF QInv
  <2> QED
    BY <2>2, <2>3, <2>4, <2>5 DEF QInv
<1> QED
  BY <1>1, <1>2, PTL DEF SpecAll

\* Unless a round of loading begins before the last one is over, a review with
\* nothing left to read shows each alteration of the array it loaded, once,
\* with the cost it was last given: for any number of alterations, edits,
\* rounds, lost connections and orders in which reads are answered.
THEOREM QuietReviewsAreTheContract == SpecAll => []QuietReviewIsTheContract
<1>1. QInv => QuietReviewIsTheContract
  BY QuietFollows
<1> QED
  BY <1>1, PhaseInvariant, PTL

\* Reviewing and editing leave the arrays well formed: whatever the review
\* reads, drops when it is closed or writes back, a contract's array starts
\* with "-1" and names each alteration once (FirebaseHelperMethods 129-170).
THEOREM ReviewedListsWellFormed == SpecAll => []ListsWellFormed
<1>1. QInv => ListsWellFormed
  <2> SUFFICES ASSUME QInv, NEW k \in Keys, server[k].kind = "contract"
               PROVE  /\ server[k].list # <<>> /\ server[k].list[1] = Marker
                      /\ \A i, j \in DOMAIN server[k].list :
                           server[k].list[i] = server[k].list[j] => i = j
    BY DEF ListsWellFormed
  <2>1. GoodNode(server[k])
    BY OldNodes DEF QInv, LInv, GoodNodes
  <2> QED
    BY <2>1 DEF GoodNode
<1> QED
  BY <1>1, PhaseInvariant, PTL
=============================================================================
