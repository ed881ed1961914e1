---------------------------- MODULE SessionSteps ----------------------------
(***************************************************************************)
(* What the proofs about Session need to know of its steps: the types, the *)
(* blocks of the main queue and what becomes of them, and the steps sorted *)
(* into the few kinds the invariants tell apart.                           *)
(***************************************************************************)
EXTENDS Session, SequenceTheorems, FiniteSetTheorems, TLAPS

-----------------------------------------------------------------------------
(* The types, and the blocks of the queue.                                 *)

Sent == [kind : {"signIn", "create"}, user : Users, gone : BOOLEAN]
(* The blocks the main queue can hold; their requests were really sent.    *)
Block == {Post, FirstCall} \cup [kind : {"firstCallOf"}, of : Listener]
           \cup [kind : {"callback"}, request : Sent, ok : BOOLEAN]

AlertKinds == {"none", "oops", "leaving", "welcome", "verify"}
AlertType == [kind : AlertKinds, user : MaybeUser]
Screens == {"appearing", "contract", "pushed", "login", "account"}

(* The types, stronger than SessionTypeOK: the queue holds blocks.         *)
Types ==
  /\ accounts \in SUBSET Users /\ records \in SUBSET Users /\ cut \in SUBSET Users
  /\ profile \in [Users -> MaybeUser]
  /\ requests \in [Slot -> Request]
  /\ renames \in SUBSET [user : Users, name : Users]
  /\ user \in MaybeUser /\ saved \in MaybeUser
  /\ loaded \in BOOLEAN /\ busy \in BOOLEAN /\ crossed \in BOOLEAN /\ stuck \in BOOLEAN
  /\ queue \in Seq(Block)
  /\ listener \in Listener
  /\ screen \in Screens
  /\ alert \in AlertType
  /\ own \in MaybeUser /\ rootUID \in MaybeUser /\ progress \in MaybeUser /\ told \in MaybeUser
  /\ specialist \in [uid : MaybeUser, displayName : MaybeUser \cup {Placeholder}]
  /\ made \in Seq(MaybeUser)
  /\ events \in 0 .. MaxEvents

(* A block is told by its kind, and carries what its kind says.            *)
LEMMA BlockKinds ==
  ASSUME NEW b \in Block
  PROVE  /\ b.kind \in {"post", "firstCall", "firstCallOf", "callback"}
         /\ b.kind = "post" <=> b = Post
         /\ b.kind = "firstCall" <=> b = FirstCall
         /\ b.kind = "firstCallOf" => b.of \in Listener
         /\ b.kind = "callback" => b.request \in Sent /\ b.ok \in BOOLEAN
BY DEF Block, Post, FirstCall

(* The blocks the code makes are blocks, of the kinds they are named for.  *)
LEMMA BlocksMade ==
  /\ Post \in Block /\ FirstCall \in Block
  /\ Post.kind = "post" /\ FirstCall.kind = "firstCall"
  /\ \A l \in Listener : FirstCallOf(l) \in Block /\ FirstCallOf(l).kind = "firstCallOf"
                           /\ FirstCallOf(l).of = l
  /\ \A r \in Sent, ok \in BOOLEAN :
       /\ Callback(r, ok) \in Block /\ Callback(r, ok).kind = "callback"
       /\ Callback(r, ok).request = r /\ Callback(r, ok).ok = ok
BY DEF Block, Post, FirstCall, FirstCallOf, Callback

(* A callback carries its request and whether it was granted.              *)
LEMMA CallbacksMade ==
  ASSUME NEW r \in Sent
  PROVE  /\ Callback(r, TRUE) \in Block /\ Callback(r, TRUE).kind = "callback"
         /\ Callback(r, TRUE).request = r /\ Callback(r, TRUE).ok
         /\ Callback(r, FALSE) \in Block /\ Callback(r, FALSE).kind = "callback"
         /\ Callback(r, FALSE).request = r /\ ~Callback(r, FALSE).ok
BY DEF Block, Callback

(* The indices of a queue, and what is at each.                            *)
LEMMA Domains ==
  ASSUME NEW q \in Seq(Block)
  PROVE  /\ Len(q) \in Nat /\ DOMAIN q = 1 .. Len(q)
         /\ \A i \in DOMAIN q : q[i] \in Block
         /\ q = <<>> <=> Len(q) = 0
BY LenProperties, ElementOfSeq, EmptySeq

(* The queue without the block that runs.                                  *)
LEMMA TailBlocks ==
  ASSUME NEW q \in Seq(Block), q # <<>>
  PROVE  /\ 1 \in DOMAIN q /\ Head(q) = q[1] /\ Head(q) \in Block
         /\ Tail(q) \in Seq(Block) /\ Len(Tail(q)) = Len(q) - 1
         /\ DOMAIN Tail(q) = 1 .. Len(q) - 1
         /\ \A i \in 1 .. Len(q) - 1 : Tail(q)[i] = q[i + 1]
BY HeadTailProperties, Domains

(* The queue with a block behind it.                                       *)
LEMMA AppendBlocks ==
  ASSUME NEW q \in Seq(Block), NEW b \in Block
  PROVE  /\ Append(q, b) \in Seq(Block) /\ Len(Append(q, b)) = Len(q) + 1
         /\ DOMAIN Append(q, b) = 1 .. Len(q) + 1
         /\ \A i \in 1 .. Len(q) : Append(q, b)[i] = q[i]
         /\ Append(q, b)[Len(q) + 1] = b
BY AppendProperties, Domains

(* Changing blocks in place makes a queue of the same length.              *)
LEMMA MapBlocks ==
  ASSUME NEW q \in Seq(Block), NEW p, p = [i \in DOMAIN q |-> p[i]],
         \A i \in DOMAIN q : p[i] \in Block
  PROVE  p \in Seq(Block) /\ Len(p) = Len(q) /\ DOMAIN p = DOMAIN q
<1>1. Len(q) \in Nat /\ DOMAIN q = 1 .. Len(q)
  BY Domains
<1>2. p \in [1 .. Len(q) -> Block]
  BY <1>1
<1>3. p \in Seq(Block)
  BY <1>1, <1>2, SeqDef
<1>4. Len(p) = Len(q)
  BY <1>1, <1>2, <1>3, LenProperties
<1> QED
  BY <1>1, <1>2, <1>3, <1>4

(* Removing a listener changes only first calls of the registered one.     *)
LEMMA DetachedBlocks ==
  ASSUME NEW q \in Seq(Block), NEW l \in Listener
  PROVE  /\ Detached(l, q) \in Seq(Block) /\ Len(Detached(l, q)) = Len(q)
         /\ DOMAIN Detached(l, q) = DOMAIN q
         /\ \A i \in DOMAIN q : Detached(l, q)[i] = IF q[i] = FirstCall THEN FirstCallOf(l) ELSE q[i]
<1> DEFINE p == Detached(l, q)
<1>1. /\ p = [i \in DOMAIN q |-> p[i]]
      /\ \A i \in DOMAIN q : p[i] = IF q[i] = FirstCall THEN FirstCallOf(l) ELSE q[i]
  BY DEF Detached
<1>2. \A i \in DOMAIN q : p[i] \in Block
  BY <1>1, Domains, BlocksMade
<1> QED
  BY <1>1, <1>2, MapBlocks

(* A request that is marked gone keeps its kind and its user.              *)
LEMMA GoneSent ==
  ASSUME NEW r \in Sent, NEW k
  PROVE  /\ Gone(k, r) \in Sent
         /\ Gone(k, r).kind = r.kind /\ Gone(k, r).user = r.user
         /\ r.gone \/ r.kind = k => Gone(k, r).gone
         /\ Gone(k, r).gone => r.gone \/ r.kind = k
BY DEF Gone, Sent

(* Marking requests gone in the queue leaves everything but callbacks      *)
(* alone.                                                                  *)
LEMMA GoneBlocks ==
  ASSUME NEW q \in Seq(Block), NEW k
  PROVE  /\ GoneInQueue(k, q) \in Seq(Block) /\ Len(GoneInQueue(k, q)) = Len(q)
         /\ DOMAIN GoneInQueue(k, q) = DOMAIN q
         /\ \A i \in DOMAIN q :
              /\ q[i].kind # "callback" => GoneInQueue(k, q)[i] = q[i]
              /\ q[i].kind = "callback" => 
                   /\ GoneInQueue(k, q)[i].kind = "callback"
                   /\ GoneInQueue(k, q)[i].ok = q[i].ok
                   /\ GoneInQueue(k, q)[i].request = Gone(k, q[i].request)
<1> DEFINE p == GoneInQueue(k, q)
<1>1. /\ p = [i \in DOMAIN q |-> p[i]]
      /\ \A i \in DOMAIN q : p[i] = IF q[i].kind = "callback"
                        THEN [q[i] EXCEPT !.request = Gone(k, @)] ELSE q[i]
  BY DEF GoneInQueue
<1>2. ASSUME NEW b \in Block, b.kind = "callback"
      PROVE  LET c == [b EXCEPT !.request = Gone(k, @)]
             IN  c \in Block /\ c.kind = "callback" /\ c.ok = b.ok
                   /\ c.request = Gone(k, b.request)
  <2>1. b \in [kind : {"callback"}, request : Sent, ok : BOOLEAN]
    BY <1>2 DEF Block, Post, FirstCall
  <2>2. Gone(k, b.request) \in Sent
    BY <2>1, GoneSent
  <2> QED
    BY <2>1, <2>2 DEF Block
<1>3. \A i \in DOMAIN q : q[i] \in Block
  BY Domains
<1>4. \A i \in DOMAIN q : p[i] \in Block
  BY <1>1, <1>2, <1>3
<1> QED
  BY <1>1, <1>2, <1>3, <1>4, MapBlocks

-----------------------------------------------------------------------------
(* The listener knows the current user; it is one of the contract screen's. *)
Knows == listener.called /\ listener.prev = user
Asks == listener.kind \in {"contract", "signOut"}

(* The steps, case by case. A block at the head of the queue calls the     *)
(* registered listener, or one that was removed before its first call.     *)

Registered == queue # <<>> /\ Head(queue) \in {Post, FirstCall} /\ queue' = Tail(queue)
Late == queue # <<>> /\ Head(queue).kind = "firstCallOf" /\ queue' = Tail(queue)

\* A listener of CreateContractVC is called with a user.
HearContract ==
  /\ \/ Registered /\ Asks /\ listener' = Heard(listener)
     \/ Late /\ UNCHANGED listener
  /\ user # NoUser /\ told' = user
  /\ ContractHears
  /\ UNCHANGED Unheard

\* The listener signOutAction added is called without one.
HearAsk ==
  /\ \/ Registered /\ listener.kind = "signOut" /\ listener' = Heard(listener)
     \/ Late /\ Head(queue).of.kind = "signOut" /\ UNCHANGED listener
  /\ user = NoUser
  /\ AskToSignOut
  /\ UNCHANGED <<Unheard, told>>

\* LoginVC's listener is called with a user.
HearLogin ==
  /\ queue # <<>> /\ Head(queue) \in {Post, FirstCall}
  /\ listener.kind = "login" /\ user # NoUser
  /\ told' = user /\ rootUID' = user
  /\ specialist' = [specialist EXCEPT !.uid = user]
  /\ DismissLogin(Heard(listener), Tail(queue))
  /\ UNCHANGED <<Unheard, own>>

\* The same, after the screen is gone.
HearLate ==
  /\ Late
  /\ user # NoUser
  /\ told' = user /\ rootUID' = user
  /\ specialist' = [specialist EXCEPT !.uid = user]
  /\ UNCHANGED <<Unheard, own, listener, screen, alert, requests, stuck>>

\* The listener knows the user already, or has nothing to do without one.
HearNothing ==
  /\ \/ /\ Registered /\ listener' = Heard(listener)
        /\ Knows \/ user = NoUser \/ listener.kind = "none"
     \/ Late /\ UNCHANGED listener
  /\ UNCHANGED <<Unheard, own, rootUID, specialist, screen, alert, requests, stuck, told>>

Hearing == HearContract \/ HearAsk \/ HearLogin \/ HearLate \/ HearNothing

\* loginAction's block, after the login screen went, from the account screen
\* and from the login screen.
SignedInRest ==
  UNCHANGED <<accounts, profile, records, renames, auth, singletons, told, crossed, events>>
SignedInLate ==
  /\ Returns("signIn", TRUE) /\ queue' = Tail(queue)
  /\ UNCHANGED <<listener, screen, alert, requests, stuck, cut>> /\ SignedInRest
SignedInAccount ==
  /\ Returns("signIn", TRUE) /\ screen = "account"
  /\ AccountDismissed(Tail(queue)) /\ UNCHANGED stuck /\ SignedInRest
SignedInLogin ==
  /\ Returns("signIn", TRUE) /\ ~Head(queue).request.gone /\ screen = "login"
  /\ DismissLogin(listener, Tail(queue)) /\ UNCHANGED cut /\ SignedInRest

Act ==
  \/ Hearing
  \/ SignedInLate \/ SignedInAccount \/ SignedInLogin \/ AccountCreated
  \/ CallbackFails("signIn", "login") \/ CallbackFails("create", "account")
  \/ Outside \/ Touch

(* A notification or a first call is one of five steps: the contract       *)
(* screen hears, the sign-out listener asks, the login screen hears, a     *)
(* removed login listener hears, or nothing happens (Call).                *)
LEMMA CallCases ==
  ASSUME Types, RunPost \/ RunFirstCall
  PROVE  Hearing
<1> USE DEF Hearing
<1>1. CASE \/ RunPost
           \/ /\ queue # <<>> /\ Head(queue) = FirstCall
              /\ Call(listener, TRUE, Tail(queue)) /\ UNCHANGED Unheard
  <2>1. queue # <<>> /\ Head(queue) \in {Post, FirstCall} /\ Call(listener, TRUE, Tail(queue)) /\ UNCHANGED Unheard
    BY <1>1 DEF RunPost
  <2>2. CASE ~Knows /\ user # NoUser /\ Asks /\ ContractHears /\ listener' = Heard(listener) /\ queue' = Tail(queue)
    BY <2>1, <2>2 DEF Call, HearContract, Registered, Knows, Asks
  <2>3. CASE user = NoUser /\ listener.kind = "signOut" /\ AskToSignOut /\ listener' = Heard(listener) /\ queue' = Tail(queue)
    BY <2>1, <2>3 DEF Call, HearAsk, Registered, Asks
  <2>4. CASE /\ ~Knows /\ user # NoUser /\ listener.kind = "login" /\ rootUID' = user
             /\ specialist' = [specialist EXCEPT !.uid = user] /\ UNCHANGED own
             /\ DismissLogin(Heard(listener), Tail(queue))
    BY <2>1, <2>4 DEF Call, HearLogin, Knows
  <2>5. CASE /\ Knows \/ (user = NoUser /\ listener.kind # "signOut") \/ listener.kind = "none"
             /\ listener' = Heard(listener) /\ queue' = Tail(queue)
             /\ UNCHANGED <<own, rootUID, specialist, screen, alert, requests, stuck>>
    BY <2>1, <2>5 DEF Call, HearNothing, Registered, Knows
  <2> QED
    BY <2>1, <2>2, <2>3, <2>4, <2>5 DEF Call, Knows, Asks
<1>2. CASE queue # <<>> /\ Head(queue).kind = "firstCallOf" /\ Call(Head(queue).of, FALSE, Tail(queue)) /\ UNCHANGED Unheard
  BY <1>2 DEF Call, HearContract, HearAsk, HearLate, HearNothing, Late
<1> QED
  BY <1>1, <1>2 DEF RunFirstCall

(* Every step of Next is one of those, of the other callbacks' or of the   *)
(* others.                                                                 *)
LEMMA ActCases ==
  ASSUME Types, Next
  PROVE  Act /\ busy' \in BOOLEAN
<1>1. SignedIn => SignedInLate \/ SignedInAccount \/ SignedInLogin
  BY DEF SignedIn, SignedInLate, SignedInAccount, SignedInLogin, SignedInRest
<1>2. MainQueueBlock => Act
  BY <1>1, CallCases DEF MainQueueBlock, Act
<1>3. busy' \in BOOLEAN
  BY DEF Next
<1> QED
  BY <1>2, <1>3 DEF Next, Act

-----------------------------------------------------------------------------
(* What a step makes of the queue. A block that stays is the one it was,   *)
(* but for the first call of a listener that is removed and the callback   *)
(* of a controller that is gone.                                           *)

Kept(b, c) ==
  /\ c \in Block
  /\ b.kind \in {"post", "firstCallOf"} => c = b
  /\ b.kind = "firstCall" => c.kind \in {"firstCall", "firstCallOf"}
  /\ b.kind = "callback" =>
       /\ c.kind = "callback" /\ c.ok = b.ok
       /\ c.request.kind = b.request.kind /\ c.request.user = b.request.user
       /\ b.request.gone => c.request.gone

(* A block that is not touched is kept.                                    *)
LEMMA KeptItself ==
  ASSUME NEW b \in Block
  PROVE  Kept(b, b)
BY BlockKinds DEF Kept

(* The main queue when the block at its head runs.                         *)
LEMMA QueueTail ==
  ASSUME Types, queue # <<>>
  PROVE  /\ Len(queue) \in Nat /\ Len(queue) > 0 /\ DOMAIN queue = 1 .. Len(queue)
         /\ Head(queue) = queue[1] /\ Head(queue) \in Block
         /\ Tail(queue) \in Seq(Block) /\ DOMAIN Tail(queue) = 1 .. Len(queue) - 1
         /\ Len(Tail(queue)) = Len(queue) - 1
         /\ \A i \in 1 .. Len(queue) - 1 : Tail(queue)[i] = queue[i + 1]
         /\ \A i \in 1 .. Len(queue) - 1 : Kept(queue[i + 1], Tail(queue)[i])
<1>1. queue \in Seq(Block)
  BY DEF Types
<1>2. /\ Len(queue) \in Nat /\ Len(queue) > 0 /\ DOMAIN queue = 1 .. Len(queue)
      /\ \A i \in DOMAIN queue : queue[i] \in Block
  BY <1>1, Domains
<1> QED
  BY <1>1, <1>2, TailBlocks, KeptItself

\* The queue after the login screen, the account screen and the navigation
\* controller's wait went, and after a reply.
LeftQueue(l, q) == Append(Detached(l, GoneInQueue("signIn", q)), FirstCall)
BackQueue(q) == Append(GoneInQueue("create", q), FirstCall)
NavQueue == Append(Detached(listener, queue), FirstCall)
ReplyQueue(r) == queue \o <<Post, Callback(r, TRUE)>>

(* The queue after the login screen went (LoginDismissed): first calls are *)
(* on their own, sign-ins are gone, and the contract listener's first call *)
(* is last.                                                                *)
LEMMA QueueLeft ==
  ASSUME NEW q \in Seq(Block), NEW l \in Listener
  PROVE  LET p == LeftQueue(l, q) IN
         /\ p \in Seq(Block) /\ DOMAIN p = 1 .. Len(q) + 1 /\ p[Len(q) + 1] = FirstCall
         /\ \A i \in 1 .. Len(q) :
              /\ Kept(q[i], p[i])
              /\ p[i] # FirstCall
              /\ p[i].kind = "firstCallOf" => p[i] = q[i] \/ p[i].of = l
              /\ p[i].kind = "callback" => (p[i].request.kind = "signIn" => p[i].request.gone)
<1> DEFINE p == LeftQueue(l, q)
           g == GoneInQueue("signIn", q)
           d == Detached(l, g)
<1>1. Len(q) \in Nat /\ DOMAIN q = 1 .. Len(q) /\ \A i \in DOMAIN q : q[i] \in Block
  BY Domains
<1>2. /\ g \in Seq(Block) /\ Len(g) = Len(q) /\ DOMAIN g = DOMAIN q
      /\ \A i \in DOMAIN q :
              /\ q[i].kind # "callback" => g[i] = q[i]
              /\ q[i].kind = "callback" => 
                   /\ g[i].kind = "callback"
                   /\ g[i].ok = q[i].ok
                   /\ g[i].request = Gone("signIn", q[i].request)
  BY GoneBlocks
<1>3. /\ d \in Seq(Block) /\ Len(d) = Len(g) /\ DOMAIN d = DOMAIN g
      /\ \A i \in DOMAIN g : d[i] = IF g[i] = FirstCall THEN FirstCallOf(l) ELSE g[i]
  BY <1>2, DetachedBlocks
<1>4. /\ p \in Seq(Block) /\ DOMAIN p = 1 .. Len(q) + 1 /\ p[Len(q) + 1] = FirstCall
      /\ \A i \in 1 .. Len(q) : p[i] = d[i]
  BY <1>2, <1>3, AppendBlocks, BlocksMade DEF LeftQueue
<1> HIDE DEF p
<1> SUFFICES ASSUME NEW i \in 1 .. Len(q)
             PROVE  /\ Kept(q[i], p[i])
                    /\ p[i] # FirstCall
                    /\ p[i].kind = "firstCallOf" => p[i] = q[i] \/ p[i].of = l
                    /\ p[i].kind = "callback" => (p[i].request.kind = "signIn" => p[i].request.gone)
  BY <1>4 DEF p
<1> HIDE DEF g, d
<1>5. q[i] \in Block /\ g[i] \in Block /\ d[i] \in Block /\ p[i] = d[i]
  BY <1>1, <1>2, <1>3, <1>4, Domains
<1>6. CASE q[i].kind = "callback"
  <2>1. /\ g[i].kind = "callback" /\ g[i].ok = q[i].ok
        /\ g[i].request = Gone("signIn", q[i].request) /\ q[i].request \in Sent
    BY <1>1, <1>2, <1>5, <1>6, BlockKinds
  <2>2. p[i] = g[i] /\ g[i] # FirstCall
    BY <1>1, <1>2, <1>3, <1>5, <2>1, BlocksMade
  <2>3. LET r == q[i].request
        IN  /\ p[i].request.kind = r.kind /\ p[i].request.user = r.user
            /\ r.gone \/ r.kind = "signIn" => p[i].request.gone
            /\ p[i].request.gone => r.gone \/ r.kind = "signIn"
    <3>1. p[i].request = Gone("signIn", q[i].request)
      BY <2>1, <2>2
    <3>2. q[i].request \in Sent
      BY <2>1
    <3> QED
      BY <3>1, <3>2, GoneSent
  <2> QED
    BY <1>5, <1>6, <2>1, <2>2, <2>3 DEF Kept
<1>7. CASE q[i].kind # "callback"
  <2>1. g[i] = q[i] /\ d[i] = IF q[i] = FirstCall THEN FirstCallOf(l) ELSE q[i]
    BY <1>1, <1>2, <1>3, <1>7
  <2>2. CASE q[i] = FirstCall
    <3>1. p[i] = FirstCallOf(l)
      BY <1>5, <2>1, <2>2
    <3>2. /\ q[i].kind = "firstCall" /\ p[i].kind = "firstCallOf" /\ FirstCall.kind = "firstCall"
          /\ p[i].of = l
      BY <2>2, <3>1, BlocksMade
    <3> QED
      BY <1>5, <3>2 DEF Kept
  <2>3. CASE q[i] # FirstCall
    BY <1>5, <1>7, <2>1, <2>3, KeptItself
  <2> QED
    BY <2>2, <2>3
<1> QED
  BY <1>6, <1>7

(* The queue after the account screen went (AccountDismissed,              *)
(* WelcomeOkay).                                                           *)
LEMMA QueueBack ==
  ASSUME NEW q \in Seq(Block)
  PROVE  LET p == BackQueue(q) IN
         /\ p \in Seq(Block) /\ DOMAIN p = 1 .. Len(q) + 1 /\ p[Len(q) + 1] = FirstCall
         /\ \A i \in 1 .. Len(q) :
              /\ Kept(q[i], p[i])
              /\ p[i].kind = q[i].kind
              /\ p[i].kind = "callback" => (p[i].request.kind = "create" => p[i].request.gone)
<1> DEFINE p == BackQueue(q)
           g == GoneInQueue("create", q)
<1>1. Len(q) \in Nat /\ DOMAIN q = 1 .. Len(q) /\ \A i \in DOMAIN q : q[i] \in Block
  BY Domains
<1>2. /\ g \in Seq(Block) /\ Len(g) = Len(q) /\ DOMAIN g = DOMAIN q
      /\ \A i \in DOMAIN q :
              /\ q[i].kind # "callback" => g[i] = q[i]
              /\ q[i].kind = "callback" => 
                   /\ g[i].kind = "callback"
                   /\ g[i].ok = q[i].ok
                   /\ g[i].request = Gone("create", q[i].request)
  BY GoneBlocks
<1>3. /\ p \in Seq(Block) /\ DOMAIN p = 1 .. Len(q) + 1 /\ p[Len(q) + 1] = FirstCall
      /\ \A i \in 1 .. Len(q) : p[i] = g[i]
  BY <1>2, AppendBlocks, BlocksMade DEF BackQueue
<1> HIDE DEF p
<1> SUFFICES ASSUME NEW i \in 1 .. Len(q)
             PROVE  /\ Kept(q[i], p[i])
                    /\ p[i].kind = q[i].kind
                    /\ p[i].kind = "callback" => (p[i].request.kind = "create" => p[i].request.gone)
  BY <1>3 DEF p
<1> HIDE DEF g
<1>4. q[i] \in Block /\ g[i] \in Block /\ p[i] = g[i]
  BY <1>1, <1>2, <1>3, Domains
<1>5. CASE q[i].kind = "callback"
  <2>1. /\ g[i].kind = "callback" /\ g[i].ok = q[i].ok
        /\ g[i].request = Gone("create", q[i].request) /\ q[i].request \in Sent
    BY <1>1, <1>2, <1>4, <1>5, BlockKinds
  <2>2. LET r == q[i].request
        IN  /\ p[i].request.kind = r.kind /\ p[i].request.user = r.user
            /\ r.gone \/ r.kind = "create" => p[i].request.gone
    <3>1. p[i].request = Gone("create", q[i].request)
      BY <1>4, <2>1
    <3>2. q[i].request \in Sent
      BY <2>1
    <3> QED
      BY <3>1, <3>2, GoneSent
  <2> QED
    BY <1>4, <1>5, <2>1, <2>2 DEF Kept
<1>6. CASE q[i].kind # "callback"
  <2>1. g[i] = q[i]
    BY <1>1, <1>2, <1>6
  <2> QED
    BY <1>4, <1>6, <2>1, KeptItself
<1> QED
  BY <1>5, <1>6

(* The queue after the navigation controller brought up the login screen   *)
(* (NavDidAppear).                                                         *)
LEMMA QueueNav ==
  ASSUME Types
  PROVE  LET p == NavQueue IN
         /\ p \in Seq(Block) /\ DOMAIN p = 1 .. Len(queue) + 1 /\ p[Len(queue) + 1] = FirstCall
         /\ \A i \in 1 .. Len(queue) :
              /\ Kept(queue[i], p[i])
              /\ p[i] # FirstCall
              /\ p[i].kind = "firstCallOf" => p[i] = queue[i] \/ p[i].of = listener
              /\ p[i].kind = "callback" => p[i] = queue[i]
<1> DEFINE p == NavQueue
           d == Detached(listener, queue)
<1>1. queue \in Seq(Block) /\ listener \in Listener
  BY DEF Types
<1>2. Len(queue) \in Nat /\ DOMAIN queue = 1 .. Len(queue) /\ \A i \in DOMAIN queue : queue[i] \in Block
  BY <1>1, Domains
<1>3. /\ d \in Seq(Block) /\ Len(d) = Len(queue) /\ DOMAIN d = DOMAIN queue
      /\ \A i \in DOMAIN queue : d[i] = IF queue[i] = FirstCall THEN FirstCallOf(listener) ELSE queue[i]
  BY <1>1, DetachedBlocks
<1>4. /\ p \in Seq(Block) /\ DOMAIN p = 1 .. Len(queue) + 1 /\ p[Len(queue) + 1] = FirstCall
      /\ \A i \in 1 .. Len(queue) : p[i] = d[i]
  BY <1>3, AppendBlocks, BlocksMade DEF NavQueue
<1> HIDE DEF d, p
<1> SUFFICES ASSUME NEW i \in 1 .. Len(queue)
             PROVE  /\ Kept(queue[i], p[i])
                    /\ p[i] # FirstCall
                    /\ p[i].kind = "firstCallOf" => p[i] = queue[i] \/ p[i].of = listener
                    /\ p[i].kind = "callback" => p[i] = queue[i]
  BY <1>4 DEF p
<1>5. queue[i] \in Block /\ d[i] \in Block /\ p[i] = IF queue[i] = FirstCall THEN FirstCallOf(listener) ELSE queue[i]
  BY <1>2, <1>3, <1>4, Domains
<1> QED
  BY <1>1, <1>5, BlocksMade, BlockKinds, KeptItself DEF Kept

(* The main queue with a block behind it.                                  *)
LEMMA QueueAppend ==
  ASSUME Types, NEW b \in Block
  PROVE  /\ Len(queue) \in Nat /\ DOMAIN queue = 1 .. Len(queue)
         /\ Append(queue, b) \in Seq(Block) /\ Len(Append(queue, b)) = Len(queue) + 1
         /\ DOMAIN Append(queue, b) = 1 .. Len(queue) + 1
         /\ Append(queue, b)[Len(queue) + 1] = b
         /\ \A i \in 1 .. Len(queue) : Append(queue, b)[i] = queue[i] /\ Kept(queue[i], Append(queue, b)[i])
<1>1. queue \in Seq(Block) /\ \A i \in DOMAIN queue : queue[i] \in Block
  BY Domains DEF Types
<1> QED
  BY <1>1, AppendBlocks, Domains, KeptItself

(* The main queue after a granted reply: a notification, then the          *)
(* callback.                                                               *)
LEMMA QueueReply ==
  ASSUME Types, NEW r \in Sent
  PROVE  LET p == ReplyQueue(r) IN
         /\ Len(queue) \in Nat /\ DOMAIN queue = 1 .. Len(queue)
         /\ p \in Seq(Block) /\ Len(p) = Len(queue) + 2 /\ DOMAIN p = 1 .. Len(queue) + 2
         /\ p[Len(queue) + 1] = Post /\ p[Len(queue) + 2] = Callback(r, TRUE)
         /\ \A i \in 1 .. Len(queue) : p[i] = queue[i] /\ Kept(queue[i], p[i])
<1> DEFINE p == ReplyQueue(r)
           b == Callback(r, TRUE)
           t == <<Post, b>>
<1>1. queue \in Seq(Block) /\ b \in Block /\ Post \in Block
  BY BlocksMade DEF Types
<1>2. /\ Len(queue) \in Nat /\ DOMAIN queue = 1 .. Len(queue)
      /\ \A i \in DOMAIN queue : queue[i] \in Block
  BY <1>1, Domains
<1> HIDE DEF b
<1>3. t \in Seq(Block) /\ Len(t) = 2 /\ t[1] = Post /\ t[2] = b
  BY <1>1
<1>4. p = queue \o t
  BY DEF b, ReplyQueue
<1> HIDE DEF t, p
<1>5. /\ p \in Seq(Block) /\ Len(p) = Len(queue) + 2
      /\ \A i \in 1 .. Len(p) : p[i] = IF i <= Len(queue) THEN queue[i] ELSE t[i - Len(queue)]
  <2>1. /\ p \in Seq(Block) /\ Len(p) = Len(queue) + Len(t)
        /\ \A i \in 1 .. Len(queue) + Len(t) :
              p[i] = IF i <= Len(queue) THEN queue[i] ELSE t[i - Len(queue)]
    BY <1>1, <1>3, <1>4, ConcatProperties
  <2> QED
    BY <1>3, <2>1
<1>6. DOMAIN p = 1 .. Len(queue) + 2
  BY <1>5, Domains
<1>7. p[Len(queue) + 1] = Post /\ p[Len(queue) + 2] = b
  <2>1. Len(queue) + 1 \in 1 .. Len(p) /\ Len(queue) + 2 \in 1 .. Len(p)
    BY <1>2, <1>5
  <2>2. p[Len(queue) + 1] = t[Len(queue) + 1 - Len(queue)] /\ p[Len(queue) + 2] = t[Len(queue) + 2 - Len(queue)]
    BY <1>2, <1>5, <2>1
  <2> QED
    BY <1>2, <1>3, <2>2
<1>8. \A i \in 1 .. Len(queue) : p[i] = queue[i]
  BY <1>2, <1>5
<1> QED
  BY <1>2, <1>5, <1>6, <1>7, <1>8, KeptItself DEF b, p

(* A listener that was just added has not been called and remembers        *)
(* nobody.                                                                 *)
LEMMA ListenersMade ==
  /\ \A k \in {"none", "contract", "signOut", "login"} :
       Added(k) \in Listener /\ Added(k).kind = k /\ Added(k).called = FALSE /\ Added(k).prev = NoUser
  /\ Removed \in Listener /\ Removed.kind = "none" /\ Removed.prev = NoUser
BY DEF Added, Removed, Listener, MaybeUser

(* An alert carries its kind and its user.                                 *)
LEMMA AlertsMade ==
  /\ \A k \in AlertKinds, u \in MaybeUser :
       Alert(k, u) \in AlertType /\ Alert(k, u).kind = k /\ Alert(k, u).user = u
  /\ NoAlert \in AlertType /\ NoAlert.kind = "none"
BY DEF Alert, NoAlert, AlertType, AlertKinds, MaybeUser

(* A listener that was called remembers the user it was called with.       *)
LEMMA HeardListener ==
  ASSUME NEW l \in Listener, user \in MaybeUser
  PROVE  /\ Heard(l) \in Listener /\ Heard(l).kind = l.kind
         /\ l.kind # "none" => Heard(l).called = TRUE /\ Heard(l).prev = user
         /\ l.kind = "none" => Heard(l) = l
BY DEF Heard, Listener

(* RequestsGone marks the requests of one kind and changes nothing else.   *)
LEMMA RequestsAreGone ==
  ASSUME Types, NEW k \in {"signIn", "create"}, RequestsGone(k)
  PROVE  /\ requests' \in [Slot -> Request]
         /\ \A i \in Slot :
              /\ requests'[i].kind = requests[i].kind /\ requests'[i].user = requests[i].user
              /\ requests[i].gone => requests'[i].gone
              /\ requests'[i].kind = k => requests'[i].gone
<1>1. \A i \in Slot : requests[i] \in Request /\ requests'[i] = Gone(k, requests[i])
  BY DEF RequestsGone, Types
<1>2. ASSUME NEW r \in Request
      PROVE  /\ Gone(k, r) \in Request /\ Gone(k, r).kind = r.kind /\ Gone(k, r).user = r.user
             /\ r.gone => Gone(k, r).gone
             /\ r.kind = k => Gone(k, r).gone
  <2>1. CASE r \in Sent
    BY <2>1, GoneSent DEF Request, Sent
  <2>2. CASE r = NoRequest
    BY <2>2 DEF Gone, NoRequest, Request
  <2> QED
    BY <2>1, <2>2 DEF Request, Sent
<1>3. requests' = [i \in Slot |-> requests'[i]]
  BY DEF RequestsGone
<1> QED
  BY <1>1, <1>2, <1>3

(* The login screen goes, after the block at the head of the queue         *)
(* (LoginDismissed).                                                       *)
LEMMA LoginGoes ==
  ASSUME Types, queue # <<>>, NEW l \in Listener, LoginDismissed(l, Tail(queue))
  PROVE  /\ screen' = "appearing" /\ listener' = Added("contract")
         /\ alert' = alert /\ stuck' = stuck /\ RequestsGone("signIn")
         /\ queue' \in Seq(Block) /\ DOMAIN queue' = 1 .. Len(queue)
         /\ queue'[Len(queue)] = FirstCall
         /\ \A i \in 1 .. Len(queue) - 1 :
              /\ Kept(queue[i + 1], queue'[i])
              /\ queue'[i] # FirstCall
              /\ queue'[i].kind = "firstCallOf" => queue'[i] = queue[i + 1] \/ queue'[i].of = l
              /\ queue'[i].kind = "callback" =>
                   (queue'[i].request.kind = "signIn" => queue'[i].request.gone)
<1> DEFINE q == Tail(queue)
           p == LeftQueue(l, q)
<1>1. /\ queue' = p /\ screen' = "appearing" /\ listener' = Added("contract")
      /\ alert' = alert /\ stuck' = stuck /\ RequestsGone("signIn")
  BY DEF LoginDismissed, AddListener, LeftQueue
<1>2. /\ Len(queue) \in Nat /\ q \in Seq(Block) /\ Len(q) = Len(queue) - 1
      /\ \A i \in 1 .. Len(queue) - 1 : q[i] = queue[i + 1]
  BY QueueTail
<1>3. /\ p \in Seq(Block) /\ DOMAIN p = 1 .. Len(q) + 1 /\ p[Len(q) + 1] = FirstCall
      /\ \A i \in 1 .. Len(q) :
              /\ Kept(q[i], p[i])
              /\ p[i] # FirstCall
              /\ p[i].kind = "firstCallOf" => p[i] = q[i] \/ p[i].of = l
              /\ p[i].kind = "callback" =>
                   (p[i].request.kind = "signIn" => p[i].request.gone)
  BY <1>2, QueueLeft
<1> HIDE DEF q, p
<1> QED
  BY <1>1, <1>2, <1>3

(* The account screen goes, with the queue left as q (AccountDismissed,    *)
(* WelcomeOkay).                                                           *)
LEMMA AccountGoes ==
  ASSUME NEW q \in Seq(Block), LoginAppears(GoneInQueue("create", q))
  PROVE  /\ screen' = "login" /\ listener' = Added("login")
         /\ Len(q) \in Nat
         /\ queue' \in Seq(Block) /\ DOMAIN queue' = 1 .. Len(q) + 1
         /\ queue'[Len(q) + 1] = FirstCall
         /\ \A i \in 1 .. Len(q) :
              /\ Kept(q[i], queue'[i])
              /\ queue'[i].kind = q[i].kind
              /\ queue'[i].kind = "callback" =>
                   (queue'[i].request.kind = "create" => queue'[i].request.gone)
<1>1. queue' = BackQueue(q) /\ screen' = "login" /\ listener' = Added("login")
  BY DEF LoginAppears, AddListener, BackQueue
<1> QED
  BY <1>1, QueueBack, Domains

(* Two initial segments of the naturals are equal only if they are as      *)
(* long.                                                                   *)
LEMMA SameLength ==
  ASSUME NEW m \in Nat, NEW n \in Nat, 1 .. m = 1 .. n
  PROVE  m = n
<1>1. m > 0 => m \in 1 .. n
  OBVIOUS
<1>2. n > 0 => n \in 1 .. m
  OBVIOUS
<1> QED
  BY <1>1, <1>2

(* The same, for a segment that is one longer.                             *)
LEMMA OneLonger ==
  ASSUME NEW m \in Nat, NEW n \in Nat, 1 .. m = 1 .. n + 1
  PROVE  m = n + 1
<1>1. m > 0 => m \in 1 .. n + 1
  OBVIOUS
<1>2. n + 1 \in 1 .. m
  OBVIOUS
<1> QED
  BY <1>1, <1>2

(* What becomes of the queue: d blocks have run, the others stay, and new  *)
(* ones come after them.                                                   *)
Moves(d) ==
  /\ Len(queue) \in Nat /\ Len(queue) >= d /\ DOMAIN queue = 1 .. Len(queue)
  /\ Len(queue') \in Nat /\ Len(queue') >= Len(queue) - d /\ DOMAIN queue' = 1 .. Len(queue')
  /\ \A i \in 1 .. Len(queue) - d : Kept(queue[i + d], queue'[i])
  /\ \A i \in DOMAIN queue' : i > Len(queue) - d => queue'[i].kind \in {"post", "firstCall"}

BlockRuns ==
  \/ Hearing \/ SignedInLate \/ SignedInAccount \/ SignedInLogin \/ AccountCreated
  \/ CallbackFails("signIn", "login") \/ CallbackFails("create", "account")

(* Every block of the main queue takes itself off it and keeps the others  *)
(* in their order; what it adds is a first call.                           *)
LEMMA BlockMoves ==
  ASSUME Types, Types', BlockRuns
  PROVE  queue # <<>> /\ Head(queue) = queue[1] /\ Moves(1)
<1>a. /\ queue # <<>> /\ Tail(queue) \in Seq(Block) /\ Len(Tail(queue)) = Len(queue) - 1
      /\ Len(queue) \in Nat /\ Len(queue) > 0 /\ DOMAIN queue = 1 .. Len(queue)
      /\ Head(queue) = queue[1]
      /\ \A i \in 1 .. Len(queue) - 1 : Tail(queue)[i] = queue[i + 1]
      /\ \A i \in 1 .. Len(queue) - 1 : Kept(queue[i + 1], Tail(queue)[i])
  <2>1. queue # <<>>
    BY DEF BlockRuns, Hearing, HearContract, HearAsk, HearLogin, HearLate, HearNothing, Registered,
           Late, SignedInLate, SignedInAccount, SignedInLogin, AccountCreated, CallbackFails,
              Returns
  <2> QED
    BY <2>1, QueueTail
<1>b. /\ queue' \in Seq(Block) /\ Len(queue') \in Nat /\ DOMAIN queue' = 1 .. Len(queue')
      /\ FirstCall.kind = "firstCall"
  BY Domains, BlocksMade DEF Types
<1>c. listener \in Listener /\ Heard(listener) \in Listener
  BY HeardListener DEF Types
<1> SUFFICES Moves(1)
  BY <1>a
<1>1. CASE queue' = Tail(queue)
  BY <1>1, <1>a, <1>b DEF Moves
<1>2. ASSUME NEW l \in Listener, DismissLogin(l, Tail(queue))
      PROVE  Moves(1)
  <2>1. CASE LoginDismissed(l, Tail(queue))
    <3>1. /\ DOMAIN queue' = 1 .. Len(queue) /\ queue'[Len(queue)] = FirstCall
          /\ \A i \in 1 .. Len(queue) - 1 : Kept(queue[i + 1], queue'[i])
      BY <1>a, <2>1, LoginGoes
    <3>2. Len(queue') = Len(queue)
      BY <1>a, <1>b, <3>1, SameLength
    <3> QED
      BY <1>a, <1>b, <3>1, <3>2 DEF Moves
  <2> QED
    BY <1>1, <1>2, <2>1 DEF DismissLogin
<1>3. CASE SignedInAccount
  <2>1. LoginAppears(GoneInQueue("create", Tail(queue)))
    BY <1>3 DEF SignedInAccount, AccountDismissed
  <2>2. /\ DOMAIN queue' = 1 .. (Len(queue) - 1) + 1 /\ queue'[(Len(queue) - 1) + 1] = FirstCall
        /\ \A i \in 1 .. Len(queue) - 1 : Kept(Tail(queue)[i], queue'[i])
    BY <1>a, <2>1, AccountGoes
  <2>3. Len(queue') = Len(queue)
    <3>1. DOMAIN queue' = 1 .. Len(queue)
      BY <1>a, <2>2
    <3>2. 1 .. Len(queue') = 1 .. Len(queue)
      BY <1>b, <3>1
    <3> QED
      BY <1>a, <1>b, <3>2, SameLength
  <2> QED
    BY <1>a, <1>b, <2>2, <2>3 DEF Moves
<1>4. CASE HearLogin \/ SignedInLogin
  <2>1. HearLogin => DismissLogin(Heard(listener), Tail(queue))
    BY DEF HearLogin
  <2>2. SignedInLogin => DismissLogin(listener, Tail(queue))
    BY DEF SignedInLogin
  <2> QED
    BY <1>4, <1>2, <1>c, <2>1, <2>2
<1>5. HearContract \/ HearAsk \/ HearLate \/ HearNothing \/ SignedInLate \/ AccountCreated
       \/ CallbackFails("signIn", "login") \/ CallbackFails("create", "account")
       => queue' = Tail(queue)
  BY DEF HearContract, HearAsk, HearLate, HearNothing, Registered, Late, SignedInLate,
         AccountCreated, CallbackFails
<1> QED
  BY <1>a, <1>1, <1>3, <1>4, <1>5 DEF BlockRuns, Hearing

\* A step that is neither a block of the queue, nor a reply, nor the end.
Elsewhere ==
  \/ KeychainLoaded \/ NavDidAppear \/ (\E c \in renames : ProfileChanged(c)) \/ Touch

(* Other steps, but for replies and the end of the process, take no block  *)
(* off the queue and add no callback.                                      *)
LEMMA ElsewhereMoves ==
  ASSUME Types, Types', Elsewhere
  PROVE  Moves(0)
<1>a. /\ queue \in Seq(Block) /\ Len(queue) \in Nat /\ DOMAIN queue = 1 .. Len(queue)
      /\ \A i \in 1 .. Len(queue) : queue[i] \in Block /\ Kept(queue[i], queue[i])
  BY Domains, KeptItself DEF Types
<1>b. /\ queue' \in Seq(Block) /\ Len(queue') \in Nat /\ DOMAIN queue' = 1 .. Len(queue')
      /\ FirstCall.kind = "firstCall" /\ Post.kind = "post" /\ FirstCall \in Block /\ Post \in Block
  BY Domains, BlocksMade DEF Types
<1>1. CASE queue' = queue
  BY <1>1, <1>a DEF Moves
<1>2. ASSUME NEW b \in {Post, FirstCall}, queue' = Append(queue, b)
      PROVE  Moves(0)
  BY <1>2, <1>a, <1>b, QueueAppend DEF Moves
<1>3. CASE NavDidAppear
  <2>1. CASE queue' = NavQueue
    <3>1. /\ DOMAIN queue' = 1 .. Len(queue) + 1 /\ queue'[Len(queue) + 1] = FirstCall
          /\ \A i \in 1 .. Len(queue) : Kept(queue[i], queue'[i])
      BY <2>1, QueueNav
    <3>2. Len(queue') = Len(queue) + 1
      <4>1. 1 .. Len(queue') = 1 .. Len(queue) + 1
        BY <1>a, <1>b, <3>1
      <4> QED
        <5>1. Len(queue) \in Nat /\ Len(queue') \in Nat
          BY <1>a, <1>b
        <5> QED
          BY <4>1, <5>1, OneLonger, Zenon
    <3> QED
      BY <1>a, <1>b, <3>1, <3>2 DEF Moves
  <2> QED
    BY <1>3, <1>1, <2>1 DEF NavDidAppear, LoginAppears, AddListener, NavQueue
<1>4. CASE goBackAction \/ WelcomeOkay
  <2>1. LoginAppears(GoneInQueue("create", queue))
    BY <1>4 DEF goBackAction, WelcomeOkay, AccountDismissed
  <2>2. /\ DOMAIN queue' = 1 .. Len(queue) + 1 /\ queue'[Len(queue) + 1] = FirstCall
        /\ \A i \in 1 .. Len(queue) : Kept(queue[i], queue'[i])
    BY <1>a, <2>1, AccountGoes
  <2>3. Len(queue') = Len(queue) + 1
    <3>1. 1 .. Len(queue') = 1 .. Len(queue) + 1
      BY <1>a, <1>b, <2>2
    <3> QED
      <4>1. Len(queue) \in Nat /\ Len(queue') \in Nat
        BY <1>a, <1>b
      <4> QED
        BY <3>1, <4>1, OneLonger, Zenon
  <2> QED
    BY <1>a, <1>b, <2>2, <2>3 DEF Moves
<1>5. CASE signOutAction
  <2>1. CASE queue' = Append(queue, FirstCall)
    BY <1>2, <2>1
  <2>2. CASE queue' = Append(Append(queue, Post), FirstCall)
    <3>1. /\ Append(queue, Post) \in Seq(Block) /\ Len(Append(queue, Post)) = Len(queue) + 1
          /\ \A i \in 1 .. Len(queue) : Append(queue, Post)[i] = queue[i]
          /\ Append(queue, Post)[Len(queue) + 1] = Post
      BY <1>b, QueueAppend
    <3>2. /\ Len(queue') = (Len(queue) + 1) + 1 /\ queue'[(Len(queue) + 1) + 1] = FirstCall
          /\ \A i \in 1 .. Len(queue) + 1 : queue'[i] = Append(queue, Post)[i]
      BY <1>b, <2>2, <3>1, AppendBlocks
    <3>3. \A i \in 1 .. Len(queue) : queue'[i] = queue[i]
      BY <1>a, <3>1, <3>2
    <3>4. ASSUME NEW i \in DOMAIN queue', i > Len(queue)
          PROVE  queue'[i].kind \in {"post", "firstCall"}
      <4>1. i = Len(queue) + 1 \/ i = (Len(queue) + 1) + 1
        BY <1>a, <1>b, <3>2, <3>4
      <4>2. Len(queue) + 1 \in 1 .. Len(queue) + 1
        BY <1>a
      <4> QED
        BY <1>b, <3>1, <3>2, <4>1, <4>2
    <3> QED
      BY <1>a, <1>b, <3>2, <3>3, <3>4 DEF Moves
  <2> QED
    BY <1>5, <2>1, <2>2 DEF signOutAction, AddListener
<1>6. CASE KeychainLoaded \/ ConfirmSignOut \/ Pop
  BY <1>6, <1>1, <1>2 DEF KeychainLoaded, ConfirmSignOut, LoginAppears, Pop, AddListener
<1>7. (\E u \in Users : loginAction(u) \/ createAccountAction(u)) \/ (\E c \in renames : ProfileChanged(c))
         \/ createAccountMismatch \/ DismissAlert \/ showCreateAccountVC \/ CancelSignOut
         \/ createContractAction \/ Push
         => queue' = queue
  BY DEF loginAction, createAccountAction, Send, createAccountMismatch, DismissAlert,
     showCreateAccountVC,
         CancelSignOut, ProfileChanged, createContractAction, Push
<1> QED
  BY <1>1, <1>3, <1>4, <1>5, <1>6, <1>7 DEF Elsewhere, Touch

(* A callback comes from one that was in the queue, unless it is a         *)
(* reply's.                                                                *)
LEMMA CallbacksAreOld ==
  ASSUME NEW d \in {0, 1}, Moves(d), NEW i \in DOMAIN queue', queue'[i].kind = "callback",
         Types
  PROVE  \E j \in DOMAIN queue : queue[j].kind = "callback" /\ Kept(queue[j], queue'[i])
<1>1. i \in 1 .. Len(queue) - d /\ i + d \in DOMAIN queue
  BY DEF Moves
<1>2. Kept(queue[i + d], queue'[i]) /\ queue[i + d] \in Block
  BY <1>1, Domains DEF Moves, Types
<1>3. queue[i + d].kind = "callback"
  BY <1>2, BlockKinds DEF Kept
<1> QED
  BY <1>1, <1>2, <1>3

(* A granted reply puts a notification and then its callback behind the    *)
(* queue (ReplyGranted).                                                   *)
LEMMA GrantedReply ==
  ASSUME Types, NEW n \in Slot, ReplyGranted(n)
  PROVE  /\ requests[n] \in Sent
         /\ Len(queue) \in Nat /\ DOMAIN queue = 1 .. Len(queue)
         /\ DOMAIN queue' = 1 .. Len(queue) + 2
         /\ queue'[Len(queue) + 1] = Post
         /\ queue'[Len(queue) + 2].kind = "callback" /\ queue'[Len(queue) + 2].ok
         /\ queue'[Len(queue) + 2].request = requests[n]
         /\ \A i \in 1 .. Len(queue) : queue'[i] = queue[i]
         /\ \A i \in DOMAIN queue' : queue'[i].kind = "callback" =>
              i \in DOMAIN queue \/ i = Len(queue) + 2
<1>1. requests[n] \in Sent /\ queue' = ReplyQueue(requests[n])
  BY DEF ReplyGranted, Granted, Types, Request, NoRequest, Sent, ReplyQueue
<1>2. /\ Len(queue) \in Nat /\ DOMAIN queue = 1 .. Len(queue)
      /\ DOMAIN queue' = 1 .. Len(queue) + 2
      /\ queue'[Len(queue) + 1] = Post
      /\ queue'[Len(queue) + 2] = Callback(requests[n], TRUE)
      /\ \A i \in 1 .. Len(queue) : queue'[i] = queue[i]
  BY <1>1, QueueReply
<1>3. ASSUME NEW i \in DOMAIN queue', queue'[i].kind = "callback", i \notin DOMAIN queue
      PROVE  i = Len(queue) + 2
  <2>1. i = Len(queue) + 1 \/ i = Len(queue) + 2
    BY <1>2, <1>3
  <2> QED
    BY <1>2, <1>3, <2>1, BlocksMade
<1>4. /\ queue'[Len(queue) + 2].kind = "callback" /\ queue'[Len(queue) + 2].ok
      /\ queue'[Len(queue) + 2].request = requests[n]
  BY <1>1, <1>2, CallbacksMade
<1> QED
  BY <1>1, <1>2, <1>3, <1>4

(* A failed reply puts its callback behind the queue (ReplyFailed).        *)
LEMMA FailedReply ==
  ASSUME Types, NEW n \in Slot, ReplyFailed(n)
  PROVE  /\ requests[n] \in Sent
         /\ Len(queue) \in Nat /\ DOMAIN queue = 1 .. Len(queue)
         /\ DOMAIN queue' = 1 .. Len(queue) + 1
         /\ queue'[Len(queue) + 1].kind = "callback" /\ ~queue'[Len(queue) + 1].ok
         /\ queue'[Len(queue) + 1].request = requests[n]
         /\ \A i \in 1 .. Len(queue) : queue'[i] = queue[i]
<1>1. requests[n] \in Sent /\ queue' = Append(queue, Callback(requests[n], FALSE))
  BY DEF ReplyFailed, Types, Request, Sent
<1>2. /\ Callback(requests[n], FALSE) \in Block /\ Callback(requests[n], FALSE).kind = "callback"
      /\ ~Callback(requests[n], FALSE).ok /\ Callback(requests[n], FALSE).request = requests[n]
  BY <1>1, CallbacksMade
<1>3. /\ Len(queue) \in Nat /\ DOMAIN queue = 1 .. Len(queue)
      /\ DOMAIN queue' = 1 .. Len(queue) + 1
      /\ queue'[Len(queue) + 1] = Callback(requests[n], FALSE)
      /\ \A i \in 1 .. Len(queue) : queue'[i] = queue[i]
  BY <1>1, <1>2, QueueAppend
<1> QED
  BY <1>1, <1>2, <1>3

(* A step is a block of the queue, a reply, the end of the process or      *)
(* another.                                                                *)
LEMMA ActKinds ==
  ASSUME Act
  PROVE  \/ BlockRuns \/ Elsewhere \/ Kill
         \/ \E n \in Slot : ReplyGranted(n) \/ ReplyFailed(n)
BY DEF Act, BlockRuns, Elsewhere, Outside

(* A listener is added with the first call that it is due.                 *)
Arrives ==
  /\ listener'.kind \in {"contract", "signOut", "login"}
  /\ ~listener'.called /\ listener'.prev = NoUser
  /\ \E i \in DOMAIN queue' : queue'[i] = FirstCall

(* AddListener and what is built on it make a listener arrive.             *)
LEMMA AddedArrives ==
  ASSUME NEW k \in {"contract", "signOut", "login"}, listener' = Added(k),
         NEW i \in DOMAIN queue', queue'[i] = FirstCall
  PROVE  Arrives
BY ListenersMade DEF Arrives

(* What a block of the main queue does to FIRAuth and to the listener: the *)
(* user stays, and the listener stays, hears or is replaced.               *)
LEMMA BlockSteps ==
  ASSUME Types, BlockRuns
  PROVE  /\ user' = user /\ saved' = saved /\ loaded' = loaded /\ profile' = profile
         /\ crossed' = crossed /\ (stuck => stuck')
         /\ \/ queue' = Tail(queue) /\ listener' = listener /\ Head(queue) \notin {Post, FirstCall}
            \/ queue' = Tail(queue) /\ listener' = Heard(listener)
            \/ Arrives
<1>a. /\ listener \in Listener /\ Heard(listener) \in Listener /\ queue \in Seq(Block)
      /\ Len(queue) \in Nat
  BY HeardListener, Domains DEF Types
<1>1. user' = user /\ saved' = saved /\ loaded' = loaded /\ profile' = profile /\ crossed' = crossed
  BY DEF BlockRuns, Hearing, HearContract, HearAsk, HearLogin, HearLate, HearNothing, Unheard,
         SignedInLate, SignedInAccount, SignedInLogin, SignedInRest, AccountCreated, CallbackFails,
         auth, service, history
<1>2. stuck => stuck'
  BY DEF BlockRuns, Hearing, HearContract, ContractHears, HearAsk, AskToSignOut, HearLogin,
     HearLate,
         HearNothing, DismissLogin, LoginDismissed,
         SignedInLate, SignedInAccount, SignedInLogin, AccountCreated, CallbackFails, history
<1>3. ASSUME NEW l \in Listener, queue # <<>>, DismissLogin(l, Tail(queue))
      PROVE  Arrives \/ (queue' = Tail(queue) /\ listener' = l)
  <2>1. CASE LoginDismissed(l, Tail(queue))
    <3>1. /\ listener' = Added("contract") /\ DOMAIN queue' = 1 .. Len(queue)
          /\ queue'[Len(queue)] = FirstCall
      BY <1>3, <2>1, LoginGoes
    <3>2. Len(queue) \in DOMAIN queue'
      BY <1>3, <1>a, <3>1, Domains
    <3> QED
      BY <3>1, <3>2, AddedArrives
  <2> QED
    BY <1>3, <2>1 DEF DismissLogin
<1>4. ASSUME queue # <<>>, Head(queue).kind \in {"callback", "firstCallOf"}
      PROVE  Head(queue) \notin {Post, FirstCall}
  BY <1>4, BlocksMade
<1>5. CASE HearContract \/ HearAsk \/ HearNothing \/ HearLate
  BY <1>1, <1>2, <1>4, <1>5 DEF HearContract, HearAsk, HearNothing, HearLate, Registered, Late
<1>6. CASE HearLogin
  BY <1>1, <1>2, <1>3, <1>6, <1>a DEF HearLogin
<1>7. CASE SignedInLogin
  BY <1>1, <1>2, <1>3, <1>4, <1>7, <1>a DEF SignedInLogin, Returns
<1>8. CASE SignedInAccount
  <2>1. queue # <<>> /\ LoginAppears(GoneInQueue("create", Tail(queue)))
    BY <1>8 DEF SignedInAccount, AccountDismissed, Returns
  <2>2. Tail(queue) \in Seq(Block)
    BY <2>1, QueueTail
  <2>3. /\ listener' = Added("login") /\ Len(Tail(queue)) \in Nat
        /\ DOMAIN queue' = 1 .. Len(Tail(queue)) + 1 /\ queue'[Len(Tail(queue)) + 1] = FirstCall
    BY <2>1, <2>2, AccountGoes
  <2>4. Len(Tail(queue)) + 1 \in DOMAIN queue'
    BY <2>3
  <2> QED
    BY <1>1, <1>2, <2>3, <2>4, AddedArrives
<1>9. CASE SignedInLate \/ AccountCreated \/ CallbackFails("signIn", "login")
           \/ CallbackFails("create", "account")
  BY <1>1, <1>2, <1>4, <1>9 DEF SignedInLate, AccountCreated, CallbackFails, Returns
<1> QED
  BY <1>5, <1>6, <1>7, <1>8, <1>9 DEF BlockRuns, Hearing

(* The same of the steps outside the queue: the user changes by the        *)
(* keychain or by a sign-out alone, and a sign-out brings a listener.      *)
LEMMA ElsewhereSteps ==
  ASSUME Types, Elsewhere
  PROVE  /\ crossed' = crossed /\ stuck' = stuck
         /\ \/ KeychainLoaded /\ listener' = listener
            \/ /\ ~KeychainLoaded
               /\ UNCHANGED loaded /\ (user' = user \/ user' = NoUser)
               /\ \/ listener' = listener /\ queue' = queue /\ user' = user
                  \/ listener' = Removed /\ queue' = queue /\ user' = user
                  \/ Arrives
<1>a. /\ listener \in Listener /\ queue \in Seq(Block) /\ Len(queue) \in Nat
  BY Domains DEF Types
<1>1. crossed' = crossed /\ stuck' = stuck
  BY DEF Elsewhere, KeychainLoaded, NavDidAppear, ProfileChanged, Touch, loginAction,
     createAccountAction, Send,
         createAccountMismatch, DismissAlert, showCreateAccountVC, goBackAction,
            AccountDismissed, WelcomeOkay, signOutAction,
         CancelSignOut, ConfirmSignOut, createContractAction, Push, Pop, history
<1>2. KeychainLoaded => listener' = listener
  BY DEF KeychainLoaded
<1>3. ASSUME ~KeychainLoaded
      PROVE  UNCHANGED loaded /\ (user' = user \/ user' = NoUser)
  BY <1>3 DEF Elsewhere, NavDidAppear, ProfileChanged, Touch, loginAction, createAccountAction,
     Send,
         createAccountMismatch, DismissAlert, showCreateAccountVC, goBackAction, WelcomeOkay,
            signOutAction, SetUser,
         CancelSignOut, ConfirmSignOut, createContractAction, Push, Pop, auth
<1>4. ASSUME NEW q \in Seq(Block), NEW k \in {"contract", "signOut", "login"}, AddListener(k, q)
      PROVE  Arrives
  <2>1. listener' = Added(k) /\ queue' = Append(q, FirstCall)
    BY <1>4 DEF AddListener
  <2>2. Len(q) \in Nat /\ DOMAIN queue' = 1 .. Len(q) + 1 /\ queue'[Len(q) + 1] = FirstCall
    BY <2>1, Domains, AppendBlocks, BlocksMade
  <2>3. Len(q) + 1 \in DOMAIN queue'
    BY <2>2
  <2> QED
    BY <2>1, <2>2, <2>3, AddedArrives
<1>5. CASE NavDidAppear
  <2>1. Detached(listener, queue) \in Seq(Block)
    BY <1>a, DetachedBlocks
  <2> QED
    BY <1>1, <1>2, <1>3, <1>4, <1>5, <2>1 DEF NavDidAppear, LoginAppears, auth
<1>6. CASE goBackAction \/ WelcomeOkay
  <2>1. GoneInQueue("create", queue) \in Seq(Block)
    BY <1>a, GoneBlocks
  <2> QED
    BY <1>1, <1>2, <1>3, <1>4, <1>6, <2>1 DEF goBackAction, WelcomeOkay, AccountDismissed,
       LoginAppears
<1>7. CASE signOutAction
  <2>1. Append(queue, Post) \in Seq(Block)
    BY QueueAppend, BlocksMade
  <2>2. PICK q \in Seq(Block) : AddListener("signOut", q)
    BY <1>7, <1>a, <2>1 DEF signOutAction
  <2> QED
    BY <1>1, <1>2, <1>3, <1>4, <2>2
<1>8. CASE ConfirmSignOut \/ Pop
  BY <1>1, <1>2, <1>3, <1>4, <1>8, <1>a DEF ConfirmSignOut, Pop, LoginAppears
<1>9. CASE showCreateAccountVC \/ createContractAction \/ Push
  BY <1>1, <1>2, <1>3, <1>9 DEF showCreateAccountVC, createContractAction, Push, auth
<1>10. CASE (\E u \in Users : loginAction(u) \/ createAccountAction(u)) \/ (\E c \in renames : ProfileChanged(c))
         \/ createAccountMismatch \/ DismissAlert \/ CancelSignOut
  BY <1>1, <1>2, <1>3, <1>10 DEF loginAction, createAccountAction, Send, createAccountMismatch,
     DismissAlert,
         CancelSignOut, ProfileChanged, auth
<1>11. CASE KeychainLoaded
  BY <1>1, <1>2, <1>11
<1> QED
  BY <1>5, <1>6, <1>7, <1>8, <1>9, <1>10, <1>11 DEF Elsewhere, Touch

(* The end of the process: nobody is known and a first call is due.        *)
LEMMA KillSteps ==
  ASSUME Kill
  PROVE  /\ Arrives /\ user' = NoUser /\ loaded' = FALSE /\ screen' = "appearing"
         /\ \A i \in DOMAIN queue' : queue'[i].kind = "firstCall"
<1>1. /\ queue' = <<FirstCall>> /\ listener' = Added("contract") /\ user' = NoUser /\ loaded' = FALSE
      /\ screen' = "appearing"
  BY DEF Kill
<1>2. 1 \in DOMAIN queue' /\ queue'[1] = FirstCall /\ \A i \in DOMAIN queue' : queue'[i].kind = "firstCall"
  BY <1>1, BlocksMade
<1> QED
  BY <1>1, <1>2, AddedArrives

(* A granted reply makes its user the current one, touches no screen, and  *)
(* counts as crossed when a callback is still in the queue.                *)
LEMMA ReplySteps ==
  ASSUME Types, NEW n \in Slot, ReplyGranted(n)
  PROVE  /\ user' = requests[n].user /\ user' # NoUser
         /\ UNCHANGED <<profile, records, renames, loaded, listener, screen, alert, own, rootUID, specialist,
                        progress, made, told, cut, stuck>>
         /\ crossed => crossed'
         /\ (\E j \in DOMAIN queue : queue[j].kind = "callback") => crossed'
<1>1. requests[n] \in Sent
  BY GrantedReply
<1>2. requests[n].user \in Users
  BY <1>1 DEF Sent
<1> QED
  BY <1>2, SessionAssumption DEF ReplyGranted, SetUser, singletons

(* A block behind the head moves one nearer to it.                         *)
LEMMA TailKeeps ==
  ASSUME Types, queue # <<>>, queue' = Tail(queue), NEW i \in DOMAIN queue, i # 1
  PROVE  i - 1 \in DOMAIN queue' /\ queue'[i - 1] = queue[i]
<1>1. /\ Len(queue) \in Nat /\ DOMAIN queue = 1 .. Len(queue)
      /\ DOMAIN queue' = 1 .. Len(queue) - 1
      /\ \A j \in 1 .. Len(queue) - 1 : queue'[j] = queue[j + 1]
  BY QueueTail
<1>2. i - 1 \in 1 .. Len(queue) - 1 /\ (i - 1) + 1 = i
  BY <1>1
<1> QED
  BY <1>1, <1>2
=============================================================================
