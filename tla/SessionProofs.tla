--------------------------- MODULE SessionProofs ---------------------------
(***************************************************************************)
(* Theorems about Session: who is signed in, and who the screens think is. *)
(*                                                                         *)
(* None of the properties is inductive. That a quiet contract screen names *)
(* the current user needs: a listener that does not know the user has a    *)
(* notification or a first call in the queue (WillHear); if it was told of *)
(* another user, a callback follows that notification, so that a reply     *)
(* which brings the first user back counts as crossed; and a listener that *)
(* knows its user has told its screen (ContractHeard, LoginHeard).         *)
(***************************************************************************)
EXTENDS SessionSteps

-----------------------------------------------------------------------------
(* The inductive invariant.                                                *)

(* The registered listener is the one of the screen in front; while the    *)
(* contract screen comes in it is that screen's.                           *)
ListenerFits ==
  /\ listener.kind = "login" <=> screen = "login"
  /\ listener.kind = "none" <=> screen \in {"account", "pushed"}
  /\ screen = "appearing" => listener.kind = "contract"

(* One first call at most is the registered listener's; a removed one's is *)
(* always followed by the one of the listener that came after it.          *)
FirstCalls ==
  /\ \A i, j \in DOMAIN queue : queue[i] = FirstCall /\ queue[j] = FirstCall => i = j
  /\ listener.kind = "none" => \A i \in DOMAIN queue : queue[i] # FirstCall
  /\ \A i \in DOMAIN queue : queue[i].kind = "firstCallOf" =>
       \E j \in DOMAIN queue : i < j /\ queue[j] = FirstCall

(* The listener signOutAction adds is never removed before its first call. *)
LateKinds ==
  \A i \in DOMAIN queue : queue[i].kind = "firstCallOf" => queue[i].of.kind # "signOut"

(* Whoever has a record, is welcomed or has a granted callback, has an     *)
(* account.                                                                *)
AccountsKnown ==
  /\ records \subseteq accounts
  /\ alert.kind = "welcome" => alert.user \in accounts
  /\ \A i \in DOMAIN queue : queue[i].kind = "callback" /\ queue[i].ok => queue[i].request.user \in accounts

(* A request counts as gone unless its screen is in front, or under the    *)
(* account screen; a callback that is not gone was granted to a user who   *)
(* is still there; alerts are where their screens are.                     *)
WaitsOn(r, s) ==
  /\ r.kind = "signIn" /\ ~r.gone => s \in {"login", "account"}
  /\ r.kind = "create" /\ ~r.gone => s = "account"
CallbackWaits(b, s, u) ==
  b.kind = "callback" => WaitsOn(b.request, s) /\ (b.ok /\ ~b.request.gone => u # NoUser)
RequestsWait(f, s) == \A i \in Slot : WaitsOn(f[i], s)
QueueWaits(q, s, u) == \A i \in DOMAIN q : CallbackWaits(q[i], s, u)
AlertFits(a, s, u) ==
  /\ a.kind = "welcome" => s = "account" /\ u # NoUser
  /\ a.kind = "verify" => s = "contract"

Waiting ==
  /\ RequestsWait(requests, screen)
  /\ QueueWaits(queue, screen, user)
  /\ AlertFits(alert, screen, user)

(* Until the keychain is read nobody is signed in and no reply can come;   *)
(* without a user the listener remembers none.                             *)
Unloaded ==
  /\ ~loaded => user = NoUser /\ \A i \in DOMAIN queue : queue[i].kind # "callback"
  /\ user = NoUser => listener.prev = NoUser

(* SignedOutIsBlank, and the same while the contract screen comes in.      *)
Blank ==
  screen \in {"appearing", "login", "account"} /\ user = NoUser =>
    specialist = Nobody /\ progress = NoUser

(* A listener that does not know the user will be called. If it was told   *)
(* of another user, the notification it waits for is followed by the       *)
(* callback of the reply that changed the user.                            *)
WillHear ==
  /\ listener.kind # "none" /\ user # NoUser /\ ~Knows =>
       \E i \in DOMAIN queue : queue[i] \in {Post, FirstCall}
  /\ listener.kind # "none" /\ user # NoUser /\ listener.called /\ listener.prev \notin {user, NoUser} =>
       \E i, j \in DOMAIN queue : i < j /\ queue[i] = Post /\ queue[j].kind = "callback"

(* A login listener that was called with a user stays only if an alert was *)
(* in the way.                                                             *)
LoginHeard ==
  listener.kind = "login" /\ listener.called /\ listener.prev # NoUser => stuck

(* A contract listener that knows the user has told the screen and the     *)
(* singleton, unless replies crossed; and it never forgets that there was  *)
(* one.                                                                    *)
ContractHeard ==
  /\ ~crossed /\ Asks /\ Knows /\ user # NoUser =>
       /\ own = user /\ specialist.uid = user /\ told = user
       /\ specialist.displayName \in {user, Placeholder}
  /\ Asks /\ listener.called /\ listener.prev # NoUser => own # NoUser

(* The contract screen's own uid is the last one told, or its listener's   *)
(* first call with a user is still due.                                    *)
FirstCallDue == user # NoUser /\ \E i \in DOMAIN queue : queue[i] = FirstCall

OwnIsTold ==
  /\ ~crossed /\ screen \in {"appearing", "contract", "pushed"} =>
       own \in {told, NoUser} \/ FirstCallDue
  /\ screen \in {"contract", "pushed"} \/ (screen = "appearing" /\ rootUID # NoUser) =>
       own # NoUser \/ FirstCallDue

(* Unless replies crossed, names on the way and in profiles are the users' *)
(* own, and a granted callback in the queue is of the current user or of   *)
(* one who left.                                                           *)
NamesTyped ==
  ~crossed =>
    /\ \A u \in Users : profile[u] \in {u, NoUser}
    /\ \A c \in renames : c.name = c.user
    /\ \A i \in DOMAIN queue : queue[i].kind = "callback" /\ queue[i].ok =>
         user \in {queue[i].request.user, NoUser}

IInv ==
  /\ Types /\ ListenerFits /\ FirstCalls /\ LateKinds /\ AccountsKnown /\ AccountsAreRecorded /\ Waiting
  /\ Unloaded /\ Blank /\ WillHear /\ LoginHeard /\ ContractHeard /\ OwnIsTold /\ NamesTyped

-----------------------------------------------------------------------------
(* The parts of the invariant, each kept by every step.                    *)

(* Every step keeps the types.                                             *)
LEMMA TypesKept ==
  ASSUME Types, AccountsKnown, Waiting, Act, busy' \in BOOLEAN
  PROVE  Types'
<1> USE SessionAssumption DEF Types
<1>a. \A u \in MaybeUser : /\ Alert("leaving", u) \in AlertType /\ Alert("verify", u) \in AlertType
                           /\ Alert("oops", u) \in AlertType /\ Alert("welcome", u) \in AlertType
                           /\ NoAlert \in AlertType
  BY AlertsMade DEF AlertKinds
<1>b. NoUser \in MaybeUser /\ Users \subseteq MaybeUser
  BY DEF MaybeUser
<1>1. CASE HearContract
  <2>1. DisplayName(user) \in MaybeUser \cup {Placeholder}
    BY <1>1, <1>b DEF HearContract, DisplayName, MaybeUser
  <2>2. queue' \in Seq(Block) /\ listener' \in Listener
    BY <1>1, QueueTail, HeardListener DEF HearContract, Registered, Late
  <2> QED
    BY <1>1, <2>1, <2>2 DEF HearContract, ContractHears, Unheard, auth
<1>2. CASE HearAsk
  <2>1. queue' \in Seq(Block) /\ listener' \in Listener
    BY <1>2, QueueTail, HeardListener DEF HearAsk, Registered, Late
  <2> QED
    BY <1>2, <1>a, <1>b, <2>1 DEF HearAsk, AskToSignOut, Unheard, auth
<1>3. CASE HearLogin
  <2>1. Heard(listener) \in Listener
    BY HeardListener
  <2>2. CASE LoginDismissed(Heard(listener), Tail(queue))
    <3>1. queue # <<>>
      BY <1>3 DEF HearLogin
    <3> QED
      BY <1>3, <2>1, <2>2, <3>1, LoginGoes, RequestsAreGone, ListenersMade DEF HearLogin,
         Unheard, auth, Screens
  <2>3. CASE /\ alert' = Alert("leaving", NoUser) /\ stuck' = TRUE /\ listener' = Heard(listener)
             /\ queue' = Tail(queue) /\ UNCHANGED <<screen, requests>>
    BY <1>3, <2>1, <2>3, <1>a, <1>b, QueueTail DEF HearLogin, Unheard, auth
  <2> QED
    BY <1>3, <2>2, <2>3 DEF HearLogin, DismissLogin
<1>4. CASE HearLate
  BY <1>4, <1>a, <1>b, QueueTail DEF HearLate, Late, Unheard, auth
<1>5. CASE HearNothing
  BY <1>5, <1>a, <1>b, QueueTail, HeardListener DEF HearNothing, Registered, Late, Unheard, auth
<1>6. CASE SignedInLate
  BY <1>6, <1>a, <1>b, QueueTail DEF SignedInLate, SignedInRest, Returns, auth, singletons
<1>7. CASE SignedInAccount
  <2>1. Tail(queue) \in Seq(Block)
    BY <1>7, <1>a, <1>b, QueueTail DEF SignedInAccount, Returns
  <2>2. queue' \in Seq(Block) /\ listener' \in Listener /\ screen' \in Screens
    BY <1>7, <2>1, AccountGoes, ListenersMade DEF SignedInAccount, AccountDismissed, Screens
  <2>3. requests' \in [Slot -> Request]
    BY <1>7, RequestsAreGone DEF SignedInAccount, AccountDismissed
  <2> QED
    BY <1>7, <2>2, <2>3, <1>a DEF SignedInAccount, SignedInRest, AccountDismissed, auth,
       singletons, Screens
<1>8. CASE SignedInLogin
  <2>1. queue # <<>> /\ listener \in Listener
    BY <1>8 DEF SignedInLogin, Returns
  <2>2. CASE LoginDismissed(listener, Tail(queue))
    BY <1>8, <2>1, <2>2, LoginGoes, RequestsAreGone, ListenersMade DEF SignedInLogin,
       SignedInRest, auth, singletons, Screens
  <2>3. CASE /\ alert' = Alert("leaving", NoUser) /\ stuck' = TRUE /\ listener' = listener
             /\ queue' = Tail(queue) /\ UNCHANGED <<screen, requests>>
    BY <1>8, <2>1, <2>3, <1>a, <1>b, QueueTail DEF SignedInLogin, SignedInRest, auth, singletons
  <2> QED
    BY <1>8, <2>2, <2>3 DEF SignedInLogin, DismissLogin
<1>9. CASE CallbackFails("signIn", "login") \/ CallbackFails("create", "account")
  <2>1. queue' \in Seq(Block)
    BY <1>9, QueueTail DEF CallbackFails, Returns
  <2> QED
    BY <1>9, <1>a, <1>b, <2>1, ZenonT(40) DEF CallbackFails, service, auth, singletons, history
<1>10. CASE AccountCreated
  <2>1. queue' \in Seq(Block)
    BY <1>10, QueueTail DEF AccountCreated, Returns
  <2>2. Head(queue).request.user \in Users
    BY <1>10, QueueTail, BlockKinds DEF AccountCreated, Returns, Sent
  <2>3. renames' \in SUBSET [user : Users, name : Users]
    BY <1>10, <2>2 DEF AccountCreated, MaybeUser
  <2> QED
    BY <1>10, <1>a, <1>b, <2>1, <2>2, <2>3 DEF AccountCreated, auth, singletons
<1>11. CASE KeychainLoaded
  BY <1>11, QueueAppend, BlocksMade DEF KeychainLoaded, SetUser, service, singletons
<1>12. ASSUME NEW i \in Slot, ReplyGranted(i)
       PROVE  Types'
  <2>1. requests[i] \in Sent /\ queue' = ReplyQueue(requests[i])
    BY <1>12 DEF ReplyGranted, Granted, Request, NoRequest, Sent, ReplyQueue
  <2> QED
    <3>1. queue' \in Seq(Block)
      BY <2>1, QueueReply
    <3>2. requests' \in [Slot -> Request]
      BY <1>12 DEF ReplyGranted, Request
    <3>3. requests[i].user \in Users
      BY <2>1 DEF Sent
    <3>4. crossed' \in BOOLEAN
      BY <1>12 DEF ReplyGranted
    <3> QED
      BY <1>12, <1>b, <3>1, <3>2, <3>3, <3>4 DEF ReplyGranted, SetUser, singletons
<1>13. ASSUME NEW i \in Slot, ReplyFailed(i)
       PROVE  Types'
  <2>1. requests[i] \in Sent
    BY <1>13 DEF ReplyFailed, Request, Sent
  <2> QED
    <3>1. queue' \in Seq(Block)
      BY <1>13, <2>1, QueueAppend, BlocksMade DEF ReplyFailed
    <3>2. requests' \in [Slot -> Request]
      BY <1>13 DEF ReplyFailed, Request
    <3>3. requests[i].user \in Users
      BY <2>1 DEF Sent
    <3> QED
      BY <1>13, <3>1, <3>2, <3>3 DEF ReplyFailed, auth, singletons
<1>14. ASSUME NEW c \in renames, ProfileChanged(c)
       PROVE  Types'
  BY <1>14 DEF ProfileChanged, auth, singletons, history, MaybeUser
<1>15. CASE NavDidAppear
  BY <1>15, QueueNav, ListenersMade DEF NavDidAppear, LoginAppears, AddListener, NavQueue,
     service, auth, singletons, history, Screens
<1>16. CASE Kill
  <2>1. <<FirstCall>> \in Seq(Block)
    BY BlocksMade
  <2>2. Welcoming \subseteq Users
    BY DEF Welcoming
  <2>3. requests' \in [Slot -> Request]
    BY <1>16 DEF Kill, Request
  <2> QED
    <3>1. listener' \in Listener /\ queue' \in Seq(Block)
      BY <1>16, <2>1, ListenersMade DEF Kill
    <3>2. accounts' \in SUBSET Users /\ cut' \in SUBSET Users
      BY <1>16, <2>2 DEF Kill
    <3>4. events' \in 0 .. MaxEvents /\ renames' \in SUBSET [user : Users, name : Users]
      BY <1>16 DEF Kill
    <3>3. specialist' \in [uid : MaybeUser, displayName : MaybeUser \cup {Placeholder}]
      BY <1>16, <1>b DEF Kill, Nobody
    <3> QED
      BY <1>16, <1>a, <1>b, <2>3, <3>1, <3>2, <3>3, <3>4 DEF Kill, Screens
<1>17. ASSUME NEW u \in Users, loginAction(u) \/ createAccountAction(u)
       PROVE  Types'
  <2>1. PICK k \in {"signIn", "create"} : Send(k, u)
    BY <1>17 DEF loginAction, createAccountAction
  <2>2. [kind |-> k, user |-> u, gone |-> FALSE] \in Request
    BY DEF Request
  <2>3. requests' \in [Slot -> Request]
    BY <2>1, <2>2 DEF Send
  <2> QED
    BY <2>1, <2>3 DEF Send, auth, singletons
<1>18. CASE createAccountMismatch \/ DismissAlert \/ CancelSignOut
  BY <1>18, <1>a, <1>b DEF createAccountMismatch, DismissAlert, CancelSignOut, service, auth,
     singletons, history
<1>19. CASE showCreateAccountVC \/ Push
  BY <1>19, ListenersMade DEF showCreateAccountVC, Push, service, auth, singletons, history, Screens
<1>20. CASE goBackAction
  BY <1>20, <1>a, <1>b, AccountGoes, RequestsAreGone, ListenersMade DEF goBackAction,
     AccountDismissed, auth, singletons, Screens
<1>21. CASE WelcomeOkay
  BY <1>21, <1>a, <1>b, AccountGoes, RequestsAreGone, ListenersMade DEF WelcomeOkay,
     AccountsKnown, auth, history, Screens
<1>22. CASE signOutAction
  <2>1. \A q \in Seq(Block) : Append(q, FirstCall) \in Seq(Block) /\ Append(q, Post) \in Seq(Block)
    BY BlocksMade, AppendBlocks
  <2> QED
    BY <1>22, <2>1, ListenersMade DEF signOutAction, SetUser, AddListener, service, singletons,
       MaybeUser
<1>23. CASE ConfirmSignOut
  BY <1>23, QueueAppend, BlocksMade, ListenersMade, <1>a, <1>b DEF ConfirmSignOut, LoginAppears,
     AddListener, service, auth, history, Screens, Nobody, MaybeUser
<1>24. CASE createContractAction
  BY <1>24, ListenersMade, AppendProperties DEF createContractAction, service, auth, history,
     Screens
<1>25. CASE Pop
  BY <1>25, QueueAppend, BlocksMade, ListenersMade DEF Pop, AddListener, service, auth,
     singletons, history, Screens
<1> QED
  BY <1>1, <1>2, <1>3, <1>4, <1>5, <1>6, <1>7, <1>8, <1>9, <1>10, <1>11, <1>12, <1>13, <1>14,
     <1>15, <1>16, <1>17, <1>18, <1>19, <1>20, <1>21, <1>22, <1>23, <1>24, <1>25
     DEF Act, Hearing, Outside, Touch

(* Every step keeps listener and screen together (viewWillAppear and       *)
(* viewWillDisappear of LoginVC and CreateContractVC).                     *)
LEMMA ListenerFitsKept ==
  ASSUME Types, ListenerFits, Waiting, Act
  PROVE  ListenerFits'
<1> USE DEF ListenerFits
<1>a. listener \in Listener /\ user \in MaybeUser /\ screen \in Screens
  BY DEF Types
<1>b. Heard(listener) \in Listener /\ Heard(listener).kind = listener.kind
  BY <1>a, HeardListener
<1>1. CASE HearContract \/ HearAsk \/ HearNothing
  BY <1>1, <1>b DEF HearContract, HearAsk, HearNothing, ContractHears, AskToSignOut
<1>2. ASSUME NEW l \in Listener, l.kind = listener.kind, queue # <<>>, DismissLogin(l, Tail(queue))
      PROVE  ListenerFits'
  <2>1. CASE LoginDismissed(l, Tail(queue))
    BY <1>2, <2>1, LoginGoes, ListenersMade
  <2>2. CASE listener' = l /\ screen' = screen
    BY <1>2, <2>2
  <2> QED
    BY <1>2, <2>1, <2>2 DEF DismissLogin
<1>3. CASE HearLogin \/ SignedInLogin
  BY <1>3, <1>2, <1>a, <1>b DEF HearLogin, SignedInLogin, Returns
<1>4. ASSUME NEW q, LoginAppears(q)
      PROVE  ListenerFits'
  BY <1>4, ListenersMade DEF LoginAppears, AddListener
<1>5. CASE SignedInAccount \/ goBackAction \/ WelcomeOkay \/ ConfirmSignOut
  BY <1>5, <1>4 DEF SignedInAccount, goBackAction, AccountDismissed, WelcomeOkay, ConfirmSignOut
<1>6. CASE NavDidAppear
  BY <1>6, <1>4 DEF NavDidAppear
<1>7. CASE Kill
  BY <1>7, ListenersMade DEF Kill
<1>8. CASE showCreateAccountVC \/ createContractAction \/ Push
  BY <1>8, ListenersMade DEF showCreateAccountVC, createContractAction, Push
<1>9. CASE signOutAction \/ Pop
  BY <1>9, ListenersMade DEF signOutAction, Pop, AddListener, Touchable
<1>10. CASE UNCHANGED <<listener, screen>>
  BY <1>10
<1>11. HearLate \/ SignedInLate \/ AccountCreated \/ KeychainLoaded
         \/ CallbackFails("signIn", "login") \/ CallbackFails("create", "account")
         => UNCHANGED <<listener, screen>>
  BY DEF HearLate, SignedInLate, AccountCreated, KeychainLoaded, CallbackFails
<1>12. (\E i \in Slot : ReplyGranted(i) \/ ReplyFailed(i)) \/ (\E c \in renames : ProfileChanged(c))
         => UNCHANGED <<listener, screen>>
  BY DEF ReplyGranted, ReplyFailed, ProfileChanged
<1>13. (\E u \in Users : loginAction(u) \/ createAccountAction(u))
         \/ createAccountMismatch \/ DismissAlert \/ CancelSignOut
         => UNCHANGED <<listener, screen>>
  BY DEF loginAction, createAccountAction, Send, createAccountMismatch, DismissAlert, CancelSignOut
<1> QED
  BY <1>1, <1>3, <1>5, <1>6, <1>7, <1>8, <1>9, <1>10, <1>11, <1>12, <1>13
     DEF Act, Hearing, Outside, Touch

(* Every step keeps one first call at most, and lets a later one follow    *)
(* each of a removed listener.                                             *)
LEMMA FirstCallsKept ==
  ASSUME Types, Types', ListenerFits, FirstCalls, Act
  PROVE  FirstCalls'
<1> USE DEF FirstCalls
<1>a. /\ listener \in Listener /\ user \in MaybeUser /\ queue \in Seq(Block)
      /\ Len(queue) \in Nat /\ DOMAIN queue = 1 .. Len(queue)
      /\ \A i \in DOMAIN queue : queue[i] \in Block
      /\ \A i \in DOMAIN queue : queue[i] = FirstCall => queue[i].kind = "firstCall"
      /\ Post.kind = "post" /\ FirstCall.kind = "firstCall" /\ Post \in Block /\ FirstCall \in Block
  BY Domains, BlocksMade DEF Types
<1>b. Heard(listener) \in Listener /\ Heard(listener).kind = listener.kind
  BY <1>a, HeardListener
<1>1. ASSUME queue # <<>>, queue' = Tail(queue), listener'.kind = listener.kind
      PROVE  FirstCalls'
  <2>1. /\ Len(queue) > 0 /\ DOMAIN queue' = 1 .. Len(queue) - 1
        /\ \A i \in 1 .. Len(queue) - 1 : queue'[i] = queue[i + 1]
    BY <1>1, QueueTail
  <2>2. \A i \in 1 .. Len(queue) - 1 : i + 1 \in 1 .. Len(queue)
    BY <1>a
  <2>3. \A i, j \in DOMAIN queue' : queue'[i] = FirstCall /\ queue'[j] = FirstCall => i = j
    BY <1>a, <2>1, <2>2
  <2>4. listener'.kind = "none" => \A i \in DOMAIN queue' : queue'[i] # FirstCall
    BY <1>1, <1>a, <2>1, <2>2
  <2>5. ASSUME NEW i \in DOMAIN queue', queue'[i].kind = "firstCallOf"
        PROVE  \E j \in DOMAIN queue' : i < j /\ queue'[j] = FirstCall
    <3>1. PICK j \in DOMAIN queue : i + 1 < j /\ queue[j] = FirstCall
      BY <1>a, <2>1, <2>2, <2>5
    <3>2. j - 1 \in DOMAIN queue' /\ i < j - 1 /\ queue'[j - 1] = FirstCall
      BY <1>a, <2>1, <3>1
    <3> QED
      BY <3>2
  <2> QED
    BY <2>3, <2>4, <2>5
<1>2. ASSUME NEW n \in Nat, DOMAIN queue' = 1 .. n + 1, queue'[n + 1] = FirstCall,
             \A i \in 1 .. n : queue'[i] # FirstCall, listener'.kind # "none"
      PROVE  FirstCalls'
  BY <1>2, <1>a
<1>3. ASSUME NEW l \in Listener, l.kind = listener.kind, queue # <<>>, DismissLogin(l, Tail(queue))
      PROVE  FirstCalls'
  <2>1. CASE LoginDismissed(l, Tail(queue))
    <3>1. Len(queue) - 1 \in Nat /\ Len(queue) = (Len(queue) - 1) + 1
      BY <1>a, <1>3, QueueTail
    <3>2. /\ DOMAIN queue' = 1 .. Len(queue) /\ queue'[Len(queue)] = FirstCall
          /\ \A i \in 1 .. Len(queue) - 1 : queue'[i] # FirstCall
          /\ listener'.kind # "none"
      BY <1>3, <2>1, LoginGoes, ListenersMade
    <3> QED
      BY <1>2, <3>1, <3>2
  <2>2. CASE listener' = l /\ queue' = Tail(queue)
    BY <1>1, <1>3, <2>2
  <2> QED
    BY <1>3, <2>1, <2>2 DEF DismissLogin
<1>4. ASSUME NEW q \in Seq(Block), LoginAppears(GoneInQueue("create", q)),
             \A i \in DOMAIN q : q[i] # FirstCall
      PROVE  FirstCalls'
  <2>1. /\ Len(q) \in Nat /\ DOMAIN q = 1 .. Len(q) /\ DOMAIN queue' = 1 .. Len(q) + 1
        /\ queue'[Len(q) + 1] = FirstCall /\ listener'.kind # "none"
        /\ \A i \in 1 .. Len(q) : queue'[i].kind = q[i].kind /\ q[i] \in Block
    BY <1>4, AccountGoes, ListenersMade, Domains
  <2>2. \A i \in 1 .. Len(q) : queue'[i] # FirstCall
    BY <1>a, <1>4, <2>1, BlockKinds
  <2> QED
    BY <1>2, <2>1, <2>2
<1>5. ASSUME NEW b \in Block, b.kind \in {"post", "callback"}, queue' = Append(queue, b),
             listener' = listener
      PROVE  FirstCalls'
  <2>1. /\ DOMAIN queue' = 1 .. Len(queue) + 1 /\ queue'[Len(queue) + 1] = b
        /\ \A i \in 1 .. Len(queue) : queue'[i] = queue[i]
    BY <1>5, QueueAppend
  <2>2. b # FirstCall
    BY <1>a, <1>5
  <2> QED
    BY <1>a, <1>5, <2>1, <2>2
<1>6. ASSUME Settled, queue' = Append(queue, FirstCall), listener'.kind # "none"
      PROVE  FirstCalls'
  <2>1. /\ DOMAIN queue' = 1 .. Len(queue) + 1 /\ queue'[Len(queue) + 1] = FirstCall
        /\ \A i \in 1 .. Len(queue) : queue'[i] = queue[i]
    BY <1>a, <1>6, QueueAppend
  <2>2. \A i \in 1 .. Len(queue) : queue'[i] # FirstCall
    BY <1>a, <1>6, <2>1 DEF Settled
  <2> QED
    BY <1>2, <1>a, <1>6, <2>1, <2>2
<1>7. ASSUME Settled, queue' = queue
      PROVE  FirstCalls'
  BY <1>7, <1>a DEF Settled
<1>8. CASE HearContract \/ HearAsk \/ HearNothing \/ HearLate \/ SignedInLate \/ AccountCreated
            \/ CallbackFails("signIn", "login") \/ CallbackFails("create", "account")
  BY <1>8, <1>1, <1>b DEF HearContract, HearAsk, HearNothing, HearLate, Registered, Late,
       SignedInLate, AccountCreated, CallbackFails, Returns
<1>9. CASE HearLogin \/ SignedInLogin
  BY <1>9, <1>3, <1>a, <1>b DEF HearLogin, SignedInLogin, Returns
<1>10. CASE SignedInAccount
  <2>1. queue # <<>> /\ LoginAppears(GoneInQueue("create", Tail(queue))) /\ listener.kind = "none"
    BY <1>10 DEF SignedInAccount, Returns, AccountDismissed, ListenerFits
  <2>2. Tail(queue) \in Seq(Block) /\ \A i \in DOMAIN Tail(queue) : Tail(queue)[i] # FirstCall
    <3>1. /\ Tail(queue) \in Seq(Block) /\ DOMAIN Tail(queue) = 1 .. Len(queue) - 1
          /\ \A i \in 1 .. Len(queue) - 1 : Tail(queue)[i] = queue[i + 1]
      BY <2>1, QueueTail
    <3>2. \A i \in 1 .. Len(queue) - 1 : i + 1 \in DOMAIN queue
      BY <1>a
    <3> QED
      BY <2>1, <3>1, <3>2
  <2> QED
    BY <1>4, <2>1, <2>2
<1>11. CASE goBackAction \/ WelcomeOkay
  <2>1. LoginAppears(GoneInQueue("create", queue)) /\ Settled
    BY <1>11 DEF goBackAction, Touchable, WelcomeOkay, AccountDismissed
  <2> QED
    BY <1>a, <1>4, <2>1 DEF Settled
<1>12. CASE ConfirmSignOut \/ Pop
  BY <1>12, <1>6, ListenersMade DEF ConfirmSignOut, LoginAppears, Pop, Touchable, AddListener
<1>13. CASE signOutAction
  <2>1. CASE user = NoUser
    BY <1>13, <1>6, <2>1, ListenersMade DEF signOutAction, Touchable, AddListener
  <2>2. CASE user # NoUser
    <3>1. queue' = Append(Append(queue, Post), FirstCall) /\ listener'.kind # "none" /\ Settled
      BY <1>13, <2>2, ListenersMade DEF signOutAction, Touchable, AddListener
    <3>2. /\ Append(queue, Post) \in Seq(Block) /\ Len(Append(queue, Post)) = Len(queue) + 1
          /\ \A i \in 1 .. Len(queue) : Append(queue, Post)[i] = queue[i]
          /\ Append(queue, Post)[Len(queue) + 1] = Post
      BY <1>a, QueueAppend
    <3>3. /\ DOMAIN queue' = 1 .. (Len(queue) + 1) + 1 /\ queue'[(Len(queue) + 1) + 1] = FirstCall
          /\ \A i \in 1 .. Len(queue) + 1 : queue'[i] = Append(queue, Post)[i]
      BY <1>a, <3>1, <3>2, AppendBlocks
    <3>4. \A i \in 1 .. Len(queue) + 1 : queue'[i] # FirstCall
      BY <1>a, <3>1, <3>2, <3>3 DEF Settled
    <3>5. Len(queue) + 1 \in Nat
      BY <1>a
    <3> QED
      BY <1>2, <3>1, <3>3, <3>4, <3>5
  <2> QED
    BY <2>1, <2>2
<1>14. CASE KeychainLoaded
  <2>1. listener' = listener
    BY <1>14 DEF KeychainLoaded
  <2>2. CASE queue' = queue
    BY <2>1, <2>2
  <2>3. CASE queue' = Append(queue, Post)
    BY <1>a, <1>5, <2>1, <2>3
  <2> QED
    BY <1>14, <2>2, <2>3 DEF KeychainLoaded
<1>15. ASSUME NEW i \in Slot, ReplyGranted(i)
       PROVE  FirstCalls'
  <2>1. requests[i] \in Sent /\ queue' = ReplyQueue(requests[i]) /\ listener' = listener
    BY <1>15 DEF ReplyGranted, Granted, Types, Request, NoRequest, Sent, ReplyQueue
  <2>2. Callback(requests[i], TRUE) # FirstCall /\ Post # FirstCall
        /\ Callback(requests[i], TRUE).kind = "callback"
    BY <2>1, BlocksMade
  <2>3. /\ DOMAIN queue' = 1 .. Len(queue) + 2
        /\ queue'[Len(queue) + 1] = Post /\ queue'[Len(queue) + 2] = Callback(requests[i], TRUE)
        /\ \A j \in 1 .. Len(queue) : queue'[j] = queue[j]
    BY <2>1, QueueReply
  <2>4. \A j \in DOMAIN queue' :
          queue'[j] = FirstCall \/ queue'[j].kind = "firstCallOf" => j \in 1 .. Len(queue)
    <3> SUFFICES ASSUME NEW j \in DOMAIN queue', j \notin 1 .. Len(queue)
                 PROVE  queue'[j] # FirstCall /\ queue'[j].kind # "firstCallOf"
      OBVIOUS
    <3>1. j = Len(queue) + 1 \/ j = Len(queue) + 2
      BY <1>a, <2>3
    <3> QED
      BY <1>a, <2>2, <2>3, <3>1
  <2>5. \A j \in 1 .. Len(queue) : j \in DOMAIN queue'
    BY <1>a, <2>3
  <2> QED
    BY <1>a, <2>1, <2>3, <2>4, <2>5
<1>16. ASSUME NEW i \in Slot, ReplyFailed(i)
       PROVE  FirstCalls'
  <2>1. requests[i] \in Sent /\ queue' = Append(queue, Callback(requests[i], FALSE)) /\ listener' = listener
    BY <1>16 DEF ReplyFailed, Types, Request, Sent
  <2> QED
    BY <1>5, <2>1, BlocksMade
<1>17. CASE NavDidAppear
  <2>1. CASE rootUID = NoUser
    <3>1. queue' = NavQueue /\ listener' = Added("login")
      BY <1>17, <2>1 DEF NavDidAppear, LoginAppears, AddListener, NavQueue
    <3> QED
      BY <1>2, <1>a, <3>1, QueueNav, ListenersMade
  <2>2. CASE rootUID # NoUser
    BY <1>17, <2>2 DEF NavDidAppear
  <2> QED
    BY <2>1, <2>2
<1>18. CASE Kill
  BY <1>18, <1>2, ListenersMade DEF Kill
<1>19. CASE showCreateAccountVC \/ createContractAction \/ Push
  BY <1>19, <1>7 DEF showCreateAccountVC, createContractAction, Push, Touchable
<1>20. (\E u \in Users : loginAction(u) \/ createAccountAction(u)) \/ (\E c \in renames : ProfileChanged(c))
         \/ createAccountMismatch \/ DismissAlert \/ CancelSignOut
         => UNCHANGED <<listener, queue>>
  BY DEF loginAction, createAccountAction, Send, createAccountMismatch, DismissAlert,
     CancelSignOut, ProfileChanged
<1>21. CASE UNCHANGED <<listener, queue>>
  BY <1>21
<1> QED
  BY <1>8, <1>9, <1>10, <1>11, <1>12, <1>13, <1>14, <1>15, <1>16, <1>17, <1>18, <1>19, <1>20, <1>21
     DEF Act, Hearing, Outside, Touch

(* Accounts are never lost, and a record is written by the welcome alert's *)
(* handler alone (CreateAccountVC).                                        *)
LEMMA AccountsGrow ==
  ASSUME Act
  PROVE  /\ accounts \subseteq accounts' /\ cut \subseteq cut'
         /\ records' = records \/ WelcomeOkay
         /\ WelcomeOkay => records' = records \cup {alert.user} /\ accounts' = accounts
<1>1. BlockRuns => UNCHANGED <<accounts, records>> /\ cut \subseteq cut'
  BY DEF BlockRuns, Hearing, HearContract, HearAsk, HearLogin, HearLate, HearNothing, Unheard,
     SignedInLate,
         SignedInAccount, SignedInLogin, SignedInRest, AccountDismissed, AccountCreated,
            CallbackFails,
         service, history
<1>2. KeychainLoaded \/ NavDidAppear \/ (\E c \in renames : ProfileChanged(c)) => UNCHANGED <<accounts, records, cut>>
  BY DEF KeychainLoaded, NavDidAppear, ProfileChanged, service, history
<1>3. Touch => \/ WelcomeOkay /\ UNCHANGED <<accounts, cut>>
               \/ UNCHANGED <<accounts, records>> /\ cut \subseteq cut'
  BY DEF Touch, loginAction, createAccountAction, Send, createAccountMismatch, DismissAlert,
         showCreateAccountVC, goBackAction, AccountDismissed, WelcomeOkay, signOutAction,
            CancelSignOut, ConfirmSignOut,
         createContractAction, Push, Pop, service, history
<1>4. Kill => accounts \subseteq accounts' /\ cut \subseteq cut' /\ records' = records
  BY DEF Kill
<1>5. ASSUME NEW n \in Slot, ReplyGranted(n) \/ ReplyFailed(n)
      PROVE  accounts \subseteq accounts' /\ cut \subseteq cut' /\ records' = records
  BY <1>5 DEF ReplyGranted, ReplyFailed
<1>6. WelcomeOkay => records' = records \cup {alert.user} /\ accounts' = accounts
  BY DEF WelcomeOkay
<1> QED
  BY <1>1, <1>2, <1>3, <1>4, <1>5, <1>6, ActKinds DEF Elsewhere

(* The welcome alert is shown by the callback of a creation, on the        *)
(* account screen.                                                         *)
LEMMA NewWelcome ==
  ASSUME Types, Act, alert'.kind = "welcome"
  PROVE  \/ alert' = alert
         \/ /\ AccountCreated /\ ~Head(queue).request.gone /\ screen = "account"
            /\ alert' = Alert("welcome", Head(queue).request.user)
<1>a. \A k \in AlertKinds : \A u \in MaybeUser : Alert(k, u).kind = k
  BY AlertsMade
<1>b. /\ NoAlert.kind = "none" /\ Alert("leaving", NoUser).kind = "leaving" /\ Alert("oops", NoUser).kind = "oops"
      /\ Alert("verify", NoUser).kind = "verify"
  BY <1>a, AlertsMade DEF AlertKinds, MaybeUser
<1>1. CASE HearContract \/ HearLate \/ HearNothing \/ SignedInLate
  BY <1>1 DEF HearContract, ContractHears, HearLate, HearNothing, SignedInLate
<1>2. CASE HearAsk
  BY <1>2, <1>b DEF HearAsk, AskToSignOut
<1>3. CASE HearLogin \/ SignedInLogin
  BY <1>3, <1>b DEF HearLogin, SignedInLogin, DismissLogin, LoginDismissed
<1>4. CASE SignedInAccount \/ goBackAction
  BY <1>4, <1>b DEF SignedInAccount, goBackAction, AccountDismissed
<1>5. CASE CallbackFails("signIn", "login") \/ CallbackFails("create", "account")
  BY <1>5, <1>b DEF CallbackFails
<1>6. CASE AccountCreated
  BY <1>6 DEF AccountCreated
<1>7. CASE KeychainLoaded \/ NavDidAppear \/ Kill \/ (\E c \in renames : ProfileChanged(c))
  BY <1>7, <1>b DEF KeychainLoaded, NavDidAppear, Kill, ProfileChanged
<1>8. ASSUME NEW n \in Slot, ReplyGranted(n) \/ ReplyFailed(n)
      PROVE  alert' = alert
  BY <1>8 DEF ReplyGranted, ReplyFailed
<1>9. CASE Touch /\ ~goBackAction
  BY <1>9, <1>b DEF Touch, loginAction, createAccountAction, Send, createAccountMismatch,
     DismissAlert,
         showCreateAccountVC, WelcomeOkay, signOutAction, CancelSignOut, ConfirmSignOut,
         createContractAction, Push, Pop
<1> QED
  BY <1>1, <1>2, <1>3, <1>4, <1>5, <1>6, <1>7, <1>8, <1>9 DEF Act, Hearing, Outside

(* The welcome alert goes by its handler, which writes the record, or the  *)
(* user counts as cut short.                                               *)
LEMMA WelcomeStays ==
  ASSUME Types, ListenerFits, Waiting, Act, NEW u \in Users, alert = Alert("welcome", u)
  PROVE  alert' = alert \/ u \in cut' \/ u \in records'
<1>a. /\ alert.kind = "welcome" /\ alert.user = u /\ screen = "account" /\ NoAlert.kind = "none"
      /\ listener.kind = "none"
  BY AlertsMade DEF AlertKinds, MaybeUser, Waiting, AlertFits, ListenerFits
<1>1. CASE HearContract \/ HearLate \/ HearNothing \/ SignedInLate
  BY <1>1 DEF HearContract, ContractHears, HearLate, HearNothing, SignedInLate
<1>2. CASE HearAsk
  BY <1>2, <1>a DEF HearAsk, AskToSignOut
<1>3. CASE HearLogin \/ SignedInLogin
  BY <1>3, <1>a DEF HearLogin, SignedInLogin
<1>4. CASE SignedInAccount \/ goBackAction
  BY <1>4 DEF SignedInAccount, goBackAction, AccountDismissed
<1>5. CASE CallbackFails("signIn", "login") \/ CallbackFails("create", "account")
  BY <1>5, <1>a DEF CallbackFails
<1>6. CASE AccountCreated
  BY <1>6, <1>a DEF AccountCreated
<1>7. CASE KeychainLoaded \/ NavDidAppear \/ (\E c \in renames : ProfileChanged(c))
  BY <1>7 DEF KeychainLoaded, NavDidAppear, ProfileChanged
<1>8. CASE Kill
  BY <1>8 DEF Kill, Welcoming
<1>9. ASSUME NEW n \in Slot, ReplyGranted(n) \/ ReplyFailed(n)
      PROVE  alert' = alert
  BY <1>9 DEF ReplyGranted, ReplyFailed
<1>10. CASE Touch /\ ~goBackAction
  BY <1>10, <1>a DEF Touch, Touchable, loginAction, createAccountAction, Send,
     createAccountMismatch, DismissAlert,
         showCreateAccountVC, WelcomeOkay, signOutAction, CancelSignOut, ConfirmSignOut,
         createContractAction, Push, Pop
<1> QED
  BY <1>1, <1>2, <1>3, <1>4, <1>5, <1>6, <1>7, <1>8, <1>9, <1>10 DEF Act, Hearing, Outside

(* Every step keeps records, welcomes and granted callbacks to known       *)
(* accounts.                                                               *)
LEMMA AccountsKnownKept ==
  ASSUME Types, Types', AccountsKnown, Act
  PROVE  AccountsKnown'
<1> USE DEF AccountsKnown
<1>1. records' \subseteq accounts'
  BY AccountsGrow DEF WelcomeOkay
<1>2. ASSUME alert'.kind = "welcome"
      PROVE  alert'.user \in accounts'
  <2>1. CASE alert' = alert
    BY <1>2, <2>1, AccountsGrow
  <2>2. CASE AccountCreated /\ alert' = Alert("welcome", Head(queue).request.user)
    <3>1. 1 \in DOMAIN queue /\ queue[1].kind = "callback" /\ queue[1].ok /\ Head(queue) = queue[1]
      BY <2>2, QueueTail DEF AccountCreated, Returns
    <3>2. alert'.user = queue[1].request.user
      BY <2>2, <3>1 DEF Alert
    <3> QED
      BY <3>1, <3>2, AccountsGrow
  <2> QED
    BY <1>2, <2>1, <2>2, NewWelcome
<1>3. ASSUME NEW i \in DOMAIN queue', queue'[i].kind = "callback", queue'[i].ok
      PROVE  queue'[i].request.user \in accounts'
  <2>1. ASSUME NEW d \in {0, 1}, Moves(d)
        PROVE  queue'[i].request.user \in accounts'
    BY <1>3, <2>1, CallbacksAreOld, AccountsGrow DEF Kept
  <2>2. ASSUME NEW n \in Slot, ReplyGranted(n)
        PROVE  queue'[i].request.user \in accounts'
    <3>1. requests[n].user \in accounts'
      BY <2>2 DEF ReplyGranted
    <3>2. /\ DOMAIN queue = 1 .. Len(queue) /\ \A j \in 1 .. Len(queue) : queue'[j] = queue[j]
          /\ queue'[Len(queue) + 2].request = requests[n]
          /\ i \in DOMAIN queue \/ i = Len(queue) + 2
      BY <1>3, <2>2, GrantedReply
    <3>3. CASE i \in DOMAIN queue
      BY <1>3, <3>2, <3>3, AccountsGrow
    <3>4. CASE i = Len(queue) + 2
      BY <3>1, <3>2, <3>4
    <3> QED
      BY <3>2, <3>3, <3>4
  <2>3. ASSUME NEW n \in Slot, ReplyFailed(n)
        PROVE  queue'[i].request.user \in accounts'
    <3>1. /\ requests[n] \in Sent /\ Len(queue) \in Nat /\ DOMAIN queue = 1 .. Len(queue)
          /\ DOMAIN queue' = 1 .. Len(queue) + 1
          /\ ~queue'[Len(queue) + 1].ok
          /\ \A j \in 1 .. Len(queue) : queue'[j] = queue[j]
      BY <2>3, FailedReply
    <3>2. i # Len(queue) + 1
      BY <1>3, <3>1
    <3>3. i \in DOMAIN queue
      BY <3>1, <3>2
    <3> QED
      BY <1>3, <3>1, <3>3, AccountsGrow
  <2>4. Kill => FALSE
    BY <1>3, BlocksMade DEF Kill
  <2> QED
    BY <2>1, <2>2, <2>3, <2>4, ActKinds, BlockMoves, ElsewhereMoves
<1> QED
  BY <1>1, <1>2, <1>3

(* Every step leaves an account recorded, waiting for its callback or its  *)
(* welcome, or cut short.                                                  *)
LEMMA AccountsAreRecordedKept ==
  ASSUME Types, Types', ListenerFits, AccountsKnown, Waiting, AccountsAreRecorded, Act
  PROVE  AccountsAreRecorded'
<1> SUFFICES ASSUME NEW u \in Users, u \in accounts', u \notin records', u \notin cut'
             PROVE  u \in Welcoming'
  BY DEF AccountsAreRecorded, Types
<1> DEFINE Made(b) == b.kind = "callback" /\ b.ok /\ b.request.kind = "create" /\ b.request.user = u
<1>a. u \notin records /\ u \notin cut
  BY AccountsGrow
<1>b. (\E i \in DOMAIN queue' : Made(queue'[i])) => u \in Welcoming'
  BY DEF Welcoming
<1>c. alert' = Alert("welcome", u) => u \in Welcoming'
  BY DEF Welcoming
<1>1. CASE u \in accounts
  <2>1. u \in Welcoming
    BY <1>1, <1>a DEF AccountsAreRecorded
  <2>2. CASE alert = Alert("welcome", u)
    BY <1>c, <2>2, WelcomeStays
  <2>3. ASSUME NEW j \in DOMAIN queue, Made(queue[j])
        PROVE  u \in Welcoming'
    <3>1. ASSUME NEW d \in {0, 1}, Moves(d), j > d
          PROVE  u \in Welcoming'
      <4>1. j - d \in DOMAIN queue' /\ j - d \in 1 .. Len(queue) - d /\ (j - d) + d = j
        BY <3>1 DEF Moves
      <4>2. Kept(queue[j], queue'[j - d])
        BY <3>1, <4>1 DEF Moves
      <4>3. Made(queue'[j - d])
        BY <2>3, <4>2 DEF Kept
      <4> QED
        BY <1>b, <4>1, <4>3
    <3>2. CASE BlockRuns
      <4>1. queue # <<>> /\ Head(queue) = queue[1] /\ Moves(1)
        BY <3>2, BlockMoves
      <4>2. CASE j > 1
        BY <3>1, <4>1, <4>2
      <4>3. CASE j = 1
        <5>1. Made(Head(queue))
          BY <2>3, <4>1, <4>3
        <5>2. Head(queue) \notin {Post, FirstCall} /\ Head(queue).kind # "firstCallOf"
          BY <5>1, BlocksMade
        <5>3. Head(queue).ok = TRUE
          BY <2>3, <4>1, <4>3, Domains, BlockKinds DEF Types
        <5>4. AccountCreated
          BY <3>2, <5>1, <5>2, <5>3 DEF BlockRuns, Hearing, HearContract, HearAsk, HearLogin,
             HearLate,
               HearNothing, Registered, Late, SignedInLate, SignedInAccount, SignedInLogin,
               CallbackFails, Returns
        <5> QED
          BY <1>c, <5>1, <5>4 DEF AccountCreated
      <4> QED
        BY <4>1, <4>2, <4>3 DEF Moves
    <3>3. CASE Elsewhere
      BY <3>1, <3>3, ElsewhereMoves DEF Moves
    <3>4. ASSUME NEW n \in Slot, ReplyGranted(n) \/ ReplyFailed(n)
          PROVE  u \in Welcoming'
      <4>1. j \in DOMAIN queue' /\ queue'[j] = queue[j]
        BY <3>4, GrantedReply, FailedReply
      <4> QED
        BY <1>b, <2>3, <4>1
    <3>5. CASE Kill
      <4>1. u \in Welcoming
        BY <2>3 DEF Welcoming
      <4> QED
        BY <3>5, <4>1 DEF Kill
    <3> QED
      BY <3>2, <3>3, <3>4, <3>5, ActKinds
  <2> QED
    BY <2>1, <2>2, <2>3 DEF Welcoming
<1>2. CASE u \notin accounts
  <2>1. ASSUME NEW n \in Slot, ReplyGranted(n)
        PROVE  u \in Welcoming'
    <3>1. requests[n].user = u /\ requests[n].kind = "create"
      BY <1>2, <2>1 DEF ReplyGranted, Granted
    <3>2. /\ Len(queue) + 2 \in DOMAIN queue'
          /\ queue'[Len(queue) + 2].kind = "callback" /\ queue'[Len(queue) + 2].ok
          /\ queue'[Len(queue) + 2].request = requests[n]
      BY <2>1, GrantedReply
    <3>3. Made(queue'[Len(queue) + 2])
      BY <3>1, <3>2
    <3> QED
      BY <1>b, <3>2, <3>3
  <2>2. ASSUME NEW n \in Slot, ReplyFailed(n)
        PROVE  FALSE
    BY <1>2, <2>2 DEF ReplyFailed
  <2>3. Kill => FALSE
    BY <1>2 DEF Kill
  <2>4. accounts' = accounts => FALSE
    BY <1>2
  <2>5. BlockRuns => accounts' = accounts
    BY DEF BlockRuns, Hearing, HearContract, HearAsk, HearLogin, HearLate, HearNothing, Unheard,
       SignedInLate,
         SignedInAccount, SignedInLogin, SignedInRest, AccountCreated, CallbackFails, service
  <2>6. Elsewhere => accounts' = accounts
    BY DEF Elsewhere, KeychainLoaded, NavDidAppear, ProfileChanged, Touch, loginAction,
       createAccountAction, Send,
         createAccountMismatch, DismissAlert, showCreateAccountVC, goBackAction, WelcomeOkay,
            signOutAction,
         CancelSignOut, ConfirmSignOut, createContractAction, Push, Pop, service
  <2> QED
    BY <2>1, <2>2, <2>3, <2>4, <2>5, <2>6, ActKinds
<1> QED
  BY <1>1, <1>2

(* Every step keeps first calls of removed listeners to the contract       *)
(* screen's and the login screen's: nothing removes the sign-out listener  *)
(* before its first call has run (Settled).                                *)
LEMMA LateKindsKept ==
  ASSUME Types, Types', ListenerFits, LateKinds, Act
  PROVE  LateKinds'
<1> SUFFICES ASSUME NEW i \in DOMAIN queue', queue'[i].kind = "firstCallOf"
             PROVE  queue'[i].of.kind # "signOut"
  BY DEF LateKinds
<1>a. listener \in Listener /\ Heard(listener) \in Listener /\ Heard(listener).kind = listener.kind
  BY HeardListener DEF Types
<1>b. /\ Len(queue) \in Nat /\ DOMAIN queue = 1 .. Len(queue)
      /\ \A j \in DOMAIN queue : queue[j] \in Block
  BY Domains DEF Types
<1>2. ASSUME queue # <<>>, queue' = Tail(queue)
      PROVE  queue'[i].of.kind # "signOut"
  <2>1. i + 1 \in DOMAIN queue /\ queue'[i] = queue[i + 1]
    BY <1>b, <1>2, QueueTail
  <2> QED
    BY <2>1 DEF LateKinds
<1>3. ASSUME NEW l \in Listener, l.kind = "login", queue # <<>>, DismissLogin(l, Tail(queue))
      PROVE  queue'[i].of.kind # "signOut"
  <2>1. CASE LoginDismissed(l, Tail(queue))
    <3>1. /\ DOMAIN queue' = 1 .. Len(queue) /\ queue'[Len(queue)] = FirstCall
          /\ \A j \in 1 .. Len(queue) - 1 :
               queue'[j].kind = "firstCallOf" => queue'[j] = queue[j + 1] \/ queue'[j].of = l
      BY <1>3, <2>1, LoginGoes
    <3>2. i \in 1 .. Len(queue) - 1 /\ i + 1 \in DOMAIN queue
      BY <1>b, <3>1, BlocksMade
    <3> QED
      BY <1>3, <3>1, <3>2 DEF LateKinds
  <2> QED
    BY <1>2, <1>3, <2>1 DEF DismissLogin
<1>4. CASE HearLogin
  BY <1>3, <1>4, <1>a DEF HearLogin
<1>5. CASE SignedInLogin
  BY <1>3, <1>5, <1>a DEF SignedInLogin, Returns, ListenerFits
<1>6. ASSUME NEW q \in Seq(Block), LoginAppears(GoneInQueue("create", q)),
             \A j \in DOMAIN q : q[j].kind = "firstCallOf" => q[j].of.kind # "signOut"
      PROVE  queue'[i].of.kind # "signOut"
  <2>1. /\ Len(q) \in Nat /\ DOMAIN q = 1 .. Len(q) /\ \A j \in DOMAIN q : q[j] \in Block
        /\ DOMAIN queue' = 1 .. Len(q) + 1 /\ queue'[Len(q) + 1] = FirstCall
        /\ \A j \in 1 .. Len(q) : Kept(q[j], queue'[j]) /\ queue'[j].kind = q[j].kind
    BY <1>6, AccountGoes, Domains
  <2>2. i \in 1 .. Len(q)
    BY <2>1, BlocksMade
  <2>3. queue'[i] = q[i]
    BY <2>1, <2>2 DEF Kept
  <2> QED
    BY <1>6, <2>1, <2>2, <2>3
<1>7. CASE SignedInAccount
  <2>1. queue # <<>> /\ LoginAppears(GoneInQueue("create", Tail(queue)))
    BY <1>7 DEF SignedInAccount, Returns, AccountDismissed
  <2>2. /\ Tail(queue) \in Seq(Block) /\ DOMAIN Tail(queue) = 1 .. Len(queue) - 1
        /\ \A j \in 1 .. Len(queue) - 1 : Tail(queue)[j] = queue[j + 1] /\ j + 1 \in DOMAIN queue
    BY <1>b, <2>1, QueueTail
  <2>3. \A j \in DOMAIN Tail(queue) :
          Tail(queue)[j].kind = "firstCallOf" => Tail(queue)[j].of.kind # "signOut"
    BY <2>2 DEF LateKinds
  <2> QED
    BY <1>6, <2>1, <2>2, <2>3
<1>8. CASE goBackAction \/ WelcomeOkay
  BY <1>6, <1>8 DEF goBackAction, WelcomeOkay, AccountDismissed, LateKinds, Types
<1>9. CASE HearContract \/ HearAsk \/ HearLate \/ HearNothing \/ SignedInLate \/ AccountCreated
       \/ CallbackFails("signIn", "login") \/ CallbackFails("create", "account")
  BY <1>2, <1>9 DEF HearContract, HearAsk, HearLate, HearNothing, Registered, Late, SignedInLate,
         AccountCreated, CallbackFails, Returns
<1>10. CASE NavDidAppear
  <2>1. CASE queue' = NavQueue /\ listener.kind = "contract"
    <3>1. /\ DOMAIN queue' = 1 .. Len(queue) + 1 /\ queue'[Len(queue) + 1] = FirstCall
          /\ \A j \in 1 .. Len(queue) :
               queue'[j].kind = "firstCallOf" => queue'[j] = queue[j] \/ queue'[j].of = listener
      BY <2>1, QueueNav
    <3>2. i \in 1 .. Len(queue)
      BY <1>b, <3>1, BlocksMade
    <3> QED
      BY <1>b, <2>1, <3>1, <3>2 DEF LateKinds
  <2>2. CASE queue' = queue
    BY <2>2 DEF LateKinds
  <2> QED
    BY <1>10, <2>1, <2>2 DEF NavDidAppear, LoginAppears, AddListener, NavQueue, ListenerFits
<1>11. CASE Elsewhere /\ ~NavDidAppear /\ ~goBackAction /\ ~WelcomeOkay
  <2>1. Moves(0)
    BY <1>11, ElsewhereMoves
  <2>2. \A j \in 1 .. Len(queue) : queue'[j] = queue[j]
    <3>1. \A b \in {Post, FirstCall} : \A j \in 1 .. Len(queue) : Append(queue, b)[j] = queue[j]
      BY QueueAppend, BlocksMade
    <3>2. /\ Append(queue, Post) \in Seq(Block) /\ Len(Append(queue, Post)) = Len(queue) + 1
      BY QueueAppend, BlocksMade
    <3>3. \A j \in 1 .. Len(queue) + 1 : Append(Append(queue, Post), FirstCall)[j] = Append(queue, Post)[j]
      BY <3>2, AppendBlocks, BlocksMade
    <3>4. CASE queue' = Append(Append(queue, Post), FirstCall)
      <4>1. \A j \in 1 .. Len(queue) : j \in 1 .. Len(queue) + 1
        BY <1>b
      <4> QED
        BY <3>1, <3>3, <3>4, <4>1
    <3>5. CASE queue' \in {Append(queue, Post), Append(queue, FirstCall), queue}
      BY <3>1, <3>5
    <3> QED
      BY <1>11, <3>4, <3>5 DEF Elsewhere, KeychainLoaded, ProfileChanged, Touch, loginAction,
         createAccountAction,
         Send, createAccountMismatch, DismissAlert, showCreateAccountVC, signOutAction,
            CancelSignOut,
         ConfirmSignOut, LoginAppears, createContractAction, Push, Pop, AddListener, service,
            history
  <2>3. i \in 1 .. Len(queue)
    BY <1>b, <2>1 DEF Moves
  <2> QED
    BY <1>b, <2>2, <2>3 DEF LateKinds
<1>12. ASSUME NEW n \in Slot, ReplyGranted(n)
       PROVE  queue'[i].of.kind # "signOut"
  <2>1. i \in 1 .. Len(queue) /\ queue'[i] = queue[i]
    <3>1. /\ DOMAIN queue' = 1 .. Len(queue) + 2 /\ queue'[Len(queue) + 1] = Post
          /\ queue'[Len(queue) + 2].kind = "callback"
          /\ \A j \in 1 .. Len(queue) : queue'[j] = queue[j]
      BY <1>12, GrantedReply
    <3>2. i # Len(queue) + 1 /\ i # Len(queue) + 2
      BY <3>1, BlocksMade
    <3> QED
      BY <1>b, <3>1, <3>2
  <2> QED
    BY <1>b, <2>1 DEF LateKinds
<1>13. ASSUME NEW n \in Slot, ReplyFailed(n)
       PROVE  queue'[i].of.kind # "signOut"
  <2>1. i \in 1 .. Len(queue) /\ queue'[i] = queue[i]
    <3>1. /\ DOMAIN queue' = 1 .. Len(queue) + 1 /\ queue'[Len(queue) + 1].kind = "callback"
          /\ \A j \in 1 .. Len(queue) : queue'[j] = queue[j]
      BY <1>13, FailedReply
    <3>2. i # Len(queue) + 1
      BY <3>1
    <3> QED
      BY <1>b, <3>1, <3>2
  <2> QED
    BY <1>b, <2>1 DEF LateKinds
<1>14. Kill => queue'[i].of.kind # "signOut"
  BY BlocksMade DEF Kill
<1> QED
  BY <1>4, <1>5, <1>7, <1>8, <1>9, <1>10, <1>11, <1>12, <1>13, <1>14, ActKinds DEF BlockRuns,
     Hearing, Elsewhere, Touch

(* Screens whose requests still matter stay in front, or under the other   *)
(* one.                                                                    *)
Stays ==
  /\ screen = "login" => screen' \in {"login", "account"}
  /\ screen = "account" => screen' = "account"

(* A kept callback still waits for its screen.                             *)
LEMMA KeptWaits ==
  ASSUME NEW b \in Block, NEW c \in Block, b.kind = "callback", Kept(b, c),
         CallbackWaits(b, screen, user), Stays, user' = user \/ user' # NoUser
  PROVE  CallbackWaits(c, screen', user')
<1>1. /\ c.ok => b.ok
      /\ c.request.kind = b.request.kind
      /\ b.request.gone => c.request.gone
  BY DEF Kept
<1>2. WaitsOn(b.request, screen) /\ (b.ok /\ ~b.request.gone => user # NoUser)
  BY DEF CallbackWaits
<1>3. WaitsOn(c.request, screen')
  BY <1>1, <1>2 DEF WaitsOn, Stays
<1>4. c.ok /\ ~c.request.gone => user' # NoUser
  BY <1>1, <1>2
<1> QED
  BY <1>3, <1>4 DEF CallbackWaits

(* So do all callbacks of a queue that moved on.                           *)
LEMMA QueueStillWaits ==
  ASSUME Types, Types', NEW d \in {0, 1}, Moves(d), Stays, user' = user \/ user' # NoUser,
         QueueWaits(queue, screen, user)
  PROVE  QueueWaits(queue', screen', user')
<1> SUFFICES ASSUME NEW i \in DOMAIN queue', queue'[i].kind = "callback"
             PROVE  CallbackWaits(queue'[i], screen', user')
  BY DEF QueueWaits, CallbackWaits
<1>1. PICK j \in DOMAIN queue : queue[j].kind = "callback" /\ Kept(queue[j], queue'[i])
  BY CallbacksAreOld
<1>2. queue[j] \in Block /\ queue'[i] \in Block
  BY Domains DEF Types
<1>3. CallbackWaits(queue[j], screen, user)
  BY DEF QueueWaits
<1> QED
  BY <1>1, <1>2, <1>3, KeptWaits

(* So do requests that are still on their way.                             *)
LEMMA RequestsStillWait ==
  ASSUME RequestsWait(requests, screen), Stays, requests' = requests
  PROVE  RequestsWait(requests', screen')
BY DEF RequestsWait, WaitsOn, Stays

(* When a controller goes, it is enough that its callbacks count as gone.  *)
LEMMA GoneWait ==
  ASSUME Types, Types', NEW d \in {0, 1}, Moves(d), user' = user, QueueWaits(queue, screen, user),
         \A i \in DOMAIN queue' : queue'[i].kind = "callback" => WaitsOn(queue'[i].request, screen')
  PROVE  QueueWaits(queue', screen', user')
<1> SUFFICES ASSUME NEW i \in DOMAIN queue', queue'[i].kind = "callback",
                    queue'[i].ok, ~queue'[i].request.gone
             PROVE  user # NoUser
  BY DEF QueueWaits, CallbackWaits
<1>1. PICK j \in DOMAIN queue : queue[j].kind = "callback" /\ Kept(queue[j], queue'[i])
  BY CallbacksAreOld
<1>2. queue[j].ok /\ ~queue[j].request.gone
  BY <1>1 DEF Kept
<1> QED
  BY <1>1, <1>2 DEF QueueWaits, CallbackWaits

(* Every step keeps requests, callbacks and alerts to the screens that     *)
(* made them.                                                              *)
LEMMA WaitingKept ==
  ASSUME Types, Types', ListenerFits, LateKinds, Unloaded, Waiting, Act
  PROVE  Waiting'
<1>b. AlertFits(alert, screen, user) /\ QueueWaits(queue, screen, user) /\ RequestsWait(requests, screen)
  BY DEF Waiting
<1>d. /\ listener \in Listener /\ user \in MaybeUser /\ Heard(listener) \in Listener /\ queue \in Seq(Block)
      /\ screen \in Screens /\ requests \in [Slot -> Request]
  BY HeardListener DEF Types
<1>e. /\ NoAlert.kind = "none" /\ Alert("leaving", NoUser).kind = "leaving"
      /\ Alert("oops", NoUser).kind = "oops" /\ Alert("verify", NoUser).kind = "verify"
  BY AlertsMade DEF AlertKinds, MaybeUser
<1>f. BlockRuns => Moves(1)
  BY BlockMoves
<1>g. Elsewhere => Moves(0)
  BY ElsewhereMoves
<1>3. ASSUME screen' = screen \/ screen \notin {"login", "account"}
      PROVE  Stays
  BY <1>3 DEF Stays
<1>5. ASSUME UNCHANGED <<screen, requests, user>>, BlockRuns \/ Elsewhere,
             alert' = alert \/ alert'.kind \notin {"welcome", "verify"}
      PROVE  Waiting'
  <2>1. Stays
    BY <1>3, <1>5
  <2>2. RequestsWait(requests', screen')
    BY <1>5, <1>b, <2>1, RequestsStillWait
  <2>3. QueueWaits(queue', screen', user')
    BY <1>5, <1>b, <1>f, <1>g, <2>1, QueueStillWaits
  <2>4. AlertFits(alert', screen', user')
    BY <1>5, <1>b DEF AlertFits
  <2> QED
    BY <2>2, <2>3, <2>4 DEF Waiting
<1>6. CASE HearContract \/ HearLate \/ HearNothing \/ SignedInLate
            \/ CallbackFails("signIn", "login") \/ CallbackFails("create", "account")
  <2>1. UNCHANGED <<screen, requests, user>> /\ (alert' = alert \/ alert'.kind = "oops")
    BY <1>6, <1>e DEF HearContract, ContractHears, HearLate, HearNothing, Unheard, SignedInLate,
       SignedInRest,
         CallbackFails, auth, service
  <2> QED
    BY <1>5, <1>6, <2>1 DEF BlockRuns, Hearing
<1>7. CASE HearAsk
  <2>1. UNCHANGED <<screen, requests, user>>
    BY <1>7 DEF HearAsk, AskToSignOut, Unheard, auth
  <2>2. CASE alert' = alert
    BY <1>5, <1>7, <2>1, <2>2 DEF BlockRuns, Hearing
  <2>3. CASE listener.kind = "signOut" /\ alert' = Alert("verify", NoUser)
    <3>1. screen = "contract"
      BY <1>d, <2>3 DEF ListenerFits, Screens
    <3>2. RequestsWait(requests', screen') /\ QueueWaits(queue', screen', user')
      BY <1>3, <1>7, <1>b, <1>f, <2>1, RequestsStillWait, QueueStillWaits DEF BlockRuns, Hearing
    <3>3. AlertFits(alert', screen', user')
      BY <1>e, <2>1, <2>3, <3>1 DEF AlertFits
    <3> QED
      BY <3>2, <3>3 DEF Waiting
  <2>4. ASSUME Late, Head(queue).of.kind = "signOut"
        PROVE  FALSE
    <3>1. queue # <<>> /\ Head(queue).kind = "firstCallOf"
      BY <2>4 DEF Late
    <3>2. 1 \in DOMAIN queue /\ Head(queue) = queue[1]
      BY <1>d, <3>1, TailBlocks
    <3> QED
      BY <2>4, <3>1, <3>2 DEF LateKinds
  <2> QED
    BY <1>7, <2>2, <2>3, <2>4 DEF HearAsk, AskToSignOut
<1>8. ASSUME NEW l \in Listener, screen = "login", queue # <<>>, DismissLogin(l, Tail(queue)),
             BlockRuns, user' = user
      PROVE  Waiting'
  <2>1. CASE LoginDismissed(l, Tail(queue))
    <3>1. /\ screen' = "appearing" /\ alert' = alert /\ RequestsGone("signIn")
          /\ DOMAIN queue' = 1 .. Len(queue) /\ queue'[Len(queue)] = FirstCall
          /\ \A i \in 1 .. Len(queue) - 1 : queue'[i].kind = "callback" =>
                 (queue'[i].request.kind = "signIn" => queue'[i].request.gone)
      BY <1>8, <2>1, LoginGoes
    <3>2. RequestsWait(requests', screen')
      <4>1. \A i \in Slot : /\ requests'[i].kind = requests[i].kind
                            /\ requests[i].gone => requests'[i].gone
                            /\ requests'[i].kind = "signIn" => requests'[i].gone
        BY <3>1, RequestsAreGone
      <4>2. \A i \in Slot : requests[i].kind = "create" => requests[i].gone
        BY <1>8, <1>b DEF RequestsWait, WaitsOn
      <4> QED
        BY <4>1, <4>2 DEF RequestsWait, WaitsOn
    <3>3. ASSUME NEW i \in DOMAIN queue', queue'[i].kind = "callback"
          PROVE  WaitsOn(queue'[i].request, screen')
      <4>1. PICK j \in DOMAIN queue : queue[j].kind = "callback" /\ Kept(queue[j], queue'[i])
        BY <1>8, <1>f, <3>3, CallbacksAreOld
      <4>2. /\ queue'[i].request.kind = queue[j].request.kind
            /\ queue[j].request.gone => queue'[i].request.gone
        BY <4>1 DEF Kept
      <4>3. queue[j].request.kind = "create" => queue[j].request.gone
        BY <1>8, <1>b, <4>1 DEF QueueWaits, CallbackWaits, WaitsOn
      <4>4. i # Len(queue)
        BY <3>1, <3>3, BlocksMade
      <4>5. i \in 1 .. Len(queue) - 1
        BY <1>d, <3>1, <4>4, Domains
      <4> QED
        BY <3>1, <3>3, <4>2, <4>3, <4>5 DEF WaitsOn
    <3>4. QueueWaits(queue', screen', user')
      BY <1>8, <1>b, <1>f, <3>3, GoneWait
    <3>5. AlertFits(alert', screen', user')
      BY <1>8, <1>b, <3>1 DEF AlertFits
    <3> QED
      BY <3>2, <3>4, <3>5 DEF Waiting
  <2>2. CASE alert' = Alert("leaving", NoUser) /\ UNCHANGED <<screen, requests>>
    BY <1>5, <1>8, <1>e, <2>2
  <2> QED
    BY <1>8, <2>1, <2>2 DEF DismissLogin
<1>9. CASE HearLogin
  <2>1. screen = "login" /\ queue # <<>> /\ DismissLogin(Heard(listener), Tail(queue)) /\ user' = user
    BY <1>9 DEF HearLogin, ListenerFits, Unheard, auth
  <2> QED
    BY <1>8, <1>9, <1>d, <2>1 DEF BlockRuns, Hearing
<1>10. CASE SignedInLogin
  <2>1. screen = "login" /\ queue # <<>> /\ DismissLogin(listener, Tail(queue)) /\ user' = user
    BY <1>10 DEF SignedInLogin, SignedInRest, Returns, auth
  <2> QED
    BY <1>8, <1>10, <1>d, <2>1 DEF BlockRuns
<1>11. ASSUME NEW q \in Seq(Block), LoginAppears(GoneInQueue("create", q)), RequestsGone("create"),
              alert' = NoAlert, user' = user, NEW d \in {0, 1}, Moves(d)
       PROVE  Waiting'
  <2>1. screen' = "login"
    BY <1>11 DEF LoginAppears
  <2>2. RequestsWait(requests', screen')
    <3>1. \A i \in Slot : requests'[i].kind = "create" => requests'[i].gone
      BY <1>11, RequestsAreGone
    <3> QED
      BY <2>1, <3>1 DEF RequestsWait, WaitsOn
  <2>3. ASSUME NEW i \in DOMAIN queue', queue'[i].kind = "callback"
        PROVE  WaitsOn(queue'[i].request, screen')
    <3>4. /\ Len(q) \in Nat /\ DOMAIN queue' = 1 .. Len(q) + 1 /\ queue'[Len(q) + 1] = FirstCall
          /\ \A k \in 1 .. Len(q) : queue'[k].kind = "callback" =>
                   (queue'[k].request.kind = "create" => queue'[k].request.gone)
      BY <1>11, AccountGoes
    <3>5. i # Len(q) + 1
      BY <2>3, <3>4, BlocksMade
    <3>6. i \in 1 .. Len(q)
      BY <3>4, <3>5
    <3>7. queue'[i].request.kind = "create" => queue'[i].request.gone
      BY <2>3, <3>4, <3>6
    <3> QED
      BY <2>1, <3>7 DEF WaitsOn
  <2>4. QueueWaits(queue', screen', user')
    BY <1>11, <1>b, <2>3, GoneWait
  <2>5. AlertFits(alert', screen', user')
    BY <1>11, <1>e DEF AlertFits
  <2> QED
    BY <2>2, <2>4, <2>5 DEF Waiting
<1>12. CASE SignedInAccount
  <2>1. Tail(queue) \in Seq(Block) /\ Moves(1)
    BY <1>12, <1>f, QueueTail DEF BlockRuns, SignedInAccount, Returns
  <2> QED
    BY <1>11, <1>12, <2>1 DEF SignedInAccount, SignedInRest, AccountDismissed, auth
<1>13. CASE goBackAction \/ WelcomeOkay
  <2>1. Moves(0)
    BY <1>13, <1>g DEF Elsewhere, Touch
  <2> QED
    BY <1>11, <1>13, <1>d, <2>1 DEF goBackAction, WelcomeOkay, AccountDismissed, auth
<1>14. CASE AccountCreated
  <2>1. UNCHANGED <<screen, requests, user>> /\ Moves(1)
    BY <1>14, <1>f DEF AccountCreated, BlockRuns, auth
  <2>2. RequestsWait(requests', screen') /\ QueueWaits(queue', screen', user')
    BY <1>3, <1>b, <2>1, RequestsStillWait, QueueStillWaits
  <2>3. CASE alert' = alert
    BY <1>b, <2>1, <2>2, <2>3 DEF Waiting
  <2>4. CASE ~Head(queue).request.gone /\ screen = "account" /\ alert'.kind = "welcome"
    <3>1. 1 \in DOMAIN queue /\ Head(queue) = queue[1] /\ queue[1].kind = "callback" /\ queue[1].ok
      BY <1>14, QueueTail DEF AccountCreated, Returns
    <3>2. user # NoUser
      BY <1>b, <2>4, <3>1 DEF QueueWaits, CallbackWaits
    <3>3. AlertFits(alert', screen', user')
      BY <2>1, <2>4, <3>2 DEF AlertFits
    <3> QED
      BY <2>2, <3>3 DEF Waiting
  <2>5. alert' = alert \/ (~Head(queue).request.gone /\ screen = "account" /\ alert'.kind = "welcome")
    BY <1>14 DEF AccountCreated, Alert
  <2> QED
    BY <2>3, <2>4, <2>5
<1>15. CASE KeychainLoaded
  <2>1. UNCHANGED <<screen, requests, alert>> /\ user = NoUser /\ Moves(0)
    BY <1>15, <1>g DEF KeychainLoaded, Elsewhere, Unloaded, service
  <2>2. RequestsWait(requests', screen') /\ QueueWaits(queue', screen', user')
    BY <1>3, <1>b, <2>1, RequestsStillWait, QueueStillWaits
  <2>3. AlertFits(alert', screen', user')
    BY <1>b, <2>1 DEF AlertFits
  <2> QED
    BY <2>2, <2>3 DEF Waiting
<1>16. ASSUME NEW n \in Slot, ReplyGranted(n)
       PROVE  Waiting'
  <2>1. /\ requests[n] \in Sent /\ DOMAIN queue = 1 .. Len(queue)
        /\ queue'[Len(queue) + 2].request = requests[n]
        /\ \A i \in 1 .. Len(queue) : queue'[i] = queue[i]
        /\ \A i \in DOMAIN queue' : queue'[i].kind = "callback" => i \in DOMAIN queue \/ i = Len(queue) + 2
    BY <1>16, GrantedReply
  <2>2. user' # NoUser /\ screen' = screen /\ alert' = alert /\ requests' = [requests EXCEPT ![n] = NoRequest]
    BY <1>16, <2>1, SessionAssumption DEF ReplyGranted, SetUser, Sent
  <2>3. RequestsWait(requests', screen')
    <3>1. \A i \in Slot : requests'[i] = requests[i] \/ requests'[i] = NoRequest
      BY <1>d, <2>2
    <3>2. NoRequest.kind = "none"
      BY DEF NoRequest
    <3> QED
      BY <1>b, <2>2, <3>1, <3>2 DEF RequestsWait, WaitsOn
  <2>4. ASSUME NEW i \in DOMAIN queue'
        PROVE  CallbackWaits(queue'[i], screen', user')
    <3>1. ASSUME queue'[i].kind = "callback" PROVE WaitsOn(queue'[i].request, screen)
      <4>1. CASE i \in DOMAIN queue
        BY <1>b, <2>1, <3>1, <4>1 DEF QueueWaits, CallbackWaits
      <4>2. CASE i = Len(queue) + 2
        BY <1>b, <2>1, <4>2 DEF RequestsWait
      <4> QED
        BY <2>1, <3>1, <4>1, <4>2
    <3> QED
      BY <2>2, <3>1 DEF CallbackWaits
  <2>5. AlertFits(alert', screen', user')
    BY <1>b, <2>2 DEF AlertFits
  <2> QED
    BY <2>3, <2>4, <2>5 DEF Waiting, QueueWaits
<1>17. ASSUME NEW n \in Slot, ReplyFailed(n)
       PROVE  Waiting'
  <2>1. /\ Len(queue) \in Nat /\ DOMAIN queue = 1 .. Len(queue) /\ DOMAIN queue' = 1 .. Len(queue) + 1
        /\ ~queue'[Len(queue) + 1].ok /\ queue'[Len(queue) + 1].request = requests[n]
        /\ \A i \in 1 .. Len(queue) : queue'[i] = queue[i]
    BY <1>17, FailedReply
  <2>2. UNCHANGED <<user, screen, alert>> /\ requests' = [requests EXCEPT ![n] = NoRequest]
    BY <1>17 DEF ReplyFailed, auth
  <2>3. RequestsWait(requests', screen')
    <3>1. \A i \in Slot : requests'[i] = requests[i] \/ requests'[i] = NoRequest
      BY <1>d, <2>2
    <3>2. NoRequest.kind = "none"
      BY DEF NoRequest
    <3> QED
      BY <1>b, <2>2, <3>1, <3>2 DEF RequestsWait, WaitsOn
  <2>4. ASSUME NEW i \in DOMAIN queue'
        PROVE  CallbackWaits(queue'[i], screen', user')
    <3>1. CASE i \in DOMAIN queue
      <4>1. CallbackWaits(queue[i], screen, user) /\ queue'[i] = queue[i]
        BY <1>b, <2>1, <3>1 DEF QueueWaits
      <4> QED
        BY <2>2, <4>1
    <3>2. CASE i = Len(queue) + 1
      <4>1. WaitsOn(requests[n], screen)
        BY <1>b DEF RequestsWait
      <4> QED
        BY <2>1, <2>2, <3>2, <4>1 DEF CallbackWaits
    <3> QED
      BY <2>1, <3>1, <3>2
  <2>5. AlertFits(alert', screen', user')
    BY <1>b, <2>2
  <2> QED
    BY <2>3, <2>4, <2>5 DEF Waiting, QueueWaits
<1>18. CASE Kill
  <2>1. \A i \in Slot : requests'[i] = NoRequest
    BY <1>18 DEF Kill
  <2>2. \A i \in DOMAIN queue' : queue'[i].kind = "firstCall"
    BY <1>18, BlocksMade DEF Kill
  <2>3. alert' = NoAlert /\ NoRequest.kind = "none"
    BY <1>18 DEF Kill, NoRequest
  <2> QED
    BY <1>e, <2>1, <2>2, <2>3 DEF Waiting, RequestsWait, QueueWaits, CallbackWaits, AlertFits,
       WaitsOn
<1>19. ASSUME NEW u \in Users, loginAction(u) \/ createAccountAction(u)
       PROVE  Waiting'
  <2>1. PICK k \in {"signIn", "create"} :
          /\ Send(k, u) /\ (k = "signIn" => screen = "login") /\ (k = "create" => screen = "account")
    BY <1>19 DEF loginAction, createAccountAction, Touchable
  <2>2. UNCHANGED <<user, screen, alert>> /\ Moves(0)
    BY <1>19, <1>g, <2>1 DEF Elsewhere, Touch, Send, auth
  <2>3. QueueWaits(queue', screen', user')
    BY <1>3, <1>b, <2>2, QueueStillWaits
  <2>4. \A i \in Slot : requests'[i] = requests[i] \/ requests'[i] = [kind |-> k, user |-> u, gone |-> FALSE]
    BY <1>d, <2>1 DEF Send
  <2>5. RequestsWait(requests', screen')
    BY <1>b, <2>1, <2>2, <2>4 DEF RequestsWait, WaitsOn
  <2> QED
    BY <1>b, <2>2, <2>3, <2>5 DEF Waiting
<1>20. CASE createAccountMismatch \/ DismissAlert \/ CancelSignOut \/ \E c \in renames : ProfileChanged(c)
  <2>1. UNCHANGED <<screen, requests, user>> /\ (alert' = alert \/ alert'.kind \notin {"welcome", "verify"})
    BY <1>20, <1>e DEF createAccountMismatch, DismissAlert, CancelSignOut, ProfileChanged, auth,
       service
  <2> QED
    BY <1>5, <1>20, <2>1 DEF Elsewhere, Touch
<1>21. CASE NavDidAppear \/ createContractAction \/ Push \/ Pop \/ ConfirmSignOut \/ showCreateAccountVC
  <2>1. UNCHANGED <<requests, user>>
    BY <1>21 DEF NavDidAppear, createContractAction, Push, Pop, ConfirmSignOut,
       showCreateAccountVC, service, auth
  <2>2. Moves(0)
    BY <1>21, <1>g DEF Elsewhere, Touch
  <2>3. alert'.kind \notin {"welcome", "verify"}
    <3>3. CASE NavDidAppear
      BY <3>3, <1>b DEF NavDidAppear, AlertFits
    <3>4. CASE createContractAction \/ Push \/ Pop \/ ConfirmSignOut \/ showCreateAccountVC
      BY <3>4, <1>e DEF createContractAction, Push, Pop, ConfirmSignOut, showCreateAccountVC,
         Touchable
    <3> QED
      BY <1>21, <3>3, <3>4
  <2>4. Stays
    <3>1. CASE showCreateAccountVC
      BY <3>1 DEF showCreateAccountVC, Touchable, Stays
    <3>2. CASE NavDidAppear \/ createContractAction \/ Push \/ Pop
      BY <1>3, <3>2 DEF NavDidAppear, createContractAction, Push, Pop, Touchable
    <3>3. CASE ConfirmSignOut
      BY <1>3, <1>b, <3>3 DEF ConfirmSignOut, AlertFits
    <3> QED
      BY <1>21, <3>1, <3>2, <3>3
  <2>5. RequestsWait(requests', screen') /\ QueueWaits(queue', screen', user')
    BY <1>b, <2>1, <2>2, <2>4, RequestsStillWait, QueueStillWaits
  <2> QED
    BY <2>3, <2>5 DEF Waiting, AlertFits
<1>22. CASE signOutAction
  <2>1. screen = "contract" /\ UNCHANGED <<screen, requests, alert>> /\ Moves(0) /\ alert.kind = "none"
    BY <1>22, <1>e, <1>g DEF signOutAction, Touchable, Elsewhere, Touch, service
  <2>2. RequestsWait(requests', screen')
    BY <1>3, <1>b, <2>1, RequestsStillWait
  <2>3. ASSUME NEW i \in DOMAIN queue', queue'[i].kind = "callback"
        PROVE  queue'[i].request.gone
    <3>1. PICK j \in DOMAIN queue : queue[j].kind = "callback" /\ Kept(queue[j], queue'[i])
      BY <2>1, <2>3, CallbacksAreOld
    <3>2. queue[j].request \in Sent
      BY <1>d, <3>1, Domains, BlockKinds
    <3>3. queue[j].request.gone
      BY <1>b, <2>1, <3>1, <3>2 DEF QueueWaits, CallbackWaits, WaitsOn, Sent
    <3> QED
      BY <3>1, <3>3 DEF Kept
  <2>4. QueueWaits(queue', screen', user')
    BY <2>3 DEF QueueWaits, CallbackWaits, WaitsOn
  <2> QED
    BY <2>1, <2>2, <2>4 DEF Waiting, AlertFits
<1> QED
  BY <1>6, <1>7, <1>9, <1>10, <1>12, <1>13, <1>14, <1>15, <1>16, <1>17, <1>18, <1>19, <1>20,
     <1>21, <1>22
     DEF Act, Hearing, Outside, Touch

(* Every step keeps the time before the keychain is read silent.           *)
LEMMA UnloadedKept ==
  ASSUME Types, Types', Unloaded, Act
  PROVE  Unloaded'
<1> DEFINE NoCallback(q) == \A i \in DOMAIN q : q[i].kind # "callback"
<1>a. listener \in Listener /\ user \in MaybeUser
  BY DEF Types
<1>b. ASSUME NEW d \in {0, 1}, Moves(d), NoCallback(queue)
      PROVE  NoCallback(queue')
  BY <1>b, CallbacksAreOld
<1>c. Removed.prev = NoUser
  BY ListenersMade
<1>d. /\ ~loaded => user = NoUser /\ NoCallback(queue)
      /\ user = NoUser => listener.prev = NoUser
  BY DEF Unloaded
<1>1. CASE BlockRuns
  <2>1. user' = user /\ loaded' = loaded /\ Moves(1)
    BY <1>1, BlockMoves, BlockSteps
  <2>2. ~loaded' => user' = NoUser /\ NoCallback(queue')
    BY <1>b, <1>d, <2>1
  <2>3. user' = NoUser => listener'.prev = NoUser
    BY <1>1, <1>a, <1>d, <2>1, BlockSteps, HeardListener DEF Arrives
  <2> QED
    BY <2>2, <2>3 DEF Unloaded
<1>2. CASE KeychainLoaded
  <2>1. loaded' = TRUE /\ listener' = listener /\ user = NoUser
    BY <1>2, <1>d DEF KeychainLoaded
  <2> QED
    BY <1>d, <2>1 DEF Unloaded
<1>3. CASE Elsewhere /\ ~KeychainLoaded
  <2>1. loaded' = loaded /\ (user' = user \/ user' = NoUser) /\ Moves(0)
    BY <1>3, ElsewhereSteps, ElsewhereMoves
  <2>2. ~loaded' => user' = NoUser /\ NoCallback(queue')
    BY <1>b, <1>d, <2>1
  <2>3. user' = NoUser => listener'.prev = NoUser
    BY <1>3, <1>c, <1>d, ElsewhereSteps DEF Arrives
  <2> QED
    BY <2>2, <2>3 DEF Unloaded
<1>4. ASSUME NEW n \in Slot, ReplyGranted(n) \/ ReplyFailed(n)
      PROVE  Unloaded'
  <2>1. loaded' = TRUE /\ listener' = listener /\ (user' = user \/ ReplyGranted(n))
    BY <1>4 DEF ReplyGranted, ReplyFailed, auth, Types
  <2>2. ReplyGranted(n) => user' # NoUser
    BY ReplySteps
  <2>3. user' = NoUser => listener'.prev = NoUser
    BY <1>d, <2>1, <2>2
  <2> QED
    BY <2>1, <2>3 DEF Unloaded
<1>5. CASE Kill
  BY <1>5, KillSteps DEF Unloaded, Arrives
<1> QED
  BY <1>1, <1>2, <1>3, <1>4, <1>5, ActKinds

(* Every step keeps the login screen blank while nobody is signed in.      *)
LEMMA BlankKept ==
  ASSUME Types, Types', Waiting, Unloaded, Blank, ListenerFits, Act
  PROVE  Blank'
<1> SUFFICES ASSUME screen' \in {"appearing", "login", "account"}, user' = NoUser
             PROVE  specialist' = Nobody /\ progress' = NoUser
  BY DEF Blank
<1>a. ASSUME user = NoUser, screen \in {"appearing", "login", "account"},
             specialist' = specialist, progress' = progress
      PROVE  specialist' = Nobody /\ progress' = NoUser
  BY <1>a DEF Blank
<1>b. BlockRuns => user = NoUser
  BY BlockSteps
<1>1. CASE HearContract \/ HearLogin \/ HearLate
  BY <1>1, <1>b DEF BlockRuns, Hearing, HearContract, HearLogin, HearLate
<1>2. CASE HearAsk \/ HearNothing \/ SignedInLate \/ AccountCreated
            \/ CallbackFails("signIn", "login") \/ CallbackFails("create", "account")
  <2>1. UNCHANGED <<screen, specialist, progress>>
    BY <1>2 DEF HearAsk, AskToSignOut, HearNothing, SignedInLate, SignedInRest, AccountCreated,
       CallbackFails,
         Unheard, singletons
  <2> QED
    BY <1>2, <1>a, <1>b, <2>1 DEF BlockRuns, Hearing
<1>3. CASE SignedInAccount \/ SignedInLogin
  <2>1. screen \in {"login", "account"} /\ UNCHANGED <<specialist, progress>>
    BY <1>3 DEF SignedInAccount, SignedInLogin, SignedInRest, singletons
  <2> QED
    BY <1>3, <1>a, <1>b, <2>1 DEF BlockRuns
<1>4. CASE KeychainLoaded
  BY <1>4, <1>a DEF KeychainLoaded, Unloaded, singletons
<1>5. ASSUME NEW n \in Slot, ReplyGranted(n)
      PROVE  FALSE
  BY <1>5, ReplySteps
<1>6. ASSUME NEW n \in Slot, ReplyFailed(n)
      PROVE  specialist' = Nobody /\ progress' = NoUser
  BY <1>6, <1>a DEF ReplyFailed, auth, singletons
<1>7. CASE NavDidAppear \/ (\E c \in renames : ProfileChanged(c))
  BY <1>7, <1>a DEF NavDidAppear, ProfileChanged, auth, singletons
<1>8. CASE Kill \/ ConfirmSignOut
  BY <1>8 DEF Kill, ConfirmSignOut
<1>9. CASE WelcomeOkay
  BY <1>9 DEF WelcomeOkay, Waiting, AlertFits, auth
<1>10. CASE \/ \E u \in Users : loginAction(u) \/ createAccountAction(u)
            \/ createAccountMismatch \/ DismissAlert \/ showCreateAccountVC \/ goBackAction \/ CancelSignOut
  <2>1. UNCHANGED <<user, specialist, progress>>
    BY <1>10 DEF loginAction, createAccountAction, Send, createAccountMismatch, DismissAlert,
       showCreateAccountVC,
         goBackAction, CancelSignOut, auth, singletons
  <2>2. screen' = screen \/ screen \in {"login", "account"}
    BY <1>10 DEF loginAction, createAccountAction, Send, createAccountMismatch, DismissAlert,
       showCreateAccountVC,
         goBackAction, CancelSignOut, Touchable
  <2> QED
    BY <1>a, <2>1, <2>2
<1>11. CASE signOutAction \/ createContractAction \/ Push \/ Pop
  BY <1>11 DEF signOutAction, createContractAction, Push, Pop, Touchable
<1> QED
  BY <1>1, <1>2, <1>3, <1>4, <1>5, <1>6, <1>7, <1>8, <1>9, <1>10, <1>11 DEF Act, Hearing,
     Outside, Touch

(* Every step keeps a called login listener to a dismissal an alert held   *)
(* up.                                                                     *)
LEMMA LoginHeardKept ==
  ASSUME Types, Types', ListenerFits, LoginHeard, Act
  PROVE  LoginHeard'
<1> SUFFICES ASSUME listener'.kind = "login", listener'.called, listener'.prev # NoUser
             PROVE  stuck'
  BY DEF LoginHeard
<1>a. /\ listener \in Listener /\ user \in MaybeUser /\ Heard(listener).kind = listener.kind
      /\ listener.kind # "none" => Heard(listener).prev = user
  BY HeardListener DEF Types
<1>b. ASSUME listener' = listener, stuck => stuck'
      PROVE  stuck'
  BY <1>b DEF LoginHeard
<1>c. Arrives => FALSE
  BY DEF Arrives
<1>1. CASE HearLogin
  BY <1>1, <1>c, BlockSteps, ListenersMade DEF HearLogin, DismissLogin, LoginDismissed, AddListener
<1>2. CASE HearNothing
  <2>1. CASE listener' = Heard(listener) /\ (Knows \/ user = NoUser \/ listener.kind = "none")
    <3>1. listener.kind = "login" /\ user # NoUser
      BY <1>a, <2>1
    <3>2. listener.called /\ listener.prev = user
      BY <2>1, <3>1 DEF Knows
    <3> QED
      BY <1>2, <3>1, <3>2 DEF LoginHeard, HearNothing
  <2>2. CASE listener' = listener
    BY <1>2, <1>b, <2>2 DEF HearNothing
  <2> QED
    BY <1>2, <2>1, <2>2 DEF HearNothing
<1>3. CASE HearContract \/ HearAsk \/ HearLate
  <2>1. CASE listener' = listener
    BY <1>3, <1>b, <2>1 DEF HearContract, ContractHears, HearAsk, AskToSignOut, HearLate
  <2>2. CASE listener' = Heard(listener) /\ listener.kind # "login"
    BY <1>a, <2>2
  <2> QED
    BY <1>3, <2>1, <2>2 DEF HearContract, HearAsk, HearLate, Asks
<1>4. CASE SignedInLate \/ SignedInAccount \/ SignedInLogin \/ AccountCreated
            \/ CallbackFails("signIn", "login") \/ CallbackFails("create", "account")
  <2>2. listener' = listener \/ listener' \in {Added("login"), Added("contract")}
    BY <1>4 DEF SignedInLate, SignedInAccount, SignedInLogin, AccountCreated, CallbackFails,
         DismissLogin, LoginDismissed, AccountDismissed, AddListener, LoginAppears
  <2>3. listener' = listener
    BY <2>2, ListenersMade
  <2> QED
    BY <1>4, <1>b, <2>3, BlockSteps DEF BlockRuns
<1>5. CASE Elsewhere
  <2>1. Removed.kind = "none"
    BY ListenersMade
  <2> QED
    BY <1>5, <1>b, <1>c, <2>1, ElsewhereSteps
<1>6. ASSUME NEW n \in Slot, ReplyGranted(n) \/ ReplyFailed(n)
      PROVE  stuck'
  <2>1. listener' = listener /\ stuck' = stuck
    BY <1>6 DEF ReplyGranted, ReplyFailed
  <2> QED
    BY <1>b, <2>1
<1>7. CASE Kill
  BY <1>7, <1>c, KillSteps
<1> QED
  BY <1>1, <1>2, <1>3, <1>4, <1>5, <1>6, <1>7, ActKinds DEF BlockRuns, Hearing

(* Every step keeps a call coming for a listener that does not know the    *)
(* user.                                                                   *)
LEMMA WillHearKept ==
  ASSUME Types, Types', Unloaded, WillHear, Act
  PROVE  WillHear'
<1>a. /\ listener \in Listener /\ user \in MaybeUser /\ Heard(listener).kind = listener.kind
      /\ listener.kind # "none" => Heard(listener).called = TRUE /\ Heard(listener).prev = user
  BY HeardListener DEF Types
<1>b. Len(queue) \in Nat /\ DOMAIN queue = 1 .. Len(queue)
  BY Domains DEF Types
<1>c. Removed.kind = "none"
  BY ListenersMade
<1>1. ASSUME Arrives
      PROVE  WillHear'
  BY <1>1 DEF WillHear, Arrives
<1>2. ASSUME listener'.kind = "none" \/ user' = NoUser
      PROVE  WillHear'
  BY <1>2 DEF WillHear
<1>3. ASSUME listener' = Heard(listener), user' = user
      PROVE  WillHear'
  BY <1>2, <1>3, <1>a DEF WillHear, Knows
<1>4. ASSUME listener' = listener, user' = user, queue # <<>>, queue' = Tail(queue),
             Head(queue) \notin {Post, FirstCall}
      PROVE  WillHear'
  <2>1. queue[1] \notin {Post, FirstCall}
    BY <1>4, QueueTail
  <2>2. ASSUME listener.kind # "none", user # NoUser, ~Knows
        PROVE  \E i \in DOMAIN queue' : queue'[i] \in {Post, FirstCall}
    <3>1. PICK i \in DOMAIN queue : queue[i] \in {Post, FirstCall}
      BY <2>2 DEF WillHear
    <3>2. i - 1 \in DOMAIN queue' /\ queue'[i - 1] = queue[i]
      BY <1>4, <2>1, <3>1, TailKeeps
    <3> QED
      BY <3>1, <3>2
  <2>3. ASSUME listener.kind # "none", user # NoUser, listener.called, listener.prev \notin {user, NoUser}
        PROVE  \E i, j \in DOMAIN queue' : i < j /\ queue'[i] = Post /\ queue'[j].kind = "callback"
    <3>1. PICK i, j \in DOMAIN queue : i < j /\ queue[i] = Post /\ queue[j].kind = "callback"
      BY <2>3 DEF WillHear
    <3>2. i # 1 /\ j # 1
      BY <1>b, <2>1, <3>1
    <3>3. /\ i - 1 \in DOMAIN queue' /\ queue'[i - 1] = queue[i]
          /\ j - 1 \in DOMAIN queue' /\ queue'[j - 1] = queue[j]
      BY <1>4, <3>1, <3>2, TailKeeps
    <3>4. i - 1 < j - 1
      BY <1>b, <3>1
    <3> QED
      BY <3>1, <3>3, <3>4
  <2> QED
    BY <1>4, <2>2, <2>3 DEF WillHear, Knows
<1>5. ASSUME listener' = listener, user' = user, \A i \in DOMAIN queue : i \in DOMAIN queue' /\ queue'[i] = queue[i]
      PROVE  WillHear'
  <2>2. ASSUME listener.kind # "none", user # NoUser, ~Knows
        PROVE  \E i \in DOMAIN queue' : queue'[i] \in {Post, FirstCall}
    BY <1>5, <2>2 DEF WillHear
  <2>3. ASSUME listener.kind # "none", user # NoUser, listener.called, listener.prev \notin {user, NoUser}
        PROVE  \E i, j \in DOMAIN queue' : i < j /\ queue'[i] = Post /\ queue'[j].kind = "callback"
    <3>1. PICK i, j \in DOMAIN queue : i < j /\ queue[i] = Post /\ queue[j].kind = "callback"
      BY <2>3 DEF WillHear
    <3> QED
      BY <1>5, <3>1
  <2> QED
    BY <1>5, <2>2, <2>3 DEF WillHear, Knows
<1>6. CASE BlockRuns
  <2>1. queue # <<>>
    BY <1>6, BlockMoves
  <2> QED
    BY <1>1, <1>3, <1>4, <1>6, <2>1, BlockSteps
<1>7. CASE KeychainLoaded
  <2>1. user = NoUser /\ listener' = listener /\ listener.prev = NoUser /\ user' = saved
    BY <1>7 DEF KeychainLoaded, SetUser, Unloaded
  <2>2. CASE saved # NoUser
    <3>1. queue' = Append(queue, Post)
      BY <1>7, <2>2 DEF KeychainLoaded
    <3>2. Len(queue) + 1 \in DOMAIN queue' /\ queue'[Len(queue) + 1] = Post
      BY <1>b, <3>1, QueueAppend, BlocksMade
    <3> QED
      BY <2>1, <3>2 DEF WillHear
  <2> QED
    BY <1>2, <2>1, <2>2
<1>8. CASE Elsewhere /\ ~KeychainLoaded
  BY <1>1, <1>2, <1>5, <1>8, <1>c, ElsewhereSteps
<1>9. ASSUME NEW n \in Slot, ReplyGranted(n)
      PROVE  WillHear'
  <2>1. /\ DOMAIN queue' = 1 .. Len(queue) + 2 /\ queue'[Len(queue) + 1] = Post
        /\ queue'[Len(queue) + 2].kind = "callback"
    BY <1>9, GrantedReply
  <2>2. Len(queue) + 1 \in DOMAIN queue' /\ Len(queue) + 2 \in DOMAIN queue' /\ Len(queue) + 1 < Len(queue) + 2
    BY <1>b, <2>1
  <2> QED
    BY <2>1, <2>2 DEF WillHear
<1>10. ASSUME NEW n \in Slot, ReplyFailed(n)
       PROVE  WillHear'
  <2>1. \A i \in DOMAIN queue : i \in DOMAIN queue' /\ queue'[i] = queue[i]
    BY <1>10, FailedReply
  <2> QED
    BY <1>5, <1>10, <2>1 DEF ReplyFailed, auth
<1>11. CASE Kill
  BY <1>1, <1>11, KillSteps
<1> QED
  BY <1>6, <1>7, <1>8, <1>9, <1>10, <1>11, ActKinds

(* Every step keeps what a contract listener knows on its screen. A reply  *)
(* that brings back the user it was told of last crosses the reply before  *)
(* it.                                                                     *)
LEMMA ContractHeardKept ==
  ASSUME Types, Types', ListenerFits, Unloaded, WillHear, NamesTyped, ContractHeard, Act
  PROVE  ContractHeard'
<1>a. /\ listener \in Listener /\ user \in MaybeUser /\ Heard(listener).kind = listener.kind
      /\ listener.kind # "none" => Heard(listener).called = TRUE /\ Heard(listener).prev = user
  BY HeardListener DEF Types
<1>b. Removed.kind = "none"
  BY ListenersMade
<1>1. ASSUME Arrives \/ listener'.kind \in {"none", "login"}
      PROVE  ContractHeard'
  BY <1>1 DEF ContractHeard, Arrives, Asks, Knows
<1>2. ASSUME listener' = listener, user' = user, own' = own, specialist' = specialist, told' = told,
             crossed => crossed'
      PROVE  ContractHeard'
  BY <1>2 DEF ContractHeard, Asks, Knows
<1>3. CASE HearContract
  <2>1. /\ own' = user /\ specialist' = [uid |-> user, displayName |-> DisplayName(user)] /\ told' = user
        /\ user # NoUser /\ user' = user /\ crossed' = crossed
    BY <1>3 DEF HearContract, ContractHears, Unheard, auth
  <2>2. specialist'.uid = user /\ specialist'.displayName = DisplayName(user)
    BY <2>1
  <2>3. ~crossed => DisplayName(user) \in {user, Placeholder}
    BY <1>a, <2>1 DEF NamesTyped, DisplayName, MaybeUser
  <2>4. /\ ~crossed' => /\ own' = user' /\ specialist'.uid = user' /\ told' = user'
                        /\ specialist'.displayName \in {user', Placeholder}
        /\ own' # NoUser
    BY <2>1, <2>2, <2>3
  <2> QED
    BY <2>4 DEF ContractHeard
<1>4. CASE HearAsk
  <2>1. UNCHANGED <<user, own, specialist, told, crossed>> /\ user = NoUser
    BY <1>4 DEF HearAsk, AskToSignOut, Unheard, auth
  <2>2. CASE listener' = Heard(listener) /\ listener.kind = "signOut"
    BY <1>a, <2>1, <2>2 DEF ContractHeard
  <2> QED
    BY <1>2, <1>4, <2>1, <2>2 DEF HearAsk
<1>5. CASE HearLogin
  <2>1. listener'.kind = "login" \/ Arrives
    BY <1>5, <1>a, BlockSteps DEF BlockRuns, Hearing, HearLogin
  <2> QED
    BY <1>1, <2>1
<1>6. CASE HearLate
  <2>1. /\ UNCHANGED <<user, own, listener, crossed>> /\ told' = user
        /\ specialist' = [specialist EXCEPT !.uid = user]
    BY <1>6 DEF HearLate, Unheard, auth
  <2>2. specialist'.uid = user /\ specialist'.displayName = specialist.displayName
    BY <2>1 DEF Types
  <2> QED
    BY <2>1, <2>2 DEF ContractHeard, Asks, Knows
<1>7. CASE HearNothing
  <2>1. UNCHANGED <<user, own, specialist, told, crossed>>
    BY <1>7 DEF HearNothing, Unheard, auth
  <2>2. CASE listener' = Heard(listener) /\ user = NoUser
    BY <1>1, <1>a, <2>1, <2>2 DEF ContractHeard, Asks
  <2>3. CASE listener' = Heard(listener) /\ Knows /\ listener.kind # "none"
    BY <1>a, <2>1, <2>3 DEF ContractHeard, Asks, Knows
  <2>4. CASE listener' = Heard(listener) /\ listener.kind = "none"
    BY <1>1, <1>a, <2>4
  <2> QED
    BY <1>2, <1>7, <2>1, <2>2, <2>3, <2>4 DEF HearNothing
<1>8. CASE SignedInLate \/ SignedInAccount \/ SignedInLogin \/ AccountCreated
            \/ CallbackFails("signIn", "login") \/ CallbackFails("create", "account")
  <2>1. UNCHANGED <<user, own, specialist, told, crossed>>
    BY <1>8 DEF SignedInLate, SignedInAccount, SignedInLogin, SignedInRest, AccountCreated,
       CallbackFails,
         auth, singletons, history
  <2>2. listener' = listener \/ listener' = Added("login") \/ listener' = Added("contract")
    BY <1>8 DEF SignedInLate, SignedInAccount, SignedInLogin, AccountCreated, CallbackFails,
         DismissLogin, LoginDismissed, AccountDismissed, AddListener, LoginAppears
  <2>3. CASE listener' = Added("login") \/ listener' = Added("contract")
    BY <2>3, ListenersMade DEF ContractHeard, Knows
  <2> QED
    BY <1>2, <2>1, <2>2, <2>3
<1>9. CASE KeychainLoaded
  <2>1. user = NoUser /\ listener' = listener /\ listener.prev = NoUser
    BY <1>9 DEF KeychainLoaded, Unloaded
  <2> QED
    BY <2>1 DEF ContractHeard, Knows
<1>10. CASE Elsewhere /\ ~KeychainLoaded
  <2>1. CASE listener' = listener /\ queue' = queue /\ user' = user
    <3>1. ASSUME WelcomeOkay \/ ConfirmSignOut PROVE FALSE
      <4>1. queue' = BackQueue(queue) \/ queue' = Append(queue, FirstCall)
        BY <3>1 DEF WelcomeOkay, ConfirmSignOut, LoginAppears, AddListener, BackQueue
      <4>2. DOMAIN queue' = 1 .. Len(queue) + 1 /\ DOMAIN queue = 1 .. Len(queue) /\ Len(queue) \in Nat
        BY <4>1, QueueBack, QueueAppend, BlocksMade, Domains DEF Types
      <4>3. Len(queue) + 1 \in 1 .. Len(queue) + 1 /\ Len(queue) + 1 \notin 1 .. Len(queue)
        BY <4>2
      <4> QED
        BY <2>1, <4>2, <4>3
    <3>2. own' = own /\ specialist' = specialist /\ told' = told
      BY <1>10, <3>1 DEF Elsewhere, NavDidAppear, ProfileChanged, Touch, loginAction,
         createAccountAction, Send,
         createAccountMismatch, DismissAlert, showCreateAccountVC, goBackAction, signOutAction,
         CancelSignOut, createContractAction, Push, Pop, singletons, history
    <3> QED
      BY <1>2, <1>10, <2>1, <3>2, ElsewhereSteps
  <2> QED
    BY <1>1, <1>10, <1>b, <2>1, ElsewhereSteps
<1>11. ASSUME NEW n \in Slot, ReplyGranted(n)
       PROVE  ContractHeard'
  <2>1. /\ user' # NoUser /\ UNCHANGED <<listener, own, specialist, told>>
        /\ crossed => crossed'
        /\ (\E j \in DOMAIN queue : queue[j].kind = "callback") => crossed'
    BY <1>11, ReplySteps
  <2>2. ASSUME ~crossed', Asks, listener.called, listener.prev = user', user # user'
        PROVE  FALSE
    <3>1. user # NoUser
      BY <2>1, <2>2 DEF Unloaded
    <3>2. listener.kind # "none" /\ listener.prev \notin {user, NoUser}
      BY <2>1, <2>2 DEF Asks
    <3> QED
      BY <2>1, <2>2, <3>1, <3>2 DEF WillHear
  <2>3. ASSUME ~crossed', Asks', Knows', user' # NoUser
        PROVE  /\ own' = user' /\ specialist'.uid = user' /\ told' = user'
               /\ specialist'.displayName \in {user', Placeholder}
    <3>1. Asks /\ listener.called /\ listener.prev = user' /\ ~crossed
      BY <2>1, <2>3 DEF Asks, Knows
    <3>2. user = user'
      BY <2>2, <2>3, <3>1
    <3> QED
      BY <2>1, <2>3, <3>1, <3>2 DEF ContractHeard, Knows
  <2> QED
    BY <2>1, <2>3 DEF ContractHeard, Asks
<1>12. ASSUME NEW n \in Slot, ReplyFailed(n)
       PROVE  ContractHeard'
  BY <1>2, <1>12 DEF ReplyFailed, auth, singletons
<1>13. CASE Kill
  BY <1>1, <1>13, KillSteps
<1> QED
  BY <1>3, <1>4, <1>5, <1>6, <1>7, <1>8, <1>9, <1>10, <1>11, <1>12, <1>13,
     ActKinds DEF BlockRuns, Hearing

(* A first call that is due stays due while its block does not run.        *)
LEMMA DueStays ==
  ASSUME Types, Types', FirstCallDue, user' # NoUser,
         \/ BlockRuns /\ Head(queue) # FirstCall /\ queue' = Tail(queue)
         \/ \A i \in DOMAIN queue : i \in DOMAIN queue' /\ queue'[i] = queue[i]
  PROVE  FirstCallDue'
<1>1. PICK i \in DOMAIN queue : queue[i] = FirstCall
  BY DEF FirstCallDue
<1>2. CASE BlockRuns /\ Head(queue) # FirstCall /\ queue' = Tail(queue)
  <2>1. queue # <<>> /\ i # 1
    BY <1>1, <1>2, BlockMoves
  <2>2. i - 1 \in DOMAIN queue' /\ queue'[i - 1] = queue[i]
    BY <1>2, <2>1, TailKeeps
  <2> QED
    BY <1>1, <2>2 DEF FirstCallDue
<1> QED
  BY <1>1, <1>2 DEF FirstCallDue

(* Every step keeps the contract screen's own uid the last one told, or a  *)
(* first call due that will make it so.                                    *)
LEMMA OwnIsToldKept ==
  ASSUME Types, Types', ListenerFits, FirstCalls, Waiting, Unloaded, ContractHeard, OwnIsTold, Act
  PROVE  OwnIsTold'
<1>a. listener \in Listener /\ user \in MaybeUser /\ queue \in Seq(Block)
  BY DEF Types
<1>1. ASSUME FirstCallDue'
      PROVE  OwnIsTold'
  BY <1>1 DEF OwnIsTold
<1>2. ASSUME screen' \in {"login", "account"}
      PROVE  OwnIsTold'
  BY <1>2 DEF OwnIsTold
<1>3. ASSUME own' = own, told' = told, crossed => crossed',
             screen' = screen \/ (screen' \in {"contract", "pushed"} /\ screen \in {"contract", "pushed"}),
             screen' = "appearing" => rootUID' = rootUID,
             FirstCallDue => FirstCallDue'
      PROVE  OwnIsTold'
  BY <1>3 DEF OwnIsTold
<1>4. CASE HearContract
  BY <1>4 DEF HearContract, ContractHears, OwnIsTold
<1>5. CASE user = NoUser /\ (HearAsk \/ HearNothing)
  <2>1. UNCHANGED <<own, told, crossed, screen, rootUID>> /\ ~FirstCallDue
    BY <1>5 DEF HearAsk, AskToSignOut, HearNothing, Unheard, FirstCallDue
  <2> QED
    BY <1>3, <2>1
<1>6. ASSUME user # NoUser, queue # <<>>, NEW l \in Listener, LoginDismissed(l, Tail(queue)), user' = user
      PROVE  OwnIsTold'
  <2>1. /\ DOMAIN queue' = 1 .. Len(queue) /\ queue'[Len(queue)] = FirstCall
    BY <1>6, LoginGoes
  <2>2. Len(queue) \in DOMAIN queue'
    BY <1>6, <1>a, <2>1, Domains
  <2> QED
    BY <1>1, <1>6, <2>1, <2>2 DEF FirstCallDue
<1>7. CASE HearLogin
  <2>1. user # NoUser /\ queue # <<>> /\ user' = user /\ screen = "login" /\ Heard(listener) \in Listener
    BY <1>7, <1>a, HeardListener DEF HearLogin, Unheard, auth, ListenerFits
  <2> QED
    BY <1>2, <1>6, <1>7, <2>1 DEF HearLogin, DismissLogin
<1>8. CASE SignedInLogin
  <2>1. queue # <<>> /\ user' = user /\ screen = "login" /\ ~Head(queue).request.gone
    BY <1>8 DEF SignedInLogin, Returns, SignedInRest, auth
  <2>2. 1 \in DOMAIN queue /\ Head(queue) = queue[1] /\ queue[1].kind = "callback" /\ queue[1].ok
    BY <1>8, <1>a, TailBlocks DEF SignedInLogin, Returns
  <2>3. user # NoUser
    BY <2>1, <2>2 DEF Waiting, QueueWaits, CallbackWaits
  <2> QED
    BY <1>2, <1>6, <1>8, <1>a, <2>1, <2>3 DEF SignedInLogin, DismissLogin
<1>9. CASE HearLate
  <2>1. /\ queue # <<>> /\ Head(queue).kind = "firstCallOf" /\ queue' = Tail(queue) /\ user # NoUser /\ user' = user
    BY <1>9 DEF HearLate, Late, Unheard, auth
  <2>2. 1 \in DOMAIN queue /\ Head(queue) = queue[1]
    BY <1>a, <2>1, TailBlocks
  <2>3. PICK j \in DOMAIN queue : 1 < j /\ queue[j] = FirstCall
    BY <2>1, <2>2 DEF FirstCalls
  <2>4. j - 1 \in DOMAIN queue' /\ queue'[j - 1] = FirstCall
    BY <2>1, <2>3, TailKeeps
  <2> QED
    BY <1>1, <2>1, <2>4 DEF FirstCallDue
<1>10. CASE user # NoUser /\ HearNothing
  <2>1. UNCHANGED <<own, told, crossed, screen, rootUID, user>> /\ queue' = Tail(queue)
    BY <1>10 DEF HearNothing, Unheard, Registered, Late, auth
  <2>2. CASE Head(queue) # FirstCall
    BY <1>3, <1>10, <2>1, <2>2, DueStays DEF BlockRuns, Hearing
  <2>3. CASE Head(queue) = FirstCall
    <3>1. queue # <<>> /\ Head(queue).kind # "firstCallOf"
      BY <1>10, <2>3, BlocksMade DEF HearNothing, Registered, Late
    <3>2. 1 \in DOMAIN queue /\ queue[1] = FirstCall
      BY <1>a, <2>3, <3>1, TailBlocks
    <3>3. listener.kind # "none"
      BY <3>2 DEF FirstCalls
    <3>4. Knows
      BY <1>10, <3>1, <3>3 DEF HearNothing, Late
    <3>5. CASE screen \in {"login", "account"}
      BY <1>2, <2>1, <3>5
    <3>6. CASE screen \notin {"login", "account"}
      <4>1. Asks
        BY <1>a, <3>3, <3>6 DEF Asks, Listener, ListenerFits
      <4>2. own # NoUser /\ (~crossed => own = told)
        BY <1>10, <3>4, <4>1 DEF ContractHeard, Knows
      <4> QED
        BY <2>1, <4>2 DEF OwnIsTold
    <3> QED
      BY <3>5, <3>6
  <2> QED
    BY <2>2, <2>3
<1>11. CASE SignedInLate \/ AccountCreated \/ CallbackFails("signIn", "login") \/ CallbackFails("create", "account")
  <2>1. UNCHANGED <<own, told, crossed, screen, rootUID, user>> /\ queue' = Tail(queue)
    BY <1>11 DEF SignedInLate, SignedInRest, AccountCreated, CallbackFails, auth, singletons,
       history
  <2>2. Head(queue) # FirstCall
    BY <1>11, BlocksMade DEF SignedInLate, AccountCreated, CallbackFails, Returns
  <2>3. FirstCallDue => FirstCallDue'
    BY <1>11, <2>1, <2>2, DueStays DEF BlockRuns, FirstCallDue
  <2> QED
    BY <1>3, <2>1, <2>3
<1>12. CASE SignedInAccount \/ goBackAction \/ WelcomeOkay \/ ConfirmSignOut \/ showCreateAccountVC
  BY <1>2, <1>12 DEF SignedInAccount, goBackAction, AccountDismissed, WelcomeOkay,
     ConfirmSignOut, LoginAppears,
         showCreateAccountVC
<1>13. CASE KeychainLoaded /\ user = NoUser
  <2>1. UNCHANGED <<own, told, crossed, screen, rootUID>> /\ ~FirstCallDue
    BY <1>13 DEF KeychainLoaded, FirstCallDue, singletons
  <2> QED
    BY <1>3, <2>1
<1>14. ASSUME NEW n \in Slot, ReplyGranted(n)
       PROVE  OwnIsTold'
  <2>1. \A i \in DOMAIN queue : i \in DOMAIN queue' /\ queue'[i] = queue[i]
    BY <1>14, GrantedReply
  <2>2. user' # NoUser /\ UNCHANGED <<own, told, screen, rootUID>> /\ (crossed => crossed')
    BY <1>14, ReplySteps
  <2>3. FirstCallDue => FirstCallDue'
    BY <2>1, <2>2, DueStays
  <2> QED
    BY <1>3, <2>2, <2>3
<1>15. ASSUME NEW n \in Slot, ReplyFailed(n)
       PROVE  OwnIsTold'
  <2>1. \A i \in DOMAIN queue : i \in DOMAIN queue' /\ queue'[i] = queue[i]
    BY <1>15, FailedReply
  <2>2. UNCHANGED <<user, own, told, screen, rootUID, crossed>>
    BY <1>15 DEF ReplyFailed, auth, singletons
  <2>3. FirstCallDue => FirstCallDue'
    BY <2>1, <2>2, DueStays DEF FirstCallDue
  <2> QED
    BY <1>3, <2>2, <2>3
<1>16. CASE NavDidAppear
  <2>1. CASE screen' = "login"
    BY <1>2, <2>1
  <2>2. CASE screen' = "contract" /\ rootUID # NoUser /\ queue' = queue
    <3>1. UNCHANGED <<user, own, told, rootUID, crossed>> /\ screen = "appearing"
      BY <1>16 DEF NavDidAppear, auth, singletons, history
    <3>2. FirstCallDue' <=> FirstCallDue
      BY <2>2, <3>1 DEF FirstCallDue
    <3> QED
      BY <2>2, <3>1, <3>2 DEF OwnIsTold
  <2> QED
    BY <1>16, <2>1, <2>2 DEF NavDidAppear, LoginAppears
<1>17. CASE Kill
  BY <1>17 DEF Kill, OwnIsTold
<1>18. CASE signOutAction
  <2>1. UNCHANGED <<own, told, crossed, screen, rootUID>> /\ Settled
    BY <1>18 DEF signOutAction, Touchable, singletons
  <2>2. ~FirstCallDue
    BY <2>1, BlocksMade DEF Settled, FirstCallDue
  <2> QED
    BY <1>3, <2>1, <2>2
<1>19. CASE createContractAction \/ Push \/ Pop
  <2>1. UNCHANGED <<own, told, crossed, user>> /\ screen \in {"contract", "pushed"} /\ screen' \in {"contract", "pushed"}
    BY <1>19 DEF createContractAction, Push, Pop, Touchable, auth, singletons, history
  <2>2. \A i \in DOMAIN queue : i \in DOMAIN queue' /\ queue'[i] = queue[i]
    <3>1. CASE queue' = queue
      BY <3>1
    <3>2. CASE queue' = Append(queue, FirstCall)
      BY <3>2, QueueAppend, BlocksMade
    <3> QED
      BY <1>19, <3>1, <3>2 DEF createContractAction, Push, Pop, AddListener
  <2>3. FirstCallDue => FirstCallDue'
    BY <2>1, <2>2, DueStays DEF FirstCallDue
  <2> QED
    BY <1>3, <2>1, <2>3
<1>20. CASE \/ \E u \in Users : loginAction(u) \/ createAccountAction(u)
            \/ createAccountMismatch \/ DismissAlert \/ CancelSignOut \/ \E c \in renames : ProfileChanged(c)
  <2>1. UNCHANGED <<own, told, crossed, user, screen, rootUID, queue>>
    BY <1>20 DEF loginAction, createAccountAction, Send, createAccountMismatch, DismissAlert,
       CancelSignOut,
         ProfileChanged, auth, singletons, history
  <2>2. FirstCallDue => FirstCallDue'
    BY <2>1 DEF FirstCallDue
  <2> QED
    BY <1>3, <2>1, <2>2
<1>21. KeychainLoaded => user = NoUser
  BY DEF KeychainLoaded, Unloaded
<1>22. HearAsk => user = NoUser
  BY DEF HearAsk
<1> QED
  BY <1>4, <1>5, <1>7, <1>8, <1>9, <1>10, <1>11, <1>12, <1>13, <1>14, <1>15, <1>16, <1>17,
     <1>18, <1>19, <1>20,
     <1>21, <1>22 DEF Act, Hearing, Outside, Touch

(* Every step keeps names to their users: the callback of a creation       *)
(* renames the current user, who is the one created unless replies         *)
(* crossed.                                                                *)
LEMMA NamesTypedKept ==
  ASSUME Types, Types', Unloaded, NamesTyped, Act
  PROVE  NamesTyped'
<1> DEFINE Theirs(q, u) == \A i \in DOMAIN q : q[i].kind = "callback" /\ q[i].ok => u \in {q[i].request.user, NoUser}
<1> SUFFICES ASSUME ~crossed'
             PROVE  /\ \A u \in Users : profile'[u] \in {u, NoUser}
                    /\ \A c \in renames' : c.name = c.user
                    /\ Theirs(queue', user')
  BY DEF NamesTyped
<1>a. ~crossed
  <2>1. BlockRuns \/ Elsewhere => crossed' = crossed
    BY BlockSteps, ElsewhereSteps
  <2>2. Kill => crossed' = crossed
    BY DEF Kill
  <2>3. ASSUME NEW n \in Slot, ReplyGranted(n)
        PROVE  crossed => crossed'
    BY <2>3, ReplySteps
  <2>4. ASSUME NEW n \in Slot, ReplyFailed(n)
        PROVE  crossed' = crossed
    BY <2>4 DEF ReplyFailed
  <2> QED
    BY <2>1, <2>2, <2>3, <2>4, ActKinds
<1>b. /\ \A u \in Users : profile[u] \in {u, NoUser}
      /\ \A c \in renames : c.name = c.user
      /\ Theirs(queue, user)
  BY <1>a DEF NamesTyped
<1>1. ASSUME NEW d \in {0, 1}, Moves(d), user' = user \/ user' = NoUser \/ \A i \in DOMAIN queue : queue[i].kind # "callback"
      PROVE  Theirs(queue', user')
  <2> SUFFICES ASSUME NEW i \in DOMAIN queue', queue'[i].kind = "callback", queue'[i].ok
               PROVE  user' \in {queue'[i].request.user, NoUser}
    OBVIOUS
  <2>1. PICK j \in DOMAIN queue : queue[j].kind = "callback" /\ Kept(queue[j], queue'[i])
    BY <1>1, CallbacksAreOld
  <2>2. queue[j].ok /\ queue'[i].request.user = queue[j].request.user
    BY <2>1 DEF Kept
  <2>3. user \in {queue[j].request.user, NoUser}
    BY <1>b, <2>1, <2>2
  <2> QED
    BY <1>1, <2>1, <2>2, <2>3
<1>2. CASE AccountCreated
  <2>1. /\ profile' = profile /\ user' = user /\ Moves(1)
        /\ \/ renames' = renames
           \/ /\ user # NoUser
              /\ renames' = renames \cup {[user |-> user, name |-> Head(queue).request.user]}
    BY <1>2, BlockMoves, BlockSteps DEF BlockRuns, AccountCreated
  <2>2. 1 \in DOMAIN queue /\ Head(queue) = queue[1] /\ queue[1].kind = "callback" /\ queue[1].ok
    BY <1>2, QueueTail DEF AccountCreated, Returns
  <2>3. user \in {Head(queue).request.user, NoUser}
    BY <1>b, <2>2
  <2> QED
    BY <1>1, <1>b, <2>1, <2>3
<1>3. CASE BlockRuns /\ ~AccountCreated
  <2>1. profile' = profile /\ user' = user /\ Moves(1)
    BY <1>3, BlockMoves, BlockSteps
  <2>2. renames' = renames
    BY <1>3 DEF BlockRuns, Hearing, HearContract, HearAsk, HearLogin, HearLate, HearNothing,
       Unheard,
         SignedInLate, SignedInAccount, SignedInLogin, SignedInRest, CallbackFails, service
  <2> QED
    BY <1>1, <1>b, <2>1, <2>2
<1>4. ASSUME NEW c \in renames, ProfileChanged(c)
      PROVE  /\ \A u \in Users : profile'[u] \in {u, NoUser}
             /\ \A e \in renames' : e.name = e.user
             /\ Theirs(queue', user')
  <2>1. /\ profile' = profile \/ profile' = [profile EXCEPT ![c.user] = c.name]
        /\ renames' \subseteq renames /\ user' = user
    BY <1>4 DEF ProfileChanged, auth
  <2>2. Moves(0)
    BY <1>4, ElsewhereMoves DEF Elsewhere
  <2>3. \A u \in Users : profile'[u] = profile[u] \/ (u = c.user /\ profile'[u] = c.name)
    BY <2>1 DEF Types
  <2> QED
    BY <1>1, <1>b, <2>1, <2>2, <2>3
<1>5. CASE Elsewhere /\ ~(\E c \in renames : ProfileChanged(c))
  <2>1. profile' = profile /\ renames' = renames
    BY <1>5 DEF Elsewhere, KeychainLoaded, NavDidAppear, Touch, loginAction,
       createAccountAction, Send,
         createAccountMismatch, DismissAlert, showCreateAccountVC, goBackAction, WelcomeOkay,
            signOutAction,
         CancelSignOut, ConfirmSignOut, createContractAction, Push, Pop, service
  <2>2. Moves(0)
    BY <1>5, ElsewhereMoves
  <2>3. user' = user \/ user' = NoUser \/ \A i \in DOMAIN queue : queue[i].kind # "callback"
    BY <1>5, ElsewhereSteps DEF KeychainLoaded, Unloaded
  <2> QED
    BY <1>1, <1>b, <2>1, <2>2, <2>3
<1>6. ASSUME NEW n \in Slot, ReplyGranted(n)
      PROVE  /\ \A u \in Users : profile'[u] \in {u, NoUser}
             /\ \A c \in renames' : c.name = c.user
             /\ Theirs(queue', user')
  <2>1. /\ user' = requests[n].user /\ profile' = profile /\ renames' = renames
        /\ \A j \in DOMAIN queue : queue[j].kind # "callback"
    BY <1>6, ReplySteps
  <2>2. /\ \A i \in DOMAIN queue : queue'[i] = queue[i]
        /\ queue'[Len(queue) + 2].request = requests[n]
        /\ \A i \in DOMAIN queue' : queue'[i].kind = "callback" => i \in DOMAIN queue \/ i = Len(queue) + 2
    BY <1>6, GrantedReply
  <2>3. Theirs(queue', user')
    BY <2>1, <2>2
  <2> QED
    BY <1>b, <2>1, <2>3
<1>7. ASSUME NEW n \in Slot, ReplyFailed(n)
      PROVE  /\ \A u \in Users : profile'[u] \in {u, NoUser}
             /\ \A c \in renames' : c.name = c.user
             /\ Theirs(queue', user')
  <2>1. user' = user /\ profile' = profile /\ renames' = renames
    BY <1>7 DEF ReplyFailed, auth
  <2>2. /\ Len(queue) \in Nat /\ DOMAIN queue = 1 .. Len(queue) /\ DOMAIN queue' = 1 .. Len(queue) + 1
        /\ ~queue'[Len(queue) + 1].ok
        /\ \A i \in 1 .. Len(queue) : queue'[i] = queue[i]
    BY <1>7, FailedReply
  <2>3. \A i \in DOMAIN queue' : i \in DOMAIN queue \/ i = Len(queue) + 1
    BY <2>2
  <2>4. Theirs(queue', user')
    BY <1>b, <2>1, <2>2, <2>3
  <2> QED
    BY <1>b, <2>1, <2>4
<1>8. CASE Kill
  <2>1. profile' = profile /\ renames' = {} /\ \A i \in DOMAIN queue' : queue'[i].kind = "firstCall"
    BY <1>8, KillSteps DEF Kill
  <2> QED
    BY <1>b, <2>1
<1> QED
  BY <1>2, <1>3, <1>4, <1>5, <1>6, <1>7, <1>8, ActKinds

(* The invariant holds at launch.                                          *)
LEMMA Start ==
  ASSUME Init
  PROVE  IInv
<1>a. /\ queue = <<FirstCall>> /\ FirstCall \in Block /\ FirstCall.kind = "firstCall"
      /\ listener = Added("contract") /\ alert = NoAlert
  BY BlocksMade DEF Init
<1>b. /\ queue \in Seq(Block) /\ DOMAIN queue = {1} /\ queue[1] = FirstCall
  BY <1>a
<1>c. /\ listener \in Listener /\ listener.kind = "contract" /\ ~listener.called /\ listener.prev = NoUser
      /\ alert \in AlertType /\ alert.kind = "none"
  BY <1>a, ListenersMade, AlertsMade
<1>1. Types
  <2>1. specialist \in [uid : MaybeUser, displayName : MaybeUser \cup {Placeholder}]
    BY DEF Init, Nobody, MaybeUser
  <2>2. requests \in [Slot -> Request] /\ profile \in [Users -> MaybeUser] /\ made \in Seq(MaybeUser)
    BY DEF Init, Request, MaybeUser
  <2>3. events \in 0 .. MaxEvents
    BY SessionAssumption DEF Init
  <2>4. /\ accounts \in SUBSET Users /\ records \in SUBSET Users /\ cut \in SUBSET Users
        /\ renames \in SUBSET [user : Users, name : Users]
        /\ user \in MaybeUser /\ saved \in MaybeUser /\ own \in MaybeUser /\ rootUID \in MaybeUser
        /\ progress \in MaybeUser /\ told \in MaybeUser
    BY DEF Init, MaybeUser
  <2>5. /\ loaded \in BOOLEAN /\ busy \in BOOLEAN /\ crossed \in BOOLEAN /\ stuck \in BOOLEAN
        /\ screen \in Screens
    BY DEF Init, Screens
  <2> QED
    BY <1>b, <1>c, <2>1, <2>2, <2>3, <2>4, <2>5 DEF Types
<1>2. ListenerFits /\ FirstCalls /\ LateKinds
  BY <1>a, <1>b, <1>c DEF Init, ListenerFits, FirstCalls, LateKinds
<1>3. AccountsKnown /\ AccountsAreRecorded
  BY <1>a, <1>b, <1>c DEF Init, AccountsKnown, AccountsAreRecorded
<1>4. Waiting
  <2>1. \A i \in Slot : requests[i].kind = "none"
    BY DEF Init, NoRequest
  <2> QED
    BY <1>a, <1>b, <1>c, <2>1 DEF Waiting, RequestsWait, QueueWaits, CallbackWaits, AlertFits,
       WaitsOn
<1>5. Unloaded
  BY <1>a, <1>b, <1>c DEF Init, Unloaded
<1>6. Blank /\ WillHear /\ LoginHeard /\ ContractHeard /\ OwnIsTold
  BY <1>c DEF Init, Blank, WillHear, LoginHeard, ContractHeard, Knows, OwnIsTold
<1>7. NamesTyped
  BY <1>a, <1>b DEF Init, NamesTyped
<1> QED
  BY <1>1, <1>2, <1>3, <1>4, <1>5, <1>6, <1>7 DEF IInv

(* Every step keeps the invariant.                                         *)
LEMMA Step ==
  ASSUME IInv, Next
  PROVE  IInv'
<1>1. /\ Types /\ ListenerFits /\ FirstCalls /\ LateKinds /\ AccountsKnown /\ AccountsAreRecorded /\ Waiting
      /\ Unloaded /\ Blank /\ WillHear /\ LoginHeard /\ ContractHeard /\ OwnIsTold /\ NamesTyped
  BY DEF IInv
<1>2. Act /\ busy' \in BOOLEAN
  BY <1>1, ActCases
<1>3. Types'
  BY <1>1, <1>2, TypesKept
<1>4. ListenerFits'
  BY <1>1, <1>2, <1>3, ListenerFitsKept
<1>5. FirstCalls'
  BY <1>1, <1>2, <1>3, FirstCallsKept
<1>6. LateKinds'
  BY <1>1, <1>2, <1>3, LateKindsKept
<1>7. AccountsKnown' /\ AccountsAreRecorded'
  BY <1>1, <1>2, <1>3, AccountsKnownKept, AccountsAreRecordedKept
<1>8. Waiting' /\ Unloaded' /\ Blank'
  BY <1>1, <1>2, <1>3, WaitingKept, UnloadedKept, BlankKept
<1>9. WillHear' /\ LoginHeard' /\ ContractHeard'
  BY <1>1, <1>2, <1>3, WillHearKept, LoginHeardKept, ContractHeardKept
<1>10. OwnIsTold' /\ NamesTyped'
  BY <1>1, <1>2, <1>3, OwnIsToldKept, NamesTypedKept
<1> QED
  BY <1>3, <1>4, <1>5, <1>6, <1>7, <1>8, <1>9, <1>10 DEF IInv

(* So does a step that changes nothing.                                    *)
LEMMA Stutter ==
  ASSUME IInv, UNCHANGED vars
  PROVE  IInv'
<1>1. UNCHANGED <<accounts, profile, records, requests, renames, user, saved, loaded, queue, busy, listener,
                  screen, alert, own, rootUID, specialist, progress, made, told, cut, crossed,
                     stuck, events>>
  BY DEF vars, service, auth, singletons, history
<1>2. Types'
  BY <1>1 DEF IInv, Types
<1>3. ListenerFits' /\ FirstCalls' /\ LateKinds' /\ AccountsKnown'
  BY <1>1 DEF IInv, ListenerFits, FirstCalls, LateKinds, AccountsKnown
<1>4. AccountsAreRecorded'
  BY <1>1 DEF IInv, AccountsAreRecorded, Welcoming
<1>5. Waiting'
  BY <1>1 DEF IInv, Waiting
<1>6. Unloaded' /\ Blank' /\ WillHear' /\ LoginHeard'
  BY <1>1 DEF IInv, Unloaded, Blank, WillHear, LoginHeard, Knows
<1>7. ContractHeard' /\ OwnIsTold' /\ NamesTyped'
  BY <1>1 DEF IInv, ContractHeard, OwnIsTold, FirstCallDue, NamesTyped, Knows, Asks
<1> QED
  BY <1>2, <1>3, <1>4, <1>5, <1>6, <1>7 DEF IInv

(* The inductive invariant holds always.                                   *)
LEMMA Invariance == Spec => []IInv
<1>1. Init => IInv
  BY Start
<1>2. IInv /\ [Next]_vars => IInv'
  BY Step, Stutter
<1> QED
  BY <1>1, <1>2, PTL DEF Spec

-----------------------------------------------------------------------------
(* The theorems.                                                           *)

(* The session is type correct: a listener is registered exactly while a   *)
(* screen that has one is in front, and one first call at most is its own  *)
(* (viewWillAppear, viewWillDisappear).                                    *)
THEOREM SessionTypeCorrect == Spec => []SessionTypeOK
<1>1. IInv => SessionTypeOK
  <2> SUFFICES ASSUME IInv PROVE SessionTypeOK
    OBVIOUS
  <2>1. Types /\ ListenerFits /\ FirstCalls /\ AccountsKnown
    BY DEF IInv
  <2>2. Cardinality({i \in DOMAIN queue : queue[i] = FirstCall}) <= 1
    <3> DEFINE S == {i \in DOMAIN queue : queue[i] = FirstCall}
    <3>1. \A i, j \in S : i = j
      BY <2>1 DEF FirstCalls
    <3> HIDE DEF S
    <3>2. CASE S = {}
      BY <3>2, FS_EmptySet DEF S
    <3>3. CASE S # {}
      <4>1. PICK x \in S : TRUE
        BY <3>3
      <4>2. S = {x}
        BY <3>1, <4>1
      <4> QED
        BY <4>2, FS_Singleton DEF S
    <3> QED
      BY <3>2, <3>3
  <2>3. alert.kind \in AlertKinds
    BY <2>1 DEF Types, AlertType
  <2> QED
    BY <2>1, <2>2, <2>3 DEF SessionTypeOK, Types, ListenerFits, AccountsKnown, AlertKinds, Screens
<1> QED
  BY <1>1, Invariance, PTL

(* An account without a specialist record waits for its callback or its    *)
(* welcome alert, or its creation was cut short (CreateAccountVC 43-78).   *)
THEOREM AccountsAlwaysRecorded == Spec => []AccountsAreRecorded
<1>1. IInv => AccountsAreRecorded
  BY DEF IInv
<1> QED
  BY <1>1, Invariance, PTL

(* Behind the login screen a signed-out app keeps nothing of the last      *)
(* specialist (CreateContractVC 132-188).                                  *)
THEOREM AlwaysBlankSignedOut == Spec => []SignedOutIsBlank
<1>1. IInv => SignedOutIsBlank
  BY DEF IInv, Blank, SignedOutIsBlank
<1> QED
  BY <1>1, Invariance, PTL

(* Once the main queue has run, the contract screen and the singleton name *)
(* the current user unless replies crossed, and the login screen is in     *)
(* front of a user only if an alert was in the way of its dismissal        *)
(* (CreateContractVC 50-59, LoginVC 45, 57-67).                            *)
THEOREM QuietSessionsAgree == Spec => []QuietSessionAgrees
<1>1. IInv => QuietSessionAgrees
  <2> SUFFICES ASSUME IInv, queue = <<>>, user # NoUser
               PROVE  /\ screen = "contract" => (own = user /\ specialist.uid = user) \/ crossed
                      /\ screen = "login" => stuck
    BY DEF QuietSessionAgrees
  <2>1. ListenerFits /\ WillHear /\ LoginHeard /\ ContractHeard /\ listener \in Listener
    BY DEF IInv, Types
  <2>2. listener.kind # "none" => Knows
    BY <2>1 DEF WillHear
  <2>3. screen = "contract" => Asks /\ Knows
    BY <2>1, <2>2 DEF ListenerFits, Asks, Listener
  <2>4. screen = "login" => listener.kind = "login" /\ Knows
    BY <2>1, <2>2 DEF ListenerFits
  <2> QED
    BY <2>1, <2>3, <2>4 DEF ContractHeard, LoginHeard, Knows
<1> QED
  BY <1>1, Invariance, PTL

(* Unless replies crossed nobody gets another's name, in the profile or on *)
(* the contract screen (CreateAccountVC 53-57, CreateContractVC 54-56).    *)
THEOREM NamesAlwaysTheirOwn == Spec => []NamesAreTheirOwn
<1>1. IInv => NamesAreTheirOwn
  <2> SUFFICES ASSUME IInv, ~crossed
               PROVE  /\ \A u \in Users : profile[u] \in {u, NoUser}
                      /\ queue = <<>> /\ screen = "contract" /\ user # NoUser =>
                           specialist.displayName \in {user, Placeholder}
    BY DEF NamesAreTheirOwn
  <2>1. ListenerFits /\ WillHear /\ ContractHeard /\ NamesTyped /\ listener \in Listener
    BY DEF IInv, Types
  <2>2. queue = <<>> /\ user # NoUser /\ screen = "contract" => Asks /\ Knows
    BY <2>1 DEF WillHear, ListenerFits, Asks, Listener
  <2> QED
    BY <2>1, <2>2 DEF ContractHeard, NamesTyped
<1> QED
  BY <1>1, Invariance, PTL

(* A contract names the specialist the app was told of last, unless        *)
(* replies crossed (CreateContractVC 245, 330, 385, 413).                  *)
THEOREM ContractsAlwaysNameTheSpecialist == Spec => ContractsNameTheSpecialist
<1>1. ASSUME IInv, [Next]_vars, made' # made
      PROVE  own # NoUser /\ (own = told \/ crossed)
  <2>1. Types /\ OwnIsTold
    BY <1>1 DEF IInv
  <2>2. Act
    BY <1>1, <2>1, ActCases DEF vars, singletons
  <2>3. createContractAction
    <3>1. BlockRuns => made' = made
      BY DEF BlockRuns, Hearing, HearContract, HearAsk, HearLogin, HearLate, HearNothing, Unheard,
         SignedInLate, SignedInAccount, SignedInLogin, SignedInRest, AccountCreated,
            CallbackFails, singletons
    <3>2. Elsewhere => made' = made \/ createContractAction
      BY DEF Elsewhere, KeychainLoaded, NavDidAppear, ProfileChanged, Touch, loginAction,
         createAccountAction, Send,
         createAccountMismatch, DismissAlert, showCreateAccountVC, goBackAction, WelcomeOkay,
            signOutAction,
         CancelSignOut, ConfirmSignOut, createContractAction, Push, Pop, singletons
    <3>3. Kill => made' = made
      BY DEF Kill
    <3>4. ASSUME NEW n \in Slot, ReplyGranted(n) \/ ReplyFailed(n)
          PROVE  made' = made
      BY <3>4 DEF ReplyGranted, ReplyFailed, singletons
    <3> QED
      BY <1>1, <2>2, <3>1, <3>2, <3>3, <3>4, ActKinds
  <2>4. screen = "contract" /\ Settled
    BY <2>3 DEF createContractAction, Touchable
  <2>5. ~FirstCallDue
    BY <2>4, BlocksMade DEF Settled, FirstCallDue
  <2> QED
    BY <2>1, <2>4, <2>5 DEF OwnIsTold
<1>2. IInv /\ [Next]_vars => [made' # made => own # NoUser /\ (own = told \/ crossed)]_vars
  BY <1>1
<1> QED
  BY <1>2, Invariance, PTL DEF Spec, ContractsNameTheSpecialist
=============================================================================
