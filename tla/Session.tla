------------------------------ MODULE Session ------------------------------
(***************************************************************************)
(* Who is signed in, and who the screens think is: FIRAuth with its        *)
(* listeners, LoginVC, CreateAccountVC, SpecialistNavVC and the session    *)
(* half of CreateContractVC.                                               *)
(*                                                                         *)
(* The main queue is explicit. FIRAuth puts a notification on it when the  *)
(* user changes, a callback after that, and the first call of a listener   *)
(* when the listener is added; each reads the user when it runs. Replies   *)
(* of the server come at any time and in any order.                        *)
(*                                                                         *)
(* A touch may come before blocks that are queued already. Two may not:    *)
(* the run loop drains the main queue after each event (busy). And while a *)
(* screen comes in UIKit ignores touches; the first call of the listener   *)
(* it adds was queued before that (Settled).                               *)
(***************************************************************************)
EXTENDS Integers, Sequences, FiniteSets

CONSTANTS Users,        \* the uids of accounts, existing or to be created
          NoUser,       \* nil, and the empty string of a uid
          Placeholder,  \* "Specialist: "
          MaxEvents,    \* bound: requests sent, and times the process is ended
          MaxContracts  \* bound: contracts made

ASSUME SessionAssumption ==
  /\ NoUser \notin Users /\ Placeholder \notin Users /\ NoUser # Placeholder
  /\ MaxEvents \in Nat /\ MaxContracts \in Nat

VARIABLES
  \* The service, external to the app.
  accounts,     \* users that exist
  profile,      \* the name each profile carries, as the user it is the name of
  records,      \* users with an object under "specialists"
  requests,     \* what is on the way, by the order it was sent in
  renames,      \* profile changes on the way
  \* FIRAuth.
  user,         \* _currentUser
  saved,        \* the user in the keychain
  loaded,       \* the keychain was read since launch
  queue,        \* the main queue
  busy,         \* a touch was handled since the main queue was last drained
  listener,     \* the one registered listener
  \* The screens.
  screen, alert,
  own,          \* CreateContractVC.currentUserUID
  rootUID,      \* SpecialistNavVC.currentUserUID
  specialist,   \* SpecialistSingleton
  progress,     \* whose contract the other singletons hold
  made,         \* the specialist of each contract made
  \* History.
  told,         \* the last user a listener was called with
  cut,          \* users whose creation was cut short
  crossed,      \* a reply arrived before the callback of another had run
  stuck,        \* an alert was in the way when the login screen was dismissed
  events        \* what MaxEvents bounds

service == <<accounts, profile, records, requests, renames>>
auth == <<user, saved, loaded>>
singletons == <<own, rootUID, specialist, progress, made>>
history == <<told, cut, crossed, stuck, events>>
vars == <<service, auth, queue, busy, listener, screen, alert, singletons, history>>

MaybeUser == Users \cup {NoUser}
Slot == 1..MaxEvents

\* addAuthStateDidChangeListener's block: which screen's listener it calls,
\* firstInvocation (negated) and previousUserID.
Listener == [kind : {"none", "contract", "signOut", "login"}, called : BOOLEAN,
             prev : MaybeUser]
Added(k) == [kind |-> k, called |-> FALSE, prev |-> NoUser]
Removed == Added("none")

NoRequest == [kind |-> "none", user |-> NoUser, gone |-> FALSE]
Request == [kind : {"signIn", "create"}, user : Users, gone : BOOLEAN] \cup {NoRequest}

\* The blocks of the main queue. A first call belongs to the registered
\* listener until that is removed; then it goes on by itself.
Post == [kind |-> "post"]
FirstCall == [kind |-> "firstCall"]
FirstCallOf(l) == [kind |-> "firstCallOf", of |-> l]
Callback(r, ok) == [kind |-> "callback", request |-> r, ok |-> ok]

Alert(k, u) == [kind |-> k, user |-> u]
NoAlert == Alert("none", NoUser)

Nobody == [uid |-> NoUser, displayName |-> NoUser]

DisplayName(u) == IF profile[u] = NoUser THEN Placeholder ELSE profile[u]

Settled == \A i \in DOMAIN queue : queue[i].kind \notin {"firstCall", "firstCallOf"}
Touchable(s) == screen = s /\ alert = NoAlert /\ Settled

-----------------------------------------------------------------------------
(* Screens come and go. Every one of these takes the queue as it is left   *)
(* by the block that runs.                                                 *)

\* A mutant of AddListener: the listener waits for the next change.
AddListenerQuietly(k, q) ==
  /\ listener' = Added(k)
  /\ queue' = q

\* addAuthStateDidChangeListener.
AddListener(k, q) ==
  /\ listener' = Added(k)
  /\ queue' = Append(q, FirstCall)

\* removeAuthStateDidChangeListener, on a listener with the memory l.
Detached(l, q) ==
  [i \in DOMAIN q |-> IF q[i] = FirstCall THEN FirstCallOf(l) ELSE q[i]]

\* The controller that made requests of kind k is gone.
Gone(k, r) == IF r.kind = k THEN [r EXCEPT !.gone = TRUE] ELSE r
GoneInQueue(k, q) ==
  [i \in DOMAIN q |-> IF q[i].kind = "callback"
                        THEN [q[i] EXCEPT !.request = Gone(k, @)] ELSE q[i]]
RequestsGone(k) == requests' = [i \in Slot |-> Gone(k, requests[i])]

\* LoginVC comes in, over CreateContractVC or from under CreateAccountVC.
LoginAppears(q) ==
  /\ screen' = "login"
  /\ AddListener("login", q)

\* CreateAccountVC goes: the alert it shows goes with it.
AccountDismissed(q) ==
  /\ LoginAppears(GoneInQueue("create", q))
  /\ RequestsGone("create")
  /\ alert' = NoAlert
  /\ cut' = cut \cup {u \in Users : alert = Alert("welcome", u)}

\* LoginVC goes and the contract screen comes back.
LoginDismissed(l, q) ==
  /\ screen' = "appearing"
  /\ AddListener("contract", Detached(l, GoneInQueue("signIn", q)))
  /\ RequestsGone("signIn")
  /\ UNCHANGED <<alert, stuck>>

\* dismiss on LoginVC: what it presents goes first. While an alert leaves,
\* another dismiss may or may not take the screen itself.
DismissLogin(l, q) ==
  \/ /\ alert = NoAlert
     /\ LoginDismissed(l, q)
  \/ /\ alert.kind = "leaving"
     /\ LoginDismissed(l, q)
  \/ /\ alert # NoAlert
     /\ alert' = Alert("leaving", NoUser)
     /\ stuck' = TRUE
     /\ listener' = l
     /\ queue' = q
     /\ UNCHANGED <<screen, requests>>

-----------------------------------------------------------------------------
(* The blocks of the main queue.                                           *)

Heard(l) == IF l.kind = "none" THEN l ELSE [l EXCEPT !.called = TRUE, !.prev = user]

\* A mutant of ContractHears: a name that is there already is kept.
ContractHearsKeepsName ==
  /\ own' = user
  /\ specialist' = [uid |-> user,
                    displayName |-> IF specialist.displayName = NoUser
                                      THEN DisplayName(user) ELSE specialist.displayName]
  /\ UNCHANGED <<rootUID, screen, alert, requests, stuck>>

\* CreateContractVC's listeners, with a user.
ContractHears ==
  /\ own' = user
  /\ specialist' = [uid |-> user, displayName |-> DisplayName(user)]
  /\ UNCHANGED <<rootUID, screen, alert, requests, stuck>>

\* The listener signOutAction adds, without one.
AskToSignOut ==
  /\ alert' = IF alert = NoAlert THEN Alert("verify", NoUser) ELSE alert
  /\ UNCHANGED <<own, rootUID, specialist, screen, requests, stuck>>

\* A listener is called: a registered one, or one that was removed before its
\* first call.
Call(l, registered, q) ==
  LET again == l.called /\ l.prev = user
      stays == listener' = (IF registered THEN Heard(l) ELSE listener) /\ queue' = q
  IN  /\ told' = IF again \/ user = NoUser \/ l.kind = "none" THEN told ELSE user
      /\ \/ /\ ~again /\ user # NoUser /\ l.kind \in {"contract", "signOut"}
            /\ ContractHears /\ stays
         \/ /\ ~again /\ user = NoUser /\ l.kind = "signOut"
            /\ AskToSignOut /\ stays
         \/ /\ ~again /\ user # NoUser /\ l.kind = "login"
            /\ rootUID' = user
            /\ specialist' = [specialist EXCEPT !.uid = user]
            /\ UNCHANGED own
            /\ IF registered THEN DismissLogin(Heard(l), q)
                             ELSE stays /\ UNCHANGED <<screen, alert, requests, stuck>>
         \/ /\ again \/ (user = NoUser /\ l.kind # "signOut") \/ l.kind = "none"
            /\ stays
            /\ UNCHANGED <<own, rootUID, specialist, screen, alert, requests, stuck>>

Unheard == <<accounts, profile, records, renames, auth, progress, made,
             cut, crossed, events>>

\* The notification of possiblyPostAuthStateChangeNotification.
RunPost ==
  /\ queue # <<>> /\ Head(queue) = Post
  /\ Call(listener, TRUE, Tail(queue))
  /\ UNCHANGED Unheard

RunFirstCall ==
  /\ queue # <<>>
  /\ \/ Head(queue) = FirstCall /\ Call(listener, TRUE, Tail(queue))
     \/ Head(queue).kind = "firstCallOf" /\ Call(Head(queue).of, FALSE, Tail(queue))
  /\ UNCHANGED Unheard

\* A callback is at the head of the queue, of a request of kind k.
Returns(k, ok) ==
  /\ queue # <<>>
  /\ Head(queue).kind = "callback"
  /\ Head(queue).request.kind = k /\ Head(queue).ok = ok

\* loginAction's block, signed in.
SignedIn ==
  /\ Returns("signIn", TRUE)
  /\ IF Head(queue).request.gone
       THEN queue' = Tail(queue) /\ UNCHANGED <<listener, screen, alert, requests, stuck, cut>>
       ELSE \/ screen = "account" /\ AccountDismissed(Tail(queue)) /\ UNCHANGED stuck
            \/ screen = "login" /\ DismissLogin(listener, Tail(queue)) /\ UNCHANGED cut
  /\ UNCHANGED <<accounts, profile, records, renames, auth, singletons, told,
                 crossed, events>>

\* An error: an alert, unless its screen is gone or presents something else.
CallbackFails(k, s) ==
  /\ Returns(k, FALSE)
  /\ alert' = IF ~Head(queue).request.gone /\ screen = s /\ alert = NoAlert
                THEN Alert("oops", NoUser) ELSE alert
  /\ queue' = Tail(queue)
  /\ UNCHANGED <<service, auth, listener, screen, singletons, history>>

\* createAccountAction's block, with an account: the profile of the current
\* user is changed, and the alert is shown that will write the record.
AccountCreated ==
  /\ Returns("create", TRUE)
  /\ LET r == Head(queue).request
         shown == ~r.gone /\ screen = "account" /\ alert = NoAlert
     IN  /\ renames' = IF user = NoUser THEN renames
                       ELSE renames \cup {[user |-> user, name |-> r.user]}
         /\ alert' = IF shown THEN Alert("welcome", r.user) ELSE alert
         /\ cut' = IF shown THEN cut ELSE cut \cup {r.user}
  /\ queue' = Tail(queue)
  /\ UNCHANGED <<accounts, profile, records, requests, auth, listener, screen,
                 singletons, told, crossed, stuck, events>>

-----------------------------------------------------------------------------
(* FIRAuth and the service.                                                *)

\* updateCurrentUser, with the notification it posts.
SetUser(u) ==
  /\ user' = u
  /\ saved' = u

\* The user of the keychain, read on the work queue before anything else there.
KeychainLoaded ==
  /\ ~loaded
  /\ loaded' = TRUE
  /\ SetUser(saved)
  /\ queue' = IF saved = NoUser THEN queue ELSE Append(queue, Post)
  /\ UNCHANGED <<service, listener, screen, alert, singletons, told, cut, crossed, stuck,
                 events>>

Granted(r) == IF r.kind = "signIn" THEN r.user \in accounts
                                   ELSE r.kind = "create" /\ r.user \notin accounts

\* signInFlowAuthDataResultCallbackByDecoratingCallback, with a user.
ReplyGranted(i) ==
  /\ loaded /\ Granted(requests[i])
  /\ accounts' = accounts \cup {requests[i].user}
  /\ SetUser(requests[i].user)
  /\ queue' = queue \o <<Post, Callback(requests[i], TRUE)>>
  /\ requests' = [requests EXCEPT ![i] = NoRequest]
  /\ crossed' = (crossed \/ \E j \in DOMAIN queue : queue[j].kind = "callback")
  /\ UNCHANGED <<profile, records, renames, loaded, listener, screen, alert, singletons,
                 told, cut, stuck, events>>

\* With an error: refused, or an answer that got lost after the service acted.
ReplyFailed(i) ==
  /\ loaded /\ requests[i] # NoRequest
  /\ \/ UNCHANGED <<accounts, cut>>
     \/ /\ requests[i].kind = "create" /\ Granted(requests[i])
        /\ accounts' = accounts \cup {requests[i].user}
        /\ cut' = cut \cup {requests[i].user}
  /\ queue' = Append(queue, Callback(requests[i], FALSE))
  /\ requests' = [requests EXCEPT ![i] = NoRequest]
  /\ UNCHANGED <<profile, records, renames, auth, listener, screen, alert, singletons,
                 told, crossed, stuck, events>>

\* commitChanges ends; nobody is told.
ProfileChanged(c) ==
  /\ renames' = renames \ {c}
  /\ \/ profile' = [profile EXCEPT ![c.user] = c.name]
     \/ UNCHANGED profile
  /\ UNCHANGED <<accounts, records, requests, auth, queue, listener, screen, alert,
                 singletons, history>>

-----------------------------------------------------------------------------
(* The specialist.                                                         *)

Send(k, u) ==
  /\ events < MaxEvents
  /\ events' = events + 1
  /\ requests' = [requests EXCEPT ![events'] = [kind |-> k, user |-> u, gone |-> FALSE]]
  /\ UNCHANGED <<accounts, profile, records, renames, auth, queue, listener, screen, alert,
                 singletons, told, cut, crossed, stuck>>

loginAction(u) == Touchable("login") /\ Send("signIn", u)

createAccountAction(u) == Touchable("account") /\ Send("create", u)

\* The addresses or the passwords do not match.
createAccountMismatch ==
  /\ Touchable("account")
  /\ alert' = Alert("oops", NoUser)
  /\ UNCHANGED <<service, auth, queue, listener, screen, singletons, history>>

DismissAlert ==
  /\ alert.kind \in {"oops", "leaving"}
  /\ alert' = NoAlert
  /\ UNCHANGED <<service, auth, queue, listener, screen, singletons, history>>

\* A mutant of showCreateAccountVC: viewWillDisappear keeps the listener.
showCreateAccountVCListening ==
  /\ Touchable("login")
  /\ screen' = "account"
  /\ UNCHANGED <<service, auth, queue, listener, alert, singletons, history>>

showCreateAccountVC ==
  /\ Touchable("login")
  /\ screen' = "account"
  /\ listener' = Removed
  /\ UNCHANGED <<service, auth, queue, alert, singletons, history>>

goBackAction ==
  /\ Touchable("account")
  /\ AccountDismissed(queue)
  /\ UNCHANGED <<accounts, profile, records, renames, auth, singletons, told, crossed,
                 stuck, events>>

\* A mutant of WelcomeOkay: the record is left to a later screen.
WelcomeOkayNoRecord ==
  /\ alert.kind = "welcome" /\ Settled
  /\ specialist' = [specialist EXCEPT !.uid = alert.user]
  /\ LoginAppears(GoneInQueue("create", queue))
  /\ RequestsGone("create")
  /\ alert' = NoAlert
  /\ UNCHANGED <<accounts, profile, records, renames, auth, own, rootUID, progress, made, history>>

\* The welcome alert's handler.
WelcomeOkay ==
  /\ alert.kind = "welcome" /\ Settled
  /\ specialist' = [specialist EXCEPT !.uid = alert.user]
  /\ records' = records \cup {alert.user}
  /\ LoginAppears(GoneInQueue("create", queue))
  /\ RequestsGone("create")
  /\ alert' = NoAlert
  /\ UNCHANGED <<accounts, profile, renames, auth, own, rootUID, progress, made, history>>

\* SpecialistNavVC.viewDidAppear.
NavDidAppear ==
  /\ screen = "appearing"
  /\ IF rootUID = NoUser
       THEN LoginAppears(Detached(listener, queue))
       ELSE screen' = "contract" /\ UNCHANGED <<listener, queue>>
  /\ UNCHANGED <<service, auth, alert, singletons, history>>

\* signOut first, then the listener that asks.
signOutAction ==
  /\ Touchable("contract") /\ loaded
  /\ SetUser(NoUser)
  /\ AddListener("signOut", IF user = NoUser THEN queue ELSE Append(queue, Post))
  /\ UNCHANGED <<service, loaded, screen, alert, singletons, told, cut, crossed, stuck,
                 events>>

CancelSignOut ==
  /\ alert.kind = "verify" /\ Settled
  /\ alert' = NoAlert
  /\ UNCHANGED <<service, auth, queue, listener, screen, singletons, history>>

\* A mutant of ConfirmSignOut: the name of the specialist is kept.
ConfirmSignOutKeepsName ==
  /\ alert.kind = "verify" /\ Settled
  /\ alert' = NoAlert
  /\ specialist' = [specialist EXCEPT !.uid = NoUser]
  /\ progress' = NoUser
  /\ LoginAppears(queue)
  /\ UNCHANGED <<service, auth, own, rootUID, made, history>>

\* The verify alert's handler: the singletons are reset, own and rootUID are not.
ConfirmSignOut ==
  /\ alert.kind = "verify" /\ Settled
  /\ alert' = NoAlert
  /\ specialist' = Nobody
  /\ progress' = NoUser
  /\ LoginAppears(queue)
  /\ UNCHANGED <<service, auth, own, rootUID, made, history>>

\* createContractAction, confirmed: the contract, its bride and the singleton
\* name own, and the alterations are shown.
createContractAction ==
  /\ Touchable("contract") /\ Len(made) < MaxContracts
  /\ made' = Append(made, own)
  /\ progress' = own
  /\ screen' = "pushed"
  /\ listener' = Removed
  /\ UNCHANGED <<service, auth, queue, alert, own, rootUID, specialist, history>>

\* The alterations and the review, and back.
Push ==
  /\ Touchable("contract")
  /\ screen' = "pushed"
  /\ listener' = Removed
  /\ UNCHANGED <<service, auth, queue, alert, singletons, history>>

\* A mutant of Pop: the listener is added once, when the view is loaded.
PopNoListener ==
  /\ Touchable("pushed")
  /\ screen' = "contract"
  /\ UNCHANGED <<service, auth, listener, queue, alert, singletons, history>>

Pop ==
  /\ Touchable("pushed")
  /\ screen' = "contract"
  /\ AddListener("contract", queue)
  /\ UNCHANGED <<service, auth, alert, singletons, history>>

-----------------------------------------------------------------------------
Init ==
  /\ accounts \in SUBSET Users
  /\ profile = [u \in Users |-> IF u \in accounts THEN u ELSE NoUser]
  /\ records = accounts
  /\ requests = [i \in Slot |-> NoRequest]
  /\ renames = {}
  /\ saved \in accounts \cup {NoUser}
  \* Launch: the contract screen is about to appear, nobody is known.
  /\ user = NoUser
  /\ loaded = FALSE
  /\ queue = <<FirstCall>>
  /\ listener = Added("contract")
  /\ screen = "appearing"
  /\ alert = NoAlert
  /\ own = NoUser
  /\ rootUID = NoUser
  /\ specialist = Nobody
  /\ progress = NoUser
  /\ busy = FALSE
  /\ made = <<>>
  /\ told = NoUser
  /\ cut = {}
  /\ crossed = FALSE
  /\ stuck = FALSE
  /\ events = 0

\* Users whose record waits for a callback, or for the welcome alert.
Welcoming ==
  {u \in Users :
     \/ alert = Alert("welcome", u)
     \/ \E i \in DOMAIN queue :
          /\ queue[i].kind = "callback" /\ queue[i].ok
          /\ queue[i].request.kind = "create" /\ queue[i].request.user = u}

\* The process is ended, and the service may still do what it was asked for.
Kill ==
  /\ events < MaxEvents
  /\ events' = events + 1
  /\ \E late \in SUBSET {u \in Users \ accounts :
                          \E i \in Slot : requests[i].kind = "create" /\ requests[i].user = u} :
       /\ accounts' = accounts \cup late
       /\ cut' = cut \cup late \cup Welcoming
  /\ requests' = [i \in Slot |-> NoRequest]
  /\ renames' = {}
  /\ user' = NoUser
  /\ loaded' = FALSE
  /\ queue' = <<FirstCall>>
  /\ listener' = Added("contract")
  /\ screen' = "appearing"
  /\ alert' = NoAlert
  /\ own' = NoUser
  /\ rootUID' = NoUser
  /\ specialist' = Nobody
  /\ progress' = NoUser
  /\ UNCHANGED <<profile, records, saved, made, told, crossed, stuck>>

MainQueueBlock ==
  \/ RunPost \/ RunFirstCall \/ SignedIn \/ AccountCreated
  \/ CallbackFails("signIn", "login") \/ CallbackFails("create", "account")

Outside ==
  \/ KeychainLoaded
  \/ \E i \in Slot : ReplyGranted(i) \/ ReplyFailed(i)
  \/ \E c \in renames : ProfileChanged(c)
  \/ NavDidAppear
  \/ Kill

Touch ==
  \/ \E u \in Users : loginAction(u) \/ createAccountAction(u)
  \/ createAccountMismatch \/ DismissAlert \/ showCreateAccountVC \/ goBackAction
  \/ WelcomeOkay
  \/ signOutAction \/ CancelSignOut \/ ConfirmSignOut
  \/ createContractAction \/ Push \/ Pop

Next ==
  \/ MainQueueBlock /\ busy' = (busy /\ queue' # <<>>)
  \/ Outside /\ busy' = (busy /\ queue' # <<>>)
  \/ ~busy /\ Touch /\ busy' = (queue' # <<>>)

Spec == Init /\ [][Next]_vars

-----------------------------------------------------------------------------
(* Properties.                                                             *)

\* Every variable has its type; a listener is registered exactly while a
\* screen that has one is in front, and one first call at most is its own.
SessionTypeOK ==
  /\ accounts \subseteq Users /\ records \subseteq accounts
  /\ profile \in [Users -> MaybeUser]
  /\ requests \in [Slot -> Request]
  /\ renames \subseteq [user : Users, name : Users]
  /\ user \in MaybeUser /\ saved \in MaybeUser /\ loaded \in BOOLEAN
  /\ busy \in BOOLEAN
  /\ listener \in Listener
  /\ listener.kind = "login" <=> screen = "login"
  /\ listener.kind = "none" <=> screen \in {"account", "pushed"}
  /\ Cardinality({i \in DOMAIN queue : queue[i] = FirstCall}) <= 1
  /\ screen \in {"appearing", "contract", "pushed", "login", "account"}
  /\ alert.kind \in {"none", "oops", "leaving", "welcome", "verify"}
  /\ own \in MaybeUser /\ rootUID \in MaybeUser /\ progress \in MaybeUser
  /\ specialist \in [uid : MaybeUser, displayName : MaybeUser \cup {Placeholder}]
  /\ made \in Seq(MaybeUser)
  /\ events \in 0..MaxEvents

\* Once the main queue has run, the screens agree with FIRAuth, whatever
\* listeners and dismissals crossed: on the contract screen the screen's own
\* uid and the singleton are the user's (CreateContractVC 50-59), unless a
\* reply came before the callback of another had run; and the login screen is
\* not in front of a user who is signed in, unless an alert was in the way of
\* its dismissal (LoginVC 45, 57-67).
QuietSessionAgrees ==
  queue = <<>> /\ user # NoUser =>
    /\ screen = "contract" => (own = user /\ specialist.uid = user) \/ crossed
    /\ screen = "login" => stuck

\* A signed-out app keeps nothing of the last specialist behind the login
\* screen: name, uid and contract are gone before the next one signs in,
\* although the sign-out itself comes before the alert (CreateContractVC
\* 132-188).
SignedOutIsBlank ==
  screen \in {"login", "account"} /\ user = NoUser =>
    specialist = Nobody /\ progress = NoUser

\* Contracts name the right specialist: the last one the app was told of, by
\* whichever screen's listener, also after a sign-out that was cancelled, after
\* another's sign-in and after a restart, although own is never cleared; only
\* replies that cross can hide a change of user from the contract screen
\* (CreateContractVC 245, 330, 385, 413).
ContractsNameTheSpecialist ==
  [][made' # made => own # NoUser /\ (own = told \/ crossed)]_vars

\* An account without a specialist record is one whose creation was cut
\* short: its answer was lost, the process ended, or the screen was gone or
\* busy when the welcome alert was due (CreateAccountVC 43-78).
AccountsAreRecorded == accounts \ records \subseteq cut \cup Welcoming

\* Nobody gets another's name: a profile carries the name typed for it and
\* the singleton's name is its user's, unless a second reply came between a
\* creation and its callback, which names the current user (CreateAccountVC
\* 53-57, CreateContractVC 54-56).
NamesAreTheirOwn ==
  ~crossed =>
    /\ \A u \in Users : profile[u] \in {u, NoUser}
    /\ queue = <<>> /\ screen = "contract" /\ user # NoUser =>
         specialist.displayName \in {user, Placeholder}
=============================================================================
