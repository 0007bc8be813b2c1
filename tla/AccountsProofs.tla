--------------------------- MODULE AccountsProofs ---------------------------
(***************************************************************************)
(* Accounts proved for any number of users and requests, all lifetimes and *)
(* caps.  The invariant says what a request that waits for the lock may    *)
(* rely on (Sound), and which token is where (Spent): a token is in one    *)
(* table, in the hands of one request, or used up.                         *)
(***************************************************************************)
EXTENDS Accounts, FiniteSetTheorems, FunctionTheorems, TLAPS

\* What holds of the locals q of a request, whatever the others do meanwhile.
Sound(q) ==
  /\ q.by \in DOMAIN users \cup {None}
  /\ q.at \in SignedIn => q.by # None
  /\ q.at = "create_session" => q.user \in DOMAIN users
  /\ q.at = "get_or_create_pam_user" => q.user \in Usernames /\ backend = "Pam"
  /\ q.at \in {"create_first_admin", "insert_user_with_invite"} =>
       /\ q.user \in Usernames
       /\ q.challenge # None => q.challenge.user = q.user /\ q.challenge.purpose # "add"
  /\ q.at = "taken" => q.challenge # None
  /\ q.at = "store_passkey" =>
       /\ q.challenge # None
       /\ q.user = q.challenge.user /\ q.user \in DOMAIN users
       /\ q.challenge.purpose = "add" => q.by = q.user
  /\ q.challenge # None => q.token \in 1..tokens

Requesting == \A r \in Requests : Sound(requests[r])

Spent == /\ DOMAIN invites \subseteq 1..tokens
         /\ DOMAIN challenges \subseteq 1..tokens
         /\ \A k \in passkeys : k.challenge \in 1..tokens \ DOMAIN challenges

\* Only an admin creates invites.
InvitedBySomeone == DOMAIN invites # {} => DOMAIN users # {}

IInv ==
  /\ TypeOK
  /\ Requesting
  /\ Spent
  /\ InvitedBySomeone
  /\ OneAdmin
  /\ InvitedOnce
  /\ AnsweredOnce
  /\ OwnPasskeys
  /\ IsFiniteSet(passkeys)

-----------------------------------------------------------------------------
\* Accounts are never deleted or changed, tokens never taken back.
Grows == /\ DOMAIN users \subseteq DOMAIN users'
         /\ \A u \in DOMAIN users : users'[u] = users[u]
         /\ backend' = backend
         /\ tokens \in Nat /\ tokens' \in Nat /\ tokens <= tokens'

LEMMA InitInv == ASSUME Init PROVE IInv
<1>. USE AccountsAssumption
<1>1. DOMAIN users = {} /\ DOMAIN invites = {} /\ DOMAIN challenges = {} /\ passkeys = {}
  BY DEF Init
<1>2. requests = [r \in Requests |-> NoRequest] /\ NoRequest \in Request
  BY DEF Init, NoRequest, Request, Step, Name
<1>3. TypeOK
  BY <1>1, <1>2 DEF Init, TypeOK
<1>4. Requesting
  BY <1>2 DEF Requesting, Sound, NoRequest, SignedIn
<1>5. Spent /\ InvitedBySomeone /\ OneAdmin /\ InvitedOnce /\ OwnPasskeys
  BY <1>1 DEF Spent, InvitedBySomeone, OneAdmin, InvitedOnce, OwnPasskeys
<1>6. AnsweredOnce
  BY <1>1, <1>2 DEF AnsweredOnce, NoRequest, At
<1>7. IsFiniteSet(passkeys)
  BY <1>1, FS_EmptySet
<1>. QED
  BY <1>3, <1>4, <1>5, <1>6, <1>7 DEF IInv

\* A request that goes on with sound locals leaves the other requests sound.
LEMMA GotoSound ==
  ASSUME TypeOK, Requesting, Grows, NEW r \in Requests, NEW q \in Request, Goto(r, q), Sound(q)'
  PROVE  requests' \in [Requests -> Request] /\ Requesting'
<1>1. requests' = [requests EXCEPT ![r] = q]
  BY DEF Goto
<1>2. requests' \in [Requests -> Request]
  BY <1>1 DEF TypeOK
<1>3. ASSUME NEW p \in Requests PROVE Sound(requests[p])'
  <2>1. CASE p = r
    BY <1>1, <2>1 DEF TypeOK, Sound
  <2>2. CASE p # r
    <3>1. requests'[p] = requests[p] /\ Sound(requests[p])
      BY <1>1, <2>2 DEF TypeOK, Requesting
    <3>. QED
      BY <3>1 DEF Sound, Grows
  <2>. QED
    BY <2>1, <2>2
<1>. QED
  BY <1>2, <1>3 DEF Requesting

\* Steps that leave all tables but the sessions alone.
Quiet == UNCHANGED <<backend, users, passkeys, invites, challenges, tokens>>

LEMMA QuietGrows == ASSUME TypeOK, Quiet PROVE Grows
BY AccountsAssumption DEF Quiet, Grows, TypeOK

\* A request that goes on with the challenge it holds, or without one.
LEMMA AnsweredKept ==
  ASSUME IInv, passkeys' \subseteq passkeys,
         DOMAIN challenges' \subseteq DOMAIN challenges \cup {tokens + 1},
         NEW r \in Requests,
         \A p \in Requests \ {r} : requests'[p] = requests[p],
         requests'[r].challenge # None =>
           /\ requests'[r].challenge = requests[r].challenge
           /\ requests'[r].token = requests[r].token
           /\ ~At(r, "create_session")
  PROVE  AnsweredOnce'
<1>1. tokens \in Nat /\ \A p \in Requests : requests[p].challenge # None => requests[p].token \in 1..tokens
  BY AccountsAssumption DEF IInv, TypeOK, Requesting, Sound
<1>. SUFFICES ASSUME NEW p \in Requests, requests'[p].challenge # None
              PROVE  /\ requests'[p].token \notin DOMAIN challenges'
                     /\ \A q \in Requests \ {p} : requests'[q].challenge # None =>
                                                    requests'[q].token # requests'[p].token
                     /\ ~At(p, "create_session")' =>
                          \A k \in passkeys' : k.challenge # requests'[p].token
  BY DEF AnsweredOnce
<1>2. /\ requests'[p].challenge = requests[p].challenge /\ requests'[p].token = requests[p].token
      /\ ~At(p, "create_session")' => ~At(p, "create_session")
  BY DEF At
<1>. QED
  BY <1>1, <1>2 DEF IInv, AnsweredOnce

LEMMA QuietInv ==
  ASSUME IInv, Quiet, TypeOK', Requesting',
         NEW r \in Requests,
         \A p \in Requests \ {r} : requests'[p] = requests[p],
         requests'[r].challenge # None =>
           /\ requests'[r].challenge = requests[r].challenge
           /\ requests'[r].token = requests[r].token
           /\ ~At(r, "create_session")
  PROVE  IInv'
<1>1. Spent' /\ InvitedBySomeone' /\ OneAdmin' /\ InvitedOnce' /\ OwnPasskeys' /\ IsFiniteSet(passkeys)'
  BY DEF IInv, Quiet, Spent, InvitedBySomeone, OneAdmin, InvitedOnce, OwnPasskeys
<1>2. AnsweredOnce'
  BY AnsweredKept DEF Quiet
<1>. QED
  BY <1>1, <1>2 DEF IInv

\* The locals of the steps that begin, end or send on a request.
LEMMA AnswerSound == NoRequest \in Request /\ NoRequest.challenge = None /\ Sound(NoRequest)
BY DEF NoRequest, Request, Step, Name, Sound, SignedIn

LEMMA TickInv == ASSUME IInv, Tick PROVE IInv'
<1>1. Quiet /\ UNCHANGED <<sessions, requests>> /\ now' \in Nat /\ allowed' \subseteq UnixUsers
  BY DEF Tick, tables, Quiet, IInv, TypeOK
<1>2. TypeOK'
  BY <1>1 DEF IInv, TypeOK, Quiet
<1>3. Requesting'
  BY <1>1 DEF IInv, Requesting, Sound, Quiet
<1>. QED
  BY <1>1, <1>2, <1>3 DEF IInv, Quiet, Spent, InvitedBySomeone, OneAdmin, InvitedOnce,
                          AnsweredOnce, OwnPasskeys, At

LEMMA RegroupInv ==
  ASSUME IInv, NEW members \in SUBSET UnixUsers, Regroup(members) PROVE IInv'
<1>1. Quiet /\ UNCHANGED <<sessions, requests>> /\ now' \in Nat /\ allowed' \subseteq UnixUsers
  BY DEF Regroup, tables, Quiet, IInv, TypeOK
<1>2. TypeOK'
  BY <1>1 DEF IInv, TypeOK, Quiet
<1>3. Requesting'
  BY <1>1 DEF IInv, Requesting, Sound, Quiet
<1>. QED
  BY <1>1, <1>2, <1>3 DEF IInv, Quiet, Spent, InvitedBySomeone, OneAdmin, InvitedOnce,
                          AnsweredOnce, OwnPasskeys, At

\* A quiet step that sends a request on: what remains to be shown of its locals.
LEMMA SentOnInv ==
  ASSUME IInv, Quiet, UNCHANGED <<now, allowed>>,
         \A s \in sessions' : s \in Session /\ s.user \in DOMAIN users,
         NEW r \in Requests, NEW q \in Request, Goto(r, q), Sound(q),
         q.challenge # None => /\ q.challenge = requests[r].challenge
                               /\ q.token = requests[r].token
                               /\ ~At(r, "create_session")
  PROVE  IInv'
<1>1. Grows
  BY QuietGrows DEF IInv
<1>2. Sound(q)'
  BY DEF Sound, Quiet
<1>3. requests' \in [Requests -> Request] /\ Requesting'
  BY <1>1, <1>2, GotoSound DEF IInv
<1>4. TypeOK'
  BY <1>3 DEF IInv, TypeOK, Quiet
<1>5. requests' = [requests EXCEPT ![r] = q] /\ requests \in [Requests -> Request]
  BY DEF Goto, IInv, TypeOK
<1>6. requests'[r] = q /\ \A p \in Requests \ {r} : requests'[p] = requests[p]
  BY <1>5
<1>. QED
  BY <1>3, <1>4, <1>6, QuietInv

\* The sessions, and what a quiet action leaves alone.
LEMMA SessionsKept ==
  ASSUME IInv, Quiet, NEW S \in SUBSET sessions
  PROVE  \A s \in S : s \in Session /\ s.user \in DOMAIN users
BY DEF IInv, TypeOK, Quiet

LEMMA FailsInv == ASSUME IInv, NEW r \in Requests, Fails(r) PROVE IInv'
<1>1. Quiet /\ UNCHANGED <<now, allowed, sessions>> /\ Goto(r, NoRequest)
  BY DEF Fails, Answer, tables, Quiet
<1>2. \A s \in sessions' : s \in Session /\ s.user \in DOMAIN users
  BY <1>1, SessionsKept
<1>. QED
  BY <1>1, <1>2, AnswerSound, SentOnInv

LEMMA SetupInv == ASSUME IInv, NEW r \in Requests, NEW u \in Usernames, Setup(r, u) PROVE IInv'
<1>1. Quiet /\ UNCHANGED <<now, allowed, sessions>>
  BY DEF Setup, tables, Quiet
<1>2. \A s \in sessions' : s \in Session /\ s.user \in DOMAIN users
  BY <1>1, SessionsKept
<1>3. PICK step \in {"create_first_admin", "get_or_create_pam_user"} :
        Goto(r, About(step, u)) /\ (step = "get_or_create_pam_user" => backend = "Pam")
  BY DEF Setup
<1>4. About(step, u) \in Request /\ About(step, u).challenge = None /\ Sound(About(step, u))
  BY <1>1, <1>3 DEF About, NoRequest, Request, Step, Name, Sound, SignedIn, Quiet
<1>. QED
  BY <1>1, <1>2, <1>3, <1>4, SentOnInv

LEMMA LoginInv == ASSUME IInv, NEW r \in Requests, NEW u \in Usernames, Login(r, u) PROVE IInv'
<1>1. Quiet /\ UNCHANGED <<now, allowed, sessions>>
  BY DEF Login, tables, Quiet
<1>2. \A s \in sessions' : s \in Session /\ s.user \in DOMAIN users
  BY <1>1, SessionsKept
<1>3. PICK step \in {"create_session", "get_or_create_pam_user"} :
        /\ Goto(r, About(step, u))
        /\ step = "get_or_create_pam_user" => backend = "Pam"
        /\ step = "create_session" => u \in DOMAIN users
  BY DEF Login
<1>4. About(step, u) \in Request /\ About(step, u).challenge = None /\ Sound(About(step, u))
  BY <1>1, <1>3 DEF About, NoRequest, Request, Step, Name, Sound, SignedIn, Quiet
<1>. QED
  BY <1>1, <1>2, <1>3, <1>4, SentOnInv

LEMMA RegisterInv ==
  ASSUME IInv, NEW r \in Requests, NEW u \in Usernames, NEW t \in Issued, Register(r, u, t)
  PROVE  IInv'
<1>. DEFINE q == [About("insert_user_with_invite", u) EXCEPT !.token = t]
<1>1. Quiet /\ UNCHANGED <<now, allowed, sessions>> /\ Goto(r, q)
  BY DEF Register, tables, Quiet
<1>2. \A s \in sessions' : s \in Session /\ s.user \in DOMAIN users
  BY <1>1, SessionsKept
<1>3. t \in Token
  BY AccountsAssumption DEF Issued, IInv, TypeOK, Token
<1>4. q \in Request /\ q.challenge = None /\ Sound(q)
  BY <1>3 DEF About, NoRequest, Request, Step, Name, Sound, SignedIn
<1>. QED
  BY <1>1, <1>2, <1>4, SentOnInv

LEMMA LogoutInv == ASSUME IInv, NEW r \in Requests, NEW t \in Issued, Logout(r, t) PROVE IInv'
<1>1. Quiet /\ UNCHANGED <<now, allowed, requests>> /\ sessions' \subseteq sessions
  BY DEF Logout, DeleteSession, Quiet
<1>2. Grows
  BY <1>1, QuietGrows DEF IInv
<1>3. TypeOK'
  BY <1>1 DEF IInv, TypeOK, Quiet
<1>4. Requesting'
  BY <1>1 DEF IInv, Requesting, Sound, Quiet
<1>. QED
  BY <1>1, <1>3, <1>4 DEF IInv, Quiet, Spent, InvitedBySomeone, OneAdmin, InvitedOnce,
                          AnsweredOnce, OwnPasskeys, At

LEMMA LogoutAllInv == ASSUME IInv, NEW r \in Requests, LogoutAll(r) PROVE IInv'
<1>1. Quiet /\ UNCHANGED <<now, allowed>> /\ sessions' \subseteq sessions /\ Goto(r, NoRequest)
  BY DEF LogoutAll, Answer, Quiet
<1>2. \A s \in sessions' : s \in Session /\ s.user \in DOMAIN users
  BY <1>1, SessionsKept
<1>. QED
  BY <1>1, <1>2, AnswerSound, SentOnInv

LEMMA RevokeInv == ASSUME IInv, NEW r \in Requests, Revoke(r) PROVE IInv'
<1>1. Quiet /\ UNCHANGED <<now, allowed>> /\ sessions' \subseteq sessions /\ Goto(r, NoRequest)
  BY DEF Revoke, DeleteSession, Answer, Quiet
<1>2. \A s \in sessions' : s \in Session /\ s.user \in DOMAIN users
  BY <1>1, SessionsKept
<1>. QED
  BY <1>1, <1>2, AnswerSound, SentOnInv

LEMMA AuthenticateInv ==
  ASSUME IInv, NEW r \in Requests, NEW t \in Issued, NEW next \in SignedIn \cup Optional,
         Authenticate(r, t, next)
  PROVE  IInv'
<1>1. Quiet /\ UNCHANGED <<now, allowed>>
  BY DEF Authenticate, Quiet
<1>2. \A s \in sessions' : s \in Session /\ s.user \in DOMAIN users
  BY <1>1 DEF Authenticate, IInv, TypeOK, Quiet, Session
<1>3. t \in Token
  BY AccountsAssumption DEF Issued, IInv, TypeOK, Token
<1>4. CASE Goto(r, NoRequest)
  BY <1>1, <1>2, <1>4, AnswerSound, SentOnInv
<1>5. ASSUME NEW s \in sessions, Goto(r, [NoRequest EXCEPT !.at = next, !.by = s.user])
      PROVE  IInv'
  <2>. DEFINE q == [NoRequest EXCEPT !.at = next, !.by = s.user]
  <2>1. s.user \in DOMAIN users /\ s.user \in Usernames /\ s.user # None
    BY AccountsAssumption DEF IInv, TypeOK, Session
  <2>2. q \in Request /\ q.challenge = None /\ Sound(q)
    BY <1>1, <2>1 DEF NoRequest, Request, Step, Name, Sound, SignedIn, Optional, Quiet
  <2>. QED
    BY <1>1, <1>2, <1>5, <2>2, SentOnInv
<1>6. CASE Goto(r, [NoRequest EXCEPT !.at = "revoke", !.token = t])
  <2>. DEFINE q == [NoRequest EXCEPT !.at = "revoke", !.token = t]
  <2>1. q \in Request /\ q.challenge = None /\ Sound(q)
    BY <1>3 DEF NoRequest, Request, Step, Name, Sound, SignedIn
  <2>. QED
    BY <1>1, <1>2, <1>6, <2>1, SentOnInv
<1>7. \/ Goto(r, NoRequest)
      \/ \E s \in sessions : Goto(r, [NoRequest EXCEPT !.at = next, !.by = s.user])
      \/ Goto(r, [NoRequest EXCEPT !.at = "revoke", !.token = t])
  BY DEF Authenticate
<1>. QED
  BY <1>4, <1>5, <1>6, <1>7

-----------------------------------------------------------------------------
(* Steps that finish a challenge without a statement of their own. *)

LEMMA FinishAtInv ==
  ASSUME IInv, NEW r \in Requests, NEW step \in Step, FinishAt(r, step), At(r, "taken"),
         Quiet, UNCHANGED <<now, allowed, sessions>>,
         step \notin SignedIn \cup {"taken", "get_or_create_pam_user"},
         requests[r].challenge.user \in Usernames /\ requests[r].challenge # None =>
           /\ step \in {"create_session", "store_passkey"} =>
                requests[r].challenge.user \in DOMAIN users
           /\ step \in {"create_first_admin", "insert_user_with_invite"} =>
                requests[r].challenge.purpose # "add"
           /\ step = "store_passkey" /\ requests[r].challenge.purpose = "add" =>
                requests[r].by = requests[r].challenge.user
  PROVE  IInv'
<1>. DEFINE q == [requests[r] EXCEPT !.at = step, !.user = requests[r].challenge.user]
<1>1. requests[r] \in Request /\ Sound(requests[r]) /\ requests[r].challenge # None
  BY DEF IInv, TypeOK, Requesting, Sound, At
<1>2. requests[r].challenge \in Challenge /\ requests[r].challenge.user \in Usernames
  BY <1>1 DEF Request, Challenge
<1>3. q \in Request /\ q.challenge = requests[r].challenge /\ q.token = requests[r].token
  BY <1>1, <1>2 DEF Request, Name
<1>4. q.at = step /\ q.user = requests[r].challenge.user /\ q.by = requests[r].by
  BY <1>1 DEF Request
<1>5. Sound(q)
  BY <1>1, <1>2, <1>3, <1>4 DEF Sound
<1>6. Goto(r, q) /\ ~At(r, "create_session")
  BY DEF FinishAt, At
<1>7. \A s \in sessions' : s \in Session /\ s.user \in DOMAIN users
  BY SessionsKept
<1>. QED
  BY <1>3, <1>5, <1>6, <1>7, SentOnInv

LEMMA RegisterFinishInv == ASSUME IInv, NEW r \in Requests, RegisterFinish(r) PROVE IInv'
<1>1. Quiet /\ UNCHANGED <<now, allowed, sessions>> /\ At(r, "taken")
  BY DEF RegisterFinish, tables, Quiet
<1>2. requests[r].by \in DOMAIN users \cup {None}
  BY DEF IInv, Requesting, Sound
<1>3. CASE /\ requests[r].challenge.purpose = "add"
           /\ requests[r].by = requests[r].challenge.user
           /\ FinishAt(r, "store_passkey")
  BY <1>1, <1>2, <1>3, FinishAtInv, AccountsAssumption DEF Step, SignedIn
<1>4. CASE requests[r].challenge.purpose = "setup" /\ FinishAt(r, "create_first_admin")
  BY <1>1, <1>4, FinishAtInv DEF Step, SignedIn
<1>5. CASE requests[r].challenge.purpose = "register" /\ FinishAt(r, "insert_user_with_invite")
  BY <1>1, <1>5, FinishAtInv DEF Step, SignedIn
<1>. QED
  BY <1>3, <1>4, <1>5 DEF RegisterFinish

LEMMA LoginFinishInv == ASSUME IInv, NEW r \in Requests, LoginFinish(r) PROVE IInv'
<1>1. Quiet /\ UNCHANGED <<now, allowed, sessions>> /\ At(r, "taken")
  BY DEF LoginFinish, tables, Quiet
<1>2. requests[r].challenge.user \in DOMAIN users /\ FinishAt(r, "create_session")
  BY DEF LoginFinish
<1>. QED
  BY <1>1, <1>2, FinishAtInv DEF Step, SignedIn

-----------------------------------------------------------------------------
(* Steps that create an account. *)

\* What a new row means for the table of users.
LEMMA UserAdded ==
  ASSUME IInv, NEW u \in Usernames, u \notin DOMAIN users, NEW row \in User,
         users' = With(users, u, row), UNCHANGED <<backend, tokens>>
  PROVE  /\ DOMAIN users' = DOMAIN users \cup {u} /\ users'[u] = row
         /\ \A v \in DOMAIN users : users'[v] = users[v]
         /\ Grows
         /\ DOMAIN users' \subseteq Usernames /\ \A v \in DOMAIN users' : users'[v] \in User
<1>1. DOMAIN users' = DOMAIN users \cup {u} /\ users'[u] = row
  BY DEF With
<1>2. \A v \in DOMAIN users : users'[v] = users[v]
  BY DEF With
<1>. QED
  BY <1>1, <1>2, AccountsAssumption DEF Grows, IInv, TypeOK

\* The request that made the new account is about it from now on.
LEMMA CreatedSound ==
  ASSUME IInv, NEW r \in Requests, Grows, Created(r), requests[r].user \in DOMAIN users',
         requests[r].at \in {"create_first_admin", "insert_user_with_invite"},
         UNCHANGED <<passkeys, challenges>>
  PROVE  /\ requests' \in [Requests -> Request] /\ Requesting'
         /\ AnsweredOnce'
<1>1. requests[r] \in Request /\ Sound(requests[r])
  BY DEF IInv, TypeOK, Requesting
<1>2. PICK q \in Request :
        /\ Goto(r, q)
        /\ q.at = IF requests[r].challenge = None THEN "create_session" ELSE "store_passkey"
        /\ q.user = requests[r].user /\ q.by = requests[r].by
        /\ q.challenge = requests[r].challenge /\ q.token = requests[r].token
  <2>. DEFINE step == IF requests[r].challenge = None THEN "create_session" ELSE "store_passkey"
              q == [requests[r] EXCEPT !.at = step]
  <2>1. q \in Request /\ q.at = step /\ q.user = requests[r].user /\ q.by = requests[r].by
        /\ q.challenge = requests[r].challenge /\ q.token = requests[r].token
    BY <1>1 DEF Request, Step
  <2>2. Goto(r, q)
    BY DEF Created, Continue
  <2>. QED
    BY <2>1, <2>2
<1>3. Sound(q)'
  <2>1. q.by \in DOMAIN users' \cup {None} /\ q.user \in DOMAIN users'
    BY <1>1, <1>2 DEF Sound, Grows
  <2>2. q.challenge # None => q.token \in 1..tokens' /\ q.challenge.user = q.user
                               /\ q.challenge.purpose # "add"
    BY <1>1, <1>2 DEF Sound, Grows
  <2>. QED
    BY <1>2, <2>1, <2>2 DEF Sound, SignedIn
<1>4. requests' \in [Requests -> Request] /\ Requesting'
  BY <1>1, <1>2, <1>3, GotoSound DEF IInv
<1>5. requests'[r] = q /\ \A p \in Requests \ {r} : requests'[p] = requests[p]
  BY <1>2 DEF Goto, IInv, TypeOK
<1>6. AnsweredOnce'
  BY <1>1, <1>2, <1>5, AnsweredKept DEF At
<1>. QED
  BY <1>4, <1>6

LEMMA CreateFirstAdminInv == ASSUME IInv, NEW r \in Requests, CreateFirstAdmin(r) PROVE IInv'
<1>. DEFINE u == requests[r].user
            row == [admin |-> TRUE, password |-> requests[r].challenge = None]
<1>1. CASE ~setup_required
  <2>1. Quiet /\ UNCHANGED <<now, allowed, sessions>> /\ Goto(r, NoRequest)
    BY <1>1 DEF CreateFirstAdmin, Answer, Quiet
  <2>2. \A s \in sessions' : s \in Session /\ s.user \in DOMAIN users
    BY <2>1, SessionsKept
  <2>. QED
    BY <2>1, <2>2, AnswerSound, SentOnInv
<1>2. CASE setup_required
  <2>1. u \in Usernames /\ DOMAIN users = {} /\ requests[r].at = "create_first_admin"
    BY <1>2 DEF CreateFirstAdmin, IInv, Requesting, Sound, At, setup_required
  <2>2. /\ users' = With(users, u, row) /\ Created(r)
        /\ UNCHANGED <<now, backend, allowed, passkeys, sessions, invites, challenges, tokens>>
    BY <1>2 DEF CreateFirstAdmin, NewUser
  <2>3. row \in User /\ row.admin = TRUE
    BY Zenon DEF User
  <2>4. /\ DOMAIN users' = {u} /\ users'[u] = row /\ Grows
        /\ DOMAIN users' \subseteq Usernames /\ \A v \in DOMAIN users' : users'[v] \in User
    BY <2>1, <2>2, <2>3, UserAdded
  <2>5. requests' \in [Requests -> Request] /\ Requesting' /\ AnsweredOnce'
    BY <2>1, <2>2, <2>4, CreatedSound
  <2>6. TypeOK'
    BY <2>2, <2>4, <2>5 DEF IInv, TypeOK, Grows
  <2>7. OneAdmin' /\ InvitedOnce' /\ InvitedBySomeone'
    BY <2>3, <2>4 DEF OneAdmin, InvitedOnce, InvitedBySomeone
  <2>8. Spent' /\ OwnPasskeys' /\ IsFiniteSet(passkeys)'
    BY <2>2 DEF IInv, Spent, OwnPasskeys
  <2>. QED
    BY <2>5, <2>6, <2>7, <2>8 DEF IInv
<1>. QED
  BY <1>1, <1>2

LEMMA InsertUserWithInviteInv ==
  ASSUME IInv, NEW r \in Requests, InsertUserWithInvite(r) PROVE IInv'
<1>. DEFINE u == requests[r].user
            i == InviteOf(r)
            row == [admin |-> FALSE, password |-> requests[r].challenge = None]
<1>1. CASE ~(Redeemable(i) /\ u \notin DOMAIN users)
  <2>1. Quiet /\ UNCHANGED <<now, allowed, sessions>> /\ Goto(r, NoRequest)
    BY <1>1 DEF InsertUserWithInvite, Answer, Quiet
  <2>2. \A s \in sessions' : s \in Session /\ s.user \in DOMAIN users
    BY <2>1, SessionsKept
  <2>. QED
    BY <2>1, <2>2, AnswerSound, SentOnInv
<1>2. CASE Redeemable(i) /\ u \notin DOMAIN users
  <2>1. u \in Usernames /\ requests[r].at = "insert_user_with_invite"
    BY <1>2 DEF InsertUserWithInvite, IInv, Requesting, Sound, At
  <2>2. /\ users' = With(users, u, row) /\ Created(r)
        /\ invites' = [invites EXCEPT ![i].used_by = u]
        /\ UNCHANGED <<now, backend, allowed, passkeys, sessions, challenges, tokens>>
    BY <1>2 DEF InsertUserWithInvite, NewUser
  <2>3. row \in User /\ row.admin = FALSE
    BY Zenon DEF User
  <2>4. /\ DOMAIN users' = DOMAIN users \cup {u} /\ users'[u] = row /\ Grows
        /\ \A v \in DOMAIN users : users'[v] = users[v]
        /\ DOMAIN users' \subseteq Usernames /\ \A v \in DOMAIN users' : users'[v] \in User
    BY <1>2, <2>1, <2>2, <2>3, UserAdded
  <2>5. requests' \in [Requests -> Request] /\ Requesting' /\ AnsweredOnce'
    BY <2>1, <2>2, <2>4, CreatedSound
  <2>6. /\ i \in DOMAIN invites /\ invites[i] \in Invite /\ invites[i].used_by = None
        /\ DOMAIN users # {}
    BY <1>2 DEF IInv, TypeOK, Redeemable, InvitedBySomeone
  <2>7. /\ DOMAIN invites' = DOMAIN invites
        /\ invites'[i].used_by = u /\ invites'[i] \in Invite
        /\ \A j \in DOMAIN invites \ {i} : invites'[j] = invites[j]
    BY <2>1, <2>2, <2>6 DEF Invite, Name
  <2>8. TypeOK'
    BY <2>2, <2>4, <2>5, <2>7 DEF IInv, TypeOK, Grows
  <2>9. OneAdmin'
    BY <1>2, <2>3, <2>4, <2>6 DEF IInv, OneAdmin
  <2>10. InvitedOnce'
    <3>. SUFFICES ASSUME backend = "Local", NEW v \in DOMAIN users', ~users'[v].admin
                  PROVE  \E j \in DOMAIN invites' : invites'[j].used_by = v
      BY <2>2 DEF InvitedOnce
    <3>1. CASE v = u
      BY <3>1, <2>6, <2>7
    <3>2. CASE v # u
      <4>1. PICK j \in DOMAIN invites : invites[j].used_by = v
        BY <3>2, <2>4 DEF IInv, InvitedOnce
      <4>2. v # None
        BY <2>4, AccountsAssumption
      <4>. QED
        BY <4>1, <4>2, <2>6, <2>7
    <3>. QED
      BY <3>1, <3>2
  <2>11. Spent' /\ OwnPasskeys' /\ IsFiniteSet(passkeys)' /\ InvitedBySomeone'
    BY <2>2, <2>4, <2>7 DEF IInv, Spent, OwnPasskeys, InvitedBySomeone
  <2>. QED
    BY <2>5, <2>8, <2>9, <2>10, <2>11 DEF IInv
<1>. QED
  BY <1>1, <1>2

LEMMA GetOrCreatePamUserInv ==
  ASSUME IInv, NEW r \in Requests, GetOrCreatePamUser(r) PROVE IInv'
<1>. DEFINE u == requests[r].user
            row == [admin |-> setup_required, password |-> FALSE]
<1>1. /\ u \in Usernames /\ backend = "Pam" /\ requests[r].at = "get_or_create_pam_user"
      /\ requests[r] \in Request /\ Sound(requests[r])
  BY DEF GetOrCreatePamUser, IInv, TypeOK, Requesting, Sound, At
<1>2. UNCHANGED <<now, backend, allowed, passkeys, sessions, invites, challenges, tokens>>
  BY DEF GetOrCreatePamUser
<1>3. PICK q \in Request : /\ Goto(r, q) /\ q.at = "create_session"
                           /\ q.user = u /\ q.by = requests[r].by
                           /\ q.challenge = requests[r].challenge /\ q.token = requests[r].token
  <2>. DEFINE q == [requests[r] EXCEPT !.at = "create_session"]
  <2>1. q \in Request /\ q.at = "create_session" /\ q.user = u /\ q.by = requests[r].by
        /\ q.challenge = requests[r].challenge /\ q.token = requests[r].token
    BY <1>1 DEF Request, Step
  <2>. QED
    BY <2>1 DEF GetOrCreatePamUser, Continue
<1>4. /\ Grows /\ u \in DOMAIN users'
      /\ DOMAIN users' \subseteq Usernames /\ \A v \in DOMAIN users' : users'[v] \in User
      /\ OneAdmin'
  <2>1. CASE u \in DOMAIN users
    <3>1. users' = users
      BY <2>1 DEF GetOrCreatePamUser
    <3>. QED
      BY <1>1, <1>2, <2>1, <3>1, AccountsAssumption DEF Grows, IInv, TypeOK, OneAdmin
  <2>2. CASE u \notin DOMAIN users
    <3>1. users' = With(users, u, row)
      BY <2>2 DEF GetOrCreatePamUser
    <3>2. row \in User
      BY Zenon DEF User, setup_required
    <3>3. row.admin <=> DOMAIN users = {}
      BY Zenon DEF setup_required
    <3>4. /\ DOMAIN users' = DOMAIN users \cup {u} /\ users'[u] = row /\ Grows
          /\ \A v \in DOMAIN users : users'[v] = users[v]
          /\ DOMAIN users' \subseteq Usernames /\ \A v \in DOMAIN users' : users'[v] \in User
      BY <1>1, <1>2, <2>2, <3>1, <3>2, UserAdded
    <3>5. CASE DOMAIN users = {}
      BY <3>3, <3>4, <3>5 DEF OneAdmin
    <3>6. CASE DOMAIN users # {}
      BY <2>2, <3>3, <3>4, <3>6 DEF IInv, OneAdmin
    <3>. QED
      BY <3>4, <3>5, <3>6
  <2>. QED
    BY <2>1, <2>2
<1>5. Sound(q)'
  BY <1>1, <1>3, <1>4 DEF Sound, Grows, SignedIn
<1>6. requests' \in [Requests -> Request] /\ Requesting'
  BY <1>3, <1>4, <1>5, GotoSound DEF IInv
<1>7. requests'[r] = q /\ \A p \in Requests \ {r} : requests'[p] = requests[p]
  BY <1>3 DEF Goto, IInv, TypeOK
<1>8. AnsweredOnce'
  BY <1>1, <1>2, <1>3, <1>7, AnsweredKept DEF At
<1>9. TypeOK'
  BY <1>2, <1>4, <1>6 DEF IInv, TypeOK, Grows
<1>10. InvitedOnce'
  BY <1>1, <1>2 DEF InvitedOnce
<1>11. Spent' /\ OwnPasskeys' /\ IsFiniteSet(passkeys)' /\ InvitedBySomeone'
  BY <1>2, <1>4 DEF IInv, Spent, OwnPasskeys, InvitedBySomeone, Grows
<1>. QED
  BY <1>4, <1>6, <1>8, <1>9, <1>10, <1>11 DEF IInv

-----------------------------------------------------------------------------
(* Steps that mint a token. *)

LEMMA MintGrows ==
  ASSUME IInv, Mint, UNCHANGED <<users, backend>>
  PROVE  Grows /\ tokens' = tokens + 1 /\ tokens' \in Token /\ tokens' \in 0..MaxTokens
BY AccountsAssumption DEF IInv, TypeOK, Grows, Mint, Token

LEMMA CreateSessionInv == ASSUME IInv, NEW r \in Requests, CreateSession(r) PROVE IInv'
<1>1. /\ UNCHANGED <<now, backend, allowed, users, passkeys, invites, challenges>>
      /\ Mint /\ Goto(r, NoRequest) /\ requests[r].at = "create_session"
  BY DEF CreateSession, Answer, At
<1>2. Grows /\ tokens' = tokens + 1 /\ tokens' \in Token /\ tokens' \in 0..MaxTokens
  BY <1>1, MintGrows
<1>3. Sound(NoRequest)'
  BY DEF Sound, NoRequest, SignedIn
<1>4. requests' \in [Requests -> Request] /\ Requesting'
  BY <1>1, <1>2, <1>3, AnswerSound, GotoSound DEF IInv
<1>5. requests'[r] = NoRequest /\ \A p \in Requests \ {r} : requests'[p] = requests[p]
  BY <1>1 DEF Goto, IInv, TypeOK
<1>6. requests[r].user \in DOMAIN users
  BY <1>1 DEF IInv, Requesting, Sound
<1>7. \A a \in BOOLEAN : NewSession(r, a) \in Session /\ NewSession(r, a).user \in DOMAIN users
  BY <1>2, <1>6 DEF NewSession, Session, IInv, TypeOK
<1>8. PICK a \in BOOLEAN : sessions' \subseteq sessions \cup {NewSession(r, a)}
  BY Zenon DEF CreateSession, Newest
<1>9. TypeOK'
  BY <1>1, <1>2, <1>4, <1>7, <1>8 DEF IInv, TypeOK
<1>10. AnsweredOnce'
  BY <1>1, <1>5, AnswerSound, AnsweredKept
<1>11. Spent'
  BY <1>1, <1>2 DEF IInv, Spent, TypeOK
<1>12. OneAdmin' /\ InvitedOnce' /\ InvitedBySomeone' /\ OwnPasskeys' /\ IsFiniteSet(passkeys)'
  BY <1>1 DEF IInv, OneAdmin, InvitedOnce, InvitedBySomeone, OwnPasskeys
<1>. QED
  BY <1>4, <1>9, <1>10, <1>11, <1>12 DEF IInv

LEMMA CreateInviteInv == ASSUME IInv, NEW r \in Requests, CreateInvite(r) PROVE IInv'
<1>. DEFINE row == [used_by |-> None, expires |-> now + InviteLife]
<1>1. UNCHANGED <<now, backend, allowed, users, passkeys, sessions, challenges>> /\ Goto(r, NoRequest)
  BY DEF CreateInvite, Answer
<1>2. CASE tokens' = tokens /\ invites' = invites
  <2>1. Quiet /\ UNCHANGED <<now, allowed, sessions>>
    BY <1>1, <1>2 DEF Quiet
  <2>2. \A s \in sessions' : s \in Session /\ s.user \in DOMAIN users
    BY <2>1, SessionsKept
  <2>. QED
    BY <1>1, <2>1, <2>2, AnswerSound, SentOnInv
<1>3. CASE Mint /\ invites' = With(invites, tokens', row)
  <2>1. Grows /\ tokens' = tokens + 1 /\ tokens' \in Token /\ tokens' \in 0..MaxTokens
    BY <1>1, <1>3, MintGrows
  <2>2. Sound(NoRequest)'
    BY DEF Sound, NoRequest, SignedIn
  <2>3. requests' \in [Requests -> Request] /\ Requesting'
    BY <1>1, <2>1, <2>2, AnswerSound, GotoSound DEF IInv
  <2>4. requests'[r] = NoRequest /\ \A p \in Requests \ {r} : requests'[p] = requests[p]
    BY <1>1 DEF Goto, IInv, TypeOK
  <2>5. row \in Invite
    BY AccountsAssumption DEF Invite, Name, IInv, TypeOK
  <2>6. /\ DOMAIN invites' = DOMAIN invites \cup {tokens'}
        /\ invites'[tokens'] = row
        /\ \A i \in DOMAIN invites : invites'[i] = invites[i]
    BY <1>3, <2>1 DEF With, IInv, Spent, TypeOK
  <2>7. TypeOK'
    BY <1>1, <2>1, <2>3, <2>5, <2>6 DEF IInv, TypeOK
  <2>8. InvitedBySomeone'
    <3>1. requests[r].by \in DOMAIN users
      BY DEF CreateInvite, IInv, Requesting, Sound, At, SignedIn
    <3>. QED
      BY <1>1, <3>1 DEF InvitedBySomeone
  <2>9. InvitedOnce'
    BY <1>1, <2>6 DEF IInv, InvitedOnce
  <2>10. AnsweredOnce'
    BY <1>1, <2>4, AnswerSound, AnsweredKept
  <2>11. Spent'
    BY <1>1, <2>1, <2>6 DEF IInv, Spent, TypeOK
  <2>12. OneAdmin' /\ OwnPasskeys' /\ IsFiniteSet(passkeys)'
    BY <1>1 DEF IInv, OneAdmin, OwnPasskeys
  <2>. QED
    BY <2>3, <2>7, <2>8, <2>9, <2>10, <2>11, <2>12 DEF IInv
<1>. QED
  BY <1>2, <1>3 DEF CreateInvite

\* A challenge with a fresh token is stored and the request ends, or never was.
LEMMA StoredInv ==
  ASSUME IInv, NEW purpose \in {"add", "setup", "register", "login"}, NEW u \in Usernames,
         NEW invite \in Token \cup {None}, StoreChallenge(purpose, u, invite),
         NEW r \in Requests, requests' = requests \/ Goto(r, NoRequest),
         UNCHANGED <<now, backend, allowed, users, passkeys, sessions, invites>>
  PROVE  IInv'
<1>. DEFINE row == [purpose |-> purpose, user |-> u, invite |-> invite,
                    expires |-> now + ChallengeLife]
<1>1. Mint /\ challenges' = With(challenges, tokens', row)
  BY DEF StoreChallenge
<1>2. Grows /\ tokens' = tokens + 1 /\ tokens' \in Token /\ tokens' \in 0..MaxTokens
  BY <1>1, MintGrows
<1>3. row \in Challenge
  BY AccountsAssumption DEF Challenge, IInv, TypeOK
<1>4. /\ DOMAIN challenges' = DOMAIN challenges \cup {tokens'}
      /\ challenges'[tokens'] = row
      /\ \A c \in DOMAIN challenges : challenges'[c] = challenges[c]
  BY <1>1, <1>2 DEF With, IInv, Spent, TypeOK
<1>5. requests' \in [Requests -> Request] /\ Requesting'
  <2>1. CASE requests' = requests
    BY <1>2, <2>1 DEF IInv, TypeOK, Requesting, Sound, Grows
  <2>2. CASE Goto(r, NoRequest)
    <3>1. Sound(NoRequest)'
      BY DEF Sound, NoRequest, SignedIn
    <3>. QED
      BY <1>2, <2>2, <3>1, AnswerSound, GotoSound DEF IInv
  <2>. QED
    BY <2>1, <2>2
<1>6. \A p \in Requests : requests'[p] = requests[p] \/ requests'[p].challenge = None
  BY AnswerSound DEF Goto, IInv, TypeOK
<1>7. TypeOK'
  BY <1>2, <1>3, <1>4, <1>5 DEF IInv, TypeOK
<1>8. Spent'
  BY <1>2, <1>4 DEF IInv, Spent, TypeOK
<1>9. AnsweredOnce'
  <2>1. \A p \in Requests : requests[p].challenge # None => requests[p].token \in 1..tokens
    BY DEF IInv, Requesting, Sound
  <2>. QED
    BY <1>2, <1>4, <1>6, <2>1 DEF IInv, AnsweredOnce, At, TypeOK
<1>10. OneAdmin' /\ InvitedOnce' /\ InvitedBySomeone' /\ OwnPasskeys' /\ IsFiniteSet(passkeys)'
  BY DEF IInv, OneAdmin, InvitedOnce, InvitedBySomeone, OwnPasskeys
<1>. QED
  BY <1>5, <1>7, <1>8, <1>9, <1>10 DEF IInv

LEMMA RegisterStartInv ==
  ASSUME IInv, NEW r \in Requests, NEW u \in Usernames, NEW t \in Issued \cup {None},
         RegisterStart(r, u, t)
  PROVE  IInv'
<1>1. /\ Goto(r, NoRequest)
      /\ UNCHANGED <<now, backend, allowed, users, passkeys, sessions, invites>>
  BY DEF RegisterStart, Answer
<1>2. t \in Token \cup {None}
  BY AccountsAssumption DEF Issued, IInv, TypeOK, Token
<1>3. requests[r].by # None => requests[r].by \in Usernames
  BY DEF IInv, TypeOK, Requesting, Sound
<1>4. CASE requests[r].by # None /\ StoreChallenge("add", requests[r].by, None)
  BY <1>1, <1>3, <1>4, StoredInv
<1>5. CASE StoreChallenge("setup", u, None)
  BY <1>1, <1>5, StoredInv
<1>6. CASE StoreChallenge("register", u, t)
  BY <1>1, <1>2, <1>6, StoredInv
<1>. QED
  BY <1>4, <1>5, <1>6 DEF RegisterStart

LEMMA LoginStartInv ==
  ASSUME IInv, NEW r \in Requests, NEW u \in Usernames, LoginStart(r, u) PROVE IInv'
<1>1. /\ StoreChallenge("login", u, None) /\ requests' = requests
      /\ UNCHANGED <<now, backend, allowed, users, passkeys, sessions, invites>>
  BY DEF LoginStart
<1>. QED
  BY <1>1, StoredInv

-----------------------------------------------------------------------------
(* Steps that take a challenge, and that store or delete a passkey. *)

LEMMA TakeChallengeInv ==
  ASSUME IInv, NEW r \in Requests, NEW c \in DOMAIN challenges, TakeChallenge(r, c) PROVE IInv'
<1>1. UNCHANGED <<now, backend, allowed, users, passkeys, sessions, invites, tokens>>
  BY DEF TakeChallenge
<1>2. /\ DOMAIN challenges' \subseteq DOMAIN challenges \ {c}
      /\ \A d \in DOMAIN challenges' : challenges'[d] = challenges[d]
  BY DEF TakeChallenge
<1>3. Grows
  BY <1>1, AccountsAssumption DEF Grows, IInv, TypeOK
<1>4. PICK q \in Request :
        /\ Goto(r, q)
        /\ \/ q = NoRequest
           \/ /\ q.at = "taken" /\ q.by = requests[r].by
              /\ q.token = c /\ q.challenge = challenges[c]
  <2>1. CASE Goto(r, NoRequest)
    BY <2>1, AnswerSound
  <2>2. CASE Taken(r, c)
    <3>. DEFINE q == [requests[r] EXCEPT !.at = "taken", !.token = c, !.challenge = challenges[c]]
    <3>1. q \in Request /\ q.at = "taken" /\ q.by = requests[r].by
          /\ q.token = c /\ q.challenge = challenges[c]
      BY DEF IInv, TypeOK, Request, Step
    <3>. QED
      BY <2>2, <3>1 DEF Taken
  <2>. QED
    BY <2>1, <2>2 DEF TakeChallenge, Answer
<1>5. c \in 1..tokens /\ \A k \in passkeys : k.challenge # c
  BY DEF IInv, Spent
<1>6. Sound(q)'
  <2>1. CASE q = NoRequest
    BY <2>1 DEF Sound, NoRequest, SignedIn
  <2>2. CASE q # NoRequest
    <3>1. q.challenge # None
      BY <1>4, <2>2, AccountsAssumption DEF IInv, TypeOK
    <3>2. q.by \in DOMAIN users' \cup {None}
      BY <1>1, <1>4, <2>2 DEF IInv, Requesting, Sound
    <3>. QED
      BY <1>1, <1>4, <1>5, <2>2, <3>1, <3>2 DEF Sound, SignedIn
  <2>. QED
    BY <2>1, <2>2
<1>7. requests' \in [Requests -> Request] /\ Requesting'
  BY <1>3, <1>4, <1>6, GotoSound DEF IInv
<1>8. requests'[r] = q /\ \A p \in Requests \ {r} : requests'[p] = requests[p]
  BY <1>4 DEF Goto, IInv, TypeOK
<1>9. TypeOK'
  BY <1>1, <1>2, <1>7 DEF IInv, TypeOK
<1>10. AnsweredOnce'
  <2>. SUFFICES ASSUME NEW p \in Requests, requests'[p].challenge # None
                PROVE  /\ requests'[p].token \notin DOMAIN challenges'
                       /\ \A o \in Requests \ {p} : requests'[o].challenge # None =>
                                                      requests'[o].token # requests'[p].token
                       /\ ~At(p, "create_session")' =>
                            \A k \in passkeys' : k.challenge # requests'[p].token
    BY DEF AnsweredOnce
  <2>1. \A o \in Requests \ {r} : requests[o].challenge # None => requests[o].token # c
    BY DEF IInv, AnsweredOnce
  <2>2. q.challenge # None => q.token = c
    BY <1>4 DEF NoRequest
  <2>3. CASE p = r
    BY <1>1, <1>2, <1>5, <1>8, <2>1, <2>2, <2>3
  <2>4. CASE p # r
    BY <1>1, <1>2, <1>8, <2>1, <2>2, <2>4 DEF IInv, AnsweredOnce, At
  <2>. QED
    BY <2>3, <2>4
<1>11. Spent'
  BY <1>1, <1>2 DEF IInv, Spent
<1>12. OneAdmin' /\ InvitedOnce' /\ InvitedBySomeone' /\ OwnPasskeys' /\ IsFiniteSet(passkeys)'
  BY <1>1 DEF IInv, OneAdmin, InvitedOnce, InvitedBySomeone, OwnPasskeys
<1>. QED
  BY <1>7, <1>9, <1>10, <1>11, <1>12 DEF IInv

LEMMA StorePasskeyInv == ASSUME IInv, NEW r \in Requests, StorePasskey(r) PROVE IInv'
<1>. DEFINE c == requests[r].challenge
            k == [user |-> c.user, challenge |-> requests[r].token,
                  by |-> IF c.purpose = "add" THEN requests[r].by ELSE c.user]
<1>1. /\ UNCHANGED <<now, backend, allowed, users, sessions, invites, challenges, tokens>>
      /\ passkeys' = passkeys \cup {k} /\ requests[r].at = "store_passkey"
  BY DEF StorePasskey, At
<1>2. /\ requests[r] \in Request /\ Sound(requests[r])
      /\ c # None /\ c.user = requests[r].user /\ c.user \in DOMAIN users /\ c.user \in Usernames
      /\ c.purpose = "add" => requests[r].by = c.user
      /\ requests[r].token \in 1..tokens /\ requests[r].token \in Token
  BY <1>1, AccountsAssumption DEF IInv, TypeOK, Requesting, Sound, Token
<1>3. k \in Passkey /\ k.user \in DOMAIN users /\ k.by = k.user
  BY <1>2 DEF Passkey, Name
<1>4. Grows
  BY <1>1, AccountsAssumption DEF Grows, IInv, TypeOK
<1>5. PICK q \in Request :
        /\ Goto(r, q)
        /\ \/ q = NoRequest
           \/ /\ q.at = "create_session" /\ q.user = c.user /\ q.by = requests[r].by
              /\ q.token = requests[r].token /\ q.challenge = c
  <2>1. CASE Goto(r, NoRequest)
    BY <2>1, AnswerSound
  <2>2. CASE Continue(r, "create_session")
    <3>. DEFINE q == [requests[r] EXCEPT !.at = "create_session"]
    <3>1. q \in Request /\ q.at = "create_session" /\ q.user = c.user /\ q.by = requests[r].by
          /\ q.token = requests[r].token /\ q.challenge = c
      BY <1>2 DEF Request, Step
    <3>. QED
      BY <2>2, <3>1 DEF Continue
  <2>. QED
    BY <2>1, <2>2 DEF StorePasskey, Answer
<1>6. Sound(q)'
  <2>1. CASE q = NoRequest
    BY <2>1 DEF Sound, NoRequest, SignedIn
  <2>2. CASE q # NoRequest
    BY <1>1, <1>2, <1>5, <2>2 DEF Sound, SignedIn
  <2>. QED
    BY <2>1, <2>2
<1>7. requests' \in [Requests -> Request] /\ Requesting'
  BY <1>4, <1>5, <1>6, GotoSound DEF IInv
<1>8. requests'[r] = q /\ \A p \in Requests \ {r} : requests'[p] = requests[p]
  BY <1>5 DEF Goto, IInv, TypeOK
<1>9. TypeOK'
  BY <1>1, <1>3, <1>7 DEF IInv, TypeOK
<1>10. AnsweredOnce'
  <2>. SUFFICES ASSUME NEW p \in Requests, requests'[p].challenge # None
                PROVE  /\ requests'[p].token \notin DOMAIN challenges'
                       /\ \A o \in Requests \ {p} : requests'[o].challenge # None =>
                                                      requests'[o].token # requests'[p].token
                       /\ ~At(p, "create_session")' =>
                            \A j \in passkeys' : j.challenge # requests'[p].token
    BY DEF AnsweredOnce
  <2>1. \A o \in Requests \ {r} : requests[o].challenge # None =>
                                    requests[o].token # requests[r].token
    BY <1>2 DEF IInv, AnsweredOnce
  <2>2. q.challenge # None => q.token = requests[r].token /\ q.at = "create_session"
    BY <1>5 DEF NoRequest
  <2>3. requests[r].token \notin DOMAIN challenges
    BY <1>2 DEF IInv, AnsweredOnce
  <2>4. CASE p = r
    BY <1>1, <1>8, <2>1, <2>2, <2>3, <2>4 DEF At
  <2>5. CASE p # r
    BY <1>1, <1>8, <2>1, <2>2, <2>5 DEF IInv, AnsweredOnce, At
  <2>. QED
    BY <2>4, <2>5
<1>11. Spent'
  <2>1. requests[r].token \notin DOMAIN challenges
    BY <1>2 DEF IInv, AnsweredOnce
  <2>. QED
    BY <1>1, <1>2, <2>1 DEF IInv, Spent
<1>12. OwnPasskeys' /\ IsFiniteSet(passkeys)'
  BY <1>1, <1>3, FS_AddElement DEF IInv, OwnPasskeys
<1>13. OneAdmin' /\ InvitedOnce' /\ InvitedBySomeone'
  BY <1>1 DEF IInv, OneAdmin, InvitedOnce, InvitedBySomeone
<1>. QED
  BY <1>7, <1>9, <1>10, <1>11, <1>12, <1>13 DEF IInv

LEMMA DeletePasskeyInv ==
  ASSUME IInv, NEW r \in Requests, NEW k \in passkeys, DeletePasskey(r, k) PROVE IInv'
<1>1. /\ UNCHANGED <<now, backend, allowed, users, sessions, invites, challenges, tokens>>
      /\ passkeys' = passkeys \ {k} /\ Goto(r, NoRequest)
  BY DEF DeletePasskey, Answer
<1>2. Grows
  BY <1>1, AccountsAssumption DEF Grows, IInv, TypeOK
<1>3. Sound(NoRequest)'
  BY DEF Sound, NoRequest, SignedIn
<1>4. requests' \in [Requests -> Request] /\ Requesting'
  BY <1>1, <1>2, <1>3, AnswerSound, GotoSound DEF IInv
<1>5. requests'[r] = NoRequest /\ \A p \in Requests \ {r} : requests'[p] = requests[p]
  BY <1>1 DEF Goto, IInv, TypeOK
<1>6. TypeOK'
  BY <1>1, <1>4 DEF IInv, TypeOK
<1>7. AnsweredOnce'
  BY <1>1, <1>5, AnswerSound, AnsweredKept
<1>8. Spent' /\ OwnPasskeys' /\ OneAdmin' /\ InvitedOnce' /\ InvitedBySomeone'
  BY <1>1 DEF IInv, Spent, OwnPasskeys, OneAdmin, InvitedOnce, InvitedBySomeone
<1>9. IsFiniteSet(passkeys)'
  BY <1>1, FS_RemoveElement DEF IInv
<1>. QED
  BY <1>4, <1>6, <1>7, <1>8, <1>9 DEF IInv

-----------------------------------------------------------------------------
LEMMA NextInv == ASSUME IInv, [Next]_vars PROVE IInv'
<1>1. CASE Tick
  BY <1>1, TickInv
<1>2. ASSUME NEW members \in SUBSET UnixUsers, Regroup(members) PROVE IInv'
  BY <1>2, RegroupInv
<1>3. ASSUME NEW r \in Requests, NEW u \in Usernames, Setup(r, u) \/ Login(r, u) \/ LoginStart(r, u)
      PROVE  IInv'
  BY <1>3, SetupInv, LoginInv, LoginStartInv
<1>4. ASSUME NEW r \in Requests, NEW u \in Usernames, NEW t \in Issued, Register(r, u, t) PROVE IInv'
  BY <1>4, RegisterInv
<1>5. ASSUME NEW r \in Requests, NEW u \in Usernames, NEW t \in Issued \cup {None},
             RegisterStart(r, u, t)
      PROVE  IInv'
  BY <1>5, RegisterStartInv
<1>6. ASSUME NEW r \in Requests, NEW t \in Issued, Logout(r, t) PROVE IInv'
  BY <1>6, LogoutInv
<1>7. ASSUME NEW r \in Requests, NEW t \in Issued, NEW next \in SignedIn \cup Optional,
             Authenticate(r, t, next)
      PROVE  IInv'
  BY <1>7, AuthenticateInv
<1>8. ASSUME NEW r \in Requests, NEW c \in DOMAIN challenges, TakeChallenge(r, c) PROVE IInv'
  BY <1>8, TakeChallengeInv
<1>9. ASSUME NEW r \in Requests, NEW k \in passkeys, DeletePasskey(r, k) PROVE IInv'
  BY <1>9, DeletePasskeyInv
<1>10. ASSUME NEW r \in Requests,
              CreateFirstAdmin(r) \/ InsertUserWithInvite(r) \/ GetOrCreatePamUser(r)
       PROVE  IInv'
  BY <1>10, CreateFirstAdminInv, InsertUserWithInviteInv, GetOrCreatePamUserInv
<1>11. ASSUME NEW r \in Requests,
              CreateSession(r) \/ LogoutAll(r) \/ Revoke(r) \/ CreateInvite(r)
       PROVE  IInv'
  BY <1>11, CreateSessionInv, LogoutAllInv, RevokeInv, CreateInviteInv
<1>12. ASSUME NEW r \in Requests,
              RegisterFinish(r) \/ LoginFinish(r) \/ StorePasskey(r) \/ Fails(r)
       PROVE  IInv'
  BY <1>12, RegisterFinishInv, LoginFinishInv, StorePasskeyInv, FailsInv
<1>13. CASE UNCHANGED vars
  BY <1>13 DEF vars, tables, IInv, TypeOK, Requesting, Sound, Spent, InvitedBySomeone, OneAdmin,
               InvitedOnce, AnsweredOnce, OwnPasskeys, At
<1>. QED
  BY <1>1, <1>2, <1>3, <1>4, <1>5, <1>6, <1>7, <1>8, <1>9, <1>10, <1>11, <1>12, <1>13
  DEF Next

LEMMA Inductive == Spec => []IInv
<1>1. Init => IInv
  BY InitInv
<1>2. IInv /\ [Next]_vars => IInv'
  BY NextInv
<1>. QED
  BY <1>1, <1>2, PTL DEF Spec

\* Types, and no row of a user that is not there: every session and every passkey
\* is of an account in the table.
THEOREM TypeCorrect == Spec => []TypeOK
<1>1. IInv => TypeOK
  BY DEF IInv
<1>. QED
  BY <1>1, Inductive, PTL

\* Of setups, registrations and PAM sign-ins that race, one makes the admin.
THEOREM FirstIsAdmin == Spec => []OneAdmin
<1>1. IInv => OneAdmin
  BY DEF IInv
<1>. QED
  BY <1>1, Inductive, PTL

\* An invite makes one account, whichever requests redeem it.
THEOREM InvitesMakeOneAccount == Spec => []InvitedOnce
<1>1. IInv => InvitedOnce
  BY DEF IInv
<1>. QED
  BY <1>1, Inductive, PTL

\* A challenge is answered once.
THEOREM ChallengesAnsweredOnce == Spec => []AnsweredOnce
<1>1. IInv => AnsweredOnce
  BY DEF IInv
<1>. QED
  BY <1>1, Inductive, PTL

\* A passkey is of the user who was signed in when it was added.
THEOREM PasskeysOwned == Spec => []OwnPasskeys
<1>1. IInv => OwnPasskeys
  BY DEF IInv
<1>. QED
  BY <1>1, Inductive, PTL

-----------------------------------------------------------------------------
(* Deleting passkeys never locks an account out. *)

LEMMA AccountsStay ==
  ASSUME IInv, [Next]_vars, NEW u \in DOMAIN users
  PROVE  u \in DOMAIN users' /\ users'[u] = users[u]
<1>1. \/ users' = users
      \/ \E v \in Usernames \ DOMAIN users, row \in [admin : BOOLEAN, password : BOOLEAN] :
           users' = With(users, v, row)
  <2>1. ASSUME NEW r \in Requests, CreateFirstAdmin(r)
        PROVE  \/ users' = users
               \/ \E v \in Usernames \ DOMAIN users, row \in [admin : BOOLEAN, password : BOOLEAN] :
                    users' = With(users, v, row)
    <3>1. requests[r].user \in Usernames
      BY <2>1 DEF CreateFirstAdmin, IInv, Requesting, Sound, At
    <3>2. [admin |-> TRUE, password |-> requests[r].challenge = None]
            \in [admin : BOOLEAN, password : BOOLEAN]
      BY Zenon
    <3>. QED
      BY <2>1, <3>1, <3>2 DEF CreateFirstAdmin, NewUser, setup_required
  <2>2. ASSUME NEW r \in Requests, InsertUserWithInvite(r)
        PROVE  \/ users' = users
               \/ \E v \in Usernames \ DOMAIN users, row \in [admin : BOOLEAN, password : BOOLEAN] :
                    users' = With(users, v, row)
    <3>1. requests[r].user \in Usernames
      BY <2>2 DEF InsertUserWithInvite, IInv, Requesting, Sound, At
    <3>2. [admin |-> FALSE, password |-> requests[r].challenge = None]
            \in [admin : BOOLEAN, password : BOOLEAN]
      BY Zenon
    <3>. QED
      BY <2>2, <3>1, <3>2 DEF InsertUserWithInvite, NewUser
  <2>3. ASSUME NEW r \in Requests, GetOrCreatePamUser(r)
        PROVE  \/ users' = users
               \/ \E v \in Usernames \ DOMAIN users, row \in [admin : BOOLEAN, password : BOOLEAN] :
                    users' = With(users, v, row)
    <3>1. requests[r].user \in Usernames
      BY <2>3 DEF GetOrCreatePamUser, IInv, Requesting, Sound, At
    <3>2. [admin |-> setup_required, password |-> FALSE] \in [admin : BOOLEAN, password : BOOLEAN]
      BY Zenon DEF setup_required
    <3>. QED
      BY <2>3, <3>1, <3>2 DEF GetOrCreatePamUser
  <2>4. \/ users' = users
        \/ \E r \in Requests : CreateFirstAdmin(r) \/ InsertUserWithInvite(r) \/ GetOrCreatePamUser(r)
    BY DEF Next, vars, tables, Tick, Regroup, Setup, Login, LoginStart, Register, RegisterStart,
           Logout, Authenticate, TakeChallenge, DeletePasskey, CreateSession, LogoutAll,
           Revoke, CreateInvite, RegisterFinish, LoginFinish, StorePasskey, Fails
  <2>. QED
    BY <2>1, <2>2, <2>3, <2>4
<1>. QED
  BY <1>1 DEF With

LEMMA PasskeysStay ==
  ASSUME [Next]_vars
  PROVE  \/ passkeys \subseteq passkeys'
         \/ \E r \in Requests, k \in passkeys : DeletePasskey(r, k)
BY DEF Next, vars, tables, Tick, Regroup, Setup, Login, LoginStart, Register, RegisterStart,
       Logout, Authenticate, TakeChallenge, CreateSession, LogoutAll, Revoke,
       CreateInvite, RegisterFinish, LoginFinish, StorePasskey, Fails, CreateFirstAdmin,
       InsertUserWithInvite, GetOrCreatePamUser

\* The last passkey of an account without a password stays.
LEMMA OneLeft ==
  ASSUME IInv, backend = "Local", NEW r \in Requests, NEW k \in passkeys, DeletePasskey(r, k),
         ~users[k.user].password
  PROVE  \E j \in passkeys' : j.user = k.user
<1>. DEFINE S == Passkeys(k.user)
<1>1. IsFiniteSet(S) /\ k \in S
  BY FS_Subset DEF IInv, Passkeys
<1>2. Cardinality(S) - 1 > 0 /\ passkeys' = passkeys \ {k}
  BY DEF DeletePasskey, user_can_drop_passkey
<1>3. IsFiniteSet(S \ {k}) /\ Cardinality(S \ {k}) = Cardinality(S) - 1
  BY <1>1, FS_RemoveElement
<1>4. S \ {k} # {}
  BY <1>2, <1>3, FS_EmptySet
<1>. QED
  BY <1>2, <1>4 DEF Passkeys

\* However many requests delete its passkeys, a local account that can sign in
\* stays able to.
THEOREM AccountsStayReachable == Spec => StaysReachable
<1>1. ASSUME IInv, [Next]_vars, backend = "Local", NEW u \in DOMAIN users, HasCredential(u)
      PROVE  HasCredential(u)'
  <2>1. users'[u] = users[u]
    BY <1>1, AccountsStay
  <2>2. CASE users[u].password
    BY <2>1, <2>2 DEF HasCredential
  <2>3. CASE ~users[u].password
    <3>1. PICK k \in passkeys : k.user = u
      BY <1>1, <2>3 DEF HasCredential, HasPasskey
    <3>2. CASE passkeys \subseteq passkeys'
      BY <3>1, <3>2 DEF HasCredential, HasPasskey
    <3>3. ASSUME NEW r \in Requests, NEW j \in passkeys, DeletePasskey(r, j)
          PROVE  HasCredential(u)'
      <4>1. CASE j.user = u
        BY <1>1, <2>3, <3>3, <4>1, OneLeft DEF HasCredential, HasPasskey
      <4>2. CASE j.user # u
        BY <3>1, <3>3, <4>2 DEF DeletePasskey, HasCredential, HasPasskey
      <4>. QED
        BY <4>1, <4>2
    <3>. QED
      BY <1>1, <3>2, <3>3, PasskeysStay
  <2>. QED
    BY <2>2, <2>3
<1>2. IInv /\ [Next]_vars =>
        [backend = "Local" => \A u \in DOMAIN users : HasCredential(u) => HasCredential(u)']_vars
  BY <1>1
<1>. QED
  BY <1>2, Inductive, PTL DEF Spec, StaysReachable

-----------------------------------------------------------------------------
(***************************************************************************)
(* SessionsBounded.  Sessions have different tokens (OwnTokens), so those  *)
(* that have fewer than n newer ones of their user are at most n: each has *)
(* a number of newer ones of its own.                                      *)
(***************************************************************************)
AnsweredOf(u) == {s \in SessionsOf(u) : s.answered}

OwnTokens == /\ \A s \in sessions : s.token \in 1..tokens
             /\ \A s, q \in sessions : s.token = q.token => s = q

CapInv == /\ IsFiniteSet(sessions)
          /\ OwnTokens
          /\ \A u \in Usernames : Cardinality(AnsweredOf(u)) <= SessionMax

LEMMA NewestFew ==
  ASSUME IInv, CapInv, NEW u \in Usernames, NEW n \in Nat
  PROVE  LET kept == {s \in Newest(u, n) : s.user = u} IN
         IsFiniteSet(kept) /\ Cardinality(kept) <= n
<1>. DEFINE kept == {s \in Newest(u, n) : s.user = u}
            Newer(s) == {q \in SessionsOf(u) : q.token > s.token}
            rank == [s \in kept |-> Cardinality(Newer(s))]
<1>1. kept \subseteq sessions /\ IsFiniteSet(sessions) /\ tokens \in Nat
  BY AccountsAssumption DEF Newest, CapInv, IInv, TypeOK
<1>2. \A s \in sessions : s.token \in Nat
  BY <1>1 DEF CapInv, OwnTokens
<1>3. ASSUME NEW s \in sessions
      PROVE  IsFiniteSet(Newer(s)) /\ Cardinality(Newer(s)) \in Nat
  <2>1. Newer(s) \in SUBSET sessions
    BY DEF SessionsOf
  <2>. QED
    BY <1>1, <2>1, FS_Subset, FS_CardinalityType
<1>4. ASSUME NEW s \in kept PROVE rank[s] \in 0..(n - 1)
  <2>1. Cardinality(Newer(s)) < n
    BY DEF Newest
  <2>2. Cardinality(Newer(s)) \in Nat
    BY <1>1, <1>3
  <2>. QED
    BY <2>1, <2>2
<1>5. ASSUME NEW s \in kept, NEW q \in kept, s.token < q.token
      PROVE  Cardinality(Newer(q)) < Cardinality(Newer(s))
  <2>1. Newer(q) \in SUBSET Newer(s) /\ q \in Newer(s) /\ q \notin Newer(q)
    BY <1>1, <1>2, <1>5 DEF SessionsOf
  <2>2. /\ IsFiniteSet(Newer(s)) /\ Cardinality(Newer(s)) \in Nat
        /\ Cardinality(Newer(q)) \in Nat
    BY <1>1, <1>3
  <2>. HIDE DEF Newer
  <2>3. /\ Cardinality(Newer(q)) <= Cardinality(Newer(s))
        /\ Cardinality(Newer(s)) = Cardinality(Newer(q)) => Newer(s) = Newer(q)
    BY <2>1, <2>2, FS_Subset
  <2>. QED
    BY <2>1, <2>2, <2>3
<1>6. ASSUME NEW s \in kept, NEW q \in kept, rank[s] = rank[q] PROVE s = q
  <2>. HIDE DEF kept, Newer
  <2>1. Cardinality(Newer(s)) = Cardinality(Newer(q)) /\ Cardinality(Newer(q)) \in Nat
    BY <1>1, <1>3, <1>6
  <2>2. s.token = q.token
    BY <1>1, <1>2, <1>5, <2>1
  <2>. QED
    BY <1>1, <2>2 DEF CapInv, OwnTokens
<1>7. rank \in Injection(kept, 0..(n - 1))
  <2>. HIDE DEF kept, Newer
  <2>1. rank \in [kept -> 0..(n - 1)]
    BY <1>4
  <2>. QED
    BY <1>6, <2>1, Fun_IsInj
<1>8. IsFiniteSet(0..(n - 1)) /\ Cardinality(0..(n - 1)) = n
  BY FS_Interval
<1>. HIDE DEF kept, rank
<1>9. IsFiniteSet(kept) /\ Cardinality(kept) <= n
  BY <1>7, <1>8, FS_Injection
<1>. QED
  BY <1>9 DEF kept

\* Sessions go, and nothing else happens to them.
LEMMA FewerSessions ==
  ASSUME CapInv, sessions' \subseteq sessions, tokens \in Nat, tokens' \in Nat, tokens <= tokens'
  PROVE  CapInv'
<1>1. IsFiniteSet(sessions')
  BY FS_Subset DEF CapInv
<1>2. OwnTokens'
  BY DEF CapInv, OwnTokens
<1>3. ASSUME NEW u \in Usernames PROVE Cardinality(AnsweredOf(u)') <= SessionMax
  <2>1. AnsweredOf(u) \in SUBSET sessions /\ AnsweredOf(u)' \in SUBSET AnsweredOf(u)
    BY DEF AnsweredOf, SessionsOf
  <2>2. IsFiniteSet(AnsweredOf(u)) /\ Cardinality(AnsweredOf(u)) <= SessionMax
    BY <2>1, FS_Subset DEF CapInv
  <2>3. Cardinality(AnsweredOf(u)') <= Cardinality(AnsweredOf(u))
    BY <2>1, <2>2, FS_Subset
  <2>4. /\ Cardinality(AnsweredOf(u)) \in Nat /\ Cardinality(AnsweredOf(u)') \in Nat
        /\ SessionMax \in Nat
    BY <2>1, <2>2, FS_Subset, FS_CardinalityType, AccountsAssumption
  <2>. HIDE DEF AnsweredOf
  <2>. QED
    BY <2>2, <2>3, <2>4
<1>. QED
  BY <1>1, <1>2, <1>3 DEF CapInv

\* A session that is used stays the one it is.
LEMMA AuthenticateCap ==
  ASSUME IInv, CapInv, NEW r \in Requests, NEW t \in Issued,
         NEW next \in SignedIn \cup Optional, Authenticate(r, t, next)
  PROVE  CapInv'
<1>. DEFINE live == {s \in sessions : Live(s)}
            used(s) == IF s.token = t THEN [s EXCEPT !.seen = now] ELSE s
<1>1. sessions' = {used(s) : s \in live} /\ tokens' = tokens
  BY DEF Authenticate
<1>2. ASSUME NEW s \in sessions
      PROVE  used(s).token = s.token /\ used(s).user = s.user /\ used(s).answered = s.answered
  BY DEF IInv, TypeOK, Session
<1>3. live \in SUBSET sessions /\ IsFiniteSet(live)
  BY FS_Subset DEF CapInv
<1>. HIDE DEF live, used
<1>4. IsFiniteSet(sessions')
  <2>. DEFINE f == [s \in live |-> used(s)]
  <2>1. f \in Surjection(live, sessions')
    BY <1>1, Fun_IsSurj
  <2>. HIDE DEF f
  <2>. QED
    BY <1>3, <2>1, FS_Surjection
<1>5. OwnTokens'
  BY <1>1, <1>2, <1>3 DEF CapInv, OwnTokens
<1>6. ASSUME NEW u \in Usernames PROVE Cardinality(AnsweredOf(u)') <= SessionMax
  <2>. DEFINE A == {s \in live : s.user = u /\ s.answered}
              f == [s \in A |-> used(s)]
  <2>1. A \in SUBSET AnsweredOf(u) /\ AnsweredOf(u) \in SUBSET sessions
    BY <1>3 DEF AnsweredOf, SessionsOf
  <2>2. /\ IsFiniteSet(AnsweredOf(u)) /\ Cardinality(AnsweredOf(u)) <= SessionMax
        /\ IsFiniteSet(A) /\ Cardinality(A) <= Cardinality(AnsweredOf(u))
    BY <2>1, FS_Subset DEF CapInv
  <2>3. AnsweredOf(u)' = {used(s) : s \in A}
    BY <1>1, <1>2, <1>3 DEF AnsweredOf, SessionsOf
  <2>. HIDE DEF A
  <2>4. f \in Surjection(A, AnsweredOf(u)')
    BY <2>3, Fun_IsSurj
  <2>. HIDE DEF f
  <2>5. IsFiniteSet(AnsweredOf(u)') /\ Cardinality(AnsweredOf(u)') <= Cardinality(A)
    BY <2>2, <2>4, FS_Surjection
  <2>6. /\ Cardinality(AnsweredOf(u)) \in Nat /\ Cardinality(A) \in Nat
        /\ Cardinality(AnsweredOf(u)') \in Nat /\ SessionMax \in Nat
    BY <2>2, <2>5, FS_CardinalityType, AccountsAssumption
  <2>. HIDE DEF AnsweredOf
  <2>. QED
    BY <2>2, <2>5, <2>6
<1>. QED
  BY <1>4, <1>5, <1>6 DEF CapInv

LEMMA CreateSessionCap ==
  ASSUME IInv, CapInv, NEW r \in Requests, CreateSession(r) PROVE CapInv'
<1>. DEFINE owner == requests[r].user
<1>1. PICK a \in BOOLEAN :
        LET s == NewSession(r, a) IN
        \/ a /\ sessions' = Newest(owner, SessionMax - 1) \cup {s}
        \/ ~a /\ sessions' = sessions \cup {s}
  BY DEF CreateSession
<1>. DEFINE new == NewSession(r, a)
<1>2. /\ tokens \in Nat /\ tokens' = tokens + 1 /\ SessionMax \in Nat /\ SessionMax - 1 \in Nat
      /\ owner \in Usernames
  BY AccountsAssumption DEF CreateSession, Mint, IInv, TypeOK, Requesting, Sound, At
<1>3. new.token = tokens' /\ new.user = owner /\ new.answered = a
  BY DEF NewSession
<1>4. sessions' \subseteq sessions \cup {new}
  BY <1>1 DEF Newest
<1>5. IsFiniteSet(sessions')
  <2>1. IsFiniteSet(sessions \cup {new})
    BY FS_AddElement DEF CapInv
  <2>. QED
    BY <1>4, <2>1, FS_Subset
<1>6. OwnTokens'
  <2>1. \A s \in sessions : s.token \in 1..tokens /\ s.token # tokens'
    BY <1>2 DEF CapInv, OwnTokens
  <2>. HIDE DEF new
  <2>. QED
    BY <1>2, <1>3, <1>4, <2>1 DEF CapInv, OwnTokens
<1>. HIDE DEF new
<1>7. ASSUME NEW u \in Usernames PROVE Cardinality(AnsweredOf(u)') <= SessionMax
  <2>1. AnsweredOf(u) \in SUBSET sessions
    BY DEF AnsweredOf, SessionsOf
  <2>2. IsFiniteSet(AnsweredOf(u)) /\ Cardinality(AnsweredOf(u)) <= SessionMax
    BY <2>1, FS_Subset DEF CapInv
  <2>3. CASE u # owner \/ ~a
    <3>1. AnsweredOf(u)' \in SUBSET AnsweredOf(u)
      BY <1>3, <1>4, <2>3 DEF AnsweredOf, SessionsOf
    <3>2. IsFiniteSet(AnsweredOf(u)') /\ Cardinality(AnsweredOf(u)') <= Cardinality(AnsweredOf(u))
      BY <2>2, <3>1, FS_Subset
    <3>3. Cardinality(AnsweredOf(u)) \in Nat /\ Cardinality(AnsweredOf(u)') \in Nat
      BY <2>2, <3>2, FS_CardinalityType
    <3>. HIDE DEF AnsweredOf
    <3>. QED
      BY <1>2, <2>2, <3>2, <3>3
  <2>4. CASE u = owner /\ a
    <3>. DEFINE kept == {s \in Newest(u, SessionMax - 1) : s.user = u}
    <3>1. IsFiniteSet(kept) /\ Cardinality(kept) <= SessionMax - 1
      BY <1>2, NewestFew
    <3>2. AnsweredOf(u)' \in SUBSET (kept \cup {new})
      BY <1>1, <2>4 DEF AnsweredOf, SessionsOf, new
    <3>. HIDE DEF kept
    <3>3. /\ IsFiniteSet(kept \cup {new}) /\ Cardinality(kept) \in Nat
          /\ Cardinality(kept \cup {new}) <= Cardinality(kept) + 1
      <4>1. Cardinality(kept) \in Nat
        BY <3>1, FS_CardinalityType
      <4>2. /\ IsFiniteSet(kept \cup {new})
            /\ Cardinality(kept \cup {new})
                 = IF new \in kept THEN Cardinality(kept) ELSE Cardinality(kept) + 1
        BY <3>1, FS_AddElement
      <4>. QED
        BY <4>1, <4>2
    <3>4. IsFiniteSet(AnsweredOf(u)')
          /\ Cardinality(AnsweredOf(u)') <= Cardinality(kept \cup {new})
      BY <3>2, <3>3, FS_Subset
    <3>5. Cardinality(kept \cup {new}) \in Nat /\ Cardinality(AnsweredOf(u)') \in Nat
      BY <3>3, <3>4, FS_CardinalityType
    <3>. QED
      BY <1>2, <3>1, <3>3, <3>4, <3>5
  <2>. QED
    BY <2>3, <2>4
<1>. QED
  BY <1>5, <1>6, <1>7 DEF CapInv

LEMMA CapStep == ASSUME IInv, CapInv, [Next]_vars PROVE CapInv'
<1>. DEFINE Fewer == sessions' \subseteq sessions /\ tokens' \in {tokens, tokens + 1}
<1>1. ASSUME NEW r \in Requests, CreateSession(r) PROVE CapInv'
  BY <1>1, CreateSessionCap
<1>2. ASSUME NEW r \in Requests, NEW t \in Issued, NEW next \in SignedIn \cup Optional,
             Authenticate(r, t, next)
      PROVE  CapInv'
  BY <1>2, AuthenticateCap
<1>3. Tick \/ (\E members \in SUBSET UnixUsers : Regroup(members)) \/ UNCHANGED vars => Fewer
  BY DEF Tick, Regroup, vars, tables
<1>4. ASSUME NEW r \in Requests, NEW u \in Usernames,
             \/ Setup(r, u) \/ Login(r, u) \/ LoginStart(r, u)
             \/ \E t \in Issued : Register(r, u, t)
             \/ \E t \in Issued \cup {None} : RegisterStart(r, u, t)
      PROVE  Fewer
  BY <1>4 DEF Setup, Login, LoginStart, Register, RegisterStart, StoreChallenge, Mint, tables
<1>5. ASSUME NEW r \in Requests,
             \/ \E t \in Issued : Logout(r, t)
             \/ \E c \in DOMAIN challenges : TakeChallenge(r, c)
             \/ \E k \in passkeys : DeletePasskey(r, k)
             \/ CreateFirstAdmin(r) \/ InsertUserWithInvite(r) \/ GetOrCreatePamUser(r)
             \/ LogoutAll(r) \/ Revoke(r) \/ CreateInvite(r)
             \/ RegisterFinish(r) \/ LoginFinish(r) \/ StorePasskey(r) \/ Fails(r)
      PROVE  Fewer
  BY <1>5 DEF Logout, DeleteSession, TakeChallenge, DeletePasskey, CreateFirstAdmin,
              InsertUserWithInvite, GetOrCreatePamUser, LogoutAll, Revoke, CreateInvite, Mint,
              RegisterFinish, LoginFinish, StorePasskey, Fails, tables
<1>6. tokens \in Nat
  BY AccountsAssumption DEF IInv, TypeOK
<1>7. CASE Fewer
  BY <1>6, <1>7, FewerSessions
<1>. HIDE DEF Fewer
<1>. QED
  BY <1>1, <1>2, <1>3, <1>4, <1>5, <1>7 DEF Next

\* However many requests sign a user in at once, he never has more than SessionMax
\* sessions whose cookie was sent.
THEOREM SessionsAreBounded == Spec => []SessionsBounded
<1>1. Init => IInv /\ CapInv
  <2>1. ASSUME Init PROVE CapInv
    <3>1. sessions = {} /\ \A u : AnsweredOf(u) = {}
      BY <2>1 DEF Init, AnsweredOf, SessionsOf
    <3>2. IsFiniteSet({}) /\ Cardinality({}) = 0
      BY FS_EmptySet
    <3>. QED
      BY <3>1, <3>2, AccountsAssumption DEF CapInv, OwnTokens
  <2>. QED
    BY <2>1, InitInv
<1>2. IInv /\ CapInv /\ [Next]_vars => (IInv /\ CapInv)'
  BY NextInv, CapStep
<1>3. IInv /\ CapInv => SessionsBounded
  BY DEF IInv, TypeOK, CapInv, AnsweredOf, SessionsBounded
<1>. QED
  BY <1>1, <1>2, <1>3, PTL DEF Spec
=============================================================================
