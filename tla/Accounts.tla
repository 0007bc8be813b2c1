------------------------------ MODULE Accounts ------------------------------
(***************************************************************************)
(* Web accounts: the handlers of src/auth_http.rs over the tables of       *)
(* src/users.rs.  Handlers run at once and take the lock of the database   *)
(* several times; each section under the lock is one step, and Fails ends  *)
(* a handler between two.  A section that is interrupted has changed       *)
(* nothing, or only deleted rows that had expired, but for CreateSession.  *)
(* What random tokens, hashes and WebAuthn compute is left out: a token is *)
(* a fresh number, and a credential is right or the request ends.          *)
(***************************************************************************)
EXTENDS Naturals, FiniteSets

CONSTANTS
  None,           \* NULL, and nobody
  Usernames,
  UnixUsers,      \* those that PAM knows
  Requests,       \* requests that may be handled at once
  Backends,       \* the password backends considered, "Local" or "Pam"
  SessionLife, SessionIdle, SessionMax,  \* session_days, _idle_hours, _max_per_user
  InviteLife, InviteMax,                 \* INVITE_DAYS, invite_unused_max
  ChallengeLife,                         \* WEBAUTHN_MINUTES
  MaxTokens, MaxTime                     \* bounds on tokens and on the clock

VARIABLES
  now,
  backend,     \* password_backend of the server
  allowed,     \* the users in the required PAM group
  users,       \* the table, a function from usernames
  passkeys,    \* webauthn_credentials
  sessions,    \* the table; tokens are numbered in the order of creation
  invites,     \* the table, a function from tokens
  challenges,  \* webauthn_challenges, a function from tokens
  tokens,      \* random tokens handed out
  requests     \* what each request is about to do

tables == <<users, passkeys, sessions, invites, challenges>>
vars   == <<now, backend, allowed, tables, tokens, requests>>

Token     == 1..MaxTokens
Name      == Usernames \cup {None}
User      == [admin : BOOLEAN, password : BOOLEAN]
Passkey   == [user : Usernames, by : Name, challenge : Token]
\* answered is an observation: the cookie was sent.
Session   == [token : Token, user : Usernames, created : Nat, seen : Nat, answered : BOOLEAN]
Invite    == [used_by : Name, expires : Nat]
Challenge == [purpose : {"add", "setup", "register", "login"}, user : Usernames,
              invite : Token \cup {None}, expires : Nat]

ASSUME AccountsAssumption ==
  /\ None \notin Usernames \cup Nat \cup Challenge
  /\ UnixUsers \subseteq Usernames
  /\ Backends \subseteq {"Local", "Pam"}
  /\ {SessionLife, SessionIdle, SessionMax, InviteLife, InviteMax, ChallengeLife,
      MaxTokens, MaxTime} \subseteq Nat
  /\ SessionMax > 0 /\ InviteMax > 0

Step == {"none", "create_first_admin", "insert_user_with_invite", "get_or_create_pam_user",
         "create_session", "logout_all", "create_invite", "delete_passkey", "register_start",
         "register_finish", "taken", "store_passkey", "revoke"}

\* The locals of a handler: the user it is about, the user signed in, the token
\* it was given (of an invite, a session or a challenge) and the challenge taken.
Request == [at : Step, user : Name, by : Name, token : Token \cup {None},
            challenge : Challenge \cup {None}]
NoRequest == [at |-> "none", user |-> None, by |-> None, token |-> None, challenge |-> None]

TypeOK ==
  /\ now \in Nat
  /\ backend \in Backends
  /\ allowed \subseteq UnixUsers
  /\ DOMAIN users \subseteq Usernames /\ \A u \in DOMAIN users : users[u] \in User
  /\ \A k \in passkeys : k \in Passkey /\ k.user \in DOMAIN users
  /\ \A s \in sessions : s \in Session /\ s.user \in DOMAIN users
  /\ DOMAIN invites \subseteq Token /\ \A i \in DOMAIN invites : invites[i] \in Invite
  /\ DOMAIN challenges \subseteq Token
  /\ \A c \in DOMAIN challenges : challenges[c] \in Challenge
  /\ tokens \in 0..MaxTokens
  /\ requests \in [Requests -> Request]

Init ==
  /\ now = 0
  /\ backend \in Backends
  /\ allowed = UnixUsers
  /\ users = <<>> /\ passkeys = {} /\ sessions = {}
  /\ invites = <<>> /\ challenges = <<>>
  /\ tokens = 0
  /\ requests = [r \in Requests |-> NoRequest]

-----------------------------------------------------------------------------
With(table, key, row) == [k \in DOMAIN table \cup {key} |-> IF k = key THEN row ELSE table[k]]

At(r, step) == requests[r].at = step
Goto(r, request) == requests' = [requests EXCEPT ![r] = request]
\* The handler goes on, or answers (with an error or not) and is gone.
Continue(r, step) == Goto(r, [requests[r] EXCEPT !.at = step])
Answer(r) == Goto(r, NoRequest)
About(step, user) == [NoRequest EXCEPT !.at = step, !.user = user]

\* random_token()
Mint == /\ tokens < MaxTokens
        /\ tokens' = tokens + 1

setup_required == DOMAIN users = {}
HasPasskey(u)  == \E k \in passkeys : k.user = u
pam_access_allowed(u) == backend = "Pam" => u \in allowed

\* peek_invite
Redeemable(i) == /\ i \in DOMAIN invites
                 /\ invites[i].used_by = None
                 /\ invites[i].expires >= now

-----------------------------------------------------------------------------
(* Accounts are created. *)

\* auth_setup, up to hash_password or pam_provision_user.
Setup(r, name) ==
  /\ At(r, "none")
  /\ setup_required
  /\ \/ backend = "Local" /\ Goto(r, About("create_first_admin", name))
     \/ /\ backend = "Pam" /\ pam_access_allowed(name)
        /\ Goto(r, About("get_or_create_pam_user", name))
  /\ UNCHANGED <<now, backend, allowed, tables, tokens>>

\* With a password, or with the passkey of the challenge that is to be stored.
NewUser(r, admin) ==
  users' = With(users, requests[r].user,
                [admin |-> admin, password |-> requests[r].challenge = None])
Created(r) == Continue(r, IF requests[r].challenge = None THEN "create_session"
                                                          ELSE "store_passkey")

\* Mutant: setup_required is not looked at again in the transaction.
CreateFirstAdmin_unchecked(r) ==
  /\ At(r, "create_first_admin")
  /\ NewUser(r, TRUE) /\ Created(r)
  /\ UNCHANGED <<now, backend, allowed, passkeys, sessions, invites, challenges, tokens>>

\* Mutant: the handler goes on although the transaction was rolled back.
CreateFirstAdmin_goes_on(r) ==
  /\ At(r, "create_first_admin")
  /\ IF setup_required THEN NewUser(r, TRUE) ELSE UNCHANGED users
  /\ Created(r)
  /\ UNCHANGED <<now, backend, allowed, passkeys, sessions, invites, challenges, tokens>>

CreateFirstAdmin(r) ==
  /\ At(r, "create_first_admin")
  /\ IF setup_required THEN NewUser(r, TRUE) /\ Created(r)
                       ELSE UNCHANGED users /\ Answer(r)
  /\ UNCHANGED <<now, backend, allowed, passkeys, sessions, invites, challenges, tokens>>

\* auth_register, up to hash_password.
Register(r, name, invite) ==
  /\ At(r, "none")
  /\ backend = "Local"
  /\ ~setup_required
  /\ Goto(r, [About("insert_user_with_invite", name) EXCEPT !.token = invite])
  /\ UNCHANGED <<now, backend, allowed, tables, tokens>>

\* The invite of the request, or the one its challenge was given for.
InviteOf(r) == IF requests[r].challenge = None THEN requests[r].token
                                               ELSE requests[r].challenge.invite

\* Mutant: the invite is not looked at again when it is used.
InsertUserWithInvite_unchecked(r) ==
  /\ At(r, "insert_user_with_invite")
  /\ IF InviteOf(r) \in DOMAIN invites /\ requests[r].user \notin DOMAIN users
     THEN /\ NewUser(r, FALSE) /\ Created(r)
          /\ invites' = [invites EXCEPT ![InviteOf(r)].used_by = requests[r].user]
     ELSE UNCHANGED <<users, invites>> /\ Answer(r)
  /\ UNCHANGED <<now, backend, allowed, passkeys, sessions, challenges, tokens>>

InsertUserWithInvite(r) ==
  /\ At(r, "insert_user_with_invite")
  /\ IF Redeemable(InviteOf(r)) /\ requests[r].user \notin DOMAIN users
     THEN /\ NewUser(r, FALSE) /\ Created(r)
          /\ invites' = [invites EXCEPT ![InviteOf(r)].used_by = requests[r].user]
     ELSE UNCHANGED <<users, invites>> /\ Answer(r)
  /\ UNCHANGED <<now, backend, allowed, passkeys, sessions, challenges, tokens>>

\* auth_login: the right password, and under PAM a member of the group.
Login(r, name) ==
  /\ At(r, "none")
  /\ \/ /\ backend = "Local"
        /\ name \in DOMAIN users /\ users[name].password
        /\ Goto(r, About("create_session", name))
     \/ /\ backend = "Pam" /\ pam_access_allowed(name)
        /\ Goto(r, About("get_or_create_pam_user", name))
  /\ UNCHANGED <<now, backend, allowed, tables, tokens>>

GetOrCreatePamUser(r) ==
  /\ At(r, "get_or_create_pam_user")
  /\ users' = IF requests[r].user \in DOMAIN users THEN users
              ELSE With(users, requests[r].user,
                        [admin |-> setup_required, password |-> FALSE])
  /\ Continue(r, "create_session")
  /\ UNCHANGED <<now, backend, allowed, passkeys, sessions, invites, challenges, tokens>>

-----------------------------------------------------------------------------
(* Sessions. *)
NewSession(r, answered) == [token |-> tokens', user |-> requests[r].user,
                            created |-> now, seen |-> now, answered |-> answered]
SessionsOf(u) == {s \in sessions : s.user = u}
\* The sessions that stay when at most n of the user may.
Newest(u, n) == {s \in sessions : s.user = u =>
                   Cardinality({q \in SessionsOf(u) : q.token > s.token}) < n}

\* Mutant: the cap is enforced before the new session is there.
CreateSession_cap_first(r) ==
  /\ At(r, "create_session")
  /\ Mint
  /\ \/ sessions' = Newest(requests[r].user, SessionMax) \cup {NewSession(r, TRUE)}
     \/ sessions' = Newest(requests[r].user, SessionMax)
  /\ Answer(r)
  /\ UNCHANGED <<now, backend, allowed, users, passkeys, invites, challenges>>

\* issue_session: insert, then delete all but the newest SessionMax of the user.
\* The second statement may fail or never come: then no cookie is sent.
CreateSession(r) ==
  /\ At(r, "create_session")
  /\ Mint
  /\ \/ sessions' = Newest(requests[r].user, SessionMax - 1) \cup {NewSession(r, TRUE)}
     \/ sessions' = sessions \cup {NewSession(r, FALSE)}
  /\ Answer(r)
  /\ UNCHANGED <<now, backend, allowed, users, passkeys, invites, challenges>>

DeleteSession(token) == sessions' = {s \in sessions : s.token # token}

Logout(r, token) ==
  /\ At(r, "none")
  /\ DeleteSession(token)
  /\ UNCHANGED <<now, backend, allowed, users, passkeys, invites, challenges, tokens, requests>>

Live(s) == s.created + SessionLife >= now /\ s.seen + SessionIdle >= now

SignedIn == {"logout_all", "create_invite", "delete_passkey"}  \* AuthUser, AdminUser
Optional == {"register_start", "register_finish"}              \* OptionalUser

\* current_user with user_from_session, for a handler that goes on at next.  A
\* handler with an OptionalUser may go on without one, as a new request does.
Authenticate(r, token, next) ==
  LET live == {s \in sessions : Live(s)}
      held == {s \in live : s.token = token}
  IN
  /\ At(r, "none")
  /\ sessions' = (live \ held) \cup {[s EXCEPT !.seen = now] : s \in held}
  /\ \/ held = {} /\ Goto(r, NoRequest)
     \/ \E s \in held :
          Goto(r, IF pam_access_allowed(s.user)
                  THEN [NoRequest EXCEPT !.at = next, !.by = s.user]
                  ELSE [NoRequest EXCEPT !.at = "revoke", !.token = token])
  /\ UNCHANGED <<now, backend, allowed, users, passkeys, invites, challenges, tokens>>

\* The user is no longer in the group: the session is deleted.
Revoke(r) ==
  /\ At(r, "revoke")
  /\ DeleteSession(requests[r].token)
  /\ Answer(r)
  /\ UNCHANGED <<now, backend, allowed, users, passkeys, invites, challenges, tokens>>

LogoutAll(r) ==
  /\ At(r, "logout_all")
  /\ sessions' = {s \in sessions : s.user # requests[r].by}
  /\ Answer(r)
  /\ UNCHANGED <<now, backend, allowed, users, passkeys, invites, challenges, tokens>>

-----------------------------------------------------------------------------
(* Invites and passkeys. *)
Unused == {i \in DOMAIN invites : Redeemable(i)}

CreateInvite(r) ==
  /\ At(r, "create_invite")
  /\ IF users[requests[r].by].admin /\ Cardinality(Unused) < InviteMax
     THEN /\ Mint
          /\ invites' = With(invites, tokens', [used_by |-> None, expires |-> now + InviteLife])
     ELSE UNCHANGED <<tokens, invites>>
  /\ Answer(r)
  /\ UNCHANGED <<now, backend, allowed, users, passkeys, sessions, challenges>>

Passkeys(u) == {k \in passkeys : k.user = u}
user_can_drop_passkey(u, left) == left > 0 \/ users[u].password \/ backend = "Pam"

\* Mutant: the passkey that is about to go is counted.
DeletePasskey_counts_it(r, k) ==
  /\ At(r, "delete_passkey")
  /\ k.user = requests[r].by /\ user_can_drop_passkey(k.user, Cardinality(Passkeys(k.user)))
  /\ passkeys' = passkeys \ {k}
  /\ Answer(r)
  /\ UNCHANGED <<now, backend, allowed, users, sessions, invites, challenges, tokens>>

DeletePasskey(r, k) ==
  /\ At(r, "delete_passkey")
  /\ k.user = requests[r].by /\ user_can_drop_passkey(k.user, Cardinality(Passkeys(k.user)) - 1)
  /\ passkeys' = passkeys \ {k}
  /\ Answer(r)
  /\ UNCHANGED <<now, backend, allowed, users, sessions, invites, challenges, tokens>>

\* start_passkey_... and store_webauthn_challenge
StoreChallenge(purpose, user, invite) ==
  /\ Mint
  /\ challenges' = With(challenges, tokens', [purpose |-> purpose, user |-> user,
                          invite |-> invite, expires |-> now + ChallengeLife])

\* wa_register_start: to add a passkey, to set up, or to register with an invite.
\* Nothing reads the new row before the answer, so it is stored in the same step.
RegisterStart(r, name, invite) ==
  /\ At(r, "register_start") \/ At(r, "none")
  /\ \/ requests[r].by # None /\ StoreChallenge("add", requests[r].by, None)
     \/ /\ requests[r].by = None /\ backend = "Local"
        /\ \/ setup_required /\ StoreChallenge("setup", name, None)
           \/ /\ ~setup_required /\ Redeemable(invite)
              /\ StoreChallenge("register", name, invite)
  /\ Answer(r)
  /\ UNCHANGED <<now, backend, allowed, users, passkeys, sessions, invites>>

\* wa_login_start; stored in the same step for the same reason.
LoginStart(r, name) ==
  /\ At(r, "none")
  /\ name \in DOMAIN users /\ pam_access_allowed(name) /\ HasPasskey(name)
  /\ StoreChallenge("login", name, None)
  /\ UNCHANGED <<now, backend, allowed, users, passkeys, sessions, invites, requests>>

Taken(r, c) == Goto(r, [requests[r] EXCEPT !.at = "taken", !.token = c,
                                           !.challenge = challenges[c]])

\* Mutant: the challenge stays in the table.
TakeChallenge_keeps(r, c) ==
  /\ At(r, "register_finish") \/ At(r, "none")
  /\ challenges' = challenges
  /\ IF challenges[c].expires >= now THEN Taken(r, c) ELSE Answer(r)
  /\ UNCHANGED <<now, backend, allowed, users, passkeys, sessions, invites, tokens>>

\* take_webauthn_challenge, for either finish.  The purpose says which one can go
\* on: the state of a registration is not the state of a login.
TakeChallenge(r, c) ==
  /\ At(r, "register_finish") \/ At(r, "none")
  /\ challenges' = [d \in {e \in DOMAIN challenges \ {c} : challenges[e].expires >= now} |->
                      challenges[d]]
  /\ IF challenges[c].expires >= now THEN Taken(r, c) ELSE Answer(r)
  /\ UNCHANGED <<now, backend, allowed, users, passkeys, sessions, invites, tokens>>

FinishAt(r, step) == Goto(r, [requests[r] EXCEPT !.at = step, !.user = requests[r].challenge.user])

\* Mutant: the user of the challenge is not compared with the session.
RegisterFinish_any_session(r) ==
  LET c == requests[r].challenge IN
  /\ At(r, "taken")
  /\ \/ c.purpose = "add" /\ requests[r].by # None /\ FinishAt(r, "store_passkey")
     \/ c.purpose = "setup" /\ setup_required /\ FinishAt(r, "create_first_admin")
     \/ c.purpose = "register" /\ FinishAt(r, "insert_user_with_invite")
  /\ UNCHANGED <<now, backend, allowed, tables, tokens>>

\* wa_register_finish, once the credential is verified.
RegisterFinish(r) ==
  LET c == requests[r].challenge IN
  /\ At(r, "taken")
  /\ \/ c.purpose = "add" /\ requests[r].by = c.user /\ FinishAt(r, "store_passkey")
     \/ c.purpose = "setup" /\ setup_required /\ FinishAt(r, "create_first_admin")
     \/ c.purpose = "register" /\ FinishAt(r, "insert_user_with_invite")
  /\ UNCHANGED <<now, backend, allowed, tables, tokens>>

\* wa_login_finish, once the credential is verified.
LoginFinish(r) ==
  LET c == requests[r].challenge IN
  /\ At(r, "taken")
  /\ c.purpose = "login" /\ requests[r].by = None
  /\ c.user \in DOMAIN users /\ pam_access_allowed(c.user)
  /\ FinishAt(r, "create_session")
  /\ UNCHANGED <<now, backend, allowed, tables, tokens>>

\* store_passkey.  A new user, who is signed in next, did it himself.
StorePasskey(r) ==
  LET c == requests[r].challenge IN
  /\ At(r, "store_passkey")
  /\ passkeys' = passkeys \cup {[user |-> c.user, challenge |-> requests[r].token,
                   by |-> IF c.purpose = "add" THEN requests[r].by ELSE c.user]}
  /\ IF c.purpose = "add" THEN Answer(r) ELSE Continue(r, "create_session")
  /\ UNCHANGED <<now, backend, allowed, users, sessions, invites, challenges, tokens>>

-----------------------------------------------------------------------------
\* A guard, a statement or the whole process fails: the handler ends here.
Fails(r) ==
  /\ ~At(r, "none")
  /\ Answer(r)
  /\ UNCHANGED <<now, backend, allowed, tables, tokens>>

\* The administrator of the system changes the group.
Regroup(members) ==
  /\ backend = "Pam"
  /\ allowed' = members
  /\ UNCHANGED <<now, backend, tables, tokens, requests>>

Tick ==
  /\ now < MaxTime
  /\ now' = now + 1
  /\ UNCHANGED <<backend, allowed, tables, tokens, requests>>

Issued == 1..tokens

Next ==
  \/ Tick
  \/ \E members \in SUBSET UnixUsers : Regroup(members)
  \/ \E r \in Requests :
       \/ \E u \in Usernames : Setup(r, u) \/ Login(r, u) \/ LoginStart(r, u)
       \/ \E u \in Usernames, t \in Issued : Register(r, u, t)
       \/ \E u \in Usernames, t \in Issued \cup {None} : RegisterStart(r, u, t)
       \/ \E t \in Issued : Logout(r, t)
       \/ \E t \in Issued, next \in SignedIn \cup Optional : Authenticate(r, t, next)
       \/ \E c \in DOMAIN challenges : TakeChallenge(r, c)
       \/ \E k \in passkeys : DeletePasskey(r, k)
       \/ CreateFirstAdmin(r) \/ InsertUserWithInvite(r) \/ GetOrCreatePamUser(r)
       \/ CreateSession(r) \/ LogoutAll(r) \/ Revoke(r) \/ CreateInvite(r)
       \/ RegisterFinish(r) \/ LoginFinish(r) \/ StorePasskey(r)
       \/ Fails(r)

Spec == Init /\ [][Next]_vars

-----------------------------------------------------------------------------
(* Properties. *)

\* However setups, registrations and PAM sign-ins meet, exactly one of the
\* accounts is the admin: the first one.
OneAdmin == DOMAIN users # {} => \E a \in DOMAIN users :
                                   \A u \in DOMAIN users : users[u].admin <=> u = a

\* Every other local account has an invite of its own, which brought it in: two
\* requests that hold one invite never both get an account for it.
InvitedOnce == backend = "Local" =>
  \A u \in DOMAIN users : users[u].admin \/ \E i \in DOMAIN invites : invites[i].used_by = u

\* A user never holds more than SessionMax sessions, however many requests sign
\* him in at once.  One more may be in the table, whose sign-in was interrupted:
\* nobody has its cookie, and the next sign-in counts it.
SessionsBounded == \A u \in DOMAIN users :
                     Cardinality({s \in SessionsOf(u) : s.answered}) <= SessionMax

\* A challenge is answered once: while a request holds it, no other does, it is
\* no longer in the table, and after its passkey is stored nobody holds it.
AnsweredOnce == \A r \in Requests : requests[r].challenge # None =>
  /\ requests[r].token \notin DOMAIN challenges
  /\ \A q \in Requests \ {r} : requests[q].challenge # None =>
                                 requests[q].token # requests[r].token
  /\ ~At(r, "create_session") => \A k \in passkeys : k.challenge # requests[r].token

\* A passkey belongs to the user who was signed in when it was added, also when
\* another user signed in on the same browser after the challenge was given.
OwnPasskeys == \A k \in passkeys : k.by = k.user

\* A local account that can sign in stays able to: requests that delete its
\* passkeys never leave it without a password and a passkey.
HasCredential(u) == users[u].password \/ HasPasskey(u)
StaysReachable == [][backend = "Local" =>
                     \A u \in DOMAIN users : HasCredential(u) => HasCredential(u)']_vars
=============================================================================
