------------------------------ MODULE Accounts ------------------------------
(***************************************************************************)
(* One account of the control plane: registration, verification of the     *)
(* address, password reset, sign-in and the revocable application sessions.*)
(*                                                                         *)
(* An account request that runs a transaction is split where its snapshot  *)
(* is taken and where it commits; it is aborted when another request has   *)
(* written a document it writes.  A password reset request, a sign-in and  *)
(* the check of a session run outside a transaction, one await per step.   *)
(***************************************************************************)
EXTENDS Naturals, FiniteSets

CONSTANTS Passwords,   \* the passwords people choose
          Tokens,      \* identities of auth_tokens documents
          Sessions,    \* identities of app_sessions documents
          Requests,    \* account requests in flight
          Logins,      \* sign-ins in flight
          Checks,      \* authenticated requests in flight
          MaxResets,   \* bound on the password resets of a behaviour
          None         \* no password, no token

VARIABLES user,        \* the users document of the address
          tokens,      \* the auth_tokens documents of the address
          sessions,    \* the app_sessions documents of the user
          requests,    \* register, verify, resend, forgot and reset requests
          logins,      \* sign-ins
          checks,      \* authenticated requests
          resets       \* password resets committed so far (history)

vars == <<user, tokens, sessions, requests, logins, checks, resets>>

Kinds == {"verify_email", "reset_password"}
User == [exists : BOOLEAN, verified : BOOLEAN, linked : BOOLEAN,
         status : {"active", "suspended"},
         password : Passwords \cup {None}, version : 0 .. MaxResets]
\* "unused" past its expiry is "expired"; the TTL index frees the identity.
Token == [state : {"free", "unused", "expired", "used"},
          kind : Kinds \cup {None}]
\* sawResets is history: the resets committed when the user was read.
Session == [state : {"free", "live", "expired", "revoked"},
            version : 0 .. MaxResets, sawResets : 0 .. MaxResets]
Documents == {"user"} \cup Tokens \cup Sessions
Operations == {"register", "verify", "resend", "reset"}
\* An open transaction: what it was asked, and the documents it found to write.
Transaction == [op : Operations, password : Passwords \cup {None},
                token : Tokens \cup {None}, writes : SUBSET Documents]
Idle == [op |-> "idle"]
Request == {Idle} \cup Transaction
             \cup [op : {"forgot"}, stage : {"invalidate", "issue"}]
Login == [stage : {"idle", "signed", "read", "event"}, provider : BOOLEAN,
          version : 0 .. MaxResets, sawResets : 0 .. MaxResets]
Check == [stage : {"idle", "user", "accepted"}, session : Sessions \cup {None},
          resets : 0 .. MaxResets]

TypeOK ==
  /\ user \in User
  /\ tokens \in [Tokens -> Token]
  /\ sessions \in [Sessions -> Session]
  /\ requests \in [Requests -> Request]
  /\ logins \in [Logins -> Login]
  /\ checks \in [Checks -> Check]
  /\ resets \in 0 .. MaxResets

NoLogin == [stage |-> "idle", provider |-> FALSE, version |-> 0, sawResets |-> 0]
NoCheck == [stage |-> "idle", session |-> None, resets |-> 0]

Init ==
  /\ user = [exists |-> FALSE, verified |-> FALSE, linked |-> FALSE,
             status |-> "active", password |-> None, version |-> 0]
  /\ tokens = [t \in Tokens |-> [state |-> "free", kind |-> None]]
  /\ sessions = [s \in Sessions |->
                   [state |-> "free", version |-> 0, sawResets |-> 0]]
  /\ requests = [p \in Requests |-> Idle]
  /\ logins = [l \in Logins |-> NoLogin]
  /\ checks = [c \in Checks |-> NoCheck]
  /\ resets = 0

-----------------------------------------------------------------------------
(* Tokens and documents.                                                   *)

\* The tokens of a kind nobody has used: updateMany and TTL see expired ones too.
Unspent(T, kind) ==
  {t \in Tokens : T[t].kind = kind /\ T[t].state \in {"unused", "expired"}}

Spend(T, S) == [t \in Tokens |-> IF t \in S THEN [T[t] EXCEPT !.state = "used"]
                                            ELSE T[t]]

\* issueAuthToken stores a fresh document.
Issue(T, t, kind) ==
  [T EXCEPT ![t] = [state |-> "unused", kind |-> kind]]

\* consumeAuthToken finds the token by digest, kind, no use and no expiry.
Consumable(T, t, kind) == T[t].kind = kind /\ T[t].state = "unused"

\* A write to D aborts the open transactions that found a document of D to
\* write (the driver may run one again, which is a new Begin), and ends p.
Touch(D, p) ==
  requests' = [q \in Requests |->
                 IF \/ q = p
                    \/ requests[q].op \in Operations /\ requests[q].writes \cap D # {}
                 THEN Idle ELSE requests[q]]

End(p) == requests' = [requests EXCEPT ![p] = Idle]

Active == user.exists /\ user.status = "active"

\* The sessions a revocation matches: not revoked, expired or not.
Unrevoked == {s \in Sessions : sessions[s].state \in {"live", "expired"}}

-----------------------------------------------------------------------------
(* Transactions.                                                           *)

\* A request whose snapshot refuses it changes nothing and is not a step.
Begin(p, op, password, t, writes) ==
  /\ requests[p] = Idle
  /\ requests' = [requests EXCEPT ![p] =
       [op |-> op, password |-> password, token |-> t, writes |-> writes]]
  /\ UNCHANGED <<user, tokens, sessions, logins, checks, resets>>

\* A registration of a verified address is answered and changes nothing.
MutRegisterAllowed == TRUE
RegisterAllowed == ~(user.exists /\ user.verified)

BeginRegister(p, password) ==
  /\ RegisterAllowed
  /\ Begin(p, "register", password, None,
           {"user"} \cup Unspent(tokens, "verify_email"))

BeginResend(p) ==
  /\ Active /\ ~user.verified /\ user.password # None
  /\ Begin(p, "resend", None, None, Unspent(tokens, "verify_email"))

BeginVerify(p, t) ==
  /\ Consumable(tokens, t, "verify_email")
  /\ Active /\ ~user.verified
  /\ Begin(p, "verify", None, t, {"user", t})

BeginReset(p, t, password) ==
  /\ Consumable(tokens, t, "reset_password")
  /\ Active /\ user.verified
  /\ Begin(p, "reset", password, t, {"user", t} \cup Unrevoked)

\* The unspent links found are spent and a fresh one is issued.
ReissueVerification(p) ==
  \E t \in Tokens :
     /\ tokens[t].state = "free"
     /\ tokens' = Issue(Spend(tokens, requests[p].writes \cap Tokens),
                        t, "verify_email")
     /\ Touch(requests[p].writes, p)

CommitRegister(p) ==
  /\ requests[p].op = "register"
  /\ user' = [user EXCEPT !.exists = TRUE, !.password = requests[p].password]
  /\ ReissueVerification(p)
  /\ UNCHANGED <<sessions, logins, checks, resets>>

CommitResend(p) ==
  /\ requests[p].op = "resend"
  /\ ReissueVerification(p)
  /\ UNCHANGED <<user, sessions, logins, checks, resets>>

CommitVerify(p) ==
  /\ requests[p].op = "verify"
  /\ tokens' = Spend(tokens, {requests[p].token})
  /\ user' = [user EXCEPT !.verified = TRUE]
  /\ Touch(requests[p].writes, p)
  /\ UNCHANGED <<sessions, logins, checks, resets>>

\* resetPassword revokes the sessions its snapshot saw.
MutResetUser(password) == [user EXCEPT !.password = password]
MutResetTwice(password) == [user EXCEPT !.password = password, !.version = @ + 2]
ResetUser(password) ==
  [user EXCEPT !.password = password, !.version = @ + 1]

CommitReset(p) ==
  /\ requests[p].op = "reset"
  /\ resets < MaxResets
  /\ tokens' = Spend(tokens, {requests[p].token})
  /\ user' = ResetUser(requests[p].password)
  /\ sessions' = [s \in Sessions |->
       IF s \in requests[p].writes THEN [sessions[s] EXCEPT !.state = "revoked"]
                                   ELSE sessions[s]]
  /\ resets' = resets + 1
  /\ Touch(requests[p].writes, p)
  /\ UNCHANGED <<logins, checks>>

\* An error or a crash before the commit leaves nothing behind.
Rollback(p) ==
  /\ requests[p].op \in Operations
  /\ End(p)
  /\ UNCHANGED <<user, tokens, sessions, logins, checks, resets>>

-----------------------------------------------------------------------------
(* requestPasswordReset: three awaits and no transaction.                  *)

ForgotRead(p) ==
  /\ requests[p] = Idle
  /\ Active /\ user.verified
  /\ requests' = [requests EXCEPT ![p] = [op |-> "forgot", stage |-> "invalidate"]]
  /\ UNCHANGED <<user, tokens, sessions, logins, checks, resets>>

\* The reset links a new one replaces.
Replaced == Unspent(tokens, "reset_password")

ForgotInvalidate(p) ==
  /\ requests[p].op = "forgot" /\ requests[p].stage = "invalidate"
  /\ tokens' = Spend(tokens, Replaced)
  /\ requests' = [q \in Requests |->
       IF q = p THEN [requests[p] EXCEPT !.stage = "issue"]
       ELSE IF requests[q].op \in Operations /\ requests[q].writes \cap Replaced # {}
            THEN Idle ELSE requests[q]]
  /\ UNCHANGED <<user, sessions, logins, checks, resets>>

ForgotIssue(p) ==
  /\ requests[p].op = "forgot" /\ requests[p].stage = "issue"
  /\ \E t \in Tokens : /\ tokens[t].state = "free"
                       /\ tokens' = Issue(tokens, t, "reset_password")
  /\ End(p)
  /\ UNCHANGED <<user, sessions, logins, checks, resets>>

\* The process stops between two awaits of the request.
ForgotCrash(p) ==
  /\ requests[p].op = "forgot"
  /\ End(p)
  /\ UNCHANGED <<user, tokens, sessions, logins, checks, resets>>

-----------------------------------------------------------------------------
(* Sign-in: the password or the provider vouches for the user, then the    *)
(* user is read again, then the session is stored with what was read.      *)

Signed(l, provider) ==
  /\ logins' = [logins EXCEPT ![l].stage = "signed", ![l].provider = provider]
  /\ Touch({"user"}, None)
  /\ UNCHANGED <<tokens, sessions, checks, resets>>

LoginVerify(l, password) ==
  /\ logins[l].stage = "idle"
  /\ Active /\ user.verified /\ user.password = password
  /\ UNCHANGED user
  /\ Signed(l, FALSE)

\* The adapter creates or verifies the user of a magic link.
MagicLink(l) ==
  /\ logins[l].stage = "idle"
  /\ user' = [user EXCEPT !.exists = TRUE, !.verified = TRUE]
  /\ Signed(l, FALSE)

\* GitHub and Google sign in a user they created or are linked to.
ProviderSignIn(l) ==
  /\ logins[l].stage = "idle"
  /\ user.exists => user.linked
  /\ user' = [user EXCEPT !.exists = TRUE, !.linked = TRUE]
  /\ Signed(l, TRUE)

\* createAppSession reads the user ...
LoginRead(l) ==
  /\ logins[l].stage = "signed"
  /\ Active
  /\ logins' = [logins EXCEPT ![l].stage = "read", ![l].version = user.version,
                              ![l].sawResets = resets]
  /\ UNCHANGED <<user, tokens, sessions, requests, checks, resets>>

\* ... and stores a session with what it read.
LoginCreate(l) ==
  /\ logins[l].stage = "read"
  /\ \E s \in Sessions :
       /\ sessions[s].state = "free"
       /\ sessions' = [sessions EXCEPT ![s] =
            [state |-> "live", version |-> logins[l].version,
             sawResets |-> logins[l].sawResets]]
  /\ logins' = IF logins[l].provider
               THEN [logins EXCEPT ![l].stage = "event"]
               ELSE [logins EXCEPT ![l] = NoLogin]
  /\ UNCHANGED <<user, tokens, requests, checks, resets>>

\* The signIn event that follows marks a provider's address verified.
ProviderVerified(l) ==
  /\ logins[l].stage = "event"
  /\ ~user.verified
  /\ user' = [user EXCEPT !.verified = TRUE]
  /\ logins' = [logins EXCEPT ![l] = NoLogin]
  /\ Touch({"user"}, None)
  /\ UNCHANGED <<tokens, sessions, checks, resets>>

\* A user who is not active, a lost connection, an event with nothing to do.
LoginEnd(l) ==
  /\ logins[l].stage # "idle"
  /\ logins' = [logins EXCEPT ![l] = NoLogin]
  /\ UNCHANGED <<user, tokens, sessions, requests, checks, resets>>

-----------------------------------------------------------------------------
(* validateAppSession reads the session, then the user.                    *)

SessionValid(s) == sessions[s].state = "live"
UserValid(s) == Active /\ user.version = sessions[s].version

CheckSession(c, s) ==
  /\ checks[c].stage = "idle"
  /\ sessions[s].state # "free"
  /\ SessionValid(s)
  /\ checks' = [checks EXCEPT ![c] =
       [stage |-> "user", session |-> s, resets |-> resets]]
  /\ UNCHANGED <<user, tokens, sessions, requests, logins, resets>>

CheckUser(c) ==
  /\ checks[c].stage = "user"
  /\ UserValid(checks[c].session)
  /\ checks' = [checks EXCEPT ![c].stage = "accepted"]
  /\ UNCHANGED <<user, tokens, sessions, requests, logins, resets>>

CheckRefused(c) ==
  /\ checks[c].stage = "user"
  /\ ~UserValid(checks[c].session)
  /\ checks' = [checks EXCEPT ![c] = NoCheck]
  /\ UNCHANGED <<user, tokens, sessions, requests, logins, resets>>

Finish(c) == checks' = [checks EXCEPT ![c] = NoCheck]

\* An accepted request that changes no session.
Served(c) ==
  /\ checks[c].stage = "accepted"
  /\ Finish(c)
  /\ UNCHANGED <<user, tokens, sessions, requests, logins, resets>>

Revoke(S) ==
  /\ sessions' = [s \in Sessions |->
       IF s \in S THEN [sessions[s] EXCEPT !.state = "revoked"] ELSE sessions[s]]
  /\ Touch(S, None)

\* revokeAppSession: one session of the user, or its own on sign-out.
RevokeSession(c, s) ==
  /\ checks[c].stage = "accepted"
  /\ s \in Unrevoked
  /\ Revoke({s})
  /\ Finish(c)
  /\ UNCHANGED <<user, tokens, logins, resets>>

Others(own) == Unrevoked \ {own}

RevokeOtherSessions(c) ==
  /\ checks[c].stage = "accepted"
  /\ Revoke(Others(checks[c].session))
  /\ Finish(c)
  /\ UNCHANGED <<user, tokens, logins, resets>>

-----------------------------------------------------------------------------
(* Time and operators.                                                     *)

TokenExpires(t) ==
  /\ tokens[t].state = "unused"
  /\ tokens' = [tokens EXCEPT ![t].state = "expired"]
  /\ UNCHANGED <<user, sessions, requests, logins, checks, resets>>

TokenRemoved(t) ==
  /\ tokens[t].state \in {"expired", "used"}
  /\ tokens' = [tokens EXCEPT ![t] = [state |-> "free", kind |-> None]]
  /\ Touch({t}, None)
  /\ UNCHANGED <<user, sessions, logins, checks, resets>>

SessionExpires(s) ==
  /\ sessions[s].state = "live"
  /\ sessions' = [sessions EXCEPT ![s].state = "expired"]
  /\ UNCHANGED <<user, tokens, requests, logins, checks, resets>>

\* No code of the repository suspends a user; an operator does.
Suspend ==
  /\ Active
  /\ user' = [user EXCEPT !.status = "suspended"]
  /\ Touch({"user"}, None)
  /\ UNCHANGED <<tokens, sessions, logins, checks, resets>>

Next ==
  \/ \E p \in Requests :
       \/ \E password \in Passwords : BeginRegister(p, password)
       \/ BeginResend(p)
       \/ \E t \in Tokens : BeginVerify(p, t)
       \/ \E t \in Tokens, password \in Passwords : BeginReset(p, t, password)
       \/ CommitRegister(p) \/ CommitResend(p) \/ CommitVerify(p)
       \/ CommitReset(p) \/ Rollback(p)
       \/ ForgotRead(p) \/ ForgotInvalidate(p) \/ ForgotIssue(p) \/ ForgotCrash(p)
  \/ \E l \in Logins :
       \/ \E password \in Passwords : LoginVerify(l, password)
       \/ MagicLink(l) \/ ProviderSignIn(l) \/ ProviderVerified(l)
       \/ LoginRead(l) \/ LoginCreate(l) \/ LoginEnd(l)
  \/ \E c \in Checks :
       \/ \E s \in Sessions : CheckSession(c, s) \/ RevokeSession(c, s)
       \/ CheckUser(c) \/ CheckRefused(c) \/ Served(c) \/ RevokeOtherSessions(c)
  \/ \E t \in Tokens : TokenExpires(t) \/ TokenRemoved(t)
  \/ \E s \in Sessions : SessionExpires(s)
  \/ Suspend

Spec == Init /\ [][Next]_vars

-----------------------------------------------------------------------------
(* Properties.                                                             *)

\* A request that is checked after a password reset has committed is refused
\* when its session was stored from a user read before that reset, also when
\* the session was stored after the reset and so was not revoked by it.
OlderSessionsEnd ==
  \A c \in Checks : checks[c].stage = "accepted" =>
     sessions[checks[c].session].sawResets >= checks[c].resets

\* Once an address is verified its password changes only in a step that spends
\* a reset token (which may expire while the transaction runs): a registration
\* that began before the verification does not overwrite it.
PasswordNeedsToken ==
  [][user.verified /\ user'.password # user.password =>
       \E t \in Unspent(tokens, "reset_password") : tokens'[t].state = "used"]_vars

=============================================================================
