------------------------------- MODULE Accounts -------------------------------
(***************************************************************************)
(* Accounts (routers/auth.py): registration, login, token refresh, the     *)
(* password reset and the callbacks of two identity providers, with the    *)
(* audit log (auth_events).                                                *)
(*                                                                         *)
(* An account is known by its email, which is unique in the table; a       *)
(* password by its value, a token by the account it is for.  Registration  *)
(* looks and inserts in two steps, in threads of their own; a callback     *)
(* runs on the event loop and awaits nothing between its look and its      *)
(* commit, so that it is one step, as the other requests are modelled.     *)
(***************************************************************************)
EXTENDS Integers, Sequences, FiniteSets

CONSTANTS
    Emails,         \* email addresses
    Passwords,      \* passwords
    Providers,      \* "google" and "github", or one of them
    Identities,     \* the ids that a provider gives its users
    Registrants,    \* the registrations that can be under way at the same time
    MaxEvents,      \* bound: how many events are ever logged
    Absent          \* no password, no provider, no identity

ASSUME AccountsAssumption == Absent \notin Providers

VARIABLES
    accounts,       \* the rows of users, by email
    registering,    \* what each registration has under way
    resetTokens,    \* the reset tokens: account, and whether used or expired
    authEvents,     \* the audit log
    granted         \* how many pairs of tokens each account was given, and how

accountVars == <<accounts, registering, resetTokens, authEvents, granted>>

-----------------------------------------------------------------------------
NoAccount == [exists |-> FALSE]

AccountRows == [exists : {TRUE}, password : Passwords \cup {Absent},
                provider : Providers \cup {Absent}, identity : Identities \cup {Absent},
                verified : BOOLEAN, active : BOOLEAN]

EventTypes == {"register_email", "login_email", "token_refresh", "password_reset_request",
               "password_reset_complete", "register_oauth", "login_oauth"}

AuthEvents == [type : EventTypes, account : Emails \cup {Absent}, success : BOOLEAN]

ResetTokens == [account : Emails, used : BOOLEAN, expired : BOOLEAN]

AccountsTypeOK ==
    /\ accounts \in [Emails -> AccountRows \cup {NoAccount}]
    /\ registering \in [Registrants -> Emails \cup {Absent}]
    /\ resetTokens \subseteq ResetTokens
    /\ \A i \in DOMAIN authEvents : authEvents[i] \in AuthEvents
    /\ granted \in [Emails -> Nat]

AccountsInit ==
    /\ accounts = [e \in Emails |-> NoAccount]
    /\ registering = [r \in Registrants |-> Absent]
    /\ resetTokens = {} /\ authEvents = << >>
    /\ granted = [e \in Emails |-> 0]

Exists(e) == accounts[e] # NoAccount
Active(e) == Exists(e) /\ accounts[e].active

\* _log_event: a row is appended, in a commit of its own.
Log(type, account, success) ==
    /\ Len(authEvents) < MaxEvents
    /\ authEvents' = Append(authEvents,
                            [type |-> type, account |-> account, success |-> success])

Grant(e) == granted' = [granted EXCEPT ![e] = @ + 1]

-----------------------------------------------------------------------------
\* An email that is known already is a conflict, and logged as a failure without account.
RegisterLook(r) ==
    /\ registering[r] = Absent
    /\ \E e \in Emails :
          IF Exists(e)
          THEN Log("register_email", Absent, FALSE) /\ UNCHANGED registering
          ELSE registering' = [registering EXCEPT ![r] = e] /\ UNCHANGED authEvents
    /\ UNCHANGED <<accounts, resetTokens, granted>>

\* The unique column refuses an email that was inserted meanwhile; nothing is logged then.
RegisterInsert(r) ==
    /\ registering[r] # Absent
    /\ registering' = [registering EXCEPT ![r] = Absent]
    /\ IF Exists(registering[r])
       THEN UNCHANGED <<accounts, authEvents, granted>>
       ELSE /\ \E p \in Passwords :
                  accounts' = [accounts EXCEPT ![registering[r]] =
                                  [exists |-> TRUE, password |-> p, provider |-> Absent,
                                   identity |-> Absent, verified |-> FALSE,
                                   active |-> TRUE]]
            /\ Log("register_email", registering[r], TRUE)
            /\ Grant(registering[r])
    /\ UNCHANGED resetTokens

\* An account without a password, made by a provider, cannot log in with one.
PasswordMatches(e, p) == Exists(e) /\ accounts[e].password = p /\ p # Absent

\* Fault: a login is logged when it failed.
LoginLogsFailures ==
    /\ \E e \in Emails, p \in Passwords :
          IF PasswordMatches(e, p)
          THEN (IF Active(e) THEN Grant(e) ELSE UNCHANGED granted) /\ UNCHANGED authEvents
          ELSE Log("login_email", IF Exists(e) THEN e ELSE Absent, FALSE) /\ UNCHANGED granted
    /\ UNCHANGED <<accounts, registering, resetTokens>>

\* The event is logged before the verdict, and says whether the password was right; a
\* disabled account is refused after that.
Login ==
    /\ \E e \in Emails, p \in Passwords :
          /\ Log("login_email", IF Exists(e) THEN e ELSE Absent, PasswordMatches(e, p))
          /\ IF PasswordMatches(e, p) /\ Active(e) THEN Grant(e) ELSE UNCHANGED granted
    /\ UNCHANGED <<accounts, registering, resetTokens>>

\* A refresh token stays good until it expires: it is not bound to the pair it came with.
Refresh ==
    /\ \E e \in Emails :
          /\ granted[e] > 0 /\ Active(e)
          /\ Log("token_refresh", e, TRUE)
          /\ Grant(e)
    /\ UNCHANGED <<accounts, registering, resetTokens>>

\* The account's unused tokens are deleted and a new one is stored.
ForgotPassword ==
    /\ \E e \in Emails :
          /\ Active(e)
          /\ resetTokens' = {t \in resetTokens : t.account # e \/ t.used}
                            \cup {[account |-> e, used |-> FALSE, expired |-> FALSE]}
          /\ Log("password_reset_request", e, TRUE)
    /\ UNCHANGED <<accounts, registering, granted>>

\* is_valid.
Valid(t) == ~t.used /\ ~t.expired

\* The password is set and the token spent in one commit.
ResetPassword ==
    /\ \E t \in resetTokens, p \in Passwords :
          /\ Valid(t) /\ Active(t.account)
          /\ accounts' = [accounts EXCEPT ![t.account].password = p]
          /\ resetTokens' = (resetTokens \ {t}) \cup {[t EXCEPT !.used = TRUE]}
          /\ Log("password_reset_complete", t.account, TRUE)
    /\ UNCHANGED <<registering, granted>>

ExpireToken ==
    /\ \E t \in resetTokens :
          Valid(t) /\ resetTokens' = (resetTokens \ {t}) \cup {[t EXCEPT !.expired = TRUE]}
    /\ UNCHANGED <<accounts, registering, authEvents, granted>>

-----------------------------------------------------------------------------
(* The callbacks of the providers.                                         *)

Linked(p, i) == {e \in Emails : Exists(e) /\ accounts[e].provider = p /\ accounts[e].identity = i}

\* Fault: the account is looked up by its email only.
FindByEmail(p, i, e) == IF Exists(e) THEN {e} ELSE {}

\* The account that is linked to the identity, or else the one with the email.
FindAccount(p, i, e) ==
    IF Linked(p, i) # {} THEN Linked(p, i) ELSE IF Exists(e) THEN {e} ELSE {}

\* A new account, or one that is found: it is linked unless it is linked already.  A
\* provider that gives no email is refused before.
OAuthCallback ==
    /\ \E p \in Providers, i \in Identities, e \in Emails :
          IF FindAccount(p, i, e) = {}
          THEN /\ accounts' = [accounts EXCEPT ![e] =
                                  [exists |-> TRUE, password |-> Absent, provider |-> p,
                                   identity |-> i, verified |-> TRUE, active |-> TRUE]]
               /\ Log("register_oauth", e, TRUE)
               /\ Grant(e)
          ELSE \E known \in FindAccount(p, i, e) :
               /\ accounts' =
                     IF accounts[known].provider # Absent THEN accounts
                     ELSE [accounts EXCEPT ![known].provider = p, ![known].identity = i,
                                           ![known].verified = TRUE]
               /\ Log("login_oauth", known, TRUE)
               /\ Grant(known)
    /\ UNCHANGED <<registering, resetTokens>>

\* An account is disabled, by hand.
Disable ==
    /\ \E e \in Emails :
          Active(e) /\ accounts' = [accounts EXCEPT ![e].active = FALSE]
    /\ UNCHANGED <<registering, resetTokens, authEvents, granted>>

AccountsNext ==
    \/ \E r \in Registrants : RegisterLook(r) \/ RegisterInsert(r)
    \/ Login \/ Refresh \/ ForgotPassword \/ ResetPassword \/ ExpireToken
    \/ OAuthCallback \/ Disable

AccountsSpec == AccountsInit /\ [][AccountsNext]_accountVars

-----------------------------------------------------------------------------
(* Properties.                                                             *)

\* An identity of a provider belongs to one account, whatever emails it comes with and
\* however registrations, links and callbacks follow each other (the lookup of the
\* callbacks: the table itself has no such constraint).
OneAccountPerIdentity ==
    \A p \in Providers, i \in Identities : Cardinality(Linked(p, i)) <= 1

\* Every pair of tokens an account was given has an event of its own in the log that says
\* so, and no such pair was given before its event (_log_event).
GrantsLogged ==
    \A e \in Emails :
        LET says(v) == v.account = e /\ v.success
                       /\ v.type \notin {"password_reset_request", "password_reset_complete"}
        IN  granted[e] <= Cardinality({i \in DOMAIN authEvents : says(authEvents[i])})

=============================================================================
