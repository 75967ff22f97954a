------------------------------ MODULE Accounts ------------------------------
(* Faculty accounts: self-registration with a mailed code (auth/registration.py *)
(* and the routes around it), sign-in and sessions (auth/service.py), and the   *)
(* administrator's review, edits and deletion (admin/user_service.py).          *)
(*                                                                              *)
(* A request is a database transaction on a thread of its own, under READ       *)
(* COMMITTED.  SELECT ... FOR UPDATE waits for the row and reads it fresh;      *)
(* between two statements other requests act.  The administrator's operations   *)
(* lock first and read after, so each is one step that waits for the row.       *)
(* The in-memory rate limiters only refuse requests, as anybody may stay away.  *)
EXTENDS Integers, FiniteSets

CONSTANTS
    None,          \* no row, no value
    Visits,        \* requests of visitors served at one time
    Emails, Ids,   \* addresses; user_ids the database may hand out
    MaxTokens,     \* bound: registrations that are started
    MaxTries,      \* wrong codes a mailed code survives
    MaxReviews     \* bound: operations of the administrator

VARIABLES
    users,      \* rows of users, or None
    pending,    \* rows of pending_registrations by email, or None
    sessions,   \* users with a session that is neither revoked nor expired
    visit,      \* the local state of each request
    userLock, pendingLock,   \* row locks that are held from one step to the next
    tokens,     \* registration tokens issued; a token also names the data submitted with it
    reviews,    \* operations of the administrator so far
    mailedTo    \* history: the address that received the token's code

accountVars ==
    <<users, pending, sessions, visit, userLock, pendingLock, tokens, reviews, mailedTo>>

Tokens == 1..MaxTokens
ByAdmin == 0    \* the data of an account that an administrator created

AccountStates == {"pending", "approved", "rejected", "suspended"}
User == [email : Emails, admin : BOOLEAN, status : AccountStates, active : BOOLEAN,
         data : Tokens \cup {ByAdmin}]

\* "recent" is the minute after a mail, "valid" the rest of the code's ten minutes.
Registration == [token : Tokens, for : Ids \cup {None}, wrong : 0..MaxTries,
                 age : {"recent", "valid", "expired"}]

ASSUME AccountsAssumption ==
    /\ None \notin Visits \cup Emails \cup Ids /\ None \notin User \cup Registration
    /\ Emails # {} /\ Ids # {} /\ MaxTokens \in Nat \ {0}
    /\ MaxTries \in Nat \ {0} /\ MaxReviews \in Nat

Steps == {"idle", "lookup", "insert", "mail", "lockUser", "confirm", "session"}
Request(step, email, token, for, user) ==
    [step |-> step, email |-> email, token |-> token, for |-> for, user |-> user]
Idle == Request("idle", None, ByAdmin, None, None)

AccountsInit ==
    /\ users = [i \in Ids |-> None] /\ pending = [e \in Emails |-> None]
    /\ sessions = {} /\ visit = [v \in Visits |-> Idle]
    /\ userLock = [i \in Ids |-> None] /\ pendingLock = [e \in Emails |-> None]
    /\ tokens = 0 /\ reviews = 0
    /\ mailedTo = [t \in Tokens |-> None]

Stored(i) == users[i] # None
Owners(e) == {i \in Ids : Stored(i) /\ users[i].email = e}
Changed(row, status, active, data) ==
    [email |-> row.email, admin |-> row.admin, status |-> status, active |-> active,
     data |-> data]
OwnerOf(e) == IF Owners(e) = {} THEN None ELSE CHOOSE i \in Owners(e) : TRUE
AtStep(v, step) == visit[v].step = step
Proceed(v, request) == visit' = [visit EXCEPT ![v] = request]
Continue(v, step) == Proceed(v, Request(step, visit[v].email, visit[v].token, visit[v].for,
                                        visit[v].user))
\* The transaction ends and the locks of the request go.
Leave(v) == visit' = [visit EXCEPT ![v] = Idle]
FreeUsers(v) == userLock' = [i \in Ids |-> IF userLock[i] = v THEN None ELSE userLock[i]]
FreePending(v) ==
    pendingLock' = [e \in Emails |-> IF pendingLock[e] = v THEN None ELSE pendingLock[e]]

-----------------------------------------------------------------------------
(* start_registration and resend_registration_otp *)

\* The account of the address is read, not locked: only a rejected faculty account may
\* register again.
StartRegistration(v, e) ==
    /\ AtStep(v, "idle") /\ tokens < MaxTokens
    /\ LET owner == OwnerOf(e) IN
        IF owner # None /\ (users[owner].admin \/ users[owner].status # "rejected")
        THEN Leave(v) /\ UNCHANGED <<tokens, mailedTo>>
        ELSE /\ tokens' = tokens + 1
             /\ mailedTo' = [mailedTo EXCEPT ![tokens'] = e]
             /\ Proceed(v, Request("lookup", e, tokens', owner, None))
    /\ UNCHANGED <<users, pending, sessions, userLock, pendingLock, reviews>>

\* The row of the address is locked, and a code is mailed once a minute.  Without a row, one
\* is inserted.
FindRegistration(v) ==
    LET e == visit[v].email IN
    /\ AtStep(v, "lookup")
    /\ IF pending[e] = None
       THEN Continue(v, "insert") /\ UNCHANGED pendingLock
       ELSE /\ pendingLock[e] = None
            /\ IF pending[e].age = "recent"
               THEN Leave(v) /\ UNCHANGED pendingLock
               ELSE Continue(v, "mail") /\ pendingLock' = [pendingLock EXCEPT ![e] = v]
    /\ UNCHANGED <<users, pending, sessions, userLock, tokens, reviews, mailedTo>>

\* The address is unique: an insert waits for another one and then fails.
InsertRegistration(v) ==
    LET e == visit[v].email IN
    /\ AtStep(v, "insert") /\ pendingLock[e] = None
    /\ IF pending[e] # None
       THEN Leave(v) /\ UNCHANGED pendingLock
       ELSE Continue(v, "mail") /\ pendingLock' = [pendingLock EXCEPT ![e] = v]
    /\ UNCHANGED <<users, pending, sessions, userLock, tokens, reviews, mailedTo>>

\* A second code for the same token and data.
Resend(v, t) ==
    /\ AtStep(v, "idle")
    /\ \E e \in Emails :
        /\ pending[e] # None /\ pending[e].token = t
        /\ pendingLock[e] = None
        /\ IF pending[e].age = "recent"
           THEN Leave(v) /\ UNCHANGED pendingLock
           ELSE /\ Proceed(v, Request("mail", e, t, pending[e].for, None))
                /\ pendingLock' = [pendingLock EXCEPT ![e] = v]
    /\ UNCHANGED <<users, pending, sessions, userLock, tokens, reviews, mailedTo>>

\* The code is mailed, then the row is committed; a new code has not been tried yet.
MailCode(v) ==
    LET e == visit[v].email IN
    /\ AtStep(v, "mail")
    /\ visit[v].for # None => Stored(visit[v].for)
    /\ pending' = [pending EXCEPT ![e] =
            [token |-> visit[v].token, for |-> visit[v].for, wrong |-> 0, age |-> "recent"]]
    /\ Leave(v) /\ FreePending(v)
    /\ UNCHANGED <<users, sessions, userLock, tokens, reviews, mailedTo>>

\* The mail server fails, or the commit does (a deleted account is referred to).
MailFails(v) ==
    /\ AtStep(v, "mail")
    /\ Leave(v) /\ FreePending(v)
    /\ UNCHANGED <<users, pending, sessions, userLock, tokens, reviews, mailedTo>>

-----------------------------------------------------------------------------
(* verify_registration *)

Probe(v, t) ==
    /\ AtStep(v, "idle")
    /\ \E e \in Emails :
        /\ pending[e] # None /\ pending[e].token = t
        /\ Proceed(v, Request("lockUser", e, t, pending[e].for, None))
    /\ UNCHANGED <<users, pending, sessions, userLock, pendingLock, tokens, reviews, mailedTo>>

\* The account that the probe names, or else the account of the address, is locked first.
LockAccount(v) ==
    LET named == visit[v].for
        account == IF named # None THEN (IF Stored(named) THEN named ELSE None)
                   ELSE OwnerOf(visit[v].email) IN
    /\ AtStep(v, "lockUser")
    /\ account # None => userLock[account] = None
    /\ userLock' = [i \in Ids |-> IF i = account THEN v ELSE userLock[i]]
    /\ Proceed(v, Request("confirm", visit[v].email, visit[v].token, named, account))
    /\ UNCHANGED <<users, pending, sessions, pendingLock, tokens, reviews, mailedTo>>

\* Mutant: the row is found again by its address.
SameAddress(v, e) == pending[e] # None

\* The row is selected again by the token and compared with the probe.
SameRegistration(v, e) ==
    pending[e] # None /\ pending[e].token = visit[v].token /\ pending[e].for = visit[v].for

\* Under both locks: only a rejected faculty account, the one the registration is for, or no
\* account at all.
Registrable(v, e) ==
    LET i == visit[v].user IN
    /\ i # None => users[i].status = "rejected" /\ ~users[i].admin
    /\ visit[v].for # None => i = visit[v].for /\ users[i].email = e

\* The router commits the count of a refused attempt.
Recorded(row) == [row EXCEPT !.wrong = @ + 1]

WrongCode(v) ==
    LET e == visit[v].email IN
    /\ AtStep(v, "confirm") /\ pendingLock[e] = None
    /\ SameRegistration(v, e)
    /\ pending[e].age # "expired" /\ pending[e].wrong < MaxTries
    /\ pending' = [pending EXCEPT ![e] = Recorded(@)]
    /\ Leave(v) /\ FreeUsers(v)
    /\ UNCHANGED <<users, sessions, pendingLock, tokens, reviews, mailedTo>>

\* The account waits for the administrator and the registration is gone.
Verified(v) ==
    LET e == visit[v].email IN
    /\ AtStep(v, "confirm") /\ pendingLock[e] = None
    /\ SameRegistration(v, e)
    /\ pending[e].age # "expired" /\ pending[e].wrong < MaxTries
    /\ Registrable(v, e)
    /\ IF visit[v].user # None
       THEN users' = [users EXCEPT ![visit[v].user] =
                Changed(@, "pending", FALSE, pending[e].token)]
       ELSE /\ Owners(e) = {}
            /\ \E i \in {i \in Ids : ~Stored(i)} :
                users' = [users EXCEPT ![i] = [email |-> e, admin |-> FALSE,
                    status |-> "pending", active |-> FALSE, data |-> pending[e].token]]
    /\ pending' = [pending EXCEPT ![e] = None]
    /\ Leave(v) /\ FreeUsers(v)
    /\ UNCHANGED <<sessions, pendingLock, tokens, reviews, mailedTo>>

\* The registration is gone or another one, has expired, was tried too often, is not for this
\* account, or the address was taken meanwhile.
VerificationRefused(v) ==
    LET e == visit[v].email IN
    /\ AtStep(v, "confirm") /\ pendingLock[e] = None
    /\ SameRegistration(v, e) =>
       \/ pending[e].age = "expired" \/ pending[e].wrong = MaxTries
       \/ ~Registrable(v, e)
       \/ visit[v].user = None /\ Owners(e) # {}
    /\ Leave(v) /\ FreeUsers(v)
    /\ UNCHANGED <<users, pending, sessions, pendingLock, tokens, reviews, mailedTo>>

PassTime(e) ==
    /\ pending[e] # None /\ pending[e].age # "expired" /\ pendingLock[e] = None
    /\ pending' = [pending EXCEPT ![e].age = IF @ = "recent" THEN "valid" ELSE "expired"]
    /\ UNCHANGED <<users, sessions, visit, userLock, pendingLock, tokens, reviews, mailedTo>>

-----------------------------------------------------------------------------
(* Sign-in and sessions *)

MaySignIn(i) == users[i].status = "approved" /\ users[i].active

\* authenticate_user locks the account until the session is committed.
Locked(i, v) == [userLock EXCEPT ![i] = v]

SignIn(v, i) ==
    /\ AtStep(v, "idle")
    /\ Stored(i) /\ userLock[i] = None /\ MaySignIn(i)
    /\ userLock' = Locked(i, v)
    /\ Proceed(v, Request("session", None, ByAdmin, None, i))
    /\ UNCHANGED <<users, pending, sessions, pendingLock, tokens, reviews, mailedTo>>

OpenSession(v) ==
    /\ AtStep(v, "session")
    /\ sessions' = IF Stored(visit[v].user) THEN sessions \cup {visit[v].user} ELSE sessions
    /\ Leave(v) /\ FreeUsers(v)
    /\ UNCHANGED <<users, pending, pendingLock, tokens, reviews, mailedTo>>

\* Signing out, or the session's end.
CloseSessions(i) ==
    /\ i \in sessions
    /\ sessions' = sessions \ {i}
    /\ UNCHANGED <<users, pending, visit, userLock, pendingLock, tokens, reviews, mailedTo>>

-----------------------------------------------------------------------------
(* The administrator *)

Review(i) ==
    /\ reviews < MaxReviews /\ reviews' = reviews + 1
    /\ i # None => Stored(i) /\ userLock[i] = None
    /\ UNCHANGED <<visit, userLock, pendingLock, tokens, mailedTo>>

\* An account made by the administrator is approved at once.
CreateAccount(e, admin) ==
    /\ Review(None)
    /\ Owners(e) = {}
    /\ \E i \in {i \in Ids : ~Stored(i)} :
        users' = [users EXCEPT ![i] = [email |-> e, admin |-> admin, status |-> "approved",
                                       active |-> TRUE, data |-> ByAdmin]]
    /\ UNCHANGED <<pending, sessions>>

\* A status that does not let the user in ends the sessions.
Ends(i, status) ==
    status \in {"rejected", "suspended"} \/ (users[i].status = "approved" /\ status # "approved")

SetStatus(i, status) ==
    /\ Review(i)
    /\ users' = [users EXCEPT ![i] = Changed(@, status, status = "approved", @.data)]
    /\ sessions' = IF Ends(i, status) THEN sessions \ {i} ELSE sessions
    /\ UNCHANGED pending

SetActive(i, active) ==
    /\ Review(i)
    /\ users' = [users EXCEPT ![i].active = active]
    /\ sessions' = IF active THEN sessions ELSE sessions \ {i}
    /\ UNCHANGED pending

ChangeEmail(i, e) ==
    /\ Review(i)
    /\ Owners(e) = {}
    /\ users' = [users EXCEPT ![i].email = e]
    /\ UNCHANGED <<pending, sessions>>

\* Sessions and registrations that refer to the account go with it.
DeleteAccount(i) ==
    LET referring == {e \in Emails : pending[e] # None /\ pending[e].for = i} IN
    /\ Review(i)
    /\ \A e \in referring : pendingLock[e] = None
    /\ users' = [users EXCEPT ![i] = None]
    /\ sessions' = sessions \ {i}
    /\ pending' = [e \in Emails |-> IF e \in referring THEN None ELSE pending[e]]

-----------------------------------------------------------------------------

AccountsNext ==
    \/ \E v \in Visits :
        \/ \E e \in Emails : StartRegistration(v, e)
        \/ FindRegistration(v) \/ InsertRegistration(v) \/ MailCode(v) \/ MailFails(v)
        \/ \E t \in Tokens : Resend(v, t) \/ Probe(v, t)
        \/ LockAccount(v) \/ WrongCode(v) \/ Verified(v) \/ VerificationRefused(v)
        \/ \E i \in Ids : SignIn(v, i)
        \/ OpenSession(v)
    \/ \E e \in Emails : PassTime(e) \/ \E admin \in BOOLEAN : CreateAccount(e, admin)
    \/ \E i \in Ids :
        \/ CloseSessions(i) \/ DeleteAccount(i)
        \/ \E status \in AccountStates : SetStatus(i, status)
        \/ \E active \in BOOLEAN : SetActive(i, active)
        \/ \E e \in Emails : ChangeEmail(i, e)

AccountsSpec == AccountsInit /\ [][AccountsNext]_accountVars

-----------------------------------------------------------------------------
(* Properties *)

AccountsTypeOK ==
    /\ users \in [Ids -> User \cup {None}] /\ pending \in [Emails -> Registration \cup {None}]
    /\ sessions \subseteq Ids
    /\ visit \in [Visits -> [step : Steps, email : Emails \cup {None},
                             token : Tokens \cup {ByAdmin}, for : Ids \cup {None},
                             user : Ids \cup {None}]]
    /\ userLock \in [Ids -> Visits \cup {None}] /\ pendingLock \in [Emails -> Visits \cup {None}]
    /\ tokens \in 0..MaxTokens /\ reviews \in 0..MaxReviews
    /\ mailedTo \in [Tokens -> Emails \cup {None}]

\* A session that still counts belongs to an account that is there, approved and active: a
\* review or a deletion that meets a sign-in half way leaves no session behind
\* (authenticate_user, update_user and revoke_active_sessions).
SessionsOfApproved == \A i \in sessions : Stored(i) /\ MaySignIn(i)

\* An account takes over the data of a registration only from a token that was mailed to the
\* very address of the account, and only as a new account or as one that was rejected until
\* that moment, never over a review that came between start and verification.
VerifiedAsMailed ==
    [][\A i \in Ids :
        users'[i] # None /\ users'[i].data # ByAdmin
            /\ (IF Stored(i) THEN users'[i].data # users[i].data ELSE TRUE)
        => /\ mailedTo[users'[i].data] = users'[i].email
           /\ Stored(i) => users[i].status = "rejected" /\ ~users[i].admin
           /\ \E v \in Visits : visit[v].token = users'[i].data /\ visit'[v] = Idle
      ]_accountVars
=============================================================================
