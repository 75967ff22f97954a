------------------------ MODULE AdministrationProofs ------------------------
(* Proofs about what administrators change while others act: the accounts, the     *)
(* curriculum catalogue and the reference documents.  Each part has an inductive   *)
(* invariant, one lemma per operation that it survives, and the theorem of the     *)
(* property that the run Administration checks.                                    *)
EXTENDS MCAdministration, TLAPS

-----------------------------------------------------------------------------
(* Accounts: the invariant *)

Visit == [step : Steps, email : Emails \cup {None}, token : Tokens \cup {ByAdmin},
          for : Ids \cup {None}, user : Ids \cup {None}]

\* A request that registers, resends or verifies carries a token that was mailed to its
\* address; a verification and a sign-in keep what they have read of the account under its lock.
VisitHolds(v) ==
    /\ visit[v].step \in {"lookup", "insert", "mail", "lockUser", "confirm"} =>
          /\ visit[v].email \in Emails /\ visit[v].token \in 1..tokens
          /\ mailedTo[visit[v].token] = visit[v].email
    /\ AtStep(v, "confirm") /\ visit[v].user # None =>
          /\ userLock[visit[v].user] = v /\ Stored(visit[v].user)
          /\ visit[v].for = None => users[visit[v].user].email = visit[v].email
    /\ AtStep(v, "session") =>
          /\ visit[v].user # None
          /\ userLock[visit[v].user] = v /\ Stored(visit[v].user) /\ MaySignIn(visit[v].user)

\* A registration waits under the address its code was mailed to.
PendingAsMailed ==
    \A e \in Emails : pending[e] # None =>
        pending[e].token \in 1..tokens /\ mailedTo[pending[e].token] = e

AccountsInv ==
    /\ AccountsTypeOK /\ PendingAsMailed /\ SessionsOfApproved
    /\ \A v \in Visits : VisitHolds(v)

-----------------------------------------------------------------------------

LEMMA InitAccounts == AccountsInit => AccountsInv
  BY AccountsAssumption DEF AccountsInit, AccountsInv, AccountsTypeOK, PendingAsMailed,
     SessionsOfApproved, VisitHolds, AtStep, Idle, Request, Steps, Tokens, ByAdmin

\* The account of an address is stored under it.
LEMMA OwnerIsStored ==
    ASSUME NEW e, OwnerOf(e) # None
    PROVE  OwnerOf(e) \in Ids /\ Stored(OwnerOf(e)) /\ users[OwnerOf(e)].email = e
  BY DEF OwnerOf, Owners

\* A step of one request leaves what another holds alone, if it changes no account and frees
\* and takes no lock of the other.
LEMMA OthersHold ==
    ASSUME AccountsInv, NEW v \in Visits, NEW w \in Visits, v # w,
           visit'[w] = visit[w], tokens' \in Nat, tokens <= tokens',
           \A t \in 1..tokens : mailedTo'[t] = mailedTo[t],
           \A i \in Ids : userLock[i] = w /\ Stored(i) => userLock'[i] = w /\ users'[i] = users[i]
    PROVE  VisitHolds(w)'
  BY DEF AccountsInv, AccountsTypeOK, VisitHolds, AtStep, Stored, MaySignIn

\* A step of a request that issues no token and changes neither account nor session.
LEMMA VisitorStep ==
    ASSUME AccountsInv, NEW v \in Visits, NEW request \in Visit,
           visit' = [visit EXCEPT ![v] = request], VisitHolds(v)',
           userLock' \in [Ids -> Visits \cup {None}],
           \A i \in Ids : userLock[i] \in {v, userLock'[i], None},
           pendingLock' \in [Emails -> Visits \cup {None}],
           pending' \in [Emails -> Registration \cup {None}], PendingAsMailed',
           UNCHANGED <<users, sessions, tokens, reviews, mailedTo>>
    PROVE  AccountsInv'
<1>1. AccountsTypeOK'
  BY DEF AccountsInv, AccountsTypeOK, Visit
<1>2. ASSUME NEW w \in Visits, w # v PROVE VisitHolds(w)'
  <2>1. visit'[w] = visit[w]
    BY <1>2 DEF AccountsInv, AccountsTypeOK
  <2>2. \A i \in Ids : userLock[i] = w => userLock'[i] = w /\ users'[i] = users[i]
    BY <1>2, AccountsAssumption
  <2>3. tokens \in Nat
    BY AccountsAssumption DEF AccountsInv, AccountsTypeOK
  <2> QED
    BY <1>2, <2>1, <2>2, <2>3, OthersHold
<1>3. SessionsOfApproved'
  BY DEF AccountsInv, SessionsOfApproved, Stored, MaySignIn
<1> QED
  BY <1>1, <1>2, <1>3 DEF AccountsInv

\* A request ends and frees what it has locked.
LEMMA Leaving ==
    ASSUME AccountsInv, NEW v \in Visits, Leave(v),
           FreeUsers(v) \/ UNCHANGED userLock, FreePending(v) \/ UNCHANGED pendingLock,
           pending' \in [Emails -> Registration \cup {None}], PendingAsMailed',
           UNCHANGED <<users, sessions, tokens, reviews, mailedTo>>
    PROVE  AccountsInv'
<1>1. Idle \in Visit /\ visit' = [visit EXCEPT ![v] = Idle]
  BY DEF Leave, Idle, Request, Visit, Steps, ByAdmin
<1>2. VisitHolds(v)'
  BY <1>1 DEF VisitHolds, Idle, Request, AtStep, AccountsInv, AccountsTypeOK
<1>3. /\ userLock' \in [Ids -> Visits \cup {None}]
      /\ \A i \in Ids : userLock[i] \in {v, userLock'[i], None}
  BY DEF FreeUsers, AccountsInv, AccountsTypeOK
<1>4. pendingLock' \in [Emails -> Visits \cup {None}]
  BY DEF FreePending, AccountsInv, AccountsTypeOK
<1> QED
  BY <1>1, <1>2, <1>3, <1>4, VisitorStep

-----------------------------------------------------------------------------
(* Registration *)

LEMMA StartRegistrationKeeps ==
    ASSUME AccountsInv, NEW v \in Visits, NEW e \in Emails, StartRegistration(v, e)
    PROVE  AccountsInv'
<1>1. CASE OwnerOf(e) # None /\ (users[OwnerOf(e)].admin \/ users[OwnerOf(e)].status # "rejected")
  <2>1. Leave(v) /\ UNCHANGED <<users, pending, sessions, userLock, pendingLock, tokens, reviews,
                               mailedTo>>
    BY <1>1 DEF StartRegistration
  <2>2. pending' \in [Emails -> Registration \cup {None}] /\ PendingAsMailed'
    BY <2>1 DEF AccountsInv, AccountsTypeOK, PendingAsMailed
  <2> QED
    BY <2>1, <2>2, Leaving
<1>2. CASE ~(OwnerOf(e) # None
               /\ (users[OwnerOf(e)].admin \/ users[OwnerOf(e)].status # "rejected"))
  <2> DEFINE request == Request("lookup", e, tokens + 1, OwnerOf(e), None)
  <2>1. /\ tokens < MaxTokens /\ tokens' = tokens + 1
        /\ mailedTo' = [mailedTo EXCEPT ![tokens + 1] = e]
        /\ visit' = [visit EXCEPT ![v] = request]
        /\ UNCHANGED <<users, pending, sessions, userLock, pendingLock, reviews>>
    BY <1>2 DEF StartRegistration, Proceed
  <2>2. /\ tokens \in Nat /\ tokens + 1 \in Tokens /\ tokens' \in 0..MaxTokens
        /\ \A t \in 1..tokens : mailedTo'[t] = mailedTo[t]
        /\ mailedTo'[tokens + 1] = e
    BY <2>1, AccountsAssumption DEF AccountsInv, AccountsTypeOK, Tokens
  <2>3. request \in Visit
    BY <2>2, OwnerIsStored DEF Request, Visit, Steps
  <2>4. AccountsTypeOK'
    BY <2>1, <2>2, <2>3 DEF AccountsInv, AccountsTypeOK, Visit
  <2>5. PendingAsMailed'
    BY <2>1, <2>2 DEF AccountsInv, AccountsTypeOK, PendingAsMailed
  <2>6. SessionsOfApproved'
    BY <2>1 DEF AccountsInv, SessionsOfApproved, Stored, MaySignIn
  <2>7. VisitHolds(v)'
    BY <2>1, <2>2 DEF VisitHolds, Request, AtStep, AccountsInv, AccountsTypeOK
  <2>8. ASSUME NEW w \in Visits, w # v PROVE VisitHolds(w)'
    <3>1. visit'[w] = visit[w] /\ \A i \in Ids : userLock'[i] = userLock[i] /\ users'[i] = users[i]
      BY <2>1, <2>8 DEF AccountsInv, AccountsTypeOK
    <3> QED
      BY <2>1, <2>2, <2>8, <3>1, OthersHold
  <2> QED
    BY <2>4, <2>5, <2>6, <2>7, <2>8 DEF AccountsInv
<1> QED
  BY <1>1, <1>2

\* What a request that only moves on to its next step must show.
LEMMA Moving ==
    ASSUME AccountsInv, NEW v \in Visits, NEW request \in Visit,
           visit' = [visit EXCEPT ![v] = request], VisitHolds(v)',
           pendingLock' \in [Emails -> Visits \cup {None}],
           UNCHANGED <<users, pending, sessions, userLock, tokens, reviews, mailedTo>>
    PROVE  AccountsInv'
<1>1. /\ pending' \in [Emails -> Registration \cup {None}] /\ PendingAsMailed'
      /\ userLock' \in [Ids -> Visits \cup {None}]
      /\ \A i \in Ids : userLock[i] \in {v, userLock'[i], None}
  BY DEF AccountsInv, AccountsTypeOK, PendingAsMailed
<1> QED
  BY <1>1, VisitorStep

\* A request that has looked for its registration and goes on to the insert or to the mail.
LEMMA ContinueKeeps ==
    ASSUME AccountsInv, NEW v \in Visits, visit[v].step \in {"lookup", "insert"},
           NEW step \in {"insert", "mail"}, Continue(v, step),
           pendingLock' \in [Emails -> Visits \cup {None}],
           UNCHANGED <<users, pending, sessions, userLock, tokens, reviews, mailedTo>>
    PROVE  AccountsInv'
<1> DEFINE request == Request(step, visit[v].email, visit[v].token, visit[v].for, visit[v].user)
<1>1. visit[v] \in Visit
  BY DEF AccountsInv, AccountsTypeOK, Visit
<1>2. request \in Visit
  BY <1>1 DEF Request, Visit, Steps
<1>3. visit' = [visit EXCEPT ![v] = request]
  BY DEF Continue, Proceed
<1>4. VisitHolds(v)'
  BY <1>3 DEF VisitHolds, Request, AtStep, AccountsInv, AccountsTypeOK
<1> QED
  BY <1>2, <1>3, <1>4, Moving

\* A request that leaves what it has not changed.
LEMMA LeavingUnchanged ==
    ASSUME AccountsInv, NEW v \in Visits, Leave(v),
           FreeUsers(v) \/ UNCHANGED userLock, FreePending(v) \/ UNCHANGED pendingLock,
           UNCHANGED <<users, pending, sessions, tokens, reviews, mailedTo>>
    PROVE  AccountsInv'
<1>1. pending' \in [Emails -> Registration \cup {None}] /\ PendingAsMailed'
  BY DEF AccountsInv, AccountsTypeOK, PendingAsMailed
<1> QED
  BY <1>1, Leaving

LEMMA LookupsKeep ==
    ASSUME AccountsInv, NEW v \in Visits, FindRegistration(v) \/ InsertRegistration(v)
    PROVE  AccountsInv'
<1> DEFINE e == visit[v].email
<1>1. /\ visit[v].step \in {"lookup", "insert"}
      /\ UNCHANGED <<users, pending, sessions, userLock, tokens, reviews, mailedTo>>
      /\ \/ Leave(v) /\ UNCHANGED pendingLock
         \/ Continue(v, "insert") /\ UNCHANGED pendingLock
         \/ Continue(v, "mail") /\ pendingLock' = [pendingLock EXCEPT ![e] = v]
  BY DEF FindRegistration, InsertRegistration, AtStep
<1>2. pendingLock \in [Emails -> Visits \cup {None}]
  BY DEF AccountsInv, AccountsTypeOK
<1> QED
  BY <1>1, <1>2, LeavingUnchanged, ContinueKeeps

LEMMA ResendKeeps ==
    ASSUME AccountsInv, NEW v \in Visits, NEW t \in Tokens, Resend(v, t) \/ Probe(v, t)
    PROVE  AccountsInv'
<1>1. PICK e \in Emails, step \in {"mail", "lockUser"} :
        /\ pending[e] # None /\ pending[e].token = t
        /\ \/ Leave(v) /\ UNCHANGED pendingLock
           \/ /\ Proceed(v, Request(step, e, t, pending[e].for, None))
              /\ pendingLock' = pendingLock \/ pendingLock' = [pendingLock EXCEPT ![e] = v]
        /\ UNCHANGED <<users, pending, sessions, userLock, tokens, reviews, mailedTo>>
  <2>1. CASE Resend(v, t)
    BY <2>1 DEF Resend
  <2>2. CASE Probe(v, t)
    BY <2>2 DEF Probe
  <2> QED
    BY <2>1, <2>2
<1> DEFINE request == Request(step, e, t, pending[e].for, None)
<1>2. CASE Leave(v) /\ UNCHANGED pendingLock
  BY <1>1, <1>2, LeavingUnchanged
<1>3. CASE Proceed(v, request) /\ (pendingLock' = pendingLock
                                   \/ pendingLock' = [pendingLock EXCEPT ![e] = v])
  <2>1. pending[e] \in Registration /\ pending[e].for \in Ids \cup {None}
    BY <1>1 DEF AccountsInv, AccountsTypeOK, Registration
  <2>2. request \in Visit
    BY <2>1 DEF Request, Visit, Steps
  <2>3. visit' = [visit EXCEPT ![v] = request] /\ pendingLock' \in [Emails -> Visits \cup {None}]
    BY <1>3 DEF Proceed, AccountsInv, AccountsTypeOK
  <2>4. VisitHolds(v)'
    BY <1>1, <2>3 DEF VisitHolds, Request, AtStep, AccountsInv, AccountsTypeOK, PendingAsMailed
  <2> QED
    BY <1>1, <2>2, <2>3, <2>4, Moving
<1> QED
  BY <1>1, <1>2, <1>3

LEMMA MailKeeps ==
    ASSUME AccountsInv, NEW v \in Visits, MailCode(v) \/ MailFails(v)
    PROVE  AccountsInv'
<1>1. CASE MailFails(v)
  BY <1>1, LeavingUnchanged DEF MailFails
<1>2. CASE MailCode(v)
  <2> DEFINE e == visit[v].email
             row == [token |-> visit[v].token, for |-> visit[v].for, wrong |-> 0, age |-> "recent"]
  <2>1. /\ Leave(v) /\ FreePending(v) /\ pending' = [pending EXCEPT ![e] = row]
        /\ UNCHANGED <<users, sessions, userLock, tokens, reviews, mailedTo>>
        /\ visit[v].step = "mail"
    BY <1>2 DEF MailCode, AtStep
  <2>2. /\ visit[v].token \in 1..tokens /\ tokens \in 0..MaxTokens
        /\ mailedTo[visit[v].token] = e /\ e \in Emails /\ visit[v].for \in Ids \cup {None}
    BY <2>1 DEF AccountsInv, AccountsTypeOK, VisitHolds
  <2>3. row \in Registration
    BY <2>2, AccountsAssumption DEF Registration, Tokens
  <2>4. pending' \in [Emails -> Registration \cup {None}] /\ PendingAsMailed'
    BY <2>1, <2>2, <2>3 DEF AccountsInv, AccountsTypeOK, PendingAsMailed
  <2> QED
    BY <2>1, <2>4, Leaving
<1> QED
  BY <1>1, <1>2

-----------------------------------------------------------------------------
(* Verification *)

LEMMA LockAccountKeeps ==
    ASSUME AccountsInv, NEW v \in Visits, LockAccount(v)
    PROVE  AccountsInv'
<1> DEFINE named == visit[v].for
           account == IF named # None THEN (IF Stored(named) THEN named ELSE None)
                      ELSE OwnerOf(visit[v].email)
           request == Request("confirm", visit[v].email, visit[v].token, named, account)
<1>1. /\ visit[v].step = "lockUser" /\ (account # None => userLock[account] = None)
      /\ userLock' = [i \in Ids |-> IF i = account THEN v ELSE userLock[i]]
      /\ visit' = [visit EXCEPT ![v] = request]
      /\ UNCHANGED <<users, pending, sessions, pendingLock, tokens, reviews, mailedTo>>
  BY DEF LockAccount, Proceed, AtStep
<1>2. /\ visit[v] \in Visit
      /\ account # None => /\ account \in Ids /\ Stored(account)
                           /\ named = None => users[account].email = visit[v].email
  BY OwnerIsStored DEF AccountsInv, AccountsTypeOK, Visit
<1>3. request \in Visit
  BY <1>2 DEF Request, Visit, Steps
<1>4. VisitHolds(v)'
  <2>1. visit'[v] = request
    BY <1>1 DEF AccountsInv, AccountsTypeOK
  <2>2. /\ visit[v].email \in Emails /\ visit[v].token \in 1..tokens
        /\ mailedTo[visit[v].token] = visit[v].email
    BY <1>1 DEF AccountsInv, VisitHolds
  <2> QED
    BY <1>1, <1>2, <2>1, <2>2 DEF VisitHolds, Request, AtStep, Stored
<1>5. /\ userLock' \in [Ids -> Visits \cup {None}]
      /\ \A i \in Ids : userLock[i] \in {v, userLock'[i], None}
  BY <1>1, AccountsAssumption DEF AccountsInv, AccountsTypeOK
<1>6. /\ pending' \in [Emails -> Registration \cup {None}] /\ PendingAsMailed'
      /\ pendingLock' \in [Emails -> Visits \cup {None}]
  BY <1>1 DEF AccountsInv, AccountsTypeOK, PendingAsMailed
<1> QED
  BY <1>1, <1>3, <1>4, <1>5, <1>6, VisitorStep

LEMMA WrongCodeKeeps ==
    ASSUME AccountsInv, NEW v \in Visits, WrongCode(v)
    PROVE  AccountsInv'
<1> DEFINE e == visit[v].email
<1>1. /\ visit[v].step = "confirm" /\ pending[e] # None /\ pending[e].wrong < MaxTries
      /\ pending' = [pending EXCEPT ![e] = Recorded(pending[e])]
      /\ Leave(v) /\ FreeUsers(v)
      /\ UNCHANGED <<users, sessions, pendingLock, tokens, reviews, mailedTo>>
  BY DEF WrongCode, AtStep, SameRegistration
<1>2. e \in Emails /\ pending[e] \in Registration
  BY <1>1 DEF AccountsInv, AccountsTypeOK, VisitHolds
<1>3. Recorded(pending[e]) \in Registration /\ Recorded(pending[e]).token = pending[e].token
  BY <1>1, <1>2, AccountsAssumption DEF Recorded, Registration
<1>4. pending' \in [Emails -> Registration \cup {None}] /\ PendingAsMailed'
  BY <1>1, <1>2, <1>3 DEF AccountsInv, AccountsTypeOK, PendingAsMailed
<1> QED
  BY <1>1, <1>4, Leaving

LEMMA VerifiedKeeps ==
    ASSUME AccountsInv, NEW v \in Visits, Verified(v)
    PROVE  AccountsInv'
<1> DEFINE e == visit[v].email
           u == visit[v].user
           token == pending[e].token
<1>1. /\ visit[v].step = "confirm" /\ pending[e] # None
      /\ pending' = [pending EXCEPT ![e] = None] /\ Leave(v) /\ FreeUsers(v)
      /\ UNCHANGED <<sessions, pendingLock, tokens, reviews, mailedTo>>
      /\ u # None => users[u].status = "rejected"
  BY DEF Verified, AtStep, SameRegistration, Registrable
<1>2. /\ e \in Emails /\ token \in Tokens /\ u \in Ids \cup {None}
      /\ u # None => Stored(u) /\ users[u] \in User /\ userLock[u] = v
  BY <1>1 DEF AccountsInv, AccountsTypeOK, VisitHolds, AtStep, Registration, Stored
<1>3. PICK i \in Ids, row \in User :
        /\ users' = [users EXCEPT ![i] = row]
        /\ ~Stored(i) \/ (userLock[i] = v /\ users[i].status = "rejected")
  <2>1. CASE u # None
    <3>1. Changed(users[u], "pending", FALSE, token) \in User
      BY <1>2, <2>1 DEF Changed, User, AccountStates
    <3>2. users' = [users EXCEPT ![u] = Changed(users[u], "pending", FALSE, token)]
      BY <2>1 DEF Verified
    <3> QED
      BY <1>1, <1>2, <2>1, <3>1, <3>2
  <2>2. CASE u = None
    <3> DEFINE row == [email |-> e, admin |-> FALSE, status |-> "pending", active |-> FALSE,
                       data |-> token]
    <3>1. row \in User
      BY <1>2 DEF User, AccountStates
    <3>2. \E i \in {i \in Ids : ~Stored(i)} : users' = [users EXCEPT ![i] = row]
      BY <2>2 DEF Verified
    <3> QED
      BY <3>1, <3>2
  <2> QED
    BY <2>1, <2>2
<1>4. Idle \in Visit /\ visit' = [visit EXCEPT ![v] = Idle]
  BY <1>1 DEF Leave, Idle, Request, Visit, Steps, ByAdmin
<1>5. AccountsTypeOK'
  BY <1>1, <1>3, <1>4 DEF AccountsInv, AccountsTypeOK, FreeUsers, Visit
<1>6. PendingAsMailed'
  BY <1>1 DEF AccountsInv, AccountsTypeOK, PendingAsMailed
<1>7. SessionsOfApproved'
  <2>1. \A j \in sessions : j \in Ids /\ Stored(j) /\ users[j].status = "approved"
    BY DEF AccountsInv, AccountsTypeOK, SessionsOfApproved, MaySignIn
  <2>2. \A j \in sessions : users'[j] = users[j]
    BY <1>3, <2>1 DEF AccountsInv, AccountsTypeOK
  <2> QED
    BY <1>1, <2>2 DEF AccountsInv, SessionsOfApproved, Stored, MaySignIn
<1>8. VisitHolds(v)'
  BY <1>4 DEF VisitHolds, Idle, Request, AtStep, AccountsInv, AccountsTypeOK
<1>9. ASSUME NEW w \in Visits, w # v PROVE VisitHolds(w)'
  <2>1. visit'[w] = visit[w]
    BY <1>4, <1>9 DEF AccountsInv, AccountsTypeOK
  <2>2. \A j \in Ids : userLock[j] = w /\ Stored(j) => userLock'[j] = w /\ users'[j] = users[j]
    BY <1>1, <1>3, <1>9 DEF AccountsInv, AccountsTypeOK, FreeUsers
  <2>3. tokens \in Nat
    BY AccountsAssumption DEF AccountsInv, AccountsTypeOK
  <2> QED
    BY <1>1, <1>9, <2>1, <2>2, <2>3, OthersHold
<1> QED
  BY <1>5, <1>6, <1>7, <1>8, <1>9 DEF AccountsInv

LEMMA RefusedKeeps ==
    ASSUME AccountsInv, NEW v \in Visits, VerificationRefused(v)
    PROVE  AccountsInv'
  BY LeavingUnchanged DEF VerificationRefused

-----------------------------------------------------------------------------
(* Sessions and time *)

\* A step that no request makes: accounts that a request has locked stay as they are.
LEMMA OutsideStep ==
    ASSUME AccountsInv, users' \in [Ids -> User \cup {None}],
           \A i \in Ids : Stored(i) /\ userLock[i] # None => users'[i] = users[i],
           sessions' \subseteq Ids, SessionsOfApproved',
           pending' \in [Emails -> Registration \cup {None}], PendingAsMailed',
           reviews' \in 0..MaxReviews,
           UNCHANGED <<visit, userLock, pendingLock, tokens, mailedTo>>
    PROVE  AccountsInv'
<1>1. AccountsTypeOK'
  BY DEF AccountsInv, AccountsTypeOK
<1>2. ASSUME NEW w \in Visits PROVE VisitHolds(w)'
  BY AccountsAssumption DEF AccountsInv, AccountsTypeOK, VisitHolds, AtStep, Stored, MaySignIn
<1> QED
  BY <1>1, <1>2 DEF AccountsInv

LEMMA TimeKeeps ==
    ASSUME AccountsInv, NEW e \in Emails, PassTime(e)
    PROVE  AccountsInv'
<1> DEFINE row == [pending[e] EXCEPT !.age = IF @ = "recent" THEN "valid" ELSE "expired"]
<1>1. /\ pending[e] # None /\ pending' = [pending EXCEPT ![e] = row]
      /\ UNCHANGED <<users, sessions, visit, userLock, pendingLock, tokens, reviews, mailedTo>>
  BY DEF PassTime
<1>2. row \in Registration /\ row.token = pending[e].token
  BY <1>1 DEF AccountsInv, AccountsTypeOK, Registration
<1>3. pending' \in [Emails -> Registration \cup {None}] /\ PendingAsMailed'
  BY <1>1, <1>2 DEF AccountsInv, AccountsTypeOK, PendingAsMailed
<1>4. /\ users' \in [Ids -> User \cup {None}] /\ sessions' \subseteq Ids
      /\ SessionsOfApproved' /\ reviews' \in 0..MaxReviews
  BY <1>1 DEF AccountsInv, AccountsTypeOK, SessionsOfApproved, Stored, MaySignIn
<1> QED
  BY <1>1, <1>3, <1>4, OutsideStep

LEMMA SignInKeeps ==
    ASSUME AccountsInv, NEW v \in Visits, NEW i \in Ids, SignIn(v, i)
    PROVE  AccountsInv'
<1> DEFINE request == Request("session", None, ByAdmin, None, i)
<1>1. /\ Stored(i) /\ userLock[i] = None /\ MaySignIn(i)
      /\ userLock' = [userLock EXCEPT ![i] = v] /\ visit' = [visit EXCEPT ![v] = request]
      /\ UNCHANGED <<users, pending, sessions, pendingLock, tokens, reviews, mailedTo>>
  BY DEF SignIn, Locked, Proceed
<1>2. request \in Visit
  BY DEF Request, Visit, Steps
<1>3. VisitHolds(v)'
  BY <1>1, AccountsAssumption
     DEF VisitHolds, Request, AtStep, AccountsInv, AccountsTypeOK, Stored, MaySignIn
<1>4. /\ userLock' \in [Ids -> Visits \cup {None}]
      /\ \A j \in Ids : userLock[j] \in {v, userLock'[j], None}
  BY <1>1 DEF AccountsInv, AccountsTypeOK
<1>5. /\ pending' \in [Emails -> Registration \cup {None}] /\ PendingAsMailed'
      /\ pendingLock' \in [Emails -> Visits \cup {None}]
  BY <1>1 DEF AccountsInv, AccountsTypeOK, PendingAsMailed
<1> QED
  BY <1>1, <1>2, <1>3, <1>4, <1>5, VisitorStep

LEMMA OpenKeeps ==
    ASSUME AccountsInv, NEW v \in Visits, OpenSession(v)
    PROVE  AccountsInv'
<1> DEFINE u == visit[v].user
<1>1. /\ visit[v].step = "session" /\ Leave(v) /\ FreeUsers(v)
      /\ sessions' \in {sessions, sessions \cup {u}}
      /\ UNCHANGED <<users, pending, pendingLock, tokens, reviews, mailedTo>>
  BY DEF OpenSession, AtStep
<1>2. u \in Ids /\ Stored(u) /\ MaySignIn(u)
  BY <1>1 DEF AccountsInv, AccountsTypeOK, VisitHolds, AtStep
<1>3. Idle \in Visit /\ visit' = [visit EXCEPT ![v] = Idle]
  BY <1>1 DEF Leave, Idle, Request, Visit, Steps, ByAdmin
<1>4. AccountsTypeOK'
  BY <1>1, <1>2, <1>3 DEF AccountsInv, AccountsTypeOK, FreeUsers, Visit
<1>5. PendingAsMailed' /\ SessionsOfApproved'
  BY <1>1, <1>2 DEF AccountsInv, PendingAsMailed, SessionsOfApproved, Stored, MaySignIn
<1>6. ASSUME NEW w \in Visits PROVE VisitHolds(w)'
  <2>1. CASE w = v
    BY <1>3, <2>1 DEF VisitHolds, Idle, Request, AtStep, AccountsInv, AccountsTypeOK
  <2>2. CASE w # v
    <3>1. visit'[w] = visit[w]
      BY <1>3, <2>2 DEF AccountsInv, AccountsTypeOK
    <3>2. \A j \in Ids : userLock[j] = w /\ Stored(j) => userLock'[j] = w /\ users'[j] = users[j]
      BY <1>1, <2>2 DEF FreeUsers
    <3>3. tokens \in Nat
      BY AccountsAssumption DEF AccountsInv, AccountsTypeOK
    <3> QED
      BY <1>1, <2>2, <3>1, <3>2, <3>3, OthersHold
  <2> QED
    BY <2>1, <2>2
<1> QED
  BY <1>4, <1>5, <1>6 DEF AccountsInv

LEMMA CloseKeeps ==
    ASSUME AccountsInv, NEW i \in Ids, CloseSessions(i)
    PROVE  AccountsInv'
<1>1. /\ sessions' = sessions \ {i}
      /\ UNCHANGED <<users, pending, visit, userLock, pendingLock, tokens, reviews, mailedTo>>
  BY DEF CloseSessions
<1>2. /\ users' \in [Ids -> User \cup {None}] /\ sessions' \subseteq Ids
      /\ pending' \in [Emails -> Registration \cup {None}] /\ PendingAsMailed'
      /\ SessionsOfApproved' /\ reviews' \in 0..MaxReviews
  BY <1>1 DEF AccountsInv, AccountsTypeOK, PendingAsMailed, SessionsOfApproved, Stored, MaySignIn
<1> QED
  BY <1>1, <1>2, OutsideStep

-----------------------------------------------------------------------------
(* The administrator *)

\* An operation that changes one account, and ends its sessions unless it may sign in.
LEMMA ReviewStep ==
    ASSUME AccountsInv, NEW i \in Ids, NEW row \in User \cup {None},
           users' = [users EXCEPT ![i] = row], Stored(i) => userLock[i] = None,
           Review(i) \/ Review(None), sessions' \subseteq sessions,
           i \in sessions' => row # None /\ row.status = "approved" /\ row.active,
           pending' \in [Emails -> Registration \cup {None}], PendingAsMailed'
    PROVE  AccountsInv'
<1>1. /\ reviews' \in 0..MaxReviews
      /\ UNCHANGED <<visit, userLock, pendingLock, tokens, mailedTo>>
  BY AccountsAssumption DEF Review, AccountsInv, AccountsTypeOK
<1>2. /\ users' \in [Ids -> User \cup {None}] /\ sessions' \subseteq Ids
      /\ \A j \in Ids : Stored(j) /\ userLock[j] # None => users'[j] = users[j]
  BY DEF AccountsInv, AccountsTypeOK
<1>3. SessionsOfApproved'
  BY DEF AccountsInv, AccountsTypeOK, SessionsOfApproved, Stored, MaySignIn
<1> QED
  BY <1>1, <1>2, <1>3, OutsideStep

LEMMA CreateAccountKeeps ==
    ASSUME AccountsInv, NEW e \in Emails, NEW admin \in BOOLEAN, CreateAccount(e, admin)
    PROVE  AccountsInv'
<1> DEFINE row == [email |-> e, admin |-> admin, status |-> "approved", active |-> TRUE,
                   data |-> ByAdmin]
<1>1. PICK i \in Ids : ~Stored(i) /\ users' = [users EXCEPT ![i] = row]
  BY DEF CreateAccount
<1>2. row \in User
  BY DEF User, AccountStates
<1>3. Review(None) /\ UNCHANGED <<pending, sessions>> /\ i \notin sessions
  BY <1>1 DEF CreateAccount, AccountsInv, SessionsOfApproved
<1>4. pending' \in [Emails -> Registration \cup {None}] /\ PendingAsMailed'
  BY <1>3 DEF AccountsInv, AccountsTypeOK, PendingAsMailed, Review
<1> QED
  BY <1>1, <1>2, <1>3, <1>4, ReviewStep

\* The account of a review is stored and nobody has locked it.
LEMMA ReviewedAccount ==
    ASSUME AccountsInv, NEW i \in Ids, Review(i)
    PROVE  /\ Stored(i) /\ users[i] \in User /\ userLock[i] = None
           /\ i \in sessions => users[i].status = "approved" /\ users[i].active
           /\ UNCHANGED <<tokens, mailedTo>>
  BY AccountsAssumption
     DEF Review, AccountsInv, AccountsTypeOK, Stored, SessionsOfApproved, MaySignIn

LEMMA StatusKeeps ==
    ASSUME AccountsInv, NEW i \in Ids, NEW state \in AccountStates, SetStatus(i, state)
    PROVE  AccountsInv'
<1> DEFINE row == Changed(users[i], state, state = "approved", users[i].data)
<1>1. /\ Review(i) /\ users' = [users EXCEPT ![i] = row] /\ UNCHANGED pending
      /\ sessions' = IF Ends(i, state) THEN sessions \ {i} ELSE sessions
  BY DEF SetStatus
<1>2. row \in User
  BY <1>1, ReviewedAccount DEF Changed, User
<1>3. i \in sessions' => row.status = "approved" /\ row.active
  BY <1>1, ReviewedAccount DEF Ends, Changed
<1>4. pending' \in [Emails -> Registration \cup {None}] /\ PendingAsMailed'
  BY <1>1, ReviewedAccount DEF AccountsInv, AccountsTypeOK, PendingAsMailed
<1> QED
  BY <1>1, <1>2, <1>3, <1>4, ReviewedAccount, ReviewStep, AccountsAssumption

LEMMA ActiveKeeps ==
    ASSUME AccountsInv, NEW i \in Ids, NEW active \in BOOLEAN, SetActive(i, active)
    PROVE  AccountsInv'
<1> DEFINE row == [users[i] EXCEPT !.active = active]
<1>1. /\ Review(i) /\ users' = [users EXCEPT ![i] = row] /\ UNCHANGED pending
      /\ sessions' = IF active THEN sessions ELSE sessions \ {i}
  BY DEF SetActive
<1>2. row \in User /\ row.status = users[i].status /\ row.active = active
  BY <1>1, ReviewedAccount DEF User
<1>3. pending' \in [Emails -> Registration \cup {None}] /\ PendingAsMailed'
  BY <1>1, ReviewedAccount DEF AccountsInv, AccountsTypeOK, PendingAsMailed
<1> QED
  BY <1>1, <1>2, <1>3, ReviewedAccount, ReviewStep, AccountsAssumption

LEMMA EmailKeeps ==
    ASSUME AccountsInv, NEW i \in Ids, NEW e \in Emails, ChangeEmail(i, e)
    PROVE  AccountsInv'
<1> DEFINE row == [users[i] EXCEPT !.email = e]
<1>1. Review(i) /\ users' = [users EXCEPT ![i] = row] /\ UNCHANGED <<pending, sessions>>
  BY DEF ChangeEmail
<1>2. row \in User /\ row.status = users[i].status /\ row.active = users[i].active
  BY <1>1, ReviewedAccount DEF User
<1>3. pending' \in [Emails -> Registration \cup {None}] /\ PendingAsMailed'
  BY <1>1, ReviewedAccount DEF AccountsInv, AccountsTypeOK, PendingAsMailed
<1> QED
  BY <1>1, <1>2, <1>3, ReviewedAccount, ReviewStep, AccountsAssumption

LEMMA DeleteKeeps ==
    ASSUME AccountsInv, NEW i \in Ids, DeleteAccount(i)
    PROVE  AccountsInv'
<1>1. /\ Review(i) /\ users' = [users EXCEPT ![i] = None] /\ sessions' = sessions \ {i}
      /\ \E referring \in SUBSET Emails :
            pending' = [e \in Emails |-> IF e \in referring THEN None ELSE pending[e]]
  BY DEF DeleteAccount
<1>2. pending' \in [Emails -> Registration \cup {None}] /\ PendingAsMailed'
  BY <1>1, ReviewedAccount DEF AccountsInv, AccountsTypeOK, PendingAsMailed
<1> QED
  BY <1>1, <1>2, ReviewedAccount, ReviewStep

-----------------------------------------------------------------------------

LEMMA AccountsStepKeeps == AccountsInv /\ [AccountsNext]_accountVars => AccountsInv'
<1> SUFFICES ASSUME AccountsInv, [AccountsNext]_accountVars PROVE AccountsInv'
  OBVIOUS
<1>1. CASE UNCHANGED accountVars
  BY <1>1 DEF accountVars, AccountsInv, AccountsTypeOK, PendingAsMailed, SessionsOfApproved,
              VisitHolds, AtStep, Stored, MaySignIn
<1>2. CASE AccountsNext
  BY <1>2, StartRegistrationKeeps, LookupsKeep, MailKeeps, ResendKeeps, LockAccountKeeps,
     WrongCodeKeeps, VerifiedKeeps, RefusedKeeps, SignInKeeps, OpenKeeps, TimeKeeps,
     CreateAccountKeeps, CloseKeeps, DeleteKeeps, StatusKeeps, ActiveKeeps, EmailKeeps DEF AccountsNext
<1> QED
  BY <1>1, <1>2

\* Every reachable state of the accounts satisfies the invariant.
THEOREM AccountsInvariant == AccountsSpec => []AccountsInv
  BY InitAccounts, AccountsStepKeeps, PTL DEF AccountsSpec

-----------------------------------------------------------------------------
(* Whose data an account carries *)

NewData(i) ==
    /\ users'[i] # None /\ users'[i].data # ByAdmin
    /\ IF Stored(i) THEN users'[i].data # users[i].data ELSE TRUE

\* Only a verification gives an account the data of a registration.
LEMMA OthersKeepData ==
    ASSUME AccountsInv, AccountsNext, ~ \E v \in Visits : Verified(v), NEW i \in Ids
    PROVE  ~NewData(i)
<1> DEFINE Kept == \/ users'[i] = users[i] \/ users'[i] = None
                   \/ users'[i].data = ByAdmin
                   \/ Stored(i) /\ users'[i].data = users[i].data
<1>1. Kept => ~NewData(i)
  BY DEF NewData, Stored
<1>2. CASE UNCHANGED users
  BY <1>1, <1>2
<1>3. ASSUME NEW e \in Emails, NEW admin \in BOOLEAN, CreateAccount(e, admin) PROVE Kept
  BY <1>3 DEF CreateAccount, AccountsInv, AccountsTypeOK
<1>4. ASSUME NEW j \in Ids, NEW state \in AccountStates, SetStatus(j, state) PROVE Kept
  BY <1>4, ReviewedAccount DEF SetStatus, Changed, AccountsInv, AccountsTypeOK
<1>5. ASSUME NEW j \in Ids, NEW active \in BOOLEAN, SetActive(j, active) PROVE Kept
  <2>1. /\ users[j] \in User /\ Stored(j)
        /\ users' = [users EXCEPT ![j] = [users[j] EXCEPT !.active = active]]
    BY <1>5, ReviewedAccount DEF SetActive
  <2>2. [users[j] EXCEPT !.active = active].data = users[j].data
    BY <2>1 DEF User
  <2> QED
    BY <2>1, <2>2 DEF AccountsInv, AccountsTypeOK
<1>6. ASSUME NEW j \in Ids, NEW e \in Emails, ChangeEmail(j, e) PROVE Kept
  <2>1. /\ users[j] \in User /\ Stored(j)
        /\ users' = [users EXCEPT ![j] = [users[j] EXCEPT !.email = e]]
    BY <1>6, ReviewedAccount DEF ChangeEmail
  <2>2. [users[j] EXCEPT !.email = e].data = users[j].data
    BY <2>1 DEF User
  <2> QED
    BY <2>1, <2>2 DEF AccountsInv, AccountsTypeOK
<1>7. ASSUME NEW j \in Ids, DeleteAccount(j) PROVE Kept
  BY <1>7 DEF DeleteAccount, AccountsInv, AccountsTypeOK
<1>8. CASE \/ \E v \in Visits :
               \/ \E e \in Emails : StartRegistration(v, e)
               \/ FindRegistration(v) \/ InsertRegistration(v) \/ MailCode(v) \/ MailFails(v)
               \/ \E t \in Tokens : Resend(v, t) \/ Probe(v, t)
               \/ LockAccount(v) \/ WrongCode(v) \/ VerificationRefused(v)
               \/ \E j \in Ids : SignIn(v, j)
               \/ OpenSession(v)
           \/ \E e \in Emails : PassTime(e)
           \/ \E j \in Ids : CloseSessions(j)
  <2>1. UNCHANGED users
    BY <1>8 DEF StartRegistration, FindRegistration, InsertRegistration, MailCode, MailFails,
                Resend, Probe, LockAccount, WrongCode, VerificationRefused, SignIn, OpenSession,
                PassTime, CloseSessions
  <2> QED
    BY <1>2, <2>1
<1> QED
  BY <1>1, <1>3, <1>4, <1>5, <1>6, <1>7, <1>8 DEF AccountsNext

LEMMA VerifiedEarns ==
    ASSUME AccountsInv, NEW v \in Visits, Verified(v), NEW i \in Ids, NewData(i)
    PROVE  /\ mailedTo[users'[i].data] = users'[i].email
           /\ Stored(i) => users[i].status = "rejected" /\ ~users[i].admin
           /\ visit[v].token = users'[i].data /\ visit'[v] = Idle
<1> DEFINE e == visit[v].email
           u == visit[v].user
           token == pending[e].token
<1>1. /\ visit[v].step = "confirm" /\ pending[e] # None /\ token = visit[v].token /\ Leave(v)
      /\ Registrable(v, e)
  BY DEF Verified, AtStep, SameRegistration
<1>2. /\ e \in Emails /\ mailedTo[token] = e /\ u \in Ids \cup {None}
      /\ u # None => Stored(u) /\ (visit[v].for = None => users[u].email = e)
  BY <1>1 DEF AccountsInv, AccountsTypeOK, VisitHolds, AtStep
<1>3. visit'[v] = Idle
  BY <1>1 DEF Leave, AccountsInv, AccountsTypeOK
<1>4. CASE u # None
  <2>1. users' = [users EXCEPT ![u] = Changed(users[u], "pending", FALSE, token)]
    BY <1>4 DEF Verified
  <2>2. users[u].email = e /\ users[u].status = "rejected" /\ ~users[u].admin
    BY <1>1, <1>2, <1>4 DEF Registrable
  <2>3. CASE i = u
    BY <1>1, <1>2, <1>3, <1>4, <2>1, <2>2, <2>3 DEF Changed, AccountsInv, AccountsTypeOK
  <2>4. CASE i # u
    BY <2>1, <2>4 DEF NewData, Stored, AccountsInv, AccountsTypeOK
  <2> QED
    BY <2>3, <2>4
<1>5. CASE u = None
  <2>1. PICK j \in Ids : /\ ~Stored(j)
                         /\ users' = [users EXCEPT ![j] = [email |-> e, admin |-> FALSE,
                               status |-> "pending", active |-> FALSE, data |-> token]]
    BY <1>5 DEF Verified
  <2>2. CASE i = j
    BY <1>1, <1>2, <1>3, <2>1, <2>2 DEF AccountsInv, AccountsTypeOK
  <2>3. CASE i # j
    BY <2>1, <2>3 DEF NewData, Stored, AccountsInv, AccountsTypeOK
  <2> QED
    BY <2>2, <2>3
<1> QED
  BY <1>4, <1>5

LEMMA DataEarned ==
    ASSUME AccountsInv, [AccountsNext]_accountVars
    PROVE  \A i \in Ids : NewData(i) =>
              /\ mailedTo[users'[i].data] = users'[i].email
              /\ Stored(i) => users[i].status = "rejected" /\ ~users[i].admin
              /\ \E v \in Visits : visit[v].token = users'[i].data /\ visit'[v] = Idle
<1>1. CASE UNCHANGED accountVars
  BY <1>1 DEF accountVars, NewData, Stored
<1>2. CASE AccountsNext
  BY <1>2, OthersKeepData, VerifiedEarns
<1> QED
  BY <1>1, <1>2

\* Sessions are of accounts that are there, approved and active, and an account takes over the
\* data of a registration only as the address that received its code verifies it, for any number
\* of visitors, addresses and reviews (auth/service.py, registration.py, admin/user_service.py).
THEOREM AccountsAreEarned == AccountsSpec => AccountsEarned
<1>1. AccountsInv => SessionsOfApproved
  BY DEF AccountsInv
<1>2. AccountsInv /\ [AccountsNext]_accountVars =>
        [\A i \in Ids :
            users'[i] # None /\ users'[i].data # ByAdmin
                /\ (IF Stored(i) THEN users'[i].data # users[i].data ELSE TRUE)
            => /\ mailedTo[users'[i].data] = users'[i].email
               /\ Stored(i) => users[i].status = "rejected" /\ ~users[i].admin
               /\ \E v \in Visits : visit[v].token = users'[i].data /\ visit'[v] = Idle
        ]_accountVars
  BY DataEarned DEF NewData
<1> QED
  BY AccountsInvariant, <1>1, <1>2, PTL DEF AccountsSpec, AccountsEarned, VerifiedAsMailed

-----------------------------------------------------------------------------
(* The curriculum catalogue: the invariant *)

\* The two shapes of a request that is under way.
WriteEdit == [step : {"write"}, target : Objectives, program : Programs, version : Nat]
ClaimEdit == [step : {"claim"}, course : Courses, entries : SUBSET Objectives,
              version : Nat, before : MappingSet]

\* Rows, mappings, requests and the seed script's transaction are of their types.
CatalogTyped ==
    /\ DOMAIN objectives \subseteq Objectives
    /\ \A o \in DOMAIN objectives : objectives[o] \in Objective
    /\ mappings \in [Courses -> MappingSet]
    /\ edit \in [Editors -> {Waiting} \cup WriteEdit \cup ClaimEdit]
    /\ seeding = [rows |-> seeding.rows, courses |-> seeding.courses]
    /\ DOMAIN seeding.rows \subseteq Seeded /\ DOMAIN seeding.courses \subseteq SeededCourses

\* No row is locked by two transactions.
LocksExclusive ==
    /\ \A r, q \in Editors : r # q => LockedByEdit(r) \cap LockedByEdit(q) = {}
    /\ \A r \in Editors : LockedByEdit(r) \cap DOMAIN seeding.rows = {}

\* A row that no administrator manages is what the seed script made.
UnmanagedIsSeeded ==
    \A o \in DOMAIN objectives :
        ~objectives[o].managed => objectives[o].program = InfoTech /\ objectives[o].seedText

\* What a request has checked under its locks still holds.
EditsHold ==
    \A r \in Editors :
        /\ EditStep(r, "write") =>
              /\ HasRow(edit[r].target)
              /\ \A c \in Courses : edit[r].target \in mappings[c].entries
                                        => CourseProgram[c] = edit[r].program
        /\ EditStep(r, "claim") =>
              /\ \A o \in edit[r].entries :
                    HasRow(o) /\ objectives[o].program = CourseProgram[edit[r].course]
              /\ edit[r].version <= edit[r].before.version
              /\ edit[r].before.version <= mappings[edit[r].course].version
              /\ edit[r].before.version = mappings[edit[r].course].version
                    => edit[r].before = mappings[edit[r].course]

\* What the seed script has prepared is still what it would make of the rows.
SeedRow(o) ==
    IF HasRow(o) THEN objectives[o]
    ELSE [program |-> InfoTech, seedText |-> TRUE, version |-> 1, managed |-> FALSE]
SeedSet(c) ==
    [entries |-> UnmanagedSet(c), managed |-> mappings[c].managed,
     version |-> IF UnmanagedSet(c) = mappings[c].entries THEN mappings[c].version
                 ELSE mappings[c].version + 1]
SeedHolds ==
    /\ \A o \in DOMAIN seeding.rows : seeding.rows[o] = SeedRow(o)
    /\ \A c \in DOMAIN seeding.courses :
          DOMAIN seeding.rows = Seeded /\ seeding.courses[c] = SeedSet(c)
          /\ SeedSet(c) \in MappingSet

CatalogInv ==
    /\ CatalogTyped /\ LocksExclusive /\ UnmanagedIsSeeded /\ EditsHold /\ SeedHolds
    /\ MappingsFitPrograms

-----------------------------------------------------------------------------
(* Lemmas about the requests and their locks *)

LEMMA EditShape ==
    ASSUME CatalogTyped, NEW r \in Editors
    PROVE  /\ EditStep(r, "idle") => edit[r] = Waiting /\ LockedByEdit(r) = {}
           /\ EditStep(r, "write") => edit[r] \in WriteEdit /\ LockedByEdit(r) = {edit[r].target}
           /\ EditStep(r, "claim") => edit[r] \in ClaimEdit /\ LockedByEdit(r) = edit[r].entries
           /\ EditStep(r, "idle") \/ EditStep(r, "write") \/ EditStep(r, "claim")
  BY DEF CatalogTyped, EditStep, LockedByEdit, Waiting, WriteEdit, ClaimEdit

LEMMA InitCatalog == CatalogInit => CatalogInv
<1> SUFFICES ASSUME CatalogInit PROVE CatalogInv
  OBVIOUS
<1> USE DEF CatalogInit
<1>1. CatalogTyped
  BY CatalogAssumption DEF CatalogTyped, MappingSet, NotSeeding
<1>2. \A r \in Editors : EditStep(r, "idle") /\ LockedByEdit(r) = {}
  BY EditShape, <1>1 DEF EditStep, Waiting
<1>3. LocksExclusive
  BY <1>2 DEF LocksExclusive
<1>4. UnmanagedIsSeeded /\ SeedHolds /\ MappingsFitPrograms
  BY DEF UnmanagedIsSeeded, SeedHolds, MappingsFitPrograms, NotSeeding
<1>5. EditsHold
  BY <1>2 DEF EditsHold, EditStep
<1> QED
  BY <1>1, <1>3, <1>4, <1>5 DEF CatalogInv

LEMMA CreateKeeps ==
    ASSUME CatalogInv, NEW o \in Objectives, NEW program \in Programs, CreateObjective(o, program)
    PROVE  CatalogInv'
<1> DEFINE row == [program |-> program, seedText |-> FALSE, version |-> 1, managed |-> TRUE]
<1> USE DEF CatalogInv
<1>1. /\ DOMAIN objectives' = DOMAIN objectives \cup {o} /\ o \notin DOMAIN objectives
      /\ objectives'[o] = row /\ o \notin Seeded
      /\ \A p \in DOMAIN objectives : objectives'[p] = objectives[p]
      /\ UNCHANGED <<mappings, edit, seeding>>
  BY DEF CreateObjective, HasRow, Put
<1>2. row \in Objective
  BY CatalogAssumption DEF Objective
<1>3. CatalogTyped'
  BY <1>1, <1>2 DEF CatalogTyped
<1>4. LocksExclusive'
  BY <1>1 DEF LocksExclusive, LockedByEdit
<1>5. UnmanagedIsSeeded'
  BY <1>1 DEF UnmanagedIsSeeded
<1>6. EditsHold'
  BY <1>1 DEF EditsHold, EditStep, HasRow
<1>7. SeedHolds'
  <2>1. \A p \in DOMAIN seeding.rows : p # o
    BY <1>1 DEF CatalogTyped
  <2>2. \A p \in DOMAIN seeding.rows : SeedRow(p)' = SeedRow(p)
    BY <2>1, <1>1 DEF SeedRow, HasRow
  <2>3. \A c \in DOMAIN seeding.courses : SeedSet(c)' = SeedSet(c)
    BY <1>1 DEF SeedSet, UnmanagedSet, Mapped
  <2> QED
    BY <2>2, <2>3, <1>1 DEF SeedHolds
<1>8. MappingsFitPrograms'
  BY <1>1 DEF MappingsFitPrograms, HasRow
<1> QED
  BY <1>3, <1>4, <1>5, <1>6, <1>7, <1>8

\* A request that ends gives its locks back; nothing else depends on it.
LEMMA EndKeeps ==
    ASSUME CatalogInv, NEW r \in Editors, EditFails(r)
    PROVE  CatalogInv'
<1> USE DEF CatalogInv
<1>1. /\ edit' = [edit EXCEPT ![r] = Waiting]
      /\ UNCHANGED <<objectives, mappings, seeding>>
  BY DEF EditFails, EndEdit
<1>2. CatalogTyped'
  BY <1>1 DEF CatalogTyped
<1>3. edit'[r] = Waiting /\ \A q \in Editors : q # r => edit'[q] = edit[q]
  BY <1>1 DEF CatalogTyped
<1>4. LockedByEdit(r)' = {} /\ \A q \in Editors : q # r => LockedByEdit(q)' = LockedByEdit(q)
  BY <1>3 DEF LockedByEdit, Waiting
<1>5. LocksExclusive'
  BY <1>1, <1>4 DEF LocksExclusive
<1>6. EditsHold'
  BY <1>1, <1>3 DEF EditsHold, EditStep, HasRow, Waiting
<1>7. UnmanagedIsSeeded' /\ MappingsFitPrograms'
  BY <1>1 DEF UnmanagedIsSeeded, MappingsFitPrograms, HasRow
<1>8. SeedHolds'
  BY <1>1 DEF SeedHolds, SeedRow, SeedSet, UnmanagedSet, Mapped, HasRow
<1> QED
  BY <1>2, <1>5, <1>6, <1>7, <1>8

\* When a request takes its locks, nobody else has them, and nothing else changes.
LEMMA LockKeeps ==
    ASSUME CatalogInv, NEW r \in Editors, EditStep(r, "idle"), NEW e \in WriteEdit \cup ClaimEdit,
           edit' = [edit EXCEPT ![r] = e], UNCHANGED <<objectives, mappings, seeding>>,
           \A o \in LockedByEdit(r)' : NotLocked(o),
           EditsHold'
    PROVE  CatalogInv'
<1> USE DEF CatalogInv
<1>1. CatalogTyped'
  BY DEF CatalogTyped
<1>2. \A q \in Editors : q # r => LockedByEdit(q)' = LockedByEdit(q)
  BY DEF CatalogTyped, LockedByEdit
<1>3. LocksExclusive'
  BY <1>2 DEF LocksExclusive, NotLocked
<1>4. UnmanagedIsSeeded' /\ MappingsFitPrograms'
  BY DEF UnmanagedIsSeeded, MappingsFitPrograms, HasRow
<1>5. SeedHolds'
  BY DEF SeedHolds, SeedRow, SeedSet, UnmanagedSet, Mapped, HasRow
<1> QED
  BY <1>1, <1>3, <1>4, <1>5

LEMMA LockObjectiveKeeps ==
    ASSUME CatalogInv, NEW r \in Editors, NEW o \in Objectives, NEW program \in Programs,
           NEW version \in 1..MaxVersion, LockObjective(r, o, program, version)
    PROVE  CatalogInv'
<1> DEFINE e == [step |-> "write", target |-> o, program |-> program, version |-> version]
<1> USE DEF CatalogInv
<1>1. /\ EditStep(r, "idle") /\ edit' = [edit EXCEPT ![r] = e]
      /\ UNCHANGED <<objectives, mappings, seeding>>
      /\ HasRow(o) /\ NotLocked(o)
      /\ \A c \in Courses : o \in mappings[c].entries => CourseProgram[c] = program
  BY DEF LockObjective
<1>2. e \in WriteEdit
  BY CatalogAssumption DEF WriteEdit
<1>3. edit'[r] = e /\ \A q \in Editors : q # r => edit'[q] = edit[q]
  BY <1>1 DEF CatalogTyped
<1>4. LockedByEdit(r)' = {o}
  BY <1>3 DEF LockedByEdit
<1>5. EditsHold'
  BY <1>1, <1>3 DEF EditsHold, EditStep, HasRow
<1> HIDE DEF e
<1> QED
  BY <1>1, <1>2, <1>4, <1>5, LockKeeps

LEMMA LockMappingsKeeps ==
    ASSUME CatalogInv, NEW r \in Editors, NEW c \in Courses, NEW entries \in SUBSET Objectives,
           NEW version \in 1..MaxSetVersion, LockMappings(r, c, entries, version)
    PROVE  CatalogInv'
<1> DEFINE e == [step |-> "claim", course |-> c, entries |-> entries, version |-> version,
                 before |-> mappings[c]]
<1> USE DEF CatalogInv
<1>1. /\ EditStep(r, "idle") /\ edit' = [edit EXCEPT ![r] = e]
      /\ UNCHANGED <<objectives, mappings, seeding>>
      /\ \A o \in entries : NotLocked(o) /\ HasRow(o) /\ objectives[o].program = CourseProgram[c]
      /\ version <= mappings[c].version
  BY DEF LockMappings, AllLocked
<1>2. e \in ClaimEdit
  BY CatalogAssumption DEF ClaimEdit, CatalogTyped
<1>3. edit'[r] = e /\ \A q \in Editors : q # r => edit'[q] = edit[q]
  BY <1>1 DEF CatalogTyped
<1>4. LockedByEdit(r)' = entries
  BY <1>3 DEF LockedByEdit
<1>5. mappings[c].version \in Nat
  BY DEF CatalogTyped, MappingSet
<1>6. EditsHold'
  BY <1>1, <1>3, <1>5 DEF EditsHold, EditStep, HasRow
<1> HIDE DEF e
<1> QED
  BY <1>1, <1>2, <1>4, <1>6, LockKeeps

\* What the two ways of ending an edit leave of the other requests.
LEMMA OthersAfterEnd ==
    ASSUME CatalogTyped, LocksExclusive, NEW r \in Editors, EndEdit(r), UNCHANGED seeding
    PROVE  /\ edit' \in [Editors -> {Waiting} \cup WriteEdit \cup ClaimEdit]
           /\ edit'[r] = Waiting /\ \A q \in Editors : q # r => edit'[q] = edit[q]
           /\ LocksExclusive'
<1>1. /\ edit' \in [Editors -> {Waiting} \cup WriteEdit \cup ClaimEdit]
      /\ edit'[r] = Waiting /\ \A q \in Editors : q # r => edit'[q] = edit[q]
  BY DEF EndEdit, CatalogTyped
<1>2. LockedByEdit(r)' = {} /\ \A q \in Editors : q # r => LockedByEdit(q)' = LockedByEdit(q)
  BY <1>1 DEF LockedByEdit, Waiting
<1> QED
  BY <1>1, <1>2 DEF LocksExclusive

LEMMA WriteKeeps ==
    ASSUME CatalogInv, NEW r \in Editors, WriteObjective(r)
    PROVE  CatalogInv'
<1> DEFINE o == edit[r].target
           row == [program |-> edit[r].program, seedText |-> FALSE,
                   version |-> objectives[o].version + 1, managed |-> TRUE]
<1> USE DEF CatalogInv
<1>1. EditStep(r, "write") /\ EndEdit(r) /\ UNCHANGED <<mappings, seeding>>
  BY DEF WriteObjective
<1>2. CASE objectives' = objectives
  <2>1. CatalogTyped'
    BY <1>1, <1>2, OthersAfterEnd DEF CatalogTyped
  <2>2. EditsHold'
    BY <1>1, <1>2, OthersAfterEnd DEF EditsHold, EditStep, HasRow, Waiting
  <2>3. UnmanagedIsSeeded' /\ MappingsFitPrograms'
    BY <1>1, <1>2 DEF UnmanagedIsSeeded, MappingsFitPrograms, HasRow
  <2>4. SeedHolds'
    BY <1>1, <1>2 DEF SeedHolds, SeedRow, SeedSet, UnmanagedSet, Mapped, HasRow
  <2> QED
    BY <1>1, <2>1, <2>2, <2>3, <2>4, OthersAfterEnd
<1>3. CASE objectives' # objectives
  <2>1. objectives' = [objectives EXCEPT ![o] = row] /\ row.version <= MaxVersion
    BY <1>3 DEF WriteObjective
  <2>2. o \in DOMAIN objectives /\ edit[r] \in WriteEdit /\ LockedByEdit(r) = {o}
    BY <1>1, EditShape DEF EditsHold, HasRow
  <2>3. row \in Objective
    BY <2>1, <2>2, CatalogAssumption DEF Objective, WriteEdit, CatalogTyped
  <2>4. /\ DOMAIN objectives' = DOMAIN objectives /\ objectives'[o] = row
        /\ \A p \in DOMAIN objectives : p # o => objectives'[p] = objectives[p]
    BY <2>1, <2>2
  <2>5. CatalogTyped'
    BY <1>1, <2>3, <2>4, OthersAfterEnd DEF CatalogTyped
  <2>6. o \notin DOMAIN seeding.rows /\ \A q \in Editors : q # r => o \notin LockedByEdit(q)
    BY <2>2 DEF LocksExclusive
  <2>7. EditsHold'
    <3> SUFFICES ASSUME NEW q \in Editors, q # r, ~EditStep(q, "idle")
                 PROVE  /\ edit'[q] = edit[q]
                        /\ EditStep(q, "write") => edit[q].target # o
                        /\ EditStep(q, "claim") => \A p \in edit[q].entries :
                              /\ p # o /\ HasRow(p)
                              /\ objectives[p].program = CourseProgram[edit[q].course]
      BY <1>1, <2>4, OthersAfterEnd, EditShape DEF EditsHold, EditStep, HasRow, Waiting
    <3> QED
      BY <1>1, <2>6, OthersAfterEnd, EditShape DEF EditsHold
  <2>8. UnmanagedIsSeeded'
    BY <2>4 DEF UnmanagedIsSeeded
  <2>9. MappingsFitPrograms'
    BY <1>1, <2>4 DEF MappingsFitPrograms, EditsHold, HasRow
  <2>10. SeedHolds'
    <3>1. \A p \in DOMAIN seeding.rows : SeedRow(p)' = SeedRow(p)
      BY <2>4, <2>6 DEF SeedRow, HasRow
    <3>2. \A c \in DOMAIN seeding.courses : SeedSet(c)' = SeedSet(c)
      BY <1>1 DEF SeedSet, UnmanagedSet, Mapped
    <3> QED
      BY <3>1, <3>2, <1>1 DEF SeedHolds
  <2> QED
    BY <1>1, <2>5, <2>7, <2>8, <2>9, <2>10, OthersAfterEnd
<1> QED
  BY <1>2, <1>3

LEMMA ClaimKeeps ==
    ASSUME CatalogInv, NEW r \in Editors, ClaimMappings(r)
    PROVE  CatalogInv'
<1> DEFINE c == edit[r].course
           set == [entries |-> edit[r].entries, version |-> mappings[c].version + 1,
                   managed |-> TRUE]
<1> USE DEF CatalogInv
<1>1. EditStep(r, "claim") /\ EndEdit(r) /\ UNCHANGED <<objectives, seeding>>
  BY DEF ClaimMappings
<1>2. CASE mappings' = mappings
  <2>1. CatalogTyped'
    BY <1>1, <1>2, OthersAfterEnd DEF CatalogTyped
  <2>2. EditsHold'
    BY <1>1, <1>2, OthersAfterEnd DEF EditsHold, EditStep, HasRow, Waiting
  <2>3. UnmanagedIsSeeded' /\ MappingsFitPrograms'
    BY <1>1, <1>2 DEF UnmanagedIsSeeded, MappingsFitPrograms, HasRow
  <2>4. SeedHolds'
    BY <1>1, <1>2 DEF SeedHolds, SeedRow, SeedSet, UnmanagedSet, Mapped, HasRow
  <2> QED
    BY <1>1, <2>1, <2>2, <2>3, <2>4, OthersAfterEnd
<1>3. CASE mappings' # mappings
  <2>1. /\ mappings' = [mappings EXCEPT ![c] = set] /\ set.version <= MaxSetVersion
        /\ c \notin DOMAIN seeding.courses
    BY <1>3 DEF ClaimMappings
  <2>2. edit[r] \in ClaimEdit /\ LockedByEdit(r) = edit[r].entries
    BY <1>1, EditShape
  <2>3. c \in Courses /\ set \in MappingSet
    BY <2>1, <2>2, CatalogAssumption DEF MappingSet, ClaimEdit, CatalogTyped
  <2>4. mappings'[c] = set /\ \A d \in Courses : d # c => mappings'[d] = mappings[d]
    BY <2>1, <2>3 DEF CatalogTyped
  <2>5. CatalogTyped'
    BY <1>1, <2>1, <2>3, OthersAfterEnd DEF CatalogTyped
  <2>6. EditsHold'
    <3> SUFFICES ASSUME NEW q \in Editors, q # r
                 PROVE  /\ EditStep(q, "write") =>
                              \A d \in Courses : edit[q].target \in mappings'[d].entries
                                                    => CourseProgram[d] = edit[q].program
                        /\ EditStep(q, "claim") =>
                              /\ edit[q].before.version <= mappings'[edit[q].course].version
                              /\ edit[q].before.version = mappings'[edit[q].course].version
                                    => edit[q].before = mappings'[edit[q].course]
      BY <1>1, OthersAfterEnd DEF EditsHold, EditStep, HasRow, Waiting
    <3>1. EditStep(q, "write") => edit[q].target \notin edit[r].entries
      BY <2>2, EditShape DEF LocksExclusive
    <3>2. ASSUME EditStep(q, "claim")
          PROVE  /\ edit[q].before.version \in Nat /\ edit[q].course \in Courses
                 /\ \A d \in Courses : mappings[d].version \in Nat
      BY <3>2, EditShape DEF ClaimEdit, MappingSet, CatalogTyped
    <3> QED
      BY <2>4, <3>1, <3>2 DEF EditsHold
  <2>7. UnmanagedIsSeeded'
    BY <1>1 DEF UnmanagedIsSeeded
  <2>8. MappingsFitPrograms'
    BY <1>1, <2>4 DEF MappingsFitPrograms, EditsHold, HasRow
  <2>9. SeedHolds'
    <3>1. \A p \in DOMAIN seeding.rows : SeedRow(p)' = SeedRow(p)
      BY <1>1 DEF SeedRow, HasRow
    <3>2. \A d \in DOMAIN seeding.courses : d # c /\ d \in Courses
      BY <2>1, CatalogAssumption DEF CatalogTyped
    <3>3. \A d \in DOMAIN seeding.courses : SeedSet(d)' = SeedSet(d)
      BY <1>1, <2>4, <3>2 DEF SeedSet, UnmanagedSet, Mapped
    <3> QED
      BY <3>1, <3>3, <1>1 DEF SeedHolds
  <2> QED
    BY <1>1, <2>5, <2>6, <2>7, <2>8, <2>9, OthersAfterEnd
<1> QED
  BY <1>2, <1>3

-----------------------------------------------------------------------------
(* The seed script *)

\* What the script prepares changes nothing that requests have checked.
LEMMA EditsBesideSeed ==
    ASSUME EditsHold, UnmanagedIsSeeded, MappingsFitPrograms,
           UNCHANGED <<objectives, mappings, edit>>
    PROVE  EditsHold' /\ UnmanagedIsSeeded' /\ MappingsFitPrograms'
  BY DEF EditsHold, EditStep, HasRow, UnmanagedIsSeeded, MappingsFitPrograms

LEMMA SeedObjectiveKeeps ==
    ASSUME CatalogInv, NEW o \in Objectives, SeedObjective(o)
    PROVE  CatalogInv'
<1> USE DEF CatalogInv
<1>1. /\ o \in Seeded /\ o \notin DOMAIN seeding.rows /\ NotLocked(o)
      /\ UNCHANGED <<objectives, mappings, edit>>
  BY DEF SeedObjective
<1>2. seeding' = [seeding EXCEPT !.rows = Put(@, o, SeedRow(o))]
  BY DEF SeedObjective, SeedRow, Converged, HasRow, UnmanagedIsSeeded
<1>3. /\ seeding' = [rows |-> seeding'.rows, courses |-> seeding'.courses]
      /\ seeding'.courses = seeding.courses
      /\ DOMAIN seeding'.rows = DOMAIN seeding.rows \cup {o}
      /\ seeding'.rows[o] = SeedRow(o)
      /\ \A p \in DOMAIN seeding.rows : seeding'.rows[p] = seeding.rows[p]
  <2>1. seeding' = [rows |-> Put(seeding.rows, o, SeedRow(o)), courses |-> seeding.courses]
    BY <1>2 DEF CatalogTyped
  <2> QED
    BY <1>1, <2>1 DEF Put
<1>4. CatalogTyped'
  BY <1>1, <1>3 DEF CatalogTyped
<1>5. LocksExclusive'
  BY <1>1, <1>3 DEF LocksExclusive, LockedByEdit, NotLocked
<1>6. \A c \in DOMAIN seeding.courses : FALSE
  BY <1>1 DEF SeedHolds
<1>7. SeedHolds'
  BY <1>1, <1>3, <1>6 DEF SeedHolds, SeedRow, HasRow
<1> QED
  BY <1>1, <1>4, <1>5, <1>7, EditsBesideSeed

\* The set that the seed script leaves at a course.
LEMMA SeedSetShape ==
    ASSUME NEW c \in Courses, mappings[c] \in MappingSet
    PROVE  /\ UnmanagedSet(c) = mappings[c].entries => SeedSet(c) = mappings[c]
           /\ UnmanagedSet(c) # mappings[c].entries =>
                 SeedSet(c) = [entries |-> UnmanagedSet(c), version |-> mappings[c].version + 1,
                               managed |-> mappings[c].managed]
<1>1. mappings[c] = [entries |-> mappings[c].entries, version |-> mappings[c].version,
                     managed |-> mappings[c].managed]
  BY DEF MappingSet
<1>2. CASE UnmanagedSet(c) = mappings[c].entries
  BY <1>1, <1>2 DEF SeedSet
<1> QED
  BY <1>2 DEF SeedSet

LEMMA SeedCourseKeeps ==
    ASSUME CatalogInv, NEW c \in Courses, SeedCourse(c)
    PROVE  CatalogInv'
<1> USE DEF CatalogInv
<1>1. /\ c \in SeededCourses /\ DOMAIN seeding.rows = Seeded
      /\ UnmanagedSet(c) # mappings[c].entries => mappings[c].version < MaxSetVersion
      /\ UNCHANGED <<objectives, mappings, edit>>
  BY DEF SeedCourse
<1>2. seeding' = [seeding EXCEPT !.courses = Put(@, c, SeedSet(c))]
  BY DEF SeedCourse, SeedSet
<1>3. /\ seeding' = [rows |-> seeding'.rows, courses |-> seeding'.courses]
      /\ seeding'.rows = seeding.rows
      /\ DOMAIN seeding'.courses = DOMAIN seeding.courses \cup {c}
      /\ seeding'.courses[c] = SeedSet(c)
      /\ \A d \in DOMAIN seeding.courses : d # c => seeding'.courses[d] = seeding.courses[d]
  <2>1. seeding' = [rows |-> seeding.rows, courses |-> Put(seeding.courses, c, SeedSet(c))]
    BY <1>2 DEF CatalogTyped
  <2> QED
    BY <1>1, <2>1 DEF Put
<1>4. CatalogTyped'
  BY <1>1, <1>3 DEF CatalogTyped
<1>5. LocksExclusive'
  BY <1>1, <1>3 DEF LocksExclusive, LockedByEdit
<1>6. SeedSet(c) \in MappingSet
  <2>1. mappings[c] \in MappingSet
    BY DEF CatalogTyped
  <2>2. UnmanagedSet(c) \in SUBSET Objectives
    BY <2>1, CatalogAssumption DEF UnmanagedSet, Mapped, MappingSet
  <2>3. CASE UnmanagedSet(c) = mappings[c].entries
    BY <2>1, <2>3, SeedSetShape
  <2>4. CASE UnmanagedSet(c) # mappings[c].entries
    <3>1. mappings[c].version + 1 \in 1..MaxSetVersion
      BY <1>1, <2>1, <2>4, CatalogAssumption DEF MappingSet
    <3> QED
      BY <2>1, <2>2, <2>4, <3>1, SeedSetShape DEF MappingSet
  <2> QED
    BY <2>3, <2>4
<1>7. SeedHolds'
  <2>1. \A o \in DOMAIN seeding.rows : SeedRow(o)' = SeedRow(o)
    BY <1>1 DEF SeedRow, HasRow
  <2>2. \A d \in Courses : SeedSet(d)' = SeedSet(d)
    BY <1>1, <1>3 DEF SeedSet, UnmanagedSet, Mapped
  <2> QED
    BY <1>1, <1>3, <1>6, <2>1, <2>2, CatalogAssumption DEF SeedHolds, CatalogTyped
<1> QED
  BY <1>1, <1>4, <1>5, <1>7, EditsBesideSeed

LEMMA SeedFailsKeeps ==
    ASSUME CatalogInv, SeedFails
    PROVE  CatalogInv'
<1> USE DEF CatalogInv
<1>1. seeding' = NotSeeding /\ UNCHANGED <<objectives, mappings, edit>>
  BY DEF SeedFails
<1>2. CatalogTyped' /\ SeedHolds'
  BY <1>1 DEF CatalogTyped, SeedHolds, NotSeeding
<1>3. LocksExclusive'
  BY <1>1 DEF LocksExclusive, LockedByEdit, NotSeeding
<1> QED
  BY <1>1, <1>2, <1>3, EditsBesideSeed

\* A commit leaves every row with a managed edit or of the right program alone, and only
\* sets that nobody manages change.
LEMMA CommitChanges ==
    ASSUME CatalogInv, SeedCommit
    PROVE  /\ \A o \in DOMAIN objectives : objectives'[o] = objectives[o]
           /\ DOMAIN objectives' = Seeded \cup DOMAIN objectives
           /\ \A o \in Seeded : objectives'[o] = SeedRow(o)
           /\ \A c \in SeededCourses : mappings'[c] = SeedSet(c) /\ SeedSet(c) \in MappingSet
           /\ \A c \in Courses \ SeededCourses : mappings'[c] = mappings[c]
<1> USE DEF CatalogInv
<1>1. /\ DOMAIN seeding.rows = Seeded /\ DOMAIN seeding.courses = SeededCourses
      /\ objectives' = [o \in Seeded \cup DOMAIN objectives |->
                           IF o \in Seeded THEN seeding.rows[o] ELSE objectives[o]]
      /\ mappings' = [c \in Courses |->
                         IF c \in SeededCourses THEN seeding.courses[c] ELSE mappings[c]]
  BY DEF SeedCommit
<1>2. \A o \in Seeded : seeding.rows[o] = SeedRow(o)
  BY <1>1 DEF SeedHolds
<1>3. \A o \in DOMAIN objectives : SeedRow(o) = objectives[o]
  BY DEF SeedRow, HasRow
<1> QED
  BY <1>1, <1>2, <1>3, CatalogAssumption DEF SeedHolds

\* What the script maps to a course is of the course's program.
LEMMA SeedSetFits ==
    ASSUME CatalogInv, NEW c \in SeededCourses, NEW o \in SeedSet(c).entries,
           DOMAIN seeding.rows = Seeded
    PROVE  /\ o \in Seeded \/ HasRow(o)
           /\ (IF o \in Seeded THEN SeedRow(o) ELSE objectives[o]).program = InfoTech
<1> USE DEF CatalogInv
<1>1. c \in Courses /\ CourseProgram[c] = InfoTech /\ mappings[c] \in MappingSet
  BY CatalogAssumption DEF CatalogTyped
<1>2. SeedSet(c).entries = UnmanagedSet(c)
  BY <1>1 DEF SeedSet, MappingSet
<1>3. CASE o \in mappings[c].entries
  BY <1>1, <1>3 DEF MappingsFitPrograms, SeedRow, HasRow
<1>4. CASE o \notin mappings[c].entries
  <2>1. o \in Seeded /\ seeding.rows[o].program = InfoTech
    BY <1>2, <1>4 DEF UnmanagedSet, Mapped
  <2> QED
    BY <2>1 DEF SeedHolds
<1> QED
  BY <1>3, <1>4

LEMMA SeedCommitKeeps ==
    ASSUME CatalogInv, SeedCommit
    PROVE  CatalogInv'
<1> USE DEF CatalogInv
<1>1. /\ DOMAIN seeding.rows = Seeded /\ DOMAIN seeding.courses = SeededCourses
      /\ seeding' = NotSeeding /\ UNCHANGED edit
      /\ mappings' = [c \in Courses |->
                         IF c \in SeededCourses THEN seeding.courses[c] ELSE mappings[c]]
  BY DEF SeedCommit
<1>2. \A o \in Seeded : SeedRow(o) \in Objective
  BY CatalogAssumption DEF SeedRow, HasRow, CatalogTyped, Objective, InfoTech, Programs
<1>3. mappings' \in [Courses -> MappingSet]
  BY <1>1, CommitChanges DEF CatalogTyped, SeedHolds
<1>4. CatalogTyped'
  BY <1>1, <1>2, <1>3, CommitChanges, CatalogAssumption DEF CatalogTyped, NotSeeding
<1>5. LocksExclusive'
  BY <1>1 DEF LocksExclusive, LockedByEdit, NotSeeding
<1>6. UnmanagedIsSeeded'
  BY CommitChanges DEF UnmanagedIsSeeded, SeedRow, HasRow
<1>7. MappingsFitPrograms'
  <2> SUFFICES ASSUME NEW c \in Courses, NEW o \in mappings'[c].entries
               PROVE  HasRow(o)' /\ objectives'[o].program = CourseProgram[c]
    BY DEF MappingsFitPrograms
  <2>1. CASE c \in SeededCourses
    BY <1>1, <2>1, CommitChanges, SeedSetFits, CatalogAssumption DEF HasRow
  <2>2. CASE c \notin SeededCourses
    BY <2>2, CommitChanges DEF MappingsFitPrograms, HasRow
  <2> QED
    BY <2>1, <2>2
<1>8. EditsHold'
  <2> SUFFICES ASSUME NEW r \in Editors
               PROVE  /\ EditStep(r, "write") =>
                            /\ HasRow(edit[r].target)'
                            /\ \A c \in Courses : edit[r].target \in mappings'[c].entries
                                                      => CourseProgram[c] = edit[r].program
                      /\ EditStep(r, "claim") =>
                            /\ \A o \in edit[r].entries : HasRow(o)'
                                  /\ objectives'[o].program = CourseProgram[edit[r].course]
                            /\ edit[r].before.version <= mappings'[edit[r].course].version
                            /\ edit[r].before.version = mappings'[edit[r].course].version
                                  => edit[r].before = mappings'[edit[r].course]
    BY <1>1 DEF EditsHold, EditStep
  <2>1. LockedByEdit(r) \cap Seeded = {}
    BY <1>1 DEF LocksExclusive
  <2>2. ASSUME EditStep(r, "write"), NEW c \in Courses, edit[r].target \in mappings'[c].entries
        PROVE  edit[r].target \in mappings[c].entries
    <3>1. edit[r].target \notin Seeded
      BY <2>1, <2>2, EditShape
    <3>2. CASE c \in SeededCourses
      <4>1. mappings'[c] = SeedSet(c)
        BY <3>2, CommitChanges
      <4>2. mappings'[c].entries = UnmanagedSet(c)
        BY <4>1 DEF SeedSet
      <4> QED
        BY <2>2, <3>1, <4>2 DEF UnmanagedSet, Mapped
    <3> QED
      BY <2>2, <3>2, CommitChanges
  <2>3. ASSUME EditStep(r, "claim")
        PROVE  /\ edit[r].before.version <= mappings'[edit[r].course].version
               /\ edit[r].before.version = mappings'[edit[r].course].version
                     => edit[r].before = mappings'[edit[r].course]
    <3> DEFINE c == edit[r].course
    <3>1. /\ c \in Courses /\ edit[r].before.version \in Nat /\ mappings[c] \in MappingSet
          /\ mappings[c].version \in Nat
      BY <2>3, EditShape DEF ClaimEdit, MappingSet, CatalogTyped
    <3>2. mappings'[c] = mappings[c] \/ mappings'[c].version = mappings[c].version + 1
      <4>1. CASE c \in SeededCourses
        BY <3>1, <4>1, CommitChanges, SeedSetShape
      <4> QED
        BY <3>1, <4>1, CommitChanges
    <3> QED
      BY <2>3, <3>1, <3>2 DEF EditsHold
  <2>4. EditStep(r, "write") => HasRow(edit[r].target)'
    BY <1>1, CommitChanges DEF EditsHold, HasRow
  <2>5. EditStep(r, "claim") =>
            \A o \in edit[r].entries : HasRow(o)'
                /\ objectives'[o].program = CourseProgram[edit[r].course]
    BY CommitChanges DEF EditsHold, HasRow
  <2> QED
    BY <2>2, <2>3, <2>4, <2>5 DEF EditsHold
<1>9. SeedHolds'
  BY <1>1 DEF SeedHolds, NotSeeding
<1> QED
  BY <1>4, <1>5, <1>6, <1>7, <1>8, <1>9

-----------------------------------------------------------------------------

LEMMA CatalogStepKeeps == CatalogInv /\ [CatalogNext]_catalogVars => CatalogInv'
<1> SUFFICES ASSUME CatalogInv, [CatalogNext]_catalogVars PROVE CatalogInv'
  OBVIOUS
<1>1. CASE UNCHANGED catalogVars
  <2> USE <1>1 DEF CatalogInv, catalogVars
  <2>1. CatalogTyped' /\ LocksExclusive'
    BY DEF CatalogTyped, LocksExclusive, LockedByEdit
  <2>2. UnmanagedIsSeeded' /\ EditsHold' /\ MappingsFitPrograms'
    BY DEF UnmanagedIsSeeded, EditsHold, EditStep, HasRow, MappingsFitPrograms
  <2>3. SeedHolds'
    BY DEF SeedHolds, SeedRow, HasRow, SeedSet, UnmanagedSet, Mapped
  <2> QED
    BY <2>1, <2>2, <2>3
<1>2. CASE CatalogNext
  BY <1>2, CreateKeeps, LockObjectiveKeeps, WriteKeeps, LockMappingsKeeps, ClaimKeeps,
     EndKeeps, SeedObjectiveKeeps, SeedCourseKeeps, SeedCommitKeeps, SeedFailsKeeps
     DEF CatalogNext
<1> QED
  BY <1>1, <1>2

\* Every reachable state of the catalogue satisfies the invariant.
THEOREM CatalogInvariant == CatalogSpec => []CatalogInv
  BY InitCatalog, CatalogStepKeeps, PTL DEF CatalogSpec

\* A step changes what an administrator edited only with its row of history.
LEMMA EditAudited ==
    ASSUME CatalogInv, [CatalogNext]_catalogVars
    PROVE  /\ \A o \in DOMAIN objectives :
                objectives[o].managed /\ objectives'[o] # objectives[o] =>
                    change' = [entity |-> o, before |-> objectives[o], after |-> objectives'[o]]
           /\ \A c \in Courses :
                mappings'[c] # mappings[c] /\ mappings'[c].managed =>
                    change' = [entity |-> c, before |-> mappings[c], after |-> mappings'[c]]
<1> USE DEF CatalogInv
<1>1. CASE UNCHANGED <<objectives, mappings>>
  BY <1>1
<1>2. ASSUME NEW o \in Objectives, NEW program \in Programs, CreateObjective(o, program)
      PROVE  /\ \A p \in DOMAIN objectives : objectives'[p] = objectives[p]
             /\ mappings' = mappings
  BY <1>2 DEF CreateObjective, Put, HasRow
<1>3. ASSUME NEW r \in Editors, WriteObjective(r), objectives' # objectives
      PROVE  /\ \A p \in DOMAIN objectives :
                   objectives'[p] # objectives[p] =>
                      change' = [entity |-> p, before |-> objectives[p], after |-> objectives'[p]]
             /\ mappings' = mappings
  <2> DEFINE o == edit[r].target
             row == [program |-> edit[r].program, seedText |-> FALSE,
                     version |-> objectives[o].version + 1, managed |-> TRUE]
  <2>1. /\ objectives' = [objectives EXCEPT ![o] = row] /\ mappings' = mappings
        /\ change' = [entity |-> o, before |-> objectives[o], after |-> row]
    BY <1>3 DEF WriteObjective
  <2> QED
    BY <2>1
<1>4. ASSUME NEW r \in Editors, ClaimMappings(r), mappings' # mappings
      PROVE  /\ objectives' = objectives
             /\ \A d \in Courses :
                   mappings'[d] # mappings[d] =>
                      change' = [entity |-> d, before |-> mappings[d], after |-> mappings'[d]]
  <2> DEFINE c == edit[r].course
             set == [entries |-> edit[r].entries, version |-> mappings[c].version + 1,
                     managed |-> TRUE]
  <2>1. /\ mappings' = [mappings EXCEPT ![c] = set] /\ objectives' = objectives
        /\ change' = [entity |-> c, before |-> edit[r].before, after |-> set]
        /\ mappings[c].version = edit[r].version /\ EditStep(r, "claim")
    BY <1>4 DEF ClaimMappings, Claims
  <2>2. /\ edit[r].version \in Nat /\ edit[r].before.version \in Nat /\ c \in Courses
        /\ mappings[c].version \in Nat
    BY <2>1, EditShape DEF ClaimEdit, MappingSet, CatalogTyped
  <2>3. edit[r].before = mappings[c]
    BY <2>1, <2>2 DEF EditsHold
  <2> QED
    BY <2>1, <2>2, <2>3 DEF CatalogTyped
<1>5. ASSUME SeedCommit
      PROVE  /\ \A p \in DOMAIN objectives : objectives'[p] = objectives[p]
             /\ \A c \in Courses : mappings'[c].managed => mappings'[c] = mappings[c]
  <2>1. ASSUME NEW c \in SeededCourses, mappings'[c].managed
        PROVE  mappings'[c] = mappings[c]
    <3>1. mappings'[c] = SeedSet(c) /\ mappings[c] \in MappingSet
      BY <1>5, CommitChanges, CatalogAssumption DEF CatalogTyped
    <3>2. mappings[c].managed
      BY <2>1, <3>1 DEF SeedSet, MappingSet
    <3> QED
      BY <3>1, <3>2, SeedSetShape, CatalogAssumption DEF UnmanagedSet
  <2> QED
    BY <1>5, <2>1, CommitChanges
<1>6. CASE CatalogNext
  <2>1. ASSUME ~ \E o \in Objectives, program \in Programs : CreateObjective(o, program),
               ~ \E r \in Editors : WriteObjective(r) /\ objectives' # objectives,
               ~ \E r \in Editors : ClaimMappings(r) /\ mappings' # mappings,
               ~ SeedCommit
        PROVE  UNCHANGED <<objectives, mappings>>
    BY <1>6, <2>1 DEF CatalogNext, LockObjective, WriteObjective, LockMappings, ClaimMappings,
                      EditFails, SeedObjective, SeedCourse, SeedFails
  <2> QED
    BY <1>1, <1>2, <1>3, <1>4, <1>5, <2>1
<1> QED
  BY <1>1, <1>6 DEF catalogVars

\* A course is mapped to objectives of its own program alone, and what an administrator edited
\* changes only with its row of history, whichever requests and runs of the seed script meet
\* (curriculum/management.py, scripts/seed_curriculum_map.py).
THEOREM CatalogueStaysSound == CatalogSpec => CatalogueStands
<1>1. CatalogInv => MappingsFitPrograms
  BY DEF CatalogInv
<1>2. CatalogInv /\ [CatalogNext]_catalogVars =>
        [/\ \A o \in DOMAIN objectives :
                objectives[o].managed /\ objectives'[o] # objectives[o] =>
                    change' = [entity |-> o, before |-> objectives[o], after |-> objectives'[o]]
         /\ \A c \in Courses :
                mappings'[c] # mappings[c] /\ mappings'[c].managed =>
                    change' = [entity |-> c, before |-> mappings[c], after |-> mappings'[c]]
        ]_catalogVars
  BY EditAudited
<1> QED
  BY CatalogInvariant, <1>1, <1>2, PTL DEF CatalogSpec, CatalogueStands, EditsAreAudited

-----------------------------------------------------------------------------
(* Reference documents: the invariant *)

\* Where the upload or the ingestion of a document stands, and the status it has then.
StatusFitsStep(d) ==
    /\ ingest[d] = "idle" <=> status[d] = "none"
    /\ ingest[d] \in Uploading => status[d] = "PENDING"
    /\ ingest[d] = "abort" => status[d] \in {"PENDING", "deleted"}
    /\ ingest[d] \in Ingesting \ {"unlink"} => status[d] \in {"PROCESSING", "deleted"}
    /\ ingest[d] = "unlink" => status[d] = "deleted" \/ (status[d] = "FAILED" /\ ~unverified[d])

\* What the stores hold at each step, and what a deletion under way may have removed from it.
StoresFitStep(d) ==
    /\ \/ status[d] \in {"none", "PENDING", "CLEANUP_PENDING"}
       \/ ingest[d] \in {"queued", "extract", "refuse", "persist"}
       => ~chunks[d] /\ ~vectors[d] /\ ~unverified[d]
    /\ ingest[d] \in {"describe", "read", "settle"} => ~vectors[d]
    /\ ingest[d] \in {"describe", "read", "embed", "complete", "purge", "keep"} /\ Row(d)
       => chunks[d]
    /\ ingest[d] \in {"persist", "describe", "read", "embed", "complete", "purge", "keep"}
       /\ deletes = 0 => local[d] = "whole"
    /\ ingest[d] = "complete" /\ deletes = 0 => vectors[d]

\* Requests run while the process is up; deletions are counted; only a published document is
\* rebuilt.
RequestsFit(d) ==
    /\ ingest[d] \notin {"idle", "gone"} => up
    /\ remover[d] # "idle" \/ status[d] = "deleted" => deletes > 0 /\ status[d] # "none"
    /\ rebuilder[d] = "upsert" => ingest[d] = "gone" /\ status[d] \in {"PROCESSED", "deleted"}

DocumentStands(d) ==
    /\ status[d] = "FAILED" /\ ~unverified[d] => ~vectors[d] /\ ~chunks[d]
    /\ status[d] = "FAILED" /\ unverified[d] /\ deletes = 0 => chunks[d] /\ local[d] = "whole"
    /\ status[d] = "PROCESSED" => (chunks[d] /\ vectors[d]) \/ deletes > 0
    /\ cited[d] => status[d] = "PROCESSED" /\ chunks[d]

DocumentHolds(d) ==
    StatusFitsStep(d) /\ StoresFitStep(d) /\ RequestsFit(d) /\ DocumentStands(d)

AssetsInv == AssetsTypeOK /\ \A d \in Docs : DocumentHolds(d)

-----------------------------------------------------------------------------

LEMMA InitAssets == AssetsInit => AssetsInv
<1> SUFFICES ASSUME AssetsInit PROVE AssetsInv
  OBVIOUS
<1> USE DEF AssetsInit
<1>1. AssetsTypeOK
  <2>1. /\ unverified \in [Docs -> BOOLEAN] /\ chunks \in [Docs -> BOOLEAN]
        /\ cited \in [Docs -> BOOLEAN] /\ vectors \in [Docs -> BOOLEAN]
        /\ remote \in [Docs -> BOOLEAN]
    OBVIOUS
  <2>2. /\ status \in [Docs -> {"none", "PENDING", "PROCESSING", "PROCESSED", "FAILED",
                             "CLEANUP_PENDING", "deleted"}]
        /\ path \in [Docs -> {"local", "remote"}] /\ rmPath \in [Docs -> {"local", "remote"}]
        /\ local \in [Docs -> {"none", "whole", "damaged"}]
        /\ ingest \in [Docs -> Working \cup {"idle", "gone"}]
        /\ remover \in [Docs -> {"idle", "vectors", "files", "row"}]
        /\ rebuilder \in [Docs -> {"idle", "upsert"}] /\ up \in BOOLEAN
    OBVIOUS
  <2>3. deletes \in 0..MaxDeletes /\ crashes \in 0..MaxCrashes /\ faults \in 0..MaxFaults
    BY LimitsAssumption
  <2> QED
    BY <2>1, <2>2, <2>3 DEF AssetsTypeOK
<1>2. \A d \in Docs : StatusFitsStep(d) /\ StoresFitStep(d)
  BY DEF StatusFitsStep, StoresFitStep, Uploading, Ingesting, Row
<1>3. \A d \in Docs : RequestsFit(d) /\ DocumentStands(d)
  BY DEF RequestsFit, DocumentStands
<1> QED
  BY <1>1, <1>2, <1>3 DEF AssetsInv, DocumentHolds

USE DEF Uploading, Ingesting, Working, Row, Set, Go, NoFault, Fault, Others, AdminOnly, Step,
        sqlVars, storeVars, adminVars, boundVars

\* A step for one document leaves the others as they are.
LEMMA OtherDocuments ==
    ASSUME AssetsInv, NEW d \in Docs, NEW e \in Docs, e # d,
           status'[e] = status[e], unverified'[e] = unverified[e], chunks'[e] = chunks[e],
           cited'[e] = cited[e], vectors'[e] = vectors[e], local'[e] = local[e],
           ingest'[e] = ingest[e], remover'[e] = remover[e], rebuilder'[e] = rebuilder[e],
           up' = up, deletes' \in {deletes, deletes + 1}
    PROVE  DocumentHolds(e)'
<1>1. /\ deletes \in Nat /\ (deletes > 0 => deletes' > 0) /\ (deletes' = 0 => deletes = 0)
      /\ DocumentHolds(e)
  BY LimitsAssumption DEF AssetsInv, AssetsTypeOK
<1>2. StatusFitsStep(e)'
  BY <1>1 DEF DocumentHolds, StatusFitsStep
<1>3. StoresFitStep(e)'
  BY <1>1 DEF DocumentHolds, StoresFitStep
<1>4. RequestsFit(e)'
  BY <1>1 DEF DocumentHolds, RequestsFit
<1>5. DocumentStands(e)'
  BY <1>1 DEF DocumentHolds, DocumentStands
<1> QED
  BY <1>2, <1>3, <1>4, <1>5 DEF DocumentHolds

LEMMA UploadTyped ==
    ASSUME AssetsTypeOK, NEW d \in Docs, UploadStep(d)
    PROVE  AssetsTypeOK'
<1> USE LimitsAssumption DEF AssetsTypeOK
<1>1. CASE Upload(d)
  BY <1>1 DEF Upload
<1>2. CASE WriteFile(d)
  BY <1>2 DEF WriteFile
<1>3. CASE Store(d)
  <2>1. remote' \in [Docs -> BOOLEAN]
    BY <1>3 DEF Store
  <2> QED
    BY <1>3, <2>1 DEF Store
<1>4. CASE CommitStub(d)
  BY <1>4 DEF CommitStub
<1>5. CASE AbortUpload(d)
  BY <1>5 DEF AbortUpload, AbortStatus
<1> QED
  BY <1>1, <1>2, <1>3, <1>4, <1>5 DEF UploadStep

LEMMA UploadKeeps ==
    ASSUME AssetsInv, NEW d \in Docs, UploadStep(d)
    PROVE  AssetsInv'
<1>1. AssetsTypeOK'
  BY UploadTyped DEF AssetsInv
<1>2. DocumentHolds(d)'
  <2>0. AssetsTypeOK /\ DocumentHolds(d)
    BY DEF AssetsInv
  <2> USE <2>0 DEF AssetsTypeOK, DocumentHolds, StatusFitsStep, StoresFitStep, RequestsFit,
                   DocumentStands
  <2>1. CASE Upload(d)
    BY <2>1 DEF Upload
  <2>2. CASE WriteFile(d)
    BY <2>2 DEF WriteFile
  <2>3. CASE Store(d)
    BY <2>3 DEF Store
  <2>4. CASE CommitStub(d)
    BY <2>4 DEF CommitStub
  <2>5. CASE AbortUpload(d)
    BY <2>5 DEF AbortUpload, AbortStatus
  <2> QED
    BY <2>1, <2>2, <2>3, <2>4, <2>5 DEF UploadStep
<1>3. ASSUME NEW e \in Docs, e # d PROVE DocumentHolds(e)'
  BY <1>3, OtherDocuments DEF AssetsInv, AssetsTypeOK, UploadStep, Upload, WriteFile, Store,
     CommitStub, AbortUpload
<1> QED
  BY <1>1, <1>2, <1>3 DEF AssetsInv

LEMMA IngestTyped ==
    ASSUME AssetsTypeOK, NEW d \in Docs, IngestStep(d)
    PROVE  AssetsTypeOK'
<1> USE LimitsAssumption DEF AssetsTypeOK
<1>1. CASE StartIngestion(d)
  BY <1>1 DEF StartIngestion
<1>2. CASE Extract(d)
  BY <1>2 DEF Extract, Resolve
<1>3. CASE PersistChunks(d)
  <2>1. chunks' \in [Docs -> BOOLEAN]
    BY <1>3 DEF PersistChunks
  <2> QED
    BY <1>3, <2>1 DEF PersistChunks
<1>4. CASE Describe(d)
  <2>1. unverified' \in [Docs -> BOOLEAN]
    BY <1>4 DEF Describe
  <2> QED
    BY <1>4, <2>1 DEF Describe
<1>5. CASE ReadChunks(d)
  BY <1>5 DEF ReadChunks
<1>6. CASE Embed(d)
  <2>1. vectors' \in [Docs -> BOOLEAN]
    <3>1. \A some \in {TRUE, vectors[d]} : some \in BOOLEAN
      OBVIOUS
    <3>2. PICK some \in BOOLEAN : vectors' = [vectors EXCEPT ![d] = some]
      BY <1>6, <3>1, Zenon DEF Embed
    <3> QED
      BY <3>2
  <2> QED
    BY <1>6, <2>1 DEF Embed
<1>7. CASE FinishIngestion(d)
  <2>1. unverified' \in [Docs -> BOOLEAN]
    BY <1>7 DEF FinishIngestion
  <2> QED
    BY <1>7, <2>1 DEF FinishIngestion
<1>8. CASE Purge(d)
  <2>1. vectors' \in [Docs -> BOOLEAN]
    <3>1. \A some \in {FALSE, vectors[d]} : some \in BOOLEAN
      OBVIOUS
    <3>2. PICK some \in BOOLEAN : vectors' = [vectors EXCEPT ![d] = some]
      BY <1>8, <3>1, Zenon DEF Purge
    <3> QED
      BY <3>2
  <2> QED
    BY <1>8, <2>1 DEF Purge
<1>9. CASE Keep(d)
  <2>1. unverified' \in [Docs -> BOOLEAN]
    BY <1>9 DEF Keep
  <2>2. status' \in [Docs -> {"none", "PENDING", "PROCESSING", "PROCESSED", "FAILED",
                             "CLEANUP_PENDING", "deleted"}]
    BY <1>9 DEF Keep
  <2>3. ingest' \in [Docs -> Working \cup {"idle", "gone"}]
    BY <1>9 DEF Keep
  <2>4. faults' \in 0..MaxFaults
    BY <1>9 DEF Keep
  <2> QED
    BY <1>9, <2>1, <2>2, <2>3, <2>4 DEF Keep
<1>10. CASE Settle(d)
  <2>1. unverified' \in [Docs -> BOOLEAN]
    BY <1>10 DEF Settle
  <2>2. chunks' \in [Docs -> BOOLEAN]
    BY <1>10 DEF Settle
  <2> QED
    BY <1>10, <2>1, <2>2 DEF Settle
<1>11. CASE Unlink(d)
  BY <1>11 DEF Unlink
<1> QED
  BY <1>1, <1>2, <1>3, <1>4, <1>5, <1>6, <1>7, <1>8, <1>9, <1>10, <1>11 DEF IngestStep

LEMMA IngestKeeps ==
    ASSUME AssetsInv, NEW d \in Docs, IngestStep(d)
    PROVE  AssetsInv'
<1>1. AssetsTypeOK'
  BY IngestTyped DEF AssetsInv
<1>2. DocumentHolds(d)'
  <2>0. AssetsTypeOK /\ DocumentHolds(d)
    BY DEF AssetsInv
  <2> USE <2>0, LimitsAssumption DEF AssetsTypeOK, DocumentHolds, StatusFitsStep, StoresFitStep,
          RequestsFit, DocumentStands
  <2>1. CASE StartIngestion(d)
    BY <2>1 DEF StartIngestion
  <2>2. CASE Extract(d)
    BY <2>2 DEF Extract, Resolve
  <2>3. CASE PersistChunks(d)
    BY <2>3 DEF PersistChunks
  <2>4. CASE Describe(d)
    BY <2>4 DEF Describe
  <2>5. CASE ReadChunks(d)
    BY <2>5 DEF ReadChunks
  <2>6. CASE Embed(d)
    BY <2>6 DEF Embed
  <2>7. CASE FinishIngestion(d)
    BY <2>7 DEF FinishIngestion
  <2>8. CASE Purge(d)
    BY <2>8 DEF Purge
  <2>9. CASE Keep(d)
    BY <2>9 DEF Keep
  <2>10. CASE Settle(d)
    BY <2>10 DEF Settle
  <2>11. CASE Unlink(d)
    BY <2>11 DEF Unlink
  <2> QED
    BY <2>1, <2>2, <2>3, <2>4, <2>5, <2>6, <2>7, <2>8, <2>9, <2>10, <2>11 DEF IngestStep
<1>3. ASSUME NEW e \in Docs, e # d PROVE DocumentHolds(e)'
  <2>1. CASE StartIngestion(d)
    BY <1>3, <2>1, OtherDocuments DEF StartIngestion, AssetsInv, AssetsTypeOK
  <2>2. CASE Extract(d)
    BY <1>3, <2>2, OtherDocuments DEF Extract, Resolve, AssetsInv, AssetsTypeOK
  <2>3. CASE PersistChunks(d)
    BY <1>3, <2>3, OtherDocuments DEF PersistChunks, AssetsInv, AssetsTypeOK
  <2>4. CASE Describe(d)
    BY <1>3, <2>4, OtherDocuments DEF Describe, AssetsInv, AssetsTypeOK
  <2>5. CASE ReadChunks(d)
    BY <1>3, <2>5, OtherDocuments DEF ReadChunks, AssetsInv, AssetsTypeOK
  <2>6. CASE Embed(d)
    BY <1>3, <2>6, OtherDocuments DEF Embed, AssetsInv, AssetsTypeOK
  <2>7. CASE FinishIngestion(d)
    BY <1>3, <2>7, OtherDocuments DEF FinishIngestion, AssetsInv, AssetsTypeOK
  <2>8. CASE Purge(d)
    BY <1>3, <2>8, OtherDocuments DEF Purge, AssetsInv, AssetsTypeOK
  <2>9. CASE Keep(d)
    BY <1>3, <2>9, OtherDocuments DEF Keep, AssetsInv, AssetsTypeOK
  <2>10. CASE Settle(d)
    BY <1>3, <2>10, OtherDocuments DEF Settle, AssetsInv, AssetsTypeOK
  <2>11. CASE Unlink(d)
    BY <1>3, <2>11, OtherDocuments DEF Unlink, AssetsInv, AssetsTypeOK
  <2> QED
    BY <2>1, <2>2, <2>3, <2>4, <2>5, <2>6, <2>7, <2>8, <2>9, <2>10, <2>11 DEF IngestStep
<1> QED
  BY <1>1, <1>2, <1>3 DEF AssetsInv

LEMMA AdminTyped ==
    ASSUME AssetsTypeOK, NEW d \in Docs, AdminStep(d)
    PROVE  AssetsTypeOK'
<1> USE LimitsAssumption DEF AssetsTypeOK
<1>1. CASE Delete(d)
  BY <1>1 DEF Delete
<1>2. CASE DeleteVectors(d)
  <2>1. vectors' \in [Docs -> BOOLEAN]
    <3>1. \A some \in {FALSE, vectors[d]} : some \in BOOLEAN
      OBVIOUS
    <3>2. PICK some \in BOOLEAN : vectors' = [vectors EXCEPT ![d] = some]
      BY <1>2, <3>1, Zenon DEF DeleteVectors
    <3> QED
      BY <3>2
  <2> QED
    BY <1>2, <2>1 DEF DeleteVectors
<1>3. CASE DeleteFiles(d)
  <2>1. remote' \in [Docs -> BOOLEAN]
    BY <1>3 DEF DeleteFiles
  <2> QED
    BY <1>3, <2>1 DEF DeleteFiles
<1>4. CASE DeleteRow(d)
  <2>1. chunks' \in [Docs -> BOOLEAN]
    BY <1>4 DEF DeleteRow
  <2>2. status' \in [Docs -> {"none", "PENDING", "PROCESSING", "PROCESSED", "FAILED",
                             "CLEANUP_PENDING", "deleted"}]
    BY <1>4 DEF DeleteRow
  <2>3. remover' \in [Docs -> {"idle", "vectors", "files", "row"}]
    BY <1>4 DEF DeleteRow
  <2>4. faults' \in 0..MaxFaults
    BY <1>4 DEF DeleteRow
  <2> QED
    BY <1>4, <2>1, <2>2, <2>3, <2>4 DEF DeleteRow
<1>5. CASE Rebuild(d)
  BY <1>5 DEF Rebuild
<1>6. CASE RebuildUpsert(d)
  <2>1. vectors' \in [Docs -> BOOLEAN]
    <3>1. \A some \in {TRUE, vectors[d]} : some \in BOOLEAN
      OBVIOUS
    <3>2. PICK some \in BOOLEAN : vectors' = [vectors EXCEPT ![d] = some]
      BY <1>6, <3>1, Zenon DEF RebuildUpsert
    <3> QED
      BY <3>2
  <2> QED
    BY <1>6, <2>1 DEF RebuildUpsert
<1>7. CASE Cite(d)
  BY <1>7 DEF Cite
<1> QED
  BY <1>1, <1>2, <1>3, <1>4, <1>5, <1>6, <1>7 DEF AdminStep

LEMMA AdminKeeps ==
    ASSUME AssetsInv, NEW d \in Docs, AdminStep(d)
    PROVE  AssetsInv'
<1>1. AssetsTypeOK'
  BY AdminTyped DEF AssetsInv
<1>2. DocumentHolds(d)'
  <2>0. AssetsTypeOK /\ DocumentHolds(d)
    BY DEF AssetsInv
  <2> USE <2>0, LimitsAssumption DEF AssetsTypeOK, DocumentHolds, StatusFitsStep, StoresFitStep,
          RequestsFit, DocumentStands
  <2>1. CASE Delete(d)
    BY <2>1 DEF Delete
  <2>2. CASE DeleteVectors(d)
    BY <2>2 DEF DeleteVectors
  <2>3. CASE DeleteFiles(d)
    BY <2>3 DEF DeleteFiles
  <2>4. CASE DeleteRow(d)
    BY <2>4 DEF DeleteRow
  <2>5. CASE Rebuild(d)
    BY <2>5 DEF Rebuild
  <2>6. CASE RebuildUpsert(d)
    BY <2>6 DEF RebuildUpsert
  <2>7. CASE Cite(d)
    BY <2>7 DEF Cite
  <2> QED
    BY <2>1, <2>2, <2>3, <2>4, <2>5, <2>6, <2>7 DEF AdminStep
<1>3. ASSUME NEW e \in Docs, e # d PROVE DocumentHolds(e)'
  <2>1. CASE Delete(d)
    BY <1>3, <2>1, OtherDocuments DEF Delete, AssetsInv, AssetsTypeOK
  <2>2. CASE DeleteVectors(d)
    BY <1>3, <2>2, OtherDocuments DEF DeleteVectors, AssetsInv, AssetsTypeOK
  <2>3. CASE DeleteFiles(d)
    BY <1>3, <2>3, OtherDocuments DEF DeleteFiles, AssetsInv, AssetsTypeOK
  <2>4. CASE DeleteRow(d)
    BY <1>3, <2>4, OtherDocuments DEF DeleteRow, AssetsInv, AssetsTypeOK
  <2>5. CASE Rebuild(d)
    BY <1>3, <2>5, OtherDocuments DEF Rebuild, AssetsInv, AssetsTypeOK
  <2>6. CASE RebuildUpsert(d)
    BY <1>3, <2>6, OtherDocuments DEF RebuildUpsert, AssetsInv, AssetsTypeOK
  <2>7. CASE Cite(d)
    BY <1>3, <2>7, OtherDocuments DEF Cite, AssetsInv, AssetsTypeOK
  <2> QED
    BY <2>1, <2>2, <2>3, <2>4, <2>5, <2>6, <2>7 DEF AdminStep
<1> QED
  BY <1>1, <1>2, <1>3 DEF AssetsInv

-----------------------------------------------------------------------------
(* The process *)

LEMMA CrashKeeps == AssetsInv /\ Crash => AssetsInv'
<1> SUFFICES ASSUME AssetsInv, Crash PROVE AssetsInv'
  OBVIOUS
<1>1. AssetsTypeOK'
  <2> USE DEF AssetsInv, AssetsTypeOK, Crash
  <2>1. up' \in BOOLEAN
    OBVIOUS
  <2>3. crashes' \in 0..MaxCrashes
    BY LimitsAssumption
  <2>2. /\ ingest' \in [Docs -> Working \cup {"idle", "gone"}]
        /\ remover' \in [Docs -> {"idle", "vectors", "files", "row"}]
        /\ rebuilder' \in [Docs -> {"idle", "upsert"}]
    OBVIOUS
  <2> QED
    BY <2>1, <2>2, <2>3
<1>2. ASSUME NEW d \in Docs PROVE DocumentHolds(d)'
  <2>0. AssetsTypeOK /\ DocumentHolds(d)
    BY DEF AssetsInv
  <2> USE <2>0 DEF AssetsTypeOK, DocumentHolds, Crash
  <2>1. StatusFitsStep(d)'
    BY DEF StatusFitsStep
  <2>2. StoresFitStep(d)'
    BY DEF StoresFitStep
  <2>3. RequestsFit(d)' /\ DocumentStands(d)'
    BY DEF RequestsFit, DocumentStands
  <2> QED
    BY <2>1, <2>2, <2>3
<1> QED
  BY <1>1, <1>2 DEF AssetsInv

\* The recovery at a start finds nobody at work; it settles interrupted and failed uploads and
\* removes their files, but not those of a cleanup that could not be verified.
LEMMA StartKeeps ==
    ASSUME AssetsInv, ~up, up',
           faults' = faults \/ (faults < MaxFaults /\ faults' = faults + 1),
           status' \in [Docs -> {"none", "PENDING", "PROCESSING", "PROCESSED", "FAILED",
                                "CLEANUP_PENDING", "deleted"}],
           local' \in [Docs -> {"none", "whole", "damaged"}],
           \A d \in Docs : status'[d] # status[d] => Recoverable(d) /\ status'[d] = "FAILED",
           \A d \in Docs : local'[d] # local[d] => Recoverable(d),
           UNCHANGED <<path, unverified, chunks, cited, vectors, remote, ingest, adminVars,
                       boundVars>>
    PROVE  AssetsInv'
<1>1. AssetsTypeOK'
  BY LimitsAssumption DEF AssetsInv, AssetsTypeOK
<1>2. ASSUME NEW d \in Docs PROVE DocumentHolds(d)'
  <2>0. AssetsTypeOK /\ DocumentHolds(d) /\ ingest[d] \in {"idle", "gone"}
    BY DEF AssetsInv, DocumentHolds, RequestsFit
  <2> USE <2>0 DEF AssetsTypeOK, DocumentHolds, Recoverable
  <2>1. StatusFitsStep(d)'
    BY DEF StatusFitsStep
  <2>2. StoresFitStep(d)'
    BY DEF StoresFitStep
  <2>3. RequestsFit(d)'
    BY DEF RequestsFit
  <2>4. DocumentStands(d)'
    BY DEF DocumentStands, StoresFitStep
  <2> QED
    BY <2>1, <2>2, <2>3, <2>4
<1> QED
  BY <1>1, <1>2 DEF AssetsInv

LEMMA StartsKeep == AssetsInv /\ (Start \/ StartUnrecovered) => AssetsInv'
<1> SUFFICES ASSUME AssetsInv, Start \/ StartUnrecovered PROVE AssetsInv'
  OBVIOUS
<1>1. ASSUME NEW stuck
      PROVE  /\ Swept(stuck) \in [Docs -> {"none", "whole", "damaged"}]
             /\ \A d \in Docs : Swept(stuck)[d] # local[d] => Recoverable(d)
  BY DEF Swept, AssetsInv, AssetsTypeOK
<1>2. CASE Start
  <2>1. PICK stuck \in SUBSET {d \in Docs : Recoverable(d) /\ path[d] = "local"
                                              /\ local[d] # "none"} :
           /\ IF stuck = {} THEN NoFault ELSE Fault
           /\ status' = [d \in Docs |-> IF Recoverable(d) /\ d \notin stuck THEN "FAILED"
                                        ELSE status[d]]
           /\ local' = Swept(stuck)
    BY <1>2 DEF Start
  <2>2. /\ status' \in [Docs -> {"none", "PENDING", "PROCESSING", "PROCESSED", "FAILED",
                                "CLEANUP_PENDING", "deleted"}]
        /\ \A d \in Docs : status'[d] # status[d] => Recoverable(d) /\ status'[d] = "FAILED"
    BY <2>1 DEF AssetsInv, AssetsTypeOK
  <2>3. /\ ~up /\ up'
        /\ UNCHANGED <<path, unverified, chunks, cited, vectors, remote, ingest, adminVars,
                       boundVars>>
    BY <1>2 DEF Start
  <2>4. faults' = faults \/ (faults < MaxFaults /\ faults' = faults + 1)
    <3>1. CASE stuck = {}
      BY <2>1, <3>1
    <3>2. CASE stuck # {}
      BY <2>1, <3>2
    <3> QED
      BY <3>1, <3>2
  <2>5. /\ local' \in [Docs -> {"none", "whole", "damaged"}]
        /\ \A d \in Docs : local'[d] # local[d] => Recoverable(d)
    BY <1>1, <2>1
  <2> QED
    BY <2>2, <2>3, <2>4, <2>5, StartKeeps
<1>3. CASE StartUnrecovered
  <2>1. /\ ~up /\ up' /\ faults < MaxFaults /\ faults' = faults + 1
        /\ local' \in {local, Swept({})}
        /\ UNCHANGED <<sqlVars, vectors, remote, ingest, adminVars, boundVars>>
    BY <1>3 DEF StartUnrecovered
  <2>2. /\ local' \in [Docs -> {"none", "whole", "damaged"}]
        /\ \A d \in Docs : local'[d] # local[d] => Recoverable(d)
    BY <1>1, <2>1 DEF AssetsInv, AssetsTypeOK
  <2>3. status' \in [Docs -> {"none", "PENDING", "PROCESSING", "PROCESSED", "FAILED",
                             "CLEANUP_PENDING", "deleted"}]
    BY <2>1 DEF AssetsInv, AssetsTypeOK
  <2> QED
    BY <2>1, <2>2, <2>3, StartKeeps
<1> QED
  BY <1>2, <1>3

LEMMA AssetsStepKeeps == AssetsInv /\ [AssetsNext]_assetVars => AssetsInv'
<1>1. AssetsInv /\ UNCHANGED assetVars => AssetsInv'
  BY DEF assetVars, AssetsInv, AssetsTypeOK, DocumentHolds, StatusFitsStep, StoresFitStep,
         RequestsFit, DocumentStands
<1>2. AssetsInv /\ AssetsNext => AssetsInv'
  BY UploadKeeps, IngestKeeps, AdminKeeps, CrashKeeps, StartsKeep DEF AssetsNext
<1> QED
  BY <1>1, <1>2

\* The status of a document tells what the stores hold of it and a cited document stays, through
\* any number of documents, crashes, restarts, deletions and failing calls (background.py,
\* journaling.py, references.py).
THEOREM DocumentsAreTrue == AssetsSpec => []DocumentsStand
<1>1. AssetsInv => DocumentsStand
  BY DEF AssetsInv, DocumentHolds, DocumentStands, DocumentsStand, StatusIsTrue, FailedIsClean,
         UnverifiedIsRecoverable, ProcessedIsBacked, CitedSurvives
<1> QED
  BY InitAssets, AssetsStepKeeps, <1>1, PTL DEF AssetsSpec
=============================================================================
