--------------------------- MODULE AccountsProofs ---------------------------
(***************************************************************************)
(* Theorems about Accounts, for any number of requests, tenants, users and *)
(* invitations.                                                            *)
(***************************************************************************)
EXTENDS Accounts, TLAPS

-----------------------------------------------------------------------------
(* The inductive invariant.                                                *)

\* A request that is about to mail a password made the account, and the
\* password still signs in unless it was changed.
MailIsOwed ==
  \A s \in Requests : tx[s].pc = "mail" =>
    /\ users[tx[s].email] # None
    /\ users[tx[s].email].must_reset => users[tx[s].email].password = tx[s].password

\* A row that a request read is there until the request ends.
ReadsExist ==
  \A s \in Requests : tx[s].pc \in {"signed in", "reset", "edit"} => users[tx[s].email] # None

Inv ==
  /\ TypeOK /\ MailIsOwed /\ ReadsExist
  /\ EveryTenantHasAUser /\ MailedPasswordWorks /\ AccessFollowsReset

\* The state of a request is told by its pc alone.
LEMMA KindOfRequest ==
  ASSUME NEW t \in Request
  PROVE  /\ t.pc = "tenant" => t \in Naming
         /\ t.pc = "user" => t \in Inviting
         /\ t.pc = "mail" => t \in Mailing
         /\ t.pc = "conflict" => t \in Refused
         /\ t.pc = "signed in" => t \in SigningIn
         /\ t.pc = "reset" => t \in Resetting
         /\ t.pc = "edit" => t \in Editing
<1>1. \/ t.pc = "idle"
      \/ t.pc = "tenant" /\ t \in Naming
      \/ t.pc = "user" /\ t \in Inviting
      \/ t.pc = "mail" /\ t \in Mailing
      \/ t.pc = "conflict" /\ t \in Refused
      \/ t.pc = "signed in" /\ t \in SigningIn
      \/ t.pc = "reset" /\ t \in Resetting
      \/ t.pc = "edit" /\ t \in Editing
  <2>1. CASE t = Idle
    BY <2>1 DEF Idle
  <2>2. CASE t \in Naming
    BY <2>2 DEF Naming
  <2>3. CASE t \in Inviting
    BY <2>3 DEF Inviting
  <2>4. CASE t \in Mailing
    BY <2>4 DEF Mailing
  <2>5. CASE t \in Refused
    BY <2>5 DEF Refused
  <2>6. CASE t \in SigningIn
    BY <2>6 DEF SigningIn
  <2>7. CASE t \in Resetting
    BY <2>7 DEF Resetting
  <2>8. CASE t \in Editing
    BY <2>8 DEF Editing
  <2> QED BY <2>1, <2>2, <2>3, <2>4, <2>5, <2>6, <2>7, <2>8 DEF Request
<1> QED BY <1>1

LEMMA AddressTyped ==
  ASSUME Inv
  PROVE  \A r \in Requests : tx[r].pc \in {"mail", "signed in", "reset", "edit"}
                                => tx[r].email \in Emails
<1> SUFFICES ASSUME NEW r \in Requests, tx[r].pc \in {"mail", "signed in", "reset", "edit"}
             PROVE  tx[r].email \in Emails
  OBVIOUS
<1>1. tx[r] \in Request
  BY DEF Inv, TypeOK
<1>2. tx[r] \in Mailing \cup SigningIn \cup Resetting \cup Editing
  BY <1>1, KindOfRequest
<1> QED BY <1>2 DEF Mailing, SigningIn, Resetting, Editing

LEMMA InitInv == Init => Inv
<1> SUFFICES ASSUME Init PROVE Inv
  OBVIOUS
<1>1. \A s \in Requests : tx[s] = Idle
  BY DEF Init
<1>2. 0 \in 0 .. MaxInvites
  BY Bound
<1> QED
  BY <1>1, <1>2 DEF Init, Inv, TypeOK, Request, Idle, MailIsOwed, ReadsExist,
     EveryTenantHasAUser, MailedPasswordWorks, AccessFollowsReset

-----------------------------------------------------------------------------
(* Steps.                                                                  *)

\* A request goes on and no table changes.
LEMMA GotoInv ==
  ASSUME Inv, NEW s \in Requests, NEW t \in Request, Goto(s, t),
         UNCHANGED <<tenants, users, mailbox, tokens>>, drawn' \in 0 .. MaxInvites,
         t.pc \notin {"mail"},
         t.pc \in {"signed in", "reset", "edit"} => users[t.email] # None
  PROVE  Inv'
<1>1. \A r \in Requests : tx'[r] = IF r = s THEN t ELSE tx[r]
  BY DEF Goto, Inv, TypeOK
<1>2. TypeOK'
  BY DEF Inv, TypeOK, Goto
<1>3. MailIsOwed' /\ ReadsExist'
  BY <1>1 DEF Inv, MailIsOwed, ReadsExist
<1> QED
  BY <1>2, <1>3 DEF Inv, EveryTenantHasAUser, MailedPasswordWorks, AccessFollowsReset

LEMMA InviteInv ==
  ASSUME Inv, NEW s \in Requests, NEW slug \in Slugs, NEW e \in Emails, NEW founds \in BOOLEAN,
         Invite(s, slug, e, founds), UNCHANGED <<tenants, users, mailbox, tokens>>
  PROVE  Inv'
<1> DEFINE t == [pc |-> "user", slug |-> slug, email |-> e, founds |-> founds,
                 password |-> drawn + 1]
<1>1. drawn + 1 \in Drawn /\ drawn' \in 0 .. MaxInvites
  BY Bound DEF Invite, Inv, TypeOK, Drawn
<1>2. t \in Request /\ t.pc = "user"
  BY <1>1 DEF Request, Inviting
<1>3. Goto(s, t)
  BY DEF Invite
<1> HIDE DEF t
<1> QED BY <1>1, <1>2, <1>3, GotoInv

LEMMA ConflictInv ==
  ASSUME Inv, NEW s \in Requests, tx[s].slug \in Slugs, tx[s].email \in Emails,
         Conflict(s), UNCHANGED <<tenants, users, mailbox, tokens, drawn>>
  PROVE  Inv'
<1> DEFINE t == [pc |-> "conflict", slug |-> tx[s].slug, email |-> tx[s].email]
<1>1. t \in Request /\ t.pc = "conflict"
  BY DEF Request, Refused
<1>2. Goto(s, t) /\ drawn' \in 0 .. MaxInvites
  BY DEF Conflict, Inv, TypeOK
<1> HIDE DEF t
<1> QED BY <1>1, <1>2, GotoInv

LEMMA CommitUserInv ==
  ASSUME Inv, NEW s \in Requests, CommitUser(s)
  PROVE  Inv'
<1> DEFINE t == tx[s]
           e == t.email
           row == NewUser(t)
           mail == [pc |-> "mail", email |-> e, password |-> t.password]
<1>1. t \in Inviting
  BY KindOfRequest DEF CommitUser, Inv, TypeOK
<1>2. e \in Emails /\ t.slug \in Slugs /\ t.password \in Drawn /\ t.founds \in BOOLEAN
  BY <1>1 DEF Inviting
<1>3. CASE users[e] # None
  BY <1>2, <1>3, ConflictInv DEF CommitUser
<1>4. CASE users[e] = None
  <2>1. /\ users' = [users EXCEPT ![e] = row]
        /\ tenants' = IF t.founds THEN tenants \cup {t.slug} ELSE tenants
        /\ tx' = [tx EXCEPT ![s] = mail]
        /\ UNCHANGED <<mailbox, tokens, drawn>>
    BY <1>4 DEF CommitUser, Goto
  <2>2. row \in User /\ row.must_reset /\ row.password = t.password /\ row.tenant = t.slug
    BY <1>2 DEF NewUser, User, Passwords
  <2>3. mail \in Request /\ mail.pc = "mail" /\ mail.email = e /\ mail.password = t.password
    BY <1>2 DEF Request, Mailing
  <2>4. row # None
    BY <2>2, NamesAreDistinct
  <2> HIDE DEF row, mail, t, e
  <2>5. \A d \in Emails : users'[d] = IF d = e THEN row ELSE users[d]
    BY <2>1, <1>2 DEF Inv, TypeOK
  <2>6. \A r \in Requests : tx'[r] = IF r = s THEN mail ELSE tx[r]
    BY <2>1 DEF Inv, TypeOK
  <2>7. TypeOK'
    <3>1. tenants' \subseteq Slugs
      BY <2>1, <1>2 DEF Inv, TypeOK
    <3>2. users' \in [Emails -> User \cup {None}]
      BY <2>1, <2>2, <1>2 DEF Inv, TypeOK
    <3>3. tx' \in [Requests -> Request]
      BY <2>1, <2>3 DEF Inv, TypeOK
    <3> QED BY <3>1, <3>2, <3>3, <2>1 DEF Inv, TypeOK
  <2>8. \A r \in Requests : tx[r].pc \in {"mail", "signed in", "reset", "edit"}
                              => tx[r].email \in Emails /\ users[tx[r].email] # None
    <3>1. \A r \in Requests : tx[r].pc \in {"mail", "signed in", "reset", "edit"}
                                => tx[r].email \in Emails
      BY AddressTyped
    <3> QED BY <3>1 DEF Inv, MailIsOwed, ReadsExist
  <2>9. MailIsOwed'
    <3> SUFFICES ASSUME NEW r \in Requests, tx'[r].pc = "mail"
                 PROVE  /\ users'[tx'[r].email] # None
                        /\ users'[tx'[r].email].must_reset
                             => users'[tx'[r].email].password = tx'[r].password
      BY DEF MailIsOwed
    <3>1. CASE r = s
      <4>1. tx'[r] = mail
        BY <3>1, <2>6
      <4>2. users'[e] = row
        BY <2>5, <1>2
      <4> QED BY <4>1, <4>2, <2>2, <2>3, <2>4
    <3>2. CASE r # s
      <4>1. tx'[r] = tx[r] /\ tx[r].pc = "mail"
        BY <3>2, <2>6
      <4>2. tx[r].email \in Emails /\ users[tx[r].email] # None
        BY <4>1, <2>8
      <4>3. users'[tx[r].email] = users[tx[r].email]
        BY <4>2, <2>5, <1>4
      <4> QED BY <4>1, <4>2, <4>3 DEF Inv, MailIsOwed
    <3> QED BY <3>1, <3>2
  <2>10. ReadsExist'
    <3> SUFFICES ASSUME NEW r \in Requests, tx'[r].pc \in {"signed in", "reset", "edit"}
                 PROVE  users'[tx'[r].email] # None
      BY DEF ReadsExist
    <3>1. tx'[r] = tx[r]
      BY <2>3, <2>6
    <3>2. tx[r].email \in Emails /\ users[tx[r].email] # None
      BY <3>1, <2>8
    <3> QED BY <3>1, <3>2, <2>5, <1>4
  <2>11. EveryTenantHasAUser'
    BY <2>1, <2>2, <2>4, <2>5, <1>2, <1>4 DEF Inv, EveryTenantHasAUser
  <2>12. MailedPasswordWorks'
    BY <2>1, <2>5, <1>4 DEF Inv, MailedPasswordWorks
  <2>13. AccessFollowsReset'
    BY <2>1, <2>5, <1>4 DEF Inv, AccessFollowsReset
  <2> QED BY <2>7, <2>9, <2>10, <2>11, <2>12, <2>13 DEF Inv
<1> QED BY <1>3, <1>4

LEMMA MailInv ==
  ASSUME Inv, NEW s \in Requests, Mail(s)
  PROVE  Inv'
<1> DEFINE e == tx[s].email
           p == tx[s].password
<1>1. /\ tx[s].pc = "mail" /\ tx' = [tx EXCEPT ![s] = Idle]
      /\ mailbox' = [mailbox EXCEPT ![e] = mailbox[e] \cup {p}]
      /\ UNCHANGED <<tenants, users, tokens, drawn>>
  BY DEF Mail, MailIsDue, Goto
<1>0. tx[s] \in Mailing
  BY <1>1, KindOfRequest DEF Inv, TypeOK
<1>2. e \in Emails /\ p \in Drawn
  BY <1>0 DEF Mailing
<1>3. users[e] # None /\ (users[e].must_reset => users[e].password = p)
  BY <1>1 DEF Inv, MailIsOwed
<1>4. Idle \in Request /\ Idle.pc = "idle"
  BY DEF Request, Idle
<1> HIDE DEF e, p
<1>5. \A d \in Emails : mailbox'[d] = IF d = e THEN mailbox[d] \cup {p} ELSE mailbox[d]
  BY <1>1, <1>2 DEF Inv, TypeOK
<1>6. \A r \in Requests : tx'[r] = IF r = s THEN Idle ELSE tx[r]
  BY <1>1 DEF Inv, TypeOK
<1>7. TypeOK'
  BY <1>1, <1>2, <1>4 DEF Inv, TypeOK
<1>8. MailIsOwed' /\ ReadsExist'
  <2>1. \A r \in Requests : tx'[r].pc # "idle" => tx'[r] = tx[r]
    BY <1>4, <1>6
  <2> QED BY <1>1, <2>1 DEF Inv, MailIsOwed, ReadsExist
<1>9. MailedPasswordWorks'
  BY <1>1, <1>3, <1>5 DEF Inv, MailedPasswordWorks
<1>10. EveryTenantHasAUser' /\ AccessFollowsReset'
  BY <1>1 DEF Inv, EveryTenantHasAUser, AccessFollowsReset
<1> QED BY <1>7, <1>8, <1>9, <1>10 DEF Inv

\* A row is replaced by one of the same tenant whose first-time password has
\* not come back; the request ends, perhaps with a token that fits the row.
LEMMA RowInv ==
  ASSUME Inv, NEW s \in Requests, NEW e \in Emails, NEW row \in User, users[e] # None,
         row.tenant = users[e].tenant,
         row.must_reset => users[e].must_reset /\ row.password = users[e].password,
         users' = [users EXCEPT ![e] = row], tx' = [tx EXCEPT ![s] = Idle],
         NEW kinds \in SUBSET {"reset", "access"},
         "access" \in kinds => ~row.must_reset,
         tokens' = [tokens EXCEPT ![e] = tokens[e] \cup kinds],
         UNCHANGED <<tenants, mailbox, drawn>>
  PROVE  Inv'
<1>1. row # None
  BY NamesAreDistinct
<1>2. Idle \in Request /\ Idle.pc = "idle"
  BY DEF Request, Idle
<1>3. \A d \in Emails : users'[d] = IF d = e THEN row ELSE users[d]
  BY DEF Inv, TypeOK
<1>4. \A r \in Requests : tx'[r] = IF r = s THEN Idle ELSE tx[r]
  BY DEF Inv, TypeOK
<1>5. \A d \in Emails : tokens'[d] = IF d = e THEN tokens[d] \cup kinds ELSE tokens[d]
  BY DEF Inv, TypeOK
<1>6. TypeOK'
  BY <1>2 DEF Inv, TypeOK
<1>7. \A r \in Requests : tx[r].pc \in {"mail", "signed in", "reset", "edit"}
                            => tx[r].email \in Emails
  BY AddressTyped
<1>8. MailIsOwed'
  <2> SUFFICES ASSUME NEW r \in Requests, tx'[r].pc = "mail"
               PROVE  /\ users'[tx'[r].email] # None
                      /\ users'[tx'[r].email].must_reset
                           => users'[tx'[r].email].password = tx'[r].password
    BY DEF MailIsOwed
  <2>1. tx'[r] = tx[r] /\ tx[r].pc = "mail"
    BY <1>2, <1>4
  <2>2. tx[r].email \in Emails
    BY <2>1, <1>7
  <2> QED BY <2>1, <2>2, <1>1, <1>3 DEF Inv, MailIsOwed
<1>9. ReadsExist'
  <2> SUFFICES ASSUME NEW r \in Requests, tx'[r].pc \in {"signed in", "reset", "edit"}
               PROVE  users'[tx'[r].email] # None
    BY DEF ReadsExist
  <2>1. tx'[r] = tx[r]
    BY <1>2, <1>4
  <2>2. tx[r].email \in Emails /\ users[tx[r].email] # None
    BY <2>1, <1>7 DEF Inv, ReadsExist
  <2> QED BY <2>1, <2>2, <1>1, <1>3
<1>10. EveryTenantHasAUser'
  BY <1>1, <1>3 DEF Inv, EveryTenantHasAUser
<1>11. MailedPasswordWorks'
  BY <1>1, <1>3 DEF Inv, MailedPasswordWorks
<1>12. AccessFollowsReset'
  BY <1>1, <1>3, <1>5 DEF Inv, AccessFollowsReset
<1> QED BY <1>6, <1>8, <1>9, <1>10, <1>11, <1>12 DEF Inv

LEMMA AnswerLoginInv ==
  ASSUME Inv, NEW s \in Requests, AnswerLogin(s)
  PROVE  Inv'
<1> DEFINE e == tx[s].email
           kind == TokenFor(users[e])
<1>0. tx[s] \in SigningIn
  BY KindOfRequest DEF Inv, TypeOK, AnswerLogin
<1>1. e \in Emails /\ users[e] # None
  BY <1>0 DEF Inv, ReadsExist, AnswerLogin, SigningIn
<1>2. users[e] \in User /\ users' = [users EXCEPT ![e] = users[e]]
  BY <1>1 DEF Inv, TypeOK, AnswerLogin
<1>3. {kind} \in SUBSET {"reset", "access"} /\ ("access" \in {kind} => ~users[e].must_reset)
  BY <1>2 DEF TokenFor, User
<1>4. tokens' = [tokens EXCEPT ![e] = tokens[e] \cup {kind}] /\ tx' = [tx EXCEPT ![s] = Idle]
  BY DEF AnswerLogin, Answer, Goto
<1>5. UNCHANGED <<tenants, mailbox, drawn>>
  BY DEF AnswerLogin
<1> HIDE DEF e, kind
<1> QED BY <1>1, <1>2, <1>3, <1>4, <1>5, RowInv

LEMMA ResetPasswordInv ==
  ASSUME Inv, NEW s \in Requests, ResetPassword(s)
  PROVE  Inv'
<1> DEFINE e == tx[s].email
           row == ResetRow(users[e], tx[s].password)
<1>0. tx[s] \in Resetting
  BY KindOfRequest DEF Inv, TypeOK, ResetPassword
<1>1. e \in Emails /\ users[e] # None /\ tx[s].password \in Passwords
  BY <1>0 DEF Inv, ReadsExist, ResetPassword, Resetting
<1>2. users[e] \in User
  BY <1>1 DEF Inv, TypeOK
<1>3. row \in User /\ row.tenant = users[e].tenant /\ ~row.must_reset
  BY <1>1, <1>2 DEF ResetRow, User
<1>4. /\ users' = [users EXCEPT ![e] = row] /\ tx' = [tx EXCEPT ![s] = Idle]
      /\ tokens' = [tokens EXCEPT ![e] = tokens[e] \cup {"access"}]
      /\ UNCHANGED <<tenants, mailbox, drawn>>
  BY DEF ResetPassword, Answer, Goto
<1> HIDE DEF e, row
<1> QED BY <1>1, <1>3, <1>4, RowInv

LEMMA WriteUserInv ==
  ASSUME Inv, NEW s \in Requests, WriteUser(s)
  PROVE  Inv'
<1> DEFINE e == tx[s].email
           row == Edited(users[e], tx[s])
<1>1. tx[s] \in Editing
  BY KindOfRequest DEF Inv, TypeOK, WriteUser
<1>2. e \in Emails /\ users[e] # None /\ tx[s].active \in BOOLEAN \cup {None}
  BY <1>1 DEF Inv, ReadsExist, WriteUser, Editing
<1>3. users[e] \in User
  BY <1>2 DEF Inv, TypeOK
<1>4. /\ row \in User /\ row.tenant = users[e].tenant
      /\ row.must_reset = users[e].must_reset /\ row.password = users[e].password
  BY <1>2, <1>3 DEF Edited, User
<1>5. tokens' = [tokens EXCEPT ![e] = tokens[e] \cup {}] /\ {} \in SUBSET {"reset", "access"}
  BY <1>2 DEF WriteUser, Inv, TypeOK
<1>6. /\ users' = [users EXCEPT ![e] = row] /\ tx' = [tx EXCEPT ![s] = Idle]
      /\ UNCHANGED <<tenants, mailbox, drawn>>
  BY DEF WriteUser, Goto
<1> HIDE DEF e, row
<1> QED BY <1>2, <1>4, <1>5, <1>6, RowInv

LEMMA OnboardInv ==
  ASSUME Inv, NEW s \in Requests, Onboard(s)
  PROVE  Inv'
<1>1. ASSUME NEW slug \in Slugs, NEW e \in Emails, RequestTenant(s, slug, e)
      PROVE  Inv'
  <2> DEFINE t == [pc |-> "tenant", slug |-> slug, email |-> e]
  <2>1. t \in Request /\ t.pc = "tenant"
    BY DEF Request, Naming
  <2>2. Goto(s, t) /\ UNCHANGED <<tenants, users, mailbox, tokens>> /\ drawn' \in 0 .. MaxInvites
    BY <1>1 DEF RequestTenant, Inv, TypeOK
  <2> HIDE DEF t
  <2> QED BY <2>1, <2>2, GotoInv
<1>2. ASSUME NEW slug \in Slugs, NEW e \in Emails, RequestUser(s, slug, e)
      PROVE  Inv'
  BY <1>2, InviteInv DEF RequestUser
<1>3. CASE InsertTenant(s)
  <2>1. tx[s] \in Naming
    BY <1>3, KindOfRequest DEF InsertTenant, Inv, TypeOK
  <2>2. tx[s].slug \in Slugs /\ tx[s].email \in Emails
    BY <2>1 DEF Naming
  <2> QED BY <1>3, <2>2, ConflictInv, InviteInv DEF InsertTenant, Flushed
<1> QED BY <1>1, <1>2, <1>3, CommitUserInv, MailInv DEF Onboard

LEMMA SignInInv ==
  ASSUME Inv, NEW s \in Requests, SignIn(s)
  PROVE  Inv'
<1>1. ASSUME NEW e \in Emails, Authenticate(s, e)
      PROVE  Inv'
  <2> DEFINE t == [pc |-> "signed in", email |-> e]
  <2>1. t \in Request /\ t.pc = "signed in" /\ t.email = e
    BY DEF Request, SigningIn
  <2>2. /\ Goto(s, t) /\ users[e] # None
        /\ UNCHANGED <<tenants, users, mailbox, tokens>> /\ drawn' \in 0 .. MaxInvites
    BY <1>1 DEF Authenticate, Inv, TypeOK
  <2> HIDE DEF t
  <2> QED BY <2>1, <2>2, GotoInv
<1>2. ASSUME NEW e \in Emails, NEW password \in mailbox[e] \cup {Own},
             ReadForReset(s, e, password)
      PROVE  Inv'
  <2> DEFINE t == [pc |-> "reset", email |-> e, password |-> password]
  <2>1. t \in Request /\ t.pc = "reset" /\ t.email = e
    BY DEF Request, Resetting, Passwords, Inv, TypeOK
  <2>2. /\ Goto(s, t) /\ users[e] # None
        /\ UNCHANGED <<tenants, users, mailbox, tokens>> /\ drawn' \in 0 .. MaxInvites
    BY <1>2 DEF ReadForReset, Inv, TypeOK
  <2> HIDE DEF t
  <2> QED BY <2>1, <2>2, GotoInv
<1> QED BY <1>1, <1>2, AnswerLoginInv, ResetPasswordInv DEF SignIn

LEMMA EditInv ==
  ASSUME Inv, NEW s \in Requests, Edit(s)
  PROVE  Inv'
<1>1. ASSUME NEW e \in Emails, NEW active \in BOOLEAN \cup {None}, ReadUser(s, e, active)
      PROVE  Inv'
  <2> DEFINE t == [pc |-> "edit", email |-> e, read |-> users[e], active |-> active]
  <2>1. users[e] \in User
    BY <1>1 DEF ReadUser, Inv, TypeOK
  <2>2. t \in Request /\ t.pc = "edit" /\ t.email = e
    BY <2>1 DEF Request, Editing
  <2>3. /\ Goto(s, t) /\ users[e] # None
        /\ UNCHANGED <<tenants, users, mailbox, tokens>> /\ drawn' \in 0 .. MaxInvites
    BY <1>1 DEF ReadUser, Inv, TypeOK
  <2> HIDE DEF t
  <2> QED BY <2>2, <2>3, GotoInv
<1> QED BY <1>1, WriteUserInv DEF Edit

LEMMA NextInv == Inv /\ [Next]_vars => Inv'
<1> SUFFICES ASSUME Inv, [Next]_vars PROVE Inv'
  OBVIOUS
<1>1. CASE UNCHANGED vars
  BY <1>1 DEF vars, Inv, TypeOK, MailIsOwed, ReadsExist, EveryTenantHasAUser,
              MailedPasswordWorks, AccessFollowsReset
<1>2. ASSUME NEW s \in Requests, Close(s)
      PROVE  Inv'
  <2>1. Idle \in Request /\ Idle.pc = "idle" /\ drawn' \in 0 .. MaxInvites
    BY <1>2 DEF Request, Idle, Close, Inv, TypeOK
  <2> QED BY <1>2, <2>1, GotoInv DEF Close
<1> QED BY <1>1, <1>2, OnboardInv, SignInInv, EditInv DEF Next

LEMMA InvAlways == Spec => []Inv
BY InitInv, NextInv, PTL DEF Spec

-----------------------------------------------------------------------------
(* Theorems.                                                               *)

\* Every variable of the account model keeps its type (app/user, app/tenant).
THEOREM AccountsTypeCorrect == Spec => []TypeOK
BY InvAlways, PTL DEF Inv

\* Tenant and first user are one transaction (onboard_tenant): no collision,
\* no failed mail and no lost worker leaves a tenant that nobody can enter.
THEOREM NoTenantIsEmpty == Spec => []EveryTenantHasAUser
BY InvAlways, PTL DEF Inv

\* Mail is sent after the commit (onboard_user), so every mailed password
\* belongs to an account and signs in until it is changed.
THEOREM MailIsTruthful == Spec => []MailedPasswordWorks
BY InvAlways, PTL DEF Inv

\* No access token comes before the first-time password is changed, and
\* nothing restores it afterwards (login, reset_password, update_user).
THEOREM ResetComesFirst == Spec => []AccessFollowsReset
BY InvAlways, PTL DEF Inv
=============================================================================
