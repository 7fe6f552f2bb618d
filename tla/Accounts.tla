------------------------------ MODULE Accounts ------------------------------
(***************************************************************************)
(* Invitations and first sign-in: onboard_tenant of tenant/services.py,    *)
(* onboard_user, authenticate_user, reset_password and update_user of      *)
(* user/services.py, with the login and reset routes.                      *)
(*                                                                         *)
(* Every request owns a database session.  onboard_tenant flushes its      *)
(* tenant and hands the open transaction to onboard_user, which commits    *)
(* tenant and user together and only then mails the password that it drew. *)
(* The other handlers read a row, commit the columns they changed and read *)
(* the row again for their answer.                                         *)
(*                                                                         *)
(* Names, roles, branding and the tenant's thresholds are left out, and so *)
(* are lost answers and the expiry of tokens: a token may stay unused.     *)
(***************************************************************************)
EXTENDS Naturals

CONSTANTS
  Requests,
  Slugs,          \* a tenant is identified by its slug
  Emails,         \* a user is identified by the e-mail address
  Own,            \* any password that a user chose
  None,
  MaxInvites      \* bound: invitations, and so passwords that are drawn

ASSUME Bound == MaxInvites \in Nat

VARIABLES
  tenants,        \* slugs of the committed tenants
  users,          \* users[e]: committed row of the user with address e, or None
  mailbox,        \* mailbox[e]: passwords mailed to e
  tokens,         \* tokens[e]: kinds of token that e's user was answered with
  drawn,          \* passwords drawn so far
  tx              \* tx[s]: what request s does next

vars == <<tenants, users, mailbox, tokens, drawn, tx>>

\* Each call of generate_temp_password draws a password of its own.
Drawn == 1 .. MaxInvites
Passwords == Drawn \cup {Own}
User == [tenant : Slugs, password : Passwords, must_reset : BOOLEAN, active : BOOLEAN]

ASSUME NamesAreDistinct == None \notin User \cup BOOLEAN /\ Own \notin Nat

Idle == [pc |-> "idle"]
Naming == [pc : {"tenant"}, slug : Slugs, email : Emails]
Inviting == [pc : {"user"}, slug : Slugs, email : Emails, founds : BOOLEAN, password : Drawn]
Mailing == [pc : {"mail"}, email : Emails, password : Drawn]
Refused == [pc : {"conflict"}, slug : Slugs, email : Emails]
SigningIn == [pc : {"signed in"}, email : Emails]
Resetting == [pc : {"reset"}, email : Emails, password : Passwords]
Editing == [pc : {"edit"}, email : Emails, read : User, active : BOOLEAN \cup {None}]
Request == {Idle} \cup Naming \cup Inviting \cup Mailing \cup Refused
             \cup SigningIn \cup Resetting \cup Editing

Init ==
  /\ tenants = {} /\ drawn = 0
  /\ users = [e \in Emails |-> None]
  /\ mailbox = [e \in Emails |-> {}]
  /\ tokens = [e \in Emails |-> {}]
  /\ tx = [s \in Requests |-> Idle]

Goto(s, t) == tx' = [tx EXCEPT ![s] = t]

-----------------------------------------------------------------------------
(* Who may call.  A token is decoded and its claims are believed: nothing  *)
(* looks whether the user is still active.  The platform administrator,    *)
(* who founds tenants, has no tenant and is none of these users.           *)

\* get_current_user refuses a reset token: its type claim is not an access
\* token's.
MayCall(e) == "access" \in tokens[e]

\* get_current_tenant_id: somebody of the tenant can make a request for it.
Speaks(slug) == \E e \in Emails : users[e] # None /\ users[e].tenant = slug /\ MayCall(e)

\* decode_reset_token, which in turn refuses an access token.
MayReset(e) == "reset" \in tokens[e]

-----------------------------------------------------------------------------
(* Invitations.                                                            *)

\* POST /tenants.
RequestTenant(s, slug, e) ==
  /\ tx[s] = Idle
  /\ Goto(s, [pc |-> "tenant", slug |-> slug, email |-> e])
  /\ UNCHANGED <<tenants, users, mailbox, tokens, drawn>>

\* An insert waits for a transaction that inserted the same slug.
SlugIsHeld(slug) == \E t \in Requests : tx[t].pc = "user" /\ tx[t].founds /\ tx[t].slug = slug

\* onboard_user draws a password and adds the user.
Invite(s, slug, e, founds) ==
  /\ drawn < MaxInvites
  /\ drawn' = drawn + 1
  /\ Goto(s, [pc |-> "user", slug |-> slug, email |-> e, founds |-> founds, password |-> drawn + 1])

\* IntegrityError: 500, and the transaction is rolled back.
Conflict(s) == Goto(s, [pc |-> "conflict", slug |-> tx[s].slug, email |-> tx[s].email])

\* Mutant: the tenant is committed where it should be flushed.
CommitsTenant(s) == tenants \cup {tx[s].slug}

\* Flushing the tenant commits nothing.
Flushed(s) == tenants

InsertTenant(s) ==
  /\ tx[s].pc = "tenant" /\ ~SlugIsHeld(tx[s].slug)
  /\ IF tx[s].slug \in tenants
     THEN Conflict(s) /\ UNCHANGED <<tenants, drawn>>
     ELSE Invite(s, tx[s].slug, tx[s].email, TRUE) /\ tenants' = Flushed(s)
  /\ UNCHANGED <<users, mailbox, tokens>>

\* POST /users, by an administrator of the tenant.
RequestUser(s, slug, e) ==
  /\ tx[s] = Idle /\ Speaks(slug)
  /\ Invite(s, slug, e, FALSE)
  /\ UNCHANGED <<tenants, users, mailbox, tokens>>

NewUser(t) == [tenant |-> t.slug, password |-> t.password, must_reset |-> TRUE, active |-> TRUE]

\* db.commit() inserts the user, together with the tenant that waits for it.
CommitUser(s) ==
  LET t == tx[s] IN
  /\ t.pc = "user"
  /\ IF users[t.email] # None
     THEN Conflict(s) /\ UNCHANGED <<tenants, users>>
     ELSE /\ users' = [users EXCEPT ![t.email] = NewUser(t)]
          /\ tenants' = IF t.founds THEN tenants \cup {t.slug} ELSE tenants
          /\ Goto(s, [pc |-> "mail", email |-> t.email, password |-> t.password])
  /\ UNCHANGED <<mailbox, tokens, drawn>>

\* Mutant: the mail leaves while the transaction is still open.
BeforeCommit(s) == tx[s].pc = "user"

MailIsDue(s) == tx[s].pc = "mail"

\* send_email; when it fails the route answers 503 and Close ends the request.
Mail(s) ==
  /\ MailIsDue(s)
  /\ mailbox' = [mailbox EXCEPT ![tx[s].email] = mailbox[tx[s].email] \cup {tx[s].password}]
  /\ Goto(s, Idle)
  /\ UNCHANGED <<tenants, users, tokens, drawn>>

-----------------------------------------------------------------------------
(* Sign-in and the first-time password.                                    *)

\* The address and password are right and the user is active; the
\* password may be one that the row no longer holds when the answer is made.
Authenticate(s, e) ==
  /\ tx[s] = Idle /\ users[e] # None /\ users[e].active
  /\ Goto(s, [pc |-> "signed in", email |-> e])
  /\ UNCHANGED <<tenants, users, mailbox, tokens, drawn>>

Answer(s, e, kind) ==
  /\ tokens' = [tokens EXCEPT ![e] = tokens[e] \cup {kind}]
  /\ Goto(s, Idle)

\* The kind of token that the refreshed row is answered with.
TokenFor(row) == IF row.must_reset THEN "reset" ELSE "access"

AnswerLogin(s) ==
  /\ tx[s].pc = "signed in"
  /\ Answer(s, tx[s].email, TokenFor(users[tx[s].email]))
  /\ UNCHANGED <<tenants, users, mailbox, drawn>>

\* Whoever holds a reset token chooses a password, perhaps the mailed one.
ReadForReset(s, e, password) ==
  /\ tx[s] = Idle /\ users[e] # None /\ users[e].active
  /\ MayReset(e)
  /\ Goto(s, [pc |-> "reset", email |-> e, password |-> password])
  /\ UNCHANGED <<tenants, users, mailbox, tokens, drawn>>

ResetRow(row, password) == [row EXCEPT !.password = password, !.must_reset = FALSE]

ResetPassword(s) ==
  LET e == tx[s].email IN
  /\ tx[s].pc = "reset"
  /\ users' = [users EXCEPT ![e] = ResetRow(users[e], tx[s].password)]
  /\ Answer(s, e, "access")
  /\ UNCHANGED <<tenants, mailbox, drawn>>

-----------------------------------------------------------------------------
(* PATCH /users/{user_id}, by an administrator of the tenant.              *)

ReadUser(s, e, active) ==
  /\ tx[s] = Idle /\ users[e] # None /\ Speaks(users[e].tenant)
  /\ Goto(s, [pc |-> "edit", email |-> e, read |-> users[e], active |-> active])
  /\ UNCHANGED <<tenants, users, mailbox, tokens, drawn>>

\* Mutant: every column that was read is written back.
WholeRow(row, t) == [t.read EXCEPT !.active = IF t.active = None THEN t.read.active ELSE t.active]

\* Only a column that was sent and differs from what was read is written.
Edited(row, t) ==
  [row EXCEPT !.active = IF t.active \in {None, t.read.active} THEN row.active ELSE t.active]

WriteUser(s) ==
  /\ tx[s].pc = "edit"
  /\ users' = [users EXCEPT ![tx[s].email] = Edited(users[tx[s].email], tx[s])]
  /\ Goto(s, Idle)
  /\ UNCHANGED <<tenants, mailbox, tokens, drawn>>

-----------------------------------------------------------------------------

\* The session closes: an error was answered, the mail could not be sent, or
\* the worker died.  What was not committed is rolled back.
Close(s) ==
  /\ tx[s] # Idle
  /\ Goto(s, Idle)
  /\ UNCHANGED <<tenants, users, mailbox, tokens, drawn>>

Onboard(s) ==
  \/ \E slug \in Slugs, e \in Emails : RequestTenant(s, slug, e) \/ RequestUser(s, slug, e)
  \/ InsertTenant(s) \/ CommitUser(s) \/ Mail(s)

SignIn(s) ==
  \/ \E e \in Emails :
       \/ Authenticate(s, e)
       \/ \E password \in mailbox[e] \cup {Own} : ReadForReset(s, e, password)
  \/ AnswerLogin(s) \/ ResetPassword(s)

Edit(s) ==
  \/ \E e \in Emails, active \in BOOLEAN \cup {None} : ReadUser(s, e, active)
  \/ WriteUser(s)

Next == \E s \in Requests : Onboard(s) \/ SignIn(s) \/ Edit(s) \/ Close(s)

Spec == Init /\ [][Next]_vars

-----------------------------------------------------------------------------
(* Properties.                                                             *)

TypeOK ==
  /\ tenants \subseteq Slugs
  /\ users \in [Emails -> User \cup {None}]
  /\ mailbox \in [Emails -> SUBSET Drawn]
  /\ tokens \in [Emails -> SUBSET {"reset", "access"}]
  /\ drawn \in 0 .. MaxInvites
  /\ tx \in [Requests -> Request]

\* onboard_tenant: a tenant is never committed without a user who can
\* administer it, whichever inserts collide and wherever the request dies.
EveryTenantHasAUser ==
  \A slug \in tenants : \E e \in Emails : users[e] # None /\ users[e].tenant = slug

\* onboard_user: of several invitations of one address only the one that made
\* the account is mailed, and its password signs in until it is changed.
MailedPasswordWorks ==
  \A e \in Emails : \A p \in mailbox[e] :
    /\ users[e] # None
    /\ users[e].must_reset => users[e].password = p

\* README.md, onboarding flow: a user "must call reset-password to set a real
\* password before any access token is issued"; no concurrent login, reset or
\* edit brings the first-time password back once there is an access token.
AccessFollowsReset ==
  \A e \in Emails : "access" \in tokens[e] => users[e] # None /\ ~users[e].must_reset

\* onboard_user: "so the operator can retry the invite".  An invitation of a
\* user of the tenant whose mail was not sent is not turned down.
InviteCanBeRetried ==
  \A s \in Requests :
    LET e == tx[s].email IN
    tx[s].pc = "conflict" /\ users[e] # None /\ users[e].tenant = tx[s].slug =>
      \/ mailbox[e] # {}
      \/ \E t \in Requests : tx[t].pc = "mail" /\ tx[t].email = e
=============================================================================
