------------------------------ MODULE Accounts ------------------------------
(***************************************************************************)
(* Accounts after setup: login with one or two factors, the pairing of an  *)
(* authenticator, the users an admin manages, and the session cookies.     *)
(*                                                                         *)
(* The routes of one Node process share the tables users and               *)
(* totp_temp_tokens.  A route runs alone between two awaits that leave the *)
(* process: argon2, the cookie (WebCrypto) and the body of a request.      *)
(* verifyTotpCode computes on the spot, so what follows it belongs to the  *)
(* same step.  A route whose database work lies in one such step is one    *)
(* action.  A cookie is sealed data: the server keeps no list of sessions. *)
(* Rate limits are in RateLimit, setup itself in Setup.                    *)
(***************************************************************************)
EXTENDS Naturals

CONSTANTS
  Users,     \* ids of users (AUTOINCREMENT: never used again)
  First,     \* the admin that setup created
  Secrets,   \* TOTP secrets
  Tokens,    \* temp tokens
  Requests,  \* requests in the middle of a handler
  NULL

ASSUME AccountsAssumption ==
  /\ First \in Users
  /\ NULL \notin Secrets \cup Tokens

VARIABLES
  users,   \* the table users
  tokens,  \* the table totp_temp_tokens
  cookies, \* the session cookies in browsers
  req,     \* what a request in flight has read
  shown,   \* shown[u]: the secrets that the authenticator of u was given
  bought,  \* history: bought[k]: the sessions that token k was exchanged for
  older    \* history: logins that were under way when their user enabled the second factor

vars == <<users, tokens, cookies, req, shown, bought, older>>

Roles  == {"admin", "viewer"}
User   == [status : {"none", "live", "gone"}, role : Roles,
           secret : Secrets \cup {NULL}, enabled : BOOLEAN]
Token  == [status : {"none", "live", "expired", "gone"}, user : Users, role : Roles]
Cookie == [user : Users, role : Roles]
Idle   == [kind |-> "idle"]

\* A row without a second factor.
Row(status, role) == [status |-> status, role |-> role, secret |-> NULL, enabled |-> FALSE]
Live(u) == users[u].status = "live"

Init ==
  /\ users = [u \in Users |-> Row(IF u = First THEN "live" ELSE "none", "admin")]
  /\ tokens = [k \in Tokens |-> [status |-> "none", user |-> First, role |-> "admin"]]
  /\ cookies = {[user |-> First, role |-> "admin"]}
  /\ req = [q \in Requests |-> Idle]
  /\ shown = [u \in Users |-> {}]
  /\ bought = [k \in Tokens |-> 0]
  /\ older = {}

Become(q, r) == req' = [req EXCEPT ![q] = r] /\ older' = older \ {q}
Free(q)      == req[q].kind = "idle"

-----------------------------------------------------------------------------
(* Login.                                                                  *)

\* Every POST /api/auth/login first deletes the tokens whose time is over.
Swept == [k \in Tokens |-> IF tokens[k].status = "expired" THEN [tokens[k] EXCEPT !.status = "gone"]
                                                           ELSE tokens[k]]

\* verifyUser has read the row and computes the hash.
Login(q, u) ==
  /\ Free(q) /\ Live(u)
  /\ tokens' = Swept
  /\ Become(q, [kind |-> "login", user |-> u, role |-> users[u].role, totp |-> users[u].enabled])
  /\ UNCHANGED <<users, cookies, shown, bought>>

\* Mutated form: every password is answered with a cookie.
MutNeedsTotp(r) == FALSE

\* The row that login read asks for the second factor.
NeedsTotp(r) == r.totp

\* The password was right: a temp token, or the cookie.
PasswordOk(q) ==
  /\ req[q].kind = "login"
  /\ \/ /\ NeedsTotp(req[q])
        /\ \E k \in Tokens :
             /\ tokens[k].status = "none"
             /\ tokens' = [tokens EXCEPT ![k] = [status |-> "live", user |-> req[q].user,
                                                 role |-> req[q].role]]
        /\ UNCHANGED cookies
     \/ /\ ~NeedsTotp(req[q])
        /\ cookies' = cookies \cup {[user |-> req[q].user, role |-> req[q].role]}
        /\ UNCHANGED tokens
  /\ Become(q, Idle)
  /\ UNCHANGED <<users, shown, bought>>

\* A request ends without effect: a wrong password, a closed connection, a dead process.
GiveUp(q) ==
  /\ ~Free(q)
  /\ Become(q, Idle)
  /\ UNCHANGED <<users, tokens, cookies, shown, bought>>

\* Five minutes have passed.
TokenExpires(k) ==
  /\ tokens[k].status = "live"
  /\ tokens' = [tokens EXCEPT ![k].status = "expired"]
  /\ UNCHANGED <<users, cookies, req, shown, bought, older>>

\* verifyTotpCode with the row of u: the code was computed from secret s.
CodeFits(u, s) == Live(u) /\ s \in shown[u] /\ s = users[u].secret

\* Mutated form: neither the user nor his present secret is looked up.
MutHolder(k, s) == s \in shown[tokens[k].user]

\* getUserById with the id in the token, then the code.
Holder(k, s) == CodeFits(tokens[k].user, s)

\* Mutated form: the token stays in the table until it expires.
MutSpend(k) == tokens

\* The token is deleted before the cookie is made.
Spend(k) == [tokens EXCEPT ![k].status = "gone"]

\* POST totp/verify with a temp token: an expired token goes, a wrong code changes
\* nothing, the right code spends the token and the cookie is computed.
VerifyToken(q, k, s) ==
  /\ Free(q)
  /\ \/ /\ tokens[k].status = "expired"
        /\ tokens' = Spend(k)
        /\ UNCHANGED <<req, older>>
     \/ /\ tokens[k].status = "live" /\ Holder(k, s)
        /\ tokens' = Spend(k)
        /\ Become(q, [kind |-> "grant", token |-> k])
  /\ UNCHANGED <<users, cookies, shown, bought>>

\* The cookie has the user and the role of the token.
Grant(q) ==
  /\ req[q].kind = "grant"
  /\ LET k == req[q].token
     IN  /\ cookies' = cookies \cup {[user |-> tokens[k].user, role |-> tokens[k].role]}
         /\ bought' = [bought EXCEPT ![k] = @ + 1]
  /\ Become(q, Idle)
  /\ UNCHANGED <<users, tokens, shown>>

\* Logout, or the seven days of the cookie are over.
DropCookie(c) ==
  /\ c \in cookies
  /\ cookies' = cookies \ {c}
  /\ UNCHANGED <<users, tokens, req, shown, bought, older>>

-----------------------------------------------------------------------------
(* The authenticator.                                                      *)

\* A secret that is waiting to be confirmed is used again.
Kept(row) == row.secret # NULL

\* GET totp/setup answers with a secret unless the second factor is enabled.
TotpSetup(c) ==
  LET u == c.user
  IN  /\ c \in cookies /\ Live(u) /\ ~users[u].enabled
      /\ \E s \in IF Kept(users[u]) THEN {users[u].secret}
                  ELSE Secrets \ UNION {shown[v] : v \in Users} :
           /\ users' = [users EXCEPT ![u].secret = s]
           /\ shown' = [shown EXCEPT ![u] = @ \cup {s}]
      /\ UNCHANGED <<tokens, cookies, req, bought, older>>

Logins(u) == {q \in Requests : req[q].kind = "login" /\ req[q].user = u}

\* POST totp/verify with a cookie and the right code.
TotpConfirm(c, s) ==
  /\ c \in cookies /\ CodeFits(c.user, s)
  /\ users' = [users EXCEPT ![c.user].enabled = TRUE]
  /\ older' = older \cup IF users[c.user].enabled THEN {} ELSE Logins(c.user)
  /\ UNCHANGED <<tokens, cookies, req, shown, bought>>

\* DELETE totp/verify has read the row and waits for the body.
DisableRead(q, c) ==
  /\ Free(q) /\ c \in cookies /\ Live(c.user)
  /\ Become(q, [kind |-> "disable", user |-> c.user, secret |-> users[c.user].secret])
  /\ UNCHANGED <<users, tokens, cookies, shown, bought>>

\* Mutated form: the secret goes and the flag stays.
MutUnpaired(row) == [row EXCEPT !.secret = NULL]

\* Flag and secret go together.
Unpaired(row) == [row EXCEPT !.enabled = FALSE, !.secret = NULL]

\* The code is checked against the row that was read; the UPDATE finds no row of a user
\* who was deleted.
Disable(q, s) ==
  /\ req[q].kind = "disable"
  /\ LET u == req[q].user
     IN  /\ s \in shown[u] /\ s = req[q].secret
         /\ users' = [users EXCEPT ![u] = IF Live(u) THEN Unpaired(@) ELSE @]
  /\ Become(q, Idle)
  /\ UNCHANGED <<tokens, cookies, shown, bought>>

-----------------------------------------------------------------------------
(* Users.  requireAdmin looks at the role in the cookie.                   *)

Admin(c) == c \in cookies /\ c.role = "admin"

\* POST users.
CreateUser(c, u, role) ==
  /\ Admin(c) /\ users[u].status = "none"
  /\ users' = [users EXCEPT ![u] = Row("live", role)]
  /\ UNCHANGED <<tokens, cookies, req, shown, bought, older>>

\* "Prevent admins from deleting their own account".
MayDelete(c, u) == u # c.user

\* DELETE users/:id.  The cookies and the tokens of the user stay.
DeleteUser(c, u) ==
  /\ Admin(c) /\ MayDelete(c, u) /\ Live(u)
  /\ users' = [users EXCEPT ![u] = Row("gone", "admin")]
  /\ UNCHANGED <<tokens, cookies, req, shown, bought, older>>

\* PUT users/:id, one's own id included.
SetRole(c, u, role) ==
  /\ Admin(c) /\ Live(u)
  /\ users' = [users EXCEPT ![u].role = role]
  /\ UNCHANGED <<tokens, cookies, req, shown, bought, older>>

-----------------------------------------------------------------------------
Next ==
  \/ \E q \in Requests :
       \/ \E u \in Users : Login(q, u)
       \/ PasswordOk(q) \/ GiveUp(q) \/ Grant(q)
       \/ \E k \in Tokens, s \in Secrets : VerifyToken(q, k, s)
       \/ \E c \in cookies : DisableRead(q, c)
       \/ \E s \in Secrets : Disable(q, s)
  \/ \E k \in Tokens : TokenExpires(k)
  \/ \E c \in cookies :
       \/ DropCookie(c) \/ TotpSetup(c)
       \/ \E s \in Secrets : TotpConfirm(c, s)
       \/ \E u \in Users : DeleteUser(c, u)
       \/ \E u \in Users, role \in Roles : CreateUser(c, u, role) \/ SetRole(c, u, role)

Spec == Init /\ [][Next]_vars

-----------------------------------------------------------------------------
Request ==
  {Idle}
    \cup [kind : {"login"}, user : Users, role : Roles, totp : BOOLEAN]
    \cup [kind : {"grant"}, token : Tokens]
    \cup [kind : {"disable"}, user : Users, secret : Secrets \cup {NULL}]

TypeOK ==
  /\ users \in [Users -> User]
  /\ tokens \in [Tokens -> Token]
  /\ cookies \subseteq Cookie
  /\ req \in [Requests -> Request]
  /\ shown \in [Users -> SUBSET Secrets]
  /\ bought \in [Tokens -> Nat]
  /\ older \subseteq Requests

\* Nobody is locked out by the second factor: while it is enabled there is a secret and
\* the authenticator of the user has it, however pairings and DELETEs interleave.
EnabledIsUsable ==
  \A u \in Users : users[u].enabled => users[u].secret \in shown[u]

\* "reuses it" (60_Auth_Security_Hardening.md:50): a secret that was shown stays the
\* secret of the user until the second factor is disabled or the user deleted.
SecretKept ==
  [][\A u \in Users : users[u].secret # NULL => users'[u].secret \in {users[u].secret, NULL}]_vars

\* A temp token buys one session, also when it is sent twice at once.
TokenBuysOneSession == \A k \in Tokens : bought[k] <= 1

\* The inductive invariant of AccountsProofs: a secret in the table has been shown, and a
\* token that was spent has bought one session or is buying it in one request.
Pairing ==
  \A u \in Users :
    /\ users[u].secret # NULL => users[u].secret \in shown[u]
    /\ users[u].enabled => users[u].secret # NULL

Spent ==
  \A k \in Tokens :
    /\ tokens[k].status # "gone" => bought[k] = 0
    /\ \A q \in Requests : req[q].kind = "grant" /\ req[q].token = k =>
         /\ tokens[k].status = "gone" /\ bought[k] = 0
         /\ \A r \in Requests : req[r].kind = "grant" /\ req[r].token = k => r = q

\* A login that read a row without the second factor began before that was enabled.
Overtaken ==
  \A u \in Users : users[u].enabled => \A q \in Logins(u) : req[q].totp \/ q \in older

IInv == TypeOK /\ Pairing /\ Spent /\ TokenBuysOneSession /\ Overtaken

\* While the second factor of a user is enabled, a new cookie of his is bought with a
\* token or is the answer to a login that was under way when he enabled it: no login that
\* began later ends with the password alone, however pairings, DELETEs, deletions and
\* other logins interleave with its awaits.
PasswordIsNotEnough ==
  [][\A u \in Users : users[u].enabled =>
       \A c \in cookies' \ cookies : c.user = u =>
         bought' # bought \/ \E q \in Logins(u) : q \in older \ older']_vars

\* The requests that may still give u a cookie.
Asking(u) ==
  {q \in Requests : \/ req[q].kind = "login" /\ req[q].user = u
                    \/ req[q].kind = "grant" /\ tokens[req[q].token].user = u}

\* A deleted user gets no session but from requests that were in flight at his deletion,
\* though his temp tokens outlive him.
GoneUsersGetNoSession ==
  [][\A u \in Users :
       users[u].status = "gone" =>
         /\ Asking(u)' \subseteq Asking(u)
         /\ Asking(u) = {} => \A c \in cookies' \ cookies : c.user # u]_vars
=============================================================================
