--------------------------- MODULE AccountsProofs ---------------------------
(***************************************************************************)
(* Proofs about the routes of the accounts and about the limiter they call *)
(* first.  Accounts: for any users, secrets, temp tokens and requests in   *)
(* flight.  RateLimit: for any keys, any limits, any clock and any moment  *)
(* of the sweep, as long as no window is longer than the idle age of the   *)
(* sweep (RateLimitAssumption).  The two share no state.                   *)
(***************************************************************************)
EXTENDS Accounts, RateLimit, FiniteSetTheorems, WellFoundedInduction, TLAPS

USE AccountsAssumption

\* The constants' types of a row, a token and a request.
LEMMA RowTyped ==
  ASSUME NEW status \in {"none", "live", "gone"}, NEW role \in Roles
  PROVE  Row(status, role) \in User
BY DEF Row, User, Roles

\* Init establishes the inductive invariant: nothing is paired and nothing is spent.
LEMMA InitIInv == Init => IInv
<1> SUFFICES ASSUME Init PROVE IInv
  OBVIOUS
<1>1. TypeOK
  <2>1. users \in [Users -> User]
    BY RowTyped DEF Init, Roles
  <2> QED
    BY <2>1 DEF Init, TypeOK, Token, Cookie, Roles, Request, Idle
<1>2. Pairing /\ Spent /\ TokenBuysOneSession /\ Overtaken
  BY DEF Init, Pairing, Spent, TokenBuysOneSession, Overtaken, Row, Idle
<1> QED
  BY <1>1, <1>2 DEF IInv

\* A request in flight is of one of the four kinds, with the fields of its kind.
LEMMA Kinds ==
  ASSUME TypeOK, NEW q \in Requests
  PROVE  /\ req[q].kind = "login" => req[q].user \in Users /\ req[q].role \in Roles
                                     /\ req[q].totp \in BOOLEAN
         /\ req[q].kind = "grant" => req[q].token \in Tokens
         /\ req[q].kind = "disable" => req[q].user \in Users
                                       /\ req[q].secret \in Secrets \cup {NULL}
BY DEF TypeOK, Request, Idle

\* Typing: every action keeps the types.
LEMMA TypeStep ==
  ASSUME TypeOK, [Next]_vars
  PROVE  TypeOK'
<1> USE DEF TypeOK
<1>1. CASE UNCHANGED vars
  BY <1>1 DEF vars, Request
<1>2. ASSUME NEW q \in Requests, NEW u \in Users, Login(q, u) PROVE TypeOK'
  <2>1. tokens' \in [Tokens -> Token]
    BY <1>2 DEF Login, Swept, Token
  <2>2. [kind |-> "login", user |-> u, role |-> users[u].role, totp |-> users[u].enabled] \in Request
    BY DEF Request, User
  <2>3. req' \in [Requests -> Request]
    BY <1>2, <2>2 DEF Login, Become
  <2>9. older' \subseteq Requests
    BY <1>2 DEF Login, Become
  <2> QED
    BY <1>2, <2>9, <2>1, <2>3 DEF Login
<1>3. ASSUME NEW q \in Requests, PasswordOk(q) PROVE TypeOK'
  <2>1. req' \in [Requests -> Request]
    BY <1>3 DEF PasswordOk, Become, Request
  <2>2. req[q].user \in Users /\ req[q].role \in Roles
    BY <1>3, Kinds DEF PasswordOk
  <2>3. tokens' \in [Tokens -> Token]
    BY <1>3, <2>2 DEF PasswordOk, Token
  <2>4. cookies' \subseteq Cookie
    BY <1>3, <2>2 DEF PasswordOk, Cookie
  <2>9. older' \subseteq Requests
    BY <1>3 DEF PasswordOk, Become
  <2> QED
    BY <1>3, <2>9, <2>1, <2>3, <2>4 DEF PasswordOk, Request
<1>4. ASSUME NEW q \in Requests, GiveUp(q) PROVE TypeOK'
  BY <1>4 DEF GiveUp, Become, Request
<1>5. ASSUME NEW q \in Requests, Grant(q) PROVE TypeOK'
  <2>1. req' \in [Requests -> Request]
    BY <1>5 DEF Grant, Become, Request
  <2>2. req[q].token \in Tokens
    BY <1>5, Kinds DEF Grant
  <2>3. cookies' \subseteq Cookie
    BY <1>5, <2>2 DEF Grant, Cookie, Token
  <2>4. bought' \in [Tokens -> Nat]
    BY <1>5, <2>2 DEF Grant
  <2>9. older' \subseteq Requests
    BY <1>5 DEF Grant, Become
  <2> QED
    BY <1>5, <2>9, <2>1, <2>3, <2>4 DEF Grant, Request
<1>6. ASSUME NEW q \in Requests, NEW k \in Tokens, NEW s \in Secrets, VerifyToken(q, k, s)
      PROVE  TypeOK'
  <2>1. tokens' \in [Tokens -> Token]
    BY <1>6 DEF VerifyToken, Spend, Token
  <2>2. req' \in [Requests -> Request]
    BY <1>6 DEF VerifyToken, Become, Request
  <2>9. older' \subseteq Requests
    BY <1>6 DEF VerifyToken, Become
  <2> QED
    BY <1>6, <2>9, <2>1, <2>2 DEF VerifyToken, Request
<1>7. ASSUME NEW q \in Requests, NEW c \in cookies, DisableRead(q, c) PROVE TypeOK'
  <2>1. c.user \in Users
    BY DEF Cookie
  <2>2. req' \in [Requests -> Request]
    BY <1>7, <2>1 DEF DisableRead, Become, Request, User
  <2>9. older' \subseteq Requests
    BY <1>7 DEF DisableRead, Become
  <2> QED
    BY <1>7, <2>9, <2>2 DEF DisableRead, Request
<1>8. ASSUME NEW q \in Requests, NEW s \in Secrets, Disable(q, s) PROVE TypeOK'
  <2>1. req' \in [Requests -> Request]
    BY <1>8 DEF Disable, Become, Request
  <2>2. users' \in [Users -> User]
    <3>1. \A row \in User : Unpaired(row) \in User
      BY DEF Unpaired, User
    <3>2. users' = [users EXCEPT ![req[q].user] =
                      IF Live(req[q].user) THEN Unpaired(@) ELSE @]
      BY <1>8 DEF Disable
    <3> QED BY <3>1, <3>2
  <2>9. older' \subseteq Requests
    BY <1>8 DEF Disable, Become
  <2> QED
    BY <1>8, <2>9, <2>1, <2>2 DEF Disable, Request
<1>9. ASSUME NEW k \in Tokens, TokenExpires(k) PROVE TypeOK'
  BY <1>9 DEF TokenExpires, Token, Request
<1>10. ASSUME NEW c \in cookies, DropCookie(c) PROVE TypeOK'
  BY <1>10 DEF DropCookie, Request
<1>11. ASSUME NEW c \in cookies, TotpSetup(c) PROVE TypeOK'
  <2>1. c.user \in Users
    BY DEF Cookie
  <2>2. PICK s \in IF Kept(users[c.user]) THEN {users[c.user].secret}
                   ELSE Secrets \ UNION {shown[v] : v \in Users} :
             /\ users' = [users EXCEPT ![c.user].secret = s]
             /\ shown' = [shown EXCEPT ![c.user] = @ \cup {s}]
    BY <1>11 DEF TotpSetup
  <2>3. s \in Secrets
    BY <2>1, <2>2 DEF Kept, User
  <2>4. users' \in [Users -> User] /\ shown' \in [Users -> SUBSET Secrets]
    BY <2>1, <2>2, <2>3 DEF User
  <2> QED
    BY <1>11, <2>4 DEF TotpSetup, Request
<1>12. ASSUME NEW c \in cookies, NEW s \in Secrets, TotpConfirm(c, s) PROVE TypeOK'
  <2>1. c.user \in Users
    BY DEF Cookie
  <2>2. \A b \in BOOLEAN : [users[c.user] EXCEPT !.enabled = b] \in User
    BY <2>1 DEF User
  <2>3. users' \in [Users -> User]
    BY <1>12, <2>1, <2>2 DEF TotpConfirm
  <2>4. older' \subseteq Requests
    BY <1>12 DEF TotpConfirm, Logins
  <2> QED
    BY <1>12, <2>3, <2>4 DEF TotpConfirm
<1>13. ASSUME NEW c \in cookies, NEW u \in Users, DeleteUser(c, u) PROVE TypeOK'
  BY <1>13, RowTyped DEF DeleteUser, Roles, Request
<1>14. ASSUME NEW c \in cookies, NEW u \in Users, NEW role \in Roles, CreateUser(c, u, role)
       PROVE  TypeOK'
  BY <1>14, RowTyped DEF CreateUser, Request
<1>15. ASSUME NEW c \in cookies, NEW u \in Users, NEW role \in Roles, SetRole(c, u, role)
       PROVE  TypeOK'
  BY <1>15 DEF SetRole, User, Request
<1> QED
  BY <1>1, <1>2, <1>3, <1>4, <1>5, <1>6, <1>7, <1>8, <1>9, <1>10, <1>11, <1>12, <1>13, <1>14,
     <1>15 DEF Next

\* What a step may do to the second factor of a user: pair, confirm or reset it.
LEMMA FactorStep ==
  ASSUME TypeOK, Pairing, [Next]_vars, NEW u \in Users
  PROVE  \/ /\ users'[u].secret = users[u].secret
            /\ users'[u].enabled = users[u].enabled
            /\ shown[u] \subseteq shown'[u]
         \/ /\ users[u].secret = NULL \/ users'[u].secret = users[u].secret
            /\ ~users[u].enabled
            /\ ~users'[u].enabled
            /\ users'[u].secret \in shown'[u]
         \/ /\ users'[u].secret = users[u].secret
            /\ users[u].secret \in shown[u]
            /\ shown' = shown
         \/ users'[u].secret = NULL /\ ~users'[u].enabled
<1> USE DEF TypeOK
<1>1. CASE UNCHANGED vars
  BY <1>1 DEF vars
<1>2. CASE UNCHANGED <<users, shown>>
  BY <1>2
<1>3. ASSUME NEW q \in Requests, NEW s \in Secrets, Disable(q, s)
      PROVE  /\ shown' = shown
             /\ \/ users'[u] = users[u]
                \/ users'[u].secret = NULL /\ ~users'[u].enabled
  BY <1>3 DEF Disable, Unpaired, User
<1>4. ASSUME NEW c \in cookies, TotpSetup(c)
      PROVE  /\ shown[u] \subseteq shown'[u]
             /\ \/ users'[u] = users[u]
                \/ /\ users[u].secret = NULL \/ users'[u].secret = users[u].secret
                   /\ ~users[u].enabled /\ ~users'[u].enabled
                   /\ users'[u].secret \in shown'[u]
  <2>1. c.user \in Users
    BY DEF Cookie
  <2>2. PICK s \in IF Kept(users[c.user]) THEN {users[c.user].secret}
                   ELSE Secrets \ UNION {shown[v] : v \in Users} :
             /\ users' = [users EXCEPT ![c.user].secret = s]
             /\ shown' = [shown EXCEPT ![c.user] = @ \cup {s}]
    BY <1>4 DEF TotpSetup
  <2>3. users[c.user].secret = NULL \/ s = users[c.user].secret
    BY <2>2 DEF Kept
  <2>4. ~users[c.user].enabled
    BY <1>4 DEF TotpSetup
  <2> QED
    BY <2>1, <2>2, <2>3, <2>4 DEF User
<1>5. ASSUME NEW c \in cookies, NEW s \in Secrets, TotpConfirm(c, s)
      PROVE  /\ shown' = shown
             /\ users'[u].secret = users[u].secret
             /\ users'[u] = users[u] \/ users[u].secret \in shown[u]
  <2>1. c.user \in Users
    BY DEF Cookie
  <2> QED
    BY <1>5, <2>1 DEF TotpConfirm, CodeFits, User
<1>6. ASSUME NEW c \in cookies, NEW v \in Users, NEW role \in Roles,
             CreateUser(c, v, role) \/ SetRole(c, v, role) \/ DeleteUser(c, v)
      PROVE  /\ shown' = shown
             /\ \/ /\ users'[u].secret = users[u].secret
                   /\ users'[u].enabled = users[u].enabled
                \/ users'[u].secret = NULL /\ ~users'[u].enabled
  BY <1>6 DEF CreateUser, SetRole, DeleteUser, Row, User
<1>7. CASE Next
  <2>1. CASE \E q \in Requests :
               \/ \E v \in Users : Login(q, v)
               \/ PasswordOk(q) \/ GiveUp(q) \/ Grant(q)
               \/ \E k \in Tokens, s \in Secrets : VerifyToken(q, k, s)
               \/ \E c \in cookies : DisableRead(q, c)
    BY <2>1, <1>2 DEF Login, PasswordOk, GiveUp, Grant, VerifyToken, DisableRead
  <2>2. CASE \E k \in Tokens : TokenExpires(k)
    BY <2>2, <1>2 DEF TokenExpires
  <2>3. CASE \E c \in cookies : DropCookie(c)
    BY <2>3, <1>2 DEF DropCookie
  <2>4. CASE \E c \in cookies, v \in Users : DeleteUser(c, v)
    <3>1. PICK c \in cookies, v \in Users : DeleteUser(c, v)
      BY <2>4
    <3> QED
      BY <3>1, <1>6 DEF Roles
  <2> QED
    BY <1>7, <1>3, <1>4, <1>5, <1>6, <2>1, <2>2, <2>3, <2>4 DEF Next
<1> QED
  BY <1>1, <1>7

\* Pairing follows for every user from what a step may do to his second factor.
LEMMA PairingStep ==
  ASSUME TypeOK, Pairing, [Next]_vars
  PROVE  Pairing'
<1> SUFFICES ASSUME NEW u \in Users
             PROVE  /\ users'[u].secret # NULL => users'[u].secret \in shown'[u]
                    /\ users'[u].enabled => users'[u].secret # NULL
  BY DEF Pairing
<1>1. NULL \notin shown[u] /\ NULL \notin shown'[u]
  BY TypeStep DEF TypeOK
<1> QED
  BY <1>1, FactorStep DEF Pairing

\* Spent: only VerifyToken turns a live token into a request that grants, and only that
\* request's Grant raises bought.
LEMMA SpentStep ==
  ASSUME TypeOK, Spent, TokenBuysOneSession, [Next]_vars
  PROVE  Spent' /\ TokenBuysOneSession'
<1> USE DEF TypeOK, Spent, TokenBuysOneSession
<1>1. CASE UNCHANGED <<tokens, req, bought>>
  BY <1>1
<1>2. ASSUME NEW q \in Requests, NEW u \in Users, Login(q, u)
      PROVE  Spent' /\ TokenBuysOneSession'
  BY <1>2 DEF Login, Swept, Become, Token
<1>3. ASSUME NEW q \in Requests, PasswordOk(q) PROVE Spent' /\ TokenBuysOneSession'
  BY <1>3 DEF PasswordOk, Become, Idle, Token
<1>4. ASSUME NEW q \in Requests, GiveUp(q) PROVE Spent' /\ TokenBuysOneSession'
  BY <1>4 DEF GiveUp, Become, Idle
<1>5. ASSUME NEW q \in Requests, Grant(q) PROVE Spent' /\ TokenBuysOneSession'
  <2>1. req[q].token \in Tokens
    BY <1>5, Kinds DEF Grant
  <2> QED
    BY <1>5, <2>1 DEF Grant, Become, Idle
<1>6. ASSUME NEW q \in Requests, NEW k \in Tokens, NEW s \in Secrets, VerifyToken(q, k, s)
      PROVE  Spent' /\ TokenBuysOneSession'
  <2>1. CASE tokens[k].status = "expired" /\ req' = req
    BY <1>6, <2>1 DEF VerifyToken, Spend, Token
  <2>2. CASE tokens[k].status = "live" /\ Become(q, [kind |-> "grant", token |-> k])
    <3>1. tokens' = Spend(k) /\ bought' = bought
      BY <1>6 DEF VerifyToken
    <3>2. bought[k] = 0 /\ \A r \in Requests : req[r].kind = "grant" => req[r].token # k
      BY <2>2
    <3> QED
      BY <2>2, <3>1, <3>2 DEF Spend, Become, Token
  <2> QED
    BY <1>6, <2>1, <2>2 DEF VerifyToken
<1>7. ASSUME NEW q \in Requests, NEW c \in cookies, DisableRead(q, c)
      PROVE  Spent' /\ TokenBuysOneSession'
  BY <1>7 DEF DisableRead, Become
<1>8. ASSUME NEW q \in Requests, NEW s \in Secrets, Disable(q, s)
      PROVE  Spent' /\ TokenBuysOneSession'
  BY <1>8 DEF Disable, Become, Idle
<1>9. ASSUME NEW k \in Tokens, TokenExpires(k) PROVE Spent' /\ TokenBuysOneSession'
  BY <1>9 DEF TokenExpires, Token
<1>10. ASSUME NEW c \in cookies,
              \/ DropCookie(c) \/ TotpSetup(c)
              \/ \E s \in Secrets : TotpConfirm(c, s)
              \/ \E u \in Users : DeleteUser(c, u)
              \/ \E u \in Users, role \in Roles : CreateUser(c, u, role) \/ SetRole(c, u, role)
       PROVE  UNCHANGED <<tokens, req, bought>>
  BY <1>10 DEF DropCookie, TotpSetup, TotpConfirm, DeleteUser, CreateUser, SetRole
<1> QED
  BY <1>1, <1>2, <1>3, <1>4, <1>5, <1>6, <1>7, <1>8, <1>9, <1>10 DEF Next, vars

\* Overtaken: a login reads the flag when it begins, and the step that sets the flag
\* records the logins under way; every other step only ends requests or resets flags.
LEMMA OvertakenStep ==
  ASSUME TypeOK, Overtaken, [Next]_vars
  PROVE  Overtaken'
<1> USE DEF TypeOK
<1>a. ASSUME \A u \in Users : users'[u].enabled => users[u].enabled,
             \A q \in Requests : \/ req'[q].kind # "login"
                                 \/ req'[q] = req[q] /\ (q \in older => q \in older')
      PROVE  Overtaken'
  BY <1>a DEF Overtaken, Logins
<1>b. ASSUME UNCHANGED <<req, older>>, \A u \in Users : users'[u].enabled => users[u].enabled
      PROVE  Overtaken'
  BY <1>a, <1>b
<1>c. ASSUME UNCHANGED users, NEW q \in Requests, NEW r \in Request, r.kind # "login", Become(q, r)
      PROVE  Overtaken'
  <2>1. req'[q] = r /\ \A p \in Requests \ {q} : req'[p] = req[p] /\ (p \in older => p \in older')
    BY <1>c DEF Become
  <2>2. \A p \in Requests : \/ req'[p].kind # "login"
                            \/ req'[p] = req[p] /\ (p \in older => p \in older')
    <3> SUFFICES ASSUME NEW p \in Requests
                 PROVE  \/ req'[p].kind # "login"
                        \/ req'[p] = req[p] /\ (p \in older => p \in older')
      OBVIOUS
    <3>1. CASE p = q
      BY <1>c, <2>1, <3>1
    <3>2. CASE p # q
      BY <2>1, <3>2
    <3> QED BY <3>1, <3>2
  <2>3. \A u \in Users : users'[u].enabled => users[u].enabled
    BY <1>c
  <2> QED BY <1>a, <2>2, <2>3
<1>d. Idle \in Request /\ Idle.kind # "login"
  BY DEF Request, Idle
<1>1. CASE UNCHANGED vars
  BY <1>1, <1>b DEF vars
<1>2. ASSUME NEW q \in Requests, NEW u \in Users, Login(q, u) PROVE Overtaken'
  <2>1. req'[q].totp = users[u].enabled /\ req'[q].user = u /\ req'[q].kind = "login" /\ users' = users
    BY <1>2 DEF Login, Become
  <2>2. \A p \in Requests \ {q} : req'[p] = req[p] /\ (p \in older => p \in older')
    BY <1>2 DEF Login, Become
  <2>3. SUFFICES ASSUME NEW v \in Users, users'[v].enabled, NEW p \in Requests,
                        req'[p].kind = "login", req'[p].user = v
                 PROVE  req'[p].totp \/ p \in older'
    BY DEF Overtaken, Logins
  <2>4. CASE p = q
    BY <2>1, <2>3, <2>4
  <2>5. CASE p # q
    BY <2>1, <2>2, <2>3, <2>5 DEF Overtaken, Logins
  <2> QED BY <2>4, <2>5
<1>3. ASSUME NEW q \in Requests, PasswordOk(q) \/ GiveUp(q) \/ Grant(q) PROVE Overtaken'
  <2>1. Become(q, Idle) /\ users' = users
    BY <1>3 DEF PasswordOk, GiveUp, Grant
  <2> QED BY <1>c, <1>d, <2>1
<1>4. ASSUME NEW q \in Requests, NEW k \in Tokens, NEW s \in Secrets, VerifyToken(q, k, s)
      PROVE  Overtaken'
  <2>1. CASE UNCHANGED <<req, older>>
    BY <1>4, <1>b, <2>1 DEF VerifyToken
  <2>2. CASE Become(q, [kind |-> "grant", token |-> k])
    <3>1. [kind |-> "grant", token |-> k] \in Request /\ [kind |-> "grant", token |-> k].kind # "login"
      BY DEF Request
    <3>2. users' = users
      BY <1>4 DEF VerifyToken
    <3> QED BY <1>c, <2>2, <3>1, <3>2
  <2> QED BY <1>4, <2>1, <2>2 DEF VerifyToken
<1>5. ASSUME NEW q \in Requests, NEW c \in cookies, DisableRead(q, c) PROVE Overtaken'
  <2> DEFINE asked == [kind |-> "disable", user |-> c.user, secret |-> users[c.user].secret]
  <2>1. asked \in Request /\ asked.kind # "login"
    BY DEF Request, Cookie, User
  <2>2. Become(q, asked) /\ users' = users
    BY <1>5 DEF DisableRead
  <2> HIDE DEF asked
  <2> QED BY <1>c, <2>1, <2>2
<1>6. ASSUME NEW q \in Requests, NEW s \in Secrets, Disable(q, s) PROVE Overtaken'
  <2>1. \A u \in Users : users'[u].enabled => users[u].enabled
    BY <1>6 DEF Disable, Unpaired, User
  <2>2. req'[q] = Idle /\ \A p \in Requests \ {q} : req'[p] = req[p] /\ (p \in older => p \in older')
    BY <1>6 DEF Disable, Become
  <2>3. \A p \in Requests : \/ req'[p].kind # "login"
                            \/ req'[p] = req[p] /\ (p \in older => p \in older')
    <3> SUFFICES ASSUME NEW p \in Requests
                 PROVE  \/ req'[p].kind # "login"
                        \/ req'[p] = req[p] /\ (p \in older => p \in older')
      OBVIOUS
    <3>1. CASE p = q
      BY <1>d, <2>2, <3>1
    <3>2. CASE p # q
      BY <2>2, <3>2
    <3> QED BY <3>1, <3>2
  <2> QED BY <1>a, <2>1, <2>3
<1>7. ASSUME NEW k \in Tokens, TokenExpires(k) PROVE Overtaken'
  BY <1>7, <1>b DEF TokenExpires
<1>8. ASSUME NEW c \in cookies, NEW s \in Secrets, TotpConfirm(c, s) PROVE Overtaken'
  <2>1. /\ req' = req /\ older \subseteq older'
        /\ ~users[c.user].enabled => Logins(c.user) \subseteq older'
        /\ \A u \in Users : u # c.user => users'[u] = users[u]
    BY <1>8 DEF TotpConfirm
  <2>2. SUFFICES ASSUME NEW u \in Users, users'[u].enabled, NEW p \in Logins(u)
                 PROVE  req[p].totp \/ p \in older'
    BY <2>1 DEF Overtaken, Logins
  <2>3. CASE users[u].enabled
    BY <2>1, <2>2, <2>3 DEF Overtaken
  <2>4. CASE ~users[u].enabled
    BY <2>1, <2>2, <2>4
  <2> QED BY <2>3, <2>4
<1>9. ASSUME NEW c \in cookies, DropCookie(c) \/ TotpSetup(c) PROVE Overtaken'
  <2>1. UNCHANGED <<req, older>>
    BY <1>9 DEF DropCookie, TotpSetup
  <2>2. \A u \in Users : users'[u].enabled => users[u].enabled
    <3>1. CASE users' = users
      BY <3>1
    <3>2. ASSUME NEW s, users' = [users EXCEPT ![c.user].secret = s]
          PROVE  \A u \in Users : users'[u].enabled = users[u].enabled
      <4>1. \A u \in Users : users[u] \in User
        OBVIOUS
      <4> QED BY <3>2, <4>1 DEF User
    <3> QED BY <1>9, <3>1, <3>2 DEF DropCookie, TotpSetup
  <2> QED BY <1>b, <2>1, <2>2
<1>10. ASSUME NEW c \in cookies, NEW u \in Users, NEW role \in Roles,
              CreateUser(c, u, role) \/ SetRole(c, u, role) \/ DeleteUser(c, u)
       PROVE  Overtaken'
  <2>1. \A v \in Users : users'[v].enabled => users[v].enabled
    <3>1. ASSUME NEW row, row.enabled = FALSE, users' = [users EXCEPT ![u] = row]
          PROVE  \A v \in Users : users'[v].enabled => users[v].enabled
      BY <3>1
    <3>2. Row("live", role).enabled = FALSE /\ Row("gone", "admin").enabled = FALSE
      BY DEF Row
    <3>3. CASE users' = [users EXCEPT ![u].role = role]
      BY <3>3 DEF User
    <3> QED BY <1>10, <3>1, <3>2, <3>3 DEF CreateUser, SetRole, DeleteUser
  <2> QED BY <1>10, <1>b, <2>1 DEF CreateUser, SetRole, DeleteUser
<1>11. ASSUME NEW c \in cookies, NEW u \in Users, DeleteUser(c, u) PROVE Overtaken'
  BY <1>10, <1>11 DEF Roles
<1> QED
  BY <1>1, <1>2, <1>3, <1>4, <1>5, <1>6, <1>7, <1>8, <1>9, <1>10, <1>11 DEF Next

\* IInv is an invariant.
THEOREM Invariance == Spec => []IInv
<1>1. IInv /\ [Next]_vars => IInv'
  BY TypeStep, PairingStep, SpentStep, OvertakenStep DEF IInv
<1> QED
  BY InitIInv, <1>1, PTL DEF Spec

\* Every table, cookie and request keeps its type.
THEOREM TypeCorrect == Spec => []TypeOK
BY Invariance, PTL DEF IInv

\* No user is locked out by an enabled second factor without a secret he was shown.
THEOREM FactorUsable == Spec => []EnabledIsUsable
<1>1. IInv => EnabledIsUsable
  BY DEF IInv, Pairing, EnabledIsUsable
<1> QED
  BY <1>1, Invariance, PTL

\* A temp token buys at most one session.
THEOREM TokenOnce == Spec => []TokenBuysOneSession
BY Invariance, PTL DEF IInv

\* A secret that was shown is never replaced, only reset.
THEOREM SecretStays == Spec => SecretKept
<1>1. IInv /\ [Next]_vars =>
        [\A u \in Users : users[u].secret # NULL => users'[u].secret \in {users[u].secret, NULL}]_vars
  BY FactorStep DEF IInv
<1> QED
  BY <1>1, Invariance, PTL DEF Spec, SecretKept

\* A new cookie is that of a login whose row had no second factor and which ends with it,
\* or of a token that is exchanged.
LEMMA NewCookies ==
  ASSUME TypeOK, Next, NEW c \in cookies' \ cookies
  PROVE  \E q \in Requests :
           \/ /\ req[q].kind = "login" /\ ~req[q].totp /\ c.user = req[q].user /\ q \notin older'
           \/ /\ req[q].kind = "grant" /\ c.user = tokens[req[q].token].user
              /\ bought'[req[q].token] = bought[req[q].token] + 1
<1>1. PICK q \in Requests : PasswordOk(q) \/ Grant(q)
  BY DEF Next, Login, GiveUp, VerifyToken, DisableRead, Disable, TokenExpires, DropCookie, TotpSetup,
     TotpConfirm, DeleteUser, CreateUser, SetRole
<1>2. CASE PasswordOk(q)
  BY <1>2 DEF PasswordOk, NeedsTotp, Become
<1>3. CASE Grant(q)
  <2>1. req[q].token \in Tokens
    BY <1>3, Kinds DEF Grant
  <2> QED BY <1>3, <2>1 DEF Grant, TypeOK
<1> QED BY <1>1, <1>2, <1>3

\* While the second factor is on, a cookie costs a token or answers a login that was under way
\* when it was switched on: a login that began later never ends with the password alone.
THEOREM SecondFactorHolds == Spec => PasswordIsNotEnough
<1> DEFINE Needs == \A u \in Users : users[u].enabled =>
             \A c \in cookies' \ cookies : c.user = u =>
               bought' # bought \/ \E q \in Logins(u) : q \in older \ older'
<1>1. IInv /\ [Next]_vars => [Needs]_vars
  <2> SUFFICES ASSUME IInv, Next, NEW u \in Users, users[u].enabled,
                      NEW c \in cookies' \ cookies, c.user = u
               PROVE  bought' # bought \/ \E q \in Logins(u) : q \in older \ older'
    OBVIOUS
  <2>1. PICK q \in Requests :
           \/ /\ req[q].kind = "login" /\ ~req[q].totp /\ c.user = req[q].user /\ q \notin older'
           \/ /\ req[q].kind = "grant" /\ c.user = tokens[req[q].token].user
              /\ bought'[req[q].token] = bought[req[q].token] + 1
    BY NewCookies DEF IInv
  <2>2. req[q].kind = "grant" => bought[req[q].token] \in Nat
    BY Kinds DEF IInv, TypeOK
  <2>3. req[q].kind = "login" /\ req[q].user = u /\ ~req[q].totp => q \in Logins(u) /\ q \in older
    BY DEF IInv, Overtaken, Logins
  <2> QED BY <2>1, <2>2, <2>3
<1> QED BY <1>1, Invariance, PTL DEF Spec, PasswordIsNotEnough

\* No request begins to ask for a session of a user who is gone, though his tokens live on.
LEMMA AskingStep ==
  ASSUME TypeOK, Spent, Next, NEW u \in Users, users[u].status = "gone"
  PROVE  Asking(u)' \subseteq Asking(u)
<1> USE DEF TypeOK
<1> SUFFICES ASSUME NEW r \in Requests, r \notin Asking(u),
                    \/ req'[r].kind = "login" /\ req'[r].user = u
                    \/ req'[r].kind = "grant" /\ tokens'[req'[r].token].user = u
             PROVE  FALSE
  BY DEF Asking
\* The user of a token in use does not change.
<1>1. ASSUME req[r].kind = "grant" PROVE tokens'[req[r].token].user = tokens[req[r].token].user
  <2>1. req[r].token \in Tokens /\ tokens[req[r].token].status = "gone"
    BY <1>1, Kinds DEF Spent
  <2> QED BY <2>1 DEF Next, Login, Swept, PasswordOk, GiveUp, Grant, VerifyToken, Spend, DisableRead, Disable,
          TokenExpires, DropCookie, TotpSetup, TotpConfirm, DeleteUser, CreateUser, SetRole, Token
<1>2. CASE req'[r] = req[r]
  BY <1>1, <1>2 DEF Asking
<1>3. CASE \E v \in Users : Login(r, v)
  BY <1>3 DEF Login, Become, Live
<1>4. CASE \E k \in Tokens, s \in Secrets : VerifyToken(r, k, s)
  <2>1. PICK k \in Tokens, s \in Secrets : VerifyToken(r, k, s)
    BY <1>4
  <2>2. CASE req' = req
    BY <1>2, <2>2
  <2>3. CASE Holder(k, s) /\ tokens' = Spend(k) /\ Become(r, [kind |-> "grant", token |-> k])
    <3>1. tokens'[k].user = tokens[k].user /\ users[tokens[k].user].status = "live"
      BY <2>3 DEF Spend, Holder, CodeFits, Live, Token
    <3>2. req'[r] = [kind |-> "grant", token |-> k]
      BY <2>3 DEF Become
    <3> QED BY <3>1, <3>2
  <2> QED BY <2>1, <2>2, <2>3 DEF VerifyToken
<1>5. CASE \E c \in cookies : DisableRead(r, c)
  BY <1>5 DEF DisableRead, Become
<1>6. CASE PasswordOk(r) \/ GiveUp(r) \/ Grant(r) \/ \E s \in Secrets : Disable(r, s)
  <2>1. req'[r] = Idle
    BY <1>6 DEF PasswordOk, GiveUp, Grant, Disable, Become
  <2> QED BY <2>1 DEF Idle
<1>7. CASE \E q \in Requests \ {r} :
             \/ \E v \in Users : Login(q, v)
             \/ PasswordOk(q) \/ GiveUp(q) \/ Grant(q)
             \/ \E k \in Tokens, s \in Secrets : VerifyToken(q, k, s)
             \/ \E c \in cookies : DisableRead(q, c)
             \/ \E s \in Secrets : Disable(q, s)
  <2>1. req'[r] = req[r]
    BY <1>7 DEF Login, PasswordOk, GiveUp, Grant, VerifyToken, DisableRead, Disable, Become
  <2> QED BY <1>2, <2>1
<1>8. CASE UNCHANGED req
  BY <1>2, <1>8
<1>9. CASE \E q \in Requests :
             \/ \E v \in Users : Login(q, v)
             \/ PasswordOk(q) \/ GiveUp(q) \/ Grant(q)
             \/ \E k \in Tokens, s \in Secrets : VerifyToken(q, k, s)
             \/ \E c \in cookies : DisableRead(q, c)
             \/ \E s \in Secrets : Disable(q, s)
  BY <1>3, <1>4, <1>5, <1>6, <1>7, <1>9
<1>10. ASSUME NEW c \in cookies,
              \/ DropCookie(c) \/ TotpSetup(c)
              \/ \E s \in Secrets : TotpConfirm(c, s)
              \/ \E v \in Users : DeleteUser(c, v)
              \/ \E v \in Users, role \in Roles : CreateUser(c, v, role) \/ SetRole(c, v, role)
       PROVE  UNCHANGED req
  BY <1>10 DEF DropCookie, TotpSetup, TotpConfirm, DeleteUser, CreateUser, SetRole
<1>11. CASE \E k \in Tokens : TokenExpires(k)
  BY <1>8, <1>11 DEF TokenExpires
<1> QED BY <1>8, <1>9, <1>10, <1>11 DEF Next

\* A deleted user gets no session but from a request that was in flight at his deletion.
THEOREM GoneStayOut == Spec => GoneUsersGetNoSession
<1> DEFINE Out == \A u \in Users : users[u].status = "gone" =>
                    /\ Asking(u)' \subseteq Asking(u)
                    /\ Asking(u) = {} => \A c \in cookies' \ cookies : c.user # u
<1>1. IInv /\ [Next]_vars => [Out]_vars
  <2> SUFFICES ASSUME IInv, Next, NEW u \in Users, users[u].status = "gone"
               PROVE  /\ Asking(u)' \subseteq Asking(u)
                      /\ Asking(u) = {} => \A c \in cookies' \ cookies : c.user # u
    OBVIOUS
  <2>1. Asking(u)' \subseteq Asking(u)
    BY AskingStep DEF IInv
  <2>2. ASSUME Asking(u) = {}, NEW c \in cookies' \ cookies PROVE c.user # u
    BY <2>2, NewCookies DEF IInv, Asking
  <2> QED BY <2>1, <2>2
<1> QED BY <1>1, Invariance, PTL DEF Spec, GoneUsersGetNoSession

-----------------------------------------------------------------------------
(* The limiter.                                                            *)

\* The state without the retry times, whose type needs the arithmetic further down.
Typed ==
  /\ now \in 0 .. MaxTime
  /\ log \in [Clients -> SUBSET Hit]
  /\ store \in [Clients -> SUBSET Hit]
  /\ serial \in Nat

RInv == Typed /\ NothingRecentLost /\ EntryBounded /\ WindowCap

(* Counting.                                                               *)

\* A part of a finite set is finite and no larger.
LEMMA Part ==
  ASSUME NEW S, IsFiniteSet(S), NEW T, T \subseteq S
  PROVE  /\ IsFiniteSet(T)
         /\ Cardinality(T) \in Nat /\ Cardinality(S) \in Nat
         /\ Cardinality(T) <= Cardinality(S)
BY FS_Subset, FS_CardinalityType

\* One more hit counts as at most one more.
LEMMA OneMore ==
  ASSUME NEW S, IsFiniteSet(S), NEW x, NEW n \in Nat, Cardinality(S) < n
  PROVE  /\ IsFiniteSet(S \cup {x})
         /\ Cardinality(S \cup {x}) <= n
<1>1. Cardinality(S) \in Nat
  BY FS_CardinalityType
<1>2. /\ IsFiniteSet(S \cup {x})
      /\ Cardinality(S \cup {x}) = IF x \in S THEN Cardinality(S) ELSE Cardinality(S) + 1
  BY FS_AddElement
<1>3. QED
  BY <1>1, <1>2

\* What the filter keeps is exactly what the window of the full history holds.
LEMMA FilterIsWindow ==
  ASSUME RInv, NEW k \in Clients
  PROVE  /\ Filter(k) = InWindow(log[k], k, now)
         /\ IsFiniteSet(Filter(k))
         /\ Filter(k) \subseteq store[k]
         /\ Cardinality(Filter(k)) \in Nat
<1>1. /\ IsFiniteSet(log[k]) /\ store[k] \subseteq log[k]
      /\ \A h \in log[k] : /\ h.at <= now
                           /\ h.at > now - Window[k] => h \in store[k]
      /\ \A h \in log[k] : h.at \in Nat
      /\ now \in Nat /\ Window[k] \in Nat
  BY RateLimitAssumption DEF RateLimitAssumption, RInv, Typed, NothingRecentLost, Hit
<1>2. Filter(k) = InWindow(log[k], k, now)
  BY <1>1 DEF Filter, InWindow
<1>3. Filter(k) \subseteq store[k] /\ Filter(k) \subseteq log[k]
  BY <1>1 DEF Filter
<1>4. QED
  BY <1>1, <1>2, <1>3, Part

-----------------------------------------------------------------------------
(* The inductive invariant.                                                *)

\* An empty store holds all there is to hold.
LEMMA LimiterInit == RInit => RInv
<1> SUFFICES ASSUME RInit PROVE RInv
  OBVIOUS
<1>1. Typed
  BY RateLimitAssumption DEF RateLimitAssumption, RInit, SInit, Typed
<1>2. IsFiniteSet({}) /\ Cardinality({}) = 0
  BY FS_EmptySet
<1>3. NothingRecentLost /\ EntryBounded
  BY <1>2, RateLimitAssumption
     DEF RateLimitAssumption, RInit, SInit, NothingRecentLost, EntryBounded
<1>4. \A k \in Clients, t \in 0 .. now : InWindow(log[k], k, t) = {}
  BY DEF RInit, SInit, InWindow
<1>5. WindowCap
  BY <1>2, <1>4, RateLimitAssumption DEF RateLimitAssumption, WindowCap
<1>6. QED
  BY <1>1, <1>3, <1>5 DEF RInv

\* As time passes hits leave the window, none comes into it.
LEMMA TickStep ==
  ASSUME RInv, Tick
  PROVE  RInv'
<1> USE RateLimitAssumption DEF RateLimitAssumption, RInv, Typed, Hit, Tick, STick
<1>1. Typed'
  OBVIOUS
<1>2. NothingRecentLost' /\ EntryBounded'
  BY DEF NothingRecentLost, EntryBounded
<1>3. ASSUME NEW k \in Clients, NEW t \in 0 .. now'
      PROVE  Cardinality(InWindow(log'[k], k, t)) <= Max[k]
  <2>1. CASE t \in 0 .. now
    BY <2>1 DEF WindowCap
  <2>2. CASE t = now + 1
    <3>1. IsFiniteSet(log[k]) /\ \A h \in log[k] : h.at <= now
      BY DEF NothingRecentLost
    <3>2. InWindow(log[k], k, t) \subseteq InWindow(log[k], k, now)
      BY <2>2, <3>1 DEF InWindow
    <3>3. InWindow(log[k], k, now) \subseteq log[k]
      BY DEF InWindow
    <3>4. Cardinality(InWindow(log[k], k, now)) <= Max[k]
      BY DEF WindowCap
    <3>5. IsFiniteSet(InWindow(log[k], k, now))
      BY <3>1, <3>3, Part
    <3>6. QED
      BY <3>2, <3>4, <3>5, Part
  <2>3. QED
    BY <1>3, <2>1, <2>2
<1>4. WindowCap'
  BY <1>3 DEF WindowCap
<1>5. QED
  BY <1>1, <1>2, <1>4

\* The sweep takes entries whose hits no window counts any more.
LEMMA SweepStep ==
  ASSUME RInv, Sweep
  PROVE  RInv'
<1> USE RateLimitAssumption DEF RateLimitAssumption, RInv, Typed, Hit, Sweep
<1>1. Typed'
  OBVIOUS
<1>2. ASSUME NEW k \in Clients, NEW h \in log[k], h.at > now - Window[k]
      PROVE  h \in store'[k]
  <2>1. h \in store[k] /\ h.at \in Nat
    BY <1>2 DEF NothingRecentLost
  <2>2. ~(h.at < now - GcAge)
    BY <1>2, <2>1
  <2>3. QED
    BY <2>1, <2>2 DEF IdleEntry
<1>3. NothingRecentLost'
  BY <1>2 DEF NothingRecentLost
<1>4. EntryBounded'
  BY FS_EmptySet DEF EntryBounded
<1>5. WindowCap'
  BY DEF WindowCap, InWindow
<1>6. QED
  BY <1>1, <1>3, <1>4, <1>5

\* A request that is let in is written down; one that is not changes nothing that counts.
LEMMA CheckStep ==
  ASSUME RInv, NEW k \in Clients, Check(k)
  PROVE  RInv'
<1> DEFINE recent == Filter(k)
           hit    == [at |-> now, id |-> serial]
<1> USE RateLimitAssumption DEF RateLimitAssumption, RInv, Typed, Hit
<1>1. /\ recent = InWindow(log[k], k, now) /\ recent \subseteq store[k]
      /\ IsFiniteSet(recent) /\ Cardinality(recent) \in Nat
  BY FilterIsWindow
<1>2. CASE Allows(k, recent)
  <2>1. /\ store' = [store EXCEPT ![k] = recent \cup {hit}]
        /\ log' = [log EXCEPT ![k] = @ \cup {hit}]
        /\ serial' = serial + 1
        /\ now' = now
    BY <1>2 DEF Check
  <2>2. IsFiniteSet(recent \cup {hit}) /\ Cardinality(recent \cup {hit}) <= Max[k]
    BY <1>1, <1>2, OneMore DEF Allows
  <2>3. Typed'
    BY <1>1, <2>1
  <2>4. NothingRecentLost'
    <3>1. IsFiniteSet(log[k]) /\ IsFiniteSet(log[k] \cup {hit})
      BY FS_AddElement DEF NothingRecentLost
    <3>2. QED
      BY <1>1, <2>1, <3>1 DEF NothingRecentLost, InWindow
  <2>5. EntryBounded'
    BY <2>1, <2>2 DEF EntryBounded
  <2>6. ASSUME NEW c \in Clients, NEW t \in 0 .. now
        PROVE  Cardinality(InWindow(log'[c], c, t)) <= Max[c]
    <3>1. CASE c = k /\ t = now
      <4>1. InWindow(log'[k], k, now) = recent \cup {hit}
        BY <1>1, <2>1 DEF InWindow
      <4>2. QED
        BY <2>2, <3>1, <4>1
    <3>2. CASE c # k \/ t # now
      <4>1. InWindow(log'[c], c, t) = InWindow(log[c], c, t)
        BY <2>1, <3>2 DEF InWindow
      <4>2. QED
        BY <4>1 DEF WindowCap
    <3>3. QED
      BY <3>1, <3>2
  <2>7. QED
    BY <2>1, <2>3, <2>4, <2>5, <2>6 DEF WindowCap
<1>3. CASE ~Allows(k, recent)
  <2>1. /\ store' = [store EXCEPT ![k] = recent]
        /\ UNCHANGED <<now, log, serial>>
    BY <1>3 DEF Check
  <2>2. Typed'
    BY <1>1, <2>1
  <2>3. NothingRecentLost'
    BY <1>1, <2>1 DEF NothingRecentLost, InWindow
  <2>4. Cardinality(recent) <= Max[k]
    BY <1>1 DEF WindowCap
  <2>5. EntryBounded'
    BY <2>1, <2>4 DEF EntryBounded
  <2>6. WindowCap'
    BY <2>1 DEF WindowCap
  <2>7. QED
    BY <2>2, <2>3, <2>5, <2>6
<1>4. QED
  BY <1>2, <1>3

\* Rate-limit.ts: RInv is inductive.
THEOREM LimiterInvariance == RSpec => []RInv
<1>1. RInv /\ [RNext]_rvars => RInv'
  <2> SUFFICES ASSUME RInv, [RNext]_rvars PROVE RInv'
    OBVIOUS
  <2>1. CASE UNCHANGED rvars
    BY <2>1 DEF rvars, RInv, Typed, NothingRecentLost, EntryBounded, WindowCap
  <2>2. QED
    BY <2>1, TickStep, SweepStep, CheckStep DEF RNext
<1>2. QED
  BY <1>1, LimiterInit, PTL DEF RSpec

-----------------------------------------------------------------------------
(* What the runs check.                                                    *)

\* No window, wherever it ends, holds more allowed requests of a key than its limit.
THEOREM CapSafe == RSpec => []WindowCap
<1>1. RInv => WindowCap
  BY DEF RInv
<1>2. QED
  BY <1>1, LimiterInvariance, PTL

\* No entry of the Map outgrows its limit.
THEOREM MemorySafe == RSpec => []EntryBounded
<1>1. RInv => EntryBounded
  BY DEF RInv
<1>2. QED
  BY <1>1, LimiterInvariance, PTL

\* Every answer is the one a limiter that forgets nothing would give: neither the
\* pruning of the arrays nor the sweep can be observed.
THEOREM LimiterRefines == RSpec => SlidingWindowSpec
<1>1. RInit => SInit
  BY DEF RInit
<1>2. RInv /\ [RNext]_rvars => [SNext]_svars
  <2> SUFFICES ASSUME RInv, [RNext]_rvars PROVE [SNext]_svars
    OBVIOUS
  <2>1. CASE Tick
    BY <2>1 DEF Tick, SNext
  <2>2. CASE Sweep
    BY <2>2 DEF Sweep, svars
  <2>3. ASSUME NEW k \in Clients, Check(k) PROVE SNext
    <3>1. /\ Filter(k) = InWindow(log[k], k, now)
          /\ Cardinality(Filter(k)) \in Nat
      BY FilterIsWindow
    <3>2. Max[k] \in Nat
      BY RateLimitAssumption DEF RateLimitAssumption
    <3>3. SRequest(k)
      BY <2>3, <3>1, <3>2 DEF Check, SRequest, Allows
    <3>4. QED
      BY <3>3 DEF SNext
  <2>4. CASE UNCHANGED rvars
    BY <2>4 DEF rvars, svars
  <2>5. QED
    BY <2>1, <2>2, <2>3, <2>4 DEF RNext
<1>3. QED
  BY <1>1, <1>2, LimiterInvariance, PTL DEF RSpec, SlidingWindowSpec, SSpec

-----------------------------------------------------------------------------
(* Retry-After.                                                            *)

\* A nonempty set of natural numbers has a least element.
LEMMA Least ==
  ASSUME NEW T, T \subseteq Nat, T # {}
  PROVE  \E x \in T : \A y \in T : x <= y
<1>1. PICK x \in T : \A y \in T : ~(<<y, x>> \in OpToRel(<, Nat))
  BY NatLessThanWellFounded, WFMin
<1>2. \A y \in T : ~(y < x)
  BY <1>1 DEF OpToRel
<1>3. QED
  BY <1>2

\* Rounding up to a multiple of n.
LEMMA RoundUp ==
  ASSUME NEW a \in Nat, NEW b \in Nat, NEW n \in Nat \ {0}
  PROVE  /\ (a + n - 1) \div n \in Nat
         /\ b + ((a + n - 1) \div n - b \div n) * n >= a
<1>1. /\ (a + n - 1) \div n \in Nat /\ b \div n \in Nat
      /\ ((a + n - 1) \div n) * n + n > a + n - 1
      /\ (b \div n) * n <= b
  OBVIOUS
<1>2. QED
  BY <1>1

\* Each retry time is explained by an allowed request that has left the window by then
\* and that at most Max[k] requests, itself included, are not older than.
Since(k, h) == {g \in log[k] : g.at >= h.at}

RetryReason ==
  /\ told \in [Clients -> SUBSET Nat]
  /\ \A k \in Clients : \A t \in told[k] :
       \E h \in log[k] : h.at + Window[k] <= t /\ Cardinality(Since(k, h)) <= Max[k]

\* Who is refused is told when the oldest hit of a full window leaves it.
LEMMA RefusalReason ==
  ASSUME RInv, NEW k \in Clients, ~Allows(k, Filter(k)),
         NEW t, t = RetryAt(Expiry(Filter(k), k, now))
  PROVE  /\ t \in Nat
         /\ \E h \in log[k] : h.at + Window[k] <= t /\ Cardinality(Since(k, h)) <= Max[k]
<1> DEFINE recent == Filter(k)
           times  == {h.at : h \in recent}
           oldest == CHOOSE a \in times : \A h \in recent : a <= h.at
<1> USE RateLimitAssumption DEF RateLimitAssumption, RInv, Typed, Hit
<1>1. /\ recent = InWindow(log[k], k, now) /\ recent \subseteq log[k]
      /\ Cardinality(recent) \in Nat /\ IsFiniteSet(recent)
  BY FilterIsWindow DEF InWindow
<1>2. recent # {}
  BY <1>1, FS_EmptySet DEF Allows
<1>3. times \subseteq Nat /\ times # {}
  BY <1>1, <1>2
<1>4. \E a \in times : \A h \in recent : a <= h.at
  <2>1. PICK a \in times : \A b \in times : a <= b
    BY <1>3, Least
  <2>2. \A h \in recent : h.at \in times
    OBVIOUS
  <2>3. QED
    BY <2>1, <2>2
<1>5. oldest \in times /\ \A h \in recent : oldest <= h.at
  BY <1>4
<1>6. PICK h \in recent : h.at = oldest
  BY <1>5
<1>7. Since(k, h) = recent
  <2>1. Window[k] \in Nat /\ now \in Nat /\ \A g \in log[k] : g.at \in Nat /\ g.at <= now
    BY DEF NothingRecentLost
  <2>2. h.at > now - Window[k]
    BY <1>1, <1>6 DEF InWindow
  <2>3. recent \subseteq Since(k, h)
    BY <1>1, <1>5, <1>6 DEF Since
  <2>4. ASSUME NEW g \in log[k], g.at >= h.at PROVE g \in recent
    <3>1. h.at \in Nat
      BY <1>3, <1>5, <1>6
    <3>2. now - Window[k] < g.at /\ g.at <= now
      BY <2>1, <2>2, <2>4, <3>1
    <3>3. QED
      BY <1>1, <3>2 DEF InWindow
  <2>5. QED
    BY <2>3, <2>4 DEF Since
<1>8. Cardinality(Since(k, h)) <= Max[k]
  BY <1>1, <1>7 DEF WindowCap
<1>9. Expiry(recent, k, now) = (oldest + Window[k] + Second - 1) \div Second
  BY <1>2 DEF Expiry
<1>10. t \in Int /\ t >= oldest + Window[k]
  <2>0. oldest \in Nat
    <3> HIDE DEF times, oldest
    <3>1. QED
      BY <1>3, <1>5
  <2>1. oldest \in Nat /\ Window[k] \in Nat /\ now \in Nat /\ Second \in Nat \ {0}
    <3> HIDE DEF oldest
    <3>1. QED
      BY <2>0
  <2> DEFINE leaves == oldest + Window[k]
  <2>2. leaves \in Nat
    BY <2>1
  <2>3. /\ (leaves + Second - 1) \div Second \in Nat
        /\ now + ((leaves + Second - 1) \div Second - now \div Second) * Second >= leaves
    <3> HIDE DEF leaves
    <3>1. QED
      BY <2>1, <2>2, RoundUp
  <2>4. t = now + ((leaves + Second - 1) \div Second - now \div Second) * Second
    BY <1>9 DEF RetryAt
  <2>5. (leaves + Second - 1) \div Second \in Int /\ now \div Second \in Int
    BY <2>1, <2>3
  <2>6. t \in Int
    BY <2>1, <2>4, <2>5
  <2>7. QED
    BY <2>3, <2>4, <2>6
<1>11. t \in Nat
  <2>1. oldest \in Nat
    <3> HIDE DEF times, oldest
    <3>1. QED
      BY <1>3, <1>5
  <2>2. Window[k] \in Nat
    OBVIOUS
  <2> HIDE DEF oldest
  <2>3. QED
    BY <1>10, <2>1, <2>2
<1>12. h \in log[k] /\ h.at + Window[k] <= t
  <2>1. h \in log[k]
    BY <1>1
  <2> HIDE DEF oldest, recent
  <2>2. QED
    BY <1>6, <1>10, <2>1
<1>13. QED
  BY <1>8, <1>11, <1>12

\* Every refusal that was told has kept its reason until its time is over.
THEOREM RetryReasons == RSpec => []RetryReason
<1>1. RInit => RetryReason
  BY DEF RInit, RetryReason
<1>2. RInv /\ RetryReason /\ [RNext]_rvars => RetryReason'
  <2> SUFFICES ASSUME RInv, RetryReason, [RNext]_rvars PROVE RetryReason'
    OBVIOUS
  <2>1. CASE UNCHANGED <<log, told>>
    BY <2>1 DEF RetryReason, Since
  <2>2. ASSUME NEW k \in Clients, Check(k) PROVE RetryReason'
    <3>1. CASE Allows(k, Filter(k))
      <4>1. told' = [told EXCEPT ![k] = {}] /\ \A c \in Clients : c # k => log'[c] = log[c]
        BY <2>2, <3>1 DEF Check, RInv, Typed
      <4>2. told' \in [Clients -> SUBSET Nat]
        BY <4>1 DEF RetryReason
      <4>3. ASSUME NEW c \in Clients, NEW t \in told'[c]
            PROVE  \E h \in log'[c] : h.at + Window[c] <= t /\ Cardinality(Since(c, h)') <= Max[c]
        <5>1. c # k /\ t \in told[c] /\ log'[c] = log[c]
          BY <4>1 DEF RetryReason
        <5>2. QED
          BY <5>1 DEF RetryReason, Since
      <4>4. QED
        BY <4>2, <4>3 DEF RetryReason
    <3>2. CASE ~Allows(k, Filter(k))
      <4>1. /\ told' = [told EXCEPT ![k] = @ \cup {RetryAt(Expiry(Filter(k), k, now))}]
            /\ log' = log
        BY <2>2, <3>2 DEF Check
      <4> DEFINE new == RetryAt(Expiry(Filter(k), k, now))
      <4>2. /\ new \in Nat
            /\ \E h \in log[k] : h.at + Window[k] <= new /\ Cardinality(Since(k, h)) <= Max[k]
        BY <3>2, RefusalReason
      <4>3. told' = [told EXCEPT ![k] = @ \cup {new}]
        BY <4>1
      <4> HIDE DEF new
      <4>4. told' \in [Clients -> SUBSET Nat]
        BY <4>2, <4>3 DEF RetryReason
      <4>5. ASSUME NEW c \in Clients, NEW t \in told'[c]
            PROVE  \E h \in log[c] : h.at + Window[c] <= t /\ Cardinality(Since(c, h)) <= Max[c]
        <5>1. t \in told[c] \/ (c = k /\ t = new)
          BY <4>3 DEF RetryReason
        <5>2. QED
          BY <4>2, <5>1 DEF RetryReason
      <4>6. QED
        BY <4>1, <4>4, <4>5 DEF RetryReason, Since
    <3>3. QED
      BY <3>1, <3>2
  <2>3. QED
    BY <2>1, <2>2 DEF RNext, Tick, STick, Sweep, rvars
<1>3. QED
  BY <1>1, <1>2, LimiterInvariance, PTL DEF RSpec

\* A client that waits for as long as Retry-After says finds a free slot, unless it was
\* allowed a request in between: the rounding never sends it back too early.
THEOREM RetrySafe == RSpec => []RetryHonoured
<1>1. RInv /\ RetryReason => RetryHonoured
  <2> SUFFICES ASSUME RInv, RetryReason, NEW k \in Clients, NEW t \in told[k], now >= t
               PROVE  Cardinality(Filter(k)) < Max[k]
    BY DEF RetryHonoured, Allows
  <2> USE RateLimitAssumption DEF RateLimitAssumption, RInv, Typed, Hit
  <2>1. PICK h \in log[k] : h.at + Window[k] <= t /\ Cardinality(Since(k, h)) <= Max[k]
    BY DEF RetryReason
  <2>2. t \in Nat
    BY DEF RetryReason
  <2>3. /\ Filter(k) = InWindow(log[k], k, now)
        /\ IsFiniteSet(Filter(k)) /\ IsFiniteSet(log[k])
    BY FilterIsWindow DEF NothingRecentLost
  <2>4. Filter(k) \cup {h} \subseteq Since(k, h) /\ h \notin Filter(k)
    BY <2>1, <2>2, <2>3 DEF InWindow, Since
  <2>5. /\ Cardinality(Filter(k) \cup {h}) = Cardinality(Filter(k)) + 1
        /\ Cardinality(Filter(k)) \in Nat
    BY <2>3, <2>4, FS_AddElement, FS_CardinalityType
  <2>6. /\ Cardinality(Filter(k) \cup {h}) <= Cardinality(Since(k, h))
        /\ Cardinality(Since(k, h)) \in Nat
    <3>1. IsFiniteSet(Since(k, h))
      BY <2>3, Part DEF Since
    <3>2. QED
      BY <2>4, <3>1, Part
  <2>7. QED
    BY <2>1, <2>5, <2>6
<1>2. QED
  BY <1>1, LimiterInvariance, RetryReasons, PTL

\* Every variable keeps its type.
THEOREM LimiterTyped == RSpec => []RTypeOK
<1>1. RInv /\ RetryReason => RTypeOK
  BY DEF RInv, Typed, RetryReason, RTypeOK
<1>2. QED
  BY <1>1, LimiterInvariance, RetryReasons, PTL
=============================================================================
