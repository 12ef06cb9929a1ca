----------------------------- MODULE AuthProofs -----------------------------
(***************************************************************************)
(* Sessions and roles, for any number of users, requests that interleave,  *)
(* tokens and role changes.                                                *)
(***************************************************************************)
EXTENDS AuthService, FiniteSetTheorems, TLAPS

\* What a request relies on between its statements: the role it read is that
\* of its user or older, the rows it updates are sessions of its user, and the
\* statement of Login has found every session that came before the request.
RequestSound(r) ==
  /\ req[r].began <= version[req[r].user]
  /\ \A t \in req[r].rows : t \in Issued /\ tokens[t].user = req[r].user
  /\ req[r].pc \in {"login", "revoking", "issue", "rotate", "reload", "reissue"}
       => UserExists(req[r].user)
  /\ req[r].pc \in {"login", "revoking", "issue", "reissue"}
       => \/ req[r].role = users[req[r].user]
          \/ req[r].began < version[req[r].user]
  /\ req[r].pc \in {"login", "revoking", "issue"}
       => \A t \in 1 .. req[r].seen : t \in Issued
  /\ req[r].pc \in {"revoking", "issue"}
       => \A t \in Issued : t <= req[r].seen /\ tokens[t].user = req[r].user
                              => tokens[t].ended \/ t \in req[r].rows

\* Access tokens and refresh tokens belong to users that exist, and no access
\* token comes from the future.
TokensSound ==
  /\ UserExists(DefaultUser)
  /\ \A t \in Issued : UserExists(tokens[t].user)
  /\ \A a \in access : UserExists(a.user) /\ a.began <= version[a.user]

AuthInv ==
  /\ AuthTypeOK
  /\ TokensSound
  /\ OutdatedRolesAreOld
  /\ \A r \in Requests : RequestSound(r)

\* What every step does to the tables: rows of tokens stay with their user and
\* stay ended, users stay, and a role that changes gets a new version.
TablesGrow ==
  /\ \A t \in Issued : /\ tokens'[t].user = tokens[t].user
                       /\ tokens[t].ended => tokens'[t].ended
  /\ \A u \in Users :
       /\ version[u] <= version'[u]
       /\ UserExists(u) => /\ users'[u] # "none"
                           /\ users'[u] = users[u] \/ version[u] < version'[u]

-----------------------------------------------------------------------------
(* Facts about the operators.                                               *)

\* An issued token has a user, the others have none.
LEMMA IssuedTokens ==
  ASSUME AuthTypeOK, NEW t \in TokenIds
  PROVE  /\ t \in Issued <=> tokens[t].user \in Users
         /\ t \in Issued <=> tokens[t] \in Token
         /\ t \notin Issued <=> tokens[t] = Unissued
  BY AuthAssumption DEF AuthTypeOK, Issued, Token, Unissued

\* A row of the table.
LEMMA TokenRow ==
  ASSUME NEW u \in Users, NEW b \in BOOLEAN
  PROVE  /\ [user |-> u, ended |-> b] \in Token
         /\ [user |-> u, ended |-> b].user = u
  BY DEF Token

\* Tokens are numbered without gaps: as many as there are, so many first ones
\* are issued.
LEMMA IssuedPrefix ==
  ASSUME AuthTypeOK
  PROVE  /\ Cardinality(Issued) \in 0 .. MaxTokens
         /\ \A t \in 1 .. Cardinality(Issued) : t \in Issued
<1>1. IsFiniteSet(TokenIds) /\ Cardinality(TokenIds) = MaxTokens
  BY FS_Interval, AuthAssumption DEF TokenIds
<1>2. Issued \subseteq TokenIds
  BY DEF Issued
<1>3. IsFiniteSet(Issued) /\ Cardinality(Issued) \in Nat /\ Cardinality(Issued) <= MaxTokens
  BY <1>1, <1>2, FS_Subset, FS_CardinalityType
<1>4. ASSUME NEW t \in 1 .. Cardinality(Issued), t \notin Issued PROVE FALSE
  <2>1. Issued \subseteq 1 .. (t - 1)
    <3> SUFFICES ASSUME NEW s \in Issued PROVE s < t
      BY <1>2, <1>3, AuthAssumption DEF TokenIds
    <3>1. s \in Int /\ t \in Int /\ t >= 1 /\ s >= 1
      BY <1>2, <1>3, AuthAssumption DEF TokenIds
    <3>2. ~(t \in 1 .. s)
      BY <1>4 DEF AuthTypeOK
    <3>3. QED
      BY <3>1, <3>2
  <2>2. IsFiniteSet(1 .. (t - 1)) /\ Cardinality(1 .. (t - 1)) = t - 1
    <3>1. t - 1 \in Int /\ t >= 1 /\ t \in Int
      BY <1>3
    <3>2. /\ IsFiniteSet(1 .. (t - 1))
          /\ Cardinality(1 .. (t - 1)) = IF 1 > t - 1 THEN 0 ELSE (t - 1) - 1 + 1
      BY <3>1, FS_Interval
    <3>3. QED
      BY <3>1, <3>2
  <2>3. Cardinality(Issued) <= t - 1
    BY <2>1, <2>2, FS_Subset
  <2>4. QED
    BY <1>3, <2>3
<1>5. QED
  BY <1>3, <1>4, AuthAssumption

-----------------------------------------------------------------------------
(* The invariant.                                                           *)

LEMMA AuthInitOK == AuthInit => AuthInv
<1> SUFFICES ASSUME AuthInit PROVE AuthInv
  OBVIOUS
<1>1. Issued = {}
  BY DEF AuthInit, Issued, Unissued
<1>2. IdleRequest \in RequestState
  BY AuthAssumption DEF IdleRequest, RequestState, Roles
<1>3. AuthTypeOK
  BY <1>1, <1>2, AuthAssumption DEF AuthInit, AuthTypeOK, Roles
<1>4. TokensSound /\ OutdatedRolesAreOld
  BY <1>1, AuthAssumption DEF AuthInit, TokensSound, OutdatedRolesAreOld, UserExists
<1>5. ASSUME NEW r \in Requests PROVE RequestSound(r)
  BY <1>1, AuthAssumption DEF AuthInit, RequestSound, IdleRequest
<1>6. QED
  BY <1>3, <1>4, <1>5 DEF AuthInv

\* A request that a step leaves alone still has what it relies on.
LEMMA OthersSound ==
  ASSUME AuthInv, AuthTypeOK', TablesGrow, NEW r \in Requests, req'[r] = req[r]
  PROVE  RequestSound(r)'
<1>1. /\ AuthTypeOK /\ RequestSound(r)
      /\ req[r] \in RequestState
  BY DEF AuthInv, AuthTypeOK
<1>2. /\ req[r].user \in Users /\ req[r].began \in Nat /\ req[r].seen \in 0 .. MaxTokens
      /\ req[r].rows \subseteq TokenIds
  BY <1>1 DEF RequestState
<1>3. version[req[r].user] \in Nat /\ version'[req[r].user] \in Nat
  BY <1>1, <1>2 DEF AuthTypeOK
<1>4. \A t \in Issued : t \in Issued' /\ tokens'[t].user = tokens[t].user
  BY DEF TablesGrow, Issued
<1>5. \A t \in TokenIds : t \in Issued' /\ t \notin Issued =>
        ((\A s \in 1 .. req[r].seen : s \in Issued) => t > req[r].seen)
  BY <1>2, AuthAssumption DEF TokenIds
<1>6. Issued' \subseteq TokenIds
  BY DEF Issued
<1>7. /\ version[req[r].user] <= version'[req[r].user]
      /\ UserExists(req[r].user) =>
           /\ users'[req[r].user] # "none"
           /\ users'[req[r].user] = users[req[r].user] \/ version[req[r].user] < version'[req[r].user]
  BY <1>2 DEF TablesGrow, UserExists
<1>8. req'[r].began <= version'[req'[r].user]
  BY <1>1, <1>2, <1>3, <1>7 DEF RequestSound
<1>9. \A t \in req'[r].rows : t \in Issued' /\ tokens'[t].user = req'[r].user
  BY <1>1, <1>4 DEF RequestSound
<1>10. req'[r].pc \in {"login", "revoking", "issue", "rotate", "reload", "reissue"}
         => users'[req'[r].user] # "none"
  BY <1>1, <1>7 DEF RequestSound
<1>11. req'[r].pc \in {"login", "revoking", "issue", "reissue"}
         => req'[r].role = users'[req'[r].user] \/ req'[r].began < version'[req'[r].user]
  BY <1>1, <1>2, <1>3, <1>7 DEF RequestSound
<1>12. req'[r].pc \in {"login", "revoking", "issue"} => \A t \in 1 .. req'[r].seen : t \in Issued'
  BY <1>1, <1>4 DEF RequestSound
<1>13. req'[r].pc \in {"revoking", "issue"}
         => \A t \in Issued' : t <= req'[r].seen /\ tokens'[t].user = req'[r].user
                                 => tokens'[t].ended \/ t \in req'[r].rows
  <2> SUFFICES ASSUME req[r].pc \in {"revoking", "issue"}, NEW t \in Issued',
                      t <= req[r].seen, tokens'[t].user = req[r].user
               PROVE  tokens'[t].ended \/ t \in req[r].rows
    OBVIOUS
  <2>1. t \in Issued
    BY <1>1, <1>2, <1>5, <1>6, AuthAssumption DEF RequestSound, TokenIds
  <2>2. QED
    BY <1>1, <2>1 DEF RequestSound, TablesGrow
<1>14. QED
  BY <1>8, <1>9, <1>10, <1>11, <1>12, <1>13 DEF RequestSound, UserExists

\* What the tables' growth means for the tokens that were there before.
LEMMA TokensStaySound ==
  ASSUME AuthInv, AuthTypeOK', TablesGrow
  PROVE  /\ UserExists(DefaultUser)'
         /\ \A t \in Issued : users'[tokens'[t].user] # "none"
         /\ \A a \in access : /\ UserExists(a.user)'
                              /\ a.began <= version'[a.user]
                              /\ a.role # users'[a.user] => a.began < version'[a.user]
<1>1. AuthTypeOK /\ TokensSound /\ OutdatedRolesAreOld
  BY DEF AuthInv
<1>2. UserExists(DefaultUser)'
  BY <1>1, AuthAssumption DEF TokensSound, TablesGrow, UserExists
<1>3. ASSUME NEW t \in Issued PROVE users'[tokens'[t].user] # "none"
  <2>1. t \in TokenIds /\ tokens[t].user \in Users
    BY <1>1, IssuedTokens DEF Issued
  <2>2. users[tokens[t].user] # "none"
    BY <1>1 DEF TokensSound, UserExists
  <2>3. tokens'[t].user = tokens[t].user
    BY DEF TablesGrow
  <2>4. QED
    BY <2>1, <2>2, <2>3 DEF TablesGrow, UserExists
<1>4. ASSUME NEW a \in access
      PROVE  /\ UserExists(a.user)'
             /\ a.began <= version'[a.user]
             /\ a.role # users'[a.user] => a.began < version'[a.user]
  <2>1. a.user \in Users /\ a.began \in Nat /\ version[a.user] \in Nat /\ version'[a.user] \in Nat
    BY <1>1, <1>4 DEF AuthTypeOK, Access
  <2>2. /\ UserExists(a.user) /\ a.began <= version[a.user]
        /\ a.role # users[a.user] => a.began < version[a.user]
    BY <1>1, <1>4 DEF TokensSound, OutdatedRolesAreOld
  <2>3. /\ version[a.user] <= version'[a.user] /\ users'[a.user] # "none"
        /\ users'[a.user] = users[a.user] \/ version[a.user] < version'[a.user]
    BY <2>1, <2>2 DEF TablesGrow
  <2>4. QED
    BY <2>1, <2>2, <2>3 DEF UserExists
<1>5. QED
  BY <1>2, <1>3, <1>4

\* A step that issues nothing keeps the invariant, if its request has what it
\* relies on afterwards.
LEMMA StepWithoutIssue ==
  ASSUME AuthInv, AuthTypeOK', TablesGrow, Issued' = Issued, access' = access,
         \A r \in Requests : req'[r] = req[r] \/ RequestSound(r)'
  PROVE  AuthInv'
<1>1. \A r \in Requests : RequestSound(r)'
  BY OthersSound
<1>2. TokensSound'
  BY TokensStaySound DEF TokensSound, UserExists
<1>3. OutdatedRolesAreOld'
  BY TokensStaySound DEF OutdatedRolesAreOld
<1>4. QED
  BY <1>1, <1>2, <1>3 DEF AuthInv

\* A statement of one request that changes no table.
LEMMA RequestStep ==
  ASSUME AuthInv, NEW r \in Requests, NEW new \in RequestState,
         req' = [req EXCEPT ![r] = new],
         UNCHANGED <<users, version, roleChanges, tokens, access>>,
         RequestSound(r)'
  PROVE  AuthInv'
<1>1. AuthTypeOK
  BY DEF AuthInv
<1>2. Issued' = Issued
  BY DEF Issued
<1>3. AuthTypeOK'
  BY <1>1, <1>2 DEF AuthTypeOK
<1>4. TablesGrow
  BY <1>1 DEF AuthTypeOK, TablesGrow, UserExists
<1>5. \A q \in Requests : req'[q] = req[q] \/ RequestSound(q)'
  BY <1>1 DEF AuthTypeOK
<1>6. QED
  BY <1>2, <1>3, <1>4, <1>5, StepWithoutIssue

\* A request that ends without having stored anything.
LEMMA RequestEnds ==
  ASSUME AuthInv, NEW r \in Requests,
         req' = [req EXCEPT ![r] = IdleRequest],
         UNCHANGED <<users, version, roleChanges, tokens, access>>
  PROVE  AuthInv'
<1>1. IdleRequest \in RequestState
  BY AuthAssumption DEF IdleRequest, RequestState, Roles
<1>2. req'[r] = IdleRequest /\ version'[DefaultUser] \in Nat
  BY AuthAssumption DEF AuthInv, AuthTypeOK
<1>3. RequestSound(r)'
  BY <1>2 DEF RequestSound, IdleRequest
<1>4. QED
  BY <1>1, <1>3, RequestStep

\* What generateTokens does to the table: the new row is the next one, and all
\* other rows are as they were or revoked.
LEMMA GeneratedTable ==
  ASSUME AuthInv, NEW r \in Requests, NEW u \in Users, NEW role \in Roles,
         NEW rows \in SUBSET Issued,
         NEW new \in TokenIds \ Issued, \A t \in TokenIds \ Issued : new <= t,
         tokens' = CreateToken(Revoked(tokens, rows), new, u)
  PROVE  /\ tokens' \in [TokenIds -> Token \cup {Unissued}]
         /\ Issued' = Issued \cup {new}
         /\ tokens'[new] = [user |-> u, ended |-> FALSE]
         /\ \A t \in TokenIds \ {new} :
              /\ t \in rows => tokens'[t] = [user |-> tokens[t].user, ended |-> TRUE]
              /\ t \notin rows => tokens'[t] = tokens[t]
         /\ \A t \in Issued' : \A s \in 1 .. t : s \in Issued'
<1>1. AuthTypeOK
  BY DEF AuthInv
<1>2. tokens'[new] = [user |-> u, ended |-> FALSE]
  BY DEF CreateToken, Revoked
<1>3. ASSUME NEW t \in TokenIds \ {new}
      PROVE  /\ t \in rows => tokens'[t] = [user |-> tokens[t].user, ended |-> TRUE]
             /\ t \notin rows => tokens'[t] = tokens[t]
  <2>1. CASE t \in rows
    <3>1. tokens[t] \in Token
      BY <1>1, <2>1, IssuedTokens
    <3>2. tokens'[t] = [tokens[t] EXCEPT !.ended = TRUE]
      BY <1>3, <2>1 DEF CreateToken, Revoked
    <3>3. QED
      BY <2>1, <3>1, <3>2 DEF Token
  <2>2. CASE t \notin rows
    BY <1>3, <2>2 DEF CreateToken, Revoked
  <2>3. QED
    BY <2>1, <2>2
<1>4. DOMAIN tokens' = TokenIds /\ tokens' = [t \in TokenIds |-> tokens'[t]]
  BY DEF CreateToken, Revoked
<1>5. \A t \in TokenIds : tokens'[t] \in Token \cup {Unissued}
  <2> SUFFICES ASSUME NEW t \in TokenIds PROVE tokens'[t] \in Token \cup {Unissued}
    OBVIOUS
  <2>1. CASE t = new
    BY <1>2, <2>1, TokenRow
  <2>2. CASE t # new /\ t \in rows
    <3>1. tokens[t].user \in Users
      BY <1>1, <2>2, IssuedTokens
    <3>2. QED
      BY <1>3, <2>2, <3>1, TokenRow
  <2>3. CASE t # new /\ t \notin rows
    BY <1>1, <1>3, <2>3 DEF AuthTypeOK
  <2>4. QED
    BY <2>1, <2>2, <2>3
<1>6. Issued' = Issued \cup {new}
  <2>1. ASSUME NEW t \in TokenIds PROVE tokens'[t].user # "none" <=> t \in Issued \cup {new}
    <3>1. CASE t = new
      BY <1>2, <3>1, AuthAssumption
    <3>2. CASE t # new
      <4>1. tokens'[t].user = tokens[t].user
        <5>1. CASE t \in rows
          <6>1. tokens[t].user \in Users
            BY <1>1, <5>1, IssuedTokens
          <6>2. QED
            BY <1>3, <3>2, <5>1, <6>1, TokenRow
        <5>2. CASE t \notin rows
          BY <1>3, <3>2, <5>2
        <5>3. QED
          BY <5>1, <5>2
      <4>2. QED
        BY <3>2, <4>1 DEF Issued
    <3>3. QED
      BY <3>1, <3>2
  <2>2. QED
    BY <2>1 DEF Issued
<1>7. \A t \in Issued' : \A s \in 1 .. t : s \in Issued'
  <2> SUFFICES ASSUME NEW t \in Issued', NEW s \in 1 .. t PROVE s \in Issued'
    OBVIOUS
  <2>1. t \in TokenIds /\ s \in TokenIds /\ s <= t
    BY AuthAssumption DEF Issued, TokenIds
  <2>2. CASE t \in Issued
    BY <1>1, <1>6, <2>2 DEF AuthTypeOK
  <2>3. CASE t = new
    BY <1>6, <2>1, <2>3, AuthAssumption DEF TokenIds
  <2>4. QED
    BY <1>6, <2>2, <2>3
<1>8. QED
  BY <1>2, <1>3, <1>4, <1>5, <1>6, <1>7

\* The commit of Register, Login and Refresh.
LEMMA IssueStep ==
  ASSUME AuthInv, NEW r \in Requests, NEW u \in Users, NEW role \in Roles,
         NEW rows \in SUBSET Issued,
         GenerateTokens(r, u, role, rows),
         users' \in [Users -> Roles \cup {"none"}], users'[u] # "none",
         \A v \in Users : UserExists(v) => users'[v] = users[v],
         UNCHANGED <<version, roleChanges>>,
         req[r].began <= version[u],
         role = users'[u] \/ req[r].began < version[u]
  PROVE  AuthInv'
<1>1. AuthTypeOK
  BY DEF AuthInv
<1>2. PICK new \in TokenIds \ Issued :
        /\ \A t \in TokenIds \ Issued : new <= t
        /\ tokens' = CreateToken(Revoked(tokens, rows), new, u)
        /\ access' = access \cup {SignAccessToken(u, role, req[r].began)}
        /\ req' = [req EXCEPT ![r] = IdleRequest]
  BY DEF GenerateTokens
<1>3. /\ tokens' \in [TokenIds -> Token \cup {Unissued}]
      /\ Issued' = Issued \cup {new}
      /\ tokens'[new] = [user |-> u, ended |-> FALSE]
      /\ \A t \in TokenIds \ {new} :
           /\ t \in rows => tokens'[t] = [user |-> tokens[t].user, ended |-> TRUE]
           /\ t \notin rows => tokens'[t] = tokens[t]
      /\ \A t \in Issued' : \A s \in 1 .. t : s \in Issued'
  BY <1>2, GeneratedTable
<1>4. IdleRequest \in RequestState /\ req[r].began \in Nat
  BY <1>1, AuthAssumption DEF AuthTypeOK, IdleRequest, RequestState, Roles
<1>5. AuthTypeOK'
  <2>1. access' \in SUBSET Access
    BY <1>1, <1>2, <1>4 DEF AuthTypeOK, Access, SignAccessToken
  <2>2. req' \in [Requests -> RequestState]
    BY <1>1, <1>2, <1>4 DEF AuthTypeOK
  <2>3. QED
    BY <1>1, <1>3, <2>1, <2>2 DEF AuthTypeOK
<1>6. Issued \subseteq TokenIds
  BY DEF Issued
<1>7. TablesGrow
  BY <1>1, <1>2, <1>3, <1>6 DEF TablesGrow, AuthTypeOK, UserExists
<1>8. \A q \in Requests : RequestSound(q)'
  <2>1. RequestSound(r)'
    <3>1. req'[r] = IdleRequest /\ version'[DefaultUser] \in Nat
      BY <1>1, <1>2, <1>5, AuthAssumption DEF AuthTypeOK
    <3>2. QED
      BY <3>1 DEF RequestSound, IdleRequest
  <2>2. \A q \in Requests \ {r} : req'[q] = req[q]
    BY <1>1, <1>2 DEF AuthTypeOK
  <2>3. QED
    BY <1>5, <1>7, <2>1, <2>2, OthersSound
<1>9. TokensSound' /\ OutdatedRolesAreOld'
  <2>1. \A t \in Issued' : users'[tokens'[t].user] # "none"
    BY <1>3, <1>5, <1>7, TokensStaySound
  <2> DEFINE a == [user |-> u, role |-> role, began |-> req[r].began]
  <2>2. access' = access \cup {a}
    BY <1>2 DEF SignAccessToken
  <2>3. version' = version /\ version[u] \in Nat
    BY <1>1 DEF AuthTypeOK
  <2>4. /\ users'[a.user] # "none"
        /\ a.began <= version'[a.user]
        /\ a.role # users'[a.user] => a.began < version'[a.user]
    BY <2>3
  <2>5. QED
    BY <1>5, <1>7, <2>1, <2>2, <2>4, TokensStaySound DEF TokensSound, OutdatedRolesAreOld, UserExists
<1>10. QED
  BY <1>5, <1>8, <1>9 DEF AuthInv

\* Revoking or expiry of tokens outside of a request.
LEMMA EndStep ==
  ASSUME AuthInv, NEW rows \in SUBSET Issued,
         tokens' = Revoked(tokens, rows),
         UNCHANGED <<users, version, roleChanges, access, req>>
  PROVE  AuthInv'
<1>1. AuthTypeOK
  BY DEF AuthInv
<1>2. \A t \in rows : tokens[t] \in Token
  BY <1>1, IssuedTokens DEF Issued
<1>3. ASSUME NEW t \in TokenIds
      PROVE  /\ tokens'[t] \in Token \cup {Unissued}
             /\ tokens'[t].user = tokens[t].user
             /\ tokens[t].ended => tokens'[t].ended
  <2>1. CASE t \in rows
    <3>1. tokens'[t] = [tokens[t] EXCEPT !.ended = TRUE] /\ tokens[t] \in Token
      BY <1>2, <2>1 DEF Revoked
    <3>2. QED
      BY <3>1 DEF Token
  <2>2. CASE t \notin rows
    BY <1>1, <2>2 DEF Revoked, AuthTypeOK
  <2>3. QED
    BY <2>1, <2>2
<1>4. Issued' = Issued
  BY <1>3 DEF Issued
<1>5. tokens' \in [TokenIds -> Token \cup {Unissued}]
  BY <1>3 DEF Revoked
<1>6. AuthTypeOK'
  BY <1>1, <1>4, <1>5 DEF AuthTypeOK
<1>7. TablesGrow
  BY <1>1, <1>3 DEF TablesGrow, AuthTypeOK, UserExists, Issued
<1>8. QED
  BY <1>4, <1>6, <1>7, StepWithoutIssue

\* A role changes, or is written over with itself.
LEMMA RoleStep ==
  ASSUME AuthInv, NEW u \in Users, UserExists(u), NEW role \in Roles,
         UpdateRole(u, role), UNCHANGED <<tokens, access>>,
         roleChanges' \in 0 .. MaxRoleChanges,
         req' \in [Requests -> RequestState],
         \A r \in Requests : req'[r] = req[r] \/ req'[r] = IdleRequest
  PROVE  AuthInv'
<1>1. AuthTypeOK
  BY DEF AuthInv
<1>2. Issued' = Issued
  BY DEF Issued
<1>3. /\ users' = [users EXCEPT ![u] = role]
      /\ version' = [version EXCEPT ![u] = IF users[u] = role THEN version[u] ELSE version[u] + 1]
      /\ version[u] \in Nat
  BY <1>1 DEF UpdateRole, AuthTypeOK
<1>4. users' \in [Users -> Roles \cup {"none"}] /\ version' \in [Users -> Nat]
  BY <1>1, <1>3 DEF AuthTypeOK
<1>5. AuthTypeOK'
  BY <1>1, <1>2, <1>4 DEF AuthTypeOK
<1>6. "none" \notin Roles
  BY DEF Roles
<1>7. TablesGrow
  BY <1>1, <1>3, <1>6 DEF TablesGrow, AuthTypeOK, UserExists
<1>8. ASSUME NEW r \in Requests PROVE req'[r] = req[r] \/ RequestSound(r)'
  <2>1. CASE req'[r] = IdleRequest
    <3>1. version'[DefaultUser] \in Nat
      BY <1>4, AuthAssumption
    <3>2. QED
      BY <2>1, <3>1 DEF RequestSound, IdleRequest
  <2>2. QED
    BY <2>1
<1>9. QED
  BY <1>2, <1>5, <1>7, <1>8, StepWithoutIssue

\* Every step keeps the invariant.
LEMMA AuthInvStep == AuthInv /\ [AuthNext]_authVars => AuthInv'
<1> SUFFICES ASSUME AuthInv, [AuthNext]_authVars PROVE AuthInv'
  OBVIOUS
<1>0. /\ AuthTypeOK /\ TokensSound
      /\ \A r \in Requests : RequestSound(r) /\ req[r] \in RequestState
      /\ \A u \in Users : version[u] \in Nat /\ (UserExists(u) => users[u] \in Roles)
      /\ IdleRequest \in RequestState
  BY AuthAssumption DEF AuthInv, AuthTypeOK, UserExists, IdleRequest, RequestState, Roles
<1>1. ASSUME NEW r \in Requests, NEW u \in Users, RegisterStart(r, u) PROVE AuthInv'
  <2> DEFINE new == [pc |-> "create", user |-> u, role |-> "READ", rows |-> {},
                     began |-> version[u], seen |-> 0]
  <2>1. new \in RequestState /\ req' = [req EXCEPT ![r] = new]
    BY <1>0, <1>1, AuthAssumption DEF RegisterStart, Begin, RequestState, Roles
  <2>2. req'[r] = new /\ version' = version
    BY <1>0, <1>1, <2>1 DEF AuthTypeOK, RegisterStart
  <2>3. RequestSound(r)'
    BY <1>0, <2>2 DEF RequestSound
  <2>4. QED
    BY <1>1, <2>1, <2>3, RequestStep DEF RegisterStart
<1>2. ASSUME NEW r \in Requests, RegisterCommit(r) PROVE AuthInv'
  <2> DEFINE u == req[r].user
  <2>1. u \in Users /\ req[r].began <= version[u]
    BY <1>0 DEF RequestState, RequestSound
  <2>2. CASE CreateUser(u, "READ") /\ GenerateTokens(r, u, "READ", {})
    <3>1. users' = [users EXCEPT ![u] = "READ"] /\ ~UserExists(u)
      BY <2>2 DEF CreateUser
    <3>2. /\ users' \in [Users -> Roles \cup {"none"}] /\ users'[u] = "READ"
          /\ \A v \in Users : UserExists(v) => users'[v] = users[v]
      BY <1>0, <2>1, <3>1 DEF AuthTypeOK, Roles
    <3>3. "READ" \in Roles /\ {} \in SUBSET Issued
      BY DEF Roles
    <3>4. UNCHANGED <<version, roleChanges>>
      BY <1>2 DEF RegisterCommit
    <3>5. QED
      BY <2>1, <2>2, <3>2, <3>3, <3>4, IssueStep
  <2>3. CASE req' = [req EXCEPT ![r] = IdleRequest] /\ UNCHANGED <<users, tokens, access>>
    BY <1>2, <2>3, RequestEnds DEF RegisterCommit
  <2>4. QED
    BY <1>2, <2>2, <2>3 DEF RegisterCommit
<1>3. ASSUME NEW r \in Requests, NEW u \in Users, LoginStart(r, u) PROVE AuthInv'
  <2> DEFINE new == [pc |-> "login", user |-> u, role |-> users[u], rows |-> {},
                     began |-> version[u], seen |-> Cardinality(Issued)]
  <2>1. new \in RequestState /\ req' = [req EXCEPT ![r] = new]
    BY <1>0, <1>3, IssuedPrefix DEF LoginStart, Begin, GetByEmail, RequestState
  <2>2. req'[r] = new /\ version' = version /\ users' = users /\ tokens' = tokens /\ Issued' = Issued
    BY <1>0, <1>3, <2>1 DEF AuthTypeOK, LoginStart, Issued
  <2>3. \A t \in 1 .. new.seen : t \in Issued
    BY <1>0, IssuedPrefix
  <2>4. RequestSound(r)'
    BY <1>0, <1>3, <2>2, <2>3 DEF RequestSound, LoginStart, UserExists
  <2>5. QED
    BY <1>3, <2>1, <2>4, RequestStep DEF LoginStart
<1>4. ASSUME NEW r \in Requests, RevokeAllByUserID(r) PROVE AuthInv'
  <2> DEFINE rows == {t \in Issued : tokens[t].user = req[r].user /\ ~tokens[t].ended}
  <2> DEFINE new == [req[r] EXCEPT !.pc = "revoking", !.rows = rows]
  <2>1. new \in RequestState /\ req' = [req EXCEPT ![r] = new]
    BY <1>0, <1>4 DEF RevokeAllByUserID, RequestState, Issued
  <2>2. /\ req'[r] = new /\ version' = version /\ users' = users /\ tokens' = tokens /\ Issued' = Issued
    BY <1>0, <1>4, <2>1 DEF AuthTypeOK, RevokeAllByUserID, Issued
  <2>3. /\ new.pc = "revoking" /\ new.rows = rows /\ new.user = req[r].user /\ new.role = req[r].role
        /\ new.began = req[r].began /\ new.seen = req[r].seen
    BY <1>0 DEF RequestState
  <2>4. RequestSound(r) /\ req[r].pc = "login"
    BY <1>0, <1>4 DEF RevokeAllByUserID
  <2>5. RequestSound(r)'
    BY <2>2, <2>3, <2>4 DEF RequestSound, UserExists
  <2>6. QED
    BY <1>4, <2>1, <2>5, RequestStep DEF RevokeAllByUserID
<1>5. ASSUME NEW r \in Requests, RowsUpdated(r) PROVE AuthInv'
  <2> DEFINE new == [req[r] EXCEPT !.pc = "issue"]
  <2>1. new \in RequestState /\ req' = [req EXCEPT ![r] = new]
    BY <1>0, <1>5 DEF RowsUpdated, RequestState
  <2>2. req'[r] = new /\ version' = version /\ users' = users /\ tokens' = tokens /\ Issued' = Issued
    BY <1>0, <1>5, <2>1 DEF AuthTypeOK, RowsUpdated, Issued
  <2>3. /\ new.pc = "issue" /\ new.rows = req[r].rows /\ new.user = req[r].user
        /\ new.role = req[r].role /\ new.began = req[r].began /\ new.seen = req[r].seen
    BY <1>0 DEF RequestState
  <2>4. RequestSound(r) /\ req[r].pc = "revoking"
    BY <1>0, <1>5 DEF RowsUpdated
  <2>5. RequestSound(r)'
    BY <2>2, <2>3, <2>4 DEF RequestSound, UserExists
  <2>6. QED
    BY <1>5, <2>1, <2>5, RequestStep DEF RowsUpdated
<1>6. ASSUME NEW r \in Requests, NEW t \in TokenIds, RefreshStart(r, t) PROVE AuthInv'
  <2> DEFINE u == tokens[t].user
  <2> DEFINE new == [pc |-> "rotate", user |-> u, role |-> "READ", rows |-> {t},
                     began |-> version[u], seen |-> 0]
  <2>1. t \in Issued /\ u \in Users /\ UserExists(u)
    BY <1>0, <1>6, IssuedTokens DEF RefreshStart, GetByTokenHash, TokensSound
  <2>2. new \in RequestState /\ req' = [req EXCEPT ![r] = new]
    BY <1>0, <1>6, <2>1, AuthAssumption DEF RefreshStart, Begin, RequestState, Roles
  <2>3. req'[r] = new /\ version' = version /\ users' = users /\ tokens' = tokens /\ Issued' = Issued
    BY <1>0, <1>6, <2>2 DEF AuthTypeOK, RefreshStart, Issued
  <2>4. RequestSound(r)'
    BY <1>0, <2>1, <2>3 DEF RequestSound, UserExists
  <2>5. QED
    BY <1>6, <2>2, <2>4, RequestStep DEF RefreshStart
<1>7. ASSUME NEW r \in Requests, RefreshUpdate(r) PROVE AuthInv'
  <2> DEFINE new == [req[r] EXCEPT !.pc = "reload"]
  <2>1. new \in RequestState /\ req' = [req EXCEPT ![r] = new]
    BY <1>0, <1>7 DEF RefreshUpdate, RequestState
  <2>2. req'[r] = new /\ version' = version /\ users' = users /\ tokens' = tokens /\ Issued' = Issued
    BY <1>0, <1>7, <2>1 DEF AuthTypeOK, RefreshUpdate, Issued
  <2>3. /\ new.pc = "reload" /\ new.rows = req[r].rows /\ new.user = req[r].user
        /\ new.began = req[r].began
    BY <1>0 DEF RequestState
  <2>4. RequestSound(r) /\ req[r].pc = "rotate"
    BY <1>0, <1>7 DEF RefreshUpdate
  <2>5. RequestSound(r)'
    BY <2>2, <2>3, <2>4 DEF RequestSound, UserExists
  <2>6. QED
    BY <1>7, <2>1, <2>5, RequestStep DEF RefreshUpdate
<1>8. ASSUME NEW r \in Requests, RefreshReload(r) PROVE AuthInv'
  <2> DEFINE new == [req[r] EXCEPT !.pc = "reissue", !.role = users[req[r].user]]
  <2>1. RequestSound(r) /\ req[r].pc = "reload" /\ req[r].user \in Users
    BY <1>0, <1>8 DEF RefreshReload, RequestState
  <2>2. users[req[r].user] \in Roles
    BY <1>0, <2>1 DEF RequestSound
  <2>3. new \in RequestState /\ req' = [req EXCEPT ![r] = new]
    BY <1>0, <1>8, <2>2 DEF RefreshReload, GetByID, RequestState
  <2>4. req'[r] = new /\ version' = version /\ users' = users /\ tokens' = tokens /\ Issued' = Issued
    BY <1>0, <1>8, <2>3 DEF AuthTypeOK, RefreshReload, Issued
  <2>5. /\ new.pc = "reissue" /\ new.rows = req[r].rows /\ new.user = req[r].user
        /\ new.role = users[req[r].user] /\ new.began = req[r].began
    BY <1>0 DEF RequestState
  <2>6. RequestSound(r)'
    BY <2>1, <2>4, <2>5 DEF RequestSound, UserExists
  <2>7. QED
    BY <1>8, <2>3, <2>6, RequestStep DEF RefreshReload
<1>9. ASSUME NEW r \in Requests, Issue(r) PROVE AuthInv'
  <2> DEFINE u == req[r].user
  <2>1. /\ u \in Users /\ req[r].role \in Roles /\ RequestSound(r)
        /\ req[r].pc \in {"issue", "reissue"}
    BY <1>0, <1>9 DEF RequestState, Issue
  <2>2. /\ req[r].rows \in SUBSET Issued /\ UserExists(u) /\ req[r].began <= version[u]
        /\ req[r].role = users[u] \/ req[r].began < version[u]
    BY <2>1 DEF RequestSound
  <2>3. /\ GenerateTokens(r, u, req[r].role, req[r].rows)
        /\ UNCHANGED <<version, roleChanges>> /\ users' = users
    BY <1>9 DEF Issue
  <2>4. /\ users' \in [Users -> Roles \cup {"none"}] /\ users'[u] # "none"
        /\ \A v \in Users : UserExists(v) => users'[v] = users[v]
    BY <1>0, <2>2, <2>3 DEF AuthTypeOK, UserExists
  <2>5. QED
    BY <2>1, <2>2, <2>3, <2>4, IssueStep
<1>10. ASSUME NEW r \in Requests, Abort(r) PROVE AuthInv'
  BY <1>10, RequestEnds DEF Abort
<1>11. ASSUME NEW t \in TokenIds, Logout(t) PROVE AuthInv'
  <2>1. {t} \in SUBSET Issued
    BY <1>11 DEF Logout
  <2>2. QED
    BY <1>11, <2>1, EndStep DEF Logout
<1>12. ASSUME NEW a \in access, NEW u \in Users, NEW role \in GivenRoles, UpdateUserRole(a, u, role)
       PROVE  AuthInv'
  <2>1. role \in Roles /\ roleChanges' \in 0 .. MaxRoleChanges
    BY <1>0, <1>12, AuthAssumption DEF UpdateUserRole, AuthTypeOK, Roles
  <2>2. req' \in [Requests -> RequestState] /\ \A r \in Requests : req'[r] = req[r]
    BY <1>0, <1>12 DEF UpdateUserRole, AuthTypeOK
  <2>3. QED
    BY <1>12, <2>1, <2>2, RoleStep DEF UpdateUserRole
<1>13. ASSUME NEW r \in Requests, AdminCheck(r) PROVE AuthInv'
  <2> DEFINE new == [pc |-> "admin", user |-> DefaultUser, role |-> "ADMINISTRATOR", rows |-> {},
                     began |-> version[DefaultUser], seen |-> 0]
  <2>1. new \in RequestState /\ req' = [req EXCEPT ![r] = new] /\ DefaultUser \in Users
    BY <1>0, <1>13, AuthAssumption DEF AdminCheck, Begin, RequestState, Roles
  <2>2. req'[r] = new /\ version' = version
    BY <1>0, <1>13, <2>1 DEF AuthTypeOK, AdminCheck
  <2>3. RequestSound(r)'
    BY <1>0, <2>1, <2>2 DEF RequestSound
  <2>4. QED
    BY <1>13, <2>1, <2>3, RequestStep DEF AdminCheck
<1>14. ASSUME NEW r \in Requests, AdminWrite(r) PROVE AuthInv'
  <2>1. "ADMINISTRATOR" \in Roles /\ DefaultUser \in Users /\ UserExists(DefaultUser)
    BY <1>0, AuthAssumption DEF Roles, TokensSound
  <2>2. /\ req' \in [Requests -> RequestState]
        /\ \A q \in Requests : req'[q] = req[q] \/ req'[q] = IdleRequest
    BY <1>0, <1>14 DEF AdminWrite, AuthTypeOK
  <2>3. roleChanges' \in 0 .. MaxRoleChanges
    BY <1>0, <1>14 DEF AdminWrite, AuthTypeOK
  <2>4. QED
    BY <1>14, <2>1, <2>2, <2>3, RoleStep DEF AdminWrite
<1>15. ASSUME NEW t \in TokenIds, TokenExpires(t) PROVE AuthInv'
  <2>1. {t} \in SUBSET Issued
    BY <1>15 DEF TokenExpires
  <2>2. tokens' = Revoked(tokens, {t})
    BY <1>0, <1>15 DEF TokenExpires, Revoked, AuthTypeOK
  <2>3. QED
    BY <1>15, <2>1, <2>2, EndStep DEF TokenExpires
<1>16. CASE UNCHANGED authVars
  BY <1>16 DEF authVars, AuthInv, AuthTypeOK, TokensSound, OutdatedRolesAreOld, RequestSound,
               Issued, UserExists
<1>17. QED
  BY <1>1, <1>2, <1>3, <1>4, <1>5, <1>6, <1>7, <1>8, <1>9, <1>10, <1>11, <1>12, <1>13,
     <1>14, <1>15, <1>16 DEF AuthNext

LEMMA AuthInvariant == AuthSpec => []AuthInv
  BY AuthInitOK, AuthInvStep, PTL DEF AuthSpec

-----------------------------------------------------------------------------
(* Theorems.                                                                *)

\* Every reachable state is well typed; refresh tokens are numbered without
\* gaps, although requests commit in any order.
THEOREM AuthTypeCorrect == AuthSpec => []AuthTypeOK
  BY AuthInvariant, PTL DEF AuthInv

\* A role that was taken away is in no access token of a request that began
\* after the change, for any number of requests and role changes.
THEOREM RolesTakenAwayStayAway == AuthSpec => []OutdatedRolesAreOld
  BY AuthInvariant, PTL DEF AuthInv

\* A successful login ends all sessions of its user that existed when it
\* began, whatever other logins and refreshes commit meanwhile.
THEOREM SingleSession == AuthSpec => LoginEndsEarlierSessions
<1>1. AuthInv /\ [AuthNext]_authVars
        => [\A r \in Requests : LoginSucceeds(r) => EarlierSessionsEnd(r)]_authVars
  <2> SUFFICES ASSUME AuthInv, AuthNext, NEW r \in Requests, LoginSucceeds(r)
               PROVE  EarlierSessionsEnd(r)
    BY DEF authVars
  <2>0. AuthTypeOK /\ RequestSound(r) /\ req[r] \in RequestState
    BY DEF AuthInv, AuthTypeOK
  <2>1. req[r].pc = "issue" /\ req'[r].pc = "idle" /\ tokens' # tokens
    BY DEF LoginSucceeds
  <2>2. Issue(r)
    <3>1. ASSUME NEW q \in Requests, q # r, NEW new, req' = [req EXCEPT ![q] = new] PROVE FALSE
      BY <2>0, <2>1, <3>1 DEF AuthTypeOK
    <3>2. ASSUME NEW q \in Requests, RegisterCommit(q) PROVE FALSE
      <4>1. q # r
        BY <2>1, <3>2 DEF RegisterCommit
      <4>2. req' = [req EXCEPT ![q] = IdleRequest]
        BY <3>2 DEF RegisterCommit, GenerateTokens
      <4>3. QED
        BY <3>1, <4>1, <4>2
    <3>3. ASSUME NEW q \in Requests, Issue(q), q # r PROVE FALSE
      BY <3>1, <3>3 DEF Issue, GenerateTokens
    <3>4. ASSUME req' = req PROVE FALSE
      BY <2>1, <3>4
    <3>5. CASE \E t \in TokenIds : Logout(t) \/ TokenExpires(t)
      BY <3>4, <3>5 DEF Logout, TokenExpires
    <3>6. QED
      BY <2>1, <3>2, <3>3, <3>5
         DEF AuthNext, RegisterStart, LoginStart, RevokeAllByUserID, RowsUpdated, RefreshStart,
             RefreshUpdate, RefreshReload, Abort, UpdateUserRole, AdminCheck, AdminWrite
  <2>3. /\ req[r].user \in Users /\ req[r].role \in Roles /\ req[r].rows \in SUBSET Issued
    BY <2>0 DEF RequestState, RequestSound
  <2>4. PICK new \in TokenIds \ Issued :
          /\ \A t \in TokenIds \ Issued : new <= t
          /\ tokens' = CreateToken(Revoked(tokens, req[r].rows), new, req[r].user)
    BY <2>2 DEF Issue, GenerateTokens
  <2>5. \A t \in TokenIds \ {new} :
          /\ t \in req[r].rows => tokens'[t] = [user |-> tokens[t].user, ended |-> TRUE]
          /\ t \notin req[r].rows => tokens'[t] = tokens[t]
    BY <2>3, <2>4, GeneratedTable
  <2>6. ASSUME NEW t \in Issued, t <= req[r].seen, tokens[t].user = req[r].user
        PROVE  tokens'[t].ended
    <3>1. t \in TokenIds \ {new}
      BY <2>4 DEF Issued
    <3>2. tokens[t].ended \/ t \in req[r].rows
      BY <2>0, <2>1, <2>6 DEF RequestSound
    <3>3. CASE t \in req[r].rows
      <4>1. tokens[t].user \in Users /\ TRUE \in BOOLEAN
        BY <2>3, <2>6
      <4>2. tokens'[t] = [user |-> tokens[t].user, ended |-> TRUE]
        BY <2>5, <3>1, <3>3
      <4>3. [user |-> tokens[t].user, ended |-> TRUE].ended
        OBVIOUS
      <4>4. QED
        BY <4>2, <4>3
    <3>4. CASE t \notin req[r].rows
      BY <2>5, <3>1, <3>2, <3>4
    <3>5. QED
      BY <3>3, <3>4
  <2>7. QED
    BY <2>6 DEF EarlierSessionsEnd
<1>2. QED
  BY <1>1, AuthInvariant, PTL DEF AuthSpec, LoginEndsEarlierSessions

-----------------------------------------------------------------------------
(* AuthService implements SessionLife.                                      *)

\* The phase of a session and its owner, as the refinement mapping reads them.
LEMMA InitialSessions == AuthInit => Life!LifeInit
<1> SUFFICES ASSUME AuthInit PROVE Life!LifeInit
  OBVIOUS
<1>1. Issued = {}
  BY DEF AuthInit, Issued, Unissued
<1>2. \A t \in TokenIds : Phase(t) = "unused" /\ tokens[t].user = "none"
  BY <1>1 DEF AuthInit, Phase, Unissued
<1>3. QED
  BY <1>2 DEF Life!LifeInit

\* A step that leaves the tokens alone leaves the sessions alone.
LEMMA SameSessions ==
  ASSUME tokens' = tokens
  PROVE  /\ \A t \in TokenIds : Phase(t)' = Phase(t) /\ tokens'[t].user = tokens[t].user
         /\ [t \in TokenIds |-> Phase(t)]' = [t \in TokenIds |-> Phase(t)]
         /\ [t \in TokenIds |-> tokens[t].user]' = [t \in TokenIds |-> tokens[t].user]
<1>1. Issued' = Issued
  BY DEF Issued
<1>2. \A t \in TokenIds : Phase(t)' = Phase(t)
  BY <1>1 DEF Phase, IsValid
<1>3. QED
  BY <1>2

\* generateTokens opens one session and ends others of the same user only.
LEMMA IssueOpensSession ==
  ASSUME AuthInv, NEW r \in Requests, NEW u \in Users, NEW role \in Roles,
         NEW rows \in SUBSET Issued, \A t \in rows : tokens[t].user = u,
         GenerateTokens(r, u, role, rows)
  PROVE  Life!LifeNext
<1>1. AuthTypeOK
  BY DEF AuthInv
<1>2. PICK new \in TokenIds \ Issued :
        /\ \A t \in TokenIds \ Issued : new <= t
        /\ tokens' = CreateToken(Revoked(tokens, rows), new, u)
  BY DEF GenerateTokens
<1>3. /\ Issued' = Issued \cup {new}
      /\ tokens'[new] = [user |-> u, ended |-> FALSE]
      /\ \A t \in TokenIds \ {new} :
           /\ t \in rows => tokens'[t] = [user |-> tokens[t].user, ended |-> TRUE]
           /\ t \notin rows => tokens'[t] = tokens[t]
  BY <1>2, GeneratedTable
<1>0. PICK closed \in SUBSET TokenIds : closed = {t \in rows : Phase(t) = "live"}
  BY DEF Issued
<1>4. Phase(new) = "unused" /\ Phase(new)' = "live" /\ tokens'[new].user = u
  <2>1. ~[user |-> u, ended |-> FALSE].ended /\ [user |-> u, ended |-> FALSE].user = u
    OBVIOUS
  <2>2. QED
    BY <1>2, <1>3, <2>1 DEF Phase, IsValid
<1>5. ASSUME NEW t \in TokenIds, t # new
      PROVE  /\ Phase(t)' = IF t \in closed THEN "ended" ELSE Phase(t)
             /\ tokens'[t].user = tokens[t].user
  <2>1. t \in Issued' <=> t \in Issued
    BY <1>3, <1>5
  <2>2. CASE t \in rows
    <3>1. tokens'[t] = [user |-> tokens[t].user, ended |-> TRUE]
      BY <1>3, <1>5, <2>2
    <3>2. tokens'[t].ended /\ tokens'[t].user = tokens[t].user
      <4>1. /\ [user |-> tokens[t].user, ended |-> TRUE].ended
            /\ [user |-> tokens[t].user, ended |-> TRUE].user = tokens[t].user
        OBVIOUS
      <4>2. QED
        BY <3>1, <4>1
    <3>3. Phase(t)' = "ended"
      BY <2>1, <2>2, <3>2 DEF Phase, IsValid
    <3>4. Phase(t) = "live" \/ Phase(t) = "ended"
      BY <2>2 DEF Phase
    <3>5. QED
      BY <1>0, <2>2, <3>2, <3>3, <3>4
  <2>3. CASE t \notin rows
    <3>1. tokens'[t] = tokens[t]
      BY <1>3, <1>5, <2>3
    <3>2. Phase(t)' = Phase(t)
      BY <2>1, <3>1 DEF Phase, IsValid
    <3>3. QED
      BY <1>0, <2>3, <3>1, <3>2
  <2>4. QED
    BY <2>2, <2>3
<1>6. Life!OpenSession(u, new, closed)
  <2>1. rows \subseteq TokenIds
    BY DEF Issued
  <2>2. closed \subseteq {s \in TokenIds : Phase(s) = "live" /\ tokens[s].user = u}
    BY <1>0, <2>1
  <2>3. [t \in TokenIds |-> Phase(t)]'
          = [s \in TokenIds |-> IF s = new THEN "live" ELSE IF s \in closed THEN "ended"
                                ELSE [t \in TokenIds |-> Phase(t)][s]]
    <3>1. \A t \in TokenIds : Phase(t)' = IF t = new THEN "live" ELSE IF t \in closed THEN "ended"
                                          ELSE Phase(t)
      BY <1>4, <1>5
    <3>2. QED
      BY <3>1
  <2>4. [t \in TokenIds |-> tokens[t].user]' = [[t \in TokenIds |-> tokens[t].user] EXCEPT ![new] = u]
    BY <1>4, <1>5
  <2>5. [t \in TokenIds |-> Phase(t)][new] = "unused"
    BY <1>4
  <2>6. QED
    BY <2>2, <2>3, <2>4, <2>5 DEF Life!OpenSession, Life!Live
<1>7. closed \in SUBSET Life!Live
  BY <1>0 DEF Life!Live, Issued
<1>8. QED
  BY <1>2, <1>6, <1>7 DEF Life!LifeNext

\* Logout and expiry end one session, or find it ended.
LEMMA EndEndsSession ==
  ASSUME AuthInv, NEW t \in Issued, tokens' = Revoked(tokens, {t})
  PROVE  \/ Life!LifeNext
         \/ /\ [s \in TokenIds |-> Phase(s)]' = [s \in TokenIds |-> Phase(s)]
            /\ [s \in TokenIds |-> tokens[s].user]' = [s \in TokenIds |-> tokens[s].user]
<1>1. AuthTypeOK /\ t \in TokenIds
  BY DEF AuthInv, Issued
<1>2. tokens[t] \in Token
  BY <1>1, IssuedTokens
<1>3. \A s \in TokenIds : s # t => tokens'[s] = tokens[s]
  BY DEF Revoked
<1>4. tokens'[t] = [user |-> tokens[t].user, ended |-> TRUE]
  <2>1. tokens'[t] = [tokens[t] EXCEPT !.ended = TRUE]
    BY <1>1 DEF Revoked
  <2>2. QED
    BY <1>2, <2>1 DEF Token
<1>5. tokens'[t].ended /\ tokens'[t].user = tokens[t].user
  <2>1. /\ [user |-> tokens[t].user, ended |-> TRUE].ended
        /\ [user |-> tokens[t].user, ended |-> TRUE].user = tokens[t].user
    OBVIOUS
  <2>2. QED
    BY <1>4, <2>1
<1>6. \A s \in TokenIds : tokens'[s].user = tokens[s].user
  BY <1>3, <1>5
<1>7. Issued' = Issued
  BY <1>6 DEF Issued
<1>8. \A s \in TokenIds : Phase(s)' = IF s = t THEN "ended" ELSE Phase(s)
  <2> SUFFICES ASSUME NEW s \in TokenIds PROVE Phase(s)' = IF s = t THEN "ended" ELSE Phase(s)
    OBVIOUS
  <2>1. CASE s = t
    BY <1>5, <1>7, <2>1 DEF Phase, IsValid
  <2>2. CASE s # t
    <3>1. tokens'[s] = tokens[s] /\ (s \in Issued' <=> s \in Issued)
      BY <1>3, <1>7, <2>2
    <3>2. QED
      BY <2>2, <3>1 DEF Phase, IsValid
  <2>3. QED
    BY <2>1, <2>2
<1>9. [s \in TokenIds |-> tokens[s].user]' = [s \in TokenIds |-> tokens[s].user]
  BY <1>6
<1>10. CASE Phase(t) = "live"
  <2>1. [s \in TokenIds |-> Phase(s)]'
          = [s \in TokenIds |-> IF s \in {t} THEN "ended" ELSE [x \in TokenIds |-> Phase(x)][s]]
    BY <1>8
  <2>2. Life!EndSessions({t})
    BY <1>9, <2>1 DEF Life!EndSessions
  <2>3. {t} \in SUBSET Life!Live
    BY <1>1, <1>10 DEF Life!Live
  <2>4. QED
    BY <2>2, <2>3 DEF Life!LifeNext
<1>11. CASE Phase(t) # "live"
  <2>1. Phase(t) = "ended"
    BY <1>11 DEF Phase
  <2>2. [s \in TokenIds |-> Phase(s)]' = [s \in TokenIds |-> Phase(s)]
    BY <1>8, <2>1
  <2>3. QED
    BY <1>9, <2>2
<1>12. QED
  BY <1>10, <1>11

\* The service implements SessionLife for any number of requests: whatever
\* Register, Login, Refresh and Logout interleave, a session is opened once, ends
\* once, and is ended by requests for its own user only.
THEOREM SessionRefinement == AuthSpec => SessionsLive
<1> DEFINE phaseMap == [t \in TokenIds |-> Phase(t)]
<1> DEFINE ownerMap == [t \in TokenIds |-> tokens[t].user]
<1>1. ASSUME AuthInv, [AuthNext]_authVars
      PROVE  Life!LifeNext \/ (phaseMap' = phaseMap /\ ownerMap' = ownerMap)
  <2>1. CASE tokens' = tokens
    BY <2>1, SameSessions
  <2>2. ASSUME NEW r \in Requests, RegisterCommit(r), tokens' # tokens PROVE Life!LifeNext
    <3>1. req[r].user \in Users /\ "READ" \in Roles /\ {} \in SUBSET Issued
      BY <1>1 DEF AuthInv, AuthTypeOK, RequestState, Roles
    <3>2. GenerateTokens(r, req[r].user, "READ", {})
      BY <2>2 DEF RegisterCommit
    <3>3. QED
      BY <1>1, <3>1, <3>2, IssueOpensSession
  <2>3. ASSUME NEW r \in Requests, Issue(r) PROVE Life!LifeNext
    <3>1. /\ req[r].user \in Users /\ req[r].role \in Roles
          /\ req[r].rows \in SUBSET Issued
          /\ \A t \in req[r].rows : tokens[t].user = req[r].user
      BY <1>1 DEF AuthInv, AuthTypeOK, RequestState, RequestSound
    <3>2. GenerateTokens(r, req[r].user, req[r].role, req[r].rows)
      BY <2>3 DEF Issue
    <3>3. QED
      BY <1>1, <3>1, <3>2, IssueOpensSession
  <2>4. ASSUME NEW t \in TokenIds, Logout(t)
        PROVE  Life!LifeNext \/ (phaseMap' = phaseMap /\ ownerMap' = ownerMap)
    BY <1>1, <2>4, EndEndsSession DEF Logout
  <2>5. ASSUME NEW t \in TokenIds, TokenExpires(t)
        PROVE  Life!LifeNext \/ (phaseMap' = phaseMap /\ ownerMap' = ownerMap)
    <3>1. t \in Issued /\ tokens' = Revoked(tokens, {t})
      BY <1>1, <2>5 DEF AuthInv, TokenExpires, Revoked, AuthTypeOK
    <3>2. QED
      BY <1>1, <3>1, EndEndsSession
  <2>6. QED
    BY <1>1, <2>1, <2>2, <2>3, <2>4, <2>5
       DEF AuthNext, authVars, RegisterStart, LoginStart, RevokeAllByUserID, RowsUpdated, RefreshStart,
           RefreshUpdate, RefreshReload, Abort, UpdateUserRole, AdminCheck, AdminWrite
<1>2. AuthInv /\ [AuthNext]_authVars => [Life!LifeNext]_<<phaseMap, ownerMap>>
  BY <1>1
<1>3. QED
  BY <1>2, InitialSessions, AuthInvariant, PTL DEF AuthSpec, SessionsLive, Life!LifeSpec
=============================================================================
