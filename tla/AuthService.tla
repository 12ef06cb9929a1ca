---------------------------- MODULE AuthService ----------------------------
(***************************************************************************)
(* Users, refresh tokens and access tokens of the API servers: Register,   *)
(* Login, Refresh, Logout, UpdateUserRole and EnsureDefaultAdmin, run by   *)
(* requests that interleave between their statements.  Transactions are    *)
(* READ COMMITTED: a statement sees what was committed when it began, a    *)
(* row that another transaction has updated is waited for, and a write     *)
(* takes effect with the commit.  There is no clock: a token may expire at  *)
(* any moment after its issue, and stays expired.                           *)
(***************************************************************************)
EXTENDS Integers, FiniteSets

CONSTANTS
  Users,           \* e-mail addresses
  DefaultUser,     \* DEFAULT_USER_EMAIL
  Requests,        \* requests (and starting servers) at work at the same time
  MaxTokens,       \* model bound on issued refresh tokens
  GivenRoles,      \* roles that the administrator gives to users
  MaxRoleChanges   \* model bound on role changes by the administrator

ASSUME AuthAssumption ==
  /\ DefaultUser \in Users
  /\ "none" \notin Users
  /\ MaxTokens \in Nat
  /\ GivenRoles \subseteq {"READ", "READ_WRITE"}
  /\ MaxRoleChanges \in Nat

VARIABLES
  users,    \* the table users: the role of each address, "none" without a row
  version,  \* how often the role of each user has changed
  roleChanges, \* role changes so far
  tokens,   \* the table refresh_tokens, in the order of the commits
  access,   \* the access tokens signed so far; their expiry only ends their use
  req       \* the requests

authVars == <<users, version, roleChanges, tokens, access, req>>

TokenIds == 1 .. MaxTokens

Roles == {"READ", "READ_WRITE", "ADMINISTRATOR"}

Level(role) == CASE role = "READ" -> 1 [] role = "READ_WRITE" -> 2 [] role = "ADMINISTRATOR" -> 3

\* `ended`: revoked_at is set or expires_at is past; nothing tells these apart.
Token == [user : Users, ended : BOOLEAN]

\* `began` is the version of the role when the request that signed it began.
Access == [user : Users, role : Roles, began : Nat]

\* `rows` are the tokens that the open transaction updates, `seen` the number of
\* tokens that had been issued when the login began.
IdleRequest == [pc |-> "idle", user |-> DefaultUser, role |-> "READ", rows |-> {}, began |-> 0, seen |-> 0]

RequestState ==
  [pc    : {"idle", "create", "login", "revoking", "issue", "rotate", "reload", "reissue", "admin"},
   user  : Users,
   role  : Roles,
   rows  : SUBSET TokenIds,
   began : Nat,
   seen  : 0 .. MaxTokens]

Issued == {t \in TokenIds : tokens[t].user # "none"}

Unissued == [user |-> "none", ended |-> FALSE]

\* RefreshToken.IsValid
IsValid(t) == ~tokens[t].ended

-----------------------------------------------------------------------------
(* The statements of the repositories.                                      *)

UserExists(u) == users[u] # "none"

\* GetByEmail and GetByID: a copy of the row; only its role is used later.
GetByEmail(u) == users[u]

GetByID(u) == users[u]

\* INSERT INTO users: the unique index refuses an address that is in use.
CreateUser(u, role) == ~UserExists(u) /\ users' = [users EXCEPT ![u] = role]

UpdateRole(u, role) ==
  /\ users' = [users EXCEPT ![u] = role]
  /\ version' = [version EXCEPT ![u] = IF users[u] = role THEN @ ELSE @ + 1]

\* GetByTokenHash finds a token that was stored, in whatever state.
GetByTokenHash(t) == t \in Issued

\* revoked_at is set: Update of one row, RevokeByTokenHash, RevokeAllByUserID.
Revoked(table, rows) ==
  [t \in TokenIds |-> IF t \in rows THEN [table[t] EXCEPT !.ended = TRUE] ELSE table[t]]

\* INSERT INTO refresh_tokens.
CreateToken(table, new, u) == [table EXCEPT ![new] = [user |-> u, ended |-> FALSE]]

\* JWTService.SignAccessToken
SignAccessToken(u, role, began) == [user |-> u, role |-> role, began |-> began]

\* Types of all variables; refresh tokens are numbered in the order of issue.
AuthTypeOK ==
  /\ users \in [Users -> Roles \cup {"none"}]
  /\ version \in [Users -> Nat]
  /\ roleChanges \in 0 .. MaxRoleChanges
  /\ tokens \in [TokenIds -> Token \cup {Unissued}]
  /\ access \in SUBSET Access
  /\ req \in [Requests -> RequestState]
  /\ \A t \in Issued : \A s \in 1 .. t : s \in Issued

\* Rows that transactions of other requests have updated and not yet committed.
Locked(others) ==
  UNION {req[q].rows : q \in {q \in others : req[q].pc \in {"issue", "reload", "reissue"}}}

\* The first start of a server has created the default user, before it served
\* any request; no operation deletes a user.
AuthInit ==
  /\ users = [u \in Users |-> IF u = DefaultUser THEN "ADMINISTRATOR" ELSE "none"]
  /\ version = [u \in Users |-> 0]
  /\ roleChanges = 0
  /\ tokens = [t \in TokenIds |-> Unissued]
  /\ access = {}
  /\ req = [r \in Requests |-> IdleRequest]

Begin(r, pc, u, role, rows) ==
  req' = [req EXCEPT ![r] = [pc |-> pc, user |-> u, role |-> role, rows |-> rows,
                             began |-> version[u], seen |-> IF pc = "login" THEN Cardinality(Issued) ELSE 0]]

\* generateTokens and the commit of the transaction around it: the rows in
\* `rows` are revoked, a refresh token is stored and an access token signed.
GenerateTokens(r, u, role, rows) ==
  \E new \in TokenIds \ Issued :
    /\ \A t \in TokenIds \ Issued : new <= t
    /\ tokens' = CreateToken(Revoked(tokens, rows), new, u)
    /\ access' = access \cup {SignAccessToken(u, role, req[r].began)}
    /\ req' = [req EXCEPT ![r] = IdleRequest]

-----------------------------------------------------------------------------
(* Register.                                                                *)

\* The address is valid and not in use (else an error is returned).
RegisterStart(r, u) ==
  /\ req[r].pc = "idle"
  /\ ~UserExists(u)
  /\ Begin(r, "create", u, "READ", {})
  /\ UNCHANGED <<users, version, roleChanges, tokens, access>>

\* The user and the tokens are stored; if the address was taken in the meantime
\* the unique index refuses the row and the request fails.
RegisterCommit(r) ==
  /\ req[r].pc = "create"
  /\ LET u == req[r].user IN
     \/ CreateUser(u, "READ") /\ GenerateTokens(r, u, "READ", {})
     \/ /\ UserExists(u)
        /\ req' = [req EXCEPT ![r] = IdleRequest]
        /\ UNCHANGED <<users, tokens, access>>
  /\ UNCHANGED <<version, roleChanges>>

-----------------------------------------------------------------------------
(* Login.                                                                   *)

\* A plausible bug: the user that GetByEmail did not find is not checked.
LoginStartUnchecked(r, u) ==
  /\ req[r].pc = "idle"
  /\ Begin(r, "login", u, GetByEmail(u), {})
  /\ UNCHANGED <<users, version, roleChanges, tokens, access>>

\* GetByEmail and a matching password: the request goes on with this copy.
LoginStart(r, u) ==
  /\ req[r].pc = "idle"
  /\ UserExists(u)
  /\ Begin(r, "login", u, GetByEmail(u), {})
  /\ UNCHANGED <<users, version, roleChanges, tokens, access>>

\* A plausible bug: one token is taken for the session of the user.
RevokeOneByUserID(r) ==
  /\ req[r].pc = "login"
  /\ \E rows \in SUBSET {t \in Issued : tokens[t].user = req[r].user /\ ~tokens[t].ended} :
       /\ Cardinality(rows) <= 1
       /\ req' = [req EXCEPT ![r] = [@ EXCEPT !.pc = "revoking", !.rows = rows]]
  /\ UNCHANGED <<users, version, roleChanges, tokens, access>>

\* RevokeAllByUserID begins: it will update the rows that are committed now.
RevokeAllByUserID(r) ==
  /\ req[r].pc = "login"
  /\ req' = [req EXCEPT ![r] =
               [@ EXCEPT !.pc = "revoking",
                         !.rows = {t \in Issued : tokens[t].user = req[r].user /\ ~tokens[t].ended}]]
  /\ UNCHANGED <<users, version, roleChanges, tokens, access>>

\* It gets the rows it was waiting for.
RowsUpdated(r) ==
  /\ req[r].pc = "revoking"
  /\ req[r].rows \cap Locked(Requests \ {r}) = {}
  /\ req' = [req EXCEPT ![r] = [@ EXCEPT !.pc = "issue"]]
  /\ UNCHANGED <<users, version, roleChanges, tokens, access>>

-----------------------------------------------------------------------------
(* Refresh.                                                                 *)

\* GetByTokenHash finds a valid token (else an error is returned).
RefreshStart(r, t) ==
  /\ req[r].pc = "idle"
  /\ GetByTokenHash(t)
  /\ IsValid(t)
  /\ Begin(r, "rotate", tokens[t].user, "READ", {t})
  /\ UNCHANGED <<users, version, roleChanges, tokens, access>>

\* Update of the token by its id, whatever has become of it.
RefreshUpdate(r) ==
  /\ req[r].pc = "rotate"
  /\ req[r].rows \cap Locked(Requests \ {r}) = {}
  /\ req' = [req EXCEPT ![r] = [@ EXCEPT !.pc = "reload"]]
  /\ UNCHANGED <<users, version, roleChanges, tokens, access>>

\* A plausible bug: the role is the one the user had at registration.
RefreshReloadOldRole(r) ==
  /\ req[r].pc = "reload"
  /\ req' = [req EXCEPT ![r] = [@ EXCEPT !.pc = "reissue", !.role = "READ"]]
  /\ UNCHANGED <<users, version, roleChanges, tokens, access>>

\* GetByID: the role that will be signed is read inside the transaction.
RefreshReload(r) ==
  /\ req[r].pc = "reload"
  /\ req' = [req EXCEPT ![r] = [@ EXCEPT !.pc = "reissue", !.role = GetByID(req[r].user)]]
  /\ UNCHANGED <<users, version, roleChanges, tokens, access>>

\* The end of the transactions of Login and Refresh.
Issue(r) ==
  /\ req[r].pc \in {"issue", "reissue"}
  /\ GenerateTokens(r, req[r].user, req[r].role, req[r].rows)
  /\ UNCHANGED <<users, version, roleChanges>>

\* A statement fails, the client goes away or the server dies: the transaction
\* is rolled back.
Abort(r) ==
  /\ req[r].pc # "idle"
  /\ req' = [req EXCEPT ![r] = IdleRequest]
  /\ UNCHANGED <<users, version, roleChanges, tokens, access>>

-----------------------------------------------------------------------------
\* A plausible bug: the column is set to what the caller's copy says.
LogoutToggles(t) ==
  /\ t \in Issued
  /\ t \notin Locked(Requests)
  /\ tokens' = [tokens EXCEPT ![t] = [@ EXCEPT !.ended = ~@]]
  /\ UNCHANGED <<users, version, roleChanges, access, req>>

\* RevokeByTokenHash, one statement.
Logout(t) ==
  /\ t \in Issued
  /\ t \notin Locked(Requests)
  /\ tokens' = Revoked(tokens, {t})
  /\ UNCHANGED <<users, version, roleChanges, access, req>>

\* UpdateUserRole with an administrator's access token.  ADMINISTRATOR cannot be
\* given, a role the user has already is left alone.
UpdateUserRole(a, u, role) ==
  /\ roleChanges < MaxRoleChanges
  /\ Level(a.role) >= Level("ADMINISTRATOR")
  /\ UserExists(u)
  /\ GetByID(u) # role
  /\ UpdateRole(u, role)
  /\ roleChanges' = roleChanges + 1
  /\ UNCHANGED <<tokens, access, req>>

-----------------------------------------------------------------------------
(* EnsureDefaultAdmin, at later starts of servers: a read and a write that  *)
(* are not in one transaction.                                              *)

AdminCheck(r) ==
  /\ req[r].pc = "idle"
  /\ GetByEmail(DefaultUser) # "ADMINISTRATOR"
  /\ Begin(r, "admin", DefaultUser, "ADMINISTRATOR", {})
  /\ UNCHANGED <<users, version, roleChanges, tokens, access>>

AdminWrite(r) ==
  /\ req[r].pc = "admin"
  /\ UpdateRole(DefaultUser, "ADMINISTRATOR")
  /\ req' = [req EXCEPT ![r] = IdleRequest]
  /\ UNCHANGED <<roleChanges, tokens, access>>

\* The time of a refresh token is over; that of one already revoked is of no use
\* to anybody.
TokenExpires(t) ==
  /\ t \in Issued /\ IsValid(t)
  /\ tokens' = [tokens EXCEPT ![t] = [@ EXCEPT !.ended = TRUE]]
  /\ UNCHANGED <<users, version, roleChanges, access, req>>

AuthNext ==
  \/ \E r \in Requests, u \in Users : RegisterStart(r, u)
  \/ \E r \in Requests : RegisterCommit(r)
  \/ \E r \in Requests, u \in Users : LoginStart(r, u)
  \/ \E r \in Requests : RevokeAllByUserID(r)
  \/ \E r \in Requests : RowsUpdated(r)
  \/ \E r \in Requests, t \in TokenIds : RefreshStart(r, t)
  \/ \E r \in Requests : RefreshUpdate(r)
  \/ \E r \in Requests : RefreshReload(r)
  \/ \E r \in Requests : Issue(r)
  \/ \E r \in Requests : Abort(r)
  \/ \E t \in TokenIds : Logout(t)
  \/ \E a \in access, u \in Users, role \in GivenRoles : UpdateUserRole(a, u, role)
  \/ \E r \in Requests : AdminCheck(r)
  \/ \E r \in Requests : AdminWrite(r)
  \/ \E t \in TokenIds : TokenExpires(t)

AuthSpec == AuthInit /\ [][AuthNext]_authVars

-----------------------------------------------------------------------------
\* An access token that carries another role than its user has now was asked
\* for before the role changed: a role that was taken away is never signed into
\* a token for a request that came later, by whichever of the two ways (the copy
\* that Login made before its transaction, the row that Refresh reads in its own).
OutdatedRolesAreOld ==
  \A a \in access : a.role # users[a.user] => a.began < version[a.user]

LoginSucceeds(r) == req[r].pc = "issue" /\ req'[r].pc = "idle" /\ tokens' # tokens

EarlierSessionsEnd(r) ==
  \A t \in Issued : t <= req[r].seen /\ tokens[t].user = req[r].user => tokens'[t].ended

\* "single session policy": when a login succeeds, every session of the user
\* that existed when the request came has ended, also one whose refresh was
\* under way; only sessions opened during the login may live beside it.
LoginEndsEarlierSessions ==
  [][\A r \in Requests : LoginSucceeds(r) => EarlierSessionsEnd(r)]_authVars

Phase(t) == IF t \notin Issued THEN "unused" ELSE IF IsValid(t) THEN "live" ELSE "ended"

Life ==
  INSTANCE SessionLife
    WITH SessionIds <- TokenIds, Owners <- Users, NoOwner <- "none",
         phase <- [t \in TokenIds |-> Phase(t)],
         owner <- [t \in TokenIds |-> tokens[t].user]

\* The service implements SessionLife, whatever requests interleave.
SessionsLive == Life!LifeSpec
=============================================================================
