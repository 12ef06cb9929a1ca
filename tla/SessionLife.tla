---------------------------- MODULE SessionLife ----------------------------
(***************************************************************************)
(* What the authentication service promises about sessions, seen through   *)
(* the refresh tokens that stand for them: a session is opened once, for   *)
(* one user, and ends once; opening a session may end others of the same   *)
(* user and of nobody else; what has ended never works again.              *)
(***************************************************************************)
CONSTANTS SessionIds, Owners, NoOwner

VARIABLES phase, owner

Live == {s \in SessionIds : phase[s] = "live"}

LifeInit ==
  /\ phase = [s \in SessionIds |-> "unused"]
  /\ owner = [s \in SessionIds |-> NoOwner]

\* Register, Login and Refresh.
OpenSession(u, new, closed) ==
  /\ phase[new] = "unused"
  /\ closed \subseteq {s \in Live : owner[s] = u}
  /\ phase' = [s \in SessionIds |->
                 IF s = new THEN "live" ELSE IF s \in closed THEN "ended" ELSE phase[s]]
  /\ owner' = [owner EXCEPT ![new] = u]

\* Logout and expiry.
EndSessions(closed) ==
  /\ closed # {}
  /\ phase' = [s \in SessionIds |-> IF s \in closed THEN "ended" ELSE phase[s]]
  /\ UNCHANGED owner

LifeNext ==
  \/ \E u \in Owners, new \in SessionIds, closed \in SUBSET Live : OpenSession(u, new, closed)
  \/ \E closed \in SUBSET Live : EndSessions(closed)

LifeSpec == LifeInit /\ [][LifeNext]_<<phase, owner>>
=============================================================================
