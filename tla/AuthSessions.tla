----------------------------- MODULE AuthSessions -----------------------------
(***************************************************************************)
(* Logging in, refreshing tokens and logging out (modules/auth).  A        *)
(* session is a document of the collection Auth; its refresh tokens and    *)
(* its access tokens are signed and never stored, so that a token is       *)
(* revoked only by deleting its session, and only for the requests that    *)
(* look it up.                                                             *)
(*                                                                         *)
(* A request is one action per database call that it waits for.  The jti   *)
(* of a session is never set by the code: a token is matched with its      *)
(* session by _id alone.  MongoDB (external) runs each call as one atomic  *)
(* command and has no foreign keys, so that users may be deleted who have  *)
(* sessions; a TTL index deletes old sessions.                             *)
(***************************************************************************)
EXTENDS Integers, FiniteSets

CONSTANTS
  User,       \* users with a password
  Session,    \* identifiers of documents of Auth, none used twice
  Request,    \* numbers of requests, in the order of their arrival
  AccessExp,  \* lifetime of an access token (jwt.exp)
  RefreshExp, \* lifetime of a session (jwt.refreshExp)
  MaxTime,    \* bound on the clock
  None        \* no session, no user

ASSUME RequestAssumption == Request \subseteq Nat
ASSUME ExpAssumption == AccessExp \in Nat \ {0} /\ RefreshExp \in Nat \ {0}
ASSUME MaxTimeAssumption == MaxTime \in Nat
ASSUME NoneAssumption == None \notin Session \cup User
ASSUME DisjointAssumption == Session \cap User = {}

VARIABLES
  now,      \* the clock
  users,    \* the users that exist
  sessions, \* sessions[s]: the document of s
  tokens,   \* the tokens that have been signed
  pc,       \* pc[r]: where request r is
  who,      \* who[r]: the user that r has read, or the subject of its token
  auth,     \* auth[r]: the session of r, and the exp that r has read or set
  (* History variables: no action reads them. *)
  gone,     \* gone[r]: the sessions and users that did not exist when r arrived
  start     \* start[s]: when s got its first exp

vars == <<now, users, sessions, tokens, pc, who, auth, gone, start>>

-----------------------------------------------------------------------------
(* An exp of 0 is null. *)
Time == 0 .. MaxTime
Exp == 0 .. (MaxTime + AccessExp + RefreshExp)

Row == [life : {"unborn", "live", "deleted"}, user : User \cup {None}, exp : Exp]

Token == [kind : {"access", "refresh"}, auth : Session, sub : User, exp : Exp]

TypeOK ==
  /\ now \in Time
  /\ users \subseteq User
  /\ sessions \in [Session -> Row]
  /\ tokens \subseteq Token
  /\ pc \in [Request -> {"new", "create", "user", "update", "sign", "ok", "unauthorized",
                         "error"}]
  /\ who \in [Request -> User \cup {None}]
  /\ auth \in [Request -> [id : Session \cup {None}, exp : Exp]]
  /\ gone \in [Request -> SUBSET (Session \cup User)]
  /\ start \in [Session -> Time]
  /\ \A r \in Request :
       /\ pc[r] \in {"create", "user", "update", "sign"} => who[r] \in User
       /\ pc[r] \in {"user", "update", "sign"} => auth[r].id \in Session

Live(s) == s \in Session /\ sessions[s].life = "live"

Init ==
  /\ now = 0
  /\ users = User
  /\ sessions = [s \in Session |-> [life |-> "unborn", user |-> None, exp |-> 0]]
  /\ tokens = {}
  /\ pc = [r \in Request |-> "new"]
  /\ who = [r \in Request |-> None]
  /\ auth = [r \in Request |-> [id |-> None, exp |-> 0]]
  /\ gone = [r \in Request |-> {}]
  /\ start = [s \in Session |-> 0]
-----------------------------------------------------------------------------
Goto(r, where) == pc' = [pc EXCEPT ![r] = where]

(* The first step of request r. *)
Arrive(r) ==
  /\ pc[r] = "new" /\ \A q \in Request : q < r => pc[q] # "new"
  /\ gone' = [gone EXCEPT ![r] =
                {s \in Session : sessions[s].life = "deleted"} \cup (User \ users)]

(* A login that goes on without the user it has not found. *)
LoginUnchecked(r, u) ==
  /\ Arrive(r)
  /\ Goto(r, "create")
  /\ who' = [who EXCEPT ![r] = IF u \in users THEN u ELSE None]
  /\ UNCHANGED <<now, users, sessions, tokens, auth, start>>

(* login: validatePassword reads the user by name; a wrong password is     *)
(* like a user that does not exist.                                        *)
Login(r, u) ==
  /\ Arrive(r)
  /\ \/ u \in users /\ Goto(r, "create") /\ who' = [who EXCEPT ![r] = u]
     \/ Goto(r, "unauthorized") /\ UNCHANGED who
  /\ UNCHANGED <<now, users, sessions, tokens, auth, start>>

(* The session of somebody else is used again. *)
CreateEmptyAuthReusing(r) ==
  /\ pc[r] = "create"
  /\ \E s \in Session :
       /\ sessions[s].life # "deleted"
       /\ sessions' = [sessions EXCEPT ![s] = [@ EXCEPT !.life = "live", !.user = who[r]]]
       /\ auth' = [auth EXCEPT ![r] = [id |-> s, exp |-> sessions[s].exp]]
  /\ Goto(r, "update")
  /\ UNCHANGED <<now, users, tokens, who, gone, start>>

(* login: createEmptyAuth. *)
CreateEmptyAuth(r) ==
  /\ pc[r] = "create"
  /\ \E s \in Session :
       /\ sessions[s].life = "unborn"
       /\ sessions' = [sessions EXCEPT ![s] = [life |-> "live", user |-> who[r], exp |-> 0]]
       /\ auth' = [auth EXCEPT ![r] = [id |-> s, exp |-> 0]]
  /\ Goto(r, "update")
  /\ UNCHANGED <<now, users, tokens, who, gone, start>>

(* verifyRefreshToken looks at the signature and at the exp. *)
Verified(t) == t \in tokens /\ t.kind = "refresh" /\ now < t.exp

(* The session of the token is taken for granted. *)
RefreshUnchecked(r, t) ==
  /\ Arrive(r)
  /\ Verified(t)
  /\ Goto(r, "user")
  /\ auth' = [auth EXCEPT ![r] = [id |-> t.auth, exp |-> t.exp]]
  /\ who' = [who EXCEPT ![r] = t.sub]
  /\ UNCHANGED <<now, users, sessions, tokens, start>>

(* refreshTokens: the session of the token is looked up ... *)
RefreshTokens(r, t) ==
  /\ Arrive(r)
  /\ \/ /\ Verified(t) /\ Live(t.auth)
        /\ Goto(r, "user")
        /\ auth' = [auth EXCEPT ![r] = [id |-> t.auth, exp |-> sessions[t.auth].exp]]
        /\ who' = [who EXCEPT ![r] = t.sub]
     \/ /\ ~(Verified(t) /\ Live(t.auth))
        /\ Goto(r, "unauthorized")
        /\ UNCHANGED <<who, auth>>
  /\ UNCHANGED <<now, users, sessions, tokens, start>>

(* ... and then the user, without whom generateTokens throws. *)
RefreshUser(r) ==
  /\ pc[r] = "user"
  /\ Goto(r, IF who[r] \in users THEN "update" ELSE "unauthorized")
  /\ UNCHANGED <<now, users, sessions, tokens, who, auth, gone, start>>

(* Every refresh prolongs the session. *)
NewExpSliding(exp) == now + RefreshExp

(* generateTokens chooses an exp only for a session that has none. *)
NewExp(exp) == IF exp = 0 THEN now + RefreshExp ELSE exp

(* generateTokens writes the session (findOneAndUpdate without upsert); it *)
(* does not notice when it is gone.                                        *)
UpdateAuth(r) ==
  LET s == auth[r].id
      exp == NewExp(auth[r].exp)
  IN  /\ pc[r] = "update"
      /\ auth' = [auth EXCEPT ![r].exp = exp]
      /\ sessions' = IF Live(s) THEN [sessions EXCEPT ![s].exp = exp] ELSE sessions
      /\ start' = [start EXCEPT ![s] = IF auth[r].exp = 0 THEN now ELSE @]
      /\ Goto(r, "sign")
      /\ UNCHANGED <<now, users, tokens, who, gone>>

(* getTokens *)
SignTokens(r) ==
  LET signed(kind, exp) == [kind |-> kind, auth |-> auth[r].id, sub |-> who[r], exp |-> exp]
  IN  /\ pc[r] = "sign"
      /\ tokens' = tokens \cup {signed("access", now + AccessExp),
                                signed("refresh", auth[r].exp)}
      /\ Goto(r, "ok")
      /\ UNCHANGED <<now, users, sessions, who, auth, gone, start>>

(* logout, revokeAuthByRefreshToken: findOneAndDelete. *)
Logout(r, t) ==
  /\ Arrive(r)
  /\ IF Verified(t) /\ Live(t.auth)
       THEN Goto(r, "ok") /\ sessions' = [sessions EXCEPT ![t.auth].life = "deleted"]
       ELSE Goto(r, "unauthorized") /\ UNCHANGED sessions
  /\ UNCHANGED <<now, users, tokens, who, auth, start>>

(* A database call fails, with or without having taken effect, or Mongoose *)
(* refuses it: it is left open whether it accepts the document that login  *)
(* passes to updateById where a refresh passes a plain object.             *)
Fail(r) ==
  /\ pc[r] \in {"create", "user", "update", "sign"}
  /\ Goto(r, "error")
  /\ UNCHANGED <<now, users, sessions, tokens, who, auth, gone, start>>
-----------------------------------------------------------------------------
(* Administrators delete users, ... *)
DeleteUser(u) ==
  /\ u \in users
  /\ users' = users \ {u}
  /\ UNCHANGED <<now, sessions, tokens, pc, who, auth, gone, start>>

(* ... and sessions by DELETE auth/:id; the TTL index deletes sessions     *)
(* about when they end.                                                    *)
DeleteSession(s) ==
  /\ Live(s)
  /\ sessions' = [sessions EXCEPT ![s].life = "deleted"]
  /\ UNCHANGED <<now, users, tokens, pc, who, auth, gone, start>>

Tick ==
  /\ now < MaxTime
  /\ now' = now + 1
  /\ UNCHANGED <<users, sessions, tokens, pc, who, auth, gone, start>>

Receive(r) ==
  \/ \E u \in User : Login(r, u)
  \/ \E t \in tokens : t.kind = "refresh" /\ (RefreshTokens(r, t) \/ Logout(r, t))

Continue(r) ==
  CreateEmptyAuth(r) \/ RefreshUser(r) \/ UpdateAuth(r) \/ SignTokens(r) \/ Fail(r)

Next ==
  \/ \E r \in Request : Receive(r) \/ Continue(r)
  \/ \E u \in User : DeleteUser(u)
  \/ \E s \in Session : DeleteSession(s)
  \/ Tick

Spec == Init /\ [][Next]_vars
-----------------------------------------------------------------------------
(* Tokens are signed only for sessions and users that still existed when   *)
(* the request arrived: after a logout, the deletion of the session or of  *)
(* the user, or the session's end, only requests that are already under    *)
(* way may get tokens.                                                     *)
NoTokensAfterRevocation ==
  [][\A r \in Request : SignTokens(r) => {auth[r].id, who[r]} \cap gone[r] = {}]_vars

(* Refreshing never prolongs a session: however refreshes race with each   *)
(* other, all refresh tokens of a session expire together, RefreshExp      *)
(* after the login, and so does the row.                                   *)
SessionsAreNotProlonged ==
  /\ \A t \in tokens : t.kind = "refresh" => t.exp = start[t.auth] + RefreshExp
  /\ \A s \in Session : sessions[s].exp \in {0, start[s] + RefreshExp}

(* Every token belongs to the user who opened its session, whatever was    *)
(* going on at the same time.                                              *)
TokensBelongToTheirUser ==
  \A t \in tokens : sessions[t.auth].life # "unborn" /\ t.sub = sessions[t.auth].user
=============================================================================
