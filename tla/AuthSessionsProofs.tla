-------------------------- MODULE AuthSessionsProofs --------------------------
(***************************************************************************)
(* Proofs about AuthSessions: type correctness, and what its runs check,   *)
(* for any number of users, sessions and requests and any lifetimes; and   *)
(* about Guards, which a request with a session meets next: that answers   *)
(* stay within the data partition that was asked for.                      *)
(***************************************************************************)
EXTENDS AuthSessions, Guards, FiniteSetTheorems, TLAPS

LEMMA ExpFacts ==
  ASSUME now \in Time
  PROVE  /\ now \in Exp
         /\ now + AccessExp \in Exp
         /\ now + RefreshExp \in Exp
         /\ 0 \in Exp
         /\ \A exp \in Exp : NewExp(exp) \in Exp
BY ExpAssumption, MaxTimeAssumption DEF Time, Exp, NewExp

LEMMA InitType == Init => TypeOK
<1> SUFFICES ASSUME Init PROVE TypeOK
  OBVIOUS
<1>1. now \in Time
  BY MaxTimeAssumption DEF Init, Time
<1> QED
  BY <1>1, ExpFacts DEF Init, TypeOK, Row

LEMMA TypeStep == TypeOK /\ [Next]_vars => TypeOK'
<1> SUFFICES ASSUME TypeOK, [Next]_vars PROVE TypeOK'
  OBVIOUS
<1>e. /\ now \in Exp /\ now + AccessExp \in Exp /\ now + RefreshExp \in Exp /\ 0 \in Exp
      /\ \A exp \in Exp : NewExp(exp) \in Exp
  BY ExpFacts DEF TypeOK
<1>d. ASSUME NEW s \in Session, NEW exp \in Exp
      PROVE  /\ [sessions EXCEPT ![s].life = "deleted"] \in [Session -> Row]
             /\ [sessions EXCEPT ![s].exp = exp] \in [Session -> Row]
  <2>1. sessions \in [Session -> Row] /\ sessions[s] \in Row
    BY DEF TypeOK
  <2>2. [sessions[s] EXCEPT !.life = "deleted"] \in Row
    BY <2>1 DEF Row
  <2>3. [sessions[s] EXCEPT !.exp = exp] \in Row
    BY <2>1 DEF Row
  <2> QED
    BY <2>1, <2>2, <2>3
<1>g. ASSUME NEW r \in Request, Arrive(r) PROVE gone' \in [Request -> SUBSET (Session \cup User)]
  <2>1. {s \in Session : sessions[s].life = "deleted"} \cup (User \ users)
          \in SUBSET (Session \cup User)
    OBVIOUS
  <2> QED
    BY <1>g, <2>1 DEF Arrive, TypeOK
<1>1. ASSUME NEW r \in Request, NEW u \in User, Login(r, u) PROVE TypeOK'
  BY <1>1, <1>g DEF TypeOK, Login, Goto
<1>2. ASSUME NEW r \in Request, NEW t \in tokens, RefreshTokens(r, t) PROVE TypeOK'
  <2>1. t \in Token /\ t.auth \in Session /\ t.sub \in User
    BY DEF TypeOK, Token
  <2>2. sessions[t.auth].exp \in Exp
    BY <2>1 DEF TypeOK, Row
  <2>3. gone' \in [Request -> SUBSET (Session \cup User)]
    BY <1>2, <1>g DEF RefreshTokens
  <2>4. CASE Verified(t) /\ Live(t.auth)
    <3>1. /\ pc' = [pc EXCEPT ![r] = "user"]
          /\ auth' = [auth EXCEPT ![r] = [id |-> t.auth, exp |-> sessions[t.auth].exp]]
          /\ who' = [who EXCEPT ![r] = t.sub]
          /\ UNCHANGED <<now, users, sessions, tokens, start>>
      BY <1>2, <2>4 DEF RefreshTokens, Goto
    <3> QED
      BY <2>1, <2>2, <2>3, <3>1 DEF TypeOK
  <2>5. CASE ~(Verified(t) /\ Live(t.auth))
    BY <1>2, <2>3, <2>5 DEF TypeOK, RefreshTokens, Goto
  <2> QED
    BY <2>4, <2>5
<1>3. ASSUME NEW r \in Request, NEW t \in tokens, Logout(r, t) PROVE TypeOK'
  <2>1. gone' \in [Request -> SUBSET (Session \cup User)]
    BY <1>3, <1>g DEF Logout
  <2>2. sessions' \in [Session -> Row]
    <3>1. CASE sessions' = [sessions EXCEPT ![t.auth].life = "deleted"]
      <4>1. t.auth \in Session
        BY DEF TypeOK, Token
      <4> QED
        BY <1>d, <1>e, <3>1, <4>1
    <3>2. CASE UNCHANGED sessions
      BY <3>2 DEF TypeOK
    <3> QED
      BY <1>3, <3>1, <3>2 DEF Logout
  <2>3. \E where \in {"ok", "unauthorized"} : pc' = [pc EXCEPT ![r] = where]
    BY <1>3 DEF Logout, Goto
  <2>4. UNCHANGED <<now, users, tokens, who, auth, start>>
    BY <1>3 DEF Logout
  <2> QED
    BY <2>1, <2>2, <2>3, <2>4 DEF TypeOK
<1>4. ASSUME NEW r \in Request, CreateEmptyAuth(r) PROVE TypeOK'
  <2>1. PICK s \in Session : CreateEmptyAuth(r)!2!(s)
    BY <1>4 DEF CreateEmptyAuth
  <2>2. [life |-> "live", user |-> who[r], exp |-> 0] \in Row
    BY <1>4, <1>e DEF CreateEmptyAuth, TypeOK, Row
  <2> QED
    BY <1>4, <1>e, <2>1, <2>2 DEF TypeOK, CreateEmptyAuth, Goto
<1>5. ASSUME NEW r \in Request, RefreshUser(r) PROVE TypeOK'
  BY <1>5 DEF TypeOK, RefreshUser, Goto
<1>6. ASSUME NEW r \in Request, UpdateAuth(r) PROVE TypeOK'
  <2>1. auth[r].id \in Session /\ auth[r].exp \in Exp /\ NewExp(auth[r].exp) \in Exp
    BY <1>6, <1>e DEF TypeOK, UpdateAuth
  <2>2. sessions' \in [Session -> Row]
    BY <1>6, <1>d, <2>1 DEF TypeOK, UpdateAuth
  <2>3. start' \in [Session -> Time]
    BY <1>6 DEF TypeOK, UpdateAuth
  <2> QED
    BY <1>6, <2>1, <2>2, <2>3 DEF TypeOK, UpdateAuth, Goto
<1>7. ASSUME NEW r \in Request, SignTokens(r) PROVE TypeOK'
  <2>1. auth[r].id \in Session /\ who[r] \in User /\ auth[r].exp \in Exp
    BY <1>7 DEF TypeOK, SignTokens
  <2>2. tokens' \subseteq Token
    BY <1>7, <1>e, <2>1 DEF SignTokens, TypeOK, Token
  <2> QED
    BY <1>7, <2>1, <2>2 DEF TypeOK, SignTokens, Goto
<1>8. ASSUME NEW r \in Request, Fail(r) PROVE TypeOK'
  BY <1>8 DEF TypeOK, Fail, Goto
<1>9. ASSUME NEW u \in User, DeleteUser(u) PROVE TypeOK'
  BY <1>9 DEF TypeOK, DeleteUser
<1>10. ASSUME NEW s \in Session, DeleteSession(s) PROVE TypeOK'
  <2>1. sessions' \in [Session -> Row]
    BY <1>10, <1>d, <1>e DEF DeleteSession
  <2> QED
    BY <1>10, <2>1 DEF TypeOK, DeleteSession
<1>11. CASE Tick
  BY <1>11, MaxTimeAssumption DEF TypeOK, Tick, Time
<1>12. CASE UNCHANGED vars
  BY <1>12 DEF TypeOK, vars
<1> QED
  BY <1>1, <1>2, <1>3, <1>4, <1>5, <1>6, <1>7, <1>8, <1>9, <1>10, <1>11, <1>12
     DEF Next, Receive, Continue

(* Every variable keeps its type, and a request knows its user and its     *)
(* session when it needs them.                                             *)
THEOREM TypeCorrect == Spec => []TypeOK
  BY InitType, TypeStep, PTL DEF Spec
-----------------------------------------------------------------------------
(* Requests that have a session, and those among them that have just       *)
(* created it and are about to choose its exp.                             *)
Busy(r) == pc[r] \in {"user", "update", "sign"}

Fresh(r) == pc[r] = "update" /\ auth[r].exp = 0

(* Nobody but its login knows a session without exp. *)
Alone(r) ==
  /\ sessions[auth[r].id].exp = 0
  /\ \A q \in Request \ {r} : Busy(q) => auth[q].id # auth[r].id
  /\ \A t \in tokens : t.auth # auth[r].id

AloneInv ==
  /\ \A r \in Request : Busy(r) => sessions[auth[r].id].life # "unborn"
  /\ \A t \in tokens : sessions[t.auth].life # "unborn"
  /\ \A r \in Request : Fresh(r) => Alone(r)

Idle(r) == pc'[r] = pc[r] /\ who'[r] = who[r] /\ auth'[r] = auth[r]

(* A session whose tokens have been signed, or are about to be: unless it  *)
(* was deleted first, the exp is in its row.                               *)
Dated(s) ==
  /\ sessions[s].life # "unborn"
  /\ sessions[s].life = "live" => sessions[s].exp = start[s] + RefreshExp

(* A request under way knows the user of its session, and the exp that the *)
(* login has set.                                                          *)
Known(r) ==
  /\ Busy(r) =>
       /\ sessions[auth[r].id].life # "unborn"
       /\ who[r] = sessions[auth[r].id].user
       /\ Fresh(r) \/ auth[r].exp = start[auth[r].id] + RefreshExp
  /\ pc[r] = "sign" => Dated(auth[r].id)

Good(t) ==
  /\ Dated(t.auth)
  /\ t.sub = sessions[t.auth].user
  /\ t.kind = "refresh" => t.exp = start[t.auth] + RefreshExp

AuthInv ==
  /\ \A s \in Session : sessions[s].exp \in {0, start[s] + RefreshExp}
  /\ \A r \in Request : Known(r)
  /\ \A t \in tokens : Good(t)

LEMMA AuthInvImplies == AuthInv => SessionsAreNotProlonged /\ TokensBelongToTheirUser
BY DEF AuthInv, Good, Dated, SessionsAreNotProlonged, TokensBelongToTheirUser

LEMMA InitAuthInv == Init => AuthInv /\ AloneInv
BY DEF Init, AuthInv, Known, AloneInv, Busy, Fresh

(* What a step may do to a session. *)
Kept(s) ==
  /\ sessions[s].life # "unborn" =>
       /\ sessions'[s].life # "unborn"
       /\ sessions'[s].user = sessions[s].user
       /\ start'[s] = start[s]
  /\ Dated(s) => Dated(s)'
  /\ sessions'[s].exp \in {0, start'[s] + RefreshExp}

(* x is a session whose exp has been chosen; nobody else knows it.         *)
LEMMA KeptButOne ==
  ASSUME TypeOK, AuthInv, NEW x,
         \A s \in Session \ {x} : Kept(s),
         x \in Session => sessions'[x].exp \in {0, start'[x] + RefreshExp},
         \A r \in Request : (Idle(r) /\ (Busy(r) => auth[r].id # x)) \/ Known(r)',
         \A t \in tokens' : (t \in tokens /\ t.auth # x) \/ Good(t)'
  PROVE  AuthInv'
<1>1. ASSUME NEW r \in Request, Idle(r), Busy(r) => auth[r].id # x PROVE Known(r)'
  <2>1. CASE Busy(r)
    <3>1. auth[r].id \in Session \ {x} /\ Known(r) /\ Kept(auth[r].id)
      BY <1>1, <2>1 DEF TypeOK, AuthInv, Busy
    <3> QED
      BY <1>1, <2>1, <3>1 DEF Known, Kept, Idle, Dated, Busy, Fresh
  <2>2. CASE ~Busy(r)
    BY <1>1, <2>2 DEF Known, Idle, Busy
  <2> QED
    BY <2>1, <2>2
<1>2. ASSUME NEW t \in tokens, t.auth # x PROVE Good(t)'
  <2>1. t.auth \in Session /\ Good(t) /\ Kept(t.auth)
    BY <1>2 DEF TypeOK, Token, AuthInv
  <2> QED
    BY <2>1 DEF Good, Kept, Dated
<1>3. \A s \in Session : (sessions[s].exp \in {0, start[s] + RefreshExp})'
  BY DEF Kept
<1> QED
  BY <1>1, <1>2, <1>3 DEF AuthInv

LEMMA KeptAuthInv ==
  ASSUME TypeOK, AuthInv,
         \A s \in Session : Kept(s),
         \A r \in Request : Idle(r) \/ Known(r)',
         \A t \in tokens' : t \in tokens \/ Good(t)'
  PROVE  AuthInv'
<1>1. \A r \in Request : Busy(r) => auth[r].id # None
  BY NoneAssumption DEF TypeOK, Busy
<1>2. \A t \in tokens : t.auth # None
  BY NoneAssumption DEF TypeOK, Token
<1> QED
  BY <1>1, <1>2, KeptButOne, NoneAssumption

(* The session table is as it was. *)
LEMMA SameSessions ==
  ASSUME AuthInv, UNCHANGED <<sessions, start>>
  PROVE  \A s \in Session : Kept(s)
BY DEF AuthInv, Kept, Dated

(* A session has been deleted. *)
LEMMA DeletedSession ==
  ASSUME TypeOK, AuthInv, NEW d \in Session, UNCHANGED start,
         sessions' = [sessions EXCEPT ![d].life = "deleted"]
  PROVE  \A s \in Session : Kept(s)
<1> SUFFICES ASSUME NEW s \in Session PROVE Kept(s)
  OBVIOUS
<1>1. sessions[s] \in Row /\ sessions[s].exp \in {0, start[s] + RefreshExp}
  BY DEF TypeOK, AuthInv
<1>2. CASE s = d
  BY <1>1, <1>2 DEF Kept, Dated, TypeOK, Row
<1>3. CASE s # d
  BY <1>1, <1>3 DEF Kept, Dated, TypeOK
<1> QED
  BY <1>2, <1>3

LEMMA AloneStep == TypeOK /\ AuthInv /\ AloneInv /\ [Next]_vars => AloneInv'
<1> SUFFICES ASSUME TypeOK, AuthInv, AloneInv, [Next]_vars PROVE AloneInv'
  OBVIOUS
<1>a. ASSUME NEW r \in Request, \A q \in Request \ {r} : Idle(q), ~Busy(r)',
             \A s \in Session : /\ sessions[s].life # "unborn" => sessions'[s].life # "unborn"
                                /\ sessions'[s].exp = sessions[s].exp,
             \A t \in tokens' : t \in tokens \/ (Busy(r) /\ t.auth = auth[r].id)
      PROVE  AloneInv'
  <2>1. \A q \in Request : Busy(q) => auth[q].id \in Session
    BY DEF TypeOK, Busy
  <2>2. \A q \in Request : Busy(q)' => q # r /\ Busy(q) /\ auth'[q] = auth[q]
    BY <1>a DEF Busy, Idle
  <2>3. \A q \in Request : Fresh(q)' => Fresh(q)
    BY <1>a, <2>2 DEF Busy, Fresh, Idle
  <2>4. \A t \in tokens : t.auth \in Session
    BY DEF TypeOK, Token
  <2> QED
    BY <1>a, <2>1, <2>2, <2>3, <2>4 DEF AloneInv, Alone, Fresh, Busy
<1>1. ASSUME NEW r \in Request, NEW u \in User, Login(r, u) PROVE AloneInv'
  <2>1. (\A q \in Request \ {r} : Idle(q)) /\ ~Busy(r)'
    BY <1>1 DEF Login, Goto, TypeOK, Idle, Busy
  <2> QED
    BY <1>1, <1>a, <2>1 DEF Login
<1>2. ASSUME NEW r \in Request, NEW t \in tokens, RefreshTokens(r, t) PROVE AloneInv'
  <2>1. (\A q \in Request \ {r} : Idle(q)) /\ UNCHANGED <<sessions, tokens>>
    BY <1>2 DEF RefreshTokens, Goto, TypeOK, Idle
  <2>2. CASE Verified(t) /\ Live(t.auth)
    <3>1. /\ pc'[r] = "user" /\ auth'[r].id = t.auth
          /\ sessions[t.auth].life # "unborn"
      BY <1>2, <2>2 DEF RefreshTokens, Goto, TypeOK, Live
    <3> QED
      BY <2>1, <3>1 DEF AloneInv, Alone, Fresh, Busy, Idle
  <2>3. CASE ~(Verified(t) /\ Live(t.auth))
    <3>1. ~Busy(r)'
      BY <1>2, <2>3 DEF RefreshTokens, Goto, TypeOK, Busy
    <3> QED
      BY <1>a, <2>1, <3>1
  <2> QED
    BY <2>2, <2>3
<1>3. ASSUME NEW r \in Request, NEW t \in tokens, Logout(r, t) PROVE AloneInv'
  <2>1. (\A q \in Request \ {r} : Idle(q)) /\ ~Busy(r)' /\ UNCHANGED tokens
    BY <1>3 DEF Logout, Goto, TypeOK, Idle, Busy
  <2>2. \A s \in Session : /\ sessions[s].life # "unborn" => sessions'[s].life # "unborn"
                           /\ sessions'[s].exp = sessions[s].exp
    BY <1>3 DEF Logout, TypeOK, Row
  <2> QED
    BY <1>a, <2>1, <2>2
<1>4. ASSUME NEW r \in Request, CreateEmptyAuth(r) PROVE AloneInv'
  <2>1. PICK s \in Session : CreateEmptyAuth(r)!2!(s)
    BY <1>4 DEF CreateEmptyAuth
  <2>2. /\ sessions[s].life = "unborn"
        /\ sessions'[s].life = "live" /\ sessions'[s].exp = 0
        /\ \A z \in Session \ {s} : sessions'[z] = sessions[z]
        /\ pc'[r] = "update" /\ auth'[r].id = s
        /\ UNCHANGED tokens
    BY <1>4, <2>1 DEF CreateEmptyAuth, Goto, TypeOK
  <2>3. \A q \in Request \ {r} : Idle(q)
    BY <1>4, <2>1 DEF CreateEmptyAuth, Goto, Idle, TypeOK
  <2>4. \A q \in Request : Busy(q) => auth[q].id \in Session \ {s}
    BY <2>2 DEF TypeOK, Busy, AloneInv
  <2>5. \A t \in tokens : t.auth \in Session \ {s}
    BY <2>2 DEF TypeOK, Token, AloneInv
  <2> QED
    BY <2>2, <2>3, <2>4, <2>5 DEF AloneInv, Alone, Fresh, Busy, Idle
<1>5. ASSUME NEW r \in Request, RefreshUser(r) PROVE AloneInv'
  <2>1. /\ pc[r] = "user" /\ pc'[r] \in {"update", "unauthorized"}
        /\ \A q \in Request \ {r} : Idle(q)
        /\ UNCHANGED <<sessions, tokens, auth>>
    BY <1>5 DEF RefreshUser, Goto, TypeOK, Idle
  <2>2. auth[r].id \in Session /\ Known(r) /\ start[auth[r].id] \in Nat
    BY <2>1 DEF AuthInv, TypeOK, Time
  <2>3. auth[r].exp # 0
    BY <2>1, <2>2, ExpAssumption DEF Known, Busy, Fresh
  <2>4. Busy(r) /\ \A q \in Request : Busy(q)' => Busy(q)
    BY <2>1 DEF Busy, Idle
  <2>5. ASSUME NEW q \in Request, Fresh(q)' PROVE Alone(q)'
    <3>1. Fresh(q)
      BY <2>1, <2>3, <2>5 DEF Fresh, Idle
    <3>2. Alone(q)
      BY <3>1 DEF AloneInv
    <3> QED
      BY <2>1, <2>4, <3>2 DEF Alone, Busy
  <2> QED
    BY <2>1, <2>4, <2>5 DEF AloneInv, Busy
<1>6. ASSUME NEW r \in Request, UpdateAuth(r) PROVE AloneInv'
  <2>1. /\ auth[r].id \in Session /\ Busy(r) /\ pc'[r] = "sign"
        /\ auth'[r].id = auth[r].id
        /\ \A q \in Request \ {r} : Idle(q)
        /\ UNCHANGED tokens
    BY <1>6 DEF UpdateAuth, Goto, TypeOK, Idle, Busy
  <2>2. \A s \in Session : /\ sessions'[s].life = sessions[s].life
                           /\ s # auth[r].id => sessions'[s] = sessions[s]
    BY <1>6 DEF UpdateAuth, TypeOK, Row
  <2>3. \A q \in Request : /\ Busy(q) => auth[q].id \in Session
                           /\ Busy(q)' => Busy(q) /\ auth'[q].id = auth[q].id
                           /\ Fresh(q)' => q # r /\ Fresh(q)
    BY <2>1 DEF Busy, Fresh, Idle, TypeOK
  <2>4. \A t \in tokens : t.auth \in Session
    BY DEF TypeOK, Token
  <2>5. ASSUME NEW q \in Request, Fresh(q)' PROVE Alone(q)'
    <3>1. q # r /\ Fresh(q) /\ Alone(q) /\ auth'[q].id = auth[q].id /\ auth[q].id \in Session
      BY <2>3, <2>5 DEF AloneInv, Busy, Fresh
    <3>2. auth[q].id # auth[r].id
      BY <2>1, <3>1 DEF Alone
    <3> QED
      BY <2>1, <2>2, <2>3, <3>1, <3>2 DEF Alone
  <2> QED
    BY <2>1, <2>2, <2>3, <2>4, <2>5 DEF AloneInv
<1>7. ASSUME NEW r \in Request, SignTokens(r) \/ Fail(r) PROVE AloneInv'
  <2>1. (\A q \in Request \ {r} : Idle(q)) /\ ~Busy(r)' /\ UNCHANGED sessions
    BY <1>7 DEF SignTokens, Fail, Goto, TypeOK, Idle, Busy
  <2>2. \A t \in tokens' : t \in tokens \/ (Busy(r) /\ t.auth = auth[r].id)
    BY <1>7 DEF SignTokens, Fail, Busy
  <2> QED
    BY <1>a, <2>1, <2>2
<1>8. ASSUME NEW s \in Session, DeleteSession(s) PROVE AloneInv'
  <2>1. \A z \in Session : /\ sessions[z].life # "unborn" => sessions'[z].life # "unborn"
                           /\ sessions'[z].exp = sessions[z].exp
    BY <1>8 DEF DeleteSession, TypeOK, Row
  <2>2. /\ \A q \in Request : Busy(q) => auth[q].id \in Session
        /\ \A t \in tokens : t.auth \in Session
    BY DEF TypeOK, Busy, Token
  <2> QED
    BY <1>8, <2>1, <2>2 DEF DeleteSession, AloneInv, Alone, Fresh, Busy
<1>9. CASE UNCHANGED <<sessions, pc, who, auth, tokens>>
  BY <1>9 DEF AloneInv, Alone, Fresh, Busy
<1> QED
  BY <1>1, <1>2, <1>3, <1>4, <1>5, <1>6, <1>7, <1>8, <1>9
     DEF Next, Receive, Continue, DeleteUser, Tick, vars

LEMMA AuthStep == TypeOK /\ AuthInv /\ AloneInv /\ [Next]_vars => AuthInv'
<1> SUFFICES ASSUME TypeOK, AuthInv, AloneInv, [Next]_vars PROVE AuthInv'
  OBVIOUS
<1>1. ASSUME NEW r \in Request, NEW u \in User, Login(r, u) PROVE AuthInv'
  <2>1. \A q \in Request : Idle(q) \/ Known(q)'
    BY <1>1 DEF Login, Goto, TypeOK, Idle, Known, Busy
  <2> QED
    BY <1>1, <2>1, SameSessions, KeptAuthInv DEF Login
<1>2. ASSUME NEW r \in Request, NEW t \in tokens, RefreshTokens(r, t) PROVE AuthInv'
  <2>1. \A q \in Request \ {r} : Idle(q)
    BY <1>2 DEF RefreshTokens, Goto, TypeOK, Idle
  <2>2. CASE Verified(t) /\ Live(t.auth)
    <3>1. /\ pc'[r] = "user" /\ who'[r] = t.sub /\ UNCHANGED <<sessions, start>>
          /\ auth'[r].id = t.auth /\ auth'[r].exp = sessions[t.auth].exp
      BY <1>2, <2>2 DEF RefreshTokens, Goto, TypeOK
    <3>2. Good(t) /\ sessions[t.auth].life = "live"
      BY <2>2 DEF AuthInv, Live
    <3> QED
      BY <1>2, <2>1, <3>1, <3>2, SameSessions, KeptAuthInv
         DEF RefreshTokens, Known, Good, Dated, Busy
  <2>3. CASE ~(Verified(t) /\ Live(t.auth))
    <3>1. Known(r)'
      BY <1>2, <2>3 DEF RefreshTokens, Goto, TypeOK, Known, Busy
    <3> QED
      BY <1>2, <2>1, <3>1, SameSessions, KeptAuthInv DEF RefreshTokens
  <2> QED
    BY <2>2, <2>3
<1>3. ASSUME NEW r \in Request, NEW t \in tokens, Logout(r, t) PROVE AuthInv'
  <2>1. \A q \in Request : Idle(q) \/ Known(q)'
    BY <1>3 DEF Logout, Goto, TypeOK, Idle, Known, Busy
  <2>2. t.auth \in Session
    BY DEF TypeOK, Token
  <2>3. \A s \in Session : Kept(s)
    BY <1>3, <2>2, SameSessions, DeletedSession DEF Logout
  <2> QED
    BY <1>3, <2>1, <2>3, KeptAuthInv DEF Logout
<1>4. ASSUME NEW r \in Request, CreateEmptyAuth(r) PROVE AuthInv'
  <2>1. PICK s \in Session : CreateEmptyAuth(r)!2!(s)
    BY <1>4 DEF CreateEmptyAuth
  <2>2. /\ sessions'[s] = [life |-> "live", user |-> who[r], exp |-> 0]
        /\ auth'[r] = [id |-> s, exp |-> 0]
        /\ pc'[r] = "update" /\ who'[r] = who[r] /\ UNCHANGED start
    BY <1>4, <2>1 DEF CreateEmptyAuth, Goto, TypeOK
  <2>3. Kept(s)
    BY <2>1, <2>2 DEF Kept, Dated
  <2>4. \A z \in Session \ {s} : Kept(z)
    BY <2>1, <2>2 DEF Kept, Dated, TypeOK, AuthInv
  <2>5. \A q \in Request \ {r} : Idle(q)
    BY <1>4, <2>1 DEF CreateEmptyAuth, Goto, Idle, TypeOK
  <2>6. Known(r)'
    BY <2>2 DEF Known, Busy, Fresh
  <2> QED
    BY <1>4, <2>3, <2>4, <2>5, <2>6, KeptAuthInv DEF CreateEmptyAuth
<1>5. ASSUME NEW r \in Request, RefreshUser(r) PROVE AuthInv'
  <2>1. /\ Known(r) /\ pc[r] = "user" /\ pc'[r] \in {"update", "unauthorized"}
        /\ \A q \in Request \ {r} : Idle(q)
        /\ UNCHANGED <<sessions, start, tokens, who, auth>>
    BY <1>5 DEF RefreshUser, Goto, TypeOK, AuthInv, Idle
  <2>2. Known(r)'
    BY <2>1 DEF Known, Busy, Fresh
  <2> QED
    BY <2>1, <2>2, SameSessions, KeptAuthInv
<1>6. ASSUME NEW r \in Request, UpdateAuth(r) PROVE AuthInv'
  <2>1. /\ auth[r].id \in Session /\ Known(r) /\ pc[r] = "update"
        /\ pc'[r] = "sign" /\ auth'[r].id = auth[r].id
        /\ auth'[r].exp = NewExp(auth[r].exp)
        /\ \A q \in Request \ {r} : Idle(q)
        /\ UNCHANGED <<who, tokens>>
    BY <1>6 DEF UpdateAuth, Goto, TypeOK, AuthInv, Idle
  <2>2. \A s \in Session :
          /\ sessions'[s].life = sessions[s].life /\ sessions'[s].user = sessions[s].user
          /\ sessions'[s].exp = IF s = auth[r].id /\ Live(s) THEN NewExp(auth[r].exp)
                                                            ELSE sessions[s].exp
          /\ start'[s] = IF s = auth[r].id /\ auth[r].exp = 0 THEN now ELSE start[s]
    BY <1>6, <2>1 DEF UpdateAuth, TypeOK, Row
  <2>3. \A s \in Session \ {auth[r].id} : Kept(s)
    BY <2>2 DEF Kept, Dated, AuthInv
  <2>4. NewExp(auth[r].exp) = start'[auth[r].id] + RefreshExp
    BY <2>1, <2>2 DEF NewExp, Known, Busy, Fresh
  <2>5. Known(r)'
    BY <2>1, <2>2, <2>4 DEF Known, Dated, Busy, Fresh, Live
  <2>6. CASE Fresh(r)
    <3>1. Alone(r)
      BY <2>6 DEF AloneInv
    <3>2. sessions'[auth[r].id].exp \in {0, start'[auth[r].id] + RefreshExp}
      BY <2>1, <2>2, <2>4, <3>1 DEF Alone
    <3> QED
      BY <2>1, <2>3, <2>5, <3>1, <3>2, KeptButOne DEF Alone
  <2>7. CASE ~Fresh(r)
    <3>1. Kept(auth[r].id)
      BY <2>1, <2>2, <2>4, <2>7 DEF Kept, Dated, AuthInv, Fresh, Live
    <3> QED
      BY <2>1, <2>3, <2>5, <3>1, KeptAuthInv
  <2> QED
    BY <2>6, <2>7
<1>7. ASSUME NEW r \in Request, SignTokens(r) PROVE AuthInv'
  <2>1. Known(r) /\ pc[r] = "sign" /\ UNCHANGED <<sessions, start, who, auth>>
    BY <1>7 DEF SignTokens, AuthInv
  <2>2. \A q \in Request : Idle(q) \/ Known(q)'
    BY <1>7 DEF SignTokens, Goto, TypeOK, Idle, Known, Busy
  <2>3. \A t \in tokens' : t \in tokens \/ Good(t)'
    BY <1>7, <2>1 DEF SignTokens, Known, Good, Dated, Busy, Fresh
  <2> QED
    BY <2>1, <2>2, <2>3, SameSessions, KeptAuthInv
<1>8. ASSUME NEW r \in Request, Fail(r) PROVE AuthInv'
  <2>1. \A q \in Request : Idle(q) \/ Known(q)'
    BY <1>8 DEF Fail, Goto, TypeOK, Idle, Known, Busy
  <2> QED
    BY <1>8, <2>1, SameSessions, KeptAuthInv DEF Fail
<1>9. ASSUME NEW s \in Session, DeleteSession(s) PROVE AuthInv'
  BY <1>9, DeletedSession, KeptAuthInv DEF DeleteSession, Idle
<1>10. CASE UNCHANGED <<sessions, start, pc, who, auth, tokens>>
  BY <1>10, SameSessions, KeptAuthInv DEF Idle
<1> QED
  BY <1>1, <1>2, <1>3, <1>4, <1>5, <1>6, <1>7, <1>8, <1>9, <1>10
     DEF Next, Receive, Continue, DeleteUser, Tick, vars

(* However refreshes race, no session is ever prolonged. *)
THEOREM NotProlonged == Spec => []SessionsAreNotProlonged
  BY InitType, TypeStep, InitAuthInv, AuthStep, AloneStep, AuthInvImplies, PTL DEF Spec

(* No interleaving hands a user the token of another user's session. *)
THEOREM TokensBelong == Spec => []TokensBelongToTheirUser
  BY InitType, TypeStep, InitAuthInv, AuthStep, AloneStep, AuthInvImplies, PTL DEF Spec
-----------------------------------------------------------------------------
(* What was revoked when a request arrived stays revoked, and the session  *)
(* and the user that the request has looked up were not.                   *)
RevokedStays(r) ==
  /\ gone[r] \cap users = {}
  /\ \A s \in gone[r] \cap Session : sessions[s].life = "deleted"

LookedUp(r) ==
  /\ pc[r] \in {"user", "update", "sign"} => auth[r].id \notin gone[r]
  /\ pc[r] \in {"create", "update", "sign"} => who[r] \notin gone[r]

RevocationInv == \A r \in Request : RevokedStays(r) /\ LookedUp(r)

LEMMA InitRevocationInv == Init => RevocationInv
BY DEF Init, RevocationInv, RevokedStays, LookedUp

(* Deleted users and sessions do not come back. *)
LEMMA DeletedStays ==
  ASSUME TypeOK, [Next]_vars
  PROVE  /\ users' \subseteq users
         /\ \A s \in Session : sessions[s].life = "deleted" => sessions'[s].life = "deleted"
<1>1. users' \subseteq users
  BY DEF Next, Receive, Continue, Login, RefreshTokens, Logout, CreateEmptyAuth, RefreshUser,
         UpdateAuth, SignTokens, Fail, DeleteUser, DeleteSession, Tick, vars
<1>2. ASSUME NEW s \in Session, sessions[s].life = "deleted"
      PROVE  sessions'[s].life = "deleted"
  <2>1. ASSUME NEW r \in Request, CreateEmptyAuth(r) PROVE sessions'[s].life = "deleted"
    BY <1>2, <2>1 DEF CreateEmptyAuth, TypeOK
  <2>2. ASSUME NEW r \in Request, UpdateAuth(r) PROVE sessions'[s].life = "deleted"
    BY <1>2, <2>2 DEF UpdateAuth, TypeOK, Live, Row
  <2>3. ASSUME NEW r \in Request, NEW t \in tokens, Logout(r, t)
        PROVE  sessions'[s].life = "deleted"
    BY <1>2, <2>3 DEF Logout, TypeOK, Row
  <2>4. ASSUME NEW d \in Session, DeleteSession(d) PROVE sessions'[s].life = "deleted"
    BY <1>2, <2>4 DEF DeleteSession, TypeOK, Row
  <2>5. CASE UNCHANGED sessions
    BY <1>2, <2>5
  <2> QED
    BY <2>1, <2>2, <2>3, <2>4, <2>5 DEF Next, Receive, Continue, Login, RefreshTokens,
       RefreshUser, SignTokens, Fail, DeleteUser, Tick, vars
<1> QED
  BY <1>1, <1>2

(* Each request is on its own: r is at most the one that has just moved. *)
LEMMA RevocationKept ==
  ASSUME TypeOK, RevocationInv, [Next]_vars, NEW r \in Request,
         \/ gone'[r] = gone[r]
         \/ gone'[r] = {s \in Session : sessions[s].life = "deleted"} \cup (User \ users),
         (Idle(r) /\ gone'[r] = gone[r]) \/ LookedUp(r)'
  PROVE  RevokedStays(r)' /\ LookedUp(r)'
<1>1. /\ users \subseteq User /\ users' \subseteq users
      /\ \A s \in Session : sessions[s].life = "deleted" => sessions'[s].life = "deleted"
  BY DeletedStays DEF TypeOK
<1>2. RevokedStays(r)'
  <2>1. CASE gone'[r] = gone[r]
    BY <1>1, <2>1 DEF RevocationInv, RevokedStays
  <2>2. CASE gone'[r] = {s \in Session : sessions[s].life = "deleted"} \cup (User \ users)
    BY <1>1, <2>2, DisjointAssumption DEF RevokedStays
  <2> QED
    BY <2>1, <2>2
<1>3. LookedUp(r)'
  BY DEF RevocationInv, LookedUp, Idle
<1> QED
  BY <1>2, <1>3

LEMMA RevocationStep == TypeOK /\ RevocationInv /\ [Next]_vars => RevocationInv'
<1> SUFFICES ASSUME TypeOK, RevocationInv, [Next]_vars,
                    NEW q \in Request
             PROVE  (RevokedStays(q) /\ LookedUp(q))'
  BY DEF RevocationInv
<1>0. RevokedStays(q) /\ LookedUp(q)
  BY DEF RevocationInv
<1>a. ASSUME NEW r \in Request, Arrive(r)
      PROVE  /\ pc[r] = "new"
             /\ gone'[r] = {s \in Session : sessions[s].life = "deleted"} \cup (User \ users)
             /\ q # r => gone'[q] = gone[q]
  BY <1>a DEF Arrive, TypeOK
<1>1. ASSUME NEW r \in Request, NEW u \in User, Login(r, u) PROVE (RevokedStays(q) /\ LookedUp(q))'
  <2>1. (Idle(q) /\ gone'[q] = gone[q]) \/ LookedUp(q)'
    BY <1>1, <1>a, DisjointAssumption DEF Login, Goto, TypeOK, Idle, LookedUp
  <2> QED
    BY <1>1, <1>a, <2>1, RevocationKept DEF Login
<1>2. ASSUME NEW r \in Request, NEW t \in tokens, RefreshTokens(r, t)
      PROVE  (RevokedStays(q) /\ LookedUp(q))'
  <2>1. Arrive(r) /\ t.auth \in Session
    BY <1>2 DEF RefreshTokens, TypeOK, Token
  <2>2. (Idle(q) /\ gone'[q] = gone[q]) \/ LookedUp(q)'
    <3>1. CASE q # r
      BY <1>2, <1>a, <2>1, <3>1 DEF RefreshTokens, Goto, TypeOK, Idle
    <3>2. CASE q = r /\ Verified(t) /\ Live(t.auth)
      <4>1. t.auth \notin gone'[r]
        BY <1>a, <2>1, <3>2, DisjointAssumption DEF Live
      <4>2. pc'[r] = "user" /\ auth'[r].id = t.auth
        BY <1>2, <3>2 DEF RefreshTokens, Goto, TypeOK
      <4> QED
        BY <3>2, <4>1, <4>2 DEF LookedUp
    <3>3. CASE q = r /\ ~(Verified(t) /\ Live(t.auth))
      BY <1>2, <3>3 DEF RefreshTokens, Goto, TypeOK, LookedUp
    <3> QED
      BY <3>1, <3>2, <3>3
  <2> QED
    BY <1>a, <2>1, <2>2, RevocationKept
<1>3. ASSUME NEW r \in Request, NEW t \in tokens, Logout(r, t)
      PROVE  (RevokedStays(q) /\ LookedUp(q))'
  <2>1. (Idle(q) /\ gone'[q] = gone[q]) \/ LookedUp(q)'
    BY <1>3, <1>a DEF Logout, Goto, TypeOK, Idle, LookedUp
  <2> QED
    BY <1>3, <1>a, <2>1, RevocationKept DEF Logout
<1>4. ASSUME NEW r \in Request, CreateEmptyAuth(r) PROVE (RevokedStays(q) /\ LookedUp(q))'
  <2>1. PICK s \in Session : CreateEmptyAuth(r)!2!(s)
    BY <1>4 DEF CreateEmptyAuth
  <2>2. q = r => s \notin gone[q] /\ who[q] \notin gone[q]
    BY <1>0, <1>4, <2>1 DEF RevokedStays, LookedUp, CreateEmptyAuth
  <2>3. q = r => pc'[q] = "update" /\ auth'[q].id = s
    BY <1>4, <2>1 DEF CreateEmptyAuth, Goto, TypeOK
  <2>4. q # r => pc'[q] = pc[q] /\ auth'[q] = auth[q]
    BY <1>4, <2>1 DEF CreateEmptyAuth, Goto, TypeOK
  <2>5. UNCHANGED <<gone, who>>
    BY <1>4 DEF CreateEmptyAuth
  <2> QED
    BY <2>2, <2>3, <2>4, <2>5, RevocationKept DEF Idle, LookedUp
<1>5. ASSUME NEW r \in Request, RefreshUser(r) PROVE (RevokedStays(q) /\ LookedUp(q))'
  <2>1. q = r /\ who[r] \in users => who[q] \notin gone[q]
    BY <1>0 DEF RevokedStays
  <2>2. Idle(q) \/ LookedUp(q)'
    BY <1>0, <1>5, <2>1 DEF RefreshUser, Goto, TypeOK, Idle, LookedUp
  <2> QED
    BY <1>5, <2>2, RevocationKept DEF RefreshUser
<1>6. ASSUME NEW r \in Request, UpdateAuth(r) \/ SignTokens(r) \/ Fail(r)
      PROVE  (RevokedStays(q) /\ LookedUp(q))'
  <2>1. UNCHANGED <<who, gone>> /\ auth'[q].id = auth[q].id /\ (q # r => auth'[q] = auth[q])
    BY <1>6 DEF UpdateAuth, SignTokens, Fail, TypeOK
  <2>2. Idle(q) \/ LookedUp(q)'
    BY <1>0, <1>6, <2>1 DEF UpdateAuth, SignTokens, Fail, Goto, TypeOK, Idle, LookedUp
  <2> QED
    BY <2>1, <2>2, RevocationKept
<1>7. CASE UNCHANGED <<pc, who, auth, gone>>
  BY <1>7, RevocationKept DEF Idle
<1> QED
  BY <1>1, <1>2, <1>3, <1>4, <1>5, <1>6, <1>7
     DEF Next, Receive, Continue, DeleteUser, DeleteSession, Tick, vars

(* A request that arrives after a logout, or after the deletion of its     *)
(* session or user, gets no tokens.                                        *)
THEOREM RevocationIsFinal == Spec => NoTokensAfterRevocation
<1>1. RevocationInv =>
        [\A r \in Request : SignTokens(r) => {auth[r].id, who[r]} \cap gone[r] = {}]_vars
  BY DEF RevocationInv, LookedUp, SignTokens
<1> QED
  BY <1>1, InitType, TypeStep, InitRevocationInv, RevocationStep, PTL
     DEF Spec, NoTokensAfterRevocation

-----------------------------------------------------------------------------
(* Guards *)

LEMMA QuestionIsAsked ==
  ASSUME NEW r \in Requests, req[r] \in Message(r)
  PROVE  /\ Question(r).ask \in {"getPage", "getById", "getExport", "create"}
         /\ Question(r).condition \in Seq(Elements(Question(r).condition))
         /\ req[r].header \in Codes \cup {Null}
         /\ req[r].question \in DOMAIN Asked[r]
BY GuardsAssumption DEF Message, Question

\* Whatever the client's condition says, once it is scoped it names the partition.
LEMMA ScopedNamesPartition ==
  ASSUME NEW condition, condition \in Seq(Elements(condition)), NEW code, code # Null
  PROVE  PartitionRecord(code) \in Elements(Scoped(condition, code))
<1> DEFINE replaced == [i \in DOMAIN condition |->
                          IF i \in Named(condition) THEN PartitionRecord(code) ELSE condition[i]]
           added == Append(condition, PartitionRecord(code))
<1>1. ASSUME NEW i \in Named(condition) PROVE PartitionRecord(code) \in Elements(replaced)
  <2>1. i \in DOMAIN replaced /\ replaced[i] = PartitionRecord(code)
    BY DEF Named
  <2> HIDE DEF replaced
  <2> QED
    BY <2>1 DEF Elements
<1>2. PartitionRecord(code) \in Elements(added)
  <2>1. Len(condition) + 1 \in DOMAIN added /\ added[Len(condition) + 1] = PartitionRecord(code)
    OBVIOUS
  <2> HIDE DEF added
  <2> QED
    BY <2>1 DEF Elements
<1>3. Scoped(condition, code) = IF Named(condition) = {} THEN added ELSE replaced
  BY DEF Scoped
<1> QED
  BY <1>1, <1>2, <1>3

\* What the databases answer is in the table, and in the partition.
LEMMA SelectedWithinPartition ==
  ASSUME NEW r \in Requests, req[r] \in Message(r), NEW code \in Codes \cup {Null},
         NEW q, q = Question(r), ~ Misquoted(q), NEW rows,
         rows = Selected(q.db, Scoped(q.condition, code), q.filters)
  PROVE  /\ rows \subseteq Table
         /\ code # Null => \A row \in rows : row.code = code
         /\ Counted(q.db, Scoped(q.condition, code), q.filters, code) \in Nat
<1>1. /\ req[r].question \in DOMAIN Asked[r]
      /\ q = Asked[r][req[r].question]
      /\ q.condition \in Seq(Elements(q.condition)) /\ ~ Misquoted(q)
  BY QuestionIsAsked DEF Question
<1>2. /\ rows \subseteq Table
      /\ \A row \in rows : \A e \in Elements(Scoped(q.condition, code)) :
           e.is = "value" => row[e.key] = e.of
      /\ Counted(q.db, Scoped(q.condition, code), q.filters, code) \in Nat
  <2> DEFINE asked == Asked[r][req[r].question]
  <2>1. LET condition == Scoped(asked.condition, code)
            found == Selected(asked.db, condition, asked.filters)
        IN  ~ Misquoted(asked) =>
            /\ found \subseteq Table
            /\ \A row \in found : \A e \in Elements(condition) :
                 e.is = "value" => row[e.key] = e.of
            /\ Counted(asked.db, condition, asked.filters, code) \in Nat
    BY <1>1, DatabaseAssumption, Zenon
  <2>2. asked = q
    BY <1>1
  <2> HIDE DEF asked
  <2> QED
    BY <2>1, <2>2
<1>3. ASSUME code # Null, NEW row \in rows PROVE row.code = code
  <2> DEFINE e == PartitionRecord(code)
  <2>1. e \in Elements(Scoped(q.condition, code))
    BY <1>1, <1>3, ScopedNamesPartition
  <2>2. e.is = "value" /\ e.key = "code" /\ e.of = code
    BY DEF PartitionRecord, Entry
  <2> HIDE DEF e
  <2> QED
    BY <1>2, <2>1, <2>2
<1> QED
  BY <1>2, <1>3

LEMMA OnlyCounts ==
  ASSUME NEW rows, rows \subseteq Table
  PROVE  Cardinality(rows) \in Nat
BY GuardsAssumption, FS_Subset, FS_CardinalityType

\* What is answered: rows of the table (created rows aside), of the partition in
\* the local storage, and a number.
LEMMA AnswerFacts ==
  ASSUME NEW r \in Requests, Answer(r), GuardTypeOK
  PROVE  LET q == Question(r) IN
         /\ answer'[r].total \in Nat
         /\ q.ask # "create" => answer'[r].rows \subseteq Table
         /\ cls[r] # Null /\ Restricted(q) =>
              \A row \in answer'[r].rows : row.code = cls[r]
<1> DEFINE q == Question(r)
           code == cls[r]
           scoped == Scoped(q.condition, code)
           rows == Selected(q.db, scoped, q.filters)
<1>1. req[r] \in Message(r) /\ code \in Codes \cup {Null} /\ ~ Misquoted(q)
  BY DEF GuardTypeOK, Answer
<1>2. q.ask \in {"getPage", "getById", "getExport", "create"}
  BY <1>1, QuestionIsAsked
<1>3. /\ rows \subseteq Table
      /\ code # Null => \A row \in rows : row.code = code
      /\ Counted(q.db, scoped, q.filters, code) \in Nat
  BY <1>1, SelectedWithinPartition
<1>4. answer'[r] = CASE q.ask = "getPage"   -> GetPage(q.db, scoped, q.filters, code)
                     [] q.ask = "getById"   -> Only(GetById(q.id, code))
                     [] q.ask = "getExport" -> Export(q, scoped)
                     [] q.ask = "create"    -> Only({Created(q, code)})
  BY DEF Answer, GuardTypeOK
<1> HIDE DEF q, code, scoped
<1>5. CASE q.ask = "getPage"
  <2>1. answer'[r] = GetPage(q.db, scoped, q.filters, code)
    BY <1>4, <1>5
  <2>2. answer'[r].rows = rows /\ answer'[r].total = Counted(q.db, scoped, q.filters, code)
    BY <2>1 DEF GetPage, Page
  <2> QED
    BY <1>3, <1>5, <2>2 DEF q, code
<1>6. CASE q.ask = "getById"
  <2>1. answer'[r] = Only(GetById(q.id, code))
    BY <1>4, <1>6
  <2>2. GetById(q.id, code) \subseteq Table
    BY DEF GetById
  <2>3. code # Null => \A row \in GetById(q.id, code) : row.code = code
    BY DEF GetById
  <2>4. /\ answer'[r].rows = GetById(q.id, code)
        /\ answer'[r].total = Cardinality(GetById(q.id, code))
    BY <2>1 DEF Only, Page
  <2> QED
    BY <1>6, <2>2, <2>3, <2>4, OnlyCounts DEF q, code
<1>7. CASE q.ask = "getExport"
  <2> DEFINE exported == GetExport(q.db, scoped, q.filters, q.ids)
  <2>1. answer'[r] = Export(q, scoped)
    BY <1>4, <1>7
  <2>2. exported \subseteq Table
    BY <1>3 DEF GetExport
  <2>3. code # Null /\ q.ids = Null => \A row \in exported : row.code = code
    BY <1>3 DEF GetExport
  <2>4. answer'[r].rows = exported /\ answer'[r].total = Cardinality(exported)
    BY <2>1 DEF Export, Sheets
  <2> HIDE DEF exported
  <2> QED
    BY <1>7, <2>2, <2>3, <2>4, OnlyCounts DEF q, code, Restricted
<1>8. CASE q.ask = "create"
  <2> DEFINE document == Created(q, code)
  <2>1. answer'[r] = Only({document})
    BY <1>4, <1>8
  <2>2. code # Null /\ q.declared => document.code = code
    BY DEF Created
  <2> HIDE DEF document
  <2>3. answer'[r].rows = {document} /\ answer'[r].total = Cardinality({document})
    BY <2>1 DEF Only, Page
  <2>4. Cardinality({document}) \in Nat
    BY FS_Singleton
  <2> QED
    BY <1>8, <2>2, <2>3, <2>4 DEF q, code, Restricted
<1> QED
  BY <1>2, <1>5, <1>6, <1>7, <1>8 DEF q, code

\* A misquoted statement finds rows of the table, whichever.
LEMMA MisquotedFacts ==
  ASSUME NEW r \in Requests, AnswerMisquoted(r), GuardTypeOK
  PROVE  /\ stage'[r] = "answered" => /\ answer'[r].total \in Nat
                                      /\ answer'[r].rows \subseteq Table
         /\ stage'[r] # "answered" => answer'[r] = answer[r]
         /\ stage' \in {[stage EXCEPT ![r] = "answered"], [stage EXCEPT ![r] = "refused"]}
<1>1. stage \in [Requests -> {"idle", "role", "guard", "repository", "answered", "refused"}]
      /\ DOMAIN answer = Requests
  BY DEF GuardTypeOK
<1>2. CASE stage' = [stage EXCEPT ![r] = "refused"] /\ UNCHANGED answer
  BY <1>1, <1>2
<1>3. ASSUME NEW rows \in {{}, Table}, stage' = [stage EXCEPT ![r] = "answered"],
             answer' = [answer EXCEPT ![r] = IF Question(r).ask = "getExport"
                                             THEN Sheets(Question(r), rows) ELSE Only(rows)]
      PROVE  /\ answer'[r].total \in Nat /\ answer'[r].rows \subseteq Table
             /\ stage'[r] = "answered"
  <2>1. rows \subseteq Table /\ Cardinality(rows) \in Nat
    BY <1>3, OnlyCounts
  <2>2. answer'[r] = IF Question(r).ask = "getExport" THEN Sheets(Question(r), rows) ELSE Only(rows)
    BY <1>1, <1>3
  <2>3. answer'[r].rows = rows /\ answer'[r].total = Cardinality(rows)
    BY <2>2 DEF Sheets, Only, Page
  <2> QED
    BY <1>1, <1>3, <2>1, <2>3
<1> QED
  BY <1>2, <1>3 DEF AnswerMisquoted

\* From the guard to the answer a request on a route with partitions keeps, in
\* its local storage, the partition that it named.
PartitionIsKept ==
  \A r \in Requests :
    (stage[r] \in {"repository", "answered"} /\ req[r].header # Null /\ Enabled(Question(r)))
    => cls[r] = req[r].header

GuardIInv == GuardTypeOK /\ PartitionIsKept /\ WithinPartition

LEMMA GuardInitInv == GuardInit => GuardIInv
<1> SUFFICES ASSUME GuardInit PROVE GuardIInv
  OBVIOUS
<1>1. GuardTypeOK
  BY GuardsAssumption DEF GuardInit, GuardTypeOK, NoAnswer, SystemRole
<1>2. PartitionIsKept /\ WithinPartition
  BY DEF GuardInit, PartitionIsKept, WithinPartition
<1> QED
  BY <1>1, <1>2 DEF GuardIInv

LEMMA GuardTypeStep == GuardTypeOK /\ [GuardNext]_guardVars => GuardTypeOK'
<1> SUFFICES ASSUME GuardTypeOK, [GuardNext]_guardVars PROVE GuardTypeOK'
  OBVIOUS
<1>1. ASSUME NEW r \in Requests, Send(r) PROVE GuardTypeOK'
  <2>1. PICK m \in Message(r) : req' = [req EXCEPT ![r] = m]
    BY <1>1 DEF Send
  <2>2. /\ stage' = [stage EXCEPT ![r] = "role"]
        /\ UNCHANGED <<cls, members, role, answer, changes>>
    BY <1>1 DEF Send
  <2>3. stage' \in [Requests -> {"idle", "role", "guard", "repository", "answered", "refused"}]
    BY <2>2 DEF GuardTypeOK
  <2>4. ASSUME NEW o \in Requests
        PROVE  IF stage'[o] = "idle" THEN req'[o] = Nobody ELSE req'[o] \in Message(o)
    BY <2>1, <2>2 DEF GuardTypeOK
  <2>5. ASSUME NEW o \in Requests, stage'[o] = "answered", Question(o)'.ask # "create"
        PROVE  answer'[o].rows \subseteq Table
    <3>1. o # r /\ stage[o] = "answered" /\ req'[o] = req[o]
      BY <2>1, <2>2, <2>5 DEF GuardTypeOK
    <3> QED
      BY <2>2, <2>5, <3>1 DEF GuardTypeOK, Question
  <2> QED
    BY <2>1, <2>2, <2>3, <2>4, <2>5 DEF GuardTypeOK
<1>2. ASSUME NEW r \in Requests, NEW to \in {"guard", "repository", "refused"},
             stage[r] # "idle", stage' = [stage EXCEPT ![r] = to],
             cls' \in [Requests -> Codes \cup {Null}],
             UNCHANGED <<req, members, role, answer, changes>>
      PROVE  GuardTypeOK'
  <2>1. ASSUME NEW o \in Requests, stage'[o] = "answered", Question(o)'.ask # "create"
        PROVE  answer'[o].rows \subseteq Table
    <3>1. stage[o] = "answered"
      BY <1>2, <2>1 DEF GuardTypeOK
    <3> QED
      BY <1>2, <2>1, <3>1 DEF GuardTypeOK, Question
  <2> QED
    BY <1>2, <2>1 DEF GuardTypeOK
<1>3. ASSUME NEW r \in Requests, CheckRole(r) PROVE GuardTypeOK'
  BY <1>2, <1>3 DEF CheckRole, GuardTypeOK
<1>4. ASSUME NEW r \in Requests, CanActivate(r) PROVE GuardTypeOK'
  <2>1. req[r] \in Message(r) /\ stage[r] # "idle"
    BY <1>4 DEF CanActivate, GuardTypeOK
  <2>2. ClsSet(r, req[r].header) \in [Requests -> Codes \cup {Null}]
    BY <2>1, QuestionIsAsked DEF ClsSet, GuardTypeOK
  <2>3. cls' \in [Requests -> Codes \cup {Null}]
    BY <1>4, <2>2 DEF CanActivate, GuardTypeOK
  <2>4. \E to \in {"guard", "repository", "refused"} : stage' = [stage EXCEPT ![r] = to]
    BY <1>4 DEF CanActivate
  <2> QED
    BY <1>2, <1>4, <2>1, <2>3, <2>4 DEF CanActivate
<1>5. ASSUME NEW r \in Requests, Answer(r) PROVE GuardTypeOK'
  <2>1. /\ stage[r] = "repository" /\ stage' = [stage EXCEPT ![r] = "answered"]
        /\ UNCHANGED <<req, cls, members, role, changes>>
        /\ DOMAIN answer' = Requests
        /\ \A o \in Requests : o # r => answer'[o] = answer[o]
    BY <1>5 DEF Answer, GuardTypeOK
  <2>2. /\ answer'[r].total \in Nat
        /\ Question(r).ask # "create" => answer'[r].rows \subseteq Table
    BY <1>5, AnswerFacts
  <2>3. \A o \in Requests : Question(o)' = Question(o)
    BY <2>1 DEF Question
  <2>4. ASSUME NEW o \in Requests, stage'[o] = "answered", Question(o).ask # "create"
        PROVE  answer'[o].rows \subseteq Table
    BY <2>1, <2>2, <2>4 DEF GuardTypeOK
  <2> QED
    BY <2>1, <2>2, <2>3, <2>4 DEF GuardTypeOK
<1>6. ASSUME NEW r \in Requests, FailExport(r) PROVE GuardTypeOK'
  BY <1>2, <1>6 DEF FailExport, GuardTypeOK
<1>7. ASSUME Change, members' \subseteq Codes \X DpUsers,
             role' \in [DpUsers -> SystemRole \cup {"none"}]
      PROVE  GuardTypeOK'
  <2>1. changes' \in 0 .. MaxChange
    BY <1>7, GuardsAssumption DEF Change, GuardTypeOK
  <2>2. \A o \in Requests : Question(o)' = Question(o)
    BY <1>7 DEF Change, Question
  <2> QED
    BY <1>7, <2>1, <2>2 DEF Change, GuardTypeOK
<1>8. ASSUME ChangeMember PROVE GuardTypeOK'
  BY <1>7, <1>8 DEF ChangeMember, GuardTypeOK
<1>9. ASSUME ChangeUser PROVE GuardTypeOK'
  BY <1>7, <1>9 DEF ChangeUser, GuardTypeOK
<1>10. CASE UNCHANGED guardVars
  <2>1. \A o \in Requests : Question(o)' = Question(o)
    BY <1>10 DEF guardVars, Question
  <2> QED
    BY <1>10, <2>1 DEF guardVars, GuardTypeOK
<1>11. ASSUME NEW r \in Requests, AnswerMisquoted(r) PROVE GuardTypeOK'
  <2>1. /\ stage[r] = "repository" /\ UNCHANGED <<req, cls, members, role, changes>>
        /\ DOMAIN answer' = Requests
        /\ \A o \in Requests : o # r => answer'[o] = answer[o]
    BY <1>11 DEF AnswerMisquoted, GuardTypeOK
  <2>2. /\ stage' \in [Requests -> {"idle", "role", "guard", "repository", "answered", "refused"}]
        /\ \A o \in Requests : stage'[o] = "idle" <=> stage[o] = "idle"
        /\ \A o \in Requests : o # r => stage'[o] = stage[o]
    BY <1>11, <2>1, MisquotedFacts DEF GuardTypeOK
  <2>3. \A o \in Requests : Question(o)' = Question(o)
    BY <2>1 DEF Question
  <2>4. \A o \in Requests : answer'[o].total \in Nat
    BY <1>11, <2>1, MisquotedFacts DEF GuardTypeOK
  <2>5. ASSUME NEW o \in Requests, stage'[o] = "answered", Question(o).ask # "create"
        PROVE  answer'[o].rows \subseteq Table
    BY <1>11, <2>1, <2>2, <2>5, MisquotedFacts DEF GuardTypeOK
  <2>6. \A o \in Requests : IF stage'[o] = "idle" THEN req'[o] = Nobody ELSE req'[o] \in Message(o)
    BY <2>1, <2>2 DEF GuardTypeOK
  <2>7. \A o \in Requests : stage'[o] = "answered" /\ Question(o)'.ask # "create" =>
                              answer'[o].rows \subseteq Table
    BY <2>3, <2>5
  <2>8. DOMAIN req' = Requests /\ changes' \in 0 .. MaxChange
    BY <2>1 DEF GuardTypeOK
  <2>9. /\ cls' \in [Requests -> Codes \cup {Null}] /\ members' \subseteq Codes \X DpUsers
        /\ role' \in [DpUsers -> SystemRole \cup {"none"}]
    BY <2>1 DEF GuardTypeOK
  <2>10. DOMAIN answer' = Requests
    BY <2>1
  <2> QED
    BY <2>2, <2>4, <2>6, <2>7, <2>8, <2>9, <2>10 DEF GuardTypeOK
<1> QED
  BY <1>1, <1>3, <1>4, <1>5, <1>6, <1>8, <1>9, <1>10, <1>11 DEF GuardNext

LEMMA PartitionIsKeptStep == GuardIInv /\ [GuardNext]_guardVars => PartitionIsKept'
<1> SUFFICES ASSUME GuardIInv, [GuardNext]_guardVars, NEW o \in Requests,
                    stage'[o] \in {"repository", "answered"}, req'[o].header # Null,
                    Enabled(Question(o)')
             PROVE  cls'[o] = req'[o].header
  BY DEF PartitionIsKept
<1>t. GuardTypeOK /\ PartitionIsKept
  BY DEF GuardIInv
\* A request that was in the repository already.
<1>k. ASSUME stage[o] \in {"repository", "answered"}, req' = req, cls'[o] = cls[o]
      PROVE  cls'[o] = req'[o].header
  BY <1>k, <1>t DEF PartitionIsKept, Question
<1>1. ASSUME NEW r \in Requests, Send(r) PROVE cls'[o] = req'[o].header
  <2>1. o # r /\ stage[o] = stage'[o] /\ req'[o] = req[o] /\ cls' = cls
    BY <1>1, <1>t DEF Send, GuardTypeOK
  <2> QED
    BY <1>t, <2>1 DEF PartitionIsKept, Question
<1>2. ASSUME NEW r \in Requests, CheckRole(r) PROVE cls'[o] = req'[o].header
  BY <1>2, <1>k, <1>t DEF CheckRole, GuardTypeOK
<1>3. ASSUME NEW r \in Requests, CanActivate(r) PROVE cls'[o] = req'[o].header
  <2>1. CASE o # r
    BY <1>3, <1>k, <1>t, <2>1 DEF CanActivate, ClsSet, GuardTypeOK
  <2>2. CASE o = r
    <3>1. req' = req /\ Enabled(Question(r)) /\ req[r].header # Null
      BY <1>3, <2>2 DEF CanActivate, Question
    <3>2. cls' = ClsSet(r, req[r].header)
      BY <1>3, <1>t, <2>2, <3>1 DEF CanActivate, GuardTypeOK
    <3> QED
      BY <1>t, <2>2, <3>1, <3>2 DEF ClsSet, GuardTypeOK
  <2> QED
    BY <2>1, <2>2
<1>4. ASSUME NEW r \in Requests, Answer(r) PROVE cls'[o] = req'[o].header
  BY <1>4, <1>k, <1>t DEF Answer, GuardTypeOK
<1>5. ASSUME NEW r \in Requests, FailExport(r) PROVE cls'[o] = req'[o].header
  BY <1>5, <1>k, <1>t DEF FailExport, GuardTypeOK
<1>6. CASE ChangeMember \/ ChangeUser
  BY <1>6, <1>k DEF ChangeMember, ChangeUser, Change
<1>7. CASE UNCHANGED guardVars
  BY <1>7, <1>k DEF guardVars
<1>8. ASSUME NEW r \in Requests, AnswerMisquoted(r) PROVE cls'[o] = req'[o].header
  <2>1. stage[r] = "repository" /\ UNCHANGED <<req, cls>> /\ (o # r => stage'[o] = stage[o])
    BY <1>8, <1>t, MisquotedFacts DEF AnswerMisquoted, GuardTypeOK
  <2> QED
    BY <1>k, <2>1
<1> QED
  BY <1>1, <1>2, <1>3, <1>4, <1>5, <1>6, <1>7, <1>8 DEF GuardNext

LEMMA WithinPartitionStep == GuardIInv /\ [GuardNext]_guardVars => WithinPartition'
<1> SUFFICES ASSUME GuardIInv, [GuardNext]_guardVars, NEW o \in Requests,
                    stage'[o] = "answered", req'[o].header # Null, Enabled(Question(o)'),
                    Restricted(Question(o)')
             PROVE  \A row \in answer'[o].rows : row.code = req'[o].header
  BY DEF WithinPartition
<1>t. GuardTypeOK /\ PartitionIsKept /\ WithinPartition
  BY DEF GuardIInv
\* A request that was answered before.
<1>k. ASSUME stage[o] = "answered", req'[o] = req[o], answer'[o] = answer[o]
      PROVE  \A row \in answer'[o].rows : row.code = req'[o].header
  BY <1>k, <1>t DEF WithinPartition, Question
<1>1. ASSUME NEW r \in Requests, Send(r)
      PROVE  \A row \in answer'[o].rows : row.code = req'[o].header
  BY <1>1, <1>k, <1>t DEF Send, GuardTypeOK
<1>2. ASSUME NEW r \in Requests, CheckRole(r) \/ CanActivate(r) \/ FailExport(r)
      PROVE  \A row \in answer'[o].rows : row.code = req'[o].header
  <2>1. req' = req /\ answer' = answer
    BY <1>2 DEF CheckRole, CanActivate, FailExport
  <2>2. stage[o] = "answered"
    BY <1>2, <1>t DEF CheckRole, CanActivate, FailExport, GuardTypeOK
  <2> QED
    BY <1>k, <2>1, <2>2
<1>3. ASSUME NEW r \in Requests, Answer(r)
      PROVE  \A row \in answer'[o].rows : row.code = req'[o].header
  <2>1. stage[r] = "repository" /\ req' = req
    BY <1>3 DEF Answer
  <2>2. CASE o # r
    BY <1>3, <1>k, <1>t, <2>2 DEF Answer, GuardTypeOK
  <2>3. CASE o = r
    <3>1. /\ Enabled(Question(r)) /\ req[r].header # Null
          /\ Restricted(Question(r))
      BY <2>1, <2>3 DEF Question
    <3>2. cls[r] = req[r].header
      BY <1>t, <2>1, <3>1 DEF PartitionIsKept
    <3>3. \A row \in answer'[r].rows : row.code = cls[r]
      BY <1>3, <1>t, <3>1, <3>2, AnswerFacts
    <3> QED
      BY <2>1, <2>3, <3>2, <3>3
  <2> QED
    BY <2>2, <2>3
<1>4. CASE ChangeMember \/ ChangeUser
  BY <1>4, <1>k DEF ChangeMember, ChangeUser, Change
<1>5. CASE UNCHANGED guardVars
  BY <1>5, <1>k DEF guardVars
<1>6. ASSUME NEW r \in Requests, AnswerMisquoted(r)
      PROVE  \A row \in answer'[o].rows : row.code = req'[o].header
  <2>1. Misquoted(Question(r)) /\ req' = req
    BY <1>6 DEF AnswerMisquoted
  <2>2. o # r
    BY <2>1 DEF Restricted, Question
  <2>3. stage[o] = "answered" /\ answer'[o] = answer[o]
    BY <1>6, <1>t, <2>2, MisquotedFacts DEF AnswerMisquoted, GuardTypeOK
  <2> QED
    BY <1>k, <2>1, <2>3
<1> QED
  BY <1>1, <1>2, <1>3, <1>4, <1>5, <1>6 DEF GuardNext

\* A request that names a partition and asks for what is Restricted is answered
\* with rows of that partition, and creates one in it, whatever other requests
\* and administrators do between its guards and its repository.
THEOREM AnswersWithinPartition == GuardSpec => []WithinPartition
<1>1. GuardIInv /\ [GuardNext]_guardVars => GuardIInv'
  BY GuardTypeStep, PartitionIsKeptStep, WithinPartitionStep DEF GuardIInv
<1>2. GuardIInv => WithinPartition
  BY DEF GuardIInv
<1> QED
  BY GuardInitInv, <1>1, <1>2, PTL DEF GuardSpec
=============================================================================
