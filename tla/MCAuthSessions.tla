---------------------------- MODULE MCAuthSessions ----------------------------
(* Three requests, two users and two sessions: two logins and a request    *)
(* that uses a token, or a login and two that do; the clock passes the end *)
(* of a session.                                                           *)
EXTENDS AuthSessions, TLC

(* Only safety is checked here. *)
Symmetry == Permutations(User) \cup Permutations(Session)
=============================================================================
