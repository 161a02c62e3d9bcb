---------------------------- MODULE MCFocusGuard ----------------------------
(* Instances of FocusGuard for TLC. *)
EXTENDS FocusGuard

\* app.c:7346, "without it the password check fails closed": a password field that
\* cannot be asked at all does not count as an ordinary one.
FailsClosed == ~com /\ element \in Passwords => ~Ordinary
=============================================================================
