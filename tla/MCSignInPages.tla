---------------------------- MODULE MCSignInPages ----------------------------
(* Two sheets, a link, and a request of this tab's for it besides another's. *)
EXTENDS SignInPages
=============================================================================
