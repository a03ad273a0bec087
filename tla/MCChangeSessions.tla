-------------------------- MODULE MCChangeSessions --------------------------
(***************************************************************************)
(* One session, which shuts the interface.                                 *)
(***************************************************************************)
EXTENDS ChangeSessions, TLC

CONSTANT s1

Shut == s1 :> [kind |-> "admin_down", value |-> None]

=============================================================================
