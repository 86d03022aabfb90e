------------------------------- MODULE MCUsers -------------------------------
(* A small instance of Users for TLC. *)
EXTENDS Users, TLC

CONSTANTS ea, eb, g, h1, h2

\* An admin and a user.
MCResidents == <<ea, eb>>

\* Google knows the user by the same address.
MCSubEmail == g :> eb

HandlerSymmetry == Permutations(Handlers)
=============================================================================
