------------------------------ MODULE MCSkills -------------------------------
(* Small instances of Skills, and with it of Users, for TLC. *)
EXTENDS Skills, TLC

CONSTANTS ea, eb, g, h1, h2, creator, own, helper, ghost

\* An admin and a user.
MCResidents == <<ea, eb>>

\* Google knows the user by the same address.
MCSubEmail == g :> eb

\* Documents alone, which mention a script.
MCUploads == {[refs |-> {helper}, files |-> {}]}

\* A draft that lacks all it refers to, and one that has more than it refers to.
MCDrafts == {[refs |-> {helper, ghost}, files |-> {}],
             [refs |-> {helper}, files |-> {helper, ghost}]}

HandlerSymmetry == Permutations(Handlers)
=============================================================================
