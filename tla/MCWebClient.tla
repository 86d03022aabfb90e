------------------------------ MODULE MCWebClient -------------------------------
(* A run that plans and finishes while the run of the next message is planning. *)
EXTENDS WebClient

CONSTANTS r1, r2

MCScript == (r1 :> <<"planning", "plan.update">>) @@ (r2 :> <<"planning">>)

=============================================================================
