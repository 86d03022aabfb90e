--------------------------- MODULE MCSessionGraph ---------------------------
(* Small instances of SessionGraph for TLC. *)
EXTENDS SessionGraph

CONSTANTS a, b

MCProposals == {<<a, b>>, <<b, b>>}

\* A run with the SDK cannot ask the user, so it leaves no question behind that
\* the next run could resume.
MCEngines == <<{"native", "sdk"}, {"native"}>>

MCNativeOnly == <<{"native"}>>

MCNativeTwice == <<{"native"}, {"native"}>>
=============================================================================
