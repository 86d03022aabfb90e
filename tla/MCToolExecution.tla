--------------------------- MODULE MCToolExecution ---------------------------
(* Small instances of ToolExecution for TLC. *)
EXTENDS ToolExecution

CONSTANTS sh, video, image, file, mail
=============================================================================
