----------------------------- MODULE MCLogStream -----------------------------
(* A job that logs half of the flag, half a line, and a line like a verdict. *)
EXTENDS LogStream

MCLog == <<"text", "KONTINUOUS", "nl", "state", "ok", "nl">>

=============================================================================
