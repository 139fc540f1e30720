----------------------------- MODULE RedisIresty -----------------------------
(***************************************************************************)
(* What one command of util/redis_iresty.lua can do, as the limiters see   *)
(* it.  do_command opens a connection, sends one command and answers with  *)
(* the reply or with nil.  The one-second timeout of the client makes a    *)
(* nil answer ambiguous: the server may have executed the command.  There  *)
(* is no retry anywhere in the callers.                                    *)
(***************************************************************************)

\* "ok"      the command was executed and its reply read
\* "lost"    the connection or the command failed before the server acted
\* "unheard" the server executed the command, the reply never arrived
Outcome == {"ok", "lost", "unheard"}

\* The server's state changed.
Applied(o) == o # "lost"

\* do_command returned something other than nil.
Answered(o) == o = "ok"
=============================================================================
