--------------------------- MODULE MCSessionServer ---------------------------
(* Instances of SessionServer for TLC; each cfg says what it is about. *)
EXTENDS SessionServer

CONSTANTS t, u, n

\* One window that may not start again, for which a replacement then has to
\* start an initial one; or two, of which the native one may be left out.
MCWorkspaces == {{t}, {u, n}}
=============================================================================
