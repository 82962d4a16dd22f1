--------------------------- MODULE MCEventStream ---------------------------
(* An instance of EventStream: one page, two connections.                  *)
EXTENDS EventStream
=============================================================================
