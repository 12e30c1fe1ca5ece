--------------------------- MODULE MCAppLifecycle ---------------------------
(***************************************************************************)
(* The instance of AppLifecycle that TLC checks: the three servers of the  *)
(* program, and requests to the two that have handlers.                    *)
(***************************************************************************)
EXTENDS AppLifecycle

MCHome == [h1 |-> "http", h2 |-> "http", h3 |-> "grpc"]
MCHandlers == {"h1", "h2", "h3"}
=============================================================================
