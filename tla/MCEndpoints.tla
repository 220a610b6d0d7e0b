----------------------------- MODULE MCEndpoints ------------------------------
(* A server s with a shared receive queue, and clients a and b.            *)
EXTENDS Endpoints, TLC

CONSTANTS s, a, b

ServerAndClients == (s :> (0 :> a @@ 1 :> b)) @@ (a :> (0 :> s)) @@ (b :> (0 :> s))
=============================================================================
