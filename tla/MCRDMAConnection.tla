-------------------------- MODULE MCRDMAConnection --------------------------
(* RDMAConnection with the connect calls of small deployments. *)
EXTENDS RDMAConnection

CONSTANTS A, B, c  \* two servers and a client

AllDials == {<<A, B>>, <<B, A>>, <<c, A>>, <<c, B>>}

Makes(dials, k) == [dial \in AllDials |-> IF dial \in dials THEN k ELSE 0]

(* Two servers that connect to each other, twice; and a client of two      *)
(* servers, one of which is a client of the other one.                     *)
Deployments ==
  {Makes({<<A, B>>, <<B, A>>}, 2), Makes({<<c, A>>, <<c, B>>, <<B, A>>}, 1)}

(* One client, one server. *)
OneDial == {<<c, A>>}
OneClient == {[dial \in OneDial |-> 2]}
=============================================================================
