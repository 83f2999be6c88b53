------------------------------ MODULE MCServer ------------------------------
(* Model-checking instance of Server: connections a1..a3 from distinct     *)
(* hosts (or a1, a2 from one host), databases d1, d2.                                                 *)
EXTENDS Server, TLC

CONSTANTS a1, a2, a3, c1, c2, c3

MCClientOf == [t \in Conns |-> ((a1 :> c1) @@ (a2 :> c2) @@ (a3 :> c3))[t]]

(* a1 and a2 connect from the same host, so they share client id c1. *)
MCSharedHostClientOf == [t \in Conns |-> ((a1 :> c1) @@ (a2 :> c1) @@ (a3 :> c3))[t]]

=============================================================================
