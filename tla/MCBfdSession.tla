---------------------------- MODULE MCBfdSession ----------------------------
(* Two border routers with different configured intervals. *)
EXTENDS BfdSession

CONSTANTS A, B

MCPeer == [s \in {A, B} |-> IF s = A THEN B ELSE A]
MCTx   == [s \in {A, B} |-> 2]
MCRx   == [s \in {A, B} |-> IF s = A THEN 3 ELSE 1]
MCMult == [s \in {A, B} |-> 3]
=============================================================================
