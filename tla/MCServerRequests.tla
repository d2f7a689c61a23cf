--------------------------- MODULE MCServerRequests ---------------------------
(* Instances of ServerRequests for TLC. *)
EXTENDS ServerRequests

CONSTANTS w1, w2, w3, c1, c2

ThreeWorkers == {w1, w2, w3}
TwoWorkers   == {w1, w2}
TwoConns     == {c1, c2}
OneConn      == {c1}
===============================================================================
