------------------------ MODULE MCAdaptiveCompression ------------------------
(* Instances of AdaptiveCompression for TLC. *)
EXTENDS AdaptiveCompression

CONSTANTS r1, r2, server

BothRequests == {r1, r2}
AllUsers == {r1, r2, server}

SomeAdaptive == {s \in [BothRequests -> {"auto", "train"}] : s[r1] = "auto"}
===============================================================================
