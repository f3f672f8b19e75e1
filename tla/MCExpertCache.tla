--------------------------- MODULE MCExpertCache ---------------------------
(* Small instances of ExpertCache: two layers of two experts, or three     *)
(* layers of one.                                                          *)
EXTENDS ExpertCache

(* Two roles, each with a pool for all layers. *)
TwoRoles == <<"gate", "down">>
TwoPools == [r \in {"gate", "down"} |-> [l \in Layers |-> IF r = "gate" THEN "a" ELSE "b"]]

(* Pools of different sizes. *)
UnevenSlots == [p \in Pools |-> IF p = "a" THEN 2 ELSE 1]

(* Layer 1 has the two hottest experts. *)
OneOrder == {<<<<1, 1>>, <<1, 2>>, <<2, 2>>, <<2, 1>>>>}

(* One expert per layer. *)
LayerOrders == {<<<<1, 1>>, <<2, 1>>, <<3, 1>>>>, <<<<3, 1>>, <<1, 1>>, <<2, 1>>>>}

=============================================================================
