-------------------------- MODULE MCResidentDecode --------------------------
(* A small instance of ResidentDecode: two layers of two experts, a pool   *)
(* one slot short of them all.                                             *)
EXTENDS ResidentDecode

OneRole == <<"gate">>
OnePool == [r \in {"gate"} |-> [l \in Layers |-> "a"]]
Slots3 == [p \in Pools |-> 3]

(* Layer 1 has the two hottest experts. *)
OneOrder == {<<<<1, 1>>, <<1, 2>>, <<2, 2>>, <<2, 1>>>>}

=============================================================================
