---------------------------- MODULE MCNgramTable ----------------------------
(* A small instance of NgramTable: windows of two and three tokens, a      *)
(* hash with collisions between the windows of a head.                     *)
EXTENDS NgramTable

(* Each head has three rows of its own. *)
McHash(hi, w) == 3 * (hi - 1) + ((w[1] + 2 * w[2] + IF Len(w) = 3 THEN w[3] ELSE 0) % 3)

=============================================================================
