-------------------------------- MODULE MCMtp --------------------------------
(* Instances of Mtp.  A kind with one draft runs into the end of the       *)
(* context; a kind with two keeps away from it by its budget.              *)
EXTENDS Mtp

McPrompt == <<1, 0, 1>>

Kind(gdn, ecache, room, mrope, draft, max) ==
    [gdn |-> gdn, ecache |-> ecache, room |-> room, mrope |-> mrope,
     draft |-> draft, max |-> max]

(* Resident and attention-only; recurrent with checkpoints; offload with a *)
(* verify batch; offload token by token, where M-RoPE is left out.         *)
McKinds ==
    {Kind(g, e, r, m, 1, 9) : g \in BOOLEAN, e \in BOOLEAN, r \in BOOLEAN, m \in {FALSE}}
    \cup {Kind(g, FALSE, FALSE, TRUE, 2, 3) : g \in BOOLEAN}
    \cup {Kind(TRUE, TRUE, TRUE, TRUE, 2, 3), Kind(TRUE, TRUE, FALSE, FALSE, 2, 3)}

(* Two drafts at the end of the context.                                   *)
McDeep == {Kind(TRUE, FALSE, FALSE, TRUE, 2, 9)}

=============================================================================
