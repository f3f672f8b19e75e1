------------------------------- MODULE Runtime -------------------------------
(***************************************************************************)
(* The inference state behind class Runtime (core/runtime.cpp) and the     *)
(* operations the server uses on it, as functions on a state record:       *)
(*                                                                         *)
(*   toks   kv_toks: the tokens the state claims to represent              *)
(*   rows   what the attention KV rows 0..n_past-1 were computed from      *)
(*   gdn    what the recurrent (GDN / short-conv) state has absorbed       *)
(*   rope   mrope_next                                                     *)
(*   pk     the prompt checkpoints, by position                            *)
(*   ovr    embd_ovr: the images set for the next batch, by index in it    *)
(*                                                                         *)
(* Tensors are abstracted to the inputs they are a function of: a cell is  *)
(* a token together with the image whose embedding replaced it, if any.    *)
(* An attention-only model (Qwen3) has no recurrent state: gdn stays <<>>. *)
(***************************************************************************)
EXTENDS Integers, Sequences, FiniteSets

CONSTANTS Recurrent,   \* hparams().has_recurrent()
          UseMRope,    \* hparams().use_mrope
          NCtx,        \* n_ctx
          PkMax        \* pk_max(), QWEN_PROMPT_CKPTS

ASSUME RuntimeAssumption ==
    /\ Recurrent \in BOOLEAN
    /\ UseMRope \in BOOLEAN
    /\ NCtx \in Nat \ {0}
    /\ PkMax \in Nat

NoImg == "none"        \* the cell's embedding is its token's own

Text(t) == [tok |-> t, img |-> NoImg]
Toks(cells) == [i \in DOMAIN cells |-> cells[i].tok]

n_past(rt) == Len(rt.rows)

(* The first n elements of a sequence. *)
Prefix(s, n) == SubSeq(s, 1, n)

NoState == [toks |-> <<>>, rows |-> <<>>, gdn |-> <<>>, rope |-> 0, pk |-> <<>>, ovr |-> <<>>]

(* reset(): positions, bookkeeping, checkpoints and states are cleared,    *)
(* overrides that wait for their batch are not.                            *)
Reset(rt) == [NoState EXCEPT !.ovr = rt.ovr]

-----------------------------------------------------------------------------
(* decode() throws before it touches the state.                            *)
Overflows(rt, cells) == n_past(rt) + Len(cells) > NCtx

set_embd_overrides(rt, cells) ==
    [rt EXCEPT !.ovr = IF \A i \in DOMAIN cells : cells[i].img = NoImg THEN <<>>
                       ELSE [i \in DOMAIN cells |-> cells[i].img]]

(* With M-RoPE a token advances mrope_next by one and an image by less     *)
(* than its tokens; only equality with n_past is ever tested, so here an   *)
(* image does not advance it.  Without M-RoPE fill_rope_pos_spans returns  *)
(* the start it was given, and only the single-token paths count.          *)
RopeAfter(rt, cells) ==
    IF UseMRope
    THEN rt.rope + Cardinality({i \in DOMAIN cells : cells[i].img = NoImg})
    ELSE rt.rope + (IF Len(cells) = 1 THEN 1 ELSE 0)

(* decode(tokens) and the public wrapper's append to kv_toks.  A batch     *)
(* takes the overrides that are set and clears them; the single-token      *)
(* paths know no overrides.                                                *)
Decode(rt, toks) ==
    LET ovr == IF Len(toks) = 1 THEN <<>> ELSE rt.ovr
        cells == [i \in DOMAIN toks |->
                    [tok |-> toks[i], img |-> IF i \in DOMAIN ovr THEN ovr[i] ELSE NoImg]]
    IN  [rt EXCEPT !.toks = @ \o toks,
                   !.rows = @ \o cells,
                   !.gdn  = IF Recurrent THEN @ \o cells ELSE @,
                   !.rope = RopeAfter(rt, cells),
                   !.ovr  = IF Len(toks) = 1 THEN @ ELSE <<>>]

-----------------------------------------------------------------------------
(* Prompt checkpoints: pk is sorted by position.                           *)

(* The checkpoint to evict: the one with the smallest gap to its           *)
(* predecessor, the earliest of equals, never the newest.                  *)
Gap(pk, i) == IF i = 1 THEN pk[1].pos ELSE pk[i].pos - pk[i - 1].pos

Worst(pk) ==
    CHOOSE i \in 1..(Len(pk) - 1) :
        \A j \in 1..(Len(pk) - 1) :
            Gap(pk, i) < Gap(pk, j) \/ (Gap(pk, i) = Gap(pk, j) /\ i <= j)

Drop(pk, i) == Prefix(pk, i - 1) \o SubSeq(pk, i + 1, Len(pk))

Thin(pk) == IF Len(pk) > PkMax THEN Drop(pk, Worst(pk)) ELSE pk

(* pk_snapshot(): insert at the sorted place (replacing one of the same    *)
(* position), then thin the list out.                                      *)
Snapshot(rt) ==
    IF \/ ~Recurrent
       \/ PkMax = 0
       \/ n_past(rt) = 0
       \/ rt.pk # <<>> /\ rt.pk[Len(rt.pk)].pos = n_past(rt)
    THEN rt
    ELSE LET c == [pos |-> n_past(rt), gdn |-> rt.gdn, rope |-> rt.rope]
             k == Cardinality({i \in DOMAIN rt.pk : rt.pk[i].pos < c.pos})
             q == k + (IF k < Len(rt.pk) /\ rt.pk[k + 1].pos = c.pos THEN 2 ELSE 1)
         IN  [rt EXCEPT !.pk = Thin(Prefix(@, k) \o <<c>> \o SubSeq(@, q, Len(@)))]

(* The index of the newest checkpoint at or before position n; 0: none.    *)
NewestAt(pk, n) == Cardinality({i \in DOMAIN pk : pk[i].pos <= n})

(* pk_best(n): the position rewind_to(n) would reach, -1 for none.         *)
BestCkpt(rt, n) ==
    IF n <= 0 THEN -1
    ELSE IF ~Recurrent
    THEN IF rt.rope = n_past(rt) THEN (IF n < n_past(rt) THEN n ELSE n_past(rt)) ELSE -1
    ELSE LET i == NewestAt(rt.pk, n) IN IF i = 0 THEN -1 ELSE rt.pk[i].pos

(* Faulty variant of Rewind: the later checkpoints survive the rewind.     *)
RewindKeepsLater(rt, n) ==
    IF n >= Len(rt.toks) THEN [rt |-> rt, n |-> Len(rt.toks)]
    ELSE LET i == NewestAt(rt.pk, n)
             c == rt.pk[i]
         IN  IF i = 0 THEN [rt |-> rt, n |-> -1]
             ELSE [rt |-> [rt EXCEPT !.toks = Prefix(@, c.pos), !.gdn = c.gdn,
                                     !.rows = Prefix(@, c.pos), !.rope = c.rope],
                   n |-> c.pos]

(* Faulty variant of Rewind: the recurrent state is not restored.          *)
RewindKeepsGdn(rt, n) ==
    IF n >= Len(rt.toks) THEN [rt |-> rt, n |-> Len(rt.toks)]
    ELSE LET i == NewestAt(rt.pk, n)
             c == rt.pk[i]
         IN  IF i = 0 THEN [rt |-> rt, n |-> -1]
             ELSE [rt |-> [rt EXCEPT !.toks = Prefix(@, c.pos), !.pk = Prefix(@, i),
                                     !.rows = Prefix(@, c.pos), !.rope = c.rope],
                   n |-> c.pos]

(* Faulty variant of Rewind: an attention-only state keeps its rows.       *)
RewindKeepsRows(rt, n) ==
    IF n >= Len(rt.toks) THEN [rt |-> rt, n |-> Len(rt.toks)]
    ELSE [rt |-> [rt EXCEPT !.toks = Prefix(@, n), !.rope = n], n |-> n]

(* pk_rewind(n): the state and the position reached, -1 when there is      *)
(* none and the state is left as it is.                                    *)
Rewind(rt, n) ==
    IF n >= Len(rt.toks) THEN [rt |-> rt, n |-> Len(rt.toks)]
    ELSE IF ~Recurrent
    THEN IF rt.rope # n_past(rt) THEN [rt |-> rt, n |-> -1]
         ELSE [rt |-> [rt EXCEPT !.toks = Prefix(@, n), !.rows = Prefix(@, n), !.rope = n],
               n |-> n]
    ELSE LET i == NewestAt(rt.pk, n)
             c == rt.pk[i]
         IN  IF i = 0 THEN [rt |-> rt, n |-> -1]
             ELSE [rt |-> [rt EXCEPT !.toks = Prefix(@, c.pos),
                                     !.rows = Prefix(@, c.pos),
                                     !.gdn  = c.gdn,
                                     !.rope = c.rope,
                                     !.pk   = Prefix(@, i)],
                   n |-> c.pos]

-----------------------------------------------------------------------------
(* save_state(): the stream holds everything but checkpoints and overrides.*)
SaveState(rt) ==
    [toks |-> rt.toks, rows |-> rt.rows, gdn |-> rt.gdn, rope |-> rt.rope]

(* load_state(): the checkpoints belong to the replaced lineage.           *)
LoadState(rt, b) ==
    [toks |-> b.toks, rows |-> b.rows, gdn |-> b.gdn, rope |-> b.rope, pk |-> <<>>,
     ovr |-> rt.ovr]

=============================================================================
