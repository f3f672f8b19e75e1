----------------------------- MODULE PrefixCache -----------------------------
(***************************************************************************)
(* The prompt prefix cache of server/main.cpp: the live runtime state, the *)
(* slots that park evicted states, and the lambdas that decide what a      *)
(* request continues from.  They only run under `tlock', so they are given *)
(* as functions on one record:                                             *)
(*                                                                         *)
(*   rt      the live runtime state (see Runtime)                          *)
(*   imgs    *kv_imgs, the image spans behind the live state               *)
(*   slots   the Slot array; toks = <<>> marks an empty slot               *)
(*   lru     the rank of each slot by its stamp (slot_clock), 1 the oldest *)
(*   origin  live_origin, 0 for -1                                         *)
(*   owner   live_owner, 0 for none                                        *)
(*                                                                         *)
(* A slot's file (--cache-slots-dir) has the same tokens, spans and state  *)
(* as the slot in memory; blob = NoBlob is a file whose state cannot be    *)
(* read back.  `io' gives the outcome of the file operations of one call:  *)
(* io.save = FALSE is a write that fails, io.load = FALSE a read.          *)
(***************************************************************************)
EXTENDS Runtime, SequencesExt

CONSTANTS NSlots,      \* --cache-slots
          TextOf       \* tok->decode: the text of every token, as a sequence

Chars == UNION {Range(TextOf[t]) : t \in DOMAIN TextOf}

ASSUME PrefixCacheAssumption ==
    /\ NSlots \in Nat
    /\ \A t \in DOMAIN TextOf : TextOf[t] \in Seq(Chars) \ {<<>>}

Slots == 1..NSlots

NoBlob == [toks |-> <<>>, rows |-> <<>>, gdn |-> <<>>, rope |-> -1]
EmptySlot == [toks |-> <<>>, imgs |-> <<>>, blob |-> NoBlob]

InitCache ==
    [rt |-> NoState, imgs |-> <<>>, slots |-> [s \in Slots |-> EmptySlot],
     lru |-> [s \in Slots |-> s], origin |-> 0, owner |-> 0]

(* An ImgSpan covers the 0-based positions first .. first+count-1.         *)
SpanEnd(s) == s.first + s.count

-----------------------------------------------------------------------------
(* match_cov *)

TextOfToks(toks) == FlattenSeq([i \in DOMAIN toks |-> TextOf[toks[i]]])

(* Length of the common prefix of kv and prompt, leaving a tail token.     *)
Common(kv, prompt) ==
    LET lim == IF Len(kv) < Len(prompt) THEN Len(kv) ELSE Len(prompt) - 1
    IN  CHOOSE n \in 0..lim : /\ \A i \in 1..n : kv[i] = prompt[i]
                              /\ n = lim \/ kv[n + 1] # prompt[n + 1]

(* The end of the prompt tokens after n whose text is exactly the text of  *)
(* the cached tokens after n; -1 when there is none (token texts are not   *)
(* empty, so there is at most one).                                        *)
TextCover(kv, prompt, n) ==
    LET rest == TextOfToks(SubSeq(kv, n + 1, Len(kv)))
        ends == {j \in n..(Len(prompt) - 1) :
                   TextOfToks(SubSeq(prompt, n + 1, j)) = rest}
    IN  IF ends = {} THEN -1 ELSE CHOOSE j \in ends : TRUE

(* The prompt tokens covered by the cached ones, by tokens or by text.     *)
Cover(kv, prompt, n) ==
    IF n = Len(kv) THEN n ELSE IF n > 0 THEN TextCover(kv, prompt, n) ELSE -1

(* The seam c, unless a span straddles it or the spans before it are not   *)
(* the cached ones.                                                        *)
SameImages(kimgs, spans, c) ==
    IF \/ c <= 0
       \/ \E s \in Range(spans) : s.first < c /\ SpanEnd(s) > c
       \/ SelectSeq(spans, LAMBDA s : SpanEnd(s) <= c) # kimgs
    THEN -1 ELSE c

(* Faulty variant of match_cov: an image inside the reused prefix is not   *)
(* compared.                                                               *)
match_cov_blind(kv, kimgs, prompt, spans) ==
    IF kv = <<>> THEN -1 ELSE Cover(kv, prompt, Common(kv, prompt))

(* The number of prompt tokens covered by ALL of the cached tokens, or -1. *)
match_cov(kv, kimgs, prompt, spans) ==
    IF kv = <<>> THEN -1
    ELSE SameImages(kimgs, spans, Cover(kv, prompt, Common(kv, prompt)))

-----------------------------------------------------------------------------
(* save_live / load_slot *)

(* A stamp makes s the newest and keeps the order of the others.           *)
Touch(lru, s) ==
    [u \in Slots |-> IF u = s THEN NSlots
                     ELSE IF lru[u] > lru[s] THEN lru[u] - 1 ELSE lru[u]]

(* The slot save_live(avoid) writes to: the live state's own, else the     *)
(* first empty one, else the least recently used; 0 when there is none.    *)
SaveTarget(c, avoid) ==
    IF c.origin # 0 /\ c.origin # avoid THEN c.origin
    ELSE LET others == Slots \ {avoid}
             empty  == {s \in others : c.slots[s].toks = <<>>}
         IN  IF others = {} THEN 0
             ELSE IF empty # {} THEN CHOOSE s \in empty : \A u \in empty : s <= u
             ELSE CHOOSE s \in others : \A u \in others : c.lru[s] <= c.lru[u]

(* Faulty variant of save_live: an evicted slot keeps its old state.       *)
save_live_keeps_blob(c, avoid, io) ==
    IF c.rt.toks = <<>> \/ SaveTarget(c, avoid) = 0 THEN c
    ELSE LET s == SaveTarget(c, avoid)
         IN  [c EXCEPT !.lru = Touch(@, s),
                       !.slots[s].toks = c.rt.toks, !.slots[s].imgs = c.imgs,
                       !.slots[s].blob = IF @ = NoBlob THEN SaveState(c.rt) ELSE @]

(* Faulty variant of save_live: the slot's image spans are not updated.    *)
save_live_keeps_imgs(c, avoid, io) ==
    IF c.rt.toks = <<>> \/ SaveTarget(c, avoid) = 0 THEN c
    ELSE LET s == SaveTarget(c, avoid)
         IN  [c EXCEPT !.lru = Touch(@, s),
                       !.slots[s].toks = c.rt.toks, !.slots[s].blob = SaveState(c.rt)]

(* Faulty variant of save_live: nothing is parked when the slot is taken.  *)
save_live_only_empty(c, avoid, io) ==
    LET s == SaveTarget(c, avoid)
    IN  IF c.rt.toks = <<>> \/ s = 0 \/ c.slots[s].toks # <<>> THEN c
        ELSE [c EXCEPT !.lru = Touch(@, s),
                       !.slots[s] = [toks |-> c.rt.toks, imgs |-> c.imgs,
                                     blob |-> SaveState(c.rt)]]

(* The live state is what was loaded from slot s: judged by its length.    *)
Unchanged(c, s) == c.origin = s /\ Len(c.slots[s].toks) = Len(c.rt.toks)

save_live(c, avoid, io) ==
    LET s == SaveTarget(c, avoid)
    IN  IF c.rt.toks = <<>> \/ s = 0 THEN c
        ELSE IF Unchanged(c, s) THEN [c EXCEPT !.lru = Touch(@, s)]
        ELSE [c EXCEPT !.lru = Touch(@, s),
                       !.slots[s] = IF io.save
                                    THEN [toks |-> c.rt.toks, imgs |-> c.imgs,
                                          blob |-> SaveState(c.rt)]
                                    ELSE EmptySlot]

Loads(c, s, io) == io.load /\ c.slots[s].blob # NoBlob

(* load_slot(s): on failure the slot is dropped and the runtime reset, and *)
(* kv_imgs keeps the spans of the state that is gone.                      *)
load_slot(c, s, io) ==
    IF Loads(c, s, io)
    THEN [c EXCEPT !.rt = LoadState(@, c.slots[s].blob),
                   !.imgs = c.slots[s].imgs,
                   !.lru = Touch(@, s)]
    ELSE [c EXCEPT !.rt = Reset(@), !.slots[s] = EmptySlot]

-----------------------------------------------------------------------------
(* prepare_prompt: what a new request continues from.  The result has the  *)
(* cache after the call and n, the prompt tokens that need no prefill.     *)

(* The checkpoint position the live state could be rewound to.             *)
RewindPoint(c, prompt, spans) ==
    IF c.imgs # <<>> \/ spans # <<>> \/ c.rt.toks = <<>> THEN -1
    ELSE BestCkpt(c.rt, Common(c.rt.toks, prompt))

(* The first slot with the longest coverage; slot 0 when none covers.      *)
Longest(cov) ==
    LET fits == {s \in Slots : cov[s] >= 0}
    IN  IF fits = {} THEN [slot |-> 0, cov |-> -1]
        ELSE LET best == CHOOSE s \in fits : \A u \in fits :
                           cov[s] > cov[u] \/ (cov[s] = cov[u] /\ s <= u)
             IN  [slot |-> best, cov |-> cov[best]]

BestSlot(c, prompt, spans) ==
    Longest([s \in Slots |-> match_cov(c.slots[s].toks, c.slots[s].imgs, prompt, spans)])

Fresh(c) == [c |-> [c EXCEPT !.rt = Reset(@), !.origin = 0], n |-> 0]

(* A load that fails has reset the runtime, which leaves nothing to rewind.*)
FromSlot(c, best, io) ==
    IF Loads(c, best.slot, io)
    THEN [c |-> [load_slot(c, best.slot, io) EXCEPT !.origin = best.slot], n |-> best.cov]
    ELSE Fresh(load_slot(c, best.slot, io))

Rewound(c, back) ==
    IF back.n > 0 THEN [c |-> [c EXCEPT !.rt = back.rt], n |-> back.n] ELSE Fresh(c)

(* The live state does not cover the prompt: a slot that covers more than  *)
(* a rewind would save, else the rewind, else a reset that parks the live  *)
(* state first.                                                            *)
Switch(c, rew, best, io) ==
    IF best.cov > rew THEN FromSlot(save_live(c, best.slot, io), best, io)
    ELSE IF rew > 0 THEN Rewound(c, Rewind(c.rt, rew))
    ELSE Fresh(save_live(c, 0, io))

Continue(c, n, prompt, spans, io) ==
    IF n >= 0 THEN [c |-> c, n |-> n]
    ELSE Switch(c, RewindPoint(c, prompt, spans), BestSlot(c, prompt, spans), io)

prepare_prompt(c, prompt, spans, sid, io) ==
    LET n == match_cov(c.rt.toks, c.imgs, prompt, spans)
    IN  [Continue(c, n, prompt, spans, io) EXCEPT !.c.imgs = spans, !.c.owner = sid]

(* The cells still to be prefilled: an override is kept when its span      *)
(* starts at or after the seam n, and dropped otherwise.                   *)
Cells(prompt, spans, n) ==
    [i \in 1..(Len(prompt) - n) |->
       LET p == i + n - 1
           on == {s \in Range(spans) : s.first >= n /\ s.first <= p /\ p < SpanEnd(s)}
       IN  [tok |-> prompt[i + n],
            img |-> IF on = {} THEN NoImg ELSE (CHOOSE s \in on : TRUE).hash]]

-----------------------------------------------------------------------------
(* ensure_state: re-attach a request that yielded the runtime.  ok = FALSE *)
(* when the state is lost; reprefill tells the caller to decode its tokens *)
(* again.                                                                  *)
FirstParked(c, my_toks) ==
    LET hit == {s \in Slots : c.slots[s].toks = my_toks /\ my_toks # <<>>}
    IN  IF hit = {} THEN 0 ELSE CHOOSE s \in hit : \A u \in hit : s <= u

(* Faulty variant of ensure_state: the live state is taken for ours.       *)
ensure_state_trusting(c, sid, my_toks, my_imgs, had_images, io) ==
    [c |-> [c EXCEPT !.owner = sid], ok |-> TRUE, reprefill |-> FALSE]

(* Without the parked state: a text request starts over, an image request  *)
(* cannot.                                                                 *)
Lost(c, sid, my_imgs, had_images, io) ==
    IF had_images THEN [c |-> c, ok |-> FALSE, reprefill |-> FALSE]
    ELSE [c |-> [save_live(c, 0, io) EXCEPT !.rt = Reset(@), !.origin = 0,
                                            !.owner = sid, !.imgs = my_imgs],
          ok |-> TRUE, reprefill |-> TRUE]

Reload(c, s, sid, my_imgs, had_images, io) ==
    IF Loads(c, s, io)
    THEN [c |-> [load_slot(c, s, io) EXCEPT !.origin = s, !.owner = sid],
          ok |-> TRUE, reprefill |-> FALSE]
    ELSE Lost(load_slot(c, s, io), sid, my_imgs, had_images, io)

ensure_state(c, sid, my_toks, my_imgs, had_images, io) ==
    LET s == FirstParked(c, my_toks)
    IN  IF c.owner = sid THEN [c |-> c, ok |-> TRUE, reprefill |-> FALSE]
        ELSE IF s = 0 THEN Lost(c, sid, my_imgs, had_images, io)
        ELSE Reload(save_live(c, s, io), s, sid, my_imgs, had_images, io)

=============================================================================
