--------------------------------- MODULE Mtp ---------------------------------
(***************************************************************************)
(* MTP self-speculative decoding: Runtime::prefill and generate_mtp        *)
(* (core/runtime.cpp) driven by the streaming request that owns them       *)
(* (server/main.cpp), one stream among others that use the runtime while   *)
(* it is paused.                                                           *)
(*                                                                         *)
(* The runtime state rt is a record:                                       *)
(*   toks    kv_toks                                                       *)
(*   rows    the main KV rows, each a token and its rope position          *)
(*   gdn     the tokens the recurrent state has absorbed                   *)
(*   rope    mrope_next                                                    *)
(*   nextn   the rows of the draft block: a token and the hidden it was    *)
(*           paired with; mtp_past is their number                         *)
(*   hidden  mtp_hidden; a hidden of the main model is named by the tokens *)
(*           it has seen                                                   *)
(* The main model is a variable, conv: on a sound state its argmax is the  *)
(* next token of conv, on any other it is anything.  Drafts are anything.  *)
(***************************************************************************)
EXTENDS Integers, Sequences, FiniteSets

CONSTANTS Tokens, Stop,
          Prompt,      \* the prompt's tokens
          GenBegin,    \* gen_begin: where the generation prompt starts, -1 for none
          Cached,      \* the lengths of the prefixes found in the cache
          PfChunk,     \* pf_chunk
          TimeSlice,   \* time_slice
          NCtx,        \* n_ctx
          Kinds        \* the models and requests of the instance

(* A kind: recurrent layers, expert offload, pools that hold a verify      *)
(* batch (ec_min_slots() >= T * n_used), M-RoPE, --draft, max_tokens.      *)
KindType == [gdn : BOOLEAN, ecache : BOOLEAN, room : BOOLEAN, mrope : BOOLEAN,
             draft : Nat \ {0}, max : Nat \ {0}]

ASSUME MtpAssumption ==
    /\ Stop \in Tokens /\ Tokens \subseteq Nat
    /\ Prompt \in Seq(Tokens) /\ Prompt # <<>> /\ Len(Prompt) + 1 < NCtx
    /\ GenBegin \in {-1} \cup 0..Len(Prompt)
    /\ Cached \subseteq 0..(Len(Prompt) - 1)
    /\ PfChunk \in Nat \ {0} /\ TimeSlice \in Nat \ {0} /\ NCtx \in Nat
    /\ Kinds \subseteq KindType

VARIABLES kind, conv,
          rt,       \* the runtime state this stream sees when it holds the lock
          st,       \* struct State: pf_pos, n_sent, slice_used, pending, my_toks
          pc,       \* where the stream is
          cyc,      \* the cycle in progress: x, drafts, vA, vH, a backup
          reply, gone

vars == <<kind, conv, rt, st, pc, cyc, reply, gone>>

PLen == Len(Prompt)
K == kind.draft
Prefix(s, n) == SubSeq(s, 1, n)
NoTok == -1

NoState == [toks |-> <<>>, rows |-> <<>>, gdn |-> <<>>, rope |-> 0, nextn |-> <<>>,
            hidden |-> <<>>]
n_past(r) == Len(r.rows)
Seen(r) == [i \in DOMAIN r.rows |-> r.rows[i].tok]

(* The hidden that the draft block itself produced.                        *)
BlockHidden == <<NoTok>>

-----------------------------------------------------------------------------
(* The main model *)

(* Rows at their positions and the recurrent state of the same tokens.     *)
Sound(r) ==
    /\ \A i \in DOMAIN r.rows : r.rows[i].pos = i - 1
    /\ kind.gdn => r.gdn = Seen(r)

(* What the argmax over the last row's logits can be.                      *)
Argmax(r) ==
    IF Sound(r) /\ n_past(r) < Len(conv) /\ Seen(r) = Prefix(conv, n_past(r))
    THEN {conv[n_past(r) + 1]} ELSE Tokens

(* A forward pass: rows and recurrent state grow, positions do not move.   *)
Forward(r, toks) ==
    [r EXCEPT !.rows = @ \o [i \in DOMAIN toks |->
                               [tok |-> toks[i],
                                pos |-> (IF kind.mrope THEN r.rope ELSE n_past(r)) + i - 1]],
              !.gdn = IF kind.gdn THEN @ \o toks ELSE @]

(* mrope_next after decode(): without M-RoPE only single tokens count it.  *)
Advance(r, n) == [r EXCEPT !.rope = IF kind.mrope \/ n = 1 THEN @ + n ELSE @]

(* capture_main_hidden(): the hidden of the last token.                    *)
Capture(r) == [r EXCEPT !.hidden = Seen(r)]

(* decode(): the fused graph of the expert cache captures no hidden.       *)
DecodeTo(r, toks) ==
    LET f == Advance(Forward(r, toks), Len(toks))
    IN  {Capture(f)} \cup (IF kind.ecache /\ Len(toks) = 1 THEN {f} ELSE {})

(* build_mtp(): a row of the draft block is a function of a token and of   *)
(* the hidden it is combined with (and of the rows before).                *)
NextnRow(tok, hid) == [tok |-> tok, hid |-> hid]

(* mtp_resync(): one row from mtp_hidden.                                  *)
ResyncRow(r, tok) == [r EXCEPT !.nextn = Append(@, NextnRow(tok, r.hidden))]

(* mtp_prefill_batch(): token i+1 with the hidden after token i.           *)
PrefillRows(seen, toks) ==
    [i \in 1..(Len(toks) - 1) |->
        NextnRow(toks[i + 1], Prefix(seen, Len(seen) - Len(toks) + i))]

(* Faulty variant of Bridge: a continued state is treated as a fresh one.  *)
NoBridge(r, toks) == r

(* prefill(toks, mtp_kv): bridge from the last hidden, decode, and give    *)
(* every later token its row.  The batch path returns all hiddens, so it   *)
(* leaves the last one in mtp_hidden.                                      *)
Bridge(r, toks) == IF n_past(r) = 0 THEN r ELSE ResyncRow(r, toks[1])

PrefillTo(r, toks) ==
    {[d EXCEPT !.nextn = @ \o PrefillRows(Seen(r) \o toks, toks), !.toks = @ \o toks] :
        d \in DecodeTo(Bridge(r, toks), toks)}

-----------------------------------------------------------------------------
NoCycle == [x |-> NoTok, drafts |-> <<>>, vA |-> <<>>, base |-> NoState, a |-> 0,
            xnew |-> NoTok, next |-> 1]

NewStream == [pf |-> 0, sent |-> 0, slice |-> 0, pending |-> NoTok, my |-> <<>>]

(* The stream starts where prepare_prompt() has left the runtime: empty or *)
(* with a prefix of the prompt that an earlier request has computed.       *)
Init ==
    /\ kind \in Kinds
    /\ conv \in {Prompt \o c : c \in [1..(NCtx + 1 - PLen) -> Tokens]}
    /\ \E n \in Cached :
          /\ rt \in IF n = 0 THEN {NoState} ELSE PrefillTo(NoState, Prefix(Prompt, n))
          /\ st = [NewStream EXCEPT !.pf = n]
    /\ pc = "paused" /\ cyc = NoCycle
    /\ reply = <<>> /\ gone = FALSE

(* A token is written to the client and counted; the budget ends the reply.*)
Emit(t, slice, pending, then) ==
    /\ ~gone
    /\ reply' = Append(reply, t)
    /\ st' = [st EXCEPT !.sent = @ + 1, !.slice = slice + 1, !.pending = pending]
    /\ pc' = IF st.sent + 1 >= kind.max THEN "closing" ELSE then
    /\ UNCHANGED <<kind, conv, rt, gone>>

(* finish(): the reply is closed and the lock released.                    *)
Finish == pc' = "over" /\ UNCHANGED <<kind, conv, rt, st, cyc, reply, gone>>

Closing == pc = "closing" /\ Finish

(* The client may leave at any time; it is noticed when a token is sent or *)
(* before a chunk of the prompt.                                           *)
Leave ==
    /\ pc # "over" /\ ~gone
    /\ gone' = TRUE
    /\ UNCHANGED <<kind, conv, rt, st, pc, cyc, reply>>

-----------------------------------------------------------------------------
(* The provider call takes the lock.  ensure_state: the state is live or   *)
(* was loaded from a slot, or it is gone and is prefilled anew.            *)
Take ==
    /\ pc = "paused"
    /\ \E r \in {rt} \cup (IF st.my = <<>> THEN {} ELSE PrefillTo(NoState, st.my)) : rt' = r
    /\ st' = [st EXCEPT !.slice = 0]
    /\ pc' = "prompt"
    /\ UNCHANGED <<kind, conv, cyc, reply, gone>>

(* One chunk of the preemptible prefill; the stream may yield after it.    *)
Chunk ==
    /\ pc = "prompt" /\ PLen - st.pf > PfChunk
    /\ \E r \in PrefillTo(rt, SubSeq(Prompt, st.pf + 1, st.pf + PfChunk)), yield \in BOOLEAN :
          /\ rt' = r
          /\ st' = [st EXCEPT !.pf = @ + PfChunk, !.my = IF yield THEN r.toks ELSE @]
          /\ pc' = IF yield THEN "paused" ELSE "prompt"
    /\ UNCHANGED <<kind, conv, cyc, reply, gone>>

(* A client that has left is noticed before a chunk.                       *)
AbortPrefill == pc = "prompt" /\ PLen - st.pf > PfChunk /\ gone /\ Finish

(* The generation prompt lies ahead: a part of its own, then a checkpoint. *)
GenAhead == st.pf < GenBegin /\ GenBegin < PLen

ToGenBegin ==
    /\ pc = "prompt" /\ PLen - st.pf <= PfChunk /\ GenAhead
    /\ \E r \in PrefillTo(rt, SubSeq(Prompt, st.pf + 1, GenBegin)) : rt' = r
    /\ st' = [st EXCEPT !.pf = GenBegin]
    /\ UNCHANGED <<kind, conv, pc, cyc, reply, gone>>

(* The last part of the prompt goes to generate_mtp.                       *)
LastPart == pc = "prompt" /\ PLen - st.pf <= PfChunk /\ ~GenAhead

(* Confirmed tokens that a pause in the middle of a cycle left unsent.     *)
Unsent == SubSeq(rt.toks, PLen + st.sent + 1, Len(rt.toks))

(* Faulty variant of Resend: what was confirmed is taken as delivered.     *)
ResendNothing ==
    /\ LastPart /\ Unsent # <<>>
    /\ st' = [st EXCEPT !.sent = Len(rt.toks) - PLen]
    /\ UNCHANGED <<kind, conv, rt, pc, cyc, reply, gone>>

Resend ==
    /\ LastPart /\ Unsent # <<>>
    /\ \/ (gone \/ Head(Unsent) = Stop) /\ Finish
       \/ /\ Head(Unsent) # Stop
          /\ Emit(Head(Unsent), st.slice, st.pending, "prompt") /\ UNCHANGED cyc

(* The token that was pending is sent, to be decoded as the tail.          *)
SendPending ==
    /\ LastPart /\ Unsent = <<>> /\ st.pending # NoTok
    /\ \/ (gone \/ st.pending = Stop \/ n_past(rt) + 1 >= NCtx) /\ Finish
       \/ /\ st.pending # Stop /\ n_past(rt) + 1 < NCtx
          /\ Emit(st.pending, st.slice, NoTok, "generate")
          /\ cyc' = [NoCycle EXCEPT !.x = st.pending]

(* generate_mtp: prefill what is left and take the first token.            *)
Generate ==
    /\ \/ LastPart /\ st.pf < PLen
       \/ pc = "generate"
    /\ LET rp == IF pc = "generate" THEN <<cyc.x>> ELSE SubSeq(Prompt, st.pf + 1, PLen)
       IN  \E r \in PrefillTo(rt, rp) : \E x \in Argmax(r) :
              rt' = r /\ cyc' = [NoCycle EXCEPT !.x = x]
    /\ st' = [st EXCEPT !.pf = PLen]
    /\ pc' = "token"
    /\ UNCHANGED <<kind, conv, reply, gone>>

(* Faulty variant of Done: the last row is given away.                     *)
DoneLate(t) == t = Stop \/ n_past(rt) >= NCtx

-----------------------------------------------------------------------------
(* on_token(t) returns false for good.                                     *)
Done(t) == t = Stop \/ n_past(rt) + 1 >= NCtx

SliceUsed == st.slice >= TimeSlice

(* on_token(t): close the reply, yield the runtime (pending is the token   *)
(* to go on with), or send.  When nobody waits a fresh slice begins.       *)
OnToken(t, pending, then) ==
    \/ (Done(t) \/ gone) /\ Finish
    \/ /\ ~Done(t) /\ SliceUsed
       /\ pc' = "paused"
       /\ st' = [st EXCEPT !.pending = pending, !.my = rt.toks]
       /\ UNCHANGED <<kind, conv, rt, cyc, reply, gone>>
    \/ /\ ~Done(t)
       /\ Emit(t, IF SliceUsed THEN 0 ELSE st.slice, NoTok, then)
       /\ cyc' = [cyc EXCEPT !.next = IF then = "deliver" THEN @ + 1 ELSE @]

Token == pc = "token" /\ OnToken(cyc.x, cyc.x, "draft")

(* mtp_draft_fast() K times: the first draft from the true hidden, the     *)
(* others chained on the block's own.                                      *)
Drafted(r, x, d) ==
    [r EXCEPT !.nextn = @ \o <<NextnRow(x, r.hidden)>>
                          \o [j \in 1..(K - 1) |-> NextnRow(d[j], BlockHidden)],
              !.hidden = IF K > 1 THEN BlockHidden ELSE @]

Draft ==
    /\ pc = "draft"
    /\ \E d \in [1..K -> Tokens] :
          /\ cyc' = [cyc EXCEPT !.drafts = d, !.base = rt]
          /\ rt' = Drafted(rt, cyc.x, d)
    /\ pc' = "verify"
    /\ UNCHANGED <<kind, conv, st, reply, gone>>

(* One forward over x and the drafts.  With pools too small for the batch  *)
(* the tokens are decoded one by one, which also counts mrope_next.        *)
FromBatch == ~kind.ecache \/ kind.room

Verify ==
    /\ pc = "verify"
    /\ LET toks == <<cyc.x>> \o cyc.drafts
           f == Forward(rt, toks)
       IN  /\ rt' = IF FromBatch THEN f
                    ELSE Capture([f EXCEPT !.rope = @ + K + 1])
           /\ \E v \in [1..(K + 1) -> Tokens] :
                 /\ \A j \in 1..(K + 1) : v[j] \in Argmax(Forward(rt, Prefix(toks, j)))
                 /\ cyc' = [cyc EXCEPT !.vA = v]
    /\ pc' = "settle"
    /\ UNCHANGED <<kind, conv, st, reply, gone>>

(* Faulty variant of Accepted: matches after a mismatch count as well.     *)
AcceptedAny(drafts, vA) == Cardinality({j \in 1..K : vA[j] = drafts[j]})

(* The longest prefix of drafts that the main model agrees with.           *)
Accepted(drafts, vA) ==
    CHOOSE a \in 0..K : /\ \A j \in 1..a : vA[j] = drafts[j]
                        /\ a < K => vA[a + 1] # drafts[a + 1]

(* restore_ckpt(a) and the cut of the KV rows: the state after token a of  *)
(* the verify.                                                             *)
RestoreCkpt(r, base, a) ==
    [r EXCEPT !.rows = Prefix(@, n_past(base) + a + 1),
              !.gdn = IF kind.gdn THEN Prefix(@, n_past(base) + a + 1) ELSE @]

(* restore_states() and n_past: the state that backup_states() has seen.   *)
RestoreStates(r, base) == [r EXCEPT !.rows = base.rows, !.gdn = base.gdn]

(* The main state once a of K drafts are confirmed: as the verify left it, *)
(* cut back to token a, or restored and decoded again.                     *)
SettleMain(r, base, x, drafts, a) ==
    IF a = K THEN r
    ELSE IF ~kind.gdn \/ FromBatch THEN RestoreCkpt(r, base, a)
    ELSE Forward(RestoreStates(r, base), <<x>> \o Prefix(drafts, a))

(* The draft rows of the accepted tokens again, with the true hiddens.     *)
Resync(r, base, drafts, a) ==
    Prefix(r.nextn, Len(base.nextn) + 1)
    \o [j \in 1..a |-> NextnRow(drafts[j], Prefix(Seen(r), n_past(base) + j))]

Settle ==
    /\ pc = "settle"
    /\ LET a == Accepted(cyc.drafts, cyc.vA)
           main == SettleMain(rt, cyc.base, cyc.x, cyc.drafts, a)
       IN  /\ rt' = [Capture(main) EXCEPT
                 !.nextn = Resync(main, cyc.base, cyc.drafts, a),
                 !.toks = @ \o <<cyc.x>> \o Prefix(cyc.drafts, a),
                 !.rope = cyc.base.rope + a + 1]
           /\ cyc' = [NoCycle EXCEPT !.drafts = cyc.drafts, !.a = a, !.xnew = cyc.vA[a + 1]]
    /\ pc' = "deliver"
    /\ UNCHANGED <<kind, conv, st, reply, gone>>

(* The accepted drafts are sent after the state was settled.               *)
Deliver ==
    /\ pc = "deliver" /\ cyc.next <= cyc.a
    /\ OnToken(cyc.drafts[cyc.next], cyc.xnew, "deliver")

NextCycle ==
    /\ pc = "deliver" /\ cyc.next > cyc.a
    /\ cyc' = [NoCycle EXCEPT !.x = cyc.xnew]
    /\ pc' = "token"
    /\ UNCHANGED <<kind, conv, rt, st, reply, gone>>

Work ==
    \/ Take \/ Chunk \/ AbortPrefill \/ ToGenBegin \/ Resend \/ SendPending \/ Generate
    \/ Token \/ Draft \/ Verify \/ Settle \/ Deliver \/ NextCycle \/ Closing

Next == Work \/ Leave

(* The provider is called again while it returns true; its own loops end.  *)
Spec == Init /\ [][Next]_vars /\ WF_vars(Work)

-----------------------------------------------------------------------------
(* Properties *)

(* Types of the stream's and the cycle's fields.                           *)
MTypeOK ==
    /\ kind \in Kinds /\ gone \in BOOLEAN
    /\ pc \in {"paused", "prompt", "generate", "token", "draft", "verify", "settle",
               "deliver", "closing", "over"}
    /\ st.pf \in 0..PLen /\ st.sent = Len(reply) /\ st.sent <= kind.max
    /\ st.pending \in Tokens \cup {NoTok}
    /\ rt.toks \in Seq(Tokens) /\ rt.rope \in Nat
    /\ cyc.a \in 0..K /\ cyc.next \in 1..(K + 1)

(* Between cycles the state is one the prefix cache may keep: the rows,    *)
(* the recurrent state and the position counter are those of kv_toks, and  *)
(* kv_toks is what the model itself would have said.                       *)
Settled ==
    pc \notin {"verify", "settle"} =>
        /\ Sound(rt) /\ Seen(rt) = rt.toks
        /\ kind.mrope => rt.rope = n_past(rt)
        /\ rt.toks = Prefix(conv, Len(rt.toks))

(* "invariant at loop top": the draft block has a row for every token but  *)
(* the first, each paired with the main model's hidden before it, and      *)
(* mtp_hidden is that of the last token, also over pauses and rebuilds.    *)
(* With expert offload the fused graph does not capture the hidden.        *)
NextnAligned ==
    pc \in {"token", "deliver", "paused"} /\ rt.rows # <<>> =>
        /\ Len(rt.nextn) = n_past(rt) - 1
        /\ \A i \in DOMAIN rt.nextn : rt.nextn[i].tok = rt.toks[i + 1]
        /\ ~kind.ecache =>
              /\ rt.hidden = rt.toks
              /\ \A i \in DOMAIN rt.nextn : rt.nextn[i].hid = Prefix(rt.toks, i)

(* No row, of the main model or of the draft block, lies outside the       *)
(* context the caches were allocated for.                                  *)
WithinContext == n_past(rt) <= NCtx /\ Len(rt.nextn) <= NCtx

(* The client receives the greedy reply, whole and in order, through       *)
(* drafts, rejections, pauses and rebuilt states, and it is closed.        *)
Greedy == INSTANCE GreedyReply WITH
    limits <- [max |-> kind.max, slack |-> kind.draft + 1], over <- pc = "over"
ImplementsGreedy == Greedy!GSpec

=============================================================================
