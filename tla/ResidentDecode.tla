--------------------------- MODULE ResidentDecode ---------------------------
(***************************************************************************)
(* Decoding one token at a time over the expert cache (core/runtime.cpp):  *)
(*                                                                         *)
(*  fast    decode_cached_fast: the whole token in one graph that finds    *)
(*          the experts through an uploaded remap table; speculative, with *)
(*          a check of residency and a fallback, or restricted by an       *)
(*          uploaded mask to what is resident, with a refill afterwards    *)
(*  plain   decode_cached: layer by layer, each selection ensured first    *)
(*  split   decode_cached with cpu_miss: resident experts on the GPU, the  *)
(*          others on the CPU, whose sum joins one layer later             *)
(*                                                                         *)
(* Prefills run between tokens.  A token is judged by what it has added    *)
(* up: h counts how often each expert's output has entered the residual.   *)
(***************************************************************************)
EXTENDS ExpertCache

CONSTANTS Modes,      \* subset of {"plain", "fast", "resident"}: the environment's choice
          ResMin,     \* QWEN_RESIDENT_MIN
          WarmTok,    \* QWEN_RESIDENT_WARMUP
          Budget,     \* QWEN_RESIDENT_REFILL
          CmRefill,   \* QWEN_CPU_MISS_REFILL
          UsePle,     \* the model hashes n-grams of the tokens
          Win, Rounds \* CmTune::WIN, ROUNDS

ASSUME ResidentAssumption ==
    /\ Layers # {}
    /\ Modes \subseteq {"plain", "fast", "resident"}
    /\ {ResMin, Win, Rounds} \subseteq Nat \ {0}
    /\ {WarmTok, Budget, CmRefill} \subseteq Nat
    /\ UsePle \in BOOLEAN

VARIABLES mode,
          fast,     \* the uploads: remap, mask, complete, floor; fresh: the stamp is current
          warm,     \* fast_warm_tokens, counted up to the deadline
          cursor,   \* refill_cursor: the layer the next refill starts at
          tune,     \* cm_tune and cpu_miss
          dec       \* the token being decoded

rvars == <<mode, fast, warm, cursor, tune, dec>>
allvars == <<cvars, rvars>>

FirstLayer == Min(Layers)
LastLayer == Max(Layers)
NextLayer(l) == IF l = LastLayer THEN FirstLayer ELSE Min({m \in Layers : m > l})

NewToken(pc) ==
    [pc |-> pc, layer |-> FirstLayer, sel |-> {}, h |-> [k \in Keys |-> 0], wrong |-> FALSE,
     corr |-> {}, cand |-> {}, absorbed |-> 0, hashed |-> 0,
     refill |-> <<>>, budget |-> 0]

Ready(pc) == Idle /\ dec.pc = pc

(* setup_cpu_miss(): off, on (forced or found in the tune file), or to be  *)
(* tuned on the first tokens; only for the RAM tier.                       *)
TuneStarts ==
    {[active |-> c = "auto", on |-> c = "on", idx |-> 1, n |-> 0, round |-> 0] :
        c \in IF Ssd THEN {"off"} ELSE {"off", "on", "auto"}}

(* No upload yet, or one whose stamp has passed: before the next graph runs *)
(* the tables are written anew, so that what they held no longer matters.  *)
NoUpload == [remap |-> [p \in Pools |-> [k \in Keys |-> 0]], mask |-> [l \in Layers |-> Experts],
             complete |-> FALSE, floor |-> -1, fresh |-> FALSE]

RInit ==
    /\ CInit
    /\ mode \in Modes
    /\ fast = NoUpload
    /\ warm = 0 /\ cursor = FirstLayer
    /\ tune \in TuneStarts
    /\ dec = NewToken("idle")

-----------------------------------------------------------------------------
(* The cache at work, for a token or for a prefill *)

(* Faulty variant of Stamped: evictions do not count.                      *)
StampedMisses == call.op \in {"ensure", "install"}

(* The stamp is misses + evictions: ensure() and ensure_resident() count   *)
(* every miss, the installs of rebalance() and load_prefetch() only what   *)
(* they evict.                                                             *)
Stamped == call.op \in {"ensure", "install"} \/ Free(WantPool) = {}

CacheStep ==
    /\ \/ (Hit \/ Return \/ Skip \/ Done) /\ UNCHANGED fast
       \/ Miss /\ fast' = NoUpload
       \/ Install /\ fast' = IF Stamped THEN NoUpload ELSE fast
    /\ UNCHANGED <<mode, warm, cursor, tune, dec>>

Prefill ==
    /\ dec.pc = "idle"
    /\ \/ \E l \in Layers : EnsureSlice(l)
       \/ \E order \in Rankings : Rebalance(order)
    /\ UNCHANGED rvars

-----------------------------------------------------------------------------
(* The weights in a slot, and what a set of experts adds to the residual   *)

Resident(k) == \A r \in Range(Roles) : key2slot[PoolOf[r][k[1]]][k] # 0

Palette(l) == {e \in Experts : Resident(<<l, e>>)}

(* The matmuls of key k read, for every role, the slot that map says.      *)
Reads(map, k) ==
    \A r \in Range(Roles) :
        LET p == PoolOf[r][k[1]] IN map[p][k] # 0 /\ content[p][map[p][k]] = k

Plus(h, keys) == [k \in Keys |-> IF k \in keys /\ h[k] < 2 THEN h[k] + 1 ELSE h[k]]

KeysOf(l, ids) == {<<l, ids[i]>> : i \in DOMAIN ids}

(* touch() of the used experts, one after the other.                       *)
Newest(order, s) ==
    [u \in DOMAIN order |-> IF u = s THEN Len(order)
                            ELSE IF order[u] > order[s] THEN order[u] - 1 ELSE order[u]]

Touched(keys) ==
    LET serves(p, k) == key2slot[p][k] # 0 /\ \E r \in Range(Roles) : PoolOf[r][k[1]] = p
    IN  /\ rank' = [p \in Pools |-> FoldLeft(LAMBDA order, k :
                        IF serves(p, k) THEN Newest(order, key2slot[p][k]) ELSE order, rank[p], keys)]
        /\ counted' = counted \cup Range(keys)
        /\ result' = {}
        /\ UNCHANGED <<pools, content, quota, quota_on, call>>

(* The refill: ensure_resident() for what is absent, within the budget.    *)
RefillNext ==
    /\ Ready("refill") /\ dec.refill # <<>> /\ dec.budget > 0
    /\ LET k == Head(dec.refill)
       IN  IF Resident(k)
           THEN dec' = [dec EXCEPT !.refill = Tail(@)] /\ UNCHANGED cvars
           ELSE /\ dec' = [dec EXCEPT !.refill = Tail(@), !.budget = @ - 1]
                /\ EnsureResident(k[1], k[2])
    /\ UNCHANGED <<mode, fast, warm, cursor, tune>>

RefillEnds ==
    /\ Ready("refill") /\ (dec.refill = <<>> \/ dec.budget = 0)
    /\ dec' = [dec EXCEPT !.pc = "end", !.refill = <<>>]
    /\ UNCHANGED <<cvars, mode, fast, warm, cursor, tune>>

-----------------------------------------------------------------------------
(* decode(): which path a single token takes *)

CpuMiss == IF tune.active THEN tune.idx = 2 ELSE tune.on

(* The per-layer path starts the residual, the recurrent layers and the    *)
(* n-gram history afresh on this token.                                    *)
Started(pc, d) == [NewToken(pc) EXCEPT !.absorbed = d.absorbed + 1, !.hashed = d.hashed + 1]

Begin ==
    /\ Ready("idle")
    /\ dec' = IF CpuMiss THEN Started("split", dec)
              ELSE IF mode = "plain" THEN Started("select", dec)
              ELSE NewToken("fast")
    /\ UNCHANGED <<cvars, mode, fast, warm, cursor, tune>>

(* cm_tune_record(): windows of Win tokens per setting, Rounds times; then *)
(* the setting that was faster stays.                                      *)
Recorded(t) ==
    IF t.n + 1 < Win THEN {[t EXCEPT !.n = @ + 1]}
    ELSE IF t.idx < 2 THEN {[t EXCEPT !.n = 0, !.idx = @ + 1]}
    ELSE IF t.round + 1 < Rounds THEN {[t EXCEPT !.n = 0, !.idx = 1, !.round = @ + 1]}
    ELSE {[t EXCEPT !.n = 0, !.idx = 1, !.round = 0, !.active = FALSE, !.on = o] : o \in BOOLEAN}

TokenEnds ==
    /\ Ready("end")
    /\ dec' = NewToken("idle")
    /\ tune' \in IF tune.active THEN Recorded(tune) ELSE {tune}
    /\ UNCHANGED <<cvars, mode, fast, warm, cursor>>

-----------------------------------------------------------------------------
(* decode_cached_fast() *)

Floor == IF warm > WarmTok THEN NUsed ELSE Max({NUsed, Min({ResMin, Cardinality(Experts)})})

Thin(l) == Cardinality(Palette(l)) < Floor

(* fill_resmask() and fill_g2s(): a layer with too few resident experts    *)
(* stays unmasked.                                                         *)
Uploaded ==
    [remap |-> key2slot,
     mask |-> [l \in Layers |-> IF mode = "fast" \/ Thin(l) THEN Experts ELSE Palette(l)],
     complete |-> mode = "resident" /\ \A l \in Layers : ~Thin(l),
     floor |-> Floor, fresh |-> TRUE]

(* The token is hashed for the n-gram rows, then the uploads are renewed   *)
(* if the stamp or the floor has moved.                                    *)
FastInputs ==
    /\ Ready("fast")
    /\ fast' = IF fast.fresh /\ fast.floor = Floor THEN fast ELSE Uploaded
    /\ warm' = Min({warm + 1, WarmTok + 1})
    /\ dec' = [dec EXCEPT !.pc = "run", !.hashed = @ + 1]
    /\ UNCHANGED <<cvars, mode, cursor, tune>>

(* What the router selects, and what it would have without the mask.       *)
Routes(mask) == {s \in [Layers -> Selections(NUsed)] : \A l \in Layers : Range(s[l]) \subseteq mask[l]}

AllKeys(s) == UNION {KeysOf(l, s[l]) : l \in Layers}

(* The layers from the cursor on, with what each wanted.                   *)
FromCursor(s) ==
    FlattenSeq([i \in 1..Cardinality(Layers) |->
        LET l == LayerSeq[((i - 1 + Cardinality({m \in Layers : m < cursor})) % Len(LayerSeq)) + 1]
        IN  [j \in DOMAIN s[l] |-> <<l, s[l][j]>>]])

InLayers(s) == FlattenSeq([i \in 1..Len(LayerSeq) |->
                  [j \in DOMAIN s[LayerSeq[i]] |-> <<LayerSeq[i], s[LayerSeq[i]][j]>>]])

(* The graph has run for selection s. *)
Ran(s) ==
    [dec EXCEPT !.sel = AllKeys(s), !.h = Plus(@, AllKeys(s)), !.absorbed = @ + 1,
                !.wrong = \E k \in AllKeys(s) : ~Reads(fast.remap, k), !.pc = "end"]

(* A complete mask: no check, and a refill of what the router wanted.      *)
FastMasked ==
    /\ Ready("run") /\ fast.complete
    /\ \E s \in Routes(fast.mask), w \in Routes([l \in Layers |-> Experts]) :
          IF Budget = 0
          THEN dec' = Ran(s) /\ UNCHANGED <<cvars, cursor>>
          ELSE /\ dec' = [Ran(s) EXCEPT !.pc = "refill", !.refill = FromCursor(w), !.budget = Budget]
               /\ Touched(InLayers(s))
               /\ cursor' = NextLayer(cursor)
    /\ UNCHANGED <<mode, fast, warm, tune>>

(* Speculative: with every selected expert resident the result stands,     *)
(* otherwise the recurrent state is restored and the token is decoded      *)
(* again.                                                                  *)
FastAccepted ==
    /\ Ready("run") /\ ~fast.complete
    /\ \E s \in Routes(fast.mask) :
          /\ \A k \in AllKeys(s) : Resident(k)
          /\ dec' = Ran(s) /\ Touched(InLayers(s))
    /\ UNCHANGED <<mode, fast, warm, cursor, tune>>

(* Faulty variant of RolledBack: the recurrent state is not restored.      *)
RolledBackNot(d) == d

(* restore_states(): the recurrent layers as backup_states() saved them.   *)
RolledBack(d) == [d EXCEPT !.absorbed = dec.absorbed]

FastMissed ==
    /\ Ready("run") /\ ~fast.complete
    /\ \E s \in Routes(fast.mask) :
          /\ \E k \in AllKeys(s) : ~Resident(k)
          /\ dec' = Started("select", RolledBack(Ran(s)))
    /\ UNCHANGED <<cvars, mode, fast, warm, cursor, tune>>

-----------------------------------------------------------------------------
(* decode_cached(), layer by layer *)

(* Segment A of a layer, and ensure() for what its router selects.         *)
Select ==
    /\ dec.pc = "select"
    /\ \E ids \in Selections(NUsed) :
          /\ Ensure(dec.layer, ids, quota_on)
          /\ dec' = [dec EXCEPT !.pc = "matmul", !.sel = @ \cup KeysOf(dec.layer, ids)]
    /\ UNCHANGED <<mode, fast, warm, cursor, tune>>

(* Segment B on the slots that ensure() returned.                          *)
Matmul ==
    /\ Ready("matmul")
    /\ dec' = [dec EXCEPT !.h = Plus(@, {x.key : x \in result}),
                          !.wrong = @ \/ \E x \in result : content[x.pool][x.slot] # x.key,
                          !.pc = IF dec.layer = LastLayer THEN "end" ELSE "select",
                          !.layer = NextLayer(@)]
    /\ UNCHANGED <<cvars, mode, fast, warm, cursor, tune>>

-----------------------------------------------------------------------------
(* decode_cached() with cpu_miss *)

(* Faulty variant of Correction: nothing to upload leaves what was there.  *)
CorrectionStale(absent) == IF absent = {} THEN dec.corr ELSE absent

(* upload_corr(): the CPU's share of this layer, for the next segment A.   *)
Correction(absent) == absent

(* Segment A folds in the CPU's share of the layer before; the selection   *)
(* is split by residency, the GPU adds its part and the CPU's waits.       *)
Split ==
    /\ Ready("split")
    /\ \E ids \in Selections(NUsed) :
          LET chosen == [i \in DOMAIN ids |-> <<dec.layer, ids[i]>>]
              gpu    == Among(chosen, {k \in Keys : Resident(k)})
              absent == Range(chosen) \ Range(gpu)
          IN  /\ Touched(gpu)
              /\ dec' = [dec EXCEPT
                        !.sel = @ \cup Range(chosen),
                        !.h = Plus(Plus(@, dec.corr), Range(gpu)),
                        !.wrong = @ \/ \E k \in Range(gpu) : ~Reads(key2slot, k),
                        !.corr = Correction(absent),
                        !.cand = @ \cup absent,
                        !.pc = IF dec.layer = LastLayer THEN "add" ELSE "split",
                        !.layer = NextLayer(@)]
    /\ UNCHANGED <<mode, fast, warm, cursor, tune>>

(* The last layer's share has no segment A after it.  Then the refill, the *)
(* experts missed most often first.                                        *)
CmAdd ==
    /\ Ready("add")
    /\ \E order \in SetToSeqs(dec.cand) :
          dec' = [dec EXCEPT !.h = Plus(@, dec.corr), !.corr = {}, !.cand = {},
                             !.refill = order, !.budget = CmRefill, !.pc = "refill"]
    /\ UNCHANGED <<cvars, mode, fast, warm, cursor, tune>>

-----------------------------------------------------------------------------
RNext ==
    \/ CacheStep \/ Prefill
    \/ Begin \/ TokenEnds \/ RefillNext \/ RefillEnds
    \/ FastInputs \/ FastMasked \/ FastAccepted \/ FastMissed
    \/ Select \/ Matmul
    \/ Split \/ CmAdd

RSpec == RInit /\ [][RNext]_allvars

-----------------------------------------------------------------------------
(* Whatever path a token takes, every expert its routers selected enters   *)
(* the residual once, from a slot that holds its weights, and the          *)
(* recurrent layers absorb the token once: also after a speculative miss,  *)
(* with the CPU's share one layer late, and while prefills and refills     *)
(* move the experts between tokens.                                        *)
TokenExact ==
    dec.pc = "end" =>
        /\ \A k \in Keys : dec.h[k] = IF k \in dec.sel THEN 1 ELSE 0
        /\ ~dec.wrong /\ dec.corr = {}
        /\ dec.absorbed = 1
        /\ UsePle => dec.hashed = 1

(* "Residency only changes through fetches/evictions": while the stamp of  *)
(* the last upload is current, the uploaded remap table is the residency,  *)
(* and the experts a complete mask lets through are all in VRAM.           *)
StampHonest ==
    fast.fresh =>
        /\ fast.remap = key2slot
        /\ fast.complete => \A l \in Layers : fast.mask[l] \subseteq Palette(l)

=============================================================================
