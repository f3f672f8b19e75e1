----------------------------- MODULE ExpertCache -----------------------------
(***************************************************************************)
(* class ExpertCache (core/expert_cache.cpp): pools of VRAM slots holding  *)
(* copies of expert weights, filled on demand from RAM or from the SSD.    *)
(*                                                                         *)
(* Every (role, layer) is served by one pool; a pool holds slots of one    *)
(* weight type and may serve several layers.  A key <<layer, expert>>      *)
(* stands for the code's layer * n_expert + expert.  key2slot and its      *)
(* dense twin slot_of are always written together and are one map here,    *)
(* with 0 for an absent key.  The timestamps clk are only compared within  *)
(* a pool: rank gives their order.  Access counts only serve to rank keys  *)
(* for rebalance() and load_prefetch(): counted are the keys that have     *)
(* one, Rankings the orders the counts may put the keys in.                *)
(*                                                                         *)
(* A call works through the keys it wants, and every role of each, one per *)
(* step, so that a read that fails stops it in the middle.                 *)
(***************************************************************************)
EXTENDS Integers, Sequences, FiniteSets, FiniteSetsExt, SequencesExt

CONSTANTS Layers,      \* layers with routed experts, served by this device
          Experts,
          Roles,       \* gate, up, down: a sequence
          Pools,
          PoolOf,      \* layer_pool_: PoolOf[role][layer]
          NSlots,      \* slots per pool
          NUsed,       \* experts per token
          Margin,      \* slack that batches leave below a capacity (8 in the code)
          Ssd,         \* misses are read from the SSD, and a read may fail
          Rankings     \* orders of all keys, hottest first

ASSUME ExpertCacheAssumption ==
    /\ IsFiniteSet(Layers) /\ Layers \subseteq Nat \ {0}
    /\ IsFiniteSet(Experts)
    /\ Roles \in Seq(Range(Roles)) /\ Roles # <<>>
    /\ PoolOf \in [Range(Roles) -> [Layers -> Pools]]
    /\ \A p \in Pools : NSlots[p] \in Nat \ {0}
    /\ \A r, q \in Range(Roles), l, m \in Layers : PoolOf[r][l] = PoolOf[q][m] => r = q
    /\ NUsed \in 1..Cardinality(Experts) /\ Margin \in Nat
    /\ Ssd \in BOOLEAN
    /\ Rankings \subseteq Seq(Layers \X Experts)

VARIABLES key2slot,   \* per pool: key -> slot, 0 when it is absent
          slot2key,   \* per pool: slot -> key, NoKey when it is free
          occ,        \* per pool and layer: slots held
          rank,       \* per pool: slot -> place in the order of last use
          content,    \* per pool: the key whose weights the slot's memory holds
          counted,    \* keys with an access count
          quota,      \* per layer, -1 before the first rebalance
          quota_on,   \* quota_on_
          call,       \* the call being worked on
          result      \* what the last ensure() returned, while it is used

cvars == <<key2slot, slot2key, occ, rank, content, counted, quota, quota_on, call, result>>

Keys == Layers \X Experts
NoKey == <<0, 0>>
Slots(p) == 1..NSlots[p]

(* The call's keys, the roles left for the first of them, the reads left   *)
(* for later and the slots found; goal is what rebalance() fetches, saved  *)
(* what the caller's QuotaScope restores.                                  *)
NewCall(op, keys, goal, saved) ==
    [op |-> op, todo |-> keys, roles |-> Roles, jobs |-> {}, out |-> {},
     goal |-> goal, saved |-> saved]
NoCall == NewCall("none", <<>>, {}, FALSE)
Idle == call.op = "none"

(* The constructor; with a saved profile the pools are filled from it.     *)
CInit ==
    /\ key2slot = [p \in Pools |-> [k \in Keys |-> 0]]
    /\ slot2key = [p \in Pools |-> [s \in Slots(p) |-> NoKey]]
    /\ occ = [p \in Pools |-> [l \in Layers |-> 0]]
    /\ rank = [p \in Pools |-> [s \in Slots(p) |-> s]]
    /\ content = [p \in Pools |-> [s \in Slots(p) |-> NoKey]]
    /\ counted = {}
    /\ quota = [l \in Layers |-> -1]
    /\ quota_on = FALSE
    /\ call \in {NoCall} \cup
               {NewCall("prefetch", order, {}, FALSE) : order \in Rankings}
    /\ result = {}

-----------------------------------------------------------------------------
(* Choosing, releasing and claiming a slot *)

(* s is the least recently used of S. *)
Lru(p, S, s) == s \in S /\ \A u \in S : rank[p][s] <= rank[p][u]

Free(p) == {s \in Slots(p) : slot2key[p][s] = NoKey}

(* With quotas on, a layer at its quota recycles its own slots and another *)
(* one takes those of a layer over its quota.                              *)
Eligible(p, l) ==
    LET layer(s) == slot2key[p][s][1]
        self == quota[l] >= 0 /\ occ[p][l] >= quota[l]
    IN  {s \in Slots(p) :
           ~quota_on \/ IF self THEN layer(s) = l ELSE occ[p][layer(s)] > quota[layer(s)]}

(* Faulty variant of pick_victim: the most recently used slot.             *)
pick_victim_mru(p, l, s) ==
    IF Free(p) # {} THEN s = Min(Free(p))
    ELSE s \in Slots(p) /\ \A u \in Slots(p) : rank[p][u] <= rank[p][s]

(* pick_victim(pool, layer) is s: the first free slot, else the least      *)
(* recently used eligible one, else the least recently used.               *)
pick_victim(p, l, s) ==
    IF Free(p) # {} THEN s = Min(Free(p))
    ELSE IF Eligible(p, l) # {} THEN Lru(p, Eligible(p, l), s)
    ELSE Lru(p, Slots(p), s)

(* Faulty variant of Used: the clock is read and not advanced.             *)
UsedTies(p, s) == [rank[p] EXCEPT ![s] = NSlots[p]]

(* Slot s becomes the most recently used one. *)
Used(p, s) ==
    [u \in Slots(p) |-> IF u = s THEN NSlots[p]
                        ELSE IF rank[p][u] > rank[p][s] THEN rank[p][u] - 1
                        ELSE rank[p][u]]

(* The maps of pool p after drop_slot(s). *)
Dropped(p, s) == [k \in Keys |-> IF k = slot2key[p][s] THEN 0 ELSE key2slot[p][k]]

(* Faulty variant of Left: the layer that loses the slot still counts it.  *)
LeftNever(p, s) == occ[p]

Left(p, s) == [l \in Layers |-> IF l = slot2key[p][s][1] THEN occ[p][l] - 1 ELSE occ[p][l]]

(* Faulty variant of Claim: the evicted key keeps its slot.                *)
ClaimKeepsOld(p, s, k) ==
    /\ key2slot' = [key2slot EXCEPT ![p] = [key2slot[p] EXCEPT ![k] = s]]
    /\ slot2key' = [slot2key EXCEPT ![p][s] = k]
    /\ occ' = [occ EXCEPT ![p] = [Left(p, s) EXCEPT ![k[1]] = @ + 1]]
    /\ rank' = [rank EXCEPT ![p] = Used(p, s)]

(* drop_slot and the bookkeeping that install and reserve_victim share.    *)
Claim(p, s, k) ==
    /\ key2slot' = [key2slot EXCEPT ![p] = [Dropped(p, s) EXCEPT ![k] = s]]
    /\ slot2key' = [slot2key EXCEPT ![p][s] = k]
    /\ occ' = [occ EXCEPT ![p] = [Left(p, s) EXCEPT ![k[1]] = @ + 1]]
    /\ rank' = [rank EXCEPT ![p] = Used(p, s)]

(* Faulty variant of Copied: the offset of the slot is left out.           *)
CopiedFirst(p, s, k) == [content EXCEPT ![p][1] = k]

(* fetch_slab from RAM, or a slab read from the SSD, into slot s.          *)
Copied(p, s, k) == [content EXCEPT ![p][s] = k]

Want == Head(call.todo)
WantPool == PoolOf[Head(call.roles)][Want[1]]
Here == key2slot[WantPool][Want]

(* The call after the next role, or the next key. *)
Advanced(c) ==
    IF Tail(c.roles) = <<>> THEN [c EXCEPT !.todo = Tail(c.todo), !.roles = Roles]
    ELSE [c EXCEPT !.roles = Tail(c.roles)]

pools == <<key2slot, slot2key, occ>>

-----------------------------------------------------------------------------
(* ensure(): resolve every wanted key to a slot, then read the misses      *)

(* The quota of a layer, or the size of its smallest pool; and the number  *)
(* of experts one ensure() may name.                                       *)
PoolSize(l) == Min({NSlots[PoolOf[r][l]] : r \in Range(Roles)})
quota_of(l) == IF quota[l] >= 0 THEN quota[l] ELSE PoolSize(l)
capacity(l, on) == IF on /\ quota[l] >= 0 THEN Max({quota[l], NUsed}) ELSE PoolSize(l)

(* ensure(layer, ids), with quotas on or off as the caller leaves them.    *)
Ensure(l, ids, on) ==
    /\ Idle
    /\ call' = NewCall("ensure", [i \in DOMAIN ids |-> <<l, ids[i]>>], {}, quota_on)
    /\ quota_on' = on
    /\ result' = {}
    /\ UNCHANGED <<pools, rank, content, counted, quota>>

Selections(n) == {ids \in [1..n -> Experts] : \A i, j \in 1..n : ids[i] = ids[j] => i = j}

(* One token's experts, with the quotas as they are.                       *)
EnsureToken(l) == \E ids \in Selections(NUsed) : Ensure(l, ids, quota_on)

(* A slice of a batch, or its whole union at once: plan_slices keeps the   *)
(* quotas on only for a batch that fits them, and cuts the batch to the    *)
(* capacity.  An expert named again by a later token is a hit.             *)
EnsureSlice(l) ==
    \E on \in BOOLEAN, n \in NUsed..Cardinality(Experts) :
        /\ IF on THEN n <= quota_of(l) - Margin
                 ELSE Cardinality(Experts) > quota_of(l) - Margin
        /\ n <= Max({NUsed, capacity(l, on) - Margin})
        /\ \E ids \in Selections(n) : Ensure(l, ids, on)

(* The call with one more slot found; with one more slab to read (a slot   *)
(* taken twice is written last by the last job).                           *)
Found(c, x) == [c EXCEPT !.out = c.out \cup {x}]
Queued(c, x) ==
    [c EXCEPT !.jobs = {j \in c.jobs : j.pool # x.pool \/ j.slot # x.slot} \cup {x}]

Out(s) == [pool |-> WantPool, slot |-> s, key |-> Want]

Hit ==
    /\ call.op = "ensure" /\ call.todo # <<>>
    /\ Here # 0
    /\ rank' = [rank EXCEPT ![WantPool] = Used(WantPool, Here)]
    /\ call' = Advanced(Found(call, Out(Here)))
    /\ counted' = counted \cup {Want}
    /\ UNCHANGED <<pools, content, quota, quota_on, result>>

(* A miss takes a slot; the RAM tier copies the weights at once, the SSD   *)
(* tier leaves a job.                                                      *)
Miss ==
    /\ call.op = "ensure" /\ call.todo # <<>>
    /\ Here = 0
    /\ \E s \in Slots(WantPool) :
         /\ pick_victim(WantPool, Want[1], s)
         /\ Claim(WantPool, s, Want)
         /\ content' = IF Ssd THEN content ELSE Copied(WantPool, s, Want)
         /\ call' = Advanced(Found(IF Ssd THEN Queued(call, Out(s)) ELSE call, Out(s)))
    /\ counted' = counted \cup {Want}
    /\ UNCHANGED <<quota, quota_on, result>>

(* The memory after the jobs of a set were done. *)
Loaded(jobs) ==
    [p \in Pools |-> [s \in Slots(p) |->
       IF \E j \in jobs : j.pool = p /\ j.slot = s
       THEN (CHOOSE j \in jobs : j.pool = p /\ j.slot = s).key
       ELSE content[p][s]]]

(* fetch_parallel succeeds and ensure() returns the slots ...              *)
Return ==
    /\ call.op = "ensure" /\ call.todo = <<>>
    /\ content' = Loaded(call.jobs)
    /\ result' = call.out
    /\ quota_on' = call.saved
    /\ call' = NoCall
    /\ UNCHANGED <<pools, rank, counted, quota>>

(* ... or a read fails, and the exception leaves what was claimed.         *)
FetchFails ==
    /\ Ssd /\ call.op = "ensure" /\ call.todo = <<>>
    /\ \E done \in SUBSET call.jobs :
         done # call.jobs /\ content' = Loaded(done)
    /\ quota_on' = call.saved
    /\ call' = NoCall
    /\ UNCHANGED <<pools, rank, counted, quota, result>>

-----------------------------------------------------------------------------
(* install(): the other calls fetch what is absent, one slab at a time     *)

(* ensure_resident(layer, expert). *)
EnsureResident(l, e) ==
    /\ Idle
    /\ call' = NewCall("install", <<<<l, e>>>>, {}, quota_on)
    /\ result' = {}
    /\ UNCHANGED <<pools, rank, content, counted, quota, quota_on>>

(* touch(): a use that the fast path reports. *)
Touch(r, l, e) ==
    LET p == PoolOf[r][l]
        s == key2slot[p][<<l, e>>]
    IN  /\ Idle /\ s # 0
        /\ rank' = [rank EXCEPT ![p] = Used(p, s)]
        /\ counted' = counted \cup {<<l, e>>}
        /\ result' = {}
        /\ UNCHANGED <<pools, content, quota, quota_on, call>>

Fetching == call.op \in {"install", "prefetch", "rebalance"}

(* The key is resident, or the loop of load_prefetch or rebalance passes   *)
(* it over.                                                                *)
Passed ==
    \/ Here # 0
    \/ call.op = "prefetch" /\ Free(WantPool) = {}
    \/ call.op = "rebalance" /\ Want \notin call.goal

Skip ==
    /\ Fetching /\ call.todo # <<>> /\ Passed
    /\ call' = Advanced(call)
    /\ UNCHANGED <<pools, rank, content, counted, quota, quota_on, result>>

Installing == Fetching /\ call.todo # <<>> /\ ~Passed

Install ==
    /\ Installing
    /\ \E s \in Slots(WantPool) :
         /\ pick_victim(WantPool, Want[1], s)
         /\ Claim(WantPool, s, Want)
         /\ content' = Copied(WantPool, s, Want)
    /\ call' = Advanced(call)
    /\ UNCHANGED <<counted, quota, quota_on, result>>

(* Faulty variant of InstallFails: the evicted expert is still listed.     *)
InstallFailsKeepsKey ==
    /\ Ssd /\ Installing /\ call.op # "prefetch"
    /\ \E s \in Slots(WantPool) :
         /\ pick_victim(WantPool, Want[1], s)
         /\ slot2key' = [slot2key EXCEPT ![WantPool][s] = NoKey]
         /\ occ' = [occ EXCEPT ![WantPool] = Left(WantPool, s)]
         /\ content' = Copied(WantPool, s, NoKey)
    /\ call' = NoCall
    /\ UNCHANGED <<key2slot, rank, counted, quota, quota_on, result>>

(* fetch_slab throws after the slot was emptied: it stays free, whatever   *)
(* part of the slab it holds.  (In load_prefetch that ends the program.)   *)
InstallFails ==
    /\ Ssd /\ Installing /\ call.op # "prefetch"
    /\ \E s \in Slots(WantPool) :
         /\ pick_victim(WantPool, Want[1], s)
         /\ key2slot' = [key2slot EXCEPT ![WantPool] = Dropped(WantPool, s)]
         /\ slot2key' = [slot2key EXCEPT ![WantPool][s] = NoKey]
         /\ occ' = [occ EXCEPT ![WantPool] = Left(WantPool, s)]
         /\ content' = Copied(WantPool, s, NoKey)
    /\ call' = NoCall
    /\ UNCHANGED <<rank, counted, quota, quota_on, result>>

Done ==
    /\ Fetching /\ call.todo = <<>>
    /\ call' = NoCall
    /\ UNCHANGED <<pools, rank, content, counted, quota, quota_on, result>>

-----------------------------------------------------------------------------
(* rebalance(): quotas from the ranking, and the pools reshaped to them    *)

(* A layer takes n more slots in each of its pools. *)
Take(q, l, n) ==
    [q EXCEPT !.quota[l] = @ + n,
              !.rem = [p \in Pools |-> IF \E r \in Range(Roles) : PoolOf[r][l] = p
                                       THEN @[p] - n ELSE @[p]]]

(* Faulty variant of Room: only the first role's pool is asked.            *)
RoomFirst(q, l) == q.rem[PoolOf[Head(Roles)][l]]

Room(q, l) == Min({q.rem[PoolOf[r][l]] : r \in Range(Roles)})

(* The layers in ascending order. *)
LayerSeq == CHOOSE s \in [1..Cardinality(Layers) -> Layers] :
                \A i, j \in DOMAIN s : i < j => s[i] < s[j]

(* The floor of NUsed slots per layer, as far as the pools reach, in layer *)
(* order.                                                                  *)
FloorQuota ==
    FoldLeft(LAMBDA q, l : Take(q, l, Min({NUsed, Room(q, l)})),
             [quota |-> [l \in Layers |-> 0], rem |-> NSlots, seen |-> [l \in Layers |-> 0]],
             LayerSeq)

(* Faulty variant of Greedy: the pools' room is not asked.                 *)
GreedyUncapped(q, k) ==
    LET l  == k[1]
        q1 == [q EXCEPT !.seen[l] = @ + 1]
    IN  IF q.seen[l] < NUsed \/ q.quota[l] >= Cardinality(Experts)
        THEN q1 ELSE Take(q1, l, 1)

(* The keys in order of their counts: past the ones the floor pays for,    *)
(* each wins its layer a slot while there is room.                         *)
Greedy(q, k) ==
    LET l  == k[1]
        q1 == [q EXCEPT !.seen[l] = @ + 1]
    IN  IF q.seen[l] < NUsed \/ q.quota[l] >= Cardinality(Experts) \/ Room(q, l) <= 0
        THEN q1 ELSE Take(q1, l, 1)

compute_quota(ents) == FoldLeft(Greedy, FloorQuota, ents).quota

(* The hottest quota[l] keys of every layer.                               *)
Ideal(ents, q) ==
    LET place(i) == Cardinality({j \in 1..i : ents[j][1] = ents[i][1]})
    IN  {ents[i] : i \in {i \in DOMAIN ents : place(i) <= q[ents[i][1]]}}

(* The members of a sequence that are in S, in their order.                *)
Among(seq, S) == FoldLeft(LAMBDA s, k : IF k \in S THEN Append(s, k) ELSE s, <<>>, seq)

(* At the end of a prefill, which has taken every layer's experts: the     *)
(* ideal set is fetched in the order of the counts.                        *)
Rebalance(order) ==
    LET ents == Among(order, counted)
        q    == compute_quota(ents)
    IN  /\ Idle
        /\ \A l \in Layers : Cardinality({k \in counted : k[1] = l}) >= NUsed
        /\ quota' = q
        /\ quota_on' = TRUE
        /\ call' = NewCall("rebalance", order, Ideal(ents, q), TRUE)
        /\ result' = {}
        /\ UNCHANGED <<pools, rank, content, counted>>

-----------------------------------------------------------------------------
CNext ==
    \/ \E l \in Layers : EnsureToken(l) \/ EnsureSlice(l)
    \/ Hit \/ Miss \/ Return \/ FetchFails
    \/ \E l \in Layers, e \in Experts : EnsureResident(l, e) \/ \E r \in Range(Roles) : Touch(r, l, e)
    \/ Skip \/ Install \/ InstallFails \/ Done
    \/ \E order \in Rankings : Rebalance(order)

CSpec == CInit /\ [][CNext]_cvars

-----------------------------------------------------------------------------
(* The types of the state; the stamps of a pool's slots are all different, *)
(* which makes the least recently used slot unique.                        *)
CTypeOK ==
    /\ key2slot \in [Pools -> [Keys -> Nat]]
    /\ \A p \in Pools :
         /\ slot2key[p] \in [Slots(p) -> Keys \cup {NoKey}]
         /\ occ[p] \in [Layers -> Nat]
         /\ rank[p] \in Injection(Slots(p), Slots(p))
         /\ content[p] \in [Slots(p) -> Keys \cup {NoKey}]
    /\ quota \in [Layers -> -1 .. Cardinality(Experts)] /\ quota_on \in BOOLEAN
    /\ call.op \in {"none", "ensure", "install", "prefetch", "rebalance"}

(* key2slot (and slot_of, which the router's remap table is filled from)   *)
(* and slot2key are inverse to each other, through every eviction, failed  *)
(* read and interrupted call.                                              *)
MapsAgree ==
    \A p \in Pools :
        /\ \A k \in Keys : key2slot[p][k] # 0 =>
              key2slot[p][k] \in Slots(p) /\ slot2key[p][key2slot[p][k]] = k
        /\ \A s \in Slots(p) : slot2key[p][s] # NoKey => key2slot[p][slot2key[p][s]] = s

(* The slots a map gives to layer l. *)
HeldBy(map, l) == {s \in DOMAIN map : map[s][1] = l}

(* occ counts the slots a layer holds, which the quotas are compared with. *)
OccExact ==
    \A p \in Pools, l \in Layers : occ[p][l] = Cardinality(HeldBy(slot2key[p], l))

(* Quotas are ONE number per layer that every one of its pools can honour: *)
(* the layers a pool serves never add up to more than its slots.           *)
QuotaFits ==
    \A p \in Pools :
        LET held(l) == IF \E r \in Range(Roles) : PoolOf[r][l] = p THEN quota[l] ELSE 0
        IN  MapThenSumSet(held, Layers) <= NSlots[p]

Reserved(p, s) == \E j \in call.jobs : j.pool = p /\ j.slot = s

(* The slot of a resident expert holds that expert's weights, unless       *)
(* ensure() is about to read them.                                         *)
HoldsWeights ==
    \A p \in Pools : \A s \in Slots(p) :
        slot2key[p][s] # NoKey /\ ~Reserved(p, s) => content[p][s] = slot2key[p][s]

(* The slots that ensure() returned hold the experts it was asked for: one *)
(* call, within what decode or plan_slices ask, never evicts its own slots.*)
EnsureUsable == \A x \in result : content[x.pool][x.slot] = x.key

=============================================================================
