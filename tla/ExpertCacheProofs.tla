-------------------------- MODULE ExpertCacheProofs --------------------------
(***************************************************************************)
(* The expert cache for any layers, experts, roles, pools, slots and       *)
(* routing: the residency maps agree and occ counts what they hold, quotas *)
(* fit their pools, all state keeps its type; slots hold the weights they  *)
(* are listed for, on the RAM tier always and on the SSD tier as long as   *)
(* no batch of reads fails; and where the pools have room for the experts  *)
(* of a token in every layer, ensure evicts nothing it was asked for.      *)
(***************************************************************************)
EXTENDS ExpertCache, SequenceLemmas

(* A call works on keys and roles of this cache. *)
CallOK(c) ==
    /\ c = [op |-> c.op, todo |-> c.todo, roles |-> c.roles, jobs |-> c.jobs,
            out |-> c.out, goal |-> c.goal, saved |-> c.saved]
    /\ c.todo \in Seq(Keys)
    /\ c.roles \in Seq(Range(Roles)) /\ c.roles # <<>>

MapsTyped ==
    /\ key2slot \in [Pools -> [Keys -> Nat]]
    /\ DOMAIN slot2key = Pools
    /\ \A p \in Pools : slot2key[p] \in [Slots(p) -> Keys \cup {NoKey}]
    /\ occ \in [Pools -> [Layers -> Int]]

(* The invariant: MapsAgree and OccExact alone do not say that a call only *)
(* names keys the pools know.                                              *)
CInd == MapsTyped /\ CallOK(call) /\ MapsAgree /\ OccExact

-----------------------------------------------------------------------------
(* NoKey is the key of no layer. *)
LEMMA NoKeyApart == NoKey \notin Keys /\ \A k \in Keys : k[1] \in Layers /\ NoKey[1] \notin Layers
BY ExpertCacheAssumption DEF NoKey, Keys

(* One slot changes hands: the slots of layer l change by at most one. *)
LEMMA OneSlotMoves ==
    ASSUME NEW f, NEW g, DOMAIN g = DOMAIN f, IsFiniteSet(DOMAIN f),
           NEW s \in DOMAIN f, NEW l,
           \A u \in DOMAIN f \ {s} : g[u] = f[u]
    PROVE  Cardinality(HeldBy(g, l))
             = Cardinality(HeldBy(f, l))
               + (IF g[s][1] = l THEN 1 ELSE 0) - (IF f[s][1] = l THEN 1 ELSE 0)
<1> DEFINE Rest == {u \in DOMAIN f \ {s} : f[u][1] = l}
<1>1. IsFiniteSet(Rest)
  BY FS_Subset
<1>2. s \notin Rest
  OBVIOUS
<1>3. Cardinality(Rest \cup {s}) = Cardinality(Rest) + 1
  BY <1>1, <1>2, FS_AddElement
<1>4. Cardinality(Rest) \in Nat
  BY <1>1, FS_CardinalityType
<1>5. HeldBy(f, l) = IF f[s][1] = l THEN Rest \cup {s} ELSE Rest
  BY DEF HeldBy
<1>6. HeldBy(g, l) = IF g[s][1] = l THEN Rest \cup {s} ELSE Rest
  BY DEF HeldBy
<1> HIDE DEF Rest
<1> QED
  BY <1>3, <1>4, <1>5, <1>6

(* A pool's slots are finitely many. *)
LEMMA SlotsFinite == \A p \in Pools : IsFiniteSet(Slots(p)) /\ NSlots[p] \in Nat
BY ExpertCacheAssumption, FS_Interval DEF Slots

(* The pool a call looks into is one of the pools. *)
LEMMA WantTyped ==
    ASSUME CallOK(call), call.todo # <<>>
    PROVE  Want \in Keys /\ WantPool \in Pools
<1>1. Head(call.todo) \in Keys /\ Head(call.roles) \in Range(Roles)
  BY DEF CallOK
<1>2. Want[1] \in Layers
  BY <1>1 DEF Want, Keys
<1>3. PoolOf[Head(call.roles)] \in [Layers -> Pools]
  BY <1>1, ExpertCacheAssumption
<1> QED
  BY <1>1, <1>2, <1>3 DEF Want, WantPool

(* Going on to the next role or key keeps the call's shape. *)
LEMMA AdvanceTyped ==
    ASSUME NEW c, CallOK(c), c.todo # <<>>
    PROVE  CallOK(Advanced(c))
<1>1. Tail(c.todo) \in Seq(Keys) /\ Tail(c.roles) \in Seq(Range(Roles))
  BY DEF CallOK
<1>2. Roles \in Seq(Range(Roles)) /\ Roles # <<>>
  BY ExpertCacheAssumption
<1>3. CASE Tail(c.roles) = <<>>
  <2>1. Advanced(c) = [op |-> c.op, todo |-> Tail(c.todo), roles |-> Roles, jobs |-> c.jobs,
                       out |-> c.out, goal |-> c.goal, saved |-> c.saved]
    BY <1>3 DEF Advanced, CallOK
  <2> QED
    BY <2>1, <1>1, <1>2 DEF CallOK
<1>4. CASE Tail(c.roles) # <<>>
  <2>1. Advanced(c) = [op |-> c.op, todo |-> c.todo, roles |-> Tail(c.roles), jobs |-> c.jobs,
                       out |-> c.out, goal |-> c.goal, saved |-> c.saved]
    BY <1>4 DEF Advanced, CallOK
  <2> QED
    BY <2>1, <1>1, <1>4 DEF CallOK
<1> QED
  BY <1>3, <1>4

(* Changing the slots found, or the slabs to read, keeps it too. *)
LEMMA FieldTyped ==
    ASSUME NEW c, CallOK(c), NEW x
    PROVE  /\ CallOK([c EXCEPT !.out = x]) /\ [c EXCEPT !.out = x].todo = c.todo
           /\ CallOK([c EXCEPT !.jobs = x]) /\ [c EXCEPT !.jobs = x].todo = c.todo
<1>1. [c EXCEPT !.out = x]
        = [op |-> c.op, todo |-> c.todo, roles |-> c.roles, jobs |-> c.jobs,
           out |-> x, goal |-> c.goal, saved |-> c.saved]
  BY DEF CallOK
<1>2. [c EXCEPT !.jobs = x]
        = [op |-> c.op, todo |-> c.todo, roles |-> c.roles, jobs |-> x,
           out |-> c.out, goal |-> c.goal, saved |-> c.saved]
  BY DEF CallOK
<1>3. CallOK([c EXCEPT !.out = x]) /\ [c EXCEPT !.out = x].todo = c.todo
  BY <1>1 DEF CallOK
<1>4. CallOK([c EXCEPT !.jobs = x]) /\ [c EXCEPT !.jobs = x].todo = c.todo
  BY <1>2 DEF CallOK
<1> QED
  BY <1>3, <1>4

LEMMA FoundTyped ==
    ASSUME NEW c, CallOK(c), NEW x
    PROVE  CallOK(Found(c, x)) /\ Found(c, x).todo = c.todo
<1> DEFINE out == c.out \cup {x}
<1>1. Found(c, x) = [c EXCEPT !.out = out]
  BY DEF Found
<1>2. CallOK([c EXCEPT !.out = out]) /\ [c EXCEPT !.out = out].todo = c.todo
  <2> HIDE DEF out
  <2> QED
    BY FieldTyped, Zenon
<1> QED
  BY <1>1, <1>2, Zenon

LEMMA QueuedTyped ==
    ASSUME NEW c, CallOK(c), NEW x
    PROVE  CallOK(Queued(c, x)) /\ Queued(c, x).todo = c.todo
<1> DEFINE jobs == {j \in c.jobs : j.pool # x.pool \/ j.slot # x.slot} \cup {x}
<1>1. Queued(c, x) = [c EXCEPT !.jobs = jobs]
  BY DEF Queued
<1>2. CallOK([c EXCEPT !.jobs = jobs]) /\ [c EXCEPT !.jobs = jobs].todo = c.todo
  <2> HIDE DEF jobs
  <2> QED
    BY FieldTyped, Zenon
<1> QED
  BY <1>1, <1>2, Zenon

(* A new call, or none. *)
LEMMA NewCallTyped ==
    ASSUME NEW op, NEW keys \in Seq(Keys), NEW goal, NEW saved
    PROVE  CallOK(NewCall(op, keys, goal, saved))
BY ExpertCacheAssumption DEF CallOK, NewCall

LEMMA NoCallTyped == CallOK(NoCall)
BY ExpertCacheAssumption DEF CallOK, NewCall, NoCall

-----------------------------------------------------------------------------
(* Claiming slot s of pool p for an absent key k. *)
LEMMA ClaimKeeps ==
    ASSUME MapsTyped, MapsAgree, OccExact,
           NEW p \in Pools, NEW s \in Slots(p), NEW k \in Keys,
           key2slot[p][k] = 0, Claim(p, s, k)
    PROVE  MapsTyped' /\ MapsAgree' /\ OccExact'
<1> DEFINE old == slot2key[p][s]
<1> USE DEF MapsTyped
<1>0. s \in Nat /\ s # 0 /\ k # NoKey /\ k[1] \in Layers
  BY NoKeyApart, SlotsFinite DEF Slots
<1>1. key2slot' = [key2slot EXCEPT ![p] = [Dropped(p, s) EXCEPT ![k] = s]]
  BY DEF Claim
<1>2. slot2key' = [slot2key EXCEPT ![p][s] = k]
  BY DEF Claim
<1>3. occ' = [occ EXCEPT ![p] = [Left(p, s) EXCEPT ![k[1]] = @ + 1]]
  BY DEF Claim
<1>4. Dropped(p, s) \in [Keys -> Nat]
  BY DEF Dropped
<1>5. Left(p, s) \in [Layers -> Int]
  BY DEF Left
<1>6. key2slot'[p] = [Dropped(p, s) EXCEPT ![k] = s] /\ \A q \in Pools \ {p} : key2slot'[q] = key2slot[q]
  BY <1>1
<1>7. slot2key'[p] = [slot2key[p] EXCEPT ![s] = k] /\ \A q \in Pools \ {p} : slot2key'[q] = slot2key[q]
  BY <1>2
<1>8. occ'[p] = [Left(p, s) EXCEPT ![k[1]] = @ + 1] /\ \A q \in Pools \ {p} : occ'[q] = occ[q]
  BY <1>3
<1>9. MapsTyped'
  <2>1. key2slot' \in [Pools -> [Keys -> Nat]]
    BY <1>0, <1>1, <1>4
  <2>2. DOMAIN slot2key' = Pools
    BY <1>2
  <2>3. \A q \in Pools : slot2key'[q] \in [Slots(q) -> Keys \cup {NoKey}]
    <3>1. slot2key'[p] \in [Slots(p) -> Keys \cup {NoKey}]
      BY <1>7
    <3> QED
      BY <3>1, <1>7
  <2>4. occ' \in [Pools -> [Layers -> Int]]
    BY <1>0, <1>3, <1>5
  <2> QED
    BY <2>1, <2>2, <2>3, <2>4 DEF Slots
<1>10. MapsAgree'
  <2> SUFFICES ASSUME NEW q \in Pools
      PROVE  /\ \A j \in Keys : key2slot'[q][j] # 0 =>
                   key2slot'[q][j] \in Slots(q) /\ slot2key'[q][key2slot'[q][j]] = j
             /\ \A u \in Slots(q) : slot2key'[q][u] # NoKey => key2slot'[q][slot2key'[q][u]] = u
    BY DEF MapsAgree, Slots
  <2>1. CASE q # p
    BY <2>1, <1>6, <1>7 DEF MapsAgree
  <2>2. CASE q = p
    <3>1. \A j \in Keys : key2slot'[p][j] = IF j = k THEN s ELSE IF j = old THEN 0 ELSE key2slot[p][j]
      BY <1>6, <1>4 DEF Dropped
    <3>2. \A u \in Slots(p) : slot2key'[p][u] = IF u = s THEN k ELSE slot2key[p][u]
      BY <1>7
    <3>3. \A j \in Keys : key2slot'[p][j] # 0 =>
              key2slot'[p][j] \in Slots(p) /\ slot2key'[p][key2slot'[p][j]] = j
      BY <3>1, <3>2 DEF MapsAgree
    <3>4. \A u \in Slots(p) : slot2key'[p][u] # NoKey => key2slot'[p][slot2key'[p][u]] = u
      <4> SUFFICES ASSUME NEW u \in Slots(p), slot2key'[p][u] # NoKey
                   PROVE  key2slot'[p][slot2key'[p][u]] = u
        OBVIOUS
      <4>1. CASE u = s
        BY <4>1, <3>1, <3>2
      <4>2. CASE u # s
        <5>1. slot2key'[p][u] = slot2key[p][u] /\ slot2key[p][u] \in Keys
          BY <4>2, <3>2
        <5>2. key2slot[p][slot2key[p][u]] = u /\ u # 0
          BY <5>1, NoKeyApart DEF MapsAgree, Slots
        <5>3. slot2key[p][u] # k /\ slot2key[p][u] # old
          BY <5>1, <5>2, <4>2, NoKeyApart DEF MapsAgree
        <5> QED
          BY <5>1, <5>2, <5>3, <3>1
      <4> QED
        BY <4>1, <4>2
    <3> QED
      BY <3>3, <3>4, <2>2
  <2> QED
    BY <2>1, <2>2
<1>11. OccExact'
  <2> SUFFICES ASSUME NEW q \in Pools, NEW l \in Layers
      PROVE  occ'[q][l] = Cardinality(HeldBy(slot2key'[q], l))
    BY DEF OccExact, Slots
  <2>0. occ[q][l] = Cardinality(HeldBy(slot2key[q], l))
    BY DEF OccExact
  <2>1. CASE q # p
    BY <2>0, <2>1, <1>7, <1>8
  <2>2. CASE q = p
    <3>1. \A u \in DOMAIN slot2key[p] \ {s} : slot2key'[p][u] = slot2key[p][u]
      BY <1>7
    <3>2. slot2key'[p][s] = k
      BY <1>7
    <3>3. Cardinality(HeldBy(slot2key'[p], l))
            = occ[p][l] + (IF k[1] = l THEN 1 ELSE 0) - (IF old[1] = l THEN 1 ELSE 0)
      <4>1. DOMAIN slot2key[p] = Slots(p) /\ DOMAIN slot2key'[p] = Slots(p)
        BY <1>7
      <4>2. IsFiniteSet(DOMAIN slot2key[p]) /\ s \in DOMAIN slot2key[p]
        BY <4>1, SlotsFinite
      <4> HIDE DEF MapsTyped
      <4>3. Cardinality(HeldBy(slot2key'[p], l))
              = Cardinality(HeldBy(slot2key[p], l))
                + (IF slot2key'[p][s][1] = l THEN 1 ELSE 0) - (IF slot2key[p][s][1] = l THEN 1 ELSE 0)
        BY <4>1, <4>2, <3>1, OneSlotMoves
      <4> QED
        BY <4>3, <3>2, <2>0, <2>2
    <3>4. occ'[p][l] = (IF old[1] = l THEN occ[p][l] - 1 ELSE occ[p][l]) + (IF k[1] = l THEN 1 ELSE 0)
      <4>1. Left(p, s)[l] = IF old[1] = l THEN occ[p][l] - 1 ELSE occ[p][l]
        BY DEF Left
      <4>2. Left(p, s)[l] \in Int
        BY <1>5
      <4> QED
        BY <1>8, <1>5, <1>0, <4>1, <4>2
    <3>5. occ[p][l] \in Int
      OBVIOUS
    <3> QED
      BY <3>3, <3>4, <3>5, <2>2
  <2> QED
    BY <2>1, <2>2
<1> QED
  BY <1>9, <1>10, <1>11

(* Emptying slot s of pool p. *)
LEMMA DropKeeps ==
    ASSUME MapsTyped, MapsAgree, OccExact,
           NEW p \in Pools, NEW s \in Slots(p),
           key2slot' = [key2slot EXCEPT ![p] = Dropped(p, s)],
           slot2key' = [slot2key EXCEPT ![p][s] = NoKey],
           occ' = [occ EXCEPT ![p] = Left(p, s)]
    PROVE  MapsTyped' /\ MapsAgree' /\ OccExact'
<1> DEFINE old == slot2key[p][s]
<1> USE DEF MapsTyped
<1>1. Dropped(p, s) \in [Keys -> Nat] /\ Left(p, s) \in [Layers -> Int]
  BY DEF Dropped, Left
<1>2. \A j \in Keys : key2slot'[p][j] = IF j = old THEN 0 ELSE key2slot[p][j]
  BY DEF Dropped
<1>3. \A u \in Slots(p) : slot2key'[p][u] = IF u = s THEN NoKey ELSE slot2key[p][u]
  OBVIOUS
<1>4. \A q \in Pools \ {p} : key2slot'[q] = key2slot[q] /\ slot2key'[q] = slot2key[q] /\ occ'[q] = occ[q]
  OBVIOUS
<1>5. MapsTyped'
  <2>1. key2slot' \in [Pools -> [Keys -> Nat]] /\ occ' \in [Pools -> [Layers -> Int]]
    BY <1>1
  <2>2. DOMAIN slot2key' = Pools
    OBVIOUS
  <2>3. \A q \in Pools : slot2key'[q] \in [Slots(q) -> Keys \cup {NoKey}]
    OBVIOUS
  <2> QED
    BY <2>1, <2>2, <2>3 DEF Slots
<1>6. MapsAgree'
  <2> SUFFICES ASSUME NEW q \in Pools
      PROVE  /\ \A j \in Keys : key2slot'[q][j] # 0 =>
                   key2slot'[q][j] \in Slots(q) /\ slot2key'[q][key2slot'[q][j]] = j
             /\ \A u \in Slots(q) : slot2key'[q][u] # NoKey => key2slot'[q][slot2key'[q][u]] = u
    BY DEF MapsAgree, Slots
  <2>1. CASE q # p
    BY <2>1, <1>4 DEF MapsAgree
  <2>2. CASE q = p
    BY <2>2, <1>2, <1>3 DEF MapsAgree
  <2> QED
    BY <2>1, <2>2
<1>7. OccExact'
  <2> SUFFICES ASSUME NEW q \in Pools, NEW l \in Layers
      PROVE  occ'[q][l] = Cardinality(HeldBy(slot2key'[q], l))
    BY DEF OccExact, Slots
  <2>0. occ[q][l] = Cardinality(HeldBy(slot2key[q], l))
    BY DEF OccExact
  <2>1. CASE q # p
    BY <2>0, <2>1, <1>4
  <2>2. CASE q = p
    <3>1. \A u \in DOMAIN slot2key[p] \ {s} : slot2key'[p][u] = slot2key[p][u]
      BY <1>3
    <3>2. slot2key'[p][s][1] # l
      BY <1>3, NoKeyApart, ExpertCacheAssumption DEF NoKey
    <3>3. Cardinality(HeldBy(slot2key'[p], l))
            = occ[p][l] + 0 - (IF old[1] = l THEN 1 ELSE 0)
      <4>1. DOMAIN slot2key[p] = Slots(p) /\ DOMAIN slot2key'[p] = Slots(p)
        OBVIOUS
      <4>2. IsFiniteSet(DOMAIN slot2key[p]) /\ s \in DOMAIN slot2key[p]
        BY <4>1, SlotsFinite
      <4> HIDE DEF MapsTyped
      <4>3. Cardinality(HeldBy(slot2key'[p], l))
              = Cardinality(HeldBy(slot2key[p], l))
                + (IF slot2key'[p][s][1] = l THEN 1 ELSE 0) - (IF slot2key[p][s][1] = l THEN 1 ELSE 0)
        BY <4>1, <4>2, <3>1, OneSlotMoves
      <4> QED
        BY <4>3, <3>2, <2>0, <2>2
    <3>4. occ'[p][l] = IF old[1] = l THEN occ[p][l] - 1 ELSE occ[p][l]
      BY DEF Left
    <3>5. occ[p][l] \in Int
      OBVIOUS
    <3> QED
      BY <3>3, <3>4, <3>5, <2>2
  <2> QED
    BY <2>1, <2>2
<1> QED
  BY <1>5, <1>6, <1>7

-----------------------------------------------------------------------------
Maps == MapsTyped /\ MapsAgree /\ OccExact

LEMMA MapsKept ==
    ASSUME Maps, UNCHANGED pools
    PROVE  Maps'
BY DEF Maps, MapsTyped, MapsAgree, OccExact, pools, Slots

LEMMA InitMaps == CInit => Maps
<1> SUFFICES ASSUME CInit PROVE Maps
  OBVIOUS
<1>1. MapsTyped
  BY DEF CInit, MapsTyped
<1>2. MapsAgree
  BY DEF CInit, MapsAgree
<1>3. OccExact
  <2> SUFFICES ASSUME NEW p \in Pools, NEW l \in Layers
               PROVE  occ[p][l] = Cardinality(HeldBy(slot2key[p], l))
    BY DEF OccExact
  <2>1. HeldBy(slot2key[p], l) = {}
    BY ExpertCacheAssumption DEF CInit, HeldBy, NoKey
  <2> QED
    BY <2>1, FS_EmptySet DEF CInit
<1> QED
  BY <1>1, <1>2, <1>3 DEF Maps

LEMMA InitCall == CInit => CallOK(call)
<1> SUFFICES ASSUME CInit PROVE CallOK(call)
  OBVIOUS
<1>1. CASE call = NoCall
  BY <1>1, NoCallTyped
<1>2. CASE \E order \in Rankings : call = NewCall("prefetch", order, {}, FALSE)
  <2>1. PICK order \in Rankings : call = NewCall("prefetch", order, {}, FALSE)
    BY <1>2
  <2>2. order \in Seq(Keys)
    BY ExpertCacheAssumption DEF Keys
  <2> QED
    BY <2>1, <2>2, NewCallTyped
<1> QED
  BY <1>1, <1>2 DEF CInit

(* Every step keeps the maps: it leaves them alone, claims a slot for an   *)
(* absent key or empties one.                                              *)
LEMMA StepMaps ==
    ASSUME CInd, CNext
    PROVE  Maps'
<1>0. Maps /\ CallOK(call)
  BY DEF CInd, Maps
<1>1. ASSUME NEW s \in Slots(WantPool), call.todo # <<>>, Here = 0, Claim(WantPool, s, Want)
      PROVE  Maps'
  <2>1. Want \in Keys /\ WantPool \in Pools
    BY <1>0, <1>1, WantTyped
  <2>2. key2slot[WantPool][Want] = 0
    BY <1>1 DEF Here
  <2> HIDE DEF Want, WantPool
  <2> QED
    BY <1>0, <1>1, <2>1, <2>2, ClaimKeeps DEF Maps
<1>2. CASE Miss
  BY <1>1, <1>2 DEF Miss
<1>3. CASE Install
  BY <1>1, <1>3 DEF Install, Installing, Passed
<1>4. CASE InstallFails
  <2>1. Want \in Keys /\ WantPool \in Pools
    BY <1>0, <1>4, WantTyped DEF InstallFails, Installing
  <2>2. PICK s \in Slots(WantPool) :
            /\ key2slot' = [key2slot EXCEPT ![WantPool] = Dropped(WantPool, s)]
            /\ slot2key' = [slot2key EXCEPT ![WantPool][s] = NoKey]
            /\ occ' = [occ EXCEPT ![WantPool] = Left(WantPool, s)]
    BY <1>4 DEF InstallFails
  <2> QED
    BY <1>0, <2>1, <2>2, DropKeeps DEF Maps
<1>5. CASE UNCHANGED pools
  BY <1>0, <1>5, MapsKept
<1>6. ASSUME NEW l \in Layers, EnsureToken(l) \/ EnsureSlice(l) PROVE UNCHANGED pools
  BY <1>6 DEF EnsureToken, EnsureSlice, Ensure
<1>7. ASSUME NEW l \in Layers, NEW e \in Experts,
             EnsureResident(l, e) \/ \E r \in Range(Roles) : Touch(r, l, e)
      PROVE  UNCHANGED pools
  BY <1>7 DEF EnsureResident, Touch
<1>8. ASSUME NEW order \in Rankings, Rebalance(order) PROVE UNCHANGED pools
  BY <1>8 DEF Rebalance
<1>9. Hit \/ Return \/ FetchFails \/ Skip \/ Done => UNCHANGED pools
  BY DEF Hit, Return, FetchFails, Skip, Done
<1> QED
  BY <1>2, <1>3, <1>4, <1>5, <1>6, <1>7, <1>8, <1>9 DEF CNext

(* Every step leaves a call on keys of this cache, or none. *)
LEMMA StepCall ==
    ASSUME CInd, CNext
    PROVE  CallOK(call')
<1>0. CallOK(call)
  BY DEF CInd
<1>1. ASSUME NEW l \in Layers, NEW n \in Nat, NEW ids \in Selections(n), NEW on, Ensure(l, ids, on)
      PROVE  CallOK(call')
  <2>1. ids \in [1..n -> Experts]
    BY DEF Selections
  <2>2. [i \in DOMAIN ids |-> <<l, ids[i]>>] \in Seq(Keys)
    BY <2>1 DEF Keys
  <2> QED
    BY <1>1, <2>2, NewCallTyped DEF Ensure
<1>2. ASSUME NEW l \in Layers, EnsureToken(l) \/ EnsureSlice(l) PROVE CallOK(call')
  <2>1. CASE EnsureToken(l)
    BY <2>1, <1>1, ExpertCacheAssumption DEF EnsureToken
  <2>2. CASE EnsureSlice(l)
    <3>1. PICK on \in BOOLEAN, n \in NUsed..Cardinality(Experts) :
              \E ids \in Selections(n) : Ensure(l, ids, on)
      BY <2>2 DEF EnsureSlice
    <3>2. n \in Nat
      BY <3>1, ExpertCacheAssumption
    <3> QED
      BY <3>1, <3>2, <1>1
  <2> QED
    BY <1>2, <2>1, <2>2
<1>3. ASSUME NEW l \in Layers, NEW e \in Experts,
             EnsureResident(l, e) \/ \E r \in Range(Roles) : Touch(r, l, e)
      PROVE  CallOK(call')
  <2>1. <<<<l, e>>>> \in Seq(Keys)
    BY DEF Keys
  <2>2. CASE EnsureResident(l, e)
    BY <2>1, <2>2, NewCallTyped DEF EnsureResident
  <2>3. CASE \E r \in Range(Roles) : Touch(r, l, e)
    BY <1>0, <2>3 DEF Touch
  <2> QED
    BY <1>3, <2>2, <2>3
<1>4. ASSUME NEW order \in Rankings, Rebalance(order) PROVE CallOK(call')
  <2>1. order \in Seq(Keys)
    BY ExpertCacheAssumption DEF Keys
  <2>2. \E goal : call' = NewCall("rebalance", order, goal, TRUE)
    BY <1>4 DEF Rebalance
  <2> QED
    BY <2>1, <2>2, NewCallTyped
<1>5. CASE Hit
  <2>1. call' = Advanced(Found(call, Out(Here))) /\ call.todo # <<>>
    BY <1>5 DEF Hit
  <2> QED
    BY <1>0, <2>1, FoundTyped, AdvanceTyped
<1>6. CASE Miss
  <2>1. PICK s : call' = Advanced(Found(IF Ssd THEN Queued(call, Out(s)) ELSE call, Out(s)))
    BY <1>6 DEF Miss
  <2> DEFINE c == IF Ssd THEN Queued(call, Out(s)) ELSE call
  <2>2. CallOK(c) /\ c.todo = call.todo
    BY <1>0, QueuedTyped
  <2>3. call' = Advanced(Found(c, Out(s))) /\ call.todo # <<>>
    BY <1>6, <2>1 DEF Miss
  <2> HIDE DEF c
  <2> QED
    BY <2>2, <2>3, FoundTyped, AdvanceTyped
<1>7. CASE Skip \/ Install
  <2>1. call' = Advanced(call) /\ call.todo # <<>>
    BY <1>7 DEF Skip, Install, Installing
  <2> QED
    BY <1>0, <2>1, AdvanceTyped
<1>8. CASE Return \/ FetchFails \/ InstallFails \/ Done
  BY <1>8, NoCallTyped DEF Return, FetchFails, InstallFails, Done
<1> QED
  BY <1>2, <1>3, <1>4, <1>5, <1>6, <1>7, <1>8 DEF CNext

-----------------------------------------------------------------------------
LEMMA Inductive == CSpec => []CInd
<1>1. CInit => CInd
  BY InitMaps, InitCall DEF CInd, Maps
<1>2. CInd /\ [CNext]_cvars => CInd'
  <2> SUFFICES ASSUME CInd, [CNext]_cvars PROVE CInd'
    OBVIOUS
  <2>1. CASE CNext
    BY <2>1, StepMaps, StepCall DEF CInd, Maps
  <2>2. CASE UNCHANGED cvars
    <3>1. UNCHANGED pools /\ call' = call
      BY <2>2 DEF cvars, pools
    <3> QED
      BY <3>1, MapsKept DEF CInd, Maps
  <2> QED
    BY <2>1, <2>2
<1> QED
  BY <1>1, <1>2, PTL DEF CSpec

(* The two residency maps stay inverse to each other through every claim,  *)
(* eviction, failed read and interrupted call of ExpertCache.              *)
THEOREM MapsStayInverse == CSpec => []MapsAgree
BY Inductive, PTL DEF CInd

(* occ, which the quotas are compared with, counts the slots of each layer *)
(* exactly, also after a fetch_slab that threw.                            *)
THEOREM OccStaysExact == CSpec => []OccExact
BY Inductive, PTL DEF CInd


-----------------------------------------------------------------------------
(* A slab that ensure() has put off is for the expert its slot is listed   *)
(* for; only ensure() on the SSD tier puts any off.                        *)
JobsMatch ==
    /\ ~Ssd \/ call.op # "ensure" => call.jobs = {}
    /\ \A j \in call.jobs :
         j.pool \in Pools /\ j.slot \in Slots(j.pool) /\ slot2key[j.pool][j.slot] = j.key

ContentTyped == DOMAIN content = Pools /\ \A p \in Pools : DOMAIN content[p] = Slots(p)

(* The invariant: what a reserved slot will hold, with what the others do. *)
Weights == ContentTyped /\ JobsMatch /\ HoldsWeights

(* The steps that only go on with a call leave what it has put off. *)
LEMMA AdvanceJobs ==
    ASSUME NEW c, CallOK(c)
    PROVE  /\ Advanced(c).jobs = c.jobs /\ Advanced(c).op = c.op
           /\ \A x : Found(c, x).jobs = c.jobs /\ Found(c, x).op = c.op
           /\ \A x : /\ Queued(c, x).jobs =
                         {j \in c.jobs : j.pool # x.pool \/ j.slot # x.slot} \cup {x}
                   /\ Queued(c, x).op = c.op
<1>0. c = [op |-> c.op, todo |-> c.todo, roles |-> c.roles, jobs |-> c.jobs,
           out |-> c.out, goal |-> c.goal, saved |-> c.saved]
  BY DEF CallOK
<1>1. Advanced(c).jobs = c.jobs /\ Advanced(c).op = c.op
  BY <1>0 DEF Advanced
<1>2. \A x : Found(c, x).jobs = c.jobs /\ Found(c, x).op = c.op
  BY <1>0 DEF Found
<1>3. \A x : /\ Queued(c, x).jobs =
                  {j \in c.jobs : j.pool # x.pool \/ j.slot # x.slot} \cup {x}
             /\ Queued(c, x).op = c.op
  BY <1>0 DEF Queued
<1> QED
  BY <1>1, <1>2, <1>3

(* Steps that move neither experts nor weights. *)
LEMMA WeightsKept ==
    ASSUME Weights, slot2key' = slot2key, content' = content,
           call'.jobs = call.jobs, call'.op = call.op \/ call.jobs = {}
    PROVE  Weights'
<1>1. ContentTyped'
  BY DEF Weights, ContentTyped, Slots
<1>2. JobsMatch'
  BY DEF Weights, JobsMatch, Slots
<1>3. HoldsWeights'
  BY DEF Weights, HoldsWeights, Reserved, Slots
<1> QED
  BY <1>1, <1>2, <1>3 DEF Weights

(* An expert takes slot s of pool p and its weights are copied there. *)
LEMMA WeightsCopied ==
    ASSUME MapsTyped, Weights, NEW p \in Pools, NEW s \in Slots(p), NEW k,
           slot2key' = [slot2key EXCEPT ![p][s] = k],
           content' = Copied(p, s, k),
           call.jobs = {}, call'.jobs = {}
    PROVE  Weights'
<1>1. \A q \in Pools : \A u \in Slots(q) :
          /\ slot2key'[q][u] = IF q = p /\ u = s THEN k ELSE slot2key[q][u]
          /\ content'[q][u] = IF q = p /\ u = s THEN k ELSE content[q][u]
  BY DEF Copied, MapsTyped, Weights, ContentTyped
<1>2. ContentTyped'
  BY DEF Weights, ContentTyped, Copied, Slots
<1>3. JobsMatch'
  BY DEF JobsMatch
<1>4. HoldsWeights'
  BY <1>1 DEF Weights, HoldsWeights, Reserved, Slots
<1> QED
  BY <1>2, <1>3, <1>4 DEF Weights

(* On the SSD tier the slot is reserved until its slab is read. *)
LEMMA WeightsReserved ==
    ASSUME MapsTyped, Weights, NEW p \in Pools, NEW s \in Slots(p), NEW k, NEW x,
           x.pool = p, x.slot = s, x.key = k,
           slot2key' = [slot2key EXCEPT ![p][s] = k],
           content' = content, Ssd, call'.op = "ensure",
           call'.jobs = {j \in call.jobs : j.pool # x.pool \/ j.slot # x.slot} \cup {x}
    PROVE  Weights'
<1>1. \A q \in Pools : \A u \in Slots(q) :
          slot2key'[q][u] = IF q = p /\ u = s THEN k ELSE slot2key[q][u]
  BY DEF MapsTyped
<1>2. ContentTyped'
  BY DEF Weights, ContentTyped, Slots
<1>3. JobsMatch'
  <2> SUFFICES ASSUME NEW j \in call'.jobs
      PROVE  j.pool \in Pools /\ j.slot \in Slots(j.pool) /\ slot2key'[j.pool][j.slot] = j.key
    BY DEF JobsMatch, Slots
  <2>1. CASE j = x
    BY <2>1, <1>1
  <2>2. CASE j \in call.jobs /\ (j.pool # x.pool \/ j.slot # x.slot)
    BY <2>2, <1>1 DEF Weights, JobsMatch
  <2> QED
    BY <2>1, <2>2
<1>4. HoldsWeights'
  <2> SUFFICES ASSUME NEW q \in Pools, NEW u \in Slots(q), slot2key'[q][u] # NoKey,
                      ~\E j \in call'.jobs : j.pool = q /\ j.slot = u
               PROVE  content'[q][u] = slot2key'[q][u]
    BY DEF HoldsWeights, Reserved, Slots
  <2>1. ~(q = p /\ u = s)
    OBVIOUS
  <2>2. ~\E j \in call.jobs : j.pool = q /\ j.slot = u
    BY <2>1
  <2> QED
    BY <2>1, <2>2, <1>1 DEF Weights, HoldsWeights, Reserved
<1> QED
  BY <1>2, <1>3, <1>4 DEF Weights

(* The slabs that were put off are read. *)
LEMMA WeightsLoaded ==
    ASSUME Weights, slot2key' = slot2key, content' = Loaded(call.jobs), call'.jobs = {}
    PROVE  Weights'
<1>1. ContentTyped'
  BY DEF ContentTyped, Loaded, Slots
<1>2. JobsMatch'
  BY DEF JobsMatch
<1>3. HoldsWeights'
  <2> SUFFICES ASSUME NEW q \in Pools, NEW u \in Slots(q), slot2key[q][u] # NoKey
               PROVE  content'[q][u] = slot2key[q][u]
    BY DEF HoldsWeights, Slots
  <2> DEFINE of(j) == j.pool = q /\ j.slot = u
  <2>1. CASE \E j \in call.jobs : of(j)
    <3>1. PICK j \in call.jobs : of(j) /\ j = CHOOSE i \in call.jobs : of(i)
      BY <2>1, Zenon
    <3>2. content'[q][u] = j.key
      BY <3>1 DEF Loaded
    <3> QED
      BY <3>1, <3>2 DEF Weights, JobsMatch
  <2>2. CASE ~\E j \in call.jobs : of(j)
    BY <2>2 DEF Loaded, Weights, HoldsWeights, Reserved
  <2> QED
    BY <2>1, <2>2
<1> QED
  BY <1>1, <1>2, <1>3 DEF Weights

(* Every step but a failed batch read. *)
Calm ==
    \/ \E l \in Layers : EnsureToken(l) \/ EnsureSlice(l)
    \/ Hit \/ Miss \/ Return
    \/ \E l \in Layers, e \in Experts : EnsureResident(l, e) \/ \E r \in Range(Roles) : Touch(r, l, e)
    \/ Skip \/ Install \/ InstallFails \/ Done
    \/ \E order \in Rankings : Rebalance(order)

LEMMA CalmSteps == (Calm => CNext) /\ (CNext /\ ~FetchFails => Calm)
BY DEF Calm, CNext

(* It keeps the weights where the maps say they are. *)
LEMMA StepWeights ==
    ASSUME CInd, Weights, Calm
    PROVE  Weights'
<1>0. MapsTyped /\ CallOK(call)
  BY DEF CInd
<1>1. CASE Miss
  <2>1. Want \in Keys /\ WantPool \in Pools /\ call.op = "ensure"
    BY <1>0, <1>1, WantTyped DEF Miss
  <2>2. PICK s \in Slots(WantPool) :
            /\ slot2key' = [slot2key EXCEPT ![WantPool][s] = Want]
            /\ content' = IF Ssd THEN content ELSE Copied(WantPool, s, Want)
            /\ call' = Advanced(Found(IF Ssd THEN Queued(call, Out(s)) ELSE call, Out(s)))
    BY <1>1 DEF Miss, Claim
  <2> DEFINE c == IF Ssd THEN Queued(call, Out(s)) ELSE call
             x == Out(s)
  <2>3. CallOK(c) /\ CallOK(Found(c, x))
    BY <1>0, QueuedTyped, FoundTyped
  <2>4. call'.jobs = c.jobs /\ call'.op = c.op
    <3> HIDE DEF c, x
    <3>1. call' = Advanced(Found(c, x))
      BY <2>2 DEF c, x
    <3> QED
      BY ZenonT(60), <3>1, <2>3, AdvanceJobs
  <2>5. CASE Ssd
    <3>1. /\ call'.jobs = {j \in call.jobs : j.pool # x.pool \/ j.slot # x.slot} \cup {x}
          /\ call'.op = "ensure"
      BY <2>4, <2>5, <2>1, <1>0, AdvanceJobs
    <3>2. x.pool = WantPool /\ x.slot = s /\ x.key = Want
      BY DEF Out
    <3>3. content' = content
      BY <2>2, <2>5
    <3> HIDE DEF x, c, Want, WantPool
    <3> QED
      BY <3>1, <3>2, <3>3, <2>1, <2>2, <2>5, <1>0, WeightsReserved
  <2>6. CASE ~Ssd
    <3>1. call.jobs = {} /\ call'.jobs = {}
      BY <2>4, <2>6 DEF Weights, JobsMatch
    <3>2. content' = Copied(WantPool, s, Want)
      BY <2>2, <2>6
    <3> HIDE DEF x, c, Want, WantPool
    <3> QED
      BY <3>1, <3>2, <2>1, <2>2, <1>0, WeightsCopied
  <2> QED
    BY <2>5, <2>6
<1>2. CASE Install \/ InstallFails
  <2>1. Want \in Keys /\ WantPool \in Pools /\ call.op # "ensure"
    BY <1>0, <1>2, WantTyped DEF Install, InstallFails, Installing, Fetching
  <2>2. PICK s \in Slots(WantPool), k \in {Want, NoKey} :
            /\ slot2key' = [slot2key EXCEPT ![WantPool][s] = k]
            /\ content' = Copied(WantPool, s, k)
    BY <1>2 DEF Install, InstallFails, Claim
  <2>3. call.jobs = {}
    BY <2>1 DEF Weights, JobsMatch
  <2>4. call'.jobs = {}
    <3>1. CASE Install
      BY <3>1, <2>3, <1>0, AdvanceJobs DEF Install
    <3>2. CASE InstallFails
      BY <3>2 DEF InstallFails, NoCall, NewCall
    <3> QED
      BY <3>1, <3>2, <1>2
  <2> HIDE DEF Want, WantPool
  <2> QED
    BY <2>1, <2>2, <2>3, <2>4, <1>0, WeightsCopied
<1>3. CASE Return
  BY <1>3, WeightsLoaded DEF Return, pools, NoCall, NewCall
<1>4. CASE Hit \/ Skip
  <2>1. slot2key' = slot2key /\ content' = content
    BY <1>4 DEF Hit, Skip, pools
  <2>2. call'.jobs = call.jobs /\ call'.op = call.op
    <3>1. CASE Hit
      <4>1. call' = Advanced(Found(call, Out(Here))) /\ CallOK(Found(call, Out(Here)))
        BY <3>1, <1>0, FoundTyped DEF Hit
      <4> QED
        BY ZenonT(60), <4>1, <1>0, AdvanceJobs
    <3>2. CASE Skip
      BY <3>2, <1>0, AdvanceJobs DEF Skip
    <3> QED
      BY <3>1, <3>2, <1>4
  <2> QED
    BY <2>1, <2>2, WeightsKept
<1>5. CASE Done
  <2>1. call.jobs = {}
    BY <1>5 DEF Done, Fetching, Weights, JobsMatch
  <2>2. slot2key' = slot2key /\ content' = content /\ call'.jobs = call.jobs
    BY <1>5, <2>1 DEF Done, pools, NoCall, NewCall
  <2> QED
    BY <2>1, <2>2, WeightsKept
<1>6. ASSUME Idle, slot2key' = slot2key, content' = content,
             call'.jobs = {} \/ call' = call
      PROVE  Weights'
  <2>1. call.jobs = {} /\ call'.jobs = call.jobs
    BY <1>6 DEF Idle, Weights, JobsMatch
  <2> QED
    BY <1>6, <2>1, WeightsKept
<1>7. ASSUME NEW l \in Layers, EnsureToken(l) \/ EnsureSlice(l) PROVE Weights'
  <2>1. PICK ids, on : Ensure(l, ids, on)
    BY <1>7 DEF EnsureToken, EnsureSlice
  <2> QED
    BY <1>6, <2>1 DEF Ensure, NewCall, pools
<1>8. ASSUME NEW l \in Layers, NEW e \in Experts,
             EnsureResident(l, e) \/ \E r \in Range(Roles) : Touch(r, l, e)
      PROVE  Weights'
  BY <1>6, <1>8 DEF EnsureResident, Touch, NewCall, pools
<1>9. ASSUME NEW order \in Rankings, Rebalance(order) PROVE Weights'
  BY <1>6, <1>9 DEF Rebalance, NewCall, pools
<1> QED
  BY <1>1, <1>2, <1>3, <1>4, <1>5, <1>7, <1>8, <1>9 DEF Calm

LEMMA InitWeights == CInit => Weights
<1> SUFFICES ASSUME CInit PROVE Weights
  OBVIOUS
<1>1. call.jobs = {}
  BY DEF CInit, NoCall, NewCall
<1>2. ContentTyped
  BY DEF CInit, ContentTyped
<1>3. JobsMatch
  BY <1>1 DEF JobsMatch
<1>4. HoldsWeights
  BY DEF CInit, HoldsWeights
<1> QED
  BY <1>2, <1>3, <1>4 DEF Weights

(* On both tiers: as long as no batch of reads fails half-way, a resident  *)
(* expert's slot holds that expert's weights, or ensure() is about to read *)
(* them.  A single read that throws in install() does no harm.             *)
THEOREM WeightsUnlessBatchFails == CSpec /\ [][~FetchFails]_cvars => []HoldsWeights
<1>1. CInd /\ Weights /\ [CNext]_cvars /\ [~FetchFails]_cvars => Weights'
  <2> SUFFICES ASSUME CInd, Weights, [CNext]_cvars, [~FetchFails]_cvars PROVE Weights'
    OBVIOUS
  <2>1. CASE UNCHANGED cvars
    <3>1. slot2key' = slot2key /\ content' = content /\ call' = call
      BY <2>1 DEF cvars
    <3> QED
      BY <3>1, WeightsKept
  <2>2. CASE ~UNCHANGED cvars
    BY <2>2, StepWeights, CalmSteps
  <2> QED
    BY <2>1, <2>2
<1>2. Weights => HoldsWeights
  BY DEF Weights
<1> QED
  BY <1>1, <1>2, InitWeights, Inductive, PTL DEF CSpec

(* On the RAM tier nothing can fail: a resident expert's slot always holds *)
(* that expert's weights.                                                  *)
THEOREM RamHoldsWeights == ASSUME ~Ssd PROVE CSpec => []HoldsWeights
<1>1. [CNext]_cvars => [~FetchFails]_cvars
  BY DEF FetchFails
<1> QED
  BY <1>1, WeightsUnlessBatchFails, PTL DEF CSpec

-----------------------------------------------------------------------------
(* Quotas.  Adding up over the layers, and what pool p gives to each.      *)
Total(f) == (CHOOSE g \in [SUBSET Layers -> Int] : Sums(f, Layers, g))[Layers]

Serves(p, l) == \E r \in Range(Roles) : PoolOf[r][l] = p

Share(q, p) == [l \in Layers |-> IF Serves(p, l) THEN q[l] ELSE 0]

LEMMA LayersFinite == IsFiniteSet(Layers) /\ Layers \in SUBSET Layers /\ Layers \subseteq Nat
BY ExpertCacheAssumption

LEMMA TotalIs ==
    ASSUME NEW f \in [Layers -> Int], NEW a, Sums(f, Layers, a)
    PROVE  Total(f) \in Int /\ Total(f) = a[Layers]
<1> DEFINE g == CHOOSE g \in [SUBSET Layers -> Int] : Sums(f, Layers, g)
<1>1. g \in [SUBSET Layers -> Int] /\ Sums(f, Layers, g)
  BY LayersFinite, SumsExist
<1>2. Total(f) = g[Layers]
  BY DEF Total
<1> HIDE DEF g
<1>3. \A x \in Layers : f[x] = IF x = 0 THEN f[x] + 0 ELSE f[x]
  <2>1. \A x \in Layers : f[x] \in Int
    OBVIOUS
  <2> QED
    BY <2>1
<1>4. SumRaised(Layers, g, a, 0, 0)
  <2>1. RaisedAt(Layers, f, f, 0, 0)
    BY <1>3 DEF RaisedAt
  <2> DEFINE z == 0
  <2>2. z \in Int /\ RaisedAt(Layers, f, f, z, z)
    BY <2>1
  <2> HIDE DEF z
  <2>3. SumRaised(Layers, g, a, z, z)
    BY <1>1, <2>2, LayersFinite, SumsDiffer
  <2> QED
    BY <2>3 DEF z
<1>5. g[Layers] \in Int /\ a[Layers] = g[Layers]
  BY <1>4, LayersFinite DEF SumRaised
<1> QED
  BY <1>2, <1>5

LEMMA TotalTyped ==
    ASSUME NEW f \in [Layers -> Int]
    PROVE  Total(f) \in Int
<1>1. PICK a : Sums(f, Layers, a)
  BY LayersFinite, SumsExist
<1> QED
  BY <1>1, TotalIs

LEMMA TotalBelow ==
    ASSUME NEW f \in [Layers -> Int], \A l \in Layers : f[l] <= 0
    PROVE  Total(f) <= 0
<1>1. PICK a : Sums(f, Layers, a)
  BY LayersFinite, SumsExist
<1>2. a[Layers] <= 0
  BY <1>1, LayersFinite, SumsBelow
<1> QED
  BY <1>1, <1>2, TotalIs

LEMMA TotalPlus ==
    ASSUME NEW f \in [Layers -> Int], NEW h \in [Layers -> Int], NEW l \in Layers, NEW d \in Int,
           RaisedAt(Layers, f, h, l, d)
    PROVE  Total(h) = Total(f) + d
<1>1. PICK a : Sums(f, Layers, a)
  BY LayersFinite, SumsExist
<1>2. PICK b : Sums(h, Layers, b)
  BY LayersFinite, SumsExist
<1>3. SumRaised(Layers, a, b, l, d)
  BY <1>1, <1>2, LayersFinite, SumsDiffer
<1>4. b[Layers] = a[Layers] + d
  BY <1>3, LayersFinite DEF SumRaised
<1>5. Total(f) = a[Layers] /\ Total(h) = b[Layers]
  BY <1>1, <1>2, TotalIs
<1> QED
  BY <1>4, <1>5

(* The sum in QuotaFits is this total. *)
LEMMA HeldTotal ==
    ASSUME NEW q \in [Layers -> Int], NEW p
    PROVE  LET held(l) == IF \E r \in Range(Roles) : PoolOf[r][l] = p THEN q[l] ELSE 0
           IN  MapThenSumSet(held, Layers) = Total(Share(q, p))
<1> DEFINE held(l) == IF \E r \in Range(Roles) : PoolOf[r][l] = p THEN q[l] ELSE 0
           f == Share(q, p)
           el(s) == CHOOSE x \in s : TRUE
           it == CHOOSE iter : iter = [s \in SUBSET Layers |->
                     IF s = {} THEN 0 ELSE held(el(s)) + iter[s \ {el(s)}]]
<1>1. f \in [Layers -> Int]
  BY DEF Share
<1>2. \A x \in Layers : f[x] = held(x)
  BY DEF Share, Serves
<1>3. MapThenSumSet(held, Layers) = it[Layers]
  BY DEF MapThenSumSet, MapThenFoldSet
<1>4. \A s \in SUBSET Layers : s # {} => el(s) \in Layers
  BY ChosenIn
<1> HIDE DEF f, held
<1>5. PICK g \in [SUBSET Layers -> Int] : Sums(f, Layers, g)
  BY <1>1, LayersFinite, SumsExist
<1>6. \A s \in SUBSET Layers : g[s] = IF s = {} THEN 0 ELSE held(el(s)) + g[s \ {el(s)}]
  BY <1>2, <1>4, <1>5 DEF Sums
<1> HIDE DEF el
<1>7. g = [s \in SUBSET Layers |-> IF s = {} THEN 0 ELSE held(el(s)) + g[s \ {el(s)}]]
  BY <1>6
<1>8. it = [s \in SUBSET Layers |-> IF s = {} THEN 0 ELSE held(el(s)) + it[s \ {el(s)}]]
  BY <1>7
<1> HIDE DEF it
<1>9. \A s \in SUBSET Layers : it[s] = IF s = {} THEN 0 ELSE held(el(s)) + it[s \ {el(s)}]
  BY <1>8
<1>10. Sums(f, Layers, it)
  <2>1. \A s \in SUBSET Layers : it[s] = IF s = {} THEN 0 ELSE f[el(s)] + it[s \ {el(s)}]
    BY <1>2, <1>4, <1>9
  <2> QED
    BY <2>1 DEF Sums, el
<1>11. it[Layers] = Total(f)
  BY <1>1, <1>10, TotalIs
<1> QED
  BY <1>3, <1>11 DEF held, f

(* A division of the pools among the layers: what the layers were given    *)
(* and what is left never exceed a pool.                                   *)
Divisions ==
    {q \in [quota : [Layers -> Nat], rem : [Pools -> Nat] \cup {NSlots}, seen : [Layers -> Nat]] :
        \A p \in Pools :
            /\ Total(Share(q.quota, p)) + q.rem[p] <= NSlots[p]
            /\ \A l \in Layers : Serves(p, l) => q.quota[l] + q.rem[p] <= NSlots[p]}

LEMMA DivisionTyped ==
    ASSUME NEW q \in Divisions
    PROVE  /\ q = [quota |-> q.quota, rem |-> q.rem, seen |-> q.seen]
           /\ q.quota \in [Layers -> Nat] /\ q.seen \in [Layers -> Nat]
           /\ \A p \in Pools : q.rem[p] \in Nat /\ NSlots[p] \in Nat
           /\ \A p \in Pools : Share(q.quota, p) \in [Layers -> Int] /\ Total(Share(q.quota, p)) \in Int
           /\ \A p \in Pools : /\ Total(Share(q.quota, p)) + q.rem[p] <= NSlots[p]
                               /\ \A l \in Layers : Serves(p, l) => q.quota[l] + q.rem[p] <= NSlots[p]
<1>1. /\ q = [quota |-> q.quota, rem |-> q.rem, seen |-> q.seen]
      /\ q.quota \in [Layers -> Nat] /\ q.seen \in [Layers -> Nat]
      /\ q.rem \in [Pools -> Nat] \cup {NSlots}
      /\ \A p \in Pools : /\ Total(Share(q.quota, p)) + q.rem[p] <= NSlots[p]
                          /\ \A l \in Layers : Serves(p, l) => q.quota[l] + q.rem[p] <= NSlots[p]
  BY DEF Divisions
<1>2. \A p \in Pools : q.rem[p] \in Nat /\ NSlots[p] \in Nat
  BY <1>1, SlotsFinite
<1>3. \A p \in Pools : Share(q.quota, p) \in [Layers -> Int]
  BY <1>1 DEF Share
<1>4. \A p \in Pools : Total(Share(q.quota, p)) \in Int
  BY <1>3, TotalTyped
<1> QED
  BY <1>1, <1>2, <1>3, <1>4

LEMMA RolesThere == Range(Roles) # {} /\ \A r \in Range(Roles), l \in Layers : PoolOf[r][l] \in Pools
<1>1. Roles \in Seq(Range(Roles)) /\ Roles # <<>> /\ PoolOf \in [Range(Roles) -> [Layers -> Pools]]
  BY ExpertCacheAssumption
<1>2. Head(Roles) \in Range(Roles)
  BY <1>1
<1> QED
  BY <1>1, <1>2

LEMMA RoomIs ==
    ASSUME NEW q \in Divisions, NEW l \in Layers
    PROVE  /\ Room(q, l) \in Nat
           /\ \A p \in Pools : Serves(p, l) => Room(q, l) <= q.rem[p]
           /\ \E p \in Pools : Serves(p, l) /\ Room(q, l) = q.rem[p]
<1> DEFINE T == {q.rem[PoolOf[r][l]] : r \in Range(Roles)}
<1>1. T \subseteq Nat /\ T # {}
  BY DivisionTyped, RolesThere
<1>2. Room(q, l) = Min(T)
  BY DEF Room
<1>3. \A p \in Pools : Serves(p, l) => q.rem[p] \in T
  BY DEF Serves
<1>4. \A t \in T : \E p \in Pools : Serves(p, l) /\ t = q.rem[p]
  BY RolesThere DEF Serves
<1> HIDE DEF T
<1>5. Min(T) \in T /\ \A y \in T : Min(T) <= y
  BY <1>1, MinIs
<1> QED
  BY <1>1, <1>2, <1>3, <1>4, <1>5

(* t is q after layer l took n slots. *)
Took(q, t, l, n) ==
    /\ t \in Divisions
    /\ \A m \in Layers : t.quota[m] = IF m = l THEN q.quota[m] + n ELSE q.quota[m]
    /\ t.seen = q.seen
    /\ \A p \in Pools : t.rem[p] = IF Serves(p, l) THEN q.rem[p] - n ELSE q.rem[p]

LEMMA TakeIn ==
    ASSUME NEW q \in Divisions, NEW l \in Layers, NEW n \in Nat, n <= Room(q, l)
    PROVE  Took(q, Take(q, l, n), l, n)
<1> DEFINE qu == [q.quota EXCEPT ![l] = @ + n]
           re == [p \in Pools |-> IF Serves(p, l) THEN q.rem[p] - n ELSE q.rem[p]]
           t  == Take(q, l, n)
<1>0. /\ q = [quota |-> q.quota, rem |-> q.rem, seen |-> q.seen]
      /\ q.quota \in [Layers -> Nat] /\ q.seen \in [Layers -> Nat]
      /\ \A p \in Pools : q.rem[p] \in Nat /\ NSlots[p] \in Nat
  BY DivisionTyped
<1>1. t = [quota |-> qu, rem |-> re, seen |-> q.seen]
  <2> DEFINE a == q.quota
             b == q.rem
             c == q.seen
             w == [q.quota EXCEPT ![l] = @ + n]
             z == [quota |-> a, rem |-> b, seen |-> c]
  <2>1. q = z
    BY <1>0
  <2>2. Take(q, l, n) = [[z EXCEPT !.quota = w] EXCEPT !.rem = re]
    BY <2>1, Zenon DEF Take, Serves
  <2> HIDE DEF a, b, c, w, re
  <2> DEFINE y == [quota |-> w, rem |-> b, seen |-> c]
  <2>3. [z EXCEPT !.quota = w] = y
    OBVIOUS
  <2>4. [y EXCEPT !.rem = re] = [quota |-> w, rem |-> re, seen |-> c]
    OBVIOUS
  <2> HIDE DEF z, y
  <2>5. Take(q, l, n) = [quota |-> w, rem |-> re, seen |-> c]
    BY <2>2, <2>3, <2>4, Zenon
  <2> QED
    BY <2>5 DEF w, c
<1>2. qu \in [Layers -> Nat] /\ \A m \in Layers : qu[m] = IF m = l THEN q.quota[m] + n ELSE q.quota[m]
  BY <1>0
<1>3. \A p \in Pools : re[p] = IF Serves(p, l) THEN q.rem[p] - n ELSE q.rem[p]
  OBVIOUS
<1>4. \A p \in Pools : re[p] \in Nat
  <2> SUFFICES ASSUME NEW p \in Pools, Serves(p, l) PROVE q.rem[p] - n \in Nat
    BY <1>0, <1>3
  <2>1. n <= q.rem[p] /\ Room(q, l) \in Nat
    <3>1. Room(q, l) \in Nat /\ Room(q, l) <= q.rem[p]
      BY RoomIs
    <3> QED
      BY <3>1, <1>0
  <2> QED
    BY <2>1, <1>0
<1>5. re \in [Pools -> Nat]
  BY <1>4
<1> HIDE DEF qu, re
<1>6. ASSUME NEW p \in Pools
      PROVE  /\ Total(Share(qu, p)) + re[p] <= NSlots[p]
             /\ \A m \in Layers : Serves(p, m) => qu[m] + re[p] <= NSlots[p]
  <2>1. /\ Total(Share(q.quota, p)) + q.rem[p] <= NSlots[p]
        /\ \A m \in Layers : Serves(p, m) => q.quota[m] + q.rem[p] <= NSlots[p]
        /\ Share(q.quota, p) \in [Layers -> Int] /\ Total(Share(q.quota, p)) \in Int
    BY DivisionTyped
  <2>2. Share(qu, p) \in [Layers -> Int]
    BY <1>2 DEF Share
  <2> DEFINE d == IF Serves(p, l) THEN n ELSE 0
             f == Share(q.quota, p)
             h == Share(qu, p)
  <2>3. d \in Int
    OBVIOUS
  <2>4. RaisedAt(Layers, f, h, l, d)
    <3> SUFFICES ASSUME NEW x \in Layers PROVE h[x] = IF x = l THEN f[x] + d ELSE f[x]
      BY DEF RaisedAt
    <3>1. h[x] = (IF Serves(p, x) THEN qu[x] ELSE 0) /\ f[x] = (IF Serves(p, x) THEN q.quota[x] ELSE 0)
      BY DEF Share
    <3>2. q.quota[x] \in Nat /\ q.quota[l] \in Nat
      BY <1>0
    <3> QED
      BY <3>1, <3>2, <1>2
  <2>5. Total(h) = Total(f) + d
    <3> HIDE DEF f, h, d
    <3> QED
      BY <2>1, <2>2, <2>3, <2>4, TotalPlus DEF f, h
  <2>6. re[p] = q.rem[p] - d
    BY <1>0, <1>3
  <2>7. Total(h) + re[p] <= NSlots[p]
    <3> HIDE DEF f, h, d
    <3>1. Total(f) \in Int /\ Total(f) + q.rem[p] <= NSlots[p]
      BY <2>1 DEF f
    <3> QED
      BY <3>1, <1>0, <2>3, <2>5, <2>6
  <2>8. ASSUME NEW m \in Layers, Serves(p, m) PROVE qu[m] + re[p] <= NSlots[p]
    <3>1. q.quota[m] + q.rem[p] <= NSlots[p] /\ q.quota[m] \in Nat
      BY <2>1, <2>8, <1>0
    <3>2. qu[m] = IF m = l THEN q.quota[m] + n ELSE q.quota[m]
      BY <1>2
    <3>3. re[p] = IF Serves(p, l) THEN q.rem[p] - n ELSE q.rem[p]
      BY <1>3
    <3>4. q.rem[p] \in Nat /\ NSlots[p] \in Nat
      BY <1>0
    <3> QED
      BY <2>8, <3>1, <3>2, <3>3, <3>4
  <2> QED
    BY <2>7, <2>8
<1>7. t \in Divisions
  BY <1>0, <1>1, <1>2, <1>5, <1>6 DEF Divisions
<1> HIDE DEF t
<1>8. t.quota = qu /\ t.rem = re /\ t.seen = q.seen
  BY <1>1
<1> QED
  BY <1>2, <1>3, <1>7, <1>8 DEF Took, t

(* The layers in order: a sequence that names each once. *)
LEMMA LayerSeqIs ==
    /\ LayerSeq \in Seq(Layers) /\ Len(LayerSeq) = Cardinality(Layers)
    /\ DOMAIN LayerSeq = 1..Len(LayerSeq)
    /\ \A i, j \in DOMAIN LayerSeq : LayerSeq[i] = LayerSeq[j] => i = j
    /\ \A l \in Layers : \E i \in DOMAIN LayerSeq : LayerSeq[i] = l
<1> DEFINE n == Cardinality(Layers)
           rising(s) == \A i, j \in DOMAIN s : i < j => s[i] < s[j]
<1>0. n \in Nat
  BY LayersFinite, FS_CardinalityType
<1>1. \E s \in [1..n -> Layers] : rising(s)
  BY LayersFinite, RisingExists DEF Rises
<1>2. LayerSeq = CHOOSE s \in [1..n -> Layers] : rising(s)
  BY DEF LayerSeq
<1>3. LayerSeq \in [1..n -> Layers] /\ rising(LayerSeq)
  <2> HIDE DEF rising, n
  <2> QED
    BY <1>1, <1>2, Zenon
<1>4. Rises(LayerSeq, Layers) /\ \A i, j \in DOMAIN LayerSeq : LayerSeq[i] = LayerSeq[j] => i = j
  BY <1>3, LayersFinite, RisingCovers
<1>5. LayerSeq \in Seq(Layers) /\ Len(LayerSeq) = n /\ DOMAIN LayerSeq = 1..Len(LayerSeq)
  BY <1>0, <1>3
<1> QED
  BY <1>4, <1>5 DEF Rises

(* What the folds of compute_quota go through, one layer or key at a time. *)
FloorTake(q, l) == Take(q, l, Min({NUsed, Room(q, l)}))

NoneTaken == [quota |-> [l \in Layers |-> 0], rem |-> NSlots, seen |-> [l \in Layers |-> 0]]

LEMMA NoneTakenIn == NoneTaken \in Divisions
<1> DEFINE z == [l \in Layers |-> 0]
<1>1. z \in [Layers -> Nat] /\ \A l \in Layers : z[l] = 0
  OBVIOUS
<1>2. \A p \in Pools : NSlots[p] \in Nat
  BY SlotsFinite
<1>3. \A p \in Pools : Share(z, p) \in [Layers -> Int] /\ \A l \in Layers : Share(z, p)[l] <= 0
  BY DEF Share
<1> HIDE DEF z
<1>4. \A p \in Pools : Total(Share(z, p)) \in Int /\ Total(Share(z, p)) <= 0
  BY <1>3, TotalTyped, TotalBelow
<1>5. \A p \in Pools : /\ Total(Share(z, p)) + NSlots[p] <= NSlots[p]
                       /\ \A l \in Layers : Serves(p, l) => z[l] + NSlots[p] <= NSlots[p]
  BY <1>1, <1>2, <1>4
<1>6. NoneTaken = [quota |-> z, rem |-> NSlots, seen |-> z]
  BY DEF NoneTaken, z
<1> QED
  BY <1>1, <1>5, <1>6 DEF Divisions

LEMMA FloorTakeIn ==
    ASSUME NEW q \in Divisions, NEW l \in Layers
    PROVE  \E n \in 0..NUsed : /\ Took(q, FloorTake(q, l), l, n)
                               /\ NUsed <= Room(q, l) => n = NUsed
<1> DEFINE n == Min({NUsed, Room(q, l)})
<1>1. Room(q, l) \in Nat /\ NUsed \in Nat
  BY RoomIs, ExpertCacheAssumption
<1>2. n = IF NUsed <= Room(q, l) THEN NUsed ELSE Room(q, l)
  BY <1>1, MinOfTwo
<1> HIDE DEF n
<1>3. n \in Nat /\ n <= Room(q, l) /\ n \in 0..NUsed
  BY <1>1, <1>2
<1>4. Took(q, Take(q, l, n), l, n)
  BY <1>3, TakeIn
<1>5. FloorTake(q, l) = Take(q, l, n)
  BY DEF FloorTake, n
<1> QED
  BY <1>2, <1>3, <1>4, <1>5

LEMMA FloorFold ==
    \E v \in [0..Len(LayerSeq) -> Divisions] :
        /\ v[0] = NoneTaken
        /\ \A i \in 1..Len(LayerSeq) : v[i] = FloorTake(v[i - 1], LayerSeq[i])
        /\ FloorQuota = v[Len(LayerSeq)]
<1> DEFINE n == Len(LayerSeq)
           F == [z \in Divisions \X Layers |-> FloorTake(z[1], z[2])]
           it == CHOOSE iter : iter = [s \in SUBSET (1..n) |->
                     IF s = {} THEN NoneTaken ELSE FloorTake(iter[s \ {Max(s)}], LayerSeq[Max(s)])]
<1>0. LayerSeq \in Seq(Layers) /\ DOMAIN LayerSeq = 1..n /\ n \in Nat
  BY LayerSeqIs
<1>1. FloorQuota = it[1..n]
  BY <1>0, Zenon DEF FloorQuota, FoldLeft, MapThenFoldSet, FloorTake, NoneTaken
<1>2. \A q \in Divisions, l \in Layers : F[<<q, l>>] = FloorTake(q, l)
  OBVIOUS
<1>3. \A q \in Divisions, l \in Layers : FloorTake(q, l) \in Divisions
  BY FloorTakeIn DEF Took
<1> HIDE DEF F
<1>4. \A q \in Divisions, l \in Layers : F[<<q, l>>] \in Divisions
  BY <1>2, <1>3
<1>5. PICK g \in [SUBSET (1..n) -> Divisions] : Folded(F, NoneTaken, LayerSeq, g, n)
  BY <1>0, <1>4, NoneTakenIn, FoldExists
<1>6. \A s \in SUBSET (1..n) : s # {} => LayerSeq[Max(s)] \in Layers /\ s \ {Max(s)} \in SUBSET (1..n)
  <2> SUFFICES ASSUME NEW s \in SUBSET (1..n), s # {} PROVE LayerSeq[Max(s)] \in Layers
    OBVIOUS
  <2>1. s \subseteq 0..n
    OBVIOUS
  <2>2. Max(s) \in 1..n
    BY <1>0, <2>1, MaxIs
  <2> QED
    BY <1>0, <2>2
<1>7. \A s \in SUBSET (1..n) : g[s] = IF s = {} THEN NoneTaken
                                      ELSE FloorTake(g[s \ {Max(s)}], LayerSeq[Max(s)])
  BY <1>2, <1>5, <1>6 DEF Folded
<1>8. g = [s \in SUBSET (1..n) |-> IF s = {} THEN NoneTaken
                                   ELSE FloorTake(g[s \ {Max(s)}], LayerSeq[Max(s)])]
  BY <1>7
<1>9. it = [s \in SUBSET (1..n) |-> IF s = {} THEN NoneTaken
                                    ELSE FloorTake(it[s \ {Max(s)}], LayerSeq[Max(s)])]
  BY <1>8, Zenon
<1> HIDE DEF it
<1>10. it[{}] = NoneTaken
  BY <1>9
<1>11. \A s \in SUBSET (1..n) : s # {} /\ it[s \ {Max(s)}] \in Divisions =>
           it[s] = F[<<it[s \ {Max(s)}], LayerSeq[Max(s)]>>]
  <2> SUFFICES ASSUME NEW s \in SUBSET (1..n), s # {}, it[s \ {Max(s)}] \in Divisions
               PROVE  it[s] = F[<<it[s \ {Max(s)}], LayerSeq[Max(s)]>>]
    OBVIOUS
  <2>1. it[s] = FloorTake(it[s \ {Max(s)}], LayerSeq[Max(s)])
    BY <1>9
  <2> QED
    BY <2>1, <1>2, <1>6
<1>12. PICK v \in [0..n -> Divisions] :
           StepsOf(F, NoneTaken, LayerSeq, v) /\ it[1..n] = v[n]
  <2>1. Unfolds(Divisions, F, NoneTaken, LayerSeq, it)
    BY <1>10, <1>11 DEF Unfolds
  <2> QED
    BY <1>0, <1>4, <2>1, NoneTakenIn, FoldSteps
<1>13. \A i \in 1..n : v[i] = FloorTake(v[i - 1], LayerSeq[i])
  <2> SUFFICES ASSUME NEW i \in 1..n PROVE v[i] = FloorTake(v[i - 1], LayerSeq[i])
    OBVIOUS
  <2>1. i - 1 \in 0..n /\ LayerSeq[i] \in Layers
    BY <1>0
  <2>2. v[i - 1] \in Divisions
    BY <2>1
  <2> QED
    BY <1>2, <1>12, <2>1, <2>2 DEF StepsOf
<1> QED
  BY <1>1, <1>12, <1>13 DEF StepsOf

(* Every pool has NUsed slots for each layer it serves. *)
ServedBy(p) == {l \in Layers : Serves(p, l)}

Roomy == \A p \in Pools : NUsed * Cardinality(ServedBy(p)) <= NSlots[p]

(* The floor gives no layer more than NUsed slots, and every layer that    *)
(* many where the pools are roomy.                                         *)
LEMMA FloorIs ==
    /\ FloorQuota \in Divisions
    /\ \A l \in Layers : FloorQuota.quota[l] <= NUsed
    /\ Roomy => \A l \in Layers : FloorQuota.quota[l] = NUsed
<1> DEFINE n == Len(LayerSeq)
           Img(i) == {LayerSeq[j] : j \in 1..i}
<1>0. /\ LayerSeq \in Seq(Layers) /\ n \in Nat /\ DOMAIN LayerSeq = 1..n
      /\ \A i, j \in 1..n : LayerSeq[i] = LayerSeq[j] => i = j
      /\ \A l \in Layers : \E i \in 1..n : LayerSeq[i] = l
  BY LayerSeqIs
<1>1. PICK v \in [0..n -> Divisions] :
        /\ v[0] = NoneTaken
        /\ \A i \in 1..n : v[i] = FloorTake(v[i - 1], LayerSeq[i])
        /\ FloorQuota = v[n]
  BY FloorFold
<1>2. NUsed \in Nat
  BY ExpertCacheAssumption
<1>3. \A i \in 0..n, l \in Layers : v[i].quota[l] \in Nat
  <2> SUFFICES ASSUME NEW i \in 0..n, NEW l \in Layers PROVE v[i].quota[l] \in Nat
    OBVIOUS
  <2>1. v[i] \in Divisions
    OBVIOUS
  <2>2. v[i].quota \in [Layers -> Nat]
    BY <2>1, DivisionTyped
  <2> QED
    BY <2>2
<1>4. \A i \in 0..(n - 1) :
        /\ i \in 0..n /\ i + 1 \in 0..n /\ i \in Nat
        /\ v[i] \in Divisions /\ LayerSeq[i + 1] \in Layers
        /\ v[i + 1] = FloorTake(v[i], LayerSeq[i + 1])
        /\ Img(i + 1) = Img(i) \cup {LayerSeq[i + 1]} /\ LayerSeq[i + 1] \notin Img(i)
  <2> SUFFICES ASSUME NEW i \in 0..(n - 1)
               PROVE  /\ i \in 0..n /\ i + 1 \in 0..n /\ i \in Nat
                      /\ v[i] \in Divisions /\ LayerSeq[i + 1] \in Layers
                      /\ v[i + 1] = FloorTake(v[i], LayerSeq[i + 1])
                      /\ Img(i + 1) = Img(i) \cup {LayerSeq[i + 1]} /\ LayerSeq[i + 1] \notin Img(i)
    OBVIOUS
  <2>1. i \in 0..n /\ i + 1 \in 0..n /\ i + 1 \in 1..n /\ i \in Nat /\ (i + 1) - 1 = i
    BY <1>0
  <2>2. 1..(i + 1) = (1..i) \cup {i + 1} /\ (1..i) \subseteq 1..n
    BY <1>0, <2>1
  <2>3. Img(i + 1) = Img(i) \cup {LayerSeq[i + 1]}
    BY <2>2
  <2>4. LayerSeq[i + 1] \notin Img(i)
    <3> SUFFICES ASSUME NEW j \in 1..i, LayerSeq[j] = LayerSeq[i + 1] PROVE FALSE
      OBVIOUS
    <3>1. j = i + 1
      BY <1>0, <2>1, <2>2
    <3> QED
      BY <3>1, <2>1
  <2>5. v[i + 1] = FloorTake(v[i], LayerSeq[i + 1])
    BY <1>1, <2>1
  <2>6. v[i] \in Divisions /\ LayerSeq[i + 1] \in Layers
    BY <1>0, <2>1
  <2> QED
    BY <2>1, <2>3, <2>4, <2>5, <2>6
<1>5. v[0].quota = [l \in Layers |-> 0] /\ v[0].rem = NSlots /\ Img(0) = {}
  BY <1>1 DEF NoneTaken
<1>6. Img(n) = Layers
  BY <1>0
<1> HIDE DEF Img
<1>7. \A l \in Layers : v[n].quota[l] <= NUsed
  <2> DEFINE P == {i \in 0..n : \A l \in Layers : /\ v[i].quota[l] <= NUsed
                                                  /\ l \notin Img(i) => v[i].quota[l] = 0}
  <2>1. 0 \in P
    BY <1>0, <1>2, <1>5
  <2>2. ASSUME NEW i \in 0..(n - 1), i \in P PROVE i + 1 \in P
    <3> DEFINE m == LayerSeq[i + 1]
    <3>1. PICK k \in 0..NUsed : Took(v[i], v[i + 1], m, k)
      BY <1>4, FloorTakeIn
    <3>2. \A l \in Layers : v[i + 1].quota[l] = IF l = m THEN v[i].quota[l] + k ELSE v[i].quota[l]
      BY <3>1 DEF Took
    <3>3. m \notin Img(i) /\ m \in Layers /\ Img(i + 1) = Img(i) \cup {m} /\ i + 1 \in 0..n
      BY <1>4
    <3> HIDE DEF m
    <3>4. v[i].quota[m] = 0
      BY <2>2, <3>3
    <3>5. \A l \in Layers : v[i + 1].quota[l] <= NUsed
      BY <1>2, <2>2, <3>2, <3>4
    <3>6. \A l \in Layers : l \notin Img(i + 1) => v[i + 1].quota[l] = 0
      BY <2>2, <3>2, <3>3
    <3> QED
      BY <3>3, <3>5, <3>6
  <2>3. \A i \in 0..n : i \in P
    <3>1. n \in Nat
      BY <1>0
    <3> HIDE DEF P, n
    <3> QED
      BY <3>1, <2>1, <2>2, Climb
  <2>4. n \in P
    <3>1. n \in 0..n
      BY <1>0
    <3> HIDE DEF P
    <3> QED
      BY <3>1, <2>3
  <2> QED
    BY <2>4
<1>8. ASSUME Roomy PROVE \A l \in Layers : v[n].quota[l] = NUsed
  <2> DEFINE On(i, p) == Cardinality(Img(i) \cap ServedBy(p))
             P == {i \in 0..n :
                     /\ \A l \in Layers : v[i].quota[l] = IF l \in Img(i) THEN NUsed ELSE 0
                     /\ \A p \in Pools : v[i].rem[p] = NSlots[p] - NUsed * On(i, p)}
  <2>0. \A i, p : /\ IsFiniteSet(Img(i) \cap ServedBy(p)) /\ On(i, p) \in Nat
                  /\ IsFiniteSet(ServedBy(p)) /\ Cardinality(ServedBy(p)) \in Nat
    <3> SUFFICES ASSUME NEW i, NEW p
                 PROVE  /\ IsFiniteSet(Img(i) \cap ServedBy(p)) /\ On(i, p) \in Nat
                        /\ IsFiniteSet(ServedBy(p)) /\ Cardinality(ServedBy(p)) \in Nat
      OBVIOUS
    <3>1. ServedBy(p) \in SUBSET Layers /\ Img(i) \cap ServedBy(p) \in SUBSET Layers
      BY DEF ServedBy
    <3> HIDE DEF Img
    <3>2. IsFiniteSet(ServedBy(p)) /\ IsFiniteSet(Img(i) \cap ServedBy(p))
      BY <3>1, LayersFinite, FS_Subset
    <3> QED
      BY <3>2, FS_CardinalityType
  <2>1. 0 \in P
    <3>1. \A p \in Pools : On(0, p) = 0
      BY <1>5, FS_EmptySet
    <3>2. \A p \in Pools : v[0].rem[p] = NSlots[p] - NUsed * 0
      BY <1>2, <1>5, SlotsFinite
    <3>3. \A l \in Layers : v[0].quota[l] = IF l \in Img(0) THEN NUsed ELSE 0
      BY <1>5
    <3>4. 0 \in 0..n
      BY <1>0
    <3>5. \A p \in Pools : v[0].rem[p] = NSlots[p] - NUsed * On(0, p)
      BY <3>1, <3>2
    <3> HIDE DEF On
    <3> QED
      BY <3>3, <3>4, <3>5
  <2>2. ASSUME NEW i \in 0..(n - 1), i \in P PROVE i + 1 \in P
    <3> DEFINE m == LayerSeq[i + 1]
    <3>1. PICK k \in 0..NUsed : Took(v[i], v[i + 1], m, k) /\ (NUsed <= Room(v[i], m) => k = NUsed)
      BY <1>4, FloorTakeIn
    <3>2. \A l \in Layers : v[i + 1].quota[l] = IF l = m THEN v[i].quota[l] + k ELSE v[i].quota[l]
      BY <3>1 DEF Took
    <3>3. \A p \in Pools : v[i + 1].rem[p] = IF Serves(p, m) THEN v[i].rem[p] - k ELSE v[i].rem[p]
      BY <3>1 DEF Took
    <3>4. m \notin Img(i) /\ m \in Layers /\ Img(i + 1) = Img(i) \cup {m} /\ i + 1 \in 0..n
          /\ v[i] \in Divisions
      BY <1>4
    <3> HIDE DEF m
    <3>5. ASSUME NEW p \in Pools
          PROVE  On(i + 1, p) = IF Serves(p, m) THEN On(i, p) + 1 ELSE On(i, p)
      <4> DEFINE A == Img(i) \cap ServedBy(p)
      <4>1. CASE Serves(p, m)
        <5>1. Img(i + 1) \cap ServedBy(p) = A \cup {m} /\ m \notin A
          BY <3>4, <4>1 DEF ServedBy
        <5> QED
          BY <4>1, <5>1, <2>0, FS_AddElement
      <4>2. CASE ~Serves(p, m)
        <5>1. Img(i + 1) \cap ServedBy(p) = A
          BY <3>4, <4>2 DEF ServedBy
        <5> QED
          BY <4>2, <5>1
      <4> QED
        BY <4>1, <4>2
    <3>6. k = NUsed
      <4>1. PICK p \in Pools : Serves(p, m) /\ Room(v[i], m) = v[i].rem[p]
        BY <3>4, RoomIs
      <4>2. On(i + 1, p) = On(i, p) + 1
        BY <3>5, <4>1
      <4>3. On(i + 1, p) <= Cardinality(ServedBy(p))
        <5>1. Img(i + 1) \cap ServedBy(p) \in SUBSET ServedBy(p)
          OBVIOUS
        <5> QED
          BY <5>1, <2>0, FS_Subset
      <4>4. v[i].rem[p] = NSlots[p] - NUsed * On(i, p)
        BY <2>2
      <4>5. NUsed * Cardinality(ServedBy(p)) <= NSlots[p]
        BY <1>8 DEF Roomy
      <4> DEFINE a == On(i, p)
                 b == Cardinality(ServedBy(p))
      <4>6. a \in Nat /\ b \in Nat /\ a + 1 <= b /\ NSlots[p] \in Nat
        BY <2>0, <4>2, <4>3, SlotsFinite
      <4>7. NUsed * (a + 1) <= NUsed * b
        <5> HIDE DEF a, b
        <5>1. b - (a + 1) \in Nat /\ NUsed * (b - (a + 1)) \in Nat
          BY <4>6, <1>2
        <5>2. NUsed * b = NUsed * (a + 1) + NUsed * (b - (a + 1))
          BY <4>6, <1>2
        <5> QED
          BY <5>1, <5>2, <4>6, <1>2
      <4>8. NUsed * (a + 1) = NUsed * a + NUsed
        <5> HIDE DEF a, b
        <5> QED
          BY <4>6, <1>2
      <4>9. NUsed * a \in Nat /\ NUsed * b \in Nat
        <5> HIDE DEF a, b
        <5> QED
          BY <4>6, <1>2
      <4>10. NUsed <= v[i].rem[p]
        <5>1. v[i].rem[p] = NSlots[p] - NUsed * a /\ NUsed * b <= NSlots[p]
          BY <4>4, <4>5
        <5> HIDE DEF a, b
        <5> QED
          BY <5>1, <4>6, <4>7, <4>8, <4>9, <1>2
      <4> QED
        BY <3>1, <4>1, <4>10
    <3>7. \A l \in Layers : v[i + 1].quota[l] = IF l \in Img(i + 1) THEN NUsed ELSE 0
      BY <1>2, <2>2, <3>2, <3>4, <3>6
    <3>8. \A p \in Pools : v[i + 1].rem[p] = NSlots[p] - NUsed * On(i + 1, p)
      <4> SUFFICES ASSUME NEW p \in Pools PROVE v[i + 1].rem[p] = NSlots[p] - NUsed * On(i + 1, p)
        OBVIOUS
      <4> DEFINE a == On(i, p)
                 b == On(i + 1, p)
      <4>1. a \in Nat /\ NSlots[p] \in Nat
        BY <2>0, SlotsFinite
      <4>2. v[i].rem[p] = NSlots[p] - NUsed * a
        BY <2>2
      <4>3. b = IF Serves(p, m) THEN a + 1 ELSE a
        BY <3>5
      <4> HIDE DEF a, b
      <4>4. NUsed * (a + 1) = NUsed * a + NUsed /\ NUsed * a \in Nat
        BY <4>1, <1>2
      <4>5. v[i + 1].rem[p] = NSlots[p] - NUsed * b
        BY <4>1, <4>2, <4>3, <4>4, <1>2, <3>3, <3>6
      <4> QED
        BY <4>5 DEF b
    <3> HIDE DEF On
    <3> QED
      BY <3>4, <3>7, <3>8
  <2>3. \A i \in 0..n : i \in P
    <3>1. n \in Nat
      BY <1>0
    <3> HIDE DEF P, n
    <3> QED
      BY <3>1, <2>1, <2>2, Climb
  <2>4. n \in P
    <3>1. n \in 0..n
      BY <1>0
    <3> HIDE DEF P
    <3> QED
      BY <3>1, <2>3
  <2> HIDE DEF On
  <2> QED
    BY <2>4, <1>6
<1>9. v[n] \in Divisions
  BY <1>0, <1>1
<1> QED
  BY <1>1, <1>7, <1>8, <1>9

(* The divisions the greedy pass moves among: no layer below its floor or  *)
(* above the number of experts.                                            *)
Above(low) == {q \in Divisions : \A l \in Layers : low[l] <= q.quota[l] /\ q.quota[l] <= Cardinality(Experts)}

LEMMA SeenIn ==
    ASSUME NEW q \in Divisions, NEW l \in Layers
    PROVE  LET s == [q EXCEPT !.seen[l] = @ + 1]
           IN  s \in Divisions /\ s.quota = q.quota /\ s.rem = q.rem
<1> DEFINE a == q.quota
           b == q.rem
           c == q.seen
           d == [q.seen EXCEPT ![l] = @ + 1]
           z == [quota |-> a, rem |-> b, seen |-> c]
           s == [q EXCEPT !.seen[l] = @ + 1]
<1>1. q = z /\ c \in [Layers -> Nat]
  BY DivisionTyped
<1>2. s = [z EXCEPT !.seen = d]
  BY <1>1, Zenon
<1>3. d \in [Layers -> Nat]
  BY <1>1
<1> HIDE DEF d, a, b, c
<1>4. [z EXCEPT !.seen = d] = [quota |-> a, rem |-> b, seen |-> d]
  OBVIOUS
<1> HIDE DEF z, s
<1>5. s = [quota |-> a, rem |-> b, seen |-> d]
  BY <1>2, <1>4
<1>6. s.quota = q.quota /\ s.rem = q.rem
  BY <1>5 DEF a, b
<1>7. s \in Divisions
  <2>1. q.quota = a /\ q.rem = b
    BY DEF a, b
  <2>2. /\ a \in [Layers -> Nat] /\ b \in [Pools -> Nat] \cup {NSlots}
        /\ \A p \in Pools :
            /\ Total(Share(a, p)) + b[p] <= NSlots[p]
            /\ \A m \in Layers : Serves(p, m) => a[m] + b[p] <= NSlots[p]
    BY <2>1 DEF Divisions
  <2> QED
    BY <1>3, <1>5, <1>6, <2>1, <2>2 DEF Divisions
<1> QED
  BY <1>6, <1>7 DEF s

LEMMA GreedyIn ==
    ASSUME NEW low \in [Layers -> Nat], NEW q \in Above(low), NEW k \in Keys
    PROVE  Greedy(q, k) \in Above(low)
<1> DEFINE l == k[1]
           s == [q EXCEPT !.seen[l] = @ + 1]
<1>1. l \in Layers /\ q \in Divisions
  BY NoKeyApart DEF Above
<1>2. s \in Divisions /\ s.quota = q.quota /\ s.rem = q.rem
  BY <1>1, SeenIn
<1>3. s \in Above(low)
  <2> HIDE DEF s
  <2> QED
    BY <1>2 DEF Above
<1>4. CASE q.seen[l] < NUsed \/ q.quota[l] >= Cardinality(Experts) \/ Room(q, l) <= 0
  BY <1>3, <1>4 DEF Greedy
<1>5. CASE ~(q.seen[l] < NUsed \/ q.quota[l] >= Cardinality(Experts) \/ Room(q, l) <= 0)
  <2>1. Greedy(q, k) = Take(s, l, 1)
    BY <1>5 DEF Greedy
  <2> HIDE DEF s, l
  <2>2. Room(s, l) = Room(q, l)
    BY <1>2 DEF Room
  <2>3. Room(q, l) \in Nat
    BY <1>1, RoomIs
  <2>4. 1 <= Room(s, l)
    BY <1>5, <2>2, <2>3
  <2> DEFINE t == Take(s, l, 1)
  <2>5. Took(s, t, l, 1)
    BY <1>1, <1>2, <2>4, TakeIn
  <2> HIDE DEF t
  <2>6. s.quota \in [Layers -> Nat] /\ Cardinality(Experts) \in Nat
    BY <1>2, DivisionTyped, ExpertCacheAssumption, FS_CardinalityType
  <2>7. \A m \in Layers : low[m] <= t.quota[m] /\ t.quota[m] <= Cardinality(Experts)
    <3> SUFFICES ASSUME NEW m \in Layers
                 PROVE  low[m] <= t.quota[m] /\ t.quota[m] <= Cardinality(Experts)
      OBVIOUS
    <3>1. t.quota[m] = IF m = l THEN s.quota[m] + 1 ELSE s.quota[m]
      BY <2>5 DEF Took
    <3>2. low[m] <= s.quota[m] /\ s.quota[m] <= Cardinality(Experts)
      BY <1>3 DEF Above
    <3>3. m = l => s.quota[m] < Cardinality(Experts)
      BY <1>1, <1>2, <1>5, <2>6
    <3> QED
      BY <2>6, <3>1, <3>2, <3>3
  <2>8. t \in Above(low)
    BY <2>5, <2>7 DEF Above, Took
  <2> QED
    BY <2>1, <2>8 DEF t
<1> QED
  BY <1>4, <1>5

LEMMA GreedyFold ==
    ASSUME NEW low \in [Layers -> Nat], FloorQuota \in Above(low), NEW ents \in Seq(Keys)
    PROVE  FoldLeft(Greedy, FloorQuota, ents) \in Above(low)
<1> DEFINE n == Len(ents)
           X == Above(low)
           F == [z \in X \X Keys |-> Greedy(z[1], z[2])]
           it == CHOOSE iter : iter = [s \in SUBSET (1..n) |->
                     IF s = {} THEN FloorQuota ELSE Greedy(iter[s \ {Max(s)}], ents[Max(s)])]
           b == FloorQuota
<1>0. DOMAIN ents = 1..n /\ n \in Nat /\ b \in X
  OBVIOUS
<1>1. FoldLeft(Greedy, FloorQuota, ents) = it[1..n]
  BY <1>0, Zenon DEF FoldLeft, MapThenFoldSet
<1>2. \A q \in X, k \in Keys : F[<<q, k>>] = Greedy(q, k)
  OBVIOUS
<1>3. \A q \in X, k \in Keys : Greedy(q, k) \in X
  BY GreedyIn
<1> HIDE DEF F, X
<1>4. \A q \in X, k \in Keys : F[<<q, k>>] \in X
  BY <1>2, <1>3
<1>5. PICK g \in [SUBSET (1..n) -> X] : Folded(F, b, ents, g, n)
  BY <1>0, <1>4, FoldExists
<1>6. \A s \in SUBSET (1..n) : s # {} => ents[Max(s)] \in Keys /\ s \ {Max(s)} \in SUBSET (1..n)
  <2> SUFFICES ASSUME NEW s \in SUBSET (1..n), s # {} PROVE ents[Max(s)] \in Keys
    OBVIOUS
  <2>1. s \subseteq 0..n
    OBVIOUS
  <2>2. Max(s) \in 1..n
    BY <1>0, <2>1, MaxIs
  <2> QED
    BY <1>0, <2>2
<1>7. \A s \in SUBSET (1..n) : g[s] = IF s = {} THEN b ELSE Greedy(g[s \ {Max(s)}], ents[Max(s)])
  BY <1>2, <1>5, <1>6 DEF Folded
<1>8. g = [s \in SUBSET (1..n) |-> IF s = {} THEN b ELSE Greedy(g[s \ {Max(s)}], ents[Max(s)])]
  BY <1>7
<1>9. it = [s \in SUBSET (1..n) |-> IF s = {} THEN b ELSE Greedy(it[s \ {Max(s)}], ents[Max(s)])]
  BY <1>8, Zenon
<1> HIDE DEF it
<1>10. it[{}] = b
  BY <1>9
<1>11. \A s \in SUBSET (1..n) : s # {} /\ it[s \ {Max(s)}] \in X =>
           it[s] = F[<<it[s \ {Max(s)}], ents[Max(s)]>>]
  <2> SUFFICES ASSUME NEW s \in SUBSET (1..n), s # {}, it[s \ {Max(s)}] \in X
               PROVE  it[s] = F[<<it[s \ {Max(s)}], ents[Max(s)]>>]
    OBVIOUS
  <2>1. it[s] = Greedy(it[s \ {Max(s)}], ents[Max(s)])
    BY <1>9
  <2> QED
    BY <2>1, <1>2, <1>6
<1>12. PICK v \in [0..n -> X] : StepsOf(F, b, ents, v) /\ it[1..n] = v[n]
  <2>1. Unfolds(X, F, b, ents, it)
    BY <1>10, <1>11 DEF Unfolds
  <2> HIDE DEF b
  <2> QED
    BY <1>0, <1>4, <2>1, FoldSteps
<1>13. v[n] \in X
  BY <1>0
<1> QED
  BY <1>1, <1>12, <1>13 DEF X

(* What rebalance() installs: quotas within the number of experts, that    *)
(* fit in every pool, and that give every layer a token's experts where    *)
(* the pools are roomy.                                                    *)
LEMMA QuotaComputed ==
    ASSUME NEW ents \in Seq(Keys)
    PROVE  LET q == compute_quota(ents)
           IN  /\ q \in [Layers -> 0 .. Cardinality(Experts)]
               /\ \A p \in Pools : Total(Share(q, p)) <= NSlots[p]
               /\ \A p \in Pools, l \in Layers : Serves(p, l) => q[l] <= NSlots[p]
               /\ Roomy => \A l \in Layers : NUsed <= q[l]
<1> DEFINE low == FloorQuota.quota
           d == FoldLeft(Greedy, FloorQuota, ents)
           q == compute_quota(ents)
<1>0. Cardinality(Experts) \in Nat /\ NUsed <= Cardinality(Experts) /\ NUsed \in Nat
  BY ExpertCacheAssumption, FS_CardinalityType
<1>1. low \in [Layers -> Nat]
  BY FloorIs, DivisionTyped
<1>2. FloorQuota \in Above(low)
  <2>1. \A l \in Layers : low[l] \in Nat /\ low[l] <= NUsed
    BY <1>1, FloorIs
  <2>2. \A l \in Layers : low[l] <= low[l] /\ low[l] <= Cardinality(Experts)
    BY <2>1, <1>0
  <2> QED
    BY <2>2, FloorIs DEF Above
<1>3. d \in Above(low)
  <2> HIDE DEF low
  <2> QED
    BY <1>1, <1>2, GreedyFold
<1>4. q = d.quota
  BY DEF compute_quota
<1> HIDE DEF d, q
<1>5. d \in Divisions /\ \A l \in Layers : low[l] <= d.quota[l] /\ d.quota[l] <= Cardinality(Experts)
  BY <1>3 DEF Above
<1>6. /\ q \in [Layers -> Nat]
      /\ \A p \in Pools : d.rem[p] \in Nat /\ NSlots[p] \in Nat /\ Total(Share(q, p)) \in Int
      /\ \A p \in Pools : /\ Total(Share(q, p)) + d.rem[p] <= NSlots[p]
                          /\ \A l \in Layers : Serves(p, l) => q[l] + d.rem[p] <= NSlots[p]
  BY <1>4, <1>5, DivisionTyped
<1>7. q \in [Layers -> 0 .. Cardinality(Experts)]
  <2>1. \A l \in Layers : q[l] \in 0 .. Cardinality(Experts)
    BY <1>0, <1>4, <1>5, <1>6
  <2> QED
    BY <1>6, <2>1
<1>8. \A p \in Pools : Total(Share(q, p)) <= NSlots[p]
  <2> SUFFICES ASSUME NEW p \in Pools PROVE Total(Share(q, p)) <= NSlots[p]
    OBVIOUS
  <2>1. /\ d.rem[p] \in Nat /\ NSlots[p] \in Nat /\ Total(Share(q, p)) \in Int
        /\ Total(Share(q, p)) + d.rem[p] <= NSlots[p]
    BY <1>6
  <2> QED
    BY <2>1
<1>9. ASSUME NEW p \in Pools, NEW l \in Layers, Serves(p, l) PROVE q[l] <= NSlots[p]
  <2>1. d.rem[p] \in Nat /\ NSlots[p] \in Nat /\ q[l] \in Nat /\ q[l] + d.rem[p] <= NSlots[p]
    BY <1>6, <1>9
  <2> QED
    BY <2>1
<1>10. Roomy => \A l \in Layers : NUsed <= q[l]
  BY <1>4, <1>5, FloorIs
<1> QED
  BY <1>7, <1>8, <1>9, <1>10 DEF q

-----------------------------------------------------------------------------
(* The order of last use: a slot that is used moves to the end of it and   *)
(* the others keep their order.                                            *)
MovedUp(n, order, s) ==
    [u \in 1..n |-> IF u = s THEN n ELSE IF order[u] > order[s] THEN order[u] - 1 ELSE order[u]]

Newer(S, old, new, s) ==
    /\ new \in Injection(S, S)
    /\ \A u \in S \ {s} : new[u] < new[s]
    /\ \A u, w \in S \ {s} : old[u] < old[w] => new[u] < new[w]

LEMMA MovedUpIs ==
    ASSUME NEW n \in Nat, NEW order \in Injection(1..n, 1..n), NEW s \in 1..n
    PROVE  Newer(1..n, order, MovedUp(n, order, s), s)
<1> DEFINE m == MovedUp(n, order, s)
<1>1. order \in [1..n -> 1..n] /\ \A u, w \in 1..n : order[u] = order[w] => u = w
  BY DEF Injection, IsInjective
<1>2. \A u \in 1..n : order[u] \in 1..n /\ m[u] = IF u = s THEN n ELSE
                          IF order[u] > order[s] THEN order[u] - 1 ELSE order[u]
  BY <1>1 DEF MovedUp
<1>3. DOMAIN m = 1..n /\ m = [u \in 1..n |-> m[u]]
  BY DEF MovedUp
<1> HIDE DEF m
<1>4. \A u \in 1..n \ {s} : order[u] # order[s]
  BY <1>1
<1>5. \A u \in 1..n \ {s} : m[u] \in 1..n /\ m[u] < n
  BY <1>2, <1>4
<1>6. m[s] = n /\ n \in 1..n
  BY <1>2
<1>7. m \in [1..n -> 1..n]
  BY <1>3, <1>5, <1>6
<1>8. \A u, w \in 1..n \ {s} : order[u] < order[w] => m[u] < m[w]
  BY <1>2, <1>4
<1>9. \A u, w \in 1..n : m[u] = m[w] => u = w
  <2> SUFFICES ASSUME NEW u \in 1..n, NEW w \in 1..n, u # w PROVE m[u] # m[w]
    OBVIOUS
  <2>1. CASE u = s
    BY <2>1, <1>5, <1>6
  <2>2. CASE w = s
    BY <2>2, <1>5, <1>6
  <2>3. CASE u # s /\ w # s
    <3>1. order[u] # order[w] /\ order[u] \in Nat /\ order[w] \in Nat
      BY <1>1, <1>2
    <3>2. order[u] < order[w] \/ order[w] < order[u]
      BY <3>1
    <3>3. m[u] \in Nat /\ m[w] \in Nat
      BY <2>3, <1>5
    <3> QED
      BY <2>3, <3>2, <3>3, <1>8
  <2> QED
    BY <2>1, <2>2, <2>3
<1>10. m \in Injection(1..n, 1..n)
  BY <1>7, <1>9 DEF Injection, IsInjective
<1> QED
  BY <1>5, <1>6, <1>8, <1>10 DEF m, Newer

Ranked == DOMAIN rank = Pools /\ \A p \in Pools : rank[p] \in Injection(Slots(p), Slots(p))

LEMMA UsedIs ==
    ASSUME Ranked, NEW p \in Pools, NEW s \in Slots(p)
    PROVE  Newer(Slots(p), rank[p], Used(p, s), s)
<1>1. NSlots[p] \in Nat /\ rank[p] \in Injection(1..NSlots[p], 1..NSlots[p]) /\ s \in 1..NSlots[p]
  BY SlotsFinite DEF Ranked, Slots
<1>2. Used(p, s) = MovedUp(NSlots[p], rank[p], s)
  BY DEF Used, MovedUp, Slots
<1> QED
  BY <1>1, <1>2, MovedUpIs DEF Slots

(* Slot s of pool p was the only one used. *)
UsedOne(p, s) == p \in Pools /\ s \in Slots(p) /\ rank' = [rank EXCEPT ![p] = Used(p, s)]

LEMMA UsedOneKeeps ==
    ASSUME Ranked, NEW p, NEW s, UsedOne(p, s)
    PROVE  Ranked'
<1>1. p \in Pools /\ s \in Slots(p) /\ rank' = [rank EXCEPT ![p] = Used(p, s)]
  BY DEF UsedOne
<1>2. Used(p, s) \in Injection(Slots(p), Slots(p))
  BY <1>1, UsedIs DEF Newer
<1>3. DOMAIN rank' = Pools /\ \A q \in Pools : rank'[q] = IF q = p THEN Used(p, s) ELSE rank[q]
  BY <1>1 DEF Ranked
<1>4. \A q \in Pools : rank'[q] \in Injection(Slots(q), Slots(q))
  BY <1>2, <1>3 DEF Ranked
<1> QED
  BY <1>3, <1>4 DEF Ranked, Slots

(* A key that is there has a slot of the pool. *)
LEMMA HereTyped ==
    ASSUME CInd, call.todo # <<>>, Here # 0
    PROVE  WantPool \in Pools /\ Want \in Keys /\ Here \in Slots(WantPool)
           /\ slot2key[WantPool][Here] = Want
<1>1. WantPool \in Pools /\ Want \in Keys
  BY WantTyped DEF CInd
<1> QED
  BY <1>1 DEF CInd, MapsAgree, Here

LEMMA StepRank ==
    ASSUME CInd, Ranked, CNext
    PROVE  Ranked'
<1>0. MapsTyped /\ MapsAgree /\ CallOK(call)
  BY DEF CInd
<1>1. CASE rank' = rank
  BY <1>1 DEF Ranked, Slots
<1>2. CASE Hit
  <2>1. UsedOne(WantPool, Here)
    BY <1>2, HereTyped DEF Hit, UsedOne
  <2> QED
    BY <2>1, UsedOneKeeps
<1>3. CASE Miss \/ Install
  <2>1. WantPool \in Pools
    BY <1>0, <1>3, WantTyped DEF Miss, Install, Installing
  <2>2. PICK s \in Slots(WantPool) : rank' = [rank EXCEPT ![WantPool] = Used(WantPool, s)]
    BY <1>3 DEF Miss, Install, Claim
  <2>3. UsedOne(WantPool, s)
    BY <2>1, <2>2 DEF UsedOne
  <2> QED
    BY <2>3, UsedOneKeeps
<1>4. ASSUME NEW l \in Layers, NEW e \in Experts, NEW r \in Range(Roles), Touch(r, l, e) PROVE Ranked'
  <2> DEFINE p == PoolOf[r][l]
             s == key2slot[p][<<l, e>>]
  <2>1. p \in Pools /\ <<l, e>> \in Keys
    BY RolesThere DEF Keys
  <2>2. s # 0 /\ rank' = [rank EXCEPT ![p] = Used(p, s)]
    BY <1>4 DEF Touch
  <2>3. s \in Slots(p)
    BY <1>0, <2>1, <2>2 DEF MapsAgree
  <2> HIDE DEF p, s
  <2>4. UsedOne(p, s)
    BY <2>1, <2>2, <2>3 DEF UsedOne
  <2> QED
    BY <2>4, UsedOneKeeps
<1>5. ASSUME NEW l \in Layers, EnsureToken(l) \/ EnsureSlice(l) PROVE rank' = rank
  BY <1>5 DEF EnsureToken, EnsureSlice, Ensure
<1>6. ASSUME NEW l \in Layers, NEW e \in Experts, EnsureResident(l, e) PROVE rank' = rank
  BY <1>6 DEF EnsureResident
<1>7. ASSUME NEW order \in Rankings, Rebalance(order) PROVE rank' = rank
  BY <1>7 DEF Rebalance
<1>8. Return \/ FetchFails \/ Skip \/ InstallFails \/ Done => rank' = rank
  BY DEF Return, FetchFails, Skip, InstallFails, Done
<1> QED
  BY <1>1, <1>2, <1>3, <1>4, <1>5, <1>6, <1>7, <1>8 DEF CNext

-----------------------------------------------------------------------------
(* The memory holds experts, and the reads put off are for slots.          *)
MemoryTyped ==
    /\ DOMAIN content = Pools
    /\ \A p \in Pools : content[p] \in [Slots(p) -> Keys \cup {NoKey}]
    /\ \A j \in call.jobs : j.pool \in Pools /\ j.slot \in Slots(j.pool) /\ j.key \in Keys

LEMMA MemoryCopied ==
    ASSUME MemoryTyped, NEW p \in Pools, NEW s \in Slots(p), NEW k \in Keys \cup {NoKey},
           content' = Copied(p, s, k), call'.jobs \subseteq call.jobs
    PROVE  MemoryTyped'
<1>1. DOMAIN content' = Pools /\ \A q \in Pools : content'[q] \in [Slots(q) -> Keys \cup {NoKey}]
  BY DEF MemoryTyped, Copied
<1> QED
  BY <1>1 DEF MemoryTyped, Slots

LEMMA MemoryLoaded ==
    ASSUME MemoryTyped, NEW done \in SUBSET call.jobs, content' = Loaded(done), call'.jobs = {}
    PROVE  MemoryTyped'
<1>1. DOMAIN content' = Pools
  BY DEF Loaded
<1>2. ASSUME NEW q \in Pools PROVE content'[q] \in [Slots(q) -> Keys \cup {NoKey}]
  <2>1. content'[q] = [u \in Slots(q) |->
            IF \E j \in done : j.pool = q /\ j.slot = u
            THEN (CHOOSE j \in done : j.pool = q /\ j.slot = u).key ELSE content[q][u]]
    BY DEF Loaded
  <2>2. ASSUME NEW u \in Slots(q)
        PROVE  (IF \E j \in done : j.pool = q /\ j.slot = u
                THEN (CHOOSE j \in done : j.pool = q /\ j.slot = u).key ELSE content[q][u])
                  \in Keys \cup {NoKey}
    <3> DEFINE of(j) == j.pool = q /\ j.slot = u
    <3>1. CASE \E j \in done : of(j)
      <4>1. PICK j \in done : of(j) /\ j = CHOOSE i \in done : of(i)
        BY <3>1, Zenon
      <4>2. j.key \in Keys
        BY <4>1 DEF MemoryTyped
      <4> QED
        BY <3>1, <4>1, <4>2
    <3>2. CASE ~\E j \in done : of(j)
      BY <3>2 DEF MemoryTyped
    <3> QED
      BY <3>1, <3>2
  <2> QED
    BY <2>1, <2>2
<1> QED
  BY <1>1, <1>2 DEF MemoryTyped, Slots

JobsFrom(new, old) ==
    \A j \in new : j \in old \/ (j.pool \in Pools /\ j.slot \in Slots(j.pool) /\ j.key \in Keys)

LEMMA MemoryKept ==
    ASSUME MemoryTyped, content' = content, JobsFrom(call'.jobs, call.jobs)
    PROVE  MemoryTyped'
BY DEF MemoryTyped, Slots, JobsFrom

LEMMA StepMemory ==
    ASSUME CInd, MemoryTyped, CNext
    PROVE  MemoryTyped'
<1>0. MapsTyped /\ CallOK(call)
  BY DEF CInd
<1>1. CASE Miss
  <2>1. Want \in Keys /\ WantPool \in Pools
    BY <1>0, <1>1, WantTyped DEF Miss
  <2>2. PICK s \in Slots(WantPool) :
            /\ content' = IF Ssd THEN content ELSE Copied(WantPool, s, Want)
            /\ call' = Advanced(Found(IF Ssd THEN Queued(call, Out(s)) ELSE call, Out(s)))
    BY <1>1 DEF Miss
  <2> DEFINE c == IF Ssd THEN Queued(call, Out(s)) ELSE call
             x == Out(s)
  <2>3. CallOK(c) /\ CallOK(Found(c, x))
    BY <1>0, QueuedTyped, FoundTyped
  <2>4. call'.jobs = c.jobs
    <3> HIDE DEF c, x
    <3>1. call' = Advanced(Found(c, x))
      BY <2>2 DEF c, x
    <3> QED
      BY ZenonT(60), <3>1, <2>3, AdvanceJobs
  <2>5. CASE Ssd
    <3>1. call'.jobs = {j \in call.jobs : j.pool # x.pool \/ j.slot # x.slot} \cup {x}
      BY <2>4, <2>5, <1>0, AdvanceJobs
    <3>2. x.pool = WantPool /\ x.slot = s /\ x.key = Want
      BY DEF Out
    <3>3. content' = content
      BY <2>2, <2>5
    <3> HIDE DEF x, c, Want, WantPool
    <3>4. JobsFrom(call'.jobs, call.jobs)
      BY <3>1, <3>2, <2>1 DEF JobsFrom
    <3> QED
      BY <3>3, <3>4, MemoryKept
  <2>6. CASE ~Ssd
    <3>1. call'.jobs \subseteq call.jobs
      BY <2>4, <2>6
    <3>2. content' = Copied(WantPool, s, Want)
      BY <2>2, <2>6
    <3> HIDE DEF x, c, Want, WantPool
    <3> QED
      BY <3>1, <3>2, <2>1, <2>2, MemoryCopied
  <2> QED
    BY <2>5, <2>6
<1>2. CASE Install \/ InstallFails
  <2>1. Want \in Keys /\ WantPool \in Pools
    BY <1>0, <1>2, WantTyped DEF Install, InstallFails, Installing
  <2>2. PICK s \in Slots(WantPool), k \in {Want, NoKey} : content' = Copied(WantPool, s, k)
    BY <1>2 DEF Install, InstallFails
  <2>3. call'.jobs \subseteq call.jobs
    <3>1. CASE Install
      BY <3>1, <1>0, AdvanceJobs DEF Install
    <3>2. CASE InstallFails
      BY <3>2 DEF InstallFails, NoCall, NewCall
    <3> QED
      BY <3>1, <3>2, <1>2
  <2> HIDE DEF Want, WantPool
  <2> QED
    BY <2>1, <2>2, <2>3, MemoryCopied
<1>3. CASE Return \/ FetchFails
  <2>1. \E done \in SUBSET call.jobs : content' = Loaded(done)
    BY <1>3 DEF Return, FetchFails
  <2>2. call'.jobs = {}
    BY <1>3 DEF Return, FetchFails, NoCall, NewCall
  <2> QED
    BY <2>1, <2>2, MemoryLoaded
<1>4. CASE Hit
  <2>1. call' = Advanced(Found(call, Out(Here))) /\ CallOK(Found(call, Out(Here)))
    BY <1>4, <1>0, FoundTyped DEF Hit
  <2>2. call'.jobs = call.jobs
    BY ZenonT(60), <2>1, <1>0, AdvanceJobs
  <2>3. content' = content
    BY <1>4 DEF Hit
  <2>4. JobsFrom(call'.jobs, call.jobs)
    BY <2>2 DEF JobsFrom
  <2> QED
    BY <2>3, <2>4, MemoryKept
<1>5. CASE Skip
  <2>1. call'.jobs = call.jobs /\ content' = content
    BY <1>5, <1>0, AdvanceJobs DEF Skip
  <2>2. JobsFrom(call'.jobs, call.jobs)
    BY <2>1 DEF JobsFrom
  <2> QED
    BY <2>1, <2>2, MemoryKept
<1>6. ASSUME content' = content, call'.jobs = {} \/ call' = call PROVE MemoryTyped'
  <2>1. JobsFrom(call'.jobs, call.jobs)
    BY <1>6 DEF JobsFrom
  <2> QED
    BY <1>6, <2>1, MemoryKept
<1>7. ASSUME NEW l \in Layers, EnsureToken(l) \/ EnsureSlice(l) PROVE MemoryTyped'
  <2>1. PICK ids, on : Ensure(l, ids, on)
    BY <1>7 DEF EnsureToken, EnsureSlice
  <2> QED
    BY <1>6, <2>1 DEF Ensure, NewCall
<1>8. ASSUME NEW l \in Layers, NEW e \in Experts,
             EnsureResident(l, e) \/ \E r \in Range(Roles) : Touch(r, l, e)
      PROVE  MemoryTyped'
  BY <1>6, <1>8 DEF EnsureResident, Touch, NewCall
<1>9. ASSUME NEW order \in Rankings, Rebalance(order) PROVE MemoryTyped'
  BY <1>6, <1>9 DEF Rebalance, NewCall
<1>10. CASE Done
  BY <1>6, <1>10 DEF Done, NoCall, NewCall
<1> QED
  BY <1>1, <1>2, <1>3, <1>4, <1>5, <1>7, <1>8, <1>9, <1>10 DEF CNext

-----------------------------------------------------------------------------
(* Picking the members of S out of a sequence. *)
LEMMA AmongIn ==
    ASSUME NEW K, NEW S, NEW seq \in Seq(K)
    PROVE  Among(seq, S) \in Seq(K \cap S)
<1> DEFINE n == Len(seq)
           X == Seq(K \cap S)
           op(s, k) == IF k \in S THEN Append(s, k) ELSE s
           F == [z \in X \X K |-> op(z[1], z[2])]
           b == <<>>
           it == CHOOSE iter : iter = [s \in SUBSET (1..n) |->
                     IF s = {} THEN b ELSE op(iter[s \ {Max(s)}], seq[Max(s)])]
<1>0. DOMAIN seq = 1..n /\ n \in Nat /\ b \in X
  OBVIOUS
<1>1. Among(seq, S) = it[1..n]
  BY <1>0, Zenon DEF Among, FoldLeft, MapThenFoldSet
<1>2. \A q \in X, k \in K : F[<<q, k>>] = op(q, k)
  OBVIOUS
<1>3. \A q \in X, k \in K : op(q, k) \in X
  OBVIOUS
<1> HIDE DEF F, X, op, b
<1>4. \A q \in X, k \in K : F[<<q, k>>] \in X
  BY <1>2, <1>3
<1>5. PICK g \in [SUBSET (1..n) -> X] : Folded(F, b, seq, g, n)
  BY <1>0, <1>4, FoldExists
<1>6. \A s \in SUBSET (1..n) : s # {} => seq[Max(s)] \in K /\ s \ {Max(s)} \in SUBSET (1..n)
  <2> SUFFICES ASSUME NEW s \in SUBSET (1..n), s # {} PROVE seq[Max(s)] \in K
    OBVIOUS
  <2>1. s \subseteq 0..n
    OBVIOUS
  <2>2. Max(s) \in 1..n
    BY <1>0, <2>1, MaxIs
  <2> QED
    BY <1>0, <2>2
<1>7. \A s \in SUBSET (1..n) : g[s] = IF s = {} THEN b ELSE op(g[s \ {Max(s)}], seq[Max(s)])
  BY <1>2, <1>5, <1>6 DEF Folded
<1>8. g = [s \in SUBSET (1..n) |-> IF s = {} THEN b ELSE op(g[s \ {Max(s)}], seq[Max(s)])]
  BY <1>7
<1>9. it = [s \in SUBSET (1..n) |-> IF s = {} THEN b ELSE op(it[s \ {Max(s)}], seq[Max(s)])]
  BY <1>8, Zenon
<1> HIDE DEF it
<1>10. it[{}] = b
  BY <1>9
<1>11. \A s \in SUBSET (1..n) : s # {} /\ it[s \ {Max(s)}] \in X =>
           it[s] = F[<<it[s \ {Max(s)}], seq[Max(s)]>>]
  <2> SUFFICES ASSUME NEW s \in SUBSET (1..n), s # {}, it[s \ {Max(s)}] \in X
               PROVE  it[s] = F[<<it[s \ {Max(s)}], seq[Max(s)]>>]
    OBVIOUS
  <2>1. it[s] = op(it[s \ {Max(s)}], seq[Max(s)])
    BY <1>9
  <2> QED
    BY <2>1, <1>2, <1>6
<1>12. PICK v \in [0..n -> X] : StepsOf(F, b, seq, v) /\ it[1..n] = v[n]
  <2>1. Unfolds(X, F, b, seq, it)
    BY <1>10, <1>11 DEF Unfolds
  <2> QED
    BY <1>0, <1>4, <2>1, FoldSteps
<1>13. v[n] \in X
  BY <1>0
<1> QED
  BY <1>1, <1>12, <1>13 DEF X

-----------------------------------------------------------------------------
(* What a call keeps to its end. *)
SameCall(c, d) == d.op = c.op /\ d.goal = c.goal /\ d.saved = c.saved

LEMMA CallGoesOn ==
    ASSUME NEW c, CallOK(c)
    PROVE  /\ SameCall(c, Advanced(c)) /\ Advanced(c).out = c.out
           /\ \A x : SameCall(c, Found(c, x)) /\ Found(c, x).out = c.out \cup {x}
                     /\ Found(c, x).todo = c.todo /\ Found(c, x).roles = c.roles
           /\ \A x : SameCall(c, Queued(c, x)) /\ Queued(c, x).out = c.out
                     /\ Queued(c, x).todo = c.todo /\ Queued(c, x).roles = c.roles
<1>0. c = [op |-> c.op, todo |-> c.todo, roles |-> c.roles, jobs |-> c.jobs,
           out |-> c.out, goal |-> c.goal, saved |-> c.saved]
  BY DEF CallOK
<1>1. SameCall(c, Advanced(c)) /\ Advanced(c).out = c.out
  BY <1>0 DEF Advanced, SameCall
<1>2. \A x : SameCall(c, Found(c, x)) /\ Found(c, x).out = c.out \cup {x}
             /\ Found(c, x).todo = c.todo /\ Found(c, x).roles = c.roles
  BY <1>0 DEF Found, SameCall
<1>3. \A x : SameCall(c, Queued(c, x)) /\ Queued(c, x).out = c.out
             /\ Queued(c, x).todo = c.todo /\ Queued(c, x).roles = c.roles
  BY <1>0 DEF Queued, SameCall
<1> QED
  BY <1>1, <1>2, <1>3

(* A hit or a miss: the call d goes on from c with one more slot found. *)
FoundOne(c, d, x) ==
    /\ SameCall(c, d)
    /\ d.out = c.out \cup {x}
    /\ d.todo = IF Tail(c.roles) = <<>> THEN Tail(c.todo) ELSE c.todo
    /\ d.roles = IF Tail(c.roles) = <<>> THEN Roles ELSE Tail(c.roles)

LEMMA AdvancedWhere ==
    ASSUME NEW c, CallOK(c)
    PROVE  /\ Advanced(c).todo = IF Tail(c.roles) = <<>> THEN Tail(c.todo) ELSE c.todo
           /\ Advanced(c).roles = IF Tail(c.roles) = <<>> THEN Roles ELSE Tail(c.roles)
<1>0. c = [op |-> c.op, todo |-> c.todo, roles |-> c.roles, jobs |-> c.jobs,
           out |-> c.out, goal |-> c.goal, saved |-> c.saved]
  BY DEF CallOK
<1>1. CASE Tail(c.roles) = <<>>
  <2>1. Advanced(c) = [op |-> c.op, todo |-> Tail(c.todo), roles |-> Roles, jobs |-> c.jobs,
                       out |-> c.out, goal |-> c.goal, saved |-> c.saved]
    BY <1>0, <1>1 DEF Advanced
  <2> QED
    BY <1>1, <2>1
<1>2. CASE Tail(c.roles) # <<>>
  <2>1. Advanced(c) = [op |-> c.op, todo |-> c.todo, roles |-> Tail(c.roles), jobs |-> c.jobs,
                       out |-> c.out, goal |-> c.goal, saved |-> c.saved]
    BY <1>0, <1>2 DEF Advanced
  <2> QED
    BY <1>2, <2>1
<1> QED
  BY <1>1, <1>2

LEMMA FoundOn ==
    ASSUME NEW c, CallOK(c), NEW x
    PROVE  FoundOne(c, Advanced(Found(c, x)), x)
<1> DEFINE d == Found(c, x)
<1>1. CallOK(d)
  BY FoundTyped
<1>2. SameCall(c, d) /\ d.out = c.out \cup {x} /\ d.todo = c.todo /\ d.roles = c.roles
  BY CallGoesOn, ZenonT(30)
<1> HIDE DEF d
<1> DEFINE e == Advanced(d)
<1>3. SameCall(d, e) /\ e.out = d.out
  BY <1>1, CallGoesOn, ZenonT(30)
<1>4. /\ e.todo = IF Tail(d.roles) = <<>> THEN Tail(d.todo) ELSE d.todo
      /\ e.roles = IF Tail(d.roles) = <<>> THEN Roles ELSE Tail(d.roles)
  BY <1>1, AdvancedWhere, ZenonT(30)
<1> HIDE DEF e
<1> QED
  BY <1>2, <1>3, <1>4 DEF FoundOne, SameCall, d, e

LEMMA HitOn ==
    ASSUME CallOK(call), Hit
    PROVE  FoundOne(call, call', Out(Here))
<1>1. call' = Advanced(Found(call, Out(Here)))
  BY DEF Hit
<1> QED
  BY <1>1, FoundOn

LEMMA MissOn ==
    ASSUME CallOK(call), NEW s,
           call' = Advanced(Found(IF Ssd THEN Queued(call, Out(s)) ELSE call, Out(s)))
    PROVE  FoundOne(call, call', Out(s))
<1> DEFINE c == IF Ssd THEN Queued(call, Out(s)) ELSE call
           x == Out(s)
<1>1. CallOK(c)
  BY QueuedTyped
<1>2. SameCall(call, c) /\ c.out = call.out /\ c.todo = call.todo /\ c.roles = call.roles
  <2>1. CASE Ssd
    BY <2>1, CallGoesOn, ZenonT(30)
  <2>2. CASE ~Ssd
    BY <2>2 DEF SameCall
  <2> QED
    BY <2>1, <2>2
<1>3. call' = Advanced(Found(c, x))
  OBVIOUS
<1> HIDE DEF c, x
<1>4. FoundOne(c, call', x)
  BY <1>1, <1>3, FoundOn
<1>5. FoundOne(call, call', x)
  BY <1>2, <1>4 DEF FoundOne, SameCall
<1> QED
  BY <1>5 DEF x

-----------------------------------------------------------------------------
FlagsTyped ==
    /\ quota_on \in BOOLEAN /\ call.saved \in BOOLEAN /\ counted \subseteq Keys
    /\ call.op \in {"none", "ensure", "install", "prefetch", "rebalance"}

LEMMA StepFlags ==
    ASSUME CInd, FlagsTyped, CNext
    PROVE  FlagsTyped'
<1>0. CallOK(call)
  BY DEF CInd
<1>1. CASE Hit \/ Miss
  <2>1. \E x : FoundOne(call, call', x)
    <3>1. CASE Hit
      BY <1>0, <3>1, HitOn
    <3>2. CASE Miss
      BY <1>0, <3>2, MissOn DEF Miss
    <3> QED
      BY <1>1, <3>1, <3>2
  <2>2. call'.op = call.op /\ call'.saved = call.saved
    BY <2>1 DEF FoundOne, SameCall
  <2>3. counted' = counted \cup {Want} /\ quota_on' = quota_on /\ call.todo # <<>>
    BY <1>1 DEF Hit, Miss
  <2>4. Want \in Keys
    BY <1>0, <2>3, WantTyped
  <2> QED
    BY <2>2, <2>3, <2>4 DEF FlagsTyped
<1>2. CASE Skip \/ Install
  <2>1. call' = Advanced(call) /\ counted' = counted /\ quota_on' = quota_on
    BY <1>2 DEF Skip, Install
  <2>2. SameCall(call, call')
    BY <1>0, <2>1, CallGoesOn
  <2> QED
    BY <2>1, <2>2 DEF FlagsTyped, SameCall
<1>3. CASE Return \/ FetchFails \/ InstallFails \/ Done
  <2>1. call' = NoCall /\ counted' = counted /\ quota_on' \in {quota_on, call.saved}
    BY <1>3 DEF Return, FetchFails, InstallFails, Done
  <2>2. NoCall.op = "none" /\ NoCall.saved = FALSE
    BY DEF NoCall, NewCall
  <2> QED
    BY <2>1, <2>2 DEF FlagsTyped
<1>4. ASSUME NEW l \in Layers, EnsureToken(l) \/ EnsureSlice(l) PROVE FlagsTyped'
  <2>1. \E ids : \E on \in BOOLEAN : Ensure(l, ids, on)
    <3>1. CASE EnsureToken(l)
      BY <3>1 DEF EnsureToken, FlagsTyped
    <3>2. CASE EnsureSlice(l)
      BY <3>2 DEF EnsureSlice
    <3> QED
      BY <1>4, <3>1, <3>2
  <2>2. PICK ids, on : on \in BOOLEAN /\ Ensure(l, ids, on)
    BY <2>1
  <2> QED
    BY <2>2 DEF Ensure, NewCall, FlagsTyped
<1>5. ASSUME NEW l \in Layers, NEW e \in Experts, EnsureResident(l, e) PROVE FlagsTyped'
  BY <1>5 DEF EnsureResident, NewCall, FlagsTyped
<1>6. ASSUME NEW l \in Layers, NEW e \in Experts, NEW r \in Range(Roles), Touch(r, l, e) PROVE FlagsTyped'
  BY <1>6 DEF Touch, FlagsTyped, Keys
<1>7. ASSUME NEW order \in Rankings, Rebalance(order) PROVE FlagsTyped'
  BY <1>7 DEF Rebalance, NewCall, FlagsTyped
<1> QED
  BY <1>1, <1>2, <1>3, <1>4, <1>5, <1>6, <1>7 DEF CNext

-----------------------------------------------------------------------------
(* The quotas in force: -1 for every layer until the first rebalance(),    *)
(* and what compute_quota gave since then.                                 *)
QuotaInd ==
    /\ quota \in [Layers -> -1 .. Cardinality(Experts)]
    /\ \A p \in Pools : Total(Share(quota, p)) <= NSlots[p]
    /\ \A p \in Pools, l \in Layers : Serves(p, l) => quota[l] <= NSlots[p]
    /\ Roomy => (\A l \in Layers : quota[l] = -1) \/ (\A l \in Layers : NUsed <= quota[l])

LEMMA StepQuota ==
    ASSUME QuotaInd, CNext
    PROVE  QuotaInd'
<1>1. CASE quota' = quota
  BY <1>1 DEF QuotaInd, Roomy, Share, Serves, Total
<1>2. ASSUME NEW order \in Rankings, Rebalance(order) PROVE QuotaInd'
  <2> DEFINE ents == Among(order, counted)
             q == compute_quota(ents)
  <2>1. order \in Seq(Keys)
    BY ExpertCacheAssumption DEF Keys
  <2>2. ents \in Seq(Keys)
    <3>1. ents \in Seq(Keys \cap counted)
      BY <2>1, AmongIn
    <3> HIDE DEF ents
    <3> QED
      BY <3>1
  <2>3. quota' = q
    BY <1>2, Zenon DEF Rebalance
  <2> HIDE DEF ents
  <2>4. /\ q \in [Layers -> 0 .. Cardinality(Experts)]
        /\ \A p \in Pools : Total(Share(q, p)) <= NSlots[p]
        /\ \A p \in Pools, l \in Layers : Serves(p, l) => q[l] <= NSlots[p]
        /\ Roomy => \A l \in Layers : NUsed <= q[l]
    BY <2>2, QuotaComputed
  <2> HIDE DEF q
  <2>5. q \in [Layers -> -1 .. Cardinality(Experts)]
    <3>1. \A l \in Layers : q[l] \in -1 .. Cardinality(Experts)
      BY <2>4, ExpertCacheAssumption, FS_CardinalityType
    <3> QED
      BY <2>4, <3>1
  <2> QED
    BY <2>3, <2>4, <2>5 DEF QuotaInd, Roomy, Share, Serves, Total
<1>3. ASSUME NEW l \in Layers, EnsureToken(l) \/ EnsureSlice(l) PROVE quota' = quota
  BY <1>3 DEF EnsureToken, EnsureSlice, Ensure
<1>4. ASSUME NEW l \in Layers, NEW e \in Experts,
             EnsureResident(l, e) \/ \E r \in Range(Roles) : Touch(r, l, e)
      PROVE  quota' = quota
  BY <1>4 DEF EnsureResident, Touch
<1>5. Hit \/ Miss \/ Return \/ FetchFails \/ Skip \/ Install \/ InstallFails \/ Done => quota' = quota
  BY DEF Hit, Miss, Return, FetchFails, Skip, Install, InstallFails, Done
<1> QED
  BY <1>1, <1>2, <1>3, <1>4, <1>5 DEF CNext

LEMMA InitQuota == CInit => QuotaInd
<1> SUFFICES ASSUME CInit PROVE QuotaInd
  OBVIOUS
<1> DEFINE none == -1
<1>0. Cardinality(Experts) \in Nat /\ \A p \in Pools : NSlots[p] \in Nat
  BY ExpertCacheAssumption, FS_CardinalityType, SlotsFinite
<1>1. quota = [l \in Layers |-> -1]
  BY DEF CInit
<1>2. quota \in [Layers -> -1 .. Cardinality(Experts)] /\ quota \in [Layers -> Int]
  BY <1>0, <1>1
<1>3. ASSUME NEW p \in Pools PROVE Total(Share(quota, p)) <= NSlots[p]
  <2>1. Share(quota, p) \in [Layers -> Int] /\ \A l \in Layers : Share(quota, p)[l] <= 0
    BY <1>1 DEF Share
  <2>2. Total(Share(quota, p)) \in Int /\ Total(Share(quota, p)) <= 0
    BY <2>1, TotalTyped, TotalBelow
  <2> QED
    BY <1>0, <2>2
<1>4. \A l \in Layers : quota[l] = -1
  BY <1>1
<1>5. \A p \in Pools, l \in Layers : quota[l] <= NSlots[p]
  BY <1>0, <1>4
<1> QED
  BY <1>2, <1>3, <1>4, <1>5 DEF QuotaInd

-----------------------------------------------------------------------------
(* The invariant of the whole cache's types. *)
TypeInd == Ranked /\ MemoryTyped /\ FlagsTyped /\ QuotaInd

LEMMA InitTypes == CInit => TypeInd
<1> SUFFICES ASSUME CInit PROVE TypeInd
  OBVIOUS
<1>1. Ranked
  BY DEF CInit, Ranked, Injection, IsInjective
<1>2. call.jobs = {} /\ call.saved = FALSE /\ call.op \in {"none", "prefetch"}
  BY DEF CInit, NoCall, NewCall
<1>3. MemoryTyped
  BY <1>2 DEF CInit, MemoryTyped
<1>4. FlagsTyped
  BY <1>2 DEF CInit, FlagsTyped
<1> QED
  BY <1>1, <1>3, <1>4, InitQuota DEF TypeInd

LEMMA TypesKept ==
    ASSUME TypeInd, UNCHANGED cvars
    PROVE  TypeInd'
<1>1. /\ rank' = rank /\ content' = content /\ counted' = counted /\ quota' = quota
      /\ quota_on' = quota_on /\ call' = call
  BY DEF cvars
<1>2. Ranked'
  BY <1>1 DEF TypeInd, Ranked, Slots
<1>3. MemoryTyped'
  BY <1>1 DEF TypeInd, MemoryTyped, Slots
<1>4. FlagsTyped'
  BY <1>1 DEF TypeInd, FlagsTyped
<1>5. QuotaInd'
  BY <1>1 DEF TypeInd, QuotaInd, Roomy, Share, Serves, Total
<1> QED
  BY <1>2, <1>3, <1>4, <1>5 DEF TypeInd

LEMMA TypesInductive == CSpec => []TypeInd
<1>1. CInd /\ TypeInd /\ [CNext]_cvars => TypeInd'
  <2> SUFFICES ASSUME CInd, TypeInd, [CNext]_cvars PROVE TypeInd'
    OBVIOUS
  <2>1. CASE CNext
    BY <2>1, StepRank, StepMemory, StepFlags, StepQuota DEF TypeInd
  <2>2. CASE UNCHANGED cvars
    BY <2>2, TypesKept
  <2> QED
    BY <2>1, <2>2
<1> QED
  BY <1>1, InitTypes, Inductive, PTL DEF CSpec

LEMMA TypesFollow == CInd /\ TypeInd => CTypeOK
<1> SUFFICES ASSUME CInd, TypeInd PROVE CTypeOK
  OBVIOUS
<1>1. key2slot \in [Pools -> [Keys -> Nat]]
  BY DEF CInd, MapsTyped
<1>2. ASSUME NEW p \in Pools
      PROVE  /\ slot2key[p] \in [Slots(p) -> Keys \cup {NoKey}]
             /\ occ[p] \in [Layers -> Nat]
             /\ rank[p] \in Injection(Slots(p), Slots(p))
             /\ content[p] \in [Slots(p) -> Keys \cup {NoKey}]
  <2>1. slot2key[p] \in [Slots(p) -> Keys \cup {NoKey}] /\ occ[p] \in [Layers -> Int]
    BY DEF CInd, MapsTyped
  <2>2. ASSUME NEW l \in Layers PROVE occ[p][l] \in Nat
    <3>1. HeldBy(slot2key[p], l) \in SUBSET Slots(p)
      BY <2>1 DEF HeldBy
    <3>2. IsFiniteSet(HeldBy(slot2key[p], l))
      BY <3>1, SlotsFinite, FS_Subset
    <3>3. Cardinality(HeldBy(slot2key[p], l)) \in Nat
      BY <3>2, FS_CardinalityType
    <3> QED
      BY <3>3 DEF CInd, OccExact
  <2>3. occ[p] \in [Layers -> Nat]
    BY <2>1, <2>2
  <2> QED
    BY <2>1, <2>3 DEF TypeInd, Ranked, MemoryTyped
<1>3. quota \in [Layers -> -1 .. Cardinality(Experts)] /\ quota_on \in BOOLEAN
  BY DEF TypeInd, QuotaInd, FlagsTyped
<1>4. call.op \in {"none", "ensure", "install", "prefetch", "rebalance"}
  BY DEF TypeInd, FlagsTyped
<1> QED
  BY <1>1, <1>2, <1>3, <1>4 DEF CTypeOK

(* The expert cache keeps its types: the stamps of a pool's slots stay all *)
(* different, so that the least recently used slot is unique, and no       *)
(* layer's count or quota leaves its range, through failed reads too.      *)
THEOREM CacheTypeCorrect == CSpec => []CTypeOK
BY Inductive, TypesInductive, TypesFollow, PTL

(* compute_quota never promises more slots than a pool has: the quotas of  *)
(* the layers a pool serves add up to at most its size, for any routing of *)
(* layers to pools and any ranking.                                        *)
THEOREM QuotasFitPools == CSpec => []QuotaFits
<1>1. TypeInd => QuotaFits
  <2> SUFFICES ASSUME TypeInd, NEW p \in Pools
               PROVE  LET held(l) == IF \E r \in Range(Roles) : PoolOf[r][l] = p THEN quota[l] ELSE 0
                      IN  MapThenSumSet(held, Layers) <= NSlots[p]
    BY DEF QuotaFits
  <2> DEFINE held(l) == IF \E r \in Range(Roles) : PoolOf[r][l] = p THEN quota[l] ELSE 0
  <2>1. quota \in [Layers -> Int] /\ Total(Share(quota, p)) <= NSlots[p]
    BY DEF TypeInd, QuotaInd
  <2>2. MapThenSumSet(held, Layers) = Total(Share(quota, p))
    BY <2>1, HeldTotal
  <2> QED
    BY <2>1, <2>2
<1> QED
  BY <1>1, TypesInductive, PTL

-----------------------------------------------------------------------------
(* The keys an ensure() was asked for: found ones and those still to do.   *)
Asked(c) == {x.key : x \in c.out} \cup Range(c.todo)

(* They are experts of layer l, no more than the quota in force and than   *)
(* any of the layer's pools has slots.                                     *)
FitsLayer(keys, l) ==
    /\ l \in Layers /\ IsFiniteSet(keys)
    /\ \A k \in keys : k \in Keys /\ k[1] = l
    /\ quota_on /\ quota[l] >= 0 => Cardinality(keys) <= quota[l]
    /\ \A r \in Range(Roles) : Cardinality(keys) <= NSlots[PoolOf[r][l]]

(* The slots found are still those of their keys, ... *)
OutHeld ==
    \A x \in call.out :
        x.pool \in Pools /\ x.slot \in Slots(x.pool) /\ x.key \in Keys
        /\ key2slot[x.pool][x.key] = x.slot

(* ... and the most recently used ones of their pools. *)
Own(p) == {x.slot : x \in {y \in call.out : y.pool = p}}

Recent == \A p \in Pools : \A u \in Slots(p) \ Own(p), s \in Own(p) : rank[p][u] < rank[p][s]

Using == call.op = "ensure" => (\E l \in Layers : FitsLayer(Asked(call), l)) /\ OutHeld /\ Recent

-----------------------------------------------------------------------------
(* Starting: what one ensure() is asked for fits. *)
LEMMA RoomyPools ==
    ASSUME Roomy, NEW l \in Layers, NEW r \in Range(Roles)
    PROVE  NUsed <= NSlots[PoolOf[r][l]] /\ NSlots[PoolOf[r][l]] \in Nat
<1> DEFINE p == PoolOf[r][l]
           c == Cardinality(ServedBy(p))
<1>1. p \in Pools /\ NUsed \in Nat
  BY RolesThere, ExpertCacheAssumption
<1>2. ServedBy(p) \in SUBSET Layers /\ l \in ServedBy(p)
  BY DEF ServedBy, Serves
<1> HIDE DEF p
<1>3. IsFiniteSet(ServedBy(p))
  BY <1>2, LayersFinite, FS_Subset
<1>4. c \in Nat /\ c # 0
  BY <1>2, <1>3, FS_CardinalityType, FS_EmptySet
<1>5. NUsed * c <= NSlots[p] /\ NSlots[p] \in Nat
  BY <1>1, SlotsFinite DEF Roomy
<1> HIDE DEF c
<1>6. c - 1 \in Nat /\ NUsed * (c - 1) \in Nat /\ NUsed * c = NUsed * (c - 1) + NUsed
  BY <1>1, <1>4
<1>7. NUsed <= NSlots[p]
  BY <1>1, <1>5, <1>6
<1> QED
  BY <1>5, <1>7 DEF p

LEMMA PoolSizeIs ==
    ASSUME NEW l \in Layers
    PROVE  PoolSize(l) \in Nat /\ \A r \in Range(Roles) : PoolSize(l) <= NSlots[PoolOf[r][l]]
<1> DEFINE T == {NSlots[PoolOf[r][l]] : r \in Range(Roles)}
<1>1. T \subseteq Nat /\ T # {}
  BY RolesThere, SlotsFinite
<1>2. PoolSize(l) = Min(T) /\ \A r \in Range(Roles) : NSlots[PoolOf[r][l]] \in T
  BY DEF PoolSize
<1> HIDE DEF T
<1>3. Min(T) \in T /\ \A y \in T : Min(T) <= y
  BY <1>1, MinIs
<1> QED
  BY <1>1, <1>2, <1>3

(* n experts of layer l with quotas on or off. *)
Allowed(l, n, on) ==
    /\ on /\ quota[l] >= 0 => n <= quota[l]
    /\ \A r \in Range(Roles) : n <= NSlots[PoolOf[r][l]]

LEMMA TokenAllowed ==
    ASSUME Roomy, QuotaInd, NEW l \in Layers, NEW n \in Nat, n <= NUsed, NEW on
    PROVE  Allowed(l, n, on)
<1>0. NUsed \in Nat /\ NUsed >= 1
  BY ExpertCacheAssumption
<1>1. quota[l] \in Int /\ (quota[l] = -1 \/ NUsed <= quota[l])
  BY DEF QuotaInd
<1>2. quota[l] >= 0 => n <= quota[l]
  BY <1>0, <1>1
<1>3. ASSUME NEW r \in Range(Roles) PROVE n <= NSlots[PoolOf[r][l]]
  <2>1. NUsed <= NSlots[PoolOf[r][l]] /\ NSlots[PoolOf[r][l]] \in Nat
    BY RoomyPools
  <2> QED
    BY <1>0, <2>1
<1> QED
  BY <1>2, <1>3 DEF Allowed

LEMMA SliceAllowed ==
    ASSUME Roomy, QuotaInd, NEW l \in Layers, NEW n \in Nat, NEW on \in BOOLEAN,
           n <= Max({NUsed, capacity(l, on) - Margin})
    PROVE  Allowed(l, n, on)
<1> DEFINE c == capacity(l, on)
<1>0. NUsed \in Nat /\ NUsed >= 1 /\ Margin \in Nat
  BY ExpertCacheAssumption
<1>1. quota[l] \in Int /\ (quota[l] = -1 \/ NUsed <= quota[l])
  BY DEF QuotaInd
<1>2. c = IF on /\ quota[l] >= 0 THEN quota[l] ELSE PoolSize(l)
  <2>1. CASE on /\ quota[l] >= 0
    <3>1. c = Max({quota[l], NUsed})
      BY <2>1 DEF capacity
    <3>2. quota[l] >= NUsed
      BY <1>0, <1>1, <2>1
    <3> QED
      BY <3>1, <3>2, <2>1, <1>0, <1>1, MaxOfTwo
  <2>2. CASE ~(on /\ quota[l] >= 0)
    BY <2>2 DEF capacity
  <2> QED
    BY <2>1, <2>2
<1>3. c \in Int
  BY <1>1, <1>2, PoolSizeIs
<1> HIDE DEF c
<1>4. n <= NUsed \/ n <= c
  <2>1. Max({NUsed, c - Margin}) = IF NUsed >= c - Margin THEN NUsed ELSE c - Margin
    BY <1>0, <1>3, MaxOfTwo
  <2>2. n <= Max({NUsed, c - Margin})
    BY DEF c
  <2> QED
    BY <2>1, <2>2, <1>0, <1>3
<1>5. CASE n <= NUsed
  BY <1>5, TokenAllowed
<1>6. CASE n <= c
  <2>1. on /\ quota[l] >= 0 => n <= quota[l]
    BY <1>2, <1>6
  <2>2. ASSUME NEW r \in Range(Roles) PROVE n <= NSlots[PoolOf[r][l]]
    <3> DEFINE p == PoolOf[r][l]
    <3>1. p \in Pools /\ Serves(p, l) /\ NSlots[p] \in Nat
      BY RolesThere, SlotsFinite DEF Serves
    <3>2. quota[l] <= NSlots[p]
      BY <3>1 DEF QuotaInd
    <3>3. PoolSize(l) \in Nat /\ PoolSize(l) <= NSlots[p]
      BY PoolSizeIs
    <3> HIDE DEF p
    <3>4. n <= NSlots[p]
      BY <1>1, <1>2, <1>3, <1>6, <3>1, <3>2, <3>3
    <3> QED
      BY <3>4 DEF p
  <2> QED
    BY <2>1, <2>2 DEF Allowed
<1> QED
  BY <1>4, <1>5, <1>6

LEMMA EnsureUsing ==
    ASSUME QuotaInd, NEW l \in Layers, NEW n \in Nat, NEW ids \in Selections(n), NEW on,
           Ensure(l, ids, on), Allowed(l, n, on)
    PROVE  Using'
<1> DEFINE keys == [i \in DOMAIN ids |-> <<l, ids[i]>>]
<1>1. ids \in [1..n -> Experts]
  BY DEF Selections
<1>2. keys \in [1..n -> Keys] /\ \A i \in 1..n : keys[i][1] = l
  BY <1>1 DEF Keys
<1>3. call' = NewCall("ensure", keys, {}, quota_on) /\ quota_on' = on /\ quota' = quota
  BY DEF Ensure
<1> HIDE DEF keys
<1>4. call'.out = {} /\ call'.todo = keys
  BY <1>3 DEF NewCall
<1>5. Asked(call') = Range(keys)
  BY <1>4 DEF Asked
<1>6. \A k \in Range(keys) : k \in Keys /\ k[1] = l
  BY <1>2 DEF Range
<1>7. IsFiniteSet(Range(keys)) /\ Cardinality(Range(keys)) <= n
  <2>1. keys \in Surjection(1..n, Range(keys))
    BY <1>2 DEF Surjection, Range
  <2>2. IsFiniteSet(1..n) /\ Cardinality(1..n) = n
    BY FS_Interval
  <2> QED
    BY <2>1, <2>2, FS_Surjection
<1>8. Cardinality(Range(keys)) \in Nat
  BY <1>7, FS_CardinalityType
<1> DEFINE A == Range(keys)
           c == Cardinality(A)
<1>9. (quota_on' /\ quota'[l] >= 0) => c <= quota'[l]
  <2>1. (on /\ quota[l] >= 0) => n <= quota[l]
    BY DEF Allowed
  <2>2. c \in Nat /\ c <= n
    BY <1>7, <1>8
  <2> HIDE DEF c
  <2>3. ASSUME on, quota[l] >= 0 PROVE c <= quota[l]
    <3>1. n <= quota[l]
      BY <2>1, <2>3
    <3>2. quota[l] \in Int
      BY DEF QuotaInd
    <3> QED
      BY <2>2, <3>1, <3>2
  <2> QED
    BY <1>3, <2>3
<1>10. \A r \in Range(Roles) : c <= NSlots[PoolOf[r][l]]
  <2> SUFFICES ASSUME NEW r \in Range(Roles) PROVE c <= NSlots[PoolOf[r][l]]
    OBVIOUS
  <2>1. n <= NSlots[PoolOf[r][l]] /\ NSlots[PoolOf[r][l]] \in Nat
    BY RolesThere, SlotsFinite DEF Allowed
  <2>2. c \in Nat /\ c <= n
    BY <1>7, <1>8
  <2> HIDE DEF c
  <2> QED
    BY <2>1, <2>2
<1>11. \E m \in Layers : FitsLayer(Asked(call), m)'
  <2>1. FitsLayer(Asked(call), l)'
    BY <1>5, <1>6, <1>7, <1>9, <1>10 DEF FitsLayer
  <2> QED
    BY <2>1
<1>12. OutHeld' /\ Recent'
  BY <1>4 DEF OutHeld, Recent, Own
<1> QED
  BY <1>11, <1>12 DEF Using

(* A hit or a miss does not change what was asked for. *)
LEMMA AskedSame ==
    ASSUME NEW c, CallOK(c), c.todo # <<>>, NEW d, NEW x, FoundOne(c, d, x), x.key = Head(c.todo)
    PROVE  Asked(d) = Asked(c)
<1>1. c.todo \in Seq(Keys)
  BY DEF CallOK
<1>2. Range(c.todo) = {Head(c.todo)} \cup Range(Tail(c.todo))
  <2> DEFINE s == c.todo
  <2>1. s \in Seq(Keys) /\ s # <<>>
    BY <1>1
  <2> HIDE DEF s
  <2>2. Len(s) \in Nat /\ Len(s) >= 1 /\ Tail(s) \in Seq(Keys) /\ Len(Tail(s)) = Len(s) - 1
    BY <2>1
  <2>3. \A i \in 1..Len(Tail(s)) : Tail(s)[i] = s[i + 1]
    BY <2>1
  <2>4. Range(s) = {s[i] : i \in 1..Len(s)} /\ Range(Tail(s)) = {Tail(s)[i] : i \in 1..Len(Tail(s))}
    <3> DEFINE u == Tail(s)
    <3>1. s \in Seq(Keys) /\ u \in Seq(Keys)
      BY <2>1, <2>2
    <3> HIDE DEF u
    <3>2. DOMAIN s = 1..Len(s) /\ DOMAIN u = 1..Len(u)
      BY <3>1
    <3>3. Range(s) = {s[i] : i \in 1..Len(s)} /\ Range(u) = {u[i] : i \in 1..Len(u)}
      BY <3>2 DEF Range
    <3> QED
      BY <3>3 DEF u
  <2>5. \A i \in 1..Len(s) : i = 1 \/ i - 1 \in 1..Len(Tail(s))
    BY <2>2
  <2>6. \A i \in 1..Len(s) : s[i] \in {s[1]} \cup Range(Tail(s))
    <3> SUFFICES ASSUME NEW i \in 1..Len(s), i # 1 PROVE s[i] \in Range(Tail(s))
      OBVIOUS
    <3>1. i - 1 \in 1..Len(Tail(s)) /\ (i - 1) + 1 = i
      BY <2>5
    <3>2. Tail(s)[i - 1] = s[i]
      BY <2>3, <3>1
    <3> QED
      BY <2>4, <3>1, <3>2
  <2>7. \A i \in 1..Len(Tail(s)) : i + 1 \in 1..Len(s)
    BY <2>2
  <2>8. Head(s) = s[1] /\ 1 \in 1..Len(s)
    BY <2>1, <2>2
  <2>9. Range(s) = {Head(s)} \cup Range(Tail(s))
    BY <2>3, <2>4, <2>6, <2>7, <2>8
  <2> QED
    BY <2>9 DEF s
<1>3. {y.key : y \in d.out} = {y.key : y \in c.out} \cup {x.key}
  BY DEF FoundOne
<1>4. d.todo = c.todo \/ d.todo = Tail(c.todo)
  BY DEF FoundOne
<1> QED
  BY <1>2, <1>3, <1>4 DEF Asked

(* The keys of the slots found so far are fewer than those asked for while *)
(* the one wanted is absent.                                               *)
LEMMA OwnFew ==
    ASSUME CInd, OutHeld, call.todo # <<>>, Here = 0, IsFiniteSet(Asked(call))
    PROVE  /\ IsFiniteSet(Own(WantPool))
           /\ Cardinality(Own(WantPool)) < Cardinality(Asked(call))
           /\ \A s \in Own(WantPool) : s \in Slots(WantPool) /\ slot2key[WantPool][s] \in Asked(call)
<1> DEFINE p == WantPool
           K == Asked(call)
           w == Want
           f == [s \in Own(p) |-> slot2key[p][s]]
<1>1. p \in Pools /\ w \in Keys /\ key2slot[p][w] = 0 /\ w \in K
  <2>1. p \in Pools /\ w \in Keys
    BY WantTyped DEF CInd
  <2>2. Head(call.todo) \in Range(call.todo)
    BY DEF CInd, CallOK, Range
  <2> QED
    BY <2>1, <2>2 DEF Here, Asked, Want
<1> HIDE DEF p, w
<1>2. ASSUME NEW s \in Own(p)
      PROVE  s \in Slots(p) /\ slot2key[p][s] \in K \ {w} /\ key2slot[p][slot2key[p][s]] = s
  <2>1. PICK x \in call.out : x.pool = p /\ x.slot = s
    BY DEF Own
  <2>2. s \in Slots(p) /\ x.key \in Keys /\ key2slot[p][x.key] = s
    BY <2>1 DEF OutHeld
  <2>3. s # 0
    BY <1>1, <2>2, SlotsFinite DEF Slots
  <2>4. slot2key[p][s] = x.key
    BY <1>1, <2>2, <2>3 DEF CInd, MapsAgree
  <2>5. x.key \in K /\ x.key # w
    BY <1>1, <2>1, <2>2, <2>3 DEF Asked
  <2> QED
    BY <2>2, <2>4, <2>5
<1> HIDE DEF K
<1>3. f \in Injection(Own(p), K \ {w})
  BY <1>2 DEF Injection, IsInjective
<1>4. IsFiniteSet(K \ {w}) /\ Cardinality(K \ {w}) = Cardinality(K) - 1
  BY <1>1, FS_RemoveElement DEF K
<1>5. IsFiniteSet(Own(p)) /\ Cardinality(Own(p)) <= Cardinality(K \ {w})
  BY <1>3, <1>4, FS_Injection
<1>6. Cardinality(K) \in Nat /\ Cardinality(Own(p)) \in Nat
  BY <1>5, FS_CardinalityType DEF K
<1>7. Cardinality(Own(p)) < Cardinality(K)
  BY <1>4, <1>5, <1>6
<1> QED
  BY <1>2, <1>5, <1>7 DEF p, K

(* The heart of it: an ensure() never takes back a slot it has given.      *)
LEMMA VictimNotOwn ==
    ASSUME CInd, Ranked, QuotaInd, Roomy, call.op = "ensure", Using,
           call.todo # <<>>, Here = 0, NEW v, pick_victim(WantPool, Want[1], v)
    PROVE  v \notin Own(WantPool)
<1> DEFINE p == WantPool
           l == Want[1]
           K == Asked(call)
           n == Cardinality(K)
<1>0. OutHeld /\ Recent /\ \E m \in Layers : FitsLayer(K, m)
  BY DEF Using
<1>1. p \in Pools /\ Want \in Keys /\ Want \in K
  <2>1. p \in Pools /\ Want \in Keys
    BY WantTyped DEF CInd
  <2>2. Head(call.todo) \in Range(call.todo)
    BY DEF CInd, CallOK, Range
  <2> QED
    BY <2>1, <2>2 DEF Asked, Want
<1>2. FitsLayer(K, l)
  <2>1. PICK m \in Layers : FitsLayer(K, m)
    BY <1>0
  <2>2. m = l
    BY <1>1, <2>1 DEF FitsLayer
  <2> QED
    BY <2>1, <2>2
<1>3. l \in Layers /\ IsFiniteSet(K) /\ n \in Nat
  BY <1>2, FS_CardinalityType DEF FitsLayer
<1>4. n <= NSlots[p] /\ NSlots[p] \in Nat
  <2>1. Head(call.roles) \in Range(Roles) /\ p = PoolOf[Head(call.roles)][l]
    BY DEF CInd, CallOK, WantPool
  <2> QED
    BY <1>1, <1>2, <2>1, SlotsFinite DEF FitsLayer
<1>5. /\ IsFiniteSet(Own(p)) /\ Cardinality(Own(p)) < n
      /\ \A s \in Own(p) : s \in Slots(p) /\ slot2key[p][s] \in K
  BY <1>0, <1>3, OwnFew
<1>6. Cardinality(Own(p)) \in Nat
  BY <1>5, FS_CardinalityType
<1>7. pick_victim(p, l, v)
  OBVIOUS
<1>8. \A s \in Own(p) : slot2key[p][s] \in Keys /\ slot2key[p][s][1] = l /\ slot2key[p][s] # NoKey
  BY <1>2, <1>5, NoKeyApart DEF FitsLayer
<1>q. /\ quota \in [Layers -> Int]
      /\ (\A m \in Layers : quota[m] = -1) \/ (\A m \in Layers : NUsed <= quota[m])
      /\ NUsed \in Nat /\ NUsed >= 1
  BY ExpertCacheAssumption DEF QuotaInd
<1>o. /\ DOMAIN slot2key[p] = Slots(p) /\ \A s \in Slots(p) : slot2key[p][s] \in Keys \cup {NoKey}
      /\ \A m \in Layers : occ[p][m] \in Int /\ occ[p][m] = Cardinality(HeldBy(slot2key[p], m))
  BY <1>1 DEF CInd, MapsTyped, OccExact
<1>f. IsFiniteSet(Slots(p)) /\ Cardinality(Slots(p)) = NSlots[p]
  BY <1>4, FS_Interval DEF Slots
<1>fits. quota_on /\ quota[l] >= 0 => n <= quota[l]
  BY <1>2 DEF FitsLayer
<1> HIDE DEF p, l, K, n
<1> SUFFICES ASSUME v \in Own(p) PROVE FALSE
  BY DEF p
<1>9. Free(p) = {}
  <2> SUFFICES ASSUME Free(p) # {} PROVE FALSE
    OBVIOUS
  <2>1. v = Min(Free(p))
    BY <1>7 DEF pick_victim
  <2>2. Free(p) \subseteq Nat
    BY <1>4 DEF Free, Slots
  <2>3. v \in Free(p)
    BY <2>1, <2>2, MinIs
  <2> QED
    BY <2>3, <1>8 DEF Free
<1>10. ASSUME NEW S \in SUBSET Slots(p), Lru(p, S, v)
       PROVE  Cardinality(S) \in Nat /\ Cardinality(S) < n
  <2>1. \A u \in S : u \in Own(p)
    <3> SUFFICES ASSUME NEW u \in S, u \notin Own(p) PROVE FALSE
      OBVIOUS
    <3>1. rank[p][v] <= rank[p][u]
      BY <1>10 DEF Lru
    <3>2. rank[p][u] < rank[p][v]
      BY <1>0, <1>1 DEF Recent, p
    <3>3. rank[p] \in [Slots(p) -> Slots(p)] /\ u \in Slots(p) /\ v \in Slots(p)
      BY <1>1, <1>5 DEF Ranked, Injection
    <3>4. rank[p][u] \in Nat /\ rank[p][v] \in Nat
      BY <3>3, <1>4 DEF Slots
    <3> QED
      BY <3>1, <3>2, <3>4
  <2>2. S \in SUBSET Own(p)
    BY <2>1
  <2>3. IsFiniteSet(S) /\ Cardinality(S) <= Cardinality(Own(p))
    BY <2>2, <1>5, FS_Subset
  <2>4. Cardinality(S) \in Nat
    BY <2>3, FS_CardinalityType
  <2> QED
    BY <2>3, <2>4, <1>3, <1>5, <1>6
<1>11. ASSUME Lru(p, Slots(p), v) PROVE FALSE
  <2>1. Cardinality(Slots(p)) < n
    BY <1>10, <1>11
  <2> QED
    BY <2>1, <1>3, <1>4, <1>f
<1>12. Eligible(p, l) # {} /\ Lru(p, Eligible(p, l), v)
  BY <1>7, <1>9, <1>11 DEF pick_victim
<1>13. v \in Eligible(p, l) /\ Eligible(p, l) \in SUBSET Slots(p)
  BY <1>12 DEF Lru, Eligible
<1>14. Eligible(p, l) # Slots(p)
  BY <1>11, <1>12
<1>15. quota_on
  BY <1>14 DEF Eligible
<1>16. CASE quota[l] >= 0 /\ occ[p][l] >= quota[l]
  <2>1. Eligible(p, l) = HeldBy(slot2key[p], l)
    BY <1>15, <1>16, <1>o DEF Eligible, HeldBy
  <2>2. Cardinality(Eligible(p, l)) < n
    BY <1>10, <1>12, <1>13
  <2>3. Cardinality(Eligible(p, l)) = occ[p][l] /\ occ[p][l] \in Int
    BY <2>1, <1>3, <1>o
  <2>4. n <= quota[l] /\ quota[l] \in Int
    BY <1>15, <1>16, <1>fits, <1>q, <1>3
  <2> QED
    BY <2>2, <2>3, <2>4, <1>16, <1>3
<1>17. CASE ~(quota[l] >= 0 /\ occ[p][l] >= quota[l]) /\ quota[l] >= 0
  <2>1. occ[p][slot2key[p][v][1]] > quota[slot2key[p][v][1]]
    BY <1>13, <1>15, <1>17 DEF Eligible
  <2>2. slot2key[p][v][1] = l
    BY <1>8
  <2> QED
    BY <2>1, <2>2, <1>17, <1>q, <1>o, <1>3
<1>18. CASE ~(quota[l] >= 0)
  <2>1. \A m \in Layers : quota[m] = -1
    BY <1>18, <1>q, <1>3
  <2>2. ASSUME NEW s \in Slots(p) PROVE occ[p][slot2key[p][s][1]] > quota[slot2key[p][s][1]]
    <3>1. slot2key[p][s] \in Keys
      BY <1>9, <1>o DEF Free
    <3> DEFINE m == slot2key[p][s][1]
    <3>2. m \in Layers
      BY <3>1, NoKeyApart
    <3> HIDE DEF m
    <3>3. HeldBy(slot2key[p], m) \in SUBSET Slots(p)
      BY <1>o DEF HeldBy
    <3>4. Cardinality(HeldBy(slot2key[p], m)) \in Nat
      BY <3>3, <1>f, FS_Subset, FS_CardinalityType
    <3>5. occ[p][m] \in Nat /\ quota[m] = -1
      BY <3>2, <3>4, <2>1, <1>o
    <3>6. occ[p][m] > quota[m]
      BY <3>5
    <3> QED
      BY <3>6 DEF m
  <2>3. Eligible(p, l) = Slots(p)
    BY <1>18, <2>2 DEF Eligible
  <2> QED
    BY <2>3, <1>14
<1> QED
  BY <1>16, <1>17, <1>18

(* One more slot found and used, no other one lost: Recent goes on. *)
LEMMA RecentGoesOn ==
    ASSUME Ranked, OutHeld, Recent, NEW q, NEW s, UsedOne(q, s), NEW x,
           x.pool = q, x.slot = s, call'.out = call.out \cup {x}
    PROVE  Recent'
<1>0. q \in Pools /\ s \in Slots(q) /\ rank' = [rank EXCEPT ![q] = Used(q, s)] /\ DOMAIN rank = Pools
  BY DEF UsedOne, Ranked
<1>1. \A p \in Pools : Own(p)' = IF p = q THEN Own(p) \cup {s} ELSE Own(p)
  BY DEF Own
<1>2. \A p \in Pools : rank'[p] = IF p = q THEN Used(q, s) ELSE rank[p]
  BY <1>0
<1>3. Newer(Slots(q), rank[q], Used(q, s), s)
  BY <1>0, UsedIs
<1>4. \A p \in Pools : Own(p) \subseteq Slots(p)
  BY DEF Own, OutHeld
<1> SUFFICES ASSUME NEW p \in Pools, NEW u \in Slots(p), u \notin Own(p)', NEW w \in Own(p)'
             PROVE  rank'[p][u] < rank'[p][w]
  BY DEF Recent, Slots
<1>5. CASE p # q
  BY <1>1, <1>2, <1>5 DEF Recent
<1>6. CASE p = q
  <2>1. u # s /\ u \in Slots(q) \ Own(q) /\ rank'[p] = Used(q, s)
    BY <1>1, <1>2, <1>6
  <2>2. CASE w = s
    BY <2>1, <2>2, <1>3 DEF Newer
  <2>3. CASE w # s
    <3>1. w \in Own(q) /\ w \in Slots(q)
      BY <1>1, <1>4, <1>6, <2>3
    <3>2. rank[q][u] < rank[q][w]
      BY <2>1, <3>1, <1>0 DEF Recent
    <3> QED
      BY <2>1, <2>3, <3>1, <3>2, <1>3 DEF Newer
  <2> QED
    BY <2>2, <2>3
<1> QED
  BY <1>5, <1>6

LEMMA FitsOn ==
    ASSUME CallOK(call), call.todo # <<>>, NEW x, x.key = Want, FoundOne(call, call', x),
           quota' = quota, quota_on' = quota_on, \E l \in Layers : FitsLayer(Asked(call), l)
    PROVE  \E l \in Layers : FitsLayer(Asked(call), l)'
<1>1. PICK l \in Layers : FitsLayer(Asked(call), l)
  OBVIOUS
<1>2. x.key = Head(call.todo)
  BY DEF Want
<1>3. Asked(call') = Asked(call)
  BY <1>2, AskedSame
<1>4. FitsLayer(Asked(call), l)'
  BY <1>1, <1>3 DEF FitsLayer
<1> QED
  BY <1>4

LEMMA OutTyped == \A s : Out(s).pool = WantPool /\ Out(s).slot = s /\ Out(s).key = Want
BY DEF Out

LEMMA HitUsing ==
    ASSUME CInd, Ranked, Using, Hit
    PROVE  Using'
<1> DEFINE x == Out(Here)
<1>0. CallOK(call) /\ call.op = "ensure" /\ call.todo # <<>> /\ Here # 0
  BY DEF CInd, Hit
<1>1. OutHeld /\ Recent /\ \E l \in Layers : FitsLayer(Asked(call), l)
  BY <1>0 DEF Using
<1>2. FoundOne(call, call', x)
  BY <1>0, HitOn
<1>3. x.pool = WantPool /\ x.slot = Here /\ x.key = Want
  BY OutTyped
<1>4. WantPool \in Pools /\ Want \in Keys /\ Here \in Slots(WantPool)
  BY <1>0, HereTyped
<1>5. /\ quota' = quota /\ quota_on' = quota_on /\ key2slot' = key2slot
      /\ rank' = [rank EXCEPT ![WantPool] = Used(WantPool, Here)]
  BY DEF Hit, pools
<1>6. key2slot[WantPool][Want] = Here
  BY DEF Here
<1> HIDE DEF x
<1>7. call'.out = call.out \cup {x}
  BY <1>2 DEF FoundOne
<1>8. \E l \in Layers : FitsLayer(Asked(call), l)'
  BY <1>0, <1>1, <1>2, <1>3, <1>5, FitsOn
<1>9. OutHeld'
  BY <1>1, <1>3, <1>4, <1>5, <1>6, <1>7 DEF OutHeld, Slots
<1>10. Recent'
  <2>1. UsedOne(WantPool, Here)
    BY <1>4, <1>5 DEF UsedOne
  <2> QED
    BY <1>1, <1>3, <1>7, <2>1, RecentGoesOn
<1> QED
  BY <1>8, <1>9, <1>10 DEF Using

LEMMA MissUsing ==
    ASSUME CInd, Ranked, QuotaInd, Roomy, Using, Miss
    PROVE  Using'
<1>0. CallOK(call) /\ MapsTyped /\ MapsAgree /\ call.op = "ensure" /\ call.todo # <<>> /\ Here = 0
  BY DEF CInd, Miss
<1>1. OutHeld /\ Recent /\ \E l \in Layers : FitsLayer(Asked(call), l)
  BY <1>0 DEF Using
<1>2. PICK v \in Slots(WantPool) :
         /\ pick_victim(WantPool, Want[1], v)
         /\ Claim(WantPool, v, Want)
         /\ call' = Advanced(Found(IF Ssd THEN Queued(call, Out(v)) ELSE call, Out(v)))
  BY DEF Miss
<1>3. v \notin Own(WantPool)
  BY <1>0, <1>2, VictimNotOwn
<1> DEFINE x == Out(v)
           p == WantPool
           k == Want
<1>4. FoundOne(call, call', x)
  BY <1>0, <1>2, MissOn
<1>5. x.pool = p /\ x.slot = v /\ x.key = k
  BY OutTyped
<1>6. p \in Pools /\ k \in Keys /\ key2slot[p][k] = 0
  BY <1>0, WantTyped DEF Here
<1>7. quota' = quota /\ quota_on' = quota_on
  BY DEF Miss
<1>8. /\ key2slot' = [key2slot EXCEPT ![p] = [Dropped(p, v) EXCEPT ![k] = v]]
      /\ rank' = [rank EXCEPT ![p] = Used(p, v)]
  BY <1>2 DEF Claim
<1>9. \E l \in Layers : FitsLayer(Asked(call), l)'
  BY <1>0, <1>1, <1>4, <1>5, <1>7, FitsOn
<1>10. v \in Slots(p) /\ v \notin Own(p)
  BY <1>2, <1>3
<1> HIDE DEF x, p, k
<1>11. call'.out = call.out \cup {x}
  BY <1>4 DEF FoundOne
<1>12. OutHeld'
  <2>1. \A j \in Keys : key2slot'[p][j] = IF j = k THEN v ELSE IF j = slot2key[p][v] THEN 0 ELSE key2slot[p][j]
    <3>1. DOMAIN Dropped(p, v) = Keys
      BY DEF Dropped
    <3> QED
      BY <1>0, <1>6, <1>8, <3>1 DEF Dropped, MapsTyped
  <2>2. \A q \in Pools \ {p} : key2slot'[q] = key2slot[q]
    BY <1>0, <1>8 DEF MapsTyped
  <2> SUFFICES ASSUME NEW y \in call'.out
               PROVE  y.pool \in Pools /\ y.slot \in Slots(y.pool) /\ y.key \in Keys
                      /\ key2slot'[y.pool][y.key] = y.slot
    BY DEF OutHeld, Slots
  <2>3. CASE y = x
    BY <2>3, <1>5, <1>6, <1>10, <2>1
  <2>4. CASE y \in call.out
    <3>1. y.pool \in Pools /\ y.slot \in Slots(y.pool) /\ y.key \in Keys /\ key2slot[y.pool][y.key] = y.slot
      BY <1>1, <2>4 DEF OutHeld
    <3>2. CASE y.pool # p
      BY <3>1, <3>2, <2>2
    <3>3. CASE y.pool = p
      <4>1. y.slot # 0
        BY <3>1, SlotsFinite DEF Slots
      <4>2. y.key # k
        BY <3>1, <3>3, <4>1, <1>6
      <4>3. y.slot \in Own(p)
        BY <2>4, <3>3 DEF Own
      <4>4. slot2key[p][y.slot] = y.key
        BY <3>1, <3>3, <4>1, <1>0 DEF MapsAgree
      <4>5. y.key # slot2key[p][v]
        <5> SUFFICES ASSUME y.key = slot2key[p][v] PROVE FALSE
          OBVIOUS
        <5>1. slot2key[p][v] # NoKey
          BY <3>1, NoKeyApart
        <5>2. key2slot[p][slot2key[p][v]] = v
          BY <5>1, <1>0, <1>6, <1>10 DEF MapsAgree
        <5> QED
          BY <5>2, <3>1, <3>3, <4>3, <1>10
      <4> QED
        BY <3>1, <3>3, <4>2, <4>5, <2>1
    <3> QED
      BY <3>1, <3>2, <3>3
  <2> QED
    BY <2>3, <2>4, <1>11
<1>13. Recent'
  <2>1. UsedOne(p, v)
    BY <1>6, <1>8, <1>10 DEF UsedOne
  <2> QED
    BY <1>1, <1>5, <1>11, <2>1, RecentGoesOn
<1> QED
  BY <1>9, <1>12, <1>13 DEF Using

(* The slots that ensure() gave out, while they are used.                  *)
ResultHeld ==
    /\ call.op # "none" => result = {}
    /\ \A x \in result : x.pool \in Pools /\ x.slot \in Slots(x.pool) /\ x.key \in Keys
                         /\ slot2key[x.pool][x.slot] = x.key

(* The invariant for what ensure() returns. *)
UseInd == Using /\ ResultHeld

LEMMA StepUse ==
    ASSUME CInd, TypeInd, Roomy, UseInd, Calm
    PROVE  UseInd'
<1>0. CallOK(call) /\ Ranked /\ QuotaInd /\ Using /\ ResultHeld
  BY DEF CInd, TypeInd, UseInd
<1>1. ASSUME call'.op # "ensure", slot2key' = slot2key, result' \subseteq result,
             call'.op # "none" => result' = {}
      PROVE  UseInd'
  <2>1. ResultHeld'
    BY <1>0, <1>1 DEF ResultHeld, Slots
  <2> QED
    BY <1>1, <2>1 DEF UseInd, Using
<1>2. ASSUME result' = {} PROVE ResultHeld'
  BY <1>2 DEF ResultHeld
<1>3. CASE Hit
  <2>1. result' = {}
    BY <1>0, <1>3 DEF Hit, ResultHeld
  <2> QED
    BY <1>0, <1>2, <1>3, <2>1, HitUsing DEF UseInd
<1>4. CASE Miss
  <2>1. result' = {}
    BY <1>0, <1>4 DEF Miss, ResultHeld
  <2> QED
    BY <1>0, <1>2, <1>4, <2>1, MissUsing DEF UseInd
<1>5. CASE Return
  <2>1. call'.op = "none" /\ slot2key' = slot2key /\ result' = call.out /\ call.op = "ensure"
    BY <1>5 DEF Return, pools, NoCall, NewCall
  <2>2. OutHeld
    BY <1>0, <2>1 DEF Using
  <2>3. ASSUME NEW x \in call.out
        PROVE  x.pool \in Pools /\ x.slot \in Slots(x.pool) /\ x.key \in Keys
               /\ slot2key[x.pool][x.slot] = x.key
    <3>1. x.pool \in Pools /\ x.slot \in Slots(x.pool) /\ x.key \in Keys /\ key2slot[x.pool][x.key] = x.slot
      BY <2>2 DEF OutHeld
    <3>2. x.slot # 0
      BY <3>1, SlotsFinite DEF Slots
    <3> QED
      BY <3>1, <3>2 DEF CInd, MapsAgree
  <2>4. ResultHeld'
    BY <2>1, <2>3 DEF ResultHeld, Slots
  <2> QED
    BY <2>1, <2>4 DEF UseInd, Using
<1>6. CASE Skip \/ Install
  <2>1. call' = Advanced(call) /\ call.op \notin {"ensure", "none"}
    BY <1>6 DEF Skip, Install, Installing, Fetching
  <2>2. SameCall(call, call')
    BY <1>0, <2>1, CallGoesOn
  <2>3. call'.op # "ensure" /\ result' = {}
    BY <1>0, <1>6, <2>1, <2>2 DEF SameCall, ResultHeld, Skip, Install
  <2> QED
    BY <1>2, <2>3 DEF UseInd, Using
<1>7. CASE InstallFails \/ Done
  <2>1. call'.op = "none" /\ result' = {}
    BY <1>0, <1>7 DEF InstallFails, Done, Installing, Fetching, ResultHeld, NoCall, NewCall
  <2> QED
    BY <1>2, <2>1 DEF UseInd, Using
<1>8. ASSUME NEW l \in Layers, NEW e \in Experts, EnsureResident(l, e) PROVE UseInd'
  <2>1. call'.op = "install" /\ result' = {}
    BY <1>8 DEF EnsureResident, NewCall
  <2> QED
    BY <1>2, <2>1 DEF UseInd, Using
<1>9. ASSUME NEW l \in Layers, NEW e \in Experts, NEW r \in Range(Roles), Touch(r, l, e) PROVE UseInd'
  <2>1. call' = call /\ call.op = "none" /\ result' = {}
    BY <1>9 DEF Touch, Idle
  <2> QED
    BY <1>2, <2>1 DEF UseInd, Using
<1>10. ASSUME NEW order \in Rankings, Rebalance(order) PROVE UseInd'
  <2>1. call'.op = "rebalance" /\ result' = {}
    BY <1>10 DEF Rebalance, NewCall
  <2> QED
    BY <1>2, <2>1 DEF UseInd, Using
<1>11. ASSUME NEW l \in Layers, EnsureToken(l) PROVE UseInd'
  <2>1. PICK ids \in Selections(NUsed) : Ensure(l, ids, quota_on)
    BY <1>11 DEF EnsureToken
  <2>2. NUsed \in Nat /\ NUsed <= NUsed
    BY ExpertCacheAssumption
  <2>3. Allowed(l, NUsed, quota_on)
    BY <1>0, <2>2, TokenAllowed
  <2>4. Using'
    BY <1>0, <2>1, <2>2, <2>3, EnsureUsing
  <2>5. result' = {}
    BY <2>1 DEF Ensure
  <2> QED
    BY <1>2, <2>4, <2>5 DEF UseInd
<1>12. ASSUME NEW l \in Layers, EnsureSlice(l) PROVE UseInd'
  <2>1. PICK on \in BOOLEAN, n \in NUsed..Cardinality(Experts) :
            /\ n <= Max({NUsed, capacity(l, on) - Margin})
            /\ \E ids \in Selections(n) : Ensure(l, ids, on)
    BY <1>12 DEF EnsureSlice
  <2>2. n \in Nat
    BY <2>1, ExpertCacheAssumption
  <2>3. Allowed(l, n, on)
    BY <1>0, <2>1, <2>2, SliceAllowed
  <2>4. Using'
    BY <1>0, <2>1, <2>2, <2>3, EnsureUsing
  <2>5. result' = {}
    BY <2>1 DEF Ensure
  <2> QED
    BY <1>2, <2>4, <2>5 DEF UseInd
<1> QED
  BY <1>3, <1>4, <1>5, <1>6, <1>7, <1>8, <1>9, <1>10, <1>11, <1>12 DEF Calm

LEMMA InitUse == CInit => UseInd
<1> SUFFICES ASSUME CInit PROVE UseInd
  OBVIOUS
<1>1. call.op # "ensure" /\ result = {}
  BY DEF CInit, NoCall, NewCall
<1> QED
  BY <1>1 DEF UseInd, Using, ResultHeld

LEMMA UseKept ==
    ASSUME UseInd, UNCHANGED cvars
    PROVE  UseInd'
<1>1. /\ call' = call /\ result' = result /\ slot2key' = slot2key /\ key2slot' = key2slot
      /\ rank' = rank /\ quota' = quota /\ quota_on' = quota_on
  BY DEF cvars
<1>2. Using'
  <2>1. \A l : FitsLayer(Asked(call), l)' <=> FitsLayer(Asked(call), l)
    BY <1>1 DEF FitsLayer, Asked
  <2>2. OutHeld' <=> OutHeld
    BY <1>1 DEF OutHeld, Slots
  <2>3. Recent' <=> Recent
    BY <1>1 DEF Recent, Own, Slots
  <2> QED
    BY <1>1, <2>1, <2>2, <2>3 DEF UseInd, Using
<1>3. ResultHeld'
  BY <1>1 DEF UseInd, ResultHeld, Slots
<1> QED
  BY <1>2, <1>3 DEF UseInd

LEMMA UseFollows == CInd /\ Weights /\ UseInd => EnsureUsable
<1> SUFFICES ASSUME Weights, UseInd, NEW x \in result PROVE content[x.pool][x.slot] = x.key
  BY DEF EnsureUsable
<1>1. /\ x.pool \in Pools /\ x.slot \in Slots(x.pool) /\ x.key \in Keys
      /\ slot2key[x.pool][x.slot] = x.key /\ call.op = "none"
  BY DEF UseInd, ResultHeld
<1>2. call.jobs = {}
  BY <1>1 DEF Weights, JobsMatch
<1>3. slot2key[x.pool][x.slot] # NoKey /\ ~Reserved(x.pool, x.slot)
  BY <1>1, <1>2, NoKeyApart DEF Reserved
<1> QED
  BY <1>1, <1>3 DEF Weights, HoldsWeights

(* Where every pool has room for a token's experts of each of its layers,  *)
(* and as long as no batch of reads fails: what ensure() returns are slots *)
(* that hold the experts it was asked for, with quotas on or off, before   *)
(* and after a rebalance.  One call never evicts a slot it has handed out. *)
THEOREM EnsureNeverEvictsItsOwn ==
    ASSUME Roomy
    PROVE  CSpec /\ [][~FetchFails]_cvars => []EnsureUsable
<1>1. CInd /\ TypeInd /\ Weights /\ UseInd /\ [CNext]_cvars /\ [~FetchFails]_cvars => Weights' /\ UseInd'
  <2> SUFFICES ASSUME CInd, TypeInd, Weights, UseInd, [CNext]_cvars, [~FetchFails]_cvars
               PROVE  Weights' /\ UseInd'
    OBVIOUS
  <2>1. CASE UNCHANGED cvars
    <3>1. slot2key' = slot2key /\ content' = content /\ call' = call
      BY <2>1 DEF cvars
    <3> QED
      BY <2>1, <3>1, WeightsKept, UseKept
  <2>2. CASE ~UNCHANGED cvars
    BY <2>2, StepWeights, StepUse, CalmSteps
  <2> QED
    BY <2>1, <2>2
<1> QED
  BY <1>1, InitWeights, InitUse, UseFollows, Inductive, TypesInductive, PTL DEF CSpec

=============================================================================
