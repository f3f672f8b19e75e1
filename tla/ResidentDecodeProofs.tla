------------------------- MODULE ResidentDecodeProofs -------------------------
(***************************************************************************)
(* Decoding over the expert cache, for any layers, experts, pools, slots,  *)
(* routing and modes, and without failed reads, which ResidentDecode       *)
(* leaves out: the cache keeps its invariants under a decoding runtime, a  *)
(* current stamp means that the uploaded tables are the residency, and     *)
(* where the pools have room for a token every token is exact.             *)
(***************************************************************************)
EXTENDS ResidentDecode, ExpertCacheProofs

-----------------------------------------------------------------------------
(* The uses that a token reports.  A slot that is touched becomes the      *)
(* newest of its pool.                                                     *)
Report(p, order, k) ==
    IF key2slot[p][k] # 0 /\ Serves(p, k[1]) THEN Newest(order, key2slot[p][k]) ELSE order

LEMMA ReportIn ==
    ASSUME CInd, NEW p \in Pools, NEW order \in Injection(Slots(p), Slots(p)), NEW k \in Keys
    PROVE  Report(p, order, k) \in Injection(Slots(p), Slots(p))
<1> DEFINE n == NSlots[p]
           s == key2slot[p][k]
<1>1. CASE s # 0
  <2>1. n \in Nat /\ s \in 1..n /\ order \in Injection(1..n, 1..n)
    BY <1>1, SlotsFinite DEF CInd, MapsAgree, Slots
  <2>2. DOMAIN order = 1..n /\ order \in Seq(1..n)
    BY <2>1 DEF Injection
  <2>3. Len(order) = n
    BY <2>1, <2>2
  <2>4. Newest(order, s) = MovedUp(n, order, s)
    BY <2>2, <2>3 DEF Newest, MovedUp
  <2>5. MovedUp(n, order, s) \in Injection(1..n, 1..n)
    BY <2>1, MovedUpIs DEF Newer
  <2> QED
    BY <2>4, <2>5 DEF Report, Slots
<1>2. CASE s = 0
  BY <1>2 DEF Report
<1> QED
  BY <1>1, <1>2

LEMMA ReportedIn ==
    ASSUME CInd, Ranked, NEW p \in Pools, NEW keys \in Seq(Keys)
    PROVE  FoldLeft(LAMBDA order, k :
               IF key2slot[p][k] # 0 /\ \E r \in Range(Roles) : PoolOf[r][k[1]] = p
               THEN Newest(order, key2slot[p][k]) ELSE order, rank[p], keys)
             \in Injection(Slots(p), Slots(p))
<1> DEFINE n == Len(keys)
           X == Injection(Slots(p), Slots(p))
           op(order, k) == IF key2slot[p][k] # 0 /\ \E r \in Range(Roles) : PoolOf[r][k[1]] = p
                           THEN Newest(order, key2slot[p][k]) ELSE order
           F == [z \in X \X Keys |-> op(z[1], z[2])]
           b == rank[p]
           it == CHOOSE iter : iter = [s \in SUBSET (1..n) |->
                     IF s = {} THEN b ELSE op(iter[s \ {Max(s)}], keys[Max(s)])]
           res == FoldLeft(LAMBDA order, k :
               IF key2slot[p][k] # 0 /\ \E r \in Range(Roles) : PoolOf[r][k[1]] = p
               THEN Newest(order, key2slot[p][k]) ELSE order, rank[p], keys)
<1>0. DOMAIN keys = 1..n /\ n \in Nat /\ b \in X
  BY DEF Ranked
<1>1. res = it[1..n]
  BY <1>0, Zenon DEF FoldLeft, MapThenFoldSet
<1>2. \A q \in X, k \in Keys : F[<<q, k>>] = op(q, k)
  OBVIOUS
<1>3. \A q \in X, k \in Keys : op(q, k) \in X
  <2> SUFFICES ASSUME NEW q \in X, NEW k \in Keys PROVE op(q, k) \in X
    OBVIOUS
  <2>1. op(q, k) = Report(p, q, k)
    BY DEF Report, Serves
  <2> QED
    BY <2>1, ReportIn
<1> HIDE DEF F, X, op, b
<1>4. \A q \in X, k \in Keys : F[<<q, k>>] \in X
  BY <1>2, <1>3
<1>5. PICK g \in [SUBSET (1..n) -> X] : Folded(F, b, keys, g, n)
  BY <1>0, <1>4, FoldExists
<1>6. \A s \in SUBSET (1..n) : s # {} => keys[Max(s)] \in Keys /\ s \ {Max(s)} \in SUBSET (1..n)
  <2> SUFFICES ASSUME NEW s \in SUBSET (1..n), s # {} PROVE keys[Max(s)] \in Keys
    OBVIOUS
  <2>1. s \subseteq 0..n
    OBVIOUS
  <2>2. Max(s) \in 1..n
    BY <1>0, <2>1, MaxIs
  <2> QED
    BY <1>0, <2>2
<1>7. \A s \in SUBSET (1..n) : g[s] = IF s = {} THEN b ELSE op(g[s \ {Max(s)}], keys[Max(s)])
  BY <1>2, <1>5, <1>6 DEF Folded
<1>8. g = [s \in SUBSET (1..n) |-> IF s = {} THEN b ELSE op(g[s \ {Max(s)}], keys[Max(s)])]
  BY <1>7
<1>9. it = [s \in SUBSET (1..n) |-> IF s = {} THEN b ELSE op(it[s \ {Max(s)}], keys[Max(s)])]
  BY <1>8, Zenon
<1> HIDE DEF it
<1>10. it[{}] = b
  BY <1>9
<1>11. \A s \in SUBSET (1..n) : s # {} /\ it[s \ {Max(s)}] \in X =>
           it[s] = F[<<it[s \ {Max(s)}], keys[Max(s)]>>]
  <2> SUFFICES ASSUME NEW s \in SUBSET (1..n), s # {}, it[s \ {Max(s)}] \in X
               PROVE  it[s] = F[<<it[s \ {Max(s)}], keys[Max(s)]>>]
    OBVIOUS
  <2>1. it[s] = op(it[s \ {Max(s)}], keys[Max(s)])
    BY <1>9
  <2> QED
    BY <2>1, <1>2, <1>6
<1>12. PICK v \in [0..n -> X] : StepsOf(F, b, keys, v) /\ it[1..n] = v[n]
  <2>1. Unfolds(X, F, b, keys, it)
    BY <1>10, <1>11 DEF Unfolds
  <2> QED
    BY <1>0, <1>4, <2>1, FoldSteps
<1>13. v[n] \in X
  BY <1>0
<1> HIDE DEF res
<1>14. res \in Injection(Slots(p), Slots(p))
  BY <1>1, <1>12, <1>13 DEF X
<1> QED
  BY <1>14 DEF res

(* Reporting uses moves no expert and keeps what the cache relies on. *)
LEMMA TouchedKeeps ==
    ASSUME CInd, TypeInd, Weights, Idle, NEW keys \in Seq(Keys), Touched(keys)
    PROVE  CInd' /\ TypeInd' /\ Weights' /\ UseInd'
<1>1. /\ counted' = counted \cup Range(keys) /\ result' = {} /\ UNCHANGED pools
      /\ slot2key' = slot2key
      /\ content' = content /\ quota' = quota /\ quota_on' = quota_on /\ call' = call
  BY DEF Touched, pools
<1>2. rank' = [p \in Pools |-> FoldLeft(LAMBDA order, k :
               IF key2slot[p][k] # 0 /\ \E r \in Range(Roles) : PoolOf[r][k[1]] = p
               THEN Newest(order, key2slot[p][k]) ELSE order, rank[p], keys)]
  BY Zenon DEF Touched
<1>3. DOMAIN rank' = Pools /\ \A p \in Pools : rank'[p] \in Injection(Slots(p), Slots(p))
  <2>1. DOMAIN rank' = Pools
    BY <1>2, Zenon
  <2> SUFFICES ASSUME NEW p \in Pools PROVE rank'[p] \in Injection(Slots(p), Slots(p))
    BY <2>1
  <2>2. rank'[p] = FoldLeft(LAMBDA order, k :
               IF key2slot[p][k] # 0 /\ \E r \in Range(Roles) : PoolOf[r][k[1]] = p
               THEN Newest(order, key2slot[p][k]) ELSE order, rank[p], keys)
    BY <1>2, Zenon
  <2>3. FoldLeft(LAMBDA order, k :
               IF key2slot[p][k] # 0 /\ \E r \in Range(Roles) : PoolOf[r][k[1]] = p
               THEN Newest(order, key2slot[p][k]) ELSE order, rank[p], keys)
          \in Injection(Slots(p), Slots(p))
    BY ReportedIn DEF TypeInd
  <2> QED
    BY <2>2, <2>3, Zenon
<1>4. CInd'
  BY <1>1, MapsKept DEF CInd, Maps
<1>5. Ranked'
  BY <1>3 DEF Ranked, Slots
<1>6. MemoryTyped'
  BY <1>1 DEF TypeInd, MemoryTyped, Slots
<1>7. FlagsTyped'
  <2>1. Range(keys) \subseteq Keys
    BY DEF Range
  <2> QED
    BY <1>1, <2>1 DEF TypeInd, FlagsTyped
<1>8. QuotaInd'
  BY <1>1 DEF TypeInd, QuotaInd, Roomy, Share, Serves, Total
<1>9. Weights'
  BY <1>1, WeightsKept
<1>10. UseInd'
  BY <1>1 DEF UseInd, Using, ResultHeld, Idle
<1> QED
  BY <1>4, <1>5, <1>6, <1>7, <1>8, <1>9, <1>10 DEF TypeInd

-----------------------------------------------------------------------------
(* The layers in their order. *)
LEMMA LayerEnds ==
    /\ FirstLayer \in Layers /\ LastLayer \in Layers
    /\ \A l \in Layers : l \in Nat /\ FirstLayer <= l /\ l <= LastLayer
<1>1. Layers \subseteq Nat /\ Layers # {} /\ IsFiniteSet(Layers)
  BY LayersFinite, ResidentAssumption
<1> QED
  BY <1>1, MinIs, MaxOfFinite DEF FirstLayer, LastLayer

LEMMA LayerAfter ==
    ASSUME NEW l \in Layers
    PROVE  NextLayer(l) \in Layers /\ (l # LastLayer => l < NextLayer(l))
<1>1. CASE l = LastLayer
  BY <1>1, LayerEnds DEF NextLayer
<1>2. CASE l # LastLayer
  <2> DEFINE T == {m \in Layers : m > l}
  <2>1. T \subseteq Nat /\ T # {}
    BY <1>2, LayerEnds
  <2>2. Min(T) \in T
    BY <2>1, MinIs
  <2> QED
    BY <1>2, <2>2, LayerEnds DEF NextLayer
<1> QED
  BY <1>1, <1>2

(* What a selection names. *)
Named(l, ids) == [i \in DOMAIN ids |-> <<l, ids[i]>>]

LEMMA NamedIs ==
    ASSUME NEW l \in Layers, NEW ids \in Selections(NUsed)
    PROVE  /\ Named(l, ids) \in Seq(Keys) /\ Range(Named(l, ids)) = KeysOf(l, ids)
           /\ KeysOf(l, ids) \subseteq Keys /\ \A k \in KeysOf(l, ids) : k[1] = l
<1>1. ids \in [1..NUsed -> Experts] /\ NUsed \in Nat
  BY ExpertCacheAssumption DEF Selections
<1>2. Named(l, ids) \in [1..NUsed -> Keys]
  BY <1>1 DEF Named, Keys
<1>3. Named(l, ids) \in Seq(Keys)
  BY <1>1, <1>2
<1>4. Range(Named(l, ids)) = KeysOf(l, ids)
  BY <1>1 DEF Named, KeysOf, Range
<1>5. KeysOf(l, ids) \subseteq Keys /\ \A k \in KeysOf(l, ids) : k[1] = l
  BY <1>1 DEF KeysOf, Keys
<1> QED
  BY <1>3, <1>4, <1>5

(* What a graph over all layers selects, as one sequence. *)
LEMMA RoutedKeys ==
    ASSUME NEW mask, NEW s \in Routes(mask)
    PROVE  /\ s \in [Layers -> Selections(NUsed)] /\ AllKeys(s) \subseteq Keys
           /\ \A l \in Layers, e \in Experts : <<l, e>> \in AllKeys(s) => e \in mask[l]
           /\ InLayers(s) \in Seq(AllKeys(s)) /\ FromCursor(s) \in Seq(AllKeys(s))
<1>1. s \in [Layers -> Selections(NUsed)] /\ \A l \in Layers : Range(s[l]) \subseteq mask[l]
  BY DEF Routes
<1>2. AllKeys(s) \subseteq Keys
  BY <1>1, NamedIs DEF AllKeys
<1>3. ASSUME NEW l \in Layers, NEW e \in Experts, <<l, e>> \in AllKeys(s) PROVE e \in mask[l]
  <2>1. PICK m \in Layers : <<l, e>> \in KeysOf(m, s[m])
    BY <1>3 DEF AllKeys
  <2>2. PICK i \in DOMAIN s[m] : <<l, e>> = <<m, s[m][i]>>
    BY <2>1 DEF KeysOf
  <2>3. m = l /\ e = s[l][i] /\ i \in DOMAIN s[l]
    BY <2>2
  <2> QED
    BY <1>1, <2>3 DEF Range
<1>4. LayerSeq \in Seq(Layers) /\ Len(LayerSeq) \in Nat \ {0} /\ Len(LayerSeq) = Cardinality(Layers)
  <2>1. LayerSeq \in [1..Cardinality(Layers) -> Layers]
    BY LayerSeqIs
  <2>2. Cardinality(Layers) \in Nat /\ Cardinality(Layers) # 0
    BY LayersFinite, ResidentAssumption, FS_CardinalityType, FS_EmptySet
  <2> QED
    BY <2>1, <2>2
<1> DEFINE n == Len(LayerSeq)
           a == Cardinality({m \in Layers : m < cursor})
           at(i) == LayerSeq[((i - 1 + a) % n) + 1]
           one == [i \in 1..n |-> Named(LayerSeq[i], s[LayerSeq[i]])]
           two == [i \in 1..n |-> Named(at(i), s[at(i)])]
<1>5. ASSUME NEW l \in Layers PROVE Named(l, s[l]) \in Seq(AllKeys(s))
  <2>1. Named(l, s[l]) \in Seq(Keys) /\ Range(Named(l, s[l])) \subseteq AllKeys(s)
    BY <1>1, NamedIs DEF AllKeys
  <2> QED
    BY <2>1 DEF Range
<1>6. one \in Seq(Seq(AllKeys(s)))
  <2>1. \A i \in 1..n : LayerSeq[i] \in Layers
    BY <1>4
  <2>2. \A i \in 1..n : Named(LayerSeq[i], s[LayerSeq[i]]) \in Seq(AllKeys(s))
    BY <2>1, <1>5
  <2> QED
    BY <1>4, <2>2
<1>7. two \in Seq(Seq(AllKeys(s)))
  <2>1. a \in Nat
    <3>1. {m \in Layers : m < cursor} \in SUBSET Layers
      OBVIOUS
    <3> QED
      BY <3>1, LayersFinite, FS_Subset, FS_CardinalityType
  <2> HIDE DEF a
  <2>2. ASSUME NEW i \in 1..n PROVE ((i - 1 + a) % n) + 1 \in 1..n
    <3> DEFINE x == i - 1 + a
    <3>1. x \in Nat /\ n \in Nat \ {0}
      BY <1>4, <2>1
    <3> HIDE DEF x, n
    <3>2. x % n \in 0..(n - 1)
      BY <3>1
    <3> QED
      BY <3>1, <3>2 DEF x
  <2>3. \A i \in 1..n : at(i) \in Layers
    BY <1>4, <2>2
  <2> HIDE DEF at
  <2>4. \A i \in 1..n : Named(at(i), s[at(i)]) \in Seq(AllKeys(s))
    BY <2>3, <1>5
  <2> QED
    BY <1>4, <2>4
<1>8. InLayers(s) = FlattenSeq(one) /\ FromCursor(s) = FlattenSeq(two)
  BY <1>4 DEF InLayers, FromCursor, Named
<1>9. FlattenSeq(one) \in Seq(AllKeys(s)) /\ FlattenSeq(two) \in Seq(AllKeys(s))
  <2> HIDE DEF one, two
  <2> QED
    BY <1>6, <1>7, FlattenType
<1> QED
  BY <1>1, <1>2, <1>3, <1>8, <1>9

-----------------------------------------------------------------------------
(* The token's record: it names experts of this cache. *)
DecFields == {"pc", "layer", "sel", "h", "wrong", "corr", "cand", "absorbed", "hashed", "refill", "budget"}

DecOK(d) ==
    /\ DOMAIN d = DecFields
    /\ d.layer \in Layers /\ d.h \in [Keys -> Nat]
    /\ d.sel \subseteq Keys /\ d.corr \subseteq Keys /\ d.cand \subseteq Keys
    /\ d.refill \in Seq(Keys)

LEMMA PlusTyped ==
    ASSUME NEW h \in [Keys -> Nat], NEW keys
    PROVE  Plus(h, keys) \in [Keys -> Nat]
BY DEF Plus

(* A token starts from nothing. *)
Nothing(d) ==
    /\ d.sel = {} /\ d.h = [k \in Keys |-> 0] /\ d.wrong = FALSE
    /\ d.corr = {} /\ d.cand = {} /\ d.refill = <<>>

LEMMA NewTokenIs ==
    ASSUME NEW pc, NEW d, d = NewToken(pc)
    PROVE  DecOK(d) /\ Nothing(d) /\ d.pc = pc /\ d.layer = FirstLayer /\ d.absorbed = 0 /\ d.hashed = 0
<1>1. /\ DOMAIN d = DecFields /\ Nothing(d) /\ d.pc = pc /\ d.layer = FirstLayer
      /\ d.absorbed = 0 /\ d.hashed = 0
  BY DEF NewToken, DecFields, Nothing
<1> QED
  BY <1>1, LayerEnds DEF DecOK, Nothing

LEMMA StartedIs ==
    ASSUME NEW pc, NEW d, NEW t, t = Started(pc, d)
    PROVE  /\ DecOK(t) /\ Nothing(t) /\ t.pc = pc /\ t.layer = FirstLayer
           /\ t.absorbed = d.absorbed + 1 /\ t.hashed = d.hashed + 1
<1>1. /\ DOMAIN t = DecFields /\ Nothing(t) /\ t.pc = pc /\ t.layer = FirstLayer
      /\ t.absorbed = d.absorbed + 1 /\ t.hashed = d.hashed + 1
  BY DEF Started, NewToken, DecFields, Nothing
<1> QED
  BY <1>1, LayerEnds DEF DecOK, Nothing

(* What a graph over all layers makes of it. *)
LEMMA RanIs ==
    ASSUME DecOK(dec), NEW s, AllKeys(s) \subseteq Keys, NEW d, d = Ran(s)
    PROVE  /\ DecOK(d) /\ d.pc = "end" /\ d.layer = dec.layer /\ d.corr = dec.corr /\ d.cand = dec.cand
           /\ d.sel = AllKeys(s) /\ d.h = Plus(dec.h, AllKeys(s)) /\ d.absorbed = dec.absorbed + 1
           /\ d.wrong = (\E k \in AllKeys(s) : ~Reads(fast.remap, k))
           /\ d.refill = dec.refill
<1> DEFINE K == AllKeys(s)
           P == Plus(dec.h, K)
           W == \E k \in K : ~Reads(fast.remap, k)
<1>1. d = [dec EXCEPT !.sel = K, !.h = P, !.absorbed = @ + 1, !.wrong = W, !.pc = "end"]
  BY DEF Ran
<1>2. P \in [Keys -> Nat] /\ DOMAIN dec = DecFields
  BY PlusTyped DEF DecOK
<1> HIDE DEF K, P, W
<1>3. /\ DOMAIN d = DecFields /\ d.pc = "end" /\ d.layer = dec.layer /\ d.corr = dec.corr /\ d.cand = dec.cand
      /\ d.sel = K /\ d.h = P /\ d.absorbed = dec.absorbed + 1 /\ d.wrong = W
      /\ d.refill = dec.refill
  BY <1>1, <1>2 DEF DecFields
<1>4. DecOK(d)
  BY <1>2, <1>3 DEF DecOK, K
<1> QED
  BY <1>3, <1>4 DEF K, P, W

-----------------------------------------------------------------------------
(* Every step of a token, field by field. *)
LEMMA BeginIs ==
    ASSUME Begin
    PROVE  /\ DecOK(dec') /\ Nothing(dec') /\ dec.pc = "idle" /\ dec'.layer = FirstLayer /\ Idle
           /\ \/ dec'.pc = "fast" /\ dec'.absorbed = 0 /\ mode # "plain"
              \/ /\ dec'.pc \in {"split", "select"}
                 /\ dec'.absorbed = dec.absorbed + 1 /\ dec'.hashed = dec.hashed + 1
<1>1. \/ dec' = NewToken("fast") /\ mode # "plain"
      \/ dec' = Started("split", dec) \/ dec' = Started("select", dec)
  BY DEF Begin
<1>2. dec.pc = "idle" /\ Idle
  BY DEF Begin, Ready
<1> QED
  BY <1>1, <1>2, NewTokenIs, StartedIs

LEMMA TokenEndsIs ==
    ASSUME TokenEnds
    PROVE  DecOK(dec') /\ Nothing(dec') /\ dec'.pc = "idle" /\ dec'.absorbed = 0 /\ dec'.hashed = 0
           /\ dec.pc = "end" /\ Idle
<1>1. dec' = NewToken("idle") /\ dec.pc = "end" /\ Idle
  BY DEF TokenEnds, Ready
<1> QED
  BY <1>1, NewTokenIs

SameSum(d, e) ==
    /\ e.sel = d.sel /\ e.h = d.h /\ e.wrong = d.wrong /\ e.corr = d.corr
    /\ e.absorbed = d.absorbed

LEMMA RefillNextIs ==
    ASSUME DecOK(dec), RefillNext
    PROVE  /\ DecOK(dec') /\ SameSum(dec, dec') /\ dec'.hashed = dec.hashed
           /\ dec.pc = "refill" /\ dec'.pc = "refill" /\ Idle
           /\ \/ UNCHANGED cvars
              \/ \E l \in Layers, e \in Experts : EnsureResident(l, e)
<1>0. dec.pc = "refill" /\ Idle /\ dec.refill # <<>> /\ DOMAIN dec = DecFields /\ dec.refill \in Seq(Keys)
  BY DEF RefillNext, Ready, DecOK
<1> DEFINE k == Head(dec.refill)
           tail == Tail(dec.refill)
<1>1. k \in Keys /\ tail \in Seq(Keys)
  BY <1>0
<1>2. /\ \/ dec' = [dec EXCEPT !.refill = tail]
         \/ dec' = [dec EXCEPT !.refill = tail, !.budget = @ - 1]
      /\ UNCHANGED cvars \/ EnsureResident(k[1], k[2])
  BY DEF RefillNext
<1> HIDE DEF k, tail
<1>3. k[1] \in Layers /\ k[2] \in Experts
  BY <1>1 DEF Keys
<1>4. /\ DOMAIN dec' = DecFields /\ SameSum(dec, dec') /\ dec'.pc = dec.pc /\ dec'.refill = tail
      /\ dec'.hashed = dec.hashed
      /\ dec'.layer = dec.layer /\ dec'.cand = dec.cand
  BY <1>0, <1>2 DEF DecFields, SameSum
<1>5. DecOK(dec')
  BY <1>1, <1>4 DEF DecOK, SameSum
<1> QED
  BY <1>0, <1>2, <1>3, <1>4, <1>5

LEMMA RefillEndsIs ==
    ASSUME DecOK(dec), RefillEnds
    PROVE  /\ DecOK(dec') /\ SameSum(dec, dec') /\ dec'.hashed = dec.hashed
           /\ dec.pc = "refill" /\ dec'.pc = "end" /\ Idle
<1>0. dec.pc = "refill" /\ Idle /\ DOMAIN dec = DecFields
  BY DEF RefillEnds, Ready, DecOK
<1>1. dec' = [dec EXCEPT !.pc = "end", !.refill = <<>>]
  BY DEF RefillEnds
<1>2. /\ DOMAIN dec' = DecFields /\ SameSum(dec, dec') /\ dec'.pc = "end" /\ dec'.refill = <<>>
      /\ dec'.hashed = dec.hashed
      /\ dec'.layer = dec.layer /\ dec'.cand = dec.cand
  BY <1>0, <1>1 DEF DecFields, SameSum
<1>3. DecOK(dec')
  BY <1>2 DEF DecOK, SameSum
<1> QED
  BY <1>0, <1>2, <1>3

LEMMA FastInputsIs ==
    ASSUME DecOK(dec), FastInputs
    PROVE  /\ DecOK(dec') /\ SameSum(dec, dec') /\ dec'.cand = dec.cand
           /\ dec.pc = "fast" /\ dec'.pc = "run" /\ Idle
<1>0. dec.pc = "fast" /\ Idle /\ DOMAIN dec = DecFields
  BY DEF FastInputs, Ready, DecOK
<1>1. dec' = [dec EXCEPT !.pc = "run", !.hashed = @ + 1]
  BY DEF FastInputs
<1>2. /\ DOMAIN dec' = DecFields /\ SameSum(dec, dec') /\ dec'.pc = "run" /\ dec'.refill = dec.refill
      /\ dec'.layer = dec.layer /\ dec'.cand = dec.cand
  BY <1>0, <1>1 DEF DecFields, SameSum
<1>3. DecOK(dec')
  BY <1>2 DEF DecOK, SameSum
<1> QED
  BY <1>0, <1>2, <1>3

(* The sum after a graph over all layers that selected s. *)
RanSum(s, d) ==
    /\ d.sel = AllKeys(s) /\ d.h = Plus(dec.h, AllKeys(s)) /\ d.corr = dec.corr
    /\ d.absorbed = dec.absorbed + 1
    /\ d.wrong = (\E k \in AllKeys(s) : ~Reads(fast.remap, k))

LEMMA FastMaskedIs ==
    ASSUME DecOK(dec), FastMasked
    PROVE  /\ DecOK(dec') /\ dec.pc = "run" /\ dec'.pc \in {"refill", "end"} /\ Idle
           /\ \E s \in Routes(fast.mask) :
                 /\ RanSum(s, dec')
                 /\ UNCHANGED cvars \/ (Touched(InLayers(s)) /\ InLayers(s) \in Seq(AllKeys(s)))
<1>0. dec.pc = "run" /\ Idle
  BY DEF FastMasked, Ready
<1>1. PICK s \in Routes(fast.mask), w \in Routes([l \in Layers |-> Experts]) :
          \/ dec' = Ran(s) /\ UNCHANGED cvars
          \/ /\ dec' = [Ran(s) EXCEPT !.pc = "refill", !.refill = FromCursor(w), !.budget = Budget]
             /\ Touched(InLayers(s))
  BY DEF FastMasked
<1>2. AllKeys(s) \subseteq Keys /\ InLayers(s) \in Seq(AllKeys(s)) /\ FromCursor(w) \in Seq(Keys)
  <2>1. AllKeys(w) \subseteq Keys /\ FromCursor(w) \in Seq(AllKeys(w))
    BY RoutedKeys
  <2> QED
    BY <2>1, RoutedKeys
<1> DEFINE d == Ran(s)
           f == FromCursor(w)
<1>3. DecOK(d) /\ RanSum(s, d) /\ d.pc = "end"
  BY <1>2, RanIs DEF RanSum
<1>4. dec' = d \/ dec' = [d EXCEPT !.pc = "refill", !.refill = f, !.budget = Budget]
  BY <1>1
<1>5. f \in Seq(Keys)
  BY <1>2
<1> HIDE DEF d, f
<1>6. CASE dec' = d
  BY <1>0, <1>1, <1>2, <1>3, <1>6
<1>7. CASE dec' = [d EXCEPT !.pc = "refill", !.refill = f, !.budget = Budget]
  <2>1. DOMAIN d = DecFields
    BY <1>3 DEF DecOK
  <2>2. /\ DOMAIN dec' = DecFields /\ SameSum(d, dec') /\ dec'.pc = "refill" /\ dec'.refill = f
        /\ dec'.layer = d.layer /\ dec'.cand = d.cand
    BY <1>7, <2>1 DEF DecFields, SameSum
  <2>3. DecOK(dec')
    BY <1>3, <1>5, <2>2 DEF DecOK, SameSum
  <2>4. RanSum(s, dec')
    BY <1>3, <2>2 DEF RanSum, SameSum
  <2> QED
    BY <1>0, <1>1, <1>2, <2>2, <2>3, <2>4
<1> QED
  BY <1>4, <1>6, <1>7

LEMMA FastAcceptedIs ==
    ASSUME DecOK(dec), FastAccepted
    PROVE  /\ DecOK(dec') /\ dec.pc = "run" /\ dec'.pc = "end" /\ Idle
           /\ \E s \in Routes(fast.mask) :
                 /\ \A k \in AllKeys(s) : Resident(k)
                 /\ RanSum(s, dec') /\ Touched(InLayers(s)) /\ InLayers(s) \in Seq(AllKeys(s))
<1>0. dec.pc = "run" /\ Idle
  BY DEF FastAccepted, Ready
<1>1. PICK s \in Routes(fast.mask) :
          (\A k \in AllKeys(s) : Resident(k)) /\ dec' = Ran(s) /\ Touched(InLayers(s))
  BY DEF FastAccepted
<1>2. AllKeys(s) \subseteq Keys /\ InLayers(s) \in Seq(AllKeys(s))
  BY RoutedKeys
<1>3. DecOK(dec') /\ RanSum(s, dec') /\ dec'.pc = "end"
  BY <1>1, <1>2, RanIs DEF RanSum
<1> QED
  BY <1>0, <1>1, <1>2, <1>3

LEMMA FastMissedIs ==
    ASSUME DecOK(dec), FastMissed
    PROVE  /\ DecOK(dec') /\ Nothing(dec') /\ dec.pc = "run" /\ dec'.pc = "select" /\ Idle
           /\ dec'.layer = FirstLayer /\ dec'.absorbed = dec.absorbed + 1
<1>0. dec.pc = "run" /\ Idle
  BY DEF FastMissed, Ready
<1>1. PICK s \in Routes(fast.mask) : dec' = Started("select", RolledBack(Ran(s)))
  BY DEF FastMissed
<1> DEFINE d == Ran(s)
           e == RolledBack(d)
<1>2. DecOK(d)
  BY RoutedKeys, RanIs
<1>3. dec' = Started("select", e) /\ e = [d EXCEPT !.absorbed = dec.absorbed]
  BY <1>1 DEF RolledBack
<1> HIDE DEF d, e
<1>4. e.absorbed = dec.absorbed
  BY <1>2, <1>3 DEF DecOK, DecFields
<1>5. /\ DecOK(dec') /\ Nothing(dec') /\ dec'.pc = "select" /\ dec'.layer = FirstLayer
      /\ dec'.absorbed = e.absorbed + 1
  <2> DEFINE pc == "select"
  <2>1. dec' = Started(pc, e)
    BY <1>3
  <2> HIDE DEF pc
  <2>2. /\ DecOK(dec') /\ Nothing(dec') /\ dec'.pc = pc /\ dec'.layer = FirstLayer
        /\ dec'.absorbed = e.absorbed + 1
    BY <2>1, StartedIs
  <2> QED
    BY <2>2 DEF pc
<1> QED
  BY <1>0, <1>4, <1>5

LEMMA SelectIs ==
    ASSUME DecOK(dec), Select
    PROVE  /\ DecOK(dec') /\ dec.pc = "select" /\ dec'.pc = "matmul" /\ Idle
           /\ \E ids \in Selections(NUsed) :
                 /\ Ensure(dec.layer, ids, quota_on)
                 /\ dec'.sel = dec.sel \cup KeysOf(dec.layer, ids)
           /\ dec'.layer = dec.layer /\ dec'.h = dec.h /\ dec'.wrong = dec.wrong
           /\ dec'.corr = dec.corr /\ dec'.absorbed = dec.absorbed /\ dec'.hashed = dec.hashed
<1>1. PICK ids \in Selections(NUsed) :
          /\ Ensure(dec.layer, ids, quota_on)
          /\ dec' = [dec EXCEPT !.pc = "matmul", !.sel = @ \cup KeysOf(dec.layer, ids)]
  BY DEF Select
<1>2. dec.pc = "select" /\ Idle
  BY <1>1 DEF Select, Ensure
<1> DEFINE K == KeysOf(dec.layer, ids)
<1>3. K \subseteq Keys
  BY NamedIs DEF DecOK
<1>4. dec' = [dec EXCEPT !.pc = "matmul", !.sel = @ \cup K]
  BY <1>1
<1> HIDE DEF K
<1>5. /\ DOMAIN dec' = DecFields /\ dec'.pc = "matmul" /\ dec'.sel = dec.sel \cup K
      /\ dec'.layer = dec.layer /\ dec'.h = dec.h /\ dec'.wrong = dec.wrong
      /\ dec'.corr = dec.corr /\ dec'.absorbed = dec.absorbed /\ dec'.hashed = dec.hashed
      /\ dec'.cand = dec.cand /\ dec'.refill = dec.refill
  BY <1>4 DEF DecOK, DecFields
<1>6. DecOK(dec')
  BY <1>3, <1>5 DEF DecOK
<1> QED
  BY <1>1, <1>2, <1>5, <1>6 DEF K

LEMMA MatmulIs ==
    ASSUME DecOK(dec), Matmul
    PROVE  /\ DecOK(dec') /\ dec.pc = "matmul" /\ Idle
           /\ dec'.pc = IF dec.layer = LastLayer THEN "end" ELSE "select"
           /\ dec'.h = Plus(dec.h, {x.key : x \in result})
           /\ dec'.wrong = (dec.wrong \/ \E x \in result : content[x.pool][x.slot] # x.key)
           /\ dec'.layer = NextLayer(dec.layer) /\ dec'.sel = dec.sel
           /\ dec'.corr = dec.corr /\ dec'.absorbed = dec.absorbed /\ dec'.hashed = dec.hashed
<1>0. dec.pc = "matmul" /\ Idle
  BY DEF Matmul, Ready
<1> DEFINE P == Plus(dec.h, {x.key : x \in result})
           W == \E x \in result : content[x.pool][x.slot] # x.key
           pc == IF dec.layer = LastLayer THEN "end" ELSE "select"
           L == NextLayer(dec.layer)
<1>1. dec' = [dec EXCEPT !.h = P, !.wrong = @ \/ W, !.pc = pc, !.layer = L]
  BY DEF Matmul
<1>2. P \in [Keys -> Nat] /\ L \in Layers
  BY PlusTyped, LayerAfter DEF DecOK
<1> HIDE DEF P, W, pc, L
<1>3. /\ DOMAIN dec' = DecFields /\ dec'.h = P /\ dec'.wrong = (dec.wrong \/ W) /\ dec'.pc = pc
      /\ dec'.layer = L /\ dec'.sel = dec.sel /\ dec'.corr = dec.corr /\ dec'.absorbed = dec.absorbed /\ dec'.hashed = dec.hashed
      /\ dec'.cand = dec.cand /\ dec'.refill = dec.refill
  BY <1>1 DEF DecOK, DecFields
<1>4. DecOK(dec')
  BY <1>2, <1>3 DEF DecOK
<1> QED
  BY <1>0, <1>3, <1>4 DEF P, W, pc, L

(* The part of a selection that the GPU computes. *)
OnGpu(ids) == Among(Named(dec.layer, ids), {k \in Keys : Resident(k)})

LEMMA SplitIs ==
    ASSUME DecOK(dec), Split
    PROVE  /\ DecOK(dec') /\ dec.pc = "split" /\ Idle
           /\ dec'.pc = IF dec.layer = LastLayer THEN "add" ELSE "split"
           /\ dec'.layer = NextLayer(dec.layer) /\ dec'.absorbed = dec.absorbed /\ dec'.hashed = dec.hashed
           /\ \E ids \in Selections(NUsed) :
                 LET K == KeysOf(dec.layer, ids)
                     G == Range(OnGpu(ids))
                 IN  /\ Touched(OnGpu(ids)) /\ OnGpu(ids) \in Seq(Keys)
                     /\ G \subseteq K /\ \A k \in G : Resident(k)
                     /\ dec'.sel = dec.sel \cup K
                     /\ dec'.h = Plus(Plus(dec.h, dec.corr), G)
                     /\ dec'.wrong = (dec.wrong \/ \E k \in G : ~Reads(key2slot, k))
                     /\ dec'.corr = K \ G
<1>0. dec.pc = "split" /\ Idle /\ dec.layer \in Layers
  BY DEF Split, Ready, DecOK
<1>1. PICK ids \in Selections(NUsed) :
          LET chosen == [i \in DOMAIN ids |-> <<dec.layer, ids[i]>>]
              gpu    == Among(chosen, {k \in Keys : Resident(k)})
              absent == Range(chosen) \ Range(gpu)
          IN  /\ Touched(gpu)
              /\ dec' = [dec EXCEPT
                        !.sel = @ \cup Range(chosen),
                        !.h = Plus(Plus(@, dec.corr), Range(gpu)),
                        !.wrong = @ \/ \E k \in Range(gpu) : ~Reads(key2slot, k),
                        !.corr = Correction(absent),
                        !.cand = @ \cup absent,
                        !.pc = IF dec.layer = LastLayer THEN "add" ELSE "split",
                        !.layer = NextLayer(@)]
  BY Zenon DEF Split
<1> DEFINE K == KeysOf(dec.layer, ids)
           G == Range(OnGpu(ids))
           A == K \ G
           P == Plus(Plus(dec.h, dec.corr), G)
           W == \E k \in G : ~Reads(key2slot, k)
           pc == IF dec.layer = LastLayer THEN "add" ELSE "split"
           L == NextLayer(dec.layer)
<1>2. /\ Named(dec.layer, ids) \in Seq(Keys) /\ Range(Named(dec.layer, ids)) = K /\ K \subseteq Keys
  BY <1>0, NamedIs
<1>3. Named(dec.layer, ids) = [i \in DOMAIN ids |-> <<dec.layer, ids[i]>>]
  BY DEF Named
<1>4. /\ Touched(OnGpu(ids))
      /\ dec' = [dec EXCEPT !.sel = @ \cup K, !.h = P, !.wrong = @ \/ W, !.corr = A,
                            !.cand = @ \cup A, !.pc = pc, !.layer = L]
  <2>1. /\ Touched(OnGpu(ids))
        /\ dec' = [dec EXCEPT
                        !.sel = @ \cup Range(Named(dec.layer, ids)),
                        !.h = Plus(Plus(@, dec.corr), Range(OnGpu(ids))),
                        !.wrong = @ \/ \E k \in Range(OnGpu(ids)) : ~Reads(key2slot, k),
                        !.corr = Correction(Range(Named(dec.layer, ids)) \ Range(OnGpu(ids))),
                        !.cand = @ \cup (Range(Named(dec.layer, ids)) \ Range(OnGpu(ids))),
                        !.pc = IF dec.layer = LastLayer THEN "add" ELSE "split",
                        !.layer = NextLayer(@)]
    BY <1>1, <1>3, Zenon DEF OnGpu
  <2> QED
    BY <1>2, <2>1, Zenon DEF Correction
<1>5. OnGpu(ids) \in Seq(K \cap {k \in Keys : Resident(k)})
  <2>1. Named(dec.layer, ids) \in Seq(K)
    BY <1>2 DEF Range
  <2> QED
    BY <2>1, AmongIn DEF OnGpu
<1>6. G \subseteq K /\ G \subseteq {k \in Keys : Resident(k)} /\ OnGpu(ids) \in Seq(Keys)
  <2> HIDE DEF K
  <2> QED
    BY <1>2, <1>5 DEF Range
<1>7. P \in [Keys -> Nat] /\ L \in Layers
  <2>1. Plus(dec.h, dec.corr) \in [Keys -> Nat]
    BY PlusTyped DEF DecOK
  <2> QED
    BY <1>0, <2>1, PlusTyped, LayerAfter
<1> HIDE DEF K, G, P, W, pc, L
<1>8. DOMAIN dec = DecFields
  BY DEF DecOK
<1>9. /\ DOMAIN dec' = DecFields /\ dec'.sel = dec.sel \cup K /\ dec'.h = P /\ dec'.wrong = (dec.wrong \/ W)
      /\ dec'.corr = A /\ dec'.cand = dec.cand \cup A /\ dec'.pc = pc /\ dec'.layer = L
      /\ dec'.absorbed = dec.absorbed /\ dec'.hashed = dec.hashed /\ dec'.refill = dec.refill
  <2> HIDE DEF A
  <2> QED
    BY <1>4, <1>8 DEF DecFields
<1>10. DecOK(dec')
  BY <1>2, <1>7, <1>9 DEF DecOK
<1> QED
  BY <1>0, <1>4, <1>6, <1>9, <1>10 DEF K, G, P, W, pc, L

LEMMA KeysFinite == IsFiniteSet(Keys)
BY ExpertCacheAssumption, FS_Product DEF Keys

LEMMA CmAddIs ==
    ASSUME DecOK(dec), CmAdd
    PROVE  /\ DecOK(dec') /\ dec.pc = "add" /\ dec'.pc = "refill" /\ Idle
           /\ dec'.h = Plus(dec.h, dec.corr) /\ dec'.corr = {}
           /\ dec'.sel = dec.sel /\ dec'.wrong = dec.wrong /\ dec'.absorbed = dec.absorbed /\ dec'.hashed = dec.hashed
<1>0. dec.pc = "add" /\ Idle
  BY DEF CmAdd, Ready
<1>1. PICK order \in SetToSeqs(dec.cand) :
          dec' = [dec EXCEPT !.h = Plus(@, dec.corr), !.corr = {}, !.cand = {},
                             !.refill = order, !.budget = CmRefill, !.pc = "refill"]
  BY DEF CmAdd
<1>2. order \in Seq(Keys)
  <2>1. dec.cand \in SUBSET Keys
    BY DEF DecOK
  <2>2. Cardinality(dec.cand) \in Nat
    BY <2>1, KeysFinite, FS_Subset, FS_CardinalityType
  <2>3. order \in [1..Cardinality(dec.cand) -> dec.cand]
    BY <1>1, Zenon DEF SetToSeqs
  <2>4. order \in Seq(dec.cand)
    BY <2>2, <2>3
  <2> QED
    BY <2>1, <2>4
<1> DEFINE P == Plus(dec.h, dec.corr)
<1>3. P \in [Keys -> Nat]
  BY PlusTyped DEF DecOK
<1>4. dec' = [dec EXCEPT !.h = P, !.corr = {}, !.cand = {},
                         !.refill = order, !.budget = CmRefill, !.pc = "refill"]
  BY <1>1
<1> HIDE DEF P
<1>5. /\ DOMAIN dec' = DecFields /\ dec'.h = P /\ dec'.corr = {} /\ dec'.cand = {} /\ dec'.refill = order
      /\ dec'.pc = "refill" /\ dec'.sel = dec.sel /\ dec'.wrong = dec.wrong
      /\ dec'.absorbed = dec.absorbed /\ dec'.hashed = dec.hashed /\ dec'.layer = dec.layer
  BY <1>4 DEF DecOK, DecFields
<1>6. DecOK(dec')
  BY <1>2, <1>3, <1>5 DEF DecOK
<1> QED
  BY <1>0, <1>5, <1>6 DEF P

-----------------------------------------------------------------------------
(* What a token, or a prefill between tokens, has the cache do.            *)
Asks ==
    \/ \E l \in Layers : EnsureToken(l) \/ EnsureSlice(l)
    \/ \E l \in Layers, e \in Experts : EnsureResident(l, e)
    \/ \E order \in Rankings : Rebalance(order)

Reports == \E keys \in Seq(Keys) : Touched(keys) /\ \A k \in Range(keys) : Resident(k)

(* The steps of a token whose reports are not looked at yet. *)
LEMMA StepKinds ==
    ASSUME DecOK(dec), RNext
    PROVE  /\ DecOK(dec')
           /\ \/ CacheStep
              \/ Asks
              \/ Idle /\ \E keys \in Seq(Keys) : Touched(keys)
              \/ UNCHANGED cvars
<1>1. CASE CacheStep
  BY <1>1 DEF CacheStep
<1>2. CASE Prefill
  BY <1>2 DEF Prefill, Asks, rvars
<1>3. CASE Begin
  BY <1>3, BeginIs DEF Begin
<1>4. CASE TokenEnds
  BY <1>4, TokenEndsIs DEF TokenEnds
<1>5. CASE RefillNext
  BY <1>5, RefillNextIs DEF Asks
<1>6. CASE RefillEnds
  BY <1>6, RefillEndsIs DEF RefillEnds
<1>7. CASE FastInputs
  BY <1>7, FastInputsIs DEF FastInputs
<1>8. CASE FastMasked
  <2>1. PICK s \in Routes(fast.mask) : UNCHANGED cvars \/ (Touched(InLayers(s)) /\ InLayers(s) \in Seq(AllKeys(s)))
    BY <1>8, FastMaskedIs
  <2>2. AllKeys(s) \subseteq Keys
    BY RoutedKeys
  <2> QED
    BY <1>8, <2>1, <2>2, FastMaskedIs
<1>9. CASE FastAccepted
  <2>1. PICK s \in Routes(fast.mask) : Touched(InLayers(s)) /\ InLayers(s) \in Seq(AllKeys(s))
    BY <1>9, FastAcceptedIs
  <2>2. AllKeys(s) \subseteq Keys
    BY RoutedKeys
  <2> QED
    BY <1>9, <2>1, <2>2, FastAcceptedIs
<1>10. CASE FastMissed
  BY <1>10, FastMissedIs DEF FastMissed
<1>11. CASE Select
  <2>1. DecOK(dec') /\ dec.layer \in Layers /\ \E ids \in Selections(NUsed) : Ensure(dec.layer, ids, quota_on)
    BY <1>11, SelectIs DEF DecOK
  <2> QED
    BY <2>1 DEF Asks, EnsureToken
<1>12. CASE Matmul
  BY <1>12, MatmulIs DEF Matmul
<1>13. CASE Split
  BY <1>13, SplitIs
<1>14. CASE CmAdd
  BY <1>14, CmAddIs DEF CmAdd
<1> QED
  BY <1>1, <1>2, <1>3, <1>4, <1>5, <1>6, <1>7, <1>8, <1>9, <1>10, <1>11, <1>12, <1>13, <1>14 DEF RNext

(* The invariant of the cache under a decoding runtime. *)
CacheInd == CInd /\ TypeInd /\ Weights /\ DecOK(dec)

LEMMA CacheKept ==
    ASSUME CacheInd, [RNext]_allvars
    PROVE  CacheInd' /\ (Roomy /\ UseInd => UseInd')
<1>0. CInd /\ TypeInd /\ Weights /\ DecOK(dec)
  BY DEF CacheInd
<1>1. ASSUME Calm PROVE CInd' /\ TypeInd' /\ Weights' /\ (Roomy /\ UseInd => UseInd')
  <2>1. CNext
    BY <1>1, CalmSteps
  <2>2. CInd'
    BY <1>0, <2>1, StepMaps, StepCall DEF CInd, Maps
  <2>3. TypeInd'
    BY <1>0, <2>1, StepRank, StepMemory, StepFlags, StepQuota DEF TypeInd
  <2> QED
    BY <1>0, <1>1, <2>2, <2>3, StepWeights, StepUse
<1>2. ASSUME UNCHANGED cvars PROVE CInd' /\ TypeInd' /\ Weights' /\ (Roomy /\ UseInd => UseInd')
  <2>1. UNCHANGED pools /\ call' = call /\ slot2key' = slot2key /\ content' = content
    BY <1>2 DEF cvars, pools
  <2>2. CInd'
    BY <1>0, <2>1, MapsKept DEF CInd, Maps
  <2>3. Weights'
    BY <1>0, <2>1, WeightsKept
  <2> QED
    BY <1>0, <1>2, <2>2, <2>3, TypesKept, UseKept
<1>3. CASE RNext
  <2>1. CacheStep \/ Asks => Calm
    BY DEF CacheStep, Asks, Calm
  <2>2. CInd' /\ TypeInd' /\ Weights' /\ (Roomy /\ UseInd => UseInd')
    BY <1>0, <1>1, <1>2, <1>3, <2>1, StepKinds, TouchedKeeps
  <2> QED
    BY <1>0, <1>3, <2>2, StepKinds DEF CacheInd
<1>4. CASE UNCHANGED allvars
  <2>1. UNCHANGED cvars /\ dec' = dec
    BY <1>4 DEF allvars, rvars
  <2> QED
    BY <1>0, <1>2, <2>1 DEF CacheInd
<1> QED
  BY <1>3, <1>4

LEMMA InitCache == RInit => CacheInd /\ UseInd
<1> SUFFICES ASSUME RInit PROVE CacheInd /\ UseInd
  OBVIOUS
<1>1. CInit /\ dec = NewToken("idle")
  BY DEF RInit
<1>2. DecOK(dec)
  BY <1>1, NewTokenIs
<1> QED
  BY <1>1, <1>2, InitMaps, InitCall, InitTypes, InitWeights, InitUse DEF CacheInd, CInd, Maps

LEMMA CacheInductive == RSpec => []CacheInd
BY InitCache, CacheKept, PTL DEF RSpec

-----------------------------------------------------------------------------
(* Why the stamp can leave out installs into free slots.  A key whose turn *)
(* it is in ensure() waits for the roles not handled yet; ...              *)
Pending(k, r) == call.op = "ensure" /\ call.todo # <<>> /\ k = Want /\ r \in Range(call.roles)

(* ... apart from that, a pool with a free slot holds every expert of its  *)
(* layers that was ever counted, because it has evicted nothing;           *)
CountedIn ==
    \A r \in Range(Roles) : \A k \in counted :
        Free(PoolOf[r][k[1]]) # {} => key2slot[PoolOf[r][k[1]]][k] # 0 \/ Pending(k, r)

(* a key half handled has been counted;                                    *)
Halfway ==
    call.op = "ensure" /\ call.todo # <<>> /\ Range(call.roles) # Range(Roles) => Want \in counted

(* rebalance() only fetches what was counted;                              *)
Goals == call.op = "rebalance" => call.goal \subseteq counted

(* load_prefetch() is over before the first upload;                        *)
Uploads == call.op = "prefetch" => ~fast.fresh

(* and no call is under way while a graph is about to run, with a fresh    *)
(* upload.                                                                 *)
Busy == (dec.pc \notin {"idle", "matmul", "refill"} => Idle) /\ (dec.pc = "run" => fast.fresh)

StampInd == CountedIn /\ Halfway /\ Goals /\ Uploads /\ Busy /\ StampHonest

-----------------------------------------------------------------------------
(* A key takes slot s of pool p: no slot becomes free, and as long as one  *)
(* was free no key is lost.                                                *)
Holds(p) == {k \in Keys : key2slot[p][k] # 0}

LEMMA ClaimHolds ==
    ASSUME CInd, NEW p \in Pools, NEW s \in Slots(p), NEW k \in Keys, NEW l,
           pick_victim(p, l, s), Claim(p, s, k)
    PROVE  /\ k \in Holds(p)'
           /\ \A q \in Pools : Free(q)' \subseteq Free(q)
           /\ \A q \in Pools : Free(q) # {} => Holds(q) \subseteq Holds(q)'
<1>0. MapsTyped /\ MapsAgree
  BY DEF CInd
<1>1. /\ key2slot' = [key2slot EXCEPT ![p] = [Dropped(p, s) EXCEPT ![k] = s]]
      /\ slot2key' = [slot2key EXCEPT ![p][s] = k]
  BY DEF Claim
<1>2. \A q \in Pools, j \in Keys :
          key2slot'[q][j] = IF q # p THEN key2slot[q][j]
                            ELSE IF j = k THEN s
                            ELSE IF j = slot2key[p][s] THEN 0 ELSE key2slot[p][j]
  BY <1>0, <1>1 DEF MapsTyped, Dropped
<1>3. \A q \in Pools : \A u \in Slots(q) : slot2key'[q][u] = IF q = p /\ u = s THEN k ELSE slot2key[q][u]
  BY <1>0, <1>1 DEF MapsTyped
<1>4. s # 0 /\ k # NoKey
  BY SlotsFinite, NoKeyApart DEF Slots
<1>5. k \in Holds(p)'
  BY <1>2, <1>4 DEF Holds
<1>6. ASSUME NEW q \in Pools PROVE Free(q)' \subseteq Free(q)
  BY <1>3, <1>4 DEF Free, Slots
<1>7. ASSUME NEW q \in Pools, Free(q) # {} PROVE Holds(q) \subseteq Holds(q)'
  <2>1. CASE q # p
    BY <1>2, <2>1 DEF Holds
  <2>2. CASE q = p
    <3>1. s = Min(Free(p))
      BY <1>7, <2>2 DEF pick_victim
    <3>2. Free(p) \subseteq Nat /\ Free(p) # {}
      BY <1>7, <2>2, SlotsFinite DEF Free, Slots
    <3>3. s \in Free(p)
      BY <3>1, <3>2, MinIs
    <3>4. slot2key[p][s] = NoKey
      BY <3>3 DEF Free
    <3> QED
      BY <1>2, <1>4, <2>2, <3>4, NoKeyApart DEF Holds
  <2> QED
    BY <2>1, <2>2
<1> QED
  BY <1>5, <1>6, <1>7

(* The pools after a step: none of those that still have room lost a key.  *)
NoneLost ==
    \A q \in Pools : Free(q)' # {} => Free(q) # {} /\ Holds(q) \subseteq Holds(q)'

LEMMA ClaimNoneLost ==
    ASSUME CInd, NEW p \in Pools, NEW s \in Slots(p), NEW k \in Keys, NEW l,
           pick_victim(p, l, s), Claim(p, s, k)
    PROVE  NoneLost
<1>1. \A q \in Pools : Free(q)' \subseteq Free(q)
  BY ClaimHolds
<1>2. \A q \in Pools : Free(q) # {} => Holds(q) \subseteq Holds(q)'
  BY ClaimHolds
<1> QED
  BY <1>1, <1>2 DEF NoneLost

LEMMA SameNoneLost ==
    ASSUME UNCHANGED pools
    PROVE  NoneLost
BY DEF NoneLost, Free, Holds, pools, Slots

(* Handling one role of a key in ensure(). *)
LEMMA FoundCounted ==
    ASSUME CallOK(call), CountedIn, Halfway, counted \subseteq Keys, NEW x, FoundOne(call, call', x),
           call.op = "ensure", call.todo # <<>>,
           counted' = counted \cup {Want}, NoneLost,
           NEW pool, pool = WantPool, Want \in Holds(pool)'
    PROVE  CountedIn' /\ Halfway'
<1> DEFINE w == Want
           tail == Tail(call.roles)
           h == Head(call.roles)
<1>1. /\ call.roles \in Seq(Range(Roles)) /\ call.roles # <<>> /\ call.todo \in Seq(Keys)
      /\ w \in Keys /\ h \in Range(Roles)
  BY WantTyped DEF CallOK
<1>2. /\ call'.op = "ensure"
      /\ call'.todo = IF tail = <<>> THEN Tail(call.todo) ELSE call.todo
      /\ call'.roles = IF tail = <<>> THEN Roles ELSE tail
  BY DEF FoundOne, SameCall
<1>3. \A r \in Range(call.roles) : r = h \/ r \in Range(tail)
  <2> SUFFICES ASSUME NEW i \in DOMAIN call.roles PROVE call.roles[i] = h \/ call.roles[i] \in Range(tail)
    BY DEF Range
  <2>1. CASE i = 1
    BY <1>1, <2>1
  <2>2. CASE i # 1
    <3>1. i - 1 \in DOMAIN tail /\ tail[i - 1] = call.roles[i]
      BY <1>1, <2>2
    <3> QED
      BY <3>1 DEF Range
  <2> QED
    BY <2>1, <2>2
<1>4. tail = <<>> => Range(tail) = {}
  BY DEF Range
<1>5. WantPool = PoolOf[h][w[1]] /\ Want' = Head(call'.todo)
  BY DEF WantPool, Want
<1> HIDE DEF w, tail, h
<1>6. Halfway'
  <2>1. CASE tail = <<>>
    BY <1>2, <2>1 DEF Halfway
  <2>2. CASE tail # <<>>
    <3>1. Want' = w
      BY <1>2, <1>5, <2>2 DEF w, Want
    <3>2. w \in counted'
      BY DEF w
    <3> QED
      BY <3>1, <3>2 DEF Halfway
  <2> QED
    BY <2>1, <2>2
<1>7. CountedIn'
  <2> SUFFICES ASSUME NEW r \in Range(Roles), NEW k \in counted', Free(PoolOf[r][k[1]])' # {}
               PROVE  (key2slot[PoolOf[r][k[1]]][k] # 0)' \/ Pending(k, r)'
    BY DEF CountedIn
  <2> DEFINE p == PoolOf[r][k[1]]
  <2>0. k \in Keys /\ p \in Pools
    <3>1. k \in Keys
      BY <1>1 DEF w
    <3>2. k[1] \in Layers
      BY <3>1 DEF Keys
    <3> QED
      BY <3>1, <3>2, RolesThere
  <2>1. Free(p) # {} /\ Holds(p) \subseteq Holds(p)'
    BY <2>0 DEF NoneLost
  <2>2. CASE k \in counted /\ key2slot[p][k] # 0
    <3>1. k \in Holds(p)'
      BY <2>0, <2>1, <2>2 DEF Holds
    <3> QED
      BY <3>1 DEF Holds
  <2>3. CASE k = w /\ r \in Range(call.roles)
    <3>1. CASE r = h
      <4>1. k \in Holds(p)'
        BY <1>5, <2>3, <3>1 DEF w
      <4> QED
        BY <4>1 DEF Holds
    <3>2. CASE r # h
      <4>1. r \in Range(tail) /\ tail # <<>>
        BY <1>3, <1>4, <2>3, <3>2
      <4>2. call'.todo = call.todo /\ call'.roles = tail /\ Want' = w
        BY <1>2, <1>5, <4>1 DEF w, Want
      <4> QED
        BY <1>2, <2>3, <4>1, <4>2 DEF Pending
    <3> QED
      BY <3>1, <3>2
  <2>4. CASE k = w /\ k \notin counted
    <3>1. Range(call.roles) = Range(Roles)
      BY <2>4 DEF Halfway, w
    <3> QED
      BY <2>3, <2>4, <3>1
  <2>5. CASE k \in counted /\ key2slot[p][k] = 0
    <3>1. Pending(k, r)
      BY <2>1, <2>5 DEF CountedIn
    <3> QED
      BY <2>3, <3>1 DEF Pending, w
  <2>6. k \in counted \/ k = w
    BY DEF w
  <2> QED
    BY <2>2, <2>4, <2>5, <2>6
<1> QED
  BY <1>6, <1>7

(* Steps that count nothing and start or end no key of an ensure(). *)
LEMMA CountedKept ==
    ASSUME CountedIn, counted \subseteq Keys, counted' \subseteq counted, NoneLost,
           \A k \in Keys, r \in Range(Roles) : ~Pending(k, r)
    PROVE  CountedIn'
<1> SUFFICES ASSUME NEW r \in Range(Roles), NEW k \in counted', Free(PoolOf[r][k[1]])' # {}
             PROVE  (key2slot[PoolOf[r][k[1]]][k] # 0)'
  BY DEF CountedIn
<1> DEFINE p == PoolOf[r][k[1]]
<1>1. k \in Keys /\ k[1] \in Layers
  BY DEF Keys
<1>2. p \in Pools
  BY <1>1, RolesThere
<1>3. Free(p) # {} /\ Holds(p) \subseteq Holds(p)'
  BY <1>2 DEF NoneLost
<1>4. key2slot[p][k] # 0
  BY <1>1, <1>3 DEF CountedIn
<1>5. k \in Holds(p)'
  BY <1>1, <1>3, <1>4 DEF Holds
<1> QED
  BY <1>5 DEF Holds

(* Only experts that are resident are reported. *)
LEMMA ReportsResident ==
    ASSUME CacheInd, StampInd, RNext
    PROVE  CacheStep \/ Asks \/ (Idle /\ Reports) \/ UNCHANGED cvars
<1>0. DecOK(dec) /\ StampHonest /\ Busy
  BY DEF CacheInd, StampInd
<1>1. CASE FastMasked
  <2>1. PICK s \in Routes(fast.mask) : UNCHANGED cvars \/ (Touched(InLayers(s)) /\ InLayers(s) \in Seq(AllKeys(s)))
    BY <1>0, <1>1, FastMaskedIs
  <2>2. Idle /\ dec.pc = "run" /\ fast.complete
    BY <1>0, <1>1, FastMaskedIs DEF FastMasked
  <2>3. \A l \in Layers : fast.mask[l] \subseteq Palette(l)
    BY <1>0, <2>2 DEF Busy, StampHonest
  <2>4. AllKeys(s) \subseteq Keys /\ \A l \in Layers, e \in Experts : <<l, e>> \in AllKeys(s) => e \in fast.mask[l]
    BY RoutedKeys
  <2>5. ASSUME NEW k \in AllKeys(s) PROVE Resident(k)
    <3>1. PICK l \in Layers, e \in Experts : k = <<l, e>>
      BY <2>4 DEF Keys
    <3>2. e \in Palette(l)
      BY <2>3, <2>4, <3>1
    <3> QED
      BY <3>1, <3>2 DEF Palette
  <2>6. CASE Touched(InLayers(s)) /\ InLayers(s) \in Seq(AllKeys(s))
    <3>1. InLayers(s) \in Seq(Keys) /\ \A k \in Range(InLayers(s)) : Resident(k)
      BY <2>4, <2>5, <2>6 DEF Range
    <3> QED
      BY <2>2, <2>6, <3>1 DEF Reports
  <2> QED
    BY <2>1, <2>6
<1>2. CASE FastAccepted
  <2>1. PICK s \in Routes(fast.mask) :
            /\ \A k \in AllKeys(s) : Resident(k)
            /\ Touched(InLayers(s)) /\ InLayers(s) \in Seq(AllKeys(s))
    BY <1>0, <1>2, FastAcceptedIs
  <2>2. AllKeys(s) \subseteq Keys
    BY RoutedKeys
  <2>3. InLayers(s) \in Seq(Keys) /\ \A k \in Range(InLayers(s)) : Resident(k)
    BY <2>1, <2>2 DEF Range
  <2> QED
    BY <1>0, <1>2, <2>1, <2>3, FastAcceptedIs DEF Reports
<1>3. CASE Split
  <2>1. Idle /\ \E ids \in Selections(NUsed) :
            /\ Touched(OnGpu(ids)) /\ OnGpu(ids) \in Seq(Keys)
            /\ \A k \in Range(OnGpu(ids)) : Resident(k)
    BY <1>0, <1>3, SplitIs
  <2> QED
    BY <2>1 DEF Reports
<1>4. CASE ~FastMasked /\ ~FastAccepted /\ ~Split
  <2>1. Prefill => Asks
    BY DEF Prefill, Asks
  <2>2. RefillNext => UNCHANGED cvars \/ Asks
    BY <1>0, RefillNextIs DEF Asks
  <2>3. Select => Asks
    BY <1>0, SelectIs DEF Asks, EnsureToken, DecOK
  <2>4. Begin \/ TokenEnds \/ RefillEnds \/ FastInputs \/ FastMissed \/ Matmul \/ CmAdd => UNCHANGED cvars
    BY DEF Begin, TokenEnds, RefillEnds, FastInputs, FastMissed, Matmul, CmAdd
  <2> QED
    BY <1>4, <2>1, <2>2, <2>3, <2>4 DEF RNext
<1> QED
  BY <1>1, <1>2, <1>3, <1>4

(* What is counted, and what rebalance() asks for. *)
Counting == CountedIn /\ Halfway /\ Goals

LEMMA QuietCounting ==
    ASSUME CInd, FlagsTyped, Counting, counted' = counted, NoneLost, call.op # "ensure" \/ call.todo = <<>>,
           call'.op # "ensure" \/ call'.roles = Roles,
           call'.op # "rebalance" \/ call'.goal \subseteq counted
    PROVE  Counting'
<1>1. CountedIn'
  BY CountedKept DEF Counting, Pending, FlagsTyped
<1>2. Halfway' /\ Goals'
  BY DEF Counting, Halfway, Goals
<1> QED
  BY <1>1, <1>2 DEF Counting

LEMMA StepCounting ==
    ASSUME CInd, TypeInd, Counting, CacheStep \/ Asks \/ (Idle /\ Reports) \/ UNCHANGED cvars
    PROVE  Counting'
<1>0. CallOK(call) /\ FlagsTyped /\ counted \subseteq Keys
  BY DEF CInd, TypeInd, FlagsTyped
<1>1. CASE Hit
  <2>0. call.op = "ensure" /\ call.todo # <<>> /\ Here # 0 /\ counted' = counted \cup {Want} /\ UNCHANGED pools
    BY <1>1 DEF Hit
  <2>1. FoundOne(call, call', Out(Here))
    BY <1>0, <1>1, HitOn
  <2>2. PICK pool : pool = WantPool
    OBVIOUS
  <2>3. Want \in Holds(pool)'
    BY <2>0, <2>2, HereTyped DEF Holds, Here, pools
  <2>4. NoneLost
    BY <2>0, SameNoneLost
  <2>5. CountedIn' /\ Halfway'
    BY <1>0, <2>0, <2>1, <2>2, <2>3, <2>4, FoundCounted DEF Counting
  <2>6. Goals'
    BY <2>0, <2>1 DEF Goals, FoundOne, SameCall
  <2> QED
    BY <2>5, <2>6 DEF Counting
<1>2. CASE Miss
  <2>0. call.op = "ensure" /\ call.todo # <<>> /\ counted' = counted \cup {Want}
    BY <1>2 DEF Miss
  <2>1. PICK s \in Slots(WantPool) :
            /\ pick_victim(WantPool, Want[1], s) /\ Claim(WantPool, s, Want)
            /\ call' = Advanced(Found(IF Ssd THEN Queued(call, Out(s)) ELSE call, Out(s)))
    BY <1>2 DEF Miss
  <2>2. FoundOne(call, call', Out(s))
    BY <1>0, <2>1, MissOn
  <2>3. PICK pool, k, l : pool = WantPool /\ k = Want /\ l = Want[1]
    OBVIOUS
  <2>4. pool \in Pools /\ k \in Keys /\ s \in Slots(pool)
    BY <1>0, <2>0, <2>1, <2>3, WantTyped
  <2>5. pick_victim(pool, l, s) /\ Claim(pool, s, k)
    BY <2>1, <2>3
  <2>6. k \in Holds(pool)' /\ NoneLost
    BY <2>4, <2>5, ClaimHolds, ClaimNoneLost
  <2>7. CountedIn' /\ Halfway'
    BY <1>0, <2>0, <2>2, <2>3, <2>6, FoundCounted DEF Counting
  <2>8. Goals'
    BY <2>0, <2>2 DEF Goals, FoundOne, SameCall
  <2> QED
    BY <2>7, <2>8 DEF Counting
<1>3. CASE Skip
  <2>1. call' = Advanced(call) /\ call.op # "ensure" /\ counted' = counted /\ UNCHANGED pools
    BY <1>3 DEF Skip, Fetching
  <2>2. SameCall(call, call')
    BY <1>0, <2>1, CallGoesOn
  <2> QED
    BY <1>0, <2>1, <2>2, SameNoneLost, QuietCounting DEF SameCall, Counting, Goals
<1>4. CASE Install
  <2>0. call' = Advanced(call) /\ call.op # "ensure" /\ counted' = counted /\ call.todo # <<>>
    BY <1>4 DEF Install, Installing, Fetching
  <2>1. PICK s \in Slots(WantPool) : pick_victim(WantPool, Want[1], s) /\ Claim(WantPool, s, Want)
    BY <1>4 DEF Install
  <2>2. SameCall(call, call')
    BY <1>0, <2>0, CallGoesOn
  <2>3. WantPool \in Pools /\ Want \in Keys
    BY <1>0, <2>0, WantTyped
  <2>4. NoneLost
    BY <2>1, <2>3, ClaimNoneLost
  <2> QED
    BY <1>0, <2>0, <2>2, <2>4, QuietCounting DEF SameCall, Counting, Goals
<1>5. CASE Return \/ Done
  <2>1. /\ call' = NoCall /\ counted' = counted /\ UNCHANGED pools
        /\ call.op # "ensure" \/ call.todo = <<>>
    BY <1>5 DEF Return, Done, Fetching
  <2>2. call'.op = "none"
    BY <2>1 DEF NoCall, NewCall
  <2> QED
    BY <1>0, <2>1, <2>2, SameNoneLost, QuietCounting
<1>6. ASSUME NEW l \in Layers, EnsureToken(l) \/ EnsureSlice(l) PROVE Counting'
  <2>1. PICK ids, on : Ensure(l, ids, on)
    BY <1>6 DEF EnsureToken, EnsureSlice
  <2>2. /\ call.op # "ensure" /\ counted' = counted /\ UNCHANGED pools
        /\ call'.op = "ensure" /\ call'.roles = Roles
    BY <2>1 DEF Ensure, NewCall, Idle
  <2> QED
    BY <1>0, <2>2, SameNoneLost, QuietCounting
<1>7. ASSUME NEW l \in Layers, NEW e \in Experts, EnsureResident(l, e) PROVE Counting'
  <2>1. /\ call.op # "ensure" /\ counted' = counted /\ UNCHANGED pools /\ call'.op = "install"
    BY <1>7 DEF EnsureResident, NewCall, Idle
  <2> QED
    BY <1>0, <2>1, SameNoneLost, QuietCounting
<1>8. ASSUME NEW order \in Rankings, Rebalance(order) PROVE Counting'
  <2> DEFINE ents == Among(order, counted)
             q == compute_quota(ents)
  <2>1. /\ call.op # "ensure" /\ counted' = counted /\ UNCHANGED pools
        /\ call'.op = "rebalance" /\ call'.goal = Ideal(ents, q)
    BY <1>8 DEF Rebalance, NewCall, Idle
  <2>2. ents \in Seq(Keys \cap counted)
    <3>1. order \in Seq(Keys)
      BY ExpertCacheAssumption DEF Keys
    <3> QED
      BY <3>1, AmongIn
  <2> HIDE DEF ents, q
  <2>3. Ideal(ents, q) \subseteq counted
    <3>1. \A i \in DOMAIN ents : ents[i] \in counted
      BY <2>2
    <3> QED
      BY <3>1, Zenon DEF Ideal
  <2> QED
    BY <1>0, <2>1, <2>3, SameNoneLost, QuietCounting
<1>9. CASE Idle /\ Reports
  <2>1. PICK keys \in Seq(Keys) : Touched(keys) /\ \A k \in Range(keys) : Resident(k)
    BY <1>9 DEF Reports
  <2>2. counted' = counted \cup Range(keys) /\ UNCHANGED pools /\ call' = call /\ call.op = "none"
    BY <1>9, <2>1 DEF Touched, Idle
  <2>3. key2slot' = key2slot /\ slot2key' = slot2key
    BY <2>2 DEF pools
  <2>4. CountedIn'
    <3> SUFFICES ASSUME NEW r \in Range(Roles), NEW k \in counted', Free(PoolOf[r][k[1]])' # {}
                 PROVE  (key2slot[PoolOf[r][k[1]]][k] # 0)'
      BY DEF CountedIn
    <3>1. Free(PoolOf[r][k[1]]) # {}
      BY <2>3 DEF Free, Slots
    <3>2. CASE k \in counted
      <4>1. ~Pending(k, r)
        BY <2>2 DEF Pending
      <4> QED
        BY <2>3, <3>1, <3>2, <4>1 DEF Counting, CountedIn
    <3>3. CASE k \in Range(keys)
      BY <2>1, <2>3, <3>3 DEF Resident
    <3> QED
      BY <2>2, <3>2, <3>3
  <2>5. Halfway' /\ Goals'
    BY <2>2 DEF Halfway, Goals
  <2> QED
    BY <2>4, <2>5 DEF Counting
<1>10. CASE UNCHANGED cvars
  <2>1. key2slot' = key2slot /\ slot2key' = slot2key /\ counted' = counted /\ call' = call
    BY <1>10 DEF cvars
  <2> QED
    BY <2>1 DEF Counting, CountedIn, Halfway, Goals, Pending, Free, Slots, Want
<1> QED
  BY <1>1, <1>2, <1>3, <1>4, <1>5, <1>6, <1>7, <1>8, <1>9, <1>10 DEF CacheStep, Asks

-----------------------------------------------------------------------------
(* The upload and the residency, once the maps stay or the stamp passes. *)
LEMMA HonestKept ==
    ASSUME StampHonest, key2slot' = key2slot, fast' = fast
    PROVE  StampHonest'
BY DEF StampHonest, Palette, Resident

LEMMA UploadHonest ==
    ASSUME key2slot' = key2slot, fast' = Uploaded
    PROVE  StampHonest' /\ fast'.fresh
<1>1. /\ fast'.remap = key2slot /\ fast'.fresh = TRUE
      /\ fast'.complete = (mode = "resident" /\ \A l \in Layers : ~Thin(l))
      /\ fast'.mask = [l \in Layers |-> IF mode = "fast" \/ Thin(l) THEN Experts ELSE Palette(l)]
  BY DEF Uploaded
<1>2. ASSUME fast'.complete, NEW l \in Layers PROVE fast'.mask[l] = Palette(l)
  BY <1>1, <1>2
<1>3. \A l \in Layers : Palette(l)' = Palette(l)
  BY DEF Palette, Resident
<1> QED
  BY <1>1, <1>2, <1>3 DEF StampHonest

(* With a current stamp an install only takes slots by evicting. *)
LEMMA InstallStamped ==
    ASSUME CInd, TypeInd, StampInd, Install, fast.fresh
    PROVE  Stamped
<1>0. CallOK(call) /\ call.todo # <<>> /\ Fetching /\ ~Passed
  BY DEF CInd, Install, Installing
<1>1. CASE call.op = "install"
  BY <1>1 DEF Stamped
<1>2. CASE call.op = "prefetch"
  BY <1>2 DEF StampInd, Uploads
<1>3. CASE call.op = "rebalance"
  <2>1. Want \in call.goal /\ Here = 0
    BY <1>0, <1>3 DEF Passed
  <2>2. Want \in counted
    BY <1>3, <2>1 DEF StampInd, Goals
  <2>3. Head(call.roles) \in Range(Roles)
    BY <1>0 DEF CallOK
  <2>4. ~Pending(Want, Head(call.roles))
    BY <1>3 DEF Pending
  <2>5. Free(WantPool) = {}
    BY <2>1, <2>2, <2>3, <2>4 DEF StampInd, CountedIn, WantPool, Here
  <2> QED
    BY <2>5 DEF Stamped
<1> QED
  BY <1>0, <1>1, <1>2, <1>3 DEF Fetching

LEMMA NoUploadStale == NoUpload.fresh = FALSE
BY DEF NoUpload

LEMMA StepStamp ==
    ASSUME CacheInd, StampInd, RNext
    PROVE  StampInd'
<1>0. /\ CInd /\ TypeInd /\ CallOK(call) /\ DecOK(dec) /\ StampHonest /\ Busy /\ Uploads /\ Counting
  BY DEF CacheInd, CInd, StampInd, Counting
<1>1. Counting'
  BY <1>0, ReportsResident, StepCounting
<1>2. CASE CacheStep
  <2>1. call.op # "none" /\ dec' = dec
    BY <1>2 DEF CacheStep, Hit, Return, Skip, Done, Miss, Install, Installing, Fetching
  <2>2. dec.pc \in {"idle", "matmul", "refill"} /\ Busy'
    BY <1>0, <2>1 DEF Busy, Idle
  <2>3. CASE Hit \/ Return \/ Skip \/ Done
    <3>1. key2slot' = key2slot /\ fast' = fast
      <4>1. UNCHANGED pools
        BY <2>3 DEF Hit, Return, Skip, Done
      <4>2. fast' = fast
        <5>1. ~Miss /\ ~Install
          BY <2>3 DEF Hit, Return, Skip, Done, Miss, Install, Installing, Fetching
        <5> QED
          BY <1>2, <5>1 DEF CacheStep
      <4> QED
        BY <4>1, <4>2 DEF pools
    <3>2. call'.op = "prefetch" => call.op = "prefetch"
      <4>1. CASE Hit
        <5>1. FoundOne(call, call', Out(Here))
          BY <1>0, <4>1, HitOn
        <5> QED
          BY <5>1 DEF FoundOne, SameCall
      <4>2. CASE Skip
        <5>1. call' = Advanced(call)
          BY <4>2 DEF Skip
        <5>2. SameCall(call, call')
          BY <1>0, <5>1, CallGoesOn
        <5> QED
          BY <5>2 DEF SameCall
      <4>3. CASE Return \/ Done
        BY <4>3 DEF Return, Done, NoCall, NewCall
      <4> QED
        BY <2>3, <4>1, <4>2, <4>3
    <3>3. Uploads'
      BY <1>0, <3>1, <3>2 DEF Uploads
    <3> QED
      BY <1>0, <1>1, <2>2, <3>1, <3>3, HonestKept DEF StampInd, Counting
  <2>4. CASE Miss \/ Install
    <3>1. ~fast'.fresh
      <4>0. ~Hit /\ ~Return /\ ~Skip /\ ~Done
        <5>1. Miss => ~Hit /\ ~Return /\ ~Skip /\ ~Done
          BY DEF Hit, Return, Skip, Done, Miss, Fetching
        <5>2. Install => ~Hit /\ ~Return /\ ~Skip /\ ~Done
          BY DEF Hit, Return, Skip, Done, Install, Installing, Fetching
        <5> QED
          BY <2>4, <5>1, <5>2
      <4>1. \/ fast' = NoUpload
            \/ Install /\ ~Stamped /\ fast' = fast
        BY <1>2, <4>0 DEF CacheStep
      <4>2. Install /\ ~Stamped => ~fast.fresh
        BY <1>0, InstallStamped
      <4> QED
        BY <4>1, <4>2, NoUploadStale
    <3> QED
      BY <1>1, <2>2, <3>1 DEF StampInd, Counting, Uploads, StampHonest
  <2> QED
    BY <1>2, <2>3, <2>4 DEF CacheStep
<1>3. ASSUME fast' = fast, key2slot' = key2slot, call'.op # "prefetch", Busy' PROVE StampInd'
  BY <1>0, <1>1, <1>3, HonestKept DEF StampInd, Counting, Uploads
<1>4. Asks => key2slot' = key2slot /\ call'.op \in {"ensure", "install", "rebalance"}
  <2>1. ASSUME NEW l, EnsureToken(l) \/ EnsureSlice(l)
        PROVE  key2slot' = key2slot /\ call'.op = "ensure"
    <3>1. PICK ids, on : Ensure(l, ids, on)
      BY <2>1 DEF EnsureToken, EnsureSlice
    <3> QED
      BY <3>1 DEF Ensure, pools, NewCall
  <2>2. ASSUME NEW l, NEW e, EnsureResident(l, e)
        PROVE  key2slot' = key2slot /\ call'.op = "install"
    BY <2>2 DEF EnsureResident, pools, NewCall
  <2>3. ASSUME NEW order, Rebalance(order)
        PROVE  key2slot' = key2slot /\ call'.op = "rebalance"
    BY <2>3 DEF Rebalance, pools, NewCall
  <2> QED
    BY <2>1, <2>2, <2>3 DEF Asks
<1>5. ASSUME UNCHANGED cvars PROVE key2slot' = key2slot /\ call' = call
  BY <1>5 DEF cvars
<1>6. ASSUME NEW keys, Touched(keys) PROVE key2slot' = key2slot /\ call' = call
  BY <1>6 DEF Touched, pools
<1>7. CASE Prefill
  <2>1. Asks /\ fast' = fast /\ dec' = dec /\ dec.pc = "idle"
    BY <1>7 DEF Prefill, Asks, rvars
  <2>2. Busy'
    BY <2>1 DEF Busy
  <2> QED
    BY <1>3, <1>4, <2>1, <2>2
<1>8. CASE RefillNext
  <2>1. fast' = fast /\ dec'.pc = "refill" /\ Idle /\ (UNCHANGED cvars \/ Asks)
    BY <1>0, <1>8, RefillNextIs DEF RefillNext, Asks
  <2>2. Busy'
    BY <2>1 DEF Busy
  <2> QED
    BY <1>3, <1>4, <1>5, <2>1, <2>2 DEF Idle
<1>9. CASE Select
  <2>1. fast' = fast /\ dec'.pc = "matmul" /\ Asks
    BY <1>0, <1>9, SelectIs DEF Select, Asks, EnsureToken, DecOK
  <2>2. Busy'
    BY <2>1 DEF Busy
  <2> QED
    BY <1>3, <1>4, <2>1, <2>2
<1>10. ASSUME Idle, call' = call, key2slot' = key2slot, fast' = fast, dec'.pc # "run" PROVE StampInd'
  <2>1. Busy'
    BY <1>10 DEF Busy, Idle
  <2> QED
    BY <1>3, <1>10, <2>1 DEF Idle
<1>11. CASE FastInputs
  <2>1. UNCHANGED cvars /\ fast' = (IF fast.fresh /\ fast.floor = Floor THEN fast ELSE Uploaded)
    BY <1>11 DEF FastInputs
  <2>2. key2slot' = key2slot /\ call' = call /\ call.op = "none"
    BY <1>0, <1>5, <1>11, <2>1, FastInputsIs DEF Idle
  <2>3. StampHonest' /\ fast'.fresh
    BY <1>0, <2>1, <2>2, HonestKept, UploadHonest
  <2>4. Busy' /\ Uploads'
    BY <2>2, <2>3 DEF Busy, Uploads, Idle
  <2> QED
    BY <1>1, <2>3, <2>4 DEF StampInd, Counting
<1>12. CASE FastMasked
  <2>1. Idle /\ dec'.pc # "run" /\ fast' = fast
    BY <1>0, <1>12, FastMaskedIs DEF FastMasked
  <2>2. UNCHANGED cvars \/ \E keys : Touched(keys)
    BY <1>0, <1>12, FastMaskedIs
  <2> QED
    BY <1>5, <1>6, <1>10, <2>1, <2>2
<1>13. CASE FastAccepted
  <2>1. Idle /\ dec'.pc # "run" /\ fast' = fast /\ \E keys : Touched(keys)
    BY <1>0, <1>13, FastAcceptedIs DEF FastAccepted
  <2> QED
    BY <1>6, <1>10, <2>1
<1>14. CASE Split
  <2>1. Idle /\ dec'.pc # "run" /\ fast' = fast
    BY <1>0, <1>14, SplitIs DEF Split
  <2>2. \E keys : Touched(keys)
    BY <1>0, <1>14, SplitIs
  <2> QED
    BY <1>6, <1>10, <2>1, <2>2
<1>15. CASE Begin \/ TokenEnds \/ RefillEnds \/ FastMissed \/ Matmul \/ CmAdd
  <2>1. UNCHANGED cvars /\ fast' = fast
    BY <1>15 DEF Begin, TokenEnds, RefillEnds, FastMissed, Matmul, CmAdd
  <2>2. Idle /\ dec'.pc # "run"
    BY <1>0, <1>15, BeginIs, TokenEndsIs, RefillEndsIs, FastMissedIs, MatmulIs, CmAddIs
  <2> QED
    BY <1>5, <1>10, <2>1, <2>2
<1> QED
  BY <1>2, <1>7, <1>8, <1>9, <1>11, <1>12, <1>13, <1>14, <1>15 DEF RNext

LEMMA InitStamp == RInit => StampInd
<1> SUFFICES ASSUME RInit PROVE StampInd
  OBVIOUS
<1>1. CInit /\ fast = NoUpload /\ dec.pc = "idle" /\ counted = {}
  BY NewTokenIs DEF RInit, CInit
<1>2. call.op \in {"none", "prefetch"}
  BY <1>1 DEF CInit, NoCall, NewCall
<1>3. ~fast.fresh
  BY <1>1, NoUploadStale
<1> QED
  BY <1>1, <1>2, <1>3 DEF StampInd, CountedIn, Halfway, Goals, Uploads, Busy, StampHonest

LEMMA StampKept ==
    ASSUME StampInd, UNCHANGED allvars
    PROVE  StampInd'
<1>1. key2slot' = key2slot /\ slot2key' = slot2key /\ counted' = counted /\ call' = call /\ fast' = fast /\ dec' = dec
  BY DEF allvars, cvars, rvars
<1>2. Counting'
  BY <1>1 DEF StampInd, Counting, CountedIn, Halfway, Goals, Pending, Free, Slots, Want
<1>3. StampHonest'
  BY <1>1, HonestKept DEF StampInd
<1> QED
  BY <1>1, <1>2, <1>3 DEF StampInd, Counting, Busy, Idle, Uploads

LEMMA StampInductive == RSpec => []StampInd
<1>1. CacheInd /\ StampInd /\ [RNext]_allvars => StampInd'
  BY StepStamp, StampKept
<1> QED
  BY <1>1, InitStamp, CacheInductive, PTL DEF RSpec

(* Misses and evictions are all that the stamp has to count: as long as it *)
(* is current, the uploaded remap table is the residency and a complete    *)
(* mask lets only resident experts through.  rebalance() never installs    *)
(* into a free slot behind the stamp's back, because a pool with a free    *)
(* slot has evicted nothing, whatever was counted is still in it, and      *)
(* nothing else is fetched.                                                *)
THEOREM StampStaysHonest == RSpec => []StampHonest
<1>1. StampInd => StampHonest
  BY DEF StampInd
<1> QED
  BY <1>1, StampInductive, PTL

-----------------------------------------------------------------------------
(* Adding up.  h counts every expert of S once and no other. *)
Once(h, S) == h = [k \in Keys |-> IF k \in S THEN 1 ELSE 0]

LEMMA PlusOnce ==
    ASSUME NEW h, NEW S, Once(h, S), NEW T, S \cap T = {}
    PROVE  Once(Plus(h, T), S \cup T)
<1>1. \A k \in Keys : h[k] = IF k \in S THEN 1 ELSE 0
  BY DEF Once
<1>2. \A k \in Keys : (IF k \in T /\ h[k] < 2 THEN h[k] + 1 ELSE h[k]) = IF k \in S \cup T THEN 1 ELSE 0
  BY <1>1
<1> QED
  BY <1>2 DEF Once, Plus

(* With no call under way, the slot of a resident expert is the right one. *)
LEMMA ResidentRead ==
    ASSUME CInd, Weights, Idle, NEW k \in Keys, Resident(k)
    PROVE  Reads(key2slot, k)
<1> SUFFICES ASSUME NEW r \in Range(Roles)
             PROVE  LET p == PoolOf[r][k[1]] IN key2slot[p][k] # 0 /\ content[p][key2slot[p][k]] = k
  BY DEF Reads
<1> DEFINE p == PoolOf[r][k[1]]
           s == key2slot[p][k]
<1>1. p \in Pools /\ s # 0
  BY RolesThere, NoKeyApart DEF Resident
<1>2. s \in Slots(p) /\ slot2key[p][s] = k
  BY <1>1 DEF CInd, MapsAgree
<1>3. call.jobs = {}
  BY DEF Weights, JobsMatch, Idle
<1>4. ~Reserved(p, s) /\ slot2key[p][s] # NoKey
  BY <1>2, <1>3, NoKeyApart DEF Reserved
<1>5. content[p][s] = k
  BY <1>1, <1>2, <1>4 DEF Weights, HoldsWeights
<1> QED
  BY <1>1, <1>5

-----------------------------------------------------------------------------
(* What the token has added up, by the place it is at. *)
Blank == dec.sel = {} /\ Once(dec.h, {}) /\ dec.wrong = FALSE /\ dec.corr = {} /\ dec.absorbed = 0

Right == dec.wrong = FALSE /\ dec.absorbed = 1

Earlier == {k \in dec.sel : k[1] < dec.layer}
Current == {k \in dec.sel : k[1] = dec.layer}

(* All of the selection has been added. *)
Whole == Right /\ dec.corr = {} /\ Once(dec.h, dec.sel)

(* All but what waits for the CPU. *)
Awaiting == Right /\ dec.corr \subseteq dec.sel /\ Once(dec.h, dec.sel \ dec.corr)

(* All but the current layer's, which ensure() is at or has returned. *)
Selecting ==
    /\ Right /\ dec.corr = {} /\ Once(dec.h, Earlier) /\ dec.sel = Earlier \cup Current
    /\ call.op \in {"none", "ensure"}
    /\ Idle => Current = {x.key : x \in result}
    /\ ~Idle => Current = Asked(call)

Work ==
    /\ dec.pc \in {"idle", "fast", "run"} => Blank
    /\ dec.pc = "select" => Whole /\ dec.sel = Earlier
    /\ dec.pc = "matmul" => Selecting
    /\ dec.pc = "split" => Awaiting /\ dec.sel = Earlier
    /\ dec.pc = "add" => Awaiting
    /\ dec.pc \in {"refill", "end"} => Whole

WorkInd == CacheInd /\ StampInd /\ UseInd /\ Work

LEMMA NothingDone ==
    ASSUME NEW d, Nothing(d)
    PROVE  d.sel = {} /\ Once(d.h, {}) /\ d.wrong = FALSE /\ d.corr = {}
BY DEF Nothing, Once

(* A graph over all layers. *)
LEMMA RanWhole ==
    ASSUME CacheInd, StampInd, Blank, Idle, fast.fresh, NEW s \in Routes(fast.mask), RanSum(s, dec'),
           \A k \in AllKeys(s) : Resident(k)
    PROVE  Whole'
<1>0. CInd /\ Weights /\ fast.remap = key2slot
  BY DEF CacheInd, StampInd, StampHonest
<1>1. AllKeys(s) \subseteq Keys
  BY RoutedKeys
<1>2. \A k \in AllKeys(s) : Reads(fast.remap, k)
  BY <1>0, <1>1, ResidentRead
<1> DEFINE K == AllKeys(s)
           none == {}
<1>3. /\ dec'.sel = K /\ dec'.h = Plus(dec.h, K) /\ dec'.corr = {} /\ dec'.absorbed = 1
      /\ Once(dec.h, none)
  BY DEF RanSum, Blank
<1>4. dec'.wrong = FALSE
  BY <1>2 DEF RanSum
<1>5. none \cap K = {} /\ none \cup K = K
  OBVIOUS
<1> HIDE DEF K, none
<1>6. Once(Plus(dec.h, K), K)
  BY <1>3, <1>5, PlusOnce
<1> QED
  BY <1>3, <1>4, <1>6 DEF Whole, Right

(* Segment B of a layer. *)
LEMMA MatmulWork ==
    ASSUME CacheInd, UseInd, Selecting, Matmul
    PROVE  Work'
<1>0. CInd /\ Weights /\ DecOK(dec) /\ dec.layer \in Layers
  BY DEF CacheInd, DecOK
<1>1. EnsureUsable
  BY <1>0, UseFollows
<1> DEFINE C == Current
           E == Earlier
           l == dec.layer
<1>2. /\ dec'.pc = IF dec.layer = LastLayer THEN "end" ELSE "select"
      /\ dec'.h = Plus(dec.h, C) /\ dec'.layer = NextLayer(l) /\ dec'.sel = dec.sel
      /\ dec'.corr = {} /\ dec'.absorbed = 1
  <2>1. Idle
    BY <1>0, MatmulIs
  <2> QED
    BY <1>0, <2>1, MatmulIs DEF Selecting, Right
<1>3. dec'.wrong = FALSE
  <2>1. dec'.wrong = (dec.wrong \/ \E x \in result : content[x.pool][x.slot] # x.key)
    BY <1>0, MatmulIs
  <2> QED
    BY <1>1, <2>1 DEF EnsureUsable, Selecting, Right
<1>4. E \cap C = {} /\ dec.sel = E \cup C
  <2>1. dec.sel = E \cup C
    BY DEF Selecting
  <2>2. l \in Nat
    BY <1>0, LayerEnds
  <2> QED
    BY <2>1, <2>2 DEF Earlier, Current
<1>5. Once(dec'.h, dec'.sel)
  <2>1. Once(dec.h, E)
    BY DEF Selecting
  <2> HIDE DEF E, C
  <2> QED
    BY <1>2, <1>4, <2>1, PlusOnce
<1>6. Whole'
  BY <1>2, <1>3, <1>5 DEF Whole, Right
<1>7. ASSUME l # LastLayer PROVE (dec.sel = Earlier)'
  <2>1. l < NextLayer(l) /\ l \in Nat /\ NextLayer(l) \in Nat
    BY <1>0, <1>7, LayerAfter, LayerEnds
  <2>2. \A k \in dec.sel : k[1] \in Nat
    BY <1>0, LayerEnds DEF DecOK, Keys
  <2>3. \A k \in dec.sel : k[1] < l \/ k[1] = l
    BY <1>4 DEF Earlier, Current
  <2>4. \A k \in dec'.sel : k[1] < dec'.layer
    BY <1>2, <2>1, <2>2, <2>3
  <2> QED
    BY <2>4 DEF Earlier
<1> QED
  BY <1>2, <1>6, <1>7 DEF Work

(* A layer split between GPU and CPU. *)
LEMMA SplitWork ==
    ASSUME CacheInd, Awaiting, dec.sel = Earlier, Split
    PROVE  Work'
<1>0. CInd /\ Weights /\ DecOK(dec) /\ dec.layer \in Layers
  BY DEF CacheInd, DecOK
<1>1. /\ Idle
      /\ dec'.pc = IF dec.layer = LastLayer THEN "add" ELSE "split"
      /\ dec'.layer = NextLayer(dec.layer) /\ dec'.absorbed = dec.absorbed
  BY <1>0, SplitIs
<1>2. PICK ids \in Selections(NUsed) :
          /\ Range(OnGpu(ids)) \subseteq KeysOf(dec.layer, ids)
          /\ \A k \in Range(OnGpu(ids)) : Resident(k)
          /\ dec'.sel = dec.sel \cup KeysOf(dec.layer, ids)
          /\ dec'.h = Plus(Plus(dec.h, dec.corr), Range(OnGpu(ids)))
          /\ dec'.wrong = (dec.wrong \/ \E k \in Range(OnGpu(ids)) : ~Reads(key2slot, k))
          /\ dec'.corr = KeysOf(dec.layer, ids) \ Range(OnGpu(ids))
  BY <1>0, SplitIs
<1> DEFINE K == KeysOf(dec.layer, ids)
           G == Range(OnGpu(ids))
           S == dec.sel
           C == dec.corr
           l == dec.layer
<1>3. K \subseteq Keys /\ \A k \in K : k[1] = l
  BY <1>0, NamedIs
<1>4. \A k \in S : k[1] < l /\ k[1] \in Nat
  BY <1>0, LayerEnds DEF Earlier, DecOK, Keys
<1>5. l \in Nat
  BY <1>0, LayerEnds
<1>6. S \cap K = {}
  BY <1>3, <1>4, <1>5
<1>7. \A k \in G : Reads(key2slot, k)
  BY <1>0, <1>1, <1>2, <1>3, ResidentRead
<1>8. dec'.wrong = FALSE /\ dec'.absorbed = 1
  BY <1>1, <1>2, <1>7 DEF Awaiting, Right
<1>9. /\ G \subseteq K /\ dec'.sel = S \cup K /\ dec'.h = Plus(Plus(dec.h, C), G) /\ dec'.corr = K \ G
      /\ C \subseteq S /\ Once(dec.h, S \ C)
  BY <1>2 DEF Awaiting
<1> HIDE DEF K, G, S, C, l
<1>10. Once(dec'.h, dec'.sel \ dec'.corr)
  <2> DEFINE h1 == Plus(dec.h, C)
             D == S \ C
  <2>1. D \cap C = {} /\ D \cup C = S
    BY <1>9
  <2> HIDE DEF D
  <2>2. Once(h1, S)
    <3>1. Once(dec.h, D)
      BY <1>9 DEF D
    <3>2. Once(h1, D \cup C)
      BY <2>1, <3>1, PlusOnce
    <3> QED
      BY <2>1, <3>2
  <2>3. S \cap G = {}
    BY <1>6, <1>9
  <2> HIDE DEF h1
  <2>4. Once(Plus(h1, G), S \cup G)
    BY <2>2, <2>3, PlusOnce
  <2>5. (S \cup K) \ (K \ G) = S \cup G
    BY <1>6, <1>9
  <2> QED
    BY <1>9, <2>4, <2>5 DEF h1
<1>11. Awaiting'
  BY <1>8, <1>9, <1>10 DEF Awaiting, Right
<1>12. ASSUME l # LastLayer PROVE (dec.sel = Earlier)'
  <2>1. l < NextLayer(l) /\ NextLayer(l) \in Nat
    BY <1>0, <1>12, LayerAfter, LayerEnds DEF l
  <2>2. \A k \in dec'.sel : k[1] < dec'.layer
    BY <1>1, <1>3, <1>4, <1>5, <1>9, <2>1 DEF l
  <2> QED
    BY <2>2 DEF Earlier
<1> QED
  BY <1>1, <1>11, <1>12 DEF Work, l

(* ensure() works on the current layer's selection. *)
LEMMA EnsureWork ==
    ASSUME CInd, Selecting, CacheStep
    PROVE  Selecting'
<1>0. CallOK(call) /\ dec' = dec
  BY DEF CInd, CacheStep
<1>1. Earlier' = Earlier /\ Current' = Current /\ Right'
  BY <1>0 DEF Earlier, Current, Selecting, Right
<1>2. call.op # "none"
  BY DEF CacheStep, Hit, Return, Skip, Done, Miss, Install, Installing, Fetching
<1>3. call.op = "ensure" /\ Current = Asked(call)
  BY <1>2 DEF Selecting, Idle
<1>4. Hit \/ Miss \/ Return
  BY <1>3 DEF CacheStep, Skip, Done, Install, Installing, Fetching
<1>5. CASE Hit \/ Miss
  <2>1. PICK x : FoundOne(call, call', x) /\ x.key = Head(call.todo)
    <3>1. CASE Hit
      BY <1>0, <3>1, HitOn, OutTyped DEF Want
    <3>2. CASE Miss
      <4>1. PICK s : call' = Advanced(Found(IF Ssd THEN Queued(call, Out(s)) ELSE call, Out(s)))
        BY <3>2 DEF Miss
      <4> QED
        BY <1>0, <4>1, MissOn, OutTyped DEF Want
    <3> QED
      BY <1>5, <3>1, <3>2
  <2>2. call.todo # <<>>
    BY <1>5 DEF Hit, Miss
  <2>3. Asked(call') = Asked(call)
    BY <1>0, <2>1, <2>2, AskedSame
  <2>4. call'.op = "ensure"
    BY <1>3, <2>1 DEF FoundOne, SameCall
  <2> QED
    BY <1>0, <1>1, <1>3, <2>3, <2>4 DEF Selecting, Idle
<1>6. CASE Return
  <2>1. call'.op = "none" /\ result' = call.out /\ call.todo = <<>>
    BY <1>6 DEF Return, NoCall, NewCall
  <2>2. Asked(call) = {x.key : x \in call.out}
    BY <2>1 DEF Asked, Range
  <2> QED
    BY <1>0, <1>1, <1>3, <2>1, <2>2 DEF Selecting, Idle
<1> QED
  BY <1>4, <1>5, <1>6

LEMMA SelectWork ==
    ASSUME CacheInd, Whole, dec.sel = Earlier, Select
    PROVE  Work'
<1>0. DecOK(dec) /\ dec.layer \in Layers
  BY DEF CacheInd, DecOK
<1> DEFINE l == dec.layer
           S == dec.sel
<1>1. /\ dec'.pc = "matmul" /\ dec'.layer = l /\ dec'.h = dec.h /\ dec'.wrong = FALSE
      /\ dec'.corr = {} /\ dec'.absorbed = 1
  BY <1>0, SelectIs DEF Whole, Right
<1>2. PICK ids \in Selections(NUsed) : Ensure(l, ids, quota_on) /\ dec'.sel = S \cup KeysOf(l, ids)
  BY <1>0, SelectIs
<1> DEFINE K == KeysOf(l, ids)
<1>3. Range(Named(l, ids)) = K /\ \A k \in K : k[1] = l
  BY <1>0, NamedIs
<1>4. call' = NewCall("ensure", Named(l, ids), {}, quota_on)
  BY <1>2 DEF Ensure, Named
<1>5. call'.op = "ensure" /\ Asked(call') = K
  <2>1. call'.op = "ensure" /\ call'.todo = Named(l, ids) /\ call'.out = {}
    BY <1>4 DEF NewCall
  <2> QED
    BY <1>3, <2>1 DEF Asked
<1>6. l \in Nat /\ \A k \in S : k[1] < l
  BY <1>0, LayerEnds DEF Earlier
<1>7. dec'.sel = S \cup K /\ Once(dec.h, S)
  BY <1>2 DEF Whole
<1> HIDE DEF K, S, l
<1>8. Earlier' = S /\ Current' = K
  <2>1. Earlier' = {k \in S \cup K : k[1] < l} /\ Current' = {k \in S \cup K : k[1] = l}
    BY <1>1, <1>7 DEF Earlier, Current
  <2>2. \A k \in S : k[1] # l
    <3>1. \A k \in S : k[1] \in Nat
      BY <1>0, LayerEnds DEF S, DecOK, Keys
    <3> QED
      BY <1>6, <3>1
  <2> QED
    BY <1>3, <1>6, <2>1, <2>2
<1>9. Selecting'
  BY <1>1, <1>5, <1>7, <1>8 DEF Selecting, Right, Idle
<1> QED
  BY <1>1, <1>9 DEF Work

LEMMA StepWork ==
    ASSUME WorkInd, RNext
    PROVE  Work'
<1>0. /\ CacheInd /\ StampInd /\ UseInd /\ Work /\ CInd /\ DecOK(dec) /\ Busy /\ StampHonest
  BY DEF WorkInd, CacheInd, StampInd
<1>1. ASSUME dec'.pc \in {"refill", "end"}, Whole' PROVE Work'
  BY <1>1 DEF Work
<1>2. ASSUME Whole, SameSum(dec, dec') PROVE Whole'
  BY <1>2 DEF Whole, Right, SameSum
<1>3. CASE CacheStep \/ Prefill
  <2>0. dec' = dec
    BY <1>3 DEF CacheStep, Prefill, rvars
  <2>1. CASE dec.pc = "matmul"
    <3>1. CacheStep
      BY <1>3, <2>1 DEF Prefill
    <3>2. Selecting'
      BY <1>0, <2>1, <3>1, EnsureWork DEF Work
    <3> QED
      BY <2>0, <2>1, <3>2 DEF Work
  <2>2. CASE dec.pc # "matmul"
    BY <1>0, <2>0, <2>2 DEF Work, Blank, Whole, Awaiting, Right, Earlier
  <2> QED
    BY <2>1, <2>2
<1>4. CASE Begin
  <2>1. /\ Nothing(dec') /\ dec.pc = "idle"
        /\ \/ dec'.pc = "fast" /\ dec'.absorbed = 0
           \/ dec'.pc \in {"split", "select"} /\ dec'.absorbed = dec.absorbed + 1
    BY <1>4, BeginIs
  <2>2. dec.absorbed = 0
    BY <1>0, <2>1 DEF Work, Blank
  <2>3. dec'.sel = {} /\ Once(dec'.h, {}) /\ dec'.wrong = FALSE /\ dec'.corr = {}
    BY <2>1, NothingDone
  <2>4. CASE dec'.pc = "fast" /\ dec'.absorbed = 0
    BY <2>3, <2>4 DEF Work, Blank
  <2>5. CASE dec'.pc \in {"split", "select"} /\ dec'.absorbed = 1
    BY <2>3, <2>5 DEF Work, Whole, Awaiting, Right, Earlier
  <2> QED
    BY <2>1, <2>2, <2>4, <2>5
<1>5. CASE TokenEnds
  <2>1. Nothing(dec') /\ dec'.pc = "idle" /\ dec'.absorbed = 0
    BY <1>5, TokenEndsIs
  <2> QED
    BY <2>1, NothingDone DEF Work, Blank
<1>6. CASE RefillNext \/ RefillEnds
  <2>1. SameSum(dec, dec') /\ dec.pc = "refill" /\ dec'.pc \in {"refill", "end"}
    BY <1>0, <1>6, RefillNextIs, RefillEndsIs
  <2> QED
    BY <1>0, <1>1, <1>2, <2>1 DEF Work
<1>7. CASE FastInputs
  <2>1. SameSum(dec, dec') /\ dec.pc = "fast" /\ dec'.pc = "run"
    BY <1>0, <1>7, FastInputsIs
  <2> QED
    BY <1>0, <2>1 DEF Work, Blank, SameSum
<1>8. CASE FastMasked
  <2>1. Idle /\ dec.pc = "run" /\ fast.complete /\ dec'.pc \in {"refill", "end"}
    BY <1>0, <1>8, FastMaskedIs DEF FastMasked
  <2>2. PICK s \in Routes(fast.mask) : RanSum(s, dec')
    BY <1>0, <1>8, FastMaskedIs
  <2>3. fast.fresh /\ Blank /\ \A l \in Layers : fast.mask[l] \subseteq Palette(l)
    BY <1>0, <2>1 DEF Busy, StampHonest, Work
  <2>4. AllKeys(s) \subseteq Keys /\ \A l \in Layers, e \in Experts : <<l, e>> \in AllKeys(s) => e \in fast.mask[l]
    BY RoutedKeys
  <2>5. ASSUME NEW k \in AllKeys(s) PROVE Resident(k)
    <3>1. PICK l \in Layers, e \in Experts : k = <<l, e>>
      BY <2>4 DEF Keys
    <3>2. e \in Palette(l)
      BY <2>3, <2>4, <3>1
    <3> QED
      BY <3>1, <3>2 DEF Palette
  <2>6. Whole'
    BY <1>0, <2>1, <2>2, <2>3, <2>5, RanWhole
  <2> QED
    BY <1>1, <2>1, <2>6
<1>9. CASE FastAccepted
  <2>1. Idle /\ dec.pc = "run" /\ dec'.pc = "end"
    BY <1>0, <1>9, FastAcceptedIs
  <2>2. PICK s \in Routes(fast.mask) : RanSum(s, dec') /\ \A k \in AllKeys(s) : Resident(k)
    BY <1>0, <1>9, FastAcceptedIs
  <2>3. fast.fresh /\ Blank
    BY <1>0, <2>1 DEF Busy, Work
  <2>4. Whole'
    BY <1>0, <2>1, <2>2, <2>3, RanWhole
  <2> QED
    BY <1>1, <2>1, <2>4
<1>10. CASE FastMissed
  <2>1. Nothing(dec') /\ dec.pc = "run" /\ dec'.pc = "select" /\ dec'.absorbed = dec.absorbed + 1
    BY <1>0, <1>10, FastMissedIs
  <2>2. dec'.absorbed = 1
    BY <1>0, <2>1 DEF Work, Blank
  <2>3. dec'.sel = {} /\ Once(dec'.h, {}) /\ dec'.wrong = FALSE /\ dec'.corr = {}
    BY <2>1, NothingDone
  <2> QED
    BY <2>1, <2>2, <2>3 DEF Work, Whole, Right, Earlier
<1>11. CASE Select
  <2>1. dec.pc = "select"
    BY <1>11 DEF Select
  <2> QED
    BY <1>0, <1>11, <2>1, SelectWork DEF Work
<1>12. CASE Matmul
  <2>1. dec.pc = "matmul"
    BY <1>12 DEF Matmul, Ready
  <2> QED
    BY <1>0, <1>12, <2>1, MatmulWork DEF Work
<1>13. CASE Split
  <2>1. dec.pc = "split"
    BY <1>13 DEF Split, Ready
  <2> QED
    BY <1>0, <1>13, <2>1, SplitWork DEF Work
<1>14. CASE CmAdd
  <2>1. /\ dec.pc = "add" /\ dec'.pc = "refill" /\ dec'.h = Plus(dec.h, dec.corr) /\ dec'.corr = {}
        /\ dec'.sel = dec.sel /\ dec'.wrong = dec.wrong /\ dec'.absorbed = dec.absorbed
    BY <1>0, <1>14, CmAddIs
  <2>2. Awaiting
    BY <1>0, <2>1 DEF Work
  <2> DEFINE C == dec.corr
             S == dec.sel
             D == S \ C
  <2>3. C \subseteq S /\ Once(dec.h, D)
    BY <2>2 DEF Awaiting
  <2>4. D \cap C = {} /\ D \cup C = S
    BY <2>3
  <2> HIDE DEF D, C, S
  <2>5. Once(Plus(dec.h, C), D \cup C)
    BY <2>3, <2>4, PlusOnce
  <2>6. Whole'
    BY <2>1, <2>2, <2>4, <2>5 DEF Whole, Awaiting, Right, C, S
  <2> QED
    BY <1>1, <2>1, <2>6
<1> QED
  BY <1>3, <1>4, <1>5, <1>6, <1>7, <1>8, <1>9, <1>10, <1>11, <1>12, <1>13, <1>14 DEF RNext

LEMMA InitWork == RInit => WorkInd
<1> SUFFICES ASSUME RInit PROVE WorkInd
  OBVIOUS
<1>1. Nothing(dec) /\ dec.pc = "idle" /\ dec.absorbed = 0
  BY NewTokenIs DEF RInit
<1>2. Work
  BY <1>1, NothingDone DEF Work, Blank
<1> QED
  BY <1>2, InitCache, InitStamp DEF WorkInd

LEMMA WorkKept ==
    ASSUME Work, UNCHANGED allvars
    PROVE  Work'
<1>1. dec' = dec /\ call' = call /\ result' = result
  BY DEF allvars, cvars, rvars
<1> QED
  BY <1>1 DEF Work, Blank, Whole, Awaiting, Selecting, Right, Earlier, Current, Idle, Asked

LEMMA WorkInductive == ASSUME Roomy PROVE RSpec => []WorkInd
<1>1. WorkInd /\ [RNext]_allvars => WorkInd'
  <2> SUFFICES ASSUME WorkInd, [RNext]_allvars PROVE WorkInd'
    OBVIOUS
  <2>1. CacheInd' /\ UseInd'
    BY CacheKept DEF WorkInd
  <2>2. StampInd' /\ Work'
    BY StepStamp, StampKept, StepWork, WorkKept DEF WorkInd
  <2> QED
    BY <2>1, <2>2 DEF WorkInd
<1> QED
  BY <1>1, InitWork, PTL DEF RSpec

-----------------------------------------------------------------------------
(* The n-gram history, without a graph that has to be run again. *)
HashInd ==
    Modes \subseteq {"plain"} =>
        mode = "plain" /\ dec.pc \notin {"fast", "run"} /\ dec.hashed = IF dec.pc = "idle" THEN 0 ELSE 1

LEMMA StepHash ==
    ASSUME DecOK(dec), HashInd, RNext
    PROVE  HashInd'
<1> SUFFICES ASSUME Modes \subseteq {"plain"}
             PROVE  mode' = "plain" /\ dec'.pc \notin {"fast", "run"}
                    /\ dec'.hashed = IF dec'.pc = "idle" THEN 0 ELSE 1
  BY DEF HashInd
<1>0. mode = "plain" /\ dec.pc \notin {"fast", "run"} /\ dec.hashed = IF dec.pc = "idle" THEN 0 ELSE 1
  BY DEF HashInd
<1>1. mode' = mode
  BY DEF RNext, CacheStep, Prefill, Begin, TokenEnds, RefillNext, RefillEnds, FastInputs, FastMasked,
         FastAccepted, FastMissed, Select, Matmul, Split, CmAdd, rvars
<1>2. CASE CacheStep \/ Prefill
  <2>1. dec' = dec
    BY <1>2 DEF CacheStep, Prefill, rvars
  <2> QED
    BY <1>0, <1>1, <2>1
<1>3. CASE Begin
  BY <1>0, <1>1, <1>3, BeginIs
<1>4. CASE TokenEnds
  BY <1>0, <1>1, <1>4, TokenEndsIs
<1>5. CASE RefillNext \/ RefillEnds
  BY <1>0, <1>1, <1>5, RefillNextIs, RefillEndsIs
<1>6. CASE FastInputs \/ FastMasked \/ FastAccepted \/ FastMissed
  BY <1>0, <1>6, FastInputsIs, FastMaskedIs, FastAcceptedIs, FastMissedIs
<1>7. CASE Select \/ Matmul
  BY <1>0, <1>1, <1>7, SelectIs, MatmulIs
<1>8. CASE Split
  <2>1. dec.pc = "split" /\ dec'.hashed = dec.hashed /\ dec'.pc \in {"add", "split"}
    BY <1>8, SplitIs
  <2> QED
    BY <1>0, <1>1, <2>1
<1>9. CASE CmAdd
  BY <1>0, <1>1, <1>9, CmAddIs
<1> QED
  BY <1>2, <1>3, <1>4, <1>5, <1>6, <1>7, <1>8, <1>9 DEF RNext

LEMMA HashInductive == RSpec => []HashInd
<1>1. RInit => HashInd
  <2> SUFFICES ASSUME RInit PROVE HashInd
    OBVIOUS
  <2>1. dec.pc = "idle" /\ dec.hashed = 0 /\ mode \in Modes
    BY NewTokenIs DEF RInit
  <2> QED
    BY <2>1 DEF HashInd
<1>2. CacheInd /\ HashInd /\ [RNext]_allvars => HashInd'
  <2> SUFFICES ASSUME CacheInd, HashInd, [RNext]_allvars PROVE HashInd'
    OBVIOUS
  <2>1. CASE RNext
    BY <2>1, StepHash DEF CacheInd
  <2>2. CASE UNCHANGED allvars
    BY <2>2 DEF HashInd, allvars, rvars
  <2> QED
    BY <2>1, <2>2
<1> QED
  BY <1>1, <1>2, CacheInductive, PTL DEF RSpec

LEMMA ExactFollows ==
    ASSUME ~UsePle \/ Modes \subseteq {"plain"}, WorkInd, HashInd
    PROVE  TokenExact
<1> SUFFICES ASSUME dec.pc = "end" PROVE TokenExact
  BY DEF TokenExact
<1>1. Whole
  BY DEF WorkInd, Work
<1>2. \A k \in Keys : dec.h[k] = IF k \in dec.sel THEN 1 ELSE 0
  BY <1>1 DEF Whole, Once
<1>3. UsePle => dec.hashed = 1
  BY DEF HashInd
<1> QED
  BY <1>1, <1>2, <1>3 DEF Whole, Right, TokenExact

(* Where every pool has room for a token's experts of each of its layers:  *)
(* whichever path a token takes, every expert its routers selected enters  *)
(* the residual exactly once, out of a slot that holds its weights, and    *)
(* the recurrent layers absorb the token once.  The n-gram history takes   *)
(* it once in the layer-by-layer modes; after a speculative miss it takes  *)
(* it twice, so that models with one are left out of the fast modes here.  *)
THEOREM TokensExact ==
    ASSUME Roomy, ~UsePle \/ Modes \subseteq {"plain"}
    PROVE  RSpec => []TokenExact
BY WorkInductive, HashInductive, ExactFollows, PTL

(* Under a decoding runtime the cache keeps its types, and every resident  *)
(* expert's slot holds that expert's weights, or ensure() is about to read *)
(* them.                                                                   *)
THEOREM DecodeKeepsCache == RSpec => [](CTypeOK /\ HoldsWeights)
<1>1. CacheInd => CTypeOK /\ HoldsWeights
  BY TypesFollow DEF CacheInd, Weights
<1> QED
  BY <1>1, CacheInductive, PTL

(* Where every pool has room for a token's experts of each of its layers,  *)
(* the slots that segment B of a layer, or of a slice of a prefill, reads  *)
(* hold the experts that were asked for.                                   *)
THEOREM DecodeEnsureUsable == ASSUME Roomy PROVE RSpec => []EnsureUsable
<1>1. WorkInd => EnsureUsable
  BY UseFollows DEF WorkInd, CacheInd
<1> QED
  BY <1>1, WorkInductive, PTL

===============================================================================
