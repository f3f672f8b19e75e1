---------------------------- MODULE ServerProofs ----------------------------
(***************************************************************************)
(* Proofs about Server.                                                    *)
(*                                                                         *)
(* None of its properties is inductive: what a request finds in the        *)
(* runtime depends on what every other request left in the slots. Inv(w,   *)
(* x, o) has two parts. Base says that lock, cache and the locals of each  *)
(* request are in order, with w and x as explained below. Own, claimed     *)
(* with o, says what a request may rely on when it works: while it holds   *)
(* the lock its text is in the runtime (Live), while it has yielded it     *)
(* knows its own tokens, and if it is still the live owner they are in the *)
(* runtime (Parked). There is one lemma per action, and each rests on one  *)
(* lemma of the first part for the operation it calls.                     *)
(*                                                                         *)
(* A request whose runtime was taken gets it back from a slot with the     *)
(* same tokens or by prefilling them again (EnsureOK); that both read the  *)
(* same is what makes the step of Resume keep Own.                         *)
(*                                                                         *)
(* The hypotheses leave out what is known to break the code: exceptions of *)
(* requests that are not streams, which unwind after they have released    *)
(* the lock (PlainError, or only those that leave the runtime half         *)
(* advanced, MidBatch), and images, where states are found by tokens that  *)
(* do not tell two images apart (the opposite of TextOnly).                *)
(*                                                                         *)
(* The third part, for ParkedOnSwitch, adds Traced: the live state goes on *)
(* from the state of its slot of origin, and every checkpoint it could be  *)
(* rewound to is later than that state. So a live state of the same length *)
(* as the slot is the state in the slot, and save_live() may skip it.      *)
(***************************************************************************)
EXTENDS Server, SequenceLemmas, FiniteSetTheorems

(***************************************************************************)
(* First part: what the operations of the runtime and of the prefix cache  *)
(* keep, for any context, slots, checkpoints, vocabulary and requests.     *)
(* Every lemma is about an operator on records: given a runtime (RtOK) or  *)
(* a cache (CacheOK) in order, its result is in order, and reads as the    *)
(* text it should.                                                         *)
(*                                                                         *)
(* The parameters w and x choose how much of that is claimed, so that each *)
(* operation is gone through once. x says that no cell was computed from   *)
(* an image. w says that the live state is a whole one: it is dropped when *)
(* a batch has thrown half way, until the next reset.                      *)
(***************************************************************************)
Tok == DOMAIN TextOf
Img == {NoImg} \cup UNION {{s.hash : s \in Range(Body[r].spans)} : r \in Threads}
Cell == [tok : Tok, img : Img]
Half == [tok |-> "half", img |-> NoImg]
Gdn == Seq(Cell \cup {Half})
Ckpt == [pos : Nat, gdn : Gdn, rope : Int]
RtType == [toks : Seq(Tok), rows : Seq(Cell), gdn : Gdn, rope : Int,
           pk : Seq(Ckpt), ovr : Seq(Img)]
BlobType == [toks : Seq(Tok), rows : Seq(Cell), gdn : Gdn, rope : Int]

(* No cell of the sequence was computed from an image. *)
Plainly(cells) == \A i \in DOMAIN cells : cells[i].img = NoImg

(* The state is a sequence of cells that fits the context, with the tokens *)
(* it claims and checkpoints in order.                                     *)
Sorted(rt) ==
    /\ \A i \in DOMAIN rt.pk : rt.pk[i].pos \in 1..Len(rt.rows)
    /\ \A i, j \in DOMAIN rt.pk : i < j => rt.pk[i].pos < rt.pk[j].pos
    /\ ~Recurrent => rt.pk = <<>>

(* The recurrent state and the checkpoints belong to the rows. *)
Whole(rt) ==
    /\ Recurrent => rt.gdn = rt.rows
    /\ \A i \in DOMAIN rt.pk : rt.pk[i].gdn = Prefix(rt.rows, rt.pk[i].pos)

RtOK(rt, w, x) ==
    /\ rt \in RtType
    /\ rt.toks = Toks(rt.rows) /\ Len(rt.rows) <= NCtx
    /\ Sorted(rt)
    /\ w => Whole(rt)
    /\ x => Plainly(rt.rows) /\ rt.ovr = <<>>

BlobOK(b, w, x) ==
    /\ b \in BlobType
    /\ b.toks = Toks(b.rows) /\ Len(b.rows) <= NCtx
    /\ w => (Recurrent => b.gdn = b.rows)
    /\ x => Plainly(b.rows)

SlotOK(s, w, x) ==
    /\ s = [toks |-> s.toks, imgs |-> s.imgs, blob |-> s.blob]
    /\ s.toks \in Seq(Tok) /\ Len(s.toks) <= NCtx
    /\ s.blob # NoBlob => s.toks = s.blob.toks /\ BlobOK(s.blob, w, x)
    /\ x => s.imgs = <<>>

CacheOK(c, w, x) ==
    /\ c = [rt |-> c.rt, imgs |-> c.imgs, slots |-> c.slots, lru |-> c.lru,
            origin |-> c.origin, owner |-> c.owner]
    /\ RtOK(c.rt, w, x)
    /\ x => c.imgs = <<>>
    /\ c.slots = [s \in Slots |-> c.slots[s]]
    /\ \A s \in Slots : SlotOK(c.slots[s], w, x)
    /\ c.lru \in [Slots -> Nat]
    /\ c.origin \in 0..NSlots
    /\ c.owner \in Threads \cup {0}

-----------------------------------------------------------------------------
(* Cells and their tokens *)

LEMMA Consts ==
    /\ Recurrent \in BOOLEAN /\ NCtx \in Nat /\ PkMax \in Nat /\ NSlots \in Nat
    /\ \A t \in Tok : TextOf[t] \in Seq(Chars)
    /\ NoImg \in Img
BY RuntimeAssumption, PrefixCacheAssumption DEF Tok, Img

LEMMA CellFields ==
    ASSUME NEW c \in Cell
    PROVE  c.tok \in Tok /\ c.img \in Img
BY DEF Cell

LEMMA ToksType ==
    ASSUME NEW cells \in Seq(Cell)
    PROVE  /\ Toks(cells) \in Seq(Tok)
           /\ Len(Toks(cells)) = Len(cells)
           /\ DOMAIN Toks(cells) = 1..Len(cells)
           /\ \A i \in 1..Len(cells) : Toks(cells)[i] = cells[i].tok /\ cells[i] \in Cell
<1> DEFINE n == Len(cells)
<1>1. n \in Nat /\ DOMAIN cells = 1..n /\ \A i \in 1..n : cells[i] \in Cell
  OBVIOUS
<1>2. \A i \in 1..n : cells[i].tok \in Tok
  BY <1>1, CellFields
<1>3. Toks(cells) = [i \in 1..n |-> cells[i].tok]
  BY <1>1 DEF Toks
<1> HIDE DEF n
<1>4. [i \in 1..n |-> cells[i].tok] \in Seq(Tok) /\ Len([i \in 1..n |-> cells[i].tok]) = n
  BY <1>1, <1>2
<1> QED
  BY <1>1, <1>3, <1>4 DEF n

LEMMA ToksConcat ==
    ASSUME NEW a \in Seq(Cell), NEW b \in Seq(Cell)
    PROVE  /\ a \o b \in Seq(Cell) /\ Len(a \o b) = Len(a) + Len(b)
           /\ Toks(a \o b) = Toks(a) \o Toks(b)
<1> DEFINE ab == a \o b
           ta == Toks(a)
           tb == Toks(b)
<1>1. /\ ab \in Seq(Cell) /\ Len(ab) = Len(a) + Len(b) /\ Len(a) \in Nat /\ Len(b) \in Nat
      /\ \A i \in 1..Len(a) : ab[i] = a[i]
      /\ \A i \in 1..Len(b) : ab[Len(a) + i] = b[i]
  OBVIOUS
<1>2. /\ ta \in Seq(Tok) /\ Len(ta) = Len(a) /\ \A i \in 1..Len(a) : ta[i] = a[i].tok
      /\ tb \in Seq(Tok) /\ Len(tb) = Len(b) /\ \A i \in 1..Len(b) : tb[i] = b[i].tok
  BY ToksType
<1> DEFINE u == Toks(ab)
           v == ta \o tb
<1>3. u \in Seq(Tok) /\ Len(u) = Len(a) + Len(b) /\ \A i \in 1..(Len(a) + Len(b)) : u[i] = ab[i].tok
  <2> HIDE DEF ab
  <2> QED
    BY <1>1, ToksType
<1>4. v \in Seq(Tok) /\ Len(v) = Len(a) + Len(b)
  <2>1. ta \in Seq(Tok) /\ tb \in Seq(Tok) /\ Len(ta) = Len(a) /\ Len(tb) = Len(b)
    BY <1>2
  <2> HIDE DEF ta, tb
  <2> QED
    BY SMTT(40), <2>1
<1>5. \A i \in 1..Len(a) : v[i] = ta[i]
  <2> HIDE DEF ta, tb
  <2> QED
    BY <1>2
<1>6. \A i \in 1..Len(b) : v[Len(a) + i] = tb[i]
  <2> HIDE DEF ta, tb
  <2> QED
    BY <1>2, <1>1
<1> HIDE DEF ab, ta, tb, u, v
<1>7. ASSUME NEW i \in 1..(Len(a) + Len(b)) PROVE u[i] = v[i]
  <2>1. CASE i <= Len(a)
    BY <2>1, <1>1, <1>2, <1>3, <1>5
  <2>2. CASE ~(i <= Len(a))
    <3>1. i - Len(a) \in 1..Len(b) /\ i = Len(a) + (i - Len(a))
      BY <2>2, <1>1
    <3>2. u[i] = ab[i].tok /\ ab[i] = b[i - Len(a)]
      BY <3>1, <1>1, <1>3
    <3>3. v[i] = tb[i - Len(a)] /\ tb[i - Len(a)] = b[i - Len(a)].tok
      BY <3>1, <1>2, <1>6
    <3> QED
      BY <3>2, <3>3
  <2> QED
    BY <2>1, <2>2
<1>8. u = v
  BY <1>3, <1>4, <1>7, SeqEqual
<1> QED
  BY <1>1, <1>8 DEF u, v, ab, ta, tb

LEMMA ToksPrefix ==
    ASSUME NEW a \in Seq(Cell), NEW n \in 0..Len(a)
    PROVE  /\ Prefix(a, n) \in Seq(Cell) /\ Len(Prefix(a, n)) = n
           /\ \A i \in 1..n : Prefix(a, n)[i] = a[i]
           /\ Toks(Prefix(a, n)) = Prefix(Toks(a), n)
<1> DEFINE p == Prefix(a, n)
           ta == Toks(a)
<1>1. n \in Nat /\ n <= Len(a) /\ Len(a) \in Nat
  OBVIOUS
<1>2. p \in Seq(Cell) /\ Len(p) = n /\ \A i \in 1..n : p[i] = a[i]
  BY <1>1 DEF Prefix
<1>3. ta \in Seq(Tok) /\ Len(ta) = Len(a) /\ \A i \in 1..Len(a) : ta[i] = a[i].tok
  BY ToksType
<1> DEFINE u == Toks(p)
           v == Prefix(ta, n)
<1>4. u \in Seq(Tok) /\ Len(u) = n /\ \A i \in 1..n : u[i] = p[i].tok
  <2> HIDE DEF p
  <2> QED
    BY <1>2, ToksType
<1>5. v \in Seq(Tok) /\ Len(v) = n /\ \A i \in 1..n : v[i] = ta[i]
  <2> HIDE DEF ta
  <2> QED
    BY <1>1, <1>3 DEF Prefix
<1> HIDE DEF p, ta, u, v
<1>6. \A i \in 1..n : u[i] = v[i]
  BY <1>1, <1>2, <1>3, <1>4, <1>5
<1>7. u = v
  BY <1>4, <1>5, <1>6, SeqEqual
<1> QED
  BY <1>2, <1>7 DEF u, v, p, ta

LEMMA PrefixConcat ==
    ASSUME NEW S, NEW a \in Seq(S), NEW b \in Seq(S), NEW n \in 0..Len(a)
    PROVE  Prefix(a \o b, n) = Prefix(a, n)
<1> DEFINE ab == a \o b
           p == Prefix(ab, n)
           q == Prefix(a, n)
<1>1. /\ ab \in Seq(S) /\ Len(ab) = Len(a) + Len(b) /\ Len(a) \in Nat /\ Len(b) \in Nat
      /\ \A i \in 1..Len(a) : ab[i] = a[i]
  OBVIOUS
<1>2. n \in Nat /\ n <= Len(a)
  OBVIOUS
<1>3. q \in Seq(S) /\ Len(q) = n /\ \A i \in 1..n : q[i] = a[i]
  BY <1>1, <1>2 DEF Prefix
<1>4. p \in Seq(S) /\ Len(p) = n /\ \A i \in 1..n : p[i] = ab[i]
  <2> HIDE DEF ab
  <2> QED
    BY <1>1, <1>2 DEF Prefix
<1> HIDE DEF ab, p, q
<1>5. \A i \in 1..n : p[i] = q[i]
  BY <1>1, <1>2, <1>3, <1>4
<1>6. p = q
  BY <1>3, <1>4, <1>5, SeqEqual
<1> QED
  BY <1>6 DEF p, q, ab

LEMMA PlainConcat ==
    ASSUME NEW a \in Seq(Cell), NEW b \in Seq(Cell), Plainly(a), Plainly(b)
    PROVE  Plainly(a \o b)
<1> DEFINE ab == a \o b
<1>1. /\ ab \in Seq(Cell) /\ Len(ab) = Len(a) + Len(b) /\ Len(a) \in Nat /\ Len(b) \in Nat
      /\ \A i \in 1..Len(a) : ab[i] = a[i]
      /\ \A i \in 1..Len(b) : ab[Len(a) + i] = b[i]
      /\ DOMAIN ab = 1..(Len(a) + Len(b)) /\ DOMAIN a = 1..Len(a) /\ DOMAIN b = 1..Len(b)
  OBVIOUS
<1> HIDE DEF ab
<1>2. ASSUME NEW i \in DOMAIN ab PROVE ab[i].img = NoImg
  <2>1. CASE i <= Len(a)
    BY <2>1, <1>1 DEF Plainly
  <2>2. CASE ~(i <= Len(a))
    <3>1. i - Len(a) \in 1..Len(b) /\ i = Len(a) + (i - Len(a))
      BY <2>2, <1>1
    <3>2. ab[i] = b[i - Len(a)]
      BY <3>1, <1>1
    <3> QED
      BY <3>1, <3>2, <1>1 DEF Plainly
  <2> QED
    BY <2>1, <2>2
<1> QED
  BY <1>2 DEF Plainly, ab

-----------------------------------------------------------------------------
(* The operations of Runtime *)

(* Also what a failed batch left half advanced is whole after a reset.     *)
LEMMA ResetOK ==
    ASSUME NEW rt, NEW v \in BOOLEAN, NEW w \in BOOLEAN, NEW x \in BOOLEAN, RtOK(rt, v, x)
    PROVE  /\ RtOK(Reset(rt), w, x)
           /\ Reset(rt).toks = <<>> /\ Reset(rt).rows = <<>>
<1> DEFINE z == [toks |-> <<>>, rows |-> <<>>, gdn |-> <<>>, rope |-> 0, pk |-> <<>>,
                 ovr |-> rt.ovr]
<1>1. Reset(rt) = z
  BY DEF Reset, NoState
<1>2. rt.ovr \in Seq(Img) /\ (x => rt.ovr = <<>>)
  BY DEF RtOK, RtType
<1>3. z \in RtType
  BY <1>2 DEF RtType, Gdn
<1>4. Toks(<<>>) = <<>>
  BY DEF Toks
<1>5. Sorted(z)
  BY DEF Sorted
<1>6. Whole(z)
  BY DEF Whole
<1>7. Plainly(<<>>)
  BY DEF Plainly
<1>8. RtOK(z, w, x)
  <2>1. z.toks = Toks(z.rows) /\ Len(z.rows) <= NCtx /\ z.ovr = rt.ovr /\ z.rows = <<>>
    BY <1>4, Consts
  <2> HIDE DEF z
  <2> QED
    BY <1>2, <1>3, <1>5, <1>6, <1>7, <2>1 DEF RtOK
<1> QED
  BY <1>1, <1>8

LEMMA OverridesOK ==
    ASSUME NEW rt, NEW w \in BOOLEAN, NEW x \in BOOLEAN, RtOK(rt, w, x),
           NEW cells \in Seq(Cell), x => Plainly(cells)
    PROVE  /\ RtOK(set_embd_overrides(rt, cells), w, x)
           /\ set_embd_overrides(rt, cells).toks = rt.toks
           /\ set_embd_overrides(rt, cells).rows = rt.rows
<1> DEFINE o == IF \A i \in DOMAIN cells : cells[i].img = NoImg THEN <<>>
                ELSE [i \in DOMAIN cells |-> cells[i].img]
           z == [toks |-> rt.toks, rows |-> rt.rows, gdn |-> rt.gdn, rope |-> rt.rope,
                 pk |-> rt.pk, ovr |-> o]
<1>1. rt = [toks |-> rt.toks, rows |-> rt.rows, gdn |-> rt.gdn, rope |-> rt.rope,
            pk |-> rt.pk, ovr |-> rt.ovr]
  BY DEF RtOK, RtType
<1>2. set_embd_overrides(rt, cells) = z
  <2>1. set_embd_overrides(rt, cells) = [rt EXCEPT !.ovr = o]
    BY Zenon DEF set_embd_overrides
  <2> HIDE DEF o
  <2>2. [rt EXCEPT !.ovr = o] = z
    BY <1>1
  <2> QED
    BY <2>1, <2>2, Zenon
<1>3. o \in Seq(Img)
  <2> DEFINE n == Len(cells)
  <2>1. n \in Nat /\ DOMAIN cells = 1..n /\ \A i \in 1..n : cells[i] \in Cell
    OBVIOUS
  <2>2. \A i \in 1..n : cells[i].img \in Img
    BY <2>1, CellFields
  <2> HIDE DEF n
  <2>3. [i \in 1..n |-> cells[i].img] \in Seq(Img)
    BY <2>1, <2>2
  <2> QED
    BY <2>1, <2>3
<1>4. x => o = <<>>
  BY DEF Plainly
<1> HIDE DEF o
<1>5. z \in RtType
  BY <1>3 DEF RtOK, RtType
<1>6. Sorted(z)
  BY DEF RtOK, Sorted
<1>7. w => Whole(z)
  BY DEF RtOK, Whole
<1>8. z.toks = rt.toks /\ z.rows = rt.rows /\ z.ovr = o
  OBVIOUS
<1>9. rt.toks = Toks(rt.rows) /\ Len(rt.rows) <= NCtx /\ (x => Plainly(rt.rows))
  BY DEF RtOK
<1> HIDE DEF z
<1>10. RtOK(z, w, x)
  BY <1>4, <1>5, <1>6, <1>7, <1>8, <1>9 DEF RtOK
<1> QED
  BY <1>2, <1>8, <1>10

(* What decode() computes from tokens. *)
Decoded(rt, toks) ==
    LET ovr == IF Len(toks) = 1 THEN <<>> ELSE rt.ovr
    IN  [i \in DOMAIN toks |->
           [tok |-> toks[i], img |-> IF i \in DOMAIN ovr THEN ovr[i] ELSE NoImg]]

LEMMA DecodedType ==
    ASSUME NEW rt, NEW w \in BOOLEAN, NEW x \in BOOLEAN, RtOK(rt, w, x),
           NEW toks \in Seq(Tok)
    PROVE  /\ Decoded(rt, toks) \in Seq(Cell)
           /\ Len(Decoded(rt, toks)) = Len(toks)
           /\ Toks(Decoded(rt, toks)) = toks
           /\ x => Plainly(Decoded(rt, toks))
<1> DEFINE ovr == IF Len(toks) = 1 THEN <<>> ELSE rt.ovr
           c(i) == [tok |-> toks[i], img |-> IF i \in DOMAIN ovr THEN ovr[i] ELSE NoImg]
           n == Len(toks)
<1>1. Decoded(rt, toks) = [i \in DOMAIN toks |-> c(i)]
  BY DEF Decoded
<1>2. n \in Nat /\ DOMAIN toks = 1..n /\ \A i \in 1..n : toks[i] \in Tok
  OBVIOUS
<1>3. ovr \in Seq(Img) /\ (x => ovr = <<>>)
  BY DEF RtOK, RtType
<1>4. \A i \in DOMAIN ovr : ovr[i] \in Img
  <2> HIDE DEF ovr
  <2> QED
    BY <1>3
<1> HIDE DEF ovr, n
<1>5. \A i \in 1..n : c(i) \in Cell /\ c(i).tok = toks[i] /\ (x => c(i).img = NoImg)
  BY <1>2, <1>3, <1>4, Consts DEF Cell
<1> HIDE DEF c
<1> DEFINE d == [i \in 1..n |-> c(i)]
<1>6. d \in Seq(Cell) /\ Len(d) = n /\ DOMAIN d = 1..n
  BY <1>2, <1>5
<1>7. \A i \in 1..n : d[i] = c(i)
  OBVIOUS
<1>8. Decoded(rt, toks) = d
  BY <1>1, <1>2
<1> HIDE DEF d
<1>9. Toks(d) = toks
  <2>1. Toks(d) \in Seq(Tok) /\ Len(Toks(d)) = n /\ \A i \in 1..n : Toks(d)[i] = toks[i]
    BY <1>5, <1>6, <1>7, ToksType
  <2> QED
    BY <2>1, SeqEqual DEF n
<1>10. x => Plainly(d)
  BY <1>5, <1>6, <1>7 DEF Plainly
<1> QED
  BY <1>6, <1>8, <1>9, <1>10 DEF n

LEMMA RopeType ==
    ASSUME NEW rt, rt.rope \in Int, NEW cells \in Seq(Cell)
    PROVE  RopeAfter(rt, cells) \in Int
<1> DEFINE own == {i \in DOMAIN cells : cells[i].img = NoImg}
<1>1. Len(cells) \in Nat /\ DOMAIN cells = 1..Len(cells)
  OBVIOUS
<1>2. IsFiniteSet(1..Len(cells))
  BY <1>1, FS_Interval
<1>3. own \subseteq 1..Len(cells)
  BY <1>1
<1>4. Cardinality(own) \in Nat
  <2> HIDE DEF own
  <2> QED
    BY <1>2, <1>3, FS_Subset, FS_CardinalityType
<1> HIDE DEF own
<1>5. RopeAfter(rt, cells) = IF UseMRope THEN rt.rope + Cardinality(own)
                             ELSE rt.rope + (IF Len(cells) = 1 THEN 1 ELSE 0)
  BY DEF RopeAfter, own
<1> QED
  BY <1>4, <1>5

(* decode() goes on from where the state is. *)
LEMMA DecodeOK ==
    ASSUME NEW rt, NEW w \in BOOLEAN, NEW x \in BOOLEAN, RtOK(rt, w, x),
           NEW toks \in Seq(Tok), Len(rt.rows) + Len(toks) <= NCtx
    PROVE  /\ RtOK(Decode(rt, toks), w, x)
           /\ Decode(rt, toks).toks = rt.toks \o toks
           /\ Decode(rt, toks).rows = rt.rows \o Decoded(rt, toks)
<1> DEFINE cells == Decoded(rt, toks)
           rows == rt.rows \o cells
           ts == rt.toks \o toks
           gdn == IF Recurrent THEN rt.gdn \o cells ELSE rt.gdn
           rope == RopeAfter(rt, cells)
           ovr == IF Len(toks) = 1 THEN rt.ovr ELSE <<>>
           z == [toks |-> ts, rows |-> rows, gdn |-> gdn, rope |-> rope, pk |-> rt.pk, ovr |-> ovr]
<1>1. /\ rt = [toks |-> rt.toks, rows |-> rt.rows, gdn |-> rt.gdn, rope |-> rt.rope,
               pk |-> rt.pk, ovr |-> rt.ovr]
      /\ rt.toks \in Seq(Tok) /\ rt.rows \in Seq(Cell) /\ rt.gdn \in Gdn /\ rt.rope \in Int
      /\ rt.pk \in Seq(Ckpt) /\ rt.ovr \in Seq(Img)
  BY DEF RtOK, RtType
<1>2. Decode(rt, toks) = z
  <2>1. Decode(rt, toks) = [rt EXCEPT !.toks = ts, !.rows = rows, !.gdn = gdn, !.rope = rope,
                                      !.ovr = ovr]
    BY DEF Decode, Decoded
  <2> HIDE DEF cells, rows, ts, gdn, rope, ovr
  <2> QED
    BY <2>1, <1>1
<1>3. cells \in Seq(Cell) /\ Len(cells) = Len(toks) /\ Toks(cells) = toks /\ (x => Plainly(cells))
  BY DecodedType
<1> HIDE DEF cells
<1>4. rows \in Seq(Cell) /\ Len(rows) = Len(rt.rows) + Len(toks) /\ Toks(rows) = Toks(rt.rows) \o toks
  BY <1>1, <1>3, ToksConcat
<1>5. ts \in Seq(Tok) /\ ts = Toks(rows)
  <2>1. ts \in Seq(Tok)
    BY <1>1
  <2>2. ts = Toks(rows)
    BY <1>4 DEF RtOK
  <2> QED
    BY <2>1, <2>2
<1>6. gdn \in Gdn
  <2>1. cells \in Seq(Cell \cup {Half})
    BY <1>3
  <2>2. rt.gdn \in Seq(Cell \cup {Half})
    BY <1>1 DEF Gdn
  <2>3. rt.gdn \o cells \in Seq(Cell \cup {Half})
    BY <2>1, <2>2, ConcatProperties
  <2> QED
    BY <2>2, <2>3 DEF Gdn
<1>7. rope \in Int
  BY <1>1, <1>3, RopeType
<1>8. ovr \in Seq(Img) /\ (x => ovr = <<>>)
  BY <1>1 DEF RtOK
<1>9. w => (Recurrent => gdn = rows)
  BY DEF RtOK, Whole
<1>10. Len(rows) <= NCtx
  BY <1>4
<1>11. x => Plainly(rows)
  BY <1>1, <1>3, PlainConcat DEF RtOK
<1>12. \A i \in DOMAIN rt.pk : rt.pk[i].pos \in 1..Len(rows)
  <2>1. Len(rt.rows) \in Nat /\ Len(toks) \in Nat
    BY <1>1
  <2> QED
    BY <2>1, <1>4 DEF RtOK, Sorted
<1>13. w => \A i \in DOMAIN rt.pk : rt.pk[i].gdn = Prefix(rows, rt.pk[i].pos)
  <2> SUFFICES ASSUME w, NEW i \in DOMAIN rt.pk
               PROVE  rt.pk[i].gdn = Prefix(rows, rt.pk[i].pos)
    OBVIOUS
  <2>1. rt.pk[i].pos \in 0..Len(rt.rows) /\ rt.pk[i].gdn = Prefix(rt.rows, rt.pk[i].pos)
    BY DEF RtOK, Sorted, Whole
  <2>2. Prefix(rows, rt.pk[i].pos) = Prefix(rt.rows, rt.pk[i].pos)
    BY <1>1, <1>3, <2>1, PrefixConcat
  <2> QED
    BY <2>1, <2>2
<1> HIDE DEF rows, ts, gdn, rope, ovr
<1>14. z \in RtType
  BY <1>1, <1>4, <1>5, <1>6, <1>7, <1>8 DEF RtType
<1>15. z.toks = ts /\ z.rows = rows /\ z.gdn = gdn /\ z.pk = rt.pk /\ z.ovr = ovr
  OBVIOUS
<1> HIDE DEF z
<1>16. Sorted(z)
  BY <1>12, <1>15 DEF Sorted, RtOK
<1>17. w => Whole(z)
  BY <1>9, <1>13, <1>15 DEF Whole
<1>18. RtOK(z, w, x)
  BY <1>5, <1>8, <1>10, <1>11, <1>14, <1>15, <1>16, <1>17 DEF RtOK
<1> QED
  BY <1>2, <1>15, <1>18 DEF ts, rows, cells

LEMMA SavedOK ==
    ASSUME NEW rt, NEW w \in BOOLEAN, NEW x \in BOOLEAN, RtOK(rt, w, x)
    PROVE  /\ BlobOK(SaveState(rt), w, x)
           /\ SaveState(rt).toks = rt.toks /\ SaveState(rt).rows = rt.rows
<1> DEFINE b == SaveState(rt)
<1>1. b.toks = rt.toks /\ b.rows = rt.rows /\ b.gdn = rt.gdn
  BY DEF SaveState
<1>2. b \in BlobType
  BY DEF SaveState, RtOK, RtType, BlobType
<1>3. w => (Recurrent => rt.gdn = rt.rows)
  BY DEF RtOK, Whole
<1> HIDE DEF b
<1>4. BlobOK(b, w, x)
  BY <1>1, <1>2, <1>3 DEF BlobOK, RtOK
<1> QED
  BY <1>1, <1>4 DEF b

LEMMA LoadedOK ==
    ASSUME NEW rt, NEW b, NEW w \in BOOLEAN, NEW x \in BOOLEAN, RtOK(rt, w, x), BlobOK(b, w, x)
    PROVE  /\ RtOK(LoadState(rt, b), w, x)
           /\ LoadState(rt, b).toks = b.toks /\ LoadState(rt, b).rows = b.rows
<1> DEFINE z == LoadState(rt, b)
<1>1. /\ z.toks = b.toks /\ z.rows = b.rows /\ z.gdn = b.gdn /\ z.pk = <<>> /\ z.ovr = rt.ovr
  BY DEF LoadState
<1>2. z \in RtType
  BY DEF LoadState, RtOK, RtType, BlobOK, BlobType
<1> HIDE DEF z
<1>3. Sorted(z)
  BY <1>1 DEF Sorted
<1>4. w => Whole(z)
  BY <1>1 DEF Whole, BlobOK
<1>5. RtOK(z, w, x)
  BY <1>1, <1>2, <1>3, <1>4 DEF RtOK, BlobOK
<1> QED
  BY <1>1, <1>5 DEF z

(* An exception half way through the layers: only the recurrent state is   *)
(* wrong.                                                                  *)
LEMMA HalfDoneOK ==
    ASSUME NEW rt, NEW w \in BOOLEAN, NEW x \in BOOLEAN, RtOK(rt, w, x)
    PROVE  RtOK(HalfDone([rt EXCEPT !.ovr = <<>>]), FALSE, x)
<1> DEFINE gdn == IF Recurrent THEN Append(rt.gdn, Half) ELSE rt.gdn
           z == [toks |-> rt.toks, rows |-> rt.rows, gdn |-> gdn, rope |-> rt.rope,
                 pk |-> rt.pk, ovr |-> <<>>]
<1>1. /\ rt = [toks |-> rt.toks, rows |-> rt.rows, gdn |-> rt.gdn, rope |-> rt.rope,
               pk |-> rt.pk, ovr |-> rt.ovr]
      /\ rt.toks \in Seq(Tok) /\ rt.rows \in Seq(Cell) /\ rt.gdn \in Gdn /\ rt.rope \in Int
      /\ rt.pk \in Seq(Ckpt) /\ rt.ovr \in Seq(Img)
  BY DEF RtOK, RtType
<1>2. gdn \in Gdn
  <2>1. rt.gdn \in Seq(Cell \cup {Half}) /\ Half \in Cell \cup {Half}
    BY <1>1 DEF Gdn
  <2>2. Append(rt.gdn, Half) \in Seq(Cell \cup {Half})
    BY <2>1, AppendProperties
  <2> QED
    BY <1>1, <2>2 DEF Gdn
<1>3. HalfDone([rt EXCEPT !.ovr = <<>>]) = z
  <2> DEFINE e == [toks |-> rt.toks, rows |-> rt.rows, gdn |-> rt.gdn, rope |-> rt.rope,
                   pk |-> rt.pk, ovr |-> <<>>]
  <2>1. [rt EXCEPT !.ovr = <<>>] = e
    BY <1>1
  <2>2. HalfDone(e) = [e EXCEPT !.gdn = gdn]
    <3>1. e.gdn = rt.gdn /\ [e EXCEPT !.gdn = rt.gdn] = e
      OBVIOUS
    <3>2. HalfDone(e) = IF Recurrent THEN [e EXCEPT !.gdn = Append(e.gdn, Half)] ELSE e
      BY DEF HalfDone, Half
    <3> HIDE DEF e
    <3> QED
      BY <3>1, <3>2
  <2> HIDE DEF gdn
  <2>3. [e EXCEPT !.gdn = gdn] = z
    OBVIOUS
  <2> QED
    BY <2>1, <2>2, <2>3
<1> HIDE DEF gdn
<1>4. z \in RtType
  BY <1>1, <1>2 DEF RtType
<1>5. z.toks = rt.toks /\ z.rows = rt.rows /\ z.pk = rt.pk /\ z.ovr = <<>>
  OBVIOUS
<1> HIDE DEF z
<1>6. Sorted(z)
  BY <1>5 DEF RtOK, Sorted
<1>7. RtOK(z, FALSE, x)
  BY <1>4, <1>5, <1>6 DEF RtOK
<1> QED
  BY <1>3, <1>7

-----------------------------------------------------------------------------
(* Prompt checkpoints *)

LEMMA PrefixElems ==
    ASSUME NEW S, NEW a \in Seq(S), NEW n \in 0..Len(a)
    PROVE  /\ Prefix(a, n) \in Seq(S) /\ Len(Prefix(a, n)) = n
           /\ \A i \in 1..n : Prefix(a, n)[i] = a[i]
<1>1. n \in Nat /\ n <= Len(a) /\ Len(a) \in Nat
  OBVIOUS
<1> QED
  BY <1>1 DEF Prefix

LEMMA PrefixPrefix ==
    ASSUME NEW S, NEW a \in Seq(S), NEW n \in 0..Len(a), NEW m \in 0..n
    PROVE  Prefix(Prefix(a, n), m) = Prefix(a, m)
<1> DEFINE p == Prefix(a, n)
           u == Prefix(p, m)
           v == Prefix(a, m)
<1>1. p \in Seq(S) /\ Len(p) = n /\ \A i \in 1..n : p[i] = a[i]
  BY PrefixElems
<1>2. n \in Nat /\ m \in Nat /\ m <= n /\ n <= Len(a) /\ Len(a) \in Nat
  OBVIOUS
<1>3. v \in Seq(S) /\ Len(v) = m /\ \A i \in 1..m : v[i] = a[i]
  <2>1. m \in 0..Len(a)
    BY <1>2
  <2> QED
    BY <2>1, PrefixElems
<1>4. u \in Seq(S) /\ Len(u) = m /\ \A i \in 1..m : u[i] = p[i]
  <2> HIDE DEF p
  <2> QED
    BY <1>1, PrefixElems
<1> HIDE DEF p, u, v
<1>5. \A i \in 1..m : u[i] = v[i]
  BY <1>1, <1>2, <1>3, <1>4
<1>6. u = v
  BY <1>3, <1>4, <1>5, SeqEqual
<1> QED
  BY <1>6 DEF u, v, p

(* The checkpoints of a lineage, by position. *)
PkOK(pk, rows, w) ==
    /\ pk \in Seq(Ckpt)
    /\ \A i \in 1..Len(pk) : pk[i].pos \in 1..Len(rows)
    /\ \A i, j \in 1..Len(pk) : i < j => pk[i].pos < pk[j].pos
    /\ w => \A i \in 1..Len(pk) : pk[i].gdn = Prefix(rows, pk[i].pos)

LEMMA PkOfRt ==
    ASSUME NEW rt, NEW w \in BOOLEAN, NEW x \in BOOLEAN, RtOK(rt, w, x)
    PROVE  PkOK(rt.pk, rt.rows, w)
<1>1. rt.pk \in Seq(Ckpt)
  BY DEF RtOK, RtType
<1>2. DOMAIN rt.pk = 1..Len(rt.pk)
  BY <1>1
<1> QED
  BY <1>1, <1>2 DEF RtOK, Sorted, Whole, PkOK

LEMMA RtOfPk ==
    ASSUME NEW rt, NEW w \in BOOLEAN, NEW x \in BOOLEAN,
           rt \in RtType, rt.toks = Toks(rt.rows), Len(rt.rows) <= NCtx,
           PkOK(rt.pk, rt.rows, w), ~Recurrent => rt.pk = <<>>,
           w => (Recurrent => rt.gdn = rt.rows),
           x => Plainly(rt.rows) /\ rt.ovr = <<>>
    PROVE  RtOK(rt, w, x)
<1>1. rt.pk \in Seq(Ckpt)
  BY DEF PkOK
<1>2. DOMAIN rt.pk = 1..Len(rt.pk)
  BY <1>1
<1>3. Sorted(rt)
  BY <1>2 DEF PkOK, Sorted
<1>4. w => Whole(rt)
  BY <1>2 DEF PkOK, Whole
<1> QED
  BY <1>3, <1>4 DEF RtOK

LEMMA DropElems ==
    ASSUME NEW S, NEW s \in Seq(S), NEW i \in 1..Len(s)
    PROVE  /\ Drop(s, i) \in Seq(S) /\ Len(Drop(s, i)) = Len(s) - 1
           /\ \A j \in 1..(Len(s) - 1) : Drop(s, i)[j] = s[IF j < i THEN j ELSE j + 1]
<1> DEFINE n == Len(s)
           a == Prefix(s, i - 1)
           b == SubSeq(s, i + 1, n)
           d == a \o b
<1>1. n \in Nat /\ i \in Nat /\ i >= 1 /\ i <= n /\ i - 1 \in 0..n
  OBVIOUS
<1>2. a \in Seq(S) /\ Len(a) = i - 1 /\ \A j \in 1..(i - 1) : a[j] = s[j]
  BY <1>1, PrefixElems
<1>3. b \in Seq(S) /\ Len(b) = n - i /\ \A j \in 1..(n - i) : b[j] = s[i + j]
  <2>1. b \in Seq(S) /\ Len(b) = n - i
    BY <1>1
  <2>2. ASSUME NEW j \in 1..(n - i) PROVE b[j] = s[i + j]
    <3>1. b[j] = s[(i + 1) + j - 1] /\ (i + 1) + j - 1 = i + j
      BY <1>1
    <3> QED
      BY <3>1
  <2> QED
    BY <2>1, <2>2
<1>4. Drop(s, i) = d
  BY DEF Drop
<1> HIDE DEF a, b
<1>5. d \in Seq(S) /\ Len(d) = n - 1
  <2>1. a \in Seq(S) /\ b \in Seq(S)
    BY <1>2, <1>3
  <2>2. d \in Seq(S) /\ Len(d) = Len(a) + Len(b)
    BY <2>1
  <2> QED
    BY <2>2, <1>1, <1>2, <1>3
<1>6. ASSUME NEW j \in 1..(n - 1) PROVE d[j] = s[IF j < i THEN j ELSE j + 1]
  <2>1. CASE j < i
    <3>1. j \in 1..(i - 1)
      BY <2>1, <1>1
    <3>2. d[j] = a[j]
      BY <3>1, <1>2, <1>3
    <3> QED
      BY <2>1, <3>1, <3>2, <1>2
  <2>2. CASE ~(j < i)
    <3>1. j - (i - 1) \in 1..(n - i) /\ i + (j - (i - 1)) = j + 1 /\ ~(j <= i - 1)
          /\ j \in 1..((i - 1) + (n - i))
      BY <2>2, <1>1
    <3>2. d[j] = b[j - (i - 1)]
      BY SMTT(40), <3>1, <1>2, <1>3, ConcatProperties
    <3>3. b[j - (i - 1)] = s[i + (j - (i - 1))]
      BY <3>1, <1>3
    <3> QED
      BY <2>2, <3>1, <3>2, <3>3
  <2> QED
    BY <2>1, <2>2
<1> QED
  BY <1>4, <1>5, <1>6

LEMMA DropOK ==
    ASSUME NEW pk, NEW rows, NEW w \in BOOLEAN, PkOK(pk, rows, w), NEW i \in 1..Len(pk)
    PROVE  PkOK(Drop(pk, i), rows, w)
<1> DEFINE d == Drop(pk, i)
           at(j) == IF j < i THEN j ELSE j + 1
<1>1. pk \in Seq(Ckpt) /\ Len(pk) \in Nat
  BY DEF PkOK
<1>2. d \in Seq(Ckpt) /\ Len(d) = Len(pk) - 1 /\ \A j \in 1..(Len(pk) - 1) : d[j] = pk[at(j)]
  BY <1>1, DropElems
<1> HIDE DEF d
<1>3. \A j \in 1..Len(d) : at(j) \in 1..Len(pk) /\ d[j] = pk[at(j)]
  BY <1>1, <1>2
<1>4. \A j, k \in 1..Len(d) : j < k => at(j) < at(k)
  BY <1>1, <1>2
<1> HIDE DEF at
<1> QED
  BY <1>2, <1>3, <1>4 DEF PkOK, d

(* pk_snapshot() finds a checkpoint to evict. *)
LEMMA WorstExists ==
    ASSUME NEW pk, NEW rows, NEW w \in BOOLEAN, PkOK(pk, rows, w), Len(pk) >= 2
    PROVE  Worst(pk) \in 1..Len(pk)
<1> DEFINE n == Len(pk) - 1
           I == 1..n
           G == {Gap(pk, i) : i \in I}
           P(i) == \A j \in I : Gap(pk, i) < Gap(pk, j) \/ (Gap(pk, i) = Gap(pk, j) /\ i <= j)
<1>1. pk \in Seq(Ckpt) /\ Len(pk) \in Nat /\ n \in Nat /\ 1 \in I
  BY DEF PkOK
<1>2. ASSUME NEW i \in I PROVE Gap(pk, i) \in Nat
  <2>1. i \in 1..Len(pk) /\ pk[i].pos \in 1..Len(rows)
    BY <1>1 DEF PkOK
  <2>2. CASE i = 1
    BY <2>1, <2>2 DEF Gap
  <2>3. CASE i # 1
    <3>1. i - 1 \in 1..Len(pk) /\ i - 1 < i
      BY <2>1, <2>3
    <3>2. pk[i - 1].pos \in 1..Len(rows) /\ pk[i - 1].pos < pk[i].pos
      BY <2>1, <3>1 DEF PkOK
    <3>3. Gap(pk, i) = pk[i].pos - pk[i - 1].pos
      BY <2>3 DEF Gap
    <3> QED
      BY <2>1, <3>2, <3>3
  <2> QED
    BY <2>2, <2>3
<1>3. PICK g \in G : \A h \in G : g <= h
  <2>1. G \subseteq Nat /\ G # {}
    BY <1>1, <1>2
  <2> HIDE DEF G
  <2> QED
    BY <2>1, LeastNat
<1> DEFINE J == {i \in I : Gap(pk, i) = g}
<1>4. PICK i \in J : \A j \in J : i <= j
  <2>1. J \subseteq Nat /\ J # {}
    BY <1>1, <1>3
  <2> HIDE DEF J
  <2> QED
    BY <2>1, LeastNat
<1>5. i \in I /\ P(i)
  <2>1. i \in I /\ Gap(pk, i) = g /\ g \in Nat
    BY <1>2, <1>4
  <2>2. ASSUME NEW j \in I PROVE Gap(pk, i) < Gap(pk, j) \/ (Gap(pk, i) = Gap(pk, j) /\ i <= j)
    <3>1. g <= Gap(pk, j) /\ Gap(pk, j) \in Nat
      BY <1>2, <1>3
    <3>2. Gap(pk, j) = g => i <= j
      BY <1>4
    <3> QED
      BY <2>1, <3>1, <3>2
  <2> QED
    BY <2>1, <2>2
<1>6. Worst(pk) = CHOOSE k \in I : P(k)
  BY DEF Worst
<1>7. Worst(pk) \in I
  <2> HIDE DEF P, I
  <2> QED
    BY <1>5, <1>6
<1> QED
  BY <1>1, <1>7

LEMMA AppendCkpt ==
    ASSUME NEW pk, NEW rows, NEW w \in BOOLEAN, PkOK(pk, rows, w), NEW c \in Ckpt,
           c.pos \in 1..Len(rows), \A i \in 1..Len(pk) : pk[i].pos < c.pos,
           w => c.gdn = Prefix(rows, c.pos)
    PROVE  PkOK(Append(pk, c), rows, w)
<1> DEFINE d == Append(pk, c)
<1>1. pk \in Seq(Ckpt) /\ Len(pk) \in Nat
  BY DEF PkOK
<1>2. d \in Seq(Ckpt) /\ Len(d) = Len(pk) + 1 /\ d[Len(pk) + 1] = c
      /\ \A i \in 1..Len(pk) : d[i] = pk[i]
  BY <1>1
<1> HIDE DEF d
<1>3. ASSUME NEW i \in 1..Len(d)
      PROVE  /\ d[i].pos \in 1..Len(rows)
             /\ w => d[i].gdn = Prefix(rows, d[i].pos)
             /\ \A j \in 1..Len(d) : i < j => d[i].pos < d[j].pos
  <2>1. CASE i = Len(pk) + 1
    BY <2>1, <1>1, <1>2
  <2>2. CASE i \in 1..Len(pk)
    <3>1. d[i] = pk[i] /\ d[i].pos \in 1..Len(rows) /\ (w => d[i].gdn = Prefix(rows, d[i].pos))
      BY <2>2, <1>2 DEF PkOK
    <3>2. ASSUME NEW j \in 1..Len(d), i < j PROVE d[i].pos < d[j].pos
      <4>1. CASE j = Len(pk) + 1
        BY <4>1, <2>2, <3>1, <1>2
      <4>2. CASE j \in 1..Len(pk)
        BY <4>2, <2>2, <3>2, <1>2 DEF PkOK
      <4> QED
        BY <4>1, <4>2, <1>1, <1>2
    <3> QED
      BY <3>1, <3>2
  <2> QED
    BY <2>1, <2>2, <1>1, <1>2
<1> QED
  BY <1>2, <1>3 DEF PkOK, d

(* The checkpoint that is taken is the newest. *)
LEMMA SnapshotPk ==
    ASSUME NEW rt, NEW w \in BOOLEAN, NEW x \in BOOLEAN, RtOK(rt, w, x)
    PROVE  \/ Snapshot(rt) = rt
           \/ /\ Recurrent /\ PkMax # 0
              /\ \E c \in Ckpt :
                   /\ c.pos = Len(rt.rows) /\ Len(rt.rows) # 0 /\ c.gdn = rt.gdn
                   /\ \A i \in 1..Len(rt.pk) : rt.pk[i].pos < c.pos
                   /\ Snapshot(rt) = [rt EXCEPT !.pk = Thin(Append(rt.pk, c))]
<1> DEFINE pk == rt.pk
           n == Len(rt.rows)
           m == Len(pk)
           c == [pos |-> n, gdn |-> rt.gdn, rope |-> rt.rope]
           L == {i \in DOMAIN pk : pk[i].pos < c.pos}
           k == Cardinality(L)
           q == k + (IF k < m /\ pk[k + 1].pos = c.pos THEN 2 ELSE 1)
           skip == ~Recurrent \/ PkMax = 0 \/ n = 0 \/ (pk # <<>> /\ pk[m].pos = n)
<1>1. Snapshot(rt) = IF skip THEN rt
                     ELSE [rt EXCEPT !.pk = Thin(Prefix(pk, k) \o <<c>> \o SubSeq(pk, q, m))]
  BY DEF Snapshot, n_past
<1>2. SUFFICES ASSUME ~skip PROVE
              /\ Recurrent /\ PkMax # 0
              /\ c \in Ckpt /\ c.pos = n /\ n # 0 /\ c.gdn = rt.gdn
              /\ \A i \in 1..m : pk[i].pos < n
              /\ Snapshot(rt) = [rt EXCEPT !.pk = Thin(Append(pk, c))]
  <2> HIDE DEF c
  <2> QED
    BY <1>1
<1>3. PkOK(pk, rt.rows, w)
  BY PkOfRt
<1>4. /\ rt.rows \in Seq(Cell) /\ rt.gdn \in Gdn /\ rt.rope \in Int /\ pk \in Seq(Ckpt)
      /\ n \in Nat /\ m \in Nat /\ DOMAIN pk = 1..m
  BY DEF RtOK, RtType
<1>5. c \in Ckpt
  BY <1>4 DEF Ckpt
<1>6. ASSUME NEW i \in 1..m PROVE pk[i].pos < n
  <2>1. m \in 1..m /\ pk # <<>>
    BY <1>4
  <2>2. pk[m].pos \in 1..n /\ pk[m].pos # n
    BY <1>2, <1>3, <2>1 DEF PkOK
  <2>3. CASE i = m
    BY <2>2, <2>3, <1>4
  <2>4. CASE i # m
    <3>1. i < m
      BY <2>4, <1>4
    <3>2. pk[i].pos < pk[m].pos /\ pk[i].pos \in 1..n
      BY <3>1, <2>1, <1>3 DEF PkOK
    <3> QED
      BY <3>2, <2>2, <1>4
  <2> QED
    BY <2>3, <2>4
<1>7. L = 1..m
  BY <1>4, <1>6
<1>8. k = m
  <2>1. Cardinality(1..m) = m
    BY <1>4, FS_Interval
  <2> QED
    BY <2>1, <1>7
<1>9. q = m + 1
  <2>1. ~(k < m)
    BY <1>8, <1>4
  <2> DEFINE same == pk[k + 1].pos = c.pos
  <2>2. q = k + (IF k < m /\ same THEN 2 ELSE 1)
    OBVIOUS
  <2> HIDE DEF k, q, same
  <2>3. q = k + 1
    BY <2>1, <2>2
  <2> QED
    BY <2>3, <1>8
<1> HIDE DEF c, k, q
<1>10. Prefix(pk, k) \o <<c>> \o SubSeq(pk, q, m) = Append(pk, c)
  <2>1. SubSeq(pk, q, m) = <<>>
    BY <1>4, <1>9, SubSeqEmpty
  <2>2. Prefix(pk, k) = pk
    BY <1>4, <1>8, SubSeqFull DEF Prefix
  <2>3. pk \o <<c>> = Append(pk, c) /\ Append(pk, c) \in Seq(Ckpt)
    BY <1>4, <1>5
  <2> HIDE DEF pk
  <2>4. Append(pk, c) \o <<>> = Append(pk, c)
    BY <2>3, ConcatEmptySeq
  <2> QED
    BY <2>1, <2>2, <2>3, <2>4
<1>11. Snapshot(rt) = [rt EXCEPT !.pk = Thin(Append(pk, c))]
  BY <1>1, <1>2, <1>10
<1> QED
  BY <1>2, <1>5, <1>6, <1>11 DEF c

LEMMA ThinOK ==
    ASSUME NEW pk, NEW rows, NEW w \in BOOLEAN, PkOK(pk, rows, w), PkMax # 0
    PROVE  PkOK(Thin(pk), rows, w)
<1>1. PkMax \in Nat /\ pk \in Seq(Ckpt) /\ Len(pk) \in Nat
  BY Consts DEF PkOK
<1>2. CASE Len(pk) > PkMax
  <2>1. Len(pk) >= 2
    BY <1>1, <1>2
  <2>2. Worst(pk) \in 1..Len(pk)
    BY <2>1, WorstExists
  <2>3. PkOK(Drop(pk, Worst(pk)), rows, w)
    BY <2>2, DropOK
  <2> QED
    BY <1>2, <2>3 DEF Thin
<1>3. CASE ~(Len(pk) > PkMax)
  BY <1>3 DEF Thin
<1> QED
  BY <1>2, <1>3

LEMMA SnapshotOK ==
    ASSUME NEW rt, NEW w \in BOOLEAN, NEW x \in BOOLEAN, RtOK(rt, w, x)
    PROVE  /\ RtOK(Snapshot(rt), w, x)
           /\ Snapshot(rt).toks = rt.toks /\ Snapshot(rt).rows = rt.rows
<1>1. CASE Snapshot(rt) = rt
  BY <1>1
<1>2. CASE Snapshot(rt) # rt
  <2>1. PICK c \in Ckpt : /\ Recurrent /\ PkMax # 0
                          /\ c.pos = Len(rt.rows) /\ Len(rt.rows) # 0 /\ c.gdn = rt.gdn
                          /\ \A i \in 1..Len(rt.pk) : rt.pk[i].pos < c.pos
                          /\ Snapshot(rt) = [rt EXCEPT !.pk = Thin(Append(rt.pk, c))]
    BY <1>2, SnapshotPk
  <2>2. /\ rt = [toks |-> rt.toks, rows |-> rt.rows, gdn |-> rt.gdn, rope |-> rt.rope,
                 pk |-> rt.pk, ovr |-> rt.ovr]
        /\ rt.toks \in Seq(Tok) /\ rt.rows \in Seq(Cell) /\ rt.gdn \in Gdn /\ rt.rope \in Int
        /\ rt.pk \in Seq(Ckpt) /\ rt.ovr \in Seq(Img)
    BY DEF RtOK, RtType
  <2> DEFINE pk == Thin(Append(rt.pk, c))
             z == [toks |-> rt.toks, rows |-> rt.rows, gdn |-> rt.gdn, rope |-> rt.rope,
                   pk |-> pk, ovr |-> rt.ovr]
  <2>3. PkOK(rt.pk, rt.rows, w)
    BY PkOfRt
  <2>4. c.pos \in 1..Len(rt.rows)
    BY <2>1, <2>2
  <2>5. w => c.gdn = Prefix(rt.rows, c.pos)
    <3>1. Prefix(rt.rows, Len(rt.rows)) = rt.rows
      BY <2>2, SubSeqFull DEF Prefix
    <3>2. w => rt.gdn = rt.rows
      BY <2>1 DEF RtOK, Whole
    <3> QED
      BY <2>1, <3>1, <3>2
  <2>6. PkOK(Append(rt.pk, c), rt.rows, w)
    BY <2>1, <2>3, <2>4, <2>5, AppendCkpt
  <2>7. PkOK(pk, rt.rows, w)
    BY <2>1, <2>6, ThinOK
  <2>8. pk \in Seq(Ckpt)
    BY <2>7 DEF PkOK
  <2> HIDE DEF pk
  <2>9. Snapshot(rt) = z
    BY <2>1, <2>2 DEF pk
  <2>10. z \in RtType
    BY <2>2, <2>8 DEF RtType
  <2>11. z.toks = rt.toks /\ z.rows = rt.rows /\ z.pk = pk /\ z.ovr = rt.ovr /\ z.gdn = rt.gdn
    OBVIOUS
  <2> HIDE DEF z
  <2>12. /\ rt.toks = Toks(rt.rows) /\ Len(rt.rows) <= NCtx
         /\ x => Plainly(rt.rows) /\ rt.ovr = <<>>
         /\ w => (Recurrent => rt.gdn = rt.rows)
    BY DEF RtOK, Whole
  <2>13. /\ z.toks = Toks(z.rows) /\ Len(z.rows) <= NCtx
         /\ PkOK(z.pk, z.rows, w)
         /\ ~Recurrent => z.pk = <<>>
         /\ w => (Recurrent => z.gdn = z.rows)
         /\ x => Plainly(z.rows) /\ z.ovr = <<>>
    BY <2>1, <2>7, <2>11, <2>12
  <2>14. RtOK(z, w, x)
    BY <2>10, <2>13, RtOfPk
  <2> QED
    BY <2>9, <2>11, <2>14
<1> QED
  BY <1>1, <1>2

(* The checkpoints at or before a position are the first ones. *)
LEMMA NewestIs ==
    ASSUME NEW pk, NEW rows, NEW w \in BOOLEAN, PkOK(pk, rows, w), rows \in Seq(Cell), NEW n \in Int
    PROVE  /\ NewestAt(pk, n) \in 0..Len(pk)
           /\ NewestAt(pk, n) # 0 => pk[NewestAt(pk, n)].pos <= n
           /\ \A i \in 1..Len(pk) : pk[i].pos <= n => i <= NewestAt(pk, n)
<1> DEFINE m == Len(pk)
           T == {j \in 1..(m + 1) : j = m + 1 \/ pk[j].pos > n}
           D == {i \in DOMAIN pk : pk[i].pos <= n}
<1>1. pk \in Seq(Ckpt) /\ m \in Nat /\ DOMAIN pk = 1..m /\ Len(rows) \in Nat
  BY DEF PkOK
<1>2. PICK t \in T : \A j \in T : t <= j
  <2>1. T \subseteq Nat /\ m + 1 \in T
    BY <1>1
  <2> HIDE DEF T
  <2> QED
    BY <2>1, LeastNat
<1>3. t \in 1..(m + 1) /\ t - 1 \in 0..m
  BY <1>1, <1>2
<1>4. ASSUME NEW i \in 1..m PROVE pk[i].pos <= n <=> i \in 1..(t - 1)
  <2>1. pk[i].pos \in 1..Len(rows) /\ pk[i].pos \in Int
    BY DEF PkOK
  <2>2. CASE i < t
    <3>1. i \notin T /\ i \in 1..(m + 1) /\ i \in 1..(t - 1)
      BY <2>2, <1>1, <1>2, <1>3
    <3> QED
      BY <3>1, <2>1
  <2>3. CASE ~(i < t)
    <3>1. t \in 1..m /\ t # m + 1
      BY <2>3, <1>1, <1>3
    <3>2. pk[t].pos > n /\ pk[t].pos \in 1..Len(rows)
      BY <3>1, <1>2 DEF PkOK
    <3>3. pk[t].pos <= pk[i].pos
      <4>1. CASE i = t
        BY <4>1, <2>1
      <4>2. CASE t < i
        BY <4>2, <3>1, <3>2, <2>1 DEF PkOK
      <4> QED
        BY <4>1, <4>2, <2>3, <1>3
    <3> QED
      BY <2>1, <2>3, <3>2, <3>3, <1>1, <1>3
  <2> QED
    BY <2>2, <2>3, <1>3
<1>5. D = 1..(t - 1)
  BY <1>1, <1>3, <1>4
<1>6. Cardinality(1..(t - 1)) = t - 1
  <2> DEFINE u == t - 1
  <2>1. u \in Nat
    BY <1>1, <1>3
  <2> HIDE DEF u
  <2>2. Cardinality(1..u) = u
    BY <2>1, FS_Interval
  <2> QED
    BY <2>2 DEF u
<1>7. NewestAt(pk, n) = t - 1
  BY <1>5, <1>6 DEF NewestAt
<1>8. t - 1 # 0 => t - 1 \in 1..m /\ t - 1 \in 1..(t - 1)
  BY <1>1, <1>3
<1>9. \A i \in 1..m : pk[i].pos <= n => i <= t - 1
  BY <1>3, <1>4
<1> QED
  BY <1>3, <1>4, <1>7, <1>8, <1>9

LEMMA PrefixPk ==
    ASSUME NEW pk, NEW rows, NEW w \in BOOLEAN, PkOK(pk, rows, w), rows \in Seq(Cell),
           NEW i \in 1..Len(pk)
    PROVE  PkOK(Prefix(pk, i), Prefix(rows, pk[i].pos), w)
<1> DEFINE p == Prefix(pk, i)
           n == pk[i].pos
           r == Prefix(rows, n)
<1>1. pk \in Seq(Ckpt) /\ Len(pk) \in Nat /\ Len(rows) \in Nat /\ i \in 0..Len(pk)
  BY DEF PkOK
<1>2. p \in Seq(Ckpt) /\ Len(p) = i /\ \A j \in 1..i : p[j] = pk[j]
  BY <1>1, PrefixElems
<1>3. n \in 1..Len(rows) /\ n \in 0..Len(rows)
  BY DEF PkOK
<1> HIDE DEF p
<1>4. r \in Seq(Cell) /\ Len(r) = n
  BY <1>3, PrefixElems
<1>5. ASSUME NEW j \in 1..i
      PROVE  p[j].pos \in 1..n /\ (w => p[j].gdn = Prefix(r, p[j].pos))
  <2>1. j \in 1..Len(pk) /\ pk[j].pos \in 1..Len(rows)
    BY <1>1 DEF PkOK
  <2>2. pk[j].pos <= n
    <3>1. CASE j = i
      BY <3>1, <1>3
    <3>2. CASE j < i
      BY <3>2, <2>1, <1>3 DEF PkOK
    <3> QED
      BY <3>1, <3>2, <1>1
  <2>3. pk[j].pos \in 0..n /\ pk[j].pos \in 1..n
    BY <2>1, <2>2, <1>3
  <2>4. Prefix(r, pk[j].pos) = Prefix(rows, pk[j].pos)
    BY <2>3, <1>3, PrefixPrefix
  <2>5. w => pk[j].gdn = Prefix(rows, pk[j].pos)
    BY <2>1 DEF PkOK
  <2> QED
    BY <2>3, <2>4, <2>5, <1>2
<1>6. ASSUME NEW j \in 1..i, NEW k \in 1..i, j < k PROVE p[j].pos < p[k].pos
  BY <1>1, <1>2, <1>6 DEF PkOK
<1> HIDE DEF r
<1>7. PkOK(p, r, w)
  BY <1>2, <1>4, <1>5, <1>6 DEF PkOK
<1> QED
  BY <1>7 DEF p, r

LEMMA PlainPrefix ==
    ASSUME NEW a \in Seq(Cell), NEW n \in 0..Len(a), Plainly(a)
    PROVE  Plainly(Prefix(a, n))
<1> DEFINE p == Prefix(a, n)
<1>1. p \in Seq(Cell) /\ Len(p) = n /\ \A i \in 1..n : p[i] = a[i]
  BY ToksPrefix
<1>2. DOMAIN a = 1..Len(a) /\ n \in Nat /\ n <= Len(a) /\ Len(a) \in Nat
  OBVIOUS
<1> HIDE DEF p
<1>3. DOMAIN p = 1..n
  BY <1>1
<1>4. Plainly(p)
  BY <1>1, <1>2, <1>3 DEF Plainly
<1> QED
  BY <1>4 DEF p

(* rewind_to(): the state is cut back to a prefix of itself. *)
LEMMA RewindOK ==
    ASSUME NEW rt, NEW w \in BOOLEAN, NEW x \in BOOLEAN, RtOK(rt, w, x), NEW n \in Nat \ {0}
    PROVE  /\ RtOK(Rewind(rt, n).rt, w, x)
           /\ Rewind(rt, n).n > 0 =>
                /\ Rewind(rt, n).n \in 0..Len(rt.toks) /\ Rewind(rt, n).n <= n
                /\ Rewind(rt, n).rt.toks = Prefix(rt.toks, Rewind(rt, n).n)
           /\ Rewind(rt, n).n \in Int
<1> DEFINE R == Rewind(rt, n)
<1>1. /\ rt = [toks |-> rt.toks, rows |-> rt.rows, gdn |-> rt.gdn, rope |-> rt.rope,
               pk |-> rt.pk, ovr |-> rt.ovr]
      /\ rt.toks \in Seq(Tok) /\ rt.rows \in Seq(Cell) /\ rt.gdn \in Gdn /\ rt.rope \in Int
      /\ rt.pk \in Seq(Ckpt) /\ rt.ovr \in Seq(Img)
  BY DEF RtOK, RtType
<1>2. /\ rt.toks = Toks(rt.rows) /\ Len(rt.rows) <= NCtx /\ Len(rt.toks) = Len(rt.rows)
      /\ PkOK(rt.pk, rt.rows, w) /\ (~Recurrent => rt.pk = <<>>)
      /\ w => (Recurrent => rt.gdn = rt.rows)
      /\ x => Plainly(rt.rows) /\ rt.ovr = <<>>
      /\ Len(rt.rows) \in Nat
  <2>1. Len(Toks(rt.rows)) = Len(rt.rows)
    BY <1>1, ToksType
  <2> QED
    BY <1>1, <2>1, PkOfRt DEF RtOK, Whole, Sorted
<1>3. CASE n >= Len(rt.toks)
  <2>1. R = [rt |-> rt, n |-> Len(rt.toks)]
    BY <1>3 DEF Rewind
  <2>2. Prefix(rt.toks, Len(rt.toks)) = rt.toks /\ Len(rt.toks) \in Nat
    BY <1>1, SubSeqFull DEF Prefix
  <2> QED
    BY <2>1, <2>2, <1>3
<1>4. CASE ~(n >= Len(rt.toks)) /\ ~Recurrent
  <2>1. CASE rt.rope # n_past(rt)
    <3>1. R = [rt |-> rt, n |-> -1]
      BY <1>4, <2>1 DEF Rewind
    <3> QED
      BY <3>1
  <2>2. CASE ~(rt.rope # n_past(rt))
    <3> DEFINE t == Prefix(rt.toks, n)
               r == Prefix(rt.rows, n)
               z == [toks |-> t, rows |-> r, gdn |-> rt.gdn, rope |-> n, pk |-> rt.pk, ovr |-> rt.ovr]
    <3>1. R = [rt |-> [rt EXCEPT !.toks = t, !.rows = r, !.rope = n], n |-> n]
      BY <1>4, <2>2 DEF Rewind
    <3>2. n \in 0..Len(rt.rows) /\ n \in 0..Len(rt.toks)
      BY <1>4, <1>2
    <3>3. r \in Seq(Cell) /\ Len(r) = n /\ Toks(r) = t
      BY <3>2, <1>1, <1>2, ToksPrefix
    <3>4. t \in Seq(Tok)
      BY <3>2, <1>1, PrefixElems
    <3>5. x => Plainly(r)
      BY <3>2, <1>1, <1>2, PlainPrefix
    <3> HIDE DEF t, r
    <3>6. R.rt = z
      <4> DEFINE d == [rt EXCEPT !.toks = t, !.rows = r, !.rope = n]
      <4>1. d = [rt EXCEPT !.toks = t, !.rows = r, !.rope = n] /\ R = [rt |-> d, n |-> n]
        BY <3>1, Zenon
      <4> HIDE DEF d, R
      <4>2. d = z
        BY <4>1, <1>1, Zenon
      <4>3. R.rt = d
        BY <4>1
      <4> QED
        BY <4>2, <4>3
    <3>7. z \in RtType
      BY <1>1, <3>3, <3>4 DEF RtType
    <3>8. /\ z.toks = t /\ z.rows = r /\ z.pk = <<>> /\ z.ovr = rt.ovr
      BY <1>2, <1>4
    <3> HIDE DEF z
    <3>9. PkOK(z.pk, z.rows, w)
      BY <3>8 DEF PkOK
    <3>10. /\ z.toks = Toks(z.rows) /\ Len(z.rows) <= NCtx
           /\ ~Recurrent => z.pk = <<>>
           /\ w => (Recurrent => z.gdn = z.rows)
           /\ x => Plainly(z.rows) /\ z.ovr = <<>>
      BY <3>2, <3>3, <3>5, <3>8, <1>2, <1>4, Consts
    <3>11. RtOK(z, w, x)
      BY <3>7, <3>9, <3>10, RtOfPk
    <3>12. R.rt = z /\ R.n = n
      BY <3>1, <3>6
    <3> HIDE DEF R
    <3> QED
      BY <3>2, <3>8, <3>11, <3>12 DEF t, R
  <2> QED
    BY <2>1, <2>2
<1>5. CASE ~(n >= Len(rt.toks)) /\ Recurrent
  <2> DEFINE i == NewestAt(rt.pk, n)
             c == rt.pk[i]
  <2>1. i \in 0..Len(rt.pk) /\ (i # 0 => c.pos <= n)
    BY <1>1, <1>2, NewestIs
  <2>2. CASE i = 0
    <3>1. R = [rt |-> rt, n |-> -1]
      BY <1>5, <2>2 DEF Rewind
    <3> QED
      BY <3>1
  <2>3. CASE i # 0
    <3> DEFINE t == Prefix(rt.toks, c.pos)
               r == Prefix(rt.rows, c.pos)
               p == Prefix(rt.pk, i)
               z == [toks |-> t, rows |-> r, gdn |-> c.gdn, rope |-> c.rope, pk |-> p, ovr |-> rt.ovr]
    <3>1. R = [rt |-> [rt EXCEPT !.toks = t, !.rows = r, !.gdn = c.gdn, !.rope = c.rope, !.pk = p],
               n |-> c.pos]
      BY <1>5, <2>3 DEF Rewind
    <3>2. i \in 1..Len(rt.pk) /\ c \in Ckpt
      BY <1>1, <2>1, <2>3
    <3>3. c.pos \in 1..Len(rt.rows) /\ c.pos \in 0..Len(rt.rows) /\ (w => c.gdn = r)
      BY <1>2, <3>2 DEF PkOK
    <3>4. c.gdn \in Gdn /\ c.rope \in Int
      BY <3>2 DEF Ckpt
    <3>5. r \in Seq(Cell) /\ Len(r) = c.pos /\ Toks(r) = t
      BY <3>3, <1>1, <1>2, ToksPrefix
    <3>6. t \in Seq(Tok)
      BY <3>3, <1>1, <1>2, PrefixElems
    <3>7. x => Plainly(r)
      BY <3>3, <1>1, <1>2, PlainPrefix
    <3>8. PkOK(p, r, w)
      BY <3>2, <1>1, <1>2, PrefixPk
    <3>9. p \in Seq(Ckpt)
      BY <3>8 DEF PkOK
    <3> HIDE DEF t, r, p, c
    <3>10. R.rt = z
      <4> DEFINE d == [rt EXCEPT !.toks = t, !.rows = r, !.gdn = c.gdn, !.rope = c.rope, !.pk = p]
                 g == c.gdn
                 o == c.rope
      <4>1. d = [rt EXCEPT !.toks = t, !.rows = r, !.gdn = g, !.rope = o, !.pk = p]
            /\ R = [rt |-> d, n |-> c.pos]
        BY <3>1, Zenon
      <4> HIDE DEF d, R, g, o
      <4>2. d = [toks |-> t, rows |-> r, gdn |-> g, rope |-> o, pk |-> p, ovr |-> rt.ovr]
        BY <4>1, <1>1, Zenon
      <4>3. R.rt = d
        BY <4>1
      <4> QED
        BY <4>2, <4>3 DEF g, o
    <3>11. z \in RtType
      BY <1>1, <3>4, <3>5, <3>6, <3>9 DEF RtType
    <3>12. z.toks = t /\ z.rows = r /\ z.pk = p /\ z.ovr = rt.ovr /\ z.gdn = c.gdn
      OBVIOUS
    <3> HIDE DEF z
    <3>13. /\ z.toks = Toks(z.rows) /\ Len(z.rows) <= NCtx
           /\ PkOK(z.pk, z.rows, w)
           /\ ~Recurrent => z.pk = <<>>
           /\ w => (Recurrent => z.gdn = z.rows)
           /\ x => Plainly(z.rows) /\ z.ovr = <<>>
      BY <3>3, <3>5, <3>7, <3>8, <3>12, <1>2, <1>5, Consts
    <3>14. RtOK(z, w, x)
      BY <3>11, <3>13, RtOfPk
    <3>15. R.rt = z /\ R.n = c.pos
      BY <3>1, <3>10
    <3>16. c.pos \in 0..Len(rt.toks) /\ c.pos <= n /\ c.pos \in Int /\ z.toks = Prefix(rt.toks, c.pos)
      BY <3>3, <2>1, <2>3, <1>2, <3>12 DEF t, c
    <3> HIDE DEF R
    <3> QED
      BY <3>14, <3>15, <3>16 DEF R
  <2> QED
    BY <2>2, <2>3
<1> QED
  BY <1>3, <1>4, <1>5, Consts

(* pk_best() never promises more than it was asked for. *)
LEMMA BestOK ==
    ASSUME NEW rt, NEW w \in BOOLEAN, NEW x \in BOOLEAN, RtOK(rt, w, x), NEW n \in Nat
    PROVE  BestCkpt(rt, n) \in Int /\ BestCkpt(rt, n) <= n
<1> DEFINE i == NewestAt(rt.pk, n)
<1>1. rt.rows \in Seq(Cell) /\ Len(rt.rows) \in Nat /\ PkOK(rt.pk, rt.rows, w)
  <2>1. rt.rows \in Seq(Cell)
    BY DEF RtOK, RtType
  <2>2. PkOK(rt.pk, rt.rows, w)
    BY PkOfRt
  <2> QED
    BY <2>1, <2>2
<1>2. i \in 0..Len(rt.pk) /\ (i # 0 => rt.pk[i].pos <= n)
  <2>1. n \in Int
    OBVIOUS
  <2> QED
    BY <1>1, <2>1, NewestIs
<1>3. i # 0 => rt.pk[i].pos \in Int
  <2>1. i # 0 => i \in 1..Len(rt.pk)
    BY <1>1, <1>2 DEF PkOK
  <2> QED
    BY <2>1, <1>1 DEF PkOK
<1> HIDE DEF i
<1>4. BestCkpt(rt, n) = IF n <= 0 THEN -1
                        ELSE IF ~Recurrent
                        THEN IF rt.rope = Len(rt.rows)
                             THEN (IF n < Len(rt.rows) THEN n ELSE Len(rt.rows)) ELSE -1
                        ELSE IF i = 0 THEN -1 ELSE rt.pk[i].pos
  BY DEF BestCkpt, n_past, i
<1> QED
  BY <1>1, <1>2, <1>3, <1>4

-----------------------------------------------------------------------------
(* Texts *)

Texts(toks) == [i \in DOMAIN toks |-> TextOf[toks[i]]]

LEMMA TextsType ==
    ASSUME NEW toks \in Seq(Tok)
    PROVE  /\ Texts(toks) \in Seq(Seq(Chars)) /\ Len(Texts(toks)) = Len(toks)
           /\ \A i \in 1..Len(toks) : Texts(toks)[i] = TextOf[toks[i]]
<1> DEFINE n == Len(toks)
           S == Seq(Chars)
<1>1. n \in Nat /\ DOMAIN toks = 1..n /\ \A i \in 1..n : toks[i] \in Tok
  OBVIOUS
<1>2. \A i \in 1..n : TextOf[toks[i]] \in S
  BY <1>1, Consts
<1>3. Texts(toks) = [i \in 1..n |-> TextOf[toks[i]]]
  BY <1>1 DEF Texts
<1> HIDE DEF n, S
<1>4. [i \in 1..n |-> TextOf[toks[i]]] \in Seq(S) /\ Len([i \in 1..n |-> TextOf[toks[i]]]) = n
  BY <1>1, <1>2
<1> QED
  BY <1>3, <1>4 DEF n, S

LEMMA TextsConcat ==
    ASSUME NEW a \in Seq(Tok), NEW b \in Seq(Tok)
    PROVE  Texts(a \o b) = Texts(a) \o Texts(b)
<1> DEFINE ab == a \o b
           ta == Texts(a)
           tb == Texts(b)
           S == Seq(Chars)
<1>1. /\ ab \in Seq(Tok) /\ Len(ab) = Len(a) + Len(b) /\ Len(a) \in Nat /\ Len(b) \in Nat
      /\ \A i \in 1..Len(a) : ab[i] = a[i]
      /\ \A i \in 1..Len(b) : ab[Len(a) + i] = b[i]
  OBVIOUS
<1>2. /\ ta \in Seq(S) /\ Len(ta) = Len(a) /\ \A i \in 1..Len(a) : ta[i] = TextOf[a[i]]
      /\ tb \in Seq(S) /\ Len(tb) = Len(b) /\ \A i \in 1..Len(b) : tb[i] = TextOf[b[i]]
  BY TextsType
<1> DEFINE u == Texts(ab)
           v == ta \o tb
<1> HIDE DEF S
<1>3. u \in Seq(S) /\ Len(u) = Len(a) + Len(b)
      /\ \A i \in 1..(Len(a) + Len(b)) : u[i] = TextOf[ab[i]]
  <2> HIDE DEF ab
  <2> QED
    BY <1>1, TextsType DEF S
<1>4. v \in Seq(S) /\ Len(v) = Len(a) + Len(b)
  <2>1. ta \in Seq(S) /\ tb \in Seq(S) /\ Len(ta) = Len(a) /\ Len(tb) = Len(b)
    BY <1>2
  <2> HIDE DEF ta, tb
  <2>2. ta \o tb \in Seq(S) /\ Len(ta \o tb) = Len(ta) + Len(tb)
    BY <2>1, ConcatProperties
  <2> QED
    BY <2>1, <2>2
<1>5. \A i \in 1..Len(a) : v[i] = ta[i]
  <2> HIDE DEF ta, tb
  <2> QED
    BY <1>2
<1>6. \A i \in 1..Len(b) : v[Len(a) + i] = tb[i]
  <2> HIDE DEF ta, tb
  <2> QED
    BY <1>2, <1>1
<1> HIDE DEF ab, ta, tb, u, v
<1>7. ASSUME NEW i \in 1..(Len(a) + Len(b)) PROVE u[i] = v[i]
  <2>1. CASE i <= Len(a)
    <3>1. i \in 1..Len(a)
      BY <2>1, <1>1
    <3>2. u[i] = TextOf[ab[i]] /\ ab[i] = a[i]
      BY <3>1, <1>1, <1>3
    <3>3. v[i] = ta[i] /\ ta[i] = TextOf[a[i]]
      BY <3>1, <1>2, <1>5
    <3> QED
      BY <3>2, <3>3
  <2>2. CASE ~(i <= Len(a))
    <3>1. i - Len(a) \in 1..Len(b) /\ i = Len(a) + (i - Len(a))
      BY <2>2, <1>1
    <3>2. u[i] = TextOf[ab[i]] /\ ab[i] = b[i - Len(a)]
      BY <3>1, <1>1, <1>3
    <3>3. v[i] = tb[i - Len(a)] /\ tb[i - Len(a)] = TextOf[b[i - Len(a)]]
      BY <3>1, <1>2, <1>6
    <3> QED
      BY <3>2, <3>3
  <2> QED
    BY <2>1, <2>2
<1>8. u = v
  BY <1>3, <1>4, <1>7, SeqEqual
<1> QED
  BY <1>8 DEF u, v, ab, ta, tb

LEMMA TextType ==
    ASSUME NEW toks \in Seq(Tok)
    PROVE  TextOfToks(toks) \in Seq(Chars)
<1>1. TextOfToks(toks) = FlattenSeq(Texts(toks))
  BY DEF TextOfToks, Texts
<1>2. Texts(toks) \in Seq(Seq(Chars))
  BY TextsType
<1>3. FlattenSeq(Texts(toks)) \in Seq(Chars)
  BY <1>2, FlattenType
<1> QED
  BY <1>1, <1>3

LEMMA TextConcat ==
    ASSUME NEW a \in Seq(Tok), NEW b \in Seq(Tok)
    PROVE  TextOfToks(a \o b) = TextOfToks(a) \o TextOfToks(b)
<1>1. \A t : TextOfToks(t) = FlattenSeq(Texts(t))
  BY DEF TextOfToks, Texts
<1> DEFINE ta == Texts(a)
           tb == Texts(b)
<1>2. ta \in Seq(Seq(Chars)) /\ tb \in Seq(Seq(Chars))
  BY TextsType
<1>3. Texts(a \o b) = ta \o tb
  BY TextsConcat
<1>4. FlattenSeq(ta \o tb) = FlattenSeq(ta) \o FlattenSeq(tb)
  <2> HIDE DEF ta, tb
  <2> QED
    BY <1>2, FlattenConcat
<1> QED
  BY <1>1, <1>3, <1>4, Zenon

LEMMA SplitAt ==
    ASSUME NEW S, NEW s \in Seq(S), NEW m \in 0..Len(s), NEW n \in 0..m
    PROVE  /\ SubSeq(s, n + 1, m) \in Seq(S) /\ Prefix(s, n) \in Seq(S)
           /\ Prefix(s, n) \o SubSeq(s, n + 1, m) = Prefix(s, m)
<1> DEFINE a == Prefix(s, n)
           b == SubSeq(s, n + 1, m)
           p == Prefix(s, m)
           d == a \o b
<1>1. m \in Nat /\ n \in Nat /\ n <= m /\ m <= Len(s) /\ Len(s) \in Nat /\ n \in 0..Len(s)
  OBVIOUS
<1>2. a \in Seq(S) /\ Len(a) = n /\ \A i \in 1..n : a[i] = s[i]
  BY <1>1, PrefixElems
<1>3. p \in Seq(S) /\ Len(p) = m /\ \A i \in 1..m : p[i] = s[i]
  BY <1>1, PrefixElems
<1>4. b \in Seq(S) /\ Len(b) = m - n /\ \A i \in 1..(m - n) : b[i] = s[n + i]
  <2>1. b \in Seq(S) /\ Len(b) = m - n
    BY <1>1
  <2>2. ASSUME NEW i \in 1..(m - n) PROVE b[i] = s[n + i]
    <3>1. b[i] = s[(n + 1) + i - 1] /\ (n + 1) + i - 1 = n + i
      BY <1>1
    <3> QED
      BY <3>1
  <2> QED
    BY <2>1, <2>2
<1> HIDE DEF a, b, p
<1>5. d \in Seq(S) /\ Len(d) = m
  <2>1. a \in Seq(S) /\ b \in Seq(S)
    BY <1>2, <1>4
  <2>2. d \in Seq(S) /\ Len(d) = Len(a) + Len(b)
    BY <2>1
  <2> QED
    BY <2>2, <1>1, <1>2, <1>4
<1>6. ASSUME NEW i \in 1..m PROVE d[i] = s[i]
  <2>1. CASE i <= n
    BY <2>1, <1>1, <1>2, <1>4
  <2>2. CASE ~(i <= n)
    <3>1. i - n \in 1..(m - n) /\ n + (i - n) = i /\ i \in 1..(n + (m - n))
      BY <2>2, <1>1
    <3>2. d[i] = b[i - n]
      BY <3>1, <2>2, <1>2, <1>4, ConcatProperties
    <3> QED
      BY <3>1, <3>2, <1>4
  <2> QED
    BY <2>1, <2>2
<1> HIDE DEF d
<1>7. d = p
  BY <1>3, <1>5, <1>6, SeqEqual
<1> QED
  BY <1>2, <1>4, <1>7 DEF d, a, b, p

-----------------------------------------------------------------------------
(* match_cov *)

LEMMA CommonIs ==
    ASSUME NEW kv \in Seq(Tok), NEW prompt \in Seq(Tok) \ {<<>>}
    PROVE  /\ Common(kv, prompt) \in Nat
           /\ Common(kv, prompt) <= Len(kv) /\ Common(kv, prompt) < Len(prompt)
           /\ \A i \in 1..Common(kv, prompt) : kv[i] = prompt[i]
<1> DEFINE lim == IF Len(kv) < Len(prompt) THEN Len(kv) ELSE Len(prompt) - 1
           P(n) == /\ \A i \in 1..n : kv[i] = prompt[i]
                   /\ n = lim \/ kv[n + 1] # prompt[n + 1]
           T == {n \in 0..lim : n = lim \/ kv[n + 1] # prompt[n + 1]}
<1>1. Len(kv) \in Nat /\ Len(prompt) \in Nat /\ Len(prompt) >= 1
  OBVIOUS
<1>2. lim \in Nat /\ lim <= Len(kv) /\ lim < Len(prompt)
  BY <1>1
<1> HIDE DEF lim
<1>3. PICK m \in T : \A y \in T : m <= y
  <2>1. T \subseteq Nat /\ lim \in T
    BY <1>2
  <2> HIDE DEF T
  <2> QED
    BY <2>1, LeastNat
<1>4. m \in 0..lim /\ P(m)
  <2>1. m \in 0..lim /\ (m = lim \/ kv[m + 1] # prompt[m + 1])
    BY <1>3
  <2>2. ASSUME NEW i \in 1..m PROVE kv[i] = prompt[i]
    <3>1. i - 1 \in 0..lim /\ i - 1 \notin T /\ i - 1 # lim /\ (i - 1) + 1 = i
      BY <1>2, <1>3, <2>1
    <3> QED
      BY <3>1
  <2> QED
    BY <2>1, <2>2
<1>5. Common(kv, prompt) = CHOOSE n \in 0..lim : P(n)
  BY DEF Common, lim
<1>6. Common(kv, prompt) \in 0..lim /\ P(Common(kv, prompt))
  <2> HIDE DEF P
  <2> QED
    BY <1>4, <1>5
<1> QED
  BY <1>2, <1>6

LEMMA SamePrefix ==
    ASSUME NEW kv \in Seq(Tok), NEW prompt \in Seq(Tok), NEW n \in Nat,
           n <= Len(kv), n <= Len(prompt), \A i \in 1..n : kv[i] = prompt[i]
    PROVE  Prefix(kv, n) = Prefix(prompt, n)
<1> DEFINE p == Prefix(kv, n)
           q == Prefix(prompt, n)
<1>1. n \in 0..Len(kv) /\ n \in 0..Len(prompt)
  OBVIOUS
<1>2. p \in Seq(Tok) /\ Len(p) = n /\ \A i \in 1..n : p[i] = kv[i]
  BY <1>1, PrefixElems
<1>3. q \in Seq(Tok) /\ Len(q) = n /\ \A i \in 1..n : q[i] = prompt[i]
  BY <1>1, PrefixElems
<1> HIDE DEF p, q
<1>4. \A i \in 1..n : p[i] = q[i]
  BY <1>2, <1>3
<1>5. p = q
  BY <1>2, <1>3, <1>4, SeqEqual
<1> QED
  BY <1>5 DEF p, q

(* What is reused says what the covered part of the prompt says. *)
LEMMA CoverOK ==
    ASSUME NEW kv \in Seq(Tok), NEW prompt \in Seq(Tok) \ {<<>>}
    PROVE  LET c == Cover(kv, prompt, Common(kv, prompt))
           IN  \/ c = -1
               \/ /\ c \in 0..(Len(prompt) - 1)
                  /\ TextOfToks(kv) = TextOfToks(Prefix(prompt, c))
<1> DEFINE n == Common(kv, prompt)
           c == Cover(kv, prompt, n)
           ends == {j \in n..(Len(prompt) - 1) :
                      TextOfToks(SubSeq(prompt, n + 1, j)) = TextOfToks(SubSeq(kv, n + 1, Len(kv)))}
<1>1. n \in Nat /\ n <= Len(kv) /\ n < Len(prompt) /\ \A i \in 1..n : kv[i] = prompt[i]
  BY CommonIs
<1>2. prompt \in Seq(Tok) /\ Len(prompt) \in Nat /\ Len(kv) \in Nat
  OBVIOUS
<1>3. c = IF n = Len(kv) THEN n
          ELSE IF n > 0 THEN (IF ends = {} THEN -1 ELSE CHOOSE j \in ends : TRUE) ELSE -1
  BY DEF Cover, TextCover
<1> HIDE DEF n, c
<1>4. Prefix(kv, n) = Prefix(prompt, n)
  BY <1>1, <1>2, SamePrefix
<1>5. CASE n = Len(kv)
  <2>1. Prefix(kv, n) = kv
    BY <1>5, SubSeqFull DEF Prefix
  <2> QED
    BY <1>1, <1>2, <1>3, <1>4, <1>5, <2>1 DEF c, n
<1>6. CASE n # Len(kv) /\ c # -1
  <2>1. c \in ends
    <3>1. ends # {} /\ c = CHOOSE j \in ends : TRUE
      BY <1>3, <1>6
    <3> HIDE DEF ends
    <3> QED
      BY <3>1
  <2>2. /\ c \in n..(Len(prompt) - 1)
        /\ TextOfToks(SubSeq(prompt, n + 1, c)) = TextOfToks(SubSeq(kv, n + 1, Len(kv)))
    BY <2>1
  <2>3. c \in 0..Len(prompt) /\ n \in 0..c /\ n \in 0..Len(kv) /\ Len(kv) \in 0..Len(kv)
        /\ c \in 0..(Len(prompt) - 1)
    BY <2>2, <1>1, <1>2
  <2> DEFINE p == Prefix(prompt, n)
             b == SubSeq(prompt, n + 1, c)
             k == SubSeq(kv, n + 1, Len(kv))
  <2>4. p \in Seq(Tok) /\ b \in Seq(Tok) /\ p \o b = Prefix(prompt, c)
    BY <2>3, <1>2, SplitAt
  <2>5. k \in Seq(Tok) /\ p \o k = kv
    <3>1. k \in Seq(Tok) /\ Prefix(kv, n) \o k = Prefix(kv, Len(kv))
      BY <2>3, SplitAt
    <3>2. Prefix(kv, Len(kv)) = kv
      BY SubSeqFull DEF Prefix
    <3> QED
      BY <3>1, <3>2, <1>4, Zenon
  <2> HIDE DEF p, b, k
  <2>6. TextOfToks(p \o b) = TextOfToks(p) \o TextOfToks(b)
    BY <2>4, TextConcat
  <2>7. TextOfToks(p \o k) = TextOfToks(p) \o TextOfToks(k)
    BY <2>4, <2>5, TextConcat
  <2>8. TextOfToks(b) = TextOfToks(k)
    BY <2>2 DEF b, k
  <2>9. TextOfToks(kv) = TextOfToks(Prefix(prompt, c))
    BY <2>4, <2>5, <2>6, <2>7, <2>8, Zenon
  <2> QED
    BY <2>3, <2>9 DEF c, n
<1> QED
  BY <1>5, <1>6 DEF c, n

LEMMA MatchOK ==
    ASSUME NEW kv \in Seq(Tok), NEW kimgs, NEW prompt \in Seq(Tok) \ {<<>>}, NEW spans
    PROVE  \/ match_cov(kv, kimgs, prompt, spans) = -1
           \/ /\ match_cov(kv, kimgs, prompt, spans) \in 1..(Len(prompt) - 1)
              /\ TextOfToks(kv) = TextOfToks(Prefix(prompt, match_cov(kv, kimgs, prompt, spans)))
<1> DEFINE c == Cover(kv, prompt, Common(kv, prompt))
           m == match_cov(kv, kimgs, prompt, spans)
<1>1. c = -1 \/ (c \in 0..(Len(prompt) - 1) /\ TextOfToks(kv) = TextOfToks(Prefix(prompt, c)))
  BY CoverOK
<1>2. m = -1 \/ (m = c /\ ~(c <= 0))
  BY DEF match_cov, SameImages
<1> HIDE DEF c, m
<1>3. m = -1 \/ (m \in 1..(Len(prompt) - 1) /\ TextOfToks(kv) = TextOfToks(Prefix(prompt, m)))
  BY <1>1, <1>2
<1> QED
  BY <1>3 DEF m

-----------------------------------------------------------------------------
(* Slots *)

LEMMA CacheMake ==
    ASSUME NEW w \in BOOLEAN, NEW x \in BOOLEAN, NEW rt, NEW imgs, NEW slots, NEW lru, NEW origin,
           NEW o, RtOK(rt, w, x), x => imgs = <<>>,
           slots = [s \in Slots |-> slots[s]], \A s \in Slots : SlotOK(slots[s], w, x),
           lru \in [Slots -> Nat], origin \in 0..NSlots, o \in Threads \cup {0}
    PROVE  CacheOK([rt |-> rt, imgs |-> imgs, slots |-> slots, lru |-> lru, origin |-> origin,
                    owner |-> o], w, x)
<1> DEFINE c == [rt |-> rt, imgs |-> imgs, slots |-> slots, lru |-> lru, origin |-> origin,
                 owner |-> o]
<1>1. /\ c.rt = rt /\ c.imgs = imgs /\ c.slots = slots /\ c.lru = lru /\ c.origin = origin
      /\ c.owner = o
      /\ c = [rt |-> c.rt, imgs |-> c.imgs, slots |-> c.slots, lru |-> c.lru, origin |-> c.origin,
              owner |-> c.owner]
  OBVIOUS
<1> HIDE DEF c
<1>2. CacheOK(c, w, x)
  BY <1>1 DEF CacheOK
<1> QED
  BY <1>2 DEF c

LEMMA CacheFields ==
    ASSUME NEW c, NEW w, NEW x, CacheOK(c, w, x)
    PROVE  /\ c = [rt |-> c.rt, imgs |-> c.imgs, slots |-> c.slots, lru |-> c.lru,
                   origin |-> c.origin, owner |-> c.owner]
           /\ RtOK(c.rt, w, x) /\ (x => c.imgs = <<>>)
           /\ c.slots = [s \in Slots |-> c.slots[s]]
           /\ \A s \in Slots : SlotOK(c.slots[s], w, x)
           /\ c.lru \in [Slots -> Nat] /\ c.origin \in 0..NSlots /\ c.owner \in Threads \cup {0}
BY DEF CacheOK

LEMMA EmptySlotOK == \A w, x \in BOOLEAN : SlotOK(EmptySlot, w, x)
<1>1. NoBlob = EmptySlot.blob /\ EmptySlot.toks = <<>> /\ EmptySlot.imgs = <<>>
  BY DEF EmptySlot
<1>2. EmptySlot = [toks |-> EmptySlot.toks, imgs |-> EmptySlot.imgs, blob |-> EmptySlot.blob]
  BY DEF EmptySlot
<1>3. <<>> \in Seq(Tok) /\ Len(<<>>) <= NCtx
  BY Consts
<1> QED
  BY <1>1, <1>2, <1>3 DEF SlotOK

LEMMA TargetIs ==
    ASSUME NEW c, NEW w \in BOOLEAN, NEW x \in BOOLEAN, CacheOK(c, w, x), NEW avoid
    PROVE  \/ SaveTarget(c, avoid) \in Slots /\ SaveTarget(c, avoid) # avoid
           \/ SaveTarget(c, avoid) = 0 /\ Slots \ {avoid} = {}
<1> DEFINE others == Slots \ {avoid}
           empty == {s \in others : c.slots[s].toks = <<>>}
           E(s) == \A u \in empty : s <= u
           P(s) == \A u \in others : c.lru[s] <= c.lru[u]
           T == SaveTarget(c, avoid)
<1>1. NSlots \in Nat /\ Slots = 1..NSlots
  BY Consts DEF Slots
<1>2. T = IF c.origin # 0 /\ c.origin # avoid THEN c.origin
          ELSE IF others = {} THEN 0
          ELSE IF empty # {} THEN CHOOSE s \in empty : E(s)
          ELSE CHOOSE s \in others : P(s)
  BY DEF SaveTarget
<1>3. CASE c.origin # 0 /\ c.origin # avoid
  <2>1. T = c.origin /\ c.origin \in 0..NSlots
    BY <1>2, <1>3 DEF CacheOK
  <2>2. T \in Slots /\ T # avoid
    <3> HIDE DEF T
    <3> QED
      BY <2>1, <1>1, <1>3
  <2> QED
    BY <2>2
<1>4. CASE ~(c.origin # 0 /\ c.origin # avoid) /\ others = {}
  <2>1. T = 0
    BY <1>2, <1>4
  <2> QED
    BY <1>4, <2>1
<1>5. CASE ~(c.origin # 0 /\ c.origin # avoid) /\ others # {} /\ empty # {}
  <2>1. \E s \in empty : E(s)
    <3>1. empty \subseteq Nat
      BY <1>1
    <3> HIDE DEF empty
    <3> QED
      BY <3>1, <1>5, LeastNat
  <2>2. T = CHOOSE s \in empty : E(s)
    BY <1>2, <1>5
  <2>3. T \in empty
    <3> HIDE DEF empty, E, T
    <3> QED
      BY <2>1, <2>2
  <2>4. T \in Slots /\ T # avoid
    <3> HIDE DEF T
    <3> QED
      BY <2>3
  <2> QED
    BY <2>4
<1>6. CASE ~(c.origin # 0 /\ c.origin # avoid) /\ others # {} /\ empty = {}
  <2> DEFINE ranks == {c.lru[s] : s \in others}
  <2>1. c.lru \in [Slots -> Nat]
    BY DEF CacheOK
  <2>2. ranks \subseteq Nat /\ ranks # {}
    BY <2>1, <1>6
  <2>3. PICK g \in ranks : \A h \in ranks : g <= h
    <3> HIDE DEF ranks
    <3> QED
      BY <2>2, LeastNat
  <2>4. PICK s \in others : c.lru[s] = g
    BY <2>3
  <2>5. P(s)
    BY <2>3, <2>4
  <2>6. T = CHOOSE q \in others : P(q)
    BY <1>2, <1>6
  <2>7. T \in others
    <3> HIDE DEF others, P, T
    <3> QED
      BY <2>4, <2>5, <2>6
  <2>8. T \in Slots /\ T # avoid
    <3> HIDE DEF T
    <3> QED
      BY <2>7
  <2> QED
    BY <2>8
<1> QED
  BY <1>3, <1>4, <1>5, <1>6

LEMMA TouchOK ==
    ASSUME NEW lru \in [Slots -> Nat], NEW s \in Slots
    PROVE  Touch(lru, s) \in [Slots -> Nat]
<1>1. ASSUME NEW u \in Slots
      PROVE  (IF u = s THEN NSlots ELSE IF lru[u] > lru[s] THEN lru[u] - 1 ELSE lru[u]) \in Nat
  <2>1. lru[u] \in Nat /\ lru[s] \in Nat /\ NSlots \in Nat
    BY Consts
  <2> QED
    BY <2>1
<1> QED
  BY <1>1 DEF Touch

(* save_live() writes one slot, never the one to avoid. *)
LEMMA SaveOK ==
    ASSUME NEW c, NEW w \in BOOLEAN, NEW x \in BOOLEAN, CacheOK(c, w, x), NEW avoid, NEW io
    PROVE  /\ CacheOK(save_live(c, avoid, io), w, x)
           /\ save_live(c, avoid, io).rt = c.rt /\ save_live(c, avoid, io).imgs = c.imgs
           /\ save_live(c, avoid, io).origin = c.origin
           /\ save_live(c, avoid, io).owner = c.owner
           /\ avoid \in Slots => save_live(c, avoid, io).slots[avoid] = c.slots[avoid]
<1> DEFINE s == SaveTarget(c, avoid)
           lru == Touch(c.lru, s)
           v == IF io.save THEN [toks |-> c.rt.toks, imgs |-> c.imgs, blob |-> SaveState(c.rt)]
                ELSE EmptySlot
           sl == [c.slots EXCEPT ![s] = v]
           C == save_live(c, avoid, io)
<1>1. s # 0 => s \in Slots /\ s # avoid
  BY TargetIs
<1>2. C = IF c.rt.toks = <<>> \/ s = 0 THEN c
          ELSE IF Unchanged(c, s) THEN [c EXCEPT !.lru = lru]
          ELSE [c EXCEPT !.lru = lru, !.slots = sl]
  BY DEF save_live
<1>3. CASE c.rt.toks = <<>> \/ s = 0
  BY <1>2, <1>3
<1> HIDE DEF C
<1>4. CASE ~(c.rt.toks = <<>> \/ s = 0)
  <2>1. s \in Slots /\ s # avoid
    BY <1>1, <1>4
  <2>2. /\ c = [rt |-> c.rt, imgs |-> c.imgs, slots |-> c.slots, lru |-> c.lru,
                origin |-> c.origin, owner |-> c.owner]
        /\ RtOK(c.rt, w, x) /\ (x => c.imgs = <<>>)
        /\ c.slots = [t \in Slots |-> c.slots[t]]
        /\ \A t \in Slots : SlotOK(c.slots[t], w, x)
        /\ c.lru \in [Slots -> Nat] /\ c.origin \in 0..NSlots /\ c.owner \in Threads \cup {0}
    BY CacheFields
  <2>3. lru \in [Slots -> Nat]
    BY <2>1, <2>2, TouchOK
  <2> HIDE DEF lru
  <2>4. CASE Unchanged(c, s)
    <3> DEFINE z == [rt |-> c.rt, imgs |-> c.imgs, slots |-> c.slots, lru |-> lru,
                     origin |-> c.origin, owner |-> c.owner]
    <3>1. C = [c EXCEPT !.lru = lru]
      BY <1>2, <1>4, <2>4
    <3>2. C = z
      BY <3>1, <2>2, Zenon
    <3>3. CacheOK(z, w, x)
      BY <2>2, <2>3, CacheMake
    <3>4. z.rt = c.rt /\ z.imgs = c.imgs /\ z.origin = c.origin /\ z.owner = c.owner
          /\ z.slots = c.slots
      OBVIOUS
    <3> HIDE DEF z
    <3> QED
      BY <3>2, <3>3, <3>4 DEF C
  <2>5. CASE ~Unchanged(c, s)
    <3> DEFINE z == [rt |-> c.rt, imgs |-> c.imgs, slots |-> sl, lru |-> lru,
                     origin |-> c.origin, owner |-> c.owner]
    <3>1. C = [c EXCEPT !.lru = lru, !.slots = sl]
      BY <1>2, <1>4, <2>5
    <3>2. C = z
      <4> HIDE DEF sl
      <4> QED
        BY <3>1, <2>2, Zenon
    <3>3. SlotOK(v, w, x)
      <4>1. CASE io.save
        <5>1. v.toks = c.rt.toks /\ v.imgs = c.imgs /\ v.blob = SaveState(c.rt)
              /\ v = [toks |-> v.toks, imgs |-> v.imgs, blob |-> v.blob]
          BY <4>1
        <5>2. BlobOK(SaveState(c.rt), w, x) /\ SaveState(c.rt).toks = c.rt.toks
          BY <2>2, SavedOK
        <5>3. c.rt.toks \in Seq(Tok) /\ Len(c.rt.toks) <= NCtx
          <6>1. c.rt \in RtType /\ c.rt.toks = Toks(c.rt.rows) /\ Len(c.rt.rows) <= NCtx
            BY <2>2 DEF RtOK
          <6>2. c.rt.toks \in Seq(Tok) /\ c.rt.rows \in Seq(Cell)
            BY <6>1 DEF RtType
          <6> QED
            BY <6>1, <6>2, ToksType
        <5> HIDE DEF v
        <5> QED
          BY <5>1, <5>2, <5>3, <2>2 DEF SlotOK
      <4>2. CASE ~io.save
        BY <4>2, EmptySlotOK
      <4> QED
        BY <4>1, <4>2
    <3> HIDE DEF v
    <3>4. /\ \A t \in Slots : sl[t] = IF t = s THEN v ELSE c.slots[t]
          /\ sl = [t \in Slots |-> sl[t]]
      <4>1. DOMAIN c.slots = Slots
        BY <2>2
      <4> QED
        BY <4>1
    <3>5. \A t \in Slots : SlotOK(sl[t], w, x)
      BY <2>2, <3>3, <3>4
    <3>6. avoid \in Slots => sl[avoid] = c.slots[avoid]
      BY <2>1, <3>4
    <3> HIDE DEF sl
    <3>7. CacheOK(z, w, x)
      BY <2>2, <2>3, <3>4, <3>5, CacheMake
    <3>8. z.rt = c.rt /\ z.imgs = c.imgs /\ z.origin = c.origin /\ z.owner = c.owner /\ z.slots = sl
      OBVIOUS
    <3> HIDE DEF z
    <3> QED
      BY <3>2, <3>6, <3>7, <3>8 DEF C
  <2> QED
    BY <2>4, <2>5
<1> QED
  BY <1>3, <1>4

LEMMA BlobOfSlot ==
    ASSUME NEW c, NEW w \in BOOLEAN, NEW x \in BOOLEAN, CacheOK(c, w, x), NEW s \in Slots
    PROVE  /\ c.slots[s].toks \in Seq(Tok)
           /\ x => c.slots[s].imgs = <<>>
           /\ c.slots[s].blob # NoBlob =>
                BlobOK(c.slots[s].blob, w, x) /\ c.slots[s].blob.toks = c.slots[s].toks
BY DEF CacheOK, SlotOK

(* load_slot(): the slot's state, or none. *)
LEMMA LoadOK ==
    ASSUME NEW c, NEW w \in BOOLEAN, NEW x \in BOOLEAN, CacheOK(c, w, x), NEW s \in Slots, NEW io
    PROVE  /\ CacheOK(load_slot(c, s, io), w, x)
           /\ load_slot(c, s, io).rt.toks = IF Loads(c, s, io) THEN c.slots[s].toks ELSE <<>>
           /\ load_slot(c, s, io).owner = c.owner
<1> DEFINE C == load_slot(c, s, io)
           rt == IF Loads(c, s, io) THEN LoadState(c.rt, c.slots[s].blob) ELSE Reset(c.rt)
           imgs == c.slots[s].imgs
           lru == Touch(c.lru, s)
           sl == [c.slots EXCEPT ![s] = EmptySlot]
<1>1. /\ c = [rt |-> c.rt, imgs |-> c.imgs, slots |-> c.slots, lru |-> c.lru,
              origin |-> c.origin, owner |-> c.owner]
      /\ RtOK(c.rt, w, x) /\ (x => c.imgs = <<>>)
      /\ c.slots = [t \in Slots |-> c.slots[t]]
      /\ \A t \in Slots : SlotOK(c.slots[t], w, x)
      /\ c.lru \in [Slots -> Nat] /\ c.origin \in 0..NSlots /\ c.owner \in Threads \cup {0}
  BY CacheFields
<1>2. lru \in [Slots -> Nat]
  BY <1>1, TouchOK
<1>3. CASE Loads(c, s, io)
  <2>1. C = [c EXCEPT !.rt = rt, !.imgs = imgs, !.lru = lru]
    BY <1>3 DEF load_slot
  <2> DEFINE z == [rt |-> rt, imgs |-> imgs, slots |-> c.slots, lru |-> lru, origin |-> c.origin,
                   owner |-> c.owner]
  <2>2. BlobOK(c.slots[s].blob, w, x) /\ c.slots[s].blob.toks = c.slots[s].toks
    BY <1>3, BlobOfSlot DEF Loads
  <2>3. RtOK(rt, w, x) /\ rt.toks = c.slots[s].toks
    BY <1>1, <1>3, <2>2, LoadedOK
  <2>4. x => imgs = <<>>
    BY BlobOfSlot
  <2> HIDE DEF rt, imgs, lru, C
  <2>5. C = z
    BY <2>1, <1>1, Zenon
  <2>6. CacheOK(z, w, x)
    BY <1>1, <1>2, <2>3, <2>4, CacheMake
  <2>7. z.rt = rt /\ z.owner = c.owner
    OBVIOUS
  <2> HIDE DEF z
  <2> QED
    BY <1>3, <2>3, <2>5, <2>6, <2>7 DEF C
<1>4. CASE ~Loads(c, s, io)
  <2>1. C = [c EXCEPT !.rt = rt, !.slots = sl]
    BY <1>4 DEF load_slot
  <2> DEFINE z == [rt |-> rt, imgs |-> c.imgs, slots |-> sl, lru |-> c.lru, origin |-> c.origin,
                   owner |-> c.owner]
  <2>2. RtOK(rt, w, x) /\ rt.toks = <<>>
    BY <1>1, <1>4, ResetOK
  <2>3. /\ \A t \in Slots : sl[t] = IF t = s THEN EmptySlot ELSE c.slots[t]
        /\ sl = [t \in Slots |-> sl[t]]
    <3>1. DOMAIN c.slots = Slots
      BY <1>1
    <3> QED
      BY <3>1
  <2>4. \A t \in Slots : SlotOK(sl[t], w, x)
    BY <1>1, <2>3, EmptySlotOK
  <2> HIDE DEF rt, sl, C
  <2>5. C = z
    BY <2>1, <1>1, Zenon
  <2>6. CacheOK(z, w, x)
    BY <1>1, <2>2, <2>3, <2>4, CacheMake
  <2>7. z.rt = rt /\ z.owner = c.owner
    OBVIOUS
  <2> HIDE DEF z
  <2> QED
    BY <1>4, <2>2, <2>5, <2>6, <2>7 DEF C
<1> QED
  BY <1>3, <1>4

-----------------------------------------------------------------------------
(* prepare_prompt *)

(* A cache and a number of prompt tokens its live state stands for. *)
Ready(p, prompt, w, x) ==
    /\ p = [c |-> p.c, n |-> p.n]
    /\ CacheOK(p.c, w, x)
    /\ p.n \in 0..(Len(prompt) - 1)
    /\ TextOfToks(p.c.rt.toks) = TextOfToks(Prefix(prompt, p.n))

LEMMA CacheRt ==
    ASSUME NEW c, NEW w \in BOOLEAN, NEW x \in BOOLEAN, CacheOK(c, w, x), NEW rt, RtOK(rt, w, x)
    PROVE  CacheOK([c EXCEPT !.rt = rt], w, x) /\ [c EXCEPT !.rt = rt].rt = rt
           /\ [c EXCEPT !.rt = rt].owner = c.owner
<1> DEFINE C == [c EXCEPT !.rt = rt]
           z == [rt |-> rt, imgs |-> c.imgs, slots |-> c.slots, lru |-> c.lru, origin |-> c.origin,
                 owner |-> c.owner]
<1>1. /\ c = [rt |-> c.rt, imgs |-> c.imgs, slots |-> c.slots, lru |-> c.lru,
              origin |-> c.origin, owner |-> c.owner]
      /\ (x => c.imgs = <<>>)
      /\ c.slots = [t \in Slots |-> c.slots[t]]
      /\ \A t \in Slots : SlotOK(c.slots[t], w, x)
      /\ c.lru \in [Slots -> Nat] /\ c.origin \in 0..NSlots /\ c.owner \in Threads \cup {0}
  BY CacheFields
<1>2. C = [c EXCEPT !.rt = rt]
  OBVIOUS
<1> HIDE DEF C
<1>3. C = z
  BY <1>1, <1>2, Zenon
<1>4. CacheOK(z, w, x)
  BY <1>1, CacheMake
<1>5. z.rt = rt /\ z.owner = c.owner
  OBVIOUS
<1> HIDE DEF z
<1> QED
  BY <1>3, <1>4, <1>5 DEF C

LEMMA CacheOrigin ==
    ASSUME NEW c, NEW w \in BOOLEAN, NEW x \in BOOLEAN, CacheOK(c, w, x), NEW o \in 0..NSlots
    PROVE  CacheOK([c EXCEPT !.origin = o], w, x) /\ [c EXCEPT !.origin = o].rt = c.rt
           /\ [c EXCEPT !.origin = o].owner = c.owner
<1> DEFINE C == [c EXCEPT !.origin = o]
           z == [rt |-> c.rt, imgs |-> c.imgs, slots |-> c.slots, lru |-> c.lru, origin |-> o,
                 owner |-> c.owner]
<1>1. /\ c = [rt |-> c.rt, imgs |-> c.imgs, slots |-> c.slots, lru |-> c.lru,
              origin |-> c.origin, owner |-> c.owner]
      /\ RtOK(c.rt, w, x) /\ (x => c.imgs = <<>>)
      /\ c.slots = [t \in Slots |-> c.slots[t]]
      /\ \A t \in Slots : SlotOK(c.slots[t], w, x)
      /\ c.lru \in [Slots -> Nat] /\ c.owner \in Threads \cup {0}
  BY CacheFields
<1>2. C = [c EXCEPT !.origin = o]
  OBVIOUS
<1> HIDE DEF C
<1>3. C = z
  BY <1>1, <1>2, Zenon
<1>4. CacheOK(z, w, x)
  BY <1>1, CacheMake
<1>5. z.rt = c.rt /\ z.owner = c.owner
  OBVIOUS
<1> HIDE DEF z
<1> QED
  BY <1>3, <1>4, <1>5 DEF C

LEMMA NoText ==
    ASSUME NEW prompt \in Seq(Tok) \ {<<>>}
    PROVE  Prefix(prompt, 0) = <<>> /\ 0 \in 0..(Len(prompt) - 1)
<1>1. prompt \in Seq(Tok) /\ Len(prompt) \in Nat /\ Len(prompt) >= 1
  OBVIOUS
<1>2. SubSeq(prompt, 1, 0) = <<>>
  BY <1>1, SubSeqEmpty
<1> QED
  BY <1>1, <1>2 DEF Prefix

LEMMA FreshOK ==
    ASSUME NEW c, NEW w \in BOOLEAN, NEW x \in BOOLEAN, CacheOK(c, w, x),
           NEW prompt \in Seq(Tok) \ {<<>>}
    PROVE  Ready(Fresh(c), prompt, w, x)
<1> DEFINE rt == Reset(c.rt)
           C == [c EXCEPT !.rt = Reset(@), !.origin = 0]
           z == [rt |-> rt, imgs |-> c.imgs, slots |-> c.slots, lru |-> c.lru, origin |-> 0,
                 owner |-> c.owner]
<1>1. /\ c = [rt |-> c.rt, imgs |-> c.imgs, slots |-> c.slots, lru |-> c.lru,
              origin |-> c.origin, owner |-> c.owner]
      /\ RtOK(c.rt, w, x) /\ (x => c.imgs = <<>>)
      /\ c.slots = [t \in Slots |-> c.slots[t]]
      /\ \A t \in Slots : SlotOK(c.slots[t], w, x)
      /\ c.lru \in [Slots -> Nat] /\ c.owner \in Threads \cup {0}
  BY CacheFields
<1>2. C = [c EXCEPT !.rt = rt, !.origin = 0]
  OBVIOUS
<1>3. RtOK(rt, w, x) /\ rt.toks = <<>>
  BY <1>1, ResetOK
<1>4. Fresh(c) = [c |-> C, n |-> 0]
  BY DEF Fresh
<1> HIDE DEF C, rt
<1>5. C = z
  BY <1>1, <1>2, Zenon
<1>6. 0 \in 0..NSlots
  BY Consts
<1>7. CacheOK(z, w, x)
  BY <1>1, <1>3, <1>6, CacheMake
<1>8. z.rt = rt
  OBVIOUS
<1> HIDE DEF z
<1>9. Fresh(c).c = z /\ Fresh(c).n = 0 /\ Fresh(c) = [c |-> Fresh(c).c, n |-> Fresh(c).n]
  BY <1>4, <1>5
<1> QED
  BY <1>3, <1>7, <1>8, <1>9, NoText DEF Ready

LEMMA FromSlotOK ==
    ASSUME NEW c, NEW w \in BOOLEAN, NEW x \in BOOLEAN, CacheOK(c, w, x), NEW io,
           NEW prompt \in Seq(Tok) \ {<<>>}, NEW best, best.slot \in Slots,
           best.cov \in 1..(Len(prompt) - 1),
           TextOfToks(c.slots[best.slot].toks) = TextOfToks(Prefix(prompt, best.cov))
    PROVE  Ready(FromSlot(c, best, io), prompt, w, x)
<1> DEFINE l == load_slot(c, best.slot, io)
           F == FromSlot(c, best, io)
<1>1. CacheOK(l, w, x)
      /\ l.rt.toks = IF Loads(c, best.slot, io) THEN c.slots[best.slot].toks ELSE <<>>
  BY LoadOK
<1>2. CASE Loads(c, best.slot, io)
  <2> DEFINE C == [l EXCEPT !.origin = best.slot]
  <2>1. F = [c |-> C, n |-> best.cov]
    BY <1>2 DEF FromSlot
  <2>2. best.slot \in 0..NSlots /\ best.cov \in 0..(Len(prompt) - 1)
    BY Consts DEF Slots
  <2>3. CacheOK(C, w, x) /\ C.rt = l.rt
    <3> HIDE DEF l
    <3> QED
      BY <1>1, <2>2, CacheOrigin
  <2> HIDE DEF C, l
  <2>4. F.c = C /\ F.n = best.cov /\ F = [c |-> F.c, n |-> F.n]
    BY <2>1
  <2> HIDE DEF F
  <2>5. Ready(F, prompt, w, x)
    BY <1>1, <1>2, <2>2, <2>3, <2>4 DEF Ready
  <2> QED
    BY <2>5 DEF F
<1>3. CASE ~Loads(c, best.slot, io)
  <2>1. F = Fresh(l)
    BY <1>3 DEF FromSlot
  <2> HIDE DEF l
  <2> QED
    BY <2>1, <1>1, FreshOK DEF F
<1> QED
  BY <1>2, <1>3

LEMMA LongestIs ==
    ASSUME NEW cov \in [Slots -> Int], NEW m \in Nat, \A s \in Slots : cov[s] <= m
    PROVE  LET b == Longest(cov)
           IN  \/ b.slot = 0 /\ b.cov = -1
               \/ b.slot \in Slots /\ b.cov = cov[b.slot] /\ b.cov >= 0
<1> DEFINE fits == {s \in Slots : cov[s] >= 0}
           P(s) == \A u \in fits : cov[s] > cov[u] \/ (cov[s] = cov[u] /\ s <= u)
           best == CHOOSE s \in fits : P(s)
           b == Longest(cov)
<1>1. b = IF fits = {} THEN [slot |-> 0, cov |-> -1] ELSE [slot |-> best, cov |-> cov[best]]
  BY DEF Longest
<1>2. CASE fits = {}
  BY <1>1, <1>2
<1>3. CASE fits # {}
  <2> DEFINE short == {m - cov[s] : s \in fits}
  <2>1. short \subseteq Nat /\ short # {}
    BY <1>3
  <2>2. PICK g \in short : \A h \in short : g <= h
    <3> HIDE DEF short
    <3> QED
      BY <2>1, LeastNat
  <2> DEFINE J == {s \in fits : m - cov[s] = g}
  <2>3. J \subseteq Nat /\ J # {}
    BY <2>2, Consts DEF Slots
  <2>4. PICK s \in J : \A u \in J : s <= u
    <3> HIDE DEF J
    <3> QED
      BY <2>3, LeastNat
  <2>5. s \in fits /\ P(s)
    <3>1. s \in fits /\ m - cov[s] = g /\ cov[s] \in Int
      BY <2>4
    <3>2. ASSUME NEW u \in fits PROVE cov[s] > cov[u] \/ (cov[s] = cov[u] /\ s <= u)
      <4>1. g <= m - cov[u] /\ cov[u] \in Int
        BY <2>2
      <4>2. m - cov[u] = g => s <= u
        BY <2>4
      <4> QED
        BY <3>1, <4>1, <4>2
    <3> QED
      BY <3>1, <3>2
  <2>6. best \in fits
    <3> HIDE DEF fits, P
    <3> QED
      BY <2>5
  <2>7. b = [slot |-> best, cov |-> cov[best]]
    BY <1>1, <1>3
  <2> HIDE DEF best, b
  <2>8. b.slot = best /\ b.cov = cov[best]
    BY <2>7
  <2>9. b.slot \in Slots /\ b.cov = cov[b.slot] /\ b.cov >= 0
    BY <2>6, <2>8
  <2> QED
    BY <2>9 DEF b
<1> QED
  BY <1>2, <1>3

LEMMA BestSlotIs ==
    ASSUME NEW c, NEW w \in BOOLEAN, NEW x \in BOOLEAN, CacheOK(c, w, x),
           NEW prompt \in Seq(Tok) \ {<<>>}, NEW spans
    PROVE  LET b == BestSlot(c, prompt, spans)
           IN  \/ b.slot = 0 /\ b.cov = -1
               \/ /\ b.slot \in Slots /\ b.cov \in 1..(Len(prompt) - 1)
                  /\ TextOfToks(c.slots[b.slot].toks) = TextOfToks(Prefix(prompt, b.cov))
<1> DEFINE mc(s) == match_cov(c.slots[s].toks, c.slots[s].imgs, prompt, spans)
           cov == [s \in Slots |-> mc(s)]
           b == BestSlot(c, prompt, spans)
<1>1. Len(prompt) \in Nat
  OBVIOUS
<1>2. ASSUME NEW s \in Slots
      PROVE  \/ mc(s) = -1
             \/ /\ mc(s) \in 1..(Len(prompt) - 1)
                /\ TextOfToks(c.slots[s].toks) = TextOfToks(Prefix(prompt, mc(s)))
  <2>1. c.slots[s].toks \in Seq(Tok)
    BY BlobOfSlot
  <2> QED
    BY <2>1, MatchOK
<1>3. b = Longest(cov)
  BY DEF BestSlot
<1> HIDE DEF mc, b
<1>4. cov \in [Slots -> Int] /\ \A s \in Slots : cov[s] <= Len(prompt)
  BY <1>1, <1>2
<1>5. \A s \in Slots : cov[s] = mc(s)
  OBVIOUS
<1> HIDE DEF cov
<1>6. \/ b.slot = 0 /\ b.cov = -1
      \/ b.slot \in Slots /\ b.cov = cov[b.slot] /\ b.cov >= 0
  BY <1>1, <1>3, <1>4, LongestIs
<1>7. CASE b.slot \in Slots /\ b.cov = cov[b.slot] /\ b.cov >= 0
  <2>1. b.cov = mc(b.slot) /\ mc(b.slot) # -1
    BY <1>5, <1>7
  <2>2. mc(b.slot) \in 1..(Len(prompt) - 1)
        /\ TextOfToks(c.slots[b.slot].toks) = TextOfToks(Prefix(prompt, mc(b.slot)))
    BY <1>2, <1>7, <2>1
  <2> QED
    BY <1>7, <2>1, <2>2 DEF b
<1> QED
  BY <1>6, <1>7 DEF b

LEMMA RtToks ==
    ASSUME NEW rt, NEW w \in BOOLEAN, NEW x \in BOOLEAN, RtOK(rt, w, x)
    PROVE  /\ rt.toks \in Seq(Tok) /\ rt.rows \in Seq(Cell)
           /\ Len(rt.toks) = Len(rt.rows) /\ Len(rt.toks) \in Nat /\ Len(rt.toks) <= NCtx
<1>1. rt \in RtType /\ rt.toks = Toks(rt.rows) /\ Len(rt.rows) <= NCtx
  BY DEF RtOK
<1>2. rt.toks \in Seq(Tok) /\ rt.rows \in Seq(Cell)
  BY <1>1 DEF RtType
<1>3. Len(rt.toks) = Len(rt.rows)
  BY <1>1, <1>2, ToksType
<1> QED
  BY <1>1, <1>2, <1>3

LEMMA RewoundOK ==
    ASSUME NEW c, NEW w \in BOOLEAN, NEW x \in BOOLEAN, CacheOK(c, w, x),
           NEW prompt \in Seq(Tok) \ {<<>>}, NEW n \in Nat \ {0}, n <= Common(c.rt.toks, prompt)
    PROVE  Ready(Rewound(c, Rewind(c.rt, n)), prompt, w, x)
<1> DEFINE R == Rewind(c.rt, n)
           F == Rewound(c, R)
<1>1. RtOK(c.rt, w, x)
  BY CacheFields
<1>2. /\ RtOK(R.rt, w, x) /\ R.n \in Int
      /\ R.n > 0 => /\ R.n \in 0..Len(c.rt.toks) /\ R.n <= n
                    /\ R.rt.toks = Prefix(c.rt.toks, R.n)
  BY <1>1, RewindOK
<1> HIDE DEF R
<1>3. CASE R.n > 0
  <2> DEFINE C == [c EXCEPT !.rt = R.rt]
             k == R.n
  <2>1. F = [c |-> C, n |-> k]
    BY <1>3 DEF Rewound
  <2>2. CacheOK(C, w, x) /\ C.rt = R.rt
    BY <1>2, CacheRt
  <2>3. c.rt.toks \in Seq(Tok) /\ Len(c.rt.toks) \in Nat
    BY <1>1, RtToks
  <2>4. /\ Common(c.rt.toks, prompt) \in Nat
        /\ Common(c.rt.toks, prompt) <= Len(c.rt.toks) /\ Common(c.rt.toks, prompt) < Len(prompt)
        /\ \A i \in 1..Common(c.rt.toks, prompt) : c.rt.toks[i] = prompt[i]
    BY <2>3, CommonIs
  <2>5. prompt \in Seq(Tok) /\ Len(prompt) \in Nat
    OBVIOUS
  <2>6. /\ k \in Nat /\ k <= Len(c.rt.toks) /\ k <= Len(prompt) /\ k \in 0..(Len(prompt) - 1)
        /\ \A i \in 1..k : c.rt.toks[i] = prompt[i]
    BY <1>2, <1>3, <2>3, <2>4, <2>5
  <2>7. Prefix(c.rt.toks, k) = Prefix(prompt, k)
    BY <2>3, <2>5, <2>6, SamePrefix
  <2>8. C.rt.toks = Prefix(prompt, k)
    BY <1>2, <1>3, <2>2, <2>7
  <2> HIDE DEF C, k
  <2>9. F.c = C /\ F.n = k /\ F = [c |-> F.c, n |-> F.n]
    BY <2>1
  <2> HIDE DEF F
  <2>10. Ready(F, prompt, w, x)
    BY <2>2, <2>6, <2>8, <2>9 DEF Ready
  <2> QED
    BY <2>10 DEF F, R
<1>4. CASE ~(R.n > 0)
  <2>1. F = Fresh(c)
    BY <1>4 DEF Rewound
  <2> QED
    BY <2>1, FreshOK DEF F, R
<1> QED
  BY <1>3, <1>4

(* The rewind would reach a checkpoint, or there is none. *)
LEMMA RewindPointIs ==
    ASSUME NEW c, NEW w \in BOOLEAN, NEW x \in BOOLEAN, CacheOK(c, w, x),
           NEW prompt \in Seq(Tok) \ {<<>>}, NEW spans
    PROVE  LET rew == RewindPoint(c, prompt, spans)
               n == Common(c.rt.toks, prompt)
           IN  /\ n \in Nat /\ rew \in Int /\ rew >= -1
               /\ rew > 0 => rew <= n /\ rew = BestCkpt(c.rt, n) /\ c.rt.toks # <<>>
<1> DEFINE rew == RewindPoint(c, prompt, spans)
           n == Common(c.rt.toks, prompt)
<1>1. RtOK(c.rt, w, x)
  BY CacheFields
<1>3. n \in Nat
  BY <1>1, RtToks, CommonIs
<1>4. BestCkpt(c.rt, n) \in Int /\ BestCkpt(c.rt, n) <= n
  <2> HIDE DEF n
  <2> QED
    BY <1>1, <1>3, BestOK
<1>5. rew = -1 \/ (rew = BestCkpt(c.rt, n) /\ c.rt.toks # <<>>)
  BY DEF RewindPoint
<1>6. BestCkpt(c.rt, n) >= -1
  <2> DEFINE i == NewestAt(c.rt.pk, n)
  <2>1. c.rt.rows \in Seq(Cell) /\ Len(c.rt.rows) \in Nat /\ PkOK(c.rt.pk, c.rt.rows, w) /\ n \in Int
    BY <1>1, <1>3, PkOfRt, RtToks
  <2>2. i \in 0..Len(c.rt.pk)
    <3> HIDE DEF n
    <3> QED
      BY <2>1, NewestIs
  <2>3. i # 0 => c.rt.pk[i].pos \in Nat
    <3>1. i # 0 => i \in 1..Len(c.rt.pk)
      BY <2>1, <2>2 DEF PkOK
    <3> QED
      BY <3>1, <2>1 DEF PkOK
  <2> HIDE DEF i, n
  <2>4. BestCkpt(c.rt, n) = IF n <= 0 THEN -1
                        ELSE IF ~Recurrent
                        THEN IF c.rt.rope = Len(c.rt.rows)
                             THEN (IF n < Len(c.rt.rows) THEN n ELSE Len(c.rt.rows)) ELSE -1
                        ELSE IF i = 0 THEN -1 ELSE c.rt.pk[i].pos
    BY DEF BestCkpt, n_past, i
  <2> QED
    BY <1>3, <2>1, <2>3, <2>4
<1> HIDE DEF n, rew
<1> QED
  BY <1>3, <1>4, <1>5, <1>6 DEF n, rew

LEMMA SwitchOK ==
    ASSUME NEW c, NEW w \in BOOLEAN, NEW x \in BOOLEAN, CacheOK(c, w, x),
           NEW prompt \in Seq(Tok) \ {<<>>}, NEW spans, NEW io
    PROVE  Ready(Switch(c, RewindPoint(c, prompt, spans), BestSlot(c, prompt, spans), io), prompt, w, x)
<1> DEFINE best == BestSlot(c, prompt, spans)
           rew == RewindPoint(c, prompt, spans)
           n == Common(c.rt.toks, prompt)
           S == Switch(c, rew, best, io)
<1>1. RtOK(c.rt, w, x)
  BY CacheFields
<1>2. \/ best.slot = 0 /\ best.cov = -1
      \/ /\ best.slot \in Slots /\ best.cov \in 1..(Len(prompt) - 1)
         /\ TextOfToks(c.slots[best.slot].toks) = TextOfToks(Prefix(prompt, best.cov))
  BY BestSlotIs
<1>5. n \in Nat /\ rew \in Int /\ (rew > 0 => rew <= n) /\ rew >= -1
  BY RewindPointIs
<1>6. S = IF best.cov > rew THEN FromSlot(save_live(c, best.slot, io), best, io)
          ELSE IF rew > 0 THEN Rewound(c, Rewind(c.rt, rew))
          ELSE Fresh(save_live(c, 0, io))
  BY DEF Switch
<1> HIDE DEF best, rew, S
<1>7. CASE best.cov > rew
  <2> DEFINE d == save_live(c, best.slot, io)
  <2>1. /\ best.slot \in Slots /\ best.cov \in 1..(Len(prompt) - 1)
        /\ TextOfToks(c.slots[best.slot].toks) = TextOfToks(Prefix(prompt, best.cov))
    BY <1>2, <1>5, <1>7
  <2>2. CacheOK(d, w, x) /\ d.slots[best.slot] = c.slots[best.slot]
    BY SMTT(40), <2>1, SaveOK
  <2> HIDE DEF d
  <2>3. Ready(FromSlot(d, best, io), prompt, w, x)
    BY <2>1, <2>2, FromSlotOK
  <2> QED
    BY <1>6, <1>7, <2>3 DEF d, S, best, rew
<1>8. CASE ~(best.cov > rew) /\ rew > 0
  <2>1. rew \in Nat \ {0} /\ rew <= Common(c.rt.toks, prompt)
    BY <1>5, <1>8
  <2>2. Ready(Rewound(c, Rewind(c.rt, rew)), prompt, w, x)
    BY <2>1, RewoundOK
  <2> QED
    BY <1>6, <1>8, <2>2 DEF S, best, rew
<1>9. CASE ~(best.cov > rew) /\ ~(rew > 0)
  <2>1. CacheOK(save_live(c, 0, io), w, x)
    BY SaveOK
  <2>2. Ready(Fresh(save_live(c, 0, io)), prompt, w, x)
    BY <2>1, FreshOK
  <2> QED
    BY <1>6, <1>9, <2>2 DEF S, best, rew
<1> QED
  BY <1>7, <1>8, <1>9

ReadyFor(p, prompt, sid, w, x) == Ready(p, prompt, w, x) /\ p.c.owner = sid

(* Whatever a request continues from says what the start of its prompt     *)
(* says.                                                                   *)
LEMMA PrepareOK ==
    ASSUME NEW c, NEW w \in BOOLEAN, NEW x \in BOOLEAN, CacheOK(c, w, x),
           NEW prompt \in Seq(Tok) \ {<<>>}, NEW spans, x => spans = <<>>,
           NEW sid \in Threads \cup {0}, NEW io
    PROVE  ReadyFor(prepare_prompt(c, prompt, spans, sid, io), prompt, sid, w, x)
<1> DEFINE n == match_cov(c.rt.toks, c.imgs, prompt, spans)
           p == Continue(c, n, prompt, spans, io)
           q == prepare_prompt(c, prompt, spans, sid, io)
<1>1. RtOK(c.rt, w, x) /\ c.rt.toks \in Seq(Tok)
  BY ZenonT(60), CacheFields, RtToks
<1>2. \/ n = -1
      \/ n \in 1..(Len(prompt) - 1) /\ TextOfToks(c.rt.toks) = TextOfToks(Prefix(prompt, n))
  BY <1>1, MatchOK
<1>3. p = IF n >= 0 THEN [c |-> c, n |-> n]
          ELSE Switch(c, RewindPoint(c, prompt, spans), BestSlot(c, prompt, spans), io)
  BY DEF Continue
<1>4. q = [p EXCEPT !.c = [p.c EXCEPT !.imgs = spans, !.owner = sid]]
  BY DEF prepare_prompt
<1> HIDE DEF n, p, q
<1>5. Ready(p, prompt, w, x)
  <2>1. CASE n >= 0
    <3>1. n \in 0..(Len(prompt) - 1) /\ TextOfToks(c.rt.toks) = TextOfToks(Prefix(prompt, n))
      BY <1>2, <2>1
    <3>2. p.c = c /\ p.n = n /\ p = [c |-> p.c, n |-> p.n]
      BY <1>3, <2>1
    <3> QED
      BY <3>1, <3>2 DEF Ready
  <2>2. CASE ~(n >= 0)
    BY <1>3, <2>2, SwitchOK
  <2> QED
    BY <2>1, <2>2
<1> DEFINE d == p.c
           z == [rt |-> d.rt, imgs |-> spans, slots |-> d.slots, lru |-> d.lru,
                 origin |-> d.origin, owner |-> sid]
<1>6. /\ p = [c |-> d, n |-> p.n] /\ CacheOK(d, w, x) /\ p.n \in 0..(Len(prompt) - 1)
      /\ TextOfToks(d.rt.toks) = TextOfToks(Prefix(prompt, p.n))
  BY <1>5 DEF Ready
<1> HIDE DEF d
<1>7. /\ d = [rt |-> d.rt, imgs |-> d.imgs, slots |-> d.slots, lru |-> d.lru,
              origin |-> d.origin, owner |-> d.owner]
      /\ RtOK(d.rt, w, x)
      /\ d.slots = [t \in Slots |-> d.slots[t]]
      /\ \A t \in Slots : SlotOK(d.slots[t], w, x)
      /\ d.lru \in [Slots -> Nat] /\ d.origin \in 0..NSlots
  BY <1>6, CacheFields
<1> DEFINE e == [d EXCEPT !.imgs = spans, !.owner = sid]
<1>13. q = [p EXCEPT !.c = e]
  BY <1>4 DEF d
<1>15. e = [d EXCEPT !.imgs = spans, !.owner = sid]
  OBVIOUS
<1> HIDE DEF e
<1>14. e = z
  <2>1. d = [rt |-> d.rt, imgs |-> d.imgs, slots |-> d.slots, lru |-> d.lru,
             origin |-> d.origin, owner |-> d.owner]
    BY <1>7
  <2> QED
    BY <1>15, <2>1, Zenon
<1> HIDE DEF z
<1>8. q = [c |-> z, n |-> p.n]
  BY <1>6, <1>13, <1>14, Zenon
<1> USE DEF z
<1>9. CacheOK(z, w, x)
  BY <1>7, CacheMake
<1>10. z.rt = d.rt /\ z.owner = sid
  OBVIOUS
<1> HIDE DEF z
<1>11. q.c = z /\ q.n = p.n /\ q = [c |-> q.c, n |-> q.n]
  BY <1>8
<1>12. Ready(q, prompt, w, x)
  BY <1>6, <1>9, <1>10, <1>11 DEF Ready
<1> QED
  BY <1>10, <1>11, <1>12 DEF q, ReadyFor

-----------------------------------------------------------------------------
(* ensure_state *)

LEMMA LostOK ==
    ASSUME NEW c, NEW w \in BOOLEAN, NEW x \in BOOLEAN, CacheOK(c, w, x),
           NEW sid \in Threads \cup {0}, NEW my_imgs, x => my_imgs = <<>>,
           NEW had \in BOOLEAN, NEW io
    PROVE  LET e == Lost(c, sid, my_imgs, had, io)
           IN  /\ CacheOK(e.c, w, x)
               /\ e.ok = ~had /\ e.reprefill = ~had
               /\ ~had => e.c.owner = sid /\ e.c.rt.toks = <<>> /\ e.c.rt.rows = <<>>
<1> DEFINE e == Lost(c, sid, my_imgs, had, io)
           d == save_live(c, 0, io)
           rt == Reset(d.rt)
           C == [d EXCEPT !.rt = Reset(@), !.origin = 0, !.owner = sid, !.imgs = my_imgs]
           z == [rt |-> rt, imgs |-> my_imgs, slots |-> d.slots, lru |-> d.lru, origin |-> 0,
                 owner |-> sid]
<1>1. CacheOK(d, w, x)
  BY SaveOK
<1>2. C = [d EXCEPT !.rt = rt, !.origin = 0, !.owner = sid, !.imgs = my_imgs]
  OBVIOUS
<1>3. CASE had
  BY <1>3 DEF Lost
<1>4. CASE ~had
  <2>1. e = [c |-> C, ok |-> TRUE, reprefill |-> TRUE]
    BY <1>4 DEF Lost
  <2> HIDE DEF d
  <2>2. /\ d = [rt |-> d.rt, imgs |-> d.imgs, slots |-> d.slots, lru |-> d.lru,
                origin |-> d.origin, owner |-> d.owner]
        /\ RtOK(d.rt, w, x)
        /\ d.slots = [t \in Slots |-> d.slots[t]]
        /\ \A t \in Slots : SlotOK(d.slots[t], w, x)
        /\ d.lru \in [Slots -> Nat]
    BY <1>1, CacheFields
  <2>3. RtOK(rt, w, x) /\ rt.toks = <<>> /\ rt.rows = <<>>
    BY <2>2, ResetOK
  <2> HIDE DEF C, rt
  <2>4. C = z
    BY <2>2, <1>2, Zenon
  <2>5. 0 \in 0..NSlots
    BY Consts
  <2>6. CacheOK(z, w, x)
    BY <2>2, <2>3, <2>5, CacheMake
  <2>7. z.rt = rt /\ z.owner = sid
    OBVIOUS
  <2> HIDE DEF z, e
  <2>8. e.c = z /\ e.ok = TRUE /\ e.reprefill = TRUE
    BY <2>1, <2>4
  <2> QED
    BY <1>4, <2>3, <2>6, <2>7, <2>8 DEF e
<1> QED
  BY <1>3, <1>4

(* What ensure_state leaves to a request whose tokens are toks. *)
Regained(e, toks, sid, had, w, x) ==
    /\ CacheOK(e.c, w, x)
    /\ e.ok => e.c.owner = sid
    /\ e.ok /\ ~e.reprefill => e.c.rt.toks = toks
    /\ e.reprefill => e.c.rt.toks = <<>> /\ e.c.rt.rows = <<>>
    /\ ~had => e.ok

LEMMA ReloadOK ==
    ASSUME NEW c, NEW w \in BOOLEAN, NEW x \in BOOLEAN, CacheOK(c, w, x), NEW s \in Slots,
           NEW sid \in Threads \cup {0}, NEW my_imgs, x => my_imgs = <<>>,
           NEW had \in BOOLEAN, NEW io
    PROVE  Regained(Reload(c, s, sid, my_imgs, had, io), c.slots[s].toks, sid, had, w, x)
<1> DEFINE e == Reload(c, s, sid, my_imgs, had, io)
           l == load_slot(c, s, io)
           C == [l EXCEPT !.origin = s, !.owner = sid]
           z == [rt |-> l.rt, imgs |-> l.imgs, slots |-> l.slots, lru |-> l.lru, origin |-> s,
                 owner |-> sid]
           k == Lost(l, sid, my_imgs, had, io)
<1>1. /\ CacheOK(l, w, x)
      /\ l.rt.toks = IF Loads(c, s, io) THEN c.slots[s].toks ELSE <<>>
  <2>1. CacheOK(load_slot(c, s, io), w, x)
    BY LoadOK
  <2>2. load_slot(c, s, io).rt.toks = IF Loads(c, s, io) THEN c.slots[s].toks ELSE <<>>
    BY LoadOK
  <2> QED
    BY <2>1, <2>2
<1>2. CASE Loads(c, s, io)
  <2>1. e = [c |-> C, ok |-> TRUE, reprefill |-> FALSE]
    BY <1>2 DEF Reload
  <2>2. C = [l EXCEPT !.origin = s, !.owner = sid]
    OBVIOUS
  <2> HIDE DEF l
  <2>3. /\ l = [rt |-> l.rt, imgs |-> l.imgs, slots |-> l.slots, lru |-> l.lru,
                origin |-> l.origin, owner |-> l.owner]
        /\ RtOK(l.rt, w, x) /\ (x => l.imgs = <<>>)
        /\ l.slots = [t \in Slots |-> l.slots[t]]
        /\ \A t \in Slots : SlotOK(l.slots[t], w, x)
        /\ l.lru \in [Slots -> Nat]
    BY <1>1, CacheFields
  <2> HIDE DEF C
  <2>4. C = z
    BY <2>2, <2>3, Zenon
  <2>5. s \in 0..NSlots
    BY Consts DEF Slots
  <2>6. CacheOK(z, w, x)
    BY <2>3, <2>5, CacheMake
  <2>7. z.rt = l.rt /\ z.owner = sid
    OBVIOUS
  <2> HIDE DEF z, e
  <2>8. e.c = z /\ e.ok = TRUE /\ e.reprefill = FALSE
    BY <2>1, <2>4
  <2> QED
    BY <1>1, <1>2, <2>6, <2>7, <2>8 DEF e, Regained
<1>3. CASE ~Loads(c, s, io)
  <2>1. e = k
    BY <1>3 DEF Reload
  <2>2. /\ CacheOK(k.c, w, x)
        /\ k.ok = ~had /\ k.reprefill = ~had
        /\ ~had => k.c.owner = sid /\ k.c.rt.toks = <<>> /\ k.c.rt.rows = <<>>
    <3> HIDE DEF l
    <3> QED
      BY <1>1, LostOK
  <2> HIDE DEF k, e
  <2> QED
    BY <2>1, <2>2 DEF e, Regained
<1> QED
  BY <1>2, <1>3

(* A request that is attached again finds its own tokens, or is told to    *)
(* prefill them on an empty runtime; only a request with images can be     *)
(* left without a state.                                                   *)
LEMMA EnsureOK ==
    ASSUME NEW c, NEW w \in BOOLEAN, NEW x \in BOOLEAN, CacheOK(c, w, x),
           NEW sid \in Threads \cup {0}, NEW my_toks, NEW my_imgs, x => my_imgs = <<>>,
           NEW had \in BOOLEAN, NEW io
    PROVE  LET e == ensure_state(c, sid, my_toks, my_imgs, had, io)
           IN  \/ c.owner = sid /\ e.c = c /\ e.ok /\ ~e.reprefill
               \/ Regained(e, my_toks, sid, had, w, x)
<1> DEFINE e == ensure_state(c, sid, my_toks, my_imgs, had, io)
           hit == {s \in Slots : c.slots[s].toks = my_toks /\ my_toks # <<>>}
           P(s) == \A u \in hit : s <= u
           s == FirstParked(c, my_toks)
           d == save_live(c, s, io)
           l == Lost(c, sid, my_imgs, had, io)
           k == Reload(d, s, sid, my_imgs, had, io)
<1>1. CASE c.owner = sid
  <2>1. e = [c |-> c, ok |-> TRUE, reprefill |-> FALSE]
    BY <1>1 DEF ensure_state
  <2> HIDE DEF e
  <2> QED
    BY <1>1, <2>1 DEF e
<1>2. CASE c.owner # sid /\ s = 0
  <2>1. e = l
    BY <1>2 DEF ensure_state
  <2>2. /\ CacheOK(l.c, w, x)
        /\ l.ok = ~had /\ l.reprefill = ~had
        /\ ~had => l.c.owner = sid /\ l.c.rt.toks = <<>> /\ l.c.rt.rows = <<>>
    BY LostOK
  <2> HIDE DEF l, e
  <2> QED
    BY <2>1, <2>2 DEF e, Regained
<1>3. CASE c.owner # sid /\ s # 0
  <2>1. e = k
    BY <1>3 DEF ensure_state
  <2>2. hit # {}
    BY <1>3 DEF FirstParked
  <2>3. s = CHOOSE v \in hit : P(v)
    BY <2>2 DEF FirstParked
  <2>4. \E v \in hit : P(v)
    <3>1. hit \subseteq Nat
      BY Consts DEF Slots
    <3> HIDE DEF hit
    <3> QED
      BY <2>2, <3>1, LeastNat
  <2>5. s \in hit
    <3> HIDE DEF hit, s, P
    <3> QED
      BY <2>3, <2>4
  <2>6. s \in Slots /\ c.slots[s].toks = my_toks
    BY <2>5
  <2> HIDE DEF hit, s
  <2>7. CacheOK(d, w, x) /\ d.slots[s] = c.slots[s]
    BY <2>6, SaveOK
  <2> HIDE DEF d
  <2>8. Regained(k, d.slots[s].toks, sid, had, w, x)
    BY <2>6, <2>7, ReloadOK
  <2> HIDE DEF k, e
  <2> QED
    BY <2>1, <2>6, <2>7, <2>8 DEF e
<1> QED
  BY <1>1, <1>2, <1>3

-----------------------------------------------------------------------------
(* The cells a request still has to prefill. *)
LEMMA CellsOK ==
    ASSUME NEW r \in Threads, NEW n \in 0..Len(Body[r].prompt)
    PROVE  LET cells == Cells(Body[r].prompt, Body[r].spans, n)
           IN  /\ cells \in Seq(Cell)
               /\ Toks(cells) = SubSeq(Body[r].prompt, n + 1, Len(Body[r].prompt))
               /\ Body[r].spans = <<>> => Plainly(cells)
<1> DEFINE prompt == Body[r].prompt
           spans == Body[r].spans
           on(i) == {s \in Range(spans) :
                       s.first >= n /\ s.first <= i + n - 1 /\ i + n - 1 < SpanEnd(s)}
           im(i) == IF on(i) = {} THEN NoImg ELSE (CHOOSE s \in on(i) : TRUE).hash
           cell(i) == [tok |-> prompt[i + n], img |-> im(i)]
           cells == Cells(prompt, spans, n)
           m == Len(prompt) - n
           t == Toks(cells)
           v == SubSeq(prompt, n + 1, Len(prompt))
<1>1. prompt \in Seq(Tok) /\ Len(prompt) \in Nat
  BY ServerAssumption DEF Tok
<1>2. cells = [i \in 1..m |-> cell(i)]
  BY DEF Cells
<1>3. ASSUME NEW i \in 1..m PROVE im(i) \in Img /\ (spans = <<>> => im(i) = NoImg)
  <2>1. CASE on(i) = {}
    BY <2>1, Consts
  <2>2. CASE on(i) # {}
    <3>1. PICK s \in on(i) : s = CHOOSE q \in on(i) : TRUE
      BY <2>2
    <3>2. s \in Range(spans) /\ im(i) = s.hash
      BY <2>2, <3>1
    <3>3. spans # <<>>
      BY <3>2 DEF Range
    <3>4. s.hash \in {q.hash : q \in Range(spans)}
      BY <3>2
    <3>5. s.hash \in UNION {{q.hash : q \in Range(Body[u].spans)} : u \in Threads}
      BY <3>4, Zenon
    <3> QED
      BY <3>2, <3>3, <3>5 DEF Img
  <2> QED
    BY <2>1, <2>2
<1> HIDE DEF im, spans
<1>4. m \in Nat
  BY <1>1
<1>5. ASSUME NEW i \in 1..m PROVE i + n \in 1..Len(prompt)
  BY <1>1
<1> HIDE DEF prompt
<1>6. ASSUME NEW i \in 1..m PROVE prompt[i + n] \in Tok
  BY <1>1, <1>5
<1>7. \A i \in 1..m : cell(i) \in Cell /\ cell(i).img = im(i) /\ cell(i).tok = prompt[i + n]
  BY <1>3, <1>6 DEF Cell
<1>8. v \in Seq(Tok) /\ Len(v) = m /\ \A i \in 1..m : v[i] = prompt[i + n]
  <2> DEFINE N == Len(prompt)
  <2>1. n \in Nat /\ N \in Nat /\ n <= N /\ prompt \in Seq(Tok) /\ N = Len(prompt)
    BY <1>1 DEF prompt
  <2> HIDE DEF N
  <2>2. v = SubSeq(prompt, n + 1, N)
    BY <2>1
  <2>3. v \in Seq(Tok) /\ Len(v) = N - n
    BY <2>1, <2>2
  <2>4. ASSUME NEW i \in 1..(N - n) PROVE v[i] = prompt[i + n]
    BY <2>1, <2>2
  <2> QED
    BY <2>1, <2>3, <2>4
<1> HIDE DEF m, cell, v, cells
<1>9. cells \in Seq(Cell) /\ Len(cells) = m /\ DOMAIN cells = 1..m /\ \A i \in 1..m : cells[i] = cell(i)
  BY <1>2, <1>4, <1>7
<1>10. t \in Seq(Tok) /\ Len(t) = m /\ \A i \in 1..m : t[i] = cells[i].tok
  BY <1>9, ToksType
<1> HIDE DEF t
<1>11. t = v
  <2>1. \A i \in 1..m : t[i] = v[i]
    BY <1>7, <1>8, <1>9, <1>10
  <2>2. t \in Seq(Tok) /\ v \in Seq(Tok) /\ Len(t) = m /\ Len(v) = m
    BY <1>8, <1>10
  <2> QED
    BY <2>1, <2>2, SeqEqual
<1>12. spans = <<>> => Plainly(cells)
  BY <1>3, <1>7, <1>9 DEF Plainly
<1> QED
  BY <1>9, <1>11, <1>12 DEF t, v, cells, prompt, spans

(***************************************************************************)
(* Second part: the requests, the lock and the cache together.             *)
(***************************************************************************)
PCs == {"idle", "wait", "prefill", "gen", "lost", "paused", "ended", "unwound", "done"}

(* The locals of a request. *)
ReqOK(s, x) ==
    /\ s = [pc |-> s.pc, started |-> s.started, tail |-> s.tail, conv |-> s.conv,
            my_toks |-> s.my_toks, my_imgs |-> s.my_imgs, generated |-> s.generated,
            slice |-> s.slice, cut |-> s.cut, reason |-> s.reason]
    /\ s.pc \in PCs /\ s.started \in BOOLEAN
    /\ s.tail \in Seq(Cell) /\ s.conv \in Seq(Cell)
    /\ s.my_toks \in Seq(Tok) /\ Len(s.my_toks) <= NCtx
    /\ s.generated \in Nat
    /\ x => Plainly(s.tail) /\ Plainly(s.conv) /\ s.my_imgs = <<>>

LockOK ==
    /\ owner \in Threads \cup {NoThread}
    /\ waiters \subseteq Threads
    /\ before \subseteq waiters \X waiters

ReqsOK(x) ==
    /\ st = [r \in Threads |-> st[r]]
    /\ \A r \in Threads : ReqOK(st[r], x)

Base(w, x) ==
    /\ LockOK
    /\ CacheOK(cache, w, x)
    /\ ReqsOK(x)
    /\ faults \in 0..MaxFaults

TextOnly == \A r \in Threads : Body[r].spans = <<>>

(* The text of the conversation, and of the prompt not prefilled yet. *)
Said(s) == TextOfToks(Toks(s.conv))
Left(s) == TextOfToks(Toks(s.tail))

(* A request that works on the runtime finds its own text there, ...  *)
Live(r) ==
    Holds(r) /\ st[r].pc \in {"prefill", "gen"} =>
        /\ cache.owner = Sid(r)
        /\ TextOfToks(cache.rt.toks) \o Left(st[r]) = Said(st[r])
        /\ st[r].pc = "gen" => st[r].tail = <<>>

(* ... and one that has yielded knows the tokens of its own.          *)
Parked(r) ==
    st[r].pc \in {"paused", "wait"} /\ st[r].started =>
        /\ Streaming(r)
        /\ TextOfToks(st[r].my_toks) \o Left(st[r]) = Said(st[r])
        /\ cache.owner = r => cache.rt.toks = st[r].my_toks

Stage(r) ==
    /\ st[r].pc \in {"idle", "paused", "wait"} /\ ~st[r].started =>
         st[r].conv = Cells(Body[r].prompt, Body[r].spans, 0)
    /\ st[r].pc = "paused" => Streaming(r)
    /\ st[r].pc = "idle" => ~st[r].started
    /\ st[r].pc \in {"prefill", "gen"} => st[r].started
    /\ ~Holds(r) => st[r].pc \notin {"prefill", "gen", "lost"}
    /\ st[r].pc \notin {"unwound", "lost"}

Own == \A r \in Threads : Live(r) /\ Parked(r) /\ Stage(r)

(* What every step preserves.  w: no request without a stream has thrown   *)
(* in the middle of a batch; x: there are no images; o: no request without *)
(* a stream has thrown at all.                                             *)
Inv(w, x, o) == Base(w, x) /\ (o => Own)

-----------------------------------------------------------------------------
LEMMA BaseFields ==
    ASSUME NEW w, NEW x, Base(w, x)
    PROVE  /\ LockOK
           /\ CacheOK(cache, w, x) /\ RtOK(cache.rt, w, x)
           /\ ReqsOK(x)
           /\ faults \in 0..MaxFaults
           /\ faults \in Nat /\ MaxFaults \in Nat
           /\ \A r \in Threads : ReqOK(st[r], x)
BY ServerAssumption DEF Base, CacheOK, ReqsOK

LEMMA ReqMake ==
    ASSUME NEW x \in BOOLEAN, NEW pc \in PCs, NEW started \in BOOLEAN, NEW tail \in Seq(Cell),
           NEW conv \in Seq(Cell), NEW my_toks \in Seq(Tok), Len(my_toks) <= NCtx, NEW my_imgs,
           NEW generated \in Nat, NEW slice, NEW cut, NEW reason,
           x => Plainly(tail) /\ Plainly(conv) /\ my_imgs = <<>>
    PROVE  ReqOK([pc |-> pc, started |-> started, tail |-> tail, conv |-> conv,
                  my_toks |-> my_toks, my_imgs |-> my_imgs, generated |-> generated,
                  slice |-> slice, cut |-> cut, reason |-> reason], x)
<1> DEFINE z == [pc |-> pc, started |-> started, tail |-> tail, conv |-> conv,
                 my_toks |-> my_toks, my_imgs |-> my_imgs, generated |-> generated,
                 slice |-> slice, cut |-> cut, reason |-> reason]
<1>1. /\ z.pc = pc /\ z.started = started /\ z.tail = tail /\ z.conv = conv
      /\ z.my_toks = my_toks /\ z.my_imgs = my_imgs /\ z.generated = generated
      /\ z.slice = slice /\ z.cut = cut /\ z.reason = reason
  OBVIOUS
<1>2. z = [pc |-> z.pc, started |-> z.started, tail |-> z.tail, conv |-> z.conv,
           my_toks |-> z.my_toks, my_imgs |-> z.my_imgs, generated |-> z.generated,
           slice |-> z.slice, cut |-> z.cut, reason |-> z.reason]
  BY <1>1
<1> HIDE DEF z
<1>3. ReqOK(z, x)
  BY <1>1, <1>2 DEF ReqOK
<1> QED
  BY <1>3 DEF z

LEMMA ReqFields ==
    ASSUME NEW s, NEW x, ReqOK(s, x)
    PROVE  /\ s = [pc |-> s.pc, started |-> s.started, tail |-> s.tail, conv |-> s.conv,
                   my_toks |-> s.my_toks, my_imgs |-> s.my_imgs, generated |-> s.generated,
                   slice |-> s.slice, cut |-> s.cut, reason |-> s.reason]
           /\ s.pc \in PCs /\ s.started \in BOOLEAN
           /\ s.tail \in Seq(Cell) /\ s.conv \in Seq(Cell)
           /\ s.my_toks \in Seq(Tok) /\ Len(s.my_toks) <= NCtx
           /\ s.generated \in Nat
           /\ x => Plainly(s.tail) /\ Plainly(s.conv) /\ s.my_imgs = <<>>
BY DEF ReqOK

(* A step that changes the locals of one request. *)
LEMMA OneReq ==
    ASSUME NEW x, ReqsOK(x), NEW r \in Threads, NEW v, ReqOK(v, x), st' = [st EXCEPT ![r] = v]
    PROVE  /\ ReqsOK(x)'
           /\ st'[r] = v /\ \A u \in Threads \ {r} : st'[u] = st[u]
<1>1. st = [u \in Threads |-> st[u]]
  BY DEF ReqsOK
<1>2. DOMAIN st = Threads
  BY <1>1
<1>3. st'[r] = v /\ \A u \in Threads \ {r} : st'[u] = st[u]
  BY <1>2
<1>4. st' = [u \in Threads |-> st'[u]]
  BY <1>2
<1>5. \A u \in Threads : ReqOK(st'[u], x)
  BY <1>3 DEF ReqsOK
<1> QED
  BY <1>3, <1>4, <1>5 DEF ReqsOK

(* The steps of the lock. *)
LEMMA LockStep ==
    ASSUME LockOK, NEW r \in Threads,
           \/ Enter(r) \/ Grant(r) \/ GiveUp(r) \/ Leave(r)
           \/ PassLock(r) \/ UNCHANGED lockvars
    PROVE  LockOK' /\ (owner' = owner \/ owner \in {r, NoThread}) /\ owner' \in {owner, r, NoThread}
<1>1. CASE Enter(r)
  BY <1>1 DEF LockOK, Enter
<1>2. CASE Grant(r)
  BY <1>2 DEF LockOK, Grant, Without
<1>3. CASE GiveUp(r)
  BY <1>3 DEF LockOK, GiveUp, Without
<1>4. CASE Leave(r)
  BY <1>4 DEF LockOK, Leave
<1>5. CASE UNCHANGED lockvars
  BY <1>5 DEF LockOK, lockvars
<1>6. CASE PassLock(r) /\ ~Leave(r)
  BY <1>6 DEF LockOK, PassLock, Without
<1> QED
  BY <1>1, <1>2, <1>3, <1>4, <1>5, <1>6

(* The other requests are not disturbed by a step of r that leaves the     *)
(* cache alone, or that holds the lock, as long as the runtime is not      *)
(* theirs afterwards.                                                      *)
LEMMA Others ==
    ASSUME Own, NEW r \in Threads, \A u \in Threads \ {r} : st'[u] = st[u],
           \/ /\ cache' = cache /\ owner' \in {owner, r, NoThread}
              /\ owner' = owner \/ owner \in {r, NoThread}
           \/ owner \in {r, NoThread} /\ owner' \in {r, NoThread} /\ cache'.owner \in {r, 0}
    PROVE  \A u \in Threads \ {r} : Live(u)' /\ Parked(u)' /\ Stage(u)'
<1> SUFFICES ASSUME NEW u \in Threads \ {r}
             PROVE  Live(u)' /\ Parked(u)' /\ Stage(u)'
  OBVIOUS
<1>1. Live(u) /\ Parked(u) /\ Stage(u) /\ st'[u] = st[u] /\ u # NoThread /\ u # 0 /\ u # r
  BY NoThreadAssumption, ServerAssumption DEF Own
<1>2. owner' = u => owner = u /\ cache' = cache
  BY <1>1
<1>3. owner = u => owner' = u
  BY <1>1
<1>4. cache' = cache \/ cache'.owner # u
  BY <1>1
<1>5. Live(u)'
  BY <1>1, <1>2 DEF Live, Holds, Said, Left
<1>6. Parked(u)'
  BY <1>1, <1>4 DEF Parked, Said, Left
<1>7. Stage(u)'
  BY <1>1, <1>3 DEF Stage, Holds
<1> QED
  BY <1>5, <1>6, <1>7

LEMMA OverIs ==
    ASSUME NEW x \in BOOLEAN, NEW r \in Threads, NEW cut, NEW reason
    PROVE  ReqOK(Over(r, cut, reason), x) /\ Over(r, cut, reason).pc = "done"
<1> DEFINE conv == Cells(Body[r].prompt, Body[r].spans, 0)
           z == [pc |-> "done", started |-> TRUE, tail |-> <<>>, conv |-> <<>>, my_toks |-> <<>>,
                 my_imgs |-> <<>>, generated |-> 0, slice |-> 0, cut |-> cut, reason |-> reason]
<1>1. Over(r, cut, reason) = z
  <2> HIDE DEF conv
  <2>1. NewState(r) = [pc |-> "idle", started |-> FALSE, tail |-> <<>>, conv |-> conv,
                       my_toks |-> <<>>, my_imgs |-> <<>>, generated |-> 0, slice |-> 0,
                       cut |-> FALSE, reason |-> ""]
    BY DEF NewState, conv
  <2>2. Over(r, cut, reason) = [NewState(r) EXCEPT !.pc = "done", !.started = TRUE, !.conv = <<>>,
                                                   !.cut = cut, !.reason = reason]
    BY DEF Over
  <2> DEFINE n == NewState(r)
             a == [n EXCEPT !.pc = "done", !.started = TRUE, !.conv = <<>>]
             b == [pc |-> "done", started |-> TRUE, tail |-> <<>>, conv |-> <<>>, my_toks |-> <<>>,
                   my_imgs |-> <<>>, generated |-> 0, slice |-> 0, cut |-> FALSE, reason |-> ""]
  <2>3. a = [n EXCEPT !.pc = "done", !.started = TRUE, !.conv = <<>>]
    OBVIOUS
  <2>4. Over(r, cut, reason) = [a EXCEPT !.cut = cut, !.reason = reason]
    BY <2>2
  <2>6. n = [pc |-> "idle", started |-> FALSE, tail |-> <<>>, conv |-> conv,
             my_toks |-> <<>>, my_imgs |-> <<>>, generated |-> 0, slice |-> 0,
             cut |-> FALSE, reason |-> ""]
    BY <2>1
  <2> HIDE DEF n, a
  <2>5. a = b
    BY <2>6, <2>3, Zenon
  <2> QED
    BY <2>4, <2>5, Zenon
<1>2. <<>> \in Seq(Cell) /\ <<>> \in Seq(Tok) /\ Len(<<>>) <= NCtx /\ Plainly(<<>>) /\ "done" \in PCs
      /\ 0 \in Nat
  BY Consts DEF Plainly, PCs
<1>3. ReqOK(z, x)
  BY ZenonT(60), <1>2, ReqMake
<1> QED
  BY <1>1, <1>3

LEMMA NewIs ==
    ASSUME NEW x \in BOOLEAN, NEW r \in Threads, x => TextOnly
    PROVE  /\ ReqOK(NewState(r), x) /\ NewState(r).pc = "idle" /\ NewState(r).started = FALSE
           /\ NewState(r).conv = Cells(Body[r].prompt, Body[r].spans, 0)
<1> DEFINE conv == Cells(Body[r].prompt, Body[r].spans, 0)
           z == [pc |-> "idle", started |-> FALSE, tail |-> <<>>, conv |-> conv,
                 my_toks |-> <<>>, my_imgs |-> <<>>, generated |-> 0, slice |-> 0,
                 cut |-> FALSE, reason |-> ""]
<1>1. NewState(r) = z
  BY DEF NewState
<1>2. 0 \in 0..Len(Body[r].prompt)
  BY ServerAssumption
<1>3. conv \in Seq(Cell) /\ (x => Plainly(conv))
  BY <1>2, CellsOK DEF TextOnly
<1> HIDE DEF conv
<1>4. <<>> \in Seq(Cell) /\ <<>> \in Seq(Tok) /\ Len(<<>>) <= NCtx /\ Plainly(<<>>) /\ "idle" \in PCs
      /\ 0 \in Nat
  BY Consts DEF Plainly, PCs
<1>5. ReqOK(z, x)
  BY ZenonT(60), <1>3, <1>4, ReqMake
<1>6. z.pc = "idle" /\ z.started = FALSE /\ z.conv = conv
  OBVIOUS
<1> HIDE DEF z
<1> QED
  BY <1>1, <1>5, <1>6 DEF conv

(* A request that only moves on. *)
LEMMA PcIs ==
    ASSUME NEW x \in BOOLEAN, NEW s, ReqOK(s, x), NEW pc \in PCs
    PROVE  LET v == [s EXCEPT !.pc = pc]
           IN  /\ ReqOK(v, x)
               /\ v.pc = pc /\ v.started = s.started /\ v.tail = s.tail /\ v.conv = s.conv
               /\ v.my_toks = s.my_toks
<1> DEFINE v == [s EXCEPT !.pc = pc]
           z == [pc |-> pc, started |-> s.started, tail |-> s.tail, conv |-> s.conv,
                 my_toks |-> s.my_toks, my_imgs |-> s.my_imgs, generated |-> s.generated,
                 slice |-> s.slice, cut |-> s.cut, reason |-> s.reason]
<1>1. s = [pc |-> s.pc, started |-> s.started, tail |-> s.tail, conv |-> s.conv,
           my_toks |-> s.my_toks, my_imgs |-> s.my_imgs, generated |-> s.generated,
           slice |-> s.slice, cut |-> s.cut, reason |-> s.reason]
  BY DEF ReqOK
<1>2. v = [s EXCEPT !.pc = pc]
  OBVIOUS
<1>3. /\ s.started \in BOOLEAN /\ s.tail \in Seq(Cell) /\ s.conv \in Seq(Cell)
      /\ s.my_toks \in Seq(Tok) /\ Len(s.my_toks) <= NCtx /\ s.generated \in Nat
      /\ x => Plainly(s.tail) /\ Plainly(s.conv) /\ s.my_imgs = <<>>
  BY ReqFields
<1>4. ReqOK(z, x)
  BY ZenonT(60), <1>3, ReqMake
<1>5. /\ z.pc = pc /\ z.started = s.started /\ z.tail = s.tail /\ z.conv = s.conv
      /\ z.my_toks = s.my_toks
  OBVIOUS
<1> HIDE DEF v
<1>6. v = z
  BY <1>1, <1>2, Zenon
<1> HIDE DEF z
<1> QED
  BY <1>4, <1>5, <1>6 DEF v

LEMMA CutIs ==
    ASSUME NEW x \in BOOLEAN, NEW s, ReqOK(s, x), NEW pc \in PCs, NEW cut
    PROVE  LET v == [s EXCEPT !.pc = pc, !.cut = cut] IN ReqOK(v, x) /\ v.pc = pc
<1> DEFINE v == [s EXCEPT !.pc = pc, !.cut = cut]
           z == [pc |-> pc, started |-> s.started, tail |-> s.tail, conv |-> s.conv,
                 my_toks |-> s.my_toks, my_imgs |-> s.my_imgs, generated |-> s.generated,
                 slice |-> s.slice, cut |-> cut, reason |-> s.reason]
<1>1. s = [pc |-> s.pc, started |-> s.started, tail |-> s.tail, conv |-> s.conv,
           my_toks |-> s.my_toks, my_imgs |-> s.my_imgs, generated |-> s.generated,
           slice |-> s.slice, cut |-> s.cut, reason |-> s.reason]
  BY DEF ReqOK
<1>2. v = [s EXCEPT !.pc = pc, !.cut = cut]
  OBVIOUS
<1>3. /\ s.started \in BOOLEAN /\ s.tail \in Seq(Cell) /\ s.conv \in Seq(Cell)
      /\ s.my_toks \in Seq(Tok) /\ Len(s.my_toks) <= NCtx /\ s.generated \in Nat
      /\ x => Plainly(s.tail) /\ Plainly(s.conv) /\ s.my_imgs = <<>>
  BY ReqFields
<1>4. ReqOK(z, x)
  BY ZenonT(60), <1>3, ReqMake
<1>5. z.pc = pc
  OBVIOUS
<1> HIDE DEF v
<1>6. v = z
  BY <1>1, <1>2, Zenon
<1> HIDE DEF z
<1> QED
  BY <1>4, <1>5, <1>6 DEF v

LEMMA EndedFine ==
    ASSUME NEW r \in Threads, st'[r].pc \in {"ended", "done"}
    PROVE  Live(r)' /\ Parked(r)' /\ Stage(r)'
BY DEF Live, Parked, Stage

(* A step of one request that leaves the cache alone. *)
LEMMA QuietStep ==
    ASSUME NEW w \in BOOLEAN, NEW x \in BOOLEAN, NEW o \in BOOLEAN, Inv(w, x, o),
           NEW r \in Threads, NEW v, ReqOK(v, x), st' = [st EXCEPT ![r] = v],
           \/ Enter(r) \/ Grant(r) \/ GiveUp(r) \/ Leave(r) \/ UNCHANGED lockvars,
           cache' = cache, faults' = faults,
           o => (st'[r] = v => Live(r)' /\ Parked(r)' /\ Stage(r)')
    PROVE  Inv(w, x, o)'
<1>1. /\ LockOK /\ CacheOK(cache, w, x) /\ ReqsOK(x) /\ faults \in 0..MaxFaults
  BY BaseFields DEF Inv
<1>2. LockOK' /\ (owner' = owner \/ owner \in {r, NoThread}) /\ owner' \in {owner, r, NoThread}
  BY <1>1, LockStep
<1>3. ReqsOK(x)' /\ st'[r] = v /\ \A u \in Threads \ {r} : st'[u] = st[u]
  BY <1>1, OneReq
<1>4. Base(w, x)'
  BY <1>1, <1>2, <1>3 DEF Base
<1>5. ASSUME o PROVE Own'
  <2>1. \A u \in Threads \ {r} : Live(u)' /\ Parked(u)' /\ Stage(u)'
    BY <1>2, <1>3, <1>5, Others DEF Inv
  <2>2. Live(r)' /\ Parked(r)' /\ Stage(r)'
    BY <1>3, <1>5
  <2> QED
    BY <2>1, <2>2 DEF Own
<1> QED
  BY <1>4, <1>5 DEF Inv

-----------------------------------------------------------------------------
(* The steps that do not touch the cache *)

(* Waiting and pausing: nothing but the pc changes. *)
LEMMA WaitingFine ==
    ASSUME Own, NEW x \in BOOLEAN, NEW r \in Threads, ReqOK(st[r], x), NEW pc \in {"wait", "paused"},
           st[r].pc \in {"idle", "wait", "paused"}, pc = "paused" => Streaming(r),
           st'[r] = [st[r] EXCEPT !.pc = pc], cache' = cache
    PROVE  Live(r)' /\ Parked(r)' /\ Stage(r)'
<1>1. pc \in PCs
  BY DEF PCs
<1>3. /\ st'[r].pc = pc /\ st'[r].started = st[r].started /\ st'[r].tail = st[r].tail
      /\ st'[r].conv = st[r].conv /\ st'[r].my_toks = st[r].my_toks
  BY <1>1, PcIs
<1>4. Parked(r) /\ Stage(r)
  BY DEF Own
<1>5. Live(r)'
  BY <1>3 DEF Live
<1>6. Parked(r)'
  BY <1>3, <1>4 DEF Parked, Stage, Left, Said
<1>7. Stage(r)'
  BY <1>3, <1>4 DEF Stage
<1> QED
  BY <1>5, <1>6, <1>7

LEMMA QueueStep ==
    ASSUME NEW w \in BOOLEAN, NEW x \in BOOLEAN, NEW o \in BOOLEAN, Inv(w, x, o),
           NEW r \in Threads, Queue(r) \/ Heartbeat(r)
    PROVE  Inv(w, x, o)'
<1>1. ReqOK(st[r], x)
  BY BaseFields DEF Inv
<1>2. CASE Queue(r)
  <2> DEFINE v == [st[r] EXCEPT !.pc = "wait"]
  <2>1. st' = [st EXCEPT ![r] = v] /\ Enter(r) /\ cache' = cache /\ faults' = faults
        /\ st[r].pc \in {"idle", "wait", "paused"}
    BY <1>2 DEF Queue, At
  <2>2. "wait" \in PCs
    BY DEF PCs
  <2>3. ReqOK(v, x)
    BY <1>1, <2>2, PcIs
  <2>4. ASSUME o, st'[r] = v PROVE Live(r)' /\ Parked(r)' /\ Stage(r)'
    BY <1>1, <2>1, <2>4, WaitingFine DEF Inv
  <2> HIDE DEF v
  <2> QED
    BY <2>1, <2>3, <2>4, QuietStep
<1>3. CASE Heartbeat(r)
  <2> DEFINE v == [st[r] EXCEPT !.pc = "paused"]
  <2>1. st' = [st EXCEPT ![r] = v] /\ GiveUp(r) /\ cache' = cache /\ faults' = faults
        /\ st[r].pc \in {"idle", "wait", "paused"} /\ Streaming(r)
    BY <1>3 DEF Heartbeat, At
  <2>2. "paused" \in PCs
    BY DEF PCs
  <2>3. ReqOK(v, x)
    BY <1>1, <2>2, PcIs
  <2>4. ASSUME o, st'[r] = v PROVE Live(r)' /\ Parked(r)' /\ Stage(r)'
    BY <1>1, <2>1, <2>4, WaitingFine DEF Inv
  <2> HIDE DEF v
  <2> QED
    BY <2>1, <2>3, <2>4, QuietStep
<1> QED
  BY <1>2, <1>3

LEMMA EndStep ==
    ASSUME NEW w \in BOOLEAN, NEW x \in BOOLEAN, NEW o \in BOOLEAN, Inv(w, x, o),
           NEW r \in Threads, Stop(r) \/ Truncate(r)
    PROVE  Inv(w, x, o)'
<1>1. ReqOK(st[r], x)
  BY BaseFields DEF Inv
<1>2. PICK cut : /\ st' = [st EXCEPT ![r].pc = "ended", ![r].cut = cut]
                 /\ Leave(r) /\ cache' = cache /\ faults' = faults
  BY DEF Stop, Truncate
<1> DEFINE v == [st[r] EXCEPT !.pc = "ended", !.cut = cut]
<1>3. st' = [st EXCEPT ![r] = v]
  BY <1>2
<1>4. "ended" \in PCs
  BY DEF PCs
<1>5. ReqOK(v, x) /\ v.pc = "ended"
  BY <1>1, <1>4, CutIs
<1> HIDE DEF v
<1>6. ASSUME o, st'[r] = v PROVE Live(r)' /\ Parked(r)' /\ Stage(r)'
  BY <1>5, <1>6, EndedFine
<1> QED
  BY ZenonT(60), <1>2, <1>3, <1>5, <1>6, QuietStep

LEMMA OverStep ==
    ASSUME NEW w \in BOOLEAN, NEW x \in BOOLEAN, NEW o \in BOOLEAN, Inv(w, x, o),
           NEW r \in Threads, Refuse(r) \/ Report(r) \/ Disconnect(r)
    PROVE  Inv(w, x, o)'
<1>1. PICK cut, reason : /\ st' = [st EXCEPT ![r] = Over(r, cut, reason)]
                         /\ Leave(r) \/ UNCHANGED lockvars
                         /\ cache' = cache /\ faults' = faults
  BY DEF Refuse, Report, Disconnect
<1> DEFINE v == Over(r, cut, reason)
<1>2. ReqOK(v, x) /\ v.pc = "done" /\ st' = [st EXCEPT ![r] = v]
  BY <1>1, OverIs
<1> HIDE DEF v
<1>3. ASSUME o, st'[r] = v PROVE Live(r)' /\ Parked(r)' /\ Stage(r)'
  BY <1>2, <1>3, EndedFine
<1> QED
  BY ZenonT(60), <1>1, <1>2, <1>3, QuietStep

-----------------------------------------------------------------------------
(* Attaching to the runtime *)

(* A step of the request that has the lock, or gets it. *)
LEMMA HeldStep ==
    ASSUME NEW w \in BOOLEAN, NEW x \in BOOLEAN, NEW o \in BOOLEAN, Inv(w, x, o),
           NEW r \in Threads, NEW v, ReqOK(v, x), st' = [st EXCEPT ![r] = v],
           \/ Enter(r) \/ Grant(r) \/ GiveUp(r) \/ Leave(r) \/ PassLock(r) \/ UNCHANGED lockvars,
           owner \in {r, NoThread}, owner' \in {r, NoThread},
           CacheOK(cache', w, x), faults' \in 0..MaxFaults,
           o => cache'.owner \in {r, 0},
           o => (st'[r] = v => Live(r)' /\ Parked(r)' /\ Stage(r)')
    PROVE  Inv(w, x, o)'
<1>1. LockOK /\ ReqsOK(x)
  BY BaseFields DEF Inv
<1>2. LockOK'
  BY <1>1, LockStep
<1>3. ReqsOK(x)' /\ st'[r] = v /\ \A u \in Threads \ {r} : st'[u] = st[u]
  BY <1>1, OneReq
<1>4. Base(w, x)'
  BY <1>2, <1>3 DEF Base
<1>5. ASSUME o PROVE Own'
  <2>1. \A u \in Threads \ {r} : Live(u)' /\ Parked(u)' /\ Stage(u)'
    BY <1>3, <1>5, Others DEF Inv
  <2>2. Live(r)' /\ Parked(r)' /\ Stage(r)'
    BY <1>3, <1>5
  <2> QED
    BY <2>1, <2>2 DEF Own
<1> QED
  BY <1>4, <1>5 DEF Inv

LEMMA FaultCount ==
    ASSUME NEW w, NEW x, Base(w, x), NEW io \in IO, Count(io)
    PROVE  faults' \in 0..MaxFaults
<1>1. faults \in 0..MaxFaults /\ MaxFaults \in Nat
  BY BaseFields
<1>2. CASE Ssd /\ faults < MaxFaults
  BY <1>1, <1>2 DEF Count
<1>3. CASE ~(Ssd /\ faults < MaxFaults)
  <2>1. io = [save |-> TRUE, load |-> TRUE]
    BY <1>3 DEF IO
  <2> QED
    BY <1>1, <2>1 DEF Count
<1> QED
  BY <1>2, <1>3

LEMMA TakeLockIs ==
    ASSUME NEW r \in Threads, TakeLock(r)
    PROVE  owner \in {r, NoThread} /\ owner' = r /\ (Grant(r) \/ UNCHANGED lockvars)
BY DEF TakeLock, Holds, Grant, lockvars

LEMMA SidIs ==
    ASSUME NEW r \in Threads
    PROVE  Sid(r) \in {r, 0} /\ Sid(r) \in Threads \cup {0} /\ r # 0 /\ r # NoThread
           /\ Streaming(r) \in BOOLEAN
BY ServerAssumption, NoThreadAssumption DEF Sid, Streaming

LEMMA TextSplit ==
    ASSUME NEW r \in Threads, NEW n \in 0..Len(Body[r].prompt)
    PROVE  TextOfToks(Prefix(Body[r].prompt, n)) \o TextOfToks(Toks(Cells(Body[r].prompt, Body[r].spans, n)))
             = TextOfToks(Toks(Cells(Body[r].prompt, Body[r].spans, 0)))
<1> DEFINE prompt == Body[r].prompt
           m == Len(prompt)
           a == Prefix(prompt, n)
           b == SubSeq(prompt, n + 1, m)
<1>1. prompt \in Seq(Tok) /\ m \in Nat /\ 0 \in 0..Len(Body[r].prompt)
  BY ServerAssumption DEF Tok
<1>2. Toks(Cells(Body[r].prompt, Body[r].spans, n)) = b
  BY CellsOK
<1>3. Toks(Cells(Body[r].prompt, Body[r].spans, 0)) = SubSeq(prompt, 0 + 1, m)
  BY <1>1, CellsOK
<1>4. a \in Seq(Tok) /\ b \in Seq(Tok) /\ a \o b = Prefix(prompt, m)
  <2>1. m \in 0..Len(prompt) /\ n \in 0..m
    BY <1>1
  <2> HIDE DEF prompt, m
  <2> QED
    BY <1>1, <2>1, SplitAt
<1>5. SubSeq(prompt, 0 + 1, m) = Prefix(prompt, m)
  BY DEF Prefix
<1> HIDE DEF a, b
<1>6. TextOfToks(a \o b) = TextOfToks(a) \o TextOfToks(b)
  BY <1>4, TextConcat
<1> QED
  BY <1>2, <1>3, <1>4, <1>5, <1>6 DEF a

LEMMA StartStep ==
    ASSUME NEW w \in BOOLEAN, NEW x \in BOOLEAN, NEW o \in BOOLEAN, Inv(w, x, o), x => TextOnly,
           NEW r \in Threads, Start(r)
    PROVE  Inv(w, x, o)'
<1>1. Base(w, x) /\ CacheOK(cache, w, x) /\ ReqOK(st[r], x)
  BY BaseFields DEF Inv
<1>2. PICK io \in IO :
         /\ Attached(r, prepare_prompt(cache, Body[r].prompt, Body[r].spans, Sid(r), io))
         /\ Count(io)
  BY DEF Start
<1> DEFINE prompt == Body[r].prompt
           p == prepare_prompt(cache, prompt, Body[r].spans, Sid(r), io)
           tail == Cells(prompt, Body[r].spans, p.n)
           v == [st[r] EXCEPT !.pc = "prefill", !.started = TRUE, !.slice = 0, !.tail = tail]
           z == [pc |-> "prefill", started |-> TRUE, tail |-> tail, conv |-> st[r].conv,
                 my_toks |-> st[r].my_toks, my_imgs |-> st[r].my_imgs,
                 generated |-> st[r].generated, slice |-> 0, cut |-> st[r].cut,
                 reason |-> st[r].reason]
<1>3. prompt \in Seq(Tok) \ {<<>>} /\ Len(prompt) \in Nat
  BY ServerAssumption DEF Tok
<1>4. Sid(r) \in Threads \cup {0} /\ (x => Body[r].spans = <<>>)
  BY SidIs DEF TextOnly
<1>5. Ready(p, prompt, w, x) /\ p.c.owner = Sid(r)
  <2> DEFINE spans == Body[r].spans
             sid == Sid(r)
             q == prepare_prompt(cache, prompt, spans, sid, io)
  <2>1. sid \in Threads \cup {0} /\ (x => spans = <<>>) /\ prompt \in Seq(Tok) \ {<<>>}
    BY <1>3, <1>4
  <2>2. ReadyFor(q, prompt, sid, w, x)
    <3> HIDE DEF prompt, spans, sid
    <3> QED
      BY <1>1, <2>1, PrepareOK
  <2> QED
    BY <2>2 DEF ReadyFor
<1>6. /\ st' = [st EXCEPT ![r].pc = "prefill", ![r].started = TRUE, ![r].slice = 0, ![r].tail = tail]
      /\ cache' = p.c
  BY <1>2 DEF Attached
<1> HIDE DEF p
<1>7. CacheOK(p.c, w, x) /\ p.n \in 0..Len(prompt)
      /\ TextOfToks(p.c.rt.toks) = TextOfToks(Prefix(prompt, p.n))
  BY <1>3, <1>5 DEF Ready
<1>8. tail \in Seq(Cell) /\ (x => Plainly(tail))
  BY <1>4, <1>7, CellsOK
<1>9. TextOfToks(p.c.rt.toks) \o TextOfToks(Toks(tail)) = TextOfToks(Toks(Cells(prompt, Body[r].spans, 0)))
  BY <1>7, TextSplit
<1> HIDE DEF tail
<1>10. v = [st[r] EXCEPT !.pc = "prefill", !.started = TRUE, !.slice = 0, !.tail = tail]
  OBVIOUS
<1>11. st' = [st EXCEPT ![r] = v]
  BY <1>6
<1>12. /\ st[r] = [pc |-> st[r].pc, started |-> st[r].started, tail |-> st[r].tail,
                   conv |-> st[r].conv, my_toks |-> st[r].my_toks, my_imgs |-> st[r].my_imgs,
                   generated |-> st[r].generated, slice |-> st[r].slice, cut |-> st[r].cut,
                   reason |-> st[r].reason]
       /\ st[r].conv \in Seq(Cell) /\ st[r].my_toks \in Seq(Tok) /\ Len(st[r].my_toks) <= NCtx
       /\ st[r].generated \in Nat /\ "prefill" \in PCs
       /\ x => Plainly(st[r].conv) /\ st[r].my_imgs = <<>>
  BY <1>1, ReqFields DEF PCs
<1> HIDE DEF v
<1>13. v = z
  <2> DEFINE s == st[r]
  <2>1. v = [s EXCEPT !.pc = "prefill", !.started = TRUE, !.slice = 0, !.tail = tail]
    BY <1>10
  <2>2. s = [pc |-> s.pc, started |-> s.started, tail |-> s.tail,
             conv |-> s.conv, my_toks |-> s.my_toks, my_imgs |-> s.my_imgs,
             generated |-> s.generated, slice |-> s.slice, cut |-> s.cut, reason |-> s.reason]
    BY <1>12
  <2> DEFINE y == [pc |-> "prefill", started |-> TRUE, tail |-> tail, conv |-> s.conv,
                   my_toks |-> s.my_toks, my_imgs |-> s.my_imgs, generated |-> s.generated,
                   slice |-> 0, cut |-> s.cut, reason |-> s.reason]
  <2>3. z = y
    OBVIOUS
  <2> HIDE DEF s, z
  <2>4. v = y
    BY <2>1, <2>2, Zenon
  <2> QED
    BY <2>3, <2>4
<1>14. ReqOK(z, x)
  BY ZenonT(60), <1>8, <1>12, ReqMake
<1>15. z.pc = "prefill" /\ z.tail = tail /\ z.conv = st[r].conv /\ z.started
  OBVIOUS
<1> HIDE DEF z
<1>16. owner \in {r, NoThread} /\ owner' = r /\ (Grant(r) \/ UNCHANGED lockvars)
  BY TakeLockIs DEF Start
<1>17. faults' \in 0..MaxFaults
  BY <1>1, <1>2, FaultCount
<1>18. ASSUME o, st'[r] = z PROVE Live(r)' /\ Parked(r)' /\ Stage(r)'
  <2>1. st[r].conv = Cells(prompt, Body[r].spans, 0)
    BY <1>18 DEF Inv, Own, Stage, Start, At
  <2>2. Live(r)'
    BY <1>5, <1>6, <1>9, <1>15, <1>18, <2>1 DEF Live, Left, Said, Sid, Streaming
  <2>3. Parked(r)'
    BY <1>15, <1>18 DEF Parked
  <2>4. Stage(r)'
    BY <1>15, <1>16, <1>18 DEF Stage, Holds
  <2> QED
    BY <2>2, <2>3, <2>4
<1>19. cache'.owner \in {r, 0}
  BY <1>5, <1>6, SidIs
<1>20. CacheOK(cache', w, x)
  BY <1>6, <1>7
<1> QED
  BY <1>11, <1>13, <1>14, <1>16, <1>17, <1>18, <1>19, <1>20, HeldStep

LEMMA ResumeStep ==
    ASSUME NEW w \in BOOLEAN, NEW x \in BOOLEAN, NEW o \in BOOLEAN, Inv(w, x, o), o => TextOnly,
           NEW r \in Threads, Resume(r)
    PROVE  Inv(w, x, o)'
<1>1. Base(w, x) /\ CacheOK(cache, w, x) /\ ReqOK(st[r], x)
  BY BaseFields DEF Inv
<1> DEFINE s == st[r]
           sid == Sid(r)
           had == HadImages(r)
<1>2. PICK io \in IO :
         /\ Reattached(r, ensure_state(cache, sid, s.my_toks, s.my_imgs, had, io))
         /\ Count(io)
  BY DEF Resume
<1> DEFINE e == ensure_state(cache, sid, s.my_toks, s.my_imgs, had, io)
           pc == IF ~e.ok THEN "lost" ELSE IF s.tail # <<>> THEN "prefill" ELSE "gen"
           my == IF e.ok THEN <<>> ELSE s.my_toks
           v == [s EXCEPT !.pc = pc, !.my_toks = my, !.my_imgs = <<>>, !.slice = 0]
           z == [pc |-> pc, started |-> s.started, tail |-> s.tail, conv |-> s.conv,
                 my_toks |-> my, my_imgs |-> <<>>, generated |-> s.generated, slice |-> 0,
                 cut |-> s.cut, reason |-> s.reason]
           c == IF e.reprefill THEN [e.c EXCEPT !.rt = Decode(e.c.rt, s.my_toks)] ELSE e.c
<1>3. cache' = c /\ st' = [st EXCEPT ![r] = v]
  BY <1>2 DEF Reattached
<1>4. sid \in Threads \cup {0} /\ had \in BOOLEAN
  BY SidIs DEF HadImages
<1>5. /\ s = [pc |-> s.pc, started |-> s.started, tail |-> s.tail, conv |-> s.conv,
              my_toks |-> s.my_toks, my_imgs |-> s.my_imgs, generated |-> s.generated,
              slice |-> s.slice, cut |-> s.cut, reason |-> s.reason]
      /\ s.started \in BOOLEAN /\ s.tail \in Seq(Cell) /\ s.conv \in Seq(Cell)
      /\ s.my_toks \in Seq(Tok) /\ Len(s.my_toks) <= NCtx /\ s.generated \in Nat
      /\ x => Plainly(s.tail) /\ Plainly(s.conv) /\ s.my_imgs = <<>>
  BY <1>1, ReqFields
<1>6. \/ cache.owner = sid /\ e.c = cache /\ e.ok /\ ~e.reprefill
      \/ Regained(e, s.my_toks, sid, had, w, x)
  <2> HIDE DEF s, sid, had
  <2> QED
    BY ZenonT(60), <1>1, <1>4, <1>5, EnsureOK
<1> HIDE DEF e, sid, had, s
<1>7. CacheOK(e.c, w, x) /\ (e.ok => e.c.owner = sid) /\ (~had => e.ok)
  BY <1>1, <1>6 DEF Regained
<1>8. ASSUME e.reprefill
      PROVE  /\ CacheOK(c, w, x) /\ c.rt.toks = s.my_toks /\ c.owner = e.c.owner
  <2>1. e.c.rt.toks = <<>> /\ e.c.rt.rows = <<>> /\ RtOK(e.c.rt, w, x)
    BY <1>6, <1>7, <1>8, CacheFields DEF Regained
  <2> DEFINE rt == e.c.rt
             d == Decode(rt, s.my_toks)
  <2>2. Len(rt.rows) + Len(s.my_toks) <= NCtx
    BY <2>1, <1>5
  <2>3. RtOK(d, w, x) /\ d.toks = rt.toks \o s.my_toks
    <3> DEFINE toks == s.my_toks
    <3>1. RtOK(rt, w, x) /\ toks \in Seq(Tok) /\ Len(rt.rows) + Len(toks) <= NCtx
      BY <2>1, <2>2, <1>5
    <3>2. RtOK(Decode(rt, toks), w, x) /\ Decode(rt, toks).toks = rt.toks \o toks
      <4> HIDE DEF rt, toks
      <4> QED
        BY <3>1, DecodeOK
    <3> QED
      BY <3>2
  <2>4. d.toks = s.my_toks
    BY <2>1, <2>3, <1>5
  <2>5. c = [e.c EXCEPT !.rt = d]
    BY <1>8
  <2> HIDE DEF d, rt, c
  <2> QED
    BY <1>7, <2>3, <2>4, <2>5, CacheRt
<1>9. CacheOK(c, w, x)
  BY <1>7, <1>8
<1>10. pc \in PCs /\ my \in Seq(Tok) /\ Len(my) <= NCtx
  BY <1>5, Consts DEF PCs
<1>11. ReqOK(z, x)
  <2> HIDE DEF pc, my
  <2> QED
    BY ZenonT(60), <1>5, <1>10, ReqMake
<1>12. v = z
  <2>1. v = [s EXCEPT !.pc = pc, !.my_toks = my, !.my_imgs = <<>>, !.slice = 0]
    OBVIOUS
  <2>2. s = [pc |-> s.pc, started |-> s.started, tail |-> s.tail, conv |-> s.conv,
             my_toks |-> s.my_toks, my_imgs |-> s.my_imgs, generated |-> s.generated,
             slice |-> s.slice, cut |-> s.cut, reason |-> s.reason]
    BY <1>5
  <2> HIDE DEF v, pc, my
  <2> QED
    BY <2>1, <2>2, Zenon
<1>13. z.pc = pc /\ z.tail = s.tail /\ z.conv = s.conv /\ z.started = s.started
  <2> HIDE DEF pc, my
  <2> QED
    OBVIOUS
<1> HIDE DEF v, z, c
<1>14. owner \in {r, NoThread} /\ owner' = r /\ (Grant(r) \/ UNCHANGED lockvars)
  BY TakeLockIs DEF Resume
<1>15. faults' \in 0..MaxFaults
  BY <1>1, <1>2, FaultCount
<1>16. ASSUME o PROVE cache'.owner = sid /\ cache'.rt.toks = s.my_toks /\ e.ok /\ Parked(r) /\ sid = r
                      /\ st[r].pc = "wait" /\ st[r].started
  <2>1. ~had
    BY <1>16 DEF had, HadImages, TextOnly
  <2>2. Parked(r) /\ st[r].pc = "wait" /\ st[r].started
    BY <1>16 DEF Inv, Own, Resume, At
  <2>3. sid = r /\ (cache.owner = r => cache.rt.toks = s.my_toks)
    BY <2>2 DEF Parked, Sid, sid, s
  <2>4. e.ok
    BY <1>7, <2>1
  <2>5. CASE e.reprefill
    BY <1>3, <1>7, <1>8, <2>2, <2>3, <2>4, <2>5
  <2>6. CASE ~e.reprefill
    <3>1. c = e.c
      BY <2>6 DEF c
    <3>2. e.c.rt.toks = s.my_toks
      BY <1>6, <2>3, <2>4, <2>6 DEF Regained
    <3> QED
      BY <1>3, <1>7, <2>2, <2>3, <2>4, <3>1, <3>2
  <2> QED
    BY <2>5, <2>6
<1>17. ASSUME o, st'[r] = z PROVE Live(r)' /\ Parked(r)' /\ Stage(r)'
  <2>1. TextOfToks(s.my_toks) \o Left(s) = Said(s) /\ Streaming(r)
    BY <1>16, <1>17 DEF Parked, s
  <2>2. z.pc \in {"prefill", "gen"} /\ (z.pc = "gen" => s.tail = <<>>)
    BY <1>13, <1>16, <1>17 DEF pc
  <2>3. Live(r)'
    BY <1>13, <1>16, <1>17, <2>1, <2>2 DEF Live, Left, Said, sid, Sid, Streaming
  <2>4. Parked(r)'
    BY <1>17, <2>2 DEF Parked
  <2>5. Stage(r)'
    BY <1>13, <1>14, <1>16, <1>17, <2>2 DEF Stage, Holds, s
  <2> QED
    BY <2>3, <2>4, <2>5
<1>18. o => cache'.owner \in {r, 0}
  BY <1>16
<1>19. CacheOK(cache', w, x)
  BY <1>3, <1>9
<1> QED
  BY <1>3, <1>11, <1>12, <1>14, <1>15, <1>17, <1>18, <1>19, HeldStep

LEMMA UnwindStep ==
    ASSUME NEW w \in BOOLEAN, NEW x \in BOOLEAN, NEW o \in BOOLEAN, Inv(w, x, o),
           NEW r \in Threads, Unwind(r)
    PROVE  Inv(w, x, o)'
<1>1. /\ Base(w, x) /\ CacheOK(cache, w, x) /\ RtOK(cache.rt, w, x) /\ ReqOK(st[r], x)
      /\ LockOK /\ ReqsOK(x) /\ faults \in 0..MaxFaults
  BY BaseFields DEF Inv
<1> DEFINE rt == Reset(cache.rt)
           v == [st[r] EXCEPT !.pc = "ended"]
<1>2. cache' = [cache EXCEPT !.rt = rt] /\ st' = [st EXCEPT ![r] = v] /\ UNCHANGED lockvars
      /\ faults' = faults
  BY DEF Unwind
<1>3. RtOK(rt, w, x)
  BY <1>1, ResetOK
<1>4. CacheOK(cache', w, x)
  <2> HIDE DEF rt
  <2> QED
    BY <1>1, <1>2, <1>3, CacheRt
<1>5. "ended" \in PCs
  BY DEF PCs
<1>6. ReqOK(v, x)
  BY <1>1, <1>5, PcIs
<1> HIDE DEF v
<1>7. ReqsOK(x)'
  BY <1>1, <1>2, <1>6, OneReq
<1>8. LockOK'
  BY <1>1, <1>2, LockStep
<1>9. ~o
  BY DEF Inv, Own, Stage, Unwind, At
<1> QED
  BY <1>1, <1>2, <1>4, <1>7, <1>8, <1>9 DEF Inv, Base

-----------------------------------------------------------------------------
(* Working on the runtime *)

LEMMA PrefillLenIs ==
    ASSUME NEW x, NEW r \in Threads, ReqOK(st[r], x)
    PROVE  PrefillLen(r) \in 0..Len(st[r].tail) /\ (st[r].tail # <<>> => PrefillLen(r) > 0)
<1> DEFINE t == st[r].tail
           g == GenRel(r)
           n == IF Streaming(r) /\ Chunk < Len(t) THEN Chunk ELSE Len(t)
           split == Streaming(r) \/ \A i \in DOMAIN t : t[i].img = NoImg
<1>1. t \in Seq(Cell) /\ Len(t) \in Nat
  BY ReqFields
<1>2. g \in Int
  <2>1. Body[r].gen \in Int /\ Len(Body[r].prompt) \in Nat
    BY ServerAssumption
  <2>2. g = Body[r].gen - (Len(Body[r].prompt) - Len(t))
    BY DEF GenRel
  <2> HIDE DEF g, t
  <2> QED
    BY <1>1, <2>1, <2>2
<1>3. n \in 0..Len(t) /\ (t # <<>> => n > 0)
  BY <1>1, ServerAssumption
<1>4. PrefillLen(r) = IF split /\ 0 < g /\ g < n THEN g ELSE n
  BY DEF PrefillLen
<1> HIDE DEF t, g, n, split
<1>5. PrefillLen(r) \in 0..Len(t) /\ (t # <<>> => PrefillLen(r) > 0)
  BY <1>1, <1>2, <1>3, <1>4
<1> QED
  BY <1>5 DEF t

(* A prompt in two parts. *)
LEMMA TwoParts ==
    ASSUME NEW tail \in Seq(Cell), NEW n \in 0..Len(tail)
    PROVE  LET now == Prefix(tail, n)
               rest == SubSeq(tail, n + 1, Len(tail))
           IN  /\ now \in Seq(Cell) /\ rest \in Seq(Cell)
               /\ Toks(tail) = Toks(now) \o Toks(rest)
               /\ Plainly(tail) => Plainly(now) /\ Plainly(rest)
<1> DEFINE m == Len(tail)
           now == Prefix(tail, n)
           rest == SubSeq(tail, n + 1, m)
<1>1. m \in 0..Len(tail) /\ n \in 0..m /\ m \in Nat
  OBVIOUS
<1>2. rest \in Seq(Cell) /\ now \in Seq(Cell) /\ now \o rest = Prefix(tail, m)
  <2> HIDE DEF m
  <2> QED
    BY <1>1, SplitAt
<1>3. Prefix(tail, m) = tail
  <2>1. /\ Prefix(tail, m) \in Seq(Cell) /\ Len(Prefix(tail, m)) = m
        /\ \A i \in 1..m : Prefix(tail, m)[i] = tail[i]
    BY <1>1, PrefixElems
  <2> QED
    BY <2>1, SeqEqual
<1>4. \A i \in 1..(m - n) : rest[i] = tail[n + i] /\ n + i \in 1..m
  <2>1. ASSUME NEW i \in 1..(m - n) PROVE rest[i] = tail[n + i] /\ n + i \in 1..m
    <3> HIDE DEF m
    <3>1. tail \in Seq(Cell) /\ n \in Nat /\ m \in Nat /\ n <= m /\ m = Len(tail)
      BY <1>1 DEF m
    <3> QED
      BY <3>1
  <2> QED
    BY <2>1
<1>5. Len(rest) = m - n /\ DOMAIN rest = 1..(m - n) /\ DOMAIN tail = 1..m
  BY <1>1
<1>6. Plainly(tail) => Plainly(rest)
  <2> HIDE DEF rest, m
  <2> QED
    BY <1>4, <1>5 DEF Plainly
<1>7. Plainly(tail) => Plainly(now)
  BY <1>1, PlainPrefix
<1>8. Toks(now \o rest) = Toks(now) \o Toks(rest)
  <2> HIDE DEF now, rest
  <2> QED
    BY <1>2, ToksConcat
<1> HIDE DEF now, rest
<1>9. Toks(tail) = Toks(now) \o Toks(rest)
  BY <1>2, <1>3, <1>8
<1> QED
  BY <1>2, <1>6, <1>7, <1>9 DEF now, rest

LEMMA Regrouped ==
    ASSUME NEW p \in Seq(Chars), NEW q \in Seq(Chars), NEW u \in Seq(Chars)
    PROVE  (p \o q) \o u = p \o (q \o u)
BY ConcatAssociative

LEMMA ReadMore ==
    ASSUME NEW toks \in Seq(Tok), NEW a \in Seq(Tok), NEW b \in Seq(Tok)
    PROVE  TextOfToks(toks \o a) \o TextOfToks(b) = TextOfToks(toks) \o TextOfToks(a \o b)
<1> DEFINE p == TextOfToks(toks)
           q == TextOfToks(a)
           u == TextOfToks(b)
<1>1. p \in Seq(Chars) /\ q \in Seq(Chars) /\ u \in Seq(Chars)
  BY TextType
<1>2. TextOfToks(toks \o a) = p \o q /\ TextOfToks(a \o b) = q \o u
  BY TextConcat
<1> HIDE DEF p, q, u
<1>3. (p \o q) \o u = p \o (q \o u)
  BY <1>1, Regrouped
<1> QED
  BY <1>2, <1>3 DEF p, u

LEMMA SayMore ==
    ASSUME NEW conv \in Seq(Cell), NEW t \in Tok
    PROVE  /\ Append(conv, Text(t)) \in Seq(Cell)
           /\ Toks(Append(conv, Text(t))) = Toks(conv) \o <<t>>
           /\ Plainly(conv) => Plainly(Append(conv, Text(t)))
<1> DEFINE one == <<Text(t)>>
<1>1. one \in Seq(Cell) /\ Len(one) = 1 /\ one[1] = Text(t) /\ DOMAIN one = 1..1
  BY Consts DEF Text, Cell
<1>2. Toks(one) = <<t>>
  <2>1. Toks(one) \in Seq(Tok) /\ Len(Toks(one)) = 1 /\ Toks(one)[1] = one[1].tok
    <3> HIDE DEF one
    <3>1. 1 \in 1..Len(one)
      BY <1>1
    <3> QED
      BY <1>1, <3>1, ToksType
  <2>2. one[1].tok = t
    BY DEF Text
  <2> HIDE DEF one
  <2>3. <<t>> \in Seq(Tok) /\ Len(<<t>>) = 1 /\ <<t>>[1] = t
    OBVIOUS
  <2> QED
    BY <2>1, <2>2, <2>3, SeqEqual
<1>3. Append(conv, Text(t)) = conv \o one
  BY <1>1
<1>4. Plainly(one)
  BY <1>1 DEF Plainly, Text
<1> HIDE DEF one
<1>5. conv \o one \in Seq(Cell) /\ Toks(conv \o one) = Toks(conv) \o Toks(one)
  BY <1>1, ToksConcat
<1>6. Plainly(conv) => Plainly(conv \o one)
  BY <1>1, <1>4, PlainConcat
<1> QED
  BY <1>2, <1>3, <1>5, <1>6

LEMMA WithOverridesOK ==
    ASSUME NEW rt, NEW w \in BOOLEAN, NEW x \in BOOLEAN, RtOK(rt, w, x), NEW r \in Threads,
           NEW cells \in Seq(Cell), x => Plainly(cells)
    PROVE  LET d == WithOverrides(r, rt, cells)
           IN  RtOK(d, w, x) /\ d.toks = rt.toks /\ d.rows = rt.rows
<1> DEFINE d == WithOverrides(r, rt, cells)
           e == set_embd_overrides(rt, cells)
<1>1. d = e \/ d = rt
  BY DEF WithOverrides
<1>2. RtOK(e, w, x) /\ e.toks = rt.toks /\ e.rows = rt.rows
  BY OverridesOK
<1> HIDE DEF d, e
<1> QED
  BY <1>1, <1>2 DEF d

(* A request that yields keeps what it needs to come back. *)
LEMMA PauseIs ==
    ASSUME NEW x \in BOOLEAN, NEW s, ReqOK(s, x), NEW c, NEW w \in BOOLEAN, CacheOK(c, w, x)
    PROVE  LET v == Pause(s, c)
           IN  /\ ReqOK(v, x)
               /\ v.pc = "paused" /\ v.started = s.started /\ v.tail = s.tail /\ v.conv = s.conv
               /\ v.my_toks = c.rt.toks
<1> DEFINE toks == c.rt.toks
           imgs == c.imgs
           v == Pause(s, c)
           z == [pc |-> "paused", started |-> s.started, tail |-> s.tail, conv |-> s.conv,
                 my_toks |-> toks, my_imgs |-> imgs, generated |-> s.generated,
                 slice |-> s.slice, cut |-> s.cut, reason |-> s.reason]
<1>1. RtOK(c.rt, w, x) /\ (x => imgs = <<>>)
  BY CacheFields
<1>2. toks \in Seq(Tok) /\ Len(toks) <= NCtx
  BY <1>1, RtToks
<1>3. v = [s EXCEPT !.pc = "paused", !.my_toks = toks, !.my_imgs = imgs]
  BY DEF Pause
<1>4. /\ s.started \in BOOLEAN /\ s.tail \in Seq(Cell) /\ s.conv \in Seq(Cell)
      /\ s.generated \in Nat /\ "paused" \in PCs
      /\ x => Plainly(s.tail) /\ Plainly(s.conv)
  BY ReqFields DEF PCs
<1> HIDE DEF toks, imgs, v
<1>5. ReqOK(z, x)
  BY ZenonT(60), <1>1, <1>2, <1>4, ReqMake
<1>6. v = z
  <2>1. s = [pc |-> s.pc, started |-> s.started, tail |-> s.tail, conv |-> s.conv,
             my_toks |-> s.my_toks, my_imgs |-> s.my_imgs, generated |-> s.generated,
             slice |-> s.slice, cut |-> s.cut, reason |-> s.reason]
    BY ReqFields
  <2> QED
    BY <1>3, <2>1, Zenon
<1>7. /\ z.pc = "paused" /\ z.started = s.started /\ z.tail = s.tail /\ z.conv = s.conv
      /\ z.my_toks = toks
  OBVIOUS
<1> HIDE DEF z
<1> QED
  BY <1>5, <1>6, <1>7 DEF v, toks

LEMMA TailIs ==
    ASSUME NEW x \in BOOLEAN, NEW s, ReqOK(s, x), NEW tail \in Seq(Cell),
           x => Plainly(tail)
    PROVE  LET v == [s EXCEPT !.tail = tail]
           IN  /\ ReqOK(v, x)
               /\ v.pc = s.pc /\ v.started = s.started /\ v.tail = tail /\ v.conv = s.conv
<1> DEFINE z == [pc |-> s.pc, started |-> s.started, tail |-> tail, conv |-> s.conv,
                 my_toks |-> s.my_toks, my_imgs |-> s.my_imgs, generated |-> s.generated,
                 slice |-> s.slice, cut |-> s.cut, reason |-> s.reason]
           v == [s EXCEPT !.tail = tail]
<1>1. /\ s.started \in BOOLEAN /\ s.conv \in Seq(Cell) /\ s.pc \in PCs
      /\ s.my_toks \in Seq(Tok) /\ Len(s.my_toks) <= NCtx /\ s.generated \in Nat
      /\ x => Plainly(s.conv) /\ s.my_imgs = <<>>
  BY ReqFields
<1>2. s = [pc |-> s.pc, started |-> s.started, tail |-> s.tail, conv |-> s.conv,
           my_toks |-> s.my_toks, my_imgs |-> s.my_imgs, generated |-> s.generated,
           slice |-> s.slice, cut |-> s.cut, reason |-> s.reason]
  BY ReqFields
<1>3. ReqOK(z, x)
  BY ZenonT(60), <1>1, ReqMake
<1>4. v = [s EXCEPT !.tail = tail]
  OBVIOUS
<1> HIDE DEF v
<1>5. v = z
  BY <1>2, <1>4, Zenon
<1>6. z.pc = s.pc /\ z.started = s.started /\ z.tail = tail /\ z.conv = s.conv
  OBVIOUS
<1> HIDE DEF z
<1> QED
  BY <1>3, <1>5, <1>6 DEF v

LEMMA PrefillStep ==
    ASSUME NEW w \in BOOLEAN, NEW x \in BOOLEAN, NEW o \in BOOLEAN, Inv(w, x, o),
           NEW r \in Threads, Prefill(r)
    PROVE  Inv(w, x, o)'
<1> DEFINE s == st[r]
           n == PrefillLen(r)
           now == Prefix(s.tail, n)
           rest == SubSeq(s.tail, n + 1, Len(s.tail))
           rt == cache.rt
           d == WithOverrides(r, rt, now)
           e == Decode(d, Toks(now))
           f == Snapshot(e)
           c == [cache EXCEPT !.rt = f]
<1>1. /\ Base(w, x) /\ CacheOK(cache, w, x) /\ RtOK(rt, w, x) /\ ReqOK(s, x)
      /\ faults \in 0..MaxFaults
  BY BaseFields DEF Inv
<1>2. /\ owner = r /\ s.pc = "prefill" /\ ~Overflows(rt, now) /\ faults' = faults
      /\ cache' = c
      /\ \/ /\ Streaming(r) /\ Leave(r)
            /\ st' = [st EXCEPT ![r] = Pause([s EXCEPT !.tail = rest], c)]
         \/ /\ st' = [st EXCEPT ![r].tail = rest,
                                ![r].pc = IF rest = <<>> THEN "gen" ELSE "prefill"]
            /\ UNCHANGED lockvars
  BY DEF Prefill, Holds, At
<1>3. s.tail \in Seq(Cell) /\ (x => Plainly(s.tail))
  BY <1>1, ReqFields
<1>4. n \in 0..Len(s.tail)
  BY <1>1, PrefillLenIs
<1> HIDE DEF s, n
<1>5. /\ now \in Seq(Cell) /\ rest \in Seq(Cell)
      /\ Toks(s.tail) = Toks(now) \o Toks(rest)
      /\ x => Plainly(now) /\ Plainly(rest)
  <2> DEFINE tail == s.tail
  <2> HIDE DEF tail
  <2>1. tail \in Seq(Cell) /\ n \in 0..Len(tail)
    BY <1>3, <1>4 DEF tail
  <2>2. /\ Prefix(tail, n) \in Seq(Cell) /\ SubSeq(tail, n + 1, Len(tail)) \in Seq(Cell)
        /\ Toks(tail) = Toks(Prefix(tail, n)) \o Toks(SubSeq(tail, n + 1, Len(tail)))
        /\ Plainly(tail) => Plainly(Prefix(tail, n)) /\ Plainly(SubSeq(tail, n + 1, Len(tail)))
    BY <2>1, TwoParts
  <2> QED
    BY <1>3, <2>2 DEF tail
<1>6. Len(rt.rows) + Len(now) <= NCtx
  <2>1. Len(rt.rows) \in Nat
    BY <1>1, RtToks
  <2>2. Len(now) \in Nat
    BY <1>5
  <2>3. ~(Len(rt.rows) + Len(now) > NCtx)
    BY <1>2 DEF Overflows, n_past
  <2> HIDE DEF rt, now
  <2> QED
    BY <2>1, <2>2, <2>3, Consts
<1> HIDE DEF now, rest, rt
<1>7. RtOK(d, w, x) /\ d.toks = rt.toks /\ d.rows = rt.rows
  BY <1>1, <1>5, WithOverridesOK
<1>8. Toks(now) \in Seq(Tok) /\ Len(Toks(now)) = Len(now) /\ Toks(rest) \in Seq(Tok)
  BY <1>5, ToksType
<1> HIDE DEF d
<1>9. RtOK(e, w, x) /\ e.toks = rt.toks \o Toks(now)
  <2> DEFINE toks == Toks(now)
  <2> HIDE DEF toks
  <2>1. toks \in Seq(Tok) /\ Len(d.rows) + Len(toks) <= NCtx /\ toks = Toks(now)
    BY <1>6, <1>7, <1>8 DEF toks
  <2>2. RtOK(Decode(d, toks), w, x) /\ Decode(d, toks).toks = d.toks \o toks
    BY ZenonT(60), <1>7, <2>1, DecodeOK
  <2> QED
    BY <1>7, <2>1, <2>2
<1> HIDE DEF e
<1>10. RtOK(f, w, x) /\ f.toks = rt.toks \o Toks(now)
  BY <1>9, SnapshotOK
<1> HIDE DEF f
<1>11. CacheOK(c, w, x) /\ c.rt = f /\ c.owner = cache.owner
  BY <1>1, <1>10, CacheRt
<1> HIDE DEF c
<1>12. ASSUME o
       PROVE  /\ cache.owner = Sid(r) /\ s.started
              /\ TextOfToks(c.rt.toks) \o TextOfToks(Toks(rest)) = Said(s)
  <2>1. Live(r) /\ Stage(r)
    BY <1>12 DEF Inv, Own
  <2>2. cache.owner = Sid(r) /\ TextOfToks(rt.toks) \o TextOfToks(Toks(s.tail)) = Said(s) /\ s.started
    BY <1>2, <2>1 DEF Live, Stage, Holds, Left, s, rt
  <2>3. rt.toks \in Seq(Tok)
    BY <1>1, RtToks
  <2> DEFINE k == rt.toks
             a == Toks(now)
             b == Toks(rest)
  <2>4. k \in Seq(Tok) /\ a \in Seq(Tok) /\ b \in Seq(Tok)
    BY <1>8, <2>3
  <2>5. c.rt.toks = k \o a /\ Toks(s.tail) = a \o b
    BY <1>5, <1>10, <1>11
  <2>6. TextOfToks(k) \o TextOfToks(a \o b) = Said(s)
    BY <1>5, <2>2
  <2> HIDE DEF k, a, b
  <2>7. TextOfToks(k \o a) \o TextOfToks(b) = TextOfToks(k) \o TextOfToks(a \o b)
    BY <2>4, ReadMore
  <2>8. TextOfToks(c.rt.toks) \o TextOfToks(b) = Said(s)
    BY <2>5, <2>6, <2>7
  <2> QED
    BY <2>2, <2>8 DEF b
<1>13. o => cache'.owner \in {r, 0}
  BY <1>2, <1>11, <1>12, SidIs
<1>14. CacheOK(cache', w, x) /\ faults' \in 0..MaxFaults
  BY <1>1, <1>2, <1>11
<1>15. CASE /\ Streaming(r) /\ Leave(r)
            /\ st' = [st EXCEPT ![r] = Pause([s EXCEPT !.tail = rest], c)]
  <2> DEFINE u == [s EXCEPT !.tail = rest]
             v == Pause(u, c)
  <2>1. ReqOK(u, x) /\ u.started = s.started /\ u.tail = rest /\ u.conv = s.conv
    BY ZenonT(60), <1>1, <1>5, TailIs
  <2> HIDE DEF u
  <2>2. /\ ReqOK(v, x)
        /\ v.pc = "paused" /\ v.started = s.started /\ v.tail = rest /\ v.conv = s.conv
        /\ v.my_toks = c.rt.toks
    BY <1>11, <2>1, PauseIs
  <2>3. st' = [st EXCEPT ![r] = v]
    BY <1>15 DEF u
  <2> HIDE DEF v
  <2>4. owner' = NoThread
    BY <1>15 DEF Leave
  <2>5. ASSUME o, st'[r] = v PROVE Live(r)' /\ Parked(r)' /\ Stage(r)'
    <3>1. Live(r)'
      BY <2>2, <2>5 DEF Live
    <3>2. Parked(r)'
      BY <1>2, <1>12, <1>15, <2>2, <2>5 DEF Parked, Left, Said, Streaming
    <3>3. Stage(r)'
      BY <1>12, <1>15, <2>2, <2>5 DEF Stage, Streaming
    <3> QED
      BY <3>1, <3>2, <3>3
  <2>6. Leave(r) /\ owner = r
    BY <1>2, <1>15
  <2> QED
    BY <1>13, <1>14, <2>2, <2>3, <2>4, <2>5, <2>6, HeldStep
<1>16. CASE /\ st' = [st EXCEPT ![r].tail = rest,
                                ![r].pc = IF rest = <<>> THEN "gen" ELSE "prefill"]
            /\ UNCHANGED lockvars
  <2> DEFINE pc == IF rest = <<>> THEN "gen" ELSE "prefill"
             u == [s EXCEPT !.tail = rest]
             v == [u EXCEPT !.pc = pc]
  <2>1. pc \in PCs /\ pc \in {"prefill", "gen"} /\ (pc = "gen" => rest = <<>>)
    BY DEF PCs
  <2>2. st' = [st EXCEPT ![r] = v]
    BY <1>16 DEF s
  <2> HIDE DEF pc
  <2>3. /\ ReqOK(v, x)
        /\ v.pc = pc /\ v.started = s.started /\ v.tail = rest /\ v.conv = s.conv
    <3>1. ReqOK(u, x) /\ u.started = s.started /\ u.tail = rest /\ u.conv = s.conv
      BY ZenonT(60), <1>1, <1>5, TailIs
    <3> HIDE DEF u
    <3>2. ReqOK(v, x) /\ v.pc = pc /\ v.started = u.started /\ v.tail = u.tail /\ v.conv = u.conv
      BY <2>1, <3>1, PcIs
    <3> QED
      BY <3>1, <3>2
  <2> HIDE DEF v
  <2>4. owner' = r
    BY <1>2, <1>16 DEF lockvars
  <2>5. ASSUME o, st'[r] = v PROVE Live(r)' /\ Parked(r)' /\ Stage(r)'
    <3>1. Live(r)'
      BY <1>2, <1>11, <1>12, <2>1, <2>3, <2>5 DEF Live, Left, Said, Sid, Streaming
    <3>2. Parked(r)'
      BY <2>1, <2>3, <2>5 DEF Parked
    <3>3. Stage(r)'
      BY <1>12, <2>1, <2>3, <2>4, <2>5 DEF Stage, Holds
    <3> QED
      BY <3>1, <3>2, <3>3
  <2> QED
    BY <1>2, <1>13, <1>14, <1>16, <2>2, <2>3, <2>4, <2>5, HeldStep
<1> QED
  BY <1>2, <1>15, <1>16

LEMMA GenerateStep ==
    ASSUME NEW w \in BOOLEAN, NEW x \in BOOLEAN, NEW o \in BOOLEAN, Inv(w, x, o),
           NEW r \in Threads, Generate(r)
    PROVE  Inv(w, x, o)'
<1> DEFINE s == st[r]
           used == IF s.slice < TimeSlice THEN s.slice + 1 ELSE TimeSlice
           rt == cache.rt
<1>1. PICK t \in GenToks :
        LET c == [cache EXCEPT !.rt = Decode(@, <<t>>)]
            u == [st[r] EXCEPT !.conv = Append(@, Text(t)), !.generated = @ + 1, !.slice = used]
        IN  /\ cache' = c
            /\ IF Streaming(r) /\ TimeSlice > 0 /\ used >= TimeSlice /\ yieldable
               THEN st' = [st EXCEPT ![r] = Pause(u, c)] /\ Leave(r)
               ELSE st' = [st EXCEPT ![r] = u] /\ UNCHANGED lockvars
  BY DEF Generate
<1> DEFINE e == Decode(rt, <<t>>)
           c == [cache EXCEPT !.rt = e]
           conv == Append(s.conv, Text(t))
           gen == s.generated + 1
           u == [s EXCEPT !.conv = conv, !.generated = gen, !.slice = used]
           z == [pc |-> s.pc, started |-> s.started, tail |-> s.tail, conv |-> conv,
                 my_toks |-> s.my_toks, my_imgs |-> s.my_imgs, generated |-> gen,
                 slice |-> used, cut |-> s.cut, reason |-> s.reason]
<1>2. cache' = c /\ (\/ Streaming(r) /\ st' = [st EXCEPT ![r] = Pause(u, c)] /\ Leave(r)
                     \/ st' = [st EXCEPT ![r] = u] /\ UNCHANGED lockvars)
  BY <1>1
<1>3. owner = r /\ s.pc = "gen" /\ ~(n_past(rt) + 1 >= NCtx) /\ faults' = faults
  BY DEF Generate, Holds, At, AtLimit
<1>4. /\ CacheOK(cache, w, x) /\ RtOK(rt, w, x) /\ ReqOK(s, x) /\ faults \in 0..MaxFaults
  BY BaseFields DEF Inv
<1>5. /\ s = [pc |-> s.pc, started |-> s.started, tail |-> s.tail, conv |-> s.conv,
              my_toks |-> s.my_toks, my_imgs |-> s.my_imgs, generated |-> s.generated,
              slice |-> s.slice, cut |-> s.cut, reason |-> s.reason]
      /\ s.pc \in PCs /\ s.started \in BOOLEAN /\ s.tail \in Seq(Cell) /\ s.conv \in Seq(Cell)
      /\ s.my_toks \in Seq(Tok) /\ Len(s.my_toks) <= NCtx /\ s.generated \in Nat
      /\ x => Plainly(s.tail) /\ Plainly(s.conv) /\ s.my_imgs = <<>>
  BY <1>4, ReqFields
<1>6. t \in Tok
  BY ServerAssumption DEF Tok
<1> HIDE DEF s, rt
<1>7. conv \in Seq(Cell) /\ Toks(conv) = Toks(s.conv) \o <<t>> /\ (x => Plainly(conv))
  BY <1>5, <1>6, SayMore
<1>8. gen \in Nat
  BY <1>5
<1> HIDE DEF conv, gen, used
<1>9. ReqOK(z, x)
  BY ZenonT(60), <1>5, <1>7, <1>8, ReqMake
<1>10. u = z
  <2>1. u = [s EXCEPT !.conv = conv, !.generated = gen, !.slice = used]
    OBVIOUS
  <2>2. s = [pc |-> s.pc, started |-> s.started, tail |-> s.tail, conv |-> s.conv,
             my_toks |-> s.my_toks, my_imgs |-> s.my_imgs, generated |-> s.generated,
             slice |-> s.slice, cut |-> s.cut, reason |-> s.reason]
    BY <1>5
  <2> HIDE DEF u
  <2> QED
    BY <2>1, <2>2, Zenon
<1>11. z.pc = s.pc /\ z.started = s.started /\ z.tail = s.tail /\ z.conv = conv
  OBVIOUS
<1> HIDE DEF u, z
<1>12. ReqOK(u, x) /\ u.pc = s.pc /\ u.started = s.started /\ u.tail = s.tail /\ u.conv = conv
  BY <1>9, <1>10, <1>11
<1>13. RtOK(e, w, x) /\ e.toks = rt.toks \o <<t>>
  <2> DEFINE one == <<t>>
  <2>1. one \in Seq(Tok) /\ Len(one) = 1
    BY <1>6
  <2>2. Len(rt.rows) \in Nat
    BY <1>4, RtToks
  <2>3. Len(rt.rows) + Len(one) <= NCtx
    BY <1>3, <2>1, <2>2, Consts DEF n_past
  <2> HIDE DEF one
  <2>4. RtOK(Decode(rt, one), w, x) /\ Decode(rt, one).toks = rt.toks \o one
    BY <1>4, <2>1, <2>3, DecodeOK
  <2> QED
    BY <2>4 DEF one
<1> HIDE DEF e
<1>14. CacheOK(c, w, x) /\ c.rt = e /\ c.owner = cache.owner
  BY <1>4, <1>13, CacheRt
<1> HIDE DEF c
<1>15. ASSUME o
       PROVE  /\ cache.owner = Sid(r) /\ s.started /\ s.tail = <<>>
              /\ TextOfToks(c.rt.toks) \o TextOfToks(Toks(s.tail)) = TextOfToks(Toks(conv))
  <2>1. Live(r) /\ Stage(r)
    BY <1>15 DEF Inv, Own
  <2>2. /\ cache.owner = Sid(r) /\ TextOfToks(rt.toks) \o TextOfToks(Toks(s.tail)) = TextOfToks(Toks(s.conv))
        /\ s.started /\ s.tail = <<>>
    BY <1>3, <2>1 DEF Live, Stage, Holds, Left, Said, s, rt
  <2> DEFINE k == rt.toks
             a == <<t>>
             b == Toks(s.tail)
             v == Toks(s.conv)
  <2>3. k \in Seq(Tok) /\ a \in Seq(Tok) /\ v \in Seq(Tok) /\ b = <<>>
    <3>1. k \in Seq(Tok)
      BY <1>4, RtToks
    <3>2. v \in Seq(Tok)
      BY <1>5, ToksType
    <3>3. b = <<>>
      BY <2>2 DEF Toks
    <3> QED
      BY <1>6, <3>1, <3>2, <3>3
  <2>4. c.rt.toks = k \o a /\ Toks(conv) = v \o a
    BY <1>7, <1>13, <1>14
  <2>5. TextOfToks(k) \o TextOfToks(b) = TextOfToks(v)
    BY <2>2
  <2> HIDE DEF k, a, b, v
  <2>6. TextOfToks(<<>>) = <<>>
    BY FlattenEmpty DEF TextOfToks
  <2>7. TextOfToks(k) \in Seq(Chars) /\ TextOfToks(a) \in Seq(Chars)
    BY <2>3, TextType
  <2>8. TextOfToks(k) = TextOfToks(v)
    BY <2>3, <2>5, <2>6, <2>7
  <2>9. TextOfToks(k \o a) = TextOfToks(k) \o TextOfToks(a) /\ TextOfToks(v \o a) = TextOfToks(v) \o TextOfToks(a)
    BY <2>3, TextConcat
  <2>10. TextOfToks(k \o a) = TextOfToks(v \o a)
    BY <2>8, <2>9
  <2> DEFINE y == TextOfToks(k \o a)
  <2>11. y \in Seq(Chars)
    <3>1. k \o a \in Seq(Tok)
      BY <2>3
    <3> QED
      BY <3>1, TextType
  <2> HIDE DEF y
  <2>12. y \o <<>> = y
    BY <2>11
  <2> QED
    BY <2>2, <2>3, <2>4, <2>6, <2>10, <2>12 DEF b, y
<1>16. o => cache'.owner \in {r, 0}
  BY <1>2, <1>14, <1>15, SidIs
<1>17. CacheOK(cache', w, x) /\ faults' \in 0..MaxFaults
  BY <1>2, <1>3, <1>4, <1>14
<1>18. CASE Streaming(r) /\ st' = [st EXCEPT ![r] = Pause(u, c)] /\ Leave(r)
  <2> DEFINE v == Pause(u, c)
  <2>1. /\ ReqOK(v, x)
        /\ v.pc = "paused" /\ v.started = s.started /\ v.tail = s.tail /\ v.conv = conv
        /\ v.my_toks = c.rt.toks
    BY <1>12, <1>14, PauseIs
  <2>2. st' = [st EXCEPT ![r] = v]
    BY <1>18
  <2> HIDE DEF v
  <2>3. owner' = NoThread
    BY <1>18 DEF Leave
  <2>4. ASSUME o, st'[r] = v PROVE Live(r)' /\ Parked(r)' /\ Stage(r)'
    <3>1. Live(r)'
      BY <2>1, <2>4 DEF Live
    <3>2. Parked(r)'
      BY <1>2, <1>15, <1>18, <2>1, <2>4 DEF Parked, Left, Said, Streaming
    <3>3. Stage(r)'
      BY <1>15, <1>18, <2>1, <2>4 DEF Stage, Streaming
    <3> QED
      BY <3>1, <3>2, <3>3
  <2>5. Leave(r) /\ owner = r
    BY <1>3, <1>18
  <2> QED
    BY <1>16, <1>17, <2>1, <2>2, <2>3, <2>4, <2>5, HeldStep
<1>19. CASE st' = [st EXCEPT ![r] = u] /\ UNCHANGED lockvars
  <2>1. owner' = r
    BY <1>3, <1>19 DEF lockvars
  <2>2. ASSUME o, st'[r] = u PROVE Live(r)' /\ Parked(r)' /\ Stage(r)'
    <3>1. Live(r)'
      BY <1>2, <1>3, <1>12, <1>14, <1>15, <2>2 DEF Live, Left, Said, Sid, Streaming
    <3>2. Parked(r)'
      BY <1>3, <1>12, <2>2 DEF Parked
    <3>3. Stage(r)'
      BY <1>3, <1>12, <1>15, <2>1, <2>2 DEF Stage, Holds
    <3> QED
      BY <3>1, <3>2, <3>3
  <2> QED
    BY <1>3, <1>12, <1>16, <1>17, <1>19, <2>1, <2>2, HeldStep
<1> QED
  BY <1>2, <1>18, <1>19

-----------------------------------------------------------------------------
(* Failures *)

LEMMA BrokenOK ==
    ASSUME NEW w \in BOOLEAN, NEW x \in BOOLEAN, Base(w, x), NEW r \in Threads, NEW rt \in Broken(r)
    PROVE  RtOK(rt, FALSE, x) /\ (faults' = faults => RtOK(rt, w, x))
<1> DEFINE s == st[r]
           n == PrefillLen(r)
           now == Prefix(s.tail, n)
           a == WithOverrides(r, cache.rt, now)
           b == IF At(r, "prefill") THEN a ELSE cache.rt
           h == HalfDone([b EXCEPT !.ovr = <<>>])
<1>1. RtOK(cache.rt, w, x) /\ ReqOK(s, x)
  BY BaseFields
<1>2. rt \in IF faults' = faults THEN {b} ELSE {b, h}
  BY DEF Broken
<1>3. s.tail \in Seq(Cell) /\ (x => Plainly(s.tail)) /\ n \in 0..Len(s.tail)
  BY <1>1, ReqFields, PrefillLenIs
<1> HIDE DEF n, s
<1>4. now \in Seq(Cell) /\ (x => Plainly(now))
  <2> DEFINE tail == s.tail
  <2> HIDE DEF tail
  <2>1. tail \in Seq(Cell) /\ n \in 0..Len(tail) /\ (x => Plainly(tail))
    BY <1>3 DEF tail
  <2>2. Prefix(tail, n) \in Seq(Cell) /\ (x => Plainly(Prefix(tail, n)))
    BY <2>1, PrefixElems, PlainPrefix
  <2> QED
    BY <2>2 DEF tail
<1> HIDE DEF now
<1>5. RtOK(a, w, x)
  BY <1>1, <1>4, WithOverridesOK
<1> HIDE DEF a
<1>6. RtOK(b, w, x)
  BY <1>1, <1>5
<1> HIDE DEF b
<1>7. RtOK(h, FALSE, x)
  BY <1>6, HalfDoneOK
<1>8. RtOK(b, FALSE, x)
  BY <1>6 DEF RtOK
<1> HIDE DEF h
<1> QED
  BY <1>2, <1>6, <1>7, <1>8

LEMMA ThrowsFaults ==
    ASSUME NEW w, NEW x, Base(w, x), NEW r \in Threads, Throws(r)
    PROVE  faults' \in 0..MaxFaults /\ owner = r
<1>1. faults \in 0..MaxFaults /\ MaxFaults \in Nat
  BY BaseFields
<1> QED
  BY <1>1 DEF Throws, Holds

LEMMA FailedIs ==
    ASSUME NEW x \in BOOLEAN, NEW r \in Threads, ReqOK(st[r], x), NEW pc \in PCs
    PROVE  ReqOK(Failed(r, pc), x) /\ Failed(r, pc).pc = pc
<1> DEFINE s == st[r]
           sent == s.generated + (IF At(r, "gen") THEN 1 ELSE 0)
           cut == sent >= Body[r].max
           v == Failed(r, pc)
           z == [pc |-> pc, started |-> s.started, tail |-> s.tail, conv |-> s.conv,
                 my_toks |-> s.my_toks, my_imgs |-> s.my_imgs, generated |-> sent,
                 slice |-> s.slice, cut |-> cut, reason |-> s.reason]
<1>1. v = [s EXCEPT !.pc = pc, !.generated = sent, !.cut = cut]
  BY DEF Failed
<1>2. /\ s = [pc |-> s.pc, started |-> s.started, tail |-> s.tail, conv |-> s.conv,
              my_toks |-> s.my_toks, my_imgs |-> s.my_imgs, generated |-> s.generated,
              slice |-> s.slice, cut |-> s.cut, reason |-> s.reason]
      /\ s.started \in BOOLEAN /\ s.tail \in Seq(Cell) /\ s.conv \in Seq(Cell)
      /\ s.my_toks \in Seq(Tok) /\ Len(s.my_toks) <= NCtx /\ s.generated \in Nat
      /\ x => Plainly(s.tail) /\ Plainly(s.conv) /\ s.my_imgs = <<>>
  BY ReqFields
<1>3. sent \in Nat
  BY <1>2
<1> HIDE DEF s, sent, cut, v
<1>4. ReqOK(z, x)
  BY ZenonT(60), <1>2, <1>3, ReqMake
<1>5. v = z
  <2>1. s = [pc |-> s.pc, started |-> s.started, tail |-> s.tail, conv |-> s.conv,
             my_toks |-> s.my_toks, my_imgs |-> s.my_imgs, generated |-> s.generated,
             slice |-> s.slice, cut |-> s.cut, reason |-> s.reason]
    BY <1>2
  <2> QED
    BY <1>1, <2>1, Zenon
<1>6. z.pc = pc
  OBVIOUS
<1> HIDE DEF z
<1> QED
  BY <1>4, <1>5, <1>6 DEF v

LEMMA StreamErrorStep ==
    ASSUME NEW w \in BOOLEAN, NEW x \in BOOLEAN, NEW o \in BOOLEAN, Inv(w, x, o),
           NEW r \in Threads, StreamError(r)
    PROVE  Inv(w, x, o)'
<1>1. Base(w, x) /\ CacheOK(cache, w, x) /\ ReqOK(st[r], x)
  BY BaseFields DEF Inv
<1>2. /\ Throws(r) /\ Leave(r)
      /\ st' = [st EXCEPT ![r] = Failed(r, "ended")]
  BY DEF StreamError
<1>3. PICK rt \in Broken(r) : cache' = [cache EXCEPT !.rt = Reset(rt), !.owner = 0]
  BY DEF StreamError, Dropped
<1> DEFINE d == Reset(rt)
           c == cache
           z == [rt |-> d, imgs |-> c.imgs, slots |-> c.slots, lru |-> c.lru,
                 origin |-> c.origin, owner |-> 0]
           C == [c EXCEPT !.rt = d, !.owner = 0]
           v == Failed(r, "ended")
<1>4. RtOK(rt, FALSE, x)
  BY <1>1, BrokenOK
<1>5. RtOK(d, w, x)
  BY <1>4, ResetOK
<1>6. cache' = C /\ CacheOK(c, w, x)
  BY <1>1, <1>3
<1> HIDE DEF d, c
<1>7. /\ c = [rt |-> c.rt, imgs |-> c.imgs, slots |-> c.slots, lru |-> c.lru,
              origin |-> c.origin, owner |-> c.owner]
      /\ (x => c.imgs = <<>>)
      /\ c.slots = [t \in Slots |-> c.slots[t]]
      /\ \A t \in Slots : SlotOK(c.slots[t], w, x)
      /\ c.lru \in [Slots -> Nat] /\ c.origin \in 0..NSlots
  BY <1>6, CacheFields
<1>8. C = z
  <2>1. C = [c EXCEPT !.rt = d, !.owner = 0]
    OBVIOUS
  <2>2. c = [rt |-> c.rt, imgs |-> c.imgs, slots |-> c.slots, lru |-> c.lru,
             origin |-> c.origin, owner |-> c.owner]
    BY <1>7
  <2> HIDE DEF C
  <2> QED
    BY <2>1, <2>2, Zenon
<1>9. CacheOK(z, w, x)
  BY <1>5, <1>7, CacheMake
<1>10. z.owner = 0
  OBVIOUS
<1> HIDE DEF z, C
<1>11. CacheOK(cache', w, x) /\ cache'.owner = 0
  BY <1>6, <1>8, <1>9, <1>10
<1>12. "ended" \in PCs
  BY DEF PCs
<1>13. ReqOK(v, x) /\ v.pc = "ended" /\ st' = [st EXCEPT ![r] = v]
  BY <1>1, <1>2, <1>12, FailedIs
<1> HIDE DEF v
<1>14. faults' \in 0..MaxFaults /\ owner = r /\ owner' = NoThread
  BY <1>1, <1>2, ThrowsFaults DEF Leave
<1>15. ASSUME o, st'[r] = v PROVE Live(r)' /\ Parked(r)' /\ Stage(r)'
  BY <1>13, <1>15, EndedFine
<1> QED
  BY ZenonT(60), <1>2, <1>11, <1>13, <1>14, <1>15, HeldStep

(* What the catch block leaves of a cache in order is in order. *)
LEMMA DroppedOK ==
    ASSUME NEW v \in BOOLEAN, NEW w \in BOOLEAN, NEW x \in BOOLEAN, NEW c, CacheOK(c, w, x),
           NEW rt, RtOK(rt, v, x)
    PROVE  /\ CacheOK(Dropped(c, rt), w, x) /\ Dropped(c, rt).owner = 0
           /\ Dropped(c, rt).rt = Reset(rt) /\ Dropped(c, rt).slots = c.slots
           /\ Dropped(c, rt).origin = c.origin
<1> DEFINE d == Reset(rt)
           k == Dropped(c, rt)
           z == [rt |-> d, imgs |-> c.imgs, slots |-> c.slots, lru |-> c.lru,
                 origin |-> c.origin, owner |-> 0]
<1>1. k = [c EXCEPT !.rt = d, !.owner = 0]
  BY DEF Dropped
<1>2. RtOK(d, w, x)
  BY ResetOK
<1> HIDE DEF d, k
<1>3. /\ c = [rt |-> c.rt, imgs |-> c.imgs, slots |-> c.slots, lru |-> c.lru,
              origin |-> c.origin, owner |-> c.owner]
      /\ (x => c.imgs = <<>>)
      /\ c.slots = [t \in Slots |-> c.slots[t]]
      /\ \A t \in Slots : SlotOK(c.slots[t], w, x)
      /\ c.lru \in [Slots -> Nat] /\ c.origin \in 0..NSlots
  BY CacheFields
<1>4. k = z
  BY <1>1, <1>3, Zenon
<1>5. CacheOK(z, w, x)
  BY <1>2, <1>3, CacheMake
<1>6. z.owner = 0 /\ z.rt = d /\ z.slots = c.slots /\ z.origin = c.origin
  OBVIOUS
<1> HIDE DEF z
<1>7. CacheOK(k, w, x) /\ k.owner = 0 /\ k.rt = d /\ k.slots = c.slots /\ k.origin = c.origin
  BY <1>4, <1>5, <1>6
<1> QED
  BY <1>7 DEF k, d

(* The lock is passed on by a request that had it or whose turn it was. *)
LEMMA PassLockIs ==
    ASSUME NEW r \in Threads, PassLock(r)
    PROVE  owner \in {r, NoThread} /\ owner' = NoThread
BY DEF PassLock, Leave

(* What ensure_state() returned to request r. *)
Ensured(e, r) ==
    \E io \in IO : e = ensure_state(cache, Sid(r), st[r].my_toks, st[r].my_imgs, HadImages(r), io)

LEMMA EnsuredOK ==
    ASSUME NEW w \in BOOLEAN, NEW x \in BOOLEAN, Base(w, x), NEW r \in Threads,
           NEW e, Ensured(e, r)
    PROVE  CacheOK(e.c, w, x)
<1> DEFINE my_toks == st[r].my_toks
           my_imgs == st[r].my_imgs
           sid == Sid(r)
           had == HadImages(r)
<1>1. PICK io \in IO : e = ensure_state(cache, sid, my_toks, my_imgs, had, io)
  BY DEF Ensured
<1>2. CacheOK(cache, w, x) /\ ReqOK(st[r], x)
  BY BaseFields
<1>3. sid \in Threads \cup {0} /\ had \in BOOLEAN
  BY SidIs DEF HadImages
<1>4. my_toks \in Seq(Tok) /\ (x => my_imgs = <<>>)
  BY <1>2, ReqFields
<1> HIDE DEF my_toks, my_imgs, sid, had
<1> DEFINE g == ensure_state(cache, sid, my_toks, my_imgs, had, io)
<1>5. \/ cache.owner = sid /\ g.c = cache /\ g.ok /\ ~g.reprefill
      \/ Regained(g, my_toks, sid, had, w, x)
  BY ZenonT(60), <1>2, <1>3, <1>4, EnsureOK
<1> HIDE DEF g
<1> QED
  BY <1>1, <1>2, <1>5 DEF g, Regained

(* The step of ResumeError. *)
LEMMA ResumeErrorIs ==
    ASSUME NEW w \in BOOLEAN, NEW x \in BOOLEAN, Base(w, x), NEW r \in Threads, ResumeError(r)
    PROVE  /\ faults' \in 0..MaxFaults
           /\ \E e : /\ Ensured(e, r) /\ e.reprefill
                     /\ CacheOK(cache', w, x) /\ cache'.owner = 0
                     /\ cache'.slots = e.c.slots /\ cache'.origin = e.c.origin
<1> DEFINE f(io) == ensure_state(cache, Sid(r), st[r].my_toks, st[r].my_imgs, HadImages(r), io)
<1>1. faults \in 0..MaxFaults /\ MaxFaults \in Nat
  BY BaseFields
<1>2. PICK io \in IO :
         /\ f(io).reprefill
         /\ faults' = faults + (IF io.save /\ io.load THEN 1 ELSE 2)
         /\ faults' <= MaxFaults
         /\ \E rt \in {f(io).c.rt, HalfDone([f(io).c.rt EXCEPT !.ovr = <<>>])} :
               cache' = Dropped(f(io).c, rt)
  BY DEF ResumeError
<1>3. faults' \in 0..MaxFaults
  BY <1>1, <1>2
<1> DEFINE e == f(io)
           h == HalfDone([e.c.rt EXCEPT !.ovr = <<>>])
<1>4. PICK rt \in {e.c.rt, h} : cache' = Dropped(e.c, rt)
  BY <1>2
<1>5. Ensured(e, r) /\ e.reprefill
  BY <1>2 DEF Ensured
<1> HIDE DEF e, f
<1>6. CacheOK(e.c, w, x)
  BY <1>5, EnsuredOK
<1>7. RtOK(e.c.rt, w, x)
  BY <1>6, CacheFields
<1>8. RtOK(h, FALSE, x)
  BY <1>7, HalfDoneOK
<1> HIDE DEF h
<1>9. /\ CacheOK(cache', w, x) /\ cache'.owner = 0
      /\ cache'.slots = e.c.slots /\ cache'.origin = e.c.origin
  <2> DEFINE c == e.c
             F == FALSE
  <2>1. CacheOK(c, w, x) /\ cache' = Dropped(c, rt) /\ F \in BOOLEAN /\ (RtOK(rt, w, x) \/ RtOK(rt, F, x))
    BY <1>4, <1>6, <1>7, <1>8
  <2> HIDE DEF c, F
  <2>2. /\ CacheOK(cache', w, x) /\ cache'.owner = 0
        /\ cache'.slots = c.slots /\ cache'.origin = c.origin
    BY <2>1, DroppedOK
  <2> QED
    BY <2>2 DEF c
<1> QED
  BY <1>3, <1>5, <1>9

LEMMA ResumeErrorStep ==
    ASSUME NEW w \in BOOLEAN, NEW x \in BOOLEAN, NEW o \in BOOLEAN, Inv(w, x, o),
           NEW r \in Threads, ResumeError(r)
    PROVE  Inv(w, x, o)'
<1>1. Base(w, x) /\ ReqOK(st[r], x)
  BY BaseFields DEF Inv
<1> DEFINE v == Failed(r, "ended")
<1>2. PassLock(r) /\ st' = [st EXCEPT ![r] = v]
  BY DEF ResumeError
<1>3. faults' \in 0..MaxFaults /\ CacheOK(cache', w, x) /\ cache'.owner = 0
  BY <1>1, ResumeErrorIs
<1>4. "ended" \in PCs
  BY DEF PCs
<1>5. ReqOK(v, x) /\ v.pc = "ended"
  BY <1>1, <1>4, FailedIs
<1> HIDE DEF v
<1>6. owner \in {r, NoThread} /\ owner' \in {r, NoThread}
  BY <1>2, PassLockIs
<1>7. ASSUME o, st'[r] = v PROVE Live(r)' /\ Parked(r)' /\ Stage(r)'
  BY <1>5, <1>7, EndedFine
<1> QED
  BY ZenonT(60), <1>2, <1>3, <1>5, <1>6, <1>7, HeldStep

(* The exception of a request without a stream: the runtime is left as the *)
(* batch left it.                                                          *)
LEMMA ErrorStep ==
    ASSUME NEW w \in BOOLEAN, NEW x \in BOOLEAN, NEW o \in BOOLEAN, Inv(w, x, o), ~o,
           NEW r \in Threads, Error(r), w => faults' = faults
    PROVE  Inv(w, x, o)'
<1>1. Base(w, x) /\ CacheOK(cache, w, x) /\ ReqOK(st[r], x)
  BY BaseFields DEF Inv
<1>2. /\ Throws(r) /\ Leave(r)
      /\ st' = [st EXCEPT ![r] = Failed(r, "unwound")]
  BY DEF Error
<1>3. PICK rt \in Broken(r) : cache' = [cache EXCEPT !.rt = rt]
  BY DEF Error
<1> DEFINE v == Failed(r, "unwound")
<1>4. RtOK(rt, w, x)
  BY <1>1, BrokenOK
<1>5. CacheOK(cache', w, x)
  BY <1>1, <1>3, <1>4, CacheRt
<1>6. "unwound" \in PCs
  BY DEF PCs
<1>7. ReqOK(v, x) /\ st' = [st EXCEPT ![r] = v]
  BY <1>1, <1>2, <1>6, FailedIs
<1> HIDE DEF v
<1>8. faults' \in 0..MaxFaults /\ owner = r /\ owner' = NoThread
  BY <1>1, <1>2, ThrowsFaults DEF Leave
<1> QED
  BY <1>2, <1>5, <1>7, <1>8, HeldStep

LEMMA NoStateOK == \A w, x \in BOOLEAN : RtOK(NoState, w, x)
<1> SUFFICES ASSUME NEW w \in BOOLEAN, NEW x \in BOOLEAN PROVE RtOK(NoState, w, x)
  OBVIOUS
<1>1. NoState \in RtType
  BY DEF NoState, RtType, Gdn
<1>2. /\ NoState.toks = <<>> /\ NoState.rows = <<>> /\ NoState.gdn = <<>> /\ NoState.pk = <<>>
      /\ NoState.ovr = <<>>
  BY DEF NoState
<1>3. Toks(<<>>) = <<>>
  BY DEF Toks
<1>4. Sorted(NoState)
  BY <1>2 DEF Sorted
<1>5. Whole(NoState)
  BY <1>2 DEF Whole
<1>6. Plainly(<<>>) /\ Len(<<>>) <= NCtx
  BY Consts DEF Plainly
<1> QED
  BY <1>1, <1>2, <1>3, <1>4, <1>5, <1>6 DEF RtOK

(* What a start finds: an empty runtime and the slots it is given. *)
LEMMA StartedOK ==
    ASSUME NEW w \in BOOLEAN, NEW x \in BOOLEAN, NEW slots,
           slots = [s \in Slots |-> slots[s]], \A s \in Slots : SlotOK(slots[s], w, x)
    PROVE  LET c == [InitCache EXCEPT !.slots = slots] IN CacheOK(c, w, x) /\ c.owner = 0
<1> DEFINE lru == [s \in Slots |-> s]
           none == [s \in Slots |-> EmptySlot]
           z == [rt |-> NoState, imgs |-> <<>>, slots |-> slots, lru |-> lru, origin |-> 0, owner |-> 0]
           c == [InitCache EXCEPT !.slots = slots]
<1>1. InitCache = [rt |-> NoState, imgs |-> <<>>, slots |-> none, lru |-> lru, origin |-> 0, owner |-> 0]
  BY DEF InitCache
<1>2. lru \in [Slots -> Nat] /\ 0 \in 0..NSlots
  BY Consts DEF Slots
<1>3. RtOK(NoState, w, x)
  BY NoStateOK
<1>4. c = [InitCache EXCEPT !.slots = slots]
  OBVIOUS
<1> HIDE DEF lru, none, c
<1>5. c = z
  BY <1>1, <1>4, Zenon
<1>6. CacheOK(z, w, x)
  BY <1>2, <1>3, CacheMake
<1>7. z.owner = 0
  OBVIOUS
<1> HIDE DEF z
<1> QED
  BY <1>5, <1>6, <1>7 DEF c

LEMMA CrashCache ==
    ASSUME NEW w \in BOOLEAN, NEW x \in BOOLEAN, Base(w, x), Crash
    PROVE  CacheOK(cache', w, x) /\ cache'.owner = 0
<1>1. CacheOK(cache, w, x) /\ RtOK(cache.rt, w, x)
  BY BaseFields
<1>2. /\ cache.slots = [s \in Slots |-> cache.slots[s]]
      /\ \A s \in Slots : SlotOK(cache.slots[s], w, x)
      /\ x => cache.imgs = <<>>
  BY <1>1, CacheFields
<1>3. CASE cache' = [InitCache EXCEPT !.slots = cache.slots]
  <2> DEFINE slots == cache.slots
  <2>1. /\ slots = [s \in Slots |-> slots[s]] /\ \A s \in Slots : SlotOK(slots[s], w, x)
        /\ cache' = [InitCache EXCEPT !.slots = slots]
    BY <1>2, <1>3
  <2> HIDE DEF slots
  <2> QED
    BY <2>1, StartedOK
<1>4. CASE \E s \in Writing, left \in {EmptySlot, Torn} :
             cache' = [InitCache EXCEPT !.slots = [cache.slots EXCEPT ![s] = left]]
  <2>1. PICK s \in Writing, left \in {EmptySlot, Torn} :
             cache' = [InitCache EXCEPT !.slots = [cache.slots EXCEPT ![s] = left]]
    BY <1>4
  <2>2. s \in Slots
    <3>1. PICK a \in Slots \cup {0} : s = SaveTarget(cache, a) /\ s # 0
      BY DEF Writing
    <3> QED
      BY <1>1, <3>1, TargetIs
  <2>3. SlotOK(EmptySlot, w, x)
    BY EmptySlotOK
  <2>4. SlotOK(Torn, w, x)
    <3> DEFINE toks == cache.rt.toks
               imgs == cache.imgs
               y == [toks |-> toks, imgs |-> imgs, blob |-> NoBlob]
    <3>1. toks \in Seq(Tok) /\ Len(toks) <= NCtx
      BY <1>1, RtToks
    <3>2. Torn = y
      BY DEF Torn
    <3>3. x => imgs = <<>>
      BY <1>2
    <3> HIDE DEF toks, imgs
    <3>4. y.toks = toks /\ y.imgs = imgs /\ y.blob = NoBlob
      OBVIOUS
    <3>5. y = [toks |-> y.toks, imgs |-> y.imgs, blob |-> y.blob]
      BY <3>4
    <3> HIDE DEF y
    <3>6. SlotOK(y, w, x)
      BY <3>1, <3>3, <3>4, <3>5 DEF SlotOK
    <3> QED
      BY <3>2, <3>6
  <2> DEFINE slots == [cache.slots EXCEPT ![s] = left]
             old == cache.slots
  <2>5. SlotOK(left, w, x)
    BY <2>3, <2>4
  <2>6. /\ old = [u \in Slots |-> old[u]] /\ \A u \in Slots : SlotOK(old[u], w, x)
        /\ slots = [old EXCEPT ![s] = left]
    BY <1>2
  <2>7. cache' = [InitCache EXCEPT !.slots = slots]
    BY <2>1
  <2> HIDE DEF slots, old
  <2>8. slots = [u \in Slots |-> slots[u]] /\ \A u \in Slots : SlotOK(slots[u], w, x)
    <3>1. DOMAIN old = Slots
      BY <2>6
    <3>2. slots = [u \in Slots |-> IF u = s THEN left ELSE old[u]]
      BY <2>6, <3>1
    <3> QED
      BY <2>5, <2>6, <3>2
  <2> QED
    BY <2>7, <2>8, StartedOK
<1> QED
  BY <1>3, <1>4 DEF Crash

LEMMA CrashStep ==
    ASSUME NEW w \in BOOLEAN, NEW x \in BOOLEAN, NEW o \in BOOLEAN, Inv(w, x, o), Crash
    PROVE  Inv(w, x, o)'
<1>1. Base(w, x) /\ ReqsOK(x) /\ faults \in 0..MaxFaults /\ MaxFaults \in Nat
  BY BaseFields DEF Inv
<1>2. /\ faults < MaxFaults /\ faults' = faults + 1
      /\ owner' = NoThread /\ waiters' = {} /\ before' = {}
      /\ st' = [r \in Threads |-> IF At(r, "idle") THEN st[r] ELSE Over(r, st[r].cut, st[r].reason)]
  BY DEF Crash
<1>3. CacheOK(cache', w, x)
  BY <1>1, CrashCache
<1>4. \A r \in Threads : /\ At(r, "idle") => st'[r] = st[r]
                         /\ ~At(r, "idle") => st'[r] = Over(r, st[r].cut, st[r].reason)
  BY <1>2
<1>5. \A r \in Threads : ReqOK(Over(r, st[r].cut, st[r].reason), x)
                         /\ Over(r, st[r].cut, st[r].reason).pc = "done"
  BY OverIs
<1>6. \A r \in Threads : ReqOK(st'[r], x)
  BY <1>1, <1>4, <1>5 DEF ReqsOK
<1>7. st' = [r \in Threads |-> st'[r]]
  BY <1>2
<1>8. ReqsOK(x)'
  BY <1>6, <1>7 DEF ReqsOK
<1>9. LockOK'
  BY <1>2 DEF LockOK
<1>10. faults' \in 0..MaxFaults
  BY <1>1, <1>2
<1>11. Base(w, x)'
  BY <1>3, <1>8, <1>9, <1>10 DEF Base
<1>12. ASSUME o PROVE Own'
  <2> SUFFICES ASSUME NEW r \in Threads PROVE Live(r)' /\ Parked(r)' /\ Stage(r)'
    BY DEF Own
  <2>1. CASE At(r, "idle")
    <3>1. st'[r] = st[r] /\ st[r].pc = "idle" /\ Stage(r)
      BY <1>4, <1>12, <2>1 DEF At, Inv, Own
    <3> QED
      BY <3>1 DEF Live, Parked, Stage
  <2>2. CASE ~At(r, "idle")
    <3>1. st'[r].pc = "done"
      BY <1>4, <1>5, <2>2
    <3> QED
      BY <3>1, EndedFine
  <2> QED
    BY <2>1, <2>2
<1> QED
  BY <1>11, <1>12 DEF Inv

-----------------------------------------------------------------------------
LEMMA InvInit ==
    ASSUME NEW w \in BOOLEAN, NEW x \in BOOLEAN, NEW o \in BOOLEAN, x => TextOnly, SInit
    PROVE  Inv(w, x, o)
<1>1. /\ owner = NoThread /\ waiters = {} /\ before = {} /\ faults = 0
      /\ cache = InitCache /\ st = [r \in Threads |-> NewState(r)]
  BY DEF SInit, FInit
<1>2. CacheOK(cache, w, x)
  <2> DEFINE slots == [s \in Slots |-> EmptySlot]
  <2>1. \A s \in Slots : slots[s] = EmptySlot /\ SlotOK(slots[s], w, x)
    BY EmptySlotOK
  <2>2. slots = [s \in Slots |-> slots[s]]
    OBVIOUS
  <2>3. [InitCache EXCEPT !.slots = slots] = InitCache
    BY DEF InitCache
  <2> HIDE DEF slots
  <2>4. CacheOK([InitCache EXCEPT !.slots = slots], w, x)
    BY <2>1, <2>2, StartedOK
  <2> QED
    BY <1>1, <2>3, <2>4
<1>3. \A r \in Threads : /\ st[r] = NewState(r) /\ ReqOK(st[r], x)
                         /\ st[r].pc = "idle" /\ st[r].started = FALSE
                         /\ st[r].conv = Cells(Body[r].prompt, Body[r].spans, 0)
  BY <1>1, NewIs
<1>4. st = [r \in Threads |-> st[r]]
  BY <1>1
<1>5. Base(w, x)
  BY <1>1, <1>2, <1>3, <1>4, ServerAssumption DEF Base, LockOK, ReqsOK
<1>6. Own
  BY <1>3 DEF Own, Live, Parked, Stage
<1> QED
  BY <1>5, <1>6 DEF Inv

(* A request without a stream throws: in the middle of a batch, or at all. *)
MidBatch == \E r \in Threads : Error(r) /\ faults' # faults
PlainError == \E r \in Threads : Error(r)

LEMMA InvNext ==
    ASSUME NEW w \in BOOLEAN, NEW x \in BOOLEAN, NEW o \in BOOLEAN, Inv(w, x, o),
           x => TextOnly, o => TextOnly, [SNext]_svars,
           w => [~MidBatch]_svars, o => [~PlainError]_svars
    PROVE  Inv(w, x, o)'
<1>1. CASE UNCHANGED svars
  BY <1>1 DEF svars, lockvars, Inv, Base, LockOK, ReqsOK, Own, Live, Parked, Stage, Holds, At, Streaming,
              Sid, Said, Left
<1>2. CASE Crash
  BY <1>2, CrashStep
<1>3. ASSUME NEW r \in Threads, Queue(r) \/ Work(r) \/ Environment(r), svars' # svars PROVE Inv(w, x, o)'
  <2>1. CASE Queue(r) \/ Heartbeat(r)
    BY <2>1, QueueStep
  <2>2. CASE Start(r)
    BY <2>2, StartStep
  <2>3. CASE Resume(r)
    BY <2>3, ResumeStep
  <2>4. CASE Prefill(r)
    BY <2>4, PrefillStep
  <2>5. CASE Generate(r)
    BY <2>5, GenerateStep
  <2>6. CASE Stop(r) \/ Truncate(r)
    BY <2>6, EndStep
  <2>7. CASE Unwind(r)
    BY <2>7, UnwindStep
  <2>8. CASE Report(r) \/ Refuse(r) \/ Disconnect(r)
    BY <2>8, OverStep
  <2>9. CASE StreamError(r)
    BY <2>9, StreamErrorStep
  <2>11. CASE ResumeError(r)
    BY <2>11, ResumeErrorStep
  <2>10. CASE Error(r)
    <3>1. ~o /\ (w => faults' = faults)
      BY <1>3, <2>10 DEF MidBatch, PlainError
    <3> QED
      BY <2>10, <3>1, ErrorStep
  <2> QED
    BY <1>3, <2>1, <2>2, <2>3, <2>4, <2>5, <2>6, <2>7, <2>8, <2>9, <2>10, <2>11 DEF Work, Environment
<1> QED
  BY <1>1, <1>2, <1>3 DEF SNext

-----------------------------------------------------------------------------
(* What the invariants say of the properties *)

LEMMA TypesFollow == Base(FALSE, FALSE) => STypeOK
<1> SUFFICES ASSUME Base(FALSE, FALSE) PROVE STypeOK
  OBVIOUS
<1>1. /\ LockOK /\ CacheOK(cache, FALSE, FALSE) /\ RtOK(cache.rt, FALSE, FALSE)
      /\ faults \in 0..MaxFaults /\ \A r \in Threads : ReqOK(st[r], FALSE)
  BY BaseFields
<1>2. n_past(cache.rt) <= NCtx
  BY <1>1 DEF RtOK, n_past
<1>3. cache.origin \in 0..NSlots /\ cache.owner \in Threads \cup {0}
  BY <1>1, CacheFields
<1>4. \A r \in Threads : st[r].pc \in PCs
  BY <1>1, ReqFields
<1> QED
  BY <1>1, <1>2, <1>3, <1>4 DEF STypeOK, LockOK, PCs

LEMMA CheckpointsFollow == Base(TRUE, FALSE) => CheckpointsOfLineage
<1> SUFFICES ASSUME Base(TRUE, FALSE) PROVE CheckpointsOfLineage
  OBVIOUS
<1>1. RtOK(cache.rt, TRUE, FALSE)
  BY BaseFields
<1> DEFINE rt == cache.rt
<1>2. Sorted(rt) /\ Whole(rt) /\ rt.rows \in Seq(Cell) /\ rt.pk \in Seq(Ckpt)
  BY <1>1 DEF RtOK, RtType
<1> HIDE DEF rt
<1>3. Len(rt.rows) \in Nat /\ DOMAIN rt.pk = 1..Len(rt.pk) /\ Len(rt.pk) \in Nat
  BY <1>2
<1>4. ASSUME NEW i \in DOMAIN rt.pk
      PROVE  /\ rt.pk[i].pos <= n_past(rt)
             /\ rt.pk[i].gdn = Prefix(rt.rows, rt.pk[i].pos)
             /\ \A j \in 1..(i - 1) : rt.pk[j].pos < rt.pk[i].pos
  <2>1. rt.pk[i].pos <= n_past(rt)
    BY <1>2, <1>3 DEF Sorted, n_past
  <2>2. rt.pk[i].gdn = Prefix(rt.rows, rt.pk[i].pos)
    BY <1>2 DEF Whole
  <2>3. ASSUME NEW j \in 1..(i - 1) PROVE rt.pk[j].pos < rt.pk[i].pos
    <3>1. j \in DOMAIN rt.pk /\ j < i
      BY <1>3
    <3> QED
      BY <1>2, <3>1 DEF Sorted
  <2> QED
    BY <2>1, <2>2, <2>3
<1> QED
  BY <1>4 DEF CheckpointsOfLineage, rt

LEMMA NoImages ==
    ASSUME NEW cells \in Seq(Cell), Plainly(cells)
    PROVE  ImgsIn(cells) = <<>>
<1> DEFINE n == Len(cells)
           seqs == [i \in DOMAIN cells |-> IF cells[i].img = NoImg THEN <<>> ELSE <<cells[i].img>>]
           none == [i \in 1..n |-> <<>>]
           Q == Seq(Img)
<1>1. n \in Nat /\ DOMAIN cells = 1..n
  OBVIOUS
<1>2. seqs = none
  BY <1>1 DEF Plainly
<1>3. <<>> \in Q
  OBVIOUS
<1> HIDE DEF n, Q
<1>4. none \in Seq(Q) /\ Len(none) = n /\ \A i \in 1..n : none[i] = <<>>
  BY <1>1, <1>3
<1> HIDE DEF none
<1>5. FlattenSeq(none) = <<>>
  BY <1>4, FlattenNone DEF Q
<1> QED
  BY <1>2, <1>5 DEF ImgsIn

LEMMA PlainReads ==
    ASSUME NEW cells \in Seq(Cell), Plainly(cells)
    PROVE  Reads(cells) = TextOfToks(Toks(cells))
<1> DEFINE n == Len(cells)
           t == Toks(cells)
           f == [i \in DOMAIN cells |->
                   IF cells[i].img # NoImg THEN <<cells[i].img>> ELSE TextOf[cells[i].tok]]
           g == [i \in DOMAIN t |-> TextOf[t[i]]]
<1>1. DOMAIN cells = 1..n /\ DOMAIN t = 1..n /\ \A i \in 1..n : t[i] = cells[i].tok
  BY ToksType
<1>2. f = g
  <2> HIDE DEF t, n
  <2> QED
    BY <1>1 DEF Plainly
<1>3. Reads(cells) = FlattenSeq(f) /\ TextOfToks(t) = FlattenSeq(g)
  BY DEF Reads, TextOfToks
<1> HIDE DEF f, g
<1> QED
  BY <1>2, <1>3

LEMMA SlotsFollow == Base(TRUE, TRUE) => SlotsHonest
<1> SUFFICES ASSUME Base(TRUE, TRUE), NEW s \in Slots, cache.slots[s].blob # NoBlob
             PROVE  Honest(cache.slots[s].toks, cache.slots[s].imgs, cache.slots[s].blob)
  BY DEF SlotsHonest
<1>1. CacheOK(cache, TRUE, TRUE)
  BY BaseFields
<1> DEFINE b == cache.slots[s].blob
           toks == cache.slots[s].toks
           imgs == cache.slots[s].imgs
<1>2. BlobOK(b, TRUE, TRUE) /\ b.toks = toks /\ imgs = <<>>
  BY <1>1, BlobOfSlot
<1> HIDE DEF b, toks, imgs
<1>3. /\ b.rows \in Seq(Cell) /\ b.toks = Toks(b.rows) /\ (Recurrent => b.gdn = b.rows)
      /\ Plainly(b.rows)
  BY <1>2 DEF BlobOK, BlobType
<1>4. ImgsIn(b.rows) = <<>>
  BY <1>3, NoImages
<1>5. ImgsOf(imgs) = <<>>
  BY <1>2, FlattenEmpty DEF ImgsOf
<1>6. IsPrefix(<<>>, <<>>)
  BY DEF IsPrefix
<1>7. Honest(toks, imgs, b)
  BY <1>2, <1>3, <1>4, <1>5, <1>6 DEF Honest
<1> QED
  BY <1>7 DEF b, toks, imgs

LEMMA OwnFollows == Base(TRUE, TRUE) /\ Own => OwnConversation
<1> SUFFICES ASSUME Base(TRUE, TRUE), Own, NEW r \in Threads, Holds(r), st[r].pc \in {"prefill", "gen"}
             PROVE  /\ Reads(cache.rt.rows \o st[r].tail) = Reads(st[r].conv)
                    /\ Recurrent => cache.rt.gdn = cache.rt.rows
  BY DEF OwnConversation
<1> DEFINE rt == cache.rt
           a == rt.rows
           b == st[r].tail
           c == st[r].conv
<1>1. RtOK(rt, TRUE, TRUE) /\ ReqOK(st[r], TRUE)
  BY BaseFields
<1>2. a \in Seq(Cell) /\ rt.toks = Toks(a) /\ Plainly(a) /\ (Recurrent => rt.gdn = a)
  BY <1>1 DEF RtOK, RtType, Whole
<1>3. b \in Seq(Cell) /\ c \in Seq(Cell) /\ Plainly(b) /\ Plainly(c)
  BY <1>1, ReqFields
<1>4. TextOfToks(rt.toks) \o TextOfToks(Toks(b)) = TextOfToks(Toks(c))
  BY DEF Own, Live, Left, Said
<1> HIDE DEF a, b, c, rt
<1>5. a \o b \in Seq(Cell) /\ Toks(a \o b) = Toks(a) \o Toks(b)
  BY <1>2, <1>3, ToksConcat
<1>6. Toks(a) \in Seq(Tok) /\ Toks(b) \in Seq(Tok)
  BY <1>2, <1>3, ToksType
<1>7. TextOfToks(Toks(a \o b)) = TextOfToks(Toks(a)) \o TextOfToks(Toks(b))
  BY <1>5, <1>6, TextConcat
<1>8. Plainly(a \o b)
  BY <1>2, <1>3, PlainConcat
<1>9. Reads(a \o b) = TextOfToks(Toks(a \o b)) /\ Reads(c) = TextOfToks(Toks(c))
  BY <1>3, <1>5, <1>8, PlainReads
<1>10. Reads(a \o b) = Reads(c)
  BY <1>2, <1>4, <1>7, <1>9
<1> QED
  BY <1>2, <1>10 DEF a, b, c, rt

-----------------------------------------------------------------------------
(* Whatever fails and however requests interleave, images or not: the lock *)
(* and the queue are well formed, the live state never outgrows the        *)
(* context, and live_origin and live_owner name a slot and a request.      *)
THEOREM ServerTypes == SSpec => []STypeOK
<1>1. SInit => Inv(FALSE, FALSE, FALSE)
  BY InvInit
<1>2. Inv(FALSE, FALSE, FALSE) /\ [SNext]_svars => Inv(FALSE, FALSE, FALSE)'
  BY InvNext
<1>3. Inv(FALSE, FALSE, FALSE) => STypeOK
  BY TypesFollow DEF Inv
<1> QED
  BY <1>1, <1>2, <1>3, PTL DEF SSpec

(* The checkpoints are prefixes of the live lineage, in order, through     *)
(* prefills, rewinds, loads, resets, failed slot files, crashes and        *)
(* requests with images, unless a request without a stream throws in the   *)
(* middle of a batch: its catch block resets the runtime only after the    *)
(* lock is released, and the half advanced state is visible until then.    *)
THEOREM CheckpointLineage == SSpec /\ [][~MidBatch]_svars => []CheckpointsOfLineage
<1>1. SInit => Inv(TRUE, FALSE, FALSE)
  BY InvInit
<1>2. Inv(TRUE, FALSE, FALSE) /\ [SNext]_svars /\ [~MidBatch]_svars => Inv(TRUE, FALSE, FALSE)'
  BY InvNext
<1>3. Inv(TRUE, FALSE, FALSE) => CheckpointsOfLineage
  BY CheckpointsFollow DEF Inv
<1> QED
  BY <1>1, <1>2, <1>3, PTL DEF SSpec

(* A slot that can be loaded holds the state its tokens promise, through   *)
(* evictions, failed writes and reads, torn files and restarts, when the   *)
(* requests have no images and none without a stream throws in the middle  *)
(* of a batch.                                                             *)
THEOREM HonestSlots == TextOnly /\ SSpec /\ [][~MidBatch]_svars => []SlotsHonest
<1>1. TextOnly /\ SInit => Inv(TRUE, TRUE, FALSE)
  BY InvInit
<1>2. TextOnly /\ Inv(TRUE, TRUE, FALSE) /\ [SNext]_svars /\ [~MidBatch]_svars => Inv(TRUE, TRUE, FALSE)'
  BY InvNext
<1>3. Inv(TRUE, TRUE, FALSE) => SlotsHonest
  BY SlotsFollow DEF Inv
<1>4. TextOnly => TextOnly'
  BY DEF TextOnly
<1> QED
  BY <1>1, <1>2, <1>3, <1>4, PTL DEF SSpec

(* Every request computes on its own conversation: whatever was reused,    *)
(* rewound, parked, evicted, restored or prefilled again while others ran, *)
(* the text of the live state and of the rest of the prompt is the text of *)
(* its own prompt and reply, when the requests have no images and none     *)
(* without a stream throws (its catch block resets a runtime that another  *)
(* request may have by then).                                              *)
THEOREM OwnText == TextOnly /\ SSpec /\ [][~PlainError]_svars => []OwnConversation
<1>1. TextOnly /\ SInit => Inv(TRUE, TRUE, TRUE)
  BY InvInit
<1>2. TextOnly /\ Inv(TRUE, TRUE, TRUE) /\ [SNext]_svars /\ [~PlainError]_svars => Inv(TRUE, TRUE, TRUE)'
  <2> SUFFICES ASSUME TextOnly, Inv(TRUE, TRUE, TRUE), [SNext]_svars, [~PlainError]_svars
               PROVE  Inv(TRUE, TRUE, TRUE)'
    OBVIOUS
  <2>1. [~MidBatch]_svars
    BY DEF MidBatch, PlainError
  <2> QED
    BY <2>1, InvNext
<1>3. Inv(TRUE, TRUE, TRUE) => OwnConversation
  BY OwnFollows DEF Inv
<1>4. TextOnly => TextOnly'
  BY DEF TextOnly
<1> QED
  BY <1>1, <1>2, <1>3, <1>4, PTL DEF SSpec

(***************************************************************************)
(* Third part: what is parked.  save_live() takes the live state for the   *)
(* one in its slot of origin when the lengths agree, so that ParkedOnSwitch*)
(* needs to know how the live state and that slot are related.             *)
(***************************************************************************)

(* The runtime has gone on from a slot's state: it is that state as long   *)
(* as it is no longer, and its checkpoints were all taken later.           *)
Behind(toks, blob, rt) ==
    /\ Len(toks) <= Len(rt.toks)
    /\ Len(toks) = Len(rt.toks) => blob = SaveState(rt)
    /\ \A i \in 1..Len(rt.pk) : rt.pk[i].pos > Len(toks)

Known(c) == c.origin # 0 => Behind(c.slots[c.origin].toks, c.slots[c.origin].blob, c.rt)

(* Every slot that is in use can be loaded. *)
Kept(c) == \A s \in Slots : c.slots[s].toks # <<>> => c.slots[s].blob # NoBlob

InSlot(rt, c) == \E s \in Slots : c.slots[s].blob = SaveState(rt)

LEMMA SaveTargetIs ==
    ASSUME NEW c, CacheOK(c, FALSE, FALSE), NSlots >= 2, NEW avoid
    PROVE  SaveTarget(c, avoid) \in Slots /\ SaveTarget(c, avoid) # avoid
<1>1. 1 \in Slots /\ 2 \in Slots
  BY Consts DEF Slots
<1>2. Slots \ {avoid} # {}
  BY <1>1
<1> QED
  BY <1>2, TargetIs

(* The slots of d hold the state rt, but for the slot s; and those of c.    *)
SavedBut(rt, d, s) == rt.toks = <<>> \/ \E t \in Slots \ {s} : d.slots[t].blob = SaveState(rt)
SameBut(c, d, s) == \A t \in Slots \ {s} : d.slots[t] = c.slots[t]

LEMMA SaveSpares ==
    ASSUME NEW c, CacheOK(c, FALSE, FALSE), NEW s \in Slots, NEW io
    PROVE  CacheOK(save_live(c, s, io), FALSE, FALSE) /\ save_live(c, s, io).slots[s] = c.slots[s]
<1> DEFINE w == FALSE
<1>1. w \in BOOLEAN /\ CacheOK(c, w, w)
  OBVIOUS
<1> HIDE DEF w
<1>2. CacheOK(save_live(c, s, io), w, w) /\ save_live(c, s, io).slots[s] = c.slots[s]
  BY <1>1, SaveOK
<1> QED
  BY <1>2 DEF w

(* save_live() leaves the live state in a slot other than the one to avoid.*)
LEMMA SaveParks ==
    ASSUME NEW c, CacheOK(c, FALSE, FALSE), NSlots >= 2, NEW avoid, NEW io, io.save,
           c.rt.toks = <<>> \/ Known(c)
    PROVE  LET d == save_live(c, avoid, io)
           IN  SavedBut(c.rt, d, avoid) /\ (Kept(c) => Kept(d))
<1> DEFINE s == SaveTarget(c, avoid)
           lru == Touch(c.lru, s)
           v == [toks |-> c.rt.toks, imgs |-> c.imgs, blob |-> SaveState(c.rt)]
           sl == [c.slots EXCEPT ![s] = v]
           d == save_live(c, avoid, io)
<1>1. s \in Slots /\ s # avoid /\ s # 0
  <2>1. 0 \notin Slots
    BY Consts DEF Slots
  <2> QED
    BY <2>1, SaveTargetIs
<1>2. d = IF c.rt.toks = <<>> \/ s = 0 THEN c
          ELSE IF Unchanged(c, s) THEN [c EXCEPT !.lru = lru]
          ELSE [c EXCEPT !.lru = lru, !.slots = sl]
  BY DEF save_live
<1>3. /\ c = [rt |-> c.rt, imgs |-> c.imgs, slots |-> c.slots, lru |-> c.lru,
              origin |-> c.origin, owner |-> c.owner]
      /\ c.slots = [t \in Slots |-> c.slots[t]]
  BY CacheFields
<1> HIDE DEF d, s, lru
<1>4. CASE c.rt.toks = <<>>
  BY <1>2, <1>4 DEF d, SavedBut
<1>5. CASE c.rt.toks # <<>> /\ Unchanged(c, s)
  <2>1. d = [c EXCEPT !.lru = lru]
    BY <1>1, <1>2, <1>5
  <2>2. d.slots = c.slots
    BY <1>3, <2>1
  <2>3. c.origin = s /\ Len(c.slots[s].toks) = Len(c.rt.toks)
    BY <1>5 DEF Unchanged
  <2>4. c.slots[s].blob = SaveState(c.rt)
    BY <1>1, <1>5, <2>3 DEF Known, Behind
  <2>5. s \in Slots \ {avoid} /\ d.slots[s].blob = SaveState(c.rt)
    BY <1>1, <2>2, <2>4
  <2>6. Kept(c) => Kept(d)
    BY <2>2 DEF Kept
  <2> QED
    BY <2>5, <2>6 DEF d, SavedBut
<1>6. CASE c.rt.toks # <<>> /\ ~Unchanged(c, s)
  <2>1. d = [c EXCEPT !.lru = lru, !.slots = sl]
    BY <1>1, <1>2, <1>6
  <2>2. d.slots = sl
    <3> HIDE DEF sl
    <3> QED
      BY <1>3, <2>1
  <2>3. v.toks = c.rt.toks /\ v.blob = SaveState(c.rt) /\ SaveState(c.rt).toks = c.rt.toks
        /\ NoBlob.toks = <<>>
    BY DEF SaveState, NoBlob
  <2> HIDE DEF v
  <2>4. \A t \in Slots : sl[t] = IF t = s THEN v ELSE c.slots[t]
    <3>1. DOMAIN c.slots = Slots
      BY <1>3
    <3> QED
      BY <3>1
  <2> HIDE DEF sl
  <2>5. s \in Slots \ {avoid} /\ d.slots[s].blob = SaveState(c.rt)
    BY <1>1, <2>2, <2>3, <2>4
  <2>6. v.blob # NoBlob
    BY <1>6, <2>3
  <2>7. Kept(c) => Kept(d)
    BY <2>2, <2>4, <2>6 DEF Kept
  <2> QED
    BY <2>5, <2>7 DEF d, SavedBut
<1> QED
  BY <1>4, <1>5, <1>6

(* load_slot() touches no other slot, and continues from the one it loads. *)
LEMMA LoadKnown ==
    ASSUME NEW c, CacheOK(c, FALSE, FALSE), NEW s \in Slots, NEW io
    PROVE  LET d == load_slot(c, s, io)
           IN  /\ \A t \in Slots \ {s} : d.slots[t] = c.slots[t]
               /\ Kept(c) => Kept(d)
               /\ Loads(c, s, io) => /\ d.slots = c.slots
                                     /\ Behind(c.slots[s].toks, c.slots[s].blob, d.rt)
<1> DEFINE d == load_slot(c, s, io)
           b == c.slots[s].blob
           rt == LoadState(c.rt, b)
           imgs == c.slots[s].imgs
           lru == Touch(c.lru, s)
           sl == [c.slots EXCEPT ![s] = EmptySlot]
<1>1. /\ c = [rt |-> c.rt, imgs |-> c.imgs, slots |-> c.slots, lru |-> c.lru,
              origin |-> c.origin, owner |-> c.owner]
      /\ c.slots = [t \in Slots |-> c.slots[t]]
  BY CacheFields
<1>2. CASE Loads(c, s, io)
  <2>1. d = [c EXCEPT !.rt = rt, !.imgs = imgs, !.lru = lru]
    BY <1>2 DEF load_slot
  <2>2. BlobOK(b, FALSE, FALSE) /\ b.toks = c.slots[s].toks
    BY <1>2, BlobOfSlot DEF Loads
  <2>3. rt.toks = b.toks /\ rt.pk = <<>> /\ SaveState(rt) = b
    <3>1. b = [toks |-> b.toks, rows |-> b.rows, gdn |-> b.gdn, rope |-> b.rope]
      BY <2>2 DEF BlobOK, BlobType
    <3> HIDE DEF b
    <3>2. /\ rt.toks = b.toks /\ rt.rows = b.rows /\ rt.gdn = b.gdn /\ rt.rope = b.rope
          /\ rt.pk = <<>>
      BY DEF LoadState
    <3> HIDE DEF rt
    <3>3. SaveState(rt) = [toks |-> b.toks, rows |-> b.rows, gdn |-> b.gdn, rope |-> b.rope]
      BY <3>2 DEF SaveState
    <3> QED
      BY <3>1, <3>2, <3>3
  <2> HIDE DEF d, rt, imgs, lru
  <2>4. d.slots = c.slots /\ d.rt = rt
    BY <1>1, <2>1
  <2>5. Len(b.toks) \in Nat
    BY <2>2 DEF BlobOK, BlobType
  <2>6. Behind(c.slots[s].toks, b, rt)
    BY <2>2, <2>3, <2>5 DEF Behind
  <2>7. Kept(c) => Kept(d)
    BY <2>4 DEF Kept
  <2> QED
    BY <2>4, <2>6, <2>7 DEF d
<1>3. CASE ~Loads(c, s, io)
  <2> DEFINE no == Reset(c.rt)
  <2>1. d = [c EXCEPT !.rt = no, !.slots = sl]
    BY <1>3 DEF load_slot
  <2>2. \A t \in Slots : sl[t] = IF t = s THEN EmptySlot ELSE c.slots[t]
    <3>1. DOMAIN c.slots = Slots
      BY <1>1
    <3> QED
      BY <3>1
  <2> HIDE DEF d, no, sl
  <2>3. d.slots = sl
    BY <1>1, <2>1
  <2>4. EmptySlot.toks = <<>>
    BY DEF EmptySlot
  <2>5. Kept(c) => Kept(d)
    BY <2>2, <2>3, <2>4 DEF Kept
  <2> QED
    BY <1>3, <2>2, <2>3, <2>5 DEF d
<1> QED
  BY <1>2, <1>3

LEMMA FreshKnown ==
    ASSUME NEW c, CacheOK(c, FALSE, FALSE)
    PROVE  LET d == Fresh(c).c
           IN  Known(d) /\ d.slots = c.slots /\ (Kept(c) => Kept(d))
<1> DEFINE rt == Reset(c.rt)
           d == [c EXCEPT !.rt = rt, !.origin = 0]
<1>1. Fresh(c).c = d
  BY DEF Fresh
<1>2. c = [rt |-> c.rt, imgs |-> c.imgs, slots |-> c.slots, lru |-> c.lru,
           origin |-> c.origin, owner |-> c.owner]
  BY CacheFields
<1> HIDE DEF rt
<1>3. d.slots = c.slots /\ d.origin = 0
  BY <1>2
<1> HIDE DEF d
<1> QED
  BY <1>1, <1>3 DEF Known, Kept

LEMMA FromSlotKnown ==
    ASSUME NEW c, CacheOK(c, FALSE, FALSE), NEW io, NEW best, best.slot \in Slots
    PROVE  LET d == FromSlot(c, best, io).c
           IN  /\ Known(d) /\ (Kept(c) => Kept(d))
               /\ SameBut(c, d, best.slot)
<1> DEFINE s == best.slot
           l == load_slot(c, s, io)
           d == FromSlot(c, best, io).c
<1>1. /\ \A t \in Slots \ {s} : l.slots[t] = c.slots[t]
      /\ Kept(c) => Kept(l)
      /\ Loads(c, s, io) => l.slots = c.slots /\ Behind(c.slots[s].toks, c.slots[s].blob, l.rt)
  BY LoadKnown
<1>2. CacheOK(l, FALSE, FALSE)
  BY LoadOK
<1>3. CASE Loads(c, s, io)
  <2>1. d = [l EXCEPT !.origin = s]
    BY <1>3 DEF FromSlot
  <2> HIDE DEF l, d, s
  <2>2. l = [rt |-> l.rt, imgs |-> l.imgs, slots |-> l.slots, lru |-> l.lru,
             origin |-> l.origin, owner |-> l.owner]
    BY <1>2, CacheFields
  <2>3. d.slots = l.slots /\ d.origin = s /\ d.rt = l.rt
    BY <2>1, <2>2
  <2>4. Known(d)
    BY <1>1, <1>3, <2>3 DEF Known
  <2>5. Kept(c) => Kept(d)
    BY <1>1, <2>3 DEF Kept
  <2> QED
    BY <1>1, <2>3, <2>4, <2>5 DEF d, s, SameBut
<1>4. CASE ~Loads(c, s, io)
  <2>1. d = Fresh(l).c
    BY <1>4 DEF FromSlot
  <2> HIDE DEF l, d, s
  <2>2. Known(d) /\ d.slots = l.slots /\ (Kept(l) => Kept(d))
    BY <1>2, <2>1, FreshKnown
  <2> QED
    BY <1>1, <2>2 DEF d, s, SameBut
<1> QED
  BY <1>3, <1>4

(* What becomes of the live state of c when a request starts on d. *)
Moved(c, d) ==
    /\ Kept(d) /\ Known(d)
    /\ c.rt.toks = <<>> \/ d.rt = c.rt \/ d.rt.pk # <<>> \/ InSlot(c.rt, d)

(* A rewind lands on a checkpoint, behind the slot of origin. *)
LEMMA RewoundMoves ==
    ASSUME NEW c, CacheOK(c, FALSE, FALSE), Recurrent, Kept(c), Known(c),
           NEW m \in Nat, NEW n, n = BestCkpt(c.rt, m), n > 0
    PROVE  Moved(c, Rewound(c, Rewind(c.rt, n)).c)
<1> DEFINE rt == c.rt
           pk == rt.pk
           j == NewestAt(pk, m)
           i == NewestAt(pk, n)
           R == Rewind(rt, n)
           d == Rewound(c, R).c
<1>1. RtOK(rt, FALSE, FALSE)
      /\ c = [rt |-> c.rt, imgs |-> c.imgs, slots |-> c.slots, lru |-> c.lru,
              origin |-> c.origin, owner |-> c.owner]
  BY CacheFields
<1>2. /\ rt.toks \in Seq(Tok) /\ rt.rows \in Seq(Cell) /\ Len(rt.toks) = Len(rt.rows)
      /\ Len(rt.toks) \in Nat /\ PkOK(pk, rt.rows, FALSE)
  BY <1>1, RtToks, PkOfRt
<1>3. pk \in Seq(Ckpt) /\ Len(pk) \in Nat
      /\ \A k \in 1..Len(pk) : pk[k].pos \in 1..Len(rt.toks)
  BY <1>2 DEF PkOK
<1>4. j \in 1..Len(pk) /\ n = pk[j].pos
  <2>1. n = IF m <= 0 THEN -1 ELSE IF j = 0 THEN -1 ELSE pk[j].pos
    BY DEF BestCkpt
  <2>2. j \in 0..Len(pk)
    <3>1. m \in Int
      OBVIOUS
    <3> HIDE DEF pk
    <3> QED
      BY <1>2, <3>1, NewestIs
  <2> HIDE DEF j, pk
  <2>3. j # 0 /\ n = pk[j].pos
    BY <2>1
  <2> QED
    BY <1>3, <2>2, <2>3
<1> HIDE DEF j
<1>5. n \in 1..Len(rt.toks)
  BY <1>3, <1>4
<1>6. CASE n >= Len(rt.toks)
  <2>1. R = [rt |-> rt, n |-> Len(rt.toks)]
    BY <1>6 DEF Rewind
  <2>2. R.n > 0 /\ R.rt = rt
    BY <1>2, <1>5, <2>1
  <2>3. d = [c EXCEPT !.rt = rt]
    BY <2>2 DEF Rewound
  <2>4. d.rt = c.rt /\ d.slots = c.slots /\ d.origin = c.origin
    BY <1>1, <2>3
  <2> HIDE DEF d
  <2>5. Moved(c, d)
    BY <2>4 DEF Moved, Known, Kept
  <2> QED
    BY <2>5 DEF d
<1>7. CASE ~(n >= Len(rt.toks))
  <2>1. i \in 1..Len(pk)
    <3>1. i \in 0..Len(pk) /\ \A k \in 1..Len(pk) : pk[k].pos <= n => k <= i
      <4>1. n \in Int
        BY <1>2, <1>5
      <4> HIDE DEF pk
      <4> QED
        BY <1>2, <4>1, NewestIs
    <3>2. j <= i
      BY <1>4, <1>5, <3>1
    <3> HIDE DEF i
    <3> QED
      BY <1>3, <1>4, <3>1, <3>2
  <2> DEFINE p == pk[i].pos
             g == pk[i].gdn
             o == pk[i].rope
             new == [rt EXCEPT !.toks = Prefix(rt.toks, p), !.rows = Prefix(rt.rows, p), !.gdn = g,
                               !.rope = o, !.pk = Prefix(pk, i)]
  <2>2. R = [rt |-> new, n |-> p]
    <3>1. i # 0
      BY <1>3, <2>1
    <3> QED
      BY <1>7, <3>1 DEF Rewind
  <2>3. p \in 1..Len(rt.toks)
    <3> HIDE DEF i
    <3> QED
      BY <1>3, <2>1
  <2>4. new.toks = Prefix(rt.toks, p) /\ new.pk = Prefix(pk, i)
    <3>1. rt = [toks |-> rt.toks, rows |-> rt.rows, gdn |-> rt.gdn, rope |-> rt.rope,
                pk |-> rt.pk, ovr |-> rt.ovr]
      BY <1>1 DEF RtOK, RtType
    <3> HIDE DEF i, p, g, o
    <3> QED
      BY <3>1
  <2> HIDE DEF new
  <2>5. R.n > 0 /\ R.rt = new
    BY <1>2, <2>2, <2>3
  <2>6. d = [c EXCEPT !.rt = new]
    BY <2>5 DEF Rewound
  <2>7. d.rt = new /\ d.slots = c.slots /\ d.origin = c.origin
    BY <1>1, <2>6
  <2>8. Len(new.toks) = p
    <3>1. p \in 0..Len(rt.toks)
      BY <1>2, <2>3
    <3> HIDE DEF p
    <3> QED
      BY <1>2, <2>4, <3>1, PrefixElems
  <2>9. /\ new.pk # <<>> /\ Len(new.pk) = i
        /\ \A k \in 1..i : new.pk[k] = pk[k]
    <3>1. i \in 0..Len(pk) /\ i > 0
      BY <1>3, <2>1
    <3>2. Prefix(pk, i) \in Seq(Ckpt) /\ Len(Prefix(pk, i)) = i /\ \A k \in 1..i : Prefix(pk, i)[k] = pk[k]
      <4> HIDE DEF i, pk
      <4> QED
        BY <1>3, <3>1, PrefixElems
    <3> HIDE DEF i, pk
    <3> QED
      BY <2>4, <3>1, <3>2
  <2> HIDE DEF d, R
  <2>10. Known(d)
    <3> DEFINE t == c.slots[c.origin].toks
               b == c.slots[c.origin].blob
    <3>1. ASSUME c.origin # 0 PROVE Behind(t, b, new)
      <4>1. c.origin \in Slots
        BY <3>1, Consts DEF CacheOK, Slots
      <4>2. t \in Seq(Tok) /\ Len(t) \in Nat
        <5>1. t \in Seq(Tok)
          BY <4>1 DEF CacheOK, SlotOK
        <5> HIDE DEF t
        <5> QED
          BY <5>1
      <4>3. \A k \in 1..Len(pk) : pk[k].pos > Len(t)
        BY <3>1 DEF Known, Behind
      <4> HIDE DEF t, b, pk, i
      <4>4. p > Len(t)
        BY <2>1, <4>3
      <4>5. \A k \in 1..i : new.pk[k].pos > Len(t)
        BY <1>3, <2>1, <2>9, <4>3
      <4> HIDE DEF p
      <4> QED
        BY <2>3, <2>8, <2>9, <4>2, <4>4, <4>5, <1>2 DEF Behind
    <3> QED
      BY <2>7, <3>1 DEF Known
  <2>11. Moved(c, d)
    BY <2>7, <2>9, <2>10 DEF Moved, Kept
  <2> QED
    BY <2>11 DEF d, R
<1> QED
  BY <1>6, <1>7

LEMMA SwitchMoves ==
    ASSUME NEW c, CacheOK(c, FALSE, FALSE), Recurrent, NSlots >= 2, Kept(c),
           c.rt.toks = <<>> \/ Known(c), NEW prompt \in Seq(Tok) \ {<<>>}, NEW spans,
           NEW io, io.save
    PROVE  Moved(c, Switch(c, RewindPoint(c, prompt, spans), BestSlot(c, prompt, spans), io).c)
<1> DEFINE best == BestSlot(c, prompt, spans)
           rew == RewindPoint(c, prompt, spans)
           n == Common(c.rt.toks, prompt)
           S == Switch(c, rew, best, io)
<1>1. \/ best.slot = 0 /\ best.cov = -1
      \/ best.slot \in Slots
  BY BestSlotIs
<1>2. /\ n \in Nat /\ rew \in Int /\ rew >= -1
      /\ rew > 0 => rew = BestCkpt(c.rt, n) /\ c.rt.toks # <<>>
  BY RewindPointIs
<1>3. S = IF best.cov > rew THEN FromSlot(save_live(c, best.slot, io), best, io)
          ELSE IF rew > 0 THEN Rewound(c, Rewind(c.rt, rew))
          ELSE Fresh(save_live(c, 0, io))
  BY DEF Switch
<1> HIDE DEF best, rew, S, n
<1>4. CASE best.cov > rew
  <2> DEFINE t == best.slot
             k == save_live(c, t, io)
             d == FromSlot(k, best, io).c
  <2>1. t \in Slots
    BY <1>1, <1>2, <1>4
  <2>2. SavedBut(c.rt, k, t) /\ (Kept(c) => Kept(k))
    BY SaveParks
  <2>3. CacheOK(k, FALSE, FALSE)
    BY SaveOK
  <2> HIDE DEF k
  <2>4. Known(d) /\ (Kept(k) => Kept(d)) /\ SameBut(k, d, t)
    BY <2>1, <2>3, FromSlotKnown
  <2> HIDE DEF d, t
  <2>5. Moved(c, d)
    BY <2>2, <2>4 DEF Moved, InSlot, SavedBut, SameBut
  <2>6. S.c = d
    BY <1>3, <1>4 DEF d, k, t
  <2> QED
    BY <2>5, <2>6 DEF S, best, rew
<1>5. CASE ~(best.cov > rew) /\ rew > 0
  <2>1. Moved(c, Rewound(c, Rewind(c.rt, rew)).c)
    BY <1>2, <1>5, RewoundMoves
  <2> QED
    BY <1>3, <1>5, <2>1 DEF S, best, rew
<1>6. CASE ~(best.cov > rew) /\ ~(rew > 0)
  <2> DEFINE k == save_live(c, 0, io)
             d == Fresh(k).c
  <2>1. SavedBut(c.rt, k, 0) /\ (Kept(c) => Kept(k))
    BY SaveParks
  <2>2. CacheOK(k, FALSE, FALSE)
    BY SaveOK
  <2> HIDE DEF k
  <2>3. Known(d) /\ d.slots = k.slots /\ (Kept(k) => Kept(d))
    BY <2>2, FreshKnown
  <2> HIDE DEF d
  <2>4. Moved(c, d)
    BY <2>1, <2>3 DEF Moved, InSlot, SavedBut
  <2>5. S.c = d
    BY <1>3, <1>6 DEF d, k
  <2> QED
    BY <2>4, <2>5 DEF S, best, rew
<1> QED
  BY <1>4, <1>5, <1>6

(* prepare_prompt() goes on with the live state, rewinds it or parks it. *)
LEMMA PrepareMoves ==
    ASSUME NEW c, CacheOK(c, FALSE, FALSE), Recurrent, NSlots >= 2, Kept(c),
           c.rt.toks = <<>> \/ Known(c), NEW prompt \in Seq(Tok) \ {<<>>}, NEW spans,
           NEW sid \in Threads \cup {0}, NEW io, io.save
    PROVE  Moved(c, prepare_prompt(c, prompt, spans, sid, io).c)
<1> DEFINE n == match_cov(c.rt.toks, c.imgs, prompt, spans)
           p == Continue(c, n, prompt, spans, io)
           d == p.c
           e == [d EXCEPT !.imgs = spans, !.owner = sid]
           q == prepare_prompt(c, prompt, spans, sid, io)
<1>1. p = IF n >= 0 THEN [c |-> c, n |-> n]
          ELSE Switch(c, RewindPoint(c, prompt, spans), BestSlot(c, prompt, spans), io)
  BY DEF Continue
<1>2. q = [p EXCEPT !.c = e]
  BY DEF prepare_prompt
<1>3. CacheOK(d, FALSE, FALSE) /\ p = [c |-> p.c, n |-> p.n] /\ Moved(c, d)
  <2>1. CASE n >= 0
    <3>1. p.c = c /\ p = [c |-> p.c, n |-> p.n]
      <4> HIDE DEF n, p
      <4> QED
        BY <1>1, <2>1
    <3>2. c.rt.toks # <<>>
      BY <2>1 DEF match_cov
    <3>3. Moved(c, c)
      BY <3>2 DEF Moved
    <3> HIDE DEF p
    <3> QED
      BY <3>1, <3>3
  <2>2. CASE ~(n >= 0)
    <3> DEFINE S == Switch(c, RewindPoint(c, prompt, spans), BestSlot(c, prompt, spans), io)
    <3>1. p = S
      BY <1>1, <2>2
    <3>2. Ready(S, prompt, FALSE, FALSE)
      BY SwitchOK
    <3>3. Moved(c, S.c)
      BY SwitchMoves
    <3> HIDE DEF S, p
    <3> QED
      BY <3>1, <3>2, <3>3 DEF Ready
  <2> QED
    BY <2>1, <2>2
<1> HIDE DEF p, n, q
<1>4. q.c = e
  <2> HIDE DEF e
  <2> QED
    BY <1>2, <1>3
<1> HIDE DEF d
<1>5. d = [rt |-> d.rt, imgs |-> d.imgs, slots |-> d.slots, lru |-> d.lru,
           origin |-> d.origin, owner |-> d.owner]
  BY <1>3, CacheFields
<1>6. e.rt = d.rt /\ e.slots = d.slots /\ e.origin = d.origin
  BY <1>5
<1> HIDE DEF e
<1>7. Moved(c, e)
  BY <1>3, <1>6 DEF Moved, Known, Kept, InSlot
<1> QED
  BY <1>4, <1>7 DEF q

(* What becomes of the live state of c when ensure_state() answers e. *)
Settled(c, e, sid) ==
    \/ e.c = c /\ ~e.reprefill /\ (e.ok => c.owner = sid)
    \/ /\ e.ok /\ Kept(e.c) /\ Known(e.c)
       /\ c.rt.toks = <<>> \/ InSlot(c.rt, e.c)
       /\ e.reprefill => e.c.origin = 0

LEMMA LostSettles ==
    ASSUME NEW c, CacheOK(c, FALSE, FALSE), NSlots >= 2, Kept(c), c.rt.toks = <<>> \/ Known(c),
           NEW sid, NEW my_imgs, NEW had \in BOOLEAN, NEW io, io.save
    PROVE  Settled(c, Lost(c, sid, my_imgs, had, io), sid)
<1> DEFINE e == Lost(c, sid, my_imgs, had, io)
           d == save_live(c, 0, io)
           rt == Reset(d.rt)
           C == [d EXCEPT !.rt = Reset(@), !.origin = 0, !.owner = sid, !.imgs = my_imgs]
<1>1. CASE had
  <2>1. e = [c |-> c, ok |-> FALSE, reprefill |-> FALSE]
    BY <1>1 DEF Lost
  <2> HIDE DEF e
  <2>2. e.c = c /\ ~e.ok /\ ~e.reprefill
    BY <2>1
  <2> QED
    BY <2>2 DEF Settled, e
<1>2. CASE ~had
  <2>1. e = [c |-> C, ok |-> TRUE, reprefill |-> TRUE]
    BY <1>2 DEF Lost
  <2>2. C = [d EXCEPT !.rt = rt, !.origin = 0, !.owner = sid, !.imgs = my_imgs]
    OBVIOUS
  <2>3. SavedBut(c.rt, d, 0) /\ (Kept(c) => Kept(d))
    BY SaveParks
  <2>4. CacheOK(d, FALSE, FALSE)
    BY SaveOK
  <2> HIDE DEF d, C, rt
  <2>5. d = [rt |-> d.rt, imgs |-> d.imgs, slots |-> d.slots, lru |-> d.lru,
             origin |-> d.origin, owner |-> d.owner]
    BY <2>4, CacheFields
  <2>6. C.slots = d.slots /\ C.origin = 0
    BY <2>2, <2>5
  <2> HIDE DEF e
  <2>7. e.c = C /\ e.ok
    BY <2>1
  <2>8. Kept(C) /\ Known(C)
    BY <2>3, <2>6 DEF Kept, Known
  <2>9. c.rt.toks = <<>> \/ InSlot(c.rt, C)
    BY <2>3, <2>6 DEF InSlot, SavedBut
  <2> QED
    BY <2>6, <2>7, <2>8, <2>9 DEF Settled, e
<1> QED
  BY <1>1, <1>2

(* ensure_state() finds the state its own, or parks the live state before  *)
(* it loads another or starts over.                                        *)
LEMMA EnsureSettles ==
    ASSUME NEW c, CacheOK(c, FALSE, FALSE), NSlots >= 2, Kept(c), c.rt.toks = <<>> \/ Known(c),
           NEW sid \in Threads \cup {0}, NEW my_toks, NEW my_imgs, NEW had \in BOOLEAN,
           NEW io, io.save, io.load
    PROVE  Settled(c, ensure_state(c, sid, my_toks, my_imgs, had, io), sid)
<1> DEFINE e == ensure_state(c, sid, my_toks, my_imgs, had, io)
           hit == {s \in Slots : c.slots[s].toks = my_toks /\ my_toks # <<>>}
           P(s) == \A u \in hit : s <= u
           s == FirstParked(c, my_toks)
           d == save_live(c, s, io)
           l == load_slot(d, s, io)
           C == [l EXCEPT !.origin = s, !.owner = sid]
<1>1. CASE c.owner = sid
  <2>1. e = [c |-> c, ok |-> TRUE, reprefill |-> FALSE]
    BY <1>1 DEF ensure_state
  <2> HIDE DEF e
  <2>2. e.c = c /\ ~e.reprefill
    BY <2>1
  <2> QED
    BY <1>1, <2>2 DEF Settled, e
<1>2. CASE c.owner # sid /\ s = 0
  <2>1. e = Lost(c, sid, my_imgs, had, io)
    BY <1>2 DEF ensure_state
  <2>2. Settled(c, Lost(c, sid, my_imgs, had, io), sid)
    BY LostSettles
  <2> QED
    BY <2>1, <2>2
<1>3. CASE c.owner # sid /\ s # 0
  <2>1. e = Reload(d, s, sid, my_imgs, had, io)
    BY <1>3 DEF ensure_state
  <2>2. hit # {}
    BY <1>3 DEF FirstParked
  <2>3. s = CHOOSE v \in hit : P(v)
    BY <2>2 DEF FirstParked
  <2>4. \E v \in hit : P(v)
    <3>1. hit \subseteq Nat
      BY Consts DEF Slots
    <3> HIDE DEF hit
    <3> QED
      BY <2>2, <3>1, LeastNat
  <2>5. s \in hit
    <3> HIDE DEF hit, s, P
    <3> QED
      BY <2>3, <2>4
  <2>6. s \in Slots /\ c.slots[s].toks # <<>>
    BY <2>5
  <2> HIDE DEF hit, s
  <2>7. CacheOK(d, FALSE, FALSE) /\ d.slots[s] = c.slots[s]
    BY <2>6, SaveSpares
  <2>8. SavedBut(c.rt, d, s) /\ (Kept(c) => Kept(d))
    BY SaveParks
  <2> HIDE DEF d
  <2>9. Loads(d, s, io)
    BY <2>6, <2>7 DEF Loads, Kept
  <2>10. /\ Kept(l) /\ l.slots = d.slots
         /\ Behind(d.slots[s].toks, d.slots[s].blob, l.rt)
    BY <2>6, <2>7, <2>8, <2>9, LoadKnown
  <2>11. CacheOK(l, FALSE, FALSE)
    BY <2>6, <2>7, LoadOK
  <2>12. e = [c |-> C, ok |-> TRUE, reprefill |-> FALSE]
    BY <2>1, <2>9 DEF Reload
  <2> HIDE DEF l
  <2>13. l = [rt |-> l.rt, imgs |-> l.imgs, slots |-> l.slots, lru |-> l.lru,
              origin |-> l.origin, owner |-> l.owner]
    BY <2>11, CacheFields
  <2>14. C.slots = l.slots /\ C.origin = s /\ C.rt = l.rt
    BY <2>13
  <2> HIDE DEF C, e
  <2>15. e.c = C /\ e.ok /\ ~e.reprefill
    BY <2>12
  <2>16. Kept(C)
    BY <2>10, <2>14 DEF Kept
  <2>17. Known(C)
    BY <2>10, <2>14 DEF Known
  <2>18. c.rt.toks = <<>> \/ InSlot(c.rt, C)
    BY <2>8, <2>10, <2>14 DEF InSlot, SavedBut
  <2> QED
    BY <2>15, <2>16, <2>17, <2>18 DEF Settled, e
<1> QED
  BY <1>1, <1>2, <1>3

-----------------------------------------------------------------------------
(* Prefill and generation go on from the slot of origin *)

(* The state u continues rt: it is longer, and what checkpoints it has are *)
(* those of rt and perhaps one of its own end.                             *)
Later(rt, u) ==
    /\ Len(rt.toks) < Len(u.toks)
    /\ \A i \in 1..Len(u.pk) :
         u.pk[i].pos = Len(u.toks) \/ \E j \in 1..Len(rt.pk) : u.pk[i].pos = rt.pk[j].pos

LEMMA RtFields ==
    ASSUME NEW rt, NEW w, NEW x, RtOK(rt, w, x)
    PROVE  /\ rt = [toks |-> rt.toks, rows |-> rt.rows, gdn |-> rt.gdn, rope |-> rt.rope,
                    pk |-> rt.pk, ovr |-> rt.ovr]
           /\ rt.pk \in Seq(Ckpt)
BY DEF RtOK, RtType

LEMMA DecodePk ==
    ASSUME NEW rt, RtOK(rt, FALSE, FALSE), NEW toks
    PROVE  Decode(rt, toks).pk = rt.pk
<1> DEFINE cells == Decoded(rt, toks)
           a == rt.toks \o toks
           b == rt.rows \o cells
           g == IF Recurrent THEN rt.gdn \o cells ELSE rt.gdn
           o == RopeAfter(rt, cells)
           v == IF Len(toks) = 1 THEN rt.ovr ELSE <<>>
<1>1. Decode(rt, toks) = [rt EXCEPT !.toks = a, !.rows = b, !.gdn = g, !.rope = o, !.ovr = v]
  BY DEF Decode, Decoded
<1>2. rt = [toks |-> rt.toks, rows |-> rt.rows, gdn |-> rt.gdn, rope |-> rt.rope,
            pk |-> rt.pk, ovr |-> rt.ovr]
  BY RtFields
<1> HIDE DEF a, b, g, o, v
<1> QED
  BY <1>1, <1>2

LEMMA DecodeLater ==
    ASSUME NEW rt, RtOK(rt, FALSE, FALSE), NEW toks \in Seq(Tok) \ {<<>>},
           Len(rt.rows) + Len(toks) <= NCtx
    PROVE  Later(rt, Decode(rt, toks)) /\ RtOK(Decode(rt, toks), FALSE, FALSE)
<1> DEFINE d == Decode(rt, toks)
<1>1. toks \in Seq(Tok) /\ Len(toks) \in Nat /\ Len(toks) > 0
  OBVIOUS
<1>2. RtOK(d, FALSE, FALSE) /\ d.toks = rt.toks \o toks
  BY <1>1, DecodeOK
<1>3. d.pk = rt.pk
  BY DecodePk
<1>4. rt.toks \in Seq(Tok) /\ Len(rt.toks) \in Nat
  BY RtToks
<1> HIDE DEF d
<1>5. Len(d.toks) = Len(rt.toks) + Len(toks)
  BY <1>1, <1>2, <1>4
<1>6. Later(rt, d)
  BY <1>1, <1>3, <1>4, <1>5 DEF Later
<1> QED
  BY <1>2, <1>6 DEF d

LEMMA ThinElems ==
    ASSUME NEW pk, NEW rows, PkOK(pk, rows, FALSE), PkMax # 0
    PROVE  \A i \in 1..Len(Thin(pk)) : \E j \in 1..Len(pk) : Thin(pk)[i] = pk[j]
<1>1. PkMax \in Nat /\ pk \in Seq(Ckpt) /\ Len(pk) \in Nat
  BY Consts DEF PkOK
<1>2. CASE Len(pk) > PkMax
  <2> DEFINE k == Worst(pk)
             d == Drop(pk, k)
             at(j) == IF j < k THEN j ELSE j + 1
  <2>1. Len(pk) >= 2
    BY <1>1, <1>2
  <2>2. k \in 1..Len(pk)
    BY <2>1, WorstExists
  <2> HIDE DEF k
  <2>3. Len(d) = Len(pk) - 1 /\ \A j \in 1..(Len(pk) - 1) : d[j] = pk[at(j)]
    BY <1>1, <2>2, DropElems
  <2> HIDE DEF d
  <2>4. \A j \in 1..Len(d) : at(j) \in 1..Len(pk) /\ d[j] = pk[at(j)]
    BY <1>1, <2>2, <2>3
  <2> HIDE DEF at
  <2>5. Thin(pk) = d
    BY <1>2 DEF Thin, d, k
  <2> QED
    BY <2>4, <2>5
<1>3. CASE ~(Len(pk) > PkMax)
  <2>1. Thin(pk) = pk
    BY <1>3 DEF Thin
  <2> QED
    BY <2>1
<1> QED
  BY <1>2, <1>3

(* pk_snapshot() adds a checkpoint of the end of the state. *)
LEMMA SnapshotLater ==
    ASSUME NEW rt, NEW u, RtOK(u, FALSE, FALSE), Later(rt, u)
    PROVE  Later(rt, Snapshot(u)) /\ RtOK(Snapshot(u), FALSE, FALSE)
<1> DEFINE f == Snapshot(u)
<1>1. RtOK(f, FALSE, FALSE) /\ f.toks = u.toks
  BY SnapshotOK
<1>2. CASE f = u
  BY <1>1, <1>2
<1>3. CASE f # u
  <2>1. PICK c \in Ckpt : /\ PkMax # 0
                          /\ c.pos = Len(u.rows) /\ Len(u.rows) # 0
                          /\ \A i \in 1..Len(u.pk) : u.pk[i].pos < c.pos
                          /\ f = [u EXCEPT !.pk = Thin(Append(u.pk, c))]
    BY <1>3, SnapshotPk
  <2> DEFINE a == Append(u.pk, c)
             t == Thin(a)
  <2>2. /\ u = [toks |-> u.toks, rows |-> u.rows, gdn |-> u.gdn, rope |-> u.rope,
                pk |-> u.pk, ovr |-> u.ovr]
        /\ u.pk \in Seq(Ckpt)
    BY RtFields
  <2>3. Len(u.toks) = Len(u.rows) /\ Len(u.rows) \in Nat /\ PkOK(u.pk, u.rows, FALSE)
    BY RtToks, PkOfRt
  <2>4. c.pos \in 1..Len(u.rows)
    BY <2>1, <2>3
  <2>5. PkOK(a, u.rows, FALSE)
    BY <2>1, <2>3, <2>4, AppendCkpt
  <2>6. Len(a) = Len(u.pk) + 1 /\ a[Len(u.pk) + 1] = c /\ Len(u.pk) \in Nat
        /\ \A i \in 1..Len(u.pk) : a[i] = u.pk[i]
    BY <2>2
  <2> HIDE DEF a
  <2>7. \A i \in 1..Len(t) : \E j \in 1..Len(a) : t[i] = a[j]
    BY <2>1, <2>5, ThinElems
  <2> HIDE DEF t, f
  <2>8. f.pk = t
    BY <2>1, <2>2 DEF t, a
  <2>9. ASSUME NEW i \in 1..Len(f.pk)
        PROVE  \/ f.pk[i].pos = Len(f.toks)
               \/ \E j \in 1..Len(rt.pk) : f.pk[i].pos = rt.pk[j].pos
    <3>1. PICK j \in 1..Len(a) : f.pk[i] = a[j]
      BY <2>7, <2>8
    <3>2. CASE j = Len(u.pk) + 1
      BY <1>1, <2>1, <2>3, <2>6, <3>1, <3>2
    <3>3. CASE j \in 1..Len(u.pk)
      <4>1. f.pk[i] = u.pk[j]
        BY <2>6, <3>1, <3>3
      <4> QED
        BY <1>1, <3>3, <4>1 DEF Later
    <3> QED
      BY <2>6, <3>2, <3>3
  <2>10. Later(rt, f)
    BY <1>1, <2>9 DEF Later
  <2> QED
    BY <1>1, <2>10 DEF f
<1> QED
  BY <1>2, <1>3

LEMMA OverridesPk ==
    ASSUME NEW rt, RtOK(rt, FALSE, FALSE), NEW r, NEW cells
    PROVE  WithOverrides(r, rt, cells).pk = rt.pk
<1> DEFINE o == IF \A i \in DOMAIN cells : cells[i].img = NoImg THEN <<>>
                ELSE [i \in DOMAIN cells |-> cells[i].img]
           e == [rt EXCEPT !.ovr = o]
<1>1. rt = [toks |-> rt.toks, rows |-> rt.rows, gdn |-> rt.gdn, rope |-> rt.rope,
            pk |-> rt.pk, ovr |-> rt.ovr]
  BY RtFields
<1>2. WithOverrides(r, rt, cells) = e \/ WithOverrides(r, rt, cells) = rt
  BY DEF WithOverrides, set_embd_overrides
<1>3. e.pk = rt.pk
  <2> HIDE DEF o
  <2> QED
    BY <1>1
<1> HIDE DEF e
<1> QED
  BY <1>2, <1>3

LEMMA KnownGrows ==
    ASSUME NEW c, CacheOK(c, FALSE, FALSE), Known(c), NEW u, RtOK(u, FALSE, FALSE), Later(c.rt, u)
    PROVE  LET d == [c EXCEPT !.rt = u] IN Known(d) /\ (Kept(c) => Kept(d))
<1> DEFINE d == [c EXCEPT !.rt = u]
           t == c.slots[c.origin].toks
           b == c.slots[c.origin].blob
<1>1. c = [rt |-> c.rt, imgs |-> c.imgs, slots |-> c.slots, lru |-> c.lru,
           origin |-> c.origin, owner |-> c.owner]
  BY CacheFields
<1>2. d.rt = u /\ d.slots = c.slots /\ d.origin = c.origin
  BY <1>1
<1> HIDE DEF d
<1>3. ASSUME c.origin # 0 PROVE Behind(t, b, u)
  <2>1. c.origin \in Slots
    BY <1>3, Consts DEF CacheOK, Slots
  <2>2. t \in Seq(Tok)
    BY <2>1 DEF CacheOK, SlotOK
  <2>3. Behind(t, b, c.rt)
    BY <1>3 DEF Known
  <2> HIDE DEF t, b
  <2>4. Len(t) \in Nat /\ Len(c.rt.toks) \in Nat /\ Len(u.toks) \in Nat
    BY <2>2, RtToks, CacheFields
  <2>5. Len(t) < Len(u.toks)
    BY <2>3, <2>4 DEF Behind, Later
  <2>6. \A i \in 1..Len(u.pk) : u.pk[i].pos > Len(t)
    BY <2>3, <2>4, <2>5 DEF Behind, Later
  <2> QED
    BY <2>4, <2>5, <2>6 DEF Behind
<1> QED
  BY <1>2, <1>3 DEF Known, Kept, d

-----------------------------------------------------------------------------
(* The requests *)

(* The slot files do not fail and the process is not killed. *)
Durable == ~Ssd \/ MaxFaults = 0

(* What a request never does as long as none without a stream throws. *)
Calm(r, v) ==
    /\ v.pc # "unwound"
    /\ v.pc = "idle" => ~v.started
    /\ v.pc \in {"wait", "paused"} /\ v.started => Streaming(r)
    /\ v.pc = "prefill" => v.tail # <<>>

(* Nobody works on the runtime, which the catch block of a stream has      *)
(* reset without forgetting the slot of origin.                            *)
Cleared ==
    /\ cache.rt.toks = <<>> /\ cache.owner = 0
    /\ \A r \in Threads : ~(Holds(r) /\ st[r].pc \in {"prefill", "gen"})

Traced ==
    /\ Kept(cache)
    /\ \A r \in Threads : Calm(r, st[r])
    /\ Known(cache) \/ Cleared

(* The step of ParkedOnSwitch, for one request. *)
ParkedFor(r) ==
    /\ At(r, "wait") /\ st'[r].pc \in {"prefill", "gen"}
    /\ ~CutBack
    /\ ~IsPrefix(cache.rt.rows, cache'.rt.rows)
    => InSlot(cache.rt, cache')

Follows == Traced' /\ \A r \in Threads : ParkedFor(r)

Touches(r, v) == st'[r] = v /\ \A u \in Threads \ {r} : st'[u] = st[u]

LEMMA TouchesIs ==
    ASSUME NEW x, ReqsOK(x), NEW r \in Threads, NEW v, st' = [st EXCEPT ![r] = v]
    PROVE  Touches(r, v)
<1>1. st = [u \in Threads |-> st[u]]
  BY DEF ReqsOK
<1>2. DOMAIN st = Threads
  BY <1>1
<1> QED
  BY <1>2 DEF Touches

(* A step after which the live state continues its slot of origin. *)
LEMMA KnownStep ==
    ASSUME Traced, NEW r \in Threads, NEW v, Touches(r, v), Calm(r, v), Known(cache'), Kept(cache'),
           ParkedFor(r)
    PROVE  Follows
<1>1. \A u \in Threads : Calm(u, st'[u])
  BY DEF Traced, Touches
<1>2. Traced'
  BY <1>1 DEF Traced, Calm, Streaming
<1>3. ASSUME NEW u \in Threads PROVE ParkedFor(u)
  <2>1. CASE u # r
    <3>1. st'[u] = st[u]
      BY <2>1 DEF Touches
    <3>2. st[u].pc = "wait" => st'[u].pc \notin {"prefill", "gen"}
      BY <3>1
    <3> QED
      BY <3>2 DEF ParkedFor, At
  <2> QED
    BY <2>1
<1> QED
  BY <1>2, <1>3 DEF Follows

(* A step that leaves the cache alone and the request off the runtime. *)
LEMMA SameStep ==
    ASSUME Traced, NEW r \in Threads, NEW v, Touches(r, v), Calm(r, v), cache' = cache,
           v.pc \notin {"prefill", "gen"}, owner' \in {owner, r, NoThread}
    PROVE  Follows
<1>1. \A u \in Threads : Calm(u, st'[u])
  BY DEF Traced, Touches
<1>2. ASSUME Cleared PROVE Cleared'
  <2>1. ASSUME NEW u \in Threads PROVE ~(owner' = u /\ st'[u].pc \in {"prefill", "gen"})
    <3>1. CASE u = r
      BY <3>1 DEF Touches
    <3>2. CASE u # r
      <4>1. st'[u] = st[u] /\ u # NoThread
        BY <3>2, NoThreadAssumption DEF Touches
      <4>2. ~(owner = u /\ st[u].pc \in {"prefill", "gen"})
        BY <1>2 DEF Cleared, Holds
      <4> QED
        BY <3>2, <4>1, <4>2
    <3> QED
      BY <3>1, <3>2
  <2> QED
    BY <1>2, <2>1 DEF Cleared, Holds
<1>3. Traced'
  BY <1>1, <1>2 DEF Traced, Calm, Streaming
<1>4. ASSUME NEW u \in Threads PROVE ParkedFor(u)
  <2>1. st[u].pc = "wait" => st'[u].pc \notin {"prefill", "gen"}
    BY DEF Touches
  <2> QED
    BY <2>1 DEF ParkedFor, At
<1> QED
  BY <1>3, <1>4 DEF Follows

LEMMA WaitTraced ==
    ASSUME Base(FALSE, FALSE), Traced, NEW r \in Threads, Queue(r) \/ Heartbeat(r)
    PROVE  Follows
<1>1. PICK pc \in {"wait", "paused"} :
        /\ st' = [st EXCEPT ![r].pc = pc] /\ cache' = cache /\ (Enter(r) \/ GiveUp(r))
        /\ st[r].pc \in {"idle", "wait", "paused"}
  BY DEF Queue, Heartbeat, At
<1> DEFINE v == [st[r] EXCEPT !.pc = pc]
<1>2. ReqsOK(FALSE) /\ ReqOK(st[r], FALSE) /\ LockOK
  BY BaseFields
<1>3. Touches(r, v)
  <2>1. st' = [st EXCEPT ![r] = v]
    BY <1>1
  <2> HIDE DEF v
  <2> QED
    BY <1>2, <2>1, TouchesIs
<1>4. v.pc = pc /\ v.started = st[r].started
  <2>1. pc \in PCs
    BY <1>1 DEF PCs
  <2> QED
    BY <1>2, <2>1, PcIs
<1> HIDE DEF v
<1>5. Calm(r, st[r])
  BY DEF Traced
<1>6. Calm(r, v)
  BY <1>1, <1>4, <1>5 DEF Calm
<1>7. owner' \in {owner, r, NoThread}
  BY <1>1, <1>2, LockStep
<1> QED
  BY <1>1, <1>3, <1>4, <1>6, <1>7, SameStep

LEMMA EndTraced ==
    ASSUME Base(FALSE, FALSE), Traced, NEW r \in Threads, Stop(r) \/ Truncate(r)
    PROVE  Follows
<1>1. PICK cut : /\ st' = [st EXCEPT ![r].pc = "ended", ![r].cut = cut]
                 /\ Leave(r) /\ cache' = cache
  BY DEF Stop, Truncate
<1> DEFINE v == [st[r] EXCEPT !.pc = "ended", !.cut = cut]
<1>2. ReqsOK(FALSE) /\ ReqOK(st[r], FALSE)
  BY BaseFields
<1>3. Touches(r, v)
  <2>1. st' = [st EXCEPT ![r] = v]
    BY <1>1
  <2> HIDE DEF v
  <2> QED
    BY <1>2, <2>1, TouchesIs
<1>4. v.pc = "ended"
  <2>1. "ended" \in PCs
    BY DEF PCs
  <2> QED
    BY <1>2, <2>1, CutIs
<1> HIDE DEF v
<1>5. Calm(r, v) /\ owner' \in {owner, r, NoThread}
  BY <1>1, <1>4 DEF Calm, Leave
<1> QED
  BY <1>1, <1>3, <1>4, <1>5, SameStep

LEMMA OverTraced ==
    ASSUME Base(FALSE, FALSE), Traced, NEW r \in Threads, Refuse(r) \/ Report(r) \/ Disconnect(r)
    PROVE  Follows
<1>1. PICK cut, reason : /\ st' = [st EXCEPT ![r] = Over(r, cut, reason)]
                         /\ Leave(r) \/ UNCHANGED lockvars
                         /\ cache' = cache
  BY DEF Refuse, Report, Disconnect
<1> DEFINE v == Over(r, cut, reason)
<1>2. ReqsOK(FALSE)
  BY BaseFields
<1>3. Touches(r, v)
  BY <1>1, <1>2, TouchesIs
<1>4. v.pc = "done"
  BY OverIs
<1> HIDE DEF v
<1>5. Calm(r, v) /\ owner' \in {owner, r, NoThread}
  BY <1>1, <1>4 DEF Calm, Leave, lockvars
<1> QED
  BY <1>1, <1>3, <1>4, <1>5, SameStep

LEMMA FilesWork ==
    ASSUME Durable, Base(FALSE, FALSE), NEW io \in IO
    PROVE  io.save /\ io.load
<1>1. faults \in 0..MaxFaults /\ MaxFaults \in Nat
  BY BaseFields
<1>2. ~(Ssd /\ faults < MaxFaults)
  BY <1>1 DEF Durable
<1>3. io = [save |-> TRUE, load |-> TRUE]
  BY <1>2 DEF IO
<1> QED
  BY <1>3

LEMMA PrefixFacts ==
    ASSUME NEW a \in Seq(Cell), NEW b \in Seq(Cell), a = <<>> \/ a = b
    PROVE  IsPrefix(a, b)
<1>1. CASE a = <<>>
  <2>1. Len(a) = 0 /\ Len(b) \in Nat
    BY <1>1
  <2>2. SubSeq(a, 1, 0) = <<>> /\ SubSeq(b, 1, 0) = <<>>
    BY SubSeqEmpty
  <2> QED
    BY <2>1, <2>2 DEF IsPrefix
<1>2. CASE a = b
  BY <1>2 DEF IsPrefix
<1> QED
  BY <1>1, <1>2

(* The state that is left where it is, empty or parked. *)
LEMMA ParkedForIs ==
    ASSUME Recurrent, CacheOK(cache, FALSE, FALSE), CacheOK(cache', FALSE, FALSE), NEW r,
           \/ cache.rt.toks = <<>> \/ cache'.rt = cache.rt \/ cache'.rt.pk # <<>>
           \/ InSlot(cache.rt, cache')
    PROVE  ParkedFor(r)
<1> DEFINE a == cache.rt.rows
           b == cache'.rt.rows
<1>1. RtOK(cache.rt, FALSE, FALSE) /\ RtOK(cache'.rt, FALSE, FALSE)
  BY CacheFields
<1>2. a \in Seq(Cell) /\ b \in Seq(Cell) /\ Len(cache.rt.toks) = Len(a)
  BY <1>1, RtToks
<1>3. CASE cache.rt.toks = <<>> \/ cache'.rt = cache.rt
  <2>1. a = <<>> \/ a = b
    BY <1>2, <1>3
  <2>2. IsPrefix(a, b)
    <3> HIDE DEF a, b
    <3> QED
      BY <1>2, <2>1, PrefixFacts
  <2> QED
    BY <2>2 DEF ParkedFor
<1>4. CASE cache'.rt.pk # <<>>
  BY <1>4 DEF ParkedFor, CutBack
<1>5. CASE InSlot(cache.rt, cache')
  BY <1>5 DEF ParkedFor
<1> QED
  BY <1>3, <1>4, <1>5

LEMMA CellsLeft ==
    ASSUME NEW prompt, Len(prompt) \in Nat, NEW spans, NEW n \in 0..(Len(prompt) - 1)
    PROVE  Cells(prompt, spans, n) # <<>>
<1>1. DOMAIN Cells(prompt, spans, n) = 1..(Len(prompt) - n)
  BY DEF Cells
<1>2. 1 \in 1..(Len(prompt) - n)
  OBVIOUS
<1>3. DOMAIN <<>> = {}
  OBVIOUS
<1> QED
  BY <1>1, <1>2, <1>3

LEMMA StartTraced ==
    ASSUME Recurrent, NSlots >= 2, Durable, Base(FALSE, FALSE), CacheOK(cache', FALSE, FALSE), Traced,
           NEW r \in Threads, Start(r)
    PROVE  Follows
<1>1. CacheOK(cache, FALSE, FALSE) /\ ReqsOK(FALSE) /\ ReqOK(st[r], FALSE)
  BY BaseFields
<1>2. PICK io \in IO :
         Attached(r, prepare_prompt(cache, Body[r].prompt, Body[r].spans, Sid(r), io))
  BY DEF Start
<1> DEFINE prompt == Body[r].prompt
           spans == Body[r].spans
           sid == Sid(r)
           p == prepare_prompt(cache, prompt, spans, sid, io)
           tail == Cells(prompt, spans, p.n)
           v == [st[r] EXCEPT !.pc = "prefill", !.started = TRUE, !.slice = 0, !.tail = tail]
<1>3. prompt \in Seq(Tok) \ {<<>>} /\ Len(prompt) \in Nat
  BY ServerAssumption DEF Tok
<1>4. sid \in Threads \cup {0}
  BY SidIs
<1>5. io.save
  BY FilesWork
<1>6. /\ cache' = p.c
      /\ st' = [st EXCEPT ![r] = v]
  BY <1>2 DEF Attached
<1>7. Kept(cache) /\ (cache.rt.toks = <<>> \/ Known(cache))
  BY DEF Traced, Cleared
<1> HIDE DEF prompt, spans, sid
<1>8. Moved(cache, p.c)
  BY <1>1, <1>3, <1>4, <1>5, <1>7, PrepareMoves
<1>9. p.n \in 0..(Len(prompt) - 1)
  <2>1. ReadyFor(p, prompt, sid, FALSE, FALSE)
    BY <1>1, <1>3, <1>4, PrepareOK
  <2> HIDE DEF p
  <2> QED
    BY <2>1 DEF ReadyFor, Ready
<1> HIDE DEF p
<1>10. tail # <<>>
  BY <1>3, <1>9, CellsLeft
<1> HIDE DEF tail
<1>11. v.pc = "prefill" /\ v.tail = tail
  <2> DEFINE s == st[r]
  <2>1. s = [pc |-> s.pc, started |-> s.started, tail |-> s.tail, conv |-> s.conv,
             my_toks |-> s.my_toks, my_imgs |-> s.my_imgs, generated |-> s.generated,
             slice |-> s.slice, cut |-> s.cut, reason |-> s.reason]
    BY <1>1, ReqFields
  <2>2. v = [s EXCEPT !.pc = "prefill", !.started = TRUE, !.slice = 0, !.tail = tail]
    OBVIOUS
  <2> HIDE DEF s, v
  <2> QED
    BY <2>1, <2>2
<1> HIDE DEF v
<1>12. Calm(r, v)
  BY <1>10, <1>11 DEF Calm
<1>13. Touches(r, v)
  BY <1>1, <1>6, TouchesIs
<1>14. ParkedFor(r)
  BY <1>1, <1>6, <1>8, ParkedForIs DEF Moved
<1> QED
  BY <1>6, <1>8, <1>12, <1>13, <1>14, KnownStep DEF Moved

LEMMA ResumeTraced ==
    ASSUME Recurrent, NSlots >= 2, Durable, Base(FALSE, FALSE), CacheOK(cache', FALSE, FALSE), Traced,
           NEW r \in Threads, Resume(r)
    PROVE  Follows
<1>1. CacheOK(cache, FALSE, FALSE) /\ ReqsOK(FALSE) /\ ReqOK(st[r], FALSE)
  BY BaseFields
<1> DEFINE s == st[r]
           sid == Sid(r)
           had == HadImages(r)
<1>2. PICK io \in IO : Reattached(r, ensure_state(cache, sid, s.my_toks, s.my_imgs, had, io))
  BY DEF Resume
<1> DEFINE my_toks == s.my_toks
           my_imgs == s.my_imgs
           e == ensure_state(cache, sid, my_toks, my_imgs, had, io)
           pc == IF ~e.ok THEN "lost" ELSE IF s.tail # <<>> THEN "prefill" ELSE "gen"
           my == IF e.ok THEN <<>> ELSE s.my_toks
           v == [s EXCEPT !.pc = pc, !.my_toks = my, !.my_imgs = <<>>, !.slice = 0]
           k == [e.c EXCEPT !.rt = Decode(e.c.rt, my_toks)]
<1>3. /\ cache' = IF e.reprefill THEN k ELSE e.c
      /\ st' = [st EXCEPT ![r] = v]
  BY <1>2 DEF Reattached
<1>4. sid \in Threads \cup {0} /\ had \in BOOLEAN
  BY SidIs DEF HadImages
<1>5. sid # 0
  <2>1. st[r].pc = "wait" /\ st[r].started
    BY DEF Resume, At
  <2>2. Streaming(r)
    BY <2>1 DEF Traced, Calm
  <2> QED
    BY <2>2, SidIs DEF Sid
<1>6. Kept(cache) /\ (cache.rt.toks = <<>> \/ Known(cache))
  BY DEF Traced, Cleared
<1>7. io.save /\ io.load
  BY FilesWork
<1>8. v.pc = pc /\ v.tail = s.tail
  <2>1. s = [pc |-> s.pc, started |-> s.started, tail |-> s.tail, conv |-> s.conv,
             my_toks |-> s.my_toks, my_imgs |-> s.my_imgs, generated |-> s.generated,
             slice |-> s.slice, cut |-> s.cut, reason |-> s.reason]
    BY <1>1, ReqFields
  <2>2. v = [s EXCEPT !.pc = pc, !.my_toks = my, !.my_imgs = <<>>, !.slice = 0]
    OBVIOUS
  <2> HIDE DEF s, v, pc, my
  <2> QED
    BY <2>1, <2>2
<1>9. Touches(r, v)
  <2> HIDE DEF v
  <2> QED
    BY <1>1, <1>3, TouchesIs
<1> HIDE DEF v, s, my_toks, my_imgs, had, sid
<1>10. Settled(cache, e, sid)
  BY <1>1, <1>4, <1>6, <1>7, EnsureSettles
<1> HIDE DEF e
<1>11. Calm(r, v)
  BY <1>8 DEF Calm, pc
<1>12. owner' \in {owner, r, NoThread}
  BY TakeLockIs DEF Resume
<1>13. CASE e.c = cache /\ ~e.reprefill /\ (e.ok => cache.owner = sid)
  <2>1. cache' = cache
    BY <1>3, <1>13
  <2>2. CASE e.ok
    <3>1. Known(cache)
      BY <1>5, <1>13, <2>2 DEF Traced, Cleared
    <3>2. ParkedFor(r)
      BY <1>1, <2>1, ParkedForIs
    <3> QED
      BY <1>6, <1>9, <1>11, <2>1, <3>1, <3>2, KnownStep
  <2>3. CASE ~e.ok
    <3>1. v.pc \notin {"prefill", "gen"}
      BY <1>8, <2>3 DEF pc
    <3> QED
      BY <1>9, <1>11, <1>12, <2>1, <3>1, SameStep
  <2> QED
    BY <2>2, <2>3
<1>14. CASE /\ e.ok /\ Kept(e.c) /\ Known(e.c)
            /\ cache.rt.toks = <<>> \/ InSlot(cache.rt, e.c)
            /\ e.reprefill => e.c.origin = 0
  <2>1. /\ Known(cache') /\ Kept(cache')
        /\ cache.rt.toks = <<>> \/ InSlot(cache.rt, cache')
    <3>1. CASE e.reprefill
      <4> DEFINE a == e.c
                 rt == Decode(e.c.rt, my_toks)
      <4>1. cache' = [a EXCEPT !.rt = rt]
        BY <1>3, <3>1
      <4>2. CacheOK(a, FALSE, FALSE)
        <5>1. \/ e.c = cache
              \/ Regained(e, my_toks, sid, had, FALSE, FALSE)
          BY <1>1, <1>4, EnsureOK DEF e
        <5> QED
          BY <1>1, <5>1 DEF Regained
      <4> HIDE DEF a, rt
      <4>3. a = [rt |-> a.rt, imgs |-> a.imgs, slots |-> a.slots, lru |-> a.lru,
                 origin |-> a.origin, owner |-> a.owner]
        BY <4>2, CacheFields
      <4>4. cache'.slots = a.slots /\ cache'.origin = a.origin
        BY <4>1, <4>3
      <4>5. cache'.origin = 0
        BY <1>14, <3>1, <4>4 DEF a
      <4>6. Known(cache')
        BY <4>5 DEF Known
      <4>7. Kept(cache')
        BY <1>14, <4>4 DEF Kept, a
      <4>8. cache.rt.toks = <<>> \/ InSlot(cache.rt, cache')
        BY <1>14, <4>4 DEF InSlot, a
      <4> QED
        BY <4>6, <4>7, <4>8
    <3>2. CASE ~e.reprefill
      BY <1>3, <1>14, <3>2
    <3> QED
      BY <3>1, <3>2
  <2>2. ParkedFor(r)
    BY <1>1, <2>1, ParkedForIs
  <2> QED
    BY <1>9, <1>11, <2>1, <2>2, KnownStep
<1> QED
  BY <1>10, <1>13, <1>14 DEF Settled

(* A request that works on the runtime finds the trace intact. *)
LEMMA AtWork ==
    ASSUME Traced, NEW r \in Threads, owner = r, st[r].pc \in {"prefill", "gen"}
    PROVE  Known(cache) /\ Kept(cache) /\ Calm(r, st[r])
BY DEF Traced, Cleared, Holds

LEMMA PrefillTraced ==
    ASSUME Recurrent, Base(FALSE, FALSE), Traced, NEW r \in Threads, Prefill(r)
    PROVE  Follows
<1> DEFINE s == st[r]
           n == PrefillLen(r)
           tail == s.tail
           now == Prefix(tail, n)
           rest == SubSeq(tail, n + 1, Len(tail))
           rt == cache.rt
           toks == Toks(now)
           d == WithOverrides(r, rt, now)
           e == Decode(d, toks)
           f == Snapshot(e)
           c == [cache EXCEPT !.rt = f]
<1>1. /\ CacheOK(cache, FALSE, FALSE) /\ RtOK(rt, FALSE, FALSE) /\ ReqsOK(FALSE) /\ ReqOK(s, FALSE)
  BY BaseFields
<1>2. /\ owner = r /\ s.pc = "prefill" /\ ~Overflows(rt, now) /\ cache' = c
      /\ \/ /\ Streaming(r)
            /\ st' = [st EXCEPT ![r] = Pause([s EXCEPT !.tail = rest], c)]
         \/ st' = [st EXCEPT ![r].tail = rest,
                             ![r].pc = IF rest = <<>> THEN "gen" ELSE "prefill"]
  BY DEF Prefill, Holds, At
<1>3. Known(cache) /\ Kept(cache) /\ tail # <<>>
  BY <1>2, AtWork DEF Calm
<1>4. tail \in Seq(Cell) /\ n \in 0..Len(tail) /\ n > 0
  BY <1>1, <1>3, ReqFields, PrefillLenIs
<1> HIDE DEF n, tail
<1>5. now \in Seq(Cell) /\ rest \in Seq(Cell) /\ Len(now) = n
  BY <1>4, TwoParts, PrefixElems
<1>6. toks \in Seq(Tok) /\ Len(toks) = n
  <2> HIDE DEF now
  <2> QED
    BY <1>5, ToksType
<1>7. Len(rt.rows) \in Nat /\ Len(rt.rows) + n <= NCtx
  <2>1. Len(rt.rows) \in Nat /\ n \in Nat
    BY <1>1, <1>4, RtToks
  <2>2. ~(Len(rt.rows) + Len(now) > NCtx)
    BY <1>2 DEF Overflows, n_past
  <2> HIDE DEF rt, now
  <2> QED
    BY <1>5, <2>1, <2>2, Consts
<1> HIDE DEF now, rest, rt, toks
<1>8. RtOK(d, FALSE, FALSE) /\ d.toks = rt.toks /\ d.rows = rt.rows
  BY <1>1, <1>5, WithOverridesOK
<1>9. d.pk = rt.pk
  BY <1>1, OverridesPk
<1> HIDE DEF d
<1>10. RtOK(e, FALSE, FALSE) /\ Later(d, e)
  <2>1. toks \in Seq(Tok) \ {<<>>} /\ Len(d.rows) + Len(toks) <= NCtx
    BY <1>4, <1>6, <1>7, <1>8
  <2> QED
    BY <1>8, <2>1, DecodeLater
<1> HIDE DEF e
<1>11. Later(rt, e)
  BY <1>8, <1>9, <1>10 DEF Later
<1>12. RtOK(f, FALSE, FALSE) /\ Later(rt, f)
  BY <1>10, <1>11, SnapshotLater
<1> HIDE DEF f
<1>13. Known(c) /\ Kept(c) /\ CacheOK(c, FALSE, FALSE)
  BY <1>1, <1>3, <1>12, KnownGrows, CacheRt DEF rt
<1> HIDE DEF c
<1>14. ParkedFor(r)
  BY <1>2 DEF ParkedFor, At, s
<1>15. CASE /\ Streaming(r)
            /\ st' = [st EXCEPT ![r] = Pause([s EXCEPT !.tail = rest], c)]
  <2> DEFINE u == [s EXCEPT !.tail = rest]
             v == Pause(u, c)
  <2>1. ReqOK(u, FALSE)
    BY ZenonT(60), <1>1, <1>5, TailIs
  <2>2. st' = [st EXCEPT ![r] = v]
    BY <1>15
  <2> HIDE DEF u
  <2>3. v.pc = "paused"
    BY <1>13, <2>1, PauseIs
  <2> HIDE DEF v
  <2>4. Calm(r, v)
    BY <1>15, <2>3 DEF Calm
  <2>5. Touches(r, v)
    BY <1>1, <2>2, TouchesIs
  <2> QED
    BY <1>2, <1>13, <1>14, <2>4, <2>5, KnownStep
<1>16. CASE st' = [st EXCEPT ![r].tail = rest,
                             ![r].pc = IF rest = <<>> THEN "gen" ELSE "prefill"]
  <2> DEFINE pc == IF rest = <<>> THEN "gen" ELSE "prefill"
             u == [s EXCEPT !.tail = rest]
             v == [u EXCEPT !.pc = pc]
  <2>1. pc \in PCs /\ pc \in {"prefill", "gen"} /\ (pc = "prefill" => rest # <<>>)
    BY DEF PCs
  <2>2. st' = [st EXCEPT ![r] = v]
    BY <1>16 DEF s
  <2> HIDE DEF pc
  <2>3. v.pc = pc /\ v.tail = rest
    <3>1. ReqOK(u, FALSE) /\ u.tail = rest
      BY ZenonT(60), <1>1, <1>5, TailIs
    <3> HIDE DEF u
    <3> QED
      BY <2>1, <3>1, PcIs
  <2> HIDE DEF v
  <2>4. Calm(r, v)
    BY <2>1, <2>3 DEF Calm
  <2>5. Touches(r, v)
    BY <1>1, <2>2, TouchesIs
  <2> QED
    BY <1>2, <1>13, <1>14, <2>4, <2>5, KnownStep
<1> QED
  BY <1>2, <1>15, <1>16

LEMMA GenerateTraced ==
    ASSUME Recurrent, Base(FALSE, FALSE), Traced, NEW r \in Threads, Generate(r)
    PROVE  Follows
<1> DEFINE s == st[r]
           used == IF s.slice < TimeSlice THEN s.slice + 1 ELSE TimeSlice
           rt == cache.rt
<1>1. PICK t \in GenToks :
        LET c == [cache EXCEPT !.rt = Decode(@, <<t>>)]
            u == [st[r] EXCEPT !.conv = Append(@, Text(t)), !.generated = @ + 1, !.slice = used]
        IN  /\ cache' = c
            /\ \/ Streaming(r) /\ st' = [st EXCEPT ![r] = Pause(u, c)]
               \/ st' = [st EXCEPT ![r] = u]
  BY DEF Generate
<1> DEFINE e == Decode(rt, <<t>>)
           c == [cache EXCEPT !.rt = e]
           conv == Append(s.conv, Text(t))
           gen == s.generated + 1
           toks == c.rt.toks
           imgs == c.imgs
           u == [s EXCEPT !.conv = conv, !.generated = gen, !.slice = used]
           v == Pause(u, c)
<1>2. cache' = c /\ (\/ Streaming(r) /\ st' = [st EXCEPT ![r] = v]
                     \/ st' = [st EXCEPT ![r] = u])
  BY <1>1
<1>3. owner = r /\ s.pc = "gen" /\ ~(n_past(rt) + 1 >= NCtx)
  BY DEF Generate, Holds, At, AtLimit
<1>4. /\ CacheOK(cache, FALSE, FALSE) /\ RtOK(rt, FALSE, FALSE) /\ ReqsOK(FALSE) /\ ReqOK(s, FALSE)
  BY BaseFields
<1>5. Known(cache) /\ Kept(cache)
  BY <1>3, AtWork
<1>6. s = [pc |-> s.pc, started |-> s.started, tail |-> s.tail, conv |-> s.conv,
           my_toks |-> s.my_toks, my_imgs |-> s.my_imgs, generated |-> s.generated,
           slice |-> s.slice, cut |-> s.cut, reason |-> s.reason]
  BY <1>4, ReqFields
<1>7. RtOK(e, FALSE, FALSE) /\ Later(rt, e)
  <2> DEFINE one == <<t>>
  <2>1. one \in Seq(Tok) \ {<<>>} /\ Len(one) = 1
    BY ServerAssumption DEF Tok
  <2>2. Len(rt.rows) \in Nat
    BY <1>4, RtToks
  <2>3. Len(rt.rows) + Len(one) <= NCtx
    BY <1>3, <2>1, <2>2, Consts DEF n_past
  <2> HIDE DEF one
  <2>4. RtOK(Decode(rt, one), FALSE, FALSE) /\ Later(rt, Decode(rt, one))
    BY <1>4, <2>1, <2>3, DecodeLater
  <2> QED
    BY <2>4 DEF one
<1> HIDE DEF e
<1>8. Known(c) /\ Kept(c)
  BY <1>4, <1>5, <1>7, KnownGrows
<1>9. ParkedFor(r)
  BY <1>3 DEF ParkedFor, At
<1> HIDE DEF s, conv, gen, used
<1>10. u = [pc |-> s.pc, started |-> s.started, tail |-> s.tail, conv |-> conv,
            my_toks |-> s.my_toks, my_imgs |-> s.my_imgs, generated |-> gen,
            slice |-> used, cut |-> s.cut, reason |-> s.reason]
  <2>1. u = [s EXCEPT !.conv = conv, !.generated = gen, !.slice = used]
    OBVIOUS
  <2> HIDE DEF u
  <2> QED
    BY <1>6, <2>1, Zenon
<1>11. v = [u EXCEPT !.pc = "paused", !.my_toks = toks, !.my_imgs = imgs]
  BY DEF Pause
<1> HIDE DEF u, v, c, toks, imgs
<1>12. u.pc = "gen" /\ v.pc = "paused"
  BY <1>3, <1>10, <1>11
<1>13. CASE Streaming(r) /\ st' = [st EXCEPT ![r] = v]
  <2>1. Calm(r, v)
    BY <1>12, <1>13 DEF Calm
  <2>2. Touches(r, v)
    BY <1>4, <1>13, TouchesIs
  <2> QED
    BY <1>2, <1>8, <1>9, <2>1, <2>2, KnownStep
<1>14. CASE st' = [st EXCEPT ![r] = u]
  <2>1. Calm(r, u)
    BY <1>12 DEF Calm
  <2>2. Touches(r, u)
    BY <1>4, <1>14, TouchesIs
  <2> QED
    BY <1>2, <1>8, <1>9, <2>1, <2>2, KnownStep
<1> QED
  BY <1>2, <1>13, <1>14

(* The catch block of a stream leaves the slot of origin as it was. *)
LEMMA StreamErrorTraced ==
    ASSUME Base(FALSE, FALSE), Traced, NEW r \in Threads, StreamError(r)
    PROVE  Follows
<1>1. CacheOK(cache, FALSE, FALSE) /\ ReqsOK(FALSE) /\ ReqOK(st[r], FALSE)
  BY BaseFields
<1>2. /\ Throws(r) /\ Leave(r)
      /\ st' = [st EXCEPT ![r] = Failed(r, "ended")]
  BY DEF StreamError
<1>3. PICK rt \in Broken(r) : cache' = [cache EXCEPT !.rt = Reset(rt), !.owner = 0]
  BY DEF StreamError, Dropped
<1> DEFINE d == Reset(rt)
           c == cache
           v == Failed(r, "ended")
<1>4. d.toks = <<>>
  BY DEF Reset, NoState
<1>5. cache' = [c EXCEPT !.rt = d, !.owner = 0]
  BY <1>3
<1>6. c = [rt |-> c.rt, imgs |-> c.imgs, slots |-> c.slots, lru |-> c.lru,
           origin |-> c.origin, owner |-> c.owner]
  BY <1>1, CacheFields
<1> HIDE DEF c, d
<1>7. cache'.rt = d /\ cache'.owner = 0 /\ cache'.slots = c.slots
  BY <1>5, <1>6
<1>8. "ended" \in PCs
  BY DEF PCs
<1>9. v.pc = "ended"
  BY <1>1, <1>8, FailedIs
<1> HIDE DEF v
<1>10. Touches(r, v)
  BY <1>1, <1>2, TouchesIs DEF v
<1>11. owner' = NoThread
  BY <1>2 DEF Leave
<1>12. Cleared'
  BY <1>4, <1>7, <1>11, NoThreadAssumption DEF Cleared, Holds
<1>13. Kept(cache')
  BY <1>7 DEF Kept, Traced, c
<1>14. \A u \in Threads : Calm(u, st'[u])
  BY <1>9, <1>10 DEF Traced, Touches, Calm
<1>15. Traced'
  BY <1>12, <1>13, <1>14 DEF Traced, Calm, Streaming
<1>16. ASSUME NEW u \in Threads PROVE ParkedFor(u)
  <2>1. st[u].pc = "wait" => st'[u].pc \notin {"prefill", "gen"}
    BY <1>9, <1>10 DEF Touches
  <2> QED
    BY <2>1 DEF ParkedFor, At
<1> QED
  BY <1>15, <1>16 DEF Follows

(* A re-prefill that throws has left no slot of origin. *)
LEMMA ResumeErrorTraced ==
    ASSUME NSlots >= 2, Durable, Base(FALSE, FALSE), Traced, NEW r \in Threads, ResumeError(r)
    PROVE  Follows
<1>1. CacheOK(cache, FALSE, FALSE) /\ ReqsOK(FALSE) /\ ReqOK(st[r], FALSE)
  BY BaseFields
<1> DEFINE v == Failed(r, "ended")
           w == FALSE
<1>2. st' = [st EXCEPT ![r] = v]
  BY DEF ResumeError
<1>3. PICK e : Ensured(e, r) /\ e.reprefill /\ cache'.slots = e.c.slots /\ cache'.origin = e.c.origin
  <2>1. w \in BOOLEAN /\ Base(w, w)
    OBVIOUS
  <2> HIDE DEF w
  <2> QED
    BY <2>1, ResumeErrorIs
<1>4. PICK io \in IO :
         e = ensure_state(cache, Sid(r), st[r].my_toks, st[r].my_imgs, HadImages(r), io)
  BY <1>3 DEF Ensured
<1>5. io.save /\ io.load
  BY FilesWork
<1>6. Kept(cache) /\ (cache.rt.toks = <<>> \/ Known(cache))
  BY DEF Traced, Cleared
<1>7. Sid(r) \in Threads \cup {0} /\ HadImages(r) \in BOOLEAN
  BY SidIs DEF HadImages
<1>8. Settled(cache, e, Sid(r))
  BY <1>1, <1>4, <1>5, <1>6, <1>7, EnsureSettles
<1>9. Kept(e.c) /\ e.c.origin = 0
  BY <1>3, <1>8 DEF Settled
<1>10. Known(cache') /\ Kept(cache')
  BY <1>3, <1>9 DEF Known, Kept
<1>11. "ended" \in PCs
  BY DEF PCs
<1>12. v.pc = "ended"
  BY <1>1, <1>11, FailedIs
<1> HIDE DEF v
<1>13. Touches(r, v)
  BY <1>1, <1>2, TouchesIs
<1>14. Calm(r, v)
  BY <1>12 DEF Calm
<1>15. ParkedFor(r)
  BY <1>12, <1>13 DEF ParkedFor, Touches
<1> QED
  BY <1>10, <1>13, <1>14, <1>15, KnownStep

-----------------------------------------------------------------------------
LEMMA TracedInit ==
    ASSUME SInit
    PROVE  Traced
<1>1. cache = InitCache /\ \A r \in Threads : st[r] = NewState(r)
  BY DEF SInit
<1>2. cache.origin = 0 /\ cache.slots = [s \in Slots |-> EmptySlot]
  BY <1>1 DEF InitCache
<1>3. Known(cache)
  BY <1>2 DEF Known
<1>4. Kept(cache)
  BY <1>2 DEF Kept, EmptySlot
<1>5. \A r \in Threads : Calm(r, st[r])
  <2>1. \A r \in Threads : NewState(r).pc = "idle" /\ NewState(r).started = FALSE
    BY NewIs
  <2> QED
    BY <1>1, <2>1 DEF Calm
<1> QED
  BY <1>3, <1>4, <1>5 DEF Traced

LEMMA TracedNext ==
    ASSUME Recurrent, NSlots >= 2, Durable, Inv(FALSE, FALSE, FALSE), Traced,
           SNext, ~PlainError
    PROVE  Follows
<1>1. Base(FALSE, FALSE) /\ faults \in 0..MaxFaults /\ MaxFaults \in Nat
  BY BaseFields DEF Inv
<1>2. CacheOK(cache', FALSE, FALSE)
  <2>1. Inv(FALSE, FALSE, FALSE)'
    BY InvNext
  <2> QED
    BY <2>1 DEF Inv, Base
<1>3. ~Crash
  BY <1>1 DEF Crash, Durable
<1>4. PICK r \in Threads : Queue(r) \/ Work(r) \/ Environment(r)
  BY <1>3 DEF SNext
<1>5. CASE Queue(r) \/ Heartbeat(r)
  BY <1>1, <1>5, WaitTraced
<1>6. CASE Start(r)
  BY <1>1, <1>2, <1>6, StartTraced
<1>7. CASE Resume(r)
  BY <1>1, <1>2, <1>7, ResumeTraced
<1>8. CASE Prefill(r)
  BY <1>1, <1>8, PrefillTraced
<1>9. CASE Generate(r)
  BY <1>1, <1>9, GenerateTraced
<1>10. CASE Stop(r) \/ Truncate(r)
  BY <1>1, <1>10, EndTraced
<1>11. ~Unwind(r)
  BY DEF Unwind, At, Traced, Calm
<1>12. CASE Report(r) \/ Refuse(r) \/ Disconnect(r)
  BY <1>1, <1>12, OverTraced
<1>13. CASE StreamError(r)
  BY <1>1, <1>13, StreamErrorTraced
<1>15. CASE ResumeError(r)
  BY <1>1, <1>15, ResumeErrorTraced
<1>14. ~Error(r)
  BY DEF PlainError
<1> QED
  BY <1>4, <1>5, <1>6, <1>7, <1>8, <1>9, <1>10, <1>11, <1>12, <1>13, <1>14, <1>15 DEF Work, Environment

(* A conversation that is switched away from can be taken up again: a      *)
(* request that attaches to the runtime and neither continues the live     *)
(* state nor rewinds it to a checkpoint leaves it in a slot, although      *)
(* save_live() writes nothing when the slot of origin looks as long as the *)
(* live state.  With recurrent layers and two slots or more, as long as no *)
(* slot file fails, the process is not killed, and no request without a    *)
(* stream throws.                                                          *)
THEOREM SwitchParks ==
    Recurrent /\ NSlots >= 2 /\ Durable /\ SSpec /\ [][~PlainError]_svars => ParkedOnSwitch
<1> SUFFICES ASSUME Recurrent, NSlots >= 2, Durable
             PROVE  SSpec /\ [][~PlainError]_svars => ParkedOnSwitch
  OBVIOUS
<1> DEFINE I == Inv(FALSE, FALSE, FALSE) /\ Traced
<1>1. SInit => I
  BY InvInit, TracedInit
<1>2. I /\ [SNext]_svars /\ [~PlainError]_svars => I'
  <2> SUFFICES ASSUME I, [SNext]_svars, [~PlainError]_svars PROVE I'
    OBVIOUS
  <2>1. Inv(FALSE, FALSE, FALSE)'
    BY InvNext
  <2>2. CASE UNCHANGED svars
    <3>1. Traced'
      BY <2>2 DEF svars, lockvars, Traced, Cleared, Holds, Calm, Streaming
    <3> QED
      BY <2>1, <3>1
  <2>3. CASE SNext /\ ~PlainError
    <3>1. Traced'
      BY <2>3, TracedNext DEF Follows
    <3> QED
      BY <2>1, <3>1
  <2> QED
    BY <2>2, <2>3
<1>3. I /\ [SNext]_svars /\ [~PlainError]_svars =>
        [\A r \in Threads :
           /\ At(r, "wait") /\ st'[r].pc \in {"prefill", "gen"}
           /\ ~CutBack
           /\ ~IsPrefix(cache.rt.rows, cache'.rt.rows)
           => \E s \in Slots : cache'.slots[s].blob = SaveState(cache.rt)]_svars
  <2> SUFFICES ASSUME I, SNext, ~PlainError, NEW r \in Threads PROVE ParkedFor(r)
    BY DEF ParkedFor, InSlot
  <2> QED
    BY TracedNext DEF Follows
<1> HIDE DEF I
<1> QED
  BY <1>1, <1>2, <1>3, PTL DEF SSpec, ParkedOnSwitch

=============================================================================
