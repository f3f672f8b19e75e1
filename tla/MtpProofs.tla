------------------------------ MODULE MtpProofs ------------------------------
(***************************************************************************)
(* Proofs about Mtp.                                                       *)
(*                                                                         *)
(* Everything rests on one statement: the runtime is exactly what the main *)
(* model makes of the first n tokens of conv, RtOK(rt, n).  decode() and   *)
(* prefill() take RtOK(r, n) to RtOK(r', n + Len(t)) when t goes on with   *)
(* the conversation (DecodeOn, PrefillOn), and on such a state the argmax  *)
(* is the next token of it (ArgmaxExact).  MInd says, for each place the   *)
(* stream can be in, how many tokens the state holds and how many of them  *)
(* the client has; between Draft and Settle it describes the half-done     *)
(* cycle instead.  The step that matters is Settle: the verdict is right   *)
(* as far as the drafts are (AcceptedRight, by the least draft that is     *)
(* not), so each of the three ways back leaves RtOK(rt', n + a + 1).       *)
(*                                                                         *)
(* The results are about the requests that Regular describes.  The others  *)
(* break the code: deep drafts run over the context (the run               *)
(* bug_mtp_context), and a rejected token-by-token verify of a recurrent   *)
(* M-RoPE model is decoded again at positions that have moved on.          *)
(***************************************************************************)
EXTENDS Mtp, SequenceTheorems, WellFoundedInduction, TLAPS

-----------------------------------------------------------------------------
(* Every set of naturals has a least element: the induction of this module. *)
LEMMA LeastNat ==
    ASSUME NEW T, T \subseteq Nat, T # {}
    PROVE  \E x \in T : \A y \in T : x <= y
<1>1. PICK x \in T : \A y \in T : ~(<<y, x>> \in OpToRel(<, Nat))
  BY NatLessThanWellFounded, WFMin, Zenon
<1>2. \A y \in T : ~(y < x)
  BY <1>1 DEF OpToRel
<1> QED
  BY <1>2

(* The rows of the first n tokens of the conversation. *)
RowsTo(n) == [i \in 1..n |-> [tok |-> conv[i], pos |-> i - 1]]

Hidden == Seq(Tokens \cup {NoTok})
RtType == [toks : Seq(Tokens), rows : Seq([tok : Tokens, pos : Nat]), gdn : Seq(Tokens),
           rope : Nat, nextn : Seq([tok : Tokens, hid : Hidden]), hidden : Hidden]

ConvOK ==
    /\ conv \in Seq(Tokens) /\ Len(conv) = NCtx + 1
    /\ \A i \in 1..PLen : conv[i] = Prompt[i]

LEMMA Consts ==
    /\ PLen \in Nat \ {0} /\ PLen + 1 < NCtx /\ NCtx \in Nat /\ NoTok \notin Tokens
    /\ Prompt \in Seq(Tokens)
BY MtpAssumption DEF PLen, NoTok

(* A part of the conversation. *)
LEMMA Part ==
    ASSUME ConvOK, NEW n \in Nat, NEW m \in Nat, n <= m, m <= NCtx + 1
    PROVE  /\ SubSeq(conv, n + 1, m) \in Seq(Tokens)
           /\ Len(SubSeq(conv, n + 1, m)) = m - n
           /\ \A i \in 1..(m - n) : SubSeq(conv, n + 1, m)[i] = conv[n + i]
           /\ Prefix(conv, n) \in Seq(Tokens) /\ Len(Prefix(conv, n)) = n
           /\ Prefix(conv, n) \o SubSeq(conv, n + 1, m) = Prefix(conv, m)
<1>1. \A i \in 1..(NCtx + 1) : conv[i] \in Tokens
  BY ElementOfSeq DEF ConvOK
<1>2. \A i \in n + 1 .. m : conv[i] \in Tokens
  BY <1>1, Consts
<1>3. \A i \in 1 .. n : conv[i] \in Tokens
  BY <1>1, Consts
<1>4. SubSeq(conv, n + 1, m) \in Seq(Tokens) /\ Len(SubSeq(conv, n + 1, m)) = m - n
      /\ \A i \in 1..(m - n) : SubSeq(conv, n + 1, m)[i] = conv[n + i]
  <2>1. n + 1 \in Int /\ m \in Int
    OBVIOUS
  <2> QED
    BY <1>2, <2>1, SubSeqProperties
<1>5. Prefix(conv, n) \in Seq(Tokens) /\ Len(Prefix(conv, n)) = n
  BY <1>3, SubSeqProperties DEF Prefix
<1>6. Prefix(conv, n) \o SubSeq(conv, n + 1, m) = Prefix(conv, m)
  <2>1. 1 \in 1 .. Len(conv) + 1 /\ n \in 1 - 1 .. Len(conv) /\ m \in n .. Len(conv)
    BY Consts DEF ConvOK
  <2> QED
    BY <2>1, ConcatAdjacentSubSeq DEF Prefix, ConvOK
<1> QED
  BY <1>4, <1>5, <1>6

LEMMA PrefixType ==
    ASSUME ConvOK, NEW n \in Nat, n <= NCtx + 1
    PROVE  Prefix(conv, n) \in Seq(Tokens)
BY Part

(* The rows after n tokens, and the tokens they stand for. *)
LEMMA RowsTyped ==
    ASSUME ConvOK, NEW n \in 0..(NCtx + 1), NEW r, r.rows = RowsTo(n)
    PROVE  /\ RowsTo(n) \in Seq([tok : Tokens, pos : Nat])
           /\ Len(RowsTo(n)) = n /\ n_past(r) = n
           /\ Seen(r) = Prefix(conv, n)
<1>1. \A i \in 1..(NCtx + 1) : conv[i] \in Tokens
  BY ElementOfSeq DEF ConvOK
<1>2. n \in Nat /\ \A i \in 1..n : conv[i] \in Tokens /\ i - 1 \in Nat
  BY <1>1, Consts
<1>3. RowsTo(n) \in Seq([tok : Tokens, pos : Nat]) /\ Len(RowsTo(n)) = n
  <2>1. \A i \in 1..n : [tok |-> conv[i], pos |-> i - 1] \in [tok : Tokens, pos : Nat]
    BY <1>2
  <2> QED
    BY <2>1, <1>2 DEF RowsTo
<1>4. Seen(r) = [i \in 1..n |-> conv[i]]
  BY DEF Seen, RowsTo
<1>5. Prefix(conv, n) = [i \in 1..n |-> conv[i]]
  <2>1. Prefix(conv, n) \in Seq(Tokens) /\ Len(Prefix(conv, n)) = n
        /\ \A i \in 1..n : Prefix(conv, n)[i] = conv[i]
    BY <1>2, SubSeqProperties DEF Prefix
  <2>2. DOMAIN Prefix(conv, n) = 1..n
    BY <2>1, LenProperties
  <2>3. Prefix(conv, n) = [i \in DOMAIN Prefix(conv, n) |-> Prefix(conv, n)[i]]
    BY <2>1, LenProperties
  <2> QED
    BY <2>1, <2>2, <2>3
<1> QED
  BY <1>3, <1>4, <1>5 DEF n_past

(* t goes on with the conversation after n tokens. *)
Continues(t, n) ==
    /\ t \in Seq(Tokens) /\ n + Len(t) <= NCtx + 1
    /\ \A i \in 1..Len(t) : t[i] = conv[n + i]

LEMMA ContinuesPrefix ==
    ASSUME ConvOK, NEW n \in Nat, NEW t, Continues(t, n)
    PROVE  t = SubSeq(conv, n + 1, n + Len(t)) /\ Prefix(conv, n) \o t = Prefix(conv, n + Len(t))
<1> DEFINE m == n + Len(t)
           u == SubSeq(conv, n + 1, m)
<1>1. m \in Nat /\ n <= m /\ m <= NCtx + 1 /\ m - n = Len(t) /\ t \in Seq(Tokens)
  BY LenProperties DEF Continues
<1>2. u \in Seq(Tokens) /\ Len(u) = Len(t) /\ \A i \in 1..Len(t) : u[i] = conv[n + i]
  <2> HIDE DEF m
  <2> QED
    BY <1>1, Part
<1>3. t = u
  <2> HIDE DEF u
  <2> QED
    BY <1>1, <1>2, SeqEqual DEF Continues
<1>4. Prefix(conv, n) \o u = Prefix(conv, m)
  <2> HIDE DEF m
  <2> QED
    BY <1>1, Part
<1> QED
  BY <1>3, <1>4

(* The rows and the recurrent state are those of the first n tokens; the   *)
(* next row's position is n.                                               *)
RowsOK(r, n) ==
    /\ r \in RtType
    /\ r.rows = RowsTo(n)
    /\ kind.gdn => r.gdn = Prefix(conv, n)

PosOK(r, n) == kind.mrope => r.rope = n

(* A forward pass over any tokens. *)
LEMMA ForwardFields ==
    ASSUME ConvOK, NEW n \in 0..(NCtx + 1), NEW r, RowsOK(r, n), PosOK(r, n), NEW t \in Seq(Tokens)
    PROVE  /\ Forward(r, t) \in RtType
           /\ Forward(r, t).toks = r.toks /\ Forward(r, t).rope = r.rope
           /\ Forward(r, t).nextn = r.nextn /\ Forward(r, t).hidden = r.hidden
           /\ Forward(r, t).rows = RowsTo(n) \o [i \in 1..Len(t) |-> [tok |-> t[i], pos |-> n + i - 1]]
           /\ kind.gdn => Forward(r, t).gdn = Prefix(conv, n) \o t
<1> DEFINE new == [i \in DOMAIN t |-> [tok |-> t[i], pos |-> (IF kind.mrope THEN r.rope ELSE n_past(r)) + i - 1]]
           row(i) == [tok |-> t[i], pos |-> n + i - 1]
<1>0. n \in Nat
  BY Consts
<1>1. new = [i \in 1..Len(t) |-> row(i)]
  <2>1. n_past(r) = n
    BY RowsTyped DEF RowsOK
  <2>2. (IF kind.mrope THEN r.rope ELSE n_past(r)) = n
    BY <2>1 DEF PosOK
  <2> QED
    BY <2>2, LenProperties
<1>2. new \in Seq([tok : Tokens, pos : Nat])
  <2>1. \A i \in 1..Len(t) : row(i) \in [tok : Tokens, pos : Nat]
    BY ElementOfSeq, <1>0
  <2>2. Len(t) \in Nat
    OBVIOUS
  <2> HIDE DEF new
  <2> QED
    BY <1>1, <2>1, <2>2
<1>3. r = [toks |-> r.toks, rows |-> r.rows, gdn |-> r.gdn, rope |-> r.rope, nextn |-> r.nextn,
           hidden |-> r.hidden]
  BY DEF RowsOK, RtType
<1>4. /\ r.toks \in Seq(Tokens) /\ r.rows \in Seq([tok : Tokens, pos : Nat]) /\ r.gdn \in Seq(Tokens)
      /\ r.rope \in Nat /\ r.nextn \in Seq([tok : Tokens, hid : Hidden]) /\ r.hidden \in Hidden
  BY DEF RowsOK, RtType
<1> DEFINE rows == r.rows \o new
           gdn == IF kind.gdn THEN r.gdn \o t ELSE r.gdn
<1>5. Forward(r, t) = [toks |-> r.toks, rows |-> rows, gdn |-> gdn, rope |-> r.rope, nextn |-> r.nextn,
                       hidden |-> r.hidden]
  <2>1. Forward(r, t) = [r EXCEPT !.rows = rows, !.gdn = gdn]
    BY DEF Forward
  <2> HIDE DEF rows, gdn
  <2> QED
    BY <2>1, <1>3, Zenon
<1>6. rows \in Seq([tok : Tokens, pos : Nat]) /\ gdn \in Seq(Tokens)
  <2> HIDE DEF new
  <2> QED
    BY <1>2, <1>4, ConcatProperties
<1>7. rows = RowsTo(n) \o [i \in 1..Len(t) |-> row(i)]
  <2> HIDE DEF new, row
  <2> QED
    BY <1>1 DEF RowsOK
<1>8. kind.gdn => gdn = Prefix(conv, n) \o t
  BY DEF RowsOK
<1>9. [toks |-> r.toks, rows |-> rows, gdn |-> gdn, rope |-> r.rope, nextn |-> r.nextn,
       hidden |-> r.hidden] \in RtType
  <2> HIDE DEF rows, gdn
  <2> QED
    BY <1>6, <1>4 DEF RtType
<1> HIDE DEF rows, gdn
<1> QED
  BY <1>5, <1>7, <1>8, <1>9

(* Rows for tokens that go on with the conversation are its rows. *)
LEMMA RowsExtend ==
    ASSUME ConvOK, NEW n \in Nat, NEW t, Continues(t, n)
    PROVE  RowsTo(n) \o [i \in 1..Len(t) |-> [tok |-> t[i], pos |-> n + i - 1]] = RowsTo(n + Len(t))
<1> DEFINE R == [tok : Tokens, pos : Nat]
           m == n + Len(t)
           new == [i \in 1..Len(t) |-> [tok |-> t[i], pos |-> n + i - 1]]
<1>1. Len(t) \in Nat /\ m \in 0..(NCtx + 1) /\ n \in 0..(NCtx + 1) /\ t \in Seq(Tokens)
  BY LenProperties, Consts DEF Continues
<1>2. \A k \in 0..(NCtx + 1) : RowsTo(k) \in Seq(R) /\ Len(RowsTo(k)) = k
  <2> TAKE k \in 0..(NCtx + 1)
  <2>1. [rows |-> RowsTo(k)].rows = RowsTo(k)
    OBVIOUS
  <2> QED
    BY <2>1, RowsTyped
<1>3. new \in Seq(R) /\ Len(new) = Len(t)
  <2>1. \A i \in 1..Len(t) : [tok |-> t[i], pos |-> n + i - 1] \in R
    BY <1>1, ElementOfSeq
  <2> QED
    BY <1>1, <2>1
<1>4. /\ RowsTo(n) \o new \in Seq(R) /\ Len(RowsTo(n) \o new) = m
      /\ \A i \in 1..m : (RowsTo(n) \o new)[i] = IF i <= n THEN RowsTo(n)[i] ELSE new[i - n]
  <2>1. RowsTo(n) \in Seq(R) /\ Len(RowsTo(n)) = n
    BY <1>1, <1>2
  <2> HIDE DEF R, new
  <2>2. RowsTo(n) \o new \in Seq(R)
    BY <2>1, <1>3, ConcatProperties, Zenon
  <2>3. Len(RowsTo(n) \o new) = Len(RowsTo(n)) + Len(new)
    BY <2>1, <1>3, ConcatProperties, Zenon
  <2>4. \A i \in 1..Len(RowsTo(n)) + Len(new) : (RowsTo(n) \o new)[i] =
           IF i <= Len(RowsTo(n)) THEN RowsTo(n)[i] ELSE new[i - Len(RowsTo(n))]
    BY <2>1, <1>3, ConcatProperties, Zenon
  <2>5. Len(RowsTo(n)) + Len(new) = m
    BY <2>1, <1>3
  <2> QED
    BY <2>1, <2>2, <2>3, <2>4, <2>5
<1>6. \A i \in 1..m : RowsTo(m)[i] = IF i <= n THEN RowsTo(n)[i] ELSE new[i - n]
  BY <1>1 DEF RowsTo, Continues
<1>7. RowsTo(m) \in Seq(R) /\ Len(RowsTo(m)) = m
  BY <1>1, <1>2
<1> HIDE DEF R, new, m
<1>8. RowsTo(n) \o new = RowsTo(m)
  BY <1>7, <1>4, <1>6, SeqEqual
<1> QED
  BY <1>8 DEF m, new

LEMMA ForwardOn ==
    ASSUME ConvOK, NEW n \in Nat, NEW r, RowsOK(r, n), PosOK(r, n), NEW t, Continues(t, n)
    PROVE  RowsOK(Forward(r, t), n + Len(t))
<1>1. n \in 0..(NCtx + 1) /\ t \in Seq(Tokens)
  BY LenProperties, Consts DEF Continues
<1>2. Forward(r, t) \in RtType
  BY <1>1, ForwardFields
<1>3. Forward(r, t).rows = RowsTo(n + Len(t))
  <2>1. Forward(r, t).rows = RowsTo(n) \o [i \in 1..Len(t) |-> [tok |-> t[i], pos |-> n + i - 1]]
    BY <1>1, ForwardFields, Zenon
  <2>2. RowsTo(n) \o [i \in 1..Len(t) |-> [tok |-> t[i], pos |-> n + i - 1]] = RowsTo(n + Len(t))
    BY RowsExtend, Zenon
  <2> QED
    BY <2>1, <2>2, Zenon
<1>4. kind.gdn => Forward(r, t).gdn = Prefix(conv, n + Len(t))
  BY <1>1, ForwardFields, ContinuesPrefix, ZenonT(40)
<1> QED
  BY <1>2, <1>3, <1>4 DEF RowsOK

(* On such a state the main model says the next token. *)
LEMMA ArgmaxExact ==
    ASSUME ConvOK, NEW n \in 0..NCtx, NEW r, RowsOK(r, n)
    PROVE  Argmax(r) = {conv[n + 1]}
<1>1. n \in 0..(NCtx + 1) /\ n < Len(conv)
  BY Consts DEF ConvOK
<1>2. n_past(r) = n /\ Seen(r) = Prefix(conv, n)
  BY <1>1, RowsTyped DEF RowsOK
<1>3. Sound(r)
  BY <1>2 DEF Sound, RowsOK, RowsTo
<1> QED
  BY <1>1, <1>2, <1>3 DEF Argmax

-----------------------------------------------------------------------------
(* The draft block after n tokens: a row for each but the first. *)
NextnOK(r, n) ==
    /\ Len(r.nextn) = IF n = 0 THEN 0 ELSE n - 1
    /\ \A i \in 1..Len(r.nextn) :
          r.nextn[i].tok = conv[i + 1] /\ (~kind.ecache => r.nextn[i].hid = Prefix(conv, i))

HiddenOK(r, n) == n > 0 /\ ~kind.ecache => r.hidden = Prefix(conv, n)

(* The runtime after the first n tokens of the conversation. *)
RtOK(r, n) ==
    /\ RowsOK(r, n) /\ PosOK(r, n) /\ NextnOK(r, n) /\ HiddenOK(r, n)
    /\ r.toks = Prefix(conv, n)

LEMMA TypedRecord ==
    ASSUME NEW r, r \in RtType
    PROVE  /\ r = [toks |-> r.toks, rows |-> r.rows, gdn |-> r.gdn, rope |-> r.rope,
                   nextn |-> r.nextn, hidden |-> r.hidden]
           /\ r.toks \in Seq(Tokens) /\ r.rows \in Seq([tok : Tokens, pos : Nat])
           /\ r.gdn \in Seq(Tokens) /\ r.rope \in Nat
           /\ r.nextn \in Seq([tok : Tokens, hid : Hidden]) /\ r.hidden \in Hidden
BY DEF RtType

(* decode() of the tokens that follow. *)
LEMMA DecodeOn ==
    ASSUME ConvOK, NEW n \in Nat, NEW r, RowsOK(r, n), PosOK(r, n), NEW t, Continues(t, n), t # <<>>,
           NEW d \in DecodeTo(r, t)
    PROVE  /\ RowsOK(d, n + Len(t)) /\ PosOK(d, n + Len(t)) /\ HiddenOK(d, n + Len(t))
           /\ d.nextn = r.nextn /\ d.toks = r.toks
<1> DEFINE m == n + Len(t)
           f == Forward(r, t)
           g == Advance(f, Len(t))
           rope == IF kind.mrope \/ Len(t) = 1 THEN f.rope + Len(t) ELSE f.rope
<1>1. n \in 0..(NCtx + 1) /\ t \in Seq(Tokens) /\ Len(t) \in Nat \ {0} /\ m \in 0..(NCtx + 1)
  BY LenProperties, EmptySeq, Consts DEF Continues
<1>2. RowsOK(f, m) /\ f \in RtType /\ f.rope = r.rope /\ f.nextn = r.nextn /\ f.toks = r.toks
  BY <1>1, ForwardOn, ForwardFields
<1>3. /\ g = [toks |-> f.toks, rows |-> f.rows, gdn |-> f.gdn, rope |-> rope, nextn |-> f.nextn,
              hidden |-> f.hidden]
      /\ rope \in Nat
  <2> HIDE DEF f
  <2>1. f = [toks |-> f.toks, rows |-> f.rows, gdn |-> f.gdn, rope |-> f.rope, nextn |-> f.nextn,
             hidden |-> f.hidden] /\ f.rope \in Nat
    BY <1>2, TypedRecord
  <2>2. rope \in Nat
    BY <2>1, <1>1
  <2>3. g = [f EXCEPT !.rope = rope]
    BY DEF Advance
  <2> HIDE DEF rope, g
  <2> QED
    BY <2>1, <2>2, <2>3, Zenon
<1>4. g \in RtType /\ RowsOK(g, m)
  <2> HIDE DEF f, rope, g, m
  <2>1. g \in RtType
    BY <1>2, <1>3, TypedRecord DEF RtType
  <2> QED
    BY <2>1, <1>2, <1>3 DEF RowsOK
<1>5. PosOK(g, m)
  <2>1. kind.mrope => rope = m
    BY <1>1, <1>2 DEF PosOK
  <2> HIDE DEF f, rope, g, m
  <2> QED
    BY <2>1, <1>3 DEF PosOK
<1>6. g.nextn = r.nextn /\ g.toks = r.toks
  <2> HIDE DEF f, rope, g, m
  <2> QED
    BY <1>2, <1>3
<1>7. Seen(g) = Prefix(conv, m) /\ Prefix(conv, m) \in Hidden
  <2> HIDE DEF f, rope, g, m
  <2>1. Seen(g) = Prefix(conv, m) /\ m \in Nat /\ m <= NCtx + 1
    BY <1>1, <1>4, RowsTyped DEF RowsOK
  <2>2. Prefix(conv, m) \in Seq(Tokens)
    BY <2>1, Part
  <2> QED
    BY <2>1, <2>2, SeqMonotonic DEF Hidden
<1> DEFINE c == Capture(g)
<1>8. /\ RowsOK(c, m) /\ PosOK(c, m) /\ c.hidden = Prefix(conv, m)
      /\ c.nextn = r.nextn /\ c.toks = r.toks
  <2> HIDE DEF f, rope, g, m
  <2>1. c = [toks |-> g.toks, rows |-> g.rows, gdn |-> g.gdn, rope |-> g.rope, nextn |-> g.nextn,
             hidden |-> Prefix(conv, m)]
    BY <1>4, <1>7, TypedRecord DEF Capture
  <2> HIDE DEF c
  <2>2. c \in RtType
    BY <2>1, <1>4, <1>7, TypedRecord DEF RtType
  <2> QED
    BY <2>1, <2>2, <1>4, <1>5, <1>6 DEF RowsOK, PosOK
<1>9. d = c \/ (d = g /\ kind.ecache)
  BY DEF DecodeTo
<1> HIDE DEF c, g, f, rope, m
<1>10. CASE d = c
  BY <1>10, <1>8 DEF HiddenOK, m
<1>11. CASE d = g /\ kind.ecache
  BY <1>11, <1>4, <1>5, <1>6 DEF HiddenOK, m
<1> QED
  BY <1>9, <1>10, <1>11

(* prefill() of the tokens that follow, with the draft block. *)
LEMMA PrefillOn ==
    ASSUME ConvOK, NEW n \in Nat, NEW r, RtOK(r, n), NEW t, Continues(t, n), t # <<>>,
           NEW p \in PrefillTo(r, t)
    PROVE  RtOK(p, n + Len(t))
<1> DEFINE m == n + Len(t)
           NR == [tok : Tokens, hid : Hidden]
           b == Bridge(r, t)
<1>1. /\ n \in 0..(NCtx + 1) /\ t \in Seq(Tokens) /\ Len(t) \in Nat \ {0} /\ m \in 0..(NCtx + 1)
      /\ m \in Nat
  BY LenProperties, EmptySeq, Consts DEF Continues
<1>2. \A i \in 1..Len(t) : t[i] = conv[n + i] /\ t[i] \in Tokens
  BY <1>1, ElementOfSeq DEF Continues
<1>3. r \in RtType
  BY DEF RtOK, RowsOK
(* The bridge gives the first of them its row. *)
<1>4. /\ RowsOK(b, n) /\ PosOK(b, n) /\ b.toks = r.toks /\ b.nextn \in Seq(NR)
      /\ Len(b.nextn) = n
      /\ \A i \in 1..n :
            b.nextn[i].tok = conv[i + 1] /\ (~kind.ecache => b.nextn[i].hid = Prefix(conv, i))
  <2>1. CASE n = 0
    <3>1. b = r
      BY <2>1, <1>1, RowsTyped DEF Bridge, RtOK, RowsOK
    <3> QED
      BY <2>1, <3>1, <1>3, TypedRecord DEF RtOK, NextnOK
  <2>2. CASE n # 0
    <3> DEFINE row == NextnRow(t[1], r.hidden)
               rows == Append(r.nextn, row)
    <3>1. n_past(r) = n
      BY <1>1, RowsTyped DEF RtOK, RowsOK
    <3>2. b = [r EXCEPT !.nextn = rows]
      BY <3>1, <2>2 DEF Bridge, ResyncRow
    <3>3. row \in NR /\ row.tok = conv[n + 1] /\ (~kind.ecache => row.hid = Prefix(conv, n))
      <4>1. t[1] \in Tokens /\ t[1] = conv[n + 1]
        BY <1>1, <1>2
      <4>2. r.hidden \in Hidden /\ (~kind.ecache => r.hidden = Prefix(conv, n))
        BY <1>3, <2>2, TypedRecord DEF RtOK, HiddenOK
      <4> QED
        BY <4>1, <4>2 DEF NextnRow
    <3>4. r.nextn \in Seq(NR) /\ Len(r.nextn) = n - 1
      BY <1>3, <2>2, TypedRecord DEF RtOK, NextnOK
    <3>5. /\ rows \in Seq(NR) /\ Len(rows) = n
          /\ \A i \in 1..(n - 1) : rows[i] = r.nextn[i]
          /\ rows[n] = row
      <4> HIDE DEF row, NR
      <4> QED
        BY <3>3, <3>4, AppendProperties
    <3>6. \A i \in 1..n :
             rows[i].tok = conv[i + 1] /\ (~kind.ecache => rows[i].hid = Prefix(conv, i))
      <4> HIDE DEF row, rows
      <4> QED
        BY SMTT(40), <3>3, <3>4, <3>5 DEF RtOK, NextnOK
    <3>7. b = [toks |-> r.toks, rows |-> r.rows, gdn |-> r.gdn, rope |-> r.rope, nextn |-> rows,
               hidden |-> r.hidden]
      <4>1. r = [toks |-> r.toks, rows |-> r.rows, gdn |-> r.gdn, rope |-> r.rope,
                 nextn |-> r.nextn, hidden |-> r.hidden]
        BY <1>3, TypedRecord
      <4> HIDE DEF rows, b
      <4> QED
        BY <3>2, <4>1, Zenon
    <3> HIDE DEF rows, b, row
    <3>8. b \in RtType
      BY <3>7, <3>5, <1>3, TypedRecord DEF RtType
    <3> QED
      BY <3>5, <3>6, <3>7, <3>8 DEF RtOK, RowsOK, PosOK
  <2> QED
    BY <2>1, <2>2
(* The batch gives the others theirs. *)
<1> DEFINE seen == Seen(r) \o t
           more == PrefillRows(seen, t)
<1>5. seen = Prefix(conv, m) /\ Len(seen) = m
  <2>1. Seen(r) = Prefix(conv, n)
    BY <1>1, RowsTyped DEF RtOK, RowsOK
  <2>2. seen = Prefix(conv, m)
    BY <2>1, ContinuesPrefix
  <2>3. Len(Prefix(conv, m)) = m
    <3> HIDE DEF m
    <3> QED
      BY <1>1, Part
  <2> QED
    BY <2>2, <2>3
<1>6. /\ more \in Seq(NR) /\ Len(more) = Len(t) - 1
      /\ \A i \in 1..(Len(t) - 1) : more[i].tok = conv[n + i + 1] /\ more[i].hid = Prefix(conv, n + i)
  <2>1. \A i \in 1..(Len(t) - 1) : Prefix(seen, Len(seen) - Len(t) + i) = Prefix(conv, n + i)
    <3> TAKE i \in 1..(Len(t) - 1)
    <3> HIDE DEF seen
    <3>1. Len(seen) - Len(t) + i = n + i
      BY <1>1, <1>5
    <3>2. 1 \in 1..Len(conv) /\ m \in 1..Len(conv) /\ 1 \in 1..(m - 1 + 1) /\ n + i \in 1..(m - 1 + 1)
      BY <1>1 DEF ConvOK
    <3>3. SubSeq(SubSeq(conv, 1, m), 1, n + i) = SubSeq(conv, 1 + 1 - 1, 1 + (n + i) - 1)
      <4> HIDE DEF m
      <4> QED
        BY <3>2, SubSeqOfSubSeq DEF ConvOK
    <3> QED
      BY <3>1, <3>3, <1>5 DEF Prefix
  <2>2. \A i \in 1..(Len(t) - 1) : Prefix(conv, n + i) \in Hidden
    <3> TAKE i \in 1..(Len(t) - 1)
    <3>1. n + i \in Nat /\ n + i <= NCtx + 1
      BY <1>1, Consts
    <3>2. Prefix(conv, n + i) \in Seq(Tokens)
      BY <3>1, Part
    <3> QED
      BY <3>2, SeqMonotonic DEF Hidden
  <2>3. more = [i \in 1..(Len(t) - 1) |-> [tok |-> t[i + 1], hid |-> Prefix(conv, n + i)]]
    <3> HIDE DEF seen
    <3> QED
      BY <2>1 DEF PrefillRows, NextnRow
  <2>4. \A i \in 1..(Len(t) - 1) : [tok |-> t[i + 1], hid |-> Prefix(conv, n + i)] \in NR
    BY <2>2, <1>1, <1>2
  <2>5. Len(t) - 1 \in Nat
    BY <1>1
  <2> HIDE DEF more
  <2>6. more \in Seq(NR) /\ Len(more) = Len(t) - 1
    BY <2>3, <2>4, <2>5
  <2>7. \A i \in 1..(Len(t) - 1) : t[i + 1] = conv[n + i + 1]
    BY <1>1, <1>2
  <2> QED
    BY <2>3, <2>6, <2>7
<1>7. PICK d \in DecodeTo(b, t) : p = [d EXCEPT !.nextn = d.nextn \o more, !.toks = d.toks \o t]
  BY DEF PrefillTo
<1>8. /\ RowsOK(d, m) /\ PosOK(d, m) /\ HiddenOK(d, m)
      /\ d.nextn = b.nextn /\ d.toks = b.toks
  <2> HIDE DEF b, more
  <2> QED
    BY <1>4, DecodeOn
<1> DEFINE nextn == b.nextn \o more
           toks == r.toks \o t
<1>9. p = [toks |-> toks, rows |-> d.rows, gdn |-> d.gdn, rope |-> d.rope, nextn |-> nextn,
           hidden |-> d.hidden]
  <2>1. d \in RtType
    BY <1>8 DEF RowsOK
  <2>2. p = [d EXCEPT !.nextn = nextn, !.toks = toks]
    <3> HIDE DEF b, more
    <3> QED
      BY <1>7, <1>8, <1>4, Zenon
  <2> HIDE DEF nextn, toks
  <2>3. d = [toks |-> d.toks, rows |-> d.rows, gdn |-> d.gdn, rope |-> d.rope, nextn |-> d.nextn,
             hidden |-> d.hidden]
    BY <2>1, TypedRecord
  <2> QED
    BY <2>2, <2>3, Zenon
<1>10. toks = Prefix(conv, m) /\ toks \in Seq(Tokens)
  <2>1. toks = Prefix(conv, m)
    BY ContinuesPrefix DEF RtOK
  <2> HIDE DEF m, toks
  <2> QED
    BY <2>1, <1>1, PrefixType
<1>11. /\ nextn \in Seq(NR) /\ Len(nextn) = m - 1
       /\ \A i \in 1..(m - 1) :
            nextn[i].tok = conv[i + 1] /\ (~kind.ecache => nextn[i].hid = Prefix(conv, i))
  <2> HIDE DEF b, more, NR
  <2>1. nextn \in Seq(NR)
    BY <1>4, <1>6, ConcatProperties, Zenon
  <2>2. Len(nextn) = Len(b.nextn) + Len(more)
    BY <1>4, <1>6, ConcatProperties, Zenon
  <2>3. \A i \in 1..Len(b.nextn) + Len(more) :
           nextn[i] = IF i <= Len(b.nextn) THEN b.nextn[i] ELSE more[i - Len(b.nextn)]
    BY <1>4, <1>6, ConcatProperties, ZenonT(40)
  <2>4. Len(b.nextn) = n /\ Len(more) = Len(t) - 1 /\ n + (Len(t) - 1) = m - 1
    BY <1>4, <1>6, <1>1
  <2> HIDE DEF nextn
  <2>5. ASSUME NEW i \in 1..(m - 1)
        PROVE  nextn[i].tok = conv[i + 1] /\ (~kind.ecache => nextn[i].hid = Prefix(conv, i))
    <3>1. CASE i <= n
      <4>1. i \in 1..n /\ i \in 1..Len(b.nextn) + Len(more) /\ i <= Len(b.nextn)
        BY <3>1, <2>4, <1>1
      <4>2. nextn[i] = b.nextn[i]
        BY <4>1, <2>3
      <4> QED
        BY <4>1, <4>2, <1>4
    <3>2. CASE i > n
      <4>1. i - n \in 1..(Len(t) - 1) /\ n + (i - n) = i
        BY <3>2, <1>1
      <4>2. nextn[i] = more[i - n]
        BY <3>2, <2>3, <2>4, <1>1
      <4>3. more[i - n].tok = conv[n + (i - n) + 1] /\ more[i - n].hid = Prefix(conv, n + (i - n))
        BY <4>1, <1>6
      <4> QED
        BY <4>1, <4>2, <4>3
    <3> QED
      BY <3>1, <3>2, <1>1
  <2> QED
    BY <2>1, <2>2, <2>4, <2>5
<1> HIDE DEF nextn, toks, b, more, seen
<1>12. p \in RtType
  <2>1. d \in RtType
    BY <1>8 DEF RowsOK
  <2> QED
    BY <2>1, <1>9, <1>10, <1>11, TypedRecord DEF RtType
<1>13. NextnOK(p, m)
  BY <1>9, <1>11, <1>1 DEF NextnOK
<1> HIDE DEF m
<1>14. RowsOK(p, m) /\ PosOK(p, m) /\ HiddenOK(p, m) /\ p.toks = Prefix(conv, m)
  BY <1>8, <1>9, <1>10, <1>12 DEF RowsOK, PosOK, HiddenOK
<1> QED
  BY <1>13, <1>14 DEF RtOK, m

-----------------------------------------------------------------------------
(* The requests the results are about: one draft, or a budget that ends    *)
(* the reply before a cycle can run over the context; and no model whose   *)
(* rejected batch is decoded again at positions that have moved on.        *)
Regular(k) ==
    /\ k.draft = 1 \/ PLen + k.max + k.draft <= NCtx + 1
    /\ ~(k.gdn /\ k.mrope /\ k.ecache /\ ~k.room)

N == Len(rt.toks)

StreamType == [pf : 0..PLen, sent : Nat, slice : Nat, pending : Tokens \cup {NoTok}, my : Seq(Tokens)]
CycleType == [x : Tokens \cup {NoTok}, drafts : Seq(Tokens), vA : Seq(Tokens), base : RtType,
              a : Nat, xnew : Tokens \cup {NoTok}, next : Nat \ {0}]

MTyped ==
    /\ kind \in Kinds /\ ConvOK /\ gone \in BOOLEAN
    /\ st \in StreamType /\ cyc \in CycleType
    /\ pc \in {"paused", "prompt", "generate", "token", "draft", "verify", "settle",
               "deliver", "closing", "over"}

(* What was sent: the conversation after the prompt, within the budget.    *)
Replied ==
    /\ reply = SubSeq(conv, PLen + 1, PLen + st.sent)
    /\ PLen + st.sent <= NCtx /\ st.sent <= kind.max
    /\ pc \notin {"closing", "over"} => st.sent < kind.max

(* Where a stream that holds no cycle is: in the prompt, or behind it with *)
(* the token to go on with.                                                *)
Resting ==
    \/ N = st.pf /\ N < PLen /\ st.sent = 0 /\ st.pending = NoTok
    \/ st.pf = PLen /\ N >= PLen + st.sent /\ st.pending = conv[N + 1]

(* The cycle's token has been sent and is not yet in the state. *)
OneAhead ==
    st.pf = PLen /\ st.sent > 0 /\ N + 1 = PLen + st.sent /\ N + 1 < NCtx /\ cyc.x = conv[N + 1]

VerifyToks == <<cyc.x>> \o cyc.drafts

(* From the drafts to their judgement: the state as it was, which the      *)
(* cycle keeps, and K rows more in the draft block, the first of them with *)
(* the true hidden.                                                        *)
Verifying ==
    /\ OneAhead /\ RtOK(cyc.base, N)
    /\ Len(cyc.drafts) = K
    /\ rt \in RtType /\ rt.toks = Prefix(conv, N)
    /\ Len(rt.nextn) = N + K - 1
    /\ \A i \in 1..N : /\ rt.nextn[i].tok = conv[i + 1]
                       /\ ~kind.ecache => rt.nextn[i].hid = Prefix(conv, i)

(* The rows of the batch follow those of the state. *)
BatchRows ==
    /\ rt.rows = RowsTo(N) \o [i \in 1..(K + 1) |-> [tok |-> VerifyToks[i], pos |-> N + i - 1]]
    /\ kind.gdn => rt.gdn = Prefix(conv, N) \o VerifyToks

(* After drafts that were all right, the verdict is. *)
Judged ==
    /\ Len(cyc.vA) = K + 1
    /\ \A j \in 1..(K + 1) :
          (\A i \in 1..(j - 1) : cyc.drafts[i] = conv[N + 1 + i]) => cyc.vA[j] = conv[N + 1 + j]

(* The accepted drafts are in the state, some of them not yet sent. *)
Delivering ==
    /\ st.pf = PLen /\ cyc.a <= K /\ cyc.next <= cyc.a + 1
    /\ N + cyc.next = PLen + st.sent + cyc.a + 1
    /\ Len(cyc.drafts) = K /\ \A j \in 1..cyc.a : cyc.drafts[j] = conv[N - cyc.a + j]
    /\ cyc.xnew = conv[N + 1]

Stage ==
    /\ pc \notin {"verify", "settle"} => RtOK(rt, N) /\ N <= NCtx
    /\ pc \in {"paused", "prompt"} => Resting
    /\ pc = "paused" => st.my \in {<<>>, rt.toks}
    /\ pc \in {"generate", "draft"} => OneAhead
    /\ pc = "token" => st.pf = PLen /\ N = PLen + st.sent /\ cyc.x = conv[N + 1]
    /\ pc = "verify" => Verifying /\ RowsOK(rt, N) /\ PosOK(rt, N)
    /\ pc = "settle" => Verifying /\ BatchRows /\ Judged
    /\ pc = "deliver" => Delivering

MInd == MTyped /\ Replied /\ Stage

-----------------------------------------------------------------------------
(* The state at n tokens, looked at in the next state. *)
LEMMA RtNext ==
    ASSUME ConvOK, kind' = kind, conv' = conv, NEW n \in 0..(NCtx + 1), RtOK(rt', n)
    PROVE  RtOK(rt, N)' /\ N' = n
<1>1. N' = n
  <2>1. rt'.toks = Prefix(conv, n)
    BY DEF RtOK
  <2>2. Len(Prefix(conv, n)) = n
    BY Part, Consts
  <2> QED
    BY <2>1, <2>2 DEF N
<1>2. RowsOK(rt, N)'
  BY <1>1 DEF RtOK, RowsOK, RowsTo, Prefix
<1>3. PosOK(rt, N)' /\ HiddenOK(rt, N)' /\ rt'.toks = Prefix(conv', N')
  BY <1>1 DEF RtOK, PosOK, HiddenOK, Prefix
<1>4. NextnOK(rt, N)'
  BY <1>1 DEF RtOK, NextnOK, Prefix
<1> QED
  BY <1>1, <1>2, <1>3, <1>4 DEF RtOK

LEMMA ConvKept == ASSUME ConvOK, conv' = conv PROVE ConvOK'
BY DEF ConvOK

(* A step that leaves the runtime where it is. *)
LEMMA SameRt ==
    ASSUME MInd, pc \notin {"verify", "settle"}, UNCHANGED <<kind, conv, rt>>
    PROVE  RtOK(rt, N)' /\ N' = N /\ N \in 0..NCtx
<1>1. N \in Nat /\ N <= NCtx /\ RtOK(rt, N) /\ ConvOK
  <2>1. RtOK(rt, N) /\ N <= NCtx /\ ConvOK
    BY DEF MInd, Stage, MTyped
  <2> QED
    BY <2>1, LenProperties DEF RtOK, RowsOK, RtType, N
<1>2. RtOK(rt', N)
  BY <1>1
<1> QED
  BY <1>1, <1>2, RtNext, Consts

(* The reply is closed. *)
LEMMA FinishKeeps == ASSUME MInd, Finish, pc \notin {"verify", "settle"} PROVE MInd'
<1> USE DEF Finish
<1>1. RtOK(rt, N)' /\ N' = N /\ N \in 0..NCtx
  BY SameRt
<1>2. MTyped'
  BY ConvKept DEF MInd, MTyped
<1>3. Replied'
  BY DEF MInd, Replied
<1>4. Stage'
  BY <1>1 DEF Stage
<1> QED
  BY <1>2, <1>3, <1>4 DEF MInd

LEMMA KindTyped ==
    ASSUME MInd
    PROVE  /\ K \in Nat \ {0} /\ kind.max \in Nat \ {0}
           /\ kind.gdn \in BOOLEAN /\ kind.mrope \in BOOLEAN /\ kind.ecache \in BOOLEAN
           /\ kind.room \in BOOLEAN
<1>1. kind \in KindType
  BY MtpAssumption DEF MInd, MTyped
<1> QED
  BY <1>1 DEF KindType, K

LEMMA ConvElem == ASSUME ConvOK, NEW i \in 1..(NCtx + 1) PROVE conv[i] \in Tokens
BY ElementOfSeq DEF ConvOK

LEMMA SameBase ==
    ASSUME kind' = kind, conv' = conv, cyc' = cyc, N' = N, RtOK(cyc.base, N)
    PROVE  RtOK(cyc.base, N)'
<1>1. RowsOK(cyc.base, N)'
  BY DEF RtOK, RowsOK, RowsTo, Prefix
<1>2. PosOK(cyc.base, N)' /\ HiddenOK(cyc.base, N)' /\ cyc'.base.toks = Prefix(conv', N')
  BY DEF RtOK, PosOK, HiddenOK, Prefix
<1>3. NextnOK(cyc.base, N)'
  BY DEF RtOK, NextnOK, Prefix
<1> QED
  BY <1>1, <1>2, <1>3 DEF RtOK

(* A step that changes at most whether the client is there. *)
LEMMA Unmoved ==
    ASSUME MInd, gone' \in BOOLEAN, UNCHANGED <<kind, conv, rt, st, pc, cyc, reply>>
    PROVE  MInd'
<1>1. MTyped'
  BY ConvKept DEF MInd, MTyped
<1>2. Replied'
  BY DEF MInd, Replied
<1>3. Stage'
  <2>1. CASE pc \notin {"verify", "settle"}
    <3>1. RtOK(rt, N)' /\ N' = N /\ N \in 0..NCtx
      BY <2>1, SameRt
    <3>2. Delivering => Delivering'
      BY <3>1 DEF Delivering, K
    <3>3. (Resting => Resting') /\ (OneAhead => OneAhead')
      BY <3>1 DEF Resting, OneAhead
    <3> QED
      BY <2>1, <3>1, <3>2, <3>3 DEF Stage, MInd
  <2>2. CASE pc \in {"verify", "settle"}
    <3>0. N' = N
      BY DEF N
    <3>1. Verifying => Verifying'
      <4>1. OneAhead => OneAhead'
        BY <3>0 DEF OneAhead
      <4> QED
        BY <4>1, <3>0, SameBase DEF Verifying, K, Prefix
    <3>2. RowsOK(rt, N) /\ PosOK(rt, N) => RowsOK(rt, N)' /\ PosOK(rt, N)'
      BY <3>0 DEF RowsOK, PosOK, RowsTo, Prefix
    <3>3. BatchRows => BatchRows'
      BY <3>0 DEF BatchRows, VerifyToks, RowsTo, Prefix, K
    <3>4. Judged => Judged'
      BY <3>0 DEF Judged, K
    <3> QED
      BY <2>2, <3>1, <3>2, <3>3, <3>4 DEF Stage, MInd
  <2> QED
    BY <2>1, <2>2
<1> QED
  BY <1>1, <1>2, <1>3 DEF MInd

(* A part of the conversation and the token after it. *)
LEMMA OneMore ==
    ASSUME ConvOK, NEW i \in Nat, NEW n \in Nat, i <= n, n <= NCtx
    PROVE  Append(SubSeq(conv, i + 1, n), conv[n + 1]) = SubSeq(conv, i + 1, n + 1)
<1> DEFINE s == SubSeq(conv, i + 1, n)
           u == SubSeq(conv, i + 1, n + 1)
<1>1. s \in Seq(Tokens) /\ Len(s) = n - i /\ \A k \in 1..(n - i) : s[k] = conv[i + k]
  <2>1. n <= NCtx + 1
    BY Consts
  <2> QED
    BY <2>1, Part
<1>2. u \in Seq(Tokens) /\ Len(u) = n + 1 - i /\ \A k \in 1..(n + 1 - i) : u[k] = conv[i + k]
  <2> DEFINE m == n + 1
  <2>1. m \in Nat /\ i <= m /\ m <= NCtx + 1
    BY Consts
  <2> HIDE DEF m
  <2>2. /\ SubSeq(conv, i + 1, m) \in Seq(Tokens) /\ Len(SubSeq(conv, i + 1, m)) = m - i
        /\ \A k \in 1..(m - i) : SubSeq(conv, i + 1, m)[k] = conv[i + k]
    BY <2>1, Part
  <2> QED
    BY <2>2 DEF m
<1>3. conv[n + 1] \in Tokens
  BY ConvElem, Consts
<1> HIDE DEF s, u
<1>4. /\ Append(s, conv[n + 1]) \in Seq(Tokens) /\ Len(Append(s, conv[n + 1])) = n + 1 - i
      /\ \A k \in 1..(n - i) : Append(s, conv[n + 1])[k] = conv[i + k]
      /\ Append(s, conv[n + 1])[n - i + 1] = conv[n + 1]
  BY <1>1, <1>3, AppendProperties
<1>5. \A k \in 1..(n + 1 - i) : Append(s, conv[n + 1])[k] = u[k]
  <2> TAKE k \in 1..(n + 1 - i)
  <2>1. CASE k \in 1..(n - i)
    BY <2>1, <1>2, <1>4
  <2>2. CASE k = n - i + 1
    <3>1. i + k = n + 1
      BY <2>2
    <3> QED
      BY <2>2, <3>1, <1>2, <1>4
  <2>3. k \in 1..(n - i) \/ k = n - i + 1
    OBVIOUS
  <2> QED
    BY <2>1, <2>2, <2>3, Zenon
<1>6. Append(s, conv[n + 1]) = u
  BY <1>2, <1>4, <1>5, SeqEqual
<1> QED
  BY <1>6 DEF s, u

(* A token that goes on with the reply is sent. *)
LEMMA EmitKeeps ==
    ASSUME MInd, NEW t, NEW slice \in Nat, NEW pending \in Tokens \cup {NoTok}, NEW then,
           Emit(t, slice, pending, then), t = conv[PLen + st.sent + 1],
           PLen + st.sent + 1 <= NCtx, st.sent < kind.max
    PROVE  /\ Replied' /\ st' \in StreamType
           /\ st'.sent = st.sent + 1 /\ st'.pf = st.pf /\ st'.pending = pending
<1> DEFINE n == PLen + st.sent
<1>1. st \in StreamType /\ ConvOK /\ reply = SubSeq(conv, PLen + 1, n)
  BY DEF MInd, MTyped, Replied
<1>2. st' = [st EXCEPT !.sent = @ + 1, !.slice = slice + 1, !.pending = pending]
  BY DEF Emit
<1>3. /\ st' \in StreamType /\ st'.sent = st.sent + 1 /\ st'.pf = st.pf /\ st'.pending = pending
  <2>1. st = [pf |-> st.pf, sent |-> st.sent, slice |-> st.slice, pending |-> st.pending, my |-> st.my]
    BY <1>1 DEF StreamType
  <2>2. st' = [pf |-> st.pf, sent |-> st.sent + 1, slice |-> slice + 1, pending |-> pending, my |-> st.my]
    BY <2>1, <1>2, Zenon
  <2> QED
    BY <1>1, <2>2 DEF StreamType
<1>4. Append(reply, t) = SubSeq(conv, PLen + 1, n + 1)
  <2>1. st.sent \in Nat /\ PLen \in Nat \ {0} /\ NCtx \in Nat
    BY <1>1, Consts DEF StreamType
  <2>2. n \in Nat /\ PLen \in Nat /\ PLen <= n /\ n <= NCtx
    BY <2>1
  <2>3. t = conv[n + 1]
    OBVIOUS
  <2> HIDE DEF n
  <2> QED
    BY <2>2, <2>3, <1>1, OneMore
<1>5. reply' = Append(reply, t) /\ conv' = conv /\ kind' = kind
      /\ pc' = IF st.sent + 1 >= kind.max THEN "closing" ELSE then
  BY DEF Emit
<1>6. kind.max \in Nat /\ st.sent \in Nat
  BY <1>1, KindTyped DEF StreamType
<1>7. n + 1 = PLen + st'.sent
  BY <1>3, <1>6, Consts
<1>8. Replied'
  BY SMTT(40), <1>3, <1>4, <1>5, <1>6, <1>7 DEF Replied, PLen
<1> QED
  BY <1>3, <1>8

-----------------------------------------------------------------------------
(* The prompt *)

LEMMA PromptPart ==
    ASSUME ConvOK, NEW n \in Nat, NEW m \in Nat, n < m, m <= PLen
    PROVE  /\ Continues(SubSeq(Prompt, n + 1, m), n) /\ SubSeq(Prompt, n + 1, m) # <<>>
           /\ Len(SubSeq(Prompt, n + 1, m)) = m - n
<1> DEFINE t == SubSeq(Prompt, n + 1, m)
<1>1. \A i \in n + 1 .. m : Prompt[i] \in Tokens
  <2>1. \A i \in 1..PLen : Prompt[i] \in Tokens
    BY Consts, ElementOfSeq DEF PLen
  <2> QED
    BY <2>1, Consts
<1>2. t \in Seq(Tokens) /\ Len(t) = m - n /\ \A i \in 1..(m - n) : t[i] = Prompt[n + i]
  <2>1. n + 1 \in Int /\ m \in Int
    OBVIOUS
  <2> QED
    BY <1>1, <2>1, SubSeqProperties
<1> HIDE DEF t
<1>3. \A i \in 1..Len(t) : t[i] = conv[n + i]
  BY <1>2, Consts DEF ConvOK
<1>4. n + Len(t) <= NCtx + 1
  BY <1>2, Consts
<1>5. t # <<>>
  BY <1>2
<1> QED
  BY <1>2, <1>3, <1>4, <1>5 DEF Continues, t

LEMMA FreshOK == ASSUME ConvOK PROVE RtOK(NoState, 0)
<1>1. <<>> \in Seq(Tokens) /\ <<>> \in Hidden /\ <<>> \in Seq([tok : Tokens, pos : Nat])
      /\ <<>> \in Seq([tok : Tokens, hid : Hidden]) /\ Len(<<>>) = 0
  BY EmptySeq DEF Hidden
<1>2. NoState \in RtType
  BY <1>1 DEF NoState, RtType
<1>3. Prefix(conv, 0) = <<>>
  BY SubSeqEmpty DEF Prefix
<1>4. RowsTo(0) = <<>>
  <2>1. RowsTo(0) \in Seq([tok : Tokens, pos : Nat]) /\ Len(RowsTo(0)) = 0
    <3>1. [rows |-> RowsTo(0)].rows = RowsTo(0) /\ 0 \in 0..(NCtx + 1)
      BY Consts
    <3> QED
      BY <3>1, RowsTyped
  <2> QED
    BY <2>1, EmptySeq
<1>5. NextnOK(NoState, 0)
  BY <1>1 DEF NextnOK, NoState
<1> QED
  BY <1>2, <1>3, <1>4, <1>5 DEF RtOK, RowsOK, PosOK, HiddenOK, NoState

(* prefill() of the live state. *)
LEMMA PrefillStep ==
    ASSUME MInd, pc \notin {"verify", "settle"}, kind' = kind, conv' = conv,
           NEW t, Continues(t, N), t # <<>>, rt' \in PrefillTo(rt, t)
    PROVE  RtOK(rt, N)' /\ N' = N + Len(t) /\ N \in Nat
<1>1. RtOK(rt, N) /\ N \in Nat /\ ConvOK /\ t \in Seq(Tokens) /\ Len(t) \in Nat
  <2>1. RtOK(rt, N) /\ ConvOK
    BY DEF MInd, Stage, MTyped
  <2>2. rt.toks \in Seq(Tokens) /\ t \in Seq(Tokens)
    BY <2>1 DEF RtOK, RowsOK, RtType, Continues
  <2> QED
    BY <2>1, <2>2, LenProperties DEF N
<1>2. RtOK(rt', N + Len(t))
  BY <1>1, PrefillOn
<1>3. N + Len(t) \in 0..(NCtx + 1)
  BY <1>1, Consts DEF Continues
<1> QED
  BY <1>1, <1>2, <1>3, RtNext

LEMMA InitKeeps == Init => MInd
<1> SUFFICES ASSUME Init PROVE MInd
  OBVIOUS
<1>1. PICK n \in Cached :
          /\ rt \in IF n = 0 THEN {NoState} ELSE PrefillTo(NoState, Prefix(Prompt, n))
          /\ st = [NewStream EXCEPT !.pf = n]
  BY DEF Init
<1>2. n \in Nat /\ n < PLen /\ n <= NCtx
  BY MtpAssumption, Consts DEF PLen
<1>3. ConvOK
  <2>1. PICK c \in [1..(NCtx + 1 - PLen) -> Tokens] : conv = Prompt \o c
    BY DEF Init
  <2>2. c \in Seq(Tokens) /\ Len(c) = NCtx + 1 - PLen
    <3> DEFINE k == NCtx + 1 - PLen
    <3>1. k \in Nat
      BY Consts
    <3>2. c \in [1..k -> Tokens]
      BY <2>1
    <3> HIDE DEF k
    <3>3. c \in Seq(Tokens) /\ Len(c) = k
      BY <3>1, <3>2
    <3> QED
      BY <3>3 DEF k
  <2>3. Prompt \in Seq(Tokens) /\ Len(Prompt) = PLen
    BY Consts DEF PLen
  <2>4. /\ Prompt \o c \in Seq(Tokens) /\ Len(Prompt \o c) = Len(Prompt) + Len(c)
        /\ \A i \in 1..Len(Prompt) + Len(c) :
              (Prompt \o c)[i] = IF i <= Len(Prompt) THEN Prompt[i] ELSE c[i - Len(Prompt)]
    BY <2>2, <2>3, ConcatProperties, Zenon
  <2> QED
    BY <2>1, <2>2, <2>3, <2>4, Consts DEF ConvOK
<1>4. RtOK(rt, n)
  <2>1. CASE n = 0
    BY <2>1, <1>1, <1>3, FreshOK
  <2>2. CASE n # 0
    <3> DEFINE t == SubSeq(Prompt, 0 + 1, n)
    <3>1. Continues(t, 0) /\ t # <<>> /\ Len(t) = n - 0
      <4>1. 0 \in Nat /\ 0 < n /\ n <= PLen
        BY <2>2, <1>2, Consts
      <4> QED
        BY <4>1, <1>2, <1>3, PromptPart
    <3>2. rt \in PrefillTo(NoState, t)
      BY <2>2, <1>1 DEF Prefix
    <3> HIDE DEF t
    <3>3. RtOK(rt, 0 + Len(t))
      BY <3>1, <3>2, <1>3, FreshOK, PrefillOn
    <3>4. 0 + Len(t) = n
      BY <3>1, <1>2
    <3> QED
      BY <3>3, <3>4
  <2> QED
    BY <2>1, <2>2
<1>5. N = n
  <2>1. Len(Prefix(conv, n)) = n
    BY <1>2, <1>3, Part, Consts
  <2> QED
    BY <2>1, <1>4 DEF RtOK, N
<1>6. st = [pf |-> n, sent |-> 0, slice |-> 0, pending |-> NoTok, my |-> <<>>]
  BY <1>1 DEF NewStream
<1>7. NoState \in RtType /\ <<>> \in Seq(Tokens)
  BY <1>3, FreshOK, EmptySeq DEF RtOK, RowsOK
<1>8. MTyped
  <2>1. cyc \in CycleType
    BY <1>7 DEF Init, CycleType, NoCycle
  <2>2. st \in StreamType
    BY <1>2, <1>6, <1>7, Consts DEF StreamType
  <2> QED
    BY <1>3, <2>1, <2>2 DEF MTyped, Init
<1>9. kind.max \in Nat \ {0}
  BY MtpAssumption DEF Init, KindType
<1>10. Replied
  <2>1. SubSeq(conv, PLen + 1, PLen) = <<>>
    BY Consts, SubSeqEmpty
  <2>2. st.sent = 0 /\ PLen + st.sent = PLen
    BY <1>6, Consts
  <2>3. PLen <= NCtx /\ 0 < kind.max /\ 0 <= kind.max
    BY <1>9, Consts
  <2> QED
    BY <2>1, <2>2, <2>3 DEF Replied, Init
<1>11. Stage
  BY <1>2, <1>4, <1>5, <1>6 DEF Stage, Resting, Init
<1> QED
  BY <1>8, <1>10, <1>11 DEF MInd

LEMMA StreamRecord ==
    ASSUME MInd
    PROVE  /\ st = [pf |-> st.pf, sent |-> st.sent, slice |-> st.slice, pending |-> st.pending,
                    my |-> st.my]
           /\ st.pf \in 0..PLen /\ st.sent \in Nat /\ st.slice \in Nat
           /\ st.pending \in Tokens \cup {NoTok} /\ st.my \in Seq(Tokens)
BY DEF MInd, MTyped, StreamType

(* Nothing is sent: the reply stays right. *)
LEMMA SameReply ==
    ASSUME MInd, UNCHANGED <<kind, conv, reply>>, st'.sent = st.sent,
           pc \notin {"closing", "over"}
    PROVE  Replied'
BY DEF MInd, Replied, PLen

LEMMA TakeKeeps == ASSUME MInd, Take PROVE MInd'
<1>1. /\ pc = "paused" /\ pc' = "prompt" /\ st' = [st EXCEPT !.slice = 0]
      /\ UNCHANGED <<kind, conv, cyc, reply, gone>>
  BY DEF Take
<1>2. ConvOK /\ RtOK(rt, N) /\ N <= NCtx /\ Resting /\ st.my \in {<<>>, rt.toks}
  BY <1>1 DEF MInd, MTyped, Stage
<1>3. N \in Nat /\ rt.toks \in Seq(Tokens) /\ rt.toks = Prefix(conv, N)
  BY <1>2, LenProperties DEF RtOK, RowsOK, RtType, N
<1>4. st' = [pf |-> st.pf, sent |-> st.sent, slice |-> 0, pending |-> st.pending, my |-> st.my]
  BY <1>1, StreamRecord, Zenon
<1>5. RtOK(rt, N)' /\ N' = N
  <2>1. CASE rt' = rt
    BY <2>1, <1>1, SameRt
  <2>2. CASE st.my # <<>> /\ rt' \in PrefillTo(NoState, st.my)
    <3>1. st.my = rt.toks /\ Len(st.my) = N
      BY <2>2, <1>2 DEF N
    <3>2. Continues(st.my, 0)
      <4>1. \A i \in 1..N : conv[i] \in Tokens
        BY <1>2, <1>3, ConvElem, Consts
      <4>2. \A i \in 1..N : Prefix(conv, N)[i] = conv[i]
        BY <4>1, <1>3, SubSeqProperties DEF Prefix
      <4> QED
        BY <4>2, <3>1, <1>2, <1>3, Consts DEF Continues
    <3>3. RtOK(rt', 0 + Len(st.my))
      BY <3>2, <2>2, <1>2, FreshOK, PrefillOn
    <3>4. 0 + Len(st.my) = N /\ N \in 0..(NCtx + 1)
      BY <3>1, <1>2, <1>3, Consts
    <3> QED
      BY <3>3, <3>4, <1>1, <1>2, RtNext
  <2> QED
    BY <2>1, <2>2 DEF Take
<1>6. MTyped'
  <2>1. st' \in StreamType
    BY <1>4, StreamRecord DEF StreamType
  <2> QED
    BY <2>1, <1>1, ConvKept DEF MInd, MTyped
<1>7. Replied'
  BY <1>1, <1>4, SameReply
<1>8. Stage'
  <2>1. Resting'
    BY <1>1, <1>2, <1>4, <1>5 DEF Resting, PLen
  <2> QED
    BY <2>1, <1>1, <1>2, <1>5 DEF Stage
<1> QED
  BY <1>6, <1>7, <1>8 DEF MInd

(* Part of the prompt up to token m. *)
LEMMA PromptStep ==
    ASSUME MInd, pc = "prompt", st.pf < PLen, NEW m \in Nat, st.pf < m, m <= PLen,
           rt' \in PrefillTo(rt, SubSeq(Prompt, st.pf + 1, m)), UNCHANGED <<kind, conv>>
    PROVE  /\ RtOK(rt, N)' /\ N' = m /\ m <= NCtx
           /\ st.sent = 0 /\ st.pending = NoTok
<1>1. ConvOK /\ Resting
  BY DEF MInd, MTyped, Stage
<1>2. N = st.pf /\ st.sent = 0 /\ st.pending = NoTok /\ st.pf \in Nat
  BY <1>1, StreamRecord, Consts DEF Resting
<1> DEFINE t == SubSeq(Prompt, st.pf + 1, m)
<1>3. Continues(t, N) /\ t # <<>> /\ Len(t) = m - N
  BY <1>1, <1>2, PromptPart
<1> HIDE DEF t
<1>4. rt' \in PrefillTo(rt, t)
  BY DEF t
<1>5. RtOK(rt, N)' /\ N' = N + Len(t) /\ N \in Nat
  BY <1>3, <1>4, PrefillStep
<1>6. N' = m
  BY <1>3, <1>5
<1> QED
  BY <1>2, <1>5, <1>6, Consts

LEMMA ChunkKeeps == ASSUME MInd, Chunk PROVE MInd'
<1>1. PICK r \in PrefillTo(rt, SubSeq(Prompt, st.pf + 1, st.pf + PfChunk)), yield \in BOOLEAN :
          /\ rt' = r
          /\ st' = [st EXCEPT !.pf = @ + PfChunk, !.my = IF yield THEN r.toks ELSE @]
          /\ pc' = IF yield THEN "paused" ELSE "prompt"
  BY DEF Chunk
<1>2. pc = "prompt" /\ PLen - st.pf > PfChunk /\ UNCHANGED <<kind, conv, cyc, reply, gone>>
  BY DEF Chunk
<1> DEFINE m == st.pf + PfChunk
           my == IF yield THEN r.toks ELSE st.my
<1>3. m \in Nat /\ st.pf < m /\ m < PLen /\ st.pf < PLen
  <2>1. PfChunk \in Nat \ {0} /\ st.pf \in Nat /\ PLen \in Nat
    BY StreamRecord, MtpAssumption, Consts
  <2> QED
    BY <2>1, <1>2
<1>4. RtOK(rt, N)' /\ N' = m /\ m <= NCtx /\ st.sent = 0 /\ st.pending = NoTok
  <2>1. rt' \in PrefillTo(rt, SubSeq(Prompt, st.pf + 1, m))
    BY <1>1
  <2> HIDE DEF m
  <2> QED
    BY <2>1, <1>2, <1>3, PromptStep, Consts
<1>5. st' = [pf |-> m, sent |-> st.sent, slice |-> st.slice, pending |-> st.pending, my |-> my]
  <2>1. st' = [st EXCEPT !.pf = m, !.my = my]
    BY <1>1
  <2> HIDE DEF m, my
  <2> QED
    BY <2>1, StreamRecord, Zenon
<1>6. rt'.toks \in Seq(Tokens)
  BY <1>4 DEF RtOK, RowsOK, RtType
<1>7. MTyped'
  <2>1. my \in Seq(Tokens)
    BY <1>1, <1>6, StreamRecord
  <2>2. st' \in StreamType
    <3> HIDE DEF m, my
    <3> QED
      BY <2>1, <1>3, <1>5, StreamRecord, Consts DEF StreamType
  <2> QED
    BY <2>2, <1>1, <1>2, ConvKept DEF MInd, MTyped
<1>8. Replied'
  BY <1>2, <1>5, SameReply
<1>9. Stage'
  <2>1. Resting'
    <3> HIDE DEF m
    <3> QED
      BY <1>3, <1>4, <1>5 DEF Resting, PLen
  <2>2. pc' = "paused" => st'.my = rt'.toks
    BY <1>1, <1>5
  <2> QED
    BY <2>1, <2>2, <1>1, <1>4 DEF Stage
<1> QED
  BY <1>7, <1>8, <1>9 DEF MInd

LEMMA ToGenBeginKeeps == ASSUME MInd, ToGenBegin PROVE MInd'
<1>1. /\ pc = "prompt" /\ st.pf < GenBegin /\ GenBegin < PLen
      /\ rt' \in PrefillTo(rt, SubSeq(Prompt, st.pf + 1, GenBegin))
      /\ st' = [st EXCEPT !.pf = GenBegin]
      /\ UNCHANGED <<kind, conv, pc, cyc, reply, gone>>
  BY DEF ToGenBegin, GenAhead
<1>2. GenBegin \in Nat /\ st.pf < PLen /\ GenBegin <= PLen
  BY <1>1, StreamRecord, MtpAssumption, Consts DEF PLen
<1>3. RtOK(rt, N)' /\ N' = GenBegin /\ GenBegin <= NCtx /\ st.sent = 0 /\ st.pending = NoTok
  BY <1>1, <1>2, PromptStep
<1>4. st' = [pf |-> GenBegin, sent |-> st.sent, slice |-> st.slice, pending |-> st.pending,
             my |-> st.my]
  BY <1>1, StreamRecord, Zenon
<1>5. MTyped'
  <2>1. st' \in StreamType
    BY <1>2, <1>4, StreamRecord, Consts DEF StreamType
  <2> QED
    BY <2>1, <1>1, ConvKept DEF MInd, MTyped
<1>6. Replied'
  BY <1>1, <1>4, SameReply
<1>7. Stage'
  <2>1. Resting'
    BY <1>1, <1>3, <1>4 DEF Resting, PLen
  <2> QED
    BY <2>1, <1>1, <1>3 DEF Stage
<1> QED
  BY <1>5, <1>6, <1>7 DEF MInd

-----------------------------------------------------------------------------
(* The reply *)

LEMMA CycleStarts ==
    ASSUME MInd, NEW x \in Tokens, cyc' = [NoCycle EXCEPT !.x = x]
    PROVE  cyc' \in CycleType /\ cyc'.x = x
<1>1. NoState \in RtType /\ <<>> \in Seq(Tokens)
  BY FreshOK, EmptySeq DEF RtOK, RowsOK, MInd, MTyped
<1>2. cyc' = [x |-> x, drafts |-> <<>>, vA |-> <<>>, base |-> NoState, a |-> 0, xnew |-> NoTok,
              next |-> 1]
  BY DEF NoCycle
<1>3. 0 \in Nat /\ 1 \in Nat \ {0} /\ NoTok \in Tokens \cup {NoTok} /\ x \in Tokens \cup {NoTok}
  OBVIOUS
<1>4. cyc'.x = x
  BY <1>2
<1>5. [x |-> x, drafts |-> <<>>, vA |-> <<>>, base |-> NoState, a |-> 0, xnew |-> NoTok,
       next |-> 1] \in CycleType
  BY <1>1, <1>3 DEF CycleType
<1> QED
  BY <1>2, <1>4, <1>5, Zenon

LEMMA GenerateKeeps == ASSUME MInd, Generate PROVE MInd'
<1>1. /\ st' = [st EXCEPT !.pf = PLen] /\ pc' = "token"
      /\ UNCHANGED <<kind, conv, reply, gone>>
      /\ pc \in {"prompt", "generate"}
  BY DEF Generate, LastPart
<1> DEFINE rp == IF pc = "generate" THEN <<cyc.x>> ELSE SubSeq(Prompt, st.pf + 1, PLen)
<1>2. PICK x \in Argmax(rt') : rt' \in PrefillTo(rt, rp) /\ cyc' = [NoCycle EXCEPT !.x = x]
  BY DEF Generate
<1>3. ConvOK
  BY DEF MInd, MTyped
<1>4. RtOK(rt, N)' /\ N' = PLen + st.sent /\ N' \in 0..NCtx
  <2>1. CASE pc = "generate"
    <3>1. RtOK(rt, N) /\ N + 1 = PLen + st.sent /\ N + 1 < NCtx /\ cyc.x = conv[N + 1]
      BY <2>1 DEF MInd, Stage, OneAhead
    <3>2. N \in Nat
      BY <3>1, LenProperties DEF RtOK, RowsOK, RtType, N
    <3>3. cyc.x \in Tokens
      BY <1>3, <3>1, <3>2, ConvElem, Consts
    <3>4. <<cyc.x>> \in Seq(Tokens) /\ Len(<<cyc.x>>) = 1 /\ <<cyc.x>>[1] = cyc.x
      BY <3>3
    <3>5. Continues(<<cyc.x>>, N) /\ <<cyc.x>> # <<>>
      BY <3>1, <3>2, <3>4, Consts DEF Continues
    <3>6. rt' \in PrefillTo(rt, <<cyc.x>>)
      BY <1>2, <2>1
    <3>7. RtOK(rt, N)' /\ N' = N + Len(<<cyc.x>>)
      BY <3>5, <3>6, <1>1, <2>1, PrefillStep
    <3> QED
      BY <3>1, <3>2, <3>4, <3>7, Consts
  <2>2. CASE pc = "prompt"
    <3>1. st.pf < PLen
      BY <2>2 DEF Generate
    <3>2. rt' \in PrefillTo(rt, SubSeq(Prompt, st.pf + 1, PLen))
      BY <1>2, <2>2
    <3>3. RtOK(rt, N)' /\ N' = PLen /\ PLen <= NCtx /\ st.sent = 0
      BY <3>1, <3>2, <2>2, <1>1, PromptStep, Consts
    <3> QED
      BY <3>3, Consts
  <2> QED
    BY <1>1, <2>1, <2>2
<1>5. Argmax(rt') = {conv[N' + 1]}
  <2>1. RowsOK(rt', N')
    BY <1>1, <1>4 DEF RtOK, RowsOK, RowsTo, Prefix
  <2> QED
    BY <2>1, <1>3, <1>4, ArgmaxExact
<1>6. x = conv[N' + 1] /\ x \in Tokens
  BY <1>2, <1>3, <1>4, <1>5, ConvElem, Consts
<1>7. cyc' \in CycleType /\ cyc'.x = x
  BY <1>2, <1>6, CycleStarts
<1>8. st' = [pf |-> PLen, sent |-> st.sent, slice |-> st.slice, pending |-> st.pending,
             my |-> st.my]
  BY <1>1, StreamRecord, Zenon
<1>9. MTyped'
  <2>1. st' \in StreamType
    BY <1>8, StreamRecord, Consts DEF StreamType
  <2> QED
    BY <2>1, <1>1, <1>7, ConvKept DEF MInd, MTyped
<1>10. Replied'
  BY <1>1, <1>8, SameReply
<1>11. Stage'
  BY <1>1, <1>4, <1>6, <1>7, <1>8 DEF Stage, PLen
<1> QED
  BY <1>9, <1>10, <1>11 DEF MInd

(* What the state holds, and how many rows, where no cycle is at work. *)
LEMMA RtFacts ==
    ASSUME MInd, pc \notin {"verify", "settle"}
    PROVE  /\ ConvOK /\ RtOK(rt, N) /\ N \in 0..NCtx /\ n_past(rt) = N
           /\ rt.toks \in Seq(Tokens) /\ rt.toks = Prefix(conv, N) /\ conv[N + 1] \in Tokens
           /\ \A i \in 1..N : rt.toks[i] = conv[i]
<1>1. ConvOK /\ RtOK(rt, N) /\ N <= NCtx
  BY DEF MInd, MTyped, Stage
<1>2. rt.toks \in Seq(Tokens) /\ rt.toks = Prefix(conv, N) /\ N \in Nat
  BY <1>1, LenProperties DEF RtOK, RowsOK, RtType, N
<1>3. N \in 0..NCtx /\ N \in 0..(NCtx + 1)
  BY <1>1, <1>2, Consts
<1>4. n_past(rt) = N
  BY <1>1, <1>3, RowsTyped DEF RtOK, RowsOK
<1>5. conv[N + 1] \in Tokens /\ \A i \in 1..N : conv[i] \in Tokens
  BY <1>1, <1>2, ConvElem, Consts
<1>6. \A i \in 1..N : Prefix(conv, N)[i] = conv[i]
  BY <1>5, <1>2, SubSeqProperties DEF Prefix
<1> QED
  BY <1>1, <1>2, <1>3, <1>4, <1>5, <1>6

LEMMA UnsentFacts ==
    ASSUME MInd, pc = "prompt"
    PROVE  /\ Unsent # <<>> => /\ N >= PLen + st.sent + 1 /\ st.pf = PLen
                               /\ Head(Unsent) = conv[PLen + st.sent + 1]
           /\ Unsent = <<>> => N <= PLen + st.sent
<1> DEFINE s == PLen + st.sent + 1
<1>1. Resting
  BY DEF MInd, Stage
<1>2. s \in Nat \ {0} /\ N \in Nat /\ PLen \in Nat /\ st.sent \in Nat
  BY RtFacts, StreamRecord, Consts
<1>3. Unsent = SubSeq(rt.toks, s, N)
  BY DEF Unsent, N
<1> HIDE DEF s
<1>4. CASE N >= s
  <2>1. s \in 1..Len(rt.toks) /\ N \in s..Len(rt.toks)
    BY <1>2, <1>4 DEF N
  <2>2. Head(Unsent) = rt.toks[s]
    BY <2>1, <1>3, RtFacts, HeadTailOfSubSeq
  <2>3. Len(Unsent) = N - s + 1
    <3>1. \A i \in s..N : rt.toks[i] \in Tokens
      BY <2>1, RtFacts, ElementOfSeq DEF N
    <3> QED
      BY <3>1, <1>2, <1>3, <1>4, SubSeqProperties
  <2>4. Unsent # <<>>
    BY <2>3, <1>2, <1>4
  <2>5. st.pf = PLen
    BY <1>1, <1>2, <1>4 DEF Resting, s
  <2>6. rt.toks[s] = conv[s]
    BY <1>2, <1>4, RtFacts
  <2> QED
    BY <2>2, <2>4, <2>5, <2>6, <1>4 DEF s
<1>5. CASE N < s
  <2>1. Unsent = <<>>
    BY <1>2, <1>3, <1>5, SubSeqEmpty
  <2> QED
    BY <2>1, <1>2, <1>5 DEF s
<1> QED
  BY <1>2, <1>4, <1>5

LEMMA ResendKeeps == ASSUME MInd, Resend PROVE MInd'
<1>1. pc = "prompt" /\ Unsent # <<>>
  BY DEF Resend, LastPart
<1>2. CASE Finish
  BY <1>1, <1>2, FinishKeeps
<1>3. CASE Emit(Head(Unsent), st.slice, st.pending, "prompt") /\ UNCHANGED cyc
  <2>1. /\ N >= PLen + st.sent + 1 /\ st.pf = PLen
        /\ Head(Unsent) = conv[PLen + st.sent + 1]
    BY <1>1, UnsentFacts
  <2>2. st.sent < kind.max
    BY <1>1 DEF MInd, Replied
  <2>3. PLen + st.sent + 1 <= NCtx
    BY <2>1, <1>1, RtFacts, StreamRecord, Consts
  <2>4. /\ Replied' /\ st' \in StreamType
        /\ st'.sent = st.sent + 1 /\ st'.pf = st.pf /\ st'.pending = st.pending
    BY <1>3, <2>1, <2>2, <2>3, StreamRecord, EmitKeeps
  <2>5. UNCHANGED <<kind, conv, rt, gone, cyc>> /\ pc' \in {"closing", "prompt"}
    BY <1>3 DEF Emit
  <2>6. RtOK(rt, N)' /\ N' = N /\ N \in 0..NCtx
    BY <2>5, <1>1, SameRt
  <2>7. MTyped'
    BY <2>4, <2>5, ConvKept DEF MInd, MTyped
  <2>8. Resting
    BY <1>1 DEF MInd, Stage
  <2>9. Resting'
    BY <2>1, <2>4, <2>5, <2>6, <2>8, StreamRecord, Consts DEF Resting, PLen
  <2>10. Stage'
    BY <2>5, <2>6, <2>9 DEF Stage
  <2> QED
    BY <2>4, <2>7, <2>10 DEF MInd
<1> QED
  BY <1>2, <1>3 DEF Resend

LEMMA SendPendingKeeps == ASSUME MInd, SendPending PROVE MInd'
<1>1. pc = "prompt" /\ Unsent = <<>> /\ st.pending # NoTok
  BY DEF SendPending, LastPart
<1>2. CASE Finish
  BY <1>1, <1>2, FinishKeeps
<1>3. CASE /\ n_past(rt) + 1 < NCtx
           /\ Emit(st.pending, st.slice, NoTok, "generate")
           /\ cyc' = [NoCycle EXCEPT !.x = st.pending]
  <2>1. st.pf = PLen /\ N = PLen + st.sent /\ st.pending = conv[N + 1] /\ N + 1 < NCtx
    <3>1. Resting
      BY <1>1 DEF MInd, Stage
    <3>2. N <= PLen + st.sent /\ N \in Nat /\ st.sent \in Nat /\ PLen \in Nat /\ n_past(rt) = N
      BY <1>1, UnsentFacts, RtFacts, StreamRecord, Consts
    <3> QED
      BY <3>1, <3>2, <1>1, <1>3 DEF Resting
  <2>2. st.sent < kind.max
    BY <1>1 DEF MInd, Replied
  <2>3. PLen + st.sent + 1 <= NCtx /\ st.pending = conv[PLen + st.sent + 1]
    BY <2>1, <1>1, RtFacts, StreamRecord, Consts
  <2>4. /\ Replied' /\ st' \in StreamType
        /\ st'.sent = st.sent + 1 /\ st'.pf = st.pf /\ st'.pending = NoTok
    BY <1>3, <2>2, <2>3, StreamRecord, EmitKeeps
  <2>5. UNCHANGED <<kind, conv, rt, gone>> /\ pc' \in {"closing", "generate"}
    BY <1>3 DEF Emit
  <2>6. RtOK(rt, N)' /\ N' = N /\ N \in 0..NCtx
    BY <2>5, <1>1, SameRt
  <2>7. cyc' \in CycleType /\ cyc'.x = st.pending
    BY <1>1, <1>3, StreamRecord, CycleStarts
  <2>8. MTyped'
    BY <2>4, <2>5, <2>7, ConvKept DEF MInd, MTyped
  <2>9. OneAhead'
    BY <2>1, <2>4, <2>5, <2>6, <2>7, StreamRecord, Consts DEF OneAhead, PLen
  <2>10. Stage'
    BY <2>5, <2>6, <2>9 DEF Stage
  <2> QED
    BY <2>4, <2>8, <2>10 DEF MInd
<1> QED
  BY <1>2, <1>3 DEF SendPending

-----------------------------------------------------------------------------
(* A cycle *)

LEMMA CycleRecord ==
    ASSUME MInd
    PROVE  /\ cyc = [x |-> cyc.x, drafts |-> cyc.drafts, vA |-> cyc.vA, base |-> cyc.base,
                     a |-> cyc.a, xnew |-> cyc.xnew, next |-> cyc.next]
           /\ cyc.x \in Tokens \cup {NoTok} /\ cyc.drafts \in Seq(Tokens) /\ cyc.vA \in Seq(Tokens)
           /\ cyc.base \in RtType /\ cyc.a \in Nat /\ cyc.xnew \in Tokens \cup {NoTok}
           /\ cyc.next \in Nat \ {0}
BY DEF MInd, MTyped, CycleType

(* The stream yields the runtime with the token to go on with.             *)
LEMMA PauseKeeps ==
    ASSUME MInd, pc \in {"token", "deliver"}, st.pf = PLen, N >= PLen + st.sent,
           NEW pending, pending = conv[N + 1],
           pc' = "paused", st' = [st EXCEPT !.pending = pending, !.my = rt.toks],
           UNCHANGED <<kind, conv, rt, cyc, reply, gone>>
    PROVE  MInd'
<1>1. pending \in Tokens /\ rt.toks \in Seq(Tokens)
  BY RtFacts
<1>2. st' = [pf |-> st.pf, sent |-> st.sent, slice |-> st.slice, pending |-> pending,
             my |-> rt.toks]
  BY StreamRecord, Zenon
<1>3. RtOK(rt, N)' /\ N' = N /\ N \in 0..NCtx
  BY SameRt
<1>4. MTyped'
  <2>1. st' \in StreamType
    BY <1>1, <1>2, StreamRecord DEF StreamType
  <2> QED
    BY <2>1, ConvKept DEF MInd, MTyped
<1>5. Replied'
  BY <1>2, SameReply
<1>6. Stage'
  <2>1. Resting'
    BY <1>2, <1>3 DEF Resting, PLen
  <2> QED
    BY <2>1, <1>2, <1>3 DEF Stage
<1> QED
  BY <1>4, <1>5, <1>6 DEF MInd

LEMMA TokenKeeps == ASSUME MInd, Token PROVE MInd'
<1>1. pc = "token" /\ st.pf = PLen /\ N = PLen + st.sent /\ cyc.x = conv[N + 1]
  BY DEF MInd, Stage, Token
<1>2. CASE Finish
  BY <1>1, <1>2, FinishKeeps
<1>3. CASE /\ pc' = "paused" /\ st' = [st EXCEPT !.pending = cyc.x, !.my = rt.toks]
           /\ UNCHANGED <<kind, conv, rt, cyc, reply, gone>>
  <2>1. N >= PLen + st.sent
    BY <1>1, RtFacts
  <2> QED
    BY <1>1, <1>3, <2>1, PauseKeeps
<1>4. CASE /\ ~Done(cyc.x)
           /\ Emit(cyc.x, IF SliceUsed THEN 0 ELSE st.slice, NoTok, "draft")
           /\ cyc' = [cyc EXCEPT !.next = IF "draft" = "deliver" THEN @ + 1 ELSE @]
  <2>1. N + 1 < NCtx /\ N \in Nat /\ NCtx \in Nat
    BY <1>1, <1>4, RtFacts, Consts DEF Done
  <2>2. st.sent < kind.max
    BY <1>1 DEF MInd, Replied
  <2>3. PLen + st.sent + 1 <= NCtx /\ cyc.x = conv[PLen + st.sent + 1]
    BY <1>1, <2>1
  <2>4. (IF SliceUsed THEN 0 ELSE st.slice) \in Nat
    BY StreamRecord
  <2>5. /\ Replied' /\ st' \in StreamType
        /\ st'.sent = st.sent + 1 /\ st'.pf = st.pf /\ st'.pending = NoTok
    BY <1>4, <2>2, <2>3, <2>4, EmitKeeps
  <2>6. UNCHANGED <<kind, conv, rt, gone>> /\ pc' \in {"closing", "draft"}
    BY <1>4 DEF Emit
  <2>7. cyc' = cyc
    <3>1. cyc' = [cyc EXCEPT !.next = cyc.next]
      BY <1>4
    <3> QED
      BY <3>1, CycleRecord, Zenon
  <2>8. RtOK(rt, N)' /\ N' = N /\ N \in 0..NCtx
    BY <2>6, <1>1, SameRt
  <2>9. MTyped'
    BY <2>5, <2>6, <2>7, ConvKept DEF MInd, MTyped
  <2>10. OneAhead'
    BY <1>1, <2>1, <2>5, <2>6, <2>7, <2>8, StreamRecord, Consts DEF OneAhead, PLen
  <2>11. Stage'
    BY <2>6, <2>8, <2>10 DEF Stage
  <2> QED
    BY <2>5, <2>9, <2>11 DEF MInd
<1> QED
  BY <1>2, <1>3, <1>4 DEF Token, OnToken

LEMMA DeliverKeeps == ASSUME MInd, Deliver PROVE MInd'
<1>1. pc = "deliver" /\ Delivering /\ cyc.next <= cyc.a
  BY DEF MInd, Stage, Deliver
<1>2. /\ N \in 0..NCtx /\ N \in Nat /\ NCtx \in Nat /\ PLen \in Nat /\ st.sent \in Nat
      /\ cyc.a \in Nat /\ cyc.next \in Nat \ {0} /\ K \in Nat
  BY <1>1, RtFacts, Consts, StreamRecord, CycleRecord, KindTyped
<1>0. /\ N + cyc.next = PLen + st.sent + cyc.a + 1
      /\ \A j \in 1..cyc.a : cyc.drafts[j] = conv[N - cyc.a + j]
  BY <1>1 DEF Delivering
<1>3. N >= PLen + st.sent /\ N - cyc.a + cyc.next = PLen + st.sent + 1
  BY <1>0, <1>1, <1>2
<1> DEFINE t == cyc.drafts[cyc.next]
<1>4. t = conv[PLen + st.sent + 1]
  <2>1. cyc.next \in 1..cyc.a
    BY <1>1, <1>2
  <2> QED
    BY <2>1, <1>0, <1>3
<1> HIDE DEF t
<1>5. CASE Finish
  BY <1>1, <1>5, FinishKeeps
<1>6. CASE /\ pc' = "paused" /\ st' = [st EXCEPT !.pending = cyc.xnew, !.my = rt.toks]
           /\ UNCHANGED <<kind, conv, rt, cyc, reply, gone>>
  BY <1>1, <1>3, <1>6, PauseKeeps DEF Delivering
<1>7. CASE /\ ~Done(t)
           /\ Emit(t, IF SliceUsed THEN 0 ELSE st.slice, NoTok, "deliver")
           /\ cyc' = [cyc EXCEPT !.next = IF "deliver" = "deliver" THEN @ + 1 ELSE @]
  <2>1. N + 1 < NCtx
    <3>1. n_past(rt) = N
      BY <1>1, RtFacts
    <3> QED
      BY <3>1, <1>2, <1>7 DEF Done
  <2>2. st.sent < kind.max
    BY <1>1 DEF MInd, Replied
  <2>3. PLen + st.sent + 1 <= NCtx
    BY <1>2, <1>3, <2>1
  <2>4. (IF SliceUsed THEN 0 ELSE st.slice) \in Nat
    BY StreamRecord
  <2>5. /\ Replied' /\ st' \in StreamType
        /\ st'.sent = st.sent + 1 /\ st'.pf = st.pf /\ st'.pending = NoTok
    BY <1>4, <1>7, <2>2, <2>3, <2>4, EmitKeeps
  <2>6. UNCHANGED <<kind, conv, rt, gone>> /\ pc' \in {"closing", "deliver"}
    BY <1>7 DEF Emit
  <2>7. cyc' = [x |-> cyc.x, drafts |-> cyc.drafts, vA |-> cyc.vA, base |-> cyc.base,
                a |-> cyc.a, xnew |-> cyc.xnew, next |-> cyc.next + 1]
    <3>1. cyc' = [cyc EXCEPT !.next = cyc.next + 1]
      BY <1>7
    <3> QED
      BY <3>1, CycleRecord, Zenon
  <2>8. RtOK(rt, N)' /\ N' = N /\ N \in 0..NCtx
    BY <2>6, <1>1, SameRt
  <2>9. MTyped'
    <3>1. cyc' \in CycleType
      BY <1>2, <2>7, CycleRecord DEF CycleType
    <3> QED
      BY <3>1, <2>5, <2>6, ConvKept DEF MInd, MTyped
  <2>10. Delivering'
    <3>1. /\ cyc'.a = cyc.a /\ cyc'.drafts = cyc.drafts /\ cyc'.xnew = cyc.xnew
          /\ cyc'.next = cyc.next + 1 /\ K' = K
      BY <2>6, <2>7 DEF K
    <3>2. cyc.next + 1 <= cyc.a + 1 /\ N + (cyc.next + 1) = PLen + (st.sent + 1) + cyc.a + 1
      BY <1>0, <1>1, <1>2
    <3> QED
      BY <3>1, <3>2, <1>1, <2>5, <2>6, <2>8 DEF Delivering, PLen
  <2>11. Stage'
    BY <2>6, <2>8, <2>10 DEF Stage
  <2> QED
    BY <2>5, <2>9, <2>11 DEF MInd
<1> QED
  BY <1>5, <1>6, <1>7 DEF Deliver, OnToken, t

LEMMA NextCycleKeeps == ASSUME MInd, NextCycle PROVE MInd'
<1>1. /\ pc = "deliver" /\ Delivering /\ cyc.next > cyc.a
      /\ cyc' = [NoCycle EXCEPT !.x = cyc.xnew] /\ pc' = "token"
      /\ UNCHANGED <<kind, conv, rt, st, reply, gone>>
  BY DEF MInd, Stage, NextCycle
<1>2. st.pf = PLen /\ N = PLen + st.sent /\ cyc.xnew = conv[N + 1] /\ cyc.xnew \in Tokens
  <2>1. /\ N + cyc.next = PLen + st.sent + cyc.a + 1 /\ cyc.next <= cyc.a + 1
        /\ st.pf = PLen /\ cyc.xnew = conv[N + 1]
    BY <1>1 DEF Delivering
  <2>2. /\ N \in Nat /\ PLen \in Nat /\ st.sent \in Nat /\ cyc.a \in Nat /\ cyc.next \in Nat
        /\ conv[N + 1] \in Tokens
    BY <1>1, RtFacts, Consts, StreamRecord, CycleRecord
  <2> QED
    BY <1>1, <2>1, <2>2
<1>3. cyc' \in CycleType /\ cyc'.x = cyc.xnew
  BY <1>1, <1>2, CycleStarts
<1>4. RtOK(rt, N)' /\ N' = N /\ N \in 0..NCtx
  BY <1>1, SameRt
<1>5. MTyped'
  BY <1>1, <1>3, ConvKept DEF MInd, MTyped
<1>6. Replied'
  BY <1>1, SameReply
<1>7. Stage'
  BY <1>1, <1>2, <1>3, <1>4 DEF Stage, PLen
<1> QED
  BY <1>5, <1>6, <1>7 DEF MInd

(* Two sequences of the same set, one after the other. *)
LEMMA Joined ==
    ASSUME NEW S, NEW s \in Seq(S), NEW u \in Seq(S)
    PROVE  /\ s \o u \in Seq(S) /\ Len(s \o u) = Len(s) + Len(u)
           /\ \A i \in 1..Len(s) : (s \o u)[i] = s[i]
           /\ \A i \in 1..Len(u) : (s \o u)[Len(s) + i] = u[i]
<1>1. s \o u \in Seq(S) /\ Len(s \o u) = Len(s) + Len(u)
  BY ConcatProperties, Zenon
<1>2. \A i \in 1..Len(s) + Len(u) : (s \o u)[i] = IF i <= Len(s) THEN s[i] ELSE u[i - Len(s)]
  BY ConcatProperties, Zenon
<1>3. Len(s) \in Nat /\ Len(u) \in Nat
  BY LenProperties
<1>4. \A i \in 1..Len(s) : (s \o u)[i] = s[i]
  BY <1>2, <1>3
<1>5. ASSUME NEW i \in 1..Len(u) PROVE (s \o u)[Len(s) + i] = u[i]
  <2>1. /\ Len(s) + i \in 1..Len(s) + Len(u) /\ ~(Len(s) + i <= Len(s))
        /\ (Len(s) + i) - Len(s) = i
    BY <1>3
  <2> QED
    BY <2>1, <1>2
<1> QED
  BY <1>1, <1>4, <1>5

(* The draft block takes its K rows. *)
LEMMA DraftedFields ==
    ASSUME MInd, pc = "draft", NEW d \in [1..K -> Tokens]
    PROVE  /\ Drafted(rt, cyc.x, d) \in RtType
           /\ Drafted(rt, cyc.x, d).toks = rt.toks /\ Drafted(rt, cyc.x, d).rows = rt.rows
           /\ Drafted(rt, cyc.x, d).gdn = rt.gdn /\ Drafted(rt, cyc.x, d).rope = rt.rope
           /\ Len(Drafted(rt, cyc.x, d).nextn) = N + K - 1
           /\ \A i \in 1..N : /\ Drafted(rt, cyc.x, d).nextn[i].tok = conv[i + 1]
                              /\ ~kind.ecache => Drafted(rt, cyc.x, d).nextn[i].hid = Prefix(conv, i)
<1> DEFINE NR == [tok : Tokens, hid : Hidden]
           first == NextnRow(cyc.x, rt.hidden)
           rest == [j \in 1..(K - 1) |-> NextnRow(d[j], BlockHidden)]
           head == rt.nextn \o <<first>>
           nextn == head \o rest
           hidden == IF K > 1 THEN BlockHidden ELSE rt.hidden
           D == Drafted(rt, cyc.x, d)
<1>1. OneAhead /\ RtOK(rt, N) /\ rt \in RtType /\ N \in Nat /\ K \in Nat \ {0} /\ N >= 1
  <2>1. OneAhead
    BY DEF MInd, Stage
  <2>2. RtOK(rt, N) /\ N \in Nat
    BY RtFacts
  <2>3. N >= 1
    BY <2>1, <2>2, StreamRecord, Consts DEF OneAhead
  <2> QED
    BY <2>1, <2>2, <2>3, KindTyped DEF RtOK, RowsOK
<1>2. BlockHidden \in Hidden
  BY DEF BlockHidden, Hidden
<1>3. first \in NR /\ first.tok = conv[N + 1] /\ (~kind.ecache => first.hid = Prefix(conv, N))
  <2>1. cyc.x = conv[N + 1] /\ cyc.x \in Tokens
    BY <1>1, RtFacts DEF OneAhead
  <2>2. rt.hidden \in Hidden /\ (~kind.ecache => rt.hidden = Prefix(conv, N))
    BY <1>1, TypedRecord DEF RtOK, HiddenOK
  <2> QED
    BY <2>1, <2>2 DEF NextnRow
<1>4. rest \in Seq(NR) /\ Len(rest) = K - 1
  <2>1. \A j \in 1..(K - 1) : NextnRow(d[j], BlockHidden) \in NR
    BY <1>1, <1>2 DEF NextnRow
  <2>2. K - 1 \in Nat
    BY <1>1
  <2> HIDE DEF NR
  <2> QED
    BY <2>1, <2>2
<1>5. rt.nextn \in Seq(NR) /\ Len(rt.nextn) = N - 1 /\ Len(rt.nextn) + 1 = N
  <2>1. rt.nextn \in Seq(NR)
    BY <1>1, TypedRecord
  <2>2. Len(rt.nextn) = IF N = 0 THEN 0 ELSE N - 1
    BY <1>1 DEF RtOK, NextnOK
  <2> QED
    BY <2>1, <2>2, <1>1
<1>6. <<first>> \in Seq(NR) /\ Len(<<first>>) = 1 /\ <<first>>[1] = first
  <2> HIDE DEF first, NR
  <2> QED
    BY <1>3
<1>7. /\ head \in Seq(NR) /\ Len(head) = N
      /\ \A i \in 1..(N - 1) : head[i] = rt.nextn[i]
      /\ head[N] = first
  <2> HIDE DEF first, NR, head
  <2>1. /\ head \in Seq(NR) /\ Len(head) = Len(rt.nextn) + Len(<<first>>)
        /\ \A i \in 1..Len(rt.nextn) : head[i] = rt.nextn[i]
        /\ \A i \in 1..Len(<<first>>) : head[Len(rt.nextn) + i] = <<first>>[i]
    <3> DEFINE one == <<first>>
    <3>1. one \in Seq(NR)
      BY <1>6
    <3> HIDE DEF one
    <3>2. /\ rt.nextn \o one \in Seq(NR) /\ Len(rt.nextn \o one) = Len(rt.nextn) + Len(one)
          /\ \A i \in 1..Len(rt.nextn) : (rt.nextn \o one)[i] = rt.nextn[i]
          /\ \A i \in 1..Len(one) : (rt.nextn \o one)[Len(rt.nextn) + i] = one[i]
      BY <1>5, <3>1, Joined
    <3> QED
      BY <3>2, Zenon DEF head, one
  <2> QED
    BY <2>1, <1>1, <1>5, <1>6
<1>8. /\ nextn \in Seq(NR) /\ Len(nextn) = N + K - 1
      /\ \A i \in 1..N : nextn[i] = head[i]
  <2> HIDE DEF head, rest, NR, nextn
  <2>1. /\ nextn \in Seq(NR) /\ Len(nextn) = Len(head) + Len(rest)
        /\ \A i \in 1..Len(head) : nextn[i] = head[i]
    BY <1>4, <1>7, Joined, Zenon DEF nextn
  <2> QED
    BY <2>1, <1>1, <1>4, <1>7
<1>9. \A i \in 1..N : /\ nextn[i].tok = conv[i + 1]
                      /\ ~kind.ecache => nextn[i].hid = Prefix(conv, i)
  <2> HIDE DEF head, rest, NR, nextn, first
  <2> TAKE i \in 1..N
  <2>1. CASE i = N
    BY <2>1, <1>3, <1>7, <1>8
  <2>2. CASE i # N
    <3>1. i \in 1..(N - 1) /\ i \in 1..Len(rt.nextn)
      BY <2>2, <1>1, <1>5
    <3>2. rt.nextn[i].tok = conv[i + 1] /\ (~kind.ecache => rt.nextn[i].hid = Prefix(conv, i))
      BY <3>1, <1>1 DEF RtOK, NextnOK
    <3> QED
      BY <3>1, <3>2, <1>7, <1>8
  <2> QED
    BY <2>1, <2>2
<1>10. D = [toks |-> rt.toks, rows |-> rt.rows, gdn |-> rt.gdn, rope |-> rt.rope,
            nextn |-> nextn, hidden |-> hidden]
  <2>1. D = [rt EXCEPT !.nextn = nextn, !.hidden = hidden]
    BY DEF Drafted
  <2>2. rt = [toks |-> rt.toks, rows |-> rt.rows, gdn |-> rt.gdn, rope |-> rt.rope,
              nextn |-> rt.nextn, hidden |-> rt.hidden]
    BY <1>1, TypedRecord
  <2> HIDE DEF D, nextn, hidden
  <2> QED
    BY <2>1, <2>2, Zenon
<1>11. hidden \in Hidden
  BY <1>1, <1>2, TypedRecord
<1> HIDE DEF D, nextn, hidden, head, rest, first
<1>12. D \in RtType
  BY <1>1, <1>8, <1>10, <1>11, TypedRecord DEF RtType
<1> QED
  BY <1>8, <1>9, <1>10, <1>12 DEF D

LEMMA DraftKeeps == ASSUME MInd, Draft PROVE MInd'
<1>1. pc = "draft" /\ pc' = "verify" /\ UNCHANGED <<kind, conv, st, reply, gone>>
  BY DEF Draft
<1>2. PICK d \in [1..K -> Tokens] :
          /\ cyc' = [cyc EXCEPT !.drafts = d, !.base = rt]
          /\ rt' = Drafted(rt, cyc.x, d)
  BY DEF Draft
<1>3. K \in Nat /\ d \in Seq(Tokens) /\ Len(d) = K
  BY KindTyped
<1>4. cyc' = [x |-> cyc.x, drafts |-> d, vA |-> cyc.vA, base |-> rt, a |-> cyc.a,
              xnew |-> cyc.xnew, next |-> cyc.next]
  BY <1>2, CycleRecord, Zenon
<1>5. OneAhead /\ RtOK(rt, N) /\ rt \in RtType /\ rt.toks = Prefix(conv, N)
  BY <1>1 DEF MInd, Stage, RtOK, RowsOK
<1>6. /\ rt' \in RtType /\ rt'.toks = rt.toks /\ rt'.rows = rt.rows
      /\ rt'.gdn = rt.gdn /\ rt'.rope = rt.rope
      /\ Len(rt'.nextn) = N + K - 1
      /\ \A i \in 1..N : /\ rt'.nextn[i].tok = conv[i + 1]
                         /\ ~kind.ecache => rt'.nextn[i].hid = Prefix(conv, i)
  BY <1>1, <1>2, DraftedFields
<1>7. N' = N /\ K' = K
  BY <1>1, <1>6 DEF N, K
<1>8. MTyped'
  <2>1. cyc' \in CycleType
    BY <1>3, <1>4, <1>5, CycleRecord DEF CycleType
  <2> QED
    BY <2>1, <1>1, ConvKept DEF MInd, MTyped
<1>9. Replied'
  BY <1>1, SameReply
<1>10. cyc'.x = cyc.x /\ cyc'.drafts = d /\ cyc'.base = rt
  BY <1>4
<1>11. RtOK(cyc.base, N)'
  <2>1. RtOK(rt, N)
    BY <1>5
  <2>2. RowsOK(cyc.base, N)'
    BY <2>1, <1>1, <1>7, <1>10 DEF RtOK, RowsOK, RowsTo, Prefix
  <2>3. PosOK(cyc.base, N)' /\ HiddenOK(cyc.base, N)' /\ cyc'.base.toks = Prefix(conv', N')
    BY <2>1, <1>1, <1>7, <1>10 DEF RtOK, PosOK, HiddenOK, Prefix
  <2>4. NextnOK(cyc.base, N)'
    BY <2>1, <1>1, <1>7, <1>10 DEF RtOK, NextnOK, Prefix
  <2> QED
    BY <2>2, <2>3, <2>4 DEF RtOK
<1>12. OneAhead'
  BY <1>1, <1>5, <1>7, <1>10 DEF OneAhead, PLen
<1>13. Verifying'
  BY <1>1, <1>3, <1>5, <1>6, <1>7, <1>10, <1>11, <1>12 DEF Verifying, Prefix
<1>14. RowsOK(rt, N)' /\ PosOK(rt, N)'
  BY <1>1, <1>5, <1>6, <1>7 DEF RtOK, RowsOK, PosOK, RowsTo, Prefix
<1>15. Stage'
  BY <1>1, <1>13, <1>14 DEF Stage
<1> QED
  BY <1>8, <1>9, <1>15 DEF MInd

(* The tokens of a verify batch, for which the context has room. *)
LEMMA BatchFacts ==
    ASSUME MInd, pc \in {"verify", "settle"}, Regular(kind)
    PROVE  /\ ConvOK /\ Verifying /\ N \in Nat \ {0} /\ K \in Nat \ {0} /\ NCtx \in Nat
           /\ N + K + 1 <= NCtx
           /\ cyc.x \in Tokens /\ cyc.drafts \in Seq(Tokens) /\ Len(cyc.drafts) = K
           /\ VerifyToks \in Seq(Tokens) /\ Len(VerifyToks) = K + 1
           /\ VerifyToks[1] = conv[N + 1]
           /\ \A i \in 1..K : VerifyToks[i + 1] = cyc.drafts[i]
<1>1. Verifying /\ ConvOK /\ Len(cyc.drafts) = K /\ OneAhead
  BY DEF MInd, Stage, MTyped, Verifying
<1>2. N + 1 = PLen + st.sent /\ st.sent > 0 /\ N + 1 < NCtx /\ cyc.x = conv[N + 1]
  BY <1>1 DEF OneAhead
<1>3. /\ N \in Nat /\ PLen \in Nat \ {0} /\ NCtx \in Nat /\ st.sent \in Nat /\ K \in Nat \ {0}
      /\ kind.max \in Nat
  BY <1>1, LenProperties, Consts, StreamRecord, KindTyped DEF Verifying, RtType, N
<1>4. N >= 1
  BY <1>2, <1>3
<1>5. N + K + 1 <= NCtx
  <2>1. st.sent < kind.max
    BY DEF MInd, Replied
  <2>2. K = 1 \/ PLen + kind.max + K <= NCtx + 1
    BY DEF Regular, K
  <2> QED
    BY <2>1, <2>2, <1>2, <1>3
<1>6. cyc.x \in Tokens /\ cyc.drafts \in Seq(Tokens)
  <2>1. N + 1 \in 1..(NCtx + 1)
    BY <1>2, <1>3
  <2> QED
    BY <2>1, <1>1, <1>2, ConvElem, CycleRecord
<1> DEFINE one == <<cyc.x>>
<1>7. one \in Seq(Tokens) /\ Len(one) = 1 /\ one[1] = cyc.x
  BY <1>6
<1> HIDE DEF one
<1>8. /\ one \o cyc.drafts \in Seq(Tokens) /\ Len(one \o cyc.drafts) = Len(one) + Len(cyc.drafts)
      /\ \A i \in 1..Len(one) : (one \o cyc.drafts)[i] = one[i]
      /\ \A i \in 1..Len(cyc.drafts) : (one \o cyc.drafts)[Len(one) + i] = cyc.drafts[i]
  BY <1>6, <1>7, Joined
<1>9. VerifyToks = one \o cyc.drafts
  BY DEF VerifyToks, one
<1>10. /\ VerifyToks \in Seq(Tokens) /\ Len(VerifyToks) = K + 1 /\ VerifyToks[1] = conv[N + 1]
       /\ \A i \in 1..K : VerifyToks[i + 1] = cyc.drafts[i]
  BY <1>1, <1>2, <1>3, <1>7, <1>8, <1>9
<1> QED
  BY <1>1, <1>3, <1>4, <1>5, <1>6, <1>10

(* As long as the drafts are right the batch goes on with the conversation.*)
LEMMA RightDrafts ==
    ASSUME MInd, pc \in {"verify", "settle"}, Regular(kind), NEW a \in 0..K,
           \A i \in 1..a : cyc.drafts[i] = conv[N + 1 + i]
    PROVE  /\ Continues(Prefix(VerifyToks, a + 1), N) /\ Len(Prefix(VerifyToks, a + 1)) = a + 1
           /\ \A i \in 1..(a + 1) : Prefix(VerifyToks, a + 1)[i] = VerifyToks[i]
<1> DEFINE t == Prefix(VerifyToks, a + 1)
<1>1. a \in Nat /\ a <= K /\ N \in Nat /\ K \in Nat /\ NCtx \in Nat /\ N + K + 1 <= NCtx
  BY BatchFacts
<1>2. \A i \in 1..(a + 1) : VerifyToks[i] \in Tokens
  BY <1>1, BatchFacts, ElementOfSeq
<1>3. /\ t \in Seq(Tokens) /\ Len(t) = a + 1
      /\ \A i \in 1..(a + 1) : t[i] = VerifyToks[i]
  <2> DEFINE m == a + 1
  <2>1. m \in Nat /\ \A i \in 1..m : VerifyToks[i] \in Tokens
    BY <1>1, <1>2
  <2> HIDE DEF m
  <2>2. /\ SubSeq(VerifyToks, 1, m) \in Seq(Tokens) /\ Len(SubSeq(VerifyToks, 1, m)) = m
        /\ \A i \in 1..m : SubSeq(VerifyToks, 1, m)[i] = VerifyToks[i]
    BY <2>1, SubSeqProperties
  <2> QED
    BY <2>2 DEF m, Prefix
<1> HIDE DEF t
<1>4. ASSUME NEW i \in 1..(a + 1) PROVE t[i] = conv[N + i]
  <2>1. CASE i = 1
    BY <2>1, <1>1, <1>3, BatchFacts
  <2>2. CASE i # 1
    <3>1. i - 1 \in 1..a /\ i - 1 \in 1..K /\ (i - 1) + 1 = i /\ N + 1 + (i - 1) = N + i
      BY <2>2, <1>1
    <3>2. VerifyToks[(i - 1) + 1] = cyc.drafts[i - 1]
      BY <3>1, BatchFacts
    <3>3. cyc.drafts[i - 1] = conv[N + 1 + (i - 1)]
      BY <3>1
    <3> QED
      BY <3>1, <3>2, <3>3, <1>3
  <2> QED
    BY <2>1, <2>2
<1>5. N + Len(t) <= NCtx + 1
  BY <1>1, <1>3
<1> QED
  BY <1>3, <1>4, <1>5 DEF Continues, t

LEMMA SeenTyped == ASSUME NEW r \in RtType PROVE Seen(r) \in Hidden
<1>1. r.rows \in Seq([tok : Tokens, pos : Nat]) /\ DOMAIN r.rows = 1..Len(r.rows) /\ Len(r.rows) \in Nat
  BY TypedRecord, LenProperties
<1>2. \A i \in 1..Len(r.rows) : r.rows[i].tok \in Tokens \cup {NoTok}
  <2> DEFINE R == [tok : Tokens, pos : Nat]
  <2>1. r.rows \in Seq(R)
    BY <1>1
  <2> HIDE DEF R
  <2>2. \A i \in 1..Len(r.rows) : r.rows[i] \in R
    BY <2>1, ElementOfSeq
  <2> QED
    BY <2>2 DEF R
<1> QED
  BY <1>1, <1>2 DEF Seen, Hidden

LEMMA VerifyKeeps == ASSUME MInd, Verify, Regular(kind) PROVE MInd'
<1> DEFINE f == Forward(rt, VerifyToks)
           g == [f EXCEPT !.rope = @ + K + 1]
<1>1. /\ pc = "verify" /\ pc' = "settle" /\ UNCHANGED <<kind, conv, st, reply, gone>>
      /\ rt' = IF FromBatch THEN f ELSE Capture(g)
  BY DEF Verify, VerifyToks
<1>2. PICK v \in [1..(K + 1) -> Tokens] :
          /\ \A j \in 1..(K + 1) : v[j] \in Argmax(Forward(rt, Prefix(VerifyToks, j)))
          /\ cyc' = [cyc EXCEPT !.vA = v]
  BY DEF Verify, VerifyToks
<1>3. /\ ConvOK /\ Verifying /\ N \in Nat /\ K \in Nat \ {0} /\ N + K + 1 <= NCtx /\ NCtx \in Nat
      /\ VerifyToks \in Seq(Tokens) /\ Len(VerifyToks) = K + 1
      /\ RowsOK(rt, N) /\ PosOK(rt, N)
  <2>1. RowsOK(rt, N) /\ PosOK(rt, N)
    BY <1>1 DEF MInd, Stage
  <2> QED
    BY <2>1, <1>1, BatchFacts
<1>4. /\ f \in RtType /\ f.toks = rt.toks /\ f.nextn = rt.nextn
      /\ f.rows = RowsTo(N) \o [i \in 1..(K + 1) |-> [tok |-> VerifyToks[i], pos |-> N + i - 1]]
      /\ kind.gdn => f.gdn = Prefix(conv, N) \o VerifyToks
  <2>1. N \in 0..(NCtx + 1)
    BY <1>3
  <2>2. /\ f \in RtType /\ f.toks = rt.toks /\ f.nextn = rt.nextn
        /\ kind.gdn => f.gdn = Prefix(conv, N) \o VerifyToks
        /\ f.rows = RowsTo(N)
                    \o [i \in 1..Len(VerifyToks) |-> [tok |-> VerifyToks[i], pos |-> N + i - 1]]
    BY ZenonT(60), <2>1, <1>3, ForwardFields
  <2>3. Len(VerifyToks) = K + 1
    BY <1>3
  <2> HIDE DEF f
  <2> QED
    BY <2>2, <2>3, Zenon
<1>5. /\ rt' \in RtType /\ rt'.toks = f.toks /\ rt'.rows = f.rows /\ rt'.gdn = f.gdn
      /\ rt'.nextn = f.nextn
  <2> HIDE DEF f
  <2>1. CASE FromBatch
    BY <2>1, <1>1, <1>4
  <2>2. CASE ~FromBatch
    <3>1. /\ f = [toks |-> f.toks, rows |-> f.rows, gdn |-> f.gdn, rope |-> f.rope,
                  nextn |-> f.nextn, hidden |-> f.hidden]
          /\ f.rope + K + 1 \in Nat
      <4>1. f.rope \in Nat
        BY <1>4, TypedRecord
      <4>2. f.rope + K + 1 \in Nat
        BY <4>1, <1>3
      <4> QED
        BY <4>2, <1>4, TypedRecord
    <3>2. g = [f EXCEPT !.rope = f.rope + K + 1]
      OBVIOUS
    <3> HIDE DEF g
    <3>3. g = [toks |-> f.toks, rows |-> f.rows, gdn |-> f.gdn, rope |-> f.rope + K + 1,
               nextn |-> f.nextn, hidden |-> f.hidden]
      BY <3>1, <3>2, Zenon
    <3>4. Seen(g) = Seen(f)
      BY <3>3 DEF Seen
    <3>5. Seen(f) \in Hidden
      BY <1>4, SeenTyped
    <3> DEFINE rope == f.rope + K + 1
               seen == Seen(f)
    <3>6. rt' = [g EXCEPT !.hidden = seen]
      BY <1>1, <2>2, <3>4 DEF Capture
    <3>7. rope \in Nat /\ seen \in Hidden
      BY <3>1, <3>5
    <3>8. g = [toks |-> f.toks, rows |-> f.rows, gdn |-> f.gdn, rope |-> rope,
               nextn |-> f.nextn, hidden |-> f.hidden]
      BY <3>3
    <3> HIDE DEF rope, seen
    <3>9. rt' = [toks |-> f.toks, rows |-> f.rows, gdn |-> f.gdn, rope |-> rope,
                 nextn |-> f.nextn, hidden |-> seen]
      BY <3>6, <3>8, Zenon
    <3>10. rt' \in RtType
      BY <3>7, <3>9, <1>4, TypedRecord DEF RtType
    <3> QED
      BY <3>9, <3>10
  <2> QED
    BY <2>1, <2>2
<1>6. cyc' = [x |-> cyc.x, drafts |-> cyc.drafts, vA |-> v, base |-> cyc.base, a |-> cyc.a,
              xnew |-> cyc.xnew, next |-> cyc.next]
  BY <1>2, CycleRecord, Zenon
<1>7. v \in Seq(Tokens) /\ Len(v) = K + 1
  <2> DEFINE k == K + 1
  <2>1. k \in Nat /\ v \in [1..k -> Tokens]
    BY <1>3
  <2> HIDE DEF k
  <2>2. v \in Seq(Tokens) /\ Len(v) = k
    BY <2>1
  <2> QED
    BY <2>2 DEF k
<1>8. ASSUME NEW j \in 1..(K + 1), \A i \in 1..(j - 1) : cyc.drafts[i] = conv[N + 1 + i]
      PROVE  v[j] = conv[N + 1 + j]
  <2> DEFINE a == j - 1
             t == Prefix(VerifyToks, a + 1)
  <2>1. a \in 0..K /\ a + 1 = j /\ N + (a + 1) \in 0..NCtx /\ N + (a + 1) + 1 = N + 1 + j
    BY <1>3
  <2>2. \A i \in 1..a : cyc.drafts[i] = conv[N + 1 + i]
    BY <1>8
  <2>3. v[j] \in Argmax(Forward(rt, t))
    BY <1>2, <2>1
  <2> HIDE DEF a
  <2>4. Continues(t, N) /\ Len(t) = a + 1
    BY <1>1, <2>1, <2>2, RightDrafts
  <2> HIDE DEF t
  <2>5. RowsOK(Forward(rt, t), N + (a + 1))
    BY <1>3, <2>4, ForwardOn
  <2> DEFINE m == N + (a + 1)
             F == Forward(rt, t)
  <2>6. m \in 0..NCtx /\ RowsOK(F, m)
    BY <2>1, <2>5
  <2>7. Argmax(F) = {conv[m + 1]}
    <3> HIDE DEF m, F
    <3> QED
      BY <2>6, <1>3, ArgmaxExact
  <2> QED
    BY <2>1, <2>3, <2>7
<1>9. N' = N /\ K' = K /\ VerifyToks' = VerifyToks /\ cyc'.base = cyc.base /\ cyc'.vA = v
      /\ cyc'.drafts = cyc.drafts /\ cyc'.x = cyc.x
  BY <1>1, <1>4, <1>5, <1>6 DEF N, K, VerifyToks
<1>10. MTyped'
  <2>1. cyc' \in CycleType
    BY <1>6, <1>7, CycleRecord DEF CycleType
  <2> QED
    BY <2>1, <1>1, ConvKept DEF MInd, MTyped
<1>11. Replied'
  BY <1>1, SameReply
<1> HIDE DEF f
<1>12. Verifying'
  <2>1. OneAhead'
    BY <1>1, <1>3, <1>9 DEF Verifying, OneAhead, PLen
  <2>2. RtOK(cyc.base, N)
    BY <1>3 DEF Verifying
  <2>3. RowsOK(cyc.base, N)'
    BY <2>2, <1>1, <1>9 DEF RtOK, RowsOK, RowsTo, Prefix
  <2>4. PosOK(cyc.base, N)' /\ HiddenOK(cyc.base, N)' /\ cyc'.base.toks = Prefix(conv', N')
    BY <2>2, <1>1, <1>9 DEF RtOK, PosOK, HiddenOK, Prefix
  <2>5. NextnOK(cyc.base, N)'
    BY <2>2, <1>1, <1>9 DEF RtOK, NextnOK, Prefix
  <2>6. RtOK(cyc.base, N)'
    BY <2>3, <2>4, <2>5 DEF RtOK
  <2> QED
    BY ZenonT(60), <2>1, <2>6, <1>1, <1>3, <1>4, <1>5, <1>9 DEF Verifying, Prefix
<1>13. BatchRows'
  BY <1>1, <1>4, <1>5, <1>9 DEF BatchRows, RowsTo, Prefix
<1>14. Judged'
  BY <1>1, <1>7, <1>8, <1>9 DEF Judged
<1>15. Stage'
  BY <1>1, <1>12, <1>13, <1>14 DEF Stage
<1> QED
  BY <1>10, <1>11, <1>15 DEF MInd

(* The verdict: drafts are accepted as long as they are right, and the     *)
(* token after them is the model's.                                        *)
LEMMA AcceptedRight ==
    ASSUME MInd, pc = "settle", Regular(kind), NEW a, a = Accepted(cyc.drafts, cyc.vA)
    PROVE  /\ a \in 0..K /\ \A j \in 1..a : cyc.drafts[j] = conv[N + 1 + j]
           /\ cyc.vA[a + 1] = conv[N + 1 + (a + 1)]
<1> DEFINE P(b) == /\ \A j \in 1..b : cyc.vA[j] = cyc.drafts[j]
                   /\ b < K => cyc.vA[b + 1] # cyc.drafts[b + 1]
<1>1. K \in Nat \ {0} /\ Judged
  BY BatchFacts DEF MInd, Stage
<1>2. \E b \in 0..K : P(b)
  <2> DEFINE Miss == {j \in 1..K : cyc.vA[j] # cyc.drafts[j]}
  <2>1. CASE Miss = {}
    <3>1. P(K)
      BY <2>1, <1>1
    <3> QED
      BY <3>1, <1>1
  <2>2. CASE Miss # {}
    <3>1. PICK m \in Miss : \A y \in Miss : m <= y
      <4>1. Miss \subseteq Nat
        OBVIOUS
      <4> HIDE DEF Miss
      <4> QED
        BY <4>1, <2>2, LeastNat
    <3>2. m \in 1..K /\ cyc.vA[m] # cyc.drafts[m] /\ m - 1 \in 0..K /\ (m - 1) + 1 = m
      BY <3>1, <1>1
    <3>3. \A j \in 1..(m - 1) : cyc.vA[j] = cyc.drafts[j]
      BY <3>1, <3>2, <1>1
    <3>4. P(m - 1)
      BY <3>2, <3>3
    <3> QED
      BY <3>2, <3>4
  <2> QED
    BY <2>1, <2>2
<1>3. a \in 0..K /\ P(a)
  <2>1. a = CHOOSE b \in 0..K : P(b)
    BY DEF Accepted
  <2> HIDE DEF P
  <2> QED
    BY <2>1, <1>2
<1>4. ASSUME NEW j \in 1..(K + 1), \A i \in 1..(j - 1) : cyc.drafts[i] = conv[N + 1 + i]
      PROVE  cyc.vA[j] = conv[N + 1 + j]
  BY <1>1, <1>4 DEF Judged
<1>5. \A j \in 1..a : cyc.drafts[j] = conv[N + 1 + j]
  <2> DEFINE Bad == {j \in 1..a : cyc.drafts[j] # conv[N + 1 + j]}
  <2>1. CASE Bad # {}
    <3>1. PICK m \in Bad : \A y \in Bad : m <= y
      <4>1. Bad \subseteq Nat
        OBVIOUS
      <4> HIDE DEF Bad
      <4> QED
        BY <4>1, <2>1, LeastNat
    <3>2. m \in 1..a /\ m \in 1..(K + 1) /\ cyc.drafts[m] # conv[N + 1 + m] /\ m \in Nat /\ a \in Nat
      BY <3>1, <1>1, <1>3
    <3>3. \A i \in 1..(m - 1) : cyc.drafts[i] = conv[N + 1 + i]
      <4> TAKE i \in 1..(m - 1)
      <4>1. i \in 1..a /\ ~(m <= i)
        BY <3>2
      <4> QED
        BY <4>1, <3>1
    <3>4. cyc.vA[m] = conv[N + 1 + m]
      BY <3>2, <3>3, <1>4
    <3> QED
      BY <3>2, <3>4, <1>3
  <2> QED
    BY <2>1
<1>6. cyc.vA[a + 1] = conv[N + 1 + (a + 1)]
  <2>1. a + 1 \in 1..(K + 1) /\ (a + 1) - 1 = a
    BY <1>1, <1>3
  <2>2. \A i \in 1..((a + 1) - 1) : cyc.drafts[i] = conv[N + 1 + i]
    BY <2>1, <1>5
  <2> HIDE DEF P
  <2> QED
    BY <2>1, <2>2, <1>4
<1> QED
  BY <1>3, <1>5, <1>6

(* A sequence cut at the length of one it begins with. *)
LEMMA CutTo ==
    ASSUME NEW S, NEW s \in Seq(S), NEW u \in Seq(S), NEW m \in Nat, Len(u) = m, m <= Len(s),
           \A i \in 1..m : s[i] = u[i]
    PROVE  Prefix(s, m) = u
<1>1. \A i \in 1..m : s[i] \in S
  BY ElementOfSeq
<1>2. /\ SubSeq(s, 1, m) \in Seq(S) /\ Len(SubSeq(s, 1, m)) = m
      /\ \A i \in 1..m : SubSeq(s, 1, m)[i] = s[i]
  BY <1>1, SubSeqProperties
<1> QED
  BY <1>2, SeqEqual DEF Prefix

(* The rows and the recurrent state of the batch, up to its last right     *)
(* token.                                                                  *)
LEMMA BatchCut ==
    ASSUME MInd, pc = "settle", Regular(kind), NEW a \in 0..K,
           \A i \in 1..a : cyc.drafts[i] = conv[N + 1 + i]
    PROVE  /\ Prefix(rt.rows, N + a + 1) = RowsTo(N + a + 1) /\ Len(rt.rows) = N + K + 1
           /\ kind.gdn => Prefix(rt.gdn, N + a + 1) = Prefix(conv, N + a + 1)
                          /\ Len(rt.gdn) = N + K + 1
<1> DEFINE m == N + a + 1
           t == Prefix(VerifyToks, a + 1)
           R == [tok : Tokens, pos : Nat]
           new == [i \in 1..(K + 1) |-> [tok |-> VerifyToks[i], pos |-> N + i - 1]]
<1>1. /\ ConvOK /\ a \in Nat /\ N \in Nat \ {0} /\ K \in Nat \ {0} /\ NCtx \in Nat
      /\ N + K + 1 <= NCtx /\ a <= K /\ m \in 0..(NCtx + 1) /\ m \in Nat /\ N \in 0..(NCtx + 1)
      /\ m <= N + K + 1
  BY BatchFacts
<1>2. VerifyToks \in Seq(Tokens) /\ Len(VerifyToks) = K + 1
  BY BatchFacts
<1>3. \A i \in 1..(a + 1) : VerifyToks[i] = conv[N + i]
  <2>1. Continues(t, N) /\ Len(t) = a + 1 /\ \A i \in 1..(a + 1) : t[i] = VerifyToks[i]
    BY RightDrafts
  <2> HIDE DEF t
  <2> QED
    BY <2>1 DEF Continues
<1>4. BatchRows
  BY DEF MInd, Stage
<1>5. new \in Seq(R) /\ Len(new) = K + 1
  <2>1. \A i \in 1..(K + 1) : VerifyToks[i] \in Tokens /\ N + i - 1 \in Nat
    BY <1>1, <1>2, ElementOfSeq
  <2>2. \A i \in 1..(K + 1) : [tok |-> VerifyToks[i], pos |-> N + i - 1] \in R
    BY <2>1
  <2> DEFINE k == K + 1
  <2>3. k \in Nat
    BY <1>1
  <2> HIDE DEF R, k
  <2>4. ASSUME NEW F, \A i \in 1..k : F[i] \in R
        PROVE  [i \in 1..k |-> F[i]] \in Seq(R) /\ Len([i \in 1..k |-> F[i]]) = k
    BY <2>3, <2>4
  <2>5. new = [i \in 1..k |-> new[i]] /\ \A i \in 1..k : new[i] \in R
    BY <2>2 DEF k
  <2> HIDE DEF new
  <2>6. new \in Seq(R) /\ Len(new) = k
    BY <2>4, <2>5
  <2> QED
    BY <2>6 DEF k
<1>6. \A k \in 0..(NCtx + 1) : RowsTo(k) \in Seq(R) /\ Len(RowsTo(k)) = k
  <2> TAKE k \in 0..(NCtx + 1)
  <2>1. [rows |-> RowsTo(k)].rows = RowsTo(k)
    OBVIOUS
  <2> QED
    BY <2>1, <1>1, RowsTyped
<1>7. Prefix(rt.rows, m) = RowsTo(m) /\ Len(rt.rows) = N + K + 1
  <2>1. rt.rows = RowsTo(N) \o new
    BY <1>4 DEF BatchRows
  <2>2. RowsTo(N) \in Seq(R) /\ Len(RowsTo(N)) = N /\ RowsTo(m) \in Seq(R) /\ Len(RowsTo(m)) = m
    BY <1>1, <1>6
  <2>3. /\ rt.rows \in Seq(R) /\ Len(rt.rows) = N + (K + 1)
        /\ \A i \in 1..N : rt.rows[i] = RowsTo(N)[i]
        /\ \A i \in 1..(K + 1) : rt.rows[N + i] = new[i]
    <3> HIDE DEF R, new, m
    <3>1. /\ RowsTo(N) \o new \in Seq(R) /\ Len(RowsTo(N) \o new) = Len(RowsTo(N)) + Len(new)
          /\ \A i \in 1..Len(RowsTo(N)) : (RowsTo(N) \o new)[i] = RowsTo(N)[i]
          /\ \A i \in 1..Len(new) : (RowsTo(N) \o new)[Len(RowsTo(N)) + i] = new[i]
      <4>1. RowsTo(N) \in Seq(R) /\ new \in Seq(R)
        BY <2>2, <1>5
      <4> QED
        BY <4>1, Joined
    <3> QED
      BY <3>1, <2>1, <2>2, <1>5
  <2>4. ASSUME NEW i \in 1..m PROVE rt.rows[i] = RowsTo(m)[i]
    <3>1. CASE i <= N
      BY <3>1, <2>3, <1>1 DEF RowsTo
    <3>2. CASE i > N
      <4>1. i - N \in 1..(a + 1) /\ i - N \in 1..(K + 1) /\ N + (i - N) = i /\ N + (i - N) - 1 = i - 1
        BY <3>2, <1>1
      <4>2. rt.rows[i] = new[i - N]
        BY <4>1, <2>3
      <4>3. new[i - N] = [tok |-> VerifyToks[i - N], pos |-> N + (i - N) - 1]
        BY <4>1
      <4>4. VerifyToks[i - N] = conv[i]
        BY <4>1, <1>3
      <4> QED
        BY <4>1, <4>2, <4>3, <4>4 DEF RowsTo
    <3> QED
      BY <3>1, <3>2, <1>1
  <2>5. m <= Len(rt.rows)
    BY <1>1, <2>3
  <2> HIDE DEF m, R
  <2> QED
    BY <2>2, <2>3, <2>4, <2>5, <1>1, CutTo
<1>8. ASSUME kind.gdn PROVE Prefix(rt.gdn, m) = Prefix(conv, m) /\ Len(rt.gdn) = N + K + 1
  <2>1. rt.gdn = Prefix(conv, N) \o VerifyToks
    BY <1>4, <1>8 DEF BatchRows
  <2>2. \A k \in 0..(NCtx + 1) : /\ Prefix(conv, k) \in Seq(Tokens) /\ Len(Prefix(conv, k)) = k
                                 /\ \A i \in 1..k : Prefix(conv, k)[i] = conv[i]
    <3> TAKE k \in 0..(NCtx + 1)
    <3>1. \A i \in 1..k : conv[i] \in Tokens
      BY <1>1, ConvElem
    <3> QED
      BY <3>1, <1>1, SubSeqProperties DEF Prefix
  <2>3. /\ Prefix(conv, N) \in Seq(Tokens) /\ Len(Prefix(conv, N)) = N
        /\ \A i \in 1..N : Prefix(conv, N)[i] = conv[i]
        /\ Prefix(conv, m) \in Seq(Tokens) /\ Len(Prefix(conv, m)) = m
        /\ \A i \in 1..m : Prefix(conv, m)[i] = conv[i]
    <3> HIDE DEF m
    <3> QED
      BY <2>2, <1>1
  <2>4. /\ rt.gdn \in Seq(Tokens) /\ Len(rt.gdn) = N + (K + 1)
        /\ \A i \in 1..N : rt.gdn[i] = conv[i]
        /\ \A i \in 1..(K + 1) : rt.gdn[N + i] = VerifyToks[i]
    <3> DEFINE p == Prefix(conv, N)
    <3>0. p \in Seq(Tokens) /\ Len(p) = N /\ \A i \in 1..N : p[i] = conv[i]
      BY <2>3
    <3>00. rt.gdn = p \o VerifyToks
      BY <2>1
    <3> HIDE DEF p
    <3>1. /\ p \o VerifyToks \in Seq(Tokens) /\ Len(p \o VerifyToks) = Len(p) + Len(VerifyToks)
          /\ \A i \in 1..Len(p) : (p \o VerifyToks)[i] = p[i]
          /\ \A i \in 1..Len(VerifyToks) : (p \o VerifyToks)[Len(p) + i] = VerifyToks[i]
      <4>1. p \in Seq(Tokens) /\ VerifyToks \in Seq(Tokens)
        BY <3>0, <1>2
      <4> QED
        BY <4>1, Joined
    <3> QED
      BY <3>0, <3>00, <3>1, <1>2
  <2>5. ASSUME NEW i \in 1..m PROVE rt.gdn[i] = Prefix(conv, m)[i]
    <3>1. CASE i <= N
      BY <3>1, <2>3, <2>4, <1>1
    <3>2. CASE i > N
      <4>1. i - N \in 1..(a + 1) /\ i - N \in 1..(K + 1) /\ N + (i - N) = i
        BY <3>2, <1>1
      <4>2. rt.gdn[i] = VerifyToks[i - N]
        BY <4>1, <2>4
      <4>3. VerifyToks[i - N] = conv[i]
        BY <4>1, <1>3
      <4> QED
        BY <4>2, <4>3, <2>3
    <3> QED
      BY <3>1, <3>2, <1>1
  <2>6. m <= Len(rt.gdn)
    BY <1>1, <2>4
  <2>7. m \in Nat /\ rt.gdn \in Seq(Tokens) /\ Prefix(conv, m) \in Seq(Tokens)
        /\ Len(Prefix(conv, m)) = m /\ \A i \in 1..m : rt.gdn[i] = Prefix(conv, m)[i]
    BY <2>3, <2>4, <2>5, <1>1
  <2>8. Len(rt.gdn) = N + K + 1
    BY <2>4, <1>1
  <2> HIDE DEF m
  <2> QED
    BY <2>6, <2>7, <2>8, CutTo, Zenon
<1> QED
  BY <1>7, <1>8

LEMMA Regroup ==
    ASSUME NEW s \in Seq(Tokens), NEW t \in Seq(Tokens), NEW u \in Seq(Tokens)
    PROVE  (s \o t) \o u = s \o (t \o u)
BY ConcatAssociative

(* The batch's tokens up to the last right one, as Settle puts them        *)
(* together.                                                               *)
LEMMA AcceptedToks ==
    ASSUME MInd, pc = "settle", Regular(kind), NEW a \in 0..K
    PROVE  /\ <<cyc.x>> \o Prefix(cyc.drafts, a) = Prefix(VerifyToks, a + 1)
           /\ Prefix(cyc.drafts, a) \in Seq(Tokens)
<1> DEFINE p == Prefix(cyc.drafts, a)
           one == <<cyc.x>>
           t == Prefix(VerifyToks, a + 1)
<1>1. /\ a \in Nat /\ K \in Nat \ {0} /\ a <= K /\ cyc.x \in Tokens /\ cyc.drafts \in Seq(Tokens)
      /\ Len(cyc.drafts) = K /\ cyc.x = conv[N + 1]
      /\ VerifyToks \in Seq(Tokens) /\ Len(VerifyToks) = K + 1 /\ VerifyToks[1] = cyc.x
      /\ \A i \in 1..K : VerifyToks[i + 1] = cyc.drafts[i]
  <2>1. cyc.x = conv[N + 1]
    BY BatchFacts DEF Verifying, OneAhead
  <2> QED
    BY <2>1, BatchFacts
<1>2. p \in Seq(Tokens) /\ Len(p) = a /\ \A i \in 1..a : p[i] = cyc.drafts[i]
  <2>1. \A i \in 1..a : cyc.drafts[i] \in Tokens
    BY <1>1, ElementOfSeq
  <2> QED
    BY <2>1, <1>1, SubSeqProperties DEF Prefix
<1>3. t \in Seq(Tokens) /\ Len(t) = a + 1 /\ \A i \in 1..(a + 1) : t[i] = VerifyToks[i]
  <2> DEFINE m == a + 1
  <2>1. m \in Nat /\ \A i \in 1..m : VerifyToks[i] \in Tokens
    BY <1>1, ElementOfSeq
  <2> HIDE DEF m
  <2>2. /\ SubSeq(VerifyToks, 1, m) \in Seq(Tokens) /\ Len(SubSeq(VerifyToks, 1, m)) = m
        /\ \A i \in 1..m : SubSeq(VerifyToks, 1, m)[i] = VerifyToks[i]
    BY <2>1, SubSeqProperties
  <2> QED
    BY <2>2 DEF m, Prefix
<1>4. one \in Seq(Tokens) /\ Len(one) = 1 /\ one[1] = cyc.x
  BY <1>1
<1> HIDE DEF p, one, t
<1>5. /\ one \o p \in Seq(Tokens) /\ Len(one \o p) = Len(one) + Len(p)
      /\ \A i \in 1..Len(one) : (one \o p)[i] = one[i]
      /\ \A i \in 1..Len(p) : (one \o p)[Len(one) + i] = p[i]
  <2>1. one \in Seq(Tokens) /\ p \in Seq(Tokens)
    BY <1>2, <1>4
  <2> QED
    BY <2>1, Joined
<1>6. Len(one \o p) = a + 1
  BY <1>1, <1>2, <1>4, <1>5
<1>7. ASSUME NEW i \in 1..(a + 1) PROVE (one \o p)[i] = t[i]
  <2>1. CASE i = 1
    BY <2>1, <1>1, <1>3, <1>4, <1>5
  <2>2. CASE i # 1
    <3>1. i - 1 \in 1..a /\ i - 1 \in 1..K /\ (i - 1) + 1 = i /\ 1 + (i - 1) = i
      BY <2>2, <1>1
    <3>2. (one \o p)[1 + (i - 1)] = p[i - 1]
      BY <3>1, <1>2, <1>4, <1>5
    <3>3. VerifyToks[(i - 1) + 1] = cyc.drafts[i - 1]
      BY <3>1, <1>1
    <3> QED
      BY <3>1, <3>2, <3>3, <1>2, <1>3
  <2> QED
    BY <2>1, <2>2
<1>8. one \o p = t
  <2>1. one \o p \in Seq(Tokens)
    BY <1>5
  <2> QED
    BY <2>1, <1>3, <1>6, <1>7, SeqEqual
<1> QED
  BY <1>2, <1>8 DEF one, p, t

(* Whichever way the main state is settled, it is that of the accepted     *)
(* tokens.                                                                 *)
LEMMA SettledMain ==
    ASSUME MInd, pc = "settle", Regular(kind), NEW a \in 0..K,
           \A i \in 1..a : cyc.drafts[i] = conv[N + 1 + i],
           NEW main, main = SettleMain(rt, cyc.base, cyc.x, cyc.drafts, a)
    PROVE  RowsOK(main, N + a + 1) /\ main.nextn = rt.nextn /\ main.toks = rt.toks
<1> DEFINE m == N + a + 1
<1>1. /\ ConvOK /\ a \in Nat /\ a <= K /\ N \in Nat \ {0} /\ K \in Nat \ {0} /\ NCtx \in Nat
      /\ N + K + 1 <= NCtx /\ N \in 0..(NCtx + 1) /\ m \in 0..(NCtx + 1) /\ m \in Nat
  BY BatchFacts
<1>2. Verifying /\ RtOK(cyc.base, N) /\ rt \in RtType
  BY BatchFacts DEF Verifying
<1>3. n_past(cyc.base) = N
  BY <1>1, <1>2, RowsTyped DEF RtOK, RowsOK
<1>4. /\ Prefix(rt.rows, m) = RowsTo(m) /\ Len(rt.rows) = N + K + 1
      /\ kind.gdn => Prefix(rt.gdn, m) = Prefix(conv, m) /\ Len(rt.gdn) = N + K + 1
  BY BatchCut
<1>5. CASE a = K
  <2>1. main = rt
    BY <1>5 DEF SettleMain
  <2>2. m = Len(rt.rows) /\ (kind.gdn => m = Len(rt.gdn))
    BY <1>4, <1>5
  <2>3. rt.rows \in Seq([tok : Tokens, pos : Nat]) /\ rt.gdn \in Seq(Tokens)
    BY <1>2, TypedRecord
  <2> HIDE DEF m
  <2>4. Prefix(rt.rows, m) = rt.rows
    <3>1. SubSeq(rt.rows, 1, Len(rt.rows)) = rt.rows
      BY <2>3, SubSeqFull
    <3> QED
      BY <3>1, <2>2 DEF Prefix
  <2>5. kind.gdn => Prefix(rt.gdn, m) = rt.gdn
    <3>1. SubSeq(rt.gdn, 1, Len(rt.gdn)) = rt.gdn
      BY <2>3, SubSeqFull
    <3> QED
      BY <3>1, <2>2 DEF Prefix
  <2>6. RowsOK(rt, m)
    BY <2>4, <2>5, <1>2, <1>4 DEF RowsOK
  <2> QED
    BY <2>1, <2>6 DEF m
<1>6. CASE a # K /\ (~kind.gdn \/ FromBatch)
  <2> DEFINE rows == Prefix(rt.rows, m)
             gdn == IF kind.gdn THEN Prefix(rt.gdn, m) ELSE rt.gdn
  <2>1. main = RestoreCkpt(rt, cyc.base, a)
    BY <1>6 DEF SettleMain
  <2>2. main = [rt EXCEPT !.rows = rows, !.gdn = gdn]
    <3>1. RestoreCkpt(rt, cyc.base, a)
             = [rt EXCEPT !.rows = Prefix(@, n_past(cyc.base) + a + 1),
                          !.gdn = IF kind.gdn THEN Prefix(@, n_past(cyc.base) + a + 1) ELSE @]
      BY Zenon DEF RestoreCkpt
    <3> QED
      BY <3>1, <2>1, <1>3, Zenon
  <2>3. rows = RowsTo(m) /\ rows \in Seq([tok : Tokens, pos : Nat])
    <3>1. [rows |-> RowsTo(m)].rows = RowsTo(m)
      OBVIOUS
    <3>2. RowsTo(m) \in Seq([tok : Tokens, pos : Nat])
      <4> HIDE DEF m
      <4> QED
        BY <3>1, <1>1, RowsTyped
    <3> QED
      BY <3>2, <1>4
  <2>4. gdn \in Seq(Tokens) /\ (kind.gdn => gdn = Prefix(conv, m))
    <3>1. Prefix(conv, m) \in Seq(Tokens)
      <4>1. m <= NCtx + 1
        BY <1>1
      <4> HIDE DEF m
      <4> QED
        BY <4>1, <1>1, Part
    <3>2. rt.gdn \in Seq(Tokens)
      BY <1>2, TypedRecord
    <3> HIDE DEF m
    <3> QED
      BY <3>1, <3>2, <1>4
  <2> HIDE DEF rows, gdn
  <2>5. main = [toks |-> rt.toks, rows |-> rows, gdn |-> gdn, rope |-> rt.rope,
                nextn |-> rt.nextn, hidden |-> rt.hidden]
    <3>1. rt = [toks |-> rt.toks, rows |-> rt.rows, gdn |-> rt.gdn, rope |-> rt.rope,
                nextn |-> rt.nextn, hidden |-> rt.hidden]
      BY <1>2, TypedRecord
    <3> QED
      BY <3>1, <2>2, Zenon
  <2> HIDE DEF m
  <2>6. main \in RtType
    BY <2>3, <2>4, <2>5, <1>2, TypedRecord DEF RtType
  <2>7. RowsOK(main, m) /\ main.nextn = rt.nextn /\ main.toks = rt.toks
    BY <2>3, <2>4, <2>5, <2>6 DEF RowsOK
  <2> QED
    BY <2>7 DEF m
<1>7. CASE a # K /\ ~(~kind.gdn \/ FromBatch)
  <2> DEFINE s == RestoreStates(rt, cyc.base)
             t == Prefix(VerifyToks, a + 1)
  <2>1. main = Forward(s, t)
    BY <1>7, AcceptedToks DEF SettleMain
  <2>2. /\ cyc.base \in RtType /\ cyc.base.rows = RowsTo(N)
        /\ kind.gdn => cyc.base.gdn = Prefix(conv, N)
    BY <1>2 DEF RtOK, RowsOK
  <2>3. s = [toks |-> rt.toks, rows |-> cyc.base.rows, gdn |-> cyc.base.gdn, rope |-> rt.rope,
             nextn |-> rt.nextn, hidden |-> rt.hidden]
    <3>1. rt = [toks |-> rt.toks, rows |-> rt.rows, gdn |-> rt.gdn, rope |-> rt.rope,
                nextn |-> rt.nextn, hidden |-> rt.hidden]
      BY <1>2, TypedRecord
    <3>2. s = [rt EXCEPT !.rows = cyc.base.rows, !.gdn = cyc.base.gdn]
      BY DEF RestoreStates
    <3> HIDE DEF s
    <3> QED
      BY <3>1, <3>2, Zenon
  <2> HIDE DEF s
  <2>4. s \in RtType
    BY <2>2, <2>3, <1>2, TypedRecord DEF RtType
  <2>5. RowsOK(s, N)
    BY <2>2, <2>3, <2>4 DEF RowsOK
  <2>6. ~kind.mrope
    BY <1>7, KindTyped DEF Regular, FromBatch
  <2>7. PosOK(s, N)
    BY <2>6 DEF PosOK
  <2>8. Continues(t, N) /\ Len(t) = a + 1
    BY RightDrafts
  <2>9. t \in Seq(Tokens)
    BY <2>8 DEF Continues
  <2> HIDE DEF t
  <2>10. RowsOK(Forward(s, t), N + Len(t))
    BY <1>1, <2>5, <2>7, <2>8, ForwardOn
  <2>11. N + Len(t) = N + a + 1
    BY <2>8, <1>1
  <2>12. Forward(s, t).nextn = s.nextn /\ Forward(s, t).toks = s.toks
    BY <1>1, <2>5, <2>7, <2>9, ForwardFields
  <2> QED
    BY <2>1, <2>3, <2>10, <2>11, <2>12
<1> QED
  BY <1>5, <1>6, <1>7

(* The draft block after the resync: a true row for every token again.     *)
LEMMA ResyncRight ==
    ASSUME MInd, pc = "settle", Regular(kind), NEW a \in 0..K,
           \A i \in 1..a : cyc.drafts[i] = conv[N + 1 + i],
           NEW main, RowsOK(main, N + a + 1), main.nextn = rt.nextn,
           NEW nextn, nextn = Resync(main, cyc.base, cyc.drafts, a)
    PROVE  /\ nextn \in Seq([tok : Tokens, hid : Hidden]) /\ Len(nextn) = N + a
           /\ \A i \in 1..(N + a) : /\ nextn[i].tok = conv[i + 1]
                                    /\ ~kind.ecache => nextn[i].hid = Prefix(conv, i)
<1> DEFINE m == N + a + 1
           NR == [tok : Tokens, hid : Hidden]
           old == Prefix(rt.nextn, N)
           new == [j \in 1..a |-> NextnRow(cyc.drafts[j], Prefix(Seen(main), N + j))]
<1>1. /\ ConvOK /\ a \in Nat /\ a <= K /\ N \in Nat \ {0} /\ K \in Nat \ {0} /\ NCtx \in Nat
      /\ N + K + 1 <= NCtx /\ N \in 0..(NCtx + 1) /\ m \in 0..(NCtx + 1) /\ m \in Nat
      /\ cyc.drafts \in Seq(Tokens) /\ Len(cyc.drafts) = K
  BY BatchFacts
<1>2. /\ RtOK(cyc.base, N) /\ rt \in RtType /\ Len(rt.nextn) = N + K - 1
      /\ \A i \in 1..N : /\ rt.nextn[i].tok = conv[i + 1]
                         /\ ~kind.ecache => rt.nextn[i].hid = Prefix(conv, i)
  BY BatchFacts DEF Verifying
<1>3. n_past(cyc.base) = N /\ Len(cyc.base.nextn) + 1 = N
  <2>1. n_past(cyc.base) = N
    BY <1>1, <1>2, RowsTyped DEF RtOK, RowsOK
  <2>2. Len(cyc.base.nextn) = IF N = 0 THEN 0 ELSE N - 1
    BY <1>2 DEF RtOK, NextnOK
  <2> QED
    BY <2>1, <2>2, <1>1
<1>4. nextn = old \o new
  BY <1>3 DEF Resync
<1>5. Seen(main) = Prefix(conv, m)
  <2>1. main.rows = RowsTo(m)
    BY DEF RowsOK
  <2> HIDE DEF m
  <2> QED
    BY <2>1, <1>1, RowsTyped
<1>6. \A j \in 1..a : Prefix(Seen(main), N + j) = Prefix(conv, N + j) /\ Prefix(conv, N + j) \in Hidden
  <2> TAKE j \in 1..a
  <2>1. 1 \in 1..Len(conv) /\ m \in 1..Len(conv) /\ 1 \in 1..(m - 1 + 1) /\ N + j \in 1..(m - 1 + 1)
    BY <1>1 DEF ConvOK
  <2>2. SubSeq(SubSeq(conv, 1, m), 1, N + j) = SubSeq(conv, 1 + 1 - 1, 1 + (N + j) - 1)
    <3> HIDE DEF m
    <3> QED
      BY <2>1, <1>1, SubSeqOfSubSeq DEF ConvOK
  <2>3. 1 + (N + j) - 1 = N + j /\ N + j \in Nat /\ N + j <= NCtx + 1
    BY <1>1
  <2>4. Prefix(conv, N + j) \in Seq(Tokens)
    BY <2>3, <1>1, PrefixType
  <2> HIDE DEF m
  <2> QED
    <3>1. Prefix(conv, N + j) \in Hidden
      BY <2>4, SeqMonotonic DEF Hidden
    <3>2. Prefix(Seen(main), N + j) = Prefix(conv, N + j)
      <4>1. SubSeq(SubSeq(conv, 1, m), 1, N + j) = SubSeq(conv, 1, N + j)
        <5>1. 1 + 1 - 1 = 1
          OBVIOUS
        <5> QED
          BY <5>1, <2>2, <2>3, Zenon
      <4> QED
        BY <4>1, <1>5, Zenon DEF Prefix
    <3> QED
      BY <3>1, <3>2
<1>7. /\ new \in Seq(NR) /\ Len(new) = a
      /\ \A j \in 1..a : new[j].tok = conv[N + j + 1] /\ new[j].hid = Prefix(conv, N + j)
  <2>1. \A j \in 1..a : cyc.drafts[j] \in Tokens /\ cyc.drafts[j] = conv[N + j + 1]
    <3> TAKE j \in 1..a
    <3>1. j \in 1..Len(cyc.drafts) /\ N + 1 + j = N + j + 1
      BY <1>1
    <3> QED
      BY <3>1, <1>1, ElementOfSeq
  <2>2. new = [j \in 1..a |-> [tok |-> cyc.drafts[j], hid |-> Prefix(conv, N + j)]]
    BY <1>6 DEF NextnRow
  <2>3. \A j \in 1..a : [tok |-> cyc.drafts[j], hid |-> Prefix(conv, N + j)] \in NR
    BY <2>1, <1>6
  <2> HIDE DEF new
  <2>4. new \in Seq(NR) /\ Len(new) = a
    BY <2>2, <2>3, <1>1
  <2> QED
    BY <2>1, <2>2, <2>4
<1>8. old \in Seq(NR) /\ Len(old) = N /\ \A i \in 1..N : old[i] = rt.nextn[i]
  <2>1. rt.nextn \in Seq(NR)
    BY <1>2, TypedRecord
  <2> HIDE DEF NR
  <2>2. \A i \in 1..N : i \in 1..Len(rt.nextn)
    BY <1>1, <1>2
  <2>3. \A i \in 1..N : rt.nextn[i] \in NR
    BY <2>1, <2>2, ElementOfSeq
  <2> QED
    BY <2>3, <1>1, SubSeqProperties DEF Prefix
<1> HIDE DEF old, new, NR
<1>9. /\ old \o new \in Seq(NR) /\ Len(old \o new) = Len(old) + Len(new)
      /\ \A i \in 1..Len(old) : (old \o new)[i] = old[i]
      /\ \A i \in 1..Len(new) : (old \o new)[Len(old) + i] = new[i]
  <2>1. old \in Seq(NR) /\ new \in Seq(NR)
    BY <1>7, <1>8
  <2> QED
    BY <2>1, Joined
<1>10. nextn \in Seq(NR) /\ Len(nextn) = N + a
  BY <1>4, <1>7, <1>8, <1>9
<1>11. ASSUME NEW i \in 1..(N + a)
       PROVE  /\ nextn[i].tok = conv[i + 1]
              /\ ~kind.ecache => nextn[i].hid = Prefix(conv, i)
  <2>1. CASE i <= N
    <3>1. i \in 1..N
      BY <2>1, <1>1
    <3>2. nextn[i] = rt.nextn[i]
      BY <3>1, <1>4, <1>8, <1>9
    <3> QED
      BY <3>1, <3>2, <1>2
  <2>2. CASE i > N
    <3>1. i - N \in 1..a /\ N + (i - N) = i
      BY <2>2, <1>1
    <3>2. nextn[N + (i - N)] = new[i - N]
      BY <3>1, <1>4, <1>7, <1>8, <1>9
    <3>3. new[i - N].tok = conv[N + (i - N) + 1] /\ new[i - N].hid = Prefix(conv, N + (i - N))
      BY <3>1, <1>7
    <3> QED
      BY <3>1, <3>2, <3>3
  <2> QED
    BY <2>1, <2>2, <1>1
<1> QED
  BY <1>10, <1>11 DEF NR

LEMMA SettleKeeps == ASSUME MInd, Settle, Regular(kind) PROVE MInd'
<1> DEFINE a == Accepted(cyc.drafts, cyc.vA)
           main == SettleMain(rt, cyc.base, cyc.x, cyc.drafts, a)
           nextn == Resync(main, cyc.base, cyc.drafts, a)
           toks == (rt.toks \o <<cyc.x>>) \o Prefix(cyc.drafts, a)
           rope == cyc.base.rope + a + 1
           m == N + a + 1
<1>1. /\ pc = "settle" /\ pc' = "deliver" /\ UNCHANGED <<kind, conv, st, reply, gone>>
      /\ cyc' = [NoCycle EXCEPT !.drafts = cyc.drafts, !.a = a, !.xnew = cyc.vA[a + 1]]
  BY DEF Settle
<1>2. rt' = [Capture(main) EXCEPT !.nextn = nextn, !.toks = Capture(main).toks \o <<cyc.x>> \o Prefix(cyc.drafts, a),
                                  !.rope = rope]
  BY DEF Settle
<1>3. /\ a \in 0..K /\ \A j \in 1..a : cyc.drafts[j] = conv[N + 1 + j]
      /\ cyc.vA[a + 1] = conv[N + 1 + (a + 1)]
  <2> DEFINE b == a
  <2>1. b = Accepted(cyc.drafts, cyc.vA)
    OBVIOUS
  <2> HIDE DEF b
  <2>2. /\ b \in 0..K /\ \A j \in 1..b : cyc.drafts[j] = conv[N + 1 + j]
        /\ cyc.vA[b + 1] = conv[N + 1 + (b + 1)]
    BY <1>1, <2>1, AcceptedRight
  <2> QED
    BY <2>2 DEF b
<1> HIDE DEF a
<1>4. /\ ConvOK /\ a \in Nat /\ a <= K /\ N \in Nat \ {0} /\ K \in Nat \ {0} /\ NCtx \in Nat
      /\ N + K + 1 <= NCtx /\ m \in 0..NCtx /\ m \in Nat /\ m \in 0..(NCtx + 1)
      /\ cyc.drafts \in Seq(Tokens) /\ Len(cyc.drafts) = K /\ Verifying
      /\ cyc.x \in Tokens
  BY <1>1, <1>3, BatchFacts
<1>5. RowsOK(main, m) /\ main.nextn = rt.nextn /\ main.toks = rt.toks
  <2> HIDE DEF main
  <2> QED
    BY <1>1, <1>3, SettledMain DEF main
<1> HIDE DEF main
<1>6. /\ nextn \in Seq([tok : Tokens, hid : Hidden]) /\ Len(nextn) = N + a
      /\ \A i \in 1..(N + a) : /\ nextn[i].tok = conv[i + 1]
                               /\ ~kind.ecache => nextn[i].hid = Prefix(conv, i)
  <2> HIDE DEF nextn
  <2> QED
    BY <1>1, <1>3, <1>5, ResyncRight DEF nextn
<1> HIDE DEF nextn
<1>7. Seen(main) = Prefix(conv, m) /\ Prefix(conv, m) \in Seq(Tokens)
  <2>1. main.rows = RowsTo(m) /\ m <= NCtx + 1
    BY <1>4, <1>5 DEF RowsOK
  <2> HIDE DEF m
  <2> QED
    BY <2>1, <1>4, RowsTyped, Part
<1>8. toks = Prefix(conv, m)
  <2> DEFINE p == Prefix(cyc.drafts, a)
             one == <<cyc.x>>
             t == Prefix(VerifyToks, a + 1)
  <2>1. one \o p = t /\ p \in Seq(Tokens)
    BY <1>1, <1>3, AcceptedToks
  <2>2. Continues(t, N) /\ Len(t) = a + 1
    BY <1>1, <1>3, RightDrafts
  <2>3. rt.toks = Prefix(conv, N) /\ rt.toks \in Seq(Tokens) /\ one \in Seq(Tokens)
    BY <1>4 DEF Verifying, RtType
  <2> HIDE DEF p, one, t
  <2>4. (rt.toks \o one) \o p = rt.toks \o (one \o p)
    <3>1. rt.toks \in Seq(Tokens) /\ one \in Seq(Tokens) /\ p \in Seq(Tokens)
      BY <2>1, <2>3
    <3> QED
      BY <3>1, Regroup
  <2>5. Prefix(conv, N) \o t = Prefix(conv, N + Len(t))
    BY <2>2, <1>4, ContinuesPrefix
  <2>6. N + Len(t) = m
    BY <2>2, <1>4
  <2> QED
    BY <2>1, <2>3, <2>4, <2>5, <2>6 DEF p, one
<1>9. rope \in Nat /\ (kind.mrope => rope = m)
  <2>1. RtOK(cyc.base, N)
    BY <1>4 DEF Verifying
  <2>2. cyc.base.rope \in Nat
    BY <2>1 DEF RtOK, RowsOK, RtType
  <2>3. kind.mrope => cyc.base.rope = N
    BY <2>1 DEF RtOK, PosOK
  <2> QED
    BY <2>2, <2>3, <1>4
<1>10. rt' = [toks |-> toks, rows |-> main.rows, gdn |-> main.gdn, rope |-> rope,
              nextn |-> nextn, hidden |-> Prefix(conv, m)]
  <2> DEFINE c == Capture(main)
             seen == Prefix(conv, m)
  <2>1. main \in RtType
    BY <1>5 DEF RowsOK
  <2>2. main = [toks |-> main.toks, rows |-> main.rows, gdn |-> main.gdn, rope |-> main.rope,
                nextn |-> main.nextn, hidden |-> main.hidden]
    BY <2>1, TypedRecord
  <2>3. c = [main EXCEPT !.hidden = seen]
    BY <1>7 DEF Capture
  <2>4. rt' = [c EXCEPT !.nextn = nextn, !.toks = c.toks \o <<cyc.x>> \o Prefix(cyc.drafts, a),
                        !.rope = rope]
    BY <1>2
  <2> HIDE DEF c, seen, rope
  <2>5. c = [toks |-> main.toks, rows |-> main.rows, gdn |-> main.gdn, rope |-> main.rope,
             nextn |-> main.nextn, hidden |-> seen]
    BY <2>2, <2>3, Zenon
  <2>6. c.toks \o <<cyc.x>> \o Prefix(cyc.drafts, a) = toks
    BY <2>5, <1>5
  <2>7. rt' = [c EXCEPT !.nextn = nextn, !.toks = toks, !.rope = rope]
    BY <2>4, <2>6, Zenon
  <2> HIDE DEF toks
  <2>8. rt' = [toks |-> toks, rows |-> main.rows, gdn |-> main.gdn, rope |-> rope,
               nextn |-> nextn, hidden |-> seen]
    BY <2>5, <2>7, Zenon
  <2> QED
    BY <2>8 DEF seen
<1> HIDE DEF toks, rope, m
<1>11. rt' \in RtType
  <2>1. main \in RtType
    BY <1>5 DEF RowsOK
  <2>2. Prefix(conv, m) \in Hidden
    BY <1>7, SeqMonotonic DEF Hidden
  <2> QED
    BY <2>1, <2>2, <1>6, <1>7, <1>8, <1>9, <1>10, TypedRecord DEF RtType
<1>12. RtOK(rt', m)
  <2>1. RowsOK(rt', m)
    BY <1>5, <1>10, <1>11 DEF RowsOK
  <2>2. PosOK(rt', m) /\ HiddenOK(rt', m) /\ rt'.toks = Prefix(conv, m)
    BY <1>8, <1>9, <1>10 DEF PosOK, HiddenOK
  <2>3. NextnOK(rt', m)
    <3>1. m # 0 /\ m - 1 = N + a
      BY <1>4 DEF m
    <3>2. rt'.nextn = nextn
      BY <1>10
    <3> QED
      BY <3>1, <3>2, <1>6 DEF NextnOK
  <2> QED
    BY <2>1, <2>2, <2>3 DEF RtOK
<1>13. RtOK(rt, N)' /\ N' = m
  BY <1>1, <1>4, <1>12, RtNext
<1>14. cyc' = [x |-> NoTok, drafts |-> cyc.drafts, vA |-> <<>>, base |-> NoState, a |-> a,
               xnew |-> cyc.vA[a + 1], next |-> 1]
  BY <1>1 DEF NoCycle
<1>15. conv[m + 1] \in Tokens /\ cyc.vA[a + 1] = conv[m + 1]
  <2>1. m + 1 \in 1..(NCtx + 1) /\ N + 1 + (a + 1) = m + 1
    BY <1>4 DEF m
  <2> QED
    BY <2>1, <1>3, <1>4, ConvElem
<1>16. MTyped'
  <2>1. NoState \in RtType /\ <<>> \in Seq(Tokens)
    BY <1>4, FreshOK, EmptySeq DEF RtOK, RowsOK
  <2>2. NoTok \in Tokens \cup {NoTok} /\ 1 \in Nat \ {0} /\ cyc.vA[a + 1] \in Tokens \cup {NoTok}
    BY <1>15
  <2>3. cyc' \in CycleType
    BY <2>1, <2>2, <1>4, <1>14 DEF CycleType
  <2> QED
    BY <2>3, <1>1, ConvKept DEF MInd, MTyped
<1>17. Replied'
  BY <1>1, SameReply
<1>18. Delivering'
  <2>1. /\ cyc'.a = a /\ cyc'.next = 1 /\ cyc'.drafts = cyc.drafts /\ cyc'.xnew = conv[m + 1]
        /\ K' = K
    <3>1. K' = K
      BY <1>1 DEF K
    <3> QED
      BY <3>1, <1>14, <1>15
  <2>2. st.pf = PLen /\ N + 1 = PLen + st.sent
    BY <1>4 DEF Verifying, OneAhead
  <2>3. m + 1 = PLen + st.sent + a + 1 /\ 1 <= a + 1
    BY SMTT(40), <2>2, <1>4, StreamRecord, Consts DEF m
  <2>4. \A j \in 1..a : cyc.drafts[j] = conv[m - a + j]
    <3> TAKE j \in 1..a
    <3>1. m - a + j = N + 1 + j
      BY <1>4 DEF m
    <3> QED
      BY <3>1, <1>3
  <2> QED
    BY <2>1, <2>2, <2>3, <2>4, <1>1, <1>4, <1>13 DEF Delivering, PLen
<1>19. Stage'
  <2>1. N' <= NCtx
    BY <1>4, <1>13
  <2> QED
    BY <2>1, <1>1, <1>13, <1>18 DEF Stage
<1> QED
  BY <1>16, <1>17, <1>19 DEF MInd

-----------------------------------------------------------------------------
(* The invariants *)

LEMMA StepKeeps == ASSUME MInd, Regular(kind), [Next]_vars PROVE MInd'
<1>1. CASE Take
  BY <1>1, TakeKeeps
<1>2. CASE Chunk
  BY <1>2, ChunkKeeps
<1>3. CASE AbortPrefill
  BY <1>3, FinishKeeps DEF AbortPrefill
<1>4. CASE ToGenBegin
  BY <1>4, ToGenBeginKeeps
<1>5. CASE Resend
  BY <1>5, ResendKeeps
<1>6. CASE SendPending
  BY <1>6, SendPendingKeeps
<1>7. CASE Generate
  BY <1>7, GenerateKeeps
<1>8. CASE Token
  BY <1>8, TokenKeeps
<1>9. CASE Draft
  BY <1>9, DraftKeeps
<1>10. CASE Verify
  BY <1>10, VerifyKeeps
<1>11. CASE Settle
  BY <1>11, SettleKeeps
<1>12. CASE Deliver
  BY <1>12, DeliverKeeps
<1>13. CASE NextCycle
  BY <1>13, NextCycleKeeps
<1>14. CASE Closing
  BY <1>14, FinishKeeps DEF Closing
<1>15. CASE Leave
  BY <1>15, Unmoved DEF Leave
<1>16. CASE UNCHANGED vars
  BY <1>16, Unmoved DEF vars, MInd, MTyped
<1> QED
  BY <1>1, <1>2, <1>3, <1>4, <1>5, <1>6, <1>7, <1>8, <1>9, <1>10, <1>11, <1>12, <1>13, <1>14,
     <1>15, <1>16 DEF Next, Work

LEMMA KindKept == [Next]_vars => kind' = kind
BY DEF Next, Work, vars, Take, Chunk, AbortPrefill, ToGenBegin, Resend, SendPending, Generate,
       Token, OnToken, Emit, Finish, Draft, Verify, Settle, Deliver, NextCycle, Closing, Leave

(* The inductive invariant holds for every regular request. *)
THEOREM Inductive == Spec /\ Regular(kind) => [](MInd /\ Regular(kind))
<1>1. Init /\ Regular(kind) => MInd /\ Regular(kind)
  BY InitKeeps
<1>2. MInd /\ Regular(kind) /\ [Next]_vars => (MInd /\ Regular(kind))'
  <2> SUFFICES ASSUME MInd, Regular(kind), [Next]_vars PROVE (MInd /\ Regular(kind))'
    OBVIOUS
  <2>1. MInd'
    BY StepKeeps
  <2>2. Regular(kind)'
    BY KindKept DEF Regular, PLen
  <2> QED
    BY <2>1, <2>2
<1> QED
  BY <1>1, <1>2, PTL DEF Spec

LEMMA SettledThen == MInd => Settled
<1> SUFFICES ASSUME MInd, pc \notin {"verify", "settle"}
             PROVE  /\ Sound(rt) /\ Seen(rt) = rt.toks
                    /\ kind.mrope => rt.rope = n_past(rt)
                    /\ rt.toks = Prefix(conv, Len(rt.toks))
  BY DEF Settled
<1>1. ConvOK /\ RtOK(rt, N) /\ N \in 0..NCtx /\ n_past(rt) = N /\ rt.toks = Prefix(conv, N)
  BY RtFacts
<1>2. N \in 0..(NCtx + 1) /\ rt.rows = RowsTo(N)
  BY <1>1, Consts DEF RtOK, RowsOK
<1>3. Seen(rt) = Prefix(conv, N)
  BY <1>1, <1>2, RowsTyped
<1>4. \A i \in DOMAIN rt.rows : rt.rows[i].pos = i - 1
  BY <1>2 DEF RowsTo
<1>5. Sound(rt)
  BY <1>1, <1>3, <1>4 DEF Sound, RtOK, RowsOK
<1> QED
  BY <1>1, <1>3, <1>5 DEF RtOK, PosOK, N

LEMMA AlignedThen == MInd => NextnAligned
<1> SUFFICES ASSUME MInd, pc \in {"token", "deliver", "paused"}, rt.rows # <<>>
             PROVE  /\ Len(rt.nextn) = n_past(rt) - 1
                    /\ \A i \in DOMAIN rt.nextn : rt.nextn[i].tok = rt.toks[i + 1]
                    /\ ~kind.ecache =>
                          /\ rt.hidden = rt.toks
                          /\ \A i \in DOMAIN rt.nextn : rt.nextn[i].hid = Prefix(rt.toks, i)
  BY DEF NextnAligned
<1>1. /\ ConvOK /\ RtOK(rt, N) /\ N \in 0..NCtx /\ n_past(rt) = N /\ rt.toks = Prefix(conv, N)
      /\ \A i \in 1..N : rt.toks[i] = conv[i]
  BY RtFacts
<1>2. rt.nextn \in Seq([tok : Tokens, hid : Hidden]) /\ rt.rows \in Seq([tok : Tokens, pos : Nat])
  BY <1>1, TypedRecord DEF RtOK, RowsOK
<1>3. N \in Nat \ {0} /\ NCtx \in Nat
  <2>1. Len(rt.rows) # 0
    BY <1>2, EmptySeq
  <2> QED
    BY <2>1, <1>1, Consts DEF n_past
<1>4. /\ Len(rt.nextn) = N - 1 /\ DOMAIN rt.nextn = 1..(N - 1)
      /\ \A i \in 1..(N - 1) :
           rt.nextn[i].tok = conv[i + 1] /\ (~kind.ecache => rt.nextn[i].hid = Prefix(conv, i))
  <2>1. Len(rt.nextn) = N - 1
    BY <1>1, <1>3 DEF RtOK, NextnOK
  <2>2. DOMAIN rt.nextn = 1..(N - 1)
    BY <2>1, <1>2, LenProperties
  <2> QED
    BY <2>1, <2>2, <1>1 DEF RtOK, NextnOK
<1>5. \A i \in 1..(N - 1) : rt.toks[i + 1] = conv[i + 1]
  BY <1>1, <1>3
<1>6. \A i \in 1..(N - 1) : Prefix(rt.toks, i) = Prefix(conv, i)
  <2> TAKE i \in 1..(N - 1)
  <2>1. 1 \in 1..Len(conv) /\ N \in 1..Len(conv) /\ 1 \in 1..(N - 1 + 1) /\ i \in 1..(N - 1 + 1)
    BY <1>1, <1>3 DEF ConvOK
  <2>2. SubSeq(SubSeq(conv, 1, N), 1, i) = SubSeq(conv, 1 + 1 - 1, 1 + i - 1)
    BY <2>1, <1>1, SubSeqOfSubSeq DEF ConvOK
  <2>3. 1 + 1 - 1 = 1 /\ 1 + i - 1 = i
    OBVIOUS
  <2>4. SubSeq(SubSeq(conv, 1, N), 1, i) = SubSeq(conv, 1, i)
    BY <2>2, <2>3, Zenon
  <2> QED
    BY <2>4, <1>1, Zenon DEF Prefix
<1>7. ~kind.ecache => rt.hidden = rt.toks
  BY <1>1, <1>3 DEF RtOK, HiddenOK
<1> QED
  BY <1>1, <1>4, <1>5, <1>6, <1>7

LEMMA WithinThen == MInd /\ Regular(kind) => WithinContext
<1> SUFFICES ASSUME MInd, Regular(kind) PROVE WithinContext
  OBVIOUS
<1>1. CASE pc \notin {"verify", "settle"}
  <2>1. RtOK(rt, N) /\ N \in 0..NCtx /\ n_past(rt) = N
    BY <1>1, RtFacts
  <2>2. Len(rt.nextn) = IF N = 0 THEN 0 ELSE N - 1
    BY <2>1 DEF RtOK, NextnOK
  <2> QED
    BY <2>1, <2>2, Consts DEF WithinContext
<1>2. CASE pc \in {"verify", "settle"}
  <2>1. /\ ConvOK /\ Verifying /\ N \in Nat \ {0} /\ K \in Nat \ {0} /\ NCtx \in Nat
        /\ N + K + 1 <= NCtx
    BY <1>2, BatchFacts
  <2>2. Len(rt.nextn) <= NCtx
    BY <2>1 DEF Verifying
  <2>3. n_past(rt) <= NCtx
    <3>1. CASE pc = "verify"
      <4>1. n_past(rt) = N
        <5>1. RowsOK(rt, N) /\ N \in 0..(NCtx + 1)
          BY <3>1, <2>1 DEF MInd, Stage
        <5> QED
          BY <5>1, <2>1, RowsTyped DEF RowsOK
      <4> QED
        BY <4>1, <2>1
    <3>2. CASE pc = "settle"
      <4>1. 0 \in 0..K /\ \A i \in 1..0 : cyc.drafts[i] = conv[N + 1 + i]
        BY <2>1
      <4>2. Len(rt.rows) = N + K + 1
        BY <4>1, <3>2, BatchCut
      <4> QED
        BY <4>2, <2>1 DEF n_past
    <3> QED
      BY <1>2, <3>1, <3>2
  <2> QED
    BY <2>2, <2>3 DEF WithinContext
<1> QED
  BY <1>1, <1>2

(* Whenever the stream holds no half-done cycle, the rows, the recurrent   *)
(* state, the position counter and kv_toks are those of one sequence of    *)
(* tokens, a beginning of what the model itself says: for any prompt,      *)
(* budget, number of drafts, time slice and chunk, through every pause,    *)
(* rebuilt state and rejected draft of a regular request.                  *)
THEOREM SettledState == Spec /\ Regular(kind) => []Settled
<1>1. MInd /\ Regular(kind) => Settled
  BY SettledThen
<1> QED
  BY <1>1, Inductive, PTL

(* At the loop top the draft block has a row for every token but the       *)
(* first, paired with the main model's hidden before it.                   *)
THEOREM DraftBlockAligned == Spec /\ Regular(kind) => []NextnAligned
<1>1. MInd /\ Regular(kind) => NextnAligned
  BY AlignedThen
<1> QED
  BY <1>1, Inductive, PTL

(* No forward pass of a regular request writes a row outside the context.  *)
THEOREM RowsWithinContext == Spec /\ Regular(kind) => []WithinContext
<1>1. MInd /\ Regular(kind) => WithinContext
  BY WithinThen
<1> QED
  BY <1>1, Inductive, PTL

(* The bounds of the cycle's counters; a reply is closed for its length    *)
(* only.                                                                   *)
Bounds ==
    /\ cyc.a <= K /\ cyc.next <= K + 1
    /\ pc = "closing" => st.sent = kind.max

LEMMA BoundsStep == ASSUME MInd, MInd', Bounds, Regular(kind), [Next]_vars PROVE Bounds'
<1>1. K \in Nat \ {0} /\ kind.max \in Nat /\ K' = K /\ kind' = kind
  BY KindTyped, KindKept DEF K
<1>2. st'.sent <= kind.max /\ st'.sent \in Nat /\ st.sent \in Nat
  <2>1. Replied' /\ st' \in StreamType'
    BY DEF MInd, MTyped
  <2> QED
    BY <2>1, <1>1, StreamRecord DEF Replied, StreamType
<1>3. (\E x \in Tokens : cyc' = [NoCycle EXCEPT !.x = x]) => cyc'.a = 0 /\ cyc'.next = 1
  BY DEF NoCycle
<1>4. ASSUME NEW t, NEW slice, NEW pending, NEW then, Emit(t, slice, pending, then), then # "closing"
      PROVE  pc' = "closing" => st'.sent = kind.max
  <2>1. pc' = "closing" => st.sent + 1 >= kind.max
    BY <1>4 DEF Emit
  <2>2. st' = [st EXCEPT !.sent = @ + 1, !.slice = slice + 1, !.pending = pending]
    BY <1>4 DEF Emit
  <2>3. st'.sent = st.sent + 1
    BY <2>2, StreamRecord
  <2> QED
    BY <2>1, <2>3, <1>1, <1>2
<1>5. CASE UNCHANGED <<cyc, pc, st>>
  BY <1>1, <1>5 DEF Bounds
<1>6. CASE cyc' = cyc /\ pc' # "closing"
  BY <1>1, <1>6 DEF Bounds
<1>7. CASE (\E x \in Tokens : cyc' = [NoCycle EXCEPT !.x = x]) /\ pc' # "closing"
  BY <1>1, <1>3, <1>7 DEF Bounds
<1>8. CASE Resend
  <2>1. CASE Finish
    BY <2>1, <1>6 DEF Finish
  <2>2. CASE Emit(Head(Unsent), st.slice, st.pending, "prompt") /\ UNCHANGED cyc
    <3>1. pc' = "closing" => st'.sent = kind.max
      BY <2>2, <1>4
    <3> QED
      BY <3>1, <2>2, <1>1 DEF Bounds
  <2> QED
    BY <1>8, <2>1, <2>2 DEF Resend
<1>9. CASE SendPending
  <2>1. CASE Finish
    BY <2>1, <1>6 DEF Finish
  <2>2. CASE /\ Emit(st.pending, st.slice, NoTok, "generate")
             /\ cyc' = [NoCycle EXCEPT !.x = st.pending]
    <3>1. pc' = "closing" => st'.sent = kind.max
      BY <2>2, <1>4
    <3>2. cyc'.a = 0 /\ cyc'.next = 1
      BY <2>2 DEF NoCycle
    <3> QED
      BY <3>1, <3>2, <1>1 DEF Bounds
  <2> QED
    BY <1>9, <2>1, <2>2 DEF SendPending
<1>10. CASE Generate
  <2>1. pc' = "token" /\ \E x : cyc' = [NoCycle EXCEPT !.x = x]
    BY <1>10 DEF Generate
  <2>2. cyc'.a = 0 /\ cyc'.next = 1
    BY <2>1 DEF NoCycle
  <2> QED
    BY <2>1, <2>2, <1>1 DEF Bounds
<1>11. ASSUME NEW t, NEW pending, NEW then, OnToken(t, pending, then), then \in {"draft", "deliver"},
              then = "deliver" => cyc.next <= cyc.a
       PROVE  Bounds'
  <2>1. CASE Finish
    BY <2>1, <1>6 DEF Finish
  <2>2. CASE pc' = "paused" /\ UNCHANGED <<kind, conv, rt, cyc, reply, gone>>
    BY <2>2, <1>6
  <2>3. CASE /\ Emit(t, IF SliceUsed THEN 0 ELSE st.slice, NoTok, then)
             /\ cyc' = [cyc EXCEPT !.next = IF then = "deliver" THEN @ + 1 ELSE @]
    <3>1. pc' = "closing" => st'.sent = kind.max
      BY <2>3, <1>4, <1>11
    <3> DEFINE n == IF then = "deliver" THEN cyc.next + 1 ELSE cyc.next
    <3>2. cyc' = [cyc EXCEPT !.next = n]
      BY <2>3
    <3> HIDE DEF n
    <3>3. cyc' = [x |-> cyc.x, drafts |-> cyc.drafts, vA |-> cyc.vA, base |-> cyc.base,
                  a |-> cyc.a, xnew |-> cyc.xnew, next |-> n]
      BY <3>2, CycleRecord, Zenon
    <3>4. cyc'.a = cyc.a /\ cyc'.next = n
      BY <3>3
    <3>5. n <= K + 1
      BY <1>1, <1>11, CycleRecord DEF Bounds, n
    <3> QED
      BY <3>1, <3>4, <3>5, <1>1 DEF Bounds
  <2> QED
    BY <1>11, <2>1, <2>2, <2>3 DEF OnToken
<1>12. CASE Token
  <2>1. OnToken(cyc.x, cyc.x, "draft")
    BY <1>12 DEF Token
  <2> QED
    BY <2>1, <1>11
<1>13. CASE Deliver
  <2>1. cyc.next <= cyc.a /\ OnToken(cyc.drafts[cyc.next], cyc.xnew, "deliver")
    BY <1>13 DEF Deliver
  <2> QED
    BY <2>1, <1>11
<1>14. CASE Draft
  <2>1. PICK d : cyc' = [cyc EXCEPT !.drafts = d, !.base = rt]
    BY <1>14 DEF Draft
  <2>2. cyc' = [x |-> cyc.x, drafts |-> d, vA |-> cyc.vA, base |-> rt, a |-> cyc.a,
                xnew |-> cyc.xnew, next |-> cyc.next]
    BY <2>1, CycleRecord, Zenon
  <2>3. cyc'.a = cyc.a /\ cyc'.next = cyc.next /\ pc' = "verify"
    BY <2>2, <1>14 DEF Draft
  <2> QED
    BY <2>3, <1>1 DEF Bounds
<1>15. CASE Verify
  <2>1. PICK v : cyc' = [cyc EXCEPT !.vA = v]
    BY <1>15 DEF Verify
  <2>2. cyc' = [x |-> cyc.x, drafts |-> cyc.drafts, vA |-> v, base |-> cyc.base, a |-> cyc.a,
                xnew |-> cyc.xnew, next |-> cyc.next]
    BY <2>1, CycleRecord, Zenon
  <2>3. cyc'.a = cyc.a /\ cyc'.next = cyc.next /\ pc' = "settle"
    BY <2>2, <1>15 DEF Verify
  <2> QED
    BY <2>3, <1>1 DEF Bounds
<1>16. CASE Settle
  <2> DEFINE a == Accepted(cyc.drafts, cyc.vA)
  <2>1. pc = "settle" /\ pc' = "deliver"
        /\ cyc' = [NoCycle EXCEPT !.drafts = cyc.drafts, !.a = a, !.xnew = cyc.vA[a + 1]]
    BY <1>16 DEF Settle
  <2>2. a \in 0..K
    BY <2>1, AcceptedRight
  <2> HIDE DEF a
  <2>3. cyc'.a = a /\ cyc'.next = 1
    BY <2>1 DEF NoCycle
  <2> QED
    BY <2>1, <2>2, <2>3, <1>1 DEF Bounds
<1>17. CASE NextCycle
  <2>1. pc' = "token" /\ cyc' = [NoCycle EXCEPT !.x = cyc.xnew]
    BY <1>17 DEF NextCycle
  <2>2. cyc'.a = 0 /\ cyc'.next = 1
    BY <2>1 DEF NoCycle
  <2> QED
    BY <2>1, <2>2, <1>1 DEF Bounds
<1>18. CASE Take \/ Chunk \/ AbortPrefill \/ Closing
  BY <1>18, <1>6 DEF Take, Chunk, AbortPrefill, Closing, Finish
<1>19. CASE ToGenBegin
  BY <1>19, <1>6 DEF ToGenBegin
<1>20. CASE Leave \/ UNCHANGED vars
  BY <1>20, <1>5 DEF Leave, vars
<1> QED
  BY <1>8, <1>9, <1>10, <1>12, <1>13, <1>14, <1>15, <1>16, <1>17, <1>18, <1>19, <1>20
     DEF Next, Work

LEMMA Bounded == Spec /\ Regular(kind) => []Bounds
<1>1. Init /\ MInd => Bounds
  <2> SUFFICES ASSUME Init, MInd PROVE Bounds
    OBVIOUS
  <2> QED
    BY KindTyped DEF Init, NoCycle, Bounds
<1>2. MInd /\ MInd' /\ Bounds /\ Regular(kind) /\ [Next]_vars => Bounds'
  BY BoundsStep
<1> QED
  BY <1>1, <1>2, Inductive, PTL DEF Spec

LEMMA ReplyLength == ASSUME MInd PROVE Len(reply) = st.sent
<1>1. /\ PLen \in Nat /\ st.sent \in Nat /\ NCtx \in Nat /\ ConvOK
      /\ reply = SubSeq(conv, PLen + 1, PLen + st.sent) /\ PLen + st.sent <= NCtx
  BY StreamRecord, Consts DEF MInd, MTyped, Replied
<1> DEFINE m == PLen + st.sent
<1>2. m \in Nat /\ PLen <= m /\ m <= NCtx + 1 /\ m - PLen = st.sent
  BY <1>1
<1> HIDE DEF m
<1>3. Len(SubSeq(conv, PLen + 1, m)) = m - PLen
  BY <1>1, <1>2, Part
<1> QED
  BY <1>1, <1>2, <1>3 DEF m

LEMMA TypedThen == MInd /\ Bounds => MTypeOK
<1> SUFFICES ASSUME MInd, Bounds PROVE MTypeOK
  OBVIOUS
<1>1. rt \in RtType
  BY DEF MInd, Stage, RtOK, RowsOK, Verifying
<1>2. cyc.a \in 0..K /\ cyc.next \in 1..(K + 1)
  BY CycleRecord, KindTyped DEF Bounds
<1>3. st.sent <= kind.max
  BY DEF MInd, Replied
<1> QED
  BY <1>1, <1>2, <1>3, ReplyLength, StreamRecord, TypedRecord DEF MTypeOK, MInd, MTyped

(* Types and bounds of the stream and of the cycle: what was sent is what  *)
(* is counted, and never more than the budget.                             *)
THEOREM TypeCorrect == Spec /\ Regular(kind) => []MTypeOK
<1>1. MInd /\ Bounds => MTypeOK
  BY TypedThen
<1> QED
  BY <1>1, Inductive, Bounded, PTL

-----------------------------------------------------------------------------
(* The refinement *)

LEMMA EmitSays ==
    ASSUME MInd, NEW t, NEW slice, NEW pending, NEW then, Emit(t, slice, pending, then),
           pc \notin {"closing", "over"}, then # "over", t = conv[PLen + st.sent + 1], t # Stop
    PROVE  Greedy!Say
<1>1. Len(reply) = st.sent /\ st.sent < kind.max
  BY ReplyLength DEF MInd, Replied
<1>2. Greedy!Upcoming = t
  BY <1>1 DEF Greedy!Upcoming
<1>3. reply' = Append(reply, t) /\ UNCHANGED <<kind, conv, gone>> /\ pc' # "over"
  BY DEF Emit
<1> QED
  BY <1>1, <1>2, <1>3 DEF Greedy!Say

LEMMA FinishCloses ==
    ASSUME MInd, Finish, pc # "over",
           \/ gone \/ conv[PLen + st.sent + 1] = Stop \/ st.sent >= kind.max
           \/ PLen + st.sent + (K + 1) >= NCtx
    PROVE  Greedy!Close
<1>1. Len(reply) = st.sent
  BY ReplyLength
<1>2. /\ Greedy!Upcoming = conv[PLen + st.sent + 1]
      /\ PLen + st.sent + (K + 1) >= NCtx => Greedy!Full
  BY <1>1 DEF Greedy!Upcoming, Greedy!Full, K
<1>3. pc' = "over" /\ UNCHANGED <<kind, conv, reply, gone>>
  BY DEF Finish
<1> QED
  BY <1>1, <1>2, <1>3 DEF Greedy!Close

LEMMA Silent ==
    ASSUME UNCHANGED <<kind, conv, reply, gone>>, pc # "over", pc' # "over"
    PROVE  UNCHANGED Greedy!gvars
BY DEF Greedy!gvars

LEMMA StepRefines ==
    ASSUME MInd, Bounds, [Next]_vars
    PROVE  [Greedy!GNext]_(Greedy!gvars)
<1> USE DEF Greedy!GNext
<1>0. /\ N \in Nat => N + 1 \in Nat
      /\ PLen \in Nat /\ st.sent \in Nat /\ NCtx \in Nat /\ K \in Nat \ {0}
      /\ cyc.a \in Nat /\ cyc.next \in Nat \ {0} /\ cyc.a <= K
  BY StreamRecord, CycleRecord, KindTyped, Consts DEF Bounds
<1>1. CASE Take \/ Chunk \/ ToGenBegin \/ Generate \/ Draft \/ Verify \/ Settle \/ NextCycle
  <2>1. UNCHANGED <<kind, conv, reply, gone>> /\ pc # "over" /\ pc' # "over"
    BY <1>1 DEF Take, Chunk, ToGenBegin, Generate, LastPart, Draft, Verify, Settle, NextCycle
  <2> QED
    BY <2>1, Silent
<1>2. CASE AbortPrefill
  BY <1>2, FinishCloses DEF AbortPrefill
<1>3. CASE Closing
  <2>1. pc = "closing" /\ Finish /\ st.sent = kind.max /\ kind.max \in Nat
    BY <1>3, KindTyped DEF Closing, Bounds
  <2>2. st.sent >= kind.max
    BY <2>1
  <2> QED
    BY <2>1, <2>2, FinishCloses
<1>4. CASE Resend
  <2>1. pc = "prompt" /\ Head(Unsent) = conv[PLen + st.sent + 1]
    BY <1>4, UnsentFacts DEF Resend, LastPart
  <2>2. CASE (gone \/ Head(Unsent) = Stop) /\ Finish
    BY <2>1, <2>2, FinishCloses
  <2>3. CASE Head(Unsent) # Stop /\ Emit(Head(Unsent), st.slice, st.pending, "prompt")
    BY <2>1, <2>3, EmitSays
  <2> QED
    BY <1>4, <2>2, <2>3 DEF Resend
<1>5. CASE SendPending
  <2>1. pc = "prompt" /\ Unsent = <<>> /\ st.pending # NoTok
    BY <1>5 DEF SendPending, LastPart
  <2>2. st.pending = conv[PLen + st.sent + 1] /\ n_past(rt) = PLen + st.sent
    <3>1. Resting
      BY <2>1 DEF MInd, Stage
    <3>2. N <= PLen + st.sent /\ N \in Nat /\ n_past(rt) = N
      BY <2>1, UnsentFacts, RtFacts
    <3> QED
      BY SMTT(40), <3>1, <3>2, <2>1, <1>0 DEF Resting
  <2>3. CASE (gone \/ st.pending = Stop \/ n_past(rt) + 1 >= NCtx) /\ Finish
    <3>1. n_past(rt) + 1 >= NCtx => PLen + st.sent + (K + 1) >= NCtx
      BY <2>2, <1>0
    <3> QED
      BY <2>1, <2>2, <2>3, <3>1, FinishCloses
  <2>4. CASE st.pending # Stop /\ Emit(st.pending, st.slice, NoTok, "generate")
    BY <2>1, <2>2, <2>4, EmitSays
  <2> QED
    BY <1>5, <2>3, <2>4 DEF SendPending
<1>6. CASE Token
  <2>1. pc = "token" /\ n_past(rt) = PLen + st.sent /\ cyc.x = conv[PLen + st.sent + 1]
    <3>1. pc = "token" /\ N = PLen + st.sent /\ cyc.x = conv[N + 1]
      BY <1>6 DEF Token, MInd, Stage
    <3> QED
      BY <3>1, RtFacts
  <2>2. CASE (Done(cyc.x) \/ gone) /\ Finish
    <3>1. n_past(rt) + 1 >= NCtx => PLen + st.sent + (K + 1) >= NCtx
      BY <2>1, <1>0
    <3> QED
      BY <2>1, <2>2, <3>1, FinishCloses DEF Done
  <2>3. CASE pc' = "paused" /\ UNCHANGED <<kind, conv, rt, cyc, reply, gone>>
    BY <2>1, <2>3, Silent
  <2>4. CASE ~Done(cyc.x) /\ Emit(cyc.x, IF SliceUsed THEN 0 ELSE st.slice, NoTok, "draft")
    BY <2>1, <2>4, EmitSays DEF Done
  <2> QED
    BY <1>6, <2>2, <2>3, <2>4 DEF Token, OnToken
<1>7. CASE Deliver
  <2> DEFINE t == cyc.drafts[cyc.next]
  <2>1. pc = "deliver" /\ Delivering /\ cyc.next <= cyc.a
    BY <1>7 DEF MInd, Stage, Deliver
  <2>2. /\ N + cyc.next = PLen + st.sent + cyc.a + 1
        /\ \A j \in 1..cyc.a : cyc.drafts[j] = conv[N - cyc.a + j]
    BY <2>1 DEF Delivering
  <2>3. N \in Nat /\ n_past(rt) = N
    BY <2>1, RtFacts
  <2>4. t = conv[PLen + st.sent + 1]
    <3>1. cyc.next \in 1..cyc.a /\ N - cyc.a + cyc.next = PLen + st.sent + 1
      BY <2>1, <2>2, <2>3, <1>0
    <3> QED
      BY <3>1, <2>2
  <2> HIDE DEF t
  <2>5. CASE (Done(t) \/ gone) /\ Finish
    <3>1. n_past(rt) + 1 >= NCtx => PLen + st.sent + (K + 1) >= NCtx
      BY <2>2, <2>3, <1>0
    <3> QED
      BY <2>1, <2>4, <2>5, <3>1, FinishCloses DEF Done
  <2>6. CASE pc' = "paused" /\ UNCHANGED <<kind, conv, rt, cyc, reply, gone>>
    BY <2>1, <2>6, Silent
  <2>7. CASE ~Done(t) /\ Emit(t, IF SliceUsed THEN 0 ELSE st.slice, NoTok, "deliver")
    BY <2>1, <2>4, <2>7, EmitSays DEF Done
  <2> QED
    BY <1>7, <2>5, <2>6, <2>7 DEF Deliver, OnToken, t
<1>8. CASE Leave
  <2>1. Greedy!Leave
    BY <1>8 DEF Leave, Greedy!Leave
  <2> QED
    BY <2>1
<1>9. CASE UNCHANGED vars
  BY <1>9 DEF vars, Greedy!gvars
<1> QED
  BY <1>1, <1>2, <1>3, <1>4, <1>5, <1>6, <1>7, <1>8, <1>9 DEF Next, Work

(* The client of a regular request receives the greedy reply, whole and in *)
(* order, and it is closed only for a reason the abstract reply knows: the *)
(* safety of ImplementsGreedy, for every instance.                         *)
THEOREM GreedySafety ==
    Spec /\ Regular(kind) => Greedy!GInit /\ [][Greedy!GNext]_(Greedy!gvars)
<1>1. Init => Greedy!GInit
  BY DEF Init, Greedy!GInit
<1>2. MInd /\ Bounds /\ [Next]_vars => [Greedy!GNext]_(Greedy!gvars)
  BY StepRefines
<1> QED
  BY <1>1, <1>2, Inductive, Bounded, PTL DEF Spec

=============================================================================
