-------------------------- MODULE NgramTableProofs --------------------------
(***************************************************************************)
(* Proofs about NgramTable, for any vocabulary, window, heads, hash, batch *)
(* and size of the row cache.                                              *)
(*                                                                         *)
(* The rows of a batch are hashed from the history and the batch alone, so *)
(* what makes them the rows of one pass is that the history is always the  *)
(* last NGram - 1 tokens of the sequence, boundaries put before its start  *)
(* (HistOK, Window). What gather() delivers needs its cache: every indexed *)
(* row lies at its own place of the data, and the LRU list lists the index *)
(* without repetition, so that the victim of an insertion is indexed and   *)
(* its place is free afterwards (CacheInv, Lists). A read may be saved     *)
(* because the misses are served in the order of their rows: the buffer    *)
(* holds the last row read and every row still to be read is at least that *)
(* (Gathered, ReadsOnce).                                                  *)
(***************************************************************************)
EXTENDS NgramTable, SequenceTheorems, FiniteSetTheorems, TLAPS

(* The token at position q of a sequence that a boundary precedes. *)
Token(s, q) == IF q < 1 THEN Eos ELSE s[q]

(* The history after the tokens s. *)
Window(s) == [i \in 1..(NGram - 1) |-> Token(s, Len(s) - (NGram - 1) + i)]

Places == 1..Len(job.rows)

JobTyped ==
    /\ job = [pc |-> job.pc, batch |-> job.batch, rows |-> job.rows, out |-> job.out,
              at |-> job.at, missed |-> job.missed, last |-> job.last, buf |-> job.buf]
    /\ job.pc \in {"idle", "gather", "done", "failed"}
    /\ job.batch \in Seq(Tokens)
    /\ job.rows \in Seq(Nat)
    /\ job.out \in Seq(Int) /\ Len(job.out) = Len(job.rows)
    /\ job.at \in Nat \ {0}
    /\ job.missed \subseteq Places
    /\ job.last \in Int

NTyped ==
    /\ mode \in Modes
    /\ cap \in Nat
    /\ seq \in Seq(Tokens)
    /\ hist \in Seq(Tokens)
    /\ JobTyped

(* The history goes with the sequence, the batch at hand included; after a *)
(* failed read there is none until the reset.                              *)
Computing == job.pc \in {"gather", "done"}

HistOK ==
    /\ job.pc = "idle" => Padded(hist) = Window(seq)
    /\ Computing => Padded(hist) = Window(seq \o job.batch)

(* A place is served, or missed, or not looked up yet; what is in the      *)
(* buffer is the row read last.                                            *)
Gathered ==
    /\ job.pc = "gather" =>
         /\ \A i \in Places : i < job.at /\ i \notin job.missed => job.out[i] = job.rows[i]
         /\ \A i \in job.missed : i < job.at
         /\ job.last # NoRow => job.buf = job.last
    /\ job.pc = "done" => job.out = job.rows

(* The rows to be read are not in the cache, except the one read last, and *)
(* that comes before the others.                                           *)
ReadsOnce ==
    job.pc = "gather" =>
        /\ \A i \in job.missed : job.rows[i] \in DOMAIN index => job.rows[i] = job.last
        /\ \A i \in job.missed : job.last <= job.rows[i]
        /\ job.at <= Len(job.rows) => job.last = NoRow

(* The sequence l has every member of E once, and nothing else. *)
Lists(l, E) ==
    /\ l \in Seq(Nat)
    /\ \A i \in 1..Len(l) : l[i] \in E
    /\ \A r \in E : \E i \in 1..Len(l) : l[i] = r
    /\ \A i, j \in 1..Len(l) : l[i] = l[j] => i = j

(* RowCacheSound, with places taken from the first on and no row twice in  *)
(* the order of use.                                                       *)
CacheInv ==
    /\ IsFiniteSet(DOMAIN index) /\ DOMAIN index \subseteq Nat
    /\ index = [r \in DOMAIN index |-> index[r]]
    /\ Lists(lru, DOMAIN index) /\ Len(lru) = Cardinality(DOMAIN index)
    /\ Cardinality(DOMAIN index) <= cap
    /\ data \in [1..cap -> Int]
    /\ \A r \in DOMAIN index : index[r] \in 1..Cardinality(DOMAIN index) /\ data[index[r]] = r

NInd == NTyped /\ HistOK /\ RowsExact /\ Gathered /\ ReadsOnce /\ CacheInv

-----------------------------------------------------------------------------
(* hash_rows *)

LEMMA Quotient ==
    ASSUME NEW H \in Nat \ {0}, NEW a \in Nat, NEW b \in 0..(H - 1)
    PROVE  (a * H + b) \div H = a /\ (a * H + b) % H = b
<1> DEFINE q == (a * H + b) \div H
           m == (a * H + b) % H
<1>1. a * H + b \in Nat
  OBVIOUS
<1>2. q \in Int /\ m \in 0..(H - 1) /\ a * H + b = H * q + m
  BY <1>1
<1> HIDE DEF q, m
<1>3. a * H = H * a /\ H * a - H * q = H * (a - q)
  BY <1>2
<1>4. H * (a - q) = m - b
  BY <1>2, <1>3
<1> DEFINE d == a - q
<1>5. d \in Int
  BY <1>2
<1> HIDE DEF d
<1>6. d >= 1 => H * d >= H
  BY <1>5
<1>7. d <= -1 => H * d <= -H
  BY <1>5
<1>8. H * d = m - b
  BY <1>4 DEF d
<1>9. d = 0
  BY <1>2, <1>5, <1>6, <1>7, <1>8
<1>10. a = q /\ m = b
  BY <1>2, <1>8, <1>9 DEF d
<1> QED
  BY <1>10 DEF q, m

LEMMA HeadsPositive == Heads \in Nat \ {0} /\ NGram \in Nat /\ NGram >= 2
<1>1. NGram - 1 \in Nat \ {0} /\ PerGram \in Nat \ {0}
  BY NgramAssumption
<1> DEFINE g == NGram - 1
<1> HIDE DEF g
<1>2. ASSUME NEW u \in Nat \ {0}, NEW v \in Nat \ {0} PROVE u * v \in Nat \ {0}
  OBVIOUS
<1>3. g * PerGram \in Nat \ {0}
  BY <1>1, <1>2 DEF g
<1> QED
  BY <1>3, NgramAssumption DEF Heads, g

(* A head's window has as many tokens as its gram, never more than NGram.  *)
LEMMA GramBounds ==
    ASSUME NEW hi \in 1..Heads
    PROVE  GramOf(hi) \in 2..NGram
<1> DEFINE q == (hi - 1) \div PerGram
           m == (hi - 1) % PerGram
           g == NGram - 1
<1>1. PerGram \in Nat \ {0} /\ g \in Nat \ {0} /\ NGram = g + 1
  BY NgramAssumption
<1>2. hi - 1 \in Nat /\ hi - 1 < g * PerGram
  BY HeadsPositive DEF Heads
<1>3. q \in Int /\ m \in 0..(PerGram - 1) /\ hi - 1 = PerGram * q + m
  BY <1>1, <1>2
<1> HIDE DEF q, m, g
<1>4. q >= 0
  <2>1. q <= -1 => PerGram * q <= -PerGram
    BY <1>1, <1>3
  <2> QED
    BY <2>1, <1>1, <1>2, <1>3
<1>5. q < g
  <2>1. q >= g => PerGram * q >= g * PerGram
    BY <1>1, <1>3
  <2>2. PerGram * q \in Int /\ g * PerGram \in Int
    BY <1>1, <1>3
  <2> QED
    BY <2>1, <2>2, <1>1, <1>2, <1>3
<1> QED
  BY <1>1, <1>3, <1>4, <1>5 DEF GramOf, q

(* A predecessor is found in the batch or in the history, wherever the     *)
(* sequence was cut.                                                       *)
LEMMA PrevIs ==
    ASSUME NEW s \in Seq(Tokens), NEW b \in Seq(Tokens), NEW i \in 1..Len(b),
           NEW r \in 1..(NGram - 1)
    PROVE  Prev(Window(s), b, i, r) = Token(s \o b, Len(s) + i - r)
<1> DEFINE h == Window(s)
<1>1. Len(h) = NGram - 1
  BY HeadsPositive DEF Window
<1>2. Len(s) \in Nat /\ Len(b) \in Nat
  OBVIOUS
<1>3. CASE i > r
  <2>1. (s \o b)[Len(s) + i - r] = b[i - r]
    BY <1>2, <1>3, HeadsPositive
  <2> QED
    BY <2>1, <1>2, <1>3, HeadsPositive DEF Prev, Token
<1>4. CASE i <= r
  <2> DEFINE k == NGram - 1 - (r - i)
  <2>1. k \in 1..(NGram - 1) /\ Len(s) - (NGram - 1) + k = Len(s) + i - r
    BY <1>2, <1>4, HeadsPositive
  <2>2. h[k] = Token(s, Len(s) + i - r)
    BY <2>1 DEF Window
  <2>3. Prev(h, b, i, r) = h[k]
    BY <1>1, <1>2, <1>4, HeadsPositive DEF Prev
  <2>4. Token(s, Len(s) + i - r) = Token(s \o b, Len(s) + i - r)
    <3>1. Len(s) + i - r <= Len(s)
      BY <1>2, <1>4, HeadsPositive
    <3> QED
      BY <3>1, <1>2, HeadsPositive DEF Token
  <2> QED
    BY <2>2, <2>3, <2>4
<1> QED
  BY <1>3, <1>4, HeadsPositive

(* The window is the one of a single pass. *)
LEMMA CtxIs ==
    ASSUME NEW s \in Seq(Tokens), NEW b \in Seq(Tokens), NEW i \in 1..Len(b)
    PROVE  Ctx(Window(s), b, i) = SinglePass(s \o b, Len(s) + i)
<1> DEFINE h == Window(s)
           all == s \o b
           p == Len(s) + i
           cut(x) == \E r \in 1..x : Prev(h, b, i, r) = Eos
           c(x) == IF x = 1 THEN b[i] ELSE IF cut(x - 1) THEN Eos ELSE Prev(h, b, i, x - 1)
           gone(x) == p - x + 1 < 1 \/ \E e \in (p - x + 1)..(p - 1) : all[e] = Eos
           d(x) == IF gone(x) THEN Eos ELSE all[p - x + 1]
<1>1. Len(s) \in Nat /\ Len(b) \in Nat /\ p \in Nat /\ p >= 1 /\ NGram \in Nat
  BY HeadsPositive
<1>2. all[p] = b[i]
  BY <1>1
<1>3. \A r \in 1..(NGram - 1) : Prev(h, b, i, r) = Token(all, p - r)
  BY PrevIs
<1> HIDE DEF all, h
<1>4. ASSUME NEW x \in 1..NGram PROVE c(x) = d(x)
  <2>1. CASE x = 1
    BY <2>1, <1>1, <1>2
  <2>2. CASE x > 1
    <3>1. \A r \in 1..(x - 1) : Prev(h, b, i, r) = Token(all, p - r)
      BY <1>1, <1>3, <2>2
    <3>2. cut(x - 1) => gone(x)
      <4> SUFFICES ASSUME NEW r \in 1..(x - 1), Token(all, p - r) = Eos PROVE gone(x)
        BY <3>1
      <4>1. CASE p - r < 1
        BY <4>1, <1>1, <2>2
      <4>2. CASE p - r >= 1
        <5>1. all[p - r] = Eos /\ p - r \in (p - x + 1)..(p - 1)
          BY <4>2, <1>1, <2>2 DEF Token
        <5> QED
          BY <5>1
      <4> QED
        BY <4>1, <4>2, <1>1
    <3>3. gone(x) => cut(x - 1)
      <4>1. CASE p - x + 1 < 1
        <5>1. x - 1 \in 1..(x - 1) /\ p - (x - 1) < 1
          BY <4>1, <1>1, <2>2
        <5>2. Prev(h, b, i, x - 1) = Eos
          BY <5>1, <3>1 DEF Token
        <5> QED
          BY <5>1, <5>2
      <4>2. ASSUME NEW e \in (p - x + 1)..(p - 1), all[e] = Eos, p - x + 1 >= 1 PROVE cut(x - 1)
        <5>1. p - e \in 1..(x - 1) /\ p - (p - e) = e /\ e >= 1
          BY <4>2, <1>1, <2>2
        <5>2. Prev(h, b, i, p - e) = Eos
          BY <5>1, <3>1, <4>2 DEF Token
        <5> QED
          BY <5>1, <5>2
      <4> QED
        BY <4>1, <4>2, <1>1
    <3>4. ~gone(x) => Prev(h, b, i, x - 1) = all[p - x + 1]
      <4>1. x - 1 \in 1..(x - 1) /\ p - (x - 1) = p - x + 1
        BY <1>1, <2>2
      <4> QED
        BY <4>1, <3>1 DEF Token
    <3> HIDE DEF cut, gone
    <3> QED
      BY <3>2, <3>3, <3>4, <2>2
  <2> QED
    BY <2>1, <2>2, <1>1
<1>5. [x \in 1..NGram |-> c(x)] = [x \in 1..NGram |-> d(x)]
  <2> HIDE DEF c, d
  <2> QED
    BY <1>4
<1>6. Ctx(h, b, i) = [x \in 1..NGram |-> c(x)]
  BY Zenon DEF Ctx
<1>7. SinglePass(all, p) = [x \in 1..NGram |-> d(x)]
  BY Zenon DEF SinglePass
<1> QED
  BY <1>5, <1>6, <1>7, Zenon DEF all, h

LEMMA CtxTyped ==
    ASSUME NEW s \in Seq(Tokens), NEW b \in Seq(Tokens), NEW i \in 1..Len(b)
    PROVE  /\ Ctx(Window(s), b, i) \in [1..NGram -> Tokens]
           /\ \A x \in 1..(NGram - 1) : Window(s)[x] \in Tokens
           /\ Window(s) \in Seq(Tokens)
<1> DEFINE h == Window(s)
           all == s \o b
           p == Len(s) + i
<1>1. Len(s) \in Nat /\ Len(b) \in Nat /\ p \in Nat /\ p >= 1 /\ NGram \in Nat /\ NGram >= 2 /\ Eos \in Tokens
  BY HeadsPositive, NgramAssumption
<1>2. all \in Seq(Tokens) /\ p <= Len(all)
  BY <1>1
<1> HIDE DEF all
<1>3. ASSUME NEW x \in 1..NGram PROVE SinglePass(all, p)[x] \in Tokens
  <2>1. p - x + 1 >= 1 => all[p - x + 1] \in Tokens
    BY <1>1, <1>2
  <2> QED
    BY <2>1, <1>1 DEF SinglePass
<1>4. SinglePass(all, p) = [x \in 1..NGram |-> SinglePass(all, p)[x]]
  BY DEF SinglePass
<1>5. SinglePass(all, p) \in [1..NGram -> Tokens]
  BY <1>3, <1>4
<1>6. ASSUME NEW x \in 1..(NGram - 1) PROVE h[x] \in Tokens
  <2>1. Len(s) - (NGram - 1) + x >= 1 => s[Len(s) - (NGram - 1) + x] \in Tokens
    BY <1>1
  <2> QED
    BY <2>1, <1>1 DEF Window, Token
<1>7. h \in [1..(NGram - 1) -> Tokens]
  BY <1>6 DEF Window
<1>8. h \in Seq(Tokens)
  <2> HIDE DEF h
  <2> QED
    BY <1>7, <1>1
<1> QED
  BY <1>5, <1>6, <1>8, CtxIs DEF all

(* hash_rows on the history of s names the rows of one pass over s and b.  *)
LEMMA HashRowsOK ==
    ASSUME NEW s \in Seq(Tokens), NEW b \in Seq(Tokens), b # <<>>
    PROVE  LET rows == hash_rows(Window(s), b)
           IN  /\ rows \in Seq(Nat)
               /\ \A i \in DOMAIN b, hi \in 1..Heads :
                    rows[(i - 1) * Heads + hi] =
                      Hash(hi, SubSeq(SinglePass(s \o b, Len(s) + i), 1, GramOf(hi)))
<1> DEFINE h == Window(s)
           rows == hash_rows(h, b)
           n == Len(b) * Heads
           row(i, hi) == Hash(hi, SubSeq(Ctx(h, b, i), 1, GramOf(hi)))
<1>1. Heads \in Nat \ {0} /\ Len(b) \in Nat \ {0} /\ DOMAIN b = 1..Len(b)
  BY HeadsPositive
<1>2. n \in Nat
  BY <1>1
<1>3. rows = [x \in 1..n |-> row(1 + ((x - 1) \div Heads), 1 + ((x - 1) % Heads))]
  BY Zenon DEF hash_rows
<1>4. ASSUME NEW i \in 1..Len(b), NEW hi \in 1..Heads
      PROVE  row(i, hi) \in Nat /\ row(i, hi) = Hash(hi, SubSeq(SinglePass(s \o b, Len(s) + i), 1, GramOf(hi)))
  <2>1. Ctx(h, b, i) \in [1..NGram -> Tokens] /\ GramOf(hi) \in 2..NGram
    BY CtxTyped, GramBounds
  <2> DEFINE c == Ctx(h, b, i)
             g == GramOf(hi)
  <2>2. NGram \in Nat
    BY HeadsPositive
  <2>3. SubSeq(c, 1, g) \in [1..g -> Tokens]
    <3> HIDE DEF c, g
    <3>1. c \in [1..NGram -> Tokens] /\ g \in 2..NGram /\ c \in Seq(Tokens) /\ Len(c) = NGram
      BY <2>1, <2>2 DEF c, g
    <3>2. SubSeq(c, 1, g) = [x \in 1..g |-> c[x]]
      BY <3>1, <2>2
    <3>3. \A x \in 1..g : c[x] \in Tokens
      BY <3>1, <2>2
    <3> QED
      BY <3>2, <3>3
  <2>4. Hash(hi, SubSeq(c, 1, g)) \in Nat
    <3> HIDE DEF c
    <3> QED
      BY <2>3, NgramAssumption
  <2> QED
    BY <2>4, CtxIs
<1>5. ASSUME NEW i \in 1..Len(b), NEW hi \in 1..Heads
      PROVE  /\ (i - 1) * Heads + hi \in 1..n
             /\ rows[(i - 1) * Heads + hi] = row(i, hi)
  <2>1. i - 1 \in Nat /\ hi - 1 \in 0..(Heads - 1)
    BY <1>1
  <2> DEFINE x == (i - 1) * Heads + hi
  <2>2. x - 1 = (i - 1) * Heads + (hi - 1)
    BY <1>1
  <2>3. (x - 1) \div Heads = i - 1 /\ (x - 1) % Heads = hi - 1
    BY <2>1, <2>2, <1>1, Quotient
  <2>4. x \in 1..n
    <3>1. Len(b) * Heads - (i - 1) * Heads = (Len(b) - (i - 1)) * Heads
      BY <1>1
    <3> DEFINE k == Len(b) - (i - 1)
    <3>2. k \in Nat \ {0}
      BY <1>1
    <3>3. ASSUME NEW u \in Nat \ {0}, NEW v \in Nat \ {0} PROVE u * v >= v
      OBVIOUS
    <3> HIDE DEF k
    <3>4. k * Heads >= Heads
      BY <3>2, <3>3, <1>1
    <3>5. (i - 1) * Heads \in Nat
      BY <2>1, <1>1
    <3> QED
      BY <3>1, <3>4, <3>5, <1>1 DEF k
  <2> HIDE DEF x, row, n, rows
  <2>5. rows[x] = row(1 + ((x - 1) \div Heads), 1 + ((x - 1) % Heads))
    BY <2>4, <1>3
  <2>6. 1 + (i - 1) = i /\ 1 + (hi - 1) = hi
    BY <1>1
  <2>7. rows[x] = row(i, hi)
    BY <2>3, <2>5, <2>6
  <2> QED
    BY <2>4, <2>7 DEF x
<1>6. ASSUME NEW x \in 1..n PROVE rows[x] \in Nat
  <2> DEFINE i == 1 + ((x - 1) \div Heads)
             hi == 1 + ((x - 1) % Heads)
  <2>1. i \in 1..Len(b) /\ hi \in 1..Heads
    <3> DEFINE q == (x - 1) \div Heads
               m == (x - 1) % Heads
    <3>1. x - 1 \in Nat /\ x - 1 < Len(b) * Heads
      BY <1>1, <1>2
    <3>2. q \in Int /\ m \in 0..(Heads - 1) /\ x - 1 = Heads * q + m
      BY <1>1, <3>1
    <3> HIDE DEF q, m
    <3>3. q >= 0
      <4>1. q <= -1 => Heads * q <= -Heads
        BY <1>1, <3>2
      <4> QED
        BY <4>1, <1>1, <3>1, <3>2
    <3>4. q < Len(b)
      <4>1. q >= Len(b) => Heads * q >= Len(b) * Heads
        BY <1>1, <3>2
      <4>2. Heads * q \in Int /\ Len(b) * Heads \in Int
        BY <1>1, <3>2
      <4> QED
        BY <4>1, <4>2, <1>1, <3>1, <3>2
    <3>5. 1 + q \in 1..Len(b) /\ 1 + m \in 1..Heads
      BY <3>2, <3>3, <3>4, <1>1
    <3> QED
      BY <3>5 DEF q, m
  <2>2. rows[x] = row(i, hi)
    <3> HIDE DEF row, rows
    <3> QED
      BY <1>3
  <2> HIDE DEF i, hi, row, rows
  <2> QED
    BY <2>1, <2>2, <1>4
<1>7. rows \in Seq(Nat)
  <2>1. rows \in [1..n -> Nat]
    <3> HIDE DEF row, rows
    <3> QED
      BY <1>3, <1>6
  <2> HIDE DEF rows, n
  <2> QED
    BY <2>1, <1>2
<1> HIDE DEF row, rows
<1>8. \A i \in DOMAIN b, hi \in 1..Heads :
         rows[(i - 1) * Heads + hi] = Hash(hi, SubSeq(SinglePass(s \o b, Len(s) + i), 1, GramOf(hi)))
  BY <1>1, <1>4, <1>5
<1> QED
  BY <1>7, <1>8 DEF rows

(* What is carried over is the window of the longer sequence. *)
LEMMA CarriedIs ==
    ASSUME NEW s \in Seq(Tokens), NEW b \in Seq(Tokens)
    PROVE  Carried(Window(s), b) = Window(s \o b)
<1> DEFINE h == Window(s)
           all == h \o b
           c == Carried(h, b)
<1>1. Len(s) \in Nat /\ Len(b) \in Nat /\ NGram \in Nat /\ NGram >= 2
  BY HeadsPositive
<1>2. Len(h) = NGram - 1 /\ DOMAIN h = 1..(NGram - 1)
  BY <1>1 DEF Window
<1>3. h \in Seq(Tokens)
  <2>1. ASSUME NEW x \in 1..(NGram - 1) PROVE h[x] \in Tokens
    <3>1. Len(s) - (NGram - 1) + x >= 1 => s[Len(s) - (NGram - 1) + x] \in Tokens
      BY <1>1
    <3> QED
      BY <3>1, <1>1, NgramAssumption DEF Window, Token
  <2>2. h \in [1..(NGram - 1) -> Tokens]
    BY <2>1 DEF Window
  <2> HIDE DEF h
  <2> QED
    BY <2>2, <1>1
<1> HIDE DEF h
<1>4. all \in Seq(Tokens) /\ Len(all) = NGram - 1 + Len(b)
  BY <1>1, <1>2, <1>3
<1>5. c = SubSeq(all, Len(b) + 1, NGram - 1 + Len(b))
  <2>1. c = SubSeq(all, Len(all) - (NGram - 1) + 1, Len(all))
    BY DEF Carried
  <2> HIDE DEF all, c
  <2> QED
    BY <2>1, <1>1, <1>4
<1> DEFINE sb == s \o b
<1>6. ASSUME NEW x \in 1..(NGram - 1) PROVE all[Len(b) + x] = Window(sb)[x]
  <2> DEFINE q == Len(s) + Len(b) - (NGram - 1) + x
  <2>1. /\ Len(sb) = Len(s) + Len(b)
        /\ \A y \in 1..Len(s) : sb[y] = s[y]
        /\ \A y \in 1..Len(b) : sb[Len(s) + y] = b[y]
    OBVIOUS
  <2> HIDE DEF sb
  <2>2. Window(sb)[x] = Token(sb, q)
    <3> DEFINE w(y) == Token(sb, Len(sb) - (NGram - 1) + y)
    <3>1. Window(sb) = [y \in 1..(NGram - 1) |-> w(y)]
      BY Zenon DEF Window
    <3>2. Len(sb) - (NGram - 1) + x = q
      BY <2>1, <1>1
    <3>3. w(x) = Token(sb, q)
      BY <3>2, Zenon
    <3> HIDE DEF w
    <3> QED
      BY <3>1, <3>3
  <2> HIDE DEF q
  <2>3. CASE Len(b) + x > NGram - 1
    <3>1. all[Len(b) + x] = b[Len(b) + x - (NGram - 1)]
      BY <2>3, <1>1, <1>2, <1>3
    <3>2. q = Len(s) + (Len(b) + x - (NGram - 1)) /\ Len(b) + x - (NGram - 1) \in 1..Len(b)
      BY <2>3, <1>1 DEF q
    <3>3. sb[q] = b[Len(b) + x - (NGram - 1)]
      BY <2>1, <3>2, Zenon
    <3>4. ~(q < 1)
      BY <3>2, <1>1
    <3> HIDE DEF all
    <3> QED
      BY <2>2, <3>1, <3>3, <3>4, Zenon DEF Token
  <2>4. CASE Len(b) + x <= NGram - 1
    <3>1. all[Len(b) + x] = h[Len(b) + x] /\ Len(b) + x \in 1..(NGram - 1)
      BY <2>4, <1>1, <1>2, <1>3
    <3>2. h[Len(b) + x] = Token(s, Len(s) - (NGram - 1) + (Len(b) + x))
      BY <3>1 DEF h, Window
    <3>3. Len(s) - (NGram - 1) + (Len(b) + x) = q /\ q <= Len(s) /\ q \in Int
      BY <2>4, <1>1 DEF q
    <3>4. Token(s, q) = Token(sb, q)
      BY <3>3, <1>1, <2>1 DEF Token
    <3> HIDE DEF all
    <3> QED
      BY <2>2, <3>1, <3>2, <3>3, <3>4
  <2> HIDE DEF all
  <2> QED
    BY <2>3, <2>4, <1>1
<1>7. c \in Seq(Tokens) /\ Len(c) = NGram - 1 /\ \A x \in 1..(NGram - 1) : c[x] = all[Len(b) + x]
  <2> HIDE DEF all, c
  <2> QED
    BY <1>1, <1>4, <1>5
<1>8. Window(sb) = [x \in 1..(NGram - 1) |-> Window(sb)[x]]
  BY DEF Window
<1>9. c = [x \in 1..(NGram - 1) |-> c[x]]
  <2> HIDE DEF c
  <2> QED
    BY <1>7, <1>1
<1> HIDE DEF c, all, sb
<1>10. c = Window(sb)
  BY <1>6, <1>7, <1>8, <1>9
<1> QED
  BY <1>10 DEF c, h, sb

(* A history of the full length needs no padding, and none is all padding. *)
LEMMA PaddedIs ==
    /\ Padded(<<>>) = Window(<<>>)
    /\ \A s \in Seq(Tokens) : Padded(Window(s)) = Window(s)
<1>1. NGram \in Nat /\ NGram >= 2
  BY HeadsPositive
<1>2. Padded(<<>>) = Window(<<>>)
  <2> DEFINE e == [i \in 1..(NGram - 1) |-> Eos]
  <2>1. Padded(<<>>) = e
    <3>1. NGram - 1 - Len(<<>>) = NGram - 1
      BY <1>1
    <3>2. e \in Seq({Eos})
      BY <1>1
    <3> HIDE DEF e
    <3>3. e \o <<>> = e
      BY <3>2
    <3> QED
      BY <3>1, <3>3, Zenon DEF Padded, e
  <2>2. \A i \in 1..(NGram - 1) : Token(<<>>, Len(<<>>) - (NGram - 1) + i) = Eos
    BY <1>1 DEF Token
  <2> QED
    BY <2>1, <2>2 DEF Window
<1>3. ASSUME NEW s \in Seq(Tokens) PROVE Padded(Window(s)) = Window(s)
  <2> DEFINE h == Window(s)
             e == [i \in 1..(NGram - 1 - Len(h)) |-> Eos]
  <2>1. Len(h) = NGram - 1 /\ DOMAIN h = 1..(NGram - 1)
    BY <1>1 DEF Window
  <2>2. h = [i \in 1..(NGram - 1) |-> h[i]]
    BY DEF Window
  <2> HIDE DEF h
  <2>3. h \in Seq({h[i] : i \in 1..(NGram - 1)})
    BY <2>1, <2>2, <1>1, SMTT(40)
  <2>4. e = <<>>
    BY <2>1, <1>1
  <2> HIDE DEF e
  <2>5. e \o h = h
    BY <2>3, <2>4
  <2> QED
    BY <2>5, Zenon DEF Padded, e, h
<1> QED
  BY <1>2, <1>3

-----------------------------------------------------------------------------
(* The row cache *)

LEMMA ToFrontIs ==
    ASSUME NEW l \in Seq(Nat), NEW i \in 1..Len(l)
    PROVE  LET m == ToFront(l, i)
           IN  /\ m \in Seq(Nat) /\ Len(m) = Len(l)
               /\ m[1] = l[i]
               /\ \A k \in 2..i : m[k] = l[k - 1]
               /\ \A k \in (i + 1)..Len(l) : m[k] = l[k]
<1> DEFINE a == SubSeq(l, 1, i - 1)
           b == SubSeq(l, i + 1, Len(l))
           m == <<l[i]>> \o (a \o b)
<1>1. i \in 1..Len(l) /\ Len(l) \in Nat /\ l[i] \in Nat
  OBVIOUS
<1>2. a \in Seq(Nat) /\ Len(a) = i - 1 /\ \A k \in 1..(i - 1) : a[k] = l[k]
  BY <1>1
<1>3. b \in Seq(Nat) /\ Len(b) = Len(l) - i /\ \A k \in 1..(Len(l) - i) : b[k] = l[k + i]
  <2>1. b \in Seq(Nat) /\ Len(b) = Len(l) - i
    BY <1>1
  <2>2. \A k \in (i + 1)..Len(l) : l[k] \in Nat
    BY <1>1
  <2>3. ASSUME NEW k \in 1..(Len(l) - i) PROVE b[k] = l[k + i]
    <3>1. i + 1 + k - 1 = k + i /\ k \in 1..(Len(l) - (i + 1) + 1) /\ i + 1 \in Int /\ Len(l) \in Int
      BY <1>1
    <3>2. b[k] = l[i + 1 + k - 1]
      BY <2>2, <3>1, SubSeqProperties
    <3> HIDE DEF b
    <3> QED
      BY <3>1, <3>2
  <2> HIDE DEF b
  <2> QED
    BY <2>1, <2>3
<1> HIDE DEF a, b
<1> DEFINE c == a \o b
<1>4. c \in Seq(Nat) /\ Len(c) = Len(l) - 1
  <2>1. c \in Seq(Nat) /\ Len(c) = Len(a) + Len(b)
    BY <1>2, <1>3, ConcatProperties
  <2> HIDE DEF c
  <2> QED
    BY <2>1, <1>1, <1>2, <1>3
<1>5. \A k \in 1..(i - 1) : c[k] = l[k]
  BY <1>1, <1>2, <1>3
<1>6. \A k \in i..(Len(l) - 1) : c[k] = l[k + 1]
  <2> TAKE k \in i..(Len(l) - 1)
  <2>1. c[k] = b[k - (i - 1)]
    <3>1. k \in 1..(Len(a) + Len(b)) /\ k > Len(a) /\ k - Len(a) = k - (i - 1)
      BY <1>1, <1>2, <1>3
    <3>2. ~(k <= Len(a))
      BY <3>1, <1>1, <1>2
    <3>3. c[k] = b[k - Len(a)]
      BY <3>1, <3>2, <1>2, <1>3, ConcatProperties
    <3> HIDE DEF c
    <3> QED
      BY <3>1, <3>3
  <2>2. k - (i - 1) \in 1..(Len(l) - i) /\ k - (i - 1) + i = k + 1
    BY <1>1
  <2>3. b[k - (i - 1)] = l[k + 1]
    BY <2>2, <1>3
  <2> HIDE DEF c
  <2> QED
    BY <2>1, <2>3
<1> HIDE DEF c
<1> DEFINE d == <<l[i]>> \o c
<1>7. /\ d \in Seq(Nat) /\ Len(d) = Len(l) /\ d[1] = l[i]
      /\ \A k \in 2..Len(l) : d[k] = c[k - 1]
  BY <1>1, <1>4
<1>8. d = ToFront(l, i)
  BY Zenon DEF d, c, a, b, ToFront, RemoveAt
<1> HIDE DEF d
<1>9. \A k \in 2..i : d[k] = l[k - 1]
  <2> TAKE k \in 2..i
  <2>1. k \in 2..Len(l) /\ k - 1 \in 1..(i - 1)
    BY <1>1
  <2> QED
    BY <2>1, <1>5, <1>7
<1>10. \A k \in (i + 1)..Len(l) : d[k] = l[k]
  <2> TAKE k \in (i + 1)..Len(l)
  <2>1. k \in 2..Len(l) /\ k - 1 \in i..(Len(l) - 1) /\ (k - 1) + 1 = k
    BY <1>1
  <2> QED
    BY <2>1, <1>6, <1>7
<1> QED
  BY <1>7, <1>8, <1>9, <1>10

LEMMA ToFrontLists ==
    ASSUME NEW l, NEW E, Lists(l, E), NEW i \in 1..Len(l)
    PROVE  Lists(ToFront(l, i), E) /\ Len(ToFront(l, i)) = Len(l)
<1>1. l \in Seq(Nat) /\ Len(l) \in Nat
  BY DEF Lists
<1> DEFINE m == ToFront(l, i)
<1>2. /\ m \in Seq(Nat) /\ Len(m) = Len(l)
      /\ m[1] = l[i]
      /\ \A k \in 2..i : m[k] = l[k - 1]
      /\ \A k \in (i + 1)..Len(l) : m[k] = l[k]
  BY <1>1, ToFrontIs
<1> HIDE DEF m
(* Where an entry of the new order was, and where one of the old order is. *)
<1> DEFINE old(k) == IF k = 1 THEN i ELSE IF k <= i THEN k - 1 ELSE k
           new(k) == IF k = i THEN 1 ELSE IF k < i THEN k + 1 ELSE k
<1>4. ASSUME NEW k \in 1..Len(l) PROVE old(k) \in 1..Len(l) /\ m[k] = l[old(k)] /\ new(old(k)) = k
  <2>1. CASE k = 1
    BY <2>1, <1>1, <1>2
  <2>2. CASE k \in 2..i
    <3>1. old(k) = k - 1 /\ k - 1 \in 1..Len(l) /\ k - 1 < i /\ k - 1 # i
      BY <2>2, <1>1
    <3>2. m[k] = l[k - 1]
      BY <2>2, <1>2
    <3>3. new(k - 1) = k
      BY <3>1, <2>2, <1>1
    <3> HIDE DEF old, new
    <3> QED
      BY <3>1, <3>2, <3>3
  <2>3. CASE k \in (i + 1)..Len(l)
    BY <2>3, <1>1, <1>2
  <2> QED
    BY <2>1, <2>2, <2>3, <1>1
<1>5. ASSUME NEW k \in 1..Len(l) PROVE new(k) \in 1..Len(l) /\ old(new(k)) = k
  BY <1>1
<1>6. ASSUME NEW k \in 1..Len(l) PROVE m[new(k)] = l[k]
  BY <1>4, <1>5
<1> HIDE DEF old, new
<1>7. \A k \in 1..Len(l) : m[k] \in E
  BY <1>4 DEF Lists
<1>8. \A r \in E : \E k \in 1..Len(l) : m[k] = r
  <2> TAKE r \in E
  <2>1. PICK k \in 1..Len(l) : l[k] = r
    BY DEF Lists
  <2> QED
    BY <2>1, <1>5, <1>6
<1>9. \A j, k \in 1..Len(l) : m[j] = m[k] => j = k
  <2> SUFFICES ASSUME NEW j \in 1..Len(l), NEW k \in 1..Len(l), m[j] = m[k] PROVE j = k
    OBVIOUS
  <2>1. old(j) = old(k)
    <3>1. \A x, y \in 1..Len(l) : l[x] = l[y] => x = y
      BY DEF Lists
    <3>2. old(j) \in 1..Len(l) /\ old(k) \in 1..Len(l) /\ l[old(j)] = l[old(k)]
      BY <1>4
    <3> QED
      BY <3>1, <3>2
  <2>2. new(old(j)) = j /\ new(old(k)) = k
    BY <1>4
  <2> QED
    BY <2>1, <2>2
<1>10. Lists(m, E)
  BY <1>2, <1>7, <1>8, <1>9 DEF Lists
<1> QED
  BY <1>2, <1>10 DEF m

LEMMA PushLists ==
    ASSUME NEW l, NEW E, Lists(l, E), NEW row \in Nat, row \notin E
    PROVE  Lists(<<row>> \o l, E \cup {row}) /\ Len(<<row>> \o l) = Len(l) + 1
<1> DEFINE m == <<row>> \o l
           n == Len(l)
<1>1. l \in Seq(Nat) /\ n \in Nat
  BY DEF Lists
<1>2. m \in Seq(Nat) /\ Len(m) = n + 1 /\ m[1] = row /\ \A k \in 2..(n + 1) : m[k] = l[k - 1]
  BY <1>1
<1>3. /\ \A i \in 1..n : l[i] \in E
      /\ \A r \in E : \E i \in 1..n : l[i] = r
      /\ \A i, j \in 1..n : l[i] = l[j] => i = j
  BY DEF Lists
<1> HIDE DEF m, n
<1>4. ASSUME NEW k \in 1..(n + 1) PROVE k = 1 \/ (k \in 2..(n + 1) /\ k - 1 \in 1..n)
  BY <1>1
<1>5. \A k \in 1..(n + 1) : m[k] \in E \cup {row}
  BY <1>2, <1>3, <1>4
<1>6. \A r \in E \cup {row} : \E k \in 1..(n + 1) : m[k] = r
  <2>1. 1 \in 1..(n + 1)
    BY <1>1
  <2>2. ASSUME NEW r \in E PROVE \E k \in 1..(n + 1) : m[k] = r
    <3>1. PICK j \in 1..n : l[j] = r
      BY <1>3
    <3>2. j + 1 \in 2..(n + 1) /\ (j + 1) - 1 = j /\ j + 1 \in 1..(n + 1)
      BY <1>1
    <3> QED
      BY <3>1, <3>2, <1>2
  <2> QED
    BY <2>1, <2>2, <1>2
<1>7. \A j, k \in 1..(n + 1) : m[j] = m[k] => j = k
  <2> SUFFICES ASSUME NEW j \in 1..(n + 1), NEW k \in 1..(n + 1), m[j] = m[k] PROVE j = k
    OBVIOUS
  <2>1. CASE j = 1
    BY <2>1, <1>2, <1>3, <1>4
  <2>2. CASE k = 1
    BY <2>2, <1>2, <1>3, <1>4
  <2>3. CASE j # 1 /\ k # 1
    <3>1. j \in 2..(n + 1) /\ j - 1 \in 1..n /\ k \in 2..(n + 1) /\ k - 1 \in 1..n
      BY <2>3, <1>4
    <3>2. j - 1 = k - 1
      BY <3>1, <1>2, <1>3
    <3> QED
      BY <3>1, <3>2, <1>1
  <2> QED
    BY <2>1, <2>2, <2>3
<1>8. Lists(m, E \cup {row})
  BY <1>2, <1>5, <1>6, <1>7 DEF Lists
<1> QED
  BY <1>2, <1>8 DEF m, n

LEMMA FrontLists ==
    ASSUME NEW l, NEW E, Lists(l, E), l # <<>>
    PROVE  /\ Last(l) \in E
           /\ Lists(Front(l), E \ {Last(l)}) /\ Len(Front(l)) = Len(l) - 1
<1> DEFINE n == Len(l)
           m == SubSeq(l, 1, n - 1)
           v == l[n]
<1>1. l \in Seq(Nat) /\ n \in Nat /\ n >= 1
  BY DEF Lists
<1>2. m \in Seq(Nat) /\ Len(m) = n - 1 /\ \A k \in 1..(n - 1) : m[k] = l[k]
  <2>1. n = Len(l)
    OBVIOUS
  <2> HIDE DEF n
  <2> QED
    BY <1>1, <2>1
<1>3. /\ \A i \in 1..n : l[i] \in E
      /\ \A r \in E : \E i \in 1..n : l[i] = r
      /\ \A i, j \in 1..n : l[i] = l[j] => i = j
  BY DEF Lists
<1> HIDE DEF m, n
<1>4. n \in 1..n /\ \A k \in 1..(n - 1) : k \in 1..n /\ k # n
  BY <1>1
<1>5. \A k \in 1..(n - 1) : m[k] \in E \ {v}
  BY <1>2, <1>3, <1>4
<1>6. \A r \in E \ {v} : \E k \in 1..(n - 1) : m[k] = r
  <2> TAKE r \in E \ {v}
  <2>1. PICK i \in 1..n : l[i] = r
    BY <1>3
  <2>2. i \in 1..(n - 1)
    BY <2>1, <1>1
  <2> QED
    BY <2>1, <2>2, <1>2
<1>7. \A j, k \in 1..(n - 1) : m[j] = m[k] => j = k
  BY <1>2, <1>3, <1>4
<1>8. Lists(m, E \ {v})
  BY <1>2, <1>5, <1>6, <1>7 DEF Lists
<1>9. m = Front(l) /\ v = Last(l)
  BY DEF m, n, Front, Last
<1> QED
  BY <1>2, <1>3, <1>4, <1>8, <1>9 DEF n

(* A hit changes the order only. *)
LEMMA HitKeeps ==
    ASSUME CacheInv, NEW i \in DOMAIN lru, lru' = ToFront(lru, i), UNCHANGED <<cap, index, data>>
    PROVE  CacheInv'
<1>1. i \in 1..Len(lru) /\ Lists(lru, DOMAIN index)
  BY DEF CacheInv, Lists
<1>2. Lists(lru', DOMAIN index') /\ Len(lru') = Cardinality(DOMAIN index')
  BY <1>1, ToFrontLists DEF CacheInv
<1>3. index' = index /\ data' = data /\ cap' = cap
  OBVIOUS
<1> QED
  BY <1>2, <1>3 DEF CacheInv

(* Index and memory name the rows of E, at places up to n. *)
Placed(f, d, c, E, n) ==
    /\ DOMAIN f = E
    /\ d \in [1..c -> Int]
    /\ \A r \in E : f[r] \in 1..n /\ d[f[r]] = r
    /\ f = [r \in DOMAIN f |-> f[r]]

(* A row takes place p, which no row of the set E has. *)
LEMMA PlaceRow ==
    ASSUME NEW E, NEW f, NEW n \in Nat, NEW row \in Nat, NEW p \in 1..n, n <= cap, cap \in Nat,
           data \in [1..cap -> Int], row \notin E,
           \A r \in E : f[r] \in 1..n /\ f[r] # p /\ data[f[r]] = r,
           cap' = cap, data' = [data EXCEPT ![p] = row],
           index' = [r \in E \cup {row} |-> IF r = row THEN p ELSE f[r]]
    PROVE  Placed(index', data', cap', E \cup {row}, n)
<1>1. DOMAIN index' = E \cup {row} /\ p \in 1..cap
  OBVIOUS
<1>2. data' \in [1..cap' -> Int] /\ data'[p] = row
  BY <1>1
<1>3. ASSUME NEW r \in E PROVE index'[r] \in 1..n /\ data'[index'[r]] = r
  <2>1. index'[r] = f[r] /\ f[r] \in 1..cap /\ f[r] # p /\ f[r] \in 1..n /\ data[f[r]] = r
    OBVIOUS
  <2> QED
    BY <2>1
<1>4. index'[row] = p
  OBVIOUS
<1>5. index' = [r \in DOMAIN index' |-> index'[r]]
  BY <1>1
<1> QED
  BY <1>1, <1>2, <1>3, <1>4, <1>5 DEF Placed

(* insert() of a row that is not cached. *)
LEMMA InsertKeeps ==
    ASSUME CacheInv, cap \in Nat, cap' = cap, NEW row \in Nat, row \notin DOMAIN index, Insert(row)
    PROVE  CacheInv' /\ DOMAIN index' \subseteq DOMAIN index \cup {row}
<1> DEFINE D == DOMAIN index
           n == Cardinality(D)
<1>1. /\ n \in Nat /\ IsFiniteSet(D) /\ D \subseteq Nat /\ n <= cap
      /\ Lists(lru, D) /\ Len(lru) = n /\ data \in [1..cap -> Int]
      /\ \A r \in D : index[r] \in 1..n /\ data[index[r]] = r
  BY FS_CardinalityType DEF CacheInv
<1>2. CASE cap = 0
  <2>1. index' = index /\ lru' = lru /\ data' = data
    BY <1>2 DEF Insert
  <2> QED
    BY <2>1 DEF CacheInv
<1>3. CASE cap # 0 /\ ~(n >= cap)
  <2> DEFINE p == n + 1
  <2>1. /\ data' = [data EXCEPT ![p] = row] /\ lru' = <<row>> \o lru
        /\ index' = [r \in D \cup {row} |-> IF r = row THEN p ELSE index[r]]
    BY <1>3 DEF Insert
  <2>2. p \in Nat /\ p \in 1..p /\ p <= cap
    <3> HIDE DEF n
    <3> QED
      BY <1>1, <1>3
  <2>3. \A r \in D : index[r] \in 1..p /\ index[r] # p /\ data[index[r]] = r
    <3> HIDE DEF n, D
    <3> QED
      BY <1>1
  <2>4. IsFiniteSet(D \cup {row}) /\ Cardinality(D \cup {row}) = p
    BY <1>1, FS_AddElement
  <2>5. Lists(lru', D \cup {row}) /\ Len(lru') = p
    <3> HIDE DEF n, D
    <3> QED
      BY <1>1, <2>1, PushLists DEF D
  <2>6. row \notin D
    OBVIOUS
  <2> HIDE DEF n, D, p
  <2>7. Placed(index', data', cap', D \cup {row}, p)
    BY <1>1, <2>1, <2>2, <2>3, <2>6, PlaceRow
  <2>8. D \cup {row} \subseteq Nat
    BY <1>1
  <2>9. CacheInv'
    BY <2>2, <2>4, <2>5, <2>7, <2>8 DEF CacheInv, Placed
  <2> QED
    BY <2>7, <2>9 DEF D, Placed
<1>4. CASE cap # 0 /\ n >= cap
  <2> DEFINE v == Last(lru)
             p == index[v]
             E == D \ {v}
             kept == Without(index, v)
  <2>1. /\ data' = [data EXCEPT ![p] = row] /\ lru' = <<row>> \o Front(lru)
        /\ index' = [r \in DOMAIN kept \cup {row} |-> IF r = row THEN p ELSE kept[r]]
    BY <1>4 DEF Insert
  <2>2. n >= 1 /\ lru # <<>>
    <3> HIDE DEF n
    <3> QED
      BY <1>1, <1>4
  <2>3. v \in D /\ Lists(Front(lru), E) /\ Len(Front(lru)) = n - 1
    <3>1. /\ Last(lru) \in D
          /\ Lists(Front(lru), D \ {Last(lru)}) /\ Len(Front(lru)) = Len(lru) - 1
      <4> HIDE DEF D
      <4> QED
        BY <1>1, <2>2, FrontLists, Zenon
    <3> HIDE DEF n, D
    <3> QED
      BY <3>1, <1>1, Zenon
  <2>4. DOMAIN kept = E /\ \A r \in E : kept[r] = index[r]
    BY DEF Without
  <2>5. IsFiniteSet(E) /\ Cardinality(E) = n - 1 /\ row \notin E /\ E \subseteq Nat
    BY <1>1, <2>3, FS_RemoveElement
  <2>6. IsFiniteSet(E \cup {row}) /\ Cardinality(E \cup {row}) = n
    <3>1. IsFiniteSet(E \cup {row}) /\ Cardinality(E \cup {row}) = (n - 1) + 1
      <4> HIDE DEF n, E
      <4> QED
        BY <2>5, FS_AddElement
    <3> HIDE DEF n, E
    <3> QED
      BY <3>1, <1>1
  <2>7. Lists(lru', E \cup {row}) /\ Len(lru') = n
    <3> DEFINE l == Front(lru)
    <3> HIDE DEF n, E, l
    <3>1. Lists(l, E) /\ Len(l) = n - 1 /\ lru' = <<row>> \o l
      BY <2>1, <2>3 DEF l
    <3>2. Lists(<<row>> \o l, E \cup {row}) /\ Len(<<row>> \o l) = (n - 1) + 1
      BY <3>1, <2>5, PushLists
    <3> QED
      BY <3>1, <3>2, <1>1
  <2>8. p \in 1..n /\ data[p] = v
    BY <1>1, <2>3
  <2>9. \A r \in E : kept[r] \in 1..n /\ kept[r] # p /\ data[kept[r]] = r
    <3> TAKE r \in E
    <3>1. kept[r] = index[r] /\ index[r] \in 1..n /\ data[index[r]] = r /\ r # v
      BY <2>4, <1>1
    <3> HIDE DEF n, p, v, kept
    <3> QED
      BY <3>1, <2>8
  <2>10. index' = [r \in E \cup {row} |-> IF r = row THEN p ELSE kept[r]]
    BY <2>1, <2>4
  <2> HIDE DEF n, D, p, E, v, kept
  <2>11. Placed(index', data', cap', E \cup {row}, n)
    <3>1. data' = [data EXCEPT ![p] = row]
      BY <2>1
    <3>2. n \in Nat /\ n <= cap /\ data \in [1..cap -> Int] /\ p \in 1..n /\ row \notin E
      BY <1>1, <2>5, <2>8
    <3> QED
      BY <3>1, <3>2, <2>9, <2>10, PlaceRow
  <2>12. E \cup {row} \subseteq Nat /\ n <= cap'
    BY <1>1, <2>5
  <2>13. CacheInv'
    BY <2>6, <2>7, <2>11, <2>12 DEF CacheInv, Placed
  <2> QED
    BY <2>11, <2>13 DEF D, E, Placed
<1> QED
  BY <1>2, <1>3, <1>4

-----------------------------------------------------------------------------
(* The steps *)

LEMMA InitKeeps == NInit => NInd
<1> SUFFICES ASSUME NInit PROVE NInd
  OBVIOUS
<1>1. /\ job.pc = "idle" /\ job.batch = <<>> /\ job.rows = <<>> /\ job.out = <<>> /\ job.at = 1
      /\ job.missed = {} /\ job.last = NoRow /\ job.buf = NoRow
      /\ job = [pc |-> job.pc, batch |-> job.batch, rows |-> job.rows, out |-> job.out,
                at |-> job.at, missed |-> job.missed, last |-> job.last, buf |-> job.buf]
  BY DEF NInit, NoJob
<1>2. cap \in Nat /\ mode \in Modes
  BY NgramAssumption DEF NInit
<1>3. NTyped
  BY <1>1, <1>2 DEF NInit, NTyped, JobTyped, Places, NoRow
<1>4. HistOK
  BY <1>1, PaddedIs DEF HistOK, Computing, NInit
<1>5. RowsExact /\ Gathered /\ ReadsOnce
  BY <1>1 DEF RowsExact, Gathered, ReadsOnce
<1>6. CacheInv
  <2>1. DOMAIN index = {} /\ index = [r \in DOMAIN index |-> index[r]]
    BY DEF NInit
  <2>2. IsFiniteSet({}) /\ Cardinality({}) = 0
    BY FS_EmptySet
  <2>3. Lists(<<>>, {})
    BY DEF Lists
  <2>4. data \in [1..cap -> Int]
    BY <1>2 DEF NInit, NoRow
  <2> QED
    BY <1>2, <2>1, <2>2, <2>3, <2>4 DEF CacheInv, NInit
<1> QED
  BY <1>3, <1>4, <1>5, <1>6 DEF NInd

(* Nothing is known of the rows and of the buffer of an idle job. *)
LEMMA NoJobKeeps ==
    ASSUME NEW pc \in {"idle", "failed"},
           job' = [pc |-> pc, batch |-> <<>>, rows |-> <<>>, out |-> <<>>, at |-> 1, missed |-> {},
                   last |-> NoRow, buf |-> NoRow]
    PROVE  JobTyped' /\ job'.pc = pc /\ RowsExact' /\ Gathered' /\ ReadsOnce'
<1> DEFINE e == <<>>
           none == {}
<1> HIDE DEF e, none
<1>2. /\ job'.pc = pc /\ job'.batch = e /\ job'.rows = e /\ job'.out = e /\ job'.at = 1
      /\ job'.missed = none /\ job'.last = NoRow
      /\ job' = [pc |-> job'.pc, batch |-> job'.batch, rows |-> job'.rows, out |-> job'.out,
                 at |-> job'.at, missed |-> job'.missed, last |-> job'.last, buf |-> job'.buf]
  <2>1. job' = [pc |-> pc, batch |-> e, rows |-> e, out |-> e, at |-> 1, missed |-> none,
                last |-> NoRow, buf |-> NoRow]
    BY DEF e, none
  <2>2. /\ job'.pc = pc /\ job'.batch = e /\ job'.rows = e /\ job'.out = e /\ job'.at = 1
        /\ job'.missed = none /\ job'.last = NoRow /\ job'.buf = NoRow
    <3> DEFINE none_row == NoRow
    <3> HIDE DEF none_row
    <3>1. job' = [pc |-> pc, batch |-> e, rows |-> e, out |-> e, at |-> 1, missed |-> none,
                  last |-> none_row, buf |-> none_row]
      BY <2>1 DEF none_row
    <3>2. job'.pc = pc /\ job'.batch = e /\ job'.rows = e /\ job'.out = e
      BY <3>1
    <3>3. job'.at = 1 /\ job'.missed = none
      BY <3>1
    <3>4. job'.last = none_row /\ job'.buf = none_row
      BY <3>1
    <3> QED
      BY <3>2, <3>3, <3>4 DEF none_row
  <2> QED
    BY <2>1, <2>2, Zenon
<1>3. e \in Seq(Tokens) /\ e \in Seq(Nat) /\ e \in Seq(Int) /\ none = {}
  BY DEF e, none
<1>4. JobTyped'
  BY <1>2, <1>3 DEF JobTyped, Places, NoRow
<1>5. RowsExact' /\ Gathered' /\ ReadsOnce'
  BY <1>2 DEF RowsExact, Gathered, ReadsOnce
<1> QED
  BY <1>2, <1>4, <1>5

LEMMA HashRowsStep ==
    ASSUME NInd, HashRows
    PROVE  NInd'
<1>1. PICK b \in Batches :
        /\ LET rows == hash_rows(Padded(hist), b)
           IN  job' = [NoJob EXCEPT !.pc = "gather", !.batch = b, !.rows = rows,
                                    !.out = [i \in DOMAIN rows |-> NoRow]]
        /\ hist' = Carried(Padded(hist), b)
  BY DEF HashRows
<1> DEFINE rows == hash_rows(Padded(hist), b)
           out == [i \in DOMAIN rows |-> NoRow]
<1>2. b \in Seq(Tokens) /\ b # <<>> /\ seq \in Seq(Tokens)
  BY DEF Batches, NInd, NTyped
<1>3. Padded(hist) = Window(seq)
  BY DEF HashRows, NInd, HistOK
<1>4. /\ rows \in Seq(Nat)
      /\ \A i \in DOMAIN b, hi \in 1..Heads :
           rows[(i - 1) * Heads + hi] =
             Hash(hi, SubSeq(SinglePass(seq \o b, Len(seq) + i), 1, GramOf(hi)))
  BY <1>2, <1>3, HashRowsOK
<1>5. job' = [pc |-> "gather", batch |-> b, rows |-> rows, out |-> out, at |-> 1, missed |-> {},
              last |-> NoRow, buf |-> NoRow]
  BY <1>1, Zenon DEF NoJob
<1> HIDE DEF rows
<1>6. out \in Seq(Int) /\ Len(out) = Len(rows)
  BY <1>4 DEF NoRow
<1> HIDE DEF out
<1>7. /\ job'.pc = "gather" /\ job'.batch = b /\ job'.rows = rows /\ job'.out = out /\ job'.at = 1
      /\ job'.missed = {} /\ job'.last = NoRow
      /\ job' = [pc |-> job'.pc, batch |-> job'.batch, rows |-> job'.rows, out |-> job'.out,
                 at |-> job'.at, missed |-> job'.missed, last |-> job'.last, buf |-> job'.buf]
  BY <1>5
<1>8. JobTyped'
  BY <1>2, <1>4, <1>6, <1>7 DEF JobTyped, Places, NoRow
<1>9. UNCHANGED <<mode, cap, seq, index, lru, data>>
  BY DEF HashRows
<1>10. hist' = Window(seq \o b) /\ Window(seq \o b) \in Seq(Tokens)
  <2>1. Carried(Window(seq), b) = Window(seq \o b)
    BY <1>2, CarriedIs
  <2> DEFINE sb == seq \o b
  <2>2. sb \in Seq(Tokens) /\ 1 \in 1..Len(b)
    BY <1>2
  <2> HIDE DEF sb
  <2>3. Window(sb) \in Seq(Tokens)
    BY <1>2, <2>2, CtxTyped
  <2> QED
    BY <1>1, <1>3, <2>1, <2>3 DEF sb
<1>11. NTyped'
  BY <1>8, <1>9, <1>10 DEF NInd, NTyped
<1>12. HistOK'
  <2> DEFINE sb == seq \o b
  <2>1. sb \in Seq(Tokens)
    BY <1>2
  <2>2. Padded(Window(sb)) = Window(sb)
    <3> HIDE DEF sb
    <3> QED
      BY <2>1, PaddedIs
  <2>3. Padded(hist') = Window(seq' \o job'.batch)
    BY <1>7, <1>9, <1>10, <2>2, Zenon
  <2> QED
    BY <1>7, <2>3 DEF HistOK, Computing
<1>13. RowsExact'
  BY <1>4, <1>7, <1>9 DEF RowsExact
<1>14. Gathered' /\ ReadsOnce'
  BY <1>2, <1>4, <1>7 DEF Gathered, ReadsOnce, Places
<1>15. CacheInv'
  BY <1>9 DEF NInd, CacheInv
<1> QED
  BY <1>11, <1>12, <1>13, <1>14, <1>15 DEF NInd

(* A step of gather() leaves what the job is about. *)
LEMMA GatherStep ==
    ASSUME NInd, UNCHANGED <<mode, cap, seq, hist>>, Computing, Computing', JobTyped',
           job'.batch = job.batch, job'.rows = job.rows, Gathered', ReadsOnce', CacheInv'
    PROVE  NInd'
<1>1. NTyped'
  BY DEF NInd, NTyped
<1>2. HistOK'
  BY DEF NInd, HistOK, Computing
<1>3. RowsExact'
  BY DEF NInd, RowsExact, Computing
<1> QED
  BY <1>1, <1>2, <1>3 DEF NInd

LEMMA GatherRamStep ==
    ASSUME NInd, GatherRam
    PROVE  NInd'
<1>1. job' = [pc |-> "done", batch |-> job.batch, rows |-> job.rows, out |-> job.rows,
              at |-> job.at, missed |-> job.missed, last |-> job.last, buf |-> job.buf]
  BY Zenon DEF GatherRam, NInd, NTyped, JobTyped
<1>2. /\ job'.pc = "done" /\ job'.batch = job.batch /\ job'.rows = job.rows /\ job'.out = job.rows
      /\ job'.at = job.at /\ job'.missed = job.missed /\ job'.last = job.last
      /\ job' = [pc |-> job'.pc, batch |-> job'.batch, rows |-> job'.rows, out |-> job'.out,
                 at |-> job'.at, missed |-> job'.missed, last |-> job'.last, buf |-> job'.buf]
  BY <1>1
<1>3. JobTyped'
  BY <1>2 DEF NInd, NTyped, JobTyped, Places
<1>4. Computing /\ Computing' /\ Gathered' /\ ReadsOnce'
  BY <1>2 DEF GatherRam, Computing, Gathered, ReadsOnce
<1>5. UNCHANGED <<mode, cap, seq, hist, index, lru, data>> /\ CacheInv'
  BY DEF GatherRam, NInd, CacheInv
<1> QED
  BY <1>2, <1>3, <1>4, <1>5, GatherStep

LEMMA JobFields ==
    ASSUME NInd
    PROVE  /\ job = [pc |-> job.pc, batch |-> job.batch, rows |-> job.rows, out |-> job.out,
                     at |-> job.at, missed |-> job.missed, last |-> job.last, buf |-> job.buf]
           /\ job.batch \in Seq(Tokens) /\ job.rows \in Seq(Nat) /\ job.out \in Seq(Int)
           /\ Len(job.out) = Len(job.rows) /\ Len(job.rows) \in Nat
           /\ job.at \in Nat \ {0} /\ job.missed \subseteq 1..Len(job.rows) /\ job.last \in Int
BY DEF NInd, NTyped, JobTyped, Places

LEMMA HitStep ==
    ASSUME NInd, Hit
    PROVE  NInd'
<1> DEFINE k == job.at
           row == job.rows[k]
           got == data[index[row]]
           out == [job.out EXCEPT ![k] = got]
<1>1. /\ job = [pc |-> job.pc, batch |-> job.batch, rows |-> job.rows, out |-> job.out,
                at |-> job.at, missed |-> job.missed, last |-> job.last, buf |-> job.buf]
      /\ job.batch \in Seq(Tokens) /\ job.rows \in Seq(Nat) /\ job.out \in Seq(Int)
      /\ Len(job.out) = Len(job.rows) /\ Len(job.rows) \in Nat
      /\ job.at \in Nat \ {0} /\ job.missed \subseteq 1..Len(job.rows) /\ job.last \in Int
  BY JobFields
<1>2. job.pc = "gather" /\ k \in 1..Len(job.rows) /\ row \in DOMAIN index /\ row \in Nat
  BY <1>1 DEF Hit, LookingUp
<1>3. got = row
  BY <1>2 DEF NInd, CacheInv
<1>4. job' = [pc |-> job.pc, batch |-> job.batch, rows |-> job.rows, out |-> out, at |-> k + 1,
              missed |-> job.missed, last |-> job.last, buf |-> job.buf]
  <2>1. job' = [job EXCEPT !.at = @ + 1, !.out[k] = got]
    BY DEF Hit
  <2> HIDE DEF k, got
  <2>2. k = job.at
    BY DEF k
  <2> QED
    BY <1>1, <2>1, <2>2, Zenon
<1> HIDE DEF got, row, k
<1>5. /\ out \in Seq(Int) /\ Len(out) = Len(job.rows) /\ out[k] = row
      /\ \A i \in 1..Len(job.rows) : i # k => out[i] = job.out[i]
  BY <1>1, <1>2, <1>3
<1> HIDE DEF out
<1>6. /\ job'.pc = job.pc /\ job'.batch = job.batch /\ job'.rows = job.rows /\ job'.out = out
      /\ job'.at = k + 1 /\ job'.missed = job.missed /\ job'.last = job.last /\ job'.buf = job.buf
  BY <1>4
<1>7. job' = [pc |-> job'.pc, batch |-> job'.batch, rows |-> job'.rows, out |-> job'.out,
              at |-> job'.at, missed |-> job'.missed, last |-> job'.last, buf |-> job'.buf]
  BY <1>4, <1>6, Zenon
<1>8. JobTyped'
  <2>1. k + 1 \in Nat \ {0}
    BY <1>1, <1>2
  <2>2. job'.missed \subseteq 1..Len(job'.rows)
    BY <1>1, <1>6
  <2>3. job'.pc \in {"idle", "gather", "done", "failed"}
    BY <1>2, <1>6
  <2> QED
    BY <1>1, <1>5, <1>6, <1>7, <2>1, <2>2, <2>3 DEF JobTyped, Places
<1>9. UNCHANGED <<mode, cap, seq, hist, index, data>>
  BY DEF Hit
<1>10. Computing /\ Computing'
  BY <1>2, <1>6 DEF Computing
<1>11. Gathered'
  <2>1. ASSUME NEW i \in 1..Len(job.rows), i < k + 1, i \notin job.missed PROVE out[i] = job.rows[i]
    <3>1. CASE i = k
      BY <3>1, <1>5 DEF row
    <3>2. CASE i # k
      <4>1. i < job.at
        BY <3>2, <2>1, <1>1 DEF k
      <4>2. job.out[i] = job.rows[i]
        BY <4>1, <2>1, <1>2 DEF NInd, Gathered, Places
      <4> QED
        BY <3>2, <4>2, <1>5
    <3> QED
      BY <3>1, <3>2
  <2>2. \A i \in job.missed : i < k + 1
    BY <1>1, <1>2 DEF NInd, Gathered, k
  <2>3. job.last # NoRow => job.buf = job.last
    BY <1>2 DEF NInd, Gathered
  <2> QED
    BY <2>1, <2>2, <2>3, <1>2, <1>6 DEF Gathered, Places
<1>12. ReadsOnce'
  BY <1>1, <1>2, <1>6, <1>9 DEF NInd, ReadsOnce, k
<1>13. CacheInv'
  <2>1. PICK i \in DOMAIN lru : lru' = ToFront(lru, i)
    BY DEF Hit
  <2> QED
    BY <2>1, <1>9, HitKeeps DEF NInd
<1> QED
  BY <1>6, <1>8, <1>9, <1>10, <1>11, <1>12, <1>13, GatherStep

LEMMA MissStep ==
    ASSUME NInd, Miss
    PROVE  NInd'
<1> DEFINE k == job.at
           missed == job.missed \cup {k}
<1>1. /\ job = [pc |-> job.pc, batch |-> job.batch, rows |-> job.rows, out |-> job.out,
                at |-> job.at, missed |-> job.missed, last |-> job.last, buf |-> job.buf]
      /\ job.batch \in Seq(Tokens) /\ job.rows \in Seq(Nat) /\ job.out \in Seq(Int)
      /\ Len(job.out) = Len(job.rows) /\ Len(job.rows) \in Nat
      /\ job.at \in Nat \ {0} /\ job.missed \subseteq 1..Len(job.rows) /\ job.last \in Int
  BY JobFields
<1>2. /\ job.pc = "gather" /\ k \in 1..Len(job.rows) /\ job.rows[k] \notin DOMAIN index
      /\ job.rows[k] \in Nat
  BY <1>1 DEF Miss, LookingUp
<1>3. job' = [pc |-> job.pc, batch |-> job.batch, rows |-> job.rows, out |-> job.out, at |-> k + 1,
              missed |-> missed, last |-> job.last, buf |-> job.buf]
  <2>1. job' = [job EXCEPT !.at = @ + 1, !.missed = @ \cup {k}]
    BY DEF Miss
  <2> HIDE DEF k
  <2>2. k = job.at
    BY DEF k
  <2> QED
    BY <1>1, <2>1, <2>2, Zenon
<1> HIDE DEF missed, k
<1>4. /\ job'.pc = job.pc /\ job'.batch = job.batch /\ job'.rows = job.rows /\ job'.out = job.out
      /\ job'.at = k + 1 /\ job'.missed = missed /\ job'.last = job.last /\ job'.buf = job.buf
  BY <1>3
<1>5. job' = [pc |-> job'.pc, batch |-> job'.batch, rows |-> job'.rows, out |-> job'.out,
              at |-> job'.at, missed |-> job'.missed, last |-> job'.last, buf |-> job'.buf]
  BY <1>3, <1>4, Zenon
<1>6. JobTyped'
  <2>1. k + 1 \in Nat \ {0}
    BY <1>1, <1>2, SMTT(40)
  <2>2. job'.missed \subseteq 1..Len(job'.rows)
    BY <1>1, <1>2, <1>4 DEF missed
  <2>3. job'.pc \in {"idle", "gather", "done", "failed"}
    BY <1>2, <1>4
  <2> QED
    BY <1>1, <1>4, <1>5, <2>1, <2>2, <2>3 DEF JobTyped, Places
<1>7. UNCHANGED <<mode, cap, seq, hist, index, lru, data>>
  BY DEF Miss
<1>8. Computing /\ Computing'
  BY <1>2, <1>4 DEF Computing
<1>9. Gathered'
  <2>1. ASSUME NEW i \in 1..Len(job.rows), i < k + 1, i \notin missed PROVE job.out[i] = job.rows[i]
    <3>1. i < job.at /\ i \notin job.missed
      BY <2>1, <1>1 DEF missed, k
    <3> QED
      BY <3>1, <2>1, <1>2 DEF NInd, Gathered, Places
  <2>2. \A i \in missed : i < k + 1
    BY <1>1, <1>2 DEF NInd, Gathered, missed, k
  <2>3. job.last # NoRow => job.buf = job.last
    BY <1>2 DEF NInd, Gathered
  <2> QED
    BY <2>1, <2>2, <2>3, <1>2, <1>4 DEF Gathered, Places
<1>10. ReadsOnce'
  <2>1. job.last = NoRow
    BY <1>1, <1>2 DEF NInd, ReadsOnce, k
  <2>2. \A i \in missed : job.rows[i] \in DOMAIN index => job.rows[i] = job.last
    BY <1>2 DEF NInd, ReadsOnce, missed
  <2>3. \A i \in missed : job.last <= job.rows[i]
    BY <1>1, <1>2, <2>1, SMTT(40) DEF missed, NoRow
  <2> QED
    BY <2>1, <2>2, <2>3, <1>4, <1>7 DEF ReadsOnce
<1>11. CacheInv'
  BY <1>7 DEF NInd, CacheInv
<1> QED
  BY <1>4, <1>6, <1>7, <1>8, <1>9, <1>10, <1>11, GatherStep

(* A place is served with the row asked for there. *)
LEMMA ServeStep ==
    ASSUME NInd, NEW i \in job.missed, Reading(i), NEW row, row = job.rows[i],
           job' = Served(i, row), UNCHANGED <<mode, cap, seq, hist>>, CacheInv',
           DOMAIN index' \subseteq DOMAIN index \cup {row},
           job.last < row \/ job.last = row
    PROVE  NInd'
<1> DEFINE out == [job.out EXCEPT ![i] = row]
           missed == job.missed \ {i}
<1>1. /\ job = [pc |-> job.pc, batch |-> job.batch, rows |-> job.rows, out |-> job.out,
                at |-> job.at, missed |-> job.missed, last |-> job.last, buf |-> job.buf]
      /\ job.batch \in Seq(Tokens) /\ job.rows \in Seq(Nat) /\ job.out \in Seq(Int)
      /\ Len(job.out) = Len(job.rows) /\ Len(job.rows) \in Nat
      /\ job.at \in Nat \ {0} /\ job.missed \subseteq 1..Len(job.rows) /\ job.last \in Int
  BY JobFields
<1>2. /\ job.pc = "gather" /\ i \in 1..Len(job.rows) /\ row \in Nat /\ job.at > Len(job.rows)
      /\ \A j \in job.missed : row <= job.rows[j]
  <2>1. job.pc = "gather" /\ job.at > Len(job.rows) /\ First(i)
    BY DEF Reading
  <2>2. i \in 1..Len(job.rows) /\ row \in Nat
    BY <1>1
  <2>3. ASSUME NEW j \in job.missed PROVE row <= job.rows[j]
    <3>1. job.rows[j] \in Nat
      <4>1. j \in 1..Len(job.rows) /\ job.rows \in Seq(Nat)
        BY <1>1
      <4> QED
        BY <4>1, ElementOfSeq
    <3>2. row < job.rows[j] \/ row = job.rows[j]
      BY <2>1 DEF First
    <3> QED
      BY <3>1, <3>2, <2>2
  <2> QED
    BY <2>1, <2>2, <2>3
<1>3. job' = [pc |-> job.pc, batch |-> job.batch, rows |-> job.rows, out |-> out, at |-> job.at,
              missed |-> missed, last |-> row, buf |-> row]
  <2>1. job' = [job EXCEPT !.out[i] = row, !.missed = @ \ {i}, !.last = row, !.buf = row]
    BY DEF Served
  <2> QED
    BY <1>1, <2>1, Zenon
<1>4. /\ out \in Seq(Int) /\ Len(out) = Len(job.rows) /\ out[i] = row
      /\ \A j \in 1..Len(job.rows) : j # i => out[j] = job.out[j]
  BY <1>1, <1>2
<1> HIDE DEF missed, out
<1>5. /\ job'.pc = job.pc /\ job'.batch = job.batch /\ job'.rows = job.rows /\ job'.out = out
      /\ job'.at = job.at /\ job'.missed = missed /\ job'.last = row /\ job'.buf = row
  BY <1>3
<1>6. job' = [pc |-> job'.pc, batch |-> job'.batch, rows |-> job'.rows, out |-> job'.out,
              at |-> job'.at, missed |-> job'.missed, last |-> job'.last, buf |-> job'.buf]
  BY <1>3, <1>5, Zenon
<1>7. JobTyped'
  BY <1>1, <1>2, <1>4, <1>5, <1>6, SMTT(40) DEF NInd, NTyped, JobTyped, Places, missed
<1>8. Computing /\ Computing'
  BY <1>2, <1>5 DEF Computing
<1>9. Gathered'
  <2>1. ASSUME NEW j \in 1..Len(job.rows), j \notin missed PROVE out[j] = job.rows[j]
    <3>1. CASE j = i
      BY <3>1, <1>4
    <3>2. CASE j # i
      <4>1. j < job.at /\ j \notin job.missed
        BY <3>2, <2>1, <1>1, <1>2 DEF missed
      <4>2. job.out[j] = job.rows[j]
        BY <4>1, <2>1, <1>2 DEF NInd, Gathered, Places
      <4> QED
        BY <3>2, <4>2, <1>4
    <3> QED
      BY <3>1, <3>2
  <2>2. \A j \in missed : j < job.at
    BY <1>2 DEF NInd, Gathered, missed
  <2> QED
    BY <2>1, <2>2, <1>2, <1>5 DEF Gathered, Places
<1>10. ReadsOnce'
  <2>1. ASSUME NEW j \in missed, job.rows[j] \in DOMAIN index' PROVE job.rows[j] = row
    <3>1. CASE job.rows[j] \in DOMAIN index
      <4>1. job.rows[j] = job.last /\ row <= job.rows[j] /\ job.rows[j] \in Nat
        BY <3>1, <1>1, <1>2 DEF NInd, ReadsOnce, missed
      <4> QED
        BY <4>1, <1>1, <1>2
    <3> QED
      BY <3>1, <2>1
  <2>2. \A j \in missed : row <= job.rows[j]
    BY <1>2 DEF missed
  <2>3. ~(job.at <= Len(job.rows))
    BY <1>1, <1>2
  <2> QED
    BY <2>1, <2>2, <2>3, <1>5 DEF ReadsOnce
<1> QED
  BY <1>5, <1>7, <1>8, <1>9, <1>10, GatherStep

LEMMA ReadStep ==
    ASSUME NInd, Read
    PROVE  NInd'
<1>1. PICK i \in job.missed : /\ Reading(i) /\ ~SameRow(i)
                              /\ Insert(job.rows[i])
                              /\ job' = Served(i, job.rows[i])
  BY DEF Read
<1> DEFINE row == job.rows[i]
<1>2. job.pc = "gather" /\ row \in Nat /\ job.last \in Int /\ row # job.last
  BY <1>1, JobFields DEF Reading, SameRow
<1>3. row \notin DOMAIN index /\ job.last <= row
  BY <1>1, <1>2 DEF NInd, ReadsOnce
<1>4. UNCHANGED <<mode, cap, seq, hist>> /\ cap \in Nat
  BY DEF Read, NInd, NTyped
<1> HIDE DEF row
<1>5. Insert(row) /\ job' = Served(i, row) /\ row = job.rows[i]
  BY <1>1 DEF row
<1>6. CacheInv' /\ DOMAIN index' \subseteq DOMAIN index \cup {row}
  BY <1>2, <1>3, <1>4, <1>5, InsertKeeps DEF NInd
<1>7. job.last < row \/ job.last = row
  BY <1>2, <1>3
<1> QED
  BY <1>1, <1>4, <1>5, <1>6, <1>7, ServeStep

LEMMA ReadAgainStep ==
    ASSUME NInd, ReadAgain
    PROVE  NInd'
<1>1. PICK i \in job.missed : Reading(i) /\ SameRow(i) /\ job' = Served(i, job.buf)
  BY DEF ReadAgain
<1>2. job.pc = "gather" /\ job.rows[i] \in Nat /\ job.rows[i] = job.last
  BY <1>1, JobFields DEF Reading, SameRow
<1>3. job.buf = job.rows[i]
  BY <1>2 DEF NInd, Gathered, NoRow
<1>4. UNCHANGED <<mode, cap, seq, hist, index, lru, data>>
  BY DEF ReadAgain
<1>5. CacheInv' /\ DOMAIN index' \subseteq DOMAIN index \cup {job.buf}
  BY <1>4 DEF NInd, CacheInv
<1> QED
  BY <1>1, <1>2, <1>3, <1>4, <1>5, ServeStep

LEMMA GatherEndsStep ==
    ASSUME NInd, GatherEnds
    PROVE  NInd'
<1>1. /\ job = [pc |-> job.pc, batch |-> job.batch, rows |-> job.rows, out |-> job.out,
                at |-> job.at, missed |-> job.missed, last |-> job.last, buf |-> job.buf]
      /\ job.batch \in Seq(Tokens) /\ job.rows \in Seq(Nat) /\ job.out \in Seq(Int)
      /\ Len(job.out) = Len(job.rows) /\ Len(job.rows) \in Nat
      /\ job.at \in Nat \ {0} /\ job.missed \subseteq 1..Len(job.rows) /\ job.last \in Int
  BY JobFields
<1>2. job.pc = "gather" /\ job.at > Len(job.rows) /\ job.missed = {}
  BY DEF GatherEnds
<1>3. job' = [pc |-> "done", batch |-> job.batch, rows |-> job.rows, out |-> job.out,
              at |-> job.at, missed |-> job.missed, last |-> job.last, buf |-> job.buf]
  BY <1>1, Zenon DEF GatherEnds
<1>4. /\ job'.pc = "done" /\ job'.batch = job.batch /\ job'.rows = job.rows /\ job'.out = job.out
      /\ job'.at = job.at /\ job'.missed = job.missed /\ job'.last = job.last
  BY <1>3
<1>5. job' = [pc |-> job'.pc, batch |-> job'.batch, rows |-> job'.rows, out |-> job'.out,
              at |-> job'.at, missed |-> job'.missed, last |-> job'.last, buf |-> job'.buf]
  BY <1>3
<1>6. JobTyped'
  BY <1>1, <1>4, <1>5 DEF JobTyped, Places
<1>7. job.out = job.rows
  <2>1. \A i \in 1..Len(job.rows) : job.out[i] = job.rows[i]
    BY <1>1, <1>2 DEF NInd, Gathered, Places
  <2>2. job.rows \in Seq(Int)
    BY <1>1
  <2> QED
    BY <1>1, <2>1, <2>2, SeqEqual
<1>8. Computing /\ Computing' /\ Gathered' /\ ReadsOnce'
  BY <1>2, <1>4, <1>7 DEF Computing, Gathered, ReadsOnce
<1>9. UNCHANGED <<mode, cap, seq, hist, index, lru, data>> /\ CacheInv'
  BY DEF GatherEnds, NInd, CacheInv
<1> QED
  BY <1>4, <1>6, <1>8, <1>9, GatherStep

LEMMA ComputedStep ==
    ASSUME NInd, Computed
    PROVE  NInd'
<1>1. /\ job' = [pc |-> "idle", batch |-> <<>>, rows |-> <<>>, out |-> <<>>, at |-> 1, missed |-> {},
                 last |-> NoRow, buf |-> NoRow]
      /\ seq' = seq \o job.batch
  BY Zenon DEF Computed, NoJob
<1>2. JobTyped' /\ job'.pc = "idle" /\ RowsExact' /\ Gathered' /\ ReadsOnce'
  BY <1>1, NoJobKeeps
<1>3. UNCHANGED <<mode, cap, hist, index, lru, data>> /\ job.pc = "done"
  BY DEF Computed
<1>4. seq' \in Seq(Tokens)
  BY <1>1, JobFields DEF NInd, NTyped
<1>5. NTyped'
  BY <1>2, <1>3, <1>4 DEF NInd, NTyped
<1>6. HistOK'
  BY <1>1, <1>2, <1>3 DEF NInd, HistOK, Computing
<1>7. CacheInv'
  BY <1>3 DEF NInd, CacheInv
<1> QED
  BY <1>2, <1>5, <1>6, <1>7 DEF NInd

LEMMA ResetStep ==
    ASSUME NInd, Reset
    PROVE  NInd'
<1>1. /\ job' = [pc |-> "idle", batch |-> <<>>, rows |-> <<>>, out |-> <<>>, at |-> 1, missed |-> {},
                 last |-> NoRow, buf |-> NoRow]
      /\ seq' = <<>> /\ hist' = <<>>
  BY Zenon DEF Reset, NoJob
<1>2. JobTyped' /\ job'.pc = "idle" /\ RowsExact' /\ Gathered' /\ ReadsOnce'
  BY <1>1, NoJobKeeps
<1>3. UNCHANGED <<mode, cap, index, lru, data>>
  BY DEF Reset
<1>4. NTyped'
  BY <1>1, <1>2, <1>3 DEF NInd, NTyped
<1>5. HistOK'
  BY <1>1, <1>2, PaddedIs DEF HistOK, Computing
<1>6. CacheInv'
  BY <1>3 DEF NInd, CacheInv
<1> QED
  BY <1>2, <1>4, <1>5, <1>6 DEF NInd

LEMMA ReadFailsStep ==
    ASSUME NInd, ReadFails
    PROVE  NInd'
<1>1. job' = [pc |-> "failed", batch |-> <<>>, rows |-> <<>>, out |-> <<>>, at |-> 1, missed |-> {},
              last |-> NoRow, buf |-> NoRow]
  BY Zenon DEF ReadFails, NoJob
<1>2. JobTyped' /\ job'.pc = "failed" /\ RowsExact' /\ Gathered' /\ ReadsOnce'
  BY <1>1, NoJobKeeps
<1>3. UNCHANGED <<mode, cap, seq, hist, index, lru, data>>
  BY DEF ReadFails
<1>4. NTyped'
  BY <1>2, <1>3 DEF NInd, NTyped
<1>5. HistOK'
  BY <1>2 DEF HistOK, Computing
<1>6. CacheInv'
  BY <1>3 DEF NInd, CacheInv
<1> QED
  BY <1>2, <1>4, <1>5, <1>6 DEF NInd

LEMMA NextKeeps == NInd /\ [NNext]_nvars => NInd'
<1> SUFFICES ASSUME NInd, [NNext]_nvars PROVE NInd'
  OBVIOUS
<1>1. CASE UNCHANGED nvars
  BY <1>1 DEF nvars, NInd, NTyped, JobTyped, Places, HistOK, Computing, RowsExact, Gathered,
              ReadsOnce, CacheInv
<1> QED
  BY <1>1, HashRowsStep, GatherRamStep, HitStep, MissStep, ReadStep, ReadAgainStep,
     GatherEndsStep, ComputedStep, ResetStep, ReadFailsStep DEF NNext

(* Every step of the table keeps the invariant: hash_rows, the lookups,    *)
(* the sorted reads, a failed read and the reset.                          *)
THEOREM Inductive == NSpec => []NInd
BY InitKeeps, NextKeeps, PTL DEF NSpec

(* However a sequence is cut into batches, and after failed reads and      *)
(* resets, hash_rows names for each token the rows that one pass over the  *)
(* whole sequence would: for any vocabulary, window, heads and hash.       *)
THEOREM RowsOfOnePass == NSpec => []RowsExact
<1>1. NInd => RowsExact
  BY DEF NInd
<1> QED
  BY <1>1, Inductive, PTL

(* gather() puts the row asked for at every place, for any size of the row *)
(* cache, though its hits are taken before the misses evict them and a     *)
(* repeated row is read once.                                              *)
THEOREM GatherDelivers == NSpec => []GatherExact
<1>1. NInd => GatherExact
  BY DEF NInd, Gathered, GatherExact
<1> QED
  BY <1>1, Inductive, PTL

(* cache_index, lru and cache_data name the same rows, each once, within   *)
(* the capacity; after evictions and failed reads too.                     *)
THEOREM RowCacheStaysSound == NSpec => []RowCacheSound
<1>1. NInd => RowCacheSound
  <2> SUFFICES ASSUME NInd PROVE RowCacheSound
    OBVIOUS
  <2> DEFINE D == DOMAIN index
             n == Cardinality(D)
  <2>1. /\ IsFiniteSet(D) /\ n <= cap /\ Len(lru) = n /\ Lists(lru, D) /\ cap \in Nat
        /\ \A r \in D : index[r] \in 1..n /\ data[index[r]] = r
    BY DEF NInd, CacheInv, NTyped
  <2>2. n \in Nat
    BY <2>1, FS_CardinalityType
  <2>3. Range(lru) = D
    <3>1. DOMAIN lru = 1..Len(lru)
      BY <2>1 DEF Lists
    <3> HIDE DEF D
    <3>2. /\ \A i \in 1..Len(lru) : lru[i] \in D
          /\ \A r \in D : \E i \in 1..Len(lru) : lru[i] = r
      BY <2>1 DEF Lists
    <3>3. Range(lru) = {lru[i] : i \in 1..Len(lru)}
      BY <3>1 DEF Range
    <3> QED
      BY <3>2, <3>3
  <2>4. \A r \in D : index[r] \in 1..cap
    <3> HIDE DEF D, n
    <3> QED
      BY <2>1, <2>2
  <2> QED
    BY <2>1, <2>3, <2>4 DEF RowCacheSound
<1> QED
  BY <1>1, Inductive, PTL

=============================================================================
