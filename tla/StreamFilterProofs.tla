------------------------- MODULE StreamFilterProofs -------------------------
(***************************************************************************)
(* Proofs about StreamFilter, as Conversation drives it: a streamed reply, *)
(* for any pieces, formats and lengths.                                    *)
(*                                                                         *)
(* What a channel sends is a sequence of chunks, and no two of them need   *)
(* be neighbours in the reply: markers and white space between them are    *)
(* dropped. Each chunk is one contiguous segment of the reply, though. The *)
(* invariant says where: what is held back is the rest of the reply        *)
(* (IsRest), what a round lets through comes just before it (IsNext), and  *)
(* what is pending of an incomplete character ends where the next chunk    *)
(* begins (Flow). A chunk that ends inside a character of well-formed text *)
(* would then show in the reply itself.                                    *)
(*                                                                         *)
(* The two ways to parse a reply for calls search different texts. Places  *)
(* of markers in a text and in its end from q on differ by a shift         *)
(* (PlacesShift), and so do the blocks that parse_tool_calls() goes        *)
(* through: each of the two recursive functions is fixed by its equation,  *)
(* and Agree, claimed of all places up to a bound, climbs with the bound   *)
(* (CallsShift).                                                           *)
(*                                                                         *)
(* That the stream sends what the whole message holds takes the meaning of *)
(* each phase, in terms of places in the reply (Told): up to the held text *)
(* no </think> has begun in the reasoning and no <tool_call> in the        *)
(* content, and what the two channels were sent, with what is pending, is  *)
(* the text between those places but for white space.  A round moves the   *)
(* places on (RouteTells), a chunk moves text from pending to sent         *)
(* (SentSpeaks), and at the end the places are those at which              *)
(* split_reasoning() and parse_tool_calls() divide the reply (Stops).      *)
(***************************************************************************)
EXTENDS Conversation, SequenceLemmas

Symbol == STRING
Texts == Seq(Symbol)

-----------------------------------------------------------------------------
(* Segments of a text. *)
LEMMA SegProps ==
    ASSUME NEW t \in Texts, NEW a \in 1..(Len(t) + 1), NEW b \in (a - 1)..Len(t)
    PROVE  /\ SubSeq(t, a, b) \in Texts
           /\ Len(SubSeq(t, a, b)) = b - a + 1
           /\ \A i \in 1..(b - a + 1) : SubSeq(t, a, b)[i] = t[a + i - 1]
<1>1. Len(t) \in Nat /\ a \in Int /\ b \in Int
  BY DEF Texts
<1>2. \A i \in a..b : t[i] \in Symbol
  BY <1>1 DEF Texts
<1>3. /\ SubSeq(t, a, b) \in Seq(Symbol)
      /\ Len(SubSeq(t, a, b)) = IF a <= b THEN b - a + 1 ELSE 0
      /\ \A i \in 1..(b - a + 1) : SubSeq(t, a, b)[i] = t[a + i - 1]
  BY <1>1, <1>2, SubSeqProperties
<1> QED
  BY <1>1, <1>3 DEF Texts

LEMMA SegOfSeg ==
    ASSUME NEW t \in Texts, NEW a \in 1..(Len(t) + 1), NEW b \in (a - 1)..Len(t),
           NEW i \in 1..(b - a + 2), NEW j \in (i - 1)..(b - a + 1)
    PROVE  SubSeq(SubSeq(t, a, b), i, j) = SubSeq(t, a + i - 1, a + j - 1)
<1> DEFINE s == SubSeq(t, a, b)
<1>1. Len(t) \in Nat /\ a \in Int /\ b \in Int /\ i \in Int /\ j \in Int
  BY DEF Texts
<1>2. s \in Texts /\ Len(s) = b - a + 1 /\ \A k \in 1..(b - a + 1) : s[k] = t[a + k - 1]
  BY SegProps
<1>3. a + i - 1 \in 1..(Len(t) + 1) /\ a + j - 1 \in (a + i - 1 - 1)..Len(t)
  BY <1>1
<1>4. /\ SubSeq(t, a + i - 1, a + j - 1) \in Texts
      /\ Len(SubSeq(t, a + i - 1, a + j - 1)) = a + j - 1 - (a + i - 1) + 1
      /\ \A k \in 1..(a + j - 1 - (a + i - 1) + 1) :
            SubSeq(t, a + i - 1, a + j - 1)[k] = t[a + i - 1 + k - 1]
  BY <1>3, SegProps
<1> HIDE DEF s
<1>5. i \in 1..(Len(s) + 1) /\ j \in (i - 1)..Len(s)
  BY <1>1, <1>2
<1>6. /\ SubSeq(s, i, j) \in Texts
      /\ Len(SubSeq(s, i, j)) = j - i + 1
      /\ \A k \in 1..(j - i + 1) : SubSeq(s, i, j)[k] = s[i + k - 1]
  BY <1>2, <1>5, SegProps
<1> DEFINE x == SubSeq(s, i, j)
           y == SubSeq(t, a + i - 1, a + j - 1)
<1>7. Len(x) = j - i + 1 /\ Len(y) = j - i + 1
  BY <1>1, <1>4, <1>6
<1>8. \A k \in 1..(j - i + 1) : x[k] = y[k]
  <2> SUFFICES ASSUME NEW k \in 1..(j - i + 1) PROVE x[k] = y[k]
    OBVIOUS
  <2>1. k \in 1..(a + j - 1 - (a + i - 1) + 1) /\ i + k - 1 \in 1..(b - a + 1)
    BY <1>1
  <2>2. x[k] = s[i + k - 1] /\ s[i + k - 1] = t[a + (i + k - 1) - 1]
    BY <1>2, <1>6, <2>1
  <2>3. y[k] = t[a + i - 1 + k - 1]
    BY <1>4, <2>1
  <2>4. a + (i + k - 1) - 1 = a + i - 1 + k - 1
    BY <1>1
  <2> QED
    BY <2>2, <2>3, <2>4
<1>9. x \in Seq(Symbol) /\ y \in Seq(Symbol)
  BY <1>4, <1>6 DEF Texts
<1> HIDE DEF x, y
<1>10. x = y
  BY <1>1, <1>7, <1>8, <1>9, SeqEqual
<1> QED
  BY <1>10 DEF x, y, s

(* s ends at place b of t; s is a segment of t. *)
EndsAt(s, t, b) == \E a \in 1..(b + 1) : s = SubSeq(t, a, b)
Segment(s, t) == \E b \in 0..Len(t) : EndsAt(s, t, b)


LEMMA EmptyEnds ==
    ASSUME NEW t \in Texts, NEW b \in 0..Len(t)
    PROVE  EndsAt(<<>>, t, b)
<1>1. b \in Nat /\ Len(t) \in Nat
  BY DEF Texts
<1>2. SubSeq(t, b + 1, b) = <<>>
  BY <1>1, SubSeqEmpty
<1> QED
  BY <1>1, <1>2 DEF EndsAt

(* A segment without some of its end, without some of its beginning, and   *)
(* with what comes next in the text.                                       *)

LEMMA EndsBack ==
    ASSUME NEW t \in Texts, NEW b \in 0..Len(t), NEW s, EndsAt(s, t, b), NEW i \in 1..(Len(s) + 1)
    PROVE  EndsAt(SubSeq(s, i, Len(s)), t, b)
<1>1. PICK a \in 1..(b + 1) : s = SubSeq(t, a, b)
  BY DEF EndsAt
<1>2. a \in 1..(Len(t) + 1) /\ b \in (a - 1)..Len(t) /\ Len(t) \in Nat
  BY DEF Texts
<1>3. Len(s) = b - a + 1
  BY <1>1, <1>2, SegProps
<1>4. i \in 1..(b - a + 2) /\ Len(s) \in (i - 1)..(b - a + 1)
  BY <1>2, <1>3
<1>5. SubSeq(s, i, Len(s)) = SubSeq(t, a + i - 1, a + Len(s) - 1)
  BY <1>1, <1>2, <1>4, SegOfSeg
<1>6. a + Len(s) - 1 = b /\ a + i - 1 \in 1..(b + 1)
  BY <1>2, <1>3
<1> QED
  BY <1>5, <1>6 DEF EndsAt

LEMMA EndsNext ==
    ASSUME NEW t \in Texts, NEW b \in 0..Len(t), NEW s, EndsAt(s, t, b), NEW c \in b..Len(t)
    PROVE  EndsAt(s \o SubSeq(t, b + 1, c), t, c)
<1>1. PICK a \in 1..(b + 1) : s = SubSeq(t, a, b)
  BY DEF EndsAt
<1>2. a \in 1..(Len(t) + 1) /\ b \in (a - 1)..Len(t) /\ Len(t) \in Nat /\ a \in 1..(c + 1) /\ t \in Seq(Symbol)
  BY DEF Texts
<1>3. SubSeq(t, a, b) \o SubSeq(t, b + 1, c) = SubSeq(t, a, c)
  BY <1>2, ConcatAdjacentSubSeq
<1> QED
  BY <1>1, <1>2, <1>3 DEF EndsAt

(* A text that goes on keeps its segments. *)
LEMMA EndsGrow ==
    ASSUME NEW t \in Texts, NEW u \in Texts, NEW b \in 0..Len(t), NEW s, EndsAt(s, t, b)
    PROVE  EndsAt(s, t \o u, b)
<1>1. PICK a \in 1..(b + 1) : s = SubSeq(t, a, b)
  BY DEF EndsAt
<1>2. a \in 1..(Len(t) + 1) /\ b \in (a - 1)..Len(t) /\ Len(t) \in Nat /\ t \in Seq(Symbol) /\ u \in Seq(Symbol)
  BY DEF Texts
<1>3. SubSeq(t, a, b) = SubSeq(t \o u, a, b)
  <2>1. CASE b = a - 1
    <3>1. b < a /\ a \in Int /\ b \in Int
      BY <1>2, <2>1
    <3> QED
      BY <3>1, SubSeqEmpty
  <2>2. CASE b # a - 1
    <3>1. a \in 1..Len(t) /\ b \in 1..Len(t)
      BY <1>2, <2>2
    <3> QED
      BY <1>2, <3>1, SubSeqOfConcat1
  <2> QED
    BY <2>1, <2>2
<1> QED
  BY <1>1, <1>3 DEF EndsAt

LEMMA SegmentGrow ==
    ASSUME NEW t \in Texts, NEW u \in Texts, NEW s, Segment(s, t)
    PROVE  Segment(s, t \o u)
<1>1. PICK b \in 0..Len(t) : EndsAt(s, t, b)
  BY DEF Segment
<1>2. EndsAt(s, t \o u, b)
  BY <1>1, EndsGrow
<1>3. Len(t \o u) = Len(t) + Len(u) /\ Len(t) \in Nat /\ Len(u) \in Nat
  BY DEF Texts
<1> QED
  BY <1>2, <1>3 DEF Segment

LEMMA RestGrow ==
    ASSUME NEW t \in Texts, NEW u \in Texts, NEW b \in 0..Len(t)
    PROVE  SubSeq(t, b + 1, Len(t)) \o u = SubSeq(t \o u, b + 1, Len(t \o u))
<1> DEFINE w == t \o u
<1>1. Len(w) = Len(t) + Len(u) /\ Len(t) \in Nat /\ Len(u) \in Nat /\ w \in Texts
  BY DEF Texts
<1>2. SubSeq(w, b + 1, Len(t)) = SubSeq(t, b + 1, Len(t))
  <2>1. CASE b = Len(t)
    <3>1. Len(t) < b + 1 /\ b + 1 \in Int
      BY <1>1, <2>1
    <3> QED
      BY <1>1, <3>1, SubSeqEmpty
  <2>2. CASE b # Len(t)
    <3>1. b + 1 \in 1..Len(t) /\ Len(t) \in 1..Len(t)
      BY <1>1, <2>2
    <3> QED
      BY <3>1, SubSeqOfConcat1 DEF Texts
  <2> QED
    BY <2>1, <2>2
<1>3. SubSeq(w, Len(t) + 1, Len(w)) = u
  <2>1. CASE u = <<>>
    <3>1. Len(w) < Len(t) + 1
      BY <1>1, <2>1
    <3> QED
      BY <1>1, <2>1, <3>1, SubSeqEmpty
  <2>2. CASE u # <<>>
    <3>1. Len(u) > 0
      BY <1>1, <2>2 DEF Texts
    <3>2. Len(t) + 1 \in (Len(t) + 1)..(Len(t) + Len(u)) /\ Len(w) \in (Len(t) + 1)..(Len(t) + Len(u))
      BY <1>1, <3>1
    <3>3. SubSeq(w, Len(t) + 1, Len(w)) = SubSeq(u, Len(t) + 1 - Len(t), Len(w) - Len(t))
      BY <3>2, SubSeqOfConcat2 DEF Texts
    <3>4. Len(t) + 1 - Len(t) = 1 /\ Len(w) - Len(t) = Len(u)
      BY <1>1
    <3>5. SubSeq(u, 1, Len(u)) = u
      BY SubSeqFull DEF Texts
    <3> QED
      BY <3>3, <3>4, <3>5
  <2> QED
    BY <2>1, <2>2
<1> HIDE DEF w
<1> DEFINE m == b + 1
           k == Len(t)
<1>4. w \in Seq(Symbol) /\ m \in 1..(Len(w) + 1) /\ k \in (m - 1)..Len(w) /\ Len(w) \in k..Len(w)
  BY <1>1 DEF Texts
<1> HIDE DEF m, k
<1>5. SubSeq(w, m, k) \o SubSeq(w, k + 1, Len(w)) = SubSeq(w, m, Len(w))
  BY <1>4, ConcatAdjacentSubSeq
<1>6. SubSeq(t, b + 1, Len(t)) \o u = SubSeq(w, b + 1, Len(w))
  BY <1>2, <1>3, <1>5 DEF m, k
<1> QED
  BY <1>6 DEF w

-----------------------------------------------------------------------------
(* Where the text is cut. *)
LEMMA TrimEndDrops ==
    ASSUME NEW s \in Texts
    PROVE  \E e \in 0..Len(s) : TrimEnd(s) = SubSeq(s, 1, e) /\ \A j \in (e + 1)..Len(s) : s[j] = "n"
<1> DEFINE T == {0} \cup {i \in DOMAIN s : s[i] # "n"}
<1>1. Len(s) \in Nat /\ DOMAIN s = 1..Len(s)
  BY DEF Texts
<1>2. T \subseteq 0..Len(s) /\ T # {}
  BY <1>1
<1>3. TrimEnd(s) = SubSeq(s, 1, Max(T))
  BY DEF TrimEnd
<1>4. \A j \in 1..Len(s) : s[j] # "n" => j \in T
  BY <1>1
<1> DEFINE e == Max(T)
<1> HIDE DEF T
<1>5. e \in T /\ \A y \in T : y <= e
  BY <1>1, <1>2, MaxIs
<1> HIDE DEF e
<1>6. e \in 0..Len(s)
  BY <1>2, <1>5
<1>7. ASSUME NEW j \in (e + 1)..Len(s), s[j] # "n" PROVE FALSE
  <2>1. j \in 1..Len(s) /\ j > e
    BY <1>1, <1>6
  <2>2. j <= e
    BY <1>4, <1>5, <1>7, <2>1
  <2> QED
    BY <1>1, <1>6, <2>1, <2>2
<1> QED
  BY <1>3, <1>6, <1>7 DEF e

LEMMA TrimLeadSkips ==
    ASSUME NEW s \in Texts
    PROVE  \E i \in 1..(Len(s) + 1) :
              /\ TrimLead(s) = SubSeq(s, i, Len(s)) /\ \A j \in 1..(i - 1) : s[j] = "n"
              /\ i <= Len(s) => s[i] # "n"
<1> DEFINE T == {Len(s) + 1} \cup {i \in DOMAIN s : s[i] # "n"}
<1>1. Len(s) \in Nat /\ DOMAIN s = 1..Len(s)
  BY DEF Texts
<1>2. T \subseteq 1..(Len(s) + 1) /\ T # {} /\ T \subseteq Nat
  BY <1>1
<1>3. TrimLead(s) = SubSeq(s, Min(T), Len(s))
  BY DEF TrimLead, From
<1>4. Min(T) \in T /\ \A y \in T : Min(T) <= y
  <2> HIDE DEF T
  <2> QED
    BY <1>2, MinIs
<1>5. \A j \in 1..Len(s) : s[j] # "n" <=> j \in T
  BY <1>1
<1> DEFINE i == Min(T)
<1> HIDE DEF T, i
<1>6. i \in T /\ (\A y \in T : i <= y) /\ TrimLead(s) = SubSeq(s, i, Len(s))
  BY <1>3, <1>4 DEF i
<1>7. i \in 1..(Len(s) + 1)
  BY <1>2, <1>6
<1>8. ASSUME NEW j \in 1..(i - 1), s[j] # "n" PROVE FALSE
  <2>1. j \in 1..Len(s) /\ j < i
    BY <1>1, <1>7
  <2>2. i <= j
    BY <1>5, <1>6, <1>8, <2>1
  <2> QED
    BY <1>1, <1>7, <2>1, <2>2
<1>9. i <= Len(s) => s[i] # "n"
  BY <1>1, <1>5, <1>6, <1>7
<1> QED
  BY <1>6, <1>7, <1>8, <1>9

LEMMA MarkerLen ==
    Len(ThinkEnd) = 2 /\ Len(ThinkOpen) = 2 /\ Len(ToolOpen) = 2 /\ Len(ToolEnd) = 2
BY DEF ThinkEnd, ThinkOpen, ToolOpen, ToolEnd

LEMMA FindIs ==
    ASSUME NEW s \in Texts, NEW m, Len(m) = 2, Has(s, m)
    PROVE  Find(s, m) \in 1..(Len(s) - 1) /\ Find(s, m) \in Places(s, m)
<1>1. Len(s) \in Nat
  BY DEF Texts
<1>2. Places(s, m) \subseteq 1..(Len(s) - 1)
  BY <1>1 DEF Places
<1>3. Places(s, m) \subseteq Nat /\ Places(s, m) # {}
  BY <1>1, <1>2 DEF Has
<1> QED
  BY <1>2, <1>3, MinIs DEF Find

LEMMA EmittableIs ==
    ASSUME NEW s \in Texts, NEW m, Len(m) = 2
    PROVE  Emittable(s, m) \in 0..Len(s)
<1> DEFINE top == IF Len(s) < Len(m) THEN Len(s) ELSE Len(m) - 1
           T == {i \in 0..top : From(s, Len(s) - i + 1) = SubSeq(m, 1, i)}
           k == Max(T)
           u == SubSeq(s, 1, Len(s) - k)
<1>1. Len(s) \in Nat /\ top \in Nat /\ top <= Len(s)
  BY DEF Texts
<1>2. T \subseteq 0..top
  OBVIOUS
<1>3. 0 \in T
  <2>1. From(s, Len(s) - 0 + 1) = <<>>
    <3>1. Len(s) - 0 + 1 \in Int /\ Len(s) \in Int /\ Len(s) < Len(s) - 0 + 1
      BY <1>1
    <3> QED
      BY <3>1, SubSeqEmpty DEF From
  <2>2. SubSeq(m, 1, 0) = <<>>
    BY SubSeqEmpty
  <2>3. 0 \in 0..top
    BY <1>1
  <2> QED
    BY <2>1, <2>2, <2>3
<1>4. k \in 0..top
  <2> HIDE DEF T, top
  <2>1. T # {}
    BY <1>3
  <2> QED
    BY <1>1, <1>2, <2>1, MaxIs
<1>5. Emittable(s, m) = Len(TrimEnd(u))
  BY DEF Emittable
<1> HIDE DEF k, T
<1>6. 1 \in 1..(Len(s) + 1) /\ Len(s) - k \in (1 - 1)..Len(s)
  BY <1>1, <1>4
<1>7. u \in Texts /\ Len(u) = Len(s) - k - 1 + 1
  BY <1>6, SegProps
<1> HIDE DEF u
<1>8. PICK e \in 0..Len(u) : TrimEnd(u) = SubSeq(u, 1, e)
  BY <1>7, TrimEndDrops
<1>9. Len(u) \in Nat /\ 1 \in 1..(Len(u) + 1) /\ e \in (1 - 1)..Len(u)
  BY <1>7 DEF Texts
<1>10. Len(SubSeq(u, 1, e)) = e - 1 + 1
  BY <1>7, <1>9, SegProps
<1> QED
  BY <1>1, <1>4, <1>5, <1>7, <1>8, <1>9, <1>10

(* A segment of a text of whole characters has whole characters, but for   *)
(* its last one; without that, it ends with one.                           *)
LEMMA SegmentFormed ==
    ASSUME NEW t \in Texts, WellFormed(t), NEW s, Segment(s, t)
    PROVE  WellFormed(s)
<1>0. PICK b \in 0..Len(t) : EndsAt(s, t, b)
  BY DEF Segment
<1>1. PICK a \in 1..(b + 1) : s = SubSeq(t, a, b)
  BY <1>0 DEF EndsAt
<1>2. a \in 1..(Len(t) + 1) /\ b \in (a - 1)..Len(t) /\ Len(t) \in Nat /\ DOMAIN t = 1..Len(t)
  BY DEF Texts
<1>3. s \in Texts /\ Len(s) = b - a + 1 /\ \A i \in 1..(b - a + 1) : s[i] = t[a + i - 1]
  BY <1>1, <1>2, SegProps
<1>4. DOMAIN s = 1..(b - a + 1)
  BY <1>3 DEF Texts
<1> SUFFICES ASSUME NEW i \in DOMAIN s, NEW j \in {i + 1, i + 2} \cap DOMAIN s, s[i] = "L"
             PROVE  s[j] = "k"
  BY DEF WellFormed
<1>5. i \in 1..(b - a + 1) /\ j \in 1..(b - a + 1) /\ (j = i + 1 \/ j = i + 2)
  BY <1>4
<1>6. a + i - 1 \in DOMAIN t /\ a + j - 1 \in DOMAIN t
      /\ a + j - 1 \in {(a + i - 1) + 1, (a + i - 1) + 2}
  <2>1. a \in Int /\ b \in Int /\ i \in Int /\ j \in Int
    BY <1>2, <1>5
  <2>2. a + i - 1 \in 1..Len(t) /\ a + j - 1 \in 1..Len(t)
    BY <1>2, <1>5, <2>1
  <2>3. a + j - 1 = (a + i - 1) + 1 \/ a + j - 1 = (a + i - 1) + 2
    BY <1>5, <2>1
  <2> QED
    BY <1>2, <2>2, <2>3
<1>7. t[a + i - 1] = "L"
  BY <1>3, <1>5
<1>8. t[a + j - 1] = "k"
  BY <1>6, <1>7 DEF WellFormed
<1> QED
  BY <1>3, <1>5, <1>8

Ends(s, l) == l > 0 /\ (s[l] = "L" \/ (l > 1 /\ s[l] = "k" /\ s[l - 1] = "L"))

LEMMA ClipIn ==
    ASSUME NEW s \in Texts
    PROVE  Clip(s) \in 0..Len(s)
<1>1. Len(s) \in Nat
  BY DEF Texts
<1> QED
  BY <1>1 DEF Clip

LEMMA ClipWhole ==
    ASSUME NEW s \in Texts, WellFormed(s)
    PROVE  ~Ends(s, Clip(s))
<1> DEFINE l == Len(s)
<1>1. l \in Nat /\ DOMAIN s = 1..l
  BY DEF Texts
<1>2. \A i \in 1..l : \A j \in 1..l : (j = i + 1 \/ j = i + 2) /\ s[i] = "L" => s[j] = "k"
  BY <1>1 DEF WellFormed
<1> DEFINE c == Clip(s)
<1>3. c = IF l > 0 /\ s[l] = "L" THEN l - 1
          ELSE IF l > 1 /\ s[l] = "k" /\ s[l - 1] = "L" THEN l - 2
          ELSE l
  BY DEF Clip
<1> HIDE DEF c, l
<1>4. CASE l > 0 /\ s[l] = "L"
  <2>1. c = l - 1 /\ l \in 1..l /\ s[l] # "k"
    BY <1>1, <1>3, <1>4
  <2>2. ASSUME c > 0 PROVE s[c] # "L"
    <3>1. c \in 1..l /\ l = c + 1
      BY <1>1, <2>1, <2>2
    <3> QED
      BY <1>2, <2>1, <3>1
  <2>3. ASSUME c > 1 PROVE s[c - 1] # "L"
    <3>1. c - 1 \in 1..l /\ l = c - 1 + 2
      BY <1>1, <2>1, <2>3
    <3> QED
      BY <1>2, <2>1, <3>1
  <2> QED
    BY <2>2, <2>3 DEF Ends, c
<1>5. CASE ~(l > 0 /\ s[l] = "L") /\ l > 1 /\ s[l] = "k" /\ s[l - 1] = "L"
  <2>1. c = l - 2 /\ l - 1 \in 1..l /\ s[l - 1] # "k"
    BY <1>1, <1>3, <1>5
  <2>2. ASSUME c > 0 PROVE s[c] # "L"
    <3>1. c \in 1..l /\ l - 1 = c + 1
      BY <1>1, <2>1, <2>2
    <3> QED
      BY <1>2, <2>1, <3>1
  <2>3. ASSUME c > 1 PROVE s[c - 1] # "L"
    <3>1. c - 1 \in 1..l /\ l - 1 = c - 1 + 2
      BY <1>1, <2>1, <2>3
    <3> QED
      BY <1>2, <2>1, <3>1
  <2> QED
    BY <2>2, <2>3 DEF Ends, c
<1>6. CASE ~(l > 0 /\ s[l] = "L") /\ ~(l > 1 /\ s[l] = "k" /\ s[l - 1] = "L")
  <2>1. c = l
    BY <1>3, <1>6
  <2> QED
    BY <1>6, <2>1 DEF Ends, c
<1> QED
  BY <1>4, <1>5, <1>6

-----------------------------------------------------------------------------
(* What is held back is the rest of the text, so that what goes out next   *)
(* follows what went out before.                                           *)
IsRest(s, t, b) == s = SubSeq(t, b + 1, Len(t))
IsNext(s, t, b, e) == s = SubSeq(t, b + 1, e)

LEMMA HoldCut ==
    ASSUME NEW t \in Texts, NEW b \in 0..Len(t), NEW hold, IsRest(hold, t, b),
           NEW i \in 1..(Len(hold) + 1)
    PROVE  /\ hold \in Texts /\ Len(hold) = Len(t) - b
           /\ From(hold, i) = SubSeq(t, b + i, Len(t))
           /\ SubSeq(hold, 1, i - 1) = SubSeq(t, b + 1, b + i - 1)
           /\ b + i - 1 \in b..Len(t)
<1> DEFINE a == b + 1
           l == Len(t)
<1>1. l \in Nat /\ a \in 1..(Len(t) + 1) /\ l \in (a - 1)..Len(t) /\ b \in Nat
  BY DEF Texts
<1>2. hold = SubSeq(t, a, l)
  BY DEF IsRest
<1> HIDE DEF a, l
<1>3. hold \in Texts /\ Len(hold) = l - a + 1
  BY <1>1, <1>2, SegProps
<1>4. i \in Nat /\ i \in 1..(l - a + 2) /\ Len(hold) \in (i - 1)..(l - a + 1)
      /\ 1 \in 1..(l - a + 2) /\ i - 1 \in (1 - 1)..(l - a + 1)
  BY <1>1, <1>3
<1>5. SubSeq(hold, i, Len(hold)) = SubSeq(t, a + i - 1, a + Len(hold) - 1)
  BY <1>1, <1>2, <1>4, SegOfSeg
<1>6. SubSeq(hold, 1, i - 1) = SubSeq(t, a + 1 - 1, a + (i - 1) - 1)
  BY <1>1, <1>2, <1>4, SegOfSeg
<1>0. a = b + 1 /\ b \in Int /\ i \in Int /\ l \in Int
  BY <1>1, <1>4 DEF a
<1>8. Len(hold) = l - b /\ b + i - 1 \in b..l
  BY <1>0, <1>3, <1>4
<1>7. a + i - 1 = b + i /\ a + Len(hold) - 1 = l /\ a + 1 - 1 = b + 1 /\ a + (i - 1) - 1 = b + i - 1
  <2> DEFINE n1 == Len(hold)
  <2>1. n1 = l - b
    BY <1>8
  <2> HIDE DEF n1
  <2>2. a + i - 1 = b + i /\ a + n1 - 1 = l /\ a + 1 - 1 = b + 1 /\ a + (i - 1) - 1 = b + i - 1
    BY <1>0, <2>1
  <2> QED
    BY <2>2 DEF n1
<1> QED
  BY <1>3, <1>5, <1>6, <1>7, <1>8 DEF From, l

LEMMA HoldTrim ==
    ASSUME NEW t \in Texts, NEW b \in 0..Len(t), NEW hold, IsRest(hold, t, b),
           NEW i \in 1..(Len(hold) + 1)
    PROVE  \E e \in b..Len(t) : IsNext(TrimEnd(SubSeq(hold, 1, i - 1)), t, b, e)
<1> DEFINE s == SubSeq(hold, 1, i - 1)
           a == b + 1
           l == b + i - 1
<1>1. s = SubSeq(t, a, l) /\ l \in b..Len(t)
  BY HoldCut
<1>2. Len(t) \in Nat /\ a \in 1..(Len(t) + 1) /\ b \in Nat
  BY DEF Texts
<1>3. l \in (a - 1)..Len(t)
  BY <1>1, <1>2
<1> HIDE DEF s, l
<1>4. s \in Texts /\ Len(s) = l - a + 1
  BY <1>1, <1>2, <1>3, SegProps
<1>5. PICK e \in 0..Len(s) : TrimEnd(s) = SubSeq(s, 1, e)
  BY <1>4, TrimEndDrops
<1> HIDE DEF a
<1>6. l \in Int /\ a \in Int /\ 1 \in 1..(l - a + 2) /\ e \in (1 - 1)..(l - a + 1)
  BY <1>2, <1>3, <1>4
<1>7. SubSeq(s, 1, e) = SubSeq(t, a + 1 - 1, a + e - 1)
  BY <1>1, <1>2, <1>3, <1>6, SegOfSeg
<1>8. a + 1 - 1 = b + 1 /\ a + e - 1 \in b..Len(t)
  BY <1>2, <1>3, <1>6 DEF a
<1> QED
  BY <1>5, <1>7, <1>8 DEF s, IsNext

-----------------------------------------------------------------------------
(* The filter: g its state, r and c what is about to go out on the two     *)
(* channels, what was pending included, of the text t so far.              *)
Fields == {"phase", "await", "opened", "skip", "skip_r", "hold", "pend_r", "pend_c", "r", "c", "cut"}

Shape(g) ==
    /\ DOMAIN g = Fields
    /\ g.phase \in {"reason", "content", "tool"}
    /\ g.pend_r \in Texts /\ g.pend_c \in Texts
    /\ g.skip \in BOOLEAN /\ g.skip_r \in BOOLEAN /\ g.cut \in BOOLEAN
    /\ (g.skip => g.pend_c = <<>>) /\ (g.skip_r => g.pend_r = <<>>)

(* What goes out on the open channel ends where the held text begins.      *)
Tracks(g, r, c, t, b) ==
    /\ IsRest(g.hold, t, b)
    /\ g.phase = "reason" => c = <<>> /\ EndsAt(r, t, b)
    /\ g.phase = "content" => EndsAt(c, t, b)

Flow(g, r, c, t) ==
    /\ Segment(r, t) /\ Segment(c, t)
    /\ \E b \in 0..Len(t) : Tracks(g, r, c, t, b)

Round(x, t) ==
    /\ DOMAIN x = {"g", "ro", "co"} /\ x.ro \in Texts /\ x.co \in Texts
    /\ Shape(x.g) /\ x.g.await = FALSE
    /\ Flow(x.g, x.g.pend_r \o x.ro, x.g.pend_c \o x.co, t)

LEMMA EndsSegment ==
    ASSUME NEW t, NEW b \in 0..Len(t), NEW s, EndsAt(s, t, b)
    PROVE  Segment(s, t)
BY DEF Segment

LEMMA SendNext ==
    ASSUME NEW t \in Texts, NEW b \in 0..Len(t), NEW e \in b..Len(t), NEW w, IsNext(w, t, b, e),
           NEW p \in Texts, NEW o \in Texts, EndsAt(p \o o, t, b)
    PROVE  o \o w \in Texts /\ EndsAt(p \o (o \o w), t, e) /\ Segment(p \o (o \o w), t)
<1>1. Len(t) \in Nat /\ b + 1 \in 1..(Len(t) + 1) /\ e \in (b + 1 - 1)..Len(t) /\ e \in 0..Len(t)
  BY DEF Texts
<1>2. w \in Texts
  BY <1>1, SegProps DEF IsNext
<1>3. p \in Seq(Symbol) /\ o \in Seq(Symbol) /\ w \in Seq(Symbol)
  BY <1>2 DEF Texts
<1>4. (p \o o) \o w = p \o (o \o w)
  <2>1. Assoc(p, o, w)
    BY <1>3, Regroup, Zenon
  <2> QED
    BY <2>1, Zenon DEF Assoc
<1>5. o \o w \in Seq(Symbol)
  BY <1>3, ConcatProperties
<1>6. EndsAt((p \o o) \o w, t, e)
  BY EndsNext DEF IsNext
<1> QED
  BY <1>1, <1>4, <1>5, <1>6, EndsSegment DEF Texts

LEMMA HoldTyped ==
    ASSUME NEW t \in Texts, NEW b \in 0..Len(t), NEW hold, IsRest(hold, t, b)
    PROVE  hold \in Texts /\ Len(hold) = Len(t) - b /\ Len(hold) \in Nat /\ b \in Nat
<1>1. b + 1 \in 1..(Len(t) + 1) /\ Len(t) \in (b + 1 - 1)..Len(t) /\ Len(t) \in Nat /\ b \in Nat
  BY DEF Texts
<1>2. hold \in Texts /\ Len(hold) = Len(t) - (b + 1) + 1
  BY <1>1, SegProps DEF IsRest
<1> QED
  BY <1>1, <1>2

(* The held text from place j on. *)
LEMMA HoldFrom ==
    ASSUME NEW t \in Texts, NEW b \in 0..Len(t), NEW hold, IsRest(hold, t, b),
           NEW j \in 1..(Len(hold) + 1)
    PROVE  \E d \in 0..Len(t) : IsRest(From(hold, j), t, d)
<1>1. From(hold, j) = SubSeq(t, b + j, Len(t)) /\ b + j - 1 \in b..Len(t)
  BY HoldCut
<1>2. b \in Nat /\ j \in Nat /\ Len(t) \in Nat
  BY HoldTyped DEF Texts
<1>3. (b + j - 1) + 1 = b + j /\ b + j - 1 \in 0..Len(t)
  BY <1>1, <1>2
<1> QED
  BY <1>1, <1>3 DEF IsRest

(* A round that closes the reasoning, or the content, or neither.          *)
LEMMA RouteReasonEnd ==
    ASSUME NEW t \in Texts, NEW x, Round(x, t), x.g.phase = "reason", Has(x.g.hold, ThinkEnd)
    PROVE  Round(Route(x), t) /\ Route(x).g.cut = x.g.cut
<1> DEFINE g == x.g
           k == Find(g.hold, ThinkEnd)
           w == TrimEnd(SubSeq(g.hold, 1, k - 1))
           hold == After(g.hold, ThinkEnd, k)
           h == [g EXCEPT !.hold = hold, !.phase = "content", !.skip = TRUE]
           y == [x EXCEPT !.ro = @ \o w, !.g = h]
<1>1. Route(x) = y
  BY DEF Route
<1>2. PICK b \in 0..Len(t) : Tracks(g, g.pend_r \o x.ro, g.pend_c \o x.co, t, b)
  BY DEF Round, Flow
<1>3. IsRest(g.hold, t, b) /\ g.pend_c \o x.co = <<>> /\ EndsAt(g.pend_r \o x.ro, t, b)
  BY <1>2 DEF Tracks
<1>4. g.hold \in Texts /\ Len(g.hold) \in Nat
  BY <1>3, HoldTyped
<1>5. k \in 1..(Len(g.hold) - 1)
  BY <1>4, MarkerLen, FindIs
<1>6. k \in 1..(Len(g.hold) + 1) /\ k + 2 \in 1..(Len(g.hold) + 1)
  BY <1>4, <1>5
<1>7. PICK e \in b..Len(t) : IsNext(w, t, b, e)
  BY <1>3, <1>6, HoldTrim
<1>8. hold = From(g.hold, k + 2)
  BY MarkerLen DEF After
<1>9. PICK d \in 0..Len(t) : IsRest(hold, t, d)
  <2> DEFINE j == k + 2
  <2>1. j \in 1..(Len(g.hold) + 1) /\ hold = From(g.hold, j)
    BY <1>6, <1>8
  <2> HIDE DEF j, hold
  <2>2. \E d \in 0..Len(t) : IsRest(From(g.hold, j), t, d)
    BY <1>3, <2>1, HoldFrom
  <2> QED
    BY <2>1, <2>2
<1> HIDE DEF k, w, hold
<1>10. DOMAIN g = Fields /\ g.pend_r \in Texts /\ g.pend_c \in Texts /\ x.ro \in Texts /\ x.co \in Texts
  BY DEF Round, Shape
<1>11. /\ DOMAIN h = Fields /\ h.hold = hold /\ h.phase = "content" /\ h.skip = TRUE
       /\ h.skip_r = g.skip_r /\ h.cut = g.cut /\ h.await = g.await /\ h.pend_r = g.pend_r /\ h.pend_c = g.pend_c
  BY <1>10 DEF Fields
<1> HIDE DEF h
<1>12. DOMAIN y = {"g", "ro", "co"} /\ y.g = h /\ y.ro = x.ro \o w /\ y.co = x.co
  BY DEF Round
<1> HIDE DEF y
<1>13. x.ro \o w \in Texts /\ Segment(g.pend_r \o (x.ro \o w), t)
  BY <1>3, <1>7, <1>10, SendNext
<1>14. g.pend_c = <<>>
  BY <1>3, <1>10, ConcatEqualIffEmpty DEF Texts
<1>15. Shape(h)
  BY <1>11, <1>14 DEF Round, Shape
<1>16. EndsAt(<<>>, t, d) /\ Segment(<<>>, t)
  BY EmptyEnds, EndsSegment
<1>17. Tracks(h, h.pend_r \o y.ro, h.pend_c \o y.co, t, d)
  BY <1>3, <1>9, <1>11, <1>12, <1>16 DEF Tracks
<1>18. Segment(h.pend_r \o y.ro, t) /\ Segment(h.pend_c \o y.co, t)
  BY <1>3, <1>11, <1>12, <1>13, <1>16
<1>19. Flow(h, h.pend_r \o y.ro, h.pend_c \o y.co, t)
  BY <1>17, <1>18 DEF Flow
<1> QED
  BY <1>1, <1>10, <1>11, <1>12, <1>13, <1>15, <1>19 DEF Round

LEMMA RouteContentEnd ==
    ASSUME NEW t \in Texts, NEW x, Round(x, t), x.g.phase = "content", Has(x.g.hold, ToolOpen)
    PROVE  Round(Route(x), t) /\ Route(x).g.cut = x.g.cut
<1> DEFINE g == x.g
           k == Find(g.hold, ToolOpen)
           w == TrimEnd(SubSeq(g.hold, 1, k - 1))
           hold == After(g.hold, ToolOpen, k)
           h == [g EXCEPT !.hold = hold, !.phase = "tool", !.skip = FALSE]
           y == [x EXCEPT !.co = @ \o w, !.g = h]
<1>1. Route(x) = y
  BY DEF Route
<1>2. PICK b \in 0..Len(t) : Tracks(g, g.pend_r \o x.ro, g.pend_c \o x.co, t, b)
  BY DEF Round, Flow
<1>3. IsRest(g.hold, t, b) /\ EndsAt(g.pend_c \o x.co, t, b) /\ Segment(g.pend_r \o x.ro, t)
  BY <1>2 DEF Tracks, Round, Flow
<1>4. g.hold \in Texts /\ Len(g.hold) \in Nat
  BY <1>3, HoldTyped
<1>5. k \in 1..(Len(g.hold) - 1)
  BY <1>4, MarkerLen, FindIs
<1>6. k \in 1..(Len(g.hold) + 1) /\ k + 2 \in 1..(Len(g.hold) + 1)
  BY <1>4, <1>5
<1>7. PICK e \in b..Len(t) : IsNext(w, t, b, e)
  BY <1>3, <1>6, HoldTrim
<1>8. hold = From(g.hold, k + 2)
  BY MarkerLen DEF After
<1>9. PICK d \in 0..Len(t) : IsRest(hold, t, d)
  <2> DEFINE j == k + 2
  <2>1. j \in 1..(Len(g.hold) + 1) /\ hold = From(g.hold, j)
    BY <1>6, <1>8
  <2> HIDE DEF j, hold
  <2>2. \E d \in 0..Len(t) : IsRest(From(g.hold, j), t, d)
    BY <1>3, <2>1, HoldFrom
  <2> QED
    BY <2>1, <2>2
<1> HIDE DEF k, w, hold
<1>10. DOMAIN g = Fields /\ g.pend_r \in Texts /\ g.pend_c \in Texts /\ x.ro \in Texts /\ x.co \in Texts
  BY DEF Round, Shape
<1>11. /\ DOMAIN h = Fields /\ h.hold = hold /\ h.phase = "tool" /\ h.skip = FALSE
       /\ h.skip_r = g.skip_r /\ h.cut = g.cut /\ h.await = g.await /\ h.pend_r = g.pend_r /\ h.pend_c = g.pend_c
  BY <1>10 DEF Fields
<1> HIDE DEF h
<1>12. DOMAIN y = {"g", "ro", "co"} /\ y.g = h /\ y.co = x.co \o w /\ y.ro = x.ro
  BY DEF Round
<1> HIDE DEF y
<1>13. x.co \o w \in Texts /\ Segment(g.pend_c \o (x.co \o w), t)
  BY <1>3, <1>7, <1>10, SendNext
<1>15. Shape(h)
  BY <1>11 DEF Round, Shape
<1>17. Tracks(h, h.pend_r \o y.ro, h.pend_c \o y.co, t, d)
  BY <1>9, <1>11 DEF Tracks
<1>18. Segment(h.pend_r \o y.ro, t) /\ Segment(h.pend_c \o y.co, t)
  BY <1>3, <1>11, <1>12, <1>13
<1>19. Flow(h, h.pend_r \o y.ro, h.pend_c \o y.co, t)
  BY <1>17, <1>18 DEF Flow
<1> QED
  BY <1>1, <1>10, <1>11, <1>12, <1>13, <1>15, <1>19 DEF Round

(* The part that may go out, and what stays: one ends where the other      *)
(* begins.                                                                 *)
LEMMA HoldSplit ==
    ASSUME NEW t \in Texts, NEW b \in 0..Len(t), NEW hold, IsRest(hold, t, b), NEW m, Len(m) = 2
    PROVE  LET k == Emittable(hold, m) + 1
           IN  \E e \in b..Len(t) : IsNext(SubSeq(hold, 1, k - 1), t, b, e) /\ IsRest(From(hold, k), t, e)
<1> DEFINE k == Emittable(hold, m) + 1
<1>1. hold \in Texts /\ Len(hold) \in Nat /\ b \in Nat /\ Len(t) \in Nat
  BY HoldTyped DEF Texts
<1>2. k \in 1..(Len(hold) + 1)
  <2>1. Emittable(hold, m) \in 0..Len(hold)
    BY <1>1, EmittableIs
  <2> QED
    BY <1>1, <2>1
<1> HIDE DEF k
<1>3. /\ From(hold, k) = SubSeq(t, b + k, Len(t))
      /\ SubSeq(hold, 1, k - 1) = SubSeq(t, b + 1, b + k - 1)
      /\ b + k - 1 \in b..Len(t)
  BY <1>2, HoldCut
<1>4. (b + k - 1) + 1 = b + k
  BY <1>1, <1>2
<1> DEFINE e == b + k - 1
<1>5. e \in b..Len(t) /\ IsNext(SubSeq(hold, 1, k - 1), t, b, e) /\ IsRest(From(hold, k), t, e)
  BY <1>3, <1>4 DEF IsNext, IsRest
<1> QED
  BY <1>5 DEF k

LEMMA RouteOn ==
    ASSUME NEW t \in Texts, NEW x, Round(x, t), x.g.phase \in {"reason", "content"},
           ~Has(x.g.hold, IF x.g.phase = "reason" THEN ThinkEnd ELSE ToolOpen)
    PROVE  Round(Route(x), t) /\ Route(x).g.cut = x.g.cut
<1> DEFINE g == x.g
           m == IF g.phase = "reason" THEN ThinkEnd ELSE ToolOpen
           k == Emittable(g.hold, m) + 1
           w == SubSeq(g.hold, 1, k - 1)
           hold == From(g.hold, k)
           h == [g EXCEPT !.hold = hold]
           y == IF g.phase = "reason" THEN [x EXCEPT !.ro = @ \o w, !.g = h]
                ELSE [x EXCEPT !.co = @ \o w, !.g = h]
<1>1. Route(x) = y
  BY DEF Route
<1>2. PICK b \in 0..Len(t) : Tracks(g, g.pend_r \o x.ro, g.pend_c \o x.co, t, b)
  BY DEF Round, Flow
<1>3. IsRest(g.hold, t, b) /\ Segment(g.pend_r \o x.ro, t) /\ Segment(g.pend_c \o x.co, t)
  BY <1>2 DEF Tracks, Round, Flow
<1>4. Len(m) = 2
  BY MarkerLen
<1>5. PICK e \in b..Len(t) : IsNext(w, t, b, e) /\ IsRest(hold, t, e)
  <2> HIDE DEF m
  <2> QED
    BY <1>3, <1>4, HoldSplit
<1> HIDE DEF m, k, w, hold
<1>6. DOMAIN g = Fields /\ g.pend_r \in Texts /\ g.pend_c \in Texts /\ x.ro \in Texts /\ x.co \in Texts
  BY DEF Round, Shape
<1>7. /\ DOMAIN h = Fields /\ h.hold = hold /\ h.phase = g.phase /\ h.skip = g.skip
      /\ h.skip_r = g.skip_r /\ h.cut = g.cut /\ h.await = g.await /\ h.pend_r = g.pend_r /\ h.pend_c = g.pend_c
  BY <1>6 DEF Fields
<1> HIDE DEF h
<1>8. Shape(h)
  BY <1>7 DEF Round, Shape
<1>9. e \in 0..Len(t)
  BY DEF Texts
<1>10. CASE g.phase = "reason"
  <2>1. DOMAIN y = {"g", "ro", "co"} /\ y.g = h /\ y.ro = x.ro \o w /\ y.co = x.co
    BY <1>10 DEF Round
  <2> HIDE DEF y
  <2>2. EndsAt(g.pend_r \o x.ro, t, b) /\ g.pend_c \o x.co = <<>>
    BY <1>2, <1>10 DEF Tracks
  <2>3. /\ x.ro \o w \in Texts /\ EndsAt(g.pend_r \o (x.ro \o w), t, e)
        /\ Segment(g.pend_r \o (x.ro \o w), t)
    BY <1>5, <1>6, <2>2, SendNext
  <2>4. Tracks(h, h.pend_r \o y.ro, h.pend_c \o y.co, t, e)
    BY <1>5, <1>7, <1>10, <2>1, <2>2, <2>3 DEF Tracks
  <2>5. Flow(h, h.pend_r \o y.ro, h.pend_c \o y.co, t)
    BY <1>3, <1>7, <1>9, <2>1, <2>3, <2>4 DEF Flow
  <2> QED
    BY <1>1, <1>6, <1>7, <1>8, <2>1, <2>3, <2>5 DEF Round
<1>11. CASE g.phase # "reason"
  <2>1. DOMAIN y = {"g", "ro", "co"} /\ y.g = h /\ y.co = x.co \o w /\ y.ro = x.ro
    BY <1>11 DEF Round
  <2> HIDE DEF y
  <2>2. EndsAt(g.pend_c \o x.co, t, b)
    BY <1>2, <1>11 DEF Tracks
  <2>3. /\ x.co \o w \in Texts /\ EndsAt(g.pend_c \o (x.co \o w), t, e)
        /\ Segment(g.pend_c \o (x.co \o w), t)
    BY <1>5, <1>6, <2>2, SendNext
  <2>4. Tracks(h, h.pend_r \o y.ro, h.pend_c \o y.co, t, e)
    BY <1>5, <1>7, <1>11, <2>1, <2>2, <2>3 DEF Tracks
  <2>5. Flow(h, h.pend_r \o y.ro, h.pend_c \o y.co, t)
    BY <1>3, <1>7, <1>9, <2>1, <2>3, <2>4 DEF Flow
  <2> QED
    BY <1>1, <1>6, <1>7, <1>8, <2>1, <2>3, <2>5 DEF Round
<1> QED
  BY <1>10, <1>11

LEMMA RouteKeeps ==
    ASSUME NEW t \in Texts, NEW x, Round(x, t)
    PROVE  Round(Route(x), t) /\ Route(x).g.cut = x.g.cut
<1>1. x.g.phase \in {"reason", "content", "tool"}
  BY DEF Round, Shape
<1>2. CASE x.g.phase = "tool"
  <2>1. Route(x) = x
    BY <1>2 DEF Route
  <2> QED
    BY <2>1
<1>3. CASE x.g.phase = "reason"
  BY <1>3, RouteReasonEnd, RouteOn
<1>4. CASE x.g.phase = "content"
  BY <1>4, RouteContentEnd, RouteOn
<1> QED
  BY <1>1, <1>2, <1>3, <1>4

-----------------------------------------------------------------------------
(* What goes out on a channel: p was pending, o is new.                    *)
Led(skip, o) == IF skip THEN TrimLead(o) ELSE o
Chunk(skip, p, o) == p \o Led(skip, o)
Rest(s) == From(s, Clip(s) + 1)

LEMMA RestEnds ==
    ASSUME NEW t \in Texts, NEW s \in Texts
    PROVE  /\ Rest(s) \in Texts
           /\ s = <<>> => Rest(s) = <<>>
           /\ \A b \in 0..Len(t) : EndsAt(s, t, b) => EndsAt(Rest(s), t, b)
<1> DEFINE i == Clip(s) + 1
<1>1. Len(s) \in Nat /\ i \in 1..(Len(s) + 1)
  BY ClipIn DEF Texts
<1>2. Rest(s) = SubSeq(s, i, Len(s))
  BY DEF Rest, From
<1> HIDE DEF i
<1>3. SubSeq(s, i, Len(s)) \in Texts
  <2>1. Len(s) \in (i - 1)..Len(s)
    BY <1>1
  <2> QED
    BY <1>1, <2>1, SegProps
<1>4. ASSUME s = <<>> PROVE Rest(s) = <<>>
  <2>1. Len(s) = 0
    BY <1>4
  <2>2. Len(s) < i /\ i \in Int /\ Len(s) \in Int
    BY <1>1, <2>1
  <2> QED
    BY <1>2, <2>2, SubSeqEmpty
<1>5. ASSUME NEW b \in 0..Len(t), EndsAt(s, t, b) PROVE EndsAt(Rest(s), t, b)
  BY <1>1, <1>2, <1>5, EndsBack
<1> QED
  BY <1>2, <1>3, <1>4, <1>5

LEMMA LedEnds ==
    ASSUME NEW t \in Texts, NEW o \in Texts, NEW skip \in BOOLEAN
    PROVE  /\ Led(skip, o) \in Texts
           /\ o = <<>> => Led(skip, o) = <<>>
           /\ \A b \in 0..Len(t) : EndsAt(o, t, b) => EndsAt(Led(skip, o), t, b)
<1>1. PICK i \in 1..(Len(o) + 1) : TrimLead(o) = SubSeq(o, i, Len(o))
  BY TrimLeadSkips
<1>2. Len(o) \in Nat
  BY DEF Texts
<1>3. TrimLead(o) \in Texts
  <2>1. Len(o) \in (i - 1)..Len(o)
    BY <1>2
  <2> QED
    BY <1>1, <2>1, SegProps
<1>4. ASSUME o = <<>> PROVE TrimLead(o) = <<>>
  <2>1. Len(o) = 0
    BY <1>4
  <2>2. Len(o) < i /\ i \in Int /\ Len(o) \in Int
    BY <1>1, <2>1
  <2> QED
    BY <1>1, <2>2, SubSeqEmpty
<1>5. ASSUME NEW b \in 0..Len(t), EndsAt(o, t, b) PROVE EndsAt(TrimLead(o), t, b)
  BY <1>1, <1>5, EndsBack
<1> QED
  BY <1>3, <1>4, <1>5 DEF Led

(* A chunk is a segment of the text, so that it ends with a character, and *)
(* what is left of it still ends where it did.                             *)
LEMMA ChunkEnds ==
    ASSUME NEW t \in Texts, NEW p \in Texts, NEW o \in Texts, NEW skip \in BOOLEAN,
           skip => p = <<>>, Segment(p \o o, t)
    PROVE  LET r == Chunk(skip, p, o) IN
           /\ Rest(r) \in Texts /\ Segment(Rest(r), t)
           /\ \A b \in 0..Len(t) : EndsAt(p \o o, t, b) => EndsAt(Rest(r), t, b)
           /\ p \o o = <<>> => Rest(r) = <<>>
           /\ skip /\ Led(skip, o) = <<>> => Rest(r) = <<>>
           /\ WellFormed(t) => ~Ends(r, Clip(r))
<1> DEFINE r == Chunk(skip, p, o)
<1>1. p \in Seq(Symbol) /\ o \in Seq(Symbol)
  BY DEF Texts
<1>2. \A b \in 0..Len(t) : EndsAt(p \o o, t, b) => EndsAt(r, t, b)
  <2>1. CASE skip
    <3>1. p \o o = o /\ r = Led(skip, o)
      <4>1. p = <<>> /\ Led(skip, o) \in Seq(Symbol)
        BY <2>1, LedEnds DEF Texts
      <4> QED
        BY <1>1, <4>1, ConcatEmptySeq DEF Chunk
    <3> HIDE DEF r
    <3> QED
      BY <3>1, LedEnds
  <2>2. CASE ~skip
    BY <2>2 DEF Chunk, Led
  <2> QED
    BY <2>1, <2>2
<1>3. r \in Texts
  <2>1. Led(skip, o) \in Seq(Symbol)
    BY LedEnds DEF Texts
  <2>2. p \o Led(skip, o) \in Seq(Symbol)
    BY <1>1, <2>1, ConcatProperties
  <2> QED
    BY <2>2 DEF Chunk, Texts
<1>4. ASSUME p \o o = <<>> PROVE r = <<>>
  <2>1. p = <<>> /\ o = <<>>
    BY <1>1, <1>4, ConcatEqualIffEmpty
  <2>2. Led(skip, o) = <<>>
    BY <2>1, LedEnds
  <2> QED
    BY <2>1, <2>2 DEF Chunk
<1>5. ASSUME skip, Led(skip, o) = <<>> PROVE r = <<>>
  <2>1. r = p \o Led(skip, o)
    BY DEF Chunk
  <2>2. p = <<>> /\ <<>> \in Seq(Symbol)
    BY <1>5
  <2>3. <<>> \o <<>> = <<>>
    BY <2>2, ConcatEmptySeq
  <2> HIDE DEF r
  <2> QED
    BY <1>5, <2>1, <2>2, <2>3
<1> HIDE DEF r
<1>6. PICK b \in 0..Len(t) : EndsAt(p \o o, t, b)
  BY DEF Segment
<1>7. EndsAt(r, t, b) /\ Segment(r, t)
  BY <1>2, <1>6, EndsSegment
<1>8. Rest(r) \in Texts /\ EndsAt(Rest(r), t, b)
  BY <1>3, <1>7, RestEnds
<1>9. Segment(Rest(r), t)
  BY <1>8, EndsSegment
<1>10. \A c \in 0..Len(t) : EndsAt(p \o o, t, c) => EndsAt(Rest(r), t, c)
  BY <1>2, <1>3, RestEnds
<1>11. r = <<>> => Rest(r) = <<>>
  BY <1>3, RestEnds
<1>12. WellFormed(t) => ~Ends(r, Clip(r))
  BY <1>3, <1>7, SegmentFormed, ClipWhole
<1> QED
  BY <1>4, <1>5, <1>8, <1>9, <1>10, <1>11, <1>12 DEF r

LEMMA SentKeeps ==
    ASSUME NEW t \in Texts, NEW x, Round(x, t)
    PROVE  LET h == Sent(x) IN
           /\ Shape(h) /\ Flow(h, h.pend_r, h.pend_c, t) /\ h.await = x.g.await
           /\ WellFormed(t) => h.cut = x.g.cut
<1> DEFINE g == x.g
           lr == Led(g.skip_r, x.ro)
           lc == Led(g.skip, x.co)
           r == Chunk(g.skip_r, g.pend_r, x.ro)
           c == Chunk(g.skip, g.pend_c, x.co)
           sr == g.r \o SubSeq(r, 1, Clip(r))
           sc == g.c \o SubSeq(c, 1, Clip(c))
           pr == Rest(r)
           pc == Rest(c)
           er == Ends(r, Clip(r))
           ec == Ends(c, Clip(c))
           kr == g.skip_r /\ lr = <<>>
           kc == g.skip /\ lc = <<>>
           cut == g.cut \/ er \/ ec
           h == [g EXCEPT !.skip_r = kr, !.skip = kc, !.r = sr, !.pend_r = pr, !.c = sc, !.pend_c = pc,
                          !.cut = cut]
<1>1. Sent(x) = h
  BY DEF Sent, Led, Chunk, Rest, Ends
<1>2. /\ DOMAIN g = Fields /\ g.phase \in {"reason", "content", "tool"}
      /\ g.pend_r \in Texts /\ g.pend_c \in Texts /\ x.ro \in Texts /\ x.co \in Texts
      /\ g.skip \in BOOLEAN /\ g.skip_r \in BOOLEAN /\ g.cut \in BOOLEAN
      /\ (g.skip => g.pend_c = <<>>) /\ (g.skip_r => g.pend_r = <<>>)
      /\ Segment(g.pend_r \o x.ro, t) /\ Segment(g.pend_c \o x.co, t)
  BY DEF Round, Shape, Flow
<1>3. /\ pr \in Texts /\ Segment(pr, t)
      /\ \A b \in 0..Len(t) : EndsAt(g.pend_r \o x.ro, t, b) => EndsAt(pr, t, b)
      /\ kr => pr = <<>>
      /\ WellFormed(t) => ~er
  BY <1>2, ChunkEnds
<1>4. /\ pc \in Texts /\ Segment(pc, t)
      /\ \A b \in 0..Len(t) : EndsAt(g.pend_c \o x.co, t, b) => EndsAt(pc, t, b)
      /\ g.pend_c \o x.co = <<>> => pc = <<>>
      /\ kc => pc = <<>>
      /\ WellFormed(t) => ~ec
  BY <1>2, ChunkEnds
<1>5. kr \in BOOLEAN /\ kc \in BOOLEAN /\ cut \in BOOLEAN /\ (~er /\ ~ec => cut = g.cut)
  BY <1>2
<1> HIDE DEF sr, sc, pr, pc, kr, kc, cut
<1>6. /\ DOMAIN h = Fields /\ h.phase = g.phase /\ h.hold = g.hold /\ h.await = g.await
      /\ h.skip_r = kr /\ h.skip = kc /\ h.pend_r = pr /\ h.pend_c = pc /\ h.cut = cut
  BY <1>2 DEF Fields
<1> HIDE DEF h
<1>7. Shape(h)
  BY <1>2, <1>3, <1>4, <1>5, <1>6 DEF Shape
<1>8. PICK b \in 0..Len(t) : Tracks(g, g.pend_r \o x.ro, g.pend_c \o x.co, t, b)
  BY DEF Round, Flow
<1>9. Tracks(h, h.pend_r, h.pend_c, t, b)
  BY <1>3, <1>4, <1>6, <1>8 DEF Tracks
<1>10. Flow(h, h.pend_r, h.pend_c, t)
  BY <1>3, <1>4, <1>6, <1>9 DEF Flow
<1>11. WellFormed(t) => h.cut = g.cut
  BY <1>3, <1>4, <1>5, <1>6
<1> QED
  BY <1>1, <1>6, <1>7, <1>10, <1>11

-----------------------------------------------------------------------------
(* Between two pieces. *)
Stream(g, t) ==
    /\ Shape(g) /\ Flow(g, g.pend_r, g.pend_c, t)
    /\ g.await \in BOOLEAN
    /\ g.await => g.phase = "content" /\ g.pend_r = <<>> /\ g.pend_c = <<>>

Holding(g, u) == [g EXCEPT !.hold = @ \o u]

LEMMA HeldKeeps ==
    ASSUME NEW t \in Texts, NEW u \in Texts, NEW g, Stream(g, t)
    PROVE  Stream(Holding(g, u), t \o u) /\ Holding(g, u).cut = g.cut
<1> DEFINE w == t \o u
           hold == g.hold \o u
           h == [g EXCEPT !.hold = hold]
<1>1. DOMAIN g = Fields
  BY DEF Stream, Shape
<1>2. PICK b \in 0..Len(t) : Tracks(g, g.pend_r, g.pend_c, t, b)
  BY DEF Stream, Flow
<1>3. IsRest(g.hold, t, b)
  BY <1>2 DEF Tracks
<1>4. IsRest(hold, w, b)
  BY <1>3, RestGrow DEF IsRest
<1>5. Len(w) = Len(t) + Len(u) /\ Len(t) \in Nat /\ Len(u) \in Nat
  BY DEF Texts
<1>6. b \in 0..Len(w)
  BY <1>5
<1>7. Segment(g.pend_r, w) /\ Segment(g.pend_c, w)
  BY SegmentGrow DEF Stream, Flow
<1>8. \A s : EndsAt(s, t, b) => EndsAt(s, w, b)
  BY EndsGrow
<1> HIDE DEF w, hold
<1>9. /\ DOMAIN h = Fields /\ h.hold = hold /\ h.phase = g.phase /\ h.skip = g.skip
      /\ h.skip_r = g.skip_r /\ h.cut = g.cut /\ h.await = g.await /\ h.pend_r = g.pend_r
      /\ h.pend_c = g.pend_c
  BY <1>1 DEF Fields
<1> HIDE DEF h
<1>10. Tracks(h, h.pend_r, h.pend_c, w, b)
  BY <1>2, <1>4, <1>8, <1>9 DEF Tracks
<1>11. Flow(h, h.pend_r, h.pend_c, w)
  BY <1>6, <1>7, <1>9, <1>10 DEF Flow
<1>12. Shape(h)
  BY <1>9 DEF Stream, Shape
<1>13. Stream(h, w) /\ h.cut = g.cut
  BY <1>9, <1>11, <1>12 DEF Stream
<1> QED
  BY <1>13 DEF h, w, hold, Holding

LEMMA WatchedKeeps ==
    ASSUME NEW t \in Texts, NEW g, Stream(g, t)
    PROVE  LET h == Watched(g) IN Stream(h, t) /\ h.await = FALSE /\ h.cut = g.cut
<1> DEFINE head == TrimLead(g.hold)
<1>1. DOMAIN g = Fields /\ g.await \in BOOLEAN
  BY DEF Stream, Shape
<1>2. CASE ~g.await
  <2>1. Watched(g) = g
    BY <1>2 DEF Watched
  <2> QED
    BY <1>1, <1>2, <2>1
<1>3. CASE g.await /\ ~IsPrefix(ThinkOpen, head)
  <2> DEFINE h == [g EXCEPT !.await = FALSE]
  <2>1. Watched(g) = h
    BY <1>3 DEF Watched
  <2>2. /\ DOMAIN h = Fields /\ h.hold = g.hold /\ h.phase = g.phase /\ h.skip = g.skip
        /\ h.skip_r = g.skip_r /\ h.cut = g.cut /\ h.await = FALSE /\ h.pend_r = g.pend_r
        /\ h.pend_c = g.pend_c
    BY <1>1 DEF Fields
  <2> HIDE DEF h
  <2>3. Shape(h)
    BY <2>2 DEF Stream, Shape
  <2>4. PICK b \in 0..Len(t) : Tracks(g, g.pend_r, g.pend_c, t, b)
    BY DEF Stream, Flow
  <2>5. Tracks(h, h.pend_r, h.pend_c, t, b)
    BY <2>2, <2>4 DEF Tracks
  <2>6. Flow(h, h.pend_r, h.pend_c, t)
    BY <2>2, <2>5 DEF Stream, Flow
  <2> QED
    BY <2>1, <2>2, <2>3, <2>6 DEF Stream
<1>4. CASE g.await /\ IsPrefix(ThinkOpen, head)
  <2> DEFINE hold == From(head, 3)
             h == [g EXCEPT !.await = FALSE, !.hold = hold, !.phase = "reason", !.skip_r = TRUE,
                            !.opened = TRUE]
  <2>1. Watched(g) = h
    BY <1>4 DEF Watched
  <2>2. PICK b \in 0..Len(t) : IsRest(g.hold, t, b)
    BY DEF Stream, Flow, Tracks
  <2>3. g.hold \in Texts
    BY <2>2, HoldTyped
  <2>4. PICK i \in 1..(Len(g.hold) + 1) : head = SubSeq(g.hold, i, Len(g.hold))
    BY <2>3, TrimLeadSkips
  <2>5. PICK c \in 0..Len(t) : IsRest(head, t, c)
    BY <2>2, <2>4, HoldFrom DEF From
  <2> HIDE DEF head
  <2>6. Len(head) \in Nat /\ 3 \in 1..(Len(head) + 1)
    <3>1. Len(ThinkOpen) <= Len(head)
      BY <1>4 DEF IsPrefix
    <3>2. Len(head) \in Nat
      BY <2>5, HoldTyped
    <3> QED
      BY <3>1, <3>2, MarkerLen
  <2>7. PICK d \in 0..Len(t) : IsRest(hold, t, d)
    <3> DEFINE j == 3
    <3>1. j \in 1..(Len(head) + 1)
      BY <2>6
    <3> HIDE DEF j
    <3>2. \E d \in 0..Len(t) : IsRest(From(head, j), t, d)
      BY <2>5, <3>1, HoldFrom
    <3> QED
      BY <3>2 DEF j
  <2> HIDE DEF hold
  <2>8. /\ DOMAIN h = Fields /\ h.hold = hold /\ h.phase = "reason" /\ h.skip = g.skip
        /\ h.skip_r = TRUE /\ h.cut = g.cut /\ h.await = FALSE /\ h.pend_r = g.pend_r
        /\ h.pend_c = g.pend_c
    BY <1>1 DEF Fields
  <2> HIDE DEF h
  <2>9. g.pend_r = <<>> /\ g.pend_c = <<>>
    BY <1>4 DEF Stream
  <2>10. Shape(h)
    BY <2>8, <2>9 DEF Stream, Shape
  <2>11. EndsAt(<<>>, t, d)
    BY EmptyEnds
  <2>12. Tracks(h, h.pend_r, h.pend_c, t, d)
    BY <2>7, <2>8, <2>9, <2>11 DEF Tracks
  <2>13. Flow(h, h.pend_r, h.pend_c, t)
    BY <2>8, <2>12 DEF Stream, Flow
  <2> QED
    BY <2>1, <2>8, <2>10, <2>13 DEF Stream
<1> QED
  BY <1>2, <1>3, <1>4

LEMMA EmitKeeps ==
    ASSUME text \in Texts, NEW piece \in Texts, Stream(f, text)
    PROVE  LET h == emit_piece(piece)
               t == text \o piece
           IN  Stream(h, t) /\ (WellFormed(t) => h.cut = f.cut)
<1> DEFINE t == text \o piece
           held == Holding(f, piece)
           seen == Watched(held)
           x == [g |-> seen, ro |-> <<>>, co |-> <<>>]
<1>1. t \in Texts
  BY ConcatProperties DEF Texts
<1>2. Stream(held, t) /\ held.cut = f.cut
  BY HeldKeeps
<1>3. CASE held.await /\ Undecided(held.hold)
  <2>1. emit_piece(piece) = held
    BY <1>3 DEF emit_piece, Holding
  <2> QED
    BY <1>2, <2>1
<1>4. CASE ~(held.await /\ Undecided(held.hold))
  <2>1. emit_piece(piece) = Sent(Route(Route(x)))
    BY <1>4 DEF emit_piece, Holding
  <2> HIDE DEF held, t
  <2>2. Stream(seen, t) /\ seen.await = FALSE /\ seen.cut = f.cut
    BY <1>1, <1>2, WatchedKeeps
  <2> HIDE DEF seen
  <2>3. x.g = seen /\ x.ro = <<>> /\ x.co = <<>> /\ DOMAIN x = {"g", "ro", "co"}
    OBVIOUS
  <2> HIDE DEF x
  <2>4. Shape(seen) /\ seen.pend_r \in Seq(Symbol) /\ seen.pend_c \in Seq(Symbol)
    BY <2>2 DEF Stream, Shape, Texts
  <2>5. seen.pend_r \o x.ro = seen.pend_r /\ seen.pend_c \o x.co = seen.pend_c
    BY <2>3, <2>4, ConcatEmptySeq
  <2>6. <<>> \in Texts
    BY DEF Texts
  <2>7. Round(x, t)
    BY <2>2, <2>3, <2>4, <2>5, <2>6 DEF Round, Stream
  <2> DEFINE y == Route(x)
             z == Route(y)
             h == Sent(z)
  <2>8. Round(y, t) /\ y.g.cut = x.g.cut
    BY <1>1, <2>7, RouteKeeps
  <2> HIDE DEF y
  <2>9. Round(z, t) /\ z.g.cut = y.g.cut
    BY <1>1, <2>8, RouteKeeps
  <2> HIDE DEF z
  <2>10. /\ Shape(h) /\ Flow(h, h.pend_r, h.pend_c, t) /\ h.await = z.g.await
         /\ WellFormed(t) => h.cut = z.g.cut
    BY <1>1, <2>9, SentKeeps
  <2> HIDE DEF h
  <2>11. h.await = FALSE
    BY <2>9, <2>10 DEF Round
  <2>12. Stream(h, t) /\ (WellFormed(t) => h.cut = f.cut)
    BY <2>2, <2>3, <2>8, <2>9, <2>10, <2>11 DEF Stream
  <2> QED
    BY <2>1, <2>12 DEF h, y, z, t
<1> QED
  BY <1>3, <1>4

-----------------------------------------------------------------------------
FInd ==
    /\ text \in Texts
    /\ ~fin => Stream(f, text)
    /\ WellFormed(text) => f.cut = FALSE

LEMMA FInitInd == FInit => FInd
<1> SUFFICES ASSUME FInit PROVE FInd
  OBVIOUS
<1>1. text = <<>> /\ text \in Texts
  BY DEF FInit, Texts
<1>2. fmt.reasoning \in BOOLEAN /\ fmt.lfm2 \in BOOLEAN
  BY FilterAssumption DEF FInit
<1>3. /\ DOMAIN f = Fields /\ f.hold = <<>> /\ f.pend_r = <<>> /\ f.pend_c = <<>>
      /\ f.skip = FALSE /\ f.skip_r = FALSE /\ f.cut = FALSE /\ f.await = fmt.lfm2
      /\ f.phase = IF fmt.reasoning /\ ~fmt.lfm2 THEN "reason" ELSE "content"
  BY DEF FInit, Fields
<1>4. <<>> \in Texts
  BY DEF Texts
<1>5. Shape(f)
  BY <1>3, <1>4 DEF Shape
<1>6. 0 \in 0..Len(text) /\ Len(text) = 0
  BY <1>1
<1>7. EndsAt(<<>>, text, 0) /\ Segment(<<>>, text)
  BY <1>1, <1>6, EmptyEnds, EndsSegment
<1>8. IsRest(f.hold, text, 0)
  BY <1>3, <1>6, SubSeqEmpty DEF IsRest
<1>9. Tracks(f, f.pend_r, f.pend_c, text, 0)
  BY <1>3, <1>7, <1>8 DEF Tracks
<1>10. Flow(f, f.pend_r, f.pend_c, text)
  BY <1>3, <1>6, <1>7, <1>9 DEF Flow
<1>11. Stream(f, text)
  BY <1>2, <1>3, <1>5, <1>10 DEF Stream
<1> QED
  BY <1>1, <1>3, <1>11 DEF FInd

LEMMA FNextInd == FInd /\ [FNext]_fvars => FInd'
<1> SUFFICES ASSUME FInd, [FNext]_fvars PROVE FInd'
  OBVIOUS
<1>1. CASE Emit
  <2>1. PICK piece \in Pieces : text' = text \o piece /\ f' = emit_piece(piece)
    BY <1>1 DEF Emit
  <2>3. ~fin /\ fin' = fin
    BY <1>1 DEF Emit
  <2>4. text \in Texts /\ piece \in Texts /\ Stream(f, text) /\ (WellFormed(text) => f.cut = FALSE)
    BY <2>3, FilterAssumption DEF FInd, Texts, Symbol
  <2> DEFINE h == emit_piece(piece)
             t == text \o piece
  <2>5. Stream(h, t) /\ (WellFormed(t) => h.cut = f.cut)
    BY <2>4, EmitKeeps
  <2>6. WellFormed(t) => WellFormed(text)
    <3>1. Len(t) = Len(text) + Len(piece) /\ Len(text) \in Nat /\ Len(piece) \in Nat
          /\ DOMAIN t = 1..Len(t) /\ DOMAIN text = 1..Len(text)
      BY <2>4 DEF Texts
    <3>2. \A i \in DOMAIN text : i \in DOMAIN t /\ t[i] = text[i]
      BY <2>4, <3>1 DEF Texts
    <3> HIDE DEF t
    <3> QED
      BY <3>2 DEF WellFormed
  <2>7. t \in Texts
    BY <2>4, ConcatProperties DEF Texts
  <2> HIDE DEF h, t
  <2>8. text' = t /\ f' = h
    BY <2>1 DEF h, t
  <2> QED
    BY <2>4, <2>5, <2>6, <2>7, <2>8 DEF FInd
<1>2. CASE Finish
  <2>1. text' = text /\ fin' = TRUE /\ (f' = Flushed \/ f' = f) /\ ~fin
    BY <1>2 DEF Finish
  <2>2. DOMAIN f = Fields
    BY <2>1 DEF FInd, Stream, Shape
  <2>3. f'.cut = f.cut
    BY <2>1, <2>2 DEF Flushed, Fields
  <2> QED
    BY <2>1, <2>3 DEF FInd, WellFormed
<1>3. CASE UNCHANGED fvars
  BY <1>3 DEF FInd, fvars, WellFormed, Stream, Shape, Flow, Tracks, EndsAt, Segment, IsRest
<1> QED
  BY <1>1, <1>2, <1>3 DEF FNext

(* "Each SSE chunk must be valid UTF-8 on its own": as long as the reply   *)
(* consists of whole characters, no chunk that emit_piece() sends ends     *)
(* inside one, however the pieces cut characters and markers and whatever  *)
(* was held back, trimmed or skipped in between.                           *)
THEOREM WholeCharactersSent == CSpec => []WholeCharacters
<1>1. CInit => FInit
  BY DEF CInit
<1>2. [CNext]_convars => [FNext]_fvars
  BY DEF CNext, Reply, Ask, convars
<1>3. FInd => WholeCharacters
  BY DEF FInd, WholeCharacters
<1> QED
  BY <1>1, <1>2, <1>3, FInitInd, FNextInd, PTL DEF CSpec

-----------------------------------------------------------------------------
(* The tool calls of a text: parse_tool_calls() goes from block to block,  *)
(* g[p] is what it makes of the text from p on.                            *)
Later(s, m, p) == {i \in Places(s, m) : i >= p}

NoBlock(s, p) == Later(s, ToolOpen, p) = {} \/ Later(s, ToolEnd, Min(Later(s, ToolOpen, p))) = {}
OpenAt(s, p) == Min(Later(s, ToolOpen, p))
EndAt(s, p) == Min(Later(s, ToolEnd, OpenAt(s, p)))

PartStep(s, g, p) ==
    IF NoBlock(s, p) THEN [out |-> From(s, p), calls |-> <<>>]
    ELSE LET a == OpenAt(s, p)
             b == EndAt(s, p)
             block == SubSeq(s, a + 2, b - 1)
             later == g[b + 2]
         IN  IF Parses(block)
             THEN [out |-> SubSeq(s, p, a - 1) \o later.out, calls |-> <<block>> \o later.calls]
             ELSE [out |-> SubSeq(s, p, b + 1) \o later.out, calls |-> later.calls]

PartsOf(s) == CHOOSE g : g = [p \in 1..(Len(s) + 1) |-> PartStep(s, g, p)]

LEMMA ParseIs ==
    ASSUME NEW s
    PROVE  parse_tool_calls(s).calls = PartsOf(s)[Scan(s)].calls
BY DEF parse_tool_calls, PartsOf, PartStep, NoBlock, OpenAt, EndAt, Later

LEMMA LaterIn ==
    ASSUME NEW s \in Texts, NEW m, Len(m) = 2, NEW p, Later(s, m, p) # {}
    PROVE  /\ Min(Later(s, m, p)) \in Later(s, m, p)
           /\ \A i \in Later(s, m, p) : Min(Later(s, m, p)) <= i
           /\ Min(Later(s, m, p)) \in 1..(Len(s) - 1) /\ Min(Later(s, m, p)) >= p
<1>1. Len(s) \in Nat
  BY DEF Texts
<1>2. Later(s, m, p) \subseteq 1..(Len(s) - 1) /\ \A i \in Later(s, m, p) : i >= p
  BY <1>1 DEF Later, Places
<1>3. Later(s, m, p) \subseteq Nat
  BY <1>1, <1>2
<1>4. /\ Min(Later(s, m, p)) \in Later(s, m, p)
      /\ \A i \in Later(s, m, p) : Min(Later(s, m, p)) <= i
  BY <1>3, MinIs
<1> QED
  BY <1>2, <1>4

LEMMA BlockIn ==
    ASSUME NEW s \in Texts, NEW p \in 1..(Len(s) + 1), ~NoBlock(s, p)
    PROVE  /\ OpenAt(s, p) \in p..(Len(s) - 1) /\ EndAt(s, p) \in OpenAt(s, p)..(Len(s) - 1)
           /\ EndAt(s, p) + 2 \in (p + 1)..(Len(s) + 1)
<1>1. Len(s) \in Nat /\ p \in Nat
  BY DEF Texts
<1>2. OpenAt(s, p) \in 1..(Len(s) - 1) /\ OpenAt(s, p) >= p
  BY MarkerLen, LaterIn DEF NoBlock, OpenAt
<1>3. EndAt(s, p) \in 1..(Len(s) - 1) /\ EndAt(s, p) >= OpenAt(s, p)
  BY MarkerLen, LaterIn DEF NoBlock, OpenAt, EndAt
<1> QED
  BY <1>1, <1>2, <1>3

(* The steps look ahead only, so that the recursion has a solution. *)
LEMMA PartAhead ==
    ASSUME NEW s \in Texts, NEW p \in 1..(Len(s) + 1), NEW g, NEW h,
           \A q \in (p + 1)..(Len(s) + 1) : g[q] = h[q]
    PROVE  PartStep(s, g, p) = PartStep(s, h, p)
<1>1. CASE NoBlock(s, p)
  BY <1>1 DEF PartStep
<1>2. CASE ~NoBlock(s, p)
  <2>1. g[EndAt(s, p) + 2] = h[EndAt(s, p) + 2]
    BY <1>2, BlockIn
  <2> QED
    BY <2>1 DEF PartStep
<1> QED
  BY <1>1, <1>2

LEMMA PartsStep ==
    ASSUME NEW s \in Texts
    PROVE  \A p \in 1..(Len(s) + 1) : PartsOf(s)[p] = PartStep(s, PartsOf(s), p)
<1> DEFINE N == Len(s) + 1
           Solves(g, m) == DOMAIN g = 1..N /\ g = [p \in 1..N |-> g[p]]
                           /\ \A p \in (N + 1 - m)..N : g[p] = PartStep(s, g, p)
           T == {m \in 0..N : \E g : Solves(g, m)}
<1>1. N \in Nat
  BY DEF Texts
<1>2. 0 \in T
  <2> DEFINE g == [p \in 1..N |-> p]
  <2>1. DOMAIN g = 1..N /\ g = [p \in 1..N |-> g[p]]
    OBVIOUS
  <2>2. (N + 1 - 0)..N = {}
    BY <1>1
  <2> HIDE DEF g
  <2>3. Solves(g, 0)
    BY <2>1, <2>2
  <2>4. 0 \in 0..N
    BY <1>1
  <2> HIDE DEF Solves
  <2> QED
    BY <2>3, <2>4
<1>3. ASSUME NEW m \in 0..(N - 1), m \in T PROVE m + 1 \in T
  <2>1. PICK g : Solves(g, m)
    BY <1>3
  <2> DEFINE c == N - m
             v == PartStep(s, g, c)
             h == [g EXCEPT ![c] = v]
  <2>2. c \in 1..N /\ m \in Nat /\ N + 1 - (m + 1) = c /\ N + 1 - m = c + 1 /\ m + 1 \in 0..N
    BY <1>1
  <2> HIDE DEF c, v
  <2>3. DOMAIN h = 1..N /\ h = [p \in 1..N |-> h[p]] /\ h[c] = v /\ \A q \in (c + 1)..N : h[q] = g[q]
    <3>1. DOMAIN g = 1..N /\ g = [p \in 1..N |-> g[p]]
      BY <2>1
    <3>2. \A q \in (c + 1)..N : q \in 1..N /\ q # c
      BY <1>1, <2>2
    <3> HIDE DEF N
    <3>3. DOMAIN h = 1..N /\ h[c] = v /\ \A q \in 1..N : q # c => h[q] = g[q]
      BY <2>2, <3>1
    <3>4. h = [p \in 1..N |-> h[p]]
      BY <2>2, <3>1
    <3> QED
      BY <3>2, <3>3, <3>4
  <2> HIDE DEF h
  <2>4. \A p \in c..N : h[p] = PartStep(s, h, p)
    <3> SUFFICES ASSUME NEW p \in c..N PROVE h[p] = PartStep(s, h, p)
      OBVIOUS
    <3>1. p \in 1..N /\ \A q \in (p + 1)..N : q \in (c + 1)..N
      BY <1>1, <2>2
    <3>2. \A q \in (p + 1)..N : h[q] = g[q]
      BY <2>3, <3>1
    <3>3. PartStep(s, h, p) = PartStep(s, g, p)
      BY <3>1, <3>2, PartAhead
    <3>4. h[p] = PartStep(s, g, p)
      <4>1. CASE p = c
        BY <2>3, <4>1 DEF v
      <4>2. CASE p # c
        <5>1. p \in (c + 1)..N
          BY <1>1, <2>2, <4>2
        <5> QED
          BY <2>1, <2>2, <2>3, <5>1
      <4> QED
        BY <4>1, <4>2
    <3> QED
      BY <3>3, <3>4
  <2>5. Solves(h, m + 1)
    BY <2>2, <2>3, <2>4
  <2> HIDE DEF Solves
  <2> QED
    BY <2>2, <2>5
<1>4. N \in T
  <2> HIDE DEF T, N
  <2>1. \A i \in 0..N : i \in T
    BY <1>1, <1>2, <1>3, Climb
  <2> QED
    BY <1>1, <2>1
<1>5. PICK g : Solves(g, N)
  BY <1>4
<1>6. \A p \in 1..N : g[p] = PartStep(s, g, p)
  BY <1>1, <1>5
<1>7. g = [p \in 1..N |-> PartStep(s, g, p)]
  BY <1>5, <1>6
<1>8. \E k : k = [p \in 1..N |-> PartStep(s, k, p)]
  BY <1>7
<1>9. PartsOf(s) = [p \in 1..N |-> PartStep(s, PartsOf(s), p)]
  BY <1>8 DEF PartsOf
<1> HIDE DEF Solves, T
<1>10. \A p \in 1..N : [q \in 1..N |-> PartStep(s, PartsOf(s), q)][p] = PartStep(s, PartsOf(s), p)
  OBVIOUS
<1> QED
  BY <1>9, <1>10

-----------------------------------------------------------------------------
(* A text and its end from place q on: the places of markers, and the      *)
(* calls, are the same but for the shift.                                  *)
LEMMA PlacesShift ==
    ASSUME NEW s \in Texts, NEW q \in 1..(Len(s) + 1), NEW m, Len(m) = 2
    PROVE  \A i \in Int : i \in Places(From(s, q), m) <=> i >= 1 /\ i + q - 1 \in Places(s, m)
<1> DEFINE r == From(s, q)
           n1 == Len(s)
<1>1. n1 \in Nat /\ q \in Nat /\ q \in 1..(n1 + 1) /\ n1 \in (q - 1)..n1
  BY DEF Texts
<1>2. r \in Texts /\ Len(r) = n1 - q + 1
  BY <1>1, SegProps DEF From
<1> SUFFICES ASSUME NEW i \in Int
             PROVE  i \in Places(r, m) <=> i >= 1 /\ i + q - 1 \in Places(s, m)
  OBVIOUS
<1>3. i \in Places(r, m) <=> i \in 1..(Len(r) - 2 + 1) /\ SubSeq(r, i, i + 2 - 1) = m
  BY DEF Places
<1>4. i + q - 1 \in Places(s, m) <=>
        i + q - 1 \in 1..(n1 - 2 + 1) /\ SubSeq(s, i + q - 1, i + q - 1 + 2 - 1) = m
  BY DEF Places
<1>5. i >= 1 => (i \in 1..(Len(r) - 2 + 1) <=> i + q - 1 \in 1..(n1 - 2 + 1))
  BY <1>1, <1>2
<1>6. ASSUME i \in 1..(Len(r) - 2 + 1)
      PROVE  SubSeq(r, i, i + 2 - 1) = SubSeq(s, i + q - 1, i + q - 1 + 2 - 1)
  <2> DEFINE j == i + 2 - 1
  <2>1. i \in 1..(n1 - q + 2) /\ j \in (i - 1)..(n1 - q + 1)
    BY <1>1, <1>2, <1>6
  <2>2. q + i - 1 = i + q - 1 /\ q + j - 1 = i + q - 1 + 2 - 1
    BY <1>1
  <2> HIDE DEF j
  <2>3. SubSeq(SubSeq(s, q, n1), i, j) = SubSeq(s, q + i - 1, q + j - 1)
    BY <1>1, <2>1, SegOfSeg
  <2> QED
    BY <2>2, <2>3 DEF j, From
<1> HIDE DEF r, n1
<1>7. i \in 1..(Len(r) - 2 + 1) => i >= 1
  BY <1>1, <1>2
<1> QED
  BY <1>3, <1>4, <1>5, <1>6, <1>7

LEMMA LaterShift ==
    ASSUME NEW s \in Texts, NEW q \in 1..(Len(s) + 1), NEW m, Len(m) = 2,
           NEW p \in q..(Len(s) + 1), NEW d, d = p - q + 1
    PROVE  LET r == From(s, q) IN
           /\ Later(r, m, d) = {} <=> Later(s, m, p) = {}
           /\ Later(s, m, p) # {} => Min(Later(r, m, d)) = Min(Later(s, m, p)) - q + 1
<1> DEFINE r == From(s, q)
           A == Later(s, m, p)
           B == Later(r, m, d)
<1>1. Len(s) \in Nat /\ q \in Nat /\ p \in Nat /\ d \in Nat /\ d >= 1
  BY DEF Texts
<1>2. Len(s) \in (q - 1)..Len(s)
  BY <1>1
<1>3. r \in Texts
  BY <1>2, SegProps DEF From
<1>4. A \subseteq Int /\ B \subseteq Int
  <2>1. Len(r) \in Nat
    BY <1>3 DEF Texts
  <2> QED
    BY <1>1, <2>1 DEF Later, Places
<1>5. \A i \in Int : i \in B <=> i + q - 1 \in A
  <2> SUFFICES ASSUME NEW i \in Int PROVE i \in B <=> i + q - 1 \in A
    OBVIOUS
  <2>1. i \in Places(r, m) <=> i >= 1 /\ i + q - 1 \in Places(s, m)
    BY PlacesShift
  <2>2. i >= d <=> i + q - 1 >= p
    BY <1>1
  <2>3. i >= d => i >= 1
    BY <1>1
  <2>4. i \in B <=> i \in Places(r, m) /\ i >= d
    BY DEF Later
  <2>5. i + q - 1 \in A <=> i + q - 1 \in Places(s, m) /\ i + q - 1 >= p
    BY DEF Later
  <2> HIDE DEF A, B, r
  <2> QED
    BY <2>1, <2>2, <2>3, <2>4, <2>5
<1>6. A = {} <=> B = {}
  <2> HIDE DEF A, B
  <2>1. ASSUME NEW i \in B PROVE A # {}
    BY <1>4, <1>5
  <2>2. ASSUME NEW i \in A PROVE B # {}
    <3>1. i - q + 1 \in Int /\ (i - q + 1) + q - 1 = i
      BY <1>1, <1>4
    <3> QED
      BY <1>5, <3>1
  <2> QED
    BY <2>1, <2>2
<1>7. ASSUME A # {} PROVE Min(B) = Min(A) - q + 1
  <2> DEFINE a == Min(A)
             b == Min(B)
  <2>1. a \in A /\ \A i \in A : a <= i
    BY <1>7, LaterIn
  <2>2. b \in B /\ \A i \in B : b <= i
    BY <1>3, <1>6, <1>7, LaterIn
  <2> HIDE DEF A, B, a, b
  <2>3. a \in Int /\ b \in Int
    BY <1>4, <2>1, <2>2
  <2>4. a - q + 1 \in B
    <3>1. a - q + 1 \in Int /\ (a - q + 1) + q - 1 = a
      BY <1>1, <2>3
    <3> QED
      BY <1>5, <2>1, <3>1
  <2>5. b + q - 1 \in A
    BY <1>5, <2>2, <2>3
  <2>6. b <= a - q + 1 /\ a <= b + q - 1
    BY <2>1, <2>2, <2>4, <2>5
  <2>7. b = a - q + 1
    BY <1>1, <2>3, <2>6
  <2> QED
    BY <2>7 DEF a, b
<1> QED
  BY <1>6, <1>7

Block(s, p) == SubSeq(s, OpenAt(s, p) + 2, EndAt(s, p) - 1)

CallsAt(s, p) == PartsOf(s)[p].calls

LEMMA CallsStep ==
    ASSUME NEW s \in Texts, NEW p \in 1..(Len(s) + 1)
    PROVE  CallsAt(s, p) = IF NoBlock(s, p) THEN <<>>
                           ELSE IF Parses(Block(s, p))
                           THEN <<Block(s, p)>> \o CallsAt(s, EndAt(s, p) + 2)
                           ELSE CallsAt(s, EndAt(s, p) + 2)
<1>1. PartsOf(s)[p] = PartStep(s, PartsOf(s), p)
  BY PartsStep
<1>2. CASE NoBlock(s, p)
  <2>1. PartStep(s, PartsOf(s), p).calls = <<>>
    BY <1>2 DEF PartStep
  <2> QED
    BY <1>1, <1>2, <2>1 DEF CallsAt
<1>3. CASE ~NoBlock(s, p)
  <2>1. PartStep(s, PartsOf(s), p).calls =
          IF Parses(Block(s, p)) THEN <<Block(s, p)>> \o CallsAt(s, EndAt(s, p) + 2)
          ELSE CallsAt(s, EndAt(s, p) + 2)
    BY <1>3 DEF PartStep, Block, CallsAt
  <2> QED
    BY <1>1, <1>3, <2>1 DEF CallsAt
<1> QED
  BY <1>2, <1>3

LEMMA BlockShift ==
    ASSUME NEW s \in Texts, NEW q \in 1..(Len(s) + 1), NEW p \in q..(Len(s) + 1)
    PROVE  LET r == From(s, q)
               d == p - q + 1
           IN  /\ NoBlock(r, d) <=> NoBlock(s, p)
               /\ ~NoBlock(s, p) => /\ EndAt(r, d) + 2 = (EndAt(s, p) + 2) - q + 1
                                    /\ Block(r, d) = Block(s, p)
<1> DEFINE r == From(s, q)
           d == p - q + 1
           a == OpenAt(s, p)
           b == EndAt(s, p)
<1>1. Len(s) \in Nat /\ q \in Nat /\ p \in Nat /\ p \in 1..(Len(s) + 1) /\ q <= p
  BY DEF Texts
<1>2. /\ Later(r, ToolOpen, d) = {} <=> Later(s, ToolOpen, p) = {}
      /\ Later(s, ToolOpen, p) # {} => OpenAt(r, d) = a - q + 1
  BY MarkerLen, LaterShift DEF OpenAt
<1>3. CASE Later(s, ToolOpen, p) = {}
  BY <1>2, <1>3 DEF NoBlock
<1>4. CASE Later(s, ToolOpen, p) # {}
  <2>1. a \in 1..(Len(s) - 1) /\ a >= p
    BY <1>4, MarkerLen, LaterIn DEF OpenAt
  <2> DEFINE e == OpenAt(r, d)
  <2>2. e = a - q + 1 /\ a \in q..(Len(s) + 1)
    BY <1>1, <1>2, <1>4, <2>1
  <2> HIDE DEF a, e
  <2>3. /\ Later(r, ToolEnd, e) = {} <=> Later(s, ToolEnd, a) = {}
        /\ Later(s, ToolEnd, a) # {} => Min(Later(r, ToolEnd, e)) = Min(Later(s, ToolEnd, a)) - q + 1
    BY <2>2, MarkerLen, LaterShift
  <2>4. NoBlock(s, p) <=> Later(s, ToolEnd, a) = {}
    BY <1>4 DEF NoBlock, a, OpenAt
  <2>5. NoBlock(r, d) <=> Later(r, ToolEnd, e) = {}
    BY <1>2, <1>4 DEF NoBlock, e, OpenAt
  <2>6. ASSUME ~NoBlock(s, p)
        PROVE  EndAt(r, d) + 2 = (b + 2) - q + 1 /\ Block(r, d) = Block(s, p)
    <3>1. b = Min(Later(s, ToolEnd, a)) /\ EndAt(r, d) = Min(Later(r, ToolEnd, e))
      BY DEF EndAt, a, e
    <3>2. b \in a..(Len(s) - 1) /\ a \in p..(Len(s) - 1)
      BY <1>1, <2>6, BlockIn DEF a
    <3>3. EndAt(r, d) = b - q + 1
      BY <2>3, <2>4, <2>6, <3>1
    <3> DEFINE c == EndAt(r, d)
    <3> HIDE DEF b, c
    <3>4. a \in Int /\ b \in Int /\ c = b - q + 1
      BY <1>1, <3>2, <3>3 DEF c
    <3>5. Block(r, d) = SubSeq(r, e + 2, c - 1) /\ Block(s, p) = SubSeq(s, a + 2, b - 1)
      BY DEF Block, a, b, c, e
    <3>6. SubSeq(r, e + 2, c - 1) = SubSeq(s, a + 2, b - 1)
      <4>1. CASE b - 1 < a + 2
        <5>1. c - 1 < e + 2 /\ c - 1 \in Int /\ e + 2 \in Int /\ a + 2 \in Int /\ b - 1 \in Int
          BY <1>1, <2>2, <3>4, <4>1
        <5>2. SubSeq(r, e + 2, c - 1) = <<>>
          BY <5>1, SubSeqEmpty
        <5>3. SubSeq(s, a + 2, b - 1) = <<>>
          BY <4>1, <5>1, SubSeqEmpty
        <5> QED
          BY <5>2, <5>3
      <4>2. CASE ~(b - 1 < a + 2)
        <5> DEFINE i == e + 2
                   j == c - 1
                   l == Len(s)
        <5>1. q \in 1..(Len(s) + 1) /\ l \in (q - 1)..Len(s) /\ i \in 1..(l - q + 2) /\ j \in (i - 1)..(l - q + 1)
          BY <1>1, <2>2, <3>2, <3>4, <4>2
        <5>2. q + i - 1 = a + 2 /\ q + j - 1 = b - 1
          BY <1>1, <2>2, <3>4
        <5> HIDE DEF i, j, l
        <5>3. SubSeq(SubSeq(s, q, l), i, j) = SubSeq(s, q + i - 1, q + j - 1)
          BY <5>1, SegOfSeg
        <5> QED
          BY <5>2, <5>3 DEF i, j, l, From
      <4> QED
        BY <4>1, <4>2
    <3>7. c + 2 = (b + 2) - q + 1
      BY <1>1, <3>4
    <3> QED
      BY <3>5, <3>6, <3>7 DEF c, b
  <2> QED
    BY <2>3, <2>4, <2>5, <2>6
<1> QED
  BY <1>3, <1>4

Agree(s, q, p) == CallsAt(From(s, q), p - q + 1) = CallsAt(s, p)

LEMMA CallsShift ==
    ASSUME NEW s \in Texts, NEW q \in 1..(Len(s) + 1)
    PROVE  \A p \in q..(Len(s) + 1) : Agree(s, q, p)
<1> DEFINE N == Len(s) + 1
           r == From(s, q)
           T == {m \in 0..N : \A p \in q..N : p > N - m => Agree(s, q, p)}
<1>1. N \in Nat /\ q \in Nat /\ q <= N /\ Len(s) \in Nat /\ q >= 1
  BY DEF Texts
<1>2. r \in Texts /\ Len(r) = Len(s) - q + 1
  <2>1. Len(s) \in (q - 1)..Len(s)
    BY <1>1
  <2> QED
    BY <2>1, SegProps DEF From
<1>3. 0 \in T
  BY <1>1
<1>4. ASSUME NEW m \in 0..(N - 1), m \in T PROVE m + 1 \in T
  <2>1. \A p \in q..N : p > N - m => Agree(s, q, p)
    BY <1>4
  <2>2. ASSUME NEW p \in q..N, p > N - (m + 1) PROVE Agree(s, q, p)
    <3> DEFINE d == p - q + 1
               b == EndAt(s, p) + 2
    <3>1. p \in Nat /\ p \in 1..(Len(s) + 1) /\ p \in q..(Len(s) + 1) /\ d \in 1..(Len(r) + 1)
      BY <1>1, <1>2
    <3>2. /\ NoBlock(r, d) <=> NoBlock(s, p)
          /\ ~NoBlock(s, p) => EndAt(r, d) + 2 = b - q + 1 /\ Block(r, d) = Block(s, p)
      BY <3>1, BlockShift
    <3>3. ~NoBlock(s, p) => b \in (p + 1)..N
      BY <3>1, BlockIn
    <3>4. ~NoBlock(s, p) => CallsAt(r, b - q + 1) = CallsAt(s, b)
      <4> SUFFICES ASSUME ~NoBlock(s, p) PROVE Agree(s, q, b)
        BY DEF Agree
      <4> HIDE DEF b
      <4>1. b \in q..N /\ b > N - m
        BY <1>1, <2>2, <3>1, <3>3
      <4> QED
        BY <2>1, <4>1
    <3> HIDE DEF d, r
    <3>5. CallsAt(s, p) = IF NoBlock(s, p) THEN <<>>
                          ELSE IF Parses(Block(s, p)) THEN <<Block(s, p)>> \o CallsAt(s, b)
                          ELSE CallsAt(s, b)
      BY <3>1, CallsStep
    <3>6. CallsAt(r, d) = IF NoBlock(r, d) THEN <<>>
                          ELSE IF Parses(Block(r, d)) THEN <<Block(r, d)>> \o CallsAt(r, EndAt(r, d) + 2)
                          ELSE CallsAt(r, EndAt(r, d) + 2)
      BY <1>2, <3>1, CallsStep
    <3>7. CallsAt(r, d) = CallsAt(s, p)
      <4> HIDE DEF b
      <4> QED
        BY <3>2, <3>4, <3>5, <3>6
    <3> QED
      BY <3>7 DEF Agree, r, d
  <2>3. m + 1 \in 0..N
    BY <1>1
  <2> QED
    BY <2>2, <2>3
<1>5. \A i \in 0..N : i \in T
  <2> HIDE DEF T, N
  <2> QED
    BY <1>1, <1>3, <1>4, Climb
<1>6. N \in T
  BY <1>1, <1>5
<1>7. \A p \in q..N : p > N - N
  BY <1>1
<1> QED
  BY <1>6, <1>7

(* Calls depend on where a text is entered only by the next <tool_call>.   *)
LEMMA CallsSkip ==
    ASSUME NEW s \in Texts, NEW p \in 1..(Len(s) + 1), NEW q \in 1..(Len(s) + 1),
           Later(s, ToolOpen, p) = Later(s, ToolOpen, q)
    PROVE  CallsAt(s, p) = CallsAt(s, q)
<1>1. NoBlock(s, p) = NoBlock(s, q) /\ OpenAt(s, p) = OpenAt(s, q) /\ EndAt(s, p) = EndAt(s, q)
  BY DEF NoBlock, OpenAt, EndAt
<1>2. Block(s, p) = Block(s, q)
  BY <1>1 DEF Block
<1> QED
  BY <1>1, <1>2, CallsStep

(* A marker begins with its "<". *)
LEMMA MarkerAt ==
    ASSUME NEW s \in Texts, NEW m, Len(m) = 2, NEW i \in Places(s, m)
    PROVE  i \in 1..(Len(s) - 1) /\ s[i] = m[1] /\ s[i + 1] = m[2]
<1>1. Len(s) \in Nat
  BY DEF Texts
<1>2. i \in 1..(Len(s) - 1) /\ SubSeq(s, i, i + 2 - 1) = m
  BY <1>1 DEF Places
<1> DEFINE j == i + 2 - 1
<1>3. i \in 1..(Len(s) + 1) /\ j \in (i - 1)..Len(s) /\ j - i + 1 = 2
  BY <1>1, <1>2
<1>4. \A k \in 1..(j - i + 1) : SubSeq(s, i, j)[k] = s[i + k - 1]
  BY <1>3, SegProps
<1>5. 1 \in 1..(j - i + 1) /\ 2 \in 1..(j - i + 1) /\ i + 1 - 1 = i /\ i + 2 - 1 = i + 1
  BY <1>2, <1>3
<1>6. SubSeq(s, i, j)[1] = s[i + 1 - 1] /\ SubSeq(s, i, j)[2] = s[i + 2 - 1]
  BY <1>4, <1>5
<1> QED
  BY <1>2, <1>5, <1>6

LEMMA ScanIn ==
    ASSUME NEW s \in Texts
    PROVE  /\ Scan(s) \in 1..(Len(s) + 1)
           /\ Has(s, ThinkEnd) => /\ Max(Places(s, ThinkEnd)) \in Places(s, ThinkEnd)
                                  /\ \A i \in Places(s, ThinkEnd) : i <= Max(Places(s, ThinkEnd))
<1> DEFINE P == Places(s, ThinkEnd)
<1>1. Len(s) \in Nat
  BY DEF Texts
<1>2. P \subseteq 1..(Len(s) - 1)
  BY <1>1, MarkerLen DEF Places
<1>3. P \subseteq 0..Len(s)
  BY <1>1, <1>2
<1>4. CASE Has(s, ThinkEnd)
  <2>1. P # {}
    BY <1>4 DEF Has
  <2> HIDE DEF P
  <2>2. Max(P) \in P /\ \A i \in P : i <= Max(P)
    BY <1>1, <1>3, <2>1, MaxIs
  <2>3. Scan(s) = Max(P) + 2
    BY <1>4 DEF Scan, P
  <2>4. Max(P) \in 1..(Len(s) - 1)
    BY <1>2, <2>2
  <2>5. Scan(s) \in 1..(Len(s) + 1)
    BY <1>1, <2>3, <2>4
  <2> QED
    BY <2>2, <2>5 DEF P
<1>5. CASE ~Has(s, ThinkEnd)
  BY <1>1, <1>5 DEF Scan
<1> QED
  BY <1>4, <1>5

(* What follows the first </think> and the white space after it has the    *)
(* calls of the whole: the search begins after the last </think> in both.  *)
LEMMA RestHasCalls ==
    ASSUME NEW s \in Texts, Has(s, ThinkEnd)
    PROVE  LET w == TrimLead(After(s, ThinkEnd, Find(s, ThinkEnd)))
           IN  CallsAt(s, Scan(s)) = CallsAt(w, Scan(w))
<1> DEFINE p == Find(s, ThinkEnd)
           v == After(s, ThinkEnd, p)
           last == Max(Places(s, ThinkEnd))
           N == Len(s)
<1>1. N \in Nat
  BY DEF Texts
<1>2. p \in 1..(N - 1) /\ p \in Places(s, ThinkEnd)
  BY MarkerLen, FindIs
<1>3. last \in Places(s, ThinkEnd) /\ (\A i \in Places(s, ThinkEnd) : i <= last) /\ Scan(s) = last + 2
  BY ScanIn DEF Scan
<1>4. ThinkEnd[1] = "<" /\ ThinkEnd[2] = "t" /\ ToolOpen[1] = "<"
  BY DEF ThinkEnd, ToolOpen
<1>5. s[p + 1] = "t" /\ last \in 1..(N - 1) /\ s[last] = "<" /\ p <= last
  BY <1>2, <1>3, <1>4, MarkerLen, MarkerAt
<1>6. v = SubSeq(s, p + 2, N)
  BY MarkerLen DEF After, From
<1> HIDE DEF p, v, last
<1> DEFINE a == p + 2
<1>7. a \in 1..(N + 1) /\ N \in (a - 1)..N /\ a \in Nat
  BY <1>1, <1>2
<1>8. v = SubSeq(s, a, N)
  BY <1>6
<1> HIDE DEF a
<1>9. /\ v \in Texts /\ Len(v) = N - a + 1 /\ \A j \in 1..(N - a + 1) : v[j] = s[a + j - 1]
  BY <1>7, <1>8, SegProps
<1>10. PICK i \in 1..(Len(v) + 1) :
          TrimLead(v) = SubSeq(v, i, Len(v)) /\ \A j \in 1..(i - 1) : v[j] = "n"
  BY <1>9, TrimLeadSkips
<1> DEFINE q == a + i - 1
           w == TrimLead(v)
<1>11. i \in Nat /\ i \in 1..(N - a + 2) /\ Len(v) \in (i - 1)..(N - a + 1) /\ a + Len(v) - 1 = N
       /\ q \in a..(N + 1) /\ q \in Nat
  BY <1>1, <1>7, <1>9, <1>10
<1>12. SubSeq(v, i, Len(v)) = SubSeq(s, a + i - 1, a + Len(v) - 1)
  BY <1>7, <1>8, <1>11, SegOfSeg
<1>13. w = From(s, q)
  BY <1>10, <1>11, <1>12 DEF From
<1>14. ASSUME NEW j \in a..(q - 1) PROVE s[j] = "n"
  <2> DEFINE k == j - a + 1
  <2>1. k \in 1..(i - 1) /\ k \in 1..(N - a + 1) /\ a + k - 1 = j
    BY <1>7, <1>11
  <2> HIDE DEF k
  <2>2. v[k] = "n" /\ v[k] = s[a + k - 1]
    BY <1>9, <1>10, <2>1
  <2> QED
    BY <2>1, <2>2
<1> HIDE DEF q, w
<1>15. q \in 1..(N + 1) /\ N \in (q - 1)..N /\ a <= q
  BY <1>1, <1>7, <1>11
<1>16. w \in Texts /\ Len(w) = N - q + 1
  BY <1>13, <1>15, SegProps DEF From
<1>17. \A x \in q..(N + 1) : CallsAt(w, x - q + 1) = CallsAt(s, x)
  BY <1>13, <1>15, CallsShift DEF Agree
<1>18. \A x \in Int : x \in Places(w, ThinkEnd) <=> x >= 1 /\ x + q - 1 \in Places(s, ThinkEnd)
  BY <1>13, <1>15, MarkerLen, PlacesShift
<1>19. Places(w, ThinkEnd) \subseteq Int
  <2>1. Len(w) \in Int
    BY <1>1, <1>15, <1>16
  <2> QED
    BY <2>1, MarkerLen DEF Places
<1>20. CASE last >= q
  <2> DEFINE top == last - q + 1
  <2>1. top \in Int /\ top >= 1 /\ top + q - 1 = last
    BY <1>1, <1>5, <1>15, <1>20
  <2>2. top \in Places(w, ThinkEnd)
    BY <1>3, <1>18, <2>1
  <2> DEFINE mx == Max(Places(w, ThinkEnd))
  <2>3. Has(w, ThinkEnd)
    BY <2>2 DEF Has
  <2>4. mx \in Places(w, ThinkEnd) /\ \A x \in Places(w, ThinkEnd) : x <= mx
    BY <1>16, <2>3, ScanIn
  <2>5. Scan(w) = mx + 2
    BY <2>3 DEF Scan
  <2> HIDE DEF top, mx
  <2>6. mx \in Int /\ top <= mx
    BY <1>19, <2>2, <2>4
  <2>7. mx + q - 1 <= last
    BY <1>3, <1>18, <2>4, <2>6
  <2>8. mx = top
    BY <1>1, <1>5, <1>15, <2>1, <2>6, <2>7
  <2> DEFINE x == last + 2
  <2>9. x \in q..(N + 1) /\ x - q + 1 = mx + 2
    BY <1>1, <1>5, <1>15, <1>20, <2>1, <2>8
  <2> HIDE DEF x
  <2>10. CallsAt(w, x - q + 1) = CallsAt(s, x)
    BY <1>17, <2>9
  <2>11. CallsAt(w, Scan(w)) = CallsAt(s, Scan(s))
    BY <1>3, <2>5, <2>9, <2>10 DEF x
  <2> QED
    BY <2>11 DEF w, v, p
<1>21. CASE ~(last >= q)
  <2>1. last = p
    <3> SUFFICES ASSUME last # p PROVE FALSE
      OBVIOUS
    <3>1. last # p + 1
      BY <1>5
    <3>2. last \in a..(q - 1)
      BY <1>1, <1>2, <1>5, <1>15, <1>21, <3>1 DEF a
    <3> QED
      BY <1>5, <1>14, <3>2
  <2>2. Scan(s) = a
    BY <1>3, <2>1 DEF a
  <2>3. Places(w, ThinkEnd) = {}
    <3> SUFFICES ASSUME NEW x \in Places(w, ThinkEnd) PROVE FALSE
      OBVIOUS
    <3>1. x \in Int /\ x >= 1 /\ x + q - 1 <= last
      BY <1>3, <1>18, <1>19
    <3> QED
      BY <1>5, <1>15, <1>21, <3>1
  <2>4. Scan(w) = 1
    BY <2>3 DEF Scan, Has
  <2>5. q \in q..(N + 1) /\ q - q + 1 = 1
    BY <1>15
  <2>6. CallsAt(w, 1) = CallsAt(s, q)
    BY <1>17, <2>5
  <2>7. Later(s, ToolOpen, a) = Later(s, ToolOpen, q)
    <3>1. ASSUME NEW x \in Places(s, ToolOpen) PROVE x >= a <=> x >= q
      <4>1. x \in 1..(N - 1) /\ s[x] = "<"
        BY <1>4, MarkerLen, MarkerAt
      <4>2. x \notin a..(q - 1)
        BY <1>14, <4>1
      <4> QED
        BY <1>1, <1>7, <1>15, <4>1, <4>2
    <3> QED
      BY <3>1 DEF Later
  <2>8. CallsAt(s, a) = CallsAt(s, q)
    BY <1>7, <1>15, <2>7, CallsSkip
  <2>9. CallsAt(w, Scan(w)) = CallsAt(s, Scan(s))
    BY <2>2, <2>4, <2>6, <2>8
  <2> QED
    BY <2>9 DEF w, v, p
<1> QED
  BY <1>20, <1>21

LEMMA MessageCalls ==
    ASSUME NEW s \in Texts
    PROVE  parse_tool_calls(s).calls = Message(s).tool_calls
<1> DEFINE w == split_reasoning(s).rest
<1>1. Message(s).tool_calls = parse_tool_calls(w).calls
  BY DEF Message
<1>2. CASE ~Has(s, ThinkEnd)
  <2>1. w = s
    BY <1>2 DEF split_reasoning
  <2> QED
    BY <1>1, <2>1
<1>3. CASE Has(s, ThinkEnd)
  <2>1. w = TrimLead(After(s, ThinkEnd, Find(s, ThinkEnd)))
    BY <1>3 DEF split_reasoning
  <2>2. CallsAt(s, Scan(s)) = CallsAt(w, Scan(w))
    BY <1>3, <2>1, RestHasCalls
  <2>3. parse_tool_calls(s).calls = CallsAt(s, Scan(s)) /\ parse_tool_calls(w).calls = CallsAt(w, Scan(w))
    BY ParseIs DEF CallsAt
  <2> QED
    BY <1>1, <2>2, <2>3
<1> QED
  BY <1>2, <1>3

(* A stream makes the calls that the reply makes as a whole: finish()      *)
(* searches the reply with its reasoning, a request without a stream what  *)
(* split_reasoning() leaves of it, and both find the same blocks, for      *)
(* every text, with any number of markers, well-formed or not.             *)
THEOREM StreamCallsAgree == CSpec => []CallsAgree
<1>1. CInit => CallsAgree
  BY DEF CInit, FInit, CallsAgree
<1>2. FInd /\ CallsAgree /\ [CNext]_convars => CallsAgree'
  <2> SUFFICES ASSUME FInd, CallsAgree, [CNext]_convars PROVE CallsAgree'
    OBVIOUS
  <2>1. CASE Emit
    BY <2>1 DEF Emit, CallsAgree
  <2>2. CASE Finish
    <3>1. text' = text /\ calls' = parse_tool_calls(text).calls
      BY <2>2 DEF Finish
    <3>2. calls' = Message(text).tool_calls
      BY <3>1, MessageCalls DEF FInd
    <3> QED
      BY <3>1, <3>2 DEF CallsAgree
  <2>3. CASE UNCHANGED fvars
    BY <2>3 DEF fvars, CallsAgree
  <2> QED
    BY <2>1, <2>2, <2>3 DEF CNext, Reply, Ask, FNext, convars
<1>3. CInit => FInit
  BY DEF CInit
<1>4. [CNext]_convars => [FNext]_fvars
  BY DEF CNext, Reply, Ask, convars
<1> QED
  BY <1>1, <1>2, <1>3, <1>4, FInitInd, FNextInd, PTL DEF CSpec

-----------------------------------------------------------------------------
(* Texts without their white space. *)
Marks(s) == [i \in DOMAIN s |-> IF s[i] = "n" THEN <<>> ELSE <<s[i]>>]

LEMMA MarksIs ==
    ASSUME NEW s \in Texts
    PROVE  /\ Marks(s) \in Seq(Texts) /\ Len(Marks(s)) = Len(s)
           /\ \A i \in 1..Len(s) : Marks(s)[i] = IF s[i] = "n" THEN <<>> ELSE <<s[i]>>
<1>1. Len(s) \in Nat /\ DOMAIN s = 1..Len(s) /\ \A i \in 1..Len(s) : s[i] \in Symbol
  BY DEF Texts
<1>2. \A i \in 1..Len(s) : (IF s[i] = "n" THEN <<>> ELSE <<s[i]>>) \in Texts
  <2>1. \A x \in Symbol : <<x>> \in Seq(Symbol)
    OBVIOUS
  <2>2. <<>> \in Seq(Symbol)
    OBVIOUS
  <2> QED
    BY <1>1, <2>1, <2>2 DEF Texts
<1>3. Marks(s) \in [1..Len(s) -> Texts]
  BY <1>1, <1>2 DEF Marks
<1>4. Marks(s) \in Seq(Texts) /\ Len(Marks(s)) = Len(s)
  <2> DEFINE z == Marks(s)
             n1 == Len(s)
  <2>1. z \in [1..n1 -> Texts] /\ n1 \in Nat
    BY <1>1, <1>3
  <2> HIDE DEF z, n1
  <2>2. z \in Seq(Texts) /\ Len(z) = n1
    BY <2>1
  <2> QED
    BY <2>2 DEF z, n1
<1> QED
  BY <1>1, <1>4 DEF Marks

LEMMA BareType ==
    ASSUME NEW s \in Texts
    PROVE  Bare(s) \in Texts
<1>1. Bare(s) = FlattenSeq(Marks(s))
  BY DEF Bare, Marks
<1>2. Marks(s) \in Seq(Seq(Symbol))
  BY MarksIs DEF Texts
<1> QED
  BY <1>1, <1>2, FlattenType DEF Texts

LEMMA BareConcat ==
    ASSUME NEW s \in Texts, NEW t \in Texts
    PROVE  Bare(s \o t) = Bare(s) \o Bare(t)
<1> DEFINE x == Marks(s)
           y == Marks(t)
           z == Marks(s \o t)
<1>1. /\ s \o t \in Texts /\ Len(s \o t) = Len(s) + Len(t) /\ Len(s) \in Nat /\ Len(t) \in Nat
      /\ \A i \in 1..(Len(s) + Len(t)) : (s \o t)[i] = IF i <= Len(s) THEN s[i] ELSE t[i - Len(s)]
  BY ConcatProperties DEF Texts
<1>2. /\ x \in Seq(Texts) /\ Len(x) = Len(s)
      /\ \A i \in 1..Len(s) : x[i] = IF s[i] = "n" THEN <<>> ELSE <<s[i]>>
  BY MarksIs
<1>3. /\ y \in Seq(Texts) /\ Len(y) = Len(t)
      /\ \A i \in 1..Len(t) : y[i] = IF t[i] = "n" THEN <<>> ELSE <<t[i]>>
  BY MarksIs
<1>4. /\ z \in Seq(Texts) /\ Len(z) = Len(s \o t)
      /\ \A i \in 1..Len(s \o t) : z[i] = IF (s \o t)[i] = "n" THEN <<>> ELSE <<(s \o t)[i]>>
  BY <1>1, MarksIs
<1>5. Bare(s) = FlattenSeq(x) /\ Bare(t) = FlattenSeq(y) /\ Bare(s \o t) = FlattenSeq(z)
  BY DEF Bare, Marks
<1> HIDE DEF x, y, z
<1>6. z = x \o y
  <2>1. /\ x \o y \in Seq(Texts) /\ Len(x \o y) = Len(x) + Len(y)
        /\ \A i \in 1..(Len(x) + Len(y)) : (x \o y)[i] = IF i <= Len(x) THEN x[i] ELSE y[i - Len(x)]
    <3>1. x \in Seq(Texts) /\ y \in Seq(Texts)
      BY <1>2, <1>3
    <3> QED
      BY ONLY <3>1, ConcatProperties
  <2> DEFINE w == x \o y
             v == s \o t
             k == Len(s)
             m == Len(t)
  <2>2. /\ w \in Seq(Texts) /\ Len(w) = k + m
        /\ \A i \in 1..(k + m) : w[i] = IF i <= k THEN x[i] ELSE y[i - k]
    BY <1>2, <1>3, <2>1
  <2>3. /\ Len(z) = k + m
        /\ \A i \in 1..(k + m) : z[i] = IF v[i] = "n" THEN <<>> ELSE <<v[i]>>
    BY <1>1, <1>4
  <2>4. k \in Nat /\ m \in Nat /\ \A i \in 1..(k + m) : v[i] = IF i <= k THEN s[i] ELSE t[i - k]
    BY <1>1
  <2> HIDE DEF w, v, k, m
  <2>5. ASSUME NEW i \in 1..(k + m) PROVE z[i] = w[i]
    <3>1. CASE i <= k
      <4>1. i \in 1..k
        BY <2>4, <3>1
      <4>2. x[i] = IF s[i] = "n" THEN <<>> ELSE <<s[i]>>
        BY <1>2, <4>1 DEF k
      <4> QED
        BY <2>2, <2>3, <2>4, <3>1, <4>2
    <3>2. CASE ~(i <= k)
      <4>1. i - k \in 1..m
        BY <2>4, <3>2
      <4>2. y[i - k] = IF t[i - k] = "n" THEN <<>> ELSE <<t[i - k]>>
        BY <1>3, <4>1 DEF m
      <4> QED
        BY <2>2, <2>3, <2>4, <3>2, <4>2
    <3> QED
      BY <3>1, <3>2
  <2>6. z = w
    BY <1>4, <2>2, <2>3, <2>5, SeqEqual
  <2> QED
    BY <2>6 DEF w
<1>7. x \in Seq(Seq(Symbol)) /\ y \in Seq(Seq(Symbol))
  BY <1>2, <1>3 DEF Texts
<1>8. FlattenSeq(x \o y) = FlattenSeq(x) \o FlattenSeq(y)
  BY <1>7, FlattenConcat
<1> QED
  BY <1>5, <1>6, <1>8

LEMMA BareSpaces ==
    ASSUME NEW s \in Texts, \A i \in 1..Len(s) : s[i] = "n"
    PROVE  Bare(s) = <<>>
<1>1. Bare(s) = FlattenSeq(Marks(s))
  BY DEF Bare, Marks
<1>2. Marks(s) \in Seq(Seq(Symbol)) /\ \A i \in 1..Len(Marks(s)) : Marks(s)[i] = <<>>
  BY MarksIs DEF Texts
<1> QED
  BY <1>1, <1>2, FlattenNone

LEMMA BareEmpty == Bare(<<>>) = <<>>
<1>1. <<>> \in Texts /\ \A i \in 1..Len(<<>>) : <<>>[i] = "n"
  BY DEF Texts
<1> QED
  BY <1>1, BareSpaces

LEMMA BareSeg ==
    ASSUME NEW t \in Texts, NEW a \in 1..(Len(t) + 1), NEW b \in (a - 1)..Len(t), NEW c \in b..Len(t)
    PROVE  Bare(SubSeq(t, a, b)) \o Bare(SubSeq(t, b + 1, c)) = Bare(SubSeq(t, a, c))
<1>1. Len(t) \in Nat /\ b + 1 \in 1..(Len(t) + 1) /\ c \in (b + 1 - 1)..Len(t) /\ t \in Seq(Symbol)
  BY DEF Texts
<1>2. SubSeq(t, a, b) \in Texts /\ SubSeq(t, b + 1, c) \in Texts
  BY <1>1, SegProps
<1>3. SubSeq(t, a, b) \o SubSeq(t, b + 1, c) = SubSeq(t, a, c)
  BY <1>1, ConcatAdjacentSubSeq
<1> QED
  BY <1>2, <1>3, BareConcat

LEMMA BareSkip ==
    ASSUME NEW t \in Texts, NEW a \in 1..(Len(t) + 1), NEW b \in (a - 1)..Len(t),
           \A j \in a..b : t[j] = "n"
    PROVE  Bare(SubSeq(t, a, b)) = <<>>
<1> DEFINE s == SubSeq(t, a, b)
<1>1. s \in Texts /\ Len(s) = b - a + 1 /\ \A i \in 1..(b - a + 1) : s[i] = t[a + i - 1]
  BY SegProps
<1>2. \A i \in 1..(b - a + 1) : a + i - 1 \in a..b
  BY DEF Texts
<1> HIDE DEF s
<1>3. \A i \in 1..Len(s) : s[i] = "n"
  BY <1>1, <1>2
<1>4. Bare(s) = <<>>
  BY <1>1, <1>3, BareSpaces
<1> QED
  BY <1>4 DEF s

LEMMA BareTrimEnd ==
    ASSUME NEW s \in Texts
    PROVE  Bare(TrimEnd(s)) = Bare(s) /\ TrimEnd(s) \in Texts
<1>1. PICK e \in 0..Len(s) : TrimEnd(s) = SubSeq(s, 1, e) /\ \A j \in (e + 1)..Len(s) : s[j] = "n"
  BY TrimEndDrops
<1>2. Len(s) \in Nat /\ 1 \in 1..(Len(s) + 1) /\ e \in (1 - 1)..Len(s) /\ Len(s) \in e..Len(s)
      /\ e + 1 \in 1..(Len(s) + 1) /\ Len(s) \in (e + 1 - 1)..Len(s)
  BY DEF Texts
<1>3. SubSeq(s, 1, e) \in Texts
  BY <1>2, SegProps
<1>4. Bare(SubSeq(s, 1, e)) \o Bare(SubSeq(s, e + 1, Len(s))) = Bare(SubSeq(s, 1, Len(s)))
  BY <1>2, BareSeg
<1>5. Bare(SubSeq(s, e + 1, Len(s))) = <<>>
  BY <1>1, <1>2, BareSkip
<1>6. SubSeq(s, 1, Len(s)) = s
  BY SubSeqFull DEF Texts
<1>7. Bare(SubSeq(s, 1, e)) \in Seq(Symbol)
  BY <1>3, BareType DEF Texts
<1>8. Bare(SubSeq(s, 1, e)) \o <<>> = Bare(SubSeq(s, 1, e))
  BY <1>7, ConcatEmptySeq
<1> QED
  BY <1>1, <1>3, <1>4, <1>5, <1>6, <1>8

LEMMA BareTrimLead ==
    ASSUME NEW s \in Texts
    PROVE  Bare(TrimLead(s)) = Bare(s) /\ TrimLead(s) \in Texts
<1>1. PICK i \in 1..(Len(s) + 1) : TrimLead(s) = SubSeq(s, i, Len(s)) /\ \A j \in 1..(i - 1) : s[j] = "n"
  BY TrimLeadSkips
<1> DEFINE e == i - 1
<1>2. Len(s) \in Nat /\ 1 \in 1..(Len(s) + 1) /\ e \in (1 - 1)..Len(s) /\ Len(s) \in e..Len(s)
      /\ i \in 1..(Len(s) + 1) /\ Len(s) \in (i - 1)..Len(s) /\ e + 1 = i
  BY DEF Texts
<1>3. \A j \in 1..e : s[j] = "n"
  BY <1>1
<1> HIDE DEF e
<1>4. Bare(SubSeq(s, 1, e)) \o Bare(SubSeq(s, e + 1, Len(s))) = Bare(SubSeq(s, 1, Len(s)))
  BY <1>2, BareSeg
<1>5. Bare(SubSeq(s, 1, e)) = <<>>
  BY <1>2, <1>3, BareSkip
<1>6. SubSeq(s, 1, Len(s)) = s
  BY SubSeqFull DEF Texts
<1>7. SubSeq(s, i, Len(s)) \in Texts
  BY <1>2, SegProps
<1>8. Bare(SubSeq(s, i, Len(s))) \in Seq(Symbol)
  BY <1>7, BareType DEF Texts
<1>9. <<>> \o Bare(SubSeq(s, i, Len(s))) = Bare(SubSeq(s, i, Len(s)))
  BY <1>8, ConcatEmptySeq
<1> QED
  BY <1>1, <1>2, <1>4, <1>5, <1>6, <1>7, <1>9

-----------------------------------------------------------------------------
(* A marker at place i, by its second symbol, and a stretch without one,   *)
(* however the text goes on.                                               *)
At(t, i, y) == i \in 1..(Len(t) - 1) /\ t[i] = "<" /\ t[i + 1] = y
Free(t, y, a, d) == \A i \in a..d : t[i] = "<" => i < Len(t) /\ t[i + 1] # y

LEMMA PlaceIs ==
    ASSUME NEW s \in Texts, NEW y, NEW i
    PROVE  i \in Places(s, <<"<", y>>) <=> At(s, i, y)
<1> DEFINE m == <<"<", y>>
<1>0. Len(s) \in Nat /\ Len(m) = 2 /\ m[1] = "<" /\ m[2] = y
  BY DEF Texts
<1>1. ASSUME i \in Places(s, m) PROVE At(s, i, y)
  <2> HIDE DEF m
  <2>1. i \in 1..(Len(s) - 1) /\ s[i] = m[1] /\ s[i + 1] = m[2]
    BY <1>0, <1>1, MarkerAt
  <2> QED
    BY <1>0, <2>1 DEF At
<1>2. ASSUME At(s, i, y) PROVE i \in Places(s, m)
  <2> DEFINE j == i + 1
  <2>1. i \in 1..(Len(s) - 1) /\ s[i] = "<" /\ s[j] = y /\ i \in Nat /\ j \in 1..Len(s)
    BY <1>0, <1>2 DEF At
  <2>2. s[i] \in Symbol /\ s[j] \in Symbol
    BY <1>0, <2>1 DEF Texts
  <2>3. i \in 1..(Len(s) + 1) /\ j \in (i - 1)..Len(s) /\ j - i + 1 = 2
    BY <1>0, <2>1
  <2> HIDE DEF j
  <2>4. /\ SubSeq(s, i, j) \in Texts /\ Len(SubSeq(s, i, j)) = 2
        /\ \A k \in 1..2 : SubSeq(s, i, j)[k] = s[i + k - 1]
    <3>1. /\ SubSeq(s, i, j) \in Texts
          /\ Len(SubSeq(s, i, j)) = j - i + 1
          /\ \A k \in 1..(j - i + 1) : SubSeq(s, i, j)[k] = s[i + k - 1]
      BY <2>3, SegProps
    <3> QED
      BY <2>3, <3>1
  <2>5. SubSeq(s, i, j)[1] = s[i] /\ SubSeq(s, i, j)[2] = s[j]
    <3>1. 1 \in 1..2 /\ 2 \in 1..2 /\ i + 1 - 1 = i /\ i + 2 - 1 = j
      BY <2>1 DEF j
    <3> QED
      BY <2>4, <3>1
  <2> DEFINE x == SubSeq(s, i, j)
  <2>6. x = <<s[i], s[j]>>
    <3>1. x \in Seq(Symbol) /\ Len(x) = 2 /\ x[1] = s[i] /\ x[2] = s[j]
      BY <2>4, <2>5 DEF Texts
    <3> HIDE DEF x
    <3> QED
      BY <2>2, <3>1
  <2>7. x = m
    BY <2>1, <2>6
  <2>8. i + Len(m) - 1 = j /\ i \in 1..(Len(s) - Len(m) + 1)
    BY <1>0, <2>1 DEF j
  <2> QED
    BY <2>7, <2>8 DEF Places
<1> QED
  BY <1>1, <1>2

LEMMA MarkersAt ==
    ASSUME NEW s \in Texts, NEW i
    PROVE  /\ i \in Places(s, ThinkEnd) <=> At(s, i, "t")
           /\ i \in Places(s, ThinkOpen) <=> At(s, i, "b")
           /\ i \in Places(s, ToolOpen) <=> At(s, i, "c")
BY PlaceIs DEF ThinkEnd, ThinkOpen, ToolOpen

(* The text has grown. *)
LEMMA Grown ==
    ASSUME NEW t \in Texts, NEW u \in Texts
    PROVE  /\ t \o u \in Texts /\ Len(t \o u) = Len(t) + Len(u) /\ Len(t) \in Nat /\ Len(u) \in Nat
           /\ \A i \in 1..Len(t) : (t \o u)[i] = t[i]
<1>1. t \in Seq(Symbol) /\ u \in Seq(Symbol) /\ Len(t) \in Nat /\ Len(u) \in Nat
  BY DEF Texts
<1>2. t \o u \in Seq(Symbol) /\ Len(t \o u) = Len(t) + Len(u)
      /\ \A i \in 1..(Len(t) + Len(u)) : (t \o u)[i] = IF i <= Len(t) THEN t[i] ELSE u[i - Len(t)]
  BY <1>1, ConcatProperties
<1> QED
  BY <1>1, <1>2 DEF Texts

LEMMA AtGrow ==
    ASSUME NEW t \in Texts, NEW u \in Texts, NEW i, NEW y, At(t, i, y)
    PROVE  At(t \o u, i, y)
<1> DEFINE w == t \o u
<1>1. Len(w) = Len(t) + Len(u) /\ Len(t) \in Nat /\ Len(u) \in Nat /\ \A k \in 1..Len(t) : w[k] = t[k]
  BY Grown
<1>2. i \in 1..(Len(t) - 1) /\ t[i] = "<" /\ t[i + 1] = y
  BY DEF At
<1> HIDE DEF w
<1>3. i \in 1..(Len(w) - 1) /\ i \in 1..Len(t) /\ i + 1 \in 1..Len(t)
  BY <1>1, <1>2
<1>4. w[i] = t[i] /\ w[i + 1] = t[i + 1]
  BY <1>1, <1>3
<1>5. At(w, i, y)
  BY <1>2, <1>3, <1>4 DEF At
<1> QED
  BY <1>5 DEF w

LEMMA FreeGrow ==
    ASSUME NEW t \in Texts, NEW u \in Texts, NEW y, NEW a \in Nat \ {0}, NEW d \in Int, d <= Len(t),
           Free(t, y, a, d)
    PROVE  Free(t \o u, y, a, d)
<1> DEFINE w == t \o u
<1>1. Len(w) = Len(t) + Len(u) /\ Len(t) \in Nat /\ Len(u) \in Nat /\ \A k \in 1..Len(t) : w[k] = t[k]
  BY Grown
<1> HIDE DEF w
<1>2. ASSUME NEW i \in a..d, w[i] = "<" PROVE i < Len(w) /\ w[i + 1] # y
  <2>1. i \in 1..Len(t)
    BY <1>1
  <2>2. t[i] = "<"
    BY <1>1, <1>2, <2>1
  <2>3. i < Len(t) /\ t[i + 1] # y
    BY <2>2 DEF Free
  <2>4. i + 1 \in 1..Len(t) /\ i < Len(w)
    BY <1>1, <2>1, <2>3
  <2> QED
    BY <1>1, <2>3, <2>4
<1>3. Free(w, y, a, d)
  BY <1>2 DEF Free
<1> QED
  BY <1>3 DEF w

LEMMA SegGrow ==
    ASSUME NEW t \in Texts, NEW u \in Texts, NEW a \in 1..(Len(t) + 1), NEW b \in (a - 1)..Len(t)
    PROVE  SubSeq(t \o u, a, b) = SubSeq(t, a, b)
<1> DEFINE w == t \o u
           x == SubSeq(w, a, b)
           z == SubSeq(t, a, b)
           n1 == b - a + 1
<1>1. w \in Texts /\ Len(w) = Len(t) + Len(u) /\ Len(t) \in Nat /\ Len(u) \in Nat
      /\ \A k \in 1..Len(t) : w[k] = t[k]
  BY Grown
<1>2. z \in Texts /\ Len(z) = n1 /\ \A i \in 1..n1 : z[i] = t[a + i - 1]
  BY SegProps
<1> HIDE DEF w
<1>3. a \in 1..(Len(w) + 1) /\ b \in (a - 1)..Len(w) /\ a \in Nat /\ b \in Int
  BY <1>1
<1>4. x \in Texts /\ Len(x) = n1 /\ \A i \in 1..n1 : x[i] = w[a + i - 1]
  BY <1>1, <1>3, SegProps
<1>5. n1 \in Nat /\ \A i \in 1..n1 : a + i - 1 \in 1..Len(t)
  BY <1>1, <1>3
<1> HIDE DEF x, z, n1
<1>6. x \in Seq(Symbol) /\ z \in Seq(Symbol)
  BY <1>2, <1>4 DEF Texts
<1>7. \A i \in 1..n1 : x[i] = z[i]
  BY <1>1, <1>2, <1>4, <1>5
<1>8. x = z
  BY <1>2, <1>4, <1>6, <1>7, SeqEqual
<1> QED
  BY <1>8 DEF x, z, w

-----------------------------------------------------------------------------
(* What a stream has told of the text t so far, of which all but the first *)
(* d symbols are held back. R and C are what went out or will on the two   *)
(* channels, without white space; l is cfmt.lfm2.                          *)

(* The reasoning begins at o, *)
Enters(l, t, o) == IF l THEN At(t, o - 2, "b") /\ \A j \in 1..(o - 3) : t[j] = "n"
                   ELSE o = 1

(* and the content at a, with the reasoning told when there is one. *)
Begun(l, opened, R, t, a) ==
    IF opened
    THEN /\ At(t, a - 2, "t") /\ Free(t, "t", 1, a - 3)
         /\ \E o \in 1..(a - 2) : Enters(l, t, o) /\ R = Bare(SubSeq(t, o, a - 3))
    ELSE a = 1 /\ R = <<>>

Reasons(l, opened, R, C, t, d) ==
    /\ opened /\ C = <<>> /\ Free(t, "t", 1, d)
    /\ \E o \in 1..(d + 1) : Enters(l, t, o) /\ R = Bare(SubSeq(t, o, d))

Answers(l, opened, R, C, t, d) ==
    \E a \in 1..(d + 1) :
        Begun(l, opened, R, t, a) /\ C = Bare(SubSeq(t, a, d)) /\ Free(t, "c", a, d)

CallsTool(l, opened, R, C, t, d) ==
    /\ At(t, d - 1, "c")
    /\ \E a \in 1..(d - 1) :
          Begun(l, opened, R, t, a) /\ C = Bare(SubSeq(t, a, d - 2)) /\ Free(t, "c", a, d - 2)

Told(l, phase, opened, R, C, t, d) ==
    /\ phase = "reason" => Reasons(l, opened, R, C, t, d)
    /\ phase = "content" => Answers(l, opened, R, C, t, d)
    /\ phase = "tool" => CallsTool(l, opened, R, C, t, d)

LEMMA EntersGrow ==
    ASSUME NEW l, NEW t \in Texts, NEW u \in Texts, NEW o \in Int, Enters(l, t, o)
    PROVE  Enters(l, t \o u, o)
<1>1. CASE ~l
  BY <1>1 DEF Enters
<1>2. CASE l
  <2>1. At(t, o - 2, "b") /\ \A j \in 1..(o - 3) : t[j] = "n"
    BY <1>2 DEF Enters
  <2>2. At(t \o u, o - 2, "b")
    BY <2>1, AtGrow
  <2>3. Len(t) \in Nat /\ o - 2 \in 1..(Len(t) - 1)
    BY <2>1 DEF At, Texts
  <2>4. \A j \in 1..(o - 3) : j \in 1..Len(t)
    BY <2>3
  <2>5. \A j \in 1..(o - 3) : (t \o u)[j] = "n"
    BY <2>1, <2>4, Grown
  <2> QED
    BY <1>2, <2>2, <2>5 DEF Enters
<1> QED
  BY <1>1, <1>2

LEMMA BegunGrow ==
    ASSUME NEW l, NEW opened, NEW R, NEW t \in Texts, NEW u \in Texts, NEW a \in Int,
           Begun(l, opened, R, t, a)
    PROVE  Begun(l, opened, R, t \o u, a)
<1> DEFINE w == t \o u
<1>1. CASE ~opened
  BY <1>1 DEF Begun
<1>2. CASE opened
  <2>1. At(t, a - 2, "t") /\ Free(t, "t", 1, a - 3)
    BY <1>2 DEF Begun
  <2>2. PICK o \in 1..(a - 2) : Enters(l, t, o) /\ R = Bare(SubSeq(t, o, a - 3))
    BY <1>2 DEF Begun
  <2>3. Len(t) \in Nat /\ a - 2 \in 1..(Len(t) - 1)
    BY <2>1 DEF At, Texts
  <2>4. At(w, a - 2, "t")
    BY <2>1, AtGrow
  <2>5. a - 3 \in Int /\ a - 3 <= Len(t) /\ 1 \in Nat \ {0}
    BY <2>3
  <2>6. Free(w, "t", 1, a - 3)
    BY <2>1, <2>5, FreeGrow
  <2>7. Enters(l, w, o)
    BY <2>2, EntersGrow
  <2>8. o \in 1..(Len(t) + 1) /\ a - 3 \in (o - 1)..Len(t)
    BY <2>3
  <2>9. SubSeq(w, o, a - 3) = SubSeq(t, o, a - 3)
    BY <2>8, SegGrow
  <2> HIDE DEF w
  <2>10. Begun(l, opened, R, w, a)
    BY <1>2, <2>2, <2>4, <2>6, <2>7, <2>9 DEF Begun
  <2> QED
    BY <2>10 DEF w
<1> QED
  BY <1>1, <1>2

LEMMA ToldGrow ==
    ASSUME NEW l, NEW phase, NEW opened, NEW R, NEW C, NEW t \in Texts, NEW u \in Texts,
           NEW d \in 0..Len(t), Told(l, phase, opened, R, C, t, d)
    PROVE  Told(l, phase, opened, R, C, t \o u, d)
<1> DEFINE w == t \o u
<1>0. Len(t) \in Nat /\ 1 \in Nat \ {0} /\ d \in Int /\ d <= Len(t)
  BY DEF Texts
<1>1. ASSUME Reasons(l, opened, R, C, t, d) PROVE Reasons(l, opened, R, C, w, d)
  <2>1. opened /\ C = <<>> /\ Free(t, "t", 1, d)
    BY <1>1 DEF Reasons
  <2>2. PICK o \in 1..(d + 1) : Enters(l, t, o) /\ R = Bare(SubSeq(t, o, d))
    BY <1>1 DEF Reasons
  <2>3. Free(w, "t", 1, d)
    BY <1>0, <2>1, FreeGrow
  <2>4. Enters(l, w, o)
    BY <2>2, EntersGrow
  <2>5. o \in 1..(Len(t) + 1) /\ d \in (o - 1)..Len(t)
    BY <1>0
  <2>6. SubSeq(w, o, d) = SubSeq(t, o, d)
    BY <2>5, SegGrow
  <2> HIDE DEF w
  <2> QED
    BY <2>1, <2>2, <2>3, <2>4, <2>6 DEF Reasons
<1>2. ASSUME Answers(l, opened, R, C, t, d) PROVE Answers(l, opened, R, C, w, d)
  <2>1. PICK a \in 1..(d + 1) :
           Begun(l, opened, R, t, a) /\ C = Bare(SubSeq(t, a, d)) /\ Free(t, "c", a, d)
    BY <1>2 DEF Answers
  <2>2. a \in 1..(Len(t) + 1) /\ d \in (a - 1)..Len(t) /\ a \in Nat \ {0} /\ a \in Int
    BY <1>0
  <2>3. Begun(l, opened, R, w, a)
    BY <2>1, <2>2, BegunGrow
  <2>4. SubSeq(w, a, d) = SubSeq(t, a, d)
    BY <2>2, SegGrow
  <2>5. Free(w, "c", a, d)
    BY <1>0, <2>1, <2>2, FreeGrow
  <2> HIDE DEF w
  <2> QED
    BY <2>1, <2>3, <2>4, <2>5 DEF Answers
<1>3. ASSUME CallsTool(l, opened, R, C, t, d) PROVE CallsTool(l, opened, R, C, w, d)
  <2>1. At(t, d - 1, "c")
    BY <1>3 DEF CallsTool
  <2>2. PICK a \in 1..(d - 1) :
           Begun(l, opened, R, t, a) /\ C = Bare(SubSeq(t, a, d - 2)) /\ Free(t, "c", a, d - 2)
    BY <1>3 DEF CallsTool
  <2>3. a \in 1..(Len(t) + 1) /\ d - 2 \in (a - 1)..Len(t) /\ a \in Nat \ {0} /\ a \in Int
        /\ d - 2 \in Int /\ d - 2 <= Len(t)
    BY <1>0
  <2>4. At(w, d - 1, "c")
    BY <2>1, AtGrow
  <2>5. Begun(l, opened, R, w, a)
    BY <2>2, <2>3, BegunGrow
  <2>6. SubSeq(w, a, d - 2) = SubSeq(t, a, d - 2)
    BY <2>3, SegGrow
  <2>7. Free(w, "c", a, d - 2)
    BY <2>2, <2>3, FreeGrow
  <2> HIDE DEF w
  <2> QED
    BY <2>2, <2>4, <2>5, <2>6, <2>7 DEF CallsTool
<1> HIDE DEF w
<1>4. Told(l, phase, opened, R, C, w, d)
  BY <1>1, <1>2, <1>3 DEF Told
<1> QED
  BY <1>4 DEF w

(* lfm2 opens the reasoning itself. *)
LEMMA ToldOpening ==
    ASSUME NEW l, l, NEW t \in Texts, NEW i \in 1..(Len(t) - 1), At(t, i, "b"),
           \A j \in 1..(i - 1) : t[j] = "n"
    PROVE  Told(l, "reason", TRUE, <<>>, <<>>, t, i + 1)
<1> DEFINE o == i + 2
           d == i + 1
<1>1. Len(t) \in Nat /\ i \in Nat /\ o \in 1..(d + 1) /\ o - 2 = i /\ o - 3 = i - 1
      /\ d \in Int /\ o \in Int /\ d < o
  BY DEF Texts
<1>2. Enters(l, t, o)
  <2>1. At(t, o - 2, "b") /\ \A j \in 1..(o - 3) : t[j] = "n"
    BY <1>1
  <2> QED
    BY <2>1 DEF Enters
<1>3. t[i] = "<" /\ t[i + 1] = "b"
  BY DEF At
<1>4. Free(t, "t", 1, d)
  <2> SUFFICES ASSUME NEW j \in 1..d, t[j] = "<" PROVE j < Len(t) /\ t[j + 1] # "t"
    BY DEF Free
  <2>1. j = i
    <3>1. j \in 1..(i - 1) \/ j = i \/ j = i + 1
      BY <1>1
    <3> QED
      BY <1>3, <3>1
  <2>2. j < Len(t)
    BY <1>1, <2>1
  <2> QED
    BY <1>3, <2>1, <2>2
<1> HIDE DEF o, d
<1>5. SubSeq(t, o, d) = <<>>
  BY <1>1, SubSeqEmpty
<1>6. Reasons(l, TRUE, <<>>, <<>>, t, d)
  BY <1>1, <1>2, <1>4, <1>5, BareEmpty DEF Reasons
<1>7. Told(l, "reason", TRUE, <<>>, <<>>, t, d)
  BY <1>6 DEF Told
<1> QED
  BY <1>7 DEF d

-----------------------------------------------------------------------------
(* Another e symbols of what is held go out. *)
LEMMA HoldAt ==
    ASSUME NEW t \in Texts, NEW d \in 0..Len(t), NEW hold, IsRest(hold, t, d)
    PROVE  /\ \A j \in 1..Len(hold) : hold[j] = t[d + j] /\ d + j \in 1..Len(t)
           /\ \A y : \A j \in Int : j >= 1 => (At(hold, j, y) <=> At(t, d + j, y))
<1> DEFINE a == d + 1
           l == Len(t)
<1>1. l \in Nat /\ d \in Nat /\ a \in 1..(Len(t) + 1) /\ l \in (a - 1)..Len(t)
  BY DEF Texts
<1>2. hold = SubSeq(t, a, l)
  BY DEF IsRest
<1> HIDE DEF a, l
<1>3. hold \in Texts /\ Len(hold) = l - a + 1 /\ \A j \in 1..(l - a + 1) : hold[j] = t[a + j - 1]
  BY <1>1, <1>2, SegProps
<1>4. Len(hold) = Len(t) - d /\ a = d + 1 /\ Len(t) = l
  BY <1>1, <1>3 DEF a, l
<1>5. \A j \in 1..Len(hold) : hold[j] = t[d + j] /\ d + j \in 1..Len(t)
  <2> SUFFICES ASSUME NEW j \in 1..Len(hold) PROVE hold[j] = t[d + j] /\ d + j \in 1..Len(t)
    OBVIOUS
  <2>1. j \in 1..(l - a + 1) /\ a + j - 1 = d + j /\ d + j \in 1..Len(t)
    BY <1>1, <1>4
  <2> QED
    BY <1>3, <2>1
<1>6. ASSUME NEW j \in Int, NEW y, j >= 1 PROVE At(hold, j, y) <=> At(t, d + j, y)
  <2>1. j \in 1..(Len(hold) - 1) <=> d + j \in 1..(Len(t) - 1)
    BY <1>1, <1>4, <1>6
  <2>2. ASSUME j \in 1..(Len(hold) - 1)
        PROVE  hold[j] = t[d + j] /\ hold[j + 1] = t[(d + j) + 1]
    <3>1. j \in 1..Len(hold) /\ j + 1 \in 1..Len(hold) /\ d + (j + 1) = (d + j) + 1
      BY <1>1, <1>4, <2>2
    <3>2. hold[j] = t[d + j] /\ hold[j + 1] = t[d + (j + 1)]
      BY <1>5, <3>1
    <3> QED
      BY <3>1, <3>2
  <2> QED
    BY <2>1, <2>2 DEF At
<1> QED
  BY <1>5, <1>6

LEMMA FreeOn ==
    ASSUME NEW t \in Texts, NEW d \in 0..Len(t), NEW hold, IsRest(hold, t, d), NEW y,
           NEW e \in 0..Len(hold), \A j \in 1..e : ~At(hold, j, y),
           e = Len(hold) /\ e > 0 => hold[e] # "<",
           NEW a \in 1..(d + 1), Free(t, y, a, d)
    PROVE  Free(t, y, a, d + e)
<1>1. hold \in Texts /\ Len(hold) = Len(t) - d /\ Len(hold) \in Nat /\ d \in Nat /\ Len(t) \in Nat
  BY HoldTyped DEF Texts
<1> SUFFICES ASSUME NEW i \in a..(d + e), t[i] = "<" PROVE i < Len(t) /\ t[i + 1] # y
  BY DEF Free
<1>2. CASE i \in a..d
  BY <1>2 DEF Free
<1>3. CASE i \notin a..d
  <2> DEFINE j == i - d
  <2>1. j \in 1..e /\ d + j = i /\ j \in Int /\ j >= 1 /\ j \in 1..Len(hold)
    BY <1>1, <1>3
  <2> HIDE DEF j
  <2>2. hold[j] = "<" /\ ~At(t, i, y)
    BY <2>1, HoldAt
  <2>3. i < Len(t)
    <3> SUFFICES ASSUME i >= Len(t) PROVE FALSE
      BY <1>1
    <3>1. j = e /\ e = Len(hold) /\ e > 0
      BY <1>1, <2>1
    <3> QED
      BY <2>2, <3>1
  <2>4. i \in 1..(Len(t) - 1)
    BY <1>1, <2>3
  <2> QED
    BY <2>2, <2>3, <2>4 DEF At
<1> QED
  BY <1>2, <1>3

(* What goes out is what follows. *)
LEMMA BareOn ==
    ASSUME NEW t \in Texts, NEW d \in 0..Len(t), NEW hold, IsRest(hold, t, d),
           NEW e \in 0..Len(hold), NEW a \in 1..(d + 1)
    PROVE  Bare(SubSeq(t, a, d)) \o Bare(SubSeq(hold, 1, e)) = Bare(SubSeq(t, a, d + e))
<1>1. hold \in Texts /\ Len(hold) = Len(t) - d /\ Len(hold) \in Nat /\ d \in Nat /\ Len(t) \in Nat
  BY HoldTyped DEF Texts
<1> DEFINE i == e + 1
           c == d + e
<1>2. i \in 1..(Len(hold) + 1) /\ i - 1 = e /\ d + i - 1 = c
  BY <1>1
<1>3. a \in 1..(Len(t) + 1) /\ d \in (a - 1)..Len(t) /\ c \in d..Len(t)
  BY <1>1
<1> HIDE DEF i, c
<1>4. SubSeq(hold, 1, i - 1) = SubSeq(t, d + 1, d + i - 1)
  BY <1>2, HoldCut
<1>5. Bare(SubSeq(t, a, d)) \o Bare(SubSeq(t, d + 1, c)) = Bare(SubSeq(t, a, c))
  BY <1>3, BareSeg
<1>6. SubSeq(hold, 1, e) = SubSeq(t, d + 1, c)
  BY <1>2, <1>4
<1> QED
  BY <1>5, <1>6 DEF c

LEMMA ReasonsOn ==
    ASSUME NEW l, NEW opened, NEW R, NEW C, NEW t \in Texts, NEW d \in 0..Len(t),
           NEW hold, IsRest(hold, t, d), Reasons(l, opened, R, C, t, d),
           NEW e \in 0..Len(hold), \A j \in 1..e : ~At(hold, j, "t"),
           e = Len(hold) /\ e > 0 => hold[e] # "<"
    PROVE  Reasons(l, opened, R \o Bare(SubSeq(hold, 1, e)), C, t, d + e)
<1>1. opened /\ C = <<>> /\ Free(t, "t", 1, d)
  BY DEF Reasons
<1>2. PICK o \in 1..(d + 1) : Enters(l, t, o) /\ R = Bare(SubSeq(t, o, d))
  BY DEF Reasons
<1>3. 1 \in 1..(d + 1) /\ d \in Nat /\ e \in Nat
  BY HoldTyped
<1>4. Free(t, "t", 1, d + e)
  BY <1>1, <1>3, FreeOn
<1>5. R \o Bare(SubSeq(hold, 1, e)) = Bare(SubSeq(t, o, d + e))
  BY <1>2, BareOn
<1>6. o \in 1..((d + e) + 1)
  BY <1>3
<1> QED
  BY <1>1, <1>2, <1>4, <1>5, <1>6 DEF Reasons

LEMMA AnswersOn ==
    ASSUME NEW l, NEW opened, NEW R, NEW C, NEW t \in Texts, NEW d \in 0..Len(t),
           NEW hold, IsRest(hold, t, d), Answers(l, opened, R, C, t, d),
           NEW e \in 0..Len(hold), \A j \in 1..e : ~At(hold, j, "c"),
           e = Len(hold) /\ e > 0 => hold[e] # "<"
    PROVE  Answers(l, opened, R, C \o Bare(SubSeq(hold, 1, e)), t, d + e)
<1>1. PICK a \in 1..(d + 1) :
         Begun(l, opened, R, t, a) /\ C = Bare(SubSeq(t, a, d)) /\ Free(t, "c", a, d)
  BY DEF Answers
<1>2. d \in Nat /\ e \in Nat
  BY HoldTyped
<1>3. Free(t, "c", a, d + e)
  BY <1>1, FreeOn
<1>4. C \o Bare(SubSeq(hold, 1, e)) = Bare(SubSeq(t, a, d + e))
  BY <1>1, BareOn
<1>5. a \in 1..((d + e) + 1)
  BY <1>2
<1> QED
  BY <1>1, <1>3, <1>4, <1>5 DEF Answers

(* The marker at k ends the reasoning, or the content. *)
LEMMA ReasonsEnd ==
    ASSUME NEW l, NEW opened, NEW R, NEW C, NEW t \in Texts, NEW d \in 0..Len(t),
           NEW hold, IsRest(hold, t, d), Reasons(l, opened, R, C, t, d),
           NEW k \in 1..(Len(hold) - 1), At(hold, k, "t"), \A j \in 1..(k - 1) : ~At(hold, j, "t")
    PROVE  Answers(l, opened, R \o Bare(SubSeq(hold, 1, k - 1)), C, t, d + k + 1)
<1> DEFINE e == k - 1
           a == d + k + 2
           Q == R \o Bare(SubSeq(hold, 1, e))
<1>1. hold \in Texts /\ Len(hold) = Len(t) - d /\ Len(hold) \in Nat /\ d \in Nat /\ Len(t) \in Nat
  BY HoldTyped DEF Texts
<1>2. e \in 0..Len(hold) /\ e # Len(hold) /\ a - 2 = d + k /\ a - 3 = d + e /\ a \in Int
      /\ a \in 1..((d + k + 1) + 1) /\ d + k + 1 < a /\ d + k + 1 \in Int /\ k \in Int /\ k >= 1
      /\ (d + e) + 1 = a - 2
  BY <1>1
<1>3. \A j \in 1..e : ~At(hold, j, "t")
  OBVIOUS
<1> HIDE DEF e
<1>4. Reasons(l, opened, Q, C, t, d + e)
  BY <1>2, <1>3, ReasonsOn
<1>5. At(t, a - 2, "t")
  BY <1>2, HoldAt
<1> HIDE DEF a, Q
<1>6. opened /\ C = <<>> /\ Free(t, "t", 1, a - 3)
      /\ \E o \in 1..(a - 2) : Enters(l, t, o) /\ Q = Bare(SubSeq(t, o, a - 3))
  BY <1>2, <1>4 DEF Reasons
<1>7. Begun(l, opened, Q, t, a)
  BY <1>5, <1>6 DEF Begun
<1>8. SubSeq(t, a, d + k + 1) = <<>>
  BY <1>2, SubSeqEmpty
<1>9. Free(t, "c", a, d + k + 1)
  BY <1>2 DEF Free
<1>10. Answers(l, opened, Q, C, t, d + k + 1)
  BY <1>2, <1>6, <1>7, <1>8, <1>9, BareEmpty DEF Answers
<1> QED
  BY <1>10 DEF Q, e

LEMMA AnswersEnd ==
    ASSUME NEW l, NEW opened, NEW R, NEW C, NEW t \in Texts, NEW d \in 0..Len(t),
           NEW hold, IsRest(hold, t, d), Answers(l, opened, R, C, t, d),
           NEW k \in 1..(Len(hold) - 1), At(hold, k, "c"), \A j \in 1..(k - 1) : ~At(hold, j, "c")
    PROVE  CallsTool(l, opened, R, C \o Bare(SubSeq(hold, 1, k - 1)), t, d + k + 1)
<1> DEFINE e == k - 1
           b == d + k + 1
           Q == C \o Bare(SubSeq(hold, 1, e))
<1>1. hold \in Texts /\ Len(hold) = Len(t) - d /\ Len(hold) \in Nat /\ d \in Nat /\ Len(t) \in Nat
  BY HoldTyped DEF Texts
<1>2. e \in 0..Len(hold) /\ e # Len(hold) /\ b - 1 = d + k /\ b - 2 = d + e /\ b \in Int
      /\ k \in Int /\ k >= 1 /\ (d + e) + 1 = b - 1
  BY <1>1
<1>3. \A j \in 1..e : ~At(hold, j, "c")
  OBVIOUS
<1> HIDE DEF e
<1>4. Answers(l, opened, R, Q, t, d + e)
  BY <1>2, <1>3, AnswersOn
<1>5. At(t, b - 1, "c")
  BY <1>2, HoldAt
<1> HIDE DEF b, Q
<1>6. \E a \in 1..(b - 1) :
         Begun(l, opened, R, t, a) /\ Q = Bare(SubSeq(t, a, b - 2)) /\ Free(t, "c", a, b - 2)
  BY <1>2, <1>4 DEF Answers
<1>7. CallsTool(l, opened, R, Q, t, b)
  BY <1>5, <1>6 DEF CallsTool
<1> QED
  BY <1>7 DEF Q, b, e

LEMMA FirstOfTwo ==
    ASSUME NEW a, NEW b
    PROVE  SubSeq(<<a, b>>, 1, 1) = <<a>>
<1> DEFINE S == {a, b}
           m == <<a, b>>
<1>1. m \in Seq(S) /\ Len(m) = 2 /\ m[1] = a
  OBVIOUS
<1> HIDE DEF m
<1>2. \A i \in 1..1 : m[i] \in S
  BY <1>1
<1>3. /\ SubSeq(m, 1, 1) \in Seq(S) /\ Len(SubSeq(m, 1, 1)) = 1
      /\ \A i \in 1..(1 - 1 + 1) : SubSeq(m, 1, 1)[i] = m[1 + i - 1]
  BY <1>1, <1>2, SubSeqProperties
<1>4. SubSeq(m, 1, 1)[1] = a
  BY <1>1, <1>3
<1> DEFINE x == SubSeq(m, 1, 1)
<1>5. x \in Seq(S) /\ Len(x) = 1 /\ x[1] = a
  BY <1>3, <1>4
<1> HIDE DEF x, S
<1>6. x = <<a>>
  BY <1>5
<1> QED
  BY <1>6 DEF x, m

(* What may go out does not end with the start of a marker. *)
LEMMA EmittableLess ==
    ASSUME NEW s \in Texts, NEW y, Len(s) > 0, Emittable(s, <<"<", y>>) = Len(s)
    PROVE  s[Len(s)] # "<"
<1> SUFFICES ASSUME s[Len(s)] = "<" PROVE FALSE
  OBVIOUS
<1> DEFINE m == <<"<", y>>
           top == IF Len(s) < Len(m) THEN Len(s) ELSE Len(m) - 1
           T == {i \in 0..top : From(s, Len(s) - i + 1) = SubSeq(m, 1, i)}
           k == Max(T)
           u == SubSeq(s, 1, Len(s) - k)
<1>1. Len(s) \in Nat /\ top \in Nat /\ top <= Len(s) /\ 1 \in 0..top
  BY DEF Texts
<1>2. 1 \in T
  <2>1. Len(s) \in 1..(Len(s) + 1) /\ Len(s) \in (Len(s) - 1)..Len(s) /\ Len(s) - Len(s) + 1 = 1
        /\ Len(s) - 1 + 1 = Len(s) /\ 1 \in 1..1 /\ Len(s) + 1 - 1 = Len(s)
    BY <1>1
  <2> DEFINE x == SubSeq(s, Len(s), Len(s))
  <2>2. x \in Texts /\ Len(x) = 1 /\ x[1] = s[Len(s)]
    <3>1. /\ x \in Texts /\ Len(x) = Len(s) - Len(s) + 1
          /\ \A i \in 1..(Len(s) - Len(s) + 1) : x[i] = s[Len(s) + i - 1]
      BY <2>1, SegProps
    <3> HIDE DEF x
    <3> QED
      BY <2>1, <3>1
  <2>3. x = <<"<">>
    <3>1. x \in Seq(Symbol)
      BY <2>2 DEF Texts
    <3> HIDE DEF x
    <3> QED
      BY <2>2, <3>1
  <2>4. From(s, Len(s) - 1 + 1) = x
    BY <2>1 DEF From
  <2>5. SubSeq(m, 1, 1) = <<"<">>
    BY FirstOfTwo
  <2> HIDE DEF x, m, top
  <2> QED
    BY <1>1, <2>3, <2>4, <2>5
<1>3. Emittable(s, m) = Len(TrimEnd(u))
  BY DEF Emittable
<1>4. T \subseteq 0..top
  OBVIOUS
<1>5. k \in 0..top /\ k >= 1
  <2> HIDE DEF T, top
  <2>1. T # {}
    BY <1>2
  <2>2. k \in T /\ \A i \in T : i <= k
    BY <1>1, <1>4, <2>1, MaxIs
  <2> QED
    BY <1>2, <1>4, <2>2
<1> HIDE DEF k, T
<1>6. 1 \in 1..(Len(s) + 1) /\ Len(s) - k \in (1 - 1)..Len(s)
  BY <1>1, <1>5
<1>7. u \in Texts /\ Len(u) = Len(s) - k - 1 + 1
  BY <1>6, SegProps
<1> HIDE DEF u
<1>8. PICK e \in 0..Len(u) : TrimEnd(u) = SubSeq(u, 1, e)
  BY <1>7, TrimEndDrops
<1>9. Len(u) \in Nat /\ 1 \in 1..(Len(u) + 1) /\ e \in (1 - 1)..Len(u)
  BY <1>7 DEF Texts
<1>10. Len(SubSeq(u, 1, e)) = e - 1 + 1
  BY <1>7, <1>9, SegProps
<1> HIDE DEF m, top
<1>11. Len(s) <= Len(u)
  <2>1. Len(s) = e
    BY <1>3, <1>8, <1>9, <1>10 DEF m
  <2> QED
    BY <1>9, <2>1
<1> QED
  BY <1>1, <1>5, <1>7, <1>11

LEMMA NoEnd ==
    ASSUME NEW l, NEW opened, NEW R, NEW C, NEW t \in Texts, NEW d \in 0..Len(t),
           NEW hold, IsRest(hold, t, d), Reasons(l, opened, R, C, t, d), ~Has(hold, ThinkEnd)
    PROVE  ~Has(t, ThinkEnd)
<1> SUFFICES ASSUME Has(t, ThinkEnd) PROVE FALSE
  OBVIOUS
<1>1. PICK i : i \in Places(t, ThinkEnd)
  BY DEF Has
<1>2. At(t, i, "t")
  BY <1>1, MarkersAt
<1>3. i \in 1..(Len(t) - 1) /\ t[i] = "<" /\ t[i + 1] = "t" /\ Len(t) \in Nat
  BY <1>2 DEF At, Texts
<1>4. Free(t, "t", 1, d)
  BY DEF Reasons
<1>5. ~(i <= d)
  <2> SUFFICES ASSUME i <= d PROVE FALSE
    OBVIOUS
  <2>1. i \in 1..d
    BY <1>3
  <2> QED
    BY <1>3, <1>4, <2>1 DEF Free
<1> DEFINE j == i - d
<1>6. j \in Int /\ j >= 1 /\ d + j = i
  BY <1>3, <1>5
<1> HIDE DEF j
<1>7. At(hold, j, "t")
  BY <1>2, <1>6, HoldAt
<1>8. hold \in Texts
  BY HoldTyped
<1>9. j \in Places(hold, ThinkEnd)
  BY <1>7, <1>8, MarkersAt
<1> QED
  BY <1>9 DEF Has

(* The place of the first marker. *)
LEMMA FirstAt ==
    ASSUME NEW s \in Texts, NEW y, Has(s, <<"<", y>>)
    PROVE  LET k == Find(s, <<"<", y>>)
           IN  k \in 1..(Len(s) - 1) /\ At(s, k, y) /\ \A j \in 1..(k - 1) : ~At(s, j, y)
<1> DEFINE m == <<"<", y>>
           k == Find(s, m)
<1>0. Len(m) = 2 /\ Len(s) \in Nat
  BY DEF Texts
<1>1. Places(s, m) \subseteq Nat /\ Places(s, m) # {}
  <2> HIDE DEF m
  <2> QED
    BY <1>0 DEF Places, Has, m
<1>2. k \in Places(s, m) /\ \A i \in Places(s, m) : k <= i
  <2> HIDE DEF m
  <2> QED
    BY <1>1, MinIs DEF Find
<1>3. At(s, k, y)
  BY <1>2, PlaceIs
<1> HIDE DEF k
<1>4. k \in 1..(Len(s) - 1)
  BY <1>3 DEF At
<1>5. ASSUME NEW j \in 1..(k - 1), At(s, j, y) PROVE FALSE
  <2>1. j \in Places(s, m)
    BY <1>5, PlaceIs
  <2>2. k <= j
    BY <1>2, <2>1
  <2> QED
    BY <1>4, <2>2
<1> QED
  BY <1>3, <1>4, <1>5 DEF k

-----------------------------------------------------------------------------
(* What a channel says: sent, pending and let through. *)
Said(s, p, o) == Bare((s \o p) \o o)

LEMMA SaidIs ==
    ASSUME NEW s \in Texts, NEW p \in Texts, NEW o \in Texts
    PROVE  Said(s, p, o) = (Bare(s) \o Bare(p)) \o Bare(o)
<1>1. s \o p \in Texts
  BY ConcatProperties DEF Texts
<1>2. Bare((s \o p) \o o) = Bare(s \o p) \o Bare(o)
  BY <1>1, BareConcat
<1> QED
  BY <1>2, BareConcat DEF Said

Adds(s, p, o, w) == Said(s, p, o \o w) = Said(s, p, o) \o Bare(w)

LEMMA SaidMore ==
    ASSUME NEW s \in Texts, NEW p \in Texts, NEW o \in Texts, NEW w \in Texts
    PROVE  Adds(s, p, o, w)
<1>1. s \o p \in Seq(Symbol) /\ o \in Seq(Symbol) /\ w \in Seq(Symbol)
  BY ConcatProperties DEF Texts
<1>2. (s \o p) \o (o \o w) = ((s \o p) \o o) \o w
  <2> DEFINE v == s \o p
  <2>1. v \in Seq(Symbol)
    BY <1>1
  <2> HIDE DEF v
  <2>2. Assoc(v, o, w)
    BY <1>1, <2>1, Regroup, Zenon
  <2> QED
    BY <2>2, Zenon DEF v, Assoc
<1>3. (s \o p) \o o \in Texts
  BY <1>1, ConcatProperties DEF Texts
<1>4. Bare(((s \o p) \o o) \o w) = Bare((s \o p) \o o) \o Bare(w)
  BY <1>3, BareConcat
<1> QED
  BY <1>2, <1>4, Zenon DEF Said, Adds

Tells(l, x, t) ==
    /\ x.g.r \in Texts /\ x.g.c \in Texts
    /\ \E d \in 0..Len(t) :
          /\ IsRest(x.g.hold, t, d)
          /\ Told(l, x.g.phase, x.g.opened, Said(x.g.r, x.g.pend_r, x.ro),
                  Said(x.g.c, x.g.pend_c, x.co), t, d)

(* The text before a marker at k, without the white space at its end.      *)
LEMMA BeforeMarker ==
    ASSUME NEW s \in Texts, NEW k \in 1..(Len(s) + 1)
    PROVE  /\ TrimEnd(SubSeq(s, 1, k - 1)) \in Texts
           /\ Bare(TrimEnd(SubSeq(s, 1, k - 1))) = Bare(SubSeq(s, 1, k - 1))
<1>1. Len(s) \in Nat /\ 1 \in 1..(Len(s) + 1) /\ k - 1 \in (1 - 1)..Len(s)
  BY DEF Texts
<1>2. SubSeq(s, 1, k - 1) \in Texts
  BY <1>1, SegProps
<1> QED
  BY <1>2, BareTrimEnd

LEMMA AfterMarker ==
    ASSUME NEW t \in Texts, NEW d \in 0..Len(t), NEW hold, IsRest(hold, t, d),
           NEW m, Len(m) = 2, NEW k \in 1..(Len(hold) - 1)
    PROVE  d + k + 1 \in 0..Len(t) /\ IsRest(After(hold, m, k), t, d + k + 1)
<1>1. hold \in Texts /\ Len(hold) = Len(t) - d /\ Len(hold) \in Nat /\ d \in Nat /\ Len(t) \in Nat
  BY HoldTyped DEF Texts
<1> DEFINE i == k + 2
<1>2. i \in 1..(Len(hold) + 1) /\ d + i = (d + k + 1) + 1 /\ d + k + 1 \in 0..Len(t)
  BY <1>1
<1>3. After(hold, m, k) = From(hold, i)
  BY DEF After
<1> HIDE DEF i
<1>4. From(hold, i) = SubSeq(t, d + i, Len(t))
  BY <1>2, HoldCut
<1> QED
  BY <1>2, <1>3, <1>4 DEF IsRest

LEMMA TellsReasonEnd ==
    ASSUME NEW l, NEW t \in Texts, NEW x, Round(x, t), Tells(l, x, t),
           x.g.phase = "reason", Has(x.g.hold, ThinkEnd)
    PROVE  Tells(l, Route(x), t) /\ Route(x).g.phase = "content"
<1> DEFINE g == x.g
           k == Find(g.hold, ThinkEnd)
           w == TrimEnd(SubSeq(g.hold, 1, k - 1))
           hold == After(g.hold, ThinkEnd, k)
           h == [g EXCEPT !.hold = hold, !.phase = "content", !.skip = TRUE]
           y == [x EXCEPT !.ro = @ \o w, !.g = h]
           R == Said(g.r, g.pend_r, x.ro)
           C == Said(g.c, g.pend_c, x.co)
<1>1. Route(x) = y
  BY DEF Route
<1>2. g.r \in Texts /\ g.c \in Texts
  BY DEF Tells
<1>3. PICK d \in 0..Len(t) : IsRest(g.hold, t, d) /\ Told(l, g.phase, g.opened, R, C, t, d)
  BY DEF Tells
<1>4. g.hold \in Texts /\ Len(g.hold) \in Nat
  BY <1>3, HoldTyped
<1>5. k \in 1..(Len(g.hold) - 1) /\ At(g.hold, k, "t") /\ \A j \in 1..(k - 1) : ~At(g.hold, j, "t")
  BY <1>4, FirstAt DEF ThinkEnd
<1>6. k \in 1..(Len(g.hold) + 1)
  BY <1>4, <1>5
<1>7. w \in Texts /\ Bare(w) = Bare(SubSeq(g.hold, 1, k - 1))
  BY <1>4, <1>6, BeforeMarker
<1>8. d + k + 1 \in 0..Len(t) /\ IsRest(hold, t, d + k + 1)
  BY <1>3, <1>5, MarkerLen, AfterMarker
<1> HIDE DEF k, w, hold, R, C
<1>9. Reasons(l, g.opened, R, C, t, d)
  BY <1>3 DEF Told
<1>10. Answers(l, g.opened, R \o Bare(w), C, t, d + k + 1)
  BY <1>3, <1>5, <1>7, <1>9, ReasonsEnd
<1>11. DOMAIN g = Fields /\ g.pend_r \in Texts /\ g.pend_c \in Texts /\ x.ro \in Texts /\ x.co \in Texts
  BY DEF Round, Shape
<1>12. /\ h.hold = hold /\ h.phase = "content" /\ h.opened = g.opened /\ h.r = g.r /\ h.c = g.c
       /\ h.pend_r = g.pend_r /\ h.pend_c = g.pend_c
  BY <1>11 DEF Fields
<1> HIDE DEF h
<1>13. y.g = h /\ y.ro = x.ro \o w /\ y.co = x.co
  BY DEF Round
<1> HIDE DEF y
<1>14. Said(g.r, g.pend_r, x.ro \o w) = R \o Bare(w)
  <2>1. Adds(g.r, g.pend_r, x.ro, w)
    BY <1>2, <1>7, <1>11, SaidMore
  <2> QED
    BY <2>1, Zenon DEF Adds, R
<1>15. Told(l, h.phase, h.opened, R \o Bare(w), C, t, d + k + 1)
  BY <1>10, <1>12 DEF Told
<1>16. Tells(l, y, t)
  BY <1>2, <1>8, <1>12, <1>13, <1>14, <1>15 DEF Tells, C
<1> QED
  BY <1>1, <1>12, <1>13, <1>16

LEMMA TellsContentEnd ==
    ASSUME NEW l, NEW t \in Texts, NEW x, Round(x, t), Tells(l, x, t),
           x.g.phase = "content", Has(x.g.hold, ToolOpen)
    PROVE  Tells(l, Route(x), t) /\ Route(x).g.phase = "tool"
<1> DEFINE g == x.g
           k == Find(g.hold, ToolOpen)
           w == TrimEnd(SubSeq(g.hold, 1, k - 1))
           hold == After(g.hold, ToolOpen, k)
           h == [g EXCEPT !.hold = hold, !.phase = "tool", !.skip = FALSE]
           y == [x EXCEPT !.co = @ \o w, !.g = h]
           R == Said(g.r, g.pend_r, x.ro)
           C == Said(g.c, g.pend_c, x.co)
<1>1. Route(x) = y
  BY DEF Route
<1>2. g.r \in Texts /\ g.c \in Texts
  BY DEF Tells
<1>3. PICK d \in 0..Len(t) : IsRest(g.hold, t, d) /\ Told(l, g.phase, g.opened, R, C, t, d)
  BY DEF Tells
<1>4. g.hold \in Texts /\ Len(g.hold) \in Nat
  BY <1>3, HoldTyped
<1>5. k \in 1..(Len(g.hold) - 1) /\ At(g.hold, k, "c") /\ \A j \in 1..(k - 1) : ~At(g.hold, j, "c")
  BY <1>4, FirstAt DEF ToolOpen
<1>6. k \in 1..(Len(g.hold) + 1)
  BY <1>4, <1>5
<1>7. w \in Texts /\ Bare(w) = Bare(SubSeq(g.hold, 1, k - 1))
  BY <1>4, <1>6, BeforeMarker
<1>8. d + k + 1 \in 0..Len(t) /\ IsRest(hold, t, d + k + 1)
  BY <1>3, <1>5, MarkerLen, AfterMarker
<1> HIDE DEF k, w, hold, R, C
<1>9. Answers(l, g.opened, R, C, t, d)
  BY <1>3 DEF Told
<1>10. CallsTool(l, g.opened, R, C \o Bare(w), t, d + k + 1)
  BY <1>3, <1>5, <1>7, <1>9, AnswersEnd
<1>11. DOMAIN g = Fields /\ g.pend_r \in Texts /\ g.pend_c \in Texts /\ x.ro \in Texts /\ x.co \in Texts
  BY DEF Round, Shape
<1>12. /\ h.hold = hold /\ h.phase = "tool" /\ h.opened = g.opened /\ h.r = g.r /\ h.c = g.c
       /\ h.pend_r = g.pend_r /\ h.pend_c = g.pend_c
  BY <1>11 DEF Fields
<1> HIDE DEF h
<1>13. y.g = h /\ y.co = x.co \o w /\ y.ro = x.ro
  BY DEF Round
<1> HIDE DEF y
<1>14. Said(g.c, g.pend_c, x.co \o w) = C \o Bare(w)
  <2>1. Adds(g.c, g.pend_c, x.co, w)
    BY <1>2, <1>7, <1>11, SaidMore
  <2> QED
    BY <2>1, Zenon DEF Adds, C
<1>15. Told(l, h.phase, h.opened, R, C \o Bare(w), t, d + k + 1)
  BY <1>10, <1>12 DEF Told
<1>16. Tells(l, y, t)
  BY <1>2, <1>8, <1>12, <1>13, <1>14, <1>15 DEF Tells, R
<1> QED
  BY <1>1, <1>12, <1>13, <1>16

(* Without the marker, what may go out does. *)
LEMMA OnSplit ==
    ASSUME NEW t \in Texts, NEW d \in 0..Len(t), NEW hold, IsRest(hold, t, d), NEW y,
           ~Has(hold, <<"<", y>>)
    PROVE  LET e == Emittable(hold, <<"<", y>>)
               k == e + 1
           IN  /\ e \in 0..Len(hold) /\ d + e \in 0..Len(t) /\ k - 1 = e
               /\ IsRest(From(hold, k), t, d + e) /\ SubSeq(hold, 1, e) \in Texts
               /\ \A j \in 1..e : ~At(hold, j, y)
               /\ e = Len(hold) /\ e > 0 => hold[e] # "<"
<1> DEFINE m == <<"<", y>>
           e == Emittable(hold, m)
           k == e + 1
<1>1. hold \in Texts /\ Len(hold) = Len(t) - d /\ Len(hold) \in Nat /\ d \in Nat /\ Len(t) \in Nat
  BY HoldTyped DEF Texts
<1>2. e \in 0..Len(hold)
  <2>1. Len(m) = 2
    OBVIOUS
  <2> HIDE DEF m
  <2> QED
    BY <1>1, <2>1, EmittableIs
<1>3. e = Len(hold) /\ e > 0 => hold[e] # "<"
  BY <1>1, EmittableLess
<1>4. \A j \in 1..e : ~At(hold, j, y)
  BY <1>1, PlaceIs DEF Has
<1> HIDE DEF e
<1>5. k \in 1..(Len(hold) + 1) /\ k - 1 = e /\ d + k = (d + e) + 1 /\ d + e \in 0..Len(t)
      /\ 1 \in 1..(Len(hold) + 1) /\ e \in (1 - 1)..Len(hold)
  BY <1>1, <1>2
<1>6. SubSeq(hold, 1, e) \in Texts
  BY <1>1, <1>5, SegProps
<1> HIDE DEF k
<1>7. From(hold, k) = SubSeq(t, d + k, Len(t))
  <2>1. k \in 1..(Len(hold) + 1) /\ IsRest(hold, t, d)
    BY <1>5
  <2> HIDE DEF m
  <2> QED
    BY <2>1, HoldCut
<1>8. IsRest(From(hold, k), t, d + e)
  BY <1>5, <1>7 DEF IsRest
<1> QED
  BY <1>2, <1>3, <1>4, <1>5, <1>6, <1>8 DEF e, k

LEMMA TellsOn ==
    ASSUME NEW l, NEW t \in Texts, NEW x, Round(x, t), Tells(l, x, t),
           x.g.phase \in {"reason", "content"},
           ~Has(x.g.hold, IF x.g.phase = "reason" THEN ThinkEnd ELSE ToolOpen)
    PROVE  /\ Tells(l, Route(x), t) /\ Route(x).g.phase = x.g.phase
           /\ x.g.phase = "reason" => ~Has(t, ThinkEnd)
<1> DEFINE g == x.g
           z == IF g.phase = "reason" THEN "t" ELSE "c"
           m == IF g.phase = "reason" THEN ThinkEnd ELSE ToolOpen
           e == Emittable(g.hold, m)
           k == e + 1
           w == SubSeq(g.hold, 1, k - 1)
           hold == From(g.hold, k)
           h == [g EXCEPT !.hold = hold]
           y == IF g.phase = "reason" THEN [x EXCEPT !.ro = @ \o w, !.g = h]
                ELSE [x EXCEPT !.co = @ \o w, !.g = h]
           R == Said(g.r, g.pend_r, x.ro)
           C == Said(g.c, g.pend_c, x.co)
<1>1. Route(x) = y
  BY DEF Route
<1>2. g.r \in Texts /\ g.c \in Texts
  BY DEF Tells
<1>3. PICK d \in 0..Len(t) : IsRest(g.hold, t, d) /\ Told(l, g.phase, g.opened, R, C, t, d)
  BY DEF Tells
<1>4. m = <<"<", z>>
  BY DEF ThinkEnd, ToolOpen
<1>5. ~Has(g.hold, m)
  OBVIOUS
<1>6. g.hold \in Texts
  BY <1>3, HoldTyped
<1> HIDE DEF m
<1>7. /\ e \in 0..Len(g.hold) /\ d + e \in 0..Len(t) /\ k - 1 = e
      /\ IsRest(hold, t, d + e) /\ SubSeq(g.hold, 1, e) \in Texts
      /\ \A j \in 1..e : ~At(g.hold, j, z)
      /\ e = Len(g.hold) /\ e > 0 => g.hold[e] # "<"
  <2> HIDE DEF z
  <2>1. ~Has(g.hold, <<"<", z>>)
    BY <1>4, <1>5
  <2> QED
    BY <1>3, <1>4, <2>1, OnSplit
<1>8. w = SubSeq(g.hold, 1, e) /\ w \in Texts
  BY <1>7
<1> HIDE DEF e, k, w, hold, R, C
<1>9. DOMAIN g = Fields /\ g.pend_r \in Texts /\ g.pend_c \in Texts /\ x.ro \in Texts /\ x.co \in Texts
  BY DEF Round, Shape
<1>10. /\ h.hold = hold /\ h.phase = g.phase /\ h.opened = g.opened /\ h.r = g.r /\ h.c = g.c
       /\ h.pend_r = g.pend_r /\ h.pend_c = g.pend_c
  BY <1>9 DEF Fields
<1> HIDE DEF h
<1>11. CASE g.phase = "reason"
  <2>1. y.g = h /\ y.ro = x.ro \o w /\ y.co = x.co
    BY <1>11 DEF Round
  <2> HIDE DEF y
  <2>2. Reasons(l, g.opened, R, C, t, d)
    BY <1>3, <1>11 DEF Told
  <2>3. \A j \in 1..e : ~At(g.hold, j, "t")
    BY <1>7, <1>11
  <2>4. Reasons(l, g.opened, R \o Bare(w), C, t, d + e)
    BY <1>3, <1>7, <1>8, <2>2, <2>3, ReasonsOn
  <2>5. Said(g.r, g.pend_r, x.ro \o w) = R \o Bare(w)
    <3>1. Adds(g.r, g.pend_r, x.ro, w)
      BY <1>2, <1>8, <1>9, SaidMore
    <3> QED
      BY <3>1, Zenon DEF Adds, R
  <2>6. Told(l, h.phase, h.opened, R \o Bare(w), C, t, d + e)
    BY <1>10, <1>11, <2>4 DEF Told
  <2>7. Tells(l, y, t)
    BY <1>2, <1>7, <1>10, <2>1, <2>5, <2>6 DEF Tells, C
  <2>8. ~Has(t, ThinkEnd)
    BY <1>3, <1>5, <1>11, <2>2, NoEnd DEF m
  <2> QED
    BY <1>1, <1>10, <2>1, <2>7, <2>8
<1>12. CASE g.phase # "reason"
  <2>0. g.phase = "content"
    BY <1>12
  <2>1. y.g = h /\ y.co = x.co \o w /\ y.ro = x.ro
    BY <1>12 DEF Round
  <2> HIDE DEF y
  <2>2. Answers(l, g.opened, R, C, t, d)
    BY <1>3, <2>0 DEF Told
  <2>3. \A j \in 1..e : ~At(g.hold, j, "c")
    BY <1>7, <1>12
  <2>4. Answers(l, g.opened, R, C \o Bare(w), t, d + e)
    BY <1>3, <1>7, <1>8, <2>2, <2>3, AnswersOn
  <2>5. Said(g.c, g.pend_c, x.co \o w) = C \o Bare(w)
    <3>1. Adds(g.c, g.pend_c, x.co, w)
      BY <1>2, <1>8, <1>9, SaidMore
    <3> QED
      BY <3>1, Zenon DEF Adds, C
  <2>6. Told(l, h.phase, h.opened, R, C \o Bare(w), t, d + e)
    BY <1>10, <2>0, <2>4 DEF Told
  <2>7. Tells(l, y, t)
    BY <1>2, <1>7, <1>10, <2>1, <2>5, <2>6 DEF Tells, R
  <2> QED
    BY <1>1, <1>10, <1>12, <2>1, <2>7
<1> QED
  BY <1>11, <1>12

LEMMA RouteTells ==
    ASSUME NEW l, NEW t \in Texts, NEW x, Round(x, t), Tells(l, x, t)
    PROVE  /\ Tells(l, Route(x), t)
           /\ Route(x).g.phase = "reason" => ~Has(t, ThinkEnd)
<1>1. x.g.phase \in {"reason", "content", "tool"}
  BY DEF Round, Shape
<1>2. CASE x.g.phase = "tool"
  <2>1. Route(x) = x
    BY <1>2 DEF Route
  <2> QED
    BY <1>2, <2>1
<1>3. CASE x.g.phase = "reason" /\ Has(x.g.hold, ThinkEnd)
  BY <1>3, TellsReasonEnd
<1>4. CASE x.g.phase = "content" /\ Has(x.g.hold, ToolOpen)
  BY <1>4, TellsContentEnd
<1>5. CASE x.g.phase = "reason" /\ ~Has(x.g.hold, ThinkEnd)
  BY <1>5, TellsOn
<1>6. CASE x.g.phase = "content" /\ ~Has(x.g.hold, ToolOpen)
  BY <1>6, TellsOn
<1> QED
  BY <1>1, <1>2, <1>3, <1>4, <1>5, <1>6

(* Sending a part of a chunk and keeping the rest back says the same.      *)
Passes(skip, s, p, o) ==
    LET r == Chunk(skip, p, o)
        v == s \o SubSeq(r, 1, Clip(r))
    IN  v \in Texts /\ Said(v, Rest(r), <<>>) = Said(s, p, o)

LEMMA ChunkSaid ==
    ASSUME NEW s \in Texts, NEW p \in Texts, NEW o \in Texts, NEW skip \in BOOLEAN
    PROVE  Passes(skip, s, p, o)
<1> DEFINE r == Chunk(skip, p, o)
           k == Clip(r)
           a == SubSeq(r, 1, k)
           b == SubSeq(r, k + 1, Len(r))
           v == s \o a
           q == Led(skip, o)
<1>1. q \in Texts /\ Bare(q) = Bare(o)
  BY BareTrimLead DEF Led
<1> HIDE DEF q
<1>2. r = p \o q
  BY DEF Chunk, q
<1>3. r \in Texts /\ Bare(r) = Bare(p) \o Bare(o)
  <2>1. p \o q \in Texts
    BY <1>1, ConcatProperties DEF Texts
  <2> QED
    BY <1>1, <1>2, <2>1, BareConcat
<1> HIDE DEF r
<1>4. k \in 0..Len(r) /\ Len(r) \in Nat
  BY <1>3, ClipIn DEF Texts
<1> HIDE DEF k
<1>5. 1 \in 1..(Len(r) + 1) /\ k \in (1 - 1)..Len(r) /\ Len(r) \in k..Len(r)
      /\ k + 1 \in 1..(Len(r) + 1) /\ Len(r) \in (k + 1 - 1)..Len(r)
  BY <1>4
<1>6. a \in Texts /\ b \in Texts
  BY <1>3, <1>5, SegProps
<1>7. Bare(a) \o Bare(b) = Bare(r)
  <2>1. Bare(a) \o Bare(b) = Bare(SubSeq(r, 1, Len(r)))
    BY <1>3, <1>5, BareSeg
  <2>2. SubSeq(r, 1, Len(r)) = r
    BY <1>3, SubSeqFull DEF Texts
  <2> QED
    BY <2>1, <2>2
<1>8. Rest(r) = b
  BY DEF Rest, From, k
<1> HIDE DEF a, b
<1>9. v \in Texts /\ Bare(v) = Bare(s) \o Bare(a)
  BY <1>6, ConcatProperties, BareConcat DEF Texts
<1> HIDE DEF v
<1> DEFINE S == Bare(s)
           A == Bare(a)
           B == Bare(b)
           P == Bare(p)
           O == Bare(o)
           V == Bare(v)
<1>10. S \in Seq(Symbol) /\ A \in Seq(Symbol) /\ B \in Seq(Symbol) /\ P \in Seq(Symbol)
       /\ O \in Seq(Symbol) /\ V \in Seq(Symbol)
  BY <1>6, <1>9, BareType DEF Texts
<1>11. Said(v, b, <<>>) = (V \o B) \o <<>>
  <2> DEFINE E == <<>>
  <2>1. E \in Texts /\ v \in Texts /\ b \in Texts
    BY <1>6, <1>9 DEF Texts
  <2>2. Bare(E) = <<>>
    BY BareEmpty
  <2> HIDE DEF E, S, A, B, P, O, V
  <2>3. Said(v, b, E) = (Bare(v) \o Bare(b)) \o Bare(E)
    BY <2>1, SaidIs
  <2> QED
    BY <2>2, <2>3, Zenon DEF E, B, V
<1>12. Said(s, p, o) = (S \o P) \o O
  BY SaidIs
<1>13. V = S \o A /\ A \o B = P \o O
  BY <1>3, <1>7, <1>9
<1> HIDE DEF S, A, B, P, O, V
<1>14. V \o B = (S \o P) \o O
  <2>1. Assoc(S, A, B) /\ Assoc(S, P, O)
    BY <1>10, Regroup, Zenon
  <2> QED
    BY <1>13, <2>1, Zenon DEF Assoc
<1>15. (V \o B) \o <<>> = V \o B
  <2> DEFINE D == V \o B
  <2>1. D \in Seq(Symbol)
    BY <1>10, ConcatProperties
  <2> HIDE DEF D
  <2>2. D \o <<>> = D
    BY <2>1, ConcatEmptySeq
  <2> QED
    BY <2>2 DEF D
<1>16. Said(v, b, <<>>) = Said(s, p, o)
  BY <1>11, <1>12, <1>14, <1>15, Zenon
<1> QED
  BY <1>8, <1>9, <1>16, Zenon DEF v, a, k, r, Passes

-----------------------------------------------------------------------------
(* Between two pieces. *)
Speaks(l, g, t) ==
    /\ g.r \in Texts /\ g.c \in Texts
    /\ \E d \in 0..Len(t) :
          /\ IsRest(g.hold, t, d)
          /\ Told(l, g.phase, g.opened, Said(g.r, g.pend_r, <<>>), Said(g.c, g.pend_c, <<>>), t, d)
    /\ g.await => l /\ g.hold = t /\ g.r = <<>> /\ g.c = <<>>

LEMMA SaidNothing == Said(<<>>, <<>>, <<>>) = <<>>
<1> DEFINE E == <<>>
<1>1. E \in Texts /\ E \in Seq(Symbol)
  BY DEF Texts
<1> HIDE DEF E
<1>2. E \o E = E
  BY <1>1, ConcatEmptySeq DEF E
<1>3. Said(E, E, E) = Bare(E)
  BY <1>2 DEF Said
<1> QED
  BY <1>3, BareEmpty DEF E

LEMMA HeldSpeaks ==
    ASSUME NEW l, NEW t \in Texts, NEW u \in Texts, NEW g, Stream(g, t), Speaks(l, g, t)
    PROVE  Speaks(l, Holding(g, u), t \o u)
<1> DEFINE w == t \o u
           hold == g.hold \o u
           h == [g EXCEPT !.hold = hold]
           R == Said(g.r, g.pend_r, <<>>)
           C == Said(g.c, g.pend_c, <<>>)
<1>1. DOMAIN g = Fields
  BY DEF Stream, Shape
<1>2. PICK d \in 0..Len(t) : IsRest(g.hold, t, d) /\ Told(l, g.phase, g.opened, R, C, t, d)
  BY DEF Speaks
<1>3. IsRest(hold, w, d)
  BY <1>2, RestGrow DEF IsRest
<1>4. Told(l, g.phase, g.opened, R, C, w, d)
  BY <1>2, ToldGrow
<1>5. d \in 0..Len(w)
  BY Grown
<1>6. g.await => hold = w
  BY DEF Speaks
<1> HIDE DEF w, hold
<1>7. /\ h.hold = hold /\ h.phase = g.phase /\ h.opened = g.opened /\ h.r = g.r /\ h.c = g.c
      /\ h.pend_r = g.pend_r /\ h.pend_c = g.pend_c /\ h.await = g.await
  BY <1>1 DEF Fields
<1> HIDE DEF h
<1>8. Speaks(l, h, w)
  BY <1>3, <1>4, <1>5, <1>6, <1>7 DEF Speaks
<1> QED
  BY <1>8 DEF h, w, hold, Holding

(* Where a text begins with <think> but for white space. *)
LEMMA LedOpen ==
    ASSUME NEW t \in Texts, IsPrefix(ThinkOpen, TrimLead(t))
    PROVE  \E i \in 1..(Len(t) - 1) :
              At(t, i, "b") /\ TrimLead(t) = SubSeq(t, i, Len(t)) /\ \A j \in 1..(i - 1) : t[j] = "n"
<1> DEFINE head == TrimLead(t)
<1>1. PICK i \in 1..(Len(t) + 1) : head = SubSeq(t, i, Len(t)) /\ \A j \in 1..(i - 1) : t[j] = "n"
  BY TrimLeadSkips
<1>2. Len(t) \in Nat /\ i \in Nat /\ Len(t) \in (i - 1)..Len(t)
  BY DEF Texts
<1>3. IsPrefix(ThinkOpen, head)
  OBVIOUS
<1> HIDE DEF head
<1>4. /\ head \in Texts /\ Len(head) = Len(t) - i + 1
      /\ \A j \in 1..(Len(t) - i + 1) : head[j] = t[i + j - 1]
  BY <1>1, <1>2, SegProps
<1>5. Len(ThinkOpen) = 2 /\ ThinkOpen[1] = "<" /\ ThinkOpen[2] = "b" /\ ThinkOpen \in Seq({"<", "b"})
  BY DEF ThinkOpen
<1>6. Len(head) \in Nat /\ head \in Seq(Symbol)
  BY <1>4 DEF Texts
<1>7. 2 <= Len(head) /\ ThinkOpen = SubSeq(head, 1, 2)
  <2>1. Len(ThinkOpen) <= Len(head) /\ SubSeq(ThinkOpen, 1, Len(ThinkOpen)) = SubSeq(head, 1, Len(ThinkOpen))
    BY <1>3 DEF IsPrefix
  <2>2. SubSeq(ThinkOpen, 1, Len(ThinkOpen)) = ThinkOpen
    BY <1>5, SubSeqFull
  <2> QED
    BY <1>5, <2>1, <2>2
<1>8. 1 \in 1..(Len(head) + 1) /\ 2 \in (1 - 1)..Len(head) /\ 2 - 1 + 1 = 2
  BY <1>6, <1>7
<1>9. \A j \in 1..(2 - 1 + 1) : SubSeq(head, 1, 2)[j] = head[1 + j - 1]
  BY <1>4, <1>8, SegProps
<1>10. head[1] = "<" /\ head[2] = "b"
  BY <1>5, <1>7, <1>8, <1>9
<1>11. i \in 1..(Len(t) - 1) /\ t[i] = "<" /\ t[i + 1] = "b"
  <2>1. Len(t) - i + 1 >= 2 /\ 1 \in 1..(Len(t) - i + 1) /\ 2 \in 1..(Len(t) - i + 1)
        /\ i + 1 - 1 = i /\ i + 2 - 1 = i + 1
    BY <1>2, <1>4, <1>7
  <2>2. head[1] = t[i + 1 - 1] /\ head[2] = t[i + 2 - 1]
    BY <1>4, <2>1
  <2> QED
    BY <1>2, <1>10, <2>1, <2>2
<1> QED
  BY <1>1, <1>11 DEF At, head

LEMMA WatchedSpeaks ==
    ASSUME NEW l, NEW t \in Texts, NEW g, Stream(g, t), Speaks(l, g, t)
    PROVE  Speaks(l, Watched(g), t)
<1> DEFINE head == TrimLead(g.hold)
<1>1. DOMAIN g = Fields /\ g.await \in BOOLEAN
  BY DEF Stream, Shape
<1>2. CASE ~g.await
  <2>1. Watched(g) = g
    BY <1>2 DEF Watched
  <2> QED
    BY <2>1
<1>3. CASE g.await /\ ~IsPrefix(ThinkOpen, head)
  <2> DEFINE h == [g EXCEPT !.await = FALSE]
  <2>1. Watched(g) = h
    BY <1>3 DEF Watched
  <2>2. /\ h.hold = g.hold /\ h.phase = g.phase /\ h.opened = g.opened /\ h.r = g.r /\ h.c = g.c
        /\ h.pend_r = g.pend_r /\ h.pend_c = g.pend_c /\ h.await = FALSE
    BY <1>1 DEF Fields
  <2> HIDE DEF h
  <2>3. Speaks(l, h, t)
    BY <2>2 DEF Speaks
  <2> QED
    BY <2>1, <2>3
<1>4. CASE g.await /\ IsPrefix(ThinkOpen, head)
  <2> DEFINE hold == From(head, 3)
             h == [g EXCEPT !.await = FALSE, !.hold = hold, !.phase = "reason",
                            !.skip_r = TRUE, !.opened = TRUE]
  <2>1. Watched(g) = h
    BY <1>4 DEF Watched
  <2>2. l /\ g.hold = t /\ g.r = <<>> /\ g.c = <<>> /\ g.pend_r = <<>> /\ g.pend_c = <<>>
    BY <1>4 DEF Speaks, Stream
  <2>3. PICK i \in 1..(Len(t) - 1) :
           At(t, i, "b") /\ TrimLead(t) = SubSeq(t, i, Len(t)) /\ \A j \in 1..(i - 1) : t[j] = "n"
    BY <1>4, <2>2, LedOpen
  <2>4. Len(t) \in Nat /\ i \in Nat /\ i \in 1..(Len(t) + 1) /\ Len(t) \in (i - 1)..Len(t)
    BY DEF Texts
  <2>5. head = SubSeq(t, i, Len(t))
    BY <2>2, <2>3
  <2> HIDE DEF head
  <2>6. Len(head) = Len(t) - i + 1
    BY <2>4, <2>5, SegProps
  <2>9. Told(l, "reason", TRUE, <<>>, <<>>, t, i + 1)
    BY <2>2, <2>3, ToldOpening
  <2>10. i + 1 \in 0..Len(t) /\ IsRest(hold, t, i + 1)
    <3> DEFINE b == i - 1
               j == 3
    <3>1. b \in 0..Len(t) /\ b + 1 = i /\ b + j = (i + 1) + 1 /\ j \in 1..(Len(head) + 1)
          /\ i + 1 \in 0..Len(t)
      BY <2>4, <2>6
    <3> HIDE DEF b, j
    <3>2. IsRest(head, t, b)
      BY <2>5, <3>1 DEF IsRest
    <3>3. From(head, j) = SubSeq(t, b + j, Len(t))
      BY <3>1, <3>2, HoldCut
    <3> QED
      BY <3>1, <3>3 DEF IsRest, j
  <2> HIDE DEF hold
  <2>11. /\ h.hold = hold /\ h.phase = "reason" /\ h.opened = TRUE /\ h.r = g.r /\ h.c = g.c
         /\ h.pend_r = g.pend_r /\ h.pend_c = g.pend_c /\ h.await = FALSE
    BY <1>1 DEF Fields
  <2> HIDE DEF h
  <2>12. Speaks(l, h, t)
    <3>1. h.r \in Texts /\ h.c \in Texts
      BY <2>11 DEF Speaks
    <3>2. Said(h.r, h.pend_r, <<>>) = <<>> /\ Said(h.c, h.pend_c, <<>>) = <<>>
      BY <2>2, <2>11, SaidNothing
    <3>3. Told(l, h.phase, h.opened, Said(h.r, h.pend_r, <<>>), Said(h.c, h.pend_c, <<>>), t, i + 1)
      BY <2>9, <2>11, <3>2
    <3> QED
      BY <2>10, <2>11, <3>1, <3>3 DEF Speaks
  <2> QED
    BY <2>1, <2>12
<1> QED
  BY <1>1, <1>2, <1>3, <1>4

LEMMA SentSpeaks ==
    ASSUME NEW l, NEW t \in Texts, NEW x, Round(x, t), Tells(l, x, t)
    PROVE  Speaks(l, Sent(x), t) /\ Sent(x).phase = x.g.phase
<1> DEFINE g == x.g
           lr == Led(g.skip_r, x.ro)
           lc == Led(g.skip, x.co)
           r == Chunk(g.skip_r, g.pend_r, x.ro)
           c == Chunk(g.skip, g.pend_c, x.co)
           sr == g.r \o SubSeq(r, 1, Clip(r))
           sc == g.c \o SubSeq(c, 1, Clip(c))
           pr == Rest(r)
           pc == Rest(c)
           er == Ends(r, Clip(r))
           ec == Ends(c, Clip(c))
           kr == g.skip_r /\ lr = <<>>
           kc == g.skip /\ lc = <<>>
           cut == g.cut \/ er \/ ec
           h == [g EXCEPT !.skip_r = kr, !.skip = kc, !.r = sr, !.pend_r = pr, !.c = sc, !.pend_c = pc,
                          !.cut = cut]
<1>1. Sent(x) = h
  BY DEF Sent, Led, Chunk, Rest, Ends
<1>2. /\ DOMAIN g = Fields /\ g.pend_r \in Texts /\ g.pend_c \in Texts /\ x.ro \in Texts /\ x.co \in Texts
      /\ g.skip \in BOOLEAN /\ g.skip_r \in BOOLEAN /\ g.await = FALSE
  BY DEF Round, Shape
<1>3. g.r \in Texts /\ g.c \in Texts
  BY DEF Tells
<1>4. sr \in Texts /\ Said(sr, pr, <<>>) = Said(g.r, g.pend_r, x.ro)
  <2>1. Passes(g.skip_r, g.r, g.pend_r, x.ro)
    BY <1>2, <1>3, ChunkSaid
  <2> QED
    BY <2>1, Zenon DEF Passes
<1>5. sc \in Texts /\ Said(sc, pc, <<>>) = Said(g.c, g.pend_c, x.co)
  <2>1. Passes(g.skip, g.c, g.pend_c, x.co)
    BY <1>2, <1>3, ChunkSaid
  <2> QED
    BY <2>1, Zenon DEF Passes
<1> HIDE DEF sr, sc, pr, pc, kr, kc, cut
<1>6. /\ h.phase = g.phase /\ h.hold = g.hold /\ h.await = g.await /\ h.opened = g.opened
      /\ h.pend_r = pr /\ h.pend_c = pc /\ h.r = sr /\ h.c = sc
  BY <1>2 DEF Fields
<1> HIDE DEF h
<1>7. Speaks(l, h, t)
  BY <1>2, <1>4, <1>5, <1>6 DEF Speaks, Tells
<1> QED
  BY <1>1, <1>6, <1>7

LEMMA TwoIsPrefix ==
    ASSUME NEW s \in Texts, NEW a, NEW b, Len(s) >= 2, s[1] = a, s[2] = b
    PROVE  IsPrefix(<<a, b>>, s)
<1> DEFINE m == <<a, b>>
           x == SubSeq(s, 1, 2)
<1>0. Len(s) \in Nat /\ s \in Seq(Symbol)
  BY DEF Texts
<1>1. m \in Seq({a, b}) /\ Len(m) = 2
  OBVIOUS
<1>2. SubSeq(m, 1, Len(m)) = m
  <2> HIDE DEF m
  <2> QED
    BY <1>1, SubSeqFull
<1>3. 1 \in 1..(Len(s) + 1) /\ 2 \in (1 - 1)..Len(s) /\ 2 - 1 + 1 = 2
  BY <1>0
<1>4. x \in Texts /\ Len(x) = 2 - 1 + 1 /\ \A j \in 1..(2 - 1 + 1) : x[j] = s[1 + j - 1]
  BY <1>3, SegProps
<1> HIDE DEF x
<1>5. x \in Seq(Symbol) /\ Len(x) = 2 /\ x[1] = a /\ x[2] = b
  BY <1>3, <1>4 DEF Texts
<1>6. x = m
  BY <1>5
<1>7. SubSeq(m, 1, Len(m)) = SubSeq(s, 1, Len(m))
  <2> HIDE DEF m
  <2> QED
    BY <1>1, <1>2, <1>6 DEF x
<1> HIDE DEF m
<1>8. IsPrefix(m, s)
  BY <1>0, <1>1, <1>7 DEF IsPrefix
<1> QED
  BY <1>8 DEF m

LEMMA OpenLeads ==
    ASSUME NEW t \in Texts, NEW i, At(t, i, "b"), \A j \in 1..(i - 1) : t[j] = "n"
    PROVE  TrimLead(t) = SubSeq(t, i, Len(t)) /\ IsPrefix(ThinkOpen, TrimLead(t))
<1>1. i \in 1..(Len(t) - 1) /\ t[i] = "<" /\ t[i + 1] = "b" /\ Len(t) \in Nat
  BY DEF At, Texts
<1>2. PICK k \in 1..(Len(t) + 1) :
         /\ TrimLead(t) = SubSeq(t, k, Len(t)) /\ \A j \in 1..(k - 1) : t[j] = "n"
         /\ k <= Len(t) => t[k] # "n"
  BY TrimLeadSkips
<1>3. k = i
  <2>1. ~(k < i)
    <3> SUFFICES ASSUME k < i PROVE FALSE
      OBVIOUS
    <3>1. k \in 1..(i - 1) /\ k <= Len(t)
      BY <1>1
    <3> QED
      BY <1>2, <3>1
  <2>2. ~(i < k)
    <3> SUFFICES ASSUME i < k PROVE FALSE
      OBVIOUS
    <3>1. i \in 1..(k - 1)
      BY <1>1
    <3> QED
      BY <1>1, <1>2, <3>1
  <2> QED
    BY <1>1, <2>1, <2>2
<1> DEFINE s == SubSeq(t, i, Len(t))
<1>4. i \in 1..(Len(t) + 1) /\ Len(t) \in (i - 1)..Len(t) /\ 1 \in 1..(Len(t) - i + 1)
      /\ 2 \in 1..(Len(t) - i + 1) /\ i + 1 - 1 = i /\ i + 2 - 1 = i + 1 /\ Len(t) - i + 1 >= 2
  BY <1>1
<1>5. s \in Texts /\ Len(s) = Len(t) - i + 1 /\ \A j \in 1..(Len(t) - i + 1) : s[j] = t[i + j - 1]
  BY <1>4, SegProps
<1> HIDE DEF s
<1>6. s[1] = t[i + 1 - 1] /\ s[2] = t[i + 2 - 1]
  BY <1>4, <1>5
<1>7. s \in Texts /\ Len(s) >= 2 /\ s[1] = "<" /\ s[2] = "b"
  BY <1>1, <1>4, <1>5, <1>6
<1>8. IsPrefix(ThinkOpen, s)
  BY <1>7, TwoIsPrefix DEF ThinkOpen
<1> QED
  BY <1>2, <1>3, <1>8 DEF s

(* White space that is skipped says nothing. *)
LEMMA TrimmedFrom ==
    ASSUME NEW t \in Texts, NEW a \in 1..(Len(t) + 1)
    PROVE  \E q \in a..(Len(t) + 1) :
              TrimLead(From(t, a)) = From(t, q) /\ \A j \in a..(q - 1) : t[j] = "n"
<1> DEFINE v == From(t, a)
           N == Len(t)
<1>1. N \in Nat /\ a \in Nat /\ N \in (a - 1)..Len(t) /\ a \in 1..(N + 1)
  BY DEF Texts
<1>2. v = SubSeq(t, a, N)
  BY DEF From
<1> HIDE DEF v
<1>3. v \in Texts /\ Len(v) = N - a + 1 /\ \A j \in 1..(N - a + 1) : v[j] = t[a + j - 1]
  BY <1>1, <1>2, SegProps
<1>4. PICK i \in 1..(Len(v) + 1) : TrimLead(v) = SubSeq(v, i, Len(v)) /\ \A j \in 1..(i - 1) : v[j] = "n"
  BY <1>3, TrimLeadSkips
<1> DEFINE q == a + i - 1
<1> HIDE DEF N
<1>5. i \in Nat /\ i \in 1..(N - a + 2) /\ Len(v) \in (i - 1)..(N - a + 1) /\ a + Len(v) - 1 = N
      /\ q \in a..(N + 1)
  BY <1>1, <1>3, <1>4
<1>6. SubSeq(v, i, Len(v)) = SubSeq(t, a + i - 1, a + Len(v) - 1)
  BY <1>1, <1>2, <1>5, SegOfSeg DEF N
<1>7. TrimLead(v) = From(t, q)
  BY <1>4, <1>5, <1>6 DEF From, N
<1>8. ASSUME NEW j \in a..(q - 1) PROVE t[j] = "n"
  <2> DEFINE k == j - a + 1
  <2>1. k \in 1..(i - 1) /\ k \in 1..(N - a + 1) /\ a + k - 1 = j
    BY <1>1, <1>5
  <2> HIDE DEF k
  <2>2. v[k] = "n" /\ v[k] = t[a + k - 1]
    BY <1>3, <1>4, <2>1
  <2> QED
    BY <2>1, <2>2
<1> HIDE DEF q
<1> QED
  BY <1>5, <1>7, <1>8 DEF v, N

-----------------------------------------------------------------------------
(* What parse_tool_calls() leaves of a text. *)
OutAt(s, p) == PartsOf(s)[p].out

LEMMA OutStep ==
    ASSUME NEW s \in Texts, NEW p \in 1..(Len(s) + 1)
    PROVE  OutAt(s, p) = IF NoBlock(s, p) THEN From(s, p)
                         ELSE IF Parses(Block(s, p))
                         THEN SubSeq(s, p, OpenAt(s, p) - 1) \o OutAt(s, EndAt(s, p) + 2)
                         ELSE SubSeq(s, p, EndAt(s, p) + 1) \o OutAt(s, EndAt(s, p) + 2)
<1>1. PartsOf(s)[p] = PartStep(s, PartsOf(s), p)
  BY PartsStep
<1>2. CASE NoBlock(s, p)
  <2>1. PartStep(s, PartsOf(s), p).out = From(s, p)
    BY <1>2 DEF PartStep
  <2> QED
    BY <1>1, <1>2, <2>1 DEF OutAt
<1>3. CASE ~NoBlock(s, p)
  <2>1. PartStep(s, PartsOf(s), p).out =
          IF Parses(Block(s, p)) THEN SubSeq(s, p, OpenAt(s, p) - 1) \o OutAt(s, EndAt(s, p) + 2)
          ELSE SubSeq(s, p, EndAt(s, p) + 1) \o OutAt(s, EndAt(s, p) + 2)
    BY <1>3 DEF PartStep, Block, OutAt
  <2> QED
    BY <1>1, <1>3, <2>1 DEF OutAt
<1> QED
  BY <1>2, <1>3

Blocks(s) == {Block(s, p) : p \in 1..(Len(s) + 1)}

(* Without calls it is the whole text. *)
Kept(s, p) ==
    /\ OutAt(s, p) \in Texts /\ CallsAt(s, p) \in Seq(Blocks(s))
    /\ CallsAt(s, p) = <<>> => OutAt(s, p) = From(s, p)

LEMMA KeptStep ==
    ASSUME NEW s \in Texts, NEW p \in 1..(Len(s) + 1),
           ~NoBlock(s, p) => Kept(s, EndAt(s, p) + 2)
    PROVE  Kept(s, p)
<1> DEFINE a == OpenAt(s, p)
           b == EndAt(s, p)
           c == b + 2
           X == OutAt(s, c)
           Y == CallsAt(s, c)
<1>1. Len(s) \in Nat /\ p \in Nat /\ s \in Seq(Symbol)
  BY DEF Texts
<1>2. CASE NoBlock(s, p)
  <2>1. OutAt(s, p) = From(s, p) /\ CallsAt(s, p) = <<>>
    BY <1>2, OutStep, CallsStep
  <2>2. Len(s) \in (p - 1)..Len(s)
    BY <1>1
  <2>3. From(s, p) \in Texts
    BY <2>2, SegProps DEF From
  <2>4. <<>> \in Seq(Blocks(s))
    OBVIOUS
  <2> QED
    BY <2>1, <2>3, <2>4 DEF Kept
<1>3. CASE ~NoBlock(s, p)
  <2>1. a \in p..(Len(s) - 1) /\ b \in a..(Len(s) - 1) /\ c \in (p + 1)..(Len(s) + 1)
    BY <1>3, BlockIn
  <2>2. X \in Texts /\ Y \in Seq(Blocks(s)) /\ (Y = <<>> => X = From(s, c))
    BY <1>3 DEF Kept
  <2>3. /\ OutAt(s, p) = IF Parses(Block(s, p)) THEN SubSeq(s, p, a - 1) \o X
                         ELSE SubSeq(s, p, b + 1) \o X
        /\ CallsAt(s, p) = IF Parses(Block(s, p)) THEN <<Block(s, p)>> \o Y ELSE Y
    BY <1>3, OutStep, CallsStep
  <2> HIDE DEF a, b, X, Y
  <2>4. p \in 1..(Len(s) + 1) /\ a - 1 \in (p - 1)..Len(s) /\ b + 1 \in (p - 1)..Len(s)
    BY <1>1, <2>1
  <2>5. SubSeq(s, p, a - 1) \in Texts /\ SubSeq(s, p, b + 1) \in Texts
    BY <2>4, SegProps
  <2>6. Block(s, p) \in Blocks(s)
    BY DEF Blocks
  <2>7. CASE Parses(Block(s, p))
    <3> DEFINE k == Block(s, p)
               S == Blocks(s)
               u == SubSeq(s, p, a - 1)
    <3>1. k \in S /\ Y \in Seq(S) /\ u \in Seq(Symbol) /\ X \in Seq(Symbol)
      BY <2>2, <2>5, <2>6 DEF Texts
    <3>2. OutAt(s, p) = u \o X /\ CallsAt(s, p) = <<k>> \o Y
      BY <2>3, <2>7
    <3> HIDE DEF k, S, u
    <3>3. <<k>> \o Y \in Seq(S) /\ <<k>> \o Y # <<>>
      <4>1. <<k>> \in Seq(S) /\ <<k>> # <<>>
        BY <3>1
      <4> QED
        BY <3>1, <4>1, ConcatProperties, ConcatEqualIffEmpty
    <3>4. u \o X \in Seq(Symbol)
      BY <3>1, ConcatProperties
    <3> QED
      BY <3>2, <3>3, <3>4 DEF Kept, S, Texts
  <2>8. CASE ~Parses(Block(s, p))
    <3> DEFINE u == SubSeq(s, p, b + 1)
    <3>1. u \in Seq(Symbol) /\ X \in Seq(Symbol)
      BY <2>2, <2>5 DEF Texts
    <3>2. OutAt(s, p) = u \o X /\ CallsAt(s, p) = Y
      BY <2>3, <2>8
    <3>3. Y = <<>> => u \o X = From(s, p)
      <4> SUFFICES ASSUME Y = <<>> PROVE u \o X = From(s, p)
        OBVIOUS
      <4> DEFINE e == b + 1
      <4>1. c = e + 1 /\ e \in (p - 1)..Len(s) /\ Len(s) \in e..Len(s)
        BY <1>1, <2>1, <2>4
      <4>2. X = SubSeq(s, e + 1, Len(s))
        BY <2>2, <4>1 DEF From
      <4> HIDE DEF e
      <4>3. SubSeq(s, p, e) \o SubSeq(s, e + 1, Len(s)) = SubSeq(s, p, Len(s))
        BY <1>1, <4>1, ConcatAdjacentSubSeq
      <4> QED
        BY <4>2, <4>3 DEF From, e
    <3> HIDE DEF u
    <3>4. u \o X \in Seq(Symbol)
      BY <3>1, ConcatProperties
    <3> QED
      BY <2>2, <3>2, <3>3, <3>4 DEF Kept, Texts
  <2> QED
    BY <2>7, <2>8
<1> QED
  BY <1>2, <1>3

LEMMA KeptAll ==
    ASSUME NEW s \in Texts
    PROVE  \A p \in 1..(Len(s) + 1) : Kept(s, p)
<1> DEFINE N == Len(s) + 1
           T == {m \in 0..N : \A p \in 1..N : p > N - m => Kept(s, p)}
<1>1. N \in Nat /\ Len(s) \in Nat
  BY DEF Texts
<1>2. 0 \in T
  BY <1>1
<1>3. ASSUME NEW m \in 0..(N - 1), m \in T PROVE m + 1 \in T
  <2>1. \A p \in 1..N : p > N - m => Kept(s, p)
    BY <1>3
  <2>2. ASSUME NEW p \in 1..N, p > N - (m + 1) PROVE Kept(s, p)
    <3> DEFINE c == EndAt(s, p) + 2
    <3>1. ~NoBlock(s, p) => c \in (p + 1)..N
      BY BlockIn
    <3>2. ~NoBlock(s, p) => Kept(s, c)
      <4> HIDE DEF c
      <4>1. ~NoBlock(s, p) => c \in 1..N /\ c > N - m
        BY <1>1, <2>2, <3>1
      <4> QED
        BY <2>1, <4>1
    <3> QED
      BY <3>2, KeptStep
  <2>3. m + 1 \in 0..N
    BY <1>1
  <2> QED
    BY <2>2, <2>3
<1>4. \A i \in 0..N : i \in T
  <2> HIDE DEF T, N
  <2> QED
    BY <1>1, <1>2, <1>3, Climb
<1>5. N \in T
  BY <1>1, <1>4
<1>6. \A p \in 1..N : p > N - N => Kept(s, p)
  BY <1>5
<1> QED
  BY <1>1, <1>6

(* It begins with everything before the first <tool_call>. *)
Starts(x, y) == \E z \in Texts : y = x \o z

LEMMA StartsWith ==
    ASSUME NEW s \in Texts, NEW p \in 1..(Len(s) + 1), NEW e \in (p - 1)..Len(s), NEW c \in e..Len(s),
           NEW X \in Texts
    PROVE  Starts(SubSeq(s, p, e), SubSeq(s, p, c) \o X)
<1>1. Len(s) \in Nat /\ s \in Seq(Symbol) /\ X \in Seq(Symbol) /\ e + 1 \in 1..(Len(s) + 1)
      /\ c \in (e + 1 - 1)..Len(s)
  BY DEF Texts
<1> DEFINE u == SubSeq(s, p, e)
           v == SubSeq(s, e + 1, c)
<1>2. u \in Seq(Symbol) /\ v \in Seq(Symbol)
  BY <1>1, SegProps DEF Texts
<1>3. u \o v = SubSeq(s, p, c)
  BY <1>1, ConcatAdjacentSubSeq
<1> HIDE DEF u, v
<1>4. Assoc(u, v, X)
  BY <1>1, <1>2, Regroup, Zenon
<1>5. v \o X \in Texts
  BY <1>1, <1>2, ConcatProperties DEF Texts
<1>6. SubSeq(s, p, c) \o X = u \o (v \o X)
  BY <1>3, <1>4, Zenon DEF Assoc
<1>7. Starts(u, SubSeq(s, p, c) \o X)
  BY <1>5, <1>6, Zenon DEF Starts
<1> QED
  BY <1>7 DEF u

LEMMA OutStarts ==
    ASSUME NEW s \in Texts, NEW p \in 1..(Len(s) + 1), NEW e \in (p - 1)..Len(s), Free(s, "c", p, e)
    PROVE  Starts(SubSeq(s, p, e), OutAt(s, p))
<1> DEFINE a == OpenAt(s, p)
           b == EndAt(s, p)
           c == b + 2
           X == OutAt(s, c)
<1>1. Len(s) \in Nat /\ p \in Nat /\ s \in Seq(Symbol)
  BY DEF Texts
<1>2. CASE NoBlock(s, p)
  <2>1. OutAt(s, p) = SubSeq(s, p, Len(s))
    BY <1>2, OutStep DEF From
  <2>2. Len(s) \in e..Len(s) /\ e + 1 \in 1..(Len(s) + 1) /\ Len(s) \in (e + 1 - 1)..Len(s)
    BY <1>1
  <2>3. SubSeq(s, p, e) \o SubSeq(s, e + 1, Len(s)) = SubSeq(s, p, Len(s))
    BY <1>1, <2>2, ConcatAdjacentSubSeq
  <2>4. SubSeq(s, e + 1, Len(s)) \in Texts
    BY <2>2, SegProps
  <2> QED
    BY <2>1, <2>3, <2>4, Zenon DEF Starts
<1>3. CASE ~NoBlock(s, p)
  <2>1. a \in p..(Len(s) - 1) /\ b \in a..(Len(s) - 1) /\ c \in (p + 1)..(Len(s) + 1)
    BY <1>3, BlockIn
  <2>2. At(s, a, "c")
    <3>1. Later(s, ToolOpen, p) # {}
      BY <1>3 DEF NoBlock
    <3>2. a \in Later(s, ToolOpen, p)
      BY <3>1, MarkerLen, LaterIn DEF OpenAt
    <3> QED
      BY <3>2, MarkersAt DEF Later
  <2>3. X \in Texts
    <3>1. c \in 1..(Len(s) + 1)
      BY <1>1, <2>1
    <3> QED
      BY <3>1, KeptAll DEF Kept
  <2>4. OutAt(s, p) = IF Parses(Block(s, p)) THEN SubSeq(s, p, a - 1) \o X
                      ELSE SubSeq(s, p, b + 1) \o X
    BY <1>3, OutStep
  <2> HIDE DEF a, b, X
  <2>5. a > e
    <3> SUFFICES ASSUME a <= e PROVE FALSE
      BY <1>1, <2>1
    <3>1. a \in p..e
      BY <1>1, <2>1
    <3> QED
      BY <2>2, <3>1 DEF Free, At
  <2>6. a - 1 \in e..Len(s) /\ b + 1 \in e..Len(s)
    BY <1>1, <2>1, <2>5
  <2>7. Starts(SubSeq(s, p, e), SubSeq(s, p, a - 1) \o X)
    BY <2>3, <2>6, StartsWith
  <2>8. Starts(SubSeq(s, p, e), SubSeq(s, p, b + 1) \o X)
    BY <2>3, <2>6, StartsWith
  <2> QED
    BY <2>4, <2>7, <2>8
<1> QED
  BY <1>2, <1>3

LEMMA ParseOut ==
    ASSUME NEW s
    PROVE  parse_tool_calls(s).out = TrimEnd(SubSeq(s, 1, Scan(s) - 1) \o OutAt(s, Scan(s)))
BY DEF parse_tool_calls, OutAt, PartsOf, PartStep, NoBlock, OpenAt, EndAt, Later

LEMMA BareStarts ==
    ASSUME NEW x \in Texts, NEW y, Starts(x, y)
    PROVE  Starts(Bare(x), Bare(y)) /\ y \in Texts
<1>1. PICK z \in Texts : y = x \o z
  BY DEF Starts
<1>2. Bare(x \o z) = Bare(x) \o Bare(z) /\ Bare(z) \in Texts
  BY BareConcat, BareType
<1>3. x \o z \in Texts
  BY ConcatProperties DEF Texts
<1> QED
  BY <1>1, <1>2, <1>3, Zenon DEF Starts

LEMMA ParseStarts ==
    ASSUME NEW w \in Texts, NEW e \in 0..Len(w), Free(w, "c", 1, e)
    PROVE  Starts(Bare(SubSeq(w, 1, e)), Bare(parse_tool_calls(w).out))
<1> DEFINE p == Scan(w)
           X == OutAt(w, p)
           U == SubSeq(w, 1, p - 1) \o X
           x == SubSeq(w, 1, e)
<1>1. Len(w) \in Nat /\ w \in Seq(Symbol) /\ e \in Nat /\ 1 \in 1..(Len(w) + 1) /\ e \in (1 - 1)..Len(w)
  BY DEF Texts
<1>2. p \in 1..(Len(w) + 1)
  BY ScanIn
<1>3. X \in Texts
  BY <1>2, KeptAll DEF Kept
<1>4. parse_tool_calls(w).out = TrimEnd(U)
  BY ParseOut
<1>5. x \in Texts
  BY <1>1, SegProps
<1> HIDE DEF p
<1>6. Starts(x, U)
  <2>1. CASE e <= p - 1
    <3>1. p - 1 \in e..Len(w)
      BY <1>1, <1>2, <2>1
    <3> HIDE DEF X
    <3> QED
      BY <1>1, <1>3, <3>1, StartsWith
  <2>2. CASE ~(e <= p - 1)
    <3> DEFINE a == p - 1
    <3>1. p \in Nat /\ e \in (p - 1)..Len(w) /\ a \in (1 - 1)..Len(w) /\ e \in a..Len(w) /\ a + 1 = p
      BY <1>1, <1>2, <2>2
    <3>2. Free(w, "c", p, e)
      BY <1>1, <1>2 DEF Free
    <3>3. Starts(SubSeq(w, p, e), X)
      BY <1>2, <3>1, <3>2, OutStarts
    <3>4. PICK z \in Texts : X = SubSeq(w, p, e) \o z
      BY <3>3 DEF Starts
    <3> DEFINE u == SubSeq(w, 1, a)
               v == SubSeq(w, p, e)
    <3>5. u \in Seq(Symbol) /\ v \in Seq(Symbol) /\ z \in Seq(Symbol)
      BY <1>1, <1>2, <3>1, SegProps DEF Texts
    <3>6. u \o v = x
      <4> HIDE DEF a
      <4>1. SubSeq(w, 1, a) \o SubSeq(w, a + 1, e) = SubSeq(w, 1, e)
        BY <1>1, <3>1, ConcatAdjacentSubSeq
      <4> QED
        BY <3>1, <4>1
    <3>7. U = u \o (v \o z)
      BY <3>4
    <3> HIDE DEF u, v, U, x
    <3>8. Assoc(u, v, z)
      BY <3>5, Regroup, Zenon
    <3>9. U = x \o z
      BY <3>6, <3>7, <3>8, Zenon DEF Assoc
    <3> QED
      BY <3>9, Zenon DEF Starts
  <2> QED
    BY <2>1, <2>2
<1> HIDE DEF U, x
<1>7. Starts(Bare(x), Bare(U)) /\ U \in Texts
  BY <1>5, <1>6, BareStarts
<1>8. Bare(TrimEnd(U)) = Bare(U)
  BY <1>7, BareTrimEnd
<1> QED
  BY <1>4, <1>7, <1>8 DEF x

LEMMA ParseWhole ==
    ASSUME NEW w \in Texts, parse_tool_calls(w).calls = <<>>
    PROVE  Bare(parse_tool_calls(w).out) = Bare(w)
<1> DEFINE p == Scan(w)
           a == p - 1
<1>1. Len(w) \in Nat /\ w \in Seq(Symbol)
  BY DEF Texts
<1>2. p \in 1..(Len(w) + 1)
  BY ScanIn
<1>3. OutAt(w, p) = From(w, p)
  <2>1. CallsAt(w, p) = <<>>
    BY ParseIs DEF CallsAt
  <2> QED
    BY <1>2, <2>1, KeptAll DEF Kept
<1>4. parse_tool_calls(w).out = TrimEnd(SubSeq(w, 1, p - 1) \o OutAt(w, p))
  BY ParseOut
<1> HIDE DEF p
<1>5. 1 \in 1..(Len(w) + 1) /\ a \in (1 - 1)..Len(w) /\ Len(w) \in a..Len(w) /\ a + 1 = p
  BY <1>1, <1>2
<1> HIDE DEF a
<1>6. SubSeq(w, 1, a) \o SubSeq(w, a + 1, Len(w)) = SubSeq(w, 1, Len(w))
  BY <1>1, <1>5, ConcatAdjacentSubSeq
<1>7. SubSeq(w, 1, Len(w)) = w
  BY <1>1, SubSeqFull
<1>8. parse_tool_calls(w).out = TrimEnd(w)
  BY <1>3, <1>4, <1>5, <1>6, <1>7, Zenon DEF From, a
<1> QED
  BY <1>8, BareTrimEnd

-----------------------------------------------------------------------------
(* The message of the whole text, where the reply's content begins at a.   *)
Settled(l, opened, R, t, a) == Begun(l, opened, R, t, a) /\ (opened <=> Has(t, ThinkEnd))

RestsAt(t, a, w) == \E q \in a..(Len(t) + 1) : w = From(t, q) /\ \A j \in a..(q - 1) : t[j] = "n"

LEMMA RestFrom ==
    ASSUME NEW l, NEW opened, NEW R, NEW t \in Texts, NEW a \in 1..(Len(t) + 1),
           Settled(l, opened, R, t, a)
    PROVE  /\ opened => Find(t, ThinkEnd) = a - 2
           /\ RestsAt(t, a, split_reasoning(t).rest)
<1>0. Len(t) \in Nat /\ a \in Nat
  BY DEF Texts
<1> USE DEF Settled
<1>1. CASE ~opened
  <2>1. split_reasoning(t).rest = t
    BY <1>1 DEF split_reasoning
  <2>2. From(t, 1) = t
    BY SubSeqFull DEF From, Texts
  <2>3. a = 1 /\ 1 \in a..(Len(t) + 1) /\ \A j \in a..(1 - 1) : t[j] = "n"
    BY <1>0, <1>1 DEF Begun
  <2> QED
    BY <1>1, <2>1, <2>2, <2>3 DEF RestsAt
<1>2. CASE opened
  <2>1. At(t, a - 2, "t") /\ Free(t, "t", 1, a - 3)
    BY <1>2 DEF Begun
  <2> DEFINE k == Find(t, ThinkEnd)
  <2>2. k \in 1..(Len(t) - 1) /\ At(t, k, "t") /\ \A j \in 1..(k - 1) : ~At(t, j, "t")
    BY <1>2, FirstAt DEF ThinkEnd
  <2> HIDE DEF k
  <2>3. k = a - 2
    <3>1. ~(k < a - 2)
      <4> SUFFICES ASSUME k < a - 2 PROVE FALSE
        OBVIOUS
      <4>1. k \in 1..(a - 3)
        BY <1>0, <2>2
      <4> QED
        BY <2>1, <2>2, <4>1 DEF Free, At
    <3>2. ~(a - 2 < k)
      <4> SUFFICES ASSUME a - 2 < k PROVE FALSE
        OBVIOUS
      <4>1. a - 2 \in 1..(k - 1)
        BY <1>0, <2>1, <2>2 DEF At
      <4> QED
        BY <2>1, <2>2, <4>1
    <3> QED
      BY <1>0, <2>2, <3>1, <3>2
  <2>4. split_reasoning(t).rest = TrimLead(After(t, ThinkEnd, k))
    BY <1>2 DEF split_reasoning, k
  <2>5. After(t, ThinkEnd, k) = From(t, a)
    <3>1. k + 2 = a
      BY <1>0, <2>2, <2>3
    <3> QED
      BY <3>1, MarkerLen DEF After
  <2> QED
    BY <2>3, <2>4, <2>5, TrimmedFrom DEF k, RestsAt
<1> QED
  BY <1>1, <1>2

LEMMA MessageParts ==
    ASSUME NEW t
    PROVE  LET w == split_reasoning(t).rest
           IN  /\ Message(t).content = parse_tool_calls(w).out
               /\ Message(t).tool_calls = parse_tool_calls(w).calls
               /\ Message(t).reasoning_content = split_reasoning(t).think
BY DEF Message

(* White space from a to q apart, the text from a on is that from q on.    *)
LEMMA BareFrom ==
    ASSUME NEW t \in Texts, NEW a \in 1..(Len(t) + 1), NEW q \in a..(Len(t) + 1),
           \A j \in a..(q - 1) : t[j] = "n", NEW e \in (q - 1)..Len(t)
    PROVE  Bare(SubSeq(t, a, e)) = Bare(SubSeq(t, q, e))
<1> DEFINE b == q - 1
<1>1. Len(t) \in Nat /\ a \in Nat /\ q \in Nat /\ b \in (a - 1)..Len(t) /\ e \in b..Len(t) /\ b + 1 = q
      /\ q \in 1..(Len(t) + 1)
  BY DEF Texts
<1>2. \A j \in a..b : t[j] = "n"
  OBVIOUS
<1> HIDE DEF b
<1>3. Bare(SubSeq(t, a, b)) \o Bare(SubSeq(t, b + 1, e)) = Bare(SubSeq(t, a, e))
  BY <1>1, BareSeg
<1>4. Bare(SubSeq(t, a, b)) = <<>>
  BY <1>1, <1>2, BareSkip
<1> DEFINE x == Bare(SubSeq(t, q, e))
<1>5. x \in Seq(Symbol)
  BY <1>1, SegProps, BareType DEF Texts
<1> HIDE DEF x
<1>6. <<>> \o x = x
  BY <1>5, ConcatEmptySeq
<1> QED
  BY <1>1, <1>3, <1>4, <1>6 DEF x

LEMMA ContentStarts ==
    ASSUME NEW l, NEW opened, NEW R, NEW t \in Texts, NEW a \in 1..(Len(t) + 1),
           Settled(l, opened, R, t, a),
           NEW e \in (a - 1)..Len(t), Free(t, "c", a, e)
    PROVE  Starts(Bare(SubSeq(t, a, e)), Bare(Message(t).content))
<1> DEFINE w == split_reasoning(t).rest
           N == Len(t)
<1>1. N \in Nat /\ a \in Nat /\ e \in Int
  BY DEF Texts
<1>2. PICK q \in a..(N + 1) : w = From(t, q) /\ \A j \in a..(q - 1) : t[j] = "n"
  <2>1. RestsAt(t, a, w)
    BY RestFrom, Zenon
  <2> QED
    BY <2>1 DEF RestsAt
<1>3. q \in Nat /\ q \in 1..(N + 1) /\ N \in (q - 1)..N
  BY <1>1
<1>4. Message(t).content = parse_tool_calls(w).out
  BY MessageParts
<1> HIDE DEF w
<1>5. w = SubSeq(t, q, N)
  BY <1>2 DEF From
<1>6. w \in Texts /\ Len(w) = N - q + 1 /\ \A j \in 1..(N - q + 1) : w[j] = t[q + j - 1]
  BY <1>3, <1>5, SegProps
<1>7. CASE e < q
  <2>1. \A j \in a..e : t[j] = "n"
    BY <1>1, <1>2, <1>3, <1>7
  <2>2. Bare(SubSeq(t, a, e)) = <<>>
    BY <1>1, <2>1, BareSkip
  <2>3. 0 \in 0..Len(w) /\ Free(w, "c", 1, 0)
    BY <1>3, <1>6 DEF Free
  <2>4. Starts(Bare(SubSeq(w, 1, 0)), Bare(parse_tool_calls(w).out))
    BY <1>6, <2>3, ParseStarts
  <2>5. SubSeq(w, 1, 0) = <<>>
    BY SubSeqEmpty
  <2> QED
    BY <1>4, <2>2, <2>4, <2>5, BareEmpty
<1>8. CASE ~(e < q)
  <2> DEFINE d == e - q + 1
  <2>1. d \in 1..Len(w) /\ d \in 0..Len(w) /\ e \in (q - 1)..N /\ q + d - 1 = e
    BY <1>1, <1>3, <1>6, <1>8
  <2> HIDE DEF d
  <2>2. Free(w, "c", 1, d)
    <3> SUFFICES ASSUME NEW i \in 1..d, w[i] = "<" PROVE i < Len(w) /\ w[i + 1] # "c"
      BY DEF Free
    <3> DEFINE j == q + i - 1
    <3>1. i \in 1..(N - q + 1) /\ j \in a..e /\ i \in Nat
      BY <1>1, <1>3, <1>6, <2>1
    <3>2. t[j] = "<"
      BY <1>6, <3>1
    <3>3. j < N /\ t[j + 1] # "c"
      BY <3>1, <3>2 DEF Free
    <3>4. i < Len(w) /\ i + 1 \in 1..(N - q + 1) /\ q + (i + 1) - 1 = j + 1
      BY <1>3, <1>6, <3>1, <3>3
    <3>5. w[i + 1] = t[q + (i + 1) - 1]
      BY <1>6, <3>4
    <3> QED
      BY <3>3, <3>4, <3>5
  <2>3. Starts(Bare(SubSeq(w, 1, d)), Bare(parse_tool_calls(w).out))
    BY <1>6, <2>1, <2>2, ParseStarts
  <2>4. SubSeq(w, 1, d) = SubSeq(t, q, e)
    <3>1. 1 \in 1..(N - q + 2) /\ d \in (1 - 1)..(N - q + 1) /\ q + 1 - 1 = q
      BY <1>1, <1>3, <1>6, <2>1
    <3>2. SubSeq(SubSeq(t, q, N), 1, d) = SubSeq(t, q + 1 - 1, q + d - 1)
      BY <1>3, <3>1, SegOfSeg
    <3> QED
      BY <1>5, <2>1, <3>1, <3>2
  <2>5. Bare(SubSeq(t, a, e)) = Bare(SubSeq(t, q, e))
    BY <1>2, <2>1, BareFrom
  <2> QED
    BY <1>4, <2>3, <2>4, <2>5
<1> QED
  BY <1>7, <1>8

LEMMA ContentWhole ==
    ASSUME NEW l, NEW opened, NEW R, NEW t \in Texts, NEW a \in 1..(Len(t) + 1),
           Settled(l, opened, R, t, a), Message(t).tool_calls = <<>>
    PROVE  Bare(Message(t).content) = Bare(SubSeq(t, a, Len(t)))
<1> DEFINE w == split_reasoning(t).rest
           N == Len(t)
<1>1. N \in Nat /\ a \in Nat
  BY DEF Texts
<1>2. PICK q \in a..(N + 1) : w = From(t, q) /\ \A j \in a..(q - 1) : t[j] = "n"
  <2>1. RestsAt(t, a, w)
    BY RestFrom, Zenon
  <2> QED
    BY <2>1 DEF RestsAt
<1>3. q \in 1..(N + 1) /\ N \in (q - 1)..N
  BY <1>1
<1>4. Message(t).content = parse_tool_calls(w).out /\ parse_tool_calls(w).calls = <<>>
  BY MessageParts
<1> HIDE DEF w
<1>5. w = SubSeq(t, q, N)
  BY <1>2 DEF From
<1>6. w \in Texts
  BY <1>3, <1>5, SegProps
<1>7. Bare(parse_tool_calls(w).out) = Bare(w)
  BY <1>4, <1>6, ParseWhole
<1>8. Bare(SubSeq(t, a, N)) = Bare(SubSeq(t, q, N))
  BY <1>2, <1>3, BareFrom
<1> QED
  BY <1>4, <1>5, <1>7, <1>8

LEMMA ThinkIs ==
    ASSUME NEW t, Has(t, ThinkEnd), NEW p, p = Find(t, ThinkEnd)
    PROVE  LET led == TrimLead(SubSeq(t, 1, p - 1))
               bare == IF IsPrefix(ThinkOpen, led) THEN From(led, 3) ELSE led
           IN  split_reasoning(t).think = TrimEnd(TrimLead(bare))
BY DEF split_reasoning

LEMMA FrontAt ==
    ASSUME NEW t \in Texts, NEW b \in 0..Len(t), NEW i \in Int, NEW y
    PROVE  LET s == SubSeq(t, 1, b)
           IN  /\ s \in Texts /\ Len(s) = b /\ \A j \in 1..b : s[j] = t[j]
               /\ At(s, i, y) <=> i < b /\ At(t, i, y)
<1> DEFINE s == SubSeq(t, 1, b)
<1>1. Len(t) \in Nat /\ b \in Nat /\ 1 \in 1..(Len(t) + 1) /\ b \in (1 - 1)..Len(t) /\ b - 1 + 1 = b
  BY DEF Texts
<1>2. s \in Texts /\ Len(s) = b - 1 + 1 /\ \A j \in 1..(b - 1 + 1) : s[j] = t[1 + j - 1]
  BY <1>1, SegProps
<1> HIDE DEF s
<1>3. Len(s) = b /\ \A j \in 1..b : s[j] = t[j]
  BY <1>1, <1>2
<1>4. At(s, i, y) <=> i < b /\ At(t, i, y)
  <2>1. i \in 1..(Len(s) - 1) <=> i < b /\ i \in 1..(Len(t) - 1)
    BY <1>1, <1>3
  <2>2. i \in 1..(Len(s) - 1) => i \in 1..b /\ i + 1 \in 1..b
    BY <1>1, <1>3
  <2> QED
    BY <1>3, <2>1, <2>2 DEF At
<1> QED
  BY <1>2, <1>3, <1>4 DEF s

(* The reasoning of the whole message is what the stream has told. *)
LEMMA ReasoningIs ==
    ASSUME NEW l, NEW opened, NEW R, NEW t \in Texts, NEW a \in 1..(Len(t) + 1),
           Settled(l, opened, R, t, a), l \/ ~IsPrefix(ThinkOpen, TrimLead(t))
    PROVE  Bare(Message(t).reasoning_content) = R
<1>1. Message(t).reasoning_content = split_reasoning(t).think
  BY MessageParts
<1>2. CASE ~opened
  <2>1. split_reasoning(t).think = <<>>
    BY <1>2 DEF split_reasoning, Settled
  <2>2. R = <<>>
    BY <1>2 DEF Settled, Begun
  <2> QED
    BY <1>1, <2>1, <2>2, BareEmpty
<1>3. CASE opened
  <2>1. Find(t, ThinkEnd) = a - 2 /\ Has(t, ThinkEnd)
    <3>1. opened => Find(t, ThinkEnd) = a - 2
      BY RestFrom, Zenon
    <3> QED
      BY <1>3, <3>1 DEF Settled
  <2>2. At(t, a - 2, "t") /\ \E o \in 1..(a - 2) : Enters(l, t, o) /\ R = Bare(SubSeq(t, o, a - 3))
    BY <1>3 DEF Settled, Begun
  <2>3. PICK o \in 1..(a - 2) : Enters(l, t, o) /\ R = Bare(SubSeq(t, o, a - 3))
    BY <2>2
  <2> DEFINE b == a - 3
             s == SubSeq(t, 1, b)
             led == TrimLead(s)
             bare == IF IsPrefix(ThinkOpen, led) THEN From(led, 3) ELSE led
  <2>4. a - 2 \in 1..(Len(t) - 1) /\ Len(t) \in Nat
    BY <2>2 DEF At, Texts
  <2>5. b \in 0..Len(t) /\ a \in Int /\ a - 2 - 1 = b /\ o \in 1..(b + 1) /\ o \in Nat /\ b \in Nat
    BY <2>4
  <2>6. split_reasoning(t).think = TrimEnd(TrimLead(bare))
    <3>1. LET p == a - 2 IN split_reasoning(t).think =
             TrimEnd(TrimLead(IF IsPrefix(ThinkOpen, TrimLead(SubSeq(t, 1, p - 1)))
                              THEN From(TrimLead(SubSeq(t, 1, p - 1)), 3) ELSE TrimLead(SubSeq(t, 1, p - 1))))
      BY <2>1, ThinkIs
    <3> QED
      BY <2>5, <3>1
  <2> HIDE DEF b
  <2>7. s \in Texts /\ Len(s) = b /\ \A j \in 1..b : s[j] = t[j]
    BY <2>5, FrontAt
  <2>8. \A i \in Int : At(s, i, "b") <=> i < b /\ At(t, i, "b")
    BY <2>5, FrontAt
  <2>9. bare \in Texts /\ Bare(bare) = Bare(SubSeq(t, o, b))
    <3>1. CASE l
      <4> DEFINE i == o - 2
      <4>1. At(t, i, "b") /\ \A j \in 1..(o - 3) : t[j] = "n"
        BY <2>3, <3>1 DEF Enters
      <4>2. i \in 1..(Len(t) - 1) /\ i \in Int /\ o - 3 = i - 1
        BY <4>1, <2>5 DEF At
      <4>3. i < b
        <5>1. o <= b + 1 /\ i = o - 2
          BY <2>5
        <5>2. ~(b = 0)
          BY <2>5, <4>2, <5>1
        <5> QED
          BY <2>5, <4>2, <5>1
      <4> HIDE DEF i
      <4>4. At(s, i, "b") /\ \A j \in 1..(i - 1) : s[j] = "n"
        <5>1. \A j \in 1..(i - 1) : j \in 1..b /\ j \in 1..(o - 3)
          BY <2>5, <4>2, <4>3
        <5> QED
          BY <2>7, <2>8, <4>1, <4>2, <4>3, <5>1
      <4> HIDE DEF s
      <4>5. led = SubSeq(s, i, b) /\ IsPrefix(ThinkOpen, led)
        BY <2>7, <4>4, OpenLeads
      <4>6. i \in 1..(b - 1 + 2) /\ b \in (i - 1)..(b - 1 + 1) /\ 1 + i - 1 = i /\ 1 + b - 1 = b
            /\ 1 \in 1..(Len(t) + 1) /\ b \in (1 - 1)..Len(t)
        BY <2>4, <2>5, <4>2, <4>3
      <4>7. SubSeq(SubSeq(t, 1, b), i, b) = SubSeq(t, 1 + i - 1, 1 + b - 1)
        BY <4>6, SegOfSeg
      <4>8. led = SubSeq(t, i, b)
        BY <4>5, <4>6, <4>7 DEF s
      <4> HIDE DEF led
      <4>9. i \in 1..(Len(t) + 1) /\ b \in (i - 1)..Len(t)
        BY <2>4, <2>5, <4>2, <4>3
      <4>10. Len(led) = b - i + 1
        BY <4>8, <4>9, SegProps
      <4> DEFINE k == 3
                 e == b - i + 1
      <4>11. k \in 1..(b - i + 2) /\ e \in (k - 1)..(b - i + 1) /\ i + k - 1 = o /\ i + e - 1 = b
        <5>1. o = i + 2
          BY <2>5 DEF i
        <5> QED
          BY <2>5, <4>2, <4>3, <5>1
      <4> HIDE DEF k, e
      <4>12. SubSeq(SubSeq(t, i, b), k, e) = SubSeq(t, i + k - 1, i + e - 1)
        BY <4>9, <4>11, SegOfSeg
      <4>13. From(led, 3) = SubSeq(t, o, b)
        BY <4>8, <4>10, <4>11, <4>12 DEF From, k, e
      <4>14. bare = SubSeq(t, o, b)
        BY <4>5, <4>13
      <4>15. o \in 1..(Len(t) + 1) /\ b \in (o - 1)..Len(t)
        BY <2>4, <2>5
      <4>16. SubSeq(t, o, b) \in Texts
        BY <4>15, SegProps
      <4> HIDE DEF bare
      <4> QED
        BY <4>14, <4>16
    <3>2. CASE ~l
      <4>1. o = 1
        BY <2>3, <3>2 DEF Enters
      <4>2. ~IsPrefix(ThinkOpen, led)
        <5> SUFFICES ASSUME IsPrefix(ThinkOpen, led) PROVE FALSE
          OBVIOUS
        <5> HIDE DEF s
        <5>1. PICK i \in 1..(b - 1) : At(s, i, "b") /\ \A j \in 1..(i - 1) : s[j] = "n"
          BY <2>7, LedOpen
        <5>2. i \in Int /\ \A j \in 1..(i - 1) : j \in 1..b
          BY <2>5
        <5>3. At(t, i, "b") /\ \A j \in 1..(i - 1) : t[j] = "n"
          BY <2>7, <2>8, <5>1, <5>2
        <5>4. IsPrefix(ThinkOpen, TrimLead(t))
          BY <5>3, OpenLeads
        <5> QED
          BY <3>2, <5>4
      <4>3. bare = led
        BY <4>2
      <4> HIDE DEF bare
      <4>4. Bare(led) = Bare(s) /\ led \in Texts
        BY <2>7, BareTrimLead
      <4> QED
        BY <4>1, <4>3, <4>4
    <3> QED
      BY <3>1, <3>2
  <2> HIDE DEF bare
  <2>10. Bare(TrimLead(bare)) = Bare(bare) /\ TrimLead(bare) \in Texts
    BY <2>9, BareTrimLead
  <2>11. Bare(TrimEnd(TrimLead(bare))) = Bare(TrimLead(bare))
    BY <2>10, BareTrimEnd
  <2> QED
    BY <1>1, <2>3, <2>6, <2>9, <2>10, <2>11 DEF b
<1> QED
  BY <1>2, <1>3

(* A piece goes through emit_piece(). *)
LEMMA EmitSpeaks ==
    ASSUME NEW l, text \in Texts, NEW piece \in Texts, Stream(f, text), Speaks(l, f, text)
    PROVE  LET h == emit_piece(piece)
               t == text \o piece
           IN  Speaks(l, h, t) /\ (h.phase = "reason" => ~Has(t, ThinkEnd))
<1> DEFINE t == text \o piece
           held == Holding(f, piece)
           seen == Watched(held)
           x == [g |-> seen, ro |-> <<>>, co |-> <<>>]
<1>1. t \in Texts
  BY ConcatProperties DEF Texts
<1>2. Stream(held, t) /\ Speaks(l, held, t)
  BY HeldKeeps, HeldSpeaks
<1>3. CASE held.await /\ Undecided(held.hold)
  <2>1. emit_piece(piece) = held
    BY <1>3 DEF emit_piece, Holding
  <2>2. held.phase = "content"
    BY <1>2, <1>3 DEF Stream
  <2> QED
    BY <1>2, <2>1, <2>2
<1>4. CASE ~(held.await /\ Undecided(held.hold))
  <2>1. emit_piece(piece) = Sent(Route(Route(x)))
    BY <1>4 DEF emit_piece, Holding
  <2> HIDE DEF held, t
  <2>2. Stream(seen, t) /\ seen.await = FALSE /\ Speaks(l, seen, t)
    BY <1>1, <1>2, WatchedKeeps, WatchedSpeaks
  <2> HIDE DEF seen
  <2>3. x.g = seen /\ x.ro = <<>> /\ x.co = <<>> /\ DOMAIN x = {"g", "ro", "co"}
    OBVIOUS
  <2> HIDE DEF x
  <2>4. Shape(seen) /\ seen.pend_r \in Seq(Symbol) /\ seen.pend_c \in Seq(Symbol)
    BY <2>2 DEF Stream, Shape, Texts
  <2>5. seen.pend_r \o x.ro = seen.pend_r /\ seen.pend_c \o x.co = seen.pend_c
    BY <2>3, <2>4, ConcatEmptySeq
  <2>6. <<>> \in Texts
    BY DEF Texts
  <2>7. Round(x, t)
    BY <2>2, <2>3, <2>4, <2>5, <2>6 DEF Round, Stream
  <2>8. Tells(l, x, t)
    BY <2>2, <2>3 DEF Tells, Speaks
  <2> DEFINE y == Route(x)
             z == Route(y)
             h == Sent(z)
  <2>9. Round(y, t) /\ Tells(l, y, t)
    BY <1>1, <2>7, <2>8, RouteKeeps, RouteTells
  <2> HIDE DEF y
  <2>10. Round(z, t) /\ Tells(l, z, t) /\ (z.g.phase = "reason" => ~Has(t, ThinkEnd))
    BY <1>1, <2>9, RouteKeeps, RouteTells
  <2> HIDE DEF z
  <2>11. Speaks(l, h, t) /\ h.phase = z.g.phase
    BY <1>1, <2>10, SentSpeaks
  <2> HIDE DEF h
  <2>12. Speaks(l, h, t) /\ (h.phase = "reason" => ~Has(t, ThinkEnd))
    BY <2>10, <2>11
  <2> QED
    BY <2>1, <2>12 DEF h, y, z, t
<1> QED
  BY <1>3, <1>4

LEMMA StartsIsPrefix ==
    ASSUME NEW x \in Texts, NEW y, Starts(x, y)
    PROVE  IsPrefix(x, y)
<1>1. PICK z \in Texts : y = x \o z
  BY DEF Starts
<1>2. /\ y \in Texts /\ Len(y) = Len(x) + Len(z) /\ Len(x) \in Nat /\ Len(z) \in Nat
      /\ \A i \in 1..Len(x) : y[i] = x[i]
  BY <1>1, Grown
<1>3. 1 \in 1..(Len(x) + 1) /\ Len(x) \in (1 - 1)..Len(x)
  BY <1>2
<1>4. SubSeq(x \o z, 1, Len(x)) = SubSeq(x, 1, Len(x))
  BY <1>3, SegGrow
<1>5. Len(x) <= Len(y) /\ SubSeq(x, 1, Len(x)) = SubSeq(y, 1, Len(x))
  BY <1>1, <1>2, <1>4
<1> QED
  BY <1>5 DEF IsPrefix

LEMMA ToolAtEnd ==
    ASSUME NEW t \in Texts, At(t, Len(t) - 1, "c")
    PROVE  IsSuffix(ToolOpen, t)
<1> DEFINE N == Len(t)
           u == Reverse(t)
           m == Reverse(ToolOpen)
<1>1. N \in Nat /\ N >= 2 /\ t[N - 1] = "<" /\ t[N] = "c"
  <2>1. Len(t) \in Nat /\ Len(t) - 1 \in 1..(Len(t) - 1) /\ t[Len(t) - 1] = "<" /\ t[Len(t) - 1 + 1] = "c"
    BY DEF At, Texts
  <2>2. Len(t) - 1 + 1 = Len(t)
    BY <2>1
  <2> QED
    BY <2>1, <2>2
<1>2. t \in Seq(Symbol) /\ \A i \in 1..N : t[i] \in Symbol
  BY DEF Texts
<1>3. u = [i \in 1..N |-> t[(N - i) + 1]]
  BY DEF Reverse
<1>4. \A i \in 1..N : (N - i) + 1 \in 1..N
  BY <1>1
<1>5. u \in [1..N -> Symbol]
  BY <1>2, <1>3, <1>4
<1>6. u \in Texts /\ Len(u) = N
  <2> HIDE DEF u, N
  <2>1. u \in Seq(Symbol) /\ DOMAIN u = 1..N
    BY <1>1, <1>5
  <2> QED
    BY <1>1, <2>1 DEF Texts
<1>7. u[1] = "c" /\ u[2] = "<"
  <2>1. 1 \in 1..N /\ 2 \in 1..N /\ (N - 1) + 1 = N /\ (N - 2) + 1 = N - 1
    BY <1>1
  <2> QED
    BY <1>1, <1>3, <2>1
<1> HIDE DEF u
<1>8. IsPrefix(<<"c", "<">>, u)
  BY <1>1, <1>6, <1>7, TwoIsPrefix
<1>9. m = <<"c", "<">>
  <2>1. Len(ToolOpen) = 2 /\ ToolOpen[1] = "<" /\ ToolOpen[2] = "c"
    BY DEF ToolOpen
  <2>2. m = [i \in 1..2 |-> ToolOpen[(2 - i) + 1]]
    BY <2>1 DEF Reverse
  <2>3. m[1] = "c" /\ m[2] = "<" /\ DOMAIN m = 1..2
    BY <2>1, <2>2
  <2> DEFINE v == <<"c", "<">>
  <2>4. v[1] = "c" /\ v[2] = "<" /\ v = [i \in 1..2 |-> v[i]]
    OBVIOUS
  <2>5. \A i \in 1..2 : i = 1 \/ i = 2
    OBVIOUS
  <2>6. \A i \in 1..2 : ToolOpen[(2 - i) + 1] = v[i]
    BY <2>1, <2>4, <2>5
  <2> QED
    BY <2>2, <2>4, <2>6
<1> QED
  BY <1>8, <1>9 DEF IsSuffix, u

-----------------------------------------------------------------------------
(* Where a stream stands at the end of the text t, when it has taken the   *)
(* reasoning for what it is: the content begins at a and has been told up  *)
(* to e, and the held text begins after d; a <tool_call> is in between.    *)
Mid(g) == IF g.phase = "tool" THEN ToolOpen ELSE <<>>

Stops(l, g, t, a, e, d) ==
    /\ Settled(l, g.opened, Said(g.r, g.pend_r, <<>>), t, a)
    /\ g.phase \in {"content", "tool"}
    /\ IsRest(g.hold, t, d) /\ e \in (a - 1)..d
    /\ Said(g.c, g.pend_c, <<>>) = Bare(SubSeq(t, a, e)) /\ Free(t, "c", a, e)
    /\ Mid(g) = SubSeq(t, e + 1, d)
    /\ g.phase = "tool" => At(t, d - 1, "c")

LEMMA StopsSomewhere ==
    ASSUME NEW l, NEW t \in Texts, NEW g, Stream(g, t), Speaks(l, g, t),
           g.phase = "reason" => ~Has(t, ThinkEnd), g.opened = Has(t, ThinkEnd)
    PROVE  \E d \in 0..Len(t), a \in 1..(Len(t) + 1), e \in 0..Len(t) : Stops(l, g, t, a, e, d)
<1> DEFINE R == Said(g.r, g.pend_r, <<>>)
           C == Said(g.c, g.pend_c, <<>>)
<1>1. PICK d \in 0..Len(t) : IsRest(g.hold, t, d) /\ Told(l, g.phase, g.opened, R, C, t, d)
  BY DEF Speaks
<1> HIDE DEF R, C
<1>2. Len(t) \in Nat /\ d \in Nat /\ d <= Len(t)
  BY DEF Texts
<1>3. g.phase \in {"content", "tool"}
  <2>1. g.phase \in {"reason", "content", "tool"}
    BY DEF Stream, Shape
  <2>2. g.phase # "reason"
    <3> SUFFICES ASSUME g.phase = "reason" PROVE FALSE
      OBVIOUS
    <3>1. Reasons(l, g.opened, R, C, t, d)
      BY <1>1 DEF Told
    <3>2. g.opened
      BY <3>1 DEF Reasons
    <3> QED
      BY <3>2
  <2> QED
    BY <2>1, <2>2
<1>4. g.opened <=> Has(t, ThinkEnd)
  OBVIOUS
<1>5. CASE g.phase = "content"
  <2>1. Answers(l, g.opened, R, C, t, d)
    BY <1>1, <1>5 DEF Told
  <2>2. PICK a \in 1..(d + 1) :
          Begun(l, g.opened, R, t, a) /\ C = Bare(SubSeq(t, a, d)) /\ Free(t, "c", a, d)
    BY <2>1 DEF Answers
  <2>3. a \in 1..(Len(t) + 1) /\ d \in (a - 1)..d /\ d < d + 1
    BY <1>2
  <2>4. Settled(l, g.opened, R, t, a)
    BY <1>4, <2>2 DEF Settled
  <2>5. Mid(g) = SubSeq(t, d + 1, d)
    BY <1>2, <1>5, <2>3, SubSeqEmpty DEF Mid
  <2>6. Stops(l, g, t, a, d, d)
    BY <1>1, <1>3, <1>5, <2>2, <2>3, <2>4, <2>5 DEF Stops, R, C
  <2> QED
    BY <2>3, <2>6
<1>6. CASE g.phase = "tool"
  <2>1. CallsTool(l, g.opened, R, C, t, d)
    BY <1>1, <1>6 DEF Told
  <2>2. PICK a \in 1..(d - 1) :
          Begun(l, g.opened, R, t, a) /\ C = Bare(SubSeq(t, a, d - 2)) /\ Free(t, "c", a, d - 2)
    BY <2>1 DEF CallsTool
  <2> DEFINE e == d - 2
  <2>3. a \in 1..(Len(t) + 1) /\ e \in (a - 1)..d /\ e \in 0..Len(t) /\ e + 1 = d - 1 /\ d - 1 + 2 - 1 = d
    BY <1>2
  <2>4. Settled(l, g.opened, R, t, a)
    BY <1>4, <2>2 DEF Settled
  <2>5. At(t, d - 1, "c")
    BY <2>1 DEF CallsTool
  <2>6. ToolOpen = SubSeq(t, d - 1, d)
    <3>1. d - 1 \in Places(t, ToolOpen)
      BY <2>5, MarkersAt
    <3> QED
      BY <2>3, <3>1, MarkerLen DEF Places
  <2>7. Mid(g) = SubSeq(t, e + 1, d)
    BY <1>6, <2>3, <2>6 DEF Mid
  <2>8. C = Bare(SubSeq(t, a, e)) /\ Free(t, "c", a, e)
    BY <2>2
  <2> HIDE DEF e
  <2>9. Stops(l, g, t, a, e, d)
    BY <1>1, <1>3, <2>3, <2>4, <2>5, <2>7, <2>8 DEF Stops, R, C
  <2> QED
    BY <2>3, <2>9
<1> QED
  BY <1>3, <1>5, <1>6

LEMMA SaidTwo ==
    ASSUME NEW s \in Texts, NEW p \in Texts
    PROVE  Said(s, p, <<>>) = Bare(s) \o Bare(p) /\ Bare(s \o p) = Bare(s) \o Bare(p)
<1> DEFINE b == Bare(s) \o Bare(p)
<1>1. <<>> \in Texts /\ Bare(s) \in Seq(Symbol) /\ Bare(p) \in Seq(Symbol)
  BY BareType DEF Texts
<1>2. Said(s, p, <<>>) = b \o Bare(<<>>)
  BY <1>1, SaidIs
<1>3. b \in Seq(Symbol)
  BY <1>1, ConcatProperties
<1> HIDE DEF b
<1>4. b \o <<>> = b
  BY <1>3, ConcatEmptySeq
<1>5. Said(s, p, <<>>) = b
  BY <1>2, <1>4, BareEmpty
<1> QED
  BY <1>5, BareConcat DEF b

(* Of the whole content, what has been sent is the start. *)
LEMMA SentIsPrefix ==
    ASSUME NEW l, NEW t \in Texts, NEW g, Stream(g, t), g.c \in Texts,
           NEW d \in 0..Len(t), NEW a \in 1..(Len(t) + 1), NEW e \in 0..Len(t), Stops(l, g, t, a, e, d)
    PROVE  IsPrefix(Bare(g.c), Bare(Message(t).content))
<1> DEFINE whole == Bare(Message(t).content)
           x == Bare(g.c)
           p == Bare(g.pend_c)
<1>1. g.pend_c \in Texts
  BY DEF Stream, Shape
<1>2. x \in Seq(Symbol) /\ p \in Seq(Symbol)
  BY <1>1, BareType DEF Texts
<1>3. Starts(x \o p, whole)
  <2>1. Settled(l, g.opened, Said(g.r, g.pend_r, <<>>), t, a) /\ Free(t, "c", a, e) /\ e \in (a - 1)..d
        /\ Said(g.c, g.pend_c, <<>>) = Bare(SubSeq(t, a, e))
    BY DEF Stops
  <2>2. e \in (a - 1)..Len(t)
    BY <2>1 DEF Texts
  <2> DEFINE R == Said(g.r, g.pend_r, <<>>)
             o == g.opened
  <2> HIDE DEF R, o
  <2>3. Settled(l, o, R, t, a) /\ Free(t, "c", a, e)
    BY <2>1 DEF R, o
  <2>4. Starts(Bare(SubSeq(t, a, e)), whole)
    BY <2>2, <2>3, ContentStarts
  <2>5. Said(g.c, g.pend_c, <<>>) = x \o p
    BY <1>1, SaidTwo
  <2> QED
    BY <2>1, <2>4, <2>5
<1> HIDE DEF whole, x, p
<1>4. PICK z \in Texts : whole = (x \o p) \o z
  BY <1>3 DEF Starts
<1>5. z \in Seq(Symbol)
  BY DEF Texts
<1>6. Assoc(x, p, z)
  BY <1>2, <1>5, Regroup, Zenon
<1>7. p \o z \in Texts
  BY <1>2, <1>5, ConcatProperties DEF Texts
<1>8. Starts(x, whole)
  BY <1>4, <1>6, <1>7, Zenon DEF Assoc, Starts
<1>9. x \in Texts
  BY <1>2 DEF Texts
<1>10. IsPrefix(x, whole)
  BY <1>8, <1>9, StartsIsPrefix
<1> QED
  BY <1>10 DEF x, whole

SaysAll(c, p, m, h) ==
    /\ Bare(c \o TrimEnd((p \o m) \o h)) = (Said(c, p, <<>>) \o Bare(m)) \o Bare(h)
    /\ Bare(c \o (p \o m)) = Said(c, p, <<>>) \o Bare(m)

LEMMA BareOfFour ==
    ASSUME NEW c \in Texts, NEW p \in Texts, NEW m \in Texts, NEW h \in Texts
    PROVE  SaysAll(c, p, m, h)
<1> DEFINE u == p \o m
           v == u \o h
           w == TrimEnd(v)
           bc == Bare(c)
           bp == Bare(p)
           bm == Bare(m)
           bh == Bare(h)
           bu == Bare(u)
<1>1. u \in Texts
  BY ConcatProperties DEF Texts
<1>2. bu = bp \o bm
  BY BareConcat
<1> HIDE DEF u
<1>3. v \in Texts
  BY <1>1, ConcatProperties DEF Texts
<1>4. Bare(v) = bu \o bh
  BY <1>1, BareConcat
<1> HIDE DEF v
<1>5. Bare(w) = Bare(v) /\ w \in Texts
  BY <1>3, BareTrimEnd
<1> HIDE DEF w
<1>6. Bare(c \o w) = bc \o Bare(w) /\ Bare(c \o u) = bc \o bu
  BY <1>1, <1>5, BareConcat
<1>7. Said(c, p, <<>>) = bc \o bp
  BY SaidTwo
<1>8. bc \in Seq(Symbol) /\ bp \in Seq(Symbol) /\ bm \in Seq(Symbol) /\ bh \in Seq(Symbol) /\ bu \in Seq(Symbol)
  BY <1>1, BareType DEF Texts
<1> HIDE DEF bc, bp, bm, bh, bu
<1>9. Assoc(bc, bp, bm) /\ Assoc(bc, bu, bh)
  BY <1>8, Regroup, Zenon
<1>10. Bare(c \o u) = Said(c, p, <<>>) \o bm
  BY <1>2, <1>6, <1>7, <1>9, Zenon DEF Assoc
<1>11. Bare(c \o w) = (Said(c, p, <<>>) \o bm) \o bh
  BY <1>2, <1>4, <1>5, <1>6, <1>7, <1>9, Zenon DEF Assoc
<1> QED
  BY <1>10, <1>11 DEF u, v, w, bm, bh, SaysAll

(* Of the whole content nothing is missing but what is still withheld.     *)
LEMMA ContentAgrees ==
    ASSUME NEW l, NEW t \in Texts, NEW g, Stream(g, t), g.c \in Texts, Message(t).tool_calls = <<>>,
           NEW d \in 0..Len(t), NEW a \in 1..(Len(t) + 1), NEW e \in 0..Len(t), Stops(l, g, t, a, e, d)
    PROVE  LET whole == Bare(Message(t).content) IN
           /\ Bare(g.c \o TrimEnd((g.pend_c \o Mid(g)) \o g.hold)) = whole
           /\ g.hold = <<>> => Bare(g.c \o (g.pend_c \o Mid(g))) = whole
<1> DEFINE N == Len(t)
           m == Mid(g)
           h == g.hold
           C == Said(g.c, g.pend_c, <<>>)
           whole == Bare(Message(t).content)
<1>1. N \in Nat /\ a \in Nat /\ d \in Nat /\ e \in Nat
  BY DEF Texts
<1>2. /\ IsRest(h, t, d) /\ e \in (a - 1)..d /\ m = SubSeq(t, e + 1, d)
      /\ C = Bare(SubSeq(t, a, e)) /\ g.pend_c \in Texts
  BY DEF Stops, Stream, Shape
<1>3. /\ e + 1 \in 1..(N + 1) /\ d \in ((e + 1) - 1)..N /\ e \in (a - 1)..N /\ d \in e..N
      /\ d \in (a - 1)..N /\ N \in d..N
  BY <1>1, <1>2
<1>4. h \in Texts /\ h = SubSeq(t, d + 1, N) /\ Len(h) = N - d
  BY <1>2, HoldTyped DEF IsRest
<1>5. m \in Texts
  BY <1>2, <1>3, SegProps
<1>6. whole = Bare(SubSeq(t, a, N))
  <2> DEFINE R == Said(g.r, g.pend_r, <<>>)
             o == g.opened
  <2> HIDE DEF R, o
  <2>1. Settled(l, o, R, t, a)
    BY DEF Stops, R, o
  <2> QED
    BY <2>1, ContentWhole
<1>7. C \o Bare(m) = Bare(SubSeq(t, a, d))
  BY <1>2, <1>3, BareSeg
<1>8. Bare(SubSeq(t, a, d)) \o Bare(h) = Bare(SubSeq(t, a, N))
  BY <1>3, <1>4, BareSeg
<1> HIDE DEF m, h, C, whole
<1>9. /\ Bare(g.c \o TrimEnd((g.pend_c \o m) \o h)) = (C \o Bare(m)) \o Bare(h)
      /\ Bare(g.c \o (g.pend_c \o m)) = C \o Bare(m)
  <2>1. g.c \in Texts /\ g.pend_c \in Texts /\ m \in Texts /\ h \in Texts
    BY <1>2, <1>4, <1>5
  <2>2. SaysAll(g.c, g.pend_c, m, h)
    BY <2>1, BareOfFour
  <2> QED
    BY <2>2, Zenon DEF C, SaysAll
<1>10. ASSUME h = <<>> PROVE d = N
  <2>1. Len(h) = 0
    BY <1>10
  <2> QED
    BY <1>1, <1>4, <2>1
<1> QED
  BY <1>6, <1>7, <1>8, <1>9, <1>10 DEF m, h, whole

LEMMA ReasoningAgrees ==
    ASSUME NEW l, NEW t \in Texts, NEW g, Stream(g, t), g.r \in Texts,
           NEW d, NEW a \in 1..(Len(t) + 1), NEW e, Stops(l, g, t, a, e, d),
           l \/ ~IsPrefix(ThinkOpen, TrimLead(t))
    PROVE  Bare(g.r \o g.pend_r) = Bare(Message(t).reasoning_content)
<1> DEFINE R == Said(g.r, g.pend_r, <<>>)
           o == g.opened
<1>1. g.pend_r \in Texts
  BY DEF Stream, Shape
<1>2. R = Bare(g.r) \o Bare(g.pend_r) /\ Bare(g.r \o g.pend_r) = Bare(g.r) \o Bare(g.pend_r)
  BY <1>1, SaidTwo
<1> HIDE DEF R, o
<1>3. Settled(l, o, R, t, a)
  BY DEF Stops, R, o
<1>4. Bare(Message(t).reasoning_content) = R
  BY <1>3, ReasoningIs
<1> QED
  BY <1>2, <1>4

-----------------------------------------------------------------------------
(* The stream is right at every moment, and so is the end. *)
TInd ==
    /\ ~fin => /\ Speaks(fmt.lfm2, f, text)
               /\ f.phase = "reason" => ~Has(text, ThinkEnd)
    /\ fin => ReplyAgrees /\ NoToolText

LEMMA StreamNoToolText ==
    ASSUME FInd, TInd
    PROVE  NoToolText
<1>1. CASE fin
  BY <1>1 DEF TInd
<1>2. CASE ~fin
  <2> SUFFICES ASSUME SameBlock PROVE IsPrefix(Bare(f.c), Bare(Message(text).content))
    BY DEF NoToolText
  <2> DEFINE l == fmt.lfm2
  <2>1. /\ text \in Texts /\ Stream(f, text) /\ Speaks(l, f, text)
        /\ f.phase = "reason" => ~Has(text, ThinkEnd)
    BY <1>2 DEF FInd, TInd
  <2>2. f.opened = Has(text, ThinkEnd)
    BY DEF SameBlock
  <2> HIDE DEF l
  <2>3. PICK d \in 0..Len(text), a \in 1..(Len(text) + 1), e \in 0..Len(text) :
           Stops(l, f, text, a, e, d)
    BY <2>1, <2>2, StopsSomewhere
  <2>4. f.c \in Texts
    BY <2>1 DEF Speaks
  <2> QED
    BY <2>1, <2>3, <2>4, SentIsPrefix
<1> QED
  BY <1>1, <1>2

LEMMA TInitInd == FInit => TInd
<1> SUFFICES ASSUME FInit PROVE TInd
  OBVIOUS
<1>1. text = <<>> /\ text \in Texts /\ ~fin
  BY DEF FInit, Texts
<1>2. fmt.reasoning \in BOOLEAN /\ fmt.lfm2 \in BOOLEAN
  BY FilterAssumption DEF FInit
<1>3. /\ f.hold = <<>> /\ f.pend_r = <<>> /\ f.pend_c = <<>> /\ f.r = <<>> /\ f.c = <<>>
      /\ f.await = fmt.lfm2 /\ f.opened = (fmt.reasoning /\ ~fmt.lfm2)
      /\ f.phase = IF fmt.reasoning /\ ~fmt.lfm2 THEN "reason" ELSE "content"
  BY DEF FInit
<1>4. <<>> \in Texts
  BY DEF Texts
<1>5. 0 \in 0..Len(text) /\ Len(text) = 0
  BY <1>1
<1>6. IsRest(f.hold, text, 0)
  BY <1>1, <1>3, <1>5, SubSeqEmpty DEF IsRest
<1>7. Bare(SubSeq(text, 1, 0)) = <<>>
  <2>1. SubSeq(text, 1, 0) = <<>>
    BY SubSeqEmpty
  <2> QED
    BY <2>1, BareEmpty
<1>8. Free(text, "t", 1, 0) /\ Free(text, "c", 1, 0)
  BY DEF Free
<1> DEFINE l == fmt.lfm2
           o == f.opened
<1>9. Told(l, f.phase, o, <<>>, <<>>, text, 0)
  <2>1. CASE fmt.reasoning /\ ~fmt.lfm2
    <3>1. f.phase = "reason" /\ ~l /\ o
      BY <1>3, <2>1
    <3> HIDE DEF l, o
    <3>2. 1 \in 1..(0 + 1) /\ Enters(l, text, 1)
      BY <3>1 DEF Enters
    <3>3. Reasons(l, o, <<>>, <<>>, text, 0)
      BY <1>7, <1>8, <3>1, <3>2 DEF Reasons
    <3> QED
      BY <3>1, <3>3 DEF Told
  <2>2. CASE ~(fmt.reasoning /\ ~fmt.lfm2)
    <3>1. f.phase = "content" /\ ~o
      BY <1>3, <2>2
    <3> HIDE DEF l, o
    <3>2. 1 \in 1..(0 + 1) /\ Begun(l, o, <<>>, text, 1)
      BY <3>1 DEF Begun
    <3>3. Answers(l, o, <<>>, <<>>, text, 0)
      BY <1>7, <1>8, <3>2 DEF Answers
    <3> QED
      BY <3>1, <3>3 DEF Told
  <2> QED
    BY <2>1, <2>2
<1>10. Told(l, f.phase, f.opened, Said(f.r, f.pend_r, <<>>), Said(f.c, f.pend_c, <<>>), text, 0)
  BY <1>3, <1>9, SaidNothing
<1>11. Speaks(l, f, text)
  BY <1>1, <1>3, <1>4, <1>5, <1>6, <1>10 DEF Speaks
<1>12. ~Has(text, ThinkEnd)
  <2>1. ASSUME NEW i \in Places(text, ThinkEnd) PROVE FALSE
    BY <1>5, MarkerLen DEF Places
  <2> QED
    BY <2>1 DEF Has
<1> QED
  BY <1>1, <1>11, <1>12 DEF TInd

LEMMA TFinish ==
    ASSUME FInd, TInd, Finish
    PROVE  TInd'
<1> DEFINE l == fmt.lfm2
           msg == Message(text)
<1>1. /\ ~fin /\ fin' = TRUE /\ text' = text /\ fmt' = fmt
      /\ calls' = parse_tool_calls(text).calls
      /\ f' = IF calls' = <<>> /\ f.hold # <<>> THEN Flushed ELSE f
  BY DEF Finish
<1>2. /\ text \in Texts /\ Stream(f, text) /\ Speaks(l, f, text)
      /\ f.phase = "reason" => ~Has(text, ThinkEnd)
  BY <1>1 DEF FInd, TInd
<1>3. f.r \in Texts /\ f.c \in Texts /\ DOMAIN f = Fields /\ f.pend_c \in Seq(Symbol) /\ f.pend_r \in Seq(Symbol)
  BY <1>2 DEF Speaks, Stream, Shape, Texts
<1>4. calls' = msg.tool_calls
  BY <1>1, <1>2, MessageCalls
<1>5. f'.opened = f.opened
  <2>1. f' = Flushed \/ f' = f
    BY <1>1
  <2> QED
    BY <1>3, <2>1 DEF Flushed, Fields
<1>6. SameBlock' => f.opened = Has(text, ThinkEnd) /\ (l \/ ~IsPrefix(ThinkOpen, TrimLead(text)))
  BY <1>1, <1>5 DEF SameBlock
<1>7. NoToolText'
  <2>1. CASE msg.tool_calls = <<>>
    BY <1>1, <2>1 DEF NoToolText
  <2>2. CASE msg.tool_calls # <<>>
    <3>1. f' = f
      BY <1>1, <1>4, <2>2
    <3>2. NoToolText
      BY StreamNoToolText
    <3> QED
      BY <1>1, <3>1, <3>2 DEF NoToolText, SameBlock
  <2> QED
    BY <2>1, <2>2
<1>8. ReplyAgrees'
  <2> SUFFICES ASSUME calls' = <<>>, SameBlock'
               PROVE  /\ \E lost \in Lost(f.pend_c)' : Bare(f'.c \o lost) = Bare(msg.content)
                      /\ \E lost \in Lost(f.pend_r)' : Bare(f'.r \o lost) = Bare(msg.reasoning_content)
    BY <1>1 DEF ReplyAgrees
  <2>1. f.opened = Has(text, ThinkEnd) /\ (l \/ ~IsPrefix(ThinkOpen, TrimLead(text)))
    BY <1>6
  <2> HIDE DEF l, msg
  <2>2. PICK d \in 0..Len(text), a \in 1..(Len(text) + 1), e \in 0..Len(text) :
           Stops(l, f, text, a, e, d)
    BY <1>2, <2>1, StopsSomewhere
  <2>3. /\ f.phase \in {"content", "tool"} /\ IsRest(f.hold, text, d)
        /\ f.phase = "tool" => At(text, d - 1, "c")
    BY <2>2 DEF Stops
  <2> DEFINE tail == TrimEnd((f.pend_c \o Mid(f)) \o f.hold)
             kept == f.pend_c \o Mid(f)
  <2>4. /\ Bare(f.c \o tail) = Bare(msg.content)
        /\ f.hold = <<>> => Bare(f.c \o kept) = Bare(msg.content)
    <3>1. Message(text).tool_calls = <<>>
      BY <1>4 DEF msg
    <3> QED
      BY <1>2, <1>3, <2>2, <3>1, ContentAgrees DEF msg
  <2>5. Bare(f.r \o f.pend_r) = Bare(msg.reasoning_content)
    BY <1>2, <1>3, <2>1, <2>2, ReasoningAgrees DEF msg
  <2>6. /\ Lost(f.pend_c)' = {<<>>, f'.pend_c} \cup IF IsSuffix(ToolOpen, text) THEN {f'.pend_c \o ToolOpen} ELSE {}
        /\ f'.pend_r \in Lost(f.pend_r)' /\ <<>> \in Lost(f.pend_c)' /\ f'.pend_c \in Lost(f.pend_c)'
    BY <1>1 DEF Lost
  <2>7. CASE f.hold # <<>>
    <3> DEFINE sent == f.c \o tail
               h == [f EXCEPT !.c = sent, !.hold = <<>>]
    <3>1. f' = h
      <4>1. f.phase # "reason" /\ f' = Flushed
        BY <1>1, <2>3, <2>7
      <4> QED
        BY <4>1 DEF Flushed, Mid
    <3>2. tail \in Seq(Symbol) /\ sent \in Seq(Symbol)
      <4>1. IsRest(f.hold, text, d) /\ Mid(f) = SubSeq(text, e + 1, d) /\ e \in (a - 1)..d
        BY <2>2 DEF Stops
      <4>2. Len(text) \in Nat /\ d \in Nat /\ a \in Nat /\ e \in Nat /\ e + 1 \in 1..(Len(text) + 1) /\ d \in ((e + 1) - 1)..Len(text)
        BY <1>2, <4>1 DEF Texts
      <4> DEFINE m == Mid(f)
                 hold == f.hold
                 v == kept \o hold
      <4>3. m \in Seq(Symbol) /\ hold \in Seq(Symbol)
        BY <1>2, <4>1, <4>2, SegProps, HoldTyped DEF Texts
      <4> HIDE DEF m, hold
      <4>4. f.pend_c \o m \in Seq(Symbol)
        BY <1>3, <4>3, ConcatProperties
      <4>5. v \in Seq(Symbol)
        BY <4>3, <4>4, ConcatProperties DEF m
      <4> HIDE DEF v
      <4>6. TrimEnd(v) \in Texts
        BY <4>5, BareTrimEnd DEF Texts
      <4>7. tail \in Seq(Symbol)
        BY <4>6 DEF v, hold, Texts
      <4> HIDE DEF tail
      <4> QED
        BY <1>3, <4>7, ConcatProperties DEF Texts
    <3> HIDE DEF sent
    <3>3. h.c = sent /\ h.r = f.r /\ h.pend_r = f.pend_r
      BY <1>3 DEF Fields
    <3> HIDE DEF h, tail
    <3>4. sent \o <<>> = sent
      BY <3>2, ConcatEmptySeq
    <3>5. Bare(f'.c \o <<>>) = Bare(msg.content)
      BY <2>4, <3>1, <3>3, <3>4 DEF sent
    <3>6. Bare(f'.r \o f'.pend_r) = Bare(msg.reasoning_content)
      BY <2>5, <3>1, <3>3
    <3> QED
      BY <2>6, <3>5, <3>6
  <2>8. CASE f.hold = <<>>
    <3>1. f' = f
      BY <1>1, <2>8
    <3>2. kept \in Lost(f.pend_c)'
      <4>1. CASE f.phase = "content"
        <5>1. Mid(f) = <<>>
          BY <4>1 DEF Mid
        <5>2. f.pend_c \o <<>> = f.pend_c
          BY <1>3, ConcatEmptySeq
        <5> QED
          BY <2>6, <3>1, <5>1, <5>2
      <4>2. CASE f.phase = "tool"
        <5>1. Mid(f) = ToolOpen
          BY <4>2 DEF Mid
        <5>2. d = Len(text)
          <6>1. Len(f.hold) = Len(text) - d /\ d \in Nat /\ Len(text) \in Nat
            BY <1>2, <2>3, HoldTyped DEF Texts
          <6>2. Len(f.hold) = 0
            BY <2>8
          <6> QED
            BY <6>1, <6>2
        <5>3. IsSuffix(ToolOpen, text)
          BY <1>2, <2>3, <4>2, <5>2, ToolAtEnd
        <5> QED
          BY <2>6, <3>1, <5>1, <5>3
      <4> QED
        BY <2>3, <4>1, <4>2
    <3>3. Bare(f'.c \o kept) = Bare(msg.content) /\ Bare(f'.r \o f'.pend_r) = Bare(msg.reasoning_content)
      BY <2>4, <2>5, <2>8, <3>1
    <3> QED
      BY <2>6, <3>2, <3>3
  <2> QED
    BY <2>7, <2>8
<1> QED
  BY <1>1, <1>7, <1>8 DEF TInd

LEMMA TNextInd == FInd /\ TInd /\ [FNext]_fvars => TInd'
<1> SUFFICES ASSUME FInd, TInd, [FNext]_fvars PROVE TInd'
  OBVIOUS
<1>1. CASE Emit
  <2>1. PICK piece \in Pieces : text' = text \o piece /\ f' = emit_piece(piece)
    BY <1>1 DEF Emit
  <2>2. ~fin /\ fin' = fin /\ fmt' = fmt
    BY <1>1 DEF Emit
  <2> DEFINE l == fmt.lfm2
  <2>3. text \in Texts /\ piece \in Texts /\ Stream(f, text) /\ Speaks(l, f, text)
    BY <2>2, FilterAssumption DEF FInd, TInd, Texts, Symbol
  <2> HIDE DEF l
  <2> DEFINE h == emit_piece(piece)
             t == text \o piece
  <2>4. Speaks(l, h, t) /\ (h.phase = "reason" => ~Has(t, ThinkEnd))
    BY <2>3, EmitSpeaks
  <2> HIDE DEF h, t
  <2>5. text' = t /\ f' = h
    BY <2>1 DEF h, t
  <2> QED
    BY <2>2, <2>4, <2>5 DEF TInd, l
<1>2. CASE Finish
  BY <1>2, TFinish
<1>3. CASE UNCHANGED fvars
  BY <1>3 DEF TInd, fvars, ReplyAgrees, NoToolText, SameBlock, Lost
<1> QED
  BY <1>1, <1>2, <1>3 DEF FNext

(* With calls, nothing of a tool call shows: at every moment of a stream,  *)
(* what emit_piece() has sent as content is the start of the content that  *)
(* parse_tool_calls() makes of the reply so far as a whole, white space    *)
(* apart, as long as both take the same part of it for the reasoning.      *)
THEOREM NoToolTextSent == CSpec => []NoToolText
<1>1. CInit => FInit
  BY DEF CInit
<1>2. [CNext]_convars => [FNext]_fvars
  BY DEF CNext, Reply, Ask, convars
<1>3. FInd /\ TInd => NoToolText
  BY StreamNoToolText
<1> QED
  BY <1>1, <1>2, <1>3, FInitInd, FNextInd, TInitInd, TNextInd, PTL DEF CSpec

(* Without calls the client of a stream has, when finish() is done, the    *)
(* reasoning and the content that a request without a stream is answered   *)
(* with, white space apart: all that was withheld on the way is sent but   *)
(* for an incomplete character and a <tool_call> that nothing follows.     *)
THEOREM StreamReplyAgrees == CSpec => []ReplyAgrees
<1>1. CInit => FInit
  BY DEF CInit
<1>2. [CNext]_convars => [FNext]_fvars
  BY DEF CNext, Reply, Ask, convars
<1>3. TInd => ReplyAgrees
  BY DEF TInd, ReplyAgrees
<1> QED
  BY <1>1, <1>2, <1>3, FInitInd, FNextInd, TInitInd, TNextInd, PTL DEF CSpec

=============================================================================
