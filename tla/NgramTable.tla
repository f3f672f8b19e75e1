----------------------------- MODULE NgramTable -----------------------------
(***************************************************************************)
(* class NgramTable (core/ngram_table.cpp): the table of n-gram embeddings *)
(* of a model with PLE, kept on disk behind a cache of rows or in RAM, and *)
(* the calls the runtime makes of it for every batch of tokens: hash_rows  *)
(* names the rows, gather fetches them.                                    *)
(*                                                                         *)
(* A row of the table is its own number: what a buffer holds is the number *)
(* of the row it was filled from.  Hash stands for the 64-bit product, xor *)
(* and modulo by the head's vocabulary: any function of head and window.   *)
(* free_slots is never filled in the code and is left out.                 *)
(***************************************************************************)
EXTENDS Integers, Sequences, FiniteSets, SequencesExt

CONSTANTS Tokens, Eos,
          NGram,        \* ple_ngram_size
          PerGram,      \* heads per n-gram length
          Hash(_, _),   \* the row of a head for a window of tokens
          Modes,        \* subset of {"disk", "ram"}
          Caps,         \* possible sizes of the row cache
          MaxBatch, MaxSeq

Heads == (NGram - 1) * PerGram

(* Head hi reads the last g tokens. *)
GramOf(hi) == 2 + ((hi - 1) \div PerGram)

ASSUME NgramAssumption ==
    /\ Eos \in Tokens
    /\ NGram \in Nat /\ NGram >= 2 /\ PerGram \in Nat \ {0}
    /\ Modes \subseteq {"disk", "ram"} /\ Caps \subseteq Nat
    /\ MaxBatch \in Nat \ {0} /\ MaxSeq \in Nat
    /\ \A hi \in 1..Heads : \A w \in [1..GramOf(hi) -> Tokens] : Hash(hi, w) \in Nat

VARIABLES mode, cap,
          seq,     \* the tokens the runtime has computed since reset()
          hist,    \* ngram_hist
          index,   \* cache_index: the cached rows, each with its place
          lru,     \* most recent first
          data,    \* cache_data: place -> the row it holds
          job      \* the batch at hand

nvars == <<mode, cap, seq, hist, index, lru, data, job>>

NoRow == -1
NoJob == [pc |-> "idle", batch |-> <<>>, rows |-> <<>>, out |-> <<>>,
          at |-> 1,           \* the place gather() looks up next
          missed |-> {},      \* order: the places to be read
          last |-> NoRow, buf |-> NoRow]

NInit ==
    /\ mode \in Modes /\ cap \in IF mode = "disk" THEN Caps ELSE {0}
    /\ seq = <<>> /\ hist = <<>>
    /\ index = <<>> /\ lru = <<>> /\ data = [i \in 1..cap |-> NoRow]
    /\ job = NoJob

-----------------------------------------------------------------------------
(* hash_rows() *)

(* A fresh sequence reads as if every predecessor were a boundary.         *)
Padded(h) == [i \in 1..(NGram - 1 - Len(h)) |-> Eos] \o h

(* Predecessor s of the batch's token i: in the batch, or in the history.  *)
Prev(h, b, i, s) == IF i > s THEN b[i - s] ELSE h[Len(h) - (s - i)]

(* The window: an EOS before the token hides everything at or before it.   *)
Ctx(h, b, i) ==
    LET cut(s) == \E r \in 1..s : Prev(h, b, i, r) = Eos
    IN  [s \in 1..NGram |-> IF s = 1 THEN b[i]
                            ELSE IF cut(s - 1) THEN Eos ELSE Prev(h, b, i, s - 1)]

hash_rows(h, b) ==
    [x \in 1..(Len(b) * Heads) |->
        LET i == 1 + ((x - 1) \div Heads)
            hi == 1 + ((x - 1) % Heads)
        IN  Hash(hi, SubSeq(Ctx(h, b, i), 1, GramOf(hi)))]

(* Faulty variant of Carried: the history is what the batch alone leaves.  *)
CarriedBatch(h, b) == SubSeq(b, Len(b) - (IF Len(b) < NGram - 1 THEN Len(b) ELSE NGram - 1) + 1, Len(b))

(* The last NGram - 1 tokens, topped up from the history.                  *)
Carried(h, b) == LET all == h \o b IN SubSeq(all, Len(all) - (NGram - 1) + 1, Len(all))

-----------------------------------------------------------------------------
(* The calls for a batch: decode, prefill or the n-gram input of a graph   *)

Batches == UNION {[1..n -> Tokens] : n \in 1..MaxBatch}

HashRows ==
    /\ job.pc = "idle"
    /\ \E b \in Batches :
          /\ Len(seq) + Len(b) <= MaxSeq
          /\ LET rows == hash_rows(Padded(hist), b)
             IN  job' = [NoJob EXCEPT !.pc = "gather", !.batch = b, !.rows = rows,
                                      !.out = [i \in DOMAIN rows |-> NoRow]]
          /\ hist' = Carried(Padded(hist), b)
    /\ UNCHANGED <<mode, cap, seq, index, lru, data>>

GatherRam ==
    /\ job.pc = "gather" /\ mode = "ram"
    /\ job' = [job EXCEPT !.pc = "done", !.out = job.rows]
    /\ UNCHANGED <<mode, cap, seq, hist, index, lru, data>>

(* cached(): a hit moves to the front. *)
ToFront(l, i) == <<l[i]>> \o RemoveAt(l, i)

(* One place after the other: a hit is converted at once, a miss is kept   *)
(* for later.                                                              *)
LookingUp == job.pc = "gather" /\ mode = "disk" /\ job.at <= Len(job.rows)

Hit ==
    /\ LookingUp /\ job.rows[job.at] \in DOMAIN index
    /\ \E i \in DOMAIN lru : lru[i] = job.rows[job.at] /\ lru' = ToFront(lru, i)
    /\ job' = [job EXCEPT !.at = @ + 1, !.out[job.at] = data[index[job.rows[job.at]]]]
    /\ UNCHANGED <<mode, cap, seq, hist, index, data>>

Miss ==
    /\ LookingUp /\ job.rows[job.at] \notin DOMAIN index
    /\ job' = [job EXCEPT !.at = @ + 1, !.missed = @ \cup {job.at}]
    /\ UNCHANGED <<mode, cap, seq, hist, index, lru, data>>

Without(f, x) == [y \in DOMAIN f \ {x} |-> f[y]]

(* Faulty variant of Insert: the victim stays in the index.                *)
InsertKeepsVictim(row) ==
    IF cap = 0 THEN UNCHANGED <<index, lru, data>>
    ELSE LET full == Cardinality(DOMAIN index) >= cap
             idx  == IF full THEN index[Last(lru)] ELSE Cardinality(DOMAIN index) + 1
         IN  /\ data' = [data EXCEPT ![idx] = row]
             /\ lru' = <<row>> \o IF full THEN Front(lru) ELSE lru
             /\ index' = [r \in DOMAIN index \cup {row} |-> IF r = row THEN idx ELSE index[r]]

(* insert(): a new place, or that of the row used least recently.          *)
Insert(row) ==
    IF cap = 0 THEN UNCHANGED <<index, lru, data>>
    ELSE LET full == Cardinality(DOMAIN index) >= cap
             idx  == IF full THEN index[Last(lru)] ELSE Cardinality(DOMAIN index) + 1
             kept == IF full THEN Without(index, Last(lru)) ELSE index
         IN  /\ data' = [data EXCEPT ![idx] = row]
             /\ lru' = <<row>> \o IF full THEN Front(lru) ELSE lru
             /\ index' = [r \in DOMAIN kept \cup {row} |-> IF r = row THEN idx ELSE kept[r]]

(* The misses are read in the order of their rows, and of their places.    *)
First(i) ==
    /\ i \in job.missed
    /\ \A j \in job.missed :
          job.rows[i] < job.rows[j] \/ (job.rows[i] = job.rows[j] /\ i <= j)

Reading(i) == job.pc = "gather" /\ mode = "disk" /\ job.at > Len(job.rows) /\ First(i)

(* Faulty variant of SameRow: the row before is not compared.              *)
SameRowAlways(i) == job.last # NoRow

(* A row that comes again is still in the buffer.                          *)
SameRow(i) == job.rows[i] = job.last

Served(i, row) ==
    [job EXCEPT !.out[i] = row, !.missed = @ \ {i}, !.last = row, !.buf = row]

Read ==
    /\ \E i \in job.missed :
          /\ Reading(i) /\ ~SameRow(i)
          /\ Insert(job.rows[i])
          /\ job' = Served(i, job.rows[i])
    /\ UNCHANGED <<mode, cap, seq, hist>>

ReadAgain ==
    /\ \E i \in job.missed : Reading(i) /\ SameRow(i) /\ job' = Served(i, job.buf)
    /\ UNCHANGED <<mode, cap, seq, hist, index, lru, data>>

GatherEnds ==
    /\ job.pc = "gather" /\ mode = "disk" /\ job.at > Len(job.rows) /\ job.missed = {}
    /\ job' = [job EXCEPT !.pc = "done"]
    /\ UNCHANGED <<mode, cap, seq, hist, index, lru, data>>

(* The graph has run on the rows. *)
Computed ==
    /\ job.pc = "done"
    /\ seq' = seq \o job.batch
    /\ job' = NoJob
    /\ UNCHANGED <<mode, cap, hist, index, lru, data>>

(* reset(): the history goes with the KV cache, the row cache stays.       *)
Reset ==
    /\ job.pc \in {"idle", "failed"}
    /\ seq' = <<>> /\ hist' = <<>> /\ job' = NoJob
    /\ UNCHANGED <<mode, cap, index, lru, data>>

(* read_row throws, after hash_rows has moved the history: whoever catches *)
(* it resets the runtime.                                                  *)
ReadFails ==
    /\ \E i \in job.missed : Reading(i) /\ ~SameRow(i)
    /\ job' = [NoJob EXCEPT !.pc = "failed"]
    /\ UNCHANGED <<mode, cap, seq, hist, index, lru, data>>

NNext ==
    \/ HashRows \/ GatherRam \/ Hit \/ Miss \/ Read \/ ReadAgain \/ ReadFails \/ GatherEnds
    \/ Computed \/ Reset

NSpec == NInit /\ [][NNext]_nvars

-----------------------------------------------------------------------------
(* What a single pass over all tokens would read for position p of s: an   *)
(* EOS between stands for everything at or before it.                      *)
SinglePass(s, p) ==
    [x \in 1..NGram |->
       LET q == p - x + 1
       IN  IF q < 1 \/ \E e \in q..(p - 1) : s[e] = Eos THEN Eos ELSE s[q]]

(* "Consecutive calls see the context a single-shot pass would": however   *)
(* the sequence is cut into batches, and after every reset, hash_rows      *)
(* names the rows of the whole sequence.                                   *)
RowsExact ==
    job.pc \in {"gather", "done"} =>
        LET all == seq \o job.batch
        IN  \A i \in DOMAIN job.batch, hi \in 1..Heads :
              job.rows[(i - 1) * Heads + hi] =
                 Hash(hi, SubSeq(SinglePass(all, Len(seq) + i), 1, GramOf(hi)))

(* gather() delivers to every place the row asked for there, with hits     *)
(* taken before the misses evict them and repeated rows read once.         *)
GatherExact == job.pc = "done" => job.out = job.rows

(* The row cache at its limit, and after a failed read: index, order of    *)
(* use and memory name the same rows, within the capacity.                 *)
RowCacheSound ==
    /\ Cardinality(DOMAIN index) <= cap /\ Len(lru) = Cardinality(DOMAIN index)
    /\ Range(lru) = DOMAIN index
    /\ \A r \in DOMAIN index : index[r] \in 1..cap /\ data[index[r]] = r

=============================================================================
