# TLA+ models of questwend

questwend is an inference engine for Qwen and LFM2 language models with an
OpenAI-compatible HTTP server. One process holds one model and **one** inference
state (attention KV rows, recurrent state, position counters); many requests
share it through a FIFO lock, a prefix cache and snapshot slots. When the
routed experts of a mixture-of-experts model do not fit the GPU they are
fetched on demand into a cache of VRAM slots.

This directory models that control logic in TLA+, checks it with TLC and proves
part of it with TLAPS. `PROJECT.json` lists components, runs, hazards, the map
from definitions to source lines, and the theorems.

## 1. Inventory

| component | state | operations | interacts with |
|---|---|---|---|
| `TicketLock` (server/main.cpp) | `next`, `serving`, `waiting`, `dead` | `lock`, `lock_for`, `unlock`, `contended`, `busy` | every request thread |
| prefix cache (server/main.cpp) | `kv_imgs`, `slots`, `slot_clock`, `live_origin`, `live_owner`, slot files | `match_cov`, `save_live`, `load_slot`, `prepare_prompt`, `ensure_state`, restore at start | runtime; runs under the lock |
| request handler (server/main.cpp) | `struct State` of a stream, locals of a request without one | queue, heartbeat, start, resume, prefill chunk, token, yield, finish, error, disconnect | lock, prefix cache, runtime, client |
| runtime state (core/runtime.cpp) | `kv_toks`, `n_past`, KV rows, recurrent state, `mrope_next`, prompt checkpoints `pk`, `embd_ovr` | `decode`, `prefill`, `reset`, `snapshot_ckpt`, `rewind_to`, `save_state`, `load_state`, `set_embd_overrides` | expert cache |
| expert cache (core/expert_cache.cpp) | pools: `key2slot`, `slot_of`, `slot2key`, `clk`, `occ`, `quota`, access counts; `quota_on_` | `ensure`, `ensure_resident`, `touch`, `rebalance`, `load_prefetch`, `set_quotas` | decode paths of the runtime, SSD |
| MTP speculative decoding (core/runtime.cpp, server) | draft rows, `mtp_past`, `mtp_hidden`, state backups; `n_sent`, `pending` of the stream | `prefill`, `generate_mtp` (draft, verify, settle, deliver), pause and resume | runtime state, client |
| resident decode, CPU-miss split (core/runtime.cpp) | uploaded remap table and mask with their stamp, refill cursor, tuner | `decode_cached_fast`, `decode_cached`, fallback, refill, tuning | expert cache |
| n-gram table (core/ngram_table.cpp) | token history, row cache (`index`, `lru`, `data`) | `hash_rows`, `gather`, reset | runtime, SSD |
| streaming text filter (server/main.cpp) | phase, hold-back buffers | `emit_piece`, `finish`; `split_reasoning`, `parse_tool_calls` for a whole reply | client |
| chat template (core/chat.cpp) | - (pure) | `build_qwen_prompt`, `build_lfm2_prompt` | client's history, prefix cache |
| tokenizer, sampler, vision, model loading, arguments, CLI, web UI | - | mostly pure or one-shot | - |

What is hard here, and what the properties are aimed at (`hazards` in
`PROJECT.json` gives the lines):

- the lock's tickets, abandoned tickets and wake-ups interleave freely;
- requests yield the runtime in the middle of a prompt or a reply and come back
  to a runtime that others have used, to find their state live, parked, evicted
  or unreadable;
- a state is reused for a new prompt when it covers a prefix of it, as tokens,
  as text or with images, or after a rewind to a checkpoint;
- some code touches the runtime after the lock was released;
- slot files are written and read half, and survive a crash;
- the expert cache claims slots before it has read their contents, and a read
  can fail; quotas and capacities meet their limits;
- a token runs on tables uploaded earlier, is taken back when an expert is
  missing, or gets part of its sum one layer late;
- an MTP cycle decodes more than it keeps, keeps more than it has sent, and may
  be paused anywhere between;
- a reply is judged piece by piece while it is streamed and as a whole at its
  end, and comes back in the next prompt, which should read the same.

## 2. Modules

| module | models | composes |
|---|---|---|
| `FifoLock` | abstract specification of the server's lock: hand-over in arrival order, waiters may give up | - |
| `TicketLock` | `struct TicketLock`; one step per critical section of its mutex; `asleep` are the threads blocked on `cv` | refines `FifoLock` |
| `TicketLockProofs` | proofs about `TicketLock` | |
| `Runtime` | the inference state as a record, its operations as functions | - |
| `PrefixCache` | cache record (`rt`, `imgs`, `slots`, `lru`, `origin`, `owner`) and the lambdas on it | `Runtime` |
| `Server` | requests, lock, cache and failures as a state machine | `PrefixCache`, `FifoLock` |
| `MCServer` | the requests of every scenario | `Server` |
| `SequenceLemmas` | facts about numbers, sequences and concatenation that the proofs share | |
| `ServerProofs` | lemmas on the operators of `Runtime` and `PrefixCache`, proofs about `Server` | |
| `ExpertCache` | `class ExpertCache` with the callers' use of quotas and slices | - |
| `MCExpertCache` | small pools | `ExpertCache` |
| `ExpertCacheProofs` | proofs about `ExpertCache` | |
| `ResidentDecode` | `decode` of one token over the expert cache: layer by layer, in one graph (speculative or masked), or split between GPU and CPU | `ExpertCache` |
| `ResidentDecodeProofs` | proofs about `ResidentDecode` | |
| `GreedyReply` | abstract specification of a greedy reply: the model's own tokens, one by one, until a stop, a limit or the client's leaving | - |
| `Mtp` | `prefill` and `generate_mtp`, and the MTP branch of a stream | refines `GreedyReply` |
| `MtpProofs` | proofs about `Mtp` | |
| `NgramTable` | `class NgramTable` and the runtime's use of it | - |
| `NgramTableProofs` | proofs about `NgramTable` | |
| `Markup` | texts as symbols, searching, trimming | - |
| `StreamFilter` | `emit_piece` and `finish`; `split_reasoning` and `parse_tool_calls` as operators | `Markup` |
| `StreamFilterProofs` | proofs about `StreamFilter`, as `Conversation` drives it | |
| `ChatTemplate` | the two chat templates as operators | `Markup` |
| `Conversation` | a streamed reply, its echo by the client and the next prompt | `StreamFilter`, `ChatTemplate` |
| `MCResidentDecode`, `MCMtp`, `MCNgramTable`, `MCConversation` | instances | |

How the state corresponds to the code:

- **Tensors** are replaced by what they are a function of. A *cell* is a token
  and the image whose embedding replaced it. `rows` are the cells the KV rows
  were computed from, `gdn` the cells the recurrent state has absorbed. The
  question "is this state the right one?" becomes an equality of sequences.
- **Token texts** are short sequences of letters (`TextOf`), so that the
  text-level alignment of `match_cov` is really exercised: in the instances
  `<<1, 2>>` and `<<3>>` have the same text.
- **Time stamps** (`slot_clock`, `clk`) become orders: `lru` and `rank`.
- **M-RoPE** positions are only ever compared with `n_past`, so an image is
  taken not to advance `mrope_next`, which makes them differ.
- **Slot files**: `blob = NoBlob` with a non-empty key is a file whose header,
  tokens and spans can be read and whose state cannot; the order in which
  `save_live` writes them makes that the only torn file that is ever matched.
- **A handler's step** runs between two points where another thread can act on
  shared data. Under the lock that is the whole prepare / chunk / token; the
  code outside the lock (`Report`, `Unwind`) has steps of its own.
- **Exceptions**: `decode` throws at a context overflow before it changes
  anything, or for any other reason with the recurrent state half advanced and
  the overrides taken or not (`Broken`). So does the decode that rebuilds the
  state of a resumed stream, after `ensure_state` has made it the live one
  (`ResumeError`).
- **Expert cache calls** work through (key, role) pairs one per step; `jobs`
  are the SSD reads left to the end of `ensure`. Access counts are replaced by
  `counted` and by a set of possible rankings. `QuotaScope` is the field
  `saved` of a call: in a batch it spans all slices, here each slice restores
  what it found, which is the same because slices set the mode themselves.

- **MTP.** `conv` is the prompt and its greedy continuation, chosen at the start;
  the argmax over a state is the next token of `conv` if rows, positions and
  recurrent state are those of a prefix of it, and any token otherwise. Drafts
  are any tokens. A hidden is named by the tokens it has seen, so that "the row
  of the draft block was computed from the right hidden" is an equality. The
  pause and resume of the runtime between provider calls is `Take`: the state is
  as it was, or it was lost and is prefilled again from `my_toks`. The kinds of
  an instance are the models (recurrent layers, offload, room for a batch,
  M-RoPE) and requests (`--draft`, `max_tokens`).
- **One decoded token.** `dec.h` counts how often each expert's output has
  entered the residual, `dec.wrong` that a matmul read a slot with other
  weights, `absorbed` and `hashed` how often the recurrent layers and the
  n-gram history have taken the token. `fast.fresh` stands for "the stamp
  (misses + evictions) has not moved since the upload". Which setting the tuner
  finds faster is a choice.
- **N-gram rows.** A row is its number; `Hash` is a constant of the instance,
  with collisions. `index`, `lru` and `data` are the row cache. `gather` looks up
  one place per step (`Hit`, `Miss`) and then reads one missed place per step, in
  the order of the sort (`First`); a failing read leaves the history moved, and
  the runtime is reset by whoever catches it.
- **Reply text.** Each marker is two symbols, so that it can be cut; one symbol
  stands for a function in a tool-call block (an lfm2 block may hold several, and
  is a call for each: `Listed`), two for the bytes of a character
  of three. `Route` runs twice per piece, which is as often as the loop of
  `emit_piece` can change phase. Prompts are texts, not tokens, because the
  prefix cache compares texts where tokens differ.

Left out of the modelled components: log output, progress callbacks, timings,
JSON, staging buffers and the coalescing of SSD reads, the per-call fill budget
of `rebalance` (unlimited by default).

## 3. Runs

Passing runs:

| run | instance | what it shows |
|---|---|---|
| `ticket_lock` | 3 threads, 6 tickets | types, exclusion, exact `busy` and `contended`, no lost wake-up, refinement of `FifoLock`; a thread in `lock()` is served |
| `server_text` | 3 streams, 2 RAM slots, context 6, 2 checkpoints, chunk 2, slice 1; the second turn has a prompt of 5 tokens that, behind the state it continues, may need 7 | own conversation, honest slots, checkpoints of one lineage, parking on a switch |
| `server_ssd` | 3 streams, 2 slot files, 2 failures | own conversation and honest slots through failed I/O, exceptions (also while a resumed stream is rebuilt), crash and restart |
| `server_image` | 3 image streams, heartbeats | own conversation and honest slots with images |
| `server_attention` | 3 streams, no recurrent layers, 1 slot | own conversation where a rewind truncates in place |
| `server_live` | stream, plain request that may not fit behind it, oversized prompt, 1 failure | every waiting request is answered |
| `experts_ssd` | 3 layers x 1 expert, 2 roles, pools of 2 and 1 slots, failing reads | maps and counters survive failures; quotas fit every pool |
| `resident` | 2 layers x 2 experts, 1 pool of 3 slots, RAM tier, all decode modes and tuner starts | a token adds up each selected expert once and from its own weights; uploaded tables are current; what `ensure` returns is usable; slots hold what they are listed for |
| `mtp` | prompt of 3, context 7, chunk 2, slice 1, 12 kinds with 1 or 2 drafts | refinement of `GreedyReply`, settled state between cycles, aligned draft rows, rows within the context |
| `reply_text` | replies of up to 4 of 17 pieces, 3 formats, 5 histories, 3 follow-ups | stream and whole parse agree; nothing of a call shows; whole characters; the next prompt continues this one |
| `ngram` | 3 tokens, windows of 2 and 3, sequences of 5, row caches of 0, 1, 3 and RAM | rows of any cut into batches are those of one pass; every place gets its row; the row cache stays sound |

`OwnConversation` is the central property of the server: whenever a request
works on the runtime, what the runtime has absorbed plus what is left of the
prompt reads as that request's own prompt and reply, images included, and the
recurrent state agrees with the KV rows.

`TokenExact` is that of resident decode: whatever path a token takes, each
selected expert is added once, from a slot that holds its weights, and the
recurrent layers absorb the token once. `Settled` and `ImplementsGreedy` are
those of MTP: between cycles the state is one the prefix cache may keep, and the
client receives what plain greedy decoding would have sent. `EchoContinues`
links the text side to the prefix cache: a reply in the template's form comes
back, after filter, client, parser and template, as the same text.

One run expects a violation; the quotation is in `findings`.

| run | disagreement |
|---|---|
| `bug_mtp_context` | with `--draft 2` and more, the verify of the last cycle writes rows beyond the context |

In `mtp` the kinds with two drafts have a token budget that ends the reply
before the end of the context, and those with one draft run into it.

### Bounds

- `MaxTicket` (6): every thread can take part twice, so runs of abandoned
  tickets of length two lie between holder and next waiter.
- `NCtx` (4 or 6), prompts of 2 to 5 tokens, replies of 1 to 3: a prompt is cut
  in chunks and at the generation prompt, a reply reaches the budget and, where
  it matters, the context limit.
- `NSlots` 1 to 3 with three requests: slots are evicted while they are needed.
- `PkMax` 2: the checkpoint ring is thinned.
- `MaxFaults` 0 to 2: one or two failures, enough for a failed write followed
  by a failed read or a crash.
- Expert pools of 1 to 3 slots for 4 keys: every pool is full and evicts.
- `resident`: one slot less than experts, so that a fused graph meets every mix
  of resident and absent experts; a warm-up of one token, a refill of one
  expert per token and tuning windows of one token, so that each of them starts
  and ends.
- `mtp`: every continuation of five tokens over two, one of them the stop token;
  cycles accept none, some and all of the drafts, and a slice of one token
  pauses the stream at each point where it can be paused.
- `ngram`: `MaxSeq` 5 with windows of 3 and batches of up to 3: a window spans
  three batches; a cache of one row evicts with every miss.
- `reply_text`: `MaxPieces` 4, with pieces that hold a whole marker, a half, or
  two; `MaxAsked` 3 pieces are enough for reasoning, content and a call.
- `Margin` stands for the 8 slots that slices leave free; with pools this small
  it is 0, which asks more of the cache.

`CHECK_DEADLOCK FALSE` appears where the system may stop: all requests are over,
the reply is closed, or all tickets of the bound are drawn. The expert cache,
the decode over it and the n-gram table never stop.

### Fairness

`TicketLock`: weak fairness of `Acquire` (the scheduler runs a thread that was
notified, and `wait_for` tests its predicate when it times out) and of `Unlock`
(a holder's loops are bounded by the token budget and the context). `Server`:
weak fairness of a request's own work and of the return of a paused stream to
the queue (httplib calls the content provider again as long as it returns
true), and of the exception that a batch throws which does not fit. `Mtp`: weak fairness of the stream's work, for the same reason; its cycles are
bounded by the token budget and the context. Arrivals, time-outs, disconnects,
other failures and crashes are not fair.

## 4. Other disagreements the model shows

These behaviours of the code can be reproduced with the modules, by the
configuration named or by changing the constants as indicated; the passing runs
avoid them. The first seven have configurations of their own, to be run by hand
(`tlc -config bug_unwind.cfg MCServer`); each ends with the violation of the
property it names within seconds:

- *Finish reason* (`bug_finish_reason.cfg`, `MCServer`). `finish()` unlocks the
  runtime at main.cpp:1474 and the `Guard` of a non-streaming request does at
  the end of its block; both then test `rt->n_past() + 1 >= n_ctx`
  (main.cpp:1529, 2013), by which time another request may have moved `n_past`.
  README.md:312-313: "`finish_reason` is "length" when generation was cut by
  either the budget or the context".
- *Unwinding* (`bug_unwind.cfg`, `MCServer`). The `Guard` is declared inside the
  try block (main.cpp:1916-1920), so the lock is released before the catch block
  runs `rt->reset()` (main.cpp:1981), which may wipe the state a stream is
  working on; nor does it clear `live_owner`. main.cpp:807: "runtime is
  single-threaded + stateful (FIFO queue)".
- *Same text, other image* (`bug_same_text_images.cfg`, `MCServer`).
  `ensure_state` looks for the parked state by tokens only (main.cpp:1160), and
  every image is the same run of pad tokens. README.md:361-362: "output is
  unaffected; state is parked and restored exactly through slots".
- *Failed expert read* (`bug_experts_read.cfg`, `MCExpertCache`). On the SSD tier
  `ensure()` enters the keys of all misses in the maps before it reads them
  (expert_cache.cpp:600-609); when a read throws, the keys stay, and the next
  call takes them for hits. expert_cache.h:63-64: "Make `layer`'s selected
  experts resident for all three roles, copying misses into VRAM".
- *Stale override* (`bug_override.cfg`, `MCServer`). A batch that throws before
  the graph takes the image overrides leaves them set; `reset()`
  (runtime.cpp:6117) keeps them, and a non-streaming text request does not set
  its own (main.cpp:1952): its prompt is computed with the other request's
  image. runtime.h:140: "Cleared after use".
- *One slot* (`bug_one_slot.cfg`, `MCServer`). With `NSlots = 1` a switch to the
  conversation in the slot overwrites the live state without parking it
  (main.cpp:962). README.md:345: "on a switch the live state is parked in a slot".
- *Same length* (`bug_same_length.cfg`, `MCServer`). `save_live` takes a state for
  "unchanged since load" by its length (main.cpp:964). Without recurrent layers
  and with M-RoPE a rewound state can grow back to that length and is then not
  parked, which the same line of the README rules out.

The passing runs do not contain the ingredients of these: `OwnConversation` is
not asked where a plain request may fail, nor where images and failures or two
images with the same tokens paused at once meet; `ParkedOnSwitch` only of two
slots and recurrent layers; `EnsureUsable` not of the SSD tier.

Prefix cache, runtime and expert cache:

- *Failed load.* `ensure_state` of an image request whose slot file cannot be
  read resets the runtime and returns (main.cpp:1169) with `live_owner` naming
  another request, which then continues on an empty runtime.
  (`OwnConversation`; an image stream and a text stream, `Ssd`, one failure.)
- *State taken.* A request that continues the live state of a paused image
  stream takes it without parking it (main.cpp:1044), and the paused stream is
  cut off: `Truncate` happens in `server_image` even with a slot for each
  request (`NSlots = 3`).
- *No rewind without M-RoPE.* `fill_rope_pos_spans` returns the position it was
  given (runtime.cpp:1878), so after a batched prefill `pk_best` is always -1
  on an attention-only model, where runtime.h:204-205 says that "rewind_to(n)
  is exact". (`server_attention` decodes token by token, where it does work.)
- *Quota floor.* In a pool with fewer than layers times experts-per-token slots
  `compute_quota` leaves later layers below the floor (expert_cache.cpp:379-380)
  and one `ensure` evicts its own slots. (`EnsureUsable`; `resident` with
  `NUsed = 2`.)
- *Reshape.* `rebalance` does not touch members of the ideal set that are
  already resident (expert_cache.cpp:448), so one can be evicted by a later
  install of the same loop.

Decoding:

- *MTP without the server.* The CLI's loop (cli/main.cpp:338) has no test of the
  context at all.
- *MTP, M-RoPE and small pools.* With recurrent layers, offload and pools too
  small for a verify batch, the tokens are decoded one by one, which advances
  `mrope_next`; after `restore_states()` the confirmed tokens are decoded again
  from the advanced position (runtime.cpp:3513-3519). (`Settled`; a kind with
  `gdn`, `ecache` and `mrope` but not `room`.)
- *Hidden not captured.* `decode_cached_fast` does not capture `mtp_hidden`, which
  `prefill` relies on for single tokens (runtime.cpp:3371-3375). With offload
  `NextnAligned` therefore asks only for the tokens of the draft rows.
- *Draft rows after a rewind.* Without recurrent layers `pk_rewind` sets
  `mtp_past` to `n`, where the draft block has `n - 1` rows (runtime.cpp:5566).
- *Hashed twice.* After a speculative miss the token is decoded again and hashed
  again (runtime.cpp:5641, then 4827), so the n-gram history holds it twice; the
  comment at runtime.cpp:5592-5595 speaks of an always-correct fallback.
  (`TokenExact`; `resident` with `UsePle = TRUE`.)
- *History not saved.* Neither slots nor checkpoints hold the n-gram history and
  the PLE convolution state (runtime.cpp:5559, 6162), which the comment at
  runtime.cpp:443-446 puts with the recurrent state.
- *Stamp.* An install of `rebalance` into a free slot moves neither misses nor
  evictions, so that the uploaded mask stays as it was. This needs a pool that a
  failed read has left with a free slot.
- *Warm-up.* The comment at runtime.cpp:5675 gives 16 as the default; the code
  has 32.

Reply and prompt:

- *Lost tails.* At the end of a streamed reply a `<tool_call>` that nothing
  follows, and an incomplete character when nothing else is held back, are not
  sent; white space before a withheld block that does not parse is dropped.
- *Text after a call.* A stream drops what follows a tool call, a request without
  a stream keeps it as content.
- *Reasoning cut short.* A reply that ends before `</think>` is reasoning in a
  stream and content otherwise; an unopened `</think>` and a doubled `<think>`
  are split differently. (`ReplyAgrees` without `SameBlock`.)
- *Empty thinking.* chat.h says that a future request "re-tokenizes identically
  up to exactly this point", the generation prompt. In a tool loop without
  reasoning it does not once a new query follows: the turns of the loop lose
  their empty `<think>` blocks. (`GenBoundary` without `NoEmptyThink`.)
- *Second image.* `add_vision_id` is set when a request has more than one image
  (main.cpp:1339), so the second image of a conversation puts "Picture 1: "
  before the first, and nothing after it is found in the cache. (`GenBoundary`
  without `SamePictures`.)

## 5. Proofs

Everything below holds for every value of the constants that satisfies the
module's named assumption; the runs show the same properties on small instances.

| theorem | module | holds for |
|---|---|---|
| `TypeCorrect`, `Exclusion`, `BusyIsExact`, `ContendedIsExact`, `WakeupNotLost`, `Refinement` | `TicketLockProofs` | every run |
| `MapsStayInverse`, `OccStaysExact`, `QuotasFitPools`, `CacheTypeCorrect` | `ExpertCacheProofs` | every run |
| `RamHoldsWeights` | `ExpertCacheProofs` | `~Ssd` |
| `WeightsUnlessBatchFails` | `ExpertCacheProofs` | runs where no batch of SSD reads fails |
| `EnsureNeverEvictsItsOwn` | `ExpertCacheProofs` | the same, roomy pools |
| `StampStaysHonest`, `DecodeKeepsCache` | `ResidentDecodeProofs` | every run |
| `DecodeEnsureUsable` | `ResidentDecodeProofs` | roomy pools |
| `TokensExact` | `ResidentDecodeProofs` | roomy pools, no n-gram table next to the one-graph modes |
| `ServerTypes` | `ServerProofs` | every run |
| `CheckpointLineage` | `ServerProofs` | runs where no plain request throws in the middle of a batch |
| `HonestSlots` | `ServerProofs` | the same, requests without images |
| `OwnText` | `ServerProofs` | runs where no plain request throws, requests without images |
| `SwitchParks` | `ServerProofs` | recurrent layers, two slots or more; runs where no slot file fails, nothing crashes and no plain request throws |
| `TypeCorrect`, `SettledState`, `DraftBlockAligned`, `RowsWithinContext`, `GreedySafety` | `MtpProofs` | regular requests |
| `RowsOfOnePass`, `GatherDelivers`, `RowCacheStaysSound` | `NgramTableProofs` | every run |
| `WholeCharactersSent`, `StreamCallsAgree`, `NoToolTextSent`, `StreamReplyAgrees` | `StreamFilterProofs` | every run |

The restrictions leave out what section 4 shows to break the code (*failed expert
read*; *quota floor*; *hashed twice*; *unwinding* and *stale override*; *same text, other image* and *failed
load*; *one slot* and *same length*; the run `bug_mtp_context` and *MTP, M-RoPE and small pools*). One goes
further: `HonestSlots` is not proved for requests with images, where the run
`server_image` finds it to hold. A slot file that cannot be written parks nothing, so
`SwitchParks` is without such failures (`Durable`). Failures of the other kinds stay in: in `OwnText` slot files are still written half or cannot be read, the
process crashes and restarts, and streams throw, disconnect and lose their state.

**Lock.** None of the properties of `TicketLock` is inductive. `IInv` adds
`TicketInv`: the outstanding tickets `serving .. next-1` are each abandoned or in
the hands of exactly one live thread, the served one is not abandoned, and a
holder's ticket is the served one. The proof has one lemma per action;
`StopWaiting` carries the counting argument for `waiting`. The refinement maps
the holder, the set of waiting threads, and the order of their tickets; its core
is `ServedIsFirst`: the thread whose ticket is served has the oldest ticket of
the queue.

**Expert cache.** `CInd` adds to `MapsAgree` and `OccExact` the types of the maps
and of the call in progress: a step writes the maps for `Head(call.todo)` and
`Head(call.roles)`, so those must be keys and roles with a pool. `ClaimKeeps` and
`DropKeeps` carry the argument: taking a slot for an absent key, and emptying a
slot, keep the maps inverse and the counters exact. `HoldsWeights` is strengthened
by `JobsMatch`: between the claim of a slot and the read that fills it, the slot
is named by exactly the job that will. A batch that fails drops its jobs and
leaves the keys, which is the *failed expert read* of section 4.

Quotas are handed out in two rounds, a floor for every layer and then the rest by
rank. `Divisions` is what both keep: what the layers of a pool were given and what is
left of it do not exceed it, by a sum over the layers (`Total`) that the proof
defines and shows to exist. `FloorIs` and `GreedyFold` take it through the two folds, so `QuotasFitPools`
needs nothing of the ranking. A pool is *roomy* (`Roomy`) when it has slots for
the experts of one token in each of the layers it serves; then every quota is at
least the floor. For `EnsureNeverEvictsItsOwn`, `Using` says of a call in progress
that the slots handed out hold their keys and are the newest of their pool
(`Recent`). `VictimNotOwn` is the argument: when the pool, or the layer's share of
it, is full, it holds more than the call has taken, so some slot is older than all
of those, and the victim is the oldest.

**Resident decode.** `CacheInd` carries the invariants of the cache into the steps
of the runtime, which adds an operation of its own: the uses of a token are
reported at its end. `StampHonest` is not inductive because the stamp does not see
every change: an install into a free slot moves neither misses nor evictions. It
never happens while the stamp is current: a pool with a free slot has evicted
nothing and so holds every expert that was ever counted (`CountedIn`), and refills
and rebalances install nothing else; `Halfway`, `Goals` and `Uploads` say this of
the calls in progress. Without failed reads no exception is left, which is why
*stamp* in section 4 needs one. `TokenExact` is about the end of a token; `Work`
says for each place of the decode what the residual has by then (`Blank`,
`Selecting`, `Awaiting`, `Whole`): the experts of the finished layers once each,
less the late share that the CPU still owes. The matmul of a layer reads the slots
that `ensure` has returned, and that they hold the right weights is
`EnsureUsable`, hence the roomy pools; a fused graph reads by tables that
`StampHonest` makes the residency.

**Server.** What a request finds in the runtime depends on what every other
request left in the slots, so the invariant is about all of them.
`Base` puts lock, cache and the locals of each request in order: the live state
and every slot are a sequence of cells with the tokens it claims, checkpoints are
prefixes of the rows, in order. `Own` says what a request may rely on: while it
holds the lock, the text of the live state and of the rest of its prompt is that
of its own conversation (`Live`); while it has yielded, the same holds of the
tokens it remembers, and if it is still the live owner those are the tokens of the
runtime (`Parked`). `Inv(w, x, o)` combines them; its parameters say which of the
hypotheses of the table are at hand, so that the theorems share one lemma per
action (`InvNext`). The first part of the module has the lemma each of them rests on,
one per operation: `match_cov` finds a cover whose text is a prefix of the prompt's text,
`prepare_prompt`, `ensure_state`, `save_live`, `load_slot` and `rewind_to` return a
state in order that reads as it should. Texts are concatenations over sequences of
tokens; that they are additive (`FlattenConcat`) is proved in `SequenceLemmas`
from the definition, with the least counterexample in place of induction.

`SwitchParks` is about a shortcut: `save_live` writes nothing when the slot of origin is
as long as the live state (main.cpp:964). That is right only if the two are then the
same, which takes an invariant of its own, `Traced`. `Behind` says that the live state
has gone on from the slot's state, is equal to it at equal length, and that all its
checkpoints are later than it; the last part is what a rewind needs, for a rewound state
that has grown again must not meet the length of a slot it no longer continues. Loading
a slot makes it the origin and forgets the checkpoints, a reset leaves no origin, and a
rewind that would go back past the slot has no checkpoint to go to. `Kept` says that a slot in use can be
loaded. The exception is a stream's catch block, which resets the runtime and keeps the
slot of origin: until the next attach the runtime is empty and has no owner (`Cleared`),
so there is nothing to lose. `Calm` states which places requests do not reach without
exceptions of plain requests. Attaching is the step that matters: whichever way
`prepare_prompt` and `ensure_state` go, the old live state is continued, is rewound, or
is in a slot afterwards that is not the one just loaded, hence the two slots.

**MTP.** All rests on one statement: the runtime is what the main model makes of
the first `n` tokens of `conv`, `RtOK(rt, n)`. Decoding what the conversation goes
on with takes it from `n` to `n + Len(t)`, and on such a state the argmax is the
next token of the conversation. `MInd` says for each place of the stream which `n`
that is and how much of it the client has; between `Draft` and `Settle` it
describes the half-done cycle. `AcceptedRight` is the step that matters: the
verdicts are right as far as the drafts are, by the least draft that is not, so
each of the three ways back leaves the state of one more confirmed token.
`GreedySafety` is the refinement of `GreedyReply` without its fairness: initial
states and every step. `Regular` asks for one draft per cycle or a budget that
ends the reply before a cycle can pass the context (otherwise `bug_mtp_context`),
and excludes the models of *MTP, M-RoPE and small pools*.

**N-gram table.** Rows are hashed from history and batch alone, so `RowsExact`
needs that the history is always the last `NGram - 1` tokens of the sequence, with
boundaries before its start (`HistOK`); `PrevIs` and `CtxIs` show that reading
back over it and cutting at end-of-text tokens is what a single pass sees. For `GatherExact` and `RowCacheSound`, `CacheInv` says that the order of use
lists the index without repetition and that places are taken from the first on,
so that a victim is indexed and its place is free afterwards. A read may be saved
because the misses are served in the order of their rows: no row still to be read
is cached unless it is the one in the buffer (`ReadsOnce`).

**Stream filter.** Chunks of a channel need not be neighbours in the reply, for
markers and white space between them are dropped; but each chunk is one contiguous
segment of it. `Stream` says so of what is on its way: what is held back is the rest of
the reply, what a round lets through comes just before it, and the bytes of an
incomplete character that wait (`pend_r`, `pend_c`) end where the next chunk of their
channel begins, also across the switch from reasoning to content. With `ClipWhole`, a
chunk that ended inside a character would show an incomplete one in the reply itself:
`WholeCharactersSent`. For `StreamCallsAgree`, `finish` parses the whole text and the
message only what follows its first `</think>`; both begin after the last `</think>`,
and from there on markers and blocks are the same but for a shift (`PlacesShift`,
`BlockShift`). `parse_tool_calls` goes from block to block by a recursive function. The
proof shows that its equation has a solution (`PartsStep`, by solutions for the ends of
the text) and that two of them agree from the end of the text backwards (`CallsShift`),
an induction on a number with the predicate written out.

`NoToolTextSent` and `StreamReplyAgrees` need to know what the filter has done with
every part of the reply. `Told` says it of each phase by places in the reply: in
`reason`, no `</think>` begins up to the held text and the reasoning runs from its
opening to there; in `content`, the reasoning ended at the first `</think>`, the content
begins right after it, and no `<tool_call>` begins between there and the held text; in
`tool`, the held text follows the first `<tool_call>`. What a channel was sent, what is
pending and what the current round has collected, put together, is the text between
those places but for white space (`Said`). A marker that a piece has cut stays whole in
the held text because `Emittable` stops before a `<` at its end (`EmittableLess`); a
round moves the places on (`RouteTells`), the UTF-8 clipping and the skipped newlines
move text from collected to sent and drop only white space (`ChunkSaid`, `SentSpeaks`),
and LFM2's wait for `<think>` fixes where the reasoning begins (`WatchedSpeaks`). A
second part of the invariant is needed at the end: outside of a call of `emit_piece`, the
filter is not in `reason` when the text has a `</think>`. When `finish` runs, the places
are those at which `split_reasoning` and `parse_tool_calls` divide the reply
(`RestFrom`, `ReasoningIs`, `OutStarts`, `KeptAll`), under `SameBlock`; `BareOfFour`
puts the withheld text back.

Only model-checked, and why:

- Liveness (`LockServed`, `Answered`, the closing of the reply in
  `ImplementsGreedy`): TLAPS does not reason about `ENABLED` and fairness.
- `GenBoundary` and `EchoContinues`: they compare two renderings of a conversation,
  message by message, which needs induction over data.
- `HonestSlots` and `OwnText` for requests with images.

## 6. Not modelled

See `components`. Numeric code (graphs, kernels, sampler, vision) and the
tokenizer have no control state that the properties could speak of; model
loading and the offload plan run once at start; the CLI is a sequential user of
the same runtime; third-party code is external.

Of the modelled components, left out are: the MTP branch among several requests
(`Mtp` has one stream, and what others do to the runtime is `Take`); draft rows in
slots and checkpoints; the tune file and the threads of the CPU-miss split; the
contents of tool-call blocks; the template for base models without ChatML
tokens; the parsing of a request's JSON.

## 7. Plan

Done, in this order: `FifoLock`, `TicketLock` and its proofs; `Runtime`,
`PrefixCache`, `Server`; `ExpertCache` and its proofs; `Mtp`, `ResidentDecode`,
`NgramTable`; `StreamFilter`, `ChatTemplate`, `Conversation`; the proofs about
`Mtp`, `Server` and `NgramTable`, about the contents of expert slots, quotas and
evictions, about `ResidentDecode` and about `StreamFilter`.

Next:

1. `SlotsHonest` with images.
2. The MTP branch in `Server`, with the draft rows in slots and checkpoints.
3. Pure parts as operators against a reference definition: M-RoPE positions,
   layer split and pool plan.
