------------------------------- MODULE Server -------------------------------
(***************************************************************************)
(* The chat-completion requests of server/main.cpp sharing one runtime:    *)
(* the lock (FifoLock, which TicketLock implements), the prefix cache and  *)
(* the runtime (PrefixCache, Runtime), and the handler of every request,   *)
(* streaming (plain decode) or not.                                        *)
(*                                                                         *)
(* A step is what a handler does between two points where another thread   *)
(* can act on what it shares.  While a request holds the lock that is only *)
(* the code that touches the runtime without it: the catch block of a      *)
(* non-streaming request (Unwind) and the report of the finish reason.     *)
(* Prompts are small sequences of tokens; the model's choice of the next   *)
(* token is any of GenToks or the end of the reply.                        *)
(***************************************************************************)
EXTENDS PrefixCache, FifoLock

CONSTANTS Body,         \* per request: prompt, spans, max, stream, gen
          GenToks,      \* tokens the model may generate
          Chunk,        \* pf_chunk
          TimeSlice,    \* --time-slice
          HeartbeatOn,  \* QWEN_HEARTBEAT
          Ssd,          \* --cache-slots-dir
          MaxFaults     \* bound: I/O failures, exceptions and crashes

ASSUME ServerAssumption ==
    /\ Chunk \in Nat \ {0}
    /\ TimeSlice \in Nat
    /\ MaxFaults \in Nat
    /\ HeartbeatOn \in BOOLEAN /\ Ssd \in BOOLEAN
    /\ GenToks \subseteq DOMAIN TextOf
    /\ 0 \notin Threads
    /\ \A r \in Threads :
         /\ Body[r].prompt \in Seq(DOMAIN TextOf) \ {<<>>}
         /\ Body[r].spans \in Seq(Range(Body[r].spans))
         /\ Body[r].max \in Nat /\ Body[r].gen \in Int /\ Body[r].stream \in BOOLEAN

VARIABLES cache,   \* the prefix cache with the live state
          st,      \* per request: struct State, or the handler's locals
          faults   \* failures so far

lockvars == <<owner, waiters, before>>
svars == <<lockvars, cache, st, faults>>

(* conv is the conversation so far, prompt and reply, that the runtime     *)
(* state must represent; cut tells whether the reply ended at the budget   *)
(* or at the context limit.                                                *)
NewState(r) ==
    [pc |-> "idle", started |-> FALSE, tail |-> <<>>,
     conv |-> Cells(Body[r].prompt, Body[r].spans, 0),
     my_toks |-> <<>>, my_imgs |-> <<>>, generated |-> 0, slice |-> 0,
     cut |-> FALSE, reason |-> ""]

(* A request that is over keeps only how it ended. *)
Over(r, cut, reason) ==
    [NewState(r) EXCEPT !.pc = "done", !.started = TRUE, !.conv = <<>>,
                        !.cut = cut, !.reason = reason]

SInit ==
    /\ FInit
    /\ cache = InitCache
    /\ st = [r \in Threads |-> NewState(r)]
    /\ faults = 0

Streaming(r) == Body[r].stream
HadImages(r) == Body[r].spans # <<>>
At(r, pc) == st[r].pc = pc
Holds(r) == owner = r
Sid(r) == IF Streaming(r) THEN r ELSE 0

(* Can the runtime be handed to a waiting request? *)
yieldable == waiters # {} /\ NSlots > 0

(* The outcomes of the slot file operations of one call. *)
IO == IF Ssd /\ faults < MaxFaults THEN [save : BOOLEAN, load : BOOLEAN]
      ELSE {[save |-> TRUE, load |-> TRUE]}
Count(io) == faults' = IF io.save /\ io.load THEN faults ELSE faults + 1

-----------------------------------------------------------------------------
(* Arrival and the queue *)

(* The prompt must leave room to generate: status 400 otherwise.           *)
Refuse(r) ==
    /\ At(r, "idle")
    /\ Len(Body[r].prompt) >= NCtx
    /\ st' = [st EXCEPT ![r] = Over(r, FALSE, "")]
    /\ UNCHANGED <<lockvars, cache, faults>>

(* The handler starts to wait for the lock, or the content provider is     *)
(* called again after a yield or a heartbeat.                              *)
Queue(r) ==
    /\ \/ At(r, "idle") /\ Len(Body[r].prompt) < NCtx
       \/ At(r, "paused")
    /\ Enter(r)
    /\ st' = [st EXCEPT ![r].pc = "wait"]
    /\ UNCHANGED <<cache, faults>>

(* lock_for times out; the heartbeat is written and the wait starts over.  *)
Heartbeat(r) ==
    /\ HeartbeatOn /\ Streaming(r)
    /\ At(r, "wait")
    /\ GiveUp(r)
    /\ st' = [st EXCEPT ![r].pc = "paused"]
    /\ UNCHANGED <<cache, faults>>

(* lock() or lock_for() returned: at once, or now that the turn has come.  *)
TakeLock(r) == (Holds(r) /\ UNCHANGED lockvars) \/ Grant(r)

(* The same, and the lock is released in the same step.                    *)
PassLock(r) ==
    \/ Leave(r)
    \/ /\ owner = NoThread /\ First(r)
       /\ waiters' = waiters \ {r} /\ before' = Without(r)
       /\ UNCHANGED owner

-----------------------------------------------------------------------------
(* Attaching to the runtime *)

Attached(r, p) ==
    /\ cache' = p.c
    /\ st' = [st EXCEPT ![r].pc = "prefill", ![r].started = TRUE, ![r].slice = 0,
                        ![r].tail = Cells(Body[r].prompt, Body[r].spans, p.n)]

(* First call under the lock: prepare_prompt.                              *)
Start(r) ==
    /\ At(r, "wait") /\ ~st[r].started
    /\ TakeLock(r)
    /\ \E io \in IO :
         /\ Attached(r, prepare_prompt(cache, Body[r].prompt, Body[r].spans, Sid(r), io))
         /\ Count(io)

Reattached(r, e) ==
    /\ cache' = IF e.reprefill THEN [e.c EXCEPT !.rt = Decode(@, st[r].my_toks)] ELSE e.c
    /\ st' = [st EXCEPT ![r].pc = IF ~e.ok THEN "lost"
                                  ELSE IF st[r].tail # <<>> THEN "prefill"
                                  ELSE "gen",
                        ![r].my_toks = IF e.ok THEN <<>> ELSE @,
                        ![r].my_imgs = <<>>,
                        ![r].slice = 0]

(* Later calls: ensure_state, and the re-prefill it may ask for.           *)
Resume(r) ==
    /\ At(r, "wait") /\ st[r].started
    /\ TakeLock(r)
    /\ \E io \in IO :
         /\ Reattached(r, ensure_state(cache, Sid(r), st[r].my_toks, st[r].my_imgs,
                                       HadImages(r), io))
         /\ Count(io)

-----------------------------------------------------------------------------
(* Working on the runtime *)

(* The state of request r when it yields: my_toks, my_imgs.                *)
Pause(s, c) == [s EXCEPT !.pc = "paused", !.my_toks = c.rt.toks, !.my_imgs = c.imgs]

(* Distance from the next prompt token to the generation prompt.           *)
GenRel(r) == Body[r].gen - (Len(Body[r].prompt) - Len(st[r].tail))

(* How many tokens the next prefill call takes: a streaming request works  *)
(* in chunks, both split at the generation prompt (a non-streaming one     *)
(* only without images).                                                   *)
PrefillLen(r) ==
    LET t == st[r].tail
        g == GenRel(r)
        n == IF Streaming(r) /\ Chunk < Len(t) THEN Chunk ELSE Len(t)
        split == Streaming(r) \/ \A i \in DOMAIN t : t[i].img = NoImg
    IN  IF split /\ 0 < g /\ g < n THEN g ELSE n

(* A stream sets the overrides of every chunk, also when there are none; a *)
(* request without a stream only sets the ones it has.                     *)
WithOverrides(r, rt, cells) ==
    IF Streaming(r) \/ \E i \in DOMAIN cells : cells[i].img # NoImg
    THEN set_embd_overrides(rt, cells) ELSE rt

Prefill(r) ==
    LET n    == PrefillLen(r)
        now  == Prefix(st[r].tail, n)
        rest == SubSeq(st[r].tail, n + 1, Len(st[r].tail))
        c    == [cache EXCEPT !.rt = Snapshot(Decode(WithOverrides(r, @, now), Toks(now)))]
    IN  /\ Holds(r) /\ At(r, "prefill")
        /\ ~Overflows(cache.rt, now)
        /\ cache' = c
        /\ IF Streaming(r) /\ rest # <<>> /\ yieldable
           THEN /\ st' = [st EXCEPT ![r] = Pause([@ EXCEPT !.tail = rest], c)]
                /\ Leave(r)
           ELSE /\ st' = [st EXCEPT ![r].tail = rest,
                                    ![r].pc = IF rest = <<>> THEN "gen" ELSE "prefill"]
                /\ UNCHANGED lockvars
        /\ UNCHANGED faults

(* Faulty variant of AtLimit: the context limit is forgotten.              *)
AtBudget(r) == st[r].generated >= Body[r].max

AtLimit(r) == st[r].generated >= Body[r].max \/ n_past(cache.rt) + 1 >= NCtx

(* A token is sampled, sent and decoded; at the end of its slice a         *)
(* streaming request yields if somebody waits.                             *)
Generate(r) ==
    /\ Holds(r) /\ At(r, "gen")
    /\ ~AtLimit(r)
    /\ \E t \in GenToks :
         LET c == [cache EXCEPT !.rt = Decode(@, <<t>>)]
             used == IF st[r].slice < TimeSlice THEN st[r].slice + 1 ELSE TimeSlice
             s == [st[r] EXCEPT !.conv = Append(@, Text(t)), !.generated = @ + 1,
                                !.slice = used]
         IN  /\ cache' = c
             /\ IF Streaming(r) /\ TimeSlice > 0 /\ used >= TimeSlice /\ yieldable
                THEN st' = [st EXCEPT ![r] = Pause(s, c)] /\ Leave(r)
                ELSE st' = [st EXCEPT ![r] = s] /\ UNCHANGED lockvars
    /\ UNCHANGED faults

(* Faulty variant of Stop: the lock stays with a request that is over.     *)
StopKeepsLock(r) ==
    /\ Holds(r) /\ At(r, "gen")
    /\ st' = [st EXCEPT ![r].pc = "ended", ![r].cut = AtLimit(r)]
    /\ UNCHANGED <<lockvars, cache, faults>>

(* The reply ends: stop token, budget or context limit.  finish() and the  *)
(* Guard release the lock before the reply is reported.                    *)
Stop(r) ==
    /\ Holds(r) /\ At(r, "gen")
    /\ Leave(r)
    /\ st' = [st EXCEPT ![r].pc = "ended", ![r].cut = AtLimit(r)]
    /\ UNCHANGED <<cache, faults>>

(* The parked state of an image request is gone: finish() at once.         *)
Truncate(r) ==
    /\ Holds(r) /\ At(r, "lost")
    /\ Leave(r)
    /\ st' = [st EXCEPT ![r].pc = "ended",
                        ![r].cut = \/ st[r].generated >= Body[r].max
                                   \/ Len(st[r].my_toks) + 1 >= NCtx]
    /\ UNCHANGED <<cache, faults>>

(* The final chunk or the response body, with the finish reason.           *)
Report(r) ==
    /\ At(r, "ended")
    /\ st' = [st EXCEPT ![r] = Over(r, st[r].cut, IF AtLimit(r) THEN "length" ELSE "stop")]
    /\ UNCHANGED <<lockvars, cache, faults>>

-----------------------------------------------------------------------------
(* Failures *)

(* The client of a stream goes away: noticed between chunks and tokens, by *)
(* ~State, or by a heartbeat that cannot be written.                       *)
Disconnect(r) ==
    /\ Streaming(r)
    /\ \/ Holds(r) /\ st[r].pc \in {"prefill", "gen"} /\ Leave(r)
       \/ At(r, "paused") /\ UNCHANGED lockvars
    /\ st' = [st EXCEPT ![r] = Over(r, FALSE, "")]
    /\ UNCHANGED <<cache, faults>>

(* decode() throws: at a context overflow before it does anything, or for  *)
(* a reason of its own with the recurrent state half advanced.  A token    *)
(* that was being decoded has been sent and counted.                       *)
Throws(r) ==
    /\ Holds(r)
    /\ At(r, "prefill") \/ (At(r, "gen") /\ ~AtLimit(r))
    /\ \/ /\ At(r, "prefill")
          /\ Overflows(cache.rt, Prefix(st[r].tail, PrefillLen(r)))
          /\ UNCHANGED faults
       \/ /\ faults < MaxFaults
          /\ faults' = faults + 1

Failed(r, pc) ==
    LET sent == st[r].generated + (IF At(r, "gen") THEN 1 ELSE 0)
    IN  [st[r] EXCEPT !.pc = pc, !.generated = sent, !.cut = sent >= Body[r].max]

(* What the exception leaves: the overrides of the batch, unless the graph *)
(* got as far as taking them; and, unless the batch was refused for its    *)
(* size, possibly a recurrent state that is half advanced.                 *)
HalfDone(rt) ==
    IF Recurrent THEN [rt EXCEPT !.gdn = Append(@, [tok |-> "half", img |-> NoImg])] ELSE rt

Broken(r) ==
    LET now == Prefix(st[r].tail, PrefillLen(r))
        rt == IF At(r, "prefill") THEN WithOverrides(r, cache.rt, now) ELSE cache.rt
    IN  IF faults' = faults THEN {rt} ELSE {rt, HalfDone([rt EXCEPT !.ovr = <<>>])}

(* The catch block of a stream resets the runtime, then finishes.          *)
Dropped(c, rt) == [c EXCEPT !.rt = Reset(rt), !.owner = 0]

StreamError(r) ==
    /\ Streaming(r)
    /\ Throws(r)
    /\ Leave(r)
    /\ \E rt \in Broken(r) : cache' = Dropped(cache, rt)
    /\ st' = [st EXCEPT ![r] = Failed(r, "ended")]

(* The same when the decode throws that rebuilds the state of a stream     *)
(* that resumes.                                                           *)
ResumeError(r) ==
    /\ At(r, "wait") /\ st[r].started
    /\ PassLock(r)
    /\ \E io \in IO :
         LET e == ensure_state(cache, Sid(r), st[r].my_toks, st[r].my_imgs, HadImages(r), io)
         IN  /\ e.reprefill
             /\ faults' = faults + (IF io.save /\ io.load THEN 1 ELSE 2)
             /\ faults' <= MaxFaults
             /\ \E rt \in {e.c.rt, HalfDone([e.c.rt EXCEPT !.ovr = <<>>])} :
                    cache' = Dropped(e.c, rt)
    /\ st' = [st EXCEPT ![r] = Failed(r, "ended")]

(* The Guard of a non-streaming request releases the lock as the exception *)
(* leaves the try block ...                                                *)
Error(r) ==
    /\ ~Streaming(r)
    /\ Throws(r)
    /\ Leave(r)
    /\ \E rt \in Broken(r) : cache' = [cache EXCEPT !.rt = rt]
    /\ st' = [st EXCEPT ![r] = Failed(r, "unwound")]

(* ... and the catch block resets the runtime afterwards.                  *)
Unwind(r) ==
    /\ At(r, "unwound")
    /\ cache' = [cache EXCEPT !.rt = Reset(@)]
    /\ st' = [st EXCEPT ![r].pc = "ended"]
    /\ UNCHANGED <<lockvars, faults>>

(* The process is killed and started again: the slot files survive, except *)
(* that the one a request is writing as it attaches may be cut short (the  *)
(* header, tokens and spans are written before the state).                 *)
Torn == [toks |-> cache.rt.toks, imgs |-> cache.imgs, blob |-> NoBlob]

Attaching == \E r \in Threads : At(r, "wait") /\ (Holds(r) \/ (owner = NoThread /\ First(r)))

Writing == IF Attaching /\ cache.rt.toks # <<>>
           THEN {s \in {SaveTarget(cache, a) : a \in Slots \cup {0}} : s # 0 /\ ~Unchanged(cache, s)}
           ELSE {}

Crash ==
    /\ Ssd /\ faults < MaxFaults
    /\ faults' = faults + 1
    /\ \/ cache' = [InitCache EXCEPT !.slots = cache.slots]
       \/ \E s \in Writing, left \in {EmptySlot, Torn} :
            cache' = [InitCache EXCEPT !.slots = [cache.slots EXCEPT ![s] = left]]
    /\ st' = [r \in Threads |-> IF At(r, "idle") THEN st[r] ELSE Over(r, st[r].cut, st[r].reason)]
    /\ owner' = NoThread /\ waiters' = {} /\ before' = {}

-----------------------------------------------------------------------------
Work(r) == Start(r) \/ Resume(r) \/ Prefill(r) \/ Generate(r) \/ Stop(r)
           \/ Truncate(r) \/ Unwind(r) \/ Report(r)

Environment(r) == Refuse(r) \/ Heartbeat(r) \/ Disconnect(r) \/ StreamError(r) \/ ResumeError(r)
                  \/ Error(r)

SNext == Crash \/ \E r \in Threads : Queue(r) \/ Work(r) \/ Environment(r)

SSpec == SInit /\ [][SNext]_svars

(* A handler that can go on does, and a batch that does not fit throws;    *)
(* whether clients arrive, leave, or work fails otherwise, is up to the    *)
(* environment.  The model may end a reply at any token, or go on to the   *)
(* limit.                                                                  *)
SFairness ==
    \A r \in Threads :
        /\ WF_svars(Work(r))
        /\ WF_svars(UNCHANGED faults /\ (StreamError(r) \/ Error(r)))
        /\ WF_svars(At(r, "paused") /\ Queue(r))

SFairSpec == SSpec /\ SFairness

-----------------------------------------------------------------------------
STypeOK ==
    /\ owner \in Threads \cup {NoThread}
    /\ waiters \subseteq Threads
    /\ before \subseteq waiters \X waiters
    /\ \A r \in Threads :
         st[r].pc \in {"idle", "wait", "prefill", "gen", "lost", "paused",
                       "ended", "unwound", "done"}
    /\ n_past(cache.rt) <= NCtx
    /\ cache.origin \in 0..NSlots
    /\ cache.owner \in Threads \cup {0}
    /\ faults \in 0..MaxFaults

(* What a cell contributes to the model's input. *)
Reads(cells) ==
    FlattenSeq([i \in DOMAIN cells |->
        IF cells[i].img # NoImg THEN <<cells[i].img>> ELSE TextOf[cells[i].tok]])

(* Every request computes on its own conversation: whatever was reused,    *)
(* rewound, parked, restored or prefilled again in between, the live state *)
(* and the rest of its prompt are its own prompt and reply, as text and    *)
(* images, and the recurrent state agrees with the attention rows.         *)
OwnConversation ==
    \A r \in Threads : Holds(r) /\ st[r].pc \in {"prefill", "gen"} =>
        /\ Reads(cache.rt.rows \o st[r].tail) = Reads(st[r].conv)
        /\ Recurrent => cache.rt.gdn = cache.rt.rows

(* The images the cells were computed with, and those a span list names.   *)
ImgsIn(cells) ==
    FlattenSeq([i \in DOMAIN cells |-> IF cells[i].img = NoImg THEN <<>> ELSE <<cells[i].img>>])
ImgsOf(spans) == FlattenSeq([i \in DOMAIN spans |-> [j \in 1..spans[i].count |-> spans[i].hash]])

Honest(toks, imgs, b) ==
    /\ b.toks = toks
    /\ Toks(b.rows) = toks
    /\ Recurrent => b.gdn = b.rows
    /\ IsPrefix(ImgsIn(b.rows), ImgsOf(imgs))

(* A slot that can be loaded holds the state its key (tokens and image     *)
(* spans) promises, through evictions, failed writes and restarts.         *)
SlotsHonest ==
    \A s \in Slots : cache.slots[s].blob # NoBlob =>
        Honest(cache.slots[s].toks, cache.slots[s].imgs, cache.slots[s].blob)

(* Every prompt checkpoint is a prefix of the live lineage.                *)
CheckpointsOfLineage ==
    \A i \in DOMAIN cache.rt.pk :
        LET c == cache.rt.pk[i]
        IN  /\ c.pos <= n_past(cache.rt)
            /\ c.gdn = Prefix(cache.rt.rows, c.pos)
            /\ \A j \in 1..(i - 1) : cache.rt.pk[j].pos < c.pos

(* finish_reason is "length" exactly when the reply was cut by the budget  *)
(* or by the context limit.                                                *)
FinishReason == \A r \in Threads : st[r].reason # "" => (st[r].reason = "length" <=> st[r].cut)

(* The live state was cut back in place: with checkpoints, or, without     *)
(* recurrent layers, to a part of itself.                                  *)
CutBack ==
    IF Recurrent THEN cache'.rt.pk # <<>>
    ELSE cache'.rt.rows # <<>> /\ IsPrefix(cache'.rt.rows, cache.rt.rows)

(* On a switch to another conversation the live state is parked: a request *)
(* that attaches to a slot or to an empty runtime, and neither continues   *)
(* the live state nor rewinds it, leaves it in a slot.                     *)
ParkedOnSwitch ==
    [][\A r \in Threads :
         /\ At(r, "wait") /\ st'[r].pc \in {"prefill", "gen"}
         /\ ~CutBack
         /\ ~IsPrefix(cache.rt.rows, cache'.rt.rows)
         => \E s \in Slots : cache'.slots[s].blob = SaveState(cache.rt)]_svars

(* Every request that starts to wait for the runtime is answered, however  *)
(* the slices interleave and whatever parked state is evicted.             *)
Answered == \A r \in Threads : st[r].pc = "wait" ~> st[r].pc = "done"

=============================================================================
