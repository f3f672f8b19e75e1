---------------------------- MODULE ChatTemplate ----------------------------
(***************************************************************************)
(* The prompt of a conversation (core/chat.cpp): build_qwen_prompt and     *)
(* build_lfm2_prompt, as texts.                                            *)
(*                                                                         *)
(* A message is a record [role, content, reasoning, has, calls]; has says  *)
(* that reasoning_content was given, calls are blocks that parse.  The     *)
(* options are [lfm2, tools, preserve, reasoning].  "S" and "E" are        *)
(* <|im_start|> and <|im_end|>, "H" the list of tools, "i" an image, and   *)
(* "R", "Q" the tags around a tool response.                               *)
(***************************************************************************)
EXTENDS Markup

EndTurn == <<"E", "n">>

Begin(role) == <<"S", role, "n">>

HasSystem(msgs) == msgs # <<>> /\ msgs[1].role = "system"

(* What follows the system message. *)
Body(msgs) == IF HasSystem(msgs) THEN 2..Len(msgs) ELSE 1..Len(msgs)

HasImage(m) == "i" \in Range(m.content)

(* flat_text(): the text without the images. *)
FlatText(m) == SelectSeq(m.content, LAMBDA x : x # "i")

(* The messages that neither template throws on. *)
Renders(msgs, opts) ==
    \A i \in DOMAIN msgs :
        /\ msgs[i].role = "system" => i = 1
        /\ HasImage(msgs[i]) => msgs[i].role \in {"user", "tool"} /\ ~opts.lfm2

(* add_vision_id: images are numbered when there are several. *)
VisionId(msgs) ==
    Len(SelectSeq(FlattenSeq([i \in DOMAIN msgs |-> msgs[i].content]), LAMBDA x : x = "i")) > 1

(* emit_content(): an image is framed, and preceded by its number.         *)
Content(m, numbered) ==
    LET c == Trim(m.content)
    IN  FlattenSeq([i \in DOMAIN c |->
            IF c[i] # "i" THEN <<c[i]>>
            ELSE (IF numbered THEN <<"Picture">> ELSE <<>>) \o <<"V", "i", "W">>])

(* The system message, after the tools where there are any.                *)
Header(msgs, opts) ==
    LET c == IF HasSystem(msgs) THEN Trim(msgs[1].content) ELSE <<>>
    IN  IF opts.tools
        THEN Begin("system") \o <<"H">> \o (IF c = <<>> THEN <<>> ELSE <<"n", "n">> \o c) \o EndTurn
        ELSE IF HasSystem(msgs) THEN Begin("system") \o c \o EndTurn
        ELSE <<>>

(* A tool response that the client sends as a user message is no query.    *)
IsQuery(m) ==
    LET c == Trim(FlatText(m))
    IN  m.role = "user" /\ ~(c # <<>> /\ Head(c) = "R" /\ Last(c) = "Q")

last_query_index(msgs) ==
    LET queries == {i \in DOMAIN msgs : IsQuery(msgs[i])}
    IN  IF queries = {} THEN Len(msgs) ELSE Max(queries)

(* Reasoning and content of an assistant message: given apart, or found in *)
(* a content that still has its markers.                                   *)
Parts(m) ==
    LET c == Trim(m.content)
    IN  IF m.has THEN [think |-> Trim(m.reasoning), content |-> c]
        ELSE IF ~Has(c, ThinkEnd) THEN [think |-> <<>>, content |-> c]
        ELSE LET head == SubSeq(c, 1, Find(c, ThinkEnd) - 1)
                 open == Places(head, ThinkOpen)
             IN  [think |-> Trim(IF open = {} THEN head ELSE From(head, Max(open) + 2)),
                  content |-> TrimLead(From(c, Max(Places(c, ThinkEnd)) + 2))]

(* Faulty variant of KeepThink: older turns lose their reasoning.          *)
KeepThinkRecent(msgs, i, opts) == i > last_query_index(msgs)

(* keep_think: always after the last query, before it what is not empty.   *)
KeepThink(msgs, i, opts) ==
    i > last_query_index(msgs) \/ (opts.preserve /\ Parts(msgs[i]).think # <<>>)

(* Faulty variant of CallsText: no blank line after the content.           *)
CallsTextTight(content, calls) ==
    FlattenSeq([k \in DOMAIN calls |->
        (IF k > 1 THEN <<"n">> ELSE <<>>) \o ToolOpen \o <<"n", "f", "n">> \o ToolEnd])

(* The tool calls of a turn, after its content.                            *)
CallsText(content, calls) ==
    FlattenSeq([k \in DOMAIN calls |->
        (IF k > 1 THEN <<"n">> ELSE IF content = <<>> THEN <<>> ELSE <<"n", "n">>)
        \o ToolOpen \o <<"n", "f", "n">> \o ToolEnd])

Assistant(msgs, i, opts) ==
    LET p == Parts(msgs[i])
    IN  Begin("assistant")
        \o (IF KeepThink(msgs, i, opts)
            THEN ThinkOpen \o <<"n">> \o p.think \o <<"n">> \o ThinkEnd \o <<"n", "n">> ELSE <<>>)
        \o p.content \o CallsText(p.content, msgs[i].calls) \o EndTurn

(* The tool results in a row are one user turn.                            *)
ToolTurn(msgs, i) ==
    LET tool(j) == j \in Body(msgs) /\ msgs[j].role = "tool"
    IN  (IF tool(i - 1) THEN <<>> ELSE <<"S", "user">>)
        \o <<"n", "R", "n">> \o Trim(FlatText(msgs[i])) \o <<"n", "Q">>
        \o (IF tool(i + 1) THEN <<>> ELSE EndTurn)

QwenTurn(msgs, i, opts) ==
    CASE msgs[i].role = "user" -> Begin("user") \o Content(msgs[i], VisionId(msgs)) \o EndTurn
      [] msgs[i].role = "assistant" -> Assistant(msgs, i, opts)
      [] msgs[i].role = "tool" -> ToolTurn(msgs, i)

(* The generation prompt: an opened <think>, or an empty one.              *)
Generation(opts) ==
    Begin("assistant") \o ThinkOpen
    \o (IF opts.reasoning THEN <<"n">> ELSE <<"n", "n">> \o ThinkEnd \o <<"n", "n">>)

-----------------------------------------------------------------------------
(* The lfm2 template: nothing is trimmed, the calls are one list, and the  *)
(* model opens <think> itself.                                             *)

Lfm2Header(msgs, opts) ==
    LET c == IF HasSystem(msgs) THEN msgs[1].content ELSE <<>>
        all == c \o (IF opts.tools THEN (IF c = <<>> THEN <<>> ELSE <<"n">>) \o <<"H">> ELSE <<>>)
    IN  <<"B">> \o IF all = <<>> THEN <<>> ELSE Begin("system") \o all \o EndTurn

Lfm2Assistant(msgs, i, opts) ==
    LET m == msgs[i]
        recent == opts.preserve \/ ~\E j \in (i + 1)..Len(msgs) : msgs[j].role = "user"
    IN  (IF m.has /\ recent THEN ThinkOpen \o m.reasoning \o ThinkEnd ELSE <<>>)
        \o (IF recent \/ ~Has(m.content, ThinkEnd) THEN m.content
            ELSE Trim(From(m.content, Max(Places(m.content, ThinkEnd)) + 2)))
        \o (IF m.calls = <<>> THEN <<>>
            ELSE ToolOpen \o [k \in DOMAIN m.calls |-> "f"] \o ToolEnd)

Lfm2Turn(msgs, i, opts) ==
    Begin(msgs[i].role)
    \o (IF msgs[i].role = "assistant" THEN Lfm2Assistant(msgs, i, opts) ELSE msgs[i].content)
    \o EndTurn

-----------------------------------------------------------------------------
(* The prompt up to gen_prompt_begin, and as a whole. *)

History(msgs, opts) ==
    LET turn(i) == IF i \notin Body(msgs) THEN <<>>
                   ELSE IF opts.lfm2 THEN Lfm2Turn(msgs, i, opts) ELSE QwenTurn(msgs, i, opts)
    IN  (IF opts.lfm2 THEN Lfm2Header(msgs, opts) ELSE Header(msgs, opts))
        \o FlattenSeq([i \in DOMAIN msgs |-> turn(i)])

build_qwen_prompt(msgs, opts) ==
    History(msgs, opts) \o (IF opts.lfm2 THEN Begin("assistant") ELSE Generation(opts))

=============================================================================
