---------------------------- MODULE Conversation ----------------------------
(***************************************************************************)
(* A turn of a conversation and the request after it: the reply to a       *)
(* prompt is streamed, the client puts what it has received into the       *)
(* history, with or without the reasoning, and asks again.  The prefix     *)
(* cache compares the text of the new prompt with that of the old prompt   *)
(* and the reply.                                                          *)
(***************************************************************************)
EXTENDS StreamFilter, ChatTemplate

CONSTANTS Histories,   \* what went before the reply: [msgs, tools]
          FollowUps,   \* the messages a client may go on with
          MaxAsked     \* the longest reply, in pieces, that is followed up

VARIABLE ask           \* the next request: the history, echoed reasoning, new messages

convars == <<fvars, ask>>

NoAsk == [h |-> [msgs |-> <<>>, tools |-> FALSE], kept |-> FALSE, more |-> <<>>]

(* The options the server renders with. *)
Opts(h) == [lfm2 |-> fmt.lfm2, tools |-> h.tools, preserve |-> TRUE, reasoning |-> fmt.reasoning]

(* The calls one by one: lfm2's blocks are lists of calls, and the others  *)
(* make one call each.                                                     *)
Listed == IF fmt.lfm2 THEN SelectSeq(FlattenSeq(calls), LAMBDA x : x = "f") ELSE calls

(* The assistant message of a client that was sent f.r, f.c and the calls. *)
Echo(kept) ==
    [role |-> "assistant", content |-> f.c, reasoning |-> IF kept THEN f.r ELSE <<>>,
     has |-> kept, calls |-> Listed]

CInit == FInit /\ ask = NoAsk

Reply == FNext /\ UNCHANGED ask

(* A request with the history, the reply and something new.                *)
Ask ==
    /\ fin /\ ask = NoAsk /\ n <= MaxAsked
    /\ \E h \in Histories, kept \in {FALSE, f.r # <<>>}, more \in FollowUps :
          /\ Renders(h.msgs, Opts(h)) /\ Renders(more, Opts(h))
          /\ ask' = [h |-> h, kept |-> kept, more |-> more]
    /\ UNCHANGED fvars

CNext == Reply \/ Ask

CSpec == CInit /\ [][CNext]_convars

-----------------------------------------------------------------------------
Asked == ask # NoAsk

Answered == ask.h.msgs \o <<Echo(ask.kept)>>

Second == build_qwen_prompt(Answered \o ask.more, Opts(ask.h))

(* A second image gives the first one a number.                            *)
SamePictures == VisionId(ask.h.msgs \o ask.more) = VisionId(ask.h.msgs)

(* A new query makes older turns of those after the last one, which lose   *)
(* their empty <think> blocks: none of them has one.                       *)
NoEmptyThink(msgs) ==
    (\E i \in DOMAIN ask.more : IsQuery(ask.more[i])) =>
        \A i \in DOMAIN msgs : i > last_query_index(msgs) /\ msgs[i].role = "assistant" =>
            Parts(msgs[i]).think # <<>>

(* "A future request that rewrites the assistant turn re-tokenizes         *)
(* identically up to exactly this point": up to the generation prompt, the *)
(* next prompt reads as this one did, whatever the reply was, and whether  *)
(* or not its reasoning comes back.                                        *)
GenBoundary ==
    Asked /\ (fmt.lfm2 \/ (SamePictures /\ NoEmptyThink(ask.h.msgs))) =>
        IsPrefix(History(ask.h.msgs, Opts(ask.h)), Second)

(* A reply as the template itself would write it.                          *)
Plain(s) == s = Trim(s) /\ Clip(s) = Len(s) /\ "<" \notin Range(s)

Lfm2Form(r, c, k) ==
    (IF r = <<>> THEN <<>> ELSE ThinkOpen \o r \o ThinkEnd) \o c
    \o (IF k = 0 THEN <<>> ELSE ToolOpen \o [j \in 1..k |-> "f"] \o ToolEnd)

QwenForm(r, c, k) ==
    (IF fmt.reasoning THEN r \o <<"n">> \o ThinkEnd \o <<"n", "n">> ELSE <<>>) \o c
    \o FlattenSeq([j \in 1..k |-> (IF j > 1 THEN <<"n">> ELSE IF c = <<>> THEN <<>> ELSE <<"n", "n">>)
                                  \o ToolOpen \o <<"n", "f", "n">> \o ToolEnd])

InForm ==
    LET plain == {s \in {SubSeq(text, i, j) : i \in 1..(Len(text) + 1), j \in 0..Len(text)} : Plain(s)}
    IN  \E r \in plain, c \in plain, k \in 0..2 :
            text = IF fmt.lfm2 THEN Lfm2Form(r, c, k) ELSE QwenForm(r, c, k)

(* "The re-rendered history tokenizes identically to what was generated":  *)
(* a reply in the template's form that was cut into pieces, filtered,      *)
(* parsed and echoed with its reasoning comes back as the same text after  *)
(* the same prompt, so that the cached state is continued.                 *)
EchoContinues ==
    Asked /\ (ask.kept \/ f.r = <<>>) /\ InForm /\ (fmt.lfm2 \/ (SamePictures /\ NoEmptyThink(Answered))) =>
        IsPrefix(build_qwen_prompt(ask.h.msgs, Opts(ask.h)) \o text, Second)

=============================================================================
