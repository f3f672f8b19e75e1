---------------------------- MODULE StreamFilter ----------------------------
(***************************************************************************)
(* How a reply's text reaches the client (server/main.cpp): as a stream,   *)
(* piece by piece through emit_piece() and finish(), or as a whole through *)
(* split_reasoning() and parse_tool_calls().                               *)
(***************************************************************************)
EXTENDS Markup

CONSTANTS Pieces,      \* what one token decodes to
          MaxPieces,
          Formats      \* records [lfm2, reasoning]

ASSUME FilterAssumption ==
    /\ Pieces \subseteq Seq(STRING)
    /\ MaxPieces \in Nat
    /\ \A x \in Formats : x.lfm2 \in BOOLEAN /\ x.reasoning \in BOOLEAN

VARIABLES fmt,     \* cfmt.lfm2 and whether the prompt has opened <think>
          n,       \* pieces so far
          text,    \* State::text
          f,       \* the filter
          calls,   \* the tool calls sent
          fin      \* finished

fvars == <<fmt, n, text, f, calls, fin>>

(* hold and the two UTF-8 holdbacks; r and c: what was sent on the two     *)
(* channels; cut: some chunk has ended inside a character.                 *)
FInit ==
    /\ fmt \in Formats
    /\ n = 0 /\ text = <<>> /\ calls = <<>> /\ fin = FALSE
    /\ f = [phase |-> IF fmt.reasoning /\ ~fmt.lfm2 THEN "reason" ELSE "content",
            await |-> fmt.lfm2, opened |-> fmt.reasoning /\ ~fmt.lfm2,
            skip |-> FALSE, skip_r |-> FALSE,
            hold |-> <<>>, pend_r |-> <<>>, pend_c |-> <<>>, r |-> <<>>, c |-> <<>>,
            cut |-> FALSE]

-----------------------------------------------------------------------------
(* Holding back *)

(* Faulty variant of Emittable: a partial marker is not held back.         *)
EmittableAll(s, m) == Len(TrimEnd(s))

(* marker_holdback(): how much may go out, short of a suffix that may be   *)
(* the start of the marker and of the white space before it.               *)
Emittable(s, m) ==
    LET k == Max({i \in 0..(IF Len(s) < Len(m) THEN Len(s) ELSE Len(m) - 1) :
                    From(s, Len(s) - i + 1) = SubSeq(m, 1, i)})
    IN  Len(TrimEnd(SubSeq(s, 1, Len(s) - k)))

(* Faulty variant of Clip: every chunk is sent as it is.                   *)
ClipNot(s) == Len(s)

(* utf8_clip(): the length of s without an incomplete last character.      *)
Clip(s) ==
    LET l == Len(s)
    IN  IF l > 0 /\ s[l] = "L" THEN l - 1
        ELSE IF l > 1 /\ s[l] = "k" /\ s[l - 1] = "L" THEN l - 2
        ELSE l

-----------------------------------------------------------------------------
(* Parsing a whole text *)

(* A block parses: it has a <function=...>, or is a Python call list.      *)
Parses(block) == "f" \in Range(block)

(* Faulty variant of Scan: the reasoning is searched as well.              *)
ScanAll(s) == 1

(* The search for calls begins after the last </think>.                    *)
Scan(s) == IF Has(s, ThinkEnd) THEN Max(Places(s, ThinkEnd)) + 2 ELSE 1

(* The blocks from there on, a malformed one kept as text.  The calls are  *)
(* listed by the blocks that make them.                                    *)
parse_tool_calls(s) ==
    LET opens(p)  == {i \in Places(s, ToolOpen) : i >= p}
        closes(a) == {i \in Places(s, ToolEnd) : i >= a}
        part[p \in 1..(Len(s) + 1)] ==
            IF opens(p) = {} \/ closes(Min(opens(p))) = {}
            THEN [out |-> From(s, p), calls |-> <<>>]
            ELSE LET a == Min(opens(p))
                     b == Min(closes(a))
                     block == SubSeq(s, a + 2, b - 1)
                     later == part[b + 2]
                 IN  IF Parses(block)
                     THEN [out |-> SubSeq(s, p, a - 1) \o later.out, calls |-> <<block>> \o later.calls]
                     ELSE [out |-> SubSeq(s, p, b + 1) \o later.out, calls |-> later.calls]
    IN  [out |-> TrimEnd(SubSeq(s, 1, Scan(s) - 1) \o part[Scan(s)].out),
         calls |-> part[Scan(s)].calls]

(* The text before the first </think>, without a <think> that opens it,    *)
(* and the text after it.                                                  *)
split_reasoning(s) ==
    IF ~Has(s, ThinkEnd) THEN [think |-> <<>>, rest |-> s]
    ELSE LET p == Find(s, ThinkEnd)
             led == TrimLead(SubSeq(s, 1, p - 1))
             bare == IF IsPrefix(ThinkOpen, led) THEN From(led, 3) ELSE led
         IN  [think |-> TrimEnd(TrimLead(bare)), rest |-> TrimLead(After(s, ThinkEnd, p))]

(* The message of a request without a stream. *)
Message(s) ==
    LET sp == split_reasoning(s)
        pt == parse_tool_calls(sp.rest)
    IN  [reasoning_content |-> sp.think, content |-> pt.out, tool_calls |-> pt.calls]

-----------------------------------------------------------------------------
(* The stream *)

(* lfm2 opens <think> itself: wait until it is clear whether it does.      *)
Undecided(s) == LET head == TrimLead(s) IN head = <<>> \/ head = <<"<">>

Watched(g) ==
    LET head == TrimLead(g.hold)
    IN  IF ~g.await THEN g
        ELSE IF IsPrefix(ThinkOpen, head)
        THEN [g EXCEPT !.await = FALSE, !.hold = From(head, 3), !.phase = "reason",
                       !.skip_r = TRUE, !.opened = TRUE]
        ELSE [g EXCEPT !.await = FALSE]

(* One round of the loop; ro and co collect what it lets through.          *)
Route(x) ==
    LET g == x.g
        m == IF g.phase = "reason" THEN ThinkEnd ELSE ToolOpen
        out(s, h) == IF g.phase = "reason" THEN [x EXCEPT !.ro = @ \o s, !.g = h]
                     ELSE [x EXCEPT !.co = @ \o s, !.g = h]
        k == IF Has(g.hold, m) THEN Find(g.hold, m) ELSE Emittable(g.hold, m) + 1
        s == SubSeq(g.hold, 1, k - 1)
    IN  IF g.phase = "tool" THEN x
        ELSE IF Has(g.hold, m)
        THEN out(TrimEnd(s), [g EXCEPT !.hold = After(g.hold, m, k),
                               !.phase = IF g.phase = "reason" THEN "content" ELSE "tool",
                               !.skip = g.phase = "reason"])
        ELSE out(s, [g EXCEPT !.hold = From(g.hold, k)])

(* Newlines after a marker are dropped, incomplete characters kept back,   *)
(* and the chunks go out.                                                  *)
Sent(x) ==
    LET g == x.g
        ro == IF g.skip_r THEN TrimLead(x.ro) ELSE x.ro
        co == IF g.skip THEN TrimLead(x.co) ELSE x.co
        r == g.pend_r \o ro
        c == g.pend_c \o co
        ends(s, l) == l > 0 /\ (s[l] = "L" \/ (l > 1 /\ s[l] = "k" /\ s[l - 1] = "L"))
    IN  [g EXCEPT !.skip_r = @ /\ ro = <<>>, !.skip = @ /\ co = <<>>,
                  !.r = @ \o SubSeq(r, 1, Clip(r)), !.pend_r = From(r, Clip(r) + 1),
                  !.c = @ \o SubSeq(c, 1, Clip(c)), !.pend_c = From(c, Clip(c) + 1),
                  !.cut = @ \/ ends(r, Clip(r)) \/ ends(c, Clip(c))]

(* The loop ends after at most a round in each of two phases.              *)
emit_piece(piece) ==
    LET held == [f EXCEPT !.hold = @ \o piece]
    IN  IF held.await /\ Undecided(held.hold) THEN held
        ELSE Sent(Route(Route([g |-> Watched(held), ro |-> <<>>, co |-> <<>>])))

Emit ==
    /\ ~fin /\ n < MaxPieces
    /\ \E piece \in Pieces :
          /\ text' = text \o piece
          /\ f' = emit_piece(piece)
    /\ n' = n + 1
    /\ UNCHANGED <<fmt, calls, fin>>

(* Faulty variant of Flushed: the marker that withheld it is not restored. *)
FlushedBare ==
    LET tail == TrimEnd((IF f.phase = "reason" THEN f.pend_r ELSE f.pend_c) \o f.hold)
    IN  IF f.phase = "reason" THEN [f EXCEPT !.r = @ \o tail, !.hold = <<>>]
        ELSE [f EXCEPT !.c = @ \o tail, !.hold = <<>>]

(* What was withheld goes out when no call has come of it.                 *)
Flushed ==
    LET tail == TrimEnd((IF f.phase = "reason" THEN f.pend_r ELSE f.pend_c)
                        \o (IF f.phase = "tool" THEN ToolOpen ELSE <<>>) \o f.hold)
    IN  IF f.phase = "reason" THEN [f EXCEPT !.r = @ \o tail, !.hold = <<>>]
        ELSE [f EXCEPT !.c = @ \o tail, !.hold = <<>>]

(* finish(), when the reply ends or a limit cuts it: the calls are parsed  *)
(* from the whole text.                                                    *)
Finish ==
    /\ ~fin
    /\ fin' = TRUE
    /\ calls' = parse_tool_calls(text).calls
    /\ f' = IF calls' = <<>> /\ f.hold # <<>> THEN Flushed ELSE f
    /\ UNCHANGED <<fmt, n, text>>

FNext == Emit \/ Finish

FSpec == FInit /\ [][FNext]_fvars

-----------------------------------------------------------------------------
(* Without white space, which the stream drops before a marker it withholds *)
Bare(s) == FlattenSeq([i \in DOMAIN s |-> IF s[i] = "n" THEN <<>> ELSE <<s[i]>>])

(* Both sides take the same part of the reply for the reasoning: it was    *)
(* opened, once, and has ended, or neither.                                *)
SameBlock ==
    /\ f.opened = Has(text, ThinkEnd)
    /\ fmt.lfm2 \/ ~IsPrefix(ThinkOpen, TrimLead(text))

(* A stream makes the calls that the reply as a whole makes, although it   *)
(* searches the reply with its reasoning and the other without.            *)
CallsAgree == fin => calls = Message(text).tool_calls

(* What the end of a reply may take with it: an incomplete character, and  *)
(* a <tool_call> that nothing follows.                                     *)
Lost(pend) == {<<>>, pend} \cup IF IsSuffix(ToolOpen, text) THEN {pend \o ToolOpen} ELSE {}

(* Without calls the stream sends the reasoning and the content of the     *)
(* whole message, wherever the pieces cut the markers, and whatever was    *)
(* withheld on the way.                                                    *)
ReplyAgrees ==
    fin /\ calls = <<>> /\ SameBlock =>
        LET msg == Message(text)
            same(sent, pend, whole) == \E lost \in Lost(pend) : Bare(sent \o lost) = Bare(whole)
        IN  same(f.c, f.pend_c, msg.content) /\ same(f.r, f.pend_r, msg.reasoning_content)

(* With calls, what was sent as content is the start of the whole message's *)
(* content: nothing of a tool call shows, at any moment of the stream.     *)
NoToolText ==
    SameBlock /\ Message(text).tool_calls # <<>> => IsPrefix(Bare(f.c), Bare(Message(text).content))

(* Every character that begins in s goes on as far as s does. *)
WellFormed(s) == \A i \in DOMAIN s : \A j \in {i + 1, i + 2} \cap DOMAIN s : s[i] = "L" => s[j] = "k"

(* "Each SSE chunk must be valid UTF-8 on its own": no chunk of a text     *)
(* made of whole characters ends inside one, on either channel.            *)
WholeCharacters == WellFormed(text) => ~f.cut

=============================================================================
