------------------------------ MODULE MCServer ------------------------------
(***************************************************************************)
(* Small instances of Server: the requests of each scenario, over an       *)
(* alphabet of tokens in which <<1, 2>> and <<3>> have the same text.      *)
(***************************************************************************)
EXTENDS Server

MCTextOf == <<<<"a">>, <<"b">>, <<"a", "b">>, <<"i">>>>

Req(prompt, gen, max) ==
    [prompt |-> prompt, spans |-> <<>>, max |-> max, stream |-> TRUE, gen |-> gen]
Plain(q) == [q EXCEPT !.stream = FALSE]
Image(q, h) == [q EXCEPT !.spans = <<[first |-> 1, count |-> 1, hash |-> h]>>]

(* Two turns of one conversation, the second one tokenized differently     *)
(* from the first one's prompt and reply, so that it does not always fit   *)
(* behind them, and another conversation.                                  *)
TextBody == <<Req(<<1, 1, 2>>, 1, 2), Req(<<1, 3, 3, 1, 1>>, 1, 3), Req(<<2, 1>>, 1, 1)>>

SsdBody == <<Req(<<1, 2>>, 1, 1), Req(<<2, 1>>, -1, 1), Req(<<1, 2, 1, 2>>, 3, 1)>>

(* Two turns of a conversation about one image, and the second turn's text *)
(* about another image.                                                    *)
ImageBody == <<Image(Req(<<1, 4, 2>>, -1, 1), "x"), Image(Req(<<1, 4, 2, 1, 2>>, 4, 1), "x"),
               Image(Req(<<1, 4, 2, 1, 2>>, -1, 1), "y")>>

(* Prompts of which every token is decoded on its own. *)
AttnBody == <<Req(<<1, 2>>, 1, 2), Req(<<1, 2, 1, 1>>, 3, 1), Req(<<1, 1, 2>>, 1, 1)>>

(* A stream, a request without one that does not fit behind the stream's   *)
(* state, and a prompt that does not fit at all.                           *)
MixedBody == <<Req(<<1, 1, 2, 1>>, 2, 2), Plain(Req(<<1, 3, 3, 1, 1>>, 1, 1)),
               Req(<<1, 2, 1, 2, 1, 2>>, 5, 1)>>

(* A reply that fills the context, and another request. *)
LimitBody == <<Req(<<1, 2>>, 1, 5), Plain(Req(<<2>>, -1, 1)), Req(<<1, 2, 1, 2>>, 3, 1)>>

(* A request without a stream that fails, and a stream. *)
UnwindBody == <<Plain(Req(<<1, 2>>, 1, 1)), Req(<<2, 1, 2>>, 1, 1)>>

(* The same question about two images. *)
TwinBody == <<Image(Req(<<1, 4, 2>>, 2, 1), "x"), Image(Req(<<1, 4, 2>>, 2, 1), "y")>>

(* A question about an image and a request without a stream, of one batch each. *)
StaleBody == <<Image(Req(<<1, 4>>, -1, 1), "x"), Plain(Req(<<2, 1>>, -1, 1))>>

(* Three conversations, each of the length of the others. *)
EvenBody == <<Req(<<1, 2, 1>>, -1, 1), Req(<<2, 1, 2>>, -1, 1), Req(<<1, 1, 2>>, 2, 1)>>

=============================================================================
