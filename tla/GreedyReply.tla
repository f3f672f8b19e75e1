----------------------------- MODULE GreedyReply -----------------------------
(***************************************************************************)
(* What a greedy reply promises, whichever way it is decoded: the client   *)
(* receives, one by one, the tokens the model itself would produce after   *)
(* the prompt, and the reply is closed at the stop token, at the token     *)
(* budget, when the context has no room left, or when the client is gone.  *)
(***************************************************************************)
EXTENDS Integers, Sequences

CONSTANTS Tokens,   \* the vocabulary
          Stop,     \* the token that ends a reply
          PLen,     \* tokens of the prompt
          NCtx      \* n_ctx

VARIABLES conv,     \* the prompt and the greedy continuation of it
          limits,   \* [max |-> token budget, slack |-> rows one step may take]
          reply,    \* what the client has received
          gone,     \* the client has left
          over      \* the reply is closed

gvars == <<conv, limits, reply, gone, over>>

(* The token after what has been sent. *)
Upcoming == conv[PLen + Len(reply) + 1]

GInit == reply = <<>> /\ ~gone /\ ~over

Say ==
    /\ ~over /\ Upcoming # Stop /\ Len(reply) < limits.max
    /\ reply' = Append(reply, Upcoming)
    /\ UNCHANGED <<conv, limits, gone, over>>

(* The context is full for a loop that takes slack rows at a time.         *)
Full == PLen + Len(reply) + limits.slack >= NCtx

Close ==
    /\ ~over
    /\ gone \/ Upcoming = Stop \/ Len(reply) >= limits.max \/ Full
    /\ over' = TRUE
    /\ UNCHANGED <<conv, limits, reply, gone>>

Leave == ~over /\ ~gone /\ gone' = TRUE /\ UNCHANGED <<conv, limits, reply, over>>

GNext == Say \/ Close \/ Leave

GSpec == GInit /\ [][GNext]_gvars /\ WF_gvars(Say \/ Close)

=============================================================================
