--------------------------- MODULE MCConversation ---------------------------
(* A small instance of Conversation: markers that come in one piece, cut   *)
(* in two, or two in one piece; the parts of replies as the templates      *)
(* write them; and conversations with tools, images and past reasoning.    *)
EXTENDS Conversation

McPieces == {<<"<">>, <<"t", "n">>, <<"c">>, <<"f">>, <<"<", "e">>, <<"n">>, <<"x", "<">>,
             <<"<", "b">>, <<"L">>, <<"k">>, <<"<", "t", "x", "<", "c">>,
             <<"x", "n", "<", "t", "n", "n">>, <<"<", "c", "n", "f", "n", "<", "e">>,
             <<"x", "n", "n">>, <<"<", "b", "x", "<", "t">>, <<"<", "c", "f", "<", "e">>,
             <<"<", "c", "f", "f", "<", "e">>}

McFormats == {[lfm2 |-> FALSE, reasoning |-> TRUE], [lfm2 |-> FALSE, reasoning |-> FALSE],
              [lfm2 |-> TRUE, reasoning |-> FALSE]}

Msg(role, content) ==
    [role |-> role, content |-> content, reasoning |-> <<>>, has |-> FALSE, calls |-> <<>>]
Query == Msg("user", <<"q">>)
Look == Msg("user", <<"q", "i">>)
Result == Msg("tool", <<"d">>)
Called(r) == [Msg("assistant", <<>>) EXCEPT !.reasoning = r, !.has = r # <<>>, !.calls = <<<<"f">>>>]

McHistories ==
    {[msgs |-> <<Query>>, tools |-> FALSE],
     [msgs |-> <<Msg("system", <<"y">>), Look>>, tools |-> FALSE],
     [msgs |-> <<Query, Called(<<"z">>), Result, Result>>, tools |-> TRUE],
     [msgs |-> <<Msg("system", <<"y">>), Query, Called(<<>>), Result>>, tools |-> TRUE],
     [msgs |-> <<Query, Msg("assistant", <<"<", "b", "z", "<", "t", "w">>),
                 Msg("user", <<"R", "d", "Q">>)>>, tools |-> FALSE]}

McFollowUps == {<<Query>>, <<Result>>, <<Look>>}

=============================================================================
