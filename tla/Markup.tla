------------------------------- MODULE Markup -------------------------------
(***************************************************************************)
(* The texts that the chat template writes and the server reads back       *)
(* (core/chat.cpp, server/main.cpp).                                       *)
(*                                                                         *)
(* A text is a sequence of symbols.  Each of the markers is two symbols    *)
(* long, so that a piece may end inside it; "n" is white space, "f" what   *)
(* makes a tool-call block parse, "L" the first byte of a character of     *)
(* three whose others are "k", and everything else is ordinary text.       *)
(***************************************************************************)
EXTENDS Integers, Sequences, FiniteSetsExt, SequencesExt

ThinkOpen == <<"<", "b">>
ThinkEnd  == <<"<", "t">>
ToolOpen  == <<"<", "c">>
ToolEnd   == <<"<", "e">>

From(s, i) == SubSeq(s, i, Len(s))
Places(s, m) == {i \in 1..(Len(s) - Len(m) + 1) : SubSeq(s, i, i + Len(m) - 1) = m}
Has(s, m) == Places(s, m) # {}
Find(s, m) == Min(Places(s, m))
After(s, m, i) == From(s, i + Len(m))

TrimEnd(s) == SubSeq(s, 1, Max({0} \cup {i \in DOMAIN s : s[i] # "n"}))
TrimLead(s) == From(s, Min({Len(s) + 1} \cup {i \in DOMAIN s : s[i] # "n"}))

Trim(s) == TrimLead(TrimEnd(s))

=============================================================================
