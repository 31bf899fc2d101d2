------------------------------ MODULE MCVoice ------------------------------
(***************************************************************************)
(* Sources of one or two paragraphs, editions of up to three, one numeral, *)
(* one citation and one declared term, for TLC.                            *)
(***************************************************************************)
EXTENDS Voice

T(marks) == [k |-> "text", v |-> marks]
Q(marks) == [k |-> "quote", v |-> marks]
B == [k |-> "blank", v |-> <<>>]
F == [k |-> "fence", v |-> <<>>]
D == [k |-> "delim", v |-> <<>>]
Doc(head, lines) == [head |-> head, lines |-> lines]

MCDrafts == {
    Doc(None, <<T(<<"7">>), B, T(<<"7">>)>>),
    Doc(None, <<T(<<"7">>), B, Q(<<"7">>)>>),
    Doc([allow |-> {"[^1]"}], <<T(<<"[^1]", "7">>), B, T(<<"7", "fleet">>)>>),
    Doc([allow |-> {}], <<T(<<"[^1]">>)>>),
    Doc([malformed |-> TRUE], <<T(<<>>)>>)}

MCBodies == {
    Doc(None, <<>>),
    Doc(None, <<T(<<"7">>), B, T(<<"7">>)>>),
    Doc(None, <<T(<<"7", "7">>)>>),
    Doc(None, <<F, Q(<<"7">>), B, F, B, T(<<"7", "fleet">>)>>),
    Doc(None, <<T(<<"[^1]", "7">>), B, T(<<"7", "fleet">>)>>),
    Doc(None, <<D, T(<<"7">>), D, T(<<"7">>)>>)}

MCRequests == [voices : 0..2, drafts : 0..2]

MCDestinations == {<<1>>, <<2>>, <<1, 2>>, <<2, 1>>, <<1, 1>>}
MCCitations == {"[^1]"}
MCNumerals == {"7"}
MCLexicon == {"fleet"}
MCEdits == {"source", "body", "ledger", "head"}
NoEdits == {}
NoLexicon == {}
=============================================================================
