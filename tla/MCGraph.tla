------------------------------- MODULE MCGraph -------------------------------
(***************************************************************************)
(* Every profile over three targets whose inputs are up to two of the      *)
(* targets, an authored node and a name nobody declares; and, on one small *)
(* profile, every authored path of up to four segments.                    *)
(***************************************************************************)
EXTENDS Graph

Ids == {"p", "q", "r", "a", "x"}
MCCatalogue == {"p", "q", "r"}

InputLists ==
  {<<>>, <<"p">>, <<"q">>, <<"r">>, <<"a">>, <<"x">>,
   <<"p", "q">>, <<"q", "r">>, <<"r", "p">>, <<"a", "q">>, <<"r", "a">>}

Plain == <<"name", "name">>

Profiles ==
  {[authored |-> A, path |-> [n \in A |-> Plain],
    follows |-> [n \in A |-> IF n = "a" THEN f ELSE Nil], targets |-> t, inputs |-> i] :
     A \in {{"a"}, {"a", "q"}}, f \in {Nil, "r", "x"},
     t \in {<<"p">>, <<"q", "p">>, <<"p", "x">>}, i \in [MCCatalogue -> InputLists]}

Paths ==
  {[authored |-> {"a"}, path |-> [n \in {"a"} |-> s], follows |-> [n \in {"a"} |-> Nil],
    targets |-> <<"p">>, inputs |-> [t \in MCCatalogue |-> <<"a">>]] :
     s \in UNION {[1..n -> Segment] : n \in 1..4}}

MCManifests == Profiles \cup Paths
=============================================================================
