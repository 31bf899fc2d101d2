-------------------------------- MODULE MCDir --------------------------------
(***************************************************************************)
(* Small episodes for TLC: the chain narration -> voiceover -> podcast of  *)
(* tests/fixtures/chain, with a script the narration follows.  A content   *)
(* is the sequence of the names that went into it, so an artifact carries  *)
(* its own derivation and a provider is injective.                         *)
(***************************************************************************)
EXTENDS EpisodeDir, TLC

Take1 == <<"take1">>
Take2 == <<"take2">>
Text1 == <<"text1">>
Text2 == <<"text2">>
Hand == <<"hand">>

Chain == [voiceover |-> <<"narration">>, podcast |-> <<"voiceover">>]
Short == [voiceover |-> <<"narration">>, podcast |-> <<"voiceover", "narration">>]

OneRecipe == {Chain}
TwoRecipes == {Chain, Short}
ScriptRecipes == {Chain, [Chain EXCEPT !.podcast = <<"script">>]}

MCAuthored == {"narration", "script"}
MCDerived == {"voiceover", "podcast"}
MCFollows == [narration |-> "script", script |-> Nil]
NoFollows == [narration |-> Nil, script |-> Nil]
MCOutPath == [voiceover |-> "dist/voiceover", podcast |-> "dist/podcast"]
MCPath == {"dist/voiceover", "dist/podcast"}

\* Concatenation of the inputs' bytes in the order the richest recipe declares them.
Concat(f) ==
  (IF "voiceover" \in DOMAIN f THEN f["voiceover"] ELSE <<>>)
    \o (IF "narration" \in DOMAIN f THEN f["narration"] ELSE <<>>)
    \o (IF "script" \in DOMAIN f THEN f["script"] ELSE <<>>)

FromSource == {Take1, Take2}
Voiced == {<<"voiceover">> \o c : c \in FromSource}
Revoiced == {<<"voiceover", "again">> \o c : c \in FromSource}
OfVoice == Voiced \cup Revoiced \cup {Hand}
Mixed == {<<"podcast">> \o v : v \in OfVoice \cup {Text1, Text2}}
Remixed == {<<"podcast">> \o v \o c : v \in OfVoice, c \in FromSource}
MCContent == FromSource \cup {Text1, Text2} \cup OfVoice \cup Mixed \cup Remixed

\* Reproducible providers; then a voice that is not: the same take may give either of two
\* outputs.
MCMakes(t, f, c) == c = <<t>> \o Concat(f)
ImpureMakes(t, f, c) == c \in {<<t>> \o Concat(f), <<t, "again">> \o Concat(f)}

\* The judges reject what was made from the second take, and that of the podcast whatever
\* lies beside a second voice now; on a voice recorded by hand, either verdict may be given.
Has(c, words) == \E i \in DOMAIN c : c[i] \in words
Fails(t, f, c) ==
  \/ Has(c, {"take2"})
  \/ t = "podcast" /\ \E i \in DOMAIN f : Has(f[i], {"again", "take2"})
MCJudges(t, f, c, v) ==
  \/ v \in Verdict /\ Has(Concat(f), {"hand"})
  \/ v = IF Fails(t, f, c) THEN "failed" ELSE "passed"
JudgesOutput(t, f, c, v) == v = IF Has(c, {"take2", "again"}) THEN "failed" ELSE "passed"
PassesAll(t, f, c, v) == v = "passed"

EmptyStore == {}
FullStore == {Take1}

ReviewEdits == [narration |-> {Take1, Take2, Nil}, script |-> {Text1, Text2, Nil},
                voiceover |-> {Hand, Nil}, podcast |-> {}]

MCStandin == [narration |-> Nil, script |-> Nil]
HeldStandin == [narration |-> Take1, script |-> Nil]

MCEdits == [narration |-> {Take1, Take2}, script |-> {Text1},
            voiceover |-> {Hand, Nil}, podcast |-> {}]
=============================================================================
