------------------------------- MODULE MCAgent -------------------------------
(***************************************************************************)
(* The agent, and what pc explain tells it, on the small episodes of       *)
(* MCDir.  The second recipe makes the podcast from the script as well.    *)
(***************************************************************************)
EXTENDS Explain, MCDir

AgentEdits == [narration |-> {Take1, Take2, Nil}, script |-> {Text1, Text2, Nil},
               voiceover |-> {Hand, Nil}, podcast |-> {Nil}]

AgentRecipes == {Chain, [Chain EXCEPT !.podcast = <<"voiceover", "script">>]}

AgentContent == MCContent \cup {<<"podcast">> \o v \o c : v \in OfVoice, c \in {Text1, Text2}}
=============================================================================
