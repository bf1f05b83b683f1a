---------------------------- MODULE MCFireflies -----------------------------
(* Instances of Fireflies for TLC.                                          *)
EXTENDS Fireflies, TLC

CONSTANTS t1, t2, p1, p2, old, new, h1, h2, i1, b1

\* Two people were invited to the meeting whose transcript has its old title.
OldTitleMatches ==
  [f \in Transcripts \X Titles |-> IF f = <<t1, old>> THEN People ELSE {}]
OneTranscript == <<t1>>
AllOld == [t \in Transcripts |-> old]

=============================================================================
