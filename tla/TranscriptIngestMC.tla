-------------------------- MODULE TranscriptIngestMC --------------------------
EXTENDS TranscriptIngest

\* Two projects of one family; f is the second one's session file.
MCHome == [f \in Files |-> "q"]
MCKin == [p \in Projects |-> Projects]
\* Nothing but noise at first, a text, more noise, then another text.
MCPages == <<0, 1, 1, 2>>
\* Two models with vectors of a length, and one with longer ones.
MCDim == [m \in Models |-> IF m = "m3" THEN 12 ELSE 8]
=============================================================================
