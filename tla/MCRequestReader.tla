--------------------------- MODULE MCRequestReader ---------------------------
(* Instances of RequestReader for TLC.                                      *)
EXTENDS RequestReader

\* A blank line, a short one, the longest that MaxRequest allows, one too long.
MCLineLengths == {0, 1, 3, 4}

\* A client that waits for each answer, and one that does not wait at all.
MCWindows == {1, 3}
Waiting == {1}
=============================================================================
