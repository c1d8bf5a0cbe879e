---------------------------- MODULE MCUserFiles ----------------------------
(* Instances of UserFiles for TLC.                                          *)
EXTENDS UserFiles, TLC

\* One name serves as file and as directory, at the root and below it.
MCArguments == {"d", "..", ""}

\* Nothing tells one session from another, and no property is a liveness property.
Permuted == Permutations(Sessions)
=============================================================================
