----------------------------- MODULE MCTransfer -----------------------------
(* Instances of Transfer for TLC.                                           *)
EXTENDS Transfer

\* One byte stands for all the text: order shows in where the line ends are.
MCText == {"a"}
=============================================================================
