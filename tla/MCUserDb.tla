------------------------------ MODULE MCUserDb ------------------------------
(* Instances of UserDb for TLC.                                             *)
EXTENDS UserDb

MCLogins == {"test", "toto"}
MCPasswords == {"mdp", "testmdp"}
=============================================================================
