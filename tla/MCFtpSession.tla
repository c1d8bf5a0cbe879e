---------------------------- MODULE MCFtpSession ----------------------------
(* Instances of FtpSession for TLC.                                        *)
EXTENDS FtpSession, TLC

CONSTANTS alice, bob, carol, nobody, pwA, pwB

MCNames == {alice, bob, carol, nobody}
MCAccounts == {alice, bob}
MCIncomplete == {carol}
MCPasswords == {pwA, pwB}
MCPasswordOf == (alice :> pwA) @@ (bob :> pwB)

\* The second pair does not fit in 16 bits.
MCPortArguments == {<<4, 1>>, <<300, 7>>}
=============================================================================
