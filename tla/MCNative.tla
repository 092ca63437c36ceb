----------------------------- MODULE MCNative -----------------------------
(***************************************************************************)
(* Small instances of NativeExchange.                                      *)
(***************************************************************************)
EXTENDS NativeExchange

CONSTANTS C1, C2, C3, R1, R2, T1, T2

TwoClients == {C1, C2}
ThreeClients == {C1, C2, C3}
OneClient == {C1}
OneRequest == {R1}
TwoTokens == {T1, T2}
InOrder == <<T1, T2>>
===========================================================================
