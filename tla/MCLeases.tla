----------------------------- MODULE MCLeases -----------------------------
(***************************************************************************)
(* Small instances of Leases.  Three resources of one child and its next   *)
(* generation: lighting and native control conflict, the second            *)
(* generation's lighting conflicts with neither.                           *)
(***************************************************************************)
EXTENDS Leases

CONSTANTS C1, C2, R1, R2, L1, L2, G1, G2, Mouse

MCClients == {C1, C2}
MCRequestIds == {R1, R2}
MCLeaseIds == {L1, L2}
MCResources ==
    {[scope |-> G1, device |-> Mouse, kind |-> "lighting"],
     [scope |-> G1, device |-> Mouse, kind |-> NativeControl],
     [scope |-> G2, device |-> Mouse, kind |-> "lighting"]}

\* Clients, request identities and lease identities are interchangeable.
MCSymmetry ==
    Permutations(MCClients) \union Permutations(MCRequestIds)
        \union Permutations(MCLeaseIds)
===========================================================================
