--------------------------- MODULE MCCoordinator ---------------------------
(***************************************************************************)
(* A small instance of Coordinator.  Client C1 streams two effect frames   *)
(* under lease L1 and one of the next generation under L3, which uses the  *)
(* request and transaction id of the second again; C2, the restoration     *)
(* runtime, restores the receiver's other device meanwhile.                *)
(***************************************************************************)
EXTENDS Coordinator

Session(s, c) == [id |-> s, client |-> c]

Lease(l, c, d, g) == [id |-> l, client |-> c, resources |-> {d}, generation |-> g]

Request(c, r, t, l, d, g, class, deadline) ==
    [client |-> c, request |-> r, transaction |-> t, lease |-> l,
     resources |-> {d}, generation |-> g, class |-> class, deadline |-> deadline]

Frame1 == Request("C1", "R1", "T1", "L1", "mouse", 1, EffectFrame, 2)
Frame2 == Request("C1", "R2", "T2", "L1", "mouse", 1, EffectFrame, 2)
Restore == Request("C2", "R2", "T3", "L2", "keyboard", 1, "restore", 1)
Later == Request("C1", "R2", "T2", "L3", "mouse", 2, EffectFrame, 2)

TwoClients == {Session("S1", "C1"), Session("S2", "C2")}
ThreeLeases == {Lease("L1", "C1", "mouse", 1), Lease("L2", "C2", "keyboard", 1),
                Lease("L3", "C1", "mouse", 2)}
FourRequests == {Frame1, Frame2, Restore, Later}
===========================================================================
