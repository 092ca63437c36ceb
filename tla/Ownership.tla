----------------------------- MODULE Ownership -----------------------------
(***************************************************************************)
(* What the lease manager promises about ownership, without deadlines, an  *)
(* index or an idempotency history: at every moment some leases hold       *)
(* resources for clients, no two of them hold conflicting resources, and   *)
(* the set a lease holds never changes while it is held.  docs/            *)
(* architecture/bridge-core.md ("Ownership And Atomicity"): acquisition is *)
(* atomic, and there is no forced takeover.                                *)
(***************************************************************************)
EXTENDS Naturals

CONSTANTS Clients, LeaseIds, Resources, NoLease, Conflict(_, _)

VARIABLE held   \* the client and the resources of each lease that is held

TypeOK ==
    held \in [LeaseIds -> [client : Clients, resources : SUBSET Resources]
                             \union {NoLease}]

Init == held = [l \in LeaseIds |-> NoLease]

Without(ended) == [l \in LeaseIds |-> IF l \in ended THEN NoLease ELSE held[l]]

\* Leases end: by deadline, release, disconnect or the end of a generation.
End(ended) == held' = Without(ended)

\* One lease takes a whole set of resources that none of the leases that
\* remain conflicts with.
Take(ended, lease, client, resources) ==
    /\ Without(ended)[lease] = NoLease
    /\ \A l \in LeaseIds : Without(ended)[l] # NoLease =>
         \A r \in resources, s \in held[l].resources : ~Conflict(r, s)
    /\ held' = [Without(ended) EXCEPT
                  ![lease] = [client |-> client, resources |-> resources]]

Next ==
    \E ended \in SUBSET LeaseIds :
        \/ End(ended)
        \/ \E lease \in LeaseIds, client \in Clients, resources \in SUBSET Resources :
              Take(ended, lease, client, resources)

Spec == Init /\ [][Next]_held
===========================================================================
