-------------------------- MODULE AuthorityModel --------------------------
(***************************************************************************)
(* The repository's own model of device authority,                         *)
(* tools/hfxdev/formal_model.py, for any number of receiver generations.   *)
(* The Python model walks two generations to a depth of ten steps and      *)
(* checks one predicate per state; here the walk is complete, the rules    *)
(* that concern a step are stated as such, and ToolProofs proves both for  *)
(* every number of generations.                                            *)
(*                                                                         *)
(* The variables are the fields of ModelState; retired_mask is the set of  *)
(* the generations whose bit is set, and generation 0 is "none".           *)
(***************************************************************************)
EXTENDS Naturals

CONSTANT Generations    \* receiver_generations: how many may ever be issued

ASSUME GenerationsAssumption == Generations \in Nat

NONTERMINAL == {"queued", "authorized", "reserved"}

TERMINAL == {"success", "safe-failure", "uncertain"}

OWNERS == {"none", "application", "restoration"}

PHASES == {"none"} \union NONTERMINAL \union TERMINAL

VARIABLES
    issued_generation, active_generation, retired, qualified,
    lease_owner, lease_generation,
    transaction_phase, transaction_generation, hardware_attempts,
    stable_intent_generation

receiver == <<issued_generation, active_generation, retired, qualified>>
lease == <<lease_owner, lease_generation>>
transaction == <<transaction_phase, transaction_generation, hardware_attempts>>
modelState == <<receiver, lease, transaction, stable_intent_generation>>

InitialState ==
    /\ issued_generation = 0
    /\ active_generation = 0
    /\ retired = {}
    /\ qualified = FALSE
    /\ lease_owner = "none"
    /\ lease_generation = 0
    /\ transaction_phase = "none"
    /\ transaction_generation = 0
    /\ hardware_attempts = 0
    /\ stable_intent_generation = 0

---------------------------------------------------------------------------
(***************************************************************************)
(* The receiver comes and goes.                                            *)
(***************************************************************************)
\* Mutant: the transaction outlives the generation it was authorised for.
InvalidateNothing == UNCHANGED transaction

InvalidateNonterminal ==
    IF transaction_phase \in NONTERMINAL
    THEN /\ transaction_phase' = "safe-failure"
         /\ hardware_attempts' = 0
         /\ UNCHANGED transaction_generation
    ELSE UNCHANGED transaction

\* What connecting and disconnecting have in common.
EndActiveGeneration ==
    /\ retired' = retired \union ({active_generation} \ {0})
    /\ qualified' = FALSE
    /\ lease_owner' = "none"
    /\ lease_generation' = 0
    /\ InvalidateNonterminal
    /\ UNCHANGED stable_intent_generation

Connect ==
    /\ issued_generation < Generations
    /\ issued_generation' = issued_generation + 1
    /\ active_generation' = issued_generation + 1
    /\ EndActiveGeneration

Disconnect ==
    /\ active_generation # 0
    /\ active_generation' = 0
    /\ EndActiveGeneration
    /\ UNCHANGED issued_generation

Qualify ==
    /\ active_generation # 0
    /\ ~qualified
    /\ qualified' = TRUE
    /\ UNCHANGED <<issued_generation, active_generation, retired, lease, transaction,
                   stable_intent_generation>>

---------------------------------------------------------------------------
(***************************************************************************)
(* The lease on the receiver.                                              *)
(***************************************************************************)
AcquireLease(owner) ==
    /\ active_generation # 0
    /\ qualified
    /\ lease_owner = "none"
    /\ lease_owner' = owner
    /\ lease_generation' = active_generation
    /\ UNCHANGED <<receiver, transaction, stable_intent_generation>>

ReleaseLease ==
    /\ lease_owner # "none"
    /\ transaction_phase \notin NONTERMINAL
    /\ lease_owner' = "none"
    /\ lease_generation' = 0
    /\ UNCHANGED <<receiver, transaction, stable_intent_generation>>

---------------------------------------------------------------------------
(***************************************************************************)
(* One transaction, from the queue to its terminal outcome.                *)
(***************************************************************************)
QueueTransaction ==
    /\ active_generation # 0
    /\ qualified
    /\ lease_owner # "none"
    /\ lease_generation = active_generation
    /\ transaction_phase = "none"
    /\ transaction_phase' = "queued"
    /\ transaction_generation' = active_generation
    /\ hardware_attempts' = 0
    /\ UNCHANGED <<receiver, lease, stable_intent_generation>>

Proceed(from, to) ==
    /\ transaction_phase = from
    /\ transaction_phase' = to
    /\ UNCHANGED <<receiver, lease, transaction_generation, hardware_attempts,
                   stable_intent_generation>>

AuthorizeTransaction == Proceed("queued", "authorized")

ReserveTransport == Proceed("authorized", "reserved")

Dispatch(outcome, attempts) ==
    /\ transaction_phase = "reserved"
    /\ transaction_phase' = outcome
    /\ hardware_attempts' = attempts
    /\ UNCHANGED <<receiver, lease, transaction_generation, stable_intent_generation>>

DispatchSuccess == Dispatch("success", 1)

DispatchSafeFailure == Dispatch("safe-failure", 0)

DispatchUncertain == Dispatch("uncertain", 1)

CaptureStableIntent ==
    /\ transaction_phase = "success"
    /\ stable_intent_generation # transaction_generation
    /\ stable_intent_generation' = transaction_generation
    /\ UNCHANGED <<receiver, lease, transaction>>

\* Mutant: an uncertain transaction makes room for a retry as well.
ClearTerminal ==
    /\ transaction_phase \in TERMINAL
    /\ transaction_phase' = "none"
    /\ transaction_generation' = 0
    /\ hardware_attempts' = 0
    /\ UNCHANGED <<receiver, lease, stable_intent_generation>>

ClearSafeTerminal ==
    /\ transaction_phase \in {"success", "safe-failure"}
    /\ transaction_phase' = "none"
    /\ transaction_generation' = 0
    /\ hardware_attempts' = 0
    /\ UNCHANGED <<receiver, lease, stable_intent_generation>>

SuccessorStates ==
    \/ Connect
    \/ Disconnect
    \/ Qualify
    \/ AcquireLease("application")
    \/ AcquireLease("restoration")
    \/ ReleaseLease
    \/ QueueTransaction
    \/ AuthorizeTransaction
    \/ ReserveTransport
    \/ DispatchSuccess
    \/ DispatchSafeFailure
    \/ DispatchUncertain
    \/ CaptureStableIntent
    \/ ClearSafeTerminal

AuthoritySpec == InitialState /\ [][SuccessorStates]_modelState

---------------------------------------------------------------------------
(***************************************************************************)
(* Properties                                                              *)
(***************************************************************************)
TypeOK ==
    /\ issued_generation \in 0 .. Generations
    /\ active_generation \in 0 .. Generations
    /\ retired \in SUBSET (1 .. issued_generation)
    /\ qualified \in BOOLEAN
    /\ lease_owner \in OWNERS
    /\ lease_generation \in 0 .. Generations
    /\ transaction_phase \in PHASES
    /\ transaction_generation \in 0 .. issued_generation
    /\ hardware_attempts \in {0, 1}
    /\ stable_intent_generation \in 0 .. issued_generation

\* HFX-MODEL-001 and 007: the active generation was issued and never retired.
ActiveIsNotRetired ==
    active_generation <= issued_generation /\ active_generation \notin retired

\* HFX-MODEL-002.
LeaseIsOfActive ==
    IF lease_owner = "none" THEN lease_generation = 0
    ELSE active_generation # 0 /\ qualified /\ lease_generation = active_generation

\* HFX-MODEL-003.
TransactionIsOfActive ==
    /\ transaction_phase = "none" => transaction_generation = 0
    /\ transaction_phase \in NONTERMINAL =>
         /\ transaction_generation = active_generation
         /\ lease_owner # "none"
         /\ lease_generation = active_generation
         /\ qualified

\* HFX-MODEL-004, 005 and 006.
AttemptsMatchOutcome ==
    /\ hardware_attempts \in {0, 1}
    /\ transaction_phase \in {"success", "uncertain"} => hardware_attempts = 1
    /\ transaction_phase = "safe-failure" => hardware_attempts = 0

\* HFX-MODEL-008, its part about a state.
IntentWasIssued == stable_intent_generation <= issued_generation

\* _invariant_failures finds nothing, at any depth and for any number of
\* generations: whatever order the receiver's coming and going, the lease and
\* the transaction take, authority is always that of the generation in use.
NoInvariantFailure ==
    /\ ActiveIsNotRetired
    /\ LeaseIsOfActive
    /\ TransactionIsOfActive
    /\ AttemptsMatchOutcome
    /\ IntentWasIssued

\* The part of the eight statements of assurance/formal-model.json that is
\* about a step: a transaction that may have written is never taken up again
\* (006), the hardware is tried only from a reservation under the active
\* generation and its lease (003, 004), replacing the generation ends the lease
\* and a transaction in flight (007), no generation returns from retirement
\* (001), and stable intent is taken only from a confirmed delivery (008).  The
\* Python checker tests the last of these alone.
StepKeepsAuthority ==
    /\ transaction_phase = "uncertain" => UNCHANGED transaction
    /\ hardware_attempts' > hardware_attempts =>
         /\ transaction_phase = "reserved"
         /\ transaction_generation = active_generation
         /\ active_generation \notin retired
         /\ lease_owner # "none" /\ lease_generation = active_generation
    /\ active_generation' # active_generation =>
         /\ lease_owner' = "none"
         /\ transaction_phase' \notin NONTERMINAL
         /\ active_generation' \notin retired'
         /\ active_generation # 0 => active_generation \in retired'
    /\ retired \subseteq retired'
    /\ stable_intent_generation' # stable_intent_generation =>
         /\ transaction_phase = "success"
         /\ stable_intent_generation' = transaction_generation

AuthorityIsKept == [][StepKeepsAuthority]_modelState
===========================================================================
