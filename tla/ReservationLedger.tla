-------------------------- MODULE ReservationLedger --------------------------
(***************************************************************************)
(* What billing promises (src/proxy/vault.rs, module documentation): funds *)
(* are held before a request is served, and a hold ends at most once,      *)
(* settled if the request was served and released if it failed.            *)
(***************************************************************************)
CONSTANT Accounts

VARIABLES
    hold,     \* hold[r]: the reservation of r as the vault has it
    verdict   \* verdict[r]: how the request ended

ledgerVars == <<hold, verdict>>

Start ==
    /\ hold = [r \in Accounts |-> "none"]
    /\ verdict = [r \in Accounts |-> "open"]

Hold(r) ==
    /\ hold[r] = "none"
    /\ hold' = [hold EXCEPT ![r] = "held"]
    /\ UNCHANGED verdict

\* A request ends once.
Decide(r, v) ==
    /\ verdict[r] = "open"
    /\ verdict' = [verdict EXCEPT ![r] = v]
    /\ UNCHANGED hold

Settle(r) ==
    /\ hold[r] = "held" /\ verdict[r] = "served"
    /\ hold' = [hold EXCEPT ![r] = "settled"]
    /\ UNCHANGED verdict

Release(r) ==
    /\ hold[r] = "held" /\ verdict[r] = "failed"
    /\ hold' = [hold EXCEPT ![r] = "released"]
    /\ UNCHANGED verdict

Step ==
    \E r \in Accounts :
        \/ Hold(r) \/ Settle(r) \/ Release(r)
        \/ \E v \in {"served", "failed"} : Decide(r, v)

Ledger == Start /\ [][Step]_ledgerVars
=============================================================================
