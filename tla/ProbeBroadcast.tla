--------------------------- MODULE ProbeBroadcast ---------------------------
(***************************************************************************)
(* What acquire_permit promises a caller that finds a probe under way      *)
(* ("queue-and-wait", src/proxy/circuit_breaker.rs): it joins the callers  *)
(* waiting for that provider, every probe that ends while it waits hands   *)
(* it a verdict of its own, and it leaves with its latest verdict.  No     *)
(* verdict is older than its wait, and none gets lost on the way.          *)
(* CircuitBreakerRegistry implements this with one shared watch slot per   *)
(* provider.                                                               *)
(***************************************************************************)
CONSTANTS Names, Nobody, Callers

VARIABLES
    role,     \* role[c]: what caller c is doing
    at,       \* at[c]: the provider it deals with, or Nobody
    verdict   \* verdict[c]: the latest probe result since c began to wait

abstractVars == <<role, at, verdict>>

Verdicts == {"none", "Success", "Failed"}

Start ==
    /\ role = [c \in Callers |-> "idle"]
    /\ at = [c \in Callers |-> Nobody]
    /\ verdict = [c \in Callers |-> "none"]

\* The caller gets past the breaker, alone (a probe) or with everybody.
Enter(c, p, r) ==
    /\ role[c] = "idle"
    /\ role' = [role EXCEPT ![c] = r]
    /\ at' = [at EXCEPT ![c] = p]
    /\ UNCHANGED verdict

\* Only a probe that is under way is worth waiting for.
Join(c, p) ==
    /\ \E d \in Callers : role[d] = "probe" /\ at[d] = p
    /\ Enter(c, p, "waiting")

\* The probe of c ends: every caller waiting for the provider is told.
EndProbe(c, v) ==
    /\ role[c] = "probe"
    /\ role' = [role EXCEPT ![c] = "idle"]
    /\ at' = [at EXCEPT ![c] = Nobody]
    /\ verdict' = [d \in Callers |->
                     IF role[d] = "waiting" /\ at[d] = at[c] THEN v ELSE verdict[d]]

GoOn(c) ==
    /\ role[c] = "waiting"
    /\ verdict[c] = "Success"
    /\ role' = [role EXCEPT ![c] = "normal"]
    /\ verdict' = [verdict EXCEPT ![c] = "none"]
    /\ UNCHANGED at

\* The caller is turned away, gives up waiting or is done with its request.
Leave(c) ==
    /\ role[c] \in {"waiting", "normal"}
    /\ role' = [role EXCEPT ![c] = "idle"]
    /\ at' = [at EXCEPT ![c] = Nobody]
    /\ verdict' = [verdict EXCEPT ![c] = "none"]

Step ==
    \E c \in Callers :
        \/ \E p \in Names : Enter(c, p, "normal") \/ Enter(c, p, "probe") \/ Join(c, p)
        \/ \E v \in {"Success", "Failed"} : EndProbe(c, v)
        \/ GoOn(c)
        \/ Leave(c)

Broadcast == Start /\ [][Step]_abstractVars
=============================================================================
