------------------------------ MODULE ProbeGate ------------------------------
(***************************************************************************)
(* What a circuit breaker promises the service behind it, with no counters *)
(* of requests and no clock.  Calls enter and leave a gate.  A closed gate *)
(* (in the sense of an electric circuit) lets every call in and may open   *)
(* whenever a call leaves.  An open gate lets nobody in.  From Open the    *)
(* gate goes on trial: at most MaxTrials calls enter; when all of them     *)
(* have succeeded it closes, and the first that fails opens it again.      *)
(* CircuitBreaker implements this specification.                           *)
(***************************************************************************)
EXTENDS Naturals

CONSTANTS Callers, MaxTrials

VARIABLES
    mode,    \* "Closed", "Open" or "HalfOpen"
    inside,  \* callers whose call was let in and has not ended
    trial,   \* those of them that are trials still to be judged
    left     \* trials this half-open period may still admit

gateVars == <<mode, inside, trial, left>>

Init ==
    /\ mode = "Closed"
    /\ inside = {}
    /\ trial = {}
    /\ left = 0

Enter(c) ==
    /\ mode = "Closed"
    /\ c \notin inside
    /\ inside' = inside \union {c}
    /\ UNCHANGED <<mode, trial, left>>

(* A call that is no trial leaves. *)
Leave(c) ==
    /\ c \in inside \ trial
    /\ inside' = inside \ {c}
    /\ UNCHANGED <<mode, trial, left>>

(* A failed call leaves a closed gate and opens it. *)
Trip(c) ==
    /\ mode = "Closed"
    /\ c \in inside
    /\ mode' = "Open"
    /\ inside' = inside \ {c}
    /\ UNCHANGED <<trial, left>>

FirstTrial(c) ==
    /\ mode = "Open"
    /\ c \notin inside
    /\ mode' = "HalfOpen"
    /\ inside' = inside \union {c}
    /\ trial' = {c}
    /\ left' = MaxTrials - 1

NextTrial(c) ==
    /\ mode = "HalfOpen"
    /\ c \notin inside
    /\ left > 0
    /\ inside' = inside \union {c}
    /\ trial' = trial \union {c}
    /\ left' = left - 1
    /\ UNCHANGED mode

(* A trial succeeds while others run or are still to come. *)
Pass(c) ==
    /\ c \in trial
    /\ trial # {c} \/ left > 0
    /\ inside' = inside \ {c}
    /\ trial' = trial \ {c}
    /\ UNCHANGED <<mode, left>>

LastPass(c) ==
    /\ trial = {c}
    /\ left = 0
    /\ mode' = "Closed"
    /\ inside' = inside \ {c}
    /\ trial' = {}
    /\ left' = 0

Fail(c) ==
    /\ c \in trial
    /\ mode' = "Open"
    /\ inside' = inside \ {c}
    /\ trial' = {}
    /\ left' = 0

Refuse(c) ==
    /\ mode = "Open" \/ (mode = "HalfOpen" /\ left = 0)
    /\ c \notin inside
    /\ UNCHANGED gateVars

(* What a caller sees: its call is let in, succeeds inside or fails inside. *)
Admits(c) == Enter(c) \/ FirstTrial(c) \/ NextTrial(c)
Succeeds(c) == Leave(c) \/ Pass(c) \/ LastPass(c)
Fails(c) == Leave(c) \/ Trip(c) \/ Fail(c)

Next == \E c \in Callers : Admits(c) \/ Refuse(c) \/ Succeeds(c) \/ Fails(c)

Spec == Init /\ [][Next]_gateVars

-----------------------------------------------------------------------------
(***************************************************************************)
(* A gate on trial that refuses everyone has a trial inside, whose result  *)
(* will close or open it.                                                  *)
(***************************************************************************)
SomeTrialDecides == mode = "HalfOpen" /\ left = 0 => trial # {}
=============================================================================
