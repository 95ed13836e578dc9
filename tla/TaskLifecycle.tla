---------------------------- MODULE TaskLifecycle ----------------------------
(***************************************************************************)
(* What the owner of an intelligent task may rely on, whatever happens to  *)
(* publishers, workflows and activities: the task reaches at most one      *)
(* terminal status and keeps it; it becomes FAILED only after its deadline *)
(* and CANCELLED only when somebody asked for it; no plan is activated once*)
(* a cancellation is on record; an attempt gets at most one outcome.       *)
(***************************************************************************)
CONSTANTS Attempt       \* the attempts of the task

VARIABLES status,       \* NONE, OPEN, PLANNED, CANCEL_REQUESTED, FAILED, CANCELLED
          overdue,      \* the wall-clock deadline has passed
          stopAsked,    \* an operator cancelled the workflow
          outcome       \* each attempt: NONE, RUNNING, COMPLETED, FAILED, CANCELLED

vars == <<status, overdue, stopAsked, outcome>>

Terminal == {"FAILED", "CANCELLED"}
Live == {"OPEN", "PLANNED", "CANCEL_REQUESTED"}

TypeOK == /\ status \in {"NONE"} \union Live \union Terminal
          /\ overdue \in BOOLEAN /\ stopAsked \in BOOLEAN
          /\ outcome \in [Attempt -> {"NONE", "RUNNING", "COMPLETED", "FAILED", "CANCELLED"}]

Init == /\ status = "NONE" /\ overdue = FALSE /\ stopAsked = FALSE
        /\ outcome = [a \in Attempt |-> "NONE"]

Create == status = "NONE" /\ status' = "OPEN" /\ UNCHANGED <<overdue, stopAsked, outcome>>

AskCancel == /\ status \in {"OPEN", "PLANNED"} /\ status' = "CANCEL_REQUESTED"
             /\ UNCHANGED <<overdue, stopAsked, outcome>>

\* Activation happens before the deadline and completes the planning attempt.
Activate(a) == /\ status = "OPEN" /\ ~ overdue /\ outcome[a] = "RUNNING"
               /\ status' = "PLANNED"
               /\ outcome' = [outcome EXCEPT ![a] = "COMPLETED"]
               /\ UNCHANGED <<overdue, stopAsked>>

Expire == status \in Live /\ overdue /\ status' = "FAILED" /\ UNCHANGED <<overdue, stopAsked, outcome>>

Cancel == /\ status \in Live /\ (status = "CANCEL_REQUESTED" \/ stopAsked)
          /\ status' = "CANCELLED" /\ UNCHANGED <<overdue, stopAsked, outcome>>

DeadlinePasses == ~ overdue /\ overdue' = TRUE /\ UNCHANGED <<status, stopAsked, outcome>>
OperatorStops == ~ stopAsked /\ stopAsked' = TRUE /\ UNCHANGED <<status, overdue, outcome>>

StartAttempt(a) == /\ outcome[a] = "NONE" /\ outcome' = [outcome EXCEPT ![a] = "RUNNING"]
                   /\ UNCHANGED <<status, overdue, stopAsked>>

EndAttempt(a, o) == /\ outcome[a] = "RUNNING" /\ outcome' = [outcome EXCEPT ![a] = o]
                    /\ (o = "CANCELLED" => stopAsked)
                    /\ UNCHANGED <<status, overdue, stopAsked>>

Next == \/ Create \/ AskCancel \/ Expire \/ Cancel \/ DeadlinePasses \/ OperatorStops
        \/ \E a \in Attempt :
             \/ Activate(a) \/ StartAttempt(a)
             \/ \E o \in {"COMPLETED", "FAILED", "CANCELLED"} : EndAttempt(a, o)

Spec == Init /\ [][Next]_vars
=============================================================================
