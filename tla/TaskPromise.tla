----------------------------- MODULE TaskPromise -----------------------------
(***************************************************************************)
(* What the background of a turn promises about every task it runs: the    *)
(* task is pending before it runs, ends once, is announced once and with   *)
(* the status it ended with, and is cancelled only when somebody asked for *)
(* it.  A task that has not ended when its turn is over is lost: nobody    *)
(* announces it.  RuntimeTasks implements it.                              *)
(***************************************************************************)
EXTENDS Naturals

CONSTANT Task

VARIABLES
  life,   \* where each task is
  told,   \* how many times its end was announced
  asked   \* the tasks somebody wants cancelled

vars == <<life, told, asked>>

Live == {"pending", "running"}

Init ==
  /\ life = [t \in Task |-> "absent"]
  /\ told = [t \in Task |-> 0]
  /\ asked = {}

Begin(t) ==
  /\ life[t] = "absent"
  /\ life' = [life EXCEPT ![t] = "pending"]
  /\ UNCHANGED <<told, asked>>

Run(t) ==
  /\ life[t] = "pending"
  /\ life' = [life EXCEPT ![t] = "running"]
  /\ UNCHANGED <<told, asked>>

Ask(t) ==
  /\ life[t] \in Live
  /\ asked' = asked \union {t}
  /\ UNCHANGED <<life, told>>

End(t, status) ==
  /\ life[t] = "running"
  /\ status = "cancelled" => t \in asked
  /\ life' = [life EXCEPT ![t] = status]
  /\ told' = [told EXCEPT ![t] = @ + 1]
  /\ UNCHANGED asked

Lose ==
  /\ life' = [t \in Task |-> IF life[t] \in Live THEN "lost" ELSE life[t]]
  /\ UNCHANGED <<told, asked>>

Next ==
  \/ \E t \in Task : Begin(t) \/ Run(t) \/ Ask(t)
  \/ \E t \in Task, status \in {"completed", "failed", "cancelled"} : End(t, status)
  \/ Lose

Spec == Init /\ [][Next]_vars
==============================================================================
