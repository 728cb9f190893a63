----------------------------- MODULE JobControl ------------------------------
(***************************************************************************)
(* What the tiny shell promises about its jobs: the table of job states    *)
(* and enabling actions that heads src/mps/03/tsh.c, with the rule that at *)
(* most one job is in the foreground.  A job enters in the foreground or   *)
(* the background, and leaves from any state when its process ends.  Tsh   *)
(* is shown to implement this specification.                               *)
(***************************************************************************)
CONSTANT Pid

VARIABLE state      \* state[p]: what the shell holds of process p

TypeOK == state \in [Pid -> {"none", "FG", "BG", "ST"}]

NoForeground == \A p \in Pid : state[p] # "FG"

Move(p, from, to) ==
    /\ state[p] = from
    /\ state' = [state EXCEPT ![p] = to]

Init == state = [p \in Pid |-> "none"]

LaunchForeground(p) == NoForeground /\ Move(p, "none", "FG")

LaunchBackground(p) == Move(p, "none", "BG")

CtrlZ(p) == Move(p, "FG", "ST")

FgCommand(p) == NoForeground /\ (Move(p, "ST", "FG") \/ Move(p, "BG", "FG"))

BgCommand(p) == Move(p, "ST", "BG")

End(p) == \E from \in {"FG", "BG", "ST"} : Move(p, from, "none")

\* Every move changes the state of p; said first, this spares TLC the others.
Next ==
    \E p \in Pid :
        /\ state'[p] # state[p]
        /\ \/ LaunchForeground(p)
           \/ LaunchBackground(p)
           \/ CtrlZ(p)
           \/ FgCommand(p)
           \/ BgCommand(p)
           \/ End(p)

Spec == Init /\ [][Next]_state
=============================================================================
