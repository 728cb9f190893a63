------------------------------ MODULE TshProofs ------------------------------
(***************************************************************************)
(* Proofs about the tiny shell, for every number of children and every     *)
(* size of the job list.                                                   *)
(***************************************************************************)
EXTENDS Tsh, JobListProofs

-----------------------------------------------------------------------------
(* Type correctness.                                                       *)

\* What eval and do_bgfg rely on: SIGCHLD stays blocked, and its handler
\* inactive, from the reading of a command to the entry of the job, so that
\* nextjid does not move; do_bgfg's pointer is not NULL when it is used.
EvalInv ==
    /\ pc \in {"fork", "add"} => nextjid =< MAXJID
    /\ pc \in {"fork", "add", "unblock"} => mask = {"CHLD"}
    /\ mask = {"CHLD"} => ~Active("CHLD")
    /\ pc = "add" => pid \in Pid
    /\ pc \in {"readpid", "cont", "setstate", "reread"} => job \in Slots

TypeInv == TypeOK /\ EvalInv

LEMMA InitTypeInv == Init => TypeInv
<1>. SUFFICES ASSUME Init PROVE TypeInv
  OBVIOUS
<1>1. JobListTypeOK
  BY JobListAssumption DEF Init, initjobs, JobListTypeOK, Job, JobState, Cleared
<1>2. handler \in [Sig -> Handler]
  BY DEF Init, Idle, Handler
<1>3. proc \in [Pid -> Proc]
  BY DEF Init, NoProc, Proc
<1>. QED BY <1>1, <1>2, <1>3 DEF Init, TypeInv, TypeOK, EvalInv, PC, Active, Idle, Sig

\* What SIGCONT makes of a child.
LEMMA ContinuedType ==
    ASSUME NEW c \in Proc
    PROVE  /\ Continued(c) \in Proc
           /\ Continued(c).own = c.own
           /\ Continued(c).sig \subseteq c.sig
           /\ c.life # "stopped" => Continued(c).life = c.life
           /\ c.life # "none" => Continued(c).life # "none"
BY DEF Continued, Proc

\* Every step keeps the types and EvalInv.
LEMMA TypeStep ==
    ASSUME TypeInv, [Next]_vars
    PROVE  TypeInv'
<1>. USE DEF TypeInv, TypeOK, EvalInv
<1>1. CASE ReadRun
  BY <1>1 DEF ReadRun, MainRuns, Active, Goto, jobVars, PC, JobListTypeOK, Sig
<1>2. CASE Fork
  BY <1>2 DEF Fork, Goto, jobVars, PC, Proc, JobListTypeOK, Active
<1>3. CASE ForkFails
  BY <1>3 DEF ForkFails, Goto, jobVars, PC, JobListTypeOK, Active
<1>4. CASE Add
  <2>1. JobListTypeOK'
    BY <1>4, AddjobType DEF Add, JobState
  <2>. QED BY <1>4, <2>1 DEF Add, Goto, PC, Active
<1>5. CASE Unblock
  BY <1>5 DEF Unblock, BackToPrompt, Goto, jobVars, PC, JobListTypeOK, Active
<1>6. CASE EnterWaitfg
  BY <1>6 DEF EnterWaitfg, BackToPrompt, Goto, jobVars, PC, JobListTypeOK, Active
<1>7. CASE LeaveWaitfg
  BY <1>7 DEF LeaveWaitfg, BackToPrompt, Goto, jobVars, PC, JobListTypeOK, Active
<1>8. CASE FindByPid \/ FindByJid
  <2>1. job' \in Slots
    BY <1>8, GetjobpidType, GetjobjidFinds DEF FindByPid, FindByJid
  <2>2. pid' \in Pid \cup {NoPid}
    BY <1>8 DEF FindByPid, FindByJid
  <2>. QED BY <1>8, <2>1, <2>2
           DEF FindByPid, FindByJid, ReadBgfg, Goto, jobVars, PC, JobListTypeOK, Active
<1>8a. CASE ReadPid
  BY <1>8a DEF ReadPid, Goto, jobVars, PC, JobListTypeOK, Job, Active
<1>9. CASE Cont
  <2>1. proc' \in [Pid -> Proc]
    BY <1>9, ContinuedType DEF Cont
  <2>2. sigs' \in SUBSET Sig
    BY <1>9 DEF Cont, Sig
  <2>. QED BY <1>9, <2>1, <2>2 DEF Cont, jobVars, PC, JobListTypeOK, Active
<1>10. CASE SetState
  <2>1. JobListTypeOK'
    BY <1>10, SetJobStateType DEF SetState, JobState
  <2>. QED BY <1>10, <2>1 DEF SetState, BackToPrompt, Goto, PC, Active
<1>11. CASE RereadPid
  BY <1>11 DEF RereadPid, Goto, jobVars, PC, JobListTypeOK, Job, Active
<1>12. CASE BlankLine \/ Quit \/ Sigquit
  BY <1>12 DEF BlankLine, Quit, Sigquit, Goto, jobVars, PC, JobListTypeOK, Active
<1>13. CASE Wait
  <2>1. proc' \in [Pid -> Proc]
    <3>1. NoProc \in Proc
      BY DEF NoProc, Proc
    <3>2. ASSUME NEW p \in Pid PROVE [proc[p] EXCEPT !.told = TRUE] \in Proc
      BY DEF Proc
    <3>3. ASSUME NEW p \in Pid PROVE [proc EXCEPT ![p].told = TRUE] \in [Pid -> Proc]
      BY <3>2
    <3>. QED BY <1>13, <3>1, <3>3 DEF Wait, Waitable
  <2>2. handler' \in [Sig -> Handler]
    BY <1>13 DEF Wait, Waitable, Return, HandlerGoto, Idle, Handler, Sig
  <2>3. Active("CHLD")
    BY <1>13 DEF Wait, HandlerRuns
  <2>. QED BY <1>13, <2>1, <2>2, <2>3
           DEF Wait, jobVars, mainVars, JobListTypeOK, Active, Sig
<1>14. CASE MarkStopped
  <2>1. JobListTypeOK'
    BY <1>14, SetJobStateType DEF MarkStopped, JobState, jobVars, JobListTypeOK
  <2>. QED BY <1>14, <2>1 DEF MarkStopped, SetJobState, Goto, HandlerGoto,
           jobVars, Handler, PC, Active, Sig
<1>15. CASE DeleteDead
  <2>1. handler["CHLD"].pid \in Pid \cup {NoPid}
    BY DEF Handler, Sig
  <2>2. JobListTypeOK'
    BY <1>15, <2>1, DeletejobType DEF DeleteDead
  <2>. QED BY <1>15, <2>2 DEF DeleteDead, HandlerGoto, mainVars, Handler, Active, Sig
<1>16. ASSUME NEW s \in {"INT", "TSTP"}, ReadForeground(s) PROVE TypeInv'
  BY <1>16, FgpidType DEF ReadForeground, Return, HandlerGoto, Idle, jobVars,
     mainVars, JobListTypeOK, Handler, Active, Sig
<1>17. ASSUME NEW s \in {"INT", "TSTP"}, Forward(s) PROVE TypeInv'
  BY <1>17 DEF Forward, Return, Idle, jobVars, mainVars, JobListTypeOK, Handler,
     Proc, Active, Sig
<1>18. ASSUME NEW s \in Sig, KeyPress(s) PROVE TypeInv'
  BY <1>18 DEF KeyPress, jobVars, mainVars, JobListTypeOK, Active, Sig
<1>19. ASSUME NEW s \in Sig, Deliver(s) PROVE TypeInv'
  BY <1>19 DEF Deliver, jobVars, mainVars, JobListTypeOK, Handler, Active, Sig
<1>20. ASSUME NEW p \in Pid, Child(p) PROVE TypeInv'
  <2>. USE DEF jobVars, mainVars, JobListTypeOK, Active, Proc
  <2>1. CASE Setpgid(p) \/ Exec(p) \/ Swallow(p)
    BY <2>1 DEF Setpgid, Exec, Swallow
  <2>2. ASSUME NEW life \in {"zombie", "stopped"}, Becomes(p, life) PROVE TypeInv'
    <3>. DEFINE sig == IF life = "zombie" THEN {} ELSE proc[p].sig \ {"TSTP"}
                new == [proc[p] EXCEPT !.life = life, !.told = FALSE,
                           !.exec = proc[p].exec /\ life # "zombie", !.sig = sig]
    <3>1. sig \in SUBSET {"INT", "TSTP"}
      OBVIOUS
    <3>2. new \in Proc
      BY <3>1
    <3>3. proc' = [proc EXCEPT ![p] = new]
      BY <2>2 DEF Becomes
    <3>4. proc' \in [Pid -> Proc]
      BY <3>2, <3>3
    <3>. QED BY <2>2, <3>4 DEF Becomes, Sig
  <2>. QED BY <1>20, <2>1, <2>2 DEF Child, Exit, Stop, TakeSignal
<1>21. CASE UNCHANGED vars
  BY <1>21 DEF vars, JobListTypeOK, Active
<1>. QED BY <1>1, <1>2, <1>3, <1>4, <1>5, <1>6, <1>7, <1>8, <1>8a, <1>9, <1>10, <1>11,
         <1>12, <1>13, <1>14, <1>15, <1>16, <1>17, <1>18, <1>19, <1>20, <1>21
     DEF Next, Main, Handlers

\* Every variable keeps its type, whatever the number of children and the
\* size of the job list: job ids stay within bounds and no step of do_bgfg
\* follows a NULL pointer.
THEOREM TypeCorrect == Spec => []TypeOK
<1>1. TypeInv /\ [Next]_vars => TypeInv'
  BY TypeStep
<1>. QED BY InitTypeInv, <1>1, PTL DEF Spec, TypeInv
=============================================================================
