--------------------------- MODULE TshSafetyProofs ---------------------------
(***************************************************************************)
(* Proofs that the job list of the tiny shell matches its children, that   *)
(* the job in the foreground is the one main waits for, that the handlers  *)
(* use the list safely, that the list moves along the documented diagram   *)
(* of job states, JobControl, that a process id held across an             *)
(* interruption is aimed right, and that keys signal no background job.    *)
(***************************************************************************)
EXTENDS TshProofs

-----------------------------------------------------------------------------
(* The list and the children.                                              *)

\* A child that is about to be entered is unreaped and not listed.
ChildInv ==
    /\ JobsMatchChildren
    /\ pc = "add" => proc[pid].life # "none" /\ Holding(pid) = {}

\* What leaves the list alone, reaps nothing and forks nothing keeps ChildInv.
LEMMA ChildFrame ==
    ASSUME TypeInv, ChildInv, jobs' = jobs,
           handler["CHLD"].at = "dead" => handler'["CHLD"] = handler["CHLD"],
           \A p \in Pid : proc[p].life # "none" => proc'[p].life # "none",
           pc' = "add" => pc = "add" /\ pid' = pid
    PROVE  ChildInv'
<1>1. \A i \in Slots : jobs[i].pid \in Pid \cup {NoPid}
  BY DEF TypeInv, TypeOK, JobListTypeOK, Job
<1>2. JobsMatchChildren'
  BY <1>1 DEF ChildInv, JobsMatchChildren
<1>3. pc' = "add" => pid \in Pid
  BY DEF TypeInv, EvalInv
<1>. QED BY <1>2, <1>3 DEF ChildInv, Holding

\* Every step keeps ChildInv.
LEMMA ChildStep ==
    ASSUME TypeInv, ChildInv, [Next]_vars
    PROVE  ChildInv'
<1>. USE DEF TypeInv, TypeOK
<1>1. CASE Main /\ ~Fork /\ ~Add /\ ~SetState
  <2>1. jobs' = jobs /\ handler' = handler
    BY <1>1 DEF Main, ReadRun, ForkFails, Unblock, EnterWaitfg, LeaveWaitfg,
       FindByPid, FindByJid, ReadPid, Cont, RereadPid, BlankLine, Quit, Sigquit, BackToPrompt, Goto, jobVars
  <2>2. pc' # "add"
    BY <1>1 DEF Main, ReadRun, ForkFails, Unblock, EnterWaitfg, LeaveWaitfg,
       FindByPid, FindByJid, ReadPid, Cont, RereadPid, BlankLine, Quit, Sigquit, BackToPrompt, Goto
  <2>3. CASE Cont
    <3>1. \A p \in Pid : proc[p].life # "none" => proc'[p].life # "none"
      BY <2>3, ContinuedType DEF Cont
    <3>. QED BY <2>1, <2>2, <3>1, ChildFrame
  <2>4. CASE ~Cont
    <3>1. proc' = proc
      BY <1>1, <2>4 DEF Main, ReadRun, ForkFails, Unblock, EnterWaitfg,
         LeaveWaitfg, FindByPid, FindByJid, ReadPid, RereadPid, BlankLine, Quit, Sigquit
    <3>. QED BY <2>1, <2>2, <3>1, ChildFrame
  <2>. QED BY <2>3, <2>4
<1>2. CASE Fork
  <2>1. PICK p \in Pid : /\ proc[p] = NoProc
                         /\ proc' = [proc EXCEPT ![p].life = "forked"]
                         /\ pid' = p
    BY <1>2 DEF Fork
  <2>2. jobs' = jobs /\ handler' = handler /\ handler["CHLD"].at = "off"
    BY <1>2 DEF Fork, Goto, jobVars, MainRuns, Active, Sig
  <2>3. \A q \in Pid : proc[q].life # "none" => proc'[q].life # "none"
    BY <2>1 DEF Proc
  <2>4. proc'[pid'].life = "forked"
    BY <2>1 DEF Proc
  <2>5. Holding(p) = {}
    BY <2>1, <2>2, JobListAssumption DEF ChildInv, JobsMatchChildren, Holding, NoProc
  <2>6. JobsMatchChildren'
    BY <2>2, <2>3 DEF ChildInv, JobsMatchChildren, JobListTypeOK, Job
  <2>. QED BY <2>1, <2>2, <2>4, <2>5, <2>6 DEF ChildInv, Holding
<1>3. CASE Add
  <2>1. /\ pc = "add" /\ pid \in Pid
        /\ pc' # "add" /\ handler' = handler /\ proc' = proc
    BY <1>3 DEF Add, Goto, EvalInv
  <2>2. CASE jobs' = jobs
    BY <2>1, <2>2, ChildFrame
  <2>3. CASE jobs' # jobs
    <3>1. PICK i \in Slots :
             jobs' = [jobs EXCEPT ![i] = [pid |-> pid, jid |-> nextjid,
                                         state |-> IF bg THEN "BG" ELSE "FG"]]
      BY <1>3, <2>3, FirstOfFinds DEF Add, addjob, Holding, jobVars
    <3>2. \A k \in Slots : jobs'[k].pid = IF k = i THEN pid ELSE jobs[k].pid
      BY <3>1 DEF JobListTypeOK
    <3>3. \A k \in Slots : jobs[k].pid # pid
      BY <2>1 DEF ChildInv, Holding
    <3>. QED BY <2>1, <3>2, <3>3 DEF ChildInv, JobsMatchChildren
  <2>. QED BY <2>2, <2>3
<1>4. ASSUME NEW i \in Slots, NEW st, SetJobState(i, st),
             handler'["CHLD"].at = "dead" <=> handler["CHLD"].at = "dead",
             handler["CHLD"].at = "dead" => handler'["CHLD"] = handler["CHLD"],
             proc' = proc, pc' # "add"
      PROVE  ChildInv'
  <2>1. \A k \in Slots : jobs'[k].pid = jobs[k].pid
    BY <1>4 DEF SetJobState, JobListTypeOK, Job
  <2>. QED BY <1>4, <2>1 DEF ChildInv, JobsMatchChildren
<1>5. CASE SetState
  <2>1. handler' = handler /\ proc' = proc /\ pc' # "add" /\ job \in Slots
    BY <1>5 DEF SetState, BackToPrompt, Goto, EvalInv
  <2>. QED BY <1>4, <1>5, <2>1 DEF SetState
<1>6. CASE Wait
  <2>1. /\ jobs' = jobs /\ pc' = pc /\ pid' = pid
        /\ handler["CHLD"].at = "enter" /\ Active("CHLD")
    BY <1>6 DEF Wait, jobVars, mainVars, HandlerRuns
  <2>2. pc # "add"
    BY <2>1 DEF EvalInv
  <2>3. CASE proc' = proc
    BY <2>1, <2>2, <2>3, ChildFrame
  <2>4. CASE \E p \in Pid : proc' = [proc EXCEPT ![p].told = TRUE]
    BY <2>1, <2>2, <2>4, ChildFrame DEF Proc
  <2>5. ASSUME NEW p \in Pid, proc' = [proc EXCEPT ![p] = NoProc],
               HandlerGoto("CHLD", "dead", p)
        PROVE  ChildInv'
    <3>1. handler'["CHLD"].at = "dead" /\ handler'["CHLD"].pid = p
      BY <2>5 DEF HandlerGoto, Handler, Sig
    <3>2. \A q \in Pid \ {p} : proc'[q] = proc[q]
      BY <2>5
    <3>. QED BY <2>1, <2>2, <3>1, <3>2
             DEF ChildInv, JobsMatchChildren, JobListTypeOK, Job
  <2>. QED BY <1>6, <2>3, <2>4, <2>5 DEF Wait, Waitable
<1>7. CASE MarkStopped
  <2>1. handler["CHLD"].at = "stopped" /\ proc' = proc /\ Active("CHLD")
    BY <1>7 DEF MarkStopped, HandlerRuns
  <2>2. pc # "add"
    BY <2>1 DEF EvalInv
  <2>3. CASE jobs' = jobs
    BY <1>7, <2>1, <2>2, <2>3, ChildFrame DEF MarkStopped, Goto
  <2>4. CASE jobs' # jobs
    <3>1. PICK i \in Slots \cup {NoSlot} :
             /\ i # NoSlot
             /\ SetJobState(i, "ST")
             /\ HandlerGoto("CHLD", "enter", NoPid)
             /\ pc' = pc
      BY <1>7, <2>4, GetjobpidType DEF MarkStopped, jobVars, Handler, Sig
    <3>2. handler'["CHLD"].at # "dead"
      BY <3>1 DEF HandlerGoto, Handler, Sig
    <3>. QED BY <1>4, <2>1, <2>2, <3>1, <3>2
  <2>. QED BY <2>3, <2>4
<1>8. CASE DeleteDead
  <2>. DEFINE q == handler["CHLD"].pid
  <2>1. /\ handler["CHLD"].at = "dead" /\ Active("CHLD") /\ deletejob(q)
        /\ proc' = proc /\ pc' = pc /\ q \in Pid \cup {NoPid}
    BY <1>8 DEF DeleteDead, HandlerRuns, mainVars, Handler, Sig
  <2>2. pc # "add"
    BY <2>1 DEF EvalInv
  <2>3. \A k \in Slots : jobs'[k].pid # NoPid =>
             jobs'[k].pid = jobs[k].pid /\ jobs[k].pid # q
    <3>1. CASE getjobpid(q) = NoSlot
      BY <2>1, <3>1, GetjobpidFinds DEF deletejob, jobVars, Holding
    <3>2. CASE getjobpid(q) # NoSlot
      <4>1. q \in Pid /\ getjobpid(q) \in Slots /\ jobs[getjobpid(q)].pid = q
        BY <2>1, <3>2, GetjobpidFinds DEF getjobpid, Holding
      <4>2. jobs' = [jobs EXCEPT ![getjobpid(q)] = Cleared]
        BY <2>1, <3>2 DEF deletejob
      <4>3. \A k \in Slots \ {getjobpid(q)} : jobs[k].pid # q
        BY <4>1, JobListAssumption DEF ChildInv, JobsMatchChildren
      <4>. QED BY <4>1, <4>2, <4>3 DEF JobListTypeOK, Cleared
    <3>. QED BY <3>1, <3>2
  <2>. QED BY <2>1, <2>2, <2>3 DEF ChildInv, JobsMatchChildren
<1>9. ASSUME NEW s \in {"INT", "TSTP"}, ReadForeground(s) \/ Forward(s)
      PROVE  ChildInv'
  <2>1. /\ jobs' = jobs /\ pc' = pc /\ pid' = pid
        /\ handler'["CHLD"] = handler["CHLD"]
    BY <1>9 DEF ReadForeground, Forward, Return, HandlerGoto, jobVars, mainVars, Sig
  <2>2. \A p \in Pid : proc'[p].life = proc[p].life
    BY <1>9 DEF ReadForeground, Forward, Proc
  <2>. QED BY <2>1, <2>2, ChildFrame
<1>10. ASSUME NEW s \in Sig, KeyPress(s) \/ Deliver(s)
       PROVE  ChildInv'
  <2>1. jobs' = jobs /\ pc' = pc /\ pid' = pid /\ proc' = proc
    BY <1>10 DEF KeyPress, Deliver, jobVars, mainVars
  <2>2. handler["CHLD"].at = "dead" => handler'["CHLD"] = handler["CHLD"]
    BY <1>10 DEF KeyPress, Deliver, Active, Sig
  <2>. QED BY <2>1, <2>2, ChildFrame
<1>11. ASSUME NEW p \in Pid, Child(p) PROVE ChildInv'
  <2>1. jobs' = jobs /\ pc' = pc /\ pid' = pid /\ handler' = handler
    BY <1>11 DEF Child, Setpgid, Exec, Swallow, Exit, Stop, TakeSignal, Becomes,
       jobVars, mainVars
  <2>2. \A q \in Pid : proc[q].life # "none" => proc'[q].life # "none"
    BY <1>11 DEF Child, Setpgid, Exec, Swallow, Exit, Stop, TakeSignal, Becomes, Proc
  <2>. QED BY <2>1, <2>2, ChildFrame
<1>12. CASE UNCHANGED vars
  BY <1>12, ChildFrame DEF vars
<1>. QED BY <1>1, <1>2, <1>3, <1>5, <1>6, <1>7, <1>8, <1>9, <1>10, <1>11, <1>12
     DEF Next, Main, Handlers

LEMMA InitChildInv == Init => ChildInv
BY DEF Init, initjobs, ChildInv, JobsMatchChildren, Cleared

\* Every job on the list is an unreaped child, or one whose death the handler
\* of SIGCHLD is about to record, and no child is listed twice.
THEOREM ListMatchesChildren == Spec => []JobsMatchChildren
<1>1. Init => TypeInv /\ ChildInv
  BY InitTypeInv, InitChildInv
<1>2. TypeInv /\ ChildInv /\ [Next]_vars => (TypeInv /\ ChildInv)'
  BY TypeStep, ChildStep
<1>3. ChildInv => JobsMatchChildren
  BY DEF ChildInv
<1>. QED BY <1>1, <1>2, <1>3, PTL DEF Spec

-----------------------------------------------------------------------------
(* The foreground job.                                                     *)

NoForegroundJob == \A i \in Slots : jobs[i].state # "FG"

\* Where do_bgfg has a job in hand, the entry it points to is that job's, and
\* after job->state = FG no other entry is in the foreground.  SIGCHLD's
\* handler only has foreground jobs in hand, since waitpid(0, ...) finds no
\* child: one that has no group of its own has not ended or stopped.
ForegroundInv ==
    /\ ForegroundIsAwaited
    /\ pc = "readpid" => jobs[job].pid \in Pid
    /\ pc \in {"cont", "setstate"} => pid \in Pid /\ jobs[job].pid = pid
    /\ pc = "reread" => \A i \in Slots : jobs[i].state = "FG" => i = job
    /\ \A i \in Slots : IF jobs[i].pid = NoPid
                        THEN jobs[i].jid = 0
                        ELSE jobs[i].state # "UNDEF"
    /\ handler["CHLD"].at \in {"stopped", "dead"} =>
          /\ handler["CHLD"].pid \in Pid
          /\ \E i \in Slots : /\ jobs[i].state = "FG"
                              /\ jobs[i].pid = handler["CHLD"].pid
    /\ \A p \in Pid : ~proc[p].own => proc[p].life \in {"none", "forked"}

\* The first job a scan finds in the foreground is the one main waits for.
LEMMA FgpidIsPid ==
    ASSUME TypeInv, ForegroundInv, Alive
    PROVE  /\ NoForegroundJob => fgpid = NoPid
           /\ ~NoForegroundJob => fgpid = pid /\ pid \in Pid
BY FgpidFinds DEF ForegroundInv, ForegroundIsAwaited, NoForegroundJob, TypeInv, TypeOK

\* Elsewhere than in these places of main no job is in the foreground.
LEMMA NoForegroundElsewhere ==
    ASSUME ForegroundInv, Alive,
           pc \notin {"unblock", "reread", "waitfg", "spin"} \/ bg
    PROVE  NoForegroundJob /\ handler["CHLD"].at \notin {"stopped", "dead"}
BY DEF ForegroundInv, ForegroundIsAwaited, NoForegroundJob

\* waitpid only reports the foreground job.
LEMMA WaitableIsForeground ==
    ASSUME TypeInv, ForegroundInv, Alive, NEW p \in Waitable(fgpid)
    PROVE  \E i \in Slots : jobs[i].state = "FG" /\ jobs[i].pid = p
<1>1. CASE fgpid = NoPid
  BY <1>1 DEF Waitable, Changed, ForegroundInv
<1>2. CASE fgpid # NoPid
  BY <1>2, FgpidFinds DEF Waitable
<1>. QED BY <1>1, <1>2

\* What leaves main, the list and the handler of SIGCHLD alone.
LEMMA ForegroundFrame ==
    ASSUME ForegroundInv, jobs' = jobs,
           pc' = pc, pid' = pid, bg' = bg, job' = job,
           handler'["CHLD"].at \in {"stopped", "dead"} =>
               handler'["CHLD"] = handler["CHLD"],
           \A p \in Pid : ~proc'[p].own => proc'[p].life \in {"none", "forked"}
    PROVE  ForegroundInv'
BY DEF ForegroundInv, ForegroundIsAwaited, Alive

\* Steps of main that leave the list alone, from a place without a foreground
\* job, to a place that is not do_bgfg.
LEMMA ForegroundMainFrame ==
    ASSUME ForegroundInv, NoForegroundJob, Alive, jobs' = jobs,
           handler["CHLD"].at \notin {"stopped", "dead"}, handler' = handler,
           pc' \notin {"readpid", "cont", "setstate"},
           \A p \in Pid : ~proc'[p].own => proc'[p].life \in {"none", "forked"}
    PROVE  ForegroundInv'
BY DEF ForegroundInv, ForegroundIsAwaited, NoForegroundJob

\* Every step keeps ForegroundInv, unless others can kill or stop a child before
\* it has called setpgid.
LEMMA ForegroundStep ==
    ASSUME EarlySignals = FALSE, TypeInv, ForegroundInv, [Next]_vars
    PROVE  ForegroundInv'
<1>. USE DEF TypeInv, TypeOK
<1>0. proc' = proc => \A p \in Pid : ~proc'[p].own => proc'[p].life \in {"none", "forked"}
  BY DEF ForegroundInv
<1>1. CASE ReadRun \/ ForkFails \/ BlankLine \/ Quit
  <2>1. NoForegroundJob /\ Alive /\ handler["CHLD"].at \notin {"stopped", "dead"}
    BY <1>1, NoForegroundElsewhere
       DEF ReadRun, ForkFails, BlankLine, Quit, MainRuns
  <2>2. /\ jobs' = jobs /\ handler' = handler /\ proc' = proc
        /\ pc' \notin {"readpid", "cont", "setstate"}
    BY <1>1 DEF ReadRun, ForkFails, BlankLine, Quit, Goto, jobVars
  <2>. QED BY <1>0, <2>1, <2>2, ForegroundMainFrame
<1>2. CASE Fork
  <2>1. NoForegroundJob /\ Alive /\ handler["CHLD"].at \notin {"stopped", "dead"}
    BY <1>2, NoForegroundElsewhere DEF Fork, MainRuns
  <2>2. jobs' = jobs /\ handler' = handler /\ pc' \notin {"readpid", "cont", "setstate"}
    BY <1>2 DEF Fork, Goto, jobVars
  <2>3. \A p \in Pid : ~proc'[p].own => proc'[p].life \in {"none", "forked"}
    BY <1>2 DEF Fork, ForegroundInv, NoProc, Proc
  <2>. QED BY <2>1, <2>2, <2>3, ForegroundMainFrame
<1>3. CASE Add
  <2>1. NoForegroundJob /\ Alive /\ handler["CHLD"].at \notin {"stopped", "dead"}
    BY <1>3, NoForegroundElsewhere DEF Add, MainRuns
  <2>2. /\ pid \in Pid /\ pid # NoPid /\ pid' = pid /\ bg' = bg
        /\ pc' = "unblock" /\ handler' = handler /\ proc' = proc
    BY <1>3, JobListAssumption DEF Add, Goto, EvalInv
  <2>3. CASE jobs' = jobs
    BY <1>0, <2>1, <2>2, <2>3, ForegroundMainFrame
  <2>4. CASE jobs' # jobs
    <3>1. PICK i \in Slots :
             jobs' = [jobs EXCEPT ![i] =
                [pid |-> pid, jid |-> nextjid, state |-> IF bg THEN "BG" ELSE "FG"]]
      BY <1>3, <2>4, FirstOfFinds DEF Add, addjob, Holding, jobVars
    <3>2. \A k \in Slots \ {i} : jobs'[k] = jobs[k]
      BY <3>1 DEF JobListTypeOK
    <3>3. /\ jobs'[i].pid = pid
          /\ jobs'[i].state # "UNDEF"
          /\ jobs'[i].state = "FG" => ~bg
      BY <3>1 DEF JobListTypeOK
    <3>. QED BY <1>0, <2>1, <2>2, <3>2, <3>3
             DEF ForegroundInv, ForegroundIsAwaited, NoForegroundJob, Alive
  <2>. QED BY <2>3, <2>4
<1>4. CASE Unblock
  <2>1. jobs' = jobs /\ handler' = handler /\ proc' = proc /\ Alive
    BY <1>4 DEF Unblock, BackToPrompt, Goto, jobVars, MainRuns
  <2>2. CASE bg
    BY <1>0, <1>4, <2>1, <2>2, NoForegroundElsewhere, ForegroundMainFrame
       DEF Unblock, BackToPrompt, Goto
  <2>3. CASE ~bg
    BY <1>0, <1>4, <2>1, <2>3 DEF Unblock, BackToPrompt, Goto,
       ForegroundInv, ForegroundIsAwaited, Alive
  <2>. QED BY <2>2, <2>3
<1>5. CASE EnterWaitfg
  <2>1. /\ jobs' = jobs /\ handler' = handler /\ proc' = proc /\ Alive
        /\ handler["CHLD"].at = "off"
    BY <1>5 DEF EnterWaitfg, BackToPrompt, Goto, jobVars, MainRuns, Active, Sig
  <2>2. CASE getjobpid(pid) = NoSlot
    <3>1. pid # NoPid => Holding(pid) = {}
      BY <2>2, GetjobpidFinds
    <3>2. NoForegroundJob
      BY <2>1, <3>1 DEF ForegroundInv, ForegroundIsAwaited, NoForegroundJob, Holding
    <3>. QED BY <1>0, <1>5, <2>1, <2>2, <3>2, ForegroundMainFrame
             DEF EnterWaitfg, BackToPrompt, Goto
  <2>3. CASE getjobpid(pid) # NoSlot
    BY <1>0, <1>5, <2>1, <2>3 DEF EnterWaitfg, BackToPrompt, Goto,
       ForegroundInv, ForegroundIsAwaited, Alive
  <2>. QED BY <2>2, <2>3
<1>6. CASE LeaveWaitfg
  <2>1. /\ jobs' = jobs /\ handler' = handler /\ proc' = proc /\ Alive
        /\ handler["CHLD"].at = "off" /\ pid # fgpid /\ pc' = "prompt"
    BY <1>6 DEF LeaveWaitfg, BackToPrompt, Goto, jobVars, MainRuns, Active, Sig
  <2>2. NoForegroundJob
    BY <2>1, FgpidIsPid
  <2>. QED BY <1>0, <2>1, <2>2, ForegroundMainFrame
<1>7. CASE FindByPid \/ FindByJid
  <2>1. NoForegroundJob /\ Alive /\ handler["CHLD"].at \notin {"stopped", "dead"}
    BY <1>7, NoForegroundElsewhere DEF FindByPid, FindByJid, ReadBgfg, MainRuns
  <2>2. jobs' = jobs /\ handler' = handler /\ proc' = proc
    BY <1>7 DEF FindByPid, FindByJid, Goto, jobVars
  <2>3. CASE FindByPid
    <3>1. pc' = "cont" /\ pid' \in Pid /\ jobs[job'].pid = pid'
      BY <2>3, GetjobpidFinds DEF FindByPid, Goto, Holding
    <3>. QED BY <1>0, <2>1, <2>2, <3>1
             DEF ForegroundInv, ForegroundIsAwaited, NoForegroundJob
  <2>4. CASE FindByJid
    <3>1. PICK n \in 1 .. MAXJID : getjobjid(n) # NoSlot /\ job' = getjobjid(n)
      BY <2>4 DEF FindByJid
    <3>2. job' \in Slots /\ n >= 1 /\ jobs[job'].jid = n
      BY <3>1, GetjobjidFinds
    <3>3. jobs[job'].pid \in Pid
      BY <3>2 DEF ForegroundInv, JobListTypeOK, Job
    <3>4. pc' = "readpid"
      BY <2>4 DEF FindByJid, Goto
    <3>. QED BY <1>0, <2>1, <2>2, <3>3, <3>4
             DEF ForegroundInv, ForegroundIsAwaited, NoForegroundJob
  <2>. QED BY <1>7, <2>3, <2>4
<1>7a. CASE ReadPid
  <2>1. NoForegroundJob /\ Alive /\ handler["CHLD"].at \notin {"stopped", "dead"}
    BY <1>7a, NoForegroundElsewhere DEF ReadPid, MainRuns
  <2>2. /\ jobs' = jobs /\ handler' = handler /\ proc' = proc /\ job' = job
        /\ pc = "readpid" /\ pc' = "cont" /\ pid' = jobs[job].pid
    BY <1>7a DEF ReadPid, Goto, jobVars
  <2>. QED BY <1>0, <2>1, <2>2 DEF ForegroundInv, ForegroundIsAwaited, NoForegroundJob
<1>8. CASE Cont
  <2>1. NoForegroundJob /\ Alive /\ handler["CHLD"].at \notin {"stopped", "dead"}
    BY <1>8, NoForegroundElsewhere DEF Cont, MainRuns
  <2>2. /\ jobs' = jobs /\ handler' = handler /\ pid' = pid /\ job' = job
        /\ pc = "cont" /\ pc' = "setstate"
    BY <1>8 DEF Cont, jobVars
  <2>3. \A p \in Pid : proc'[p].own = proc[p].own /\
             (~proc[p].own => proc'[p].life = proc[p].life)
    BY <1>8, ContinuedType DEF Cont, ForegroundInv
  <2>. QED BY <2>1, <2>2, <2>3
           DEF ForegroundInv, ForegroundIsAwaited, NoForegroundJob
<1>9. CASE SetState
  <2>1. NoForegroundJob /\ Alive /\ handler["CHLD"].at \notin {"stopped", "dead"}
    BY <1>9, NoForegroundElsewhere DEF SetState, MainRuns
  <2>2. /\ job \in Slots /\ pid \in Pid /\ jobs[job].pid = pid
        /\ handler' = handler /\ proc' = proc
    BY <1>9 DEF SetState, BackToPrompt, Goto, EvalInv, ForegroundInv
  <2>3. \A k \in Slots : jobs'[k].pid = jobs[k].pid /\ jobs'[k].jid = jobs[k].jid
    BY <1>9, <2>2 DEF SetState, SetJobState, JobListTypeOK, Job
  <2>4. \A k \in Slots : /\ jobs'[k].state = "FG" => k = job /\ ~bg
                         /\ jobs'[k].state = "UNDEF" => jobs[k].state = "UNDEF"
    BY <1>9, <2>1, <2>2
       DEF SetState, SetJobState, JobListTypeOK, Job, NoForegroundJob
  <2>5. CASE bg
    BY <1>0, <1>9, <2>1, <2>2, <2>3, <2>4, <2>5
       DEF SetState, BackToPrompt, Goto, ForegroundInv, ForegroundIsAwaited
  <2>6. CASE ~bg
    BY <1>0, <1>9, <2>1, <2>2, <2>3, <2>4, <2>6, JobListAssumption
       DEF SetState, BackToPrompt, Goto, ForegroundInv, ForegroundIsAwaited
  <2>. QED BY <2>5, <2>6
<1>10. CASE RereadPid
  <2>1. /\ Alive /\ jobs' = jobs /\ handler' = handler /\ proc' = proc /\ bg' = bg
        /\ pc = "reread" /\ pc' = "waitfg" /\ pid' = jobs[job].pid
    BY <1>10 DEF RereadPid, Goto, jobVars, MainRuns
  <2>. QED BY <1>0, <2>1 DEF ForegroundInv, ForegroundIsAwaited, Alive
<1>11. CASE Sigquit
  BY <1>0, <1>11 DEF Sigquit, Goto, jobVars, ForegroundInv, ForegroundIsAwaited, Alive
<1>12. CASE Wait
  <2>1. /\ jobs' = jobs /\ pc' = pc /\ pid' = pid /\ bg' = bg /\ job' = job /\ Alive
    BY <1>12 DEF Wait, jobVars, mainVars, HandlerRuns
  <2>2. CASE proc' = proc /\ Return("CHLD")
    BY <1>0, <2>1, <2>2, ForegroundFrame DEF Return, Idle, Sig
  <2>3. ASSUME NEW p \in Waitable(fgpid), NEW at \in {"stopped", "dead"},
               HandlerGoto("CHLD", at, p),
               \/ proc' = [proc EXCEPT ![p].told = TRUE]
               \/ proc' = [proc EXCEPT ![p] = NoProc]
        PROVE  ForegroundInv'
    <3>1. handler'["CHLD"].pid = p /\ p \in Pid
      BY <2>3 DEF HandlerGoto, Handler, Sig, Waitable
    <3>2. \A q \in Pid : ~proc'[q].own => proc'[q].life \in {"none", "forked"}
      BY <2>3 DEF ForegroundInv, NoProc, Proc
    <3>. QED BY <2>1, <3>1, <3>2, WaitableIsForeground
             DEF ForegroundInv, ForegroundIsAwaited, Alive
  <2>. QED BY <1>12, <2>2, <2>3 DEF Wait
<1>13. CASE MarkStopped
  <2>1. /\ pid' = pid /\ bg' = bg /\ job' = job /\ proc' = proc
        /\ Alive /\ handler["CHLD"].at = "stopped"
    BY <1>13 DEF MarkStopped, HandlerRuns
  <2>2. CASE pc' = "crashed" /\ jobs' = jobs /\ handler' = handler
    BY <1>0, <2>1, <2>2 DEF ForegroundInv, ForegroundIsAwaited, Alive
  <2>3. ASSUME NEW i \in Slots, SetJobState(i, "ST"), pc' = pc,
               HandlerGoto("CHLD", "enter", NoPid)
        PROVE  ForegroundInv'
    <3>1. \A k \in Slots : /\ jobs'[k].pid = jobs[k].pid
                           /\ jobs'[k].jid = jobs[k].jid
                           /\ jobs'[k].state = "FG" => jobs[k].state = "FG"
                           /\ jobs'[k].state = "UNDEF" => jobs[k].state = "UNDEF"
      BY <2>3 DEF SetJobState, JobListTypeOK, Job
    <3>2. handler'["CHLD"].at = "enter"
      BY <2>3 DEF HandlerGoto, Handler, Sig
    <3>. QED BY <1>0, <2>1, <2>3, <3>1, <3>2
             DEF ForegroundInv, ForegroundIsAwaited, Alive, EvalInv
  <2>. QED BY <1>13, <2>2, <2>3, GetjobpidType
           DEF MarkStopped, Goto, jobVars, Handler, Sig
<1>14. CASE DeleteDead
  <2>. DEFINE q == handler["CHLD"].pid
  <2>1. /\ pc' = pc /\ pid' = pid /\ bg' = bg /\ job' = job /\ proc' = proc
        /\ Alive /\ handler["CHLD"].at = "dead" /\ deletejob(q)
        /\ q \in Pid \cup {NoPid}
    BY <1>14 DEF DeleteDead, HandlerRuns, mainVars, Handler, Sig
  <2>2. pc \notin {"readpid", "cont", "setstate"}
    BY <2>1, NoForegroundElsewhere
  <2>3. handler'["CHLD"].at = "enter"
    BY <1>14 DEF DeleteDead, HandlerGoto, Handler, Sig
  <2>4. \A k \in Slots : jobs'[k] = jobs[k] \/ jobs'[k] = Cleared
    BY <2>1, GetjobpidType DEF deletejob, jobVars, JobListTypeOK
  <2>. QED BY <1>0, <2>1, <2>2, <2>3, <2>4
           DEF ForegroundInv, ForegroundIsAwaited, Alive, Cleared
<1>15. ASSUME NEW s \in {"INT", "TSTP"}, ReadForeground(s) \/ Forward(s)
       PROVE  ForegroundInv'
  <2>1. /\ jobs' = jobs /\ pc' = pc /\ pid' = pid /\ bg' = bg /\ job' = job
        /\ handler'["CHLD"] = handler["CHLD"]
    BY <1>15 DEF ReadForeground, Forward, Return, HandlerGoto, jobVars, mainVars, Sig
  <2>2. \A p \in Pid : proc'[p].life = proc[p].life /\ proc'[p].own = proc[p].own
    BY <1>15 DEF ReadForeground, Forward, Proc
  <2>. QED BY <2>1, <2>2, ForegroundFrame DEF ForegroundInv
<1>16. ASSUME NEW s \in Sig, KeyPress(s) \/ Deliver(s)
       PROVE  ForegroundInv'
  <2>1. /\ jobs' = jobs /\ pc' = pc /\ pid' = pid /\ bg' = bg /\ job' = job
        /\ proc' = proc
    BY <1>16 DEF KeyPress, Deliver, jobVars, mainVars
  <2>2. handler'["CHLD"].at \in {"stopped", "dead"} =>
             handler'["CHLD"] = handler["CHLD"]
    BY <1>16 DEF KeyPress, Deliver, Active, Sig
  <2>. QED BY <1>0, <2>1, <2>2, ForegroundFrame
<1>17. ASSUME NEW p \in Pid, Child(p) PROVE ForegroundInv'
  <2>1. /\ jobs' = jobs /\ pc' = pc /\ pid' = pid /\ bg' = bg /\ job' = job
        /\ handler' = handler
    BY <1>17 DEF Child, Setpgid, Exec, Swallow, Exit, Stop, TakeSignal, Becomes,
       jobVars, mainVars
  <2>2. \A r \in Pid : ~proc'[r].own => proc'[r].life \in {"none", "forked"}
    BY <1>17 DEF Child, Setpgid, Exec, Swallow, Exit, Stop, TakeSignal, Becomes,
       Proc, ForegroundInv
  <2>. QED BY <2>1, <2>2, ForegroundFrame
<1>18. CASE UNCHANGED vars
  BY <1>0, <1>18, ForegroundFrame DEF vars
<1>. QED BY <1>1, <1>2, <1>3, <1>4, <1>5, <1>6, <1>7, <1>7a, <1>8, <1>9, <1>10,
         <1>11, <1>12, <1>13, <1>14, <1>15, <1>16, <1>17, <1>18
     DEF Next, Main, Handlers

LEMMA InitForegroundInv == Init => ForegroundInv
BY DEF Init, initjobs, ForegroundInv, ForegroundIsAwaited, Cleared, Idle, NoProc, Sig

LEMMA ForegroundAlways == EarlySignals = FALSE => (Spec => [](TypeInv /\ ForegroundInv))
<1>. SUFFICES ASSUME EarlySignals = FALSE PROVE Spec => [](TypeInv /\ ForegroundInv)
  OBVIOUS
<1>1. Init => TypeInv /\ ForegroundInv
  BY InitTypeInv, InitForegroundInv
<1>2. TypeInv /\ ForegroundInv /\ [Next]_vars => (TypeInv /\ ForegroundInv)'
  BY TypeStep, ForegroundStep
<1>. QED BY <1>1, <1>2, PTL DEF Spec

\* The job in the foreground is the one main waits for, as long as no child
\* is killed or stopped before it has its own process group.
THEOREM ForegroundAwaited == EarlySignals = FALSE => (Spec => []ForegroundIsAwaited)
<1>1. ForegroundInv => ForegroundIsAwaited
  BY DEF ForegroundInv
<1>. QED BY <1>1, ForegroundAlways, PTL

\* The handler of SIGCHLD finds an entry for every stopped child it has in
\* hand, under the same assumption: it dereferences no NULL pointer.
THEOREM HandlerHasJob == EarlySignals = FALSE => (Spec => []HandlerFindsJob)
<1>1. TypeInv /\ ForegroundInv => HandlerFindsJob
  BY GetjobpidFinds DEF ForegroundInv, HandlerFindsJob, Holding
<1>. QED BY <1>1, ForegroundAlways, PTL

-----------------------------------------------------------------------------
(* Stopped jobs.                                                           *)

\* A child that the handler of SIGCHLD has found stopped does not run again
\* before its entry says ST.
StoppedInv ==
    /\ StoppedJobsAreStopped
    /\ \A i \in Slots : jobs[i].state = "ST" => jobs[i].pid # NoPid
    /\ handler["CHLD"].at = "stopped" =>
          /\ handler["CHLD"].pid \in Pid
          /\ proc[handler["CHLD"].pid].life \in {"stopped", "zombie"}

\* What stops no job, resumes no child and does not move main.
LEMMA StoppedFrame ==
    ASSUME TypeInv, StoppedInv, pc' = pc, pid' = pid, job' = job,
           \A i \in Slots : /\ jobs'[i].pid = jobs[i].pid
                            /\ jobs'[i].state = jobs[i].state,
           handler["CHLD"].at = "dead" => handler'["CHLD"] = handler["CHLD"],
           handler'["CHLD"].at = "stopped" => handler'["CHLD"] = handler["CHLD"],
           \A p \in Pid : proc[p].life \in {"stopped", "zombie"} =>
                          proc'[p].life \in {"stopped", "zombie"}
    PROVE  StoppedInv'
<1>1. \A i \in Slots : jobs[i].pid \in Pid \cup {NoPid}
  BY DEF TypeInv, TypeOK, JobListTypeOK, Job
<1>. QED BY <1>1 DEF StoppedInv, StoppedJobsAreStopped, Alive

\* Steps of main that change neither the list nor a child.
LEMMA StoppedMainFrame ==
    ASSUME StoppedInv, Alive, jobs' = jobs, handler' = handler, proc' = proc,
           pc # "setstate"
    PROVE  StoppedInv'
BY DEF StoppedInv, StoppedJobsAreStopped, Alive

\* Every step keeps StoppedInv, as the only child that do_bgfg resumes is the
\* one its pointer is to.
LEMMA StoppedStep ==
    ASSUME TypeInv, ChildInv, ForegroundInv, StoppedInv, [Next]_vars
    PROVE  StoppedInv'
<1>. USE DEF TypeInv, TypeOK
<1>1. CASE ReadRun \/ ForkFails \/ Unblock \/ EnterWaitfg \/ LeaveWaitfg
           \/ FindByPid \/ FindByJid \/ ReadPid \/ RereadPid \/ BlankLine \/ Quit
  <2>1. /\ Alive /\ jobs' = jobs /\ handler' = handler /\ proc' = proc
        /\ pc # "setstate"
    BY <1>1 DEF ReadRun, ForkFails, Unblock, EnterWaitfg, LeaveWaitfg, FindByPid,
       FindByJid, ReadBgfg, ReadPid, RereadPid, BlankLine, Quit, BackToPrompt, Goto,
       jobVars, MainRuns
  <2>. QED BY <2>1, StoppedMainFrame
<1>2. CASE Sigquit
  BY <1>2 DEF Sigquit, Goto, jobVars, Alive, StoppedInv, StoppedJobsAreStopped
<1>3. CASE Fork
  <2>1. PICK p \in Pid : /\ proc[p] = NoProc
                         /\ proc' = [proc EXCEPT ![p].life = "forked"]
    BY <1>3 DEF Fork
  <2>2. /\ Alive /\ jobs' = jobs /\ handler' = handler /\ pc = "fork" /\ pc' = "add"
    BY <1>3 DEF Fork, Goto, jobVars, MainRuns
  <2>3. \A q \in Pid : proc[q].life \in {"stopped", "zombie"} => proc'[q] = proc[q]
    BY <2>1 DEF NoProc
  <2>4. \A i \in Slots : jobs[i].pid \in Pid \cup {NoPid}
    BY DEF JobListTypeOK, Job
  <2>. QED BY <2>2, <2>3, <2>4 DEF StoppedInv, StoppedJobsAreStopped, Alive
<1>4. CASE Add
  <2>1. /\ Alive /\ handler' = handler /\ proc' = proc
        /\ pc = "add" /\ pc' = "unblock" /\ pid \in Pid
    BY <1>4 DEF Add, Goto, MainRuns, EvalInv
  <2>2. \A k \in Slots : jobs'[k].state = "ST" => jobs'[k] = jobs[k]
    <3>1. CASE jobs' = jobs
      BY <3>1
    <3>2. CASE jobs' # jobs
      <4>1. PICK i \in Slots :
               jobs' = [jobs EXCEPT ![i] =
                  [pid |-> pid, jid |-> nextjid, state |-> IF bg THEN "BG" ELSE "FG"]]
        BY <1>4, <3>2, FirstOfFinds DEF Add, addjob, Holding, jobVars
      <4>. QED BY <4>1 DEF JobListTypeOK
    <3>. QED BY <3>1, <3>2
  <2>. QED BY <2>1, <2>2 DEF StoppedInv, StoppedJobsAreStopped, Alive
<1>5. CASE Cont
  <2>1. /\ Alive /\ jobs' = jobs /\ handler' = handler /\ job' = job
        /\ pc = "cont" /\ pc' = "setstate" /\ handler["CHLD"].at = "off"
    BY <1>5 DEF Cont, jobVars, MainRuns, Active, Sig
  <2>2. pid \in Pid /\ jobs[job].pid = pid /\ job \in Slots
    BY <2>1 DEF ForegroundInv, EvalInv
  <2>3. \A q \in Pid \ {pid} : proc'[q] = proc[q]
    BY <1>5, <2>2, JobListAssumption DEF Cont, Members
  <2>4. \A i \in Slots : jobs[i].pid \in Pid \cup {NoPid}
    BY DEF JobListTypeOK, Job
  <2>5. \A i \in Slots \ {job} : jobs[i].pid # pid
    BY <2>2, JobListAssumption DEF ChildInv, JobsMatchChildren
  <2>. QED BY <2>1, <2>3, <2>4, <2>5 DEF StoppedInv, StoppedJobsAreStopped, Alive
<1>6. CASE SetState
  <2>1. /\ Alive /\ handler' = handler /\ proc' = proc /\ job \in Slots
        /\ pc = "setstate"
    BY <1>6 DEF SetState, BackToPrompt, Goto, MainRuns, EvalInv
  <2>2. \A k \in Slots : jobs'[k].state = "ST" => k # job /\ jobs'[k] = jobs[k]
    BY <1>6, <2>1 DEF SetState, SetJobState, JobListTypeOK, Job
  <2>. QED BY <2>1, <2>2 DEF StoppedInv, StoppedJobsAreStopped, Alive
<1>7. CASE Wait
  <2>1. /\ jobs' = jobs /\ pc' = pc /\ pid' = pid /\ job' = job
        /\ handler["CHLD"].at = "enter"
    BY <1>7 DEF Wait, jobVars, mainVars
  <2>2. CASE proc' = proc /\ Return("CHLD")
    BY <2>1, <2>2, StoppedFrame DEF Return, Idle, Sig
  <2>3. ASSUME NEW p \in Pid, proc' = [proc EXCEPT ![p] = NoProc],
               HandlerGoto("CHLD", "dead", p)
        PROVE  StoppedInv'
    <3>1. handler'["CHLD"].at = "dead" /\ handler'["CHLD"].pid = p
      BY <2>3 DEF HandlerGoto, Handler, Sig
    <3>2. \A q \in Pid \ {p} : proc'[q] = proc[q]
      BY <2>3
    <3>3. \A i \in Slots : jobs[i].pid \in Pid \cup {NoPid}
      BY DEF JobListTypeOK, Job
    <3>. QED BY <2>1, <3>1, <3>2, <3>3 DEF StoppedInv, StoppedJobsAreStopped, Alive
  <2>4. ASSUME NEW p \in Pid, proc[p].life = "stopped",
               proc' = [proc EXCEPT ![p].told = TRUE],
               HandlerGoto("CHLD", "stopped", p)
        PROVE  StoppedInv'
    <3>1. handler'["CHLD"].at = "stopped" /\ handler'["CHLD"].pid = p
      BY <2>4 DEF HandlerGoto, Handler, Sig
    <3>2. \A q \in Pid : proc'[q].life = proc[q].life
      BY <2>4 DEF Proc
    <3>3. \A i \in Slots : jobs[i].pid \in Pid \cup {NoPid}
      BY DEF JobListTypeOK, Job
    <3>. QED BY <2>1, <2>4, <3>1, <3>2, <3>3
             DEF StoppedInv, StoppedJobsAreStopped, Alive
  <2>. QED BY <1>7, <2>2, <2>3, <2>4 DEF Wait, Waitable, Changed
<1>8. CASE MarkStopped
  <2>1. /\ handler["CHLD"].at = "stopped" /\ handler["CHLD"].pid \in Pid /\ Alive
        /\ pid' = pid /\ job' = job /\ proc' = proc
    BY <1>8 DEF MarkStopped, HandlerRuns, StoppedInv
  <2>2. CASE pc' = "crashed" /\ jobs' = jobs /\ handler' = handler
    BY <2>1, <2>2 DEF StoppedInv, StoppedJobsAreStopped, Alive
  <2>3. ASSUME NEW i \in Slots, i = getjobpid(handler["CHLD"].pid),
               SetJobState(i, "ST"), pc' = pc, HandlerGoto("CHLD", "enter", NoPid)
        PROVE  StoppedInv'
    <3>1. jobs[i].pid = handler["CHLD"].pid
      <4>1. i # NoSlot
        BY JobListAssumption DEF Slots, NoSlot
      <4>. QED BY <2>1, <2>3, <4>1, GetjobpidFinds DEF Holding
    <3>2. \A k \in Slots : /\ jobs'[k].pid = jobs[k].pid
                           /\ k # i => jobs'[k].state = jobs[k].state
      BY <2>3 DEF SetJobState, JobListTypeOK, Job
    <3>3. handler'["CHLD"].at = "enter"
      BY <2>3 DEF HandlerGoto, Handler, Sig
    <3>. QED BY <2>1, <2>3, <3>1, <3>2, <3>3, JobListAssumption
             DEF StoppedInv, StoppedJobsAreStopped, Alive
  <2>. QED BY <1>8, <2>1, <2>2, <2>3, GetjobpidType
           DEF MarkStopped, Goto, jobVars
<1>9. CASE DeleteDead
  <2>. DEFINE q == handler["CHLD"].pid
  <2>1. /\ handler["CHLD"].at = "dead" /\ deletejob(q) /\ proc' = proc
        /\ pc' = pc /\ pid' = pid /\ job' = job /\ q \in Pid \cup {NoPid}
        /\ handler'["CHLD"].at = "enter"
    BY <1>9 DEF DeleteDead, HandlerGoto, mainVars, Handler, Sig
  <2>2. \A k \in Slots : \/ jobs'[k] = Cleared
                         \/ jobs'[k] = jobs[k] /\ (jobs[k].pid = NoPid \/ jobs[k].pid # q)
    <3>1. CASE getjobpid(q) = NoSlot
      BY <2>1, <3>1, GetjobpidFinds DEF deletejob, jobVars, Holding
    <3>2. CASE getjobpid(q) # NoSlot
      <4>1. q \in Pid /\ getjobpid(q) \in Slots /\ jobs[getjobpid(q)].pid = q
        BY <2>1, <3>2, GetjobpidFinds DEF getjobpid, Holding
      <4>2. jobs' = [jobs EXCEPT ![getjobpid(q)] = Cleared]
        BY <2>1, <3>2 DEF deletejob
      <4>3. \A k \in Slots \ {getjobpid(q)} : jobs[k].pid # q
        BY <4>1, JobListAssumption DEF ChildInv, JobsMatchChildren
      <4>. QED BY <4>1, <4>2, <4>3 DEF JobListTypeOK
    <3>. QED BY <3>1, <3>2
  <2>3. Cleared.state # "ST" /\ Cleared.pid = NoPid
    BY DEF Cleared
  <2>. QED BY <2>1, <2>2, <2>3 DEF StoppedInv, StoppedJobsAreStopped, Alive
<1>10. ASSUME NEW r \in {"INT", "TSTP"}, ReadForeground(r) \/ Forward(r)
       PROVE  StoppedInv'
  <2>1. /\ jobs' = jobs /\ pc' = pc /\ pid' = pid /\ job' = job
        /\ handler'["CHLD"] = handler["CHLD"]
    BY <1>10 DEF ReadForeground, Forward, Return, HandlerGoto, jobVars, mainVars, Sig
  <2>2. \A p \in Pid : proc'[p].life = proc[p].life
    BY <1>10 DEF ReadForeground, Forward, Proc
  <2>. QED BY <2>1, <2>2, StoppedFrame
<1>11. ASSUME NEW r \in Sig, KeyPress(r) \/ Deliver(r)
       PROVE  StoppedInv'
  <2>1. jobs' = jobs /\ pc' = pc /\ pid' = pid /\ job' = job /\ proc' = proc
    BY <1>11 DEF KeyPress, Deliver, jobVars, mainVars
  <2>2. handler["CHLD"].at = "dead" \/ handler'["CHLD"].at = "stopped" =>
             handler'["CHLD"] = handler["CHLD"]
    BY <1>11 DEF KeyPress, Deliver, Active, Sig
  <2>. QED BY <2>1, <2>2, StoppedFrame
<1>12. ASSUME NEW p \in Pid, Child(p) PROVE StoppedInv'
  <2>1. jobs' = jobs /\ pc' = pc /\ pid' = pid /\ job' = job /\ handler' = handler
    BY <1>12 DEF Child, Setpgid, Exec, Swallow, Exit, Stop, TakeSignal, Becomes,
       jobVars, mainVars
  <2>2. \A q \in Pid : proc[q].life \in {"stopped", "zombie"} =>
                       proc'[q].life \in {"stopped", "zombie"}
    BY <1>12 DEF Child, Setpgid, Exec, Swallow, Exit, Stop, TakeSignal, Becomes, Proc
  <2>. QED BY <2>1, <2>2, StoppedFrame
<1>13. CASE UNCHANGED vars
  BY <1>13, StoppedFrame DEF vars
<1>. QED BY <1>1, <1>2, <1>3, <1>4, <1>5, <1>6, <1>7, <1>8, <1>9, <1>10,
         <1>11, <1>12, <1>13 DEF Next, Main, Handlers

LEMMA InitStoppedInv == Init => StoppedInv
BY DEF Init, initjobs, StoppedInv, StoppedJobsAreStopped, Cleared, Idle, Sig

\* A job marked ST is stopped or dead, except while do_bgfg is between its
\* kill(-pid, SIGCONT) and the assignment to its state: for any number of
\* children, however handlers interrupt each other, under the same assumption.
\* Without it do_bgfg may call kill(0, SIGCONT), which resumes others.
THEOREM StoppedJobsStayStopped == EarlySignals = FALSE => (Spec => []StoppedJobsAreStopped)
<1>. SUFFICES ASSUME EarlySignals = FALSE PROVE Spec => []StoppedJobsAreStopped
  OBVIOUS
<1>1. Init => TypeInv /\ ChildInv /\ ForegroundInv /\ StoppedInv
  BY InitTypeInv, InitChildInv, InitForegroundInv, InitStoppedInv
<1>2. TypeInv /\ ChildInv /\ ForegroundInv /\ StoppedInv /\ [Next]_vars
        => (TypeInv /\ ChildInv /\ ForegroundInv /\ StoppedInv)'
  BY TypeStep, ChildStep, ForegroundStep, StoppedStep
<1>3. StoppedInv => StoppedJobsAreStopped
  BY DEF StoppedInv
<1>. QED BY <1>1, <1>2, <1>3, PTL DEF Spec

-----------------------------------------------------------------------------
(* At most one job in the foreground, also after the shell has gone.       *)

\* A step after which the shell is gone leaves the list as it was.
LEMMA LastStep ==
    ASSUME [Next]_vars, ~Alive'
    PROVE  jobs' = jobs
<1>. USE DEF jobVars, Goto, BackToPrompt, Alive, MainRuns, HandlerRuns
<1>1. CASE Main
  BY <1>1 DEF Main, ReadRun, Fork, ForkFails, Add, Unblock, EnterWaitfg, LeaveWaitfg,
     FindByPid, FindByJid, ReadPid, Cont, SetState, RereadPid, BlankLine, Quit, Sigquit
<1>2. CASE Handlers
  BY <1>2 DEF Handlers, Wait, MarkStopped, DeleteDead, ReadForeground, Forward, mainVars
<1>3. ASSUME NEW s \in Sig, KeyPress(s) \/ Deliver(s) PROVE jobs' = jobs
  BY <1>3 DEF KeyPress, Deliver
<1>4. ASSUME NEW p \in Pid, Child(p) PROVE jobs' = jobs
  BY <1>4 DEF Child, Setpgid, Exec, Swallow, Exit, Stop, TakeSignal, Becomes
<1>5. CASE UNCHANGED vars
  BY <1>5 DEF vars
<1>. QED BY <1>1, <1>2, <1>3, <1>4, <1>5 DEF Next

\* No two jobs are in the foreground, unless others can kill or stop a child
\* before it has its own process group.
THEOREM OneForeground == EarlySignals = FALSE => (Spec => []AtMostOneForeground)
<1>. SUFFICES ASSUME EarlySignals = FALSE PROVE Spec => []AtMostOneForeground
  OBVIOUS
<1>1. Alive /\ ForegroundIsAwaited /\ JobsMatchChildren => AtMostOneForeground
  BY DEF ForegroundIsAwaited, JobsMatchChildren, AtMostOneForeground
<1>2. Init => AtMostOneForeground
  BY DEF Init, initjobs, Cleared, AtMostOneForeground
<1>3. /\ AtMostOneForeground /\ [Next]_vars
      /\ ForegroundIsAwaited' /\ JobsMatchChildren'
      => AtMostOneForeground'
  <2>. SUFFICES ASSUME AtMostOneForeground, [Next]_vars,
                       ForegroundIsAwaited', JobsMatchChildren'
                PROVE  AtMostOneForeground'
    OBVIOUS
  <2>1. CASE Alive'
    BY <2>1 DEF ForegroundIsAwaited, JobsMatchChildren, AtMostOneForeground
  <2>2. CASE ~Alive'
    BY <2>2, LastStep DEF AtMostOneForeground
  <2>. QED BY <2>1, <2>2
<1>4. Spec => []ForegroundIsAwaited
  BY ForegroundAwaited
<1>. QED BY <1>2, <1>3, <1>4, ListMatchesChildren, PTL DEF Spec

-----------------------------------------------------------------------------
(* The documented diagram.                                                 *)

\* What StateOf reads when every process is listed at most once.
StateOfReadsList ==
    \A p \in Pid :
        /\ \A i \in Slots : jobs[i].pid = p => StateOf(p) = jobs[i].state
        /\ (\A i \in Slots : jobs[i].pid # p) => StateOf(p) = "none"

LEMMA StateOfReads == TypeInv /\ ChildInv => StateOfReadsList
<1>. SUFFICES ASSUME TypeInv, ChildInv, NEW p \in Pid
              PROVE  /\ \A i \in Slots : jobs[i].pid = p => StateOf(p) = jobs[i].state
                     /\ (\A i \in Slots : jobs[i].pid # p) => StateOf(p) = "none"
  BY DEF StateOfReadsList
<1>1. ASSUME NEW i \in Slots, jobs[i].pid = p PROVE StateOf(p) = jobs[i].state
  <2>1. getjobpid(p) \in Slots /\ jobs[getjobpid(p)].pid = p /\ getjobpid(p) # NoSlot
    BY <1>1, GetjobpidFinds DEF Holding
  <2>2. getjobpid(p) = i
    BY <1>1, <2>1, JobListAssumption DEF ChildInv, JobsMatchChildren
  <2>. QED BY <2>1, <2>2 DEF StateOf
<1>2. ASSUME \A i \in Slots : jobs[i].pid # p PROVE StateOf(p) = "none"
  BY <1>2, GetjobpidFinds DEF StateOf, Holding
<1>. QED BY <1>1, <1>2

\* The same after a step.
LEMMA StateOfReadsNext == TypeInv' /\ ChildInv' => StateOfReadsList'
BY StateOfReads, PTL

Inv == TypeInv /\ ChildInv /\ ForegroundInv

States == [p \in Pid |-> StateOf(p)]

\* Without a job in the foreground JobControl has none either.
LEMMA NoForegroundMapped ==
    ASSUME Inv, NoForegroundJob
    PROVE  JC!NoForeground
<1>1. \A p \in Pid : StateOf(p) # "FG"
  BY StateOfReads DEF StateOfReadsList, Inv, NoForegroundJob
<1>. QED BY <1>1 DEF JC!NoForeground

\* A change of one entry, of a listed process, changes one mapped state.
LEMMA OneStateChanges ==
    ASSUME Inv, Inv', NEW p \in Pid, NEW i \in Slots,
           \A k \in Slots \ {i} : jobs'[k].pid = jobs[k].pid /\ jobs'[k].state = jobs[k].state,
           jobs[i].pid \in {p, NoPid}, jobs'[i].pid \in {p, NoPid}
    PROVE  States' = [States EXCEPT ![p] = StateOf(p)']
<1>1. StateOfReadsList /\ StateOfReadsList'
  BY StateOfReads, StateOfReadsNext DEF Inv
<1>2. ASSUME NEW q \in Pid, q # p PROVE StateOf(q)' = StateOf(q)
  BY <1>1, <1>2, JobListAssumption DEF StateOfReadsList
<1>. QED BY <1>2 DEF States

\* Steps that keep the list keep the mapped states.
LEMMA SameList ==
    ASSUME jobs' = jobs
    PROVE  States' = States
BY DEF States, StateOf, getjobpid, Holding

\* Every step of the shell is a step of JobControl, or leaves its state alone.
LEMMA StepRefines ==
    ASSUME Inv, Inv', [Next]_vars
    PROVE  [JC!Next]_States
<1>a. /\ TypeInv /\ ChildInv /\ ForegroundInv
      /\ JobListTypeOK /\ handler \in [Sig -> Handler] /\ EvalInv
      /\ JobsMatchChildren
  BY DEF Inv, TypeInv, TypeOK, ChildInv
<1>b. StateOfReadsList /\ StateOfReadsList'
  BY StateOfReads, StateOfReadsNext DEF Inv
<1>1. CASE Add
  <2>0. PICK p \in Pid : p = pid
    BY <1>a, <1>1 DEF Add, EvalInv
  <2>1. /\ p = pid /\ Alive /\ pc = "add" /\ Holding(p) = {}
        /\ NoForegroundJob
    BY <1>a, <1>1, <2>0, NoForegroundElsewhere DEF Add, MainRuns, EvalInv, ChildInv
  <2>2. CASE jobs' = jobs
    BY <2>2, SameList
  <2>3. CASE jobs' # jobs
    <3>. DEFINE st == IF bg THEN "BG" ELSE "FG"
    <3>1. PICK i \in Holding(NoPid) :
             jobs' = [jobs EXCEPT ![i] = [pid |-> p, jid |-> nextjid, state |-> st]]
      BY <1>a, <1>1, <2>1, <2>3, FirstOfFinds DEF Add, addjob, Holding, jobVars
    <3>2. /\ i \in Slots /\ jobs[i].pid = NoPid
          /\ jobs'[i].pid = p /\ jobs'[i].state = st
          /\ \A k \in Slots \ {i} : jobs'[k] = jobs[k]
      BY <1>a, <3>1 DEF JobListTypeOK, Holding
    <3>3. StateOf(p)' = st /\ StateOf(p) = "none"
      BY <1>a, <2>1, <3>2, <1>b DEF StateOfReadsList, Holding
    <3>4. States' = [States EXCEPT ![p] = st]
      BY <2>1, <3>2, <3>3, OneStateChanges
    <3>5. JC!Move(p, "none", st)
      BY <2>1, <3>3, <3>4 DEF States, JC!Move
    <3>. QED BY <2>1, <3>3, <3>5, NoForegroundMapped
             DEF JC!Next, JC!LaunchForeground, JC!LaunchBackground
  <2>. QED BY <2>2, <2>3
<1>2. CASE SetState
  <2>. DEFINE st == IF bg THEN "BG" ELSE "FG"
  <2>0. PICK p \in Pid : p = pid
    BY <1>a, <1>2 DEF SetState, ForegroundInv
  <2>1. /\ p = pid /\ Alive /\ job \in Slots /\ jobs[job].pid = pid
        /\ NoForegroundJob
    BY <1>a, <1>2, <2>0, NoForegroundElsewhere DEF SetState, MainRuns, EvalInv, ForegroundInv
  <2>2. /\ jobs'[job].pid = p /\ jobs'[job].state = st
        /\ \A k \in Slots \ {job} : jobs'[k] = jobs[k]
    BY <1>a, <1>2, <2>1 DEF SetState, SetJobState, JobListTypeOK, Job
  <2>3. StateOf(p)' = st /\ StateOf(p) = jobs[job].state
    BY <2>1, <2>2, <1>b DEF StateOfReadsList
  <2>4. States' = [States EXCEPT ![p] = st]
    BY <2>1, <2>2, <2>3, OneStateChanges
  <2>5. jobs[job].state \in {"BG", "ST"}
    BY <1>a, <2>1, JobListAssumption
       DEF ForegroundInv, NoForegroundJob, JobListTypeOK, Job, JobState
  <2>6. JC!Move(p, jobs[job].state, st)
    BY <2>1, <2>3, <2>4 DEF States, JC!Move
  <2>7. CASE jobs[job].state = st
    BY <2>1, <2>3, <2>4, <2>7 DEF States
  <2>8. CASE jobs[job].state # st
    BY <2>1, <2>3, <2>5, <2>6, <2>8, NoForegroundMapped
       DEF JC!Next, JC!FgCommand, JC!BgCommand
  <2>. QED BY <2>7, <2>8
<1>3. CASE MarkStopped
  <2>0. PICK p \in Pid : p = handler["CHLD"].pid
    BY <1>a, <1>3 DEF MarkStopped, ForegroundInv
  <2>1. PICK i \in Slots : jobs[i].state = "FG" /\ jobs[i].pid = p
    BY <2>0, <1>a, <1>3 DEF MarkStopped, ForegroundInv
  <2>2. CASE jobs' = jobs
    BY <2>2, SameList
  <2>3. CASE jobs' # jobs
    <3>1. getjobpid(p) = i
      BY <1>a, <2>1, GetjobpidFinds, JobListAssumption DEF Holding, JobsMatchChildren
    <3>2. SetJobState(i, "ST")
      BY <1>3, <2>0, <2>3, <3>1 DEF MarkStopped, jobVars
    <3>3. /\ jobs'[i].pid = p /\ jobs'[i].state = "ST"
          /\ \A k \in Slots \ {i} : jobs'[k] = jobs[k]
      BY <1>a, <2>1, <3>2 DEF SetJobState, JobListTypeOK, Job
    <3>4. StateOf(p)' = "ST" /\ StateOf(p) = "FG"
      BY <2>1, <3>3, <1>b DEF StateOfReadsList
    <3>5. States' = [States EXCEPT ![p] = "ST"]
      BY <2>1, <3>3, <3>4, OneStateChanges
    <3>6. JC!Move(p, "FG", "ST")
      BY <2>1, <3>4, <3>5 DEF States, JC!Move
    <3>. QED BY <2>1, <3>4, <3>6 DEF JC!Next, JC!CtrlZ
  <2>. QED BY <2>2, <2>3
<1>4. CASE DeleteDead
  <2>0. PICK p \in Pid : p = handler["CHLD"].pid
    BY <1>a, <1>4 DEF DeleteDead, ForegroundInv
  <2>1. PICK i \in Slots : jobs[i].state = "FG" /\ jobs[i].pid = p
    BY <2>0, <1>a, <1>4 DEF DeleteDead, ForegroundInv
  <2>2. getjobpid(p) = i
    BY <1>a, <2>1, GetjobpidFinds, JobListAssumption DEF Holding, JobsMatchChildren
  <2>3. jobs' = [jobs EXCEPT ![i] = Cleared]
    <3>1. i # NoSlot
      BY <1>a, <2>1, <2>2, GetjobpidFinds DEF Holding
    <3>2. deletejob(p)
      BY <1>4, <2>0 DEF DeleteDead
    <3>. QED BY <2>2, <3>1, <3>2 DEF deletejob
  <2>4. /\ jobs'[i].pid = NoPid
        /\ \A k \in Slots \ {i} : jobs'[k] = jobs[k] /\ jobs[k].pid # p
    BY <1>a, <2>1, <2>3, JobListAssumption
       DEF JobListTypeOK, Cleared, JobsMatchChildren
  <2>5. StateOf(p)' = "none" /\ StateOf(p) = "FG"
    BY <2>1, <2>4, <1>b, JobListAssumption DEF StateOfReadsList
  <2>6. States' = [States EXCEPT ![p] = "none"]
    BY <2>1, <2>4, <2>5, OneStateChanges
  <2>7. JC!Move(p, "FG", "none")
    BY <2>1, <2>5, <2>6 DEF States, JC!Move
  <2>. QED BY <2>1, <2>5, <2>7 DEF JC!Next, JC!End
<1>5. CASE ~(Add \/ SetState \/ MarkStopped \/ DeleteDead)
  <2>. USE DEF jobVars
  <2>1. CASE Main
    <3>1. jobs' = jobs
      BY <1>5, <2>1 DEF Main, ReadRun, Fork, ForkFails, Unblock, EnterWaitfg,
         LeaveWaitfg, FindByPid, FindByJid, ReadPid, Cont, RereadPid, BlankLine, Quit, Sigquit
    <3>. QED BY <3>1, SameList
  <2>2. CASE Handlers
    <3>1. jobs' = jobs
      BY <1>5, <2>2 DEF Handlers, Wait, ReadForeground, Forward
    <3>. QED BY <3>1, SameList
  <2>3. ASSUME NEW s \in Sig, KeyPress(s) \/ Deliver(s) PROVE jobs' = jobs
    BY <2>3 DEF KeyPress, Deliver
  <2>4. ASSUME NEW p \in Pid, Child(p) PROVE jobs' = jobs
    BY <2>4 DEF Child, Setpgid, Exec, Swallow, Exit, Stop, TakeSignal, Becomes
  <2>5. CASE UNCHANGED vars
    BY <2>5, SameList DEF vars
  <2>. QED BY <2>1, <2>2, <2>3, <2>4, <2>5, SameList DEF Next
<1>. QED BY <1>1, <1>2, <1>3, <1>4, <1>5

\* The job list only moves along the documented diagram of job states, with
\* at most one job in the foreground, unless others can kill or stop a child
\* before it has its own process group.
THEOREM JobControlImplemented == EarlySignals = FALSE => (Spec => ImplementsJobControl)
<1>. SUFFICES ASSUME EarlySignals = FALSE PROVE Spec => JC!Spec
  BY DEF ImplementsJobControl
<1>1. Init => Inv
  BY InitTypeInv, InitChildInv, InitForegroundInv DEF Inv
<1>2. Inv /\ [Next]_vars => Inv'
  BY TypeStep, ChildStep, ForegroundStep DEF Inv
<1>3. Init => JC!Init
  <2>1. Init => \A p \in Pid : StateOf(p) = "none"
    BY <1>1, StateOfReads, JobListAssumption
       DEF Inv, StateOfReadsList, Init, initjobs, Cleared
  <2>. QED BY <2>1 DEF JC!Init
<1>4. Inv /\ Inv' /\ [Next]_vars => [JC!Next]_States
  BY StepRefines
<1>. QED BY <1>1, <1>2, <1>3, <1>4, PTL DEF Spec, JC!Spec, States

-----------------------------------------------------------------------------
(* Process ids held across an interruption.                                *)

\* A child whose death the handler of SIGCHLD has in hand is reaped, and stays
\* so: main, which forks, does not run.
KillInv ==
    /\ KillsReachTheirJob
    /\ \A s \in {"INT", "TSTP"} : handler[s].at = "kill" => handler[s].pid \in Pid
    /\ handler["CHLD"].at = "dead" =>
        handler["CHLD"].pid \in Pid /\ proc[handler["CHLD"].pid].life = "none"

\* What leaves main alone, forks nothing and takes no living child off the list.
LEMMA KillFrame ==
    ASSUME TypeInv, KillInv, pid' = pid, job' = job, pc' = "cont" => pc = "cont",
           \A s \in {"INT", "TSTP"} : handler'[s] = handler[s] \/ handler'[s].at # "kill",
           handler'["CHLD"].at = "dead" =>
               /\ handler'["CHLD"].pid \in Pid
               /\ proc'[handler'["CHLD"].pid].life = "none",
           \A p \in Pid : proc[p].life = "none" => proc'[p].life = "none",
           \A k \in Slots :
               \/ /\ jobs'[k].pid = jobs[k].pid
                  /\ jobs'[k].state \in {jobs[k].state, "ST"}
               \/ jobs[k].pid \in Pid /\ proc'[jobs[k].pid].life = "none"
    PROVE  KillInv'
<1>1. \A s \in {"INT", "TSTP"} : handler'[s].at = "kill" =>
          /\ handler'[s].pid \in Pid
          /\ \/ proc'[handler'[s].pid].life = "none"
             \/ \E i \in Slots : /\ jobs'[i].pid = handler'[s].pid
                                 /\ jobs'[i].state \in {"FG", "ST"}
  BY DEF KillInv, KillsReachTheirJob
<1>2. pc' = "cont" /\ pid' # NoPid =>
          proc'[pid'].life = "none" \/ jobs'[job'].pid = pid'
  BY DEF KillInv, KillsReachTheirJob, TypeInv, TypeOK, EvalInv
<1>. QED BY <1>1, <1>2 DEF KillInv, KillsReachTheirJob

\* Every step keeps KillInv.
LEMMA KillStep ==
    ASSUME TypeInv, ChildInv, KillInv, [Next]_vars
    PROVE  KillInv'
<1>a. /\ JobListTypeOK /\ handler \in [Sig -> Handler] /\ proc \in [Pid -> Proc]
      /\ JobsMatchChildren
  BY DEF TypeInv, TypeOK, ChildInv
<1>b. handler["CHLD"].at = "dead" =>
          handler["CHLD"].pid \in Pid /\ proc[handler["CHLD"].pid].life = "none"
  BY DEF KillInv
<1>1. CASE Main
  <2>1. CASE Sigquit
    BY <1>b, <2>1, KillFrame DEF Sigquit, Goto, jobVars
  <2>2. CASE ~Sigquit
    <3>1. (\A s \in Sig : handler[s].at = "off") /\ handler' = handler
      BY <1>1, <2>2 DEF Main, ReadRun, Fork, ForkFails, Add, Unblock, EnterWaitfg,
         LeaveWaitfg, FindByPid, FindByJid, ReadBgfg, ReadPid, Cont, SetState,
         RereadPid, BlankLine, Quit, BackToPrompt, Goto, MainRuns, Active
    <3>2. pc' = "cont" => FindByPid \/ ReadPid
      BY <1>1, <2>2 DEF Main, ReadRun, Fork, ForkFails, Add, Unblock, EnterWaitfg,
         LeaveWaitfg, FindByJid, Cont, SetState, RereadPid, BlankLine, Quit,
         BackToPrompt, Goto
    <3>3. FindByPid => jobs'[job'].pid = pid'
      BY GetjobpidFinds DEF FindByPid, Holding, jobVars
    <3>4. ReadPid => jobs'[job'].pid = pid'
      BY DEF ReadPid, jobVars
    <3>. QED BY <3>1, <3>2, <3>3, <3>4 DEF KillInv, KillsReachTheirJob, Sig
  <2>. QED BY <2>1, <2>2
<1>2. CASE Wait
  <2>1. /\ jobs' = jobs /\ pc' = pc /\ pid' = pid /\ job' = job
        /\ \A s \in {"INT", "TSTP"} : handler'[s] = handler[s]
    BY <1>a, <1>2 DEF Wait, Return, HandlerGoto, jobVars, mainVars, Sig
  <2>2. CASE handler'["CHLD"].at = "dead"
    <3>1. PICK p \in Pid : /\ proc' = [proc EXCEPT ![p] = NoProc]
                           /\ HandlerGoto("CHLD", "dead", p)
      BY <1>a, <1>2, <2>2 DEF Wait, Waitable, Return, HandlerGoto, Idle, Handler, Sig
    <3>2. handler'["CHLD"].pid = p /\ proc'[p].life = "none"
      BY <1>a, <3>1 DEF HandlerGoto, Handler, NoProc, Sig
    <3>3. \A q \in Pid : proc[q].life = "none" => proc'[q].life = "none"
      BY <1>a, <3>1 DEF NoProc
    <3>. QED BY <2>1, <3>2, <3>3, KillFrame
  <2>3. CASE handler'["CHLD"].at # "dead"
    <3>1. \A q \in Pid : proc[q].life = "none" => proc'[q].life = "none"
      BY <1>a, <1>2 DEF Wait, Waitable, NoProc, Proc
    <3>. QED BY <2>1, <2>3, <3>1, KillFrame
  <2>. QED BY <2>2, <2>3
<1>3. CASE MarkStopped
  <2>1. /\ pid' = pid /\ job' = job /\ proc' = proc
        /\ pc' = "cont" => pc = "cont"
        /\ \A s \in {"INT", "TSTP"} : handler'[s] = handler[s]
        /\ handler'["CHLD"].at # "dead"
    BY <1>a, <1>3 DEF MarkStopped, HandlerGoto, Goto, Handler, Sig
  <2>2. \A k \in Slots : /\ jobs'[k].pid = jobs[k].pid
                         /\ jobs'[k].state \in {jobs[k].state, "ST"}
    BY <1>a, <1>3 DEF MarkStopped, SetJobState, jobVars, JobListTypeOK, Job
  <2>. QED BY <2>1, <2>2, KillFrame
<1>4. CASE DeleteDead
  <2>. DEFINE q == handler["CHLD"].pid
  <2>1. /\ pid' = pid /\ job' = job /\ proc' = proc /\ pc' = pc
        /\ \A s \in {"INT", "TSTP"} : handler'[s] = handler[s]
        /\ handler'["CHLD"].at # "dead"
        /\ q \in Pid /\ proc'[q].life = "none"
    BY <1>a, <1>b, <1>4 DEF DeleteDead, HandlerGoto, mainVars, Handler, Sig
  <2>2. \A k \in Slots : jobs'[k] = jobs[k] \/ jobs[k].pid = q
    <3>1. CASE getjobpid(q) = NoSlot
      BY <1>4, <3>1 DEF DeleteDead, deletejob, jobVars
    <3>2. CASE getjobpid(q) # NoSlot
      <4>1. getjobpid(q) \in Slots /\ jobs[getjobpid(q)].pid = q
        BY <2>1, <3>2, GetjobpidFinds DEF Holding
      <4>2. jobs' = [jobs EXCEPT ![getjobpid(q)] = Cleared]
        BY <1>4, <3>2 DEF DeleteDead, deletejob
      <4>. QED BY <1>a, <4>1, <4>2 DEF JobListTypeOK
    <3>. QED BY <3>1, <3>2
  <2>. QED BY <2>1, <2>2, KillFrame
<1>5. ASSUME NEW s \in {"INT", "TSTP"}, ReadForeground(s) PROVE KillInv'
  <2>1. /\ jobs' = jobs /\ proc' = proc /\ pc' = pc /\ pid' = pid /\ job' = job
        /\ handler'["CHLD"] = handler["CHLD"]
        /\ \A t \in {"INT", "TSTP"} \ {s} : handler'[t] = handler[t]
    BY <1>a, <1>5 DEF ReadForeground, Return, HandlerGoto, jobVars, mainVars, Sig
  <2>2. CASE fgpid = NoPid
    <3>1. handler'[s].at # "kill"
      BY <1>a, <1>5, <2>2 DEF ReadForeground, Return, Idle, Sig
    <3>. QED BY <1>b, <2>1, <3>1, KillFrame
  <2>3. CASE fgpid # NoPid
    <3>1. handler'[s].pid = fgpid
      BY <1>a, <1>5, <2>3 DEF ReadForeground, HandlerGoto, Handler, Sig
    <3>2. fgpid \in Pid /\ \E i \in Slots : jobs[i].state = "FG" /\ jobs[i].pid = fgpid
      BY <2>3, FgpidFinds, FgpidType DEF TypeInv, TypeOK
    <3>. QED BY <2>1, <3>1, <3>2 DEF KillInv, KillsReachTheirJob
  <2>. QED BY <2>2, <2>3
<1>6. ASSUME NEW s \in {"INT", "TSTP"}, Forward(s) PROVE KillInv'
  <2>1. /\ jobs' = jobs /\ pc' = pc /\ pid' = pid /\ job' = job
        /\ handler'["CHLD"] = handler["CHLD"]
        /\ \A t \in {"INT", "TSTP"} : handler'[t] = handler[t] \/ handler'[t].at # "kill"
    BY <1>a, <1>6 DEF Forward, Return, Idle, jobVars, mainVars, Sig
  <2>2. \A p \in Pid : proc'[p].life = proc[p].life
    BY <1>a, <1>6 DEF Forward, Proc
  <2>. QED BY <1>b, <2>1, <2>2, KillFrame
<1>7. ASSUME NEW s \in Sig, KeyPress(s) \/ Deliver(s) PROVE KillInv'
  <2>1. /\ jobs' = jobs /\ proc' = proc /\ pc' = pc /\ pid' = pid /\ job' = job
        /\ \A t \in Sig : handler'[t] = handler[t] \/ handler'[t].at = "enter"
    BY <1>a, <1>7 DEF KeyPress, Deliver, jobVars, mainVars, Sig
  <2>. QED BY <1>b, <2>1, KillFrame DEF Sig
<1>8. ASSUME NEW p \in Pid, Child(p) PROVE KillInv'
  <2>1. /\ jobs' = jobs /\ pc' = pc /\ pid' = pid /\ job' = job /\ handler' = handler
    BY <1>8 DEF Child, Setpgid, Exec, Swallow, Exit, Stop, TakeSignal, Becomes,
       jobVars, mainVars
  <2>2. \A q \in Pid : proc[q].life = "none" => proc'[q].life = "none"
    BY <1>a, <1>8 DEF Child, Setpgid, Exec, Swallow, Exit, Stop, TakeSignal, Becomes,
       Proc
  <2>. QED BY <1>b, <2>1, <2>2, KillFrame
<1>9. CASE UNCHANGED vars
  BY <1>b, <1>9, KillFrame DEF vars
<1>. QED BY <1>1, <1>2, <1>3, <1>4, <1>5, <1>6, <1>7, <1>8, <1>9 DEF Next, Handlers

LEMMA KillAlways == Spec => [](TypeInv /\ ChildInv /\ KillInv)
<1>1. Init => TypeInv /\ ChildInv
  BY InitTypeInv, InitChildInv
<1>2. Init => KillInv
  BY DEF Init, Idle, KillInv, KillsReachTheirJob, Sig
<1>3. TypeInv /\ ChildInv /\ KillInv /\ [Next]_vars => (TypeInv /\ ChildInv /\ KillInv)'
  BY TypeStep, ChildStep, KillStep
<1>. QED BY <1>1, <1>2, <1>3, PTL DEF Spec

\* A process id that a handler or do_bgfg is about to signal is still that of
\* the job it was read from, or no child has it, for any number of children,
\* whoever else sends them signals, and whatever interrupts what.
THEOREM KillsAreAimed == Spec => []KillsReachTheirJob
<1>1. KillInv => KillsReachTheirJob
  BY DEF KillInv
<1>. QED BY <1>1, KillAlways, PTL

\* Only the handler of a key makes a signal pending at a child.
LEMMA OnlyForwardSignals ==
    ASSUME TypeInv, [Next]_vars, NEW p \in Pid, ~ (proc'[p].sig \subseteq proc[p].sig)
    PROVE  /\ proc[p].life # "none"
           /\ \E s \in {"INT", "TSTP"} :
               handler[s].at = "kill" /\ handler[s].pid = p
<1>a. proc \in [Pid -> Proc]
  BY DEF TypeInv, TypeOK
<1>1. CASE Main
  <2>1. CASE Cont
    BY <1>a, <2>1, ContinuedType DEF Cont
  <2>2. CASE Fork
    BY <1>a, <2>2 DEF Fork, Proc
  <2>3. CASE ~Cont /\ ~Fork
    BY <1>1, <2>3 DEF Main, ReadRun, ForkFails, Add, Unblock, EnterWaitfg, LeaveWaitfg,
       FindByPid, FindByJid, ReadPid, SetState, RereadPid, BlankLine, Quit, Sigquit
  <2>. QED BY <1>1, <2>1, <2>2, <2>3
<1>2. CASE Wait
  BY <1>a, <1>2 DEF Wait, Waitable, NoProc, Proc
<1>3. CASE MarkStopped \/ DeleteDead
  BY <1>3 DEF MarkStopped, DeleteDead
<1>4. ASSUME NEW s \in {"INT", "TSTP"}, ReadForeground(s) \/ Forward(s)
      PROVE  proc[p].life # "none" /\ handler[s].at = "kill" /\ handler[s].pid = p
  BY <1>a, <1>4 DEF ReadForeground, Forward, Members, Proc
<1>5. ASSUME NEW s \in Sig PROVE ~ (KeyPress(s) \/ Deliver(s))
  BY DEF KeyPress, Deliver
<1>6. ASSUME NEW q \in Pid PROVE ~Child(q)
  BY <1>a DEF Child, Setpgid, Exec, Swallow, Exit, Stop, TakeSignal, Becomes, Proc
<1>7. ~UNCHANGED vars
  BY DEF vars
<1>. QED BY <1>1, <1>2, <1>3, <1>4, <1>5, <1>6, <1>7 DEF Next, Handlers

\* A ctrl-c or ctrl-z never reaches a background job.
THEOREM KeysSpareBackground == Spec => BackgroundNotSignalled
<1>1. TypeInv /\ ChildInv /\ KillInv /\ [Next]_vars
         => [\A p \in Pid : \A i \in Slots :
                ~ (proc'[p].sig \subseteq proc[p].sig) /\ jobs[i].pid = p
                    => jobs[i].state # "BG"]_vars
  <2>. SUFFICES ASSUME TypeInv, ChildInv, KillInv, [Next]_vars,
                       NEW p \in Pid, NEW i \in Slots,
                       ~ (proc'[p].sig \subseteq proc[p].sig), jobs[i].pid = p
                PROVE  jobs[i].state # "BG"
    OBVIOUS
  <2>1. PICK k \in Slots : jobs[k].pid = p /\ jobs[k].state \in {"FG", "ST"}
    BY OnlyForwardSignals DEF KillInv, KillsReachTheirJob
  <2>2. k = i
    BY <2>1, JobListAssumption DEF ChildInv, JobsMatchChildren
  <2>. QED BY <2>1, <2>2
<1>. QED BY <1>1, KillAlways, PTL DEF Spec, BackgroundNotSignalled
=============================================================================
