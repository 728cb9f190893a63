--------------------------------- MODULE Tsh ---------------------------------
(***************************************************************************)
(* The tiny shell of src/mps/03/tsh.c with its children and the signals    *)
(* between them.                                                           *)
(*                                                                         *)
(* The shell is one thread: its main loop, interrupted by the handlers of  *)
(* SIGCHLD, SIGINT and SIGTSTP, which interrupt each other because Signal  *)
(* installs them with an empty sa_mask.  A step is taken by the activation *)
(* on top, and reads or changes the job list through one helper routine or *)
(* makes one system call.  Children run in parallel with the shell.        *)
(*                                                                         *)
(* Left out: command lines and everything that is printed, arguments of bg *)
(* and fg that name no job, the processes a job starts in its own group.   *)
(* Children take the default action of every signal once they have called  *)
(* execvp, and nobody but the shell sends them SIGCONT.                    *)
(***************************************************************************)
EXTENDS JobList

CONSTANTS
    Commands,   \* the commands typed, among the elements of Command
    Keys,       \* the keys typed: "INT" is ctrl-c, "TSTP" is ctrl-z
    EarlySignals    \* may others than the shell kill or stop a child before
                    \* it leads its own process group?

Command == {"run", "run&", "fg", "bg", "blank", "quit"}

Sig == {"CHLD", "INT", "TSTP"}

ASSUME TshAssumption ==
    /\ Commands \subseteq Command
    /\ Keys \subseteq {"INT", "TSTP"}
    /\ EarlySignals \in BOOLEAN

VARIABLES
    pc,         \* where main is
    bg,         \* eval's bg, and whether do_bgfg runs bg rather than fg
    pid,        \* the local pid of eval, do_bgfg and waitfg
    job,        \* do_bgfg's pointer job
    mask,       \* the signals eval has blocked
    sigs,       \* the signals pending at the shell
    handler,    \* handler[s]: where the handler of s is, its local pid, and
                \* the handlers it has interrupted
    proc        \* proc[p]: the child with process id p

mainVars == <<pc, bg, pid, job, mask>>
vars == <<jobs, nextjid, pc, bg, pid, job, mask, sigs, handler, proc>>

PC == {"prompt", "fork", "add", "unblock", "waitfg", "spin",
       "readpid", "cont", "setstate", "reread", "exited", "crashed"}

Handler == [at : {"off", "enter", "stopped", "dead", "kill"},
            pid : Pid \cup {NoPid},
            under : SUBSET Sig]

\* own: it has called setpgid.  exec: it has called execvp and not ended.  told:
\* waitpid has reported that it stopped.
Proc == [life : {"none", "forked", "setpgid", "running", "stopped", "zombie"},
         own : BOOLEAN,
         exec : BOOLEAN,
         told : BOOLEAN,
         sig : SUBSET {"INT", "TSTP"}]

NoProc ==
    [life |-> "none", own |-> FALSE, exec |-> FALSE, told |-> FALSE, sig |-> {}]

Idle == [at |-> "off", pid |-> NoPid, under |-> {}]

TypeOK ==
    /\ JobListTypeOK
    /\ pc \in PC
    /\ bg \in BOOLEAN
    /\ pid \in Pid \cup {NoPid}
    /\ job \in Slots \cup {NoSlot}
    /\ mask \in SUBSET {"CHLD"}
    /\ sigs \in SUBSET Sig
    /\ handler \in [Sig -> Handler]
    /\ proc \in [Pid -> Proc]

Init ==
    /\ initjobs
    /\ pc = "prompt"
    /\ bg = FALSE
    /\ pid = NoPid
    /\ job = NoSlot
    /\ mask = {}
    /\ sigs = {}
    /\ handler = [s \in Sig |-> Idle]
    /\ proc = [p \in Pid |-> NoProc]

-----------------------------------------------------------------------------
(* Who runs.                                                               *)

Alive == pc \notin {"exited", "crashed"}

Active(s) == handler[s].at # "off"

MainRuns == Alive /\ \A s \in Sig : ~Active(s)

HandlerRuns(s) ==
    /\ Alive
    /\ Active(s)
    /\ \A t \in Sig : s \notin handler[t].under

\* Main moves on; what main does not name here is left alone.
Goto(at) == pc' = at /\ UNCHANGED <<sigs, handler>>

\* eval returns: its locals are gone.
BackToPrompt ==
    /\ Goto("prompt")
    /\ bg' = FALSE
    /\ pid' = NoPid
    /\ job' = NoSlot

(***************************************************************************)
(* eval of a command that is not built in                                  *)
(***************************************************************************)

\* Mutant of ReadRun: SIGCHLD is not blocked.
ReadRunUnblocked ==
    /\ MainRuns
    /\ pc = "prompt"
    /\ nextjid =< MAXJID
    /\ \/ "run" \in Commands /\ bg' = FALSE
       \/ "run&" \in Commands /\ bg' = TRUE
    /\ Goto("fork")
    /\ UNCHANGED <<jobVars, pid, job, mask, proc>>

ReadRun ==
    /\ MainRuns
    /\ pc = "prompt"
    /\ nextjid =< MAXJID
    /\ \/ "run" \in Commands /\ bg' = FALSE
       \/ "run&" \in Commands /\ bg' = TRUE
    /\ mask' = {"CHLD"}
    /\ Goto("fork")
    /\ UNCHANGED <<jobVars, pid, job, proc>>

Fork ==
    /\ MainRuns
    /\ pc = "fork"
    /\ \E p \in Pid :
        /\ proc[p] = NoProc
        /\ proc' = [proc EXCEPT ![p].life = "forked"]
        /\ pid' = p
    /\ Goto("add")
    /\ UNCHANGED <<jobVars, bg, job, mask>>

ForkFails ==
    /\ MainRuns
    /\ pc = "fork"
    /\ Goto("exited")
    /\ UNCHANGED <<jobVars, bg, pid, job, mask, proc>>

\* Mutant of Add: the job is entered as FG whatever bg says.
AddAsForeground ==
    /\ MainRuns
    /\ pc = "add"
    /\ addjob(pid, "FG")
    /\ Goto("unblock")
    /\ UNCHANGED <<bg, pid, job, mask, proc>>

Add ==
    /\ MainRuns
    /\ pc = "add"
    /\ addjob(pid, IF bg THEN "BG" ELSE "FG")
    /\ Goto("unblock")
    /\ UNCHANGED <<bg, pid, job, mask, proc>>

Unblock ==
    /\ MainRuns
    /\ pc = "unblock"
    /\ mask' = {}
    /\ \/ bg /\ BackToPrompt
       \/ ~bg /\ Goto("waitfg") /\ UNCHANGED <<bg, pid, job>>
    /\ UNCHANGED <<jobVars, proc>>

(***************************************************************************)
(* waitfg                                                                  *)
(***************************************************************************)

EnterWaitfg ==
    /\ MainRuns
    /\ pc = "waitfg"
    /\ \/ getjobpid(pid) = NoSlot /\ BackToPrompt
       \/ getjobpid(pid) # NoSlot /\ Goto("spin") /\ UNCHANGED <<bg, pid, job>>
    /\ UNCHANGED <<jobVars, mask, proc>>

\* Mutant of LeaveWaitfg: the loop is an if.
LeaveWaitfgAtOnce ==
    /\ MainRuns
    /\ pc = "spin"
    /\ BackToPrompt
    /\ UNCHANGED <<jobVars, mask, proc>>

LeaveWaitfg ==
    /\ MainRuns
    /\ pc = "spin"
    /\ pid # fgpid
    /\ BackToPrompt
    /\ UNCHANGED <<jobVars, mask, proc>>

(***************************************************************************)
(* do_bgfg, and the other built-in commands                                *)
(***************************************************************************)

ReadBgfg ==
    /\ MainRuns
    /\ pc = "prompt"
    /\ \/ "fg" \in Commands /\ bg' = FALSE
       \/ "bg" \in Commands /\ bg' = TRUE

\* The argument is the process id of a job on the list ...
FindByPid ==
    /\ ReadBgfg
    /\ \E p \in Pid :
        /\ getjobpid(p) # NoSlot
        /\ job' = getjobpid(p)
        /\ pid' = p
    /\ Goto("cont")
    /\ UNCHANGED <<jobVars, mask, proc>>

\* ... or a job id that is on the list, ...
FindByJid ==
    /\ ReadBgfg
    /\ \E n \in 1 .. MAXJID :
        /\ getjobjid(n) # NoSlot
        /\ job' = getjobjid(n)
    /\ Goto("readpid")
    /\ UNCHANGED <<jobVars, pid, mask, proc>>

\* ... whose process id is read through the pointer.
ReadPid ==
    /\ MainRuns
    /\ pc = "readpid"
    /\ pid' = jobs[job].pid
    /\ Goto("cont")
    /\ UNCHANGED <<jobVars, bg, job, mask, proc>>

\* The children kill(-g, ...) reaches: child g with its own group, or, when g
\* is the 0 of a cleared entry, those still in the process group of the shell.
Members(g) ==
    {p \in Pid :
        /\ proc[p].life \in {"forked", "setpgid", "running", "stopped"}
        /\ IF g = NoPid THEN ~proc[p].own ELSE p = g /\ proc[p].own}

\* Child c after SIGCONT: where it was when it stopped.
Continued(c) ==
    [c EXCEPT !.life = IF @ # "stopped" THEN @
                       ELSE IF c.exec THEN "running"
                       ELSE IF c.own THEN "setpgid" ELSE "forked",
              !.told = FALSE,
              !.sig = @ \ {"TSTP"}]

Cont ==
    /\ MainRuns
    /\ pc = "cont"
    /\ pc' = "setstate"
    /\ proc' = [p \in Pid |-> IF p \in Members(pid) THEN Continued(proc[p]) ELSE proc[p]]
    /\ sigs' = IF \E p \in Members(pid) : proc[p].life = "stopped"
               THEN sigs \cup {"CHLD"} ELSE sigs
    /\ UNCHANGED <<jobVars, bg, pid, job, mask, handler>>

\* Mutant of SetState: bg leaves the state of the job alone.
SetStateOfFgOnly ==
    /\ MainRuns
    /\ pc = "setstate"
    /\ \/ bg /\ BackToPrompt /\ UNCHANGED jobVars
       \/ ~bg /\ SetJobState(job, "FG") /\ Goto("reread") /\ UNCHANGED <<bg, pid, job>>
    /\ UNCHANGED <<mask, proc>>

SetState ==
    /\ MainRuns
    /\ pc = "setstate"
    /\ SetJobState(job, IF bg THEN "BG" ELSE "FG")
    /\ \/ bg /\ BackToPrompt
       \/ ~bg /\ Goto("reread") /\ UNCHANGED <<bg, pid, job>>
    /\ UNCHANGED <<mask, proc>>

\* The call waitfg(job->pid).
RereadPid ==
    /\ MainRuns
    /\ pc = "reread"
    /\ pid' = jobs[job].pid
    /\ Goto("waitfg")
    /\ UNCHANGED <<jobVars, bg, job, mask, proc>>

\* strcmp(argv[0], "quit") with argv[0] NULL, for a blank line or a lone "&".
BlankLine ==
    /\ MainRuns
    /\ pc = "prompt"
    /\ "blank" \in Commands
    /\ Goto("crashed")
    /\ UNCHANGED <<jobVars, bg, pid, job, mask, proc>>

\* The command quit, and the end of the input.
Quit ==
    /\ MainRuns
    /\ pc = "prompt"
    /\ "quit" \in Commands
    /\ Goto("exited")
    /\ UNCHANGED <<jobVars, bg, pid, job, mask, proc>>

\* sigquit_handler exits, whatever it interrupts.
Sigquit ==
    /\ Alive
    /\ "quit" \in Commands
    /\ Goto("exited")
    /\ UNCHANGED <<jobVars, bg, pid, job, mask, proc>>

(***************************************************************************)
(* Signals to the shell and their handlers                                 *)
(***************************************************************************)

\* A child the key reaches too, being still in the shell's process group,
\* has the handlers it inherited, which find no foreground job in its copy.
KeyPress(s) ==
    /\ Alive
    /\ s \in Keys \ sigs
    /\ sigs' = sigs \cup {s}
    /\ UNCHANGED <<jobVars, mainVars, handler, proc>>

Deliver(s) ==
    /\ Alive
    /\ s \in sigs \ mask
    /\ ~Active(s)
    /\ sigs' = sigs \ {s}
    /\ handler' = [handler EXCEPT ![s] =
            [at |-> "enter", pid |-> NoPid, under |-> {t \in Sig : Active(t)}]]
    /\ UNCHANGED <<jobVars, mainVars, proc>>

HandlerGoto(s, at, p) == handler' = [handler EXCEPT ![s].at = at, ![s].pid = p]

Return(s) == handler' = [handler EXCEPT ![s] = Idle]

\* Child p has a change of state that waitpid has not reported.
Changed(p) ==
    \/ proc[p].life = "zombie"
    \/ proc[p].life = "stopped" /\ ~proc[p].told

\* Mutant of Waitable: waitpid(-1, ...).
WaitableAny(arg) == {p \in Pid : Changed(p)}

\* The children waitpid(arg, &status, WNOHANG|WUNTRACED) may report: the
\* child arg, or with 0 any child still in the process group of the shell.
Waitable(arg) ==
    {p \in Pid : Changed(p) /\ IF arg = NoPid THEN ~proc[p].own ELSE p = arg}

Wait ==
    /\ HandlerRuns("CHLD")
    /\ handler["CHLD"].at = "enter"
    /\ \/ /\ Waitable(fgpid) = {}
          /\ Return("CHLD")
          /\ UNCHANGED proc
       \/ \E p \in Waitable(fgpid) :
            IF proc[p].life = "zombie"
            THEN /\ proc' = [proc EXCEPT ![p] = NoProc]
                 /\ HandlerGoto("CHLD", "dead", p)
            ELSE /\ proc' = [proc EXCEPT ![p].told = TRUE]
                 /\ HandlerGoto("CHLD", "stopped", p)
    /\ UNCHANGED <<jobVars, mainVars, sigs>>

\* Mutant of MarkStopped: the job is taken off the list.
ForgetStopped ==
    /\ HandlerRuns("CHLD")
    /\ handler["CHLD"].at = "stopped"
    /\ deletejob(handler["CHLD"].pid)
    /\ HandlerGoto("CHLD", "enter", NoPid)
    /\ UNCHANGED <<mainVars, sigs, proc>>

\* getjobpid(jobs, pid)->state = ST, without a test for NULL.
MarkStopped ==
    /\ HandlerRuns("CHLD")
    /\ handler["CHLD"].at = "stopped"
    /\ LET i == getjobpid(handler["CHLD"].pid)
       IN  \/ /\ i = NoSlot
              /\ Goto("crashed")
              /\ UNCHANGED jobVars
           \/ /\ i # NoSlot
              /\ SetJobState(i, "ST")
              /\ HandlerGoto("CHLD", "enter", NoPid)
              /\ UNCHANGED <<pc, sigs>>
    /\ UNCHANGED <<bg, pid, job, mask, proc>>

\* Mutant of DeleteDead: a status that has no branch.
DeleteDeadNot ==
    /\ HandlerRuns("CHLD")
    /\ handler["CHLD"].at = "dead"
    /\ HandlerGoto("CHLD", "enter", NoPid)
    /\ UNCHANGED <<jobVars, mainVars, sigs, proc>>

DeleteDead ==
    /\ HandlerRuns("CHLD")
    /\ handler["CHLD"].at = "dead"
    /\ deletejob(handler["CHLD"].pid)
    /\ HandlerGoto("CHLD", "enter", NoPid)
    /\ UNCHANGED <<mainVars, sigs, proc>>

\* Mutant of ReadForeground: the test of the process id is inverted.
ReadForegroundInverted(s) ==
    /\ HandlerRuns(s)
    /\ handler[s].at = "enter"
    /\ Return(s)
    /\ UNCHANGED <<jobVars, mainVars, sigs, proc>>

\* sigint_handler and sigtstp_handler read fgpid ...
ReadForeground(s) ==
    /\ HandlerRuns(s)
    /\ handler[s].at = "enter"
    /\ IF fgpid = NoPid THEN Return(s) ELSE HandlerGoto(s, "kill", fgpid)
    /\ UNCHANGED <<jobVars, mainVars, sigs, proc>>

\* ... and send the signal to that process group, if it exists.
Forward(s) ==
    /\ HandlerRuns(s)
    /\ handler[s].at = "kill"
    /\ LET p == handler[s].pid
       IN  IF p \in Members(p)
           THEN proc' = [proc EXCEPT ![p].sig = @ \cup {s}]
           ELSE UNCHANGED proc
    /\ Return(s)
    /\ UNCHANGED <<jobVars, mainVars, sigs>>

(***************************************************************************)
(* Children                                                                *)
(***************************************************************************)

Setpgid(p) ==
    /\ Alive
    /\ proc[p].life = "forked"
    /\ proc' = [proc EXCEPT ![p].life = "setpgid", ![p].own = TRUE]
    /\ UNCHANGED <<jobVars, mainVars, sigs, handler>>

Exec(p) ==
    /\ Alive
    /\ proc[p].life = "setpgid"
    /\ proc' = [proc EXCEPT ![p].life = "running", ![p].exec = TRUE]
    /\ UNCHANGED <<jobVars, mainVars, sigs, handler>>

\* Before execvp the child still has the handlers of the shell.
Swallow(p) ==
    /\ Alive
    /\ proc[p].life = "setpgid"
    /\ proc[p].sig # {}
    /\ proc' = [proc EXCEPT ![p].sig = {}]
    /\ UNCHANGED <<jobVars, mainVars, sigs, handler>>

\* p changes state in a way the kernel reports to the shell.
Becomes(p, life) ==
    /\ proc' = [proc EXCEPT ![p].life = life, ![p].told = FALSE,
                             ![p].exec = @ /\ life # "zombie",
                             ![p].sig = IF life = "zombie" THEN {} ELSE @ \ {"TSTP"}]
    /\ sigs' = sigs \cup {"CHLD"}
    /\ UNCHANGED <<jobVars, mainVars, handler>>

\* It exits, its execvp fails, or a signal from elsewhere kills it.
Exit(p) ==
    /\ Alive
    /\ \/ proc[p].life \in {"setpgid", "running", "stopped"}
       \/ EarlySignals /\ proc[p].life = "forked"
    /\ Becomes(p, "zombie")

\* It stops itself, or a signal from elsewhere stops it.
Stop(p) ==
    /\ Alive
    /\ \/ proc[p].life \in {"setpgid", "running"}
       \/ EarlySignals /\ proc[p].life = "forked"
    /\ Becomes(p, "stopped")

TakeSignal(p) ==
    /\ Alive
    /\ proc[p].life = "running"
    /\ \/ "INT" \in proc[p].sig /\ Becomes(p, "zombie")
       \/ "TSTP" \in proc[p].sig /\ Becomes(p, "stopped")

-----------------------------------------------------------------------------

Main ==
    \/ ReadRun \/ Fork \/ ForkFails \/ Add \/ Unblock
    \/ EnterWaitfg \/ LeaveWaitfg
    \/ FindByPid \/ FindByJid \/ ReadPid \/ Cont \/ SetState \/ RereadPid
    \/ BlankLine \/ Quit \/ Sigquit

Handlers ==
    \/ Wait \/ MarkStopped \/ DeleteDead
    \/ \E s \in {"INT", "TSTP"} : ReadForeground(s) \/ Forward(s)

Child(p) ==
    Setpgid(p) \/ Exec(p) \/ Swallow(p) \/ Exit(p) \/ Stop(p) \/ TakeSignal(p)

Next ==
    \/ Main
    \/ Handlers
    \/ \E s \in Sig : KeyPress(s) \/ Deliver(s)
    \/ \E p \in Pid : Child(p)

Spec == Init /\ [][Next]_vars

-----------------------------------------------------------------------------
(* Safety.                                                                 *)

\* At most one job is in the foreground, and it is the one main is about to
\* wait for or waiting for: eval and do_bgfg hand the terminal to no job they
\* do not wait for, whatever the handlers do to the list in between.
ForegroundIsAwaited ==
    \A i \in Slots : Alive /\ jobs[i].state = "FG" =>
        /\ pc \in {"unblock", "reread", "waitfg", "spin"}
        /\ ~bg
        /\ pid # NoPid
        /\ jobs[i].pid = pid

\* A job on the list is a child that has not been reaped, or one whose death
\* sigchld_handler is about to record; no child is listed twice.
JobsMatchChildren ==
    \A i \in Slots : jobs[i].pid # NoPid =>
        /\ \/ proc[jobs[i].pid].life # "none"
           \/ handler["CHLD"].at = "dead" /\ handler["CHLD"].pid = jobs[i].pid
        /\ \A k \in Slots \ {i} : jobs[k].pid # jobs[i].pid

\* A process id read from the list, by the handler of a key or by do_bgfg, is
\* used by a kill some steps later.  Then it is still that of the job that was
\* meant, in the foreground or stopped since when a key was typed, or it is
\* free: whatever the handlers in between do, no child has lost its entry
\* alive, and no child forked since has the id, since main forks none before
\* the kill.  A free id may belong to a process of another program by then,
\* and 0 means the group of the shell: neither is excluded.
KillsReachTheirJob ==
    /\ \A s \in {"INT", "TSTP"} : handler[s].at = "kill" =>
        LET p == handler[s].pid
        IN  \/ proc[p].life = "none"
            \/ \E i \in Slots : jobs[i].pid = p /\ jobs[i].state \in {"FG", "ST"}
    /\ pc = "cont" /\ pid # NoPid =>
        proc[pid].life = "none" \/ jobs[job].pid = pid

\* A job marked ST is stopped, or has died without being reaped: from the
\* moment bg or fg resumes it, its entry is rewritten before the next prompt.
StoppedJobsAreStopped ==
    \A i \in Slots : Alive /\ jobs[i].state = "ST" =>
        \/ proc[jobs[i].pid].life \in {"stopped", "zombie"}
        \/ handler["CHLD"].at = "dead" /\ handler["CHLD"].pid = jobs[i].pid
        \/ pc = "setstate" /\ job = i

\* When sigchld_handler has a stopped child in hand its entry is on the list,
\* so that the unchecked getjobpid(jobs, pid)->state is no NULL pointer.
HandlerFindsJob ==
    handler["CHLD"].at = "stopped" => getjobpid(handler["CHLD"].pid) # NoSlot

\* The handlers of ctrl-c and ctrl-z never signal a background job, although
\* the foreground job may have left the list since they read fgpid.
BackgroundNotSignalled ==
    [][\A p \in Pid : \A i \in Slots :
        ~ (proc'[p].sig \subseteq proc[p].sig) /\ jobs[i].pid = p
            => jobs[i].state # "BG"]_vars

\* What the shell holds of process p.
StateOf(p) ==
    LET i == getjobpid(p) IN IF i = NoSlot THEN "none" ELSE jobs[i].state

JC == INSTANCE JobControl WITH state <- [p \in Pid |-> StateOf(p)]

\* The job list only moves along the documented diagram of job states.
ImplementsJobControl == JC!Spec

-----------------------------------------------------------------------------
(* Properties the comments of the source promise and the code breaks.      *)

\* "The handler reaps all available zombie children": when sigchld_handler
\* returns, no child is a zombie.
HandlerReapsAll ==
    [][handler["CHLD"].at = "enter" /\ handler'["CHLD"].at = "off"
        => \A p \in Pid : proc[p].life # "zombie"]_vars

\* "At most 1 job can be in the FG state."
AtMostOneForeground ==
    \A i, k \in Slots :
        jobs[i].state = "FG" /\ jobs[k].state = "FG" => i = k

\* The getters that take a job id find one job: a JID [1, 2, ...] in use is
\* the id of one job.
JidsAreUnique ==
    \A i, k \in Slots : jobs[i].jid # 0 /\ jobs[i].jid = jobs[k].jid => i = k

-----------------------------------------------------------------------------
(* Liveness.                                                               *)

(***************************************************************************)
(* The processor is shared fairly and pending signals are delivered.  Keys *)
(* can interrupt main and every handler again and again, so that their     *)
(* steps are enabled again and again and not continuously.  Nothing makes  *)
(* a user type, a job exit, or anybody kill the shell.                     *)
(***************************************************************************)
MainStep ==
    \/ Fork \/ ForkFails \/ Add \/ Unblock \/ EnterWaitfg \/ LeaveWaitfg
    \/ ReadPid \/ Cont \/ SetState \/ RereadPid

Fairness ==
    /\ SF_vars(MainStep)
    /\ SF_vars(Wait \/ MarkStopped \/ DeleteDead)
    /\ WF_vars(Deliver("CHLD"))
    /\ \A s \in Keys : WF_vars(Deliver(s)) /\ SF_vars(ReadForeground(s) \/ Forward(s))
    /\ \A p \in Pid : WF_vars(Setpgid(p) \/ Exec(p) \/ TakeSignal(p))

FairSpec == Spec /\ Fairness

Awaited(p) == pc = "spin" /\ pid = p

\* In the busy loop on p, called by eval and not by do_bgfg.
AwaitedByEval(p) == Awaited(p) /\ job = NoSlot

\* eval returns once the job it waits for has ended or stopped: the busy loop
\* sees every change of state of a job that was started in the foreground.
EvalWaitReturns ==
    \A p \in Pid :
        AwaitedByEval(p) /\ proc[p].life \in {"zombie", "stopped"}
            ~> ~AwaitedByEval(p)

\* A ctrl-c typed while the program of the job runs ends the wait.
CtrlCEndsForeground ==
    \A p \in Pid :
        "INT" \in sigs /\ AwaitedByEval(p) /\ proc[p].life = "running"
            ~> ~AwaitedByEval(p)

\* The same of the command fg, for "If the job is running in the foreground,
\* wait for it to terminate and then return": the code breaks it.
FgWaitReturns ==
    \A p \in Pid :
        Awaited(p) /\ job # NoSlot /\ proc[p].life = "zombie" ~> ~Awaited(p)
=============================================================================
