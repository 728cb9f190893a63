------------------------------- MODULE JobList -------------------------------
(***************************************************************************)
(* The job list of the tiny shell (src/mps/03/tsh.c): the table jobs of    *)
(* MAXJOBS entries, the counter nextjid, and the helper routines that read *)
(* and change them.                                                        *)
(*                                                                         *)
(* Every C routine scans the table from index 0 and takes the first entry  *)
(* that fits, which is Lowest of the set of entries that fit.  A pointer   *)
(* into the table is its index, the NULL pointer is NoSlot.  The command   *)
(* line stored in an entry is left out: nothing but printing reads it.     *)
(***************************************************************************)
EXTENDS Integers

CONSTANTS
    MAXJOBS,    \* number of entries of the table
    MAXJID,     \* bound: no job is started once nextjid is above it
    Pid,        \* the process ids fork can return
    NoPid       \* the 0 of a cleared entry, and of fgpid when it finds none

ASSUME JobListAssumption ==
    /\ MAXJOBS \in Nat \ {0}
    /\ MAXJID \in Nat \ {0}
    /\ MAXJOBS =< MAXJID
    /\ NoPid \notin Pid

VARIABLES
    jobs,       \* the table
    nextjid     \* the job id the next job gets

jobVars == <<jobs, nextjid>>

Slots == 0 .. MAXJOBS - 1

NoSlot == -1

JobState == {"UNDEF", "FG", "BG", "ST"}

Job == [pid : Pid \cup {NoPid}, jid : 0 .. MAXJID, state : JobState]

\* An entry as clearjob leaves it.
Cleared == [pid |-> NoPid, jid |-> 0, state |-> "UNDEF"]

JobListTypeOK ==
    /\ jobs \in [Slots -> Job]
    /\ nextjid \in 1 .. MAXJID + 1

initjobs ==
    /\ jobs = [i \in Slots |-> Cleared]
    /\ nextjid = 1

-----------------------------------------------------------------------------

Lowest(S) == CHOOSE i \in S : \A k \in S : i =< k

\* The index of the first entry of S, the set of entries a scan looks for.
FirstOf(S) == IF S = {} THEN NoSlot ELSE Lowest(S)

Holding(p) == {i \in Slots : jobs[i].pid = p}

\* Largest job id of a table, 0 when no entry is in use.
maxjid(table) ==
    CHOOSE m \in 0 .. MAXJID :
        /\ \A i \in Slots : table[i].jid =< m
        /\ m = 0 \/ \E i \in Slots : table[i].jid = m

\* Mutant of fgpid: the first job that is not stopped.
fgpidAnyRunning ==
    LET Running == {i \in Slots : jobs[i].state \in {"FG", "BG"}}
    IN  IF Running = {} THEN NoPid ELSE jobs[Lowest(Running)].pid

fgpid ==
    LET Foreground == {i \in Slots : jobs[i].state = "FG"}
    IN  IF Foreground = {} THEN NoPid ELSE jobs[Lowest(Foreground)].pid

getjobpid(p) == IF p = NoPid THEN NoSlot ELSE FirstOf(Holding(p))

getjobjid(n) == FirstOf({i \in Slots : n >= 1 /\ jobs[i].jid = n})

-----------------------------------------------------------------------------

\* Mutant of addjob: ++nextjid for nextjid++.
addjobPreIncrement(p, state) ==
    LET i == FirstOf(Holding(NoPid))
    IN  IF i = NoSlot
        THEN UNCHANGED jobVars
        ELSE /\ jobs' = [jobs EXCEPT ![i] =
                            [pid |-> p, jid |-> nextjid + 1, state |-> state]]
             /\ nextjid' = IF nextjid + 1 > MAXJOBS THEN 1 ELSE nextjid + 1

\* A full table is left as it is: the caller does not look at the result.
addjob(p, state) ==
    LET i == FirstOf(Holding(NoPid))
    IN  IF i = NoSlot
        THEN UNCHANGED jobVars
        ELSE /\ jobs' = [jobs EXCEPT ![i] =
                            [pid |-> p, jid |-> nextjid, state |-> state]]
             /\ nextjid' = IF nextjid + 1 > MAXJOBS THEN 1 ELSE nextjid + 1

deletejob(p) ==
    LET i == getjobpid(p)
    IN  IF i = NoSlot
        THEN UNCHANGED jobVars
        ELSE /\ jobs' = [jobs EXCEPT ![i] = Cleared]
             /\ nextjid' = maxjid(jobs') + 1

\* job->state = state, through a pointer the caller holds.
SetJobState(i, state) ==
    /\ jobs' = [jobs EXCEPT ![i].state = state]
    /\ UNCHANGED nextjid
=============================================================================
