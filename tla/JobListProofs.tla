---------------------------- MODULE JobListProofs ----------------------------
(***************************************************************************)
(* Facts about the helper routines of the job list, for a table of any     *)
(* size: what a scan returns, and the types the routines preserve.         *)
(***************************************************************************)
EXTENDS JobList, WellFoundedInduction, TLAPS

\* A scan that has entries to find finds the first of them.
LEMMA LowestIsLeast ==
    ASSUME NEW S \in SUBSET Nat, S # {}
    PROVE  Lowest(S) \in S /\ \A y \in S : Lowest(S) =< y
<1>. DEFINE Less == OpToRel(<, Nat)
<1>1. IsWellFoundedOn(Less, Nat)
  BY NatLessThanWellFounded
<1>2. \A x, y \in Nat : y < x => <<y, x>> \in Less
  <2>. SUFFICES ASSUME NEW x \in Nat, NEW y \in Nat, y < x
                PROVE  <<y, x>> \in {ss \in Nat \X Nat : ss[1] < ss[2]}
    BY DEF OpToRel
  <2>1. <<y, x>> \in Nat \X Nat /\ <<y, x>>[1] < <<y, x>>[2]
    OBVIOUS
  <2>. QED BY <2>1
<1>. HIDE DEF Less
<1>3. PICK x \in S : \A y \in S : ~ (<<y, x>> \in Less)
  BY <1>1, WFMin
<1>4. ASSUME NEW y \in S PROVE x =< y
  <2>1. x \in Nat /\ y \in Nat
    OBVIOUS
  <2>2. ~ (y < x)
    BY <1>2, <1>3, <2>1
  <2>. QED BY <2>1, <2>2
<1>. QED BY <1>4 DEF Lowest

LEMMA SlotsAreNaturals == Slots \in SUBSET Nat
BY JobListAssumption DEF Slots

\* FirstOf is NULL exactly when no entry fits.
LEMMA FirstOfFinds ==
    ASSUME NEW S \in SUBSET Slots
    PROVE  /\ FirstOf(S) \in S \cup {NoSlot}
           /\ FirstOf(S) = NoSlot <=> S = {}
<1>1. S # {} => Lowest(S) \in S
  BY LowestIsLeast, SlotsAreNaturals
<1>2. NoSlot \notin Slots
  BY JobListAssumption DEF NoSlot, Slots
<1>. QED BY <1>1, <1>2 DEF FirstOf

\* getjobpid returns an entry of the process, when there is one.
LEMMA GetjobpidFinds ==
    ASSUME NEW p \in Pid
    PROVE  /\ getjobpid(p) \in Holding(p) \cup {NoSlot}
           /\ getjobpid(p) = NoSlot <=> Holding(p) = {}
BY FirstOfFinds, JobListAssumption DEF getjobpid, Holding

LEMMA GetjobpidType ==
    ASSUME NEW p \in Pid \cup {NoPid}
    PROVE  getjobpid(p) \in Slots \cup {NoSlot}
BY GetjobpidFinds DEF getjobpid, Holding

\* getjobjid returns an entry with the job id asked for.
LEMMA GetjobjidFinds ==
    ASSUME NEW n
    PROVE  getjobjid(n) # NoSlot =>
               /\ getjobjid(n) \in Slots
               /\ n >= 1
               /\ jobs[getjobjid(n)].jid = n
<1>. DEFINE S == {i \in Slots : n >= 1 /\ jobs[i].jid = n}
<1>1. FirstOf(S) \in S \cup {NoSlot}
  BY FirstOfFinds
<1>. QED BY <1>1 DEF getjobjid

\* fgpid returns the process of a foreground job, when there is one.
LEMMA FgpidFinds ==
    /\ (\E i \in Slots : jobs[i].state = "FG")
          => \E i \in Slots : jobs[i].state = "FG" /\ fgpid = jobs[i].pid
    /\ (\A i \in Slots : jobs[i].state # "FG") => fgpid = NoPid
<1>. DEFINE Foreground == {i \in Slots : jobs[i].state = "FG"}
<1>1. Foreground # {} => Lowest(Foreground) \in Foreground
  BY LowestIsLeast, SlotsAreNaturals
<1>2. fgpid = IF Foreground = {} THEN NoPid ELSE jobs[Lowest(Foreground)].pid
  BY DEF fgpid
<1>. QED BY <1>1, <1>2

LEMMA FgpidType ==
    ASSUME JobListTypeOK
    PROVE  fgpid \in Pid \cup {NoPid}
BY FgpidFinds DEF JobListTypeOK, Job

\* The largest job id exists: it is the least bound of the ids in use.
LEMMA MaxjidType ==
    ASSUME NEW table \in [Slots -> Job]
    PROVE  maxjid(table) \in 0 .. MAXJID
<1>. DEFINE Bounds == {m \in 0 .. MAXJID : \A i \in Slots : table[i].jid =< m}
            m == Lowest(Bounds)
<1>1. MAXJID \in Bounds
  BY JobListAssumption DEF Job
<1>2. m \in Bounds
  BY <1>1, LowestIsLeast
<1>3. ASSUME m # 0 PROVE \E i \in Slots : table[i].jid = m
  <2>1. m - 1 \in 0 .. MAXJID /\ m - 1 < m
    BY <1>2, <1>3, JobListAssumption
  <2>2. m - 1 \notin Bounds
    BY <2>1, <1>1, LowestIsLeast
  <2>3. PICK i \in Slots : ~ (table[i].jid =< m - 1)
    BY <2>1, <2>2
  <2>4. table[i].jid \in 0 .. MAXJID /\ table[i].jid =< m
    BY <1>2 DEF Job
  <2>5. table[i].jid = m
    BY <2>1, <2>3, <2>4, <1>2, JobListAssumption
  <2>. QED BY <2>5
<1>. HIDE DEF m
<1>. QED BY <1>2, <1>3 DEF maxjid

\* The table keeps its type, given an id in bounds for a new entry.
LEMMA AddjobType ==
    ASSUME JobListTypeOK, nextjid =< MAXJID,
           NEW p \in Pid, NEW st \in JobState, addjob(p, st)
    PROVE  JobListTypeOK'
<1>1. FirstOf(Holding(NoPid)) \in Slots \cup {NoSlot}
  BY FirstOfFinds DEF Holding
<1>. QED BY <1>1, JobListAssumption
         DEF addjob, JobListTypeOK, Job, jobVars

LEMMA DeletejobType ==
    ASSUME JobListTypeOK, NEW p \in Pid \cup {NoPid}, deletejob(p)
    PROVE  JobListTypeOK'
<1>1. CASE getjobpid(p) = NoSlot
  BY <1>1 DEF deletejob, JobListTypeOK, jobVars
<1>2. CASE getjobpid(p) # NoSlot
  <2>1. jobs' = [jobs EXCEPT ![getjobpid(p)] = Cleared]
        /\ nextjid' = maxjid(jobs') + 1
    BY <1>2 DEF deletejob
  <2>2. Cleared \in Job
    BY JobListAssumption DEF Job, Cleared, JobState
  <2>3. jobs' \in [Slots -> Job]
    BY <2>1, <2>2 DEF JobListTypeOK
  <2>4. maxjid(jobs') \in 0 .. MAXJID
    BY <2>3, MaxjidType
  <2>. QED BY <2>1, <2>3, <2>4, JobListAssumption DEF JobListTypeOK
<1>. QED BY <1>1, <1>2

LEMMA SetJobStateType ==
    ASSUME JobListTypeOK, NEW i, NEW st \in JobState, SetJobState(i, st)
    PROVE  JobListTypeOK'
BY DEF SetJobState, JobListTypeOK, Job
=============================================================================
