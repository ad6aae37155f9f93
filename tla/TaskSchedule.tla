----------------------------- MODULE TaskSchedule -----------------------------
(***************************************************************************)
(* The scheduler of the Task Runner: a loop polls the Site for the rows of *)
(* the tasks and starts those that are due, a request starts one at once,  *)
(* and every run is filed in the Site.  A launcher is a workflow-runner    *)
(* task with singleFlight: it opens a change request unless one is open.   *)
(*                                                                         *)
(* The loop and the requests read the rows independently and apply what    *)
(* they read whenever it arrives, while operators edit and delete rows and *)
(* runs of any length are at work.                                         *)
(***************************************************************************)
EXTENDS Naturals, FiniteSets, FiniteSetsExt

CONSTANTS
    Task,           \* keys of tasks
    Good, Bad,      \* schedules that operators write: some parse, and one does not
    Default,        \* the schedule a builtin task is registered with
    MaxRuns,        \* bound: runs of a task at a time
    MaxEdits,       \* bound: rows that operators write or delete
    MaxOpen,        \* bound: open requests that are counted
    MaxFaults       \* bound: calls that fail, processes that end

Cron == Good \cup {Bad, Default}
NoCron == "none"
Slot == 1..MaxRuns

ASSUME ConstantsAssumption ==
    /\ Bad \notin Good /\ NoCron \notin Cron /\ Default # Bad
    /\ MaxRuns \in Nat \ {0} /\ MaxEdits \in Nat /\ MaxOpen \in Nat \ {0, 1}
    /\ MaxFaults \in Nat

\* Who reads the rows: the loop, and a request (POST /tasks/:key/run or GET /tasks).
Reader == {"loop", "request"}

VARIABLES
    kind,       \* a builtin task or a launcher
    \* the Site
    row,        \* the row of a task
    open,       \* open requests of the launchers' workflows
    late,       \* creates that nobody waits for and that the Site may yet carry out
    \* the Task Runner
    read,       \* a reading of the rows: where it is and what it has read
    list,       \* the tasks the runner knows
    plan,       \* TaskState: whether it runs, and when it is to run next
    run,        \* runs of a task
    lock,       \* workflowLaunchLocks
    \* history
    used,       \* tasks started by the schedule whose next time is still that one
    repeated,   \* tasks started twice for one time
    spoiled,    \* tasks that had a schedule that does not parse, or were deleted
    unfiled,    \* tasks with a run that is over and filed as running, and no call failed
    abandoned,  \* a create was left that the Site may yet carry out
    edits, faults

site == <<row, open, late>>
bounds == <<edits, faults>>
vars == <<kind, row, open, late, read, list, plan, run, lock, used, repeated, spoiled,
          unfiled, abandoned, edits, faults>>

Row == [on : BOOLEAN, cron : Cron]
NoRow == [on |-> FALSE, cron |-> NoCron]
Plan == [known : BOOLEAN, running : BOOLEAN, next : Cron \cup {NoCron}, due : BOOLEAN]
NoPlan == [known |-> FALSE, running |-> FALSE, next |-> NoCron, due |-> FALSE]
Idle == [NoPlan EXCEPT !.known = TRUE]
\* own: its state is still the one of the task; cron: of the task it was started with.
Run == [pc : {"off", "filing", "checking", "creating", "working", "over", "reporting"},
        by : {"schedule", "request"}, own : BOOLEAN, cron : Cron \cup {NoCron},
        filed : {"no", "yes", "cut"}]
NoRun == [pc |-> "off", by |-> "request", own |-> FALSE, cron |-> NoCron, filed |-> "no"]
NoRows == [t \in Task |-> NoRow]
NoReading == [pc |-> "off", rows |-> NoRows]

TypeOK ==
    /\ kind \in [Task -> {"builtin", "launcher"}]
    /\ row \in [Task -> Row \cup {NoRow}]
    /\ open \in 0..MaxOpen /\ late \in Nat
    /\ read \in [Reader -> [pc : {"off", "read", "failed"},
                            rows : [Task -> Row \cup {NoRow}]]]
    /\ list \in [Task -> Row \cup {NoRow}]
    /\ plan \in [Task -> Plan]
    /\ run \in [Task -> [Slot -> Run]]
    /\ lock \in BOOLEAN /\ abandoned \in BOOLEAN
    /\ used \subseteq Task /\ repeated \subseteq Task
    /\ spoiled \subseteq Task /\ unfiled \subseteq Task
    /\ edits \in 0..MaxEdits /\ faults \in 0..MaxFaults

-----------------------------------------------------------------------------
Fault == faults < MaxFaults /\ faults' = faults + 1
NoFault == UNCHANGED faults
BuiltIn(t) == kind[t] = "builtin"
Active(t) == {n \in Slot : run[t][n].pc # "off"}

\* The builtin tasks are in the list from the start, switched off.
Off == [on |-> FALSE, cron |-> Default]
FirstList(k) == [t \in Task |-> IF k[t] = "builtin" THEN Off ELSE NoRow]
FirstPlan(k) == [t \in Task |-> IF k[t] = "builtin" THEN Idle ELSE NoPlan]

Init ==
    /\ kind \in [Task -> {"builtin", "launcher"}]
    /\ row = NoRows /\ open = 0 /\ late = 0
    /\ read = [r \in Reader |-> NoReading]
    /\ list = FirstList(kind) /\ plan = FirstPlan(kind)
    /\ run = [t \in Task |-> [n \in Slot |-> NoRun]] /\ lock = FALSE
    /\ used = {} /\ repeated = {} /\ spoiled = {} /\ unfiled = {}
    /\ abandoned = FALSE /\ edits = 0 /\ faults = 0

-----------------------------------------------------------------------------
(* Operators, and time.                                                    *)

\* A row is written: whatever is given for the schedule is stored.
Write(t) ==
    /\ edits < MaxEdits /\ edits' = edits + 1
    /\ BuiltIn(t) => row[t] # NoRow
    /\ \E new \in [on : BOOLEAN, cron : Good \cup {Bad}] :
          /\ row' = [row EXCEPT ![t] = new]
          /\ spoiled' = IF new.cron = Bad THEN spoiled \cup {t} ELSE spoiled
    /\ UNCHANGED <<kind, open, late, read, list, plan, run, lock, used, repeated,
                   unfiled, abandoned, faults>>

\* A row is deleted, and the rows of its runs with it, but not their agent runs.
Delete(t) ==
    /\ edits < MaxEdits /\ edits' = edits + 1
    /\ ~BuiltIn(t) /\ row[t] # NoRow
    /\ row' = [row EXCEPT ![t] = NoRow]
    /\ run' = [run EXCEPT ![t] = [n \in Slot |->
                  IF @[n].filed = "yes" THEN [@[n] EXCEPT !.filed = "cut"] ELSE @[n]]]
    /\ spoiled' = spoiled \cup {t}
    /\ UNCHANGED <<kind, open, late, read, list, plan, lock, used, repeated, unfiled,
                   abandoned, faults>>

\* A request that a launcher opened is closed.
Close ==
    /\ open > 0 /\ open' = open - 1
    /\ UNCHANGED <<kind, row, late, read, list, plan, run, lock, used, repeated, spoiled,
                   unfiled, abandoned, bounds>>

Opened == IF open < MaxOpen THEN open + 1 ELSE open

\* The Site carries out a create whose caller has given up.
LateCreate ==
    /\ late > 0 /\ late' = late - 1 /\ open' = Opened
    /\ UNCHANGED <<kind, row, read, list, plan, run, lock, used, repeated, spoiled,
                   unfiled, abandoned, bounds>>

\* The next time of a task has come.
Elapse(t) ==
    /\ plan[t].next # NoCron /\ ~plan[t].due
    /\ plan' = [plan EXCEPT ![t].due = TRUE]
    /\ UNCHANGED <<kind, site, read, list, run, lock, used, repeated, spoiled, unfiled,
                   abandoned, bounds>>

-----------------------------------------------------------------------------
(* Reading the rows.                                                       *)

\* nextCronDate: a time that has yet to come.
Planned(p, c) == [p EXCEPT !.next = c, !.due = FALSE]

\* Mutant: a task that is switched on again is not planned unless its object says so.
Config_NotAgain(p, was, new) ==
    IF ~p.known THEN IF new.on /\ new.cron = Bad THEN NoPlan
                     ELSE IF new.on THEN Planned(Idle, new.cron) ELSE Idle
    ELSE IF ~new.on THEN Planned(p, NoCron)
    ELSE IF (~was.on \/ was.cron # new.cron) /\ new.cron # Bad THEN Planned(p, new.cron)
    ELSE p

\* applyTaskConfig: a schedule that does not parse throws, and a state that is there
\* keeps the time it has.
Config(p, was, new) ==
    IF ~p.known THEN IF new.on /\ new.cron = Bad THEN NoPlan
                     ELSE IF new.on THEN Planned(Idle, new.cron) ELSE Idle
    ELSE IF ~new.on THEN Planned(p, NoCron)
    ELSE IF (~was.on \/ was.cron # new.cron \/ p.next = NoCron) /\ new.cron # Bad
           THEN Planned(p, new.cron)
    ELSE p

\* syncTasksFromSite.  A builtin task is changed in place; a launcher is built anew, so
\* that what it was is what it is, and one without a row is forgotten.
Listed(rows) ==
    [t \in Task |-> IF BuiltIn(t) /\ rows[t] = NoRow THEN Off ELSE rows[t]]

Synced(rows) ==
    [t \in Task |->
        IF BuiltIn(t) THEN Config(plan[t], list[t], Listed(rows)[t])
        ELSE IF rows[t] = NoRow THEN NoPlan
        ELSE Config(plan[t], rows[t], rows[t])]

\* A poll registers the builtin tasks without a row before it reads.
Registered(r) ==
    [t \in Task |-> IF r = "loop" /\ BuiltIn(t) /\ row[t] = NoRow THEN Off ELSE row[t]]

\* The Site answers with the rows it has, which are applied when the answer arrives;
\* either call may fail.
Read(r) ==
    /\ read[r].pc = "off"
    /\ \E done \in BOOLEAN, pc \in {"read", "failed"} :
          /\ row' = IF done THEN Registered(r) ELSE row
          /\ read' = [read EXCEPT ![r] =
                         [pc |-> pc, rows |-> IF pc = "read" THEN row' ELSE NoRows]]
          /\ IF done /\ pc = "read" THEN NoFault ELSE Fault
    /\ UNCHANGED <<kind, open, late, list, plan, run, lock, used, repeated, spoiled,
                   unfiled, abandoned, edits>>

\* Mutant: a task that is started does not say that it runs.
Begun_Late(p) == p

\* startTaskRun sets running before it awaits anything.
Begun(p) == [p EXCEPT !.running = TRUE]

Free(t) == {n \in Slot : run[t][n].pc = "off"}

\* What is read is applied, if it was read, and the tasks of "starting" are started.
Apply(r, l, p, starting, who) ==
    /\ read' = [read EXCEPT ![r] = NoReading]
    /\ list' = l
    /\ plan' = [t \in Task |-> IF t \in starting THEN Begun(p[t]) ELSE p[t]]
    /\ run' = [t \in Task |-> [n \in Slot |->
                  IF t \in starting /\ n = Min(Free(t))
                    THEN [NoRun EXCEPT !.pc = "filing", !.by = who, !.own = TRUE,
                                       !.cron = IF BuiltIn(t) THEN NoCron ELSE l[t].cron]
                  ELSE IF ~p[t].known THEN [run[t][n] EXCEPT !.own = FALSE]
                  ELSE run[t][n]]]
    /\ used' = {t \in used \cup (IF who = "schedule" THEN starting ELSE {}) : p[t].due}
    /\ repeated' = IF who = "schedule"
                     THEN repeated \cup {t \in starting \cap used : p[t].due} ELSE repeated
    /\ UNCHANGED <<kind, site, lock, spoiled, unfiled, abandoned, bounds>>

Startable(t, l, p) == l[t] # NoRow /\ p[t].known /\ ~p[t].running /\ Free(t) # {}

Due(t, l, p) == Startable(t, l, p) /\ l[t].on /\ p[t].due

\* The loop starts what is due, whether it could read the rows or not.
Schedule ==
    \E l \in {IF read["loop"].pc = "read" THEN Listed(read["loop"].rows) ELSE list},
       p \in {IF read["loop"].pc = "read" THEN Synced(read["loop"].rows) ELSE plan} :
        /\ read["loop"].pc \in {"read", "failed"}
        /\ Apply("loop", l, p, {t \in Task : Due(t, l, p)}, "schedule")

\* A request starts a task, switched on or not, or is refused, or only lists them.
Serve ==
    \E l \in {IF read["request"].pc = "read" THEN Listed(read["request"].rows) ELSE list},
       p \in {IF read["request"].pc = "read" THEN Synced(read["request"].rows) ELSE plan} :
        /\ read["request"].pc \in {"read", "failed"}
        /\ \E starting \in {{}} \cup {{t} : t \in {u \in Task : Startable(u, l, p)}} :
              Apply("request", l, p, starting, "request")

-----------------------------------------------------------------------------
(* A run.                                                                  *)

To(t, n, pc) == run' = [run EXCEPT ![t][n].pc = pc]

\* Mutant: launchers do not exclude each other.
Locked_Never == FALSE

\* Another launcher of the same workflows is between its look and its create.
Locked == lock

\* createTaskRunInSite: a run that cannot be filed is done all the same.  Then the task
\* runs; a launcher looks at the lock at once.
File(t, n) ==
    /\ run[t][n].pc = "filing"
    /\ \E filed \in {"no", "yes"} :
          /\ IF filed = "yes" <=> row[t] # NoRow THEN NoFault ELSE filed = "no" /\ Fault
          /\ run' = [run EXCEPT ![t][n].filed = filed,
                                ![t][n].pc = IF BuiltIn(t) \/ Locked THEN "over"
                                             ELSE "checking"]
    /\ lock' = (lock \/ ~BuiltIn(t))
    /\ UNCHANGED <<kind, site, read, list, plan, used, repeated, spoiled, unfiled,
                   abandoned, edits>>

\* The open requests are listed: one of the workflows is enough to skip.
Check(t, n) ==
    /\ run[t][n].pc = "checking"
    /\ \/ open = 0 /\ To(t, n, "creating") /\ UNCHANGED lock /\ NoFault
       \/ open > 0 /\ To(t, n, "over") /\ lock' = FALSE /\ NoFault
       \/ To(t, n, "over") /\ lock' = FALSE /\ Fault
    /\ UNCHANGED <<kind, site, read, list, plan, used, repeated, spoiled, unfiled,
                   abandoned, edits>>

\* The request is created, and the lock is kept while its first steps are run.
Create(t, n) ==
    /\ run[t][n].pc = "creating"
    /\ To(t, n, "working") /\ open' = Opened
    /\ UNCHANGED <<kind, row, late, read, list, plan, lock, used, repeated, spoiled,
                   unfiled, abandoned, bounds>>

\* No answer to a create: the Site has created the request, has not, or may yet.
Unanswered ==
    \/ open' = Opened /\ UNCHANGED <<late, abandoned>>
    \/ UNCHANGED <<open, late, abandoned>>
    \/ late' = late + 1 /\ abandoned' = TRUE /\ UNCHANGED open

\* It fails, or takes longer than the runner waits.
CreateFails(t, n) ==
    /\ run[t][n].pc = "creating" /\ Fault
    /\ To(t, n, "over") /\ lock' = FALSE
    /\ Unanswered
    /\ UNCHANGED <<kind, row, read, list, plan, used, repeated, spoiled, unfiled, edits>>

\* The steps were run, or threw.
Work(t, n) ==
    /\ run[t][n].pc = "working"
    /\ To(t, n, "over") /\ lock' = FALSE
    /\ UNCHANGED <<kind, site, read, list, plan, used, repeated, spoiled, unfiled,
                   abandoned, bounds>>

\* The schedule a run looks at when it is over: a launcher has that of the task it was
\* started with.
Current(t, n) == IF BuiltIn(t) THEN list[t].cron ELSE run[t][n].cron

\* The task is done or has thrown, and its output was delivered: the next time is
\* computed, after a success as after a failure.
Ends(t, n) ==
    /\ run[t][n].pc = "over" /\ Current(t, n) # Bad
    /\ To(t, n, "reporting")
    /\ plan' = IF run[t][n].own THEN [plan EXCEPT ![t] = Planned(@, Current(t, n))] ELSE plan
    /\ used' = {u \in used : plan'[u].due}
    /\ UNCHANGED <<kind, site, read, list, lock, repeated, spoiled, unfiled, abandoned,
                   bounds>>

\* The run and its state are let go.
Released(t, n) ==
    /\ run' = [run EXCEPT ![t][n] = NoRun]
    /\ plan' = IF run[t][n].own THEN [plan EXCEPT ![t].running = FALSE] ELSE plan

\* The schedule does not parse: nextCronDate throws again where the failure is handled,
\* the task keeps the time it has, and nothing is reported.
EndsBadly(t, n) ==
    /\ run[t][n].pc = "over" /\ Current(t, n) = Bad
    /\ Released(t, n)
    /\ unfiled' = IF run[t][n].filed = "no" THEN unfiled ELSE unfiled \cup {t}
    /\ UNCHANGED <<kind, site, read, list, lock, used, repeated, spoiled, abandoned, bounds>>

\* Mutant: a run whose task has left the list is not reported.
Report_Own(t, n) ==
    /\ run[t][n].pc = "reporting"
    /\ Released(t, n)
    /\ unfiled' = IF run[t][n].filed = "no" \/ (run[t][n].filed = "yes" /\ run[t][n].own)
                    THEN unfiled ELSE unfiled \cup {t}
    /\ UNCHANGED <<kind, site, read, list, lock, used, repeated, spoiled, abandoned, bounds>>

\* updateTaskRunInSite: a failure of it is logged.
Report(t, n) ==
    /\ run[t][n].pc = "reporting"
    /\ Released(t, n)
    /\ \/ /\ unfiled' = IF run[t][n].filed = "cut" THEN unfiled \cup {t} ELSE unfiled
          /\ NoFault
       \/ Fault /\ UNCHANGED unfiled
    /\ UNCHANGED <<kind, site, read, list, lock, used, repeated, spoiled, abandoned, edits>>

\* The runner ends and starts again: what it knew is gone, and the times that came while
\* it was away are passed over.
Restart ==
    /\ Fault
    /\ read' = [r \in Reader |-> NoReading]
    /\ list' = FirstList(kind) /\ plan' = FirstPlan(kind)
    /\ run' = [t \in Task |-> [n \in Slot |-> NoRun]] /\ lock' = FALSE /\ used' = {}
    /\ IF \E t \in Task, n \in Slot : run[t][n].pc = "creating"
         THEN Unanswered ELSE UNCHANGED <<open, late, abandoned>>
    /\ UNCHANGED <<kind, row, repeated, spoiled, unfiled, edits>>

RunStep(t, n) ==
    File(t, n) \/ Check(t, n) \/ Create(t, n) \/ CreateFails(t, n) \/ Work(t, n)
        \/ Ends(t, n) \/ EndsBadly(t, n) \/ Report(t, n)

Loop == Read("loop") \/ Schedule

Next ==
    \/ \E t \in Task : Write(t) \/ Delete(t) \/ Elapse(t)
    \/ Close \/ LateCreate
    \/ Loop \/ Read("request") \/ Serve
    \/ \E t \in Task, n \in Slot : RunStep(t, n)
    \/ Restart

Spec == Init /\ [][Next]_vars

\* The loop never ends, every call has a deadline, and time passes.  Nothing makes an
\* operator or a request come.
FairSpec ==
    /\ Spec
    /\ WF_vars(Loop) /\ WF_vars(Serve)
    /\ \A t \in Task : WF_vars(Elapse(t))
    /\ \A t \in Task, n \in Slot : WF_vars(RunStep(t, n))

-----------------------------------------------------------------------------
(* Properties.                                                             *)

\* src/services/task-runner/README.md:111-112 says that the runner "prevents concurrent runs of
\* the same task key".  Of the runs of a task at most one was started since the task came
\* into the list, and it is at work exactly while the task says that it runs; and a task is
\* started once for each time of its schedule, unless the schedule does not parse.
StartedOnce ==
    /\ \A t \in Task :
          /\ Cardinality({n \in Active(t) : run[t][n].own}) <= 1
          /\ plan[t].running <=> \E n \in Active(t) : run[t][n].own
    /\ repeated \subseteq spoiled

\* Launchers keep at most one request open, also when a task has two runs, unless the
\* Site carries out a create that the runner no longer waits for.
OneOpen == open <= 1 \/ abandoned

\* A run that is over is not filed as running, unless a call failed, the runner ended,
\* its task was deleted or its schedule does not parse.
RunsAreFiled == unfiled \subseteq spoiled

\* A task that stays switched on is run again and again, and one that is switched off or
\* deleted for good is in the end not started by its schedule any more.
RowsRule ==
    \A t \in Task :
        /\ <>[](row[t].on /\ row[t].cron # Bad) => []<>(Active(t) # {})
        /\ <>[]~row[t].on => <>[](\A n \in Slot : run[t][n].by # "schedule")
=============================================================================
