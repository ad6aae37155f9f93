-------------------------- MODULE TaskScheduleProofs --------------------------
(***************************************************************************)
(* Theorems about TaskSchedule, for any tasks, any number of runs, edits,  *)
(* faults and readings of the rows.                                        *)
(*                                                                         *)
(* The argument for StartedOnce: the flag "running" of a task mirrors the  *)
(* one run that still has the task's state (Owned), and a time that was    *)
(* used stays the next one only while that run is at work (Timed), unless  *)
(* a schedule that does not parse got in (Spoils).  For OneOpen: the lock  *)
(* covers a launcher from its look to the end of its steps (Launches).     *)
(***************************************************************************)
EXTENDS TaskSchedule, FiniteSetTheorems, WellFoundedInduction, TLAPS

Owned ==
    \A t \in Task :
        /\ \A m, n \in Slot : run[t][m].own /\ run[t][n].own => m = n
        /\ \A n \in Slot : run[t][n].own => run[t][n].pc # "off"
        /\ plan[t].running <=> \E n \in Slot : run[t][n].own
        /\ ~plan[t].known => plan[t] = NoPlan

Spoils ==
    /\ \A t \in Task :
          \/ t \in spoiled
          \/ /\ row[t].cron # Bad /\ list[t].cron # Bad
             /\ \A r \in Reader : read[r].rows[t].cron # Bad
             /\ \A n \in Slot : run[t][n].cron # Bad /\ run[t][n].filed # "cut"
    /\ repeated \subseteq spoiled /\ unfiled \subseteq spoiled

Timed ==
    \A t \in used :
        /\ plan[t].due
        /\ \/ t \in spoiled
           \/ /\ plan[t].running
              /\ \A n \in Slot : run[t][n].own => run[t][n].pc # "reporting"

Holds(t, n) == run[t][n].pc \in {"checking", "creating", "working"}

Launches ==
    /\ \A t \in Task, n \in Slot : Holds(t, n) => lock
    /\ \A t, u \in Task : \A m, n \in Slot : Holds(t, m) /\ Holds(u, n) => t = u /\ m = n
    /\ abandoned
         \/ /\ open <= 1 /\ late = 0
            /\ \A t \in Task, n \in Slot : run[t][n].pc = "creating" => open = 0

IInv == TypeOK /\ Owned /\ Spoils /\ Timed /\ Launches
-----------------------------------------------------------------------------
(* Helpers.                                                                *)

\* A set of numbers that is not empty has a smallest one.
LEMMA MinIs ==
  ASSUME NEW S \in SUBSET Nat, S # {}
  PROVE  Min(S) \in S
<1> DEFINE Smaller == {ss \in Nat \X Nat : ss[1] < ss[2]}
<1>1. IsWellFoundedOn(Smaller, Nat)
  BY NatLessThanWellFounded DEF OpToRel
<1>2. \E x \in S : \A y \in S : x <= y
  <2>1. PICK x \in S : \A y \in S : ~ (<<y, x>> \in Smaller)
    <3> HIDE DEF Smaller
    <3>1. QED
      BY <1>1, WFMin
  <2>2. ASSUME NEW y \in S PROVE x <= y
    <3>1. x \in Nat /\ y \in Nat
      OBVIOUS
    <3>2. y < x => <<y, x>> \in Smaller
      BY <3>1
    <3>3. ~ (<<y, x>> \in Smaller)
      BY <2>1
    <3> HIDE DEF Smaller
    <3>4. QED
      BY <3>1, <3>2, <3>3
  <2>3. QED
    BY <2>2
<1>3. QED
  BY <1>2 DEF Min

\* Values of their types.
LEMMA Values ==
  /\ NoRow.cron = NoCron /\ ~NoRow.on /\ NoRow # Off /\ Off \in Row
  /\ NoPlan \in Plan /\ Idle \in Plan /\ NoRun \in Run
  /\ Bad \in Cron /\ Default \in Cron /\ Good \subseteq Cron /\ NoCron \notin Cron
  /\ Default # Bad /\ NoCron # Bad
  BY ConstantsAssumption DEF NoRow, NoCron, Off, Row, NoPlan, Plan, Idle, NoRun, Run, Cron

\* A plan that follows what was read: it is due only if it was, it runs if it did, and
\* without a state it is empty.
Follows(t, p) ==
    /\ p[t].due => plan[t].due
    /\ p[t].known => p[t].running = plan[t].running
    /\ ~p[t].known => p[t] = NoPlan

LEMMA SyncedIs ==
  ASSUME TypeOK, Owned, NEW rows \in [Task -> Row \cup {NoRow}]
  PROVE  /\ Synced(rows) \in [Task -> Plan]
         /\ Listed(rows) \in [Task -> Row \cup {NoRow}]
         /\ \A t \in Task : Follows(t, Synced(rows))
<1>1. Listed(rows) \in [Task -> Row \cup {NoRow}]
  BY Values DEF Listed
<1>2. ASSUME NEW t \in Task, NEW was, NEW new \in Row
      PROVE  /\ Config(plan[t], was, new) \in Plan
             /\ Config(plan[t], was, new).due => plan[t].due
             /\ Config(plan[t], was, new).known => 
                    Config(plan[t], was, new).running = plan[t].running
             /\ ~Config(plan[t], was, new).known => Config(plan[t], was, new) = NoPlan
  <2>1. plan[t] \in Plan /\ new.on \in BOOLEAN /\ new.cron \in Cron
    BY DEF TypeOK, Row
  <2>2. ~plan[t].known => ~plan[t].running
    BY DEF Owned, NoPlan
  <2>3. CASE ~plan[t].known
    BY <2>1, <2>2, <2>3 DEF Config, Planned, Idle, NoPlan, Plan
  <2>4. CASE plan[t].known
    BY <2>1, <2>4 DEF Config, Planned, Plan
  <2>5. QED
    BY <2>1, <2>3, <2>4 DEF Plan
<1>3. ASSUME NEW t \in Task PROVE Synced(rows)[t] \in Plan /\ Follows(t, Synced(rows))
  <2>1. CASE BuiltIn(t)
    <3>1. Listed(rows)[t] \in Row
      BY <2>1, Values DEF Listed
    <3>2. Synced(rows)[t] = Config(plan[t], list[t], Listed(rows)[t])
      BY <2>1 DEF Synced
    <3>3. QED
      BY <1>2, <3>1, <3>2 DEF Follows
  <2>2. CASE ~BuiltIn(t) /\ rows[t] = NoRow
    <3>1. Synced(rows)[t] = NoPlan
      BY <2>2 DEF Synced
    <3>2. QED
      BY <3>1, Values DEF Follows, NoPlan
  <2>3. CASE ~BuiltIn(t) /\ rows[t] # NoRow
    <3>1. Synced(rows)[t] = Config(plan[t], rows[t], rows[t])
      BY <2>3 DEF Synced
    <3>2. QED
      BY <1>2, <2>3, <3>1 DEF Follows
  <2>4. QED
    BY <2>1, <2>2, <2>3
<1>4. QED
  BY <1>1, <1>3 DEF Synced

\* What is applied, by the loop and by a request.
Applies(r, l, p, starting, who) ==
    /\ r \in Reader /\ who \in {"schedule", "request"}
    /\ l \in [Task -> Row \cup {NoRow}] /\ p \in [Task -> Plan]
    /\ starting \subseteq Task
    /\ \A t \in Task : Follows(t, p)
    /\ \A t \in Task : l[t].cron = Bad => t \in spoiled
    /\ \A t \in starting : Startable(t, l, p) /\ (who = "schedule" => p[t].due)
    /\ Apply(r, l, p, starting, who)

LEMMA Applied ==
  ASSUME IInv, Schedule \/ Serve
  PROVE  \E r, l, p, starting, who : Applies(r, l, p, starting, who)
<1>1. ASSUME NEW r \in Reader
      PROVE  /\ Listed(read[r].rows) \in [Task -> Row \cup {NoRow}]
             /\ Synced(read[r].rows) \in [Task -> Plan]
             /\ \A t \in Task : Follows(t, Synced(read[r].rows))
             /\ \A t \in Task : Listed(read[r].rows)[t].cron = Bad => t \in spoiled
  <2>1. read[r].rows \in [Task -> Row \cup {NoRow}]
    BY DEF IInv, TypeOK
  <2>2. ASSUME NEW t \in Task, Listed(read[r].rows)[t].cron = Bad PROVE t \in spoiled
    <3>1. Listed(read[r].rows)[t] = Off \/ Listed(read[r].rows)[t] = read[r].rows[t]
      BY DEF Listed
    <3>2. Off.cron # Bad
      BY Values DEF Off
    <3>3. QED
      BY <2>2, <3>1, <3>2 DEF IInv, Spoils
  <2>3. QED
    BY <2>1, <2>2, SyncedIs DEF IInv
<1>2. /\ list \in [Task -> Row \cup {NoRow}] /\ plan \in [Task -> Plan]
      /\ \A t \in Task : Follows(t, plan)
      /\ \A t \in Task : list[t].cron = Bad => t \in spoiled
  BY DEF IInv, TypeOK, Owned, Spoils, Follows
<1>3. CASE Schedule
  <2>1. PICK l \in {IF read["loop"].pc = "read" THEN Listed(read["loop"].rows) ELSE list},
             p \in {IF read["loop"].pc = "read" THEN Synced(read["loop"].rows) ELSE plan} :
               Apply("loop", l, p, {t \in Task : Due(t, l, p)}, "schedule")
    BY <1>3 DEF Schedule
  <2>2. /\ l \in [Task -> Row \cup {NoRow}] /\ p \in [Task -> Plan]
        /\ \A t \in Task : Follows(t, p)
        /\ \A t \in Task : l[t].cron = Bad => t \in spoiled
    BY <1>1, <1>2 DEF Reader
  <2>3. \A t \in {u \in Task : Due(u, l, p)} : Startable(t, l, p) /\ p[t].due
    BY DEF Due
  <2>4. Applies("loop", l, p, {t \in Task : Due(t, l, p)}, "schedule")
    BY <2>1, <2>2, <2>3 DEF Applies, Reader
  <2>5. QED
    BY <2>4
<1>4. CASE Serve
  <2>1. PICK l \in {IF read["request"].pc = "read" THEN Listed(read["request"].rows)
                    ELSE list},
             p \in {IF read["request"].pc = "read" THEN Synced(read["request"].rows)
                    ELSE plan} :
               \E starting \in {{}} \cup {{t} : t \in {u \in Task : Startable(u, l, p)}} :
                  Apply("request", l, p, starting, "request")
    BY <1>4 DEF Serve
  <2>2. /\ l \in [Task -> Row \cup {NoRow}] /\ p \in [Task -> Plan]
        /\ \A t \in Task : Follows(t, p)
        /\ \A t \in Task : l[t].cron = Bad => t \in spoiled
    BY <1>1, <1>2 DEF Reader
  <2>3. PICK starting \in {{}} \cup {{t} : t \in {u \in Task : Startable(u, l, p)}} :
               Apply("request", l, p, starting, "request")
    BY <2>1
  <2>4. starting \subseteq Task /\ \A t \in starting : Startable(t, l, p)
    BY <2>3
  <2>5. Applies("request", l, p, starting, "request")
    BY <2>2, <2>3, <2>4 DEF Applies, Reader
  <2>6. QED
    BY <2>5
<1>5. QED
  BY <1>3, <1>4

\* A run that is started.
Started(t, who, l) ==
    [NoRun EXCEPT !.pc = "filing", !.by = who, !.own = TRUE,
                  !.cron = IF BuiltIn(t) THEN NoCron ELSE l[t].cron]

LEMMA StartedIs ==
  ASSUME NEW t \in Task, NEW who \in {"schedule", "request"}, NEW l,
         l[t].cron \in Cron \cup {NoCron}
  PROVE  /\ Started(t, who, l) \in Run
         /\ Started(t, who, l).pc = "filing" /\ Started(t, who, l).own
         /\ Started(t, who, l).filed = "no"
         /\ Started(t, who, l).cron \in {NoCron, l[t].cron}
  BY DEF Started, Run, NoRun

\* What is applied to a run.
LEMMA AppliedRun ==
  ASSUME TypeOK, NEW r, NEW l, NEW p, NEW starting, NEW who, Applies(r, l, p, starting, who),
         NEW t \in Task
  PROVE  /\ t \in starting =>
               /\ Min(Free(t)) \in Slot /\ run[t][Min(Free(t))].pc = "off"
               /\ run'[t][Min(Free(t))] = Started(t, who, l)
               /\ p[t].known /\ ~p[t].running
         /\ \A n \in Slot : (t \in starting /\ n = Min(Free(t))) \/
               run'[t][n] = IF p[t].known THEN run[t][n] ELSE [run[t][n] EXCEPT !.own = FALSE]
<1>1. ASSUME t \in starting
      PROVE  Min(Free(t)) \in Free(t) /\ p[t].known /\ ~p[t].running
  <2>1. Free(t) # {} /\ p[t].known /\ ~p[t].running
    BY <1>1 DEF Applies, Startable
  <2>2. Free(t) \in SUBSET Nat
    BY DEF Free, Slot
  <2>3. QED
    BY <2>1, <2>2, MinIs
<1>2. ASSUME NEW n \in Slot
      PROVE  run'[t][n] = IF t \in starting /\ n = Min(Free(t)) THEN Started(t, who, l)
                  ELSE IF ~p[t].known THEN [run[t][n] EXCEPT !.own = FALSE]
                  ELSE run[t][n]
  BY DEF Applies, Apply, Started
<1>3. ASSUME t \in starting
      PROVE  /\ Min(Free(t)) \in Slot /\ run[t][Min(Free(t))].pc = "off"
             /\ run'[t][Min(Free(t))] = Started(t, who, l)
  <2>1. Min(Free(t)) \in Slot /\ run[t][Min(Free(t))].pc = "off"
    BY <1>1, <1>3 DEF Free
  <2>2. QED
    BY <2>1, <1>2, <1>3
<1>4. ASSUME NEW n \in Slot, ~(t \in starting /\ n = Min(Free(t)))
      PROVE  run'[t][n] = IF p[t].known THEN run[t][n] ELSE [run[t][n] EXCEPT !.own = FALSE]
  BY <1>2, <1>4
<1>5. QED
  BY <1>1, <1>3, <1>4

LEMMA FaultIs ==
  ASSUME TypeOK, Fault \/ NoFault
  PROVE  faults' \in 0..MaxFaults
  BY ConstantsAssumption DEF TypeOK, Fault, NoFault

\* The change of one run.
Put(t, n, x) == run' = [run EXCEPT ![t][n] = x]

LEMMA PutIs ==
  ASSUME TypeOK, NEW t \in Task, NEW n \in Slot, NEW x \in Run, Put(t, n, x)
  PROVE  /\ run' \in [Task -> [Slot -> Run]]
         /\ run'[t][n] = x
         /\ \A u \in Task, m \in Slot : (u # t \/ m # n) => run'[u][m] = run[u][m]
  BY DEF TypeOK, Put

LEMMA MoveIs ==
  ASSUME TypeOK, NEW t \in Task, NEW n \in Slot,
         NEW pc \in {"off", "filing", "checking", "creating", "working", "over", "reporting"},
         To(t, n, pc)
  PROVE  /\ Put(t, n, [run[t][n] EXCEPT !.pc = pc])
         /\ [run[t][n] EXCEPT !.pc = pc] \in Run
         /\ [run[t][n] EXCEPT !.pc = pc].own = run[t][n].own
         /\ [run[t][n] EXCEPT !.pc = pc].cron = run[t][n].cron
         /\ [run[t][n] EXCEPT !.pc = pc].filed = run[t][n].filed
         /\ [run[t][n] EXCEPT !.pc = pc].pc = pc
<1>1. run[t][n] \in Run
  BY DEF TypeOK
<1>2. QED
  BY <1>1 DEF Put, To, TypeOK, Run
-----------------------------------------------------------------------------
(* A run goes on, and keeps the state of its task.                         *)

\* What every step of a run that does not end it has in common.
Goes(t, n, x) ==
    /\ Put(t, n, x) /\ x \in Run
    /\ run[t][n].pc # "off" /\ x.pc # "off"
    /\ x.own = run[t][n].own /\ x.cron = run[t][n].cron
    /\ x.filed = run[t][n].filed \/ x.filed \in {"no", "yes"}

\* The invariants that a step of a run keeps if the plans are left alone.
LEMMA GoesOn ==
  ASSUME IInv, NEW t \in Task, NEW n \in Slot, NEW x, Goes(t, n, x), x.pc # "reporting",
         UNCHANGED <<row, read, list, plan, used, repeated, spoiled, unfiled>>
  PROVE  Owned' /\ Spoils' /\ Timed'
<1>1. /\ x \in Run /\ run'[t][n] = x
      /\ \A u \in Task, m \in Slot : (u # t \/ m # n) => run'[u][m] = run[u][m]
  BY PutIs DEF Goes, IInv
<1>2. \A u \in Task, m \in Slot :
         run'[u][m].own = run[u][m].own /\ run'[u][m].cron = run[u][m].cron
  BY <1>1 DEF Goes
<1>3. Owned'
  <2>1. \A u \in Task, m \in Slot : run'[u][m].pc = "off" => run[u][m].pc = "off"
    BY <1>1 DEF Goes
  <2>2. QED
    BY <1>2, <2>1 DEF IInv, Owned
<1>4. Spoils'
  <2>1. \A u \in Task, m \in Slot : run'[u][m].filed = "cut" => run[u][m].filed = "cut"
    BY <1>1 DEF Goes
  <2>2. QED
    BY <1>2, <2>1 DEF IInv, Spoils
<1>5. Timed'
  <2>1. \A u \in Task, m \in Slot :
           run'[u][m].pc = "reporting" => run[u][m].pc = "reporting"
    BY <1>1
  <2>2. used \subseteq Task
    BY DEF IInv, TypeOK
  <2>3. QED
    BY <1>2, <2>1, <2>2 DEF IInv, Timed
<1>6. QED
  BY <1>3, <1>4, <1>5

\* A step of a run that holds no lock afterwards.
LEMMA LetsGo ==
  ASSUME IInv, NEW t \in Task, NEW n \in Slot, NEW x \in Run, Put(t, n, x),
         x.pc \notin {"checking", "creating", "working"},
         \/ lock' = lock
         \/ lock' = FALSE /\ Holds(t, n),
         abandoned' \/ (UNCHANGED <<late, abandoned>> /\
                          ((open' <= 1 /\ (open' # open => Holds(t, n))) \/ open' = open))
  PROVE  Launches'
<1>1. /\ run'[t][n] = x
      /\ \A u \in Task, m \in Slot : (u # t \/ m # n) => run'[u][m] = run[u][m]
  BY PutIs DEF IInv
<1>2. \A u \in Task, m \in Slot : Holds(u, m)' => Holds(u, m) /\ (u # t \/ m # n)
  BY <1>1 DEF Holds
<1>3. \A u \in Task, m \in Slot : Holds(u, m)' => lock'
  BY <1>2 DEF IInv, Launches
<1>4. \A u, v \in Task : \A m, k \in Slot : Holds(u, m)' /\ Holds(v, k)' => u = v /\ m = k
  BY <1>2 DEF IInv, Launches
<1>5. \A u \in Task, m \in Slot : run'[u][m].pc = "creating" =>
          run[u][m].pc = "creating" /\ Holds(u, m)'
  BY <1>1 DEF Holds
<1>6. \/ abandoned'
      \/ /\ open' <= 1 /\ late' = 0
         /\ \A u \in Task, m \in Slot : run'[u][m].pc = "creating" => open' = 0
  <2>1. CASE UNCHANGED <<late, abandoned>> /\ open' = open
    BY <2>1, <1>5 DEF IInv, Launches
  <2>2. CASE UNCHANGED <<late, abandoned>> /\ open' <= 1 /\ Holds(t, n)
    <3>1. \A u \in Task, m \in Slot : ~Holds(u, m)'
      BY <1>2, <2>2 DEF IInv, Launches
    <3>2. QED
      BY <1>5, <2>2, <3>1 DEF IInv, Launches
  <2>3. QED
    BY <2>1, <2>2
<1>7. QED
  BY <1>3, <1>4, <1>6 DEF Launches, Holds

LEMMA FileStep ==
  ASSUME IInv, NEW t \in Task, NEW n \in Slot, File(t, n)
  PROVE  IInv'
<1> USE DEF IInv
<1>1. PICK filed \in {"no", "yes"} :
         /\ faults' = faults \/ Fault
         /\ run' = [run EXCEPT ![t][n].filed = filed,
                               ![t][n].pc = IF BuiltIn(t) \/ Locked THEN "over"
                                            ELSE "checking"]
  BY DEF File, NoFault
<1> DEFINE x == [run[t][n] EXCEPT !.filed = filed,
                                  !.pc = IF BuiltIn(t) \/ Locked THEN "over" ELSE "checking"]
<1>2. run[t][n] \in Run /\ run[t][n].pc = "filing"
  BY DEF TypeOK, File
<1>3. /\ x \in Run /\ x.filed = filed /\ x.pc = IF BuiltIn(t) \/ Locked THEN "over"
                                               ELSE "checking"
      /\ x.own = run[t][n].own /\ x.cron = run[t][n].cron
  BY <1>2 DEF Run
<1>4. Put(t, n, x)
  BY <1>1, <1>2 DEF Put, TypeOK
<1> HIDE DEF x
<1>5. Goes(t, n, x) /\ x.pc # "reporting"
  BY <1>2, <1>3, <1>4 DEF Goes
<1>6. Owned' /\ Spoils' /\ Timed'
  BY <1>5, GoesOn DEF File, site
<1>7. TypeOK'
  <2>1. run' \in [Task -> [Slot -> Run]]
    BY <1>3, <1>4, PutIs
  <2>2. faults' \in 0..MaxFaults
    BY <1>1, FaultIs DEF NoFault
  <2>3. lock' \in BOOLEAN
    BY DEF File
  <2>4. QED
    BY <2>1, <2>2, <2>3 DEF TypeOK, File, site
<1>8. Launches'
  <2>1. /\ run'[t][n] = x
        /\ \A u \in Task, m \in Slot : (u # t \/ m # n) => run'[u][m] = run[u][m]
    BY <1>3, <1>4, PutIs
  <2>2. CASE BuiltIn(t) \/ Locked
    <3>1. lock' = lock
      BY <2>2 DEF File, Locked, TypeOK
    <3>2. QED
      BY <1>3, <1>4, <2>2, <3>1, LetsGo DEF File, site
  <2>3. CASE ~(BuiltIn(t) \/ Locked)
    <3>1. ~lock /\ lock'
      BY <2>3 DEF File, Locked, TypeOK
    <3>2. \A u \in Task, m \in Slot : Holds(u, m)' => u = t /\ m = n
      BY <2>1, <3>1 DEF Launches, Holds
    <3>3. \A u \in Task, m \in Slot : run'[u][m].pc # "creating"
      BY <1>3, <2>1, <2>3, <3>1 DEF Launches, Holds
    <3>4. QED
      BY <3>1, <3>2, <3>3 DEF Launches, Holds, File, site
  <2>4. QED
    BY <2>2, <2>3
<1>9. QED
  BY <1>6, <1>7, <1>8

LEMMA CheckStep ==
  ASSUME IInv, NEW t \in Task, NEW n \in Slot, Check(t, n)
  PROVE  IInv'
<1> USE DEF IInv
<1>1. run[t][n].pc = "checking"
  BY DEF Check
<1>2. PICK q \in {"creating", "over"} :
         /\ To(t, n, q)
         /\ \/ q = "creating" /\ open = 0 /\ UNCHANGED lock
            \/ q = "over" /\ lock' = FALSE
  BY DEF Check
<1>3. PICK x \in Run : /\ Put(t, n, x) /\ x.pc = q
                       /\ x.own = run[t][n].own /\ x.cron = run[t][n].cron
                       /\ x.filed = run[t][n].filed
  <2>1. CASE q = "creating"
    <3>1. To(t, n, "creating")
      BY <1>2, <2>1
    <3> DEFINE y == [run[t][n] EXCEPT !.pc = "creating"]
    <3>2. /\ Put(t, n, y) /\ y \in Run /\ y.pc = "creating"
          /\ y.own = run[t][n].own /\ y.cron = run[t][n].cron /\ y.filed = run[t][n].filed
      BY <3>1, MoveIs
    <3> HIDE DEF y
    <3>3. QED
      BY <2>1, <3>2
  <2>2. CASE q = "over"
    <3>1. To(t, n, "over")
      BY <1>2, <2>2
    <3> DEFINE y == [run[t][n] EXCEPT !.pc = "over"]
    <3>2. /\ Put(t, n, y) /\ y \in Run /\ y.pc = "over"
          /\ y.own = run[t][n].own /\ y.cron = run[t][n].cron /\ y.filed = run[t][n].filed
      BY <3>1, MoveIs
    <3> HIDE DEF y
    <3>3. QED
      BY <2>2, <3>2
  <2>3. QED
    BY <2>1, <2>2
<1>4. Owned' /\ Spoils' /\ Timed'
  <2>1. Goes(t, n, x) /\ x.pc # "reporting"
    BY <1>1, <1>2, <1>3 DEF Goes
  <2>2. QED
    BY <2>1, GoesOn DEF Check, site
<1>5. TypeOK'
  <2>1. run' \in [Task -> [Slot -> Run]]
    BY <1>3, PutIs
  <2>2. faults' \in 0..MaxFaults
    BY FaultIs DEF Check
  <2>3. lock' \in BOOLEAN
    BY <1>2 DEF TypeOK
  <2>4. QED
    BY <2>1, <2>2, <2>3 DEF TypeOK, Check, site
<1>6. Launches'
  <2>1. CASE q = "over"
    <3>1. lock' = FALSE
      BY <1>2, <2>1
    <3>2. Holds(t, n)
      BY <1>1 DEF Holds
    <3>3. QED
      BY <1>3, <2>1, <3>1, <3>2, LetsGo DEF Check, site
  <2>2. CASE q = "creating"
    <3>1. open = 0 /\ UNCHANGED lock
      BY <1>2, <2>2
    <3>2. \A u \in Task, m \in Slot : Holds(u, m)' => Holds(u, m)
      <4>1. /\ run'[t][n].pc = q
            /\ \A u \in Task, m \in Slot : (u # t \/ m # n) => run'[u][m] = run[u][m]
        BY <1>3, PutIs
      <4>2. QED
        BY <1>1, <4>1 DEF Holds
    <3>3. QED
      BY <3>1, <3>2 DEF Launches, Check, site, Holds
  <2>3. QED
    BY <2>1, <2>2
<1>7. QED
  BY <1>4, <1>5, <1>6

LEMMA OpenedIs ==
  ASSUME TypeOK
  PROVE  Opened \in 0..MaxOpen /\ (open = 0 => Opened = 1)
  BY ConstantsAssumption DEF TypeOK, Opened

LEMMA CreateStep ==
  ASSUME IInv, NEW t \in Task, NEW n \in Slot, Create(t, n)
  PROVE  IInv'
<1> USE DEF IInv
<1> DEFINE x == [run[t][n] EXCEPT !.pc = "working"]
<1>1. run[t][n].pc = "creating" /\ open' = Opened
  BY DEF Create
<1>2. /\ Put(t, n, x) /\ x \in Run /\ x.pc = "working"
      /\ x.own = run[t][n].own /\ x.cron = run[t][n].cron /\ x.filed = run[t][n].filed
  BY MoveIs DEF Create
<1> HIDE DEF x
<1>3. Owned' /\ Spoils' /\ Timed'
  <2>1. Goes(t, n, x) /\ x.pc # "reporting"
    BY <1>1, <1>2 DEF Goes
  <2>2. QED
    BY <2>1, GoesOn DEF Create
<1>4. TypeOK'
  <2>1. run' \in [Task -> [Slot -> Run]]
    BY <1>2, PutIs
  <2>2. open' \in 0..MaxOpen
    BY <1>1, OpenedIs
  <2>3. QED
    BY <2>1, <2>2 DEF TypeOK, Create, bounds
<1>5. Launches'
  <2>1. /\ run'[t][n].pc = "working"
        /\ \A u \in Task, m \in Slot : (u # t \/ m # n) => run'[u][m] = run[u][m]
    BY <1>2, PutIs
  <2>2. \A u \in Task, m \in Slot : Holds(u, m)' => Holds(u, m)
    BY <1>1, <2>1 DEF Holds
  <2>3. \A u \in Task, m \in Slot : run'[u][m].pc # "creating"
    BY <1>1, <2>1 DEF Launches, Holds
  <2>4. abandoned \/ (open' <= 1 /\ late = 0)
    BY <1>1, OpenedIs DEF Launches
  <2>5. QED
    BY <2>2, <2>3, <2>4 DEF Launches, Create, Holds
<1>6. QED
  BY <1>3, <1>4, <1>5

\* What a create without an answer leaves.
LEMMA UnansweredIs ==
  ASSUME IInv, Unanswered, NEW t \in Task, NEW n \in Slot, run[t][n].pc = "creating"
  PROVE  /\ open' \in 0..MaxOpen /\ late' \in Nat /\ abandoned' \in BOOLEAN
         /\ \/ abandoned'
            \/ UNCHANGED <<late, abandoned>> /\ open' <= 1 /\ late = 0
<1>1. /\ open' \in 0..MaxOpen /\ late' \in Nat /\ abandoned' \in BOOLEAN
  <2>1. Opened \in 0..MaxOpen
    BY OpenedIs DEF IInv
  <2>2. open \in 0..MaxOpen /\ late \in Nat /\ abandoned \in BOOLEAN
    BY DEF IInv, TypeOK
  <2>3. open' \in {Opened, open} /\ late' \in {late, late + 1}
    BY DEF Unanswered
  <2>4. abandoned' \in BOOLEAN
    <3>1. CASE UNCHANGED abandoned
      BY <2>2, <3>1
    <3>2. CASE abandoned' = TRUE
      BY <3>2
    <3>3. QED
      BY <3>1, <3>2 DEF Unanswered
  <2>5. QED
    BY <2>1, <2>2, <2>3, <2>4
<1>2. ASSUME ~abandoned' PROVE UNCHANGED <<late, abandoned>> /\ open' <= 1 /\ late = 0
  <2>1. ~abandoned /\ UNCHANGED <<late, abandoned>> /\ open' \in {Opened, open}
    BY <1>2 DEF Unanswered
  <2>2. open = 0 /\ late = 0
    BY <2>1 DEF IInv, Launches
  <2>3. QED
    BY <2>1, <2>2, OpenedIs DEF IInv
<1>3. QED
  BY <1>1, <1>2

LEMMA CreateFailsStep ==
  ASSUME IInv, NEW t \in Task, NEW n \in Slot, CreateFails(t, n)
  PROVE  IInv'
<1> USE DEF IInv
<1> DEFINE x == [run[t][n] EXCEPT !.pc = "over"]
<1>1. run[t][n].pc = "creating" /\ lock' = FALSE /\ Unanswered
  BY DEF CreateFails
<1>2. /\ Put(t, n, x) /\ x \in Run /\ x.pc = "over"
      /\ x.own = run[t][n].own /\ x.cron = run[t][n].cron /\ x.filed = run[t][n].filed
  BY MoveIs DEF CreateFails
<1> HIDE DEF x
<1>3. Owned' /\ Spoils' /\ Timed'
  <2>1. Goes(t, n, x) /\ x.pc # "reporting"
    BY <1>1, <1>2 DEF Goes
  <2>2. QED
    BY <2>1, GoesOn DEF CreateFails
<1>4. TypeOK'
  <2>1. run' \in [Task -> [Slot -> Run]]
    BY <1>2, PutIs
  <2>2. faults' \in 0..MaxFaults
    BY FaultIs DEF CreateFails
  <2>3. QED
    BY <1>1, <2>1, <2>2, UnansweredIs DEF TypeOK, CreateFails
<1>5. Launches'
  <2>1. Holds(t, n)
    BY <1>1 DEF Holds
  <2>2. \/ abandoned'
        \/ UNCHANGED <<late, abandoned>> /\ open' <= 1
    BY <1>1, UnansweredIs
  <2>3. QED
    BY <1>1, <1>2, <2>1, <2>2, LetsGo
<1>6. QED
  BY <1>3, <1>4, <1>5

LEMMA WorkStep ==
  ASSUME IInv, NEW t \in Task, NEW n \in Slot, Work(t, n)
  PROVE  IInv'
<1> USE DEF IInv
<1> DEFINE x == [run[t][n] EXCEPT !.pc = "over"]
<1>1. run[t][n].pc = "working" /\ lock' = FALSE
  BY DEF Work
<1>2. /\ Put(t, n, x) /\ x \in Run /\ x.pc = "over"
      /\ x.own = run[t][n].own /\ x.cron = run[t][n].cron /\ x.filed = run[t][n].filed
  BY MoveIs DEF Work
<1> HIDE DEF x
<1>3. Owned' /\ Spoils' /\ Timed'
  <2>1. Goes(t, n, x) /\ x.pc # "reporting"
    BY <1>1, <1>2 DEF Goes
  <2>2. QED
    BY <2>1, GoesOn DEF Work, site
<1>4. TypeOK'
  <2>1. run' \in [Task -> [Slot -> Run]]
    BY <1>2, PutIs
  <2>2. QED
    BY <1>1, <2>1 DEF TypeOK, Work, site, bounds
<1>5. Launches'
  <2>1. Holds(t, n)
    BY <1>1 DEF Holds
  <2>2. UNCHANGED <<open, late, abandoned>>
    BY DEF Work, site
  <2>3. QED
    BY <1>1, <1>2, <2>1, <2>2, LetsGo
<1>6. QED
  BY <1>3, <1>4, <1>5
-----------------------------------------------------------------------------
(* A run ends.                                                             *)

LEMMA EndsStep ==
  ASSUME IInv, NEW t \in Task, NEW n \in Slot, Ends(t, n)
  PROVE  IInv'
<1> USE DEF IInv
<1> DEFINE x == [run[t][n] EXCEPT !.pc = "reporting"]
<1>1. run[t][n].pc = "over"
  BY DEF Ends
<1>2. /\ Put(t, n, x) /\ x \in Run /\ x.pc = "reporting"
      /\ x.own = run[t][n].own /\ x.cron = run[t][n].cron /\ x.filed = run[t][n].filed
  BY MoveIs DEF Ends
<1> HIDE DEF x
<1>3. /\ run'[t][n] = x /\ run' \in [Task -> [Slot -> Run]]
      /\ \A u \in Task, m \in Slot : (u # t \/ m # n) => run'[u][m] = run[u][m]
  BY <1>2, PutIs
<1>4. \A u \in Task, m \in Slot :
         /\ run'[u][m].own = run[u][m].own /\ run'[u][m].cron = run[u][m].cron
         /\ run'[u][m].filed = run[u][m].filed
         /\ run'[u][m].pc = "off" => run[u][m].pc = "off"
  BY <1>1, <1>2, <1>3
<1>5. /\ Current(t, n) \in Cron \cup {NoCron}
      /\ plan' \in [Task -> Plan]
      /\ \A u \in Task : plan'[u].running = plan[u].running /\ plan'[u].known = plan[u].known
      /\ run[t][n].own => ~plan'[t].due
      /\ \A u \in Task : (u # t \/ ~run[t][n].own) => plan'[u] = plan[u]
  <2>1. Current(t, n) \in Cron \cup {NoCron}
    <3>1. list[t].cron \in Cron \cup {NoCron} /\ run[t][n].cron \in Cron \cup {NoCron}
      BY Values DEF TypeOK, Row, Run
    <3>2. QED
      BY <3>1 DEF Current
  <2>2. plan' = IF run[t][n].own THEN [plan EXCEPT ![t] = Planned(plan[t], Current(t, n))]
                ELSE plan
    BY DEF Ends
  <2>3. plan[t] \in Plan /\ plan \in [Task -> Plan]
    BY DEF TypeOK
  <2>4. /\ Planned(plan[t], Current(t, n)) \in Plan
        /\ Planned(plan[t], Current(t, n)).running = plan[t].running
        /\ Planned(plan[t], Current(t, n)).known = plan[t].known
        /\ ~Planned(plan[t], Current(t, n)).due
    BY <2>1, <2>3 DEF Planned, Plan
  <2>5. QED
    BY <2>1, <2>2, <2>3, <2>4
<1>6. used' = {u \in used : plan'[u].due}
  BY DEF Ends
<1>7. TypeOK'
  BY <1>3, <1>5, <1>6 DEF TypeOK, Ends, site, bounds
<1>8. Owned'
  <2>1. \A u \in Task : ~plan[u].known => plan'[u] = NoPlan
    <3>1. ~plan[t].known => ~run[t][n].own
      BY DEF Owned, NoPlan
    <3>2. QED
      BY <1>5, <3>1 DEF Owned
  <2>2. QED
    BY <1>4, <1>5, <2>1 DEF Owned
<1>9. Spoils'
  BY <1>4 DEF Spoils, Ends, site
<1>10. Timed'
  <2>1. ASSUME NEW u \in used'
        PROVE  /\ plan'[u].due
               /\ \/ u \in spoiled'
                  \/ /\ plan'[u].running
                     /\ \A m \in Slot : run'[u][m].own => run'[u][m].pc # "reporting"
    <3>1. u \in used /\ plan'[u].due /\ u \in Task /\ spoiled' = spoiled
      BY <1>6 DEF TypeOK, Ends
    <3>2. u # t \/ ~run[t][n].own
      BY <1>5, <3>1
    <3>3. \A m \in Slot : run'[u][m].own => run'[u][m] = run[u][m]
      BY <1>3, <1>4, <3>1, <3>2
    <3>4. QED
      BY <1>5, <3>1, <3>3 DEF Timed
  <2>2. QED
    BY <2>1 DEF Timed
<1>11. Launches'
  <2>1. UNCHANGED <<open, late, abandoned, lock>>
    BY DEF Ends, site
  <2>2. QED
    BY <1>2, <2>1, LetsGo
<1>12. QED
  BY <1>7, <1>8, <1>9, <1>10, <1>11

\* What letting a run go leaves, if its task has not been used or is spoiled.
LEMMA ReleasedIs ==
  ASSUME IInv, NEW t \in Task, NEW n \in Slot, Released(t, n), run[t][n].pc # "off",
         run[t][n].own /\ t \in used => t \in spoiled,
         unfiled' \subseteq spoiled, faults' \in 0..MaxFaults, ~Holds(t, n),
         UNCHANGED <<kind, row, open, late, read, list, lock, used, repeated, spoiled,
                     abandoned, edits>>
  PROVE  IInv'
<1> USE DEF IInv
<1>1. NoRun \in Run /\ NoRun.pc = "off" /\ ~NoRun.own /\ NoRun.cron = NoCron
      /\ NoRun.filed = "no"
  BY Values DEF NoRun
<1>2. Put(t, n, NoRun)
  BY DEF Released, Put
<1>3. /\ run'[t][n] = NoRun /\ run' \in [Task -> [Slot -> Run]]
      /\ \A u \in Task, m \in Slot : (u # t \/ m # n) => run'[u][m] = run[u][m]
  BY <1>1, <1>2, PutIs
<1>4. /\ plan' \in [Task -> Plan]
      /\ \A u \in Task : plan'[u].known = plan[u].known /\ plan'[u].due = plan[u].due
      /\ run[t][n].own => ~plan'[t].running
      /\ \A u \in Task : (u # t \/ ~run[t][n].own) => plan'[u] = plan[u]
  <2>1. plan' = IF run[t][n].own THEN [plan EXCEPT ![t].running = FALSE] ELSE plan
    BY DEF Released
  <2>2. plan \in [Task -> Plan] /\ plan[t] \in Plan
    BY DEF TypeOK
  <2>3. QED
    BY <2>1, <2>2 DEF Plan
<1>5. TypeOK'
  BY <1>3, <1>4 DEF TypeOK
<1>6. Owned'
  <2>1. ASSUME NEW u \in Task
        PROVE  plan'[u].running <=> \E m \in Slot : run'[u][m].own
    <3>1. CASE u = t /\ run[t][n].own
      BY <1>1, <1>3, <1>4, <3>1 DEF Owned
    <3>2. CASE u # t \/ ~run[t][n].own
      <4>1. \A m \in Slot : run'[u][m].own <=> run[u][m].own
        BY <1>1, <1>3, <3>2
      <4>2. QED
        BY <1>4, <3>2, <4>1 DEF Owned
    <3>3. QED
      BY <3>1, <3>2
  <2>2. \A u \in Task : ~plan'[u].known => plan'[u] = NoPlan
    <3>1. ~plan[t].known => ~run[t][n].own
      BY DEF Owned, NoPlan
    <3>2. QED
      BY <1>4, <3>1 DEF Owned
  <2>3. \A u \in Task, m \in Slot : run'[u][m].own => run'[u][m] = run[u][m]
    BY <1>1, <1>3
  <2>4. QED
    BY <2>1, <2>2, <2>3 DEF Owned
<1>7. Spoils'
  <2>1. \A u \in Task, m \in Slot : run'[u][m] \in {NoRun, run[u][m]}
    BY <1>3
  <2>2. QED
    BY <1>1, <2>1, Values DEF Spoils
<1>8. Timed'
  <2>1. ASSUME NEW u \in used, u \notin spoiled
        PROVE  /\ plan'[u] = plan[u] /\ u \in Task
               /\ \A m \in Slot : run'[u][m].own => run'[u][m] = run[u][m]
    <3>1. u \in Task
      BY DEF TypeOK
    <3>2. QED
      BY <1>1, <1>3, <1>4, <2>1, <3>1
  <2>2. \A u \in used : plan'[u].due
    BY <1>4 DEF Timed, TypeOK
  <2>3. QED
    BY <2>1, <2>2 DEF Timed
<1>9. Launches'
  BY <1>1, <1>2, LetsGo
<1>10. QED
  BY <1>5, <1>6, <1>7, <1>8, <1>9

LEMMA EndsBadlyStep ==
  ASSUME IInv, NEW t \in Task, NEW n \in Slot, EndsBadly(t, n)
  PROVE  IInv'
<1>1. t \in spoiled
  BY DEF EndsBadly, Current, IInv, Spoils
<1>2. unfiled' \subseteq spoiled
  BY <1>1 DEF EndsBadly, IInv, Spoils
<1>3. faults' \in 0..MaxFaults
  BY DEF EndsBadly, bounds, IInv, TypeOK
<1>4. run[t][n].pc = "over" /\ Released(t, n) /\ ~Holds(t, n)
  BY DEF EndsBadly, Holds
<1>5. QED
  BY <1>1, <1>2, <1>3, <1>4, ReleasedIs DEF EndsBadly, site, bounds

LEMMA ReportStep ==
  ASSUME IInv, NEW t \in Task, NEW n \in Slot, Report(t, n)
  PROVE  IInv'
<1>1. run[t][n].pc = "reporting" /\ Released(t, n) /\ ~Holds(t, n)
  BY DEF Report, Holds
<1>2. run[t][n].own /\ t \in used => t \in spoiled
  BY <1>1 DEF IInv, Timed
<1>3. unfiled' \subseteq spoiled
  BY DEF Report, IInv, Spoils
<1>4. faults' \in 0..MaxFaults
  BY FaultIs DEF Report, IInv
<1>5. QED
  BY <1>1, <1>2, <1>3, <1>4, ReleasedIs DEF Report, site
-----------------------------------------------------------------------------
(* What was read is applied.                                               *)

LEMMA AppliedStep ==
  ASSUME IInv, NEW r, NEW l, NEW p, NEW starting, NEW who, Applies(r, l, p, starting, who)
  PROVE  IInv'
<1> USE DEF IInv
<1>1. /\ r \in Reader /\ who \in {"schedule", "request"}
      /\ l \in [Task -> Row \cup {NoRow}] /\ p \in [Task -> Plan] /\ starting \subseteq Task
      /\ \A t \in Task : Follows(t, p)
      /\ \A t \in Task : l[t].cron = Bad => t \in spoiled
      /\ read' = [read EXCEPT ![r] = NoReading] /\ list' = l
      /\ plan' = [t \in Task |-> IF t \in starting THEN Begun(p[t]) ELSE p[t]]
      /\ UNCHANGED <<kind, row, open, late, lock, spoiled, unfiled, abandoned, edits, faults>>
  BY DEF Applies, Apply, site, bounds
<1>2. ASSUME NEW t \in Task
      PROVE  /\ l[t].cron \in Cron \cup {NoCron}
             /\ Started(t, who, l) \in Run
             /\ Started(t, who, l).pc = "filing" /\ Started(t, who, l).own
             /\ Started(t, who, l).filed = "no"
             /\ Started(t, who, l).cron \in {NoCron, l[t].cron}
  <2>1. l[t].cron \in Cron \cup {NoCron}
    BY <1>1, Values DEF Row
  <2>2. QED
    BY <1>1, <2>1, StartedIs
<1> DEFINE New(t, n) == t \in starting /\ n = Min(Free(t))
<1>3. ASSUME NEW t \in Task
      PROVE  /\ t \in starting => /\ Min(Free(t)) \in Slot /\ p[t].known /\ ~p[t].running
                                  /\ run'[t][Min(Free(t))] = Started(t, who, l)
             /\ \A n \in Slot : New(t, n) \/
                   run'[t][n] = IF p[t].known THEN run[t][n]
                                ELSE [run[t][n] EXCEPT !.own = FALSE]
  BY AppliedRun
<1>4. ASSUME NEW t \in Task, NEW n \in Slot, ~New(t, n)
      PROVE  /\ run'[t][n] \in Run
             /\ run'[t][n].pc = run[t][n].pc /\ run'[t][n].cron = run[t][n].cron
             /\ run'[t][n].filed = run[t][n].filed
             /\ run'[t][n].own <=> p[t].known /\ run[t][n].own
  <2>1. run[t][n] \in Run
    BY DEF TypeOK
  <2>2. CASE p[t].known
    BY <1>3, <1>4, <2>1, <2>2
  <2>3. CASE ~p[t].known
    <3>1. run'[t][n] = [run[t][n] EXCEPT !.own = FALSE]
      BY <1>3, <1>4, <2>3
    <3>2. QED
      BY <2>1, <2>3, <3>1 DEF Run
  <2>4. QED
    BY <2>2, <2>3
<1>5. ASSUME NEW t \in Task, NEW n \in Slot, New(t, n)
      PROVE  run'[t][n] = Started(t, who, l)
  BY <1>3, <1>5
<1>6. ASSUME NEW t \in Task
      PROVE  /\ plan'[t] \in Plan /\ plan'[t].due = p[t].due /\ plan'[t].known = p[t].known
             /\ plan'[t].running <=> t \in starting \/ p[t].running
             /\ t \notin starting => plan'[t] = p[t]
  <2>1. p[t] \in Plan
    BY <1>1
  <2>2. QED
    BY <1>1, <2>1 DEF Begun, Plan
<1>7. ASSUME NEW t \in Task
      PROVE  /\ p[t].due => plan[t].due /\ p[t].known
             /\ p[t].known => p[t].running = plan[t].running
             /\ ~p[t].known => p[t] = NoPlan /\ ~p[t].running /\ ~p[t].due
             /\ t \in starting => /\ p[t].known /\ ~plan[t].running
                                  /\ \A n \in Slot : ~run[t][n].own
  <2>1. Follows(t, p)
    BY <1>1
  <2>2. ~p[t].known => p[t] = NoPlan /\ ~p[t].running /\ ~p[t].due
    BY <2>1 DEF Follows, NoPlan
  <2>3. t \in starting => p[t].known /\ ~p[t].running
    BY <1>3
  <2>4. p[t].known => p[t].running = plan[t].running
    BY <2>1 DEF Follows
  <2>5. t \in starting => ~plan[t].running
    BY <1>1, <2>3, <2>4 DEF TypeOK, Plan
  <2>6. QED
    BY <2>1, <2>2, <2>3, <2>4, <2>5 DEF Follows, Owned
<1> HIDE DEF New
<1>8. used' = {t \in used \cup (IF who = "schedule" THEN starting ELSE {}) : p[t].due}
  BY DEF Applies, Apply
<1>9. repeated' \subseteq spoiled'
  <2>1. ASSUME NEW t \in starting \cap used, p[t].due PROVE t \in spoiled
    <3>1. t \in Task
      BY <1>1
    <3>2. ~plan[t].running
      BY <1>7, <2>1, <3>1
    <3>3. QED
      BY <3>2, <2>1 DEF Timed
  <2>2. repeated' \subseteq repeated \cup {t \in starting \cap used : p[t].due}
    BY DEF Applies, Apply
  <2>3. QED
    BY <1>1, <2>1, <2>2 DEF Spoils
<1>10. TypeOK'
  <2>1. run' \in [Task -> [Slot -> Run]]
    <3>1. \A t \in Task, n \in Slot : run'[t][n] \in Run
      BY <1>2, <1>4, <1>5
    <3>2. run' = [t \in Task |-> [n \in Slot |-> run'[t][n]]]
      BY DEF Applies, Apply
    <3>3. QED
      BY <3>1, <3>2
  <2>2. plan' \in [Task -> Plan]
    BY <1>1, <1>6
  <2>3. read' \in [Reader -> [pc : {"off", "read", "failed"},
                              rows : [Task -> Row \cup {NoRow}]]]
    BY <1>1 DEF TypeOK, NoReading, NoRows
  <2>4. used' \subseteq Task /\ repeated' \subseteq Task
    <3>1. used' \subseteq Task
      BY <1>1, <1>8 DEF TypeOK
    <3>2. repeated' \subseteq Task
      BY <1>1 DEF TypeOK, Applies, Apply
    <3>3. QED
      BY <3>1, <3>2
  <2>5. QED
    BY <1>1, <2>1, <2>2, <2>3, <2>4 DEF TypeOK
<1>11. Owned'
  <2>1. ASSUME NEW t \in Task
        PROVE  /\ \A m, n \in Slot : run'[t][m].own /\ run'[t][n].own => m = n
               /\ \A n \in Slot : run'[t][n].own => run'[t][n].pc # "off"
               /\ plan'[t].running <=> \E n \in Slot : run'[t][n].own
               /\ ~plan'[t].known => plan'[t] = NoPlan
    <3>1. CASE t \in starting
      <4>1. Min(Free(t)) \in Slot /\ New(t, Min(Free(t)))
        BY <1>3, <3>1 DEF New
      <4>2. \A n \in Slot : run'[t][n].own <=> n = Min(Free(t))
        <5>1. \A n \in Slot : ~New(t, n) => ~run'[t][n].own
          BY <1>4, <1>7, <3>1
        <5>2. run'[t][Min(Free(t))].own
          BY <1>2, <1>5, <4>1
        <5>3. QED
          BY <5>1, <5>2 DEF New
      <4>3. run'[t][Min(Free(t))].pc # "off"
        BY <1>2, <1>5, <4>1
      <4>4. plan'[t].running /\ plan'[t].known
        BY <1>6, <1>7, <3>1
      <4>5. QED
        BY <4>1, <4>2, <4>3, <4>4
    <3>2. CASE t \notin starting
      <4>1. \A n \in Slot : /\ run'[t][n].own <=> p[t].known /\ run[t][n].own
                            /\ run'[t][n].pc = run[t][n].pc
        BY <1>4, <3>2 DEF New
      <4>2. plan'[t] = p[t]
        BY <1>6, <3>2
      <4>3. CASE p[t].known
        BY <1>7, <4>1, <4>2, <4>3 DEF Owned
      <4>4. CASE ~p[t].known
        BY <1>7, <4>1, <4>2, <4>4
      <4>5. QED
        BY <4>3, <4>4
    <3>3. QED
      BY <3>1, <3>2
  <2>2. QED
    BY <2>1 DEF Owned
<1>12. Spoils'
  <2>1. ASSUME NEW t \in Task, t \notin spoiled
        PROVE  /\ row'[t].cron # Bad /\ list'[t].cron # Bad
               /\ \A q \in Reader : read'[q].rows[t].cron # Bad
               /\ \A n \in Slot : run'[t][n].cron # Bad /\ run'[t][n].filed # "cut"
    <3>1. row'[t].cron # Bad /\ list'[t].cron # Bad
      BY <1>1, <2>1 DEF Spoils
    <3>2. \A q \in Reader : read'[q].rows[t].cron # Bad
      <4>1. NoReading.rows[t].cron # Bad
        BY Values DEF NoReading, NoRows
      <4>2. \A q \in Reader : read'[q] \in {NoReading, read[q]}
        BY <1>1 DEF TypeOK
      <4>3. QED
        BY <2>1, <4>1, <4>2 DEF Spoils
    <3>3. ASSUME NEW n \in Slot PROVE run'[t][n].cron # Bad /\ run'[t][n].filed # "cut"
      <4>1. CASE New(t, n)
        BY <1>1, <1>2, <1>5, <2>1, <4>1, Values
      <4>2. CASE ~New(t, n)
        BY <1>4, <2>1, <4>2 DEF Spoils
      <4>3. QED
        BY <4>1, <4>2
    <3>4. QED
      BY <3>1, <3>2, <3>3
  <2>2. unfiled' \subseteq spoiled'
    BY <1>1 DEF Spoils
  <2>3. QED
    BY <1>1, <1>9, <2>1, <2>2 DEF Spoils
<1>13. Timed'
  <2>1. ASSUME NEW t \in used', t \notin spoiled
        PROVE  plan'[t].running /\ \A n \in Slot : run'[t][n].own => run'[t][n].pc # "reporting"
    <3>1. t \in Task /\ p[t].due /\ p[t].known
      BY <1>1, <1>7, <1>8 DEF TypeOK
    <3>2. CASE t \in starting
      <4>1. plan'[t].running
        BY <1>6, <3>1, <3>2
      <4>2. ASSUME NEW n \in Slot, run'[t][n].own PROVE run'[t][n].pc # "reporting"
        <5>1. New(t, n)
          BY <1>4, <1>7, <3>1, <3>2, <4>2
        <5>2. QED
          BY <1>2, <1>5, <3>1, <5>1
      <4>3. QED
        BY <4>1, <4>2
    <3>3. CASE t \notin starting
      <4>1. t \in used
        BY <1>8, <3>3
      <4>2. plan[t].running /\ \A n \in Slot : run[t][n].own => run[t][n].pc # "reporting"
        BY <2>1, <4>1 DEF Timed
      <4>3. \A n \in Slot : /\ run'[t][n].own <=> run[t][n].own
                            /\ run'[t][n].pc = run[t][n].pc
        BY <1>4, <3>1, <3>3 DEF New
      <4>4. plan'[t].running
        BY <1>6, <1>7, <3>1, <4>2
      <4>5. QED
        BY <4>2, <4>3, <4>4
    <3>4. QED
      BY <3>2, <3>3
  <2>2. \A t \in used' : plan'[t].due
    BY <1>1, <1>6, <1>8 DEF TypeOK
  <2>3. QED
    BY <1>1, <2>1, <2>2 DEF Timed
<1>14. Launches'
  <2>1. \A t \in Task, n \in Slot : Holds(t, n)' => run'[t][n].pc = run[t][n].pc
    BY <1>2, <1>4, <1>5 DEF Holds
  <2>2. \A t \in Task, n \in Slot : Holds(t, n)' => Holds(t, n)
    BY <2>1 DEF Holds
  <2>3. \A t \in Task, n \in Slot : run'[t][n].pc = "creating" => run[t][n].pc = "creating"
    BY <2>1 DEF Holds
  <2>4. QED
    BY <1>1, <2>2, <2>3 DEF Launches
<1>15. QED
  BY <1>10, <1>11, <1>12, <1>13, <1>14
-----------------------------------------------------------------------------
(* Operators, time, readings, and the end of the runner.                   *)

LEMMA WriteStep ==
  ASSUME IInv, NEW t \in Task, Write(t)
  PROVE  IInv'
<1> USE DEF IInv
<1>1. PICK new \in [on : BOOLEAN, cron : Good \cup {Bad}] :
         /\ row' = [row EXCEPT ![t] = new]
         /\ spoiled' = IF new.cron = Bad THEN spoiled \cup {t} ELSE spoiled
  BY DEF Write
<1>2. /\ edits' \in 0..MaxEdits
      /\ UNCHANGED <<kind, open, late, read, list, plan, run, lock, used, repeated,
                     unfiled, abandoned, faults>>
  BY ConstantsAssumption DEF Write, TypeOK
<1>3. spoiled \subseteq spoiled' /\ spoiled' \subseteq Task
  BY <1>1 DEF TypeOK
<1>4. TypeOK'
  <2>1. row' \in [Task -> Row \cup {NoRow}]
    BY <1>1, Values DEF TypeOK, Row
  <2>2. QED
    BY <1>2, <1>3, <2>1 DEF TypeOK
<1>5. \A u \in Task : u \in spoiled' \/ row'[u].cron # Bad
  BY <1>1 DEF TypeOK, Spoils
<1>6. Owned' /\ Launches'
  BY <1>2 DEF Owned, Launches, Holds
<1>7. Spoils'
  BY <1>2, <1>3, <1>5 DEF Spoils
<1>8. Timed'
  BY <1>2, <1>3 DEF Timed
<1>9. QED
  BY <1>4, <1>6, <1>7, <1>8

LEMMA DeleteStep ==
  ASSUME IInv, NEW t \in Task, Delete(t)
  PROVE  IInv'
<1> USE DEF IInv
<1>1. /\ row' = [row EXCEPT ![t] = NoRow] /\ spoiled' = spoiled \cup {t}
      /\ edits' \in 0..MaxEdits
      /\ UNCHANGED <<kind, open, late, read, list, plan, lock, used, repeated, unfiled,
                     abandoned, faults>>
  BY ConstantsAssumption DEF Delete, TypeOK
<1>2. ASSUME NEW u \in Task, NEW n \in Slot
      PROVE  /\ run'[u][n] \in Run
             /\ run'[u][n].pc = run[u][n].pc /\ run'[u][n].own = run[u][n].own
             /\ run'[u][n].cron = run[u][n].cron
             /\ u # t => run'[u][n].filed = run[u][n].filed
  <2>1. run' = [run EXCEPT ![t] = [m \in Slot |->
                  IF run[t][m].filed = "yes" THEN [run[t][m] EXCEPT !.filed = "cut"]
                  ELSE run[t][m]]]
    BY DEF Delete
  <2>2. run[u][n] \in Run
    BY DEF TypeOK
  <2>3. CASE u # t
    BY <2>1, <2>2, <2>3 DEF TypeOK
  <2>4. CASE u = t
    <3>1. run'[u][n] = IF run[u][n].filed = "yes" THEN [run[u][n] EXCEPT !.filed = "cut"]
                       ELSE run[u][n]
      BY <2>1, <2>4 DEF TypeOK
    <3>2. QED
      BY <2>2, <2>4, <3>1 DEF Run
  <2>5. QED
    BY <2>3, <2>4
<1>3. run' \in [Task -> [Slot -> Run]]
  <2>1. run' = [run EXCEPT ![t] = [n \in Slot |->
                  IF run[t][n].filed = "yes" THEN [run[t][n] EXCEPT !.filed = "cut"]
                  ELSE run[t][n]]]
    BY DEF Delete
  <2>2. \A n \in Slot : run'[t][n] \in Run
    BY <1>2
  <2>3. [n \in Slot |-> IF run[t][n].filed = "yes" THEN [run[t][n] EXCEPT !.filed = "cut"]
                        ELSE run[t][n]] \in [Slot -> Run]
    <3>1. \A n \in Slot : run[t][n] \in Run
      BY DEF TypeOK
    <3>2. \A n \in Slot : [run[t][n] EXCEPT !.filed = "cut"] \in Run
      BY <3>1 DEF Run
    <3>3. QED
      BY <3>1, <3>2
  <2>4. QED
    BY <2>1, <2>3 DEF TypeOK
<1>4. TypeOK'
  BY <1>1, <1>3 DEF TypeOK
<1>5. Owned'
  BY <1>1, <1>2 DEF Owned
<1>6. Spoils'
  <2>1. ASSUME NEW u \in Task, u # t PROVE row'[u] = row[u]
    BY <1>1, <2>1 DEF TypeOK
  <2>2. QED
    BY <1>1, <1>2, <2>1 DEF Spoils
<1>7. Timed'
  <2>1. used \subseteq Task
    BY DEF TypeOK
  <2>2. \A u \in used : /\ plan'[u] = plan[u] /\ spoiled \subseteq spoiled'
                        /\ \A n \in Slot : run'[u][n].own = run[u][n].own
                        /\ \A n \in Slot : run'[u][n].pc = run[u][n].pc
    BY <1>1, <1>2, <2>1
  <2>3. used' = used
    BY <1>1
  <2>4. QED
    BY <2>2, <2>3 DEF Timed
<1>8. Launches'
  BY <1>1, <1>2 DEF Launches, Holds
<1>9. QED
  BY <1>4, <1>5, <1>6, <1>7, <1>8

LEMMA CloseStep ==
  ASSUME IInv, Close
  PROVE  IInv'
<1> USE DEF IInv
<1>1. /\ open' \in 0..MaxOpen /\ open' <= open /\ open > 0
      /\ UNCHANGED <<kind, row, late, read, list, plan, run, lock, used, repeated, spoiled,
                     unfiled, abandoned, edits, faults>>
  BY ConstantsAssumption DEF Close, TypeOK, bounds
<1>2. TypeOK' /\ Owned' /\ Spoils' /\ Timed'
  BY <1>1 DEF TypeOK, Owned, Spoils, Timed
<1>3. Launches'
  <2>1. open' <= 1 \/ ~(open <= 1)
    BY <1>1 DEF TypeOK
  <2>2. QED
    BY <1>1, <2>1 DEF Launches, Holds, TypeOK
<1>4. QED
  BY <1>2, <1>3

LEMMA LateCreateStep ==
  ASSUME IInv, LateCreate
  PROVE  IInv'
<1> USE DEF IInv
<1>1. /\ late > 0 /\ late' = late - 1 /\ open' \in 0..MaxOpen
      /\ UNCHANGED <<kind, row, read, list, plan, run, lock, used, repeated, spoiled,
                     unfiled, abandoned, edits, faults>>
  BY OpenedIs DEF LateCreate, bounds
<1>2. late' \in Nat /\ late # 0
  BY <1>1 DEF TypeOK
<1>3. TypeOK' /\ Owned' /\ Spoils' /\ Timed'
  BY <1>1, <1>2 DEF TypeOK, Owned, Spoils, Timed
<1>4. Launches'
  BY <1>1, <1>2 DEF Launches, Holds
<1>5. QED
  BY <1>3, <1>4

LEMMA ElapseStep ==
  ASSUME IInv, NEW t \in Task, Elapse(t)
  PROVE  IInv'
<1> USE DEF IInv
<1>1. /\ plan' = [plan EXCEPT ![t].due = TRUE] /\ plan[t].next # NoCron
      /\ UNCHANGED <<kind, row, open, late, read, list, run, lock, used, repeated, spoiled,
                     unfiled, abandoned, edits, faults>>
  BY DEF Elapse, site, bounds
<1>2. plan[t] \in Plan /\ plan \in [Task -> Plan]
  BY DEF TypeOK
<1>3. /\ plan' \in [Task -> Plan]
      /\ \A u \in Task : /\ plan'[u].running = plan[u].running
                         /\ plan'[u].known = plan[u].known
                         /\ plan[u].due => plan'[u].due
                         /\ u # t => plan'[u] = plan[u]
  BY <1>1, <1>2 DEF Plan
<1>4. plan[t].known
  BY <1>1 DEF Owned, NoPlan
<1>5. TypeOK' /\ Spoils' /\ Launches'
  BY <1>1, <1>3 DEF TypeOK, Spoils, Launches, Holds
<1>6. Owned'
  BY <1>1, <1>3, <1>4 DEF Owned
<1>7. Timed'
  BY <1>1, <1>3 DEF Timed, TypeOK
<1>8. QED
  BY <1>5, <1>6, <1>7

LEMMA ReadStep ==
  ASSUME IInv, NEW r \in Reader, Read(r)
  PROVE  IInv'
<1> USE DEF IInv
<1>1. PICK done \in BOOLEAN, pc \in {"read", "failed"} :
         /\ row' = IF done THEN Registered(r) ELSE row
         /\ read' = [read EXCEPT ![r] =
                       [pc |-> pc, rows |-> IF pc = "read" THEN row' ELSE NoRows]]
  BY DEF Read
<1>2. /\ UNCHANGED <<kind, open, late, list, plan, run, lock, used, repeated, spoiled,
                     unfiled, abandoned, edits>>
      /\ NoFault \/ Fault
  BY DEF Read
<1>3. /\ row' \in [Task -> Row \cup {NoRow}]
      /\ \A t \in Task : row'[t] = Off \/ row'[t] = row[t]
  BY <1>1, Values DEF TypeOK, Registered
<1>4. [pc |-> pc, rows |-> IF pc = "read" THEN row' ELSE NoRows]
        \in [pc : {"off", "read", "failed"}, rows : [Task -> Row \cup {NoRow}]]
  BY <1>3 DEF NoRows
<1>5. TypeOK'
  <2>1. faults' \in 0..MaxFaults
    BY <1>2, FaultIs
  <2>2. QED
    BY <1>1, <1>2, <1>3, <1>4, <2>1 DEF TypeOK
<1>6. Owned' /\ Timed' /\ Launches'
  BY <1>2 DEF Owned, Timed, Launches, Holds
<1>7. Spoils'
  <2>1. \A t \in Task : t \in spoiled \/ row'[t].cron # Bad
    BY <1>3, Values DEF Spoils, Off
  <2>2. \A t \in Task : NoRows[t].cron # Bad
    BY Values DEF NoRows
  <2>3. \A t \in Task, q \in Reader : t \in spoiled \/ read'[q].rows[t].cron # Bad
    <3>1. ASSUME NEW t \in Task, NEW q \in Reader, t \notin spoiled
          PROVE  read'[q].rows[t].cron # Bad
      <4>1. CASE q = r
        <5>1. read'[q].rows = IF pc = "read" THEN row' ELSE NoRows
          BY <1>1, <4>1 DEF TypeOK
        <5>2. QED
          BY <2>1, <2>2, <3>1, <5>1
      <4>2. CASE q # r
        BY <1>1, <3>1, <4>2 DEF TypeOK, Spoils
      <4>3. QED
        BY <4>1, <4>2
    <3>2. QED
      BY <3>1
  <2>4. QED
    BY <1>2, <2>1, <2>3 DEF Spoils
<1>8. QED
  BY <1>5, <1>6, <1>7

\* What the runner knows when it starts.
LEMMA FirstIs ==
  ASSUME NEW k
  PROVE  /\ FirstList(k) \in [Task -> Row \cup {NoRow}] /\ FirstPlan(k) \in [Task -> Plan]
         /\ \A t \in Task : /\ FirstList(k)[t].cron # Bad
                            /\ ~FirstPlan(k)[t].running
                            /\ ~FirstPlan(k)[t].known => FirstPlan(k)[t] = NoPlan
<1>1. ~Idle.running /\ Idle.known /\ ~NoPlan.running /\ ~NoPlan.known
  BY DEF Idle, NoPlan
<1>2. Off.cron # Bad
  BY Values DEF Off
<1>3. QED
  BY <1>1, <1>2, Values DEF FirstList, FirstPlan

LEMMA NoRunIs ==
  /\ NoRun \in Run /\ NoRun.pc = "off" /\ ~NoRun.own /\ NoRun.cron # Bad
  /\ NoRun.filed = "no"
  BY Values DEF NoRun

LEMMA NoReadingIs ==
  /\ NoReading \in [pc : {"off", "read", "failed"}, rows : [Task -> Row \cup {NoRow}]]
  /\ NoRows \in [Task -> Row \cup {NoRow}]
  /\ \A t \in Task : NoReading.rows[t].cron # Bad /\ NoRows[t].cron # Bad
  BY Values DEF NoReading, NoRows

LEMMA RestartStep ==
  ASSUME IInv, Restart
  PROVE  IInv'
<1> USE DEF IInv
<1>1. /\ read' = [r \in Reader |-> NoReading]
      /\ list' = FirstList(kind) /\ plan' = FirstPlan(kind)
      /\ run' = [t \in Task |-> [n \in Slot |-> NoRun]] /\ lock' = FALSE /\ used' = {}
      /\ UNCHANGED <<kind, row, repeated, spoiled, unfiled, edits>>
      /\ faults' \in 0..MaxFaults
  BY FaultIs DEF Restart
<1>2. /\ open' \in 0..MaxOpen /\ late' \in Nat /\ abandoned' \in BOOLEAN
      /\ abandoned' \/ (open' <= 1 /\ late' = 0)
  <2>1. CASE \E t \in Task, n \in Slot : run[t][n].pc = "creating"
    <3>1. Unanswered
      BY <2>1 DEF Restart
    <3>2. QED
      BY <2>1, <3>1, UnansweredIs
  <2>2. CASE ~\E t \in Task, n \in Slot : run[t][n].pc = "creating"
    <3>1. UNCHANGED <<open, late, abandoned>>
      BY <2>2 DEF Restart
    <3>2. QED
      BY <3>1 DEF TypeOK, Launches
  <2>3. QED
    BY <2>1, <2>2
<1>3. TypeOK'
  BY <1>1, <1>2, FirstIs, NoRunIs, NoReadingIs DEF TypeOK
<1>4. Owned'
  BY <1>1, FirstIs, NoRunIs DEF Owned
<1>5. Spoils'
  BY <1>1, FirstIs, NoRunIs, NoReadingIs DEF Spoils
<1>6. Timed'
  BY <1>1 DEF Timed
<1>7. Launches'
  <2>1. \A t \in Task, n \in Slot : run'[t][n].pc = "off"
    BY <1>1, NoRunIs
  <2>2. QED
    BY <1>2, <2>1 DEF Launches, Holds
<1>8. QED
  BY <1>3, <1>4, <1>5, <1>6, <1>7
-----------------------------------------------------------------------------
(* The invariant, and the theorems.                                        *)

LEMMA InitIs ==
  ASSUME Init
  PROVE  IInv
<1>1. TypeOK
  <2>1. row \in [Task -> Row \cup {NoRow}] /\ read = [r \in Reader |-> NoReading]
    BY NoReadingIs DEF Init
  <2>2. read \in [Reader -> [pc : {"off", "read", "failed"},
                             rows : [Task -> Row \cup {NoRow}]]]
    BY <2>1, NoReadingIs
  <2>3. run \in [Task -> [Slot -> Run]]
    BY NoRunIs DEF Init
  <2>4. list \in [Task -> Row \cup {NoRow}] /\ plan \in [Task -> Plan]
    BY FirstIs DEF Init
  <2>5. open \in 0..MaxOpen /\ late \in Nat /\ edits \in 0..MaxEdits /\ faults \in 0..MaxFaults
    BY ConstantsAssumption DEF Init
  <2>6. lock \in BOOLEAN /\ abandoned \in BOOLEAN
    BY DEF Init
  <2>7. QED
    BY <2>1, <2>2, <2>3, <2>4, <2>5, <2>6 DEF Init, TypeOK
<1>2. Owned
  BY FirstIs, NoRunIs DEF Init, Owned
<1>3. Spoils
  BY FirstIs, NoRunIs, NoReadingIs DEF Init, Spoils
<1>4. Timed
  BY DEF Init, Timed
<1>5. Launches
  BY NoRunIs DEF Init, Launches, Holds
<1>6. QED
  BY <1>1, <1>2, <1>3, <1>4, <1>5 DEF IInv

LEMMA StutterIs ==
  ASSUME IInv, UNCHANGED vars
  PROVE  IInv'
  BY DEF vars, IInv, TypeOK, Owned, Spoils, Timed, Launches, Holds

LEMMA StepIs ==
  ASSUME IInv, [Next]_vars
  PROVE  IInv'
<1>1. CASE \E t \in Task : Write(t) \/ Delete(t) \/ Elapse(t)
  BY <1>1, WriteStep, DeleteStep, ElapseStep
<1>2. CASE Close \/ LateCreate
  BY <1>2, CloseStep, LateCreateStep
<1>3. CASE Read("loop") \/ Read("request")
  BY <1>3, ReadStep DEF Reader
<1>4. CASE Schedule \/ Serve
  BY <1>4, Applied, AppliedStep
<1>5. ASSUME NEW t \in Task, NEW n \in Slot, RunStep(t, n) PROVE IInv'
  BY <1>5, FileStep, CheckStep, CreateStep, CreateFailsStep, WorkStep, EndsStep,
     EndsBadlyStep, ReportStep DEF RunStep
<1>6. CASE Restart
  BY <1>6, RestartStep
<1>7. CASE UNCHANGED vars
  BY <1>7, StutterIs
<1>8. QED
  BY <1>1, <1>2, <1>3, <1>4, <1>5, <1>6, <1>7 DEF Next, Loop

LEMMA Invariant == Spec => []IInv
<1>1. Init => IInv
  BY InitIs
<1>2. IInv /\ [Next]_vars => IInv'
  BY StepIs
<1>3. QED
  BY <1>1, <1>2, PTL DEF Spec

\* The state has the types it is declared with: no plan, row, reading or run of the
\* scheduler takes a value that the code cannot hold.
THEOREM TypeCorrect == Spec => []TypeOK
  BY Invariant, PTL DEF IInv

\* A task has one run with its state, which is at work exactly while the task says that it
\* runs, and no time starts it twice (startTaskRun sets "running" before it awaits, runTask
\* replaces the time before it lets go), whatever listings are applied in between.
THEOREM TasksStartOnce == Spec => []StartedOnce
<1>1. ASSUME IInv PROVE StartedOnce
  <2>1. ASSUME NEW t \in Task
        PROVE  /\ Cardinality({n \in Active(t) : run[t][n].own}) <= 1
               /\ plan[t].running <=> \E n \in Active(t) : run[t][n].own
    <3>1. \A n \in Slot : run[t][n].own => n \in Active(t)
      BY <1>1 DEF IInv, Owned, Active
    <3>2. Active(t) \subseteq Slot
      BY DEF Active
    <3> DEFINE Own == {n \in Active(t) : run[t][n].own}
    <3>3. \A m, n \in Own : m = n
      BY <1>1, <3>2 DEF IInv, Owned
    <3>4. Cardinality(Own) <= 1
      <4>1. CASE Own = {}
        BY <4>1, FS_EmptySet
      <4>2. CASE Own # {}
        <5>1. PICK n : n \in Own
          BY <4>2
        <5>2. Own = {n}
          BY <3>3, <5>1
        <5>3. Cardinality(Own) = 1
          BY <5>2, FS_Singleton
        <5>4. QED
          BY <5>3
      <4>3. QED
        BY <4>1, <4>2
    <3>5. plan[t].running <=> \E n \in Active(t) : run[t][n].own
      BY <1>1, <3>1, <3>2 DEF IInv, Owned
    <3>6. QED
      BY <3>4, <3>5
  <2>2. repeated \subseteq spoiled
    BY <1>1 DEF IInv, Spoils
  <2>3. QED
    BY <2>1, <2>2 DEF StartedOnce
<1>2. QED
  BY <1>1, Invariant, PTL

\* Launchers keep one request open: the lock of the runner covers a launcher from its look
\* at the open requests to the end of its first steps, and only a create that nobody waits
\* for any more escapes it.
THEOREM OneRequestOpen == Spec => []OneOpen
<1>1. IInv => OneOpen
  BY DEF IInv, Launches, OneOpen
<1>2. QED
  BY <1>1, Invariant, PTL

\* A run that is over is filed as running only if a call failed, the runner ended, its task
\* was deleted, or its schedule does not parse.
THEOREM RunsAreReported == Spec => []RunsAreFiled
<1>1. IInv => RunsAreFiled
  BY DEF IInv, Spoils, RunsAreFiled
<1>2. QED
  BY <1>1, Invariant, PTL
=============================================================================
