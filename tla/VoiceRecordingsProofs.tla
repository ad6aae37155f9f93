-------------------------- MODULE VoiceRecordingsProofs --------------------------
(***************************************************************************)
(* Theorems about VoiceRecordings, for any channels, any number of         *)
(* recordings and any number of faults.                                    *)
(*                                                                         *)
(* The argument for HookOnce: a session that no two finalizations worked   *)
(* on at a time has at most one that works on it, which has called no hook *)
(* before its last step (Single); and metadata is followed by the hook or  *)
(* a failure, because the step in between cannot throw (Sealed).           *)
(***************************************************************************)
EXTENDS VoiceRecordings, FiniteSetTheorems, WellFoundedInduction, TLAPS

Locked ==
    /\ record.pc # "off" => op = "starting" /\ record.at \in Channel
    /\ record.pc \in {"connect", "prepare"} => \E s \in Session : home[s] = None
    /\ record.pc = "capture" => record.s \in Session
    /\ record.s \in Session => home[record.s] # None
    /\ \A w \in {"stop", "timer"} : final[w].pc # "off" => op = "stopping"
    /\ final["stop"].pc = "off" \/ final["timer"].pc = "off"
    /\ \A w \in Finalizer :
          /\ final[w].pc = "told" => w = "timer"
          /\ final[w].pc \notin {"off", "read"} => final[w].s \in Session
    /\ final["recover"].pc = "read" => final["recover"].s \in Session

At(w, s) == final[w].s = s /\ final[w].pc # "off"

\* A session that was not begun has left no trace.
Fresh ==
    \A s \in Session :
        home[s] = None =>
            /\ note[s] = "none" /\ meta[s] = "none" /\ hooks[s] = 0 /\ active # s
            /\ s \notin live
            /\ \A w \in Finalizer : ~At(w, s)

Single ==
    \A s \in Session \ overlapped :
        /\ \A v, w \in Finalizer : At(v, s) /\ At(w, s) => v = w
        /\ hooks[s] <= 1
        /\ hooks[s] > 0 =>
              meta[s] # "none" /\ \A w \in Finalizer : At(w, s) => final[w].pc = "hooked"
        /\ \A w \in Finalizer : At(w, s) /\ final[w].pc = "sealed" => meta[s] # "none"
        /\ active = s =>
              meta[s] = "none" /\ \A w \in Finalizer : At(w, s) => final[w].pc = "told"

Sealed ==
    \A s \in Session :
        meta[s] = "whole" =>
            \/ hooks[s] > 0 \/ s \in failed
            \/ \E w \in Finalizer : At(w, s) /\ final[w].pc = "sealed"

Kept == \A s \in announced : note[s] # "none"

\* session.json of a session that was begun is written, and never taken away.
Notes == {"none", "torn", "whole"} \cup UnderWay

NoteKept ==
    \A s \in Session : /\ home[s] = None => note'[s] = note[s]
                       /\ note[s] # "none" => note'[s] # "none"

IInv == TypeOK /\ Locked /\ Fresh /\ Single /\ Sealed /\ Kept
-----------------------------------------------------------------------------
(* Helpers.                                                                *)

\* A set of numbers that is not empty has a smallest one.
LEMMA MinIs ==
  ASSUME NEW S \in SUBSET Nat, S # {}
  PROVE  Min(S) \in S /\ \A x \in S : Min(S) <= x
<1> DEFINE Smaller == {ss \in Nat \X Nat : ss[1] < ss[2]}
<1>1. IsWellFoundedOn(Smaller, Nat)
  BY NatLessThanWellFounded DEF OpToRel
<1>2. \E x \in S : \A y \in S : x <= y
  <2>1. PICK x \in S : \A y \in S : ~ (<<y, x>> \in Smaller)
    <3> HIDE DEF Smaller
    <3>1. QED
      BY <1>1, WFMin
  <2>2. ASSUME NEW y \in S PROVE x <= y
    <3>1. x \in Nat /\ y \in Nat
      OBVIOUS
    <3>2. y < x => <<y, x>> \in Smaller
      BY <3>1
    <3>3. ~ (<<y, x>> \in Smaller)
      BY <2>1
    <3> HIDE DEF Smaller
    <3>4. QED
      BY <3>1, <3>2, <3>3
  <2>3. QED
    BY <2>2
<1>3. QED
  BY <1>2 DEF Min

FinalSet ==
    [pc : {"off", "read", "told", "work", "write", "sealed", "hooked"},
     s : Session \cup {None}]

LEMMA Types ==
  /\ NoRecord \in [pc : {"off", "connect", "prepare", "capture"},
                   at : Place, s : Session \cup {None}]
  /\ NoRecord.pc = "off" /\ NoRecord.s \notin Session
  /\ NoFinal \in FinalSet /\ NoFinal.pc = "off" /\ NoFinal.s = None
  /\ None \notin Session /\ None \in Place /\ Channel \subseteq Place /\ None \notin Channel
  /\ "stop" \in Finalizer /\ "timer" \in Finalizer /\ "recover" \in Finalizer
  BY ConstantsAssumption
     DEF NoRecord, NoFinal, FinalSet, Place, Session, None, Finalizer

LEMMA FinalIs ==
  ASSUME TypeOK
  PROVE  final \in [Finalizer -> FinalSet] /\ \A w \in Finalizer : final[w] \in FinalSet
  BY DEF TypeOK, FinalSet

LEMMA NoteIs ==
  ASSUME TypeOK, NEW s \in Session, home[s] # None, NEW x \in Notes \ {"none"},
         note' = [note EXCEPT ![s] = x]
  PROVE  note' \in [Session -> Notes] /\ NoteKept
  BY DEF TypeOK, Notes, NoteKept

LEMMA SavedIs ==
  ASSUME NEW s
  PROVE  Saved(s) \subseteq Notes \ {"none"}
  BY DEF Saved, Notes, UnderWay

\* The types of what a step changes are enough.
LEMMA TypeKept ==
  ASSUME final \in [Finalizer -> FinalSet],
         op \in {"none", "starting", "stopping"}, active \in Session \cup {None},
         live \subseteq Session, timers \subseteq Session,
         record \in [pc : {"off", "connect", "prepare", "capture"},
                     at : Place, s : Session \cup {None}],
         home \in [Session -> Place], note \in [Session -> Notes],
         meta \in [Session -> {"none", "torn", "whole"}], hooks \in [Session -> 0..MaxHooks],
         announced \subseteq Session, overlapped \subseteq Session,
         orphaned \subseteq Session, failed \subseteq Session, faults \in 0..MaxFaults
  PROVE  TypeOK
  BY DEF TypeOK, FinalSet, Notes

LEMMA FaultIs ==
  ASSUME TypeOK, Fault
  PROVE  faults' \in 0..MaxFaults
  BY ConstantsAssumption DEF TypeOK, Fault

LEMMA OverlapIs ==
  ASSUME TypeOK, NEW w \in Finalizer, NEW s \in Session, Overlap(w, s)
  PROVE  /\ overlapped \subseteq overlapped' /\ overlapped' \subseteq overlapped \cup {s}
         /\ s \notin overlapped' => \A v \in Finalizer : v # w => ~At(v, s)
  BY DEF Overlap, Works, At

-----------------------------------------------------------------------------
(* What steps have in common.                                              *)

\* Nobody begins, ends or gets further: the connection changes hands, or a command that
\* has no session yet goes on.
LEMMA Steady ==
  ASSUME IInv,
         \A w \in Finalizer : final'[w].pc = final[w].pc /\ final'[w].s = final[w].s,
         NoteKept, UNCHANGED <<active, live, home, meta, hooks, overlapped, failed, announced>>
  PROVE  Fresh' /\ Single' /\ Sealed' /\ Kept'
<1> USE DEF IInv
<1>1. \A w \in Finalizer, s \in Session : At(w, s)' <=> At(w, s)
  BY DEF At
<1>2. Fresh' /\ Kept'
  BY <1>1 DEF Fresh, Kept, NoteKept, TypeOK
<1>3. Single'
  BY <1>1 DEF Single
<1>4. Sealed'
  BY <1>1 DEF Sealed
<1>5. QED
  BY <1>2, <1>3, <1>4

\* A finalization begins, or begins to look.
LEMMA Began ==
  ASSUME IInv, NEW w \in Finalizer, NEW s \in Session,
         final'[w].s = s, final'[w].pc \in {"read", "told", "work"},
         \A v \in Finalizer : v # w => final'[v] = final[v],
         final[w].pc \in {"off", "read", "told"},
         overlapped \subseteq overlapped', overlapped' \subseteq overlapped \cup {s},
         s \notin overlapped' =>
            /\ \A v \in Finalizer : v # w => ~At(v, s)
            /\ hooks[s] = 0,
         home[s] # None,
         active' \in {None, active}, active' = s => final'[w].pc = "told",
         UNCHANGED <<live, home, note, meta, hooks, failed, announced>>
  PROVE  Fresh' /\ Single' /\ Sealed' /\ Kept'
<1> USE DEF IInv
<1>1. \A v \in Finalizer, u \in Session :
         /\ v # w => (At(v, u)' <=> At(v, u)) /\ final'[v].pc = final[v].pc
         /\ At(w, u)' <=> u = s
  BY DEF At
<1>2. Kept'
  BY DEF Kept
<1>3. Fresh'
  <2>1. None \notin Session
    BY Types
  <2>2. QED
    BY <1>1, <2>1 DEF Fresh
<1>4. ASSUME NEW u \in Session, u \notin overlapped'
      PROVE  /\ \A v, x \in Finalizer : At(v, u)' /\ At(x, u)' => v = x
             /\ hooks[u] <= 1
             /\ hooks[u] > 0 =>
                   meta[u] # "none" /\ \A v \in Finalizer : At(v, u)' => final'[v].pc = "hooked"
             /\ \A v \in Finalizer : At(v, u)' /\ final'[v].pc = "sealed" => meta[u] # "none"
             /\ active' = u =>
                   meta[u] = "none" /\ \A v \in Finalizer : At(v, u)' => final'[v].pc = "told"
  <2>1. u \notin overlapped
    BY <1>4
  <2>2. None \notin Session
    BY Types
  <2>3. CASE u = s
    <3>1. hooks[u] = 0 /\ \A v \in Finalizer : At(v, u)' => v = w
      BY <1>1, <1>4, <2>3
    <3>2. active' = u => meta[u] = "none"
      BY <2>1, <2>2 DEF Single
    <3>3. QED
      BY <2>3, <3>1, <3>2
  <2>4. CASE u # s
    <3>1. \A v \in Finalizer : At(v, u)' => At(v, u) /\ v # w /\ final'[v].pc = final[v].pc
      BY <1>1, <2>4
    <3>2. active' = u => active = u
      BY <2>2
    <3>3. QED
      BY <2>1, <3>1, <3>2 DEF Single
  <2>5. QED
    BY <2>3, <2>4
<1>5. Single'
  BY <1>4 DEF Single
<1>6. Sealed'
  BY <1>1 DEF Sealed
<1>7. QED
  BY <1>2, <1>3, <1>5, <1>6

\* A finalization is over, or given up.
LEMMA Left ==
  ASSUME IInv, NEW w \in Finalizer, final'[w].pc = "off", final[w].pc # "sealed",
         \A v \in Finalizer : v # w => final'[v].pc = final[v].pc /\ final'[v].s = final[v].s,
         failed \subseteq failed', NoteKept,
         \A s \in Session :
            \/ meta'[s] = meta[s]
            \/ /\ meta'[s] = "torn"
               /\ At(w, s) /\ final[w].pc = "write",
         UNCHANGED <<active, live, home, hooks, overlapped, announced>>
  PROVE  Fresh' /\ Single' /\ Sealed' /\ Kept'
<1> USE DEF IInv
<1>1. \A v \in Finalizer, u \in Session :
         /\ At(v, u)' => At(v, u) /\ v # w /\ final'[v].pc = final[v].pc
         /\ v # w => (At(v, u)' <=> At(v, u)) /\ final'[v].pc = final[v].pc
  BY DEF At
<1>2. Fresh' /\ Kept'
  BY <1>1 DEF Fresh, Kept, NoteKept, TypeOK
<1>3. Single'
  BY <1>1 DEF Single
<1>4. Sealed'
  <2>1. \A u \in Session, v \in Finalizer : At(v, u) /\ final[v].pc = "sealed" =>
           At(v, u)' /\ final'[v].pc = "sealed"
    BY <1>1
  <2>2. QED
    BY <2>1 DEF Sealed
<1>5. QED
  BY <1>2, <1>3, <1>4
-----------------------------------------------------------------------------
(* /prism-record.                                                          *)

LEMMA RecordStepIs ==
  ASSUME IInv, NEW c \in Channel, Record(c)
  PROVE  IInv'
<1> USE DEF IInv
<1>1. /\ op = "none" /\ record.pc = "off" /\ \E s \in Session : home[s] = None
      /\ op' = "starting" /\ record' = [pc |-> "connect", at |-> c, s |-> None]
      /\ UNCHANGED <<active, timers, final, live, home, note, meta, announced, hooks,
                     overlapped, orphaned, failed, faults>>
  BY DEF Record, volume, history
<1>2. /\ record'.pc = "connect" /\ record'.at = c /\ record'.s = None
      /\ record' \in [pc : {"off", "connect", "prepare", "capture"},
                      at : Place, s : Session \cup {None}]
  BY <1>1 DEF Place
<1>3. TypeOK'
  BY <1>1, <1>2 DEF TypeOK
<1>4. Locked'
  BY <1>1, <1>2, Types DEF Locked
<1>5. Fresh' /\ Single' /\ Sealed' /\ Kept'
  BY <1>1, Steady DEF NoteKept
<1>6. QED
  BY <1>3, <1>4, <1>5

LEMMA RecordConnectedStep ==
  ASSUME IInv, RecordConnected
  PROVE  IInv'
<1> USE DEF IInv
<1>1. /\ record.pc = "connect" /\ record' = [record EXCEPT !.pc = "prepare"]
      /\ UNCHANGED <<op, active, timers, final, live, home, note, meta, announced, hooks,
                     overlapped, orphaned, failed, faults>>
  BY DEF RecordConnected, volume, history
<1>2. /\ record' \in [pc : {"off", "connect", "prepare", "capture"},
                      at : Place, s : Session \cup {None}]
      /\ record'.pc = "prepare" /\ record'.at = record.at /\ record'.s = record.s
  BY <1>1 DEF TypeOK
<1>3. TypeOK'
  BY <1>1, <1>2 DEF TypeOK
<1>4. Locked'
  BY <1>1, <1>2 DEF Locked
<1>5. Fresh' /\ Single' /\ Sealed' /\ Kept'
  BY <1>1, Steady DEF NoteKept
<1>6. QED
  BY <1>3, <1>4, <1>5

LEMMA RecordActiveStep ==
  ASSUME IInv, RecordActive
  PROVE  IInv'
<1> USE DEF IInv
<1> DEFINE free == {t \in Session : home[t] = None}
           s == Min(free)
<1>1. /\ record.pc = "prepare"
      /\ record' = [record EXCEPT !.pc = "capture", !.s = s]
      /\ active' = s /\ timers' = timers \cup {s} /\ home' = [home EXCEPT ![s] = record.at]
      /\ live' = live \cup {s}
      /\ UNCHANGED <<op, final, note, meta, announced, hooks, overlapped,
                     orphaned, failed, faults>>
  BY DEF RecordActive, history
<1>2. s \in Session /\ home[s] = None
  <2>1. free # {}
    BY <1>1 DEF Locked
  <2>2. free \in SUBSET Nat
    BY DEF Session
  <2>3. s \in free
    BY <2>1, <2>2, MinIs
  <2>4. QED
    BY <2>3
<1> HIDE DEF s
<1>3. record.at \in Channel /\ record.at # None /\ record.at \in Place /\ op = "starting"
  BY <1>1, Types DEF Locked
<1>4. /\ record' \in [pc : {"off", "connect", "prepare", "capture"},
                      at : Place, s : Session \cup {None}]
      /\ record'.pc = "capture" /\ record'.s = s /\ record'.at = record.at
  BY <1>1, <1>2 DEF TypeOK
<1>5. TypeOK'
  BY <1>1, <1>2, <1>3, <1>4 DEF TypeOK
<1>6. \A u \in Session : u # s => home'[u] = home[u]
  BY <1>1, <1>2 DEF TypeOK
<1>7. home'[s] # None
  BY <1>1, <1>2, <1>3 DEF TypeOK
<1>8. Locked'
  BY <1>1, <1>2, <1>3, <1>4, <1>7 DEF Locked
<1>9. \A w \in Finalizer, u \in Session : At(w, u)' <=> At(w, u)
  BY <1>1 DEF At
<1>10. Fresh'
  BY <1>1, <1>6, <1>7, <1>9 DEF Fresh
<1>11. meta[s] = "none" /\ \A w \in Finalizer : ~At(w, s)
  BY <1>2 DEF Fresh
<1>12. Single'
  BY <1>1, <1>9, <1>11 DEF Single
<1>13. Sealed' /\ Kept'
  BY <1>1, <1>9 DEF Sealed, Kept
<1>14. QED
  BY <1>5, <1>8, <1>10, <1>12, <1>13

LEMMA RecordAnnouncedStep ==
  ASSUME IInv, RecordAnnounced
  PROVE  IInv'
<1> USE DEF IInv
<1>1. /\ record.pc = "capture"
      /\ announced' = announced \cup {record.s} /\ record' = NoRecord /\ op' = "none"
      /\ UNCHANGED <<active, timers, final, live, home, meta, hooks, overlapped,
                     orphaned, failed, faults>>
  BY DEF RecordAnnounced
<1>2. record.s \in Session /\ home[record.s] # None /\ op = "starting"
  BY <1>1 DEF Locked
<1>3. note' \in [Session -> Notes] /\ NoteKept /\ note'[record.s] # "none"
  <2>1. PICK left \in Saved(record.s) : note' = [note EXCEPT ![record.s] = left]
    BY DEF RecordAnnounced
  <2>2. left \in Notes \ {"none"}
    BY <2>1, SavedIs
  <2>3. note'[record.s] = left
    BY <1>2, <2>1 DEF TypeOK
  <2>4. QED
    BY <1>2, <2>1, <2>2, <2>3, NoteIs
<1>4. TypeOK'
  BY <1>1, <1>2, <1>3, Types DEF TypeOK, Notes
<1>5. Locked'
  BY <1>1, <1>2, Types DEF Locked
<1>6. \A w \in Finalizer, u \in Session : At(w, u)' <=> At(w, u)
  BY <1>1 DEF At
<1>7. Single' /\ Sealed'
  BY <1>1, <1>6 DEF Single, Sealed
<1>8. Kept'
  BY <1>1, <1>2, <1>3 DEF Kept, NoteKept, TypeOK
<1>9. Fresh'
  BY <1>1, <1>3, <1>6 DEF Fresh, NoteKept
<1>10. QED
  BY <1>4, <1>5, <1>7, <1>8, <1>9

LEMMA RecordFailsStep ==
  ASSUME IInv, RecordFails
  PROVE  IInv'
<1> USE DEF IInv
<1>1. /\ record.pc # "off" /\ Fault /\ record' = NoRecord /\ op' = "none"
      /\ UNCHANGED <<active, timers, final, live, home, meta, announced, hooks, overlapped,
                     orphaned, failed>>
  BY DEF RecordFails, history
<1>2. note' \in [Session -> Notes] /\ NoteKept
  <2>1. CASE note' = note
    BY <2>1 DEF TypeOK, Notes, NoteKept
  <2>2. CASE note' # note
    <3>1. PICK s \in {record.s} \ {None} : note' = [note EXCEPT ![s] = "torn"]
      BY <2>2 DEF RecordFails
    <3>2. s \in Session /\ home[s] # None
      BY <3>1 DEF TypeOK, Locked
    <3>3. "torn" \in Notes \ {"none"}
      BY DEF Notes
    <3>4. QED
      BY <3>1, <3>2, <3>3, NoteIs
  <2>3. QED
    BY <2>1, <2>2
<1>3. TypeOK'
  BY <1>1, <1>2, FaultIs, Types DEF TypeOK, Notes
<1>4. Locked'
  BY <1>1, Types DEF Locked
<1>5. Fresh' /\ Single' /\ Sealed' /\ Kept'
  BY <1>1, <1>2, Steady
<1>6. QED
  BY <1>3, <1>4, <1>5
-----------------------------------------------------------------------------
(* session.json.                                                           *)

\* Only session.json of a session that was begun changes, and it is not taken away.
LEMMA NotedStep ==
  ASSUME IInv, NEW s \in Session, home[s] # None, NEW x \in Notes \ {"none"},
         note' = [note EXCEPT ![s] = x], faults' \in 0..MaxFaults,
         UNCHANGED <<op, active, timers, record, final, live, home, meta, announced, hooks,
                     overlapped, orphaned, failed>>
  PROVE  IInv'
<1> USE DEF IInv
<1>1. note' \in [Session -> Notes] /\ NoteKept
  BY NoteIs
<1>2. TypeOK'
  BY <1>1 DEF TypeOK, Notes
<1>3. Locked'
  BY DEF Locked
<1>4. Fresh' /\ Single' /\ Sealed' /\ Kept'
  BY <1>1, Steady
<1>5. QED
  BY <1>2, <1>3, <1>4

LEMMA TimingStep ==
  ASSUME IInv, NEW s \in Session, Timing(s)
  PROVE  IInv'
<1> DEFINE x == IF note[s] \in UnderWay THEN "mixed" ELSE "writing"
<1>1. /\ s \in live /\ note' = [note EXCEPT ![s] = x]
      /\ UNCHANGED <<op, active, timers, record, final, live, home, meta, announced, hooks,
                     overlapped, orphaned, failed, faults>>
  BY DEF Timing, history
<1>2. home[s] # None
  BY <1>1 DEF IInv, Fresh
<1>3. x \in Notes \ {"none"} /\ faults \in 0..MaxFaults
  BY DEF Notes, UnderWay, IInv, TypeOK
<1> HIDE DEF x
<1>4. QED
  BY <1>1, <1>2, <1>3, NotedStep

LEMMA WrittenStep ==
  ASSUME IInv, NEW s \in Session, Written(s) \/ WriteFails(s)
  PROVE  IInv'
<1>1. /\ note[s] \in UnderWay /\ (Fault \/ faults' = faults)
      /\ UNCHANGED <<op, active, timers, record, final, live, home, meta, announced, hooks,
                     overlapped, orphaned, failed>>
  BY DEF Written, WriteFails, history
<1>2. PICK x \in {"whole", "torn"} : note' = [note EXCEPT ![s] = x]
  BY DEF Written, WriteFails
<1>3. home[s] # None
  BY <1>1 DEF IInv, Fresh, UnderWay
<1>4. x \in Notes \ {"none"} /\ faults' \in 0..MaxFaults
  BY <1>1, FaultIs DEF Notes, IInv, TypeOK
<1>5. QED
  BY <1>1, <1>2, <1>3, <1>4, NotedStep
-----------------------------------------------------------------------------
(* finalizeSession goes on.                                                *)

LEMMA TranscodeStep ==
  ASSUME IInv, NEW w \in Finalizer, Transcode(w)
  PROVE  IInv'
<1> USE DEF IInv
<1> DEFINE s == final[w].s
<1>1. /\ final[w].pc = "work" /\ final' = [final EXCEPT ![w].pc = "write"]
      /\ \E left \in Saved(s) : note' = [note EXCEPT ![s] = left]
      /\ UNCHANGED <<op, active, timers, record, live, home, meta, announced, hooks,
                     overlapped, orphaned, failed, faults>>
  BY DEF Transcode, history
<1>2. s \in Session /\ At(w, s) /\ home[s] # None
  BY <1>1 DEF Locked, At, Fresh
<1>3. /\ final' \in [Finalizer -> FinalSet] /\ final'[w].pc = "write" /\ final'[w].s = s
      /\ \A v \in Finalizer : v # w => final'[v] = final[v]
  BY <1>1, FinalIs DEF FinalSet
<1> HIDE DEF s
<1>4. note' \in [Session -> Notes] /\ NoteKept
  BY <1>1, <1>2, SavedIs, NoteIs
<1>5. TypeOK'
  BY <1>1, <1>3, <1>4 DEF TypeOK, FinalSet, Notes
<1>6. Locked'
  BY <1>1, <1>2, <1>3 DEF Locked
<1>7. \A v \in Finalizer, u \in Session :
         /\ At(v, u)' <=> At(v, u)
         /\ v # w => final'[v].pc = final[v].pc
         /\ At(w, u) => u = s
  BY <1>1, <1>3 DEF At, s
<1>8. Fresh'
  BY <1>1, <1>7, <1>4 DEF Fresh, NoteKept
<1>9. Single'
  BY <1>1, <1>2, <1>3, <1>7 DEF Single
<1>10. Sealed'
  BY <1>1, <1>3, <1>7 DEF Sealed
<1>11. Kept'
  BY <1>1, <1>4 DEF Kept, NoteKept, TypeOK
<1>12. QED
  BY <1>5, <1>6, <1>8, <1>9, <1>10, <1>11

LEMMA SealStep ==
  ASSUME IInv, NEW w \in Finalizer, Seal(w)
  PROVE  IInv'
<1> USE DEF IInv
<1> DEFINE s == final[w].s
<1>1. /\ final[w].pc = "write" /\ final' = [final EXCEPT ![w].pc = "sealed"]
      /\ meta' = [meta EXCEPT ![s] = "whole"]
      /\ UNCHANGED <<op, active, timers, record, live, home, note, announced, hooks,
                     overlapped, orphaned, failed, faults>>
  BY DEF Seal, history
<1>2. s \in Session /\ At(w, s)
  BY <1>1 DEF Locked, At
<1>3. /\ final' \in [Finalizer -> FinalSet] /\ final'[w].pc = "sealed" /\ final'[w].s = s
      /\ \A v \in Finalizer : v # w => final'[v] = final[v]
  BY <1>1, FinalIs DEF FinalSet
<1> HIDE DEF s
<1>4. meta'[s] = "whole" /\ \A u \in Session : u # s => meta'[u] = meta[u]
  BY <1>1, <1>2 DEF TypeOK
<1>5. TypeOK'
  <2>1. meta' \in [Session -> {"none", "torn", "whole"}]
    BY <1>1, <1>2 DEF TypeOK
  <2>2. QED
    BY <1>1, <1>3, <2>1 DEF TypeOK, FinalSet
<1>6. Locked'
  BY <1>1, <1>2, <1>3 DEF Locked
<1>7. \A v \in Finalizer, u \in Session :
         /\ At(v, u)' <=> At(v, u)
         /\ v # w => final'[v].pc = final[v].pc
         /\ At(w, u) => u = s
  BY <1>1, <1>3 DEF At, s
<1>8. Fresh'
  BY <1>1, <1>2, <1>4, <1>7 DEF Fresh
<1>9. Single'
  <2>1. ASSUME s \notin overlapped
        PROVE  /\ ~(hooks[s] > 0) /\ active # s
               /\ \A v \in Finalizer : At(v, s) => v = w
    <3>1. final[w].pc = "write"
      BY <1>1
    <3>2. QED
      BY <1>2, <2>1, <3>1 DEF Single
  <2>2. ASSUME NEW u \in Session, u \notin overlapped
        PROVE  /\ \A v, x \in Finalizer : At(v, u)' /\ At(x, u)' => v = x
               /\ hooks[u] <= 1
               /\ hooks[u] > 0 => /\ meta'[u] # "none"
                                  /\ \A v \in Finalizer : At(v, u)' => final'[v].pc = "hooked"
               /\ \A v \in Finalizer : At(v, u)' /\ final'[v].pc = "sealed" => meta'[u] # "none"
               /\ active = u => /\ meta'[u] = "none"
                                /\ \A v \in Finalizer : At(v, u)' => final'[v].pc = "told"
    <3>1. CASE u = s
      <4>1. hooks[u] <= 1
        BY <2>2 DEF Single
      <4>2. QED
        BY <1>4, <1>7, <2>1, <2>2, <3>1, <4>1
    <3>2. CASE u # s
      <4>1. \A v \in Finalizer : At(v, u)' => At(v, u) /\ v # w /\ final'[v].pc = final[v].pc
        BY <1>7, <3>2
      <4>2. meta'[u] = meta[u]
        BY <1>4, <3>2
      <4>3. QED
        BY <2>2, <4>1, <4>2 DEF Single
    <3>3. QED
      BY <3>1, <3>2
  <2>3. UNCHANGED <<hooks, active, overlapped>>
    BY <1>1
  <2>4. QED
    BY <2>2, <2>3 DEF Single
<1>10. Sealed'
  <2>1. ASSUME NEW u \in Session, meta'[u] = "whole"
        PROVE  \/ hooks[u] > 0 \/ u \in failed
               \/ \E v \in Finalizer : At(v, u)' /\ final'[v].pc = "sealed"
    <3>1. CASE u = s
      BY <1>2, <1>3, <1>7, <3>1
    <3>2. CASE u # s
      <4>1. \A v \in Finalizer : At(v, u) => At(v, u)' /\ final'[v].pc = final[v].pc
        BY <1>7, <3>2
      <4>2. QED
        BY <1>4, <2>1, <3>2, <4>1 DEF Sealed
    <3>3. QED
      BY <3>1, <3>2
  <2>2. UNCHANGED <<hooks, failed>>
    BY <1>1
  <2>3. QED
    BY <2>1, <2>2 DEF Sealed
<1>11. Kept'
  BY <1>1 DEF Kept
<1>12. QED
  BY <1>5, <1>6, <1>8, <1>9, <1>10, <1>11

LEMMA HookStep ==
  ASSUME IInv, NEW w \in Finalizer, Hook(w)
  PROVE  IInv'
<1> USE DEF IInv
<1> DEFINE s == final[w].s
           more == IF hooks[s] < MaxHooks THEN hooks[s] + 1 ELSE hooks[s]
<1>1. /\ final[w].pc = "sealed" /\ final' = [final EXCEPT ![w].pc = "hooked"]
      /\ hooks' = [hooks EXCEPT ![s] = more]
      /\ UNCHANGED <<op, active, timers, record, live, home, note, meta, announced,
                     overlapped, orphaned, failed, faults>>
  BY DEF Hook, volume
<1>2. s \in Session /\ At(w, s)
  BY <1>1 DEF Locked, At
<1>3. /\ final' \in [Finalizer -> FinalSet] /\ final'[w].pc = "hooked" /\ final'[w].s = s
      /\ \A v \in Finalizer : v # w => final'[v] = final[v]
  BY <1>1, FinalIs DEF FinalSet
<1>4. more \in 0..MaxHooks /\ more > 0 /\ (hooks[s] = 0 => more = 1)
  BY <1>2, ConstantsAssumption DEF TypeOK
<1> HIDE DEF s, more
<1>5. /\ hooks' \in [Session -> 0..MaxHooks] /\ hooks'[s] = more
      /\ \A u \in Session : u # s => hooks'[u] = hooks[u]
  BY <1>1, <1>2, <1>4 DEF TypeOK
<1>6. TypeOK'
  BY <1>1, <1>3, <1>5 DEF TypeOK, FinalSet
<1>7. Locked'
  BY <1>1, <1>2, <1>3 DEF Locked
<1>8. \A v \in Finalizer, u \in Session :
         /\ At(v, u)' <=> At(v, u)
         /\ v # w => final'[v].pc = final[v].pc
         /\ At(w, u) => u = s
  BY <1>1, <1>3 DEF At, s
<1>9. Fresh'
  BY <1>1, <1>2, <1>5, <1>8 DEF Fresh
<1>10. Single'
  <2>1. s \notin overlapped => /\ hooks[s] = 0 /\ active # s /\ meta[s] # "none"
                               /\ \A v \in Finalizer : At(v, s) => v = w
    BY <1>1, <1>2 DEF Single, TypeOK
  <2>2. QED
    BY <1>1, <1>2, <1>3, <1>4, <1>5, <1>8, <2>1 DEF Single
<1>11. Sealed'
  <2>1. hooks'[s] > 0
    BY <1>4, <1>5
  <2>2. QED
    BY <1>1, <1>3, <1>5, <1>8, <2>1 DEF Sealed
<1>12. Kept'
  BY <1>1 DEF Kept
<1>13. QED
  BY <1>6, <1>7, <1>9, <1>10, <1>11, <1>12

LEMMA OverStep ==
  ASSUME IInv, NEW w \in Finalizer, Over(w)
  PROVE  IInv'
<1> USE DEF IInv
<1>1. /\ final[w].pc = "hooked" /\ final' = [final EXCEPT ![w] = NoFinal]
      /\ op' = Unlocked(w)
      /\ UNCHANGED <<active, timers, record, live, home, note, meta, announced, hooks,
                     overlapped, orphaned, failed, faults>>
  BY DEF Over, volume, history
<1>2. /\ final' \in [Finalizer -> FinalSet] /\ final'[w] = NoFinal /\ final'[w].pc = "off"
      /\ \A v \in Finalizer : v # w => final'[v] = final[v]
  BY <1>1, FinalIs, Types
<1>3. op' = IF w = "recover" THEN op ELSE "none"
  BY <1>1 DEF Unlocked
<1>4. TypeOK'
  BY <1>1, <1>2, <1>3, Types DEF TypeOK, FinalSet
<1>5. Locked'
  BY <1>1, <1>2, <1>3 DEF Locked, Finalizer
<1>6. Fresh' /\ Single' /\ Sealed' /\ Kept'
  BY <1>1, <1>2, Left DEF NoteKept
<1>7. QED
  BY <1>4, <1>5, <1>6

LEMMA FinalizeFailsStep ==
  ASSUME IInv, NEW w \in Finalizer, FinalizeFails(w)
  PROVE  IInv'
<1> USE DEF IInv
<1>1. /\ final[w].pc \in {"read", "work", "write", "hooked"} /\ Fault
      /\ final' = [final EXCEPT ![w] = NoFinal] /\ op' = Unlocked(w)
      /\ failed' = IF final[w].pc \in {"work", "write"} THEN failed \cup {final[w].s}
                   ELSE failed
      /\ UNCHANGED <<active, timers, record, live, home, announced, hooks, overlapped, orphaned>>
  BY DEF FinalizeFails
<1>2. /\ final' \in [Finalizer -> FinalSet] /\ final'[w] = NoFinal /\ final'[w].pc = "off"
      /\ \A v \in Finalizer : v # w => final'[v] = final[v]
  BY <1>1, FinalIs, Types
<1>3. op' = IF w = "recover" THEN op ELSE "none"
  BY <1>1 DEF Unlocked
<1>4. failed' \subseteq Session /\ failed \subseteq failed'
  BY <1>1 DEF TypeOK, Locked
<1>5. faults' \in 0..MaxFaults
  BY <1>1, FaultIs
<1>6. note' \in [Session -> Notes] /\ NoteKept
  <2>1. CASE note' = note
    BY <2>1 DEF TypeOK, Notes, NoteKept
  <2>2. CASE note' # note
    <3>1. PICK s \in {t \in {final[w].s} : final[w].pc = "work"} :
             note' = [note EXCEPT ![s] = "torn"]
      BY <2>2 DEF FinalizeFails
    <3>2. s \in Session /\ At(w, s)
      BY <3>1 DEF Locked, At
    <3>3. home[s] # None /\ "torn" \in Notes \ {"none"}
      BY <3>2 DEF Fresh, Notes
    <3>4. QED
      BY <3>1, <3>2, <3>3, NoteIs
  <2>3. QED
    BY <2>1, <2>2
<1>7. /\ meta' \in [Session -> {"none", "torn", "whole"}]
      /\ \A s \in Session :
            \/ meta'[s] = meta[s]
            \/ /\ meta'[s] = "torn"
               /\ At(w, s) /\ final[w].pc = "write"
  <2>1. CASE meta' = meta
    BY <2>1 DEF TypeOK
  <2>2. CASE meta' # meta
    <3>1. PICK s \in {t \in {final[w].s} : final[w].pc = "write"} :
             meta' = [meta EXCEPT ![s] = "torn"]
      BY <2>2 DEF FinalizeFails
    <3>2. s \in Session /\ At(w, s) /\ final[w].pc = "write"
      BY <3>1 DEF Locked, At
    <3>3. QED
      BY <3>1, <3>2 DEF TypeOK
  <2>3. QED
    BY <2>1, <2>2
<1>8. TypeOK'
  BY <1>1, <1>2, <1>3, <1>4, <1>5, <1>6, <1>7 DEF TypeOK, FinalSet, Notes
<1>9. Locked'
  BY <1>1, <1>2, <1>3 DEF Locked, Finalizer
<1>10. Fresh' /\ Single' /\ Sealed' /\ Kept'
  BY <1>1, <1>2, <1>4, <1>6, <1>7, Left
<1>11. QED
  BY <1>8, <1>9, <1>10
-----------------------------------------------------------------------------
(* Who finalizes.                                                          *)

\* finalizeSession begins, on a session that is active, or that was looked at.
LEMMA FinalizeIs ==
  ASSUME IInv, NEW w \in Finalizer, NEW s \in Session, NEW known \in BOOLEAN,
         Finalize(w, s, known, timers),
         active = s \/ At(w, s), final[w].pc \in {"off", "read", "told"},
         op' \in {"none", "starting", "stopping"},
         UNCHANGED <<record, live, home, note, meta, announced, hooks, failed, faults>>
  PROVE  /\ TypeOK' /\ Fresh' /\ Single' /\ Sealed' /\ Kept'
         /\ final'[w].pc = "work" /\ final'[w].s = s
         /\ \A v \in Finalizer : v # w => final'[v] = final[v]
<1> USE DEF IInv
<1> DEFINE f == [pc |-> "work", s |-> s]
<1>1. /\ final' = [final EXCEPT ![w] = f] /\ active' = None
      /\ timers' \subseteq timers /\ Overlap(w, s)
      /\ orphaned' = IF active \in {None, s} THEN orphaned ELSE orphaned \cup {active}
  BY DEF Finalize
<1>2. f \in FinalSet /\ f.pc = "work" /\ f.s = s
  BY DEF FinalSet
<1> HIDE DEF f
<1>3. /\ final' \in [Finalizer -> FinalSet] /\ final'[w] = f
      /\ \A v \in Finalizer : v # w => final'[v] = final[v]
  BY <1>1, <1>2, FinalIs
<1>4. /\ overlapped \subseteq overlapped' /\ overlapped' \subseteq overlapped \cup {s}
      /\ s \notin overlapped' => \A v \in Finalizer : v # w => ~At(v, s)
  BY <1>1, OverlapIs
<1>5. TypeOK'
  <2>1. orphaned' \subseteq Session
    BY <1>1 DEF TypeOK
  <2>2. QED
    BY <1>1, <1>3, <1>4, <2>1 DEF TypeOK, FinalSet
<1>6. s \notin overlapped => hooks[s] = 0
  <2>1. hooks[s] \in Nat
    BY DEF TypeOK
  <2>2. final[w].pc # "hooked"
    OBVIOUS
  <2>3. ASSUME s \notin overlapped PROVE ~(hooks[s] > 0)
    <3>1. CASE active = s
      BY <2>3, <3>1 DEF Single
    <3>2. CASE At(w, s)
      BY <2>2, <2>3, <3>2 DEF Single
    <3>3. QED
      BY <3>1, <3>2
  <2>4. QED
    BY <2>1, <2>3
<1>7. home[s] # None
  BY DEF Fresh
<1>8. Fresh' /\ Single' /\ Sealed' /\ Kept'
  <2>1. active' # s
    BY <1>1, Types
  <2>2. QED
    BY <1>1, <1>2, <1>3, <1>4, <1>6, <1>7, <2>1, Began
<1>9. QED
  BY <1>2, <1>3, <1>5, <1>8

LEMMA StopActiveStep ==
  ASSUME IInv, StopActive
  PROVE  IInv'
<1>1. /\ op = "none" /\ active # None /\ op' = "stopping" /\ Finalize("stop", active, TRUE, timers)
      /\ UNCHANGED <<record, live, home, note, meta, announced, hooks, failed, faults>>
  BY DEF StopActive, volume
<1>2. PICK s \in Session : s = active
  BY <1>1 DEF IInv, TypeOK
<1>3. final["stop"].pc = "off" /\ final["timer"].pc = "off" /\ record.pc = "off"
  BY <1>1 DEF IInv, Locked
<1>4. /\ TypeOK' /\ Fresh' /\ Single' /\ Sealed' /\ Kept'
      /\ final'["stop"].pc = "work" /\ final'["stop"].s = s
      /\ \A v \in Finalizer : v # "stop" => final'[v] = final[v]
  BY <1>1, <1>2, <1>3, FinalizeIs, Types
<1>5. Locked'
  BY <1>1, <1>3, <1>4, Types DEF IInv, Locked
<1>6. QED
  BY <1>4, <1>5 DEF IInv

LEMMA RecoverActiveStep ==
  ASSUME IInv, RecoverActive
  PROVE  IInv'
<1>1. /\ final["recover"].pc = "off" /\ active # None /\ Finalize("recover", active, TRUE, timers)
      /\ UNCHANGED <<op, record, live, home, note, meta, announced, hooks, failed,
                     faults>>
  BY DEF RecoverActive, volume
<1>2. PICK s \in Session : s = active
  BY <1>1 DEF IInv, TypeOK
<1>3. op' \in {"none", "starting", "stopping"}
  BY <1>1 DEF IInv, TypeOK
<1>4. /\ TypeOK' /\ Fresh' /\ Single' /\ Sealed' /\ Kept'
      /\ final'["recover"].pc = "work" /\ final'["recover"].s = s
      /\ \A v \in Finalizer : v # "recover" => final'[v] = final[v]
  BY <1>1, <1>2, <1>3, FinalizeIs, Types
<1>5. Locked'
  BY <1>1, <1>4, Types DEF IInv, Locked
<1>6. QED
  BY <1>4, <1>5 DEF IInv

LEMMA StopRecoversStep ==
  ASSUME IInv, StopRecovers
  PROVE  IInv'
<1>1. /\ final["stop"].pc = "read" /\ final["stop"].s # None
      /\ Finalize("stop", final["stop"].s, FALSE, timers)
      /\ UNCHANGED <<op, record, live, home, note, meta, announced, hooks, failed,
                     faults>>
  BY DEF StopRecovers, volume
<1>2. PICK s \in Session : s = final["stop"].s
  BY <1>1, FinalIs, Types DEF IInv, FinalSet
<1>3. At("stop", s) /\ op = "stopping"
  BY <1>1, <1>2 DEF At, IInv, Locked
<1>4. /\ TypeOK' /\ Fresh' /\ Single' /\ Sealed' /\ Kept'
      /\ final'["stop"].pc = "work" /\ final'["stop"].s = s
      /\ \A v \in Finalizer : v # "stop" => final'[v] = final[v]
  BY <1>1, <1>2, <1>3, FinalizeIs, Types
<1>5. Locked'
  BY <1>1, <1>3, <1>4, Types DEF IInv, Locked
<1>6. QED
  BY <1>4, <1>5 DEF IInv

LEMMA TimerStopsStep ==
  ASSUME IInv, TimerStops
  PROVE  IInv'
<1>1. /\ final["timer"].pc = "told" /\ Finalize("timer", final["timer"].s, TRUE, timers)
      /\ UNCHANGED <<op, record, live, home, note, meta, announced, hooks, failed,
                     faults>>
  BY DEF TimerStops, volume
<1>2. PICK s \in Session : s = final["timer"].s
  BY <1>1, Types DEF IInv, Locked
<1>3. At("timer", s) /\ op = "stopping"
  BY <1>1, <1>2 DEF At, IInv, Locked
<1>4. /\ TypeOK' /\ Fresh' /\ Single' /\ Sealed' /\ Kept'
      /\ final'["timer"].pc = "work" /\ final'["timer"].s = s
      /\ \A v \in Finalizer : v # "timer" => final'[v] = final[v]
  BY <1>1, <1>2, <1>3, FinalizeIs, Types
<1>5. Locked'
  BY <1>1, <1>3, <1>4, Types DEF IInv, Locked
<1>6. QED
  BY <1>4, <1>5 DEF IInv

LEMMA RecoverFromDiskStep ==
  ASSUME IInv, RecoverFromDisk
  PROVE  IInv'
<1>1. /\ final["recover"].pc = "read" /\ Finalize("recover", final["recover"].s, FALSE, timers)
      /\ UNCHANGED <<op, record, live, home, note, meta, announced, hooks, failed,
                     faults>>
  BY DEF RecoverFromDisk, volume
<1>2. PICK s \in Session : s = final["recover"].s
  BY <1>1 DEF IInv, Locked
<1>3. At("recover", s) /\ op' \in {"none", "starting", "stopping"}
  BY <1>1, <1>2 DEF At, IInv, TypeOK
<1>4. /\ TypeOK' /\ Fresh' /\ Single' /\ Sealed' /\ Kept'
      /\ final'["recover"].pc = "work" /\ final'["recover"].s = s
      /\ \A v \in Finalizer : v # "recover" => final'[v] = final[v]
  BY <1>1, <1>2, <1>3, FinalizeIs, Types
<1>5. Locked'
  BY <1>1, <1>4, Types DEF IInv, Locked
<1>6. QED
  BY <1>4, <1>5 DEF IInv

LEMMA StopFindsNoneStep ==
  ASSUME IInv, StopFindsNone
  PROVE  IInv'
<1> USE DEF IInv
<1>1. /\ final["stop"].pc = "read" /\ final' = [final EXCEPT !["stop"] = NoFinal] /\ op' = "none"
      /\ UNCHANGED <<active, timers, record, live, home, note, meta, announced, hooks,
                     overlapped, orphaned, failed, faults>>
  BY DEF StopFindsNone, volume, history
<1>2. /\ final' \in [Finalizer -> FinalSet] /\ final'["stop"] = NoFinal
      /\ final'["stop"].pc = "off"
      /\ \A v \in Finalizer : v # "stop" => final'[v] = final[v]
  BY <1>1, FinalIs, Types
<1>3. TypeOK'
  BY <1>1, <1>2, Types DEF TypeOK, FinalSet
<1>4. Locked'
  BY <1>1, <1>2, Types DEF Locked
<1>5. Fresh' /\ Single' /\ Sealed' /\ Kept'
  BY <1>1, <1>2, Left, Types DEF NoteKept
<1>6. QED
  BY <1>3, <1>4, <1>5

\* The volume is read for a session that is not finished.
LEMMA ReadsIs ==
  ASSUME IInv, NEW w \in Finalizer, NEW s \in Session, final[w].pc = "off",
         MaybeUnfinished(s), active # s,
         final' = [final EXCEPT ![w] = [pc |-> "read", s |-> s]],
         Overlap(w, s),
         UNCHANGED <<active, live, home, note, meta, hooks, failed, announced>>
  PROVE  /\ Fresh' /\ Single' /\ Sealed' /\ Kept' /\ overlapped' \subseteq Session
         /\ final' \in [Finalizer -> FinalSet]
         /\ final'[w].pc = "read" /\ final'[w].s = s
         /\ \A v \in Finalizer : v # w => final'[v] = final[v]
<1> USE DEF IInv
<1> DEFINE f == [pc |-> "read", s |-> s]
<1>1. f \in FinalSet /\ f.pc = "read" /\ f.s = s
  BY DEF FinalSet
<1> HIDE DEF f
<1>2. /\ final' \in [Finalizer -> FinalSet] /\ final'[w] = f
      /\ \A v \in Finalizer : v # w => final'[v] = final[v]
  BY <1>1, FinalIs DEF f
<1>3. /\ overlapped \subseteq overlapped' /\ overlapped' \subseteq overlapped \cup {s}
      /\ s \notin overlapped' => \A v \in Finalizer : v # w => ~At(v, s)
  BY OverlapIs
<1>4. s \notin overlapped => hooks[s] = 0
  <2>1. hooks[s] \in Nat
    BY DEF TypeOK
  <2>2. QED
    BY <2>1 DEF Single, MaybeUnfinished, Unfinished
<1>5. home[s] # None
  BY DEF Fresh, MaybeUnfinished, Unfinished, UnderWay
<1>6. Fresh' /\ Single' /\ Sealed' /\ Kept'
  BY <1>1, <1>2, <1>3, <1>4, <1>5, Began
<1>7. overlapped' \subseteq Session
  BY <1>3 DEF TypeOK
<1>8. QED
  BY <1>1, <1>2, <1>6, <1>7

LEMMA RecoverReadsStep ==
  ASSUME IInv, NEW s \in Session, RecoverReads(s)
  PROVE  IInv'
<1> USE DEF IInv
<1>1. /\ final["recover"].pc = "off" /\ active # s /\ MaybeUnfinished(s)
      /\ final' = [final EXCEPT !["recover"] = [pc |-> "read", s |-> s]]
      /\ Overlap("recover", s)
      /\ UNCHANGED <<op, active, timers, record, live, home, note, meta, announced,
                     hooks, orphaned, failed, faults>>
  BY DEF RecoverReads, volume
<1>2. /\ Fresh' /\ Single' /\ Sealed' /\ Kept' /\ overlapped' \subseteq Session
      /\ final' \in [Finalizer -> FinalSet]
      /\ final'["recover"].pc = "read" /\ final'["recover"].s = s
      /\ \A v \in Finalizer : v # "recover" => final'[v] = final[v]
  BY <1>1, ReadsIs, Types
<1>3. TypeOK'
  BY <1>1, <1>2 DEF TypeOK, FinalSet
<1>4. Locked'
  BY <1>1, <1>2, Types DEF Locked
<1>5. QED
  BY <1>2, <1>3, <1>4

LEMMA StopReadsStep ==
  ASSUME IInv, NEW c \in Channel, StopReads(c)
  PROVE  IInv'
<1> USE DEF IInv
<1>1. /\ op = "none" /\ active = None /\ op' = "stopping"
      /\ UNCHANGED <<active, timers, record, live, home, note, meta, announced, hooks,
                     orphaned, failed, faults>>
  BY DEF StopReads, volume
<1>2. PICK s \in Latest(c) :
         /\ final' = [final EXCEPT !["stop"] = [pc |-> "read", s |-> s]]
         /\ Overlap("stop", s)
  BY DEF StopReads
<1>3. final["stop"].pc = "off" /\ final["timer"].pc = "off" /\ record.pc = "off"
  BY <1>1 DEF Locked
<1>4. s = None \/ (s \in Session /\ MaybeUnfinished(s))
  BY DEF Latest
<1>5. CASE s # None
  <2>1. s \in Session /\ MaybeUnfinished(s) /\ active # s
    BY <1>1, <1>4, <1>5
  <2>2. /\ Fresh' /\ Single' /\ Sealed' /\ Kept' /\ overlapped' \subseteq Session
        /\ final' \in [Finalizer -> FinalSet]
        /\ final'["stop"].pc = "read" /\ final'["stop"].s = s
        /\ \A v \in Finalizer : v # "stop" => final'[v] = final[v]
    BY <1>1, <1>2, <1>3, <2>1, ReadsIs, Types
  <2>3. TypeOK'
    BY <1>1, <2>2 DEF TypeOK, FinalSet
  <2>4. Locked'
    BY <1>1, <1>3, <2>2, Types DEF Locked
  <2>5. QED
    BY <2>2, <2>3, <2>4
<1>6. CASE s = None
  <2> DEFINE f == [pc |-> "read", s |-> None]
  <2>1. f \in FinalSet /\ f.pc = "read" /\ f.s = None
    BY DEF FinalSet
  <2>2. final' = [final EXCEPT !["stop"] = f]
    BY <1>2, <1>6
  <2> HIDE DEF f
  <2>3. /\ final' \in [Finalizer -> FinalSet] /\ final'["stop"] = f
        /\ \A v \in Finalizer : v # "stop" => final'[v] = final[v]
    BY <2>1, <2>2, FinalIs, Types
  <2>4. overlapped' \subseteq overlapped \cup {None} /\ overlapped \subseteq overlapped'
    BY <1>2, <1>6 DEF Overlap
  <2>5. overlapped' = overlapped
    <3>1. \A w \in Finalizer : final[w].pc = "off" \/ final[w].s \in Session
      BY <1>3 DEF Locked, Finalizer
    <3>2. Works(None) = {}
      BY <3>1, Types DEF Works
    <3>3. QED
      BY <1>2, <1>6, <3>2 DEF Overlap
  <2>6. TypeOK'
    BY <1>1, <2>3, <2>5 DEF TypeOK, FinalSet
  <2>7. Locked'
    BY <1>1, <1>3, <2>1, <2>3, Types DEF Locked
  <2>8. \A v \in Finalizer, u \in Session :
           /\ At(v, u)' <=> At(v, u)
           /\ At(v, u) => final'[v].pc = final[v].pc
    BY <1>3, <2>1, <2>3, Types DEF At
  <2>9. Fresh' /\ Kept'
    BY <1>1, <2>8 DEF Fresh, Kept
  <2>10. Single' /\ Sealed'
    BY <1>1, <2>5, <2>8 DEF Single, Sealed
  <2>11. QED
    BY <2>6, <2>7, <2>9, <2>10
<1>7. QED
  BY <1>5, <1>6

LEMMA TimerFiresStep ==
  ASSUME IInv, NEW s \in Session, TimerFires(s)
  PROVE  IInv'
<1> USE DEF IInv
<1>1. /\ timers' = timers \ {s}
      /\ UNCHANGED <<active, record, live, home, note, meta, announced, hooks,
                     overlapped, orphaned, failed, faults>>
  BY DEF TimerFires, volume, history
<1>2. CASE Due(s)
  <2> DEFINE f == [pc |-> "told", s |-> s]
  <2>1. op = "none" /\ active = s /\ op' = "stopping" /\ final' = [final EXCEPT !["timer"] = f]
    BY <1>2 DEF TimerFires, Due
  <2>2. f \in FinalSet /\ f.pc = "told" /\ f.s = s
    BY DEF FinalSet
  <2> HIDE DEF f
  <2>3. /\ final' \in [Finalizer -> FinalSet] /\ final'["timer"] = f
        /\ \A v \in Finalizer : v # "timer" => final'[v] = final[v]
    BY <2>1, <2>2, FinalIs, Types
  <2>4. final["stop"].pc = "off" /\ final["timer"].pc = "off" /\ record.pc = "off"
    BY <2>1 DEF Locked
  <2>5. home[s] # None
    BY <2>1 DEF Fresh
  <2>6. s \notin overlapped =>
           /\ \A v \in Finalizer : v # "timer" => ~At(v, s)
           /\ hooks[s] = 0
    <3>1. hooks[s] \in Nat
      BY DEF TypeOK
    <3>2. \A v \in Finalizer : final[v].pc = "told" => v = "timer"
      BY DEF Locked
    <3>3. s \notin overlapped => ~(hooks[s] > 0)
      BY <2>1 DEF Single
    <3>4. s \notin overlapped => \A v \in Finalizer : v # "timer" => ~At(v, s)
      BY <2>1, <3>2 DEF Single
    <3>5. QED
      BY <3>1, <3>3, <3>4
  <2>7. Fresh' /\ Single' /\ Sealed' /\ Kept'
    <3>1. "timer" \in Finalizer /\ final'["timer"].s = s /\ final'["timer"].pc = "told"
      BY <2>2, <2>3, Types
    <3>2. active' \in {None, active} /\ overlapped' = overlapped
      BY <1>1
    <3>3. QED
      BY <1>1, <2>3, <2>4, <2>5, <2>6, <3>1, <3>2, Began
  <2>8. TypeOK'
    BY <1>1, <2>1, <2>3 DEF TypeOK, FinalSet
  <2>9. Locked'
    BY <1>1, <2>1, <2>2, <2>3, <2>4, Types DEF Locked
  <2>10. QED
    BY <2>7, <2>8, <2>9
<1>3. CASE ~Due(s)
  <2>1. UNCHANGED <<op, final>>
    BY <1>3 DEF TimerFires
  <2>2. TypeOK'
    BY <1>1, <2>1 DEF TypeOK
  <2>3. Locked'
    BY <1>1, <2>1 DEF Locked
  <2>4. Fresh' /\ Single' /\ Sealed' /\ Kept'
    BY <1>1, <2>1, Steady DEF NoteKept
  <2>5. QED
    BY <2>2, <2>3, <2>4
<1>4. QED
  BY <1>2, <1>3

LEMMA CrashStep ==
  ASSUME IInv, Crash
  PROVE  IInv'
<1> USE DEF IInv
<1> DEFINE Cut(pc) == {final[w].s : w \in {v \in Finalizer : final[v].pc = pc}}
           Open == {s \in Session : note[s] \in UnderWay}
<1>1. /\ Fault /\ op' = "none" /\ active' = None /\ timers' = {} /\ live' = {}
      /\ record' = NoRecord
      /\ final' = [w \in Finalizer |-> NoFinal]
      /\ UNCHANGED <<home, announced, hooks, overlapped, orphaned>>
      /\ failed' = failed \cup Cut("work") \cup Cut("write") \cup Cut("sealed")
                          \cup ({active} \ {None})
  BY DEF Crash
<1>2. PICK cut \in SUBSET (Open \cup Cut("work") \cup ({record.s} \ {None})) :
         note' = [s \in Session |-> IF s \in cut THEN "torn"
                                    ELSE IF s \in Open THEN "whole" ELSE note[s]]
  BY DEF Crash
<1>3. PICK torn \in SUBSET Cut("write") :
         meta' = [s \in Session |-> IF s \in torn THEN "torn" ELSE meta[s]]
  BY DEF Crash
<1>4. \A pc \in {"work", "write", "sealed"} : Cut(pc) \subseteq Session
  BY DEF Locked
<1>5. \A s \in Session :
         /\ s \in cut \cup Open => home[s] # None
         /\ s \in torn => \E w \in Finalizer : At(w, s) /\ final[w].pc = "write"
  <2>1. \A s \in Open : home[s] # None
    BY DEF Fresh, UnderWay
  <2>2. \A s \in Session \cap Cut("work") : home[s] # None
    <3>1. \A s \in Cut("work") : \E w \in Finalizer : At(w, s)
      BY DEF At
    <3>2. QED
      BY <3>1 DEF Fresh
  <2>3. \A s \in Session \cap {record.s} : home[s] # None
    BY DEF Locked
  <2>4. \A s \in torn : \E w \in Finalizer : At(w, s) /\ final[w].pc = "write"
    BY <1>3 DEF At
  <2>5. QED
    BY <1>2, <2>1, <2>2, <2>3, <2>4
<1>6. note' \in [Session -> Notes] /\ NoteKept
  <2>1. \A s \in Session : note[s] \in Notes
    BY DEF TypeOK, Notes
  <2>2. note' \in [Session -> Notes]
    BY <1>2, <2>1 DEF Notes
  <2>3. \A s \in Session : /\ s \notin cut \cup Open => note'[s] = note[s]
                           /\ s \in cut \cup Open => note'[s] # "none"
    BY <1>2
  <2>4. QED
    BY <1>5, <2>2, <2>3 DEF NoteKept
<1>7. TypeOK'
  <2>1. failed' \subseteq Session
    BY <1>1, <1>4, Types DEF TypeOK
  <2>2. note' \in [Session -> {"none", "torn", "whole"} \cup UnderWay]
    BY <1>6 DEF Notes
  <2>3. meta' \in [Session -> {"none", "torn", "whole"}]
    BY <1>3 DEF TypeOK
  <2>4. faults' \in 0..MaxFaults
    BY <1>1, FaultIs
  <2>5. final' \in [Finalizer -> FinalSet]
    BY <1>1, Types
  <2>6. op' \in {"none", "starting", "stopping"} /\ active' \in Session \cup {None}
        /\ timers' \subseteq Session /\ live' \subseteq Session
    BY <1>1, Types
  <2>7. /\ home' \in [Session -> Place] /\ hooks' \in [Session -> 0..MaxHooks]
        /\ announced' \cup overlapped' \cup orphaned' \subseteq Session
    BY <1>1 DEF TypeOK
  <2>8. record' \in [pc : {"off", "connect", "prepare", "capture"},
                     at : Place, s : Session \cup {None}]
    BY <1>1, Types
  <2>9. QED
    BY <2>1, <2>2, <2>3, <2>4, <2>5, <2>6, <2>7, <2>8 DEF TypeOK, FinalSet
<1>8. \A w \in Finalizer, u \in Session : final'[w].pc = "off" /\ ~At(w, u)'
  BY <1>1, Types DEF At
<1>9. Locked'
  BY <1>1, <1>8, Types DEF Locked
<1>10. Fresh'
  BY <1>1, <1>3, <1>5, <1>8, <1>6, Types DEF Fresh, NoteKept
<1>11. Single'
  <2>1. \A s \in Session : meta[s] # "none" => meta'[s] # "none"
    BY <1>3
  <2>2. \A s \in Session : active' # s
    BY <1>1, Types
  <2>3. QED
    BY <1>1, <1>8, <2>1, <2>2 DEF Single
<1>12. Sealed'
  <2>1. ASSUME NEW s \in Session, meta'[s] = "whole" PROVE hooks[s] > 0 \/ s \in failed'
    <3>1. meta[s] = "whole"
      BY <1>3, <2>1
    <3>2. \A w \in Finalizer : At(w, s) /\ final[w].pc = "sealed" => s \in Cut("sealed")
      BY DEF At
    <3>3. QED
      BY <1>1, <3>1, <3>2 DEF Sealed
  <2>2. QED
    BY <1>1, <2>1 DEF Sealed
<1>13. Kept'
  BY <1>1, <1>6 DEF Kept, NoteKept, TypeOK
<1>14. QED
  BY <1>7, <1>9, <1>10, <1>11, <1>12, <1>13
-----------------------------------------------------------------------------
(* The invariant, and the theorems.                                        *)

LEMMA InitIs ==
  ASSUME Init
  PROVE  IInv
<1>1. \A w \in Finalizer : final[w] = NoFinal
  BY DEF Init
<1>2. \A w \in Finalizer, s \in Session : final[w].pc = "off" /\ ~At(w, s)
  BY <1>1, Types DEF At
<1>3. TypeOK
  <2>1. final \in [Finalizer -> FinalSet]
    BY Types DEF Init
  <2>2. faults \in 0..MaxFaults /\ hooks \in [Session -> 0..MaxHooks]
    BY ConstantsAssumption DEF Init
  <2>3. QED
    BY <2>1, <2>2, Types DEF Init, TypeOK, FinalSet
<1>4. Locked
  BY <1>2, Types DEF Init, Locked
<1>5. Fresh
  BY <1>2, Types DEF Init, Fresh
<1>6. Single
  BY <1>2, Types DEF Init, Single
<1>7. Sealed /\ Kept
  BY DEF Init, Sealed, Kept
<1>8. QED
  BY <1>3, <1>4, <1>5, <1>6, <1>7 DEF IInv

LEMMA StutterIs ==
  ASSUME IInv, UNCHANGED vars
  PROVE  IInv'
<1>1. UNCHANGED <<op, active, timers, record, final, live, home, note, meta,
                  announced, hooks, overlapped, orphaned, failed, faults>>
  BY DEF vars
<1>2. TypeOK' /\ Locked'
  BY <1>1 DEF IInv, TypeOK, Locked
<1>3. Fresh' /\ Single' /\ Sealed' /\ Kept'
  BY <1>1, Steady DEF NoteKept
<1>4. QED
  BY <1>2, <1>3 DEF IInv

LEMMA StepIs ==
  ASSUME IInv, [Next]_vars
  PROVE  IInv'
<1>1. CASE \E c \in Channel : Record(c) \/ StopReads(c)
  BY <1>1, RecordStepIs, StopReadsStep
<1>2. CASE \E s \in Session : Timing(s) \/ Written(s) \/ WriteFails(s)
  BY <1>2, TimingStep, WrittenStep
<1>3. CASE RecordStep \/ RecordFails
  BY <1>3, RecordConnectedStep, RecordActiveStep, RecordAnnouncedStep, RecordFailsStep
     DEF RecordStep
<1>4. CASE \E w \in Finalizer : FinalStep(w) \/ FinalizeFails(w)
  BY <1>4, TranscodeStep, SealStep, HookStep, OverStep, FinalizeFailsStep DEF FinalStep
<1>5. CASE StopActive \/ RecoverActive \/ Begins
  BY <1>5, StopActiveStep, RecoverActiveStep, StopRecoversStep, StopFindsNoneStep,
     TimerStopsStep, RecoverFromDiskStep DEF Begins
<1>6. CASE \E s \in Session : TimerFires(s) \/ RecoverReads(s)
  BY <1>6, TimerFiresStep, RecoverReadsStep
<1>7. CASE Crash
  BY <1>7, CrashStep
<1>8. CASE UNCHANGED vars
  BY <1>8, StutterIs
<1>9. QED
  BY <1>1, <1>2, <1>3, <1>4, <1>5, <1>6, <1>7, <1>8 DEF Next

LEMMA Invariant == Spec => []IInv
<1>1. Init => IInv
  BY InitIs
<1>2. IInv /\ [Next]_vars => IInv'
  BY StepIs
<1>3. QED
  BY <1>1, <1>2, PTL DEF Spec

\* The state has the types it is declared with, across crashes that leave files in part.
THEOREM TypeCorrect == Spec => []TypeOK
  BY Invariant, PTL DEF IInv

\* Commands and the timer finalize a session one at a time: who finds the lock taken gives
\* up (recordingOperationsByGuild), so that only the route can work next to another.
THEOREM OneFinalizerOfASession == Spec => []OneFinalizer
<1>1. ASSUME IInv PROVE OneFinalizer
  <2>1. ASSUME NEW s \in Session PROVE Cardinality(Works(s) \ {"recover"}) <= 1
    <3>1. CASE Works(s) \ {"recover"} = {}
      BY <3>1, FS_EmptySet
    <3>2. CASE Works(s) \ {"recover"} # {}
      <4>1. PICK w : w \in Works(s) \ {"recover"}
        BY <3>2
      <4>2. Works(s) \ {"recover"} = {w}
        BY <1>1, <4>1 DEF IInv, Locked, Works, Finalizer
      <4>3. Cardinality({w}) = 1
        BY FS_Singleton
      <4>4. QED
        BY <4>2, <4>3
    <3>3. QED
      BY <3>1, <3>2
  <2>2. QED
    BY <2>1 DEF OneFinalizer
<1>2. QED
  BY <1>1, Invariant, PTL

\* The hook is called once for a session that no two finalizations overlapped on, and it was
\* called for a session with metadata unless its finalization was cut short.
THEOREM HookIsCalledOnce == Spec => []HookOnce
<1>1. ASSUME IInv PROVE HookOnce
  <2>1. ASSUME NEW s \in Session
        PROVE  /\ hooks[s] > 1 => s \in overlapped
               /\ meta[s] = "whole" /\ Works(s) = {} => hooks[s] > 0 \/ s \in failed
    <3>1. hooks[s] \in Nat
      BY <1>1 DEF IInv, TypeOK
    <3>2. hooks[s] > 1 => s \in overlapped
      BY <1>1, <3>1 DEF IInv, Single
    <3>3. \A w \in Finalizer : At(w, s) => w \in Works(s)
      BY DEF At, Works
    <3>4. QED
      BY <1>1, <3>2, <3>3 DEF IInv, Sealed
  <2>2. QED
    BY <2>1 DEF HookOnce
<1>2. QED
  BY <1>1, Invariant, PTL

\* A recording that a member was told of is active, at work or on the volume, across ends of
\* the process and writes that fail, unless one of its files is being written or was left in
\* part: session.json is written before the member is told, and never taken away.
THEOREM AnnouncedIsKept == Spec => []AnnouncedKept
<1>1. ASSUME IInv PROVE AnnouncedKept
  <2>1. ASSUME NEW s \in announced
        PROVE  \/ meta[s] = "whole" \/ Unfinished(s)
               \/ note[s] \in UnderWay \cup {"torn"} \/ meta[s] = "torn"
    <3>1. /\ note[s] \in {"none", "torn", "whole"} \cup UnderWay /\ note[s] # "none"
          /\ meta[s] \in {"none", "torn", "whole"}
      BY <1>1, <2>1 DEF IInv, Kept, TypeOK
    <3>2. QED
      BY <3>1 DEF Unfinished
  <2>2. QED
    BY <2>1 DEF AnnouncedKept
<1>2. QED
  BY <1>1, Invariant, PTL
=============================================================================
