--------------------------- MODULE VoiceRecordings ---------------------------
(***************************************************************************)
(* Voice recordings of one Discord server, in the source adapter: commands *)
(* that start and stop a recording, the timer that stops one, and the      *)
(* route that recovers one from the volume.  The connection to the voice   *)
(* channel is the matter of VoiceConnections.                              *)
(*                                                                         *)
(* The commands and the timer exclude each other with a lock that lives in *)
(* the process.  Recovering does not take it, and every await lets the     *)
(* others run.  While a recording lives, session.json is written again at  *)
(* every event of a speaker, and nobody waits for that write.              *)
(***************************************************************************)
EXTENDS Naturals, FiniteSets, FiniteSetsExt

CONSTANTS
    Channel,        \* voice channels
    MaxSessions,    \* bound: recordings that are begun
    MaxHooks,       \* bound: hooks of a session that are counted
    MaxFaults       \* bound: calls that throw, processes that end

Session == 1..MaxSessions
None == 0

ASSUME ConstantsAssumption ==
    /\ None \notin Channel /\ Channel # {}
    /\ MaxSessions \in Nat \ {0} /\ MaxHooks \in Nat \ {0, 1} /\ MaxFaults \in Nat

\* Who finalizes a session: /prism-stoprecord, the timer, the route.
Finalizer == {"stop", "timer", "recover"}

VARIABLES
    \* memory
    op,         \* recordingOperationsByGuild
    active,     \* sessionsByGuild
    timers,     \* sessions whose auto-stop timer is armed
    record,     \* /prism-record: where it is, its channel and its session
    final,      \* a finalization: where it is and its session
    live,       \* sessions begun since the process started: their speakers' events come
    \* the volume
    home,       \* the channel in session.json
    note,       \* session.json
    meta,       \* metadata.json
    \* history
    announced,  \* sessions a member was told of
    hooks,      \* recording-complete hooks of a session
    overlapped, \* sessions that two finalizations worked on at a time
    orphaned,   \* sessions that left sessionsByGuild when another was finalized
    failed,     \* sessions whose finalization threw or was cut short
    faults

volume == <<home, note, meta>>
history == <<announced, hooks, overlapped, orphaned, failed>>
vars == <<op, active, timers, record, final, live, home, note, meta,
          announced, hooks, overlapped, orphaned, failed, faults>>

Place == Channel \cup {None}
NoRecord == [pc |-> "off", at |-> None, s |-> None]
NoFinal == [pc |-> "off", s |-> None]

\* A file is none, whole or torn; session.json is being written by one of the writes that
\* nobody awaits, or by several at a time, which leave no one knows what.
UnderWay == {"writing", "mixed"}

TypeOK ==
    /\ op \in {"none", "starting", "stopping"}
    /\ active \in Session \cup {None}
    /\ timers \subseteq Session /\ live \subseteq Session
    /\ record \in [pc : {"off", "connect", "prepare", "capture"},
                   at : Place, s : Session \cup {None}]
    /\ final \in [Finalizer -> [pc : {"off", "read", "told", "work", "write", "sealed",
                                      "hooked"},
                                s : Session \cup {None}]]
    /\ home \in [Session -> Place]
    /\ note \in [Session -> {"none", "torn", "whole"} \cup UnderWay]
    /\ meta \in [Session -> {"none", "torn", "whole"}]
    /\ hooks \in [Session -> 0..MaxHooks]
    /\ announced \cup overlapped \cup orphaned \cup failed \subseteq Session
    /\ faults \in 0..MaxFaults

Init ==
    /\ op = "none" /\ active = None /\ timers = {} /\ live = {}
    /\ record = NoRecord
    /\ final = [w \in Finalizer |-> NoFinal]
    /\ home = [s \in Session |-> None]
    /\ note = [s \in Session |-> "none"] /\ meta = [s \in Session |-> "none"]
    /\ announced = {} /\ hooks = [s \in Session |-> 0]
    /\ overlapped = {} /\ orphaned = {} /\ failed = {}
    /\ faults = 0

-----------------------------------------------------------------------------
Fault == faults < MaxFaults /\ faults' = faults + 1
Works(s) == {w \in Finalizer : final[w].s = s /\ final[w].pc # "off"}

\* One more begins to look at a session.
Overlap(w, s) ==
    overlapped' = IF Works(s) \ {w} # {} THEN overlapped \cup {s} ELSE overlapped

-----------------------------------------------------------------------------
(* session.json.                                                           *)

\* recordTimingEvent: an event of a speaker has session.json written, and nobody awaits it.
\* Who was heard as the recording ended can have an event after it.  The file is of no
\* more use once there is metadata.json.
Timing(s) ==
    /\ s \in live /\ meta[s] = "none"
    /\ note' = [note EXCEPT ![s] = IF @ \in UnderWay THEN "mixed" ELSE "writing"]
    /\ UNCHANGED <<op, active, timers, record, final, live, home, meta, history, faults>>

\* The last of the writes is through.
Written(s) ==
    /\ note[s] \in UnderWay
    /\ \E left \in IF note[s] = "mixed" THEN {"whole", "torn"} ELSE {"whole"} :
          note' = [note EXCEPT ![s] = left]
    /\ UNCHANGED <<op, active, timers, record, final, live, home, meta, history, faults>>

\* One fails midway, which is logged.
WriteFails(s) ==
    /\ note[s] \in UnderWay /\ Fault
    /\ note' = [note EXCEPT ![s] = "torn"]
    /\ UNCHANGED <<op, active, timers, record, final, live, home, meta, history>>

\* What persistSession leaves for who awaits it: other writes may have run next to it.
Saved(s) ==
    IF note[s] \in UnderWay THEN {"mixed"}
    ELSE IF s \in live THEN {"whole", "mixed"} ELSE {"whole"}

-----------------------------------------------------------------------------
(* /prism-record.                                                          *)

\* The lock is taken; an active recording ends the command at once.
Record(c) ==
    /\ op = "none" /\ active = None /\ record.pc = "off"
    /\ \E s \in Session : home[s] = None
    /\ op' = "starting"
    /\ record' = [pc |-> "connect", at |-> c, s |-> None]
    /\ UNCHANGED <<active, timers, final, live, volume, history, faults>>

\* ensureVoiceConnection.
RecordConnected ==
    /\ record.pc = "connect"
    /\ record' = [record EXCEPT !.pc = "prepare"]
    /\ UNCHANGED <<op, active, timers, final, live, volume, history, faults>>

\* The directories are there and the scheduled event was looked up: the session is the
\* server's, and its timer runs.
RecordActive ==
    /\ record.pc = "prepare"
    /\ LET s == Min({t \in Session : home[t] = None})
       IN  /\ record' = [record EXCEPT !.pc = "capture", !.s = s]
           /\ active' = s /\ timers' = timers \cup {s} /\ live' = live \cup {s}
           /\ home' = [home EXCEPT ![s] = record.at]
    /\ UNCHANGED <<op, final, note, meta, history, faults>>

\* Mutant: the member is told before session.json is written.
RecordAnnounced_Unsaved ==
    /\ record.pc = "capture"
    /\ announced' = announced \cup {record.s}
    /\ record' = NoRecord /\ op' = "none"
    /\ UNCHANGED <<active, timers, final, live, volume, hooks, overlapped, orphaned, failed,
                   faults>>

\* Those present are subscribed to, session.json is written, the member is told, and the
\* lock is let go.
RecordAnnounced ==
    /\ record.pc = "capture"
    /\ \E left \in Saved(record.s) : note' = [note EXCEPT ![record.s] = left]
    /\ announced' = announced \cup {record.s}
    /\ record' = NoRecord /\ op' = "none"
    /\ UNCHANGED <<active, timers, final, live, home, meta, hooks, overlapped, orphaned,
                   failed, faults>>

\* Mutant: a step that throws leaves the lock taken.
RecordFails_Locked ==
    /\ record.pc # "off" /\ Fault
    /\ record' = NoRecord
    /\ UNCHANGED <<op, active, timers, final, live, volume, history>>

\* A step throws, a write of session.json midway: the lock is let go, and what was done stays.
RecordFails ==
    /\ record.pc # "off" /\ Fault
    /\ record' = NoRecord /\ op' = "none"
    /\ note' \in {note} \cup
          {[note EXCEPT ![s] = "torn"] : s \in {record.s} \ {None}}
    /\ UNCHANGED <<active, timers, final, live, home, meta, history>>

-----------------------------------------------------------------------------
(* finalizeSession.                                                        *)

\* Its timers are cleared if the session is the one in memory, and whichever session the
\* server has is removed from the map.
Finalize(w, s, known, t) ==
    /\ final' = [final EXCEPT ![w] = [pc |-> "work", s |-> s]]
    /\ active' = None
    /\ timers' = IF known THEN t \ {s} ELSE t
    /\ Overlap(w, s)
    /\ orphaned' = IF active \in {None, s} THEN orphaned ELSE orphaned \cup {active}

\* Streams end, audio is transcoded, session.json is written again.
Transcode(w) ==
    /\ final[w].pc = "work"
    /\ final' = [final EXCEPT ![w].pc = "write"]
    /\ \E left \in Saved(final[w].s) : note' = [note EXCEPT ![final[w].s] = left]
    /\ UNCHANGED <<op, active, timers, record, live, home, meta, history, faults>>

\* The transcript, the summary and the memory are done with; metadata.json is written.
Seal(w) ==
    /\ final[w].pc = "write"
    /\ final' = [final EXCEPT ![w].pc = "sealed"]
    /\ meta' = [meta EXCEPT ![final[w].s] = "whole"]
    /\ UNCHANGED <<op, active, timers, record, live, home, note, history, faults>>

\* Commands and the timer hold the lock.
Unlocked(w) == IF w = "recover" THEN op ELSE "none"

\* The hook is called once, and a failure of it is logged.
Hook(w) ==
    /\ final[w].pc = "sealed"
    /\ final' = [final EXCEPT ![w].pc = "hooked"]
    /\ hooks' = [hooks EXCEPT ![final[w].s] = IF @ < MaxHooks THEN @ + 1 ELSE @]
    /\ UNCHANGED <<op, active, timers, record, live, volume, announced, overlapped, orphaned,
                   failed, faults>>

\* The webhook was called and the connection destroyed.
Over(w) ==
    /\ final[w].pc = "hooked"
    /\ final' = [final EXCEPT ![w] = NoFinal]
    /\ op' = Unlocked(w)
    /\ UNCHANGED <<active, timers, record, live, volume, history, faults>>

\* ffmpeg, the transcription, the disk or what comes after the hook throws; a file whose
\* write throws midway is left in part.
FinalizeFails(w) ==
    /\ final[w].pc \in {"read", "work", "write", "hooked"} /\ Fault
    /\ final' = [final EXCEPT ![w] = NoFinal]
    /\ failed' = IF final[w].pc \in {"work", "write"} THEN failed \cup {final[w].s} ELSE failed
    /\ note' \in {note} \cup
          {[note EXCEPT ![s] = "torn"] : s \in {t \in {final[w].s} : final[w].pc = "work"}}
    /\ meta' \in {meta} \cup
          {[meta EXCEPT ![s] = "torn"] : s \in {t \in {final[w].s} : final[w].pc = "write"}}
    /\ op' = Unlocked(w)
    /\ UNCHANGED <<active, timers, record, live, home, announced, hooks, overlapped, orphaned>>

-----------------------------------------------------------------------------
(* Who finalizes.                                                          *)

\* /prism-stoprecord takes the lock.  From the channel of the active recording:
StopActive ==
    /\ op = "none" /\ active # None
    /\ op' = "stopping"
    /\ Finalize("stop", active, TRUE, timers)
    /\ UNCHANGED <<record, live, volume, announced, hooks, failed, faults>>

\* Mutant: a session is recovered whether it was sealed or not.
Unfinished_Sealed(s) == note[s] = "whole"

\* session.json can be read, and there is no metadata.json.
Unfinished(s) == note[s] = "whole" /\ meta[s] = "none"

\* So it may be while the file is being written.
MaybeUnfinished(s) == Unfinished(s) \/ (note[s] \in UnderWay /\ meta[s] = "none")

\* recoverLatestSessionFromDisk: the newest of the channel that is not finished, unless
\* that one is too old.
Latest(c) == LET found == {s \in Session : home[s] = c /\ Unfinished(s)}
             IN  {None} \cup {s \in Session : /\ home[s] = c /\ MaybeUnfinished(s)
                                             /\ \A t \in found : t <= s}

\* With no recording active, the volume is read first.
StopReads(c) ==
    /\ op = "none" /\ active = None
    /\ op' = "stopping"
    /\ \E s \in Latest(c) :
          /\ final' = [final EXCEPT !["stop"] = [pc |-> "read", s |-> s]]
          /\ Overlap("stop", s)
    /\ UNCHANGED <<active, timers, record, live, volume, announced, hooks, orphaned, failed,
                   faults>>

StopRecovers ==
    /\ final["stop"].pc = "read" /\ final["stop"].s # None
    /\ Finalize("stop", final["stop"].s, FALSE, timers)
    /\ UNCHANGED <<op, record, live, volume, announced, hooks, failed, faults>>

StopFindsNone ==
    /\ final["stop"].pc = "read" /\ final["stop"].s = None
    /\ final' = [final EXCEPT !["stop"] = NoFinal] /\ op' = "none"
    /\ UNCHANGED <<active, timers, record, live, volume, history, faults>>

\* The timer finds its session active, and no command at work.
Due(s) == op = "none" /\ active = s

\* Mutant: the timer looks at the lock and does not take it.
TimerFires_NoLock(s) ==
    /\ s \in timers /\ record.s # s
    /\ timers' = timers \ {s}
    /\ IF Due(s)
         THEN final' = [final EXCEPT !["timer"] = [pc |-> "told", s |-> s]]
         ELSE UNCHANGED final
    /\ UNCHANGED <<op, active, record, live, volume, history, faults>>

\* autoStopRecording: a minute lasts longer than /prism-record does.  The timer does not
\* come back when it finds a command at work.
TimerFires(s) ==
    /\ s \in timers /\ record.s # s
    /\ timers' = timers \ {s}
    /\ IF Due(s)
         THEN /\ op' = "stopping"
              /\ final' = [final EXCEPT !["timer"] =
                              [pc |-> "told", s |-> s]]
         ELSE UNCHANGED <<op, final>>
    /\ UNCHANGED <<active, record, live, volume, history, faults>>

\* The channel was told.
TimerStops ==
    /\ final["timer"].pc = "told"
    /\ Finalize("timer", final["timer"].s, TRUE, timers)
    /\ UNCHANGED <<op, record, live, volume, announced, hooks, failed, faults>>

\* recoverRecordingSession takes no lock.  An active session is finalized at once, another
\* is read from the volume; one that is sealed has its memory looked after, which is not
\* modelled.
RecoverActive ==
    /\ final["recover"].pc = "off" /\ active # None
    /\ Finalize("recover", active, TRUE, timers)
    /\ UNCHANGED <<op, record, live, volume, announced, hooks, failed, faults>>

RecoverReads(s) ==
    /\ final["recover"].pc = "off" /\ active # s /\ MaybeUnfinished(s)
    /\ final' = [final EXCEPT !["recover"] = [pc |-> "read", s |-> s]]
    /\ Overlap("recover", s)
    /\ UNCHANGED <<op, active, timers, record, live, volume, announced, hooks, orphaned,
                   failed, faults>>

RecoverFromDisk ==
    /\ final["recover"].pc = "read"
    /\ Finalize("recover", final["recover"].s, FALSE, timers)
    /\ UNCHANGED <<op, record, live, volume, announced, hooks, failed, faults>>

\* The process ends.  A file that was being written is whole or left in part.
Crash ==
    /\ Fault
    /\ op' = "none" /\ active' = None /\ timers' = {} /\ live' = {}
    /\ record' = NoRecord
    /\ final' = [w \in Finalizer |-> NoFinal]
    /\ LET At(pc) == {final[w].s : w \in {v \in Finalizer : final[v].pc = pc}}
           Open == {s \in Session : note[s] \in UnderWay}
       IN  /\ \E cut \in SUBSET (Open \cup At("work") \cup ({record.s} \ {None})) :
                note' = [s \in Session |-> IF s \in cut THEN "torn"
                                           ELSE IF s \in Open THEN "whole" ELSE note[s]]
           /\ \E cut \in SUBSET At("write") :
                meta' = [s \in Session |-> IF s \in cut THEN "torn" ELSE meta[s]]
           /\ failed' = failed \cup At("work") \cup At("write") \cup At("sealed")
                               \cup ({active} \ {None})
    /\ UNCHANGED <<home, announced, hooks, overlapped, orphaned>>

RecordStep == RecordConnected \/ RecordActive \/ RecordAnnounced
FinalStep(w) == Transcode(w) \/ Seal(w) \/ Hook(w) \/ Over(w)
Begins == StopRecovers \/ StopFindsNone \/ TimerStops \/ RecoverFromDisk

Next ==
    \/ \E c \in Channel : Record(c) \/ StopReads(c)
    \/ RecordStep \/ RecordFails
    \/ \E w \in Finalizer : FinalStep(w) \/ FinalizeFails(w)
    \/ StopActive \/ RecoverActive \/ Begins
    \/ \E s \in Session : TimerFires(s) \/ RecoverReads(s)
    \/ \E s \in Session : Timing(s) \/ Written(s) \/ WriteFails(s)
    \/ Crash

Spec == Init /\ [][Next]_vars

\* What is awaited returns or throws, and timers fire.
FairSpec ==
    /\ Spec
    /\ WF_vars(RecordStep)
    /\ \A w \in Finalizer : WF_vars(FinalStep(w))
    /\ WF_vars(StopRecovers \/ StopFindsNone) /\ WF_vars(TimerStops)
    /\ \A s \in Session : WF_vars(TimerFires(s))

-----------------------------------------------------------------------------
(* Properties.                                                             *)

\* A session is finalized by one command or timer at a time: only the route, which takes
\* no lock, works on it next to another.
OneFinalizer == \A s \in Session : Cardinality(Works(s) \ {"recover"}) <= 1

\* The hook of a session is called once, however often its finalization failed, was cut
\* short and was begun again, unless two finalizations overlapped; and it was called for a
\* session that has metadata, unless the process ended in between.
HookOnce ==
    \A s \in Session :
        /\ hooks[s] > 1 => s \in overlapped
        /\ meta[s] = "whole" /\ Works(s) = {} => hooks[s] > 0 \/ s \in failed

\* A recording that a member was told of is active, at work or on the volume, across a
\* restart, unless one of its files is being written or was left in part: the process ended
\* or a write failed in the middle, or writes that nobody awaits ran at a time.
AnnouncedKept ==
    \A s \in announced :
        \/ active = s \/ Works(s) # {} \/ meta[s] = "whole" \/ Unfinished(s)
        \/ note[s] \in UnderWay \cup {"torn"} \/ meta[s] = "torn"

\* Every recording that becomes active is finalized by the timer at the latest, unless its
\* finalization fails, the process ends, or a recovery of another takes it off the map.
RecordingsEnd ==
    \A s \in Session :
        active = s ~> meta[s] = "whole" \/ s \in failed \/ s \in orphaned
=============================================================================
