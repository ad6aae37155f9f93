--------------------------- MODULE TelegramUpdates ---------------------------
(***************************************************************************)
(* The poll of Telegram updates in the source adapter: every update is     *)
(* written to a journal, the offset is checkpointed, the handler is run,   *)
(* and the journal's record is removed or kept among the failed ones.      *)
(* What a poll that stopped left pending is put among the failed ones by   *)
(* the next, without being replayed.                                       *)
(*                                                                         *)
(* A poll is a chain of awaited file operations and one request.  Any of   *)
(* them can throw, which ends the poll, and the process can end between    *)
(* any two, or within one that is not atomic.                              *)
(***************************************************************************)
EXTENDS Naturals, FiniteSets, FiniteSetsExt

CONSTANTS
    MaxUpdates,     \* bound: updates, numbered as Telegram numbers them
    BatchLimit,     \* updates in one answer of getUpdates
    MaxFaults       \* bound: operations that fail, processes that end

ASSUME ConstantsAssumption ==
    MaxUpdates \in Nat /\ BatchLimit \in Nat \ {0} /\ MaxFaults \in Nat

Update == 1..MaxUpdates

VARIABLES
    \* Telegram
    sent,       \* updates that exist
    confirmed,  \* updates below it are forgotten
    \* the volume of the adapter
    saved,      \* the offset file; 0 when there is none
    pending, failed,    \* the record of an update: none, torn or whole
    \* the poll
    pc,
    offset,     \* the offset as the poll knows it
    todo,       \* updates the recovery, then the batch, has yet to take
    cur,        \* the one at hand; 0 before the first
    \* what the handler did
    started, finished,
    faults

disk == <<saved, pending, failed>>
outside == <<sent, confirmed>>
vars == <<sent, confirmed, saved, pending, failed, pc, offset, todo, cur, started,
          finished, faults>>

Record == {"none", "torn", "whole"}
Recovery == {"recover", "quarantine"}
Batch == {"batch", "write", "checkpoint", "start", "running", "complete", "fail"}

TypeOK ==
    /\ sent \in 0..MaxUpdates /\ confirmed \in 0..MaxUpdates + 1
    /\ saved \in 0..MaxUpdates + 1 /\ offset \in 0..MaxUpdates + 1
    /\ pending \in [Update -> Record] /\ failed \in [Update -> Record]
    /\ pc \in {"idle", "fetch"} \cup Recovery \cup Batch
    /\ todo \subseteq Update /\ cur \in 0..MaxUpdates
    /\ started \subseteq Update /\ finished \subseteq Update
    /\ faults \in 0..MaxFaults

Init ==
    /\ sent = 0 /\ confirmed = 0 /\ saved = 0
    /\ pending = [u \in Update |-> "none"] /\ failed = [u \in Update |-> "none"]
    /\ pc = "idle" /\ offset = 0 /\ todo = {} /\ cur = 0
    /\ started = {} /\ finished = {} /\ faults = 0

-----------------------------------------------------------------------------
Later(a, b) == IF a < b THEN b ELSE a
Fault == faults < MaxFaults /\ faults' = faults + 1

\* Somebody writes to the bot.
Arrive ==
    /\ sent < MaxUpdates /\ sent' = sent + 1
    /\ UNCHANGED <<confirmed, disk, pc, offset, todo, cur, started, finished, faults>>

\* The updates with a pending record, torn or whole.
Listed == {u \in Update : pending[u] # "none"}

\* A poll reads the offset and lists the pending records; polls do not overlap.
Poll ==
    /\ pc = "idle" /\ pc' = "recover"
    /\ offset' = saved
    /\ todo' = Listed
    /\ UNCHANGED <<outside, disk, cur, started, finished, faults>>

\* Past u, unless the offset is further already.
Advanced(u) == Later(offset, u + 1)

\* recoverPendingTelegramUpdates: in the order of the ids, each is checkpointed first.
Recover ==
    /\ pc = "recover" /\ todo # {}
    /\ cur' = Min(todo)
    /\ offset' = Advanced(Min(todo)) /\ saved' = offset'
    /\ pc' = "quarantine"
    /\ UNCHANGED <<outside, pending, failed, todo, started, finished, faults>>

\* Mutant: the record of an update that was not handled is removed as well.
Kept_Removed(u) == "none"

\* What the failed ones hold of u.
Kept(u) == pending[u]

\* Its record is renamed into the failed ones.
Quarantine ==
    /\ pc = "quarantine" /\ pc' = "recover"
    /\ failed' = [failed EXCEPT ![cur] = Kept(cur)]
    /\ pending' = [pending EXCEPT ![cur] = "none"]
    /\ todo' = todo \ {cur}
    /\ UNCHANGED <<outside, saved, offset, cur, started, finished, faults>>

Recovered ==
    /\ pc = "recover" /\ todo = {} /\ pc' = "fetch"
    /\ UNCHANGED <<outside, disk, offset, todo, cur, started, finished, faults>>

\* The answer to getUpdates: the first BatchLimit of what is not forgotten.
Unconfirmed == {u \in 1..sent : u >= Later(confirmed, offset)}
Answered == {u \in Unconfirmed : Cardinality({v \in Unconfirmed : v < u}) < BatchLimit}

\* getUpdates: Telegram forgets what is below the offset it is asked for.
Fetch ==
    /\ pc = "fetch"
    /\ confirmed' = Later(confirmed, offset)
    /\ todo' = Answered
    /\ pc' = "batch"
    /\ UNCHANGED <<sent, disk, offset, cur, started, finished, faults>>

\* The record of the next update is created, empty so far.  There is none yet: the recovery
\* has cleared what was pending, and polls do not overlap.
Open ==
    /\ pc = "batch" /\ todo # {}
    /\ cur' = Min(todo) /\ todo' = todo \ {Min(todo)}
    /\ pending' = [pending EXCEPT ![Min(todo)] = "torn"]
    /\ pc' = "write"
    /\ UNCHANGED <<outside, saved, failed, offset, started, finished, faults>>

\* It is written and synced.
Write ==
    /\ pc = "write" /\ pc' = "checkpoint"
    /\ pending' = [pending EXCEPT ![cur] = "whole"]
    /\ UNCHANGED <<outside, saved, failed, offset, todo, cur, started, finished, faults>>

\* The batch is through.
Return ==
    /\ pc = "batch" /\ todo = {} /\ pc' = "idle"
    /\ UNCHANGED <<outside, disk, offset, todo, cur, started, finished, faults>>

\* Mutant: the offset is that of the update itself.
Past_OffByOne(u) == u

\* The offset that confirms u.
Past(u) == u + 1

\* Mutant: the offset is kept in memory until the batch is through.
Checkpoint_InMemory ==
    /\ pc = "checkpoint"
    /\ offset' = Past(cur) /\ pc' = "start"
    /\ UNCHANGED <<outside, disk, todo, cur, started, finished, faults>>

\* saveTelegramOffset writes another file and renames it: all or nothing.
Checkpoint ==
    /\ pc = "checkpoint"
    /\ offset' = Past(cur) /\ saved' = Past(cur)
    /\ pc' = "start"
    /\ UNCHANGED <<outside, pending, failed, todo, cur, started, finished, faults>>

\* The handler begins: from here on messages are sent and models invoked.
Start ==
    /\ pc = "start" /\ pc' = "running"
    /\ started' = started \cup {cur}
    /\ UNCHANGED <<outside, disk, offset, todo, cur, finished, faults>>

\* It returns or throws.
Returns ==
    /\ pc = "running" /\ pc' = "complete"
    /\ finished' = finished \cup {cur}
    /\ UNCHANGED <<outside, disk, offset, todo, cur, started, faults>>
Throws ==
    /\ pc = "running" /\ pc' = "fail"
    /\ UNCHANGED <<outside, disk, offset, todo, cur, started, finished, faults>>

\* The record of an update that was handled is removed, that of another kept as failed.
Complete ==
    /\ pc = "complete" /\ pc' = "batch"
    /\ pending' = [pending EXCEPT ![cur] = "none"]
    /\ UNCHANGED <<outside, saved, failed, offset, todo, cur, started, finished, faults>>

\* The handler threw.
Fail ==
    /\ pc = "fail" /\ pc' = "batch"
    /\ failed' = [failed EXCEPT ![cur] = Kept(cur)]
    /\ pending' = [pending EXCEPT ![cur] = "none"]
    /\ UNCHANGED <<outside, saved, offset, todo, cur, started, finished, faults>>

\* What an operation that fails may have done all the same: the file was renamed or created,
\* the answer of getUpdates did not arrive.
Halfway ==
    CASE pc = "checkpoint" -> saved' \in {saved, Past(cur)} /\ UNCHANGED <<confirmed, pending>>
      [] pc = "recover" /\ todo # {} ->
             saved' \in {saved, Advanced(Min(todo))} /\ UNCHANGED <<confirmed, pending>>
      [] pc = "fetch" ->
             confirmed' \in {confirmed, Later(confirmed, offset)} /\ UNCHANGED <<saved, pending>>
      [] OTHER -> UNCHANGED <<confirmed, saved, pending>>

\* The operation at hand throws and the poll is over, or the process ends and a new one
\* polls.  What the handler throws is caught.
PollEnds ==
    /\ pc # "idle" /\ Fault
    /\ pc' = "idle" /\ todo' = {} /\ Halfway
    /\ UNCHANGED <<sent, failed, offset, cur, started, finished>>

Work ==
    \/ Poll \/ Recover \/ Quarantine \/ Recovered \/ Fetch \/ Open \/ Write \/ Checkpoint
    \/ Start \/ Returns \/ Throws \/ Complete \/ Fail \/ Return

Next == Arrive \/ Work \/ PollEnds

Spec == Init /\ [][Next]_vars

\* The timer starts a poll again and again, and what a poll awaits returns or throws.
FairSpec == Spec /\ WF_vars(Work)

-----------------------------------------------------------------------------
(* Properties.                                                             *)

\* The fate of an update as UpdateLedger knows it: over when the offset file is past it,
\* unless the poll has yet to run its handler.
Fate(u) ==
    IF pc = "running" /\ cur = u THEN "running"
    ELSE IF u < saved /\ ~(pc = "start" /\ cur = u) THEN "over" ELSE "waiting"
Ledger == INSTANCE UpdateLedger WITH fate <- [u \in Update |-> Fate(u)]

\* The poll implements the ledger: an update is handled at most once and in order, across
\* failed operations, polls that are given up and restarts.
AtMostOnceInOrder == Ledger!Spec

\* An update whose handler began and did not return can be inspected, as its whole record
\* is in the journal; and nothing that Telegram has forgotten is lost without a trace: it
\* was handled, or a file with its id is in the journal.
NothingLost ==
    \A u \in Update :
        /\ u \in started /\ u \notin finished => "whole" \in {pending[u], failed[u]}
        /\ u < confirmed => u \in finished \/ {pending[u], failed[u]} # {"none"}

\* Every update is handled or put aside, whatever fails before it.
UpdatesEnd == \A u \in Update : u <= sent ~> u < saved
=============================================================================
