--------------------------- MODULE VoiceConnections ---------------------------
(***************************************************************************)
(* The connection of one Discord server to a voice channel, which          *)
(* /prism-join, /prism-record and the end of a recording share.            *)
(*                                                                         *)
(* The voice library keeps one connection of a server until it is          *)
(* destroyed: joining again moves it and gives the same object, so that    *)
(* two commands that connect at a time hold one connection.  The adapter   *)
(* keeps an entry of its own (connections), which it writes when a command *)
(* has connected.  A destroyed connection stays with whoever holds it.     *)
(***************************************************************************)
EXTENDS Naturals

CONSTANTS
    Channel,    \* voice channels
    None,       \* no channel
    MaxFaults   \* bound: connections that do not get ready

Command == {"join", "record"}
Holder == Command \cup {"entry", "final"}
Place == Channel \cup {None}

VARIABLES
    link,       \* the channel of the library's connection
    entry,      \* the channel in connections
    dial,       \* the channel that a command is connecting to
    again,      \* commands that dial for the second time, without DAVE
    stale,      \* holders of a connection that was destroyed
    prepared,   \* /prism-record is connected, to this channel, and has no session yet
    active,     \* the channel of the session in sessionsByGuild
    ending,     \* a finalization that is at work: with a connection or with none
    told,       \* the channel whose caller was told last that nothing is recorded
    faults

vars == <<link, entry, dial, again, stale, prepared, active, ending, told, faults>>

Init ==
    /\ link = None /\ entry = None /\ dial = [who \in Command |-> None]
    /\ again = {} /\ stale = {} /\ prepared = None /\ active = None
    /\ ending = "no" /\ told = None /\ faults = 0

Fault == faults < MaxFaults /\ faults' = faults + 1

-----------------------------------------------------------------------------
(* ensureVoiceConnection.                                                  *)

\* Another channel's entry has its connection destroyed, which throws if it was before;
\* then the library connects, or moves the connection it has.
Reach(who, c) ==
    /\ entry # None => "entry" \notin stale
    /\ entry' = None /\ link' = c
    /\ dial' = [dial EXCEPT ![who] = c]
    /\ stale' = (IF entry = None THEN stale ELSE Holder) \ {who, "entry"}

\* It gets ready; or it does not, and the member that the bot is has come to the channel,
\* be it through another connection.
Connected(who) ==
    /\ dial[who] # None
    /\ who \in stale => link = dial[who] /\ who \notin again
    /\ entry' = dial[who] /\ dial' = [dial EXCEPT ![who] = None]
    /\ stale' = IF who \in stale THEN stale \cup {"entry"} ELSE stale \ {"entry"}
    /\ again' = again \ {who}
    /\ IF who = "join" THEN told' = dial[who] /\ UNCHANGED prepared
                       ELSE prepared' = dial[who] /\ UNCHANGED told
    /\ UNCHANGED <<link, active, ending, faults>>

\* It did not get ready with DAVE: it is destroyed, and the library connects anew.
Retries(who) ==
    /\ dial[who] # None /\ who \notin stale \cup again /\ Fault
    /\ again' = again \cup {who}
    /\ link' = dial[who] /\ stale' = Holder \ {who}
    /\ UNCHANGED <<entry, dial, prepared, active, ending, told>>

\* It did not get ready, and the command throws: the first is destroyed, the second left as
\* it is.  One that someone else destroyed never gets ready, and is not destroyed again.
Fails(who) ==
    /\ dial[who] # None
    /\ dial' = [dial EXCEPT ![who] = None] /\ again' = again \ {who}
    /\ \/ /\ who \in stale
          /\ UNCHANGED <<link, stale, faults>>
       \/ /\ who \notin stale /\ Fault
          /\ IF who \in again THEN UNCHANGED <<link, stale>>
                              ELSE link' = None /\ stale' = Holder
    /\ UNCHANGED <<entry, prepared, active, ending, told>>

-----------------------------------------------------------------------------
(* The commands.                                                           *)

\* /prism-join looks at no recording.  In the channel of the entry it answers at once.
Join(c) ==
    /\ dial["join"] = None
    /\ IF entry = c THEN told' = c /\ UNCHANGED <<link, entry, dial, stale>>
                    ELSE Reach("join", c) /\ UNCHANGED told
    /\ UNCHANGED <<again, prepared, active, ending, faults>>

\* /prism-record takes the lock of recordings, and finds none active.
Record(c) ==
    /\ active = None /\ prepared = None /\ dial["record"] = None /\ ending = "no"
    /\ IF entry = c THEN prepared' = c /\ UNCHANGED <<link, entry, dial, stale>>
                    ELSE Reach("record", c) /\ UNCHANGED prepared
    /\ UNCHANGED <<again, active, ending, told, faults>>

\* The session is the server's.  What was answered before was right.
RecordActive ==
    /\ prepared # None
    /\ active' = prepared /\ prepared' = None /\ told' = None
    /\ UNCHANGED <<link, entry, dial, again, stale, ending, faults>>

\* The directories cannot be made.
RecordFails ==
    /\ prepared # None /\ Fault
    /\ prepared' = None
    /\ UNCHANGED <<link, entry, dial, again, stale, active, ending, told>>

\* finalizeSession, under the lock of recordings, takes the session off the map and notes the
\* entry's connection (the route that recovers one, which takes no lock, is left out) ...
Stop ==
    /\ active # None /\ ending = "no"
    /\ active' = None
    /\ ending' = IF entry = None THEN "none" ELSE "held"
    /\ stale' = IF "entry" \in stale THEN stale \cup {"final"} ELSE stale \ {"final"}
    /\ UNCHANGED <<link, entry, dial, again, prepared, told, faults>>

\* ... and destroys it in the end, which throws if it was destroyed before.
Over ==
    /\ ending # "no" /\ ending' = "no"
    /\ IF ending = "held" /\ "final" \notin stale
         THEN link' = None /\ entry' = None /\ stale' = Holder
         ELSE UNCHANGED <<link, entry, stale>>
    /\ UNCHANGED <<dial, again, prepared, active, told, faults>>

Next ==
    \/ \E c \in Channel : Join(c) \/ Record(c)
    \/ \E who \in Command : Connected(who) \/ Retries(who) \/ Fails(who)
    \/ RecordActive \/ RecordFails \/ Stop \/ Over

Spec == Init /\ [][Next]_vars

-----------------------------------------------------------------------------
(* What the documents say.                                                 *)

\* The receiver of the connection captures whoever speaks into the active session, whatever
\* its channel is: each command that connects subscribes to it.
Captured(c) == active \notin {None, c} /\ link = c /\ entry = c /\ "entry" \notin stale

\* Whoever /prism-join told, since the recording began, that the bot is connected and does
\* not record is not captured into the recording of another channel.
JoinedIsNotRecorded == told # None => ~Captured(told)
=============================================================================
