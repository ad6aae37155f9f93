------------------------- MODULE ConversationTurns -------------------------
(***************************************************************************)
(* The turns of a conversation in the source adapter: a prompt from        *)
(* Discord, Telegram, Buzz or the external HTTP interface is answered by   *)
(* the runtime, which continues the thread that the conversation's session *)
(* at the Site names.                                                      *)
(*                                                                         *)
(* Discord and Telegram prompts pass through a queue per conversation, a   *)
(* Buzz poll handles one event at a time, and HTTP requests are handled as *)
(* they come.  The session is a row of the Site that is read, overwritten  *)
(* and read again between awaits.  A thread is named by the turn that      *)
(* began it.                                                               *)
(***************************************************************************)
EXTENDS Naturals, Sequences, FiniteSets

CONSTANTS
    Conversation,
    MaxTurns,       \* bound: prompts, numbered in the order they arrive
    MaxProfile,     \* bound: key and version pairs an Agent Profile goes through
    MaxEdits,       \* bound: changes of the profile that is bound to the place
    MaxFaults       \* bound: other requests than the runtime's that fail, threads that overflow, crashes

Turn == 1..MaxTurns
None == 0
Platforms == {"discord", "telegram", "buzz", "external"}

ASSUME ConstantsAssumption ==
    /\ Conversation # {}
    /\ MaxTurns \in Nat /\ MaxProfile \in Nat \ {0}
    /\ MaxEdits \in Nat /\ MaxFaults \in Nat

VARIABLES
    platform,   \* where a conversation takes place
    profile,    \* the interaction profile in force; 0 when there is none
    \* the Site
    session,    \* meta of the agent session: runtimeContinuationId and its profile
    \* the adapter's process
    queue,      \* createPromptQueue: the prompts of a conversation, the first one runs
    pc, conv,
    async,      \* turns whose prompt is an asynchronous change-request command
    prof,       \* the profile the turn runs under
    seen,       \* the session as the turn looked it up
    cont,       \* runtimeContinuationId of the handler
    fresh,      \* turns that lost the thread: the lookup failed or the context overflowed
    answers,    \* answers of the runtime delivered for a turn, or the first parts of one
    excuses,    \* replies delivered in place of an answer
    saved,      \* turns whose thread was written into the session
    cut,        \* turns whose answer was out, in part or whole, when its delivery failed
    \* bookkeeping of the bounds
    edits, faults

local == <<conv, async, prof, seen>>
world == <<platform, profile, edits>>
site  == <<session, saved>>
vars  == <<platform, profile, session, queue, pc, conv, async, prof, seen, cont, fresh,
           answers, excuses, saved, cut, edits, faults>>

Thread == Turn \cup {None}
Meta == [cont : Thread, prof : 0..MaxProfile]
Busy == {"looked", "opened", "running", "persist", "send", "record", "excuse"}
Over == {"done", "lost"}

TypeOK ==
    /\ platform \in [Conversation -> Platforms]
    /\ profile \in 0..MaxProfile
    /\ session \in [Conversation -> Meta]
    /\ queue \in [Conversation -> Seq(Turn)]
    /\ pc \in [Turn -> Busy \cup Over \cup {"idle", "queued"}]
    /\ conv \in [Turn -> Conversation]
    /\ async \in SUBSET Turn
    /\ prof \in [Turn -> 0..MaxProfile]
    /\ seen \in [Turn -> Meta]
    /\ cont \in [Turn -> Thread]
    /\ fresh \in SUBSET Turn
    /\ answers \in [Turn -> Nat] /\ excuses \in [Turn -> Nat]
    /\ saved \in SUBSET Turn /\ cut \in SUBSET Turn
    /\ edits \in 0..MaxEdits /\ faults \in 0..MaxFaults

Blank == [cont |-> None, prof |-> 0]

Init ==
    /\ platform \in [Conversation -> Platforms]
    /\ profile \in {0, 1}
    /\ session = [c \in Conversation |-> Blank]
    /\ queue = [c \in Conversation |-> <<>>]
    /\ pc = [t \in Turn |-> "idle"]
    /\ conv = [t \in Turn |-> CHOOSE c \in Conversation : TRUE]
    /\ async = {}
    /\ prof = [t \in Turn |-> 0]
    /\ seen = [t \in Turn |-> Blank]
    /\ cont = [t \in Turn |-> None]
    /\ fresh = {}
    /\ answers = [t \in Turn |-> 0] /\ excuses = [t \in Turn |-> 0]
    /\ saved = {} /\ cut = {}
    /\ edits = 0 /\ faults = 0

-----------------------------------------------------------------------------
Of(t) == platform[conv[t]]
Queued == {"discord", "telegram"}
Fault == faults < MaxFaults /\ faults' = faults + 1
To(t, label) == pc' = [pc EXCEPT ![t] = label]
Reply(t, what) == what' = [what EXCEPT ![t] = @ + 1]

\* Mutant: a queue of its own for every prompt.
FirstInLine_OwnQueue(t) == TRUE

\* enqueueDiscordPrompt: the turn is the one whose turn it is; a Buzz poll takes one
\* event after the other, and nothing holds an HTTP request.
FirstInLine(t) ==
    CASE Of(t) \in Queued -> queue[conv[t]] # <<>> /\ Head(queue[conv[t]]) = t
      [] Of(t) = "buzz" -> \A u \in Turn : Of(u) = "buzz" => pc[u] \notin Busy
      [] OTHER -> TRUE

\* Mutant: the tail of the queue rejects with the prompt and nothing runs after it.
Leave_NotOnThrow(t) ==
    queue' = [queue EXCEPT ![conv[t]] =
                 IF pc'[t] = "done" /\ answers'[t] + excuses'[t] = 0 THEN @
                 ELSE IF @ # <<>> /\ Head(@) = t THEN Tail(@) ELSE @]

\* The promise of a queued prompt settles, either way, and the next one runs.
Leave(t) ==
    queue' = [queue EXCEPT ![conv[t]] =
                 IF @ # <<>> /\ Head(@) = t THEN Tail(@) ELSE @]

\* The handler is through: it returned, or threw and was logged by its caller.
Finish(t) == To(t, "done") /\ Leave(t)
Stay == UNCHANGED queue

\* A prompt arrives.  Buzz and HTTP prompts are taken up only with a profile.
Arrive(t, c, a) ==
    /\ pc[t] = "idle" /\ \A u \in Turn : u < t => pc[u] # "idle"
    /\ a => platform[c] = "discord"
    /\ To(t, "queued")
    /\ conv' = [conv EXCEPT ![t] = c]
    /\ async' = IF a THEN async \cup {t} ELSE async
    /\ queue' = IF platform[c] \in Queued
                THEN [queue EXCEPT ![c] = Append(@, t)] ELSE queue
    /\ UNCHANGED <<world, site, prof, seen, cont, fresh, answers, excuses, cut, faults>>

\* The place is switched off, read-only, limited or without its profile: the user is
\* told so, if that can be sent, and the session is left alone.
Refuse(t) ==
    /\ pc[t] = "queued" /\ FirstInLine(t)
    /\ excuses' \in {excuses, [excuses EXCEPT ![t] = @ + 1]}
    /\ UNCHANGED <<answers, cut>>
    /\ Finish(t)
    /\ UNCHANGED <<world, site, local, cont, fresh, faults>>

\* The session of the conversation is looked up; a failed lookup is a warning, except
\* for HTTP, whose request then fails.
Lookup(t) ==
    /\ pc[t] = "queued" /\ FirstInLine(t)
    /\ Of(t) \in {"buzz", "external"} => profile # 0
    /\ prof' = [prof EXCEPT ![t] = profile]
    /\ \/ /\ seen' = [seen EXCEPT ![t] = session[conv[t]]]
          /\ UNCHANGED <<fresh, faults>>
       \/ /\ Of(t) # "external" /\ Fault
          /\ seen' = [seen EXCEPT ![t] = Blank]
          /\ fresh' = fresh \cup {t}
    /\ To(t, "looked") /\ Stay
    /\ UNCHANGED <<world, site, conv, async, cont, answers, excuses, cut>>

\* Mutant: the continuation is kept whatever profile it was made under.
Resumed_AnyProfile(t, stored) ==
    IF seen[t].cont # None THEN seen[t].cont ELSE stored

\* The thread to continue: the one of the session, unless the profile differs from the
\* one the session was last opened under.
Resumed(t, stored) ==
    IF seen[t].prof # prof[t] THEN None
    ELSE IF seen[t].cont # None THEN seen[t].cont ELSE stored

\* Mutant: the metadata of every session is replaced, as that of Discord.
Opened_Replaced(t) ==
    IF Of(t) = "external" THEN session[conv[t]] ELSE [cont |-> None, prof |-> prof[t]]

\* The upsert before the runtime is called: it replaces the metadata of a Discord
\* session and is merged into that of Telegram and Buzz; HTTP writes nothing yet.
Opened(t) ==
    CASE Of(t) = "discord" -> [cont |-> None, prof |-> prof[t]]
      [] Of(t) = "external" -> session[conv[t]]
      [] OTHER -> [session[conv[t]] EXCEPT !.prof = prof[t]]

Open(t) ==
    /\ pc[t] = "looked"
    /\ session' = [session EXCEPT ![conv[t]] = Opened(t)]
    /\ cont' = [cont EXCEPT ![t] = Resumed(t, Opened(t).cont)]
    /\ To(t, "opened") /\ Stay
    /\ UNCHANGED <<world, saved, local, fresh, answers, excuses, cut, faults>>

\* The upsert, or the user's message after it, cannot be stored: the handler throws.
OpenFails(t) ==
    /\ pc[t] \in {"looked", "opened"} /\ Fault
    /\ session' \in {session, [session EXCEPT ![conv[t]] = Opened(t)]}
    /\ pc[t] = "opened" => session' = session
    /\ UNCHANGED <<answers, excuses, cut>>
    /\ Finish(t)
    /\ UNCHANGED <<world, saved, local, cont, fresh>>

\* The runtime is called.  An asynchronous command is acknowledged first and leaves the
\* queue: its call goes on behind the back of the prompts after it.
Invoke(t) ==
    /\ pc[t] = "opened"
    /\ UNCHANGED <<answers, excuses, cut>>
    /\ To(t, "running")
    /\ IF t \in async THEN Leave(t) ELSE Stay
    /\ UNCHANGED <<world, site, local, cont, fresh, faults>>

\* The runtime answers and names its thread: the one it continued or one begun by t.
RuntimeAnswers(t) ==
    /\ pc[t] = "running"
    /\ cont' = [cont EXCEPT ![t] = IF @ = None THEN t ELSE @]
    /\ To(t, IF Of(t) = "buzz" THEN "send" ELSE "persist") /\ Stay
    /\ UNCHANGED <<world, site, local, fresh, answers, excuses, cut, faults>>

\* The runtime fails: an HTTP request is answered 502, the others say that they are sorry.
RuntimeFails(t) ==
    /\ pc[t] = "running"
    /\ UNCHANGED <<answers, excuses, cut>>
    /\ IF Of(t) = "external" THEN Finish(t) ELSE To(t, "excuse") /\ Stay
    /\ UNCHANGED <<world, site, local, cont, fresh, faults>>

\* Mutant: the profile's fields are left out of the upsert that clears the thread.
Cleared_Partial(t) == [cont |-> None]

\* resetContinuation: explicit nulls clear the thread that is merged into the session.
Cleared(t) == [cont |-> None, prof |-> prof[t]]

\* invokeTelegramWithContextRecovery: a thread that has become too long is given up, once,
\* and the runtime is called again without it.
Overflow(t) ==
    /\ pc[t] = "running" /\ Of(t) = "telegram" /\ cont[t] # None /\ Fault
    /\ session' = [session EXCEPT ![conv[t]] = Cleared(t)]
    /\ cont' = [cont EXCEPT ![t] = None]
    /\ fresh' = fresh \cup {t}
    /\ Stay
    /\ UNCHANGED <<world, saved, local, pc, answers, excuses, cut>>

\* The thread and the profile it was continued under go into the session together.
Result(t) == [cont |-> cont[t], prof |-> prof[t]]

Store(t) ==
    /\ session' = [session EXCEPT ![conv[t]] = Result(t)]
    /\ saved' = saved \cup {t}

\* Where a handler goes on when its session is stored.
AfterPersist(t) == IF Of(t) = "buzz" THEN "done" ELSE IF Of(t) = "external" THEN "record" ELSE "send"

Persist(t) ==
    /\ pc[t] = "persist"
    /\ Store(t)
    /\ UNCHANGED <<answers, excuses, cut>>
    /\ IF AfterPersist(t) = "done" THEN Finish(t) ELSE To(t, AfterPersist(t)) /\ Stay
    /\ UNCHANGED <<world, local, cont, fresh, faults>>

\* Mutant: a Buzz session that is not stored is excused, although the answer was sent.
PersistFails_BuzzExcuse(t) ==
    /\ pc[t] = "persist" /\ Fault
    /\ Store(t) \/ UNCHANGED site
    /\ UNCHANGED <<answers, excuses, cut>>
    /\ IF Of(t) \in {"discord", "buzz"} THEN To(t, "excuse") /\ Stay ELSE Finish(t)
    /\ UNCHANGED <<world, local, cont, fresh>>

\* The session cannot be stored, or the answer to the upsert is lost: Discord excuses
\* itself, Telegram and HTTP throw, and Buzz, whose answer is out, logs it.
PersistFails(t) ==
    /\ pc[t] = "persist" /\ Fault
    /\ Store(t) \/ UNCHANGED site
    /\ UNCHANGED <<answers, excuses, cut>>
    /\ IF Of(t) = "discord" THEN To(t, "excuse") /\ Stay ELSE Finish(t)
    /\ UNCHANGED <<world, local, cont, fresh>>

\* The answer is delivered.
Send(t) ==
    /\ pc[t] = "send"
    /\ Reply(t, answers)
    /\ To(t, IF Of(t) = "buzz" THEN "persist" ELSE "record") /\ Stay
    /\ UNCHANGED <<world, site, local, cont, fresh, excuses, cut, faults>>

\* Its delivery fails, and some of it may be out: it goes out in several messages, and
\* what answers a delivery may be lost.  Discord tries an error reply, the others throw.
SendFails(t) ==
    /\ pc[t] = "send" /\ Fault
    /\ \/ UNCHANGED <<answers, cut>>
       \/ Reply(t, answers) /\ cut' = cut \cup {t}
    /\ UNCHANGED excuses
    /\ IF Of(t) = "discord" THEN To(t, "excuse") /\ Stay ELSE Finish(t)
    /\ UNCHANGED <<world, site, local, cont, fresh>>

\* The assistant's message is appended to the session.  A failure is logged by Discord
\* and thrown by Telegram, after the delivery; HTTP answers its caller only now.
Record(t) ==
    /\ pc[t] = "record"
    /\ \/ /\ answers' = IF Of(t) = "external" THEN [answers EXCEPT ![t] = @ + 1] ELSE answers
          /\ UNCHANGED faults
       \/ Fault /\ UNCHANGED answers
    /\ UNCHANGED <<excuses, cut>>
    /\ Finish(t)
    /\ UNCHANGED <<world, site, local, cont, fresh>>

\* The error reply, or what became of the request it handed over, is delivered.
Excuse(t) ==
    /\ pc[t] = "excuse"
    /\ Reply(t, excuses) /\ UNCHANGED <<answers, cut>>
    /\ Finish(t)
    /\ UNCHANGED <<world, site, local, cont, fresh, faults>>

\* The process ends: what it was handling is forgotten.  The Site stays as it is.
AllLost ==
    /\ pc' = [t \in Turn |-> IF pc[t] \in Busy \cup {"queued"} THEN "lost" ELSE pc[t]]
    /\ queue' = [c \in Conversation |-> <<>>]

\* Its delivery fails, some of it may be out, and the handler throws.  Nobody awaits an
\* asynchronous command: its rejection ends the process.
ExcuseFails(t) ==
    /\ pc[t] = "excuse" /\ Fault
    /\ Reply(t, excuses) \/ UNCHANGED excuses
    /\ UNCHANGED <<answers, cut>>
    /\ IF t \in async THEN AllLost ELSE Finish(t)
    /\ UNCHANGED <<world, site, local, cont, fresh>>

Crash ==
    /\ Fault /\ AllLost
    /\ UNCHANGED <<world, site, local, cont, fresh, answers, excuses, cut>>

\* An operator edits the profile, or binds another one or none.
Edit(p) ==
    /\ edits < MaxEdits /\ p # profile
    /\ profile' = p /\ edits' = edits + 1
    /\ UNCHANGED <<platform, site, queue, pc, local, cont, fresh, answers, excuses, cut, faults>>

Step(t) ==
    \/ Refuse(t) \/ Lookup(t) \/ Open(t) \/ OpenFails(t) \/ Invoke(t)
    \/ RuntimeAnswers(t) \/ RuntimeFails(t) \/ Overflow(t)
    \/ Persist(t) \/ PersistFails(t) \/ Send(t) \/ SendFails(t)
    \/ Record(t) \/ Excuse(t) \/ ExcuseFails(t)

Next ==
    \/ \E t \in Turn, c \in Conversation, a \in BOOLEAN : Arrive(t, c, a)
    \/ \E t \in Turn : Step(t)
    \/ Crash
    \/ \E p \in 0..MaxProfile : Edit(p)

Spec == Init /\ [][Next]_vars

\* Every request a handler awaits is answered or fails: those to the Site and the
\* platforms by their transport, the runtime's by the timeout of the call.
Fairness == \A t \in Turn : WF_vars(Step(t))
FairSpec == Spec /\ Fairness

-----------------------------------------------------------------------------
(* Properties.                                                             *)

\* The handlers of one conversation do not overlap, except behind an asynchronous command
\* and in HTTP sessions.
OneAtATime ==
    \A t, u \in Turn :
        /\ t # u /\ conv[t] = conv[u] /\ pc[t] \in Busy /\ pc[u] \in Busy
        /\ Of(t) # "external"
        => t \in async \/ u \in async

\* Without a profile a turn whose lookup failed takes the thread it finds for its own.
Blind(t) == t \in fresh /\ prof[t] = 0

\* A turn before t put their profile into the session and did not store a thread of that
\* profile: it failed and left the thread of the profile before, or was blind.
OpenedInVain(t) ==
    \E u \in Turn \ {t} :
        /\ conv[u] = conv[t] /\ prof[u] = prof[t] /\ pc[u] \in Over
        /\ u \notin saved \/ Blind(u)

\* A thread is continued only under the profile it was made under.  What Telegram and Buzz
\* do after such a turn, or blindly, is left out: see NeverOtherInstructions.
OwnInstructions ==
    \A t \in Turn :
        /\ pc[t] = "running" /\ cont[t] # None
        /\ Of(t) \in {"telegram", "buzz"} => ~OpenedInVain(t) /\ ~Blind(t)
        => prof[cont[t]] = prof[t]

\* A prompt is answered or excused, and once: what fails after a reply was delivered does
\* not make for another.  The delivery itself does on Discord, if it fails with some of the
\* answer out: one error reply follows it.
RepliedOnce ==
    \A t \in Turn :
        /\ answers[t] <= 1 /\ excuses[t] <= 1
        /\ answers[t] + excuses[t] = 2 => t \in cut /\ Of(t) = "discord"

\* Conversations that merge their metadata keep their thread from turn to turn, whatever
\* fails: it is replaced by a turn that ran under another profile or lost it knowingly.
ThreadKept ==
    [][\A c \in Conversation :
          /\ platform[c] \in {"telegram", "buzz"}
          /\ session[c].cont # None /\ session'[c].cont # session[c].cont
          => \E t \in Turn :
                /\ conv[t] = c /\ pc[t] \in Busy
                /\ (t \in fresh' \/ seen[t].prof # prof[t])]_vars

\* external-interaction-interfaces.md:357-360: a runtime continuation must not silently be
\* reused when it was created under different trusted instructions.
NeverOtherInstructions ==
    \A t \in Turn : pc[t] = "running" /\ cont[t] # None => prof[cont[t]] = prof[t]

\* Whatever happens to the prompts before it, a prompt is handled to its end.
TurnsEnd == \A t \in Turn : pc[t] = "queued" ~> pc[t] \in Over
=============================================================================
