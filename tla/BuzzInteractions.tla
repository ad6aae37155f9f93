-------------------------- MODULE BuzzInteractions --------------------------
(***************************************************************************)
(* The poll of Buzz interactions in the source adapter: it reads what was  *)
(* published since a cursor, answers the mentions and the replies in its   *)
(* conversations, and keeps the cursor and the ids it is through with in a *)
(* file.                                                                   *)
(*                                                                         *)
(* The cursor is a time, and the time of an event is its author's: events  *)
(* become visible late, or carry a time that has yet to come.  A read of a *)
(* channel holds a limited number of messages.  A poll takes minutes,      *)
(* defers events that it cannot resolve, and can end anywhere.             *)
(***************************************************************************)
EXTENDS Naturals, Sequences, FiniteSets, FiniteSetsExt, SequencesExt

CONSTANTS
    Channel,
    MaxEvents,      \* bound: events, whose numbers stand for their ids
    MaxTime,        \* bound: the clock
    Overlap,        \* seconds that are read again
    Lag, Ahead,     \* how late an event becomes visible and how far ahead its time is
    Limit,          \* BUZZ_MAX_MESSAGES_PER_CHANNEL: messages in an answer of the relay
    Lookback,       \* what the first poll reads
    Retained,       \* ids the file holds
    MaxReplies,     \* bound: replies to an event that are counted
    MaxFaults       \* bound: deferrals, polls that throw, processes that end

Event == 1..MaxEvents

ASSUME ConstantsAssumption ==
    /\ MaxEvents \in Nat /\ MaxTime \in Nat \ {0} /\ Lookback \in Nat /\ MaxFaults \in Nat
    /\ Overlap \in Nat /\ Lag \in Nat /\ Ahead \in Nat
    /\ Limit \in Nat \ {0}
    /\ Retained \in Nat \ {0} /\ MaxReplies \in Nat \ {0, 1}

VARIABLES
    now,
    kind,       \* a mention that begins a conversation, a reply in one, or another event
    where,      \* the channel of an event
    at,         \* the time of an event; 0 before it is visible
    \* the file
    cursor,     \* 0 until a poll was completed
    ids,        \* processedEventIds
    \* the poll
    pc,
    start,      \* pollStartedTimestamp
    since,
    processed,  \* the ids as the poll knows them
    unread,     \* channels it has yet to read
    todo,       \* interactions it has yet to take
    cur,        \* the one that was just answered
    deferred,   \* times of the events it defers
    \* history
    replies,    \* replies posted to an event
    handled,    \* events that were answered, switched off or none of Prism's
    first,      \* where the first poll that was completed began to read; 0 before
    missed,     \* events that the last read of their channel had no room for
    late,       \* how far behind the clock an event was when it became visible
    lead,       \* how far ahead of its poll an event was that the cursor was left at
    faults

file == <<cursor, ids>>
events == <<kind, where, at, late>>
past == <<first, missed, lead>>
vars == <<now, kind, where, at, cursor, ids, pc, start, since, processed, unread, todo, cur,
          deferred, replies, handled, first, missed, late, lead, faults>>

Time == 0..MaxTime + Ahead

TypeOK ==
    /\ now \in 1..MaxTime
    /\ kind \in [Event -> {"mention", "reply", "other"}]
    /\ where \in [Event -> Channel]
    /\ at \in [Event -> Time]
    /\ cursor \in Time /\ start \in Time /\ since \in Time /\ first \in Time
    /\ ids \in Seq(Event) /\ Len(ids) <= Retained
    /\ processed \in Seq(Event)
    /\ pc \in {"idle", "fetch", "work", "answered"}
    /\ unread \subseteq Channel /\ todo \subseteq Event /\ cur \in 0..MaxEvents
    /\ deferred \subseteq Time
    /\ replies \in [Event -> 0..MaxReplies]
    /\ handled \subseteq Event /\ missed \subseteq Event
    /\ late \in [Event -> 0..Lag] /\ lead \in Time
    /\ faults \in 0..MaxFaults

Init ==
    /\ now = 1
    /\ kind \in [Event -> {"mention", "reply", "other"}]
    /\ where \in [Event -> Channel]
    /\ at = [e \in Event |-> 0] /\ late = [e \in Event |-> 0]
    /\ cursor = 0 /\ ids = <<>>
    /\ pc = "idle" /\ start = 0 /\ since = 0 /\ processed = <<>>
    /\ unread = {} /\ todo = {} /\ cur = 0 /\ deferred = {}
    /\ replies = [e \in Event |-> 0] /\ handled = {}
    /\ first = 0 /\ missed = {} /\ lead = 0
    /\ faults = 0

-----------------------------------------------------------------------------
Fault == faults < MaxFaults /\ faults' = faults + 1
Later(a, b) == IF a < b THEN b ELSE a
Less(a, b) == IF a > b THEN a - b ELSE 0     \* Math.max(0, a - b)

Tick ==
    /\ now < MaxTime /\ now' = now + 1
    /\ UNCHANGED <<events, file, pc, start, since, processed, unread, todo, cur, deferred,
                   replies, handled, past, faults>>

\* An event becomes visible: its time lies at most Lag behind and Ahead of the clock.
Publish(e) ==
    /\ at[e] = 0
    /\ \E t \in Less(now, Lag)..now + Ahead :
          t > 0 /\ at' = [at EXCEPT ![e] = t] /\ late' = [late EXCEPT ![e] = Less(now, t)]
    /\ UNCHANGED <<now, kind, where, file, pc, start, since, processed, unread, todo, cur,
                   deferred, replies, handled, past, faults>>

\* A poll begins: where it reads from depends on the cursor, or on the clock as long as
\* there is none.
From(c, t) == Less(IF c # 0 THEN c ELSE Less(t, Lookback), Overlap)

Begin ==
    /\ pc = "idle" /\ pc' = "fetch"
    /\ start' = now /\ since' = From(cursor, now)
    /\ processed' = ids /\ deferred' = {} /\ unread' = Channel
    /\ UNCHANGED <<now, events, file, todo, cur, replies, handled, past, faults>>

InRange(c) == {e \in Event : where[e] = c /\ at[e] # 0 /\ at[e] >= since}

\* What the relay answers: all of it, or as much as there is room for.  Prism's own posts
\* take room and are sorted out after.
Page(c, page) ==
    /\ page \subseteq InRange(c) /\ Cardinality(page) <= Limit
    /\ \/ page = InRange(c)
       \/ Cardinality(page) + SumFunctionOnSet(replies, {e \in Event : where[e] = c}) >= Limit

\* A channel is read; what was processed before is left out.
Fetch(c) ==
    /\ pc = "fetch" /\ c \in unread /\ unread' = unread \ {c}
    /\ pc' = IF unread' = {} THEN "work" ELSE pc
    /\ \E page \in SUBSET InRange(c) :
          /\ Page(c, page)
          /\ todo' = todo \cup (page \ ToSet(processed))
          /\ missed' = (missed \ page) \cup (InRange(c) \ page)
    /\ UNCHANGED <<now, events, file, start, since, processed, cur, deferred, replies, handled,
                   first, lead, faults>>

\* The oldest is taken first; ids break ties.
Oldest(e) == e \in todo /\ \A o \in todo : at[e] < at[o] \/ (at[e] = at[o] /\ e <= o)
Take(e) == pc = "work" /\ Oldest(e) /\ todo' = todo \ {e}
Through(e) == processed' = Append(processed, e) /\ handled' = handled \cup {e}

\* The last ids are retained.
Retain(seq) == SubSeq(seq, Later(1, Len(seq) - Retained + 1), Len(seq))

\* saveBuzzInteractionState replaces the file: all or nothing.
Save(c, seq) == cursor' = c /\ ids' = Retain(seq)

\* The poll is over, and what it knew is gone.
Gone ==
    /\ pc' = "idle" /\ start' = 0 /\ since' = 0 /\ processed' = <<>>
    /\ unread' = {} /\ todo' = {} /\ cur' = 0 /\ deferred' = {}

\* Not a conversation of Prism's: remembered, and saved along with the next.
Ignore(e) ==
    /\ Take(e) /\ kind[e] = "other"
    /\ Through(e)
    /\ UNCHANGED <<now, events, file, pc, start, since, unread, cur, deferred, replies, past,
                   faults>>

\* The thread cannot be fetched, or the profile is not mapped or unavailable.
Defer(e) ==
    /\ Take(e) /\ Fault
    /\ deferred' = deferred \cup {at[e]}
    /\ UNCHANGED <<now, events, file, pc, start, since, processed, unread, cur, replies,
                   handled, past>>

\* Mutant: replies in the thread are not looked for.
Replied_Unseen(e) == FALSE

\* buzzThreadHasDirectReplyFrom: replies go to the root of the conversation, so it is a
\* mention that began one, and no other event, whose reply is found.
Replied(e) == kind[e] = "mention" /\ replies[e] > 0

\* The interaction is switched off here, or answered already.
Settle(e) ==
    /\ Take(e) /\ kind[e] # "other"
    /\ Through(e) /\ Save(cursor, processed')
    /\ UNCHANGED <<now, events, pc, start, since, unread, cur, deferred, replies, past, faults>>

\* runBuzzPrompt: an answer, a notice or an apology is posted.
Answer(e) ==
    /\ Take(e) /\ kind[e] # "other" /\ ~Replied(e)
    /\ replies' = [replies EXCEPT ![e] = IF @ < MaxReplies THEN @ + 1 ELSE @]
    /\ cur' = e /\ pc' = "answered"
    /\ UNCHANGED <<now, events, file, start, since, processed, unread, deferred, handled, past,
                   faults>>

\* It is recorded at once.
Record ==
    /\ pc = "answered" /\ pc' = "work"
    /\ Through(cur) /\ Save(cursor, processed')
    /\ UNCHANGED <<now, events, start, since, unread, todo, cur, deferred, replies, past, faults>>

\* Mutant: the cursor is the time when the poll is through.
Cursor_Completion == IF deferred = {} THEN now ELSE Min(deferred)

\* Mutant: deferred events do not hold the cursor.
Cursor_NotHeld == start

\* buzzInteractionCursorTimestamp: the time when the poll began, or of the oldest event
\* it deferred.
Cursor == IF deferred = {} THEN start ELSE Min(deferred)

Finish ==
    /\ pc = "work" /\ todo = {}
    /\ Save(Cursor, processed) /\ Gone
    /\ first' = IF first = 0 THEN Later(1, since) ELSE first
    /\ lead' = IF deferred = {} THEN lead ELSE Later(lead, Less(Min(deferred), start))
    /\ UNCHANGED <<now, events, replies, handled, missed, faults>>

\* What the poll awaits throws, or the process ends: what it knew is forgotten, and so is
\* an answer that was posted and not recorded.
PollEnds ==
    /\ pc # "idle" /\ Fault /\ Gone
    /\ UNCHANGED <<now, events, file, replies, handled, past>>

Work ==
    \/ Begin \/ Record \/ Finish
    \/ \E c \in Channel : Fetch(c)
    \/ \E e \in Event : Ignore(e) \/ Defer(e) \/ Settle(e) \/ Answer(e)

Next == Tick \/ (\E e \in Event : Publish(e)) \/ Work \/ PollEnds

Spec == Init /\ [][Next]_vars

\* The timer starts a poll again and again, and what a poll awaits returns or throws.
FairSpec == Spec /\ WF_vars(Work)

-----------------------------------------------------------------------------
(* Properties.                                                             *)

\* A mention that begins a conversation is answered once, whatever happens between the
\* answer and the record of it.
MentionsOnce == \A e \in Event : kind[e] = "mention" => replies[e] <= 1

\* An event came so late, with the cursor left so far ahead of a poll, that what is read
\* again does not make up for it.
TooLate(e) == late[e] + lead > Overlap

\* No event is passed by: what the next poll does not read any more, from the first that
\* was completed on, is through, unless there was no room for it or it came too late.
NeverPassedBy ==
    \A e \in Event :
        at[e] # 0 /\ first # 0 /\ at[e] >= first /\ at[e] < From(cursor, now)
        => e \in handled \/ e \in missed \/ TooLate(e)

\* Every event is handled, unless it was older than what the first poll read, the reads had
\* no room for it, or it came too late.
EventsEnd ==
    \A e \in Event :
        at[e] # 0 ~> \/ e \in handled \/ (first # 0 /\ at[e] < first)
                     \/ e \in missed \/ TooLate(e)
=============================================================================
