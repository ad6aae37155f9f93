------------------------- MODULE BuzzInteractionsProofs -------------------------
(***************************************************************************)
(* Theorems about BuzzInteractions, for any channels, any number of        *)
(* events, any clock, any overlap and any number of faults.                *)
(*                                                                         *)
(* The argument for NeverPassedBy: where the next poll reads from lies     *)
(* Overlap behind the cursor.  The cursor is where a poll began, or the    *)
(* time of an event it deferred, at most lead after (Clocked), and an      *)
(* event that becomes visible after its channel was read lies at most late *)
(* behind the clock.  What was read is taken, deferred or handled, and     *)
(* what there was no room for is missed (Settled).                         *)
(***************************************************************************)
EXTENDS BuzzInteractions, FiniteSetTheorems, SequenceTheorems, WellFoundedInduction, TLAPS

Clocked ==
    /\ cursor <= now + lead /\ start <= now
    /\ \A d \in deferred : d > 0
    /\ \A e \in todo : at[e] # 0
    /\ first # 0 => cursor # 0
    /\ pc # "idle" => start > 0 /\ since = From(cursor, start)
    /\ pc = "idle" => todo = {}
    /\ pc \in {"idle", "fetch"} => deferred = {}
    /\ pc # "fetch" => unread = {}
    /\ pc = "answered" => cur \in Event

Remembered == ToSet(ids) \cup ToSet(processed) \subseteq handled

\* What became visible after the poll began is no further behind it than it is late.
InReach(e) == start <= at[e] + late[e]

\* An event that the poll need not come back to: it is not there yet or was passed by before,
\* it is in hand, there was no room for it, or a later poll can see it.
SettledAt(e) ==
    \/ at[e] = 0 \/ at[e] < since
    \/ e \in handled \cup todo \/ (pc = "answered" /\ e = cur)
    \/ at[e] \in deferred
    \/ e \in missed
    \/ InReach(e)

Settled == pc # "idle" => \A e \in Event : where[e] \in unread \/ SettledAt(e)

IInv == TypeOK /\ Clocked /\ Remembered /\ Settled /\ NeverPassedBy /\ MentionsOnce
-----------------------------------------------------------------------------
(* Helpers.                                                                *)

\* A set of numbers that is not empty has a smallest one.
LEMMA MinIs ==
  ASSUME NEW S \in SUBSET Nat, S # {}
  PROVE  Min(S) \in S /\ \A x \in S : Min(S) <= x
<1> DEFINE Smaller == {ss \in Nat \X Nat : ss[1] < ss[2]}
<1>1. IsWellFoundedOn(Smaller, Nat)
  BY NatLessThanWellFounded DEF OpToRel
<1>2. \E x \in S : \A y \in S : x <= y
  <2>1. PICK x \in S : \A y \in S : ~ (<<y, x>> \in Smaller)
    <3> HIDE DEF Smaller
    <3>1. QED
      BY <1>1, WFMin
  <2>2. ASSUME NEW y \in S PROVE x <= y
    <3>1. x \in Nat /\ y \in Nat
      OBVIOUS
    <3>2. y < x => <<y, x>> \in Smaller
      BY <3>1
    <3>3. ~ (<<y, x>> \in Smaller)
      BY <2>1
    <3> HIDE DEF Smaller
    <3>4. QED
      BY <3>1, <3>2, <3>3
  <2>3. QED
    BY <2>2
<1>3. QED
  BY <1>2 DEF Min

LEMMA AppendIs ==
  ASSUME NEW seq \in Seq(Event), NEW e \in Event
  PROVE  Append(seq, e) \in Seq(Event) /\ ToSet(Append(seq, e)) = ToSet(seq) \cup {e}
<1>1. /\ Append(seq, e) \in Seq(Event) /\ Len(Append(seq, e)) = Len(seq) + 1
      /\ \A i \in 1..Len(seq) : Append(seq, e)[i] = seq[i]
      /\ Append(seq, e)[Len(seq) + 1] = e
  BY AppendProperties
<1>2. DOMAIN seq = 1..Len(seq) /\ DOMAIN Append(seq, e) = 1..(Len(seq) + 1) /\ Len(seq) \in Nat
  BY <1>1, LenProperties
<1>3. QED
  BY <1>1, <1>2 DEF ToSet

\* What is retained are some of the ids, and no more than the file holds.
LEMMA RetainIs ==
  ASSUME NEW seq \in Seq(Event)
  PROVE  /\ Retain(seq) \in Seq(Event) /\ Len(Retain(seq)) <= Retained
         /\ ToSet(Retain(seq)) \subseteq ToSet(seq)
<1> DEFINE m == Later(1, Len(seq) - Retained + 1)
           n == Len(seq)
<1>1. m \in Int /\ n \in Nat /\ m >= 1 /\ n - m + 1 <= Retained
  BY LenProperties, ConstantsAssumption DEF Later
<1>2. DOMAIN seq = 1..n /\ \A i \in 1..n : seq[i] \in Event
  BY LenProperties, ElementOfSeq
<1>3. Retain(seq) = SubSeq(seq, m, n)
  BY DEF Retain
<1> HIDE DEF m, n
<1>4. \A i \in m..n : seq[i] \in Event
  BY <1>1, <1>2
<1>5. /\ SubSeq(seq, m, n) \in Seq(Event)
      /\ Len(SubSeq(seq, m, n)) = IF m <= n THEN n - m + 1 ELSE 0
      /\ \A i \in 1..n - m + 1 : SubSeq(seq, m, n)[i] = seq[m + i - 1]
  BY <1>1, <1>4, SubSeqProperties
<1>6. DOMAIN SubSeq(seq, m, n) = 1..Len(SubSeq(seq, m, n))
  BY <1>5, LenProperties
<1>7. \A i \in DOMAIN SubSeq(seq, m, n) :
         /\ SubSeq(seq, m, n)[i] = seq[m + i - 1] /\ m + i - 1 \in 1..n
  BY <1>1, <1>5, <1>6
<1>8. ToSet(SubSeq(seq, m, n)) \subseteq ToSet(seq)
  BY <1>2, <1>7 DEF ToSet
<1>9. Len(SubSeq(seq, m, n)) <= Retained
  BY <1>1, <1>5, ConstantsAssumption
<1>10. QED
  BY <1>3, <1>5, <1>8, <1>9

\* Times are numbers, and so is where a poll reads from.
LEMMA Numbers ==
  ASSUME TypeOK
  PROVE  /\ Time \subseteq Nat /\ now \in Nat /\ now > 0 /\ now + Ahead \in Time
         /\ Overlap \in Nat /\ Lag \in Nat /\ Ahead \in Nat /\ Lookback \in Nat
         /\ lead \in Nat /\ \A e \in Event : late[e] \in Nat /\ at[e] \in Nat
  BY ConstantsAssumption DEF TypeOK, Time

LEMMA LessIs ==
  ASSUME NEW a \in Time, NEW b \in Time
  PROVE  Less(a, b) \in Time /\ a <= b + Less(a, b)
<1>1. MaxTime \in Nat /\ Ahead \in Nat
  BY ConstantsAssumption
<1>2. a \in 0..MaxTime + Ahead /\ b \in 0..MaxTime + Ahead
  BY DEF Time
<1>3. QED
  BY <1>1, <1>2 DEF Less, Time

LEMMA FromIs ==
  ASSUME TypeOK, NEW c \in Time, NEW t \in Time
  PROVE  /\ From(c, t) \in Time
         /\ c # 0 => From(c, t) <= c /\ (c <= Overlap => From(c, t) = 0)
                     /\ (c > Overlap => From(c, t) = c - Overlap)
<1>1. c \in Nat /\ t \in Nat /\ Overlap \in Nat /\ Lookback \in Nat
  BY Numbers
<1>2. Less(t, Lookback) \in Time
  BY <1>1, ConstantsAssumption DEF Less, Time
<1>3. \A d \in Time : Less(d, Overlap) \in Time /\ Less(d, Overlap) <= d
  BY <1>1, ConstantsAssumption DEF Less, Time
<1>4. QED
  BY <1>1, <1>2, <1>3 DEF From, Less
-----------------------------------------------------------------------------
(* The steps outside a poll.                                               *)

LEMMA TickStep ==
  ASSUME IInv, Tick
  PROVE  IInv'
<1> USE DEF IInv
<1>1. /\ now' = now + 1 /\ now < MaxTime
      /\ UNCHANGED <<kind, where, at, late, cursor, ids, pc, start, since, processed, unread, todo,
                     cur, deferred, replies, handled, first, missed, lead, faults>>
  BY DEF Tick, events, file, past
<1>2. now \in Nat /\ now' \in Nat /\ now' \in 1..MaxTime /\ lead \in Nat /\ Time \subseteq Nat
  BY <1>1, Numbers, ConstantsAssumption DEF TypeOK
<1>3. TypeOK'
  BY <1>1, <1>2 DEF TypeOK
<1>4. start <= now' /\ cursor <= now' + lead'
  BY <1>1, <1>2 DEF Clocked, TypeOK
<1>5. Clocked'
  BY <1>1, <1>4 DEF Clocked, From
<1>6. Remembered' /\ Settled' /\ MentionsOnce'
  BY <1>1 DEF Remembered, Settled, SettledAt, InReach, MentionsOnce, ToSet
<1>7. NeverPassedBy'
  <2>1. first # 0 => From(cursor, now') = From(cursor, now)
    BY DEF Clocked, From
  <2>2. QED
    BY <1>1, <2>1 DEF NeverPassedBy, From, TooLate
<1>8. QED
  BY <1>3, <1>5, <1>6, <1>7

LEMMA PublishStep ==
  ASSUME IInv, NEW e \in Event, Publish(e)
  PROVE  IInv'
<1> USE DEF IInv
<1>1. /\ at[e] = 0
      /\ UNCHANGED <<now, kind, where, cursor, ids, pc, start, since, processed, unread, todo,
                     cur, deferred, replies, handled, first, missed, lead, faults>>
  BY DEF Publish, file, past
<1>2. PICK t \in Less(now, Lag)..now + Ahead :
         t > 0 /\ at' = [at EXCEPT ![e] = t] /\ late' = [late EXCEPT ![e] = Less(now, t)]
  BY DEF Publish
<1>3. /\ now \in Nat /\ Ahead \in Nat /\ Lag \in Nat /\ Overlap \in Nat /\ lead \in Nat
      /\ Time \subseteq Nat /\ now + Ahead \in Time
  BY Numbers
<1>4. t \in Nat /\ t \in Time /\ Less(now, t) \in 0..Lag /\ now <= t + Less(now, t)
  <2>1. Less(now, Lag) \in Nat /\ now <= Less(now, Lag) + Lag
    BY <1>3 DEF Less
  <2>2. t \in Nat /\ Less(now, Lag) <= t /\ t <= now + Ahead
    BY <1>3, <2>1
  <2>3. QED
    BY <1>3, <2>1, <2>2, ConstantsAssumption DEF Time, Less
<1>5. /\ at'[e] = t /\ late'[e] = Less(now, t)
      /\ \A o \in Event : o # e => at'[o] = at[o] /\ late'[o] = late[o]
  BY <1>2 DEF TypeOK
<1>6. TypeOK'
  BY <1>1, <1>2, <1>4 DEF TypeOK
<1>7. Clocked'
  <2>1. \A o \in todo : at'[o] # 0
    BY <1>1, <1>5 DEF Clocked, TypeOK
  <2>2. QED
    BY <1>1, <2>1 DEF Clocked, From
<1>8. Remembered' /\ MentionsOnce'
  BY <1>1 DEF Remembered, MentionsOnce, ToSet
<1>9. Settled'
  <2>1. InReach(e)'
    <3>1. start \in Nat /\ start <= now
      BY <1>3 DEF Clocked, TypeOK
    <3>2. QED
      BY <1>1, <1>3, <1>4, <1>5, <3>1 DEF InReach
  <2>2. ASSUME NEW o \in Event, o # e, SettledAt(o) PROVE SettledAt(o)'
    BY <1>1, <1>5, <2>2 DEF SettledAt, InReach
  <2>3. QED
    BY <1>1, <2>1, <2>2 DEF Settled, SettledAt
<1>10. NeverPassedBy'
  <2>1. ASSUME first # 0, t < From(cursor, now) PROVE TooLate(e)'
    <3>1. cursor # 0 /\ cursor \in Time /\ now \in Time /\ cursor \in Nat /\ cursor <= now + lead
      BY <1>3, <2>1, ConstantsAssumption DEF Clocked, TypeOK, Time
    <3>2. t + Overlap < cursor
      BY <1>3, <1>4, <2>1, <3>1, FromIs
    <3>3. late'[e] + lead > Overlap
      <4>1. late'[e] \in Nat /\ now <= t + late'[e]
        BY <1>3, <1>4, <1>5
      <4>2. QED
        BY <1>3, <1>4, <3>1, <3>2, <4>1
    <3>4. QED
      BY <1>1, <3>3 DEF TooLate
  <2>2. \A o \in Event : o # e => (TooLate(o)' <=> TooLate(o))
    BY <1>1, <1>5 DEF TooLate
  <2>3. From(cursor, now)' = From(cursor, now)
    BY <1>1 DEF From
  <2>4. QED
    BY <1>1, <1>5, <2>1, <2>2, <2>3 DEF NeverPassedBy
<1>11. QED
  BY <1>6, <1>7, <1>8, <1>9, <1>10
-----------------------------------------------------------------------------
(* The steps of a poll.                                                    *)

LEMMA PassedKept ==
  ASSUME NeverPassedBy, UNCHANGED <<now, at, late, cursor, first, missed, lead>>,
         handled \subseteq handled'
  PROVE  NeverPassedBy'
  BY DEF NeverPassedBy, From, TooLate

LEMMA BeginStep ==
  ASSUME IInv, Begin
  PROVE  IInv'
<1> USE DEF IInv
<1>1. /\ pc = "idle" /\ pc' = "fetch" /\ start' = now /\ since' = From(cursor, now)
      /\ processed' = ids /\ deferred' = {} /\ unread' = Channel
      /\ UNCHANGED <<now, kind, where, at, late, cursor, ids, todo, cur, replies, handled, first,
                     missed, lead, faults>>
  BY DEF Begin, events, file, past
<1>2. now \in Time /\ now > 0 /\ now \in Nat
  BY Numbers, ConstantsAssumption DEF TypeOK, Time
<1>3. TypeOK'
  <2>1. since' \in Time
    BY <1>1, <1>2, FromIs DEF TypeOK
  <2>2. QED
    BY <1>1, <1>2, <2>1 DEF TypeOK
<1>4. Clocked'
  BY <1>1, <1>2 DEF Clocked, From
<1>5. Remembered' /\ Settled' /\ MentionsOnce'
  BY <1>1 DEF Remembered, Settled, MentionsOnce, TypeOK
<1>6. NeverPassedBy'
  BY <1>1, PassedKept
<1>7. QED
  BY <1>3, <1>4, <1>5, <1>6

\* What was passed by stays so when a channel is read: it is out of the range that is read,
\* or the poll has begun where no poll is through.
LEMMA FetchStep ==
  ASSUME IInv, NEW c \in Channel, Fetch(c)
  PROVE  IInv'
<1> USE DEF IInv
<1>1. /\ pc = "fetch" /\ c \in unread /\ unread' = unread \ {c}
      /\ pc' = IF unread' = {} THEN "work" ELSE "fetch"
      /\ UNCHANGED <<now, kind, where, at, late, cursor, ids, start, since, processed, cur,
                     deferred, replies, handled, first, lead, faults>>
  BY DEF Fetch, events, file
<1>2. PICK page \in SUBSET InRange(c) :
         /\ todo' = todo \cup (page \ ToSet(processed))
         /\ missed' = (missed \ page) \cup (InRange(c) \ page)
  BY DEF Fetch
<1>3. /\ page \subseteq InRange(c) /\ InRange(c) \subseteq Event
      /\ \A e \in InRange(c) : where[e] = c /\ at[e] # 0 /\ at[e] >= since
      /\ \A e \in Event : where[e] = c => at[e] = 0 \/ at[e] < since \/ e \in InRange(c)
  <2>1. \A e \in Event : at[e] \in Nat /\ since \in Nat
    BY Numbers DEF TypeOK
  <2>2. QED
    BY <2>1 DEF InRange
<1>4. TypeOK'
  BY <1>1, <1>2, <1>3 DEF TypeOK
<1>5. Clocked'
  <2>1. \A e \in todo' : at[e] # 0
    BY <1>2, <1>3 DEF Clocked
  <2>2. QED
    BY <1>1, <2>1 DEF Clocked, From
<1>6. Remembered' /\ MentionsOnce'
  BY <1>1 DEF Remembered, MentionsOnce
<1>7. Settled'
  <2>1. ASSUME NEW e \in Event, where[e] # c, SettledAt(e) PROVE SettledAt(e)'
    BY <1>1, <1>2, <1>3, <2>1 DEF SettledAt, InReach
  <2>2. ASSUME NEW e \in Event, where[e] = c PROVE SettledAt(e)'
    <3>1. CASE e \in page
      BY <1>1, <1>2, <3>1 DEF SettledAt, Remembered
    <3>2. CASE e \in InRange(c) \ page
      BY <1>1, <1>2, <3>2 DEF SettledAt
    <3>3. CASE e \notin InRange(c)
      BY <1>1, <1>3, <2>2, <3>3 DEF SettledAt
    <3>4. QED
      BY <3>1, <3>2, <3>3
  <2>3. QED
    BY <1>1, <2>1, <2>2 DEF Settled
<1>8. NeverPassedBy'
  <2>1. ASSUME NEW e \in Event, first # 0, at[e] < From(cursor, now) PROVE e \notin page
    <3>1. since = From(cursor, now)
      BY <1>1, <2>1 DEF Clocked, From
    <3>2. at[e] \in Nat /\ since \in Nat
      BY Numbers DEF TypeOK
    <3>3. QED
      BY <1>3, <2>1, <3>1, <3>2
  <2>2. QED
    BY <1>1, <1>2, <2>1 DEF NeverPassedBy, From, TooLate
<1>9. QED
  BY <1>4, <1>5, <1>6, <1>7, <1>8

\* An event is taken: it is handled, deferred or answered.
LEMMA TakenStep ==
  ASSUME IInv, NEW e \in Event, Take(e), pc' \in {"work", "answered"},
         \/ e \in handled' /\ UNCHANGED deferred
         \/ deferred' = deferred \cup {at[e]}
         \/ pc' = "answered" /\ cur' = e /\ UNCHANGED deferred,
         handled \subseteq handled',
         UNCHANGED <<where, at, late, since, start, unread, missed>>
  PROVE  Settled'
<1> USE DEF IInv
<1>1. pc = "work" /\ todo' = todo \ {e} /\ e \in todo
  BY DEF Take, Oldest
<1>2. ASSUME NEW o \in Event, SettledAt(o) PROVE SettledAt(o)'
  BY <1>1, <1>2 DEF SettledAt, InReach
<1>3. QED
  BY <1>1, <1>2 DEF Settled

LEMMA IgnoreStep ==
  ASSUME IInv, NEW e \in Event, Ignore(e)
  PROVE  IInv'
<1> USE DEF IInv
<1>1. /\ Take(e) /\ processed' = Append(processed, e) /\ handled' = handled \cup {e}
      /\ UNCHANGED <<now, kind, where, at, late, cursor, ids, pc, start, since, unread,
                     cur, deferred, replies, first, missed, lead, faults>>
  BY DEF Ignore, Through, events, file, past
<1>2. pc = "work" /\ todo' \subseteq todo
  BY <1>1 DEF Take
<1>3. processed' \in Seq(Event) /\ ToSet(processed') = ToSet(processed) \cup {e}
  BY <1>1, AppendIs DEF TypeOK
<1>4. TypeOK' /\ MentionsOnce'
  BY <1>1, <1>2, <1>3 DEF TypeOK, MentionsOnce
<1>5. Clocked'
  BY <1>1, <1>2 DEF Clocked, From
<1>6. Remembered'
  BY <1>1, <1>3 DEF Remembered
<1>7. Settled'
  BY <1>1, <1>2, TakenStep
<1>8. NeverPassedBy'
  BY <1>1, PassedKept
<1>9. QED
  BY <1>4, <1>5, <1>6, <1>7, <1>8

LEMMA DeferStep ==
  ASSUME IInv, NEW e \in Event, Defer(e)
  PROVE  IInv'
<1> USE DEF IInv
<1>1. /\ Take(e) /\ deferred' = deferred \cup {at[e]} /\ Fault
      /\ UNCHANGED <<now, kind, where, at, late, cursor, ids, pc, start, since, processed,
                     unread, cur, replies, handled, first, missed, lead>>
  BY DEF Defer, events, file, past
<1>2. pc = "work" /\ todo' \subseteq todo /\ e \in todo
  BY <1>1 DEF Take, Oldest
<1>3. TypeOK'
  <2>1. faults' \in 0..MaxFaults
    BY <1>1, ConstantsAssumption DEF Fault, TypeOK
  <2>2. QED
    BY <1>1, <1>2, <2>1 DEF TypeOK
<1>4. Clocked'
  <2>1. at[e] > 0
    BY <1>2, Numbers DEF Clocked
  <2>2. QED
    BY <1>1, <1>2, <2>1 DEF Clocked, From
<1>5. Remembered' /\ MentionsOnce'
  BY <1>1 DEF Remembered, MentionsOnce
<1>6. Settled'
  BY <1>1, <1>2, TakenStep
<1>7. NeverPassedBy'
  BY <1>1, PassedKept
<1>8. QED
  BY <1>3, <1>4, <1>5, <1>6, <1>7

LEMMA SettleStep ==
  ASSUME IInv, NEW e \in Event, Settle(e)
  PROVE  IInv'
<1> USE DEF IInv
<1>1. /\ Take(e) /\ processed' = Append(processed, e) /\ handled' = handled \cup {e}
      /\ cursor' = cursor /\ ids' = Retain(processed')
      /\ UNCHANGED <<now, kind, where, at, late, pc, start, since, unread, cur, deferred, replies,
                     first, missed, lead, faults>>
  BY DEF Settle, Through, Save, events, past
<1>2. pc = "work" /\ todo' \subseteq todo
  BY <1>1 DEF Take
<1>3. processed' \in Seq(Event) /\ ToSet(processed') = ToSet(processed) \cup {e}
  BY <1>1, AppendIs DEF TypeOK
<1>4. /\ ids' \in Seq(Event) /\ Len(ids') <= Retained
      /\ ToSet(ids') \subseteq ToSet(processed')
  BY <1>1, <1>3, RetainIs
<1>5. TypeOK' /\ MentionsOnce'
  BY <1>1, <1>2, <1>3, <1>4 DEF TypeOK, MentionsOnce
<1>6. Clocked'
  BY <1>1, <1>2 DEF Clocked, From
<1>7. Remembered'
  BY <1>1, <1>3, <1>4 DEF Remembered
<1>8. Settled'
  BY <1>1, <1>2, TakenStep
<1>9. NeverPassedBy'
  BY <1>1, PassedKept
<1>10. QED
  BY <1>5, <1>6, <1>7, <1>8, <1>9

LEMMA AnswerStep ==
  ASSUME IInv, NEW e \in Event, Answer(e)
  PROVE  IInv'
<1> USE DEF IInv
<1>1. /\ Take(e) /\ ~Replied(e) /\ pc' = "answered" /\ cur' = e
      /\ replies' = [replies EXCEPT ![e] =
                       IF replies[e] < MaxReplies THEN replies[e] + 1 ELSE replies[e]]
      /\ UNCHANGED <<now, kind, where, at, late, cursor, ids, start, since, processed, unread,
                     deferred, handled, first, missed, lead, faults>>
  BY DEF Answer, events, file, past
<1>2. pc = "work" /\ todo' \subseteq todo
  BY <1>1 DEF Take
<1>3. TypeOK'
  <2>1. replies' \in [Event -> 0..MaxReplies]
    <3>1. replies[e] \in 0..MaxReplies /\ MaxReplies \in Nat
      BY ConstantsAssumption DEF TypeOK
    <3>2. (IF replies[e] < MaxReplies THEN replies[e] + 1 ELSE replies[e]) \in 0..MaxReplies
      BY <3>1
    <3>3. QED
      BY <1>1, <3>2 DEF TypeOK
  <2>2. cur' \in 0..MaxEvents
    BY <1>1 DEF Event
  <2>3. QED
    BY <1>1, <1>2, <2>1, <2>2 DEF TypeOK
<1>4. MentionsOnce'
  <2>1. ASSUME NEW o \in Event, kind[o] = "mention" PROVE replies'[o] <= 1
    <3>1. CASE o = e
      <4>1. replies[e] = 0
        BY <1>1, <2>1, <3>1 DEF Replied, TypeOK
      <4>2. QED
        BY <1>1, <3>1, <4>1, ConstantsAssumption DEF TypeOK
    <3>2. CASE o # e
      BY <1>1, <2>1, <3>2 DEF MentionsOnce, TypeOK
    <3>3. QED
      BY <3>1, <3>2
  <2>2. QED
    BY <1>1, <2>1 DEF MentionsOnce
<1>5. Clocked'
  BY <1>1, <1>2 DEF Clocked, From
<1>6. Remembered'
  BY <1>1 DEF Remembered
<1>7. Settled'
  BY <1>1, <1>2, TakenStep
<1>8. NeverPassedBy'
  BY <1>1, PassedKept
<1>9. QED
  BY <1>3, <1>4, <1>5, <1>6, <1>7, <1>8

LEMMA RecordStep ==
  ASSUME IInv, Record
  PROVE  IInv'
<1> USE DEF IInv
<1>1. /\ pc = "answered" /\ pc' = "work"
      /\ processed' = Append(processed, cur) /\ handled' = handled \cup {cur}
      /\ cursor' = cursor /\ ids' = Retain(processed')
      /\ UNCHANGED <<now, kind, where, at, late, start, since, unread, todo, cur, deferred,
                     replies, first, missed, lead, faults>>
  BY DEF Record, Through, Save, events, past
<1>2. cur \in Event
  BY <1>1 DEF Clocked
<1>3. processed' \in Seq(Event) /\ ToSet(processed') = ToSet(processed) \cup {cur}
  BY <1>1, <1>2, AppendIs DEF TypeOK
<1>4. /\ ids' \in Seq(Event) /\ Len(ids') <= Retained
      /\ ToSet(ids') \subseteq ToSet(processed')
  BY <1>1, <1>3, RetainIs
<1>5. TypeOK' /\ MentionsOnce'
  BY <1>1, <1>2, <1>3, <1>4 DEF TypeOK, MentionsOnce
<1>6. Clocked'
  BY <1>1 DEF Clocked, From
<1>7. Remembered'
  BY <1>1, <1>3, <1>4 DEF Remembered
<1>8. Settled'
  BY <1>1 DEF Settled, SettledAt, InReach
<1>9. NeverPassedBy'
  BY <1>1, PassedKept
<1>10. QED
  BY <1>5, <1>6, <1>7, <1>8, <1>9

\* What a poll leaves as the cursor: its start, or the oldest of what it deferred.
LEMMA CursorIs ==
  ASSUME IInv, pc = "work"
  PROVE  /\ Cursor \in Time /\ Cursor > 0
         /\ deferred = {} => Cursor = start
         /\ deferred # {} => Cursor = Min(deferred) /\ \A d \in deferred : Cursor <= d
<1> USE DEF IInv
<1>1. Time \subseteq Nat
  BY Numbers
<1>2. CASE deferred = {}
  <2>1. start \in Time /\ start > 0 /\ Cursor = start
    BY <1>2 DEF Clocked, TypeOK, Cursor
  <2>2. QED
    BY <1>2, <2>1
<1>3. CASE deferred # {}
  <2>1. deferred \in SUBSET Nat
    BY <1>1 DEF TypeOK
  <2>2. Min(deferred) \in deferred /\ \A d \in deferred : Min(deferred) <= d
    BY <1>3, <2>1, MinIs
  <2>3. Cursor = Min(deferred)
    BY <1>3 DEF Cursor
  <2>4. QED
    BY <1>3, <2>2, <2>3 DEF Clocked, TypeOK
<1>4. QED
  BY <1>2, <1>3

LEMMA FinishStep ==
  ASSUME IInv, Finish
  PROVE  IInv'
<1> USE DEF IInv
<1>1. /\ pc = "work" /\ todo = {} /\ cursor' = Cursor /\ ids' = Retain(processed)
      /\ pc' = "idle" /\ start' = 0 /\ since' = 0 /\ processed' = <<>>
      /\ unread' = {} /\ todo' = {} /\ cur' = 0 /\ deferred' = {}
      /\ first' = IF first = 0 THEN Later(1, since) ELSE first
      /\ lead' = IF deferred = {} THEN lead ELSE Later(lead, Less(Min(deferred), start))
      /\ UNCHANGED <<now, kind, where, at, late, replies, handled, missed, faults>>
  BY DEF Finish, Save, Gone, events
<1>2. /\ ids' \in Seq(Event) /\ Len(ids') <= Retained
      /\ ToSet(ids') \subseteq ToSet(processed)
  BY <1>1, RetainIs DEF TypeOK
<1>3. /\ cursor' \in Time /\ cursor' > 0
      /\ deferred = {} => cursor' = start
      /\ deferred # {} => cursor' = Min(deferred) /\ \A d \in deferred : cursor' <= d
  BY <1>1, CursorIs
<1>4. /\ now \in Nat /\ now > 0 /\ Overlap \in Nat /\ lead \in Nat /\ Time \subseteq Nat
      /\ now \in Time /\ 0 \in Time /\ 1 \in Time
      /\ start \in Time /\ start \in Nat /\ start <= now /\ lead \in Time
  BY Numbers, ConstantsAssumption DEF TypeOK, Time, Clocked
\* The cursor is no more than lead ahead of the poll.
<1>5. lead' \in Time /\ lead' \in Nat /\ lead <= lead' /\ cursor' <= start + lead'
  <2>1. CASE deferred = {}
    <3>1. lead' = lead /\ cursor' = start
      BY <1>1, <1>3, <2>1
    <3>2. QED
      BY <1>4, <3>1
  <2>2. CASE deferred # {}
    <3>1. Less(cursor', start) \in Time /\ cursor' <= start + Less(cursor', start)
      BY <1>3, <1>4, LessIs
    <3>2. lead' = Later(lead, Less(cursor', start))
      BY <1>1, <1>3, <2>2
    <3>3. QED
      <4> DEFINE ahead == Less(cursor', start)
      <4>1. /\ ahead \in Nat /\ ahead \in Time /\ cursor' <= start + ahead /\ cursor' \in Nat
            /\ lead' = IF lead < ahead THEN ahead ELSE lead
        BY <1>3, <1>4, <3>1, <3>2 DEF Later
      <4> HIDE DEF ahead
      <4>2. QED
        BY <1>4, <4>1
  <2>3. QED
    BY <2>1, <2>2
<1>6. TypeOK'
  <2>1. first' \in Time
    BY <1>1, <1>4 DEF TypeOK, Later
  <2>2. processed' \in Seq(Event)
    BY <1>1, EmptySeq
  <2>3. cur' \in 0..MaxEvents
    BY <1>1, ConstantsAssumption
  <2>4. QED
    BY <1>1, <1>2, <1>3, <1>4, <1>5, <2>1, <2>2, <2>3 DEF TypeOK
<1>7. Clocked'
  <2>1. cursor' # 0 /\ start' <= now /\ cursor' <= now + lead'
    BY <1>1, <1>3, <1>4, <1>5
  <2>2. QED
    BY <1>1, <2>1 DEF Clocked
<1>8. Remembered'
  BY <1>1, <1>2 DEF Remembered, ToSet
<1>9. Settled' /\ MentionsOnce'
  BY <1>1 DEF Settled, MentionsOnce
<1>10. NeverPassedBy'
  <2>1. ASSUME NEW e \in Event, at[e] # 0, at[e] >= first', at[e] < From(cursor', now)
        PROVE  e \in handled \/ e \in missed \/ late[e] + lead' > Overlap
    <3>1. /\ at[e] \in Nat /\ late[e] \in Nat /\ since \in Nat /\ first \in Nat /\ cursor' \in Nat
          /\ at[e] + Overlap < cursor'
      <4>1. at[e] \in Nat /\ late[e] \in Nat /\ since \in Nat /\ first \in Nat /\ cursor' \in Nat
        BY <1>3, <1>4, Numbers DEF TypeOK
      <4>2. /\ From(cursor', now) \in Time /\ From(cursor', now) <= cursor'
            /\ cursor' <= Overlap => From(cursor', now) = 0
            /\ cursor' > Overlap => From(cursor', now) = cursor' - Overlap
        BY <1>3, <1>4, FromIs
      <4>3. QED
        BY <1>4, <2>1, <4>1, <4>2
    <3>2. CASE at[e] < since
      <4>1. first # 0
        BY <1>1, <2>1, <3>1, <3>2 DEF Later
      <4>2. since = From(cursor, now)
        BY <1>1, <4>1 DEF Clocked, From
      <4>3. e \in handled \/ e \in missed \/ late[e] + lead > Overlap
        BY <1>1, <2>1, <3>2, <4>1, <4>2 DEF NeverPassedBy, TooLate
      <4>4. QED
        BY <1>4, <1>5, <3>1, <4>3
    <3>3. CASE at[e] \in deferred
      BY <1>3, <1>4, <3>1, <3>3
    <3>4. CASE InReach(e)
      BY <1>4, <1>5, <3>1, <3>4 DEF InReach
    <3>5. where[e] \notin unread
      BY <1>1 DEF Clocked
    <3>6. SettledAt(e)
      BY <1>1, <3>5 DEF Settled
    <3>7. QED
      BY <1>1, <2>1, <3>2, <3>3, <3>4, <3>6 DEF SettledAt
  <2>2. UNCHANGED <<now, at, late, handled, missed>>
    BY <1>1
  <2>3. first' # 0
    BY <1>1, <1>4 DEF Later, TypeOK
  <2>4. QED
    BY <2>1, <2>2 DEF NeverPassedBy, From, TooLate
<1>11. QED
  BY <1>6, <1>7, <1>8, <1>9, <1>10

LEMMA PollEndsStep ==
  ASSUME IInv, PollEnds
  PROVE  IInv'
<1> USE DEF IInv
<1>1. /\ pc' = "idle" /\ start' = 0 /\ since' = 0 /\ processed' = <<>>
      /\ unread' = {} /\ todo' = {} /\ cur' = 0 /\ deferred' = {} /\ Fault
      /\ UNCHANGED <<now, kind, where, at, late, cursor, ids, replies, handled, first, missed, lead>>
  BY DEF PollEnds, Gone, events, file, past
<1>2. TypeOK'
  <2>1. faults' \in 0..MaxFaults
    BY <1>1, ConstantsAssumption DEF Fault, TypeOK
  <2>2. processed' \in Seq(Event)
    BY <1>1, EmptySeq
  <2>3. cur' \in 0..MaxEvents /\ 0 \in Time
    BY <1>1, ConstantsAssumption DEF Time
  <2>4. QED
    BY <1>1, <2>1, <2>2, <2>3 DEF TypeOK
<1>3. Clocked'
  <2>1. start' <= now
    BY <1>1, Numbers
  <2>2. QED
    BY <1>1, <2>1 DEF Clocked
<1>4. Remembered' /\ Settled' /\ MentionsOnce'
  BY <1>1 DEF Remembered, Settled, MentionsOnce, ToSet
<1>5. NeverPassedBy'
  BY <1>1, PassedKept
<1>6. QED
  BY <1>2, <1>3, <1>4, <1>5
-----------------------------------------------------------------------------
(* The invariant, and the theorems.                                        *)

LEMMA InitIs ==
  ASSUME Init
  PROVE  IInv
<1>1. 0 \in Time /\ 0 \in 0..Lag /\ MaxTime \in Nat /\ 1 \in 1..MaxTime
  BY ConstantsAssumption DEF Time
<1>2. TypeOK
  <2>1. ids \in Seq(Event) /\ Len(ids) <= Retained /\ processed \in Seq(Event)
    BY EmptySeq, ConstantsAssumption DEF Init
  <2>2. replies \in [Event -> 0..MaxReplies] /\ at \in [Event -> Time]
        /\ late \in [Event -> 0..Lag]
    BY <1>1, ConstantsAssumption DEF Init
  <2>3. cur \in 0..MaxEvents /\ faults \in 0..MaxFaults
    BY ConstantsAssumption DEF Init
  <2>4. QED
    BY <1>1, <2>1, <2>2, <2>3 DEF Init, TypeOK
<1>3. Clocked
  BY <1>1 DEF Init, Clocked
<1>4. Remembered /\ Settled /\ NeverPassedBy /\ MentionsOnce
  BY DEF Init, Remembered, Settled, NeverPassedBy, MentionsOnce, ToSet
<1>5. QED
  BY <1>2, <1>3, <1>4 DEF IInv

LEMMA StutterIs ==
  ASSUME IInv, UNCHANGED vars
  PROVE  IInv'
<1>1. UNCHANGED <<now, kind, where, at, late, cursor, ids, pc, start, since, processed, unread,
                  todo, cur, deferred, replies, handled, first, missed, lead, faults>>
  BY DEF vars
<1>2. TypeOK' /\ Clocked'
  BY <1>1 DEF IInv, TypeOK, Clocked, From
<1>3. Remembered' /\ Settled' /\ MentionsOnce'
  BY <1>1 DEF IInv, Remembered, Settled, SettledAt, InReach, MentionsOnce, ToSet
<1>4. NeverPassedBy'
  BY <1>1, PassedKept DEF IInv
<1>5. QED
  BY <1>2, <1>3, <1>4 DEF IInv

LEMMA StepIs ==
  ASSUME IInv, [Next]_vars
  PROVE  IInv'
<1>1. CASE Tick
  BY <1>1, TickStep
<1>2. CASE \E e \in Event : Publish(e)
  BY <1>2, PublishStep
<1>3. CASE Begin \/ Record \/ Finish \/ \E c \in Channel : Fetch(c)
  BY <1>3, BeginStep, FetchStep, RecordStep, FinishStep
<1>4. CASE \E e \in Event : Ignore(e) \/ Defer(e) \/ Settle(e) \/ Answer(e)
  BY <1>4, IgnoreStep, DeferStep, SettleStep, AnswerStep
<1>5. CASE PollEnds
  BY <1>5, PollEndsStep
<1>6. CASE UNCHANGED vars
  BY <1>6, StutterIs
<1>7. QED
  BY <1>1, <1>2, <1>3, <1>4, <1>5, <1>6 DEF Next, Work

LEMMA Invariant == Spec => []IInv
<1>1. Init => IInv
  BY InitIs
<1>2. IInv /\ [Next]_vars => IInv'
  BY StepIs
<1>3. QED
  BY <1>1, <1>2, PTL DEF Spec

\* The state has the types it is declared with: the file never holds more ids than
\* saveBuzzInteractionState retains.
THEOREM TypeCorrect == Spec => []TypeOK
  BY Invariant, PTL DEF IInv

\* A mention that begins a conversation gets one reply, wherever a poll ends: Prism's reply in
\* the thread is looked for before the answer (buzzThreadHasDirectReplyFrom).
THEOREM MentionsAnsweredOnce == Spec => []MentionsOnce
  BY Invariant, PTL DEF IInv

\* No event is passed by: what the next poll does not read any more is through, whatever a
\* poll defers and wherever it ends, unless the read of its channel had no room for it, or it
\* came later than the overlap, less what a deferred event put the cursor ahead, makes up for.
THEOREM NothingPassedBy == Spec => []NeverPassedBy
  BY Invariant, PTL DEF IInv
=============================================================================
