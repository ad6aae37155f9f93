----------------------- MODULE ConversationTurnsProofs -----------------------
(***************************************************************************)
(* Theorems of ConversationTurns, for any number of conversations, turns,  *)
(* profiles, edits and faults, and every platform.  InLine says who may be *)
(* at work on a conversation, Replies what a turn has sent, and Sessions   *)
(* what the sessions, and the turns that read them, know of a thread and   *)
(* of the profile it was made under.                                       *)
(***************************************************************************)
EXTENDS ConversationTurns, SequenceTheorems, TLAPS

Acting == Busy \ {"looked"}
Begun == Busy \cup Over
Merging == {"telegram", "buzz"}

\* Who is at work on a conversation: the head of its queue, or the only turn of Buzz.
InLine ==
    /\ \A t \in async : pc[t] # "idle" /\ Of(t) = "discord"
    /\ \A t \in Turn :
          /\ Of(t) \in Queued /\ pc[t] \in Busy
          /\ t \notin async \/ pc[t] \in {"looked", "opened"}
          => queue[conv[t]] # <<>> /\ Head(queue[conv[t]]) = t
    /\ \A t, u \in Turn :
          Of(t) = "buzz" /\ Of(u) = "buzz" /\ pc[t] \in Busy /\ pc[u] \in Busy => t = u

\* A turn that has not come to its reply yet.
Silent(t) ==
    \/ pc[t] \in {"idle", "queued", "looked", "opened", "running", "send"}
    \/ pc[t] = "persist" /\ Of(t) # "buzz"
    \/ pc[t] = "record" /\ Of(t) = "external"

Replies ==
    \A t \in Turn :
        /\ answers[t] <= 1 /\ excuses[t] <= 1
        /\ Silent(t) => answers[t] = 0 /\ excuses[t] = 0
        /\ pc[t] = "excuse" => excuses[t] = 0
        /\ answers[t] = 1 /\ (excuses[t] = 1 \/ pc[t] = "excuse") => t \in cut /\ Of(t) = "discord"
        /\ Of(t) = "external" => pc[t] # "send"

Match(m) == m.cont # None => prof[m.cont] = m.prof

\* The turn u put profile p into the session of c, and the thread there need not be of p.
Spoilt(u, c, p) ==
    /\ conv[u] = c /\ prof[u] = p /\ pc[u] \in Acting \cup Over
    /\ u \notin saved \/ Blind(u)

\* A session names the thread of a turn that has begun.  Where it is replaced, or written when
\* the thread is known, what it says of the thread's profile is true; where it is merged, that
\* is true or a turn has spoilt it.
SoundAt(c) ==
    /\ session[c].cont # None => pc[session[c].cont] \in Begun
    /\ platform[c] \notin Merging => Match(session[c])
    /\ platform[c] = "external" /\ session[c].cont = None => session[c].prof = 0
    /\ platform[c] \in Merging /\ ~Match(session[c]) =>
          \E u \in Turn : Spoilt(u, c, session[c].prof)

\* So does a turn.  Before it opens the session it knows what is true there; afterwards it
\* continues the thread it saw, under the profile that thread was made under.
SoundOf(t) ==
    /\ seen[t].cont # None => pc[seen[t].cont] \in Begun
    /\ cont[t] # None => pc[cont[t]] \in Begun
    /\ pc[t] \in {"persist", "send"} => cont[t] # None
    /\ t \in saved => pc[t] \in Begun \ {"looked"}
    /\ t \in fresh => pc[t] \in Begun
    /\ pc[t] = "looked" /\ Of(t) \notin Merging => Match(seen[t])
    /\ pc[t] = "looked" /\ Of(t) = "external" =>
          prof[t] # 0 /\ (seen[t].cont = None => seen[t].prof = 0)
    /\ pc[t] = "looked" /\ Of(t) \in Merging =>
          seen[t] = IF t \in fresh THEN Blank ELSE session[conv[t]]
    /\ pc[t] \in Acting /\ cont[t] # None /\ prof[cont[t]] # prof[t] =>
          Of(t) \in Merging /\ (OpenedInVain(t) \/ Blind(t))
    /\ pc[t] \in Acting /\ Of(t) \in Merging /\ t \notin fresh /\ seen[t].prof = prof[t] =>
          session[conv[t]].cont \in {None, cont[t]}

Sessions ==
    /\ \A c \in Conversation : SoundAt(c)
    /\ \A t \in Turn : SoundOf(t)

IInv == TypeOK /\ InLine /\ Replies /\ Sessions
-----------------------------------------------------------------------------
(* Types.                                                                  *)

\* What is left of a queue when its first turn goes, and when one joins it.
LEMMA QueueLeft ==
    ASSUME NEW S, NEW s \in Seq(S), s # <<>>
    PROVE  Tail(s) \in Seq(S) /\ Head(s) \in S
BY HeadTailProperties

LEMMA QueueJoined ==
    ASSUME NEW S, NEW s \in Seq(S), NEW x \in S
    PROVE  /\ Append(s, x) \in Seq(S) /\ Append(s, x) # <<>>
           /\ s # <<>> => Head(Append(s, x)) = Head(s)
<1>1. /\ Append(s, x) \in Seq(S) /\ Len(Append(s, x)) = Len(s) + 1
      /\ \A i \in 1..Len(s) : Append(s, x)[i] = s[i]
  BY AppendProperties
<1>2. Append(s, x) # <<>>
  BY <1>1, EmptySeq, LenProperties
<1>3. ASSUME s # <<>> PROVE Head(Append(s, x)) = Head(s)
  <2>1. Len(s) \in Nat \ {0} /\ Head(s) = s[1]
    BY <1>3, HeadTailProperties, EmptySeq, LenProperties
  <2>2. Head(Append(s, x)) = Append(s, x)[1]
    BY <1>1, <1>2, HeadTailProperties
  <2>3. QED
    BY <1>1, <2>1, <2>2
<1>4. QED
  BY <1>1, <1>2, <1>3

\* A turn leaves a queue only from its head.
LEMMA LeaveStep ==
    ASSUME TypeOK, NEW t \in Turn, Leave(t)
    PROVE  /\ queue' \in [Conversation -> Seq(Turn)]
           /\ \A c \in Conversation :
                 queue[c] # <<>> /\ Head(queue[c]) # t => queue'[c] = queue[c]
<1>1. queue \in [Conversation -> Seq(Turn)] /\ conv[t] \in Conversation
  BY DEF TypeOK
<1> DEFINE q == queue[conv[t]]
           r == IF q # <<>> /\ Head(q) = t THEN Tail(q) ELSE q
<1>2. queue' = [queue EXCEPT ![conv[t]] = r]
  BY DEF Leave
<1>3. q \in Seq(Turn)
  BY <1>1
<1>4. r \in Seq(Turn)
  BY <1>3, QueueLeft
<1>5. q # <<>> /\ Head(q) # t => r = q
  OBVIOUS
<1> HIDE DEF r
<1>6. QED
  BY <1>1, <1>2, <1>4, <1>5

LEMMA InitTypes == Init => TypeOK
<1> SUFFICES ASSUME Init PROVE TypeOK
  OBVIOUS
<1>1. queue \in [Conversation -> Seq(Turn)]
  <2>1. <<>> \in Seq(Turn)
    BY EmptySeq
  <2>2. QED
    BY <2>1 DEF Init
<1>2. (CHOOSE c \in Conversation : TRUE) \in Conversation
  BY ConstantsAssumption
<1>3. Blank \in Meta /\ None \in Thread
  BY ConstantsAssumption DEF Blank, Meta, Thread, None
<1>4. profile \in 0..MaxProfile /\ 0 \in 0..MaxProfile /\ edits \in 0..MaxEdits /\ faults \in 0..MaxFaults
  BY ConstantsAssumption DEF Init
<1>5. QED
  BY <1>1, <1>2, <1>3, <1>4 DEF Init, TypeOK

\* What a turn puts into the session, and into its continuation, is of their types.
LEMMA MetaTypes ==
    ASSUME TypeOK, NEW t \in Turn
    PROVE  /\ Opened(t) \in Meta /\ Cleared(t) \in Meta /\ Result(t) \in Meta /\ Blank \in Meta
           /\ \A m \in Meta : Resumed(t, m.cont) \in Thread
           /\ t \in Thread /\ None \in Thread
<1>1. /\ session[conv[t]] \in Meta /\ seen[t] \in Meta
      /\ prof[t] \in 0..MaxProfile /\ cont[t] \in Thread
  BY DEF TypeOK
<1>2. None \in Thread /\ t \in Thread /\ 0 \in 0..MaxProfile
  BY ConstantsAssumption DEF Thread
<1>3. QED
  BY <1>1, <1>2 DEF Opened, Cleared, Result, Blank, Meta, Resumed

LEMMA TypeStep == ASSUME TypeOK, [Next]_vars PROVE TypeOK'
<1> USE ConstantsAssumption
<1>f. Fault => faults' \in 0..MaxFaults
  BY DEF TypeOK, Fault
<1>q. ASSUME NEW t \in Turn, Leave(t) \/ Stay PROVE queue' \in [Conversation -> Seq(Turn)]
  BY <1>q, LeaveStep DEF Stay, TypeOK
<1>p. ASSUME NEW t \in Turn, NEW l \in Busy \cup Over \cup {"queued"}, To(t, l)
      PROVE  pc' \in [Turn -> Busy \cup Over \cup {"idle", "queued"}]
  BY <1>p DEF To, TypeOK
<1>r. ASSUME NEW t \in Turn
      PROVE  /\ answers \in [Turn -> Nat] /\ [answers EXCEPT ![t] = @ + 1] \in [Turn -> Nat]
             /\ excuses \in [Turn -> Nat] /\ [excuses EXCEPT ![t] = @ + 1] \in [Turn -> Nat]
  <2>1. answers \in [Turn -> Nat] /\ excuses \in [Turn -> Nat]
    BY DEF TypeOK
  <2>2. answers[t] + 1 \in Nat /\ excuses[t] + 1 \in Nat
    BY <2>1
  <2>3. QED
    BY <2>1, <2>2
<1>1. ASSUME NEW t \in Turn, NEW c \in Conversation, NEW a \in BOOLEAN, Arrive(t, c, a) PROVE TypeOK'
  <2>1. Append(queue[c], t) \in Seq(Turn)
    BY QueueJoined DEF TypeOK
  <2>2. queue' \in [Conversation -> Seq(Turn)]
    BY <1>1, <2>1 DEF Arrive, TypeOK
  <2>3. pc' \in [Turn -> Busy \cup Over \cup {"idle", "queued"}]
    BY <1>1, <1>p DEF Arrive
  <2>4. QED
    BY <1>1, <2>2, <2>3 DEF Arrive, TypeOK, world, site
<1>2. ASSUME NEW t \in Turn, Refuse(t) PROVE TypeOK'
  <2>1. queue' \in [Conversation -> Seq(Turn)] /\ pc' \in [Turn -> Busy \cup Over \cup {"idle", "queued"}]
    BY <1>2, <1>p, <1>q DEF Refuse, Finish, Over
  <2>2. excuses' \in [Turn -> Nat]
    BY <1>2, <1>r DEF Refuse
  <2>3. QED
    BY <1>2, <2>1, <2>2 DEF Refuse, TypeOK, world, site, local
<1>3. ASSUME NEW t \in Turn, Lookup(t) PROVE TypeOK'
  <2>1. queue' = queue /\ pc' \in [Turn -> Busy \cup Over \cup {"idle", "queued"}]
    BY <1>3, <1>p DEF Lookup, Stay, Busy
  <2>2. session[conv[t]] \in Meta /\ Blank \in Meta
    BY MetaTypes DEF TypeOK
  <2>3. seen' \in [Turn -> Meta] /\ fresh' \in SUBSET Turn /\ faults' \in 0..MaxFaults
    BY <1>3, <1>f, <2>2 DEF Lookup, TypeOK
  <2>4. QED
    BY <1>3, <2>1, <2>3 DEF Lookup, TypeOK, world, site
<1>4. ASSUME NEW t \in Turn, Open(t) PROVE TypeOK'
  <2>1. queue' = queue /\ pc' \in [Turn -> Busy \cup Over \cup {"idle", "queued"}]
    BY <1>4, <1>p DEF Open, Stay, Busy
  <2>2. Opened(t) \in Meta /\ Resumed(t, Opened(t).cont) \in Thread
    BY MetaTypes
  <2>3. QED
    BY <1>4, <2>1, <2>2 DEF Open, TypeOK, world, local
<1>5. ASSUME NEW t \in Turn, OpenFails(t) PROVE TypeOK'
  <2>1. queue' \in [Conversation -> Seq(Turn)] /\ pc' \in [Turn -> Busy \cup Over \cup {"idle", "queued"}]
    BY <1>5, <1>p, <1>q DEF OpenFails, Finish, Over
  <2>2. Opened(t) \in Meta
    BY MetaTypes
  <2>3. session' \in [Conversation -> Meta]
    BY <1>5, <2>2 DEF OpenFails, TypeOK
  <2>4. QED
    BY <1>5, <1>f, <2>1, <2>3 DEF OpenFails, TypeOK, world, local
<1>6. ASSUME NEW t \in Turn, Invoke(t) PROVE TypeOK'
  <2>1. queue' \in [Conversation -> Seq(Turn)] /\ pc' \in [Turn -> Busy \cup Over \cup {"idle", "queued"}]
    BY <1>6, <1>p, <1>q DEF Invoke, Busy
  <2>2. QED
    BY <1>6, <2>1 DEF Invoke, TypeOK, world, site, local
<1>7. ASSUME NEW t \in Turn, RuntimeAnswers(t) PROVE TypeOK'
  <2>1. queue' = queue /\ pc' \in [Turn -> Busy \cup Over \cup {"idle", "queued"}]
    BY <1>7, <1>p DEF RuntimeAnswers, Stay, Busy
  <2>2. t \in Thread
    BY MetaTypes
  <2>3. QED
    BY <1>7, <2>1, <2>2 DEF RuntimeAnswers, TypeOK, world, site, local
<1>8. ASSUME NEW t \in Turn, RuntimeFails(t) PROVE TypeOK'
  <2>1. queue' \in [Conversation -> Seq(Turn)] /\ pc' \in [Turn -> Busy \cup Over \cup {"idle", "queued"}]
    BY <1>8, <1>p, <1>q DEF RuntimeFails, Finish, Over, Busy
  <2>2. QED
    BY <1>8, <2>1 DEF RuntimeFails, TypeOK, world, site, local
<1>9. ASSUME NEW t \in Turn, Overflow(t) PROVE TypeOK'
  <2>1. Cleared(t) \in Meta /\ None \in Thread
    BY MetaTypes
  <2>2. QED
    BY <1>9, <1>f, <2>1 DEF Overflow, Stay, TypeOK, world, local
<1>s. ASSUME NEW t \in Turn, Store(t) \/ UNCHANGED site
      PROVE  session' \in [Conversation -> Meta] /\ saved' \in SUBSET Turn
  <2>1. Result(t) \in Meta /\ session \in [Conversation -> Meta] /\ saved \in SUBSET Turn
    BY MetaTypes DEF TypeOK
  <2>2. CASE Store(t)
    BY <2>1, <2>2 DEF Store
  <2>3. CASE UNCHANGED site
    BY <2>1, <2>3 DEF site
  <2>4. QED
    BY <1>s, <2>2, <2>3
<1>10. ASSUME NEW t \in Turn, Persist(t) PROVE TypeOK'
  <2>1. queue' \in [Conversation -> Seq(Turn)] /\ pc' \in [Turn -> Busy \cup Over \cup {"idle", "queued"}]
    BY <1>10, <1>p, <1>q DEF Persist, AfterPersist, Finish, Over, Busy
  <2>2. QED
    BY <1>10, <1>s, <2>1 DEF Persist, TypeOK, world, local
<1>11. ASSUME NEW t \in Turn, PersistFails(t) PROVE TypeOK'
  <2>1. queue' \in [Conversation -> Seq(Turn)] /\ pc' \in [Turn -> Busy \cup Over \cup {"idle", "queued"}]
    BY <1>11, <1>p, <1>q DEF PersistFails, Finish, Over, Busy
  <2>2. QED
    BY <1>11, <1>f, <1>s, <2>1 DEF PersistFails, TypeOK, world, local
<1>12. ASSUME NEW t \in Turn, Send(t) PROVE TypeOK'
  <2>1. queue' = queue /\ pc' \in [Turn -> Busy \cup Over \cup {"idle", "queued"}]
    BY <1>12, <1>p DEF Send, Stay, Busy
  <2>2. answers' \in [Turn -> Nat]
    BY <1>12, <1>r DEF Send, Reply
  <2>3. QED
    BY <1>12, <2>1, <2>2 DEF Send, TypeOK, world, site, local
<1>13. ASSUME NEW t \in Turn, SendFails(t) PROVE TypeOK'
  <2>1. queue' \in [Conversation -> Seq(Turn)] /\ pc' \in [Turn -> Busy \cup Over \cup {"idle", "queued"}]
    BY <1>13, <1>p, <1>q DEF SendFails, Finish, Over, Busy
  <2>2. answers' \in [Turn -> Nat] /\ cut' \in SUBSET Turn
    BY <1>13, <1>r DEF SendFails, Reply, TypeOK
  <2>3. QED
    BY <1>13, <1>f, <2>1, <2>2 DEF SendFails, TypeOK, world, site, local
<1>14. ASSUME NEW t \in Turn, Record(t) PROVE TypeOK'
  <2>1. queue' \in [Conversation -> Seq(Turn)] /\ pc' \in [Turn -> Busy \cup Over \cup {"idle", "queued"}]
    BY <1>14, <1>p, <1>q DEF Record, Finish, Over
  <2>2. answers' \in [Turn -> Nat]
    BY <1>14, <1>r DEF Record
  <2>3. faults' \in 0..MaxFaults
    BY <1>14, <1>f DEF Record, TypeOK
  <2>4. QED
    BY <1>14, <2>1, <2>2, <2>3 DEF Record, TypeOK, world, site, local
<1>15. ASSUME NEW t \in Turn, Excuse(t) PROVE TypeOK'
  <2>1. queue' \in [Conversation -> Seq(Turn)] /\ pc' \in [Turn -> Busy \cup Over \cup {"idle", "queued"}]
    BY <1>15, <1>p, <1>q DEF Excuse, Finish, Over
  <2>2. excuses' \in [Turn -> Nat]
    BY <1>15, <1>r DEF Excuse, Reply
  <2>3. QED
    BY <1>15, <2>1, <2>2 DEF Excuse, TypeOK, world, site, local
<1>a. AllLost => /\ queue' \in [Conversation -> Seq(Turn)]
                 /\ pc' \in [Turn -> Busy \cup Over \cup {"idle", "queued"}]
  <2>1. <<>> \in Seq(Turn)
    BY EmptySeq
  <2>2. QED
    BY <2>1 DEF AllLost, TypeOK, Over
<1>16. ASSUME NEW t \in Turn, ExcuseFails(t) PROVE TypeOK'
  <2>1. queue' \in [Conversation -> Seq(Turn)] /\ pc' \in [Turn -> Busy \cup Over \cup {"idle", "queued"}]
    BY <1>16, <1>a, <1>p, <1>q DEF ExcuseFails, Finish, Over
  <2>2. excuses' \in [Turn -> Nat]
    BY <1>16, <1>r DEF ExcuseFails, Reply
  <2>3. QED
    BY <1>16, <1>f, <2>1, <2>2 DEF ExcuseFails, TypeOK, world, site, local
<1>17. ASSUME Crash PROVE TypeOK'
  BY <1>17, <1>a, <1>f DEF Crash, TypeOK, world, site, local
<1>18. ASSUME NEW p \in 0..MaxProfile, Edit(p) PROVE TypeOK'
  BY <1>18 DEF Edit, TypeOK, site, local
<1>19. CASE UNCHANGED vars
  BY <1>19 DEF vars, TypeOK
<1>20. QED
  BY <1>1, <1>2, <1>3, <1>4, <1>5, <1>6, <1>7, <1>8, <1>9, <1>10, <1>11, <1>12, <1>13,
     <1>14, <1>15, <1>16, <1>17, <1>18, <1>19 DEF Next, Step

-----------------------------------------------------------------------------
(* Turns take each other's place.                                          *)

\* A turn that goes on keeps its place, or gives it up with its work or in the background.
LEMMA LineMove ==
    ASSUME TypeOK, InLine, UNCHANGED <<platform, conv, async>>,
           NEW t \in Turn, NEW l \in Busy \cup Over, To(t, l), pc[t] # "idle",
           l \in Busy => pc[t] \in Busy /\ l # "looked",
           l = "opened" => pc[t] = "looked",
           \/ Stay
           \/ Leave(t) /\ (l \in Over \/ (t \in async /\ l = "running"))
    PROVE  InLine'
<1>1. /\ pc'[t] = l /\ \A u \in Turn : u # t => pc'[u] = pc[u]
      /\ \A u \in Turn : Of(u)' = Of(u) /\ conv[u] \in Conversation
      /\ Busy \cap Over = {} /\ "idle" \notin Busy \cup Over
  BY DEF To, TypeOK, Of, Busy, Over
<1>2. \A u \in async' : pc'[u] # "idle" /\ Of(u)' = "discord"
  BY <1>1 DEF InLine, TypeOK
<1>3. ASSUME NEW u \in Turn, Of(u)' \in Queued, pc'[u] \in Busy,
             u \notin async \/ pc'[u] \in {"looked", "opened"}
      PROVE  queue'[conv[u]] # <<>> /\ Head(queue'[conv[u]]) = u
  <2>1. pc[u] \in Busy /\ (u \notin async \/ pc[u] \in {"looked", "opened"})
    BY <1>1, <1>3
  <2>2. queue[conv[u]] # <<>> /\ Head(queue[conv[u]]) = u
    BY <1>1, <1>3, <2>1 DEF InLine
  <2>3. CASE Stay
    BY <2>2, <2>3 DEF Stay
  <2>4. CASE Leave(t) /\ (l \in Over \/ (t \in async /\ l = "running"))
    <3>1. u # t
      BY <1>1, <1>3, <2>4
    <3>2. QED
      BY <1>1, <2>2, <2>4, <3>1, LeaveStep
  <2>5. QED
    BY <2>3, <2>4
<1>4. \A u, v \in Turn :
        Of(u)' = "buzz" /\ Of(v)' = "buzz" /\ pc'[u] \in Busy /\ pc'[v] \in Busy => u = v
  BY <1>1 DEF InLine
<1>5. QED
  BY <1>2, <1>3, <1>4 DEF InLine

LEMMA LineStep == ASSUME TypeOK, InLine, [Next]_vars PROVE InLine'
<1>l. /\ "done" \in Over /\ "done" \notin Busy /\ "lost" \notin Busy
      /\ Busy = {"looked", "opened", "running", "persist", "send", "record", "excuse"}
  BY DEF Over, Busy
<1>a. ASSUME AllLost, UNCHANGED <<platform, conv, async>> PROVE InLine'
  <2>1. \A t \in Turn : pc'[t] \notin Busy /\ (pc[t] # "idle" => pc'[t] # "idle")
    BY <1>a DEF AllLost, TypeOK, Busy
  <2>2. QED
    BY <1>a, <2>1 DEF InLine, Of, TypeOK
<1>1. ASSUME NEW t \in Turn, NEW c \in Conversation, NEW a \in BOOLEAN, Arrive(t, c, a) PROVE InLine'
  <2>1. /\ pc[t] = "idle" /\ pc'[t] = "queued" /\ conv'[t] = c
        /\ \A u \in Turn : u # t => pc'[u] = pc[u] /\ conv'[u] = conv[u]
        /\ \A u \in Turn : conv[u] \in Conversation
        /\ platform' = platform /\ (a => platform[c] = "discord")
    BY <1>1 DEF Arrive, To, TypeOK, world
  <2>2. async' = async \/ (a /\ async' = async \cup {t})
    BY <1>1 DEF Arrive
  <2>3. t \notin async
    BY <2>1 DEF InLine
  <2>4. \A u \in async' : pc'[u] # "idle" /\ Of(u)' = "discord"
    <3>1. \A u \in async : u \in Turn /\ u # t /\ pc[u] # "idle" /\ Of(u) = "discord"
      BY <2>3 DEF InLine, TypeOK
    <3>2. QED
      BY <2>1, <2>2, <3>1 DEF Of
  <2>5. \A d \in Conversation : queue[d] # <<>> => queue'[d] # <<>> /\ Head(queue'[d]) = Head(queue[d])
    <3>1. queue \in [Conversation -> Seq(Turn)]
      BY DEF TypeOK
    <3>2. /\ Append(queue[c], t) # <<>>
          /\ queue[c] # <<>> => Head(Append(queue[c], t)) = Head(queue[c])
      BY <3>1, QueueJoined
    <3>3. queue' = queue \/ queue' = [queue EXCEPT ![c] = Append(queue[c], t)]
      BY <1>1 DEF Arrive
    <3>4. QED
      BY <3>1, <3>2, <3>3
  <2>6. ASSUME NEW u \in Turn, Of(u)' \in Queued, pc'[u] \in Busy,
               u \notin async' \/ pc'[u] \in {"looked", "opened"}
        PROVE  queue'[conv'[u]] # <<>> /\ Head(queue'[conv'[u]]) = u
    <3>1. u # t
      BY <2>1, <2>6, <1>l
    <3>2. Of(u) \in Queued /\ pc[u] \in Busy /\ (u \notin async \/ pc[u] \in {"looked", "opened"})
      BY <2>1, <2>2, <2>6, <3>1 DEF Of
    <3>3. QED
      BY <2>1, <2>5, <3>1, <3>2 DEF InLine
  <2>7. \A u, v \in Turn :
          Of(u)' = "buzz" /\ Of(v)' = "buzz" /\ pc'[u] \in Busy /\ pc'[v] \in Busy => u = v
    BY <2>1, <1>l DEF InLine, Of
  <2>8. QED
    BY <2>4, <2>6, <2>7 DEF InLine
<1>2. ASSUME NEW t \in Turn, Refuse(t) PROVE InLine'
  BY <1>2, <1>l, LineMove DEF Refuse, Finish, world, local
<1>3. ASSUME NEW t \in Turn, Lookup(t) PROVE InLine'
  <2>1. /\ pc[t] = "queued" /\ pc'[t] = "looked" /\ FirstInLine(t)
        /\ \A u \in Turn : u # t => pc'[u] = pc[u]
        /\ UNCHANGED <<platform, conv, async, queue>>
    BY <1>3 DEF Lookup, To, TypeOK, world, Stay
  <2>2. \A u \in Turn : Of(u)' = Of(u)
    BY <2>1 DEF Of
  <2>3. \A u \in async' : pc'[u] # "idle" /\ Of(u)' = "discord"
    BY <2>1, <2>2 DEF InLine, TypeOK
  <2>4. /\ Of(t) \in Queued => queue[conv[t]] # <<>> /\ Head(queue[conv[t]]) = t
        /\ Of(t) = "buzz" => \A u \in Turn : Of(u) = "buzz" => pc[u] \notin Busy
    BY <2>1 DEF FirstInLine, Queued
  <2>5. ASSUME NEW u \in Turn, Of(u)' \in Queued, pc'[u] \in Busy,
               u \notin async' \/ pc'[u] \in {"looked", "opened"}
        PROVE  queue'[conv'[u]] # <<>> /\ Head(queue'[conv'[u]]) = u
    BY <2>1, <2>2, <2>4, <2>5 DEF InLine
  <2>6. \A u, v \in Turn :
          Of(u)' = "buzz" /\ Of(v)' = "buzz" /\ pc'[u] \in Busy /\ pc'[v] \in Busy => u = v
    BY <2>1, <2>2, <2>4 DEF InLine
  <2>7. QED
    BY <2>3, <2>5, <2>6 DEF InLine
<1>4. ASSUME NEW t \in Turn, Open(t) PROVE InLine'
  BY <1>4, <1>l, LineMove DEF Open, world, local
<1>5. ASSUME NEW t \in Turn, OpenFails(t) PROVE InLine'
  BY <1>5, <1>l, LineMove DEF OpenFails, Finish, world, local
<1>6. ASSUME NEW t \in Turn, Invoke(t) PROVE InLine'
  BY <1>6, <1>l, LineMove DEF Invoke, world, local
<1>7. ASSUME NEW t \in Turn, RuntimeAnswers(t) PROVE InLine'
  BY <1>7, <1>l, LineMove DEF RuntimeAnswers, world, local
<1>8. ASSUME NEW t \in Turn, RuntimeFails(t) PROVE InLine'
  BY <1>8, <1>l, LineMove DEF RuntimeFails, Finish, world, local
<1>9. ASSUME NEW t \in Turn, Overflow(t) PROVE InLine'
  BY <1>9 DEF Overflow, InLine, Of, world, local, Stay
<1>10. ASSUME NEW t \in Turn, Persist(t) PROVE InLine'
  BY <1>10, <1>l, LineMove DEF Persist, AfterPersist, Finish, world, local
<1>11. ASSUME NEW t \in Turn, PersistFails(t) PROVE InLine'
  BY <1>11, <1>l, LineMove DEF PersistFails, Finish, world, local
<1>12. ASSUME NEW t \in Turn, Send(t) PROVE InLine'
  BY <1>12, <1>l, LineMove DEF Send, world, local
<1>13. ASSUME NEW t \in Turn, SendFails(t) PROVE InLine'
  BY <1>13, <1>l, LineMove DEF SendFails, Finish, world, local
<1>14. ASSUME NEW t \in Turn, Record(t) PROVE InLine'
  BY <1>14, <1>l, LineMove DEF Record, Finish, world, local
<1>15. ASSUME NEW t \in Turn, Excuse(t) PROVE InLine'
  BY <1>15, <1>l, LineMove DEF Excuse, Finish, world, local
<1>16. ASSUME NEW t \in Turn, ExcuseFails(t) PROVE InLine'
  BY <1>16, <1>a, <1>l, LineMove DEF ExcuseFails, Finish, world, local
<1>17. ASSUME Crash PROVE InLine'
  BY <1>17, <1>a DEF Crash, world, local
<1>18. ASSUME NEW p \in 0..MaxProfile, Edit(p) PROVE InLine'
  BY <1>18 DEF Edit, InLine, Of, local
<1>19. CASE UNCHANGED vars
  BY <1>19 DEF vars, InLine, Of
<1>20. QED
  BY <1>1, <1>2, <1>3, <1>4, <1>5, <1>6, <1>7, <1>8, <1>9, <1>10, <1>11, <1>12, <1>13,
     <1>14, <1>15, <1>16, <1>17, <1>18, <1>19 DEF Next, Step

\* Nobody else is at work on a conversation whose session is merged.
LEMMA Alone ==
    ASSUME InLine, NEW t \in Turn, NEW u \in Turn, conv[t] = conv[u], Of(t) \in Merging,
           pc[t] \in Busy, pc[u] \in Busy
    PROVE  t = u
<1>1. Of(u) = Of(t)
  BY DEF Of
<1>2. t \notin async /\ u \notin async
  BY <1>1 DEF InLine, Merging
<1>3. QED
  BY <1>1, <1>2 DEF InLine, Merging, Queued

-----------------------------------------------------------------------------
(* Replies.                                                                *)

\* A turn sends nothing, sends its reply while it is silent, or its excuse in the end.
LEMMA ReplyMove ==
    ASSUME TypeOK, Replies, UNCHANGED <<platform, conv>>, cut \subseteq cut', NEW t \in Turn,
           \A u \in Turn \ {t} :
              pc'[u] = pc[u] /\ answers'[u] = answers[u] /\ excuses'[u] = excuses[u],
           Of(t) = "external" => pc'[t] # "send",
           \/ /\ answers'[t] = answers[t] /\ excuses'[t] = excuses[t]
              /\ (Silent(t)' \/ pc'[t] = "excuse") => Silent(t)
           \/ /\ Silent(t) /\ ~Silent(t)'
              /\ answers'[t] = answers[t] + 1 /\ excuses'[t] = excuses[t]
              /\ pc'[t] = "excuse" => t \in cut' /\ Of(t) = "discord"
           \/ /\ pc[t] = "queued" \/ pc[t] = "excuse"
              /\ pc'[t] = "done"
              /\ excuses'[t] = excuses[t] + 1 /\ answers'[t] = answers[t]
    PROVE  Replies'
<1>1. \A u \in Turn : Of(u)' = Of(u) /\ answers[u] \in Nat /\ excuses[u] \in Nat
  BY DEF Of, TypeOK
<1>2. \A u \in Turn \ {t} : Silent(u)' => Silent(u)
  BY <1>1 DEF Silent
<1>3. ASSUME NEW u \in Turn
      PROVE  /\ answers'[u] <= 1 /\ excuses'[u] <= 1
             /\ Silent(u)' => answers'[u] = 0 /\ excuses'[u] = 0
             /\ pc'[u] = "excuse" => excuses'[u] = 0
             /\ answers'[u] = 1 /\ (excuses'[u] = 1 \/ pc'[u] = "excuse")
                   => u \in cut' /\ Of(u)' = "discord"
             /\ Of(u)' = "external" => pc'[u] # "send"
  <2>1. CASE u # t
    BY <1>1, <1>2, <2>1 DEF Replies
  <2>2. CASE u = t /\ pc'[t] = "done"
    BY <1>1, <2>2 DEF Replies, Silent
  <2>3. CASE u = t /\ pc'[t] # "done"
    BY <1>1, <2>3 DEF Replies
  <2>4. QED
    BY <2>1, <2>2, <2>3
<1>4. QED
  BY <1>3 DEF Replies

LEMMA RepliesStep == ASSUME TypeOK, InLine, Replies, [Next]_vars PROVE Replies'
<1>t. ASSUME NEW t \in Turn, NEW l, To(t, l)
      PROVE  pc'[t] = l /\ \A u \in Turn \ {t} : pc'[u] = pc[u]
  BY <1>t DEF To, TypeOK
<1>r. ASSUME NEW t \in Turn
      PROVE  /\ Reply(t, answers) => /\ answers'[t] = answers[t] + 1
                                     /\ \A u \in Turn \ {t} : answers'[u] = answers[u]
             /\ Reply(t, excuses) => /\ excuses'[t] = excuses[t] + 1
                                     /\ \A u \in Turn \ {t} : excuses'[u] = excuses[u]
  BY <1>r DEF Reply, TypeOK
<1>a. ASSUME AllLost, UNCHANGED <<platform, conv, answers, cut>>,
             excuses' = excuses \/ \E t \in Turn : pc[t] = "excuse" /\ Reply(t, excuses)
      PROVE  Replies'
  <2>1. \A t \in Turn : pc'[t] = pc[t] \/ pc'[t] = "lost"
    BY <1>a DEF AllLost, TypeOK
  <2>2. \A t \in Turn : (Silent(t)' => Silent(t)) /\ (pc'[t] = "excuse" => pc[t] = "excuse") /\ Of(t)' = Of(t)
    BY <1>a, <2>1 DEF Silent, Of
  <2>3. CASE excuses' = excuses
    BY <1>a, <2>1, <2>2, <2>3 DEF Replies
  <2>4. ASSUME NEW t \in Turn, pc[t] = "excuse", Reply(t, excuses) PROVE Replies'
    <3>1. /\ excuses'[t] = excuses[t] + 1 /\ excuses[t] = 0
          /\ \A u \in Turn \ {t} : excuses'[u] = excuses[u]
      BY <1>r, <2>4 DEF Replies
    <3>2. pc'[t] = "lost"
      BY <1>a, <2>4 DEF AllLost, TypeOK, Busy
    <3>3. ASSUME NEW u \in Turn
          PROVE  /\ answers'[u] <= 1 /\ excuses'[u] <= 1
                 /\ Silent(u)' => answers'[u] = 0 /\ excuses'[u] = 0
                 /\ pc'[u] = "excuse" => excuses'[u] = 0
                 /\ answers'[u] = 1 /\ (excuses'[u] = 1 \/ pc'[u] = "excuse")
                       => u \in cut' /\ Of(u)' = "discord"
                 /\ Of(u)' = "external" => pc'[u] # "send"
      <4>1. CASE u = t
        BY <1>a, <2>2, <2>4, <3>1, <3>2, <4>1 DEF Replies, Silent
      <4>2. CASE u # t
        BY <1>a, <2>1, <2>2, <3>1, <4>2 DEF Replies
      <4>3. QED
        BY <4>1, <4>2
    <3>4. QED
      BY <3>3 DEF Replies
  <2>5. QED
    BY <1>a, <2>3, <2>4
<1>1. ASSUME NEW t \in Turn, NEW c \in Conversation, NEW a \in BOOLEAN, Arrive(t, c, a) PROVE Replies'
  <2>1. /\ pc[t] = "idle" /\ pc'[t] = "queued"
        /\ \A u \in Turn \ {t} : pc'[u] = pc[u] /\ conv'[u] = conv[u]
        /\ UNCHANGED <<platform, answers, excuses, cut>>
    BY <1>1, <1>t DEF Arrive, TypeOK, world
  <2>2. Silent(t) /\ \A u \in Turn \ {t} : (Silent(u)' <=> Silent(u)) /\ Of(u)' = Of(u)
    BY <2>1 DEF Silent, Of
  <2>3. QED
    BY <2>1, <2>2 DEF Replies
<1>2. ASSUME NEW t \in Turn, Refuse(t) PROVE Replies'
  <2>1. /\ pc[t] = "queued" /\ pc'[t] = "done" /\ \A u \in Turn \ {t} : pc'[u] = pc[u]
        /\ UNCHANGED <<platform, conv, answers, cut>>
    BY <1>2, <1>t DEF Refuse, Finish, world, local
  <2>2. excuses' = excuses \/ Reply(t, excuses)
    BY <1>2 DEF Refuse, Reply
  <2>3. Silent(t) /\ ~Silent(t)'
    BY <2>1 DEF Silent
  <2>4. QED
    BY <1>r, <2>1, <2>2, <2>3, ReplyMove
\* A turn that sends nothing and falls silent no more than it was.
<1>m. ASSUME NEW t \in Turn, NEW l, To(t, l), UNCHANGED <<platform, conv, answers, excuses, cut>>,
             Of(t) = "external" => l # "send",
             (Silent(t)' \/ l = "excuse") => Silent(t)
      PROVE  Replies'
  BY <1>m, <1>t, ReplyMove
<1>d. ASSUME NEW t \in Turn, To(t, "done"), UNCHANGED <<platform, conv, answers, excuses, cut>>
      PROVE  Replies'
  <2>1. ~Silent(t)'
    BY <1>d, <1>t DEF Silent
  <2>2. QED
    BY <1>d, <1>m, <2>1
<1>3. ASSUME NEW t \in Turn, Lookup(t) PROVE Replies'
  BY <1>3, <1>m DEF Lookup, Silent, world
<1>4. ASSUME NEW t \in Turn, Open(t) PROVE Replies'
  BY <1>4, <1>m DEF Open, Silent, world, local
<1>5. ASSUME NEW t \in Turn, OpenFails(t) PROVE Replies'
  BY <1>5, <1>d DEF OpenFails, Finish, world, local
<1>6. ASSUME NEW t \in Turn, Invoke(t) PROVE Replies'
  BY <1>6, <1>m DEF Invoke, Silent, world, local
<1>7. ASSUME NEW t \in Turn, RuntimeAnswers(t) PROVE Replies'
  <2>1. Silent(t)
    BY <1>7 DEF RuntimeAnswers, Silent
  <2>2. QED
    BY <1>7, <1>m, <2>1 DEF RuntimeAnswers, world, local
<1>8. ASSUME NEW t \in Turn, RuntimeFails(t) PROVE Replies'
  <2>1. Silent(t)
    BY <1>8 DEF RuntimeFails, Silent
  <2>2. QED
    BY <1>8, <1>d, <1>m, <2>1 DEF RuntimeFails, Finish, world, local
<1>9. ASSUME NEW t \in Turn, Overflow(t) PROVE Replies'
  BY <1>9 DEF Overflow, Replies, Silent, Of, world, local
<1>10. ASSUME NEW t \in Turn, Persist(t) PROVE Replies'
  <2>1. /\ pc[t] = "persist" /\ To(t, AfterPersist(t)) /\ UNCHANGED <<platform, conv, answers, excuses, cut>>
    BY <1>10 DEF Persist, Finish, world, local
  <2>2. pc'[t] = AfterPersist(t) /\ Of(t)' = Of(t)
    BY <1>t, <2>1 DEF Of
  <2>3. Silent(t)' => Silent(t)
    BY <2>1, <2>2 DEF Silent, AfterPersist
  <2>4. QED
    BY <1>m, <2>1, <2>3 DEF AfterPersist
<1>11. ASSUME NEW t \in Turn, PersistFails(t) PROVE Replies'
  <2>1. CASE Of(t) = "discord"
    <3>1. /\ pc[t] = "persist" /\ To(t, "excuse") /\ UNCHANGED <<platform, conv, answers, excuses, cut>>
      BY <1>11, <2>1 DEF PersistFails, world, local
    <3>2. Silent(t)
      BY <2>1, <3>1 DEF Silent
    <3>3. QED
      BY <1>m, <3>1, <3>2
  <2>2. CASE Of(t) # "discord"
    BY <1>11, <1>d, <2>2 DEF PersistFails, Finish, world, local
  <2>3. QED
    BY <2>1, <2>2
<1>12. ASSUME NEW t \in Turn, Send(t) PROVE Replies'
  <2>1. /\ pc[t] = "send" /\ UNCHANGED <<platform, conv, excuses, cut>> /\ Reply(t, answers)
        /\ To(t, IF Of(t) = "buzz" THEN "persist" ELSE "record")
    BY <1>12 DEF Send, world, local
  <2>2. Of(t) # "external" /\ Of(t)' = Of(t)
    BY <2>1 DEF Replies, Of
  <2>3. /\ pc'[t] = (IF Of(t) = "buzz" THEN "persist" ELSE "record")
        /\ \A u \in Turn \ {t} : pc'[u] = pc[u]
    BY <1>t, <2>1
  <2>4. Silent(t) /\ ~Silent(t)'
    BY <2>1, <2>2, <2>3 DEF Silent
  <2>5. QED
    BY <1>r, <2>1, <2>2, <2>3, <2>4, ReplyMove
<1>13. ASSUME NEW t \in Turn, SendFails(t) PROVE Replies'
  <2>1. Silent(t)
    BY <1>13 DEF SendFails, Silent
  <2>2. CASE UNCHANGED <<answers, cut>>
    BY <1>13, <1>d, <1>m, <2>1, <2>2 DEF SendFails, Finish, world, local
  <2>3. CASE Reply(t, answers) /\ cut' = cut \cup {t}
    <3>1. pc[t] = "send" /\ UNCHANGED <<platform, conv, excuses>>
      BY <1>13 DEF SendFails, world, local
    <3>2. To(t, IF Of(t) = "discord" THEN "excuse" ELSE "done")
      BY <1>13 DEF SendFails, Finish
    <3>3. /\ pc'[t] = (IF Of(t) = "discord" THEN "excuse" ELSE "done")
          /\ \A u \in Turn \ {t} : pc'[u] = pc[u]
      BY <1>t, <3>2
    <3>4. ~Silent(t)' /\ pc'[t] # "send"
      BY <3>3 DEF Silent
    <3>5. QED
      BY <1>r, <2>1, <2>3, <3>1, <3>3, <3>4, ReplyMove
  <2>4. QED
    BY <1>13, <2>2, <2>3 DEF SendFails
<1>14. ASSUME NEW t \in Turn, Record(t) PROVE Replies'
  <2>1. /\ pc[t] = "record" /\ To(t, "done") /\ UNCHANGED <<platform, conv, excuses, cut>>
        /\ answers' = answers \/ (Of(t) = "external" /\ Reply(t, answers))
    BY <1>14 DEF Record, Finish, Reply, world, local
  <2>2. CASE answers' = answers
    BY <1>d, <2>1, <2>2
  <2>3. CASE Of(t) = "external" /\ Reply(t, answers)
    <3>1. pc'[t] = "done" /\ \A u \in Turn \ {t} : pc'[u] = pc[u]
      BY <1>t, <2>1
    <3>2. Silent(t) /\ ~Silent(t)'
      BY <2>1, <2>3, <3>1 DEF Silent
    <3>3. QED
      BY <1>r, <2>1, <2>3, <3>1, <3>2, ReplyMove
  <2>4. QED
    BY <2>1, <2>2, <2>3
<1>15. ASSUME NEW t \in Turn, Excuse(t) PROVE Replies'
  <2>1. /\ pc[t] = "excuse" /\ To(t, "done") /\ UNCHANGED <<platform, conv, answers, cut>>
        /\ Reply(t, excuses)
    BY <1>15 DEF Excuse, Finish, world, local
  <2>2. pc'[t] = "done" /\ \A u \in Turn \ {t} : pc'[u] = pc[u]
    BY <1>t, <2>1
  <2>3. QED
    BY <1>r, <2>1, <2>2, ReplyMove
<1>16. ASSUME NEW t \in Turn, ExcuseFails(t) PROVE Replies'
  <2>1. pc[t] = "excuse" /\ UNCHANGED <<platform, conv, answers, cut>>
    BY <1>16 DEF ExcuseFails, world, local
  <2>2. CASE t \in async
    BY <1>16, <1>a, <2>1, <2>2 DEF ExcuseFails
  <2>3. CASE t \notin async
    <3>1. To(t, "done") /\ (excuses' = excuses \/ Reply(t, excuses))
      BY <1>16, <2>3 DEF ExcuseFails, Finish
    <3>2. pc'[t] = "done" /\ \A u \in Turn \ {t} : pc'[u] = pc[u]
      BY <1>t, <3>1
    <3>3. CASE excuses' = excuses
      BY <1>d, <2>1, <3>1, <3>3
    <3>4. CASE Reply(t, excuses)
      BY <1>r, <2>1, <3>2, <3>4, ReplyMove
    <3>5. QED
      BY <3>1, <3>3, <3>4
  <2>4. QED
    BY <2>2, <2>3
<1>17. ASSUME Crash PROVE Replies'
  BY <1>17, <1>a DEF Crash, world, local
<1>18. ASSUME NEW p \in 0..MaxProfile, Edit(p) PROVE Replies'
  BY <1>18 DEF Edit, Replies, Silent, Of, local
<1>19. CASE UNCHANGED vars
  BY <1>19 DEF vars, Replies, Silent, Of
<1>20. QED
  BY <1>1, <1>2, <1>3, <1>4, <1>5, <1>6, <1>7, <1>8, <1>9, <1>10, <1>11, <1>12, <1>13,
     <1>14, <1>15, <1>16, <1>17, <1>18, <1>19 DEF Next, Step

-----------------------------------------------------------------------------
(* Sessions.                                                               *)

\* What every lemma below needs to know of the labels and of the types.
LEMMA Labels ==
    ASSUME TypeOK
    PROVE  /\ Acting = {"opened", "running", "persist", "send", "record", "excuse"}
           /\ Busy = Acting \cup {"looked"} /\ Begun = Busy \cup Over /\ Over = {"done", "lost"}
           /\ \A t \in Turn : conv[t] \in Conversation /\ t # None
           /\ \A c \in Conversation : session[c].cont \in Turn \cup {None}
           /\ \A t \in Turn : seen[t].cont \in Turn \cup {None} /\ cont[t] \in Turn \cup {None}
<1>1. \A m \in Meta : m.cont \in Turn \cup {None}
  BY DEF Meta, Thread
<1>2. \A t \in Turn : t # None
  BY DEF Turn, None
<1>3. \A t \in Turn : conv[t] \in Conversation /\ seen[t] \in Meta /\ cont[t] \in Turn \cup {None}
  BY DEF TypeOK, Thread
<1>4. \A c \in Conversation : session[c] \in Meta
  BY DEF TypeOK
<1>5. QED
  BY <1>1, <1>2, <1>3, <1>4 DEF Acting, Busy, Begun, Over

\* Turns that go on or end, and touch no session, profile or thread.
LEMMA QuietMove ==
    ASSUME TypeOK, Sessions,
           UNCHANGED <<platform, session, saved, conv, prof, seen, cont, fresh>>,
           \A u \in Turn :
              \/ pc'[u] = pc[u]
              \/ pc[u] # "idle" /\ pc'[u] \in Over
              \/ /\ pc[u] \in Acting /\ pc'[u] \in Acting
                 /\ pc'[u] \in {"persist", "send"} => cont[u] # None
    PROVE  Sessions'
<1> USE DEF Sessions
<1>l. /\ Acting = {"opened", "running", "persist", "send", "record", "excuse"}
      /\ Busy = Acting \cup {"looked"} /\ Begun = Busy \cup Over /\ Over = {"done", "lost"}
  BY Labels
<1>k. /\ \A c \in Conversation : session[c].cont \in Turn \cup {None}
      /\ \A u \in Turn : seen[u].cont \in Turn \cup {None} /\ cont[u] \in Turn \cup {None}
      /\ saved \subseteq Turn /\ fresh \subseteq Turn
  BY Labels DEF TypeOK
<1>1. \A u \in Turn :
        /\ pc[u] \in Begun => pc'[u] \in Begun
        /\ pc[u] \in Begun \ {"looked"} => pc'[u] \in Begun \ {"looked"}
        /\ pc'[u] = "looked" => pc[u] = "looked"
        /\ pc'[u] \in Acting => pc[u] \in Acting
        /\ pc[u] \in Acting \cup Over => pc'[u] \in Acting \cup Over
        /\ pc[u] \in Over => pc'[u] \in Over
        /\ pc'[u] \in {"persist", "send"} => pc[u] \in {"persist", "send"} \/ cont[u] # None
        /\ Of(u)' = Of(u) /\ (Blind(u)' <=> Blind(u))
  BY <1>l DEF Of, Blind
<1>2. \A u \in Turn, c \in Conversation :
        Spoilt(u, c, session[c].prof) => Spoilt(u, c, session[c].prof)'
  BY <1>1 DEF Spoilt
<1>3. \A u \in Turn : OpenedInVain(u) => OpenedInVain(u)'
  BY <1>1 DEF OpenedInVain
<1>4. ASSUME NEW c \in Conversation PROVE SoundAt(c)'
  <2>1. Match(session[c])' <=> Match(session[c])
    BY DEF Match
  <2>2. QED
    BY <1>1, <1>k, <1>2, <2>1 DEF SoundAt
<1>5. ASSUME NEW u \in Turn PROVE SoundOf(u)'
  BY <1>1, <1>k, <1>3 DEF SoundOf, Match
<1>6. QED
  BY <1>4, <1>5

\* One turn moves, and what it leaves behind in the session is sound, as is what it knows:
\* then nobody else is disturbed.
LEMMA TurnMove ==
    ASSUME TypeOK, InLine, Sessions, NEW t \in Turn, UNCHANGED platform,
           \A u \in Turn \ {t} :
              /\ pc'[u] = pc[u] /\ conv'[u] = conv[u] /\ prof'[u] = prof[u]
              /\ seen'[u] = seen[u] /\ cont'[u] = cont[u]
              /\ (u \in saved' <=> u \in saved) /\ (u \in fresh' <=> u \in fresh),
           pc[t] \in Begun => /\ pc'[t] \in Begun /\ conv'[t] = conv[t] /\ prof'[t] = prof[t]
                              /\ t \in fresh => t \in fresh',
           pc[t] \in Acting \cup Over => pc'[t] \in Acting \cup Over,
           pc[t] \notin Over,
           \A c \in Conversation : session'[c] # session[c] \/ (t \in saved' /\ t \notin saved) =>
              pc[t] \in Busy,
           \A c \in Conversation \ {conv[t]} : session'[c] = session[c],
           \A c \in Conversation : c = conv[t] =>
              \/ session'[c] = session[c] /\ (t \in saved' <=> t \in saved)
              \/ SoundAt(c)',
           SoundOf(t)'
    PROVE  Sessions'
<1> USE DEF Sessions
<1>l. /\ Acting = {"opened", "running", "persist", "send", "record", "excuse"}
      /\ Busy = Acting \cup {"looked"} /\ Begun = Busy \cup Over /\ Over = {"done", "lost"}
  BY Labels
<1>k. /\ \A c \in Conversation : session[c].cont \in Turn \cup {None}
      /\ \A u \in Turn : seen[u].cont \in Turn \cup {None} /\ cont[u] \in Turn \cup {None}
      /\ \A u \in Turn : conv[u] \in Conversation
  BY Labels
<1>1. \A u \in Turn :
        /\ pc[u] \in Begun => /\ pc'[u] \in Begun /\ conv'[u] = conv[u] /\ prof'[u] = prof[u]
                              /\ Of(u)' = Of(u) /\ (Blind(u) => Blind(u)')
        /\ pc[u] \in Acting \cup Over => pc'[u] \in Acting \cup Over
        /\ u # t => Of(u)' = Of(u) /\ (Blind(u)' <=> Blind(u))
  BY <1>l DEF Of, Blind
<1>2. ASSUME NEW u \in Turn, NEW c \in Conversation \ {conv[t]}, Spoilt(u, c, session[c].prof)
      PROVE  Spoilt(u, c, session[c].prof)'
  <2>1. u # t \/ (u = t /\ c = conv[t])
    BY <1>2 DEF Spoilt
  <2>2. u # t /\ session'[c] = session[c]
    BY <2>1
  <2>3. QED
    BY <1>1, <1>2, <2>2 DEF Spoilt
<1>3. ASSUME NEW u \in Turn, u # t, OpenedInVain(u) PROVE OpenedInVain(u)'
  <2>1. PICK v \in Turn \ {u} : /\ conv[v] = conv[u] /\ prof[v] = prof[u] /\ pc[v] \in Over
                                /\ v \notin saved \/ Blind(v)
    BY <1>3 DEF OpenedInVain
  <2>2. v # t
    BY <2>1
  <2>3. QED
    BY <1>1, <1>3, <2>1, <2>2 DEF OpenedInVain
<1>4. ASSUME NEW c \in Conversation PROVE SoundAt(c)'
  <2>1. CASE c # conv[t]
    <3>1. session'[c] = session[c] /\ (Match(session[c])' <=> Match(session[c]))
      BY <1>1, <1>k, <2>1 DEF SoundAt, Match
    <3>2. (\E u \in Turn : Spoilt(u, c, session[c].prof)) =>
             \E u \in Turn : Spoilt(u, c, session[c].prof)'
      BY <1>2, <2>1
    <3>3. QED
      BY <1>1, <1>k, <3>1, <3>2 DEF SoundAt
  <2>2. CASE c = conv[t] /\ session'[c] = session[c] /\ (t \in saved' <=> t \in saved)
    <3>1. Match(session[c])' <=> Match(session[c])
      BY <1>1, <1>k, <2>2 DEF SoundAt, Match
    <3>2. ASSUME NEW u \in Turn, Spoilt(u, c, session[c].prof) PROVE Spoilt(u, c, session[c].prof)'
      BY <1>l, <1>1, <2>2, <3>2 DEF Spoilt
    <3>3. (\E u \in Turn : Spoilt(u, c, session[c].prof)) =>
             \E u \in Turn : Spoilt(u, c, session[c].prof)'
      BY <3>2
    <3>4. QED
      BY <1>1, <1>k, <2>2, <3>1, <3>3 DEF SoundAt
  <2>3. QED
    BY <2>1, <2>2
<1>5. ASSUME NEW u \in Turn PROVE SoundOf(u)'
  <2>1. CASE u = t
    BY <2>1
  <2>2. CASE u # t
    <3>1. Of(u) \in Merging /\ pc[u] \in Busy => session'[conv[u]] = session[conv[u]]
      <4>1. CASE conv[u] # conv[t]
        BY <1>k, <4>1
      <4>2. CASE conv[u] = conv[t] /\ pc[t] \notin Busy
        BY <1>k, <4>2
      <4>3. CASE conv[u] = conv[t] /\ pc[t] \in Busy
        BY <2>2, <4>3, Alone
      <4>4. QED
        BY <4>1, <4>2, <4>3
    <3>2. /\ seen[u].cont # None => prof'[seen[u].cont] = prof[seen[u].cont]
          /\ cont[u] # None => prof'[cont[u]] = prof[cont[u]]
      BY <1>1, <1>k DEF SoundOf
    <3>3. Match(seen[u]) => Match(seen[u])'
      BY <2>2, <3>2 DEF Match
    <3>4. /\ seen'[u].cont # None => pc'[seen'[u].cont] \in Begun
          /\ cont'[u] # None => pc'[cont'[u]] \in Begun
          /\ pc'[u] \in {"persist", "send"} => cont'[u] # None
          /\ u \in saved' => pc'[u] \in Begun \ {"looked"}
          /\ u \in fresh' => pc'[u] \in Begun
      BY <1>1, <1>k, <2>2 DEF SoundOf
    <3>5. /\ pc'[u] = "looked" /\ Of(u)' \notin Merging => Match(seen[u])'
          /\ pc'[u] = "looked" /\ Of(u)' = "external" =>
                prof'[u] # 0 /\ (seen'[u].cont = None => seen'[u].prof = 0)
          /\ pc'[u] = "looked" /\ Of(u)' \in Merging =>
                seen'[u] = IF u \in fresh' THEN Blank ELSE session'[conv'[u]]
      BY <1>l, <1>1, <2>2, <3>1, <3>3 DEF SoundOf
    <3>6. /\ pc'[u] \in Acting /\ cont'[u] # None /\ prof'[cont'[u]] # prof'[u] =>
                Of(u)' \in Merging /\ (OpenedInVain(u)' \/ Blind(u)')
          /\ pc'[u] \in Acting /\ Of(u)' \in Merging /\ u \notin fresh' /\ seen'[u].prof = prof'[u] =>
                session'[conv'[u]].cont \in {None, cont'[u]}
      BY <1>l, <1>1, <1>3, <2>2, <3>1, <3>2 DEF SoundOf
    <3>7. QED
      BY <3>4, <3>5, <3>6 DEF SoundOf
  <2>3. QED
    BY <2>1, <2>2
<1>6. QED
  BY <1>4, <1>5

\* A turn moves to another label, and nobody else does.
LEMMA LabelStep ==
    ASSUME TypeOK, NEW t \in Turn, NEW l, To(t, l)
    PROVE  pc'[t] = l /\ \A u \in Turn \ {t} : pc'[u] = pc[u]
BY DEF To, TypeOK

LEMMA ArriveSound ==
    ASSUME TypeOK, InLine, Sessions, NEW t \in Turn, NEW c \in Conversation, NEW a \in BOOLEAN,
           Arrive(t, c, a)
    PROVE  Sessions'
<1>1. /\ pc[t] = "idle" /\ pc'[t] = "queued" /\ \A u \in Turn \ {t} : pc'[u] = pc[u]
      /\ \A u \in Turn \ {t} : conv'[u] = conv[u]
      /\ UNCHANGED <<platform, session, saved, prof, seen, cont, fresh>>
  BY LabelStep DEF Arrive, TypeOK, world, site
<1>2. "idle" \notin Begun /\ pc[t] \notin Acting \cup Over \cup Busy /\ "queued" \notin Begun
  BY <1>1, Labels
<1>3. SoundOf(t)'
  <2>1. SoundOf(t) /\ Acting \subseteq Begun /\ seen[t].cont \in Turn \cup {None} /\ cont[t] \in Turn \cup {None}
    BY Labels DEF Sessions
  <2>2. QED
    BY <1>1, <1>2, <2>1 DEF SoundOf
<1>4. QED
  BY <1>1, <1>2, <1>3, TurnMove

LEMMA LookupSound ==
    ASSUME TypeOK, InLine, Sessions, NEW t \in Turn, Lookup(t)
    PROVE  Sessions'
<1>1. /\ pc[t] = "queued" /\ pc'[t] = "looked" /\ \A u \in Turn \ {t} : pc'[u] = pc[u]
      /\ prof'[t] = profile /\ \A u \in Turn \ {t} : prof'[u] = prof[u]
      /\ \A u \in Turn \ {t} : seen'[u] = seen[u] /\ (u \in fresh' <=> u \in fresh)
      /\ \/ seen'[t] = session[conv[t]] /\ fresh' = fresh
         \/ Of(t) # "external" /\ seen'[t] = Blank /\ t \in fresh'
      /\ Of(t) = "external" => profile # 0
      /\ UNCHANGED <<platform, session, saved, conv, cont>>
  BY LabelStep DEF Lookup, TypeOK, world, site
<1>2. /\ pc[t] \notin Begun \cup Acting \cup Over \cup Busy
      /\ "looked" \in Begun /\ "looked" \notin Acting
      /\ conv[t] \in Conversation /\ t # None
      /\ session[conv[t]].cont \in Turn \cup {None} /\ cont[t] \in Turn \cup {None}
  BY <1>1, Labels
<1>3. SoundOf(t)'
  <2>1. SoundOf(t) /\ SoundAt(conv[t])
    BY <1>2 DEF Sessions
  <2>2. t \notin fresh /\ t \notin saved /\ (cont[t] # None => cont[t] # t)
        /\ (session[conv[t]].cont # None => session[conv[t]].cont # t)
    BY <1>2, <2>1 DEF SoundOf, SoundAt
  <2>3. /\ seen'[t].cont # None => pc'[seen'[t].cont] \in Begun
        /\ cont'[t] # None => pc'[cont'[t]] \in Begun
    BY <1>1, <1>2, <2>1, <2>2 DEF SoundOf, SoundAt, Blank
  <2>4. Of(t)' = Of(t) /\ Of(t) = platform[conv[t]]
    BY <1>1 DEF Of
  <2>5. Of(t) \notin Merging => Match(seen[t])'
    BY <1>1, <1>2, <2>1, <2>2, <2>4 DEF SoundAt, Match, Blank
  <2>6. Of(t) = "external" => prof'[t] # 0 /\ (seen'[t].cont = None => seen'[t].prof = 0)
    BY <1>1, <1>2, <2>1, <2>4 DEF SoundAt
  <2>7. seen'[t] = IF t \in fresh' THEN Blank ELSE session'[conv'[t]]
    BY <1>1, <2>2
  <2>8. QED
    BY <1>1, <1>2, <2>2, <2>3, <2>4, <2>5, <2>6, <2>7 DEF SoundOf
<1>4. QED
  BY <1>1, <1>2, <1>3, TurnMove

\* The session is opened, whether the turn goes on or not.
LEMMA OpenMove ==
    ASSUME TypeOK, InLine, Sessions, NEW t \in Turn, pc[t] = "looked",
           UNCHANGED <<platform, saved, conv, prof, seen, fresh>>,
           \A u \in Turn \ {t} : pc'[u] = pc[u] /\ cont'[u] = cont[u],
           session' = [session EXCEPT ![conv[t]] = Opened(t)],
           \/ pc'[t] = "opened" /\ cont'[t] = Resumed(t, Opened(t).cont)
           \/ pc'[t] = "done" /\ cont'[t] = cont[t]
    PROVE  Sessions'
<1> DEFINE c == conv[t]
<1>1. /\ c \in Conversation /\ t # None /\ "looked" \in Begun /\ "looked" \in Busy
      /\ "looked" \notin Acting \cup Over
      /\ pc'[t] \in (Acting \cup Over) \cap Begun /\ pc'[t] # "looked"
      /\ pc'[t] \notin {"persist", "send"} /\ "done" \notin Acting
      /\ session[c].cont \in Turn \cup {None}
      /\ seen[t].cont \in Turn \cup {None} /\ cont[t] \in Turn \cup {None}
  BY Labels
<1>2. SoundOf(t) /\ SoundAt(c)
  BY <1>1 DEF Sessions
<1>3. t \notin saved /\ Of(t)' = Of(t) /\ Of(t) = platform[c]
  BY <1>1, <1>2 DEF SoundOf, Of
<1>4. /\ session'[c] = Opened(t) /\ \A d \in Conversation \ {c} : session'[d] = session[d]
      /\ session[c] \in Meta
  BY <1>1 DEF TypeOK
<1>5. /\ Of(t) = "discord" => Opened(t).cont = None
      /\ Of(t) = "external" => Opened(t) = session[c]
      /\ Of(t) \in Merging => Opened(t).cont = session[c].cont /\ Opened(t).prof = prof[t]
      /\ Of(t) \in Merging \cup {"discord", "external"} /\ "discord" \notin Merging /\ "external" \notin Merging
  BY <1>1, <1>4 DEF Opened, Meta, Merging, TypeOK, Platforms, Of
<1>6. \A u \in Turn : pc[u] \in Begun => pc'[u] \in Begun
  BY <1>1
<1>7. SoundAt(c)'
  <2>1. session'[c].cont # None => pc'[session'[c].cont] \in Begun
    BY <1>1, <1>2, <1>4, <1>5, <1>6 DEF SoundAt
  <2>2. platform[c] \notin Merging => Match(session[c])'
    BY <1>2, <1>3, <1>4, <1>5 DEF SoundAt, Match
  <2>3. platform[c] = "external" /\ session'[c].cont = None => session'[c].prof = 0
    BY <1>2, <1>3, <1>4, <1>5 DEF SoundAt
  <2>4. platform[c] \in Merging => Spoilt(t, c, session[c].prof)'
    BY <1>1, <1>3, <1>4, <1>5 DEF Spoilt
  <2>5. QED
    BY <2>1, <2>2, <2>3, <2>4 DEF SoundAt
<1>8. SoundOf(t)'
  <2>1. CASE pc'[t] = "done" /\ cont'[t] = cont[t]
    BY <1>1, <1>2, <1>3, <1>6, <2>1 DEF SoundOf
  <2>2. CASE pc'[t] = "opened" /\ cont'[t] = Resumed(t, Opened(t).cont)
    <3>1. \/ cont'[t] = None
          \/ seen[t].prof = prof[t] /\ seen[t].cont # None /\ cont'[t] = seen[t].cont
          \/ seen[t].prof = prof[t] /\ seen[t].cont = None /\ cont'[t] = Opened(t).cont
      BY <2>2 DEF Resumed
    <3>2. cont'[t] # None => pc'[cont'[t]] \in Begun
      BY <1>1, <1>2, <1>4, <1>5, <1>6, <3>1 DEF SoundOf, SoundAt
    <3>3. ASSUME Of(t) \notin Merging, cont'[t] # None PROVE prof[cont'[t]] = prof[t]
      <4>1. CASE seen[t].cont # None /\ cont'[t] = seen[t].cont /\ seen[t].prof = prof[t]
        BY <1>2, <3>3, <4>1 DEF SoundOf, Match
      <4>2. CASE seen[t].cont = None /\ seen[t].prof = prof[t] /\ cont'[t] = Opened(t).cont
        BY <1>2, <1>5, <3>3, <4>2 DEF SoundOf
      <4>3. QED
        BY <3>1, <3>3, <4>1, <4>2
    <3>4. ASSUME Of(t) \in Merging, t \notin fresh
          PROVE  /\ seen[t] = session[c]
                 /\ seen[t].prof = prof[t] => session'[c].cont \in {None, cont'[t]}
                 /\ cont'[t] # None => cont'[t] = session[c].cont /\ session[c].prof = prof[t]
      <4>1. seen[t] = session[c]
        BY <1>2, <3>4 DEF SoundOf
      <4>2. seen[t].prof = prof[t] => cont'[t] = session[c].cont
        BY <1>5, <2>2, <3>4, <4>1 DEF Resumed
      <4>3. QED
        BY <1>4, <1>5, <3>1, <3>4, <4>1, <4>2
    <3>5. ASSUME Of(t) \in Merging, cont'[t] # None, prof[cont'[t]] # prof[t]
          PROVE  OpenedInVain(t)' \/ Blind(t)'
      <4>1. CASE t \in fresh
        <5>1. seen[t] = Blank
          BY <1>2, <3>5, <4>1 DEF SoundOf
        <5>2. prof[t] = 0
          BY <3>1, <3>5, <5>1 DEF Blank
        <5>3. QED
          BY <4>1, <5>2 DEF Blind
      <4>2. CASE t \notin fresh
        <5>1. session[c].prof = prof[t] /\ ~Match(session[c])
          BY <3>4, <3>5, <4>2 DEF Match
        <5>2. PICK u \in Turn : Spoilt(u, c, session[c].prof)
          BY <1>2, <1>3, <3>5, <5>1 DEF SoundAt
        <5>3. u # t
          BY <1>1, <5>2 DEF Spoilt
        <5>4. pc[u] \in Over
          <6>1. pc[u] \notin Busy
            BY <1>1, <3>5, <5>2, <5>3, Alone DEF Spoilt
          <6>2. QED
            BY <5>2, <6>1, Labels DEF Spoilt
        <5>5. OpenedInVain(t)'
          <6>1. /\ conv'[u] = conv'[t] /\ prof'[u] = prof'[t] /\ pc'[u] \in Over
                /\ u \notin saved' \/ Blind(u)'
            BY <5>1, <5>2, <5>3, <5>4 DEF Spoilt, Blind
          <6>2. QED
            BY <5>3, <6>1 DEF OpenedInVain
        <5>6. QED
          BY <5>5
      <4>3. QED
        BY <4>1, <4>2
    <3>6. /\ seen'[t].cont # None => pc'[seen'[t].cont] \in Begun
          /\ pc'[t] \notin {"persist", "send", "looked"} /\ t \notin saved' /\ (t \in fresh' => pc'[t] \in Begun)
      BY <1>1, <1>2, <1>3, <1>6 DEF SoundOf
    <3>7. pc'[t] \in Acting /\ cont'[t] # None /\ prof'[cont'[t]] # prof'[t] =>
             Of(t)' \in Merging /\ (OpenedInVain(t)' \/ Blind(t)')
      BY <1>3, <3>3, <3>5
    <3>8. Of(t)' \in Merging /\ t \notin fresh' /\ seen'[t].prof = prof'[t] =>
             session'[conv'[t]].cont \in {None, cont'[t]}
      BY <1>3, <3>4
    <3>9. QED
      BY <3>2, <3>6, <3>7, <3>8 DEF SoundOf
  <2>3. QED
    BY <2>1, <2>2
<1>9. QED
  BY <1>1, <1>4, <1>7, <1>8, TurnMove

LEMMA AnswerSound ==
    ASSUME TypeOK, InLine, Sessions, NEW t \in Turn, RuntimeAnswers(t)
    PROVE  Sessions'
<1>1. /\ pc[t] = "running" /\ pc'[t] \in {"send", "persist"} /\ \A u \in Turn \ {t} : pc'[u] = pc[u]
      /\ cont'[t] = IF cont[t] = None THEN t ELSE cont[t]
      /\ \A u \in Turn \ {t} : cont'[u] = cont[u]
      /\ UNCHANGED <<platform, session, saved, conv, prof, seen, fresh>>
  BY LabelStep DEF RuntimeAnswers, TypeOK, world, site, local
<1>2. /\ t # None /\ pc[t] \in Acting \cap Begun /\ pc[t] \notin Over /\ pc'[t] \in Acting \cap Begun
      /\ pc'[t] # "looked" /\ conv[t] \in Conversation
      /\ seen[t].cont \in Turn \cup {None} /\ cont[t] \in Turn \cup {None}
  BY <1>1, Labels
<1>3. SoundOf(t)'
  <2>1. SoundOf(t) /\ \A u \in Turn : pc[u] \in Begun => pc'[u] \in Begun
    BY <1>1, <1>2 DEF Sessions
  <2>2. Of(t)' = Of(t) /\ (Blind(t)' <=> Blind(t)) /\ (OpenedInVain(t) => OpenedInVain(t)')
    BY <1>1, <1>2 DEF Of, Blind, OpenedInVain
  <2>3. QED
    BY <1>1, <1>2, <2>1, <2>2 DEF SoundOf
<1>4. QED
  BY <1>1, <1>2, <1>3, TurnMove

LEMMA OverflowSound ==
    ASSUME TypeOK, InLine, Sessions, NEW t \in Turn, Overflow(t)
    PROVE  Sessions'
<1>1. /\ pc[t] = "running" /\ pc' = pc /\ Of(t) = "telegram" /\ cont'[t] = None /\ t \in fresh'
      /\ \A u \in Turn \ {t} : cont'[u] = cont[u] /\ (u \in fresh' <=> u \in fresh)
      /\ session' = [session EXCEPT ![conv[t]] = Cleared(t)]
      /\ UNCHANGED <<platform, saved, conv, prof, seen>>
  BY DEF Overflow, TypeOK, world, local
<1>2. /\ t # None /\ pc[t] \in Acting \cap Begun /\ pc[t] \in Busy /\ pc[t] \notin Over
      /\ pc[t] # "looked" /\ conv[t] \in Conversation /\ seen[t].cont \in Turn \cup {None}
  BY <1>1, Labels
<1>3. session'[conv[t]] = Cleared(t) /\ \A d \in Conversation \ {conv[t]} : session'[d] = session[d]
  BY <1>1, <1>2 DEF TypeOK
<1>4. ASSUME NEW c \in Conversation, c = conv[t] PROVE SoundAt(c)'
  <2>1. session'[c].cont = None /\ platform[c] \in Merging /\ platform[c] # "external"
    BY <1>1, <1>3, <1>4 DEF Cleared, Of, Merging
  <2>2. QED
    BY <1>1, <2>1 DEF SoundAt, Match
<1>5. SoundOf(t)'
  <2>1. SoundOf(t)
    BY DEF Sessions
  <2>2. QED
    BY <1>1, <1>2, <2>1 DEF SoundOf
<1>6. QED
  BY <1>1, <1>2, <1>3, <1>4, <1>5, TurnMove

\* The thread is stored, whether the turn learns of it or not.
LEMMA StoreMove ==
    ASSUME TypeOK, InLine, Sessions, NEW t \in Turn, pc[t] = "persist", Store(t),
           UNCHANGED <<platform, conv, prof, seen, cont, fresh>>,
           \A u \in Turn \ {t} : pc'[u] = pc[u],
           pc'[t] \in (Acting \cup Over) \ {"persist"}
    PROVE  Sessions'
<1> DEFINE c == conv[t]
<1>1. /\ t # None /\ pc[t] \in Acting \cap Begun /\ pc[t] \in Busy /\ pc[t] \notin Over
      /\ pc'[t] \in Begun \ {"looked"} /\ Acting \cap Over = {} /\ c \in Conversation
      /\ seen[t].cont \in Turn \cup {None} /\ cont[t] \in Turn \cup {None}
  BY Labels
<1>2. /\ session'[c] = Result(t) /\ \A d \in Conversation \ {c} : session'[d] = session[d]
      /\ Result(t).cont = cont[t] /\ Result(t).prof = prof[t]
      /\ saved' = saved \cup {t}
  BY <1>1 DEF Store, Result, TypeOK
<1>3. SoundOf(t) /\ cont[t] # None /\ Of(t)' = Of(t) /\ Of(t) = platform[c]
  BY <1>1 DEF Sessions, SoundOf, Of
<1>4. \A u \in Turn : pc[u] \in Begun => pc'[u] \in Begun
  BY <1>1
<1>5. OpenedInVain(t) => OpenedInVain(t)'
  <2>1. SUFFICES ASSUME NEW u \in Turn \ {t}, conv[u] = conv[t], prof[u] = prof[t], pc[u] \in Over,
                        u \notin saved \/ Blind(u)
                 PROVE  OpenedInVain(t)'
    BY DEF OpenedInVain
  <2>2. pc'[u] \in Over /\ (u \notin saved' \/ Blind(u)')
    BY <1>2, <2>1 DEF Blind
  <2>3. QED
    BY <2>1, <2>2 DEF OpenedInVain
<1>6. SoundAt(c)'
  <2>1. session'[c].cont # None => pc'[session'[c].cont] \in Begun
    BY <1>1, <1>2, <1>3, <1>4 DEF SoundOf
  <2>2. platform[c] \notin Merging => Match(session[c])'
    BY <1>1, <1>2, <1>3 DEF SoundOf, Match
  <2>3. ASSUME platform[c] \in Merging, ~Match(session[c])'
        PROVE  \E u \in Turn : Spoilt(u, c, session[c].prof)'
    <3>1. prof[cont[t]] # prof[t]
      BY <1>2, <2>3 DEF Match
    <3>2. CASE Blind(t)
      <4>1. Spoilt(t, c, session[c].prof)'
        BY <1>2, <3>2 DEF Spoilt, Blind
      <4>2. QED
        BY <4>1
    <3>3. CASE OpenedInVain(t)
      <4>1. PICK u \in Turn \ {t} : /\ conv[u] = conv[t] /\ prof[u] = prof[t] /\ pc[u] \in Over
                                    /\ u \notin saved \/ Blind(u)
        BY <3>3 DEF OpenedInVain
      <4>2. Spoilt(u, c, session[c].prof)'
        BY <1>2, <4>1 DEF Spoilt, Blind
      <4>3. QED
        BY <4>2
    <3>4. QED
      BY <1>1, <1>3, <3>1, <3>2, <3>3 DEF SoundOf
  <2>4. QED
    BY <1>2, <1>3, <2>1, <2>2, <2>3 DEF SoundAt
<1>7. SoundOf(t)'
  BY <1>1, <1>2, <1>3, <1>4, <1>5 DEF SoundOf, Blind
<1>8. QED
  BY <1>1, <1>2, <1>6, <1>7, TurnMove

LEMMA SessionsStep == ASSUME TypeOK, InLine, Sessions, [Next]_vars PROVE Sessions'
<1>l. /\ Acting = {"opened", "running", "persist", "send", "record", "excuse"}
      /\ Over = {"done", "lost"}
  BY Labels
<1>e. ASSUME NEW t \in Turn, To(t, "done"), pc[t] # "idle",
             UNCHANGED <<platform, session, saved, conv, prof, seen, cont, fresh>>
      PROVE  Sessions'
  <2>1. pc'[t] \in Over /\ \A u \in Turn \ {t} : pc'[u] = pc[u]
    BY <1>e, <1>l, LabelStep
  <2>2. QED
    BY <1>e, <2>1, QuietMove
<1>g. ASSUME NEW t \in Turn, NEW l \in Acting, To(t, l), pc[t] \in Acting,
             l \in {"persist", "send"} => cont[t] # None,
             UNCHANGED <<platform, session, saved, conv, prof, seen, cont, fresh>>
      PROVE  Sessions'
  <2>1. pc'[t] = l /\ \A u \in Turn \ {t} : pc'[u] = pc[u]
    BY <1>g, LabelStep
  <2>2. QED
    BY <1>g, <2>1, QuietMove
<1>a. ASSUME AllLost, UNCHANGED <<platform, session, saved, conv, prof, seen, cont, fresh>>
      PROVE  Sessions'
  <2>1. \A u \in Turn : pc'[u] = pc[u] \/ (pc[u] # "idle" /\ pc'[u] \in Over)
    BY <1>a, <1>l DEF AllLost, TypeOK, Busy
  <2>2. QED
    BY <1>a, <2>1, QuietMove
<1>1. ASSUME NEW t \in Turn, NEW c \in Conversation, NEW a \in BOOLEAN, Arrive(t, c, a) PROVE Sessions'
  BY <1>1, ArriveSound
<1>2. ASSUME NEW t \in Turn, Refuse(t) PROVE Sessions'
  BY <1>2, <1>e DEF Refuse, Finish, world, site, local
<1>3. ASSUME NEW t \in Turn, Lookup(t) PROVE Sessions'
  BY <1>3, LookupSound
<1>4. ASSUME NEW t \in Turn, Open(t) PROVE Sessions'
  <2>1. /\ pc[t] = "looked" /\ session' = [session EXCEPT ![conv[t]] = Opened(t)]
        /\ cont'[t] = Resumed(t, Opened(t).cont) /\ \A u \in Turn \ {t} : cont'[u] = cont[u]
        /\ UNCHANGED <<platform, saved, conv, prof, seen, fresh>>
    BY <1>4 DEF Open, TypeOK, world, local
  <2>2. pc'[t] = "opened" /\ \A u \in Turn \ {t} : pc'[u] = pc[u]
    BY <1>4, LabelStep DEF Open
  <2>3. QED
    BY <2>1, <2>2, OpenMove
<1>5. ASSUME NEW t \in Turn, OpenFails(t) PROVE Sessions'
  <2>1. /\ pc[t] \in {"looked", "opened"} /\ To(t, "done")
        /\ UNCHANGED <<platform, saved, conv, prof, seen, cont, fresh>>
        /\ session' = session \/ (pc[t] = "looked" /\ session' = [session EXCEPT ![conv[t]] = Opened(t)])
    BY <1>5 DEF OpenFails, Finish, world, local
  <2>2. pc'[t] = "done" /\ \A u \in Turn \ {t} : pc'[u] = pc[u]
    BY <2>1, LabelStep
  <2>3. QED
    BY <1>e, <2>1, <2>2, OpenMove
<1>6. ASSUME NEW t \in Turn, Invoke(t) PROVE Sessions'
  BY <1>6, <1>g, <1>l DEF Invoke, world, site, local
<1>7. ASSUME NEW t \in Turn, RuntimeAnswers(t) PROVE Sessions'
  BY <1>7, AnswerSound
<1>8. ASSUME NEW t \in Turn, RuntimeFails(t) PROVE Sessions'
  BY <1>8, <1>e, <1>g, <1>l DEF RuntimeFails, Finish, world, site, local
<1>9. ASSUME NEW t \in Turn, Overflow(t) PROVE Sessions'
  BY <1>9, OverflowSound
<1>10. ASSUME NEW t \in Turn, Persist(t) PROVE Sessions'
  <2>1. /\ pc[t] = "persist" /\ Store(t) /\ To(t, AfterPersist(t))
        /\ UNCHANGED <<platform, conv, prof, seen, cont, fresh>>
    BY <1>10 DEF Persist, Finish, world, local
  <2>2. pc'[t] = AfterPersist(t) /\ \A u \in Turn \ {t} : pc'[u] = pc[u]
    BY <2>1, LabelStep
  <2>3. AfterPersist(t) \in (Acting \cup Over) \ {"persist"}
    BY <1>l DEF AfterPersist
  <2>4. QED
    BY <2>1, <2>2, <2>3, StoreMove
<1>11. ASSUME NEW t \in Turn, PersistFails(t) PROVE Sessions'
  <2>1. /\ pc[t] = "persist"
        /\ \/ Store(t)
           \/ UNCHANGED site
        /\ \/ To(t, "excuse")
           \/ To(t, "done")
        /\ UNCHANGED <<platform, conv, prof, seen, cont, fresh>>
    BY <1>11 DEF PersistFails, Finish, world, local
  <2>2. pc'[t] \in {"excuse", "done"} /\ \A u \in Turn \ {t} : pc'[u] = pc[u]
    BY <2>1, LabelStep
  <2>3. CASE Store(t)
    BY <1>l, <2>1, <2>2, <2>3, StoreMove
  <2>4. CASE UNCHANGED site
    BY <1>e, <1>g, <1>l, <2>1, <2>4 DEF site
  <2>5. QED
    BY <2>1, <2>3, <2>4
<1>12. ASSUME NEW t \in Turn, Send(t) PROVE Sessions'
  <2>1. cont[t] # None
    BY <1>12 DEF Send, Sessions, SoundOf
  <2>2. QED
    BY <1>12, <1>g, <1>l, <2>1 DEF Send, world, site, local
<1>13. ASSUME NEW t \in Turn, SendFails(t) PROVE Sessions'
  BY <1>13, <1>e, <1>g, <1>l DEF SendFails, Finish, world, site, local
<1>14. ASSUME NEW t \in Turn, Record(t) PROVE Sessions'
  BY <1>14, <1>e DEF Record, Finish, world, site, local
<1>15. ASSUME NEW t \in Turn, Excuse(t) PROVE Sessions'
  BY <1>15, <1>e DEF Excuse, Finish, world, site, local
<1>16. ASSUME NEW t \in Turn, ExcuseFails(t) PROVE Sessions'
  BY <1>16, <1>a, <1>e DEF ExcuseFails, Finish, world, site, local
<1>17. ASSUME Crash PROVE Sessions'
  BY <1>17, <1>a DEF Crash, world, site, local
<1>18. ASSUME NEW p \in 0..MaxProfile, Edit(p) PROVE Sessions'
  BY <1>18, QuietMove DEF Edit, site, local
<1>19. CASE UNCHANGED vars
  BY <1>19, QuietMove DEF vars
<1>20. QED
  BY <1>1, <1>2, <1>3, <1>4, <1>5, <1>6, <1>7, <1>8, <1>9, <1>10, <1>11, <1>12, <1>13,
     <1>14, <1>15, <1>16, <1>17, <1>18, <1>19 DEF Next, Step

-----------------------------------------------------------------------------
(* What a conversation can rely on.                                        *)

LEMMA InitInv == Init => IInv
<1> SUFFICES ASSUME Init PROVE IInv
  OBVIOUS
<1>1. TypeOK
  BY InitTypes
<1>2. InLine
  BY DEF Init, InLine, Busy
<1>3. Replies
  BY DEF Init, Replies, Silent
<1>4. Sessions
  <2>1. Blank.cont = None /\ Blank.prof = 0
    BY DEF Blank
  <2>2. \A t \in Turn : pc[t] = "idle" /\ seen[t] = Blank /\ cont[t] = None
    BY DEF Init
  <2>3. \A c \in Conversation : session[c] = Blank
    BY DEF Init
  <2>4. saved = {} /\ fresh = {} /\ "idle" \notin Acting \cup Begun
    BY <1>1, Labels DEF Init
  <2>5. ASSUME NEW c \in Conversation PROVE SoundAt(c)
    BY <2>1, <2>3 DEF SoundAt, Match
  <2>6. ASSUME NEW t \in Turn PROVE SoundOf(t)
    BY <2>1, <2>2, <2>4 DEF SoundOf, Match
  <2>7. QED
    BY <2>5, <2>6 DEF Sessions
<1>5. QED
  BY <1>1, <1>2, <1>3, <1>4 DEF IInv

\* The inductive invariant: the order of the turns, what they sent and what sessions say.
THEOREM Invariant == Spec => []IInv
<1>1. IInv /\ [Next]_vars => IInv'
  BY TypeStep, LineStep, RepliesStep, SessionsStep DEF IInv
<1>2. QED
  BY InitInv, <1>1, PTL DEF Spec

\* The type invariant: sessions, queues and handlers keep their types.
THEOREM TypeCorrect == Spec => []TypeOK
<1>1. IInv => TypeOK
  BY DEF IInv
<1>2. QED
  BY Invariant, <1>1, PTL

\* The handlers of a conversation do not overlap, except behind an asynchronous command and
\* in HTTP sessions: only the head of the queue is at work, and one turn of all of Buzz.
THEOREM TakesTurns == Spec => []OneAtATime
<1>1. IInv => OneAtATime
  <2>1. SUFFICES ASSUME IInv, NEW t \in Turn, NEW u \in Turn, t # u, conv[t] = conv[u],
                        pc[t] \in Busy, pc[u] \in Busy, Of(t) # "external"
                 PROVE  t \in async \/ u \in async
    BY DEF OneAtATime
  <2>2. Of(u) = Of(t) /\ (Of(t) \in Queued \/ Of(t) = "buzz")
    BY <2>1 DEF Of, IInv, TypeOK, Platforms, Queued
  <2>3. QED
    BY <2>1, <2>2 DEF IInv, InLine
<1>2. QED
  BY Invariant, <1>1, PTL

\* A prompt gets one reply at most, an answer or an excuse, whatever fails after it was
\* delivered; only on Discord may one excuse follow an answer, whose delivery failed with
\* some of it out.
THEOREM RepliesOnce == Spec => []RepliedOnce
<1>1. IInv => RepliedOnce
  <2>1. SUFFICES ASSUME IInv, NEW t \in Turn
                 PROVE  /\ answers[t] <= 1 /\ excuses[t] <= 1
                        /\ answers[t] + excuses[t] = 2 => t \in cut /\ Of(t) = "discord"
    BY DEF RepliedOnce
  <2>2. answers[t] \in Nat /\ excuses[t] \in Nat
    BY <2>1 DEF IInv, TypeOK
  <2>3. QED
    BY <2>1, <2>2 DEF IInv, Replies
<1>2. QED
  BY Invariant, <1>1, PTL

\* A thread is continued under the profile it was made under, but for what a turn that opened
\* the session in vain, or blindly, leaves to the merged sessions of Telegram and Buzz.
THEOREM OwnThread == Spec => []OwnInstructions
<1>1. IInv => OwnInstructions
  <2>1. SUFFICES ASSUME IInv, NEW t \in Turn, pc[t] = "running", cont[t] # None,
                        Of(t) \in {"telegram", "buzz"} => ~OpenedInVain(t) /\ ~Blind(t)
                 PROVE  prof[cont[t]] = prof[t]
    BY DEF OwnInstructions
  <2>2. pc[t] \in Acting
    BY <2>1, Labels DEF IInv
  <2>3. QED
    BY <2>1, <2>2 DEF IInv, Sessions, SoundOf, Merging
<1>2. QED
  BY Invariant, <1>1, PTL

\* Where sessions are merged, the thread is replaced only by a turn that runs under another
\* profile than the one it saw, or that lost it and knows it.
THEOREM KeepsThread == Spec => ThreadKept
<1> DEFINE Kept == \A c \in Conversation :
                      /\ platform[c] \in {"telegram", "buzz"}
                      /\ session[c].cont # None /\ session'[c].cont # session[c].cont
                      => \E t \in Turn :
                            /\ conv[t] = c /\ pc[t] \in Busy
                            /\ (t \in fresh' \/ seen[t].prof # prof[t])
<1>1. IInv /\ [Next]_vars => [Kept]_vars
  <2>1. SUFFICES ASSUME IInv, Next, NEW c \in Conversation, platform[c] \in Merging,
                        session[c].cont # None, session'[c].cont # session[c].cont
                 PROVE  \E t \in Turn :
                           /\ conv[t] = c /\ pc[t] \in Busy
                           /\ (t \in fresh' \/ seen[t].prof # prof[t])
    BY DEF Merging
  <2>2. session \in [Conversation -> Meta]
    BY <2>1 DEF IInv, TypeOK
  <2>3. PICK t \in Turn : Open(t) \/ OpenFails(t) \/ Overflow(t) \/ Persist(t) \/ PersistFails(t)
    BY <2>1 DEF Next, Step, Arrive, Refuse, Lookup, Invoke, RuntimeAnswers, RuntimeFails, Send,
       SendFails, Record, Excuse, ExcuseFails, Crash, Edit, site
  <2>4. ASSUME NEW m \in {Opened(t), Cleared(t), Result(t)},
               session' = [session EXCEPT ![conv[t]] = m]
        PROVE  c = conv[t] /\ session'[c] = m
    BY <2>1, <2>2, <2>4
  <2>5. CASE Open(t) \/ OpenFails(t)
    <3>1. session' = session \/ session' = [session EXCEPT ![conv[t]] = Opened(t)]
      BY <2>5 DEF Open, OpenFails
    <3>2. c = conv[t] /\ session'[c] = Opened(t)
      BY <2>1, <2>4, <3>1
    <3>3. Opened(t).cont = session[c].cont
      BY <2>1, <2>2, <3>2 DEF Opened, Of, Merging, Meta
    <3>4. QED
      BY <2>1, <3>2, <3>3
  <2>6. CASE Overflow(t)
    <3>1. c = conv[t] /\ pc[t] \in Busy /\ t \in fresh'
      BY <2>4, <2>6 DEF Overflow, Busy
    <3>2. QED
      BY <3>1
  <2>7. CASE Persist(t) \/ PersistFails(t)
    <3>1. /\ pc[t] = "persist" /\ fresh' = fresh
          /\ session' = session \/ session' = [session EXCEPT ![conv[t]] = Result(t)]
      BY <2>7 DEF Persist, PersistFails, Store, site
    <3>2. c = conv[t] /\ session'[c] = Result(t) /\ Result(t).cont = cont[t]
      BY <2>1, <2>4, <3>1 DEF Result
    <3>3. pc[t] \in Acting /\ pc[t] \in Busy /\ Of(t) \in Merging
      BY <2>1, <3>1, <3>2, Labels DEF IInv, Of
    <3>4. SoundOf(t)
      BY <2>1 DEF IInv, Sessions
    <3>5. t \in fresh \/ seen[t].prof # prof[t]
      BY <2>1, <3>2, <3>3, <3>4 DEF SoundOf
    <3>6. QED
      BY <3>1, <3>2, <3>3, <3>5
  <2>8. QED
    BY <2>3, <2>5, <2>6, <2>7
<1>2. QED
  BY Invariant, <1>1, PTL DEF Spec, ThreadKept
=============================================================================
