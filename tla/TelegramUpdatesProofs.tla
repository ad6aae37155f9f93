------------------------- MODULE TelegramUpdatesProofs -------------------------
(***************************************************************************)
(* Theorems about TelegramUpdates, for any number of updates, any size of  *)
(* a batch and any number of faults: the poll implements the ledger, and   *)
(* nothing is lost.                                                        *)
(*                                                                         *)
(* The argument is that the offset file moves by one update at a time.     *)
(* What a poll has yet to take is a run of updates without a gap from the  *)
(* offset on (NoGap), and of what is pending at most the first of these is *)
(* not confirmed (OneAhead).                                               *)
(***************************************************************************)
EXTENDS TelegramUpdates, FiniteSetTheorems, WellFoundedInduction, TLAPS

\* The first update the offset file does not confirm.
First == Later(saved, 1)

\* The update at hand has a record.
Holding == {"write", "checkpoint", "start", "running", "complete", "fail"}

\* Where the rest of the batch begins.
Base == IF pc \in {"write", "checkpoint"} THEN cur + 1 ELSE First

Offsets ==
    /\ confirmed <= saved
    /\ pc # "idle" => offset = saved
    /\ pc \in {"quarantine"} \cup Holding => cur \in Update
    /\ pc \in {"write", "checkpoint"} => cur = First
    /\ pc \in {"start", "running", "complete", "fail"} => saved = cur + 1

NoGap ==
    pc \in Batch => \A u \in todo : Base <= u /\ \A v \in Base..u : v \in todo

OneAhead ==
    /\ \A u \in Update : pending[u] # "none" /\ u >= saved => u = First
    /\ pc \in Recovery => todo = Listed
    /\ pc = "quarantine" => cur \in todo /\ cur < saved
    /\ pc \in {"fetch"} \cup Batch =>
           \A u \in Update : pending[u] # "none" => pc \in Holding /\ u = cur

Records ==
    /\ \A u \in Update : u \in started => u < saved /\ pending[u] # "torn"
    /\ \A u \in Update :
           u \in started /\ u \notin finished => "whole" \in {pending[u], failed[u]}
    /\ \A u \in Update :
           u < saved => u \in finished \/ pending[u] # "none" \/ failed[u] # "none"
    /\ pc = "write" => pending[cur] = "torn"
    /\ pc \in Holding \ {"write"} => pending[cur] = "whole"
    /\ pc = "complete" => cur \in finished

IInv == TypeOK /\ Offsets /\ NoGap /\ OneAhead /\ Records
-----------------------------------------------------------------------------
(* Helpers.                                                                *)

\* The later of two numbers.
LEMMA LaterIs ==
  ASSUME NEW a \in Nat, NEW b \in Nat
  PROVE  Later(a, b) \in Nat /\ Later(a, b) >= a /\ Later(a, b) >= b /\ Later(a, b) \in {a, b}
  BY DEF Later

\* A set of numbers that is not empty has a smallest one.
LEMMA MinIs ==
  ASSUME NEW S \in SUBSET Nat, S # {}
  PROVE  Min(S) \in S /\ \A y \in S : Min(S) <= y
<1> DEFINE Less == {ss \in Nat \X Nat : ss[1] < ss[2]}
<1>1. IsWellFoundedOn(Less, Nat)
  BY NatLessThanWellFounded DEF OpToRel
<1>2. \E x \in S : \A y \in S : x <= y
  <2>1. PICK x \in S : \A y \in S : ~ (<<y, x>> \in Less)
    <3> HIDE DEF Less
    <3>1. QED
      BY <1>1, WFMin
  <2>2. ASSUME NEW y \in S PROVE x <= y
    <3>1. x \in Nat /\ y \in Nat
      OBVIOUS
    <3>2. y < x => <<y, x>> \in Less
      BY <3>1
    <3>3. ~ (<<y, x>> \in Less)
      BY <2>1
    <3> HIDE DEF Less
    <3>4. QED
      BY <3>1, <3>2, <3>3
  <2>3. QED
    BY <2>2
<1>3. QED
  BY <1>2 DEF Min

\* What an answer of getUpdates holds has no gap.
LEMMA AnswerNoGap ==
  ASSUME TypeOK, Offsets, offset = saved
  PROVE  \A u \in Answered :
             /\ u \in Update /\ First <= u
             /\ \A v \in First..u : v \in Answered
<1> SUFFICES ASSUME NEW u \in Answered
             PROVE  /\ u \in Update /\ First <= u
                    /\ \A v \in First..u : v \in Answered
  OBVIOUS
<1>1. sent \in Nat /\ sent <= MaxUpdates /\ saved \in Nat /\ confirmed \in Nat /\ BatchLimit \in Nat
      /\ MaxUpdates \in Nat
  BY ConstantsAssumption DEF TypeOK
<1>2. Later(confirmed, offset) = saved
  BY <1>1 DEF Later, Offsets
<1>3. First \in Nat /\ First >= saved /\ First >= 1 /\ First \in {saved, 1}
  BY <1>1, LaterIs DEF First
<1>4. Unconfirmed = {v \in 1..sent : v >= saved}
  BY <1>2 DEF Unconfirmed
<1>5. u \in 1..sent /\ u >= saved /\ Cardinality({v \in Unconfirmed : v < u}) < BatchLimit
  BY <1>4 DEF Answered
<1>6. IsFiniteSet(1..sent)
  BY <1>1, FS_Interval
<1>7. ASSUME NEW v \in First..u PROVE v \in Answered
  <2>1. v \in 1..sent /\ v >= saved /\ v <= u
    BY <1>1, <1>3, <1>5
  <2> DEFINE A == {w \in Unconfirmed : w < v}
             B == {w \in Unconfirmed : w < u}
  <2>2. A \subseteq B
    BY <2>1, <1>1, <1>4, <1>5
  <2>3. IsFiniteSet(B)
    BY <1>4, <1>6, FS_Subset
  <2>4. Cardinality(A) \in Nat /\ Cardinality(B) \in Nat /\ Cardinality(A) <= Cardinality(B)
    <3>1. IsFiniteSet(A) /\ Cardinality(A) <= Cardinality(B)
      BY <2>2, <2>3, FS_Subset
    <3>2. QED
      BY <2>3, <3>1, FS_CardinalityType
  <2>5. Cardinality(B) < BatchLimit
    BY <1>5
  <2>6. Cardinality(A) < BatchLimit
    <3> HIDE DEF A, B
    <3>1. QED
      BY <2>4, <2>5, <1>1
  <2>7. v \in Unconfirmed
    BY <2>1, <1>4
  <2>8. QED
    BY <2>6, <2>7 DEF Answered
<1>8. QED
  BY <1>1, <1>3, <1>5, <1>7 DEF Update

\* Where the poll stands, in numbers.
LEMMA Numbers ==
  ASSUME TypeOK
  PROVE  /\ saved \in Nat /\ offset \in Nat /\ confirmed \in Nat /\ cur \in Nat /\ sent \in Nat
         /\ MaxUpdates \in Nat /\ Update \subseteq Nat \ {0}
         /\ First \in Nat /\ First >= 1 /\ First >= saved /\ First \in {saved, 1}
         /\ todo # {} => Min(todo) \in todo /\ Min(todo) \in Update /\ \A u \in todo : Min(todo) <= u
<1>1. /\ saved \in Nat /\ offset \in Nat /\ confirmed \in Nat /\ cur \in Nat /\ sent \in Nat
      /\ MaxUpdates \in Nat
  BY ConstantsAssumption DEF TypeOK
<1>2. Update \subseteq Nat \ {0} /\ todo \subseteq Update
  BY <1>1 DEF TypeOK, Update
<1>3. First \in Nat /\ First >= 1 /\ First >= saved /\ First \in {saved, 1}
  BY <1>1, LaterIs DEF First
<1>4. todo # {} => Min(todo) \in todo /\ \A u \in todo : Min(todo) <= u
  <2>1. todo \in SUBSET Nat
    BY <1>2
  <2>2. QED
    BY <2>1, MinIs
<1>5. QED
  BY <1>1, <1>2, <1>3, <1>4

\* The batch begins with the first update that is not confirmed.
LEMMA BatchFirst ==
  ASSUME TypeOK, NoGap, pc = "batch", todo # {}
  PROVE  Min(todo) = First
<1>1. Base = First /\ pc \in Batch
  BY DEF Base, Batch
<1>2. Min(todo) \in todo /\ \A u \in todo : Min(todo) <= u
  BY Numbers
<1>3. First \in Nat /\ Min(todo) \in Nat
  BY Numbers
<1>4. First <= Min(todo) /\ First \in todo
  BY <1>1, <1>2, <1>3 DEF NoGap
<1>5. QED
  BY <1>2, <1>3, <1>4

LEMMA InitInv == Init => IInv
<1> SUFFICES ASSUME Init PROVE IInv
  OBVIOUS
<1>1. TypeOK
  BY ConstantsAssumption DEF Init, TypeOK, Recovery, Batch, Record
<1>2. Offsets /\ NoGap /\ OneAhead
  BY DEF Init, Offsets, NoGap, OneAhead, Holding, Batch, Recovery, Listed
<1>3. Records
  BY DEF Init, Records, Holding, Update
<1>4. QED
  BY <1>1, <1>2, <1>3 DEF IInv

-----------------------------------------------------------------------------
(* Types.                                                                  *)

LEMMA TypeStep == ASSUME IInv, [Next]_vars PROVE TypeOK'
<1>0. TypeOK /\ Offsets
  BY DEF IInv
<1>n. /\ MaxUpdates \in Nat /\ Update \subseteq Nat \ {0}
      /\ todo # {} => Min(todo) \in Update
  BY <1>0, Numbers
<1>u. \A u \in Update : u + 1 \in 0..MaxUpdates + 1 /\ u \in 0..MaxUpdates
  BY <1>n DEF Update
<1>a. \A u \in Update : Advanced(u) \in 0..MaxUpdates + 1
  BY <1>0, <1>u DEF Advanced, Later, TypeOK
<1>c. Later(confirmed, offset) \in 0..MaxUpdates + 1
  BY <1>0 DEF Later, TypeOK
<1> USE <1>0 DEF TypeOK, Recovery, Batch, Record, disk, outside
<1>1. CASE Arrive
  BY <1>1, <1>n DEF Arrive
<1>2. CASE Poll
  BY <1>2 DEF Poll, Listed
<1>3. CASE Recover
  BY <1>3, <1>n, <1>a, <1>u DEF Recover
<1>4. CASE Quarantine
  <2>1. Kept(cur) \in {"none", "torn", "whole"}
    BY <1>4 DEF Quarantine, Offsets, Kept
  <2>2. QED
    BY <1>4, <2>1 DEF Quarantine
<1>5. CASE Recovered
  BY <1>5 DEF Recovered
<1>6. CASE Fetch
  <2>1. pc = "fetch" /\ offset = saved
    BY <1>6 DEF Fetch, Offsets
  <2>2. Answered \subseteq Update
    BY <2>1, AnswerNoGap
  <2>3. QED
    BY <1>6, <1>c, <2>2 DEF Fetch
<1>7. CASE Open
  BY <1>7, <1>n, <1>u DEF Open
<1>8. CASE Write
  BY <1>8 DEF Write
<1>9. CASE Return
  BY <1>9 DEF Return
<1>10. CASE Checkpoint
  BY <1>10, <1>u DEF Checkpoint, Past, Offsets, Holding
<1>11. CASE Start
  BY <1>11 DEF Start, Offsets, Holding
<1>12. CASE Returns
  BY <1>12 DEF Returns, Offsets, Holding
<1>13. CASE Throws
  BY <1>13 DEF Throws
<1>14. CASE Complete
  BY <1>14 DEF Complete
<1>15. CASE Fail
  <2>1. Kept(cur) \in {"none", "torn", "whole"}
    BY <1>15 DEF Fail, Offsets, Holding, Kept
  <2>2. QED
    BY <1>15, <2>1 DEF Fail
<1>16. CASE PollEnds
  <2>1. saved' \in 0..MaxUpdates + 1 /\ confirmed' \in 0..MaxUpdates + 1 /\ pending' = pending
    BY <1>16, <1>n, <1>a, <1>c, <1>u DEF PollEnds, Halfway, Past, Offsets, Holding
  <2>2. faults' \in 0..MaxFaults
    BY <1>16, ConstantsAssumption DEF PollEnds, Fault
  <2>3. QED
    BY <1>16, <2>1, <2>2 DEF PollEnds
<1>17. CASE UNCHANGED vars
  BY <1>17 DEF vars
<1>18. QED
  BY <1>1, <1>2, <1>3, <1>4, <1>5, <1>6, <1>7, <1>8, <1>9, <1>10, <1>11, <1>12, <1>13, <1>14,
     <1>15, <1>16, <1>17 DEF Next, Work

-----------------------------------------------------------------------------
(* The offset.                                                             *)

\* A recovery moves the offset past the first update that is not confirmed, or not at all.
LEMMA RecoverMoves ==
  ASSUME TypeOK, Offsets, OneAhead, pc = "recover", todo # {}
  PROVE  LET m == Min(todo)
         IN  /\ m \in Update /\ pending[m] # "none"
             /\ Advanced(m) \in Nat /\ Advanced(m) > m
             /\ \/ m < saved /\ Advanced(m) = saved
                \/ m = First /\ m >= saved /\ Advanced(m) = First + 1
<1> DEFINE m == Min(todo)
<1>1. m \in Update /\ m \in todo /\ m \in Nat /\ saved \in Nat /\ First \in Nat
  BY Numbers
<1>2. offset = saved /\ todo = Listed
  BY DEF Offsets, OneAhead, Recovery
<1>3. pending[m] # "none"
  BY <1>1, <1>2 DEF Listed
<1>4. m >= saved => m = First
  BY <1>1, <1>3 DEF OneAhead
<1> HIDE DEF m
<1>5. /\ Advanced(m) \in Nat /\ Advanced(m) > m
      /\ m < saved => Advanced(m) = saved
      /\ m >= saved => Advanced(m) = m + 1
  BY <1>1, <1>2 DEF Advanced, Later
<1>6. QED
  BY <1>1, <1>3, <1>4, <1>5 DEF m

LEMMA OffsetsStep == ASSUME IInv, [Next]_vars PROVE Offsets'
<1>0. TypeOK /\ Offsets /\ NoGap /\ OneAhead
  BY DEF IInv
<1>n. /\ saved \in Nat /\ offset \in Nat /\ confirmed \in Nat /\ cur \in Nat
      /\ First \in Nat /\ First >= 1 /\ First >= saved
      /\ Update \subseteq Nat /\ (todo # {} => Min(todo) \in Update)
  BY <1>0, Numbers
<1> USE DEF Offsets, Holding, First, disk, outside
<1>1. CASE Arrive
  BY <1>0, <1>1 DEF Arrive
<1>2. CASE Poll
  BY <1>0, <1>2 DEF Poll
<1>3. CASE Recover
  <2>1. saved' = Advanced(Min(todo)) /\ offset' = saved' /\ saved' \in Nat /\ saved' >= saved
    BY <1>0, <1>n, <1>3, RecoverMoves DEF Recover
  <2>2. pc' = "quarantine" /\ cur' = Min(todo) /\ Min(todo) \in Update /\ confirmed' = confirmed
    BY <1>0, <1>n, <1>3 DEF Recover
  <2>3. QED
    BY <1>0, <1>n, <2>1, <2>2
<1>4. CASE Quarantine
  BY <1>0, <1>4 DEF Quarantine
<1>5. CASE Recovered
  BY <1>0, <1>5 DEF Recovered
<1>6. CASE Fetch
  BY <1>0, <1>n, <1>6 DEF Fetch, Later
<1>7. CASE Open
  <2>1. Min(todo) = First
    BY <1>0, <1>7, BatchFirst DEF Open
  <2>2. QED
    BY <1>0, <1>n, <1>7, <2>1 DEF Open
<1>8. CASE Write
  BY <1>0, <1>8 DEF Write
<1>9. CASE Return
  BY <1>0, <1>9 DEF Return
<1>10. CASE Checkpoint
  <2>1. saved' = cur + 1 /\ offset' = saved' /\ pc' = "start" /\ cur' = cur
    BY <1>10 DEF Checkpoint, Past
  <2>2. cur \in Update /\ cur = First /\ confirmed' = confirmed
    BY <1>0, <1>10 DEF Checkpoint
  <2>3. QED
    BY <1>0, <1>n, <2>1, <2>2
<1>11. CASE Start
  BY <1>0, <1>11 DEF Start
<1>12. CASE Returns
  BY <1>0, <1>12 DEF Returns
<1>13. CASE Throws
  BY <1>0, <1>13 DEF Throws
<1>14. CASE Complete
  BY <1>0, <1>14 DEF Complete
<1>15. CASE Fail
  BY <1>0, <1>15 DEF Fail
<1>16. CASE PollEnds
  <2>1. pc' = "idle" /\ offset = saved
    BY <1>0, <1>16 DEF PollEnds
  <2>2. confirmed' <= saved'
    <3>1. CASE pc = "checkpoint"
      BY <1>0, <1>n, <1>16, <3>1 DEF PollEnds, Halfway, Past
    <3>2. CASE pc = "recover" /\ todo # {}
      BY <1>0, <1>n, <1>16, <3>2, RecoverMoves DEF PollEnds, Halfway
    <3>3. CASE pc = "fetch"
      BY <1>0, <1>n, <1>16, <2>1, <3>3 DEF PollEnds, Halfway, Later
    <3>4. CASE ~(pc \in {"checkpoint", "fetch"} \/ (pc = "recover" /\ todo # {}))
      BY <1>0, <1>16, <3>4 DEF PollEnds, Halfway
    <3>5. QED
      BY <3>1, <3>2, <3>3, <3>4
  <2>3. QED
    BY <2>1, <2>2
<1>17. CASE UNCHANGED vars
  BY <1>0, <1>17 DEF vars
<1>18. QED
  BY <1>1, <1>2, <1>3, <1>4, <1>5, <1>6, <1>7, <1>8, <1>9, <1>10, <1>11, <1>12, <1>13, <1>14,
     <1>15, <1>16, <1>17 DEF Next, Work

LEMMA NoGapStep == ASSUME IInv, [Next]_vars PROVE NoGap'
<1>0. TypeOK /\ Offsets /\ NoGap /\ OneAhead
  BY DEF IInv
<1>n. /\ saved \in Nat /\ cur \in Nat /\ First \in Nat /\ First >= 1
      /\ Update \subseteq Nat \ {0} /\ todo \subseteq Update
  BY <1>0, Numbers DEF TypeOK
<1> USE DEF NoGap, Base, Batch, First, disk, outside
<1>1. CASE Arrive
  BY <1>0, <1>1 DEF Arrive
<1>2. CASE Poll \/ Recover \/ Quarantine \/ Recovered \/ Return \/ PollEnds
  BY <1>2 DEF Poll, Recover, Quarantine, Recovered, Return, PollEnds
<1>3. CASE Fetch
  <2>1. pc' = "batch" /\ saved' = saved /\ todo' = Answered /\ pc = "fetch"
    BY <1>3 DEF Fetch
  <2>2. offset = saved
    BY <1>0, <2>1 DEF Offsets
  <2>3. \A u \in Answered : First <= u /\ \A v \in First..u : v \in Answered
    BY <1>0, <2>2, AnswerNoGap
  <2>4. QED
    BY <2>1, <2>3
<1>4. CASE Open
  <2>1. pc = "batch" /\ Min(todo) = First
    BY <1>0, <1>4, BatchFirst DEF Open
  <2>2. pc' = "write" /\ cur' = First /\ todo' = todo \ {First}
    BY <1>4, <2>1 DEF Open
  <2>3. \A u \in todo : First <= u /\ \A v \in First..u : v \in todo
    BY <1>0, <2>1
  <2>4. SUFFICES ASSUME NEW u \in todo' PROVE First + 1 <= u /\ \A v \in First + 1..u : v \in todo'
    BY <2>2
  <2>5. u \in todo /\ u # First /\ u \in Nat /\ First <= u
    BY <1>n, <2>2, <2>3
  <2> HIDE DEF First
  <2>6. QED
    BY <1>n, <2>2, <2>3, <2>5
<1>5. CASE Write
  BY <1>0, <1>5 DEF Write
<1>6. CASE Checkpoint
  <2>1. pc = "checkpoint" /\ pc' = "start" /\ saved' = cur + 1 /\ todo' = todo
    BY <1>6 DEF Checkpoint, Past
  <2>2. First' = cur + 1
    BY <1>n, <2>1 DEF Later
  <2>3. \A u \in todo : cur + 1 <= u /\ \A v \in cur + 1..u : v \in todo
    BY <1>0, <2>1
  <2>4. QED
    BY <2>1, <2>2, <2>3
<1>7. CASE Start \/ Returns \/ Throws \/ Complete \/ Fail
  BY <1>0, <1>7 DEF Start, Returns, Throws, Complete, Fail
<1>8. CASE UNCHANGED vars
  BY <1>0, <1>8 DEF vars
<1>9. QED
  BY <1>1, <1>2, <1>3, <1>4, <1>5, <1>6, <1>7, <1>8 DEF Next, Work

-----------------------------------------------------------------------------
(* The journal.                                                            *)

LEMMA OneAheadStep == ASSUME IInv, [Next]_vars PROVE OneAhead'
<1>0. TypeOK /\ Offsets /\ NoGap /\ OneAhead
  BY DEF IInv
<1>n. /\ saved \in Nat /\ cur \in Nat /\ First \in Nat /\ First >= 1 /\ First >= saved
      /\ Update \subseteq Nat \ {0} /\ todo \subseteq Update
      /\ pending \in [Update -> {"none", "torn", "whole"}]
  BY <1>0, Numbers DEF TypeOK, Record
<1> USE DEF OneAhead, Recovery, Batch, Holding, First, Listed, disk, outside
<1>1. CASE Arrive
  BY <1>0, <1>1 DEF Arrive
<1>2. CASE Poll
  BY <1>0, <1>2 DEF Poll
<1>3. CASE Recover
  <2>1. /\ pc = "recover" /\ pc' = "quarantine" /\ cur' = Min(todo) /\ saved' = Advanced(Min(todo))
        /\ pending' = pending /\ todo' = todo /\ todo # {}
    BY <1>3 DEF Recover
  <2>2. /\ Min(todo) \in todo /\ Advanced(Min(todo)) \in Nat /\ Min(todo) \in Nat
        /\ Advanced(Min(todo)) > Min(todo)
        /\ \/ Advanced(Min(todo)) = saved
           \/ Min(todo) = First /\ Advanced(Min(todo)) = First + 1
    BY <1>0, <2>1, RecoverMoves, Numbers
  <2>3. \A u \in Update : pending'[u] # "none" /\ u >= saved' => u = First'
    BY <1>0, <1>n, <2>1, <2>2
  <2>4. cur' \in todo' /\ cur' < saved'
    BY <2>1, <2>2
  <2>5. todo' = Listed'
    BY <1>0, <2>1
  <2>6. QED
    BY <2>1, <2>3, <2>4, <2>5
<1>4. CASE Quarantine
  BY <1>0, <1>n, <1>4 DEF Quarantine
<1>5. CASE Recovered
  BY <1>0, <1>5 DEF Recovered
<1>6. CASE Fetch
  BY <1>0, <1>6 DEF Fetch
<1>7. CASE Open
  <2>1. pc = "batch" /\ Min(todo) = First
    BY <1>0, <1>7, BatchFirst DEF Open
  <2>2. QED
    BY <1>0, <1>n, <1>7, <2>1 DEF Open
<1>8. CASE Write
  <2>1. /\ pc = "write" /\ pc' = "checkpoint" /\ cur \in Update
        /\ pending' = [pending EXCEPT ![cur] = "whole"]
        /\ UNCHANGED <<saved, cur>>
    BY <1>0, <1>8 DEF Write, Offsets
  <2>2. \A u \in Update : pending'[u] # "none" => u = cur
    BY <1>0, <1>n, <2>1
  <2>3. cur = First
    BY <1>0, <2>1 DEF Offsets
  <2>4. QED
    BY <2>1, <2>2, <2>3
<1>9. CASE Return
  BY <1>0, <1>9 DEF Return
<1>10. CASE Checkpoint
  <2>1. /\ pc = "checkpoint" /\ pc' = "start" /\ saved' = cur + 1 /\ pending' = pending /\ cur' = cur
    BY <1>10 DEF Checkpoint, Past
  <2>2. QED
    BY <1>0, <1>n, <2>1
<1>11. CASE Start \/ Returns \/ Throws
  BY <1>0, <1>11 DEF Start, Returns, Throws
<1>12. CASE Complete \/ Fail
  BY <1>0, <1>n, <1>12 DEF Complete, Fail
<1>13. CASE PollEnds
  <2>1. pc' = "idle" /\ pending' = pending
    BY <1>13 DEF PollEnds, Halfway
  <2>2. \A u \in Update : pending[u] # "none" /\ u >= saved' => u = First'
    <3>1. CASE saved' = saved
      BY <1>0, <3>1
    <3>2. CASE saved' # saved /\ pc = "checkpoint"
      <4>1. saved' = cur + 1
        BY <1>13, <3>2 DEF PollEnds, Halfway, Past
      <4>2. QED
        BY <1>0, <1>n, <3>2, <4>1
    <3>3. CASE saved' # saved /\ pc = "recover" /\ todo # {}
      <4>1. saved' = Advanced(Min(todo))
        BY <1>13, <3>3 DEF PollEnds, Halfway
      <4>2. saved' = First + 1
        BY <1>0, <3>3, <4>1, RecoverMoves
      <4>3. QED
        BY <1>0, <1>n, <4>2
    <3>4. QED
      BY <1>13, <3>1, <3>2, <3>3 DEF PollEnds, Halfway
  <2>3. QED
    BY <2>1, <2>2
<1>14. CASE UNCHANGED vars
  BY <1>0, <1>14 DEF vars
<1>15. QED
  BY <1>1, <1>2, <1>3, <1>4, <1>5, <1>6, <1>7, <1>8, <1>9, <1>10, <1>11, <1>12, <1>13, <1>14
     DEF Next, Work

LEMMA RecordsStep == ASSUME IInv, [Next]_vars PROVE Records'
<1>0. TypeOK /\ Offsets /\ NoGap /\ OneAhead /\ Records
  BY DEF IInv
<1>n. /\ saved \in Nat /\ cur \in Nat /\ First \in Nat /\ First >= 1 /\ First >= saved
      /\ First \in {saved, 1}
      /\ Update \subseteq Nat \ {0} /\ todo \subseteq Update
      /\ pending \in [Update -> {"none", "torn", "whole"}]
      /\ failed \in [Update -> {"none", "torn", "whole"}]
      /\ started \subseteq Update /\ finished \subseteq Update
  BY <1>0, Numbers DEF TypeOK, Record
<1> USE DEF Records, Holding, disk, outside
<1>1. CASE Arrive
  BY <1>0, <1>1 DEF Arrive
<1>2. CASE Poll
  BY <1>0, <1>2 DEF Poll
<1>3. CASE Recover
  <2>1. /\ pc = "recover" /\ pc' = "quarantine" /\ saved' = Advanced(Min(todo)) /\ todo # {}
        /\ UNCHANGED <<pending, failed, started, finished>>
    BY <1>3 DEF Recover
  <2>2. /\ pending[Min(todo)] # "none" /\ saved' \in Nat
        /\ \/ saved' = saved
           \/ Min(todo) = First /\ saved' = First + 1
    BY <1>0, <2>1, RecoverMoves
  <2>3. QED
    BY <1>0, <1>n, <2>1, <2>2
<1>4. CASE Quarantine
  <2>1. /\ pc = "quarantine" /\ pc' = "recover" /\ cur \in Update /\ pending[cur] # "none"
        /\ failed' = [failed EXCEPT ![cur] = pending[cur]]
        /\ pending' = [pending EXCEPT ![cur] = "none"]
        /\ UNCHANGED <<saved, started, finished>>
    BY <1>0, <1>4 DEF Quarantine, Kept, Offsets, OneAhead, Recovery, Listed
  <2>2. \A u \in Update \ {cur} : failed'[u] = failed[u] /\ pending'[u] = pending[u]
    BY <1>n, <2>1
  <2>3. failed'[cur] = pending[cur] /\ pending'[cur] = "none"
    BY <1>n, <2>1
  <2>4. QED
    BY <1>0, <1>n, <2>1, <2>2, <2>3
<1>5. CASE Recovered
  BY <1>0, <1>5 DEF Recovered
<1>6. CASE Fetch
  BY <1>0, <1>6 DEF Fetch
<1>7. CASE Open
  <2>1. pc = "batch" /\ Min(todo) = First /\ First \in Update
    BY <1>0, <1>7, BatchFirst, Numbers DEF Open
  <2>2. /\ pc' = "write" /\ cur' = First /\ pending' = [pending EXCEPT ![First] = "torn"]
        /\ UNCHANGED <<saved, failed, started, finished>>
    BY <1>7, <2>1 DEF Open
  <2>3. pending[First] = "none" /\ First \notin started
    BY <1>0, <1>n, <2>1 DEF OneAhead, Batch
  <2>4. \A u \in Update : pending'[u] = IF u = First THEN "torn" ELSE pending[u]
    BY <1>n, <2>2
  <2>5. QED
    BY <1>0, <1>n, <2>1, <2>2, <2>3, <2>4
<1>8. CASE Write
  <2>1. /\ pc = "write" /\ pc' = "checkpoint" /\ cur \in Update
        /\ pending' = [pending EXCEPT ![cur] = "whole"]
        /\ UNCHANGED <<saved, failed, cur, started, finished>>
    BY <1>0, <1>8 DEF Write, Offsets
  <2>2. \A u \in Update : pending'[u] = IF u = cur THEN "whole" ELSE pending[u]
    BY <1>n, <2>1
  <2>3. QED
    BY <1>0, <1>n, <2>1, <2>2
<1>9. CASE Return
  BY <1>0, <1>9 DEF Return
<1>10. CASE Checkpoint
  <2>1. /\ pc = "checkpoint" /\ pc' = "start" /\ saved' = cur + 1
        /\ UNCHANGED <<pending, failed, cur, started, finished>>
    BY <1>10 DEF Checkpoint, Past
  <2>2. cur = First /\ pending[cur] = "whole"
    BY <1>0, <2>1 DEF Offsets
  <2>3. QED
    BY <1>0, <1>n, <2>1, <2>2
<1>11. CASE Start
  <2>1. /\ pc = "start" /\ pc' = "running" /\ started' = started \cup {cur} /\ saved = cur + 1
        /\ pending[cur] = "whole"
        /\ UNCHANGED <<saved, pending, failed, cur, finished>>
    BY <1>0, <1>11 DEF Start, Offsets
  <2>2. QED
    BY <1>0, <1>n, <2>1
<1>12. CASE Returns
  BY <1>0, <1>12 DEF Returns
<1>13. CASE Throws
  BY <1>0, <1>13 DEF Throws
<1>14. CASE Complete
  <2>1. /\ pc' = "batch" /\ cur \in Update /\ cur \in finished
        /\ pending' = [pending EXCEPT ![cur] = "none"]
        /\ UNCHANGED <<saved, failed, started, finished>>
    BY <1>0, <1>14 DEF Complete, Offsets
  <2>2. \A u \in Update : pending'[u] = IF u = cur THEN "none" ELSE pending[u]
    BY <1>n, <2>1
  <2>3. QED
    BY <1>0, <1>n, <2>1, <2>2
<1>15. CASE Fail
  <2>1. /\ pc' = "batch" /\ cur \in Update /\ pending[cur] = "whole"
        /\ failed' = [failed EXCEPT ![cur] = pending[cur]]
        /\ pending' = [pending EXCEPT ![cur] = "none"]
        /\ UNCHANGED <<saved, started, finished>>
    BY <1>0, <1>15 DEF Fail, Offsets, Kept
  <2>2. \A u \in Update : /\ pending'[u] = IF u = cur THEN "none" ELSE pending[u]
                          /\ failed'[u] = IF u = cur THEN "whole" ELSE failed[u]
    BY <1>n, <2>1
  <2>3. QED
    BY <1>0, <1>n, <2>1, <2>2
<1>16. CASE PollEnds
  <2>1. pc' = "idle" /\ UNCHANGED <<pending, failed, started, finished>>
    BY <1>16 DEF PollEnds, Halfway
  <2>2. \/ saved' = saved
        \/ saved' = First + 1 /\ First \in Update /\ pending[First] # "none"
    <3>1. CASE pc = "checkpoint"
      BY <1>0, <1>16, <3>1 DEF PollEnds, Halfway, Past, Offsets
    <3>2. CASE pc = "recover" /\ todo # {}
      BY <1>0, <1>16, <3>2, RecoverMoves DEF PollEnds, Halfway
    <3>3. CASE ~(pc = "checkpoint" \/ (pc = "recover" /\ todo # {}))
      BY <1>16, <3>3 DEF PollEnds, Halfway
    <3>4. QED
      BY <3>1, <3>2, <3>3
  <2>3. QED
    BY <1>0, <1>n, <2>1, <2>2
<1>17. CASE UNCHANGED vars
  BY <1>0, <1>17 DEF vars
<1>18. QED
  BY <1>1, <1>2, <1>3, <1>4, <1>5, <1>6, <1>7, <1>8, <1>9, <1>10, <1>11, <1>12, <1>13, <1>14,
     <1>15, <1>16, <1>17 DEF Next, Work

-----------------------------------------------------------------------------
(* Theorems.                                                               *)

LEMMA Invariant == Spec => []IInv
<1>1. IInv /\ [Next]_vars => IInv'
  BY TypeStep, OffsetsStep, NoGapStep, OneAheadStep, RecordsStep DEF IInv
<1>2. QED
  BY InitInv, <1>1, PTL DEF Spec

\* The variables stay in their types.
THEOREM TypeCorrect == Spec => []TypeOK
<1>1. IInv => TypeOK
  BY DEF IInv
<1>2. QED
  BY Invariant, <1>1, PTL

\* An update whose handler began and did not return keeps its whole record, and one that
\* Telegram has forgotten was handled or left a file in the journal.
THEOREM NothingIsLost == Spec => []NothingLost
<1>1. IInv => NothingLost
  <2>1. SUFFICES ASSUME IInv, NEW u \in Update, u < confirmed
                 PROVE  u \in finished \/ {pending[u], failed[u]} # {"none"}
    BY DEF IInv, Records, NothingLost
  <2>2. u < saved
    BY <2>1, Numbers DEF IInv, Offsets
  <2>3. u \in finished \/ pending[u] # "none" \/ failed[u] # "none"
    BY <2>1, <2>2 DEF IInv, Records
  <2>4. QED
    BY <2>3
<1>2. QED
  BY Invariant, <1>1, PTL

-----------------------------------------------------------------------------
(* The poll implements the ledger.                                         *)

Fates == [u \in Update |-> Fate(u)]

\* The update whose turn it is, in the ledger's eyes.
Turn == IF pc \in {"start", "running"} THEN cur ELSE First

\* All that comes before the update whose turn it is, is over; what comes after it waits.
LEMMA TurnIs ==
  ASSUME IInv
  PROVE  /\ \A u \in Update : u < Turn => Fate(u) = "over"
         /\ \A u \in Update : u > Turn => Fate(u) = "waiting"
         /\ \A u \in Update : u = Turn => Fate(u) = IF pc = "running" THEN "running" ELSE "waiting"
<1>1. /\ saved \in Nat /\ cur \in Nat /\ First \in {saved, 1} /\ First >= saved /\ First >= 1
      /\ Update \subseteq Nat \ {0}
  BY Numbers DEF IInv
<1>2. pc \in {"start", "running"} => saved = cur + 1
  BY DEF IInv, Offsets
<1>3. CASE pc \in {"start", "running"}
  BY <1>1, <1>2, <1>3 DEF Turn, Fate
<1>4. CASE pc \notin {"start", "running"}
  BY <1>1, <1>4 DEF Turn, Fate
<1>5. QED
  BY <1>3, <1>4

\* When the offset moves past the update whose turn it is, that update is put aside or its
\* handler is over.
LEMMA TurnPasses ==
  ASSUME IInv, Turn \in Update, Turn' = Turn + 1, pc' \notin {"start", "running"}, saved' = Turn + 1
  PROVE  IF pc = "running" THEN Ledger!End(Turn) ELSE Ledger!PutAside(Turn)
<1>1. Turn \in Nat /\ Update \subseteq Nat
  BY Numbers DEF IInv
<1>2. \A u \in Update : Fate(u)' = IF u = Turn THEN "over" ELSE Fate(u)
  <2>1. \A u \in Update : Fate(u)' = IF u < Turn + 1 THEN "over" ELSE "waiting"
    BY DEF Fate
  <2>2. QED
    BY <1>1, <2>1, TurnIs
<1>3. Fates' = [Fates EXCEPT ![Turn] = "over"]
  BY <1>2 DEF Fates
<1>4. \A u \in Update : u < Turn => Fates[u] = "over"
  BY TurnIs DEF Fates
<1>5. Fates[Turn] = IF pc = "running" THEN "running" ELSE "waiting"
  BY TurnIs DEF Fates
<1>6. QED
  BY <1>3, <1>4, <1>5 DEF Fates, Ledger!End, Ledger!PutAside

\* While the offset stays, and no handler begins or ends, nothing changes.
LEMMA NothingPasses ==
  ASSUME saved' = saved, pc \notin {"start", "running"}, pc' \notin {"start", "running"}
  PROVE  Fates' = Fates
<1>1. \A u \in Update : Fate(u)' = Fate(u)
  BY DEF Fate
<1>2. QED
  BY <1>1 DEF Fates

LEMMA LedgerStep == ASSUME IInv, [Next]_vars PROVE Ledger!Next \/ Fates' = Fates
<1>0. TypeOK /\ Offsets /\ NoGap /\ OneAhead
  BY DEF IInv
<1>n. /\ saved \in Nat /\ cur \in Nat /\ First \in Nat /\ Update \subseteq Nat \ {0}
      /\ First >= 1 /\ First >= saved /\ First \in {saved, 1}
  BY <1>0, Numbers
<1>p. ASSUME NEW u \in Update, Ledger!Begin(u) \/ Ledger!End(u) \/ Ledger!PutAside(u)
      PROVE  Ledger!Next
  BY <1>p DEF Ledger!Next
<1>1. CASE Arrive
  BY <1>1 DEF Arrive, Fates, Fate, disk
<1>2. CASE Poll \/ Quarantine \/ Recovered \/ Fetch \/ Open \/ Write \/ Return \/ Complete \/ Fail
  BY <1>2, NothingPasses DEF Poll, Quarantine, Recovered, Fetch, Open, Write, Return, Complete,
     Fail, disk
<1>3. CASE Recover
  <2>1. pc = "recover" /\ pc' = "quarantine" /\ saved' = Advanced(Min(todo)) /\ todo # {}
    BY <1>3 DEF Recover
  <2>2. \/ saved' = saved
        \/ First \in Update /\ saved' = First + 1
    BY <1>0, <2>1, RecoverMoves
  <2>3. CASE saved' = saved
    BY <2>1, <2>3, NothingPasses
  <2>4. CASE First \in Update /\ saved' = First + 1
    <3>1. Turn = First /\ Turn' = First + 1
      BY <1>n, <2>1, <2>4 DEF Turn, First, Later
    <3>2. Ledger!PutAside(Turn)
      BY <2>1, <2>4, <3>1, TurnPasses
    <3>3. QED
      BY <2>4, <3>1, <3>2, <1>p
  <2>5. QED
    BY <2>2, <2>3, <2>4
<1>4. CASE Checkpoint
  <2>1. /\ pc = "checkpoint" /\ pc' = "start" /\ saved' = cur + 1 /\ cur' = cur /\ cur = First
    BY <1>0, <1>4 DEF Checkpoint, Past, Offsets
  <2>2. ASSUME NEW u \in Update PROVE Fate(u)' = Fate(u)
    <3>1. Fate(u) = IF u < saved THEN "over" ELSE "waiting"
      BY <2>1 DEF Fate
    <3>2. Fate(u)' = IF u < cur + 1 /\ cur # u THEN "over" ELSE "waiting"
      BY <2>1 DEF Fate
    <3>3. u < cur + 1 /\ cur # u <=> u < saved
      BY <1>n, <2>1
    <3>4. QED
      BY <3>1, <3>2, <3>3
  <2>3. QED
    BY <2>2 DEF Fates
<1>5. CASE Start
  <2>1. /\ pc = "start" /\ pc' = "running" /\ saved' = saved /\ cur' = cur /\ cur \in Update
    BY <1>0, <1>5 DEF Start, Offsets, Holding, disk
  <2>2. Turn = cur
    BY <2>1 DEF Turn
  <2>3. \A u \in Update : Fate(u)' = IF u = cur THEN "running" ELSE Fate(u)
    BY <2>1 DEF Fate
  <2>4. Fates' = [Fates EXCEPT ![cur] = "running"]
    BY <2>3 DEF Fates
  <2>5. Fates[cur] = "waiting" /\ \A u \in Update : u < cur => Fates[u] = "over"
    BY <2>1, <2>2, TurnIs DEF Fates
  <2>6. Ledger!Begin(cur)
    BY <2>4, <2>5 DEF Fates, Ledger!Begin
  <2>7. QED
    BY <2>1, <2>6, <1>p
<1>6. ASSUME pc = "running" \/ pc = "start", saved' = saved, pc' \notin {"start", "running"}
      PROVE  Ledger!Next
  <2>1. saved = cur + 1 /\ cur \in Update
    BY <1>0, <1>6 DEF Offsets, Holding
  <2>2. Turn = cur /\ Turn' = cur + 1
    BY <1>n, <1>6, <2>1 DEF Turn, First, Later
  <2>3. Ledger!End(Turn) \/ Ledger!PutAside(Turn)
    BY <1>6, <2>1, <2>2, TurnPasses
  <2>4. QED
    BY <2>1, <2>2, <2>3, <1>p
<1>7. CASE Returns \/ Throws
  BY <1>6, <1>7 DEF Returns, Throws, disk
<1>8. CASE PollEnds
  <2>1. pc' = "idle"
    BY <1>8 DEF PollEnds
  <2>2. CASE pc = "running" \/ pc = "start"
    <3>1. saved' = saved
      BY <1>8, <2>2 DEF PollEnds, Halfway
    <3>2. QED
      BY <1>6, <2>1, <2>2, <3>1
  <2>3. CASE pc \notin {"start", "running"}
    <3>1. \/ saved' = saved
          \/ First \in Update /\ saved' = First + 1
      <4>1. CASE pc = "checkpoint"
        BY <1>0, <1>8, <4>1 DEF PollEnds, Halfway, Past, Offsets, Holding
      <4>2. CASE pc = "recover" /\ todo # {}
        BY <1>0, <1>8, <4>2, RecoverMoves DEF PollEnds, Halfway
      <4>3. CASE ~(pc = "checkpoint" \/ (pc = "recover" /\ todo # {}))
        BY <1>8, <4>3 DEF PollEnds, Halfway
      <4>4. QED
        BY <4>1, <4>2, <4>3
    <3>2. CASE saved' = saved
      BY <2>1, <2>3, <3>2, NothingPasses
    <3>3. CASE First \in Update /\ saved' = First + 1
      <4>1. Turn = First /\ Turn' = First + 1
        BY <1>n, <2>1, <2>3, <3>3 DEF Turn, First, Later
      <4>2. Ledger!PutAside(Turn)
        BY <2>1, <2>3, <3>3, <4>1, TurnPasses
      <4>3. QED
        BY <3>3, <4>1, <4>2, <1>p
    <3>4. QED
      BY <3>1, <3>2, <3>3
  <2>4. QED
    BY <2>2, <2>3
<1>9. CASE UNCHANGED vars
  BY <1>9 DEF vars, Fates, Fate
<1>10. QED
  BY <1>1, <1>2, <1>3, <1>4, <1>5, <1>7, <1>8, <1>9 DEF Next, Work

\* Across failed operations, polls that are given up and restarts, every update has one fate,
\* in the order of the ids, and its handler is run at most once.
THEOREM PollKeepsLedger == Spec => AtMostOnceInOrder
<1>1. Init => Ledger!Init
  <2>1. SUFFICES ASSUME Init PROVE Fates = [u \in Update |-> "waiting"]
    BY DEF Ledger!Init, Fates
  <2>2. Update \subseteq Nat
    BY DEF Update
  <2>3. \A u \in Update : Fate(u) = "waiting"
    BY <2>1, <2>2 DEF Init, Fate
  <2>4. QED
    BY <2>3 DEF Fates
<1>2. IInv /\ [Next]_vars => [Ledger!Next]_Fates
  BY LedgerStep
<1>3. QED
  BY Invariant, <1>1, <1>2, PTL DEF Spec, AtMostOnceInOrder, Ledger!Spec, Fates
=============================================================================
