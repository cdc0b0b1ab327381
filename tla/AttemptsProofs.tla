--------------------------- MODULE AttemptsProofs ---------------------------
(***************************************************************************)
(* Proofs about Attempts, for every value of its constants.                *)
(***************************************************************************)
EXTENDS Attempts, SequenceTheorems, FiniteSetTheorems, TLAPS

-----------------------------------------------------------------------------
(* What the memo does with an entry *)

\* No attempt has two entries in a memo.
OneEach(m) == \A i, j \in DOMAIN m : m[i].attempt = m[j].attempt => i = j

\* remember() of a memo that has an entry of the attempt keeps its length and
\* every other entry in its place.
LEMMA RememberOverwrites ==
  ASSUME NEW m \in Seq(MemoEntry), NEW entry \in MemoEntry,
         MaxMemo # 0, find_attempt(m, entry.attempt) # {}
  PROVE  /\ remember(m, entry) \in Seq(MemoEntry)
         /\ Len(remember(m, entry)) = Len(m)
         /\ \A i \in 1..Len(m) :
              remember(m, entry)[i] = IF m[i].attempt = entry.attempt THEN entry ELSE m[i]
<1>1. DOMAIN m = 1..Len(m) /\ Len(m) \in Nat /\ \A i \in 1..Len(m) : m[i] \in MemoEntry
  BY LenProperties, ElementOfSeq
<1>2. remember(m, entry) = [i \in 1..Len(m) |-> IF m[i].attempt = entry.attempt THEN entry ELSE m[i]]
  BY <1>1 DEF remember
<1>3. remember(m, entry) \in [1..Len(m) -> MemoEntry]
  BY <1>1, <1>2
<1>4. remember(m, entry) \in Seq(MemoEntry)
  BY <1>1, <1>3, SeqDef
<1>5. Len(remember(m, entry)) = Len(m)
  BY <1>1, <1>3, <1>4, LenProperties
<1> QED BY <1>2, <1>4, <1>5

\* remember() of a memo that has no entry of the attempt appends one, after
\* dropping the oldest when the memo is full.
LEMMA RememberAppends ==
  ASSUME NEW m \in Seq(MemoEntry), NEW entry \in MemoEntry,
         MaxMemo # 0, find_attempt(m, entry.attempt) = {}, Len(m) <= MaxMemo
  PROVE  \E k \in {0, 1} :
           /\ k <= Len(m) /\ Len(m) - k < MaxMemo
           /\ remember(m, entry) \in Seq(MemoEntry)
           /\ Len(remember(m, entry)) = Len(m) - k + 1
           /\ \A i \in 1..(Len(m) - k) : remember(m, entry)[i] = m[i + k]
           /\ remember(m, entry)[Len(m) - k + 1] = entry
<1>0. Len(m) \in Nat /\ MaxMemo \in Nat
  BY LenProperties, MemoAssumption
<1>1. CASE Len(m) >= MaxMemo
  <2>1. m # << >> /\ Len(m) > 0
    BY <1>0, <1>1, EmptySeq
  <2>2. /\ Tail(m) \in Seq(MemoEntry) /\ Len(Tail(m)) = Len(m) - 1
        /\ \A i \in 1..Len(Tail(m)) : Tail(m)[i] = m[i + 1]
    BY <2>1, HeadTailProperties
  <2>3. remember(m, entry) = Append(Tail(m), entry)
    BY <1>1 DEF remember
  <2>4. /\ Append(Tail(m), entry) \in Seq(MemoEntry)
        /\ Len(Append(Tail(m), entry)) = Len(m)
        /\ \A i \in 1..(Len(m) - 1) : Append(Tail(m), entry)[i] = m[i + 1]
        /\ Append(Tail(m), entry)[Len(m)] = entry
    BY <1>0, <2>1, <2>2, AppendProperties
  <2> WITNESS 1 \in {0, 1}
  <2> QED BY <1>0, <1>1, <2>1, <2>3, <2>4
<1>2. CASE ~(Len(m) >= MaxMemo)
  <2>1. remember(m, entry) = Append(m, entry)
    BY <1>2 DEF remember
  <2>2. /\ Append(m, entry) \in Seq(MemoEntry)
        /\ Len(Append(m, entry)) = Len(m) + 1
        /\ \A i \in 1..Len(m) : Append(m, entry)[i] = m[i]
        /\ Append(m, entry)[Len(m) + 1] = entry
    BY <1>0, AppendProperties
  <2> WITNESS 0 \in {0, 1}
  <2> QED BY <1>0, <1>2, <2>1, <2>2
<1> QED BY <1>1, <1>2

\* A memo within its bound, with one entry per attempt, stays so when an entry
\* is remembered, and gains no entry but that one.
LEMMA RememberKeeps ==
  ASSUME NEW m \in Seq(MemoEntry), NEW entry \in MemoEntry, Len(m) <= MaxMemo, OneEach(m)
  PROVE  /\ remember(m, entry) \in Seq(MemoEntry)
         /\ Len(remember(m, entry)) <= MaxMemo
         /\ OneEach(remember(m, entry))
         /\ \A i \in DOMAIN remember(m, entry) :
              \/ remember(m, entry)[i] = entry
              \/ \E j \in DOMAIN m : remember(m, entry)[i] = m[j]
<1> DEFINE r == remember(m, entry)
<1>0. /\ Len(m) \in Nat /\ MaxMemo \in Nat /\ DOMAIN m = 1..Len(m)
      /\ \A i \in 1..Len(m) : m[i] \in MemoEntry
  BY LenProperties, ElementOfSeq, MemoAssumption
<1>1. CASE MaxMemo = 0
  BY <1>1 DEF remember
<1>2. CASE MaxMemo # 0 /\ find_attempt(m, entry.attempt) # {}
  <2>1. /\ r \in Seq(MemoEntry) /\ Len(r) = Len(m)
        /\ \A i \in 1..Len(m) : r[i] = IF m[i].attempt = entry.attempt THEN entry ELSE m[i]
    BY <1>2, RememberOverwrites
  <2>2. DOMAIN r = 1..Len(m)
    BY <2>1, LenProperties
  <2>3. \A i \in 1..Len(m) : r[i].attempt = m[i].attempt
    BY <2>1
  <2>4. OneEach(r)
    BY <1>0, <2>2, <2>3 DEF OneEach
  <2> HIDE DEF r
  <2>5. \A i \in DOMAIN r : r[i] = entry \/ \E j \in DOMAIN m : r[i] = m[j]
    BY <1>0, <2>1, <2>2
  <2> QED BY <2>1, <2>4, <2>5 DEF r
<1>3. CASE MaxMemo # 0 /\ find_attempt(m, entry.attempt) = {}
  <2>1. PICK k \in {0, 1} :
           /\ k <= Len(m) /\ Len(m) - k < MaxMemo
           /\ r \in Seq(MemoEntry)
           /\ Len(r) = Len(m) - k + 1
           /\ \A i \in 1..(Len(m) - k) : r[i] = m[i + k]
           /\ r[Len(m) - k + 1] = entry
    BY <1>3, RememberAppends
  <2> HIDE DEF r
  <2>2. DOMAIN r = 1..(Len(m) - k + 1)
    BY <2>1, LenProperties
  <2>3. \A i \in 1..Len(m) : m[i].attempt # entry.attempt
    BY <1>0, <1>3 DEF find_attempt
  <2>4. \A i \in 1..(Len(m) - k) : i + k \in 1..Len(m)
    BY <1>0, <2>1
  <2>5. \A i \in 1..(Len(m) - k) : r[i].attempt # entry.attempt
    BY <2>1, <2>3, <2>4
  <2>6. OneEach(r)
    <3> SUFFICES ASSUME NEW i \in DOMAIN r, NEW j \in DOMAIN r, r[i].attempt = r[j].attempt
                 PROVE  i = j
      BY DEF OneEach
    <3>1. CASE i \in 1..(Len(m) - k) /\ j \in 1..(Len(m) - k)
      <4>1. m[i + k].attempt = m[j + k].attempt
        BY <2>1, <3>1
      <4>2. i + k = j + k
        BY <1>0, <2>4, <3>1, <4>1 DEF OneEach
      <4> QED BY <1>0, <3>1, <4>2
    <3>2. CASE i = Len(m) - k + 1 \/ j = Len(m) - k + 1
      BY <1>0, <2>1, <2>2, <2>5, <3>2
    <3> QED BY <1>0, <2>1, <2>2, <3>1, <3>2
  <2>7. \A i \in DOMAIN r : r[i] = entry \/ \E j \in DOMAIN m : r[i] = m[j]
    <3> TAKE i \in DOMAIN r
    <3>1. CASE i \in 1..(Len(m) - k)
      BY <1>0, <2>1, <2>4, <3>1
    <3>2. CASE i = Len(m) - k + 1
      BY <2>1, <3>2
    <3> QED BY <1>0, <2>1, <2>2, <3>1, <3>2
  <2>8. Len(r) <= MaxMemo
    BY <1>0, <2>1
  <2> QED BY <2>1, <2>6, <2>7, <2>8 DEF r
<1> QED BY <1>1, <1>2, <1>3

-----------------------------------------------------------------------------
(* The inductive invariant *)

\* What the tracker still knows of the acts accepted in this life: none of them
\* is newer than the record it keeps of their publisher.
TrackerCovers ==
  \A id \in Identity :
    accepted[id] # 0 =>
      /\ id.life <= life
      /\ id.life = life =>
           \/ id.incarnation < tracker[id.publisher].incarnation
           \/ /\ id.incarnation = tracker[id.publisher].incarnation
              /\ id.sequence <= tracker[id.publisher].sequence

\* Two reservations never share an attempt, and no attempt is pending twice.
ReservedOnce ==
  /\ IsFiniteSet(plans)
  /\ closed => pending = << >>
  /\ \A a, b \in plans : a.attempt = b.attempt => a = b
  /\ \A i, j \in DOMAIN pending : pending[i] = pending[j] => i = j

IInv ==
  /\ TypeOK
  /\ MemoBounded /\ MemoSound
  /\ AtMostOnce /\ TrackerCovers
  /\ ReservedOnce /\ PendingMirrorsPlans

\* What make_request builds from a mutation, a declaration or a plan.
Requests ==
  [queue : Queues, provenance : Provenance, attempt : AttemptId, content : Fingerprints]

-----------------------------------------------------------------------------
(* The steps of the mutation path *)

\* Provenance names an attempt of its publisher.
LEMMA OwnAttemptType ==
  ASSUME NEW p \in Provenance
  PROVE  OwnAttempt(p) \in AttemptId
BY DEF OwnAttempt, AttemptId, Provenance

\* Writing one entry keeps every memo within its bound with one entry per
\* attempt, and every entry is an old one of its queue or the new one.
LEMMA EntryWritten ==
  ASSUME TypeOK, MemoBounded, NEW q \in Queues, NEW entry \in MemoEntry,
         NEW m \in Seq(MemoEntry), m = memo[q] \/ m = << >>,
         memo' = [memo EXCEPT ![q] = remember(m, entry)]
  PROVE  /\ memo' \in [Queues -> Seq(MemoEntry)]
         /\ MemoBounded'
         /\ \A x \in Queues : \A i \in DOMAIN memo'[x] :
              \/ x = q /\ memo'[x][i] = entry
              \/ \E j \in DOMAIN memo[x] : memo'[x][i] = memo[x][j]
<1>0. memo \in [Queues -> Seq(MemoEntry)]
  BY DEF TypeOK
<1>1. m \in Seq(MemoEntry) /\ Len(m) <= MaxMemo /\ OneEach(m)
  <2>1. CASE m = memo[q]
    BY <1>0, <2>1 DEF MemoBounded, OneEach
  <2>2. CASE m = << >>
    BY <2>2, EmptySeq, MemoAssumption DEF OneEach
  <2> QED BY <2>1, <2>2
<1>2. /\ remember(m, entry) \in Seq(MemoEntry)
      /\ Len(remember(m, entry)) <= MaxMemo
      /\ OneEach(remember(m, entry))
      /\ \A i \in DOMAIN remember(m, entry) :
           \/ remember(m, entry)[i] = entry
           \/ \E j \in DOMAIN m : remember(m, entry)[i] = m[j]
  BY <1>1, RememberKeeps
<1>3. /\ memo'[q] = remember(m, entry)
      /\ \A x \in Queues \ {q} : memo'[x] = memo[x]
      /\ memo' \in [Queues -> Seq(MemoEntry)]
  BY <1>0, <1>2
<1>4. MemoBounded'
  BY <1>2, <1>3 DEF MemoBounded, OneEach
<1>5. ASSUME NEW x \in Queues, NEW i \in DOMAIN memo'[x]
      PROVE  \/ x = q /\ memo'[x][i] = entry
             \/ \E j \in DOMAIN memo[x] : memo'[x][i] = memo[x][j]
  <2>1. CASE x = q
    <3>1. CASE memo'[x][i] = entry
      BY <2>1, <3>1
    <3>2. CASE \E j \in DOMAIN m : memo'[x][i] = m[j]
      <4>1. m = memo[q]
        BY <3>2, EmptySeq
      <4> QED BY <2>1, <3>2, <4>1
    <3> QED BY <1>2, <1>3, <2>1, <3>1, <3>2
  <2>2. CASE x # q
    BY <1>3, <2>2
  <2> QED BY <2>1, <2>2
<1> QED BY <1>3, <1>4, <1>5

\* A rejection is remembered: nothing is claimed to have succeeded.
LEMMA RejectionWritten ==
  ASSUME TypeOK, MemoBounded, MemoSound, NEW r \in Requests, record_rejection(r),
         effects' = effects
  PROVE  memo' \in [Queues -> Seq(MemoEntry)] /\ MemoBounded' /\ MemoSound'
<1> DEFINE entry == Memo(r, FALSE)
<1>1. /\ r.queue \in Queues /\ entry \in MemoEntry /\ ~entry.ok
      /\ memo[r.queue] \in Seq(MemoEntry)
  BY DEF Memo, MemoEntry, Requests, TypeOK
<1>2. memo' = [memo EXCEPT ![r.queue] = remember(memo[r.queue], entry)]
  BY DEF record_rejection
<1> HIDE DEF entry
<1>3. /\ memo' \in [Queues -> Seq(MemoEntry)]
      /\ MemoBounded'
      /\ \A x \in Queues : \A i \in DOMAIN memo'[x] :
           \/ x = r.queue /\ memo'[x][i] = entry
           \/ \E j \in DOMAIN memo[x] : memo'[x][i] = memo[x][j]
  BY <1>1, <1>2, EntryWritten
<1>4. MemoSound'
  BY <1>1, <1>3 DEF MemoSound
<1> QED BY <1>3, <1>4

\* A success is remembered together with its effect.
LEMMA SuccessWritten ==
  ASSUME TypeOK, MemoBounded, MemoSound, NEW r \in Requests,
         NEW m \in Seq(MemoEntry), m = memo[r.queue] \/ m = << >>,
         memo' = [memo EXCEPT ![r.queue] = remember(m, Memo(r, TRUE))],
         effects' = effects \cup
           {[queue |-> r.queue, attempt |-> r.attempt, content |-> r.content]}
  PROVE  /\ memo' \in [Queues -> Seq(MemoEntry)] /\ MemoBounded' /\ MemoSound'
         /\ effects' \subseteq [queue : Queues, attempt : AttemptId, content : Fingerprints]
<1> DEFINE entry == Memo(r, TRUE)
<1>1. /\ r.queue \in Queues /\ entry \in MemoEntry
      /\ entry.attempt = r.attempt /\ entry.fingerprint = r.content
  BY DEF Memo, MemoEntry, Requests
<1>2. memo' = [memo EXCEPT ![r.queue] = remember(m, entry)]
  OBVIOUS
<1>6. /\ [queue |-> r.queue, attempt |-> entry.attempt, content |-> entry.fingerprint] \in effects'
      /\ effects \subseteq effects'
  BY <1>1
<1> HIDE DEF entry
<1>3. /\ memo' \in [Queues -> Seq(MemoEntry)]
      /\ MemoBounded'
      /\ \A x \in Queues : \A i \in DOMAIN memo'[x] :
           \/ x = r.queue /\ memo'[x][i] = entry
           \/ \E j \in DOMAIN memo[x] : memo'[x][i] = memo[x][j]
  BY <1>1, <1>2, EntryWritten
<1>4. MemoSound'
  <2> SUFFICES ASSUME NEW x \in Queues, NEW i \in DOMAIN memo'[x], memo'[x][i].ok
               PROVE  [queue |-> x, attempt |-> memo'[x][i].attempt,
                       content |-> memo'[x][i].fingerprint] \in effects'
    BY DEF MemoSound
  <2>1. CASE x = r.queue /\ memo'[x][i] = entry
    BY <1>6, <2>1, Zenon
  <2>2. CASE \E j \in DOMAIN memo[x] : memo'[x][i] = memo[x][j]
    BY <1>6, <2>2, Zenon DEF MemoSound
  <2> QED BY <1>3, <2>1, <2>2
<1>5. effects' \subseteq [queue : Queues, attempt : AttemptId, content : Fingerprints]
  BY DEF TypeOK, Requests
<1> QED BY <1>3, <1>4, <1>5

\* observe() of a record that classify() accepts forgets no act: the tracker
\* only moves forward.
LEMMA ObservedCovers ==
  ASSUME TypeOK, TrackerCovers, NEW p \in Provenance, Accepts(p), Observe(p),
         accepted' = accepted, life' = life
  PROVE  /\ tracker' \in [Publishers -> [incarnation : Nat, boot : Boots \cup {0}, epoch : Nat,
                                         sequence : Nat]]
         /\ TrackerCovers'
<1>1. /\ p.publisher \in Publishers /\ p.incarnation \in Nat /\ p.incarnation >= 1
      /\ p.boot \in Boots /\ p.epoch \in Nat /\ p.sequence \in Nat
  BY AttemptsAssumption DEF Provenance, Incarnations, Epochs, SequenceNos
<1>2. /\ tracker' \in [Publishers -> [incarnation : Nat, boot : Boots \cup {0}, epoch : Nat,
                                      sequence : Nat]]
      /\ tracker'[p.publisher].incarnation = p.incarnation
      /\ tracker'[p.publisher].sequence = p.sequence
      /\ \A x \in Publishers \ {p.publisher} : tracker'[x] = tracker[x]
  BY <1>1 DEF TypeOK, Observe
<1>3. \/ p.incarnation > tracker[p.publisher].incarnation
      \/ /\ p.incarnation = tracker[p.publisher].incarnation
         /\ p.sequence > tracker[p.publisher].sequence
  BY <1>1 DEF Accepts
<1>4. /\ tracker[p.publisher].incarnation \in Nat
      /\ tracker[p.publisher].sequence \in Nat
  BY <1>1 DEF TypeOK
<1>5. TrackerCovers'
  <2> SUFFICES ASSUME NEW id \in Identity, accepted[id] # 0
               PROVE  /\ id.life <= life
                      /\ id.life = life =>
                           \/ id.incarnation < tracker'[id.publisher].incarnation
                           \/ /\ id.incarnation = tracker'[id.publisher].incarnation
                              /\ id.sequence <= tracker'[id.publisher].sequence
    BY DEF TrackerCovers
  <2>1. id.publisher \in Publishers /\ id.incarnation \in Nat /\ id.sequence \in Nat
    BY AttemptsAssumption DEF Identity, Incarnations, SequenceNos
  <2>2. CASE id.publisher # p.publisher
    BY <1>2, <2>1, <2>2 DEF TrackerCovers
  <2>3. CASE id.publisher = p.publisher
    BY <1>1, <1>2, <1>3, <1>4, <2>1, <2>3 DEF TrackerCovers
  <2> QED BY <2>2, <2>3
<1> QED BY <1>2, <1>5

\* An accepted act that is counted had not been counted before.
LEMMA CountedOnce ==
  ASSUME TypeOK, TrackerCovers, AtMostOnce, NEW p \in Provenance, Accepts(p), Observe(p),
         Count(p), life' = life
  PROVE  /\ tracker' \in [Publishers -> [incarnation : Nat, boot : Boots \cup {0}, epoch : Nat,
                                         sequence : Nat]]
         /\ accepted' \in [Identity -> Nat]
         /\ AtMostOnce'
         /\ TrackerCovers'
<1> DEFINE me == [publisher |-> p.publisher, incarnation |-> p.incarnation,
                  sequence |-> p.sequence, life |-> life]
<1>1. /\ p.publisher \in Publishers /\ p.incarnation \in Nat /\ p.incarnation >= 1
      /\ p.boot \in Boots /\ p.epoch \in Nat /\ p.sequence \in Nat
  BY AttemptsAssumption DEF Provenance, Incarnations, Epochs, SequenceNos
<1>2. me \in Identity
  BY DEF Identity, Provenance, TypeOK
<1>3. /\ tracker' \in [Publishers -> [incarnation : Nat, boot : Boots \cup {0}, epoch : Nat,
                                      sequence : Nat]]
      /\ tracker'[p.publisher].incarnation = p.incarnation
      /\ tracker'[p.publisher].sequence = p.sequence
      /\ \A x \in Publishers \ {p.publisher} : tracker'[x] = tracker[x]
  BY <1>1 DEF TypeOK, Observe
<1>4. \/ p.incarnation > tracker[p.publisher].incarnation
      \/ /\ p.incarnation = tracker[p.publisher].incarnation
         /\ p.sequence > tracker[p.publisher].sequence
  BY <1>1 DEF Accepts
<1>5. /\ tracker[p.publisher].incarnation \in Nat
      /\ tracker[p.publisher].sequence \in Nat
      /\ life \in Nat
  BY <1>1, AttemptsAssumption DEF TypeOK, Lives
<1>6. accepted[me] = 0
  BY <1>1, <1>2, <1>4, <1>5 DEF TrackerCovers
<1>7. /\ accepted' \in [Identity -> Nat]
      /\ accepted'[me] = 1
      /\ \A id \in Identity \ {me} : accepted'[id] = accepted[id]
  <2>1. accepted \in [Identity -> Nat] /\ accepted' = [accepted EXCEPT ![me] = accepted[me] + 1]
    BY DEF TypeOK, Count
  <2> HIDE DEF me
  <2> QED BY <1>2, <1>6, <2>1
<1>8. AtMostOnce'
  BY <1>7 DEF AtMostOnce
<1>9. TrackerCovers'
  <2> SUFFICES ASSUME NEW id \in Identity, accepted'[id] # 0
               PROVE  /\ id.life <= life
                      /\ id.life = life =>
                           \/ id.incarnation < tracker'[id.publisher].incarnation
                           \/ /\ id.incarnation = tracker'[id.publisher].incarnation
                              /\ id.sequence <= tracker'[id.publisher].sequence
    BY DEF TrackerCovers
  <2>1. id.publisher \in Publishers /\ id.incarnation \in Nat /\ id.sequence \in Nat
    BY AttemptsAssumption DEF Identity, Incarnations, SequenceNos
  <2>2. CASE id = me
    BY <1>1, <1>3, <1>5, <2>2
  <2>3. CASE id # me /\ id.publisher # p.publisher
    BY <1>3, <1>7, <2>1, <2>3 DEF TrackerCovers
  <2>4. CASE id # me /\ id.publisher = p.publisher
    <3>1. accepted[id] # 0
      BY <1>7, <2>4
    <3> QED BY <1>1, <1>3, <1>4, <1>5, <2>1, <2>4, <3>1 DEF TrackerCovers
  <2> QED BY <2>2, <2>3, <2>4
<1> QED BY <1>3, <1>7, <1>8, <1>9

\* The part of the invariant that is about memo, tracker and histories.
AttemptInv ==
  /\ generation \in [Queues -> 0..MaxGeneration]
  /\ memo \in [Queues -> Seq(MemoEntry)]
  /\ tracker \in [Publishers -> [incarnation : Nat, boot : Boots \cup {0}, epoch : Nat,
                                 sequence : Nat]]
  /\ accepted \in [Identity -> Nat]
  /\ effects \subseteq [queue : Queues, attempt : AttemptId, content : Fingerprints]
  /\ MemoBounded /\ MemoSound
  /\ AtMostOnce /\ TrackerCovers

\* Whatever apply_existing_locked decides, it keeps that part.
LEMMA PathKeeps ==
  ASSUME IInv, NEW r \in Requests, NEW advances \in BOOLEAN, life' = life,
         Conflicts(r) \/ RefusesEarly(r) \/ RefusesLate(r) \/ Applies(r, advances)
  PROVE  AttemptInv'
<1>1. /\ TypeOK /\ MemoBounded /\ MemoSound /\ AtMostOnce /\ TrackerCovers
      /\ r.provenance \in Provenance /\ r.queue \in Queues
  BY DEF IInv, Requests
<1>2. CASE Conflicts(r) \/ RefusesEarly(r)
  <2>1. record_rejection(r) /\ UNCHANGED <<tracker, generation, accepted, effects>>
    BY <1>2 DEF Conflicts, RefusesEarly
  <2>2. memo' \in [Queues -> Seq(MemoEntry)] /\ MemoBounded' /\ MemoSound'
    BY <1>1, <2>1, RejectionWritten
  <2>3. AtMostOnce' /\ TrackerCovers'
    BY <1>1, <2>1 DEF AtMostOnce, TrackerCovers
  <2> QED BY <1>1, <2>1, <2>2, <2>3 DEF AttemptInv, TypeOK
<1>3. CASE RefusesLate(r)
  <2>1. /\ Accepts(r.provenance) /\ Observe(r.provenance) /\ record_rejection(r)
        /\ UNCHANGED <<generation, accepted, effects>>
    BY <1>3 DEF RefusesLate
  <2>2. memo' \in [Queues -> Seq(MemoEntry)] /\ MemoBounded' /\ MemoSound'
    BY <1>1, <2>1, RejectionWritten
  <2>3. /\ tracker' \in [Publishers -> [incarnation : Nat, boot : Boots \cup {0}, epoch : Nat,
                                        sequence : Nat]]
        /\ TrackerCovers'
    BY <1>1, <2>1, ObservedCovers
  <2>4. AtMostOnce'
    BY <1>1, <2>1 DEF AtMostOnce
  <2> QED BY <1>1, <2>1, <2>2, <2>3, <2>4 DEF AttemptInv, TypeOK
<1>4. CASE Applies(r, advances)
  <2>1. /\ Accepts(r.provenance) /\ Observe(r.provenance) /\ Count(r.provenance)
        /\ advances => CanAdvance(r.queue)
        /\ generation' = [generation EXCEPT ![r.queue] = IF advances THEN @ + 1 ELSE @]
        /\ memo' = [memo EXCEPT ![r.queue] = remember(memo[r.queue], Memo(r, TRUE))]
        /\ effects' = effects \cup
             {[queue |-> r.queue, attempt |-> r.attempt, content |-> r.content]}
    BY <1>4 DEF Applies
  <2>2. memo[r.queue] \in Seq(MemoEntry)
    BY <1>1 DEF TypeOK
  <2>3. /\ memo' \in [Queues -> Seq(MemoEntry)] /\ MemoBounded' /\ MemoSound'
        /\ effects' \subseteq [queue : Queues, attempt : AttemptId, content : Fingerprints]
    BY <1>1, <2>1, <2>2, SuccessWritten
  <2>4. /\ tracker' \in [Publishers -> [incarnation : Nat, boot : Boots \cup {0}, epoch : Nat,
                                        sequence : Nat]]
        /\ accepted' \in [Identity -> Nat] /\ AtMostOnce' /\ TrackerCovers'
    BY <1>1, <2>1, CountedOnce
  <2>5. generation' \in [Queues -> 0..MaxGeneration]
    BY <1>1, <2>1, AttemptsAssumption DEF TypeOK, CanAdvance
  <2> QED BY <2>3, <2>4, <2>5 DEF AttemptInv
<1> QED BY <1>2, <1>3, <1>4

-----------------------------------------------------------------------------
(* The reservations *)

\* The part of the invariant that is about reservations.
PlanInv ==
  /\ plans \subseteq [attempt : AttemptId, queue : Queues, generation : Generations]
  /\ pending \in Seq(AttemptId)
  /\ ReservedOnce /\ PendingMirrorsPlans

\* A list and a set of reservations that name each other's attempts name the same.
LEMMA SameAttempts ==
  ASSUME NEW f, NEW D, NEW S,
         \A i \in D : \E a \in S : f[i] = a.attempt,
         \A a \in S : \E i \in D : f[i] = a.attempt
  PROVE  {f[i] : i \in D} = {a.attempt : a \in S}
<1>1. ASSUME NEW x \in {f[i] : i \in D} PROVE x \in {a.attempt : a \in S}
  <2>1. PICK i \in D : x = f[i]
    OBVIOUS
  <2> QED BY <2>1
<1>2. ASSUME NEW x \in {a.attempt : a \in S} PROVE x \in {f[i] : i \in D}
  <2>1. PICK a \in S : x = a.attempt
    OBVIOUS
  <2> QED BY <2>1
<1> QED BY <1>1, <1>2

\* Releasing a reservation takes its one pending entry out and nothing else.
LEMMA ReleaseKeeps ==
  ASSUME IInv, NEW plan \in plans, Release(plan), closed' = closed
  PROVE  PlanInv'
<1>1. /\ plans \subseteq [attempt : AttemptId, queue : Queues, generation : Generations]
      /\ pending \in Seq(AttemptId) /\ closed \in BOOLEAN
      /\ ReservedOnce /\ PendingMirrorsPlans
  BY DEF IInv, TypeOK
<1>2. plans' = plans \ {plan} /\ plan.attempt \in AttemptId
  BY <1>1 DEF Release
<1>3. IsFiniteSet(plans') /\ Cardinality(plans') = Cardinality(plans) - 1
  BY <1>1, <1>2, FS_RemoveElement DEF ReservedOnce
<1>4. /\ plans' \subseteq [attempt : AttemptId, queue : Queues, generation : Generations]
      /\ \A a, b \in plans' : a.attempt = b.attempt => a = b
  BY <1>1, <1>2 DEF ReservedOnce
<1>5. DOMAIN pending = 1..Len(pending) /\ Len(pending) \in Nat
  BY <1>1, LenProperties
<1>6. CASE closed
  <2>1. pending' = << >>
    BY <1>1, <1>6, EmptySeq DEF ReservedOnce, Release
  <2>2. ReservedOnce'
    BY <1>3, <1>4, <2>1, EmptySeq DEF ReservedOnce
  <2>3. PendingMirrorsPlans'
    BY <1>6 DEF PendingMirrorsPlans
  <2> QED BY <1>4, <2>1, <2>2, <2>3, EmptySeq DEF PlanInv
<1>7. CASE ~closed
  <2> DEFINE First(i) == /\ pending[i] = plan.attempt
                         /\ \A j \in 1..(i - 1) : pending[j] # plan.attempt
             k == CHOOSE i \in DOMAIN pending : First(i)
             n == Len(pending)
             left == SubSeq(pending, 1, k - 1)
             right == SubSeq(pending, k + 1, n)
  <2>1. {pending[i] : i \in DOMAIN pending} = {a.attempt : a \in plans}
    BY <1>1, <1>7 DEF PendingMirrorsPlans
  <2>2. PICK h \in DOMAIN pending : pending[h] = plan.attempt
    BY <2>1
  <2>3. First(h)
    BY <1>1, <1>5, <2>2 DEF ReservedOnce
  <2>4. k \in DOMAIN pending /\ First(k)
    BY <2>2, <2>3
  <2>5. pending' = left \o right
    BY <2>2 DEF Release
  <2>6. k \in 1..n /\ n \in Nat /\ pending[k] = plan.attempt
    BY <1>5, <2>4
  <2> HIDE DEF k, n, First
  <2>7. \A i \in 1..n : pending[i] \in AttemptId
    BY <1>1, ElementOfSeq DEF n
  <2>8. /\ left \in Seq(AttemptId) /\ Len(left) = k - 1
        /\ \A i \in 1..(k - 1) : left[i] = pending[i]
    <3>1. \A i \in 1..(k - 1) : pending[i] \in AttemptId
      BY <2>6, <2>7
    <3>2. /\ left \in Seq(AttemptId)
          /\ Len(left) = IF 1 <= k - 1 THEN (k - 1) - 1 + 1 ELSE 0
          /\ \A i \in 1..((k - 1) - 1 + 1) : left[i] = pending[1 + i - 1]
      BY <2>6, <3>1, SubSeqProperties
    <3> HIDE DEF left
    <3> QED BY <2>6, <3>2
  <2>9. /\ right \in Seq(AttemptId) /\ Len(right) = n - k
        /\ \A i \in 1..(n - k) : right[i] = pending[i + k]
    <3>1. \A i \in (k + 1)..n : pending[i] \in AttemptId
      BY <2>6, <2>7
    <3>2. /\ right \in Seq(AttemptId)
          /\ Len(right) = IF k + 1 <= n THEN n - (k + 1) + 1 ELSE 0
          /\ \A i \in 1..(n - (k + 1) + 1) : right[i] = pending[(k + 1) + i - 1]
      BY <2>6, <3>1, SubSeqProperties
    <3> HIDE DEF right
    <3>3. \A i \in 1..(n - k) : right[i] = pending[(k + 1) + i - 1]
      BY <2>6, <3>2
    <3>4. \A i \in 1..(n - k) : (k + 1) + i - 1 = i + k
      BY <2>6
    <3> QED BY <2>6, <3>2, <3>3, <3>4
  <2> HIDE DEF left, right
  <2>10. /\ pending' \in Seq(AttemptId) /\ Len(pending') = n - 1
         /\ DOMAIN pending' = 1..(n - 1)
         /\ \A i \in 1..(n - 1) : pending'[i] = IF i < k THEN pending[i] ELSE pending[i + 1]
    <3>1. /\ pending' \in Seq(AttemptId)
          /\ Len(pending') = Len(left) + Len(right)
          /\ \A i \in 1..(Len(left) + Len(right)) :
               pending'[i] = IF i <= Len(left) THEN left[i] ELSE right[i - Len(left)]
      BY <2>5, <2>8, <2>9, ConcatProperties
    <3>2. Len(pending') = n - 1
      BY <2>6, <2>8, <2>9, <3>1
    <3>3. DOMAIN pending' = 1..(n - 1)
      BY <3>1, <3>2, LenProperties
    <3>4. ASSUME NEW i \in 1..(n - 1)
          PROVE  pending'[i] = IF i < k THEN pending[i] ELSE pending[i + 1]
      <4>1. pending'[i] = IF i <= k - 1 THEN left[i] ELSE right[i - (k - 1)]
        BY <2>6, <2>8, <2>9, <3>1
      <4>2. CASE i < k
        BY <2>6, <2>8, <4>1, <4>2
      <4>3. CASE ~(i < k)
        <5>1. i - (k - 1) \in 1..(n - k) /\ (i - (k - 1)) + k = i + 1
          BY <2>6, <4>3
        <5> QED BY <2>6, <2>9, <4>1, <4>3, <5>1
      <4> QED BY <4>2, <4>3
    <3> QED BY <3>1, <3>2, <3>3, <3>4
  <2>11. \A i, j \in 1..n : pending[i] = pending[j] => i = j
    BY <1>1, <1>5 DEF ReservedOnce, n
  <2>12. \A i, j \in 1..(n - 1) : pending'[i] = pending'[j] => i = j
    BY <2>6, <2>10, <2>11
  <2>13. ReservedOnce'
    BY <1>3, <1>4, <1>7, <2>10, <2>12 DEF ReservedOnce
  <2>14. \A i \in 1..(n - 1) : \E a \in plans' : pending'[i] = a.attempt
    <3> TAKE i \in 1..(n - 1)
    <3>1. PICK j \in 1..n : j # k /\ pending'[i] = pending[j]
      BY <2>6, <2>10
    <3>2. PICK a \in plans : pending[j] = a.attempt
      BY <1>5, <2>1 DEF n
    <3>3. a # plan
      BY <2>6, <2>11, <3>1, <3>2
    <3> QED BY <1>2, <3>1, <3>2, <3>3
  <2>15. \A a \in plans' : \E i \in 1..(n - 1) : pending'[i] = a.attempt
    <3> TAKE a \in plans'
    <3>1. a \in plans /\ a.attempt # plan.attempt
      BY <1>1, <1>2 DEF ReservedOnce
    <3>2. PICK j \in 1..n : pending[j] = a.attempt
      BY <1>5, <2>1, <3>1 DEF n
    <3>3. CASE j < k
      <4>1. j \in 1..(n - 1)
        BY <2>6, <3>3
      <4> QED BY <2>10, <3>2, <3>3, <4>1
    <3>4. CASE j > k
      <4>1. j - 1 \in 1..(n - 1) /\ ~(j - 1 < k) /\ (j - 1) + 1 = j
        BY <2>6, <3>4
      <4> QED BY <2>10, <3>2, <4>1
    <3>5. j # k
      BY <2>6, <3>1, <3>2
    <3> QED BY <2>6, <3>3, <3>4, <3>5
  <2>16. {pending'[i] : i \in DOMAIN pending'} = {a.attempt : a \in plans'}
    <3>1. DOMAIN pending' = 1..(n - 1)
      BY <2>10
    <3>2. {pending'[i] : i \in 1..(n - 1)} = {a.attempt : a \in plans'}
      BY <2>14, <2>15, SameAttempts
    <3> QED BY <3>1, <3>2, Zenon
  <2>17. Len(pending) = Cardinality(plans) /\ Cardinality(plans) <= MaxPending
    BY <1>1, <1>7 DEF PendingMirrorsPlans
  <2>18. PendingMirrorsPlans'
    BY <1>3, <1>5, <2>6, <2>10, <2>16, <2>17, AttemptsAssumption DEF PendingMirrorsPlans, n
  <2> QED BY <1>4, <2>10, <2>13, <2>18 DEF PlanInv
<1> QED BY <1>1, <1>6, <1>7

\* What a plan whose record is synced does to the reservations.
Reserve(plan) ==
  /\ plans' = plans \cup {plan}
  /\ LET grown == Append(pending, plan.attempt) IN
     pending' = IF Len(grown) > MaxPending THEN Tail(grown) ELSE grown

\* A new reservation adds its pending entry at the end; the list is not full,
\* since there are as many reservations as entries.
LEMMA ReserveKeeps ==
  ASSUME IInv, ~closed, closed' = closed,
         NEW plan \in [attempt : AttemptId, queue : Queues, generation : Generations],
         Cardinality(plans) < MaxPending,
         \A other \in plans : other.attempt # plan.attempt,
         Reserve(plan)
  PROVE  PlanInv'
<1> DEFINE n == Len(pending)
<1>1. /\ plans \subseteq [attempt : AttemptId, queue : Queues, generation : Generations]
      /\ pending \in Seq(AttemptId)
      /\ ReservedOnce /\ PendingMirrorsPlans
  BY DEF IInv, TypeOK
<1>2. /\ DOMAIN pending = 1..n /\ n \in Nat
      /\ n = Cardinality(plans) /\ n + 1 <= MaxPending
      /\ {pending[i] : i \in DOMAIN pending} = {a.attempt : a \in plans}
  <2>1. /\ n = Cardinality(plans)
        /\ {pending[i] : i \in DOMAIN pending} = {a.attempt : a \in plans}
    BY <1>1 DEF PendingMirrorsPlans
  <2>2. DOMAIN pending = 1..n /\ n \in Nat
    BY <1>1, LenProperties
  <2>3. n + 1 <= MaxPending
    BY <2>1, <2>2, AttemptsAssumption
  <2> QED BY <2>1, <2>2, <2>3
<1>3. /\ Append(pending, plan.attempt) \in Seq(AttemptId)
      /\ Len(Append(pending, plan.attempt)) = n + 1
      /\ \A i \in 1..n : Append(pending, plan.attempt)[i] = pending[i]
      /\ Append(pending, plan.attempt)[n + 1] = plan.attempt
  BY <1>1, AppendProperties
<1>4. pending' = Append(pending, plan.attempt) /\ plans' = plans \cup {plan}
  BY <1>2, <1>3, AttemptsAssumption DEF Reserve
<1>5. /\ DOMAIN pending' = 1..(n + 1)
      /\ \A i \in 1..n : pending'[i] = pending[i]
      /\ pending'[n + 1] = plan.attempt
  BY <1>3, <1>4, LenProperties
<1> HIDE DEF n
<1>6. plan \notin plans
  OBVIOUS
<1>7. IsFiniteSet(plans') /\ Cardinality(plans') = n + 1
  BY <1>1, <1>2, <1>4, <1>6, FS_AddElement DEF ReservedOnce
<1>8. \A i \in 1..n : pending[i] # plan.attempt
  BY <1>2
<1>9. ReservedOnce'
  <2>1. \A a, b \in plans' : a.attempt = b.attempt => a = b
    BY <1>1, <1>4 DEF ReservedOnce
  <2>2. \A i, j \in DOMAIN pending' : pending'[i] = pending'[j] => i = j
    <3> SUFFICES ASSUME NEW i \in 1..(n + 1), NEW j \in 1..(n + 1), pending'[i] = pending'[j]
                 PROVE  i = j
      BY <1>5
    <3>1. CASE i \in 1..n /\ j \in 1..n
      BY <1>1, <1>2, <1>5, <3>1 DEF ReservedOnce
    <3>2. CASE i = n + 1 \/ j = n + 1
      BY <1>2, <1>5, <1>8, <3>2
    <3> QED BY <1>2, <3>1, <3>2
  <2> QED BY <1>7, <2>1, <2>2 DEF ReservedOnce
<1>10. {pending'[i] : i \in 1..(n + 1)} = {a.attempt : a \in plans'}
  <2>1. \A i \in 1..(n + 1) : \E a \in plans' : pending'[i] = a.attempt
    <3> TAKE i \in 1..(n + 1)
    <3>1. CASE i \in 1..n
      <4>1. PICK a \in plans : pending[i] = a.attempt
        BY <1>2, <3>1
      <4> QED BY <1>4, <1>5, <3>1, <4>1
    <3>2. CASE i = n + 1
      BY <1>4, <1>5, <3>2
    <3>3. i \in 1..n \/ i = n + 1
      BY <1>2
    <3> QED BY <3>1, <3>2, <3>3
  <2>2. \A a \in plans' : \E i \in 1..(n + 1) : pending'[i] = a.attempt
    <3> TAKE a \in plans'
    <3>0. 1..n \subseteq 1..(n + 1) /\ n + 1 \in 1..(n + 1)
      BY <1>2
    <3>1. CASE a \in plans
      <4>1. PICK i \in 1..n : pending[i] = a.attempt
        BY <1>2, <3>1
      <4> QED BY <1>5, <3>0, <4>1
    <3>2. CASE a = plan
      BY <1>5, <3>0, <3>2
    <3> QED BY <1>4, <3>1, <3>2
  <2> QED BY <2>1, <2>2, SameAttempts
<1>11. PendingMirrorsPlans'
  <2>1. {pending'[i] : i \in DOMAIN pending'} = {a.attempt : a \in plans'}
    BY <1>5, <1>10, Zenon
  <2> QED BY <1>2, <1>3, <1>4, <1>7, <2>1 DEF PendingMirrorsPlans
<1> QED BY <1>1, <1>3, <1>4, <1>9, <1>11 DEF PlanInv

-----------------------------------------------------------------------------
(* The operations *)

\* The parts make up the invariant.
LEMMA PartsSuffice ==
  ASSUME AttemptInv', PlanInv', epoch' \in Epochs, life' \in Lives, closed' \in BOOLEAN,
         healthy' \in BOOLEAN
  PROVE  IInv'
BY DEF IInv, TypeOK, AttemptInv, PlanInv

\* What leaves memo, tracker and histories alone keeps their part.
LEMMA AttemptsUnchanged ==
  ASSUME IInv, UNCHANGED <<life, attemptVars>>
  PROVE  AttemptInv'
BY DEF IInv, TypeOK, AttemptInv, attemptVars, MemoBounded, MemoSound, AtMostOnce, TrackerCovers

\* What leaves the reservations alone keeps their part.
LEMMA PlansUnchanged ==
  ASSUME IInv, UNCHANGED <<closed, planVars>>
  PROVE  PlanInv'
BY DEF IInv, TypeOK, PlanInv, planVars, ReservedOnce, PendingMirrorsPlans

\* A declaration starts a memo of its own.
LEMMA DeclareQueueKeeps ==
  ASSUME IInv, NEW q \in Queues, NEW p \in Provenance, DeclareQueue(q, p)
  PROVE  IInv'
<1> DEFINE r == Request(q, p, OwnAttempt(p), Declaration)
<1>1. /\ TypeOK /\ MemoBounded /\ MemoSound /\ AtMostOnce /\ TrackerCovers
  BY DEF IInv
<1>2. /\ r \in Requests /\ r.queue = q /\ r.attempt = OwnAttempt(p) /\ r.content = Declaration
  BY OwnAttemptType DEF Request, Requests, Fingerprints
<1>3. /\ memo' = [memo EXCEPT ![r.queue] = remember(<< >>, Memo(r, TRUE))]
      /\ effects' = effects \cup
           {[queue |-> r.queue, attempt |-> r.attempt, content |-> r.content]}
  BY <1>2 DEF DeclareQueue
<1> HIDE DEF r
<1>4. << >> \in Seq(MemoEntry)
  BY EmptySeq
<1>5. /\ memo' \in [Queues -> Seq(MemoEntry)] /\ MemoBounded' /\ MemoSound'
      /\ effects' \subseteq [queue : Queues, attempt : AttemptId, content : Fingerprints]
  BY <1>1, <1>2, <1>3, <1>4, SuccessWritten
<1>6. /\ tracker' \in [Publishers -> [incarnation : Nat, boot : Boots \cup {0}, epoch : Nat,
                                      sequence : Nat]]
      /\ accepted' \in [Identity -> Nat] /\ AtMostOnce' /\ TrackerCovers'
  BY <1>1, CountedOnce DEF DeclareQueue
<1>7. generation' \in [Queues -> 0..MaxGeneration]
  BY <1>1, AttemptsAssumption DEF TypeOK, DeclareQueue
<1>8. AttemptInv'
  BY <1>5, <1>6, <1>7 DEF AttemptInv
<1>9. PlanInv'
  BY PlansUnchanged DEF DeclareQueue
<1> QED BY <1>1, <1>8, <1>9, PartsSuffice DEF DeclareQueue, TypeOK

\* A mutation, whatever the path decides.
LEMMA SubmitMutationKeeps ==
  ASSUME IInv, NEW q \in Queues, NEW p \in Provenance, NEW content \in Content,
         NEW e \in Epochs, NEW advances \in BOOLEAN, SubmitMutation(q, p, content, e, advances)
  PROVE  IInv'
<1> DEFINE r == Request(q, p, OwnAttempt(p), content)
<1>1. r \in Requests
  BY OwnAttemptType DEF Request, Requests, Fingerprints
<1>2. /\ Conflicts(r) \/ RefusesEarly(r) \/ RefusesLate(r) \/ Applies(r, advances)
      /\ UNCHANGED <<epoch, life, closed, healthy, planVars>>
  BY DEF SubmitMutation
<1> HIDE DEF r
<1>3. AttemptInv'
  BY <1>1, <1>2, PathKeeps
<1>4. PlanInv'
  BY <1>2, PlansUnchanged
<1> QED BY <1>2, <1>3, <1>4, PartsSuffice DEF IInv, TypeOK

\* A plan, whether its journal record is synced or not.
LEMMA PlanBackendApplyKeeps ==
  ASSUME IInv, NEW q \in Queues, NEW p \in Provenance, NEW g \in Generations,
         PlanBackendApply(q, p, g)
  PROVE  IInv'
<1> DEFINE plan == [attempt |-> OwnAttempt(p), queue |-> q, generation |-> g]
<1>1. /\ TypeOK /\ MemoBounded /\ MemoSound /\ AtMostOnce /\ TrackerCovers
  BY DEF IInv
<1>2. plan \in [attempt : AttemptId, queue : Queues, generation : Generations]
  BY OwnAttemptType
<1>3. /\ ~closed /\ Cardinality(plans) < MaxPending /\ Accepts(p) /\ Observe(p)
      /\ \A other \in plans : other.attempt # plan.attempt
      /\ UNCHANGED <<epoch, life, closed, generation, memo, effects>>
  BY DEF PlanBackendApply
<1>4. MemoBounded' /\ MemoSound'
  BY <1>1, <1>3 DEF MemoBounded, MemoSound
<1>5. CASE /\ plans' = plans \cup {plan}
           /\ LET grown == Append(pending, plan.attempt) IN
              pending' = IF Len(grown) > MaxPending THEN Tail(grown) ELSE grown
           /\ Count(p)
           /\ UNCHANGED healthy
  <2> HIDE DEF plan
  <2>1. PlanInv'
    BY <1>2, <1>3, <1>5, ReserveKeeps DEF Reserve
  <2>2. /\ tracker' \in [Publishers -> [incarnation : Nat, boot : Boots \cup {0}, epoch : Nat,
                                        sequence : Nat]]
        /\ accepted' \in [Identity -> Nat] /\ AtMostOnce' /\ TrackerCovers'
    BY <1>1, <1>3, <1>5, CountedOnce
  <2>3. AttemptInv'
    BY <1>1, <1>3, <1>4, <2>2 DEF AttemptInv, TypeOK
  <2> QED BY <1>1, <1>3, <1>5, <2>1, <2>3, PartsSuffice DEF TypeOK
<1>6. CASE /\ JournalFaults
           /\ healthy' \in {healthy, FALSE}
           /\ UNCHANGED <<planVars, accepted>>
  <2>1. PlanInv'
    BY <1>3, <1>6, PlansUnchanged
  <2>2. /\ tracker' \in [Publishers -> [incarnation : Nat, boot : Boots \cup {0}, epoch : Nat,
                                        sequence : Nat]]
        /\ TrackerCovers'
    BY <1>1, <1>3, <1>6, ObservedCovers
  <2>3. AtMostOnce'
    BY <1>1, <1>6 DEF AtMostOnce
  <2>4. AttemptInv'
    BY <1>1, <1>3, <1>4, <1>6, <2>2, <2>3 DEF AttemptInv, TypeOK
  <2> QED BY <1>1, <1>3, <1>6, <2>1, <2>4, PartsSuffice DEF TypeOK
<1> QED BY <1>5, <1>6 DEF PlanBackendApply

\* An acknowledgement, refused, replayed or applied.
LEMMA CommitBackendApplyKeeps ==
  ASSUME IInv, NEW plan \in plans, NEW p \in Provenance, NEW body \in Bodies,
         CommitBackendApply(plan, p, body)
  PROVE  IInv'
<1> DEFINE r == Request(plan.queue, p, plan.attempt,
                        [body |-> body, generation |-> plan.generation])
<1>1. r \in Requests
  BY DEF Request, Requests, Fingerprints, Content, IInv, TypeOK
<1>2. /\ UNCHANGED <<epoch, life, closed, healthy>>
      /\ \/ (Conflicts(r) \/ RefusesEarly(r) \/ RefusesLate(r)) /\ UNCHANGED planVars
         \/ Release(plan) /\ UNCHANGED attemptVars
         \/ Applies(r, FALSE) /\ Release(plan)
  BY DEF CommitBackendApply
<1> HIDE DEF r
<1>3. AttemptInv'
  BY <1>1, <1>2, PathKeeps, AttemptsUnchanged
<1>4. PlanInv'
  BY <1>2, PlansUnchanged, ReleaseKeeps
<1> QED BY <1>2, <1>3, <1>4, PartsSuffice DEF IInv, TypeOK

\* A restart empties the tracker: the acts of earlier lives are not its concern.
LEMMA RestartKeeps ==
  ASSUME IInv, Restart
  PROVE  IInv'
<1>1. /\ epoch' \in Epochs /\ life' \in Lives /\ closed' \in BOOLEAN /\ healthy' \in BOOLEAN
      /\ life \in Nat
  <2>1. epoch \in 1..MaxEpoch /\ life \in 1..MaxLife
    BY DEF IInv, TypeOK, Epochs, Lives
  <2>2. epoch < MaxEpoch /\ life < MaxLife /\ epoch' = epoch + 1 /\ life' = life + 1
    BY DEF Restart
  <2>3. closed' \in BOOLEAN /\ healthy' \in BOOLEAN
    BY DEF Restart
  <2> QED BY <2>1, <2>2, <2>3, AttemptsAssumption DEF Epochs, Lives
<1>2. tracker' \in [Publishers -> [incarnation : Nat, boot : Boots \cup {0}, epoch : Nat,
                                  sequence : Nat]]
  BY DEF Restart, NoState
<1>3. TrackerCovers'
  <2> SUFFICES ASSUME NEW id \in Identity, accepted[id] # 0
               PROVE  id.life < life'
    BY <1>1, AttemptsAssumption DEF TrackerCovers, Identity, Lives, Restart
  <2> QED BY <1>1, AttemptsAssumption DEF IInv, TrackerCovers, Identity, Lives, Restart
<1>4. MemoBounded' /\ MemoSound' /\ AtMostOnce'
  BY DEF IInv, Restart, MemoBounded, MemoSound, AtMostOnce
<1>5. AttemptInv'
  BY <1>2, <1>3, <1>4 DEF IInv, TypeOK, AttemptInv, Restart
<1>6. plans' = {} /\ pending' = << >> /\ plans = {}
  BY DEF Restart
<1>7. PlanInv'
  BY <1>6, EmptySeq, FS_EmptySet, AttemptsAssumption
     DEF PlanInv, ReservedOnce, PendingMirrorsPlans
<1> QED BY <1>1, <1>5, <1>7, PartsSuffice

\* Shutdown clears the pending list and leaves the reservations.
LEMMA ShutdownKeeps ==
  ASSUME IInv, Shutdown
  PROVE  IInv'
<1>1. AttemptInv'
  BY AttemptsUnchanged DEF Shutdown
<1>2. PlanInv'
  BY EmptySeq DEF IInv, TypeOK, PlanInv, Shutdown, ReservedOnce, PendingMirrorsPlans
<1> QED BY <1>1, <1>2, PartsSuffice DEF IInv, TypeOK, Shutdown

\* The invariant holds before the first operation.
LEMMA InitInv == Init => IInv
<1> SUFFICES ASSUME Init PROVE IInv
  OBVIOUS
<1>1. TypeOK
  <2>1. epoch \in Epochs /\ life \in Lives
    BY AttemptsAssumption DEF Init, Epochs, Lives
  <2>2. generation \in [Queues -> 0..MaxGeneration] /\ accepted \in [Identity -> Nat]
    BY AttemptsAssumption DEF Init
  <2>3. memo \in [Queues -> Seq(MemoEntry)] /\ pending \in Seq(AttemptId)
    BY EmptySeq DEF Init
  <2>4. tracker \in [Publishers -> [incarnation : Nat, boot : Boots \cup {0}, epoch : Nat,
                                    sequence : Nat]]
    BY DEF Init, NoState
  <2> QED BY <2>1, <2>2, <2>3, <2>4 DEF Init, TypeOK
<1>2. MemoBounded /\ MemoSound
  BY EmptySeq, MemoAssumption DEF Init, MemoBounded, MemoSound
<1>3. AtMostOnce /\ TrackerCovers
  BY DEF Init, AtMostOnce, TrackerCovers
<1>4. ReservedOnce /\ PendingMirrorsPlans
  BY EmptySeq, FS_EmptySet, AttemptsAssumption DEF Init, ReservedOnce, PendingMirrorsPlans
<1> QED BY <1>1, <1>2, <1>3, <1>4 DEF IInv

\* Every step of the fabric keeps it.
LEMMA NextInv == IInv /\ [Next]_vars => IInv'
<1> SUFFICES ASSUME IInv, [Next]_vars PROVE IInv'
  OBVIOUS
<1>1. ASSUME NEW q \in Queues, NEW p \in Provenance, DeclareQueue(q, p)
      PROVE  IInv'
  BY <1>1, DeclareQueueKeeps
<1>2. ASSUME NEW q \in Queues, NEW p \in Provenance, NEW content \in Content, NEW e \in Epochs,
             NEW advances \in BOOLEAN, SubmitMutation(q, p, content, e, advances)
      PROVE  IInv'
  BY <1>2, SubmitMutationKeeps
<1>3. ASSUME NEW q \in Queues, NEW p \in Provenance, NEW g \in Generations,
             PlanBackendApply(q, p, g)
      PROVE  IInv'
  BY <1>3, PlanBackendApplyKeeps
<1>4. ASSUME NEW plan \in plans, NEW p \in Provenance, NEW body \in Bodies,
             CommitBackendApply(plan, p, body)
      PROVE  IInv'
  BY <1>4, CommitBackendApplyKeeps
<1>5. ASSUME NEW plan \in plans, AbortBackendApply(plan)
      PROVE  IInv'
  BY <1>5, ReleaseKeeps, AttemptsUnchanged, PartsSuffice DEF AbortBackendApply, IInv, TypeOK
<1>6. CASE SyncFails
  BY <1>6, AttemptsUnchanged, PlansUnchanged, PartsSuffice DEF SyncFails, IInv, TypeOK
<1>7. CASE AdvanceEpoch
  <2>1. AttemptInv' /\ PlanInv'
    BY <1>7, AttemptsUnchanged, PlansUnchanged DEF AdvanceEpoch
  <2>2. epoch \in 1..MaxEpoch /\ epoch < MaxEpoch /\ epoch' = epoch + 1
    BY <1>7 DEF AdvanceEpoch, IInv, TypeOK, Epochs
  <2>3. epoch' \in Epochs
    BY <2>2, AttemptsAssumption DEF Epochs
  <2> QED BY <1>7, <2>1, <2>3, PartsSuffice DEF AdvanceEpoch, IInv, TypeOK
<1>8. CASE Shutdown
  BY <1>8, ShutdownKeeps
<1>9. CASE Restart
  BY <1>9, RestartKeeps
<1>10. CASE UNCHANGED vars
  BY <1>10, AttemptsUnchanged, PlansUnchanged, PartsSuffice DEF vars, IInv, TypeOK
<1> QED BY <1>1, <1>2, <1>3, <1>4, <1>5, <1>6, <1>7, <1>8, <1>9, <1>10 DEF Next

\* The invariant holds in every reachable state.
LEMMA Invariance == Spec => []IInv
BY InitInv, NextInv, PTL DEF Spec

-----------------------------------------------------------------------------
(* The theorems *)

\* Every variable of the mutation path keeps its type: in particular no memo
\* entry, plan or pending attempt is malformed, and generations do not wrap.
THEOREM TypeCorrect == Spec => []TypeOK
<1>1. IInv => TypeOK
  BY DEF IInv
<1> QED BY <1>1, Invariance, PTL

\* ProvenanceTracker and apply together: no act of a publisher takes effect
\* twice in one life of the fabric, for any number of queues, publishers and
\* sequences, whatever the memo has evicted.
THEOREM TakesEffectAtMostOnce == Spec => []AtMostOnce
<1>1. IInv => AtMostOnce
  BY DEF IInv
<1> QED BY <1>1, Invariance, PTL

\* record_rejection and the success entries of apply: an answer of success from
\* the memo always stands for a mutation that took effect.
THEOREM MemosSound == Spec => []MemoSound
<1>1. IInv => MemoSound
  BY DEF IInv
<1> QED BY <1>1, Invariance, PTL

\* remember(): a memo is never longer than max_attempt_memo and never answers an
\* attempt from two entries.
THEOREM MemosBounded == Spec => []MemoBounded
<1>1. IInv => MemoBounded
  BY DEF IInv
<1> QED BY <1>1, Invariance, PTL

\* plan, commit and abort of backend applies: until shutdown, pending_attempts_
\* and the reservations name the same attempts, and its drop of the oldest entry
\* never happens.
THEOREM PendingMirrored == Spec => []PendingMirrorsPlans
<1>1. IInv => PendingMirrorsPlans
  BY DEF IInv
<1> QED BY <1>1, Invariance, PTL
=============================================================================
