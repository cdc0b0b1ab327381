--------------------------- MODULE RecoveryProofs ---------------------------
(***************************************************************************)
(* Proofs about Recovery, for every value of its constants.  The argument  *)
(* is about what the file still tells after any number of appends, syncs   *)
(* and crashes; what a replay makes of the queues enters with its type     *)
(* only.                                                                   *)
(***************************************************************************)
EXTENDS Recovery, Induction, SequenceTheorems, TLAPS

-----------------------------------------------------------------------------
(* Requests, queues and what a request makes of a queue *)

MemoEntries == [attempt : Attempts, request : Requests, ok : BOOLEAN]

\* The first epoch and the first generation are within the bounds.
LEMMA Bounds ==
  /\ 1 \in Epochs /\ 1 \in Generations /\ Epochs \subseteq Nat /\ Generations \subseteq Nat
  /\ \A e \in Epochs : e >= 1 /\ e <= MaxEpoch
  /\ MaxEpoch \in Nat /\ MaxGeneration \in Nat /\ MaxAttempt \in Nat
BY RecoveryAssumption DEF Epochs, Generations

\* The lifecycle that a kind leads to is one.
LEMMA TargetType == \A kind \in LifecycleKinds : Target[kind] \in Lifecycles
<1>1. LifecycleKinds = {"validate_queue", "activate_queue", "request_drain", "cancel_drain",
                        "quiesce_queue", "fail_queue", "retire_queue"}
  BY DEF LifecycleKinds, Target
<1>2. /\ Target["validate_queue"] = "validated" /\ Target["activate_queue"] = "active"
      /\ Target["request_drain"] = "draining" /\ Target["cancel_drain"] = "active"
      /\ Target["quiesce_queue"] = "quiesced" /\ Target["fail_queue"] = "failed"
      /\ Target["retire_queue"] = "retired"
  BY DEF Target
<1> HIDE DEF Target
<1> QED BY <1>1, <1>2 DEF Lifecycles

\* What a request carries.
LEMMA RequestType ==
  ASSUME NEW m \in Requests
  PROVE  /\ m.attempt \in Attempts
         /\ m.kind = "declare_queue" => m.name \in Names /\ m.cls \in Generations /\ m.maximum = 0
         /\ m.kind = "set_thresholds" => m.maximum \in Maxima
<1> DEFINE all == PlainKinds \cup {"declare_queue", "set_thresholds"}
<1>1. \/ m \in [kind : all \cap {"declare_queue"}, attempt : Attempts, queue : {0}, generation : {0},
                name : Names, cls : Generations, maximum : {0}]
      \/ m \in [kind : all \cap {"set_thresholds"}, attempt : Attempts, queue : QueueIds,
                generation : Generations, name : {0}, cls : {0}, maximum : Maxima]
      \/ m \in [kind : all \cap PlainKinds, attempt : Attempts, queue : QueueIds,
                generation : Generations, name : {0}, cls : {0}, maximum : {0}]
  BY DEF Requests, RequestsOf
<1>2. "declare_queue" \notin PlainKinds /\ "set_thresholds" \notin PlainKinds
  BY DEF PlainKinds, LifecycleKinds, Target
<1> QED BY <1>1, <1>2

\* The requests of a step are requests.
LEMMA NextRequestType == NextRequests \subseteq Requests
<1> SUFFICES ASSUME NEW m \in NextRequests PROVE m \in Requests
  OBVIOUS
<1> QED BY DEF NextRequests, Requests, RequestsOf

\* What is remembered is a memo again.
LEMMA RememberType ==
  ASSUME NEW S, NEW m \in Seq(S), NEW entry \in S
  PROVE  remember(m, entry) \in Seq(S)
<1>1. Len(m) \in Nat /\ DOMAIN m = 1..Len(m) /\ m \in [1..Len(m) -> S]
  BY LenProperties
<1>2. [i \in DOMAIN m |-> IF m[i].attempt = entry.attempt THEN entry ELSE m[i]] \in Seq(S)
  <2> DEFINE f == [i \in 1..Len(m) |-> IF m[i].attempt = entry.attempt THEN entry ELSE m[i]]
  <2>1. f \in [1..Len(m) -> S]
    BY <1>1
  <2>2. f \in Seq(S)
    <3> HIDE DEF f
    <3> QED BY <1>1, <2>1, SeqDef
  <2> QED BY <1>1, <2>2
<1>3. Append(m, entry) \in Seq(S)
  BY AppendProperties
<1>4. ASSUME Len(m) >= MaxMemo, MaxMemo # 0 PROVE Append(Tail(m), entry) \in Seq(S)
  <2>1. Len(m) # 0
    BY <1>1, <1>4, MemoAssumption
  <2>2. m # << >>
    BY <2>1, EmptySeq
  <2>3. Tail(m) \in Seq(S)
    BY <2>2, HeadTailProperties
  <2> QED BY <2>3, AppendProperties
<1> QED BY <1>2, <1>3, <1>4 DEF remember

\* The memo entry of a request.
LEMMA EntryType ==
  ASSUME NEW m \in Requests, NEW ok \in BOOLEAN
  PROVE  Entry(m, ok) \in MemoEntries
BY RequestType, Zenon DEF Entry, MemoEntries

\* A queue that remembers one request more is a queue.
LEMMA RememberingType ==
  ASSUME NEW q \in QueueRecord, NEW m \in Requests, NEW ok \in BOOLEAN
  PROVE  [q EXCEPT !.memo = remember(@, Entry(m, ok))] \in QueueRecord
<1> DEFINE r == remember(q.memo, Entry(m, ok))
<1>1. q.memo \in Seq(MemoEntries)
  BY DEF QueueRecord, MemoEntries
<1>2. r \in Seq(MemoEntries)
  BY <1>1, EntryType, RememberType
<1>3. [q EXCEPT !.memo = remember(@, Entry(m, ok))] = [q EXCEPT !.memo = r]
  OBVIOUS
<1> HIDE DEF r
<1>4. [q EXCEPT !.memo = r] \in QueueRecord
  BY <1>2 DEF QueueRecord, MemoEntries
<1> QED BY <1>3, <1>4

\* What an accepted request makes of a queue is a queue.
LEMMA EffectType ==
  ASSUME NEW q \in QueueRecord, NEW m \in Requests,
         m.kind = "set_thresholds" /\ m.maximum # q.maximum => q.generation < MaxGeneration
  PROVE  Effect(q, m) \in QueueRecord
<1> DEFINE l == IF m.kind \in LifecycleKinds THEN Target[m.kind] ELSE q.lifecycle
           d == CASE Moves(q, m) /\ m.kind = "request_drain" -> "requested"
                  [] Moves(q, m) /\ m.kind = "quiesce_queue" -> "completed"
                  [] Moves(q, m) /\ m.kind \in {"cancel_drain", "retire_queue"} -> "idle"
                  [] m.kind = "submit_drain_evidence" -> "proven"
                  [] OTHER -> q.drain
           x == IF m.kind = "set_thresholds" THEN m.maximum ELSE q.maximum
           g == IF m.kind = "set_thresholds" /\ m.maximum # q.maximum THEN q.generation + 1
                ELSE q.generation
           f == CASE m.kind = "fence_queue" -> TRUE
                  [] m.kind = "unfence_queue" -> FALSE
                  [] OTHER -> q.fenced
           r == remember(q.memo, Entry(m, TRUE))
<1>1. q.lifecycle \in Lifecycles /\ q.drain \in {"idle", "requested", "proven", "completed"}
      /\ q.maximum \in Maxima \cup {0} /\ q.generation \in Generations /\ q.fenced \in BOOLEAN
      /\ q.memo \in Seq(MemoEntries)
  BY DEF QueueRecord, MemoEntries
<1>2. l \in Lifecycles
  BY <1>1, TargetType
<1>3. d \in {"idle", "requested", "proven", "completed"}
  BY <1>1
<1>4. x \in Maxima \cup {0}
  BY <1>1, RequestType
<1>5. g \in Generations
  BY <1>1, RecoveryAssumption DEF Generations
<1>6. f \in BOOLEAN
  BY <1>1
<1>7. r \in Seq(MemoEntries)
  BY <1>1, EntryType, RememberType
<1>8. Effect(q, m) = [q EXCEPT !.lifecycle = l, !.drain = d, !.maximum = x, !.generation = g,
                               !.fenced = f, !.memo = r]
  BY DEF Effect
<1> HIDE DEF l, d, x, g, f, r
<1>9. [q EXCEPT !.lifecycle = l, !.drain = d, !.maximum = x, !.generation = g,
                !.fenced = f, !.memo = r] \in QueueRecord
  BY <1>2, <1>3, <1>4, <1>5, <1>6, <1>7 DEF QueueRecord, MemoEntries
<1> QED BY <1>8, <1>9

\* Replacing one of them, they are queues again.
LEMMA QueuesExcept ==
  ASSUME NEW S, NEW qs \in Seq(S), NEW i \in DOMAIN qs, NEW q \in S
  PROVE  [qs EXCEPT ![i] = q] \in Seq(S)
<1>1. i \in 1..Len(qs)
  BY LenProperties
<1> QED BY <1>1, ExceptSeq

\* A request that is accepted or refused on the record of a queue names one.
LEMMA DecisionQueue ==
  ASSUME NEW s, NEW m, Decision(s, m) \in {"applied", "rejected"}, m.kind # "declare_queue"
  PROVE  /\ m.queue \in DOMAIN s.queues
         /\ Decision(s, m) = "applied" => Admits(s, m)
BY DEF Decision

\* The queues after a request that was accepted.
LEMMA AppliedType ==
  ASSUME NEW s, s.queues \in Seq(QueueRecord), NEW m \in Requests, Decision(s, m) = "applied"
  PROVE  Applied(s.queues, m) \in Seq(QueueRecord)
<1> DEFINE qs == s.queues
<1>1. CASE m.kind = "declare_queue"
  <2> DEFINE r == remember(<< >>, Entry(m, TRUE))
             q == [name |-> m.name, cls |-> m.cls, maximum |-> m.maximum, generation |-> 1,
                   lifecycle |-> "declared", drain |-> "idle", fenced |-> FALSE, memo |-> r]
  <2>1. << >> \in Seq(MemoEntries)
    OBVIOUS
  <2>2. r \in Seq(MemoEntries)
    BY <2>1, EntryType, RememberType
  <2>3. m.name \in Names /\ m.cls \in Generations /\ m.maximum \in Maxima \cup {0} /\ 1 \in Generations
    BY <1>1, RequestType, Bounds
  <2>4. Applied(qs, m) = Append(qs, q)
    BY <1>1 DEF Applied
  <2> HIDE DEF r
  <2>5. q \in QueueRecord
    BY <2>2, <2>3 DEF QueueRecord, MemoEntries, Lifecycles
  <2> HIDE DEF q
  <2> QED BY <2>4, <2>5, AppendProperties
<1>2. CASE m.kind # "declare_queue"
  <2> DEFINE q == qs[m.queue]
  <2>1. m.queue \in DOMAIN qs /\ Admits(s, m)
    BY <1>2, DecisionQueue
  <2>2. q \in QueueRecord
    BY <2>1, LenProperties, ElementOfSeq
  <2>3. m.kind = "set_thresholds" /\ m.maximum # q.maximum => q.generation < MaxGeneration
    BY <2>1 DEF Admits, KindAllows
  <2>4. Effect(q, m) \in QueueRecord
    <3> HIDE DEF q
    <3> QED BY <2>2, <2>3, EffectType
  <2>5. Applied(qs, m) = [qs EXCEPT ![m.queue] = Effect(q, m)]
    BY <1>2 DEF Applied
  <2> DEFINE x == Effect(q, m)
  <2> HIDE DEF q, qs, x
  <2>6. [qs EXCEPT ![m.queue] = x] \in Seq(QueueRecord)
    BY <2>1, <2>4, QueuesExcept DEF qs, x
  <2> QED BY <2>5, <2>6 DEF x, qs
<1> QED BY <1>1, <1>2

\* The queues after a request that left its mark in a memo only.
LEMMA RememberedType ==
  ASSUME NEW qs \in Seq(QueueRecord), NEW m \in Requests, NEW ok \in BOOLEAN, m.queue \in DOMAIN qs
  PROVE  [qs EXCEPT ![m.queue].memo = remember(@, Entry(m, ok))] \in Seq(QueueRecord)
<1> DEFINE q == qs[m.queue]
           x == [q EXCEPT !.memo = remember(@, Entry(m, ok))]
<1>1. q \in QueueRecord
  BY LenProperties, ElementOfSeq
<1>2. x \in QueueRecord
  <2> HIDE DEF q
  <2> QED BY <1>1, RememberingType
<1>3. [qs EXCEPT ![m.queue].memo = remember(@, Entry(m, ok))] = [qs EXCEPT ![m.queue] = x]
  OBVIOUS
<1> HIDE DEF x
<1>4. [qs EXCEPT ![m.queue] = x] \in Seq(QueueRecord)
  BY <1>2, QueuesExcept
<1> QED BY <1>3, <1>4

\* The queues after a request that was refused.
LEMMA RejectedType ==
  ASSUME NEW s, s.queues \in Seq(QueueRecord), NEW m \in Requests,
         Decision(s, m) \in {"applied", "rejected"}
  PROVE  Rejected(s.queues, m) \in Seq(QueueRecord)
<1>1. CASE m.kind = "declare_queue"
  BY <1>1 DEF Rejected
<1>2. CASE m.kind # "declare_queue"
  <2>1. m.queue \in DOMAIN s.queues
    BY <1>2, DecisionQueue
  <2>2. [s.queues EXCEPT ![m.queue].memo = remember(@, Entry(m, FALSE))] \in Seq(QueueRecord)
    BY <2>1, RememberedType
  <2> QED BY <1>2, <2>2 DEF Rejected
<1> QED BY <1>1, <1>2

-----------------------------------------------------------------------------
(* The inductive invariant *)

Entries == Records \cup {Bad, Unsized, Torn}

JournalValues ==
  [entries : Seq(Entries), valid : Nat, synced : Nat, header : Epochs, stored : Epochs]

JournalSound(j) ==
  j \in JournalValues /\ j.synced <= Len(j.entries) /\ j.valid <= Len(j.entries)

\* No entry is damaged, but for a torn one at the end.
Intact(j) ==
  \A i \in 1..Len(j.entries) : j.entries[i] \in Records \/ (i = Len(j.entries) /\ j.entries[i] = Torn)

\* Whatever a crash leaves of the journal, it tells of an epoch not before e.
Published(j, e) ==
  \/ e <= j.header /\ e <= j.stored
  \/ \E i \in 1..j.synced : j.entries[i].type = "epoch" /\ e <= j.entries[i].epoch

FabricSound ==
  /\ mode \in {"up", "down", "refused"} /\ epoch \in Epochs /\ healthy \in BOOLEAN
  /\ resource \in Resource /\ queues \in Seq(QueueRecord) /\ sequence \in 0..MaxAttempt
  /\ JournalSound(journal)
  /\ mode = "up" => journal.valid = Len(journal.entries)

\* A file that no process has open is as the medium keeps it.
AllSynced == mode = "down" => journal.synced = Len(journal.entries)

\* The epoch of the fabric is safe in the file, unless a record has decayed since.
EpochKept ==
  /\ mode = "up" => Published(journal, epoch)
  /\ mode = "down" /\ Intact(journal) => Published(journal, epoch)

IInv == FabricSound /\ AllSynced /\ EpochKept

-----------------------------------------------------------------------------
(* Journals that grow *)

\* k is what appends and syncs make of j.
Grows(j, k) ==
  /\ JournalSound(k)
  /\ Len(j.entries) <= Len(k.entries)
  /\ \A i \in 1..Len(j.entries) : k.entries[i] = j.entries[i]
  /\ \A i \in 1..Len(k.entries) : i > Len(j.entries) => k.entries[i] \in Records
  /\ k.header = j.header /\ k.stored \in {j.stored, j.header}
  /\ j.synced <= k.synced
  /\ j.valid = Len(j.entries) => k.valid = Len(k.entries)

\* The parts of a sound journal.
LEMMA SoundParts ==
  ASSUME NEW j, JournalSound(j)
  PROVE  /\ j.entries \in Seq(Entries) /\ Len(j.entries) \in Nat /\ j.valid \in Nat /\ j.synced \in Nat
         /\ j.header \in Epochs /\ j.stored \in Epochs
         /\ \A i \in 1..Len(j.entries) : j.entries[i] \in Entries
         /\ j.synced <= Len(j.entries) /\ j.valid <= Len(j.entries)
         /\ j.header \in Nat /\ j.stored \in Nat
<1>1. j.entries \in Seq(Entries) /\ j.valid \in Nat /\ j.synced \in Nat
      /\ j.header \in Epochs /\ j.stored \in Epochs
      /\ j.synced <= Len(j.entries) /\ j.valid <= Len(j.entries)
  BY DEF JournalSound, JournalValues
<1>2. Len(j.entries) \in Nat /\ \A i \in 1..Len(j.entries) : j.entries[i] \in Entries
  BY <1>1, LenProperties, ElementOfSeq
<1> QED BY <1>1, <1>2, Bounds

\* A damaged entry is no record.
LEMMA DamagedNoRecord == Bad \notin Records /\ Unsized \notin Records /\ Torn \notin Records
<1>1. Bad.type = "bad" /\ Unsized.type = "unsized" /\ Torn.type = "torn"
  BY DEF Bad, Unsized, Torn
<1>2. \A r \in Records : r.type \in {"epoch", "resource", "queue", "begin", "commit"}
  BY DEF Records
<1> QED BY <1>1, <1>2

\* An entry is a record or damaged, never both.
LEMMA EntryCases ==
  ASSUME NEW r \in Entries
  PROVE  r \in Records <=> ~Damaged(r)
BY DamagedNoRecord DEF Entries, Damaged

\* The property's words for an intact file.
LEMMA IntactFile ==
  ASSUME NEW j, JournalSound(j)
  PROVE  TornTailOnly(j) <=> Intact(j)
<1>1. DOMAIN j.entries = 1..Len(j.entries) /\ \A i \in 1..Len(j.entries) : j.entries[i] \in Entries
  BY SoundParts, LenProperties
<1> QED BY <1>1, EntryCases DEF TornTailOnly, Intact

\* Neither an append nor a sync.
LEMMA GrowsReflexive ==
  ASSUME NEW j, JournalSound(j)
  PROVE  Grows(j, j)
BY SoundParts DEF Grows

\* One growth after another.
LEMMA GrowsTransitive ==
  ASSUME NEW j, NEW k, NEW l, JournalSound(j), Grows(j, k), Grows(k, l)
  PROVE  Grows(j, l)
<1>1. JournalSound(k) /\ JournalSound(l)
  BY DEF Grows
<1>2. Len(j.entries) \in Nat /\ Len(k.entries) \in Nat /\ Len(l.entries) \in Nat
      /\ j.synced \in Nat /\ k.synced \in Nat /\ l.synced \in Nat
  BY <1>1, SoundParts
<1> HIDE DEF JournalSound
<1>3. /\ Len(j.entries) <= Len(k.entries) /\ Len(k.entries) <= Len(l.entries)
      /\ \A i \in 1..Len(j.entries) : k.entries[i] = j.entries[i]
      /\ \A i \in 1..Len(k.entries) : l.entries[i] = k.entries[i]
      /\ \A i \in 1..Len(k.entries) : i > Len(j.entries) => k.entries[i] \in Records
      /\ \A i \in 1..Len(l.entries) : i > Len(k.entries) => l.entries[i] \in Records
      /\ j.synced <= k.synced /\ k.synced <= l.synced
  BY DEF Grows
<1>4. Len(j.entries) <= Len(l.entries) /\ j.synced <= l.synced
  BY <1>2, <1>3
<1>5. ASSUME NEW i \in 1..Len(j.entries) PROVE l.entries[i] = j.entries[i]
  <2>1. i \in 1..Len(k.entries)
    BY <1>2, <1>3
  <2> QED BY <1>3, <2>1
<1>6. ASSUME NEW i \in 1..Len(l.entries), i > Len(j.entries) PROVE l.entries[i] \in Records
  <2>1. CASE i > Len(k.entries)
    BY <1>3, <2>1
  <2>2. CASE i \in 1..Len(k.entries)
    BY <1>3, <1>6, <2>2
  <2> QED BY <1>2, <2>1, <2>2
<1>7. l.header = j.header /\ l.stored \in {j.stored, j.header}
      /\ (j.valid = Len(j.entries) => l.valid = Len(l.entries))
  BY DEF Grows
<1> QED BY <1>1, <1>4, <1>5, <1>6, <1>7 DEF Grows

\* append() adds a record behind the entries.
LEMMA AppendGrows ==
  ASSUME NEW j, JournalSound(j), NEW r \in Records
  PROVE  /\ Grows(j, append(j, r))
         /\ Len(append(j, r).entries) = Len(j.entries) + 1
         /\ append(j, r).entries[Len(j.entries) + 1] = r
<1> DEFINE es == Append(j.entries, r)
           n == Len(j.entries)
           k == append(j, r)
<1>1. j \in JournalValues /\ j.entries \in Seq(Entries) /\ n \in Nat /\ j.synced \in Nat /\ j.synced <= n
      /\ j.header \in Epochs /\ j.stored \in Epochs
  BY SoundParts DEF JournalSound
<1>2. r \in Entries
  BY DEF Entries
<1>3. es \in Seq(Entries) /\ Len(es) = n + 1 /\ es[n + 1] = r /\ \A i \in 1..n : es[i] = j.entries[i]
  BY <1>1, <1>2, AppendProperties
<1> HIDE DEF es, n
<1>4. k = [j EXCEPT !.entries = es, !.valid = n + 1]
  BY DEF append, es, n
<1> HIDE DEF k
<1>5. /\ k.entries = es /\ k.valid = n + 1 /\ k.synced = j.synced /\ k.header = j.header
      /\ k.stored = j.stored /\ k \in JournalValues
  <2> DEFINE v == n + 1
  <2>1. v \in Nat /\ es \in Seq(Entries) /\ j \in JournalValues
    BY <1>1, <1>3
  <2>2. k = [j EXCEPT !.entries = es, !.valid = v]
    BY <1>4
  <2> HIDE DEF v
  <2>3. /\ k.entries = es /\ k.valid = v /\ k.synced = j.synced /\ k.header = j.header
        /\ k.stored = j.stored /\ k \in JournalValues
    BY <2>1, <2>2 DEF JournalValues
  <2> QED BY <2>3 DEF v
<1>6. JournalSound(k)
  BY <1>1, <1>3, <1>5 DEF JournalSound
<1>7. \A i \in 1..Len(k.entries) : i > n => k.entries[i] \in Records
  BY <1>1, <1>3, <1>5
<1>8. Grows(j, k)
  BY <1>1, <1>3, <1>5, <1>6, <1>7 DEF Grows, n
<1> QED BY <1>3, <1>5, <1>8 DEF k, n

\* sync() changes what is on stable storage only.
LEMMA SyncGrows ==
  ASSUME NEW j, JournalSound(j)
  PROVE  /\ Grows(j, sync(j))
         /\ sync(j).entries = j.entries /\ sync(j).synced = Len(j.entries) /\ sync(j).valid = j.valid
         /\ sync(j).header = j.header /\ sync(j).stored = j.header
<1> DEFINE k == sync(j)
<1>1. j \in JournalValues /\ Len(j.entries) \in Nat /\ j.header \in Epochs
      /\ j.synced <= Len(j.entries) /\ j.valid <= Len(j.entries)
  BY SoundParts DEF JournalSound
<1>2. /\ k.entries = j.entries /\ k.valid = j.valid /\ k.synced = Len(j.entries) /\ k.header = j.header
      /\ k.stored = j.header /\ k \in JournalValues
  BY <1>1 DEF sync, JournalValues
<1> HIDE DEF k
<1>3. JournalSound(k)
  BY <1>1, <1>2 DEF JournalSound
<1>4. Grows(j, k)
  BY <1>1, <1>2, <1>3 DEF Grows
<1> QED BY <1>2, <1>4 DEF k

\* An append and the sync after it.
LEMMA AppendSyncGrows ==
  ASSUME NEW j, JournalSound(j), NEW r \in Records
  PROVE  Grows(j, sync(append(j, r)))
<1>1. Grows(j, append(j, r))
  BY AppendGrows
<1>2. JournalSound(append(j, r))
  BY <1>1 DEF Grows
<1>3. Grows(append(j, r), sync(append(j, r)))
  BY <1>2, SyncGrows
<1> QED BY <1>1, <1>3, GrowsTransitive

\* The records that a step writes.
LEMMA RecordTypes ==
  /\ \A m \in Requests : Begin(m) \in Records /\ Commit(m) \in Records
  /\ \A e \in Epochs : EpochState(e) \in Records
  /\ \A r \in Resource : ResourceState(r) \in Records
  /\ \A q \in QueueRecord : QueueState(q) \in Records
BY DEF Begin, Commit, EpochState, ResourceState, QueueState, Records

\* journal_commit_locked appends the records that fit.
LEMMA CommitGrows ==
  ASSUME NEW j, JournalSound(j), NEW m \in Requests
  PROVE  LET k == journal_commit(j, m).journal IN Grows(j, k) /\ Grows(j, sync(k))
<1> DEFINE begun == append(j, Begin(m))
           k == journal_commit(j, m).journal
<1>1. Grows(j, begun) /\ JournalSound(begun)
  BY AppendGrows, RecordTypes DEF Grows
<1>2. Grows(begun, append(begun, Commit(m)))
  <2> HIDE DEF begun
  <2> QED BY <1>1, AppendGrows, RecordTypes
<1>3. Grows(j, append(begun, Commit(m)))
  <2> HIDE DEF begun
  <2> QED BY <1>1, <1>2, GrowsTransitive
<1>4. k \in {j, begun, append(begun, Commit(m))}
  BY DEF journal_commit
<1>5. Grows(j, k)
  BY <1>1, <1>3, <1>4, GrowsReflexive
<1> HIDE DEF k
<1>6. JournalSound(k)
  BY <1>5 DEF Grows
<1>7. Grows(k, sync(k))
  BY <1>6, SyncGrows
<1>8. Grows(j, sync(k))
  BY <1>5, <1>7, GrowsTransitive
<1> QED BY <1>5, <1>8 DEF k

\* A journal that grows keeps its epoch.
LEMMA GrowsKeeps ==
  ASSUME NEW j, NEW k, JournalSound(j), Grows(j, k)
  PROVE  \A e : Published(j, e) => Published(k, e)
<1>1. /\ JournalSound(k) /\ Len(j.entries) \in Nat /\ Len(k.entries) \in Nat
      /\ j.synced \in Nat /\ k.synced \in Nat /\ j.synced <= Len(j.entries)
  BY SoundParts DEF Grows
<1>2. ASSUME NEW e, Published(j, e) PROVE Published(k, e)
  <2>1. CASE e <= j.header /\ e <= j.stored
    BY <2>1 DEF Grows, Published
  <2>2. CASE \E i \in 1..j.synced : j.entries[i].type = "epoch" /\ e <= j.entries[i].epoch
    <3>1. PICK i \in 1..j.synced : j.entries[i].type = "epoch" /\ e <= j.entries[i].epoch
      BY <2>2
    <3>2. i \in 1..Len(j.entries) /\ i \in 1..k.synced
      BY <1>1 DEF Grows
    <3>3. k.entries[i] = j.entries[i]
      BY <3>2 DEF Grows
    <3> QED BY <3>1, <3>2, <3>3 DEF Published
  <2> QED BY <1>2, <2>1, <2>2 DEF Published
<1> QED BY <1>2

-----------------------------------------------------------------------------
(* Scanning and replaying *)

\* The records of a type.
Typed(type) == {r \in Records : r.type = type}

\* What the records of each type carry.
LEMMA TypedRecords ==
  /\ \A r \in Typed("epoch") : r.epoch \in Epochs
  /\ \A r \in Typed("resource") : r.resource \in Resource
  /\ \A r \in Typed("queue") : r.queue \in QueueRecord
  /\ \A r \in Typed("commit") : r.request \in Requests
BY DEF Typed, Records

\* OfType returns records of the type only.
LEMMA OfTypeType ==
  ASSUME NEW records \in Seq(Records), NEW type
  PROVE  OfType(records, type) \in Seq(Typed(type))
<1> DEFINE n == Len(records)
           V == Seq(Typed(type))
           B(F, i) == IF i = 0 THEN << >>
                      ELSE IF records[i].type = type THEN Append(F[i - 1], records[i]) ELSE F[i - 1]
           Chosen == CHOOSE F : F = [i \in 0..n |-> B(F, i)]
           h == [i \in 1..n |-> [x \in V |-> IF records[i].type = type THEN Append(x, records[i]) ELSE x]]
<1>1. n \in Nat /\ \A i \in 1..n : records[i] \in Records
  BY LenProperties, ElementOfSeq
<1>2. ASSUME NEW i \in 1..n, NEW x \in V
      PROVE  (IF records[i].type = type THEN Append(x, records[i]) ELSE x) \in V
  <2>1. CASE records[i].type = type
    <3>1. records[i] \in Typed(type)
      BY <1>1, <2>1 DEF Typed
    <3> QED BY <2>1, <3>1, AppendProperties
  <2> QED BY <2>1
<1>3. h \in [1..n -> [V -> V]]
  <2> HIDE DEF V, n
  <2> QED BY <1>2
<1>4. << >> \in V
  OBVIOUS
<1>5. PICK G \in [0..n -> V] : Recurses(G, n, << >>, h)
  <2> HIDE DEF h, n, V
  <2> QED BY <1>1, <1>3, <1>4, RecursionDefines
<1>6. \A i \in 0..n : G[i] = B(G, i)
  <2>1. G[0] = << >> /\ \A i \in 1..n : G[i] = h[i][G[i - 1]]
    BY <1>5 DEF Recurses
  <2>2. \A i \in 1..n : i - 1 \in 0..n
    BY <1>1
  <2>3. 0..n = {0} \cup 1..n /\ 0 \notin 1..n
    BY <1>1
  <2> HIDE DEF n, V
  <2>4. \A i \in 1..n : G[i - 1] \in V
    BY <2>2
  <2> QED BY <2>1, <2>3, <2>4
<1>7. Chosen = [i \in 0..n |-> B(Chosen, i)]
  <2> HIDE DEF B, n
  <2>1. G = [i \in 0..n |-> B(G, i)]
    BY <1>6
  <2> QED BY <2>1, Zenon
<1>8. OfType(records, type) = Chosen[n]
  BY DEF OfType
<1> HIDE DEF Chosen, h
<1>9. \A i \in 0..n : Chosen[i] = B(Chosen, i)
  <2> HIDE DEF B, n
  <2> QED BY <1>7, Zenon
<1> HIDE DEF n, V
<1> DEFINE S == {k \in Nat : k <= n => Chosen[k] \in V}
<1>10. 0 \in S
  BY <1>1, <1>4, <1>9
<1>11. ASSUME NEW k \in Nat, k \in S PROVE k + 1 \in S
  <2> SUFFICES ASSUME k + 1 <= n PROVE Chosen[k + 1] \in V
    OBVIOUS
  <2>1. k + 1 \in 1..n /\ k + 1 \in 0..n /\ k + 1 # 0 /\ (k + 1) - 1 = k /\ Chosen[k] \in V
    BY <1>1, <1>11
  <2>2. Chosen[k + 1] = IF records[k + 1].type = type THEN Append(Chosen[k], records[k + 1]) ELSE Chosen[k]
    BY <1>9, <2>1
  <2> QED BY <1>2, <2>1, <2>2
<1>12. \A k \in Nat : k \in S
  <2> HIDE DEF S
  <2> QED BY <1>10, <1>11, SetInduction
<1>13. Chosen[n] \in V
  BY <1>1, <1>12
<1> QED BY <1>8, <1>13 DEF V

\* The states that the replay goes through.
States ==
  {s \in [queues : Seq(QueueRecord), resource : Resource, journal : JournalValues] :
     JournalSound(s.journal)}

\* One replayed commit leads from state to state, and the journal grows.
LEMMA ReplayType ==
  ASSUME NEW s \in States, NEW r \in Typed("commit")
  PROVE  Replay(s, r) \in States /\ Grows(s.journal, Replay(s, r).journal)
<1> DEFINE m == r.request
           d == Decision(s, m)
           c == journal_commit(s.journal, m).journal
<1>1. m \in Requests
  BY TypedRecords
<1>2. /\ s.queues \in Seq(QueueRecord) /\ s.resource \in Resource /\ JournalSound(s.journal)
      /\ s \in [queues : Seq(QueueRecord), resource : Resource, journal : JournalValues]
  BY DEF States
<1> HIDE DEF m
<1>3. Grows(s.journal, c) /\ Grows(s.journal, sync(c))
  BY <1>1, <1>2, CommitGrows
<1>4. JournalSound(c) /\ JournalSound(sync(c)) /\ c \in JournalValues /\ sync(c) \in JournalValues
  BY <1>3 DEF Grows, JournalSound
<1>5. d = "applied" => Applied(s.queues, m) \in Seq(QueueRecord)
  BY <1>1, <1>2, AppliedType
<1>6. d \in {"applied", "rejected"} => Rejected(s.queues, m) \in Seq(QueueRecord)
  BY <1>1, <1>2, RejectedType
<1>7. d \in {"applied", "rejected", "unchanged"}
  BY DEF Decision
<1> DEFINE A == Applied(s.queues, m)
           R == Rejected(s.queues, m)
           y == sync(c)
<1>8. \/ Replay(s, r) = s
      \/ d = "rejected" /\ Replay(s, r) = [s EXCEPT !.queues = R]
      \/ d = "applied" /\ Replay(s, r) = [s EXCEPT !.queues = A, !.journal = y]
      \/ d = "applied" /\ Replay(s, r) = [s EXCEPT !.queues = R, !.journal = c]
  BY <1>7 DEF Replay, m
<1> HIDE DEF d, c, A, R, y
<1>9. Replay(s, r) \in [queues : Seq(QueueRecord), resource : Resource, journal : JournalValues]
      /\ Replay(s, r).journal \in {s.journal, c, y}
  BY <1>2, <1>4, <1>5, <1>6, <1>8 DEF A, R, y
<1>10. Grows(s.journal, s.journal)
  BY <1>2, GrowsReflexive
<1>11. Grows(s.journal, Replay(s, r).journal)
  BY <1>3, <1>9, <1>10 DEF y
<1>12. JournalSound(Replay(s, r).journal)
  BY <1>11 DEF Grows
<1> QED BY <1>9, <1>11, <1>12 DEF States

\* The queues of the snapshot records, without proof of a drain.
LEMMA UnprovenType ==
  ASSUME NEW q \in QueueRecord, NEW phases
  PROVE  Unproven(q, phases) \in QueueRecord
<1> DEFINE d == IF q.drain \in phases THEN "requested" ELSE q.drain
<1>1. d \in {"idle", "requested", "proven", "completed"}
  BY DEF QueueRecord
<1>2. Unproven(q, phases) = [q EXCEPT !.drain = d]
  BY DEF Unproven
<1> HIDE DEF d
<1>3. [q EXCEPT !.drain = d] \in QueueRecord
  BY <1>1 DEF QueueRecord
<1> QED BY <1>2, <1>3

\* The replay of usable records ends in a state whose journal has grown from the
\* one that was opened.
LEMMA ReplayedType ==
  ASSUME NEW j, JournalSound(j), NEW valid \in 0..Len(j.entries),
         \A i \in 1..valid : j.entries[i] \in Records
  PROVE  LET s == Replayed(j, valid) IN
           s \in States /\ Grows([j EXCEPT !.valid = valid], s.journal)
<1> DEFINE records   == SubSeq(j.entries, 1, valid)
           resources == OfType(records, "resource")
           snapshots == OfType(records, "queue")
           commits   == OfType(records, "commit")
           opened    == [j EXCEPT !.valid = valid]
           qs        == [q \in DOMAIN snapshots |-> Unproven(snapshots[q].queue, {"proven", "completed"})]
           res       == IF resources = << >> THEN [cls |-> 0, granted |-> FALSE]
                        ELSE Last(resources).resource
           scanned   == [queues |-> qs, resource |-> res, journal |-> opened]
           n         == Len(commits)
           B(F, i)   == IF i = 0 THEN scanned ELSE Replay(F[i - 1], commits[i])
           After     == CHOOSE F : F = [i \in 0..n |-> B(F, i)]
           h         == [i \in 1..n |-> [x \in States |-> Replay(x, commits[i])]]
<1>1. records \in Seq(Records)
  <2>1. j.entries \in Seq(Entries) /\ Len(j.entries) \in Nat /\ valid \in Nat /\ valid <= Len(j.entries)
    BY SoundParts
  <2>2. /\ records \in Seq(Entries) /\ Len(records) = valid
        /\ \A i \in 1..valid : records[i] = j.entries[i]
    <3>1. \A i \in 1..valid : i \in 1..Len(j.entries)
      BY <2>1
    <3>2. records = [i \in 1..valid |-> j.entries[i]]
      BY <2>1
    <3>3. records \in [1..valid -> Entries]
      BY <2>1, <3>1, <3>2, ElementOfSeq
    <3> HIDE DEF records
    <3> QED BY <2>1, <3>2, <3>3, SeqDef, LenProperties
  <2>3. \A i \in 1..valid : records[i] \in Records
    BY <2>2
  <2> HIDE DEF records
  <2>4. DOMAIN records = 1..valid /\ records \in [1..valid -> Records]
    BY <2>2, <2>3, LenProperties
  <2> QED BY <2>1, <2>4, SeqDef
<1> HIDE DEF records
<1>2. /\ resources \in Seq(Typed("resource")) /\ snapshots \in Seq(Typed("queue"))
      /\ commits \in Seq(Typed("commit"))
  BY <1>1, OfTypeType
<1> HIDE DEF resources, snapshots, commits
<1>3. qs \in Seq(QueueRecord)
  <2>1. DOMAIN snapshots = 1..Len(snapshots) /\ Len(snapshots) \in Nat
    BY <1>2, LenProperties
  <2>2. ASSUME NEW q \in DOMAIN snapshots
        PROVE  Unproven(snapshots[q].queue, {"proven", "completed"}) \in QueueRecord
    <3>1. snapshots[q] \in Typed("queue")
      BY <1>2, <2>1, ElementOfSeq
    <3>2. snapshots[q].queue \in QueueRecord
      BY <3>1, TypedRecords
    <3> QED BY <3>2, UnprovenType
  <2>3. qs \in [1..Len(snapshots) -> QueueRecord]
    BY <2>1, <2>2
  <2> HIDE DEF qs
  <2> QED BY <2>1, <2>3, SeqDef
<1>4. res \in Resource
  <2>1. CASE resources = << >>
    BY <2>1 DEF Resource
  <2>2. CASE resources # << >>
    <3>1. Len(resources) \in Nat /\ Len(resources) # 0
      BY <1>2, <2>2, EmptySeq, LenProperties
    <3>2. Last(resources) = resources[Len(resources)]
      BY DEF Last
    <3>3. resources[Len(resources)] \in Typed("resource")
      BY <1>2, <3>1, ElementOfSeq
    <3> QED BY <2>2, <3>2, <3>3, TypedRecords
  <2> QED BY <2>1, <2>2
<1>5. JournalSound(opened)
  <2>1. j \in JournalValues /\ valid \in Nat /\ valid <= Len(j.entries) /\ j.synced <= Len(j.entries)
    BY SoundParts DEF JournalSound
  <2>2. /\ opened \in JournalValues /\ opened.entries = j.entries /\ opened.valid = valid
        /\ opened.synced = j.synced
    BY <2>1 DEF JournalValues
  <2> QED BY <2>1, <2>2 DEF JournalSound
<1>6. opened \in JournalValues
  BY <1>5 DEF JournalSound
<1> HIDE DEF qs, res, opened
<1>7. scanned \in States /\ scanned.journal = opened
  BY <1>3, <1>4, <1>5, <1>6 DEF States
<1>8. n \in Nat /\ \A i \in 1..n : commits[i] \in Typed("commit")
  BY <1>2, LenProperties, ElementOfSeq
<1> HIDE DEF scanned, n
<1>9. h \in [1..n -> [States -> States]]
  BY <1>8, ReplayType
<1>10. PICK G \in [0..n -> States] : Recurses(G, n, scanned, h)
  <2> HIDE DEF h
  <2> QED BY <1>7, <1>8, <1>9, RecursionDefines
<1>11. \A i \in 0..n : G[i] = B(G, i)
  <2>1. G[0] = scanned /\ \A i \in 1..n : G[i] = h[i][G[i - 1]]
    BY <1>10 DEF Recurses
  <2>2. \A i \in 1..n : i - 1 \in 0..n
    BY <1>8
  <2>3. 0..n = {0} \cup 1..n /\ 0 \notin 1..n
    BY <1>8
  <2>4. \A i \in 1..n : G[i - 1] \in States
    BY <2>2
  <2>5. \A i \in 1..n : h[i][G[i - 1]] = Replay(G[i - 1], commits[i])
    BY <2>4
  <2> HIDE DEF h
  <2> QED BY <2>1, <2>3, <2>5
<1>12. After = [i \in 0..n |-> B(After, i)]
  <2> HIDE DEF B
  <2>1. G = [i \in 0..n |-> B(G, i)]
    BY <1>11
  <2> QED BY <2>1, Zenon
<1>13. Replayed(j, valid) = After[n]
  BY DEF Replayed, n, scanned, qs, res, opened, commits, snapshots, resources, records
<1> HIDE DEF After, h
<1>14. \A i \in 0..n : After[i] = B(After, i)
  <2> HIDE DEF B
  <2> QED BY <1>12, Zenon
<1> DEFINE Good(x) == x \in States /\ Grows(opened, x.journal)
           S == {k \in Nat : k <= n => Good(After[k])}
<1>15. 0 \in S
  <2>1. After[0] = scanned
    BY <1>8, <1>14
  <2>2. Good(scanned)
    BY <1>5, <1>7, GrowsReflexive
  <2> QED BY <2>1, <2>2
<1>16. ASSUME NEW k \in Nat, k \in S PROVE k + 1 \in S
  <2> SUFFICES ASSUME k + 1 <= n PROVE Good(After[k + 1])
    OBVIOUS
  <2>1. k + 1 \in 1..n /\ k + 1 \in 0..n /\ k + 1 # 0 /\ (k + 1) - 1 = k /\ Good(After[k])
    BY <1>8, <1>16
  <2>2. After[k + 1] = Replay(After[k], commits[k + 1])
    BY <1>14, <2>1
  <2>3. commits[k + 1] \in Typed("commit")
    BY <1>8, <2>1
  <2>4. After[k + 1] \in States /\ Grows(After[k].journal, After[k + 1].journal)
    BY <2>1, <2>2, <2>3, ReplayType
  <2>5. Grows(opened, After[k].journal)
    BY <2>1
  <2>6. Grows(opened, After[k + 1].journal)
    BY <1>5, <2>4, <2>5, GrowsTransitive
  <2> QED BY <2>4, <2>6
<1>17. \A k \in Nat : k \in S
  <2> HIDE DEF S
  <2> QED BY <1>15, <1>16, SetInduction
<1>18. Good(After[n])
  BY <1>8, <1>17
<1> QED BY <1>13, <1>18 DEF opened

\* The greatest of a bounded set of numbers.
LEMMA MaxOfSet ==
  ASSUME NEW n \in Nat, NEW S \in SUBSET (0..n), S # {}
  PROVE  Max(S) \in S /\ \A y \in S : y <= Max(S)
<1> DEFINE T == {n - x : x \in S}
<1>1. \A x \in S : x \in Nat /\ n - x \in Nat
  OBVIOUS
<1>2. T \in SUBSET Nat /\ T # {}
  BY <1>1
<1>3. Min(T) \in T /\ \A y \in T : Min(T) <= y
  <2> HIDE DEF T
  <2> QED BY <1>2, MinOfSet
<1>4. PICK x \in S : Min(T) = n - x
  BY <1>3
<1>5. ASSUME NEW y \in S PROVE y <= x
  <2>1. n - x <= n - y
    BY <1>3, <1>4
  <2> QED BY <1>1, <2>1
<1>6. \E x1 \in S : \A y \in S : x1 >= y
  BY <1>1, <1>5
<1>7. Max(S) \in S /\ \A y \in S : Max(S) >= y
  BY <1>6 DEF Max
<1> QED BY <1>1, <1>7

\* The epoch that a recovery starts from is one, and not before the header's or
\* that of any record it has read.
LEMMA PreviousEpochBounds ==
  ASSUME NEW j, JournalSound(j), NEW valid \in 0..Len(j.entries),
         \A i \in 1..valid : j.entries[i] \in Records
  PROVE  LET p == PreviousEpoch(j, SubSeq(j.entries, 1, valid)) IN
           /\ p \in Epochs
           /\ j.header <= p
           /\ \A i \in 1..valid : j.entries[i].type = "epoch" => j.entries[i].epoch <= p
<1> DEFINE records == SubSeq(j.entries, 1, valid)
           S == {j.header} \cup {records[i].epoch : i \in {k \in DOMAIN records : records[k].type = "epoch"}}
<1>1. j.entries \in Seq(Entries) /\ Len(j.entries) \in Nat /\ valid \in Nat /\ valid <= Len(j.entries)
      /\ j.header \in Epochs
  BY SoundParts
<1>2. DOMAIN records = 1..valid /\ \A i \in 1..valid : records[i] = j.entries[i]
  <2>1. records = [i \in 1..valid |-> j.entries[i]]
    BY <1>1
  <2> HIDE DEF records
  <2> QED BY <2>1
<1> HIDE DEF records
<1>3. \A i \in DOMAIN records : records[i].type = "epoch" => records[i].epoch \in Epochs
  BY <1>2, TypedRecords DEF Typed
<1>4. S \subseteq Epochs /\ j.header \in S
  BY <1>1, <1>3
<1>5. Epochs \subseteq 0..MaxEpoch /\ MaxEpoch \in Nat
  BY RecoveryAssumption DEF Epochs
<1>6. \A i \in 1..valid : j.entries[i].type = "epoch" => j.entries[i].epoch \in S
  BY <1>2
<1> HIDE DEF S
<1>7. Max(S) \in S /\ \A y \in S : y <= Max(S)
  BY <1>4, <1>5, MaxOfSet
<1>8. PreviousEpoch(j, records) = Max(S)
  BY DEF PreviousEpoch, S
<1> HIDE DEF PreviousEpoch
<1>9. PreviousEpoch(j, records) \in Epochs /\ j.header <= PreviousEpoch(j, records)
      /\ \A i \in 1..valid : j.entries[i].type = "epoch" => j.entries[i].epoch <= PreviousEpoch(j, records)
  BY <1>4, <1>6, <1>7, <1>8
<1> QED BY <1>9 DEF records

\* open() reports a prefix of usable records, all of them when the file is intact.
LEMMA OpenReports ==
  ASSUME NEW j, JournalSound(j), NEW opened \in open(j)
  PROVE  /\ opened.valid \in 0..Len(j.entries)
         /\ \A i \in 1..opened.valid : j.entries[i] \in Records
         /\ Intact(j) => \A i \in 1..Len(j.entries) : j.entries[i] \in Records => i <= opened.valid
<1> DEFINE n == Len(j.entries)
           damaged == {i \in DOMAIN j.entries : Damaged(j.entries[i])}
           first == CHOOSE i \in damaged : \A k \in damaged : i <= k
<1>1. n \in Nat /\ DOMAIN j.entries = 1..n /\ \A i \in 1..n : j.entries[i] \in Entries
  BY SoundParts, LenProperties
<1>2. \A i \in 1..n : j.entries[i] \in Records <=> i \notin damaged
  BY <1>1, EntryCases
<1>3. damaged \in SUBSET Nat /\ damaged \subseteq 1..n
  BY <1>1
<1>4. CASE damaged = {}
  <2>1. opened = [ok |-> TRUE, valid |-> n]
    BY <1>4 DEF open
  <2> QED BY <1>1, <1>2, <1>4, <2>1
<1>5. CASE damaged # {}
  <2>1. first \in damaged /\ \A k \in damaged : first <= k
    <3> HIDE DEF damaged
    <3>1. Min(damaged) \in damaged /\ \A k \in damaged : Min(damaged) <= k
      BY <1>3, <1>5, MinOfSet
    <3> QED BY <3>1
  <2>2. \/ opened = [ok |-> TRUE, valid |-> first - 1]
        \/ opened = [ok |-> FALSE, valid |-> first - 1]
    BY <1>5 DEF open
  <2> HIDE DEF first, damaged
  <2>4. opened.valid = first - 1
    BY <2>2
  <2>5. first \in 1..n
    BY <1>3, <2>1
  <2>6. \A i \in 1..(first - 1) : i \in 1..n /\ i \notin damaged
    BY <1>1, <1>3, <2>1, <2>5
  <2>7. ASSUME Intact(j), NEW i \in 1..n, j.entries[i] \in Records PROVE i <= first - 1
    <3>1. first = n
      BY <1>2, <2>1, <2>5, <2>7 DEF Intact
    <3>2. i # first
      BY <1>2, <2>1, <2>7
    <3> QED BY <1>1, <3>1, <3>2
  <2> QED BY <1>1, <1>2, <2>4, <2>5, <2>6, <2>7
<1> QED BY <1>4, <1>5

\* The first entries of a journal.
LEMMA Prefix ==
  ASSUME NEW S, NEW es \in Seq(S), NEW n \in 0..Len(es)
  PROVE  /\ SubSeq(es, 1, n) \in Seq(S) /\ Len(SubSeq(es, 1, n)) = n
         /\ \A i \in 1..n : SubSeq(es, 1, n)[i] = es[i]
<1>1. Len(es) \in Nat /\ n \in Nat /\ n <= Len(es) /\ \A i \in 1..n : i \in 1..Len(es)
  BY LenProperties
<1>2. SubSeq(es, 1, n) = [i \in 1..n |-> es[i]]
  BY <1>1
<1>3. [i \in 1..n |-> es[i]] \in [1..n -> S]
  BY <1>1, ElementOfSeq
<1> DEFINE t == SubSeq(es, 1, n)
<1>4. t \in [1..n -> S] /\ \A i \in 1..n : t[i] = es[i]
  BY <1>2, <1>3
<1> HIDE DEF t
<1>5. t \in Seq(S) /\ Len(t) = n
  BY <1>1, <1>4, SeqDef, LenProperties
<1> QED BY <1>4, <1>5 DEF t

\* What a crash leaves of a journal: at least its synced entries, as they were, so
\* that an epoch that was safe is still told of.
LEMMA CrashLeaves ==
  ASSUME NEW j, JournalSound(j), NEW k \in Survivors(j)
  PROVE  /\ JournalSound(k) /\ k.synced = Len(k.entries) /\ j.synced <= Len(k.entries)
         /\ \A i \in 1..j.synced : k.entries[i] = j.entries[i]
         /\ \A e : Published(j, e) => Published(k, e)
<1>1. /\ j.entries \in Seq(Entries) /\ Len(j.entries) \in Nat /\ j.synced \in Nat
      /\ j.synced <= Len(j.entries) /\ j.header \in Epochs /\ j.stored \in Epochs
      /\ j.header \in Nat /\ j.stored \in Nat
  BY SoundParts
<1> DEFINE kept == {SubSeq(j.entries, 1, n) : n \in j.synced..Len(j.entries)}
           torn == {Append(SubSeq(j.entries, 1, n), Torn) : n \in j.synced..(Len(j.entries) - 1)}
           all == kept \cup (IF TornWrites THEN torn ELSE {})
           After(es, h) == [entries |-> es, valid |-> Len(es), synced |-> Len(es), header |-> h,
                            stored |-> h]
<1>2. k \in {After(es, h) : es \in all, h \in {j.header, j.stored}}
  BY DEF Survivors
<1>3. PICK es \in all, h \in {j.header, j.stored} : k = After(es, h)
  <2> HIDE DEF After, all
  <2> QED BY <1>2
<1>4. /\ k = [entries |-> es, valid |-> Len(es), synced |-> Len(es), header |-> h, stored |-> h]
      /\ \/ \E n \in j.synced..Len(j.entries) : es = SubSeq(j.entries, 1, n)
         \/ TornWrites /\ \E n \in j.synced..(Len(j.entries) - 1) :
                            es = Append(SubSeq(j.entries, 1, n), Torn)
  <2>1. es \in kept \/ (TornWrites /\ es \in torn)
    OBVIOUS
  <2>2. k = After(es, h)
    BY <1>3
  <2> QED BY <2>1, <2>2
<1> HIDE DEF After, kept, torn, all
<1>5. h \in Epochs
  BY <1>1
<1>6. es \in Seq(Entries)
  <2>1. ASSUME NEW n \in j.synced..Len(j.entries) PROVE SubSeq(j.entries, 1, n) \in Seq(Entries)
    <3>1. n \in 0..Len(j.entries)
      BY <1>1
    <3> QED BY <1>1, <3>1, Prefix
  <2>2. \A n \in j.synced..(Len(j.entries) - 1) : n \in j.synced..Len(j.entries)
    BY <1>1
  <2>3. Torn \in Entries
    BY DEF Entries
  <2>4. \A n \in j.synced..(Len(j.entries) - 1) : Append(SubSeq(j.entries, 1, n), Torn) \in Seq(Entries)
    BY <2>1, <2>2, <2>3, AppendProperties
  <2> QED BY <1>4, <2>1, <2>4
<1>7. Len(es) \in Nat
  BY <1>6, LenProperties
<1>8. JournalSound(k)
  <2> DEFINE l == Len(es)
  <2>1. k = [entries |-> es, valid |-> l, synced |-> l, header |-> h, stored |-> h] /\ l \in Nat
    BY <1>4, <1>7
  <2> HIDE DEF l
  <2>2. k \in JournalValues /\ k.entries = es /\ k.synced = l /\ k.valid = l
    BY <1>5, <1>6, <2>1 DEF JournalValues
  <2>3. k.synced <= Len(k.entries) /\ k.valid <= Len(k.entries)
    BY <1>7, <2>2 DEF l
  <2> QED BY <2>2, <2>3 DEF JournalSound
<1>9. k.entries = es /\ k.synced = Len(es) /\ k.header = h /\ k.stored = h
  BY <1>4
<1>10. j.synced <= Len(es) /\ \A i \in 1..j.synced : es[i] = j.entries[i]
  <2>1. ASSUME NEW n \in j.synced..Len(j.entries)
        PROVE  LET t == SubSeq(j.entries, 1, n) IN
               /\ t \in Seq(Entries) /\ Len(t) = n /\ n \in Nat /\ j.synced <= n
               /\ \A i \in 1..j.synced : t[i] = j.entries[i] /\ i \in 1..n
    <3>1. n \in 0..Len(j.entries) /\ n \in Nat /\ j.synced <= n
      BY <1>1
    <3>2. \A i \in 1..j.synced : i \in 1..n
      BY <1>1, <3>1
    <3> QED BY <1>1, <3>1, <3>2, Prefix
  <2>2. CASE \E n \in j.synced..Len(j.entries) : es = SubSeq(j.entries, 1, n)
    BY <2>1, <2>2
  <2>3. CASE \E n \in j.synced..(Len(j.entries) - 1) : es = Append(SubSeq(j.entries, 1, n), Torn)
    <3>1. PICK n \in j.synced..(Len(j.entries) - 1) : es = Append(SubSeq(j.entries, 1, n), Torn)
      BY <2>3
    <3> DEFINE t == SubSeq(j.entries, 1, n)
    <3>2. n \in j.synced..Len(j.entries) /\ Torn \in Entries
      BY <1>1 DEF Entries
    <3>3. /\ t \in Seq(Entries) /\ Len(t) = n /\ n \in Nat /\ j.synced <= n
          /\ \A i \in 1..j.synced : t[i] = j.entries[i] /\ i \in 1..n
      BY <2>1, <3>2
    <3>4. es = Append(t, Torn)
      BY <3>1
    <3> HIDE DEF t
    <3>5. Len(es) = n + 1 /\ \A i \in 1..n : es[i] = t[i]
      BY <3>2, <3>3, <3>4, AppendProperties
    <3> QED BY <1>1, <3>3, <3>5
  <2> QED BY <1>4, <2>2, <2>3
<1>11. ASSUME NEW e, Published(j, e) PROVE Published(k, e)
  <2>1. CASE e <= j.header /\ e <= j.stored
    BY <1>9, <2>1 DEF Published
  <2>2. CASE \E i \in 1..j.synced : j.entries[i].type = "epoch" /\ e <= j.entries[i].epoch
    <3>1. PICK i \in 1..j.synced : j.entries[i].type = "epoch" /\ e <= j.entries[i].epoch
      BY <2>2
    <3>2. i \in 1..k.synced
      BY <1>1, <1>7, <1>9, <1>10
    <3>3. k.entries[i] = j.entries[i]
      BY <1>9, <1>10
    <3> QED BY <3>1, <3>2, <3>3 DEF Published
  <2> QED BY <1>11, <2>1, <2>2 DEF Published
<1> QED BY <1>8, <1>9, <1>10, <1>11

\* The header is written and a torn tail is cut: a sound journal whose entries
\* all count.
LEMMA ClosedSound ==
  ASSUME NEW j, JournalSound(j), NEW e \in Epochs
  PROVE  /\ JournalSound(write_header(j, e))
         /\ JournalSound(Closed(j, e))
         /\ Closed(j, e).header = e
         /\ Closed(j, e).valid = Len(Closed(j, e).entries)
<1> DEFINE w == write_header(j, e)
           es == SubSeq(w.entries, 1, w.valid)
           c == [w EXCEPT !.entries = es]
<1>1. j \in JournalValues /\ j.synced <= Len(j.entries) /\ j.valid <= Len(j.entries)
      /\ Len(j.entries) \in Nat /\ j.valid \in Nat /\ j.entries \in Seq(Entries)
  BY SoundParts DEF JournalSound
<1>2. /\ w \in JournalValues /\ w.entries = j.entries /\ w.valid = j.valid /\ w.synced = j.synced
      /\ w.header = e
  BY <1>1 DEF write_header, JournalValues
<1>3. JournalSound(w)
  BY <1>1, <1>2 DEF JournalSound
<1>4. Closed(j, e) = IF w.valid = Len(w.entries) THEN w ELSE sync(c)
  BY DEF Closed, truncate_to_valid_prefix
<1> HIDE DEF w
<1>5. CASE w.valid = Len(w.entries)
  <2>1. Closed(j, e) = w
    BY <1>4, <1>5
  <2> QED BY <1>2, <1>3, <1>5, <2>1 DEF w
<1>6. CASE w.valid # Len(w.entries)
  <2>1. w.valid \in 0..Len(w.entries) /\ w.entries \in Seq(Entries)
    BY <1>1, <1>2
  <2>2. es \in Seq(Entries) /\ Len(es) = w.valid /\ \A i \in 1..w.valid : es[i] = w.entries[i]
    BY <2>1, Prefix
  <2> HIDE DEF es
  <2>3. /\ c \in JournalValues /\ c.entries = es /\ c.valid = w.valid /\ c.header = e
        /\ c.synced = w.synced /\ c.stored = w.stored
    BY <1>2, <2>2 DEF JournalValues
  <2> HIDE DEF c
  <2> DEFINE y == sync(c)
  <2>4. /\ y \in JournalValues /\ y.entries = es /\ y.valid = w.valid /\ y.synced = Len(es)
        /\ y.header = e
    <3>1. Len(es) \in Nat /\ e \in Epochs
      BY <2>2, LenProperties
    <3> QED BY <2>3, <3>1 DEF sync, JournalValues
  <2>5. Closed(j, e) = y
    BY <1>4, <1>6 DEF c, es
  <2> HIDE DEF y
  <2>6. JournalSound(y) /\ y.valid = Len(y.entries)
    BY <2>1, <2>2, <2>4 DEF JournalSound
  <2> QED BY <1>3, <2>4, <2>5, <2>6 DEF w
<1> QED BY <1>5, <1>6

-----------------------------------------------------------------------------
(* Steps *)

\* The first life of the fabric starts with a sound file that tells of its epoch.
LEMMA Initial == Init => IInv
<1> SUFFICES ASSUME Init PROVE IInv
  OBVIOUS
<1> DEFINE es == <<EpochState(1), ResourceState(resource)>>
<1>1. /\ mode = "up" /\ epoch = 1 /\ healthy = TRUE /\ resource = [cls |-> 1, granted |-> TRUE]
      /\ queues = << >> /\ sequence = 0
      /\ journal = [entries |-> es, valid |-> 2, synced |-> 2, header |-> 1, stored |-> 1]
  BY DEF Init
<1>2. resource \in Resource
  BY <1>1 DEF Resource
<1>3. EpochState(1) \in Records /\ ResourceState(resource) \in Records
  BY <1>2, Bounds, RecordTypes
<1>4. es \in Seq(Entries) /\ Len(es) = 2 /\ \A i \in 1..2 : es[i] \in Records
  BY <1>3 DEF Entries
<1> HIDE DEF es
<1>5. /\ journal.entries = es /\ journal.valid = 2 /\ journal.synced = 2 /\ journal.header = 1
      /\ journal.stored = 1
  BY <1>1
<1>6. JournalSound(journal)
  <2>1. 1 \in Epochs /\ 2 \in Nat
    BY Bounds
  <2>2. journal \in JournalValues
    BY <1>1, <1>4, <2>1 DEF JournalValues
  <2>3. Len(journal.entries) = 2
    BY <1>4, <1>5
  <2>4. journal.synced <= Len(journal.entries) /\ journal.valid <= Len(journal.entries)
    BY <1>5, <2>3
  <2> QED
    BY <2>2, <2>4 DEF JournalSound
<1>7. Published(journal, epoch)
  BY <1>1, <1>5 DEF Published
<1>8. queues \in Seq(QueueRecord) /\ sequence \in 0..MaxAttempt
  BY <1>1, RecoveryAssumption
<1> QED BY <1>1, <1>2, <1>4, <1>5, <1>6, <1>7, <1>8, Bounds
        DEF IInv, FabricSound, AllSynced, EpochKept

\* A running fabric stays up while its journal grows, and any epoch it enters is
\* published.
LEMMA RunningStep ==
  ASSUME IInv, mode = "up", mode' = "up", Grows(journal, journal'),
         epoch' \in Epochs, epoch' = epoch \/ Published(journal', epoch'),
         healthy' \in BOOLEAN, resource' \in Resource, queues' \in Seq(QueueRecord),
         sequence' \in 0..MaxAttempt
  PROVE  IInv'
<1>1. JournalSound(journal) /\ JournalSound(journal') /\ journal.valid = Len(journal.entries)
  BY DEF IInv, FabricSound, Grows
<1>2. journal'.valid = Len(journal'.entries)
  BY <1>1 DEF Grows
<1>3. Published(journal, epoch)
  BY DEF IInv, EpochKept
<1>4. Published(journal', epoch')
  BY <1>1, <1>3, GrowsKeeps
<1>5. FabricSound'
  BY <1>1, <1>2 DEF FabricSound
<1>6. AllSynced' /\ EpochKept'
  BY <1>4 DEF AllSynced, EpochKept
<1> QED BY <1>5, <1>6 DEF IInv

\* The process dies with a journal that has grown.
LEMMA CrashStep ==
  ASSUME IInv, mode = "up", mode' = "down", NEW k, Grows(journal, k), journal' \in Survivors(k),
         UNCHANGED <<epoch, healthy, resource, queues>>, sequence' \in 0..MaxAttempt
  PROVE  IInv'
<1>1. JournalSound(journal) /\ JournalSound(k)
  BY DEF IInv, FabricSound, Grows
<1>2. Published(k, epoch)
  BY <1>1, GrowsKeeps DEF IInv, EpochKept
<1>3. JournalSound(journal') /\ journal'.synced = Len(journal'.entries) /\ Published(journal', epoch')
  BY <1>1, <1>2, CrashLeaves
<1>4. FabricSound'
  BY <1>3 DEF IInv, FabricSound
<1>5. AllSynced' /\ EpochKept'
  BY <1>3 DEF AllSynced, EpochKept
<1> QED BY <1>4, <1>5 DEF IInv

\* The state of a running fabric and the request that is presented to it.
LEMMA PresentedFacts ==
  ASSUME IInv, NEW m \in NextRequests, Presented(m)
  PROVE  /\ m \in Requests /\ mode = "up" /\ sequence' \in 0..MaxAttempt
         /\ JournalSound(journal) /\ queues \in Seq(QueueRecord) /\ Now.queues = queues
         /\ resource \in Resource /\ epoch \in Epochs /\ healthy \in BOOLEAN
<1>1. m \in Requests
  BY NextRequestType
<1>2. m.attempt \in Attempts
  BY <1>1, RequestType
<1>3. m.attempt \in 0..MaxAttempt
  BY <1>2, Bounds DEF Attempts
<1> QED BY <1>1, <1>3 DEF Presented, IInv, FabricSound, Now

\* What a request that the fabric accepts or refuses makes of the queues.
LEMMA PresentedQueues ==
  ASSUME IInv, NEW m \in NextRequests, Presented(m)
  PROVE  /\ Decision(Now, m) = "applied" => Applied(queues, m) \in Seq(QueueRecord)
         /\ Decision(Now, m) \in {"applied", "rejected"} => Rejected(queues, m) \in Seq(QueueRecord)
<1> DEFINE s == Now
<1>1. m \in Requests /\ s.queues = queues /\ s.queues \in Seq(QueueRecord)
  BY PresentedFacts
<1> HIDE DEF s
<1>2. Decision(s, m) = "applied" => Applied(s.queues, m) \in Seq(QueueRecord)
  BY <1>1, AppliedType
<1>3. Decision(s, m) \in {"applied", "rejected"} => Rejected(s.queues, m) \in Seq(QueueRecord)
  BY <1>1, RejectedType
<1> QED BY <1>1, <1>2, <1>3 DEF s

\* A request that reaches no journal changes the queues only.
LEMMA ApplyInMemoryStep ==
  ASSUME IInv, NEW m \in NextRequests, ApplyInMemory(m) PROVE IInv'
<1>1. Presented(m)
  BY DEF ApplyInMemory
<1>2. /\ mode' = mode /\ epoch' = epoch /\ healthy' = healthy /\ resource' = resource
      /\ journal' = journal
  BY DEF ApplyInMemory
<1>3. queues' \in Seq(QueueRecord)
  BY <1>1, PresentedQueues DEF ApplyInMemory
<1>4. Grows(journal, journal')
  BY <1>1, <1>2, PresentedFacts, GrowsReflexive
<1> QED BY <1>1, <1>2, <1>3, <1>4, PresentedFacts, RunningStep

\* A commit appends its two records and syncs them.
LEMMA ApplyDurablyStep ==
  ASSUME IInv, NEW m \in NextRequests, ApplyDurably(m) PROVE IInv'
<1>1. Presented(m)
  BY DEF ApplyDurably
<1>2. /\ mode' = mode /\ epoch' = epoch /\ healthy' = healthy /\ resource' = resource
      /\ journal' = sync(journal_commit(journal, m).journal)
  BY DEF ApplyDurably
<1>3. queues' \in Seq(QueueRecord)
  BY <1>1, PresentedQueues DEF ApplyDurably
<1>4. Grows(journal, journal')
  BY <1>1, <1>2, PresentedFacts, CommitGrows
<1> QED BY <1>1, <1>2, <1>3, <1>4, PresentedFacts, RunningStep

\* A commit whose sync failed leaves its records in the file.
LEMMA RefuseNotDurableStep ==
  ASSUME IInv, NEW m \in NextRequests, RefuseNotDurable(m) PROVE IInv'
<1>1. Presented(m)
  BY DEF RefuseNotDurable
<1>2. /\ mode' = mode /\ epoch' = epoch /\ healthy' = healthy /\ resource' = resource
      /\ journal' = journal_commit(journal, m).journal
  BY DEF RefuseNotDurable
<1>3. queues' \in Seq(QueueRecord)
  BY <1>1, PresentedQueues DEF RefuseNotDurable
<1>4. Grows(journal, journal')
  BY <1>1, <1>2, PresentedFacts, CommitGrows
<1> QED BY <1>1, <1>2, <1>3, <1>4, PresentedFacts, RunningStep

\* The process dies with some of the records of a commit written.
LEMMA CrashWhileCommittingStep ==
  ASSUME IInv, NEW m \in NextRequests, CrashWhileCommitting(m) PROVE IInv'
<1>1. Presented(m)
  BY DEF CrashWhileCommitting
<1> DEFINE k == journal_commit(journal, m).journal
<1>2. journal' \in Survivors(k) /\ mode' = "down" /\ UNCHANGED <<epoch, healthy, resource, queues>>
  BY DEF CrashWhileCommitting
<1>3. Grows(journal, k)
  BY <1>1, PresentedFacts, CommitGrows
<1> HIDE DEF k
<1> QED BY <1>1, <1>2, <1>3, PresentedFacts, CrashStep

\* The marker of a planned apply is one more record.
LEMMA CommitBackendApplyStep ==
  ASSUME IInv, NEW m \in NextRequests, CommitBackendApply(m) PROVE IInv'
<1>1. Presented(m)
  BY DEF CommitBackendApply
<1>2. Commit(m) \in Records /\ JournalSound(journal)
  BY <1>1, PresentedFacts, RecordTypes
<1>3. mode' = mode /\ epoch' = epoch /\ resource' = resource
  BY DEF CommitBackendApply
<1>4. Grows(journal, append(journal, Commit(m))) /\ Grows(journal, sync(append(journal, Commit(m))))
  BY <1>2, AppendGrows, AppendSyncGrows
<1>5. Grows(journal, journal')
  BY <1>4 DEF CommitBackendApply
<1>6. ASSUME NEW verified \in BOOLEAN
      PROVE  [queues EXCEPT ![m.queue].memo = remember(@, Entry(m, verified))] \in Seq(QueueRecord)
  <2>1. m.queue \in DOMAIN queues
    BY DEF CommitBackendApply
  <2> QED BY <1>1, <2>1, PresentedFacts, RememberedType
<1>7. queues' \in Seq(QueueRecord) /\ healthy' \in BOOLEAN
  <2>1. CASE /\ \E verified \in BOOLEAN :
                  queues' = [queues EXCEPT ![m.queue].memo = remember(@, Entry(m, verified))]
             /\ UNCHANGED healthy
    BY <1>1, <1>6, <2>1, PresentedFacts
  <2>2. CASE healthy' = FALSE /\ UNCHANGED queues
    BY <1>1, <2>2, PresentedFacts
  <2> QED BY <2>1, <2>2 DEF CommitBackendApply
<1> QED BY <1>1, <1>3, <1>5, <1>7, PresentedFacts, RunningStep

\* The resource record is appended, and in force once it is durable.
LEMMA ChangeResourceStep ==
  ASSUME IInv, NEW r \in [cls : Generations, granted : BOOLEAN], ChangeResource(r) PROVE IInv'
<1>1. r \in Resource
  BY Bounds DEF Resource
<1>2. /\ mode = "up" /\ mode' = mode /\ epoch' = epoch /\ queues' = queues /\ sequence' = sequence
  BY DEF ChangeResource
<1>3. ResourceState(r) \in Records /\ JournalSound(journal)
  BY <1>1, RecordTypes DEF IInv, FabricSound
<1>4. Grows(journal, append(journal, ResourceState(r)))
      /\ Grows(journal, sync(append(journal, ResourceState(r))))
  BY <1>3, AppendGrows, AppendSyncGrows
<1>5. Grows(journal, journal')
  BY <1>4 DEF ChangeResource
<1>6. resource' \in {resource, r} /\ (healthy' = healthy \/ healthy' = FALSE)
  BY DEF ChangeResource
<1>7. /\ epoch \in Epochs /\ healthy \in BOOLEAN /\ resource \in Resource
      /\ queues \in Seq(QueueRecord) /\ sequence \in 0..MaxAttempt
  BY DEF IInv, FabricSound
<1>8. healthy' \in BOOLEAN /\ resource' \in Resource
  BY <1>1, <1>6, <1>7
<1> QED BY <1>2, <1>5, <1>7, <1>8, RunningStep

\* Queues that lose the proof of their drains.
LEMMA UnprovenQueues ==
  ASSUME NEW qs \in Seq(QueueRecord), NEW phases
  PROVE  [q \in DOMAIN qs |-> Unproven(qs[q], phases)] \in Seq(QueueRecord)
<1> DEFINE t == [q \in DOMAIN qs |-> Unproven(qs[q], phases)]
<1>1. DOMAIN qs = 1..Len(qs) /\ Len(qs) \in Nat /\ \A q \in 1..Len(qs) : qs[q] \in QueueRecord
  BY LenProperties, ElementOfSeq
<1>2. t \in [1..Len(qs) -> QueueRecord]
  BY <1>1, UnprovenType
<1> HIDE DEF t
<1>3. t \in Seq(QueueRecord)
  BY <1>1, <1>2, SeqDef
<1> QED BY <1>3 DEF t

\* The record of the new epoch is synced before the fabric enters it.
LEMMA AdvanceEpochStep ==
  ASSUME IInv, AdvanceEpoch PROVE IInv'
<1> DEFINE e == epoch + 1
           w == append(journal, EpochState(e))
<1>1. /\ epoch \in Epochs /\ healthy \in BOOLEAN /\ resource \in Resource /\ JournalSound(journal)
      /\ queues \in Seq(QueueRecord) /\ sequence \in 0..MaxAttempt
  BY DEF IInv, FabricSound
<1>2. mode = "up" /\ mode' = mode /\ resource' = resource /\ sequence' = sequence /\ epoch < MaxEpoch
  BY DEF AdvanceEpoch
<1>3. e \in Epochs /\ e \in Nat
  BY <1>1, <1>2, RecoveryAssumption DEF Epochs
<1>4. EpochState(e) \in Records /\ EpochState(e).type = "epoch" /\ EpochState(e).epoch = e
  <2>1. EpochState(e) \in Records
    BY <1>3, RecordTypes
  <2> QED BY <2>1 DEF EpochState
<1> HIDE DEF e
<1>5. /\ Grows(journal, w) /\ Grows(journal, sync(w)) /\ JournalSound(w)
      /\ Len(w.entries) = Len(journal.entries) + 1 /\ w.entries[Len(journal.entries) + 1] = EpochState(e)
  BY <1>1, <1>4, AppendGrows, AppendSyncGrows DEF Grows
<1> HIDE DEF w
<1>6. Published(sync(w), e)
  <2>1. sync(w).entries = w.entries /\ sync(w).synced = Len(w.entries)
    BY <1>5, SyncGrows
  <2>2. Len(w.entries) \in 1..Len(w.entries) /\ w.entries[Len(w.entries)] = EpochState(e)
    BY <1>1, <1>5, SoundParts
  <2>3. e <= EpochState(e).epoch
    BY <1>3, <1>4
  <2> QED BY <1>4, <2>1, <2>2, <2>3 DEF Published
<1>7. CASE /\ journal' = sync(w) /\ epoch' = e /\ UNCHANGED healthy
           /\ queues' = [q \in DOMAIN queues |-> Unproven(queues[q], {"proven"})]
  <2>1. queues' \in Seq(QueueRecord)
    BY <1>1, <1>7, UnprovenQueues
  <2>2. Grows(journal, journal') /\ Published(journal', epoch')
    BY <1>5, <1>6, <1>7
  <2> QED BY <1>1, <1>2, <1>3, <1>7, <2>1, <2>2, RunningStep
<1>8. CASE journal' = w /\ healthy' = FALSE /\ UNCHANGED <<epoch, queues>>
  <2>1. Grows(journal, journal') /\ healthy' \in BOOLEAN
    BY <1>5, <1>8
  <2> QED BY <1>1, <1>2, <1>8, <2>1, RunningStep
<1> QED BY <1>7, <1>8 DEF AdvanceEpoch, w, e

\* The snapshot is made of records, and the epoch is the first.
LEMMA SnapshotType ==
  ASSUME epoch \in Epochs, resource \in Resource, queues \in Seq(QueueRecord)
  PROVE  Snapshot \in Seq(Records) /\ Len(Snapshot) >= 1 /\ Snapshot[1] = EpochState(epoch)
<1> DEFINE a == <<EpochState(epoch), ResourceState(resource)>>
           b == [q \in DOMAIN queues |-> QueueState(queues[q])]
<1>1. EpochState(epoch) \in Records /\ ResourceState(resource) \in Records
  BY RecordTypes
<1>2. a \in Seq(Records) /\ Len(a) = 2 /\ a[1] = EpochState(epoch)
  BY <1>1
<1>3. b \in Seq(Records)
  <2>1. /\ DOMAIN queues = 1..Len(queues) /\ Len(queues) \in Nat
        /\ \A q \in 1..Len(queues) : queues[q] \in QueueRecord
    BY LenProperties, ElementOfSeq
  <2>2. b \in [1..Len(queues) -> Records]
    BY <2>1, RecordTypes
  <2> HIDE DEF b
  <2> QED BY <2>1, <2>2, SeqDef
<1>4. Snapshot = a \o b
  BY DEF Snapshot
<1> HIDE DEF a, b
<1>5. a \o b \in Seq(Records) /\ Len(a \o b) = Len(a) + Len(b)
  BY <1>2, <1>3, ConcatProperties
<1>6. Len(b) \in Nat
  BY <1>3, LenProperties
<1>7. (a \o b)[1] = a[1]
  <2>1. 1 \in 1..(Len(a) + Len(b)) /\ 1 <= Len(a)
    BY <1>2, <1>6
  <2> QED BY <1>2, <1>3, <2>1, ConcatProperties
<1> QED BY <1>2, <1>4, <1>5, <1>6, <1>7

\* The compacted file starts with the epoch of the fabric.
LEMMA CompactStep ==
  ASSUME IInv, Compact PROVE IInv'
<1>1. /\ epoch \in Epochs /\ healthy \in BOOLEAN /\ resource \in Resource /\ JournalSound(journal)
      /\ queues \in Seq(QueueRecord) /\ sequence \in 0..MaxAttempt
  BY DEF IInv, FabricSound
<1>2. /\ mode = "up" /\ mode' = mode /\ epoch' = epoch /\ healthy' = healthy /\ resource' = resource
      /\ queues' = queues /\ sequence' = sequence /\ journal' = rewrite(journal, Snapshot)
  BY DEF Compact
<1> DEFINE es == Snapshot
           n == Len(es)
<1>3. es \in Seq(Records) /\ n >= 1 /\ es[1] = EpochState(epoch)
  BY <1>1, SnapshotType
<1>4. n \in Nat /\ \A i \in 1..n : es[i] \in Records
  BY <1>3, LenProperties, ElementOfSeq
<1>5. es \in Seq(Entries)
  BY <1>3 DEF Entries
<1>6. journal' = [entries |-> es, valid |-> n, synced |-> n, header |-> journal.header,
                  stored |-> journal.header]
  BY <1>2 DEF rewrite
<1>7. journal.header \in Epochs
  BY <1>1, SoundParts
<1> HIDE DEF es, n
<1>8. /\ journal'.entries = es /\ journal'.valid = n /\ journal'.synced = n
      /\ journal' \in JournalValues
  BY <1>4, <1>5, <1>6, <1>7 DEF JournalValues
<1>9. JournalSound(journal') /\ journal'.valid = Len(journal'.entries)
  BY <1>4, <1>8 DEF JournalSound, n
<1>10. Published(journal', epoch')
  <2>1. EpochState(epoch).type = "epoch" /\ EpochState(epoch).epoch = epoch
    BY DEF EpochState
  <2>2. 1 \in 1..n /\ epoch <= epoch
    BY <1>1, <1>3, <1>4, Bounds
  <2> QED BY <1>2, <1>3, <1>8, <2>1, <2>2 DEF Published
<1>11. FabricSound'
  BY <1>1, <1>2, <1>9 DEF FabricSound
<1>12. AllSynced' /\ EpochKept'
  BY <1>1, <1>2, <1>10 DEF AllSynced, EpochKept
<1> QED BY <1>11, <1>12 DEF IInv

\* The process dies between two operations.
LEMMA CrashesStep ==
  ASSUME IInv, Crash PROVE IInv'
<1>1. Grows(journal, journal) /\ sequence \in 0..MaxAttempt
  BY GrowsReflexive DEF IInv, FabricSound
<1>2. /\ mode = "up" /\ mode' = "down" /\ journal' \in Survivors(journal)
      /\ UNCHANGED <<epoch, healthy, resource, queues>> /\ sequence' = sequence
  BY DEF Crash
<1> QED BY <1>1, <1>2, CrashStep

\* A record decays: the file is no longer intact.
LEMMA DecayStep ==
  ASSUME IInv, Decay PROVE IInv'
<1>1. /\ mode = "down" /\ mode' = mode
      /\ UNCHANGED <<epoch, healthy, resource, queues, sequence>>
  BY DEF Decay
<1>2. PICK i \in DOMAIN journal.entries, damage \in {Bad, Unsized} :
        journal' = [journal EXCEPT !.entries[i] = damage]
  BY DEF Decay
<1>3. JournalSound(journal)
  BY DEF IInv, FabricSound
<1> DEFINE es == [journal.entries EXCEPT ![i] = damage]
           n == Len(journal.entries)
<1>4. /\ journal.entries \in Seq(Entries) /\ n \in Nat /\ journal \in JournalValues
      /\ journal.synced <= n /\ journal.valid <= n /\ journal.synced = n
  BY <1>1, <1>3, SoundParts DEF JournalSound, IInv, AllSynced
<1>5. i \in 1..n /\ DOMAIN journal.entries = 1..n /\ damage \in Entries
  BY <1>4, LenProperties DEF Entries
<1>6. es \in Seq(Entries) /\ Len(es) = n /\ es[i] = damage
  BY <1>4, <1>5, ExceptSeq
<1>7. journal' = [journal EXCEPT !.entries = es]
  BY <1>2
<1> HIDE DEF es
<1>8. /\ journal'.entries = es /\ journal'.valid = journal.valid /\ journal'.synced = journal.synced
      /\ journal' \in JournalValues
  BY <1>4, <1>6, <1>7 DEF JournalValues
<1>9. JournalSound(journal')
  BY <1>4, <1>6, <1>8 DEF JournalSound
<1>10. damage \notin Records /\ damage # Torn
  <2>1. Bad.type = "bad" /\ Unsized.type = "unsized" /\ Torn.type = "torn"
    BY DEF Bad, Unsized, Torn
  <2> QED BY <2>1, DamagedNoRecord
<1>11. ~Intact(journal')
  BY <1>5, <1>6, <1>8, <1>10 DEF Intact
<1>12. FabricSound'
  BY <1>1, <1>9 DEF IInv, FabricSound
<1>13. AllSynced' /\ EpochKept'
  BY <1>1, <1>4, <1>6, <1>8, <1>11 DEF AllSynced, EpochKept
<1> QED BY <1>12, <1>13 DEF IInv

\* A recovery from an intact file reads an epoch not before that of the fabric.
LEMMA IntactRecovery ==
  ASSUME IInv, mode = "down", NEW opened \in open(journal), Intact(journal)
  PROVE  epoch <= PreviousEpoch(journal, SubSeq(journal.entries, 1, opened.valid))
<1> DEFINE p == PreviousEpoch(journal, SubSeq(journal.entries, 1, opened.valid))
<1>1. JournalSound(journal) /\ epoch \in Nat
  BY Bounds DEF IInv, FabricSound
<1>2. /\ opened.valid \in 0..Len(journal.entries)
      /\ \A i \in 1..opened.valid : journal.entries[i] \in Records
      /\ \A i \in 1..Len(journal.entries) : journal.entries[i] \in Records => i <= opened.valid
  BY <1>1, OpenReports
<1>3. Published(journal, epoch)
  BY DEF IInv, EpochKept
<1>4. /\ p \in Epochs /\ journal.header <= p
      /\ \A i \in 1..opened.valid : journal.entries[i].type = "epoch" => journal.entries[i].epoch <= p
  BY <1>1, OpenReports, PreviousEpochBounds
<1>5. p \in Nat /\ journal.header \in Nat
  BY <1>1, <1>4, Bounds, SoundParts
<1> HIDE DEF p
<1>6. ASSUME epoch <= journal.header PROVE epoch <= p
  BY <1>1, <1>4, <1>5, <1>6
<1>7. ASSUME \E i \in 1..journal.synced :
               journal.entries[i].type = "epoch" /\ epoch <= journal.entries[i].epoch
      PROVE  epoch <= p
  <2>1. PICK i \in 1..journal.synced : journal.entries[i].type = "epoch" /\ epoch <= journal.entries[i].epoch
    BY <1>7
  <2>2. i \in 1..Len(journal.entries) /\ Len(journal.entries) \in Nat
    BY <1>1, SoundParts
  <2>3. journal.entries[i] \in Records
    <3>1. Torn.type = "torn"
      BY DEF Torn
    <3> QED BY <2>1, <2>2, <3>1 DEF Intact
  <2>4. i \in 1..opened.valid
    BY <1>2, <2>2, <2>3
  <2>5. journal.entries[i].epoch \in Nat
    BY <2>1, <2>3, TypedRecords, Bounds DEF Typed
  <2> QED BY <1>1, <1>4, <1>5, <2>1, <2>4, <2>5
<1>8. epoch <= p
  BY <1>3, <1>6, <1>7 DEF Published
<1> QED BY <1>8 DEF p

\* The state that the replay of an accepted file leads to: its journal still has
\* every entry of the file, and its header.
LEMMA ReplayedFile ==
  ASSUME IInv, NEW opened \in open(journal)
  PROVE  LET s == Replayed(journal, opened.valid) IN
           /\ s.queues \in Seq(QueueRecord) /\ s.resource \in Resource
           /\ JournalSound(s.journal)
           /\ Len(journal.entries) <= Len(s.journal.entries)
           /\ \A i \in 1..Len(journal.entries) : s.journal.entries[i] = journal.entries[i]
           /\ s.journal.stored \in {journal.stored, journal.header}
<1> DEFINE s == Replayed(journal, opened.valid)
           o == [journal EXCEPT !.valid = opened.valid]
<1>1. JournalSound(journal) /\ journal \in JournalValues
  BY DEF IInv, FabricSound, JournalSound
<1>2. s \in States /\ Grows(o, s.journal)
  BY <1>1, OpenReports, ReplayedType
<1>3. opened.valid \in Nat /\ opened.valid <= Len(journal.entries)
  BY <1>1, OpenReports, SoundParts
<1>4. /\ o \in JournalValues /\ o.entries = journal.entries /\ o.valid = opened.valid
      /\ o.synced = journal.synced /\ o.header = journal.header /\ o.stored = journal.stored
  BY <1>1, <1>3 DEF JournalValues
<1> HIDE DEF s, o
<1>5. JournalSound(o)
  BY <1>1, <1>3, <1>4 DEF JournalSound
<1>6. s.queues \in Seq(QueueRecord) /\ s.resource \in Resource /\ JournalSound(s.journal)
  BY <1>2 DEF States
<1>7. /\ Len(journal.entries) <= Len(s.journal.entries)
      /\ \A i \in 1..Len(journal.entries) : s.journal.entries[i] = journal.entries[i]
      /\ s.journal.stored \in {journal.stored, journal.header}
  BY <1>2, <1>4 DEF Grows
<1> QED BY <1>6, <1>7 DEF s

\* A fabric that comes up has its new epoch in the header, on stable storage.
LEMMA RecoverStep ==
  ASSUME IInv, Recover PROVE IInv'
<1>1. PICK opened \in open(journal) :
        LET s == Replayed(journal, opened.valid)
            e == PreviousEpoch(journal, SubSeq(journal.entries, 1, opened.valid)) + 1
            closed == Closed(s.journal, e)
        IN \/ /\ ~opened.ok
              /\ mode' = "refused" /\ healthy' = FALSE
              /\ UNCHANGED <<epoch, resource, queues, journal>>
           \/ /\ opened.ok /\ e \in Epochs
              /\ queues' = s.queues /\ resource' = s.resource /\ epoch' = e
              /\ \/ /\ Fits(closed, EpochState(e))
                    /\ journal' = sync(append(closed, EpochState(e)))
                    /\ mode' = "up" /\ healthy' = TRUE
                 \/ /\ ~Fits(closed, EpochState(e))
                    /\ journal' = closed
                    /\ mode' = "refused" /\ healthy' = FALSE
  BY DEF Recover
<1> DEFINE s == Replayed(journal, opened.valid)
           e == PreviousEpoch(journal, SubSeq(journal.entries, 1, opened.valid)) + 1
           c == Closed(s.journal, e)
           y == append(c, EpochState(e))
<1>2. mode = "down" /\ sequence' = sequence
  BY DEF Recover
<1>3. /\ epoch \in Epochs /\ resource \in Resource /\ queues \in Seq(QueueRecord)
      /\ JournalSound(journal) /\ sequence \in 0..MaxAttempt
  BY DEF IInv, FabricSound
<1>4. CASE mode' = "refused" /\ healthy' = FALSE /\ UNCHANGED <<epoch, resource, queues, journal>>
  <2>1. FabricSound'
    BY <1>2, <1>3, <1>4 DEF FabricSound
  <2>2. AllSynced' /\ EpochKept'
    BY <1>4 DEF AllSynced, EpochKept
  <2> QED BY <2>1, <2>2 DEF IInv
<1>5. CASE /\ opened.ok /\ e \in Epochs
           /\ queues' = s.queues /\ resource' = s.resource /\ epoch' = e
           /\ \/ journal' = sync(y) /\ mode' = "up" /\ healthy' = TRUE
              \/ journal' = c /\ mode' = "refused" /\ healthy' = FALSE
  <2>1. s.queues \in Seq(QueueRecord) /\ s.resource \in Resource /\ JournalSound(s.journal)
    BY ReplayedFile
  <2> HIDE DEF s, e
  <2>2. JournalSound(c) /\ c.header = e /\ c.valid = Len(c.entries)
    BY <1>5, <2>1, ClosedSound
  <2> HIDE DEF c
  <2>3. Grows(c, y) /\ JournalSound(y) /\ Grows(c, sync(y))
    <3>1. EpochState(e) \in Records
      BY <1>5, RecordTypes
    <3>2. Grows(c, y) /\ Grows(c, sync(y))
      BY <2>2, <3>1, AppendGrows, AppendSyncGrows
    <3> QED BY <3>2 DEF Grows
  <2> HIDE DEF y
  <2>4. /\ JournalSound(sync(y)) /\ sync(y).valid = Len(sync(y).entries)
        /\ sync(y).header = e /\ sync(y).stored = e
    BY <2>2, <2>3, SyncGrows DEF Grows
  <2>5. CASE journal' = sync(y) /\ mode' = "up" /\ healthy' = TRUE
    <3>1. FabricSound'
      BY <1>2, <1>3, <1>5, <2>1, <2>4, <2>5 DEF FabricSound
    <3>2. e <= e
      BY <1>5, Bounds
    <3>3. Published(journal', epoch')
      BY <1>5, <2>4, <2>5, <3>2 DEF Published
    <3>4. AllSynced' /\ EpochKept'
      BY <2>5, <3>3 DEF AllSynced, EpochKept
    <3> QED BY <3>1, <3>4 DEF IInv
  <2>6. CASE journal' = c /\ mode' = "refused" /\ healthy' = FALSE
    <3>1. FabricSound'
      BY <1>2, <1>3, <1>5, <2>1, <2>2, <2>6 DEF FabricSound
    <3>2. AllSynced' /\ EpochKept'
      BY <2>6 DEF AllSynced, EpochKept
    <3> QED BY <3>1, <3>2 DEF IInv
  <2> QED BY <1>5, <2>5, <2>6
<1> QED BY <1>1, <1>4, <1>5

\* An interrupted recovery loses no epoch: the new header is not before the old one.
LEMMA CrashWhileRecoveringStep ==
  ASSUME IInv, CrashWhileRecovering PROVE IInv'
<1>1. PICK opened \in open(journal) :
        LET e == PreviousEpoch(journal, SubSeq(journal.entries, 1, opened.valid)) + 1
            s == Replayed(journal, opened.valid)
        IN /\ opened.ok /\ e \in Epochs
           /\ journal' \in Survivors([write_header(s.journal, e) EXCEPT !.synced = journal.synced])
  BY DEF CrashWhileRecovering
<1> DEFINE s == Replayed(journal, opened.valid)
           p == PreviousEpoch(journal, SubSeq(journal.entries, 1, opened.valid))
           e == p + 1
           w == write_header(s.journal, e)
           k == [w EXCEPT !.synced = journal.synced]
<1>2. opened.ok /\ e \in Epochs /\ journal' \in Survivors(k)
  BY <1>1
<1>3. /\ mode = "down" /\ mode' = mode
      /\ UNCHANGED <<epoch, healthy, resource, queues, sequence>>
  BY DEF CrashWhileRecovering
<1>4. /\ JournalSound(journal) /\ epoch \in Nat
      /\ journal.synced \in Nat /\ journal.synced <= Len(journal.entries) /\ Len(journal.entries) \in Nat
      /\ journal.header \in Nat /\ journal.stored \in Nat
  BY SoundParts, Bounds DEF IInv, FabricSound
<1>5. p \in Nat
  BY <1>4, OpenReports, PreviousEpochBounds, Bounds
<1>6. /\ JournalSound(s.journal) /\ Len(journal.entries) <= Len(s.journal.entries)
      /\ \A i \in 1..Len(journal.entries) : s.journal.entries[i] = journal.entries[i]
      /\ s.journal.stored \in {journal.stored, journal.header}
  BY ReplayedFile
<1>7. Intact(journal) => epoch <= p /\ Published(journal, epoch)
  BY <1>3, IntactRecovery DEF IInv, EpochKept
<1>8. journal.synced = Len(journal.entries)
  BY <1>3 DEF IInv, AllSynced
<1> HIDE DEF s, p
<1>9. JournalSound(w)
  <2> HIDE DEF e
  <2> QED BY <1>2, <1>6, ClosedSound
<1>10. /\ w \in JournalValues /\ w.entries = s.journal.entries /\ w.header = e
       /\ w.stored = s.journal.stored
  <2>1. w \in JournalValues /\ s.journal \in JournalValues
    BY <1>6, <1>9 DEF JournalSound
  <2> HIDE DEF e
  <2> QED BY <2>1 DEF write_header, JournalValues
<1> HIDE DEF w
<1>11. /\ k \in JournalValues /\ k.entries = s.journal.entries /\ k.header = e
       /\ k.stored = s.journal.stored /\ k.synced = journal.synced /\ k.valid = w.valid
  BY <1>4, <1>10 DEF JournalValues
<1> HIDE DEF k
<1>12. JournalSound(k)
  <2>1. Len(w.entries) \in Nat /\ w.valid <= Len(w.entries)
    BY <1>9, SoundParts
  <2> QED BY <1>4, <1>6, <1>10, <1>11, <2>1 DEF JournalSound
<1>13. /\ JournalSound(journal') /\ journal'.synced = Len(journal'.entries)
       /\ k.synced <= Len(journal'.entries)
       /\ \A i \in 1..k.synced : journal'.entries[i] = k.entries[i]
       /\ Published(k, epoch) => Published(journal', epoch)
  BY <1>2, <1>12, CrashLeaves
<1>14. ASSUME Intact(journal) PROVE Published(k, epoch)
  <2>1. epoch <= p /\ Published(journal, epoch)
    BY <1>7, <1>14
  <2>2. CASE epoch <= journal.header /\ epoch <= journal.stored
    <3>1. epoch <= e
      BY <1>4, <1>5, <2>1
    <3>2. epoch <= s.journal.stored
      BY <1>6, <2>2
    <3> QED BY <1>11, <3>1, <3>2 DEF Published
  <2>3. CASE \E i \in 1..journal.synced :
               journal.entries[i].type = "epoch" /\ epoch <= journal.entries[i].epoch
    <3>1. PICK i \in 1..journal.synced :
            journal.entries[i].type = "epoch" /\ epoch <= journal.entries[i].epoch
      BY <2>3
    <3>2. i \in 1..Len(journal.entries)
      BY <1>4
    <3>3. k.entries[i] = journal.entries[i] /\ i \in 1..k.synced
      BY <1>6, <1>11, <3>2
    <3> QED BY <3>1, <3>3 DEF Published
  <2> QED BY <2>1, <2>2, <2>3 DEF Published
<1>15. Intact(journal') => Intact(journal)
  <2> SUFFICES ASSUME Intact(journal'), NEW i \in 1..Len(journal.entries)
               PROVE  \/ journal.entries[i] \in Records
                      \/ i = Len(journal.entries) /\ journal.entries[i] = Torn
    BY DEF Intact
  <2>1. Len(journal.entries) <= Len(journal'.entries) /\ Len(journal'.entries) \in Nat
    BY <1>8, <1>11, <1>13, SoundParts
  <2>2. journal'.entries[i] = journal.entries[i] /\ i \in 1..Len(journal'.entries)
    BY <1>4, <1>6, <1>8, <1>11, <1>13, <2>1
  <2>3. \/ journal'.entries[i] \in Records
        \/ i = Len(journal'.entries) /\ journal'.entries[i] = Torn
    BY <2>2 DEF Intact
  <2> QED BY <1>4, <2>1, <2>2, <2>3
<1>16. FabricSound'
  BY <1>3, <1>13 DEF IInv, FabricSound
<1>17. AllSynced' /\ EpochKept'
  BY <1>3, <1>13, <1>14, <1>15 DEF AllSynced, EpochKept
<1> QED BY <1>16, <1>17 DEF IInv

\* The invariant survives every step.
LEMMA Inductive == IInv /\ [Next]_vars => IInv'
<1> SUFFICES ASSUME IInv, [Next]_vars PROVE IInv'
  OBVIOUS
<1>1. CASE UNCHANGED vars
  BY <1>1 DEF vars, historyVars, IInv, FabricSound, AllSynced, EpochKept
<1>2. ASSUME NEW m \in NextRequests, ApplyInMemory(m) PROVE IInv'
  BY <1>2, ApplyInMemoryStep
<1>3. ASSUME NEW m \in NextRequests, ApplyDurably(m) PROVE IInv'
  BY <1>3, ApplyDurablyStep
<1>4. ASSUME NEW m \in NextRequests, RefuseNotDurable(m) PROVE IInv'
  BY <1>4, RefuseNotDurableStep
<1>5. ASSUME NEW m \in NextRequests, CrashWhileCommitting(m) PROVE IInv'
  BY <1>5, CrashWhileCommittingStep
<1>6. ASSUME NEW m \in NextRequests, CommitBackendApply(m) PROVE IInv'
  BY <1>6, CommitBackendApplyStep
<1>7. ASSUME NEW r \in [cls : Generations, granted : BOOLEAN], ChangeResource(r) PROVE IInv'
  BY <1>7, ChangeResourceStep
<1>8. CASE AdvanceEpoch
  BY <1>8, AdvanceEpochStep
<1>9. CASE Compact
  BY <1>9, CompactStep
<1>10. CASE Crash
  BY <1>10, CrashesStep
<1>11. CASE Decay
  BY <1>11, DecayStep
<1>12. CASE Recover
  BY <1>12, RecoverStep
<1>13. CASE CrashWhileRecovering
  BY <1>13, CrashWhileRecoveringStep
<1> QED BY <1>1, <1>2, <1>3, <1>4, <1>5, <1>6, <1>7, <1>8, <1>9, <1>10, <1>11, <1>12, <1>13 DEF Next

\* The invariant holds in every reachable state.
LEMMA Invariance == Spec => []IInv
BY Initial, Inductive, PTL DEF Spec

-----------------------------------------------------------------------------
(* Theorems *)

\* Every variable keeps its type through appends, failed syncs, crashes, decay,
\* compaction and recovery, whether or not a crash can tear a record, and
\* bytes_written and valid_prefix_bytes agree in every running fabric.
THEOREM TypeCorrect == Spec => []TypeOK
<1>1. IInv => TypeOK
  <2> SUFFICES ASSUME IInv PROVE TypeOK
    OBVIOUS
  <2>1. JournalSound(journal)
    BY DEF IInv, FabricSound
  <2>2. /\ DOMAIN journal.entries = 1..Len(journal.entries)
        /\ journal.synced \in 0..Len(journal.entries)
    BY <2>1, SoundParts, LenProperties
  <2>3. \A i \in DOMAIN journal.entries : journal.entries[i] \in Records \cup {Bad, Unsized, Torn}
    BY <2>1, <2>2, SoundParts DEF Entries
  <2> QED BY <2>1, <2>2, <2>3, SoundParts DEF TypeOK, IInv, FabricSound
<1> QED BY <1>1, Invariance, PTL

\* A fabric that comes up was down, and recovers from a file that open() accepts.
LEMMA ComingUp ==
  ASSUME [Next]_vars, ComesUp
  PROVE  \E opened \in open(journal) :
           epoch' = PreviousEpoch(journal, SubSeq(journal.entries, 1, opened.valid)) + 1
<1>1. mode = "down" /\ mode' = "up"
  BY DEF ComesUp
<1>2. ~UNCHANGED vars
  BY <1>1 DEF vars
<1>3. \A m \in NextRequests : ~ApplyInMemory(m) /\ ~ApplyDurably(m) /\ ~RefuseNotDurable(m)
                              /\ ~CrashWhileCommitting(m) /\ ~CommitBackendApply(m)
  BY <1>1 DEF ApplyInMemory, ApplyDurably, RefuseNotDurable, CrashWhileCommitting,
              CommitBackendApply, Presented
<1>4. /\ \A r : ~ChangeResource(r)
      /\ ~AdvanceEpoch /\ ~Compact /\ ~Crash /\ ~Decay /\ ~CrashWhileRecovering
  BY <1>1 DEF ChangeResource, AdvanceEpoch, Compact, Crash, Decay, CrashWhileRecovering
<1>5. Recover
  BY <1>2, <1>3, <1>4 DEF Next
<1> QED BY <1>1, <1>5 DEF Recover

\* Restart advances the coordinator epoch, from every file that is undamaged but for
\* the torn tail of a crash: recover_locked takes the greatest of the header and the
\* records, and one of them is durable whichever syncs failed, wherever the process
\* died, in a mutation or in an earlier recovery, and whatever became of the file
\* before the last time it was opened.
THEOREM EpochAdvances == Spec => RestartAdvancesEpoch
<1>1. IInv /\ [Next]_vars => (ComesUp /\ TornTailOnly(journal) => epoch' > epoch)
  <2> SUFFICES ASSUME IInv, [Next]_vars, ComesUp, TornTailOnly(journal) PROVE epoch' > epoch
    OBVIOUS
  <2>1. PICK opened \in open(journal) :
          epoch' = PreviousEpoch(journal, SubSeq(journal.entries, 1, opened.valid)) + 1
    BY ComingUp
  <2> DEFINE p == PreviousEpoch(journal, SubSeq(journal.entries, 1, opened.valid))
  <2>2. JournalSound(journal) /\ epoch \in Nat
    BY Bounds DEF IInv, FabricSound
  <2>3. epoch <= p
    BY <2>2, IntactFile, IntactRecovery DEF ComesUp
  <2>4. p \in Nat
    BY <2>2, OpenReports, PreviousEpochBounds, Bounds
  <2>5. epoch' = p + 1
    BY <2>1
  <2> HIDE DEF p
  <2> QED BY <2>2, <2>3, <2>4, <2>5
<1>2. IInv /\ [Next]_vars => [ComesUp /\ TornTailOnly(journal) => epoch' > epoch]_vars
  BY <1>1
<1> QED BY <1>2, Invariance, PTL DEF Spec, RestartAdvancesEpoch
=============================================================================
