------------------------- MODULE LogRetentionProofs -------------------------
(***************************************************************************)
(* Theorems about what LogService keeps: retention, the archive, storage   *)
(* accounting, reads, token reuse, the freeze and the rebuild of the       *)
(* transport state, for every value of the constants.  All invariants are  *)
(* inductive relative to IndType.                                          *)
(***************************************************************************)
EXTENDS LogServiceProofs, LogRecovery, WellFoundedInduction

\* What the steps of the retention state are.
LEMMA RetentionSteps ==
  ASSUME [Next]_vars
  PROVE  \/ UNCHANGED <<log, kept, retained_from, tokens, archived, used_bytes>>
         \/ AppendCommit
         \/ Compact
         \/ CompactFails
  BY DEF Next, Serve, vars, Tick, Seal, AppendReplay, AppendBegin, CreateLog, CheckDeviceItem,
         CheckPolicyHeader, ApplyPolicyOp, FinishPolicy, Abort, PutSnapshot,
         EndorseSnapshot, SetQuota, durableVars

\* What an append adds to the stored positions: the whole batch, after the head.
LEMMA CommitKept ==
  ASSUME IndType, AppendCommit
  PROVE  /\ head \in Nat /\ head' \in Nat /\ head' > head
         /\ kept' = kept \cup (head + 1)..head'
         /\ used_bytes' = used_bytes + (head' - head)
         /\ \A p \in 1..head : log'[p] = log[p]
         /\ \A p \in (head + 1)..head' : log'[p].at = tx.now
         /\ UNCHANGED <<clock, retained_from, snaps, archived>>
<1> DEFINE n == Len(Request.items)
<1>1. /\ n \in Nat \ {0} /\ head \in Nat /\ Request.first = head + 1
      /\ LastOf(tx.mid) = head + n /\ Len(log') = head + n
      /\ \A p \in 1..head : log'[p] = log[p]
  BY CommitShape
<1>2. head' = head + n
  BY <1>1 DEF head
<1>3. kept' = kept \cup (head + 1)..(head + n) /\ used_bytes' = used_bytes + n
  BY <1>1 DEF AppendCommit
<1>4. \A p \in (head + 1)..(head + n) : log'[p].at = tx.now
  <2> SUFFICES ASSUME NEW p \in (head + 1)..(head + n) PROVE log'[p].at = tx.now
    OBVIOUS
  <2>1. p - head \in 1..n /\ head + (p - head) = p
    BY <1>1
  <2>2. log'[head + (p - head)].at = tx.now
    BY <2>1, CommitFields
  <2> QED
    BY <2>1, <2>2
<1>5. UNCHANGED <<clock, retained_from, snaps, archived>>
  BY DEF AppendCommit, clientVars, retentionVars
<1> HIDE DEF n
<1>6. head' \in Nat /\ head' > head /\ head' - head = n
  BY <1>1, <1>2
<1> QED
  BY <1>1, <1>2, <1>3, <1>4, <1>5, <1>6

\* What a compaction does, at the point it picked.
LEMMA CompactShape ==
  ASSUME IndType, Compact
  PROVE  \E now \in Recent, cp \in 1..head :
            /\ CompactionPoint(cp, now)
            /\ archived' = archived \cup Archivable(cp)
            /\ kept' = kept \ EntriesThrough(cp)
            /\ tokens' = PruneTokens(now, kept')
            /\ retained_from' = cp + 1
            /\ used_bytes' = Monus(used_bytes, FreedBytes(cp))
            /\ UNCHANGED <<net, clock, st, log, snaps, storage_bytes, tx, acks, revs>>
  BY DEF Compact, clientVars

-----------------------------------------------------------------------------
(***************************************************************************)
(* Retention, the archive and the accounting.                              *)
(***************************************************************************)
IndRetention ==
    /\ retained_from \in 1..(head + 1)
    /\ RetentionExact
    /\ DeletedEntriesArchived
    /\ StorageExact

\* An empty log stores nothing.
LEMMA InitRetention == Init => IndRetention
<1> SUFFICES ASSUME Init PROVE IndRetention
  OBVIOUS
<1>1. head = 0 /\ kept = {} /\ retained_from = 1 /\ used_bytes = 0
  BY DEF Init, head
<1>2. RetentionExact /\ DeletedEntriesArchived
  BY <1>1 DEF RetentionExact, DeletedEntriesArchived
<1>3. StorageExact
  BY <1>1, FS_EmptySet DEF StorageExact
<1> QED
  BY <1>1, <1>2, <1>3 DEF IndRetention

\* What is stored is a finite set.
LEMMA KeptFinite == ASSUME IndType PROVE IsFiniteSet(kept) /\ Cardinality(kept) \in Nat
<1>1. kept \in SUBSET (1..head) /\ head \in Int
  BY ChainTyped DEF IndType, KeptOk
<1>2. IsFiniteSet(1..head)
  BY <1>1, FS_Interval
<1>3. IsFiniteSet(kept)
  BY <1>1, <1>2, FS_Subset
<1> QED
  BY <1>3, FS_CardinalityType

\* Every step keeps the retention exact, archives before it deletes, and accounts for
\* exactly what is stored.
LEMMA NextRetention == IndType /\ IndRetention /\ [Next]_vars => IndRetention'
<1> SUFFICES ASSUME IndType, IndRetention, [Next]_vars PROVE IndRetention'
  OBVIOUS
<1>1. CASE UNCHANGED <<log, kept, retained_from, tokens, archived, used_bytes>>
  BY <1>1 DEF IndRetention, RetentionExact, DeletedEntriesArchived, StorageExact, head
<1>2. CASE AppendCommit
  <2>1. /\ head \in Nat /\ head' \in Nat /\ head' > head
        /\ kept' = kept \cup (head + 1)..head'
        /\ used_bytes' = used_bytes + (head' - head)
        /\ \A p \in 1..head : log'[p] = log[p]
        /\ UNCHANGED <<retained_from, archived>>
    BY <1>2, CommitKept
  <2>2. kept \subseteq 1..head
    BY DEF IndType, KeptOk
  <2>3. retained_from \in 1..(head + 1)
    BY DEF IndRetention
  <2>4. RetentionExact'
    <3>1. kept = {p \in 1..head : log[p].body.kind # "entry" \/ p >= retained_from}
      BY DEF IndRetention, RetentionExact
    <3>2. \A p \in 1..head' : p \in 1..head \/ p \in (head + 1)..head'
      BY <2>1
    <3>3. \A p \in (head + 1)..head' : p \notin 1..head /\ p \in 1..head' /\ p >= retained_from
      BY <2>1, <2>3
    <3>4. \A p \in 1..head : p \in 1..head'
      BY <2>1
    <3>5. kept' = {p \in 1..head' : log'[p].body.kind # "entry" \/ p >= retained_from}
      BY <3>1, <3>2, <3>3, <3>4, <2>1
    <3> QED
      BY <3>5, <2>1 DEF RetentionExact
  <2>5. DeletedEntriesArchived'
    <3> SUFFICES ASSUME NEW p \in 1..head', log'[p].body.kind = "entry", p \notin kept'
                 PROVE  p \in archived
      BY <2>1 DEF DeletedEntriesArchived
    <3>1. p \in 1..head /\ p \notin kept /\ log[p].body.kind = "entry"
      BY <2>1
    <3> QED
      BY <3>1 DEF IndRetention, DeletedEntriesArchived
  <2>6. StorageExact'
    <3> DEFINE new == (head + 1)..head'
    <3>1. IsFiniteSet(new) /\ Cardinality(new) = head' - head
      <4>1. head + 1 \in Int /\ head' \in Int /\ ~(head + 1 > head')
            /\ head' - (head + 1) + 1 = head' - head
        BY <2>1
      <4> QED
        BY <4>1, FS_Interval
    <3>2. kept \cap new = {}
      BY <2>1, <2>2
    <3>3. IsFiniteSet(kept) /\ Cardinality(kept) \in Nat
      BY KeptFinite
    <3>4. kept' = kept \cup new
      BY <2>1
    <3> HIDE DEF new
    <3>5. Cardinality(kept') = Cardinality(kept) + Cardinality(new) - Cardinality({})
      BY <3>1, <3>2, <3>3, <3>4, FS_Union
    <3> QED
      BY <3>1, <3>3, <3>5, <2>1, FS_EmptySet DEF IndRetention, StorageExact
  <2>7. retained_from' \in 1..(head' + 1)
    <3>1. \A h, k \in Nat : \A r \in 1..(h + 1) : k > h => r \in 1..(k + 1)
      OBVIOUS
    <3> QED
      BY <3>1, <2>1, <2>3, Zenon
  <2> QED
    BY <2>4, <2>5, <2>6, <2>7, Zenon DEF IndRetention
<1>3. CASE Compact
  <2>1. PICK now \in Recent, cp \in 1..head :
            /\ CompactionPoint(cp, now)
            /\ archived' = archived \cup Archivable(cp)
            /\ kept' = kept \ EntriesThrough(cp)
            /\ retained_from' = cp + 1
            /\ used_bytes' = Monus(used_bytes, FreedBytes(cp))
            /\ log' = log
    BY <1>3, CompactShape
  <2>2. head \in Nat /\ head' = head /\ cp >= retained_from /\ retained_from \in 1..(head + 1)
        /\ kept \subseteq 1..head
    BY <2>1, ChainTyped DEF head, CompactionPoint, IndRetention, IndType, KeptOk
  <2>3. kept = {p \in 1..head : log[p].body.kind # "entry" \/ p >= retained_from}
    BY DEF IndRetention, RetentionExact
  <2>4. \A p : p \in EntriesThrough(cp) <=> p \in kept /\ p <= cp /\ log[p].body.kind = "entry"
    BY DEF EntriesThrough
  <2>5. RetentionExact'
    <3>1. kept' = {p \in 1..head : log[p].body.kind # "entry" \/ p >= cp + 1}
      <4>1. ASSUME NEW p \in kept'
            PROVE  p \in 1..head /\ (log[p].body.kind # "entry" \/ p >= cp + 1)
        <5>1. p \in kept /\ p \notin EntriesThrough(cp) /\ p \in 1..head
          BY <2>1, <2>2, Zenon
        <5>2. ~(p <= cp) \/ log[p].body.kind # "entry"
          BY <5>1, <2>4, Zenon
        <5>3. head \in Nat /\ cp \in 1..head
          BY <2>1, <2>2
        <5>4. ~(p <= cp) => p >= cp + 1
          BY <5>1, <5>3
        <5> QED
          BY <5>1, <5>2, <5>4, Zenon
      <4>2. \A p \in 1..head : log[p].body.kind # "entry" \/ p >= cp + 1 => p \in kept'
        BY <2>1, <2>2, <2>3, <2>4
      <4> QED
        BY <4>1, <4>2
    <3> QED
      BY <3>1, <2>1, <2>2 DEF RetentionExact
  <2>6. DeletedEntriesArchived'
    <3> SUFFICES ASSUME NEW p \in 1..head, log[p].body.kind = "entry", p \notin kept'
                 PROVE  p \in archived'
      BY <2>1, <2>2 DEF DeletedEntriesArchived
    <3>1. CASE p \in kept
      <4>1. p \in EntriesThrough(cp) /\ p >= retained_from
        BY <3>1, <2>1, <2>3
      <4> QED
        BY <4>1, <2>1 DEF Archivable
    <3>2. CASE p \notin kept
      BY <3>2, <2>1 DEF IndRetention, DeletedEntriesArchived
    <3> QED
      BY <3>1, <3>2
  <2>7. StorageExact'
    <3> DEFINE E == EntriesThrough(cp)
    <3>1. IsFiniteSet(kept) /\ Cardinality(kept) \in Nat
      BY KeptFinite
    <3>2. E \in SUBSET kept /\ kept \cap E = E
      BY <2>4
    <3>3. IsFiniteSet(E) /\ Cardinality(E) <= Cardinality(kept)
      BY <3>1, <3>2, FS_Subset
    <3>4. Cardinality(E) \in Nat
      BY <3>3, FS_CardinalityType
    <3>5. Cardinality(kept \ E) = Cardinality(kept) - Cardinality(E)
      BY <3>1, <3>2, FS_Difference
    <3>6. used_bytes' = Monus(Cardinality(kept), Cardinality(E))
      BY <2>1 DEF FreedBytes, IndRetention, StorageExact
    <3>7. kept' = kept \ E
      BY <2>1
    <3> HIDE DEF E
    <3>8. used_bytes' = Cardinality(kept) - Cardinality(E)
      BY <3>1, <3>3, <3>4, <3>6 DEF Monus
    <3> QED
      BY <3>5, <3>7, <3>8 DEF StorageExact
  <2> QED
    BY <2>1, <2>2, <2>5, <2>6, <2>7 DEF IndRetention
<1>4. CASE CompactFails
  <2>1. archived \subseteq archived' /\ UNCHANGED <<log, kept, retained_from, used_bytes>>
    BY <1>4 DEF CompactFails
  <2> QED
    BY <2>1 DEF IndRetention, RetentionExact, DeletedEntriesArchived, StorageExact, head
<1> QED
  BY <1>1, <1>2, <1>3, <1>4, RetentionSteps

\* I9 for every log: exactly the control items and the entries from retained_from on are
\* stored, through any sequence of appends and compactions (compact, DeleteEntriesThrough).
THEOREM RetentionAlwaysExact == Spec => []RetentionExact
<1>1. Spec => [](IndType /\ IndRetention)
  BY InitType, NextType, InitRetention, NextRetention, PTL DEF Spec
<1>2. IndRetention => RetentionExact
  BY DEF IndRetention
<1> QED
  BY <1>1, <1>2, PTL

\* No entry is deleted that the archive does not hold, whatever compactions failed before
\* (archive_entries, compact).
THEOREM DeletedAlwaysArchived == Spec => []DeletedEntriesArchived
<1>1. Spec => [](IndType /\ IndRetention)
  BY InitType, NextType, InitRetention, NextRetention, PTL DEF Spec
<1>2. IndRetention => DeletedEntriesArchived
  BY DEF IndRetention
<1> QED
  BY <1>1, <1>2, PTL

\* The storage accounting never drifts from what is stored (used_bytes in append and
\* compact): the saturating subtraction never saturates.
THEOREM StorageAlwaysExact == Spec => []StorageExact
<1>1. Spec => [](IndType /\ IndRetention)
  BY InitType, NextType, InitRetention, NextRetention, PTL DEF Spec
<1>2. IndRetention => StorageExact
  BY DEF IndRetention
<1> QED
  BY <1>1, <1>2, PTL

-----------------------------------------------------------------------------
(***************************************************************************)
(* Time.  A handler's reading of the clock is at most MaxWait old, so the  *)
(* times of the items are in order up to MaxWait.                          *)
(***************************************************************************)
IndClock ==
    /\ tx.mid # 0 => tx.now <= clock /\ clock <= tx.now + MaxWait
    /\ \A p \in 1..head : log[p].at <= clock
    /\ \A p, q \in 1..head : p < q => log[p].at <= log[q].at + MaxWait

\* The times are numbers.
LEMMA TimesTyped ==
  ASSUME IndType
  PROVE  /\ head \in Nat /\ clock \in Nat /\ tx.now \in Nat
         /\ {MaxWait, MinAge, TokenRetention, GraceEntries} \subseteq Nat
         /\ \A p \in 1..head : log[p].at \in Nat
         /\ \A now \in Recent : now \in Nat /\ now <= clock /\ clock <= now + MaxWait
<1>1. {MaxWait, MinAge, TokenRetention, GraceEntries} \subseteq Nat
  BY ServiceAssumption
<1>2. head \in Nat /\ clock \in Nat /\ tx.now \in Nat
  BY ChainTyped DEF IndType, TypeOK
<1>3. \A p \in 1..head : log[p] \in Items
  BY DEF IndType, TypeOK, head
<1>4. \A p \in 1..head : log[p].at \in Nat
  BY <1>3 DEF Items
<1>5. \A now \in Recent : now \in Nat /\ now <= clock /\ clock <= now + MaxWait
  BY <1>1, <1>2 DEF Recent
<1> QED
  BY <1>1, <1>2, <1>4, <1>5

\* The clock only ticks.
LEMMA ClockSteps == ASSUME [Next]_vars PROVE clock' = clock \/ clock' = clock + 1
  BY DEF Next, Serve, vars, Tick, Seal, AppendReplay, AppendBegin, CreateLog, CheckDeviceItem,
         CheckPolicyHeader, ApplyPolicyOp, FinishPolicy, AppendCommit, Abort, PutSnapshot,
         EndorseSnapshot, Compact, CompactFails, SetQuota, clientVars

\* An open transaction keeps its reading of the clock, and the clock does not run away
\* from it.
LEMMA TxClock ==
  ASSUME IndType, [Next]_vars, tx.mid # 0 => tx.now <= clock /\ clock <= tx.now + MaxWait,
         tx'.mid # 0
  PROVE  tx'.now <= clock' /\ clock' <= tx'.now + MaxWait
<1>0. tx \in TxType /\ clock \in Nat /\ tx.now \in Nat /\ MaxWait \in Nat
  BY TimesTyped DEF IndType, TypeOK, TxType
<1>1. CASE Tick
  <2>1. clock' = clock + 1 /\ tx' = tx /\ (tx.mid # 0 => clock + 1 - tx.now <= MaxWait)
    BY <1>1 DEF Tick
  <2> QED
    BY <2>1, <1>0
<1>2. CASE \E m \in 1..Len(net) : AppendBegin(m) \/ CreateLog(m)
  <2>1. PICK now \in Recent, m \in 1..Len(net) :
                \/ tx' = [NoTx EXCEPT !.mid = m, !.now = now, !.ws = st]
                \/ tx' = [NoTx EXCEPT !.mid = m, !.now = now]
    BY <1>2 DEF AppendBegin, CreateLog
  <2>2. tx'.now = now
    BY <2>1 DEF NoTx
  <2>3. clock' = clock
    BY <1>2 DEF AppendBegin, CreateLog, clientVars
  <2> QED
    BY <2>2, <2>3, TimesTyped
<1>3. CASE CheckDeviceItem \/ CheckPolicyHeader \/ ApplyPolicyOp \/ FinishPolicy
  <2>1. clock' = clock /\ tx.mid # 0
    BY <1>3 DEF CheckDeviceItem, CheckPolicyHeader, ApplyPolicyOp, FinishPolicy, clientVars
  <2>2. tx'.now = tx.now
    BY <1>0, <1>3 DEF CheckDeviceItem, CheckPolicyHeader, ApplyPolicyOp, FinishPolicy, TxType
  <2> QED
    BY <2>1, <2>2
<1>4. CASE AppendCommit \/ Abort
  BY <1>4 DEF AppendCommit, Abort, NoTx
<1>5. CASE UNCHANGED <<clock, tx>>
  BY <1>5
<1> QED
  BY <1>1, <1>2, <1>3, <1>4, <1>5
  DEF Next, Serve, vars, Seal, AppendReplay, PutSnapshot, EndorseSnapshot, Compact, CompactFails,
      SetQuota, clientVars

\* Before the first append there is nothing to order.
LEMMA InitClock == Init => IndClock
  BY DEF Init, IndClock, NoTx, head

\* Time never runs backwards, and no step stores an item out of order by more than
\* MaxWait.
LEMMA NextClock == IndType /\ IndClock /\ [Next]_vars => IndClock'
<1> SUFFICES ASSUME IndType, IndClock, [Next]_vars PROVE IndClock'
  OBVIOUS
<1>1. tx'.mid # 0 => tx'.now <= clock' /\ clock' <= tx'.now + MaxWait
  BY TxClock DEF IndClock
<1>2. head \in Nat /\ clock \in Nat /\ tx.now \in Nat /\ MaxWait \in Nat
      /\ \A p \in 1..head : log[p].at \in Nat
  BY TimesTyped
<1>3. clock' \in Nat /\ clock <= clock'
  <2>1. clock' = clock \/ clock' = clock + 1
    BY ClockSteps
  <2> QED
    BY <2>1, <1>2
<1>4. CASE log' = log
  <2>1. \A p \in 1..head : log[p].at <= clock'
    BY <1>2, <1>3 DEF IndClock
  <2> QED
    BY <1>1, <1>4, <2>1 DEF IndClock, head
<1>5. CASE AppendCommit
  <2>1. /\ head' \in Nat /\ head' > head /\ clock' = clock
        /\ \A p \in 1..head : log'[p] = log[p]
        /\ \A p \in (head + 1)..head' : log'[p].at = tx.now
    BY <1>5, CommitKept
  <2>2. tx.now <= clock /\ clock <= tx.now + MaxWait
    BY <1>5 DEF AppendCommit, IndClock
  <2>3. \A p \in 1..head' : p \in 1..head \/ p \in (head + 1)..head'
    BY <2>1, <1>2
  <2>4. \A p \in 1..head' : log'[p].at <= clock /\ log'[p].at \in Nat
    BY <2>1, <2>2, <2>3, <1>2 DEF IndClock
  <2>5. ASSUME NEW p \in 1..head', NEW q \in 1..head', p < q
        PROVE  log'[p].at <= log'[q].at + MaxWait
    <3>1. CASE q \in 1..head
      <4>1. p \in 1..head
        BY <3>1, <2>5, <1>2
      <4> QED
        BY <3>1, <4>1, <2>1, <2>5 DEF IndClock
    <3>2. CASE q \in (head + 1)..head'
      <4>1. log'[q].at = tx.now /\ log'[p].at <= clock /\ log'[p].at \in Nat
        BY <3>2, <2>1, <2>4
      <4> QED
        BY <4>1, <2>2, <1>2
    <3> QED
      BY <3>1, <3>2, <2>3
  <2> QED
    BY <1>1, <2>1, <2>4, <2>5 DEF IndClock
<1> QED
  BY <1>4, <1>5, SharedSteps DEF Seal, AppendReplay, durableVars

\* Every step keeps the entries that are not old enough.
LEMMA NextYoung == IndType /\ IndClock /\ YoungEntriesKept /\ [Next]_vars => YoungEntriesKept'
<1> SUFFICES ASSUME IndType, IndClock, YoungEntriesKept, [Next]_vars PROVE YoungEntriesKept'
  OBVIOUS
<1>1. /\ head \in Nat /\ clock \in Nat /\ MaxWait \in Nat /\ MinAge \in Nat
      /\ \A p \in 1..head : log[p].at \in Nat
  BY TimesTyped
<1>2. CASE UNCHANGED <<log, kept, retained_from, tokens, archived, used_bytes>>
  <2>1. clock' = clock \/ clock' = clock + 1
    BY ClockSteps
  <2>2. \A p \in 1..head : p \notin kept => log[p].at + MinAge <= clock' + MaxWait
    BY <1>1, <2>1 DEF YoungEntriesKept
  <2> QED
    BY <1>2, <2>2 DEF YoungEntriesKept, head
<1>3. CASE AppendCommit
  <2>1. /\ head' \in Nat /\ head' > head /\ clock' = clock
        /\ kept' = kept \cup (head + 1)..head'
        /\ \A p \in 1..head : log'[p] = log[p]
    BY <1>3, CommitKept
  <2>2. ASSUME NEW p \in 1..head', p \notin kept'
        PROVE  log'[p].at + MinAge <= clock + MaxWait
    <3>1. p \in 1..head /\ p \notin kept
      BY <2>1, <2>2, <1>1
    <3> QED
      BY <3>1, <2>1 DEF YoungEntriesKept
  <2> QED
    BY <2>1, <2>2 DEF YoungEntriesKept
<1>4. CASE Compact
  <2>1. PICK now \in Recent, cp \in 1..head :
            /\ CompactionPoint(cp, now)
            /\ kept' = kept \ EntriesThrough(cp)
            /\ log' = log /\ clock' = clock
    BY <1>4, CompactShape
  <2>2. PICK q \in kept : log[q].at <= now - MinAge /\ cp <= q
    BY <2>1 DEF CompactionPoint, Compactable
  <2>3. q \in 1..head /\ now \in Nat /\ now <= clock
    BY <2>1, TimesTyped DEF IndType, KeptOk
  <2>4. ASSUME NEW p \in 1..head, p \notin kept'
        PROVE  log[p].at + MinAge <= clock + MaxWait
    <3>1. CASE p \notin kept
      BY <3>1 DEF YoungEntriesKept
    <3>2. CASE p \in kept
      <4>1. p <= cp
        BY <3>2, <2>1, <2>4 DEF EntriesThrough
      <4>2. log[p].at <= log[q].at + MaxWait
        <5>1. CASE p = q
          BY <5>1, <2>3, <1>1
        <5>2. CASE p < q
          BY <5>2, <2>3 DEF IndClock
        <5> QED
          BY <4>1, <5>1, <5>2, <2>2, <2>3, <1>1
      <4> QED
        BY <4>2, <2>2, <2>3, <1>1
    <3> QED
      BY <3>1, <3>2
  <2> QED
    BY <2>1, <2>4 DEF YoungEntriesKept, head
<1>5. CASE CompactFails
  BY <1>5 DEF CompactFails, YoungEntriesKept, head, clientVars
<1> QED
  BY <1>2, <1>3, <1>4, <1>5, RetentionSteps

\* No entry is deleted before it is MinAge old, up to the time an append waits for the
\* lock (compact, last_seq_at_or_before), for every clock and every interleaving.
THEOREM YoungAlwaysKept == Spec => []YoungEntriesKept
<1>1. Init => YoungEntriesKept
  BY DEF Init, YoungEntriesKept, head
<1> QED
  BY <1>1, InitType, NextType, InitClock, NextClock, NextYoung, PTL DEF Spec

-----------------------------------------------------------------------------
(***************************************************************************)
(* Reads.  What compaction needs an endorsed snapshot for is what a reader *)
(* that is behind needs: a registered snapshot at or above the last        *)
(* deleted entry, which the snapshots registered later only replace by     *)
(* newer ones.                                                             *)
(***************************************************************************)
IndSnaps ==
    /\ snaps # {} => NewestOf(snaps) # {}
    /\ retained_from # 1 => \E s \in snaps : s.seq + 1 >= retained_from

\* No snapshot, nothing deleted.
LEMMA InitSnaps == Init => IndSnaps
  BY DEF Init, IndSnaps

\* Every step keeps a snapshot from which the log can be read on.
LEMMA NextSnaps == IndType /\ IndSnaps /\ [Next]_vars => IndSnaps'
<1> SUFFICES ASSUME IndType, IndSnaps, [Next]_vars PROVE IndSnaps'
  OBVIOUS
<1> DEFINE Snap == [seq: Nat, author: Devices, at: Nat, endorsed: BOOLEAN]
<1>0. /\ snaps \subseteq Snap /\ retained_from \in Nat /\ head \in Nat
      /\ \A s \in snaps : s.seq \in Nat
  BY TimesTyped DEF IndType, TypeOK
<1>1. CASE UNCHANGED <<snaps, retained_from>>
  BY <1>1 DEF IndSnaps, NewestOf
<1>2. CASE \E d \in Publishers, p \in 1..head : PutSnapshot(d, p)
  <2>1. PICK d \in Publishers, p \in 1..head : PutSnapshot(d, p)
    BY <1>2
  <2>2. PICK now \in Recent :
            snaps' = NewestOf(snaps)
                         \cup {[seq |-> p, author |-> d, at |-> now, endorsed |-> FALSE]}
    BY <2>1 DEF PutSnapshot
  <2>3. p \in Nat /\ retained_from' = retained_from /\ \A s \in snaps : s.seq < p
    BY <2>1, <1>0 DEF PutSnapshot
  <2> DEFINE new == [seq |-> p, author |-> d, at |-> now, endorsed |-> FALSE]
  <2>4. PICK x \in snaps' : x.seq = p
    <3>1. new \in snaps' /\ new.seq = p
      BY <2>2
    <3> QED
      BY <3>1, Zenon
  <2>5. \A s \in snaps' : s.seq <= p
    BY <2>2, <2>3, <1>0 DEF NewestOf
  <2>6. x \in NewestOf(snaps')
    BY <2>4, <2>5 DEF NewestOf
  <2>7. retained_from # 1 => x.seq + 1 >= retained_from
    BY <2>3, <2>4, <1>0 DEF IndSnaps
  <2> QED
    BY <2>3, <2>4, <2>6, <2>7 DEF IndSnaps, NewestOf
<1>3. CASE \E d \in Endorsers, s \in snaps : EndorseSnapshot(d, s)
  <2>1. PICK s \in snaps : snaps' = (snaps \ {s}) \cup {[s EXCEPT !.endorsed = TRUE]}
                           /\ retained_from' = retained_from
    BY <1>3 DEF EndorseSnapshot
  <2> DEFINE e == [s EXCEPT !.endorsed = TRUE]
  <2>2. e.seq = s.seq
    BY <1>0
  <2> HIDE DEF e
  <2>3. \A x \in snaps : \E y \in snaps' : y.seq = x.seq
    BY <2>1, <2>2 DEF e
  <2>4. \A y \in snaps' : \E x \in snaps : y.seq = x.seq
    BY <2>1, <2>2 DEF e
  <2>5. NewestOf(snaps') # {}
    <3>1. PICK x \in NewestOf(snaps) : TRUE
      BY DEF IndSnaps
    <3>2. PICK y \in snaps' : y.seq = x.seq
      BY <3>1, <2>3 DEF NewestOf
    <3>3. \A z \in snaps' : z.seq <= y.seq
      BY <3>1, <3>2, <2>4 DEF NewestOf
    <3> QED
      BY <3>2, <3>3 DEF NewestOf
  <2>6. retained_from # 1 => \E y \in snaps' : y.seq + 1 >= retained_from
    BY <2>3, <1>0 DEF IndSnaps
  <2> QED
    BY <2>1, <2>5, <2>6 DEF IndSnaps, NewestOf
<1>4. CASE Compact
  <2>1. PICK now \in Recent, cp \in 1..head :
            CompactionPoint(cp, now) /\ retained_from' = cp + 1 /\ snaps' = snaps
    BY <1>4, CompactShape
  <2>2. PICK s \in snaps : cp <= s.seq - GraceEntries
    BY <2>1 DEF CompactionPoint, Compactable
  <2>3. s.seq + 1 >= cp + 1
    BY <2>2, <1>0, TimesTyped
  <2> QED
    BY <2>1, <2>2, <2>3 DEF IndSnaps, NewestOf
<1> QED
  BY <1>1, <1>2, <1>3, <1>4
  DEF Next, Serve, vars, Tick, Seal, AppendReplay, AppendBegin, CreateLog, CheckDeviceItem,
      CheckPolicyHeader, ApplyPolicyOp, FinishPolicy, AppendCommit, Abort, CompactFails,
      SetQuota, durableVars, retentionVars

\* A page of a reader that is not behind is the positions that follow, without a hole; a
\* reader that is behind is given a snapshot it can read on from.
LEMMA ReadsFollow ==
  ASSUME IndType, IndRetention, IndSnaps, NEW after \in 0..head
  PROVE  IF Behind(after)
         THEN \E s \in ReadSnapshot(after) : s.seq > after /\ ~Behind(s.seq)
         ELSE \A p \in (after + 1)..head :
                  p <= after + MaxReadItems <=> p \in ReadItems(after, MaxReadItems)
<1>1. /\ head \in Nat /\ after \in Nat /\ retained_from \in 1..(head + 1)
      /\ MaxReadItems \in Nat /\ \A s \in snaps : s.seq \in Nat
  <2>1. head \in Nat /\ MaxReadItems \in Nat /\ retained_from \in 1..(head + 1)
    BY TimesTyped, ServiceAssumption DEF IndRetention
  <2>2. \A s \in snaps : s.seq \in Nat
    BY DEF IndType, TypeOK
  <2> QED
    BY <2>1, <2>2
<1>2. CASE Behind(after)
  <2>1. retained_from # 1 /\ after + 1 < retained_from
    BY <1>1, <1>2 DEF Behind
  <2>2. PICK s \in snaps : s.seq + 1 >= retained_from
    BY <2>1 DEF IndSnaps
  <2>3. PICK x \in NewestOf(snaps) : TRUE
    BY <2>2 DEF IndSnaps
  <2>4. x \in snaps /\ s.seq <= x.seq
    BY <2>2, <2>3 DEF NewestOf
  <2>5. x.seq > after /\ ~Behind(x.seq)
    BY <2>1, <2>2, <2>4, <1>1 DEF Behind
  <2> QED
    BY <1>2, <2>3, <2>5 DEF ReadSnapshot
<1>3. CASE ~Behind(after)
  <2>1. retained_from <= after + 1
    BY <1>1, <1>3 DEF Behind
  <2>2. \A q \in (after + 1)..head : q \in kept
    BY <2>1, <1>1 DEF IndRetention, RetentionExact
  <2>3. kept \subseteq 1..head
    BY DEF IndType, KeptOk
  <2>4. ASSUME NEW p \in (after + 1)..head
        PROVE  p <= after + MaxReadItems <=> p \in ReadItems(after, MaxReadItems)
    <3> DEFINE between == {q \in kept : after < q /\ q < p}
    <3>1. p \in Nat /\ p > after /\ p \in kept /\ p - 1 <= head
      BY <1>1, <2>2, <2>4
    <3>2. between = (after + 1)..(p - 1)
      <4>1. \A q \in (after + 1)..(p - 1) : q \in kept /\ after < q /\ q < p
        BY <1>1, <2>2, <3>1
      <4>2. \A q \in between : q \in (after + 1)..(p - 1)
        BY <1>1, <2>3, <3>1
      <4> HIDE DEF between
      <4>3. \A q : q \in between <=> q \in kept /\ after < q /\ q < p
        BY DEF between
      <4> QED
        BY <4>1, <4>2, <4>3
    <3> HIDE DEF between
    <3>3. Cardinality(between) = (p - 1) - after
      <4>1. after + 1 \in Int /\ p - 1 \in Int
            /\ (IF after + 1 > p - 1 THEN 0 ELSE (p - 1) - (after + 1) + 1) = (p - 1) - after
        BY <1>1, <3>1
      <4> QED
        BY <3>2, <4>1, FS_Interval
    <3>4. p \in ReadItems(after, MaxReadItems) <=> Cardinality(between) < MaxReadItems
      BY <1>3, <3>1 DEF ReadItems, between
    <3>5. p <= after + MaxReadItems <=> (p - 1) - after < MaxReadItems
      BY <1>1, <3>1
    <3> QED
      BY <3>3, <3>4, <3>5
  <2> QED
    BY <1>3, <2>4
<1> QED
  BY <1>2, <1>3

\* No read skips an item, at any head and any retention (read, the snapshot pointer of a
\* reader that is behind).
THEOREM ReadsAlwaysFollow == Spec => []ReadsNeverSkip
<1>1. Spec => [](IndType /\ IndRetention /\ IndSnaps)
  BY InitType, NextType, InitRetention, NextRetention, InitSnaps, NextSnaps, PTL DEF Spec
<1>2. IndType /\ IndRetention /\ IndSnaps => ReadsNeverSkip
  BY ReadsFollow DEF ReadsNeverSkip
<1> QED
  BY <1>1, <1>2, PTL

-----------------------------------------------------------------------------
(***************************************************************************)
(* Tokens.  The index remembers a token until its last use has expired: an *)
(* entry it has forgotten was expired by the clock, and later requests     *)
(* read a clock that is at most MaxWait behind.  That requests do not wait *)
(* longer than the retention is what keeps a re-used token's new expiry    *)
(* above the old one.                                                      *)
(***************************************************************************)
IndTokens ==
    \A t \in Tokens, p \in 1..head :
        log[p].body.idem = t =>
            /\ tokens[t] = None => log[p].at + TokenRetention <= clock
            /\ tokens[t] # None => log[p].at + TokenRetention <= tokens[t].exp

\* Nothing has used a token.
LEMMA InitTokens == Init => IndTokens /\ TokenOnce
  BY DEF Init, IndTokens, TokenOnce, head

\* The tokens of the batch that a commit stores.
LEMMA CommitTokens ==
  ASSUME IndType, AppendCommit
  PROVE  /\ TokensOk(tx.mid, tx.now)
         /\ \A p \in (head + 1)..head' :
                /\ p - head \in 1..Len(Request.items)
                /\ log'[p].body = Request.items[p - head]
                /\ log'[p].body.idem \in Tokens \cup {None}
                /\ log'[p].body.idem # None => log'[p].body.idem \in BatchTokens(tx.mid)
         /\ \A t \in Tokens :
                /\ t \in BatchTokens(tx.mid) => /\ tokens'[t] # None
                                               /\ tokens'[t].exp = tx.now + TokenRetention
                /\ t \notin BatchTokens(tx.mid) => tokens'[t] = tokens[t]
<1> DEFINE n == Len(Request.items)
<1>1. /\ Request \in Requests /\ Request = net[tx.mid] /\ n \in Nat \ {0} /\ head \in Nat
      /\ Len(log') = head + n
  BY CommitShape
<1>2. head' = head + n
  BY <1>1 DEF head
<1>3. ASSUME NEW p \in (head + 1)..head'
      PROVE  /\ p - head \in 1..n
             /\ log'[p].body = Request.items[p - head]
             /\ log'[p].body.idem \in Tokens \cup {None}
             /\ log'[p].body.idem # None => log'[p].body.idem \in BatchTokens(tx.mid)
  <2>1. p - head \in 1..n /\ head + (p - head) = p
    BY <1>1, <1>2
  <2>2. log'[head + (p - head)].body = Request.items[p - head]
    BY <2>1, CommitFields
  <2>3. Request.items[p - head] \in Payloads
    BY <2>1, <1>1 DEF Requests
  <2>4. Request.items[p - head].idem \in Tokens \cup {None}
    BY <2>3 DEF Payloads
  <2>5. Request.items[p - head].idem # None
            => Request.items[p - head].idem \in BatchTokens(tx.mid)
    BY <2>1, <1>1 DEF BatchTokens
  <2> HIDE DEF n
  <2> QED
    BY <2>1, <2>2, <2>4, <2>5
<1>4. tokens' = InsertTokens(tx.mid, tx.now) /\ TokensOk(tx.mid, tx.now)
  BY DEF AppendCommit
<1>5. \A t \in Tokens :
          /\ t \in BatchTokens(tx.mid) => tokens'[t].exp = tx.now + TokenRetention
          /\ t \notin BatchTokens(tx.mid) => tokens'[t] = tokens[t]
  BY <1>4 DEF InsertTokens
<1>6. ASSUME NEW t \in Tokens, t \in BatchTokens(tx.mid) PROVE tokens'[t] # None
  <2> DEFINE at == CHOOSE p \in net[tx.mid].first..LastOf(tx.mid) :
                       net[tx.mid].items[p - net[tx.mid].first + 1].idem = t
  <2>1. at \in Nat
    BY <1>6, CommitTokenSeq
  <2>2. tx.now + TokenRetention \in Nat
    BY TimesTyped
  <2>3. tokens'[t] = [seq |-> at, exp |-> tx.now + TokenRetention]
    BY <1>4, <1>6 DEF InsertTokens
  <2> HIDE DEF at
  <2>4. tokens'[t] \in [seq: Nat, exp: Nat]
    BY <2>1, <2>2, <2>3
  <2> QED
    BY <2>4, ServiceAssumption
<1> HIDE DEF n
<1> QED
  BY <1>3, <1>4, <1>5, <1>6 DEF n

\* When a request's tokens pass the check of step 9, every earlier use of them is as old
\* as the retention, up to MaxWait.
LEMMA TokenAged ==
  ASSUME IndType, IndClock, IndTokens, AppendCommit,
         NEW p \in 1..head, log[p].body.idem \in BatchTokens(tx.mid) \cap Tokens
  PROVE  /\ log[p].at + TokenRetention <= tx.now + MaxWait
         /\ log[p].at <= tx.now
<1> DEFINE t == log[p].body.idem
<1>1. /\ clock \in Nat /\ tx.now \in Nat /\ MaxWait \in Nat /\ TokenRetention \in Nat
      /\ log[p].at \in Nat /\ MaxWait <= TokenRetention
  BY TimesTyped, ServiceAssumption
<1>2. clock <= tx.now + MaxWait
  BY DEF AppendCommit, IndClock
<1>3. tokens[t] # None => tokens[t].exp <= tx.now /\ tokens[t].exp \in Nat
  <2>1. tokens[t] # None => tokens[t].exp <= tx.now
    BY DEF AppendCommit, TokensOk
  <2>2. tokens[t] \in [seq: Nat, exp: Nat] \cup {None}
    BY DEF IndType, TypeOK
  <2> QED
    BY <2>1, <2>2
<1>4. /\ tokens[t] = None => log[p].at + TokenRetention <= clock
      /\ tokens[t] # None => log[p].at + TokenRetention <= tokens[t].exp
  BY DEF IndTokens
<1> HIDE DEF t
<1>5. log[p].at + TokenRetention <= tx.now + MaxWait
  BY <1>1, <1>2, <1>3, <1>4
<1> QED
  BY <1>1, <1>5

\* Every step keeps the index's record of the uses that have not expired.
LEMMA NextTokens == IndType /\ IndClock /\ IndTokens /\ [Next]_vars => IndTokens'
<1> SUFFICES ASSUME IndType, IndClock, IndTokens, [Next]_vars PROVE IndTokens'
  OBVIOUS
<1>1. /\ head \in Nat /\ clock \in Nat /\ tx.now \in Nat /\ TokenRetention \in Nat
      /\ \A p \in 1..head : log[p].at \in Nat
  BY TimesTyped
<1>2. CASE UNCHANGED <<log, kept, retained_from, tokens, archived, used_bytes>>
  <2>1. clock' = clock \/ clock' = clock + 1
    BY ClockSteps
  <2>2. \A p \in 1..head : log[p].at + TokenRetention <= clock
                               => log[p].at + TokenRetention <= clock'
    BY <1>1, <2>1
  <2> QED
    BY <1>2, <2>2 DEF IndTokens, head
<1>3. CASE AppendCommit
  <2>1. /\ head' \in Nat /\ head' > head /\ clock' = clock
        /\ \A p \in 1..head : log'[p] = log[p]
        /\ \A p \in (head + 1)..head' : log'[p].at = tx.now
    BY <1>3, CommitKept
  <2>2. ASSUME NEW t \in Tokens, NEW p \in 1..head', log'[p].body.idem = t
        PROVE  /\ tokens'[t] = None => log'[p].at + TokenRetention <= clock'
               /\ tokens'[t] # None => log'[p].at + TokenRetention <= tokens'[t].exp
    <3>1. CASE p \in 1..head /\ t \in BatchTokens(tx.mid)
      <4>1. log'[p] = log[p] /\ tokens'[t] # None /\ tokens'[t].exp = tx.now + TokenRetention
        BY <1>3, <2>1, <3>1, CommitTokens
      <4>2. log[p].at <= tx.now
        BY <1>3, <2>2, <3>1, <4>1, TokenAged
      <4> QED
        BY <4>1, <4>2, <3>1, <1>1
    <3>2. CASE p \in 1..head /\ t \notin BatchTokens(tx.mid)
      <4>1. log'[p] = log[p] /\ tokens'[t] = tokens[t] /\ clock' = clock
        BY <1>3, <2>1, <3>2, CommitTokens
      <4> QED
        BY <4>1, <3>2, <2>2 DEF IndTokens
    <3>3. CASE p \in (head + 1)..head'
      <4>1. t \in BatchTokens(tx.mid)
        BY <1>3, <2>2, <3>3, CommitTokens, ServiceAssumption
      <4>2. tokens'[t] # None /\ tokens'[t].exp = tx.now + TokenRetention
        BY <1>3, <4>1, CommitTokens
      <4>3. log'[p].at = tx.now
        BY <2>1, <3>3
      <4> QED
        BY <4>2, <4>3, <1>1
    <3>4. p \in 1..head \/ p \in (head + 1)..head'
      BY <2>1, <1>1
    <3> QED
      BY <3>1, <3>2, <3>3, <3>4
  <2> QED
    BY <2>2 DEF IndTokens
<1>4. CASE Compact
  <2>1. PICK now \in Recent :
            tokens' = PruneTokens(now, kept') /\ UNCHANGED <<clock, log>>
    BY <1>4, CompactShape
  <2>2. now \in Nat /\ now <= clock
    BY <2>1, TimesTyped
  <2>3. ASSUME NEW t \in Tokens, NEW p \in 1..head, log[p].body.idem = t
        PROVE  /\ tokens'[t] = None => log[p].at + TokenRetention <= clock
               /\ tokens'[t] # None => log[p].at + TokenRetention <= tokens'[t].exp
    <3>1. CASE tokens'[t] = tokens[t]
      BY <3>1, <2>3 DEF IndTokens
    <3>2. CASE tokens[t] # None /\ tokens[t].exp <= now /\ tokens'[t] = None
      <4>1. log[p].at + TokenRetention <= tokens[t].exp
        BY <3>2, <2>3 DEF IndTokens
      <4>2. tokens[t].exp \in Nat
        <5>1. tokens[t] \in [seq: Nat, exp: Nat] \cup {None}
          BY DEF IndType, TypeOK
        <5> QED
          BY <5>1, <3>2
      <4> QED
        BY <4>1, <4>2, <3>2, <2>2, <1>1
    <3> QED
      BY <3>1, <3>2, <2>1 DEF PruneTokens
  <2> QED
    BY <2>1, <2>3 DEF IndTokens, head
<1>5. CASE CompactFails
  BY <1>5 DEF CompactFails, IndTokens, head, clientVars
<1> QED
  BY <1>2, <1>3, <1>4, <1>5, RetentionSteps

\* No step re-uses a token within its retention.
LEMMA NextTokenOnce ==
  IndType /\ IndClock /\ IndTokens /\ TokenOnce /\ [Next]_vars => TokenOnce'
<1> SUFFICES ASSUME IndType, IndClock, IndTokens, TokenOnce, [Next]_vars PROVE TokenOnce'
  OBVIOUS
<1>1. /\ head \in Nat /\ tx.now \in Nat /\ TokenRetention \in Nat /\ MaxWait \in Nat
      /\ \A p \in 1..head : log[p].at \in Nat
  BY TimesTyped
<1>2. CASE log' = log
  BY <1>2 DEF TokenOnce, head
<1>3. CASE AppendCommit
  <2>1. /\ head' \in Nat /\ head' > head
        /\ \A p \in 1..head : log'[p] = log[p]
        /\ \A p \in (head + 1)..head' : log'[p].at = tx.now
    BY <1>3, CommitKept
  <2>2. ASSUME NEW p \in 1..head', NEW q \in 1..head', p < q,
               log'[p].body.idem # None, log'[p].body.idem = log'[q].body.idem
        PROVE  log'[q].at >= log'[p].at + TokenRetention - MaxWait
    <3> DEFINE t == log'[q].body.idem
    <3>1. CASE q \in 1..head
      <4>1. p \in 1..head
        BY <3>1, <2>2, <1>1
      <4> QED
        BY <3>1, <4>1, <2>1, <2>2 DEF TokenOnce
    <3>2. CASE p \in 1..head /\ q \in (head + 1)..head'
      <4>1. t \in BatchTokens(tx.mid) \cap Tokens
        BY <1>3, <3>2, <2>2, CommitTokens
      <4>2. log[p].body.idem \in BatchTokens(tx.mid) \cap Tokens /\ log'[p] = log[p]
        BY <3>2, <4>1, <2>1, <2>2
      <4>3. log[p].at + TokenRetention <= tx.now + MaxWait
        BY <1>3, <3>2, <4>2, TokenAged
      <4>4. log'[q].at = tx.now /\ log[p].at \in Nat
        BY <3>2, <2>1, <1>1
      <4> QED
        BY <4>2, <4>3, <4>4, <1>1
    <3>3. CASE p \in (head + 1)..head' /\ q \in (head + 1)..head'
      <4> DEFINE x == p - head
                 y == q - head
      <4>1. /\ x \in 1..Len(Request.items) /\ y \in 1..Len(Request.items)
            /\ Request.items[x].idem = Request.items[y].idem
            /\ Request.items[x].idem # None
        BY <1>3, <3>3, <2>2, CommitTokens
      <4>2. x # y
        BY <3>3, <2>2, <1>1
      <4>3. Request = net[tx.mid]
        BY DEF Request
      <4> HIDE DEF x, y
      <4> QED
        BY <1>3, <4>1, <4>2, <4>3, CommitTokens DEF TokensOk
    <3>4. /\ p \in 1..head \/ p \in (head + 1)..head'
          /\ q \in 1..head \/ q \in (head + 1)..head'
      BY <2>1, <1>1
    <3>5. p \in (head + 1)..head' => q \notin 1..head
      BY <2>2, <1>1
    <3> QED
      BY <3>1, <3>2, <3>3, <3>4, <3>5
  <2> QED
    BY <2>2 DEF TokenOnce
<1> QED
  BY <1>2, <1>3, SharedSteps DEF Seal, AppendReplay, durableVars

\* I5 for every log: an intent re-sealed with its token takes effect once within the
\* retention, through compactions that delete the first copy and prune the index
\* (append step 9, PruneTokens).
THEOREM TokensUsedOnce == Spec => []TokenOnce
<1>1. Spec => [](IndType /\ IndClock /\ IndTokens /\ TokenOnce)
  BY InitType, NextType, InitClock, NextClock, InitTokens, NextTokens, NextTokenOnce, PTL
  DEF Spec
<1> QED
  BY <1>1, PTL

-----------------------------------------------------------------------------
(***************************************************************************)
(* The freeze.  An open append is judged on a working copy, op by op: the  *)
(* freezes and thaws it has applied are those of the log and those of the  *)
(* part of its batch it has checked.                                       *)
(***************************************************************************)
ContentKinds == {"entry", "base"}

\* Op k of item it freezes the collection (b), or thaws it (~b).
IsFreeze(it, k, b) ==
    /\ it.kind = "policy"
    /\ k <= Len(it.policy.ops)
    /\ it.policy.ops[k].op = "freeze"
    /\ it.policy.ops[k].frozen <=> b

LogFreezes(b) == {x \in (1..head) \X (1..MaxOps) : IsFreeze(log[x[1]].body, x[2], b)}

\* The item at a position of the log, or of the open request.
BodyAt(p) == IF p <= head THEN log[p].body ELSE Request.items[p - head]

Applied(p, k) == p < head + tx.i \/ (p = head + tx.i /\ k < tx.j)

TxFreezes(b) ==
    {x \in (1..(head + tx.i)) \X (1..MaxOps) :
        Applied(x[1], x[2]) /\ IsFreeze(BodyAt(x[1]), x[2], b)}

\* Every freeze of F has a later thaw in T; the same below position c.
Lifted(F, T) == \A x \in F : \E y \in T : Before(x, y)
LiftedBelow(F, T, c) == \A x \in F : x[1] < c => \E y \in T : Before(x, y) /\ y[1] < c

IndFrozen ==
    /\ ~st.frozen => Lifted(LogFreezes(TRUE), LogFreezes(FALSE))
    /\ \A c \in 1..head : log[c].body.kind \in ContentKinds =>
           LiftedBelow(LogFreezes(TRUE), LogFreezes(FALSE), c)
    /\ tx.mid # 0 =>
           /\ ~tx.ws.frozen => Lifted(TxFreezes(TRUE), TxFreezes(FALSE))
           /\ \A c \in 1..(head + tx.i - 1) : BodyAt(c).kind \in ContentKinds =>
                  LiftedBelow(TxFreezes(TRUE), TxFreezes(FALSE), c)

\* No item, no freeze.
LEMMA InitFrozen == Init => IndFrozen
  BY DEF Init, IndFrozen, NoTx, head, Lifted, LogFreezes

\* A step of a check, seen from the freezes: the transaction's place in its request.
LEMMA TxPlace ==
  ASSUME IndType, tx.mid # 0, tx.i <= Len(Request.items)
  PROVE  /\ head \in Nat /\ tx.i \in Nat \ {0} /\ tx.j \in Nat
         /\ BodyAt(head + tx.i) = CurrentItem
         /\ CurrentItem.kind = "policy" =>
                /\ CurrentItem.policy.ops \in Seq(PolicyOps)
                /\ Len(CurrentItem.policy.ops) \in 1..MaxOps
         /\ CurrentItem.kind # "policy" => tx.j = 0
<1>1. tx.mid \in 1..Len(net) /\ tx.i \in 1..(Len(Request.items) + 1) /\ tx.j \in Nat
      /\ (tx.j > 0 => HeaderChecked)
  BY DEF IndType, TypeOK, TxOk
<1>2. head \in Nat
  BY ChainTyped
<1>3. Request \in Requests /\ WellFormed(Request)
  BY <1>1 DEF IndType, TypeOK, NetOk, Request
<1>4. Len(Request.items) \in Nat /\ tx.i \in 1..Len(Request.items)
  BY <1>1, <1>3 DEF Requests
<1>5. BodyAt(head + tx.i) = CurrentItem
  <2>1. ~(head + tx.i <= head) /\ (head + tx.i) - head = tx.i
    BY <1>2, <1>4
  <2> QED
    BY <2>1 DEF BodyAt, CurrentItem
<1>6. CurrentItem.kind = "policy" => Len(CurrentItem.policy.ops) \in 1..MaxOps
  BY <1>3, <1>4 DEF WellFormed, CurrentItem
<1>7. CurrentItem.kind = "policy" => CurrentItem.policy.ops \in Seq(PolicyOps)
  BY CurrentItemTyped
<1>8. CurrentItem.kind # "policy" => tx.j = 0
  BY <1>1 DEF HeaderChecked
<1> QED
  BY <1>1, <1>2, <1>4, <1>5, <1>6, <1>7, <1>8

\* When a transaction opens, the freezes it has applied are those of the log.
LEMMA OpenFreezes ==
  ASSUME IndType, NEW m \in 1..Len(net), AppendBegin(m) \/ CreateLog(m)
  PROVE  /\ \A b \in BOOLEAN : TxFreezes(b)' = LogFreezes(b)
         /\ \A p \in 1..head : BodyAt(p)' = log[p].body
         /\ head \in Nat /\ head' = head /\ log' = log /\ st' = st
         /\ tx'.i = 1 /\ tx'.j = 0
         /\ tx'.ws = st \/ (tx'.ws = BlankState /\ head = 0)
<1>1. head \in Nat /\ log' = log /\ head' = head /\ st' = st
  BY ChainTyped DEF AppendBegin, CreateLog, durableVars, head
<1>2. tx'.i = 1 /\ tx'.j = 0 /\ (tx'.ws = st \/ (tx'.ws = BlankState /\ log = << >>))
  BY DEF AppendBegin, CreateLog, NoTx
<1>3. \A p \in 1..head : BodyAt(p)' = log[p].body
  BY <1>1 DEF BodyAt
<1>4. /\ \A p \in 1..(head + 1), k \in 1..MaxOps : Applied(p, k)' <=> p \in 1..head
      /\ \A p \in 1..head : p \in 1..(head + 1)
  <2>1. MaxOps \in Nat
    BY ServiceAssumption
  <2> QED
    BY <1>1, <1>2, <2>1 DEF Applied
<1>5. ASSUME NEW b \in BOOLEAN PROVE TxFreezes(b)' = LogFreezes(b)
  <2>1. TxFreezes(b)' = {x \in (1..(head + 1)) \X (1..MaxOps) :
                            Applied(x[1], x[2])' /\ IsFreeze(BodyAt(x[1])', x[2], b)}
    BY <1>1, <1>2 DEF TxFreezes, IsFreeze
  <2> QED
    BY <2>1, <1>1, <1>3, <1>4 DEF LogFreezes
<1> QED
  BY <1>1, <1>2, <1>3, <1>5, EmptyLog

\* What a checked item, or a part of one, adds to the freezes applied: nothing, except a
\* freeze op itself.
LEMMA CheckFreezes ==
  ASSUME IndType, CheckDeviceItem \/ CheckPolicyHeader \/ ApplyPolicyOp \/ FinishPolicy,
         NEW b \in BOOLEAN
  PROVE  TxFreezes(b)' = IF ApplyPolicyOp /\ IsFreeze(CurrentItem, tx.j, b)
                         THEN TxFreezes(b) \cup {<<head + tx.i, tx.j>>}
                         ELSE TxFreezes(b)
<1> DEFINE here == head + tx.i
           Op(p, k) == IsFreeze(BodyAt(p), k, b)
<1>1. /\ tx.mid # 0 /\ tx.i <= Len(Request.items)
      /\ UNCHANGED <<clientVars, durableVars, acks, revs>>
  BY DEF CheckDeviceItem, CheckPolicyHeader, ApplyPolicyOp, FinishPolicy
<1>2. tx \in TxType /\ MaxOps \in Nat
  BY ServiceAssumption DEF IndType, TypeOK, TxType
<1>3. /\ head \in Nat /\ tx.i \in Nat \ {0} /\ tx.j \in Nat /\ here \in Nat \ {0}
      /\ BodyAt(here) = CurrentItem
      /\ CurrentItem.kind = "policy" => Len(CurrentItem.policy.ops) \in 1..MaxOps
      /\ CurrentItem.kind # "policy" => tx.j = 0
  BY <1>1, TxPlace
<1>4. tx'.mid = tx.mid /\ net' = net /\ log' = log /\ head' = head
  BY <1>1, <1>2
  DEF CheckDeviceItem, CheckPolicyHeader, ApplyPolicyOp, FinishPolicy, TxType, clientVars,
      durableVars, head
<1>5. \A p : BodyAt(p)' = BodyAt(p)
  BY <1>4 DEF BodyAt, Request
<1>6. TxFreezes(b)' = {x \in (1..(head + tx'.i)) \X (1..MaxOps) :
                          (x[1] < head + tx'.i \/ (x[1] = head + tx'.i /\ x[2] < tx'.j))
                          /\ Op(x[1], x[2])}
  BY <1>4, <1>5 DEF TxFreezes, IsFreeze, Applied
<1>7. TxFreezes(b) = {x \in (1..here) \X (1..MaxOps) :
                         (x[1] < here \/ (x[1] = here /\ x[2] < tx.j)) /\ Op(x[1], x[2])}
  BY DEF TxFreezes, Applied
<1>8. CASE CheckDeviceItem \/ FinishPolicy
  <2>1. tx'.i = tx.i + 1 /\ tx'.j = 0 /\ head + tx'.i = here + 1
    <3>1. CASE CheckDeviceItem
      <4>1. tx'.i = tx.i + 1 /\ tx'.j = tx.j /\ CurrentItem.kind # "policy"
        BY <1>2, <3>1 DEF CheckDeviceItem, TxType
      <4> QED
        BY <4>1, <1>3
    <3>2. CASE FinishPolicy
      <4>1. tx'.i = tx.i + 1 /\ tx'.j = 0
        BY <1>2, <3>2 DEF FinishPolicy, TxType
      <4> QED
        BY <4>1, <1>3
    <3> QED
      BY <1>8, <3>1, <3>2
  <2>2. ~ApplyPolicyOp
    BY <1>3, <1>8 DEF CheckDeviceItem, FinishPolicy, ApplyPolicyOp
  <2>3. \A k \in 1..MaxOps : Op(here, k) => k < tx.j
    BY <1>2, <1>3, <1>8 DEF CheckDeviceItem, FinishPolicy, IsFreeze
  <2> HIDE DEF here, Op
  <2>4. TxFreezes(b)' = {x \in (1..(here + 1)) \X (1..MaxOps) :
                            (x[1] < here + 1 \/ (x[1] = here + 1 /\ x[2] < 0))
                            /\ Op(x[1], x[2])}
    BY <1>6, <2>1
  <2>5. \A p \in 1..(here + 1), k \in 1..MaxOps :
            (p < here + 1 \/ (p = here + 1 /\ k < 0)) /\ Op(p, k)
                <=> p \in 1..here /\ (p < here \/ (p = here /\ k < tx.j)) /\ Op(p, k)
    BY <2>3, <1>2, <1>3
  <2>6. \A p \in 1..here : p \in 1..(here + 1)
    BY <1>3
  <2>7. TxFreezes(b)' = TxFreezes(b)
    BY <2>4, <2>5, <2>6, <1>7
  <2> QED
    BY <2>2, <2>7
<1>9. CASE CheckPolicyHeader
  <2>1. tx'.i = tx.i /\ tx'.j = 1 /\ tx.j = 0 /\ head + tx'.i = here
    BY <1>2, <1>3, <1>9 DEF CheckPolicyHeader, TxType
  <2>2. ~ApplyPolicyOp
    BY <1>9 DEF CheckPolicyHeader, ApplyPolicyOp
  <2> HIDE DEF here, Op
  <2>3. \A k \in 1..MaxOps : k < 1 <=> k < tx.j
    BY <2>1, <1>2
  <2>4. TxFreezes(b)' = TxFreezes(b)
    BY <2>1, <2>3, <1>6, <1>7
  <2> QED
    BY <2>2, <2>4
<1>10. CASE ApplyPolicyOp
  <2>1. tx'.i = tx.i /\ tx'.j = tx.j + 1 /\ head + tx'.i = here
    BY <1>2, <1>3, <1>10 DEF ApplyPolicyOp, TxType
  <2>2. tx.j \in 1..MaxOps /\ here \in 1..here
    BY <1>2, <1>3, <1>10 DEF ApplyPolicyOp
  <2>3. Op(here, tx.j) <=> IsFreeze(CurrentItem, tx.j, b)
    BY <1>3
  <2> HIDE DEF here, Op
  <2>4. \A k \in 1..MaxOps : k < tx.j + 1 <=> k < tx.j \/ k = tx.j
    BY <1>2, <1>3
  <2>5. TxFreezes(b)' = {x \in (1..here) \X (1..MaxOps) :
                            (x[1] < here \/ (x[1] = here /\ (x[2] < tx.j \/ x[2] = tx.j)))
                            /\ Op(x[1], x[2])}
    BY <2>1, <2>4, <1>6
  <2>6. ~(here < here)
    BY <1>3
  <2>7. CASE Op(here, tx.j)
    <3>1. TxFreezes(b)' = TxFreezes(b) \cup {<<here, tx.j>>}
      BY <2>2, <2>5, <2>6, <2>7, <1>7
    <3> QED
      BY <3>1, <2>3, <2>7, <1>10 DEF here
  <2>8. CASE ~Op(here, tx.j)
    <3>1. TxFreezes(b)' = TxFreezes(b)
      BY <2>2, <2>5, <2>6, <2>8, <1>7
    <3> QED
      BY <3>1, <2>3, <2>8
  <2> QED
    BY <2>7, <2>8
<1> QED
  BY <1>8, <1>9, <1>10

\* What a check does to the frozen flag of the working copy: a freeze op sets it.
LEMMA CheckFrozen ==
  ASSUME IndType, CheckDeviceItem \/ CheckPolicyHeader \/ ApplyPolicyOp \/ FinishPolicy
  PROVE  \/ /\ tx'.ws.frozen = tx.ws.frozen
            /\ ~(ApplyPolicyOp /\ IsFreeze(CurrentItem, tx.j, TRUE))
         \/ ApplyPolicyOp /\ IsFreeze(CurrentItem, tx.j, TRUE) /\ tx'.ws.frozen
         \/ ApplyPolicyOp /\ IsFreeze(CurrentItem, tx.j, FALSE)
<1>1. tx \in TxType /\ tx.ws \in TransportState /\ tx.mid # 0 /\ tx.i <= Len(Request.items)
  BY DEF IndType, TypeOK, TxType, CheckDeviceItem, CheckPolicyHeader, ApplyPolicyOp, FinishPolicy
<1>2. CASE CheckDeviceItem
  <2>1. tx'.ws = DeviceItemEffect(tx.ws, CurrentItem)
    BY <1>1, <1>2 DEF CheckDeviceItem, TxType
  <2>2. ~ApplyPolicyOp
    BY <1>2 DEF CheckDeviceItem, ApplyPolicyOp
  <2> QED
    BY <2>1, <2>2, <1>1 DEF DeviceItemEffect, Rekey, TransportState
<1>3. CASE CheckPolicyHeader
  <2>1. ~ApplyPolicyOp /\ tx'.ws = tx.ws
    BY <1>1, <1>3 DEF CheckPolicyHeader, ApplyPolicyOp, TxType
  <2> QED
    BY <2>1
<1>4. CASE FinishPolicy
  <2>1. tx'.ws = PolicyEnd(tx.ws, CurrentItem.policy)
    BY <1>1, <1>4 DEF FinishPolicy, TxType
  <2>2. ~ApplyPolicyOp
    <3>1. tx.j = Len(CurrentItem.policy.ops) + 1 /\ Len(CurrentItem.policy.ops) \in Nat
      BY <1>1, <1>4, CurrentItemTyped DEF FinishPolicy
    <3> QED
      BY <3>1 DEF ApplyPolicyOp
  <2> QED
    BY <2>1, <2>2, <1>1 DEF PolicyEnd, TransportState
<1>5. CASE ApplyPolicyOp
  <2> DEFINE o == CurrentItem.policy.ops[tx.j]
  <2>1. tx'.ws = OpEffect(tx.ws, o)
    BY <1>1, <1>5 DEF ApplyPolicyOp, TxType
  <2>2. CurrentItem.kind = "policy" /\ tx.j <= Len(CurrentItem.policy.ops) /\ tx.j \in Nat
    BY <1>5 DEF ApplyPolicyOp, IndType, TypeOK
  <2>3. CASE o.op = "freeze"
    <3>1. tx'.ws = [tx.ws EXCEPT !.frozen = o.frozen]
      BY <2>1, <2>3 DEF OpEffect
    <3>2. tx'.ws.frozen = o.frozen
      BY <3>1, <1>1 DEF TransportState
    <3>3. CASE o.frozen
      BY <3>2, <3>3, <2>2, <2>3, <1>5 DEF IsFreeze
    <3>4. CASE ~o.frozen
      BY <3>4, <2>2, <2>3, <1>5 DEF IsFreeze
    <3> QED
      BY <3>3, <3>4
  <2>4. CASE o.op # "freeze"
    <3> HIDE DEF o
    <3>1. OpEffect(tx.ws, o).frozen = tx.ws.frozen
      BY <2>4, <1>1 DEF OpEffect, Genesis, Enrol, DeviceRevoke, MemberSet, MemberRemove,
                        TransportState
    <3>2. ~IsFreeze(CurrentItem, tx.j, TRUE)
      BY <2>4 DEF IsFreeze, o
    <3> QED
      BY <3>1, <3>2, <2>1
  <2> QED
    BY <2>3, <2>4
<1> QED
  BY <1>2, <1>3, <1>4, <1>5

\* The working copy is thawed only after every freeze it has applied was lifted, so what
\* passes ContentOk comes after the thaw.
LEMMA CheckLifted ==
  ASSUME IndType, IndFrozen,
         CheckDeviceItem \/ CheckPolicyHeader \/ ApplyPolicyOp \/ FinishPolicy
  PROVE  /\ ~tx'.ws.frozen => Lifted(TxFreezes(TRUE)', TxFreezes(FALSE)')
         /\ \A c \in 1..(head + tx'.i - 1) : BodyAt(c).kind \in ContentKinds =>
                LiftedBelow(TxFreezes(TRUE)', TxFreezes(FALSE)', c)
<1> DEFINE F == TxFreezes(TRUE)
           T == TxFreezes(FALSE)
           new == <<head + tx.i, tx.j>>
<1>1. tx.mid # 0 /\ tx.i <= Len(Request.items) /\ tx \in TxType /\ MaxOps \in Nat
  BY ServiceAssumption
  DEF IndType, TypeOK, TxType, CheckDeviceItem, CheckPolicyHeader, ApplyPolicyOp, FinishPolicy
<1>2. /\ head \in Nat /\ tx.i \in Nat \ {0} /\ tx.j \in Nat
      /\ BodyAt(head + tx.i) = CurrentItem
      /\ CurrentItem.kind # "policy" => tx.j = 0
  BY <1>1, TxPlace
<1>3. /\ ~tx.ws.frozen => Lifted(F, T)
      /\ \A c \in 1..(head + tx.i - 1) : BodyAt(c).kind \in ContentKinds => LiftedBelow(F, T, c)
  BY <1>1 DEF IndFrozen
<1>4. /\ F' = IF ApplyPolicyOp /\ IsFreeze(CurrentItem, tx.j, TRUE) THEN F \cup {new} ELSE F
      /\ T' = IF ApplyPolicyOp /\ IsFreeze(CurrentItem, tx.j, FALSE) THEN T \cup {new} ELSE T
  <2>1. TRUE \in BOOLEAN /\ FALSE \in BOOLEAN
    OBVIOUS
  <2> QED
    BY <2>1, CheckFreezes, Zenon
<1>5. \A x \in F \cup T : /\ x[1] \in Nat /\ x[2] \in 1..MaxOps
                          /\ x[1] < head + tx.i \/ (x[1] = head + tx.i /\ x[2] < tx.j)
  <2>1. ASSUME NEW b, NEW x \in TxFreezes(b)
        PROVE  /\ x[1] \in Nat /\ x[2] \in 1..MaxOps
               /\ x[1] < head + tx.i \/ (x[1] = head + tx.i /\ x[2] < tx.j)
    BY <1>1, <1>2 DEF TxFreezes, Applied
  <2> QED
    BY <2>1, Zenon
<1>6. ~(IsFreeze(CurrentItem, tx.j, TRUE) /\ IsFreeze(CurrentItem, tx.j, FALSE))
  BY DEF IsFreeze
<1>7. new[1] = head + tx.i /\ new[2] = tx.j
  OBVIOUS
<1> HIDE DEF F, T, new
<1>8. ~tx'.ws.frozen => Lifted(F', T')
  <2> SUFFICES ASSUME ~tx'.ws.frozen PROVE Lifted(F', T')
    OBVIOUS
  <2>1. CASE ApplyPolicyOp /\ IsFreeze(CurrentItem, tx.j, FALSE)
    <3>1. F' = F /\ new \in T'
      BY <2>1, <1>4, <1>6
    <3>2. \A x \in F : Before(x, new)
      BY <1>5, <1>7 DEF Before
    <3> QED
      BY <3>1, <3>2 DEF Lifted
  <2>2. CASE ~(ApplyPolicyOp /\ IsFreeze(CurrentItem, tx.j, FALSE))
    <3>1. /\ tx'.ws.frozen = tx.ws.frozen
          /\ ~(ApplyPolicyOp /\ IsFreeze(CurrentItem, tx.j, TRUE))
      BY <2>2, CheckFrozen
    <3> QED
      BY <3>1, <2>2, <1>3, <1>4
  <2> QED
    BY <2>1, <2>2
<1>9. ASSUME NEW c \in 1..(head + tx'.i - 1), BodyAt(c).kind \in ContentKinds
      PROVE  LiftedBelow(F', T', c)
  <2>1. tx'.i = tx.i \/ tx'.i = tx.i + 1
    BY <1>1 DEF CheckDeviceItem, CheckPolicyHeader, ApplyPolicyOp, FinishPolicy, TxType
  <2>2. CASE c \in 1..(head + tx.i - 1)
    <3>1. LiftedBelow(F, T, c)
      BY <2>2, <1>3, <1>9
    <3>2. \A x \in F' : x[1] < c => x \in F
      <4>1. ~(new[1] < c)
        BY <2>2, <1>2, <1>7
      <4>2. \A x \in F' : x \in F \/ x = new
        BY <1>4
      <4> QED
        BY <4>1, <4>2
    <3>3. T \subseteq T'
      BY <1>4
    <3> QED
      BY <3>1, <3>2, <3>3 DEF LiftedBelow
  <2>3. CASE c = head + tx.i
    <3>1. CurrentItem.kind \in ContentKinds /\ tx.j = 0 /\ CheckDeviceItem
      BY <2>3, <1>2, <1>9 DEF ContentKinds, CheckPolicyHeader, ApplyPolicyOp, FinishPolicy
    <3>2. ~tx.ws.frozen /\ ~ApplyPolicyOp
      BY <3>1 DEF CheckDeviceItem, DeviceItemOk, ContentOk, ContentKinds, ApplyPolicyOp
    <3>3. Lifted(F, T) /\ F' = F /\ T' = T
      BY <3>2, <1>3, <1>4
    <3>4. \A y \in T : y[1] < c
      BY <3>1, <2>3, <1>1, <1>5
    <3> QED
      BY <3>3, <3>4 DEF Lifted, LiftedBelow
  <2> QED
    BY <2>1, <2>2, <2>3, <1>2, <1>9
<1> QED
  BY <1>8, <1>9 DEF F, T

\* The freezes a commit makes durable are the ones the append has applied.
LEMMA CommitFreezes ==
  ASSUME IndType, AppendCommit
  PROVE  /\ \A b \in BOOLEAN : LogFreezes(b)' = TxFreezes(b)
         /\ \A c \in 1..head' : log'[c].body = BodyAt(c)
         /\ head' = head + tx.i - 1
<1> DEFINE n == Len(Request.items)
<1>1. /\ n \in Nat \ {0} /\ head \in Nat /\ Len(log') = head + n
      /\ \A p \in 1..head : log'[p] = log[p]
  BY CommitShape
<1>2. tx.i = n + 1 /\ tx.j \in Nat /\ MaxOps \in Nat
  BY ServiceAssumption DEF AppendCommit, IndType, TypeOK
<1>3. head' = head + n /\ head' = head + tx.i - 1
  BY <1>1, <1>2 DEF head
<1>4. ASSUME NEW c \in 1..(head + n) PROVE log'[c].body = BodyAt(c)
  <2>1. CASE c <= head
    BY <2>1, <1>1, <1>4 DEF BodyAt
  <2>2. CASE ~(c <= head)
    <3>1. c - head \in 1..n /\ head + (c - head) = c
      BY <2>2, <1>1, <1>4
    <3>2. log'[head + (c - head)].body = Request.items[c - head]
      BY <3>1, CommitFields
    <3> QED
      BY <2>2, <3>1, <3>2 DEF BodyAt
  <2> QED
    BY <2>1, <2>2
<1>5. tx.j = 0
  <2>1. tx.j > 0 => tx.i <= n
    BY DEF AppendCommit, IndType, TxOk, HeaderChecked
  <2> QED
    BY <2>1, <1>1, <1>2
<1> HIDE DEF n
<1>6. ASSUME NEW b \in BOOLEAN PROVE LogFreezes(b)' = TxFreezes(b)
  <2>1. LogFreezes(b)' = {x \in (1..(head + n)) \X (1..MaxOps) : IsFreeze(BodyAt(x[1]), x[2], b)}
    BY <1>3, <1>4 DEF LogFreezes, IsFreeze
  <2>2. TxFreezes(b) = {x \in (1..(head + n + 1)) \X (1..MaxOps) :
                           (x[1] < head + n + 1 \/ (x[1] = head + n + 1 /\ x[2] < 0))
                           /\ IsFreeze(BodyAt(x[1]), x[2], b)}
    <3>1. head + tx.i = head + n + 1
      BY <1>1, <1>2
    <3> QED
      BY <3>1, <1>5 DEF TxFreezes, Applied
  <2>3. /\ \A p \in 1..(head + n + 1), k \in 1..MaxOps :
               p < head + n + 1 \/ (p = head + n + 1 /\ k < 0) <=> p \in 1..(head + n)
        /\ \A p \in 1..(head + n) : p \in 1..(head + n + 1)
    BY <1>1, <1>2
  <2> QED
    BY <2>1, <2>2, <2>3
<1> QED
  BY <1>3, <1>4, <1>6

\* Every step keeps the thaw before the content.
LEMMA NextFrozen == IndType /\ IndFrozen /\ [Next]_vars => IndFrozen'
<1> SUFFICES ASSUME IndType, IndFrozen, [Next]_vars PROVE IndFrozen'
  OBVIOUS
<1> USE DEF ContentKinds
<1>1. CASE UNCHANGED <<st, log, tx, revs>>
  <2>1. tx.mid # 0 => Request' = Request
    <3>1. net' = net \/ (\E b \in Batches : Seal(b))
      BY DEF Next, Serve, vars, Tick, AppendReplay, AppendBegin, CreateLog, CheckDeviceItem,
             CheckPolicyHeader, ApplyPolicyOp, FinishPolicy, AppendCommit, Abort,
             PutSnapshot, EndorseSnapshot, Compact, CompactFails, SetQuota, clientVars
    <3> QED
      BY <1>1, <3>1 DEF Seal, Request
  <2>2. \A b : LogFreezes(b)' = LogFreezes(b)
    BY <1>1 DEF LogFreezes, head, IsFreeze
  <2>3. tx.mid # 0 => \A p : BodyAt(p)' = BodyAt(p)
    BY <1>1, <2>1 DEF BodyAt, head
  <2>4. tx.mid # 0 => \A b : TxFreezes(b)' = TxFreezes(b)
    BY <1>1, <2>3 DEF TxFreezes, Applied, IsFreeze, head
  <2>5. /\ LogFreezes(TRUE)' = LogFreezes(TRUE) /\ LogFreezes(FALSE)' = LogFreezes(FALSE)
        /\ tx.mid # 0 => TxFreezes(TRUE)' = TxFreezes(TRUE) /\ TxFreezes(FALSE)' = TxFreezes(FALSE)
    BY <2>2, <2>4
  <2>6. head' = head
    BY <1>1 DEF head
  <2> QED
    BY <1>1, <2>3, <2>5, <2>6 DEF IndFrozen, Lifted, LiftedBelow
<1>2. ASSUME NEW m \in 1..Len(net), AppendBegin(m) \/ CreateLog(m) PROVE IndFrozen'
  <2>1. /\ \A b \in BOOLEAN : TxFreezes(b)' = LogFreezes(b)
        /\ \A p \in 1..head : BodyAt(p)' = log[p].body
        /\ head \in Nat /\ head' = head /\ log' = log /\ st' = st
        /\ tx'.i = 1 /\ tx'.j = 0
        /\ tx'.ws = st \/ (tx'.ws = BlankState /\ head = 0)
    BY <1>2, OpenFreezes
  <2>2. LogFreezes(TRUE)' = LogFreezes(TRUE) /\ LogFreezes(FALSE)' = LogFreezes(FALSE)
    BY <2>1 DEF LogFreezes, IsFreeze
  <2>3. head' + tx'.i - 1 = head
    BY <2>1
  <2>5. TxFreezes(TRUE)' = LogFreezes(TRUE) /\ TxFreezes(FALSE)' = LogFreezes(FALSE)
    BY <2>1
  <2>6. \A c \in 1..head : log[c].body.kind \in ContentKinds =>
            LiftedBelow(LogFreezes(TRUE), LogFreezes(FALSE), c)
    BY DEF IndFrozen
  <2>7. ~st.frozen => Lifted(LogFreezes(TRUE), LogFreezes(FALSE))
    BY DEF IndFrozen
  <2>4. ~tx'.ws.frozen => Lifted(LogFreezes(TRUE), LogFreezes(FALSE))
    <3>1. CASE tx'.ws = st
      BY <3>1 DEF IndFrozen
    <3>2. CASE head = 0
      BY <3>2 DEF Lifted, LogFreezes
    <3> QED
      BY <2>1, <3>1, <3>2
  <2> QED
    BY <2>1, <2>2, <2>3, <2>4, <2>5, <2>6, <2>7 DEF IndFrozen, Lifted, LiftedBelow
<1>3. CASE CheckDeviceItem \/ CheckPolicyHeader \/ ApplyPolicyOp \/ FinishPolicy
  <2>1. /\ tx.mid # 0 /\ tx.i <= Len(Request.items)
        /\ UNCHANGED <<clientVars, durableVars, acks, revs>>
    BY <1>3 DEF CheckDeviceItem, CheckPolicyHeader, ApplyPolicyOp, FinishPolicy
  <2>2. tx \in TxType /\ tx.ws \in TransportState
    BY DEF IndType, TypeOK, TxType
  <2>3. /\ head \in Nat /\ tx.i \in Nat \ {0} /\ tx.j \in Nat
        /\ BodyAt(head + tx.i) = CurrentItem
    BY <2>1, TxPlace
  <2>4. tx'.mid = tx.mid /\ net' = net /\ log' = log /\ head' = head /\ st' = st
    BY <1>3, <2>1, <2>2
    DEF CheckDeviceItem, CheckPolicyHeader, ApplyPolicyOp, FinishPolicy, TxType, clientVars,
        durableVars, head
  <2>5. \A p : BodyAt(p)' = BodyAt(p)
    BY <2>4 DEF BodyAt, Request
  <2>6. LogFreezes(TRUE)' = LogFreezes(TRUE) /\ LogFreezes(FALSE)' = LogFreezes(FALSE)
    BY <2>4 DEF LogFreezes, IsFreeze
  <2>7. ~tx'.ws.frozen => Lifted(TxFreezes(TRUE)', TxFreezes(FALSE)')
    BY <1>3, CheckLifted
  <2>8. \A c \in 1..(head + tx'.i - 1) : BodyAt(c).kind \in ContentKinds =>
            LiftedBelow(TxFreezes(TRUE)', TxFreezes(FALSE)', c)
    BY <1>3, CheckLifted
  <2> QED
    BY <2>4, <2>5, <2>6, <2>7, <2>8 DEF IndFrozen, Lifted, LiftedBelow
<1>4. CASE AppendCommit
  <2>1. /\ \A b \in BOOLEAN : LogFreezes(b)' = TxFreezes(b)
        /\ \A c \in 1..head' : log'[c].body = BodyAt(c)
        /\ head' = head + tx.i - 1
    BY <1>4, CommitFreezes
  <2>2. st' = tx.ws /\ tx.mid # 0 /\ tx'.mid = 0
    BY <1>4 DEF AppendCommit, NoTx
  <2>3. LogFreezes(TRUE)' = TxFreezes(TRUE) /\ LogFreezes(FALSE)' = TxFreezes(FALSE)
    BY <2>1
  <2> QED
    BY <2>1, <2>2, <2>3 DEF IndFrozen, Lifted, LiftedBelow
<1>5. CASE Abort
  <2>1. tx'.mid = 0 /\ log' = log /\ st' = st /\ head' = head
    BY <1>5 DEF Abort, NoTx, durableVars, head
  <2>2. LogFreezes(TRUE)' = LogFreezes(TRUE) /\ LogFreezes(FALSE)' = LogFreezes(FALSE)
    BY <2>1 DEF LogFreezes, head, IsFreeze
  <2> QED
    BY <2>1, <2>2 DEF IndFrozen, Lifted, LiftedBelow
<1> QED
  BY <1>1, <1>2, <1>3, <1>4, <1>5, StateSteps

\* No content is appended while the collection is frozen, for every sequence of policy
\* items and every split of freezes and thaws over them (check_item, apply_policy).
THEOREM FrozenAlwaysExcludes == Spec => []FrozenExcludesContent
<1>1. Spec => [](IndType /\ IndFrozen)
  BY InitType, NextType, InitFrozen, NextFrozen, PTL DEF Spec
<1>2. IndType /\ IndFrozen => FrozenExcludesContent
  <2> SUFFICES ASSUME IndType, IndFrozen,
                      NEW p \in 1..head, NEW x \in OpsOfLog,
                      log[p].body.kind \in {"entry", "base"},
                      x[1] < p, x[3].op = "freeze", x[3].frozen
               PROVE  \E y \in OpsOfLog :
                          Before(x, y) /\ y[1] < p /\ y[3].op = "freeze" /\ ~y[3].frozen
    BY DEF FrozenExcludesContent
  <2>1. PICK u \in (1..head) \X (1..MaxOps) :
            /\ log[u[1]].body.kind = "policy"
            /\ u[2] <= Len(log[u[1]].body.policy.ops)
            /\ x = <<u[1], u[2], log[u[1]].body.policy.ops[u[2]]>>
    BY DEF OpsOfLog
  <2>2. x[1] = u[1] /\ x[2] = u[2] /\ x[3] = log[u[1]].body.policy.ops[u[2]]
    BY <2>1
  <2>3. u \in LogFreezes(TRUE)
    BY <2>1, <2>2 DEF LogFreezes, IsFreeze
  <2>4. PICK v \in LogFreezes(FALSE) : Before(u, v) /\ v[1] < p
    <3>1. LiftedBelow(LogFreezes(TRUE), LogFreezes(FALSE), p)
      BY DEF IndFrozen, ContentKinds
    <3> QED
      BY <3>1, <2>2, <2>3 DEF LiftedBelow
  <2>5. /\ v \in (1..head) \X (1..MaxOps)
        /\ log[v[1]].body.kind = "policy"
        /\ v[2] <= Len(log[v[1]].body.policy.ops)
        /\ log[v[1]].body.policy.ops[v[2]].op = "freeze"
        /\ ~log[v[1]].body.policy.ops[v[2]].frozen
    BY <2>4 DEF LogFreezes, IsFreeze
  <2> DEFINE y == <<v[1], v[2], log[v[1]].body.policy.ops[v[2]]>>
  <2>6. y \in OpsOfLog
    BY <2>5 DEF OpsOfLog
  <2>7. Before(x, y)
    BY <2>2, <2>4 DEF Before
  <2> QED
    BY <2>4, <2>5, <2>6, <2>7
<1> QED
  BY <1>1, <1>2, PTL

-----------------------------------------------------------------------------
(***************************************************************************)
(* The rebuild.  rebuild_state is a fold over the stored control items; an *)
(* append has folded the log, and the part of its batch it has checked,    *)
(* over the same checks.                                                   *)
(***************************************************************************)
LEMMA LeastNat ==
  ASSUME NEW T, T \subseteq Nat, T # {}
  PROVE  \E x \in T : \A y \in T : x <= y
<1>1. \E x \in T : \A y \in T : ~(<<y, x>> \in OpToRel(<, Nat))
  BY NatLessThanWellFounded, WFMin
<1>2. PICK x \in T : \A y \in T : ~(<<y, x>> \in OpToRel(<, Nat))
  BY <1>1
<1>3. ASSUME NEW y \in T PROVE x <= y
  <2>1. ~(y < x)
    BY <1>2 DEF OpToRel
  <2> QED
    BY <2>1
<1> QED
  BY <1>3

\* Two functions that agree at 0, and at n when they agree at n - 1, agree at k.
Alike(f, g, k) == f[0] = g[0] /\ \A n \in 1..k : f[n-1] = g[n-1] => f[n] = g[n]

LEMMA AgreeAt ==
  ASSUME NEW k \in Nat, NEW f, NEW g, Alike(f, g, k)
  PROVE  f[k] = g[k]
<1> SUFFICES ASSUME f[k] # g[k] PROVE FALSE
  OBVIOUS
<1> DEFINE T == {m \in 0..k : f[m] # g[m]}
<1>1. T \subseteq Nat /\ T # {}
  OBVIOUS
<1>2. PICK m \in T : \A i \in T : m <= i
  <2> HIDE DEF T
  <2> QED
    BY <1>1, LeastNat
<1>3. m \in 1..k /\ m - 1 \notin T
  BY <1>2 DEF Alike
<1>4. f[m-1] = g[m-1]
  BY <1>3
<1> QED
  BY <1>2, <1>3, <1>4 DEF Alike

Good(s) == [ok |-> TRUE, s |-> s]

\* h runs the first j ops of a policy item; they are valid and end in t.
OpRun(h, j, s, pol, seq) ==
    h = [n \in 0..j |-> IF n = 0 THEN [ok |-> PolicyHeaderOk(s, pol, seq), s |-> s]
                        ELSE NextOp(h[n-1], pol, seq, n)]

OpsReach(s, pol, seq, j, t) == \E h : OpRun(h, j, s, pol, seq) /\ h[j] = Good(t)

LEMMA OpsStart ==
  ASSUME NEW s, NEW pol, NEW seq, PolicyHeaderOk(s, pol, seq)
  PROVE  OpsReach(s, pol, seq, 0, s)
<1> DEFINE x == [ok |-> PolicyHeaderOk(s, pol, seq), s |-> s]
           h == [n \in 0..0 |-> x]
<1>1. PolicyHeaderOk(s, pol, seq) = TRUE
  BY DEF PolicyHeaderOk
<1>2. x = Good(s)
  BY <1>1 DEF Good
<1>3. h = [n \in 0..0 |-> IF n = 0 THEN x ELSE NextOp(h[n-1], pol, seq, n)]
  OBVIOUS
<1>4. h[0] = Good(s)
  BY <1>2
<1> HIDE DEF h
<1> QED
  BY <1>3, <1>4 DEF OpsReach, OpRun

LEMMA OpsNext ==
  ASSUME NEW s, NEW pol, NEW seq, NEW j \in Nat, NEW t,
         OpsReach(s, pol, seq, j, t), OpOk(t, pol.ops[j + 1], seq, j + 1)
  PROVE  OpsReach(s, pol, seq, j + 1, OpEffect(t, pol.ops[j + 1]))
<1>1. PICK h : OpRun(h, j, s, pol, seq) /\ h[j] = Good(t)
  BY DEF OpsReach
<1> DEFINE x == [ok |-> PolicyHeaderOk(s, pol, seq), s |-> s]
           y == NextOp(Good(t), pol, seq, j + 1)
           g == [n \in 0..(j+1) |-> IF n = j + 1 THEN y ELSE h[n]]
<1>2. y = Good(OpEffect(t, pol.ops[j + 1]))
  BY DEF NextOp, Good
<1> HIDE DEF y, x
<1>3. h[0] = x /\ \A n \in 1..j : h[n] = NextOp(h[n-1], pol, seq, n)
  <2>1. h = [n \in 0..j |-> IF n = 0 THEN x ELSE NextOp(h[n-1], pol, seq, n)]
    BY <1>1 DEF OpRun, x
  <2> QED
    BY <2>1
<1>4. g[0] = x /\ \A n \in 1..(j+1) : g[n] = NextOp(g[n-1], pol, seq, n)
  <2>1. g[0] = x
    BY <1>3
  <2>2. ASSUME NEW n \in 1..j PROVE g[n] = NextOp(g[n-1], pol, seq, n)
    <3>1. n \in 0..(j+1) /\ n - 1 \in 0..(j+1) /\ n # j + 1 /\ n - 1 # j + 1
      OBVIOUS
    <3>2. g[n] = h[n] /\ g[n-1] = h[n-1]
      BY <3>1
    <3> HIDE DEF g
    <3> QED
      BY <3>2, <1>3
  <2>3. g[j+1] = NextOp(g[j], pol, seq, j + 1)
    <3>1. g[j+1] = y /\ g[j] = h[j]
      OBVIOUS
    <3> HIDE DEF g
    <3> QED
      BY <3>1, <1>1 DEF y
  <2> HIDE DEF g
  <2>4. ASSUME NEW n \in 1..(j+1) PROVE g[n] = NextOp(g[n-1], pol, seq, n)
    <3>1. CASE n = j + 1
      <4>1. n - 1 = j
        BY <3>1
      <4> QED
        BY <4>1, <3>1, <2>3
    <3>2. CASE n # j + 1
      <4>1. n \in 1..j
        BY <3>2
      <4> QED
        BY <4>1, <2>2
    <3> QED
      BY <3>1, <3>2
  <2> QED
    BY <2>1, <2>4
<1>5. g = [n \in 0..(j+1) |-> g[n]]
  OBVIOUS
<1>6. g[j+1] = y
  OBVIOUS
<1> HIDE DEF g
<1>7. g = [n \in 0..(j+1) |-> IF n = 0 THEN x ELSE NextOp(g[n-1], pol, seq, n)]
  <2>1. \A n \in 0..(j+1) : g[n] = IF n = 0 THEN x ELSE NextOp(g[n-1], pol, seq, n)
    <3>1. \A n \in 0..(j+1) : n = 0 \/ n \in 1..(j+1)
      OBVIOUS
    <3> QED
      BY <3>1, <1>4
  <2> QED
    BY <2>1, <1>5
<1> QED
  BY <1>2, <1>6, <1>7 DEF OpsReach, OpRun, x

\* apply_policy on an item whose ops are valid.
LEMMA OpsEnd ==
  ASSUME NEW s, NEW pol, NEW seq, NEW t, Len(pol.ops) \in Nat,
         OpsReach(s, pol, seq, Len(pol.ops), t), PolicyEndOk(t, pol)
  PROVE  ApplyPolicy(s, pol, seq) = Good(PolicyEnd(t, pol))
<1>1. PICK k : k = Len(pol.ops)
  OBVIOUS
<1>2. PICK h : OpRun(h, k, s, pol, seq) /\ h[k] = Good(t)
  BY <1>1 DEF OpsReach
<1> DEFINE x == [ok |-> PolicyHeaderOk(s, pol, seq), s |-> s]
           f == CHOOSE f : f = [n \in 0..Len(pol.ops) |->
                                   IF n = 0 THEN [ok |-> PolicyHeaderOk(s, pol, seq), s |-> s]
                                   ELSE NextOp(f[n-1], pol, seq, n)]
<1>3. OpRun(f, k, s, pol, seq)
  BY <1>1, <1>2 DEF OpRun
<1>4. \A g : OpRun(g, k, s, pol, seq) =>
          g[0] = x /\ \A n \in 1..k : g[n] = NextOp(g[n-1], pol, seq, n)
  <2> SUFFICES ASSUME NEW g, OpRun(g, k, s, pol, seq)
               PROVE  g[0] = x /\ \A n \in 1..k : g[n] = NextOp(g[n-1], pol, seq, n)
    OBVIOUS
  <2> HIDE DEF x
  <2>1. g = [n \in 0..k |-> IF n = 0 THEN x ELSE NextOp(g[n-1], pol, seq, n)]
    BY DEF OpRun, x
  <2> QED
    BY <2>1, <1>1
<1>5. ApplyPolicy(s, pol, seq) =
          [ok |-> f[k].ok /\ PolicyEndOk(f[k].s, pol), s |-> PolicyEnd(f[k].s, pol)]
  BY <1>1 DEF ApplyPolicy
<1> HIDE DEF f, x
<1>6. f[k] = h[k]
  <2>1. f[0] = h[0]
    BY <1>2, <1>3, <1>4
  <2>2. \A n \in 1..k : f[n-1] = h[n-1] => f[n] = h[n]
    BY <1>2, <1>3, <1>4
  <2>3. k \in Nat /\ Alike(f, h, k)
    BY <1>1, <2>1, <2>2 DEF Alike
  <2> QED
    BY <2>3, AgreeAt
<1>7. f[k].ok = TRUE /\ f[k].s = t
  BY <1>6, <1>2 DEF Good
<1>8. PolicyEndOk(t, pol) = TRUE
  BY DEF PolicyEndOk
<1> QED
  BY <1>5, <1>7, <1>8 DEF Good

\* f runs the control items among the bodies B up to position k; they are valid and end in s.
BodyStep(acc, it, p) ==
    IF it.kind # "entry" /\ acc.ok THEN CheckItem(acc.s, it, p) ELSE acc

ItemRun(f, B, k) ==
    f = [p \in 0..k |-> IF p = 0 THEN Good(BlankState) ELSE BodyStep(f[p-1], B[p], p)]

Reaches(B, k, s) == \E f : ItemRun(f, B, k) /\ f[k] = Good(s)

LEMMA RunShape ==
  ASSUME NEW f, NEW B, NEW k \in Nat
  PROVE  ItemRun(f, B, k) <=>
             /\ f = [p \in 0..k |-> f[p]]
             /\ f[0] = Good(BlankState)
             /\ \A p \in 1..k : f[p] = BodyStep(f[p-1], B[p], p)
<1>1. ASSUME ItemRun(f, B, k)
      PROVE  /\ f = [p \in 0..k |-> f[p]]
             /\ f[0] = Good(BlankState)
             /\ \A p \in 1..k : f[p] = BodyStep(f[p-1], B[p], p)
  <2> DEFINE F(p) == IF p = 0 THEN Good(BlankState) ELSE BodyStep(f[p-1], B[p], p)
  <2>1. f = [p \in 0..k |-> F(p)]
    BY <1>1 DEF ItemRun
  <2>2. F(0) = Good(BlankState) /\ \A p \in 1..k : F(p) = BodyStep(f[p-1], B[p], p)
    OBVIOUS
  <2>3. 0 \in 0..k /\ \A p \in 1..k : p \in 0..k
    OBVIOUS
  <2> HIDE DEF F
  <2>4. \A p \in 0..k : f[p] = F(p)
    BY <2>1, Zenon
  <2>5. f = [p \in 0..k |-> f[p]]
    BY <2>1
  <2> QED
    BY <2>2, <2>3, <2>4, <2>5
<1>2. ASSUME f = [p \in 0..k |-> f[p]], f[0] = Good(BlankState),
             \A p \in 1..k : f[p] = BodyStep(f[p-1], B[p], p)
      PROVE  ItemRun(f, B, k)
  <2>1. \A p \in 0..k : f[p] = IF p = 0 THEN Good(BlankState) ELSE BodyStep(f[p-1], B[p], p)
    <3>1. \A p \in 0..k : p = 0 \/ p \in 1..k
      OBVIOUS
    <3> QED
      BY <3>1, <1>2
  <2> QED
    BY <2>1, <1>2 DEF ItemRun
<1> QED
  BY <1>1, <1>2

LEMMA ReachStart == ASSUME NEW B PROVE Reaches(B, 0, BlankState)
<1> DEFINE f == [p \in 0..0 |-> Good(BlankState)]
<1>1. f = [p \in 0..0 |-> f[p]] /\ f[0] = Good(BlankState)
      /\ \A p \in 1..0 : f[p] = BodyStep(f[p-1], B[p], p)
  OBVIOUS
<1> HIDE DEF f
<1>2. ItemRun(f, B, 0)
  BY <1>1, RunShape
<1> QED
  BY <1>1, <1>2 DEF Reaches

LEMMA ReachNext ==
  ASSUME NEW B, NEW k \in Nat, NEW s, NEW t, Reaches(B, k, s),
         IF B[k+1].kind = "entry" THEN t = s ELSE CheckItem(s, B[k+1], k + 1) = Good(t)
  PROVE  Reaches(B, k + 1, t)
<1>1. PICK f : ItemRun(f, B, k) /\ f[k] = Good(s)
  BY DEF Reaches
<1>2. /\ f = [p \in 0..k |-> f[p]] /\ f[0] = Good(BlankState)
      /\ \A p \in 1..k : f[p] = BodyStep(f[p-1], B[p], p)
  BY <1>1, RunShape
<1>3. Good(t) = BodyStep(Good(s), B[k+1], k + 1)
  BY DEF BodyStep, Good
<1> DEFINE g == [p \in 0..(k+1) |-> IF p = k + 1 THEN Good(t) ELSE f[p]]
<1>4. g = [p \in 0..(k+1) |-> g[p]] /\ g[k+1] = Good(t) /\ g[k] = f[k]
  OBVIOUS
<1>5. g[0] = Good(BlankState)
  BY <1>2
<1>6. \A p \in 1..k : g[p] = f[p] /\ g[p-1] = f[p-1]
  OBVIOUS
<1> HIDE DEF g
<1>7. ASSUME NEW p \in 1..(k+1) PROVE g[p] = BodyStep(g[p-1], B[p], p)
  <2>1. CASE p = k + 1
    <3>1. p - 1 = k
      BY <2>1
    <3> QED
      BY <3>1, <2>1, <1>1, <1>3, <1>4
  <2>2. CASE p # k + 1
    <3>1. p \in 1..k
      BY <2>2
    <3> QED
      BY <3>1, <1>2, <1>6
  <2> QED
    BY <2>1, <2>2
<1>8. ItemRun(g, B, k + 1)
  <2>1. k + 1 \in Nat
    OBVIOUS
  <2> QED
    BY <2>1, <1>4, <1>5, <1>7, RunShape
<1> QED
  BY <1>4, <1>8 DEF Reaches

LEMMA ReachSame ==
  ASSUME NEW B, NEW C, NEW k \in Nat, NEW s, Reaches(B, k, s), \A p \in 1..k : C[p] = B[p]
  PROVE  Reaches(C, k, s)
<1>1. PICK f : ItemRun(f, B, k) /\ f[k] = Good(s)
  BY DEF Reaches
<1>2. /\ f = [p \in 0..k |-> f[p]] /\ f[0] = Good(BlankState)
      /\ \A p \in 1..k : f[p] = BodyStep(f[p-1], B[p], p)
  BY <1>1, RunShape
<1>3. \A p \in 1..k : f[p] = BodyStep(f[p-1], C[p], p)
  BY <1>2
<1>4. ItemRun(f, C, k)
  BY <1>2, <1>3, RunShape
<1> QED
  BY <1>1, <1>4 DEF Reaches

\* The state of an empty log is blank.
LEMMA ReachNothing ==
  ASSUME NEW B, NEW s, Reaches(B, 0, s)
  PROVE  s = BlankState
<1>1. PICK f : ItemRun(f, B, 0) /\ f[0] = Good(s)
  BY DEF Reaches
<1>2. f[0] = Good(BlankState)
  BY <1>1, RunShape
<1>3. Good(s).s = s /\ Good(BlankState).s = BlankState
  BY DEF Good
<1> QED
  BY <1>1, <1>2, <1>3

\* An append is at item k + 1 of B and has applied j - 1 of its ops (j = 0: none, and the
\* header is not checked yet): the items before it, and those ops, lead to ws.
Checked(B, k, j, ws) ==
    \E w : /\ Reaches(B, k, w)
           /\ IF j = 0 THEN ws = w ELSE OpsReach(w, B[k+1].policy, k + 1, j - 1, ws)

LEMMA CheckedItem ==
  ASSUME NEW B, NEW k, NEW s, Reaches(B, k, s)
  PROVE  Checked(B, k, 0, s)
  BY DEF Checked

LEMMA CheckedReach ==
  ASSUME NEW B, NEW k, NEW s, Checked(B, k, 0, s)
  PROVE  Reaches(B, k, s)
  BY DEF Checked

LEMMA CheckedDevice ==
  ASSUME NEW B, NEW k \in Nat, NEW s, Checked(B, k, 0, s),
         B[k+1].kind # "policy", DeviceItemOk(s, B[k+1])
  PROVE  Checked(B, k + 1, 0, DeviceItemEffect(s, B[k+1]))
<1>1. Reaches(B, k, s)
  BY CheckedReach
<1>2. PICK it : it = B[k+1]
  OBVIOUS
<1>3. DeviceItemOk(s, it) = TRUE
  BY <1>2 DEF DeviceItemOk
<1>4. CheckItem(s, it, k + 1) = Good(DeviceItemEffect(s, it))
  BY <1>2, <1>3 DEF CheckItem, Good
<1>5. it.kind = "entry" => DeviceItemEffect(s, it) = s
  BY DEF DeviceItemEffect
<1>6. PICK t : t = DeviceItemEffect(s, it)
  OBVIOUS
<1>7. Reaches(B, k + 1, t)
  BY <1>1, <1>2, <1>4, <1>5, <1>6, ReachNext
<1> QED
  BY <1>2, <1>6, <1>7, CheckedItem

LEMMA CheckedHeader ==
  ASSUME NEW B, NEW k, NEW s, Checked(B, k, 0, s), PolicyHeaderOk(s, B[k+1].policy, k + 1)
  PROVE  Checked(B, k, 1, s)
<1>1. Reaches(B, k, s)
  BY CheckedReach
<1>2. OpsReach(s, B[k+1].policy, k + 1, 0, s)
  BY OpsStart
<1>3. 1 # 0 /\ 1 - 1 = 0
  OBVIOUS
<1> QED
  BY <1>1, <1>2, <1>3 DEF Checked

LEMMA CheckedOp ==
  ASSUME NEW B, NEW k, NEW j \in Nat \ {0}, NEW s, Checked(B, k, j, s),
         OpOk(s, B[k+1].policy.ops[j], k + 1, j)
  PROVE  Checked(B, k, j + 1, OpEffect(s, B[k+1].policy.ops[j]))
<1>1. PICK w : Reaches(B, k, w) /\ OpsReach(w, B[k+1].policy, k + 1, j - 1, s)
  BY DEF Checked
<1>2. PICK n \in Nat : n = j - 1 /\ j = n + 1
  OBVIOUS
<1>3. OpsReach(w, B[k+1].policy, k + 1, n + 1, OpEffect(s, B[k+1].policy.ops[n + 1]))
  BY <1>1, <1>2, OpsNext
<1>4. j + 1 # 0 /\ (j + 1) - 1 = n + 1
  BY <1>2
<1> QED
  BY <1>1, <1>2, <1>3, <1>4 DEF Checked

LEMMA CheckedEnd ==
  ASSUME NEW B, NEW k \in Nat, NEW s, B[k+1].kind = "policy", Len(B[k+1].policy.ops) \in Nat,
         Checked(B, k, Len(B[k+1].policy.ops) + 1, s), PolicyEndOk(s, B[k+1].policy)
  PROVE  Checked(B, k + 1, 0, PolicyEnd(s, B[k+1].policy))
<1>1. PICK pol : pol = B[k+1].policy
  OBVIOUS
<1>2. PICK n \in Nat : n = Len(pol.ops)
  BY <1>1
<1>3. n + 1 # 0 /\ (n + 1) - 1 = n
  OBVIOUS
<1>4. PICK w : Reaches(B, k, w) /\ OpsReach(w, pol, k + 1, n, s)
  BY <1>1, <1>2, <1>3 DEF Checked
<1>5. ApplyPolicy(w, pol, k + 1) = Good(PolicyEnd(s, pol))
  BY <1>1, <1>2, <1>4, OpsEnd
<1>6. CheckItem(w, B[k+1], k + 1) = Good(PolicyEnd(s, pol))
  BY <1>1, <1>5 DEF CheckItem
<1>7. PICK t : t = PolicyEnd(s, pol)
  OBVIOUS
<1>8. Reaches(B, k + 1, t)
  BY <1>4, <1>6, <1>7, ReachNext
<1> QED
  BY <1>1, <1>7, <1>8, CheckedItem

LogBodies == [p \in 1..head |-> log[p].body]
TxBodies == [p \in 1..(head + Len(Request.items)) |-> BodyAt(p)]

\* The control items of the log lead to the live state; with what an open append has
\* checked of its batch, to its working copy.
IndRebuild ==
    /\ Reaches(LogBodies, head, st)
    /\ tx.mid # 0 => Checked(TxBodies, head + tx.i - 1, tx.j, tx.ws)

\* What is rebuilt is what the control items lead to.
LEMMA RebuildReaches ==
  ASSUME IndType, RetentionExact, Reaches(LogBodies, head, st)
  PROVE  RebuildState = Good(st)
<1>1. head \in Nat
  BY ChainTyped
<1>2. ControlItems = {p \in 1..head : log[p].body.kind # "entry"}
  BY DEF ControlItems, RetentionExact
<1>3. PICK k : k = head
  OBVIOUS
<1>4. \A p \in 1..k : \A acc : NextItem(acc, p) = BodyStep(acc, LogBodies[p], p)
  BY <1>2, <1>3 DEF NextItem, BodyStep, LogBodies
<1>5. PICK h : ItemRun(h, LogBodies, k) /\ h[k] = Good(st)
  BY <1>3 DEF Reaches
<1>6. /\ h = [p \in 0..k |-> h[p]] /\ h[0] = Good(BlankState)
      /\ \A p \in 1..k : h[p] = BodyStep(h[p-1], LogBodies[p], p)
  BY <1>1, <1>3, <1>5, RunShape
<1> DEFINE f == CHOOSE f : f = [p \in 0..head |->
                                   IF p = 0 THEN [ok |-> TRUE, s |-> BlankState]
                                   ELSE NextItem(f[p-1], p)]
<1>7. h = [p \in 0..k |-> IF p = 0 THEN Good(BlankState) ELSE NextItem(h[p-1], p)]
  <2>1. \A p \in 0..k : h[p] = IF p = 0 THEN Good(BlankState) ELSE NextItem(h[p-1], p)
    <3>1. \A p \in 0..k : p = 0 \/ p \in 1..k
      BY <1>1, <1>3
    <3> QED
      BY <3>1, <1>4, <1>6
  <2> QED
    BY <2>1, <1>6
<1>8. f = [p \in 0..k |-> IF p = 0 THEN Good(BlankState) ELSE NextItem(f[p-1], p)]
  BY <1>3, <1>7 DEF Good
<1>9. RebuildState = f[k]
  BY <1>3 DEF RebuildState
<1> HIDE DEF f
<1>10. f[0] = Good(BlankState) /\ \A p \in 1..k : f[p] = NextItem(f[p-1], p)
  BY <1>1, <1>3, <1>8
<1>11. Alike(f, h, k)
  <2>1. \A p \in 1..k : f[p-1] = h[p-1] => f[p] = h[p]
    BY <1>4, <1>6, <1>10
  <2> QED
    BY <2>1, <1>6, <1>10 DEF Alike
<1>12. f[k] = h[k]
  BY <1>1, <1>3, <1>11, AgreeAt
<1> QED
  BY <1>5, <1>9, <1>12

\* The empty log leads to the blank state.
LEMMA InitRebuild == Init => IndRebuild
<1> SUFFICES ASSUME Init PROVE IndRebuild
  OBVIOUS
<1>1. head = 0 /\ st = BlankState /\ tx.mid = 0
  BY DEF Init, head, NoTx
<1>2. Reaches(LogBodies, 0, BlankState)
  BY ReachStart
<1> QED
  BY <1>1, <1>2 DEF IndRebuild

\* An append opens on the log as it is.
LEMMA OpenRebuild ==
  ASSUME IndType, IndRebuild, NEW m \in 1..Len(net), AppendBegin(m) \/ CreateLog(m)
  PROVE  IndRebuild'
<1>1. /\ head \in Nat /\ head' = head /\ log' = log /\ st' = st
      /\ tx'.i = 1 /\ tx'.j = 0
      /\ tx'.ws = st \/ (tx'.ws = BlankState /\ head = 0)
      /\ \A p \in 1..head : BodyAt(p)' = log[p].body
  BY OpenFreezes
<1>2. Reaches(LogBodies, head, st)
  BY DEF IndRebuild
<1>3. tx'.ws = st
  <2>1. CASE head = 0
    <3>1. Reaches(LogBodies, 0, st)
      BY <1>2, <2>1
    <3>2. st = BlankState
      BY <3>1, ReachNothing
    <3> QED
      BY <1>1, <3>2
  <2> QED
    BY <1>1, <2>1
<1>4. LogBodies' = LogBodies
  BY <1>1 DEF LogBodies
<1>5. tx'.mid = m
  BY DEF AppendBegin, CreateLog, NoTx
<1>6. net' = net /\ net[m] \in Requests
  <2>1. net \in Seq(Requests)
    BY DEF IndType, TypeOK
  <2>2. net' = net
    BY DEF AppendBegin, CreateLog, clientVars
  <2> QED
    BY <2>1, <2>2
<1>7. PICK n \in Nat : n = Len(Request.items)'
  BY <1>5, <1>6 DEF Request, Requests
<1>8. PICK B : B = TxBodies'
  OBVIOUS
<1>9. PICK k \in Nat : k = head
  BY <1>1
<1>10. ASSUME NEW p \in 1..k PROVE B[p] = LogBodies[p]
  <2>1. p \in 1..(k + n) /\ p \in 1..head
    BY <1>9
  <2>2. B = [q \in 1..(k + n) |-> BodyAt(q)']
    BY <1>1, <1>7, <1>8, <1>9 DEF TxBodies
  <2>3. B[p] = BodyAt(p)'
    BY <2>1, <2>2
  <2> QED
    BY <2>1, <2>3, <1>1 DEF LogBodies
<1>11. Reaches(B, k, st)
  BY <1>2, <1>9, <1>10, ReachSame
<1>12. Checked(B, k, 0, st)
  BY <1>11, CheckedItem
<1>13. head' + tx'.i - 1 = k
  BY <1>1, <1>9
<1>14. Checked(TxBodies, head + tx.i - 1, tx.j, tx.ws)'
  BY <1>1, <1>3, <1>8, <1>12, <1>13 DEF Checked, Reaches, ItemRun
<1>15. Reaches(LogBodies, head, st)'
  BY <1>1, <1>2, <1>4 DEF Reaches, ItemRun
<1> QED
  BY <1>14, <1>15 DEF IndRebuild

\* A step of the check folds the next op, or the next item, into the working copy.
LEMMA CheckRebuild ==
  ASSUME IndType, IndRebuild,
         CheckDeviceItem \/ CheckPolicyHeader \/ ApplyPolicyOp \/ FinishPolicy
  PROVE  IndRebuild'
<1>1. /\ tx.mid # 0 /\ tx.i <= Len(Request.items)
      /\ UNCHANGED <<clientVars, durableVars, acks, revs>>
  BY DEF CheckDeviceItem, CheckPolicyHeader, ApplyPolicyOp, FinishPolicy
<1>2. tx \in TxType
  BY DEF IndType, TypeOK, TxType
<1>3. /\ head \in Nat /\ tx.i \in Nat \ {0} /\ tx.j \in Nat
      /\ BodyAt(head + tx.i) = CurrentItem
      /\ CurrentItem.kind = "policy" => Len(CurrentItem.policy.ops) \in Nat
      /\ CurrentItem.kind # "policy" => tx.j = 0
  BY <1>1, TxPlace
<1>4. tx'.mid = tx.mid /\ net' = net /\ log' = log /\ head' = head /\ st' = st
  BY <1>1, <1>2
  DEF CheckDeviceItem, CheckPolicyHeader, ApplyPolicyOp, FinishPolicy, TxType, clientVars,
      durableVars, head
<1>5. LogBodies' = LogBodies /\ TxBodies' = TxBodies
  BY <1>4 DEF LogBodies, TxBodies, BodyAt, Request
<1>6. PICK B : B = TxBodies
  OBVIOUS
<1>7. PICK k \in Nat : k = head + tx.i - 1 /\ head + tx.i = k + 1
  BY <1>3
<1>8. B[k+1] = CurrentItem /\ CurrentSeq = k + 1
  <2>1. Request \in Requests /\ Request.first = head + 1 /\ CurrentSeq = Request.first + tx.i - 1
    BY <1>1, CurrentItemTyped DEF IndType, TxOk, HeadOk, Request
  <2>2. Len(Request.items) \in Nat
    BY <2>1 DEF Requests
  <2>3. head + tx.i \in 1..(head + Len(Request.items))
    BY <1>1, <1>3, <2>2
  <2> QED
    BY <1>3, <1>6, <1>7, <2>1, <2>3 DEF TxBodies
<1>9. Checked(B, k, tx.j, tx.ws)
  BY <1>1, <1>6, <1>7 DEF IndRebuild
<1>10. PICK i : i = tx'.i
  OBVIOUS
<1>11. PICK j : j = tx'.j
  OBVIOUS
<1>12. PICK s : s = tx'.ws
  OBVIOUS
<1>13. Checked(B, head + i - 1, j, s)
  <2>1. CASE CheckDeviceItem
    <3>1. /\ CurrentItem.kind # "policy" /\ DeviceItemOk(tx.ws, CurrentItem)
          /\ s = DeviceItemEffect(tx.ws, CurrentItem) /\ i = tx.i + 1 /\ j = tx.j
      BY <2>1, <1>2, <1>10, <1>11, <1>12 DEF CheckDeviceItem, TxType
    <3>2. tx.j = 0 /\ head + i - 1 = k + 1
      BY <3>1, <1>3, <1>7
    <3> QED
      BY <3>1, <3>2, <1>8, <1>9, CheckedDevice
  <2>2. CASE CheckPolicyHeader
    <3>1. /\ tx.j = 0 /\ PolicyHeaderOk(tx.ws, CurrentItem.policy, CurrentSeq)
          /\ s = tx.ws /\ i = tx.i /\ j = 1
      BY <2>2, <1>2, <1>10, <1>11, <1>12 DEF CheckPolicyHeader, TxType
    <3> QED
      BY <3>1, <1>7, <1>8, <1>9, CheckedHeader
  <2>3. CASE ApplyPolicyOp
    <3>1. tx.j \in Nat \ {0} /\ OpOk(tx.ws, CurrentItem.policy.ops[tx.j], CurrentSeq, tx.j)
      BY <2>3, <1>3 DEF ApplyPolicyOp
    <3>2. /\ s = OpEffect(tx.ws, CurrentItem.policy.ops[tx.j])
          /\ i = tx.i /\ j = tx.j + 1
      BY <2>3, <1>2, <1>10, <1>11, <1>12 DEF ApplyPolicyOp, TxType
    <3> QED
      BY <3>1, <3>2, <1>7, <1>8, <1>9, CheckedOp
  <2>4. CASE FinishPolicy
    <3>1. /\ CurrentItem.kind = "policy" /\ tx.j = Len(CurrentItem.policy.ops) + 1
          /\ PolicyEndOk(tx.ws, CurrentItem.policy)
          /\ s = PolicyEnd(tx.ws, CurrentItem.policy) /\ i = tx.i + 1 /\ j = 0
      BY <2>4, <1>2, <1>10, <1>11, <1>12 DEF FinishPolicy, TxType
    <3>2. head + i - 1 = k + 1
      BY <3>1, <1>3, <1>7
    <3> QED
      BY <3>1, <3>2, <1>3, <1>8, <1>9, CheckedEnd
  <2> QED
    BY <2>1, <2>2, <2>3, <2>4
<1>14. Checked(TxBodies, head + tx.i - 1, tx.j, tx.ws)'
  <2>1. Checked(TxBodies', head' + tx'.i - 1, tx'.j, tx'.ws)
    BY <1>4, <1>5, <1>6, <1>10, <1>11, <1>12, <1>13
  <2> QED
    BY <2>1 DEF Checked, Reaches, ItemRun, OpsReach, OpRun
<1>15. Reaches(LogBodies, head, st)'
  BY <1>4, <1>5 DEF IndRebuild, Reaches, ItemRun
<1> QED
  BY <1>14, <1>15 DEF IndRebuild

\* A commit makes the batch, and the working copy, the log and the live state.
LEMMA CommitRebuild ==
  ASSUME IndType, IndRebuild, AppendCommit
  PROVE  IndRebuild'
<1>1. /\ \A c \in 1..head' : log'[c].body = BodyAt(c)
      /\ head' = head + tx.i - 1
  BY CommitFreezes
<1>2. /\ Len(Request.items) \in Nat \ {0} /\ head \in Nat
      /\ Len(log') = head + Len(Request.items)
  BY CommitShape
<1>3. tx.mid # 0 /\ tx.i = Len(Request.items) + 1 /\ st' = tx.ws /\ tx'.mid = 0
  BY DEF AppendCommit, NoTx
<1>4. tx.j = 0
  <2>1. tx.j > 0 => tx.i <= Len(Request.items)
    BY <1>3 DEF IndType, TxOk, HeaderChecked
  <2>2. tx.j \in Nat
    BY DEF IndType, TypeOK
  <2> QED
    BY <2>1, <2>2, <1>2, <1>3
<1>5. PICK k \in Nat : k = head' /\ k = head + Len(Request.items) /\ k = head + tx.i - 1
  BY <1>1, <1>2 DEF head
<1>6. PICK B : B = TxBodies
  OBVIOUS
<1>7. PICK C : C = LogBodies'
  OBVIOUS
<1>8. PICK s : s = tx.ws
  OBVIOUS
<1>9. Checked(B, k, 0, s)
  BY <1>3, <1>4, <1>5, <1>6, <1>8 DEF IndRebuild
<1>10. Reaches(B, k, s)
  BY <1>9, CheckedReach
<1>11. \A p \in 1..k : C[p] = B[p]
  BY <1>1, <1>5, <1>6, <1>7 DEF TxBodies, LogBodies
<1>12. Reaches(C, k, s)
  BY <1>10, <1>11, ReachSame
<1>13. Reaches(LogBodies, head, st)'
  BY <1>3, <1>5, <1>7, <1>8, <1>12 DEF Reaches, ItemRun
<1> QED
  BY <1>3, <1>13 DEF IndRebuild

\* Every step keeps the fold and the live state together.
LEMMA NextRebuild == IndType /\ IndRebuild /\ [Next]_vars => IndRebuild'
<1> SUFFICES ASSUME IndType, IndRebuild, [Next]_vars PROVE IndRebuild'
  OBVIOUS
<1>1. CASE UNCHANGED <<st, log, tx, revs>>
  <2>1. net' = net \/ (\E b \in Batches : Seal(b))
    BY DEF Next, Serve, vars, Tick, AppendReplay, AppendBegin, CreateLog, CheckDeviceItem,
           CheckPolicyHeader, ApplyPolicyOp, FinishPolicy, AppendCommit, Abort,
           PutSnapshot, EndorseSnapshot, Compact, CompactFails, SetQuota, clientVars
  <2>2. tx.mid # 0 => TxBodies' = TxBodies
    BY <1>1, <2>1 DEF Seal, Request, TxBodies, BodyAt, head
  <2>3. head' = head /\ LogBodies' = LogBodies
    BY <1>1 DEF head, LogBodies
  <2>4. Reaches(LogBodies', head', st')
    BY <1>1, <2>3 DEF IndRebuild
  <2>5. tx'.mid # 0 => Checked(TxBodies', head' + tx'.i - 1, tx'.j, tx'.ws)
    BY <1>1, <2>2, <2>3 DEF IndRebuild
  <2> QED
    BY <2>4, <2>5 DEF IndRebuild, Checked, Reaches, ItemRun, OpsReach, OpRun
<1>2. CASE \E m \in 1..Len(net) : AppendBegin(m) \/ CreateLog(m)
  BY <1>2, OpenRebuild
<1>3. CASE CheckDeviceItem \/ CheckPolicyHeader \/ ApplyPolicyOp \/ FinishPolicy
  BY <1>3, CheckRebuild
<1>4. CASE AppendCommit
  BY <1>4, CommitRebuild
<1>5. CASE Abort
  <2>1. tx'.mid = 0 /\ log' = log /\ st' = st
    BY <1>5 DEF Abort, NoTx, durableVars
  <2>2. head' = head /\ LogBodies' = LogBodies
    BY <2>1 DEF head, LogBodies
  <2> QED
    BY <2>1, <2>2 DEF IndRebuild, Reaches, ItemRun
<1> QED
  BY <1>1, <1>2, <1>3, <1>4, <1>5, StateSteps

\* Rebuilding from the stored control items gives the live transport state back without an
\* error, for every log, however it was compacted (rebuild_state against what append
\* maintains).
THEOREM RebuildAlwaysMatches == Spec => []RebuildMatches
<1>1. Spec => [](IndType /\ IndRetention /\ IndRebuild)
  BY InitType, NextType, InitRetention, NextRetention, InitRebuild, NextRebuild, PTL DEF Spec
<1>2. IndType /\ IndRetention /\ IndRebuild => RebuildMatches
  <2> SUFFICES ASSUME IndType, IndRetention, IndRebuild PROVE RebuildMatches
    OBVIOUS
  <2>1. RetentionExact /\ Reaches(LogBodies, head, st)
    BY DEF IndRetention, IndRebuild
  <2>2. RebuildState = Good(st)
    BY <2>1, RebuildReaches
  <2> QED
    BY <2>2 DEF RebuildMatches, Good
<1> QED
  BY <1>1, <1>2, PTL

=============================================================================
