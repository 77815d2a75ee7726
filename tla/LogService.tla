----------------------------- MODULE LogService -----------------------------
(***************************************************************************)
(* One collection's log: the serialized actor of                           *)
(* runtime/crates/log-service/src/service.rs on a transactional backend.   *)
(*                                                                         *)
(* A client seals a batch of items for a position and the chain hash it    *)
(* expects there, and sends it any number of times: net holds every request*)
(* ever sealed, and a request in it may be lost, delayed, repeated and     *)
(* reordered.  An append runs inside one exclusive write transaction (tx): *)
(* the items are checked one by one on a working copy of the transport     *)
(* state, and only the commit makes anything durable.  Time is the         *)
(* service's clock; every handler uses a reading of it taken before it     *)
(* waited for the collection's lock.                                       *)
(*                                                                         *)
(* A chain hash identifies the bytes of an item, which contain the hash of *)
(* the item before: it is modelled by the item's identity <<request,       *)
(* index>>.  Items have size 1.                                            *)
(***************************************************************************)
EXTENDS LogPolicy, FiniteSets

CONSTANTS
    CP,                 \* the control plane, as a principal
    Tokens,             \* idempotency tokens
    Batches,            \* what clients may seal: [by, items]
    StorageQuotas,      \* the storage quotas set_quota may set
    DefaultQuota,       \* Quotas::default
    TokenRetention,     \* TOKEN_RETENTION_MS
    GraceEntries,       \* COMPACTION_GRACE_ENTRIES
    MinAge,             \* COMPACTION_MIN_AGE_MS
    SelfEndorseAge,     \* SELF_ENDORSE_AGE_MS
    MaxReadItems,       \* MAX_READ_ITEMS
    MaxWait,            \* the longest a request waits for the collection's lock
    Publishers,         \* bound: devices that publish snapshots
    Endorsers,          \* bound: devices that endorse snapshots
    Pipelining,         \* bound: whether a client builds on requests in flight
    MaxOps,             \* bound: ops of a policy item
    MaxRequests,        \* bound: requests ever sealed
    MaxClock            \* bound: the service's clock

Principals == Devices \cup {CP}

\* One item of a batch.  epoch, wraps and recipient are as in LogPolicy.
Payloads ==
    [kind: DeviceItemKinds \cup {"policy"},
     signer: Devices \cup {None},
     epoch: Nat,
     idem: Tokens \cup {None},
     wraps: SUBSET Devices,
     recipient: Devices \cup {None},
     policy: Policies \cup {None}]

\* check_shape and the kinds a principal may append.
WellFormed(b) ==
    /\ b.items # << >>
    /\ \A ix \in 1..Len(b.items) :
           LET it == b.items[ix] IN
           IF it.kind = "policy"
           THEN it.policy # None /\ Len(it.policy.ops) \in 1..MaxOps
           ELSE it.signer # None /\ b.by # CP

ASSUME ServiceAssumption ==
    /\ CP \notin Devices
    /\ None \notin Tokens \cup Policies \cup [seq: Nat, exp: Nat]
    /\ Batches \subseteq [by: Principals, items: Seq(Payloads)]
    /\ \A b \in Batches : WellFormed(b)
    /\ StorageQuotas \subseteq Nat
    /\ {DefaultQuota, TokenRetention, GraceEntries, MinAge, SelfEndorseAge, MaxWait,
        MaxOps, MaxRequests, MaxClock} \subseteq Nat
    /\ MaxReadItems \in Nat \ {0}
    /\ Pipelining \in BOOLEAN
    /\ Publishers \cup Endorsers \subseteq Devices
    /\ MaxWait <= TokenRetention

VARIABLES
    net,            \* the requests sealed so far
    clock,          \* the service's clock
    st,             \* the transport state (CollectionMeta's policy part, and the ACL)
    log,            \* every item ever committed, by position
    kept,           \* the positions whose item is still stored
    retained_from,  \* the lowest entry position still retained
    tokens,         \* the token index
    snaps,          \* the registered snapshots
    archived,       \* the positions whose entry is in the archive
    used_bytes,     \* storage accounting
    storage_bytes,  \* the storage quota
    tx,             \* the exclusive write transaction of an append
    acks,           \* history: the receipts the service has answered with
    revs            \* history: the revocations committed so far

vars == <<net, clock, st, log, kept, retained_from, tokens, snaps, archived, used_bytes,
          storage_bytes, tx, acks, revs>>

clientVars == <<net, clock>>
retentionVars == <<retained_from, snaps, archived, storage_bytes>>
durableVars == <<st, log, kept, retained_from, tokens, snaps, archived, used_bytes, storage_bytes>>

head == Len(log)

ChainZero == <<0, 0>>

ChainAt(p) == IF p = 0 THEN ChainZero ELSE log[p].id

\* tx.mid = 0: no transaction is open.
NoTx == [mid |-> 0, now |-> 0, ws |-> BlankState, i |-> 1, j |-> 0, revoked |-> {}]

Request == net[tx.mid]
CurrentItem == Request.items[tx.i]
CurrentSeq == Request.first + tx.i - 1

\* Readings of the clock a handler may hold when it gets the lock.
Recent == {t \in 0..clock : clock - t <= MaxWait}

-----------------------------------------------------------------------------
Init ==
    /\ net = << >>
    /\ clock = 0
    /\ st = BlankState
    /\ log = << >>
    /\ kept = {}
    /\ retained_from = 1
    /\ tokens = [t \in Tokens |-> None]
    /\ snaps = {}
    /\ archived = {}
    /\ used_bytes = 0
    /\ storage_bytes = DefaultQuota
    /\ tx = NoTx
    /\ acks = {}
    /\ revs = {}

\* Time passes; no open request is older than MaxWait.
Tick ==
    /\ clock < MaxClock
    /\ tx.mid # 0 => clock + 1 - tx.now <= MaxWait
    /\ clock' = clock + 1
    /\ UNCHANGED <<net, durableVars, tx, acks, revs>>

LastOf(m) == net[m].first + Len(net[m].items) - 1

\* A genesis request; nothing else is sealed for a log that does not exist yet.
Founding(b) == b.items[1].kind = "policy" /\ b.items[1].policy.ops[1].op = "genesis"

\* A client seals batch b after the head it has read, or after a request in flight,
\* whose fate it does not know.  (Sealing commutes with the steps of an append.)
Seal(b) ==
    /\ tx.mid = 0
    /\ Len(net) < MaxRequests
    /\ log = << >> => Founding(b)
    /\ \E base \in {<<head, ChainAt(head)>>} \cup
                   {<<LastOf(m), <<m, Len(net[m].items)>> >> :
                        m \in {x \in 1..Len(net) : Pipelining}} :
           net' = Append(net, [by |-> b.by, items |-> b.items,
                               first |-> base[1] + 1, prev |-> base[2]])
    /\ UNCHANGED <<clock, durableVars, tx, acks, revs>>

-----------------------------------------------------------------------------
(***************************************************************************)
(* create_log and append.                                                  *)
(***************************************************************************)
Authorized(s, by) == by = CP \/ Active(s, by)

\* Mutant: compares positions, not bytes.
ReplayedBySeq(m) == \A ix \in 1..Len(net[m].items) : net[m].first + ix - 1 \in kept

\* Step 4: every item of the request is stored at its position, byte for byte.
Replayed(m) ==
    \A ix \in 1..Len(net[m].items) :
        LET p == net[m].first + ix - 1 IN
        p \in kept /\ log[p].id = <<m, ix>>

\* Mutant: reports the time of the retry.
ReceiptAtRetry(m) ==
    [mid |-> m, last |-> LastOf(m), head_chain |-> <<m, Len(net[m].items)>>, at |-> clock]

\* What `appended` reports for a request that is in the log.
Receipt(m) ==
    [mid |-> m, last |-> LastOf(m), head_chain |-> <<m, Len(net[m].items)>>,
     at |-> log[LastOf(m)].at]

AppendReplay(m) ==
    /\ tx.mid = 0
    /\ log # << >>
    /\ Authorized(st, net[m].by)
    /\ Replayed(m)
    /\ acks' = acks \cup {Receipt(m)}
    /\ UNCHANGED <<clientVars, durableVars, tx, revs>>

\* Mutant: the position alone.
HeadOkBySeq(m) == net[m].first = head + 1

\* Step 5: the request was sealed for the next position, after the current head.
HeadOk(m) == net[m].first = head + 1 /\ net[m].prev = ChainAt(head)

Content(m) == \E ix \in 1..Len(net[m].items) : net[m].items[ix].kind \in {"entry", "base"}

\* Steps 1-6, up to the working copy.  The quota and head checks answer
\* quota_exceeded and head-moved, which change nothing.
AppendBegin(m) ==
    /\ tx.mid = 0
    /\ log # << >>
    /\ Authorized(st, net[m].by)
    /\ ~Replayed(m)
    /\ Content(m) => used_bytes + Len(net[m].items) <= storage_bytes
    /\ HeadOk(m)
    /\ \E now \in Recent : tx' = [NoTx EXCEPT !.mid = m, !.now = now, !.ws = st]
    /\ UNCHANGED <<clientVars, durableVars, acks, revs>>

\* create_log on an unknown collection: the genesis item alone, at position 1.
CreateLog(m) ==
    /\ tx.mid = 0
    /\ log = << >>
    /\ net[m].by = CP
    /\ net[m].first = 1
    /\ net[m].prev = ChainZero
    /\ Len(net[m].items) = 1
    /\ \E now \in Recent : tx' = [NoTx EXCEPT !.mid = m, !.now = now]
    /\ UNCHANGED <<clientVars, durableVars, acks, revs>>

\* Steps 7-8 for a device-signed item, judged at the position before it.
CheckDeviceItem ==
    /\ tx.mid # 0
    /\ tx.i <= Len(Request.items)
    /\ CurrentItem.kind # "policy"
    /\ DeviceItemOk(tx.ws, CurrentItem)
    /\ tx' = [tx EXCEPT !.ws = DeviceItemEffect(tx.ws, CurrentItem), !.i = tx.i + 1]
    /\ UNCHANGED <<clientVars, durableVars, acks, revs>>

\* Steps 7-8 for a policy item: its header, its ops in order, its end.
CheckPolicyHeader ==
    /\ tx.mid # 0
    /\ tx.i <= Len(Request.items)
    /\ CurrentItem.kind = "policy"
    /\ tx.j = 0
    /\ PolicyHeaderOk(tx.ws, CurrentItem.policy, CurrentSeq)
    /\ tx' = [tx EXCEPT !.j = 1]
    /\ UNCHANGED <<clientVars, durableVars, acks, revs>>

ApplyPolicyOp ==
    /\ tx.mid # 0
    /\ tx.i <= Len(Request.items)
    /\ CurrentItem.kind = "policy"
    /\ tx.j \in 1..Len(CurrentItem.policy.ops)
    /\ LET o == CurrentItem.policy.ops[tx.j] IN
       /\ OpOk(tx.ws, o, CurrentSeq, tx.j)
       /\ tx' = [tx EXCEPT !.ws = OpEffect(tx.ws, o),
                           !.j = tx.j + 1,
                           !.revoked = @ \cup {[device |-> d, seq |-> CurrentSeq,
                                                epoch |-> tx.ws.epoch] :
                                                   d \in OpRevokes(tx.ws, o)}]
    /\ UNCHANGED <<clientVars, durableVars, acks, revs>>

FinishPolicy ==
    /\ tx.mid # 0
    /\ tx.i <= Len(Request.items)
    /\ CurrentItem.kind = "policy"
    /\ tx.j = Len(CurrentItem.policy.ops) + 1
    /\ PolicyEndOk(tx.ws, CurrentItem.policy)
    /\ tx' = [tx EXCEPT !.ws = PolicyEnd(tx.ws, CurrentItem.policy),
                        !.i = tx.i + 1, !.j = 0]
    /\ UNCHANGED <<clientVars, durableVars, acks, revs>>

BatchTokens(m) == {net[m].items[ix].idem : ix \in 1..Len(net[m].items)} \ {None}

\* Step 9: no token twice in the batch, and none in the index unexpired.
TokensOk(m, now) ==
    /\ \A x, y \in 1..Len(net[m].items) :
           net[m].items[x].idem = net[m].items[y].idem /\ net[m].items[x].idem # None
               => x = y
    /\ \A t \in BatchTokens(m) : tokens[t] # None => tokens[t].exp <= now

\* Mutant: stores the first item's bytes at every position.
FirstItemAt(m, p, now) ==
    LET ix == p - net[m].first + 1 IN
    [id |-> <<m, ix>>,
     prev |-> IF ix = 1 THEN net[m].prev ELSE <<m, ix - 1>>,
     body |-> net[m].items[1],
     at |-> now]

\* The item a request stores at position p.
ItemAt(m, p, now) ==
    LET ix == p - net[m].first + 1 IN
    [id |-> <<m, ix>>,
     prev |-> IF ix = 1 THEN net[m].prev ELSE <<m, ix - 1>>,
     body |-> net[m].items[ix],
     at |-> now]

\* Write::InsertItem's effect on the token index.
InsertTokens(m, now) ==
    [t \in Tokens |->
        IF t \in BatchTokens(m)
        THEN [seq |-> CHOOSE p \in net[m].first..LastOf(m) :
                          net[m].items[p - net[m].first + 1].idem = t,
              exp |-> now + TokenRetention]
        ELSE tokens[t]]

\* Step 11: the items, the head, the tokens, the accounting and the transport
\* state become durable together, and the receipt is answered.
AppendCommit ==
    LET m == tx.mid
        last == LastOf(m)
    IN  /\ tx.mid # 0
        /\ tx.i = Len(Request.items) + 1
        /\ TokensOk(m, tx.now)
        /\ log' = [p \in 1..last |-> IF p <= head THEN log[p] ELSE ItemAt(m, p, tx.now)]
        /\ kept' = kept \cup Request.first..last
        /\ tokens' = InsertTokens(m, tx.now)
        /\ st' = tx.ws
        /\ used_bytes' = used_bytes + Len(Request.items)
        /\ revs' = revs \cup tx.revoked
        /\ acks' = acks \cup {[mid |-> m, last |-> last,
                               head_chain |-> <<m, Len(Request.items)>>, at |-> tx.now]}
        /\ tx' = NoTx
        /\ UNCHANGED <<clientVars, retentionVars>>

\* An error return, a `duplicate` answer, a cancelled request or a crash: the
\* transaction is dropped with everything it buffered.
Abort ==
    /\ tx.mid # 0
    /\ tx' = NoTx
    /\ UNCHANGED <<clientVars, durableVars, acks, revs>>

-----------------------------------------------------------------------------
(***************************************************************************)
(* Snapshots, compaction and quotas.  Each is one write transaction.       *)
(***************************************************************************)
\* u64::saturating_sub.
Monus(a, b) == IF b <= a THEN a - b ELSE 0

NewestOf(S) == {s \in S : \A x \in S : x.seq <= s.seq}

\* Only a position above every registered snapshot is accepted; of the older ones
\* the newest stays (RETAINED_SNAPSHOTS = 2).
PutSnapshot(d, p) ==
    /\ tx.mid = 0
    /\ Active(st, d)
    /\ p \in 1..head
    /\ \A s \in snaps : s.seq < p
    /\ \E now \in Recent :
           snaps' = NewestOf(snaps)
                        \cup {[seq |-> p, author |-> d, at |-> now, endorsed |-> FALSE]}
    /\ UNCHANGED <<clientVars, st, log, kept, retained_from, tokens, archived,
                   used_bytes, storage_bytes, tx, acks, revs>>

\* endorse_snapshot's first transaction; Compact is its second.
EndorseSnapshot(d, s) ==
    /\ tx.mid = 0
    /\ Active(st, d)
    /\ s.author # d
    /\ (Writer(st, d) /\ KindOf[d] # "escrow") \/ KindOf[d] = "hosted"
    /\ snaps' = (snaps \ {s}) \cup {[s EXCEPT !.endorsed = TRUE]}
    /\ UNCHANGED <<clientVars, st, log, kept, retained_from, tokens, archived,
                   used_bytes, storage_bytes, tx, acks, revs>>

\* At most one personal device: nobody else could endorse.
Alone(s) ==
    \A d, e \in Devices :
        /\ Active(s, d) /\ KindOf[d] \notin ServiceKinds
        /\ Active(s, e) /\ KindOf[e] \notin ServiceKinds
        => d = e

CountsAsEndorsed(s, now) == s.endorsed \/ (Alone(st) /\ now - s.at > SelfEndorseAge)

\* Mutants: ignores the age; adds the grace region instead of subtracting it.
CompactableYoung(cp, now) ==
    \E s \in snaps : CountsAsEndorsed(s, now) /\ cp <= s.seq - GraceEntries
CompactableAhead(cp, now) ==
    /\ \E s \in snaps : CountsAsEndorsed(s, now) /\ cp <= s.seq + GraceEntries
    /\ \E p \in kept : log[p].at <= now - MinAge /\ cp <= p

\* cp is at or below the compaction point: a snapshot that counts as endorsed is at
\* least GraceEntries above it, and a stored item at or above it is old enough.
Compactable(cp, now) ==
    /\ \E s \in snaps : CountsAsEndorsed(s, now) /\ cp <= s.seq - GraceEntries
    /\ \E p \in kept : log[p].at <= now - MinAge /\ cp <= p

\* Mutant: keeps the entry at cp.
EntriesBelow(cp) == {p \in kept : p < cp /\ log[p].body.kind = "entry"}

\* DeleteEntriesThrough(cp).
EntriesThrough(cp) == {p \in kept : p <= cp /\ log[p].body.kind = "entry"}

\* Mutant: counts the control items too.
FreesItems(cp) == Cardinality({p \in kept : p <= cp})

\* entry_bytes_through(cp).
FreedBytes(cp) == Cardinality(EntriesThrough(cp))

\* Mutant: forgets a token with its entry, expired or not.
PruneWithEntries(now, stored) ==
    [t \in Tokens |->
        IF tokens[t] # None /\ tokens[t].seq \notin stored THEN None ELSE tokens[t]]

\* PruneTokens(now), after the entries are gone.
PruneTokens(now, stored) ==
    [t \in Tokens |->
        IF tokens[t] # None /\ tokens[t].exp <= now /\ tokens[t].seq \notin stored
        THEN None ELSE tokens[t]]

\* Mutant: starts one position late.
ArchivableAfter(cp) == {p \in EntriesThrough(cp) : p > retained_from}

\* archive_entries: what is written to the archive before anything is deleted.
Archivable(cp) == {p \in EntriesThrough(cp) : p >= retained_from}

\* The compaction point is the largest compactable position.
CompactionPoint(cp, now) ==
    /\ cp >= retained_from
    /\ Compactable(cp, now)
    /\ cp < head => ~Compactable(cp + 1, now)

Compact ==
    \E now \in Recent, cp \in 1..head :
        /\ tx.mid = 0
        /\ CompactionPoint(cp, now)
        /\ archived' = archived \cup Archivable(cp)
        /\ kept' = kept \ EntriesThrough(cp)
        /\ tokens' = PruneTokens(now, kept')
        /\ retained_from' = cp + 1
        /\ used_bytes' = Monus(used_bytes, FreedBytes(cp))
        /\ UNCHANGED <<clientVars, st, log, snaps, storage_bytes, tx, acks, revs>>

\* An archive write fails, or the service stops: the segments written so far stay in the
\* archive, and nothing is deleted.
CompactFails ==
    \E now \in Recent, cp \in 1..head :
        /\ tx.mid = 0
        /\ CompactionPoint(cp, now)
        /\ \E last \in Archivable(cp) :
               archived' = archived \cup {p \in Archivable(cp) : p <= last}
        /\ UNCHANGED <<clientVars, st, log, kept, retained_from, tokens, snaps, used_bytes,
                       storage_bytes, tx, acks, revs>>

SetQuota(q) ==
    /\ tx.mid = 0
    /\ log # << >>
    /\ storage_bytes' = q
    /\ UNCHANGED <<clientVars, st, log, kept, retained_from, tokens, snaps, archived, used_bytes,
                   tx, acks, revs>>

-----------------------------------------------------------------------------
\* What the service does, and the clock.
Serve ==
    \/ Tick
    \/ \E m \in 1..Len(net) : AppendReplay(m) \/ AppendBegin(m) \/ CreateLog(m)
    \/ CheckDeviceItem
    \/ CheckPolicyHeader
    \/ ApplyPolicyOp
    \/ FinishPolicy
    \/ AppendCommit
    \/ Abort
    \/ \E d \in Publishers, p \in 1..head : PutSnapshot(d, p)
    \/ \E d \in Endorsers, s \in snaps : EndorseSnapshot(d, s)
    \/ Compact
    \/ CompactFails
    \/ \E q \in StorageQuotas : SetQuota(q)

Next == Serve \/ \E b \in Batches : Seal(b)

Spec == Init /\ [][Next]_vars
-----------------------------------------------------------------------------
(***************************************************************************)
(* Types.                                                                  *)
(***************************************************************************)
Ids == Nat \X Nat

Requests == [by: Principals, items: Seq(Payloads), first: Nat \ {0}, prev: Ids]

Items == [id: Ids, prev: Ids, body: Payloads, at: Nat]

Revocations == [device: Devices, seq: Nat, epoch: Nat]

\* The type invariant.
TypeOK ==
    /\ net \in Seq(Requests)
    /\ clock \in Nat
    /\ st \in TransportState
    /\ log \in Seq(Items)
    /\ kept \in SUBSET Nat
    /\ retained_from \in Nat
    /\ tokens \in [Tokens -> [seq: Nat, exp: Nat] \cup {None}]
    /\ snaps \in SUBSET [seq: Nat, author: Devices, at: Nat, endorsed: BOOLEAN]
    /\ archived \in SUBSET Nat
    /\ used_bytes \in Nat
    /\ storage_bytes \in Nat
    /\ tx \in [mid: Nat, now: Nat, ws: TransportState, i: Nat, j: Nat,
               revoked: SUBSET Revocations]
    /\ tx.mid \in 0..Len(net)
    /\ acks \in SUBSET [mid: Nat, last: Nat, head_chain: Ids, at: Nat]
    /\ revs \in SUBSET Revocations

(***************************************************************************)
(* I1-I4: one chain of whole batches, durable receipts.                    *)
(***************************************************************************)

\* Every item's prev is the chain hash of the item before it, from the genesis item
\* on (append steps 5 and 6, service.rs): the log is one hash chain, although
\* requests built on a lost race or on an unanswered batch keep arriving.
ChainIntact == \A p \in 1..head : log[p].prev = ChainAt(p - 1)

\* A request the service has acknowledged is in the log, every item of it, at the
\* positions it was sealed for (I1, I3).
AcksDurable ==
    \A r \in acks :
        LET m == net[r.mid] IN
        /\ r.last = LastOf(r.mid)
        /\ r.last <= head
        /\ \A ix \in 1..Len(m.items) : log[m.first + ix - 1].id = <<r.mid, ix>>

\* A retry is answered with the original receipt (I4): however often a request is
\* repeated, and whatever was appended in between, its receipts are all the same.
ReceiptsAgree == \A r, q \in acks : r.mid = q.mid => r = q

SL == INSTANCE SharedLog

\* The service implements the shared log: whatever it refuses, replays, compacts or
\* aborts half-way, the head never regresses, no committed item changes, the log grows
\* by whole requests at the place they were sealed for, and every receipt describes
\* what is in the log (append, I1-I4).
ImplementsSharedLog == SL!Spec

(***************************************************************************)
(* I5: an idempotency token is used once within its retention.             *)
(***************************************************************************)

\* Two items with the same token were appended at least the token retention apart,
\* up to the time a request waits for the lock: a client that lost its receipt may
\* re-seal at a new head with the same token, after the first copy was compacted
\* too, and the intent takes effect once.
TokenOnce ==
    \A p, q \in 1..head :
        p < q /\ log[p].body.idem # None /\ log[p].body.idem = log[q].body.idem
            => log[q].at >= log[p].at + TokenRetention - MaxWait

(***************************************************************************)
(* I6 and the policy gate.                                                 *)
(***************************************************************************)

\* Nothing is sealed, or keyed, under an epoch a revoked device holds: content, key
\* grants and grant approvals at a position after a revocation carry a later epoch
\* than the one the device was revoked in (check_item, rekey_required).
EpochSeparation ==
    \A p \in 1..head, r \in revs :
        log[p].body.kind \in SealedKinds /\ r.seq < p => r.epoch < log[p].body.epoch

\* A revocation is final: no later item is signed by the device, and no later rekey
\* wraps the new epoch key for it (check_item, apply_rekey; a revoked device is never
\* enrolled again).
RevocationIsFinal ==
    \A p \in 1..head, r \in revs :
        r.seq < p /\ log[p].body.kind # "policy"
            => /\ log[p].body.signer # r.device
               /\ log[p].body.kind = "rekey" => r.device \notin log[p].body.wraps

\* A collection always has an owner (is_only_owner, apply_policy): no sequence of
\* member ops, in one item or in several, leaves it without one.
OwnerRemains == log # << >> => \E a \in Accounts : st.members[a] = "owner"

\* Every active device belongs to a member or is a service device: member-remove
\* leaves no device of the account active, and enrolment needs the membership.
ActiveDevicesAreMembers ==
    \A d \in Devices :
        Active(st, d) /\ KindOf[d] \notin ServiceKinds => RoleOf(st, d) # "none"

\* The ops of the log, by position and index.
OpsOfLog ==
    {<<y[1], y[2], log[y[1]].body.policy.ops[y[2]]>> :
        y \in {x \in (1..head) \X (1..MaxOps) :
                  /\ log[x[1]].body.kind = "policy"
                  /\ x[2] <= Len(log[x[1]].body.policy.ops)}}

Before(x, y) == x[1] < y[1] \/ (x[1] = y[1] /\ x[2] < y[2])

\* No content is appended while the collection is frozen: a freeze before an entry or
\* base was lifted before it, in the same policy item or in another (check_item).
FrozenExcludesContent ==
    \A p \in 1..head, x \in OpsOfLog :
        /\ log[p].body.kind \in {"entry", "base"}
        /\ x[1] < p /\ x[3].op = "freeze" /\ x[3].frozen
        => \E y \in OpsOfLog :
               Before(x, y) /\ y[1] < p /\ y[3].op = "freeze" /\ ~y[3].frozen

(***************************************************************************)
(* I9, reads and accounting.                                               *)
(***************************************************************************)

\* Exactly the control items and the entries from retained_from on are stored (I9).
RetentionExact ==
    kept = {p \in 1..head : log[p].body.kind # "entry" \/ p >= retained_from}

\* No entry is deleted before it is MinAge old, up to the time an append waits for
\* the lock (compact, last_seq_at_or_before).
YoungEntriesKept ==
    \A p \in 1..head : p \notin kept => log[p].at + MinAge <= clock + MaxWait

\* An entry is deleted only once it is in the archive, also when earlier compactions
\* failed half-way and were retried (archive_entries, compact).
DeletedEntriesArchived ==
    {p \in 1..head : log[p].body.kind = "entry" /\ p \notin kept} \subseteq archived

\* read(after, limit): the positions returned, and whether the reader is behind.
Behind(after) == after + 1 < retained_from

ReadItems(after, limit) ==
    IF Behind(after) THEN {}
    ELSE {p \in kept : p > after /\ Cardinality({q \in kept : after < q /\ q < p}) < limit}

\* The snapshot pointer a reader that is behind, or starts at 0, gets: the newest.
ReadSnapshot(after) == IF Behind(after) \/ after = 0 THEN NewestOf(snaps) ELSE {}

\* A read never skips an item: the page is the positions that follow `after`, with no
\* hole.  A reader that is behind is given a snapshot from which it can read on.
ReadsNeverSkip ==
    \A after \in 0..head :
        IF Behind(after)
        THEN \E s \in ReadSnapshot(after) : s.seq > after /\ ~Behind(s.seq)
        ELSE \A p \in (after + 1)..head :
                 p <= after + MaxReadItems <=> p \in ReadItems(after, MaxReadItems)

\* used_bytes is the size of what is stored, through appends and compactions.
StorageExact == used_bytes = Cardinality(kept)
=============================================================================
