----------------------------- MODULE LogObjects -----------------------------
(***************************************************************************)
(* The objects of one collection (manifests, chunks, blob parts): bytes in *)
(* an object store, metadata rows in the collection's transactional        *)
(* backend, and garbage collection between the two                         *)
(* (put_object, commit_object, finalize, record_object and gc of           *)
(* log-service/src/service.rs).                                            *)
(*                                                                         *)
(* Every await of a handler is a step of its own: the transactions on the  *)
(* backend are exclusive, the object store's operations are atomic, and    *)
(* nothing holds between them.  An object has size 1.  Two uploads of one  *)
(* address may carry different bytes (a blob part's address is opaque to   *)
(* the service).  created_at is the uploader's reading of the clock when   *)
(* its request arrived.                                                    *)
(***************************************************************************)
EXTENDS Integers, FiniteSets

CONSTANTS
    Addresses,
    Contents,     \* what an upload may carry
    Uploaders,    \* devices; each runs one request at a time
    None,
    Grace,        \* OBJECT_GRACE_MS
    MaxDuration,  \* the longest an upload request is in progress
    StorageQuotas,  \* the quotas a collection may have
    Overlap,      \* assumption: an address is uploaded while gc is deleting it
    MaxClock      \* bound: the service's clock

ASSUME ObjectsAssumption ==
    /\ None \notin Contents \cup [checksum: Contents, created_at: Nat]
    /\ {Grace, MaxDuration, MaxClock} \cup StorageQuotas \subseteq Nat
    /\ Overlap \in BOOLEAN
    /\ IsFiniteSet(Addresses)

VARIABLES
    clock,
    bytes,        \* the object store's final keys
    staged,       \* the object store's staging keys, one per device
    meta,         \* the metadata rows, all committed
    used_bytes,   \* storage accounting
    storage_bytes,  \* Quotas.storage_bytes; the service changes it in LogService only
    refs,         \* addresses a retained item or snapshot references
    up,           \* the request each device has in flight
    dead,         \* the addresses a gc round has still to delete from the store
    archive       \* what was copied to the archive, by address

vars == <<clock, bytes, staged, meta, used_bytes, storage_bytes, refs, up, dead, archive>>

Idle == [pc |-> "idle"]

Steps == {"put", "existing", "record", "cleanup", "reply"}

Uploads ==
    [pc: Steps, address: Addresses, content: Contents, direct: BOOLEAN, now: Nat]

InFlight(a) == \E u \in Uploaders : up[u].pc # "idle" /\ up[u].address = a

Init ==
    /\ clock = 0
    /\ bytes = [a \in Addresses |-> None]
    /\ staged = [u \in Uploaders |-> None]
    /\ meta = [a \in Addresses |-> None]
    /\ used_bytes = 0
    /\ storage_bytes \in StorageQuotas
    /\ refs = {}
    /\ up = [u \in Uploaders |-> Idle]
    /\ dead = {}
    /\ archive = [a \in Addresses |-> {}]

\* Time passes; no upload request is older than MaxDuration.
Tick ==
    /\ clock < MaxClock
    /\ \A u \in Uploaders : up[u] # Idle => clock + 1 - up[u].now <= MaxDuration
    /\ clock' = clock + 1
    /\ UNCHANGED <<storage_bytes, bytes, staged, meta, used_bytes, refs, up, dead, archive>>

-----------------------------------------------------------------------------
(***************************************************************************)
(* Uploads.                                                                *)
(***************************************************************************)
Start(u, a, c, direct) ==
    up' = [up EXCEPT ![u] = [pc |-> "put", address |-> a, content |-> c,
                             direct |-> direct, now |-> clock]]

\* object_committed_current and the advisory quota check.  A committed address is
\* answered `exists` and changes nothing.
Wanted(a) ==
    /\ meta[a] = None
    /\ used_bytes + 1 <= storage_bytes
    /\ Overlap \/ a \notin dead

\* put_object with the bytes inline.
PutObject(u, a, c) ==
    /\ up[u] = Idle
    /\ Wanted(a)
    /\ Start(u, a, c, FALSE)
    /\ UNCHANGED <<storage_bytes, clock, bytes, staged, meta, used_bytes, refs, dead, archive>>

\* put_object without them, and the direct upload to the device's staging key.
UploadDirect(u, a, c) ==
    /\ up[u] = Idle
    /\ Wanted(a)
    /\ staged' = [staged EXCEPT ![u] = [address |-> a, content |-> c]]
    /\ UNCHANGED <<storage_bytes, clock, bytes, meta, used_bytes, refs, up, dead, archive>>

\* commit_object; for a committed address it answers true and changes nothing.
CommitObject(u) ==
    /\ up[u] = Idle
    /\ staged[u] # None
    /\ meta[staged[u].address] = None
    /\ Overlap \/ staged[u].address \notin dead
    /\ Start(u, staged[u].address, staged[u].content, TRUE)
    /\ UNCHANGED <<storage_bytes, clock, bytes, staged, meta, used_bytes, refs, dead, archive>>

\* put_new (copy_verified_new on the direct path): the final key is write-once.
PutNew(u) ==
    LET a == up[u].address IN
    /\ up[u].pc = "put"
    /\ IF bytes[a] = None
       THEN /\ bytes' = [bytes EXCEPT ![a] = up[u].content]
            /\ up' = [up EXCEPT ![u].pc = "record"]
       ELSE /\ up' = [up EXCEPT ![u].pc = "existing"]
            /\ UNCHANGED bytes
    /\ UNCHANGED <<storage_bytes, clock, staged, meta, used_bytes, refs, dead, archive>>

\* Mutant: records the bytes it brought, not the ones it found.
TrustOwnBytes(u) ==
    /\ up[u].pc = "existing"
    /\ up' = [up EXCEPT ![u].pc = "record"]
    /\ UNCHANGED <<storage_bytes, clock, bytes, staged, meta, used_bytes, refs, dead, archive>>

\* The bytes that are there win: they are read back, and are what is recorded.
ReadExisting(u) ==
    /\ up[u].pc = "existing"
    /\ bytes[up[u].address] # None
    /\ up' = [up EXCEPT ![u].pc = "record", ![u].content = bytes[up[u].address]]
    /\ UNCHANGED <<storage_bytes, clock, bytes, staged, meta, used_bytes, refs, dead, archive>>

\* Mutant: leaves the quota to the check that was made before the upload.
RecordUnchecked(u) ==
    LET a == up[u].address IN
    /\ up[u].pc = "record"
    /\ IF meta[a] # None
       THEN UNCHANGED <<meta, used_bytes>>
       ELSE /\ meta' = [meta EXCEPT ![a] = [checksum |-> up[u].content,
                                            created_at |-> up[u].now]]
            /\ used_bytes' = used_bytes + 1
    /\ up' = [up EXCEPT ![u].pc = IF up[u].direct THEN "cleanup" ELSE "reply"]
    /\ UNCHANGED <<storage_bytes, clock, bytes, staged, refs, dead, archive>>

\* record_object, one transaction: the first committed row stays, and the final quota
\* check owns the accounting.
RecordObject(u) ==
    LET a == up[u].address IN
    /\ up[u].pc = "record"
    /\ IF meta[a] # None
       THEN UNCHANGED <<meta, used_bytes>>
       ELSE /\ used_bytes + 1 <= storage_bytes
            /\ meta' = [meta EXCEPT ![a] = [checksum |-> up[u].content,
                                            created_at |-> up[u].now]]
            /\ used_bytes' = used_bytes + 1
    /\ up' = [up EXCEPT ![u].pc = IF up[u].direct THEN "cleanup" ELSE "reply"]
    /\ UNCHANGED <<storage_bytes, clock, bytes, staged, refs, dead, archive>>

\* The staging key is deleted after the row was committed.
Cleanup(u) ==
    /\ up[u].pc = "cleanup"
    /\ staged' = [staged EXCEPT ![u] = None]
    /\ up' = [up EXCEPT ![u].pc = "reply"]
    /\ UNCHANGED <<storage_bytes, clock, bytes, meta, used_bytes, refs, dead, archive>>

\* The reply; or an error (quota exceeded, object vanished), a cancelled request or a
\* crash, at any step.
Finish(u) ==
    /\ up[u] # Idle
    /\ up' = [up EXCEPT ![u] = Idle]
    /\ UNCHANGED <<storage_bytes, clock, bytes, staged, meta, used_bytes, refs, dead, archive>>

-----------------------------------------------------------------------------
(***************************************************************************)
(* References and garbage collection.                                      *)
(***************************************************************************)

\* An append (step 10) or put_snapshot names the address.
Reference(a) ==
    /\ meta[a] # None
    /\ refs' = refs \cup {a}
    /\ UNCHANGED <<storage_bytes, clock, bytes, staged, meta, used_bytes, up, dead, archive>>

\* The last item or snapshot that names it is compacted or dropped.
Release(a) ==
    /\ a \in refs
    /\ refs' = refs \ {a}
    /\ UNCHANGED <<storage_bytes, clock, bytes, staged, meta, used_bytes, up, dead, archive>>

\* Mutant: forgets the references.
OldObjects == {a \in Addresses : meta[a] # None /\ meta[a].created_at < clock - Grace}

\* gc_candidates.
Candidates ==
    {a \in Addresses : /\ meta[a] # None
                       /\ meta[a].created_at < clock - Grace
                       /\ a \notin refs}

\* u64::saturating_sub.
Monus(a, b) == IF b <= a THEN a - b ELSE 0

\* Mutant: drops the rows without a copy.
GcCommitUnarchived(D) ==
    /\ dead = {}
    /\ D # {} /\ D \subseteq Candidates
    /\ Overlap \/ \A a \in D : ~InFlight(a)
    /\ UNCHANGED archive
    /\ meta' = [a \in Addresses |-> IF a \in D THEN None ELSE meta[a]]
    /\ used_bytes' = Monus(used_bytes, Cardinality(D))
    /\ dead' = D
    /\ UNCHANGED <<storage_bytes, clock, bytes, staged, refs, up>>

\* Mutant: keeps the rows until the bytes are deleted.
GcCommitKeepsRows(D) ==
    /\ dead = {}
    /\ D # {} /\ D \subseteq Candidates
    /\ Overlap \/ \A a \in D : ~InFlight(a)
    /\ archive' = [a \in Addresses |-> IF a \in D /\ bytes[a] # None
                                       THEN archive[a] \cup {bytes[a]} ELSE archive[a]]
    /\ dead' = D
    /\ UNCHANGED <<storage_bytes, clock, bytes, staged, meta, used_bytes, refs, up>>

\* gc, up to its commit: the candidates that were copied to the archive (a copy that
\* fails keeps its object this round; bytes that are gone copy trivially) lose their
\* rows in one transaction.
GcCommit(D) ==
    /\ dead = {}
    /\ D # {} /\ D \subseteq Candidates
    /\ Overlap \/ \A a \in D : ~InFlight(a)
    /\ archive' = [a \in Addresses |-> IF a \in D /\ bytes[a] # None
                                       THEN archive[a] \cup {bytes[a]} ELSE archive[a]]
    /\ meta' = [a \in Addresses |-> IF a \in D THEN None ELSE meta[a]]
    /\ used_bytes' = Monus(used_bytes, Cardinality(D))
    /\ dead' = D
    /\ UNCHANGED <<storage_bytes, clock, bytes, staged, refs, up>>

\* gc, after its commit: the bytes of each are deleted, without a transaction.
GcDelete(a) ==
    /\ a \in dead
    /\ bytes' = [bytes EXCEPT ![a] = None]
    /\ dead' = dead \ {a}
    /\ UNCHANGED <<storage_bytes, clock, staged, meta, used_bytes, refs, up, archive>>

\* A delete fails, or the service stops: the rest of the round is forgotten.
GcStop ==
    /\ dead # {}
    /\ dead' = {}
    /\ UNCHANGED <<storage_bytes, clock, bytes, staged, meta, used_bytes, refs, up, archive>>

-----------------------------------------------------------------------------
Next ==
    \/ Tick
    \/ \E u \in Uploaders :
           \/ \E a \in Addresses, c \in Contents : PutObject(u, a, c) \/ UploadDirect(u, a, c)
           \/ CommitObject(u)
           \/ PutNew(u)
           \/ ReadExisting(u)
           \/ RecordObject(u)
           \/ Cleanup(u)
           \/ Finish(u)
    \/ \E a \in Addresses : Reference(a) \/ Release(a) \/ GcDelete(a)
    \/ \E D \in SUBSET Addresses : GcCommit(D)
    \/ GcStop

Spec == Init /\ [][Next]_vars
-----------------------------------------------------------------------------
\* Every committed object has its bytes (I10; get_object calls the opposite an integrity
\* incident): whatever uploads and collections overlap, fail half-way or are repeated, a
\* row is there only while the final key holds something.
CommittedHasBytes == \A a \in Addresses : meta[a] # None => bytes[a] # None

\* A row describes the bytes under its address (I7, I8): of two concurrent uploads with
\* different bytes the loser records the winner's, also when the bytes were left behind
\* by an interrupted collection.
ChecksumDescribesBytes ==
    \A a \in Addresses : meta[a] # None /\ bytes[a] # None => meta[a].checksum = bytes[a]

\* A retained item or snapshot never references an object the service has dropped (I10).
RefsCommitted == \A a \in refs : meta[a] # None

\* The accounting is exact, through races, dedups and collections, and never above the
\* quota, though several uploads pass the advisory check for the room of one.
UsedExact ==
    /\ used_bytes = Cardinality({a \in Addresses : meta[a] # None})
    /\ used_bytes <= storage_bytes

\* Bytes leave the store only after a copy of them reached the archive (gc).
DeletedBytesArchived ==
    [][\A a \in Addresses :
           bytes[a] # None /\ bytes'[a] = None => bytes[a] \in archive[a]]_bytes
=============================================================================
