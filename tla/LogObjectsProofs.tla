-------------------------- MODULE LogObjectsProofs --------------------------
(***************************************************************************)
(* Theorems about LogObjects, for any number of addresses, uploaders and   *)
(* contents.  What a committed row says about the bytes holds as long as   *)
(* no address is uploaded while gc is deleting it (Overlap = FALSE); with  *)
(* such overlaps it does not.                                              *)
(***************************************************************************)
EXTENDS LogObjects, FiniteSetTheorems, TLAPS

ObjectsTyped ==
    /\ clock \in Nat
    /\ bytes \in [Addresses -> Contents \cup {None}]
    /\ staged \in [Uploaders -> [address: Addresses, content: Contents] \cup {None}]
    /\ DOMAIN meta = Addresses
    /\ up \in [Uploaders -> Uploads \cup {Idle}]
    /\ dead \subseteq Addresses

\* An upload about to be recorded has its own bytes under its address.
RecordsStored ==
    \A u \in Uploaders : up[u].pc = "record" => bytes[up[u].address] = up[u].content

\* A round only deletes what has no row, and what nobody is uploading.
DeadUnused == \A a \in dead : meta[a] = None /\ ~InFlight(a)

RowsStored == \A a \in Addresses :
                  meta[a] # None => bytes[a] # None /\ meta[a].checksum = bytes[a]

IndObjects == ObjectsTyped /\ RecordsStored /\ DeadUnused /\ RowsStored

-----------------------------------------------------------------------------
\* References only name committed objects, with overlapping uploads too: gc takes no
\* candidate that is referenced, and a row is dropped by gc only.
THEOREM RefsAlwaysCommitted == Spec => []RefsCommitted
<1> DEFINE I == DOMAIN meta = Addresses /\ refs \subseteq Addresses /\ RefsCommitted
<1>1. Init => I
  BY DEF Init, RefsCommitted
<1>2. I /\ [Next]_vars => I'
  <2> SUFFICES ASSUME I, [Next]_vars PROVE I'
    OBVIOUS
  <2> USE DEF RefsCommitted
  <2>1. CASE UNCHANGED <<meta, refs>>
    BY <2>1
  <2>2. ASSUME NEW u \in Uploaders, RecordObject(u) PROVE I'
    BY <2>2 DEF RecordObject
  <2>3. ASSUME NEW a \in Addresses, Reference(a) \/ Release(a) PROVE I'
    BY <2>3 DEF Reference, Release
  <2>4. ASSUME NEW D \in SUBSET Addresses, GcCommit(D) PROVE I'
    BY <2>4 DEF GcCommit, Candidates
  <2> QED
    BY <2>1, <2>2, <2>3, <2>4
       DEF Next, vars, Tick, PutObject, UploadDirect, CommitObject, PutNew, ReadExisting,
           Cleanup, Finish, GcDelete, GcStop
<1>3. I => RefsCommitted
  OBVIOUS
<1> QED
  BY <1>1, <1>2, <1>3, PTL DEF Spec

-----------------------------------------------------------------------------
\* What is in flight has an address and bytes to store.
LEMMA UploadTyped ==
  ASSUME ObjectsTyped, NEW u \in Uploaders, up[u].pc # "idle"
  PROVE  /\ up[u] \in Uploads
         /\ up[u].address \in Addresses
         /\ up[u].content \in Contents
         /\ InFlight(up[u].address)
  BY DEF ObjectsTyped, Uploads, Idle, InFlight

\* A request moves on, or takes the bytes it found; its address stays.
LEMMA UploadUpdate ==
  ASSUME NEW x \in Uploads
  PROVE  /\ \A pc \in Steps : /\ [x EXCEPT !.pc = pc] \in Uploads
                              /\ [x EXCEPT !.pc = pc].pc = pc
                              /\ [x EXCEPT !.pc = pc].address = x.address
                              /\ [x EXCEPT !.pc = pc].content = x.content
  BY DEF Uploads

\* An upload that takes over the bytes it found stays a well-typed upload of its address.
LEMMA UploadFound ==
  ASSUME NEW x \in Uploads, NEW c \in Contents
  PROVE  /\ [x EXCEPT !.pc = "record", !.content = c] \in Uploads
         /\ [x EXCEPT !.pc = "record", !.content = c].address = x.address
         /\ [x EXCEPT !.pc = "record", !.content = c].content = c
  BY DEF Uploads, Steps

\* The steps, by name.
LEMMA StepNames ==
  /\ "record" \in Steps /\ "existing" \in Steps /\ "cleanup" \in Steps /\ "reply" \in Steps
  BY DEF Steps

\* The empty store satisfies the invariant.
LEMMA InitObjects == Init => IndObjects
  BY DEF Init, IndObjects, ObjectsTyped, RecordsStored, DeadUnused, RowsStored, Idle

\* A step that only moves one request on keeps the rest: it was in flight before.
LEMMA MoveOn ==
  ASSUME IndObjects, NEW u \in Uploaders, NEW x \in Uploads \cup {Idle},
         up' = [up EXCEPT ![u] = x],
         x # Idle => x.address \notin dead,
         x # Idle /\ x.pc = "record" => bytes[x.address] = x.content,
         staged' \in [Uploaders -> [address: Addresses, content: Contents] \cup {None}],
         UNCHANGED <<clock, bytes, meta, dead>>
  PROVE  IndObjects'
<1>1. ObjectsTyped'
  BY DEF IndObjects, ObjectsTyped
<1>2. \A v \in Uploaders : up'[v] = IF v = u THEN x ELSE up[v]
  BY DEF IndObjects, ObjectsTyped
<1>3. x.pc # "idle" => x # Idle
  BY DEF Idle
<1>4. RecordsStored'
  BY <1>2, <1>3 DEF IndObjects, RecordsStored
<1>5. DeadUnused'
  BY <1>2, <1>3 DEF IndObjects, DeadUnused, InFlight
<1>6. RowsStored'
  BY DEF IndObjects, RowsStored
<1> QED
  BY <1>1, <1>4, <1>5, <1>6 DEF IndObjects

\* Every step of an upload, of a reference or of a collection keeps the invariant.
LEMMA NextObjects ==
  ASSUME Overlap = FALSE
  PROVE  IndObjects /\ [Next]_vars => IndObjects'
<1> SUFFICES ASSUME IndObjects, [Next]_vars PROVE IndObjects'
  OBVIOUS
<1>0. ObjectsTyped
  BY DEF IndObjects
<1>1. CASE clock' \in Nat /\ UNCHANGED <<bytes, staged, meta, up, dead>>
  BY <1>1 DEF IndObjects, ObjectsTyped, RecordsStored, DeadUnused, RowsStored, InFlight
<1>2. ASSUME NEW u \in Uploaders, NEW a \in Addresses, NEW c \in Contents, NEW direct \in BOOLEAN,
             Start(u, a, c, direct), a \notin dead,
             UNCHANGED <<clock, bytes, staged, meta, dead>>
      PROVE  IndObjects'
  <2> DEFINE x == [pc |-> "put", address |-> a, content |-> c, direct |-> direct, now |-> clock]
  <2>1. x \in Uploads /\ x.address = a /\ x.pc = "put"
    BY <1>0 DEF Uploads, Steps, ObjectsTyped
  <2>2. up' = [up EXCEPT ![u] = x]
    BY <1>2 DEF Start
  <2> HIDE DEF x
  <2>3. staged' \in [Uploaders -> [address: Addresses, content: Contents] \cup {None}]
    BY <1>0, <1>2 DEF ObjectsTyped
  <2> QED
    BY <1>2, <2>1, <2>2, <2>3, MoveOn
<1>3. ASSUME NEW u \in Uploaders, NEW a \in Addresses, NEW c \in Contents, PutObject(u, a, c)
      PROVE  IndObjects'
  BY <1>2, <1>3 DEF PutObject, Wanted
<1>4. ASSUME NEW u \in Uploaders, CommitObject(u) PROVE IndObjects'
  <2>1. staged[u].address \in Addresses /\ staged[u].content \in Contents
    BY <1>0, <1>4 DEF CommitObject, ObjectsTyped
  <2> QED
    BY <2>1, <1>2, <1>4 DEF CommitObject
<1>5. ASSUME NEW u \in Uploaders, NEW a \in Addresses, NEW c \in Contents, UploadDirect(u, a, c)
      PROVE  IndObjects'
  <2>1. [address |-> a, content |-> c] \in [address: Addresses, content: Contents]
    OBVIOUS
  <2>2. staged' \in [Uploaders -> [address: Addresses, content: Contents] \cup {None}]
    BY <2>1, <1>0, <1>5 DEF UploadDirect, ObjectsTyped
  <2> QED
    BY <2>2, <1>5 DEF UploadDirect, IndObjects, ObjectsTyped, RecordsStored, DeadUnused,
                      RowsStored, InFlight
<1>6. ASSUME NEW u \in Uploaders, PutNew(u) PROVE IndObjects'
  <2> DEFINE a == up[u].address
  <2>1. up[u] \in Uploads /\ a \in Addresses /\ up[u].content \in Contents /\ InFlight(a)
    BY <1>0, <1>6, UploadTyped DEF PutNew
  <2>2. a \notin dead
    BY <2>1 DEF IndObjects, DeadUnused
  <2>3. CASE bytes[a] # None
    <3>1. [up[u] EXCEPT !.pc = "existing"] \in Uploads
          /\ [up[u] EXCEPT !.pc = "existing"].address = a
          /\ [up[u] EXCEPT !.pc = "existing"].pc = "existing"
      BY <2>1, StepNames, UploadUpdate, Zenon
    <3>2. up' = [up EXCEPT ![u] = [up[u] EXCEPT !.pc = "existing"]]
          /\ UNCHANGED <<clock, bytes, staged, meta, dead>>
      BY <1>6, <2>3 DEF PutNew
    <3>3. staged' \in [Uploaders -> [address: Addresses, content: Contents] \cup {None}]
      BY <1>0, <3>2 DEF ObjectsTyped
    <3> QED
      BY <2>2, <3>1, <3>2, <3>3, MoveOn
  <2>4. CASE bytes[a] = None
    <3>1. bytes' = [bytes EXCEPT ![a] = up[u].content]
          /\ up' = [up EXCEPT ![u] = [up[u] EXCEPT !.pc = "record"]]
          /\ UNCHANGED <<clock, staged, meta, dead>>
      BY <1>6, <2>4 DEF PutNew
    <3>2. [up[u] EXCEPT !.pc = "record"] \in Uploads
          /\ [up[u] EXCEPT !.pc = "record"].address = a
          /\ [up[u] EXCEPT !.pc = "record"].content = up[u].content
      BY <2>1, StepNames, UploadUpdate, Zenon
    <3>3. ObjectsTyped'
      BY <1>0, <2>1, <3>1, <3>2 DEF ObjectsTyped
    <3>4. \A v \in Uploaders : /\ up'[v] = IF v = u THEN [up[u] EXCEPT !.pc = "record"] ELSE up[v]
                               /\ up[v].pc = "record" => up[v].address # a
      <4>1. \A v \in Uploaders : up[v].pc = "record" => /\ bytes[up[v].address] = up[v].content
                                                        /\ up[v].content # None
        <5>1. \A v \in Uploaders : up[v].pc = "record" => up[v].content \in Contents
          BY <1>0, UploadTyped
        <5> QED
          BY <5>1, ObjectsAssumption DEF IndObjects, RecordsStored
      <4> QED
        BY <4>1, <2>4, <3>1, <1>0 DEF ObjectsTyped
    <3>5. \A b \in Addresses : bytes'[b] = IF b = a THEN up[u].content ELSE bytes[b]
      BY <1>0, <3>1 DEF ObjectsTyped
    <3>6. RecordsStored'
      <4>1. \A v \in Uploaders : up[v].pc = "record" => up[v].address \in Addresses
        BY <1>0, UploadTyped
      <4>2. ASSUME NEW v \in Uploaders, up'[v].pc = "record"
            PROVE  bytes'[up'[v].address] = up'[v].content
        <5>1. CASE v = u
          BY <5>1, <2>1, <3>2, <3>4, <3>5
        <5>2. CASE v # u
          <6>1. up'[v] = up[v] /\ up[v].address \in Addresses /\ up[v].address # a
                /\ bytes[up[v].address] = up[v].content
            BY <4>1, <4>2, <5>2, <3>4 DEF IndObjects, RecordsStored
          <6> QED
            BY <6>1, <3>5
        <5> QED
          BY <5>1, <5>2
      <4> QED
        BY <4>2 DEF RecordsStored
    <3>7. DeadUnused'
      BY <2>2, <3>1, <3>2, <3>4 DEF IndObjects, DeadUnused, InFlight
    <3>8. RowsStored'
      BY <2>4, <3>1, <3>5 DEF IndObjects, RowsStored
    <3> QED
      BY <3>3, <3>6, <3>7, <3>8 DEF IndObjects
  <2> QED
    BY <2>3, <2>4
<1>7. ASSUME NEW u \in Uploaders, ReadExisting(u) PROVE IndObjects'
  <2> DEFINE a == up[u].address
             x == [up[u] EXCEPT !.pc = "record", !.content = bytes[a]]
  <2>1. up[u] \in Uploads /\ a \in Addresses /\ InFlight(a)
    BY <1>0, <1>7, UploadTyped DEF ReadExisting
  <2>2. bytes[a] \in Contents
    BY <1>0, <1>7, <2>1 DEF ReadExisting, ObjectsTyped
  <2>3. x \in Uploads /\ x.address = a /\ x.content = bytes[a]
    BY <2>1, <2>2, UploadFound, Zenon
  <2>4. a \notin dead
    BY <2>1 DEF IndObjects, DeadUnused
  <2>5. up' = [up EXCEPT ![u] = x] /\ UNCHANGED <<clock, bytes, staged, meta, dead>>
    BY <1>7 DEF ReadExisting
  <2>6. staged' \in [Uploaders -> [address: Addresses, content: Contents] \cup {None}]
    BY <1>0, <2>5 DEF ObjectsTyped
  <2> HIDE DEF x
  <2> QED
    BY <2>3, <2>4, <2>5, <2>6, MoveOn
<1>8. ASSUME NEW u \in Uploaders, RecordObject(u) PROVE IndObjects'
  <2> DEFINE a == up[u].address
             x == [up[u] EXCEPT !.pc = IF up[u].direct THEN "cleanup" ELSE "reply"]
  <2>1. up[u] \in Uploads /\ a \in Addresses /\ InFlight(a) /\ up[u].content \in Contents
    BY <1>0, <1>8, UploadTyped DEF RecordObject
  <2>2. x \in Uploads /\ x.address = a /\ x.pc # "record"
    <3>1. PICK pc \in {"cleanup", "reply"} : x = [up[u] EXCEPT !.pc = pc]
      OBVIOUS
    <3>2. pc \in Steps /\ pc # "record"
      BY DEF Steps
    <3> HIDE DEF x
    <3> QED
      BY <2>1, <3>1, <3>2, UploadUpdate, Zenon
  <2>3. a \notin dead /\ bytes[a] = up[u].content /\ bytes[a] # None
    BY <1>8, <2>1, ObjectsAssumption DEF IndObjects, DeadUnused, RecordsStored, RecordObject
  <2>4. up' = [up EXCEPT ![u] = x] /\ UNCHANGED <<clock, bytes, staged, dead>>
    BY <1>8 DEF RecordObject
  <2>5. \A b \in Addresses : /\ b # a => meta'[b] = meta[b]
                             /\ meta'[b] # None => \/ meta'[b] = meta[b]
                                                   \/ b = a /\ meta'[b].checksum = bytes[a]
    BY <1>8, <1>0, <2>1, <2>3 DEF RecordObject, ObjectsTyped
  <2>6. DOMAIN meta' = Addresses
    BY <1>8, <1>0 DEF RecordObject, ObjectsTyped
  <2> HIDE DEF x
  <2>7. ObjectsTyped'
    BY <1>0, <2>2, <2>4, <2>6 DEF ObjectsTyped
  <2>8. \A v \in Uploaders : up'[v] = IF v = u THEN x ELSE up[v]
    BY <1>0, <2>4 DEF ObjectsTyped
  <2>9. RecordsStored'
    BY <2>2, <2>4, <2>8 DEF IndObjects, RecordsStored
  <2>10. DeadUnused'
    BY <1>0, <2>2, <2>3, <2>4, <2>5, <2>8 DEF IndObjects, DeadUnused, InFlight, ObjectsTyped
  <2>11. RowsStored'
    BY <2>3, <2>4, <2>5 DEF IndObjects, RowsStored
  <2> QED
    BY <2>7, <2>9, <2>10, <2>11 DEF IndObjects
<1>9. ASSUME NEW u \in Uploaders, Cleanup(u) PROVE IndObjects'
  <2> DEFINE x == [up[u] EXCEPT !.pc = "reply"]
  <2>1. up[u] \in Uploads /\ InFlight(up[u].address)
    BY <1>0, <1>9, UploadTyped DEF Cleanup
  <2>2. x \in Uploads /\ x.address = up[u].address /\ x.pc = "reply"
    BY <2>1, StepNames, UploadUpdate, Zenon
  <2>3. up[u].address \notin dead
    BY <2>1 DEF IndObjects, DeadUnused
  <2>4. up' = [up EXCEPT ![u] = x] /\ UNCHANGED <<clock, bytes, meta, dead>>
        /\ staged' = [staged EXCEPT ![u] = None]
    BY <1>9 DEF Cleanup
  <2>5. staged' \in [Uploaders -> [address: Addresses, content: Contents] \cup {None}]
    BY <1>0, <2>4 DEF ObjectsTyped
  <2> HIDE DEF x
  <2> QED
    BY <2>2, <2>3, <2>4, <2>5, MoveOn
<1>10. ASSUME NEW u \in Uploaders, Finish(u) PROVE IndObjects'
  <2>1. up' = [up EXCEPT ![u] = Idle] /\ UNCHANGED <<clock, bytes, staged, meta, dead>>
    BY <1>10 DEF Finish
  <2>2. staged' \in [Uploaders -> [address: Addresses, content: Contents] \cup {None}]
    BY <1>0, <2>1 DEF ObjectsTyped
  <2> QED
    BY <2>1, <2>2, MoveOn
<1>11. ASSUME NEW D \in SUBSET Addresses, GcCommit(D) PROVE IndObjects'
  <2>1. /\ UNCHANGED <<clock, bytes, staged, up>> /\ dead' = D
        /\ meta' = [a \in Addresses |-> IF a \in D THEN None ELSE meta[a]]
        /\ \A a \in D : ~InFlight(a)
    BY <1>11 DEF GcCommit
  <2>2. ObjectsTyped'
    BY <1>0, <2>1 DEF ObjectsTyped
  <2>3. RecordsStored' /\ DeadUnused' /\ RowsStored'
    BY <2>1 DEF IndObjects, RecordsStored, DeadUnused, RowsStored, InFlight
  <2> QED
    BY <2>2, <2>3 DEF IndObjects
<1>12. ASSUME NEW a \in Addresses, GcDelete(a) PROVE IndObjects'
  <2>1. a \in dead /\ bytes' = [bytes EXCEPT ![a] = None] /\ dead' = dead \ {a}
        /\ UNCHANGED <<clock, staged, meta, up>>
    BY <1>12 DEF GcDelete
  <2>2. meta[a] = None /\ ~InFlight(a)
    BY <2>1 DEF IndObjects, DeadUnused
  <2>3. ObjectsTyped'
    BY <1>0, <2>1 DEF ObjectsTyped
  <2>4. \A b \in Addresses : b # a => bytes'[b] = bytes[b]
    BY <1>0, <2>1 DEF ObjectsTyped
  <2>5. RecordsStored'
    <3>1. \A v \in Uploaders : up[v].pc = "record" => up[v].address \in Addresses /\ up[v].address # a
      BY <1>0, <2>2, UploadTyped
    <3> QED
      BY <3>1, <2>1, <2>4 DEF IndObjects, RecordsStored
  <2>6. DeadUnused' /\ RowsStored'
    BY <2>1, <2>2, <2>4 DEF IndObjects, DeadUnused, RowsStored, InFlight
  <2> QED
    BY <2>3, <2>5, <2>6 DEF IndObjects
<1>13. CASE GcStop
  BY <1>13 DEF GcStop, IndObjects, ObjectsTyped, RecordsStored, DeadUnused, RowsStored, InFlight
<1>14. CASE Tick \/ UNCHANGED vars \/ \E a \in Addresses : Reference(a) \/ Release(a)
  BY <1>0, <1>1, <1>14 DEF Tick, vars, Reference, Release, ObjectsTyped
<1> QED
  BY <1>3, <1>4, <1>5, <1>6, <1>7, <1>8, <1>9, <1>10, <1>11, <1>12, <1>13, <1>14 DEF Next

\* Every committed object has its bytes, if no address is uploaded while gc deletes it
\* (put_object, commit_object, record_object, gc).
THEOREM CommittedAlwaysHasBytes ==
  ASSUME Overlap = FALSE
  PROVE  Spec => []CommittedHasBytes
<1>1. IndObjects => CommittedHasBytes
  BY DEF IndObjects, RowsStored, CommittedHasBytes
<1>2. IndObjects /\ [Next]_vars => IndObjects'
  BY NextObjects
<1> QED
  BY <1>1, <1>2, InitObjects, PTL DEF Spec

\* And its row describes them, whichever of several concurrent uploads won.
THEOREM ChecksumsAlwaysDescribe ==
  ASSUME Overlap = FALSE
  PROVE  Spec => []ChecksumDescribesBytes
<1>1. IndObjects => ChecksumDescribesBytes
  BY DEF IndObjects, RowsStored, ChecksumDescribesBytes
<1>2. IndObjects /\ [Next]_vars => IndObjects'
  BY NextObjects
<1> QED
  BY <1>1, <1>2, InitObjects, PTL DEF Spec

-----------------------------------------------------------------------------
(***************************************************************************)
(* The accounting and the archive.                                         *)
(***************************************************************************)

\* Types are kept by every step, with overlapping uploads too.
LEMMA NextTyped == ObjectsTyped /\ [Next]_vars => ObjectsTyped'
<1> SUFFICES ASSUME ObjectsTyped, [Next]_vars PROVE ObjectsTyped'
  OBVIOUS
<1>1. ASSUME NEW u \in Uploaders, NEW x \in Uploads \cup {Idle},
             up' = [up EXCEPT ![u] = x], clock' = clock,
             bytes' \in [Addresses -> Contents \cup {None}],
             staged' \in [Uploaders -> [address: Addresses, content: Contents] \cup {None}],
             DOMAIN meta' = Addresses, dead' = dead
      PROVE  ObjectsTyped'
  BY <1>1 DEF ObjectsTyped
<1>2. ASSUME NEW u \in Uploaders, NEW a \in Addresses, NEW c \in Contents,
             PutObject(u, a, c) \/ UploadDirect(u, a, c)
      PROVE  ObjectsTyped'
  <2>1. CASE PutObject(u, a, c)
    <3>1. [pc |-> "put", address |-> a, content |-> c, direct |-> FALSE, now |-> clock]
              \in Uploads
      BY DEF Uploads, Steps, ObjectsTyped
    <3> QED
      BY <2>1, <3>1 DEF PutObject, Start, ObjectsTyped
  <2>2. CASE UploadDirect(u, a, c)
    <3>1. [address |-> a, content |-> c] \in [address: Addresses, content: Contents]
      OBVIOUS
    <3> QED
      BY <2>2, <3>1 DEF UploadDirect, ObjectsTyped
  <2> QED
    BY <1>2, <2>1, <2>2
<1>3. ASSUME NEW u \in Uploaders, CommitObject(u) PROVE ObjectsTyped'
  <2> DEFINE x == [pc |-> "put", address |-> staged[u].address, content |-> staged[u].content,
                   direct |-> TRUE, now |-> clock]
  <2>1. staged[u] \in [address: Addresses, content: Contents] /\ clock \in Nat
    BY <1>3 DEF CommitObject, ObjectsTyped
  <2>2. x \in Uploads
    BY <2>1 DEF Uploads, Steps
  <2>3. up' = [up EXCEPT ![u] = x] /\ UNCHANGED <<clock, bytes, staged, meta, dead>>
    BY <1>3 DEF CommitObject, Start
  <2> HIDE DEF x
  <2> QED
    BY <2>2, <2>3 DEF ObjectsTyped
<1>4. ASSUME NEW u \in Uploaders, PutNew(u) \/ ReadExisting(u) \/ RecordObject(u) \/ Cleanup(u)
      PROVE  ObjectsTyped'
  <2>1. up[u].pc # "idle"
    BY <1>4 DEF PutNew, ReadExisting, RecordObject, Cleanup
  <2>2. up[u] \in Uploads /\ up[u].address \in Addresses /\ up[u].content \in Contents
    BY <2>1, UploadTyped
  <2>3. PICK x \in Uploads : up' = [up EXCEPT ![u] = x]
    <3>1. CASE PutNew(u) \/ RecordObject(u) \/ Cleanup(u)
      <4>1. PICK pc \in Steps : up' = [up EXCEPT ![u] = [up[u] EXCEPT !.pc = pc]]
        BY <3>1 DEF PutNew, RecordObject, Cleanup, Steps
      <4>2. [up[u] EXCEPT !.pc = pc] \in Uploads
        BY <2>2, UploadUpdate, Zenon
      <4> QED
        BY <4>1, <4>2
    <3>2. CASE ReadExisting(u)
      <4>1. bytes[up[u].address] \in Contents
        BY <3>2, <2>2 DEF ReadExisting, ObjectsTyped
      <4>2. [up[u] EXCEPT !.pc = "record", !.content = bytes[up[u].address]] \in Uploads
        BY <4>1, <2>2, UploadFound, Zenon
      <4>3. up' = [up EXCEPT ![u] = [up[u] EXCEPT !.pc = "record",
                                                  !.content = bytes[up[u].address]]]
        BY <3>2 DEF ReadExisting
      <4> QED
        BY <4>2, <4>3, Zenon
    <3> QED
      BY <1>4, <3>1, <3>2
  <2>4. bytes' \in [Addresses -> Contents \cup {None}]
    BY <1>4, <2>2 DEF PutNew, ReadExisting, RecordObject, Cleanup, ObjectsTyped
  <2>5. staged' \in [Uploaders -> [address: Addresses, content: Contents] \cup {None}]
    BY <1>4 DEF PutNew, ReadExisting, RecordObject, Cleanup, ObjectsTyped
  <2>6. DOMAIN meta' = Addresses /\ clock' = clock /\ dead' = dead
    BY <1>4 DEF PutNew, ReadExisting, RecordObject, Cleanup, ObjectsTyped
  <2> QED
    BY <2>3, <2>4, <2>5, <2>6, <1>1
<1>5. ASSUME NEW u \in Uploaders, Finish(u) PROVE ObjectsTyped'
  BY <1>5 DEF Finish, ObjectsTyped
<1>6. CASE Tick \/ UNCHANGED vars \/ \E a \in Addresses : Reference(a) \/ Release(a)
  BY <1>6 DEF Tick, vars, Reference, Release, ObjectsTyped
<1>7. ASSUME NEW D \in SUBSET Addresses, GcCommit(D) PROVE ObjectsTyped'
  BY <1>7 DEF GcCommit, ObjectsTyped
<1>8. CASE GcStop \/ \E a \in Addresses : GcDelete(a)
  BY <1>8 DEF GcStop, GcDelete, ObjectsTyped
<1> QED
  BY <1>2, <1>3, <1>4, <1>5, <1>6, <1>7, <1>8 DEF Next

Rows == {a \in Addresses : meta[a] # None}

\* The committed rows are finitely many.
LEMMA RowsFinite == IsFiniteSet(Rows) /\ Cardinality(Rows) \in Nat
<1>1. Rows \in SUBSET Addresses
  BY DEF Rows
<1>2. IsFiniteSet(Rows)
  BY <1>1, ObjectsAssumption, FS_Subset
<1> QED
  BY <1>2, FS_CardinalityType

Accounted == storage_bytes \in Nat /\ UsedExact

\* Every step keeps the accounting exact: a new row counts once, whichever uploads race
\* for it, and a collection subtracts the rows it drops.
LEMMA NextUsed == ObjectsTyped /\ Accounted /\ [Next]_vars => Accounted'
<1> SUFFICES ASSUME ObjectsTyped, storage_bytes \in Nat, UsedExact, [Next]_vars
             PROVE  storage_bytes' \in Nat /\ UsedExact'
  BY DEF Accounted
<1>1. storage_bytes' = storage_bytes
  BY DEF Next, vars, Tick, PutObject, UploadDirect, CommitObject, PutNew, ReadExisting,
         RecordObject, Cleanup, Finish, Reference, Release, GcCommit, GcDelete, GcStop
<1>2. /\ used_bytes = Cardinality(Rows) /\ used_bytes \in Nat /\ used_bytes <= storage_bytes
      /\ IsFiniteSet(Rows)
  BY RowsFinite DEF UsedExact, Rows
<1>3. UsedExact' <=> used_bytes' = Cardinality(Rows') /\ used_bytes' <= storage_bytes
  BY <1>1 DEF UsedExact, Rows
<1>4. CASE UNCHANGED <<meta, used_bytes>>
  <2>1. Rows' = Rows
    BY <1>4 DEF Rows
  <2> QED
    BY <2>1, <1>1, <1>2, <1>3, <1>4
<1>5. ASSUME NEW u \in Uploaders, RecordObject(u) PROVE UsedExact'
  <2> DEFINE a == up[u].address
             row == [checksum |-> up[u].content, created_at |-> up[u].now]
  <2>1. up[u] \in Uploads /\ a \in Addresses
    BY <1>5, UploadTyped DEF RecordObject
  <2>2. row # None
    <3>1. row \in [checksum: Contents, created_at: Nat]
      BY <2>1 DEF Uploads
    <3> QED
      BY <3>1, ObjectsAssumption
  <2>3. CASE meta[a] = None
    <3>1. /\ meta' = [meta EXCEPT ![a] = row] /\ used_bytes' = used_bytes + 1
          /\ used_bytes + 1 <= storage_bytes
      BY <1>5, <2>3 DEF RecordObject
    <3> HIDE DEF row
    <3>2. Rows' = Rows \cup {a} /\ a \notin Rows
      BY <2>1, <2>2, <2>3, <3>1 DEF Rows, ObjectsTyped
    <3> HIDE DEF a
    <3>3. Cardinality(Rows') = Cardinality(Rows) + 1
      BY <3>2, <1>2, FS_AddElement
    <3> QED
      BY <3>1, <3>3, <1>2, <1>3
  <2>4. CASE meta[a] # None
    BY <1>4, <1>5, <2>4 DEF RecordObject
  <2> QED
    BY <2>3, <2>4
<1>6. ASSUME NEW D \in SUBSET Addresses, GcCommit(D) PROVE UsedExact'
  <2>1. /\ D \in SUBSET Rows
        /\ meta' = [a \in Addresses |-> IF a \in D THEN None ELSE meta[a]]
        /\ used_bytes' = Monus(used_bytes, Cardinality(D))
    BY <1>6 DEF GcCommit, Candidates, Rows
  <2>2. Rows' = Rows \ D /\ Rows \cap D = D
    BY <2>1 DEF Rows
  <2>3. IsFiniteSet(D) /\ Cardinality(D) <= Cardinality(Rows)
    BY <2>1, <1>2, FS_Subset
  <2>4. Cardinality(D) \in Nat
    BY <2>3, FS_CardinalityType
  <2>5. Cardinality(Rows') = Cardinality(Rows) - Cardinality(D)
    <3>1. Cardinality(Rows \ D) = Cardinality(Rows) - Cardinality(Rows \cap D)
      BY <1>2, FS_Difference
    <3> QED
      BY <3>1, <2>2
  <2> QED
    BY <2>1, <2>3, <2>4, <2>5, <1>2, <1>3 DEF Monus
<1> QED
  BY <1>4, <1>5, <1>6, <1>1
     DEF Next, vars, Tick, PutObject, UploadDirect, CommitObject, PutNew, ReadExisting,
         Cleanup, Finish, Reference, Release, GcDelete, GcStop

\* The accounting is exact and within the quota, with overlapping uploads too
\* (record_object, gc): the saturating subtraction never saturates.
THEOREM UsedAlwaysExact == Spec => []UsedExact
<1>1. Init => ObjectsTyped /\ Accounted
  <2> SUFFICES ASSUME Init PROVE ObjectsTyped /\ Accounted
    OBVIOUS
  <2>1. {a \in Addresses : meta[a] # None} = {} /\ used_bytes = 0 /\ storage_bytes \in Nat
    BY ObjectsAssumption DEF Init
  <2>2. UsedExact
    BY <2>1, FS_EmptySet DEF UsedExact
  <2> QED
    BY <2>1, <2>2, InitObjects DEF IndObjects, Accounted
<1>2. Spec => [](ObjectsTyped /\ Accounted)
  BY <1>1, NextTyped, NextUsed, PTL DEF Spec
<1>3. Accounted => UsedExact
  BY DEF Accounted
<1> QED
  BY <1>2, <1>3, PTL

\* What a round has still to delete was copied to the archive when its rows were dropped.
DeadArchived ==
    /\ DOMAIN archive = Addresses
    /\ \A a \in dead : bytes[a] # None => bytes[a] \in archive[a]

\* Every step keeps the copies of what is about to be deleted: nothing is uploaded under
\* those addresses.
LEMMA NextArchived ==
  ASSUME Overlap = FALSE
  PROVE  IndObjects /\ DeadArchived /\ [Next]_vars => DeadArchived'
<1> SUFFICES ASSUME IndObjects, DeadArchived, [Next]_vars PROVE DeadArchived'
  OBVIOUS
<1>0. ObjectsTyped
  BY DEF IndObjects
<1>1. CASE UNCHANGED <<bytes, dead, archive>>
  BY <1>1 DEF DeadArchived
<1>2. ASSUME NEW u \in Uploaders, PutNew(u) PROVE DeadArchived'
  <2>1. up[u].address \in Addresses /\ InFlight(up[u].address)
    BY <1>0, <1>2, UploadTyped DEF PutNew
  <2>2. up[u].address \notin dead
    BY <2>1 DEF IndObjects, DeadUnused
  <2>3. \A a \in dead : a \in Addresses /\ bytes'[a] = bytes[a]
    BY <1>0, <1>2, <2>2 DEF PutNew, ObjectsTyped
  <2> QED
    BY <1>2, <2>3 DEF PutNew, DeadArchived
<1>3. ASSUME NEW D \in SUBSET Addresses, GcCommit(D) PROVE DeadArchived'
  BY <1>3 DEF GcCommit, DeadArchived
<1>4. ASSUME NEW a \in Addresses, GcDelete(a) PROVE DeadArchived'
  BY <1>0, <1>4 DEF GcDelete, DeadArchived, ObjectsTyped
<1>5. CASE GcStop
  BY <1>5 DEF GcStop, DeadArchived
<1> QED
  BY <1>1, <1>2, <1>3, <1>4, <1>5
     DEF Next, vars, Tick, PutObject, UploadDirect, CommitObject, ReadExisting, RecordObject,
         Cleanup, Finish, Reference, Release

\* Bytes leave the store only after a copy of them reached the archive, if no address is
\* uploaded while gc deletes it (gc).
THEOREM BytesArchivedFirst ==
  ASSUME Overlap = FALSE
  PROVE  Spec => DeletedBytesArchived
<1>1. Init => IndObjects /\ DeadArchived
  BY InitObjects DEF Init, DeadArchived
<1>2. IndObjects /\ [Next]_vars => IndObjects'
  BY NextObjects
<1>3. IndObjects /\ DeadArchived /\ [Next]_vars => DeadArchived'
  BY NextArchived
<1>4. IndObjects /\ DeadArchived /\ [Next]_vars =>
          [\A a \in Addresses : bytes[a] # None /\ bytes'[a] = None => bytes[a] \in archive[a]]_bytes
  <2> SUFFICES ASSUME IndObjects, DeadArchived, [Next]_vars, bytes' # bytes,
                      NEW a \in Addresses, bytes[a] # None, bytes'[a] = None
               PROVE  bytes[a] \in archive[a]
    OBVIOUS
  <2>0. ObjectsTyped
    BY DEF IndObjects
  <2>1. ASSUME NEW u \in Uploaders, PutNew(u) PROVE FALSE
    <3>1. up[u].address \in Addresses /\ up[u].content \in Contents
      BY <2>0, <2>1, UploadTyped DEF PutNew
    <3> QED
      BY <2>0, <2>1, <3>1, ObjectsAssumption DEF PutNew, ObjectsTyped
  <2>2. ASSUME NEW b \in Addresses, GcDelete(b) PROVE bytes[a] \in archive[a]
    BY <2>0, <2>2 DEF GcDelete, ObjectsTyped, DeadArchived
  <2> QED
    BY <2>1, <2>2
       DEF Next, vars, Tick, PutObject, UploadDirect, CommitObject, ReadExisting, RecordObject,
           Cleanup, Finish, Reference, Release, GcCommit, GcStop
<1> QED
  BY <1>1, <1>2, <1>3, <1>4, PTL DEF Spec, DeletedBytesArchived
=============================================================================
