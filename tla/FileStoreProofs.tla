-------------------------- MODULE FileStoreProofs --------------------------
(***************************************************************************)
(* Proofs about the file store, for any editors, restore rounds and        *)
(* numbers of saves, publishes, deletions, crashes and failures.           *)
(***************************************************************************)
EXTENDS FileStore, SequenceTheorems, TLAPS

ByteSet == {"none", "empty", "torn", "store", "user"} \X Nat
NewBytes == {None} \cup ({"store"} \X Nat)
Intents == [n : 1..MaxPublishes, expect : ByteSet, new : NewBytes]
Deletes == {it \in Intents : it.new = None}
Creates == {it \in Intents : it.new # None /\ it.expect = None}
Replaces == {it \in Intents : it.new # None /\ it.expect # None}

KnownSet == [rev : ByteSet, of : [ino : Nat, bytes : ByteSet]]
Rows == [name : Private, expect : ByteSet]
Databases == [known : KnownSet, intents : SUBSET Intents, retained : SUBSET Rows,
              evidence : SUBSET Private, next : Nat \ {0}]
Observations == [from : Names, seen : KnownSet]
Findings == [state : {"published", "not published", "drifted"},
             act : {"none", "return", "exchange"}, retained : SUBSET Rows,
             preserved : SUBSET Private]

\* The calls in progress, by their program counters.
LoopPcs == {"stash", "restore", "putback", "undo", "again", "check", "hold"}
OpWrite == [pc : {"write"}, it : Creates \cup Replaces]
OpCreate == [pc : {"create"}, it : Creates, our : Nat]
OpSwap == [pc : {"swap", "verify"}, it : Replaces, our : Nat]
OpLoop == [pc : LoopPcs, it : Replaces, our : Nat, published : BOOLEAN, expect : ByteSet,
           round : Nat]
OpDelete == [pc : {"aside", "moved", "return", "hold"}, it : Deletes]
OpRecord == [pc : {"record"}, it : Intents, published : BOOLEAN, retained : SUBSET Rows,
             preserved : SUBSET Private]
OpLook == [pc : {"look"}, db : Databases, todo : SUBSET Intents]
OpResolve == [pc : {"resolve"}, db : Databases, todo : SUBSET Intents, next : Intents,
              found : Findings]
OpAck == [pc : {"ack"}, o : Observations]
OpDrop == [pc : {"drop"}, name : Private]
OpRelease == [pc : {"release"}, name : Private, seen : ByteSet,
              holders : {"none", "unknown"}]
Ops == {Idle, Closed} \cup OpWrite \cup OpCreate \cup OpSwap \cup OpLoop \cup OpDelete
           \cup OpRecord \cup OpLook \cup OpResolve \cup OpAck \cup OpDrop \cup OpRelease

StoreTypeOK ==
    /\ data \in Seq(ByteSet)
    /\ dir \in [Names -> 0..Len(data)]
    /\ fd \in [Editors -> 0..Len(data)]
    /\ owed \subseteq ByteSet
    /\ captured \subseteq ByteSet
    /\ db \in Databases
    /\ op \in Ops
    /\ out \subseteq Observations
    /\ count \in [save : Nat, delete : Nat, fault : Nat]

-----------------------------------------------------------------------------
(***************************************************************************)
(* The private files.                                                      *)
(***************************************************************************)
NamesOf(rows) == {r.name : r \in rows}

CoveredIn(d, name) ==
    \/ \E it \in d.intents : it.n = name[2]
    \/ name \in NamesOf(d.retained)
    \/ name \in d.evidence

\* The private files with the number n are among `names`.
Only(n, names) == \A name \in Private : dir[name] # 0 /\ name[2] = n => name \in names

Injective(d) == \A a, b \in Names : d[a] = d[b] /\ d[a] # 0 => a = b

From(it) == IF it.new = None THEN Stashed(it) ELSE Tmp(it)

\* Names link to different files, numbers are taken from the counter once, and a deletion
\* has no temp.
NamesOK ==
    /\ Injective(dir)
    /\ \A name \in Private : dir[name] # 0 => name[2] < db.next
    /\ \A it \in db.intents : it.n < db.next
    /\ \A x, y \in db.intents : x.n = y.n => x = y
    /\ \A it \in db.intents : it.new = None => dir[Tmp(it)] = 0

\* The private files that a publish in progress has.
Holding(o) ==
    CASE o.pc \in {"write", "aside"} -> {}
      [] o.pc \in {"moved", "return"} -> {Stashed(o.it)}
      [] o.pc = "hold" -> {From(o.it)}
      [] o.pc = "record" -> NamesOf(o.retained) \cup o.preserved
      [] OTHER -> {Tmp(o.it)}

Mover(o) == IF o.found.act = "exchange" THEN Tmp(o.next) ELSE Stashed(o.next)

\* The private files that recovery has found for the next intent.
Found(o) ==
    NamesOf(o.found.retained) \cup o.found.preserved
        \cup (IF o.found.act = "none" THEN {} ELSE {Mover(o)})

\* What the call in progress has, or finds, of private files.
OpFits ==
    /\ "it" \in DOMAIN op => op.it \in db.intents /\ Only(op.it.n, Holding(op))
    /\ op.pc \in {"look", "resolve"} =>
           /\ op.db.next = db.next
           /\ op.db.intents \subseteq db.intents
           /\ op.todo \subseteq db.intents
           /\ \A name \in Private : dir[name] # 0 => CoveredIn(op.db, name)
    /\ op.pc = "resolve" =>
           /\ op.next \in db.intents
           /\ op.found.act = "exchange" => op.next \in Replaces
           /\ Only(op.next.n, Found(op))
    /\ op.pc = "drop" => dir[op.name] = 0

IndNames == StoreTypeOK /\ NamesOK /\ OpFits /\ NoOrphans

-----------------------------------------------------------------------------
(***************************************************************************)
(* What is known of the path.                                              *)
(***************************************************************************)
\* The metadata are those of the revision, or of a save that has its size.
KnownOK(k) ==
    k.of # NoMeta => \/ k.rev = k.of.bytes
                     \/ k.of.bytes[1] = "user" /\ k.of.bytes[2] \in SameSize /\ k.rev[1] = "store"
Ours(name, new) == At(name)[1] = "store" => At(name) = new

\* What the call in progress rests on.
OpKnown ==
    /\ op.pc \in {"create", "swap"} => Ours(Tmp(op.it), op.it.new)
    /\ op.pc = "verify" => Ours(Path, op.it.new)
    /\ op.pc \in {"stash", "record"} /\ op.published /\ op.it.new # None => Ours(Path, op.it.new)
    /\ op.pc \in {"look", "resolve"} => KnownOK(op.db.known)
    /\ op.pc = "resolve" /\ op.found.state = "published" /\ op.next.new # None =>
           Ours(Path, op.next.new)
    /\ op.pc = "ack" => KnownOK(op.o.seen)

IndKnown == KnownOK(db.known) /\ (\A o \in out : KnownOK(o.seen)) /\ OpKnown

-----------------------------------------------------------------------------
(***************************************************************************)
(* What users wrote.                                                       *)
(***************************************************************************)
\* Bytes that nobody is owed, and that no later save has.
Safe(b) == b \notin owed /\ (Users(b) => b[2] <= count.save)
SafeRows(rows) == \A r \in rows : Safe(r.expect)
Old(b) == Users(b) => b[2] <= count.save

\* A file that has never been at the path.
Pristine(name) ==
    dir[name] # 0 => ~Users(data[dir[name]]) /\ \A e \in Editors : fd[e] # dir[name]

\* A file that nobody has open.
Unopened(name) == dir[name] # 0 => \A e \in Editors : fd[e] # dir[name]

Linked(i) == \E name \in Names : dir[name] = i

\* What is owed is in a linked file, and so will be what is being written, unless the file
\* was replaced or deleted by a user.  No file holds a later save.
OwedDisk ==
    /\ \A v \in owed : /\ Users(v) /\ v[2] <= count.save
                      /\ \E name \in Names : dir[name] # 0 /\ data[dir[name]] = v
    /\ \A e \in Editors : fd[e] # 0 /\ fd[e] \notin gone => Linked(fd[e])
    /\ \A i \in 1..Len(data) : Old(data[i])

\* The revisions that the store may remove a file for are owed to nobody.
OwedRows ==
    /\ \A b \in captured : Safe(b)
    /\ \A it \in db.intents : Safe(it.expect) /\ (it.expect = None => Pristine(Tmp(it)))
    /\ SafeRows(db.retained)
    /\ \A o \in out : Old(o.seen.rev)

OwedOp ==
    /\ op.pc \in {"create", "swap"} => Pristine(Tmp(op.it))
    /\ op.pc = "stash" => Safe(op.expect)
    /\ op.pc = "record" => SafeRows(op.retained)
    /\ op.pc \in {"look", "resolve"} => SafeRows(op.db.retained)
    /\ op.pc = "resolve" => SafeRows(op.found.retained)
    /\ op.pc = "release" =>
           /\ Safe(op.seen)
           /\ op.holders = "none" => Unopened(op.name) /\ At(op.name) = op.seen

IndOwed == OwedDisk /\ OwedRows /\ OwedOp

-----------------------------------------------------------------------------
(***************************************************************************)
(* Names and calls.                                                        *)
(***************************************************************************)
LEMMA NameFacts ==
    /\ Private \subseteq Names /\ Path \in Names /\ Path \notin Private
    /\ \A name \in Names : name = Path \/ name \in Private
    /\ \A it \in Intents :
           /\ Tmp(it) \in Private /\ Stashed(it) \in Private /\ Held(it) \in Private
           /\ Tmp(it)[2] = it.n /\ Stashed(it)[2] = it.n /\ Held(it)[2] = it.n
           /\ Tmp(it) # Stashed(it) /\ Tmp(it) # Held(it) /\ Stashed(it) # Held(it)
           /\ Tmp(it) # Path /\ Stashed(it) # Path /\ Held(it) # Path
           /\ \A name \in Private : name[2] = it.n => name \in {Tmp(it), Stashed(it), Held(it)}
<1>1. Private \subseteq Names /\ Path \in Names /\ Path \notin Private
    BY DEF Names, Private, Path
<1>2. \A name \in Names : name = Path \/ name \in Private
    BY DEF Names
<1>3. ASSUME NEW it \in Intents
      PROVE  /\ Tmp(it) \in Private /\ Stashed(it) \in Private /\ Held(it) \in Private
             /\ Tmp(it)[2] = it.n /\ Stashed(it)[2] = it.n /\ Held(it)[2] = it.n
             /\ Tmp(it) # Stashed(it) /\ Tmp(it) # Held(it) /\ Stashed(it) # Held(it)
             /\ \A name \in Private : name[2] = it.n => name \in {Tmp(it), Stashed(it), Held(it)}
    <2>1. it.n \in 1..MaxPublishes
        BY DEF Intents
    <2> QED
        BY <2>1 DEF Tmp, Stashed, Held, Private
<1> QED
    BY <1>1, <1>2, <1>3

LEMMA IntentKinds ==
    /\ Creates \subseteq Intents /\ Replaces \subseteq Intents /\ Deletes \subseteq Intents
    /\ \A it \in Intents : it \in Creates \cup Replaces \cup Deletes
    /\ \A it \in Deletes : it.new = None /\ From(it) = Stashed(it)
    /\ \A it \in Creates \cup Replaces : it.new # None /\ From(it) = Tmp(it)
    /\ \A it \in Intents : it.n \in 1..MaxPublishes /\ it.expect \in ByteSet /\ it.new \in NewBytes
BY DEF Creates, Replaces, Deletes, Intents, From

\* The program counter tells the kind of a call.
LEMMA OpShapes ==
    ASSUME NEW o \in Ops
    PROVE  /\ o.pc = "write" => o \in OpWrite
           /\ o.pc = "create" => o \in OpCreate
           /\ o.pc \in {"swap", "verify"} => o \in OpSwap
           /\ o.pc \in LoopPcs \ {"hold"} => o \in OpLoop
           /\ o.pc \in {"aside", "moved", "return"} => o \in OpDelete
           /\ o.pc = "hold" => o \in OpLoop \cup OpDelete
           /\ o.pc = "record" => o \in OpRecord
           /\ o.pc = "look" => o \in OpLook
           /\ o.pc = "resolve" => o \in OpResolve
           /\ o.pc = "ack" => o \in OpAck
           /\ o.pc = "drop" => o \in OpDrop
           /\ o.pc = "release" => o \in OpRelease
<1>1. Idle.pc = "idle" /\ Closed.pc = "closed"
    BY DEF Idle, Closed
<1>2. /\ \A x \in OpWrite : x.pc = "write"
      /\ \A x \in OpCreate : x.pc = "create"
      /\ \A x \in OpSwap : x.pc \in {"swap", "verify"}
      /\ \A x \in OpLoop : x.pc \in LoopPcs
      /\ \A x \in OpDelete : x.pc \in {"aside", "moved", "return", "hold"}
      /\ \A x \in OpRecord : x.pc = "record"
      /\ \A x \in OpLook : x.pc = "look"
      /\ \A x \in OpResolve : x.pc = "resolve"
      /\ \A x \in OpAck : x.pc = "ack"
      /\ \A x \in OpDrop : x.pc = "drop"
      /\ \A x \in OpRelease : x.pc = "release"
    BY DEF OpWrite, OpCreate, OpSwap, OpLoop, OpDelete, OpRecord, OpLook, OpResolve, OpAck,
       OpDrop, OpRelease
<1> QED
    BY <1>1, <1>2 DEF Ops, LoopPcs

\* The calls that publish, and the others.
Publishers == OpWrite \cup OpCreate \cup OpSwap \cup OpLoop \cup OpDelete \cup OpRecord

LEMMA OpFields ==
    ASSUME NEW o \in Ops
    PROVE  /\ o \in Publishers <=> "it" \in DOMAIN o
           /\ o \in Publishers =>
                  /\ o.it \in Intents
                  /\ o.pc \notin {"idle", "closed", "look", "resolve", "ack", "drop", "release"}
           /\ o.pc \in {"idle", "closed", "look", "resolve", "ack", "drop", "release"} =>
                  o \notin Publishers
           /\ o = Idle => o.pc = "idle"
           /\ o = Closed => o.pc = "closed"
<1>1. /\ DOMAIN Idle = {"pc"} /\ DOMAIN Closed = {"pc"} /\ Idle.pc = "idle" /\ Closed.pc = "closed"
    BY DEF Idle, Closed
<1>2. \A x \in OpLook \cup OpResolve \cup OpAck \cup OpDrop \cup OpRelease :
          /\ "it" \notin DOMAIN x /\ x.pc \in {"look", "resolve", "ack", "drop", "release"}
    BY DEF OpLook, OpResolve, OpAck, OpDrop, OpRelease
<1>3. \A x \in Publishers : "it" \in DOMAIN x /\ x.it \in Intents
    BY IntentKinds DEF Publishers, OpWrite, OpCreate, OpSwap, OpLoop, OpDelete, OpRecord
<1>4. \A x \in Publishers : x.pc \notin {"idle", "closed", "look", "resolve", "ack", "drop", "release"}
    BY DEF Publishers, OpWrite, OpCreate, OpSwap, OpLoop, OpDelete, OpRecord, LoopPcs
<1>5. \/ o \in Publishers \/ o \in {Idle, Closed}
      \/ o \in OpLook \cup OpResolve \cup OpAck \cup OpDrop \cup OpRelease
    BY DEF Ops, Publishers
<1> HIDE DEF Publishers
<1> QED
    BY <1>1, <1>2, <1>3, <1>4, <1>5

\* The name of a call in progress.
LEMMA OpIs ==
    /\ Idle \in Ops /\ Closed \in Ops
    /\ OpWrite \subseteq Ops /\ OpCreate \subseteq Ops /\ OpSwap \subseteq Ops /\ OpLoop \subseteq Ops
    /\ OpDelete \subseteq Ops /\ OpRecord \subseteq Ops /\ OpLook \subseteq Ops
    /\ OpResolve \subseteq Ops /\ OpAck \subseteq Ops /\ OpDrop \subseteq Ops
    /\ OpRelease \subseteq Ops
BY DEF Ops

-----------------------------------------------------------------------------
(***************************************************************************)
(* What the platform's calls do to the directory.                          *)
(***************************************************************************)
Directory(d, n) == d \in [Names -> 0..n] /\ Injective(d)

LEMMA RenamedDir ==
    ASSUME NEW n \in Nat, Directory(dir, n), NEW a \in Names, NEW b \in Names, a # b
    PROVE  /\ Directory(Renamed(a, b), n)
           /\ Renamed(a, b)[a] = 0 /\ Renamed(a, b)[b] = dir[a]
           /\ \A c \in Names : c # a /\ c # b => Renamed(a, b)[c] = dir[c]
BY DEF Directory, Injective, Renamed

LEMMA ExchangedDir ==
    ASSUME NEW n \in Nat, Directory(dir, n), NEW a \in Names, NEW b \in Names, a # b
    PROVE  /\ Directory(Exchanged(a, b), n)
           /\ Exchanged(a, b)[a] = dir[b] /\ Exchanged(a, b)[b] = dir[a]
           /\ \A c \in Names : c # a /\ c # b => Exchanged(a, b)[c] = dir[c]
BY DEF Directory, Injective, Exchanged

LEMMA RemovedDir ==
    ASSUME NEW n \in Nat, Directory(dir, n), NEW a \in Names
    PROVE  /\ Directory(Removed(a), n)
           /\ Removed(a)[a] = 0
           /\ \A c \in Names : c # a => Removed(a)[c] = dir[c]
BY DEF Directory, Injective, Removed

\* A new file is linked.
LinkedAs(a, n) == [dir EXCEPT ![a] = n + 1]

LEMMA LinkedDir ==
    ASSUME NEW n \in Nat, Directory(dir, n), NEW a \in Names
    PROVE  /\ Directory(LinkedAs(a, n), n + 1)
           /\ LinkedAs(a, n)[a] = n + 1
           /\ \A c \in Names : c # a => LinkedAs(a, n)[c] = dir[c]
<1> DEFINE d == LinkedAs(a, n)
<1>1. dir \in [Names -> 0..n] /\ Injective(dir)
    BY DEF Directory
<1>2. d[a] = n + 1 /\ \A c \in Names : c # a => d[c] = dir[c]
    BY <1>1 DEF LinkedAs
<1>3. \A c \in Names : dir[c] \in 0..n+1 /\ dir[c] # n + 1
    BY <1>1
<1>4. d \in [Names -> 0..n+1]
    BY <1>1, <1>3 DEF LinkedAs
<1> HIDE DEF d
<1>5. Injective(d)
    BY <1>1, <1>2, <1>3 DEF Injective
<1> QED
    BY <1>2, <1>4, <1>5 DEF Directory, d

LEMMA NewFileData ==
    ASSUME data \in Seq(ByteSet), NEW b \in ByteSet
    PROVE  /\ NewFile(b) \in Seq(ByteSet)
           /\ Len(NewFile(b)) = Len(data) + 1 /\ Len(data) \in Nat
           /\ NewFile(b)[Len(data) + 1] = b
           /\ \A i \in 1..Len(data) : NewFile(b)[i] = data[i]
BY DEF NewFile

LEMMA Kinds ==
    /\ None \in ByteSet /\ Empty \in ByteSet /\ Torn \in ByteSet
    /\ NewBytes \subseteq ByteSet
    /\ ~Users(None) /\ ~Users(Empty) /\ ~Users(Torn)
    /\ \A b \in NewBytes : ~Users(b)
BY DEF None, Empty, Torn, ByteSet, NewBytes, Users

\* What a step of a publish must keep.
LEMMA PublishNames ==
    ASSUME IndNames, NEW it \in db.intents,
           db' = db, out' \subseteq out, fd' = fd, captured' = captured, owed' = owed,
           count' \in [save : Nat, delete : Nat, fault : Nat],
           data' \in Seq(ByteSet), Len(data) <= Len(data'), Directory(dir', Len(data')),
           \A name \in Private : name[2] # it.n => dir'[name] = dir[name],
           it.new = None => dir'[Tmp(it)] = 0,
           op' \in Ops, OpFits'
    PROVE  IndNames'
<1>1. /\ StoreTypeOK /\ NamesOK /\ NoOrphans /\ db \in Databases /\ db.intents \subseteq Intents
      /\ it \in Intents
    BY DEF IndNames, StoreTypeOK, Databases
<1>2. fd' \in [Editors -> 0..Len(data')]
    <2>1. Len(data) \in Nat /\ Len(data') \in Nat /\ fd \in [Editors -> 0..Len(data)]
        BY <1>1 DEF StoreTypeOK
    <2> QED
        BY <2>1
<1>3. StoreTypeOK'
    BY <1>1, <1>2 DEF StoreTypeOK, Directory
<1>4. \A name \in Private : dir'[name] # 0 => name[2] < db.next
    BY <1>1 DEF NamesOK
<1>5. \A x \in db.intents : x.new = None => dir'[Tmp(x)] = 0
    <2> TAKE x \in db.intents
    <2>1. x \in Intents /\ Tmp(x) \in Private /\ Tmp(x)[2] = x.n
        BY <1>1, NameFacts
    <2>2. CASE x.n = it.n
        BY <1>1, <2>2 DEF NamesOK
    <2>3. CASE x.n # it.n
        BY <1>1, <2>1, <2>3 DEF NamesOK
    <2> QED
        BY <2>2, <2>3
<1>6. NamesOK'
    BY <1>1, <1>4, <1>5 DEF NamesOK, Directory, Tmp
<1>7. NoOrphans'
    <2> SUFFICES ASSUME NEW name \in Private, dir'[name] # 0
                 PROVE  Covered(name)'
        BY DEF NoOrphans, Exists
    <2>1. Covered(name)
        <3>1. CASE name[2] = it.n
            BY <3>1 DEF Covered
        <3>2. CASE name[2] # it.n
            BY <1>1, <3>2 DEF NoOrphans, Exists
        <3> QED
            BY <3>1, <3>2
    <2> QED
        BY <2>1 DEF Covered
<1> QED
    BY <1>3, <1>6, <1>7 DEF IndNames

\* A publish in progress fits.
LEMMA PublisherFits ==
    ASSUME op' \in Publishers, op' \in Ops, op'.it \in db.intents, db' = db,
           \A name \in Private : dir'[name] # 0 /\ name[2] = op'.it.n => name \in Holding(op')
    PROVE  OpFits'
<1>1. op'.pc \notin {"look", "resolve", "drop"}
    BY OpFields
<1>2. Only(op.it.n, Holding(op))'
    BY DEF Only, Holding, NamesOf, Stashed, Tmp, From
<1> QED
    BY <1>1, <1>2 DEF OpFits

LEMMA HoldingIs ==
    ASSUME NEW o
    PROVE  /\ o.pc \in {"write", "aside"} => Holding(o) = {}
           /\ o.pc \in {"moved", "return"} => Holding(o) = {Stashed(o.it)}
           /\ o.pc = "hold" => Holding(o) = {From(o.it)}
           /\ o.pc = "record" => Holding(o) = NamesOf(o.retained) \cup o.preserved
           /\ o.pc \in {"create", "swap", "verify"} \cup (LoopPcs \ {"hold"}) => Holding(o) = {Tmp(o.it)}
BY DEF Holding, LoopPcs

\* A publish in progress, its intent and its files.
LEMMA PublishFacts ==
    ASSUME IndNames, op \in Publishers
    PROVE  /\ op.it \in db.intents /\ op.it \in Intents
           /\ \A name \in Private : dir[name] # 0 /\ name[2] = op.it.n => name \in Holding(op)
           /\ op.it.new = None => dir[Tmp(op.it)] = 0
<1>1. op \in Ops /\ db.intents \subseteq Intents
    BY DEF IndNames, StoreTypeOK, Databases
<1>2. op.it \in db.intents /\ Only(op.it.n, Holding(op))
    BY <1>1, OpFields DEF IndNames, OpFits
<1> QED
    BY <1>1, <1>2 DEF Only, IndNames, NamesOK

LEMMA StoreFacts ==
    ASSUME IndNames
    PROVE  /\ Directory(dir, Len(data)) /\ Len(data) \in Nat /\ data \in Seq(ByteSet)
           /\ op \in Ops /\ db \in Databases /\ db.intents \subseteq Intents
           /\ count \in [save : Nat, delete : Nat, fault : Nat]
BY DEF IndNames, StoreTypeOK, NamesOK, Directory, Databases

LEMMA WriteTempNames ==
    ASSUME IndNames, WriteTemp
    PROVE  /\ IndNames' /\ op.it \in db.intents /\ op.it \in Creates \cup Replaces /\ op.it.new \in NewBytes
           /\ data' = NewFile(op.it.new) /\ dir' = LinkedAs(Tmp(op.it), Len(data))
           /\ op'.it = op.it /\ op'.pc \in {"create", "swap"}
<1> DEFINE it == op.it
           n == Len(data)
<1>1. op \in OpWrite /\ op \in Publishers /\ op.pc = "write"
    BY StoreFacts, OpShapes DEF WriteTemp, Publishers
<1>2. /\ it \in db.intents /\ it \in Intents /\ it \in Creates \cup Replaces /\ it.new # None
      /\ it.new \in ByteSet
      /\ \A name \in Private : name[2] = it.n => dir[name] = 0
    <2>1. it \in Creates \cup Replaces
        BY <1>1 DEF OpWrite
    <2> QED
        BY <1>1, <2>1, PublishFacts, HoldingIs, IntentKinds, Kinds
<1>3. /\ data' = NewFile(it.new) /\ Len(data') = n + 1 /\ n \in Nat /\ data' \in Seq(ByteSet)
      /\ dir' = [dir EXCEPT ![Tmp(it)] = n + 1]
      /\ op' = [pc |-> IF it.expect = None THEN "create" ELSE "swap", it |-> it, our |-> n + 1]
      /\ UNCHANGED <<store, user>>
    BY <1>2, StoreFacts, NewFileData DEF WriteTemp
<1>4. Tmp(it) \in Private /\ Tmp(it) \in Names /\ Tmp(it)[2] = it.n
    BY <1>2, NameFacts
<1>5. /\ Directory(dir', n + 1)
      /\ \A name \in Names : name # Tmp(it) => dir'[name] = dir[name]
    <2>1. Directory(dir, n) /\ n \in Nat
        BY StoreFacts
    <2> DEFINE a == Tmp(it)
    <2>2. a \in Names /\ dir' = LinkedAs(a, n)
        BY <1>3, <1>4 DEF LinkedAs
    <2> HIDE DEF a, n
    <2>3. Directory(dir', n + 1) /\ \A c \in Names : c # a => dir'[c] = dir[c]
        BY <2>1, <2>2, LinkedDir
    <2> QED
        BY <2>3 DEF a
<1>6. op' \in OpCreate \cup OpSwap /\ op'.it = it /\ op'.pc \in {"create", "swap"}
    <2>1. CASE it.expect = None
        <3>1. it \in Creates
            BY <1>2, <2>1 DEF Creates, Replaces
        <3> QED
            BY <1>3, <2>1, <3>1 DEF OpCreate
    <2>2. CASE it.expect # None
        <3>1. it \in Replaces
            BY <1>2, <2>2 DEF Creates, Replaces
        <3> QED
            BY <1>3, <2>2, <3>1 DEF OpSwap
    <2> QED
        BY <2>1, <2>2
<1> HIDE DEF it
<1>7. op' \in Publishers /\ op' \in Ops /\ Holding(op') = {Tmp(it)}
    BY <1>6, OpIs, HoldingIs DEF Publishers
<1>8. /\ db' = db /\ out' = out /\ fd' = fd /\ captured' = captured /\ owed' = owed /\ count' = count
    BY <1>3 DEF store, user
<1>9. OpFits'
    BY <1>2, <1>5, <1>6, <1>7, <1>8, NameFacts, PublisherFits
<1>10. \A name \in Private : name[2] # it.n => dir'[name] = dir[name]
    BY <1>4, <1>5, NameFacts
<1>11. Directory(dir', Len(data')) /\ Len(data) <= Len(data')
    BY <1>3, <1>5
<1>12. IndNames'
    BY <1>2, <1>3, <1>7, <1>8, <1>9, <1>10, <1>11, StoreFacts, PublishNames
<1> QED
    BY <1>2, <1>3, <1>6, <1>12, IntentKinds DEF LinkedAs, it

\* The end of a publish.
LEMMA OutcomeIs ==
    ASSUME NEW published \in BOOLEAN, NEW retained \in SUBSET Rows, NEW preserved \in SUBSET Private,
           op.it \in Intents, Outcome(published, retained, preserved)
    PROVE  /\ op' \in OpRecord /\ op' \in Publishers /\ op' \in Ops
           /\ op'.it = op.it /\ op'.pc = "record" /\ op'.published = published
           /\ op'.retained = retained /\ op'.preserved = preserved
           /\ Holding(op') = NamesOf(retained) \cup preserved
<1>1. op' = [pc |-> "record", it |-> op.it, published |-> published, retained |-> retained,
             preserved |-> preserved]
    BY DEF Outcome
<1>2. op' \in OpRecord
    BY <1>1 DEF OpRecord
<1>3. /\ op'.it = op.it /\ op'.pc = "record" /\ op'.published = published
      /\ op'.retained = retained /\ op'.preserved = preserved
    BY <1>1
<1> QED
    BY <1>2, <1>3, OpIs, HoldingIs DEF Publishers

\* A step of a publish that writes no file and moves only its own.
LEMMA MoveNames ==
    ASSUME IndNames, op \in Publishers, Directory(dir', Len(data)), data' = data,
           UNCHANGED <<store, user>>,
           \A name \in Private : name[2] # op.it.n => dir'[name] = dir[name],
           op.it.new = None => dir'[Tmp(op.it)] = 0,
           op' \in Publishers, op' \in Ops, op'.it = op.it,
           \A name \in Private : dir'[name] # 0 /\ name[2] = op.it.n => name \in Holding(op')
    PROVE  IndNames'
<1>1. /\ db' = db /\ out' = out /\ fd' = fd /\ captured' = captured /\ owed' = owed /\ count' = count
    BY DEF store, user
<1>2. op.it \in db.intents
    BY PublishFacts
<1>3. OpFits'
    BY <1>1, <1>2, PublisherFits
<1>4. Directory(dir', Len(data')) /\ Len(data) <= Len(data') /\ data' \in Seq(ByteSet)
    BY StoreFacts
<1> QED
    BY <1>1, <1>2, <1>3, <1>4, StoreFacts, PublishNames

LEMMA CreateNames ==
    ASSUME IndNames, Create
    PROVE  /\ IndNames' /\ op.it \in db.intents /\ op.it \in Intents /\ op.it \in Creates
           /\ op'.it = op.it /\ op'.pc = "record" /\ op'.retained = {}
           /\ \/ op'.published = FALSE /\ dir' = Removed(Tmp(op.it))
              \/ op'.published = TRUE /\ dir' = Renamed(Tmp(op.it), Path) /\ dir[Path] = 0
<1> DEFINE it == op.it
<1>1. op \in OpCreate /\ op \in Publishers /\ op.pc = "create"
    BY StoreFacts, OpShapes DEF Create, Publishers
<1>2. /\ it \in db.intents /\ it \in Intents /\ it.new # None
      /\ \A name \in Private : dir[name] # 0 /\ name[2] = it.n => name = Tmp(it)
    <2>1. it \in Creates
        BY <1>1 DEF OpCreate
    <2> QED
        BY <1>1, <2>1, PublishFacts, HoldingIs, IntentKinds
<1>3. Tmp(it) \in Private /\ Tmp(it) \in Names /\ Tmp(it)[2] = it.n /\ Path \in Names /\ Tmp(it) # Path
    BY <1>2, NameFacts
<1>4. data' = data /\ UNCHANGED <<store, user>>
    BY DEF Create
<1>5. /\ Directory(dir', Len(data)) /\ dir'[Tmp(it)] = 0
      /\ \A name \in Private : name # Tmp(it) => dir'[name] = dir[name]
    <2>1. dir' = Removed(Tmp(it)) \/ dir' = Renamed(Tmp(it), Path)
        BY DEF Create
    <2>2. ASSUME dir' = Removed(Tmp(it))
          PROVE  /\ Directory(dir', Len(data)) /\ dir'[Tmp(it)] = 0
                 /\ \A name \in Private : name # Tmp(it) => dir'[name] = dir[name]
        BY <1>3, <2>2, StoreFacts, RemovedDir, NameFacts
    <2>3. ASSUME dir' = Renamed(Tmp(it), Path)
          PROVE  /\ Directory(dir', Len(data)) /\ dir'[Tmp(it)] = 0
                 /\ \A name \in Private : name # Tmp(it) => dir'[name] = dir[name]
        BY <1>3, <2>3, StoreFacts, RenamedDir, NameFacts
    <2> QED
        BY <2>1, <2>2, <2>3
<1>6. /\ op' \in Publishers /\ op' \in Ops /\ op'.it = op.it /\ op'.pc = "record" /\ op'.retained = {}
      /\ \/ op'.published = FALSE /\ dir' = Removed(Tmp(op.it))
         \/ op'.published = TRUE /\ dir' = Renamed(Tmp(op.it), Path) /\ dir[Path] = 0
    <2>1. \/ Outcome(FALSE, {}, {}) /\ dir' = Removed(Tmp(op.it))
          \/ Outcome(TRUE, {}, {}) /\ dir' = Renamed(Tmp(op.it), Path) /\ dir[Path] = 0
        BY DEF Create, Exists
    <2> QED
        BY <1>2, <2>1, OutcomeIs
<1>7. \A name \in Private : dir'[name] # 0 /\ name[2] = it.n => name \in Holding(op')
    BY <1>2, <1>5
<1>8. IndNames'
    BY <1>1, <1>2, <1>3, <1>4, <1>5, <1>6, <1>7, MoveNames
<1>9. op.it \in Creates
    BY <1>1 DEF OpCreate
<1> QED
    BY <1>2, <1>6, <1>8, <1>9

LEMMA SwapNames ==
    ASSUME IndNames, Swap
    PROVE  /\ IndNames' /\ op.it \in db.intents /\ op.it \in Replaces /\ op'.it = op.it
           /\ \/ op'.pc = "verify" /\ dir' = Exchanged(Tmp(op.it), Path)
              \/ /\ op'.pc = "record" /\ op'.published = FALSE /\ op'.retained = {}
                 /\ dir' = Removed(Tmp(op.it))
<1> DEFINE it == op.it
<1>1. op \in OpSwap /\ op \in Publishers /\ op.pc = "swap"
    BY StoreFacts, OpShapes DEF Swap, Publishers
<1>2. /\ it \in db.intents /\ it \in Intents /\ it.new # None
      /\ \A name \in Private : dir[name] # 0 /\ name[2] = it.n => name = Tmp(it)
    <2>1. it \in Replaces
        BY <1>1 DEF OpSwap
    <2> QED
        BY <1>1, <2>1, PublishFacts, HoldingIs, IntentKinds
<1>3. Tmp(it) \in Private /\ Tmp(it) \in Names /\ Tmp(it)[2] = it.n /\ Path \in Names /\ Tmp(it) # Path
    BY <1>2, NameFacts
<1>4. data' = data /\ UNCHANGED <<store, user>>
    BY DEF Swap
<1>5. it \in db.intents /\ it \in Replaces
    BY <1>1, <1>2 DEF OpSwap
<1>6. CASE Exists(Path)
    <2>1. dir' = Exchanged(Tmp(it), Path) /\ op' = [op EXCEPT !.pc = "verify"]
        BY <1>6 DEF Swap
    <2>2. /\ Directory(dir', Len(data))
          /\ \A name \in Private : name # Tmp(it) => dir'[name] = dir[name]
        BY <1>3, <2>1, StoreFacts, ExchangedDir, NameFacts
    <2>3. op' \in OpSwap /\ op'.it = it /\ op'.pc = "verify"
        BY <1>1, <2>1 DEF OpSwap
    <2>4. op' \in Publishers /\ op' \in Ops /\ Holding(op') = {Tmp(it)}
        BY <2>3, OpIs, HoldingIs DEF Publishers
    <2>5. IndNames'
        BY <1>1, <1>2, <1>3, <1>4, <2>2, <2>3, <2>4, MoveNames
    <2> QED
        BY <1>5, <2>1, <2>3, <2>5
<1>7. CASE ~Exists(Path)
    <2>1. dir' = Removed(Tmp(it)) /\ Outcome(FALSE, {}, {})
        BY <1>7 DEF Swap
    <2>2. /\ Directory(dir', Len(data)) /\ dir'[Tmp(it)] = 0
          /\ \A name \in Private : name # Tmp(it) => dir'[name] = dir[name]
        BY <1>3, <2>1, StoreFacts, RemovedDir, NameFacts
    <2>3. /\ op' \in Publishers /\ op' \in Ops /\ op'.it = op.it
          /\ op'.pc = "record" /\ op'.published = FALSE /\ op'.retained = {}
        BY <1>2, <2>1, OutcomeIs
    <2>4. IndNames'
        BY <1>1, <1>2, <1>3, <1>4, <2>2, <2>3, MoveNames
    <2> QED
        BY <1>5, <2>1, <2>3, <2>4
<1> QED
    BY <1>6, <1>7

\* The loop that puts a user's bytes back has one file, its temp.
LEMMA LoopFacts ==
    ASSUME IndNames, op \in OpSwap \/ op \in OpLoop, op.pc # "hold"
    PROVE  /\ op \in Publishers /\ op.it \in db.intents /\ op.it \in Replaces /\ op.it \in Intents
           /\ op.it.new # None /\ op.it.new \in ByteSet /\ op.it.expect \in ByteSet
           /\ \A name \in Private : dir[name] # 0 /\ name[2] = op.it.n => name = Tmp(op.it)
           /\ Tmp(op.it) \in Private /\ Tmp(op.it) \in Names /\ Tmp(op.it)[2] = op.it.n
           /\ Path \in Names /\ Tmp(op.it) # Path
<1>1. op \in Publishers
    BY DEF Publishers
<1>2. op.it \in Replaces
    BY DEF OpSwap, OpLoop
<1>3. op.pc \in {"create", "swap", "verify"} \cup (LoopPcs \ {"hold"})
    BY DEF OpSwap, OpLoop
<1>4. op.it \in Intents /\ op.it.new # None /\ op.it.expect \in ByteSet /\ op.it.new \in ByteSet
    BY <1>2, IntentKinds, Kinds
<1>5. Holding(op) = {Tmp(op.it)}
    BY <1>3, HoldingIs
<1> QED
    BY <1>1, <1>2, <1>4, <1>5, PublishFacts, NameFacts

\* A step of the loop that does not touch the directory, or exchanges the temp.
LEMMA LoopNames ==
    ASSUME IndNames, op \in OpSwap \/ op \in OpLoop, op.pc # "hold",
           data' = data, UNCHANGED <<store, user>>,
           dir' = dir \/ dir' = Exchanged(Tmp(op.it), Path),
           op' \in OpLoop, op'.it = op.it
    PROVE  IndNames'
<1>1. /\ Directory(dir', Len(data))
      /\ \A name \in Private : name # Tmp(op.it) => dir'[name] = dir[name]
    <2>1. CASE dir' = dir
        BY <2>1, StoreFacts
    <2>2. CASE dir' = Exchanged(Tmp(op.it), Path)
        BY <2>2, LoopFacts, StoreFacts, ExchangedDir, NameFacts
    <2> QED
        BY <2>1, <2>2
<1>2. op' \in Publishers /\ op' \in Ops
    BY OpIs DEF Publishers
<1>3. Holding(op') = {Tmp(op.it)}
    <2>1. op'.pc \in LoopPcs
        BY DEF OpLoop
    <2>2. From(op.it) = Tmp(op.it)
        BY LoopFacts, IntentKinds
    <2> QED
        BY <2>1, <2>2, HoldingIs
<1> QED
    BY <1>1, <1>2, <1>3, LoopFacts, MoveNames

LEMMA VerifyLoop ==
    ASSUME IndNames, Verify
    PROVE  /\ IndNames' /\ op \in OpSwap /\ op.pc = "verify"
           /\ op'.pc \in {"stash", "restore"} /\ op'.it = op.it /\ op'.our = op.our
           /\ op'.expect = op.it.expect /\ op'.published = TRUE
<1>1. op \in OpSwap /\ op.pc = "verify" /\ op.pc # "hold"
    BY StoreFacts, OpShapes DEF Verify
<1>2. op' = [pc |-> IF At(Tmp(op.it)) = op.it.expect THEN "stash" ELSE "restore",
              it |-> op.it, our |-> op.our, published |-> TRUE,
              expect |-> op.it.expect, round |-> 0]
    BY DEF Verify
<1>3. op.it \in Replaces /\ op.our \in Nat /\ op.it.expect \in ByteSet
    BY <1>1, LoopFacts DEF OpSwap
<1>4. op' \in OpLoop /\ op'.it = op.it
    BY <1>2, <1>3 DEF OpLoop, LoopPcs
<1>5. /\ op'.pc \in {"stash", "restore"} /\ op'.our = op.our
      /\ op'.expect = op.it.expect /\ op'.published = TRUE
    BY <1>2
<1>6. data' = data /\ dir' = dir /\ UNCHANGED <<store, user>>
    BY DEF Verify
<1> QED
    BY <1>1, <1>4, <1>5, <1>6, LoopNames

LEMMA RestoreLoop ==
    ASSUME IndNames, Restore
    PROVE  IndNames' /\ op'.pc \in {"putback", "hold"}
<1>1. op \in OpLoop /\ op.pc = "restore" /\ op.pc # "hold"
    BY StoreFacts, OpShapes DEF Restore, LoopPcs
<1>2. op' \in OpLoop /\ op'.it = op.it /\ op'.pc \in {"putback", "hold"}
    BY <1>1 DEF Restore, OpLoop, LoopPcs
<1>3. data' = data /\ dir' = dir /\ UNCHANGED <<store, user>>
    BY DEF Restore
<1> QED
    BY <1>1, <1>2, <1>3, LoopNames

LEMMA ExchangeBackLoop ==
    ASSUME IndNames, ExchangeBack
    PROVE  IndNames' /\ op'.pc \in {"check", "restore", "hold"}
<1>1. op \in OpLoop /\ op.pc # "hold" /\ op.pc \in {"putback", "undo", "again"}
    BY StoreFacts, OpShapes DEF ExchangeBack, LoopPcs
<1>2. op' \in OpLoop /\ op'.it = op.it /\ op'.pc \in {"check", "restore", "hold"}
    <2>1. \/ op' = [op EXCEPT !.pc = "check"]
          \/ op' = [op EXCEPT !.pc = "restore", !.round = op.round + 1]
          \/ op' = [op EXCEPT !.pc = "hold"]
        BY <1>1 DEF ExchangeBack
    <2>2. ASSUME op' = [op EXCEPT !.pc = "check"] \/ op' = [op EXCEPT !.pc = "hold"]
          PROVE  op' \in OpLoop /\ op'.it = op.it /\ op'.pc \in {"check", "hold"}
        BY <1>1, <2>2 DEF OpLoop, LoopPcs
    <2>3. ASSUME op' = [op EXCEPT !.pc = "restore", !.round = op.round + 1]
          PROVE  op' \in OpLoop /\ op'.it = op.it /\ op'.pc = "restore"
        <3>1. op.round + 1 \in Nat
            BY <1>1 DEF OpLoop
        <3> QED
            BY <1>1, <2>3, <3>1 DEF OpLoop, LoopPcs
    <2> QED
        BY <2>1, <2>2, <2>3
<1>3. data' = data /\ UNCHANGED <<store, user>> /\ (dir' = dir \/ dir' = Exchanged(Tmp(op.it), Path))
    BY DEF ExchangeBack
<1> QED
    BY <1>1, <1>2, <1>3, LoopNames

LEMMA CheckLoop ==
    ASSUME IndNames, Check
    PROVE  /\ IndNames' /\ op.pc = "check" /\ op \in OpLoop
           /\ \/ op'.pc \in {"undo", "again"}
              \/ op'.pc = "stash" /\ op'.published = FALSE /\ op'.expect = op.it.new
<1>1. op \in OpLoop /\ op.pc # "hold" /\ op.pc = "check"
    BY StoreFacts, OpShapes DEF Check, LoopPcs
<1>2. op.it.new \in ByteSet
    BY <1>1, LoopFacts
<1>3. \/ op' = [op EXCEPT !.pc = "undo"]
      \/ op' = [op EXCEPT !.pc = "again"]
      \/ op' = [op EXCEPT !.pc = "stash", !.published = FALSE, !.expect = op.it.new]
    BY DEF Check
<1>4. ASSUME op' = [op EXCEPT !.pc = "undo"] \/ op' = [op EXCEPT !.pc = "again"]
      PROVE  op' \in OpLoop /\ op'.it = op.it /\ op'.pc \in {"undo", "again"}
    BY <1>1, <1>4 DEF OpLoop, LoopPcs
<1>5. ASSUME op' = [op EXCEPT !.pc = "stash", !.published = FALSE, !.expect = op.it.new]
      PROVE  op' \in OpLoop /\ op'.it = op.it /\ op'.pc = "stash" /\ op'.published = FALSE
             /\ op'.expect = op.it.new
    BY <1>1, <1>2, <1>5 DEF OpLoop, LoopPcs
<1>6. data' = data /\ dir' = dir /\ UNCHANGED <<store, user>>
    BY DEF Check
<1>7. op' \in OpLoop /\ op'.it = op.it
    BY <1>3, <1>4, <1>5
<1> QED
    BY <1>1, <1>3, <1>4, <1>5, <1>6, <1>7, LoopNames

LEMMA RowsIs ==
    \A name \in Private, b \in ByteSet :
        {Keeps(name, b)} \in SUBSET Rows /\ NamesOf({Keeps(name, b)}) = {name}
BY DEF Keeps, Rows, NamesOf

LEMMA StashNames ==
    ASSUME IndNames, Stash
    PROVE  IndNames' /\ op \in OpLoop /\ op'.pc = "record" /\ op'.it = op.it
           /\ op'.published = op.published /\ op'.retained = {Keeps(Stashed(op.it), op.expect)}
<1> DEFINE it == op.it
           rows == {Keeps(Stashed(it), op.expect)}
<1>1. op \in OpLoop /\ op.pc # "hold" /\ op.pc = "stash"
    BY StoreFacts, OpShapes DEF Stash, LoopPcs
<1>2. /\ it \in Intents /\ it.new # None /\ op \in Publishers
      /\ \A name \in Private : dir[name] # 0 /\ name[2] = it.n => name = Tmp(it)
    BY <1>1, LoopFacts
<1>3. op.expect \in ByteSet /\ op.published \in BOOLEAN
    BY <1>1 DEF OpLoop
<1>4. /\ Tmp(it) \in Private /\ Tmp(it) \in Names /\ Tmp(it)[2] = it.n
      /\ Stashed(it) \in Private /\ Stashed(it) \in Names /\ Stashed(it)[2] = it.n /\ Tmp(it) # Stashed(it)
    BY <1>2, NameFacts
<1>5. data' = data /\ UNCHANGED <<store, user>> /\ dir' = Renamed(Tmp(it), Stashed(it))
    BY DEF Stash
<1>6. rows \in SUBSET Rows /\ NamesOf(rows) = {Stashed(it)}
    BY <1>3, <1>4, RowsIs
<1>7. Outcome(op.published, rows, {})
    BY DEF Stash
<1> HIDE DEF rows, it
<1>8. /\ op' \in Publishers /\ op' \in Ops /\ op'.it = op.it /\ Holding(op') = {Stashed(it)}
      /\ op'.pc = "record" /\ op'.published = op.published /\ op'.retained = rows
    BY <1>2, <1>3, <1>6, <1>7, OutcomeIs DEF it
<1>9. /\ Directory(dir', Len(data)) /\ dir'[Tmp(it)] = 0
      /\ \A name \in Private : name # Tmp(it) /\ name # Stashed(it) => dir'[name] = dir[name]
    BY <1>4, <1>5, StoreFacts, RenamedDir, NameFacts
<1>10. \A name \in Private : dir'[name] # 0 /\ name[2] = it.n => name = Stashed(it)
    BY <1>2, <1>9
<1>11. IndNames'
    BY <1>2, <1>4, <1>5, <1>8, <1>9, <1>10, MoveNames DEF it
<1> QED
    BY <1>1, <1>8, <1>11 DEF it, rows

LEMMA HoldNames ==
    ASSUME IndNames, Hold
    PROVE  IndNames' /\ op'.pc = "record" /\ op'.it = op.it /\ op'.published = FALSE /\ op'.retained = {}
           /\ op.it \in Intents /\ op \in Publishers
<1> DEFINE it == op.it
           from == From(it)
<1>1. op \in OpLoop \cup OpDelete /\ op.pc = "hold"
    BY StoreFacts, OpShapes DEF Hold
<1>2. /\ it \in Intents /\ op \in Publishers
      /\ \A name \in Private : dir[name] # 0 /\ name[2] = it.n => name = from
      /\ it.new = None => dir[Tmp(it)] = 0
    BY <1>1, PublishFacts, HoldingIs DEF Publishers
<1>3. /\ from \in Private /\ from \in Names /\ from[2] = it.n /\ from # Held(it)
      /\ Held(it) \in Private /\ Held(it) \in Names /\ Held(it)[2] = it.n /\ Tmp(it) # Held(it)
      /\ Tmp(it) \in Private
    BY <1>2, NameFacts DEF From
<1>4. data' = data /\ UNCHANGED <<store, user>> /\ dir' = Renamed(from, Held(it))
    BY DEF Hold, From
<1>5. Outcome(FALSE, {}, {Held(it)})
    BY DEF Hold
<1> HIDE DEF from, it
<1>6. {Held(it)} \in SUBSET Private /\ {} \in SUBSET Rows /\ NamesOf({}) = {}
    BY <1>3 DEF NamesOf
<1>7. /\ op' \in Publishers /\ op' \in Ops /\ op'.it = op.it /\ Holding(op') = {Held(it)}
      /\ op'.pc = "record" /\ op'.published = FALSE /\ op'.retained = {}
    <2> DEFINE held == {Held(it)}
               none == {}
    <2>1. held \in SUBSET Private /\ none \in SUBSET Rows /\ NamesOf(none) = {} /\ Outcome(FALSE, none, held)
        BY <1>5, <1>6
    <2> HIDE DEF held, none
    <2>2. /\ op' \in Publishers /\ op' \in Ops /\ op'.it = op.it /\ Holding(op') = NamesOf(none) \cup held
          /\ op'.pc = "record" /\ op'.published = FALSE /\ op'.retained = none
        BY <1>2, <2>1, OutcomeIs DEF it
    <2> QED
        BY <2>1, <2>2 DEF held, none
<1>8. /\ Directory(dir', Len(data)) /\ dir'[from] = 0
      /\ \A name \in Private : name # from /\ name # Held(it) => dir'[name] = dir[name]
    BY <1>3, <1>4, StoreFacts, RenamedDir, NameFacts
<1>9. it.new = None => dir'[Tmp(it)] = 0
    BY <1>2, <1>3, <1>8
<1>10. \A name \in Private : dir'[name] # 0 /\ name[2] = it.n => name = Held(it)
    BY <1>2, <1>8
<1>11. IndNames'
    BY <1>2, <1>3, <1>4, <1>7, <1>8, <1>9, <1>10, MoveNames DEF it
<1> QED
    BY <1>2, <1>7, <1>11 DEF it

\* A deletion in progress.
LEMMA DeleteFacts ==
    ASSUME IndNames, op \in OpDelete, op.pc # "hold"
    PROVE  /\ op \in Publishers /\ op.it \in db.intents /\ op.it \in Intents /\ op.it \in Deletes
           /\ op.it.new = None /\ op.it.expect \in ByteSet /\ dir[Tmp(op.it)] = 0
           /\ \A name \in Private : dir[name] # 0 /\ name[2] = op.it.n =>
                  name = Stashed(op.it) /\ op.pc # "aside"
           /\ Tmp(op.it) \in Private /\ Tmp(op.it) # Stashed(op.it)
           /\ Stashed(op.it) \in Private /\ Stashed(op.it) \in Names /\ Stashed(op.it)[2] = op.it.n
           /\ Path \in Names /\ Stashed(op.it) # Path
<1>1. op \in Publishers
    BY DEF Publishers
<1>2. op.it \in Deletes /\ op.pc \in {"aside", "moved", "return"}
    BY DEF OpDelete
<1>3. op.it \in Intents /\ op.it.new = None /\ op.it.expect \in ByteSet
    BY <1>2, IntentKinds
<1>4. \/ op.pc = "aside" /\ Holding(op) = {}
      \/ op.pc # "aside" /\ Holding(op) = {Stashed(op.it)}
    BY <1>2, HoldingIs
<1> QED
    BY <1>1, <1>2, <1>3, <1>4, PublishFacts, NameFacts

\* A step of a deletion that keeps the directory, or moves the file to its stash or back.
LEMMA DeleteNames ==
    ASSUME IndNames, op \in OpDelete, op.pc # "hold",
           data' = data, UNCHANGED <<store, user>>,
           dir' = dir \/ dir' = Renamed(Path, Stashed(op.it)) \/ dir' = Renamed(Stashed(op.it), Path),
           op' \in Publishers, op' \in Ops, op'.it = op.it,
           dir'[Stashed(op.it)] # 0 => Stashed(op.it) \in Holding(op')
    PROVE  IndNames'
<1>1. /\ Directory(dir', Len(data))
      /\ \A name \in Private : name # Stashed(op.it) => dir'[name] = dir[name]
    <2>1. CASE dir' = dir
        BY <2>1, StoreFacts
    <2>2. CASE dir' = Renamed(Path, Stashed(op.it))
        BY <2>2, DeleteFacts, StoreFacts, RenamedDir, NameFacts
    <2>3. CASE dir' = Renamed(Stashed(op.it), Path)
        BY <2>3, DeleteFacts, StoreFacts, RenamedDir, NameFacts
    <2> QED
        BY <2>1, <2>2, <2>3
<1>2. dir'[Tmp(op.it)] = 0
    BY <1>1, DeleteFacts
<1>3. \A name \in Private : dir'[name] # 0 /\ name[2] = op.it.n => name \in Holding(op')
    BY <1>1, DeleteFacts
<1>4. \A name \in Private : name[2] # op.it.n => dir'[name] = dir[name]
    BY <1>1, DeleteFacts
<1> QED
    BY <1>1, <1>2, <1>3, <1>4, DeleteFacts, MoveNames

LEMMA MoveAsideNames ==
    ASSUME IndNames, MoveAside
    PROVE  /\ IndNames' /\ op \in OpDelete /\ op.pc = "aside"
           /\ \/ op'.pc = "moved"
              \/ op'.pc = "record" /\ op'.published = FALSE /\ op'.retained = {}
<1>1. op \in OpDelete /\ op.pc = "aside" /\ op.pc # "hold"
    BY StoreFacts, OpShapes DEF MoveAside
<1>2. data' = data /\ UNCHANGED <<store, user>>
    BY DEF MoveAside
<1>3. CASE Exists(Path)
    <2>1. dir' = Renamed(Path, Stashed(op.it)) /\ op' = [op EXCEPT !.pc = "moved"]
        BY <1>3 DEF MoveAside
    <2>2. op' \in OpDelete /\ op'.it = op.it /\ op'.pc = "moved"
        BY <1>1, <2>1 DEF OpDelete
    <2>3. op' \in Publishers /\ op' \in Ops /\ Holding(op') = {Stashed(op.it)}
        BY <2>2, OpIs, HoldingIs DEF Publishers
    <2> QED
        BY <1>1, <1>2, <2>1, <2>2, <2>3, DeleteNames
<1>4. CASE ~Exists(Path)
    <2>1. dir' = dir /\ Outcome(FALSE, {}, {})
        BY <1>4 DEF MoveAside
    <2>2. /\ op' \in Publishers /\ op' \in Ops /\ op'.it = op.it
          /\ op'.pc = "record" /\ op'.published = FALSE /\ op'.retained = {}
        BY <1>1, <2>1, DeleteFacts, OutcomeIs
    <2>3. dir'[Stashed(op.it)] = 0
        BY <1>1, <2>1, DeleteFacts
    <2> QED
        BY <1>1, <1>2, <2>1, <2>2, <2>3, DeleteNames
<1> QED
    BY <1>3, <1>4

LEMMA VerifyMovedNames ==
    ASSUME IndNames, VerifyMoved
    PROVE  /\ IndNames' /\ op \in OpDelete /\ op.pc = "moved" /\ op'.it = op.it
           /\ \/ op'.pc = "return"
              \/ op'.pc = "record" /\ op'.retained = {Keeps(Stashed(op.it), op.it.expect)}
<1>1. op \in OpDelete /\ op.pc = "moved" /\ op.pc # "hold"
    BY StoreFacts, OpShapes DEF VerifyMoved
<1>2. data' = data /\ dir' = dir /\ UNCHANGED <<store, user>>
    BY DEF VerifyMoved
<1>3. CASE At(Stashed(op.it)) = op.it.expect
    <2> DEFINE rows == {Keeps(Stashed(op.it), op.it.expect)}
    <2>1. Outcome(TRUE, rows, {})
        BY <1>3 DEF VerifyMoved
    <2>2. rows \in SUBSET Rows /\ NamesOf(rows) = {Stashed(op.it)}
        BY <1>1, DeleteFacts, RowsIs
    <2> HIDE DEF rows
    <2>3. /\ op' \in Publishers /\ op' \in Ops /\ op'.it = op.it /\ Holding(op') = {Stashed(op.it)}
          /\ op'.pc = "record" /\ op'.retained = rows
        <3> DEFINE none == {}
        <3>1. none \in SUBSET Private /\ op.it \in Intents /\ Outcome(TRUE, rows, none)
            BY <1>1, <2>1, DeleteFacts
        <3> HIDE DEF none
        <3>2. /\ op' \in Publishers /\ op' \in Ops /\ op'.it = op.it /\ op'.pc = "record"
              /\ op'.retained = rows /\ Holding(op') = NamesOf(rows) \cup none
            BY <2>2, <3>1, OutcomeIs
        <3> QED
            BY <2>2, <3>2 DEF none
    <2> QED
        BY <1>1, <1>2, <2>3, DeleteNames DEF rows
<1>4. CASE At(Stashed(op.it)) # op.it.expect
    <2>1. op' = [op EXCEPT !.pc = "return"]
        BY <1>4 DEF VerifyMoved
    <2>2. op' \in OpDelete /\ op'.it = op.it /\ op'.pc = "return"
        BY <1>1, <2>1 DEF OpDelete
    <2>3. op' \in Publishers /\ op' \in Ops /\ Holding(op') = {Stashed(op.it)}
        BY <2>2, OpIs, HoldingIs DEF Publishers
    <2> QED
        BY <1>1, <1>2, <2>2, <2>3, DeleteNames
<1> QED
    BY <1>3, <1>4

LEMMA MoveBackNames ==
    ASSUME IndNames, MoveBack
    PROVE  /\ IndNames' /\ op \in OpDelete /\ op.pc = "return" /\ op'.it = op.it
           /\ \/ op'.pc = "hold"
              \/ op'.pc = "record" /\ op'.published = FALSE /\ op'.retained = {}
<1>1. op \in OpDelete /\ op.pc = "return" /\ op.pc # "hold"
    BY StoreFacts, OpShapes DEF MoveBack
<1>2. data' = data /\ UNCHANGED <<store, user>>
    BY DEF MoveBack
<1>3. CASE Exists(Path)
    <2>1. dir' = dir /\ op' = [op EXCEPT !.pc = "hold"]
        BY <1>3 DEF MoveBack
    <2>2. op' \in OpDelete /\ op'.it = op.it /\ op'.pc = "hold"
        BY <1>1, <2>1 DEF OpDelete
    <2>3. op' \in Publishers /\ op' \in Ops /\ Holding(op') = {Stashed(op.it)}
        <3>1. From(op.it) = Stashed(op.it)
            BY <1>1, DeleteFacts, IntentKinds
        <3> QED
            BY <2>2, <3>1, OpIs, HoldingIs DEF Publishers
    <2> QED
        BY <1>1, <1>2, <2>1, <2>2, <2>3, DeleteNames
<1>4. CASE ~Exists(Path)
    <2>1. dir' = Renamed(Stashed(op.it), Path) /\ Outcome(FALSE, {}, {})
        BY <1>4 DEF MoveBack
    <2>2. /\ op' \in Publishers /\ op' \in Ops /\ op'.it = op.it
          /\ op'.pc = "record" /\ op'.published = FALSE /\ op'.retained = {}
        BY <1>1, <2>1, DeleteFacts, OutcomeIs
    <2>3. dir'[Stashed(op.it)] = 0
        BY <1>1, <2>1, DeleteFacts, StoreFacts, RenamedDir
    <2> QED
        BY <1>1, <1>2, <2>1, <2>2, <2>3, DeleteNames
<1> QED
    BY <1>3, <1>4

-----------------------------------------------------------------------------
(***************************************************************************)
(* The steps that are not a step of a publish.                             *)
(***************************************************************************)
Metas == [ino : Nat, bytes : ByteSet]

LEMMA Reads ==
    ASSUME IndNames
    PROVE  /\ \A name \in Names : /\ At(name) \in ByteSet /\ dir[name] \in 0..Len(data)
                                  /\ Meta(name) \in Metas
                                  /\ [rev |-> At(name), of |-> Meta(name)] \in KnownSet
           /\ Seen \in KnownSet /\ NoFile \in KnownSet
           /\ \A new \in NewBytes : Recorded(new) \in KnownSet
<1>1. /\ data \in Seq(ByteSet) /\ dir \in [Names -> 0..Len(data)] /\ Len(data) \in Nat
    BY DEF IndNames, StoreTypeOK
<1>2. ASSUME NEW name \in Names
      PROVE  At(name) \in ByteSet /\ dir[name] \in 0..Len(data) /\ dir[name] \in Nat
    <2>1. dir[name] \in 0..Len(data)
        BY <1>1
    <2>2. CASE dir[name] = 0
        BY <2>1, <2>2, Kinds DEF At, Exists
    <2>3. CASE dir[name] # 0
        <3>1. dir[name] \in 1..Len(data)
            BY <1>1, <2>1, <2>3
        <3>2. data[dir[name]] \in ByteSet
            BY <1>1, <3>1, ElementOfSeq
        <3> QED
            BY <2>1, <2>3, <3>2, <1>1 DEF At, Exists
    <2> QED
        BY <2>2, <2>3
<1>3. ASSUME NEW name \in Names
      PROVE  Meta(name) \in Metas /\ [rev |-> At(name), of |-> Meta(name)] \in KnownSet
    BY <1>2 DEF Meta, Metas, KnownSet
<1>4. NoMeta \in Metas
    BY Kinds DEF NoMeta, Metas
<1>5. NoFile \in KnownSet
    BY <1>4, Kinds DEF NoFile, KnownSet, Metas
<1>6. Seen \in KnownSet
    BY <1>3, NameFacts DEF Seen
<1>7. ASSUME NEW new \in NewBytes
      PROVE  Recorded(new) \in KnownSet
    <2>1. Meta(Path) \in Metas
        BY <1>3, NameFacts
    <2>2. new \in ByteSet
        BY Kinds
    <2> DEFINE of == IF SizeOf(At(Path)) = SizeOf(new) THEN Meta(Path) ELSE NoMeta
    <2>3. of \in Metas
        BY <1>4, <2>1
    <2>4. Recorded(new) = NoFile \/ Recorded(new) = [rev |-> new, of |-> of]
        BY DEF Recorded
    <2> HIDE DEF of
    <2>5. [rev |-> new, of |-> of] \in KnownSet
        BY <2>2, <2>3 DEF KnownSet, Metas
    <2> QED
        BY <1>5, <2>4, <2>5
<1> QED
    BY <1>2, <1>3, <1>5, <1>6, <1>7

\* A step that makes no private file and journals no intent keeps the names.
LEMMA FewerNames ==
    ASSUME IndNames, NEW n \in Nat, Directory(dir', n),
           \A name \in Private : dir'[name] = dir[name] \/ dir'[name] = 0,
           db' \in Databases, db'.intents \subseteq db.intents, db'.next = db.next
    PROVE  NamesOK'
<1>1. NamesOK /\ db.intents \subseteq Intents
    BY DEF IndNames, StoreTypeOK, Databases
<1>2. \A it \in Intents : Tmp(it) \in Private
    BY NameFacts
<1>3. Injective(dir')
    BY DEF Directory
<1>4. \A name \in Private : dir'[name] # 0 => name[2] < db'.next
    BY <1>1 DEF NamesOK
<1>5. /\ \A it \in db'.intents : it.n < db'.next
      /\ \A x, y \in db'.intents : x.n = y.n => x = y
    BY <1>1 DEF NamesOK
<1>6. \A it \in db'.intents : it.new = None => dir'[Tmp(it)] = 0
    BY <1>1, <1>2 DEF NamesOK
<1> QED
    BY <1>3, <1>4, <1>5, <1>6 DEF NamesOK, Tmp, Injective

LEMMA QuietFits ==
    ASSUME op' \in Ops, op'.pc \in {"idle", "closed", "ack", "release"}
    PROVE  OpFits'
<1>1. "it" \notin DOMAIN op'
    BY OpFields
<1> QED
    BY <1>1 DEF OpFits

LEMMA SameFits ==
    ASSUME IndNames, op' = op, db' = db, \A name \in Private : dir'[name] = dir[name]
    PROVE  OpFits'
<1>1. op.pc = "drop" => op.name \in Private
    BY StoreFacts, OpShapes DEF OpDrop
<1>2. OpFits
    BY DEF IndNames
<1>3. Holding(op)' = Holding(op) /\ Found(op)' = Found(op)
    BY DEF Holding, Found, Mover, NamesOf, From, Stashed, Tmp
<1>4. /\ \A n : Only(n, Holding(op))' <=> Only(n, Holding(op))
      /\ \A n : Only(n, Found(op))' <=> Only(n, Found(op))
    BY <1>3 DEF Only
<1> QED
    BY <1>1, <1>2, <1>4 DEF OpFits, CoveredIn, NamesOf

\* What a name is covered by.
LEMMA CoveredIs ==
    \A name : Covered(name) <=> CoveredIn(db, name)
BY DEF Covered, CoveredIn, NamesOf

LEMMA RecordNames ==
    ASSUME IndNames, Record
    PROVE  IndNames' /\ op \in OpRecord /\ op.it \in db.intents /\ op.it \in Intents
<1> DEFINE it == op.it
           known == IF op.published THEN Recorded(it.new) ELSE db.known
<1>1. op \in OpRecord /\ op.pc = "record" /\ op \in Publishers
    BY StoreFacts, OpShapes DEF Record, Publishers
<1>2. it \in db.intents /\ it \in Intents /\ it.new \in NewBytes /\ NamesOK /\ NoOrphans
    BY <1>1, PublishFacts, IntentKinds DEF IndNames
<1>3. \A name \in Private : dir[name] # 0 /\ name[2] = it.n => name \in NamesOf(op.retained) \cup op.preserved
    BY <1>1, PublishFacts, HoldingIs
<1>4. op.retained \in SUBSET Rows /\ op.preserved \in SUBSET Private
    BY <1>1 DEF OpRecord
<1>5. db \in Databases /\ known \in KnownSet
    BY <1>2, StoreFacts, Reads DEF Databases
<1>6. db' = [db EXCEPT !.known = known, !.retained = db.retained \cup op.retained,
                       !.evidence = db.evidence \cup op.preserved, !.intents = db.intents \ {it}]
    BY DEF Record
<1>7. op' = Idle /\ dir' = dir /\ data' = data /\ captured' = captured /\ out' = out /\ UNCHANGED user
    BY DEF Record
<1> HIDE DEF known, it
<1>8. /\ db' \in Databases /\ db'.intents = db.intents \ {it} /\ db'.next = db.next
      /\ db'.retained = db.retained \cup op.retained /\ db'.evidence = db.evidence \cup op.preserved
    BY <1>4, <1>5, <1>6 DEF Databases
<1>9. StoreTypeOK'
    BY <1>7, <1>8, OpIs DEF IndNames, StoreTypeOK, user
<1>10. NamesOK'
    BY <1>7, <1>8, StoreFacts, FewerNames
<1>11. OpFits'
    BY <1>7, OpIs, OpFields, QuietFits
<1>12. NoOrphans'
    <2> SUFFICES ASSUME NEW name \in Private, dir[name] # 0
                 PROVE  CoveredIn(db', name)
        BY <1>7, CoveredIs DEF NoOrphans, Exists, Covered, CoveredIn, NamesOf
    <2>1. CASE name[2] = it.n
        BY <1>3, <1>8, <2>1 DEF CoveredIn, NamesOf, it
    <2>2. CASE name[2] # it.n
        <3>1. CoveredIn(db, name)
            BY <1>2, CoveredIs DEF NoOrphans, Exists
        <3> QED
            BY <1>8, <2>2, <3>1 DEF CoveredIn, NamesOf
    <2> QED
        BY <2>1, <2>2
<1> QED
    BY <1>1, <1>2, <1>9, <1>10, <1>11, <1>12 DEF IndNames, it

\* A file cut short belongs to the publish that wrote it.
LEMMA CutShort ==
    ASSUME IndNames, WriteCutShort
    PROVE  \/ dir' = dir /\ data' = data
           \/ /\ op \in OpWrite /\ op \in Publishers /\ op.it \in Creates \cup Replaces
              /\ op.it \in db.intents /\ op.it \in Intents
              /\ data' = NewFile(Torn) /\ dir' = LinkedAs(Tmp(op.it), Len(data))
              /\ data' \in Seq(ByteSet) /\ Len(data') = Len(data) + 1 /\ Directory(dir', Len(data'))
              /\ \A name \in Private : name[2] # op.it.n => dir'[name] = dir[name]
<1>1. ASSUME op.pc = "write", data' = NewFile(Torn), dir' = [dir EXCEPT ![Tmp(op.it)] = Len(data')]
      PROVE  /\ op \in OpWrite /\ op \in Publishers /\ op.it \in Creates \cup Replaces
             /\ op.it \in db.intents /\ op.it \in Intents
             /\ data' = NewFile(Torn) /\ dir' = LinkedAs(Tmp(op.it), Len(data))
             /\ data' \in Seq(ByteSet) /\ Len(data') = Len(data) + 1 /\ Directory(dir', Len(data'))
             /\ \A name \in Private : name[2] # op.it.n => dir'[name] = dir[name]
    <2>1. op \in OpWrite /\ op \in Publishers
        BY <1>1, StoreFacts, OpShapes DEF Publishers
    <2>2. op.it \in Creates \cup Replaces /\ op.it \in db.intents /\ op.it \in Intents
        BY <2>1, PublishFacts DEF OpWrite
    <2>3. data' \in Seq(ByteSet) /\ Len(data') = Len(data) + 1 /\ Len(data) \in Nat
        BY <1>1, StoreFacts, NewFileData, Kinds
    <2>4. dir' = LinkedAs(Tmp(op.it), Len(data))
        BY <1>1, <2>3 DEF LinkedAs
    <2> DEFINE a == Tmp(op.it)
               n == Len(data)
    <2>5. a \in Names /\ a \in Private /\ a[2] = op.it.n /\ n \in Nat /\ Directory(dir, n)
        BY <2>2, StoreFacts, NameFacts
    <2>6. Directory(LinkedAs(a, n), n + 1) /\ \A c \in Names : c # a => LinkedAs(a, n)[c] = dir[c]
        <3> HIDE DEF a, n
        <3> QED
            BY <2>5, LinkedDir
    <2>7. Directory(dir', Len(data')) /\ \A name \in Private : name[2] # op.it.n => dir'[name] = dir[name]
        BY <2>3, <2>4, <2>5, <2>6, NameFacts
    <2> QED
        BY <1>1, <2>1, <2>2, <2>3, <2>4, <2>7
<1> QED
    BY <1>1 DEF WriteCutShort

\* A publish is given up, or the process ends, after a step of the disk.
LEMMA EndNames ==
    ASSUME IndNames, op' \in {Idle, Closed}, db' = db, out' \subseteq out,
           fd' = fd, captured' = captured, owed' = owed,
           count' \in [save : Nat, delete : Nat, fault : Nat],
           \/ WriteCutShort
           \/ op \in Publishers /\ dir' = Removed(Tmp(op.it)) /\ data' = data
    PROVE  IndNames'
<1>1. op' \in Ops /\ OpFits'
    BY OpIs, OpFields, QuietFits
<1>2. CASE dir' = dir /\ data' = data
    <2>1. StoreTypeOK'
        BY <1>1, <1>2 DEF IndNames, StoreTypeOK
    <2>2. NamesOK'
        BY <1>2, StoreFacts, FewerNames
    <2>3. NoOrphans'
        BY <1>2 DEF IndNames, NoOrphans, Exists, Covered
    <2> QED
        BY <1>1, <2>1, <2>2, <2>3 DEF IndNames
<1>3. CASE op \in Publishers /\ dir' = Removed(Tmp(op.it)) /\ data' = data
    <2> DEFINE it == op.it
    <2>1. it \in db.intents /\ it \in Intents
        BY <1>3, PublishFacts
    <2>2. Tmp(it) \in Private /\ Tmp(it) \in Names /\ Tmp(it)[2] = it.n
        BY <2>1, NameFacts
    <2>3. Directory(dir', Len(data)) /\ dir'[Tmp(it)] = 0 /\ \A name \in Private : name[2] # it.n => dir'[name] = dir[name]
        BY <1>3, <2>2, StoreFacts, RemovedDir, NameFacts
    <2>4. Len(data) <= Len(data') /\ data' \in Seq(ByteSet) /\ Directory(dir', Len(data'))
        BY <1>3, <2>3, StoreFacts
    <2> HIDE DEF it
    <2> QED
        BY <1>1, <2>1, <2>3, <2>4, PublishNames
<1>4. CASE /\ op \in OpWrite /\ op \in Publishers /\ op.it \in Creates \cup Replaces
           /\ op.it \in db.intents /\ op.it \in Intents
           /\ data' \in Seq(ByteSet) /\ Len(data') = Len(data) + 1 /\ Directory(dir', Len(data'))
           /\ \A name \in Private : name[2] # op.it.n => dir'[name] = dir[name]
    <2>1. op.it.new # None /\ Len(data) <= Len(data')
        BY <1>4, IntentKinds, StoreFacts
    <2> QED
        BY <1>1, <1>4, <2>1, PublishNames
<1> QED
    BY <1>2, <1>3, <1>4, CutShort

LEMMA FailNames ==
    ASSUME IndNames, Fail
    PROVE  IndNames'
<1>1. op \in Publishers
    BY StoreFacts, OpFields DEF Fail, Publishing
<1>2. count' \in [save : Nat, delete : Nat, fault : Nat]
    BY StoreFacts DEF Fail
<1>3. /\ db' = db /\ out' = out /\ fd' = fd /\ captured' = captured /\ owed' = owed /\ op' = Idle
      /\ WriteCutShort \/ (dir' = Removed(Tmp(op.it)) /\ data' = data)
    BY DEF Fail, store
<1> QED
    BY <1>1, <1>2, <1>3, EndNames

LEMMA CrashNames ==
    ASSUME IndNames, Crash
    PROVE  IndNames'
<1>1. count' \in [save : Nat, delete : Nat, fault : Nat]
    BY StoreFacts DEF Crash
<1>2. /\ db' = db /\ out' \subseteq out /\ fd' = fd /\ captured' = captured /\ owed' = owed /\ op' = Closed
      /\ WriteCutShort
    BY DEF Crash
<1> QED
    BY <1>1, <1>2, EndNames

LEMMA PublishStart ==
    ASSUME IndNames, NEW expect \in ByteSet, NEW new \in NewBytes, Publish(expect, new)
    PROVE  /\ IndNames' /\ op'.it = [n |-> db.next, expect |-> expect, new |-> new]
           /\ op'.it \in Intents /\ op'.pc \in {"write", "aside"}
           /\ db'.intents = db.intents \cup {op'.it} /\ db'.known = db.known
           /\ db'.retained = db.retained /\ op = Idle
           /\ \A name \in Private : name[2] = db.next => dir[name] = 0
<1> DEFINE it == [n |-> db.next, expect |-> expect, new |-> new]
<1>1. db \in Databases /\ db.next \in Nat \ {0} /\ db.intents \subseteq Intents /\ NamesOK /\ NoOrphans /\ StoreTypeOK
    BY StoreFacts DEF Databases, IndNames
<1>2. db.next \in 1..MaxPublishes
    BY <1>1, FileStoreAssumption DEF Publish
<1>3. it \in Intents /\ (new = None => it \in Deletes) /\ (new # None => it \in Creates \cup Replaces)
    BY <1>2 DEF Intents, Deletes, Creates, Replaces
<1>4. it.n = db.next /\ it.new = new
    OBVIOUS
<1>5. /\ db' = [db EXCEPT !.intents = db.intents \cup {it}, !.next = db.next + 1]
      /\ op' = [pc |-> IF new = None THEN "aside" ELSE "write", it |-> it]
      /\ dir' = dir /\ data' = data /\ captured' = captured /\ out' = out /\ UNCHANGED user /\ op = Idle
    BY DEF Publish
<1> HIDE DEF it
<1>6. /\ db' \in Databases /\ db'.intents = db.intents \cup {it} /\ db'.next = db.next + 1
      /\ db'.known = db.known /\ db'.retained = db.retained /\ db'.evidence = db.evidence
    <2> DEFINE journal == db.intents \cup {it}
               next == db.next + 1
    <2>1. journal \in SUBSET Intents /\ next \in Nat \ {0}
        BY <1>1, <1>3
    <2>2. db' = [db EXCEPT !.intents = journal, !.next = next]
        BY <1>5
    <2> HIDE DEF journal, next
    <2>3. /\ db' \in Databases /\ db'.intents = journal /\ db'.next = next
          /\ db'.known = db.known /\ db'.retained = db.retained /\ db'.evidence = db.evidence
        BY <1>1, <2>1, <2>2 DEF Databases
    <2> QED
        BY <2>3 DEF journal, next
<1>7. op' \in OpWrite \cup OpDelete /\ op'.it = it /\ op'.pc \in {"write", "aside"}
    BY <1>3, <1>5 DEF OpWrite, OpDelete
<1>8. op' \in Ops /\ op' \in Publishers
    BY <1>7, OpIs DEF Publishers
<1>9. StoreTypeOK'
    BY <1>1, <1>5, <1>6, <1>8 DEF StoreTypeOK, user
<1>10. \A name \in Private : name[2] = db.next => dir[name] = 0
    BY <1>1 DEF NamesOK
<1>11. NamesOK'
    <2>1. \A name \in Private : dir[name] # 0 => name[2] < db.next + 1
        <3>1. \A name \in Private : name[2] \in Nat
            BY DEF Private
        <3> QED
            BY <1>1, <3>1 DEF NamesOK
    <2>2. \A x \in db.intents : x.n < db.next /\ x.n \in Nat
        BY <1>1, IntentKinds DEF NamesOK
    <2>3. \A x \in db'.intents : x.n < db'.next
        BY <1>1, <1>4, <1>6, <2>2
    <2>4. \A x, y \in db'.intents : x.n = y.n => x = y
        BY <1>1, <1>4, <1>6, <2>2 DEF NamesOK
    <2>5. \A x \in db'.intents : x.new = None => dir[Tmp(x)] = 0
        <3>1. Tmp(it) \in Private /\ Tmp(it)[2] = db.next
            BY <1>3, <1>4, NameFacts
        <3> QED
            BY <1>1, <1>6, <1>10, <3>1 DEF NamesOK
    <2> QED
        BY <1>1, <1>5, <1>6, <2>1, <2>3, <2>4, <2>5 DEF NamesOK, Injective, Tmp
<1>12. OpFits'
    <2>1. op'.pc \notin {"look", "resolve", "drop"} /\ op'.it \in db'.intents
        BY <1>6, <1>7
    <2>2. Only(op.it.n, Holding(op))'
        BY <1>4, <1>5, <1>7, <1>10 DEF Only
    <2> QED
        BY <2>1, <2>2 DEF OpFits
<1>13. NoOrphans'
    BY <1>1, <1>5, <1>6 DEF NoOrphans, Exists, Covered
<1> QED
    BY <1>3, <1>5, <1>6, <1>7, <1>9, <1>10, <1>11, <1>12, <1>13 DEF IndNames, it

LEMMA OpenNames ==
    ASSUME IndNames, Open
    PROVE  IndNames'
<1>1. /\ op' = [pc |-> "look", db |-> db, todo |-> db.intents]
      /\ dir' = dir /\ data' = data /\ UNCHANGED <<store, user>>
    BY DEF Open
<1>2. db \in Databases /\ db.intents \subseteq Intents
    BY StoreFacts
<1>3. op' \in OpLook /\ op'.pc = "look" /\ op'.db = db /\ op'.todo = db.intents
    BY <1>1, <1>2 DEF OpLook
<1>4. op' \in Ops /\ "it" \notin DOMAIN op'
    BY <1>3, OpIs, OpFields
<1>5. StoreTypeOK'
    BY <1>1, <1>4 DEF IndNames, StoreTypeOK, store, user
<1>6. NamesOK'
    BY <1>1, StoreFacts, FewerNames DEF store
<1>7. NoOrphans'
    BY <1>1 DEF IndNames, NoOrphans, Exists, Covered, store
<1>8. OpFits'
    <2>1. \A name \in Private : dir'[name] # 0 => CoveredIn(op'.db, name)
        BY <1>1, <1>3, CoveredIs DEF IndNames, NoOrphans, Exists
    <2> QED
        BY <1>1, <1>3, <1>4, <2>1 DEF OpFits, CoveredIn, NamesOf, store
<1> QED
    BY <1>5, <1>6, <1>7, <1>8 DEF IndNames

LEMMA RecoveredNames ==
    ASSUME IndNames, Recovered
    PROVE  IndNames' /\ op \in OpLook /\ op.pc = "look" /\ db' = op.db
<1>1. /\ op' = Idle /\ db' = op.db /\ op.pc = "look"
      /\ dir' = dir /\ data' = data /\ captured' = captured /\ out' = out /\ UNCHANGED user
    BY DEF Recovered
<1>2. op \in OpLook /\ op.db \in Databases
    BY <1>1, StoreFacts, OpShapes DEF OpLook
<1>3. /\ op.db.next = db.next /\ op.db.intents \subseteq db.intents
      /\ \A name \in Private : dir[name] # 0 => CoveredIn(op.db, name)
    BY <1>1 DEF IndNames, OpFits
<1>4. StoreTypeOK'
    BY <1>1, <1>2, OpIs DEF IndNames, StoreTypeOK, user
<1>5. NamesOK'
    BY <1>1, <1>2, <1>3, StoreFacts, FewerNames
<1>6. OpFits'
    BY <1>1, OpIs, OpFields, QuietFits
<1>7. NoOrphans'
    BY <1>1, <1>3 DEF NoOrphans, Exists, Covered, CoveredIn, NamesOf
<1> QED
    BY <1>1, <1>2, <1>4, <1>5, <1>6, <1>7 DEF IndNames

\* What recovery finds for an intent, and the private files among it.
FoundFor(it) == IF it.new = None THEN FoundDelete(it) ELSE FoundWrite(it)
MoverOf(it, act) == IF act = "exchange" THEN Tmp(it) ELSE Stashed(it)
FoundNames(it, f) ==
    NamesOf(f.retained) \cup f.preserved \cup (IF f.act = "none" THEN {} ELSE {MoverOf(it, f.act)})

LEMMA KeptIs ==
    ASSUME IndNames
    PROVE  /\ \A names \in SUBSET Private :
                  Kept(names) \in SUBSET Rows /\ NamesOf(Kept(names)) = names
           /\ \A name \in Private : Left(name) \in SUBSET Private
           /\ \A name \in Private : dir[name] # 0 <=> name \in Left(name)
<1>1. ASSUME NEW names \in SUBSET Private
      PROVE  Kept(names) \in SUBSET Rows
    <2>1. \A a \in names : a \in Private /\ At(a) \in ByteSet
        BY Reads, NameFacts
    <2> QED
        BY <2>1 DEF Kept, Keeps, Rows
<1>2. ASSUME NEW names \in SUBSET Private
      PROVE  NamesOf(Kept(names)) = names
    <2>1. \A a \in names : Keeps(a, At(a)) \in Kept(names) /\ Keeps(a, At(a)).name = a
        BY DEF Kept, Keeps
    <2>2. \A r \in Kept(names) : r.name \in names
        BY DEF Kept, Keeps
    <2> QED
        BY <2>1, <2>2 DEF NamesOf
<1> QED
    BY <1>1, <1>2 DEF Left, Exists

LEMMA FoundDeleteIs ==
    ASSUME IndNames, NEW it \in db.intents, it.new = None
    PROVE  /\ FoundDelete(it) \in Findings /\ FoundDelete(it).act \in {"none", "return"}
           /\ Only(it.n, FoundNames(it, FoundDelete(it)))
<1> DEFINE f == FoundDelete(it)
           ours == At(Stashed(it)) = it.expect
           back == Exists(Stashed(it)) /\ ~ours /\ ~Exists(Path)
           retained == IF ours THEN Kept(Left(Stashed(it))) ELSE {}
           preserved == Left(Held(it)) \cup (IF ours \/ back THEN {} ELSE Left(Stashed(it)))
           act == IF back THEN "return" ELSE "none"
           state == IF ~Exists(Stashed(it)) THEN Judge(it)
                    ELSE IF ours /\ ~Exists(Path) THEN "published" ELSE "drifted"
<1>1. it \in Intents /\ dir[Tmp(it)] = 0
    BY StoreFacts DEF IndNames, NamesOK
<1>2. Stashed(it) \in Private /\ Held(it) \in Private
    BY <1>1, NameFacts
<1>3. f = [state |-> state, act |-> act, retained |-> retained, preserved |-> preserved]
    BY DEF FoundDelete
<1>4. state \in {"published", "not published", "drifted"} /\ act \in {"none", "return"}
    BY DEF Judge
<1>5. retained \in SUBSET Rows /\ preserved \in SUBSET Private
    BY <1>2, KeptIs
<1>6. ours => NamesOf(retained) = Left(Stashed(it))
    BY <1>2, KeptIs
<1>7. back <=> act = "return"
    OBVIOUS
<1>8. dir[Held(it)] # 0 => Held(it) \in preserved
    BY <1>2, KeptIs
<1>9. dir[Stashed(it)] # 0 => Stashed(it) \in Left(Stashed(it))
    BY <1>2, KeptIs
<1>10. dir[Stashed(it)] # 0 => Stashed(it) \in NamesOf(retained) \cup preserved \/ act = "return"
    BY <1>6, <1>9
<1>11. \A name \in Private : dir[name] # 0 /\ name[2] = it.n => name \in {Stashed(it), Held(it)}
    BY <1>1, NameFacts
<1> HIDE DEF state, act, retained, preserved, f
<1>12. f \in Findings /\ f.act = act /\ f.retained = retained /\ f.preserved = preserved
    BY <1>3, <1>4, <1>5 DEF Findings
<1>13. \A name \in Private : dir[name] # 0 /\ name[2] = it.n => name \in FoundNames(it, f)
    BY <1>4, <1>8, <1>10, <1>11, <1>12 DEF FoundNames, MoverOf
<1> QED
    BY <1>4, <1>12, <1>13 DEF Only, f

LEMMA FoundWriteIs ==
    ASSUME IndNames, NEW it \in db.intents, it.new # None
    PROVE  /\ FoundWrite(it) \in Findings /\ FoundWrite(it).act \in {"none", "exchange"}
           /\ FoundWrite(it).act = "exchange" => it \in Replaces
           /\ Only(it.n, FoundNames(it, FoundWrite(it)))
<1> DEFINE f == FoundWrite(it)
           ours == {a \in Left(Stashed(it)) : At(a) \in {it.expect, it.new}}
                       \cup {a \in Left(Tmp(it)) : At(a) \in {it.expect, it.new} \/ it.expect = None}
           theirs == (Left(Stashed(it)) \cup Left(Tmp(it))) \ ours
           back == Tmp(it) \in theirs /\ At(Path) = it.new
           preserved == Left(Held(it)) \cup (IF back THEN theirs \ {Tmp(it)} ELSE theirs)
           act == IF back THEN "exchange" ELSE "none"
           state == IF Exists(Tmp(it)) /\ At(Tmp(it)) # it.new /\ it.expect # None
                    THEN IF Tmp(it) \in ours /\ At(Path) = it.new THEN "published" ELSE "drifted"
                    ELSE Judge(it)
<1>1. it \in Intents
    BY StoreFacts
<1>2. /\ Stashed(it) \in Private /\ Held(it) \in Private /\ Tmp(it) \in Private
      /\ Tmp(it) # Stashed(it)
    BY <1>1, NameFacts
<1>3. f = [state |-> state, act |-> act, retained |-> Kept(ours), preserved |-> preserved]
    BY DEF FoundWrite
<1>4. state \in {"published", "not published", "drifted"} /\ act \in {"none", "exchange"}
    BY DEF Judge
<1>5. ours \in SUBSET Private /\ theirs \in SUBSET Private /\ Left(Held(it)) \in SUBSET Private
    BY <1>2, KeptIs
<1>6. preserved \in SUBSET Private
    BY <1>5
<1>7. Kept(ours) \in SUBSET Rows /\ NamesOf(Kept(ours)) = ours
    <2> HIDE DEF ours
    <2> QED
        BY <1>5, KeptIs
<1>8. back <=> act = "exchange"
    OBVIOUS
<1>9. back => it.expect # None
    BY DEF Left
<1>10. dir[Held(it)] # 0 => Held(it) \in preserved
    BY <1>2, KeptIs
<1>11. dir[Stashed(it)] # 0 => Stashed(it) \in ours \cup preserved
    BY <1>2, KeptIs
<1>12. dir[Tmp(it)] # 0 => Tmp(it) \in ours \cup preserved \/ act = "exchange"
    BY <1>2, KeptIs
<1>13. \A name \in Private : dir[name] # 0 /\ name[2] = it.n => name \in {Tmp(it), Stashed(it), Held(it)}
    BY <1>1, NameFacts
<1>14. act = "exchange" => it \in Replaces
    BY <1>1, <1>8, <1>9 DEF Replaces
<1> HIDE DEF state, act, ours, preserved, f
<1>15. f \in Findings /\ f.act = act /\ f.retained = Kept(ours) /\ f.preserved = preserved
    BY <1>3, <1>4, <1>6, <1>7 DEF Findings
<1>16. \A name \in Private : dir[name] # 0 /\ name[2] = it.n => name \in FoundNames(it, f)
    BY <1>4, <1>7, <1>10, <1>11, <1>12, <1>13, <1>15 DEF FoundNames, MoverOf
<1> QED
    BY <1>4, <1>14, <1>15, <1>16 DEF Only, f

LEMMA LookNames ==
    ASSUME IndNames, Look
    PROVE  /\ IndNames' /\ op \in OpLook /\ op'.pc = "resolve" /\ op'.db = op.db
           /\ op'.next \in db.intents /\ op'.next \in Intents /\ op'.found = FoundFor(op'.next)
<1>1. op \in OpLook /\ op.pc = "look"
    BY StoreFacts, OpShapes DEF Look
<1>2. PICK it \in op.todo :
          op' = [pc |-> "resolve", db |-> op.db, todo |-> op.todo \ {it}, next |-> it,
                 found |-> FoundFor(it)]
    BY DEF Look, FoundFor
<1>3. dir' = dir /\ data' = data /\ UNCHANGED <<store, user>>
    BY DEF Look
<1>4. /\ op.db.next = db.next /\ op.db.intents \subseteq db.intents /\ op.todo \subseteq db.intents
      /\ \A name \in Private : dir[name] # 0 => CoveredIn(op.db, name)
    BY <1>1 DEF IndNames, OpFits
<1>5. it \in db.intents /\ it \in Intents /\ op.db \in Databases /\ op.todo \in SUBSET Intents
    BY <1>1, <1>4, StoreFacts DEF OpLook
<1>6. /\ FoundFor(it) \in Findings
      /\ FoundFor(it).act = "exchange" => it \in Replaces
      /\ Only(it.n, FoundNames(it, FoundFor(it)))
    <2>1. CASE it.new = None
        BY <1>5, <2>1, FoundDeleteIs DEF FoundFor
    <2>2. CASE it.new # None
        BY <1>5, <2>2, FoundWriteIs DEF FoundFor
    <2> QED
        BY <2>1, <2>2
<1> DEFINE todo == op.todo \ {it}
<1>7. todo \in SUBSET Intents /\ todo \subseteq db.intents
    BY <1>4, <1>5
<1>8. /\ op' \in OpResolve /\ op'.db = op.db /\ op'.todo = todo /\ op'.next = it
      /\ op'.found = FoundFor(it) /\ op'.pc = "resolve"
    <2> DEFINE f == FoundFor(it)
    <2>1. f \in Findings /\ op' = [pc |-> "resolve", db |-> op.db, todo |-> todo, next |-> it, found |-> f]
        BY <1>2, <1>6
    <2> HIDE DEF f, todo
    <2> QED
        BY <1>5, <1>7, <2>1 DEF OpResolve, f
<1> HIDE DEF todo
<1>9. op' \in Ops /\ "it" \notin DOMAIN op'
    BY <1>8, OpIs, OpFields
<1>10. StoreTypeOK'
    BY <1>3, <1>9 DEF IndNames, StoreTypeOK, store, user
<1>11. NamesOK'
    BY <1>3, StoreFacts, FewerNames DEF store
<1>12. NoOrphans'
    BY <1>3 DEF IndNames, NoOrphans, Exists, Covered, store
<1>13. OpFits'
    <2>1. db' = db
        BY <1>3 DEF store
    <2>2. \A name \in Private : dir'[name] # 0 => CoveredIn(op'.db, name)
        BY <1>3, <1>4, <1>8
    <2>3. Only(op.next.n, Found(op))'
        <3>1. Found(op)' = FoundNames(it, FoundFor(it))
            BY <1>8 DEF Found, FoundNames, Mover, MoverOf, NamesOf, Tmp, Stashed
        <3> QED
            BY <1>3, <1>6, <1>8, <3>1 DEF Only
    <2> QED
        BY <1>4, <1>5, <1>6, <1>7, <1>8, <1>9, <2>1, <2>2, <2>3 DEF OpFits, CoveredIn, NamesOf
<1> QED
    BY <1>1, <1>5, <1>8, <1>10, <1>11, <1>12, <1>13 DEF IndNames

LEMMA ResolveNames ==
    ASSUME IndNames, Resolve
    PROVE  /\ IndNames' /\ op \in OpResolve /\ op.pc = "resolve" /\ op'.pc = "look"
           /\ op.next \in db.intents /\ op.next \in Intents
           /\ op'.db.known = IF op.found.state = "published" THEN Recorded(op.next.new)
                             ELSE op.db.known
           /\ op.found.act = "exchange" => op.next \in Replaces
           /\ \/ op'.db.retained = op.db.retained \cup op.found.retained
              \/ op'.db.retained = op.db.retained \cup op.found.retained
                                       \cup {Keeps(Mover(op), op.next.new)}
           /\ Mover(op) \in Private
           /\ dir' = dir \/ dir' = Exchanged(Mover(op), Path)
           /\ op' \in Ops
<1> DEFINE it == op.next
           f == op.found
           tmp == Mover(op)
           done == f.act # "none" /\ Exists(Path) = (f.act = "exchange")
           kept == IF done /\ f.act = "exchange" THEN {Keeps(tmp, it.new)} ELSE {}
           held == IF f.act # "none" /\ ~done THEN {tmp} ELSE {}
           known == IF f.state = "published" THEN Recorded(it.new) ELSE op.db.known
           retained == op.db.retained \cup f.retained \cup kept
           evidence == op.db.evidence \cup f.preserved \cup held
           journal == op.db.intents \ {it}
           ndb == [op.db EXCEPT !.known = known, !.retained = retained, !.evidence = evidence,
                                !.intents = journal]
<1>1. op.pc = "resolve" /\ op \in OpResolve
    BY StoreFacts, OpShapes DEF Resolve
<1>2. op.db \in Databases /\ it \in Intents /\ f \in Findings /\ op.todo \in SUBSET Intents
    BY <1>1 DEF OpResolve
<1>3. /\ op.db.next = db.next /\ op.db.intents \subseteq db.intents /\ op.todo \subseteq db.intents
      /\ \A name \in Private : dir[name] # 0 => CoveredIn(op.db, name)
      /\ it \in db.intents
      /\ f.act = "exchange" => it \in Replaces
      /\ Only(it.n, Found(op))
    BY <1>1 DEF IndNames, OpFits
<1>4. /\ tmp \in Private /\ tmp \in Names /\ tmp[2] = it.n /\ tmp # Path /\ Path \in Names
      /\ it.new = None => tmp # Tmp(it)
      /\ Tmp(it) \in Private
    <2>1. it \in Replaces => it.new # None
        BY IntentKinds
    <2> QED
        BY <1>2, <1>3, <2>1, NameFacts DEF Mover
<1>5. /\ dir' = IF done THEN Exchanged(tmp, Path) ELSE dir
      /\ op' = [pc |-> "look", todo |-> op.todo, db |-> ndb]
      /\ data' = data /\ UNCHANGED <<store, user>>
    BY DEF Resolve, Mover
<1>6. known \in KnownSet /\ retained \in SUBSET Rows /\ evidence \in SUBSET Private /\ journal \in SUBSET Intents
    <2>1. Recorded(it.new) \in KnownSet /\ it.new \in ByteSet
        BY <1>2, IntentKinds, Reads, Kinds
    <2>2. kept \in SUBSET Rows /\ held \in SUBSET Private
        BY <1>4, <2>1, RowsIs
    <2>3. /\ op.db.known \in KnownSet /\ op.db.retained \in SUBSET Rows /\ op.db.evidence \in SUBSET Private
          /\ op.db.intents \in SUBSET Intents /\ f.retained \in SUBSET Rows /\ f.preserved \in SUBSET Private
        BY <1>2 DEF Databases, Findings
    <2> HIDE DEF kept, held, f, it
    <2> QED
        BY <2>1, <2>2, <2>3
<1>7. /\ f.act \notin {"none"} => tmp \in NamesOf(retained) \cup evidence \/ (done /\ f.act = "return")
      /\ NamesOf(f.retained) \subseteq NamesOf(retained) /\ f.preserved \subseteq evidence
      /\ NamesOf(op.db.retained) \subseteq NamesOf(retained) /\ op.db.evidence \subseteq evidence
    <2>1. kept # {} => kept = {Keeps(tmp, it.new)} /\ Keeps(tmp, it.new).name = tmp
        BY DEF Keeps
    <2>2. f.act \in {"none", "return", "exchange"}
        BY <1>2 DEF Findings
    <2>3. kept # {} => tmp \in NamesOf(retained)
        BY <2>1 DEF NamesOf
    <2> QED
        BY <2>2, <2>3 DEF NamesOf
<1>8. Found(op) = NamesOf(f.retained) \cup f.preserved \cup (IF f.act = "none" THEN {} ELSE {tmp})
    BY DEF Found
<1>9. done /\ f.act = "return" => dir[Path] = 0
    BY DEF Exists
<1>10. retained = op.db.retained \cup f.retained \/ retained = op.db.retained \cup f.retained \cup {Keeps(tmp, it.new)}
    OBVIOUS
<1>11. known = IF f.state = "published" THEN Recorded(it.new) ELSE op.db.known
    OBVIOUS
<1>12. done => f.act # "none"
    OBVIOUS
<1> HIDE DEF known, retained, evidence, done, tmp, f, it
<1>13. /\ ndb \in Databases /\ ndb.next = db.next /\ ndb.intents = journal /\ ndb.known = known
       /\ ndb.retained = retained /\ ndb.evidence = evidence
    BY <1>2, <1>3, <1>6 DEF Databases
<1> HIDE DEF journal, ndb
<1>14. op' \in OpLook /\ op'.pc = "look" /\ op'.todo = op.todo /\ op'.db = ndb
    BY <1>2, <1>5, <1>13 DEF OpLook
<1>15. op' \in Ops /\ "it" \notin DOMAIN op'
    BY <1>14, OpIs, OpFields
<1>16. /\ Directory(dir', Len(data)) /\ \A name \in Private : name # tmp => dir'[name] = dir[name]
       /\ done => dir'[tmp] = dir[Path]
       /\ ~done => dir'[tmp] = dir[tmp]
    <2>1. CASE done
        BY <1>4, <1>5, <2>1, StoreFacts, ExchangedDir, NameFacts
    <2>2. CASE ~done
        BY <1>5, <2>2, StoreFacts
    <2> QED
        BY <2>1, <2>2
<1>17. it.new = None => dir'[Tmp(it)] = 0
    BY <1>3, <1>4, <1>16 DEF IndNames, NamesOK
<1>18. \A name \in Private : name[2] # it.n => dir'[name] = dir[name]
    BY <1>4, <1>16
<1>19. \A name \in Private : dir'[name] # 0 => CoveredIn(op'.db, name)
    <2> SUFFICES ASSUME NEW name \in Private, dir'[name] # 0
                 PROVE  CoveredIn(ndb, name)
        BY <1>14
    <2>1. CASE name[2] # it.n
        <3>1. CoveredIn(op.db, name)
            BY <1>3, <1>18, <2>1
        <3> QED
            BY <1>7, <1>13, <2>1, <3>1 DEF CoveredIn, journal
    <2>2. CASE name[2] = it.n /\ name # tmp
        <3>1. name \in Found(op)
            BY <1>3, <1>16, <2>2 DEF Only
        <3> QED
            BY <1>7, <1>8, <1>13, <2>2, <3>1 DEF CoveredIn
    <2>3. CASE name = tmp
        <3>1. ~(done /\ f.act = "return")
            BY <1>9, <1>16, <2>3
        <3>2. CASE f.act # "none"
            BY <1>7, <1>13, <2>3, <3>1, <3>2 DEF CoveredIn
        <3>3. CASE f.act = "none"
            <4>1. tmp \in Found(op)
                BY <1>3, <1>4, <1>12, <1>16, <2>3, <3>3 DEF Only
            <4> QED
                BY <1>7, <1>8, <1>13, <2>3, <3>3, <4>1 DEF CoveredIn
        <3> QED
            BY <3>2, <3>3
    <2> QED
        BY <2>1, <2>2, <2>3
<1>20. /\ db' = db /\ out' = out /\ fd' = fd /\ captured' = captured /\ owed' = owed /\ count' = count
    BY <1>5 DEF store, user
<1>21. OpFits'
    BY <1>3, <1>13, <1>14, <1>15, <1>19, <1>20 DEF OpFits, CoveredIn, NamesOf, journal
<1>22. Directory(dir', Len(data')) /\ Len(data) <= Len(data') /\ data' \in Seq(ByteSet)
    BY <1>5, <1>16, StoreFacts
<1>23. IndNames'
    BY <1>3, <1>15, <1>17, <1>18, <1>20, <1>21, <1>22, StoreFacts, PublishNames
<1>24. dir' = dir \/ dir' = Exchanged(tmp, Path)
    BY <1>5
<1> QED
    BY <1>1, <1>2, <1>3, <1>4, <1>10, <1>11, <1>13, <1>14, <1>15, <1>23, <1>24 DEF tmp, it, f

\* A step that keeps the disk, the journal and the rows.
LEMMA ObserveNames ==
    ASSUME IndNames, dir' = dir, data' = data, UNCHANGED <<fd, count>>,
           owed' \subseteq ByteSet, captured' \subseteq ByteSet,
           db' = db \/ (\E k \in KnownSet : db' = [db EXCEPT !.known = k]),
           out' \subseteq Observations, op' \in Ops, op' = op \/ op'.pc \in {"idle", "closed", "ack"}
    PROVE  IndNames'
<1>1. /\ db' \in Databases /\ db'.intents = db.intents /\ db'.next = db.next
      /\ db'.retained = db.retained /\ db'.evidence = db.evidence
    BY StoreFacts DEF Databases
<1>2. StoreTypeOK'
    BY <1>1 DEF IndNames, StoreTypeOK
<1>3. NamesOK'
    BY <1>1, StoreFacts, FewerNames
<1>4. NoOrphans'
    BY <1>1 DEF IndNames, NoOrphans, Exists, Covered
<1>5. OpFits'
    <2>1. CASE op' = op
        <3>1. Holding(op)' = Holding(op) /\ Found(op)' = Found(op)
            BY <2>1 DEF Holding, Found, Mover, NamesOf, From, Stashed, Tmp
        <3>2. /\ \A n : Only(n, Holding(op))' <=> Only(n, Holding(op))
              /\ \A n : Only(n, Found(op))' <=> Only(n, Found(op))
            BY <3>1 DEF Only
        <3> QED
            BY <1>1, <2>1, <3>2 DEF IndNames, OpFits, CoveredIn, NamesOf
    <2>2. CASE op'.pc \in {"idle", "closed", "ack"}
        BY <2>2, QuietFits
    <2> QED
        BY <2>1, <2>2
<1> QED
    BY <1>2, <1>3, <1>4, <1>5 DEF IndNames

LEMMA CheckPathNames ==
    ASSUME IndNames, CheckPath
    PROVE  /\ IndNames'
           /\ db' = db \/ db' = [db EXCEPT !.known = Seen]
           /\ out' = out \/ out' = out \cup {[from |-> Path, seen |-> Seen]}
<1>1. /\ db' = db \/ db' = [db EXCEPT !.known = Seen]
      /\ out' = out \/ out' = out \cup {[from |-> Path, seen |-> Seen]}
      /\ dir' = dir /\ data' = data /\ captured' = captured /\ op' = op /\ UNCHANGED user
    BY DEF CheckPath, Emit
<1>2. Seen \in KnownSet /\ [from |-> Path, seen |-> Seen] \in Observations
    BY Reads, NameFacts DEF Observations
<1>3. /\ out \subseteq Observations /\ owed \subseteq ByteSet /\ captured \subseteq ByteSet /\ op \in Ops
    BY DEF IndNames, StoreTypeOK
<1>4. db' = db \/ (\E k \in KnownSet : db' = [db EXCEPT !.known = k])
    BY <1>1, <1>2
<1>5. out' \subseteq Observations
    BY <1>1, <1>2, <1>3
<1>6. IndNames'
    BY <1>1, <1>3, <1>4, <1>5, ObserveNames DEF user
<1> QED
    BY <1>1, <1>6

\* An observation is emitted.
LEMMA EmitNames ==
    ASSUME IndNames, NEW from \in Names, NEW seen \in KnownSet,
           out' = out \/ Emit(from, seen),
           UNCHANGED <<dir, data, captured, db, op, user>>
    PROVE  IndNames'
<1>1. [from |-> from, seen |-> seen] \in Observations
    BY DEF Observations
<1>2. /\ out \subseteq Observations /\ owed \subseteq ByteSet /\ captured \subseteq ByteSet /\ op \in Ops
    BY DEF IndNames, StoreTypeOK
<1>3. out' \subseteq Observations
    BY <1>1, <1>2 DEF Emit
<1> QED
    BY <1>2, <1>3, ObserveNames DEF user

LEMMA EmitGoneNames ==
    ASSUME IndNames, EmitGone
    PROVE  IndNames'
<1>1. out' = out \/ Emit(Path, NoFile)
    BY DEF EmitGone
<1>2. UNCHANGED <<dir, data, captured, db, op, user>>
    BY DEF EmitGone
<1> QED
    BY <1>1, <1>2, Reads, NameFacts, EmitNames

LEMMA DeliverNames ==
    ASSUME IndNames, NEW name \in db.evidence, Deliver(name)
    PROVE  IndNames' /\ name \in Private
<1>1. name \in Private /\ name \in Names
    BY StoreFacts, NameFacts DEF Databases
<1>2. Emit(name, [rev |-> At(name), of |-> Meta(name)])
    BY DEF Deliver
<1>3. UNCHANGED <<dir, data, captured, db, op, user>>
    BY DEF Deliver
<1>4. [rev |-> At(name), of |-> Meta(name)] \in KnownSet
    BY <1>1, Reads
<1> QED
    BY <1>1, <1>2, <1>3, <1>4, EmitNames

LEMMA CaptureNames ==
    ASSUME IndNames, NEW o \in out, Capture(o)
    PROVE  IndNames' /\ o \in Observations /\ op' \in OpAck /\ op'.pc = "ack" /\ op'.o = o
<1>1. /\ out \subseteq Observations /\ owed \subseteq ByteSet /\ captured \subseteq ByteSet
    BY DEF IndNames, StoreTypeOK
<1>2. o \in Observations /\ o.seen.rev \in ByteSet
    BY <1>1 DEF Observations, KnownSet
<1>3. /\ out' = out \ {o} /\ captured' = captured \cup ({o.seen.rev} \ {None})
      /\ owed' = owed \ {o.seen.rev} /\ op' = [pc |-> "ack", o |-> o]
      /\ UNCHANGED <<dir, data, fd, db, count>>
    BY DEF Capture
<1>4. op' \in OpAck /\ op'.pc = "ack" /\ op'.o = o /\ op' \in Ops
    BY <1>2, <1>3, OpIs DEF OpAck
<1>5. out' \subseteq Observations /\ captured' \subseteq ByteSet /\ owed' \subseteq ByteSet
    BY <1>1, <1>2, <1>3
<1>6. IndNames'
    BY <1>3, <1>4, <1>5, ObserveNames
<1> QED
    BY <1>2, <1>4, <1>6

\* A private file is removed, and then its rows.
LEMMA RemoveNames ==
    ASSUME IndNames, NEW name \in Private, dir' = Removed(name), op' = [pc |-> "drop", name |-> name],
           UNCHANGED <<data, captured, db, out, fd, count>>, owed' \subseteq ByteSet
    PROVE  IndNames' /\ op'.pc = "drop" /\ op'.name = name
<1>1. /\ Directory(dir', Len(data)) /\ dir'[name] = 0
      /\ \A c \in Names : c # name => dir'[c] = dir[c]
    BY StoreFacts, NameFacts, RemovedDir
<1>2. op' \in OpDrop /\ op'.pc = "drop" /\ op'.name = name
    BY DEF OpDrop
<1>3. op' \in Ops /\ "it" \notin DOMAIN op'
    BY <1>2, OpIs, OpFields
<1>4. StoreTypeOK'
    BY <1>1, <1>3 DEF IndNames, StoreTypeOK, Directory
<1>5. \A c \in Private : dir'[c] = dir[c] \/ dir'[c] = 0
    BY <1>1, NameFacts
<1>6. NamesOK'
    BY <1>1, <1>5, StoreFacts, FewerNames
<1>7. NoOrphans'
    BY <1>5 DEF IndNames, NoOrphans, Exists, Covered
<1>8. OpFits'
    BY <1>1, <1>2, <1>3 DEF OpFits
<1> QED
    BY <1>2, <1>4, <1>6, <1>7, <1>8 DEF IndNames

LEMMA AckNames ==
    ASSUME IndNames, Ack
    PROVE  IndNames' /\ op \in OpAck /\ op.pc = "ack" /\ op.o \in Observations
<1>1. op \in OpAck /\ op.pc = "ack"
    BY StoreFacts, OpShapes DEF Ack
<1>2. op.o \in Observations /\ op.o.from \in Names /\ op.o.seen \in KnownSet
    BY <1>1 DEF OpAck, Observations
<1>3. out' = out /\ data' = data /\ captured' = captured /\ fd' = fd /\ count' = count
    BY DEF Ack
<1>4. /\ out \subseteq Observations /\ owed \subseteq ByteSet /\ captured \subseteq ByteSet
    BY DEF IndNames, StoreTypeOK
<1>5. CASE op.o.from = Path
    <2>1. db' = [db EXCEPT !.known = op.o.seen] /\ op' = Idle /\ dir' = dir /\ owed' = owed
        BY <1>5 DEF Ack
    <2>2. op' \in Ops /\ op'.pc = "idle"
        BY <2>1, OpIs, OpFields
    <2>3. \E k \in KnownSet : db' = [db EXCEPT !.known = k]
        BY <1>2, <2>1
    <2> QED
        BY <1>1, <1>2, <1>3, <1>4, <2>1, <2>2, <2>3, ObserveNames
<1>6. CASE op.o.from # Path
    <2>1. op.o.from \in Private
        BY <1>2, <1>6, NameFacts
    <2>2. dir' = Removed(op.o.from) /\ op' = [pc |-> "drop", name |-> op.o.from] /\ db' = db
        BY <1>6 DEF Ack
    <2>3. owed' \subseteq owed
        BY <1>6 DEF Ack
    <2>4. owed' \subseteq ByteSet
        BY <1>4, <2>3
    <2> QED
        BY <1>1, <1>2, <1>3, <2>1, <2>2, <2>4, RemoveNames
<1> QED
    BY <1>5, <1>6

LEMMA DropRowNames ==
    ASSUME IndNames, DropRow
    PROVE  /\ IndNames' /\ op \in OpDrop /\ op.name \in Private /\ dir[op.name] = 0
           /\ db' \in Databases /\ db'.intents = db.intents /\ db'.known = db.known
           /\ db'.evidence = db.evidence \ {op.name}
           /\ db'.retained = {r \in db.retained : r.name # op.name}
<1> DEFINE rows == {r \in db.retained : r.name # op.name}
           files == db.evidence \ {op.name}
<1>1. op \in OpDrop /\ op.pc = "drop"
    BY StoreFacts, OpShapes DEF DropRow
<1>2. op.name \in Private /\ dir[op.name] = 0
    BY <1>1 DEF OpDrop, IndNames, OpFits
<1>3. /\ db' = [db EXCEPT !.evidence = files, !.retained = rows]
      /\ op' = Idle /\ dir' = dir /\ data' = data /\ captured' = captured /\ out' = out /\ UNCHANGED user
    BY DEF DropRow
<1>4. rows \in SUBSET Rows /\ files \in SUBSET Private
    BY StoreFacts DEF Databases
<1> HIDE DEF rows, files
<1>5. /\ db' \in Databases /\ db'.intents = db.intents /\ db'.known = db.known /\ db'.next = db.next
      /\ db'.evidence = files /\ db'.retained = rows
    BY <1>3, <1>4, StoreFacts DEF Databases
<1>6. op' \in Ops /\ OpFits'
    BY <1>3, OpIs, OpFields, QuietFits
<1>7. StoreTypeOK'
    BY <1>3, <1>5, <1>6 DEF IndNames, StoreTypeOK, user
<1>8. NamesOK'
    BY <1>3, <1>5, StoreFacts, FewerNames
<1>9. NoOrphans'
    <2> SUFFICES ASSUME NEW name \in Private, dir[name] # 0
                 PROVE  Covered(name)'
        BY <1>3 DEF NoOrphans, Exists
    <2>1. Covered(name) /\ name # op.name
        BY <1>2 DEF IndNames, NoOrphans, Exists
    <2> QED
        BY <1>5, <2>1 DEF Covered, rows, files
<1> QED
    BY <1>1, <1>2, <1>5, <1>6, <1>7, <1>8, <1>9 DEF IndNames, rows, files

LEMMA SettleNames ==
    ASSUME IndNames, NEW r \in db.retained, Settle(r)
    PROVE  /\ IndNames' /\ r \in Rows /\ op = Idle
           /\ \/ /\ db'.retained = db.retained \ {r}
                 /\ db'.evidence = db.evidence \cup {r.name} /\ op' = op
                 /\ db'.intents = db.intents /\ db'.known = db.known
              \/ /\ db' = db /\ op'.pc = "release" /\ op'.name = r.name
                 /\ op'.seen = At(r.name) /\ (dir[r.name] # 0 => At(r.name) = r.expect)
                 /\ op'.holders = "none" => Unopened(r.name)
<1>1. r \in Rows /\ r.name \in Private
    BY StoreFacts DEF Databases, Rows
<1>2. op = Idle /\ dir' = dir /\ data' = data /\ captured' = captured /\ out' = out /\ UNCHANGED user
    BY DEF Settle
<1>3. CASE Exists(r.name) /\ At(r.name) # r.expect
    <2> DEFINE rows == db.retained \ {r}
               files == db.evidence \cup {r.name}
    <2>1. db' = [db EXCEPT !.retained = rows, !.evidence = files] /\ dir' = dir /\ op' = op
        BY <1>3 DEF Settle
    <2>2. rows \in SUBSET Rows /\ files \in SUBSET Private
        BY <1>1, StoreFacts DEF Databases
    <2>3. \A name : name \in NamesOf(db.retained) => name \in NamesOf(rows) \cup files
        BY DEF NamesOf
    <2> HIDE DEF rows, files
    <2>4. /\ db' \in Databases /\ db'.intents = db.intents /\ db'.known = db.known /\ db'.next = db.next
          /\ db'.evidence = files /\ db'.retained = rows
        BY <2>1, <2>2, StoreFacts DEF Databases
    <2>5. op' \in Ops /\ OpFits'
        BY <1>2, <2>1, OpIs, OpFields, QuietFits
    <2>6. StoreTypeOK'
        BY <1>2, <2>1, <2>4, <2>5 DEF IndNames, StoreTypeOK, user
    <2>7. NamesOK'
        BY <2>1, <2>4, StoreFacts, FewerNames
    <2>8. NoOrphans'
        <3> SUFFICES ASSUME NEW name \in Private, dir[name] # 0
                     PROVE  CoveredIn(db', name)
            BY <2>1 DEF NoOrphans, Exists, Covered, CoveredIn, NamesOf
        <3>1. CoveredIn(db, name)
            BY CoveredIs DEF IndNames, NoOrphans, Exists
        <3>2. files = db.evidence \cup {r.name}
            BY DEF files
        <3> QED
            BY <2>3, <2>4, <3>1, <3>2 DEF CoveredIn
    <2> QED
        BY <1>1, <1>2, <2>1, <2>4, <2>5, <2>6, <2>7, <2>8 DEF IndNames, rows, files
<1>4. CASE ~(Exists(r.name) /\ At(r.name) # r.expect)
    <2>1. PICK holders \in OtherHolders(r.name) :
              op' = [pc |-> "release", name |-> r.name, seen |-> At(r.name), holders |-> holders]
              /\ db' = db
        BY <1>4 DEF Settle
    <2>2. holders \in {"none", "unknown"} /\ (holders = "none" => Unopened(r.name))
        BY DEF OtherHolders, Unopened, Exists
    <2>3. At(r.name) \in ByteSet
        BY <1>1, NameFacts, Reads
    <2>4. op' \in OpRelease
        BY <1>1, <2>1, <2>3, <2>2 DEF OpRelease
    <2>5. /\ op'.pc = "release" /\ op'.name = r.name /\ op'.seen = At(r.name)
          /\ op'.holders = "none" => Unopened(r.name)
        BY <2>1, <2>2
    <2>6. op' \in Ops /\ OpFits'
        BY <2>4, <2>5, OpIs, QuietFits
    <2>7. StoreTypeOK'
        BY <1>2, <2>1, <2>6 DEF IndNames, StoreTypeOK, user
    <2>8. NamesOK'
        BY <1>2, <2>1, StoreFacts, FewerNames
    <2>9. NoOrphans'
        BY <1>2, <2>1 DEF IndNames, NoOrphans, Exists, Covered
    <2> QED
        BY <1>1, <1>2, <1>4, <2>1, <2>5, <2>6, <2>7, <2>8, <2>9 DEF IndNames, Exists
<1> QED
    BY <1>3, <1>4

LEMMA ReleaseNames ==
    ASSUME IndNames, Release
    PROVE  IndNames' /\ op.name \in Private /\ op.seen \in ByteSet /\ op'.pc = "drop"
<1>1. op \in OpRelease
    BY StoreFacts, OpShapes DEF Release
<1>2. op.name \in Private /\ op.seen \in ByteSet
    BY <1>1 DEF OpRelease
<1>3. /\ dir' = Removed(op.name) /\ op' = [pc |-> "drop", name |-> op.name]
      /\ UNCHANGED <<data, captured, db, out, fd, count>> /\ owed' \subseteq owed
    BY DEF Release, store
<1>4. owed' \subseteq ByteSet
    BY <1>3 DEF IndNames, StoreTypeOK
<1> QED
    BY <1>2, <1>3, <1>4, RemoveNames

\* An editor changes the path, or writes into a file.
LEMMA UserNames ==
    ASSUME IndNames, op' = op, UNCHANGED store,
           data' \in Seq(ByteSet), Len(data) <= Len(data'), Directory(dir', Len(data')),
           \A name \in Private : dir'[name] = dir[name],
           fd' \in [Editors -> 0..Len(data')], owed' \subseteq ByteSet,
           count' \in [save : Nat, delete : Nat, fault : Nat]
    PROVE  IndNames'
<1>1. db' = db /\ out' = out /\ captured' = captured
    BY DEF store
<1>2. StoreTypeOK'
    BY <1>1 DEF IndNames, StoreTypeOK, Directory
<1>3. NamesOK'
    BY <1>1, StoreFacts, FewerNames
<1>4. NoOrphans'
    BY <1>1 DEF IndNames, NoOrphans, Exists, Covered
<1>5. OpFits'
    BY <1>1, SameFits
<1> QED
    BY <1>2, <1>3, <1>4, <1>5 DEF IndNames

LEMMA SaveIs ==
    ASSUME IndNames
    PROVE  /\ NextSave \in ByteSet /\ Users(NextSave) /\ NextSave[2] = count.save + 1 /\ count.save \in Nat
           /\ [count EXCEPT !.save = count.save + 1] \in [save : Nat, delete : Nat, fault : Nat]
           /\ [count EXCEPT !.save = count.save + 1].save = count.save + 1
           /\ [count EXCEPT !.delete = count.delete + 1] \in [save : Nat, delete : Nat, fault : Nat]
           /\ [count EXCEPT !.delete = count.delete + 1].save = count.save
<1>1. count \in [save : Nat, delete : Nat, fault : Nat] /\ count.save \in Nat /\ count.delete \in Nat
    BY StoreFacts
<1>2. NextSave \in ByteSet /\ Users(NextSave) /\ NextSave[2] = count.save + 1
    BY <1>1 DEF NextSave, ByteSet, Users
<1> DEFINE s == count.save + 1
           t == count.delete + 1
<1>3. s \in Nat /\ t \in Nat
    BY <1>1
<1> HIDE DEF s, t
<1>4. /\ [count EXCEPT !.save = s] \in [save : Nat, delete : Nat, fault : Nat]
      /\ [count EXCEPT !.save = s].save = s
      /\ [count EXCEPT !.delete = t] \in [save : Nat, delete : Nat, fault : Nat]
      /\ [count EXCEPT !.delete = t].save = count.save
    BY <1>1, <1>3
<1> QED
    BY <1>1, <1>2, <1>4 DEF s, t

LEMMA SaveByRenameNames ==
    ASSUME IndNames, NEW e \in Editors, SaveByRename(e)
    PROVE  /\ IndNames' /\ data' = NewFile(NextSave) /\ dir' = LinkedAs(Path, Len(data))
<1>1. NextSave \in ByteSet
    BY SaveIs
<1>2. data' = NewFile(NextSave) /\ data' \in Seq(ByteSet) /\ Len(data') = Len(data) + 1 /\ Len(data) \in Nat
    BY <1>1, StoreFacts, NewFileData DEF SaveByRename
<1>3. dir' = LinkedAs(Path, Len(data))
    BY <1>2 DEF SaveByRename, LinkedAs
<1>4. /\ Directory(dir', Len(data')) /\ \A name \in Private : dir'[name] = dir[name]
    <2> DEFINE n == Len(data)
    <2>1. Directory(dir, n) /\ n \in Nat
        BY StoreFacts
    <2> HIDE DEF n
    <2>2. Directory(LinkedAs(Path, n), n + 1) /\ \A c \in Names : c # Path => LinkedAs(Path, n)[c] = dir[c]
        BY <2>1, NameFacts, LinkedDir
    <2> QED
        BY <1>2, <1>3, <2>2, NameFacts DEF n
<1>5. fd' = fd /\ fd \in [Editors -> 0..Len(data)] /\ owed \subseteq ByteSet
    BY DEF SaveByRename, IndNames, StoreTypeOK
<1>6. owed' = (owed \ {At(Path)}) \cup {NextSave} /\ op' = op /\ UNCHANGED store
    BY DEF SaveByRename
<1>7. count' \in [save : Nat, delete : Nat, fault : Nat]
    BY SaveIs DEF SaveByRename
<1>8. fd' \in [Editors -> 0..Len(data')] /\ owed' \subseteq ByteSet /\ Len(data) <= Len(data')
    BY <1>1, <1>2, <1>5, <1>6
<1>9. IndNames'
    BY <1>2, <1>4, <1>6, <1>7, <1>8, UserNames
<1> QED
    BY <1>2, <1>3, <1>9

\* The bytes of a file are replaced.
Written(i, b) == [data EXCEPT ![i] = b]

LEMMA WrittenData ==
    ASSUME data \in Seq(ByteSet), NEW i \in 1..Len(data), NEW b \in ByteSet
    PROVE  /\ Written(i, b) \in Seq(ByteSet) /\ Len(Written(i, b)) = Len(data)
           /\ Written(i, b)[i] = b
           /\ \A j \in 1..Len(data) : j # i => Written(i, b)[j] = data[j]
BY DEF Written

LEMMA OpenToWriteNames ==
    ASSUME IndNames, NEW e \in Editors, NEW truncate \in BOOLEAN, OpenToWrite(e, truncate)
    PROVE  /\ IndNames' /\ dir[Path] \in 1..Len(data) /\ dir' = dir
           /\ fd' = [fd EXCEPT ![e] = dir[Path]]
           /\ IF truncate THEN data' = Written(dir[Path], Empty) /\ owed' = owed \ {At(Path)}
              ELSE data' = data /\ owed' = owed
<1>1. dir[Path] \in 1..Len(data) /\ Len(data) \in Nat
    BY StoreFacts, NameFacts DEF Directory, OpenToWrite, Exists
<1>2. /\ dir' = dir /\ count' = count /\ op' = op /\ UNCHANGED store
      /\ fd' = [fd EXCEPT ![e] = dir[Path]]
      /\ IF truncate THEN data' = Written(dir[Path], Empty) /\ owed' = owed \ {At(Path)}
         ELSE data' = data /\ owed' = owed
    BY DEF OpenToWrite, Written
<1>3. data' \in Seq(ByteSet) /\ Len(data') = Len(data)
    BY <1>1, <1>2, StoreFacts, WrittenData, Kinds
<1>4. fd \in [Editors -> 0..Len(data)] /\ owed \subseteq ByteSet
    BY DEF IndNames, StoreTypeOK
<1>5. fd' \in [Editors -> 0..Len(data')] /\ owed' \subseteq ByteSet
    BY <1>1, <1>2, <1>3, <1>4
<1>6. Directory(dir', Len(data')) /\ Len(data) <= Len(data')
    BY <1>1, <1>2, <1>3, StoreFacts
<1>7. IndNames'
    BY <1>2, <1>3, <1>5, <1>6, StoreFacts, UserNames
<1> QED
    BY <1>1, <1>2, <1>7

LEMMA WriteAndCloseNames ==
    ASSUME IndNames, NEW e \in Editors, WriteAndClose(e)
    PROVE  /\ IndNames' /\ fd[e] \in 1..Len(data) /\ dir' = dir /\ data' = Written(fd[e], NextSave)
<1>1. fd \in [Editors -> 0..Len(data)] /\ owed \subseteq ByteSet /\ Len(data) \in Nat
    BY DEF IndNames, StoreTypeOK
<1>2. fd[e] \in 1..Len(data)
    BY <1>1 DEF WriteAndClose
<1>3. /\ dir' = dir /\ op' = op /\ UNCHANGED store /\ data' = Written(fd[e], NextSave)
      /\ fd' = [fd EXCEPT ![e] = 0]
      /\ owed' = (owed \ {data[fd[e]]}) \cup (IF fd[e] \in gone THEN {} ELSE {NextSave})
    BY DEF WriteAndClose, Written
<1>4. data' \in Seq(ByteSet) /\ Len(data') = Len(data)
    BY <1>2, <1>3, StoreFacts, SaveIs, WrittenData
<1>5. fd' \in [Editors -> 0..Len(data')] /\ owed' \subseteq ByteSet
    BY <1>1, <1>3, <1>4, SaveIs
<1>6. Directory(dir', Len(data')) /\ Len(data) <= Len(data')
    BY <1>1, <1>3, <1>4, StoreFacts
<1>7. count' \in [save : Nat, delete : Nat, fault : Nat]
    BY SaveIs DEF WriteAndClose
<1>8. IndNames'
    BY <1>3, <1>4, <1>5, <1>6, <1>7, StoreFacts, UserNames
<1> QED
    BY <1>2, <1>3, <1>8

LEMMA UserDeleteNames ==
    ASSUME IndNames, NEW e \in Editors, UserDelete(e)
    PROVE  IndNames'
<1>1. /\ dir' = Removed(Path) /\ data' = data /\ fd' = fd /\ op' = op /\ UNCHANGED store
      /\ owed' = owed \ {At(Path)}
    BY DEF UserDelete
<1>2. Directory(dir', Len(data)) /\ \A name \in Private : dir'[name] = dir[name]
    BY <1>1, StoreFacts, RemovedDir, NameFacts
<1>3. fd \in [Editors -> 0..Len(data)] /\ owed \subseteq ByteSet
    BY DEF IndNames, StoreTypeOK
<1>4. count' \in [save : Nat, delete : Nat, fault : Nat]
    BY SaveIs DEF UserDelete
<1>5. owed' \subseteq ByteSet /\ fd' \in [Editors -> 0..Len(data')] /\ Len(data) <= Len(data')
    BY <1>1, <1>3, StoreFacts
<1> QED
    BY <1>1, <1>2, <1>4, <1>5, StoreFacts, UserNames

LEMMA InitNames ==
    ASSUME Init
    PROVE  IndNames /\ db.known = Seen /\ out = {} /\ db.intents = {} /\ db.retained = {}
           /\ op = Idle
           /\ Len(data) = 1 /\ data[1] = <<"store", 0>> /\ fd = [e \in Editors |-> 0]
           /\ dir = [a \in Names |-> IF a = Path THEN 1 ELSE 0]
<1>1. /\ data = <<<<"store", 0>>>> /\ dir = [a \in Names |-> IF a = Path THEN 1 ELSE 0]
      /\ fd = [e \in Editors |-> 0] /\ owed = {} /\ captured = {} /\ op = Idle /\ out = {}
      /\ count = [save |-> 0, delete |-> 0, fault |-> 0]
      /\ db = [known |-> Seen, intents |-> {}, retained |-> {}, evidence |-> {}, next |-> 1]
    BY DEF Init
<1>2. <<"store", 0>> \in ByteSet
    BY DEF ByteSet
<1>3. data \in Seq(ByteSet) /\ Len(data) = 1 /\ data[1] = <<"store", 0>>
    BY <1>1, <1>2
<1>4. dir \in [Names -> 0..1] /\ dir[Path] = 1 /\ \A name \in Private : dir[name] = 0
    BY <1>1, NameFacts
<1>5. Injective(dir)
    BY <1>1 DEF Injective
<1>6. Seen \in KnownSet
    <2>1. At(Path) = <<"store", 0>>
        BY <1>3, <1>4 DEF At, Exists
    <2> QED
        BY <1>2, <1>4, <2>1 DEF Seen, Meta, KnownSet
<1>7. db \in Databases /\ db.known = Seen /\ db.intents = {} /\ db.retained = {} /\ db.evidence = {} /\ db.next = 1
    <2> DEFINE seen == Seen
    <2>1. seen \in KnownSet /\ db = [known |-> seen, intents |-> {}, retained |-> {}, evidence |-> {}, next |-> 1]
        BY <1>1, <1>6
    <2> HIDE DEF seen
    <2>2. db \in Databases /\ db.known = seen /\ db.intents = {} /\ db.retained = {} /\ db.evidence = {} /\ db.next = 1
        BY <2>1 DEF Databases
    <2> QED
        BY <2>2 DEF seen
<1>8. StoreTypeOK
    BY <1>1, <1>3, <1>4, <1>7, OpIs DEF StoreTypeOK
<1>9. NamesOK
    BY <1>4, <1>5, <1>7 DEF NamesOK
<1>10. NoOrphans
    BY <1>4 DEF NoOrphans, Exists
<1>11. OpFits
    <2>1. op.pc = "idle" /\ "it" \notin DOMAIN op
        BY <1>1, OpIs, OpFields
    <2> QED
        BY <2>1 DEF OpFits
<1> QED
    BY <1>1, <1>3, <1>7, <1>8, <1>9, <1>10, <1>11 DEF IndNames

\* A version that the replica publishes is one that it has published or has been handed.
LEMMA ReplicaIs ==
    ASSUME IndNames, Replica
    PROVE  \E expect \in ByteSet, new \in NewBytes :
               /\ expect \in captured \/ ~Users(expect)
               /\ Publish(expect, new)
<1>1. PICK expect \in {None} \cup {b \in Range(data) : b[1] = "store"} \cup captured,
           new \in {None} \cup {<<"store", v>> : v \in 1..Versions} : Publish(expect, new)
    BY DEF Replica
<1>2. new \in NewBytes
    BY FileStoreAssumption DEF NewBytes
<1>3. expect \in ByteSet
    <2>1. Range(data) \subseteq ByteSet
        BY StoreFacts DEF Range
    <2> QED
        BY <2>1, Kinds DEF IndNames, StoreTypeOK
<1>4. expect \in captured \/ ~Users(expect)
    BY Kinds DEF Users
<1> QED
    BY <1>1, <1>2, <1>3, <1>4

LEMMA NextNames ==
    ASSUME IndNames, [Next]_vars
    PROVE  IndNames'
<1>1. ASSUME User PROVE IndNames'
    BY <1>1, SaveByRenameNames, OpenToWriteNames, WriteAndCloseNames, UserDeleteNames DEF User
<1>2. ASSUME Replica PROVE IndNames'
    BY <1>2, ReplicaIs, PublishStart
<1>3. ASSUME PublishStep PROVE IndNames'
    BY <1>3, WriteTempNames, CreateNames, SwapNames, VerifyLoop, StashNames, RestoreLoop,
       ExchangeBackLoop, CheckLoop, HoldNames, MoveAsideNames, VerifyMovedNames, MoveBackNames,
       RecordNames DEF PublishStep
<1>4. ASSUME RecoveryStep PROVE IndNames'
    BY <1>4, OpenNames, LookNames, ResolveNames, RecoveredNames DEF RecoveryStep
<1>5. ASSUME Observing PROVE IndNames'
    BY <1>5, CheckPathNames, EmitGoneNames, DeliverNames DEF Observing
<1>6. ASSUME Capturing PROVE IndNames'
    BY <1>6, CaptureNames DEF Capturing
<1>7. ASSUME Settling PROVE IndNames'
    BY <1>7, SettleNames, ReleaseNames DEF Settling
<1>8. ASSUME UNCHANGED vars PROVE IndNames'
    <2>1. /\ op' = op /\ db' = db /\ dir' = dir /\ data' = data /\ fd' = fd /\ owed' = owed
          /\ captured' = captured /\ out' = out /\ count' = count
        BY <1>8 DEF vars
    <2>2. /\ out \subseteq Observations /\ owed \subseteq ByteSet /\ captured \subseteq ByteSet /\ op \in Ops
        BY DEF IndNames, StoreTypeOK
    <2> QED
        BY <2>1, <2>2, ObserveNames
<1> QED
    BY <1>1, <1>2, <1>3, <1>4, <1>5, <1>6, <1>7, <1>8, FailNames, CrashNames, AckNames, DropRowNames
    DEF Next

LEMMA NamesInvariant == Spec => []IndNames
<1>1. Init => IndNames
    BY InitNames
<1>2. IndNames /\ [Next]_vars => IndNames'
    BY NextNames
<1> QED
    BY <1>1, <1>2, PTL DEF Spec

\* No private file is forgotten: whatever a publish, its failure, a crash, a recovery (run
\* twice, or interrupted) and a settling do, each belongs to a journaled intent, a retained
\* row or an evidence row.
THEOREM PrivateFilesCovered == Spec => []NoOrphans
<1>1. IndNames => NoOrphans
    BY DEF IndNames
<1> QED
    BY <1>1, NamesInvariant, PTL

-----------------------------------------------------------------------------
(***************************************************************************)
(* What the store believes of the path.                                    *)
(***************************************************************************)
\* Names that link to the same file of unchanged data hold the same bytes.
LEMMA AtMoved ==
    ASSUME data' = data, NEW a, NEW b, dir'[a] = dir[b]
    PROVE  At(a)' = At(b)
BY DEF At, Exists

\* What an editor does to a file that is not ours makes it not ours.
LEMMA UserBytes ==
    ASSUME IndNames, User, NEW name \in Names
    PROVE  At(name)' = At(name) \/ At(name)'[1] \in {"user", "empty", "none"}
<1>1. /\ NextSave[1] = "user" /\ Empty[1] = "empty" /\ None[1] = "none"
    BY DEF NextSave, Empty, None
<1>2. /\ Directory(dir, Len(data)) /\ Len(data) \in Nat /\ data \in Seq(ByteSet) /\ dir[name] \in 0..Len(data)
    BY StoreFacts, Reads
<1>3. ASSUME NEW e \in Editors, SaveByRename(e)
      PROVE  At(name)' = At(name) \/ At(name)'[1] \in {"user", "empty", "none"}
    <2>1. data' = NewFile(NextSave) /\ dir' = LinkedAs(Path, Len(data)) /\ NextSave \in ByteSet
        BY <1>3, SaveByRenameNames, SaveIs
    <2>2. /\ NewFile(NextSave)[Len(data) + 1] = NextSave
          /\ \A i \in 1..Len(data) : NewFile(NextSave)[i] = data[i]
        BY <1>2, <2>1, NewFileData
    <2> DEFINE n == Len(data)
    <2>3. Directory(dir, n) /\ n \in Nat
        BY <1>2
    <2> HIDE DEF n
    <2>4. LinkedAs(Path, n)[Path] = n + 1 /\ \A c \in Names : c # Path => LinkedAs(Path, n)[c] = dir[c]
        BY <2>3, NameFacts, LinkedDir
    <2>5. CASE name = Path
        BY <1>1, <1>2, <2>1, <2>2, <2>4, <2>5 DEF At, Exists, n
    <2>6. CASE name # Path
        BY <1>1, <1>2, <2>1, <2>2, <2>4, <2>6 DEF At, Exists, n
    <2> QED
        BY <2>5, <2>6
<1>4. ASSUME NEW i \in 1..Len(data), NEW b \in {NextSave, Empty}, dir' = dir, data' = Written(i, b)
      PROVE  At(name)' = At(name) \/ At(name)'[1] \in {"user", "empty", "none"}
    <2>1. b \in ByteSet
        BY SaveIs, Kinds
    <2>2. Written(i, b)[i] = b /\ \A j \in 1..Len(data) : j # i => Written(i, b)[j] = data[j]
        BY <1>2, <2>1, WrittenData
    <2> QED
        BY <1>1, <1>2, <1>4, <2>2 DEF At, Exists
<1>5. ASSUME NEW e \in Editors, NEW truncate \in BOOLEAN, OpenToWrite(e, truncate)
      PROVE  At(name)' = At(name) \/ At(name)'[1] \in {"user", "empty", "none"}
    <2>1. /\ dir[Path] \in 1..Len(data) /\ dir' = dir
          /\ data' = Written(dir[Path], Empty) \/ data' = data
        BY <1>5, OpenToWriteNames
    <2>2. CASE data' = data
        BY <2>1, <2>2, AtMoved
    <2>3. CASE data' = Written(dir[Path], Empty)
        BY <1>4, <2>1, <2>3
    <2> QED
        BY <2>1, <2>2, <2>3
<1>6. ASSUME NEW e \in Editors, WriteAndClose(e)
      PROVE  At(name)' = At(name) \/ At(name)'[1] \in {"user", "empty", "none"}
    BY <1>4, <1>6, WriteAndCloseNames
<1>7. ASSUME NEW e \in Editors, UserDelete(e)
      PROVE  At(name)' = At(name) \/ At(name)'[1] \in {"user", "empty", "none"}
    <2>1. dir' = Removed(Path) /\ data' = data
        BY <1>7 DEF UserDelete
    <2>2. CASE name = Path
        BY <1>1, <1>2, <2>1, <2>2, NameFacts, RemovedDir DEF At, Exists
    <2>3. CASE name # Path
        BY <1>2, <2>1, <2>3, NameFacts, RemovedDir, AtMoved
    <2> QED
        BY <2>2, <2>3
<1> QED
    BY <1>3, <1>5, <1>6, <1>7 DEF User

LEMMA UserKnown ==
    ASSUME IndNames, IndKnown, User
    PROVE  IndKnown'
<1>1. op' = op /\ UNCHANGED store
    BY DEF User, SaveByRename, OpenToWrite, WriteAndClose, UserDelete
<1>2. \A name \in Names : \A new : Ours(name, new) => Ours(name, new)'
    BY UserBytes DEF Ours
<1>3. op.pc \in {"create", "swap", "verify"} => Tmp(op.it) \in Names
    <2>1. op.pc \in {"create", "swap", "verify"} => op \in Publishers
        BY StoreFacts, OpShapes DEF Publishers
    <2> QED
        BY <2>1, PublishFacts, NameFacts
<1>4. OpKnown'
    <2>1. Tmp(op.it)' = Tmp(op.it)
        BY <1>1 DEF Tmp
    <2> QED
        BY <1>1, <1>2, <1>3, <2>1, NameFacts DEF IndKnown, OpKnown, KnownOK
<1> QED
    BY <1>1, <1>4 DEF IndKnown, KnownOK, store

\* What is read of a name is true of it, and what is recorded of a publish is true of the path.
LEMMA KnownReads ==
    /\ \A name : KnownOK([rev |-> At(name), of |-> Meta(name)])
    /\ KnownOK(Seen) /\ KnownOK(NoFile)
BY DEF KnownOK, Seen, NoFile, Meta

LEMMA RecordedIsTrue ==
    ASSUME NEW new \in NewBytes, new # None => Ours(Path, new)
    PROVE  KnownOK(Recorded(new))
<1>1. CASE new = None
    BY <1>1, KnownReads DEF Recorded
<1>2. CASE new # None /\ SizeOf(At(Path)) = SizeOf(new)
    <2>1. new[1] = "store"
        BY <1>2 DEF NewBytes
    <2>2. SizeOf(new) = 1
        BY <2>1 DEF SizeOf
    <2>3. At(Path)[1] = "store" \/ (At(Path)[1] = "user" /\ At(Path)[2] \in SameSize)
        BY <1>2, <2>2 DEF SizeOf
    <2>4. At(Path)[1] = "store" => At(Path) = new
        BY <1>2 DEF Ours
    <2>5. Recorded(new).rev = new /\ Recorded(new).of.bytes = At(Path)
        BY <1>2 DEF Recorded, Meta
    <2> QED
        BY <2>1, <2>3, <2>4, <2>5 DEF KnownOK
<1>3. CASE new # None /\ SizeOf(At(Path)) # SizeOf(new)
    <2>1. Recorded(new) = [rev |-> new, of |-> NoMeta]
        BY <1>3 DEF Recorded
    <2> QED
        BY <2>1 DEF KnownOK
<1> QED
    BY <1>1, <1>2, <1>3

\* A step of a publish that records nothing.
LEMMA StepKnown ==
    ASSUME IndKnown, UNCHANGED store, OpKnown'
    PROVE  IndKnown'
BY DEF IndKnown, KnownOK, store

LEMMA WriteTempKnown ==
    ASSUME IndNames, IndKnown, WriteTemp
    PROVE  IndKnown'
<1> DEFINE a == Tmp(op.it)
           n == Len(data)
           new == op.it.new
<1>1. /\ op.it \in Intents /\ new \in ByteSet /\ data' = NewFile(new) /\ dir' = LinkedAs(a, n)
      /\ op'.it = op.it /\ op'.pc \in {"create", "swap"} /\ UNCHANGED store
    BY WriteTempNames, StoreFacts, IntentKinds, Kinds DEF WriteTemp
<1>2. a \in Names /\ Directory(dir, n) /\ n \in Nat /\ data \in Seq(ByteSet)
    BY <1>1, NameFacts, StoreFacts
<1>3. NewFile(new)[n + 1] = new
    BY <1>1, <1>2, NewFileData
<1> HIDE DEF a, n, new
<1>4. LinkedAs(a, n)[a] = n + 1
    BY <1>2, LinkedDir
<1>5. At(a)' = new
    <2>1. dir'[a] # 0 /\ data'[dir'[a]] = new
        BY <1>1, <1>2, <1>3, <1>4
    <2>2. a' = a
        BY <1>1 DEF a, Tmp
    <2> QED
        BY <2>1, <2>2 DEF At, Exists
<1>6. Ours(Tmp(op.it), op.it.new)'
    BY <1>1, <1>5 DEF Ours, a, new, Tmp
<1>7. OpKnown'
    BY <1>1, <1>6 DEF OpKnown
<1> QED
    BY <1>1, <1>7, StepKnown

LEMMA CreateKnown ==
    ASSUME IndNames, IndKnown, Create
    PROVE  IndKnown'
<1>1. /\ op.it \in Intents /\ op'.it = op.it /\ op'.pc = "record"
      /\ op'.published = FALSE \/ (op'.published = TRUE /\ dir' = Renamed(Tmp(op.it), Path))
    BY CreateNames
<1>2. data' = data /\ UNCHANGED store /\ Ours(Tmp(op.it), op.it.new)
    BY DEF Create, IndKnown, OpKnown
<1>3. dir' = Renamed(Tmp(op.it), Path) => At(Path)' = At(Tmp(op.it))
    <2>1. Tmp(op.it) \in Names /\ Path \in Names /\ Tmp(op.it) # Path
        BY <1>1, NameFacts
    <2> DEFINE a == Tmp(op.it)
    <2> HIDE DEF a
    <2>2. a \in Names /\ a # Path
        BY <2>1 DEF a
    <2>3. Renamed(a, Path)[Path] = dir[a]
        BY <2>1, <2>2, StoreFacts, RenamedDir
    <2> QED
        BY <1>2, <2>3, AtMoved DEF a
<1>4. op'.published = TRUE => Ours(Path, op.it.new)'
    BY <1>1, <1>2, <1>3 DEF Ours
<1>5. OpKnown'
    BY <1>1, <1>4 DEF OpKnown
<1> QED
    BY <1>2, <1>5, StepKnown

LEMMA SwapKnown ==
    ASSUME IndNames, IndKnown, Swap
    PROVE  IndKnown'
<1>1. /\ op.it \in Intents /\ op'.it = op.it
      /\ \/ op'.pc = "verify" /\ dir' = Exchanged(Tmp(op.it), Path)
         \/ op'.pc = "record" /\ op'.published = FALSE
    BY SwapNames, StoreFacts
<1>2. data' = data /\ UNCHANGED store /\ Ours(Tmp(op.it), op.it.new)
    BY DEF Swap, IndKnown, OpKnown
<1>3. dir' = Exchanged(Tmp(op.it), Path) => At(Path)' = At(Tmp(op.it))
    <2>1. Tmp(op.it) \in Names /\ Path \in Names /\ Tmp(op.it) # Path
        BY <1>1, NameFacts
    <2> DEFINE a == Tmp(op.it)
    <2> HIDE DEF a
    <2>2. a \in Names /\ a # Path
        BY <2>1 DEF a
    <2>3. Exchanged(a, Path)[Path] = dir[a]
        BY <2>1, <2>2, StoreFacts, ExchangedDir
    <2> QED
        BY <1>2, <2>3, AtMoved DEF a
<1>4. op'.pc = "verify" => Ours(Path, op.it.new)'
    BY <1>1, <1>2, <1>3 DEF Ours
<1>5. OpKnown'
    BY <1>1, <1>4 DEF OpKnown
<1> QED
    BY <1>2, <1>5, StepKnown

LEMMA VerifyKnown ==
    ASSUME IndNames, IndKnown, Verify
    PROVE  IndKnown'
<1>1. /\ op.pc = "verify" /\ op'.pc \in {"stash", "restore"} /\ op'.it = op.it
      /\ dir' = dir /\ data' = data /\ UNCHANGED store
    BY VerifyLoop DEF Verify
<1>2. Ours(Path, op.it.new)'
    BY <1>1, AtMoved DEF IndKnown, OpKnown, Ours
<1>3. OpKnown'
    BY <1>1, <1>2 DEF OpKnown
<1> QED
    BY <1>1, <1>3, StepKnown

LEMMA StashKnown ==
    ASSUME IndNames, IndKnown, Stash
    PROVE  IndKnown'
<1>1. /\ op.pc = "stash" /\ op'.pc = "record" /\ op'.it = op.it /\ op'.published = op.published
      /\ dir' = Renamed(Tmp(op.it), Stashed(op.it)) /\ data' = data /\ UNCHANGED store
    BY StashNames DEF Stash
<1>2. op.it \in Intents
    BY StashNames, LoopFacts DEF Stash
<1>3. At(Path)' = At(Path)
    <2> DEFINE a == Tmp(op.it)
               b == Stashed(op.it)
    <2>1. a \in Names /\ b \in Names /\ Path \in Names /\ Path # a /\ Path # b /\ a # b
        BY <1>2, NameFacts
    <2> HIDE DEF a, b
    <2>2. Renamed(a, b)[Path] = dir[Path]
        BY <2>1, StoreFacts, RenamedDir
    <2> QED
        BY <1>1, <2>2, AtMoved DEF a, b
<1>4. op'.published /\ op'.it.new # None => Ours(Path, op.it.new)'
    BY <1>1, <1>3 DEF IndKnown, OpKnown, Ours
<1>5. OpKnown'
    BY <1>1, <1>4 DEF OpKnown
<1> QED
    BY <1>1, <1>5, StepKnown

LEMMA RestOfPublishKnown ==
    ASSUME IndNames, IndKnown,
           Restore \/ ExchangeBack \/ Check \/ Hold \/ MoveAside \/ VerifyMoved \/ MoveBack
    PROVE  IndKnown'
<1>1. \/ op'.pc \in {"putback", "hold", "check", "restore", "undo", "again", "moved", "return"}
      \/ op'.pc \in {"stash", "record"} /\ op'.published = FALSE
      \/ op'.pc = "record" /\ op'.it.new = None
    <2>1. VerifyMoved => op'.it.new = None
        BY VerifyMovedNames, DeleteFacts DEF VerifyMoved
    <2> QED
        BY <2>1, RestoreLoop, ExchangeBackLoop, CheckLoop, HoldNames, MoveAsideNames, VerifyMovedNames,
           MoveBackNames
<1>2. UNCHANGED store
    BY DEF Restore, ExchangeBack, Check, Hold, MoveAside, VerifyMoved, MoveBack
<1>3. OpKnown'
    BY <1>1 DEF OpKnown
<1> QED
    BY <1>2, <1>3, StepKnown

LEMMA RecordKnown ==
    ASSUME IndNames, IndKnown, Record
    PROVE  IndKnown'
<1>1. op.pc = "record" /\ op.it \in Intents /\ op' = Idle /\ out' = out
    BY RecordNames DEF Record
<1>2. db'.known = IF op.published THEN Recorded(op.it.new) ELSE db.known
    <2>1. db \in Databases
        BY StoreFacts
    <2> QED
        BY <2>1 DEF Record, Databases
<1>3. op.published => KnownOK(Recorded(op.it.new))
    BY <1>1, IntentKinds, RecordedIsTrue DEF IndKnown, OpKnown
<1>4. KnownOK(db'.known)
    BY <1>2, <1>3 DEF IndKnown
<1>5. OpKnown'
    BY <1>1, OpFields, OpIs DEF OpKnown
<1> QED
    BY <1>1, <1>4, <1>5 DEF IndKnown, KnownOK

\* A call that has ended rests on nothing.
LEMMA QuietKnown ==
    ASSUME op'.pc \in {"idle", "closed", "write", "aside", "drop", "release"}
    PROVE  OpKnown'
BY DEF OpKnown

LEMMA EndsKnown ==
    ASSUME IndNames, IndKnown,
           Fail \/ Crash \/ (\E expect \in ByteSet, new \in NewBytes : Publish(expect, new))
    PROVE  IndKnown'
<1>1. out' \subseteq out /\ op'.pc \in {"idle", "closed", "write", "aside"}
    BY PublishStart, OpFields, OpIs DEF Fail, Crash, Publish, store
<1>2. db'.known = db.known
    BY PublishStart DEF Fail, Crash, store
<1>3. OpKnown'
    BY <1>1, QuietKnown
<1> QED
    BY <1>1, <1>2, <1>3 DEF IndKnown, KnownOK

\* A write is found published only if the path has its bytes.
LEMMA FoundKnown ==
    ASSUME IndNames, NEW it \in Intents, it.new # None, FoundFor(it).state = "published"
    PROVE  At(Path) = it.new
<1>1. FoundFor(it).state =
          IF Exists(Tmp(it)) /\ At(Tmp(it)) # it.new /\ it.expect # None
          THEN IF Tmp(it) \in ({a \in Left(Stashed(it)) : At(a) \in {it.expect, it.new}}
                      \cup {a \in Left(Tmp(it)) : At(a) \in {it.expect, it.new} \/ it.expect = None})
                  /\ At(Path) = it.new THEN "published" ELSE "drifted"
          ELSE Judge(it)
    BY DEF FoundFor, FoundWrite
<1>2. At(Path) = it.new \/ FoundFor(it).state = Judge(it)
    BY <1>1
<1>3. Judge(it) = "published" => At(Path) = it.new
    BY DEF Judge
<1> QED
    BY <1>2, <1>3

LEMMA RecoveryKnown ==
    ASSUME IndNames, IndKnown, RecoveryStep
    PROVE  IndKnown'
<1>1. ASSUME Open PROVE IndKnown'
    <2>1. op'.pc = "look" /\ op'.db = db /\ UNCHANGED store
        BY <1>1 DEF Open
    <2>2. OpKnown'
        BY <2>1 DEF OpKnown, KnownOK, IndKnown
    <2> QED
        BY <2>1, <2>2, StepKnown
<1>2. ASSUME Look PROVE IndKnown'
    <2>1. /\ op.pc = "look" /\ op'.pc = "resolve" /\ op'.db = op.db /\ op'.next \in Intents
          /\ op'.found = FoundFor(op'.next) /\ UNCHANGED <<dir, data, store>>
        BY <1>2, LookNames DEF Look, store
    <2>2. op'.found.state = "published" /\ op'.next.new # None => Ours(Path, op'.next.new)
        BY <2>1, FoundKnown DEF Ours
    <2>3. Ours(Path, op.next.new)' <=> Ours(Path, op'.next.new)
        BY <2>1, AtMoved DEF Ours
    <2>4. KnownOK(op.db.known)
        BY <2>1 DEF IndKnown, OpKnown
    <2>5. OpKnown'
        BY <2>1, <2>2, <2>3, <2>4 DEF OpKnown, KnownOK
    <2> QED
        BY <2>1, <2>5, StepKnown DEF store
<1>3. ASSUME Resolve PROVE IndKnown'
    <2>1. /\ op.pc = "resolve" /\ op'.pc = "look" /\ op.next \in Intents /\ UNCHANGED store
          /\ op'.db.known = IF op.found.state = "published" THEN Recorded(op.next.new)
                            ELSE op.db.known
        BY <1>3, ResolveNames DEF Resolve
    <2>2. op.found.state = "published" => KnownOK(Recorded(op.next.new))
        BY <2>1, IntentKinds, RecordedIsTrue DEF IndKnown, OpKnown
    <2>3. KnownOK(op'.db.known)
        BY <2>1, <2>2 DEF IndKnown, OpKnown
    <2>4. OpKnown'
        BY <2>1, <2>3 DEF OpKnown, KnownOK
    <2> QED
        BY <2>1, <2>4, StepKnown
<1>4. ASSUME Recovered PROVE IndKnown'
    <2>1. op.pc = "look" /\ db' = op.db /\ out' = out /\ op' = Idle
        BY <1>4 DEF Recovered
    <2>2. OpKnown'
        BY <2>1, OpIs, OpFields, QuietKnown
    <2> QED
        BY <2>1, <2>2 DEF IndKnown, OpKnown, KnownOK
<1> QED
    BY <1>1, <1>2, <1>3, <1>4 DEF RecoveryStep

LEMMA ObservingKnown ==
    ASSUME IndNames, IndKnown, Observing
    PROVE  IndKnown'
<1>1. op = Idle /\ op' = op
    BY DEF Observing, CheckPath, EmitGone, Deliver
<1>2. OpKnown'
    BY <1>1, OpIs, OpFields, QuietKnown
<1>3. ASSUME CheckPath PROVE IndKnown'
    <2>1. /\ db' = db \/ db' = [db EXCEPT !.known = Seen]
          /\ out' = out \/ out' = out \cup {[from |-> Path, seen |-> Seen]}
        BY <1>3, CheckPathNames
    <2>2. db'.known = db.known \/ db'.known = Seen
        BY <2>1, StoreFacts DEF Databases
    <2>3. \A o \in out' : o \in out \/ o.seen = Seen
        BY <2>1
    <2> QED
        BY <1>2, <2>2, <2>3, KnownReads DEF IndKnown, KnownOK
<1>4. ASSUME EmitGone PROVE IndKnown'
    <2>1. db' = db /\ \A o \in out' : o \in out \/ o.seen = NoFile
        BY <1>4 DEF EmitGone, Emit
    <2> QED
        BY <1>2, <2>1, KnownReads DEF IndKnown, KnownOK
<1>5. ASSUME NEW name \in db.evidence, Deliver(name) PROVE IndKnown'
    <2>1. db' = db /\ \A o \in out' : o \in out \/ o.seen = [rev |-> At(name), of |-> Meta(name)]
        BY <1>5 DEF Deliver, Emit
    <2> QED
        BY <1>2, <2>1, KnownReads DEF IndKnown, KnownOK
<1> QED
    BY <1>3, <1>4, <1>5 DEF Observing

LEMMA AckKnown ==
    ASSUME IndNames, IndKnown, Capturing \/ Ack \/ DropRow \/ Settling
    PROVE  IndKnown'
<1>1. ASSUME NEW o \in out, Capture(o) PROVE IndKnown'
    <2>1. op'.pc = "ack" /\ op'.o = o /\ db' = db /\ out' \subseteq out
        BY <1>1 DEF Capture
    <2>2. OpKnown'
        BY <2>1 DEF OpKnown, KnownOK, IndKnown
    <2> QED
        BY <2>1, <2>2 DEF IndKnown, KnownOK
<1>2. ASSUME Ack PROVE IndKnown'
    <2>1. op.pc = "ack" /\ out' = out /\ KnownOK(op.o.seen)
        BY <1>2 DEF Ack, IndKnown, OpKnown
    <2>2. /\ op'.pc \in {"idle", "drop"}
          /\ db'.known = db.known \/ db'.known = op.o.seen
        BY <1>2, StoreFacts, OpIs, OpFields DEF Ack, Databases
    <2>3. OpKnown'
        BY <2>2, QuietKnown
    <2> QED
        BY <2>1, <2>2, <2>3 DEF IndKnown, KnownOK
<1>3. ASSUME DropRow PROVE IndKnown'
    <2>1. db'.known = db.known /\ out' = out /\ op' = Idle
        BY <1>3, DropRowNames DEF DropRow
    <2>2. OpKnown'
        BY <2>1, OpIs, OpFields, QuietKnown
    <2> QED
        BY <2>1, <2>2 DEF IndKnown, KnownOK
<1>4. ASSUME NEW r \in db.retained, Settle(r) PROVE IndKnown'
    <2>1. db'.known = db.known /\ out' = out /\ op'.pc \in {"idle", "release"}
        BY <1>4, SettleNames, OpIs, OpFields DEF Settle
    <2>2. OpKnown'
        BY <2>1, QuietKnown
    <2> QED
        BY <2>1, <2>2 DEF IndKnown, KnownOK
<1>5. ASSUME Release PROVE IndKnown'
    <2>1. db' = db /\ out' = out /\ op'.pc = "drop"
        BY <1>5 DEF Release, store
    <2>2. OpKnown'
        BY <2>1, QuietKnown
    <2> QED
        BY <2>1, <2>2 DEF IndKnown, KnownOK
<1> QED
    BY <1>1, <1>2, <1>3, <1>4, <1>5 DEF Capturing, Settling

LEMMA NextKnown ==
    ASSUME IndNames, IndKnown, [Next]_vars
    PROVE  IndKnown'
<1>1. ASSUME Replica PROVE IndKnown'
    BY <1>1, ReplicaIs, EndsKnown
<1>2. ASSUME PublishStep PROVE IndKnown'
    BY <1>2, WriteTempKnown, CreateKnown, SwapKnown, VerifyKnown, StashKnown, RestOfPublishKnown,
       RecordKnown DEF PublishStep
<1>3. ASSUME UNCHANGED vars PROVE IndKnown'
    <2>1. op' = op /\ dir' = dir /\ data' = data /\ UNCHANGED store
        BY <1>3 DEF vars, store
    <2>2. OpKnown'
        BY <2>1 DEF IndKnown, OpKnown, KnownOK, Ours, At, Exists, Tmp
    <2> QED
        BY <2>1, <2>2, StepKnown
<1> QED
    BY <1>1, <1>2, <1>3, UserKnown, EndsKnown, RecoveryKnown, ObservingKnown, AckKnown DEF Next

\* A file that is skipped, because its metadata is what was last recorded, holds the revision
\* that is recorded with them, or a user's save of the very size of a published version:
\* beyond that comparison of sizes, record_published, recover and ack never pair one file's
\* metadata with another's bytes.
THEOREM KnownAlwaysUpToSize == Spec => []KnownUpToSize
<1>1. Init => IndKnown
    <2> SUFFICES ASSUME Init PROVE IndKnown
        OBVIOUS
    <2>1. db.known = Seen /\ out = {} /\ op.pc = "idle"
        BY InitNames, OpIs, OpFields
    <2> QED
        BY <2>1, KnownReads DEF IndKnown, OpKnown
<1>2. IndNames /\ IndKnown /\ [Next]_vars => IndKnown'
    BY NextKnown
<1>3. IndKnown => KnownUpToSize
    <2> SUFFICES ASSUME IndKnown, dir[Path] # 0, db.known.of = Meta(Path)
                 PROVE  \/ db.known.rev = At(Path)
                        \/ Users(At(Path)) /\ SizeOf(At(Path)) = SizeOf(db.known.rev)
        BY DEF KnownUpToSize, Exists
    <2>1. Meta(Path) # NoMeta /\ Meta(Path).bytes = At(Path)
        <3>1. Meta(Path).ino = dir[Path] /\ Meta(Path).bytes = At(Path) /\ NoMeta.ino = 0
            BY DEF Meta, NoMeta
        <3> QED
            BY <3>1
    <2>2. \/ db.known.rev = At(Path)
          \/ At(Path)[1] = "user" /\ At(Path)[2] \in SameSize /\ db.known.rev[1] = "store"
        BY <2>1 DEF IndKnown, KnownOK
    <2> QED
        BY <2>2 DEF Users, SizeOf
<1> QED
    BY <1>1, <1>2, <1>3, NamesInvariant, PTL DEF Spec

-----------------------------------------------------------------------------
(***************************************************************************)
(* What users wrote, and nobody has been handed.                           *)
(***************************************************************************)
LEMMA LinkIs ==
    ASSUME IndNames
    PROVE  \A name \in Names : dir[name] # 0 => dir[name] \in 1..Len(data)
<1> DEFINE n == Len(data)
<1>1. Directory(dir, n) /\ n \in Nat
    BY StoreFacts
<1> HIDE DEF n
<1>2. \A name \in Names : dir[name] # 0 => dir[name] \in 1..n
    BY <1>1 DEF Directory
<1> QED
    BY <1>2 DEF n

LEMMA SafeGrows ==
    ASSUME IndNames, count.save <= count'.save, count'.save \in Nat, owed' \subseteq owed \cup {NextSave}
    PROVE  \A b \in ByteSet : (Safe(b) => Safe(b)') /\ (Old(b) => Old(b)')
<1> SUFFICES ASSUME NEW b \in ByteSet
             PROVE  (Safe(b) => Safe(b)') /\ (Old(b) => Old(b)')
    OBVIOUS
<1>1. b[2] \in Nat /\ count.save \in Nat
    BY StoreFacts DEF ByteSet
<1>2. Users(NextSave) /\ NextSave[2] = count.save + 1
    BY SaveIs
<1>3. Users(b)' <=> Users(b)
    BY DEF Users
<1> QED
    BY <1>1, <1>2, <1>3 DEF Safe, Old

LEMMA SafeSteady ==
    ASSUME count'.save = count.save, owed' \subseteq owed
    PROVE  /\ \A b : (Safe(b) => Safe(b)') /\ (Old(b) => Old(b)')
           /\ \A rows : SafeRows(rows) => SafeRows(rows)'
<1>1. \A b : Users(b)' <=> Users(b)
    BY DEF Users
<1> QED
    BY <1>1 DEF Safe, Old, SafeRows

\* A file stays as it was before it was ever at the path, or is removed.
LEMMA PristineKept ==
    ASSUME IndNames, NEW name \in Names, Pristine(name), fd' = fd,
           dir'[name] = dir[name] \/ dir'[name] = 0, \A i \in 1..Len(data) : data'[i] = data[i]
    PROVE  Pristine(name)'
<1>1. dir[name] # 0 => dir[name] \in 1..Len(data)
    BY LinkIs
<1>2. \A b : Users(b)' <=> Users(b)
    BY DEF Users
<1> QED
    BY <1>1, <1>2 DEF Pristine

\* A step that unlinks no file of which something is owed, or will be.
LEMMA DiskKept ==
    ASSUME IndNames, OwedDisk, count'.save = count.save, owed' \subseteq owed, fd' = fd,
           gone \subseteq gone', data' \in Seq(ByteSet), Len(data) <= Len(data'),
           \A i \in 1..Len(data) : data'[i] = data[i],
           \A i \in 1..Len(data') : i > Len(data) => ~Users(data'[i]),
           \A i \in 1..Len(data) :
               Linked(i) /\ (data[i] \in owed' \/ ((\E e \in Editors : fd[e] = i) /\ i \notin gone'))
                   => Linked(i)'
    PROVE  OwedDisk'
<1>1. Len(data) \in Nat /\ Len(data') \in Nat /\ fd \in [Editors -> 0..Len(data)]
    BY StoreFacts DEF IndNames, StoreTypeOK
<1>2. \A b : Users(b)' <=> Users(b)
    BY DEF Users
<1>3. ASSUME NEW v \in owed'
      PROVE  Users(v) /\ v[2] <= count.save /\ \E name \in Names : dir'[name] # 0 /\ data'[dir'[name]] = v
    <2>1. Users(v) /\ v[2] <= count.save
        BY DEF OwedDisk
    <2>2. PICK name \in Names : dir[name] # 0 /\ data[dir[name]] = v
        BY DEF OwedDisk
    <2>3. dir[name] \in 1..Len(data)
        BY <2>2, LinkIs
    <2>4. Linked(dir[name])
        BY DEF Linked
    <2> DEFINE i == dir[name]
    <2>5. i \in 1..Len(data) /\ Linked(i) /\ data[i] \in owed'
        BY <2>2, <2>3, <2>4
    <2> HIDE DEF i
    <2>6. \E c \in Names : dir'[c] = i
        BY <2>5 DEF Linked
    <2>7. i # 0 /\ data'[i] = v
        BY <2>2, <2>5 DEF i
    <2> QED
        BY <2>1, <2>6, <2>7
<1>4. ASSUME NEW e \in Editors, fd[e] # 0, fd[e] \notin gone'
      PROVE  \E name \in Names : dir'[name] = fd[e]
    <2> DEFINE i == fd[e]
    <2>1. i \in 1..Len(data) /\ Linked(i) /\ i \notin gone' /\ \E x \in Editors : fd[x] = i
        BY <1>1, <1>4 DEF OwedDisk
    <2> HIDE DEF i
    <2>2. \E name \in Names : dir'[name] = i
        BY <2>1 DEF Linked
    <2> QED
        BY <2>2 DEF i
<1>5. ASSUME NEW i \in 1..Len(data')
      PROVE  Users(data'[i]) => data'[i][2] <= count.save
    <2>1. CASE i <= Len(data)
        BY <1>1, <2>1 DEF OwedDisk, Old
    <2>2. CASE i > Len(data)
        BY <2>2
    <2> QED
        BY <1>1, <2>1, <2>2
<1> QED
    BY <1>2, <1>3, <1>4, <1>5 DEF OwedDisk, Old, Linked

\* The calls of the platform unlink no other file.
LEMMA RenamedLinks ==
    ASSUME IndNames, NEW a \in Names, NEW b \in Names, a # b, dir[b] = 0, NEW i, i # 0, Linked(i)
    PROVE  \E c \in Names : Renamed(a, b)[c] = i
<1>1. PICK c \in Names : dir[c] = i
    BY DEF Linked
<1> DEFINE n == Len(data)
<1>2. Directory(dir, n) /\ n \in Nat
    BY StoreFacts
<1> HIDE DEF n
<1>3. /\ Renamed(a, b)[b] = dir[a]
      /\ \A x \in Names : x # a /\ x # b => Renamed(a, b)[x] = dir[x]
    BY <1>2, RenamedDir
<1> QED
    BY <1>1, <1>3

LEMMA ExchangedLinks ==
    ASSUME IndNames, NEW a \in Names, NEW b \in Names, a # b, NEW i, Linked(i)
    PROVE  \E c \in Names : Exchanged(a, b)[c] = i
<1>1. PICK c \in Names : dir[c] = i
    BY DEF Linked
<1> DEFINE n == Len(data)
<1>2. Directory(dir, n) /\ n \in Nat
    BY StoreFacts
<1> HIDE DEF n
<1>3. /\ Exchanged(a, b)[a] = dir[b] /\ Exchanged(a, b)[b] = dir[a]
      /\ \A x \in Names : x # a /\ x # b => Exchanged(a, b)[x] = dir[x]
    BY <1>2, ExchangedDir
<1> QED
    BY <1>1, <1>3

LEMMA RemovedLinks ==
    ASSUME IndNames, NEW a \in Names, NEW i, Linked(i), i # dir[a]
    PROVE  \E c \in Names : Removed(a)[c] = i
<1>1. PICK c \in Names : dir[c] = i
    BY DEF Linked
<1> DEFINE n == Len(data)
<1>2. Directory(dir, n) /\ n \in Nat
    BY StoreFacts
<1> HIDE DEF n
<1>3. \A x \in Names : x # a => Removed(a)[x] = dir[x]
    BY <1>2, RemovedDir
<1> QED
    BY <1>1, <1>3

\* A step that moves files, or removes one that nobody wrote to.
LEMMA MovesKept ==
    ASSUME IndNames, OwedDisk, data' = data, count'.save = count.save, owed' = owed, fd' = fd, gone' = gone,
           \/ dir' = dir
           \/ \E a, b \in Names : a # b /\ dir[b] = 0 /\ dir' = Renamed(a, b)
           \/ \E a, b \in Names : a # b /\ dir' = Exchanged(a, b)
           \/ \E a \in Names : Pristine(a) /\ dir' = Removed(a)
    PROVE  OwedDisk'
<1>1. /\ data' \in Seq(ByteSet) /\ Len(data) <= Len(data') /\ Len(data) \in Nat
      /\ \A i \in 1..Len(data) : data'[i] = data[i]
      /\ \A i \in 1..Len(data') : i > Len(data) => ~Users(data'[i])
    BY StoreFacts
<1>2. ASSUME NEW i \in 1..Len(data), Linked(i), data[i] \in owed \/ \E e \in Editors : fd[e] = i
      PROVE  \E c \in Names : dir'[c] = i
    <2>1. i # 0
        BY <1>1
    <2>2. ASSUME dir' = dir PROVE \E c \in Names : dir'[c] = i
        BY <1>2, <2>2 DEF Linked
    <2>3. ASSUME NEW a \in Names, NEW b \in Names, a # b, dir[b] = 0, dir' = Renamed(a, b)
          PROVE  \E c \in Names : dir'[c] = i
        BY <1>2, <2>1, <2>3, RenamedLinks
    <2>4. ASSUME NEW a \in Names, NEW b \in Names, a # b, dir' = Exchanged(a, b)
          PROVE  \E c \in Names : dir'[c] = i
        BY <1>2, <2>4, ExchangedLinks
    <2>5. ASSUME NEW a \in Names, Pristine(a), dir' = Removed(a)
          PROVE  \E c \in Names : dir'[c] = i
        <3>1. i # dir[a]
            BY <1>2, <2>1, <2>5 DEF Pristine, OwedDisk
        <3> QED
            BY <1>2, <2>5, <3>1, RemovedLinks
    <2> QED
        BY <2>2, <2>3, <2>4, <2>5
<1>3. \A i \in 1..Len(data) :
          Linked(i) /\ (data[i] \in owed' \/ ((\E e \in Editors : fd[e] = i) /\ i \notin gone'))
              => Linked(i)'
    BY <1>2 DEF Linked
<1> QED
    BY <1>1, <1>3, DiskKept

\* A step that changes the rows in no way, and opens and writes no private file.
LEMMA RowsSteady ==
    ASSUME IndNames, OwedRows, count'.save = count.save, owed' \subseteq owed, captured' = captured,
           db'.intents \subseteq db.intents, SafeRows(db'.retained),
           \A o \in out' : o \in out \/ Old(o.seen.rev),
           \A it \in db.intents : it.expect = None /\ Pristine(Tmp(it)) => Pristine(Tmp(it))'
    PROVE  OwedRows'
<1>1. \A b : (Safe(b) => Safe(b)') /\ (Old(b) => Old(b)')
    BY SafeSteady
<1>2. \A r \in db'.retained : Safe(r.expect)'
    BY <1>1 DEF SafeRows
<1>3. \A o \in out' : Old(o.seen.rev)
    BY DEF OwedRows
<1>4. \A it \in db.intents : it.expect = None => Pristine(Tmp(it))'
    BY DEF OwedRows
<1>5. \A it \in db.intents : Safe(it.expect)'
    BY <1>1 DEF OwedRows
<1>6. \A b \in captured : Safe(b)'
    BY <1>1 DEF OwedRows
<1>7. \A o \in out' : Old(o.seen.rev)'
    BY <1>1, <1>3
<1> QED
    BY <1>2, <1>4, <1>5, <1>6, <1>7 DEF OwedRows, SafeRows, Safe, Old, Pristine, Tmp, Users

\* An editor's step leaves a file alone that nobody has open.
Untouched(name) ==
    Unopened(name) => /\ Unopened(name)' /\ dir'[name] = dir[name]
                      /\ dir[name] # 0 => data'[dir[name]] = data[dir[name]]

LEMMA UntouchedIs ==
    ASSUME IndNames, NEW name \in Names, fd' = fd, dir'[name] = dir[name],
           \A i \in 1..Len(data) : data'[i] = data[i]
    PROVE  Untouched(name)
<1>1. dir[name] # 0 => dir[name] \in 1..Len(data)
    BY LinkIs
<1> QED
    BY <1>1 DEF Untouched, Unopened

\* The tests and the rows of an editor's step.
LEMMA UserRows ==
    ASSUME IndNames, OwedRows, OwedOp, op' = op, UNCHANGED store,
           count.save <= count'.save, count'.save \in Nat, owed' \subseteq owed \cup {NextSave},
           \A name \in Private : Untouched(name)
    PROVE  OwedRows' /\ OwedOp'
<1>0. \A name \in Private : Pristine(name) => Pristine(name)'
    <2>1. \A b : Users(b)' <=> Users(b)
        BY DEF Users
    <2> QED
        BY <2>1 DEF Pristine, Unopened, Untouched
<1>1. db' = db /\ out' = out /\ captured' = captured
    BY DEF store
<1>2. \A b \in ByteSet : (Safe(b) => Safe(b)') /\ (Old(b) => Old(b)')
    BY SafeGrows
<1>3. \A rows \in SUBSET Rows : SafeRows(rows) => SafeRows(rows)'
    BY <1>2 DEF SafeRows, Rows
<1>4. /\ captured \subseteq ByteSet /\ db.intents \subseteq Intents /\ db.retained \in SUBSET Rows
      /\ \A o \in out : o.seen.rev \in ByteSet
    BY DEF IndNames, StoreTypeOK, Databases, Observations, KnownSet
<1>5. /\ \A it \in Intents : it.expect \in ByteSet /\ Tmp(it) \in Private
    BY NameFacts, IntentKinds
<1>6. /\ \A b \in captured : Safe(b)'
      /\ \A it \in db.intents : Safe(it.expect)'
      /\ \A it \in db.intents : it.expect = None => Pristine(Tmp(it))'
      /\ SafeRows(db.retained)'
      /\ \A o \in out : Old(o.seen.rev)'
    <2>1. \A b \in captured : Safe(b)'
        BY <1>2, <1>4 DEF OwedRows
    <2>2. \A it \in db.intents : Safe(it.expect)'
        BY <1>2, <1>4, <1>5 DEF OwedRows
    <2>3. \A it \in db.intents : it.expect = None => Pristine(Tmp(it))'
        BY <1>0, <1>4, <1>5 DEF OwedRows
    <2>4. SafeRows(db.retained)'
        <3>1. SafeRows(db.retained)
            BY DEF OwedRows
        <3>2. \A r \in db.retained : Safe(r.expect) /\ r.expect \in ByteSet
            BY <1>4, <3>1 DEF SafeRows, Rows
        <3> QED
            BY <1>1, <1>2, <3>2 DEF SafeRows
    <2>5. \A o \in out : Old(o.seen.rev)'
        BY <1>2, <1>4 DEF OwedRows
    <2> QED
        BY <2>1, <2>2, <2>3, <2>4, <2>5
<1>7. OwedRows'
    BY <1>1, <1>6 DEF OwedRows, SafeRows, Safe, Old, Pristine, Tmp, Users
<1>8. /\ op.pc \in {"create", "swap"} => Pristine(Tmp(op.it))'
      /\ op.pc = "stash" => Safe(op.expect)'
      /\ op.pc = "record" => SafeRows(op.retained)'
      /\ op.pc \in {"look", "resolve"} => SafeRows(op.db.retained)'
      /\ op.pc = "resolve" => SafeRows(op.found.retained)'
      /\ op.pc = "release" => /\ Safe(op.seen)'
                              /\ op.holders = "none" => Unopened(op.name)' /\ At(op.name)' = op.seen
    <2>1. /\ op.pc \in {"create", "swap"} => op.it \in Intents
          /\ op.pc = "stash" => op.expect \in ByteSet
          /\ op.pc = "record" => op.retained \in SUBSET Rows
          /\ op.pc = "look" => op.db \in Databases
          /\ op.pc = "resolve" => op.db \in Databases /\ op.found \in Findings
        BY StoreFacts, OpShapes, IntentKinds
        DEF OpCreate, OpSwap, OpLoop, LoopPcs, OpRecord, OpLook, OpResolve
    <2>2. op.pc \in {"look", "resolve"} => op.db.retained \in SUBSET Rows
        BY <2>1 DEF Databases
    <2>3. op.pc = "resolve" => op.found.retained \in SUBSET Rows
        BY <2>1 DEF Findings
    <2>4. ASSUME NEW rows \in SUBSET Rows, SafeRows(rows)
          PROVE  \A r \in rows : Safe(r.expect)'
        BY <1>2, <2>4 DEF SafeRows, Rows
    <2>5. op.pc = "record" => \A r \in op.retained : Safe(r.expect)'
        BY <2>1, <2>4 DEF OwedOp
    <2>6. op.pc \in {"look", "resolve"} => \A r \in op.db.retained : Safe(r.expect)'
        BY <2>2, <2>4 DEF OwedOp
    <2>7. op.pc = "resolve" => \A r \in op.found.retained : Safe(r.expect)'
        BY <2>3, <2>4 DEF OwedOp
    <2>8. op.pc = "stash" => Safe(op.expect)'
        BY <1>2, <2>1 DEF OwedOp, Safe
    <2>9. op.pc \in {"create", "swap"} => Pristine(Tmp(op.it))'
        <3>1. op.pc \in {"create", "swap"} => Tmp(op.it) \in Private
            BY <2>1, <1>5
        <3> QED
            BY <1>0, <3>1 DEF OwedOp, Pristine, Tmp
    <2>10. ASSUME op.pc = "release"
           PROVE  /\ Safe(op.seen)'
                  /\ op.holders = "none" => Unopened(op.name)' /\ At(op.name)' = op.seen
        <3>1. op.name \in Private /\ op.seen \in ByteSet
            BY <2>10, StoreFacts, OpShapes DEF OpRelease
        <3>2. Safe(op.seen)'
            BY <1>2, <2>10, <3>1 DEF OwedOp, Safe
        <3>3. Untouched(op.name)
            BY <3>1
        <3>4. ASSUME op.holders = "none"
              PROVE  Unopened(op.name)' /\ At(op.name)' = op.seen
            <4>1. Unopened(op.name) /\ At(op.name) = op.seen
                BY <2>10, <3>4 DEF OwedOp
            <4>2. /\ dir'[op.name] = dir[op.name] /\ Unopened(op.name)'
                  /\ dir[op.name] # 0 => data'[dir[op.name]] = data[dir[op.name]]
                BY <3>3, <4>1 DEF Untouched, Unopened
            <4> QED
                BY <4>1, <4>2 DEF At, Exists
        <3> QED
            BY <3>2, <3>4
    <2> QED
        BY <2>5, <2>6, <2>7, <2>8, <2>9, <2>10 DEF SafeRows
<1>9. OwedOp'
    BY <1>8 DEF OwedOp, SafeRows, Safe, Pristine, Unopened, At, Exists, Tmp, Users
<1> QED
    BY <1>7, <1>9

LEMMA SaveByRenameOwed ==
    ASSUME IndNames, IndOwed, NEW e \in Editors, SaveByRename(e)
    PROVE  IndOwed'
<1> DEFINE n == Len(data)
           b == NextSave
<1>1. /\ data' = NewFile(b) /\ dir' = LinkedAs(Path, n) /\ b \in ByteSet /\ Users(b)
      /\ b[2] = count.save + 1 /\ count.save \in Nat /\ IndNames'
    BY SaveByRenameNames, SaveIs
<1>2. Directory(dir, n) /\ n \in Nat /\ data \in Seq(ByteSet)
    BY StoreFacts
<1>3. /\ Len(data') = n + 1 /\ data'[n + 1] = b
      /\ \A i \in 1..n : data'[i] = data[i]
    BY <1>1, <1>2, NewFileData
<1>4. /\ gone' = gone \cup Range(dir) /\ owed' = (owed \ {At(Path)}) \cup {b} /\ fd' = fd
      /\ count'.save = count.save + 1 /\ op' = op /\ UNCHANGED store
    BY SaveIs DEF SaveByRename
<1>5. \A name \in Names : dir[name] # 0 => dir[name] \in 1..n
    BY LinkIs
<1>6. fd \in [Editors -> 0..n]
    BY DEF IndNames, StoreTypeOK
<1>7. dir \in [Names -> 0..n] /\ \A name \in Names : dir[name] \in Range(dir)
    BY <1>2 DEF Directory, Range
<1> HIDE DEF n, b
<1>8. dir'[Path] = n + 1 /\ \A c \in Names : c # Path => dir'[c] = dir[c]
    BY <1>1, <1>2, NameFacts, LinkedDir
<1>9. \A v \in owed' : /\ Users(v) /\ v[2] <= count.save + 1
                       /\ \E name \in Names : dir'[name] # 0 /\ data'[dir'[name]] = v
    <2> SUFFICES ASSUME NEW v \in owed'
                 PROVE  /\ Users(v) /\ v[2] <= count.save + 1
                        /\ \E name \in Names : dir'[name] # 0 /\ data'[dir'[name]] = v
        OBVIOUS
    <2>1. CASE v = b
        BY <1>1, <1>2, <1>3, <1>8, <2>1, NameFacts
    <2>2. CASE v \in owed /\ v # At(Path)
        <3>1. PICK name \in Names : dir[name] # 0 /\ data[dir[name]] = v
            BY <2>2 DEF IndOwed, OwedDisk
        <3>2. name # Path
            BY <2>2, <3>1 DEF At, Exists
        <3>3. Users(v) /\ v[2] <= count.save /\ v \in ByteSet
            BY <2>2 DEF IndOwed, OwedDisk, IndNames, StoreTypeOK
        <3>4. v[2] \in Nat
            BY <3>3 DEF ByteSet
        <3> QED
            BY <1>1, <1>3, <1>5, <1>8, <3>1, <3>2, <3>3, <3>4
    <2> QED
        BY <1>4, <2>1, <2>2
<1>10. \A x \in Editors : fd'[x] # 0 => fd'[x] \in gone'
    BY <1>4, <1>7 DEF IndOwed, OwedDisk, Linked
<1>11. \A i \in 1..Len(data') : Users(data'[i]) => data'[i][2] <= count.save + 1
    <2> SUFFICES ASSUME NEW i \in 1..Len(data'), Users(data'[i])
                 PROVE  data'[i][2] <= count.save + 1
        OBVIOUS
    <2>1. CASE i = n + 1
        BY <1>1, <1>3, <2>1
    <2>2. CASE i \in 1..n
        <3>1. Users(data[i]) => data[i][2] <= count.save
            BY <2>2 DEF IndOwed, OwedDisk, Old, n
        <3>2. data[i][2] \in Nat
            <4>1. data[i] \in ByteSet
                BY <1>2, <2>2, ElementOfSeq DEF n
            <4> QED
                BY <4>1 DEF ByteSet
        <3> QED
            BY <1>1, <1>3, <2>2, <3>1, <3>2
    <2> QED
        BY <1>2, <1>3, <2>1, <2>2
<1>12. OwedDisk'
    BY <1>4, <1>9, <1>10, <1>11 DEF OwedDisk, Old, Users
<1>13. \A name \in Private : Untouched(name)
    <2> SUFFICES ASSUME NEW name \in Private PROVE Untouched(name)
        OBVIOUS
    <2>1. name \in Names /\ dir'[name] = dir[name] /\ \A i \in 1..Len(data) : data'[i] = data[i]
        BY <1>3, <1>8, NameFacts DEF n
    <2> QED
        BY <1>4, <2>1, UntouchedIs
<1>14. OwedRows' /\ OwedOp'
    <2>1. count.save <= count'.save /\ count'.save \in Nat
        BY <1>1, <1>4
    <2>2. owed' \subseteq owed \cup {NextSave}
        BY <1>4 DEF b
    <2> QED
        BY <1>4, <1>13, <2>1, <2>2, UserRows DEF IndOwed
<1> QED
    BY <1>12, <1>14 DEF IndOwed

\* The bytes of a file that is at the path, or open, are replaced.
LEMMA OverwriteOwed ==
    ASSUME IndNames, IndOwed, NEW i \in 1..Len(data), NEW b \in ByteSet, data' = Written(i, b), dir' = dir,
           gone' = gone, op' = op, UNCHANGED store,
           Users(b) => b[2] <= count'.save, count.save <= count'.save, count'.save \in Nat,
           owed' \subseteq owed \cup {NextSave}, data[i] \notin owed',
           \A v \in owed' \ owed : Users(v) /\ v[2] <= count'.save /\ v = b /\ Linked(i),
           \A x \in Editors : fd'[x] # 0 /\ fd'[x] \notin gone => Linked(fd'[x]),
           \A name \in Private : Unopened(name) => dir[name] # i /\ \A x \in Editors : dir[name] # 0 => fd'[x] # dir[name]
    PROVE  IndOwed'
<1>1. /\ Len(data') = Len(data) /\ data'[i] = b /\ data \in Seq(ByteSet) /\ Len(data) \in Nat
      /\ \A j \in 1..Len(data) : j # i => data'[j] = data[j]
    <2>1. data \in Seq(ByteSet) /\ Len(data) \in Nat
        BY StoreFacts
    <2>2. /\ Len(Written(i, b)) = Len(data) /\ Written(i, b)[i] = b
          /\ \A j \in 1..Len(data) : j # i => Written(i, b)[j] = data[j]
        BY <2>1, WrittenData
    <2> QED
        BY <2>1, <2>2
<1>2. \A v : Users(v)' <=> Users(v)
    BY DEF Users
<1>3. ASSUME NEW v \in owed'
      PROVE  /\ Users(v) /\ v[2] <= count'.save
             /\ \E name \in Names : dir'[name] # 0 /\ data'[dir'[name]] = v
    <2>1. CASE v \in owed
        <3>1. PICK name \in Names : dir[name] # 0 /\ data[dir[name]] = v
            BY <2>1 DEF IndOwed, OwedDisk
        <3>2. dir[name] # i /\ dir[name] \in 1..Len(data)
            BY <3>1, LinkIs
        <3>3. Users(v) /\ v[2] <= count.save /\ v[2] \in Nat /\ count.save \in Nat
            <4>1. v \in ByteSet
                BY <2>1 DEF IndNames, StoreTypeOK
            <4> QED
                BY <2>1, <4>1, StoreFacts DEF IndOwed, OwedDisk, ByteSet
        <3> QED
            BY <1>1, <3>1, <3>2, <3>3
    <2>2. CASE v \notin owed
        <3>1. PICK name \in Names : dir[name] = i
            BY <2>2 DEF Linked
        <3>2. dir'[name] # 0 /\ data'[dir'[name]] = b
            BY <1>1, <3>1
        <3> QED
            BY <2>2, <3>2
    <2> QED
        BY <2>1, <2>2
<1>4. ASSUME NEW j \in 1..Len(data')
      PROVE  Users(data'[j]) => data'[j][2] <= count'.save
    <2>1. CASE j = i
        BY <1>1, <2>1
    <2>2. CASE j # i
        <3>1. Users(data[j]) => data[j][2] <= count.save
            BY <1>1 DEF IndOwed, OwedDisk, Old
        <3>2. data[j][2] \in Nat /\ count.save \in Nat
            <4>1. data[j] \in ByteSet
                BY <1>1, ElementOfSeq
            <4> QED
                BY <4>1, StoreFacts DEF ByteSet
        <3> QED
            BY <1>1, <2>2, <3>1, <3>2
    <2> QED
        BY <2>1, <2>2
<1>5. OwedDisk'
    BY <1>2, <1>3, <1>4 DEF OwedDisk, Old, Linked
<1>6. \A name \in Private : Untouched(name)
    <2> SUFFICES ASSUME NEW name \in Private, Unopened(name)
                 PROVE  /\ dir'[name] # 0 => \A x \in Editors : fd'[x] # dir'[name]
                        /\ dir'[name] = dir[name]
                        /\ dir[name] # 0 => data'[dir[name]] = data[dir[name]]
        BY DEF Untouched, Unopened
    <2>1. dir[name] # 0 => dir[name] \in 1..Len(data) /\ dir[name] # i
        BY LinkIs, NameFacts
    <2> QED
        BY <1>1, <2>1 DEF Unopened
<1>7. OwedRows' /\ OwedOp'
    BY <1>6, UserRows DEF IndOwed
<1> QED
    BY <1>5, <1>7 DEF IndOwed

LEMMA OpenToWriteOwed ==
    ASSUME IndNames, IndOwed, NEW e \in Editors, NEW truncate \in BOOLEAN, OpenToWrite(e, truncate)
    PROVE  IndOwed'
<1> DEFINE i == dir[Path]
<1>1. /\ i \in 1..Len(data) /\ dir' = dir /\ fd' = [fd EXCEPT ![e] = i]
      /\ IF truncate THEN data' = Written(i, Empty) /\ owed' = owed \ {At(Path)}
         ELSE data' = data /\ owed' = owed
    BY OpenToWriteNames
<1>2. gone' = gone /\ count' = count /\ op' = op /\ UNCHANGED store
    BY DEF OpenToWrite
<1>3. At(Path) = data[i] /\ count.save \in Nat /\ count'.save = count.save
    BY <1>1, <1>2, StoreFacts DEF At, Exists
<1>4. Linked(i) /\ i # 0
    BY <1>1, NameFacts, StoreFacts DEF Linked
<1>5. \A name \in Private : dir[name] # i
    BY <1>4, NameFacts, StoreFacts DEF Directory, Injective
<1> HIDE DEF i
<1>6. \A x \in Editors : fd'[x] = fd[x] \/ fd'[x] = i
    BY <1>1 DEF IndNames, StoreTypeOK
<1>7. \A x \in Editors : fd'[x] # 0 /\ fd'[x] \notin gone => Linked(fd'[x])
    BY <1>4, <1>6 DEF IndOwed, OwedDisk
<1>8. \A name \in Private : Unopened(name) =>
          dir[name] # i /\ \A x \in Editors : dir[name] # 0 => fd'[x] # dir[name]
    BY <1>5, <1>6 DEF Unopened
<1>9. CASE truncate
    <2>1. Empty \in ByteSet /\ ~Users(Empty)
        BY Kinds
    <2>2. owed' = owed \ {data[i]} /\ data' = Written(i, Empty)
        BY <1>1, <1>3, <1>9
    <2>3. count.save <= count'.save /\ count'.save \in Nat
        BY <1>3
    <2>4. /\ owed' \subseteq owed \cup {NextSave} /\ data[i] \notin owed' /\ ~\E v \in owed' : v \notin owed
        BY <2>2
    <2> QED
        BY <1>1, <1>2, <1>7, <1>8, <2>1, <2>2, <2>3, <2>4, OverwriteOwed
<1>10. CASE ~truncate
    <2>1. data' = data /\ owed' = owed
        BY <1>1, <1>10
    <2>2. OwedDisk'
        <3>1. \A v : Users(v)' <=> Users(v)
            BY DEF Users
        <3> QED
            BY <1>1, <1>2, <1>7, <2>1, <3>1 DEF IndOwed, OwedDisk, Old, Linked
    <2>3. \A name \in Private : Untouched(name)
        BY <1>1, <1>8, <2>1 DEF Untouched, Unopened
    <2>4. count.save <= count'.save /\ count'.save \in Nat /\ owed' \subseteq owed \cup {NextSave}
        BY <1>3, <2>1
    <2> QED
        BY <1>2, <2>2, <2>3, <2>4, UserRows DEF IndOwed
<1> QED
    BY <1>9, <1>10

LEMMA WriteAndCloseOwed ==
    ASSUME IndNames, IndOwed, NEW e \in Editors, WriteAndClose(e)
    PROVE  IndOwed'
<1> DEFINE i == fd[e]
           b == NextSave
<1>1. i \in 1..Len(data) /\ dir' = dir /\ data' = Written(i, b)
    BY WriteAndCloseNames
<1>2. /\ gone' = gone /\ op' = op /\ UNCHANGED store /\ fd' = [fd EXCEPT ![e] = 0]
      /\ owed' = (owed \ {data[i]}) \cup (IF i \in gone THEN {} ELSE {b})
    BY DEF WriteAndClose
<1>3. /\ count'.save = count.save + 1 /\ count.save \in Nat /\ b \in ByteSet /\ Users(b)
      /\ b[2] = count.save + 1
    BY SaveIs DEF WriteAndClose
<1>4. fd \in [Editors -> 0..Len(data)] /\ Len(data) \in Nat
    BY DEF IndNames, StoreTypeOK
<1>5. data[i] # b
    <2>1. Users(data[i]) => data[i][2] <= count.save
        BY <1>1 DEF IndOwed, OwedDisk, Old
    <2> QED
        BY <1>3, <2>1
<1>6. i \notin gone => Linked(i)
    BY <1>1 DEF IndOwed, OwedDisk
<1> HIDE DEF i, b
<1>7. \A x \in Editors : fd'[x] = fd[x] \/ fd'[x] = 0
    BY <1>2, <1>4
<1>8. \A x \in Editors : fd'[x] # 0 /\ fd'[x] \notin gone => Linked(fd'[x])
    BY <1>7 DEF IndOwed, OwedDisk
<1>9. \A name \in Private : Unopened(name) =>
          dir[name] # i /\ \A x \in Editors : dir[name] # 0 => fd'[x] # dir[name]
    <2>1. i # 0 /\ i = fd[e]
        BY <1>1 DEF i
    <2> QED
        BY <1>7, <2>1 DEF Unopened
<1>10. /\ owed' \subseteq owed \cup {NextSave} /\ data[i] \notin owed'
       /\ \A v \in owed' \ owed : v = b /\ Linked(i)
    BY <1>2, <1>5, <1>6 DEF b
<1>11. count.save <= count'.save /\ count'.save \in Nat /\ b[2] <= count'.save
    BY <1>3
<1> QED
    BY <1>1, <1>2, <1>3, <1>8, <1>9, <1>10, <1>11, OverwriteOwed

LEMMA UserDeleteOwed ==
    ASSUME IndNames, IndOwed, NEW e \in Editors, UserDelete(e)
    PROVE  IndOwed'
<1> DEFINE n == Len(data)
<1>1. /\ dir' = Removed(Path) /\ data' = data /\ fd' = fd /\ op' = op /\ UNCHANGED store
      /\ owed' = owed \ {At(Path)} /\ gone' = gone \cup Range(dir)
    BY DEF UserDelete
<1>2. count'.save = count.save /\ count.save \in Nat
    BY SaveIs DEF UserDelete
<1>3. Directory(dir, n) /\ n \in Nat /\ data \in Seq(ByteSet)
    BY StoreFacts
<1>4. \A name \in Names : dir[name] \in Range(dir)
    BY <1>3 DEF Directory, Range
<1>5. \A i \in 1..Len(data) :
          Linked(i) /\ (data[i] \in owed' \/ ((\E x \in Editors : fd[x] = i) /\ i \notin gone'))
              => Linked(i)'
    <2> SUFFICES ASSUME NEW i \in 1..Len(data), Linked(i), data[i] \in owed' \/ i \notin gone'
                 PROVE  \E c \in Names : dir'[c] = i
        BY DEF Linked
    <2>1. i \in gone'
        BY <1>1, <1>4 DEF Linked
    <2>2. i # 0 /\ data[i] # At(Path)
        BY <1>1, <1>3, <2>1
    <2>3. i # dir[Path]
        BY <2>2 DEF At, Exists
    <2> QED
        BY <1>1, <2>3, NameFacts, RemovedLinks
<1>6. OwedDisk'
    <2>1. /\ owed' \subseteq owed /\ gone \subseteq gone' /\ Len(data) <= Len(data')
          /\ \A i \in 1..Len(data') : i > Len(data) => ~Users(data'[i])
        BY <1>1, <1>3
    <2> QED
        BY <1>1, <1>2, <1>3, <1>5, <2>1, DiskKept DEF IndOwed
<1>7. \A name \in Private : Untouched(name)
    <2> SUFFICES ASSUME NEW name \in Private PROVE Untouched(name)
        OBVIOUS
    <2> HIDE DEF n
    <2>1. \A c \in Names : c # Path => Removed(Path)[c] = dir[c]
        BY <1>3, NameFacts, RemovedDir
    <2>2. name \in Names /\ dir'[name] = dir[name]
        BY <1>1, <2>1, NameFacts
    <2> QED
        BY <1>1, <2>2, UntouchedIs
<1>8. count.save <= count'.save /\ count'.save \in Nat /\ owed' \subseteq owed \cup {NextSave}
    BY <1>1, <1>2
<1> QED
    BY <1>1, <1>6, <1>7, <1>8, UserRows DEF IndOwed

\* A step of a publish that moves its own files, or removes a temp that nobody wrote to.
LEMMA MovesOwed ==
    ASSUME IndNames, IndOwed, op \in Publishers, data' = data, UNCHANGED <<store, user>>,
           \/ dir' = dir
           \/ \E a, b \in {Path, Tmp(op.it), Stashed(op.it), Held(op.it)} :
                  a # b /\ dir[b] = 0 /\ b # Tmp(op.it) /\ dir' = Renamed(a, b)
           \/ op.it \in Replaces /\ dir' = Exchanged(Tmp(op.it), Path)
           \/ Pristine(Tmp(op.it)) /\ dir' = Removed(Tmp(op.it))
    PROVE  OwedDisk' /\ OwedRows'
<1> DEFINE it == op.it
           n == Len(data)
<1>1. /\ db' = db /\ out' = out /\ fd' = fd /\ captured' = captured /\ owed' = owed /\ count' = count
      /\ gone' = gone
    BY DEF store, user
<1>2. it \in Intents /\ it \in db.intents /\ db.intents \subseteq Intents /\ NamesOK
    BY PublishFacts, StoreFacts DEF IndNames
<1>3. /\ {Path, Tmp(it), Stashed(it), Held(it)} \subseteq Names /\ Tmp(it) # Path
      /\ \A x \in Intents : x.n # it.n => Tmp(x) \notin {Path, Tmp(it), Stashed(it), Held(it)}
      /\ \A x \in Intents : Tmp(x) \in Names
    BY <1>2, NameFacts
<1>4. OwedDisk'
    BY <1>1, <1>3, MovesKept DEF IndOwed
<1>5. Directory(dir, n) /\ n \in Nat
    BY StoreFacts
<1> HIDE DEF it, n
<1>6. ASSUME NEW x \in db.intents, x.expect = None
      PROVE  dir'[Tmp(x)] = dir[Tmp(x)] \/ dir'[Tmp(x)] = 0
    <2>1. x # it => Tmp(x) \notin {Path, Tmp(it), Stashed(it), Held(it)}
        BY <1>2, <1>3 DEF NamesOK
    <2>2. Tmp(x) \in Names
        BY <1>2, <1>3
    <2>3. ASSUME NEW a \in {Path, Tmp(it), Stashed(it), Held(it)},
                 NEW b \in {Path, Tmp(it), Stashed(it), Held(it)},
                 a # b, b # Tmp(it), dir' = Renamed(a, b)
          PROVE  dir'[Tmp(x)] = dir[Tmp(x)] \/ dir'[Tmp(x)] = 0
        <3>1. a \in Names /\ b \in Names
            BY <1>3
        <3>2. Renamed(a, b)[a] = 0 /\ \A c \in Names : c # a /\ c # b => Renamed(a, b)[c] = dir[c]
            BY <1>5, <2>3, <3>1, RenamedDir
        <3>3. Tmp(x) # b
            BY <2>1, <2>3
        <3> QED
            BY <2>2, <2>3, <3>2, <3>3
    <2>4. ASSUME it \in Replaces, dir' = Exchanged(Tmp(it), Path)
          PROVE  dir'[Tmp(x)] = dir[Tmp(x)]
        <3>1. x # it
            BY <1>6, <2>4 DEF Replaces
        <3>2. \A c \in Names : c # Tmp(it) /\ c # Path => Exchanged(Tmp(it), Path)[c] = dir[c]
            BY <1>3, <1>5, ExchangedDir
        <3> QED
            BY <2>1, <2>2, <2>4, <3>1, <3>2
    <2>5. ASSUME dir' = Removed(Tmp(it))
          PROVE  dir'[Tmp(x)] = dir[Tmp(x)] \/ dir'[Tmp(x)] = 0
        BY <1>3, <1>5, <2>2, <2>5, RemovedDir
    <2> QED
        BY <2>3, <2>4, <2>5 DEF it
<1>7. ASSUME NEW x \in db.intents, x.expect = None, Pristine(Tmp(x))
      PROVE  Pristine(Tmp(x))'
    <2> DEFINE a == Tmp(x)
    <2>1. a \in Names /\ Pristine(a) /\ (dir'[a] = dir[a] \/ dir'[a] = 0)
        BY <1>2, <1>3, <1>6, <1>7
    <2> HIDE DEF a
    <2>2. Pristine(a)'
        BY <1>1, <2>1, PristineKept
    <2> QED
        BY <2>2 DEF a, Tmp, Pristine, Users
<1>8. OwedRows'
    <2>1. /\ SafeRows(db'.retained) /\ \A o \in out' : o \in out \/ Old(o.seen.rev)
          /\ \A x \in db.intents : x.expect = None /\ Pristine(Tmp(x)) => Pristine(Tmp(x))'
        BY <1>1, <1>7 DEF IndOwed, OwedRows
    <2> QED
        BY <1>1, <2>1, RowsSteady DEF IndOwed
<1> QED
    BY <1>4, <1>8

\* What nobody wrote is owed to nobody.
LEMMA StoreSafe ==
    ASSUME OwedDisk
    PROVE  \A b : ~Users(b) => Safe(b)
BY DEF OwedDisk, Safe

LEMMA IntentSafe ==
    ASSUME IndOwed, NEW it \in db.intents, IndNames
    PROVE  Safe(it.expect) /\ Safe(it.new)
<1>1. it.new \in NewBytes
    BY StoreFacts, IntentKinds
<1> QED
    BY <1>1, Kinds, StoreSafe DEF IndOwed, OwedRows

LEMMA PublishStepOwed ==
    ASSUME IndNames, IndOwed,
           Create \/ Swap \/ Verify \/ Stash \/ Restore \/ ExchangeBack \/ Check \/ Hold
               \/ MoveAside \/ VerifyMoved \/ MoveBack
    PROVE  IndOwed'
<1> DEFINE it == op.it
<1>1. /\ data' = data /\ UNCHANGED <<store, user>>
      /\ op.pc \in {"create", "swap", "verify", "stash", "restore", "putback", "undo", "again", "check",
                    "hold", "aside", "moved", "return"}
    BY DEF Create, Swap, Verify, Stash, Restore, ExchangeBack, Check, Hold, MoveAside, VerifyMoved, MoveBack
<1>2. op \in Publishers
    BY <1>1, StoreFacts, OpShapes DEF Publishers, LoopPcs
<1>3. it \in Intents /\ it \in db.intents
    BY <1>2, PublishFacts, StoreFacts
<1>4. Tmp(it) # Path /\ Stashed(it) # Path /\ Held(it) # Path /\ Tmp(it) # Stashed(it) /\ Tmp(it) # Held(it)
      /\ Stashed(it) # Held(it)
    BY <1>3, NameFacts
<1>5. /\ Stashed(it) \in Private /\ Held(it) \in Private /\ Stashed(it)[2] = it.n /\ Held(it)[2] = it.n
    BY <1>3, NameFacts
<1>6. Safe(it.expect) /\ Safe(it.new)
    BY <1>3, IntentSafe
<1>7. \A b : Safe(b) => Safe(b)'
    BY <1>1, SafeSteady DEF user
<1>8. ASSUME Create
      PROVE  /\ \/ dir' = Renamed(Tmp(it), Path) /\ dir[Path] = 0
                \/ dir' = Removed(Tmp(it)) /\ Pristine(Tmp(it))
             /\ op'.pc = "record" /\ op'.retained = {}
    BY <1>8, CreateNames DEF IndOwed, OwedOp, Create
<1>9. ASSUME Swap
      PROVE  /\ \/ dir' = Exchanged(Tmp(it), Path) /\ it \in Replaces
                \/ dir' = Removed(Tmp(it)) /\ Pristine(Tmp(it))
             /\ op'.pc = "verify" \/ (op'.pc = "record" /\ op'.retained = {})
    BY <1>9, SwapNames DEF IndOwed, OwedOp, Swap
<1>10. ASSUME Verify
       PROVE  dir' = dir /\ op'.pc \in {"stash", "restore"} /\ op'.expect = it.expect
    BY <1>10, VerifyLoop DEF Verify
<1>11. ASSUME Stash
       PROVE  /\ dir' = Renamed(Tmp(it), Stashed(it)) /\ dir[Stashed(it)] = 0
              /\ op'.pc = "record" /\ op'.retained = {Keeps(Stashed(it), op.expect)} /\ Safe(op.expect)
    <2>1. op \in OpLoop /\ op'.pc = "record" /\ op'.retained = {Keeps(Stashed(it), op.expect)}
        BY <1>11, StashNames
    <2>2. dir[Stashed(it)] = 0
        BY <1>4, <1>5, <1>11, <2>1, LoopFacts DEF Stash
    <2> QED
        BY <1>11, <2>1, <2>2 DEF Stash, IndOwed, OwedOp
<1>12. ASSUME Restore
       PROVE  dir' = dir /\ op'.pc \in {"putback", "hold"}
    BY <1>12, RestoreLoop DEF Restore
<1>13. ASSUME ExchangeBack
       PROVE  /\ dir' = dir \/ (dir' = Exchanged(Tmp(it), Path) /\ it \in Replaces)
              /\ op'.pc \in {"check", "restore", "hold"}
    <2>1. op \in OpLoop /\ op.pc # "hold"
        BY <1>13, StoreFacts, OpShapes DEF ExchangeBack, LoopPcs
    <2> QED
        BY <1>13, <2>1, ExchangeBackLoop, LoopFacts DEF ExchangeBack
<1>14. ASSUME Check
       PROVE  /\ dir' = dir
              /\ op'.pc \in {"undo", "again"} \/ (op'.pc = "stash" /\ op'.expect = it.new)
    BY <1>14, CheckLoop DEF Check
<1>15. ASSUME Hold
       PROVE  /\ \E a \in {Tmp(it), Stashed(it)} : dir' = Renamed(a, Held(it))
              /\ dir[Held(it)] = 0 /\ op'.pc = "record" /\ op'.retained = {}
    <2>1. dir' = Renamed(From(it), Held(it)) /\ op'.pc = "record" /\ op'.retained = {}
        BY <1>15, HoldNames DEF Hold, From
    <2>2. From(it) \in {Tmp(it), Stashed(it)}
        BY DEF From
    <2>3. dir[Held(it)] = 0
        <3>1. Holding(op) = {From(it)}
            BY <1>15, HoldingIs DEF Hold
        <3> QED
            BY <1>2, <1>4, <1>5, <2>2, <3>1, PublishFacts
    <2> QED
        BY <2>1, <2>2, <2>3
<1>16. ASSUME MoveAside
       PROVE  /\ dir' = dir \/ (dir' = Renamed(Path, Stashed(it)) /\ dir[Stashed(it)] = 0)
              /\ op'.pc = "moved" \/ (op'.pc = "record" /\ op'.retained = {})
    <2>1. dir[Stashed(it)] = 0
        BY <1>16, <1>5, MoveAsideNames, DeleteFacts
    <2> QED
        BY <1>16, <2>1, MoveAsideNames DEF MoveAside
<1>17. ASSUME VerifyMoved
       PROVE  /\ dir' = dir
              /\ op'.pc = "return" \/ (op'.pc = "record" /\ op'.retained = {Keeps(Stashed(it), it.expect)})
    BY <1>17, VerifyMovedNames DEF VerifyMoved
<1>18. ASSUME MoveBack
       PROVE  /\ dir' = dir \/ (dir' = Renamed(Stashed(it), Path) /\ dir[Path] = 0)
              /\ op'.pc = "hold" \/ (op'.pc = "record" /\ op'.retained = {})
    BY <1>18, MoveBackNames DEF MoveBack, Exists
<1>19. OwedDisk' /\ OwedRows'
    <2>1. \/ dir' = dir
          \/ \E a, b \in {Path, Tmp(it), Stashed(it), Held(it)} :
                 a # b /\ dir[b] = 0 /\ b # Tmp(it) /\ dir' = Renamed(a, b)
          \/ it \in Replaces /\ dir' = Exchanged(Tmp(it), Path)
          \/ Pristine(Tmp(it)) /\ dir' = Removed(Tmp(it))
        <3> HIDE DEF it
        <3> QED
            BY <1>4, <1>8, <1>9, <1>10, <1>11, <1>12, <1>13, <1>14, <1>15, <1>16, <1>17, <1>18
    <2> QED
        BY <1>1, <1>2, <2>1, MovesOwed
<1>20. OwedOp'
    <2>1. \/ op'.pc \in {"verify", "restore", "putback", "hold", "check", "undo", "again", "moved", "return"}
          \/ op'.pc = "record" /\ \A r \in op'.retained : Safe(r.expect)
          \/ op'.pc = "stash" /\ Safe(op'.expect)
        <3>1. \A name, b : Keeps(name, b).expect = b
            BY DEF Keeps
        <3> HIDE DEF it
        <3> QED
            BY <1>6, <1>8, <1>9, <1>10, <1>11, <1>12, <1>13, <1>14, <1>15, <1>16, <1>17, <1>18, <3>1
    <2> QED
        BY <1>7, <2>1 DEF OwedOp, SafeRows
<1> QED
    BY <1>19, <1>20 DEF IndOwed

\* A new file of the store's, at a private name that was free.
LEMMA NewTempOwed ==
    ASSUME IndNames, IndOwed, NEW it \in db.intents, NEW b \in ByteSet, ~Users(b), dir[Tmp(it)] = 0,
           data' = NewFile(b), dir' = LinkedAs(Tmp(it), Len(data)),
           db' = db, out' \subseteq out, fd' = fd, captured' = captured, owed' = owed,
           count'.save = count.save, gone' = gone
    PROVE  OwedDisk' /\ OwedRows' /\ Pristine(Tmp(it))'
<1> DEFINE a == Tmp(it)
           n == Len(data)
<1>1. /\ it \in Intents /\ db.intents \subseteq Intents /\ NamesOK /\ Directory(dir, n) /\ n \in Nat
      /\ data \in Seq(ByteSet)
    BY StoreFacts DEF IndNames
<1>2. /\ Len(data') = n + 1 /\ data'[n + 1] = b /\ data' \in Seq(ByteSet)
      /\ \A i \in 1..n : data'[i] = data[i]
    BY <1>1, NewFileData
<1>3. a \in Names /\ dir[a] = 0 /\ dir' = LinkedAs(a, n)
    BY <1>1, NameFacts
<1>4. fd \in [Editors -> 0..n]
    BY DEF IndNames, StoreTypeOK
<1>5. \A name \in Names : dir[name] # 0 => dir[name] \in 1..n
    BY LinkIs
<1> HIDE DEF a, n
<1>6. dir'[a] = n + 1 /\ \A c \in Names : c # a => dir'[c] = dir[c]
    BY <1>1, <1>3, LinkedDir
<1>7. Pristine(a)'
    <2>1. ~Users(data'[dir'[a]]) /\ \A e \in Editors : fd'[e] # dir'[a]
        BY <1>1, <1>2, <1>4, <1>6
    <2>2. a' = a
        <3>1. it.n = it.n
            OBVIOUS
        <3> QED
            BY DEF a, Tmp
    <2> QED
        BY <2>1, <2>2 DEF Pristine, Users
<1>8. OwedDisk'
    <2>1. \A i \in 1..Len(data') : i > Len(data) => ~Users(data'[i])
        BY <1>1, <1>2 DEF n
    <2>2. \A i \in 1..Len(data) : Linked(i) => \E c \in Names : dir'[c] = i
        <3> SUFFICES ASSUME NEW i \in 1..n, Linked(i) PROVE \E c \in Names : dir'[c] = i
            BY DEF n
        <3>1. PICK c \in Names : dir[c] = i
            BY DEF Linked
        <3>2. c # a
            BY <1>1, <1>3, <3>1
        <3> QED
            BY <1>6, <3>1, <3>2
    <2>3. Len(data) <= Len(data') /\ \A i \in 1..Len(data) : data'[i] = data[i]
        BY <1>1, <1>2 DEF n
    <2>4. \A i \in 1..Len(data) :
              Linked(i) /\ (data[i] \in owed' \/ ((\E e \in Editors : fd[e] = i) /\ i \notin gone'))
                  => Linked(i)'
        BY <2>2 DEF Linked
    <2> QED
        BY <1>2, <2>1, <2>3, <2>4, DiskKept DEF IndOwed
<1>9. ASSUME NEW x \in db.intents, x.expect = None, Pristine(Tmp(x))
      PROVE  Pristine(Tmp(x))'
    <2>1. CASE x.n = it.n
        BY <1>7, <2>1 DEF a, Tmp, Pristine, Users
    <2>2. CASE x.n # it.n
        <3> DEFINE c == Tmp(x)
        <3>1. c \in Names /\ c # a
            <4>1. x \in Intents
                BY <1>1
            <4> QED
                BY <1>1, <2>2, <4>1, NameFacts DEF a
        <3>2. dir'[c] = dir[c] /\ \A i \in 1..Len(data) : data'[i] = data[i]
            BY <1>2, <1>6, <3>1 DEF n
        <3>3. Pristine(c)
            BY <1>9
        <3> HIDE DEF c
        <3>4. Pristine(c)'
            BY <3>1, <3>2, <3>3, PristineKept
        <3> QED
            BY <3>4 DEF c, Tmp, Pristine, Users
    <2> QED
        BY <2>1, <2>2
<1>10. OwedRows'
    BY <1>9, RowsSteady DEF IndOwed, OwedRows
<1> QED
    BY <1>7, <1>8, <1>10 DEF a, Tmp, Pristine, Users

LEMMA WriteTempOwed ==
    ASSUME IndNames, IndOwed, WriteTemp
    PROVE  IndOwed'
<1>1. PICK it \in db.intents : it = op.it
    BY WriteTempNames
<1>2. /\ it \in db.intents /\ it.new \in NewBytes /\ data' = NewFile(it.new)
      /\ dir' = LinkedAs(Tmp(it), Len(data)) /\ op'.it = it /\ op'.pc \in {"create", "swap"}
    BY <1>1, WriteTempNames
<1>3. UNCHANGED <<store, user>> /\ op.pc = "write"
    BY DEF WriteTemp
<1>4. op \in Publishers /\ Holding(op) = {}
    BY <1>3, StoreFacts, OpShapes, HoldingIs DEF Publishers
<1>5. it \in Intents /\ Tmp(it) \in Private /\ Tmp(it)[2] = it.n
    BY <1>2, StoreFacts, NameFacts
<1>6. dir[Tmp(it)] = 0
    BY <1>4, <1>5, <1>1, PublishFacts
<1>7. it.new \in ByteSet /\ ~Users(it.new)
    BY <1>2, Kinds
<1>8. /\ db' = db /\ out' \subseteq out /\ fd' = fd /\ captured' = captured /\ owed' = owed
      /\ count'.save = count.save /\ gone' = gone
    BY <1>3 DEF store, user
<1>9. OwedDisk' /\ OwedRows' /\ Pristine(Tmp(it))'
    BY <1>2, <1>6, <1>7, <1>8, NewTempOwed
<1>10. OwedOp'
    BY <1>2, <1>9 DEF OwedOp, Pristine, Tmp, Users
<1> QED
    BY <1>9, <1>10 DEF IndOwed

\* A call that has ended holds nothing.
LEMMA QuietOwed ==
    ASSUME op'.pc \in {"idle", "closed", "write", "aside", "ack", "drop"}
    PROVE  OwedOp'
BY DEF OwedOp

LEMMA EndOwed ==
    ASSUME IndNames, IndOwed, Fail \/ Crash
    PROVE  IndOwed'
<1>1. /\ db' = db /\ out' \subseteq out /\ fd' = fd /\ captured' = captured /\ owed' = owed
      /\ count'.save = count.save /\ gone' = gone /\ op'.pc \in {"idle", "closed"}
    <2>1. count \in [save : Nat, delete : Nat, fault : Nat]
        BY StoreFacts
    <2> QED
        BY <2>1, OpIs, OpFields DEF Fail, Crash, store
<1>2. OwedOp'
    BY <1>1, QuietOwed
<1>3. ASSUME dir' = dir, data' = data
      PROVE  OwedDisk' /\ OwedRows'
    <2>1. OwedDisk'
        BY <1>1, <1>3, MovesKept DEF IndOwed
    <2>2. \A it \in db.intents : it.expect = None /\ Pristine(Tmp(it)) => Pristine(Tmp(it))'
        BY <1>1, <1>3 DEF Pristine, Tmp, Users
    <2> QED
        BY <1>1, <2>1, <2>2, RowsSteady DEF IndOwed, OwedRows
<1>4. ASSUME Fail, op.pc \in {"create", "swap"}
      PROVE  OwedDisk' /\ OwedRows'
    <2>1. op \in Publishers /\ Pristine(Tmp(op.it))
        BY <1>4, StoreFacts, OpShapes DEF Publishers, IndOwed, OwedOp
    <2>2. dir' = Removed(Tmp(op.it)) /\ data' = data /\ UNCHANGED store
        BY <1>4 DEF Fail
    <2> DEFINE a == Tmp(op.it)
               n == Len(data)
    <2>3. a \in Names /\ Directory(dir, n) /\ n \in Nat
        BY <2>1, PublishFacts, StoreFacts, NameFacts
    <2>4. OwedDisk'
        BY <1>1, <2>1, <2>2, <2>3, MovesKept DEF IndOwed
    <2>5. ASSUME NEW x \in db.intents, Pristine(Tmp(x))
          PROVE  Pristine(Tmp(x))'
        <3> DEFINE c == Tmp(x)
        <3>1. c \in Names /\ Pristine(c)
            BY <2>5, StoreFacts, NameFacts
        <3> HIDE DEF c, a, n
        <3>2. Removed(a)[a] = 0 /\ \A y \in Names : y # a => Removed(a)[y] = dir[y]
            BY <2>3, RemovedDir
        <3>3. dir'[c] = dir[c] \/ dir'[c] = 0
            BY <2>2, <3>1, <3>2 DEF a
        <3>4. Pristine(c)'
            BY <1>1, <2>2, <3>1, <3>3, PristineKept
        <3> QED
            BY <3>4 DEF c, Tmp, Pristine, Users
    <2>6. OwedRows'
        BY <1>1, <2>5, RowsSteady DEF IndOwed, OwedRows
    <2> QED
        BY <2>4, <2>6
<1>5. ASSUME WriteCutShort
      PROVE  OwedDisk' /\ OwedRows'
    <2>1. CASE dir' = dir /\ data' = data
        BY <1>3, <2>1
    <2>2. CASE /\ op \in OpWrite /\ op \in Publishers /\ op.it \in db.intents /\ op.it \in Intents
               /\ data' = NewFile(Torn) /\ dir' = LinkedAs(Tmp(op.it), Len(data))
        <3>1. Torn \in ByteSet /\ ~Users(Torn)
            BY Kinds
        <3>2. dir[Tmp(op.it)] = 0
            <4>1. Holding(op) = {}
                BY <2>2, HoldingIs DEF OpWrite
            <4> QED
                BY <2>2, <4>1, PublishFacts, NameFacts
        <3> QED
            BY <1>1, <2>2, <3>1, <3>2, NewTempOwed
    <2> QED
        BY <1>5, <2>1, <2>2, CutShort
<1>6. OwedDisk' /\ OwedRows'
    BY <1>4, <1>5 DEF Fail, Crash
<1> QED
    BY <1>2, <1>6 DEF IndOwed

LEMMA PublishOwed ==
    ASSUME IndNames, IndOwed, NEW expect \in ByteSet, NEW new \in NewBytes, Publish(expect, new),
           expect \in captured \/ ~Users(expect)
    PROVE  IndOwed'
<1> DEFINE it == [n |-> db.next, expect |-> expect, new |-> new]
<1>1. /\ op'.pc \in {"write", "aside"} /\ db'.intents = db.intents \cup {it} /\ db'.retained = db.retained
      /\ it \in Intents /\ \A name \in Private : name[2] = db.next => dir[name] = 0
    BY PublishStart
<1>2. dir' = dir /\ data' = data /\ captured' = captured /\ out' = out /\ UNCHANGED user
    BY DEF Publish
<1>3. Safe(expect)
    BY StoreSafe DEF IndOwed, OwedRows
<1>4. Tmp(it) \in Private /\ Tmp(it)[2] = db.next
    BY <1>1, NameFacts
<1>5. dir[Tmp(it)] = 0
    BY <1>1, <1>4
<1>6. OwedDisk'
    BY <1>2, MovesKept DEF IndOwed, user
<1>7. OwedOp'
    BY <1>1, QuietOwed
<1>8. \A b : (Safe(b) => Safe(b)') /\ (Old(b) => Old(b)')
    BY <1>2, SafeSteady DEF user
<1>9. \A x \in db'.intents : Safe(x.expect) /\ (x.expect = None => Pristine(Tmp(x)))
    <2>1. it.expect = expect /\ Pristine(Tmp(it))
        BY <1>5 DEF Pristine
    <2> HIDE DEF it
    <2> QED
        BY <1>1, <1>3, <2>1 DEF IndOwed, OwedRows
<1>10. \A x : Pristine(Tmp(x)) => Pristine(Tmp(x))'
    BY <1>2 DEF Pristine, Tmp, Users, user
<1>11. OwedRows'
    <2>1. \A x \in db'.intents : Safe(x.expect)' /\ (x.expect = None => Pristine(Tmp(x))')
        BY <1>8, <1>9, <1>10
    <2>2. \A r \in db.retained : Safe(r.expect)'
        BY <1>8 DEF IndOwed, OwedRows, SafeRows
    <2>3. (\A b \in captured : Safe(b)') /\ \A o \in out : Old(o.seen.rev)'
        BY <1>8 DEF IndOwed, OwedRows
    <2> QED
        BY <1>1, <1>2, <2>1, <2>2, <2>3 DEF OwedRows, SafeRows, Safe, Old, Pristine, Tmp, Users
<1> QED
    BY <1>6, <1>7, <1>11 DEF IndOwed

\* The files that recovery retains hold nothing that is owed.
LEMMA FoundSafe ==
    ASSUME IndNames, IndOwed, NEW it \in db.intents
    PROVE  SafeRows(FoundFor(it).retained)
<1>1. Safe(it.expect) /\ Safe(it.new)
    BY IntentSafe
<1>2. ASSUME NEW name, name \in Left(Tmp(it)), it.expect = None
      PROVE  Safe(At(name))
    <2>1. name = Tmp(it) /\ dir[Tmp(it)] # 0 /\ At(name) = data[dir[Tmp(it)]]
        BY <1>2 DEF Left, At, Exists
    <2>2. Pristine(Tmp(it))
        BY <1>2 DEF IndOwed, OwedRows
    <2>3. ~Users(At(name))
        BY <2>1, <2>2 DEF Pristine
    <2> QED
        BY <2>3, StoreSafe DEF IndOwed
<1>3. \A names : (\A a \in names : Safe(At(a))) => SafeRows(Kept(names))
    BY DEF Kept, Keeps, SafeRows
<1>4. CASE it.new = None
    <2>1. FoundFor(it).retained = IF At(Stashed(it)) = it.expect THEN Kept(Left(Stashed(it))) ELSE {}
        BY <1>4 DEF FoundFor, FoundDelete
    <2>2. At(Stashed(it)) = it.expect => \A a \in Left(Stashed(it)) : Safe(At(a))
        BY <1>1 DEF Left
    <2>3. SafeRows({})
        BY DEF SafeRows
    <2> QED
        BY <1>3, <2>1, <2>2, <2>3
<1>5. CASE it.new # None
    <2> DEFINE ours == {a \in Left(Stashed(it)) : At(a) \in {it.expect, it.new}}
                  \cup {a \in Left(Tmp(it)) : At(a) \in {it.expect, it.new} \/ it.expect = None}
    <2>1. FoundFor(it).retained = Kept(ours)
        BY <1>5 DEF FoundFor, FoundWrite
    <2>2. \A a \in ours : Safe(At(a))
        BY <1>1, <1>2
    <2> HIDE DEF ours
    <2> QED
        BY <1>3, <2>1, <2>2
<1> QED
    BY <1>4, <1>5

\* A step that changes neither the disk nor what is owed.
LEMMA StillOwed ==
    ASSUME IndNames, IndOwed, dir' = dir, data' = data, UNCHANGED user, captured' = captured,
           db'.intents \subseteq db.intents, SafeRows(db'.retained),
           \A o \in out' : o \in out \/ Old(o.seen.rev)
    PROVE  OwedDisk' /\ OwedRows'
<1>1. fd' = fd /\ gone' = gone /\ owed' = owed /\ count' = count
    BY DEF user
<1>2. OwedDisk'
    BY <1>1, MovesKept DEF IndOwed
<1>3. \A it \in db.intents : it.expect = None /\ Pristine(Tmp(it)) => Pristine(Tmp(it))'
    BY <1>1 DEF Pristine, Tmp, Users
<1>4. OwedRows'
    BY <1>1, <1>3, RowsSteady DEF IndOwed
<1> QED
    BY <1>2, <1>4

LEMMA RecordOwed ==
    ASSUME IndNames, IndOwed, Record
    PROVE  IndOwed'
<1>1. /\ op.pc = "record" /\ op' = Idle /\ out' = out /\ captured' = captured /\ UNCHANGED user
      /\ dir' = dir /\ data' = data
    BY DEF Record
<1>2. db'.intents \subseteq db.intents /\ db'.retained = db.retained \cup op.retained
    BY StoreFacts DEF Record, Databases
<1>3. SafeRows(db'.retained)
    BY <1>1, <1>2 DEF IndOwed, OwedRows, OwedOp, SafeRows
<1>4. OwedDisk' /\ OwedRows'
    BY <1>1, <1>2, <1>3, StillOwed
<1>5. OwedOp'
    BY <1>1, OpIs, OpFields, QuietOwed
<1> QED
    BY <1>4, <1>5 DEF IndOwed

LEMMA ResolveOwed ==
    ASSUME IndNames, IndOwed, Resolve
    PROVE  IndOwed'
<1> DEFINE tmp == Mover(op)
           n == Len(data)
<1>1. /\ op.pc = "resolve" /\ op'.pc = "look" /\ op.next \in db.intents /\ op.next \in Intents
      /\ op.found.act = "exchange" => op.next \in Replaces
      /\ \/ op'.db.retained = op.db.retained \cup op.found.retained
         \/ op'.db.retained = op.db.retained \cup op.found.retained \cup {Keeps(tmp, op.next.new)}
      /\ tmp \in Private
      /\ dir' = dir \/ dir' = Exchanged(tmp, Path)
    BY ResolveNames
<1>2. data' = data /\ UNCHANGED <<store, user>>
    BY DEF Resolve
<1>3. tmp = (IF op.found.act = "exchange" THEN Tmp(op.next) ELSE Stashed(op.next)) /\ tmp \in Names /\ tmp # Path
      /\ Path \in Names
    BY <1>1, NameFacts DEF Mover
<1>4. OwedDisk'
    BY <1>1, <1>2, <1>3, MovesKept DEF IndOwed, user
<1>5. Directory(dir, n) /\ n \in Nat /\ NamesOK /\ db.intents \subseteq Intents
    BY StoreFacts DEF IndNames
<1>6. SafeRows(op'.db.retained)
    <2>1. Keeps(tmp, op.next.new).expect = op.next.new
        BY DEF Keeps
    <2>2. Safe(op.next.new)
        BY <1>1, IntentSafe
    <2>3. SafeRows(op.db.retained) /\ SafeRows(op.found.retained)
        BY <1>1 DEF IndOwed, OwedOp
    <2> HIDE DEF tmp
    <2> QED
        BY <1>1, <2>1, <2>2, <2>3 DEF SafeRows
<1>7. ASSUME NEW x \in db.intents, x.expect = None, Pristine(Tmp(x))
      PROVE  Pristine(Tmp(x))'
    <2> DEFINE c == Tmp(x)
    <2>1. x \in Intents /\ c \in Names /\ c # Path /\ Pristine(c)
        BY <1>5, <1>7, NameFacts
    <2>2. c # tmp
        <3>1. CASE op.found.act = "exchange"
            <4>1. op.next.expect # None
                BY <1>1, <3>1 DEF Replaces
            <4>2. x # op.next
                BY <1>7, <4>1
            <4>3. x.n # op.next.n
                BY <1>1, <1>5, <4>2 DEF NamesOK
            <4> QED
                BY <1>1, <1>3, <2>1, <3>1, <4>3, NameFacts
        <3>2. CASE op.found.act # "exchange"
            <4>1. Tmp(x)[1] = "tmp" /\ Stashed(op.next)[1] = "stash"
                BY DEF Tmp, Stashed
            <4> QED
                BY <1>3, <3>2, <4>1
        <3> QED
            BY <3>1, <3>2
    <2> HIDE DEF c, tmp, n
    <2>3. \A y \in Names : y # tmp /\ y # Path => Exchanged(tmp, Path)[y] = dir[y]
        BY <1>3, <1>5, ExchangedDir
    <2>4. dir'[c] = dir[c]
        BY <1>1, <2>1, <2>2, <2>3
    <2>5. Pristine(c)'
        BY <1>2, <2>1, <2>4, PristineKept DEF user
    <2> QED
        BY <2>5 DEF c, Tmp, Pristine, Users
<1>8. OwedRows'
    BY <1>2, <1>7, RowsSteady DEF IndOwed, OwedRows, store, user
<1>9. OwedOp'
    <2>1. \A r \in op'.db.retained : Safe(r.expect)'
        <3>1. \A b : Safe(b) => Safe(b)'
            BY <1>2, SafeSteady DEF user
        <3> QED
            BY <1>6, <3>1 DEF SafeRows
    <2> QED
        BY <1>1, <2>1 DEF OwedOp, SafeRows
<1> QED
    BY <1>4, <1>8, <1>9 DEF IndOwed

LEMMA RecoveryOwed ==
    ASSUME IndNames, IndOwed, RecoveryStep
    PROVE  IndOwed'
<1>1. ASSUME Open \/ Look
      PROVE  OwedDisk' /\ OwedRows' /\ dir' = dir /\ data' = data /\ UNCHANGED <<store, user>>
    <2>1. dir' = dir /\ data' = data /\ UNCHANGED <<store, user>>
        BY <1>1 DEF Open, Look
    <2> QED
        BY <2>1, StillOwed DEF IndOwed, OwedRows, store
<1>2. \A b : owed' = owed /\ count' = count /\ Safe(b) => Safe(b)'
    BY DEF Safe, Users
<1>3. ASSUME Open PROVE IndOwed'
    <2>1. op'.pc = "look" /\ op'.db = db /\ owed' = owed /\ count' = count
        BY <1>3 DEF Open, user
    <2>2. \A r \in op'.db.retained : Safe(r.expect)'
        BY <1>2, <2>1 DEF IndOwed, OwedRows, SafeRows
    <2>3. OwedOp'
        BY <2>1, <2>2 DEF OwedOp, SafeRows
    <2> QED
        BY <1>1, <1>3, <2>3 DEF IndOwed
<1>4. ASSUME Look PROVE IndOwed'
    <2>1. /\ op.pc = "look" /\ op'.pc = "resolve" /\ op'.db = op.db /\ op'.next \in db.intents
          /\ op'.found = FoundFor(op'.next) /\ owed' = owed /\ count' = count
        BY <1>4, LookNames DEF Look, user
    <2>2. SafeRows(op'.found.retained) /\ SafeRows(op'.db.retained)
        BY <2>1, FoundSafe DEF IndOwed, OwedOp
    <2>3. /\ \A r \in op'.found.retained : Safe(r.expect)'
          /\ \A r \in op'.db.retained : Safe(r.expect)'
        BY <1>2, <2>1, <2>2 DEF SafeRows
    <2>4. OwedOp'
        BY <2>1, <2>3 DEF OwedOp, SafeRows
    <2> QED
        BY <1>1, <1>4, <2>4 DEF IndOwed
<1>5. ASSUME Recovered PROVE IndOwed'
    <2>1. /\ op.pc = "look" /\ db' = op.db /\ op' = Idle /\ dir' = dir /\ data' = data
          /\ captured' = captured /\ out' = out /\ UNCHANGED user
        BY <1>5 DEF Recovered
    <2>2. op.db.intents \subseteq db.intents
        BY <2>1 DEF IndNames, OpFits
    <2>3. SafeRows(op.db.retained)
        BY <2>1 DEF IndOwed, OwedOp
    <2>4. OwedDisk' /\ OwedRows'
        BY <2>1, <2>2, <2>3, StillOwed
    <2>5. OwedOp'
        BY <2>1, OpIs, OpFields, QuietOwed
    <2> QED
        BY <2>4, <2>5 DEF IndOwed
<1> QED
    BY <1>3, <1>4, <1>5, ResolveOwed DEF RecoveryStep

LEMMA AtOld ==
    ASSUME IndNames, IndOwed
    PROVE  \A name \in Names : Old(At(name))
<1>1. ASSUME NEW name \in Names, dir[name] # 0
      PROVE  Old(At(name))
    BY <1>1, LinkIs DEF IndOwed, OwedDisk, At, Exists
<1>2. ASSUME NEW name \in Names, dir[name] = 0
      PROVE  Old(At(name))
    BY <1>2, Kinds DEF At, Exists, Old
<1> QED
    BY <1>1, <1>2

LEMMA ObservingOwed ==
    ASSUME IndNames, IndOwed, Observing
    PROVE  IndOwed'
<1>1. /\ op = Idle /\ op' = op /\ dir' = dir /\ data' = data /\ UNCHANGED user /\ captured' = captured
    BY DEF Observing, CheckPath, EmitGone, Deliver
<1>2. OwedOp'
    BY <1>1, OpIs, OpFields, QuietOwed
<1>3. db'.intents = db.intents /\ db'.retained = db.retained
    <2>1. CheckPath => db' = db \/ db' = [db EXCEPT !.known = Seen]
        BY CheckPathNames
    <2>2. db' = db \/ db' = [db EXCEPT !.known = Seen]
        BY <2>1 DEF Observing, EmitGone, Deliver
    <2> QED
        BY <2>2, StoreFacts DEF Databases
<1>4. \A o \in out' : o \in out \/ Old(o.seen.rev)
    <2>1. Old(At(Path)) /\ Old(None) /\ \A name \in db.evidence : Old(At(name))
        BY AtOld, NameFacts, StoreFacts, Kinds DEF Databases, Old
    <2>2. CheckPath => \A o \in out' : o \in out \/ o.seen = Seen
        BY CheckPathNames
    <2>3. EmitGone => \A o \in out' : o \in out \/ o.seen = NoFile
        BY DEF EmitGone, Emit
    <2>4. ASSUME NEW name \in db.evidence, Deliver(name)
          PROVE  \A o \in out' : o \in out \/ o.seen.rev = At(name)
        BY <2>4 DEF Deliver, Emit
    <2>5. Seen.rev = At(Path) /\ NoFile.rev = None
        BY DEF Seen, NoFile
    <2> QED
        BY <2>1, <2>2, <2>3, <2>4, <2>5 DEF Observing
<1>5. OwedDisk' /\ OwedRows'
    BY <1>1, <1>3, <1>4, StillOwed DEF IndOwed, OwedRows
<1> QED
    BY <1>2, <1>5 DEF IndOwed

LEMMA CaptureOwed ==
    ASSUME IndNames, IndOwed, NEW o \in out, Capture(o)
    PROVE  IndOwed'
<1> DEFINE rev == o.seen.rev
<1>1. /\ out' = out \ {o} /\ captured' = captured \cup ({rev} \ {None}) /\ owed' = owed \ {rev}
      /\ op'.pc = "ack" /\ dir' = dir /\ data' = data /\ fd' = fd /\ gone' = gone /\ db' = db
      /\ count' = count
    BY DEF Capture
<1>2. Old(rev)
    BY DEF IndOwed, OwedRows
<1> HIDE DEF rev
<1>3. Len(data) <= Len(data') /\ data' \in Seq(ByteSet) /\ \A i \in 1..Len(data') : i > Len(data) => ~Users(data'[i])
    BY <1>1, StoreFacts
<1>4. OwedDisk'
    <2>1. \A i \in 1..Len(data) : Linked(i) => Linked(i)'
        BY <1>1 DEF Linked
    <2>2. owed' \subseteq owed /\ count'.save = count.save /\ gone \subseteq gone'
        BY <1>1
    <2> QED
        BY <1>1, <1>3, <2>1, <2>2, DiskKept DEF IndOwed
<1>5. OwedRows'
    <2>1. \A b : (Safe(b) => Safe(b)') /\ (Old(b) => Old(b)')
        BY <1>1, SafeSteady
    <2>2. Safe(rev)'
        BY <1>1, <1>2 DEF Safe, Old, Users
    <2>3. \A b \in captured' : Safe(b)'
        BY <1>1, <2>1, <2>2 DEF IndOwed, OwedRows
    <2>4. \A it \in db.intents : Safe(it.expect)' /\ (it.expect = None => Pristine(Tmp(it))')
        BY <1>1, <2>1 DEF IndOwed, OwedRows, Pristine, Tmp, Users
    <2>5. \A r \in db.retained : Safe(r.expect)'
        BY <2>1 DEF IndOwed, OwedRows, SafeRows
    <2>6. \A x \in out' : Old(x.seen.rev)'
        BY <1>1, <2>1 DEF IndOwed, OwedRows
    <2> QED
        BY <1>1, <2>3, <2>4, <2>5, <2>6 DEF OwedRows, SafeRows, Safe, Old, Pristine, Tmp, Users
<1>6. OwedOp'
    BY <1>1, QuietOwed
<1> QED
    BY <1>4, <1>5, <1>6 DEF IndOwed

\* A private file is removed that nobody is owed, and that nobody will write to or that is
\* gone with its removal.
LEMMA RemovalOwed ==
    ASSUME IndNames, IndOwed, NEW name \in Private, dir' = Removed(name), op'.pc = "drop",
           UNCHANGED <<data, fd, captured, db, out, count>>, owed' \subseteq owed, gone \subseteq gone',
           At(name) \notin owed', \A e \in Editors : dir[name] # 0 /\ fd[e] = dir[name] => dir[name] \in gone'
    PROVE  IndOwed'
<1> DEFINE n == Len(data)
<1>1. Directory(dir, n) /\ n \in Nat /\ name \in Names
    BY StoreFacts, NameFacts
<1>2. Len(data) <= Len(data') /\ data' \in Seq(ByteSet) /\ \A i \in 1..Len(data') : i > Len(data) => ~Users(data'[i])
    BY StoreFacts
<1>3. \A i \in 1..Len(data) :
          Linked(i) /\ (data[i] \in owed' \/ ((\E e \in Editors : fd[e] = i) /\ i \notin gone'))
              => Linked(i)'
    <2> SUFFICES ASSUME NEW i \in 1..Len(data), Linked(i),
                        data[i] \in owed' \/ ((\E e \in Editors : fd[e] = i) /\ i \notin gone')
                 PROVE  \E c \in Names : dir'[c] = i
        BY DEF Linked
    <2>1. i # 0
        BY <1>1
    <2>2. i # dir[name]
        BY <2>1 DEF At, Exists
    <2> QED
        BY <1>1, <2>2, RemovedLinks
<1>4. OwedDisk'
    BY <1>2, <1>3, DiskKept DEF IndOwed
<1>5. ASSUME NEW x \in db.intents, Pristine(Tmp(x))
      PROVE  Pristine(Tmp(x))'
    <2> DEFINE c == Tmp(x)
    <2>1. c \in Names /\ Pristine(c)
        BY <1>5, StoreFacts, NameFacts
    <2> HIDE DEF c, n
    <2>2. Removed(name)[name] = 0 /\ \A y \in Names : y # name => Removed(name)[y] = dir[y]
        BY <1>1, RemovedDir
    <2>3. dir'[c] = dir[c] \/ dir'[c] = 0
        BY <2>1, <2>2
    <2>4. Pristine(c)'
        BY <2>1, <2>3, PristineKept
    <2> QED
        BY <2>4 DEF c, Tmp, Pristine, Users
<1>6. OwedRows'
    BY <1>5, RowsSteady DEF IndOwed, OwedRows
<1>7. OwedOp'
    BY QuietOwed
<1> QED
    BY <1>4, <1>6, <1>7 DEF IndOwed

LEMMA AckOwed ==
    ASSUME IndNames, IndOwed, Ack, CountLate = FALSE
    PROVE  IndOwed'
<1>1. op.pc = "ack" /\ op.o.from \in Names /\ UNCHANGED <<data, captured, out, fd, count>>
    BY AckNames DEF Ack, Observations
<1>2. CASE op.o.from = Path
    <2>1. /\ db' = [db EXCEPT !.known = op.o.seen] /\ op' = Idle /\ dir' = dir /\ gone' = gone /\ owed' = owed
        BY <1>2 DEF Ack
    <2>2. db'.intents = db.intents /\ db'.retained = db.retained
        BY <2>1, StoreFacts DEF Databases
    <2>3. OwedDisk' /\ OwedRows'
        BY <1>1, <2>1, <2>2, StillOwed DEF IndOwed, OwedRows, user
    <2>4. OwedOp'
        BY <2>1, OpIs, OpFields, QuietOwed
    <2> QED
        BY <2>3, <2>4 DEF IndOwed
<1>3. CASE op.o.from # Path
    <2> DEFINE name == op.o.from
    <2>1. /\ dir' = Removed(name) /\ gone' = gone \cup {dir[name]} /\ owed' = owed \ {At(name)}
          /\ op'.pc = "drop" /\ db' = db
        BY <1>3 DEF Ack
    <2>2. name \in Private
        BY <1>1, <1>3, NameFacts
    <2> HIDE DEF name
    <2>3. /\ owed' \subseteq owed /\ gone \subseteq gone' /\ At(name) \notin owed'
          /\ \A e \in Editors : dir[name] # 0 /\ fd[e] = dir[name] => dir[name] \in gone'
        BY <2>1
    <2> QED
        BY <1>1, <2>1, <2>2, <2>3, RemovalOwed
<1> QED
    BY <1>2, <1>3

LEMMA DropRowOwed ==
    ASSUME IndNames, IndOwed, DropRow
    PROVE  IndOwed'
<1>1. op' = Idle /\ dir' = dir /\ data' = data /\ captured' = captured /\ out' = out /\ UNCHANGED user
    BY DEF DropRow
<1>2. db'.intents = db.intents /\ db'.retained \subseteq db.retained
    BY DropRowNames
<1>3. SafeRows(db'.retained)
    BY <1>2 DEF IndOwed, OwedRows, SafeRows
<1>4. OwedDisk' /\ OwedRows'
    BY <1>1, <1>2, <1>3, StillOwed
<1>5. OwedOp'
    BY <1>1, OpIs, OpFields, QuietOwed
<1> QED
    BY <1>4, <1>5 DEF IndOwed

LEMMA SettleOwed ==
    ASSUME IndNames, IndOwed, NEW r \in db.retained, Settle(r)
    PROVE  IndOwed'
<1>1. op = Idle /\ UNCHANGED <<dir, data, captured, out, user>>
    BY DEF Settle
<1>2. CASE db'.retained = db.retained \ {r} /\ op' = op /\ db'.intents = db.intents
    <2>1. SafeRows(db'.retained)
        BY <1>2 DEF IndOwed, OwedRows, SafeRows
    <2>2. OwedDisk' /\ OwedRows'
        BY <1>1, <1>2, <2>1, StillOwed
    <2>3. OwedOp'
        BY <1>1, <1>2, OpIs, OpFields, QuietOwed
    <2> QED
        BY <2>2, <2>3 DEF IndOwed
<1>3. CASE /\ db' = db /\ op'.pc = "release" /\ op'.name = r.name /\ op'.seen = At(r.name)
           /\ (dir[r.name] # 0 => At(r.name) = r.expect)
           /\ op'.holders = "none" => Unopened(r.name)
    <2>1. OwedDisk' /\ OwedRows'
        BY <1>1, <1>3, StillOwed DEF IndOwed, OwedRows
    <2>2. Safe(At(r.name))
        <3>1. CASE dir[r.name] = 0
            BY <3>1, Kinds DEF At, Exists, IndOwed, OwedDisk, Safe
        <3>2. CASE dir[r.name] # 0
            BY <1>3, <3>2 DEF IndOwed, OwedRows, SafeRows
        <3> QED
            BY <3>1, <3>2
    <2>3. OwedOp'
        BY <1>1, <1>3, <2>2 DEF OwedOp, Safe, Unopened, At, Exists, Users, user
    <2> QED
        BY <2>1, <2>3 DEF IndOwed
<1> QED
    BY <1>2, <1>3, SettleNames

\* Nobody is owed what the file held at the last look.  What it holds by now is that, where the
\* holders are known, and is not counted otherwise.
LEMMA ReleaseOwed ==
    ASSUME IndNames, IndOwed, Release, CountLate = FALSE
    PROVE  IndOwed'
<1>1. op.name \in Private /\ op'.pc = "drop"
    BY ReleaseNames
<1>2. /\ dir' = Removed(op.name) /\ UNCHANGED <<data, fd, captured, db, out, count>>
      /\ owed' \subseteq owed /\ gone \subseteq gone'
    BY DEF Release, store
<1>3. Safe(op.seen) /\ (op.holders = "none" => Unopened(op.name) /\ At(op.name) = op.seen)
    BY DEF IndOwed, OwedOp, Release
<1>4. op.holders \in {"none", "unknown"}
    BY StoreFacts, OpShapes DEF Release, OpRelease
<1>5. At(op.name) \notin owed'
    BY <1>3, <1>4 DEF Release, Safe
<1>6. \A e \in Editors : dir[op.name] # 0 /\ fd[e] = dir[op.name] => dir[op.name] \in gone'
    BY <1>3, <1>4 DEF Release, Unopened
<1> QED
    BY <1>1, <1>2, <1>5, <1>6, RemovalOwed

LEMMA NextOwed ==
    ASSUME IndNames, IndOwed, [Next]_vars, CountLate = FALSE
    PROVE  IndOwed'
<1>1. ASSUME User PROVE IndOwed'
    BY <1>1, SaveByRenameOwed, OpenToWriteOwed, WriteAndCloseOwed, UserDeleteOwed DEF User
<1>2. ASSUME Replica PROVE IndOwed'
    BY <1>2, ReplicaIs, PublishOwed
<1>3. ASSUME PublishStep PROVE IndOwed'
    BY <1>3, PublishStepOwed, WriteTempOwed, RecordOwed DEF PublishStep
<1>4. ASSUME Capturing PROVE IndOwed'
    BY <1>4, CaptureOwed DEF Capturing
<1>5. ASSUME Settling PROVE IndOwed'
    BY <1>5, SettleOwed, ReleaseOwed DEF Settling
<1>6. ASSUME UNCHANGED vars PROVE IndOwed'
    BY <1>6 DEF vars, IndOwed, OwedDisk, OwedRows, OwedOp, Safe, SafeRows, Old, Pristine,
       Unopened, Linked, At, Exists, Users, Tmp
<1> QED
    BY <1>1, <1>2, <1>3, <1>4, <1>5, <1>6, EndOwed, RecoveryOwed, ObservingOwed, AckOwed, DropRowOwed
    DEF Next

\* publish, its failures, crashes, recovery, settling and acknowledgements never lose what a
\* user wrote, by whatever interleaving of editors: until it is handed to the replica, or the
\* user replaces it, it is at the path or in a private file that the database knows of.
\* What is written into a file after the store's last look at it is not counted: an evidence
\* file that is acknowledged and, where the platform cannot tell who has a file open, a
\* retained file that is released.  Where it can tell, no write into a retained file is lost.
THEOREM NothingEverLost ==
    ASSUME CountLate = FALSE
    PROVE  Spec => []NothingLost
<1>1. Init => IndOwed
    <2> SUFFICES ASSUME Init PROVE IndOwed
        OBVIOUS
    <2>1. /\ owed = {} /\ captured = {} /\ out = {} /\ db.intents = {} /\ db.retained = {} /\ op.pc = "idle"
          /\ fd = [e \in Editors |-> 0] /\ Len(data) = 1 /\ data[1] = <<"store", 0>>
        BY InitNames, OpIs, OpFields DEF Init
    <2> QED
        BY <2>1 DEF IndOwed, OwedDisk, OwedRows, OwedOp, SafeRows, Old, Users
<1>2. IndNames /\ IndOwed /\ [Next]_vars => IndOwed'
    BY NextOwed
<1>3. IndNames /\ IndOwed => NothingLost
    <2> SUFFICES ASSUME IndNames, IndOwed, NEW v \in owed
                 PROVE  \E name \in Names : At(name) = v /\ (name = Path \/ Covered(name))
        BY DEF NothingLost
    <2>1. PICK name \in Names : dir[name] # 0 /\ data[dir[name]] = v
        BY DEF IndOwed, OwedDisk
    <2>2. name = Path \/ Covered(name)
        BY <2>1, NameFacts DEF IndNames, NoOrphans, Exists
    <2> QED
        BY <2>1, <2>2 DEF At, Exists
<1> QED
    BY <1>1, <1>2, <1>3, NamesInvariant, PTL DEF Spec
=============================================================================
