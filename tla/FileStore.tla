------------------------------ MODULE FileStore ------------------------------
(***************************************************************************)
(* The file store and one file of the collection's folder, which editors   *)
(* write at any moment: the never-clobber publish of the exchange strategy *)
(* (store-file/publish.rs, Linux and macOS), its journaled intents and     *)
(* their recovery (recover.rs), the settling of retained files (stash.rs)  *)
(* and the observations that hand what users wrote to the replica          *)
(* (store.rs: publish_one, recover_intents, check_path, settle_retained,   *)
(* deliver_evidence, ack).                                                 *)
(*                                                                         *)
(* Every call of the platform is one step, and an editor or a crash can    *)
(* come between any two.  Bytes are <<kind, number>>: no two saves and no  *)
(* two published versions are equal, so that a revision is the bytes it is *)
(* the hash of.  Metadata (size, times, file ID) is the inode with its     *)
(* bytes: it changes whenever they do.  The replica is an environment: it  *)
(* may publish on anything it has published or been handed, and it         *)
(* acknowledges what it is handed.                                         *)
(*                                                                         *)
(* Whether somebody has a retained file open is known on Linux with a      *)
(* local file system (a write lease tells), and is not on macOS, on NFS    *)
(* and on most FUSE volumes: HoldersUnknown adds the second case.          *)
(***************************************************************************)
EXTENDS Integers, Sequences, FiniteSets, Functions

CONSTANTS
    Editors,
    RestoreRounds,  \* Options.max_restore_rounds
    SameSize,       \* the saves, by number, that have the size of a published version
    HoldersUnknown, \* other_holders may answer Unknown
    CountLate,      \* a write into a file after the store's last look at it is owed too
    Versions,       \* bound: versions the replica publishes are 1..Versions
    MaxSaves,       \* bound: versions editors write
    MaxPublishes,   \* bound: publishes
    MaxDeletes,     \* bound: deletions by a user
    MaxWork,        \* bound: the three together
    MaxFaults       \* bound: crashes, and publishes ended by a platform error

ASSUME FileStoreAssumption ==
    /\ {RestoreRounds, Versions, MaxSaves, MaxPublishes, MaxDeletes, MaxWork,
       MaxFaults} \subseteq Nat
    /\ SameSize \subseteq Nat
    /\ {HoldersUnknown, CountLate} \subseteq BOOLEAN

VARIABLES
    dir,       \* the inode each name links to, 0 if none
    data,      \* the bytes of each inode
    fd,        \* the inode an editor has open to write, 0 if none
    gone,      \* the inodes of the file when a user replaced or deleted it
    owed,      \* what users wrote, and neither replaced nor handed to the replica
    captured,  \* what the replica has been handed
    db,        \* DiskDb: known, intents, retained, evidence and the name counter
    op,        \* the call in progress
    out,       \* outstanding observations: the file they come from and what it held
    missing,   \* the path was absent when it was last looked at
    count      \* how much of each bound is used

vars == <<dir, data, fd, gone, owed, captured, db, op, out, missing, count>>

None == <<"none", 0>>
Empty == <<"empty", 0>>
Torn == <<"torn", 0>>
Users(b) == b[1] = "user"
SizeOf(b) == CASE b[1] = "store" -> 1
               [] b[1] = "user" -> IF b[2] \in SameSize THEN 1 ELSE 2
               [] OTHER -> 0

Path == <<"path", 0>>
Tmp(it) == <<"tmp", it.n>>
Stashed(it) == <<"stash", it.n>>
Held(it) == <<"held", it.n>>
Private == {"tmp", "stash", "held"} \X (1..MaxPublishes)
Names == {Path} \cup Private

Exists(name) == dir[name] # 0
At(name) == IF Exists(name) THEN data[dir[name]] ELSE None

\* DiskState: a revision and the metadata it was read with.
NoMeta == [ino |-> 0, bytes |-> None]
Meta(name) == [ino |-> dir[name], bytes |-> At(name)]
NoFile == [rev |-> None, of |-> NoMeta]
Seen == [rev |-> At(Path), of |-> Meta(Path)]

Exchanged(a, b) == [dir EXCEPT ![a] = dir[b], ![b] = dir[a]]
Renamed(a, b) == [dir EXCEPT ![b] = dir[a], ![a] = 0]
Removed(a) == [dir EXCEPT ![a] = 0]

NewFile(b) == Append(data, b)

Idle == [pc |-> "idle"]
Closed == [pc |-> "closed"]

\* The store has published the first version, and the file holds it.
Init ==
    /\ data = <<<<"store", 0>>>>
    /\ dir = [a \in Names |-> IF a = Path THEN 1 ELSE 0]
    /\ fd = [e \in Editors |-> 0]
    /\ gone = {}
    /\ owed = {}
    /\ captured = {}
    /\ db = [known |-> Seen,
             intents |-> {}, retained |-> {}, evidence |-> {}, next |-> 1]
    /\ op = Idle
    /\ out = {}
    /\ missing = FALSE
    /\ count = [save |-> 0, delete |-> 0, fault |-> 0]

store == <<captured, db, out, missing>>
user == <<fd, gone, owed, count>>

-----------------------------------------------------------------------------
(***************************************************************************)
(* Editors.                                                                *)
(***************************************************************************)
NextSave == <<"user", count.save + 1>>
Started == count.save + Cardinality({e \in Editors : fd[e] # 0})
CanWork == Started + count.delete + db.next - 1 < MaxWork
CanSave == CanWork /\ Started < MaxSaves

\* The editor writes a new file and renames it over the path.
SaveByRename(e) ==
    /\ fd[e] = 0
    /\ CanSave
    /\ data' = NewFile(NextSave)
    /\ dir' = [dir EXCEPT ![Path] = Len(data')]
    /\ gone' = gone \cup Range(dir)
    /\ owed' = (owed \ {At(Path)}) \cup {NextSave}
    /\ count' = [count EXCEPT !.save = @ + 1]
    /\ UNCHANGED <<fd, op, store>>

\* The file at the path is opened, with or without O_TRUNC; the write comes later.
OpenToWrite(e, truncate) ==
    /\ fd[e] = 0
    /\ CanSave
    /\ Exists(Path)
    /\ fd' = [fd EXCEPT ![e] = dir[Path]]
    /\ data' = IF truncate THEN [data EXCEPT ![dir[Path]] = Empty] ELSE data
    /\ owed' = IF truncate THEN owed \ {At(Path)} ELSE owed
    /\ UNCHANGED <<dir, gone, count, op, store>>

\* The write lands in the inode that was opened, wherever it is linked now.
WriteAndClose(e) ==
    LET i == fd[e] IN
    /\ i # 0
    /\ data' = [data EXCEPT ![i] = NextSave]
    /\ owed' = (owed \ {data[i]}) \cup (IF i \in gone THEN {} ELSE {NextSave})
    /\ fd' = [fd EXCEPT ![e] = 0]
    /\ count' = [count EXCEPT !.save = @ + 1]
    /\ UNCHANGED <<dir, gone, op, store>>

UserDelete(e) ==
    /\ fd[e] = 0
    /\ Exists(Path)
    /\ CanWork /\ count.delete < MaxDeletes
    /\ dir' = Removed(Path)
    /\ gone' = gone \cup Range(dir)
    /\ owed' = owed \ {At(Path)}
    /\ count' = [count EXCEPT !.delete = @ + 1]
    /\ UNCHANGED <<data, fd, op, store>>

-----------------------------------------------------------------------------
(***************************************************************************)
(* publish.  `it` is the journaled intent, `our` the temp's inode.         *)
(***************************************************************************)
\* publish_one: the name is taken and the intent journaled in one write.
Publish(expect, new) ==
    LET it == [n |-> db.next, expect |-> expect, new |-> new] IN
    /\ op = Idle
    /\ CanWork /\ db.next <= MaxPublishes
    /\ expect # None \/ new # None
    /\ db' = [db EXCEPT !.intents = @ \cup {it}, !.next = @ + 1]
    /\ op' = [pc |-> IF new = None THEN "aside" ELSE "write", it |-> it]
    /\ UNCHANGED <<dir, data, captured, out, missing, user>>

\* The publish is over: what is left is to record its outcome.
Outcome(published, retained, preserved) ==
    op' = [pc |-> "record", it |-> op.it, published |-> published,
           retained |-> retained, preserved |-> preserved]

Keeps(name, b) == [name |-> name, expect |-> b]

WriteTemp ==
    /\ op.pc = "write"
    /\ data' = NewFile(op.it.new)
    /\ dir' = [dir EXCEPT ![Tmp(op.it)] = Len(data')]
    /\ op' = [pc |-> IF op.it.expect = None THEN "create" ELSE "swap", it |-> op.it,
              our |-> Len(data')]
    /\ UNCHANGED <<store, user>>

\* rename_create.
Create ==
    /\ op.pc = "create"
    /\ IF Exists(Path)
       THEN /\ dir' = Removed(Tmp(op.it))
            /\ Outcome(FALSE, {}, {})
       ELSE /\ dir' = Renamed(Tmp(op.it), Path)
            /\ Outcome(TRUE, {}, {})
    /\ UNCHANGED <<data, store, user>>

\* exchange_replace: swap, unless the file is gone.
Swap ==
    /\ op.pc = "swap"
    /\ IF Exists(Path)
       THEN /\ dir' = Exchanged(Tmp(op.it), Path)
            /\ op' = [op EXCEPT !.pc = "verify"]
       ELSE /\ dir' = Removed(Tmp(op.it))
            /\ Outcome(FALSE, {}, {})
    /\ UNCHANGED <<data, store, user>>

\* What was displaced is read: the expected bytes are stashed, others are put back.
Verify ==
    /\ op.pc = "verify"
    /\ op' = [pc |-> IF At(Tmp(op.it)) = op.it.expect THEN "stash" ELSE "restore",
              it |-> op.it, our |-> op.our, published |-> TRUE,
              expect |-> op.it.expect, round |-> 0]
    /\ UNCHANGED <<dir, data, store, user>>

\* The temp becomes a retained file, after the swap or after its restoration.
Stash ==
    /\ op.pc = "stash"
    /\ dir' = Renamed(Tmp(op.it), Stashed(op.it))
    /\ Outcome(op.published, {Keeps(Stashed(op.it), op.expect)}, {})
    /\ UNCHANGED <<data, store, user>>

\* The head of the restore loop: is our inode still at the path?
Restore ==
    /\ op.pc = "restore"
    /\ op' = [op EXCEPT !.pc = IF op.round < RestoreRounds /\ dir[Path] = op.our
                               THEN "putback" ELSE "hold"]
    /\ UNCHANGED <<dir, data, store, user>>

\* Three exchanges of the loop: the user's bytes back, a newer file back, our inode with a
\* user's bytes in it back.  Without a file at the path the loop ends.
ExchangeBack ==
    /\ op.pc \in {"putback", "undo", "again"}
    /\ IF Exists(Path)
       THEN /\ dir' = Exchanged(Tmp(op.it), Path)
            /\ op' = CASE op.pc = "putback" -> [op EXCEPT !.pc = "check"]
                       [] op.pc = "undo"    -> [op EXCEPT !.pc = "restore", !.round = @ + 1]
                       [] op.pc = "again"   -> [op EXCEPT !.pc = "hold"]
       ELSE /\ op' = [op EXCEPT !.pc = "hold"]
            /\ UNCHANGED dir
    /\ UNCHANGED <<data, store, user>>

\* What did that exchange take from the path?
Check ==
    /\ op.pc = "check"
    /\ op' = IF dir[Tmp(op.it)] # op.our THEN [op EXCEPT !.pc = "undo"]
             ELSE IF At(Tmp(op.it)) # op.it.new THEN [op EXCEPT !.pc = "again"]
             ELSE [op EXCEPT !.pc = "stash", !.published = FALSE, !.expect = op.it.new]
    /\ UNCHANGED <<dir, data, store, user>>

\* A user's version that cannot go back to the path is kept for the replica.
Hold ==
    LET from == IF op.it.new = None THEN Stashed(op.it) ELSE Tmp(op.it) IN
    /\ op.pc = "hold"
    /\ dir' = Renamed(from, Held(op.it))
    /\ Outcome(FALSE, {}, {Held(op.it)})
    /\ UNCHANGED <<data, store, user>>

\* rename_delete.
MoveAside ==
    /\ op.pc = "aside"
    /\ IF Exists(Path)
       THEN /\ dir' = Renamed(Path, Stashed(op.it))
            /\ op' = [op EXCEPT !.pc = "moved"]
       ELSE Outcome(FALSE, {}, {}) /\ UNCHANGED dir
    /\ UNCHANGED <<data, store, user>>

VerifyMoved ==
    /\ op.pc = "moved"
    /\ IF At(Stashed(op.it)) = op.it.expect
       THEN Outcome(TRUE, {Keeps(Stashed(op.it), op.it.expect)}, {})
       ELSE op' = [op EXCEPT !.pc = "return"]
    /\ UNCHANGED <<dir, data, store, user>>

\* Not what was expected: back to the path, unless it is taken again.
MoveBack ==
    /\ op.pc = "return"
    /\ IF Exists(Path)
       THEN op' = [op EXCEPT !.pc = "hold"] /\ UNCHANGED dir
       ELSE /\ dir' = Renamed(Stashed(op.it), Path)
            /\ Outcome(FALSE, {}, {})
    /\ UNCHANGED <<data, store, user>>

\* Mutant: the size of what is at the path is not compared.
RecordedUnread(new) ==
    IF new = None THEN NoFile ELSE [rev |-> new, of |-> Meta(Path)]

\* record_published: what is at the path is taken for ours if it has our size, and is
\* otherwise to be read again.
Recorded(new) ==
    IF new = None THEN NoFile
    ELSE [rev |-> new, of |-> IF SizeOf(At(Path)) = SizeOf(new) THEN Meta(Path) ELSE NoMeta]

\* settle_publish, and the one write that records it and clears the intent.
Record ==
    /\ op.pc = "record"
    /\ db' = [db EXCEPT !.known = IF op.published THEN Recorded(op.it.new) ELSE @,
                        !.retained = @ \cup op.retained,
                        !.evidence = @ \cup op.preserved,
                        !.intents = @ \ {op.it}]
    /\ op' = Idle
    /\ UNCHANGED <<dir, data, captured, out, missing, user>>

-----------------------------------------------------------------------------
(***************************************************************************)
(* Platform errors, crashes, and the recovery of the intents they leave.   *)
(***************************************************************************)
Publishing == "it" \in DOMAIN op

\* write_new creates the file and then writes: an end in between leaves part of the bytes.
WriteCutShort ==
    \/ UNCHANGED <<dir, data>>
    \/ /\ op.pc = "write"
       /\ data' = NewFile(Torn)
       /\ dir' = [dir EXCEPT ![Tmp(op.it)] = Len(data')]

\* Outcome::Failed: the intent stays journaled; a temp that never was at the path is removed.
Fail ==
    /\ Publishing
    /\ count.fault < MaxFaults
    /\ IF op.pc \in {"create", "swap"}
       THEN dir' = Removed(Tmp(op.it)) /\ UNCHANGED data
       ELSE WriteCutShort
    /\ op' = Idle
    /\ count' = [count EXCEPT !.fault = @ + 1]
    /\ UNCHANGED <<store, fd, gone, owed>>

\* The process ends.  The private files and the database stay.
Crash ==
    /\ op # Closed
    /\ count.fault < MaxFaults
    /\ WriteCutShort
    /\ op' = Closed
    /\ out' = {}
    /\ missing' = FALSE
    /\ count' = [count EXCEPT !.fault = @ + 1]
    /\ UNCHANGED <<captured, db, fd, gone, owed>>

\* open: every journaled intent is recovered.
Open ==
    /\ op = Closed
    /\ op' = [pc |-> "look", db |-> db, todo |-> db.intents]
    /\ UNCHANGED <<dir, data, store, user>>

\* judge: what the path says of an interrupted publish.
Judge(it) == CASE At(Path) = it.new    -> "published"
               [] At(Path) = it.expect -> "not published"
               [] OTHER                -> "drifted"

Left(name) == IF Exists(name) THEN {name} ELSE {}
Kept(names) == {Keeps(a, At(a)) : a \in names}

\* recover, a delete: by what the stash holds.
FoundDelete(it) ==
    LET ours == At(Stashed(it)) = it.expect
        back == Exists(Stashed(it)) /\ ~ours /\ ~Exists(Path) IN
    [state     |-> IF ~Exists(Stashed(it)) THEN Judge(it)
                   ELSE IF ours /\ ~Exists(Path) THEN "published" ELSE "drifted",
     act       |-> IF back THEN "return" ELSE "none",
     retained  |-> IF ours THEN Kept(Left(Stashed(it))) ELSE {},
     preserved |-> Left(Held(it)) \cup (IF ours \/ back THEN {} ELSE Left(Stashed(it)))]

\* recover, a write: by what the temp holds.  A create's temp was never at the path.
FoundWrite(it) ==
    LET ours == {a \in Left(Stashed(it)) : At(a) \in {it.expect, it.new}}
                  \cup {a \in Left(Tmp(it)) : At(a) \in {it.expect, it.new} \/ it.expect = None}
        theirs == (Left(Stashed(it)) \cup Left(Tmp(it))) \ ours
        back == Tmp(it) \in theirs /\ At(Path) = it.new IN
    [state     |-> IF Exists(Tmp(it)) /\ At(Tmp(it)) # it.new /\ it.expect # None
                   THEN IF Tmp(it) \in ours /\ At(Path) = it.new THEN "published" ELSE "drifted"
                   ELSE Judge(it),
     act       |-> IF back THEN "exchange" ELSE "none",
     retained  |-> Kept(ours),
     preserved |-> Left(Held(it)) \cup (IF back THEN theirs \ {Tmp(it)} ELSE theirs)]

\* The disk is read for the next intent, in the order of the names.
Look ==
    /\ op.pc = "look"
    /\ \E it \in op.todo :
           /\ \A x \in op.todo : it.n <= x.n
           /\ op' = [pc |-> "resolve", db |-> op.db, todo |-> op.todo \ {it}, next |-> it,
                     found |-> IF it.new = None THEN FoundDelete(it) ELSE FoundWrite(it)]
    /\ UNCHANGED <<dir, data, store, user>>

\* Mutant: our inode, exchanged back into the temp, is not retained.
ResolveForgets ==
    LET it == op.next
        f  == op.found
        tmp == IF f.act = "exchange" THEN Tmp(it) ELSE Stashed(it)
        done == f.act # "none" /\ Exists(Path) = (f.act = "exchange")
        held == IF f.act # "none" /\ ~done THEN {tmp} ELSE {} IN
    /\ op.pc = "resolve"
    /\ dir' = IF done THEN Exchanged(tmp, Path) ELSE dir
    /\ op' = [pc |-> "look", todo |-> op.todo,
              db |-> [op.db EXCEPT
                        !.known = IF f.state = "published" THEN Recorded(it.new) ELSE @,
                        !.retained = @ \cup f.retained,
                        !.evidence = @ \cup f.preserved \cup held,
                        !.intents = @ \ {it}]]
    /\ UNCHANGED <<data, store, user>>

\* A user's bytes go back to the path, if that is still possible; a publish that was
\* completed is recorded by another stat.
Resolve ==
    LET it == op.next
        f  == op.found
        tmp == IF f.act = "exchange" THEN Tmp(it) ELSE Stashed(it)
        done == f.act # "none" /\ Exists(Path) = (f.act = "exchange")
        kept == IF done /\ f.act = "exchange" THEN {Keeps(tmp, it.new)} ELSE {}
        held == IF f.act # "none" /\ ~done THEN {tmp} ELSE {} IN
    /\ op.pc = "resolve"
    /\ dir' = IF done THEN Exchanged(tmp, Path) ELSE dir
    /\ op' = [pc |-> "look", todo |-> op.todo,
              db |-> [op.db EXCEPT
                        !.known = IF f.state = "published" THEN Recorded(it.new) ELSE @,
                        !.retained = @ \cup f.retained \cup kept,
                        !.evidence = @ \cup f.preserved \cup held,
                        !.intents = @ \ {it}]]
    /\ UNCHANGED <<data, store, user>>

\* All of it is recorded in one write, and the store is open.
Recovered ==
    /\ op.pc = "look"
    /\ op.todo = {}
    /\ db' = op.db
    /\ op' = Idle
    /\ UNCHANGED <<dir, data, captured, out, missing, user>>

-----------------------------------------------------------------------------
(***************************************************************************)
(* Observation: what users wrote is handed to the replica.                 *)
(***************************************************************************)
Reported(rev) == \E o \in out : o.from = Path /\ o.seen.rev = rev
Emit(from, seen) == out' = out \cup {[from |-> from, seen |-> seen]}

\* Mutant: a file at a path that is not known waits for ever to be paired with a move.
CheckPathKnown ==
    /\ op = Idle
    /\ IF Exists(Path)
       THEN /\ missing' = FALSE
            /\ IF db.known.of = Meta(Path) \/ db.known = NoFile THEN UNCHANGED <<db, out>>
               ELSE IF db.known.rev = At(Path)
                    THEN db' = [db EXCEPT !.known = Seen] /\ UNCHANGED out
                    ELSE /\ IF Reported(At(Path)) THEN UNCHANGED out ELSE Emit(Path, Seen)
                         /\ UNCHANGED db
       ELSE /\ missing' = (missing \/ db.known # NoFile)
            /\ UNCHANGED <<db, out>>
    /\ UNCHANGED <<dir, data, captured, op, user>>

\* check_path: a file whose metadata is known is not read.  An empty one is believed at a
\* second look, which changes nothing here.
CheckPath ==
    /\ op = Idle
    /\ IF Exists(Path)
       THEN /\ missing' = FALSE
            /\ IF db.known.of = Meta(Path) THEN UNCHANGED <<db, out>>
               ELSE IF db.known.rev = At(Path)
                    THEN db' = [db EXCEPT !.known = Seen] /\ UNCHANGED out
                    ELSE /\ IF Reported(At(Path)) THEN UNCHANGED out ELSE Emit(Path, Seen)
                         /\ UNCHANGED db
       ELSE /\ missing' = (missing \/ db.known # NoFile)
            /\ UNCHANGED <<db, out>>
    /\ UNCHANGED <<dir, data, captured, op, user>>

\* settle_moves: the window has passed, and the file was missing at both looks.
EmitGone ==
    /\ op = Idle
    /\ missing
    /\ missing' = FALSE
    /\ IF Reported(None) THEN UNCHANGED out ELSE Emit(Path, NoFile)
    /\ UNCHANGED <<dir, data, captured, db, op, user>>

\* deliver_evidence.
Deliver(name) ==
    /\ op = Idle
    /\ name \in db.evidence
    /\ Exists(name)
    /\ \A o \in out : o.from # name
    /\ Emit(name, [rev |-> At(name), of |-> Meta(name)])
    /\ UNCHANGED <<dir, data, captured, db, missing, op, user>>

\* The replica commits what an observation says; the acknowledgement follows.
Capture(o) ==
    /\ op = Idle
    /\ o \in out
    /\ out' = out \ {o}
    /\ captured' = captured \cup ({o.seen.rev} \ {None})
    /\ owed' = owed \ {o.seen.rev}
    /\ op' = [pc |-> "ack", o |-> o]
    /\ UNCHANGED <<dir, data, fd, gone, db, missing, count>>

\* ack: the path is known as it was observed; an evidence file is removed first.
Ack ==
    /\ op.pc = "ack"
    /\ IF op.o.from = Path
       THEN /\ db' = [db EXCEPT !.known = op.o.seen]
            /\ op' = Idle
            /\ UNCHANGED <<dir, gone, owed>>
       ELSE /\ dir' = Removed(op.o.from)
            /\ gone' = IF CountLate THEN gone ELSE gone \cup {dir[op.o.from]}
            /\ owed' = IF CountLate THEN owed ELSE owed \ {At(op.o.from)}
            /\ op' = [pc |-> "drop", name |-> op.o.from]
            /\ UNCHANGED db
    /\ UNCHANGED <<data, captured, out, missing, fd, count>>

\* The row of a file that was removed.
DropRow ==
    /\ op.pc = "drop"
    /\ db' = [db EXCEPT !.evidence = @ \ {op.name},
                        !.retained = {r \in @ : r.name # op.name}]
    /\ op' = Idle
    /\ UNCHANGED <<dir, data, captured, out, missing, user>>

\* Mutant: a file that somebody is known to have open is taken for one nobody has.
OtherHoldersIgnored(name) == {"none"}

\* The answers of other_holders with which settle goes on; with any other it tries again
\* later.  Unknown of a file that nobody has open leads where None leads.
OtherHolders(name) ==
    IF Exists(name) /\ \E e \in Editors : fd[e] = dir[name]
    THEN {answer \in {"unknown"} : HoldersUnknown}
    ELSE {"none"}

\* settle, after the retention: unless it is known that somebody has the file open, it is
\* read, and what it was not retained with is a late write.
Settle(r) ==
    /\ op = Idle
    /\ r \in db.retained
    /\ \E holders \in OtherHolders(r.name) :
           IF Exists(r.name) /\ At(r.name) # r.expect
           THEN /\ db' = [db EXCEPT !.retained = @ \ {r}, !.evidence = @ \cup {r.name}]
                /\ UNCHANGED op
           ELSE /\ op' = [pc |-> "release", name |-> r.name, seen |-> At(r.name),
                          holders |-> holders]
                /\ UNCHANGED db
    /\ UNCHANGED <<dir, data, captured, out, missing, user>>

\* The file is removed, whatever it holds by now.
Release ==
    LET late == op.holders = "unknown" /\ ~CountLate IN
    /\ op.pc = "release"
    /\ dir' = Removed(op.name)
    /\ gone' = IF late THEN gone \cup {dir[op.name]} ELSE gone
    /\ owed' = IF late /\ At(op.name) # op.seen THEN owed \ {At(op.name)} ELSE owed
    /\ op' = [pc |-> "drop", name |-> op.name]
    /\ UNCHANGED <<data, store, fd, count>>

-----------------------------------------------------------------------------
PublishStep ==
    \/ WriteTemp \/ Create \/ Swap \/ Verify \/ Stash \/ Restore \/ ExchangeBack \/ Check
    \/ Hold \/ MoveAside \/ VerifyMoved \/ MoveBack \/ Record

RecoveryStep == Open \/ Look \/ Resolve \/ Recovered

Observing ==
    \/ CheckPath \/ EmitGone
    \/ \E name \in db.evidence : Deliver(name)

Settling == Release \/ \E r \in db.retained : Settle(r)
Capturing == \E o \in out : Capture(o)

Replica ==
    \E expect \in {None} \cup {b \in Range(data) : b[1] = "store"} \cup captured :
    \E new \in {None} \cup {<<"store", v>> : v \in 1..Versions} :
        Publish(expect, new)

User ==
    \E e \in Editors :
        \/ SaveByRename(e)
        \/ \E truncate \in BOOLEAN : OpenToWrite(e, truncate)
        \/ WriteAndClose(e)
        \/ UserDelete(e)

Next ==
    \/ User \/ Replica \/ PublishStep \/ Fail \/ Crash \/ RecoveryStep
    \/ Observing \/ Capturing \/ Ack \/ DropRow \/ Settling

Spec == Init /\ [][Next]_vars

\* The store's loop runs each of its parts again and again, the replica commits what it is
\* handed, and an editor writes what it opened a file for.
Fairness ==
    /\ WF_vars(PublishStep) /\ WF_vars(RecoveryStep) /\ WF_vars(Ack) /\ WF_vars(DropRow)
    /\ WF_vars(CheckPath) /\ WF_vars(EmitGone)
    /\ WF_vars(\E name \in db.evidence : Deliver(name))
    /\ WF_vars(Capturing) /\ WF_vars(Release)
    /\ WF_vars(\E r \in db.retained : Settle(r))
    /\ \A e \in Editors : WF_vars(WriteAndClose(e))

FairSpec == Spec /\ Fairness

-----------------------------------------------------------------------------
(***************************************************************************)
(* Properties.                                                             *)
(***************************************************************************)
Covered(name) ==
    \/ \E it \in db.intents : it.n = name[2]
    \/ \E r \in db.retained : r.name = name
    \/ name \in db.evidence

\* Names link to files, private names are taken from the counter, and a publish in progress
\* has its intent in the journal.
FileTypeOK ==
    /\ \A name \in Names : dir[name] \in 0..Len(data)
    /\ \A name \in Private : Exists(name) => name[2] < db.next
    /\ Publishing => op.it \in db.intents
    /\ db.evidence \subseteq Private
    /\ \A o \in out : o.from \in Names

\* publish, recover, settle and ack never lose what a user wrote: until it is handed to the
\* replica it is at the path or in a private file that the database knows of.  Where CountLate
\* is false this leaves out what is written into a file after the store's last look at it: an
\* evidence file that is being acknowledged and, if its holders are unknown, a retained one
\* that is being released.
NothingLost ==
    \A v \in owed : \E name \in Names :
        At(name) = v /\ (name = Path \/ Covered(name))

\* No private file is forgotten, whatever the crash, the error or the recovery that ran
\* twice: each belongs to an intent, a retained or an evidence row.
NoOrphans == \A name \in Private : Exists(name) => Covered(name)

\* record_published "records it as ours", and what disagrees is read again: a file that
\* check_path skips, because its metadata is known, holds the known revision.
KnownIsTrue ==
    Exists(Path) /\ db.known.of = Meta(Path) => db.known.rev = At(Path)

\* What the comparison of sizes gives: a file that check_path skips, because its metadata is
\* known, holds the known revision or a user's save of its very size, and never another
\* version of the store's own, nothing at all, or a save of another size.
KnownUpToSize ==
    Exists(Path) /\ db.known.of = Meta(Path) =>
        \/ db.known.rev = At(Path)
        \/ Users(At(Path)) /\ SizeOf(At(Path)) = SizeOf(db.known.rev)

\* What a user wrote is handed to the replica or replaced by the user, with three exceptions:
\* it lies in a private file of a publish that failed, and waits for the next open; it is at
\* the path, taken for the published version because it has its size; or, where CountLate is
\* false, it came after the store's last look at the file, and was never owed.
UserEditsCaptured ==
    \A n \in 1..MaxSaves :
        []<>(\/ <<"user", n>> \notin owed
             \/ op = Idle /\ \E it \in db.intents :
                    <<"user", n>> \in {At(Tmp(it)), At(Stashed(it)), At(Held(it))}
             \/ At(Path) = <<"user", n>> /\ db.known.of = Meta(Path) /\ n \in SameSize)
=============================================================================
