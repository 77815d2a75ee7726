------------------------------ MODULE LogBackup ------------------------------
(***************************************************************************)
(* The backup of a collection while it is written, its strict restore into *)
(* an empty target, and the deletion that may race the restore, on the     *)
(* Durable Object backend (deploy/cloudflare-do: backup.rs,                *)
(* restore_aux.rs, deletion_registry.rs, collection_closing.rs,            *)
(* destination_denial.rs, DoTxn::commit; log-service: import,              *)
(* import_object, import_snapshot, delete_log, restore_plan.rs).           *)
(*                                                                         *)
(* A log's tables are functions from the sections of a backup to sets of   *)
(* rows, each with the key the section is ordered by.  Items and objects   *)
(* have size 1.  A row's `at` is what a restore cannot recompute: when the *)
(* item was appended, the object created, the token taken.  The hash chain *)
(* of the pages is the sequence of pages it commits to, an inventory       *)
(* digest the set of rows it binds.  The control plane that drives both    *)
(* sides is an environment: it repeats, reorders and abandons its calls.   *)
(***************************************************************************)
EXTENDS Integers, Sequences, FiniteSets, FiniteSetsExt

CONSTANTS
    MaxObject,    \* addresses are 1..MaxObject
    Settings,     \* quotas, retention tier and creation time, as one value
    Deletions,    \* deletion identities the control plane may ask for
    None,
    PageRows,     \* the rows of a backup page
    ImportItems,  \* bound: the items of an import page
    MaxOps,       \* bound: writes to the source
    MaxSessions   \* bound: backups begun

ASSUME BackupAssumption ==
    /\ {MaxObject, PageRows, ImportItems, MaxOps, MaxSessions} \subseteq Nat \ {0}
    /\ None \notin Deletions \cup Settings
    /\ Settings # {}

VARIABLES
    src,       \* the source's log
    ops,       \* writes to the source, which is also its clock
    cut,       \* the source's backup_cut row, with its copied tables
    archive,   \* what the control plane has of a backup; the rows of `log` are history
    dst,       \* the target's log, its status and its restore_aux row
    writer,    \* the target transaction that waits for the registry's answer
    uploads,   \* addresses whose import_object has passed its check of the status
    floor,     \* the registry's deletion floor
    closing,   \* the registry's closing
    denied     \* the target's log_destination_denial

sourceVars == <<src, ops, cut, archive>>
targetVars == <<dst, writer, uploads>>
registryVars == <<floor, closing, denied>>
vars == <<sourceVars, targetVars, registryVars>>

Items == 1
Snapshots == 2
Refs == 3
Objects == 4
Tokens == 5
Sections == 1..5
Sent == 6        \* backup_cut.section once every section was sent
Finished == 7    \* and once the backup is finished

\* Items at the target are appended, and objects created, at the time of the restore.
RestoreTime == 0

-----------------------------------------------------------------------------
(***************************************************************************)
(* The tables and what DoTxn::commit writes to them.                       *)
(***************************************************************************)
Blank == [s \in Sections |-> {}]

\* object_refs rows of one holder; rowids grow with time.
RefRows(addresses, isSnapshot, holder, at) ==
    {[key |-> at * (MaxObject + 1) + a, address |-> a, snapshot |-> isSnapshot,
      holder |-> holder] : a \in addresses}

\* Write::InsertItem for each item: the item, the token of an entry, its references.
InsertItems(rows, items) ==
    [rows EXCEPT
        ![Items] = @ \cup items,
        ![Refs] = @ \cup UNION {RefRows({i.ref} \ {0}, FALSE, i.key, i.at) : i \in items},
        ![Tokens] = @ \cup {[key |-> i.key, at |-> i.at] : i \in {j \in items : j.entry}}]

InsertItem(rows, i) == InsertItems(rows, {i})

InsertObject(rows, a, at) == [rows EXCEPT ![Objects] = @ \cup {[key |-> a, at |-> at]}]

\* Write::InsertSnapshot: the pointer and its references.
InsertSnapshot(rows, s, addresses, at) ==
    [rows EXCEPT ![Snapshots] = @ \cup {s},
                 ![Refs] = @ \cup RefRows(addresses, TRUE, s.key, at)]

Committed(log) == {o.key : o \in log.rows[Objects]}
Referenced(log) == {r.address : r \in log.rows[Refs]}

\* A collection after its genesis, one object that an entry names, a control item and a
\* snapshot that may be endorsed.
FirstRows(endorsed) ==
    LET genesis == InsertItem(Blank, [key |-> 1, entry |-> FALSE, ref |-> 0, at |-> 1])
        object == InsertObject(genesis, 1, 2)
        entry == InsertItem(object, [key |-> 2, entry |-> TRUE, ref |-> 1, at |-> 3])
        control == InsertItem(entry, [key |-> 3, entry |-> FALSE, ref |-> 0, at |-> 4])
    IN InsertSnapshot(control, [key |-> 3, manifest |-> 1, endorsed |-> endorsed], {1}, 5)

FirstOps == 5

\* A log with no rows, as CollectionMeta::new makes it.
NewLog == [head |-> 0, retained_from |-> 1, used_bytes |-> 0, settings |-> None,
           rows |-> Blank]

NoCut == [session |-> 0, valid |-> FALSE, head |-> 0, section |-> 1, sent |-> << >>,
          objects |-> {}, tokens |-> {}]
NoArchive == [session |-> 0, log |-> NewLog, pages |-> << >>, complete |-> FALSE]
NoAux == [begun |-> FALSE, page |-> 0, done |-> FALSE]

Absent == [status |-> "absent", log |-> NewLog, aux |-> NoAux, timed |-> FALSE]

Init ==
    /\ \E endorsed \in BOOLEAN :
           src = [head |-> 3, retained_from |-> 1, used_bytes |-> 4,
                  settings |-> CHOOSE q \in Settings : TRUE, rows |-> FirstRows(endorsed)]
    /\ ops = FirstOps
    /\ cut = NoCut
    /\ archive = NoArchive
    /\ dst = Absent
    /\ writer = None
    /\ uploads = {}
    /\ floor = None
    /\ closing = None
    /\ denied = FALSE
-----------------------------------------------------------------------------
(***************************************************************************)
(* The source is written while it is backed up.                            *)
(***************************************************************************)

\* Mutant: a lease does not hold off compaction.
BackupGuardCompacts(kind) ==
    /\ cut.valid /\ cut.section # Finished => kind \notin {"gc", "snapshot", "settings"}
    /\ cut' = IF kind = "control" THEN [cut EXCEPT !.valid = FALSE] ELSE cut

\* backup_guard, before the effects of a commit: a control item invalidates a backup; what
\* would change the cut is refused as long as its lease lasts.
BackupGuard(kind) ==
    /\ cut.valid /\ cut.section # Finished => kind \notin {"gc", "snapshot", "compact", "settings"}
    /\ cut' = IF kind = "control" THEN [cut EXCEPT !.valid = FALSE] ELSE cut

\* A commit at the source.
Write(kind, log) ==
    /\ ~archive.complete
    /\ ops < FirstOps + MaxOps
    /\ ops' = ops + 1
    /\ BackupGuard(kind)
    /\ src' = log
    /\ UNCHANGED <<archive, targetVars, registryVars>>

\* An append of one item, an entry that may name an object or a control item.
Append1(entry, ref) ==
    /\ ref # 0 => entry /\ ref \in Committed(src)
    /\ Write(IF entry THEN "entry" ELSE "control",
             [src EXCEPT !.head = @ + 1, !.used_bytes = @ + 1,
                         !.rows = InsertItem(@, [key |-> src.head + 1, entry |-> entry,
                                                 ref |-> ref, at |-> ops + 1])])

PutObject(a) ==
    /\ a \notin Committed(src)
    /\ Write("object", [src EXCEPT !.used_bytes = @ + 1,
                                   !.rows = InsertObject(@, a, ops + 1)])

\* gc of one object that nothing references (and that is old enough).
Gc(a) ==
    /\ a \in Committed(src) \ Referenced(src)
    /\ Write("gc", [src EXCEPT !.used_bytes = @ - 1,
                               !.rows[Objects] = {o \in @ : o.key # a}])

\* put_snapshot keeps the two newest snapshots.
PutSnapshot(m) ==
    LET s == [key |-> src.head, manifest |-> m, endorsed |-> FALSE]
        all == InsertSnapshot(src.rows, s, {m}, ops + 1)
        dropped == {x \in all[Snapshots] :
                        Cardinality({y \in all[Snapshots] : y.key >= x.key}) > 2}
    IN /\ m \in Committed(src)
       /\ \A x \in src.rows[Snapshots] : x.key < src.head
       /\ Write("snapshot",
                [src EXCEPT !.rows = [all EXCEPT
                    ![Snapshots] = @ \ dropped,
                    ![Refs] = {r \in @ : ~(r.snapshot /\ r.holder \in {x.key : x \in dropped})}]])

EndorseSnapshot(s) ==
    /\ ~s.endorsed
    /\ Write("snapshot", [src EXCEPT !.rows[Snapshots] = (@ \ {s}) \cup
                                                         {[s EXCEPT !.endorsed = TRUE]}])

\* compact through c, below an endorsed snapshot; the tokens of deleted entries go once
\* they have expired.
Compact(c, expired) ==
    LET gone == {i \in src.rows[Items] : i.entry /\ i.key <= c}
        keys == {i.key : i \in gone}
    IN /\ c >= src.retained_from
       /\ \E s \in src.rows[Snapshots] : s.endorsed /\ c < s.key
       /\ Write("compact",
                [src EXCEPT
                    !.retained_from = c + 1,
                    !.used_bytes = @ - Cardinality(gone),
                    !.rows[Items] = @ \ gone,
                    !.rows[Refs] = {r \in @ : r.snapshot \/ r.holder \notin keys},
                    !.rows[Tokens] = {t \in @ : ~expired \/ t.key \in
                                          {i.key : i \in src.rows[Items] \ gone}}])

SetQuota(q) == q # src.settings /\ Write("settings", [src EXCEPT !.settings = q])
-----------------------------------------------------------------------------
(***************************************************************************)
(* The backup.  A reply may be lost.                                       *)
(***************************************************************************)
Cut == ~archive.complete /\ UNCHANGED <<src, ops, targetVars, registryVars>>

\* backup_begin: refused while another backup's lease lasts.
BackupBegin(received) ==
    /\ Cut
    /\ ~(cut.valid /\ cut.section # Finished)
    /\ cut.session < MaxSessions
    /\ cut' = [session |-> cut.session + 1, valid |-> TRUE, head |-> src.head, section |-> 1,
               sent |-> << >>, objects |-> src.rows[Objects],
               tokens |-> {t \in src.rows[Tokens] : t.key <= src.head}]
    /\ archive' = IF received
                  THEN [NoArchive EXCEPT !.session = cut.session + 1, !.log = src]
                  ELSE archive

\* What a section of the cut is read from.
CutRows(s) ==
    CASE s = Refs -> {r \in src.rows[Refs] : r.holder <= cut.head}
      [] s = Objects -> cut.objects
      [] s = Tokens -> cut.tokens
      [] OTHER -> {r \in src.rows[s] : r.key <= cut.head}

\* The last key a page of the section has carried.
After(s) ==
    Max({0} \cup UNION {{r.key : r \in cut.sent[p].rows} :
                            p \in {q \in 1..Len(cut.sent) : cut.sent[q].section = s}})

\* The next rows of the section in key order; an empty page ends it.
PageOf(s) ==
    LET rest == {r \in CutRows(s) : r.key > After(s)}
    IN {r \in rest : Cardinality({q \in rest : q.key <= r.key}) <= PageRows}

Calling == archive.session = cut.session /\ cut.valid

\* backup_page for the page after the last one sent.
BackupPage(received) ==
    LET page == [section |-> cut.section, rows |-> PageOf(cut.section)] IN
    /\ Cut
    /\ Calling
    /\ cut.section \in Sections
    /\ archive.pages = cut.sent
    /\ cut' = [cut EXCEPT !.sent = Append(@, page),
                          !.section = IF page.rows = {} THEN @ + 1 ELSE @]
    /\ archive' = IF received THEN [archive EXCEPT !.pages = Append(@, page)] ELSE archive

\* backup_page for the last page again, after its reply was lost.
BackupPageAgain ==
    LET n == Len(cut.sent) IN
    /\ Cut
    /\ Calling
    /\ n > 0
    /\ archive.pages = SubSeq(cut.sent, 1, n - 1)
    /\ archive' = [archive EXCEPT !.pages = Append(@, cut.sent[n])]
    /\ UNCHANGED cut

\* The rows of a section in the pages received.
Archived(s) ==
    UNION {archive.pages[p].rows : p \in {q \in 1..Len(archive.pages) :
                                              archive.pages[q].section = s}}

\* backup_finish, with the hash of the last page, once the control plane has fetched the
\* objects' bytes; the archive is complete when the answer arrives.
BackupFinish(received) ==
    /\ Cut
    /\ Calling
    /\ cut.section \in {Sent, Finished}
    /\ archive.pages = cut.sent
    /\ cut' = [cut EXCEPT !.section = Finished]
    /\ archive' = [archive EXCEPT !.complete = received]

\* backup_abort, or the lease runs out.
BackupAbort ==
    /\ Cut
    /\ cut.valid
    /\ cut' = [cut EXCEPT !.valid = FALSE]
    /\ UNCHANGED archive

\* The source is lost, and its restore may begin.
LoseSource ==
    /\ archive.complete
    /\ src # NewLog
    /\ src' = NewLog
    /\ ops' = FirstOps
    /\ cut' = NoCut
    /\ UNCHANGED <<archive, targetVars, registryVars>>
-----------------------------------------------------------------------------
(***************************************************************************)
(* The registry and the local denial.                                      *)
(***************************************************************************)

\* registry_record_collection_deletion: the first identity stays.
RecordCollectionDeletion(d) ==
    /\ floor = None
    /\ closing = None
    /\ floor' = d
    /\ UNCHANGED <<sourceVars, targetVars, closing, denied>>

\* registry_begin_collection_closing.
BeginCollectionClosing(d) ==
    /\ floor = None
    /\ closing = None
    /\ closing' = d
    /\ UNCHANGED <<sourceVars, targetVars, floor, denied>>

\* collection_destination_close: synchronous, it does not wait for the writer.
DestinationClose ==
    /\ ~denied
    /\ denied' = TRUE
    /\ UNCHANGED <<sourceVars, targetVars, floor, closing>>

-----------------------------------------------------------------------------
(***************************************************************************)
(* The restore.  A call takes the producer lock, prepares its writes and   *)
(* asks the registry (Publish); what it has prepared is committed when the *)
(* registry has answered (Commit).                                         *)
(***************************************************************************)
\* The plan and the settings, from the header of the archive.
Plan == [archive.log EXCEPT !.rows = Blank]

\* What identifies a row apart from its times and its rowid.
Bare(s, r) ==
    CASE s = Items -> <<r.key, r.entry, r.ref>>
      [] s = Refs -> <<r.address, r.snapshot, r.holder>>
      [] s = Objects -> r.key
      [] OTHER -> r
BareRows(s, rows) == {Bare(s, r) : r \in rows}

\* The references of an archived snapshot.
EdgesOf(s) == {r.address : r \in {q \in Archived(Refs) : q.snapshot /\ q.holder = s.key}}

\* refuse_destination_denial and refuse_deletion_floor, under the lock.
Publish(new) ==
    /\ archive.complete /\ src = NewLog
    /\ writer = None
    /\ ~denied
    /\ floor = None /\ closing = None
    /\ writer' = new
    /\ UNCHANGED <<sourceVars, dst, registryVars>>

\* restore_aux_guard for a commit that inserts items or snapshots, and one that goes live.
RestoreAuxGuard(inserts, goesLive) ==
    dst.aux.begun =>
        /\ goesLive => dst.aux.done
        /\ inserts => dst.aux.page = 0

\* Every item of the page is new, in order, and follows the one before it or a gap that
\* compaction left.
PageFollows(log, page) ==
    \A i \in page :
        LET before == {log.head} \cup {j.key : j \in {k \in page : k.key < i.key}} IN
        /\ i.key > log.head
        /\ \/ i.key = Max(before) + 1
           \/ Max(before) # 0 /\ i.key <= Plan.retained_from

\* Mutant: trusts the accounting and compares no inventory.
VerifyAccounting(log) ==
    /\ <<log.used_bytes, log.head>> = <<Plan.used_bytes, Plan.head>>
    /\ BareRows(Items, log.rows[Items]) = BareRows(Items, Archived(Items))

\* RestorePlan::verify: accounting, items, objects, snapshots with their references.
Verify(log) ==
    /\ <<log.used_bytes, log.head>> = <<Plan.used_bytes, Plan.head>>
    /\ BareRows(Items, log.rows[Items]) = BareRows(Items, Archived(Items))
    /\ Committed(log) = {o.key : o \in Archived(Objects)}
    /\ log.rows[Snapshots] = Archived(Snapshots)
    /\ \A s \in log.rows[Snapshots] :
           {r.address : r \in {q \in log.rows[Refs] : q.snapshot /\ q.holder = s.key}}
               = EdgesOf(s)

\* import: a page of archived items, with the plan and the settings if the target is empty,
\* and with the completion if the control plane thinks that it is the last.
Import(page, done) ==
    LET created == dst.status = "absent"
        log == IF created THEN [NewLog EXCEPT !.settings = Plan.settings] ELSE dst.log
        new == [log EXCEPT
                   !.head = Max({@} \cup {i.key : i \in page}),
                   !.used_bytes = @ + Cardinality(page),
                   !.retained_from = IF done THEN Plan.retained_from ELSE @,
                   !.rows = InsertItems(@, {[i EXCEPT !.at = RestoreTime] : i \in page})]
    IN /\ dst.status \in {"absent", "importing"}
       /\ created => page # {}
       /\ PageFollows(log, page)
       /\ \A i \in page : i.ref # 0 => i.ref \in Committed(log)
       /\ new.used_bytes <= Plan.used_bytes /\ new.head <= Plan.head
       /\ done => Verify(new)
       /\ RestoreAuxGuard(page # {}, done)
       /\ Publish([dst EXCEPT !.status = IF done THEN "live" ELSE "importing",
                              !.log = new,
                              !.timed = done /\ dst.aux.begun,
                              !.aux = IF done THEN NoAux ELSE @])
       /\ UNCHANGED uploads

\* import_object up to the write-once put of the bytes.
ImportObject(a) ==
    /\ archive.complete /\ src = NewLog
    /\ a \in {o.key : o \in Archived(Objects)} \ uploads
    /\ dst.status = "importing"
    /\ floor = None /\ closing = None
    /\ uploads' = uploads \cup {a}
    /\ UNCHANGED <<sourceVars, dst, writer, registryVars>>

\* record_object: the first row stays; an import is bounded by the plan.
RecordObject(a) ==
    /\ a \in uploads
    /\ dst.status # "gone"
    /\ a \notin Committed(dst.log)
    /\ dst.log.used_bytes + 1 <= Plan.used_bytes
    /\ Publish([dst EXCEPT !.log.used_bytes = @ + 1,
                           !.log.rows = InsertObject(@, a, RestoreTime)])
    /\ uploads' = uploads \ {a}

\* import_object ends without a commit: the row is there, an error, or a cancelled call.
ObjectDone(a) ==
    /\ a \in uploads
    /\ uploads' = uploads \ {a}
    /\ UNCHANGED <<sourceVars, dst, writer, registryVars>>

\* import_snapshot, for a snapshot that the target does not have yet.
ImportSnapshot(s) ==
    /\ dst.status = "importing"
    /\ s.key <= dst.log.head
    /\ s.key \notin {x.key : x \in dst.log.rows[Snapshots]}
    /\ s.manifest \in EdgesOf(s)
    /\ EdgesOf(s) \subseteq Committed(dst.log)
    /\ RestoreAuxGuard(TRUE, FALSE)
    /\ Publish([dst EXCEPT !.log.rows = InsertSnapshot(@, s, EdgesOf(s), RestoreTime)])
    /\ UNCHANGED uploads

\* restore_aux_begin; again it answers with the progress and changes nothing.
RestoreAuxBegin ==
    /\ dst.status = "importing"
    /\ ~dst.aux.begun
    /\ Publish([dst EXCEPT !.aux.begun = TRUE])
    /\ UNCHANGED uploads

\* The rows of a page are in the target; tokens of compacted entries need not be.
Matches(page) ==
    page.section # Tokens =>
        BareRows(page.section, page.rows) \subseteq
            BareRows(page.section, dst.log.rows[page.section])

\* A page of items or objects gives them their times.
Timed(rows, page) ==
    IF page.section \in {Items, Objects}
    THEN [rows EXCEPT ![page.section] =
             {r \in @ : Bare(page.section, r) \notin BareRows(page.section, page.rows)}
                 \cup page.rows]
    ELSE rows

\* restore_aux_page: the pages in their order, over a complete inventory; the last one
\* compares the counts and puts the archived tokens in place.  The last page again changes
\* nothing.
RestoreAuxPage ==
    LET page == archive.pages[dst.aux.page + 1]
        last == dst.aux.page + 1 = Len(archive.pages)
        rows == Timed(dst.log.rows, page)
    IN /\ dst.status = "importing"
       /\ dst.aux.begun
       /\ dst.aux.page < Len(archive.pages)
       /\ <<dst.log.head, dst.log.used_bytes>> = <<Plan.head, Plan.used_bytes>>
       /\ Matches(page)
       /\ last => \A s \in Sections \ {Tokens} :
                      Cardinality(dst.log.rows[s]) = Cardinality(Archived(s))
       /\ Publish([dst EXCEPT
             !.aux = [begun |-> TRUE, page |-> dst.aux.page + 1, done |-> last],
             !.log.rows = IF last THEN [rows EXCEPT ![Tokens] = Archived(Tokens)] ELSE rows])
       /\ UNCHANGED uploads

\* Mutant: does not look at the denial again.
CommitUnfenced ==
    /\ writer # None
    /\ writer' = None
    /\ dst' = writer
    /\ UNCHANGED <<sourceVars, uploads, registryVars>>

\* The registry has answered: the denial is looked at again, inside the transaction.
Commit ==
    /\ writer # None
    /\ writer' = None
    /\ dst' = IF denied THEN dst ELSE writer
    /\ UNCHANGED <<sourceVars, uploads, registryVars>>

\* The registry does not answer, the call is cancelled or the actor restarts.
Cancel ==
    /\ writer # None
    /\ writer' = None
    /\ UNCHANGED <<sourceVars, dst, uploads, registryVars>>

\* delete_log with the floor's identity; it publishes nothing, so no denial stops it.
DeleteLog ==
    /\ floor # None
    /\ writer = None
    /\ dst.status \in {"importing", "live"}
    /\ dst' = [dst EXCEPT !.status = "gone"]
    /\ UNCHANGED <<sourceVars, writer, uploads, registryVars>>
-----------------------------------------------------------------------------
\* Pages an import may carry: a run of archived items.
ImportPages ==
    {{i \in Archived(Items) : i.key \in from..to} : from, to \in 1..Plan.head}

SourceStep ==
    \/ \E entry \in BOOLEAN, ref \in 0..MaxObject : Append1(entry, ref)
    \/ \E a \in 1..MaxObject : PutObject(a) \/ Gc(a) \/ PutSnapshot(a)
    \/ \E s \in src.rows[Snapshots] : EndorseSnapshot(s)
    \/ \E c \in 1..src.head, expired \in BOOLEAN : Compact(c, expired)
    \/ \E q \in Settings : SetQuota(q)

BackupStep ==
    \/ \E received \in BOOLEAN :
           BackupBegin(received) \/ BackupPage(received) \/ BackupFinish(received)
    \/ BackupPageAgain
    \/ BackupAbort
    \/ LoseSource

RestoreStep ==
    \/ \E page \in {p \in ImportPages : Cardinality(p) <= ImportItems}, done \in BOOLEAN :
           Import(page, done)
    \/ \E a \in 1..MaxObject : ImportObject(a) \/ RecordObject(a) \/ ObjectDone(a)
    \/ \E s \in Archived(Snapshots) : ImportSnapshot(s)
    \/ RestoreAuxBegin
    \/ RestoreAuxPage
    \/ Commit
    \/ Cancel

\* (A deletion before the restore would refuse every call of it.)
DeletionStep ==
    /\ dst # Absent \/ writer # None
    /\ \/ \E d \in Deletions : RecordCollectionDeletion(d) \/ BeginCollectionClosing(d)
       \/ DestinationClose
       \/ DeleteLog

Next == SourceStep \/ BackupStep \/ RestoreStep \/ DeletionStep

Spec == Init /\ [][Next]_vars
-----------------------------------------------------------------------------
(***************************************************************************)
(* Properties.                                                             *)
(***************************************************************************)

\* The pages of a finished backup are the log as it was when the backup began, whatever
\* was written in between and whichever replies were lost; and until then every object of
\* the cut can still be fetched (backup_guard, backup_page).
ArchiveIsCut ==
    /\ archive.complete =>
           \A s \in Sections : Archived(s) = archive.log.rows[s]
    /\ cut.valid /\ cut.section # Finished => cut.objects \subseteq src.rows[Objects]

\* A target that goes live after a strict restore is the source at the cut: the same
\* items, objects, snapshots, references, accounting and settings; with the auxiliary
\* pages also the same times and tokens (import, RestorePlan::verify, restore_aux_page).
RestoredIsCut ==
    dst.status = "live" =>
        LET cutLog == archive.log IN
        /\ [dst.log EXCEPT !.rows = Blank] = [cutLog EXCEPT !.rows = Blank]
        /\ \A s \in Sections \ {Tokens} :
               BareRows(s, dst.log.rows[s]) = BareRows(s, cutLog.rows[s])
        /\ dst.timed => \A s \in {Items, Objects, Tokens} : dst.log.rows[s] = cutLog.rows[s]

\* Once the destination is denied or the collection deleted, nothing more is published and
\* it never goes live, whatever was waiting at that moment (DoTxn::commit,
\* destination_denial.rs, delete_log).
DenialIsFinal ==
    [][denied \/ dst.status = "gone" =>
           /\ dst'.log = dst.log
           /\ dst'.status \in {dst.status, "gone"}]_vars
=============================================================================
